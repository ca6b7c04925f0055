---------------------------- MODULE EngineProofs ----------------------------
(***************************************************************************)
(* The locking protocol of Engine, for any number of Python threads, any   *)
(* parameters, values, queue size and number of attempts.                  *)
(***************************************************************************)
EXTENDS Engine, TLAPS

\* A setter has its command until it returns, and pushes while it has tries
\* left; only Python threads start, stop and render.
CallInv ==
  /\ pc[OscThread] \notin {"start", "stop", "render?", "render"}
  /\ \A t \in Threads :
       /\ pc[t] \in SharedPCs \union {"lock"} => call[t] \in Commands
       /\ pc[t] \in {"lock", "check", "push"} => tries[t] < kPushAttempts

\* std::shared_mutex: shared holders and an exclusive one exclude each other,
\* and a thread holds it exactly while it is in the code that needs it.
LockInv ==
  /\ writer # None => readers = {}
  /\ \A t \in Threads : t \in readers <=> pc[t] \in SharedPCs
  /\ \A t \in Threads : writer = t <=> pc[t] \in ExclusivePCs

\* A Python thread holds the GIL through a setter and through a render.
GilInv == \A t \in PyThreads : gil = t <=> pc[t] \in SharedPCs \union {"lock", "render"}

\* What a thread that holds the mutex knows of the flag, the device and the
\* callback.
RunInv ==
  /\ live => running
  /\ audio # "idle" => running
  /\ \A t \in Threads :
       /\ pc[t] = "push" => running
       /\ pc[t] = "apply" => ~running
       /\ pc[t] = "device" => running /\ ~live /\ audio = "idle"
       /\ pc[t] = "join" => running /\ ~live
       /\ pc[t] = "lower" => running /\ ~live /\ audio = "idle"
       /\ pc[t] = "drain" => ~running

\* A stopped engine holds commands only while they are being drained.
StrandInv == ~running /\ (\A t \in Threads : pc[t] # "drain") => queue = << >> /\ osc_queue = << >>

IInv == TypeOK /\ CallInv /\ LockInv /\ GilInv /\ RunInv /\ StrandInv

\* A new engine, stopped and with empty queues, satisfies the invariant.
LEMMA InitIInv == Init => IInv
<1> SUFFICES ASSUME Init PROVE IInv
  OBVIOUS
<1> USE DEF Init
<1>1. TypeOK
  <2>1. NoCommand \in Commands \union {NoCommand}
    OBVIOUS
  <2>2. call \in [Threads -> Commands \union {NoCommand}]
    BY <2>1
  <2>3. tries \in [Threads -> 0 .. kPushAttempts]
    BY BoundsAssumption
  <2>4. mirror \in [Params -> Values] /\ dsp \in [Params -> Values]
    BY ValuesAssumption
  <2>5. pc \in [Threads -> PCs]
    BY DEF PCs
  <2>6. queue \in Seq(Commands) /\ osc_queue \in Seq(Commands)
    OBVIOUS
  <2> QED BY <2>2, <2>3, <2>4, <2>5, <2>6 DEF TypeOK
<1>2. CallInv /\ LockInv /\ GilInv /\ RunInv /\ StrandInv
  BY ThreadsAssumption
    DEF CallInv, LockInv, GilInv, RunInv, StrandInv, SharedPCs, ExclusivePCs, Threads
<1> QED BY <1>1, <1>2 DEF IInv

\* A drain step keeps the queues sequences of commands and the parameters typed.
LEMMA DrainTypes ==
  ASSUME TypeOK, PopQueue \/ PopOscQueue
  PROVE  /\ queue' \in Seq(Commands) /\ osc_queue' \in Seq(Commands)
         /\ dsp' \in [Params -> Values]
<1> DEFINE q == IF PopQueue THEN queue ELSE osc_queue
<1>1. q \in Seq(Commands) /\ q # << >>
  BY DEF TypeOK, PopQueue, PopOscQueue
<1>2. Head(q) \in Commands /\ Tail(q) \in Seq(Commands)
  BY <1>1
<1>3. Head(q).param \in Params /\ Head(q).value \in Values
  BY <1>2 DEF Commands
<1>4. dsp' = [dsp EXCEPT ![Head(q).param] = Head(q).value]
  BY DEF PopQueue, PopOscQueue, Apply
<1>5. dsp' \in [Params -> Values]
  BY <1>3, <1>4 DEF TypeOK
<1> QED BY <1>2, <1>5 DEF TypeOK, PopQueue, PopOscQueue

\* So does a push.
LEMMA EnqueueTypes ==
  ASSUME TypeOK, NEW t \in Threads, call[t] \in Commands, Enqueue(t)
  PROVE  queue' \in Seq(Commands) /\ osc_queue' \in Seq(Commands)
<1>1. Append(queue, call[t]) \in Seq(Commands) /\ Append(osc_queue, call[t]) \in Seq(Commands)
  BY DEF TypeOK
<1>2. CASE t \in PyThreads
  BY <1>1, <1>2 DEF TypeOK, Enqueue
<1>3. CASE t \notin PyThreads
  BY <1>1, <1>3 DEF TypeOK, Enqueue
<1> QED BY <1>2, <1>3

\* Every step of a caller and of the audio callback keeps the invariant.
LEMMA NextIInv == IInv /\ [Next]_vars => IInv'
<1> SUFFICES ASSUME IInv, [Next]_vars PROVE IInv'
  OBVIOUS
<1> USE ThreadsAssumption, BoundsAssumption
    DEF IInv, SharedPCs, ExclusivePCs, Threads, locks, queues, params, Goto
<1>1. ASSUME NEW t \in Threads, NEW c \in Commands, Set(t, c)
      PROVE  IInv'
  <2>1. TypeOK'
    BY <1>1 DEF Set, Call, TypeOK, CallInv, PCs, Commands
  <2>2. CallInv'
    BY <1>1 DEF Set, Call, TypeOK, CallInv
  <2>3. LockInv' /\ GilInv'
    BY <1>1 DEF Set, Call, TypeOK, CallInv, LockInv, GilInv
  <2>4. RunInv'
    BY <1>1 DEF Set, Call, TypeOK, LockInv, RunInv
  <2>5. StrandInv'
    BY <1>1 DEF Set, Call, TypeOK, LockInv, RunInv, StrandInv
  <2> QED BY <2>1, <2>2, <2>3, <2>4, <2>5
<1>2. ASSUME NEW t \in Threads, NEW w \in {"start", "stop"}, StartStop(t, w)
      PROVE  IInv'
  <2>1. TypeOK'
    BY <1>2 DEF StartStop, Call, TypeOK, CallInv, PCs
  <2>2. CallInv'
    BY <1>2 DEF StartStop, Call, TypeOK, CallInv
  <2>3. LockInv' /\ GilInv'
    BY <1>2 DEF StartStop, Call, TypeOK, CallInv, LockInv, GilInv
  <2>4. RunInv'
    BY <1>2 DEF StartStop, Call, TypeOK, LockInv, RunInv
  <2>5. StrandInv'
    BY <1>2 DEF StartStop, Call, TypeOK, LockInv, RunInv, StrandInv
  <2> QED BY <2>1, <2>2, <2>3, <2>4, <2>5
<1>3. ASSUME NEW t \in Threads, Render(t)
      PROVE  IInv'
  <2>1. TypeOK'
    BY <1>3 DEF Render, Call, TypeOK, CallInv, PCs
  <2>2. CallInv'
    BY <1>3 DEF Render, Call, TypeOK, CallInv
  <2>3. LockInv' /\ GilInv'
    BY <1>3 DEF Render, Call, TypeOK, CallInv, LockInv, GilInv
  <2>4. RunInv'
    BY <1>3 DEF Render, Call, TypeOK, LockInv, RunInv
  <2>5. StrandInv'
    BY <1>3 DEF Render, Call, TypeOK, LockInv, RunInv, StrandInv
  <2> QED BY <2>1, <2>2, <2>3, <2>4, <2>5
<1>4. ASSUME NEW t \in Threads, LockShared(t)
      PROVE  IInv'
  <2>1. TypeOK'
    BY <1>4 DEF LockShared, TypeOK, CallInv, PCs
  <2>2. CallInv'
    BY <1>4 DEF LockShared, TypeOK, CallInv
  <2>3. LockInv' /\ GilInv'
    BY <1>4 DEF LockShared, TypeOK, CallInv, LockInv, GilInv
  <2>4. RunInv'
    BY <1>4 DEF LockShared, TypeOK, LockInv, RunInv
  <2>5. StrandInv'
    BY <1>4 DEF LockShared, TypeOK, LockInv, RunInv, StrandInv
  <2> QED BY <2>1, <2>2, <2>3, <2>4, <2>5
<1>5. ASSUME NEW t \in Threads, ReadRunning(t)
      PROVE  IInv'
  <2>1. TypeOK'
    BY <1>5 DEF ReadRunning, TypeOK, CallInv, PCs
  <2>2. CallInv'
    BY <1>5 DEF ReadRunning, TypeOK, CallInv
  <2>3. LockInv' /\ GilInv'
    BY <1>5 DEF ReadRunning, TypeOK, CallInv, LockInv, GilInv
  <2>4. RunInv'
    BY <1>5 DEF ReadRunning, TypeOK, LockInv, RunInv
  <2>5. StrandInv'
    BY <1>5 DEF ReadRunning, TypeOK, LockInv, RunInv, StrandInv
  <2> QED BY <2>1, <2>2, <2>3, <2>4, <2>5
<1>6. ASSUME NEW t \in Threads, PushRoom(t)
      PROVE  IInv'
  <2>1. TypeOK'
    BY <1>6, EnqueueTypes DEF PushRoom, TypeOK, CallInv, PCs
  <2>2. CallInv'
    BY <1>6 DEF PushRoom, Enqueue, TypeOK, CallInv
  <2>3. LockInv' /\ GilInv'
    BY <1>6 DEF PushRoom, Enqueue, TypeOK, CallInv, LockInv, GilInv
  <2>4. RunInv'
    BY <1>6 DEF PushRoom, Enqueue, TypeOK, LockInv, RunInv
  <2>5. StrandInv'
    BY <1>6 DEF PushRoom, Enqueue, TypeOK, LockInv, RunInv, StrandInv
  <2> QED BY <2>1, <2>2, <2>3, <2>4, <2>5
<1>7. ASSUME NEW t \in Threads, PushFull(t)
      PROVE  IInv'
  <2>1. TypeOK'
    <3>1. tries[t] + 1 \in 0 .. kPushAttempts
      BY <1>7 DEF PushFull, TypeOK, CallInv
    <3>2. tries' \in [Threads -> 0 .. kPushAttempts]
      BY <1>7, <3>1 DEF PushFull, TypeOK
    <3>3. pc' \in [Threads -> PCs] /\ dropped' \in Nat
      BY <1>7 DEF PushFull, TypeOK, PCs
    <3> QED BY <1>7, <3>2, <3>3 DEF PushFull, TypeOK
  <2>2. CallInv'
    BY <1>7 DEF PushFull, Full, TypeOK, CallInv
  <2>3. LockInv' /\ GilInv'
    BY <1>7 DEF PushFull, Full, TypeOK, CallInv, LockInv, GilInv
  <2>4. RunInv'
    BY <1>7 DEF PushFull, Full, TypeOK, LockInv, RunInv
  <2>5. StrandInv'
    BY <1>7 DEF PushFull, Full, TypeOK, LockInv, RunInv, StrandInv
  <2> QED BY <2>1, <2>2, <2>3, <2>4, <2>5
<1>8. ASSUME NEW t \in Threads, ApplyHere(t)
      PROVE  IInv'
  <2>1. TypeOK'
    BY <1>8 DEF ApplyHere, Apply, TypeOK, CallInv, PCs, Commands
  <2>2. CallInv'
    BY <1>8 DEF ApplyHere, Apply, TypeOK, CallInv
  <2>3. LockInv' /\ GilInv'
    BY <1>8 DEF ApplyHere, Apply, TypeOK, CallInv, LockInv, GilInv
  <2>4. RunInv'
    BY <1>8 DEF ApplyHere, Apply, TypeOK, LockInv, RunInv
  <2>5. StrandInv'
    BY <1>8 DEF ApplyHere, Apply, TypeOK, LockInv, RunInv, StrandInv
  <2> QED BY <2>1, <2>2, <2>3, <2>4, <2>5
<1>9. ASSUME NEW t \in Threads, UnlockShared(t)
      PROVE  IInv'
  <2>1. TypeOK'
    BY <1>9 DEF UnlockShared, TypeOK, CallInv, PCs, NoCommand
  <2>2. CallInv'
    BY <1>9 DEF UnlockShared, TypeOK, CallInv
  <2>3. LockInv' /\ GilInv'
    BY <1>9 DEF UnlockShared, TypeOK, CallInv, LockInv, GilInv
  <2>4. RunInv'
    BY <1>9 DEF UnlockShared, TypeOK, LockInv, RunInv
  <2>5. StrandInv'
    BY <1>9 DEF UnlockShared, TypeOK, LockInv, RunInv, StrandInv
  <2> QED BY <2>1, <2>2, <2>3, <2>4, <2>5
<1>10. ASSUME NEW t \in Threads, LockExclusive(t)
      PROVE  IInv'
  <2>1. TypeOK'
    BY <1>10 DEF LockExclusive, TypeOK, CallInv, PCs
  <2>2. CallInv'
    BY <1>10 DEF LockExclusive, TypeOK, CallInv
  <2>3. LockInv' /\ GilInv'
    BY <1>10 DEF LockExclusive, TypeOK, CallInv, LockInv, GilInv
  <2>4. RunInv'
    BY <1>10 DEF LockExclusive, TypeOK, LockInv, RunInv
  <2>5. StrandInv'
    BY <1>10 DEF LockExclusive, TypeOK, LockInv, RunInv, StrandInv
  <2> QED BY <2>1, <2>2, <2>3, <2>4, <2>5
<1>11. ASSUME NEW t \in Threads, OpenDevice(t)
      PROVE  IInv'
  <2>1. TypeOK'
    BY <1>11 DEF OpenDevice, TypeOK, CallInv, PCs
  <2>2. CallInv'
    BY <1>11 DEF OpenDevice, TypeOK, CallInv
  <2>3. LockInv' /\ GilInv'
    BY <1>11 DEF OpenDevice, TypeOK, CallInv, LockInv, GilInv
  <2>4. RunInv'
    BY <1>11 DEF OpenDevice, TypeOK, LockInv, RunInv
  <2>5. StrandInv'
    BY <1>11 DEF OpenDevice, TypeOK, LockInv, RunInv, StrandInv
  <2> QED BY <2>1, <2>2, <2>3, <2>4, <2>5
<1>12. ASSUME NEW t \in Threads, StartDevice(t)
      PROVE  IInv'
  <2>1. TypeOK'
    BY <1>12 DEF StartDevice, TypeOK, CallInv, PCs
  <2>2. CallInv'
    BY <1>12 DEF StartDevice, TypeOK, CallInv
  <2>3. LockInv' /\ GilInv'
    BY <1>12 DEF StartDevice, TypeOK, CallInv, LockInv, GilInv
  <2>4. RunInv'
    BY <1>12 DEF StartDevice, TypeOK, LockInv, RunInv
  <2>5. StrandInv'
    BY <1>12 DEF StartDevice, TypeOK, LockInv, RunInv, StrandInv
  <2> QED BY <2>1, <2>2, <2>3, <2>4, <2>5
<1>13. ASSUME NEW t \in Threads, StartDeviceFails(t)
      PROVE  IInv'
  <2>1. TypeOK'
    BY <1>13 DEF StartDeviceFails, TypeOK, CallInv, PCs
  <2>2. CallInv'
    BY <1>13 DEF StartDeviceFails, TypeOK, CallInv
  <2>3. LockInv' /\ GilInv'
    BY <1>13 DEF StartDeviceFails, TypeOK, CallInv, LockInv, GilInv
  <2>4. RunInv'
    BY <1>13 DEF StartDeviceFails, TypeOK, LockInv, RunInv
  <2>5. StrandInv'
    BY <1>13 DEF StartDeviceFails, TypeOK, LockInv, RunInv, StrandInv
  <2> QED BY <2>1, <2>2, <2>3, <2>4, <2>5
<1>14. ASSUME NEW t \in Threads, StopDevice(t)
      PROVE  IInv'
  <2>1. TypeOK'
    BY <1>14 DEF StopDevice, TypeOK, CallInv, PCs
  <2>2. CallInv'
    BY <1>14 DEF StopDevice, TypeOK, CallInv
  <2>3. LockInv' /\ GilInv'
    BY <1>14 DEF StopDevice, TypeOK, CallInv, LockInv, GilInv
  <2>4. RunInv'
    BY <1>14 DEF StopDevice, TypeOK, LockInv, RunInv
  <2>5. StrandInv'
    BY <1>14 DEF StopDevice, TypeOK, LockInv, RunInv, StrandInv
  <2> QED BY <2>1, <2>2, <2>3, <2>4, <2>5
<1>15. ASSUME NEW t \in Threads, JoinDevice(t)
      PROVE  IInv'
  <2>1. TypeOK'
    BY <1>15 DEF JoinDevice, TypeOK, CallInv, PCs
  <2>2. CallInv'
    BY <1>15 DEF JoinDevice, TypeOK, CallInv
  <2>3. LockInv' /\ GilInv'
    BY <1>15 DEF JoinDevice, TypeOK, CallInv, LockInv, GilInv
  <2>4. RunInv'
    BY <1>15 DEF JoinDevice, TypeOK, LockInv, RunInv
  <2>5. StrandInv'
    BY <1>15 DEF JoinDevice, TypeOK, LockInv, RunInv, StrandInv
  <2> QED BY <2>1, <2>2, <2>3, <2>4, <2>5
<1>16. ASSUME NEW t \in Threads, LowerRunning(t)
      PROVE  IInv'
  <2>1. TypeOK'
    BY <1>16 DEF LowerRunning, TypeOK, CallInv, PCs
  <2>2. CallInv'
    BY <1>16 DEF LowerRunning, TypeOK, CallInv
  <2>3. LockInv' /\ GilInv'
    BY <1>16 DEF LowerRunning, TypeOK, CallInv, LockInv, GilInv
  <2>4. RunInv'
    BY <1>16 DEF LowerRunning, TypeOK, LockInv, RunInv
  <2>5. StrandInv'
    BY <1>16 DEF LowerRunning, TypeOK, LockInv, RunInv, StrandInv
  <2> QED BY <2>1, <2>2, <2>3, <2>4, <2>5
<1>17. ASSUME NEW t \in Threads, DrainHere(t)
      PROVE  IInv'
  <2>1. TypeOK'
    <3>1. CASE PopQueue \/ PopOscQueue
      BY <1>17, <3>1, DrainTypes DEF DrainHere, TypeOK, PCs
    <3>2. CASE ~(PopQueue \/ PopOscQueue)
      BY <1>17, <3>2 DEF DrainHere, TypeOK, PCs
    <3> QED BY <3>1, <3>2
  <2>2. CallInv'
    BY <1>17 DEF DrainHere, PopQueue, PopOscQueue, Apply, TypeOK, CallInv
  <2>3. LockInv' /\ GilInv'
    BY <1>17 DEF DrainHere, PopQueue, PopOscQueue, Apply, TypeOK, CallInv, LockInv, GilInv
  <2>4. RunInv'
    BY <1>17 DEF DrainHere, PopQueue, PopOscQueue, Apply, TypeOK, LockInv, RunInv
  <2>5. StrandInv'
    BY <1>17 DEF DrainHere, PopQueue, PopOscQueue, Apply, TypeOK, LockInv, RunInv, StrandInv
  <2> QED BY <2>1, <2>2, <2>3, <2>4, <2>5
<1>18. ASSUME NEW t \in Threads, UnlockExclusive(t)
      PROVE  IInv'
  <2>1. TypeOK'
    BY <1>18 DEF UnlockExclusive, TypeOK, CallInv, PCs, NoCommand
  <2>2. CallInv'
    BY <1>18 DEF UnlockExclusive, TypeOK, CallInv
  <2>3. LockInv' /\ GilInv'
    BY <1>18 DEF UnlockExclusive, TypeOK, CallInv, LockInv, GilInv
  <2>4. RunInv'
    BY <1>18 DEF UnlockExclusive, TypeOK, LockInv, RunInv
  <2>5. StrandInv'
    BY <1>18 DEF UnlockExclusive, TypeOK, LockInv, RunInv, StrandInv
  <2> QED BY <2>1, <2>2, <2>3, <2>4, <2>5
<1>19. ASSUME NEW t \in Threads, RenderCore(t)
      PROVE  IInv'
  <2>1. TypeOK'
    BY <1>19 DEF RenderCore, TypeOK, CallInv, PCs, Threads
  <2>2. CallInv'
    BY <1>19 DEF RenderCore, TypeOK, CallInv
  <2>3. LockInv' /\ GilInv'
    BY <1>19 DEF RenderCore, TypeOK, CallInv, LockInv, GilInv
  <2>4. RunInv'
    BY <1>19 DEF RenderCore, TypeOK, LockInv, RunInv
  <2>5. StrandInv'
    BY <1>19 DEF RenderCore, TypeOK, LockInv, RunInv, StrandInv
  <2> QED BY <2>1, <2>2, <2>3, <2>4, <2>5
<1>20. ASSUME NEW t \in Threads, RenderReturn(t)
      PROVE  IInv'
  <2>1. TypeOK'
    BY <1>20 DEF RenderReturn, TypeOK, CallInv, PCs
  <2>2. CallInv'
    BY <1>20 DEF RenderReturn, TypeOK, CallInv
  <2>3. LockInv' /\ GilInv'
    BY <1>20 DEF RenderReturn, TypeOK, CallInv, LockInv, GilInv
  <2>4. RunInv'
    BY <1>20 DEF RenderReturn, TypeOK, LockInv, RunInv
  <2>5. StrandInv'
    BY <1>20 DEF RenderReturn, TypeOK, LockInv, RunInv, StrandInv
  <2> QED BY <2>1, <2>2, <2>3, <2>4, <2>5
<1>21. CASE Callback
  <2>1. TypeOK'
    BY <1>21 DEF Callback, AudioGoto, TypeOK, CallInv, PCs
  <2>2. CallInv'
    BY <1>21 DEF Callback, AudioGoto, TypeOK, CallInv
  <2>3. LockInv' /\ GilInv'
    BY <1>21 DEF Callback, AudioGoto, TypeOK, CallInv, LockInv, GilInv
  <2>4. RunInv'
    BY <1>21 DEF Callback, AudioGoto, TypeOK, LockInv, RunInv
  <2>5. StrandInv'
    BY <1>21 DEF Callback, AudioGoto, TypeOK, LockInv, RunInv, StrandInv
  <2> QED BY <2>1, <2>2, <2>3, <2>4, <2>5
<1>22. CASE Drain
  <2>1. TypeOK'
    BY <1>22, DrainTypes DEF Drain, TypeOK
  <2>2. CallInv'
    BY <1>22 DEF Drain, PopQueue, PopOscQueue, Apply, TypeOK, CallInv
  <2>3. LockInv' /\ GilInv'
    BY <1>22 DEF Drain, PopQueue, PopOscQueue, Apply, TypeOK, CallInv, LockInv, GilInv
  <2>4. RunInv'
    BY <1>22 DEF Drain, PopQueue, PopOscQueue, Apply, TypeOK, LockInv, RunInv
  <2>5. StrandInv'
    BY <1>22 DEF Drain, PopQueue, PopOscQueue, Apply, TypeOK, LockInv, RunInv, StrandInv
  <2> QED BY <2>1, <2>2, <2>3, <2>4, <2>5
<1>23. CASE DrainOsc
  <2>1. TypeOK'
    BY <1>23 DEF DrainOsc, AudioGoto, TypeOK, CallInv, PCs
  <2>2. CallInv'
    BY <1>23 DEF DrainOsc, AudioGoto, TypeOK, CallInv
  <2>3. LockInv' /\ GilInv'
    BY <1>23 DEF DrainOsc, AudioGoto, TypeOK, CallInv, LockInv, GilInv
  <2>4. RunInv'
    BY <1>23 DEF DrainOsc, AudioGoto, TypeOK, LockInv, RunInv
  <2>5. StrandInv'
    BY <1>23 DEF DrainOsc, AudioGoto, TypeOK, LockInv, RunInv, StrandInv
  <2> QED BY <2>1, <2>2, <2>3, <2>4, <2>5
<1>24. CASE Process
  <2>1. TypeOK'
    BY <1>24 DEF Process, AudioGoto, TypeOK, CallInv, PCs
  <2>2. CallInv'
    BY <1>24 DEF Process, AudioGoto, TypeOK, CallInv
  <2>3. LockInv' /\ GilInv'
    BY <1>24 DEF Process, AudioGoto, TypeOK, CallInv, LockInv, GilInv
  <2>4. RunInv'
    BY <1>24 DEF Process, AudioGoto, TypeOK, LockInv, RunInv
  <2>5. StrandInv'
    BY <1>24 DEF Process, AudioGoto, TypeOK, LockInv, RunInv, StrandInv
  <2> QED BY <2>1, <2>2, <2>3, <2>4, <2>5
<1>25. CASE Return
  <2>1. TypeOK'
    BY <1>25 DEF Return, AudioGoto, TypeOK, CallInv, PCs
  <2>2. CallInv'
    BY <1>25 DEF Return, AudioGoto, TypeOK, CallInv
  <2>3. LockInv' /\ GilInv'
    BY <1>25 DEF Return, AudioGoto, TypeOK, CallInv, LockInv, GilInv
  <2>4. RunInv'
    BY <1>25 DEF Return, AudioGoto, TypeOK, LockInv, RunInv
  <2>5. StrandInv'
    BY <1>25 DEF Return, AudioGoto, TypeOK, LockInv, RunInv, StrandInv
  <2> QED BY <2>1, <2>2, <2>3, <2>4, <2>5
<1>26. CASE UNCHANGED vars
  BY <1>26 DEF vars, TypeOK, CallInv, LockInv, GilInv, RunInv, StrandInv
<1> QED BY <1>1, <1>2, <1>3, <1>4, <1>5, <1>6, <1>7, <1>8, <1>9, <1>10, <1>11, <1>12, <1>13, <1>14, <1>15, <1>16, <1>17, <1>18, <1>19, <1>20, <1>21, <1>22, <1>23, <1>24, <1>25, <1>26 DEF Next, Calls, Step, Audio

\* So it holds in every state an engine reaches.
LEMMA Inductive == Spec => []IInv
BY InitIInv, NextIInv, PTL DEF Spec

\* The variables of the engine hold what they should; in particular a setter
\* gives up after kPushAttempts tries.
THEOREM TypeCorrect == Spec => []TypeOK
<1>1. IInv => TypeOK
  BY DEF IInv
<1> QED BY Inductive, <1>1, PTL

\* While the audio callback is in a voice, no setter applies a change to it
\* and no start or stop drains into it.
THEOREM SettersExcluded == Spec => []SetterExclusion
<1>1. IInv => SetterExclusion
  BY DEF IInv, RunInv, SetterExclusion
<1> QED BY Inductive, <1>1, PTL

\* Each queue has one producer and one consumer at a time, which is what the
\* ring of CommandQueue is correct for.
THEOREM QueuesAreSpsc == Spec => []SingleProducerConsumer
<1>1. IInv => SingleProducerConsumer
  <2> SUFFICES ASSUME IInv PROVE SingleProducerConsumer
    OBVIOUS
  <2>1. \A s, t \in PyThreads : pc[s] = "push" /\ pc[t] = "push" => s = t
    BY DEF IInv, GilInv, SharedPCs
  <2>2. \A s, t \in Threads : pc[s] = "drain" /\ pc[t] = "drain" => s = t
    BY DEF IInv, LockInv, ExclusivePCs
  <2>3. \A t \in Threads : pc[t] = "drain" => audio = "idle"
    BY DEF IInv, RunInv
  <2> QED BY <2>1, <2>2, <2>3 DEF SingleProducerConsumer
<1> QED BY Inductive, <1>1, PTL

\* No command is left behind in a stopped engine.
THEOREM NothingStranded == Spec => []NoStranded
<1>1. IInv => NoStranded
  <2> SUFFICES ASSUME IInv, ~running, writer = None
               PROVE  queue = << >> /\ osc_queue = << >>
    BY DEF NoStranded
  <2>1. \A t \in Threads : pc[t] # "drain"
    BY ThreadsAssumption DEF IInv, LockInv, ExclusivePCs, Threads
  <2> QED BY <2>1 DEF IInv, StrandInv
<1> QED BY Inductive, <1>1, PTL
=============================================================================
