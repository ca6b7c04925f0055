------------------------------- MODULE Engine -------------------------------
(***************************************************************************)
(* src/softcut/_core.cpp: who may touch a voice's DSP state, and when.     *)
(*                                                                         *)
(* Python threads (one at a time under the GIL) and the native OSC thread  *)
(* set parameters; Python threads also start and stop the device, with the *)
(* GIL released, and render offline.  While the device runs, a setter      *)
(* pushes a command to the queue of its kind of thread and the audio       *)
(* callback applies it; otherwise the setter applies it itself.            *)
(*                                                                         *)
(* A queue is the FIFO that CommandQueue is shown to implement.  One voice *)
(* is modelled: voices share the queues, the flag and the mutex.           *)
(***************************************************************************)
EXTENDS Naturals, Sequences, FiniteSets

CONSTANTS
  PyThreads,   \* Python threads that hold a reference to the engine
  OscThread,   \* OscReceiver's thread
  PyParams,    \* parameters that Python code sets
  OscParams,   \* parameters that arrive over OSC
  Values,      \* the values of a parameter
  Default,     \* the value mirror and DSP are constructed with
  Room,        \* commands a queue holds: CAP - 1
  kPushAttempts, \* tries before a command is dropped; 100 in the code
  None,        \* no thread
  MaxCalls     \* bound on the calls made (TLC only)

ASSUME ThreadsAssumption == OscThread \notin PyThreads /\ None \notin PyThreads \union {OscThread}
ASSUME ValuesAssumption == Default \in Values
ASSUME BoundsAssumption == Room \in Nat /\ kPushAttempts \in Nat \ {0} /\ MaxCalls \in Nat

Threads == PyThreads \union {OscThread}
Params == PyParams \union OscParams
Commands == [param : Params, value : Values]

VARIABLES
  pc,            \* where each thread is in the call it makes
  call,          \* the command each thread's setter is about
  tries,         \* pushes it has tried
  gil,           \* the Python thread that holds the GIL
  readers,       \* lifecycle: the threads that hold it shared
  writer,        \* lifecycle: the thread that holds it exclusive
  running,       \* Engine::running
  live,          \* the device calls back
  audio,         \* where the audio callback is
  queue,         \* Engine::queue, fed by Python threads
  osc_queue,     \* Engine::osc_queue, fed by the OSC thread
  mirror,        \* Voice's read-backs
  dsp,           \* softcut::Voice's parameters
  dropped,       \* Voice::dropped_commands_
  calls          \* calls made so far (TLC bound)

locks == <<gil, readers, writer>>
queues == <<queue, osc_queue>>
params == <<mirror, dsp, dropped>>
vars == <<pc, call, tries, locks, running, live, audio, queues, params, calls>>

NoCommand == [param |-> None, value |-> Default]

Init ==
  /\ pc = [t \in Threads |-> "idle"]
  /\ call = [t \in Threads |-> NoCommand]
  /\ tries = [t \in Threads |-> 0]
  /\ gil = None /\ readers = {} /\ writer = None
  /\ running = FALSE /\ live = FALSE /\ audio = "idle"
  /\ queue = << >> /\ osc_queue = << >>
  /\ mirror = [p \in Params |-> Default]
  /\ dsp = [p \in Params |-> Default]
  /\ dropped = 0 /\ calls = 0

Goto(t, to) == pc' = [pc EXCEPT ![t] = to]
Apply(c) == dsp' = [dsp EXCEPT ![c.param] = c.value]

\* A call starts on an idle thread; a Python thread needs the GIL for it.
Call(t, to) ==
  /\ pc[t] = "idle"
  /\ t \in PyThreads => gil = None
  /\ calls < MaxCalls
  /\ calls' = calls + 1
  /\ Goto(t, to)

-----------------------------------------------------------------------------
(* Setters: FPROP and BPROP on a Python thread, try_fast_dispatch on the   *)
(* OSC thread.  The mirror is stored first, then dsp_apply or osc_apply.   *)

Set(t, c) ==
  /\ c.param \in IF t \in PyThreads THEN PyParams ELSE OscParams
  /\ Call(t, "lock")
  /\ call' = [call EXCEPT ![t] = c]
  /\ tries' = [tries EXCEPT ![t] = 0]
  /\ mirror' = [mirror EXCEPT ![c.param] = c.value]
  /\ gil' = IF t \in PyThreads THEN t ELSE gil
  /\ UNCHANGED <<readers, writer, running, live, audio, queues, dsp, dropped>>

\* Mutants: the flag read without the lock; the GIL given up to wait for it.
LockSharedNever(t) ==
  /\ pc[t] = "lock"
  /\ readers' = readers \union {t}
  /\ Goto(t, "check")
  /\ UNCHANGED <<call, tries, gil, writer, running, live, audio, queues, params, calls>>

LockSharedWithoutGil(t) ==
  /\ pc[t] = "lock"
  /\ writer = None
  /\ readers' = readers \union {t}
  /\ gil' = None
  /\ Goto(t, "check")
  /\ UNCHANGED <<call, tries, writer, running, live, audio, queues, params, calls>>

\* std::shared_lock lock(*lifecycle_), with the GIL held on a Python thread.
LockShared(t) ==
  /\ pc[t] = "lock"
  /\ writer = None
  /\ readers' = readers \union {t}
  /\ Goto(t, "check")
  /\ UNCHANGED <<call, tries, gil, writer, running, live, audio, queues, params, calls>>

ReadRunning(t) ==
  /\ pc[t] = "check"
  /\ Goto(t, IF running THEN "push" ELSE "apply")
  /\ UNCHANGED <<call, tries, locks, running, live, audio, queues, params, calls>>

\* Append to the queue of t's kind of thread, if that has room.
Enqueue(t) ==
  IF t \in PyThreads
    THEN Len(queue) < Room /\ queue' = Append(queue, call[t]) /\ UNCHANGED osc_queue
    ELSE Len(osc_queue) < Room /\ osc_queue' = Append(osc_queue, call[t]) /\ UNCHANGED queue

Full(t) == Len(IF t \in PyThreads THEN queue ELSE osc_queue) >= Room

PushRoom(t) ==
  /\ pc[t] = "push"
  /\ Enqueue(t)
  /\ Goto(t, "unlock")
  /\ UNCHANGED <<call, tries, locks, running, live, audio, params, calls>>

\* Mutant: one try too many.
PushFullOffByOne(t) ==
  /\ pc[t] = "push" /\ Full(t)
  /\ tries' = [tries EXCEPT ![t] = @ + 1]
  /\ IF tries[t] > kPushAttempts
       THEN Goto(t, "unlock") /\ dropped' = dropped + 1
       ELSE UNCHANGED <<pc, dropped>>
  /\ UNCHANGED <<call, locks, running, live, audio, queues, mirror, dsp, calls>>

\* queue_apply on a full queue: sleep and try again, or count a drop.
PushFull(t) ==
  /\ pc[t] = "push" /\ Full(t)
  /\ tries' = [tries EXCEPT ![t] = @ + 1]
  /\ IF tries[t] + 1 = kPushAttempts
       THEN Goto(t, "unlock") /\ dropped' = dropped + 1
       ELSE UNCHANGED <<pc, dropped>>
  /\ UNCHANGED <<call, locks, running, live, audio, queues, mirror, dsp, calls>>

\* fn() on the calling thread: no audio thread to race.
ApplyHere(t) ==
  /\ pc[t] = "apply"
  /\ Apply(call[t])
  /\ Goto(t, "unlock")
  /\ UNCHANGED <<call, tries, locks, running, live, audio, queues, mirror, dropped, calls>>

UnlockShared(t) ==
  /\ pc[t] = "unlock"
  /\ readers' = readers \ {t}
  /\ gil' = IF gil = t THEN None ELSE gil
  /\ call' = [call EXCEPT ![t] = NoCommand]
  /\ tries' = [tries EXCEPT ![t] = 0]
  /\ Goto(t, "idle")
  /\ UNCHANGED <<writer, running, live, audio, queues, params, calls>>

-----------------------------------------------------------------------------
(* Engine::start and Engine::stop, which run with the GIL released.        *)

StartStop(t, which) ==
  /\ t \in PyThreads
  /\ Call(t, which)
  /\ UNCHANGED <<call, tries, locks, running, live, audio, queues, params>>

\* std::unique_lock lock(lifecycle)
LockExclusive(t) ==
  /\ pc[t] \in {"start", "stop"}
  /\ writer = None /\ readers = {}
  /\ writer' = t
  /\ Goto(t, IF pc[t] = "start" THEN "open" ELSE "halt")
  /\ UNCHANGED <<call, tries, gil, readers, running, live, audio, queues, params, calls>>

\* Mutant: an early return that leaves the mutex locked.
OpenDeviceKeepsLock(t) ==
  /\ pc[t] = "open"
  /\ \/ running' = running /\ Goto(t, "idle")
     \/ ~running /\ running' = TRUE /\ Goto(t, "device")
  /\ UNCHANGED <<call, tries, locks, live, audio, queues, params, calls>>

\* Nothing to do on a running engine; opening the device may throw; otherwise
\* the flag goes up before the device is started.
OpenDevice(t) ==
  /\ pc[t] = "open"
  /\ \/ running' = running /\ Goto(t, "release")
     \/ ~running /\ running' = TRUE /\ Goto(t, "device")
  /\ UNCHANGED <<call, tries, locks, live, audio, queues, params, calls>>

\* ma_device_start, which can call back before it returns.
StartDevice(t) ==
  /\ pc[t] = "device"
  /\ live' = TRUE
  /\ Goto(t, "release")
  /\ UNCHANGED <<call, tries, locks, running, audio, queues, params, calls>>

StartDeviceFails(t) ==
  /\ pc[t] = "device"
  /\ running' = FALSE
  /\ Goto(t, "drain")
  /\ UNCHANGED <<call, tries, locks, live, audio, queues, params, calls>>

\* ma_device_stop: no callback starts any more, and the one in progress is
\* waited for.
StopDevice(t) ==
  /\ pc[t] = "halt"
  /\ IF running
       THEN live' = FALSE /\ Goto(t, "join")
       ELSE UNCHANGED live /\ Goto(t, "release")
  /\ UNCHANGED <<call, tries, locks, running, audio, queues, params, calls>>

JoinDevice(t) ==
  /\ pc[t] = "join"
  /\ audio = "idle"
  /\ Goto(t, "lower")
  /\ UNCHANGED <<call, tries, locks, running, live, audio, queues, params, calls>>

\* Mutant: stop without the final drain.
LowerRunningNoDrain(t) ==
  /\ pc[t] = "lower"
  /\ running' = FALSE
  /\ Goto(t, "release")
  /\ UNCHANGED <<call, tries, locks, live, audio, queues, params, calls>>

LowerRunning(t) ==
  /\ pc[t] = "lower"
  /\ running' = FALSE
  /\ Goto(t, "drain")
  /\ UNCHANGED <<call, tries, locks, live, audio, queues, params, calls>>

UnlockExclusive(t) ==
  /\ pc[t] = "release"
  /\ writer' = None
  /\ Goto(t, "idle")
  /\ UNCHANGED <<call, tries, gil, readers, running, live, audio, queues, params, calls>>

-----------------------------------------------------------------------------
(* drain_commands: Python's queue until it is empty, then the OSC queue.   *)

PopQueue ==
  /\ queue # << >>
  /\ Apply(Head(queue))
  /\ queue' = Tail(queue)
  /\ UNCHANGED osc_queue

PopOscQueue ==
  /\ osc_queue # << >>
  /\ Apply(Head(osc_queue))
  /\ osc_queue' = Tail(osc_queue)
  /\ UNCHANGED queue

\* Mutant: only the Python queue is drained.
DrainHereOneQueue(t) ==
  /\ pc[t] = "drain"
  /\ IF queue # << >> THEN PopQueue /\ UNCHANGED pc ELSE Goto(t, "release") /\ UNCHANGED <<queues, dsp>>
  /\ UNCHANGED <<call, tries, locks, running, live, audio, mirror, dropped, calls>>

\* On the thread that stopped the device, or failed to start it.
DrainHere(t) ==
  /\ pc[t] = "drain"
  /\ \/ PopQueue /\ UNCHANGED pc
     \/ queue = << >> /\ PopOscQueue /\ UNCHANGED pc
     \/ queue = << >> /\ osc_queue = << >> /\ Goto(t, "release") /\ UNCHANGED <<queues, dsp>>
  /\ UNCHANGED <<call, tries, locks, running, live, audio, mirror, dropped, calls>>

AudioGoto(from, to) ==
  /\ audio = from /\ audio' = to
  /\ UNCHANGED <<pc, call, tries, locks, running, live, queues, params, calls>>

\* callback_process: drain both queues, process the block, return.
Callback == live /\ AudioGoto("idle", "drain")

Drain ==
  /\ \/ audio = "drain" /\ PopQueue
     \/ audio = "drain_osc" /\ PopOscQueue
  /\ UNCHANGED <<pc, call, tries, locks, running, live, audio, mirror, dropped, calls>>

DrainOsc == queue = << >> /\ AudioGoto("drain", "drain_osc")
Process  == osc_queue = << >> /\ AudioGoto("drain_osc", "process")
Return   == AudioGoto("process", "idle")

-----------------------------------------------------------------------------
(* Engine.render: the facade tests `running`; the core then processes with *)
(* the GIL held, but the interpreter may switch threads in between.        *)

Render(t) ==
  /\ t \in PyThreads
  /\ ~running
  /\ Call(t, "render?")
  /\ UNCHANGED <<call, tries, locks, running, live, audio, queues, params>>

RenderCore(t) ==
  /\ pc[t] = "render?"
  /\ gil = None /\ gil' = t
  /\ Goto(t, "render")
  /\ UNCHANGED <<call, tries, readers, writer, running, live, audio, queues, params, calls>>

RenderReturn(t) ==
  /\ pc[t] = "render"
  /\ gil' = None
  /\ Goto(t, "idle")
  /\ UNCHANGED <<call, tries, readers, writer, running, live, audio, queues, params, calls>>

-----------------------------------------------------------------------------
Calls(t) ==
  \/ \E c \in Commands : Set(t, c)
  \/ StartStop(t, "start") \/ StartStop(t, "stop")
  \/ Render(t)

Step(t) ==
  \/ LockShared(t) \/ ReadRunning(t) \/ PushRoom(t) \/ PushFull(t)
  \/ ApplyHere(t) \/ UnlockShared(t)
  \/ LockExclusive(t) \/ OpenDevice(t) \/ StartDevice(t) \/ StartDeviceFails(t)
  \/ StopDevice(t) \/ JoinDevice(t) \/ LowerRunning(t) \/ DrainHere(t) \/ UnlockExclusive(t)
  \/ RenderCore(t) \/ RenderReturn(t)

Audio == Callback \/ Drain \/ DrainOsc \/ Process \/ Return

Next == Audio \/ \E t \in Threads : Calls(t) \/ Step(t)

\* The device calls back periodically while it is live, and a thread that is
\* inside a call is scheduled.  Nothing makes a thread call.
Fairness == WF_vars(Audio) /\ \A t \in Threads : WF_vars(Step(t))

Spec == Init /\ [][Next]_vars /\ Fairness

-----------------------------------------------------------------------------
SharedPCs == {"check", "push", "apply", "unlock"}
ExclusivePCs == {"open", "device", "halt", "join", "lower", "drain", "release"}
PCs == {"idle", "lock", "start", "stop", "render?", "render"} \union SharedPCs \union ExclusivePCs

\* Types; a setter gives up after kPushAttempts tries.
TypeOK ==
  /\ pc \in [Threads -> PCs]
  /\ call \in [Threads -> Commands \union {NoCommand}]
  /\ tries \in [Threads -> 0 .. kPushAttempts]
  /\ gil \in PyThreads \union {None}
  /\ readers \subseteq Threads /\ writer \in Threads \union {None}
  /\ running \in BOOLEAN /\ live \in BOOLEAN
  /\ audio \in {"idle", "drain", "drain_osc", "process"}
  /\ queue \in Seq(Commands) /\ osc_queue \in Seq(Commands)
  /\ mirror \in [Params -> Values] /\ dsp \in [Params -> Values]
  /\ dropped \in Nat /\ calls \in Nat

\* No setter, and no drain by stop or start, touches a voice while the audio
\* callback is in it: "the race the queue exists to prevent".
SetterExclusion ==
  audio # "idle" => \A t \in Threads : pc[t] \notin {"apply", "drain"}

\* What CommandQueue needs of its users: one producer and one consumer at a
\* time for each queue.  The OSC queue has one producer by its own thread.
SingleProducerConsumer ==
  /\ \A s, t \in PyThreads : pc[s] = "push" /\ pc[t] = "push" => s = t
  /\ \A s, t \in Threads : pc[s] = "drain" /\ pc[t] = "drain" => s = t
  /\ \A t \in Threads : pc[t] = "drain" => audio = "idle"

\* Once no start or stop is in progress, a stopped engine holds no commands:
\* nothing is stranded after the final drain.
NoStranded == ~running /\ writer = None => queue = << >> /\ osc_queue = << >>

\* Once the callers are done, every parameter reaches the DSP, whether the
\* device keeps running, is stopped, or fails to start.
Converges == <>[](dropped = 0 => mirror = dsp)

\* Every call returns: the GIL, the mutex and a full queue never block it for
\* good, start, stop and a setter that waits for the next drain included.
CallsReturn == \A t \in Threads : (pc[t] # "idle") ~> (pc[t] = "idle")
=============================================================================
