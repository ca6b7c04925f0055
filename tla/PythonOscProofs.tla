--------------------------- MODULE PythonOscProofs ---------------------------
(***************************************************************************)
(* The python-osc backend, for any number of voices, phases, handler       *)
(* threads, poll threads and datagrams: type correctness, and that the     *)
(* host is stopped when no handler thread is at work any more.             *)
(***************************************************************************)
EXTENDS PythonOsc, TLAPS

HandlerPCs ==
  {"free", "start_test", "start_alive", "start_clear", "start_reset", "start_make", "start_run",
   "stop_set", "stop_read", "stop_join", "stop_forget"}
PCs ==
  HandlerPCs \union {"begin", "waiting", "server", "wait", "close", "join_handlers", "host_stop",
                     "done", "raised"}

\* What TypeOK leaves out.
TypeInv ==
  /\ pc \in [Callers -> PCs]
  /\ joining \in [Callers -> Pollers \union {None}]
  /\ seen \in [Pollers -> Phases \union {None}]

\* The statements of shutdown() that come after the serve loop has ended.
Closing == {"close", "join_handlers", "host_stop", "done"}

\* main starts the loop once; shutdown() passes BaseServer.shutdown when the loop has ended, and a loop
\* that has ended makes no handler thread any more.
ServerInv ==
  /\ pc["main"] = "begin" => serve = "off"
  /\ is_shut_down => serve = "ended"
  /\ pc["main"] \in Closing => serve = "ended"

IInv == TypeOK /\ TypeInv /\ ServerInv /\ HostStopsLast

\* The server before start(), or while it is waited on, satisfies the invariant.
LEMMA InitIInv == Init => IInv
<1> SUFFICES ASSUME Init PROVE IInv
  OBVIOUS
<1> USE ConstantsAssumption, ThreadsAssumption DEF Init
<1>1. "main" \in Callers /\ Handlers \subseteq Callers
  BY DEF Callers
<1>2. PICK waiting \in BOOLEAN :
        /\ pc = [c \in Callers |-> IF c # "main" THEN "free" ELSE IF waiting THEN "waiting" ELSE "begin"]
        /\ serve = IF waiting THEN "select" ELSE "off"
        /\ thread = IF waiting THEN CHOOSE p \in Pollers : TRUE ELSE None
        /\ poller = [p \in Pollers |-> IF p = thread THEN "check" ELSE "dead"]
  OBVIOUS
<1>3. (CHOOSE p \in Pollers : TRUE) \in Pollers
  BY ThreadsAssumption
<1>4. 1 \in Voices
  BY DEF Voices
<1>5. TypeInv
  BY <1>2 DEF TypeInv, PCs, HandlerPCs
<1>6. TypeOK
  <2>1. thread \in Pollers \union {None}
    BY <1>2, <1>3
  <2>2. poller \in [Pollers -> {"made", "check", "scan", "send", "record", "dead"}]
    BY <1>2
  <2>3. \A c \in Callers : joining[c] # None <=> At(c, "stop_join")
    BY <1>2 DEF At
  <2>4. \A p \in Pollers : seen[p] \in IF poller[p] \in {"send", "record"} THEN Phases ELSE {None}
    BY <1>2
  <2> QED
    BY <1>4, <2>1, <2>2, <2>3, <2>4 DEF TypeOK
<1>7. ServerInv /\ HostStopsLast
  BY <1>1, <1>2 DEF ServerInv, Closing, HostStopsLast
<1> QED
  BY <1>5, <1>6, <1>7 DEF IInv

-----------------------------------------------------------------------------
(* Types *)

\* A statement of _PhasePoll.start or .stop keeps the types.
LEMMA CallTypes ==
  ASSUME TypeOK, TypeInv, NEW c \in Callers, CallStep(c)
  PROVE  TypeOK' /\ TypeInv'
<1> USE ConstantsAssumption DEF TypeOK, TypeInv, At, Goto, PCs, HandlerPCs
<1>1. CASE StartTest(c)
  BY <1>1 DEF StartTest, poll, scan
<1>2. CASE StartAlive(c)
  BY <1>2 DEF StartAlive, poll, scan, Raise
<1>3. CASE StartClear(c)
  BY <1>3 DEF StartClear, scan
<1>4. CASE StartReset(c)
  BY <1>4 DEF StartReset, scan
<1>5. CASE StartMake(c)
  <2>1. PICK p \in Pollers : Unused(p) /\ thread' = p /\ poller' = [poller EXCEPT ![p] = "made"]
    BY <1>5 DEF StartMake
  <2>2. seen[p] = None
    BY <2>1 DEF Unused, Alive
  <2> QED
    BY <1>5, <2>1, <2>2 DEF StartMake
<1>6. CASE StartRun(c)
  <2>1. CASE thread # None /\ poller[thread] = "made"
    <3>1. thread \in Pollers /\ seen[thread] = None
      BY <2>1
    <3> QED
      BY <1>6, <2>1, <3>1 DEF StartRun, poll
  <2>2. CASE ~(thread # None /\ poller[thread] = "made")
    BY <1>6, <2>2 DEF StartRun, poll, Raise
  <2> QED
    BY <2>1, <2>2
<1>7. CASE StopSet(c)
  BY <1>7 DEF StopSet, scan
<1>8. CASE StopRead(c)
  BY <1>8 DEF StopRead, poll, scan
<1>9. CASE StopJoin(c)
  BY <1>9 DEF StopJoin, poll, scan, Raise
<1>10. CASE StopForget(c)
  BY <1>10 DEF StopForget, scan
<1> QED
  BY <1>1, <1>2, <1>3, <1>4, <1>5, <1>6, <1>7, <1>8, <1>9, <1>10 DEF CallStep

\* So does a step of a poll thread.
LEMMA PollTypes ==
  ASSUME TypeOK, TypeInv, NEW p \in Pollers, PollStep(p)
  PROVE  TypeOK' /\ TypeInv'
<1> USE ConstantsAssumption DEF TypeOK, TypeInv, At, calls
<1>1. at[p] \in Voices /\ (at[p] # NVoices => at[p] + 1 \in Voices) /\ 1 \in Voices
  BY DEF Voices
<1>2. CASE PollCheck(p)
  BY <1>2 DEF PollCheck, poll
<1>3. CASE PollRead(p)
  <2>1. CASE phase[at[p]] = last[at[p]]
    BY <1>1, <1>3, <2>1 DEF PollRead, NextVoice, poll
  <2>2. CASE phase[at[p]] # last[at[p]]
    BY <1>1, <1>3, <2>2 DEF PollRead, poll
  <2> QED
    BY <2>1, <2>2
<1>4. CASE PollSend(p)
  BY <1>4 DEF PollSend, poll
<1>5. CASE PollSendFails(p)
  BY <1>1, <1>5 DEF PollSendFails, Abandon, poll
<1>6. CASE PollRecord(p)
  <2>1. seen[p] \in Phases
    BY <1>6 DEF PollRecord
  <2>2. last' \in [Voices -> Phases \union {None}]
    BY <1>6, <2>1 DEF PollRecord
  <2> QED
    BY <1>1, <1>6, <2>2 DEF PollRecord, NextVoice
<1> QED
  BY <1>2, <1>3, <1>4, <1>5, <1>6 DEF PollStep

\* The server and main change only where they are, besides handing a datagram to
\* a handler that is free.
LEMMA ServerTypes ==
  ASSUME TypeOK, TypeInv, ServeBegin \/ ServeSelect \/ ServeSpawn \/ ServeEnd
  PROVE  TypeOK' /\ TypeInv'
<1> USE DEF TypeOK, TypeInv, poll, scan, calls
<1>1. CASE ServeBegin \/ ServeSelect \/ ServeEnd
  BY <1>1 DEF ServeBegin, ServeSelect, ServeEnd, At
<1>2. CASE ServeSpawn
  <2>1. PICK h \in Handlers, place \in {"start_test", "stop_set"} : At(h, "free") /\ Goto(h, place)
    BY <1>2 DEF ServeSpawn
  <2> QED
    BY <1>2, <2>1 DEF ServeSpawn, At, Goto, Callers, PCs, HandlerPCs
<1> QED
  BY <1>1, <1>2

LEMMA MainTypes ==
  ASSUME TypeOK, TypeInv,
         Start \/ Shutdown \/ ShutdownServer \/ ShutdownWait \/ Close \/ JoinHandlers \/ HostStop
  PROVE  TypeOK' /\ TypeInv'
<1> USE DEF TypeOK, TypeInv, poll, scan, At, Goto, PCs, HandlerPCs, server
<1>1. "main" \in Callers
  BY DEF Callers
<1>2. CASE Start \/ Shutdown
  BY <1>1, <1>2 DEF Start, Shutdown
<1>3. CASE ShutdownServer \/ ShutdownWait
  BY <1>1, <1>3 DEF ShutdownServer, ShutdownWait
<1>4. CASE Close \/ JoinHandlers \/ HostStop
  BY <1>1, <1>4 DEF Close, JoinHandlers, HostStop
<1> QED
  BY <1>2, <1>3, <1>4

-----------------------------------------------------------------------------
(* The order of a shutdown *)

\* Handlers and poll threads neither end the serve loop nor bring main to the
\* statements after it; a handler at work was at work before.
LEMMA CallOrder ==
  ASSUME IInv, NEW c \in Callers, CallStep(c)
  PROVE  ServerInv' /\ HostStopsLast'
<1>1. UNCHANGED <<serve, is_shut_down>>
  BY DEF CallStep, StartTest, StartAlive, StartClear, StartReset, StartMake, StartRun, StopSet,
         StopRead, StopJoin, StopForget, server
<1>2. \E place \in HandlerPCs \union {"server", "raised"} : pc' = [pc EXCEPT ![c] = place]
  BY DEF CallStep, StartTest, StartAlive, StartClear, StartReset, StartMake, StartRun, StopSet,
         StopRead, StopJoin, StopForget, Goto, Raise, HandlerPCs
<1>3. pc[c] \in HandlerPCs \ {"free"}
  BY DEF CallStep, StartTest, StartAlive, StartClear, StartReset, StartMake, StartRun, StopSet,
         StopRead, StopJoin, StopForget, At, HandlerPCs
<1>4. pc \in [Callers -> PCs] /\ "main" \in Callers /\ Handlers \subseteq Callers
  BY DEF IInv, TypeInv, Callers
<1>5. pc'["main"] \in Closing => pc["main"] \in Closing /\ c # "main"
  BY <1>2, <1>3, <1>4 DEF Closing, HandlerPCs
<1>6. ServerInv'
  <2>1. pc'["main"] = "begin" => pc["main"] = "begin"
    BY <1>2, <1>4 DEF HandlerPCs
  <2> QED
    BY <1>1, <1>5, <2>1 DEF IInv, ServerInv
<1>7. HostStopsLast'
  <2>1. SUFFICES ASSUME pc'["main"] \in {"host_stop", "done"} PROVE \A h \in Handlers : pc'[h] = "free"
    BY DEF HostStopsLast
  <2>2. c # "main"
    BY <1>5, <2>1 DEF Closing
  <2>3. pc["main"] \in {"host_stop", "done"}
    BY <1>2, <1>4, <2>1, <2>2
  <2>4. c \notin Handlers
    BY <1>3, <2>3 DEF IInv, HostStopsLast, HandlerPCs
  <2> QED
    BY <2>2, <2>4 DEF Callers
<1> QED
  BY <1>6, <1>7

\* shutdown() goes on when the loop has ended, and stops the host when the
\* handlers are joined; no datagram is handed out in between.
LEMMA ServerOrder ==
  ASSUME IInv,
         \/ ServeBegin \/ ServeSelect \/ ServeSpawn \/ ServeEnd \/ Start \/ Shutdown
         \/ ShutdownServer \/ ShutdownWait \/ Close \/ JoinHandlers \/ HostStop
  PROVE  ServerInv' /\ HostStopsLast'
<1> USE ThreadsAssumption DEF IInv, ServerInv, HostStopsLast, Closing
<1>1. pc \in [Callers -> PCs] /\ "main" \in Callers /\ Handlers \subseteq Callers
  BY DEF TypeInv, Callers
<1>2. CASE ServeBegin \/ ServeSelect \/ ServeEnd
  BY <1>2 DEF ServeBegin, ServeSelect, ServeEnd, calls
<1>3. CASE ServeSpawn
  <2>1. PICK h \in Handlers, place \in {"start_test", "stop_set"} : pc' = [pc EXCEPT ![h] = place]
    BY <1>3 DEF ServeSpawn, Goto
  <2>2. pc'["main"] = pc["main"] /\ serve = "spawn" /\ is_shut_down' = is_shut_down
    BY <1>1, <1>3, <2>1 DEF ServeSpawn
  <2> QED
    BY <2>2
<1>4. CASE Start \/ Shutdown \/ ShutdownServer
  BY <1>1, <1>4 DEF Start, Shutdown, ShutdownServer, At, Goto, server
<1>5. CASE ShutdownWait \/ Close
  <2>1. UNCHANGED <<serve, is_shut_down>> /\ serve = "ended"
    BY <1>5 DEF ShutdownWait, Close, At
  <2>2. pc'["main"] \in {"close", "join_handlers"}
    BY <1>1, <1>5 DEF ShutdownWait, Close, Goto
  <2> QED
    BY <2>1, <2>2
<1>6. CASE JoinHandlers \/ HostStop
  <2>1. \A h \in Handlers : pc[h] = "free" /\ pc'[h] = "free"
    BY <1>1, <1>6 DEF JoinHandlers, HostStop, At, Goto
  <2> QED
    BY <1>1, <1>6, <2>1 DEF JoinHandlers, HostStop, At, Goto, server
<1> QED
  BY <1>2, <1>3, <1>4, <1>5, <1>6

-----------------------------------------------------------------------------
\* Every step keeps the invariant.
LEMMA NextIInv == IInv /\ [Next]_vars => IInv'
<1> SUFFICES ASSUME IInv, [Next]_vars PROVE IInv'
  OBVIOUS
<1>1. TypeOK /\ TypeInv
  BY DEF IInv
<1>2. ASSUME NEW v \in Voices, NEW x \in Phases, Advance(v, x) PROVE IInv'
  BY <1>2 DEF IInv, TypeOK, TypeInv, ServerInv, HostStopsLast, Advance, At, poll, scan, calls, server
<1>3. ASSUME NEW p \in Pollers, PollStep(p) PROVE IInv'
  <2>1. TypeOK' /\ TypeInv'
    BY <1>1, <1>3, PollTypes
  <2>2. UNCHANGED <<pc, serve, is_shut_down>>
    BY <1>3 DEF PollStep, PollCheck, PollRead, PollSend, PollSendFails, PollRecord, calls, server
  <2> QED
    BY <2>1, <2>2 DEF IInv, ServerInv, HostStopsLast
<1>4. ASSUME NEW c \in Callers, CallStep(c) PROVE IInv'
  BY <1>1, <1>4, CallTypes, CallOrder DEF IInv
<1>5. CASE ServeBegin \/ ServeSelect \/ ServeSpawn \/ ServeEnd
  BY <1>1, <1>5, ServerTypes, ServerOrder DEF IInv
<1>6. CASE Start \/ Shutdown \/ ShutdownServer \/ ShutdownWait \/ Close \/ JoinHandlers \/ HostStop
  BY <1>1, <1>6, MainTypes, ServerOrder DEF IInv
<1>7. CASE UNCHANGED vars
  BY <1>7 DEF IInv, TypeOK, TypeInv, ServerInv, HostStopsLast, At, vars, poll, scan, calls, server
<1> QED
  BY <1>2, <1>3, <1>4, <1>5, <1>6, <1>7 DEF Next, MainStep, Callers

LEMMA Invariance == Spec => []IInv
<1> QED
  BY InitIInv, NextIInv, PTL DEF Spec

\* The types, and where a poll thread has a phase in hand and a caller a thread
\* to join (osc.py:118-150).
THEOREM TypeCorrect == Spec => []TypeOK
<1>1. IInv => TypeOK
  BY DEF IInv
<1> QED
  BY <1>1, Invariance, PTL

\* main() stops the host when no handler works on it any more (osc.py:567-570),
\* however many handlers there are and however they interleave.
THEOREM HostStoppedLast == Spec => []HostStopsLast
<1>1. IInv => HostStopsLast
  BY DEF IInv
<1> QED
  BY <1>1, Invariance, PTL
=============================================================================
