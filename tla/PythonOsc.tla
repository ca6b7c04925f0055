----------------------------- MODULE PythonOsc ------------------------------
(***************************************************************************)
(* softcut.osc.SoftcutOSC on its python-osc backend: main() starts the     *)
(* server on a thread, waits for /quit or Ctrl-C and shuts everything      *)
(* down; each datagram is dispatched on a handler thread of its own; the   *)
(* handlers of /poll/start and /poll/stop call _PhasePoll.start and .stop, *)
(* as shutdown() does, with no lock between them.                          *)
(*                                                                         *)
(* The GIL may pass to another thread between two statements, so a         *)
(* statement is an action.  pc[c] is the statement that caller c reaches   *)
(* next.  The socketserver classes are the standard library's, modelled    *)
(* from how SoftcutOSC uses them: serve_forever looks at its request to    *)
(* stop around each select, shutdown waits for it to have ended, and       *)
(* server_close joins the handler threads.                                 *)
(***************************************************************************)
EXTENDS Naturals, FiniteSets

CONSTANTS
  NVoices,    \* len(host.engine)
  Phases,     \* the values a quantized phase takes
  Pollers,    \* Thread objects of the phase poll (an id is used again)
  Handlers,   \* handler threads there can be at a time
  MaxMessages,\* bound: datagrams received
  None

Voices == 1 .. NVoices
Callers == Handlers \union {"main"}

ASSUME ConstantsAssumption ==
  NVoices \in Nat \ {0} /\ None \notin Phases \union Pollers /\ 0 \in Phases
ASSUME ThreadsAssumption == Pollers # {} /\ "main" \notin Handlers

VARIABLES
  phase,         \* quant_phase of each voice, the audio callback's
  stop_event,    \* _PhasePoll._stop
  thread,        \* _PhasePoll._thread
  last,          \* _PhasePoll._last
  poller,        \* where each Thread object is; "dead" also before it is made
  at, seen,      \* its scan: the voice, and the phase it has read
  shown,         \* the last phase sent for each voice
  pc, joining,   \* callers; the thread that a stop() in progress joins
  serve,         \* where serve_forever is
  request,       \* BaseServer.__shutdown_request
  is_shut_down,  \* BaseServer.__is_shut_down
  socket,        \* the listening socket is open
  received       \* datagrams so far

poll == <<stop_event, thread, last>>
scan == <<poller, at, seen, shown>>
calls == <<pc, joining>>
server == <<serve, request, is_shut_down, socket, received>>
vars == <<phase, poll, scan, calls, server>>

\* The server as it is before start(), or when it is being waited on and an
\* earlier /poll/start has been served.
Init ==
  /\ phase = [v \in Voices |-> 0]
  /\ stop_event = FALSE /\ last = [v \in Voices |-> None]
  /\ at = [p \in Pollers |-> 1] /\ seen = [p \in Pollers |-> None]
  /\ shown = [v \in Voices |-> None]
  /\ joining = [c \in Callers |-> None]
  /\ request = FALSE /\ is_shut_down = FALSE
  /\ socket = TRUE /\ received = 0
  /\ \E waiting \in BOOLEAN :
       /\ pc = [c \in Callers |-> IF c # "main" THEN "free" ELSE IF waiting THEN "waiting" ELSE "begin"]
       /\ serve = IF waiting THEN "select" ELSE "off"
       /\ thread = IF waiting THEN CHOOSE p \in Pollers : TRUE ELSE None
       /\ poller = [p \in Pollers |-> IF p = thread THEN "check" ELSE "dead"]

Alive(p) == poller[p] \in {"check", "scan", "send", "record"}

Goto(c, place) == pc' = [pc EXCEPT ![c] = place]
At(c, place) == pc[c] = place

\* What an exception does: _dispatch logs it and the handler is done; main()
\* has no handler for it, and host.stop() is not reached.
Raise(c) == Goto(c, IF c = "main" THEN "raised" ELSE "free")

Advance(v, x) ==
  /\ phase' = [phase EXCEPT ![v] = x]
  /\ UNCHANGED <<poll, scan, calls, server>>

-----------------------------------------------------------------------------
(* _PhasePoll.start *)

\* `if self._thread is not None and self._thread.is_alive(): return` reads
\* self._thread twice; a stop() in between makes it None.
StartTest(c) ==
  /\ At(c, "start_test")
  /\ Goto(c, IF thread = None THEN "start_clear" ELSE "start_alive")
  /\ UNCHANGED <<phase, poll, scan, joining, server>>

StartAlive(c) ==
  /\ At(c, "start_alive")
  /\ IF thread # None /\ ~Alive(thread) THEN Goto(c, "start_clear") ELSE Raise(c)
  /\ UNCHANGED <<phase, poll, scan, joining, server>>

StartClear(c) ==
  /\ At(c, "start_clear") /\ Goto(c, "start_reset")
  /\ stop_event' = FALSE
  /\ UNCHANGED <<phase, thread, last, scan, joining, server>>

StartReset(c) ==
  /\ At(c, "start_reset") /\ Goto(c, "start_make")
  /\ last' = [v \in Voices |-> None]
  /\ UNCHANGED <<phase, stop_event, thread, scan, joining, server>>

\* No variable refers to the Thread object any more, and it does not run.
Unused(p) ==
  /\ ~Alive(p) /\ thread # p
  /\ \A c \in Callers : joining[c] # p

StartMake(c) ==
  /\ At(c, "start_make") /\ Goto(c, "start_run")
  /\ \E p \in Pollers : Unused(p)
  /\ LET p == CHOOSE p \in Pollers : Unused(p)
     IN  thread' = p /\ poller' = [poller EXCEPT ![p] = "made"]
  /\ UNCHANGED <<phase, stop_event, last, at, seen, shown, joining, server>>

\* self._thread.start(): by now it may be None, or another caller's thread,
\* which starts only once.
StartRun(c) ==
  /\ At(c, "start_run")
  /\ IF thread # None /\ poller[thread] = "made"
       THEN poller' = [poller EXCEPT ![thread] = "check"] /\ Goto(c, "free")
       ELSE UNCHANGED poller /\ Raise(c)
  /\ UNCHANGED <<phase, poll, at, seen, shown, joining, server>>

-----------------------------------------------------------------------------
(* _PhasePoll.stop, called by a handler or by shutdown() *)

StopSet(c) ==
  /\ At(c, "stop_set") /\ Goto(c, "stop_read")
  /\ stop_event' = TRUE
  /\ UNCHANGED <<phase, thread, last, scan, joining, server>>

StopRead(c) ==
  /\ At(c, "stop_read")
  /\ Goto(c, IF thread = None THEN "stop_forget" ELSE "stop_join")
  /\ joining' = [joining EXCEPT ![c] = thread]
  /\ UNCHANGED <<phase, poll, scan, server>>

\* thread.join(timeout=1.0): raises if the thread was never started; otherwise
\* it returns when the thread has ended, or in any case after a second.
StopJoin(c) ==
  /\ At(c, "stop_join")
  /\ IF poller[joining[c]] = "made" THEN Raise(c) ELSE Goto(c, "stop_forget")
  /\ joining' = [joining EXCEPT ![c] = None]
  /\ UNCHANGED <<phase, poll, scan, server>>

StopForget(c) ==
  /\ At(c, "stop_forget")
  /\ thread' = None
  /\ Goto(c, IF c = "main" THEN "server" ELSE "free")
  /\ UNCHANGED <<phase, stop_event, last, scan, joining, server>>

-----------------------------------------------------------------------------
(* _PhasePoll._run and poll_once *)

\* Mutant: the loop asks whether there is a poll, not whether it was stopped.
PollCheckThread(p) ==
  /\ poller[p] = "check"
  /\ poller' = [poller EXCEPT ![p] = IF thread = None THEN "dead" ELSE "scan"]
  /\ UNCHANGED <<phase, poll, at, seen, shown, calls, server>>

PollCheck(p) ==
  /\ poller[p] = "check"
  /\ poller' = [poller EXCEPT ![p] = IF stop_event THEN "dead" ELSE "scan"]
  /\ UNCHANGED <<phase, poll, at, seen, shown, calls, server>>

\* Mutant: the scan goes one voice too far.
NextVoiceBeyond(p) ==
  /\ at' = [at EXCEPT ![p] = IF @ > NVoices THEN 1 ELSE @ + 1]
  /\ poller' = [poller EXCEPT ![p] = IF at[p] > NVoices THEN "check" ELSE "scan"]

\* The next voice, or the end of the scan and of the wait between two scans.
NextVoice(p) ==
  /\ at' = [at EXCEPT ![p] = IF @ = NVoices THEN 1 ELSE @ + 1]
  /\ poller' = [poller EXCEPT ![p] = IF at[p] = NVoices THEN "check" ELSE "scan"]

\* Read the phase and compare it with the last one sent.
PollRead(p) ==
  /\ poller[p] = "scan"
  /\ IF phase[at[p]] = last[at[p]]
       THEN NextVoice(p) /\ UNCHANGED seen
       ELSE /\ poller' = [poller EXCEPT ![p] = "send"]
            /\ seen' = [seen EXCEPT ![p] = phase[at[p]]]
            /\ UNCHANGED at
  /\ UNCHANGED <<phase, poll, shown, calls, server>>

PollSend(p) ==
  /\ poller[p] = "send"
  /\ shown' = [shown EXCEPT ![at[p]] = seen[p]]
  /\ poller' = [poller EXCEPT ![p] = "record"]
  /\ UNCHANGED <<phase, poll, at, seen, calls, server>>

\* The scan is abandoned.
Abandon(p) ==
  /\ poller' = [poller EXCEPT ![p] = "check"]
  /\ at' = [at EXCEPT ![p] = 1]
  /\ seen' = [seen EXCEPT ![p] = None]

\* Mutant: the phase is recorded before the send is known to have gone out.
PollSendFailsRecorded(p) ==
  /\ poller[p] = "send" /\ Abandon(p)
  /\ last' = [last EXCEPT ![at[p]] = seen[p]]
  /\ UNCHANGED <<phase, stop_event, thread, shown, calls, server>>

\* The send raises: the error is counted, nothing is recorded.
PollSendFails(p) ==
  /\ poller[p] = "send" /\ Abandon(p)
  /\ UNCHANGED <<phase, poll, shown, calls, server>>

PollRecord(p) ==
  /\ poller[p] = "record" /\ NextVoice(p)
  /\ last' = [last EXCEPT ![at[p]] = seen[p]]
  /\ seen' = [seen EXCEPT ![p] = None]
  /\ UNCHANGED <<phase, stop_event, thread, shown, calls, server>>

-----------------------------------------------------------------------------
(* socketserver.BaseServer and ThreadingMixIn *)

ServeBegin ==
  /\ serve = "begin" /\ serve' = "select"
  /\ is_shut_down' = FALSE
  /\ UNCHANGED <<phase, poll, scan, calls, request, socket, received>>

\* A datagram is ready.  A closed socket is always ready, and has nothing.
ServeSelect ==
  /\ serve = "select" /\ ~request /\ socket /\ received < MaxMessages
  /\ serve' = "spawn" /\ received' = received + 1
  /\ UNCHANGED <<phase, poll, scan, calls, request, is_shut_down, socket>>

\* The handler calls what the message's address maps to.
ServeSpawn ==
  /\ serve = "spawn" /\ serve' = "select"
  /\ \E h \in Handlers : At(h, "free")
  /\ \E place \in {"start_test", "stop_set"} :
       Goto(CHOOSE h \in Handlers : At(h, "free"), place)
  /\ UNCHANGED <<phase, poll, scan, joining, request, is_shut_down, socket, received>>

ServeEnd ==
  /\ serve = "select" /\ request
  /\ serve' = "ended" /\ request' = FALSE /\ is_shut_down' = TRUE
  /\ UNCHANGED <<phase, poll, scan, calls, socket, received>>

-----------------------------------------------------------------------------
(* main *)

\* SoftcutOSC.start: serve_forever on a thread.
Start ==
  /\ At("main", "begin") /\ Goto("main", "waiting")
  /\ serve' = "begin"
  /\ UNCHANGED <<phase, poll, scan, joining, request, is_shut_down, socket, received>>

\* wait_for_quit returns, after a /quit, or Ctrl-C.
Shutdown ==
  /\ At("main", "waiting") /\ Goto("main", "stop_set")
  /\ UNCHANGED <<phase, poll, scan, joining, server>>

ShutdownServer ==
  /\ At("main", "server") /\ Goto("main", "wait")
  /\ request' = TRUE
  /\ UNCHANGED <<phase, poll, scan, joining, serve, is_shut_down, socket, received>>

\* BaseServer.shutdown returns; the serve thread is joined (or given up).
ShutdownWait ==
  /\ At("main", "wait") /\ is_shut_down
  /\ Goto("main", "close")
  /\ UNCHANGED <<phase, poll, scan, joining, serve, request, is_shut_down, socket, received>>

\* Mutant: the socket is closed and the handlers are left to themselves.
CloseNoJoin ==
  /\ At("main", "close") /\ Goto("main", "host_stop")
  /\ socket' = FALSE
  /\ UNCHANGED <<phase, poll, scan, joining, serve, request, is_shut_down, received>>

Close ==
  /\ At("main", "close") /\ Goto("main", "join_handlers")
  /\ socket' = FALSE
  /\ UNCHANGED <<phase, poll, scan, joining, serve, request, is_shut_down, received>>

JoinHandlers ==
  /\ At("main", "join_handlers")
  /\ \A h \in Handlers : pc[h] = "free"
  /\ Goto("main", "host_stop")
  /\ UNCHANGED <<phase, poll, scan, joining, server>>

HostStop ==
  /\ At("main", "host_stop") /\ Goto("main", "done")
  /\ UNCHANGED <<phase, poll, scan, joining, server>>

-----------------------------------------------------------------------------
PollStep(p) ==
  PollCheck(p) \/ PollRead(p) \/ PollSend(p) \/ PollSendFails(p) \/ PollRecord(p)

CallStep(c) ==
  \/ StartTest(c) \/ StartAlive(c) \/ StartClear(c) \/ StartReset(c) \/ StartMake(c)
  \/ StartRun(c) \/ StopSet(c) \/ StopRead(c) \/ StopJoin(c) \/ StopForget(c)

MainStep ==
  \/ CallStep("main") \/ ShutdownServer \/ ShutdownWait \/ Close \/ JoinHandlers \/ HostStop

Next ==
  \/ \E v \in Voices, x \in Phases : Advance(v, x)
  \/ \E p \in Pollers : PollStep(p)
  \/ \E h \in Handlers : CallStep(h)
  \/ ServeBegin \/ ServeSelect \/ ServeSpawn \/ ServeEnd
  \/ Start \/ Shutdown \/ MainStep

\* Threads keep running; a send does not fail for ever.  Nobody
\* is made to send a datagram, to quit or to move a phase.
Fairness ==
  /\ \A p \in Pollers : WF_vars(PollStep(p)) /\ SF_vars(PollSend(p))
  /\ \A h \in Handlers : WF_vars(CallStep(h))
  /\ WF_vars(ServeBegin) /\ WF_vars(ServeSpawn) /\ WF_vars(ServeEnd)
  /\ WF_vars(Start) /\ WF_vars(MainStep)

Spec == Init /\ [][Next]_vars /\ Fairness

-----------------------------------------------------------------------------
\* Types; a poll thread has read the phase it sends and records, and holds none
\* elsewhere; a caller joins a Thread object only inside stop().
TypeOK ==
  /\ phase \in [Voices -> Phases]
  /\ thread \in Pollers \union {None}
  /\ last \in [Voices -> Phases \union {None}]
  /\ poller \in [Pollers -> {"made", "check", "scan", "send", "record", "dead"}]
  /\ at \in [Pollers -> Voices]
  /\ \A c \in Callers : joining[c] # None <=> At(c, "stop_join")
  /\ \A p \in Pollers : seen[p] \in IF poller[p] \in {"send", "record"} THEN Phases ELSE {None}

\* main() stops the host last (osc.py:567-570): by then no handler thread is at
\* work on it, because the serve loop has ended before its threads are joined.
HostStopsLast ==
  pc["main"] \in {"host_stop", "done"} => \A h \in Handlers : pc[h] = "free"

\* A stop that is not followed by a start ends every poll thread there is, the
\* ones that start and stop have lost track of included: they all look at the
\* one event.
PollsEnd ==
  <>[]stop_event => <>[](\A p \in Pollers : ~Alive(p))

\* As long as there is never more than one poll thread, the client is told a
\* phase that stays, although sends fail now and then and the poll is stopped
\* and started again.
OnePoll == \A p, q \in Pollers : Alive(p) /\ Alive(q) => p = q
Polling == ~stop_event /\ \E p \in Pollers : Alive(p)
Told ==
  \A v \in Voices, x \in Phases :
    <>[](Polling /\ phase[v] = x) => <>[](shown[v] = x)
Reported == []OnePoll => Told

\* main() gets to its end: shutdown() does not wait for a loop that is not
\* told to end, nor for handlers that never return.
ShutdownReturns == At("main", "stop_set") ~> pc["main"] \in {"done", "raised"}

\* What is told to end does.
AllEnd == PollsEnd /\ ShutdownReturns
=============================================================================
