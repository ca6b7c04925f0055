----------------------------- MODULE OscServer ------------------------------
(***************************************************************************)
(* softcut.osc.SoftcutOSC on its native backend: the OscReceiver thread,   *)
(* the OscPhasePoll thread its handlers start and stop, and the Python     *)
(* thread that owns the server, which may scan by hand and in the end      *)
(* shuts it down.                                                          *)
(*                                                                         *)
(* Python code runs under the GIL, so a handler that does not block is one *)
(* step; `gil` says that the owner's thread is inside a call and holds it. *)
(* The quantized phases are the audio callback's.  Messages dispatched     *)
(* without Python change nothing here and are left out.                    *)
(***************************************************************************)
EXTENDS Naturals

CONSTANTS
  NVoices,  \* Engine::n_voices
  Phases,   \* the values a quantized phase takes
  None,     \* NaN: nothing sent yet; also no message
  Overlap   \* poll messages may be on their way while the server shuts down

Voices == 1 .. NVoices
PollMessages == {"poll_start", "poll_stop"}
Messages == PollMessages \union {"other"}

ASSUME ConstantsAssumption == NVoices \in Nat \ {0} /\ None \notin Phases \union Messages
ASSUME OverlapAssumption == Overlap \in BOOLEAN

VARIABLES
  phase,          \* Voice::quantPhase, of each voice
  owner,          \* where the thread that owns the server is
  gil,            \* whether it holds the GIL
  recv,           \* where the receiver is; "none" when joined
  msg,            \* the message it has in hand
  recv_running,   \* OscReceiver::running_
  socket,         \* OscReceiver::sock_ is open
  poll_running,   \* OscPhasePoll::running_
  poll,           \* where the poll thread is; "none" when there is none to join
  mtx,            \* who holds OscPhasePoll::mtx_: "free", "poll" or "owner"
  next, seen,     \* a scan: the voice it is at, the phase it is about to send
  last,           \* OscPhasePoll::last_
  told,           \* the last phase sent for each voice since a reset
  repeated        \* a phase has been sent twice running

receiver == <<recv, msg, recv_running>>
scan == <<next, seen, last, told, repeated>>
vars == <<phase, owner, gil, receiver, socket, poll_running, poll, mtx, scan>>

Scanners == {"poll", "owner"}

Init ==
  /\ phase \in [Voices -> Phases]
  /\ owner = "idle" /\ gil = FALSE
  /\ recv = "loop" /\ msg = None /\ recv_running = TRUE /\ socket = TRUE
  /\ poll_running = FALSE /\ poll = "none" /\ mtx = "free"
  /\ next = [s \in Scanners |-> 1] /\ seen = [s \in Scanners |-> None]
  /\ last = [v \in Voices |-> None] /\ told = [v \in Voices |-> None]
  /\ repeated = FALSE

Advance(v, p) ==
  /\ phase' = [phase EXCEPT ![v] = p]
  /\ UNCHANGED <<owner, gil, receiver, socket, poll_running, poll, mtx, scan>>

-----------------------------------------------------------------------------
(* scan_locked, one voice at a time *)

Scanning(s) == IF s = "poll" THEN poll = "scan" ELSE owner = "scan"

ScanDone(s) == next[s] > NVoices

\* A phase that differs from the last one sent is about to be sent.
Look(s) ==
  /\ Scanning(s) /\ ~ScanDone(s) /\ seen[s] = None
  /\ IF phase[next[s]] # last[next[s]]
       THEN seen' = [seen EXCEPT ![s] = phase[next[s]]] /\ next' = next
       ELSE next' = [next EXCEPT ![s] = @ + 1] /\ seen' = seen
  /\ UNCHANGED <<phase, owner, gil, receiver, socket, poll_running, poll, mtx, last, told,
                 repeated>>

Send(s) ==
  /\ Scanning(s) /\ seen[s] # None
  /\ last' = [last EXCEPT ![next[s]] = seen[s]]
  /\ told' = [told EXCEPT ![next[s]] = seen[s]]
  /\ repeated' = (repeated \/ told[next[s]] = seen[s])
  /\ seen' = [seen EXCEPT ![s] = None]
  /\ next' = [next EXCEPT ![s] = @ + 1]
  /\ UNCHANGED <<phase, owner, gil, receiver, socket, poll_running, poll, mtx>>

-----------------------------------------------------------------------------
(* The poll thread *)

\* The loop holds the mutex except in wait_for, which takes it again to look at
\* running_.
PollLock ==
  /\ poll \in {"start", "woken"} /\ mtx = "free"
  /\ mtx' = "poll" /\ poll' = "check"
  /\ UNCHANGED <<phase, owner, gil, receiver, socket, poll_running, scan>>

PollCheck ==
  /\ poll = "check"
  /\ IF poll_running
       THEN poll' = "scan" /\ mtx' = mtx
       ELSE poll' = "exit" /\ mtx' = "free"
  /\ next' = [next EXCEPT !["poll"] = 1]
  /\ UNCHANGED <<phase, owner, gil, receiver, socket, poll_running, seen, last, told, repeated>>

PollWait ==
  /\ poll = "scan" /\ ScanDone("poll")
  /\ poll' = "wait" /\ mtx' = "free"
  /\ UNCHANGED <<phase, owner, gil, receiver, socket, poll_running, scan>>

\* Mutant: woken by a stop only, never by the period.
PollWakeOnStop ==
  /\ poll = "wait" /\ ~poll_running /\ poll' = "woken"
  /\ UNCHANGED <<phase, owner, gil, receiver, socket, poll_running, mtx, scan>>

\* The period is over, or stop has notified.
PollWake ==
  /\ poll = "wait" /\ poll' = "woken"
  /\ UNCHANGED <<phase, owner, gil, receiver, socket, poll_running, mtx, scan>>

Poll == PollLock \/ PollCheck \/ Look("poll") \/ Send("poll") \/ PollWait \/ PollWake

-----------------------------------------------------------------------------
(* The receiver *)

RecvLoop ==
  /\ recv = "loop"
  /\ recv' = IF recv_running THEN "wait" ELSE "exit"
  /\ UNCHANGED <<phase, owner, gil, msg, recv_running, socket, poll_running, poll, mtx, scan>>

RecvTimeout ==
  /\ recv = "wait" /\ recv' = "loop"
  /\ UNCHANGED <<phase, owner, gil, msg, recv_running, socket, poll_running, poll, mtx, scan>>

\* deliver: the message waits for the GIL.
Receive(m) ==
  /\ recv = "wait" /\ recv' = "deliver"
  /\ msg' = m
  /\ m \in PollMessages => Overlap \/ owner \in {"idle", "scan_lock", "scan"}
  /\ UNCHANGED <<phase, owner, gil, recv_running, socket, poll_running, poll, mtx, scan>>

Deliver(m) ==
  /\ recv = "deliver" /\ msg = m /\ ~gil
  /\ msg' = None
  /\ UNCHANGED <<phase, owner, gil, recv_running, socket, mtx, scan>>

Other == Deliver("other") /\ recv' = "loop" /\ UNCHANGED <<poll_running, poll>>

\* OscPhasePoll::start; assigning to a std::thread still joinable ends the
\* process: "terminate", after which nothing here is of interest.
PollStart ==
  /\ Deliver("poll_start") /\ recv' = "loop"
  /\ poll_running' = TRUE
  /\ poll' = IF poll_running THEN poll ELSE IF poll = "none" THEN "start" ELSE "terminate"

\* Mutant: stop lowers the flag and returns.
PollStopNoJoin ==
  /\ Deliver("poll_stop") /\ recv' = "loop"
  /\ poll_running' = FALSE
  /\ poll' = poll

\* OscPhasePoll::stop: the GIL is released for the join.
PollStop ==
  /\ Deliver("poll_stop")
  /\ poll_running' = FALSE
  /\ recv' = IF poll_running THEN "join_poll" ELSE "loop"
  /\ poll' = poll

PollJoin ==
  /\ recv = "join_poll" /\ poll = "exit"
  /\ recv' = "take_gil" /\ poll' = "none"
  /\ UNCHANGED <<phase, owner, gil, msg, recv_running, socket, poll_running, mtx, scan>>

PollStopped ==
  /\ recv = "take_gil" /\ ~gil /\ recv' = "loop"
  /\ UNCHANGED <<phase, owner, gil, msg, recv_running, socket, poll_running, poll, mtx, scan>>

Handled == Other \/ PollStart \/ PollStop \/ PollStopped

Receiver == RecvLoop \/ RecvTimeout \/ (\E m \in Messages : Receive(m)) \/ PollJoin \/ Handled

-----------------------------------------------------------------------------
(* The owner *)

\* poll_once, called from Python: it keeps the GIL and waits for the mutex.
ScanCall ==
  /\ owner = "idle" /\ owner' = "scan_lock" /\ gil' = TRUE
  /\ UNCHANGED <<phase, receiver, socket, poll_running, poll, mtx, scan>>

\* Mutant: the scan does not wait for the mutex.
ScanLockSteals ==
  /\ owner = "scan_lock" /\ owner' = "scan"
  /\ mtx' = "owner"
  /\ next' = [next EXCEPT !["owner"] = 1]
  /\ UNCHANGED <<phase, gil, receiver, socket, poll_running, poll, seen, last, told, repeated>>

ScanLock ==
  /\ owner = "scan_lock" /\ mtx = "free"
  /\ mtx' = "owner" /\ owner' = "scan"
  /\ next' = [next EXCEPT !["owner"] = 1]
  /\ UNCHANGED <<phase, gil, receiver, socket, poll_running, poll, seen, last, told, repeated>>

ScanReturn ==
  /\ owner = "scan" /\ ScanDone("owner")
  /\ owner' = "idle" /\ gil' = FALSE
  /\ mtx' = IF mtx = "owner" THEN "free" ELSE mtx
  /\ UNCHANGED <<phase, receiver, socket, poll_running, poll, scan>>

Reset ==
  /\ owner = "idle" /\ mtx = "free"
  /\ last' = [v \in Voices |-> None] /\ told' = [v \in Voices |-> None]
  /\ UNCHANGED <<phase, owner, gil, receiver, socket, poll_running, poll, mtx, next, seen,
                 repeated>>

\* SoftcutOSC.shutdown, first the poll.
Shutdown ==
  /\ owner = "idle"
  /\ Overlap \/ (msg \notin PollMessages /\ recv \notin {"join_poll", "take_gil"})
  /\ owner' = IF poll_running THEN "join_poll" ELSE "stop_recv"
  /\ poll_running' = FALSE
  /\ UNCHANGED <<phase, gil, receiver, socket, poll, mtx, scan>>

ShutdownPollJoin ==
  /\ owner = "join_poll" /\ poll = "exit"
  /\ owner' = "stop_recv" /\ poll' = "none"
  /\ UNCHANGED <<phase, gil, receiver, socket, poll_running, mtx, scan>>

\* Mutant: the join keeps the GIL.
StopRecvKeepsGil ==
  /\ owner = "stop_recv" /\ owner' = "join_recv"
  /\ recv_running' = FALSE
  /\ gil' = TRUE
  /\ UNCHANGED <<phase, recv, msg, socket, poll_running, poll, mtx, scan>>

\* Then the receiver: OscReceiver::stop joins it without the GIL, ...
StopRecv ==
  /\ owner = "stop_recv" /\ owner' = "join_recv"
  /\ recv_running' = FALSE
  /\ UNCHANGED <<phase, gil, recv, msg, socket, poll_running, poll, mtx, scan>>

\* ... and closes the socket.
JoinRecv ==
  /\ owner = "join_recv" /\ recv = "exit"
  /\ recv' = "none" /\ owner' = "done" /\ socket' = FALSE
  /\ UNCHANGED <<phase, gil, msg, recv_running, poll_running, poll, mtx, scan>>

OwnerCall == ScanLock \/ Look("owner") \/ Send("owner") \/ ScanReturn
OwnerShutdown == ShutdownPollJoin \/ StopRecv \/ JoinRecv

Next ==
  \/ \E v \in Voices, p \in Phases : Advance(v, p)
  \/ Poll \/ Receiver
  \/ ScanCall \/ OwnerCall \/ Reset \/ Shutdown \/ OwnerShutdown

\* Threads keep running; the GIL and the mutex go to each thread that keeps
\* asking.  Nothing says that a message comes, that the owner makes a call, or
\* that the phase moves.
Fairness ==
  /\ WF_vars(PollCheck \/ Look("poll") \/ Send("poll") \/ PollWait \/ PollWake)
  /\ SF_vars(PollLock)
  /\ WF_vars(RecvLoop \/ RecvTimeout \/ PollJoin)
  /\ SF_vars(Handled)
  /\ WF_vars(Look("owner") \/ Send("owner") \/ ScanReturn) /\ SF_vars(ScanLock)
  /\ WF_vars(OwnerShutdown)

Spec == Init /\ [][Next]_vars /\ Fairness

-----------------------------------------------------------------------------
\* While poll messages keep clear of the shutdown, the poll thread is gone when the
\* stop that ended it returns, and a start never finds one still to be joined.
PollGone ==
  /\ poll # "terminate"
  /\ ~poll_running /\ recv # "join_poll" /\ owner # "join_poll" => poll = "none"

\* Types, and a mutex held by the thread that is in the section it guards;
\* the poll thread is gone when it should be.
TypeOK ==
  /\ PollGone
  /\ phase \in [Voices -> Phases]
  /\ owner \in {"idle", "scan_lock", "scan", "join_poll", "stop_recv", "join_recv", "done"}
  /\ gil \in BOOLEAN
  /\ recv \in {"none", "loop", "wait", "deliver", "join_poll", "take_gil", "exit"}
  /\ msg \in Messages \union {None}
  /\ recv_running \in BOOLEAN /\ socket \in BOOLEAN /\ poll_running \in BOOLEAN
  /\ poll \in {"none", "start", "check", "scan", "wait", "woken", "exit", "terminate"}
  /\ mtx \in {"free", "poll", "owner"}
  /\ mtx = "poll" <=> poll \in {"check", "scan"}
  /\ next \in [Scanners -> 1 .. NVoices + 1]
  /\ seen \in [Scanners -> Phases \union {None}]
  /\ last \in [Voices -> Phases \union {None}] /\ told \in [Voices -> Phases \union {None}]
  /\ repeated \in BOOLEAN

\* Whoever scans, a phase is sent when it has changed and never twice running:
\* the poll thread and poll_once() never act on the same look at last_.
NoRepeat == ~repeated

\* docs/guide/osc.md, line 118: while the poll is running it "sends, whenever it
\* changes" a voice's phase: one that stays put is what the client is told, again
\* after every reset.
Reported ==
  \A v \in Voices, p \in Phases :
    <>[](poll_running /\ phase[v] = p) => []<>(told[v] = p)

\* A shutdown returns, whatever message the receiver has in hand and waits for
\* the GIL with, and whatever the poll thread is doing.
ShutdownReturns == (owner \in {"join_poll", "stop_recv"}) ~> (owner = "done")

\* osc.py, line 335: shutdown() is to "Stop the phase poll and the server".
ShutdownStops == owner = "done" => poll \in {"none", "exit", "terminate"}
=============================================================================
