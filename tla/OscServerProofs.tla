--------------------------- MODULE OscServerProofs ---------------------------
(***************************************************************************)
(* The native OSC server, for any number of voices and any phases: its     *)
(* mutex and its GIL, the life of the poll thread, and that no phase is    *)
(* sent twice running; all of it while no poll message overlaps the        *)
(* shutdown, without which the poll thread may be replaced while it runs.  *)
(***************************************************************************)
EXTENDS OscServer, TLAPS

\* The owner holds the GIL through poll_once(), and the mutex in its scan.
LockInv ==
  /\ gil <=> owner \in {"scan_lock", "scan"}
  /\ mtx = "owner" <=> owner = "scan"
  /\ mtx = "poll" <=> poll \in {"check", "scan"}

\* A phase about to be sent is one voice's in a scan, and not what was sent last.
SeenInv ==
  \A s \in Scanners : seen[s] # None =>
    Scanning(s) /\ next[s] \in Voices /\ seen[s] # last[next[s]]

\* What was sent is what last_ says, since a reset.
ToldInv == told = last /\ repeated = FALSE

Types ==
  /\ phase \in [Voices -> Phases]
  /\ owner \in {"idle", "scan_lock", "scan", "join_poll", "stop_recv", "join_recv", "done"}
  /\ gil \in BOOLEAN
  /\ recv \in {"none", "loop", "wait", "deliver", "join_poll", "take_gil", "exit"}
  /\ msg \in Messages \union {None}
  /\ recv_running \in BOOLEAN /\ socket \in BOOLEAN /\ poll_running \in BOOLEAN
  /\ poll \in {"none", "start", "check", "scan", "wait", "woken", "exit", "terminate"}
  /\ mtx \in {"free", "poll", "owner"}
  /\ next \in [Scanners -> 1 .. NVoices + 1]
  /\ seen \in [Scanners -> Phases \union {None}]
  /\ last \in [Voices -> Phases \union {None}]

ScanInv == Types /\ LockInv /\ SeenInv /\ ToldInv

\* The owner's calls of shutdown().
Closing == {"join_poll", "stop_recv", "join_recv", "done"}

\* While the poll runs its thread is there and nobody joins it; who joins it has
\* lowered its flag; a shutdown finds no poll message in hand.
LifeInv ==
  /\ PollGone
  /\ poll_running => poll \notin {"none", "exit"}
  /\ poll_running => recv # "join_poll" /\ owner # "join_poll"
  /\ owner \in Closing => msg \notin PollMessages /\ recv \notin {"join_poll", "take_gil"}

-----------------------------------------------------------------------------
LEMMA InitScanInv == Init => ScanInv
<1> SUFFICES ASSUME Init PROVE ScanInv
  OBVIOUS
<1>1. 1 \in 1 .. NVoices + 1
  BY ConstantsAssumption
<1> QED
  BY <1>1 DEF Init, ScanInv, Types, LockInv, SeenInv, ToldInv, Messages

\* A step of either scan, by whoever holds the mutex.
LEMMA LookStep ==
  ASSUME ScanInv, NEW s \in Scanners, Look(s)
  PROVE  ScanInv'
<1> USE ConstantsAssumption DEF ScanInv, Look
<1>1. next[s] \in Voices /\ next[s] + 1 \in 1 .. NVoices + 1
  BY DEF Types, ScanDone, Voices
<1>2. UNCHANGED <<phase, owner, gil, recv, msg, recv_running, socket, poll_running, poll, mtx, last, told, repeated>>
  BY DEF receiver
<1>3. phase[next[s]] \in Phases /\ phase[next[s]] # None
  BY <1>1 DEF Types
<1>4. Types' /\ LockInv' /\ ToldInv'
  BY <1>1, <1>2, <1>3 DEF Types, LockInv, ToldInv
<1>5. SeenInv'
  BY <1>1, <1>2, <1>3 DEF SeenInv, Types, Scanning
<1> QED
  BY <1>4, <1>5

LEMMA SendStep ==
  ASSUME ScanInv, NEW s \in Scanners, Send(s)
  PROVE  ScanInv'
<1> USE ConstantsAssumption DEF ScanInv, Send
<1>1. Scanning(s) /\ next[s] \in Voices /\ seen[s] # last[next[s]] /\ seen[s] \in Phases
  BY DEF SeenInv, Types
<1>2. UNCHANGED <<phase, owner, gil, recv, msg, recv_running, socket, poll_running, poll, mtx>>
  BY DEF receiver
<1>3. next[s] + 1 \in 1 .. NVoices + 1
  BY <1>1 DEF Voices
<1>4. \A r \in Scanners : r # s => seen[r] = None
  BY <1>1 DEF SeenInv, LockInv, Scanning, Scanners
<1>5. Types' /\ LockInv'
  BY <1>1, <1>2, <1>3 DEF Types, LockInv
<1>6. ToldInv'
  BY <1>1 DEF ToldInv
<1>7. \A r \in Scanners : seen'[r] = None
  BY <1>4 DEF Types
<1> QED
  BY <1>5, <1>6, <1>7 DEF SeenInv

\* The poll thread and the receiver.
LEMMA PollSteps ==
  ASSUME ScanInv, PollLock \/ PollCheck \/ PollWait \/ PollWake
  PROVE  ScanInv'
<1> USE ConstantsAssumption DEF ScanInv, receiver, scan
<1>0. 1 \in 1 .. NVoices + 1 /\ "poll" \in Scanners /\ (seen["poll"] # None => ~ScanDone("poll"))
  BY DEF Scanners, SeenInv, ScanDone, Voices
<1>1. CASE PollLock
  BY <1>1 DEF PollLock, Types, LockInv, SeenInv, ToldInv, Scanning, Scanners
<1>2. CASE PollCheck
  <2>1. seen["poll"] = None
    BY <1>0, <1>2 DEF PollCheck, SeenInv, Scanning
  <2> QED
    BY <1>0, <1>2, <2>1 DEF PollCheck, Types, LockInv, SeenInv, ToldInv, Scanning, Scanners
<1>3. CASE PollWait
  <2>1. seen["poll"] = None
    BY <1>0, <1>3 DEF PollWait
  <2> QED
    BY <1>3, <2>1 DEF PollWait, Types, LockInv, SeenInv, ToldInv, Scanning, Scanners
<1>4. CASE PollWake
  BY <1>4 DEF PollWake, Types, LockInv, SeenInv, ToldInv, Scanning, Scanners
<1> QED
  BY <1>1, <1>2, <1>3, <1>4

\* A poll message finds a thread that runs, or none; only the join takes it away.
LEMMA ReceiverSteps ==
  ASSUME ScanInv, LifeInv, Overlap = FALSE, Receiver
  PROVE  ScanInv' /\ LifeInv'
<1> USE ConstantsAssumption DEF receiver, scan
<1>1. UNCHANGED <<phase, owner, gil, recv_running, socket, mtx, next, seen, last, told, repeated>>
  BY DEF Receiver, RecvLoop, RecvTimeout, Receive, PollJoin, Handled, Other, PollStart, PollStop,
         PollStopped, Deliver
<1>2. recv' \in {"loop", "exit", "wait", "deliver", "join_poll", "take_gil"} /\ msg' \in Messages \union {None}
      /\ poll_running' \in BOOLEAN
  BY DEF ScanInv, Types, Receiver, RecvLoop, RecvTimeout, Receive, PollJoin, Handled, Other,
         PollStart, PollStop, PollStopped, Deliver
<1>3. CASE RecvLoop \/ RecvTimeout \/ (\E m \in Messages : Receive(m)) \/ Other \/ PollStopped
  <2>1. UNCHANGED <<poll_running, poll>> /\ recv # "join_poll" /\ recv' \notin {"join_poll", "take_gil"}
    BY <1>3 DEF RecvLoop, RecvTimeout, Receive, Other, PollStopped, Deliver
  <2>2. msg' \in PollMessages => owner \notin Closing
    <3>1. msg' = msg \/ msg' = None \/ Receive(msg')
      BY <1>3 DEF RecvLoop, RecvTimeout, Receive, Other, PollStopped, Deliver
    <3>2. Receive(msg') /\ msg' \in PollMessages => owner \in {"idle", "scan_lock", "scan"}
      BY DEF Receive
    <3>3. None \notin PollMessages
      BY DEF Messages
    <3> QED
      BY <3>1, <3>2, <3>3 DEF LifeInv, Closing
  <2> QED
    BY <1>1, <1>2, <2>1, <2>2 DEF ScanInv, Types, LockInv, SeenInv, Scanning, ToldInv, LifeInv, PollGone
<1>4. CASE PollStart
  <2>1. msg = "poll_start" /\ recv = "deliver" /\ msg' = None /\ recv' = "loop" /\ poll_running' = TRUE
        /\ owner \notin Closing
    BY <1>4 DEF PollStart, Deliver, LifeInv, PollMessages
  <2>2. poll' = IF poll_running THEN poll ELSE "start"
    BY <1>4, <2>1 DEF PollStart, LifeInv, PollGone, Closing
  <2>3. ~poll_running => poll = "none"
    BY <2>1 DEF LifeInv, PollGone, Closing
  <2> QED
    BY <1>1, <1>2, <2>1, <2>2, <2>3
    DEF ScanInv, Types, LockInv, SeenInv, Scanning, Scanners, ToldInv, LifeInv, PollGone, Closing
<1>5. CASE PollStop
  <2>1. msg = "poll_stop" /\ recv = "deliver" /\ msg' = None /\ poll_running' = FALSE /\ poll' = poll
        /\ recv' = (IF poll_running THEN "join_poll" ELSE "loop") /\ owner \notin Closing
    BY <1>5 DEF PollStop, Deliver, LifeInv, PollMessages
  <2> QED
    BY <1>1, <1>2, <2>1 DEF ScanInv, Types, LockInv, SeenInv, Scanning, ToldInv, LifeInv, PollGone, Closing
<1>6. CASE PollJoin
  <2>1. recv = "join_poll" /\ recv' = "take_gil" /\ poll = "exit" /\ poll' = "none"
        /\ UNCHANGED <<poll_running, msg>> /\ ~poll_running /\ owner \notin Closing
    BY <1>6 DEF PollJoin, LifeInv
  <2> QED
    BY <1>1, <1>2, <2>1
    DEF ScanInv, Types, LockInv, SeenInv, Scanning, Scanners, ToldInv, LifeInv, PollGone, Closing
<1> QED
  BY <1>3, <1>4, <1>5, <1>6 DEF Receiver, Handled

\* The owner: a scan by hand, and a shutdown.
LEMMA OwnerSteps ==
  ASSUME ScanInv, LifeInv, Overlap = FALSE,
         ScanCall \/ ScanLock \/ ScanReturn \/ Reset \/ Shutdown \/ OwnerShutdown
  PROVE  ScanInv' /\ LifeInv'
<1> USE ConstantsAssumption DEF receiver, scan
<1>0. 1 \in 1 .. NVoices + 1 /\ "owner" \in Scanners /\ (seen["owner"] # None => ~ScanDone("owner"))
  BY DEF ScanInv, Scanners, SeenInv, ScanDone, Voices
<1>1. CASE ScanCall
  BY <1>1 DEF ScanCall, ScanInv, Types, LockInv, SeenInv, Scanning, ToldInv, LifeInv, PollGone, Closing
<1>2. CASE ScanLock
  <2>1. \A s \in Scanners : seen[s] = None
    BY <1>2 DEF ScanLock, ScanInv, LockInv, SeenInv, Scanning
  <2> QED
    BY <1>0, <1>2, <2>1
    DEF ScanLock, ScanInv, Types, LockInv, SeenInv, ToldInv, LifeInv, PollGone, Closing
<1>3. CASE ScanReturn
  <2>1. \A s \in Scanners : seen[s] = None
    BY <1>0, <1>3 DEF ScanReturn, ScanInv, LockInv, SeenInv, Scanning, Scanners
  <2> QED
    BY <1>3, <2>1
    DEF ScanReturn, ScanInv, Types, LockInv, SeenInv, ToldInv, LifeInv, PollGone, Closing
<1>4. CASE Reset
  <2>1. \A s \in Scanners : seen[s] = None
    BY <1>4 DEF Reset, ScanInv, LockInv, SeenInv, Scanning
  <2> QED
    BY <1>4, <2>1 DEF Reset, ScanInv, Types, LockInv, SeenInv, ToldInv, LifeInv, PollGone, Closing
<1>5. CASE Shutdown
  BY <1>5 DEF Shutdown, ScanInv, Types, LockInv, SeenInv, Scanning, ToldInv, LifeInv, PollGone, Closing
<1>6. CASE ShutdownPollJoin
  BY <1>6 DEF ShutdownPollJoin, ScanInv, Types, LockInv, SeenInv, Scanning, Scanners, ToldInv, LifeInv,
              PollGone, Closing
<1>7. CASE StopRecv
  BY <1>7 DEF StopRecv, ScanInv, Types, LockInv, SeenInv, Scanning, ToldInv, LifeInv, PollGone, Closing
<1>8. CASE JoinRecv
  BY <1>8 DEF JoinRecv, ScanInv, Types, LockInv, SeenInv, Scanning, ToldInv, LifeInv, PollGone, Closing
<1> QED
  BY <1>1, <1>2, <1>3, <1>4, <1>5, <1>6, <1>7, <1>8 DEF OwnerShutdown

\* A poll thread ends only when its flag is down.
LEMMA PollLife ==
  ASSUME LifeInv, Poll \/ (\E s \in Scanners : Look(s) \/ Send(s))
  PROVE  LifeInv'
<1>1. UNCHANGED <<owner, recv, msg, poll_running>>
  BY DEF Poll, PollLock, PollCheck, PollWait, PollWake, Look, Send, receiver
<1>2. poll' = poll \/ (poll # "none" /\ poll # "exit" /\ poll' \notin {"none", "terminate"}
                      /\ (poll' = "exit" => ~poll_running))
  BY DEF Poll, PollLock, PollCheck, PollWait, PollWake, Look, Send
<1> QED
  BY <1>1, <1>2 DEF LifeInv, PollGone

-----------------------------------------------------------------------------
LEMMA Invariance == Overlap = FALSE /\ Spec => [](ScanInv /\ LifeInv)
<1> SUFFICES ASSUME Overlap = FALSE PROVE Spec => [](ScanInv /\ LifeInv)
  OBVIOUS
<1>1. Init => ScanInv /\ LifeInv
  <2>1. Init => LifeInv
    BY DEF Init, LifeInv, PollGone, Closing
  <2> QED
    BY <2>1, InitScanInv
<1>2. ScanInv /\ LifeInv /\ [Next]_vars => (ScanInv /\ LifeInv)'
  <2> SUFFICES ASSUME ScanInv, LifeInv, [Next]_vars PROVE ScanInv' /\ LifeInv'
    OBVIOUS
  <2>1. ASSUME NEW v \in Voices, NEW p \in Phases, Advance(v, p) PROVE ScanInv' /\ LifeInv'
    BY <2>1 DEF Advance, ScanInv, Types, LockInv, SeenInv, Scanning, ToldInv, LifeInv, PollGone, receiver, scan
  <2>2. CASE Poll \/ OwnerCall
    <3>1. "poll" \in Scanners /\ "owner" \in Scanners
      BY DEF Scanners
    <3> QED
      BY <1>1, <2>2, <3>1, LookStep, SendStep, PollSteps, PollLife, OwnerSteps DEF Poll, OwnerCall
  <2>3. CASE Receiver
    BY <2>3, ReceiverSteps
  <2>4. CASE ScanCall \/ Reset \/ Shutdown \/ OwnerShutdown
    BY <2>4, OwnerSteps
  <2>5. CASE UNCHANGED vars
    BY <2>5 DEF vars, ScanInv, Types, LockInv, SeenInv, Scanning, ToldInv, LifeInv, PollGone, receiver, scan
  <2> QED
    BY <2>1, <2>2, <2>3, <2>4, <2>5 DEF Next
<1> QED
  BY <1>1, <1>2, PTL DEF Spec

\* Types; the mutex is held in the section it guards, and the poll thread is gone
\* when the stop that ended it returns (_core.cpp:1018-1033).
THEOREM TypeCorrect == Overlap = FALSE /\ Spec => []TypeOK
<1>1. ScanInv /\ LifeInv => TypeOK
  BY DEF ScanInv, Types, LockInv, ToldInv, LifeInv, TypeOK
<1> QED
  BY <1>1, Invariance, PTL

\* No phase is sent twice running, by the poll thread and poll_once() together
\* (_core.cpp:1061-1070).
THEOREM NeverRepeats == Overlap = FALSE /\ Spec => []NoRepeat
<1>1. ScanInv => NoRepeat
  BY DEF ScanInv, ToldInv, NoRepeat
<1> QED
  BY <1>1, Invariance, PTL
=============================================================================
