----------------------------- MODULE Standalone -----------------------------
(***************************************************************************)
(* clients/softcut-osc: the engine without Python.  Five threads share it: *)
(* main (start-up, then shutdown), the OSC receiver, the phase poll it     *)
(* starts and stops, the disk worker, and the audio callback.  Parameter   *)
(* messages go through one command queue to the callback, buffer and file  *)
(* jobs through a deque under a mutex to the worker.                       *)
(*                                                                         *)
(* A message is its kind; the id it gets is its place in the order of      *)
(* dispatch.  The command queue is the FIFO CommandQueue implements.       *)
(***************************************************************************)
EXTENDS Naturals, Sequences, SequencesExt

CONSTANTS
  Room,     \* commands the queue holds
  Bundle,   \* messages one datagram carries, at most
  MaxMsgs   \* bound on the messages received (TLC only)

ASSUME BoundsAssumption == Room \in Nat \ {0} /\ Bundle \in Nat \ {0} /\ MaxMsgs \in Nat

Kinds == {"param", "job", "poll_start", "poll_stop", "quit"}
Datagrams == UNION {[1 .. k -> Kinds] : k \in 1 .. Bundle}

VARIABLES
  main,           \* where main is
  recv,           \* where the receiver is; "none" before it is started
  inbox,          \* what is left of the datagram it holds
  recv_running,   \* OscServer::recv_running_
  stop_asked,     \* quit_, or the flag the signal handler sets
  received,       \* messages dispatched so far
  running,        \* Engine::running_
  device,         \* the audio device is started
  audio,          \* the callback: "idle", "drain" or "process"
  queue,          \* Engine::queue_
  params, applied, \* ids of the parameter messages, and those run, in order
  overflowed,     \* a push has found the queue full
  poll_running,   \* OscServer::poll_running_
  poll,           \* the poll thread; "none" when there is none to join
  disk_running,   \* DiskWorker::running_
  mtx,            \* DiskWorker::mtx_ is held by the worker
  worker,         \* where the worker is
  jobs,           \* DiskWorker::jobs_
  posted, done    \* ids of the jobs dispatched, and those run, in order

engine == <<running, device, audio, queue, params, applied, overflowed>>
poller == <<poll_running, poll>>
disk == <<disk_running, mtx, worker, jobs, posted, done>>
receiver == <<recv, inbox, recv_running, received>>
vars == <<main, receiver, stop_asked, engine, poller, disk>>

Init ==
  /\ main = "boot" /\ recv = "none" /\ inbox = << >>
  /\ recv_running = FALSE /\ stop_asked = FALSE /\ received = 0
  /\ running = FALSE /\ device = FALSE /\ audio = "idle"
  /\ queue = << >> /\ params = << >> /\ applied = << >> /\ overflowed = FALSE
  /\ poll_running = FALSE /\ poll = "none"
  /\ disk_running = TRUE /\ mtx = TRUE /\ worker = "check"
  /\ jobs = << >> /\ posted = << >> /\ done = << >>

-----------------------------------------------------------------------------
(* The receiver *)

RecvLoop ==
  /\ recv = "loop"
  /\ recv' = IF recv_running THEN "wait" ELSE "exit"
  /\ UNCHANGED <<main, inbox, recv_running, received, stop_asked, engine, poller, disk>>

RecvTimeout ==
  /\ recv = "wait" /\ recv' = "loop"
  /\ UNCHANGED <<main, inbox, recv_running, received, stop_asked, engine, poller, disk>>

\* A message, or a bundle, all of which is dispatched before the loop looks at
\* recv_running_ again.
Receive(d) ==
  /\ recv = "wait" /\ recv' = "dispatch"
  /\ received + Len(d) <= MaxMsgs
  /\ inbox' = d
  /\ UNCHANGED <<main, recv_running, received, stop_asked, engine, poller, disk>>

DatagramDone ==
  /\ recv = "dispatch" /\ inbox = << >> /\ recv' = "loop"
  /\ UNCHANGED <<main, inbox, recv_running, received, stop_asked, engine, poller, disk>>

Dispatch(kind) ==
  /\ recv = "dispatch" /\ inbox # << >> /\ Head(inbox) = kind
  /\ inbox' = Tail(inbox)
  /\ received' = received + 1
  /\ UNCHANGED <<main, recv_running>>

\* A parameter: its closure is what apply() is called with.
DispatchParam ==
  /\ Dispatch("param") /\ recv' = "apply"
  /\ params' = Append(params, received')
  /\ UNCHANGED <<stop_asked, running, device, audio, queue, applied, overflowed, poller, disk>>

Full == Len(queue) >= Room

\* Mutant: between two callbacks the change is made here.
QueuesHereUnlessIdle == running /\ ~Full /\ audio # "idle"

QueuesHere == running /\ ~Full

\* Engine::apply: queue it, or fall through and run it on this thread.
Apply ==
  /\ recv = "apply"
  /\ IF QueuesHere
       THEN queue' = Append(queue, Last(params)) /\ recv' = "dispatch"
       ELSE queue' = queue /\ recv' = "direct"
  /\ overflowed' = (overflowed \/ (running /\ Full))
  /\ UNCHANGED <<main, inbox, recv_running, received, stop_asked, running, device, audio,
                 params, applied, poller, disk>>

ApplyDirect ==
  /\ recv = "direct" /\ recv' = "dispatch"
  /\ applied' = Append(applied, Last(params))
  /\ UNCHANGED <<main, inbox, recv_running, received, stop_asked, running, device, audio,
                 queue, params, overflowed, poller, disk>>

\* DiskWorker::post, first half: under the mutex.
Post ==
  /\ Dispatch("job") /\ ~mtx
  /\ posted' = Append(posted, received')
  /\ IF disk_running
       THEN jobs' = Append(jobs, received') /\ recv' = "notify"
       ELSE jobs' = jobs /\ recv' = "dispatch"
  /\ UNCHANGED <<stop_asked, engine, poller, disk_running, mtx, worker, done>>

\* Waking the worker: it takes the mutex again before it looks.
Notified == IF worker = "asleep" THEN "woken" ELSE worker

\* Mutant: the worker is not told.
PostNotifyLost ==
  /\ recv = "notify" /\ recv' = "dispatch"
  /\ UNCHANGED <<main, inbox, recv_running, received, stop_asked, engine, poller, disk>>

PostNotify ==
  /\ recv = "notify" /\ recv' = "dispatch"
  /\ worker' = Notified
  /\ UNCHANGED <<main, inbox, recv_running, received, stop_asked, engine, poller,
                 disk_running, mtx, jobs, posted, done>>

\* start_phase_poll; assigning to a std::thread still joinable ends the process.
PollStart ==
  /\ Dispatch("poll_start") /\ recv' = "dispatch"
  /\ poll_running' = TRUE
  /\ poll' = IF poll_running THEN poll ELSE IF poll = "none" THEN "check" ELSE "terminate"
  /\ UNCHANGED <<stop_asked, engine, disk>>

\* Mutant: stop_phase_poll without the join.
PollStopNoJoin ==
  /\ Dispatch("poll_stop")
  /\ poll_running' = FALSE
  /\ recv' = "dispatch"
  /\ UNCHANGED <<stop_asked, engine, poll, disk>>

PollStop ==
  /\ Dispatch("poll_stop")
  /\ poll_running' = FALSE
  /\ recv' = IF poll_running THEN "join_poll" ELSE "dispatch"
  /\ UNCHANGED <<stop_asked, engine, poll, disk>>

PollJoin ==
  /\ recv = "join_poll" /\ poll = "exit"
  /\ recv' = "dispatch" /\ poll' = "none"
  /\ UNCHANGED <<main, inbox, recv_running, received, stop_asked, engine, poll_running, disk>>

Quit ==
  /\ Dispatch("quit") /\ recv' = "dispatch"
  /\ stop_asked' = TRUE
  /\ UNCHANGED <<engine, poller, disk>>

Receiver ==
  \/ RecvLoop \/ RecvTimeout \/ DatagramDone
  \/ \E d \in Datagrams : Receive(d)
  \/ DispatchParam \/ Apply \/ ApplyDirect
  \/ Post \/ PostNotify \/ PollStart \/ PollStop \/ PollJoin \/ Quit

-----------------------------------------------------------------------------
(* The phase poll: scan and send, then wait out the period or a notify *)

PollCheck ==
  /\ poll = "check"
  /\ poll' = IF poll_running THEN "scan" ELSE "exit"
  /\ UNCHANGED <<main, receiver, stop_asked, engine, poll_running, disk>>

PollScan ==
  /\ poll = "scan" /\ poll' = "wait"
  /\ UNCHANGED <<main, receiver, stop_asked, engine, poll_running, disk>>

PollWake ==
  /\ poll = "wait" /\ poll' = "check"
  /\ UNCHANGED <<main, receiver, stop_asked, engine, poll_running, disk>>

Poll == PollCheck \/ PollScan \/ PollWake

-----------------------------------------------------------------------------
(* The disk worker *)

WorkerLock ==
  /\ worker \in {"woken", "relock"} /\ ~mtx
  /\ mtx' = TRUE /\ worker' = "check"
  /\ UNCHANGED <<main, receiver, stop_asked, engine, poller, disk_running, jobs, posted, done>>

\* The job is taken under the mutex and run without it.
WorkerTake ==
  /\ worker = "check" /\ jobs # << >>
  /\ jobs' = Tail(jobs)
  /\ done' = Append(done, Head(jobs))
  /\ worker' = "job" /\ mtx' = FALSE
  /\ UNCHANGED <<main, receiver, stop_asked, engine, poller, disk_running, posted>>

WorkerRan ==
  /\ worker = "job" /\ worker' = "relock"
  /\ UNCHANGED <<main, receiver, stop_asked, engine, poller, disk_running, mtx, jobs, posted,
                 done>>

\* Nothing to do: wait releases the mutex and sleeps in one step, or the loop ends.
WorkerSleep ==
  /\ worker = "check" /\ jobs = << >>
  /\ worker' = IF disk_running THEN "asleep" ELSE "exit"
  /\ mtx' = FALSE
  /\ UNCHANGED <<main, receiver, stop_asked, engine, poller, disk_running, jobs, posted, done>>

Worker == WorkerLock \/ WorkerTake \/ WorkerRan \/ WorkerSleep

-----------------------------------------------------------------------------
(* The audio callback *)

Callback ==
  /\ device /\ audio = "idle" /\ audio' = "drain"
  /\ UNCHANGED <<main, receiver, stop_asked, running, device, queue, params, applied,
                 overflowed, poller, disk>>

Drain ==
  /\ audio = "drain"
  /\ IF queue = << >>
       THEN audio' = "process" /\ UNCHANGED <<queue, applied>>
       ELSE /\ queue' = Tail(queue)
            /\ applied' = Append(applied, Head(queue))
            /\ audio' = audio
  /\ UNCHANGED <<main, receiver, stop_asked, running, device, params, overflowed, poller, disk>>

Return ==
  /\ audio = "process" /\ audio' = "idle"
  /\ UNCHANGED <<main, receiver, stop_asked, running, device, queue, params, applied,
                 overflowed, poller, disk>>

Audio == Callback \/ Drain \/ Return

-----------------------------------------------------------------------------
(* main *)

\* --no-audio, or a device that initialises, or one that does not.
Boot ==
  /\ main = "boot"
  /\ \/ main' = "listen" /\ UNCHANGED running
     \/ main' = "device_start" /\ running' = TRUE
     \/ main' = "stop_recv" /\ UNCHANGED running
  /\ UNCHANGED <<receiver, stop_asked, device, audio, queue, params, applied, overflowed,
                 poller, disk>>

\* A failure to start it unwinds through the destructors, which do what a
\* shutdown does.
DeviceStart ==
  /\ main = "device_start"
  /\ \/ main' = "listen" /\ device' = TRUE /\ UNCHANGED running
     \/ main' = "stop_recv" /\ running' = FALSE /\ UNCHANGED device
  /\ UNCHANGED <<receiver, stop_asked, audio, queue, params, applied, overflowed, poller, disk>>

Listen ==
  /\ main = "listen" /\ main' = "serve"
  /\ recv_running' = TRUE /\ recv' = "loop"
  /\ UNCHANGED <<inbox, received, stop_asked, engine, poller, disk>>

Signal ==
  /\ main = "serve" /\ stop_asked' = TRUE
  /\ UNCHANGED <<main, receiver, engine, poller, disk>>

StopRecv ==
  /\ \/ main = "serve" /\ stop_asked
     \/ main = "stop_recv"
  /\ main' = "join_recv"
  /\ recv_running' = FALSE
  /\ UNCHANGED <<recv, inbox, received, stop_asked, engine, poller, disk>>

\* Mutant: the receiver is told to stop and not waited for.
JoinRecvNot ==
  /\ main = "join_recv" /\ main' = "stop_poll"
  /\ UNCHANGED <<receiver, stop_asked, engine, poller, disk>>

JoinRecv ==
  /\ main = "join_recv" /\ recv \in {"none", "exit"}
  /\ main' = "stop_poll" /\ recv' = "none"
  /\ UNCHANGED <<inbox, recv_running, received, stop_asked, engine, poller, disk>>

StopPoll ==
  /\ main = "stop_poll"
  /\ main' = IF poll_running THEN "join_poll" ELSE "stop_disk"
  /\ poll_running' = FALSE
  /\ UNCHANGED <<receiver, stop_asked, engine, poll, disk>>

JoinPoll ==
  /\ main = "join_poll" /\ poll = "exit"
  /\ main' = "stop_disk" /\ poll' = "none"
  /\ UNCHANGED <<receiver, stop_asked, engine, poll_running, disk>>

\* DiskWorker::stop: the flag under the mutex, then the notify.
StopDisk ==
  /\ main = "stop_disk" /\ ~mtx
  /\ main' = "notify_disk"
  /\ disk_running' = FALSE
  /\ UNCHANGED <<receiver, stop_asked, engine, poller, mtx, worker, jobs, posted, done>>

NotifyDisk ==
  /\ main = "notify_disk" /\ main' = "join_disk"
  /\ worker' = Notified
  /\ UNCHANGED <<receiver, stop_asked, engine, poller, disk_running, mtx, jobs, posted, done>>

JoinDisk ==
  /\ main = "join_disk" /\ worker = "exit"
  /\ main' = "stop_engine"
  /\ UNCHANGED <<receiver, stop_asked, engine, poller, disk>>

StopEngine ==
  /\ main = "stop_engine" /\ main' = "uninit"
  /\ running' = FALSE
  /\ UNCHANGED <<receiver, stop_asked, device, audio, queue, params, applied, overflowed,
                 poller, disk>>

\* ma_device_uninit: no further callback, then wait for the one in progress.
Uninit ==
  /\ main = "uninit"
  /\ main' = "join_audio" /\ device' = FALSE
  /\ UNCHANGED <<receiver, stop_asked, running, audio, queue, params, applied, overflowed,
                 poller, disk>>

JoinAudio ==
  /\ main = "join_audio" /\ audio = "idle"
  /\ main' = "drain"
  /\ UNCHANGED <<receiver, stop_asked, engine, poller, disk>>

StopDrain ==
  /\ main = "drain" /\ main' = "done"
  /\ applied' = applied \o queue
  /\ queue' = << >>
  /\ UNCHANGED <<receiver, stop_asked, running, device, audio, params, overflowed, poller, disk>>

Main ==
  \/ Boot \/ DeviceStart \/ Listen \/ StopRecv \/ JoinRecv \/ StopPoll \/ JoinPoll
  \/ StopDisk \/ NotifyDisk \/ JoinDisk \/ StopEngine \/ Uninit \/ JoinAudio
  \/ StopDrain

Next == Main \/ Signal \/ Receiver \/ Poll \/ Worker \/ Audio

\* Each thread keeps running; nothing says that a message or a signal ever comes
\* (recvfrom gives up after 100 ms).  The mutex goes to each thread that keeps
\* asking for it.
Fairness ==
  /\ WF_vars(Main) /\ SF_vars(StopDisk)
  /\ WF_vars(RecvLoop \/ RecvTimeout \/ DatagramDone \/ DispatchParam \/ Apply \/ ApplyDirect
             \/ PostNotify \/ PollStart \/ PollStop \/ PollJoin \/ Quit)
  /\ SF_vars(Post)
  /\ WF_vars(Poll)
  /\ WF_vars(Worker) /\ SF_vars(WorkerLock)
  /\ WF_vars(Audio)

Spec == Init /\ [][Next]_vars /\ Fairness

-----------------------------------------------------------------------------
\* The poll thread is gone once the stop that ended it has returned, so that no
\* phase is sent after it and the next start may reuse the thread object.
PollGone ==
  /\ poll # "terminate"
  /\ ~poll_running /\ recv # "join_poll" /\ main # "join_poll" => poll = "none"

\* Types; the queue is within its room, and the poll thread is gone when it should be.
TypeOK ==
  /\ PollGone
  /\ main \in {"boot", "device_start", "listen", "serve", "stop_recv", "join_recv", "stop_poll",
               "join_poll", "stop_disk", "notify_disk", "join_disk", "stop_engine", "uninit",
               "join_audio", "drain", "done"}
  /\ recv \in {"none", "loop", "wait", "dispatch", "apply", "direct", "notify", "join_poll",
               "exit"}
  /\ inbox \in Seq(Kinds) /\ received \in 0 .. MaxMsgs
  /\ recv_running \in BOOLEAN /\ stop_asked \in BOOLEAN
  /\ running \in BOOLEAN /\ device \in BOOLEAN /\ audio \in {"idle", "drain", "process"}
  /\ \A s \in {queue, params, applied, jobs, posted, done} : s \in Seq(1 .. MaxMsgs)
  /\ Len(queue) <= Room /\ overflowed \in BOOLEAN
  /\ poll_running \in BOOLEAN
  /\ poll \in {"none", "check", "scan", "wait", "exit", "terminate"}
  /\ disk_running \in BOOLEAN /\ mtx \in BOOLEAN
  /\ worker \in {"check", "asleep", "woken", "job", "relock", "exit"}

\* A shutdown loses nothing that was received: every parameter change has been
\* made once, on one thread or another, and the jobs have been run in the order
\* they were posted ("a write posted after a read observes that read's result").
NothingLost ==
  main = "done" =>
    /\ IsInjective(applied) /\ ToSet(applied) = ToSet(params)
    /\ done = posted

\* While the queue has never been full, parameter changes are made in the order
\* they were received, whichever thread makes them and whatever stage of
\* start-up or shutdown the engine is in.
InOrder == ~overflowed => IsPrefix(applied, params)

\* A shutdown asked for, by message or by signal, completes: no thread main joins
\* waits for something only main would do.
ShutdownCompletes == (main = "serve" /\ stop_asked) ~> (main = "done")

\* A job that is posted is run, though no later one wakes the worker.
JobsRun == \A i \in 1 .. MaxMsgs : (i \in ToSet(posted)) ~> (i \in ToSet(done))

\* What was accepted is brought to its end: every job, and every shutdown.
AllServed == JobsRun /\ ShutdownCompletes
=============================================================================
