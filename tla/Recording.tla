----------------------------- MODULE Recording ------------------------------
(***************************************************************************)
(* Recording on one voice: softcut::Voice and its two crossfading subheads *)
(* (thirdparty/softcut-lib), and the wrapper in src/softcut/_core.cpp that *)
(* queues the changes, mirrors rec, rec_once and loop, and decides whether *)
(* a getter reports a mirror or the flag the audio thread published.       *)
(*                                                                         *)
(* The audio callback drains the queue, processes a block sample by sample *)
(* and publishes the flags.  A head's position is abstracted to whether it *)
(* leaves the loop at a sample.  Python calls are atomic here: one thread, *)
(* and the audio thread reads nothing the call writes but the queue.       *)
(***************************************************************************)
EXTENDS Integers, Sequences, FiniteSets

CONSTANTS
  FadeSteps,  \* a fade counts 0 .. FadeSteps; the increment is fadeInc
  BlockLen,   \* samples in a block
  Room,       \* commands the queue holds
  MaxSets     \* bound on the calls made (TLC only)

ASSUME FadeAssumption == FadeSteps \in Nat \ {0} /\ BlockLen \in Nat \ {0}
ASSUME RoomAssumption == Room \in Nat \ {0} /\ MaxSets \in Nat

VARIABLES
  dsp,      \* softcut::Voice with its ReadWriteHead
  saved,    \* savedRecFlag and savedRecOnceFlag
  mirror,   \* Voice::rec_, rec_once_ and loop_
  pending,  \* Voice::flag_changes_pending_
  queue,    \* the voice's commands in Engine::queue
  dropped,  \* Voice::dropped_commands_
  audio,    \* the callback: "idle", "drain", "applied" or "samples"
  left,     \* samples left in the block
  sets      \* calls made so far (TLC bound)

vars == <<dsp, saved, mirror, pending, queue, dropped, audio, left, sets>>

Heads == {0, 1}
NoHead == -1
OnceOff == [flag |-> FALSE, done |-> FALSE, head |-> NoHead]

\* ReadWriteHead::getRecOnceActive
OnceActive(d) == d.once.done \/ d.once.flag \/ d.once.head # NoHead

Fading(d) == d.state[d.active] \in {"FadeIn", "FadeOut"}

-----------------------------------------------------------------------------
(* What a command does to the voice.                                       *)

SetOnce(d, on) == [d EXCEPT !.once = [OnceOff EXCEPT !.flag = on]]

StopHeads(d) ==
  [d EXCEPT !.state = [h \in Heads |-> "Stopped"], !.fade = [h \in Heads |-> 0]]

RunHeads(d) == [d EXCEPT !.state[d.active] = "Playing", !.fade[d.active] = FadeSteps]

\* The heads run while either flag is up.
StartOrStop(d, was, on, other) ==
  IF was /\ ~on /\ ~other THEN StopHeads(d)
  ELSE IF ~was /\ on /\ ~other THEN RunHeads(d)
  ELSE d

\* Mutant: turning rec off leaves an armed pass alone.
SetRecKeepsOnce(d, on) == [StartOrStop(d, d.rec, on, d.play) EXCEPT !.rec = on]

\* Rec off cancels a rec_once pass.
SetRec(d, on) ==
  LET e == [StartOrStop(d, d.rec, on, d.play) EXCEPT !.rec = on]
  IN  IF ~on /\ OnceActive(e) THEN SetOnce(e, FALSE) ELSE e

SetRecOnce(d, on) == IF on THEN SetRec(SetOnce(d, on), TRUE) ELSE SetOnce(d, on)

SetPlay(d, on) == [StartOrStop(d, d.play, on, d.rec) EXCEPT !.play = on]

\* Mutant: the head of a finished pass is not given up.
OnceAtCutForgets(o, new) ==
  IF o.flag THEN [o EXCEPT !.flag = FALSE, !.head = new] ELSE o

\* A cut to head `new` ends the pass that head recorded, and begins one that
\* is armed.
OnceAtCut(o, new) ==
  LET e == IF o.head = new THEN [o EXCEPT !.head = NoHead, !.done = TRUE] ELSE o
  IN  IF e.flag THEN [e EXCEPT !.flag = FALSE, !.head = new] ELSE e

\* Mutant: the head that was active keeps running.
CutToPhaseKeepsOld(d) ==
  LET new == 1 - d.active
  IN  [d EXCEPT !.state[new] = "FadeIn",
                !.once = OnceAtCut(d.once, new),
                !.isActive = [h \in Heads |-> h = new],
                !.active = new]

\* ReadWriteHead::cutToPhase, which is only called on a head that is not fading.
CutToPhase(d) ==
  LET new == 1 - d.active
  IN  [d EXCEPT !.state[new] = "FadeIn",
                !.state[d.active] = IF @ = "Stopped" THEN @ ELSE "FadeOut",
                !.once = OnceAtCut(d.once, new),
                !.isActive = [h \in Heads |-> h = new],
                !.active = new]

CutToPos(d) == IF Fading(d) THEN [d EXCEPT !.queued = TRUE] ELSE CutToPhase(d)

\* setLoopStart and setLoopEnd forget a crossfade that waits for a fade.
SetLoopBound(d) == [d EXCEPT !.queued = FALSE]

\* Voice::reset: the loop flag and the subheads' active_ are left as they are.
Reset(d) ==
  [StopHeads(d) EXCEPT !.rec = FALSE, !.play = FALSE, !.once = OnceOff,
                       !.active = 0, !.queued = FALSE]

Command(op, on) == [op |-> op, on |-> on]
FlagOps == {"rec", "once", "reset"}  \* routed through flag_apply

Effect(d, c) ==
  CASE c.op = "rec"       -> SetRec(d, c.on)
    [] c.op = "once"      -> SetRecOnce(d, c.on)
    [] c.op = "play"      -> SetPlay(d, c.on)
    [] c.op = "loop"      -> [d EXCEPT !.loop = c.on]
    [] c.op = "cut_to"    -> CutToPos(d)
    [] c.op = "loop_start" -> SetLoopBound(d)
    [] c.op = "stop"      -> StopHeads(d)
    [] c.op = "reset"     -> Reset(d)

-----------------------------------------------------------------------------
(* One sample: updatePhase and updateFade of both heads, dequeueCrossfade. *)

Leaves(d, out) == {h \in out : d.state[h] # "Stopped" /\ d.isActive[h]}

UpdatePhase(d, out) ==
  IF d.loop
    THEN [d EXCEPT !.queued = @ \/ Leaves(d, out) # {}]
    ELSE [d EXCEPT !.state = [h \in Heads |->
            IF h \in Leaves(d, out) THEN "FadeOut" ELSE d.state[h]]]

\* Mutant: the fade in is not held at full level.
UpdateFadeOvershoots(d) ==
  [d EXCEPT
    !.state = [h \in Heads |->
      CASE d.state[h] = "FadeIn"  /\ d.fade[h] = FadeSteps -> "Playing"
        [] d.state[h] = "FadeOut" /\ d.fade[h] = 0         -> "Stopped"
        [] OTHER -> d.state[h]],
    !.fade = [h \in Heads |->
      CASE d.state[h] = "FadeIn"                           -> d.fade[h] + 1
        [] d.state[h] = "FadeOut" /\ d.fade[h] > 0         -> d.fade[h] - 1
        [] OTHER -> d.fade[h]]]

UpdateFade(d) ==
  [d EXCEPT
    !.state = [h \in Heads |->
      CASE d.state[h] = "FadeIn"  /\ d.fade[h] = FadeSteps -> "Playing"
        [] d.state[h] = "FadeOut" /\ d.fade[h] = 0         -> "Stopped"
        [] OTHER -> d.state[h]],
    !.fade = [h \in Heads |->
      CASE d.state[h] = "FadeIn"  /\ d.fade[h] < FadeSteps -> d.fade[h] + 1
        [] d.state[h] = "FadeOut" /\ d.fade[h] > 0         -> d.fade[h] - 1
        [] OTHER -> d.fade[h]]]

DequeueCrossfade(d) ==
  IF Fading(d) THEN d
  ELSE [(IF d.queued THEN CutToPhase(d) ELSE d) EXCEPT !.queued = FALSE]

ProcessSample(d, out) ==
  IF d.rec \/ d.play THEN DequeueCrossfade(UpdateFade(UpdatePhase(d, out))) ELSE d

\* Mutant: the pass that ended is kept.
EndBlockKeepsPass(d) == IF d.rec /\ d.once.done THEN [d EXCEPT !.rec = FALSE] ELSE d

\* After the last sample: a pass that is done turns recording off.
EndBlock(d) ==
  IF d.rec /\ d.once.done THEN [d EXCEPT !.rec = FALSE, !.once = OnceOff] ELSE d

Published(d) == [rec |-> d.rec, once |-> OnceActive(d)]

-----------------------------------------------------------------------------
Init ==
  /\ dsp = [rec |-> FALSE, play |-> FALSE, loop |-> FALSE, once |-> OnceOff,
            state |-> [h \in Heads |-> "Stopped"], fade |-> [h \in Heads |-> 0],
            isActive |-> [h \in Heads |-> FALSE], active |-> 0, queued |-> FALSE]
  /\ saved = [rec |-> FALSE, once |-> FALSE]
  /\ mirror = [rec |-> FALSE, once |-> FALSE, loop |-> FALSE]
  /\ pending = 0 /\ queue = << >> /\ dropped = 0
  /\ audio = "idle" /\ left = 0 /\ sets = 0

\* Mutant: a dropped flag change stays pending.
PushLeaksPending(c) ==
  IF Len(queue) < Room
    THEN /\ queue' = Append(queue, c)
         /\ pending' = pending + (IF c.op \in FlagOps THEN 1 ELSE 0)
         /\ UNCHANGED dropped
    ELSE /\ dropped' = dropped + 1
         /\ pending' = pending + (IF c.op \in FlagOps THEN 1 ELSE 0)
         /\ UNCHANGED queue

\* flag_apply and dsp_apply on a running engine; a full queue drops the change
\* when the callback does not drain it while the call waits.
Push(c) ==
  \/ /\ Len(queue) < Room
     /\ queue' = Append(queue, c)
     /\ pending' = pending + (IF c.op \in FlagOps THEN 1 ELSE 0)
     /\ UNCHANGED dropped
  \/ /\ Len(queue) >= Room
     /\ dropped' = dropped + 1
     /\ UNCHANGED <<queue, pending>>

\* The mirrors a call leaves: rec off cancels rec_once, rec_once on sets rec.
Mirrored(m, c) ==
  CASE c.op = "rec"   -> [m EXCEPT !.rec = c.on, !.once = @ /\ c.on]
    [] c.op = "once"  -> [m EXCEPT !.once = c.on, !.rec = @ \/ c.on]
    [] c.op = "loop"  -> [m EXCEPT !.loop = c.on]
    [] c.op = "reset" -> [rec |-> FALSE, once |-> FALSE, loop |-> FALSE]
    [] OTHER -> m

Set(op, on) ==
  /\ sets < MaxSets
  /\ sets' = sets + 1
  /\ mirror' = Mirrored(mirror, Command(op, on))
  /\ Push(Command(op, on))
  /\ UNCHANGED <<dsp, saved, audio, left>>

Callback ==
  /\ audio = "idle" /\ audio' = "drain"
  /\ UNCHANGED <<dsp, saved, mirror, pending, queue, dropped, left, sets>>

\* A popped command takes effect; one that changes the flags publishes them.
Drain ==
  /\ audio = "drain" /\ queue # << >>
  /\ LET c == Head(queue)
     IN  /\ dsp' = Effect(dsp, c)
         /\ saved' = IF c.op \in FlagOps THEN Published(dsp') ELSE saved
         /\ audio' = IF c.op \in FlagOps THEN "applied" ELSE "drain"
  /\ queue' = Tail(queue)
  /\ UNCHANGED <<mirror, pending, dropped, left, sets>>

FlagApplied ==
  /\ audio = "applied" /\ audio' = "drain"
  /\ pending' = pending - 1
  /\ UNCHANGED <<dsp, saved, mirror, queue, dropped, left, sets>>

StartBlock ==
  /\ audio = "drain" /\ queue = << >>
  /\ audio' = "samples" /\ left' = BlockLen
  /\ UNCHANGED <<dsp, saved, mirror, pending, queue, dropped, sets>>

\* out: the heads whose next position is outside the loop.
Sample(out) ==
  /\ audio = "samples" /\ left > 0
  /\ dsp' = ProcessSample(dsp, out)
  /\ left' = left - 1
  /\ UNCHANGED <<saved, mirror, pending, queue, dropped, audio, sets>>

\* Mutant: the flags are published before the pass that ended clears them.
FinishBlockPublishesFirst ==
  /\ audio = "samples" /\ left = 0
  /\ dsp' = EndBlock(dsp)
  /\ saved' = Published(dsp)
  /\ audio' = "idle"
  /\ UNCHANGED <<mirror, pending, queue, dropped, left, sets>>

FinishBlock ==
  /\ audio = "samples" /\ left = 0
  /\ dsp' = EndBlock(dsp)
  /\ saved' = Published(dsp')
  /\ audio' = "idle"
  /\ UNCHANGED <<mirror, pending, queue, dropped, left, sets>>

Switches == {"rec", "once", "play", "loop"}
Moves == {"cut_to", "loop_start", "stop", "reset"}

Python ==
  \/ \E op \in Switches, on \in BOOLEAN : Set(op, on)
  \/ \E op \in Moves : Set(op, FALSE)

Audio ==
  \/ Callback
  \/ Drain
  \/ FlagApplied
  \/ StartBlock
  \/ \E out \in SUBSET Heads : Sample(out)
  \/ FinishBlock

Next == Python \/ Audio

\* The device keeps calling back, and a running head keeps coming back to the
\* end of its loop: the rate is not 0 and the loop is finite.
Fairness == WF_vars(Audio) /\ SF_vars(Sample({dsp.active}))

Spec == Init /\ [][Next]_vars /\ Fairness

-----------------------------------------------------------------------------
\* What Voice::rec and Voice::rec_once return.
RecRead == IF pending > 0 THEN mirror.rec ELSE saved.rec
OnceRead == IF pending > 0 THEN mirror.once ELSE saved.once

HeadStates == {"Stopped", "FadeIn", "Playing", "FadeOut"}

\* Every variable has its type; the fades, the queue and the block stay within
\* their bounds.
TypeOK ==
  /\ dsp \in [rec : BOOLEAN, play : BOOLEAN, loop : BOOLEAN,
              once : [flag : BOOLEAN, done : BOOLEAN, head : Heads \cup {NoHead}],
              state : [Heads -> HeadStates], fade : [Heads -> 0 .. FadeSteps],
              isActive : [Heads -> BOOLEAN], active : Heads, queued : BOOLEAN]
  /\ saved \in [rec : BOOLEAN, once : BOOLEAN]
  /\ mirror \in [rec : BOOLEAN, once : BOOLEAN, loop : BOOLEAN]
  /\ pending \in Nat /\ dropped \in Nat /\ sets \in Nat
  /\ queue \in Seq([op : Switches \cup Moves, on : BOOLEAN]) /\ Len(queue) <= Room
  /\ audio \in {"idle", "drain", "applied", "samples"}
  /\ left \in 0 .. BlockLen

\* flag_changes_pending_ counts the flag changes that are queued, and the one
\* the audio thread applied and has yet to count off: a change that was dropped
\* is not waited for, so the getters do not report the mirrors for ever.
PendingExact ==
  pending = Cardinality({i \in 1 .. Len(queue) : queue[i].op \in FlagOps})
            + (IF audio = "applied" THEN 1 ELSE 0)

\* With no flag change under way and no block in progress, rec and rec_once
\* read what the DSP does: also after a pass that ended by itself, after a
\* rec_once that rec = False cancelled, and after a change that was dropped.
ReadsTrue ==
  (pending = 0 /\ audio \in {"idle", "drain"}) =>
    RecRead = dsp.rec /\ OnceRead = OnceActive(dsp)

\* A pass is only armed, running or done while the voice records: nothing that
\* turns recording off leaves a pass behind to start by itself later.
OnceImpliesRec == OnceActive(dsp) => dsp.rec

\* One head at most is heard at full level: the one that is not active is fading
\* out or stopped, the assertion of processSampleNoRead.
OneHeadPlays == dsp.state[1 - dsp.active] \in {"FadeOut", "Stopped"}

\* The head that records a pass fades in once: when a cut comes back to it the
\* pass is over, and what it recorded is not written over.
PassIsOnce ==
  [][\A h \in Heads :
       (dsp.once.head = h /\ dsp'.once.head = h /\ dsp.state[h] # "FadeIn")
         => dsp'.state[h] # "FadeIn"]_vars

\* An armed pass ends by itself on a voice that goes on looping.
PassEnds ==
  (OnceActive(dsp) /\ dsp.loop /\ dsp.isActive[dsp.active]
     /\ dsp.state[dsp.active] # "Stopped")
    ~> \/ ~OnceActive(dsp)
       \/ ~dsp.loop \/ ~dsp.isActive[dsp.active] \/ dsp.state[dsp.active] = "Stopped"

\* loop reads what a voice with nothing queued and nothing dropped does.
LoopReadsTrue == (queue = << >> /\ dropped = 0) => mirror.loop = dsp.loop

=============================================================================
