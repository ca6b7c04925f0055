-------------------------- MODULE RecordingProofs ---------------------------
(***************************************************************************)
(* What Recording keeps for every fade length, block length and queue      *)
(* size.  First each method of the voice, as a function on its state, then *)
(* the queue of changes, then the steps.                                   *)
(***************************************************************************)
EXTENDS Recording, FiniteSetTheorems, SequenceTheorems, TLAPS

OnceStates == [flag : BOOLEAN, done : BOOLEAN, head : Heads \cup {NoHead}]

Voices ==
  [rec : BOOLEAN, play : BOOLEAN, loop : BOOLEAN, once : OnceStates,
   state : [Heads -> HeadStates], fade : [Heads -> 0 .. FadeSteps],
   isActive : [Heads -> BOOLEAN], active : Heads, queued : BOOLEAN]

\* The head that is not active does not fade in or play; a pass implies
\* recording; a pass that is armed records no head yet.
HeadsInv(d) == d \in Voices /\ d.state[1 - d.active] \in {"FadeOut", "Stopped"}
PassInv(d) == OnceActive(d) => d.rec
ArmedInv(d) == d.once.flag => d.once.head = NoHead
VoiceInv(d) == HeadsInv(d) /\ PassInv(d) /\ ArmedInv(d)

\* Between two states of a voice, the head that goes on recording a pass does
\* not fade in again.
NoSecondFadeIn(d, e) ==
  \A h \in Heads :
    (d.once.head = h /\ e.once.head = h /\ d.state[h] # "FadeIn") => e.state[h] # "FadeIn"

\* From d to e the flags, the pass and the active head stay, and no head begins
\* to fade in.
SamePass(d, e) ==
  /\ e.once = d.once /\ e.rec = d.rec /\ e.active = d.active
  /\ \A h \in Heads : e.state[h] = "FadeIn" => d.state[h] = "FadeIn"

-----------------------------------------------------------------------------
(* The methods of the voice.                                               *)

\* A voice keeps its invariant, and the head of its pass does not fade in
\* again, while the pass stays what it is.
LEMMA SamePassKeeps ==
  ASSUME NEW d, NEW e, VoiceInv(d), HeadsInv(e), SamePass(d, e)
  PROVE  VoiceInv(e) /\ NoSecondFadeIn(d, e)
BY DEF VoiceInv, PassInv, ArmedInv, OnceActive, NoSecondFadeIn, SamePass

\* ReadWriteHead::stop silences both heads and changes nothing else.
LEMMA StopHeadsInv ==
  ASSUME NEW d, HeadsInv(d)
  PROVE  HeadsInv(StopHeads(d)) /\ SamePass(d, StopHeads(d))
<1> DEFINE s == [h \in Heads |-> "Stopped"]
<1> DEFINE f == [h \in Heads |-> 0]
<1> DEFINE e == StopHeads(d)
<1>1. e = [d EXCEPT !.state = s, !.fade = f]
  BY DEF StopHeads
<1>2. s \in [Heads -> HeadStates] /\ f \in [Heads -> 0 .. FadeSteps]
  BY FadeAssumption DEF HeadStates
<1>3. \A h \in Heads : s[h] = "Stopped"
  OBVIOUS
<1>4. 1 - d.active \in Heads
  BY DEF HeadsInv, Voices, Heads
<1> HIDE DEF s, f, e
<1>5. /\ e \in Voices /\ e.state = s /\ e.once = d.once
      /\ e.rec = d.rec /\ e.active = d.active
  BY <1>1, <1>2 DEF Voices, HeadsInv
<1>6. HeadsInv(e) /\ SamePass(d, e)
  BY <1>3, <1>4, <1>5 DEF HeadsInv, SamePass
<1> QED
  BY <1>6 DEF e

\* ReadWriteHead::run starts the active head at full level: it does not fade in.
LEMMA RunHeadsInv ==
  ASSUME NEW d, HeadsInv(d)
  PROVE  HeadsInv(RunHeads(d)) /\ SamePass(d, RunHeads(d))
<1> DEFINE s == [d.state EXCEPT ![d.active] = "Playing"]
<1> DEFINE f == [d.fade EXCEPT ![d.active] = FadeSteps]
<1> DEFINE e == RunHeads(d)
<1>0. /\ d \in Voices /\ d.state \in [Heads -> HeadStates]
      /\ d.fade \in [Heads -> 0 .. FadeSteps]
      /\ "Playing" \in HeadStates /\ FadeSteps \in 0 .. FadeSteps
  BY FadeAssumption DEF HeadsInv, Voices, HeadStates
<1>1. e = [d EXCEPT !.state = s, !.fade = f]
  BY DEF RunHeads
<1>2. s \in [Heads -> HeadStates] /\ f \in [Heads -> 0 .. FadeSteps]
  BY <1>0
<1>3. \A h \in Heads : s[h] = IF h = d.active THEN "Playing" ELSE d.state[h]
  BY <1>0
<1>4. 1 - d.active \in Heads /\ 1 - d.active # d.active
  BY DEF HeadsInv, Voices, Heads
<1> HIDE DEF s, f, e
<1>5. /\ e \in Voices /\ e.state = s /\ e.once = d.once
      /\ e.rec = d.rec /\ e.active = d.active
  BY <1>1, <1>2 DEF Voices, HeadsInv
<1>6. HeadsInv(e) /\ SamePass(d, e)
  BY <1>3, <1>4, <1>5 DEF HeadsInv, SamePass
<1> QED
  BY <1>6 DEF e

\* Neither does what a change of either flag does to the heads.
LEMMA StartOrStopInv ==
  ASSUME NEW d, HeadsInv(d), NEW was, NEW on, NEW other
  PROVE  /\ HeadsInv(StartOrStop(d, was, on, other))
         /\ SamePass(d, StartOrStop(d, was, on, other))
<1>1. SamePass(d, d)
  BY DEF SamePass
<1> QED
  BY <1>1, StopHeadsInv, RunHeadsInv DEF StartOrStop

\* setRecOnceFlag leaves nothing of an earlier pass.
LEMMA SetOnceInv ==
  ASSUME NEW d, HeadsInv(d), NEW on \in BOOLEAN
  PROVE  /\ HeadsInv(SetOnce(d, on))
         /\ SetOnce(d, on).once.flag = on
         /\ SetOnce(d, on).once.head = NoHead
         /\ SetOnce(d, on).rec = d.rec
         /\ OnceActive(SetOnce(d, on)) = on
<1> DEFINE o == [OnceOff EXCEPT !.flag = on]
<1> DEFINE e == SetOnce(d, on)
<1>1. e = [d EXCEPT !.once = o]
  BY DEF SetOnce
<1>2. o \in OnceStates
  BY DEF OnceStates, OnceOff
<1>3. o.flag = on /\ o.done = FALSE /\ o.head = NoHead
  BY DEF OnceOff
<1> HIDE DEF o, e
<1>4. /\ e \in Voices /\ e.once = o /\ e.rec = d.rec
      /\ e.state = d.state /\ e.active = d.active
  BY <1>1, <1>2 DEF Voices, HeadsInv
<1>5. HeadsInv(e) /\ OnceActive(e) = on
  BY <1>3, <1>4 DEF HeadsInv, OnceActive
<1> QED
  BY <1>3, <1>4, <1>5 DEF e

\* Rec off cancels the pass, so the flag and the pass go together.
LEMMA SetRecInv ==
  ASSUME NEW d, HeadsInv(d), ArmedInv(d), NEW on \in BOOLEAN
  PROVE  /\ VoiceInv(SetRec(d, on))
         /\ NoSecondFadeIn(d, SetRec(d, on))
         /\ on => SetRec(d, on).once = d.once
<1> DEFINE b == StartOrStop(d, d.rec, on, d.play)
<1> DEFINE e == [b EXCEPT !.rec = on]
<1>1. SetRec(d, on) = IF ~on /\ OnceActive(e) THEN SetOnce(e, FALSE) ELSE e
  BY DEF SetRec
<1>2. HeadsInv(b) /\ SamePass(d, b)
  BY StartOrStopInv
<1> HIDE DEF b
<1>3. /\ HeadsInv(e) /\ e.rec = on
      /\ e.once = b.once /\ e.state = b.state
  BY <1>2 DEF HeadsInv, Voices
<1> HIDE DEF e
<1>4. e.once = d.once /\ (\A h \in Heads : e.state[h] = "FadeIn" => d.state[h] = "FadeIn")
  BY <1>2, <1>3 DEF SamePass
<1>5. CASE ~on /\ OnceActive(e)
  <2> DEFINE c == SetOnce(e, FALSE)
  <2>1. HeadsInv(c) /\ c.once.flag = FALSE /\ c.once.head = NoHead /\ ~OnceActive(c)
    BY <1>3, SetOnceInv
  <2> HIDE DEF c
  <2>2. VoiceInv(c) /\ NoSecondFadeIn(d, c)
    BY <2>1 DEF VoiceInv, ArmedInv, PassInv, NoSecondFadeIn, NoHead, Heads
  <2> QED BY <1>1, <1>5, <2>2 DEF c
<1>6. CASE ~(~on /\ OnceActive(e))
  <2>1. VoiceInv(e) /\ NoSecondFadeIn(d, e)
    BY <1>3, <1>4, <1>6 DEF VoiceInv, ArmedInv, PassInv, NoSecondFadeIn
  <2> QED BY <1>1, <1>4, <1>6, <2>1
<1> QED
  BY <1>5, <1>6

\* Arming a pass turns recording on; the head of an earlier pass is given up.
LEMMA SetRecOnceInv ==
  ASSUME NEW d, VoiceInv(d), NEW on \in BOOLEAN
  PROVE  VoiceInv(SetRecOnce(d, on)) /\ NoSecondFadeIn(d, SetRecOnce(d, on))
<1> DEFINE a == SetOnce(d, on)
<1>1. /\ HeadsInv(a) /\ a.once.head = NoHead
      /\ OnceActive(a) = on
  BY SetOnceInv DEF VoiceInv
<1>2. SetRecOnce(d, on) = IF on THEN SetRec(a, TRUE) ELSE a
  BY DEF SetRecOnce
<1> HIDE DEF a
<1>3. ArmedInv(a) /\ NoHead \notin Heads
  BY <1>1 DEF ArmedInv, NoHead, Heads
<1>4. CASE on
  <2>1. VoiceInv(SetRec(a, TRUE)) /\ SetRec(a, TRUE).once = a.once
    BY <1>1, <1>3, SetRecInv
  <2> QED BY <1>1, <1>2, <1>3, <1>4, <2>1 DEF NoSecondFadeIn
<1>5. CASE ~on
  <2>1. VoiceInv(a) /\ NoSecondFadeIn(d, a)
    BY <1>1, <1>3, <1>5 DEF VoiceInv, PassInv, NoSecondFadeIn
  <2> QED BY <1>2, <1>5, <2>1
<1> QED
  BY <1>4, <1>5

\* Playing has no part in the pass.
LEMMA SetPlayInv ==
  ASSUME NEW d, HeadsInv(d), NEW on \in BOOLEAN
  PROVE  HeadsInv(SetPlay(d, on)) /\ SamePass(d, SetPlay(d, on))
<1> DEFINE b == StartOrStop(d, d.play, on, d.rec)
<1> DEFINE e == [b EXCEPT !.play = on]
<1>1. SetPlay(d, on) = e
  BY DEF SetPlay
<1>2. HeadsInv(b) /\ SamePass(d, b)
  BY StartOrStopInv
<1> HIDE DEF b
<1>3. /\ HeadsInv(e) /\ e.rec = b.rec /\ e.once = b.once
      /\ e.state = b.state /\ e.active = b.active
  BY <1>2 DEF HeadsInv, Voices
<1> HIDE DEF e
<1> QED
  BY <1>1, <1>2, <1>3 DEF SamePass

\* A cut records no pass on the head it leaves, ends the one of the head it
\* goes to, and begins one only if one was armed.
LEMMA OnceAtCutInv ==
  ASSUME NEW o \in OnceStates, NEW new \in Heads, o.flag => o.head = NoHead
  PROVE  /\ OnceAtCut(o, new) \in OnceStates
         /\ ~OnceAtCut(o, new).flag
         /\ OnceAtCut(o, new).head = new => o.head # new
         /\ (OnceAtCut(o, new).done \/ OnceAtCut(o, new).head # NoHead)
              <=> (o.done \/ o.flag \/ o.head # NoHead)
<1> DEFINE e == IF o.head = new THEN [o EXCEPT !.head = NoHead, !.done = TRUE] ELSE o
<1> DEFINE a == IF e.flag THEN [e EXCEPT !.flag = FALSE, !.head = new] ELSE e
<1>0. OnceAtCut(o, new) = a
  BY DEF OnceAtCut
<1>1. NoHead \notin Heads
  BY DEF NoHead, Heads
<1>2. /\ e \in OnceStates /\ e.flag = o.flag /\ e.head # new
      /\ o.head # new => e = o
      /\ o.head = new => ~o.flag /\ e.done
  BY <1>1 DEF OnceStates
<1> HIDE DEF e
<1>3. /\ a \in OnceStates /\ ~a.flag
      /\ e.flag => a.head = new /\ a.done = e.done
      /\ ~e.flag => a = e
  BY <1>2 DEF OnceStates
<1> HIDE DEF a
<1>4. /\ a.head = new => o.head # new
      /\ (a.done \/ a.head # NoHead) <=> (o.done \/ o.flag \/ o.head # NoHead)
  BY <1>1, <1>2, <1>3
<1> QED
  BY <1>0, <1>3, <1>4

\* ReadWriteHead::cutToPhase fades the other head in.  That head is not the one
\* that goes on recording a pass: a pass on it is over with the cut.
LEMMA CutToPhaseInv ==
  ASSUME NEW d, VoiceInv(d)
  PROVE  /\ VoiceInv(CutToPhase(d)) /\ NoSecondFadeIn(d, CutToPhase(d))
         /\ CutToPhase(d).rec = d.rec /\ OnceActive(CutToPhase(d)) = OnceActive(d)
<1> DEFINE new == 1 - d.active
<1> DEFINE x == IF d.state[d.active] = "Stopped" THEN d.state[d.active] ELSE "FadeOut"
<1> DEFINE s == [[d.state EXCEPT ![new] = "FadeIn"] EXCEPT ![d.active] = x]
<1> DEFINE o == OnceAtCut(d.once, new)
<1> DEFINE act == [h \in Heads |-> h = new]
<1> DEFINE e == CutToPhase(d)
<1>0. /\ d \in Voices /\ d.once \in OnceStates /\ d.state \in [Heads -> HeadStates]
      /\ new \in Heads /\ d.active \in Heads /\ d.active # new
      /\ 1 - new = d.active /\ Heads = {new, d.active}
  BY DEF VoiceInv, HeadsInv, Voices, Heads
<1>1. d.once.flag => d.once.head = NoHead
  BY DEF VoiceInv, ArmedInv
<1>2. e = [d EXCEPT !.state = s, !.once = o, !.isActive = act, !.active = new]
  BY <1>0 DEF CutToPhase
<1>3. /\ s \in [Heads -> HeadStates] /\ act \in [Heads -> BOOLEAN]
      /\ s[new] = "FadeIn" /\ s[d.active] \in {"FadeOut", "Stopped"}
  BY <1>0 DEF HeadStates
<1> HIDE DEF new
<1>4. /\ o \in OnceStates /\ ~o.flag
      /\ o.head = new => d.once.head # new
      /\ (o.done \/ o.head # NoHead) <=> OnceActive(d)
  BY <1>0, <1>1, OnceAtCutInv DEF OnceActive
<1> HIDE DEF s, o, act, e
<1>5. /\ e \in Voices /\ e.state = s /\ e.once = o /\ e.rec = d.rec /\ e.active = new
  BY <1>0, <1>2, <1>3, <1>4 DEF Voices
<1>6. HeadsInv(e) /\ ArmedInv(e)
  BY <1>0, <1>3, <1>4, <1>5 DEF HeadsInv, ArmedInv
<1>7. PassInv(e) /\ OnceActive(e) = OnceActive(d)
  BY <1>4, <1>5 DEF PassInv, OnceActive, VoiceInv
<1>8. NoSecondFadeIn(d, e)
  BY <1>0, <1>3, <1>4, <1>5 DEF NoSecondFadeIn
<1> QED
  BY <1>5, <1>6, <1>7, <1>8 DEF VoiceInv, e

\* A change of a field the invariant does not mention.
LEMMA OtherField ==
  ASSUME NEW d, VoiceInv(d), NEW on \in BOOLEAN
  PROVE  /\ VoiceInv([d EXCEPT !.queued = on]) /\ SamePass(d, [d EXCEPT !.queued = on])
         /\ VoiceInv([d EXCEPT !.loop = on]) /\ SamePass(d, [d EXCEPT !.loop = on])
<1> DEFINE a == [d EXCEPT !.queued = on]
<1> DEFINE b == [d EXCEPT !.loop = on]
<1>1. /\ a \in Voices /\ a.state = d.state /\ a.once = d.once
      /\ a.rec = d.rec /\ a.active = d.active
  BY DEF Voices, VoiceInv, HeadsInv
<1>2. /\ b \in Voices /\ b.state = d.state /\ b.once = d.once
      /\ b.rec = d.rec /\ b.active = d.active
  BY DEF Voices, VoiceInv, HeadsInv
<1> HIDE DEF a, b
<1>3. VoiceInv(a) /\ VoiceInv(b) /\ SamePass(d, a) /\ SamePass(d, b)
  BY <1>1, <1>2 DEF VoiceInv, HeadsInv, PassInv, ArmedInv, OnceActive, SamePass
<1> QED
  BY <1>3 DEF a, b

\* Voice::reset stops the heads and gives the pass up.
LEMMA ResetInv ==
  ASSUME NEW d, VoiceInv(d)
  PROVE  VoiceInv(Reset(d)) /\ NoSecondFadeIn(d, Reset(d))
<1> DEFINE b == StopHeads(d)
<1> DEFINE e == Reset(d)
<1>1. e = [b EXCEPT !.rec = FALSE, !.play = FALSE, !.once = OnceOff,
                    !.active = 0, !.queued = FALSE]
  BY DEF Reset
<1>2. b \in Voices /\ b.state = [h \in Heads |-> "Stopped"]
  BY StopHeadsInv DEF VoiceInv, HeadsInv, StopHeads, Voices
<1>3. /\ OnceOff \in OnceStates /\ 0 \in Heads /\ 1 - 0 \in Heads
      /\ ~OnceOff.flag /\ ~OnceOff.done /\ OnceOff.head = NoHead
  BY DEF OnceOff, OnceStates, Heads
<1> HIDE DEF b, e
<1>4. /\ e \in Voices /\ e.state = b.state /\ e.once = OnceOff
      /\ e.rec = FALSE /\ e.active = 0
  BY <1>1, <1>2, <1>3 DEF Voices
<1>5. VoiceInv(e) /\ NoSecondFadeIn(d, e)
  BY <1>2, <1>3, <1>4
  DEF VoiceInv, HeadsInv, PassInv, ArmedInv, OnceActive, NoSecondFadeIn
<1> QED
  BY <1>5 DEF e

-----------------------------------------------------------------------------
(* What the audio thread does to the voice: a command, a sample, a block.  *)

Commands == [op : Switches \cup Moves, on : BOOLEAN]

\* Every command keeps the voice's invariant.
LEMMA EffectInv ==
  ASSUME NEW d, VoiceInv(d), NEW c \in Commands
  PROVE  VoiceInv(Effect(d, c)) /\ NoSecondFadeIn(d, Effect(d, c))
<1>0. /\ c.on \in BOOLEAN /\ HeadsInv(d) /\ ArmedInv(d)
      /\ c.op \in {"rec", "once", "play", "loop", "cut_to", "loop_start", "stop", "reset"}
  BY DEF Commands, Switches, Moves, VoiceInv
<1>1. CASE c.op = "rec"
  BY <1>0, <1>1, SetRecInv DEF Effect
<1>2. CASE c.op = "once"
  BY <1>0, <1>2, SetRecOnceInv DEF Effect
<1>3. CASE c.op = "play"
  <2>1. VoiceInv(SetPlay(d, c.on)) /\ NoSecondFadeIn(d, SetPlay(d, c.on))
    BY <1>0, SetPlayInv, SamePassKeeps
  <2> QED BY <1>3, <2>1 DEF Effect
<1>4. CASE c.op = "loop"
  <2>1. NoSecondFadeIn(d, [d EXCEPT !.loop = c.on])
    BY <1>0, OtherField, SamePassKeeps DEF VoiceInv
  <2> QED BY <1>0, <1>4, <2>1, OtherField DEF Effect
<1>5. CASE c.op = "cut_to"
  <2>1. NoSecondFadeIn(d, [d EXCEPT !.queued = TRUE])
    BY OtherField, SamePassKeeps DEF VoiceInv
  <2>2. VoiceInv(CutToPos(d)) /\ NoSecondFadeIn(d, CutToPos(d))
    BY <2>1, OtherField, CutToPhaseInv DEF CutToPos
  <2> QED BY <1>5, <2>2 DEF Effect
<1>6. CASE c.op = "loop_start"
  <2>1. NoSecondFadeIn(d, [d EXCEPT !.queued = FALSE])
    BY OtherField, SamePassKeeps DEF VoiceInv
  <2> QED BY <1>6, <2>1, OtherField DEF Effect, SetLoopBound
<1>7. CASE c.op = "stop"
  <2>1. VoiceInv(StopHeads(d)) /\ NoSecondFadeIn(d, StopHeads(d))
    BY <1>0, StopHeadsInv, SamePassKeeps
  <2> QED BY <1>7, <2>1 DEF Effect
<1>8. CASE c.op = "reset"
  BY <1>8, ResetInv DEF Effect
<1> QED
  BY <1>0, <1>1, <1>2, <1>3, <1>4, <1>5, <1>6, <1>7, <1>8

\* A command that does not go through flag_apply leaves what the flags say.
LEMMA OtherCommands ==
  ASSUME NEW d, VoiceInv(d), NEW c \in Commands, c.op \notin FlagOps
  PROVE  Effect(d, c).rec = d.rec /\ OnceActive(Effect(d, c)) = OnceActive(d)
<1>0. /\ c.on \in BOOLEAN /\ HeadsInv(d)
      /\ c.op \in {"play", "loop", "cut_to", "loop_start", "stop"}
  BY DEF Commands, Switches, Moves, FlagOps, VoiceInv
<1> DEFINE Same(e) == e.rec = d.rec /\ OnceActive(e) = OnceActive(d)
<1>1. \A e : SamePass(d, e) => Same(e)
  BY DEF SamePass, OnceActive
<1>2. CASE c.op = "play"
  <2>1. SamePass(d, SetPlay(d, c.on))
    BY <1>0, SetPlayInv
  <2> QED BY <1>1, <1>2, <2>1 DEF Effect
<1>3. CASE c.op = "loop"
  <2>1. SamePass(d, [d EXCEPT !.loop = c.on])
    BY <1>0, OtherField
  <2> QED BY <1>1, <1>3, <2>1 DEF Effect
<1>4. CASE c.op = "cut_to"
  <2>1. SamePass(d, [d EXCEPT !.queued = TRUE])
    BY OtherField
  <2>2. Same(CutToPos(d))
    BY <1>1, <2>1, CutToPhaseInv DEF CutToPos
  <2> QED BY <1>4, <2>2 DEF Effect
<1>5. CASE c.op = "loop_start"
  <2>1. SamePass(d, [d EXCEPT !.queued = FALSE])
    BY OtherField
  <2> QED BY <1>1, <1>5, <2>1 DEF Effect, SetLoopBound
<1>6. CASE c.op = "stop"
  <2>1. SamePass(d, StopHeads(d))
    BY <1>0, StopHeadsInv
  <2> QED BY <1>1, <1>6, <2>1 DEF Effect
<1> QED
  BY <1>0, <1>2, <1>3, <1>4, <1>5, <1>6

\* Leaving the loop queues a crossfade or fades a head out.
LEMMA UpdatePhaseInv ==
  ASSUME NEW d, VoiceInv(d), NEW out \in SUBSET Heads
  PROVE  VoiceInv(UpdatePhase(d, out)) /\ SamePass(d, UpdatePhase(d, out))
<1>1. CASE d.loop
  <2>1. UpdatePhase(d, out) = [d EXCEPT !.queued = d.queued \/ Leaves(d, out) # {}]
    BY <1>1 DEF UpdatePhase
  <2>2. (d.queued \/ Leaves(d, out) # {}) \in BOOLEAN
    OBVIOUS
  <2> QED BY <2>1, <2>2, OtherField
<1>2. CASE ~d.loop
  <2> DEFINE s == [h \in Heads |-> IF h \in Leaves(d, out) THEN "FadeOut" ELSE d.state[h]]
  <2> DEFINE e == UpdatePhase(d, out)
  <2>1. e = [d EXCEPT !.state = s]
    BY <1>2 DEF UpdatePhase
  <2>2. /\ d \in Voices /\ d.state \in [Heads -> HeadStates] /\ 1 - d.active \in Heads
        /\ "FadeOut" \in HeadStates
    BY DEF VoiceInv, HeadsInv, Voices, Heads, HeadStates
  <2>3. /\ s \in [Heads -> HeadStates]
        /\ \A h \in Heads : s[h] = d.state[h] \/ s[h] = "FadeOut"
    BY <2>2
  <2> HIDE DEF s, e
  <2>4. /\ e \in Voices /\ e.state = s /\ e.once = d.once /\ e.rec = d.rec
        /\ e.active = d.active
    BY <2>1, <2>2, <2>3 DEF Voices
  <2>5. HeadsInv(e) /\ SamePass(d, e)
    BY <2>2, <2>3, <2>4 DEF VoiceInv, HeadsInv, SamePass
  <2>6. VoiceInv(e)
    BY <2>5, SamePassKeeps
  <2> QED BY <2>5, <2>6 DEF e
<1> QED
  BY <1>1, <1>2

\* A fade moves one increment, within its bounds, and ends in its own state.
LEMMA UpdateFadeInv ==
  ASSUME NEW d, VoiceInv(d)
  PROVE  VoiceInv(UpdateFade(d)) /\ SamePass(d, UpdateFade(d))
<1> DEFINE s == [h \in Heads |->
      CASE d.state[h] = "FadeIn"  /\ d.fade[h] = FadeSteps -> "Playing"
        [] d.state[h] = "FadeOut" /\ d.fade[h] = 0         -> "Stopped"
        [] OTHER -> d.state[h]]
<1> DEFINE f == [h \in Heads |->
      CASE d.state[h] = "FadeIn"  /\ d.fade[h] < FadeSteps -> d.fade[h] + 1
        [] d.state[h] = "FadeOut" /\ d.fade[h] > 0         -> d.fade[h] - 1
        [] OTHER -> d.fade[h]]
<1> DEFINE e == UpdateFade(d)
<1>1. e = [d EXCEPT !.state = s, !.fade = f]
  BY DEF UpdateFade
<1>2. /\ d \in Voices /\ 1 - d.active \in Heads
      /\ \A h \in Heads : d.state[h] \in HeadStates /\ d.fade[h] \in 0 .. FadeSteps
  BY DEF VoiceInv, HeadsInv, Voices, Heads
<1>3. \A h \in Heads :
        /\ s[h] \in HeadStates
        /\ s[h] = "FadeIn" => d.state[h] = "FadeIn"
        /\ d.state[h] \in {"FadeOut", "Stopped"} => s[h] \in {"FadeOut", "Stopped"}
  BY <1>2 DEF HeadStates
<1>4. \A h \in Heads : f[h] \in 0 .. FadeSteps
  BY <1>2, FadeAssumption
<1>5. s \in [Heads -> HeadStates] /\ f \in [Heads -> 0 .. FadeSteps]
  BY <1>3, <1>4
<1> HIDE DEF s, f, e
<1>6. /\ e \in Voices /\ e.state = s /\ e.once = d.once /\ e.rec = d.rec
      /\ e.active = d.active
  BY <1>1, <1>2, <1>5 DEF Voices
<1>7. HeadsInv(e) /\ SamePass(d, e)
  BY <1>2, <1>3, <1>6 DEF VoiceInv, HeadsInv, SamePass
<1>8. VoiceInv(e)
  BY <1>7, SamePassKeeps
<1> QED
  BY <1>7, <1>8 DEF e

\* A crossfade that waited is a cut.
LEMMA DequeueCrossfadeInv ==
  ASSUME NEW d, VoiceInv(d)
  PROVE  VoiceInv(DequeueCrossfade(d)) /\ NoSecondFadeIn(d, DequeueCrossfade(d))
<1> DEFINE x == IF d.queued THEN CutToPhase(d) ELSE d
<1>1. VoiceInv(x) /\ NoSecondFadeIn(d, x) /\ NoSecondFadeIn(d, d)
  BY CutToPhaseInv DEF NoSecondFadeIn
<1>2. DequeueCrossfade(d) = IF Fading(d) THEN d ELSE [x EXCEPT !.queued = FALSE]
  BY DEF DequeueCrossfade
<1> HIDE DEF x
<1>3. VoiceInv([x EXCEPT !.queued = FALSE]) /\ SamePass(x, [x EXCEPT !.queued = FALSE])
  BY <1>1, OtherField
<1>4. NoSecondFadeIn(d, [x EXCEPT !.queued = FALSE])
  BY <1>1, <1>3 DEF NoSecondFadeIn, SamePass
<1> QED
  BY <1>1, <1>2, <1>3, <1>4

\* So a sample keeps the invariant.
LEMMA SampleInv ==
  ASSUME NEW d, VoiceInv(d), NEW out \in SUBSET Heads
  PROVE  VoiceInv(ProcessSample(d, out)) /\ NoSecondFadeIn(d, ProcessSample(d, out))
<1> DEFINE a == UpdatePhase(d, out)
<1> DEFINE b == UpdateFade(a)
<1> DEFINE e == DequeueCrossfade(b)
<1>1. VoiceInv(a) /\ SamePass(d, a)
  BY UpdatePhaseInv
<1>2. VoiceInv(b) /\ SamePass(a, b)
  BY <1>1, UpdateFadeInv
<1>3. VoiceInv(e) /\ NoSecondFadeIn(b, e)
  BY <1>2, DequeueCrossfadeInv
<1>4. ProcessSample(d, out) = IF d.rec \/ d.play THEN e ELSE d
  BY DEF ProcessSample
<1> HIDE DEF a, b, e
<1>5. NoSecondFadeIn(d, e) /\ NoSecondFadeIn(d, d)
  BY <1>1, <1>2, <1>3 DEF NoSecondFadeIn, SamePass
<1> QED
  BY <1>3, <1>4, <1>5

\* And so does the end of a block, which gives up a pass that is done together
\* with the recording.
LEMMA EndBlockInv ==
  ASSUME NEW d, VoiceInv(d)
  PROVE  VoiceInv(EndBlock(d)) /\ NoSecondFadeIn(d, EndBlock(d))
<1> DEFINE e == [d EXCEPT !.rec = FALSE, !.once = OnceOff]
<1>1. /\ OnceOff \in OnceStates
      /\ ~OnceOff.flag /\ ~OnceOff.done /\ OnceOff.head = NoHead
  BY DEF OnceOff, OnceStates
<1>2. /\ e \in Voices /\ e.state = d.state /\ e.once = OnceOff /\ e.active = d.active
  BY <1>1 DEF VoiceInv, HeadsInv, Voices
<1>3. EndBlock(d) = IF d.rec /\ d.once.done THEN e ELSE d
  BY DEF EndBlock
<1> HIDE DEF e
<1>4. VoiceInv(e) /\ NoSecondFadeIn(d, e) /\ NoSecondFadeIn(d, d)
  BY <1>1, <1>2
  DEF VoiceInv, HeadsInv, PassInv, ArmedInv, OnceActive, NoSecondFadeIn
<1> QED
  BY <1>3, <1>4

-----------------------------------------------------------------------------
(* The flag changes in the queue.                                          *)

FlagChanges(q) == {i \in 1 .. Len(q) : q[i].op \in FlagOps}

\* They are finitely many.
LEMMA FlagChangesFinite ==
  ASSUME NEW q \in Seq(Commands)
  PROVE  IsFiniteSet(FlagChanges(q)) /\ Cardinality(FlagChanges(q)) \in Nat
<1>1. IsFiniteSet(1 .. Len(q))
  BY FS_Interval
<1>2. FlagChanges(q) \in SUBSET (1 .. Len(q))
  BY DEF FlagChanges
<1>3. IsFiniteSet(FlagChanges(q))
  BY <1>1, <1>2, FS_Subset
<1> QED
  BY <1>3, FS_CardinalityType

\* A push adds the change it pushes.
LEMMA FlagChangesAppend ==
  ASSUME NEW q \in Seq(Commands), NEW c \in Commands
  PROVE  Cardinality(FlagChanges(Append(q, c)))
           = Cardinality(FlagChanges(q)) + (IF c.op \in FlagOps THEN 1 ELSE 0)
<1>0. Len(q) + 1 \notin FlagChanges(q) /\ Len(q) \in Nat
  BY DEF FlagChanges
<1>1. /\ Len(Append(q, c)) = Len(q) + 1
      /\ \A i \in 1 .. Len(q) : Append(q, c)[i] = q[i]
      /\ Append(q, c)[Len(q) + 1] = c
  BY AppendProperties
<1>2. 1 .. Len(q) + 1 = (1 .. Len(q)) \cup {Len(q) + 1}
  BY <1>0
<1>3. CASE c.op \in FlagOps
  <2>1. FlagChanges(Append(q, c)) = FlagChanges(q) \cup {Len(q) + 1}
    BY <1>1, <1>2, <1>3 DEF FlagChanges
  <2> QED BY <1>0, <1>3, <2>1, FlagChangesFinite, FS_AddElement
<1>4. CASE c.op \notin FlagOps
  <2>1. FlagChanges(Append(q, c)) = FlagChanges(q)
    BY <1>0, <1>1, <1>2, <1>4 DEF FlagChanges
  <2> QED BY <1>4, <2>1, FlagChangesFinite
<1> QED
  BY <1>3, <1>4

\* A pop takes the change it pops: the others move one place down.
LEMMA FlagChangesTail ==
  ASSUME NEW q \in Seq(Commands), q # << >>
  PROVE  Cardinality(FlagChanges(q))
           = Cardinality(FlagChanges(Tail(q))) + (IF Head(q).op \in FlagOps THEN 1 ELSE 0)
<1> DEFINE S == FlagChanges(Tail(q))
<1> DEFINE T == FlagChanges(q) \ {1}
<1> DEFINE f == [i \in S |-> i + 1]
<1>1. /\ Tail(q) \in Seq(Commands) /\ Len(q) \in Nat \ {0} /\ Len(Tail(q)) = Len(q) - 1
      /\ \A i \in 1 .. Len(q) - 1 : Tail(q)[i] = q[i + 1]
      /\ Head(q) = q[1]
  BY HeadTailProperties
<1>2. S \subseteq Nat /\ (\A i \in S : i + 1 \in T) /\ (\A j \in T : j - 1 \in S)
  BY <1>1 DEF FlagChanges
<1> HIDE DEF S, T
<1>3. f \in [S -> T]
  BY <1>2
<1>4. \A a, b \in S : f[a] = f[b] => a = b
  BY <1>2
<1>5. T \subseteq Nat
  BY DEF T, FlagChanges
<1>6. \A j \in T : \E i \in S : f[i] = j
  <2> TAKE j \in T
  <2>1. j - 1 \in S /\ (j - 1) + 1 = j
    BY <1>2, <1>5
  <2>2. f[j - 1] = j
    BY <2>1
  <2> QED BY <2>1, <2>2
<1>7. ExistsBijection(S, T)
  <2>1. f \in Bijection(S, T)
    BY <1>3, <1>4, <1>6 DEF Bijection, Injection, Surjection, IsInjective
  <2> QED BY <2>1 DEF ExistsBijection
<1>8. IsFiniteSet(S) /\ Cardinality(S) \in Nat
  BY <1>1, FlagChangesFinite DEF S
<1>9. Cardinality(T) = Cardinality(S)
  BY <1>7, <1>8, FS_Bijection
<1>10. 1 \in FlagChanges(q) <=> Head(q).op \in FlagOps
  BY <1>1 DEF FlagChanges
<1>11. /\ IsFiniteSet(FlagChanges(q)) /\ Cardinality(FlagChanges(q)) \in Nat
       /\ Cardinality(T) = IF 1 \in FlagChanges(q) THEN Cardinality(FlagChanges(q)) - 1
                           ELSE Cardinality(FlagChanges(q))
  BY FlagChangesFinite, FS_RemoveElement DEF T
<1>12. Cardinality(FlagChanges(q)) = Cardinality(S) + (IF Head(q).op \in FlagOps THEN 1 ELSE 0)
  BY <1>8, <1>9, <1>10, <1>11
<1> QED
  BY <1>12 DEF S

-----------------------------------------------------------------------------
(* The inductive invariant.                                                *)

\* Outside a block, what was published last is what the voice does.
SavedTrue ==
  audio # "samples" => saved.rec = dsp.rec /\ saved.once = OnceActive(dsp)

IInv == TypeOK /\ VoiceInv(dsp) /\ PendingExact /\ SavedTrue

\* The types, with the voice and the commands named.
LEMMA TypeOKForm ==
  TypeOK <=>
    /\ dsp \in Voices
    /\ saved \in [rec : BOOLEAN, once : BOOLEAN]
    /\ mirror \in [rec : BOOLEAN, once : BOOLEAN, loop : BOOLEAN]
    /\ pending \in Nat /\ dropped \in Nat /\ sets \in Nat
    /\ queue \in Seq(Commands) /\ Len(queue) <= Room
    /\ audio \in {"idle", "drain", "applied", "samples"}
    /\ left \in 0 .. BlockLen
BY DEF TypeOK, Voices, OnceStates, Commands

\* PendingExact over FlagChanges.
LEMMA PendingForm ==
  PendingExact <=> pending = Cardinality(FlagChanges(queue))
                              + (IF audio = "applied" THEN 1 ELSE 0)
BY DEF PendingExact, FlagChanges

\* A new voice is stopped, with no pass, and nothing is queued.
LEMMA InitInv == Init => IInv
<1> SUFFICES ASSUME Init PROVE IInv
  OBVIOUS
<1>1. /\ dsp.once = OnceOff /\ dsp.rec = FALSE /\ dsp.active = 0
      /\ dsp.state = [h \in Heads |-> "Stopped"]
      /\ ~OnceOff.flag /\ ~OnceOff.done /\ OnceOff.head = NoHead
  BY DEF Init, OnceOff
<1>2. dsp \in Voices
  <2>1. /\ OnceOff \in OnceStates /\ 0 \in Heads
        /\ [h \in Heads |-> "Stopped"] \in [Heads -> HeadStates]
        /\ [h \in Heads |-> 0] \in [Heads -> 0 .. FadeSteps]
        /\ [h \in Heads |-> FALSE] \in [Heads -> BOOLEAN]
    BY FadeAssumption DEF OnceOff, OnceStates, Heads, HeadStates
  <2> QED BY <2>1 DEF Init, Voices
<1>3. TypeOK
  <2>1. queue \in Seq(Commands) /\ Len(queue) <= Room /\ left \in 0 .. BlockLen
    BY RoomAssumption, FadeAssumption DEF Init
  <2> QED BY <1>2, <2>1, TypeOKForm DEF Init
<1>4. VoiceInv(dsp)
  BY <1>1, <1>2 DEF VoiceInv, HeadsInv, PassInv, ArmedInv, OnceActive, Heads
<1>5. PendingExact
  <2>1. FlagChanges(queue) = {}
    BY DEF FlagChanges, Init
  <2> QED BY <2>1, PendingForm, FS_EmptySet DEF Init
<1>6. SavedTrue
  BY <1>1 DEF SavedTrue, OnceActive, Init
<1> QED
  BY <1>3, <1>4, <1>5, <1>6 DEF IInv

\* A call queues its change and counts it, or drops it and does not.
LEMMA SetStep ==
  ASSUME IInv, NEW op \in Switches \cup Moves, NEW on \in BOOLEAN, Set(op, on)
  PROVE  IInv'
<1> DEFINE c == Command(op, on)
<1>0. c \in Commands /\ Push(c) /\ mirror' = Mirrored(mirror, c) /\ sets' = sets + 1
  BY DEF Set, Commands, Command
<1>1. UNCHANGED <<dsp, saved, audio, left>>
  BY DEF Set
<1>2. c.on \in BOOLEAN
  BY <1>0 DEF Commands
<1> HIDE DEF c
<1>3. mirror' \in [rec : BOOLEAN, once : BOOLEAN, loop : BOOLEAN]
  BY <1>0, <1>2 DEF IInv, TypeOK, Mirrored
<1>4. /\ queue' \in Seq(Commands) /\ Len(queue') <= Room
      /\ pending' \in Nat /\ dropped' \in Nat /\ PendingExact'
  <2>0. /\ queue \in Seq(Commands) /\ Len(queue) <= Room
        /\ pending \in Nat /\ dropped \in Nat
        /\ pending = Cardinality(FlagChanges(queue)) + (IF audio = "applied" THEN 1 ELSE 0)
    BY TypeOKForm, PendingForm DEF IInv
  <2>1. CASE /\ Len(queue) < Room /\ queue' = Append(queue, c)
             /\ pending' = pending + (IF c.op \in FlagOps THEN 1 ELSE 0)
             /\ UNCHANGED dropped
    <3>1. Len(queue') = Len(queue) + 1 /\ queue' \in Seq(Commands)
      BY <1>0, <2>0, <2>1, AppendProperties
    <3>2. Cardinality(FlagChanges(queue'))
            = Cardinality(FlagChanges(queue)) + (IF c.op \in FlagOps THEN 1 ELSE 0)
      BY <1>0, <2>0, <2>1, FlagChangesAppend
    <3>3. Cardinality(FlagChanges(queue)) \in Nat
      BY <2>0, FlagChangesFinite
    <3>4. PendingExact'
      <4>1. audio' = audio /\ (IF c.op \in FlagOps THEN 1 ELSE 0) \in Nat
        BY <1>1
      <4>2. pending' = Cardinality(FlagChanges(queue'))
                         + (IF audio' = "applied" THEN 1 ELSE 0)
        BY <2>0, <2>1, <3>2, <3>3, <4>1
      <4> QED BY <4>2 DEF PendingExact, FlagChanges
    <3> QED BY <2>0, <2>1, <3>1, <3>4, RoomAssumption
  <2>2. CASE /\ Len(queue) >= Room /\ dropped' = dropped + 1
             /\ UNCHANGED <<queue, pending>>
    BY <1>1, <2>0, <2>2 DEF PendingExact, FlagChanges
  <2> QED BY <1>0, <2>1, <2>2 DEF Push
<1>5. TypeOK'
  BY <1>0, <1>1, <1>3, <1>4 DEF IInv, TypeOK, Commands
<1> QED
  BY <1>1, <1>4, <1>5 DEF IInv, SavedTrue, OnceActive, VoiceInv, HeadsInv, PassInv, ArmedInv

\* The audio thread applies a change; one that went through flag_apply is
\* published in the same step, and still counted.
LEMMA DrainStep ==
  ASSUME IInv, Drain
  PROVE  IInv' /\ NoSecondFadeIn(dsp, dsp')
<1> DEFINE c == Head(queue)
<1>0. /\ queue \in Seq(Commands) /\ queue # << >> /\ Len(queue) <= Room
      /\ pending \in Nat /\ audio = "drain"
      /\ pending = Cardinality(FlagChanges(queue))
      /\ VoiceInv(dsp) /\ dsp \in Voices
  <2>1. /\ queue \in Seq(Commands) /\ Len(queue) <= Room
        /\ pending \in Nat /\ dsp \in Voices
    BY TypeOKForm DEF IInv
  <2>2. audio = "drain" /\ queue # << >>
    BY DEF Drain
  <2>3. pending = Cardinality(FlagChanges(queue)) + 0
    BY <2>2, PendingForm DEF IInv
  <2>4. Cardinality(FlagChanges(queue)) \in Nat
    BY <2>1, FlagChangesFinite
  <2> QED BY <2>1, <2>2, <2>3, <2>4 DEF IInv
<1>1. /\ c \in Commands /\ queue' = Tail(queue) /\ queue' \in Seq(Commands)
      /\ Len(queue') <= Room
  <2>1. /\ c \in Commands /\ queue' = Tail(queue) /\ Tail(queue) \in Seq(Commands)
        /\ Len(Tail(queue)) = Len(queue) - 1
    BY <1>0, HeadTailProperties DEF Drain
  <2> QED BY <1>0, <2>1, RoomAssumption
<1>2. /\ dsp' = Effect(dsp, c)
      /\ saved' = IF c.op \in FlagOps THEN Published(dsp') ELSE saved
      /\ audio' = IF c.op \in FlagOps THEN "applied" ELSE "drain"
      /\ UNCHANGED <<mirror, pending, dropped, left, sets>>
  BY DEF Drain
<1>3. Cardinality(FlagChanges(queue))
        = Cardinality(FlagChanges(queue')) + (IF c.op \in FlagOps THEN 1 ELSE 0)
  BY <1>0, <1>1, FlagChangesTail
<1>4. Cardinality(FlagChanges(queue')) \in Nat
  BY <1>1, FlagChangesFinite
<1> HIDE DEF c
<1>5. VoiceInv(dsp') /\ NoSecondFadeIn(dsp, dsp')
  BY <1>0, <1>1, <1>2, EffectInv
<1>6. PendingExact'
  <2>1. pending' = Cardinality(FlagChanges(queue')) + (IF audio' = "applied" THEN 1 ELSE 0)
    BY <1>0, <1>2, <1>3, <1>4
  <2> QED BY <2>1 DEF PendingExact, FlagChanges
<1>7. dsp' \in Voices /\ dsp'.rec \in BOOLEAN /\ OnceActive(dsp') \in BOOLEAN
  BY <1>5 DEF VoiceInv, HeadsInv, Voices, OnceActive
<1>8. saved' \in [rec : BOOLEAN, once : BOOLEAN] /\ SavedTrue'
  <2>1. CASE c.op \in FlagOps
    <3>1. saved' = [rec |-> dsp'.rec, once |-> OnceActive(dsp')]
      BY <1>2, <2>1 DEF Published
    <3> QED BY <1>7, <3>1 DEF SavedTrue, OnceActive
  <2>2. CASE c.op \notin FlagOps
    <3>1. dsp'.rec = dsp.rec /\ OnceActive(dsp') = OnceActive(dsp)
      BY <1>0, <1>1, <1>2, <2>2, OtherCommands
    <3>2. saved' = saved /\ saved.rec = dsp.rec /\ saved.once = OnceActive(dsp)
      BY <1>0, <1>2, <2>2 DEF IInv, SavedTrue
    <3> QED BY <3>1, <3>2 DEF IInv, TypeOK, SavedTrue, OnceActive
  <2> QED BY <2>1, <2>2
<1>9. TypeOK'
  BY <1>1, <1>2, <1>7, <1>8 DEF IInv, TypeOK, Commands, Voices, OnceStates
<1> QED
  BY <1>5, <1>6, <1>8, <1>9 DEF IInv, VoiceInv, HeadsInv, PassInv, ArmedInv, OnceActive

\* The change is counted off once it was published.
LEMMA FlagAppliedStep ==
  ASSUME IInv, FlagApplied
  PROVE  IInv'
<1>0. /\ audio = "applied" /\ audio' = "drain" /\ pending' = pending - 1
      /\ UNCHANGED <<dsp, saved, mirror, queue, dropped, left, sets>>
  BY DEF FlagApplied
<1>1. queue \in Seq(Commands)
  BY TypeOKForm DEF IInv
<1>2. Cardinality(FlagChanges(queue)) \in Nat
  BY <1>1, FlagChangesFinite
<1>3. pending = Cardinality(FlagChanges(queue)) + 1
  BY <1>0, PendingForm DEF IInv
<1>4. pending' = Cardinality(FlagChanges(queue')) + (IF audio' = "applied" THEN 1 ELSE 0)
  BY <1>0, <1>2, <1>3
<1>5. PendingExact'
  BY <1>4 DEF PendingExact, FlagChanges
<1>6. TypeOK'
  BY <1>0, <1>2, <1>3 DEF IInv, TypeOK
<1>7. SavedTrue'
  BY <1>0 DEF IInv, SavedTrue, OnceActive
<1> QED
  BY <1>0, <1>5, <1>6, <1>7 DEF IInv, VoiceInv, HeadsInv, PassInv, ArmedInv, OnceActive

\* The callback begins, and goes on to the samples with the queue empty.
LEMMA CallbackStep ==
  ASSUME IInv, Callback \/ StartBlock
  PROVE  IInv'
<1>0. /\ audio # "applied" /\ audio' # "applied" /\ audio # "samples"
      /\ audio' \in {"drain", "samples"} /\ left' \in 0 .. BlockLen
      /\ UNCHANGED <<dsp, saved, mirror, pending, queue, dropped, sets>>
  BY FadeAssumption DEF Callback, StartBlock, IInv, TypeOK
<1>1. TypeOK'
  BY <1>0 DEF IInv, TypeOK
<1>2. PendingExact' /\ SavedTrue'
  BY <1>0 DEF IInv, PendingExact, SavedTrue, OnceActive
<1> QED
  BY <1>0, <1>1, <1>2 DEF IInv, VoiceInv, HeadsInv, PassInv, ArmedInv, OnceActive

\* A sample is processed.
LEMMA SampleStep ==
  ASSUME IInv, NEW out \in SUBSET Heads, Sample(out)
  PROVE  IInv' /\ NoSecondFadeIn(dsp, dsp')
<1>0. /\ audio = "samples" /\ dsp' = ProcessSample(dsp, out)
      /\ left > 0 /\ left' = left - 1
      /\ UNCHANGED <<saved, mirror, pending, queue, dropped, audio, sets>>
  BY DEF Sample
<1>1. VoiceInv(dsp') /\ NoSecondFadeIn(dsp, dsp')
  BY <1>0, SampleInv DEF IInv
<1>2. dsp' \in Voices /\ left' \in 0 .. BlockLen
  BY <1>0, <1>1, FadeAssumption DEF VoiceInv, HeadsInv, IInv, TypeOK
<1>3. TypeOK'
  BY <1>0, <1>2 DEF IInv, TypeOK, Voices, OnceStates
<1>4. PendingExact' /\ SavedTrue'
  BY <1>0 DEF IInv, PendingExact, SavedTrue
<1> QED
  BY <1>1, <1>3, <1>4 DEF IInv, VoiceInv, HeadsInv, PassInv, ArmedInv, OnceActive

\* A block ends: a pass that is done is given up, and the flags are published.
LEMMA FinishBlockStep ==
  ASSUME IInv, FinishBlock
  PROVE  IInv' /\ NoSecondFadeIn(dsp, dsp')
<1>0. /\ audio = "samples" /\ audio' = "idle" /\ dsp' = EndBlock(dsp)
      /\ saved' = [rec |-> dsp'.rec, once |-> OnceActive(dsp')]
      /\ UNCHANGED <<mirror, pending, queue, dropped, left, sets>>
  BY DEF FinishBlock, Published
<1>1. VoiceInv(dsp') /\ NoSecondFadeIn(dsp, dsp')
  BY <1>0, EndBlockInv DEF IInv
<1>2. dsp' \in Voices /\ dsp'.rec \in BOOLEAN /\ OnceActive(dsp') \in BOOLEAN
  BY <1>1 DEF VoiceInv, HeadsInv, Voices, OnceActive
<1>3. saved' \in [rec : BOOLEAN, once : BOOLEAN] /\ SavedTrue'
  BY <1>0, <1>2 DEF SavedTrue, OnceActive
<1>4. TypeOK'
  BY <1>0, <1>2, <1>3 DEF IInv, TypeOK, Voices, OnceStates
<1>5. PendingExact'
  BY <1>0 DEF IInv, PendingExact
<1> QED
  BY <1>1, <1>3, <1>4, <1>5 DEF IInv, VoiceInv, HeadsInv, PassInv, ArmedInv, OnceActive

\* One step: the invariant is kept, and no head of a pass fades in again.
LEMMA Step ==
  ASSUME IInv, [Next]_vars
  PROVE  IInv' /\ NoSecondFadeIn(dsp, dsp')
<1>0. dsp' = dsp => NoSecondFadeIn(dsp, dsp')
  BY DEF NoSecondFadeIn
<1>1. ASSUME NEW op \in Switches \cup Moves, NEW on \in BOOLEAN, Set(op, on)
      PROVE  IInv' /\ NoSecondFadeIn(dsp, dsp')
  <2>1. dsp' = dsp
    BY <1>1 DEF Set
  <2> QED BY <1>0, <1>1, <2>1, SetStep
<1>2. CASE Callback \/ StartBlock
  <2>1. dsp' = dsp
    BY <1>2 DEF Callback, StartBlock
  <2> QED BY <1>0, <1>2, <2>1, CallbackStep
<1>3. CASE Drain
  BY <1>3, DrainStep
<1>4. CASE FlagApplied
  <2>1. dsp' = dsp
    BY <1>4 DEF FlagApplied
  <2> QED BY <1>0, <1>4, <2>1, FlagAppliedStep
<1>5. ASSUME NEW out \in SUBSET Heads, Sample(out)
      PROVE  IInv' /\ NoSecondFadeIn(dsp, dsp')
  BY <1>5, SampleStep
<1>6. CASE FinishBlock
  BY <1>6, FinishBlockStep
<1>7. CASE UNCHANGED vars
  <2>1. UNCHANGED <<dsp, saved, mirror, pending, queue, dropped, audio, left, sets>>
    BY <1>7 DEF vars
  <2>2. TypeOK'
    BY <2>1 DEF IInv, TypeOK
  <2>3. PendingExact' /\ SavedTrue'
    BY <2>1 DEF IInv, PendingExact, SavedTrue, OnceActive
  <2> QED
    BY <1>0, <2>1, <2>2, <2>3
    DEF IInv, VoiceInv, HeadsInv, PassInv, ArmedInv, OnceActive
<1>8. CASE Python
  <2>1. FALSE \in BOOLEAN /\ Switches \subseteq Switches \cup Moves /\ Moves \subseteq Switches \cup Moves
    OBVIOUS
  <2> QED BY <1>1, <1>8, <2>1 DEF Python
<1> QED
  BY <1>2, <1>3, <1>4, <1>5, <1>6, <1>7, <1>8 DEF Next, Audio

\* So the invariant holds in every state.
LEMMA Inductive == Spec => []IInv
<1>1. IInv /\ [Next]_vars => IInv'
  BY Step
<1> QED BY InitInv, <1>1, PTL DEF Spec

-----------------------------------------------------------------------------
\* The voice, its mirrors, the queue and the counters keep their types: the
\* fades stay within their steps and flag_changes_pending_ is never negative.
THEOREM TypeCorrect == Spec => []TypeOK
<1>1. IInv => TypeOK
  BY DEF IInv
<1> QED BY Inductive, <1>1, PTL

\* One head at most is heard at full level, whatever the order of cuts, fades,
\* stops and resets: the assertion of processSampleNoRead.
THEOREM OneHead == Spec => []OneHeadPlays
<1>1. IInv => OneHeadPlays
  BY DEF IInv, VoiceInv, HeadsInv, OneHeadPlays
<1> QED BY Inductive, <1>1, PTL

\* A pass that is armed, running or done implies that the voice records.
THEOREM PassRecords == Spec => []OnceImpliesRec
<1>1. IInv => OnceImpliesRec
  BY DEF IInv, VoiceInv, PassInv, OnceImpliesRec
<1> QED BY Inductive, <1>1, PTL

\* flag_changes_pending_ counts exactly the flag changes on their way.
THEOREM PendingCounts == Spec => []PendingExact
<1>1. IInv => PendingExact
  BY DEF IInv
<1> QED BY Inductive, <1>1, PTL

\* With no flag change on its way, rec and rec_once read what the voice does.
THEOREM ReadsAreTrue == Spec => []ReadsTrue
<1>1. IInv => ReadsTrue
  BY DEF IInv, SavedTrue, ReadsTrue, RecRead, OnceRead
<1> QED BY Inductive, <1>1, PTL

\* The head that records a pass does not come back to write over it.
THEOREM PassNotWrittenOver == Spec => PassIsOnce
<1>1. IInv /\ [Next]_vars =>
        [\A h \in Heads :
           (dsp.once.head = h /\ dsp'.once.head = h /\ dsp.state[h] # "FadeIn")
             => dsp'.state[h] # "FadeIn"]_vars
  BY Step DEF NoSecondFadeIn
<1> QED BY Inductive, <1>1, PTL DEF Spec, PassIsOnce

=============================================================================
