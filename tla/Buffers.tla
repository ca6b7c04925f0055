------------------------------ MODULE Buffers -------------------------------
(***************************************************************************)
(* Voice::set_buffer in src/softcut/_core.cpp: which array each voice      *)
(* reads and writes, who keeps that array alive, and when its length may   *)
(* change.                                                                 *)
(*                                                                         *)
(* Python code makes arrays, points voices at them, one call at a time     *)
(* (Engine.allocate is one call for each voice), and drops its own         *)
(* references whenever it likes.  On a running engine the DSP changes over *)
(* when the audio callback drains the queue.  A call's test of `running`   *)
(* and what it does then are one step: Engine shows the lock that makes    *)
(* them one.                                                               *)
(***************************************************************************)
EXTENDS Naturals, Sequences

CONSTANTS
  Voices,   \* the voices of one engine
  Ids,      \* array objects; an id is used once
  Sizes,    \* their lengths in frames
  NoArray,  \* no array: None in Python, a null pointer in the DSP
  Room,     \* commands the queue holds
  MaxSwaps  \* bound on the assignments made (TLC only)

Arrays == Ids \X Sizes
Length(a) == a[2]
Masks == {2 ^ k : k \in 0 .. 30}  \* positive powers of two

ASSUME RoomAssumption == Room \in Nat \ {0} /\ MaxSwaps \in Nat
ASSUME SizesAssumption == Sizes \subseteq Nat
ASSUME NoArrayAssumption == NoArray \notin Arrays

VARIABLES
  made,             \* the arrays made so far
  held,             \* the arrays Python code holds a reference to
  buffer_ref,       \* Voice::buffer_ref
  prev_buffer_ref,  \* Voice::prev_buffer_ref_
  buffer_frames,    \* Voice::buffer_frames_
  buf,              \* the pointer the subheads hold
  bufFrames,        \* the frame count they hold
  running,          \* Engine::running
  audio,            \* the callback: "idle", "drain" or "process"
  stopping,         \* Engine::stop drains, with the lifecycle lock
  queue,            \* swaps in Engine::queue
  swaps             \* assignments made so far (TLC bound)

refs == <<buffer_ref, prev_buffer_ref>>
dsp == <<buf, bufFrames>>
vars == <<made, held, refs, buffer_frames, dsp, running, audio, stopping, queue, swaps>>

Init ==
  /\ made = {} /\ held = {}
  /\ buffer_ref = [v \in Voices |-> NoArray]
  /\ prev_buffer_ref = [v \in Voices |-> NoArray]
  /\ buffer_frames = [v \in Voices |-> 0]
  /\ buf = [v \in Voices |-> NoArray]
  /\ bufFrames = [v \in Voices |-> 0]
  /\ running = FALSE /\ audio = "idle" /\ stopping = FALSE /\ queue = << >> /\ swaps = 0

-----------------------------------------------------------------------------
(* Python *)

Make(a) ==
  /\ \A b \in made : b[1] # a[1]
  /\ made' = made \union {a}
  /\ held' = held \union {a}
  /\ UNCHANGED <<refs, buffer_frames, dsp, running, audio, stopping, queue, swaps>>

Drop(a) ==
  /\ held' = held \ {a}
  /\ UNCHANGED <<made, refs, buffer_frames, dsp, running, audio, stopping, queue, swaps>>

\* What set_buffer accepts: an array the caller has, of a length the read/write
\* head can mask.
MayAssign(a) == a \in held /\ Length(a) \in Masks /\ swaps < MaxSwaps

\* assign_buffer, with no callback to race: the engine is stopped.
Assign(v, a) ==
  /\ MayAssign(a)
  /\ ~running /\ ~stopping
  /\ buf' = [buf EXCEPT ![v] = a]
  /\ bufFrames' = [bufFrames EXCEPT ![v] = Length(a)]
  /\ buffer_ref' = [buffer_ref EXCEPT ![v] = a]
  /\ buffer_frames' = [buffer_frames EXCEPT ![v] = Length(a)]
  /\ swaps' = swaps + 1
  /\ UNCHANGED <<made, held, prev_buffer_ref, running, audio, stopping, queue>>

\* Mutants: no test that the push found room; the displaced array not kept.
SwapNoRoomTest(v, a) ==
  /\ MayAssign(a)
  /\ running
  /\ Length(a) = buffer_frames[v]
  /\ queue' = Append(queue, [voice |-> v, buf |-> a])
  /\ prev_buffer_ref' = [prev_buffer_ref EXCEPT ![v] = buffer_ref[v]]
  /\ buffer_ref' = [buffer_ref EXCEPT ![v] = a]
  /\ swaps' = swaps + 1
  /\ UNCHANGED <<made, held, buffer_frames, dsp, running, audio, stopping>>

SwapKeepsNothing(v, a) ==
  /\ MayAssign(a)
  /\ running
  /\ Length(a) = buffer_frames[v]
  /\ Len(queue) < Room
  /\ queue' = Append(queue, [voice |-> v, buf |-> a])
  /\ buffer_ref' = [buffer_ref EXCEPT ![v] = a]
  /\ swaps' = swaps + 1
  /\ UNCHANGED <<made, held, prev_buffer_ref, buffer_frames, dsp, running, audio, stopping>>

\* On a running engine: another length is refused, and so is a swap that cannot
\* be queued; neither leaves a trace.
Swap(v, a) ==
  /\ MayAssign(a)
  /\ running
  /\ Length(a) = buffer_frames[v]
  /\ Len(queue) < Room
  /\ queue' = Append(queue, [voice |-> v, buf |-> a])
  /\ prev_buffer_ref' = [prev_buffer_ref EXCEPT ![v] = buffer_ref[v]]
  /\ buffer_ref' = [buffer_ref EXCEPT ![v] = a]
  /\ swaps' = swaps + 1
  /\ UNCHANGED <<made, held, buffer_frames, dsp, running, audio, stopping>>

-----------------------------------------------------------------------------
(* The engine *)

\* drain_commands, one turn of its loop: Voice::setBuffer on both subheads.
Run ==
  /\ queue # << >>
  /\ buf' = [buf EXCEPT ![Head(queue).voice] = Head(queue).buf]
  /\ bufFrames' = [bufFrames EXCEPT ![Head(queue).voice] = Length(Head(queue).buf)]
  /\ queue' = Tail(queue)

Start ==
  /\ ~running /\ ~stopping /\ running' = TRUE
  /\ UNCHANGED <<made, held, refs, buffer_frames, dsp, audio, stopping, queue, swaps>>

\* Mutant: what is queued when the engine stops stays queued.
StopNoDrain ==
  /\ running /\ audio = "idle"
  /\ running' = FALSE
  /\ UNCHANGED <<made, held, refs, buffer_frames, dsp, audio, stopping, queue, swaps>>

\* The callback is joined first; the rest of the queue is drained here.
Stop ==
  /\ running /\ audio = "idle"
  /\ running' = FALSE /\ stopping' = TRUE
  /\ UNCHANGED <<made, held, refs, buffer_frames, dsp, audio, queue, swaps>>

StopDrain ==
  /\ stopping /\ Run
  /\ UNCHANGED <<made, held, refs, buffer_frames, running, audio, stopping, swaps>>

Stopped ==
  /\ stopping /\ queue = << >> /\ stopping' = FALSE
  /\ UNCHANGED <<made, held, refs, buffer_frames, dsp, running, audio, queue, swaps>>

Callback ==
  /\ running /\ audio = "idle" /\ audio' = "drain"
  /\ UNCHANGED <<made, held, refs, buffer_frames, dsp, running, stopping, queue, swaps>>

\* A call may add to the queue between two turns.
Drain ==
  /\ audio = "drain" /\ Run
  /\ UNCHANGED <<made, held, refs, buffer_frames, running, audio, stopping, swaps>>

Process ==
  /\ audio = "drain" /\ queue = << >> /\ audio' = "process"
  /\ UNCHANGED <<made, held, refs, buffer_frames, dsp, running, stopping, queue, swaps>>

\* The block is over: the heads have peeked and poked.
Return ==
  /\ audio = "process" /\ audio' = "idle"
  /\ UNCHANGED <<made, held, refs, buffer_frames, dsp, running, stopping, queue, swaps>>

Next ==
  \/ \E a \in Arrays : Make(a)
  \/ \E a \in held : Drop(a)
  \/ \E v \in Voices, a \in Arrays : Assign(v, a)
  \/ \E v \in Voices, a \in Arrays : Swap(v, a)
  \/ Start \/ Stop \/ StopDrain \/ Stopped
  \/ Callback \/ Drain \/ Process \/ Return

Spec == Init /\ [][Next]_vars

-----------------------------------------------------------------------------
\* The arrays that have not been freed.
Alive == held \union {buffer_ref[v] : v \in Voices} \union {prev_buffer_ref[v] : v \in Voices}

QueuedFor(v) == {i \in 1 .. Len(queue) : queue[i].voice = v}

\* Types; a voice only ever refers to arrays that were made.
TypeOK ==
  /\ held \subseteq made /\ made \subseteq Arrays
  /\ buffer_ref \in [Voices -> made \union {NoArray}]
  /\ prev_buffer_ref \in [Voices -> made \union {NoArray}]
  /\ buf \in [Voices -> made \union {NoArray}]
  /\ buffer_frames \in [Voices -> Sizes \union {0}]
  /\ bufFrames \in [Voices -> Sizes \union {0}]
  /\ running \in BOOLEAN /\ stopping \in BOOLEAN
  /\ audio \in {"idle", "drain", "process"}
  /\ queue \in Seq([voice : Voices, buf : made]) /\ Len(queue) <= Room
  /\ swaps \in Nat

\* The heads never run past the array they are given, now or after any of the
\* queued swaps: pointer and frame count always belong together, and are what
\* the Python side believes.  (What the refusal of another length on a running
\* engine, and the drain of stop, are for.)  Once the queue is drained, the array
\* `voice.buffer` returns is the one the DSP uses: a swap that was refused or
\* could not be queued changed neither.
ArraysAgree ==
  \A v \in Voices :
    /\ bufFrames[v] = buffer_frames[v]
    /\ buf[v] # NoArray => bufFrames[v] = Length(buf[v])
    /\ \A i \in QueuedFor(v) : Length(queue[i].buf) = bufFrames[v]
    /\ QueuedFor(v) = {} => buffer_ref[v] = buf[v]

\* One generation is enough for one swap in a block: while no more than one is
\* queued for a voice, the array its heads use and the one queued are alive,
\* whatever references the caller has dropped.
OneSwapKept ==
  \A v \in Voices :
    QueuedFor(v) \in {{}} \union {{i} : i \in 1 .. Len(queue)} =>
      /\ buf[v] \in Alive \union {NoArray}
      /\ \A i \in QueuedFor(v) : queue[i].buf \in Alive
=============================================================================
