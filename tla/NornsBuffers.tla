---------------------------- MODULE NornsBuffers ----------------------------
(***************************************************************************)
(* The buffer and disk half of NornsSoftcut: reading, writing, clearing    *)
(* and copying regions of the two global buffers, as the application's     *)
(* thread and OSC handler threads call it, with no lock.  A call is a      *)
(* sequence of steps, `todo`; a thread may lose the GIL between two of     *)
(* them.  The native loops (one blend, one channel of a file, one          *)
(* conversion) are one step each.                                          *)
(*                                                                         *)
(* `twin` is what the standalone server's buffer_io.hpp makes of the same  *)
(* calls, one at a time on its OSC thread; it has no copy, and for that    *)
(* twin holds the reference: the region as it was, blended in.             *)
(*                                                                         *)
(* A sample is an integer, 1.0 being Amp.  A file holds codes of `Steps`   *)
(* steps to 1.0, the encoder scaling by Steps - 1 and the decoder by       *)
(* Steps, as 32767 and 32768 do.  Times are whole seconds.                 *)
(***************************************************************************)
EXTENDS Integers, Sequences, Functions

CONSTANTS
  Frames,        \* buffer_frames, as asked for
  Content,       \* what the client has put in the two buffers
  WavRate, Wav,  \* a file on disk: its rate (frames a second) and its frames
  Steps, Sub,    \* steps of a code to 1.0; sample units to a step
  Threads,
  Calls,         \* the calls that clients make
  MaxCalls       \* bound: calls made

VARIABLES
  buf,     \* NornsSoftcut._buf: the samples of buffers 1 and 2
  file,    \* the WAV file: rate, channels, frames; 0 channels when truncated
  call,    \* the call a thread is in, or was in last
  todo,    \* its steps to come
  held,    \* the arrays and the file it has taken a copy of
  calls,   \* calls so far
  latest,  \* the thread of the latest one
  twin,    \* buffers and file of the standalone server
  apart    \* no two calls that touch the same thing have overlapped, and no
           \* clear has started before the buffer or kept a part of it

vars == <<buf, file, call, todo, held, calls, latest, twin, apart>>

Amp == Steps * Sub
Codes == -Steps .. Steps - 1
Rate == 1  \* sample_rate, in frames a second

\* What a call names.  A negative dur is the whole of what there is, a negative
\* start_dst blends the tail of the source, and a channel that the file does not
\* have is brought into its range; reads do not fade.
Call ==
  {c \in [op : {"read", "write", "clear", "copy"}, ch_src : Int, ch_dst : 1 .. 2, start_src : Int,
          start_dst : Int, dur : Int, preserve : Int, fade : Int, reverse : BOOLEAN, stereo : BOOLEAN] :
     /\ c.op = "read" => c.fade = 0
     /\ c.op \in {"write", "copy"} => c.start_src >= 0
     /\ c.op = "copy" => c.ch_src \in 1 .. 2}

ASSUME BuffersAssumption ==
  /\ Frames \in Nat \ {0} /\ Steps \in Nat \ {0} /\ Sub \in Nat \ {0} /\ WavRate \in Nat \ {0}
  /\ Content \in [1 .. 2 -> Seq(Int)] /\ Wav \in Seq([1 .. 2 -> Codes])
  /\ Calls \subseteq Call /\ MaxCalls \in Nat

\* (n - 1).bit_length(): the number of bits of a positive integer.
BitLength(n) == CHOOSE k \in 1 .. n + 1 : 2^(k - 1) <= n /\ n < 2^k
\* Mutant: the power of two below.
next_power_of_two_below(n) == IF n <= 1 THEN 1 ELSE 2^(BitLength(n) - 1)
next_power_of_two(n) == IF n <= 1 THEN 1 ELSE 2^BitLength(n - 1)
Length == next_power_of_two(Frames)

Smaller(a, b) == IF a < b THEN a ELSE b
Larger(a, b) == IF a < b THEN b ELSE a

-----------------------------------------------------------------------------
(* Samples and codes *)

Clip(v) == Larger(-Amp, Smaller(v, Amp))

\* float_to_s16: clip, scale, round half away from zero.
Scaled(x) == (2 * x * (Steps - 1) + Amp) \div (2 * Amp)
Encode(v) == IF Clip(v) < 0 THEN -Scaled(-Clip(v)) ELSE Scaled(Clip(v))

Decode(q) == q * Sub

-----------------------------------------------------------------------------
(* The blended write that every operation reduces to *)

\* fade_env_at, as a number of f-ths.
FadeEnv(i, n, f) ==
  IF f <= 0 THEN 1 ELSE IF i < f THEN i ELSE IF i >= n - f THEN n - 1 - i ELSE f

\* Mutant: a negative start is clamped, and the source is not trimmed.
ApplyNoTrim(b, start, src, preserve, mix, fade) ==
  LET at == Larger(start, 0)
      n == Smaller(Len(src), Len(b) - at)
      f == Smaller(fade, n \div 2)
      env(i) == FadeEnv(i, n, f)
      one == Larger(f, 1)
      target(i) == b[at + i + 1] * preserve + src[i + 1] * mix
  IN  [k \in DOMAIN b |-> LET i == k - 1 - at IN
        IF i \in 0 .. n - 1 THEN (b[k] * (one - env(i)) + target(i) * env(i)) \div one ELSE b[k]]

\* dst = dst*(1-env) + (dst*preserve + src*mix)*env, over the part of the
\* source that falls inside the buffer.
Apply(b, start, src, preserve, mix, fade) ==
  LET off == IF start < 0 THEN -start ELSE 0
      at == Larger(start, 0)
      n == Smaller(Len(src) - off, Len(b) - at)
      f == Smaller(fade, n \div 2)
      one == Larger(f, 1)
      env(i) == FadeEnv(i, n, f)
      target(i) == b[at + i + 1] * preserve + src[off + i + 1] * mix
  IN  [k \in DOMAIN b |-> LET i == k - 1 - at IN
        IF i \in 0 .. n - 1 THEN (b[k] * (one - env(i)) + target(i) * env(i)) \div one ELSE b[k]]

\* extract_channel_into: frames outside the file read as silence.
Extract(f, col, s0, n) ==
  [i \in 1 .. n |-> IF s0 + i \in DOMAIN f.frames THEN Decode(f.frames[s0 + i][col]) ELSE 0]

Silence(n) == [i \in 1 .. Larger(n, 0) |-> 0]
Backwards(s) == [i \in DOMAIN s |-> s[Len(s) + 1 - i]]
Column(ch, f) == Smaller(Larger(ch, 1), f.channels)

-----------------------------------------------------------------------------
(* NornsSoftcut *)

\* Mutant: a duration past the end of the file pads with silence.
_channelPadded(f, col, start, dur) ==
  LET s0 == start * f.rate
      avail == Larger(Len(f.frames) - s0, 0)
  IN  Extract(f, col, s0, IF dur < 0 THEN avail ELSE dur * f.rate)

_channel(f, col, start, dur) ==
  LET s0 == start * f.rate
      avail == Larger(Len(f.frames) - s0, 0)
  IN  Extract(f, col, s0, IF dur < 0 THEN avail ELSE Smaller(dur * f.rate, avail))

\* buf[s0:] and buf[s0:s0 + n], s0 not negative.
Slice(b, s0, dur) ==
  SubSeq(b, s0 + 1, IF dur < 0 THEN Len(b) ELSE Smaller(s0 + dur * Rate, Len(b)))

\* What a call writes into buffer ch, blended in at its start_dst.
Source(c, h, ch) ==
  CASE c.op = "read"  -> _channel(h, Column(IF c.stereo THEN ch ELSE c.ch_src, h), c.start_src, c.dur)
    [] c.op = "clear" -> Silence(IF c.dur < 0 THEN Length - c.start_dst ELSE c.dur * Rate)
    [] c.op = "copy"  -> IF c.reverse THEN Backwards(h) ELSE h

Mix(c) == IF c.op = "clear" THEN 0 ELSE 1

\* The buffers a call writes into, and those it reads from; the file is 0.
Dst(c) == IF c.stereo THEN <<1, 2>> ELSE <<c.ch_dst>>
Src(c, ch) == IF c.stereo THEN ch ELSE c.ch_src
Writes(c) == IF c.op = "write" THEN {0} ELSE Range(Dst(c))
Uses(c) ==
  Writes(c) \union
  CASE c.op = "read" -> {0}
    [] c.op = "write" -> Range(Dst(c))
    [] c.op = "copy" -> {Src(c, ch) : ch \in Range(Dst(c))}
    [] OTHER -> {}
Touch(c, d) == Writes(c) \intersect Uses(d) # {} \/ Writes(d) \intersect Uses(c) # {}

\* The steps of a call: what is done, and to which buffer.
Step(do, ch) == [do |-> do, ch |-> ch]
Script(c) ==
  LET d == c.ch_dst
  IN  CASE c.op = "read" /\ ~c.stereo -> <<Step("load", 0), Step("blend", d)>>
        [] c.op = "read" /\ c.stereo  -> <<Step("load", 0), Step("blend", 1), Step("blend", 2)>>
        [] c.op = "write" /\ ~c.stereo -> <<Step("slice", d), Step("open", 0), Step("put", 0)>>
        [] c.op = "write" /\ c.stereo ->
             <<Step("slice", 1), Step("slice", 2), Step("open", 0), Step("put", 0)>>
        [] c.op = "clear" /\ ~c.stereo -> <<Step("blend", d)>>
        [] c.op = "clear" /\ c.stereo -> <<Step("blend", 1), Step("blend", 2)>>
        [] c.op = "copy" /\ ~c.stereo -> <<Step("take", c.ch_src), Step("blend", d)>>
        [] c.op = "copy" /\ c.stereo ->
             <<Step("take", 1), Step("blend", 1), Step("take", 2), Step("blend", 2)>>

\* The frames of the arrays that a write has sliced, interleaved.
\* Mutant: the first array fills both channels.
FramesOfFirst(parts) ==
  [i \in DOMAIN parts[1] |-> [c \in DOMAIN parts |-> Encode(parts[1][i])]]

FramesOf(parts) ==
  LET n == Smaller(Len(parts[1]), Len(parts[Len(parts)]))
  IN  [i \in 1 .. n |-> [c \in DOMAIN parts |-> Encode(parts[c][i])]]

Truncated == [rate |-> 0, channels |-> 0, frames |-> <<>>]
WavOf(parts) == [rate |-> Rate, channels |-> Len(parts), frames |-> FramesOf(parts)]

-----------------------------------------------------------------------------
(* buffer_io.hpp, and the reference for a copy *)

SBlend(c, bs, start, src, preserve) ==
  [ch \in 1 .. 2 |->
     IF ch \in Range(Dst(c)) THEN Apply(bs[ch], start, src[ch], preserve, Mix(c), c.fade) ELSE bs[ch]]

SRead(t, c) ==
  LET s0 == c.start_src * t.file.rate
      avail == Larger(Len(t.file.frames) - s0, 0)
      want == IF c.dur < 0 THEN avail ELSE c.dur * t.file.rate
      col(ch) == IF c.stereo THEN IF ch <= t.file.channels THEN ch ELSE t.file.channels
                 ELSE Column(c.ch_src, t.file)
      src == [ch \in 1 .. 2 |-> Extract(t.file, col(ch), s0, Smaller(want, avail))]
  IN  [t EXCEPT !.buf = SBlend(c, t.buf, c.start_dst * Rate, src, c.preserve)]

SClear(t, c) ==
  LET a == Smaller(Larger(c.start_dst * Rate, 0), Length)
      src == [ch \in 1 .. 2 |-> Silence(IF c.dur < 0 THEN Length - a ELSE c.dur * Rate)]
  IN  [t EXCEPT !.buf = SBlend(c, t.buf, a, src, 0)]

SWrite(t, c) ==
  LET s0 == Smaller(Larger(c.start_src * Rate, 0), Length)
      avail == Length - s0
      n == IF c.dur < 0 THEN avail ELSE Smaller(c.dur * Rate, avail)
      of(i) == [k \in DOMAIN Dst(c) |-> Encode(t.buf[Dst(c)[k]][s0 + i])]
  IN  [t EXCEPT !.file = [rate |-> Rate, channels |-> Len(Dst(c)), frames |-> [i \in 1 .. n |-> of(i)]]]

SCopy(t, c) ==
  LET n == Larger(0, Smaller(Length - c.start_src, IF c.dur < 0 THEN Length ELSE c.dur))
      from(ch, i) == t.buf[Src(c, ch)][c.start_src + (IF c.reverse THEN n + 1 - i ELSE i)]
      src == [ch \in 1 .. 2 |-> [i \in 1 .. n |-> from(ch, i)]]
  IN  [t EXCEPT !.buf = SBlend(c, t.buf, c.start_dst, src, c.preserve)]

Standalone(t, c) ==
  CASE c.op = "read" -> SRead(t, c) [] c.op = "clear" -> SClear(t, c)
    [] c.op = "write" -> SWrite(t, c) [] c.op = "copy" -> SCopy(t, c)

-----------------------------------------------------------------------------
Init ==
  /\ buf = [b \in 1 .. 2 |-> [i \in 1 .. Length |-> IF i \in DOMAIN Content[b] THEN Content[b][i] ELSE 0]]
  /\ file = [rate |-> WavRate, channels |-> 2, frames |-> Wav]
  /\ call = [t \in Threads |-> [op |-> "none"]]
  /\ todo = [t \in Threads |-> <<>>]
  /\ held = [t \in Threads |-> <<>>]
  /\ calls = 0 /\ latest \in Threads
  /\ twin = [buf |-> buf, file |-> file] /\ apart = TRUE

Busy(t) == todo[t] # <<>>
Does(t, do) == Busy(t) /\ Head(todo[t]).do = do
Done(t) == todo' = [todo EXCEPT ![t] = Tail(@)]
Hold(t, x) == held' = [held EXCEPT ![t] = x]

Begin(t, c) ==
  /\ ~Busy(t) /\ calls < MaxCalls
  /\ calls' = calls + 1 /\ latest' = t
  /\ call' = [call EXCEPT ![t] = c]
  /\ todo' = [todo EXCEPT ![t] = Script(c)]
  /\ held' = [held EXCEPT ![t] = <<>>]
  /\ apart' = (/\ apart /\ (c.op = "clear" => c.start_dst >= 0 /\ c.preserve = 0)
               /\ \A u \in Threads : Busy(u) => ~Touch(c, call[u]))
  /\ twin' = IF apart' THEN Standalone(twin, c) ELSE twin
  /\ UNCHANGED <<buf, file>>

\* read_wav; a truncated file raises, and the call ends there.
Load(t) ==
  /\ Does(t, "load")
  /\ IF file.channels = 0
       THEN todo' = [todo EXCEPT ![t] = <<>>] /\ UNCHANGED held
       ELSE Done(t) /\ Hold(t, file)
  /\ UNCHANGED <<buf, file, call, calls, latest, twin, apart>>

\* The source region of a copy, copied out.
Take(t) ==
  /\ Does(t, "take") /\ Done(t)
  /\ Hold(t, Slice(buf[Head(todo[t]).ch], call[t].start_src, call[t].dur))
  /\ UNCHANGED <<buf, file, call, calls, latest, twin, apart>>

Blend(t) ==
  /\ Does(t, "blend") /\ Done(t)
  /\ LET ch == Head(todo[t]).ch  c == call[t]
     IN  buf' = [buf EXCEPT ![ch] =
                   Apply(@, c.start_dst * Rate, Source(c, held[t], ch), c.preserve, Mix(c), c.fade)]
  /\ UNCHANGED <<file, call, held, calls, latest, twin, apart>>

\* A region to be written, copied out.
TakeSlice(t) ==
  /\ Does(t, "slice") /\ Done(t)
  /\ Hold(t, Append(held[t], Slice(buf[Head(todo[t]).ch], call[t].start_src, call[t].dur)))
  /\ UNCHANGED <<buf, file, call, calls, latest, twin, apart>>

\* wave.open(..., "wb") truncates the file; header and frames come next.
Open(t) ==
  /\ Does(t, "open") /\ Done(t)
  /\ file' = Truncated
  /\ UNCHANGED <<buf, call, held, calls, latest, twin, apart>>

Put(t) ==
  /\ Does(t, "put") /\ Done(t)
  /\ file' = WavOf(held[t])
  /\ UNCHANGED <<buf, call, held, calls, latest, twin, apart>>

Next ==
  \E t \in Threads :
    \/ \E c \in Calls : Begin(t, c)
    \/ Load(t) \/ Take(t) \/ Blend(t) \/ TakeSlice(t) \/ Open(t) \/ Put(t)

Spec == Init /\ [][Next]_vars

-----------------------------------------------------------------------------
Idle == \A t \in Threads : ~Busy(t)
Abs(n) == IF n < 0 THEN -n ELSE n

\* Types; the buffers keep the least power of two that holds the frames asked
\* for, since the head wraps its index with a mask; codes fit their width, and
\* frames their number of channels.
WavFile(n) == [rate : {WavRate, Rate}, channels : {n}, frames : Seq([1 .. n -> Codes])]
TypeOK ==
  /\ \E k \in 0 .. Frames : Length = 2^k /\ Frames <= Length /\ Length < 2 * Frames
  /\ buf \in [1 .. 2 -> [1 .. Length -> Int]]
  /\ file = Truncated \/ \E n \in 1 .. 2 : file \in WavFile(n)

\* As long as calls that touch the same buffer or file have not overlapped, the
\* Python layer and the standalone server end with the same samples and the
\* same file, sample for sample (buffer_ops.hpp:8-11), for reads, writes and
\* clears of nothing before the buffer; an overlapping copy within one buffer does not
\* alias, and calls on different buffers do not disturb each other.
HostsAgree == Idle /\ apart => twin = [buf |-> buf, file |-> file]

\* A call changes no sample outside the region it names, of a buffer it names,
\* however it is clipped, and whatever other calls do between its steps.
Inside(c, i) ==
  /\ i > c.start_dst
  /\ c.dur >= 0 => i <= c.start_dst + c.dur * (IF c.op = "read" THEN Larger(WavRate, Rate) ELSE Rate)
StaysInside ==
  [][\A b \in 1 .. 2 : \A i \in 1 .. Length : buf'[b][i] # buf[b][i] =>
       \E t \in Threads : Busy(t) /\ b \in Range(Dst(call[t])) /\ Inside(call[t], i)]_vars

\* What a write leaves on disk, read back, is what the region held: each channel
\* in its place, each sample within a step and a half of it, clipped: the two
\* scales are a step apart at full scale, and the code is rounded.
WriteIsFaithful ==
  LET c == call[latest]
  IN  Idle /\ apart /\ c.op = "write" =>
        /\ file.channels = Len(Dst(c))
        /\ \A k \in DOMAIN Dst(c) :
             LET region == Slice(buf[Dst(c)[k]], c.start_src, c.dur)
             IN  /\ Len(file.frames) = Len(region)
                 /\ \A i \in DOMAIN region : 2 * Abs(Decode(file.frames[i][k]) - Clip(region[i])) <= 3 * Sub
=============================================================================
