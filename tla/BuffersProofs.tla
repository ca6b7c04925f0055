---------------------------- MODULE BuffersProofs ----------------------------
(***************************************************************************)
(* Voice::set_buffer, for any voices, arrays, lengths and queue size, and  *)
(* any number of swaps: types, agreement of pointers, lengths and          *)
(* references, and what the two keepalives are enough for.                 *)
(***************************************************************************)
EXTENDS Buffers, TLAPS

\* The callback needs a running engine, stop() drains one that is not, and a
\* stopped engine has nothing queued.
RunInv ==
  /\ audio # "idle" => running
  /\ stopping => ~running
  /\ ~running /\ ~stopping => queue = << >>

Mine(v, i) == i \in 1 .. Len(queue) /\ queue[i].voice = v

\* Of the swaps queued for a voice, the last is to the array the voice refers
\* to; what comes before it, the swap before or the array in use, is what it
\* keeps.
KeptInv ==
  \A v \in Voices : \A i \in 1 .. Len(queue) : Mine(v, i) =>
    /\ (\A j \in 1 .. Len(queue) : Mine(v, j) => j <= i) => queue[i].buf = buffer_ref[v]
    /\ (\A j \in 1 .. Len(queue) : Mine(v, j) => j = i) => buf[v] = prev_buffer_ref[v]
    /\ \A k \in 1 .. Len(queue) :
         /\ Mine(v, k) /\ i < k
         /\ \A j \in 1 .. Len(queue) : Mine(v, j) => j <= i \/ j = k
         => queue[i].buf = prev_buffer_ref[v]

\* ArraysAgree, position by position.
AgreeInv ==
  \A v \in Voices :
    /\ bufFrames[v] = buffer_frames[v]
    /\ buf[v] # NoArray => bufFrames[v] = Length(buf[v])
    /\ \A i \in 1 .. Len(queue) : Mine(v, i) => Length(queue[i].buf) = bufFrames[v]
    /\ (\A i \in 1 .. Len(queue) : ~Mine(v, i)) => buffer_ref[v] = buf[v]

IInv == TypeOK /\ RunInv /\ KeptInv /\ AgreeInv

\* A new engine, without arrays, satisfies the invariant.
LEMMA InitIInv == Init => IInv
<1> SUFFICES ASSUME Init PROVE IInv
  OBVIOUS
<1>1. queue \in Seq([voice : Voices, buf : made]) /\ Len(queue) = 0
  BY DEF Init
<1>2. TypeOK
  <2>1. made = {} /\ held = {} /\ swaps = 0 /\ Len(queue) <= Room
    BY <1>1, RoomAssumption DEF Init
  <2>2. /\ buffer_ref \in [Voices -> made \union {NoArray}]
        /\ prev_buffer_ref \in [Voices -> made \union {NoArray}]
        /\ buf \in [Voices -> made \union {NoArray}]
    BY DEF Init
  <2>3. /\ buffer_frames \in [Voices -> Sizes \union {0}]
        /\ bufFrames \in [Voices -> Sizes \union {0}]
    BY DEF Init
  <2>4. running \in BOOLEAN /\ stopping \in BOOLEAN /\ audio \in {"idle", "drain", "process"}
    BY DEF Init
  <2> QED
    BY <1>1, <2>1, <2>2, <2>3, <2>4 DEF TypeOK
<1>3. RunInv
  BY DEF Init, RunInv
<1>4. KeptInv /\ AgreeInv
  BY <1>1 DEF Init, KeptInv, AgreeInv, Mine
<1> QED
  BY <1>2, <1>3, <1>4 DEF IInv

-----------------------------------------------------------------------------
(* The queue *)

LEMMA TailOf ==
  ASSUME NEW S, NEW q \in Seq(S), q # << >>
  PROVE  /\ Len(q) \in Nat \ {0} /\ Head(q) = q[1] /\ q[1] \in S
         /\ Tail(q) \in Seq(S) /\ Len(Tail(q)) = Len(q) - 1
         /\ \A i \in 1 .. Len(q) - 1 : Tail(q)[i] = q[i + 1]
<1>1. Len(q) \in Nat /\ Len(q) # 0
  OBVIOUS
<1>2. q[1] \in S /\ Head(q) = q[1]
  BY <1>1
<1> QED
  BY <1>1, <1>2

\* A turn of the drain keeps the types, ...
LEMMA RunTypes ==
  ASSUME TypeOK, Run, UNCHANGED <<made, held, refs, buffer_frames, swaps>>,
         running' \in BOOLEAN, stopping' \in BOOLEAN, audio' \in {"idle", "drain", "process"}
  PROVE  TypeOK'
<1> DEFINE c == Head(queue)
<1>1. c \in [voice : Voices, buf : made] /\ Tail(queue) \in Seq([voice : Voices, buf : made])
      /\ Len(Tail(queue)) <= Room
  <2>1. queue \in Seq([voice : Voices, buf : made]) /\ queue # << >> /\ Len(queue) <= Room /\ Room \in Nat
    BY RoomAssumption DEF TypeOK, Run
  <2> DEFINE C == [voice : Voices, buf : made]
  <2>2. queue \in Seq(C)
    BY <2>1
  <2> HIDE DEF C
  <2>3. Head(queue) \in C /\ Tail(queue) \in Seq(C) /\ Len(Tail(queue)) = Len(queue) - 1
        /\ Len(queue) \in Nat
    BY <2>1, <2>2, TailOf
  <2>4. Len(Tail(queue)) <= Room
    BY <2>1, <2>3
  <2> QED
    BY <2>3, <2>4 DEF C
<1>2. Length(c.buf) \in Sizes
  BY <1>1 DEF TypeOK, Arrays, Length
<1> HIDE DEF c
<1>3. buf' = [buf EXCEPT ![c.voice] = c.buf] /\ bufFrames' = [bufFrames EXCEPT ![c.voice] = Length(c.buf)]
      /\ queue' = Tail(queue)
  BY DEF Run, c
<1> QED
  BY <1>1, <1>2, <1>3 DEF TypeOK, refs

\* ... and moves every other swap one place forward.
LEMMA RunShifts ==
  ASSUME TypeOK, Run
  PROVE  /\ Len(queue) \in Nat \ {0} /\ Len(queue') = Len(queue) - 1
         /\ \A i \in 1 .. Len(queue') : i + 1 \in 1 .. Len(queue) /\ queue'[i] = queue[i + 1]
         /\ \A j \in 1 .. Len(queue) : j # 1 => j - 1 \in 1 .. Len(queue') /\ queue[j] = queue'[j - 1]
         /\ Mine(queue[1].voice, 1) /\ queue[1].voice \in Voices /\ queue[1].buf \in Arrays
         /\ buf' = [buf EXCEPT ![queue[1].voice] = queue[1].buf]
         /\ bufFrames' = [bufFrames EXCEPT ![queue[1].voice] = Length(queue[1].buf)]
<1>1. queue \in Seq([voice : Voices, buf : made]) /\ queue # << >> /\ queue' = Tail(queue)
  BY DEF TypeOK, Run
<1>2. Head(queue) = queue[1] /\ Len(queue) \in Nat \ {0} /\ queue[1] \in [voice : Voices, buf : made]
  BY <1>1, TailOf
<1>3. Mine(queue[1].voice, 1) /\ queue[1].voice \in Voices /\ queue[1].buf \in Arrays
  BY <1>2 DEF Mine, TypeOK
<1>4. Len(queue') = Len(queue) - 1 /\ \A i \in 1 .. Len(queue) - 1 : queue'[i] = queue[i + 1]
  BY <1>1, TailOf
<1>5. \A i \in 1 .. Len(queue') : i + 1 \in 1 .. Len(queue) /\ queue'[i] = queue[i + 1]
  BY <1>2, <1>4
<1>6. \A j \in 1 .. Len(queue) : j # 1 => j - 1 \in 1 .. Len(queue') /\ queue[j] = queue'[j - 1]
  BY <1>2, <1>4
<1>7. buf' = [buf EXCEPT ![queue[1].voice] = queue[1].buf]
      /\ bufFrames' = [bufFrames EXCEPT ![queue[1].voice] = Length(queue[1].buf)]
  BY <1>2 DEF Run
<1> QED
  BY <1>2, <1>3, <1>4, <1>5, <1>6, <1>7

\* The drain keeps what the references are to.
LEMMA RunKept ==
  ASSUME TypeOK, KeptInv, AgreeInv, Run, UNCHANGED <<refs, buffer_frames>>
  PROVE  KeptInv' /\ AgreeInv'
<1> DEFINE w == queue[1].voice
<1>1. /\ Len(queue) \in Nat \ {0} /\ Len(queue') = Len(queue) - 1
      /\ \A i \in 1 .. Len(queue') : i + 1 \in 1 .. Len(queue) /\ queue'[i] = queue[i + 1]
      /\ \A j \in 1 .. Len(queue) : j # 1 => j - 1 \in 1 .. Len(queue') /\ queue[j] = queue'[j - 1]
      /\ Mine(w, 1) /\ w \in Voices /\ queue[1].buf \in Arrays
      /\ buf' = [buf EXCEPT ![w] = queue[1].buf]
      /\ bufFrames' = [bufFrames EXCEPT ![w] = Length(queue[1].buf)]
  BY RunShifts
<1>2. buf \in [Voices -> made \union {NoArray}] /\ bufFrames \in [Voices -> Sizes \union {0}]
  BY DEF TypeOK
<1>3. \A v \in Voices : \A i \in 1 .. Len(queue') : Mine(v, i)' <=> Mine(v, i + 1)
  BY <1>1 DEF Mine
<1>4. \A v \in Voices : v # w => ~Mine(v, 1)
  BY DEF Mine
<1>5. buffer_ref' = buffer_ref /\ prev_buffer_ref' = prev_buffer_ref /\ buffer_frames' = buffer_frames
  BY DEF refs
<1> HIDE DEF w
<1>6. ASSUME NEW v \in Voices, NEW i \in 1 .. Len(queue'), Mine(v, i)'
      PROVE  /\ (\A j \in 1 .. Len(queue') : Mine(v, j)' => j <= i) => queue'[i].buf = buffer_ref'[v]
             /\ (\A j \in 1 .. Len(queue') : Mine(v, j)' => j = i) => buf'[v] = prev_buffer_ref'[v]
             /\ \A k \in 1 .. Len(queue') :
                  /\ Mine(v, k)' /\ i < k
                  /\ \A j \in 1 .. Len(queue') : Mine(v, j)' => j <= i \/ j = k
                  => queue'[i].buf = prev_buffer_ref'[v]
  <2>1. Mine(v, i + 1) /\ i + 1 \in 1 .. Len(queue) /\ queue'[i] = queue[i + 1]
    BY <1>1, <1>3, <1>6
  <2>2. ASSUME \A j \in 1 .. Len(queue') : Mine(v, j)' => j <= i PROVE queue'[i].buf = buffer_ref'[v]
    <3>1. \A j \in 1 .. Len(queue) : Mine(v, j) => j <= i + 1
      BY <1>1, <1>3, <2>2
    <3> QED
      BY <1>5, <2>1, <3>1 DEF KeptInv
  <2>3. ASSUME \A j \in 1 .. Len(queue') : Mine(v, j)' => j = i PROVE buf'[v] = prev_buffer_ref'[v]
    <3>1. \A j \in 1 .. Len(queue) : Mine(v, j) => j <= 1 \/ j = i + 1
      BY <1>1, <1>3, <2>3
    <3>2. CASE v = w
      <4>1. 1 \in 1 .. Len(queue) /\ Mine(v, 1) /\ 1 < i + 1
        BY <1>1, <3>2
      <4>2. queue[1].buf = prev_buffer_ref[v]
        BY <2>1, <3>1, <4>1 DEF KeptInv
      <4> QED
        BY <1>1, <1>2, <1>5, <3>2, <4>2
    <3>3. CASE v # w
      <4>1. \A j \in 1 .. Len(queue) : Mine(v, j) => j = i + 1
        BY <1>1, <1>4, <3>1, <3>3
      <4>2. buf[v] = prev_buffer_ref[v]
        BY <2>1, <4>1 DEF KeptInv
      <4> QED
        BY <1>1, <1>2, <1>5, <3>3, <4>2
    <3> QED
      BY <3>2, <3>3
  <2>4. ASSUME NEW k \in 1 .. Len(queue'), Mine(v, k)', i < k,
               \A j \in 1 .. Len(queue') : Mine(v, j)' => j <= i \/ j = k
        PROVE  queue'[i].buf = prev_buffer_ref'[v]
    <3>1. k + 1 \in 1 .. Len(queue) /\ Mine(v, k + 1) /\ i + 1 < k + 1
      <4>1. k + 1 \in 1 .. Len(queue) /\ i + 1 < k + 1
        BY <1>1, <2>4
      <4>2. Mine(v, k + 1)
        BY <1>3, <2>4
      <4> QED
        BY <4>1, <4>2
    <3>2. ASSUME NEW j \in 1 .. Len(queue), Mine(v, j) PROVE j <= i + 1 \/ j = k + 1
      <4>1. CASE j = 1
        BY <4>1
      <4>2. CASE j # 1
        <5>1. j - 1 \in 1 .. Len(queue') /\ (j - 1) + 1 = j
          BY <1>1, <4>2
        <5>2. Mine(v, j - 1)'
          BY <1>3, <3>2, <5>1
        <5> QED
          BY <2>4, <5>1, <5>2
      <4> QED
        BY <4>1, <4>2
    <3>3. queue[i + 1].buf = prev_buffer_ref[v]
      BY <2>1, <3>1, <3>2 DEF KeptInv
    <3> QED
      BY <1>5, <2>1, <3>3
  <2> QED
    BY <2>2, <2>3, <2>4
<1>7. ASSUME NEW v \in Voices
      PROVE  /\ bufFrames'[v] = buffer_frames'[v]
             /\ buf'[v] # NoArray => bufFrames'[v] = Length(buf'[v])
             /\ \A i \in 1 .. Len(queue') : Mine(v, i)' => Length(queue'[i].buf) = bufFrames'[v]
             /\ (\A i \in 1 .. Len(queue') : ~Mine(v, i)') => buffer_ref'[v] = buf'[v]
  <2>1. v = w => Length(queue[1].buf) = bufFrames[v]
    BY <1>1 DEF AgreeInv
  <2>2. bufFrames'[v] = bufFrames[v]
    BY <1>1, <1>2, <2>1
  <2>3. \A i \in 1 .. Len(queue') : Mine(v, i)' => Length(queue'[i].buf) = bufFrames'[v]
    BY <1>1, <1>3, <2>2 DEF AgreeInv
  <2>4. buf'[v] # NoArray => bufFrames'[v] = Length(buf'[v])
    BY <1>1, <1>2, <2>1, <2>2 DEF AgreeInv
  <2>5. ASSUME \A i \in 1 .. Len(queue') : ~Mine(v, i)' PROVE buffer_ref'[v] = buf'[v]
    <3>1. \A j \in 1 .. Len(queue) : Mine(v, j) => j <= 1
      BY <1>1, <1>3, <2>5
    <3>2. CASE v = w
      <4>1. 1 \in 1 .. Len(queue) /\ Mine(v, 1)
        BY <1>1, <3>2
      <4>2. queue[1].buf = buffer_ref[v]
        BY <3>1, <4>1 DEF KeptInv
      <4> QED
        BY <1>1, <1>2, <1>5, <3>2, <4>2
    <3>3. CASE v # w
      BY <1>1, <1>2, <1>4, <1>5, <3>1, <3>3 DEF AgreeInv
    <3> QED
      BY <3>2, <3>3
  <2> QED
    BY <1>5, <2>2, <2>3, <2>4, <2>5 DEF AgreeInv
<1>8. KeptInv'
  BY <1>6 DEF KeptInv
<1>9. AgreeInv'
  BY <1>7 DEF AgreeInv
<1> QED
  BY <1>8, <1>9

-----------------------------------------------------------------------------
(* A swap *)

LEMMA AppendOf ==
  ASSUME NEW S, NEW q \in Seq(S), NEW e \in S
  PROVE  /\ Len(q) \in Nat /\ Append(q, e) \in Seq(S) /\ Len(Append(q, e)) = Len(q) + 1
         /\ \A i \in 1 .. Len(q) : Append(q, e)[i] = q[i]
         /\ Append(q, e)[Len(q) + 1] = e
<1> QED
  OBVIOUS

\* A queued swap comes last, and what the voice referred to before is kept.
LEMMA SwapStep ==
  ASSUME IInv, NEW v \in Voices, NEW a \in Arrays, Swap(v, a)
  PROVE  IInv'
<1> USE DEF Swap, MayAssign
<1> DEFINE C == [voice : Voices, buf : made]
           c == [voice |-> v, buf |-> a]
<1>0. PICK n \in Nat : n = Len(queue)
  BY DEF IInv, TypeOK
<1>1. queue \in Seq(C) /\ c \in C /\ queue' = Append(queue, c) /\ a \in made
  BY DEF IInv, TypeOK
<1>2. c.voice = v /\ c.buf = a
  OBVIOUS
<1> HIDE DEF C, c
<1>3. /\ n \in Nat /\ queue' \in Seq(C) /\ Len(queue') = n + 1
      /\ \A i \in 1 .. n : queue'[i] = queue[i]
      /\ queue'[n + 1] = c
  BY <1>0, <1>1, AppendOf
<1>4. \A u \in Voices : \A i \in 1 .. n + 1 : Mine(u, i)' <=> (i \in 1 .. n /\ Mine(u, i)) \/ (i = n + 1 /\ u = v)
  BY <1>0, <1>2, <1>3 DEF Mine
<1>5. /\ buffer_ref \in [Voices -> made \union {NoArray}]
      /\ prev_buffer_ref \in [Voices -> made \union {NoArray}]
      /\ buffer_ref' = [buffer_ref EXCEPT ![v] = a]
      /\ prev_buffer_ref' = [prev_buffer_ref EXCEPT ![v] = buffer_ref[v]]
      /\ UNCHANGED <<buf, bufFrames, buffer_frames, running, audio, stopping, made, held>>
  BY DEF IInv, TypeOK, dsp
<1>6. TypeOK'
  <2>1. n < Room
    BY <1>0
  <2>2. queue' \in Seq([voice : Voices, buf : made]) /\ Len(queue') <= Room
    BY <1>3, <2>1, RoomAssumption DEF C
  <2>3. swaps' \in Nat /\ running \in BOOLEAN /\ stopping \in BOOLEAN
    BY DEF IInv, TypeOK
  <2> QED
    BY <1>1, <1>5, <2>2, <2>3 DEF IInv, TypeOK
<1>7. RunInv'
  BY <1>5 DEF IInv, RunInv
<1>8. KeptInv /\ AgreeInv /\ n = Len(queue)
  BY <1>0 DEF IInv
<1>9. ASSUME NEW u \in Voices, NEW i \in 1 .. n + 1, Mine(u, i)'
      PROVE  /\ (\A j \in 1 .. n + 1 : Mine(u, j)' => j <= i) => queue'[i].buf = buffer_ref'[u]
             /\ (\A j \in 1 .. n + 1 : Mine(u, j)' => j = i) => buf'[u] = prev_buffer_ref'[u]
             /\ \A k \in 1 .. n + 1 :
                  /\ Mine(u, k)' /\ i < k
                  /\ \A j \in 1 .. n + 1 : Mine(u, j)' => j <= i \/ j = k
                  => queue'[i].buf = prev_buffer_ref'[u]
  <2>1. CASE u # v
    <3>1. i \in 1 .. n /\ Mine(u, i) /\ queue'[i] = queue[i]
      BY <1>3, <1>4, <1>9, <2>1
    <3>2. \A j \in 1 .. n + 1 : Mine(u, j)' <=> j \in 1 .. n /\ Mine(u, j)
      BY <1>4, <2>1
    <3>3. buffer_ref'[u] = buffer_ref[u] /\ prev_buffer_ref'[u] = prev_buffer_ref[u] /\ buf' = buf
      BY <1>5, <2>1
    <3>4. \A j \in 1 .. n : j \in 1 .. n + 1
      BY <1>3
    <3>5. (\A j \in 1 .. n + 1 : Mine(u, j)' => j <= i) => queue'[i].buf = buffer_ref'[u]
      BY <1>8, <3>1, <3>2, <3>3, <3>4 DEF KeptInv
    <3>6. (\A j \in 1 .. n + 1 : Mine(u, j)' => j = i) => buf'[u] = prev_buffer_ref'[u]
      BY <1>8, <3>1, <3>2, <3>3, <3>4 DEF KeptInv
    <3>7. ASSUME NEW k \in 1 .. n + 1, Mine(u, k)', i < k,
                 \A j \in 1 .. n + 1 : Mine(u, j)' => j <= i \/ j = k
          PROVE  queue'[i].buf = prev_buffer_ref'[u]
      <4>1. k \in 1 .. n /\ Mine(u, k)
        BY <3>2, <3>7
      <4>2. \A j \in 1 .. n : Mine(u, j) => j <= i \/ j = k
        BY <3>2, <3>4, <3>7
      <4>3. queue[i].buf = prev_buffer_ref[u]
        BY <1>8, <3>1, <3>7, <4>1, <4>2 DEF KeptInv
      <4> QED
        BY <3>1, <3>3, <4>3
    <3> QED
      BY <3>5, <3>6, <3>7
  <2>2. CASE u = v /\ i = n + 1
    <3>1. queue'[i].buf = buffer_ref'[u]
      BY <1>2, <1>3, <1>5, <2>2
    <3>2. ASSUME \A j \in 1 .. n + 1 : Mine(u, j)' => j = i PROVE buf'[u] = prev_buffer_ref'[u]
      <4>1. \A j \in 1 .. n : ~Mine(u, j)
        BY <1>3, <1>4, <2>2, <3>2
      <4>2. buffer_ref[u] = buf[u]
        BY <1>8, <4>1 DEF AgreeInv
      <4> QED
        BY <1>5, <2>2, <4>2
    <3>3. \A k \in 1 .. n + 1 : ~(i < k)
      BY <1>3, <2>2
    <3> QED
      BY <3>1, <3>2, <3>3
  <2>3. CASE u = v /\ i # n + 1
    <3>1. i \in 1 .. n /\ Mine(u, i) /\ queue'[i] = queue[i]
      BY <1>3, <1>4, <1>9, <2>3
    <3>2. n + 1 \in 1 .. n + 1 /\ ~(n + 1 <= i) /\ n + 1 # i /\ Mine(u, n + 1)'
      <4>1. n + 1 \in 1 .. n + 1 /\ ~(n + 1 <= i) /\ n + 1 # i
        BY <1>3, <3>1
      <4>2. Mine(u, n + 1)'
        BY <1>4, <2>3, <4>1
      <4> QED
        BY <4>1, <4>2
    <3>3. ASSUME NEW k \in 1 .. n + 1, i < k,
                 \A j \in 1 .. n + 1 : Mine(u, j)' => j <= i \/ j = k
          PROVE  queue'[i].buf = prev_buffer_ref'[u]
      <4>1. k = n + 1
        BY <3>2, <3>3
      <4>2. \A j \in 1 .. n : Mine(u, j) => j <= i
        BY <1>3, <1>4, <3>3, <4>1
      <4>3. queue[i].buf = buffer_ref[u]
        BY <1>8, <3>1, <4>2 DEF KeptInv
      <4> QED
        BY <1>5, <2>3, <3>1, <4>3
    <3> QED
      BY <3>2, <3>3
  <2> QED
    BY <2>1, <2>2, <2>3
<1>10. KeptInv'
  BY <1>3, <1>9 DEF KeptInv
<1>11. AgreeInv'
  <2>1. Length(a) = bufFrames[v]
    BY <1>8 DEF AgreeInv
  <2>2. ASSUME NEW u \in Voices
        PROVE  /\ \A i \in 1 .. n + 1 : Mine(u, i)' => Length(queue'[i].buf) = bufFrames[u]
               /\ (\A i \in 1 .. n + 1 : ~Mine(u, i)') => buffer_ref'[u] = buf[u]
    <3>1. \A i \in 1 .. n : Mine(u, i) => Length(queue[i].buf) = bufFrames[u]
      BY <1>8 DEF AgreeInv
    <3>2. \A i \in 1 .. n + 1 : Mine(u, i)' => Length(queue'[i].buf) = bufFrames[u]
      BY <1>2, <1>3, <1>4, <2>1, <3>1
    <3>3. ASSUME \A i \in 1 .. n + 1 : ~Mine(u, i)' PROVE buffer_ref'[u] = buf[u]
      <4>0. n + 1 \in 1 .. n + 1 /\ \A i \in 1 .. n : i \in 1 .. n + 1
        BY <1>3
      <4>1. u # v /\ \A i \in 1 .. n : ~Mine(u, i)
        BY <1>4, <3>3, <4>0
      <4> QED
        BY <1>5, <1>8, <4>1 DEF AgreeInv
    <3> QED
      BY <3>2, <3>3
  <2> QED
    BY <1>3, <1>5, <1>8, <2>2 DEF AgreeInv
<1> QED
  BY <1>6, <1>7, <1>10, <1>11 DEF IInv

-----------------------------------------------------------------------------
(* The other steps *)

\* Assigned on a stopped engine, whose queue is empty.
LEMMA AssignStep ==
  ASSUME IInv, NEW v \in Voices, NEW a \in Arrays, Assign(v, a)
  PROVE  IInv'
<1> USE DEF Assign, MayAssign
<1>1. queue = << >> /\ queue' = queue /\ a \in made /\ Length(a) \in Sizes
  BY DEF IInv, RunInv, TypeOK, Arrays, Length
<1>2. 1 .. Len(queue) = {}
  BY <1>1
<1>3. TypeOK'
  BY <1>1 DEF IInv, TypeOK
<1>4. RunInv' /\ KeptInv'
  BY <1>1, <1>2 DEF IInv, RunInv, KeptInv
<1>5. AgreeInv'
  BY <1>1, <1>2 DEF IInv, TypeOK, AgreeInv
<1> QED
  BY <1>3, <1>4, <1>5 DEF IInv

\* Every step keeps the invariant.
LEMMA NextIInv == IInv /\ [Next]_vars => IInv'
<1> SUFFICES ASSUME IInv, [Next]_vars PROVE IInv'
  OBVIOUS
<1>1. ASSUME NEW a \in Arrays, Make(a) PROVE IInv'
  <2>1. made \subseteq made' /\ held' \subseteq made' /\ made' \subseteq Arrays
    BY <1>1 DEF Make, IInv, TypeOK
  <2>2. UNCHANGED <<refs, buffer_frames, dsp, running, audio, stopping, queue, swaps>>
    BY <1>1 DEF Make
  <2>3. queue \in Seq([voice : Voices, buf : made'])
    <3>1. [voice : Voices, buf : made] \subseteq [voice : Voices, buf : made']
      BY <2>1
    <3>2. queue \in Seq([voice : Voices, buf : made])
      BY DEF IInv, TypeOK
    <3> DEFINE C == [voice : Voices, buf : made]
               D == [voice : Voices, buf : made']
    <3> HIDE DEF C, D
    <3>3. C \subseteq D /\ queue \in Seq(C)
      BY <3>1, <3>2 DEF C, D
    <3>4. queue \in Seq(D)
      BY <3>3
    <3> QED
      BY <3>4 DEF D
  <2>4. TypeOK'
    BY <2>1, <2>2, <2>3 DEF IInv, TypeOK, refs, dsp
  <2> QED
    BY <2>2, <2>4 DEF IInv, RunInv, KeptInv, AgreeInv, Mine, refs, dsp
<1>2. ASSUME NEW a \in held, Drop(a) PROVE IInv'
  BY <1>2 DEF Drop, IInv, TypeOK, RunInv, KeptInv, AgreeInv, Mine, refs, dsp
<1>3. ASSUME NEW v \in Voices, NEW a \in Arrays, Assign(v, a) \/ Swap(v, a) PROVE IInv'
  BY <1>3, AssignStep, SwapStep
<1>4. CASE StopDrain \/ Drain
  <2>1. Run /\ UNCHANGED <<made, held, refs, buffer_frames, running, audio, stopping, swaps>>
        /\ (running \/ stopping)
    BY <1>4 DEF StopDrain, Drain, IInv, RunInv
  <2>2. TypeOK'
    BY <2>1, RunTypes DEF IInv, TypeOK
  <2>3. KeptInv' /\ AgreeInv'
    BY <2>1, RunKept DEF IInv
  <2>4. RunInv'
    BY <2>1 DEF IInv, RunInv
  <2> QED
    BY <2>2, <2>3, <2>4 DEF IInv
<1>5. CASE Start \/ Stop \/ Stopped \/ Callback \/ Process \/ Return \/ UNCHANGED vars
  <2>1. UNCHANGED <<made, held, refs, buffer_frames, dsp, queue, swaps>>
    BY <1>5 DEF Start, Stop, Stopped, Callback, Process, Return, vars
  <2>2. TypeOK'
    BY <1>5, <2>1 DEF IInv, TypeOK, refs, dsp, Start, Stop, Stopped, Callback, Process, Return, vars
  <2>3. RunInv'
    BY <1>5, <2>1 DEF IInv, RunInv, Start, Stop, Stopped, Callback, Process, Return, vars
  <2> QED
    BY <2>1, <2>2, <2>3 DEF IInv, KeptInv, AgreeInv, Mine, refs, dsp
<1> QED
  BY <1>1, <1>2, <1>3, <1>4, <1>5 DEF Next

LEMMA Invariance == Spec => []IInv
<1> QED
  BY InitIInv, NextIInv, PTL DEF Spec

\* The types of Voice's and Engine's members (_core.cpp:102-114).
THEOREM TypeCorrect == Spec => []TypeOK
<1>1. IInv => TypeOK
  BY DEF IInv
<1> QED
  BY <1>1, Invariance, PTL

\* Pointer, frame count and Python's reference agree (_core.cpp:371-416), for any
\* number of voices, arrays, starts, stops and swaps.
THEOREM PointersAgree == Spec => []ArraysAgree
<1>1. IInv => ArraysAgree
  BY DEF IInv, AgreeInv, ArraysAgree, QueuedFor, Mine
<1> QED
  BY <1>1, Invariance, PTL

\* One array kept besides the one referred to (_core.cpp:105-113) is enough while
\* at most one swap of a voice is queued.
THEOREM KeepalivesSuffice == Spec => []OneSwapKept
<1>1. IInv => OneSwapKept
  <2> SUFFICES ASSUME IInv, NEW v \in Voices,
                      QueuedFor(v) \in {{}} \union {{i} : i \in 1 .. Len(queue)}
               PROVE  /\ buf[v] \in Alive \union {NoArray}
                      /\ \A i \in QueuedFor(v) : queue[i].buf \in Alive
    BY DEF OneSwapKept
  <2>1. buffer_ref[v] \in Alive /\ prev_buffer_ref[v] \in Alive
    BY DEF Alive
  <2>2. \A i \in 1 .. Len(queue) : i \in QueuedFor(v) <=> Mine(v, i)
    BY DEF QueuedFor, Mine
  <2>3. CASE QueuedFor(v) = {}
    BY <2>1, <2>2, <2>3 DEF IInv, AgreeInv
  <2>4. ASSUME NEW i \in 1 .. Len(queue), QueuedFor(v) = {i}
        PROVE  buf[v] = prev_buffer_ref[v] /\ queue[i].buf = buffer_ref[v]
    <3>1. Mine(v, i) /\ \A j \in 1 .. Len(queue) : Mine(v, j) => j = i
      BY <2>2, <2>4
    <3> QED
      BY <3>1 DEF IInv, KeptInv
  <2> QED
    BY <2>1, <2>3, <2>4
<1> QED
  BY <1>1, Invariance, PTL
=============================================================================
