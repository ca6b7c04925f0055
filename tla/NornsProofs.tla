---------------------------- MODULE NornsProofs ----------------------------
(***************************************************************************)
(* Proofs about the norns layer: first about NornsBuffers, for every       *)
(* length of the buffers, every file and signal, every number of threads   *)
(* and every set of calls; then about Surface, for every number of voices, *)
(* every range of its options and performances of any length.              *)
(*                                                                         *)
(* What is proved of one host against the other rests on one idea: of two  *)
(* calls apart, neither changes what the other uses.  So what a thread     *)
(* will make of a buffer can be said from the state at any of its steps    *)
(* (`Outcome`, `Parts`), no step of another thread changes it, and the     *)
(* standalone server, which makes the whole call when it begins, has that  *)
(* already.                                                                *)
(*                                                                         *)
(* What is proved of the surface rests on what the message of each control *)
(* does to any host (`Moves`, `Presses`), which the tables of the layout,  *)
(* the server and the voices give; and on what may be on the wire at once  *)
(* (`Settled`): datagrams that leave a value where it is, and behind them  *)
(* only those of the touch that is going on.                               *)
(***************************************************************************)
EXTENDS NornsBuffers, Surface, SequenceTheorems, FiniteSetTheorems, WellFoundedInduction, TLAPS

-----------------------------------------------------------------------------
(* Integers, samples and codes *)

\* What \div does, for any positive divisor.
LEMMA Division ==
  ASSUME NEW a \in Int, NEW d \in Nat \ {0}
  PROVE  a \div d \in Int /\ d * (a \div d) <= a /\ a < d * (a \div d) + d
OBVIOUS

\* A positive factor cancels on both sides of an inequality.
LEMMA Cancel ==
  ASSUME NEW a \in Int, NEW b \in Int, NEW s \in Nat \ {0}
  PROVE  /\ s * a <= s * b => a <= b
         /\ s * a < s * b => a < b
<1>1. a > b => s * a > s * b OBVIOUS
<1>2. a >= b => s * a >= s * b OBVIOUS
<1>. QED BY <1>1, <1>2

\* A sample of at most 1.0 is scaled to a code of at most Steps - 1, a step and
\* a half away from it at most.
LEMMA ScaledFacts ==
  ASSUME NEW x \in 0 .. Amp
  PROVE  /\ Scaled(x) \in 0 .. Steps - 1
         /\ 2 * (Sub * Scaled(x) - x) <= 3 * Sub /\ 2 * (x - Sub * Scaled(x)) <= 3 * Sub
<1>0. Steps \in Nat \ {0} /\ Sub \in Nat \ {0} BY BuffersAssumption
<1>1. Amp \in Nat \ {0} /\ Amp = Steps * Sub BY <1>0 DEF Amp
<1>2. x \in Nat /\ x <= Amp BY <1>1
<1> DEFINE a == 2 * x * (Steps - 1) + Amp
           q == a \div (2 * Amp)
<1>3. a \in Nat /\ 2 * Amp \in Nat \ {0}
  <2>1. x * (Steps - 1) \in Nat BY <1>0, <1>2
  <2>2. a = 2 * (x * (Steps - 1)) + Amp BY <1>0, <1>1, <1>2
  <2>. QED BY <2>1, <2>2, <1>1
<1>4. q \in Int /\ 2 * Amp * q <= a /\ a < 2 * Amp * q + 2 * Amp
  <2> DEFINE d == 2 * Amp
  <2> HIDE DEF a, d
  <2>1. a \in Int /\ d \in Nat \ {0} BY <1>3 DEF d
  <2>2. a \div d \in Int /\ d * (a \div d) <= a /\ a < d * (a \div d) + d BY <2>1, Division
  <2>3. q = a \div d BY DEF d
  <2> HIDE DEF q
  <2>. QED BY <2>2, <2>3 DEF d
<1>5. Scaled(x) = q BY DEF Scaled
<1> HIDE DEF q
<1>6. x * (Steps - 1) <= Amp * (Steps - 1) BY <1>0, <1>1, <1>2
<1>7. q <= Steps - 1
  <2>1. a <= 2 * (Amp * (Steps - 1)) + Amp BY <1>6, <1>0, <1>1, <1>2
  <2>2. 2 * Amp * q < 2 * Amp * Steps BY <2>1, <1>4, <1>0, <1>1
  <2>3. q < Steps BY <2>2, <1>3, <1>4, <1>0, Cancel
  <2>. QED BY <2>3, <1>4, <1>0
<1>8. q >= 0
  <2>1. q < 0 => 2 * Amp * q + 2 * Amp <= 0 BY <1>1, <1>4
  <2>2. q + 1 > 0 BY <2>1, <1>3, <1>4
  <2>. QED BY <2>2, <1>4
<1> DEFINE y == Sub * q
<1>9. y \in Int /\ Steps * y = Amp * q BY <1>0, <1>1, <1>4
<1>10. a = 2 * (Steps * x) - 2 * x + Amp BY <1>0, <1>1, <1>2
<1> HIDE DEF a, y
<1>11. Steps * (2 * (y - x)) <= Steps * (3 * Sub)
  <2>1. Steps * (2 * (y - x)) = 2 * (Steps * y) - 2 * (Steps * x) BY <1>0, <1>2, <1>9
  <2>2. Steps * (3 * Sub) = 3 * Amp BY <1>0, <1>1
  <2>3. 2 * Amp * q = 2 * (Steps * y) BY <1>1, <1>4, <1>9
  <2>4. Steps * x \in Int /\ Steps * y \in Int BY <1>0, <1>2, <1>9
  <2>. QED BY <2>1, <2>2, <2>3, <2>4, <1>4, <1>10, <1>2, <1>1
<1>12. Steps * (2 * (x - y)) <= Steps * (3 * Sub)
  <2>1. Steps * (2 * (x - y)) = 2 * (Steps * x) - 2 * (Steps * y) BY <1>0, <1>2, <1>9
  <2>2. Steps * (3 * Sub) = 3 * Amp BY <1>0, <1>1
  <2>3. 2 * Amp * q = 2 * (Steps * y) BY <1>1, <1>4, <1>9
  <2>4. Steps * x \in Int /\ Steps * y \in Int BY <1>0, <1>2, <1>9
  <2>. QED BY <2>1, <2>2, <2>3, <2>4, <1>4, <1>10, <1>2, <1>1
<1>13. 2 * (y - x) <= 3 * Sub /\ 2 * (x - y) <= 3 * Sub
  BY <1>11, <1>12, <1>0, <1>2, <1>9, Cancel
<1>. QED BY <1>5, <1>7, <1>8, <1>4, <1>0, <1>13 DEF y

\* float_to_s16: any sample becomes a code of its width, and what is decoded from
\* it is within a step and a half of the clipped sample.
LEMMA EncodeFacts ==
  ASSUME NEW v \in Int
  PROVE  Encode(v) \in Codes /\ 2 * Abs(Decode(Encode(v)) - Clip(v)) <= 3 * Sub
<1>0. Steps \in Nat \ {0} /\ Sub \in Nat \ {0} BY BuffersAssumption
<1>1. Amp \in Nat BY <1>0 DEF Amp
<1>2. Clip(v) \in -Amp .. Amp BY <1>1 DEF Clip, Larger, Smaller
<1>3. Encode(v) = IF Clip(v) < 0 THEN -Scaled(-Clip(v)) ELSE Scaled(Clip(v)) BY DEF Encode
<1>4. CASE Clip(v) < 0
  <2>1. -Clip(v) \in 0 .. Amp BY <1>1, <1>2, <1>4
  <2> DEFINE x == -Clip(v)
  <2>2. /\ Scaled(x) \in 0 .. Steps - 1
        /\ 2 * (Sub * Scaled(x) - x) <= 3 * Sub /\ 2 * (x - Sub * Scaled(x)) <= 3 * Sub
    BY <2>1, ScaledFacts
  <2>3. Encode(v) = -Scaled(x) /\ Clip(v) = -x BY <1>2, <1>3, <1>4
  <2> HIDE DEF x
  <2>4. Decode(Encode(v)) - Clip(v) = x - Sub * Scaled(x) BY <2>1, <2>2, <2>3, <1>0 DEF Decode, x
  <2>. QED BY <2>1, <2>2, <2>3, <2>4, <1>0, <1>1 DEF Abs, Codes, x
<1>5. CASE Clip(v) >= 0
  <2> DEFINE x == Clip(v)
  <2>1. x \in 0 .. Amp BY <1>1, <1>2, <1>5
  <2>2. /\ Scaled(x) \in 0 .. Steps - 1
        /\ 2 * (Sub * Scaled(x) - x) <= 3 * Sub /\ 2 * (x - Sub * Scaled(x)) <= 3 * Sub
    BY <2>1, ScaledFacts
  <2>3. Encode(v) = Scaled(x) BY <1>2, <1>3, <1>5
  <2>4. Decode(Encode(v)) - Clip(v) = Sub * Scaled(x) - x BY <2>1, <2>2, <2>3, <1>0 DEF Decode
  <2> HIDE DEF x
  <2>. QED BY <2>1, <2>2, <2>3, <2>4, <1>0, <1>1 DEF Abs, Codes
<1>. QED BY <1>2, <1>4, <1>5

-----------------------------------------------------------------------------
(* Powers of two and the length of the buffers *)

(* A set of naturals has a least element. *)
LEMMA Least ==
  ASSUME NEW T \in SUBSET Nat, T # {}
  PROVE  \E x \in T : \A y \in T : ~(y < x)
<1> DEFINE R == {ss \in Nat \X Nat : ss[1] < ss[2]}
<1>1. IsWellFoundedOn(R, Nat) BY NatLessThanWellFounded DEF OpToRel
<1> HIDE DEF R
<1>2. T \subseteq Nat OBVIOUS
<1>3. \E x \in T : \A y \in T : ~ (<<y, x>> \in R) BY <1>1, <1>2, WFMin
<1>. QED BY <1>3 DEF R

\* The subsets of k elements are finite and number 2^k.
LEMMA Subsets ==
  ASSUME NEW k \in Nat
  PROVE  /\ IsFiniteSet(1 .. k) /\ Cardinality(1 .. k) = k
         /\ IsFiniteSet(SUBSET (1 .. k)) /\ Cardinality(SUBSET (1 .. k)) = 2^k
<1>1. IsFiniteSet(1 .. k) /\ Cardinality(1 .. k) = k BY FS_Interval
<1>2. IsFiniteSet(SUBSET (1 .. k)) /\ Cardinality(SUBSET (1 .. k)) = 2^Cardinality(1 .. k)
  BY <1>1, FS_SUBSET
<1>. QED BY <1>1, <1>2

\* A power of two is a natural above its exponent.
LEMMA PowerGrows ==
  ASSUME NEW k \in Nat
  PROVE  2^k \in Nat /\ k < 2^k
<1>1. IsFiniteSet(SUBSET (1 .. k)) /\ Cardinality(SUBSET (1 .. k)) = 2^k BY Subsets
<1> DEFINE S == {{i} : i \in 1 .. k}
           f == [i \in 1 .. k |-> {i}]
<1>2. f \in Bijection(1 .. k, S)
  BY DEF Bijection, Injection, Surjection, IsInjective
<1>3. ExistsBijection(1 .. k, S) BY <1>2 DEF ExistsBijection
<1>4. IsFiniteSet(S) /\ Cardinality(S) = k BY <1>3, Subsets, FS_Bijection
<1>5. {} \notin S OBVIOUS
<1> HIDE DEF S
<1>6. IsFiniteSet(S \union {{}}) /\ Cardinality(S \union {{}}) = k + 1 BY <1>4, <1>5, FS_AddElement
<1>7. S \union {{}} \in SUBSET (SUBSET (1 .. k)) BY DEF S
<1>8. k + 1 <= 2^k BY <1>1, <1>6, <1>7, FS_Subset
<1>9. 2^k \in Nat BY <1>1, FS_CardinalityType
<1>. QED BY <1>8, <1>9

\* Adding an element doubles the subsets.
LEMMA PowerDoubles ==
  ASSUME NEW k \in Nat
  PROVE  2^(k + 1) = 2 * 2^k
<1> DEFINE S == 1 .. k
           x == k + 1
           Q == SUBSET S
           P == {A \union {x} : A \in SUBSET S}
           f == [A \in Q |-> A \union {x}]
<1>1. IsFiniteSet(Q) /\ Cardinality(Q) = 2^k BY Subsets
<1> DEFINE m == k + 1
<1>2. Cardinality(SUBSET (1 .. m)) = 2^m
  <2>1. m \in Nat OBVIOUS
  <2> HIDE DEF m
  <2>. QED BY <2>1, Subsets
<1>3. x \notin S OBVIOUS
<1>4. 1 .. k + 1 = S \union {x} OBVIOUS
<1> HIDE DEF S, x
<1>5. SUBSET (S \union {x}) = Q \union P
  <2>1. ASSUME NEW B \in SUBSET (S \union {x}) PROVE B \in Q \union P
    <3>1. CASE x \notin B BY <3>1
    <3>2. CASE x \in B
      <4>1. B \ {x} \in SUBSET S /\ B = (B \ {x}) \union {x} BY <3>2
      <4>. QED BY <4>1
    <3>. QED BY <3>1, <3>2
  <2>2. ASSUME NEW B \in Q \union P PROVE B \in SUBSET (S \union {x}) BY <2>2
  <2>. QED BY <2>1, <2>2
<1>6. f \in Bijection(Q, P)
  <2>1. f \in [Q -> P] OBVIOUS
  <2>2. ASSUME NEW A \in Q, NEW B \in Q, f[A] = f[B] PROVE A = B
    <3>1. A \union {x} = B \union {x} BY <2>2
    <3>. QED BY <3>1, <1>3
  <2>3. ASSUME NEW B \in P PROVE \E A \in Q : f[A] = B OBVIOUS
  <2>. QED BY <2>1, <2>2, <2>3 DEF Bijection, Injection, Surjection, IsInjective
<1>7. Q \intersect P = {} BY <1>3
<1> HIDE DEF Q, P, f
<1>8. ExistsBijection(Q, P) BY <1>6 DEF ExistsBijection
<1>9. IsFiniteSet(P) /\ Cardinality(P) = 2^k BY <1>1, <1>8, FS_Bijection
<1>10. Cardinality(Q \union P) = 2^k + 2^k - Cardinality({}) BY <1>1, <1>7, <1>9, FS_Union
<1>11. 2^k + 2^k - 0 = 2 * 2^k BY PowerGrows
<1>. QED BY <1>2, <1>4, <1>5, <1>10, <1>11, FS_EmptySet

\* bit_length is what its definition asks for.
LEMMA BitLengthFacts ==
  ASSUME NEW n \in Nat \ {0}
  PROVE  BitLength(n) \in 1 .. n + 1 /\ 2^(BitLength(n) - 1) <= n /\ n < 2^BitLength(n)
<1> DEFINE T == {k \in Nat : n < 2^k}
<1>1. n \in T BY PowerGrows
<1>2. PICK k \in T : \A y \in T : ~(y < k) BY <1>1, Least
<1>3. k \in Nat /\ k <= n /\ n < 2^k BY <1>1, <1>2
<1>4. k # 0
  <2>1. 2^0 = 1 OBVIOUS
  <2>2. ASSUME k = 0 PROVE n < 2^0 BY <2>2, <1>3
  <2>. QED BY <2>1, <2>2
<1>5. k - 1 \in Nat /\ k - 1 \notin T BY <1>2, <1>3, <1>4
<1>6. 2^(k - 1) <= n BY <1>5, PowerGrows
<1>7. \E j \in 1 .. n + 1 : 2^(j - 1) <= n /\ n < 2^j BY <1>3, <1>4, <1>6
<1>. QED BY <1>7 DEF BitLength

\* The buffers are as long as the least power of two that holds the frames asked for.
LEMMA LengthFacts ==
  /\ Length \in Nat \ {0}
  /\ \E k \in 0 .. Frames : Length = 2^k /\ Frames <= Length /\ Length < 2 * Frames
<1>0. Frames \in Nat \ {0} BY BuffersAssumption
<1>1. CASE Frames <= 1
  <2>1. Length = 1 /\ Frames = 1 BY <1>0, <1>1 DEF Length, next_power_of_two
  <2>2. 2^0 = 1 OBVIOUS
  <2>. QED BY <2>1, <2>2
<1>2. CASE Frames > 1
  <2> DEFINE n == Frames - 1
             k == BitLength(n)
  <2>1. n \in Nat \ {0} BY <1>0, <1>2
  <2>2. Length = 2^k BY <1>0, <1>2 DEF Length, next_power_of_two
  <2>3. k \in 1 .. n + 1 /\ 2^(k - 1) <= n /\ n < 2^k BY <2>1, BitLengthFacts
  <2> HIDE DEF k
  <2>4. k - 1 \in Nat BY <2>1, <2>3
  <2>5. 2^(k - 1 + 1) = 2 * 2^(k - 1) BY <2>4, PowerDoubles
  <2>6. k - 1 + 1 = k BY <2>3, <2>1
  <2>7. 2^k \in Nat /\ 2^(k - 1) \in Nat BY <2>3, <2>4, <2>1, PowerGrows
  <2>8. k \in 0 .. Frames /\ Frames <= 2^k /\ 2^k < 2 * Frames BY <2>1, <2>3, <2>5, <2>6, <2>7, <1>0
  <2>. QED BY <2>2, <2>7, <2>8, <1>0
<1>. QED BY <1>0, <1>1, <1>2

-----------------------------------------------------------------------------
(* Slices and the blended write *)

Buffer == [1 .. Length -> Int]

\* A function on 1 .. n is a sequence of length n.
LEMMA FunSeq == ASSUME NEW S, NEW n \in Nat, NEW f \in [1 .. n -> S]
  PROVE f \in Seq(S) /\ Len(f) = n
<1>1. f \in Seq(S) BY SeqDef
<1>2. DOMAIN f = 1 .. n OBVIOUS
<1>3. Len(f) \in Nat /\ DOMAIN f = 1 .. Len(f) BY <1>1, LenProperties
<1>. QED BY <1>1, <1>2, <1>3

\* buf[s0:s0 + n] is the samples from s0 on, n of them or as many as there are.
LEMMA SliceFacts ==
  ASSUME NEW L \in Nat, NEW b \in [1 .. L -> Int], NEW s0 \in Nat, NEW dur \in Int
  PROVE  /\ Slice(b, s0, dur) \in Seq(Int)
         /\ Len(Slice(b, s0, dur)) =
              Larger(0, Smaller(L - s0, IF dur < 0 THEN L ELSE dur))
         /\ \A i \in 1 .. Len(Slice(b, s0, dur)) : s0 + i \in 1 .. L /\ Slice(b, s0, dur)[i] = b[s0 + i]
<1>0. Len(b) = L BY FunSeq
<1> DEFINE e == IF dur < 0 THEN Len(b) ELSE Smaller(s0 + dur * Rate, Len(b))
<1>1. e \in Int /\ e <= L /\ e - s0 <= L BY <1>0 DEF Smaller, Rate
<1>2. \A i \in s0 + 1 .. e : b[i] \in Int BY <1>1
<1>3. /\ SubSeq(b, s0 + 1, e) \in Seq(Int)
      /\ Len(SubSeq(b, s0 + 1, e)) = IF s0 + 1 <= e THEN e - (s0 + 1) + 1 ELSE 0
      /\ \A i \in 1 .. e - (s0 + 1) + 1 : SubSeq(b, s0 + 1, e)[i] = b[s0 + 1 + i - 1]
  BY <1>1, <1>2, SubSeqProperties
<1>4. Slice(b, s0, dur) = SubSeq(b, s0 + 1, e) BY DEF Slice
<1>5. (IF s0 + 1 <= e THEN e - (s0 + 1) + 1 ELSE 0) = Larger(0, Smaller(L - s0, IF dur < 0 THEN L ELSE dur))
  BY <1>0, <1>1 DEF Smaller, Larger, Rate
<1> HIDE DEF e
<1>. QED BY <1>1, <1>3, <1>4, <1>5

\* The blended write changes nothing before its start nor past its source.
LEMMA ApplyFacts ==
  ASSUME NEW b \in [1 .. Length -> Int], NEW start \in Int, NEW src \in Seq(Int),
         NEW preserve \in Int, NEW mix \in Int, NEW fade \in Int
  PROVE  /\ Apply(b, start, src, preserve, mix, fade) \in [1 .. Length -> Int]
         /\ \A k \in 1 .. Length : Apply(b, start, src, preserve, mix, fade)[k] # b[k] =>
              k > start /\ k <= start + Len(src)
<1> DEFINE L == Length
<1>10. L \in Nat /\ b \in [1 .. L -> Int] BY LengthFacts
<1> HIDE DEF L
<1>0. Len(b) = L /\ L \in Nat /\ Len(src) \in Nat BY <1>10, FunSeq, LenProperties
<1> DEFINE off == IF start < 0 THEN -start ELSE 0
           at == Larger(start, 0)
           n == Smaller(Len(src) - off, Len(b) - at)
           f == Smaller(fade, n \div 2)
           one == Larger(f, 1)
           env(i) == FadeEnv(i, n, f)
           target(i) == b[at + i + 1] * preserve + src[off + i + 1] * mix
           A == [k \in DOMAIN b |-> LET i == k - 1 - at IN
        IF i \in 0 .. n - 1 THEN (b[k] * (one - env(i)) + target(i) * env(i)) \div one ELSE b[k]]
<1>1. Apply(b, start, src, preserve, mix, fade) = A BY DEF Apply
<1>2. /\ off \in Nat /\ at \in Nat /\ n \in Int /\ n <= Len(src) - off /\ n <= L - at /\ at - off = start
  <2>1. off \in Nat /\ at \in Nat /\ at - off = start BY DEF Larger
  <2> HIDE DEF off, at
  <2>2. Len(src) - off \in Int /\ Len(b) - at = L - at /\ L - at \in Int BY <1>0, <2>1
  <2>3. n \in Int /\ n <= Len(src) - off /\ n <= L - at BY <2>2 DEF Smaller
  <2>. QED BY <2>1, <2>3
<1> HIDE DEF off, at, n
<1>7. n \div 2 \in Int BY <1>2
<1>8. f \in Int /\ one \in Int /\ one > 0
  BY <1>7 DEF Larger, Smaller
<1> HIDE DEF f, one
<1>3. \A i \in 0 .. n - 1 : env(i) \in Int BY <1>2, <1>8 DEF FadeEnv
<1>4. \A i \in 0 .. n - 1 : target(i) \in Int
  <2> TAKE i \in 0 .. n - 1
  <2>1. at + i + 1 \in 1 .. L /\ off + i + 1 \in 1 .. Len(src) BY <1>0, <1>2
  <2>2. b[at + i + 1] \in Int /\ src[off + i + 1] \in Int BY <2>1, <1>10, ElementOfSeq
  <2>. QED BY <2>2
<1> HIDE DEF env, target
<1>11. DOMAIN b = 1 .. L BY <1>10
<1>5. ASSUME NEW k \in 1 .. L
      PROVE A[k] \in Int /\ (A[k] # b[k] => k > start /\ k <= start + Len(src))
  <2>1. CASE k - 1 - at \in 0 .. n - 1
    <3>1. b[k] \in Int /\ target(k - 1 - at) \in Int /\ env(k - 1 - at) \in Int
      BY <2>1, <1>3, <1>4, <1>10
    <3>2. (b[k] * (one - env(k - 1 - at)) + target(k - 1 - at) * env(k - 1 - at)) \div one \in Int
      BY <1>8, <3>1
    <3>3. k > start /\ k <= start + Len(src) BY <1>2, <1>0, <2>1
    <3>. QED BY <2>1, <3>2, <3>3, <1>11
  <2>2. CASE k - 1 - at \notin 0 .. n - 1
    BY <2>2, <1>10, <1>11
  <2>. QED BY <2>1, <2>2
<1>6. A \in [1 .. L -> Int] BY <1>5, <1>11
<1>. QED BY <1>1, <1>5, <1>6 DEF L

-----------------------------------------------------------------------------
(* What calls take *)

\* What is blended in; the time a call names, in frames; what a thread has to hold before
\* it blends.
Signal == Seq(Int)
Span(c) == IF c.op = "read" THEN Larger(WavRate, Rate) ELSE Rate
Held(c, h) ==
  /\ c.op = "read" => \E n \in 1 .. 2 : h \in WavFile(n)
  /\ c.op = "copy" => h \in Signal /\ (c.dur >= 0 => Len(h) <= c.dur)

\* The fields of a WAV file of n channels.
LEMMA WavFacts ==
  ASSUME NEW n \in 1 .. 2, NEW f \in WavFile(n)
  PROVE  /\ f.rate \in {WavRate, Rate} /\ f.rate \in Nat /\ f.channels = n
         /\ f.frames \in Seq([1 .. n -> Codes]) /\ Len(f.frames) \in Nat
         /\ f = [rate |-> f.rate, channels |-> f.channels, frames |-> f.frames]
<1>1. /\ f.rate \in {WavRate, Rate} /\ f.channels = n /\ f.frames \in Seq([1 .. n -> Codes])
      /\ f = [rate |-> f.rate, channels |-> f.channels, frames |-> f.frames]
  BY DEF WavFile
<1>. QED BY <1>1, BuffersAssumption, LenProperties DEF Rate

\* A channel is brought into the range of the file.
LEMMA ColumnFacts ==
  ASSUME NEW n \in 1 .. 2, NEW f \in WavFile(n), NEW ch \in Int
  PROVE  Column(ch, f) \in 1 .. n
BY WavFacts DEF Column, Smaller, Larger

\* A channel extracted is a signal of the length asked for.
LEMMA ExtractFacts ==
  ASSUME NEW n \in 1 .. 2, NEW f \in WavFile(n), NEW col \in 1 .. n, NEW s0 \in Int, NEW m \in Nat
  PROVE  Extract(f, col, s0, m) \in Signal /\ Len(Extract(f, col, s0, m)) = m
<1>1. Extract(f, col, s0, m) \in [1 .. m -> Int]
  <2> SUFFICES ASSUME NEW i \in 1 .. m
               PROVE (IF s0 + i \in DOMAIN f.frames THEN Decode(f.frames[s0 + i][col]) ELSE 0) \in Int
    BY DEF Extract
  <2>1. CASE s0 + i \in DOMAIN f.frames
    <3>1. s0 + i \in 1 .. Len(f.frames) BY <2>1, WavFacts, LenProperties
    <3>2. f.frames[s0 + i] \in [1 .. n -> Codes] BY <3>1, WavFacts, ElementOfSeq
    <3>3. f.frames[s0 + i][col] \in Int BY <3>2, BuffersAssumption DEF Codes
    <3>. QED BY <2>1, <3>3, BuffersAssumption DEF Decode
  <2>2. CASE s0 + i \notin DOMAIN f.frames BY <2>2
  <2>. QED BY <2>1, <2>2
<1>. QED BY <1>1, FunSeq DEF Signal

\* ... and no longer than the time asked for at the file's rate.
LEMMA ChannelFacts ==
  ASSUME NEW n \in 1 .. 2, NEW f \in WavFile(n), NEW col \in 1 .. n, NEW start \in Int, NEW dur \in Int
  PROVE  /\ _channel(f, col, start, dur) \in Signal
         /\ dur >= 0 => Len(_channel(f, col, start, dur)) <= dur * Larger(WavRate, Rate)
<1> DEFINE s0 == start * f.rate
           avail == Larger(Len(f.frames) - s0, 0)
           m == IF dur < 0 THEN avail ELSE Smaller(dur * f.rate, avail)
<1>1. f.rate \in Nat /\ f.rate <= Larger(WavRate, Rate) /\ Len(f.frames) \in Nat /\ Larger(WavRate, Rate) \in Nat
  <2>1. f.rate \in {WavRate, Rate} /\ f.rate \in Nat /\ Len(f.frames) \in Nat BY WavFacts
  <2>2. WavRate \in Nat /\ Rate \in Nat BY BuffersAssumption DEF Rate
  <2>. QED BY <2>1, <2>2 DEF Larger
<1>2. s0 \in Int BY <1>1
<1>3. avail \in Nat BY <1>1, <1>2 DEF Larger
<1>4. _channel(f, col, start, dur) = Extract(f, col, s0, m) BY DEF _channel
<1> HIDE DEF s0, avail
<1>5. dur >= 0 => dur * f.rate \in Nat /\ dur * f.rate <= dur * Larger(WavRate, Rate) BY <1>1
<1>6. m \in Nat /\ (dur >= 0 => m <= dur * Larger(WavRate, Rate)) BY <1>1, <1>3, <1>5 DEF Smaller
<1> HIDE DEF m
<1>. QED BY <1>2, <1>4, <1>6, ExtractFacts

\* Silence is a signal.
LEMMA SilenceFacts ==
  ASSUME NEW n \in Int
  PROVE  Silence(n) \in Signal /\ Len(Silence(n)) = Larger(n, 0)
<1>1. Larger(n, 0) \in Nat BY DEF Larger
<1>2. Silence(n) \in [1 .. Larger(n, 0) -> Int] BY DEF Silence
<1>. QED BY <1>1, <1>2, FunSeq DEF Signal

\* A signal reversed is a signal of the same length.
LEMMA BackwardsFacts ==
  ASSUME NEW s \in Signal
  PROVE  /\ Backwards(s) \in Signal /\ Len(Backwards(s)) = Len(s)
         /\ \A i \in 1 .. Len(s) : Backwards(s)[i] = s[Len(s) + 1 - i]
<1>1. Len(s) \in Nat /\ DOMAIN s = 1 .. Len(s) BY LenProperties DEF Signal
<1>2. \A i \in 1 .. Len(s) : Len(s) + 1 - i \in 1 .. Len(s) /\ s[Len(s) + 1 - i] \in Int
  BY <1>1, ElementOfSeq DEF Signal
<1>3. Backwards(s) \in [1 .. Len(s) -> Int] BY <1>1, <1>2 DEF Backwards
<1>. QED BY <1>1, <1>3, FunSeq DEF Signal, Backwards

\* What a call names.
LEMMA CallFacts ==
  ASSUME NEW c \in Call
  PROVE  /\ c.op \in {"read", "write", "clear", "copy"} /\ c.ch_dst \in 1 .. 2 /\ c.stereo \in BOOLEAN
         /\ c.reverse \in BOOLEAN /\ c.dur \in Int /\ c.start_src \in Int /\ c.start_dst \in Int
         /\ c.preserve \in Int /\ c.fade \in Int /\ c.ch_src \in Int
         /\ c.op = "read" => c.fade = 0
         /\ c.op \in {"write", "copy"} => c.start_src \in Nat
         /\ c.op = "copy" => c.ch_src \in 1 .. 2
         /\ Mix(c) \in Int /\ c.start_dst * Rate = c.start_dst /\ c.dur * Rate = c.dur
         /\ c.start_src * Rate = c.start_src
BY DEF Call, Mix, Rate

\* What a call blends in is a signal, no longer than the time it names.
LEMMA SourceFacts ==
  ASSUME NEW c \in Call, c.op # "write", NEW h, Held(c, h), NEW ch \in 1 .. 2
  PROVE  Source(c, h, ch) \in Signal /\ (c.dur >= 0 => Len(Source(c, h, ch)) <= c.dur * Span(c))
<1>1. CASE c.op = "read"
  <2>1. PICK n \in 1 .. 2 : h \in WavFile(n) BY <1>1 DEF Held
  <2> DEFINE col == Column(IF c.stereo THEN ch ELSE c.ch_src, h)
  <2>2. col \in 1 .. n BY <2>1, ColumnFacts, CallFacts
  <2>3. Source(c, h, ch) = _channel(h, col, c.start_src, c.dur) BY <1>1 DEF Source
  <2> HIDE DEF col
  <2>. QED BY <1>1, <2>1, <2>2, <2>3, ChannelFacts, CallFacts DEF Span
<1>2. CASE c.op = "clear"
  <2> DEFINE n == IF c.dur < 0 THEN Length - c.start_dst ELSE c.dur * Rate
  <2>1. n \in Int /\ (c.dur >= 0 => n = c.dur * Rate /\ n >= 0) BY CallFacts, LengthFacts
  <2>2. Source(c, h, ch) = Silence(n) BY <1>2 DEF Source
  <2> HIDE DEF n
  <2>. QED BY <1>2, <2>1, <2>2, SilenceFacts DEF Span, Larger
<1>3. CASE c.op = "copy"
  <2>1. h \in Signal /\ (c.dur >= 0 => Len(h) <= c.dur) BY <1>3 DEF Held
  <2>2. Source(c, h, ch) = IF c.reverse THEN Backwards(h) ELSE h BY <1>3 DEF Source
  <2>3. Source(c, h, ch) \in Signal /\ Len(Source(c, h, ch)) = Len(h) BY <2>1, <2>2, BackwardsFacts
  <2>. QED BY <1>3, <2>1, <2>3, CallFacts DEF Span
<1>. QED BY <1>1, <1>2, <1>3, CallFacts

-----------------------------------------------------------------------------
(* Scripts *)

\* What can be left of the script of a call.
Rest(c) ==
  LET d == c.ch_dst
  IN  CASE c.op = "read" /\ ~c.stereo -> {<<Step("load", 0), Step("blend", d)>>, <<Step("blend", d)>>}
        [] c.op = "read" /\ c.stereo ->
             {<<Step("load", 0), Step("blend", 1), Step("blend", 2)>>,
              <<Step("blend", 1), Step("blend", 2)>>, <<Step("blend", 2)>>}
        [] c.op = "write" /\ ~c.stereo ->
             {<<Step("slice", d), Step("open", 0), Step("put", 0)>>,
              <<Step("open", 0), Step("put", 0)>>, <<Step("put", 0)>>}
        [] c.op = "write" /\ c.stereo ->
             {<<Step("slice", 1), Step("slice", 2), Step("open", 0), Step("put", 0)>>,
              <<Step("slice", 2), Step("open", 0), Step("put", 0)>>,
              <<Step("open", 0), Step("put", 0)>>, <<Step("put", 0)>>}
        [] c.op = "clear" /\ ~c.stereo -> {<<Step("blend", d)>>}
        [] c.op = "clear" /\ c.stereo -> {<<Step("blend", 1), Step("blend", 2)>>, <<Step("blend", 2)>>}
        [] c.op = "copy" /\ ~c.stereo ->
             {<<Step("take", c.ch_src), Step("blend", d)>>, <<Step("blend", d)>>}
        [] c.op = "copy" /\ c.stereo ->
             {<<Step("take", 1), Step("blend", 1), Step("take", 2), Step("blend", 2)>>,
              <<Step("blend", 1), Step("take", 2), Step("blend", 2)>>,
              <<Step("take", 2), Step("blend", 2)>>, <<Step("blend", 2)>>}

\* The buffers a call writes into.
LEMMA DstFacts ==
  ASSUME NEW c \in Call
  PROVE  /\ c.stereo => Dst(c) = <<1, 2>> /\ DOMAIN Dst(c) = {1, 2} /\ Dst(c)[1] = 1 /\ Dst(c)[2] = 2
                        /\ Len(Dst(c)) = 2 /\ Range(Dst(c)) = {1, 2}
         /\ ~c.stereo => Dst(c) = <<c.ch_dst>> /\ DOMAIN Dst(c) = {1} /\ Dst(c)[1] = c.ch_dst
                         /\ Len(Dst(c)) = 1 /\ Range(Dst(c)) = {c.ch_dst}
         /\ Range(Dst(c)) \subseteq 1 .. 2
         /\ \A k \in DOMAIN Dst(c) : Dst(c)[k] \in Range(Dst(c))
         /\ Len(Dst(c)) \in 1 .. 2 /\ DOMAIN Dst(c) = 1 .. Len(Dst(c))
<1>1. ASSUME c.stereo
      PROVE  Dst(c) = <<1, 2>> /\ DOMAIN Dst(c) = {1, 2} /\ Dst(c)[1] = 1 /\ Dst(c)[2] = 2
             /\ Len(Dst(c)) = 2 /\ Range(Dst(c)) = {1, 2}
  BY <1>1 DEF Dst, Range
<1>2. ASSUME ~c.stereo
      PROVE  Dst(c) = <<c.ch_dst>> /\ DOMAIN Dst(c) = {1} /\ Dst(c)[1] = c.ch_dst
             /\ Len(Dst(c)) = 1 /\ Range(Dst(c)) = {c.ch_dst}
  BY <1>2 DEF Dst, Range
<1>3. c.ch_dst \in 1 .. 2 BY CallFacts
<1>4. 1 .. 1 = {1} /\ 1 .. 2 = {1, 2} OBVIOUS
<1>5. CASE c.stereo BY <1>1, <1>4, <1>5 DEF Range
<1>6. CASE ~c.stereo BY <1>2, <1>3, <1>4, <1>6 DEF Range
<1>. QED BY <1>5, <1>6

\* A call begins with its whole script.
LEMMA ScriptFacts ==
  ASSUME NEW c \in Call
  PROVE  /\ Script(c) \in Rest(c) /\ Script(c) # <<>>
         /\ Step("load", 0) \in Range(Script(c)) <=> c.op = "read"
         /\ \A b \in 1 .. 2 : Step("blend", b) \in Range(Script(c)) <=> c.op # "write" /\ b \in Range(Dst(c))
         /\ \A b \in Range(Dst(c)) : c.op = "copy" => Step("take", Src(c, b)) \in Range(Script(c))
         /\ \A b \in Range(Dst(c)) : c.op = "write" => Step("slice", b) \in Range(Script(c))
         /\ Step("put", 0) \in Range(Script(c)) <=> c.op = "write"
         /\ Step("open", 0) \in Range(Script(c)) <=> c.op = "write"
<1>0. c.op \in {"read", "write", "clear", "copy"} /\ c.ch_dst \in 1 .. 2 BY CallFacts
<1>1. CASE c.stereo
  <2>0. Range(Dst(c)) = {1, 2} BY <1>1, DstFacts
  <2>1. CASE c.op = "read" BY <1>1, <2>0, <2>1 DEF Script, Rest, Step, Range, Src
  <2>2. CASE c.op = "write" BY <1>1, <2>0, <2>2 DEF Script, Rest, Step, Range, Src
  <2>3. CASE c.op = "clear" BY <1>1, <2>0, <2>3 DEF Script, Rest, Step, Range, Src
  <2>4. CASE c.op = "copy" BY <1>1, <2>0, <2>4 DEF Script, Rest, Step, Range, Src
  <2>. QED BY <1>0, <2>1, <2>2, <2>3, <2>4
<1>2. CASE ~c.stereo
  <2>0. Range(Dst(c)) = {c.ch_dst} BY <1>2, DstFacts
  <2>1. CASE c.op = "read" BY <1>0, <1>2, <2>0, <2>1 DEF Script, Rest, Step, Range, Src
  <2>2. CASE c.op = "write" BY <1>0, <1>2, <2>0, <2>2 DEF Script, Rest, Step, Range, Src
  <2>3. CASE c.op = "clear" BY <1>0, <1>2, <2>0, <2>3 DEF Script, Rest, Step, Range, Src
  <2>4. CASE c.op = "copy" BY <1>0, <1>2, <2>0, <2>4 DEF Script, Rest, Step, Range, Src
  <2>. QED BY <1>0, <2>1, <2>2, <2>3, <2>4
<1>. QED BY <1>1, <1>2

\* Head, tail and members of the tuples that scripts are.
LEMMA Tuples ==
  /\ \A a : Head(<<a>>) = a /\ Tail(<<a>>) = <<>> /\ Range(<<a>>) = {a}
  /\ \A a, b : Head(<<a, b>>) = a /\ Tail(<<a, b>>) = <<b>> /\ Range(<<a, b>>) = {a, b}
  /\ \A a, b, c : /\ Head(<<a, b, c>>) = a /\ Tail(<<a, b, c>>) = <<b, c>>
                  /\ Range(<<a, b, c>>) = {a, b, c}
  /\ \A a, b, c, d : /\ Head(<<a, b, c, d>>) = a /\ Tail(<<a, b, c, d>>) = <<b, c, d>>
                     /\ Range(<<a, b, c, d>>) = {a, b, c, d}
  /\ Range(<<>>) = {}
BY DEF Range

\* The fields of a step.
LEMMA StepIs ==
  \A d, c : Step(d, c).do = d /\ Step(d, c).ch = c
BY DEF Step

\* A step is known by its fields.
LEMMA StepsDiffer ==
  ASSUME NEW d1, NEW c1, NEW d2, NEW c2, Step(d1, c1) = Step(d2, c2)
  PROVE  d1 = d2 /\ c1 = c2
BY StepIs

\* The head of s may be taken, and leaves a rest; s has only steps of such a call.
Leaves(c, s) ==
  /\ s # <<>> /\ Tail(s) \in Rest(c) \union {<<>>}
  /\ Head(s) \in Range(s) /\ Range(Tail(s)) = Range(s) \ {Head(s)}
  /\ Step("load", 0) \in Range(s) => c.op = "read"
  /\ \A b \in 1 .. 2 : Step("blend", b) \in Range(s) => c.op # "write" /\ b \in Range(Dst(c))
  /\ \A x : Step("take", x) \in Range(s) => c.op = "copy"
  /\ \A x : Step("slice", x) \in Range(s) => c.op = "write"
  /\ Step("put", 0) \in Range(s) <=> c.op = "write"
  /\ Step("open", 0) \in Range(s) => c.op = "write"

\* What is before and behind the head of s.
Order(c, s) ==
  LET h == Head(s)
  IN  /\ h.do = "load" => h = Step("load", 0) /\ c.op = "read"
      /\ h.do = "take" => /\ c.op = "copy"
                          /\ \E b \in Range(Dst(c)) :
                               /\ h = Step("take", Src(c, b)) /\ Step("blend", b) \in Range(s)
                               /\ \A x \in 1 .. 2 : x # b /\ Step("blend", x) \in Range(s) =>
                                    Step("take", Src(c, x)) \in Range(Tail(s))
      /\ h.do = "blend" => /\ h.ch \in Range(Dst(c)) /\ h = Step("blend", h.ch) /\ c.op # "write"
                           /\ Step("load", 0) \notin Range(s) /\ Step("take", Src(c, h.ch)) \notin Range(s)
      /\ h.do = "slice" => /\ c.op = "write"
                           /\ \E k \in DOMAIN Dst(c) :
                                /\ h = Step("slice", Dst(c)[k])
                                /\ {j \in DOMAIN Dst(c) : Step("slice", Dst(c)[j]) \notin Range(s)} = 1 .. k - 1
                                /\ {j \in DOMAIN Dst(c) : Step("slice", Dst(c)[j]) \notin Range(Tail(s))} = 1 .. k
      /\ h.do = "open" => /\ h = Step("open", 0) /\ c.op = "write"
                          /\ \A k \in DOMAIN Dst(c) : Step("slice", Dst(c)[k]) \notin Range(s)
      /\ h.do = "put" => /\ h = Step("put", 0) /\ c.op = "write" /\ Step("open", 0) \notin Range(s)
                         /\ \A k \in DOMAIN Dst(c) : Step("slice", Dst(c)[k]) \notin Range(s)

\* Whatever is left of a script, its head may be taken.
LEMMA RestFacts ==
  ASSUME NEW c \in Call, NEW s \in Rest(c)
  PROVE  Leaves(c, s) /\ Order(c, s)
<1> DEFINE load == Step("load", 0)
           take(b) == Step("take", b)
           blend(b) == Step("blend", b)
           slice(b) == Step("slice", b)
           open == Step("open", 0)
           put == Step("put", 0)
           d == c.ch_dst
<1>0. c.op \in {"read", "write", "clear", "copy"} /\ c.ch_dst \in 1 .. 2 BY CallFacts
<1>1. CASE c.stereo
  <2>0. Range(Dst(c)) = {1, 2} /\ DOMAIN Dst(c) = {1, 2} /\ Dst(c)[1] = 1 /\ Dst(c)[2] = 2 BY <1>1, DstFacts
  <2>1. CASE c.op = "read"
    <3>0. Rest(c) =
           {<<load, blend(1), blend(2)>>,
            <<blend(1), blend(2)>>,
            <<blend(2)>>}
      BY <1>1, <2>1 DEF Rest
    <3>1. CASE s = <<load, blend(1), blend(2)>>
      <4>1. /\ Head(s) = load /\ Tail(s) = <<blend(1), blend(2)>> /\ s # <<>>
            /\ Range(s) = {load, blend(1), blend(2)} /\ Range(Tail(s)) = {blend(1), blend(2)}
        BY <3>1, Tuples
      <4>2. Leaves(c, s) BY <1>0, <2>0, <2>1, <3>0, <4>1, StepsDiffer DEF Leaves
      <4>3. Order(c, s) BY <1>0, <1>1, <2>0, <2>1, <4>1, StepIs, StepsDiffer DEF Order, Src
      <4>. QED BY <4>2, <4>3
    <3>2. CASE s = <<blend(1), blend(2)>>
      <4>1. /\ Head(s) = blend(1) /\ Tail(s) = <<blend(2)>> /\ s # <<>>
            /\ Range(s) = {blend(1), blend(2)} /\ Range(Tail(s)) = {blend(2)}
        BY <3>2, Tuples
      <4>2. Leaves(c, s) BY <1>0, <2>0, <2>1, <3>0, <4>1, StepsDiffer DEF Leaves
      <4>3. Order(c, s) BY <1>0, <1>1, <2>0, <2>1, <4>1, StepIs, StepsDiffer DEF Order, Src
      <4>. QED BY <4>2, <4>3
    <3>3. CASE s = <<blend(2)>>
      <4>1. /\ Head(s) = blend(2) /\ Tail(s) = <<>> /\ s # <<>>
            /\ Range(s) = {blend(2)} /\ Range(Tail(s)) = {}
        BY <3>3, Tuples
      <4>2. Leaves(c, s) BY <1>0, <2>0, <2>1, <3>0, <4>1, StepsDiffer DEF Leaves
      <4>3. Order(c, s) BY <1>0, <1>1, <2>0, <2>1, <4>1, StepIs, StepsDiffer DEF Order, Src
      <4>. QED BY <4>2, <4>3
    <3>. QED BY <3>0, <3>1, <3>2, <3>3
  <2>2. CASE c.op = "write"
    <3>0. Rest(c) =
           {<<slice(1), slice(2), open, put>>,
            <<slice(2), open, put>>,
            <<open, put>>,
            <<put>>}
      BY <1>1, <2>2 DEF Rest
    <3>1. CASE s = <<slice(1), slice(2), open, put>>
      <4>1. /\ Head(s) = slice(1) /\ Tail(s) = <<slice(2), open, put>> /\ s # <<>>
            /\ Range(s) = {slice(1), slice(2), open, put} /\ Range(Tail(s)) = {slice(2), open, put}
        BY <3>1, Tuples
      <4>2. Leaves(c, s) BY <1>0, <2>0, <2>2, <3>0, <4>1, StepsDiffer DEF Leaves
      <4>3. Order(c, s) BY <1>0, <1>1, <2>0, <2>2, <4>1, StepIs, StepsDiffer DEF Order, Src
      <4>. QED BY <4>2, <4>3
    <3>2. CASE s = <<slice(2), open, put>>
      <4>1. /\ Head(s) = slice(2) /\ Tail(s) = <<open, put>> /\ s # <<>>
            /\ Range(s) = {slice(2), open, put} /\ Range(Tail(s)) = {open, put}
        BY <3>2, Tuples
      <4>2. Leaves(c, s) BY <1>0, <2>0, <2>2, <3>0, <4>1, StepsDiffer DEF Leaves
      <4>3. Order(c, s) BY <1>0, <1>1, <2>0, <2>2, <4>1, StepIs, StepsDiffer DEF Order, Src
      <4>. QED BY <4>2, <4>3
    <3>3. CASE s = <<open, put>>
      <4>1. /\ Head(s) = open /\ Tail(s) = <<put>> /\ s # <<>>
            /\ Range(s) = {open, put} /\ Range(Tail(s)) = {put}
        BY <3>3, Tuples
      <4>2. Leaves(c, s) BY <1>0, <2>0, <2>2, <3>0, <4>1, StepsDiffer DEF Leaves
      <4>3. Order(c, s) BY <1>0, <1>1, <2>0, <2>2, <4>1, StepIs, StepsDiffer DEF Order, Src
      <4>. QED BY <4>2, <4>3
    <3>4. CASE s = <<put>>
      <4>1. /\ Head(s) = put /\ Tail(s) = <<>> /\ s # <<>>
            /\ Range(s) = {put} /\ Range(Tail(s)) = {}
        BY <3>4, Tuples
      <4>2. Leaves(c, s) BY <1>0, <2>0, <2>2, <3>0, <4>1, StepsDiffer DEF Leaves
      <4>3. Order(c, s) BY <1>0, <1>1, <2>0, <2>2, <4>1, StepIs, StepsDiffer DEF Order, Src
      <4>. QED BY <4>2, <4>3
    <3>. QED BY <3>0, <3>1, <3>2, <3>3, <3>4
  <2>3. CASE c.op = "clear"
    <3>0. Rest(c) =
           {<<blend(1), blend(2)>>,
            <<blend(2)>>}
      BY <1>1, <2>3 DEF Rest
    <3>1. CASE s = <<blend(1), blend(2)>>
      <4>1. /\ Head(s) = blend(1) /\ Tail(s) = <<blend(2)>> /\ s # <<>>
            /\ Range(s) = {blend(1), blend(2)} /\ Range(Tail(s)) = {blend(2)}
        BY <3>1, Tuples
      <4>2. Leaves(c, s) BY <1>0, <2>0, <2>3, <3>0, <4>1, StepsDiffer DEF Leaves
      <4>3. Order(c, s) BY <1>0, <1>1, <2>0, <2>3, <4>1, StepIs, StepsDiffer DEF Order, Src
      <4>. QED BY <4>2, <4>3
    <3>2. CASE s = <<blend(2)>>
      <4>1. /\ Head(s) = blend(2) /\ Tail(s) = <<>> /\ s # <<>>
            /\ Range(s) = {blend(2)} /\ Range(Tail(s)) = {}
        BY <3>2, Tuples
      <4>2. Leaves(c, s) BY <1>0, <2>0, <2>3, <3>0, <4>1, StepsDiffer DEF Leaves
      <4>3. Order(c, s) BY <1>0, <1>1, <2>0, <2>3, <4>1, StepIs, StepsDiffer DEF Order, Src
      <4>. QED BY <4>2, <4>3
    <3>. QED BY <3>0, <3>1, <3>2
  <2>4. CASE c.op = "copy"
    <3>0. Rest(c) =
           {<<take(1), blend(1), take(2), blend(2)>>,
            <<blend(1), take(2), blend(2)>>,
            <<take(2), blend(2)>>,
            <<blend(2)>>}
      BY <1>1, <2>4 DEF Rest
    <3>1. CASE s = <<take(1), blend(1), take(2), blend(2)>>
      <4>1. /\ Head(s) = take(1) /\ Tail(s) = <<blend(1), take(2), blend(2)>> /\ s # <<>>
            /\ Range(s) = {take(1), blend(1), take(2), blend(2)} /\ Range(Tail(s)) = {blend(1), take(2), blend(2)}
        BY <3>1, Tuples
      <4>2. Leaves(c, s) BY <1>0, <2>0, <2>4, <3>0, <4>1, StepsDiffer DEF Leaves
      <4>3. Order(c, s) BY <1>0, <1>1, <2>0, <2>4, <4>1, StepIs, StepsDiffer DEF Order, Src
      <4>. QED BY <4>2, <4>3
    <3>2. CASE s = <<blend(1), take(2), blend(2)>>
      <4>1. /\ Head(s) = blend(1) /\ Tail(s) = <<take(2), blend(2)>> /\ s # <<>>
            /\ Range(s) = {blend(1), take(2), blend(2)} /\ Range(Tail(s)) = {take(2), blend(2)}
        BY <3>2, Tuples
      <4>2. Leaves(c, s) BY <1>0, <2>0, <2>4, <3>0, <4>1, StepsDiffer DEF Leaves
      <4>3. Order(c, s) BY <1>0, <1>1, <2>0, <2>4, <4>1, StepIs, StepsDiffer DEF Order, Src
      <4>. QED BY <4>2, <4>3
    <3>3. CASE s = <<take(2), blend(2)>>
      <4>1. /\ Head(s) = take(2) /\ Tail(s) = <<blend(2)>> /\ s # <<>>
            /\ Range(s) = {take(2), blend(2)} /\ Range(Tail(s)) = {blend(2)}
        BY <3>3, Tuples
      <4>2. Leaves(c, s) BY <1>0, <2>0, <2>4, <3>0, <4>1, StepsDiffer DEF Leaves
      <4>3. Order(c, s) BY <1>0, <1>1, <2>0, <2>4, <4>1, StepIs, StepsDiffer DEF Order, Src
      <4>. QED BY <4>2, <4>3
    <3>4. CASE s = <<blend(2)>>
      <4>1. /\ Head(s) = blend(2) /\ Tail(s) = <<>> /\ s # <<>>
            /\ Range(s) = {blend(2)} /\ Range(Tail(s)) = {}
        BY <3>4, Tuples
      <4>2. Leaves(c, s) BY <1>0, <2>0, <2>4, <3>0, <4>1, StepsDiffer DEF Leaves
      <4>3. Order(c, s) BY <1>0, <1>1, <2>0, <2>4, <4>1, StepIs, StepsDiffer DEF Order, Src
      <4>. QED BY <4>2, <4>3
    <3>. QED BY <3>0, <3>1, <3>2, <3>3, <3>4
  <2>. QED BY <1>0, <2>1, <2>2, <2>3, <2>4
<1>2. CASE ~c.stereo
  <2>0. Range(Dst(c)) = {c.ch_dst} /\ DOMAIN Dst(c) = {1} /\ Dst(c)[1] = c.ch_dst BY <1>2, DstFacts
  <2>1. CASE c.op = "read"
    <3>0. Rest(c) =
           {<<load, blend(d)>>,
            <<blend(d)>>}
      BY <1>2, <2>1 DEF Rest
    <3>1. CASE s = <<load, blend(d)>>
      <4>1. /\ Head(s) = load /\ Tail(s) = <<blend(d)>> /\ s # <<>>
            /\ Range(s) = {load, blend(d)} /\ Range(Tail(s)) = {blend(d)}
        BY <3>1, Tuples
      <4>2. Leaves(c, s) BY <1>0, <2>0, <2>1, <3>0, <4>1, StepsDiffer DEF Leaves
      <4>3. Order(c, s) BY <1>0, <1>2, <2>0, <2>1, <4>1, StepIs, StepsDiffer DEF Order, Src
      <4>. QED BY <4>2, <4>3
    <3>2. CASE s = <<blend(d)>>
      <4>1. /\ Head(s) = blend(d) /\ Tail(s) = <<>> /\ s # <<>>
            /\ Range(s) = {blend(d)} /\ Range(Tail(s)) = {}
        BY <3>2, Tuples
      <4>2. Leaves(c, s) BY <1>0, <2>0, <2>1, <3>0, <4>1, StepsDiffer DEF Leaves
      <4>3. Order(c, s) BY <1>0, <1>2, <2>0, <2>1, <4>1, StepIs, StepsDiffer DEF Order, Src
      <4>. QED BY <4>2, <4>3
    <3>. QED BY <3>0, <3>1, <3>2
  <2>2. CASE c.op = "write"
    <3>0. Rest(c) =
           {<<slice(d), open, put>>,
            <<open, put>>,
            <<put>>}
      BY <1>2, <2>2 DEF Rest
    <3>1. CASE s = <<slice(d), open, put>>
      <4>1. /\ Head(s) = slice(d) /\ Tail(s) = <<open, put>> /\ s # <<>>
            /\ Range(s) = {slice(d), open, put} /\ Range(Tail(s)) = {open, put}
        BY <3>1, Tuples
      <4>2. Leaves(c, s) BY <1>0, <2>0, <2>2, <3>0, <4>1, StepsDiffer DEF Leaves
      <4>3. Order(c, s) BY <1>0, <1>2, <2>0, <2>2, <4>1, StepIs, StepsDiffer DEF Order, Src
      <4>. QED BY <4>2, <4>3
    <3>2. CASE s = <<open, put>>
      <4>1. /\ Head(s) = open /\ Tail(s) = <<put>> /\ s # <<>>
            /\ Range(s) = {open, put} /\ Range(Tail(s)) = {put}
        BY <3>2, Tuples
      <4>2. Leaves(c, s) BY <1>0, <2>0, <2>2, <3>0, <4>1, StepsDiffer DEF Leaves
      <4>3. Order(c, s) BY <1>0, <1>2, <2>0, <2>2, <4>1, StepIs, StepsDiffer DEF Order, Src
      <4>. QED BY <4>2, <4>3
    <3>3. CASE s = <<put>>
      <4>1. /\ Head(s) = put /\ Tail(s) = <<>> /\ s # <<>>
            /\ Range(s) = {put} /\ Range(Tail(s)) = {}
        BY <3>3, Tuples
      <4>2. Leaves(c, s) BY <1>0, <2>0, <2>2, <3>0, <4>1, StepsDiffer DEF Leaves
      <4>3. Order(c, s) BY <1>0, <1>2, <2>0, <2>2, <4>1, StepIs, StepsDiffer DEF Order, Src
      <4>. QED BY <4>2, <4>3
    <3>. QED BY <3>0, <3>1, <3>2, <3>3
  <2>3. CASE c.op = "clear"
    <3>0. Rest(c) =
           {<<blend(d)>>}
      BY <1>2, <2>3 DEF Rest
    <3>1. CASE s = <<blend(d)>>
      <4>1. /\ Head(s) = blend(d) /\ Tail(s) = <<>> /\ s # <<>>
            /\ Range(s) = {blend(d)} /\ Range(Tail(s)) = {}
        BY <3>1, Tuples
      <4>2. Leaves(c, s) BY <1>0, <2>0, <2>3, <3>0, <4>1, StepsDiffer DEF Leaves
      <4>3. Order(c, s) BY <1>0, <1>2, <2>0, <2>3, <4>1, StepIs, StepsDiffer DEF Order, Src
      <4>. QED BY <4>2, <4>3
    <3>. QED BY <3>0, <3>1
  <2>4. CASE c.op = "copy"
    <3>0. Rest(c) =
           {<<take(c.ch_src), blend(d)>>,
            <<blend(d)>>}
      BY <1>2, <2>4 DEF Rest
    <3>1. CASE s = <<take(c.ch_src), blend(d)>>
      <4>1. /\ Head(s) = take(c.ch_src) /\ Tail(s) = <<blend(d)>> /\ s # <<>>
            /\ Range(s) = {take(c.ch_src), blend(d)} /\ Range(Tail(s)) = {blend(d)}
        BY <3>1, Tuples
      <4>2. Leaves(c, s) BY <1>0, <2>0, <2>4, <3>0, <4>1, StepsDiffer DEF Leaves
      <4>3. Order(c, s) BY <1>0, <1>2, <2>0, <2>4, <4>1, StepIs, StepsDiffer DEF Order, Src
      <4>. QED BY <4>2, <4>3
    <3>2. CASE s = <<blend(d)>>
      <4>1. /\ Head(s) = blend(d) /\ Tail(s) = <<>> /\ s # <<>>
            /\ Range(s) = {blend(d)} /\ Range(Tail(s)) = {}
        BY <3>2, Tuples
      <4>2. Leaves(c, s) BY <1>0, <2>0, <2>4, <3>0, <4>1, StepsDiffer DEF Leaves
      <4>3. Order(c, s) BY <1>0, <1>2, <2>0, <2>4, <4>1, StepIs, StepsDiffer DEF Order, Src
      <4>. QED BY <4>2, <4>3
    <3>. QED BY <3>0, <3>1, <3>2
  <2>. QED BY <1>0, <2>1, <2>2, <2>3, <2>4
<1>. QED BY <1>1, <1>2

-----------------------------------------------------------------------------
(* The standalone server makes the same blends *)

\* What a call takes to blend into ch, of buffers bs and file f.
Whole(c, bs, f, ch) ==
  CASE c.op = "read" -> f
    [] c.op = "copy" -> Slice(bs[Src(c, ch)], c.start_src, c.dur)
    [] OTHER -> <<>>
\* One blend.
Blended(c, b, h, ch) == Apply(b, c.start_dst * Rate, Source(c, h, ch), c.preserve, Mix(c), c.fade)

\* One blend of a call: a buffer again, changed inside the region the call names.
LEMMA BlendedFacts ==
  ASSUME NEW c \in Call, c.op # "write", NEW b \in [1 .. Length -> Int], NEW h, Held(c, h), NEW ch \in 1 .. 2
  PROVE  /\ Blended(c, b, h, ch) \in [1 .. Length -> Int]
         /\ \A k \in 1 .. Length : Blended(c, b, h, ch)[k] # b[k] =>
              k > c.start_dst /\ (c.dur >= 0 => k <= c.start_dst + c.dur * Span(c))
<1>1. Source(c, h, ch) \in Seq(Int) /\ (c.dur >= 0 => Len(Source(c, h, ch)) <= c.dur * Span(c))
  BY SourceFacts DEF Signal
<1>2. Length \in Nat BY LengthFacts
<1> DEFINE src == Source(c, h, ch)
<1>4. c.start_dst * Rate = c.start_dst /\ c.start_dst \in Int /\ c.preserve \in Int /\ Mix(c) \in Int /\ c.fade \in Int
      /\ c.dur \in Int
  BY CallFacts
<1>5. Blended(c, b, h, ch) = Apply(b, c.start_dst, src, c.preserve, Mix(c), c.fade) BY <1>4 DEF Blended
<1>6. Span(c) \in Int BY BuffersAssumption DEF Span, Rate, Larger
<1>7. src \in Seq(Int) /\ (c.dur >= 0 => Len(src) <= c.dur * Span(c)) BY <1>1
<1>8. Len(src) \in Nat /\ c.dur * Span(c) \in Int BY <1>7, <1>6, <1>4, LenProperties
<1> HIDE DEF src
<1> DEFINE st == c.start_dst  pr == c.preserve  mx == Mix(c)  fd == c.fade
<1>10. st \in Int /\ pr \in Int /\ mx \in Int /\ fd \in Int BY <1>4
<1>11. src \in Seq(Int) BY <1>7
<1> HIDE DEF st, pr, mx, fd
<1>12. /\ Apply(b, st, src, pr, mx, fd) \in [1 .. Length -> Int]
      /\ \A k \in 1 .. Length : Apply(b, st, src, pr, mx, fd)[k] # b[k] => k > st /\ k <= st + Len(src)
  BY <1>10, <1>11, ApplyFacts, Zenon
<1>9. /\ Apply(b, c.start_dst, src, c.preserve, Mix(c), c.fade) \in [1 .. Length -> Int]
      /\ \A k \in 1 .. Length : Apply(b, c.start_dst, src, c.preserve, Mix(c), c.fade)[k] # b[k] =>
              k > c.start_dst /\ k <= c.start_dst + Len(src)
  BY <1>12 DEF st, pr, mx, fd
<1>. QED BY <1>2, <1>4, <1>5, <1>7, <1>8, <1>9

\* A write that starts behind the end of a buffer leaves it alone.
LEMMA ApplyPast ==
  ASSUME NEW b \in [1 .. Length -> Int], NEW start \in Int, start >= Length, NEW src \in Signal,
         NEW preserve \in Int, NEW mix \in Int, NEW fade \in Int
  PROVE  Apply(b, start, src, preserve, mix, fade) = b
<1>1. Length \in Nat BY LengthFacts
<1>2. /\ Apply(b, start, src, preserve, mix, fade) \in [1 .. Length -> Int]
      /\ \A k \in 1 .. Length : Apply(b, start, src, preserve, mix, fade)[k] # b[k] =>
           k > start /\ k <= start + Len(src)
  BY ApplyFacts DEF Signal
<1>3. \A k \in 1 .. Length : Apply(b, start, src, preserve, mix, fade)[k] = b[k] BY <1>1, <1>2
<1> DEFINE x == Apply(b, start, src, preserve, mix, fade)
<1>4. x \in [1 .. Length -> Int] /\ b \in [1 .. Length -> Int] BY <1>2
<1>5. \A k \in 1 .. Length : x[k] = b[k] BY <1>3
<1> HIDE DEF x
<1>6. x = b BY <1>1, <1>4, <1>5
<1>. QED BY <1>6 DEF x

\* The standalone server makes of t one blend for each buffer that c writes into.
Agrees(c, t) ==
  /\ Standalone(t, c).file = t.file /\ DOMAIN Standalone(t, c) = {"buf", "file"}
  /\ Standalone(t, c).buf =
       [ch \in 1 .. 2 |-> IF ch \in Range(Dst(c)) THEN Blended(c, t.buf[ch], Whole(c, t.buf, t.file, ch), ch)
                          ELSE t.buf[ch]]

\* SRead: the standalone server reads what _channel extracts.
LEMMA ReadsAgree ==
  ASSUME NEW c \in Call, c.op = "read", NEW B \in [1 .. 2 -> [1 .. Length -> Int]], NEW n \in 1 .. 2, NEW f \in WavFile(n)
  PROVE  Agrees(c, [buf |-> B, file |-> f])
<1> DEFINE t == [buf |-> B, file |-> f]
           s0 == c.start_src * t.file.rate
           avail == Larger(Len(t.file.frames) - s0, 0)
           want == IF c.dur < 0 THEN avail ELSE c.dur * t.file.rate
           col(ch) == IF c.stereo THEN IF ch <= t.file.channels THEN ch ELSE t.file.channels
                     ELSE Column(c.ch_src, t.file)
           src == [ch \in 1 .. 2 |-> Extract(t.file, col(ch), s0, Smaller(want, avail))]
<1>1. Standalone(t, c) = [t EXCEPT !.buf = SBlend(c, t.buf, c.start_dst * Rate, src, c.preserve)]
  BY DEF Standalone, SRead
<1>2. ASSUME NEW ch \in 1 .. 2 PROVE src[ch] = Source(c, f, ch)
  <2>1. col(ch) = Column(IF c.stereo THEN ch ELSE c.ch_src, f)
    BY WavFacts DEF Column, Smaller, Larger
  <2>2. want = IF c.dur < 0 THEN avail ELSE c.dur * f.rate OBVIOUS
  <2>3. Smaller(want, avail) = IF c.dur < 0 THEN avail ELSE Smaller(c.dur * f.rate, avail)
    BY DEF Smaller
  <2>. QED BY <2>1, <2>3 DEF Source, _channel
<1>3. SBlend(c, t.buf, c.start_dst * Rate, src, c.preserve) =
       [ch \in 1 .. 2 |-> IF ch \in Range(Dst(c)) THEN Blended(c, B[ch], Whole(c, B, f, ch), ch) ELSE B[ch]]
  BY <1>2 DEF SBlend, Blended, Whole
<1>. QED BY <1>1, <1>3 DEF Agrees

\* It clears what clear does, of a buffer from 0 on and with nothing preserved.
LEMMA ClearsAgree ==
  ASSUME NEW c \in Call, c.op = "clear", c.start_dst >= 0, c.preserve = 0,
         NEW B \in [1 .. 2 -> [1 .. Length -> Int]], NEW f
  PROVE  Agrees(c, [buf |-> B, file |-> f])
<1> DEFINE t == [buf |-> B, file |-> f]
           a == Smaller(Larger(c.start_dst * Rate, 0), Length)
           src == [ch \in 1 .. 2 |-> Silence(IF c.dur < 0 THEN Length - a ELSE c.dur * Rate)]
<1>0. Length \in Nat /\ c.start_dst \in Nat /\ c.start_dst * Rate = c.start_dst BY LengthFacts, CallFacts
<1>1. Standalone(t, c) = [t EXCEPT !.buf = SBlend(c, t.buf, a, src, 0)]
  BY DEF Standalone, SClear
<1>2. ASSUME NEW ch \in 1 .. 2
      PROVE  Apply(B[ch], a, src[ch], 0, Mix(c), c.fade) = Blended(c, B[ch], Whole(c, B, f, ch), ch)
  <2>1. CASE c.start_dst <= Length
    <3>1. a = c.start_dst BY <1>0, <2>1 DEF Smaller, Larger
    <3>. QED BY <1>0, <3>1 DEF Blended, Source
  <2>2. CASE c.start_dst > Length
    <3>1. a = Length BY <1>0, <2>2 DEF Smaller, Larger
    <3>2. B[ch] \in [1 .. Length -> Int] /\ c.preserve \in Int /\ Mix(c) \in Int /\ c.fade \in Int /\ c.dur * Rate \in Int
      BY CallFacts
    <3>3. src[ch] \in Signal
      <4>1. (IF c.dur < 0 THEN Length - a ELSE c.dur * Rate) \in Int BY <1>0, <3>1, <3>2
      <4>. QED BY <4>1, SilenceFacts
    <3>4. Apply(B[ch], a, src[ch], 0, Mix(c), c.fade) = B[ch]
      <4> HIDE DEF src, a
      <4>. QED BY <1>0, <3>1, <3>2, <3>3, ApplyPast
    <3>5. Held(c, Whole(c, B, f, ch)) BY DEF Held
    <3>6. Source(c, Whole(c, B, f, ch), ch) \in Signal BY <3>5, SourceFacts
    <3>7. Blended(c, B[ch], Whole(c, B, f, ch), ch) = B[ch]
      BY <1>0, <2>2, <3>2, <3>6, ApplyPast DEF Blended
    <3>. QED BY <3>4, <3>7
  <2>. QED BY <1>0, <2>1, <2>2
<1>3. SBlend(c, t.buf, a, src, 0) =
       [ch \in 1 .. 2 |-> IF ch \in Range(Dst(c)) THEN Blended(c, B[ch], Whole(c, B, f, ch), ch) ELSE B[ch]]
  BY <1>2 DEF SBlend
<1>. QED BY <1>1, <1>3 DEF Agrees

\* A copy of the region as it was is a blend of the region taken.
LEMMA CopiesAgree ==
  ASSUME NEW c \in Call, c.op = "copy", NEW B \in [1 .. 2 -> [1 .. Length -> Int]], NEW f
  PROVE  Agrees(c, [buf |-> B, file |-> f])
<1> DEFINE t == [buf |-> B, file |-> f]
           n == Larger(0, Smaller(Length - c.start_src, IF c.dur < 0 THEN Length ELSE c.dur))
           from(ch, i) == t.buf[Src(c, ch)][c.start_src + (IF c.reverse THEN n + 1 - i ELSE i)]
           src == [ch \in 1 .. 2 |-> [i \in 1 .. n |-> from(ch, i)]]
<1>0. Length \in Nat /\ c.start_src \in Nat /\ c.dur \in Int /\ n \in Nat /\ c.reverse \in BOOLEAN
  BY LengthFacts, CallFacts DEF Larger, Smaller
<1>1. Standalone(t, c) = [t EXCEPT !.buf = SBlend(c, t.buf, c.start_dst, src, c.preserve)]
  BY DEF Standalone, SCopy
<1>2. ASSUME NEW ch \in 1 .. 2 PROVE src[ch] = Source(c, Whole(c, B, f, ch), ch)
  <2> DEFINE x == B[Src(c, ch)]
             h == Slice(x, c.start_src, c.dur)
  <2>1. x \in [1 .. Length -> Int] BY CallFacts DEF Src
  <2> HIDE DEF x
  <2>2. /\ h \in Signal /\ Len(h) = n
        /\ \A i \in 1 .. Len(h) : c.start_src + i \in 1 .. Length /\ h[i] = x[c.start_src + i]
    BY <1>0, <2>1, SliceFacts DEF Signal
  <2>3. Source(c, Whole(c, B, f, ch), ch) = IF c.reverse THEN Backwards(h) ELSE h BY DEF Source, Whole, x
  <2> HIDE DEF h, n
  <2>4. CASE ~c.reverse
    <3>1. h = [i \in 1 .. n |-> x[c.start_src + i]] BY <2>2, LenProperties DEF Signal
    <3>. QED BY <2>3, <2>4, <3>1 DEF x
  <2>5. CASE c.reverse
    <3>1. Backwards(h) = [i \in 1 .. n |-> h[n + 1 - i]] BY <2>2, LenProperties DEF Signal, Backwards
    <3>2. \A i \in 1 .. n : n + 1 - i \in 1 .. n /\ h[n + 1 - i] = x[c.start_src + (n + 1 - i)] BY <1>0, <2>2
    <3>. QED BY <2>3, <2>5, <3>1, <3>2 DEF x
  <2>. QED BY <2>4, <2>5
<1>3. SBlend(c, t.buf, c.start_dst, src, c.preserve) =
       [ch \in 1 .. 2 |-> IF ch \in Range(Dst(c)) THEN Blended(c, B[ch], Whole(c, B, f, ch), ch) ELSE B[ch]]
  <2>1. c.start_dst * Rate = c.start_dst BY CallFacts
  <2>. QED BY <1>2, <2>1 DEF SBlend, Blended
<1>. QED BY <1>1, <1>3 DEF Agrees

-----------------------------------------------------------------------------
(* Writes *)

\* The regions that a write names.
Slices(c, bs) == [k \in DOMAIN Dst(c) |-> Slice(bs[Dst(c)[k]], c.start_src, c.dur)]

\* A file made of n arrays has n channels, each sample encoded in its place.
LEMMA WavOfFacts ==
  ASSUME NEW n \in 1 .. 2, NEW parts \in [1 .. n -> Signal]
  PROVE  /\ WavOf(parts) \in WavFile(n) /\ Len(parts) = n
         /\ WavOf(parts).channels = n
         /\ Len(WavOf(parts).frames) = Smaller(Len(parts[1]), Len(parts[n]))
         /\ \A i \in 1 .. Len(WavOf(parts).frames) : \A k \in 1 .. n :
              WavOf(parts).frames[i][k] = Encode(parts[k][i])
<1>1. Len(parts) = n /\ DOMAIN parts = 1 .. n BY FunSeq
<1> DEFINE m == Smaller(Len(parts[1]), Len(parts[n]))
           F == [i \in 1 .. m |-> [k \in 1 .. n |-> Encode(parts[k][i])]]
<1>2. FramesOf(parts) = F BY <1>1 DEF FramesOf
<1>3. m \in Nat /\ \A k \in 1 .. n : parts[k] \in Seq(Int) /\ Len(parts[k]) \in Nat /\ m <= Len(parts[k])
  <2>1. \A k \in 1 .. n : parts[k] \in Seq(Int) /\ Len(parts[k]) \in Nat BY LenProperties DEF Signal
  <2>2. 1 \in 1 .. n /\ n \in 1 .. n OBVIOUS
  <2>3. \A k \in 1 .. n : k = 1 \/ k = n OBVIOUS
  <2>. QED BY <2>1, <2>2, <2>3 DEF Smaller
<1> HIDE DEF m
<1>4. \A i \in 1 .. m : \A k \in 1 .. n : Encode(parts[k][i]) \in Codes
  <2> TAKE i \in 1 .. m
  <2> TAKE k \in 1 .. n
  <2>1. i \in 1 .. Len(parts[k]) /\ parts[k] \in Seq(Int) BY <1>3
  <2>2. parts[k][i] \in Int BY <2>1, ElementOfSeq
  <2>. QED BY <2>2, EncodeFacts
<1>5. F \in [1 .. m -> [1 .. n -> Codes]] BY <1>4
<1>6. F \in Seq([1 .. n -> Codes]) /\ Len(F) = m BY <1>3, <1>5, FunSeq
<1>7. WavOf(parts) = [rate |-> Rate, channels |-> n, frames |-> F] BY <1>1, <1>2 DEF WavOf
<1>9. \A i \in 1 .. m : \A k \in 1 .. n : F[i][k] = Encode(parts[k][i]) OBVIOUS
<1> HIDE DEF F
<1>8. WavOf(parts) \in WavFile(n) BY <1>6, <1>7 DEF WavFile
<1>. QED BY <1>1, <1>6, <1>7, <1>8, <1>9 DEF m

\* The regions that a write names are signals of one length.
LEMMA SlicesFacts ==
  ASSUME NEW c \in Call, c.op = "write", NEW B \in [1 .. 2 -> [1 .. Length -> Int]]
  PROVE  /\ Slices(c, B) \in [1 .. Len(Dst(c)) -> Signal]
         /\ \A k \in 1 .. Len(Dst(c)) :
              /\ Len(Slices(c, B)[k]) = Larger(0, Smaller(Length - c.start_src, IF c.dur < 0 THEN Length ELSE c.dur))
              /\ \A i \in 1 .. Len(Slices(c, B)[k]) :
                   c.start_src + i \in 1 .. Length /\ Slices(c, B)[k][i] = B[Dst(c)[k]][c.start_src + i]
<1>0. Length \in Nat /\ c.start_src \in Nat /\ c.dur \in Int BY LengthFacts, CallFacts
<1>1. DOMAIN Dst(c) = 1 .. Len(Dst(c)) /\ \A k \in 1 .. Len(Dst(c)) : Dst(c)[k] \in 1 .. 2 BY DstFacts
<1>2. ASSUME NEW k \in 1 .. Len(Dst(c))
      PROVE  LET s == Slice(B[Dst(c)[k]], c.start_src, c.dur)
             IN  /\ s \in Signal
                 /\ Len(s) = Larger(0, Smaller(Length - c.start_src, IF c.dur < 0 THEN Length ELSE c.dur))
                 /\ \A i \in 1 .. Len(s) : c.start_src + i \in 1 .. Length /\ s[i] = B[Dst(c)[k]][c.start_src + i]
  <2> DEFINE b == B[Dst(c)[k]]
  <2>1. b \in [1 .. Length -> Int] BY <1>1
  <2> HIDE DEF b
  <2>2. LET s == Slice(b, c.start_src, c.dur)
        IN  /\ s \in Signal
            /\ Len(s) = Larger(0, Smaller(Length - c.start_src, IF c.dur < 0 THEN Length ELSE c.dur))
            /\ \A i \in 1 .. Len(s) : c.start_src + i \in 1 .. Length /\ s[i] = b[c.start_src + i]
    BY <1>0, <2>1, SliceFacts DEF Signal
  <2>. QED BY <2>2 DEF b
<1>. QED BY <1>1, <1>2 DEF Slices

\* The standalone server writes the same file.
LEMMA WritesAgree ==
  ASSUME NEW c \in Call, c.op = "write", NEW B \in [1 .. 2 -> [1 .. Length -> Int]], NEW f
  PROVE  Standalone([buf |-> B, file |-> f], c) = [buf |-> B, file |-> WavOf(Slices(c, B))]
<1> DEFINE t == [buf |-> B, file |-> f]
           m == Len(Dst(c))
           s0 == Smaller(Larger(c.start_src * Rate, 0), Length)
           avail == Length - s0
           n == IF c.dur < 0 THEN avail ELSE Smaller(c.dur * Rate, avail)
           of(i) == [k \in DOMAIN Dst(c) |-> Encode(t.buf[Dst(c)[k]][s0 + i])]
           S == Slices(c, B)
<1>1. Standalone(t, c) = [t EXCEPT !.file = [rate |-> Rate, channels |-> m, frames |-> [i \in 1 .. n |-> of(i)]]]
  BY DEF Standalone, SWrite
<1>2. Length \in Nat /\ c.start_src \in Nat /\ c.start_src * Rate = c.start_src /\ c.dur * Rate = c.dur /\ c.dur \in Int
  BY LengthFacts, CallFacts
<1>3. m \in 1 .. 2 /\ DOMAIN Dst(c) = 1 .. m BY DstFacts
<1>4. S \in [1 .. m -> Signal] /\ \A k \in 1 .. m : /\ Len(S[k]) = Larger(0, Smaller(Length - c.start_src, IF c.dur < 0 THEN Length ELSE c.dur))
        /\ \A i \in 1 .. Len(S[k]) : S[k][i] = B[Dst(c)[k]][c.start_src + i]
  BY SlicesFacts
<1>5. n = Larger(0, Smaller(Length - c.start_src, IF c.dur < 0 THEN Length ELSE c.dur)) /\ (n > 0 => s0 = c.start_src)
  BY <1>2 DEF Smaller, Larger
<1>6. Len(S) = m BY <1>3, <1>4, FunSeq
<1>7. DOMAIN S = 1 .. m BY <1>4
<1> HIDE DEF S, n, s0, m
<1>8. Smaller(Len(S[1]), Len(S[m])) = n BY <1>3, <1>4, <1>5 DEF Smaller
<1>9. FramesOf(S) = [i \in 1 .. n |-> [k \in 1 .. m |-> Encode(S[k][i])]] BY <1>6, <1>7, <1>8 DEF FramesOf
<1>10. ASSUME NEW i \in 1 .. n PROVE of(i) = [k \in 1 .. m |-> Encode(S[k][i])]
  <2>1. n \in Nat BY <1>2, <1>5 DEF Smaller, Larger
  <2>2. s0 = c.start_src BY <1>5, <2>1
  <2>3. \A k \in 1 .. m : S[k][i] = B[Dst(c)[k]][s0 + i] BY <1>4, <1>5, <2>2
  <2>. QED BY <1>3, <2>3
<1>11. [i \in 1 .. n |-> of(i)] = FramesOf(S) BY <1>9, <1>10
<1>12. WavOf(S) = [rate |-> Rate, channels |-> m, frames |-> FramesOf(S)] BY <1>6 DEF WavOf
<1> HIDE DEF of
<1>. QED BY <1>1, <1>11, <1>12 DEF S

-----------------------------------------------------------------------------
(* The inductive invariant *)

\* What a thread has yet to do.
Left(t) == Range(todo[t])
Loading(t) == Step("load", 0) \in Left(t)
Taking(t, b) == Step("take", Src(call[t], b)) \in Left(t)
Blending(t, b) == Step("blend", b) \in Left(t)
Slicing(t, b) == Step("slice", b) \in Left(t)
Opening(t) == Step("open", 0) \in Left(t)
Putting(t) == Step("put", 0) \in Left(t)

\* What t will blend into b, the buffer it will make of it, and the arrays it will write,
\* if nothing it uses changes before.
In(t, b) == IF Loading(t) \/ Taking(t, b) THEN Whole(call[t], buf, file, b) ELSE held[t]
Outcome(t, b) == Blended(call[t], buf[b], In(t, b), b)
Parts(t) ==
  LET c == call[t]
  IN  [k \in DOMAIN Dst(c) |->
         IF Slicing(t, Dst(c)[k]) THEN Slice(buf[Dst(c)[k]], c.start_src, c.dur) ELSE held[t][k]]

\* The inductive invariant.  Types:
Typed ==
  /\ buf \in [1 .. 2 -> [1 .. Length -> Int]]
  /\ file = Truncated \/ \E n \in 1 .. 2 : file \in WavFile(n)
  /\ DOMAIN call = Threads /\ DOMAIN todo = Threads /\ DOMAIN held = Threads
  /\ latest \in Threads /\ (call[latest].op = "write" => call[latest] \in Call)
  /\ twin = [buf |-> twin.buf, file |-> twin.file] /\ twin.buf \in [1 .. 2 -> [1 .. Length -> Int]]
  /\ apart \in BOOLEAN
\* a busy thread is somewhere in the script of its call;
Running == \A t \in Threads : Busy(t) => call[t] \in Call /\ todo[t] \in Rest(call[t])
\* it holds what it has taken;
Holds(t) ==
  LET c == call[t]
  IN  /\ c.op = "read" /\ ~Loading(t) => Held(c, held[t])
      /\ c.op = "copy" => \A b \in 1 .. 2 : Blending(t, b) /\ ~Taking(t, b) => Held(c, held[t])
      /\ c.op = "write" => /\ held[t] \in Seq(Signal)
                           /\ DOMAIN held[t] = {k \in DOMAIN Dst(c) : ~Slicing(t, Dst(c)[k])}
Holding == \A t \in Threads : Busy(t) => Holds(t)
\* a truncated file is about to be written;
Trunc == file = Truncated => \E t \in Threads : Putting(t) /\ ~Opening(t)
\* calls that are apart touch nothing in common;
Far == apart => \A t, u \in Threads : t # u /\ Busy(t) /\ Busy(u) => ~Touch(call[t], call[u])
\* the standalone server has, of each buffer, what the thread that will blend into it
\* makes, or the buffer as it is;
TwinBuf == apart => \A b \in 1 .. 2 :
  /\ \A t \in Threads : Blending(t, b) => twin.buf[b] = Outcome(t, b)
  /\ (\A t \in Threads : ~Blending(t, b)) => twin.buf[b] = buf[b]
\* and of the file, what the thread that will write it makes, or the file as it is;
TwinFile == apart =>
  /\ \A t \in Threads : Putting(t) => twin.file = WavOf(Parts(t))
  /\ (\A t \in Threads : ~Putting(t)) => twin.file = file
\* the file of the latest write is made of the regions it names.
Last == apart /\ call[latest].op = "write" => twin.file = WavOf(Slices(call[latest], twin.buf))
IInv == Typed /\ Running /\ Holding /\ Trunc /\ Far /\ TwinBuf /\ TwinFile /\ Last

\* A thread with nothing to do does none of it.
LEMMA Waiting ==
  ASSUME NEW t \in Threads, ~Busy(t)
  PROVE  /\ Left(t) = {} /\ ~Loading(t) /\ ~Putting(t) /\ ~Opening(t)
         /\ \A b : ~Blending(t, b) /\ ~Taking(t, b) /\ ~Slicing(t, b)
<1>1. Left(t) = {} BY Tuples DEF Busy, Left
<1>. QED BY <1>1 DEF Loading, Putting, Opening, Blending, Taking, Slicing

\* A busy thread is somewhere in the script of its call, and has only the steps of
\* such a call before it.
LEMMA BusyFacts ==
  ASSUME Running, NEW t \in Threads, Busy(t)
  PROVE  /\ call[t] \in Call /\ todo[t] \in Rest(call[t])
         /\ Leaves(call[t], todo[t]) /\ Order(call[t], todo[t])
         /\ Loading(t) => call[t].op = "read"
         /\ Putting(t) => call[t].op = "write"
         /\ Opening(t) => call[t].op = "write"
         /\ \A b \in 1 .. 2 : Blending(t, b) => call[t].op # "write" /\ b \in Range(Dst(call[t]))
         /\ \A b : Taking(t, b) => call[t].op = "copy"
         /\ \A b : Slicing(t, b) => call[t].op = "write"
<1>1. call[t] \in Call /\ todo[t] \in Rest(call[t]) BY DEF Running
<1>2. Leaves(call[t], todo[t]) /\ Order(call[t], todo[t]) BY <1>1, RestFacts
<1>. QED BY <1>1, <1>2 DEF Leaves, Loading, Putting, Opening, Blending, Taking, Slicing, Left

\* A call uses what it writes; what it is writing, it writes.
LEMMA UsesFacts ==
  ASSUME NEW c \in Call
  PROVE  /\ c.op = "write" => Writes(c) = {0} /\ 0 \in Uses(c) /\ Range(Dst(c)) \subseteq Uses(c)
         /\ c.op # "write" => Writes(c) = Range(Dst(c)) /\ Range(Dst(c)) \subseteq Uses(c)
         /\ c.op = "read" => 0 \in Uses(c)
         /\ c.op = "copy" => \A b \in Range(Dst(c)) : Src(c, b) \in Uses(c) /\ Src(c, b) \in 1 .. 2
         /\ 0 \notin Range(Dst(c))
<1>1. Range(Dst(c)) \subseteq 1 .. 2 BY DstFacts
<1>2. c.op \in {"read", "write", "clear", "copy"} BY CallFacts
<1>3. c.op = "copy" => \A b \in Range(Dst(c)) : Src(c, b) \in 1 .. 2 BY <1>1, CallFacts DEF Src
<1>. QED BY <1>1, <1>2, <1>3 DEF Writes, Uses

\* What a thread has left to do, and will make of it, stands as long as what it uses does.
LEMMA OutcomeKept ==
  ASSUME NEW t \in Threads, todo'[t] = todo[t], call'[t] = call[t], held'[t] = held[t],
         NEW b \in 1 .. 2, buf'[b] = buf[b],
         Loading(t) => call[t].op = "read" /\ file' = file,
         Taking(t, b) => call[t].op = "copy" /\ buf'[Src(call[t], b)] = buf[Src(call[t], b)]
  PROVE  Outcome(t, b)' = Outcome(t, b)
<1>1. Left(t)' = Left(t) BY DEF Left
<1>2. Loading(t)' = Loading(t) /\ Taking(t, b)' = Taking(t, b) BY <1>1 DEF Loading, Taking
<1>3. In(t, b)' = In(t, b) BY <1>2 DEF In, Whole
<1>. QED BY <1>3 DEF Outcome

\* What a write has in hand stands as long as its buffers do.
LEMMA PartsKept ==
  ASSUME NEW t \in Threads, todo'[t] = todo[t], call'[t] = call[t], held'[t] = held[t],
         \A k \in DOMAIN Dst(call[t]) : buf'[Dst(call[t])[k]] = buf[Dst(call[t])[k]]
  PROVE  Parts(t)' = Parts(t)
<1>1. Left(t)' = Left(t) BY DEF Left
<1>2. \A b : Slicing(t, b)' = Slicing(t, b) BY <1>1 DEF Slicing
<1>. QED BY <1>2 DEF Parts

\* A step of t: other threads stand, and what changes is what its call writes.
Others(t) ==
  /\ call' = call /\ apart' = apart
  /\ \A u \in Threads : u # t => todo'[u] = todo[u] /\ held'[u] = held[u]
  /\ \A b \in 1 .. 2 : buf'[b] # buf[b] => b \in Writes(call[t])
  /\ file' # file => 0 \in Writes(call[t])

\* A step of t leaves alone what another thread will make, when they touch nothing
\* in common.
LEMMA OthersKept ==
  ASSUME Running, Far, apart, NEW t \in Threads, Busy(t), Others(t), NEW u \in Threads, u # t
  PROVE  /\ Left(u)' = Left(u)
         /\ \A b \in 1 .. 2 : Blending(u, b) => Outcome(u, b)' = Outcome(u, b) /\ b \notin Writes(call[t])
         /\ Putting(u) => Parts(u)' = Parts(u) /\ 0 \notin Writes(call[t])
<1>0. todo'[u] = todo[u] /\ call'[u] = call[u] /\ held'[u] = held[u] /\ Left(u)' = Left(u) BY DEF Others, Left
<1>1. CASE ~Busy(u) BY <1>0, <1>1, Waiting
<1>2. CASE Busy(u)
  <2>1. call[u] \in Call /\ call[t] \in Call BY <1>2, BusyFacts
  <2>2. \A x : x \in Uses(call[u]) => x \notin Writes(call[t]) BY <1>2 DEF Far, Touch
  <2>3. \A b \in 1 .. 2 : b \in Uses(call[u]) => buf'[b] = buf[b] BY <2>2 DEF Others
  <2>4. 0 \in Uses(call[u]) => file' = file BY <2>2 DEF Others
  <2>5. ASSUME NEW b \in 1 .. 2, Blending(u, b) PROVE Outcome(u, b)' = Outcome(u, b) /\ b \notin Writes(call[t])
    <3>1. b \in Range(Dst(call[u])) /\ call[u].op # "write" BY <1>2, <2>5, BusyFacts
    <3>2. b \in Uses(call[u]) BY <2>1, <3>1, UsesFacts
    <3>3. Loading(u) => call[u].op = "read" /\ file' = file BY <1>2, <2>1, <2>4, BusyFacts, UsesFacts
    <3>4. Taking(u, b) => call[u].op = "copy" /\ buf'[Src(call[u], b)] = buf[Src(call[u], b)]
      BY <1>2, <2>1, <2>3, <3>1, BusyFacts, UsesFacts
    <3>. QED BY <1>0, <2>2, <2>3, <3>2, <3>3, <3>4, OutcomeKept
  <2>6. ASSUME Putting(u) PROVE Parts(u)' = Parts(u) /\ 0 \notin Writes(call[t])
    <3>1. call[u].op = "write" BY <1>2, <2>6, BusyFacts
    <3>2. 0 \in Uses(call[u]) /\ Range(Dst(call[u])) \subseteq Uses(call[u]) BY <2>1, <3>1, UsesFacts
    <3>3. \A k \in DOMAIN Dst(call[u]) : Dst(call[u])[k] \in Range(Dst(call[u])) /\ Dst(call[u])[k] \in 1 .. 2
      BY <2>1, DstFacts
    <3>. QED BY <1>0, <2>2, <2>3, <3>2, <3>3, PartsKept
  <2>. QED BY <1>0, <2>5, <2>6
<1>. QED BY <1>1, <1>2

-----------------------------------------------------------------------------
(* Steps *)

\* A step done is off the list, and the rest is a rest of the same script.
LEMMA DoneFacts ==
  ASSUME Typed, Running, NEW t \in Threads, Busy(t), Done(t), call' = call
  PROVE  /\ DOMAIN todo' = Threads /\ todo'[t] = Tail(todo[t])
         /\ \A u \in Threads : u # t => todo'[u] = todo[u]
         /\ Left(t)' = Left(t) \ {Head(todo[t])} /\ Head(todo[t]) \in Left(t)
         /\ Running'
<1>1. DOMAIN todo' = Threads /\ todo'[t] = Tail(todo[t]) /\ \A u \in Threads : u # t => todo'[u] = todo[u]
  BY DEF Typed, Done
<1>2. Leaves(call[t], todo[t]) BY BusyFacts
<1>3. Left(t)' = Left(t) \ {Head(todo[t])} /\ Head(todo[t]) \in Left(t) BY <1>1, <1>2 DEF Left, Leaves
<1>4. Running'
  <2>1. ASSUME NEW u \in Threads, todo'[u] # <<>> PROVE call'[u] \in Call /\ todo'[u] \in Rest(call'[u])
    <3>1. CASE u = t
      <4>1. Tail(todo[t]) \in Rest(call[t]) BY <1>1, <1>2, <2>1, <3>1 DEF Leaves
      <4>. QED BY <1>1, <3>1, <4>1, BusyFacts
    <3>2. CASE u # t BY <1>1, <2>1, <3>2 DEF Running, Busy
    <3>. QED BY <3>1, <3>2
  <2>. QED BY <2>1 DEF Running, Busy
<1>. QED BY <1>1, <1>3, <1>4

\* What a thread holds stands while it does.
LEMMA HoldsKept ==
  ASSUME NEW u \in Threads, todo'[u] = todo[u], call'[u] = call[u], held'[u] = held[u], Holds(u)
  PROVE  Holds(u)'
<1>1. Left(u)' = Left(u) BY DEF Left
<1>. QED BY <1>1 DEF Holds, Loading, Blending, Taking, Slicing

\* A step of t that leaves t holding what it should.
LEMMA HeldKept ==
  ASSUME Typed, Holding, call' = call, NEW t \in Threads,
         \A u \in Threads : u # t => todo'[u] = todo[u] /\ held'[u] = held[u],
         Busy(t)' => Holds(t)'
  PROVE  Holding'
<1>1. ASSUME NEW u \in Threads, u # t, Busy(u)' PROVE Holds(u)'
  <2>1. Holds(u) BY <1>1 DEF Holding, Busy
  <2>. QED BY <1>1, <2>1, HoldsKept
<1>. QED BY <1>1 DEF Holding

\* Calls apart stay apart while none begins.
LEMMA FarKept ==
  ASSUME Far, call' = call, apart' = apart, \A u \in Threads : Busy(u)' => Busy(u)
  PROVE  Far'
BY DEF Far, Touch, Writes, Uses

\* A step of t that changes no buffer and no file, and the outcome of no thread.
LEMMA QuietStep ==
  ASSUME Typed, Running, Far, NEW t \in Threads, Busy(t), Others(t), UNCHANGED <<buf, file, latest, twin>>,
         TwinBuf, TwinFile,
         \A b \in 1 .. 2 : Blending(t, b)' <=> Blending(t, b),
         Putting(t)' <=> Putting(t),
         apart => \A b \in 1 .. 2 : Blending(t, b) => Outcome(t, b)' = Outcome(t, b),
         apart /\ Putting(t) => Parts(t)' = Parts(t)
  PROVE  TwinBuf' /\ TwinFile'
<1> SUFFICES ASSUME apart' PROVE TwinBuf' /\ TwinFile' BY DEF TwinBuf, TwinFile
<1>0. apart BY DEF Others
<1>1. ASSUME NEW u \in Threads
      PROVE  /\ Putting(u)' <=> Putting(u)
             /\ Putting(u) => Parts(u)' = Parts(u)
             /\ \A b \in 1 .. 2 : /\ Blending(u, b)' <=> Blending(u, b)
                                  /\ Blending(u, b) => Outcome(u, b)' = Outcome(u, b)
  <2>1. CASE u = t BY <1>0, <2>1
  <2>2. CASE u # t BY <1>0, <2>2, OthersKept DEF Putting, Blending
  <2>. QED BY <2>1, <2>2
<1>2. TwinBuf' BY <1>0, <1>1 DEF TwinBuf
<1>3. TwinFile' BY <1>0, <1>1 DEF TwinFile
<1>. QED BY <1>2, <1>3

\* A truncated file still has its writer.
LEMMA TruncKept ==
  ASSUME Trunc, file' = file, NEW t \in Threads, \A u \in Threads : u # t => todo'[u] = todo[u],
         Putting(t) /\ ~Opening(t) => Putting(t)' /\ ~Opening(t)'
  PROVE  Trunc'
<1>1. SUFFICES ASSUME file = Truncated PROVE \E u \in Threads : Putting(u)' /\ ~Opening(u)' BY DEF Trunc
<1>2. PICK u \in Threads : Putting(u) /\ ~Opening(u) BY <1>1 DEF Trunc
<1>3. u # t => Left(u)' = Left(u) BY DEF Left
<1>. QED BY <1>2, <1>3 DEF Putting, Opening

\* Apart from writers, a read finds a file.
LEMMA LoadingFile ==
  ASSUME IInv, apart, NEW t \in Threads, Busy(t), 0 \in Uses(call[t]), ~Putting(t)
  PROVE  \E n \in 1 .. 2 : file \in WavFile(n)
<1>1. CASE file # Truncated BY <1>1 DEF IInv, Typed
<1>2. CASE file = Truncated
  <2>1. PICK u \in Threads : Putting(u) BY <1>2 DEF IInv, Trunc
  <2>2. Busy(u) /\ u # t BY <2>1, Waiting
  <2>3. call[u] \in Call /\ call[u].op = "write" BY <2>1, <2>2, BusyFacts DEF IInv
  <2>4. 0 \in Writes(call[u]) BY <2>3, UsesFacts
  <2>5. ~Touch(call[u], call[t]) BY <2>2 DEF IInv, Far
  <2>. QED BY <2>4, <2>5 DEF Touch
<1>. QED BY <1>1, <1>2

\* read_wav.
LEMMA LoadInv ==
  ASSUME IInv, NEW t \in Threads, Load(t)
  PROVE  IInv'
<1>0. Typed /\ Running /\ Holding /\ Trunc /\ Far /\ TwinBuf /\ TwinFile /\ Last BY DEF IInv
<1>1. /\ Busy(t) /\ Head(todo[t]).do = "load"
      /\ UNCHANGED <<buf, file, call, calls, latest, twin, apart>>
  BY DEF Load, Does
<1>2. Leaves(call[t], todo[t]) /\ Order(call[t], todo[t]) /\ call[t] \in Call BY <1>0, <1>1, BusyFacts
<1>3. Head(todo[t]) = Step("load", 0) /\ call[t].op = "read" /\ Loading(t)
  BY <1>1, <1>2 DEF Order, Leaves, Loading, Left
<1>4. ~Putting(t) /\ ~Opening(t) /\ \A b : ~Taking(t, b) BY <1>0, <1>1, <1>3, BusyFacts
<1>5. 0 \in Uses(call[t]) BY <1>2, <1>3, UsesFacts
<1>6. CASE file.channels = 0
  <2>1. /\ DOMAIN todo' = Threads /\ todo'[t] = <<>> /\ \A u \in Threads : u # t => todo'[u] = todo[u]
        /\ held' = held
    BY <1>0, <1>6 DEF Load, Typed
  <2>2. ~Busy(t)' BY <2>1 DEF Busy
  <2>3. ~apart
    <3>1. ASSUME NEW n \in 1 .. 2, file \in WavFile(n) PROVE FALSE BY <1>6, <3>1, WavFacts
    <3>. QED BY <1>1, <1>4, <1>5, <3>1, LoadingFile
  <2>4. Typed' BY <1>0, <1>1, <2>1 DEF Typed
  <2>5. Running' BY <1>0, <1>1, <2>1 DEF Running, Busy
  <2>6. Holding' BY <1>0, <1>1, <2>1, <2>2, HeldKept
  <2>7. Trunc' BY <1>0, <1>1, <1>4, <2>1, TruncKept
  <2>. QED BY <1>1, <2>3, <2>4, <2>5, <2>6, <2>7 DEF IInv, Far, TwinBuf, TwinFile, Last
<1>7. CASE file.channels # 0
  <2>0. Done(t) /\ held' = [held EXCEPT ![t] = file] BY <1>7 DEF Load, Hold
  <2>1. DOMAIN held' = Threads /\ held'[t] = file /\ \A u \in Threads : u # t => held'[u] = held[u]
    BY <1>0, <2>0 DEF Typed
  <2>2. /\ DOMAIN todo' = Threads /\ \A u \in Threads : u # t => todo'[u] = todo[u]
        /\ Left(t)' = Left(t) \ {Step("load", 0)} /\ Running'
    BY <1>0, <1>1, <1>3, <2>0, DoneFacts
  <2>3. \E n \in 1 .. 2 : file \in WavFile(n) BY <1>0, <1>7 DEF Typed, Truncated
  <2>4. Typed' BY <1>0, <1>1, <2>1, <2>2 DEF Typed
  <2>5. ~Loading(t)' /\ (\A b : ~Taking(t, b)') /\ Putting(t)' = Putting(t)
        /\ \A b \in 1 .. 2 : Blending(t, b)' = Blending(t, b)
    BY <1>1, <1>4, <2>2, StepsDiffer DEF Loading, Taking, Putting, Blending
  <2>6. Holds(t)' BY <1>1, <1>3, <2>1, <2>3 DEF Holds, Held
  <2>7. Holding' BY <1>0, <1>1, <2>1, <2>2, <2>6, HeldKept
  <2>8. Trunc' BY <1>0, <1>1, <1>4, <2>2, TruncKept
  <2>9. Far'
    <3>1. \A u \in Threads : Busy(u)' => Busy(u) BY <1>1, <2>2 DEF Busy
    <3>. QED BY <1>0, <1>1, <3>1, FarKept
  <2>10. Others(t) BY <1>1, <2>1, <2>2 DEF Others
  <2>11. \A b \in 1 .. 2 : In(t, b)' = In(t, b) BY <1>1, <1>3, <2>1, <2>5 DEF In, Whole
  <2>12. \A b \in 1 .. 2 : Outcome(t, b)' = Outcome(t, b) BY <1>1, <2>11 DEF Outcome
  <2>13. TwinBuf' /\ TwinFile' BY <1>0, <1>1, <1>4, <2>5, <2>10, <2>12, QuietStep
  <2>14. Last' BY <1>0, <1>1 DEF Last
  <2>. QED BY <2>2, <2>4, <2>7, <2>8, <2>9, <2>13, <2>14 DEF IInv
<1>. QED BY <1>6, <1>7

\* A region copied out.
LEMMA TakeInv ==
  ASSUME IInv, NEW t \in Threads, Take(t)
  PROVE  IInv'
<1>0. Typed /\ Running /\ Holding /\ Trunc /\ Far /\ TwinBuf /\ TwinFile /\ Last BY DEF IInv
<1> DEFINE c == call[t]  s == todo[t]  x == Slice(buf[Head(s).ch], c.start_src, c.dur)
<1>1. /\ Busy(t) /\ Head(s).do = "take" /\ Done(t) /\ held' = [held EXCEPT ![t] = x]
      /\ UNCHANGED <<buf, file, call, calls, latest, twin, apart>>
  BY DEF Take, Does, Hold
<1>2. c \in Call /\ Order(c, s) BY <1>0, <1>1, BusyFacts
<1>3. PICK b \in Range(Dst(c)) :
        /\ Head(s) = Step("take", Src(c, b)) /\ Step("blend", b) \in Range(s)
        /\ \A a \in 1 .. 2 : a # b /\ Step("blend", a) \in Range(s) => Step("take", Src(c, a)) \in Range(Tail(s))
  BY <1>1, <1>2 DEF Order
<1>4. c.op = "copy" /\ b \in 1 .. 2 /\ Src(c, b) \in 1 .. 2 /\ c.start_src \in Nat /\ c.dur \in Int
  BY <1>1, <1>2, UsesFacts, DstFacts, CallFacts DEF Order
<1>5. DOMAIN held' = Threads /\ held'[t] = x /\ \A u \in Threads : u # t => held'[u] = held[u]
  BY <1>0, <1>1 DEF Typed
<1>6. /\ DOMAIN todo' = Threads /\ \A u \in Threads : u # t => todo'[u] = todo[u]
      /\ todo'[t] = Tail(s) /\ Left(t)' = Left(t) \ {Step("take", Src(c, b))} /\ Running'
  BY <1>0, <1>1, <1>3, DoneFacts
<1>7. ~Loading(t) /\ ~Putting(t) BY <1>0, <1>1, <1>4, BusyFacts
<1>8. /\ ~Loading(t)' /\ ~Putting(t)' /\ ~Taking(t, b)' /\ Taking(t, b)
      /\ \A a \in 1 .. 2 : Blending(t, a)' = Blending(t, a)
      /\ \A a \in 1 .. 2 : a # b /\ Blending(t, a) => Taking(t, a) /\ Taking(t, a)'
  <2>1. Step("take", Src(c, b)) \in Left(t) BY <1>0, <1>1, <1>3, DoneFacts
  <2>2. \A a \in 1 .. 2 : a # b /\ Blending(t, a) => Taking(t, a) /\ Taking(t, a)'
    BY <1>1, <1>3, <1>6 DEF Taking, Blending, Left
  <2>. QED BY <1>1, <1>6, <1>7, <2>1, <2>2, StepsDiffer DEF Loading, Taking, Putting, Blending
<1>9. x = Whole(c, buf, file, b) BY <1>3, <1>4, StepIs DEF Whole
<1>10. Held(c, x)
  <2> DEFINE B == buf[Src(c, b)]
  <2>1. B \in [1 .. Length -> Int] /\ Length \in Nat BY <1>0, <1>4, LengthFacts DEF Typed
  <2>2. x = Slice(B, c.start_src, c.dur) BY <1>3, StepIs
  <2> HIDE DEF B
  <2>3. /\ Slice(B, c.start_src, c.dur) \in Seq(Int)
        /\ Len(Slice(B, c.start_src, c.dur)) = Larger(0, Smaller(Length - c.start_src, IF c.dur < 0 THEN Length ELSE c.dur))
    BY <1>4, <2>1, SliceFacts
  <2>4. c.dur >= 0 => Larger(0, Smaller(Length - c.start_src, IF c.dur < 0 THEN Length ELSE c.dur)) <= c.dur
    BY <1>4, <2>1 DEF Larger, Smaller
  <2>. QED BY <1>4, <2>2, <2>3, <2>4 DEF Held, Signal
<1> HIDE DEF x
<1>11. Typed' BY <1>0, <1>1, <1>5, <1>6 DEF Typed
<1>12. Holds(t)' BY <1>1, <1>4, <1>5, <1>8, <1>10 DEF Holds
<1>13. Holding' BY <1>0, <1>1, <1>5, <1>6, <1>12, HeldKept
<1>14. Trunc' BY <1>0, <1>1, <1>6, <1>7, TruncKept
<1>15. Far'
  <2>1. \A u \in Threads : Busy(u)' => Busy(u) BY <1>1, <1>6 DEF Busy
  <2>. QED BY <1>0, <1>1, <2>1, FarKept
<1>16. Others(t) BY <1>1, <1>5, <1>6 DEF Others
<1>17. ASSUME NEW a \in 1 .. 2, Blending(t, a) PROVE Outcome(t, a)' = Outcome(t, a)
  <2>1. In(t, a)' = In(t, a)
    <3>1. CASE a = b BY <1>1, <1>5, <1>8, <1>9, <3>1 DEF In
    <3>2. CASE a # b BY <1>1, <1>8, <1>17, <3>2 DEF In
    <3>. QED BY <3>1, <3>2
  <2>. QED BY <1>1, <2>1 DEF Outcome
<1>18. TwinBuf' /\ TwinFile' BY <1>0, <1>1, <1>7, <1>8, <1>16, <1>17, QuietStep
<1>19. Last' BY <1>0, <1>1 DEF Last
<1>. QED BY <1>6, <1>11, <1>13, <1>14, <1>15, <1>18, <1>19 DEF IInv

\* A region to be written, copied out.
LEMMA TakeSliceInv ==
  ASSUME IInv, NEW t \in Threads, TakeSlice(t)
  PROVE  IInv'
<1>0. Typed /\ Running /\ Holding /\ Trunc /\ Far /\ TwinBuf /\ TwinFile /\ Last BY DEF IInv
<1> DEFINE c == call[t]  s == todo[t]  D == Dst(c)  x == Slice(buf[Head(s).ch], c.start_src, c.dur)
<1>1. /\ Busy(t) /\ Head(s).do = "slice" /\ Done(t) /\ held' = [held EXCEPT ![t] = Append(held[t], x)]
      /\ UNCHANGED <<buf, file, call, calls, latest, twin, apart>>
  BY DEF TakeSlice, Does, Hold
<1>2. c \in Call /\ Order(c, s) BY <1>0, <1>1, BusyFacts
<1>3. PICK k \in DOMAIN D :
        /\ Head(s) = Step("slice", D[k])
        /\ {j \in DOMAIN D : Step("slice", D[j]) \notin Range(s)} = 1 .. k - 1
        /\ {j \in DOMAIN D : Step("slice", D[j]) \notin Range(Tail(s))} = 1 .. k
  BY <1>1, <1>2 DEF Order
<1>4. c.op = "write" /\ D[k] \in 1 .. 2 /\ k \in Nat /\ c.start_src \in Nat /\ c.dur \in Int /\ DOMAIN D = 1 .. Len(D)
  BY <1>1, <1>2, DstFacts, CallFacts DEF Order
<1>5. DOMAIN held' = Threads /\ held'[t] = Append(held[t], x) /\ \A u \in Threads : u # t => held'[u] = held[u]
  BY <1>0, <1>1 DEF Typed
<1>6. /\ DOMAIN todo' = Threads /\ \A u \in Threads : u # t => todo'[u] = todo[u]
      /\ todo'[t] = Tail(s) /\ Left(t)' = Left(t) \ {Step("slice", D[k])} /\ Running'
  BY <1>0, <1>1, <1>3, DoneFacts
<1>7. ~Loading(t) /\ \A b \in 1 .. 2 : ~Blending(t, b) BY <1>0, <1>1, <1>4, BusyFacts
<1>8. /\ Putting(t)' = Putting(t) /\ Opening(t)' = Opening(t) /\ \A b \in 1 .. 2 : ~Blending(t, b)'
  BY <1>6, <1>7, StepsDiffer DEF Putting, Opening, Blending
<1>9. /\ \A j \in DOMAIN D : ~Slicing(t, D[j]) <=> j \in 1 .. k - 1
      /\ \A j \in DOMAIN D : ~Slicing(t, D[j])' <=> j \in 1 .. k
  <2>1. ASSUME NEW j \in DOMAIN D PROVE ~Slicing(t, D[j]) <=> j \in 1 .. k - 1
    <3>1. Slicing(t, D[j]) <=> Step("slice", D[j]) \in Range(s) BY DEF Slicing, Left
    <3>2. Step("slice", D[j]) \notin Range(s) <=> j \in {i \in DOMAIN D : Step("slice", D[i]) \notin Range(s)} BY <2>1
    <3>. QED BY <1>3, <3>1, <3>2
  <2>2. ASSUME NEW j \in DOMAIN D PROVE ~Slicing(t, D[j])' <=> j \in 1 .. k
    <3>1. Slicing(t, D[j])' <=> Step("slice", D[j]) \in Range(Tail(s)) BY <1>1, <1>6 DEF Slicing, Left
    <3>2. Step("slice", D[j]) \notin Range(Tail(s)) <=> j \in {i \in DOMAIN D : Step("slice", D[i]) \notin Range(Tail(s))}
      BY <2>2
    <3>. QED BY <1>3, <3>1, <3>2
  <2>. QED BY <2>1, <2>2
<1>10. x = Slice(buf[D[k]], c.start_src, c.dur) /\ x \in Signal
  <2> DEFINE B == buf[D[k]]
  <2>1. B \in [1 .. Length -> Int] /\ Length \in Nat BY <1>0, <1>4, LengthFacts DEF Typed
  <2>2. x = Slice(B, c.start_src, c.dur) BY <1>3, StepIs
  <2> HIDE DEF B
  <2>3. Slice(B, c.start_src, c.dur) \in Seq(Int) BY <1>4, <2>1, SliceFacts
  <2>. QED BY <2>2, <2>3 DEF Signal, B
<1> HIDE DEF x
<1> DEFINE h == held[t]
<1>11. h \in Seq(Signal) /\ Len(h) = k - 1
  <2>1. h \in Seq(Signal) /\ DOMAIN h = {j \in DOMAIN D : ~Slicing(t, D[j])} BY <1>0, <1>1, <1>4 DEF Holding, Holds
  <2>2. DOMAIN h = 1 .. k - 1 BY <1>4, <1>9, <2>1
  <2>3. Len(h) \in Nat /\ DOMAIN h = 1 .. Len(h) BY <2>1, LenProperties
  <2>. QED BY <1>4, <2>1, <2>2, <2>3
<1>12. /\ Append(h, x) \in Seq(Signal) /\ Len(Append(h, x)) = k /\ DOMAIN Append(h, x) = 1 .. k
       /\ Append(h, x)[k] = x /\ \A j \in 1 .. k - 1 : Append(h, x)[j] = h[j]
  <2>1. /\ Append(h, x) \in Seq(Signal) /\ Len(Append(h, x)) = Len(h) + 1
        /\ \A i \in 1 .. Len(h) : Append(h, x)[i] = h[i] /\ Append(h, x)[Len(h) + 1] = x
    BY <1>10, <1>11, AppendProperties
  <2>2. DOMAIN Append(h, x) = 1 .. Len(Append(h, x)) BY <2>1, LenProperties
  <2>3. Append(h, x)[Len(h) + 1] = x BY <1>10, <1>11, AppendProperties
  <2>. QED BY <1>4, <1>11, <2>1, <2>2, <2>3
<1>13. Typed' BY <1>0, <1>1, <1>5, <1>6 DEF Typed
<1>14. Holds(t)'
  <2>1. {j \in DOMAIN D : ~Slicing(t, D[j])'} = 1 .. k BY <1>4, <1>9
  <2>. QED BY <1>1, <1>4, <1>5, <1>12, <2>1 DEF Holds
<1>15. Holding' BY <1>0, <1>1, <1>5, <1>6, <1>14, HeldKept
<1>16. Trunc' BY <1>0, <1>1, <1>6, <1>8, TruncKept
<1>17. Far'
  <2>1. \A u \in Threads : Busy(u)' => Busy(u) BY <1>1, <1>6 DEF Busy
  <2>. QED BY <1>0, <1>1, <2>1, FarKept
<1>18. Others(t) BY <1>1, <1>5, <1>6 DEF Others
<1>19. Parts(t)' = Parts(t)
  <2>1. ASSUME NEW j \in DOMAIN D
        PROVE  (IF Slicing(t, D[j])' THEN Slice(buf[D[j]], c.start_src, c.dur) ELSE Append(h, x)[j]) =
               (IF Slicing(t, D[j]) THEN Slice(buf[D[j]], c.start_src, c.dur) ELSE h[j])
    <3>0. j \in Nat \ {0} BY <1>4
    <3>1. CASE j < k BY <3>0, <1>4, <1>9, <1>12, <3>1
    <3>2. CASE j = k BY <3>0, <1>4, <1>9, <1>10, <1>12, <3>2
    <3>3. CASE j > k BY <3>0, <1>4, <1>9, <3>3
    <3>4. j < k \/ j = k \/ j > k BY <3>0, <1>4
    <3>. QED BY <3>1, <3>2, <3>3, <3>4
  <2>. QED BY <1>1, <1>5, <2>1 DEF Parts
<1>20. TwinBuf' /\ TwinFile' BY <1>0, <1>1, <1>7, <1>8, <1>18, <1>19, QuietStep
<1>21. Last' BY <1>0, <1>1 DEF Last
<1>. QED BY <1>6, <1>13, <1>15, <1>16, <1>17, <1>20, <1>21 DEF IInv

\* A blend: the buffer is now what the standalone server has made of it.
LEMMA BlendInv ==
  ASSUME IInv, NEW t \in Threads, Blend(t)
  PROVE  IInv'
<1>0. Typed /\ Running /\ Holding /\ Trunc /\ Far /\ TwinBuf /\ TwinFile /\ Last BY DEF IInv
<1> DEFINE c == call[t]  s == todo[t]
<1>2. Busy(t) /\ Head(s).do = "blend" BY DEF Blend, Does
<1>3. PICK b \in 1 .. 2 :
        /\ b = Head(s).ch /\ b \in Range(Dst(c)) /\ Head(s) = Step("blend", b) /\ c.op # "write"
        /\ ~Loading(t) /\ ~Taking(t, b) /\ Blending(t, b) /\ c \in Call
  <2> DEFINE a == Head(s).ch
  <2>1. Leaves(c, s) /\ Order(c, s) /\ c \in Call BY <1>0, <1>2, BusyFacts
  <2>2. a \in Range(Dst(c)) /\ Head(s) = Step("blend", a) /\ c.op # "write"
        /\ Step("load", 0) \notin Range(s) /\ Step("take", Src(c, a)) \notin Range(s)
    BY <1>2, <2>1 DEF Order
  <2>3. a \in 1 .. 2 BY <2>1, <2>2, DstFacts
  <2>4. Head(s) \in Range(s) BY <2>1 DEF Leaves
  <2> HIDE DEF a
  <2>5. ~Loading(t) /\ ~Taking(t, a) /\ Blending(t, a) BY <2>2, <2>4 DEF Left, Loading, Taking, Blending
  <2>. QED BY <2>1, <2>2, <2>3, <2>5 DEF a
<1>1. /\ Done(t)
      /\ buf' = [buf EXCEPT ![b] = Apply(@, c.start_dst * Rate, Source(c, held[t], b), c.preserve, Mix(c), c.fade)]
      /\ UNCHANGED <<file, call, held, calls, latest, twin, apart>>
  BY <1>3 DEF Blend
<1>4. /\ DOMAIN todo' = Threads /\ \A u \in Threads : u # t => todo'[u] = todo[u]
      /\ todo'[t] = Tail(s) /\ Left(t)' = Left(t) \ {Step("blend", b)} /\ Running'
  BY <1>0, <1>1, <1>2, <1>3, DoneFacts
<1>5. In(t, b) = held[t] BY <1>3 DEF In
<1>6. buf'[b] = Outcome(t, b) /\ \A a \in 1 .. 2 : a # b => buf'[a] = buf[a]
  <2>1. buf \in [1 .. 2 -> [1 .. Length -> Int]] BY <1>0 DEF Typed
  <2>. QED BY <1>1, <1>2, <1>3, <1>5, <2>1 DEF Outcome, Blended
<1>7. Held(c, held[t])
  <2>1. Holds(t) BY <1>0, <1>1, <1>2 DEF Holding
  <2>. QED BY <1>3, <2>1 DEF Holds, Held
<1>8. buf' \in [1 .. 2 -> [1 .. Length -> Int]]
  <2>1. buf \in [1 .. 2 -> [1 .. Length -> Int]] BY <1>0 DEF Typed
  <2> DEFINE y == Apply(buf[b], c.start_dst * Rate, Source(c, held[t], b), c.preserve, Mix(c), c.fade)
  <2>2. y = Blended(c, buf[b], held[t], b) BY DEF Blended
  <2>3. buf[b] \in [1 .. Length -> Int] BY <1>3, <2>1
  <2>4. y \in [1 .. Length -> Int] BY <1>2, <1>3, <1>7, <2>2, <2>3, BlendedFacts
  <2>5. buf' = [buf EXCEPT ![b] = y] BY <1>1, <1>2
  <2> HIDE DEF y
  <2>. QED BY <2>1, <2>4, <2>5
<1>9. Typed' BY <1>0, <1>1, <1>2, <1>4, <1>8 DEF Typed
<1>10. /\ ~Loading(t)' /\ ~Blending(t, b)' /\ Putting(t)' = Putting(t) /\ ~Putting(t) /\ ~Opening(t)'
       /\ \A a \in 1 .. 2 : a # b => Blending(t, a)' = Blending(t, a)
       /\ \A a : Taking(t, a)' = Taking(t, a)
  <2>1. ~Putting(t) /\ ~Opening(t) BY <1>0, <1>1, <1>2, <1>3, BusyFacts
  <2>2. \A a : Taking(t, a)' = Taking(t, a) BY <1>1, <1>4, StepsDiffer DEF Taking
  <2>. QED BY <1>1, <1>3, <1>4, <2>1, <2>2, StepsDiffer DEF Loading, Blending, Putting, Opening
<1>11. Holds(t)'
  <2>1. Holds(t) BY <1>0, <1>1, <1>2 DEF Holding
  <2>2. \A a \in 1 .. 2 : Blending(t, a)' => Blending(t, a) BY <1>4 DEF Blending
  <2>. QED BY <1>1, <1>2, <1>3, <1>10, <2>1, <2>2 DEF Holds
<1>12. Holding' BY <1>0, <1>1, <1>2, <1>4, <1>11, HeldKept
<1>13. Trunc' BY <1>0, <1>1, <1>2, <1>4, <1>10, TruncKept
<1>14. Far'
  <2>1. \A u \in Threads : Busy(u)' => Busy(u) BY <1>1, <1>2, <1>4 DEF Busy
  <2>. QED BY <1>0, <1>1, <1>2, <2>1, FarKept
<1>15. Writes(c) = Range(Dst(c)) /\ b \in Writes(c) BY <1>2, <1>3, UsesFacts
<1>16. Others(t) BY <1>1, <1>2, <1>4, <1>6, <1>15 DEF Others
\* A second blend of the same call has the other buffer for its source, or the file.
<1>17. ASSUME NEW a \in 1 .. 2, Blending(t, a), a # b PROVE Outcome(t, a)' = Outcome(t, a)
  <2>1. a \in Range(Dst(c)) BY <1>0, <1>1, <1>2, <1>17, BusyFacts
  <2>2. c.stereo BY <1>2, <1>3, <1>17, <2>1, DstFacts, CallFacts
  <2>3. Src(c, a) = a BY <2>2 DEF Src
  <2>4. In(t, a)' = In(t, a)
    <3>1. c.op = "copy" => Whole(c, buf', file, a) = Whole(c, buf, file, a) BY <1>6, <1>17, <2>3 DEF Whole
    <3>2. Taking(t, a) => c.op = "copy" BY <1>0, <1>1, <1>2, BusyFacts
    <3>. QED BY <1>1, <1>2, <1>3, <1>10, <3>1, <3>2 DEF In
  <2>. QED BY <1>1, <1>2, <1>6, <1>17, <2>4 DEF Outcome
<1>18. TwinBuf'
  <2> SUFFICES ASSUME apart, NEW a \in 1 .. 2
               PROVE  /\ \A u \in Threads : Blending(u, a)' => twin.buf[a] = Outcome(u, a)'
                      /\ (\A u \in Threads : ~Blending(u, a)') => twin.buf[a] = buf'[a]
    BY <1>1, <1>2 DEF TwinBuf
  <2>1. CASE a = b
    <3>1. \A u \in Threads : ~Blending(u, b)'
      <4>1. ASSUME NEW u \in Threads, u # t PROVE ~Blending(u, b)'
        <5>1. /\ Left(u)' = Left(u)
              /\ Blending(u, b) => b \notin Writes(c)
          BY <1>0, <1>1, <1>2, <1>3, <1>16, <4>1, OthersKept
        <5>. QED BY <1>15, <5>1 DEF Blending
      <4>. QED BY <4>1, <1>10
    <3>2. twin.buf[b] = buf'[b] BY <1>0, <1>3, <1>6 DEF TwinBuf
    <3>. QED BY <2>1, <3>1, <3>2
  <2>2. CASE a # b
    <3>1. ASSUME NEW u \in Threads
          PROVE  /\ Blending(u, a)' <=> Blending(u, a)
                 /\ Blending(u, a) => Outcome(u, a)' = Outcome(u, a)
      <4>1. CASE u = t BY <1>10, <1>17, <2>2, <4>1
      <4>2. CASE u # t BY <1>0, <1>1, <1>2, <1>16, <4>2, OthersKept DEF Blending
      <4>. QED BY <4>1, <4>2
    <3>. QED BY <1>0, <1>6, <2>2, <3>1 DEF TwinBuf
  <2>. QED BY <2>1, <2>2
<1>19. TwinFile'
  <2> SUFFICES ASSUME apart PROVE TwinFile' BY <1>1, <1>2 DEF TwinFile
  <2>1. ASSUME NEW u \in Threads PROVE (Putting(u)' <=> Putting(u)) /\ (Putting(u) => Parts(u)' = Parts(u))
    <3>1. CASE u = t BY <1>10, <3>1
    <3>2. CASE u # t BY <1>0, <1>1, <1>2, <1>16, <3>2, OthersKept DEF Putting
    <3>. QED BY <3>1, <3>2
  <2>. QED BY <1>0, <1>1, <1>2, <2>1 DEF TwinFile
<1>20. Last' BY <1>0, <1>1, <1>2 DEF Last
<1>. QED BY <1>4, <1>9, <1>12, <1>13, <1>14, <1>18, <1>19, <1>20 DEF IInv

\* wave.open.
LEMMA OpenInv ==
  ASSUME IInv, NEW t \in Threads, Open(t)
  PROVE  IInv'
<1>0. Typed /\ Running /\ Holding /\ Trunc /\ Far /\ TwinBuf /\ TwinFile /\ Last BY DEF IInv
<1> DEFINE c == call[t]  s == todo[t]
<1>1. /\ Busy(t) /\ Head(s).do = "open" /\ Done(t) /\ file' = Truncated
      /\ UNCHANGED <<buf, call, held, calls, latest, twin, apart>>
  BY DEF Open, Does
<1>2. c \in Call /\ Order(c, s) /\ Leaves(c, s) BY <1>0, <1>1, BusyFacts
<1>3. Head(s) = Step("open", 0) /\ c.op = "write" /\ Putting(t)
  BY <1>1, <1>2 DEF Order, Leaves, Putting, Left
<1>4. /\ DOMAIN todo' = Threads /\ \A u \in Threads : u # t => todo'[u] = todo[u]
      /\ todo'[t] = Tail(s) /\ Left(t)' = Left(t) \ {Step("open", 0)} /\ Running'
  BY <1>0, <1>1, <1>3, DoneFacts
<1>5. ~Opening(t)' /\ Putting(t)' /\ \A b : Slicing(t, b)' = Slicing(t, b)
  BY <1>3, <1>4, StepsDiffer DEF Opening, Putting, Slicing
<1>6. \A b \in 1 .. 2 : ~Blending(t, b) /\ ~Blending(t, b)'
  BY <1>0, <1>1, <1>3, <1>4, BusyFacts DEF Blending
<1>7. Holds(t)'
  <2>1. Holds(t) BY <1>0, <1>1 DEF Holding
  <2>. QED BY <1>1, <1>3, <1>5, <2>1 DEF Holds
<1>8. Typed' BY <1>0, <1>1, <1>4 DEF Typed
<1>9. Holding' BY <1>0, <1>1, <1>4, <1>7, HeldKept
<1>10. Trunc' BY <1>5 DEF Trunc
<1>11. Far'
  <2>1. \A u \in Threads : Busy(u)' => Busy(u) BY <1>1, <1>4 DEF Busy
  <2>. QED BY <1>0, <1>1, <2>1, FarKept
<1>12. Others(t) BY <1>1, <1>2, <1>3, <1>4, UsesFacts DEF Others
<1>13. Parts(t)' = Parts(t) BY <1>1, <1>5 DEF Parts
<1>14. ASSUME apart, NEW u \in Threads
       PROVE  /\ Putting(u) => Parts(u)' = Parts(u)
              /\ Putting(u)' <=> Putting(u)
              /\ \A b \in 1 .. 2 : Blending(u, b)' <=> Blending(u, b)
              /\ \A b \in 1 .. 2 : Blending(u, b) => Outcome(u, b)' = Outcome(u, b)
  <2>1. CASE u = t BY <1>3, <1>5, <1>6, <1>13, <2>1
  <2>2. CASE u # t BY <1>0, <1>1, <1>12, <1>14, <2>2, OthersKept DEF Putting, Blending
  <2>. QED BY <2>1, <2>2
<1>15. TwinBuf' BY <1>0, <1>1, <1>14 DEF TwinBuf
<1>16. TwinFile' BY <1>0, <1>1, <1>5, <1>14 DEF TwinFile
<1>17. Last' BY <1>0, <1>1 DEF Last
<1>. QED BY <1>4, <1>8, <1>9, <1>10, <1>11, <1>15, <1>16, <1>17 DEF IInv

\* The frames written: the file is now what the standalone server has written.
LEMMA PutInv ==
  ASSUME IInv, NEW t \in Threads, Put(t)
  PROVE  IInv'
<1>0. Typed /\ Running /\ Holding /\ Trunc /\ Far /\ TwinBuf /\ TwinFile /\ Last BY DEF IInv
<1> DEFINE c == call[t]  s == todo[t]  n == Len(Dst(c))  h == held[t]
<1>1. /\ Busy(t) /\ Head(s).do = "put" /\ Done(t) /\ file' = WavOf(h)
      /\ UNCHANGED <<buf, call, held, calls, latest, twin, apart>>
  BY DEF Put, Does
<1>2. c \in Call /\ Order(c, s) /\ Leaves(c, s) BY <1>0, <1>1, BusyFacts
<1>3. /\ Head(s) = Step("put", 0) /\ c.op = "write" /\ Putting(t) /\ ~Opening(t)
      /\ \A k \in DOMAIN Dst(c) : ~Slicing(t, Dst(c)[k])
  BY <1>1, <1>2 DEF Order, Leaves, Putting, Opening, Slicing, Left
<1>4. /\ DOMAIN todo' = Threads /\ \A u \in Threads : u # t => todo'[u] = todo[u]
      /\ todo'[t] = Tail(s) /\ Left(t)' = Left(t) \ {Step("put", 0)} /\ Running'
  BY <1>0, <1>1, <1>3, DoneFacts
<1>5. n \in 1 .. 2 /\ DOMAIN Dst(c) = 1 .. n BY <1>2, DstFacts
<1>6. h \in [1 .. n -> Signal] /\ Parts(t) = h
  <2>1. h \in Seq(Signal) /\ DOMAIN h = {k \in DOMAIN Dst(c) : ~Slicing(t, Dst(c)[k])} BY <1>0, <1>1, <1>3 DEF Holding, Holds
  <2>2. DOMAIN h = 1 .. n BY <1>3, <1>5, <2>1
  <2>3. \A k \in 1 .. n : h[k] \in Signal BY <2>1, <2>2, ElementOfSeq, LenProperties
  <2>4. h = [k \in DOMAIN h |-> h[k]] BY <2>1, SeqDef
  <2>5. h = [k \in 1 .. n |-> h[k]] BY <2>2, <2>4
  <2>6. h \in [1 .. n -> Signal] BY <2>3, <2>5
  <2>7. Parts(t) = [k \in 1 .. n |-> h[k]] BY <1>3, <1>5 DEF Parts
  <2>. QED BY <2>5, <2>6, <2>7
<1>7. file' \in WavFile(n) /\ file'.channels = n
  <2> HIDE DEF n, h
  <2>. QED BY <1>1, <1>5, <1>6, WavOfFacts
<1>8. file' # Truncated
  <2>1. Truncated.channels = 0 BY DEF Truncated
  <2> HIDE DEF n
  <2>. QED BY <1>5, <1>7, <2>1
<1>9. Typed' BY <1>0, <1>1, <1>4, <1>5, <1>7 DEF Typed
<1>10. ~Putting(t)' /\ \A b : Slicing(t, b)' = Slicing(t, b)
  BY <1>3, <1>4, StepsDiffer DEF Putting, Slicing
<1>11. \A b \in 1 .. 2 : ~Blending(t, b) /\ ~Blending(t, b)'
  BY <1>0, <1>1, <1>3, <1>4, BusyFacts DEF Blending
<1>12. Holds(t)'
  <2>1. Holds(t) BY <1>0, <1>1 DEF Holding
  <2>. QED BY <1>1, <1>3, <1>10, <2>1 DEF Holds
<1>13. Holding' BY <1>0, <1>1, <1>4, <1>12, HeldKept
<1>14. Trunc' BY <1>8 DEF Trunc
<1>15. Far'
  <2>1. \A u \in Threads : Busy(u)' => Busy(u) BY <1>1, <1>4 DEF Busy
  <2>. QED BY <1>0, <1>1, <2>1, FarKept
<1>16. 0 \in Writes(c) BY <1>2, <1>3, UsesFacts
<1>17. Others(t) BY <1>1, <1>4, <1>16 DEF Others
<1>18. ASSUME apart, NEW u \in Threads
       PROVE  /\ ~Putting(u)'
              /\ \A b \in 1 .. 2 : Blending(u, b)' <=> Blending(u, b)
              /\ \A b \in 1 .. 2 : Blending(u, b) => Outcome(u, b)' = Outcome(u, b)
  <2>1. CASE u = t BY <1>10, <1>11, <2>1
  <2>2. CASE u # t BY <1>0, <1>1, <1>16, <1>17, <1>18, <2>2, OthersKept DEF Putting, Blending
  <2>. QED BY <2>1, <2>2
<1>19. TwinBuf' BY <1>0, <1>1, <1>18 DEF TwinBuf
<1>20. TwinFile' BY <1>0, <1>1, <1>3, <1>6, <1>18 DEF TwinFile
<1>21. Last' BY <1>0, <1>1 DEF Last
<1>. QED BY <1>4, <1>9, <1>13, <1>14, <1>15, <1>19, <1>20, <1>21 DEF IInv

-----------------------------------------------------------------------------
(* Begin *)

\* What the standalone server makes of a call other than a write.
LEMMA CallsAgree ==
  ASSUME NEW c \in Call, c.op # "write", NEW B \in [1 .. 2 -> [1 .. Length -> Int]], NEW f,
         c.op = "clear" => c.start_dst >= 0 /\ c.preserve = 0,
         c.op = "read" => \E n \in 1 .. 2 : f \in WavFile(n)
  PROVE  Agrees(c, [buf |-> B, file |-> f])
<1>1. c.op \in {"read", "clear", "copy"} BY CallFacts
<1>2. CASE c.op = "read"
  <2>1. PICK n \in 1 .. 2 : f \in WavFile(n) BY <1>2
  <2>. QED BY <1>2, <2>1, ReadsAgree
<1>. QED BY <1>1, <1>2, ClearsAgree, CopiesAgree

\* T is what a call other than a write makes of buffers B and file f.
Makes(c, B, f, T) ==
  /\ T = [buf |-> T.buf, file |-> f] /\ T.buf \in [1 .. 2 -> [1 .. Length -> Int]]
  /\ \A b \in 1 .. 2 :
       T.buf[b] = IF b \in Range(Dst(c)) THEN Blended(c, B[b], Whole(c, B, f, b), b) ELSE B[b]

\* So does the standalone server, when it is level with the Python layer.
LEMMA BeginsAgree ==
  ASSUME NEW c \in Call, c.op # "write", NEW B \in [1 .. 2 -> [1 .. Length -> Int]], NEW f,
         c.op = "clear" => c.start_dst >= 0 /\ c.preserve = 0,
         c.op = "read" => \E n \in 1 .. 2 : f \in WavFile(n)
  PROVE  Makes(c, B, f, Standalone([buf |-> B, file |-> f], c))
<1> DEFINE t == [buf |-> B, file |-> f]  T == Standalone(t, c)
<1>1. Agrees(c, t) BY CallsAgree
<1>2. /\ T.file = f
      /\ T.buf = [b \in 1 .. 2 |-> IF b \in Range(Dst(c)) THEN Blended(c, B[b], Whole(c, B, f, b), b) ELSE B[b]]
  BY <1>1 DEF Agrees
<1>3. T = [buf |-> T.buf, file |-> T.file] BY CallFacts DEF Standalone, SRead, SClear, SCopy
<1>4. ASSUME NEW b \in Range(Dst(c)) PROVE Blended(c, B[b], Whole(c, B, f, b), b) \in [1 .. Length -> Int]
  <2>1. b \in 1 .. 2 /\ B[b] \in [1 .. Length -> Int] BY DstFacts
  <2>2. Held(c, Whole(c, B, f, b))
    <3>1. CASE c.op = "copy"
      <4> DEFINE x == B[Src(c, b)]
      <4>1. Src(c, b) \in 1 .. 2 /\ c.start_src \in Nat /\ c.dur \in Int /\ Length \in Nat
        BY <3>1, UsesFacts, CallFacts, LengthFacts
      <4>2. x \in [1 .. Length -> Int] BY <4>1
      <4>3. Whole(c, B, f, b) = Slice(x, c.start_src, c.dur) BY <3>1 DEF Whole
      <4> HIDE DEF x
      <4>4. /\ Slice(x, c.start_src, c.dur) \in Seq(Int)
            /\ Len(Slice(x, c.start_src, c.dur)) = Larger(0, Smaller(Length - c.start_src, IF c.dur < 0 THEN Length ELSE c.dur))
        BY <4>1, <4>2, SliceFacts
      <4>5. c.dur >= 0 => Larger(0, Smaller(Length - c.start_src, IF c.dur < 0 THEN Length ELSE c.dur)) <= c.dur
        BY <4>1 DEF Larger, Smaller
      <4>. QED BY <3>1, <4>3, <4>4, <4>5 DEF Held, Signal
    <3>2. CASE c.op # "copy" BY <3>2 DEF Held, Whole
    <3>. QED BY <3>1, <3>2
  <2>. QED BY <2>1, <2>2, BlendedFacts
<1>5. T.buf \in [1 .. 2 -> [1 .. Length -> Int]] BY <1>2, <1>4
<1> HIDE DEF T
<1>6. Makes(c, B, f, T) BY <1>2, <1>3, <1>5 DEF Makes
<1>. QED BY <1>6 DEF T

\* Outside what the calls in progress are writing, the two hosts are level.
LEMMA Level ==
  ASSUME IInv, apart, NEW c \in Call, \A u \in Threads : Busy(u) => ~Touch(c, call[u])
  PROVE  /\ \A b \in 1 .. 2 : b \in Uses(c) => twin.buf[b] = buf[b] /\ \A u \in Threads : ~Blending(u, b)
         /\ 0 \in Uses(c) => /\ twin.file = file /\ (\A u \in Threads : ~Putting(u))
                             /\ \E n \in 1 .. 2 : file \in WavFile(n)
<1>0. Typed /\ Running /\ Trunc /\ TwinBuf /\ TwinFile BY DEF IInv
<1>1. ASSUME NEW u \in Threads, NEW b \in 1 .. 2, b \in Uses(c) PROVE ~Blending(u, b)
  <2>1. SUFFICES ASSUME Blending(u, b) PROVE FALSE OBVIOUS
  <2>2. Busy(u) BY <2>1, Waiting
  <2>3. call[u] \in Call /\ b \in Writes(call[u]) BY <1>0, <2>1, <2>2, BusyFacts, UsesFacts
  <2>. QED BY <1>1, <2>2, <2>3 DEF Touch
<1>2. ASSUME NEW u \in Threads, 0 \in Uses(c) PROVE ~Putting(u)
  <2>1. SUFFICES ASSUME Putting(u) PROVE FALSE OBVIOUS
  <2>2. Busy(u) BY <2>1, Waiting
  <2>3. call[u] \in Call /\ 0 \in Writes(call[u]) BY <1>0, <2>1, <2>2, BusyFacts, UsesFacts
  <2>. QED BY <1>2, <2>2, <2>3 DEF Touch
<1>. QED BY <1>0, <1>1, <1>2 DEF Typed, Trunc, TwinBuf, TwinFile

\* A call begins: the standalone server makes all of it at once.
LEMMA BeginInv ==
  ASSUME IInv, NEW t \in Threads, NEW c \in Calls, Begin(t, c)
  PROVE  IInv'
<1>0. Typed /\ Running /\ Holding /\ Trunc /\ Far /\ TwinBuf /\ TwinFile /\ Last BY DEF IInv
<1>1. c \in Call BY BuffersAssumption
<1> DEFINE S == Script(c)  D == Dst(c)
<1>2. /\ ~Busy(t) /\ latest' = t /\ UNCHANGED <<buf, file>>
      /\ twin' = IF apart' THEN Standalone(twin, c) ELSE twin
      /\ apart' \in BOOLEAN
      /\ apart' => apart /\ (c.op = "clear" => c.start_dst >= 0 /\ c.preserve = 0)
                   /\ \A u \in Threads : Busy(u) => ~Touch(c, call[u])
  BY DEF Begin
<1>3. /\ DOMAIN call' = Threads /\ DOMAIN todo' = Threads /\ DOMAIN held' = Threads
      /\ call'[t] = c /\ todo'[t] = S /\ held'[t] = <<>>
      /\ \A u \in Threads : u # t => call'[u] = call[u] /\ todo'[u] = todo[u] /\ held'[u] = held[u]
  BY <1>0 DEF Begin, Typed
<1>4. S \in Rest(c) /\ S # <<>> /\ Leaves(c, S) BY <1>1, ScriptFacts, RestFacts
<1>5. /\ Loading(t)' <=> c.op = "read"
      /\ \A b \in 1 .. 2 : Blending(t, b)' <=> (c.op # "write" /\ b \in Range(D))
      /\ \A b \in Range(D) : Taking(t, b)' <=> c.op = "copy"
      /\ \A b \in Range(D) : c.op = "write" => Slicing(t, b)'
      /\ Putting(t)' <=> c.op = "write"
  <2>1. Left(t)' = Range(S) BY <1>3 DEF Left
  <2>2. \A b \in Range(D) : Taking(t, b)' <=> c.op = "copy"
    BY <1>1, <1>3, <1>4, <2>1, ScriptFacts DEF Taking, Leaves
  <2>3. (Loading(t)' <=> c.op = "read") /\ (Putting(t)' <=> c.op = "write")
    BY <1>1, <2>1, ScriptFacts DEF Loading, Putting
  <2>4. \A b \in 1 .. 2 : Blending(t, b)' <=> (c.op # "write" /\ b \in Range(D))
    BY <1>1, <2>1, ScriptFacts DEF Blending
  <2>5. \A b \in Range(D) : c.op = "write" => Slicing(t, b)' BY <1>1, <2>1, ScriptFacts DEF Slicing
  <2>. QED BY <2>2, <2>3, <2>4, <2>5
<1>6. ASSUME NEW u \in Threads, u # t
      PROVE  /\ Left(u)' = Left(u) /\ Parts(u)' = Parts(u) /\ (Holds(u) => Holds(u)')
             /\ \A b \in 1 .. 2 : (Blending(u, b)' <=> Blending(u, b)) /\ Outcome(u, b)' = Outcome(u, b)
             /\ Putting(u)' <=> Putting(u)
  <2>1. Left(u)' = Left(u) BY <1>3, <1>6 DEF Left
  <2>2. Parts(u)' = Parts(u) BY <1>2, <1>3, <1>6, PartsKept
  <2>3. Holds(u) => Holds(u)' BY <1>3, <1>6, HoldsKept
  <2>4. \A b \in 1 .. 2 : In(u, b)' = In(u, b)
    BY <1>2, <1>3, <1>6, <2>1 DEF In, Loading, Taking, Whole
  <2>. QED BY <1>2, <1>3, <1>6, <2>1, <2>2, <2>3, <2>4 DEF Outcome, Blending, Putting
<1>7. Running' BY <1>0, <1>1, <1>3, <1>4 DEF Running, Busy
<1>8. Holding'
  <2>1. Holds(t)'
    <3>1. c.op = "copy" => \A b \in 1 .. 2 : Blending(t, b)' => Taking(t, b)' BY <1>5
    <3>2. c.op = "write" => {k \in DOMAIN D : ~Slicing(t, D[k])'} = {} BY <1>1, <1>5, DstFacts
    <3>3. <<>> \in Seq(Signal) /\ DOMAIN <<>> = {} BY EmptySeq
    <3>. QED BY <1>3, <1>5, <3>1, <3>2, <3>3 DEF Holds
  <2>2. ASSUME NEW u \in Threads, u # t, Busy(u)' PROVE Holds(u)'
    BY <1>0, <1>3, <1>6, <2>2 DEF Holding, Busy
  <2>. QED BY <2>1, <2>2 DEF Holding
<1>9. Trunc'
  <2>1. ~Putting(t) BY <1>2, Waiting
  <2>. QED BY <1>0, <1>2, <1>6, <2>1 DEF Trunc, Opening, Putting
<1>10. Far'
  <2> SUFFICES ASSUME apart', NEW u \in Threads, NEW v \in Threads, u # v, Busy(u)', Busy(v)'
               PROVE  ~Touch(call'[u], call'[v])
    BY DEF Far, Touch, Writes, Uses
  <2>1. CASE u = t BY <1>2, <1>3, <2>1 DEF Busy
  <2>2. CASE v = t
    <3>1. Busy(u) /\ call'[u] = call[u] BY <1>3, <2>2 DEF Busy
    <3>2. ~Touch(c, call[u]) BY <1>2, <3>1
    <3>. QED BY <1>3, <2>2, <3>1, <3>2 DEF Touch
  <2>3. CASE u # t /\ v # t BY <1>0, <1>2, <1>3, <2>3 DEF Far, Busy
  <2>. QED BY <2>1, <2>2, <2>3
<1>11. CASE ~apart'
  <2>1. Typed' BY <1>0, <1>1, <1>2, <1>3, <1>11 DEF Typed
  <2>. QED BY <1>7, <1>8, <1>9, <1>10, <1>11, <2>1 DEF IInv, TwinBuf, TwinFile, Last
<1>12. CASE apart'
  <2> DEFINE B == twin.buf  f == twin.file
  <2>1. twin = [buf |-> B, file |-> f] /\ B \in [1 .. 2 -> [1 .. Length -> Int]] BY <1>0 DEF Typed
  <2>2. /\ apart /\ (c.op = "clear" => c.start_dst >= 0 /\ c.preserve = 0)
        /\ \A u \in Threads : Busy(u) => ~Touch(c, call[u])
        /\ twin' = Standalone([buf |-> B, file |-> f], c)
    BY <1>2, <1>12, <2>1
  <2>3. /\ \A b \in 1 .. 2 : b \in Uses(c) => B[b] = buf[b] /\ \A u \in Threads : ~Blending(u, b)
        /\ 0 \in Uses(c) => f = file /\ (\A u \in Threads : ~Putting(u)) /\ \E n \in 1 .. 2 : file \in WavFile(n)
    BY <1>1, <2>2, Level
  <2>4. ~Putting(t) /\ \A b \in 1 .. 2 : ~Blending(t, b) BY <1>2, Waiting
  <2> HIDE DEF B, f
  <2>5. CASE c.op = "write"
    <3>1. twin' = [buf |-> B, file |-> WavOf(Slices(c, B))] BY <1>1, <2>1, <2>2, <2>5, WritesAgree
    <3>2. Typed' BY <1>0, <1>1, <1>2, <1>3, <2>1, <3>1 DEF Typed
    <3>3. Last' BY <1>2, <1>3, <3>1 DEF Last
    <3>4. Parts(t)' = Slices(c, B)
      <4>1. \A k \in DOMAIN D : Slicing(t, D[k])' /\ B[D[k]] = buf[D[k]]
        BY <1>1, <1>5, <2>3, <2>5, DstFacts, UsesFacts
      <4>. QED BY <1>2, <1>3, <4>1 DEF Parts, Slices
    <3>5. 0 \in Uses(c) BY <1>1, <2>5, UsesFacts
    <3>6. TwinFile' BY <1>5, <1>6, <2>3, <2>5, <3>1, <3>4, <3>5 DEF TwinFile
    <3>7. TwinBuf'
      <4>1. \A b \in 1 .. 2 : twin'.buf[b] = twin.buf[b] BY <3>1 DEF B
      <4>2. \A b \in 1 .. 2 : ~Blending(t, b)' BY <1>5, <2>5
      <4>. QED BY <1>0, <1>2, <1>6, <2>2, <2>4, <4>1, <4>2 DEF TwinBuf
    <3>. QED BY <1>7, <1>8, <1>9, <1>10, <3>2, <3>3, <3>6, <3>7 DEF IInv
  <2>6. CASE c.op # "write"
    <3>1. c.op = "read" => \E n \in 1 .. 2 : f \in WavFile(n) BY <1>1, <2>3, UsesFacts
    <3>2. /\ twin' = [buf |-> twin'.buf, file |-> f] /\ twin'.buf \in [1 .. 2 -> [1 .. Length -> Int]]
          /\ \A b \in 1 .. 2 :
               twin'.buf[b] = IF b \in Range(D) THEN Blended(c, B[b], Whole(c, B, f, b), b) ELSE B[b]
      <4>1. Makes(c, B, f, Standalone([buf |-> B, file |-> f], c)) BY <1>1, <2>1, <2>2, <2>6, <3>1, BeginsAgree
      <4>. QED BY <2>2, <4>1 DEF Makes
    <3>3. Typed' BY <1>0, <1>1, <1>2, <1>3, <3>2 DEF Typed
    <3>4. Last' BY <1>2, <1>3, <2>6 DEF Last
    <3>5. TwinFile'
      <4>1. twin'.file = twin.file BY <3>2 DEF f
      <4>2. ~Putting(t)' /\ ~Putting(t) BY <1>5, <2>4, <2>6
      <4>. QED BY <1>0, <1>2, <1>6, <2>2, <4>1, <4>2 DEF TwinFile
    <3>6. ASSUME NEW b \in Range(D) PROVE twin'.buf[b] = Outcome(t, b)'
      <4>1. b \in 1 .. 2 /\ b \in Uses(c) BY <1>1, <2>6, DstFacts, UsesFacts
      <4>2. Whole(c, B, f, b) = Whole(c, buf, file, b) BY <1>1, <2>3, UsesFacts DEF Whole
      <4>3. In(t, b)' = Whole(c, buf, file, b)
        <5>1. CASE c.op = "clear" BY <1>3, <1>5, <5>1 DEF In, Whole
        <5>2. CASE c.op \in {"read", "copy"} BY <1>2, <1>3, <1>5, <5>2 DEF In
        <5>. QED BY <1>1, <2>6, <5>1, <5>2, CallFacts
      <4>. QED BY <1>2, <1>3, <2>3, <3>2, <4>1, <4>2, <4>3 DEF Outcome
    <3>7. TwinBuf'
      <4> SUFFICES ASSUME NEW b \in 1 .. 2
                   PROVE  /\ \A u \in Threads : Blending(u, b)' => twin'.buf[b] = Outcome(u, b)'
                          /\ (\A u \in Threads : ~Blending(u, b)') => twin'.buf[b] = buf'[b]
        BY DEF TwinBuf
      <4>1. CASE b \in Range(D)
        <5>1. \A u \in Threads : u # t => ~Blending(u, b)' BY <1>1, <1>6, <2>3, <2>6, <4>1, UsesFacts
        <5>2. Blending(t, b)' BY <1>5, <2>6, <4>1
        <5>. QED BY <3>6, <4>1, <5>1, <5>2
      <4>2. CASE b \notin Range(D)
        <5>1. ~Blending(t, b)' /\ twin'.buf[b] = twin.buf[b] BY <1>5, <3>2, <4>2 DEF B
        <5>. QED BY <1>0, <1>2, <1>6, <2>2, <2>4, <5>1 DEF TwinBuf
      <4>. QED BY <4>1, <4>2
    <3>. QED BY <1>7, <1>8, <1>9, <1>10, <3>3, <3>4, <3>5, <3>7 DEF IInv
  <2>. QED BY <2>5, <2>6
<1>. QED BY <1>2, <1>11, <1>12

-----------------------------------------------------------------------------
(* Theorems *)

\* The initial states.
LEMMA Start == Init => IInv
<1> SUFFICES ASSUME Init PROVE IInv OBVIOUS
<1>0. Length \in Nat /\ Content \in [1 .. 2 -> Seq(Int)] /\ Wav \in Seq([1 .. 2 -> Codes])
  BY LengthFacts, BuffersAssumption
<1>1. buf \in [1 .. 2 -> [1 .. Length -> Int]]
  <2>1. ASSUME NEW b \in 1 .. 2, NEW i \in 1 .. Length
        PROVE  (IF i \in DOMAIN Content[b] THEN Content[b][i] ELSE 0) \in Int
    <3> DEFINE s == Content[b]
    <3>1. s \in Seq(Int) BY <1>0
    <3> HIDE DEF s
    <3>2. i \in DOMAIN s => s[i] \in Int BY <3>1, ElementOfSeq, LenProperties
    <3>. QED BY <3>2 DEF s
  <2>. QED BY <2>1 DEF Init
<1>2. file \in WavFile(2) BY <1>0 DEF Init, WavFile
<1>3. file # Truncated BY DEF Init, Truncated
<1>4. /\ DOMAIN call = Threads /\ DOMAIN todo = Threads /\ DOMAIN held = Threads
      /\ latest \in Threads /\ \A t \in Threads : call[t].op = "none" /\ ~Busy(t)
  BY DEF Init, Busy
<1>5. twin = [buf |-> buf, file |-> file] /\ apart = TRUE BY DEF Init
<1>6. \A t \in Threads : ~Putting(t) /\ \A b : ~Blending(t, b) BY <1>4, Waiting
<1>7. Typed BY <1>1, <1>2, <1>4, <1>5 DEF Typed
<1>8. Running /\ Holding /\ Trunc /\ Far BY <1>3, <1>4 DEF Running, Holding, Trunc, Far
<1>9. TwinBuf /\ TwinFile /\ Last BY <1>4, <1>5, <1>6 DEF TwinBuf, TwinFile, Last
<1>. QED BY <1>7, <1>8, <1>9 DEF IInv

\* Nothing changes.
LEMMA Stutters == IInv /\ UNCHANGED vars => IInv'
<1> SUFFICES ASSUME IInv, UNCHANGED vars PROVE IInv' OBVIOUS
<1>1. UNCHANGED <<buf, file, call, todo, held, latest, twin, apart>> BY DEF vars
<1>2. \A t \in Threads : Left(t)' = Left(t) BY <1>1 DEF Left
<1>3. \A t \in Threads : Holds(t)' = Holds(t) /\ Parts(t)' = Parts(t) /\ Putting(t)' = Putting(t)
         /\ Opening(t)' = Opening(t) /\ Busy(t)' = Busy(t)
  BY <1>1, <1>2 DEF Holds, Parts, Putting, Opening, Busy, Slicing, Loading, Taking, Blending
<1>4. \A t \in Threads : \A b \in 1 .. 2 : Blending(t, b)' = Blending(t, b) /\ Outcome(t, b)' = Outcome(t, b)
  BY <1>1, <1>2 DEF Blending, Outcome, In, Loading, Taking, Whole
<1>5. Typed' /\ Running' /\ Last' BY <1>1 DEF IInv, Typed, Running, Busy, Last
<1>6. Holding' /\ Trunc' BY <1>1, <1>3 DEF IInv, Holding, Trunc
<1>7. Far' BY <1>1 DEF IInv, Far, Busy
<1>8. TwinBuf' /\ TwinFile' BY <1>1, <1>3, <1>4 DEF IInv, TwinBuf, TwinFile
<1>. QED BY <1>5, <1>6, <1>7, <1>8 DEF IInv

\* IInv is inductive.
THEOREM Invariance == Spec => []IInv
<1>1. IInv /\ [Next]_vars => IInv'
  <2> SUFFICES ASSUME IInv, [Next]_vars PROVE IInv' OBVIOUS
  <2>1. ASSUME NEW t \in Threads, NEW c \in Calls, Begin(t, c) PROVE IInv' BY <2>1, BeginInv
  <2>2. ASSUME NEW t \in Threads, Load(t) PROVE IInv' BY <2>2, LoadInv
  <2>3. ASSUME NEW t \in Threads, Take(t) PROVE IInv' BY <2>3, TakeInv
  <2>4. ASSUME NEW t \in Threads, Blend(t) PROVE IInv' BY <2>4, BlendInv
  <2>5. ASSUME NEW t \in Threads, TakeSlice(t) PROVE IInv' BY <2>5, TakeSliceInv
  <2>6. ASSUME NEW t \in Threads, Open(t) PROVE IInv' BY <2>6, OpenInv
  <2>7. ASSUME NEW t \in Threads, Put(t) PROVE IInv' BY <2>7, PutInv
  <2>8. CASE UNCHANGED vars BY <2>8, Stutters
  <2>. QED BY <2>1, <2>2, <2>3, <2>4, <2>5, <2>6, <2>7, <2>8 DEF Next
<1>. QED BY <1>1, Start, PTL DEF Spec

\* The buffers keep the least power of two that holds the frames asked for, codes fit
\* their width, and a file is whole or truncated, for every number of frames, every file
\* and every call.
THEOREM TypeCorrect == Spec => []TypeOK
<1>1. IInv => TypeOK BY LengthFacts DEF IInv, Typed, TypeOK
<1>. QED BY <1>1, Invariance, PTL

\* Calls that have not overlapped on anything leave the Python layer and the standalone
\* server with the same samples and the same file.
THEOREM Agreement == Spec => []HostsAgree
<1>1. IInv => HostsAgree
  <2> SUFFICES ASSUME IInv, Idle, apart PROVE twin = [buf |-> buf, file |-> file] BY DEF HostsAgree
  <2>1. \A t \in Threads : ~Putting(t) /\ \A b : ~Blending(t, b) BY Waiting DEF Idle
  <2>2. /\ buf \in [1 .. 2 -> [1 .. Length -> Int]] /\ twin.buf \in [1 .. 2 -> [1 .. Length -> Int]]
        /\ twin = [buf |-> twin.buf, file |-> twin.file]
    BY DEF IInv, Typed
  <2>3. \A b \in 1 .. 2 : twin.buf[b] = buf[b] BY <2>1 DEF IInv, TwinBuf
  <2>4. twin.file = file BY <2>1 DEF IInv, TwinFile
  <2>5. twin.buf = buf BY <2>2, <2>3
  <2>. QED BY <2>2, <2>4, <2>5
<1>. QED BY <1>1, Invariance, PTL

\* A file written holds each region in its channel, each sample within a step and a
\* half, for every number of steps and every signal.
THEOREM Faithful == Spec => []WriteIsFaithful
<1>1. IInv => WriteIsFaithful
  <2> DEFINE c == call[latest]  n == Len(Dst(c))  S == Slices(c, buf)
  <2> SUFFICES ASSUME IInv, Idle, apart, c.op = "write"
               PROVE  /\ file.channels = n
                      /\ \A k \in DOMAIN Dst(c) :
                           LET region == Slice(buf[Dst(c)[k]], c.start_src, c.dur)
                           IN  /\ Len(file.frames) = Len(region)
                               /\ \A i \in DOMAIN region : 2 * Abs(Decode(file.frames[i][k]) - Clip(region[i])) <= 3 * Sub
    BY DEF WriteIsFaithful
  <2>1. \A t \in Threads : ~Putting(t) /\ \A b : ~Blending(t, b) BY Waiting DEF Idle
  <2>2. /\ c \in Call /\ buf \in [1 .. 2 -> [1 .. Length -> Int]] /\ twin.buf \in [1 .. 2 -> [1 .. Length -> Int]]
        /\ twin = [buf |-> twin.buf, file |-> twin.file]
    BY DEF IInv, Typed
  <2>3. \A b \in 1 .. 2 : twin.buf[b] = buf[b] BY <2>1 DEF IInv, TwinBuf
  <2>4. twin.file = file BY <2>1 DEF IInv, TwinFile
  <2>5. twin.buf = buf BY <2>2, <2>3
  <2>6. file = WavOf(S) BY <2>4, <2>5 DEF IInv, Last
  <2>7. n \in 1 .. 2 /\ DOMAIN Dst(c) = 1 .. n BY <2>2, DstFacts
  <2>8. S \in [1 .. n -> Signal] /\ \A k \in 1 .. n : Len(S[k]) = Len(S[1])
    <3>1. S \in [1 .. n -> Signal]
          /\ \A k \in 1 .. n : Len(S[k]) = Larger(0, Smaller(Length - c.start_src, IF c.dur < 0 THEN Length ELSE c.dur))
      BY <2>2, SlicesFacts
    <3>2. 1 \in 1 .. n BY <2>7
    <3>. QED BY <3>1, <3>2
  <2>9. \A k \in 1 .. n : S[k] = Slice(buf[Dst(c)[k]], c.start_src, c.dur) BY <2>7 DEF Slices
  <2> HIDE DEF n, S
  <2>10. /\ file.channels = n /\ Len(file.frames) = Smaller(Len(S[1]), Len(S[n]))
         /\ \A i \in 1 .. Len(file.frames) : \A k \in 1 .. n : file.frames[i][k] = Encode(S[k][i])
    <3>1. /\ WavOf(S).channels = n
          /\ Len(WavOf(S).frames) = Smaller(Len(S[1]), Len(S[n]))
          /\ \A i \in 1 .. Len(WavOf(S).frames) : \A k \in 1 .. n : WavOf(S).frames[i][k] = Encode(S[k][i])
      BY <2>7, <2>8, WavOfFacts, Zenon
    <3>. QED BY <2>6, <3>1
  <2>11. 1 \in 1 .. n /\ n \in 1 .. n BY <2>7
  <2>12. Len(file.frames) = Len(S[1]) BY <2>8, <2>10, <2>11 DEF Smaller
  <2>13. ASSUME NEW k \in 1 .. n, NEW i \in DOMAIN S[k]
         PROVE  2 * Abs(Decode(file.frames[i][k]) - Clip(S[k][i])) <= 3 * Sub
    <3>1. S[k] \in Seq(Int) BY <2>8 DEF Signal
    <3>2. i \in 1 .. Len(S[k]) BY <3>1, LenProperties
    <3>3. S[k][i] \in Int BY <3>1, <3>2, ElementOfSeq
    <3>4. file.frames[i][k] = Encode(S[k][i]) BY <2>8, <2>10, <2>12, <3>2
    <3>. QED BY <3>3, <3>4, EncodeFacts
  <2>. QED BY <2>7, <2>8, <2>9, <2>10, <2>12, <2>13
<1>. QED BY <1>1, Invariance, PTL

\* No call changes a sample outside the region it names, whatever other calls do
\* between its steps.
THEOREM RegionsKept == Spec => StaysInside
<1> DEFINE A == \A b \in 1 .. 2 : \A i \in 1 .. Length : buf'[b][i] # buf[b][i] =>
                  \E t \in Threads : Busy(t) /\ b \in Range(Dst(call[t])) /\ Inside(call[t], i)
<1>1. IInv /\ [Next]_vars => [A]_vars
  <2> SUFFICES ASSUME IInv, Next, NEW b \in 1 .. 2, NEW i \in 1 .. Length, buf'[b][i] # buf[b][i]
               PROVE  \E t \in Threads : Busy(t) /\ b \in Range(Dst(call[t])) /\ Inside(call[t], i)
    OBVIOUS
  <2>1. PICK t \in Threads : Blend(t) BY DEF Next, Begin, Load, Take, TakeSlice, Open, Put
  <2> DEFINE c == call[t]  s == todo[t]  ch == Head(s).ch
  <2>2. Typed /\ Running /\ Holding /\ Busy(t) /\ Head(s).do = "blend" BY <2>1 DEF IInv, Blend, Does
  <2>3. c \in Call /\ Order(c, s) BY <2>2, BusyFacts
  <2>4. ch \in Range(Dst(c)) /\ ch \in 1 .. 2 /\ c.op # "write" /\ ~Loading(t) /\ ~Taking(t, ch) /\ Blending(t, ch)
    <3>1. ch \in Range(Dst(c)) /\ Head(s) = Step("blend", ch) /\ c.op # "write"
          /\ Step("load", 0) \notin Range(s) /\ Step("take", Src(c, ch)) \notin Range(s)
      BY <2>2, <2>3 DEF Order
    <3>2. Head(s) \in Range(s) BY <2>2, BusyFacts DEF Leaves
    <3>3. ch \in 1 .. 2 BY <2>3, <3>1, DstFacts
    <3> HIDE DEF ch
    <3>. QED BY <3>1, <3>2, <3>3 DEF Loading, Taking, Blending, Left
  <2>5. Held(c, held[t])
    <3>1. Holds(t) BY <2>2 DEF Holding
    <3>. QED BY <2>4, <3>1 DEF Holds, Held
  <2>6. buf \in [1 .. 2 -> [1 .. Length -> Int]] /\ buf[ch] \in [1 .. Length -> Int] BY <2>2, <2>4 DEF Typed
  <2>7. buf' = [buf EXCEPT ![ch] = Blended(c, buf[ch], held[t], ch)] BY <2>1 DEF Blend, Blended
  <2> HIDE DEF ch
  <2>8. b = ch /\ Blended(c, buf[ch], held[t], ch)[i] # buf[ch][i] BY <2>4, <2>6, <2>7
  <2>9. i > c.start_dst /\ (c.dur >= 0 => i <= c.start_dst + c.dur * Span(c))
    BY <2>3, <2>4, <2>5, <2>6, <2>8, BlendedFacts
  <2>. QED BY <2>2, <2>4, <2>8, <2>9 DEF Inside, Span
<1>. QED BY <1>1, Invariance, PTL DEF Spec, StaysInside

-----------------------------------------------------------------------------
(* Surface: what the generated tables say *)

\* The attribute that an address sets, the range of its controls, and what a key holds
\* before anything is touched.
Attr(address) ==
  IF ByVoice[address] = "recpre_slew_time" THEN "rec_pre_slew_time" ELSE ByVoice[address]
Lo(a) ==
  CASE a \in {"pan", "phase_offset"} -> -1 [] a = "rate" -> -RateSpan [] a = "rec_offset" -> -480
    [] a \in {"pre_filter_fc", "post_filter_fc"} -> 10 [] a \in {"pre_filter_rq", "post_filter_rq"} -> 1
    [] OTHER -> 0
Hi(a) ==
  CASE a = "rate" -> RateSpan [] a \in {"loop_start", "loop_end", "position"} -> MaxTime
    [] a \in {"rate_slew_time", "fade_time", "rec_pre_slew_time"} -> 1000 [] a = "rec_offset" -> 480
    [] a = "phase_quant" -> 4 [] a = "pre_filter_fc" -> 16000 [] a = "post_filter_fc" -> 12000
    [] a \in {"pre_filter_rq", "post_filter_rq"} -> 40 [] OTHER -> 1

Once == {"rec", "rec_once"}

\* The attributes, and the ranges that hold their defaults.
LEMMA Ranges ==
  ASSUME NEW a \in Attrs
  PROVE  Lo(a) \in Int /\ Hi(a) \in Int /\ Default(a) \in Lo(a) .. Hi(a)
<1>. QED BY ConstantsAssumption DEF Lo, Hi, Default

LEMMA AttrNames ==
  /\ MixAttrs \subseteq Attrs /\ DOMAIN _BOOL_PARAMS \subseteq Attrs /\ "position" \in Attrs /\ Once \subseteq DOMAIN _BOOL_PARAMS
  /\ \A n \in DOMAIN _FLOAT_PARAMS : _FLOAT_PARAMS[n] \in Attrs
  /\ \A n \in DOMAIN _BOOL_PARAMS : Lo(n) = 0 /\ Hi(n) = 1 /\ n \notin MixAttrs
  /\ Lo("input_gain") = 0 /\ Hi("input_gain") = 1 /\ "position" \notin Once \union MixAttrs
<1>. QED BY DEF MixAttrs, Attrs, FloatAttrs, _BOOL_PARAMS, Once, Lo, Hi

\* The addresses of the parameters, and those of the mixer.
LEMMA Named ==
  ASSUME NEW s \in DOMAIN _PARAM_MAP
  PROVE  Param(s) \in DOMAIN ByVoice /\ ByVoice[Param(s)] = _PARAM_MAP[s]
<1>1. Param(s) \notin {Set("level/cut"), Set("pan/cut"), Set("enabled/cut")} BY DEF Param, Set
<1>2. Param(s)[2] = s BY DEF Param
<1>. QED BY <1>1, <1>2 DEF ByVoice

LEMMA Mixed ==
  /\ {Set("level/cut"), Set("pan/cut"), Set("enabled/cut")} \subseteq DOMAIN ByVoice
  /\ ByVoice[Set("level/cut")] = "level" /\ ByVoice[Set("pan/cut")] = "pan" /\ ByVoice[Set("enabled/cut")] = "play"
<1>1. Set("level/cut") # Set("pan/cut") /\ Set("pan/cut") # Set("enabled/cut") /\ Set("level/cut") # Set("enabled/cut")
  BY DEF Set
<1>. QED BY <1>1 DEF ByVoice

\* What a handler that takes a voice and a value sets.
Setter(address) ==
  LET m == ByVoice[address]  a == Attr(address)
  IN  /\ a \in Attrs
      /\ m \in DOMAIN _BOOL_PARAMS => a = m
      /\ m \notin DOMAIN _BOOL_PARAMS =>
           a \notin Once /\ a = IF m = "position" THEN "position" ELSE _FLOAT_PARAMS[m]
      /\ a \in Once <=> address \in {Param("rec_flag"), Param("rec_once")}

LEMMA Setters == \A address \in DOMAIN ByVoice : Setter(address)
<1>1. ASSUME NEW s \in DOMAIN _PARAM_MAP PROVE Setter(Param(s))
  <2>1. ByVoice[Param(s)] = _PARAM_MAP[s] BY Named
  <2>2. \A q : Param(q) = Param(s) => q = s BY DEF Param
  <2> DEFINE m == _PARAM_MAP[s]  a == IF m = "recpre_slew_time" THEN "rec_pre_slew_time" ELSE m
  <2>3. /\ a \in Attrs
        /\ m \in DOMAIN _BOOL_PARAMS => a = m
        /\ m \notin DOMAIN _BOOL_PARAMS =>
             a \notin Once /\ a = IF m = "position" THEN "position" ELSE _FLOAT_PARAMS[m]
        /\ a \in Once <=> s \in {"rec_flag", "rec_once"}
    BY DEF _PARAM_MAP, _BOOL_PARAMS, _FLOAT_PARAMS, Attrs, FloatAttrs, MixAttrs, Once
  <2>. QED BY <2>1, <2>2, <2>3 DEF Setter, Attr
<1>2. Setter(Set("level/cut")) /\ Setter(Set("pan/cut")) /\ Setter(Set("enabled/cut"))
  <2>1. \A q, r : Param(q) # Set(r) BY DEF Param, Set
  <2>. QED BY <2>1, Mixed DEF Setter, Attr, _BOOL_PARAMS, _FLOAT_PARAMS, Attrs, FloatAttrs, MixAttrs, Once
<1>3. DOMAIN ByVoice = {Param(s) : s \in DOMAIN _PARAM_MAP} \union {Set("level/cut"), Set("pan/cut"), Set("enabled/cut")}
  BY DEF ByVoice
<1>. QED BY <1>1, <1>2, <1>3

\* A row of a page: its address, its range, and where its controls open.
Strip(address, lo, hi) ==
  LET a == Attr(address)
  IN  /\ address \in DOMAIN ByVoice /\ lo = Lo(a) /\ hi = Hi(a)
      /\ address \in DOMAIN VOICE_DEFAULTS => VOICE_DEFAULTS[address] = Default(a)
      /\ address \notin DOMAIN VOICE_DEFAULTS => lo = Default(a)
Strips(rows) == \A row \in rows : Strip(row[1], row[2], row[3])

\* The defaults that the layout copies, one by one.
LEMMA Copied ==
  \A s \in DOMAIN _PARAM_MAP :
    LET a == Attr(Param(s))
    IN  /\ Param(s) \in DOMAIN VOICE_DEFAULTS => VOICE_DEFAULTS[Param(s)] = Default(a)
        /\ Param(s) \notin DOMAIN VOICE_DEFAULTS => Lo(a) = Default(a)
<1> TAKE s \in DOMAIN _PARAM_MAP
<1>1. /\ \A q : Param(q) = Param(s) => q = s
      /\ \A r : Param(s) # Set(r)
  BY DEF Param, Set
<1>2. Attr(Param(s)) = IF _PARAM_MAP[s] = "recpre_slew_time" THEN "rec_pre_slew_time" ELSE _PARAM_MAP[s]
  BY Named DEF Attr
<1>3. CASE s \in {"loop_flag", "rec_flag", "play_flag", "rec_once"}
  <2>1. Param(s) \notin DOMAIN VOICE_DEFAULTS BY <1>1, <1>3 DEF VOICE_DEFAULTS
  <2>2. _PARAM_MAP[s] \in {"loop", "rec", "play", "rec_once"} BY <1>3 DEF _PARAM_MAP
  <2>3. Attr(Param(s)) \in {"loop", "rec", "play", "rec_once"} BY <1>2, <2>2
  <2>. QED BY <2>1, <2>3 DEF Lo, Default
<1>4. CASE s \notin {"loop_flag", "rec_flag", "play_flag", "rec_once"}
  <2>1. Param(s) \in DOMAIN VOICE_DEFAULTS BY <1>1, <1>4 DEF VOICE_DEFAULTS, _PARAM_MAP
  <2>2. Attr(Param(s)) = IF s = "recpre_slew_time" THEN "rec_pre_slew_time" ELSE s
    BY <1>2, <1>4 DEF _PARAM_MAP
  <2>3. VOICE_DEFAULTS[Param(s)] =
          CASE s \in {"rate", "rate_slew_time", "recpre_slew_time", "pre_filter_fc_mod", "pre_filter_lp",
                      "post_filter_dry"} -> 1
            [] s = "fade_time" -> 100 [] s = "rec_offset" -> -8 [] s = "pre_filter_fc" -> 16000
            [] s = "post_filter_fc" -> 12000 [] s \in {"pre_filter_rq", "post_filter_rq"} -> 40
            [] OTHER -> 0
    BY <1>1, <2>1 DEF VOICE_DEFAULTS
  <2>4. CASE s = "recpre_slew_time" BY <2>1, <2>2, <2>3, <2>4 DEF Default
  <2>5. CASE s # "recpre_slew_time"
    <3>1. Attr(Param(s)) = s BY <2>2, <2>5
    <3>2. Default(s) = VOICE_DEFAULTS[Param(s)]
      <4>1. s \in DOMAIN _PARAM_MAP BY DEF _PARAM_MAP
      <4>2. s \notin {"level", "input_gain", "rec_pre_slew_time"} BY <4>1 DEF _PARAM_MAP
      <4>. QED BY <2>3, <2>5, <4>2 DEF Default
    <3>. QED BY <2>1, <3>1, <3>2
  <2>. QED BY <2>4, <2>5
<1>. QED BY <1>3, <1>4

\* The rows of the pages, by the range of their controls.
LEMMA Row ==
  ASSUME NEW s \in DOMAIN _PARAM_MAP, NEW a, NEW lo, NEW hi, lo = Lo(a), hi = Hi(a),
         a = IF _PARAM_MAP[s] = "recpre_slew_time" THEN "rec_pre_slew_time" ELSE _PARAM_MAP[s]
  PROVE  Strip(Param(s), lo, hi)
<1>. QED BY Named, Copied DEF Strip, Attr

LEMMA ParamRows ==
  /\ \A s \in {"play_flag", "rec_flag", "loop_flag", "rec_once", "rec_level", "pre_level", "pre_filter_lp",
               "pre_filter_hp", "pre_filter_bp", "pre_filter_br", "pre_filter_dry", "pre_filter_fc_mod",
               "post_filter_lp", "post_filter_hp", "post_filter_bp", "post_filter_br", "post_filter_dry"} :
       Strip(Param(s), 0, 1)
  /\ \A s \in {"loop_start", "loop_end", "position"} : Strip(Param(s), 0, MaxTime)
  /\ \A s \in {"rate_slew_time", "fade_time", "recpre_slew_time"} : Strip(Param(s), 0, 1000)
  /\ Strip(Param("rate"), -RateSpan, RateSpan) /\ Strip(Param("rec_offset"), -480, 480)
  /\ Strip(Param("phase_quant"), 0, 4) /\ Strip(Param("phase_offset"), -1, 1)
  /\ Strip(Param("pre_filter_fc"), 10, 16000) /\ Strip(Param("post_filter_fc"), 10, 12000)
  /\ Strip(Param("pre_filter_rq"), 1, 40) /\ Strip(Param("post_filter_rq"), 1, 40)
<1>1. ASSUME NEW s \in {"play_flag", "rec_flag", "loop_flag"} PROVE Strip(Param(s), 0, 1)
  <2>1. s \in DOMAIN _PARAM_MAP /\ _PARAM_MAP[s] \in {"play", "rec", "loop"} BY <1>1 DEF _PARAM_MAP
  <2>2. Lo(_PARAM_MAP[s]) = 0 /\ Hi(_PARAM_MAP[s]) = 1 BY <2>1 DEF Lo, Hi
  <2>. QED BY <2>1, <2>2, Row
<1>2. ASSUME NEW s \in {"rec_once", "rec_level", "pre_level", "pre_filter_lp",
               "pre_filter_hp", "pre_filter_bp", "pre_filter_br", "pre_filter_dry", "pre_filter_fc_mod",
               "post_filter_lp", "post_filter_hp", "post_filter_bp", "post_filter_br", "post_filter_dry"}
      PROVE  Strip(Param(s), 0, 1)
  <2>1. s \in DOMAIN _PARAM_MAP /\ _PARAM_MAP[s] = s /\ s # "recpre_slew_time" BY <1>2 DEF _PARAM_MAP
  <2>2. Lo(s) = 0 /\ Hi(s) = 1 BY <1>2 DEF Lo, Hi
  <2>. QED BY <2>1, <2>2, Row
<1>3. ASSUME NEW s \in {"loop_start", "loop_end", "position"} PROVE Strip(Param(s), 0, MaxTime)
  <2>1. s \in DOMAIN _PARAM_MAP /\ _PARAM_MAP[s] = s /\ s # "recpre_slew_time" BY <1>3 DEF _PARAM_MAP
  <2>2. Lo(s) = 0 /\ Hi(s) = MaxTime BY <1>3 DEF Lo, Hi
  <2>. QED BY <2>1, <2>2, Row
<1>4. ASSUME NEW s \in {"rate_slew_time", "fade_time", "recpre_slew_time"} PROVE Strip(Param(s), 0, 1000)
  <2> DEFINE a == IF s = "recpre_slew_time" THEN "rec_pre_slew_time" ELSE s
  <2>1. s \in DOMAIN _PARAM_MAP /\ _PARAM_MAP[s] = s BY <1>4 DEF _PARAM_MAP
  <2>2. Lo(a) = 0 /\ Hi(a) = 1000 BY <1>4 DEF Lo, Hi
  <2>. QED BY <2>1, <2>2, Row
<1>5. \A s \in {"rate", "rec_offset", "phase_quant", "phase_offset", "pre_filter_fc", "post_filter_fc", "pre_filter_rq",
                "post_filter_rq"} :
        /\ s \in DOMAIN _PARAM_MAP /\ _PARAM_MAP[s] = s /\ s # "recpre_slew_time"
        /\ \A lo, hi : lo = Lo(s) /\ hi = Hi(s) => Strip(Param(s), lo, hi)
  <2>1. \A s \in {"rate", "rec_offset", "phase_quant", "phase_offset", "pre_filter_fc", "post_filter_fc", "pre_filter_rq",
                "post_filter_rq"} :
          s \in DOMAIN _PARAM_MAP /\ _PARAM_MAP[s] = s /\ s # "recpre_slew_time"
    BY DEF _PARAM_MAP
  <2>. QED BY <2>1, Row
<1>6. /\ Lo("rate") = -RateSpan /\ Hi("rate") = RateSpan /\ Lo("rec_offset") = -480 /\ Hi("rec_offset") = 480
      /\ Lo("phase_quant") = 0 /\ Hi("phase_quant") = 4 /\ Lo("phase_offset") = -1 /\ Hi("phase_offset") = 1
      /\ Lo("pre_filter_fc") = 10 /\ Hi("pre_filter_fc") = 16000 /\ Lo("post_filter_fc") = 10
      /\ Hi("post_filter_fc") = 12000 /\ Lo("pre_filter_rq") = 1 /\ Hi("pre_filter_rq") = 40
      /\ Lo("post_filter_rq") = 1 /\ Hi("post_filter_rq") = 40
  BY DEF Lo, Hi
<1>7. /\ Strip(Param("rate"), -RateSpan, RateSpan) /\ Strip(Param("rec_offset"), -480, 480)
      /\ Strip(Param("phase_quant"), 0, 4) /\ Strip(Param("phase_offset"), -1, 1)
      /\ Strip(Param("pre_filter_fc"), 10, 16000) /\ Strip(Param("post_filter_fc"), 10, 12000)
      /\ Strip(Param("pre_filter_rq"), 1, 40) /\ Strip(Param("post_filter_rq"), 1, 40)
  BY <1>5, <1>6
<1>. QED BY <1>1, <1>2, <1>3, <1>4, <1>7

LEMMA SetRows ==
  Strip(Set("level/cut"), 0, 1) /\ Strip(Set("pan/cut"), -1, 1) /\ Strip(Set("enabled/cut"), 0, 1)
<1>1. /\ Set("level/cut") # Set("pan/cut") /\ Set("pan/cut") # Set("enabled/cut") /\ Set("level/cut") # Set("enabled/cut")
      /\ \A s : Param(s) # Set("level/cut") /\ Param(s) # Set("pan/cut") /\ Param(s) # Set("enabled/cut")
      /\ Set("level/in_cut") \notin {Set("enabled/cut"), Set("level/cut"), Set("pan/cut")}
  BY DEF Set, Param
<1>2. /\ Attr(Set("level/cut")) = "level" /\ Attr(Set("pan/cut")) = "pan" /\ Attr(Set("enabled/cut")) = "play"
  BY Mixed DEF Attr
<1>3. /\ Lo("level") = 0 /\ Hi("level") = 1 /\ Default("level") = 1 /\ Lo("pan") = -1 /\ Hi("pan") = 1 /\ Default("pan") = 0
      /\ Lo("play") = 0 /\ Hi("play") = 1 /\ Default("play") = 0
  BY DEF Lo, Hi, Default
<1>4. /\ VOICE_DEFAULTS[Set("level/cut")] = 1 /\ VOICE_DEFAULTS[Set("pan/cut")] = 0
      /\ Set("enabled/cut") \notin DOMAIN VOICE_DEFAULTS
  BY <1>1 DEF VOICE_DEFAULTS
<1>5. Set("level/cut") \in DOMAIN VOICE_DEFAULTS /\ Set("pan/cut") \in DOMAIN VOICE_DEFAULTS BY DEF VOICE_DEFAULTS
<1>6. /\ Set("level/cut") \in DOMAIN ByVoice /\ Set("pan/cut") \in DOMAIN ByVoice /\ Set("enabled/cut") \in DOMAIN ByVoice
  BY Mixed
<1>7. Strip(Set("level/cut"), 0, 1) BY <1>2, <1>3, <1>4, <1>5, <1>6 DEF Strip
<1>8. Strip(Set("pan/cut"), -1, 1) BY <1>2, <1>3, <1>4, <1>5, <1>6 DEF Strip
<1>9. Strip(Set("enabled/cut"), 0, 1) BY <1>2, <1>3, <1>4, <1>5, <1>6 DEF Strip
<1>. QED BY <1>7, <1>8, <1>9

\* A control of a voice, as a page of rows makes it.
OfVoice(c) ==
  \E v \in Columns, address \in DOMAIN ByVoice :
    /\ Strip(address, Lo(Attr(address)), Hi(Attr(address)))
    /\ c = [address |-> address, args |-> <<v>>, span |-> <<Lo(Attr(address)), Hi(Attr(address))>>]

\* A page of rows holds only such controls.
LEMMA PageRows == ASSUME NEW rows, Strips(rows), NEW c \in param_page(rows) PROVE OfVoice(c)
<1>1. PICK row \in rows, v \in Columns : c = Cell(row, v) BY DEF param_page
<1>2. Strip(row[1], row[2], row[3]) BY DEF Strips
<1>3. row[1] \in DOMAIN ByVoice /\ row[2] = Lo(Attr(row[1])) /\ row[3] = Hi(Attr(row[1])) BY <1>2 DEF Strip
<1>4. c = [address |-> row[1], args |-> <<v>>, span |-> <<row[2], row[3]>>] BY <1>1 DEF Cell
<1>. QED BY <1>2, <1>3, <1>4 DEF OfVoice

\* The pages that are rows only.
LEMMA Pages ==
  ASSUME NEW c \in mix_page \union loop_page \union rec_page \union pre_filter_page \union post_filter_page
  PROVE  OfVoice(c)
<1>1. CASE c \in mix_page
  <2>1. Strips({<<Set("level/cut"), 0, 1>>, <<Set("pan/cut"), -1, 1>>, <<Param("rate"), -RateSpan, RateSpan>>,
     <<Param("play_flag"), 0, 1>>, <<Param("rec_flag"), 0, 1>>, <<Param("loop_flag"), 0, 1>>})
    BY ParamRows, SetRows DEF Strips
  <2>. QED BY <1>1, <2>1, PageRows DEF mix_page
<1>2. CASE c \in loop_page
  <2>1. Strips({<<Param("loop_flag"), 0, 1>>, <<Param("loop_start"), 0, MaxTime>>, <<Param("loop_end"), 0, MaxTime>>,
     <<Param("position"), 0, MaxTime>>, <<Param("rate"), -RateSpan, RateSpan>>,
     <<Param("rate_slew_time"), 0, 1000>>, <<Param("fade_time"), 0, 1000>>})
    BY ParamRows DEF Strips
  <2>. QED BY <1>2, <2>1, PageRows DEF loop_page
<1>3. CASE c \in rec_page
  <2>1. Strips({<<Param("rec_flag"), 0, 1>>, <<Param("play_flag"), 0, 1>>, <<Param("rec_once"), 0, 1>>,
     <<Param("rec_level"), 0, 1>>, <<Param("pre_level"), 0, 1>>, <<Param("rec_offset"), -480, 480>>,
     <<Param("recpre_slew_time"), 0, 1000>>})
    BY ParamRows DEF Strips
  <2>. QED BY <1>3, <2>1, PageRows DEF rec_page
<1>4. CASE c \in pre_filter_page
  <2> DEFINE gains == {"pre_filter_lp", "pre_filter_hp", "pre_filter_bp", "pre_filter_br", "pre_filter_dry", "pre_filter_fc_mod"}
             rows == {<<Param("pre_filter_fc"), 10, 16000>>, <<Param("pre_filter_rq"), 1, 40>>}
                       \union {<<Param(s), 0, 1>> : s \in gains}
  <2>1. Strips(rows) BY ParamRows DEF Strips
  <2>2. c \in param_page(rows) BY <1>4 DEF pre_filter_page, filter_page
  <2> HIDE DEF rows
  <2>. QED BY <2>1, <2>2, PageRows
<1>5. CASE c \in post_filter_page
  <2> DEFINE gains == {"post_filter_lp", "post_filter_hp", "post_filter_bp", "post_filter_br", "post_filter_dry"}
             rows == {<<Param("post_filter_fc"), 10, 12000>>, <<Param("post_filter_rq"), 1, 40>>}
                       \union {<<Param(s), 0, 1>> : s \in gains}
  <2>1. Strips(rows) BY ParamRows DEF Strips
  <2>2. c \in param_page(rows) BY <1>5 DEF post_filter_page, filter_page
  <2> HIDE DEF rows
  <2>. QED BY <2>1, <2>2, PageRows
<1>. QED BY <1>1, <1>2, <1>3, <1>4, <1>5

\* The other controls: of an input, of a feedback gain, and the buttons, that change a
\* voice's buffer, its position, everything, the samples, or nothing of the host.
OfInput(c) == \E v \in Columns : c = [address |-> Set("level/in_cut"), args |-> <<0, v>>, span |-> <<0, 1>>]
OfFeedback(c) ==
  \E src, dst \in Columns : c = [address |-> Set("level/cut_cut"), args |-> <<src, dst>>, span |-> <<0, 1>>]
OfBuffer(c) == \E v \in Columns, b \in 0 .. 1 : c = Trigger(Param("buffer"), <<v, b>>)
OfSync(c) == \E dst, src \in Columns : c = Trigger(Param("voice_sync"), <<dst, src, 0>>)
OfReset(c) == c = Trigger(Top("softcut/reset"), <<>>)
OfSamples(c) ==
  \/ c \in {Trigger(Buf("clear"), <<>>), Trigger(Buf("clear_region"), <<0, MaxTime>>),
             Trigger(Buf("read_mono"), <<"read_file", 0, 0, -1, 0, 0>>),
             Trigger(Buf("read_stereo"), <<"read_file", 0, 0, -1>>)}
  \/ \E b \in 0 .. 1 : c \in {Trigger(Buf("clear_channel"), <<b>>), Trigger(Buf("clear_region_channel"), <<b, 0, MaxTime>>)}
OfNothing(c) == \E address \in Quiet : \E args : c = Trigger(address, args)

\* There are no other controls.
LEMMA Controls ==
  ASSUME NEW c \in build
  PROVE  \/ OfVoice(c) \/ OfInput(c) \/ OfFeedback(c) \/ OfBuffer(c) \/ OfSync(c) \/ OfReset(c)
         \/ OfSamples(c) \/ OfNothing(c)
<1>1. CASE c \in routing_page
  <2>1. Strips({<<Set("level/cut"), 0, 1>>, <<Set("pan/cut"), -1, 1>>, <<Set("enabled/cut"), 0, 1>>}) BY SetRows DEF Strips
  <2>2. CASE c \in param_page({<<Set("level/cut"), 0, 1>>, <<Set("pan/cut"), -1, 1>>, <<Set("enabled/cut"), 0, 1>>})
    BY <2>1, <2>2, PageRows
  <2>3. CASE \E v \in Columns : c = [address |-> Set("level/in_cut"), args |-> <<0, v>>, span |-> <<0, 1>>]
    BY <2>3 DEF OfInput
  <2>4. CASE \E b \in 0 .. 1, v \in Columns : c = Trigger(Param("buffer"), <<v, b>>) BY <2>4 DEF OfBuffer
  <2>5. CASE \E m \in matrix : c = [address |-> Set("level/cut_cut"), args |-> <<m[1], m[2]>>, span |-> <<0, 1>>]
    BY <2>5 DEF OfFeedback, matrix
  <2>. QED BY <1>1, <2>2, <2>3, <2>4, <2>5 DEF routing_page
<1>2. CASE c \in sync_page
  <2>1. Strips({<<Param("phase_quant"), 0, 4>>, <<Param("phase_offset"), -1, 1>>}) BY ParamRows DEF Strips
  <2>2. CASE c \in param_page({<<Param("phase_quant"), 0, 4>>, <<Param("phase_offset"), -1, 1>>}) BY <2>1, <2>2, PageRows
  <2>3. CASE \E s \in {"poll/start/cut/phase", "poll/stop/cut/phase"} : c = Trigger(Top(s), <<>>)
    BY <2>3 DEF OfNothing, Quiet
  <2>4. CASE \E m \in matrix : c = Trigger(Param("voice_sync"), <<m[1], m[2], 0>>) BY <2>4 DEF OfSync, matrix
  <2>. QED BY <1>2, <2>2, <2>3, <2>4 DEF sync_page
<1>3. CASE c \in system_page
  <2>1. {Buf("write_mono"), Buf("write_stereo"), Top("hello"), Top("quit")} \subseteq Quiet BY DEF Quiet
  <2>2. CASE c \in {Trigger(Buf("write_mono"), <<"write_file", 0, -1, 0>>), Trigger(Buf("write_stereo"), <<"write_file", 0, -1>>),
                     Trigger(Top("hello"), <<>>), Trigger(Top("quit"), <<>>)}
    BY <2>1, <2>2 DEF OfNothing
  <2>3. CASE c = Trigger(Top("softcut/reset"), <<>>) BY <2>3 DEF OfReset
  <2>4. CASE OfSamples(c) BY <2>4
  <2>. QED BY <1>3, <2>2, <2>3, <2>4 DEF system_page, OfSamples
<1>4. CASE c \notin routing_page \union sync_page \union system_page BY <1>4, Pages DEF build
<1>. QED BY <1>1, <1>2, <1>3, <1>4

-----------------------------------------------------------------------------
(* Surface: what a message does to the values that controls move *)

\* The settings of a voice, and the hosts, that a performance can reach.
Settings ==
  {r \in [Attrs -> Int] : /\ \A a \in Attrs : r[a] \in Lo(a) .. Hi(a)
                          /\ r["rec_once"] = 1 => r["rec"] = 1}
Hosts ==
  [voice : [Voices -> Settings], feedback : [Voices \X Voices -> 0 .. 1],
   assign : [Voices -> 1 .. 2], content : [1 .. 2 -> {"old", "file", "silence"}]]

\* Every value of a host, and what it is at first.
AllKeys ==
  {<<"voice", v, a>> : v \in Voices, a \in Attrs} \union {<<"feedback", s, d>> : s \in Voices, d \in Voices}
Initial(k) == IF k[1] = "voice" THEN Default(k[3]) ELSE 0

\* A host with the settings of one voice, or one feedback gain, changed.
LEMMA VoiceStep ==
  ASSUME NEW h \in Hosts, NEW w \in Voices, NEW r \in Settings
  PROVE  LET g == [h EXCEPT !.voice[w] = r]
         IN  /\ g \in Hosts
             /\ \A k \in AllKeys : ValueAt(g, k) = IF k[1] = "voice" /\ k[2] = w THEN r[k[3]] ELSE ValueAt(h, k)
<1> DEFINE g == [h EXCEPT !.voice[w] = r]
<1>1. g \in Hosts BY DEF Hosts
<1>2. g.feedback = h.feedback /\ \A v \in Voices : g.voice[v] = IF v = w THEN r ELSE h.voice[v] BY DEF Hosts
<1> HIDE DEF g
<1>3. ASSUME NEW v \in Voices, NEW a \in Attrs
      PROVE  ValueAt(g, <<"voice", v, a>>) = IF v = w THEN r[a] ELSE ValueAt(h, <<"voice", v, a>>)
  BY <1>2 DEF ValueAt
<1>4. ASSUME NEW s \in Voices, NEW d \in Voices
      PROVE  ValueAt(g, <<"feedback", s, d>>) = ValueAt(h, <<"feedback", s, d>>)
  BY <1>2 DEF ValueAt
<1>5. \A k \in AllKeys : ValueAt(g, k) = IF k[1] = "voice" /\ k[2] = w THEN r[k[3]] ELSE ValueAt(h, k)
  BY <1>3, <1>4 DEF AllKeys
<1>. QED BY <1>1, <1>5 DEF g

LEMMA FeedbackStep ==
  ASSUME NEW h \in Hosts, NEW s \in Voices, NEW d \in Voices, NEW x \in 0 .. 1
  PROVE  LET g == [h EXCEPT !.feedback[<<s, d>>] = x]
         IN  /\ g \in Hosts
             /\ \A k \in AllKeys : ValueAt(g, k) = IF k = <<"feedback", s, d>> THEN x ELSE ValueAt(h, k)
<1> DEFINE g == [h EXCEPT !.feedback[<<s, d>>] = x]
<1>1. g \in Hosts BY DEF Hosts
<1>2. g.voice = h.voice /\ \A p \in Voices \X Voices : g.feedback[p] = IF p = <<s, d>> THEN x ELSE h.feedback[p] BY DEF Hosts
<1> HIDE DEF g
<1>3. ASSUME NEW v \in Voices, NEW a \in Attrs
      PROVE  ValueAt(g, <<"voice", v, a>>) = ValueAt(h, <<"voice", v, a>>)
  BY <1>2 DEF ValueAt
<1>4. ASSUME NEW s1 \in Voices, NEW d1 \in Voices
      PROVE  ValueAt(g, <<"feedback", s1, d1>>) = IF s1 = s /\ d1 = d THEN x ELSE ValueAt(h, <<"feedback", s1, d1>>)
  BY <1>2 DEF ValueAt
<1>5. \A k \in AllKeys : ValueAt(g, k) = IF k = <<"feedback", s, d>> THEN x ELSE ValueAt(h, k)
  BY <1>3, <1>4 DEF AllKeys
<1>. QED BY <1>1, <1>5 DEF g

\* The flags of a voice: rec off cancels rec_once, rec_once on sets rec.
LEMMA SetFlagFacts ==
  ASSUME NEW r \in Settings, NEW n \in DOMAIN _BOOL_PARAMS, NEW on \in {0, 1}
  PROVE  /\ SetFlag(r, n, on) \in Settings /\ SetFlag(r, n, on)[n] = on
         /\ \A a \in Attrs : a # n /\ ~(a \in Once /\ n \in Once) => SetFlag(r, n, on)[a] = r[a]
         /\ r[n] = on => SetFlag(r, n, on) = r
<1> DEFINE q == SetFlag(r, n, on)
<1>1. n \in Attrs /\ "rec" \in Attrs /\ "rec_once" \in Attrs BY AttrNames DEF Once
<1>2. r \in [Attrs -> Int] /\ (r["rec_once"] = 1 => r["rec"] = 1) /\ \A a \in Attrs : r[a] \in Lo(a) .. Hi(a) BY DEF Settings
<1>3. /\ q \in [Attrs -> Int]
      /\ \A a \in Attrs : q[a] =
           CASE a = "rec" -> (IF n = "rec_once" /\ on = 1 THEN 1 ELSE IF n = "rec" THEN on ELSE r[a])
             [] a = "rec_once" -> (IF n = "rec" /\ on = 0 THEN 0 ELSE IF n = "rec_once" THEN on ELSE r[a])
             [] OTHER -> IF a = n THEN on ELSE r[a]
  BY <1>1, <1>2 DEF SetFlag
<1> HIDE DEF q
<1>4. Lo(n) = 0 /\ Hi(n) = 1 /\ Lo("rec") = 0 /\ Hi("rec") = 1 /\ Lo("rec_once") = 0 /\ Hi("rec_once") = 1
  BY AttrNames DEF Once
<1>5. r["rec"] \in 0 .. 1 /\ r["rec_once"] \in 0 .. 1 BY <1>1, <1>2, <1>4
<1>6. q[n] = on BY <1>1, <1>3
<1>7. \A a \in Attrs : a # n /\ ~(a \in Once /\ n \in Once) => q[a] = r[a] BY <1>1, <1>3 DEF Once
<1>8. r[n] = on => \A a \in Attrs : q[a] = r[a] BY <1>1, <1>2, <1>3, <1>5
<1>9. r[n] = on => q = r BY <1>2, <1>3, <1>8
<1>10. \A a \in Attrs : q[a] \in Lo(a) .. Hi(a) BY <1>1, <1>2, <1>3, <1>4
<1>11. q["rec_once"] = 1 => q["rec"] = 1 BY <1>1, <1>2, <1>3
<1>12. q \in Settings BY <1>3, <1>10, <1>11 DEF Settings
<1>. QED BY <1>6, <1>7, <1>9, <1>12 DEF q

Handled(h, m) == _build_handlers(h, m.address, m.args)

\* A message that every host takes, the values that it never changes, and those that it
\* always puts at the same place.
Accepted(m) == \A h \in Hosts : \E g \in Hosts : Handled(h, m) = {g}
Keeps(m, k) == \A h \in Hosts : \A g \in Handled(h, m) : ValueAt(g, k) = ValueAt(h, k)
Puts(m, k, x) == \A h \in Hosts : \A g \in Handled(h, m) : ValueAt(g, k) = x

\* What the message of a control that has a value does, which asks for y: it moves only
\* what the control affects, its own value to y, and nothing if that is there already.
Moves(c, m, y) ==
  /\ Accepted(m) /\ Undoes(m) = {}
  /\ \A k \in AllKeys : k \notin Affects(c) => Keeps(m, k)
  /\ \A k \in AllKeys : Keeps(m, k) \/ \E x : Puts(m, k, x)
  /\ Puts(m, Key(c), y)
  /\ \A h \in Hosts : ValueAt(h, Key(c)) = y => \A g \in Handled(h, m) : \A k \in AllKeys : ValueAt(g, k) = ValueAt(h, k)

\* And that of a button: it keeps all that it does not undo, and what it undoes opens again
\* as it was, or is what the control affects.
Presses(c, m) ==
  /\ Accepted(m)
  /\ \A k \in Keys : k \notin Undoes(m) => Keeps(m, k)
  /\ \A k \in Undoes(m) : k \in Affects(c) \/ Puts(m, k, Initial(k))

\* The addresses that have a handler of their own.
LEMMA Special ==
  /\ \A a \in {Set("level/cut_cut"), Set("level/in_cut"), Param("voice_sync"), Param("buffer"), Buf("read_mono"),
              Buf("read_stereo"), Buf("clear"), Buf("clear_region"), Buf("clear_channel"),
              Buf("clear_region_channel"), Top("softcut/reset")} \union Quiet : a \notin DOMAIN ByVoice
  /\ Param("voice_sync") \notin DOMAIN ByVoice
  /\ Set("level/cut_cut") # Set("level/in_cut")
<1>1. {"voice_sync", "buffer", "level_slew_time", "pan_slew_time"} \cap DOMAIN _PARAM_MAP = {} BY DEF _PARAM_MAP
<1>2. \A s, q : /\ Param(s) = Param(q) => s = q
               /\ Param(s) # Set(q) /\ Param(s) # Buf(q) /\ Param(s) # Top(q)
               /\ Set(s) # Buf(q) /\ Set(s) # Top(q) /\ (Set(s) = Set(q) => s = q)
  BY DEF Param, Set, Buf, Top
<1>3. DOMAIN ByVoice = {Param(s) : s \in DOMAIN _PARAM_MAP} \union {Set("level/cut"), Set("pan/cut"), Set("enabled/cut")}
  BY DEF ByVoice
<1>. QED BY <1>1, <1>2, <1>3 DEF Quiet

\* Addresses differ if their kinds or their last parts do.
LEMMA Kinds ==
  \A s, q : /\ Param(s) # Set(q) /\ Param(s) # Buf(q) /\ Param(s) # Top(q)
            /\ Set(s) # Buf(q) /\ Set(s) # Top(q) /\ Buf(s) # Top(q)
            /\ (Param(s) = Param(q) => s = q) /\ (Set(s) = Set(q) => s = q)
            /\ (Buf(s) = Buf(q) => s = q) /\ (Top(s) = Top(q) => s = q)
<1>. QED BY DEF Param, Set, Buf, Top

\* The wire counts voices from 0, the host from 1.
LEMMA Numbers == ASSUME NEW v \in Columns PROVE v \in Int /\ v + 1 \in Voices /\ 0 + 1 = 1
<1>. QED BY ConstantsAssumption DEF Columns, Voices

\* What a control sends.
LEMMA Sent ==
  ASSUME NEW lo \in Int, NEW hi \in Int, NEW x \in {0, 1}, NEW c, c.span = <<lo, hi>>
  PROVE  \E y \in {lo, hi} : Message(c, x) = [address |-> c.address, args |-> Append(c.args, y)]
<1> DEFINE y == lo + x * (hi - lo)
<1>1. y \in {lo, hi} BY x \in {0, 1}
<1>2. Movable(c) /\ c.span[1] = lo /\ c.span[2] = hi BY DEF Movable
<1>3. Message(c, x) = [address |-> c.address, args |-> Append(c.args, y)] BY <1>2 DEF Message
<1>. QED BY <1>1, <1>3

LEMMA SentLevel ==
  ASSUME NEW x \in {0, 1}, NEW c, c.span = <<0, 1>>
  PROVE  \E y \in {0, 1} : Message(c, x) = [address |-> c.address, args |-> Append(c.args, y)]
<1> DEFINE lo == 0  hi == 1
<1>1. lo \in Int /\ hi \in Int /\ c.span = <<lo, hi>> OBVIOUS
<1> HIDE DEF lo, hi
<1>2. \E y \in {lo, hi} : Message(c, x) = [address |-> c.address, args |-> Append(c.args, y)] BY <1>1, Sent
<1>. QED BY <1>2 DEF lo, hi

LEMMA Appended ==
  ASSUME NEW u \in Int, NEW v \in Int, NEW y \in Int
  PROVE  Append(<<v>>, y) = <<v, y>> /\ Append(<<u, v>>, y) = <<u, v, y>>
<1> DEFINE s == Append(<<v>>, y)  t == Append(<<u, v>>, y)
<1>1. s \in Seq(Int) /\ Len(s) = 2 /\ s[1] = v /\ s[2] = y OBVIOUS
<1>2. t \in Seq(Int) /\ Len(t) = 3 /\ t[1] = u /\ t[2] = v /\ t[3] = y OBVIOUS
<1> HIDE DEF s, t
<1>3. s = <<v, y>> BY <1>1
<1>4. t = <<u, v, y>> BY <1>2
<1>. QED BY <1>3, <1>4 DEF s, t

LEMMA Pressed ==
  ASSUME NEW address, NEW args, NEW x
  PROVE  ~Movable(Trigger(address, args)) /\ Message(Trigger(address, args), x) = [address |-> address, args |-> args]
<1>. QED BY DEF Trigger, Movable, Message

\* A message that puts the settings of one voice through a function.
LEMMA ThroughVoice ==
  ASSUME NEW m, NEW w \in Voices, NEW q \in [Settings -> Settings],
         \A h \in Hosts : Handled(h, m) = {[h EXCEPT !.voice[w] = q[h.voice[w]]]}
  PROVE  /\ Accepted(m)
         /\ \A k \in AllKeys : ~(k[1] = "voice" /\ k[2] = w) => Keeps(m, k)
         /\ \A b \in Attrs : (\A r \in Settings : q[r][b] = r[b]) => Keeps(m, <<"voice", w, b>>)
         /\ \A b \in Attrs : \A x : (\A r \in Settings : q[r][b] = x) => Puts(m, <<"voice", w, b>>, x)
         /\ \A h \in Hosts : q[h.voice[w]] = h.voice[w] =>
              \A g \in Handled(h, m) : \A k \in AllKeys : ValueAt(g, k) = ValueAt(h, k)
<1> DEFINE G(h) == [h EXCEPT !.voice[w] = q[h.voice[w]]]
<1>1. ASSUME NEW h \in Hosts
      PROVE  /\ h.voice[w] \in Settings /\ q[h.voice[w]] \in Settings
             /\ G(h) \in Hosts
             /\ \A k \in AllKeys : ValueAt(G(h), k) = IF k[1] = "voice" /\ k[2] = w THEN q[h.voice[w]][k[3]] ELSE ValueAt(h, k)
             /\ \A b \in Attrs : <<"voice", w, b>> \in AllKeys /\ ValueAt(h, <<"voice", w, b>>) = h.voice[w][b]
  <2>1. h.voice[w] \in Settings BY DEF Hosts
  <2>2. q[h.voice[w]] \in Settings BY <2>1
  <2>3. /\ G(h) \in Hosts
        /\ \A k \in AllKeys : ValueAt(G(h), k) = IF k[1] = "voice" /\ k[2] = w THEN q[h.voice[w]][k[3]] ELSE ValueAt(h, k)
    BY <2>2, VoiceStep
  <2>4. \A b \in Attrs : <<"voice", w, b>> \in AllKeys /\ ValueAt(h, <<"voice", w, b>>) = h.voice[w][b]
    BY DEF AllKeys, ValueAt
  <2>. QED BY <2>1, <2>2, <2>3, <2>4
<1>2. \A h \in Hosts : \A g \in Handled(h, m) : g = G(h) OBVIOUS
<1>3. \A h \in Hosts : Handled(h, m) = {G(h)} OBVIOUS
<1> HIDE DEF G
<1>4. Accepted(m) BY <1>1, <1>3 DEF Accepted
<1>5. \A k \in AllKeys : ~(k[1] = "voice" /\ k[2] = w) => Keeps(m, k) BY <1>1, <1>2 DEF Keeps
<1>6. \A b \in Attrs : <<"voice", w, b>> \in AllKeys BY DEF AllKeys
<1>7. \A h \in Hosts, b \in Attrs : /\ ValueAt(G(h), <<"voice", w, b>>) = q[h.voice[w]][b]
                                    /\ ValueAt(h, <<"voice", w, b>>) = h.voice[w][b]
  BY <1>1, <1>6
<1>8. ASSUME NEW b \in Attrs, \A r \in Settings : q[r][b] = r[b] PROVE Keeps(m, <<"voice", w, b>>)
  BY <1>1, <1>2, <1>7, <1>8 DEF Keeps
<1>9. ASSUME NEW b \in Attrs, NEW x, \A r \in Settings : q[r][b] = x PROVE Puts(m, <<"voice", w, b>>, x)
  BY <1>1, <1>2, <1>7, <1>9 DEF Puts
<1>10. ASSUME NEW h \in Hosts, q[h.voice[w]] = h.voice[w], NEW g \in Handled(h, m), NEW k \in AllKeys
       PROVE  ValueAt(g, k) = ValueAt(h, k)
  <2>1. ValueAt(g, k) = IF k[1] = "voice" /\ k[2] = w THEN h.voice[w][k[3]] ELSE ValueAt(h, k) BY <1>1, <1>2, <1>10
  <2>2. CASE k[1] = "voice" /\ k[2] = w
    <3>1. ValueAt(h, k) = h.voice[w][k[3]] BY <2>2 DEF ValueAt
    <3>. QED BY <2>1, <2>2, <3>1
  <2>. QED BY <2>1, <2>2
<1>. QED BY <1>4, <1>5, <1>8, <1>9, <1>10

\* The key and the range of a control that has a value.
LEMMA OfVoiceFacts ==
  ASSUME NEW v \in Columns, NEW address \in DOMAIN ByVoice, NEW c, Strip(address, Lo(Attr(address)), Hi(Attr(address))),
         c = [address |-> address, args |-> <<v>>, span |-> <<Lo(Attr(address)), Hi(Attr(address))>>]
  PROVE  /\ Movable(c) /\ Key(c) = <<"voice", v + 1, Attr(address)>> /\ Attr(address) \in Attrs
         /\ c.span[1] = Lo(Attr(address)) /\ c.span[2] = Hi(Attr(address)) /\ position_of(c) = Default(Attr(address))
         /\ Affects(c) = IF Attr(address) \in Once THEN {<<"voice", v + 1, a>> : a \in Once} ELSE {Key(c)}
<1> DEFINE a == Attr(address)
<1>1. Setter(address) /\ a \in Attrs BY Setters DEF Setter
<1>2. Lo(a) \in Int /\ Hi(a) \in Int /\ Default(a) \in Lo(a) .. Hi(a) BY <1>1, Ranges
<1>3. c.address = address /\ c.args[1] = v /\ c.span[1] = Lo(a) /\ c.span[2] = Hi(a) /\ c.span # <<>> OBVIOUS
<1>4. Key(c) = <<"voice", v + 1, a>> BY <1>3, Special DEF Key, Attr
<1>5. position_of(c) = Default(a)
  <2>1. CASE address \in DOMAIN VOICE_DEFAULTS
    <3>1. VOICE_DEFAULTS[address] = Default(a) BY <2>1 DEF Strip
    <3>. QED BY <1>2, <1>3, <2>1, <3>1 DEF position_of
  <2>2. CASE address \notin DOMAIN VOICE_DEFAULTS
    <3>1. Lo(a) = Default(a) BY <2>2 DEF Strip
    <3>. QED BY <1>3, <2>2, <3>1 DEF position_of
  <2>. QED BY <2>1, <2>2
<1>6. Movable(c) BY <1>3 DEF Movable
<1>7. Affects(c) = IF a \in Once THEN {<<"voice", v + 1, b>> : b \in Once} ELSE {Key(c)}
  <2>1. a \in Once <=> address \in {Param("rec_flag"), Param("rec_once")} BY <1>1 DEF Setter
  <2>2. address # Param("voice_sync") BY Special
  <2>3. CASE a \in Once BY <1>3, <1>6, <2>1, <2>2, <2>3 DEF Affects, Once
  <2>4. CASE a \notin Once BY <1>3, <1>6, <2>1, <2>2, <2>4 DEF Affects
  <2>. QED BY <2>3, <2>4
<1>. QED BY <1>1, <1>3, <1>4, <1>5, <1>6, <1>7

\* What a control that has a value stands for.
Placed(c) ==
  /\ Movable(c) /\ Key(c) \in AllKeys /\ position_of(c) = Initial(Key(c))
  /\ \A h \in Hosts : ValueAt(h, Key(c)) \in c.span[1] .. c.span[2]

\* What SetFlag does to the settings of any voice: each keeps, or is put at one value.
LEMMA FlagsKeepOrPut ==
  ASSUME NEW n \in DOMAIN _BOOL_PARAMS, NEW y \in {0, 1}, NEW b \in Attrs
  PROVE  (\A r \in Settings : SetFlag(r, n, y)[b] = r[b]) \/ \E x : \A r \in Settings : SetFlag(r, n, y)[b] = x
<1>1. CASE b # n /\ ~(b \in Once /\ n \in Once) BY <1>1, SetFlagFacts
<1>2. CASE b = n
  <2>1. \A r \in Settings : SetFlag(r, n, y)[n] = y BY SetFlagFacts, Zenon
  <2>. QED BY <1>2, <2>1
<1>3. CASE b # n /\ b \in Once /\ n \in Once
  <2>1. "rec" \in Attrs /\ "rec_once" \in Attrs BY AttrNames DEF Once
  <2>2. ASSUME NEW r \in Settings
        PROVE  SetFlag(r, n, y)[b] = IF n = "rec" THEN (IF y = 0 THEN 0 ELSE r[b]) ELSE (IF y = 1 THEN 1 ELSE r[b])
    BY <1>3, <2>1 DEF SetFlag, Once, Settings
  <2>. QED BY <1>3, <2>2 DEF Once
<1>. QED BY <1>1, <1>2, <1>3

\* The controls that have a value, class by class.
LEMMA OfVoiceMoves ==
  ASSUME NEW c, OfVoice(c), NEW x \in {0, 1}
  PROVE  Placed(c) /\ \E y : Moves(c, Message(c, x), y) /\ y = Message(c, x).args[Len(Message(c, x).args)]
<1>1. PICK v \in Columns, address \in DOMAIN ByVoice :
        /\ Strip(address, Lo(Attr(address)), Hi(Attr(address)))
        /\ c = [address |-> address, args |-> <<v>>, span |-> <<Lo(Attr(address)), Hi(Attr(address))>>]
  BY DEF OfVoice
<1> DEFINE a == Attr(address)  n == ByVoice[address]  w == v + 1
<1>2. /\ Movable(c) /\ Key(c) = <<"voice", w, a>> /\ a \in Attrs
      /\ c.span[1] = Lo(a) /\ c.span[2] = Hi(a) /\ position_of(c) = Default(a)
      /\ Affects(c) = IF a \in Once THEN {<<"voice", w, b>> : b \in Once} ELSE {Key(c)}
  BY <1>1, OfVoiceFacts
<1>3. v \in Int /\ w \in Voices BY Numbers
<1>4. Lo(a) \in Int /\ Hi(a) \in Int /\ Lo(a) <= Hi(a) BY <1>2, Ranges
<1>5. /\ n \in DOMAIN _BOOL_PARAMS => a = n
      /\ n \notin DOMAIN _BOOL_PARAMS => a \notin Once /\ a = IF n = "position" THEN "position" ELSE _FLOAT_PARAMS[n]
  BY Setters DEF Setter
<1>6. PICK y \in {Lo(a), Hi(a)} : Message(c, x) = [address |-> address, args |-> <<v, y>>]
  <2>1. c.address = address /\ c.args = <<v>> /\ c.span = <<Lo(a), Hi(a)>> BY <1>1
  <2> DEFINE lo == Lo(a)  hi == Hi(a)
  <2>2. lo \in Int /\ hi \in Int /\ c.span = <<lo, hi>> BY <1>4, <2>1
  <2> HIDE DEF lo, hi
  <2>3. PICK y \in {lo, hi} : Message(c, x) = [address |-> c.address, args |-> Append(c.args, y)]
    BY <2>2, Sent
  <2>4. y \in Int BY <2>2
  <2>5. Append(<<v>>, y) = <<v, y>> BY <1>3, <2>4, Appended
  <2>. QED BY <2>1, <2>3, <2>5 DEF lo, hi
<1> DEFINE m == [address |-> address, args |-> <<v, y>>]
<1>7. m.address = address /\ m.args[1] = v /\ m.args[2] = y /\ m.args[Len(m.args)] = y OBVIOUS
<1>8. address \notin {Top("softcut/reset"), Param("voice_sync")} BY Special
<1>9. Undoes(m) = {} BY <1>7, <1>8 DEF Undoes
<1>10. ASSUME NEW h \in Hosts PROVE Handled(h, m) = {SetParam(h, n, w, y)}
  <2>1. Handled(h, m) = _v_f(h, n, m.args) BY <1>7, Special DEF Handled, _build_handlers
  <2>. QED BY <1>3, <1>7, <2>1 DEF _v_f, If
<1> HIDE DEF m, a, n, w
<1> DEFINE q == [r \in Settings |-> IF n \in DOMAIN _BOOL_PARAMS THEN SetFlag(r, n, y) ELSE [r EXCEPT ![a] = y]]
<1>11. n \in DOMAIN _BOOL_PARAMS => y \in {0, 1} BY <1>5, AttrNames
<1>12. ASSUME NEW r \in Settings
       PROVE  /\ q[r] \in Settings /\ q[r][a] = y /\ (r[a] = y => q[r] = r)
              /\ \A b \in Attrs : b # a /\ ~(b \in Once /\ a \in Once) => q[r][b] = r[b]
  <2>1. r \in [Attrs -> Int] /\ (\A b \in Attrs : r[b] \in Lo(b) .. Hi(b)) /\ (r["rec_once"] = 1 => r["rec"] = 1)
    BY DEF Settings
  <2>2. CASE n \in DOMAIN _BOOL_PARAMS
    <3>1. a = n /\ q[r] = SetFlag(r, n, y) BY <1>5, <2>2
    <3>2. /\ SetFlag(r, n, y) \in Settings /\ SetFlag(r, n, y)[n] = y
          /\ \A b \in Attrs : b # n /\ ~(b \in Once /\ n \in Once) => SetFlag(r, n, y)[b] = r[b]
          /\ r[n] = y => SetFlag(r, n, y) = r
      BY <1>11, <2>2, SetFlagFacts, Zenon
    <3>. QED BY <3>1, <3>2
  <2>3. CASE n \notin DOMAIN _BOOL_PARAMS
    <3> DEFINE s == [r EXCEPT ![a] = y]
    <3>1. a \notin Once /\ q[r] = s BY <1>5, <2>3
    <3>2. y \in Int /\ y \in Lo(a) .. Hi(a) BY <1>4
    <3>3. s[a] = y /\ (\A b \in Attrs : b # a => s[b] = r[b]) /\ s \in [Attrs -> Int] /\ (r[a] = y => s = r)
      BY <1>2, <2>1, <3>2
    <3>4. Once \subseteq Attrs BY AttrNames
    <3> HIDE DEF s, q
    <3>5. s \in Settings
      <4>1. \A b \in Attrs : s[b] \in Lo(b) .. Hi(b) BY <2>1, <3>2, <3>3
      <4>2. s["rec"] = r["rec"] /\ s["rec_once"] = r["rec_once"] BY <3>1, <3>3, <3>4 DEF Once
      <4>. QED BY <2>1, <3>3, <4>1, <4>2 DEF Settings
    <3>. QED BY <3>1, <3>3, <3>5
  <2>. QED BY <2>2, <2>3
<1>13. ASSUME NEW b \in Attrs PROVE (\A r \in Settings : q[r][b] = r[b]) \/ \E z : \A r \in Settings : q[r][b] = z
  <2>1. CASE n \in DOMAIN _BOOL_PARAMS
    <3>1. \A r \in Settings : q[r] = SetFlag(r, n, y) BY <2>1
    <3>. QED BY <1>11, <2>1, <3>1, FlagsKeepOrPut
  <2>2. CASE n \notin DOMAIN _BOOL_PARAMS
    <3>1. a \notin Once BY <1>5, <2>2
    <3> HIDE DEF q
    <3>2. CASE b = a BY <1>12, <3>2
    <3>3. CASE b # a BY <1>12, <3>1, <3>3
    <3>. QED BY <3>2, <3>3
  <2>. QED BY <2>1, <2>2
<1>14. ASSUME NEW h \in Hosts PROVE SetParam(h, n, w, y) = [h EXCEPT !.voice[w] = q[h.voice[w]]]
  <2>1. h.voice[w] \in Settings BY <1>3 DEF Hosts
  <2>2. CASE n \in DOMAIN _BOOL_PARAMS
    <3>1. (IF y = 0 THEN 0 ELSE 1) = y BY <1>11, <2>2
    <3>2. q[h.voice[w]] = SetFlag(h.voice[w], n, y) BY <2>1, <2>2
    <3>3. SetParam(h, n, w, y) = [h EXCEPT !.voice[w] = SetFlag(h.voice[w], n, y)] BY <1>3, <2>2, <3>1 DEF SetParam, Hosts
    <3>. QED BY <3>2, <3>3
  <2>3. CASE n \notin DOMAIN _BOOL_PARAMS
    <3>1. a = IF n = "position" THEN "position" ELSE _FLOAT_PARAMS[n] BY <1>5, <2>3
    <3>2. SetParam(h, n, w, y) = [h EXCEPT !.voice[w][a] = y] BY <2>3, <3>1 DEF SetParam
    <3>3. q[h.voice[w]] = [h.voice[w] EXCEPT ![a] = y] BY <2>1, <2>3
    <3>. QED BY <1>3, <3>2, <3>3 DEF Hosts
  <2>. QED BY <2>2, <2>3
<1>15. q \in [Settings -> Settings] BY <1>12
<1>16. \A h \in Hosts : Handled(h, m) = {[h EXCEPT !.voice[w] = q[h.voice[w]]]} BY <1>10, <1>14
<1> HIDE DEF q
<1>17. /\ Accepted(m)
       /\ \A k \in AllKeys : ~(k[1] = "voice" /\ k[2] = w) => Keeps(m, k)
       /\ \A b \in Attrs : (\A r \in Settings : q[r][b] = r[b]) => Keeps(m, <<"voice", w, b>>)
       /\ \A b \in Attrs : \A z : (\A r \in Settings : q[r][b] = z) => Puts(m, <<"voice", w, b>>, z)
       /\ \A h \in Hosts : q[h.voice[w]] = h.voice[w] =>
            \A g \in Handled(h, m) : \A k \in AllKeys : ValueAt(g, k) = ValueAt(h, k)
  BY <1>3, <1>15, <1>16, ThroughVoice
<1>18. \A k \in AllKeys : k[1] = "voice" /\ k[2] = w => k = <<"voice", w, k[3]>> /\ k[3] \in Attrs BY DEF AllKeys
<1>19. ASSUME NEW k \in AllKeys, k \notin Affects(c) PROVE Keeps(m, k)
  <2>1. CASE k[1] = "voice" /\ k[2] = w
    <3>1. k = <<"voice", w, k[3]>> /\ k[3] \in Attrs BY <1>18, <2>1
    <3>2. k[3] # a /\ ~(k[3] \in Once /\ a \in Once) BY <1>2, <1>19, <3>1
    <3>3. \A r \in Settings : q[r][k[3]] = r[k[3]] BY <1>12, <3>1, <3>2
    <3>. QED BY <1>17, <3>1, <3>3
  <2>. QED BY <1>17, <2>1
<1>20. ASSUME NEW k \in AllKeys PROVE Keeps(m, k) \/ \E z : Puts(m, k, z)
  <2>1. CASE k[1] = "voice" /\ k[2] = w
    <3>1. k = <<"voice", w, k[3]>> /\ k[3] \in Attrs BY <1>18, <2>1
    <3>. QED BY <1>13, <1>17, <3>1
  <2>. QED BY <1>17, <2>1
<1>21. Puts(m, Key(c), y) BY <1>2, <1>12, <1>17
<1>22. \A h \in Hosts : ValueAt(h, Key(c)) = h.voice[w][a] /\ h.voice[w] \in Settings BY <1>2, <1>3 DEF ValueAt, Hosts
<1>23. ASSUME NEW h \in Hosts, ValueAt(h, Key(c)) = y
       PROVE  \A g \in Handled(h, m) : \A k \in AllKeys : ValueAt(g, k) = ValueAt(h, k)
  <2>1. q[h.voice[w]] = h.voice[w] BY <1>12, <1>22, <1>23
  <2>. QED BY <1>17, <2>1
<1>24. Moves(c, m, y) BY <1>9, <1>17, <1>19, <1>20, <1>21, <1>23 DEF Moves
<1>25. Placed(c)
  <2>1. Key(c) \in AllKeys /\ Initial(Key(c)) = Default(a) BY <1>2, <1>3 DEF AllKeys, Initial
  <2>2. \A h \in Hosts : ValueAt(h, Key(c)) \in Lo(a) .. Hi(a) BY <1>2, <1>22 DEF Settings
  <2>. QED BY <1>2, <2>1, <2>2 DEF Placed
<1>. QED BY <1>6, <1>7, <1>24, <1>25 DEF m

LEMMA OfInputMoves ==
  ASSUME NEW c, OfInput(c), NEW x \in {0, 1}
  PROVE  Placed(c) /\ \E y : Moves(c, Message(c, x), y) /\ y = Message(c, x).args[Len(Message(c, x).args)]
<1> DEFINE address == Set("level/in_cut")
<1>1. PICK v \in Columns : c = [address |-> address, args |-> <<0, v>>, span |-> <<0, 1>>] BY DEF OfInput
<1> DEFINE w == v + 1
<1>2. v \in Int /\ w \in Voices BY Numbers
<1>3. c.address = address /\ c.args = <<0, v>> /\ c.args[2] = v /\ c.span = <<0, 1>> /\ c.span[1] = 0 /\ c.span[2] = 1
  BY <1>1
<1>4. Movable(c) BY <1>1 DEF Movable
<1>5. /\ address \notin DOMAIN ByVoice /\ address # Set("level/cut_cut") /\ address # Top("softcut/reset")
      /\ address \notin {Param("rec_flag"), Param("rec_once"), Param("voice_sync")}
  <2>1. \A s : Set("level/in_cut") # Param(s) /\ Set("level/in_cut") # Top(s) BY DEF Set, Param, Top
  <2>. QED BY <2>1, Special
<1>6. Key(c) = <<"voice", w, "input_gain">> /\ Affects(c) = {Key(c)}
  <2>1. Key(c) = <<"voice", w, "input_gain">> BY <1>3, <1>5 DEF Key
  <2>. QED BY <1>3, <1>4, <1>5, <2>1 DEF Affects
<1>7. PICK y \in {0, 1} : Message(c, x) = [address |-> address, args |-> <<0, v, y>>]
  <2>1. PICK y \in {0, 1} : Message(c, x) = [address |-> c.address, args |-> Append(c.args, y)] BY <1>3, SentLevel
  <2> DEFINE z == 0
  <2>2. y \in Int /\ z \in Int OBVIOUS
  <2> HIDE DEF z
  <2>3. Append(<<z, v>>, y) = <<z, v, y>> BY <1>2, <2>2, Appended
  <2>. QED BY <1>3, <2>1, <2>3 DEF z
<1> DEFINE m == [address |-> address, args |-> <<0, v, y>>]
           q == [r \in Settings |-> [r EXCEPT !["input_gain"] = y]]
<1>8. m.address = address /\ m.args[2] = v /\ m.args[3] = y /\ m.args[Len(m.args)] = y OBVIOUS
<1>9. Undoes(m) = {} BY <1>5, <1>8 DEF Undoes
<1>10. "input_gain" \in Attrs /\ Lo("input_gain") = 0 /\ Hi("input_gain") = 1 /\ "input_gain" \notin Once /\ Once \subseteq Attrs
  BY AttrNames DEF MixAttrs, Once
<1>11. ASSUME NEW r \in Settings
       PROVE  /\ q[r] \in Settings /\ q[r]["input_gain"] = y /\ (r["input_gain"] = y => q[r] = r)
              /\ \A b \in Attrs : b # "input_gain" => q[r][b] = r[b]
  <2>1. r \in [Attrs -> Int] /\ (\A b \in Attrs : r[b] \in Lo(b) .. Hi(b)) /\ (r["rec_once"] = 1 => r["rec"] = 1)
    BY DEF Settings
  <2> DEFINE s == [r EXCEPT !["input_gain"] = y]
  <2>2. q[r] = s OBVIOUS
  <2>3. /\ s["input_gain"] = y /\ (\A b \in Attrs : b # "input_gain" => s[b] = r[b]) /\ s \in [Attrs -> Int]
        /\ r["input_gain"] = y => s = r
    BY <1>10, <2>1
  <2> HIDE DEF s, q
  <2>4. \A b \in Attrs : s[b] \in Lo(b) .. Hi(b) BY <1>10, <2>1, <2>3
  <2>5. s["rec"] = r["rec"] /\ s["rec_once"] = r["rec_once"] BY <1>10, <2>3 DEF Once
  <2>6. s \in Settings BY <2>1, <2>3, <2>4, <2>5 DEF Settings
  <2>. QED BY <2>2, <2>3, <2>6
<1>12. q \in [Settings -> Settings] BY <1>11
<1>13. ASSUME NEW h \in Hosts PROVE Handled(h, m) = {[h EXCEPT !.voice[w] = q[h.voice[w]]]}
  <2>1. Handled(h, m) = _on_in_cut(h, m.args) BY <1>5, <1>8, Kinds DEF Handled, _build_handlers, Quiet
  <2>2. Handled(h, m) = {[h EXCEPT !.voice[w].input_gain = y]} BY <1>2, <1>8, <2>1 DEF _on_in_cut, If
  <2>3. h.voice[w] \in Settings BY <1>2 DEF Hosts
  <2>4. q[h.voice[w]] = [h.voice[w] EXCEPT !["input_gain"] = y] BY <2>3
  <2>5. [h EXCEPT !.voice[w].input_gain = y] = [h EXCEPT !.voice[w] = [h.voice[w] EXCEPT !["input_gain"] = y]]
    BY <1>2 DEF Hosts
  <2>. QED BY <2>2, <2>4, <2>5
<1> HIDE DEF q, m, address, w
<1>14. /\ Accepted(m)
       /\ \A k \in AllKeys : ~(k[1] = "voice" /\ k[2] = w) => Keeps(m, k)
       /\ \A b \in Attrs : (\A r \in Settings : q[r][b] = r[b]) => Keeps(m, <<"voice", w, b>>)
       /\ \A b \in Attrs : \A z : (\A r \in Settings : q[r][b] = z) => Puts(m, <<"voice", w, b>>, z)
       /\ \A h \in Hosts : q[h.voice[w]] = h.voice[w] =>
            \A g \in Handled(h, m) : \A k \in AllKeys : ValueAt(g, k) = ValueAt(h, k)
  BY <1>2, <1>12, <1>13, ThroughVoice
<1>15. Puts(m, Key(c), y) BY <1>6, <1>10, <1>11, <1>14
<1>16. ASSUME NEW k \in AllKeys, k # Key(c) PROVE Keeps(m, k)
  <2>1. CASE k[1] = "voice" /\ k[2] = w
    <3>1. k = <<"voice", w, k[3]>> /\ k[3] \in Attrs BY <2>1 DEF AllKeys
    <3>2. k[3] # "input_gain" BY <1>6, <1>16, <3>1
    <3>. QED BY <1>11, <1>14, <3>1, <3>2
  <2>. QED BY <1>14, <2>1
<1>17. \A h \in Hosts : ValueAt(h, Key(c)) = h.voice[w]["input_gain"] /\ h.voice[w] \in Settings
  BY <1>2, <1>6 DEF ValueAt, Hosts
<1>18. ASSUME NEW h \in Hosts, ValueAt(h, Key(c)) = y
       PROVE  \A g \in Handled(h, m) : \A k \in AllKeys : ValueAt(g, k) = ValueAt(h, k)
  <2>1. q[h.voice[w]] = h.voice[w] BY <1>11, <1>17, <1>18
  <2>. QED BY <1>14, <2>1
<1>19. Moves(c, m, y) BY <1>6, <1>9, <1>14, <1>15, <1>16, <1>18 DEF Moves
<1>20. Placed(c)
  <2>1. Key(c) \in AllKeys /\ Initial(Key(c)) = 1 BY <1>2, <1>6, <1>10 DEF AllKeys, Initial, Default
  <2>2. address \in DOMAIN VOICE_DEFAULTS /\ VOICE_DEFAULTS[address] = 1 BY Kinds DEF VOICE_DEFAULTS, address
  <2>3. position_of(c) = 1 BY <1>3, <2>2 DEF position_of
  <2>4. \A h \in Hosts : ValueAt(h, Key(c)) \in 0 .. 1 BY <1>10, <1>17 DEF Settings
  <2>. QED BY <1>3, <1>4, <2>1, <2>3, <2>4 DEF Placed
<1>. QED BY <1>7, <1>8, <1>19, <1>20 DEF m

LEMMA OfFeedbackMoves ==
  ASSUME NEW c, OfFeedback(c), NEW x \in {0, 1}
  PROVE  Placed(c) /\ \E y : Moves(c, Message(c, x), y) /\ y = Message(c, x).args[Len(Message(c, x).args)]
<1> DEFINE address == Set("level/cut_cut")
<1>1. PICK src \in Columns, dst \in Columns : c = [address |-> address, args |-> <<src, dst>>, span |-> <<0, 1>>]
  BY DEF OfFeedback
<1> DEFINE s == src + 1  d == dst + 1
<1>2. src \in Int /\ dst \in Int /\ s \in Voices /\ d \in Voices BY Numbers
<1>3. /\ c.address = address /\ c.args = <<src, dst>> /\ c.args[1] = src /\ c.args[2] = dst
      /\ c.span = <<0, 1>> /\ c.span[1] = 0 /\ c.span[2] = 1
  BY <1>1
<1>4. Movable(c) BY <1>1 DEF Movable
<1>5. /\ address \notin DOMAIN ByVoice /\ address # Set("level/in_cut") /\ address # Top("softcut/reset")
      /\ address \notin {Param("rec_flag"), Param("rec_once"), Param("voice_sync")}
  <2>1. \A q : Set("level/cut_cut") # Param(q) /\ Set("level/cut_cut") # Top(q) BY DEF Set, Param, Top
  <2>. QED BY <2>1, Special
<1>6. Key(c) = <<"feedback", s, d>> /\ Affects(c) = {Key(c)}
  <2>1. Key(c) = <<"feedback", s, d>> BY <1>3, <1>5 DEF Key
  <2>. QED BY <1>3, <1>4, <1>5, <2>1 DEF Affects
<1>7. PICK y \in {0, 1} : Message(c, x) = [address |-> address, args |-> <<src, dst, y>>]
  <2>1. PICK y \in {0, 1} : Message(c, x) = [address |-> c.address, args |-> Append(c.args, y)] BY <1>3, SentLevel
  <2>2. y \in Int OBVIOUS
  <2>3. Append(<<src, dst>>, y) = <<src, dst, y>> BY <1>2, <2>2, Appended
  <2>. QED BY <1>3, <2>1, <2>3
<1> DEFINE m == [address |-> address, args |-> <<src, dst, y>>]  G(h) == [h EXCEPT !.feedback[<<s, d>>] = y]
<1>8. m.address = address /\ m.args[1] = src /\ m.args[2] = dst /\ m.args[3] = y /\ m.args[Len(m.args)] = y OBVIOUS
<1>9. Undoes(m) = {} BY <1>5, <1>8 DEF Undoes
<1>10. ASSUME NEW h \in Hosts PROVE Handled(h, m) = {G(h)}
  <2>1. Handled(h, m) = level_cut_cut(h, m.args[1] + 1, m.args[2] + 1, m.args[3])
    BY <1>5, <1>8, Kinds DEF Handled, _build_handlers, Quiet
  <2>2. Handled(h, m) = level_cut_cut(h, s, d, y) BY <1>8, <2>1
  <2>. QED BY <1>2, <2>2 DEF level_cut_cut, If
<1> HIDE DEF m, address, s, d
<1>11. ASSUME NEW h \in Hosts
       PROVE  /\ G(h) \in Hosts
              /\ \A k \in AllKeys : ValueAt(G(h), k) = IF k = Key(c) THEN y ELSE ValueAt(h, k)
  <2>1. y \in 0 .. 1 OBVIOUS
  <2>2. /\ G(h) \in Hosts
        /\ \A k \in AllKeys : ValueAt(G(h), k) = IF k = <<"feedback", s, d>> THEN y ELSE ValueAt(h, k)
    BY <1>2, <2>1, FeedbackStep
  <2>. QED BY <1>6, <2>2
<1> HIDE DEF G
<1>12. Key(c) \in AllKeys /\ Initial(Key(c)) = 0 BY <1>2, <1>6 DEF AllKeys, Initial
<1>13. \A h \in Hosts : \A g \in Handled(h, m) : g = G(h) BY <1>10
<1>14. Accepted(m) BY <1>10, <1>11 DEF Accepted
<1>15. \A k \in AllKeys : k # Key(c) => Keeps(m, k) BY <1>11, <1>13 DEF Keeps
<1>16. Puts(m, Key(c), y) BY <1>11, <1>12, <1>13 DEF Puts
<1>17. ASSUME NEW h \in Hosts, ValueAt(h, Key(c)) = y
       PROVE  \A g \in Handled(h, m) : \A k \in AllKeys : ValueAt(g, k) = ValueAt(h, k)
  BY <1>11, <1>13, <1>17
<1>18. Moves(c, m, y) BY <1>6, <1>9, <1>14, <1>15, <1>16, <1>17 DEF Moves
<1>19. Placed(c)
  <2>1. address \notin DOMAIN VOICE_DEFAULTS
    <3>1. \A q : Set("level/cut_cut") # Param(q) BY DEF Set, Param
    <3>2. Set("level/cut_cut") \notin {Set("level/cut"), Set("level/in_cut"), Set("pan/cut")} BY DEF Set
    <3>. QED BY <3>1, <3>2 DEF VOICE_DEFAULTS, address
  <2>2. position_of(c) = 0 BY <1>3, <2>1 DEF position_of
  <2>3. \A h \in Hosts : ValueAt(h, Key(c)) \in 0 .. 1 BY <1>2, <1>6 DEF ValueAt, Hosts
  <2>. QED BY <1>3, <1>4, <1>12, <2>2, <2>3 DEF Placed
<1>. QED BY <1>7, <1>8, <1>18, <1>19 DEF m

\* The controls that have a value, and what they stand for.
LEMMA CellsPlaced ==
  ASSUME NEW c \in Cells
  PROVE  (OfVoice(c) \/ OfInput(c) \/ OfFeedback(c)) /\ Placed(c)
<1>1. c \in build /\ Movable(c) BY DEF Cells
<1>2. \A address, args : c # Trigger(address, args) BY <1>1, Pressed
<1>3. OfVoice(c) \/ OfInput(c) \/ OfFeedback(c)
  BY <1>1, <1>2, Controls DEF OfBuffer, OfSync, OfReset, OfSamples, OfNothing
<1>4. 0 \in {0, 1} OBVIOUS
<1>5. Placed(c) BY <1>3, <1>4, OfVoiceMoves, OfInputMoves, OfFeedbackMoves
<1>. QED BY <1>3, <1>5

LEMMA KeysHeld == Keys \subseteq AllKeys
<1>. QED BY CellsPlaced DEF Keys, Placed

\* A button whose message leaves the values that controls move alone.
LEMMA Aside ==
  ASSUME NEW c, NEW m, Undoes(m) = {},
         \A h \in Hosts : \E g \in Hosts : Handled(h, m) = {g} /\ g.voice = h.voice /\ g.feedback = h.feedback
  PROVE  Presses(c, m)
<1>1. Accepted(m) BY DEF Accepted
<1>2. \A h \in Hosts : \A g \in Handled(h, m) : g.voice = h.voice /\ g.feedback = h.feedback OBVIOUS
<1>3. \A k \in Keys : Keeps(m, k) BY <1>2 DEF Keeps, ValueAt
<1>. QED BY <1>1, <1>3 DEF Presses

\* A change of the samples.
LEMMA Filled ==
  ASSUME NEW h \in Hosts, NEW bs \in SUBSET (1 .. 2), NEW what \in {"file", "silence"}
  PROVE  \E g \in Hosts : Fill(h, bs, what) = {g} /\ g.voice = h.voice /\ g.feedback = h.feedback
<1> DEFINE g == [h EXCEPT !.content = [b \in 1 .. 2 |-> IF b \in bs THEN what ELSE h.content[b]]]
<1>1. Fill(h, bs, what) = {g} BY DEF Fill, If, Hosts
<1>2. g \in Hosts /\ g.voice = h.voice /\ g.feedback = h.feedback BY DEF Hosts
<1>. QED BY <1>1, <1>2

\* The buttons, class by class.
LEMMA OfSamplesPresses ==
  ASSUME NEW c, OfSamples(c), NEW x
  PROVE  ~Movable(c) /\ Presses(c, Message(c, x))
<1> DEFINE Fills(a, args) ==
      LET m == [address |-> Buf(a), args |-> args]
      IN  \E bs \in SUBSET (1 .. 2), what \in {"file", "silence"} : \A h \in Hosts : Handled(h, m) = Fill(h, bs, what)
<1>1. ASSUME NEW a, NEW args, c = Trigger(Buf(a), args), Fills(a, args)
      PROVE  ~Movable(c) /\ Presses(c, Message(c, x))
  <2> DEFINE m == [address |-> Buf(a), args |-> args]
  <2>1. ~Movable(c) /\ Message(c, x) = m BY <1>1, Pressed
  <2>2. m.address = Buf(a) OBVIOUS
  <2>3. Undoes(m) = {} BY <2>2, Kinds DEF Undoes
  <2>4. \A h \in Hosts : \E g \in Hosts : Handled(h, m) = {g} /\ g.voice = h.voice /\ g.feedback = h.feedback
    BY <1>1, Filled
  <2> HIDE DEF m
  <2>. QED BY <2>1, <2>3, <2>4, Aside
<1>2. Fills("clear", <<>>)
  <2> DEFINE m == [address |-> Buf("clear"), args |-> <<>>]
  <2>1. m.address = Buf("clear") OBVIOUS
  <2> HIDE DEF m
  <2>2. \A h \in Hosts : Handled(h, m) = Fill(h, {1, 2}, "silence")
    BY <2>1, Special, Kinds DEF Handled, _build_handlers, Quiet
  <2>3. {1, 2} \in SUBSET (1 .. 2) OBVIOUS
  <2>. QED BY <2>2, <2>3 DEF m
<1>3. Fills("clear_region", <<0, MaxTime>>)
  <2> DEFINE m == [address |-> Buf("clear_region"), args |-> <<0, MaxTime>>]
  <2>1. m.address = Buf("clear_region") OBVIOUS
  <2> HIDE DEF m
  <2>2. \A h \in Hosts : Handled(h, m) = Fill(h, {1, 2}, "silence")
    BY <2>1, Special, Kinds DEF Handled, _build_handlers, Quiet
  <2>3. {1, 2} \in SUBSET (1 .. 2) OBVIOUS
  <2>. QED BY <2>2, <2>3 DEF m
<1>4. Fills("read_stereo", <<"read_file", 0, 0, -1>>)
  <2> DEFINE m == [address |-> Buf("read_stereo"), args |-> <<"read_file", 0, 0, -1>>]
  <2>1. m.address = Buf("read_stereo") OBVIOUS
  <2> HIDE DEF m
  <2>2. \A h \in Hosts : Handled(h, m) = Fill(h, {1, 2}, "file")
    BY <2>1, Special, Kinds DEF Handled, _build_handlers, Quiet
  <2>3. {1, 2} \in SUBSET (1 .. 2) OBVIOUS
  <2>. QED BY <2>2, <2>3 DEF m
<1>5. Fills("read_mono", <<"read_file", 0, 0, -1, 0, 0>>)
  <2> DEFINE m == [address |-> Buf("read_mono"), args |-> <<"read_file", 0, 0, -1, 0, 0>>]
  <2>1. m.address = Buf("read_mono") /\ m.args[6] + 1 = 1 OBVIOUS
  <2> HIDE DEF m
  <2>2. \A h \in Hosts : Handled(h, m) = Fill(h, {m.args[6] + 1}, "file")
    BY <2>1, Special, Kinds DEF Handled, _build_handlers, Quiet
  <2>3. {1} \in SUBSET (1 .. 2) OBVIOUS
  <2>. QED BY <2>1, <2>2, <2>3 DEF m
<1>6. ASSUME NEW b \in 0 .. 1, NEW a \in {"clear_channel", "clear_region_channel"}, NEW args, args[1] = b
      PROVE  Fills(a, args)
  <2> DEFINE m == [address |-> Buf(a), args |-> args]
  <2>1. m.address = Buf(a) /\ m.args[1] = b BY <1>6
  <2>2. b + 1 \in 1 .. 2 OBVIOUS
  <2> HIDE DEF m
  <2>3. \A h \in Hosts : Handled(h, m) = Fill(h, {m.args[1] + 1}, "silence")
    BY <2>1, <1>6, Special, Kinds DEF Handled, _build_handlers, Quiet
  <2>4. {b + 1} \in SUBSET (1 .. 2) BY <2>2
  <2>. QED BY <2>1, <2>3, <2>4 DEF m
<1> HIDE DEF Fills
<1>7. CASE \E b \in 0 .. 1 : c \in {Trigger(Buf("clear_channel"), <<b>>), Trigger(Buf("clear_region_channel"), <<b, 0, MaxTime>>)}
  <2>1. PICK b \in 0 .. 1 : c \in {Trigger(Buf("clear_channel"), <<b>>), Trigger(Buf("clear_region_channel"), <<b, 0, MaxTime>>)}
    BY <1>7
  <2>2. Fills("clear_channel", <<b>>) /\ Fills("clear_region_channel", <<b, 0, MaxTime>>) BY <1>6
  <2>. QED BY <1>1, <2>1, <2>2
<1>. QED BY <1>1, <1>2, <1>3, <1>4, <1>5, <1>7 DEF OfSamples

LEMMA OfNothingPresses ==
  ASSUME NEW c, OfNothing(c), NEW x
  PROVE  ~Movable(c) /\ Presses(c, Message(c, x))
<1>1. PICK address, args : address \in Quiet /\ c = Trigger(address, args) BY DEF OfNothing
<1> DEFINE m == [address |-> address, args |-> args]
<1>2. ~Movable(c) /\ Message(c, x) = m BY <1>1, Pressed
<1>3. m.address \in Quiet BY <1>1
<1> HIDE DEF m
<1>4. Undoes(m) = {} BY <1>3, Kinds DEF Undoes, Quiet
<1>5. m.address \notin DOMAIN ByVoice BY <1>3, Special
<1>6. \A h \in Hosts : Handled(h, m) = {h} BY <1>3, <1>5, Kinds DEF Handled, _build_handlers, Quiet
<1>. QED BY <1>2, <1>4, <1>6, Aside

LEMMA OfBufferPresses ==
  ASSUME NEW c, OfBuffer(c), NEW x
  PROVE  ~Movable(c) /\ Presses(c, Message(c, x))
<1>1. PICK v \in Columns, b \in 0 .. 1 : c = Trigger(Param("buffer"), <<v, b>>) BY DEF OfBuffer
<1> DEFINE m == [address |-> Param("buffer"), args |-> <<v, b>>]
<1>2. ~Movable(c) /\ Message(c, x) = m BY <1>1, Pressed
<1>3. m.address = Param("buffer") /\ m.args[1] = v /\ m.args[2] = b OBVIOUS
<1>4. v + 1 \in Voices /\ b + 1 \in 1 .. 2 BY Numbers
<1> HIDE DEF m
<1>5. Undoes(m) = {} BY <1>3, Kinds DEF Undoes
<1>6. ASSUME NEW h \in Hosts
      PROVE  \E g \in Hosts : Handled(h, m) = {g} /\ g.voice = h.voice /\ g.feedback = h.feedback
  <2>1. Handled(h, m) = buffer(h, v + 1, b + 1) BY <1>3, Special, Kinds DEF Handled, _build_handlers, Quiet
  <2> DEFINE w == v + 1  d == b + 1  g == [h EXCEPT !.assign[w] = d]
  <2>2. Handled(h, m) = {g} BY <1>4, <2>1 DEF buffer, If
  <2>3. w \in Voices /\ d \in 1 .. 2 BY <1>4
  <2> HIDE DEF w, d
  <2>4. g \in Hosts /\ g.voice = h.voice /\ g.feedback = h.feedback BY <2>3 DEF Hosts
  <2>. QED BY <2>2, <2>4
<1>. QED BY <1>2, <1>5, <1>6, Aside

LEMMA OfSyncPresses ==
  ASSUME NEW c, OfSync(c), NEW x
  PROVE  ~Movable(c) /\ Presses(c, Message(c, x))
<1>1. PICK dst \in Columns, src \in Columns : c = Trigger(Param("voice_sync"), <<dst, src, 0>>) BY DEF OfSync
<1> DEFINE m == [address |-> Param("voice_sync"), args |-> <<dst, src, 0>>]  w == dst + 1  s == src + 1
<1>2. ~Movable(c) /\ Message(c, x) = m BY <1>1, Pressed
<1>3. m.address = Param("voice_sync") /\ m.args[1] = dst /\ m.args[2] = src /\ m.args[3] = 0 OBVIOUS
<1>4. w \in Voices /\ s \in Voices BY Numbers
<1>5. c.address = Param("voice_sync") /\ c.args[1] = dst BY <1>1 DEF Trigger
<1> HIDE DEF m
<1>6. Undoes(m) = {<<"voice", w, "position">>} BY <1>3, Kinds DEF Undoes
<1>7. Affects(c) = {<<"voice", w, "position">>} BY <1>2, <1>5 DEF Affects
<1>8. ASSUME NEW h \in Hosts PROVE Handled(h, m) = {[h EXCEPT !.voice[w].position = h.voice[s].position + 0]}
  <2>1. Handled(h, m) = voice_sync(h, w, s, 0) BY <1>3, Special, Kinds DEF Handled, _build_handlers, Quiet
  <2>. QED BY <1>4, <2>1 DEF voice_sync, If
<1> HIDE DEF w, s
<1>9. "position" \in Attrs /\ "position" \notin Once /\ Once \subseteq Attrs BY AttrNames
<1>10. ASSUME NEW h \in Hosts
       PROVE  \E r \in Settings : /\ Handled(h, m) = {[h EXCEPT !.voice[w] = r]}
                                  /\ \A b \in Attrs : b # "position" => r[b] = h.voice[w][b]
  <2> DEFINE p == h.voice[s].position  r == [h.voice[w] EXCEPT !["position"] = p]
  <2>1. h.voice[w] \in Settings /\ h.voice[s] \in Settings BY <1>4 DEF Hosts
  <2>2. p \in Lo("position") .. Hi("position") /\ p \in Int BY <1>9, <2>1 DEF Settings
  <2>3. p + 0 = p BY <2>2
  <2> HIDE DEF p
  <2>4. Handled(h, m) = {[h EXCEPT !.voice[w] = r]}
    <3>1. Handled(h, m) = {[h EXCEPT !.voice[w].position = p]} BY <1>8, <2>3 DEF p
    <3>. QED BY <1>4, <3>1 DEF Hosts
  <2>5. h.voice[w] \in [Attrs -> Int] /\ (\A b \in Attrs : h.voice[w][b] \in Lo(b) .. Hi(b))
        /\ (h.voice[w]["rec_once"] = 1 => h.voice[w]["rec"] = 1)
    BY <2>1 DEF Settings
  <2>6. r \in [Attrs -> Int] /\ r["position"] = p /\ \A b \in Attrs : b # "position" => r[b] = h.voice[w][b]
    BY <1>9, <2>2, <2>5
  <2> HIDE DEF r
  <2>7. \A b \in Attrs : r[b] \in Lo(b) .. Hi(b) BY <2>2, <2>5, <2>6
  <2>8. r["rec"] = h.voice[w]["rec"] /\ r["rec_once"] = h.voice[w]["rec_once"] BY <1>9, <2>6 DEF Once
  <2>9. r \in Settings BY <2>5, <2>6, <2>7, <2>8 DEF Settings
  <2>. QED BY <2>4, <2>6, <2>9 DEF r
<1>11. ASSUME NEW h \in Hosts
       PROVE  \E g \in Hosts : /\ Handled(h, m) = {g}
                               /\ \A k \in AllKeys : k # <<"voice", w, "position">> => ValueAt(g, k) = ValueAt(h, k)
  <2>1. PICK r \in Settings : /\ Handled(h, m) = {[h EXCEPT !.voice[w] = r]}
                              /\ \A b \in Attrs : b # "position" => r[b] = h.voice[w][b]
    BY <1>10
  <2> DEFINE g == [h EXCEPT !.voice[w] = r]
  <2>2. g \in Hosts /\ \A k \in AllKeys : ValueAt(g, k) = IF k[1] = "voice" /\ k[2] = w THEN r[k[3]] ELSE ValueAt(h, k)
    BY <1>4, VoiceStep
  <2> HIDE DEF g
  <2>3. ASSUME NEW k \in AllKeys, k # <<"voice", w, "position">> PROVE ValueAt(g, k) = ValueAt(h, k)
    <3>1. CASE k[1] = "voice" /\ k[2] = w
      <4>1. k = <<"voice", w, k[3]>> /\ k[3] \in Attrs BY <3>1 DEF AllKeys
      <4>2. ValueAt(h, k) = h.voice[w][k[3]] BY <3>1 DEF ValueAt
      <4>3. k[3] # "position" BY <2>3, <4>1
      <4>. QED BY <2>1, <2>2, <3>1, <4>1, <4>2, <4>3
    <3>. QED BY <2>2, <3>1
  <2>. QED BY <2>1, <2>2, <2>3 DEF g
<1>12. Accepted(m) BY <1>11 DEF Accepted
<1>13. \A k \in Keys : k \notin Undoes(m) => Keeps(m, k)
  <2>1. \A h \in Hosts : \A g \in Handled(h, m) : \A k \in AllKeys :
          k # <<"voice", w, "position">> => ValueAt(g, k) = ValueAt(h, k)
    BY <1>11
  <2>. QED BY <1>6, <2>1, KeysHeld DEF Keeps
<1>14. Presses(c, m) BY <1>6, <1>7, <1>12, <1>13 DEF Presses
<1>. QED BY <1>2, <1>14

LEMMA OfResetPresses ==
  ASSUME NEW c, OfReset(c), NEW x
  PROVE  ~Movable(c) /\ Presses(c, Message(c, x))
<1> DEFINE m == [address |-> Top("softcut/reset"), args |-> <<>>]
<1>1. ~Movable(c) /\ Message(c, x) = m BY Pressed DEF OfReset
<1>2. m.address = Top("softcut/reset") OBVIOUS
<1> HIDE DEF m
<1>3. Undoes(m) = {k \in Keys : k[1] = "voice" /\ k[3] \notin MixAttrs} BY <1>2, Kinds DEF Undoes
<1>4. ASSUME NEW h \in Hosts PROVE Handled(h, m) = {reset(h)}
  BY <1>2, Special, Kinds DEF Handled, _build_handlers, Quiet
<1>5. ASSUME NEW r \in Settings
      PROVE  ResetVoice(r) \in Settings /\ \A a \in Attrs : ResetVoice(r)[a] = IF a \in MixAttrs THEN r[a] ELSE Default(a)
  <2>1. ResetVoice(r) = [a \in Attrs |-> IF a \in MixAttrs THEN r[a] ELSE Default(a)] BY DEF ResetVoice, Fresh
  <2>2. r \in [Attrs -> Int] /\ \A a \in Attrs : r[a] \in Lo(a) .. Hi(a) BY DEF Settings
  <2>3. \A a \in Attrs : Default(a) \in Lo(a) .. Hi(a) /\ Default(a) \in Int BY Ranges
  <2>4. "rec" \in Attrs /\ "rec_once" \in Attrs /\ "rec_once" \notin MixAttrs /\ Default("rec_once") = 0
    BY AttrNames DEF Once, MixAttrs, Default
  <2> DEFINE q == ResetVoice(r)
  <2>5. q \in [Attrs -> Int] /\ \A a \in Attrs : q[a] = IF a \in MixAttrs THEN r[a] ELSE Default(a) BY <2>1, <2>2, <2>3
  <2> HIDE DEF q
  <2>6. (\A a \in Attrs : q[a] \in Lo(a) .. Hi(a)) /\ q["rec_once"] = 0 BY <2>2, <2>3, <2>4, <2>5
  <2>7. q \in Settings BY <2>5, <2>6 DEF Settings
  <2>. QED BY <2>5, <2>7 DEF q
<1>6. ASSUME NEW h \in Hosts
      PROVE  /\ reset(h) \in Hosts /\ reset(h).feedback = h.feedback
             /\ \A v \in Voices : h.voice[v] \in Settings /\ reset(h).voice[v] = ResetVoice(h.voice[v])
  <2>1. \A v \in Voices : h.voice[v] \in Settings BY DEF Hosts
  <2>2. \A v \in Voices : ResetVoice(h.voice[v]) \in Settings BY <1>5, <2>1
  <2> DEFINE V == [v \in Voices |-> ResetVoice(h.voice[v])]  A == [v \in Voices |-> 1]
  <2>3. reset(h) = [h EXCEPT !.voice = V, !.assign = A] BY DEF reset
  <2>4. V \in [Voices -> Settings] /\ A \in [Voices -> 1 .. 2] /\ \A v \in Voices : V[v] = ResetVoice(h.voice[v])
    BY <2>2
  <2> HIDE DEF V, A
  <2>5. reset(h) \in Hosts /\ reset(h).feedback = h.feedback /\ reset(h).voice = V BY <2>3, <2>4 DEF Hosts
  <2>. QED BY <2>1, <2>4, <2>5
<1>7. ASSUME NEW h \in Hosts, NEW k \in AllKeys
      PROVE  ValueAt(reset(h), k) = IF k[1] = "voice" /\ k[3] \notin MixAttrs THEN Initial(k) ELSE ValueAt(h, k)
  <2>1. CASE k[1] = "voice"
    <3>1. k[2] \in Voices /\ k[3] \in Attrs BY <2>1 DEF AllKeys
    <3>2. ValueAt(reset(h), k) = ResetVoice(h.voice[k[2]])[k[3]] /\ ValueAt(h, k) = h.voice[k[2]][k[3]]
      BY <1>6, <2>1, <3>1 DEF ValueAt
    <3>. QED BY <1>5, <1>6, <2>1, <3>1, <3>2 DEF Initial
  <2>2. CASE k[1] # "voice" BY <1>6, <2>2 DEF ValueAt
  <2>. QED BY <2>1, <2>2
<1>8. Accepted(m) BY <1>4, <1>6 DEF Accepted
<1>9. \A h \in Hosts : \A g \in Handled(h, m) : g = reset(h) BY <1>4
<1>10. \A k \in Keys : k \notin Undoes(m) => Keeps(m, k) BY <1>3, <1>7, <1>9, KeysHeld DEF Keeps
<1>11. \A k \in Undoes(m) : Puts(m, k, Initial(k)) BY <1>3, <1>7, <1>9, KeysHeld DEF Puts
<1>12. Presses(c, m) BY <1>8, <1>10, <1>11 DEF Presses
<1>. QED BY <1>1, <1>12

\* What every control of the layout is, and does.
LEMMA EveryControl ==
  ASSUME NEW c \in build, NEW x \in {0, 1}
  PROVE  /\ Movable(c) => /\ Key(c) \in Keys
                          /\ Moves(c, Message(c, x), Message(c, x).args[Len(Message(c, x).args)])
         /\ ~Movable(c) => Presses(c, Message(c, x))
<1>1. CASE Movable(c)
  <2>1. c \in Cells BY <1>1 DEF Cells
  <2>2. \E y : Moves(c, Message(c, x), y) /\ y = Message(c, x).args[Len(Message(c, x).args)]
    BY <2>1, CellsPlaced, OfVoiceMoves, OfInputMoves, OfFeedbackMoves
  <2>. QED BY <1>1, <2>1, <2>2 DEF Keys
<1>2. CASE ~Movable(c)
  <2>1. ~OfVoice(c) /\ ~OfInput(c) /\ ~OfFeedback(c)
    BY <1>2, OfVoiceMoves, OfInputMoves, OfFeedbackMoves DEF Placed
  <2>. QED BY <1>2, <2>1, Controls, OfBufferPresses, OfSyncPresses, OfResetPresses, OfSamplesPresses, OfNothingPresses
<1>. QED BY <1>1, <1>2

-----------------------------------------------------------------------------
(* Surface: the inductive invariant *)

\* A message that a touch has sent or is sending.
Origin(m, c) == c \in build /\ Affects(c) \subseteq touched /\ \E x \in {0, 1} : m = Message(c, x)
Messages == {Message(c, x) : c \in build, x \in {0, 1}}

Travels == wire \in Seq(Messages) /\ \A i \in 1 .. Len(wire) : (\E c : Origin(wire[i], c)) /\ Undoes(wire[i]) \subseteq stirred

Touching ==
  finger # Nothing =>
    \E c : /\ Origin(finger.message, c) /\ finger.waits = Movable(c)
           /\ Movable(c) => finger.key = Key(c) /\ DOMAIN shown \cap Affects(c) = {}
           /\ ~Movable(c) => sends = 0

\* What the messages on the wire leave at the value it has.
LeavesAt(m, k, x) == \A h \in Hosts : ValueAt(h, k) = x => \A g \in Handled(h, m) : ValueAt(g, k) = x

\* A value on its way to no other: all of the wire leaves it, but for the datagrams at the
\* end of the wire of the touch that is going on.
Settled(k) ==
  \E p \in 0 .. Len(wire) :
    /\ \A i \in 1 .. p : LeavesAt(wire[i], k, ValueAt(host, k))
    /\ \A i \in p + 1 .. Len(wire) : finger # Nothing /\ finger.waits /\ wire[i] = finger.message

Counted ==
  /\ touches \in 0 .. MaxTouches /\ sends \in 0 .. MaxSends /\ Len(wire) <= touches * MaxSends
  /\ finger # Nothing => Len(wire) + MaxSends <= touches * MaxSends + sends

Opens == \A k \in Keys : k \notin touched => ValueAt(host, k) = Initial(k)
Shows == DOMAIN shown \subseteq Keys /\ DOMAIN shown \cap stirred = {} /\ \A k \in DOMAIN shown : ValueAt(host, k) = shown[k]
Settles == \A k \in Keys : k \notin stirred => Settled(k)

SurfaceInv ==
  host \in Hosts /\ failed = FALSE /\ Travels /\ Touching /\ Counted /\ Opens /\ Shows /\ Settles

\* The host opens as its controls do.
LEMMA NewHostFacts == NewHost \in Hosts /\ \A k \in AllKeys : ValueAt(NewHost, k) = Initial(k)
<1>1. Fresh \in Settings
  <2>1. \A a \in Attrs : Default(a) \in Lo(a) .. Hi(a) /\ Default(a) \in Int BY Ranges
  <2>2. "rec_once" \in Attrs /\ Default("rec_once") = 0 BY AttrNames DEF Once, Default
  <2>3. Fresh \in [Attrs -> Int] /\ \A a \in Attrs : Fresh[a] = Default(a) BY <2>1 DEF Fresh
  <2>. QED BY <2>1, <2>2, <2>3 DEF Settings
<1>2. NewHost \in Hosts BY <1>1 DEF NewHost, Hosts
<1>3. ASSUME NEW k \in AllKeys PROVE ValueAt(NewHost, k) = Initial(k)
  <2>1. CASE k[1] = "voice"
    <3>1. k[2] \in Voices /\ k[3] \in Attrs BY <2>1 DEF AllKeys
    <3>. QED BY <2>1, <3>1 DEF ValueAt, NewHost, Fresh, Initial
  <2>2. CASE k[1] # "voice"
    <3>1. <<k[2], k[3]>> \in Voices \X Voices BY <2>2 DEF AllKeys
    <3>. QED BY <2>2, <3>1 DEF ValueAt, NewHost, Initial
  <2>. QED BY <2>1, <2>2
<1>. QED BY <1>2, <1>3

LEMMA SurfaceStarts == SurfaceInit => SurfaceInv
<1> SUFFICES ASSUME SurfaceInit PROVE SurfaceInv OBVIOUS
<1> USE DEF SurfaceInit
<1>1. host \in Hosts BY NewHostFacts
<1>2. Travels BY DEF Travels
<1>3. Touching BY DEF Touching
<1>4. Counted BY ConstantsAssumption DEF Counted
<1>5. Opens BY NewHostFacts, KeysHeld DEF Opens
<1>6. Shows
  <2>1. DOMAIN shown = {} OBVIOUS
  <2>. QED BY <2>1 DEF Shows
<1>7. Settles BY DEF Settles, Settled
<1>. QED BY <1>1, <1>2, <1>3, <1>4, <1>5, <1>6, <1>7 DEF SurfaceInv

\* What a message of a touch does: every host takes it, it keeps what its control does not
\* affect, and what it undoes opens again as it was.
LEMMA OriginFacts ==
  ASSUME NEW m, NEW c, Origin(m, c)
  PROVE  /\ Accepted(m)
         /\ \A k \in Keys : k \notin Undoes(m) /\ k \notin Affects(c) => Keeps(m, k)
         /\ \A k \in Keys : k \in Undoes(m) /\ k \notin Affects(c) => Puts(m, k, Initial(k))
         /\ ~Movable(c) => \A k \in Keys : k \notin Undoes(m) => Keeps(m, k)
         /\ Movable(c) => Key(c) \in Keys /\ Moves(c, m, m.args[Len(m.args)])
<1>1. PICK x \in {0, 1} : m = Message(c, x) BY DEF Origin
<1>2. c \in build BY DEF Origin
<1>3. CASE Movable(c)
  <2>1. Key(c) \in Keys /\ Moves(c, m, m.args[Len(m.args)]) BY <1>1, <1>2, <1>3, EveryControl
  <2>. QED BY <1>3, <2>1, KeysHeld DEF Moves
<1>4. CASE ~Movable(c)
  <2>1. Presses(c, m) BY <1>1, <1>2, <1>4, EveryControl
  <2>. QED BY <1>4, <2>1 DEF Presses
<1>. QED BY <1>3, <1>4

\* A message that keeps a value leaves it wherever it is.
LEMMA KeepsLeaves == ASSUME NEW m, NEW k, NEW x, Keeps(m, k) PROVE LeavesAt(m, k, x)
<1>. QED BY DEF Keeps, LeavesAt

\* A touch begins.
LEMMA TouchKeeps ==
  ASSUME SurfaceInv, NEW c \in build, NEW x \in {0, 1}, TouchControl(c, x)
  PROVE  SurfaceInv'
<1> USE DEF TouchControl
<1>1. host' \in Hosts /\ failed' = FALSE BY DEF SurfaceInv
<1>2. Travels' BY DEF SurfaceInv, Travels, Origin
<1>3. Touching'
  <2>1. Affects(c) \subseteq touched' OBVIOUS
  <2>2. /\ finger'.message = Message(c, x) /\ finger'.waits = Movable(c)
        /\ Movable(c) => finger'.key = Key(c)
    OBVIOUS
  <2>3. Movable(c) => DOMAIN shown' \cap Affects(c) = {} BY DEF Without
  <2>4. sends' = 0 OBVIOUS
  <2>. QED BY <2>1, <2>2, <2>3, <2>4 DEF Touching, Origin
<1>4. Counted'
  <2>1. /\ touches \in 0 .. MaxTouches /\ touches < MaxTouches /\ MaxTouches \in Nat /\ MaxSends \in Nat
        /\ Len(wire) <= touches * MaxSends
    BY ConstantsAssumption DEF SurfaceInv, Counted
  <2>2. touches' = touches + 1 /\ sends' = 0 /\ wire' = wire OBVIOUS
  <2>3. Len(wire) \in Nat BY DEF SurfaceInv, Travels
  <2>4. (touches + 1) * MaxSends = touches * MaxSends + MaxSends /\ touches * MaxSends \in Nat BY <2>1
  <2>. QED BY <2>1, <2>2, <2>3, <2>4 DEF Counted
<1>5. Opens' BY DEF SurfaceInv, Opens
<1>6. Shows' BY DEF SurfaceInv, Shows, Without
<1>7. Settles'
  <2>1. ASSUME NEW k \in Keys, k \notin stirred PROVE Settled(k)'
    <3>1. PICK p \in 0 .. Len(wire) :
            /\ \A i \in 1 .. p : LeavesAt(wire[i], k, ValueAt(host, k))
            /\ \A i \in p + 1 .. Len(wire) : finger # Nothing
      BY <2>1 DEF SurfaceInv, Settles, Settled
    <3>2. Len(wire) \in Nat BY DEF SurfaceInv, Travels
    <3>3. p = Len(wire) BY <3>1, <3>2
    <3>4. wire' = wire /\ host' = host OBVIOUS
    <3>. QED BY <3>1, <3>2, <3>3, <3>4 DEF Settled
  <2>. QED BY <2>1 DEF Settles
<1>. QED BY <1>1, <1>2, <1>3, <1>4, <1>5, <1>6, <1>7 DEF SurfaceInv

\* A datagram is sent, or lost on its way.
LEMMA SendKeeps == ASSUME SurfaceInv, Send PROVE SurfaceInv'
<1> DEFINE m == finger.message
<1>1. /\ finger # Nothing /\ sends < MaxSends /\ sends' = sends + 1
      /\ touches' = touches /\ host' = host /\ failed' = failed /\ touched' = touched
      /\ finger' = IF finger.waits THEN finger ELSE Nothing
      /\ \/ wire' = wire /\ shown' = shown /\ stirred' = stirred
         \/ wire' = Append(wire, m) /\ stirred' = stirred \union Undoes(m) /\ shown' = Without(shown, Undoes(m))
  BY DEF Send
<1>2. PICK c : /\ Origin(m, c) /\ finger.waits = Movable(c)
               /\ Movable(c) => finger.key = Key(c) /\ DOMAIN shown \cap Affects(c) = {}
               /\ ~Movable(c) => sends = 0
  BY <1>1 DEF SurfaceInv, Touching
<1>3. wire \in Seq(Messages) /\ Len(wire) \in Nat BY DEF SurfaceInv, Travels
<1>4. m \in Messages BY <1>2 DEF Origin, Messages
<1>5. stirred \subseteq stirred' BY <1>1
<1>6. host' \in Hosts /\ failed' = FALSE BY <1>1 DEF SurfaceInv
<1>7. DOMAIN shown' \subseteq DOMAIN shown /\ \A k \in DOMAIN shown' : shown'[k] = shown[k] BY <1>1 DEF Without
<1>8. ASSUME wire' = wire /\ shown' = shown /\ stirred' = stirred
      PROVE  Travels' /\ Settles' /\ Shows' /\ (Len(wire') = Len(wire) \/ Len(wire') = Len(wire) + 1)
  <2>1. Travels' BY <1>1, <1>8 DEF SurfaceInv, Travels, Origin
  <2>2. Settles'
    <3>1. ASSUME NEW k \in Keys, k \notin stirred PROVE Settled(k)'
      <4>1. PICK p \in 0 .. Len(wire) :
              /\ \A i \in 1 .. p : LeavesAt(wire[i], k, ValueAt(host, k))
              /\ \A i \in p + 1 .. Len(wire) : finger # Nothing /\ finger.waits /\ wire[i] = m
        BY <3>1 DEF SurfaceInv, Settles, Settled
      <4>2. CASE finger.waits BY <1>1, <1>8, <4>1, <4>2 DEF Settled
      <4>3. CASE ~finger.waits
        <5>1. p = Len(wire) BY <1>3, <4>1, <4>3
        <5>. QED BY <1>1, <1>3, <1>8, <4>1, <5>1 DEF Settled
      <4>. QED BY <4>2, <4>3
    <3>. QED BY <1>8, <3>1 DEF Settles
  <2>3. Len(wire') = Len(wire) BY <1>8
  <2>4. Shows' BY <1>1, <1>8 DEF SurfaceInv, Shows
  <2>. QED BY <2>1, <2>2, <2>3, <2>4
<1>9. ASSUME wire' = Append(wire, m) /\ stirred' = stirred \union Undoes(m) /\ shown' = Without(shown, Undoes(m))
      PROVE  Travels' /\ Settles' /\ Shows' /\ (Len(wire') = Len(wire) \/ Len(wire') = Len(wire) + 1)
  <2>1. /\ wire' \in Seq(Messages) /\ Len(wire') = Len(wire) + 1 /\ wire'[Len(wire) + 1] = m
        /\ \A i \in 1 .. Len(wire) : wire'[i] = wire[i]
    BY <1>3, <1>4, <1>9
  <2>2. Travels'
    <3>1. ASSUME NEW i \in 1 .. Len(wire')
          PROVE  /\ \E d \in build, x \in {0, 1} : Affects(d) \subseteq touched' /\ wire'[i] = Message(d, x)
                 /\ Undoes(wire'[i]) \subseteq stirred'
      <4>1. CASE i \in 1 .. Len(wire)
        <5>1. (\E d : Origin(wire[i], d)) /\ Undoes(wire[i]) \subseteq stirred BY <4>1 DEF SurfaceInv, Travels
        <5>. QED BY <1>1, <1>5, <2>1, <4>1, <5>1 DEF Origin
      <4>2. CASE i = Len(wire) + 1 BY <1>1, <1>2, <1>9, <2>1, <4>2 DEF Origin
      <4>. QED BY <1>3, <2>1, <4>1, <4>2
    <3>. QED BY <2>1, <3>1 DEF Travels, Origin
  <2>3. Settles'
    <3>1. ASSUME NEW k \in Keys, k \notin stirred' PROVE Settled(k)'
      <4>1. PICK p \in 0 .. Len(wire) :
              /\ \A i \in 1 .. p : LeavesAt(wire[i], k, ValueAt(host, k))
              /\ \A i \in p + 1 .. Len(wire) : finger # Nothing /\ finger.waits /\ wire[i] = m
        BY <1>5, <3>1 DEF SurfaceInv, Settles, Settled
      <4>2. CASE finger.waits
        <5>1. \A i \in 1 .. p : LeavesAt(wire'[i], k, ValueAt(host, k)) BY <1>3, <2>1, <4>1
        <5>2. \A i \in p + 1 .. Len(wire) + 1 : wire'[i] = m BY <1>3, <2>1, <4>1
        <5>3. p \in 0 .. Len(wire') BY <1>3, <2>1
        <5>. QED BY <1>1, <2>1, <4>2, <5>1, <5>2, <5>3 DEF Settled
      <4>3. CASE ~finger.waits
        <5>1. p = Len(wire) BY <1>3, <4>1, <4>3
        <5>2. Keeps(m, k) BY <1>2, <1>9, <3>1, <4>3, OriginFacts
        <5>3. LeavesAt(m, k, ValueAt(host, k)) BY <5>2, KeepsLeaves
        <5>4. \A i \in 1 .. Len(wire') : LeavesAt(wire'[i], k, ValueAt(host, k)) BY <1>3, <2>1, <4>1, <5>1, <5>3
        <5>. QED BY <1>1, <1>3, <2>1, <5>4 DEF Settled
      <4>. QED BY <4>2, <4>3
    <3>. QED BY <3>1 DEF Settles
  <2>4. Shows'
    <3>1. DOMAIN shown' = DOMAIN shown \ Undoes(m) BY <1>9 DEF Without
    <3>. QED BY <1>1, <1>7, <1>9, <3>1 DEF SurfaceInv, Shows
  <2>. QED BY <2>1, <2>2, <2>3, <2>4
<1>10. Travels' /\ Settles' /\ Shows' /\ (Len(wire') = Len(wire) \/ Len(wire') = Len(wire) + 1) BY <1>1, <1>8, <1>9
<1>11. Touching'
  <2>1. CASE finger.waits
    <3>1. c \in build /\ Affects(c) \subseteq touched' /\ \E x \in {0, 1} : finger'.message = Message(c, x)
      BY <1>1, <1>2, <2>1 DEF Origin
    <3>. QED BY <1>1, <1>2, <1>7, <2>1, <3>1 DEF Touching, Origin
  <2>2. CASE ~finger.waits BY <1>1, <2>2 DEF Touching
  <2>. QED BY <2>1, <2>2
<1>12. Counted'
  <2>1. /\ touches \in 0 .. MaxTouches /\ sends \in 0 .. MaxSends /\ Len(wire) + MaxSends <= touches * MaxSends + sends
        /\ MaxTouches \in Nat /\ MaxSends \in Nat
    BY <1>1, ConstantsAssumption DEF SurfaceInv, Counted
  <2>2. touches * MaxSends \in Nat BY <2>1
  <2>3. Len(wire') + MaxSends <= touches * MaxSends + sends' /\ sends' \in 0 .. MaxSends BY <1>1, <1>3, <1>10, <2>1, <2>2
  <2>4. Len(wire') <= touches * MaxSends BY <1>1, <1>3, <1>10, <2>1, <2>2
  <2>. QED BY <1>1, <2>1, <2>3, <2>4 DEF Counted
<1>13. Opens' BY <1>1 DEF SurfaceInv, Opens
<1>. QED BY <1>6, <1>10, <1>11, <1>12, <1>13 DEF SurfaceInv

\* The finger sees what it waited for, and lets go.
LEMMA SeeKeeps == ASSUME SurfaceInv, See PROVE SurfaceInv'
<1> DEFINE m == finger.message
<1>1. /\ finger # Nothing /\ sends > 0 /\ ValueAt(host, finger.key) = Wanted /\ finger' = Nothing
      /\ shown' = IF finger.key \in stirred THEN shown ELSE With(shown, finger.key, Wanted)
      /\ sends' = sends /\ touches' = touches /\ wire' = wire /\ host' = host /\ failed' = failed
      /\ touched' = touched /\ stirred' = stirred
  BY DEF See
<1>2. PICK c : /\ Origin(m, c) /\ finger.waits = Movable(c)
               /\ Movable(c) => finger.key = Key(c) /\ DOMAIN shown \cap Affects(c) = {}
               /\ ~Movable(c) => sends = 0
  BY <1>1 DEF SurfaceInv, Touching
<1>3. sends \in Nat /\ wire \in Seq(Messages) /\ Len(wire) \in Nat BY DEF SurfaceInv, Counted, Travels
<1>4. Movable(c) BY <1>1, <1>2, <1>3
<1>5. Key(c) \in Keys /\ Moves(c, m, Wanted) BY <1>2, <1>4, OriginFacts DEF Wanted
<1>6. host \in Hosts /\ ValueAt(host, Key(c)) = Wanted BY <1>1, <1>2, <1>4 DEF SurfaceInv
<1>7. \A k \in Keys : LeavesAt(m, k, ValueAt(host, k))
  <2> TAKE k \in Keys
  <2>1. k \in AllKeys BY KeysHeld
  <2>2. CASE Keeps(m, k) BY <2>2, KeepsLeaves
  <2>3. ASSUME NEW x, Puts(m, k, x) PROVE LeavesAt(m, k, ValueAt(host, k))
    <3>1. PICK g \in Hosts : Handled(host, m) = {g} BY <1>5, <1>6 DEF Moves, Accepted
    <3>2. ValueAt(g, k) = ValueAt(host, k) BY <1>5, <1>6, <2>1, <3>1 DEF Moves
    <3>3. x = ValueAt(host, k) BY <1>6, <2>3, <3>1, <3>2 DEF Puts
    <3>. QED BY <2>3, <3>3 DEF Puts, LeavesAt
  <2>. QED BY <1>5, <2>1, <2>2, <2>3 DEF Moves
<1>8. Travels' BY <1>1 DEF SurfaceInv, Travels, Origin
<1>9. Touching' BY <1>1 DEF Touching
<1>10. Counted' BY <1>1 DEF SurfaceInv, Counted
<1>11. Opens' BY <1>1 DEF SurfaceInv, Opens
<1>12. Shows'
  <2>1. CASE finger.key \in stirred BY <1>1, <2>1 DEF SurfaceInv, Shows
  <2>2. CASE finger.key \notin stirred
    <3>1. finger.key = Key(c) BY <1>2, <1>4
    <3>2. shown' = With(shown, Key(c), Wanted) BY <1>1, <2>2, <3>1
    <3>3. DOMAIN shown' = DOMAIN shown \union {Key(c)} BY <3>2 DEF With
    <3>4. \A k \in DOMAIN shown' : shown'[k] = IF k = Key(c) THEN Wanted ELSE shown[k] BY <3>2, <3>3 DEF With
    <3>5. \A k \in DOMAIN shown' : ValueAt(host, k) = shown'[k] BY <1>6, <3>3, <3>4 DEF SurfaceInv, Shows
    <3>. QED BY <1>1, <1>5, <2>2, <3>1, <3>3, <3>5 DEF SurfaceInv, Shows
  <2>. QED BY <2>1, <2>2
<1>13. Settles'
  <2>1. ASSUME NEW k \in Keys, k \notin stirred PROVE Settled(k)'
    <3>1. PICK p \in 0 .. Len(wire) :
            /\ \A i \in 1 .. p : LeavesAt(wire[i], k, ValueAt(host, k))
            /\ \A i \in p + 1 .. Len(wire) : finger # Nothing /\ finger.waits /\ wire[i] = m
      BY <2>1 DEF SurfaceInv, Settles, Settled
    <3>2. \A i \in 1 .. Len(wire) : LeavesAt(wire[i], k, ValueAt(host, k)) BY <1>3, <1>7, <3>1
    <3>. QED BY <1>1, <1>3, <3>2 DEF Settled
  <2>. QED BY <1>1, <2>1 DEF Settles
<1>. QED BY <1>1, <1>8, <1>9, <1>10, <1>11, <1>12, <1>13 DEF SurfaceInv

\* The server takes a datagram from the wire.
LEMMA DispatchKeeps == ASSUME SurfaceInv, _dispatch PROVE SurfaceInv'
<1> DEFINE m == Head(wire)  n == Len(wire)
<1>1. /\ wire # <<>> /\ wire' = Tail(wire) /\ finger' = finger /\ sends' = sends /\ touches' = touches
      /\ touched' = touched /\ shown' = shown /\ stirred' = IF wire' = <<>> THEN {} ELSE stirred
  BY DEF _dispatch
<1>2. wire \in Seq(Messages) BY DEF SurfaceInv, Travels
<1>3. /\ n \in Nat \ {0} /\ m = wire[1] /\ wire' \in Seq(Messages) /\ Len(wire') = n - 1
      /\ \A i \in 1 .. n - 1 : wire'[i] = wire[i + 1]
  BY <1>1, <1>2
<1>4. (wire' = <<>>) <=> (n = 1) BY <1>3
<1> HIDE DEF m, n
<1>5. PICK c : Origin(m, c) BY <1>3 DEF SurfaceInv, Travels, n
<1>6. Undoes(m) \subseteq stirred BY <1>3 DEF SurfaceInv, Travels, n
<1>7. host \in Hosts /\ failed = FALSE BY DEF SurfaceInv
<1>8. host' \in Hosts /\ host' \in Handled(host, m) /\ failed' = FALSE
  <2>1. PICK g \in Hosts : Handled(host, m) = {g} BY <1>5, <1>7, OriginFacts DEF Accepted
  <2>2. _build_handlers(host, m.address, m.args) = {g} BY <2>1 DEF Handled
  <2>3. host' \in {g} /\ failed' = failed BY <2>2 DEF _dispatch, m
  <2>. QED BY <1>7, <2>1, <2>3
<1>9. Travels'
  <2>1. ASSUME NEW i \in 1 .. Len(wire')
        PROVE  /\ \E d \in build, x \in {0, 1} : Affects(d) \subseteq touched' /\ wire'[i] = Message(d, x)
               /\ Undoes(wire'[i]) \subseteq stirred'
    <3>1. i + 1 \in 1 .. n /\ wire'[i] = wire[i + 1] /\ stirred' = stirred BY <1>1, <1>3, <1>4, <2>1
    <3>2. (\E d : Origin(wire[i + 1], d)) /\ Undoes(wire[i + 1]) \subseteq stirred BY <3>1 DEF SurfaceInv, Travels, n
    <3>. QED BY <1>1, <3>1, <3>2 DEF Origin
  <2>. QED BY <1>3, <2>1 DEF Travels, Origin
<1>10. Touching' BY <1>1 DEF SurfaceInv, Touching, Origin
<1>11. Counted'
  <2>1. n \in Nat /\ Len(wire') \in Nat /\ Len(wire') <= n BY <1>3
  <2>2. /\ touches \in 0 .. MaxTouches /\ sends \in 0 .. MaxSends /\ n <= touches * MaxSends
        /\ finger # Nothing => n + MaxSends <= touches * MaxSends + sends
    BY DEF SurfaceInv, Counted, n
  <2>3. MaxTouches \in Nat /\ MaxSends \in Nat BY ConstantsAssumption
  <2>4. touches * MaxSends \in Nat BY <2>2, <2>3
  <2>. QED BY <1>1, <2>1, <2>2, <2>3, <2>4 DEF Counted
<1>12. Opens'
  <2>1. ASSUME NEW k \in Keys, k \notin touched PROVE ValueAt(host', k) = Initial(k)
    <3>1. ValueAt(host, k) = Initial(k) BY <2>1 DEF SurfaceInv, Opens
    <3>2. k \notin Affects(c) BY <1>5, <2>1 DEF Origin
    <3>3. Keeps(m, k) \/ Puts(m, k, Initial(k)) BY <1>5, <3>2, OriginFacts
    <3>. QED BY <1>7, <1>8, <3>1, <3>3 DEF Keeps, Puts
  <2>. QED BY <1>1, <2>1 DEF Opens
\* A settled value stays, unless what comes is the datagram of the touch that is going on.
<1>13. ASSUME NEW k \in Keys, k \notin stirred
       PROVE  /\ Settled(k)'
              /\ ValueAt(host', k) = ValueAt(host, k) \/ (finger # Nothing /\ finger.waits /\ m = finger.message)
  <2>1. PICK p \in 0 .. n :
          /\ \A i \in 1 .. p : LeavesAt(wire[i], k, ValueAt(host, k))
          /\ \A i \in p + 1 .. n : finger # Nothing /\ finger.waits /\ wire[i] = finger.message
    BY <1>13 DEF SurfaceInv, Settles, Settled, n
  <2>2. CASE p = 0
    <3>1. finger # Nothing /\ finger.waits /\ m = finger.message BY <1>3, <2>1, <2>2
    <3>2. \A i \in 1 .. n - 1 : wire'[i] = finger.message BY <1>3, <2>1, <2>2
    <3>3. 0 \in 0 .. Len(wire') /\ Len(wire') = n - 1 /\ 1 .. 0 = {} BY <1>3
    <3>4. ASSUME NEW i \in 0 + 1 .. Len(wire')
          PROVE  finger' # Nothing /\ finger'.waits /\ wire'[i] = finger'.message
      <4>1. i \in 1 .. n - 1 BY <1>3, <3>3
      <4>. QED BY <1>1, <3>1, <3>2, <4>1
    <3>5. Settled(k)' BY <3>3, <3>4 DEF Settled
    <3>. QED BY <3>1, <3>5
  <2>3. CASE p # 0
    <3>1. p - 1 \in 0 .. n - 1 /\ 1 \in 1 .. p BY <1>3, <2>1, <2>3
    <3>2. ValueAt(host', k) = ValueAt(host, k) BY <1>3, <1>7, <1>8, <2>1, <3>1 DEF LeavesAt
    <3>3. \A i \in 1 .. p - 1 : LeavesAt(wire'[i], k, ValueAt(host', k)) BY <1>3, <2>1, <3>1, <3>2
    <3>4. \A i \in (p - 1) + 1 .. n - 1 : finger' # Nothing /\ finger'.waits /\ wire'[i] = finger'.message
      BY <1>1, <1>3, <2>1, <3>1
    <3>5. Settled(k)' BY <1>3, <3>1, <3>3, <3>4 DEF Settled
    <3>. QED BY <3>2, <3>5
  <2>. QED BY <2>2, <2>3
<1>14. Settles'
  <2>1. CASE wire' = <<>>
    <3>1. Len(wire') = 0 BY <2>1
    <3>. QED BY <3>1 DEF Settles, Settled
  <2>2. CASE wire' # <<>> BY <1>1, <1>13, <2>2 DEF Settles
  <2>. QED BY <2>1, <2>2
<1>15. Shows'
  <2>1. ASSUME NEW k \in DOMAIN shown PROVE ValueAt(host', k) = shown[k]
    <3>1. k \in Keys /\ k \notin stirred /\ ValueAt(host, k) = shown[k] BY <2>1 DEF SurfaceInv, Shows
    <3>2. CASE ValueAt(host', k) = ValueAt(host, k) BY <3>1, <3>2
    <3>3. CASE finger # Nothing /\ finger.waits /\ m = finger.message
      <4>1. PICK d : Origin(m, d) /\ Movable(d) /\ DOMAIN shown \cap Affects(d) = {}
        BY <3>3 DEF SurfaceInv, Touching
      <4>2. k \notin Affects(d) BY <2>1, <4>1
      <4>3. k \notin Undoes(m) BY <1>6, <3>1
      <4>4. Keeps(m, k) BY <3>1, <4>1, <4>2, <4>3, OriginFacts
      <4>. QED BY <1>7, <1>8, <3>1, <4>4 DEF Keeps
    <3>. QED BY <1>13, <3>1, <3>2, <3>3
  <2>2. DOMAIN shown \cap stirred' = {} BY <1>1 DEF SurfaceInv, Shows
  <2>. QED BY <1>1, <2>1, <2>2 DEF SurfaceInv, Shows
<1>. QED BY <1>8, <1>9, <1>10, <1>11, <1>12, <1>14, <1>15 DEF SurfaceInv

\* Every state of a performance satisfies the invariant, however long it is and whatever
\* the wire loses: its host is one of Hosts, and the wire and the finger carry only what
\* the layout's controls send (build_layout.py, osc.py, norns.py).
THEOREM SurfaceInvariance == SurfaceSpec => []SurfaceInv
<1>1. SurfaceInit => SurfaceInv BY SurfaceStarts
<1>2. SurfaceInv /\ [SurfaceNext]_surfaceVars => SurfaceInv'
  <2> SUFFICES ASSUME SurfaceInv, [SurfaceNext]_surfaceVars PROVE SurfaceInv' OBVIOUS
  <2>1. ASSUME NEW c \in Playable, NEW x \in (IF Movable(c) THEN {0, 1} ELSE {1}), TouchControl(c, x) PROVE SurfaceInv'
    <3>1. c \in build BY <2>1, FewAssumption DEF Playable
    <3>2. x \in {0, 1} BY <2>1
    <3>. QED BY <2>1, <3>1, <3>2, TouchKeeps
  <2>2. CASE Send BY <2>2, SendKeeps
  <2>3. CASE See BY <2>3, SeeKeeps
  <2>4. CASE _dispatch BY <2>4, DispatchKeeps
  <2>5. CASE UNCHANGED surfaceVars
    BY <2>5 DEF surfaceVars, SurfaceInv, Travels, Touching, Origin, Counted, Opens, Shows, Settles, Settled
  <2>. QED BY <2>1, <2>2, <2>3, <2>4, <2>5 DEF SurfaceNext
<1>. QED BY <1>1, <1>2, PTL DEF SurfaceSpec

\* Whichever controls are moved, reset or synced, a value that controls move stays in their
\* range, every voice has a buffer, and the wire carries what the touches sent at most.
THEOREM SurfaceTypeCorrect == SurfaceSpec => []SurfaceTypeOK
<1>1. SurfaceInv => SurfaceTypeOK
  <2> SUFFICES ASSUME SurfaceInv PROVE SurfaceTypeOK OBVIOUS
  <2>1. \A c \in Cells : ValueAt(host, Key(c)) \in c.span[1] .. c.span[2] BY CellsPlaced DEF SurfaceInv, Placed
  <2>2. host.assign \in [Voices -> 1 .. 2] /\ DOMAIN host.content = 1 .. 2 BY DEF SurfaceInv, Hosts
  <2>3. Len(wire) <= MaxTouches * MaxSends
    <3>1. touches \in 0 .. MaxTouches /\ Len(wire) <= touches * MaxSends /\ Len(wire) \in Nat
      BY DEF SurfaceInv, Counted, Travels
    <3>2. MaxTouches \in Nat /\ MaxSends \in Nat BY ConstantsAssumption
    <3>3. \A a, b, s \in Nat : a <= b => a * s <= b * s OBVIOUS
    <3>4. touches * MaxSends <= MaxTouches * MaxSends BY <3>1, <3>2, <3>3
    <3>. QED BY <3>1, <3>2, <3>4
  <2>. QED BY <2>1, <2>2, <2>3 DEF SurfaceTypeOK
<1>. QED BY <1>1, SurfaceInvariance, PTL

\* No datagram that a control of the layout sends is without a handler, and none makes its
\* handler raise (build_layout.py:4-8).
THEOREM ControlsLand == SurfaceSpec => []EveryControlLands
<1>1. SurfaceInv => EveryControlLands BY DEF SurfaceInv, EveryControlLands
<1>. QED BY <1>1, SurfaceInvariance, PTL

\* A value that no touched control names is where its controls opened, whatever was reset
\* or synced (build_layout.py:65-68).
THEOREM OpensAsShown == SurfaceSpec => []OpensTrue
<1>1. SurfaceInv => OpensTrue
  <2> SUFFICES ASSUME SurfaceInv, NEW c \in Cells, Key(c) \notin touched PROVE ValueAt(host, Key(c)) = position_of(c)
    BY DEF OpensTrue
  <2>1. Key(c) \in Keys /\ position_of(c) = Initial(Key(c)) BY CellsPlaced DEF Keys, Placed
  <2>. QED BY <2>1 DEF SurfaceInv, Opens
<1>. QED BY <1>1, SurfaceInvariance, PTL

\* The value that a touch saw the host take is the host's until a control of it is touched
\* again, or a reset or a sync is sent: no late or repeated datagram of an earlier touch
\* moves it (13_osc_surface.py:137).
THEOREM LastTouchStands == SurfaceSpec => []LastTouchStays
<1>1. SurfaceInv => LastTouchStays BY DEF SurfaceInv, Shows, LastTouchStays
<1>. QED BY <1>1, SurfaceInvariance, PTL
=============================================================================
