------------------------- MODULE CommandQueueProofs -------------------------
(***************************************************************************)
(* The ring of CommandQueue is a bounded FIFO channel for every capacity,  *)
(* every set of commands and any number of pushes, stale loads included.   *)
(* The first half is arithmetic about masked indices, the second the       *)
(* inductive invariant and the refinement of Fifo.                         *)
(***************************************************************************)
EXTENDS CommandQueue, Integers, TLAPS

\* An index that `% CAP` wraps (command_queue.hpp) names a slot of the array.
LEMMA IndexRange == \A n \in Nat : Index(n) \in 0 .. CAP - 1
BY CapAssumption DEF Index

\* A count is a number of whole turns round the ring and an index.
LEMMA DivMod == \A n \in Nat : \E q \in Nat : n = CAP * q + Index(n)
<1> SUFFICES ASSUME NEW n \in Nat PROVE \E q \in Nat : n = CAP * q + Index(n)
  OBVIOUS
<1>1. CAP \in Int /\ CAP > 0
  BY CapAssumption
<1>2. (n \div CAP) \in Int
  BY <1>1
<1>3. n % CAP = n - CAP * (n \div CAP)
  BY <1>1
<1>4. n \div CAP >= 0
  BY <1>1
<1>5. n \div CAP \in Nat
  BY <1>2, <1>4
<1>6. CAP * (n \div CAP) \in Int
  BY <1>1, <1>2
<1>7. n = CAP * (n \div CAP) + (n % CAP)
  BY <1>1, <1>3, <1>6
<1> QED BY <1>5, <1>7 DEF Index

\* A turn more is at least CAP more: the integer fact the next lemmas need.
LEMMA Product == \A k \in Nat, a, b \in Nat : k > 0 /\ a < b => k * a + k <= k * b
<1> SUFFICES ASSUME NEW k \in Nat, NEW a \in Nat, NEW b \in Nat, k > 0, a < b
             PROVE k * a + k <= k * b
  OBVIOUS
<1>1. b - a - 1 \in Nat
  OBVIOUS
<1>2. k * (b - a - 1) \in Nat
  BY <1>1
<1>3. k * b = k * a + k + k * (b - a - 1)
  BY <1>1
<1>4. k * a \in Nat /\ k * b \in Nat
  OBVIOUS
<1> QED BY <1>2, <1>3, <1>4

\* The index of a count that is whole turns and a remainder is the remainder.
LEMMA IndexUnique ==
  \A q, r, n \in Nat : r < CAP /\ n = CAP * q + r => Index(n) = r
BY CapAssumption DEF Index

\* Stepping the index the code stores, `(head + 1) % CAP`, is stepping the count.
LEMMA IndexSucc == \A n \in Nat : Index(Index(n) + 1) = Index(n + 1)
<1> SUFFICES ASSUME NEW n \in Nat PROVE Index(Index(n) + 1) = Index(n + 1)
  OBVIOUS
<1> DEFINE r == Index(n)
<1>1. PICK q \in Nat : n = CAP * q + r
  BY DivMod
<1>2. r \in 0 .. CAP - 1 /\ CAP \in Nat /\ CAP >= 2
  BY IndexRange, CapAssumption
<1>3. CAP * q \in Nat
  BY <1>2
<1> HIDE DEF r
<1>4. CASE r + 1 < CAP
  <2>1. Index(r + 1) = r + 1
    BY <1>2, <1>4 DEF Index
  <2>2. n + 1 = CAP * q + (r + 1)
    BY <1>1, <1>2, <1>3
  <2>3. Index(n + 1) = r + 1
    BY <1>2, <1>4, <2>2, IndexUnique
  <2> QED BY <2>1, <2>3 DEF r
<1>5. CASE r + 1 = CAP
  <2>1. Index(r + 1) = 0
    BY <1>2, <1>5 DEF Index
  <2>2. n + 1 = CAP * (q + 1) + 0
    BY <1>1, <1>2, <1>3, <1>5
  <2>3. PICK k \in Nat : k = q + 1
    OBVIOUS
  <2>4. n + 1 = CAP * k + 0
    BY <2>2, <2>3
  <2>5. Index(n + 1) = 0
    BY <1>2, <2>4, IndexUnique
  <2> QED BY <2>1, <2>5 DEF r
<1> QED BY <1>2, <1>4, <1>5

\* A whole turn leads back to the same slot.
LEMMA IndexPeriod == \A n \in Nat : Index(n + CAP) = Index(n)
<1> SUFFICES ASSUME NEW n \in Nat PROVE Index(n + CAP) = Index(n)
  OBVIOUS
<1> DEFINE r == Index(n)
<1>1. PICK q \in Nat : n = CAP * q + r
  BY DivMod
<1>2. r \in 0 .. CAP - 1 /\ CAP \in Nat
  BY IndexRange, CapAssumption
<1> HIDE DEF r
<1>3. CAP * q \in Nat /\ CAP * (q + 1) = CAP * q + CAP
  BY <1>2
<1>4. n + CAP = CAP * (q + 1) + r
  BY <1>1, <1>2, <1>3
<1>5. PICK k \in Nat : k = q + 1
  OBVIOUS
<1>6. PICK m \in Nat : m = n + CAP
  BY <1>2
<1>7. m = CAP * k + r /\ r \in Nat /\ r < CAP
  BY <1>2, <1>4, <1>5, <1>6
<1>8. Index(m) = r
  BY <1>7, IndexUnique
<1> QED BY <1>6, <1>8 DEF r

\* Fewer than CAP commands apart, two counts use different slots.
LEMMA IndexDistinct ==
  \A m, n \in Nat : m < n /\ n < m + CAP => Index(m) # Index(n)
<1> SUFFICES ASSUME NEW m \in Nat, NEW n \in Nat, m < n, n < m + CAP,
                    Index(m) = Index(n)
             PROVE  FALSE
  OBVIOUS
<1> DEFINE r == Index(m)
<1>1. PICK p \in Nat : m = CAP * p + r
  BY DivMod
<1>2. PICK q \in Nat : n = CAP * q + r
  BY DivMod
<1>3. r \in Nat /\ CAP \in Nat /\ CAP > 0
  BY IndexRange, CapAssumption
<1> HIDE DEF r
<1>4. CAP * p \in Nat /\ CAP * q \in Nat
  BY <1>3
<1>5. CASE p < q
  <2>1. CAP * p + CAP <= CAP * q
    BY <1>3, <1>5, Product
  <2> QED BY <1>1, <1>2, <1>3, <1>4, <2>1
<1>6. CASE q < p
  <2>1. CAP * q + CAP <= CAP * p
    BY <1>3, <1>6, Product
  <2> QED BY <1>1, <1>2, <1>3, <1>4, <2>1
<1>7. CASE p = q
  BY <1>1, <1>2, <1>3, <1>4, <1>7
<1> QED BY <1>5, <1>6, <1>7

-----------------------------------------------------------------------------
\* Each thread's view of the other's index is between what that index was at
\* its last load and what it is now, and the ring never holds CAP commands.
Views ==
  /\ pops <= headSeen /\ headSeen <= pushes
  /\ tailSeen <= pops
  /\ pushes < tailSeen + CAP
  /\ producer # "idle" => pushes + 1 < tailSeen + CAP
  /\ consumer # "idle" => pops < headSeen

\* How far the histories have got.
Counts ==
  /\ Len(sent) = pushes
  /\ Len(got) = pops + (IF consumer = "publish" THEN 1 ELSE 0)

\* The slots hold what was sent and not got, and the command being pushed.
Contents ==
  /\ \A n \in Nat : Len(got) <= n /\ n < pushes => buf[Index(n)] = sent[n + 1]
  /\ producer # "idle" => fn \in Commands
  /\ producer = "publish" => buf[head] = fn

\* What is proved inductive.
IInv == TypeOK /\ Views /\ Counts /\ Contents

\* The empty ring satisfies it.
LEMMA InitIInv == Init => IInv
BY CapAssumption, IndexRange
  DEF Init, IInv, TypeOK, Views, Counts, Contents, head

\* Every step of push and pop keeps it.
LEMMA NextIInv == IInv /\ [Next]_vars => IInv'
<1> SUFFICES ASSUME IInv, [Next]_vars PROVE IInv'
  OBVIOUS
<1> USE DEF IInv
<1>0. CAP \in Nat /\ CAP >= 2
  BY CapAssumption
<1>1. ASSUME NEW c \in Commands, NEW seen \in tailSeen .. pops, PushCheck(c, seen)
      PROVE  IInv'
  <2> SUFFICES ASSUME ~RingFull(seen) PROVE IInv'
    BY <1>0, <1>1 DEF PushCheck, TypeOK, Views, Counts, Contents, head
  <2>1. Index(pushes + 1) # Index(seen)
    BY IndexSucc DEF RingFull, head, TypeOK
  <2>2. pushes + 1 # seen + CAP
    <3>1. Index(seen + CAP) = Index(seen)
      BY <1>0, IndexPeriod DEF TypeOK
    <3> QED BY <2>1, <3>1
  <2>3. pushes + 1 < seen + CAP
    BY <1>0, <2>2 DEF TypeOK, Views
  <2> QED BY <1>0, <1>1, <2>3 DEF PushCheck, TypeOK, Views, Counts, Contents, head
<1>2. CASE PushWrite
  <2>1. head \in 0 .. CAP - 1
    BY IndexRange DEF TypeOK, head
  <2>2. TypeOK' /\ Views' /\ Counts'
    BY <1>2, <2>1 DEF PushWrite, TypeOK, Views, Counts, Contents
  <2>3. ASSUME NEW n \in Nat, Len(got) <= n, n < pushes
        PROVE  buf'[Index(n)] = sent[n + 1]
    <3>1. Index(n) # head
      BY <1>0, <1>2, <2>3, IndexDistinct DEF TypeOK, Views, Counts, PushWrite, head
    <3> QED BY <1>2, <2>1, <2>3, <3>1, IndexRange DEF PushWrite, TypeOK, Contents
  <2>4. buf'[head] = fn
    BY <1>2, <2>1 DEF PushWrite, TypeOK
  <2> QED BY <1>2, <2>2, <2>3, <2>4 DEF PushWrite, Contents, head
<1>3. CASE PushPublish
  <2>1. fn \in Commands /\ sent' = Append(sent, fn) /\ Len(sent') = pushes + 1
    BY <1>3 DEF PushPublish, TypeOK, Contents, Counts
  <2>2. TypeOK' /\ Views' /\ Counts'
    BY <1>0, <1>3, <2>1 DEF PushPublish, TypeOK, Views, Counts
  <2>3. ASSUME NEW n \in Nat, Len(got) <= n, n < pushes + 1
        PROVE  buf[Index(n)] = sent'[n + 1]
    <3>1. CASE n = pushes
      BY <1>3, <2>1, <3>1 DEF PushPublish, TypeOK, Counts, Contents, head
    <3>2. CASE n < pushes
      BY <1>3, <2>1, <2>3, <3>2 DEF PushPublish, TypeOK, Counts, Contents
    <3> QED BY <2>3, <3>1, <3>2 DEF TypeOK
  <2> QED BY <1>3, <2>2, <2>3 DEF PushPublish, Contents
<1>4. ASSUME NEW seen \in headSeen .. pushes, PopCheck(seen)
      PROVE  IInv'
  <2>1. tail # Index(seen) => pops < seen
    BY <1>4 DEF TypeOK, Views, tail
  <2> QED BY <1>4, <2>1 DEF PopCheck, TypeOK, Views, Counts, Contents, head
<1>5. CASE PopMove
  <2>1. tail \in 0 .. CAP - 1
    BY IndexRange DEF TypeOK, tail
  <2>2. pops < pushes /\ buf[tail] = sent[pops + 1] /\ sent[pops + 1] \in Commands
    BY <1>5 DEF PopMove, TypeOK, Views, Counts, Contents, tail
  <2>3. got' = Append(got, sent[pops + 1]) /\ got' \in Seq(Commands) /\ Len(got') = pops + 1
    BY <1>5, <2>2 DEF PopMove, TypeOK, Counts
  <2>4. TypeOK' /\ Views' /\ Counts'
    BY <1>5, <2>1, <2>2, <2>3 DEF PopMove, TypeOK, Views, Counts
  <2>5. ASSUME NEW n \in Nat, pops + 1 <= n, n < pushes
        PROVE  buf'[Index(n)] = sent[n + 1]
    <3>1. Index(n) # tail
      BY <1>0, <2>5, IndexDistinct DEF TypeOK, Views, tail
    <3> QED BY <1>5, <2>5, <3>1, IndexRange DEF PopMove, TypeOK, Counts, Contents
  <2>6. producer = "publish" => buf'[head] = fn
    <3>1. producer = "publish" => head # tail
      BY <1>0, <2>2, IndexDistinct DEF TypeOK, Views, head, tail
    <3> QED BY <1>5, <3>1, IndexRange DEF PopMove, TypeOK, Contents, head
  <2> QED BY <1>5, <2>3, <2>4, <2>5, <2>6 DEF PopMove, Contents, head
<1>6. CASE PopPublish
  BY <1>6 DEF PopPublish, TypeOK, Views, Counts, Contents, head
<1>7. CASE UNCHANGED vars
  BY <1>7 DEF vars, TypeOK, Views, Counts, Contents, head
<1> QED BY <1>1, <1>2, <1>3, <1>4, <1>5, <1>6, <1>7 DEF Next, Push, Pop

\* The variables of the ring hold what they should: in particular a pop never
\* hands out a slot that holds no command.
THEOREM TypeCorrect == Spec => []TypeOK
<1>1. IInv => TypeOK
  BY DEF IInv
<1> QED BY InitIInv, NextIInv, <1>1, PTL DEF Spec

\* Producer and consumer never touch the same slot at the same time, although
\* each decides on a possibly stale copy of the other's index.
THEOREM SlotsNeverRace == Spec => []NoSlotRace
<1>1. IInv => NoSlotRace
  <2> SUFFICES ASSUME IInv PROVE NoSlotRace
    OBVIOUS
  <2>1. ASSUME producer = "write", NEW n \in pops .. pushes - 1
        PROVE  head # Index(n)
    BY <2>1, CapAssumption, IndexDistinct DEF IInv, TypeOK, Views, head
  <2>2. ASSUME consumer = "move" PROVE tail \in Unread
    BY <2>2 DEF IInv, TypeOK, Views, tail, Unread
  <2> QED BY <2>1, <2>2 DEF NoSlotRace, Unread
<1> QED BY InitIInv, NextIInv, <1>1, PTL DEF Spec

\* The ring implements a FIFO channel of CAP - 1 commands: none is lost,
\* duplicated or reordered, and a push that succeeds had room.
THEOREM RingIsFifo == Spec => IsFifo
<1>1. Init => Channel!Init
  BY DEF Init, Channel!Init
<1>2. IInv /\ [Next]_vars => [Channel!Next]_<<sent, got>>
  <2> SUFFICES ASSUME IInv, [Next]_vars PROVE [Channel!Next]_<<sent, got>>
    OBVIOUS
  <2>1. ASSUME NEW c \in Commands, NEW seen \in tailSeen .. pops, PushCheck(c, seen)
        PROVE  UNCHANGED <<sent, got>>
    BY <2>1 DEF PushCheck
  <2>2. CASE PushWrite
    BY <2>2 DEF PushWrite
  <2>3. CASE PushPublish
    <3>1. fn \in Commands /\ Len(sent) - Len(got) < CAP - 1
      BY <2>3, CapAssumption DEF PushPublish, IInv, TypeOK, Views, Counts, Contents
    <3>2. Channel!Push(fn)
      BY <2>3, <3>1 DEF PushPublish, Channel!Push
    <3> QED BY <3>1, <3>2 DEF Channel!Next
  <2>4. ASSUME NEW seen \in headSeen .. pushes, PopCheck(seen)
        PROVE  UNCHANGED <<sent, got>>
    BY <2>4 DEF PopCheck
  <2>5. CASE PopMove
    <3>1. Len(got) = pops /\ Len(got) < Len(sent) /\ buf[tail] = sent[Len(got) + 1]
      BY <2>5 DEF PopMove, IInv, TypeOK, Views, Counts, Contents, tail
    <3>2. Channel!Pop
      BY <2>5, <3>1 DEF PopMove, Channel!Pop
    <3> QED BY <3>2 DEF Channel!Next
  <2>6. CASE PopPublish
    BY <2>6 DEF PopPublish
  <2>7. CASE UNCHANGED vars
    BY <2>7 DEF vars
  <2> QED BY <2>1, <2>2, <2>3, <2>4, <2>5, <2>6, <2>7 DEF Next, Push, Pop
<1> QED BY InitIInv, NextIInv, <1>1, <1>2, PTL DEF Spec, IsFifo, Channel!Spec
=============================================================================
