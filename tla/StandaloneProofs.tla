--------------------------- MODULE StandaloneProofs ---------------------------
(***************************************************************************)
(* The standalone server, for any queue size, bundles and messages: the    *)
(* life of its poll thread, that nothing received is lost, and the order   *)
(* in which parameter changes and jobs are made.                           *)
(***************************************************************************)
EXTENDS Standalone, TLAPS

Nums == 1 .. MaxMsgs

-----------------------------------------------------------------------------
(* Sequences, by what is in them *)

Has(s, n) == \E i \in 1 .. Len(s) : s[i] = n
Distinct(s) == \A i, j \in 1 .. Len(s) : s[i] = s[j] => i = j

\* The empty sequence.
LEMMA EmptyOf ==
  ASSUME NEW S
  PROVE  << >> \in Seq(S) /\ Len(<< >>) = 0 /\ Distinct(<< >>) /\ \A n : ~Has(<< >>, n)
<1> QED
  BY DEF Has, Distinct

\* Append, element by element.
LEMMA AppendOf ==
  ASSUME NEW S, NEW s \in Seq(S), NEW e \in S
  PROVE  /\ Append(s, e) \in Seq(S) /\ Len(s) \in Nat /\ Len(Append(s, e)) = Len(s) + 1
         /\ \A i \in 1 .. Len(s) : Append(s, e)[i] = s[i]
         /\ Append(s, e)[Len(s) + 1] = e
<1> QED
  OBVIOUS

\* Head and Tail, element by element.
LEMMA TailOf ==
  ASSUME NEW S, NEW s \in Seq(S), s # << >>
  PROVE  /\ Len(s) \in Nat \ {0} /\ Head(s) = s[1] /\ s[1] \in S
         /\ Tail(s) \in Seq(S) /\ Len(Tail(s)) = Len(s) - 1
         /\ \A i \in 1 .. Len(s) - 1 : Tail(s)[i] = s[i + 1]
<1>1. Len(s) \in Nat /\ Len(s) # 0
  OBVIOUS
<1>2. s[1] \in S /\ Head(s) = s[1]
  BY <1>1
<1> QED
  BY <1>1, <1>2

\* Concatenation, element by element.
LEMMA ConcatOf ==
  ASSUME NEW S, NEW s \in Seq(S), NEW t \in Seq(S)
  PROVE  /\ s \o t \in Seq(S) /\ Len(s) \in Nat /\ Len(t) \in Nat /\ Len(s \o t) = Len(s) + Len(t)
         /\ \A i \in 1 .. Len(s) : (s \o t)[i] = s[i]
         /\ \A i \in 1 .. Len(t) : (s \o t)[Len(s) + i] = t[i]
<1> QED
  OBVIOUS

\* What is in a sequence that has grown.
LEMMA HasAppend ==
  ASSUME NEW S, NEW s \in Seq(S), NEW e \in S
  PROVE  /\ \A n : Has(Append(s, e), n) <=> Has(s, n) \/ n = e
         /\ Distinct(s) /\ ~Has(s, e) => Distinct(Append(s, e))
<1> DEFINE t == Append(s, e)
           m == Len(s)
<1>1. m \in Nat /\ Len(t) = m + 1 /\ (\A i \in 1 .. m : t[i] = s[i]) /\ t[m + 1] = e
  BY AppendOf
<1> HIDE DEF t
<1>2. ASSUME NEW n PROVE Has(t, n) <=> Has(s, n) \/ n = e
  BY <1>1 DEF Has
<1>3. Distinct(s) /\ ~Has(s, e) => Distinct(t)
  BY <1>1 DEF Has, Distinct
<1> QED
  BY <1>2, <1>3 DEF t

\* What is in one that has lost its head.
LEMMA HasTail ==
  ASSUME NEW S, NEW s \in Seq(S), s # << >>
  PROVE  /\ \A n : Has(s, n) <=> Has(Tail(s), n) \/ n = Head(s)
         /\ Distinct(s) => Distinct(Tail(s)) /\ ~Has(Tail(s), Head(s))
<1> DEFINE t == Tail(s)
           m == Len(s)
<1>1. m \in Nat \ {0} /\ Len(t) = m - 1 /\ (\A i \in 1 .. m - 1 : t[i] = s[i + 1]) /\ Head(s) = s[1]
  BY TailOf
<1> HIDE DEF t
<1>2. ASSUME NEW n PROVE Has(s, n) <=> Has(t, n) \/ n = s[1]
  <2>1. ASSUME Has(s, n), n # s[1] PROVE Has(t, n)
    <3>1. PICK i \in 1 .. m : s[i] = n
      BY <2>1 DEF Has
    <3>2. i - 1 \in 1 .. m - 1 /\ t[i - 1] = n
      BY <1>1, <2>1, <3>1
    <3> QED
      BY <1>1, <3>2 DEF Has
  <2>2. ASSUME Has(t, n) PROVE Has(s, n)
    <3>1. PICK i \in 1 .. m - 1 : t[i] = n
      BY <1>1, <2>2 DEF Has
    <3>2. i + 1 \in 1 .. m /\ s[i + 1] = n
      BY <1>1, <3>1
    <3> QED
      BY <3>2 DEF Has
  <2>3. Has(s, s[1])
    BY <1>1 DEF Has
  <2> QED
    BY <2>1, <2>2, <2>3
<1>3. ASSUME Distinct(s) PROVE Distinct(t) /\ ~Has(t, s[1])
  <2>1. \A i \in 1 .. m - 1 : i + 1 \in 1 .. m /\ i + 1 # 1
    BY <1>1
  <2> QED
    BY <1>1, <1>3, <2>1 DEF Distinct, Has
<1> QED
  BY <1>1, <1>2, <1>3 DEF t

\* What is in two of them, joined.
LEMMA HasConcat ==
  ASSUME NEW S, NEW s \in Seq(S), NEW t \in Seq(S)
  PROVE  /\ \A n : Has(s \o t, n) <=> Has(s, n) \/ Has(t, n)
         /\ Distinct(s) /\ Distinct(t) /\ (\A n : ~(Has(s, n) /\ Has(t, n))) => Distinct(s \o t)
<1> DEFINE u == s \o t
           k == Len(s)
           m == Len(t)
<1>1. k \in Nat /\ m \in Nat /\ Len(u) = k + m
      /\ (\A i \in 1 .. k : u[i] = s[i]) /\ (\A i \in 1 .. m : u[k + i] = t[i])
  BY ConcatOf
<1> HIDE DEF u
<1>2. \A i \in 1 .. k + m : i \in 1 .. k \/ (i - k \in 1 .. m /\ u[i] = t[i - k])
  <2> SUFFICES ASSUME NEW i \in 1 .. k + m, i \notin 1 .. k PROVE i - k \in 1 .. m /\ u[i] = t[i - k]
    OBVIOUS
  <2>1. i - k \in 1 .. m /\ k + (i - k) = i
    BY <1>1
  <2> QED
    BY <1>1, <2>1
<1>3. ASSUME NEW n PROVE Has(u, n) <=> Has(s, n) \/ Has(t, n)
  <2>1. ASSUME Has(u, n) PROVE Has(s, n) \/ Has(t, n)
    BY <1>1, <1>2, <2>1 DEF Has
  <2>2. ASSUME Has(s, n) PROVE Has(u, n)
    <3>1. \A i \in 1 .. k : i \in 1 .. k + m
      BY <1>1
    <3> QED
      BY <1>1, <2>2, <3>1 DEF Has
  <2>3. ASSUME Has(t, n) PROVE Has(u, n)
    <3>1. \A i \in 1 .. m : k + i \in 1 .. k + m
      BY <1>1
    <3> QED
      BY <1>1, <2>3, <3>1 DEF Has
  <2> QED
    BY <2>1, <2>2, <2>3
<1>4. ASSUME Distinct(s), Distinct(t), \A n : ~(Has(s, n) /\ Has(t, n)) PROVE Distinct(u)
  <2> SUFFICES ASSUME NEW i \in 1 .. k + m, NEW j \in 1 .. k + m, u[i] = u[j] PROVE i = j
    BY <1>1 DEF Distinct
  <2>1. CASE i \in 1 .. k /\ j \in 1 .. k
    BY <1>1, <1>4, <2>1 DEF Distinct
  <2>2. CASE i \notin 1 .. k /\ j \notin 1 .. k
    <3>1. i - k \in 1 .. m /\ j - k \in 1 .. m /\ t[i - k] = t[j - k]
      BY <1>2, <2>2
    <3>2. i - k = j - k
      BY <1>4, <3>1 DEF Distinct
    <3> QED
      BY <1>1, <3>2
  <2>3. CASE i \in 1 .. k /\ j \notin 1 .. k
    <3>1. Has(s, u[i]) /\ Has(t, u[i])
      BY <1>1, <1>2, <2>3 DEF Has
    <3> QED
      BY <1>4, <3>1
  <2>4. CASE i \notin 1 .. k /\ j \in 1 .. k
    <3>1. Has(s, u[j]) /\ Has(t, u[j])
      BY <1>1, <1>2, <2>4 DEF Has
    <3> QED
      BY <1>4, <3>1
  <2> QED
    BY <2>1, <2>2, <2>3, <2>4
<1> QED
  BY <1>3, <1>4 DEF u

\* t is a, then b, then p elements more.
Splits(t, a, b, p) ==
  /\ Len(t) = Len(a) + Len(b) + p
  /\ \A i \in 1 .. Len(a) : t[i] = a[i]
  /\ \A i \in 1 .. Len(b) : t[Len(a) + i] = b[i]

\* The head of the second part goes to the end of the first.
LEMMA SplitMove ==
  ASSUME NEW S, NEW t \in Seq(S), NEW a \in Seq(S), NEW b \in Seq(S), NEW p \in {0, 1},
         Splits(t, a, b, p), b # << >>
  PROVE  Splits(t, Append(a, Head(b)), Tail(b), p)
<1>1. PICK k \in Nat : k = Len(a)
  BY AppendOf
<1>2. PICK m \in Nat \ {0} : m = Len(b)
  BY TailOf
<1> DEFINE x == Append(a, Head(b))
           y == Tail(b)
<1>3. /\ Len(x) = k + 1 /\ (\A i \in 1 .. k : x[i] = a[i]) /\ x[k + 1] = b[1]
      /\ Len(y) = m - 1 /\ \A i \in 1 .. m - 1 : y[i] = b[i + 1]
  BY <1>1, <1>2, AppendOf, TailOf
<1>4. /\ Len(t) = k + m + p /\ (\A i \in 1 .. k : t[i] = a[i])
      /\ \A i \in 1 .. m : t[k + i] = b[i]
  BY <1>1, <1>2 DEF Splits
<1> HIDE DEF x, y
<1>5. Len(t) = Len(x) + Len(y) + p
  BY <1>3, <1>4
<1>6. \A i \in 1 .. k + 1 : t[i] = x[i]
  <2>1. t[k + 1] = x[k + 1]
    BY <1>3, <1>4
  <2> QED
    BY <1>3, <1>4, <2>1
<1>7. \A i \in 1 .. m - 1 : t[k + 1 + i] = y[i]
  <2> SUFFICES ASSUME NEW i \in 1 .. m - 1 PROVE t[k + 1 + i] = y[i]
    OBVIOUS
  <2>1. i + 1 \in 1 .. m /\ k + (i + 1) = k + 1 + i
    OBVIOUS
  <2>2. t[k + (i + 1)] = b[i + 1]
    BY <1>4, <2>1
  <2> QED
    BY <1>3, <2>1, <2>2
<1> QED
  BY <1>3, <1>5, <1>6, <1>7 DEF Splits, x, y

\* The whole grows by an element that is in neither part yet.
LEMMA SplitGrow ==
  ASSUME NEW S, NEW t \in Seq(S), NEW a \in Seq(S), NEW b \in Seq(S), NEW e \in S,
         Splits(t, a, b, 0)
  PROVE  Splits(Append(t, e), a, b, 1)
<1>1. PICK k \in Nat : k = Len(a)
  BY AppendOf
<1>2. PICK m \in Nat : m = Len(b)
  BY AppendOf
<1> DEFINE u == Append(t, e)
<1>3. /\ Len(t) = k + m /\ (\A i \in 1 .. k : t[i] = a[i])
      /\ \A i \in 1 .. m : t[k + i] = b[i]
  BY <1>1, <1>2 DEF Splits
<1>4. Len(u) = k + m + 1 /\ \A i \in 1 .. k + m : u[i] = t[i]
  <2>1. Len(u) = Len(t) + 1 /\ \A i \in 1 .. Len(t) : u[i] = t[i]
    BY AppendOf
  <2> HIDE DEF u
  <2> QED
    BY <1>3, <2>1
<1> HIDE DEF u
<1>5. (\A i \in 1 .. k : i \in 1 .. k + m) /\ \A i \in 1 .. m : k + i \in 1 .. k + m
  OBVIOUS
<1>6. Len(u) = k + m + 1 /\ (\A i \in 1 .. k : u[i] = a[i]) /\ \A i \in 1 .. m : u[k + i] = b[i]
  BY <1>3, <1>4, <1>5
<1> QED
  BY <1>1, <1>2, <1>6 DEF Splits, u

\* The element in neither part goes to the end of the second.
LEMMA SplitQueue ==
  ASSUME NEW S, NEW t \in Seq(S), NEW a \in Seq(S), NEW b \in Seq(S), NEW e \in S,
         Splits(t, a, b, 1), e = t[Len(t)]
  PROVE  Splits(t, a, Append(b, e), 0)
<1>1. PICK k \in Nat : k = Len(a)
  BY AppendOf
<1>2. PICK m \in Nat : m = Len(b)
  BY AppendOf
<1> DEFINE u == Append(b, e)
<1>3. /\ Len(t) = k + m + 1 /\ (\A i \in 1 .. k : t[i] = a[i])
      /\ \A i \in 1 .. m : t[k + i] = b[i]
  BY <1>1, <1>2 DEF Splits
<1>4. Len(u) = m + 1 /\ (\A i \in 1 .. m : u[i] = b[i]) /\ u[m + 1] = e
  BY <1>2, AppendOf
<1> HIDE DEF u
<1>5. Len(t) = k + (m + 1) /\ t[k + (m + 1)] = e
  BY <1>3
<1>6. \A i \in 1 .. m + 1 : t[k + i] = u[i]
  <2> SUFFICES ASSUME NEW i \in 1 .. m + 1 PROVE t[k + i] = u[i]
    OBVIOUS
  <2>1. CASE i = m + 1
    BY <1>4, <1>5, <2>1
  <2>2. CASE i # m + 1
    <3>1. i \in 1 .. m
      BY <2>2
    <3> QED
      BY <1>3, <1>4, <3>1
  <2> QED
    BY <2>1, <2>2
<1>7. Len(t) = k + Len(u) + 0
  BY <1>4, <1>5
<1> QED
  BY <1>1, <1>3, <1>4, <1>6, <1>7 DEF Splits, u

\* The second part, when there is nothing else, goes to the end of the first.
LEMMA SplitAll ==
  ASSUME NEW S, NEW t \in Seq(S), NEW a \in Seq(S), NEW b \in Seq(S), NEW p \in {0, 1},
         Splits(t, a, b, p)
  PROVE  Splits(t, a \o b, << >>, p)
<1>1. PICK k \in Nat : k = Len(a)
  BY AppendOf
<1>2. PICK m \in Nat : m = Len(b)
  BY AppendOf
<1> DEFINE u == a \o b
<1>3. /\ Len(t) = k + m + p /\ (\A i \in 1 .. k : t[i] = a[i])
      /\ \A i \in 1 .. m : t[k + i] = b[i]
  BY <1>1, <1>2 DEF Splits
<1>4. Len(u) = k + m /\ (\A i \in 1 .. k : u[i] = a[i]) /\ \A i \in 1 .. m : u[k + i] = b[i]
  BY <1>1, <1>2, ConcatOf
<1> HIDE DEF u
<1>5. \A i \in 1 .. k + m : t[i] = u[i]
  <2> SUFFICES ASSUME NEW i \in 1 .. k + m PROVE t[i] = u[i]
    OBVIOUS
  <2>1. CASE i \in 1 .. k
    BY <1>3, <1>4, <2>1
  <2>2. CASE i \notin 1 .. k
    <3>1. i - k \in 1 .. m /\ k + (i - k) = i
      BY <2>2
    <3> QED
      BY <1>3, <1>4, <3>1
  <2> QED
    BY <2>1, <2>2
<1> QED
  BY <1>3, <1>4, <1>5, EmptyOf DEF Splits, u

-----------------------------------------------------------------------------
(* The invariant *)

MainPCs ==
  {"boot", "device_start", "listen", "serve", "stop_recv", "join_recv", "stop_poll", "join_poll",
   "stop_disk", "notify_disk", "join_disk", "stop_engine", "uninit", "join_audio", "drain", "done"}
RecvPCs == {"none", "loop", "wait", "dispatch", "apply", "direct", "notify", "join_poll", "exit"}

\* Before main starts the receiver, or instead of it; and after it has joined it.
Early == {"boot", "device_start", "listen", "stop_recv"}
Late ==
  {"stop_poll", "join_poll", "stop_disk", "notify_disk", "join_disk", "stop_engine", "uninit",
   "join_audio", "drain", "done"}
DiskStopped == {"notify_disk", "join_disk", "stop_engine", "uninit", "join_audio", "drain", "done"}
DiskJoined == {"stop_engine", "uninit", "join_audio", "drain", "done"}

MainTypes == main \in MainPCs /\ stop_asked \in BOOLEAN
RecvTypes ==
  /\ recv \in RecvPCs /\ recv_running \in BOOLEAN
  /\ inbox \in Seq(Kinds) /\ received \in 0 .. MaxMsgs /\ received + Len(inbox) <= MaxMsgs
EngineTypes ==
  /\ running \in BOOLEAN /\ device \in BOOLEAN /\ audio \in {"idle", "drain", "process"}
  /\ queue \in Seq(Nums) /\ params \in Seq(Nums) /\ applied \in Seq(Nums)
  /\ Len(queue) <= Room /\ overflowed \in BOOLEAN
PollTypes ==
  poll_running \in BOOLEAN /\ poll \in {"none", "check", "scan", "wait", "exit", "terminate"}
DiskTypes ==
  /\ disk_running \in BOOLEAN /\ mtx \in BOOLEAN
  /\ worker \in {"check", "asleep", "woken", "job", "relock", "exit"}
  /\ jobs \in Seq(Nums) /\ posted \in Seq(Nums) /\ done \in Seq(Nums)

Types == MainTypes /\ RecvTypes /\ EngineTypes /\ PollTypes /\ DiskTypes

\* Where main is says whether there is a receiver; commands are queued only in
\* an engine that runs, or that main has stopped after the receiver.
PlaceInv ==
  /\ main \in Early \union Late => recv = "none"
  /\ main \in Early => queue = << >>
  /\ recv # "none" /\ ~running => queue = << >>
  /\ main = "done" => queue = << >>

\* As in the native server: a poll that runs has a thread that nobody joins.
LifeInv ==
  /\ PollGone
  /\ poll_running => poll \notin {"none", "exit"}
  /\ poll_running => recv # "join_poll" /\ main # "join_poll"

\* The worker ends with its deque empty, when it has been told to; main goes on
\* when it has.  Done and waiting jobs make up those posted, in order.
DiskInv ==
  /\ disk_running <=> main \notin DiskStopped
  /\ worker = "exit" => ~disk_running /\ jobs = << >>
  /\ main \in DiskJoined => worker = "exit"
  /\ Splits(posted, done, jobs, 0)

\* The change in hand, between its dispatch and its queueing or its making.
Pending == recv \in {"apply", "direct"}

\* Every change received is made, queued or in hand: in one of the three, once.
ParamInv ==
  /\ Distinct(params) /\ Distinct(applied) /\ Distinct(queue)
  /\ \A n : Has(params, n) => n <= received
  /\ \A n : ~(Has(applied, n) /\ Has(queue, n))
  /\ Pending => params # << >> /\ ~Has(applied, Last(params)) /\ ~Has(queue, Last(params))
  /\ \A n : Has(params, n) <=> Has(applied, n) \/ Has(queue, n) \/ (Pending /\ n = Last(params))

\* Until the queue has been full, in that order.
OrderInv ==
  ~overflowed =>
    /\ Splits(params, applied, queue, IF Pending THEN 1 ELSE 0)
    /\ recv = "direct" => ~running

IInv == Types /\ PlaceInv /\ LifeInv /\ DiskInv /\ ParamInv /\ OrderInv

\* Start-up.
LEMMA InitIInv == Init => IInv
<1> SUFFICES ASSUME Init PROVE IInv
  OBVIOUS
<1> USE BoundsAssumption DEF Init
<1>1. << >> \in Seq(Nums) /\ << >> \in Seq(Kinds) /\ Len(<< >>) = 0 /\ Distinct(<< >>)
      /\ \A n : ~Has(<< >>, n)
  BY EmptyOf
<1>2. Types
  <2>1. MainTypes /\ PollTypes
    BY DEF MainTypes, PollTypes, MainPCs
  <2>2. RecvTypes
    <3>1. received \in 0 .. MaxMsgs /\ received + Len(inbox) <= MaxMsgs
      BY <1>1
    <3> QED
      BY <1>1, <3>1 DEF RecvTypes, RecvPCs
  <2>3. EngineTypes
    <3>1. Len(queue) <= Room
      BY <1>1
    <3> QED
      BY <1>1, <3>1 DEF EngineTypes
  <2>4. DiskTypes
    BY <1>1 DEF DiskTypes
  <2> QED
    BY <2>1, <2>2, <2>3, <2>4 DEF Types
<1>3. PlaceInv /\ LifeInv
  BY DEF PlaceInv, LifeInv, PollGone
<1>4. DiskInv /\ ParamInv /\ OrderInv
  BY <1>1 DEF Splits, DiskInv, DiskStopped, DiskJoined, ParamInv, OrderInv, Pending
<1> QED
  BY <1>2, <1>3, <1>4 DEF IInv

-----------------------------------------------------------------------------
(* Types *)

\* What a step leaves unchanged keeps its types.
LEMMA Kept ==
  ASSUME Types
  PROVE  /\ UNCHANGED <<main, stop_asked>> => MainTypes'
         /\ UNCHANGED receiver => RecvTypes'
         /\ UNCHANGED engine => EngineTypes'
         /\ UNCHANGED poller => PollTypes'
         /\ UNCHANGED disk => DiskTypes'
<1>1. UNCHANGED <<main, stop_asked>> => MainTypes'
  BY DEF Types, MainTypes
<1>2. UNCHANGED receiver => RecvTypes'
  BY DEF Types, RecvTypes, receiver
<1>3. UNCHANGED engine => EngineTypes'
  BY DEF Types, EngineTypes, engine
<1>4. UNCHANGED poller => PollTypes'
  BY DEF Types, PollTypes, poller
<1>5. UNCHANGED disk => DiskTypes'
  BY DEF Types, DiskTypes, disk
<1> QED
  BY <1>1, <1>2, <1>3, <1>4, <1>5

\* Dispatching a message: its number is a new one, within the bound.
LEMMA DispatchTypes ==
  ASSUME Types, NEW k, Dispatch(k)
  PROVE  /\ inbox' \in Seq(Kinds) /\ received' \in 0 .. MaxMsgs /\ received' + Len(inbox') <= MaxMsgs
         /\ received' = received + 1 /\ received' \in Nums
         /\ recv_running' \in BOOLEAN
         /\ recv = "dispatch" /\ UNCHANGED <<main, recv_running>>
<1>1. inbox \in Seq(Kinds) /\ inbox # << >> /\ inbox' = Tail(inbox) /\ received' = received + 1
  BY DEF Types, RecvTypes, Dispatch
<1>2. Len(inbox) \in Nat \ {0} /\ Len(inbox') = Len(inbox) - 1 /\ inbox' \in Seq(Kinds)
  BY <1>1, TailOf
<1>3. received \in 0 .. MaxMsgs /\ received + Len(inbox) <= MaxMsgs /\ MaxMsgs \in Nat
  BY BoundsAssumption DEF Types, RecvTypes
<1>4. recv = "dispatch" /\ UNCHANGED <<main, recv_running>> /\ recv_running' \in BOOLEAN
  BY DEF Types, RecvTypes, Dispatch
<1> QED
  BY <1>1, <1>2, <1>3, <1>4 DEF Nums

\* While a change is in hand, it is the last of those received.
LEMMA InHand ==
  ASSUME IInv, Pending
  PROVE  params # << >> /\ Last(params) \in Nums
<1>1. params \in Seq(Nums) /\ params # << >>
  BY DEF IInv, Types, EngineTypes, ParamInv
<1>2. Len(params) \in 1 .. Len(params)
  BY <1>1, TailOf
<1> QED
  BY <1>1, <1>2 DEF Last

\* The receiver keeps the types.
LEMMA ReceiverStepTypes == ASSUME IInv, Receiver PROVE Types'
<1>0. Types
  BY DEF IInv
<1> USE DEF RecvPCs
<1>1. CASE RecvLoop \/ RecvTimeout \/ DatagramDone
  <2>1. RecvTypes'
    BY <1>0, <1>1 DEF Types, RecvTypes, RecvLoop, RecvTimeout, DatagramDone
  <2>2. UNCHANGED <<main, stop_asked>> /\ UNCHANGED engine /\ UNCHANGED poller /\ UNCHANGED disk
    BY <1>1 DEF RecvLoop, RecvTimeout, DatagramDone
  <2> QED
    BY <1>0, <2>1, <2>2, Kept DEF Types
<1>2. ASSUME NEW d \in Datagrams, Receive(d) PROVE Types'
  <2>1. PICK k \in 1 .. Bundle : d \in [1 .. k -> Kinds]
    BY DEF Datagrams
  <2>2. d \in Seq(Kinds)
    BY <2>1, BoundsAssumption
  <2>3. RecvTypes'
    BY <1>0, <1>2, <2>2 DEF Types, RecvTypes, Receive
  <2>4. UNCHANGED <<main, stop_asked>> /\ UNCHANGED engine /\ UNCHANGED poller /\ UNCHANGED disk
    BY <1>2 DEF Receive
  <2> QED
    BY <1>0, <2>3, <2>4, Kept DEF Types
<1>3. CASE DispatchParam
  <2>1. Dispatch("param") /\ recv' = "apply" /\ params' = Append(params, received')
    BY <1>3 DEF DispatchParam
  <2>2. RecvTypes'
    BY <1>0, <2>1, DispatchTypes DEF RecvTypes
  <2>3. EngineTypes'
    <3>1. params' \in Seq(Nums)
      BY <1>0, <2>1, DispatchTypes, AppendOf DEF Types, EngineTypes
    <3> QED
      BY <1>0, <1>3, <3>1 DEF Types, EngineTypes, DispatchParam
  <2>4. UNCHANGED <<main, stop_asked>> /\ UNCHANGED poller /\ UNCHANGED disk
    BY <1>3 DEF DispatchParam, Dispatch
  <2> QED
    BY <1>0, <2>2, <2>3, <2>4, Kept DEF Types
<1>4. CASE Apply
  <2>1. Last(params) \in Nums /\ queue \in Seq(Nums)
    BY <1>0, <1>4, InHand DEF Apply, Pending, Types, EngineTypes
  <2>2. queue' \in Seq(Nums) /\ Len(queue') <= Room
    <3>1. CASE QueuesHere
      <4>1. Len(queue) < Room /\ queue' = Append(queue, Last(params))
        BY <1>4, <2>1, <3>1, BoundsAssumption DEF Apply, QueuesHere, Full
      <4> QED
        BY <2>1, <4>1, AppendOf, BoundsAssumption
    <3>2. CASE ~QueuesHere
      BY <1>0, <1>4, <3>2 DEF Types, EngineTypes, Apply
    <3> QED
      BY <3>1, <3>2
  <2>3. EngineTypes'
    <3>1. overflowed' \in BOOLEAN
      BY <1>4 DEF Apply
    <3> QED
      BY <1>0, <1>4, <2>2, <3>1 DEF Types, EngineTypes, Apply
  <2>4. RecvTypes'
    <3>1. recv' \in {"dispatch", "direct"}
      BY <1>4 DEF Apply
    <3> QED
      BY <1>0, <1>4, <3>1 DEF Types, RecvTypes, Apply
  <2>5. UNCHANGED <<main, stop_asked>> /\ UNCHANGED poller /\ UNCHANGED disk
    BY <1>4 DEF Apply
  <2> QED
    BY <1>0, <2>3, <2>4, <2>5, Kept DEF Types
<1>5. CASE ApplyDirect
  <2>1. Last(params) \in Nums /\ applied \in Seq(Nums)
    BY <1>0, <1>5, InHand DEF ApplyDirect, Pending, Types, EngineTypes
  <2>2. applied' \in Seq(Nums)
    BY <1>5, <2>1, AppendOf DEF ApplyDirect
  <2>3. EngineTypes' /\ RecvTypes'
    BY <1>0, <1>5, <2>2 DEF Types, EngineTypes, RecvTypes, ApplyDirect
  <2>4. UNCHANGED <<main, stop_asked>> /\ UNCHANGED poller /\ UNCHANGED disk
    BY <1>5 DEF ApplyDirect
  <2> QED
    BY <1>0, <2>3, <2>4, Kept DEF Types
<1>6. CASE Post
  <2>1. Dispatch("job")
    BY <1>6 DEF Post
  <2>2. received' \in Nums /\ jobs \in Seq(Nums) /\ posted \in Seq(Nums)
    BY <1>0, <2>1, DispatchTypes DEF Types, DiskTypes
  <2>3. posted' \in Seq(Nums) /\ jobs' \in Seq(Nums) /\ recv' \in {"notify", "dispatch"}
    BY <1>6, <2>2, AppendOf DEF Post
  <2>4. RecvTypes'
    BY <1>0, <2>1, <2>3, DispatchTypes DEF RecvTypes
  <2>5. DiskTypes'
    BY <1>0, <1>6, <2>3 DEF Types, DiskTypes, Post
  <2>6. UNCHANGED <<main, stop_asked>> /\ UNCHANGED engine /\ UNCHANGED poller
    BY <1>6 DEF Post, Dispatch
  <2> QED
    BY <1>0, <2>4, <2>5, <2>6, Kept DEF Types
<1>7. CASE PostNotify
  <2>1. RecvTypes' /\ DiskTypes'
    BY <1>0, <1>7 DEF Types, RecvTypes, DiskTypes, PostNotify, Notified
  <2>2. UNCHANGED <<main, stop_asked>> /\ UNCHANGED engine /\ UNCHANGED poller
    BY <1>7 DEF PostNotify
  <2> QED
    BY <1>0, <2>1, <2>2, Kept DEF Types
<1>8. CASE PollJoin
  <2>1. RecvTypes' /\ PollTypes'
    BY <1>0, <1>8 DEF Types, RecvTypes, PollTypes, PollJoin
  <2>2. UNCHANGED <<main, stop_asked>> /\ UNCHANGED engine /\ UNCHANGED disk
    BY <1>8 DEF PollJoin
  <2> QED
    BY <1>0, <2>1, <2>2, Kept DEF Types
<1>9. CASE PollStart \/ PollStop \/ Quit
  <2>1. PICK k : Dispatch(k)
    BY <1>9 DEF PollStart, PollStop, Quit
  <2>2. recv' \in {"dispatch", "join_poll"} /\ stop_asked' \in BOOLEAN
    BY <1>0, <1>9 DEF Types, MainTypes, PollStart, PollStop, Quit
  <2>3. RecvTypes'
    BY <1>0, <2>1, <2>2, DispatchTypes DEF RecvTypes
  <2>4. PollTypes'
    BY <1>0, <1>9 DEF Types, PollTypes, PollStart, PollStop, Quit, poller
  <2>5. MainTypes'
    BY <1>0, <2>1, <2>2 DEF Types, MainTypes, Dispatch
  <2>6. UNCHANGED engine /\ UNCHANGED disk
    BY <1>9 DEF PollStart, PollStop, Quit
  <2> QED
    BY <1>0, <2>3, <2>4, <2>5, <2>6, Kept DEF Types
<1> QED
  BY <1>1, <1>2, <1>3, <1>4, <1>5, <1>6, <1>7, <1>8, <1>9 DEF Receiver

\* So do the poll, the worker and the callback.
LEMMA ThreadStepTypes == ASSUME Types, Poll \/ Worker \/ Audio PROVE Types'
<1>1. CASE Poll
  <2>1. PollTypes'
    BY <1>1 DEF Types, PollTypes, Poll, PollCheck, PollScan, PollWake
  <2>2. UNCHANGED <<main, stop_asked>> /\ UNCHANGED receiver /\ UNCHANGED engine /\ UNCHANGED disk
    BY <1>1 DEF Poll, PollCheck, PollScan, PollWake
  <2> QED
    BY <2>1, <2>2, Kept DEF Types
<1>2. CASE Worker
  <2>1. ASSUME WorkerLock \/ WorkerRan \/ WorkerSleep PROVE DiskTypes'
    BY <2>1 DEF Types, DiskTypes, WorkerLock, WorkerRan, WorkerSleep
  <2>2. ASSUME WorkerTake PROVE DiskTypes'
    <3>1. jobs \in Seq(Nums) /\ jobs # << >> /\ done \in Seq(Nums)
      BY <2>2 DEF Types, DiskTypes, WorkerTake
    <3>2. Head(jobs) \in Nums /\ Tail(jobs) \in Seq(Nums)
      BY <3>1, TailOf
    <3>3. jobs' \in Seq(Nums) /\ done' \in Seq(Nums)
      BY <2>2, <3>1, <3>2, AppendOf DEF WorkerTake
    <3> QED
      BY <2>2, <3>3 DEF Types, DiskTypes, WorkerTake
  <2>3. DiskTypes'
    BY <1>2, <2>1, <2>2 DEF Worker
  <2>4. UNCHANGED <<main, stop_asked>> /\ UNCHANGED receiver /\ UNCHANGED engine /\ UNCHANGED poller
    BY <1>2 DEF Worker, WorkerLock, WorkerTake, WorkerRan, WorkerSleep
  <2> QED
    BY <2>3, <2>4, Kept DEF Types
<1>3. CASE Audio
  <2>1. ASSUME Callback \/ Return \/ (Drain /\ queue = << >>) PROVE EngineTypes'
    BY <2>1 DEF Types, EngineTypes, Callback, Return, Drain
  <2>2. ASSUME Drain, queue # << >> PROVE EngineTypes'
    <3>1. queue \in Seq(Nums) /\ applied \in Seq(Nums) /\ Len(queue) <= Room
      BY DEF Types, EngineTypes
    <3>2. Head(queue) \in Nums /\ Tail(queue) \in Seq(Nums) /\ Len(Tail(queue)) = Len(queue) - 1
          /\ Len(queue) \in Nat
      BY <2>2, <3>1, TailOf
    <3>3. queue' \in Seq(Nums) /\ applied' \in Seq(Nums)
      BY <2>2, <3>1, <3>2, AppendOf DEF Drain
    <3>4. Len(queue') <= Room
      BY <2>2, <3>1, <3>2, BoundsAssumption DEF Drain
    <3> QED
      BY <2>2, <3>3, <3>4 DEF Types, EngineTypes, Drain
  <2>3. EngineTypes'
    BY <1>3, <2>1, <2>2 DEF Audio
  <2>4. UNCHANGED <<main, stop_asked>> /\ UNCHANGED receiver /\ UNCHANGED poller /\ UNCHANGED disk
    BY <1>3 DEF Audio, Callback, Drain, Return
  <2> QED
    BY <2>3, <2>4, Kept DEF Types
<1> QED
  BY <1>1, <1>2, <1>3

\* So does main.
LEMMA MainStepTypes == ASSUME Types, Main \/ Signal PROVE Types'
<1>1. MainTypes'
  <2>1. CASE Signal \/ Boot \/ DeviceStart \/ Listen \/ StopRecv \/ JoinRecv \/ StopPoll \/ JoinPoll
    BY <2>1 DEF Types, MainTypes, MainPCs, Signal, Boot, DeviceStart, Listen, StopRecv, JoinRecv,
                StopPoll, JoinPoll
  <2>2. CASE StopDisk \/ NotifyDisk \/ JoinDisk \/ StopEngine \/ Uninit \/ JoinAudio \/ StopDrain
    BY <2>2 DEF Types, MainTypes, MainPCs, StopDisk, NotifyDisk, JoinDisk, StopEngine, Uninit,
                JoinAudio, StopDrain
  <2> QED
    BY <2>1, <2>2 DEF Main
<1>2. CASE Listen \/ StopRecv \/ JoinRecv
  <2>1. RecvTypes'
    BY <1>2 DEF Types, RecvTypes, RecvPCs, Listen, StopRecv, JoinRecv
  <2>2. UNCHANGED engine /\ UNCHANGED poller /\ UNCHANGED disk
    BY <1>2 DEF Listen, StopRecv, JoinRecv
  <2> QED
    BY <1>1, <2>1, <2>2, Kept DEF Types
<1>3. CASE StopPoll \/ JoinPoll
  <2>1. PollTypes'
    BY <1>3 DEF Types, PollTypes, StopPoll, JoinPoll
  <2>2. UNCHANGED engine /\ UNCHANGED receiver /\ UNCHANGED disk
    BY <1>3 DEF StopPoll, JoinPoll
  <2> QED
    BY <1>1, <2>1, <2>2, Kept DEF Types
<1>4. CASE StopDisk \/ NotifyDisk
  <2>1. DiskTypes'
    BY <1>4 DEF Types, DiskTypes, StopDisk, NotifyDisk, Notified
  <2>2. UNCHANGED engine /\ UNCHANGED receiver /\ UNCHANGED poller
    BY <1>4 DEF StopDisk, NotifyDisk
  <2> QED
    BY <1>1, <2>1, <2>2, Kept DEF Types
<1>5. CASE Boot \/ DeviceStart \/ StopEngine \/ Uninit \/ StopDrain
  <2>1. ASSUME Boot \/ DeviceStart \/ StopEngine \/ Uninit PROVE EngineTypes'
    <3>1. running' \in BOOLEAN /\ device' \in BOOLEAN
      BY <2>1 DEF Types, EngineTypes, Boot, DeviceStart, StopEngine, Uninit
    <3>2. UNCHANGED <<audio, queue, params, applied, overflowed>>
      BY <2>1 DEF Boot, DeviceStart, StopEngine, Uninit
    <3> QED
      BY <3>1, <3>2 DEF Types, EngineTypes
  <2>2. ASSUME StopDrain PROVE EngineTypes'
    <3>1. queue \in Seq(Nums) /\ applied \in Seq(Nums)
      BY DEF Types, EngineTypes
    <3>2. applied' \in Seq(Nums) /\ queue' \in Seq(Nums)
      BY <2>2, <3>1, ConcatOf, EmptyOf DEF StopDrain
    <3>3. Len(queue') <= Room
      BY <2>2, EmptyOf, BoundsAssumption DEF StopDrain
    <3> QED
      BY <2>2, <3>2, <3>3 DEF Types, EngineTypes, StopDrain
  <2>3. EngineTypes'
    BY <1>5, <2>1, <2>2
  <2>4. UNCHANGED receiver /\ UNCHANGED poller /\ UNCHANGED disk
    BY <1>5 DEF Boot, DeviceStart, StopEngine, Uninit, StopDrain
  <2> QED
    BY <1>1, <2>3, <2>4, Kept DEF Types
<1>6. CASE Signal \/ JoinDisk \/ JoinAudio
  <2>1. UNCHANGED engine /\ UNCHANGED receiver /\ UNCHANGED poller /\ UNCHANGED disk
    BY <1>6 DEF Signal, JoinDisk, JoinAudio
  <2> QED
    BY <1>1, <2>1, Kept DEF Types
<1> QED
  BY <1>2, <1>3, <1>4, <1>5, <1>6 DEF Main

\* So does every step.
LEMMA StepTypes == ASSUME IInv, [Next]_vars PROVE Types'
<1>0. Types
  BY DEF IInv
<1>1. CASE UNCHANGED vars
  <2>1. /\ UNCHANGED <<main, stop_asked>> /\ UNCHANGED receiver /\ UNCHANGED engine
        /\ UNCHANGED poller /\ UNCHANGED disk
    BY <1>1 DEF vars
  <2> QED
    BY <1>0, <2>1, Kept DEF Types
<1> QED
  BY <1>0, <1>1, ReceiverStepTypes, ThreadStepTypes, MainStepTypes DEF Next

-----------------------------------------------------------------------------
(* Who may touch what *)

\* A receiver step is taken by a receiver there is; it leaves the engine's state
\* and the disk worker's flag alone.
LEMMA ReceiverFacts ==
  ASSUME Receiver
  PROVE  /\ recv \notin {"none", "exit"} /\ recv' # "none"
         /\ UNCHANGED <<main, running, device, audio, disk_running>>
<1>1. CASE RecvLoop \/ RecvTimeout \/ DatagramDone \/ \E d \in Datagrams : Receive(d)
  BY <1>1 DEF RecvLoop, RecvTimeout, DatagramDone, Receive, engine, disk
<1>2. CASE DispatchParam \/ Apply \/ ApplyDirect
  BY <1>2 DEF DispatchParam, Dispatch, Apply, ApplyDirect, disk
<1>3. CASE Post \/ PostNotify
  BY <1>3 DEF Post, Dispatch, PostNotify, engine
<1>4. CASE PollStart \/ PollStop \/ PollJoin \/ Quit
  BY <1>4 DEF PollStart, PollStop, PollJoin, Quit, Dispatch, engine, disk
<1> QED
  BY <1>1, <1>2, <1>3, <1>4 DEF Receiver

\* The other threads leave main, the receiver and the engine's flags alone.
LEMMA ThreadFacts ==
  ASSUME Poll \/ Worker \/ Audio
  PROVE  UNCHANGED <<main, recv, received, running, disk_running, params, overflowed>>
<1>1. CASE Poll
  BY <1>1 DEF Poll, PollCheck, PollScan, PollWake, engine, receiver, disk
<1>2. CASE Worker
  BY <1>2 DEF Worker, WorkerLock, WorkerTake, WorkerRan, WorkerSleep, engine, receiver
<1>3. CASE Audio
  BY <1>3 DEF Audio, Callback, Drain, Return, receiver, disk
<1> QED
  BY <1>1, <1>2, <1>3

\* What main does to the commands: nothing, but for the last drain.
LEMMA MainFacts ==
  ASSUME Main \/ Signal
  PROVE  /\ UNCHANGED <<received, params, overflowed>>
         /\ StopDrain \/ UNCHANGED <<queue, applied>>
<1>1. CASE Signal \/ Boot \/ DeviceStart \/ Listen \/ StopRecv \/ JoinRecv \/ StopPoll \/ JoinPoll
  BY <1>1 DEF Signal, Boot, DeviceStart, Listen, StopRecv, JoinRecv, StopPoll, JoinPoll, engine,
              receiver
<1>2. CASE StopDisk \/ NotifyDisk \/ JoinDisk \/ StopEngine \/ Uninit \/ JoinAudio \/ StopDrain
  BY <1>2 DEF StopDisk, NotifyDisk, JoinDisk, StopEngine, Uninit, JoinAudio, StopDrain, engine,
              receiver
<1> QED
  BY <1>1, <1>2 DEF Main

-----------------------------------------------------------------------------
(* The receiver and the queue are where main says they are *)

\* Every step keeps PlaceInv.
LEMMA StepPlace == ASSUME IInv, [Next]_vars PROVE PlaceInv'
<1>0. PlaceInv /\ main \in MainPCs /\ recv \in RecvPCs
  BY DEF IInv, Types, MainTypes, RecvTypes
<1> USE DEF Early, Late
<1>1. CASE UNCHANGED <<main, recv, running, queue>>
  BY <1>0, <1>1 DEF PlaceInv
<1>2. CASE Receiver
  <2>1. recv # "none" /\ recv' # "none" /\ UNCHANGED <<main, running>>
    BY <1>2, ReceiverFacts
  <2>2. main \notin Early \union Late
    BY <1>0, <2>1 DEF PlaceInv
  <2>3. CASE Apply
    <3>1. queue' = queue \/ running
      BY <2>3 DEF Apply, QueuesHere
    <3> QED
      BY <1>0, <2>1, <2>2, <3>1 DEF PlaceInv
  <2>4. CASE ~Apply
    <3>1. queue' = queue
      <4>1. CASE RecvLoop \/ RecvTimeout \/ DatagramDone \/ \E d \in Datagrams : Receive(d)
        BY <4>1 DEF RecvLoop, RecvTimeout, DatagramDone, Receive, engine
      <4>2. CASE DispatchParam \/ ApplyDirect \/ Post \/ PostNotify
        BY <4>2 DEF DispatchParam, ApplyDirect, Post, PostNotify, engine
      <4>3. CASE PollStart \/ PollStop \/ PollJoin \/ Quit
        BY <4>3 DEF PollStart, PollStop, PollJoin, Quit, engine
      <4> QED
        BY <1>2, <2>4, <4>1, <4>2, <4>3 DEF Receiver
    <3> QED
      BY <1>0, <2>1, <2>2, <3>1 DEF PlaceInv
  <2> QED
    BY <2>3, <2>4
<1>3. CASE Poll \/ Worker
  <2>1. UNCHANGED <<main, recv, running>>
    BY <1>3, ThreadFacts
  <2>2. queue' = queue
    BY <1>3 DEF Poll, PollCheck, PollScan, PollWake, Worker, WorkerLock, WorkerTake, WorkerRan,
                WorkerSleep, engine
  <2> QED
    BY <1>1, <2>1, <2>2
<1>4. CASE Audio
  <2>1. UNCHANGED <<main, recv, running>>
    BY <1>4, ThreadFacts
  <2>2. queue = << >> => queue' = << >>
    BY <1>4 DEF Audio, Callback, Drain, Return
  <2> QED
    BY <1>0, <2>1, <2>2 DEF PlaceInv
<1>5. CASE StopDrain
  BY <1>0, <1>5 DEF PlaceInv, StopDrain, receiver
<1>6. CASE (Main \/ Signal) /\ ~StopDrain
  <2>0. queue' = queue
    BY <1>6, MainFacts
  <2>1. CASE Boot \/ DeviceStart \/ Listen
    BY <1>0, <2>0, <2>1 DEF PlaceInv, Boot, DeviceStart, Listen, receiver, engine
  <2>2. CASE StopRecv \/ JoinRecv
    BY <1>0, <2>0, <2>2 DEF PlaceInv, StopRecv, JoinRecv, receiver, engine
  <2>3. CASE StopPoll \/ JoinPoll \/ StopDisk \/ NotifyDisk \/ JoinDisk
    BY <1>0, <2>0, <2>3 DEF PlaceInv, StopPoll, JoinPoll, StopDisk, NotifyDisk, JoinDisk, receiver,
                            engine
  <2>4. CASE StopEngine \/ Uninit \/ JoinAudio
    BY <1>0, <2>0, <2>4 DEF PlaceInv, StopEngine, Uninit, JoinAudio, receiver, engine
  <2>5. CASE Signal
    BY <1>0, <2>0, <2>5 DEF PlaceInv, Signal, receiver, engine
  <2> QED
    BY <1>6, <2>1, <2>2, <2>3, <2>4, <2>5 DEF Main
<1>7. CASE UNCHANGED vars
  BY <1>1, <1>7 DEF vars, receiver, engine
<1> QED
  BY <1>2, <1>3, <1>4, <1>5, <1>6, <1>7 DEF Next

-----------------------------------------------------------------------------
(* The life of the poll thread *)

\* Every step keeps LifeInv.
LEMMA StepLife == ASSUME IInv, [Next]_vars PROVE LifeInv'
<1>0. LifeInv /\ PlaceInv /\ main \in MainPCs /\ recv \in RecvPCs
  BY DEF IInv, Types, MainTypes, RecvTypes
<1> USE DEF Late, LifeInv, PollGone
<1>1. ASSUME UNCHANGED <<poll_running, poll>>, recv' = "join_poll" <=> recv = "join_poll",
             main' = "join_poll" <=> main = "join_poll"
      PROVE  LifeInv'
  BY <1>0, <1>1
<1>2. CASE Receiver
  <2>1. recv # "none" /\ recv' # "none" /\ main' = main
    BY <1>2, ReceiverFacts
  <2>2. main \notin Late
    BY <1>0, <2>1 DEF PlaceInv
  <2>3. CASE PollStart
    <3>1. recv = "dispatch" /\ recv' = "dispatch"
      BY <2>3 DEF PollStart, Dispatch
    <3> QED
      BY <1>0, <2>1, <2>2, <2>3, <3>1 DEF PollStart
  <2>4. CASE PollStop
    <3>1. recv = "dispatch"
      BY <2>4 DEF PollStop, Dispatch
    <3> QED
      BY <1>0, <2>1, <2>2, <2>4, <3>1 DEF PollStop
  <2>5. CASE PollJoin
    BY <1>0, <2>1, <2>2, <2>5 DEF PollJoin
  <2>6. CASE RecvLoop \/ RecvTimeout \/ DatagramDone \/ \E d \in Datagrams : Receive(d)
    BY <1>1, <2>1, <2>6 DEF RecvLoop, RecvTimeout, DatagramDone, Receive, poller
  <2>7. CASE DispatchParam \/ Apply \/ ApplyDirect
    BY <1>1, <2>1, <2>7 DEF DispatchParam, Dispatch, Apply, ApplyDirect, poller
  <2>8. CASE Post \/ PostNotify \/ Quit
    BY <1>1, <2>1, <2>8 DEF Post, Dispatch, PostNotify, Quit, poller
  <2> QED
    BY <1>2, <2>3, <2>4, <2>5, <2>6, <2>7, <2>8 DEF Receiver
<1>3. CASE Poll
  <2>1. UNCHANGED <<main, recv, poll_running>>
    BY <1>3 DEF Poll, PollCheck, PollScan, PollWake, receiver
  <2> QED
    BY <1>0, <1>3, <2>1 DEF Poll, PollCheck, PollScan, PollWake
<1>4. CASE Worker \/ Audio
  <2>1. UNCHANGED <<main, recv>>
    BY <1>4, ThreadFacts
  <2>2. UNCHANGED <<poll_running, poll>>
    BY <1>4 DEF Worker, WorkerLock, WorkerTake, WorkerRan, WorkerSleep, Audio, Callback, Drain,
                Return, poller
  <2> QED
    BY <1>1, <2>1, <2>2
<1>5. CASE StopPoll
  BY <1>0, <1>5 DEF PlaceInv, StopPoll, receiver
<1>6. CASE JoinPoll
  BY <1>0, <1>6 DEF PlaceInv, JoinPoll, receiver
<1>7. CASE Signal \/ Boot \/ DeviceStart \/ Listen \/ StopRecv \/ JoinRecv
  <2>1. UNCHANGED <<poll_running, poll>> /\ main # "join_poll" /\ main' # "join_poll"
        /\ (recv' = "join_poll" <=> recv = "join_poll")
    BY <1>0, <1>7 DEF Signal, Boot, DeviceStart, Listen, StopRecv, JoinRecv, poller, receiver,
                      PlaceInv, Early
  <2> QED
    BY <1>1, <2>1
<1>8. CASE StopDisk \/ NotifyDisk \/ JoinDisk \/ StopEngine \/ Uninit \/ JoinAudio \/ StopDrain
  <2>1. UNCHANGED <<poll_running, poll, recv>> /\ main # "join_poll" /\ main' # "join_poll"
    BY <1>8 DEF StopDisk, NotifyDisk, JoinDisk, StopEngine, Uninit, JoinAudio, StopDrain, poller,
                receiver
  <2> QED
    BY <1>1, <2>1
<1>9. CASE UNCHANGED vars
  BY <1>1, <1>9 DEF vars, receiver, poller
<1> QED
  BY <1>2, <1>3, <1>4, <1>5, <1>6, <1>7, <1>8, <1>9 DEF Next, Main

-----------------------------------------------------------------------------
(* The disk worker, and the jobs *)

\* Every step keeps DiskInv.
LEMMA StepDisk == ASSUME IInv, [Next]_vars PROVE DiskInv'
<1>0. DiskInv /\ PlaceInv /\ main \in MainPCs /\ recv \in RecvPCs
  BY DEF IInv, Types, MainTypes, RecvTypes
<1>t. jobs \in Seq(Nums) /\ posted \in Seq(Nums) /\ done \in Seq(Nums)
  BY DEF IInv, Types, DiskTypes
<1> USE DEF DiskInv, DiskStopped, DiskJoined, disk
<1>1. ASSUME UNCHANGED disk, main' \in DiskStopped <=> main \in DiskStopped,
             main' \in DiskJoined => main \in DiskJoined
      PROVE  DiskInv'
  BY <1>0, <1>1
<1>2. CASE Receiver
  <2>1. recv # "none" /\ UNCHANGED <<main, disk_running>>
    BY <1>2, ReceiverFacts
  <2>2. main \notin DiskStopped /\ main \notin DiskJoined
    BY <1>0, <2>1 DEF PlaceInv, Late
  <2>3. CASE Post
    <3>1. disk_running = TRUE
      BY <1>0, <2>2
    <3>2. /\ posted' = Append(posted, received') /\ jobs' = Append(jobs, received')
          /\ UNCHANGED <<worker, done>>
      BY <2>3, <3>1 DEF Post
    <3>3. received' \in Nums
      BY <2>3, DispatchTypes DEF Post, IInv
    <3>4. Splits(posted', done, jobs, 1) /\ posted' \in Seq(Nums)
      BY <1>0, <1>t, <3>2, <3>3, SplitGrow, AppendOf
    <3>5. received' = posted'[Len(posted')]
      BY <1>t, <3>2, <3>3, AppendOf
    <3>6. Splits(posted', done, jobs', 0)
      BY <1>t, <3>2, <3>3, <3>4, <3>5, SplitQueue
    <3>7. worker' # "exit"
      BY <1>0, <3>1, <3>2
    <3> QED
      BY <1>0, <2>1, <2>2, <3>2, <3>6, <3>7
  <2>4. CASE PostNotify
    BY <1>0, <2>1, <2>2, <2>4 DEF PostNotify, Notified
  <2>5. CASE RecvLoop \/ RecvTimeout \/ DatagramDone \/ \E d \in Datagrams : Receive(d)
    BY <1>1, <2>1, <2>5 DEF RecvLoop, RecvTimeout, DatagramDone, Receive
  <2>6. CASE DispatchParam \/ Apply \/ ApplyDirect
    BY <1>1, <2>1, <2>6 DEF DispatchParam, Apply, ApplyDirect
  <2>7. CASE PollStart \/ PollStop \/ PollJoin \/ Quit
    BY <1>1, <2>1, <2>7 DEF PollStart, PollStop, PollJoin, Quit
  <2> QED
    BY <1>2, <2>3, <2>4, <2>5, <2>6, <2>7 DEF Receiver
<1>3. CASE Poll \/ Audio
  <2>1. main' = main
    BY <1>3, ThreadFacts
  <2>2. UNCHANGED disk
    BY <1>3 DEF Poll, PollCheck, PollScan, PollWake, Audio, Callback, Drain, Return
  <2> QED
    BY <1>1, <2>1, <2>2
<1>4. CASE Worker
  <2>1. UNCHANGED <<main, disk_running, posted>>
    BY <1>4 DEF Worker, WorkerLock, WorkerTake, WorkerRan, WorkerSleep
  <2>2. CASE WorkerTake
    <3>1. /\ worker = "check" /\ worker' = "job" /\ jobs # << >>
          /\ jobs' = Tail(jobs) /\ done' = Append(done, Head(jobs))
      BY <2>2 DEF WorkerTake
    <3>2. Splits(posted', done', jobs', 0)
      BY <1>0, <1>t, <2>1, <3>1, SplitMove
    <3> QED
      BY <1>0, <2>1, <3>1, <3>2
  <2>3. CASE WorkerLock \/ WorkerRan \/ WorkerSleep
    <3>1. worker # "exit" /\ UNCHANGED <<jobs, done>>
          /\ (worker' = "exit" => ~disk_running /\ jobs = << >>)
      BY <2>3 DEF WorkerLock, WorkerRan, WorkerSleep
    <3> QED
      BY <1>0, <2>1, <3>1
  <2> QED
    BY <1>4, <2>2, <2>3 DEF Worker
<1>5. CASE StopDisk \/ NotifyDisk \/ JoinDisk
  BY <1>0, <1>5 DEF StopDisk, NotifyDisk, Notified, JoinDisk
<1>6. CASE Signal \/ Boot \/ DeviceStart \/ Listen \/ StopRecv \/ JoinRecv \/ StopPoll \/ JoinPoll
  BY <1>1, <1>6 DEF Signal, Boot, DeviceStart, Listen, StopRecv, JoinRecv, StopPoll, JoinPoll
<1>7. CASE StopEngine \/ Uninit \/ JoinAudio \/ StopDrain
  BY <1>1, <1>7 DEF StopEngine, Uninit, JoinAudio, StopDrain
<1>8. CASE UNCHANGED vars
  BY <1>1, <1>8 DEF vars
<1> QED
  BY <1>2, <1>3, <1>4, <1>5, <1>6, <1>7, <1>8 DEF Next, Main

-----------------------------------------------------------------------------
(* The parameter changes *)

\* Most steps leave them, and what is in hand, alone.
LEMMA Untouched ==
  ASSUME IInv, [Next]_vars,
         ~DispatchParam, ~Apply, ~ApplyDirect, ~(Drain /\ queue # << >>), ~StopDrain
  PROVE  /\ UNCHANGED <<params, applied, queue, overflowed>> /\ (Pending' <=> Pending)
         /\ received' \in Nat /\ received \in Nat /\ received <= received'
         /\ (recv = "direct" \/ recv' = "direct") => recv' = recv /\ running' = running
<1>0. /\ received \in Nat /\ received' \in Nat /\ recv \in RecvPCs
      /\ main \in {"boot", "device_start", "listen", "stop_engine"} => recv = "none"
  BY StepTypes, BoundsAssumption DEF IInv, Types, RecvTypes, PlaceInv, Early, Late
<1> USE DEF Pending
<1>1. CASE RecvLoop \/ RecvTimeout \/ DatagramDone \/ \E d \in Datagrams : Receive(d)
  BY <1>0, <1>1 DEF RecvLoop, RecvTimeout, DatagramDone, Receive, engine
<1>2. CASE Post \/ PostNotify \/ PollStart \/ PollStop \/ PollJoin \/ Quit
  <2>1. UNCHANGED <<params, applied, queue, overflowed, running>>
    BY <1>2 DEF Post, PostNotify, PollStart, PollStop, PollJoin, Quit, engine
  <2>2. recv \in {"dispatch", "notify", "join_poll"} /\ recv' \in {"dispatch", "notify", "join_poll"}
    BY <1>2 DEF Post, PostNotify, PollStart, PollStop, PollJoin, Quit, Dispatch
  <2>3. received' = received \/ received' = received + 1
    BY <1>2 DEF Post, PostNotify, PollStart, PollStop, PollJoin, Quit, Dispatch
  <2> QED
    BY <1>0, <2>1, <2>2, <2>3
<1>3. CASE Poll \/ Worker
  BY <1>0, <1>3 DEF Poll, PollCheck, PollScan, PollWake, Worker, WorkerLock, WorkerTake, WorkerRan,
                    WorkerSleep, engine, receiver
<1>4. CASE Audio
  BY <1>0, <1>4 DEF Audio, Callback, Drain, Return, receiver
<1>5. CASE Main \/ Signal
  <2>1. UNCHANGED <<received, params, queue, applied, overflowed>>
    BY <1>5, MainFacts
  <2>2. CASE Boot \/ DeviceStart \/ Listen \/ StopEngine
    <3>1. recv = "none" /\ recv' \in {"none", "loop"}
      BY <1>0, <2>2 DEF Boot, DeviceStart, Listen, StopEngine, receiver
    <3> QED
      BY <1>0, <2>1, <3>1
  <2>3. CASE Signal \/ StopRecv \/ StopPoll \/ JoinPoll \/ StopDisk \/ NotifyDisk \/ JoinDisk \/ Uninit
             \/ JoinAudio
    <3>1. UNCHANGED <<recv, running>>
      BY <2>3 DEF Signal, StopRecv, StopPoll, JoinPoll, StopDisk, NotifyDisk, JoinDisk, Uninit,
                  JoinAudio, receiver, engine
    <3> QED
      BY <1>0, <2>1, <3>1
  <2>4. CASE JoinRecv
    <3>1. recv \in {"none", "exit"} /\ recv' = "none"
      BY <2>4 DEF JoinRecv
    <3> QED
      BY <1>0, <2>1, <3>1
  <2> QED
    BY <1>5, <2>2, <2>3, <2>4 DEF Main
<1>6. CASE UNCHANGED vars
  BY <1>0, <1>6 DEF vars, receiver, engine
<1> QED
  BY <1>1, <1>2, <1>3, <1>4, <1>5, <1>6 DEF Next, Receiver

\* Every step keeps ParamInv.
LEMMA StepParam == ASSUME IInv, [Next]_vars PROVE ParamInv'
<1>0. ParamInv /\ PlaceInv
  BY DEF IInv
<1>t. /\ queue \in Seq(Nums) /\ params \in Seq(Nums) /\ applied \in Seq(Nums)
      /\ received \in Nat
  BY BoundsAssumption DEF IInv, Types, EngineTypes, RecvTypes
<1>1. CASE DispatchParam
  <2>1. /\ Dispatch("param") /\ recv' = "apply" /\ params' = Append(params, received')
        /\ UNCHANGED <<queue, applied>>
    BY <1>1 DEF DispatchParam
  <2>2. received' = received + 1 /\ received' \in Nums /\ recv = "dispatch"
    BY <2>1, DispatchTypes DEF IInv
  <2>3. /\ \A n : Has(params', n) <=> Has(params, n) \/ n = received'
        /\ Distinct(params) /\ ~Has(params, received') => Distinct(params')
    BY <1>t, <2>1, <2>2, HasAppend
  <2>4. params' # << >> /\ Last(params') = received'
    <3>1. /\ params' \in Seq(Nums) /\ Len(params) \in Nat /\ Len(params') = Len(params) + 1
          /\ params'[Len(params) + 1] = received'
      BY <1>t, <2>1, <2>2, AppendOf
    <3> QED
      BY <3>1, EmptyOf DEF Last
  <2>5. ~Has(params, received') /\ ~Pending
    BY <1>0, <1>t, <2>2 DEF ParamInv, Pending
  <2>6. \A n : Has(params', n) => n <= received'
    <3> SUFFICES ASSUME NEW n, Has(params', n) PROVE n <= received'
      OBVIOUS
    <3>1. CASE n = received'
      BY <2>2, <3>1 DEF Nums
    <3>2. CASE Has(params, n)
      <4>1. n \in Nums /\ n <= received
        BY <1>0, <1>t, <3>2 DEF ParamInv, Has
      <4> QED
        BY <1>t, <2>2, <4>1 DEF Nums
    <3> QED
      BY <2>3, <3>1, <3>2
  <2>7. ~Has(applied, received') /\ ~Has(queue, received')
    BY <1>0, <2>5 DEF ParamInv
  <2>8. Pending'
    BY <2>1 DEF Pending
  <2> QED
    BY <1>0, <2>1, <2>3, <2>4, <2>5, <2>6, <2>7, <2>8 DEF ParamInv
<1>2. CASE Apply
  <2>1. /\ Pending /\ UNCHANGED <<params, applied, received>>
    BY <1>2 DEF Apply, Pending
  <2>2. CASE QueuesHere
    <3>1. queue' = Append(queue, Last(params)) /\ recv' = "dispatch"
      BY <1>2, <2>2 DEF Apply
    <3>2. Last(params) \in Nums
      BY <2>1, InHand
    <3>3. /\ \A n : Has(queue', n) <=> Has(queue, n) \/ n = Last(params)
          /\ Distinct(queue) /\ ~Has(queue, Last(params)) => Distinct(queue')
      BY <1>t, <3>1, <3>2, HasAppend
    <3>4. ~Pending'
      BY <3>1 DEF Pending
    <3> QED
      BY <1>0, <2>1, <3>3, <3>4 DEF ParamInv
  <2>3. CASE ~QueuesHere
    <3>1. queue' = queue /\ Pending'
      BY <1>2, <2>3 DEF Apply, Pending
    <3> QED
      BY <1>0, <2>1, <3>1 DEF ParamInv
  <2> QED
    BY <2>2, <2>3
<1>3. CASE ApplyDirect
  <2>1. /\ Pending /\ ~Pending' /\ UNCHANGED <<params, queue, received>>
        /\ applied' = Append(applied, Last(params))
    BY <1>3 DEF ApplyDirect, Pending
  <2>2. Last(params) \in Nums
    BY <2>1, InHand
  <2>3. /\ \A n : Has(applied', n) <=> Has(applied, n) \/ n = Last(params)
        /\ Distinct(applied) /\ ~Has(applied, Last(params)) => Distinct(applied')
    BY <1>t, <2>1, <2>2, HasAppend
  <2> QED
    BY <1>0, <2>1, <2>3 DEF ParamInv
<1>4. CASE Drain /\ queue # << >>
  <2>1. /\ UNCHANGED <<params, recv, received>>
        /\ queue' = Tail(queue) /\ applied' = Append(applied, Head(queue))
    BY <1>4 DEF Drain, receiver
  <2>2. Head(queue) \in Nums
    BY <1>t, <1>4, TailOf
  <2>3. /\ \A n : Has(queue, n) <=> Has(queue', n) \/ n = Head(queue)
        /\ Distinct(queue) => Distinct(queue') /\ ~Has(queue', Head(queue))
    BY <1>t, <1>4, <2>1, HasTail
  <2>4. /\ \A n : Has(applied', n) <=> Has(applied, n) \/ n = Head(queue)
        /\ Distinct(applied) /\ ~Has(applied, Head(queue)) => Distinct(applied')
    BY <1>t, <2>1, <2>2, HasAppend
  <2>5. Pending' <=> Pending
    BY <2>1 DEF Pending
  <2>6. Has(queue, Head(queue))
    BY <2>3
  <2>7. Distinct(applied') /\ Distinct(queue') /\ \A n : ~(Has(applied', n) /\ Has(queue', n))
    BY <1>0, <2>3, <2>4, <2>6 DEF ParamInv
  <2>8. Pending => params # << >> /\ ~Has(applied', Last(params)) /\ ~Has(queue', Last(params))
    BY <1>0, <2>3, <2>4, <2>6 DEF ParamInv
  <2>9. \A n : Has(params, n) <=> Has(applied', n) \/ Has(queue', n) \/ (Pending /\ n = Last(params))
    BY <1>0, <2>3, <2>4 DEF ParamInv
  <2> QED
    BY <1>0, <2>1, <2>5, <2>7, <2>8, <2>9 DEF ParamInv
<1>5. CASE StopDrain
  <2>1. /\ UNCHANGED <<params, recv, received>> /\ recv = "none"
        /\ queue' = << >> /\ applied' = applied \o queue
    BY <1>0, <1>5 DEF StopDrain, receiver, PlaceInv, Late
  <2>2. /\ \A n : Has(applied', n) <=> Has(applied, n) \/ Has(queue, n)
        /\ Distinct(applied) /\ Distinct(queue) /\ (\A n : ~(Has(applied, n) /\ Has(queue, n)))
             => Distinct(applied')
    BY <1>t, <2>1, HasConcat
  <2>3. ~Pending /\ ~Pending'
    BY <2>1 DEF Pending
  <2>4. Distinct(queue') /\ \A n : ~Has(queue', n)
    BY <2>1, EmptyOf
  <2> QED
    BY <1>0, <2>1, <2>2, <2>3, <2>4 DEF ParamInv
<1>6. CASE ~(DispatchParam \/ Apply \/ ApplyDirect \/ (Drain /\ queue # << >>) \/ StopDrain)
  <2>1. /\ UNCHANGED <<params, applied, queue>> /\ (Pending' <=> Pending)
        /\ received' \in Nat /\ received <= received'
    BY <1>6, Untouched
  <2>2. \A n : Has(params, n) => n <= received'
    <3> SUFFICES ASSUME NEW n, Has(params, n) PROVE n <= received'
      OBVIOUS
    <3>1. n \in Nums /\ n <= received
      BY <1>0, <1>t DEF ParamInv, Has
    <3> QED
      BY <1>t, <2>1, <3>1 DEF Nums
  <2> QED
    BY <1>0, <2>1, <2>2 DEF ParamInv
<1> QED
  BY <1>1, <1>2, <1>3, <1>4, <1>5, <1>6

\* Every step keeps OrderInv.
LEMMA StepOrder == ASSUME IInv, [Next]_vars PROVE OrderInv'
<1>0. OrderInv /\ PlaceInv
  BY DEF IInv
<1>t. queue \in Seq(Nums) /\ params \in Seq(Nums) /\ applied \in Seq(Nums)
  BY DEF IInv, Types, EngineTypes
<1>1. CASE DispatchParam
  <2>1. /\ Dispatch("param") /\ recv' = "apply" /\ params' = Append(params, received')
        /\ UNCHANGED <<queue, applied, overflowed>>
    BY <1>1 DEF DispatchParam
  <2>2. received' \in Nums /\ ~Pending /\ Pending'
    BY <2>1, DispatchTypes DEF IInv, Pending
  <2>3. ~overflowed => Splits(params', applied, queue, 1)
    BY <1>0, <1>t, <2>1, <2>2, SplitGrow DEF OrderInv
  <2> QED
    BY <2>1, <2>2, <2>3 DEF OrderInv
<1>2. CASE Apply
  <2>1. /\ Pending /\ UNCHANGED <<params, applied, running>>
        /\ overflowed' = (overflowed \/ (running /\ Full))
    BY <1>2 DEF Apply, Pending
  <2>2. CASE QueuesHere
    <3>1. queue' = Append(queue, Last(params)) /\ recv' = "dispatch" /\ ~Pending'
      BY <1>2, <2>2 DEF Apply, Pending
    <3>2. Last(params) \in Nums /\ Last(params) = params[Len(params)]
      BY <2>1, InHand DEF Last
    <3>3. ~overflowed => Splits(params, applied, queue', 0)
      BY <1>0, <1>t, <2>1, <3>1, <3>2, SplitQueue DEF OrderInv
    <3> QED
      BY <2>1, <3>1, <3>3 DEF OrderInv
  <2>3. CASE ~QueuesHere
    <3>1. queue' = queue /\ Pending' /\ (~overflowed' => ~running)
      BY <1>2, <2>1, <2>3 DEF Apply, Pending, QueuesHere
    <3> QED
      BY <1>0, <2>1, <3>1 DEF OrderInv
  <2> QED
    BY <2>2, <2>3
<1>3. CASE ApplyDirect
  <2>1. /\ Pending /\ ~Pending' /\ recv = "direct" /\ recv' = "dispatch"
        /\ UNCHANGED <<params, queue, overflowed>> /\ applied' = Append(applied, Last(params))
    BY <1>3 DEF ApplyDirect, Pending
  <2>2. Last(params) \in Nums /\ Last(params) = params[Len(params)]
    BY <2>1, InHand DEF Last
  <2>3. ASSUME ~overflowed PROVE Splits(params, applied', queue, 0)
    <3>1. queue = << >>
      BY <1>0, <2>1, <2>3 DEF OrderInv, PlaceInv
    <3>2. Splits(params, applied, << >>, 1)
      BY <1>0, <2>1, <2>3, <3>1 DEF OrderInv
    <3>3. /\ Append(<< >>, Last(params)) # << >> /\ Append(<< >>, Last(params)) \in Seq(Nums)
          /\ Head(Append(<< >>, Last(params))) = Last(params)
          /\ Tail(Append(<< >>, Last(params))) = << >>
      BY <2>2
    <3>4. Splits(params, applied, Append(<< >>, Last(params)), 0)
      BY <1>t, <2>2, <3>2, SplitQueue, EmptyOf
    <3>5. Splits(params, Append(applied, Last(params)), << >>, 0)
      BY <1>t, <3>3, <3>4, SplitMove
    <3> QED
      BY <2>1, <3>1, <3>5
  <2> QED
    BY <2>1, <2>3 DEF OrderInv
<1>4. CASE Drain /\ queue # << >>
  <2>1. /\ UNCHANGED <<params, recv, running, overflowed>>
        /\ queue' = Tail(queue) /\ applied' = Append(applied, Head(queue))
    BY <1>4 DEF Drain, receiver
  <2>2. PICK p \in {0, 1} : p = IF Pending THEN 1 ELSE 0
    OBVIOUS
  <2>3. Pending' <=> Pending
    BY <2>1 DEF Pending
  <2>4. ~overflowed => Splits(params, applied', queue', p)
    BY <1>0, <1>t, <1>4, <2>1, <2>2, SplitMove DEF OrderInv
  <2> QED
    BY <1>0, <2>1, <2>2, <2>3, <2>4 DEF OrderInv
<1>5. CASE StopDrain
  <2>1. /\ UNCHANGED <<params, recv, running, overflowed>> /\ recv = "none"
        /\ queue' = << >> /\ applied' = applied \o queue
    BY <1>0, <1>5 DEF StopDrain, receiver, PlaceInv, Late
  <2>2. ~Pending /\ ~Pending'
    BY <2>1 DEF Pending
  <2>3. ~overflowed => Splits(params, applied', queue', 0)
    BY <1>0, <1>t, <2>1, <2>2, SplitAll DEF OrderInv
  <2> QED
    BY <2>1, <2>2, <2>3 DEF OrderInv
<1>6. CASE ~(DispatchParam \/ Apply \/ ApplyDirect \/ (Drain /\ queue # << >>) \/ StopDrain)
  <2>1. /\ UNCHANGED <<params, applied, queue, overflowed>> /\ (Pending' <=> Pending)
        /\ recv' = "direct" => recv' = recv /\ running' = running
    BY <1>6, Untouched
  <2> QED
    BY <1>0, <2>1 DEF OrderInv
<1> QED
  BY <1>1, <1>2, <1>3, <1>4, <1>5, <1>6

-----------------------------------------------------------------------------
(* The theorems *)

\* IInv is an inductive invariant.
LEMMA Invariance == Spec => []IInv
<1>1. Init => IInv
  BY InitIInv
<1>2. IInv /\ [Next]_vars => IInv'
  BY StepTypes, StepPlace, StepLife, StepDisk, StepParam, StepOrder DEF IInv
<1> QED
  BY <1>1, <1>2, PTL DEF Spec

\* TypeOK: the queue stays within its room, and the poll thread is gone once the
\* stop that ended it has returned, by a message or by main.
THEOREM TypeCorrect == Spec => []TypeOK
<1>1. IInv => TypeOK
  BY DEF IInv, Types, MainTypes, RecvTypes, EngineTypes, PollTypes, DiskTypes, TypeOK, LifeInv,
         MainPCs, RecvPCs, Nums
<1> QED
  BY <1>1, Invariance, PTL

\* NothingLost: when main returns, every parameter change received has been made
\* once and every job posted has been run, in order.
THEOREM LosesNothing == Spec => []NothingLost
<1>1. ASSUME IInv, main = "done"
      PROVE  IsInjective(applied) /\ ToSet(applied) = ToSet(params) /\ done = posted
  <2>1. /\ queue = << >> /\ recv = "none" /\ ~Pending
        /\ params \in Seq(Nums) /\ applied \in Seq(Nums) /\ posted \in Seq(Nums) /\ done \in Seq(Nums)
    BY <1>1 DEF IInv, PlaceInv, Late, Pending, Types, EngineTypes, DiskTypes
  <2>2. IsInjective(applied)
    <3>1. Distinct(applied) /\ DOMAIN applied = 1 .. Len(applied)
      BY <1>1, <2>1 DEF IInv, ParamInv
    <3> QED
      BY <3>1 DEF IsInjective, Distinct
  <2>3. \A n : Has(params, n) <=> Has(applied, n)
    BY <1>1, <2>1, EmptyOf DEF IInv, ParamInv
  <2>4. \A n : (n \in ToSet(params) <=> Has(params, n)) /\ (n \in ToSet(applied) <=> Has(applied, n))
    <3>1. DOMAIN applied = 1 .. Len(applied) /\ DOMAIN params = 1 .. Len(params)
      BY <2>1
    <3> QED
      BY <3>1 DEF ToSet, Has
  <2>5. jobs = << >> /\ Splits(posted, done, jobs, 0)
    BY <1>1 DEF IInv, DiskInv, DiskJoined
  <2>6. done = posted
    <3>1. Len(posted) = Len(done) /\ \A i \in 1 .. Len(done) : posted[i] = done[i]
      BY <2>1, <2>5, EmptyOf DEF Splits
    <3> QED
      BY <2>1, <3>1
  <2> QED
    BY <2>2, <2>3, <2>4, <2>6
<1>2. IInv => NothingLost
  BY <1>1 DEF NothingLost
<1> QED
  BY <1>2, Invariance, PTL

\* InOrder: until a push has found the queue full, parameter changes are made in
\* the order they were received.
THEOREM KeepsOrder == Spec => []InOrder
<1>1. ASSUME IInv, ~overflowed PROVE IsPrefix(applied, params)
  <2>1. applied \in Seq(Nums) /\ params \in Seq(Nums) /\ queue \in Seq(Nums)
    BY <1>1 DEF IInv, Types, EngineTypes
  <2>2. PICK k \in Nat : k = Len(applied)
    BY <2>1, AppendOf
  <2>3. PICK m \in Nat : m = Len(params)
    BY <2>1, AppendOf
  <2>4. k <= m /\ \A i \in 1 .. k : params[i] = applied[i]
    <3>1. PICK p \in {0, 1} : Splits(params, applied, queue, p)
      BY <1>1 DEF IInv, OrderInv
    <3>2. Len(queue) \in Nat
      BY <2>1
    <3> QED
      BY <2>2, <2>3, <3>1, <3>2 DEF Splits
  <2>5. /\ SubSeq(applied, 1, k) = [i \in 1 .. k |-> applied[i]]
        /\ SubSeq(params, 1, k) = [i \in 1 .. k |-> params[i]]
    BY <2>1, <2>2, <2>3, <2>4
  <2> QED
    BY <2>2, <2>3, <2>4, <2>5 DEF IsPrefix
<1>2. IInv => InOrder
  BY <1>1 DEF InOrder
<1> QED
  BY <1>2, Invariance, PTL
=============================================================================
