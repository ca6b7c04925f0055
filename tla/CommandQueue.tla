---------------------------- MODULE CommandQueue ----------------------------
(***************************************************************************)
(* src/shared/command_queue.hpp: the lock-free ring that carries parameter *)
(* changes to the audio thread, at the granularity of its atomic accesses. *)
(*                                                                         *)
(* `head` and `tail` hold indices masked by CAP - 1.  The model counts the *)
(* stores made to them instead (pushes, pops) and derives the index, so    *)
(* that a stale acquire load can be told from a fresh one: a load returns  *)
(* the value of some store, never older than one the thread has seen.      *)
(***************************************************************************)
EXTENDS Naturals, Sequences

CONSTANTS
  CAP,        \* slots of the ring; 4096 in the code
  Commands,   \* the closures that may be pushed
  Empty,      \* a default-constructed or moved-from std::function
  MaxPushes   \* bound on the pushes that succeed (TLC only)

ASSUME CapAssumption == CAP \in Nat /\ CAP >= 2 /\ \E k \in 1 .. CAP : CAP = 2 ^ k
ASSUME EmptyAssumption == Empty \notin Commands
ASSUME MaxPushesAssumption == MaxPushes \in Nat

VARIABLES
  buf,       \* the slots
  pushes,    \* stores to head so far
  pops,      \* stores to tail so far
  headSeen,  \* the store to head the consumer last loaded
  tailSeen,  \* the store to tail the producer last loaded
  producer,  \* where push is: "idle", "write" or "publish"
  consumer,  \* where pop is: "idle", "move" or "publish"
  fn,        \* push's argument
  sent,      \* history: the commands pushed, in order
  got        \* history: the commands popped, in order

vars == <<buf, pushes, pops, headSeen, tailSeen, producer, consumer, fn, sent, got>>

Index(n) == n % CAP
head == Index(pushes)
tail == Index(pops)

Init ==
  /\ buf = [i \in 0 .. CAP - 1 |-> Empty]
  /\ pushes = 0 /\ pops = 0
  /\ headSeen = 0 /\ tailSeen = 0
  /\ producer = "idle" /\ consumer = "idle"
  /\ fn = Empty
  /\ sent = << >> /\ got = << >>

-----------------------------------------------------------------------------
(* push *)

\* Mutant: no test for a full ring.
RingFullNever(seen) == FALSE

\* n == tail: advancing head would make the ring look empty.
RingFull(seen) == Index(head + 1) = Index(seen)

\* The acquire load of tail and the test for a full ring.  A full ring makes
\* push return false, and leaves the producer where it was.
PushCheck(c, seen) ==
  /\ producer = "idle"
  /\ pushes < MaxPushes
  /\ seen \in tailSeen .. pops
  /\ tailSeen' = seen
  /\ IF RingFull(seen)
       THEN UNCHANGED <<producer, fn>>
       ELSE producer' = "write" /\ fn' = c
  /\ UNCHANGED <<buf, pushes, pops, headSeen, consumer, sent, got>>

\* buf[h] = fn
PushWrite ==
  /\ producer = "write"
  /\ buf' = [buf EXCEPT ![head] = fn]
  /\ producer' = "publish"
  /\ UNCHANGED <<pushes, pops, headSeen, tailSeen, consumer, fn, sent, got>>

\* The release store of head, which makes the slot visible.
PushPublish ==
  /\ producer = "publish"
  /\ pushes' = pushes + 1
  /\ producer' = "idle"
  /\ sent' = Append(sent, fn)
  /\ fn' = Empty
  /\ UNCHANGED <<buf, pops, headSeen, tailSeen, consumer, got>>

-----------------------------------------------------------------------------
(* pop *)

\* Mutants: no test for an empty ring; one that is off by one.
PopCheckNoTest(seen) ==
  /\ consumer = "idle"
  /\ seen \in headSeen .. pushes
  /\ headSeen' = seen
  /\ consumer' = "move"
  /\ UNCHANGED <<buf, pushes, pops, tailSeen, producer, fn, sent, got>>

PopCheckOffByOne(seen) ==
  /\ consumer = "idle"
  /\ seen \in headSeen .. pushes
  /\ headSeen' = seen
  /\ consumer' = IF Index(tail + 1) = Index(seen) THEN "idle" ELSE "move"
  /\ UNCHANGED <<buf, pushes, pops, tailSeen, producer, fn, sent, got>>

\* The acquire load of head and the test for an empty ring.
PopCheck(seen) ==
  /\ consumer = "idle"
  /\ seen \in headSeen .. pushes
  /\ headSeen' = seen
  /\ consumer' = IF tail = Index(seen) THEN "idle" ELSE "move"
  /\ UNCHANGED <<buf, pushes, pops, tailSeen, producer, fn, sent, got>>

\* Mutant: head loaded relaxed, so that the slot may not be visible yet.
PopMoveRelaxed ==
  /\ consumer = "move"
  /\ \E seen \in {buf[tail], Empty} : got' = Append(got, seen)
  /\ buf' = [buf EXCEPT ![tail] = Empty]
  /\ consumer' = "publish"
  /\ UNCHANGED <<pushes, pops, headSeen, tailSeen, producer, fn, sent>>

\* out = std::move(buf[t])
PopMove ==
  /\ consumer = "move"
  /\ got' = Append(got, buf[tail])
  /\ buf' = [buf EXCEPT ![tail] = Empty]
  /\ consumer' = "publish"
  /\ UNCHANGED <<pushes, pops, headSeen, tailSeen, producer, fn, sent>>

\* The release store of tail, which hands the slot back.
PopPublish ==
  /\ consumer = "publish"
  /\ pops' = pops + 1
  /\ consumer' = "idle"
  /\ UNCHANGED <<buf, pushes, headSeen, tailSeen, producer, fn, sent, got>>

-----------------------------------------------------------------------------
Push == PushWrite \/ PushPublish \/ \E c \in Commands, seen \in tailSeen .. pops : PushCheck(c, seen)
Pop  == PopMove \/ PopPublish \/ \E seen \in headSeen .. pushes : PopCheck(seen)
Next == Push \/ Pop

\* A store becomes visible in finite time, and a thread inside push or pop is
\* scheduled.  The audio thread pops again at every callback; nothing makes the
\* producer start another push.
PopFinds == PopCheck(pushes) /\ consumer' = "move"

Fairness ==
  /\ WF_vars(PushWrite \/ PushPublish)
  /\ WF_vars(PopFinds)
  /\ WF_vars(PopMove \/ PopPublish)

Spec == Init /\ [][Next]_vars /\ Fairness

-----------------------------------------------------------------------------
\* Types; only commands that were pushed are ever handed out.
TypeOK ==
  /\ buf \in [0 .. CAP - 1 -> Commands \union {Empty}]
  /\ pushes \in Nat /\ pops \in Nat
  /\ headSeen \in Nat /\ tailSeen \in Nat
  /\ producer \in {"idle", "write", "publish"}
  /\ consumer \in {"idle", "move", "publish"}
  /\ fn \in Commands \union {Empty}
  /\ sent \in Seq(Commands) /\ got \in Seq(Commands)

\* The slots the consumer may still read: published and not handed back.
Unread == {Index(n) : n \in pops .. pushes - 1}

\* Push and pop never touch the same slot: the slot push is about to write is
\* outside the unread ones, and the slot pop is about to move is one of them.
\* (command_queue.hpp: the acquire loads are what makes `buf` safe to share.)
NoSlotRace ==
  /\ producer = "write" => head \notin Unread
  /\ consumer = "move"  => tail \in Unread

Channel == INSTANCE Fifo WITH Capacity <- CAP - 1

\* The ring hands out what was pushed: every command once, in order, never
\* more than CAP - 1 of them waiting.
IsFifo == Channel!Spec

\* Every command pushed is popped, as long as the audio thread keeps calling
\* back.  (Engine::drain_commands pops until the ring is empty.)
EventuallyPopped == \A n \in 1 .. MaxPushes : (Len(sent) >= n) ~> (Len(got) >= n)
=============================================================================
