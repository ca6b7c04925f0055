-------------------------------- MODULE Fifo --------------------------------
(***************************************************************************)
(* What shared/command_queue.hpp promises its users: a bounded first-in    *)
(* first-out channel from one producer to one consumer.  `sent` is every   *)
(* command whose push returned true, `got` every command a pop handed out, *)
(* both in order; the channel holds the difference.                        *)
(***************************************************************************)
EXTENDS Naturals, Sequences

CONSTANTS
  Commands,  \* the closures that may be queued
  Capacity   \* how many of them the channel holds at most

VARIABLES sent, got

Init ==
  /\ sent = << >>
  /\ got  = << >>

\* A push that returned true.
Push(c) ==
  /\ Len(sent) - Len(got) < Capacity
  /\ sent' = Append(sent, c)
  /\ UNCHANGED got

\* A pop that returned true hands out the oldest command not handed out yet.
Pop ==
  /\ Len(got) < Len(sent)
  /\ got' = Append(got, sent[Len(got) + 1])
  /\ UNCHANGED sent

Next == Pop \/ \E c \in Commands : Push(c)

Spec == Init /\ [][Next]_<<sent, got>>
=============================================================================
