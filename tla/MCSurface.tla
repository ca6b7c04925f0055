------------------------------ MODULE MCSurface ------------------------------
(* The controls of the longer performances that TLC checks: one toggle and   *)
(* the reset button, the fewest for a touch that returns at once with a      *)
(* reset ahead of its datagram, and another touch behind it.                 *)
EXTENDS Surface

MCFew == {c \in build : c.address = Top("softcut/reset") \/ (c.address = Param("play_flag") /\ c.args = <<0>>)}
=============================================================================
