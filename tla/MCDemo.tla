------------------------------- MODULE MCDemo -------------------------------
(***************************************************************************)
(* The shipped demo for TLC: the real seed and the real limits, one HTTP   *)
(* thread, whose clients know the commands of the seed.                    *)
(***************************************************************************)
EXTENDS Demo

MCSeed == {Seed[i] : i \in DOMAIN Seed}

=============================================================================
