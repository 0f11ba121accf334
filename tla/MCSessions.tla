----------------------------- MODULE MCSessions -----------------------------
(* A small instance of Sessions for TLC. *)
EXTENDS Sessions

MCTokens == 1..2
MCLinks == 1..2
=============================================================================
