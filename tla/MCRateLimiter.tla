---------------------------- MODULE MCRateLimiter ----------------------------
(* A policy whose limit is never reached, shared by two endpoints. *)
EXTENDS RateLimiter

HighItem == {[limit |-> 9, period |-> 1]}
=============================================================================
