------------------------- MODULE MCRateLimitManager -------------------------
(* Small policies for RateLimitManager. *)
EXTENDS RateLimitManager

\* Two items, as a real policy has: a short burst and a longer window.
TwoItems == {[limit |-> 2, period |-> 3], [limit |-> 3, period |-> 7]}
OneItem  == {[limit |-> 2, period |-> 4]}
=============================================================================
