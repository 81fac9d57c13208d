-------------------------------- MODULE MCShop --------------------------------
(* Two different shops, and the empty one. *)
EXTENDS Shop

Shops == {"empty", "a", "b"}
=============================================================================
