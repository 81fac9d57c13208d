------------------------------ MODULE MCStartup ------------------------------
(* Two of RePoE's files are enough for one to be there and one not. *)
EXTENDS Startup

TwoFiles == <<"mods", "bases">>
=============================================================================
