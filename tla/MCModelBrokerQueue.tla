------------------------- MODULE MCModelBrokerQueue -------------------------
(***************************************************************************)
(* Instances of ModelBrokerQueue for TLC: three completions of one session *)
(* in a spool that takes two, answers of two chunks.                       *)
(***************************************************************************)
EXTENDS ModelBrokerQueue

MCIds == 1 .. 3
=============================================================================
