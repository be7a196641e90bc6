-------------------------- MODULE MCMediaPipeline --------------------------
(***************************************************************************)
(* Small instances of MediaPipeline for TLC.                                *)
(***************************************************************************)
EXTENDS MediaPipeline

(* One viewer: the properties are about each viewer by itself.               *)
One == {"phone"}

Kinds == {"faults", "rolls", "switches"}

(* One of each, in any order.                                                *)
Scenarios == {[b \in Kinds |-> 1]}
=============================================================================
