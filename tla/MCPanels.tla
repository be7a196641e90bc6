------------------------------ MODULE MCPanels ------------------------------
(***************************************************************************)
(* Small instances of Panels for TLC.                                       *)
(***************************************************************************)
EXTENDS Panels

All  == {"settings", "voice", "studio", "qq", "ddns", "tv", "proxy"}

Two == 1..2

Kinds == {"edits", "others", "failures", "operations", "reloads"}

(* The user edits twice while the document changes elsewhere and a request is   *)
(* lost; with either a reload or another operation.                         *)
Session   == [b \in Kinds |-> CASE b = "edits" -> 2
                                [] b \in {"others", "failures"} -> 1 [] OTHER -> 0]
Scenarios == {[Session EXCEPT !["reloads"] = 1], [Session EXCEPT !["operations"] = 1]}
=============================================================================
