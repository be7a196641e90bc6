--------------------------- MODULE MCCertificates ---------------------------
(***************************************************************************)
(* Small instances of Certificates for TLC.                                 *)
(***************************************************************************)
EXTENDS Certificates

(* A renewal and any two other things.                                      *)
Renewal   == [b \in Bound |-> IF b = "ages" THEN 1 ELSE 0]
Others    == Bound \ {"ages"}
Scenarios == {[Renewal EXCEPT ![a] = 1, ![b] = 1] : a, b \in Others}
=============================================================================
