---------------------------- MODULE MCDeviceLinks ----------------------------
(***************************************************************************)
(* Small instances of DeviceLinks for TLC.                                  *)
(***************************************************************************)
EXTENDS DeviceLinks

Two == 1..2

(* The camera connects twice and its certificate is renewed, while the old     *)
(* connection breaks and a wait times out, or a bundle is refused and a check  *)
(* fails.                                                                   *)
Renewal   == [b \in Bound |-> IF b = "links" THEN 2 ELSE IF b = "renewals" THEN 1 ELSE 0]
Scenarios == {[Renewal EXCEPT !["breaks"] = 1, !["timeouts"] = 1],
              [Renewal EXCEPT !["refusals"] = 1, !["errors"] = 1]}
=============================================================================
