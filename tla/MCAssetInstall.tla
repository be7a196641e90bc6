--------------------------- MODULE MCAssetInstall ---------------------------
(***************************************************************************)
(* Small instances of AssetInstall for TLC.                                 *)
(***************************************************************************)
EXTENDS AssetInstall

(* The model directory of the TTS asset; its vocoder is a file.              *)
Model == {1}

Kinds == {"installs", "errors", "crashes"}

(* Installed again after anything has failed, and after the hub has died twice.   *)
Scenarios == {[b \in Kinds |-> IF b = "crashes" THEN 2 ELSE 3]}
=============================================================================
