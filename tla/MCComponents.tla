---------------------------- MODULE MCComponents ----------------------------
(***************************************************************************)
(* Small instances of Components for TLC.                                   *)
(***************************************************************************)
EXTENDS Components, TLC

Voices == <<"tts", "voice">>

Handlers == Permutations(Client)

Nothing == [b \in Bound |-> 0]

(* Requests of two handlers race with the monitor and with each other, one of  *)
(* them dropped; and a spawn that fails.                                     *)
Requests == [Nothing EXCEPT !["requests"] = 3, !["crashes"] = 1, !["drops"] = 1]
Failure  == [Nothing EXCEPT !["requests"] = 2, !["crashes"] = 1, !["failures"] = 1]

(* An installation with a request that may be dropped, and the end of the    *)
(* program with either.                                                     *)
Installation == [Nothing EXCEPT !["requests"] = 1, !["drops"] = 1, !["installs"] = 1]
EndOfInstall == [Nothing EXCEPT !["installs"] = 1, !["crashes"] = 1, !["shutdowns"] = 1]
EndOfRequest == [Nothing EXCEPT !["requests"] = 1, !["drops"] = 1, !["shutdowns"] = 1]

(* A worker that crashes is to run again, and shutdown() is to end.         *)
OneCrash == [Nothing EXCEPT !["requests"] = 1, !["crashes"] = 1]

SafetyBudgets  == {Requests, Failure, Installation, EndOfInstall, EndOfRequest}
LiveBudgets    == {[OneCrash EXCEPT !["shutdowns"] = 1]}
DroppedBudgets == {[OneCrash EXCEPT !["drops"] = 1]}
=============================================================================
