------------------------------- MODULE MCPage -------------------------------
(***************************************************************************)
(* Small instances of Page for TLC.                                         *)
(***************************************************************************)
EXTENDS Page

Kinds == {"failures", "seeks", "refreshes", "selects", "dates", "plays", "photos", "deletes",
          "others", "views", "starts", "stops", "viewers"}

DaysOf   == [d \in Device |-> IF d = "a" THEN Date ELSE {CHOOSE x \in Date : TRUE}]
PhotosOf == [d \in Device |-> IF d = "a" THEN {"a1", "a2"} ELSE {"b1"}]

Nothing == [b \in Kinds |-> 0]

(* Recordings that are played one after the other, with a seek and failures;     *)
(* lists that change under them; photos that are deleted while another device    *)
(* is selected; live streams that are started, stopped and left.               *)
Player  == [Nothing EXCEPT !["plays"] = 2, !["seeks"] = 1, !["failures"] = 1]
Lists1  == [Nothing EXCEPT !["plays"] = 1, !["selects"] = 1, !["dates"] = 1, !["refreshes"] = 1]
Lists2  == [Nothing EXCEPT !["plays"] = 1, !["selects"] = 2, !["failures"] = 1]
Gone    == [Nothing EXCEPT !["plays"] = 1,  !["others"] = 1, !["refreshes"] = 1, !["selects"] = 1]
Album   == [Nothing EXCEPT !["photos"] = 2, !["deletes"] = 2, !["selects"] = 1]
Album2  == [Nothing EXCEPT !["photos"] = 1, !["deletes"] = 1, !["failures"] = 1, !["views"] = 1]
Streams == [Nothing EXCEPT !["views"] = 1, !["starts"] = 2, !["failures"] = 1]
Shared  == [Nothing EXCEPT !["starts"] = 2, !["stops"] = 1, !["viewers"] = 1]
Changes == [Nothing EXCEPT !["starts"] = 1, !["selects"] = 1, !["others"] = 1, !["refreshes"] = 1]

Scenarios == {Player, Lists1, Lists2, Gone, Album, Album2, Streams, Shared, Changes}

PageSessions == SessionsReleased(1..2)
=============================================================================
