----------------------------- MODULE WorkerPool -----------------------------
(***************************************************************************)
(* What the supervisor of src/src/component_manager.rs promises about its   *)
(* worker processes, with no mutex, flag or task in sight: a component has  *)
(* at most one process, none starts while its model files are replaced, and *)
(* after close none runs or ever starts again.                              *)
(***************************************************************************)
CONSTANT Component

VARIABLES
    live,      \* the components that have a process
    frozen,    \* the components whose files are being replaced
    closed     \* shutdown has returned

vars == <<live, frozen, closed>>

TypeOK ==
    /\ live \subseteq Component
    /\ frozen \subseteq Component
    /\ closed \in BOOLEAN

Init ==
    /\ live = {}
    /\ frozen = {}
    /\ closed = FALSE

(* A process starts only where there is none and none is forbidden.         *)
Launch(c) ==
    /\ c \notin live \cup frozen
    /\ ~closed
    /\ live' = live \cup {c}
    /\ UNCHANGED <<frozen, closed>>

(* A process ends: by itself, on request or killed.                         *)
End(c) ==
    /\ c \in live
    /\ live' = live \ {c}
    /\ UNCHANGED <<frozen, closed>>

(* The files of idle components start and stop being replaced.              *)
Freeze(cs) ==
    /\ frozen = {}
    /\ cs \cap live = {}
    /\ frozen' = cs
    /\ UNCHANGED <<live, closed>>

Thaw ==
    /\ frozen' = {}
    /\ UNCHANGED <<live, closed>>

Close ==
    /\ live = {}
    /\ closed' = TRUE
    /\ UNCHANGED <<live, frozen>>

Next ==
    \/ \E c \in Component : Launch(c) \/ End(c)
    \/ \E cs \in SUBSET Component : Freeze(cs)
    \/ Thaw
    \/ Close

Spec == Init /\ [][Next]_vars
=============================================================================
