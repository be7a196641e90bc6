---------------------------- MODULE AssetInstall ----------------------------
(***************************************************************************)
(* The installation of one asset (src/src/asset_manager.rs): a model        *)
(* directory, and for TTS also the vocoder file, each a target path with a  *)
(* backup path beside it and a staged path of a name nobody else uses.      *)
(*                                                                         *)
(* A file is moved by rename, which is atomic; a directory is removed entry *)
(* by entry, which is not.  Every such step is an action, so that the hub   *)
(* may die before and after it.  Nothing is recovered when the hub starts;   *)
(* the next installation does that (recover_backup), target by target.      *)
(*                                                                         *)
(* quiet stands for the supervisor (module Components): the readers of the  *)
(* files are stopped between quiesce_for_asset and resume_after_asset.      *)
(***************************************************************************)
EXTENDS Budget, Integers, FiniteSets

CONSTANTS
    Files,          \* how many targets the asset has, replaced in this order
    Directories     \* those of them that are directories

File == 1..Files

(* Bounded are the installations, the file operations and downloads that fail,   *)
(* and the times the hub dies.                                              *)
ASSUME AssetInstallAssumption ==
    /\ Files \in Nat \ {0}
    /\ Directories \subseteq File
    /\ {"installs", "errors", "crashes"} \subseteq Bound

(* What a path holds; a directory may be half removed.                      *)
Whole   == {"old", "new"}
Content == Whole \cup {"absent", "partial", "unverified"}
Stage   == {"idle", "verify", "download", "recover", "unpack", "quiesce", "backup", "place",
            "cleanup", "undo", "restore", "resume"}

VARIABLES
    target, backup, staged,    \* what the three paths of each file hold
    cache,      \* the downloaded artifacts: "absent", "bad" or "good"
    pc, at,     \* the stage of the installation and the file it is at
    moved,      \* the files whose target has been renamed to its backup
    quiet,      \* the readers of the files are stopped
    outcome,    \* what the last commit_replacements returned
    before,     \* history: the targets when it began
    had,        \* history: the files there has been a complete copy of
    damage      \* history: the errors that were ignored and the crashes, by their effect

vars == <<target, backup, staged, cache, pc, at, moved, quiet, outcome, before, had, damage,
          left>>
files   == <<target, backup, staged>>
history == <<before, had, damage>>
commit  == <<moved, quiet, outcome>>

(* An artifact that failed its verification stayed in the cache; an error of  *)
(* a rollback; such an error, or a crash, left half a directory at a target; *)
(* a crash ended a commit.                                                  *)
Damage == {"unverified", "rollback", "torn", "interrupted"}

Nothing == [f \in File |-> "absent"]

Init ==
    /\ target \in [File -> {"absent", "old"}]
    /\ backup = Nothing
    /\ staged = Nothing
    /\ cache \in [File -> {"absent", "bad"}]
    /\ pc = "idle"
    /\ at = 1
    /\ moved = {}
    /\ quiet = FALSE
    /\ outcome = "none"
    /\ before = target
    /\ had = {f \in File : target[f] = "old"}
    /\ damage = {}
    /\ left \in Budgets

Goto(stage, f) == pc' = stage /\ at' = f

-----------------------------------------------------------------------------
(* install() and the first part of install_inner: nothing is replaced yet.   *)

Install ==
    /\ pc = "idle"
    /\ Spend("installs")
    /\ Goto("verify", 1)
    /\ outcome' = "none"
    /\ UNCHANGED <<files, cache, moved, quiet, history>>

(* The ? operator before the commit: the staged files are dropped.           *)
GiveUp ==
    /\ Spend("errors")
    /\ staged' = Nothing
    /\ Goto("idle", 1)
    /\ UNCHANGED <<moved, quiet, outcome, history>>

(* verify_cached: an artifact that does not have its digest is removed; if    *)
(* that fails it stays, and download_artifact is not called for it.  The      *)
(* free space may not suffice.                                              *)
Verify ==
    LET bad == {f \in File : cache[f] = "bad"} IN
    /\ pc = "verify"
    /\ \/ /\ Goto("download", 1)
          /\ UNCHANGED <<staged, commit, before, had>>
          /\ \/ /\ cache' = [f \in File |-> IF f \in bad THEN "absent" ELSE cache[f]]
                /\ UNCHANGED <<damage, left>>
             \/ /\ bad # {}
                /\ Spend("errors")
                /\ damage' = damage \cup {"unverified"}
                /\ UNCHANGED cache
       \/ GiveUp /\ UNCHANGED cache
    /\ UNCHANGED <<target, backup>>

(* download_artifact: the digest is verified before the part file is renamed. *)
Download ==
    LET missing == {f \in File : cache[f] = "absent"} IN
    /\ pc = "download"
    /\ \/ /\ missing = {}
          /\ Goto("recover", 1)
          /\ UNCHANGED <<staged, cache, commit, history, left>>
       \/ /\ missing # {}
          /\ \E f \in missing : cache' = [cache EXCEPT ![f] = "good"]
          /\ UNCHANGED <<staged, pc, at, commit, history, left>>
       \/ missing # {} /\ GiveUp /\ UNCHANGED cache
    /\ UNCHANGED <<target, backup>>

(* recover_backup: a target that is there wins over its backup.              *)
Recovered(f) ==
    /\ target' = [target EXCEPT ![f] = IF @ = "absent" THEN backup[f] ELSE @]
    /\ backup' = [backup EXCEPT ![f] = "absent"]

Recover ==
    /\ pc = "recover"
    /\ \/ Recovered(at) /\ Goto("unpack", at) /\ UNCHANGED <<staged, commit, history, left>>
       \/ backup[at] # "absent" /\ GiveUp /\ UNCHANGED <<target, backup>>
    /\ UNCHANGED cache

(* The archive is unpacked, or the file copied, beside its target.           *)
Unpack ==
    /\ pc = "unpack"
    /\ \/ /\ staged' = [staged EXCEPT ![at] = IF cache[at] = "good" THEN "new" ELSE "unverified"]
          /\ IF at < Files THEN Goto("recover", at + 1) ELSE Goto("quiesce", 1)
          /\ UNCHANGED <<commit, history, left>>
       \/ GiveUp
    /\ UNCHANGED <<target, backup, cache>>

Quiesce ==
    /\ pc = "quiesce"
    /\ quiet' = TRUE
    /\ moved' = {}
    /\ before' = target
    /\ Goto("backup", 1)
    /\ UNCHANGED <<files, cache, outcome, had, damage, left>>

-----------------------------------------------------------------------------
(* commit_replacements.                                                     *)

(* Where a loop in reverse over what came before file f begins.              *)
Earlier(f) == f - 1

(* First loop: every target that exists is renamed to its backup.            *)
BackUp ==
    /\ pc = "backup"
    /\ \/ /\ target' = [target EXCEPT ![at] = "absent"]
          /\ backup' = [backup EXCEPT ![at] = IF target[at] = "absent" THEN @ ELSE target[at]]
          /\ moved' = IF target[at] = "absent" THEN moved ELSE moved \cup {at}
          /\ IF at < Files THEN Goto("backup", at + 1) ELSE Goto("place", 1)
          /\ UNCHANGED left
       \/ /\ target[at] # "absent"
          /\ Spend("errors")
          /\ Goto("restore", Earlier(at))
          /\ UNCHANGED <<target, backup, moved>>
    /\ UNCHANGED <<staged, cache, quiet, outcome, history>>

(* Second loop: every staged path is renamed to its target.                  *)
Place ==
    /\ pc = "place"
    /\ \/ /\ target' = [target EXCEPT ![at] = staged[at]]
          /\ staged' = [staged EXCEPT ![at] = "absent"]
          /\ IF at < Files THEN Goto("place", at + 1) ELSE Goto("cleanup", 1)
          /\ UNCHANGED left
       \/ /\ Spend("errors")
          /\ Goto("undo", Earlier(at))
          /\ UNCHANGED <<target, staged>>
    /\ UNCHANGED <<backup, cache, commit, history>>

(* Last loop: the backups are removed; an error is ignored.                  *)
Cleanup ==
    /\ pc = "cleanup"
    /\ \/ backup' = [backup EXCEPT ![at] = IF at \in moved THEN "absent" ELSE @] /\ UNCHANGED left
       \/ at \in moved /\ Spend("errors") /\ UNCHANGED backup
    /\ IF at < Files
       THEN Goto("cleanup", at + 1) /\ UNCHANGED <<outcome, had>>
       ELSE Goto("resume", 1) /\ outcome' = "committed" /\ had' = File
    /\ UNCHANGED <<target, staged, cache, moved, quiet, before, damage>>

(* What remove_path leaves of a target when it fails or is cut short.        *)
Remains(f) == {target[f]} \cup (IF f \in Directories /\ target[f] # "absent"
                                THEN {"partial"} ELSE {})
Damaged(f, remains) ==
    /\ target' = [target EXCEPT ![f] = remains]
    /\ damage' = damage \cup {"rollback"} \cup (IF remains = "partial" THEN {"torn"} ELSE {})

(* The rollback of the second loop removes what was placed, in reverse;       *)
(* errors are ignored.                                                      *)
Undo_Skips ==    \* fault: nothing is removed
    pc = "undo" /\ Goto("restore", Files) /\ UNCHANGED <<target, damage, left>>
Undo ==
    /\ pc = "undo"
    /\ \/ at = 0 /\ Goto("restore", Files) /\ UNCHANGED <<target, damage, left>>
       \/ /\ at > 0
          /\ Goto("undo", at - 1)
          /\ \/ target' = [target EXCEPT ![at] = "absent"] /\ UNCHANGED <<damage, left>>
             \/ /\ Spend("errors")
                /\ \E remains \in Remains(at) : Damaged(at, remains)

(* restore_backups, in reverse: what is at the target is removed and the      *)
(* backup renamed; errors are ignored.                                      *)
RestoreOne_Drops(f) ==    \* fault: the backup is removed as well
    target' = [target EXCEPT ![f] = "absent"] /\ backup' = [backup EXCEPT ![f] = "absent"]
RestoreOne(f) ==
    target' = [target EXCEPT ![f] = backup[f]] /\ backup' = [backup EXCEPT ![f] = "absent"]

RestoreFails(f) ==
    /\ Spend("errors")
    /\ \E remains \in Remains(f) \cup {"absent"} : Damaged(f, remains)
    /\ UNCHANGED backup

Restore ==
    /\ pc = "restore"
    /\ \/ /\ at = 0
          /\ Goto("resume", 1)
          /\ outcome' = "rolled back"
          /\ UNCHANGED <<target, backup, damage, left>>
       \/ /\ at > 0
          /\ Goto("restore", at - 1)
          /\ UNCHANGED outcome
          /\ \/ at \notin moved /\ UNCHANGED <<target, backup, damage, left>>
             \/ at \in moved /\ RestoreOne(at) /\ UNCHANGED <<damage, left>>
             \/ at \in moved /\ RestoreFails(at)

Rollback ==
    /\ \/ Undo /\ UNCHANGED <<backup, outcome>>
       \/ Restore
    /\ UNCHANGED <<staged, cache, moved, quiet, before, had>>

(* The staged paths have been dropped by now; the readers start again.       *)
Resume ==
    /\ pc = "resume"
    /\ staged' = Nothing
    /\ quiet' = FALSE
    /\ Goto("idle", 1)
    /\ UNCHANGED <<target, backup, cache, moved, outcome, history, left>>

-----------------------------------------------------------------------------
(* Between the first target that is moved and the last backup that is removed.   *)
Interrupted ==
    IF pc \in {"backup", "place", "cleanup", "undo", "restore"} THEN {"interrupted"} ELSE {}

(* The hub dies and starts again, with the workers; staged paths of the old   *)
(* name are never looked at again.  A removal may have been under way.       *)
Crash ==
    /\ Spend("crashes")
    /\ staged' = Nothing
    /\ quiet' = FALSE
    /\ moved' = {}
    /\ outcome' = "none"
    /\ Goto("idle", 1)
    /\ \/ damage' = damage \cup Interrupted /\ UNCHANGED target
       \/ /\ pc \in {"undo", "restore"} /\ at \in Directories
          /\ pc = "restore" => at \in moved
          /\ target[at] # "absent"
          /\ target' = [target EXCEPT ![at] = "partial"]
          /\ damage' = damage \cup Interrupted \cup {"torn"}
    /\ UNCHANGED <<backup, cache, before, had>>

Step ==
    \/ Verify \/ Download \/ Recover \/ Unpack \/ Quiesce
    \/ BackUp \/ Place \/ Cleanup \/ Rollback \/ Resume

(* Nothing is going on; this is where a behaviour of bounded length ends.    *)
Rest == pc = "idle" /\ UNCHANGED vars

Next == Install \/ Step \/ Crash \/ Rest

Spec == Init /\ [][Next]_vars

-----------------------------------------------------------------------------
(* Properties.                                                              *)

(* The shape of the installation's state, for proofs.                        *)
TypeOK ==
    /\ target \in [File -> Content]
    /\ backup \in [File -> Content]
    /\ staged \in [File -> {"absent", "new", "unverified"}]
    /\ cache \in [File -> {"absent", "bad", "good"}]
    /\ pc \in Stage
    /\ at \in 0..Files
    /\ moved \subseteq File
    /\ quiet \in BOOLEAN
    /\ outcome \in {"none", "committed", "rolled back"}
    /\ before \in [File -> Content]
    /\ had \subseteq File
    /\ damage \subseteq Damage
    /\ left \in [Bound -> Nat]

(* An installation never destroys the only copy of a model or vocoder,       *)
(* whichever operation fails and wherever the hub dies: it is at the target  *)
(* or at the backup.  There are two exceptions: a rollback that left half a  *)
(* directory at the target, which recover_backup takes for the real one, and *)
(* an artifact that was not verified.                                       *)
NothingLost ==
    damage \cap {"torn", "unverified"} = {} =>
        \A f \in had : target[f] \in Whole \/ backup[f] \in Whole

(* commit_replacements replaces all targets, by what was verified, or none    *)
(* of them, unless its rollback failed                                      *)
(* (rolls_back_all_targets_when_commit_fails tests one failure).             *)
WholeOrNothing ==
    /\ outcome = "committed" /\ "unverified" \notin damage => \A f \in File : target[f] = "new"
    /\ outcome = "rolled back" /\ "rollback" \notin damage => target = before

(* asset_installed: every target is there.                                  *)
Installed == \A f \in File : target[f] \in Whole \cup {"unverified"}

(* Whenever the workers may run and the asset counts as installed, its files *)
(* belong together (README.md:391 calls the replacement atomic).            *)
OneVersion == ~quiet /\ Installed => \A f, g \in File : target[f] = target[g]

(* A replacement is whole or did not happen, and the workers see one version as   *)
(* long as no crash ends a commit and no error is ignored (commit_replacements).  *)
AtomicReplacement == WholeOrNothing /\ (damage = {} => OneVersion)
=============================================================================
