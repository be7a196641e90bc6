---------------------------- MODULE StorageProofs ----------------------------
(***************************************************************************)
(* Proofs about what the hub keeps on its disk.  AssetInstall: no installation  *)
(* loses a model there has been, and a replacement is whole or did not happen,  *)
(* wherever operations fail and the hub dies.  MediaPipeline: one FFmpeg runs    *)
(* at most, fragments stay with their init, and recordings are finished, for    *)
(* any number of viewers, muxers, faults and segments.                         *)
(***************************************************************************)
EXTENDS AssetInstall, MediaPipeline, SequenceTheorems, TLAPS

USE BudgetAssumption, AssetInstallAssumption, MediaAssumption

LEMMA Bounded ==
    ASSUME left \in [Bound -> Nat], NEW b \in Bound, Spend(b) PROVE left' \in [Bound -> Nat]
<1>1. left[b] \in Nat /\ left[b] > 0 /\ left' = [left EXCEPT ![b] = left[b] - 1]
  BY DEF Spend
<1>. QED
  BY <1>1

-----------------------------------------------------------------------------
(***************************************************************************)
(* Installations.  Where one is, and what it knows of its files there: an    *)
(* artifact was verified unless an error of that was ignored; the files before *)
(* the one it is at have been dealt with, and those after it not yet; and what  *)
(* was moved to a backup is what was there before.                           *)
(***************************************************************************)
Commits   == {"backup", "place", "cleanup", "undo", "restore", "resume"}
Reverts   == {"undo", "restore"}

Placed ==
    /\ pc \notin Reverts => at \in File
    /\ quiet <=> pc \in Commits
    /\ outcome # "none" => pc \in {"resume", "idle"}

Verified ==
    "unverified" \notin damage =>
        /\ \A f \in File : "unverified" \notin {target[f], backup[f], staged[f]}
        /\ pc = "download" => \A f \in File : cache[f] # "bad"
        /\ pc \in {"recover", "unpack"} =>
              \A f \in File : cache[f] = "good" /\ (f < at => staged[f] = "new")
        /\ pc \in {"quiesce", "backup"} => \A f \in File : staged[f] = "new"
        /\ pc = "place" => \A f \in File : IF f < at THEN target[f] = "new" ELSE staged[f] = "new"
        /\ pc = "cleanup" \/ outcome = "committed" => \A f \in File : target[f] = "new"

Entire == "torn" \notin damage => \A f \in File : "partial" \notin {target[f], backup[f]}

(* The backup of file f is what its target was, which has been moved there.     *)
BackedUp(f) ==
    IF before[f] = "absent" THEN f \notin moved /\ backup[f] = "absent"
                            ELSE f \in moved /\ backup[f] = before[f]

(* The rollback has done its work on the files after the one it is at.           *)
RolledBack ==
    "rollback" \notin damage =>
        /\ pc = "undo" => \A f \in File : f > at => target[f] = "absent"
        /\ pc = "restore" => \A f \in File : IF f > at THEN target[f] = before[f] /\ backup[f] = "absent"
                                                      ELSE target[f] = "absent"
        /\ outcome = "rolled back" => target = before

Backups ==
    /\ pc = "recover" => \A f \in File : f < at => backup[f] = "absent"
    /\ pc = "unpack" => \A f \in File : f <= at => backup[f] = "absent"
    /\ pc = "quiesce" => \A f \in File : backup[f] = "absent"
    /\ pc = "backup" => \A f \in File :
          IF f < at THEN BackedUp(f) /\ target[f] = "absent"
                    ELSE f \notin moved /\ backup[f] = "absent" /\ target[f] = before[f]
    /\ pc = "place" => \A f \in File : BackedUp(f) /\ (f >= at => target[f] = "absent")
    /\ pc = "undo" => \A f \in File : BackedUp(f)
    /\ pc = "restore" => \A f \in File : f <= at => BackedUp(f)

(* A copy of what was there is kept.                                         *)
Copied ==
    damage \cap {"torn", "unverified"} = {} =>
        /\ \A f \in had : target[f] \in Whole \/ backup[f] \in Whole
        /\ pc \in {"backup", "place", "undo", "restore"} => \A f \in had : before[f] \in Whole

(* Without a crash, the targets change together.                              *)
Uniform(t) == (\A f \in File : t[f] \in Whole) => \A f, g \in File : t[f] = t[g]

Together ==
    damage = {} =>
        /\ pc \notin Commits \ {"resume"} =>
              Uniform(target) /\ \A f \in File : backup[f] # "absent" => target[f] # "absent"
        /\ pc \in {"backup", "place", "undo", "restore"} => Uniform(before)

InstallationInv ==
    TypeOK /\ Placed /\ Verified /\ Entire /\ RolledBack /\ Backups /\ Copied /\ Together

LEMMA Spent == ASSUME TypeOK, NEW b \in Bound, Spend(b) PROVE left' \in [Bound -> Nat]
BY Bounded DEF TypeOK

LEMMA InstallKept == ASSUME InstallationInv, Install PROVE InstallationInv'
<1>1. /\ UNCHANGED <<target, backup, staged, cache, moved, quiet, before, had, damage>>
      /\ pc = "idle" /\ pc' = "verify" /\ at' = 1 /\ outcome' = "none"
  BY DEF Install, Goto, files, history
<1>2. left' \in [Bound -> Nat]
  BY Spent DEF Install, InstallationInv
<1>3. 1 \in File /\ 1 \in 0..Files
  BY DEF File
<1>4. TypeOK'
  BY <1>1, <1>2, <1>3 DEF InstallationInv, TypeOK, Stage
<1>5. Placed' /\ Verified' /\ Entire'
  BY <1>1, <1>3 DEF InstallationInv, Placed, Verified, Entire, Commits, Reverts
<1>6. Backups' /\ RolledBack'
  BY <1>1 DEF Backups, RolledBack
<1>7. Copied' /\ Together'
  BY <1>1, <1>2 DEF InstallationInv, Copied, Together, Commits, Uniform
<1>. QED
  BY <1>4, <1>5, <1>6, <1>7 DEF InstallationInv

(* Before the commit an installation that gives up drops what it has staged.      *)
LEMMA GiveUpKept ==
    ASSUME InstallationInv, pc \in {"verify", "download", "recover", "unpack"}, GiveUp,
           UNCHANGED <<target, backup, cache>>
    PROVE  InstallationInv'
<1>1. /\ UNCHANGED <<target, backup, cache, moved, quiet, outcome, before, had, damage>>
      /\ pc' = "idle" /\ at' = 1 /\ staged' = Nothing
  BY DEF GiveUp, Goto, history
<1>2. left' \in [Bound -> Nat]
  BY Spent DEF GiveUp, InstallationInv
<1>3. 1 \in File /\ 1 \in 0..Files
  BY DEF File
<1>4. TypeOK'
  BY <1>1, <1>2, <1>3 DEF InstallationInv, TypeOK, Stage, Nothing
<1>5. Placed' /\ Verified' /\ Entire'
  BY <1>1, <1>3 DEF InstallationInv, Placed, Verified, Entire, Commits, Reverts, Nothing
<1>6. Backups' /\ RolledBack'
  BY <1>1 DEF InstallationInv, Placed, Backups, RolledBack
<1>7. Copied' /\ Together'
  BY <1>1, <1>2 DEF InstallationInv, Copied, Together, Commits, Uniform
<1>. QED
  BY <1>4, <1>5, <1>6, <1>7 DEF InstallationInv

LEMMA VerifyKept == ASSUME InstallationInv, Verify PROVE InstallationInv'
<1>. DEFINE bad == {f \in File : cache[f] = "bad"}
            c   == [f \in File |-> IF f \in bad THEN "absent" ELSE cache[f]]
<1>1. CASE GiveUp /\ UNCHANGED cache
  BY <1>1, GiveUpKept DEF Verify
<1>2. CASE Goto("download", 1)
  <2>1. /\ UNCHANGED <<target, backup, staged, moved, quiet, outcome, before, had>>
        /\ pc = "verify" /\ pc' = "download" /\ at' = 1
        /\ \/ cache' = c /\ UNCHANGED <<damage, left>>
           \/ cache' = cache /\ damage' = damage \cup {"unverified"} /\ Spend("errors")
    BY <1>2, Zenon DEF Verify, Goto, GiveUp, commit
  <2>2. left' \in [Bound -> Nat]
    BY <2>1, Spent DEF InstallationInv, TypeOK
  <2>3. 1 \in File /\ 1 \in 0..Files
    BY DEF File
  <2>4. cache' \in [File -> {"absent", "bad", "good"}] /\ damage' \subseteq Damage
    BY <2>1 DEF InstallationInv, TypeOK, Damage
  <2>5. "unverified" \notin damage' => \A f \in File : cache'[f] # "bad"
    BY <2>1 
  <2>6. damage \subseteq damage' /\ \A x \in {"torn", "rollback"} : x \in damage' => x \in damage
    BY <2>1
  <2>. HIDE DEF c, bad
  <2>7. TypeOK'
    BY <2>1, <2>2, <2>3, <2>4 DEF InstallationInv, TypeOK, Stage
  <2>8. Placed' /\ Verified' /\ Entire'
    BY <2>1, <2>3, <2>5, <2>6 DEF InstallationInv, Placed, Verified, Entire, Commits, Reverts
  <2>9. Backups' /\ RolledBack'
    BY <2>1, <2>6 DEF InstallationInv, Placed, Backups, RolledBack
  <2>10. Copied' /\ Together'
    BY <2>1, <2>2, <2>6 DEF InstallationInv, Copied, Together, Commits, Uniform
  <2>. QED
    BY <2>7, <2>8, <2>9, <2>10 DEF InstallationInv
<1>. QED
  BY <1>1, <1>2 DEF Verify

LEMMA DownloadKept == ASSUME InstallationInv, Download PROVE InstallationInv'
<1>. DEFINE missing == {f \in File : cache[f] = "absent"}
<1>1. CASE GiveUp /\ UNCHANGED cache
  BY <1>1, GiveUpKept DEF Download
<1>2. CASE ~(GiveUp /\ UNCHANGED cache)
  <2>1. /\ UNCHANGED <<target, backup, staged, moved, quiet, outcome, before, had, damage, left>>
        /\ pc = "download"
        /\ \/ missing = {} /\ pc' = "recover" /\ at' = 1 /\ UNCHANGED cache
           \/ /\ pc' = pc /\ at' = at
              /\ \E f \in missing : cache' = [cache EXCEPT ![f] = "good"]
    BY <1>2, Zenon DEF Download, Goto, commit, history
  <2>2. 1 \in File /\ 1 \in 0..Files
    BY DEF File
  <2>3. cache' \in [File -> {"absent", "bad", "good"}]
    <3>1. cache \in [File -> {"absent", "bad", "good"}]
      BY DEF InstallationInv, TypeOK
    <3>2. ASSUME NEW f \in File, cache' = [cache EXCEPT ![f] = "good"]
          PROVE  cache' \in [File -> {"absent", "bad", "good"}]
      BY <3>1, <3>2
    <3>3. UNCHANGED cache \/ \E f \in File : cache' = [cache EXCEPT ![f] = "good"]
      BY <2>1
    <3>. QED
      BY <3>1, <3>2, <3>3
  <2>4. "unverified" \notin damage =>
           /\ \A f \in File : cache'[f] # "bad"
           /\ pc' = "recover" => \A f \in File : cache'[f] = "good"
    <3>. SUFFICES ASSUME "unverified" \notin damage, NEW f \in File
                  PROVE  cache'[f] # "bad" /\ (pc' = "recover" => cache'[f] = "good")
      OBVIOUS
    <3>1. cache \in [File -> {"absent", "bad", "good"}] /\ cache[f] # "bad"
      BY <2>1 DEF InstallationInv, TypeOK, Verified
    <3>2. CASE missing = {} /\ pc' = "recover" /\ UNCHANGED cache
      <4>1. f \notin missing
        BY <3>2
      <4>2. cache[f] # "absent"
        BY <4>1
      <4>. QED
        BY <3>1, <3>2, <4>2
    <3>3. ASSUME NEW g \in File, cache' = [cache EXCEPT ![g] = "good"], pc' = pc
          PROVE  cache'[f] # "bad" /\ (pc' = "recover" => cache'[f] = "good")
      BY <2>1, <3>1, <3>3
    <3>4. \/ missing = {} /\ pc' = "recover" /\ UNCHANGED cache
          \/ pc' = pc /\ \E g \in File : cache' = [cache EXCEPT ![g] = "good"]
      BY <2>1
    <3>. QED
      BY <3>2, <3>3, <3>4
  <2>. HIDE DEF missing
  <2>5. TypeOK'
    BY <2>1, <2>2, <2>3 DEF InstallationInv, TypeOK, Stage
  <2>6. Placed' /\ Verified' /\ Entire'
    <3>1. Placed' /\ Entire'
      BY <2>1, <2>2 DEF InstallationInv, Placed, Entire, Commits, Reverts
    <3>2. \A f \in File : ~(f < 1)
      BY DEF File
    <3>3. Verified'
      BY <2>1, <2>4, <3>2 DEF InstallationInv, Verified
    <3>. QED
      BY <3>1, <3>3
  <2>7. Backups' /\ RolledBack'
    <3>1. \A f \in File : ~(f < 1)
      BY DEF File
    <3>. QED
      BY <2>1, <3>1 DEF InstallationInv, Placed, Backups, RolledBack
  <2>8. Copied' /\ Together'
    BY <2>1 DEF InstallationInv, Copied, Together, Commits, Uniform
  <2>. QED
    BY <2>5, <2>6, <2>7, <2>8 DEF InstallationInv
<1>. QED
  BY <1>1, <1>2

(* The file after the one it is at, if there is one.                             *)
LEMMA Neighbours ==
    ASSUME TypeOK, at \in File
    PROVE  /\ at < Files => at + 1 \in File
           /\ \A f \in File : /\ f \in Nat /\ f <= Files /\ ~(f < 1) /\ f # 0
                              /\ f < at + 1 <=> f < at \/ f = at
                              /\ f <= at <=> f < at \/ f = at
                              /\ f >= at + 1 <=> f >= at /\ f # at
                              /\ f > at - 1 <=> f > at \/ f = at
                              /\ f <= at - 1 <=> f < at
                              /\ f >= at <=> ~(f < at)
                              /\ f > at <=> ~(f <= at)
           /\ at \in Nat /\ at - 1 \in 0..Files
<1>1. Files \in Nat /\ at \in Nat /\ 1 <= at /\ at <= Files
  BY DEF File
<1>2. at < Files => at + 1 \in File
  BY <1>1 DEF File
<1>3. at - 1 \in 0..Files
  BY <1>1
<1>4. ASSUME NEW f \in File
      PROVE  /\ f \in Nat /\ f <= Files /\ ~(f < 1) /\ f # 0
             /\ f < at + 1 <=> f < at \/ f = at
             /\ f <= at <=> f < at \/ f = at
             /\ f >= at + 1 <=> f >= at /\ f # at
             /\ f > at - 1 <=> f > at \/ f = at
             /\ f <= at - 1 <=> f < at
             /\ f >= at <=> ~(f < at)
             /\ f > at <=> ~(f <= at)
  <2>1. f \in Nat /\ 1 <= f /\ f <= Files
    BY <1>1 DEF File
  <2>. QED
    BY <1>1, <2>1
<1>. QED
  BY <1>1, <1>2, <1>3, <1>4

LEMMA RecoverKept == ASSUME InstallationInv, Recover PROVE InstallationInv'
<1>1. CASE UNCHANGED <<target, backup>> /\ GiveUp
  BY <1>1, GiveUpKept DEF Recover
<1>2. CASE Recovered(at) /\ Goto("unpack", at) /\ UNCHANGED <<staged, commit, history, left>>
  <2>1. /\ UNCHANGED <<staged, cache, moved, quiet, outcome, before, had, damage, left>>
        /\ pc = "recover" /\ pc' = "unpack" /\ at' = at
    BY <1>2 DEF Recover, Goto, commit, history
  <2>2. /\ TypeOK /\ at \in File
        /\ target \in [File -> Content] /\ backup \in [File -> Content]
        /\ outcome = "none" /\ ~quiet
    BY <2>1 DEF InstallationInv, TypeOK, Placed, Reverts, Commits
  <2>3. /\ target' \in [File -> Content] /\ backup' \in [File -> Content]
        /\ target'[at] = IF target[at] = "absent" THEN backup[at] ELSE target[at]
        /\ backup'[at] = "absent"
        /\ \A f \in File \ {at} : target'[f] = target[f] /\ backup'[f] = backup[f]
    BY <1>2, <2>2 DEF Recovered, Content
  <2>4. TypeOK'
    BY <2>1, <2>3 DEF InstallationInv, TypeOK, Stage
  <2>5. Placed' /\ Verified' /\ Entire'
    BY <2>1, <2>2, <2>3 DEF InstallationInv, Placed, Verified, Entire, Commits, Reverts
  <2>6. Backups' /\ RolledBack'
    BY <2>1, <2>2, <2>3, Neighbours DEF InstallationInv, Backups, RolledBack
  <2>7. Copied'
    BY <2>1, <2>2, <2>3 DEF InstallationInv, TypeOK, Copied, Verified, Entire, Content, Whole
  <2>8. Together'
    <3>. SUFFICES ASSUME damage = {}
                  PROVE  /\ Uniform(target')
                         /\ \A f \in File : backup'[f] # "absent" => target'[f] # "absent"
      BY <2>1 DEF Together
    <3>1. Uniform(target) /\ \A f \in File : backup[f] # "absent" => target[f] # "absent"
      BY <2>1 DEF InstallationInv, Together, Commits
    <3>2. \A f \in File : target'[f] = target[f]
      BY <2>3, <3>1
    <3>. QED
      BY <2>3, <3>1, <3>2 DEF Uniform
  <2>. QED
    BY <2>4, <2>5, <2>6, <2>7, <2>8 DEF InstallationInv
<1>. QED
  BY <1>1, <1>2 DEF Recover

LEMMA UnpackKept == ASSUME InstallationInv, Unpack PROVE InstallationInv'
<1>. DEFINE content == IF cache[at] = "good" THEN "new" ELSE "unverified"
<1>1. CASE GiveUp
  BY <1>1, GiveUpKept DEF Unpack
<1>2. CASE /\ staged' = [staged EXCEPT ![at] = content]
           /\ IF at < Files THEN Goto("recover", at + 1) ELSE Goto("quiesce", 1)
           /\ UNCHANGED <<commit, history, left>>
  <2>1. /\ UNCHANGED <<target, backup, cache, moved, quiet, outcome, before, had, damage, left>>
        /\ pc = "unpack" /\ IF at < Files THEN pc' = "recover" /\ at' = at + 1
                                         ELSE pc' = "quiesce" /\ at' = 1
    BY <1>2 DEF Unpack, Goto, commit, history
  <2>2. /\ TypeOK /\ at \in File /\ 1 \in File /\ at' \in File /\ at' \in 0..Files
        /\ staged \in [File -> {"absent", "new", "unverified"}]
        /\ outcome = "none" /\ ~quiet
    <3>1. /\ TypeOK /\ at \in File /\ outcome = "none" /\ ~quiet
          /\ staged \in [File -> {"absent", "new", "unverified"}]
      BY <2>1 DEF InstallationInv, TypeOK, Placed, Reverts, Commits
    <3>2. at < Files => at + 1 \in File
      BY <3>1, Neighbours
    <3>3. 1 \in File /\ \A f \in File : f \in 0..Files
      BY DEF File
    <3>. QED
      BY <2>1, <3>1, <3>2, <3>3
  <2>3. /\ staged' \in [File -> {"absent", "new", "unverified"}]
        /\ staged'[at] = content /\ \A f \in File \ {at} : staged'[f] = staged[f]
    BY <1>2, <2>2
  <2>4. TypeOK'
    BY <2>1, <2>2, <2>3 DEF InstallationInv, TypeOK, Stage
  <2>5. Placed' /\ Entire'
    BY <2>1, <2>2, <2>3 DEF InstallationInv, Placed, Entire, Commits, Reverts
  <2>6. Verified'
    <3>. SUFFICES ASSUME "unverified" \notin damage, NEW f \in File
                  PROVE  /\ "unverified" \notin {target[f], backup[f], staged'[f]}
                         /\ cache[f] = "good"
                         /\ f < at' \/ pc' = "quiesce" => staged'[f] = "new"
      BY <2>1, <2>2 DEF Verified
    <3>1. /\ "unverified" \notin {target[f], backup[f], staged[f]}
          /\ cache[f] = "good" /\ cache[at] = "good" /\ (f < at => staged[f] = "new")
      BY <2>1, <2>2 DEF InstallationInv, Verified
    <3>2. staged'[f] = IF f = at THEN "new" ELSE staged[f]
      BY <2>3, <3>1
    <3>3. f < at' \/ pc' = "quiesce" => f < at \/ f = at
      BY <2>1, <2>2, Neighbours DEF File
    <3>. QED
      BY <3>1, <3>2, <3>3
  <2>7. Backups' /\ RolledBack'
    <3>1. \A f \in File : f < at' \/ pc' = "quiesce" => f <= at
      BY <2>1, <2>2, Neighbours DEF File
    <3>. QED
      BY <2>1, <2>2, <3>1 DEF InstallationInv, Backups, RolledBack
  <2>8. Copied' /\ Together'
    BY <2>1 DEF InstallationInv, Copied, Together, Commits, Uniform
  <2>. QED
    BY <2>4, <2>5, <2>6, <2>7, <2>8 DEF InstallationInv
<1>. QED
  BY <1>1, <1>2 DEF Unpack

LEMMA QuiesceKept == ASSUME InstallationInv, Quiesce PROVE InstallationInv'
<1>1. /\ UNCHANGED <<target, backup, staged, cache, outcome, had, damage, left>>
      /\ pc = "quiesce" /\ pc' = "backup" /\ at' = 1 /\ quiet' = TRUE /\ moved' = {}
      /\ before' = target
  BY DEF Quiesce, Goto, files
<1>2. 1 \in File /\ 1 \in 0..Files /\ \A f \in File : ~(f < 1)
  BY DEF File
<1>3. TypeOK /\ outcome = "none" /\ target \in [File -> Content]
  BY <1>1 DEF InstallationInv, TypeOK, Placed
<1>4. TypeOK'
  BY <1>1, <1>2 DEF InstallationInv, TypeOK, Stage
<1>5. Placed' /\ Entire' /\ Verified'
  BY <1>1, <1>2, <1>3 DEF InstallationInv, Placed, Entire, Verified, Commits, Reverts
<1>6. Backups' /\ RolledBack'
  BY <1>1, <1>2, <1>3 DEF InstallationInv, Backups, RolledBack
<1>7. Copied'
  BY <1>1, <1>3 DEF InstallationInv, Copied, Backups, TypeOK, Whole
<1>8. Together'
  BY <1>1 DEF InstallationInv, Together, Commits, Uniform
<1>. QED
  BY <1>4, <1>5, <1>6, <1>7, <1>8 DEF InstallationInv

(* Where it is in a commit.                                                       *)
LEMMA InCommit ==
    ASSUME InstallationInv, pc \in {"backup", "place", "cleanup"}
    PROVE  /\ TypeOK /\ at \in File /\ quiet /\ outcome = "none"
           /\ target \in [File -> Content] /\ backup \in [File -> Content]
           /\ staged \in [File -> {"absent", "new", "unverified"}]
           /\ moved \subseteq File /\ left \in [Bound -> Nat]
           /\ 1 \in File /\ Files \in File
<1>1. pc \notin Reverts /\ pc \in Commits /\ pc \notin {"resume", "idle"}
  BY DEF Reverts, Commits
<1>2. outcome = "none" /\ at \in File /\ quiet
  BY <1>1, Zenon DEF InstallationInv, Placed
<1>3. 1 \in File /\ Files \in File
  BY DEF File
<1>. QED
  BY <1>2, <1>3 DEF InstallationInv, TypeOK

LEMMA NextFile ==
    ASSUME TypeOK, at \in File, NEW a, NEW b, IF at < Files THEN Goto(a, at + 1) ELSE Goto(b, 1)
    PROVE  /\ at' \in File /\ at' \in 0..Files
           /\ \/ pc' = a /\ at' = at + 1 /\ \A f \in File : f < at' <=> f < at \/ f = at
              \/ pc' = b /\ at' = 1 /\ \A f \in File : f < at \/ f = at
<1>1. 1 \in File /\ \A f \in File : f \in 0..Files /\ f \in Nat /\ f <= Files
  BY DEF File
<1>2. CASE at < Files
  BY <1>1, <1>2, Neighbours DEF Goto
<1>3. CASE ~(at < Files)
  <2>1. at \in Nat /\ at = Files
    BY <1>1, <1>3
  <2>. QED
    BY <1>1, <1>3, <2>1 DEF Goto
<1>. QED
  BY <1>2, <1>3

LEMMA BackUpKept == ASSUME InstallationInv, BackUp PROVE InstallationInv'
<1>1. /\ UNCHANGED <<staged, cache, quiet, outcome, before, had, damage>> /\ pc = "backup"
      /\ before \in [File -> Content]
  BY DEF BackUp, history, InstallationInv, TypeOK
<1>2. /\ TypeOK /\ at \in File /\ quiet /\ outcome = "none"
      /\ target \in [File -> Content] /\ backup \in [File -> Content]
      /\ moved \subseteq File /\ left \in [Bound -> Nat]
  BY <1>1, InCommit
<1>3. CASE /\ target' = [target EXCEPT ![at] = "absent"]
           /\ backup' = [backup EXCEPT ![at] = IF target[at] = "absent" THEN @ ELSE target[at]]
           /\ moved' = IF target[at] = "absent" THEN moved ELSE moved \cup {at}
           /\ IF at < Files THEN Goto("backup", at + 1) ELSE Goto("place", 1)
           /\ UNCHANGED left
  <2>1. /\ at' \in File /\ at' \in 0..Files
        /\ \/ pc' = "backup" /\ at' = at + 1 /\ \A f \in File : f < at' <=> f < at \/ f = at
           \/ pc' = "place" /\ at' = 1 /\ \A f \in File : f < at \/ f = at
    BY <1>2, <1>3, NextFile
  <2>2. /\ target' \in [File -> Content] /\ backup' \in [File -> Content]
        /\ target'[at] = "absent"
        /\ backup'[at] = IF target[at] = "absent" THEN backup[at] ELSE target[at]
        /\ \A f \in File \ {at} : target'[f] = target[f] /\ backup'[f] = backup[f]
        /\ moved' \subseteq File
        /\ \A f \in File \ {at} : f \in moved' <=> f \in moved
        /\ at \in moved' <=> at \in moved \/ target[at] # "absent"
    BY <1>2, <1>3 DEF Content
  <2>3. /\ backup[at] = "absent" /\ at \notin moved /\ target[at] = before[at]
        /\ \A f \in File : f < at => BackedUp(f) /\ target[f] = "absent"
        /\ \A f \in File : ~(f < at) => f \notin moved /\ backup[f] = "absent" /\ target[f] = before[f]
    <3>1. ~(at < at)
      BY <1>2, Neighbours
    <3>. QED
      BY <1>1, <1>2, <3>1 DEF InstallationInv, Backups
  <2>4. ASSUME NEW f \in File, f < at \/ f = at PROVE BackedUp(f)' /\ target'[f] = "absent"
    <3>1. CASE f = at
      BY <1>1, <2>2, <2>3, <3>1 DEF BackedUp
    <3>2. CASE f # at
      BY <1>1, <2>2, <2>3, <2>4, <3>2 DEF BackedUp
    <3>. QED
      BY <3>1, <3>2
  <2>5. TypeOK'
    BY <1>1, <1>3, <2>1, <2>2 DEF InstallationInv, TypeOK, Stage
  <2>6. Placed' /\ Entire'
    BY <1>1, <1>2, <2>1, <2>2 DEF InstallationInv, Placed, Entire, Commits, Reverts
  <2>7. Verified'
    <3>1. \A f \in File : ~(f < 1)
      BY DEF File
    <3>2. "unverified" \notin damage' => \A f \in File : "unverified" \notin {target'[f], backup'[f], staged'[f]}
      BY <1>1, <1>2, <2>2 DEF InstallationInv, Verified
    <3>3. "unverified" \notin damage' => \A f \in File : staged'[f] = "new"
      BY <1>1 DEF InstallationInv, Verified
    <3>. QED
      BY <1>1, <1>2, <2>1, <3>1, <3>2, <3>3 DEF Verified
  <2>8. Backups'
    <3>1. ASSUME pc' = "backup", NEW f \in File
          PROVE  IF f < at' THEN BackedUp(f)' /\ target'[f] = "absent"
                 ELSE f \notin moved' /\ backup'[f] = "absent" /\ target'[f] = before'[f]
      BY <1>1, <2>1, <2>2, <2>3, <2>4, <3>1
    <3>2. ASSUME pc' = "place", NEW f \in File
          PROVE  BackedUp(f)' /\ target'[f] = "absent"
      BY <2>1, <2>4, <3>2
    <3>. QED
      BY <2>1, <3>1, <3>2 DEF Backups, BackedUp
  <2>9. RolledBack'
    BY <1>1, <1>2, <2>1 DEF RolledBack
  <2>10. Copied' /\ Together'
    BY <1>1, <1>2, <1>3, <2>1, <2>2, <2>3 DEF InstallationInv, Copied, Together, Commits, Uniform
  <2>. QED
    BY <2>5, <2>6, <2>7, <2>8, <2>9, <2>10 DEF InstallationInv
<1>4. CASE /\ target[at] # "absent" /\ Spend("errors") /\ Goto("restore", Earlier(at))
           /\ UNCHANGED <<target, backup, moved>>
  <2>1. pc' = "restore" /\ at' = at - 1 /\ at' \in 0..Files
    BY <1>2, <1>4, Neighbours DEF Goto, Earlier
  <2>2. left' \in [Bound -> Nat]
    BY <1>2, <1>4, Spent
  <2>3. TypeOK'
    BY <1>1, <1>4, <2>1, <2>2 DEF InstallationInv, TypeOK, Stage
  <2>4. Placed' /\ Entire' /\ Verified'
    BY <1>1, <1>2, <1>4, <2>1 DEF InstallationInv, Placed, Entire, Verified, Commits, Reverts
  <2>5. \A f \in File : (f <= at' <=> f < at) /\ (f > at' <=> ~(f < at))
    BY <1>2, <2>1, Neighbours
  <2>6. Backups' /\ RolledBack'
    BY <1>1, <1>2, <1>4, <2>1, <2>5 DEF InstallationInv, Backups, BackedUp, RolledBack
  <2>7. Copied' /\ Together'
    BY <1>1, <1>2, <1>4, <2>1, <2>2 DEF InstallationInv, Copied, Together, Commits, Uniform
  <2>. QED
    BY <2>3, <2>4, <2>6, <2>7 DEF InstallationInv
<1>. QED
  BY <1>3, <1>4 DEF BackUp

LEMMA PlaceKept == ASSUME InstallationInv, Place PROVE InstallationInv'
<1>1. /\ UNCHANGED <<backup, cache, moved, quiet, outcome, before, had, damage>> /\ pc = "place"
      /\ before \in [File -> Content]
  BY DEF Place, commit, history, InstallationInv, TypeOK
<1>2. /\ TypeOK /\ at \in File /\ quiet /\ outcome = "none"
      /\ target \in [File -> Content] /\ staged \in [File -> {"absent", "new", "unverified"}]
      /\ moved \subseteq File /\ left \in [Bound -> Nat]
  BY <1>1, InCommit
<1>3. CASE /\ target' = [target EXCEPT ![at] = staged[at]]
           /\ staged' = [staged EXCEPT ![at] = "absent"]
           /\ IF at < Files THEN Goto("place", at + 1) ELSE Goto("cleanup", 1)
           /\ UNCHANGED left
  <2>1. /\ at' \in File /\ at' \in 0..Files
        /\ \/ pc' = "place" /\ at' = at + 1 /\ \A f \in File : f < at' <=> f < at \/ f = at
           \/ pc' = "cleanup" /\ at' = 1 /\ \A f \in File : f < at \/ f = at
    BY <1>2, <1>3, NextFile
  <2>2. /\ target' \in [File -> Content] /\ staged' \in [File -> {"absent", "new", "unverified"}]
        /\ target'[at] = staged[at] /\ staged'[at] = "absent"
        /\ \A f \in File \ {at} : target'[f] = target[f] /\ staged'[f] = staged[f]
    <3>1. staged[at] \in Content
      BY <1>2 DEF Content, Whole
    <3>. QED
      BY <1>2, <1>3, <3>1
  <2>3. TypeOK'
    BY <1>1, <2>1, <2>2, <1>3 DEF InstallationInv, TypeOK, Stage
  <2>4. Placed' /\ Entire'
    <3>1. staged[at] # "partial"
      BY <1>2
    <3>. QED
      BY <1>1, <1>2, <2>1, <2>2, <3>1 DEF InstallationInv, Placed, Entire, Commits, Reverts
  <2>5. Verified'
    <3>. SUFFICES ASSUME "unverified" \notin damage PROVE Verified'
      BY <1>1 DEF Verified
    <3>1. /\ \A f \in File : "unverified" \notin {target[f], backup[f], staged[f]}
          /\ \A f \in File : IF f < at THEN target[f] = "new" ELSE staged[f] = "new"
          /\ ~(at < at)
      BY <1>1, <1>2, Neighbours DEF InstallationInv, Verified
    <3>2. \A f \in File : "unverified" \notin {target'[f], backup'[f], staged'[f]}
      BY <1>1, <2>2, <3>1
    <3>3. \A f \in File : f < at \/ f = at => target'[f] = "new"
      BY <2>2, <3>1, <1>2
    <3>4. \A f \in File : ~(f < at \/ f = at) => staged'[f] = "new"
      BY <2>2, <3>1
    <3>. QED
      BY <1>1, <1>2, <2>1, <3>2, <3>3, <3>4 DEF Verified
  <2>6. Backups'
    <3>1. \A f \in File : BackedUp(f)'
      BY <1>1 DEF InstallationInv, Backups, BackedUp
    <3>2. \A f \in File : f >= at' /\ pc' = "place" => f # at /\ f >= at
      BY <1>2, <2>1, Neighbours
    <3>. QED
      BY <1>1, <2>1, <2>2, <3>1, <3>2 DEF InstallationInv, Backups
  <2>7. RolledBack'
    BY <1>1, <1>2, <2>1 DEF RolledBack
  <2>8. Copied' /\ Together'
    <3>. DEFINE Safe == damage \cap {"torn", "unverified"} = {}
    <3>1. \A f \in File : backup'[f] \in Whole <=> backup[f] \in Whole
      BY <1>1
    <3>2. Safe => \A f \in had : before[f] \in Whole /\ BackedUp(f)
      BY <1>1 DEF InstallationInv, TypeOK, Copied, Backups
    <3>3. Safe => \A f \in had : backup[f] \in Whole
      BY <3>2 DEF BackedUp, Whole
    <3>4. Copied'
      BY <1>1, <2>1, <3>2, <3>3 DEF Copied
    <3>5. Together'
      BY <1>1, <1>3, <2>1 DEF InstallationInv, Together, Commits
    <3>. QED
      BY <3>4, <3>5
  <2>. QED
    BY <2>3, <2>4, <2>5, <2>6, <2>7, <2>8 DEF InstallationInv
<1>4. CASE Spend("errors") /\ Goto("undo", Earlier(at)) /\ UNCHANGED <<target, staged>>
  <2>1. pc' = "undo" /\ at' = at - 1 /\ at' \in 0..Files
    BY <1>2, <1>4, Neighbours DEF Goto, Earlier
  <2>2. left' \in [Bound -> Nat]
    BY <1>2, <1>4, Spent
  <2>3. TypeOK'
    BY <1>1, <1>4, <2>1, <2>2 DEF InstallationInv, TypeOK, Stage
  <2>4. Placed' /\ Entire' /\ Verified'
    BY <1>1, <1>2, <1>4, <2>1 DEF InstallationInv, Placed, Entire, Verified, Commits, Reverts
  <2>5. \A f \in File : f > at' => f >= at
    BY <1>2, <2>1, Neighbours
  <2>6. Backups' /\ RolledBack'
    BY <1>1, <1>2, <1>4, <2>1, <2>5 DEF InstallationInv, Backups, BackedUp, RolledBack
  <2>7. Copied' /\ Together'
    BY <1>1, <1>2, <1>4, <2>1, <2>2 DEF InstallationInv, Copied, Together, Commits, Uniform
  <2>. QED
    BY <2>3, <2>4, <2>6, <2>7 DEF InstallationInv
<1>. QED
  BY <1>3, <1>4 DEF Place

(* Every target is in place now, and a backup is not needed any more.               *)
LEMMA CleanupKept == ASSUME InstallationInv, Cleanup PROVE InstallationInv'
<1>1. /\ UNCHANGED <<target, staged, cache, moved, quiet, before, damage>> /\ pc = "cleanup"
      /\ before \in [File -> Content]
  BY DEF Cleanup, InstallationInv, TypeOK
<1>2. /\ TypeOK /\ at \in File /\ quiet /\ outcome = "none"
      /\ target \in [File -> Content] /\ backup \in [File -> Content] /\ left \in [Bound -> Nat]
      /\ 1 \in File
  BY <1>1, InCommit
<1>3. /\ backup' \in [File -> Content]
      /\ \A f \in File : backup'[f] \in {"absent", backup[f]}
      /\ left' \in [Bound -> Nat]
  <2>1. \/ backup' = [backup EXCEPT ![at] = IF at \in moved THEN "absent" ELSE @] /\ UNCHANGED left
        \/ Spend("errors") /\ UNCHANGED backup
    BY DEF Cleanup
  <2>2. CASE backup' = [backup EXCEPT ![at] = IF at \in moved THEN "absent" ELSE @] /\ UNCHANGED left
    BY <1>2, <2>2 DEF Content
  <2>3. CASE Spend("errors") /\ UNCHANGED backup
    BY <1>2, <2>3, Spent
  <2>. QED
    BY <2>1, <2>2, <2>3
<1>4. \/ pc' = "cleanup" /\ at' = at + 1 /\ at' \in File /\ UNCHANGED <<outcome, had>>
      \/ pc' = "resume" /\ at' = 1 /\ outcome' = "committed" /\ had' = File
  <2>1. CASE at < Files
    <3>1. at + 1 \in File
      BY <1>2, <2>1 DEF File
    <3>. QED
      BY <2>1, <3>1 DEF Cleanup, Goto
  <2>2. CASE ~(at < Files)
    BY <2>2 DEF Cleanup, Goto
  <2>. QED
    BY <2>1, <2>2
<1>5. at' \in File /\ at' \in 0..Files /\ had' \subseteq File
      /\ outcome' \in {"none", "committed"} /\ pc' \in {"cleanup", "resume"}
      /\ (outcome' # "none" => pc' = "resume")
  <2>1. \A f \in File : f \in 0..Files
    BY DEF File
  <2>. QED
    BY <1>2, <1>4, <2>1 DEF TypeOK
<1>6. TypeOK'
  BY <1>1, <1>2, <1>3, <1>5 DEF TypeOK, Stage
<1>7. Placed' /\ Entire'
  BY <1>1, <1>2, <1>3, <1>5 DEF InstallationInv, Placed, Entire, Commits, Reverts
<1>8. Verified'
  BY <1>1, <1>2, <1>3, <1>5 DEF InstallationInv, Verified
<1>9. Backups' /\ RolledBack'
  BY <1>1, <1>5 DEF Backups, RolledBack
<1>10. Copied'
  <2>1. "unverified" \notin damage => \A f \in File : target'[f] = "new"
    BY <1>1 DEF InstallationInv, Verified
  <2>. QED
    BY <1>1, <1>5, <2>1 DEF Copied, Whole
<1>11. Together'
  <2>1. damage = {} => \A f \in File : target'[f] = "new"
    BY <1>1 DEF InstallationInv, Verified
  <2>. QED
    BY <1>1, <1>3, <1>5, <2>1 DEF InstallationInv, Together, Commits, Uniform
<1>. QED
  BY <1>6, <1>7, <1>8, <1>9, <1>10, <1>11 DEF InstallationInv

(* Where it is in a rollback.                                                     *)
LEMMA InRollback ==
    ASSUME InstallationInv, pc \in Reverts
    PROVE  /\ TypeOK /\ at \in 0..Files /\ quiet /\ outcome = "none"
           /\ target \in [File -> Content] /\ backup \in [File -> Content]
           /\ before \in [File -> Content] /\ left \in [Bound -> Nat]
           /\ moved \subseteq File /\ had \subseteq File
           /\ \A f \in File : f > 0 /\ ~(f <= 0) /\ ~(f > Files) /\ f <= Files
           /\ 1 \in File /\ Files \in 0..Files /\ 1 \in 0..Files
           /\ at > 0 => at \in File
<1>1. pc \in Commits /\ pc \notin {"resume", "idle"}
  BY DEF Reverts, Commits
<1>2. outcome = "none" /\ quiet
  BY <1>1, Zenon DEF InstallationInv, Placed
<1>3. at \in 0..Files
  BY DEF InstallationInv, TypeOK
<1>4. /\ \A f \in File : f > 0 /\ ~(f <= 0) /\ ~(f > Files) /\ f <= Files
      /\ 1 \in File /\ Files \in 0..Files /\ 1 \in 0..Files
      /\ at > 0 => at \in File
  BY <1>3 DEF File
<1>. QED
  BY <1>2, <1>3, <1>4 DEF InstallationInv, TypeOK

(* What an error of a removal leaves, and what it adds to the damage.              *)
LEMMA Fails ==
    ASSUME target \in [File -> Content], damage \subseteq Damage, NEW f \in File,
           NEW rest \in Content, rest \in {target[f], "partial", "absent"}, Damaged(f, rest)
    PROVE  /\ target' \in [File -> Content] /\ target'[f] = rest
           /\ \A g \in File \ {f} : target'[g] = target[g]
           /\ damage \subseteq damage' /\ damage' \subseteq Damage /\ "rollback" \in damage'
           /\ "unverified" \in damage' <=> "unverified" \in damage
           /\ rest = "partial" => "torn" \in damage'
           /\ rest # "partial" => ("torn" \in damage' <=> "torn" \in damage)
<1>1. target' = [target EXCEPT ![f] = rest]
  BY DEF Damaged
<1>2. damage' = damage \cup {"rollback"} \cup (IF rest = "partial" THEN {"torn"} ELSE {})
  BY DEF Damaged
<1>3. /\ target' \in [File -> Content] /\ target'[f] = rest
      /\ \A g \in File \ {f} : target'[g] = target[g]
  BY <1>1
<1>. QED
  BY <1>2, <1>3 DEF Damage

LEMMA UndoKept ==
    ASSUME InstallationInv, Undo,
           UNCHANGED <<backup, outcome, staged, cache, moved, quiet, before, had>>
    PROVE  InstallationInv'
<1>1. /\ UNCHANGED <<backup, outcome, staged, cache, moved, quiet, before, had>>
      /\ pc = "undo"
  BY DEF Undo
<1>2. /\ TypeOK /\ at \in 0..Files /\ quiet /\ outcome = "none"
      /\ target \in [File -> Content] /\ backup \in [File -> Content]
      /\ before \in [File -> Content] /\ left \in [Bound -> Nat] /\ had \subseteq File
      /\ \A f \in File : f > 0 /\ ~(f > Files) /\ f <= Files
      /\ Files \in 0..Files
      /\ at > 0 => at \in File
  BY <1>1, InRollback DEF Reverts
<1>3. \A f \in File : BackedUp(f)
  BY <1>1 DEF InstallationInv, Backups
<1>4. \A f \in File : BackedUp(f)'
  BY <1>1, <1>3 DEF BackedUp
<1>5. CASE at = 0 /\ Goto("restore", Files) /\ UNCHANGED <<target, damage, left>>
  <2>1. pc' = "restore" /\ at' = Files
    BY <1>5 DEF Goto
  <2>2. TypeOK'
    BY <1>1, <1>2, <1>5, <2>1 DEF TypeOK, Stage
  <2>3. Placed' /\ Entire' /\ Verified'
    BY <1>1, <1>2, <1>5, <2>1 DEF InstallationInv, Placed, Entire, Verified, Commits, Reverts
  <2>4. Backups' /\ RolledBack'
    BY <1>1, <1>2, <1>4, <1>5, <2>1 DEF InstallationInv, Backups, RolledBack
  <2>5. Copied' /\ Together'
    BY <1>1, <1>5, <2>1 DEF InstallationInv, Copied, Together, Commits
  <2>. QED
    BY <2>2, <2>3, <2>4, <2>5 DEF InstallationInv
<1>6. ASSUME at > 0, Goto("undo", at - 1), at \in File, NEW rest \in {target[at], "partial", "absent"},
             \/ target' = [target EXCEPT ![at] = "absent"] /\ UNCHANGED <<damage, left>>
             \/ Spend("errors") /\ Damaged(at, rest) /\ rest # "absent"
             \/ Spend("errors") /\ Damaged(at, rest) /\ rest = target[at]
      PROVE  InstallationInv'
  <2>1. /\ pc' = "undo" /\ at' = at - 1 /\ at' \in 0..Files
        /\ \A f \in File : f > at' => f > at \/ f = at
    BY <1>2, <1>6, Neighbours DEF Goto
  <2>2. rest \in Content /\ target[at] \in Content /\ damage \subseteq Damage
    BY <1>2, <1>6 DEF Content, TypeOK
  <2>3. /\ target' \in [File -> Content]
        /\ \A f \in File \ {at} : target'[f] = target[f]
        /\ damage \subseteq damage' /\ damage' \subseteq Damage
        /\ "unverified" \in damage' <=> "unverified" \in damage
        /\ target'[at] \in {target[at], "absent", "partial"}
        /\ "torn" \notin damage' => target'[at] \in {target[at], "absent"}
        /\ target'[at] = "absent" \/ "rollback" \in damage'
    <3>1. CASE target' = [target EXCEPT ![at] = "absent"] /\ UNCHANGED <<damage, left>>
      BY <1>2, <1>6, <2>2, <3>1 DEF Content
    <3>2. CASE Damaged(at, rest)
      BY <1>2, <1>6, <2>2, <3>2, Fails
    <3>. QED
      BY <1>6, <3>1, <3>2
  <2>4. left' \in [Bound -> Nat]
    BY <1>2, <1>6, Spent
  <2>5. TypeOK'
    BY <1>1, <1>2, <2>1, <2>3, <2>4 DEF TypeOK, Stage
  <2>6. Placed' /\ Entire'
    BY <1>1, <1>2, <1>6, <2>1, <2>3 DEF InstallationInv, Placed, Entire, Commits, Reverts
  <2>7. Verified'
    BY <1>1, <1>2, <2>1, <2>3 DEF InstallationInv, Verified
  <2>8. Backups'
    BY <2>1, <1>4 DEF Backups
  <2>9. RolledBack'
    BY <1>1, <1>2, <2>1, <2>3 DEF InstallationInv, RolledBack
  <2>10. Copied'
    <3>1. damage' \cap {"torn", "unverified"} = {} => \A f \in had : before[f] \in Whole /\ backup[f] \in Whole
      BY <1>1, <1>2, <1>3, <2>3 DEF InstallationInv, Copied, BackedUp, Whole
    <3>. QED
      BY <1>1, <2>1, <3>1 DEF Copied
  <2>11. Together'
    BY <1>1, <2>1, <2>3, <2>4 DEF InstallationInv, Together, Commits
  <2>. QED
    BY <2>5, <2>6, <2>7, <2>8, <2>9, <2>10, <2>11 DEF InstallationInv
<1>7. CASE /\ at > 0 /\ Goto("undo", at - 1)
           /\ \/ target' = [target EXCEPT ![at] = "absent"] /\ UNCHANGED <<damage, left>>
              \/ Spend("errors") /\ \E remains \in Remains(at) : Damaged(at, remains)
  <2>1. CASE target' = [target EXCEPT ![at] = "absent"] /\ UNCHANGED <<damage, left>>
    BY <1>2, <1>6, <1>7, <2>1
  <2>2. CASE Spend("errors") /\ \E remains \in Remains(at) : Damaged(at, remains)
    <3>1. PICK rest \in Remains(at) : Damaged(at, rest)
      BY <2>2
    <3>2. rest \in {target[at], "partial", "absent"} /\ (rest # "absent" \/ rest = target[at])
      BY <3>1 DEF Remains
    <3>. QED
      BY <1>2, <1>6, <1>7, <2>2, <3>1, <3>2
  <2>. QED
    BY <1>7, <2>1, <2>2
<1>. QED
  BY <1>5, <1>7 DEF Undo

LEMMA RestoreKept ==
    ASSUME InstallationInv, Restore, UNCHANGED <<staged, cache, moved, quiet, before, had>>
    PROVE  InstallationInv'
<1>1. UNCHANGED <<staged, cache, moved, quiet, before, had>> /\ pc = "restore"
  BY DEF Restore
<1>2. /\ TypeOK /\ at \in 0..Files /\ quiet /\ outcome = "none"
      /\ target \in [File -> Content] /\ backup \in [File -> Content]
      /\ before \in [File -> Content] /\ left \in [Bound -> Nat] /\ had \subseteq File
      /\ \A f \in File : f > 0 /\ ~(f > Files) /\ f <= Files
      /\ 1 \in File /\ 1 \in 0..Files
      /\ at > 0 => at \in File
  BY <1>1, InRollback DEF Reverts
<1>3. \A f \in File : f <= at => BackedUp(f)
  BY <1>1 DEF InstallationInv, Backups
<1>4. CASE /\ at = 0 /\ Goto("resume", 1) /\ outcome' = "rolled back"
           /\ UNCHANGED <<target, backup, damage, left>>
  <2>1. pc' = "resume" /\ at' = 1
    BY <1>4 DEF Goto
  <2>2. TypeOK'
    BY <1>1, <1>2, <1>4, <2>1 DEF TypeOK, Stage
  <2>3. Placed' /\ Entire' /\ Verified'
    <3>1. Placed'
      <4>1. pc' \in Commits
        BY <2>1 DEF Commits
      <4>2. quiet' /\ at' \in File /\ (outcome' # "none" => pc' \in {"resume", "idle"})
        BY <1>1, <1>2, <2>1
      <4>. QED
        BY <4>1, <4>2, Zenon DEF Placed
    <3>2. Entire' /\ Verified'
      BY <1>1, <1>2, <1>4, <2>1 DEF InstallationInv, Entire, Verified
    <3>. QED
      BY <3>1, <3>2
  <2>4. "rollback" \notin damage => target = before /\ \A f \in File : backup[f] = "absent"
    <3>1. "rollback" \notin damage => \A f \in File : target[f] = before[f] /\ backup[f] = "absent"
      BY <1>1, <1>2, <1>4 DEF InstallationInv, RolledBack
    <3>. QED
      BY <1>2, <3>1
  <2>5. Backups' /\ RolledBack'
    BY <1>1, <1>4, <2>1, <2>4 DEF Backups, RolledBack
  <2>6. Copied'
    BY <1>1, <1>4, <2>1 DEF InstallationInv, Copied
  <2>7. Together'
    BY <1>1, <1>4, <2>1, <2>4 DEF InstallationInv, Together
  <2>. QED
    BY <2>2, <2>3, <2>5, <2>6, <2>7 DEF InstallationInv
<1>5. ASSUME at > 0, at \in File, Goto("restore", at - 1), UNCHANGED outcome,
             NEW rest \in {target[at], "partial", "absent"},
             \/ at \notin moved /\ UNCHANGED <<target, backup, damage, left>>
             \/ at \in moved /\ RestoreOne(at) /\ UNCHANGED <<damage, left>>
             \/ at \in moved /\ Spend("errors") /\ Damaged(at, rest) /\ UNCHANGED backup
      PROVE  InstallationInv'
  <2>1. /\ pc' = "restore" /\ at' = at - 1 /\ at' \in 0..Files
        /\ \A f \in File : f > at' <=> f > at \/ f = at
        /\ \A f \in File : f <= at' => f <= at /\ f # at
        /\ at <= at
    <3>1. \A f \in File : f <= at' => f <= at /\ f # at
      <4>1. at' = at - 1
        BY <1>5 DEF Goto
      <4>. QED
        BY <4>1, <1>5, <1>2 DEF File
    <3>. QED
      BY <1>2, <1>5, <3>1, Neighbours DEF Goto
  <2>2. rest \in Content /\ target[at] \in Content /\ backup[at] \in Content /\ damage \subseteq Damage
    BY <1>2, <1>5 DEF Content, TypeOK
  <2>3. BackedUp(at)
    BY <1>3, <1>5, <2>1
  <2>4. /\ target' \in [File -> Content] /\ backup' \in [File -> Content]
        /\ \A f \in File \ {at} : target'[f] = target[f] /\ backup'[f] = backup[f]
        /\ damage \subseteq damage' /\ damage' \subseteq Damage
        /\ "unverified" \in damage' <=> "unverified" \in damage
        /\ target'[at] \in {target[at], backup[at], "absent", "partial"}
        /\ backup'[at] \in {backup[at], "absent"}
        /\ "torn" \notin damage' => target'[at] \in {target[at], backup[at], "absent"}
        /\ target'[at] = backup[at] \/ backup'[at] = backup[at]
        /\ \/ at \in moved /\ target'[at] = backup[at] /\ backup'[at] = "absent"
           \/ at \notin moved /\ target'[at] = target[at] /\ backup'[at] = backup[at] 
           \/ "rollback" \in damage'
    <3>1. CASE at \notin moved /\ UNCHANGED <<target, backup, damage, left>>
      BY <1>2, <2>2, <3>1
    <3>2. CASE at \in moved /\ RestoreOne(at) /\ UNCHANGED <<damage, left>>
      <4>1. "absent" \in Content
        BY DEF Content
      <4>2. /\ target' = [target EXCEPT ![at] = backup[at]]
            /\ backup' = [backup EXCEPT ![at] = "absent"]
        BY <3>2 DEF RestoreOne
      <4>3. /\ target' \in [File -> Content] /\ backup' \in [File -> Content]
            /\ target'[at] = backup[at] /\ backup'[at] = "absent"
            /\ \A f \in File \ {at} : target'[f] = target[f] /\ backup'[f] = backup[f]
        BY <1>2, <1>5, <2>2, <4>1, <4>2
      <4>. QED
        BY <2>2, <3>2, <4>3
    <3>3. CASE Damaged(at, rest) /\ UNCHANGED backup
      BY <1>2, <1>5, <2>2, <3>3, Fails
    <3>. QED
      BY <1>5, <3>1, <3>2, <3>3
  <2>5. left' \in [Bound -> Nat]
    BY <1>2, <1>5, Spent
  <2>6. TypeOK'
    BY <1>1, <1>2, <1>5, <2>1, <2>4, <2>5 DEF TypeOK, Stage
  <2>7. Placed' /\ Entire'
    BY <1>1, <1>2, <1>5, <2>1, <2>4 DEF InstallationInv, Placed, Entire, Commits, Reverts
  <2>8. Verified'
    BY <1>1, <1>2, <1>5, <2>1, <2>4 DEF InstallationInv, Verified
  <2>9. Backups'
    BY <1>1, <1>3, <2>1, <2>4 DEF Backups, BackedUp
  <2>10. RolledBack'
    <3>. SUFFICES ASSUME "rollback" \notin damage' PROVE RolledBack'
      BY DEF RolledBack
    <3>1. /\ \A f \in File : f > at => target[f] = before[f] /\ backup[f] = "absent"
          /\ \A f \in File : ~(f > at) => target[f] = "absent"
          /\ ~(at > at)
      BY <1>1, <1>2, <1>5, <2>4, Neighbours DEF InstallationInv, RolledBack
    <3>2. target'[at] = before[at] /\ backup'[at] = "absent"
      BY <1>5, <2>3, <2>4, <3>1 DEF BackedUp
    <3>. QED
      BY <1>1, <1>2, <1>5, <2>1, <2>4, <3>1, <3>2 DEF RolledBack
  <2>11. Copied'
    <3>1. CASE damage' \cap {"torn", "unverified"} # {}
      BY <3>1 DEF Copied
    <3>2. CASE damage' \cap {"torn", "unverified"} = {}
      <4>1. /\ \A f \in had : target[f] \in Whole \/ backup[f] \in Whole
            /\ \A f \in had : before[f] \in Whole
        BY <1>1, <2>4, <3>2 DEF InstallationInv, Copied
      <4>2. at \in had => backup[at] \in Whole
        BY <2>3, <4>1 DEF BackedUp, Whole
      <4>3. ASSUME NEW f \in had PROVE target'[f] \in Whole \/ backup'[f] \in Whole
        <5>1. CASE f = at
          BY <4>2, <2>4, <5>1
        <5>2. CASE f # at
          BY <4>1, <2>4, <5>2, <1>2
        <5>. QED
          BY <5>1, <5>2
      <4>. QED
        BY <1>1, <2>1, <4>1, <4>3 DEF Copied
    <3>. QED
      BY <3>1, <3>2
  <2>12. Together'
    BY <1>1, <2>1, <2>4, <2>5 DEF InstallationInv, Together, Commits
  <2>. QED
    BY <2>6, <2>7, <2>8, <2>9, <2>10, <2>11, <2>12 DEF InstallationInv
<1>6. CASE /\ at > 0 /\ Goto("restore", at - 1) /\ UNCHANGED outcome
           /\ \/ at \notin moved /\ UNCHANGED <<target, backup, damage, left>>
              \/ at \in moved /\ RestoreOne(at) /\ UNCHANGED <<damage, left>>
              \/ at \in moved /\ RestoreFails(at)
  <2>1. CASE \/ at \notin moved /\ UNCHANGED <<target, backup, damage, left>>
             \/ at \in moved /\ RestoreOne(at) /\ UNCHANGED <<damage, left>>
    BY <1>2, <1>5, <1>6, <2>1
  <2>2. CASE at \in moved /\ RestoreFails(at)
    <3>1. PICK rest \in Remains(at) \cup {"absent"} : Damaged(at, rest)
      BY <2>2 DEF RestoreFails
    <3>2. rest \in {target[at], "partial", "absent"}
      BY <3>1 DEF Remains
    <3>3. Spend("errors") /\ UNCHANGED backup
      BY <2>2 DEF RestoreFails
    <3>. QED
      BY <1>2, <1>5, <1>6, <2>2, <3>1, <3>2, <3>3
  <2>. QED
    BY <1>6, <2>1, <2>2
<1>. QED
  BY <1>4, <1>6 DEF Restore

LEMMA InitInstallation == Init => InstallationInv
<1>. SUFFICES ASSUME Init PROVE InstallationInv
  OBVIOUS
<1>1. /\ target \in [File -> {"absent", "old"}] /\ backup = Nothing /\ staged = Nothing
      /\ cache \in [File -> {"absent", "bad"}] /\ pc = "idle" /\ at = 1 /\ moved = {} /\ quiet = FALSE
      /\ outcome = "none" /\ before = target /\ had = {f \in File : target[f] = "old"} /\ damage = {}
      /\ left \in Budgets
  BY DEF Init
<1>2. /\ 1 \in File /\ 1 \in 0..Files
      /\ \A f \in File : backup[f] = "absent" /\ staged[f] = "absent"
  BY <1>1 DEF File, Nothing
<1>3. /\ target \in [File -> Content] /\ backup \in [File -> Content]
      /\ staged \in [File -> {"absent", "new", "unverified"}]
      /\ cache \in [File -> {"absent", "bad", "good"}]
  BY <1>1 DEF Nothing, Content, Whole
<1>4. left \in [Bound -> Nat]
  BY <1>1
<1>5. TypeOK
  BY <1>1, <1>2, <1>3, <1>4 DEF TypeOK, Stage
<1>6. Placed /\ Verified /\ Entire
  <2>1. Placed
    <3>1. pc \notin Commits
      BY <1>1 DEF Commits
    <3>2. quiet <=> pc \in Commits
      BY <1>1, <3>1, Zenon
    <3>3. at \in File /\ (outcome # "none" => pc \in {"resume", "idle"})
      BY <1>1, <1>2
    <3>. QED
      BY <3>2, <3>3, Zenon DEF Placed
  <2>2. \A f \in File : target[f] \in {"absent", "old"}
    BY <1>1
  <2>3. Verified /\ Entire
    BY <1>1, <1>2, <2>2 DEF Verified, Entire
  <2>. QED
    BY <2>1, <2>3
<1>7. Backups /\ RolledBack
  BY <1>1 DEF Backups, RolledBack
<1>8. Copied /\ Together
  BY <1>1, <1>2 DEF Copied, Together, Uniform, Whole
<1>. QED
  BY <1>5, <1>6, <1>7, <1>8 DEF InstallationInv

LEMMA ResumeKept == ASSUME InstallationInv, Resume PROVE InstallationInv'
<1>1. /\ UNCHANGED <<target, backup, cache, moved, outcome, before, had, damage, left>>
      /\ pc = "resume" /\ pc' = "idle" /\ at' = 1 /\ quiet' = FALSE /\ staged' = Nothing
  BY DEF Resume, Goto, history
<1>2. 1 \in File /\ 1 \in 0..Files /\ \A f \in File : staged'[f] = "absent"
  BY <1>1 DEF File, Nothing
<1>3. TypeOK'
  BY <1>1, <1>2 DEF InstallationInv, TypeOK, Stage, Nothing
<1>4. Placed' /\ Verified' /\ Entire'
  <2>1. Placed'
    <3>1. pc' \notin Commits
      BY <1>1 DEF Commits
    <3>2. quiet' <=> pc' \in Commits
      BY <1>1, <3>1, Zenon
    <3>3. at' \in File /\ (outcome' # "none" => pc' \in {"resume", "idle"})
      BY <1>1, <1>2
    <3>. QED
      BY <3>2, <3>3, Zenon DEF Placed
  <2>2. Verified' /\ Entire'
    BY <1>1, <1>2 DEF InstallationInv, Verified, Entire
  <2>. QED
    BY <2>1, <2>2
<1>5. Backups' /\ RolledBack'
  BY <1>1 DEF InstallationInv, Backups, RolledBack
<1>6. Copied' /\ Together'
  BY <1>1 DEF InstallationInv, Copied, Together, Commits
<1>. QED
  BY <1>3, <1>4, <1>5, <1>6 DEF InstallationInv

(* A crash loses where the installation was; a directory that was being removed     *)
(* is left in half.                                                               *)
LEMMA CrashKept == ASSUME InstallationInv, Crash PROVE InstallationInv'
<1>1. /\ UNCHANGED <<backup, cache, before, had>> /\ staged' = Nothing /\ quiet' = FALSE /\ moved' = {}
      /\ outcome' = "none" /\ pc' = "idle" /\ at' = 1 /\ Spend("crashes")
  BY DEF Crash, Goto
<1>2. 1 \in File /\ 1 \in 0..Files /\ \A f \in File : staged'[f] = "absent"
  BY <1>1 DEF File, Nothing
<1>3. left' \in [Bound -> Nat]
  BY <1>1, Spent DEF InstallationInv
<1>4. /\ target' \in [File -> Content]
      /\ damage' \subseteq Damage /\ damage \subseteq damage'
      /\ "unverified" \in damage' <=> "unverified" \in damage
      /\ "torn" \notin damage' => UNCHANGED target
      /\ pc \in Commits \ {"resume"} => damage' # {}
      /\ \A f \in File : target'[f] \in {target[f], "partial"}
  <2>1. target \in [File -> Content] /\ damage \subseteq Damage
    BY DEF InstallationInv, TypeOK
  <2>2. CASE damage' = damage \cup Interrupted /\ UNCHANGED target
    BY <2>1, <2>2 DEF Damage, Interrupted, Commits
  <2>3. CASE target' = [target EXCEPT ![at] = "partial"] /\ damage' = damage \cup Interrupted \cup {"torn"}
    BY <2>1, <2>3 DEF Content, Damage, Interrupted
  <2>. QED
    BY <2>2, <2>3 DEF Crash
<1>5. TypeOK'
  BY <1>1, <1>2, <1>3, <1>4 DEF InstallationInv, TypeOK, Stage, Nothing
<1>6. Placed' /\ Verified' /\ Entire'
  <2>1. Placed'
    <3>1. pc' \notin Commits
      BY <1>1 DEF Commits
    <3>2. quiet' <=> pc' \in Commits
      BY <1>1, <3>1, Zenon
    <3>3. at' \in File /\ (outcome' # "none" => pc' \in {"resume", "idle"})
      BY <1>1, <1>2
    <3>. QED
      BY <3>2, <3>3, Zenon DEF Placed
  <2>2. Verified' /\ Entire'
    BY <1>1, <1>2, <1>4 DEF InstallationInv, Verified, Entire
  <2>. QED
    BY <2>1, <2>2
<1>7. Backups' /\ RolledBack'
  BY <1>1 DEF Backups, RolledBack
<1>8. Copied' /\ Together'
  <2>1. Copied'
    BY <1>1, <1>4 DEF InstallationInv, Copied
  <2>2. damage' = {} => damage = {} /\ pc \notin Commits \ {"resume"} /\ UNCHANGED target
    BY <1>4
  <2>3. Together'
    BY <1>1, <2>2 DEF InstallationInv, Together, Uniform
  <2>. QED
    BY <2>1, <2>3
<1>. QED
  BY <1>5, <1>6, <1>7, <1>8 DEF InstallationInv

LEMMA InstallationStep == InstallationInv /\ [Next]_vars => InstallationInv'
<1>. SUFFICES ASSUME InstallationInv, [Next]_vars PROVE InstallationInv'
  OBVIOUS
<1>1. CASE UNCHANGED vars
  <2>1. /\ UNCHANGED <<target, backup, staged, cache, pc, at, moved, quiet, outcome>>
        /\ UNCHANGED <<before, had, damage, left>>
    BY <1>1 DEF vars
  <2>2. TypeOK'
    BY <2>1 DEF InstallationInv, TypeOK
  <2>3. Placed' /\ Verified' /\ Entire'
    BY <2>1 DEF InstallationInv, Placed, Verified, Entire
  <2>4. Backups' /\ RolledBack'
    BY <2>1 DEF InstallationInv, Backups, BackedUp, RolledBack
  <2>5. Copied' /\ Together'
    BY <2>1 DEF InstallationInv, Copied, Together, Uniform
  <2>. QED
    BY <2>2, <2>3, <2>4, <2>5 DEF InstallationInv
<1>2. CASE Install
  BY <1>2, InstallKept
<1>3. CASE Crash
  BY <1>3, CrashKept
<1>4. CASE Verify \/ Download \/ Recover \/ Unpack \/ Quiesce
  BY <1>4, VerifyKept, DownloadKept, RecoverKept, UnpackKept, QuiesceKept
<1>5. CASE BackUp \/ Place \/ Cleanup \/ Resume
  BY <1>5, BackUpKept, PlaceKept, CleanupKept, ResumeKept
<1>6. CASE Rollback
  <2>1. UNCHANGED <<staged, cache, moved, quiet, before, had>>
    BY <1>6 DEF Rollback
  <2>2. CASE Undo /\ UNCHANGED <<backup, outcome>>
    BY <2>1, <2>2, UndoKept
  <2>3. CASE Restore
    BY <2>1, <2>3, RestoreKept
  <2>. QED
    BY <1>6, <2>2, <2>3 DEF Rollback
<1>. QED
  BY <1>1, <1>2, <1>3, <1>4, <1>5, <1>6 DEF Next, Step, Rest

LEMMA InstallationAlways == Spec => []InstallationInv
BY InitInstallation, InstallationStep, PTL DEF Spec

(* Every file and path of an installation keeps its shape (asset_manager.rs).       *)
THEOREM InstallTypeCorrect == Spec => []TypeOK
<1>1. InstallationInv => TypeOK
  BY DEF InstallationInv
<1>. QED
  BY <1>1, InstallationAlways, PTL

(* However often installations fail or the hub dies, a model or vocoder there has     *)
(* been is at its target or its backup, but for half-removed directories and          *)
(* artifacts that were not verified (recover_backup, commit_replacements).           *)
THEOREM CopiesAreKept == Spec => []NothingLost
<1>1. InstallationInv => NothingLost
  BY DEF InstallationInv, Copied, NothingLost
<1>. QED
  BY <1>1, InstallationAlways, PTL

(* commit_replacements replaces all or nothing, and the workers see one version.     *)
THEOREM ReplacementIsAtomic == Spec => []AtomicReplacement
<1>1. ASSUME InstallationInv PROVE WholeOrNothing
  <2>1. outcome = "committed" => pc \in {"resume", "idle"}
    BY <1>1 DEF InstallationInv, Placed
  <2>2. outcome = "committed" /\ "unverified" \notin damage => \A f \in File : target[f] = "new"
    BY <1>1 DEF InstallationInv, Verified
  <2>3. outcome = "rolled back" /\ "rollback" \notin damage => target = before
    BY <1>1 DEF InstallationInv, RolledBack
  <2>. QED
    BY <2>2, <2>3 DEF WholeOrNothing
<1>2. ASSUME InstallationInv, damage = {} PROVE OneVersion
  <2>. SUFFICES ASSUME ~quiet, Installed PROVE \A f, g \in File : target[f] = target[g]
    BY DEF OneVersion
  <2>1. pc \notin Commits
    BY <1>2 DEF InstallationInv, Placed
  <2>2. Uniform(target)
    BY <1>2, <2>1 DEF InstallationInv, Together
  <2>3. \A f \in File : target[f] # "unverified"
    BY <1>2 DEF InstallationInv, Verified
  <2>. QED
    BY <2>2, <2>3 DEF Installed, Uniform
<1>3. InstallationInv => AtomicReplacement
  BY <1>1, <1>2 DEF AtomicReplacement
<1>. QED
  BY <1>3, InstallationAlways, PTL

-----------------------------------------------------------------------------
(***************************************************************************)
(* The media of a device.  A recorder and its recordings are in order: what is   *)
(* closed is finished or was hit by an error, and what is open is of the init of *)
(* the recorder, is on the disk, and has its index or was hit by an error.      *)
(***************************************************************************)
Recording == [init : Muxer, holds : SUBSET Muxer, finished : BOOLEAN, kept : BOOLEAN]

Stored(r, recs, t) ==
    /\ recs \in Seq(Recording)
    /\ r \in [init : Muxer \cup {0}, file : 0..Len(recs), index : BOOLEAN]
    /\ t \subseteq DOMAIN recs
    /\ \A n \in DOMAIN recs : n = r.file \/ n \in t \/ recs[n].finished
    /\ r.file # 0 => /\ recs[r.file].kept /\ recs[r.file].init = r.init
                     /\ r.index \/ r.file \in t
    /\ r.index => r.file # 0

(* A recording holds fragments of its own init only.                           *)
Pure(recs) == \A n \in DOMAIN recs : recs[n].holds \subseteq {recs[n].init}

(* What is not started yet has no child and is not read; the child that runs is   *)
(* that of the newest muxer.                                                  *)
Numbered ==
    /\ worker = "running" => muxers \in Muxer
    /\ \A g \in Muxer : g > muxers => child[g] = "none" /\ reader[g] = "none" /\ g \notin ready
    /\ OneChild

(* A reading task is past its first moof once its init has been stored and sent.   *)
Passed ==
    \A g \in Muxer :
        /\ reader[g] \in {"moof", "store", "publish"} => g \in ready
        /\ reader[g] = "init_live" \/ g \in ready => recorder.init # 0

Channel == \A v \in Viewers : viewer[v].open => viewer[v].init = live

(* Without an overlap only the newest output is read, and once its init is stored, *)
(* and sent, nothing has replaced it.                                          *)
Apart ==
    ~ overlap =>
        /\ NeverMixed /\ Pure(recordings)
        /\ \A g \in Unread : g = muxers
        /\ \A g \in Muxer : g = muxers =>
              /\ reader[g] = "init_live" => recorder.init = g
              /\ g \in ready => recorder.init = g /\ live = g

MediaInv ==
    /\ MediaTypeOK /\ Numbered /\ Stored(recorder, recordings, torn)
    /\ Passed /\ Channel /\ Apart

(* What is kept of the recordings when one of them is replaced.                  *)
LEMMA Replaced ==
    ASSUME NEW recs \in Seq(Recording), NEW f \in DOMAIN recs, NEW e \in Recording
    PROVE  /\ [recs EXCEPT ![f] = e] \in Seq(Recording)
           /\ Len([recs EXCEPT ![f] = e]) = Len(recs)
           /\ DOMAIN [recs EXCEPT ![f] = e] = DOMAIN recs
           /\ [recs EXCEPT ![f] = e][f] = e
           /\ \A n \in DOMAIN recs \ {f} : [recs EXCEPT ![f] = e][n] = recs[n]
<1>1. DOMAIN recs = 1..Len(recs) /\ f \in 1..Len(recs)
  BY LenProperties
<1>. HIDE DEF Recording
<1>. QED
  BY <1>1, ExceptSeq

LEMMA FootedIs ==
    ASSUME Stored(recorder, recordings, torn), recorder.file # 0
    PROVE  /\ Footed \in Seq(Recording) /\ DOMAIN Footed = DOMAIN recordings
           /\ Len(Footed) = Len(recordings) /\ recorder.file \in DOMAIN recordings
           /\ \A n \in DOMAIN recordings :
                 /\ Footed[n].init = recordings[n].init /\ Footed[n].holds = recordings[n].holds
                 /\ recordings[n].finished => Footed[n].finished
           /\ recorder.index => Footed[recorder.file].finished
<1>. DEFINE f == recorder.file
            e == [recordings[f] EXCEPT !.finished = TRUE]
<1>1. /\ recordings \in Seq(Recording) /\ f \in 0..Len(recordings) /\ Len(recordings) \in Nat
      /\ DOMAIN recordings = 1..Len(recordings)
  BY LenProperties DEF Stored
<1>2. f \in DOMAIN recordings
  BY <1>1
<1>3. recordings[f] \in Recording
  BY <1>1, <1>2, ElementOfSeq
<1>4. /\ e \in Recording /\ e.finished /\ e.init = recordings[f].init
      /\ e.holds = recordings[f].holds
  BY <1>3 DEF Recording
<1>5. CASE recorder.index
  <2>1. Footed = [recordings EXCEPT ![f] = e]
    BY <1>5 DEF Footed
  <2>. HIDE DEF e, f
  <2>2. /\ Footed \in Seq(Recording) /\ Len(Footed) = Len(recordings)
        /\ DOMAIN Footed = DOMAIN recordings /\ Footed[f] = e
        /\ \A n \in DOMAIN recordings \ {f} : Footed[n] = recordings[n]
    BY <1>1, <1>2, <1>4, <2>1, Replaced
  <2>. QED
    BY <1>2, <1>4, <2>2 DEF f
<1>6. CASE ~recorder.index
  BY <1>1, <1>2, <1>6 DEF Footed
<1>. QED
  BY <1>5, <1>6

LEMMA CloseStored ==
    ASSUME Stored(recorder, recordings, torn), NEW o \in Close
    PROVE  /\ Stored(o.recorder, o.recordings, o.torn) /\ o.failed \in BOOLEAN
           /\ o.recorder.init = recorder.init
           /\ ~ o.failed => o.recorder.file = 0
           /\ Pure(recordings) => Pure(o.recordings)
<1>. DEFINE r == recorder
<1>0. r \in [init : Muxer \cup {0}, file : 0..Len(recordings), index : BOOLEAN]
  BY DEF Stored
<1>1. CASE recorder.file = 0
  <2>1. o = Outcome(recorder, recordings, torn, FALSE)
    BY <1>1 DEF Close, AsIs, Done
  <2>2. o.recorder = recorder /\ o.recordings = recordings /\ o.torn = torn /\ o.failed = FALSE
    BY <2>1 DEF Outcome
  <2>. QED
    BY <1>1, <2>2
<1>2. CASE recorder.file # 0
  <2>1. /\ Footed \in Seq(Recording) /\ DOMAIN Footed = DOMAIN recordings
        /\ Len(Footed) = Len(recordings) /\ recorder.file \in DOMAIN recordings
        /\ \A n \in DOMAIN recordings :
              /\ Footed[n].init = recordings[n].init /\ Footed[n].holds = recordings[n].holds
              /\ recordings[n].finished => Footed[n].finished
        /\ recorder.index => Footed[recorder.file].finished
    BY <1>2, FootedIs
  <2>2. /\ Shut \in [init : Muxer \cup {0}, file : 0..Len(recordings), index : BOOLEAN]
        /\ Shut.init = r.init /\ Shut.file = 0 /\ Shut.index = FALSE
    <3>1. 0 \in 0..Len(recordings)
      BY LenProperties DEF Stored
    <3>. QED
      BY <1>0, <3>1 DEF Shut
  <2>3. Pure(recordings) => Pure(Footed)
    BY <2>1 DEF Pure
  <2>4. ASSUME NEW t \in {torn, Hit} PROVE Stored(Shut, Footed, t)
    <3>1. t \subseteq DOMAIN Footed /\ torn \subseteq t
      BY <2>1, <2>4 DEF Hit, Stored
    <3>2. ASSUME NEW n \in DOMAIN Footed PROVE n = Shut.file \/ n \in t \/ Footed[n].finished
      <4>1. n = r.file \/ n \in torn \/ recordings[n].finished
        BY <2>1 DEF Stored
      <4>2. CASE n = r.file
        BY <1>2, <2>1, <3>1, <4>2 DEF Stored
      <4>. QED
        BY <2>1, <3>1, <4>1, <4>2
    <3>. QED
      BY <2>1, <2>2, <3>1, <3>2 DEF Stored
  <2>5. CASE o \in {Outcome(Shut, Footed, torn, FALSE), Outcome(Shut, Footed, Hit, TRUE)}
    <3>. PICK t \in {torn, Hit}, failed \in BOOLEAN : o = Outcome(Shut, Footed, t, failed)
      BY <2>5
    <3>1. o.recorder = Shut /\ o.recordings = Footed /\ o.torn = t /\ o.failed = failed
      BY DEF Outcome
    <3>. QED
      BY <2>2, <2>3, <2>4, <3>1
  <2>6. CASE recorder.index /\ o = Outcome([recorder EXCEPT !.index = FALSE], recordings, Hit, TRUE)
    <3>. DEFINE s == [recorder EXCEPT !.index = FALSE]
    <3>1. /\ s \in [init : Muxer \cup {0}, file : 0..Len(recordings), index : BOOLEAN]
          /\ s.init = r.init /\ s.file = r.file /\ s.index = FALSE
      BY <1>0
    <3>. HIDE DEF s
    <3>2. Stored(s, recordings, Hit)
      BY <2>1, <3>1 DEF Stored, Hit
    <3>3. o.recorder = s /\ o.recordings = recordings /\ o.torn = Hit /\ o.failed = TRUE
      BY <2>6 DEF Outcome, s
    <3>. QED
      BY <3>1, <3>2, <3>3
  <2>. QED
    BY <1>2, <2>5, <2>6 DEF Close, Done
<1>. QED
  BY <1>1, <1>2

LEMMA OpenedStored ==
    ASSUME NEW o, Stored(o.recorder, o.recordings, o.torn), o.recorder.file = 0,
           o.recorder.init # 0, NEW p \in Opened(o)
    PROVE  /\ Stored(p.recorder, p.recordings, p.torn) /\ p.failed \in BOOLEAN
           /\ p.recorder.init = o.recorder.init
           /\ ~ p.failed => p.recorder.file # 0
           /\ Pure(o.recordings) => Pure(p.recordings)
<1>. DEFINE r     == o.recorder
            e     == Fresh(r.init)
            recs == Append(o.recordings, e)
            n     == Len(recs)
            s     == [r EXCEPT !.file = n, !.index = TRUE]
<1>1. /\ o.recordings \in Seq(Recording) /\ Len(o.recordings) \in Nat
      /\ DOMAIN o.recordings = 1..Len(o.recordings)
      /\ r \in [init : Muxer \cup {0}, file : 0..Len(o.recordings), index : BOOLEAN]
      /\ r.file = 0 /\ ~ r.index
  BY LenProperties DEF Stored
<1>2. e \in Recording /\ e.init = r.init /\ e.holds = {} /\ e.kept
  BY <1>1 DEF Fresh, Recording
<1>. HIDE DEF e
<1>3. /\ recs \in Seq(Recording) /\ Len(recs) = Len(o.recordings) + 1
      /\ \A i \in 1..Len(o.recordings) : recs[i] = o.recordings[i]
      /\ recs[Len(o.recordings) + 1] = e
  <2>. HIDE DEF Recording
  <2>. QED
    BY <1>1, <1>2, AppendProperties
<1>. HIDE DEF recs
<1>4. /\ DOMAIN recs = 1..n /\ n = Len(o.recordings) + 1 /\ n \in Nat /\ n # 0
      /\ recs[n] = e
      /\ \A i \in DOMAIN recs : i = n \/ (i \in DOMAIN o.recordings /\ recs[i] = o.recordings[i])
      /\ DOMAIN o.recordings \subseteq DOMAIN recs /\ n \in DOMAIN recs
      /\ 0 \in 0..n /\ n \in 0..n
  BY <1>1, <1>3, LenProperties
<1>. HIDE DEF n
<1>5. /\ s \in [init : Muxer \cup {0}, file : 0..n, index : BOOLEAN]
      /\ s.init = r.init /\ s.file = n /\ s.index = TRUE
  BY <1>1, <1>4
<1>6. r \in [init : Muxer \cup {0}, file : 0..n, index : BOOLEAN]
  BY <1>1, <1>4
<1>. HIDE DEF s
<1>7. Pure(o.recordings) => Pure(recs)
  BY <1>2, <1>4 DEF Pure
<1>8. Len(recs) = n
  BY DEF n
<1>9. \A i \in DOMAIN o.recordings : i \in o.torn \/ o.recordings[i].finished
  BY <1>1 DEF Stored
<1>10. Stored(s, recs, o.torn)
  BY <1>2, <1>3, <1>4, <1>5, <1>8, <1>9 DEF Stored
<1>11. Stored(r, recs, o.torn \cup {n})
  BY <1>1, <1>3, <1>4, <1>6, <1>8, <1>9 DEF Stored
<1>12. p \in {Outcome(s, recs, o.torn, FALSE), Outcome(r, recs, o.torn \cup {n}, TRUE),
              Outcome(r, o.recordings, o.torn, TRUE)}
  BY DEF Opened, s, n, recs, e
<1>13. CASE p = Outcome(s, recs, o.torn, FALSE)
  <2>1. p.recorder = s /\ p.recordings = recs /\ p.torn = o.torn /\ p.failed = FALSE
    BY <1>13 DEF Outcome
  <2>. QED
    BY <1>4, <1>5, <1>7, <1>10, <2>1
<1>14. CASE p = Outcome(r, recs, o.torn \cup {n}, TRUE)
  <2>1. p.recorder = r /\ p.recordings = recs /\ p.torn = o.torn \cup {n} /\ p.failed = TRUE
    BY <1>14 DEF Outcome
  <2>. QED
    BY <1>7, <1>11, <2>1
<1>15. CASE p = Outcome(r, o.recordings, o.torn, TRUE)
  <2>1. p.recorder = r /\ p.recordings = o.recordings /\ p.torn = o.torn /\ p.failed = TRUE
    BY <1>15 DEF Outcome
  <2>. QED
    BY <2>1
<1>. QED
  BY <1>12, <1>13, <1>14, <1>15

LEMMA RollStored ==
    ASSUME Stored(recorder, recordings, torn), recorder.init # 0, NEW p \in Roll
    PROVE  /\ Stored(p.recorder, p.recordings, p.torn) /\ p.failed \in BOOLEAN
           /\ p.recorder.init = recorder.init
           /\ ~ p.failed => p.recorder.file # 0
           /\ Pure(recordings) => Pure(p.recordings)
<1>1. PICK o \in Close : p \in IF o.failed THEN {o} ELSE Opened(o)
  BY DEF Roll
<1>2. /\ Stored(o.recorder, o.recordings, o.torn) /\ o.failed \in BOOLEAN
      /\ o.recorder.init = recorder.init
      /\ ~ o.failed => o.recorder.file = 0
      /\ Pure(recordings) => Pure(o.recordings)
  BY CloseStored
<1>3. CASE o.failed
  BY <1>1, <1>2, <1>3
<1>4. CASE ~ o.failed
  BY <1>1, <1>2, <1>4, OpenedStored
<1>. QED
  BY <1>3, <1>4

(* A fragment goes to the recording that is open, which is of the recorder's init.  *)
LEMMA WrittenStored ==
    ASSUME NEW o, Stored(o.recorder, o.recordings, o.torn), o.failed \in BOOLEAN,
           ~ o.failed => o.recorder.file # 0, NEW g \in Muxer, NEW p \in Written(o, g)
    PROVE  /\ Stored(p.recorder, p.recordings, p.torn) /\ p.failed \in BOOLEAN
           /\ p.recorder.init = o.recorder.init
           /\ Pure(o.recordings) /\ o.recorder.init = g => Pure(p.recordings)
<1>1. CASE o.failed
  BY <1>1 DEF Written
<1>2. CASE ~ o.failed
  <2>. DEFINE r     == o.recorder
              f     == r.file
              e     == [o.recordings[f] EXCEPT !.holds = @ \cup {g}]
              recs == [o.recordings EXCEPT ![f].holds = @ \cup {g}]
  <2>1. /\ o.recordings \in Seq(Recording) /\ Len(o.recordings) \in Nat
        /\ DOMAIN o.recordings = 1..Len(o.recordings)
        /\ f \in DOMAIN o.recordings /\ f # 0
        /\ r \in [init : Muxer \cup {0}, file : 0..Len(o.recordings), index : BOOLEAN]
    BY <1>2, LenProperties DEF Stored
  <2>2. o.recordings[f] \in Recording
    BY <2>1, ElementOfSeq
  <2>3. /\ e \in Recording /\ e.init = o.recordings[f].init
        /\ e.holds = o.recordings[f].holds \cup {g}
        /\ e.kept = o.recordings[f].kept /\ e.finished = o.recordings[f].finished
    BY <2>2 DEF Recording
  <2>4. recs = [o.recordings EXCEPT ![f] = e]
    OBVIOUS
  <2>. HIDE DEF e, recs
  <2>5. /\ recs \in Seq(Recording) /\ Len(recs) = Len(o.recordings)
        /\ DOMAIN recs = DOMAIN o.recordings /\ recs[f] = e
        /\ \A n \in DOMAIN o.recordings \ {f} : recs[n] = o.recordings[n]
    BY <2>1, <2>3, <2>4, Replaced
  <2>6. ASSUME NEW t \in {o.torn, o.torn \cup {f}} PROVE Stored(r, recs, t)
    BY <2>1, <2>3, <2>5, <2>6 DEF Stored
  <2>7. o.recordings[f].init = r.init
    BY <2>1 DEF Stored
  <2>8. Pure(o.recordings) /\ r.init = g => Pure(recs)
    BY <2>1, <2>3, <2>5, <2>7 DEF Pure
  <2>9. p \in {Outcome(r, recs, o.torn, FALSE), Outcome(r, recs, o.torn \cup {f}, TRUE)}
    BY <1>2 DEF Written, recs
  <2>10. CASE p = Outcome(r, recs, o.torn, FALSE)
    <3>1. p.recorder = r /\ p.recordings = recs /\ p.torn = o.torn /\ p.failed = FALSE
      BY <2>10 DEF Outcome
    <3>. QED
      BY <2>6, <2>8, <3>1
  <2>11. CASE p = Outcome(r, recs, o.torn \cup {f}, TRUE)
    <3>1. p.recorder = r /\ p.recordings = recs /\ p.torn = o.torn \cup {f} /\ p.failed = TRUE
      BY <2>11 DEF Outcome
    <3>. QED
      BY <2>6, <2>8, <3>1
  <2>. QED
    BY <2>9, <2>10, <2>11
<1>. QED
  BY <1>1, <1>2

LEMMA FragmentStored ==
    ASSUME Stored(recorder, recordings, torn), recorder.init # 0, NEW g \in Muxer,
           NEW elapsed \in BOOLEAN, NEW p \in WriteFragment(g, elapsed)
    PROVE  /\ Stored(p.recorder, p.recordings, p.torn) /\ p.failed \in BOOLEAN
           /\ p.recorder.init = recorder.init
           /\ Pure(recordings) /\ recorder.init = g => Pure(p.recordings)
<1>1. PICK o \in (IF recorder.file = 0 \/ elapsed THEN Roll ELSE {AsIs}) : p \in Written(o, g)
  BY DEF WriteFragment
<1>2. /\ Stored(o.recorder, o.recordings, o.torn) /\ o.failed \in BOOLEAN
      /\ o.recorder.init = recorder.init
      /\ ~ o.failed => o.recorder.file # 0
      /\ Pure(recordings) => Pure(o.recordings)
  <2>1. CASE recorder.file = 0 \/ elapsed
    BY <1>1, <2>1, RollStored
  <2>2. CASE ~(recorder.file = 0 \/ elapsed)
    <3>1. o = Outcome(recorder, recordings, torn, FALSE)
      BY <1>1, <2>2 DEF AsIs, Done
    <3>2. o.recorder = recorder /\ o.recordings = recordings /\ o.torn = torn /\ o.failed = FALSE
      BY <3>1 DEF Outcome
    <3>. QED
      BY <2>2, <3>2
  <2>. QED
    BY <2>1, <2>2
<1>. QED
  BY <1>1, <1>2, WrittenStored

LEMMA NewInitStored ==
    ASSUME Stored(recorder, recordings, torn), NEW g \in Muxer, NEW p \in NewInit(g)
    PROVE  /\ Stored(p.recorder, p.recordings, p.torn) /\ p.failed \in BOOLEAN
           /\ p.recorder.init = IF p.failed THEN recorder.init ELSE g
           /\ Pure(recordings) => Pure(p.recordings)
<1>1. PICK o \in Close : p = IF o.failed THEN o ELSE [o EXCEPT !.recorder.init = g]
  BY DEF NewInit
<1>2. /\ Stored(o.recorder, o.recordings, o.torn) /\ o.failed \in BOOLEAN
      /\ o.recorder.init = recorder.init
      /\ ~ o.failed => o.recorder.file = 0
      /\ Pure(recordings) => Pure(o.recordings)
  BY CloseStored
<1>3. CASE o.failed
  BY <1>1, <1>2, <1>3
<1>4. CASE ~ o.failed
  <2>. DEFINE s == [o.recorder EXCEPT !.init = g]
  <2>1. /\ o.recorder \in [init : Muxer \cup {0}, file : 0..Len(o.recordings), index : BOOLEAN]
        /\ o.recorder.file = 0
    BY <1>2, <1>4 DEF Stored
  <2>2. /\ s \in [init : Muxer \cup {0}, file : 0..Len(o.recordings), index : BOOLEAN]
        /\ s.init = g /\ s.file = o.recorder.file /\ s.index = o.recorder.index
    BY <2>1
  <2>3. \E r, recs, t, failed : o = Outcome(r, recs, t, failed)
    BY DEF Close, AsIs, Done
  <2>4. p.recorder = s /\ p.recordings = o.recordings /\ p.torn = o.torn /\ p.failed = o.failed
    BY <1>1, <1>4, <2>3 DEF Outcome
  <2>. HIDE DEF s
  <2>5. Stored(s, o.recordings, o.torn)
    BY <1>2, <2>1, <2>2 DEF Stored
  <2>. QED
    BY <1>2, <1>4, <2>2, <2>4, <2>5
<1>. QED
  BY <1>3, <1>4

(* One child is set, or one reading task goes on.                                *)
LEMMA OneSet ==
    ASSUME NEW S, NEW f \in [Muxer -> S], NEW g \in Muxer, NEW x \in S
    PROVE  /\ [f EXCEPT ![g] = x] \in [Muxer -> S] /\ [f EXCEPT ![g] = x][g] = x
           /\ \A h \in Muxer \ {g} : [f EXCEPT ![g] = x][h] = f[h]
OBVIOUS

LEMMA EnsureKept == ASSUME MediaInv, Ensure PROVE MediaInv'
<1>1. /\ UNCHANGED <<ready, live, viewer, recorder, recordings, torn, record>>
      /\ worker = "idle"
  BY DEF Ensure, watch, storing
<1>2. CASE Spend("faults") /\ UNCHANGED <<worker, muxers, child, pipe, reader, overlap>>
  <2>1. left' \in [Bound -> Nat]
    BY <1>2, Bounded DEF MediaInv, MediaTypeOK
  <2>2. MediaTypeOK' /\ Numbered'
    BY <1>1, <1>2, <2>1 DEF MediaInv, MediaTypeOK, Numbered, OneChild
  <2>3. Stored(recorder, recordings, torn)' /\ Passed' /\ Channel' /\ Apart'
    BY <1>1, <1>2 DEF MediaInv, Stored, Passed, Channel, Apart, NeverMixed, Pure, Unread
  <2>. QED
    BY <2>2, <2>3 DEF MediaInv
<1>3. CASE /\ muxers + 1 \in Muxer
           /\ worker' = "running"
           /\ muxers' = muxers + 1
           /\ child' = [child EXCEPT ![muxers + 1] = "running"]
           /\ reader' = [reader EXCEPT ![muxers + 1] = "reading"]
           /\ overlap' = (overlap \/ Unread # {})
           /\ UNCHANGED <<pipe, left>>
  <2>. DEFINE new == muxers + 1
  <2>1. /\ child \in [Muxer -> {"none", "running", "exited"}] /\ reader \in [Muxer -> Reader]
        /\ "reading" \in Reader /\ overlap \in BOOLEAN /\ muxers \in Muxer \cup {0}
    BY DEF MediaInv, MediaTypeOK, Reader
  <2>2. /\ child' \in [Muxer -> {"none", "running", "exited"}] /\ child'[new] = "running"
        /\ reader' \in [Muxer -> Reader] /\ reader'[new] = "reading"
        /\ \A g \in Muxer \ {new} : child'[g] = child[g] /\ reader'[g] = reader[g]
    BY <1>3, <2>1, OneSet
  <2>3. /\ new \in Muxer /\ new > muxers
        /\ \A g \in Muxer : g > new => g > muxers /\ g # new
    BY <1>3, <2>1 DEF Muxer
  <2>4. overlap' \in BOOLEAN
    BY <1>3, <2>1
  <2>. HIDE DEF new
  <2>5. muxers' = new /\ new \notin ready
    BY <1>3, <2>3 DEF new, MediaInv, Numbered
  <2>6. MediaTypeOK'
    BY <1>1, <1>3, <2>2, <2>3, <2>4, <2>5 DEF MediaInv, MediaTypeOK
  <2>7. Numbered'
    <3>1. \A g \in Muxer : child[g] # "running"
      BY <1>1 DEF MediaInv, Numbered, OneChild
    <3>. QED
      BY <1>1, <1>3, <2>2, <2>3, <2>5, <3>1 DEF MediaInv, Numbered, OneChild
  <2>8. Stored(recorder, recordings, torn)' /\ Channel'
    BY <1>1 DEF MediaInv, Stored, Channel
  <2>9. Passed'
    BY <1>1, <2>2, <2>3, <2>5 DEF MediaInv, Passed
  <2>10. Apart'
    <3>. SUFFICES ASSUME ~ overlap' PROVE Apart'
      BY DEF Apart
    <3>1. ~ overlap /\ Unread = {}
      BY <1>3
    <3>2. \A g \in Muxer \ {new} : reader[g] \in {"none", "ended"}
      BY <3>1 DEF Unread
    <3>3. NeverMixed' /\ Pure(recordings)'
      BY <1>1, <3>1 DEF MediaInv, Apart, NeverMixed, Pure
    <3>4. \A g \in Unread' : g = muxers'
      BY <2>2, <2>5, <3>2 DEF Unread
    <3>. QED
      BY <1>1, <2>2, <2>5, <3>3, <3>4 DEF Apart
  <2>. QED
    BY <2>6, <2>7, <2>8, <2>9, <2>10 DEF MediaInv
<1>. QED
  BY <1>2, <1>3 DEF Ensure

(* Steps of the muxer and its child: what is read and stored stays as it is.      *)
LEMMA ChildKept ==
    ASSUME MediaInv, NEW g \in Muxer,
           UNCHANGED <<muxers, reader, ready, live, viewer, recorder, recordings, torn, record, overlap>>,
           left' \in [Bound -> Nat], pipe' \in [Muxer -> 0..Pipe],
           \/ UNCHANGED <<worker, child>>
           \/ child' = [child EXCEPT ![g] = "exited"] /\ child[g] # "none" /\ worker' = worker
           \/ child' = [child EXCEPT ![g] = "exited"] /\ g = muxers /\ worker' = "idle"
    PROVE  MediaInv'
<1>1. child \in [Muxer -> {"none", "running", "exited"}]
  BY DEF MediaInv, MediaTypeOK
<1>2. /\ child' \in [Muxer -> {"none", "running", "exited"}]
      /\ \A h \in Muxer : child'[h] = child[h] \/ (h = g /\ child'[h] = "exited")
  <2>1. CASE child' = [child EXCEPT ![g] = "exited"]
    BY <1>1, <2>1, OneSet
  <2>. QED
    BY <1>1, <2>1
<1>3. MediaTypeOK'
  BY <1>2 DEF MediaInv, MediaTypeOK
<1>4. Numbered'
  <2>1. \A h \in Muxer : h > muxers => child'[h] = "none"
    <3>1. ASSUME NEW h \in Muxer, h > muxers PROVE child'[h] = "none"
      <4>1. child[h] = "none" /\ h # muxers
        BY <3>1 DEF MediaInv, Numbered, MediaTypeOK, Muxer
      <4>2. CASE child' = [child EXCEPT ![g] = "exited"] /\ child[g] # "none"
        BY <1>1, <4>1, <4>2
      <4>3. CASE child' = [child EXCEPT ![g] = "exited"] /\ g = muxers
        BY <1>1, <4>1, <4>3
      <4>. QED
        BY <4>1, <4>2, <4>3
    <3>. QED
      BY <3>1
  <2>2. OneChild'
    <3>1. ASSUME NEW h \in Muxer, child'[h] = "running" PROVE worker' = "running" /\ h = muxers
      <4>1. child[h] = "running"
        BY <1>2, <3>1
      <4>2. worker = "running" /\ h = muxers
        BY <4>1 DEF MediaInv, Numbered, OneChild
      <4>3. ~ (g = muxers /\ worker' = "idle" /\ child' = [child EXCEPT ![g] = "exited"])
        BY <1>1, <3>1, <4>2
      <4>. QED
        BY <4>2, <4>3
    <3>. QED
      BY <3>1 DEF OneChild
  <2>. QED
    BY <2>1, <2>2 DEF MediaInv, Numbered
<1>5. Stored(recorder, recordings, torn)' /\ Passed' /\ Channel' /\ Apart'
  BY DEF MediaInv, Stored, Passed, Channel, Apart, NeverMixed, Pure, Unread
<1>. QED
  BY <1>3, <1>4, <1>5 DEF MediaInv

LEMMA MuxerKept ==
    ASSUME MediaInv,
           \/ ChildGone \/ SendFails
           \/ \E g \in Muxer : Emit(g) \/ Exit(g) \/ BrokenPipe(g)
    PROVE  MediaInv'
<1>0. left \in [Bound -> Nat] /\ pipe \in [Muxer -> 0..Pipe] /\ worker \in {"idle", "running"}
  BY DEF MediaInv, MediaTypeOK
<1>1. CASE ChildGone \/ SendFails
  <2>1. muxers \in Muxer
    BY <1>1 DEF ChildGone, SendFails, MediaInv, Numbered
  <2>2. left' \in [Bound -> Nat]
    BY <1>0, <1>1, Bounded DEF ChildGone, SendFails
  <2>3. /\ worker' = "idle" /\ child' = [child EXCEPT ![muxers] = "exited"]
        /\ UNCHANGED <<muxers, pipe, reader, ready, live, viewer, recorder, recordings, torn, record, overlap>>
    BY <1>1 DEF ChildGone, SendFails, Finish, reading, watch, storing
  <2>. QED
    BY <1>0, <2>1, <2>2, <2>3, ChildKept
<1>2. ASSUME NEW g \in Muxer, Emit(g) PROVE MediaInv'
  <2>1. /\ UNCHANGED <<worker, muxers, child, reader, ready, live, viewer, recorder, recordings, torn, record,
                       overlap, left>>
        /\ pipe' = [pipe EXCEPT ![g] = pipe[g] + 1] /\ pipe[g] < Pipe
    BY <1>2 DEF Emit, reading, watch, storing
  <2>2. pipe' \in [Muxer -> 0..Pipe]
    <3>1. pipe[g] + 1 \in 0..Pipe
      BY <1>0, <2>1
    <3>. QED
      BY <1>0, <2>1, <3>1, OneSet
  <2>. QED
    BY <1>0, <2>1, <2>2, ChildKept
<1>3. ASSUME NEW g \in Muxer, Exit(g) \/ BrokenPipe(g) PROVE MediaInv'
  <2>1. /\ UNCHANGED <<worker, muxers, pipe, reader, ready, live, viewer, recorder, recordings, torn, record,
                       overlap>>
        /\ child' = [child EXCEPT ![g] = "exited"] /\ child[g] = "running"
    BY <1>3 DEF Exit, BrokenPipe, reading, watch, storing
  <2>2. left' \in [Bound -> Nat]
    BY <1>0, <1>3, Bounded DEF Exit, BrokenPipe
  <2>. QED
    BY <1>0, <2>1, <2>2, ChildKept
<1>. QED
  BY <1>1, <1>2, <1>3

(* A reading task goes on, whatever it does to the recorder and the viewers.       *)
LEMMA ReaderKept ==
    ASSUME MediaInv, NEW g \in Muxer, NEW stage \in Reader \ {"none"}, g \in Unread,
           UNCHANGED <<worker, muxers, child, ready, live, record, overlap>>,
           reader' = [reader EXCEPT ![g] = stage],
           left' \in [Bound -> Nat], pipe' \in [Muxer -> 0..Pipe],
           viewer' \in [Viewers -> [init : Muxer \cup {0}, open : BOOLEAN, last : Muxer \cup {0}]],
           Stored(recorder, recordings, torn)', recorder'.init \in {recorder.init, g},
           stage = "init_live" => recorder'.init = g,
           stage \in {"moof", "store", "publish"} => g \in ready,
           Channel', ~ overlap => NeverMixed' /\ Pure(recordings)'
    PROVE  MediaInv'
<1>1. /\ reader' \in [Muxer -> Reader] /\ reader'[g] = stage
      /\ \A h \in Muxer \ {g} : reader'[h] = reader[h]
  BY OneSet DEF MediaInv, MediaTypeOK
<1>2. reader[g] \notin {"none", "ended"} /\ g # 0
  BY DEF Unread, Muxer
<1>3. MediaTypeOK'
  BY <1>1 DEF MediaInv, MediaTypeOK, Stored, Recording
<1>4. Numbered'
  BY <1>1, <1>2 DEF MediaInv, Numbered, OneChild
<1>5. Passed'
  BY <1>1, <1>2 DEF MediaInv, Passed
<1>6. Apart'
  <2>. SUFFICES ASSUME ~ overlap PROVE Apart'
    BY DEF Apart
  <2>1. /\ \A h \in Unread : h = muxers
        /\ g \in ready => recorder.init = g /\ live = g
        /\ g = muxers
    BY DEF MediaInv, Apart
  <2>2. \A h \in Unread' : h = muxers
    BY <1>1, <2>1 DEF Unread
  <2>. QED
    BY <1>1, <2>1, <2>2 DEF Apart
<1>. QED
  BY <1>3, <1>4, <1>5, <1>6 DEF MediaInv

LEMMA ReadKept ==
    ASSUME MediaInv, NEW g \in Muxer, ReadMoof(g) \/ ReadMdat(g) \/ EndOfFile(g)
    PROVE  MediaInv'
<1>1. /\ UNCHANGED <<worker, muxers, child, ready, live, viewer, recorder, recordings, torn, record,
                     overlap, left>>
      /\ reader[g] \in {"reading", "moof"}
  BY DEF ReadMoof, ReadMdat, EndOfFile, At, muxing, watch, storing
<1>2. PICK stage \in {"moof", "init_store", "store", "ended"} :
          reader' = [reader EXCEPT ![g] = stage] /\ (stage \in {"moof", "store"} => g \in ready)
  <2>1. CASE ReadMoof(g)
    BY <2>1 DEF ReadMoof, Proceed
  <2>2. CASE ReadMdat(g)
    <3>1. g \in ready
      BY <2>2 DEF ReadMdat, At, MediaInv, Passed
    <3>. QED
      BY <2>2, <3>1 DEF ReadMdat, Proceed
  <2>3. CASE EndOfFile(g)
    BY <2>3 DEF EndOfFile, Proceed
  <2>. QED
    BY <2>1, <2>2, <2>3
<1>3. pipe' \in [Muxer -> 0..Pipe]
  <2>1. pipe \in [Muxer -> 0..Pipe]
    BY DEF MediaInv, MediaTypeOK
  <2>2. CASE ReadMoof(g)
    <3>1. pipe[g] > 0 /\ pipe' = [pipe EXCEPT ![g] = pipe[g] - 1]
      BY <2>2 DEF ReadMoof
    <3>2. pipe[g] - 1 \in 0..Pipe
      BY <2>1, <3>1
    <3>. QED
      BY <2>1, <3>1, <3>2, OneSet
  <2>3. CASE ReadMdat(g) \/ EndOfFile(g)
    BY <2>1, <2>3 DEF ReadMdat, EndOfFile, muxing
  <2>. QED
    BY <2>2, <2>3
<1>4. g \in Unread /\ stage \in Reader \ {"none"}
  BY <1>1 DEF Unread, Reader
<1>5. /\ left' \in [Bound -> Nat]
      /\ viewer' \in [Viewers -> [init : Muxer \cup {0}, open : BOOLEAN, last : Muxer \cup {0}]]
  BY <1>1 DEF MediaInv, MediaTypeOK
<1>6. Stored(recorder, recordings, torn)' /\ recorder'.init = recorder.init /\ Channel'
  BY <1>1 DEF MediaInv, Stored, Channel
<1>7. ~ overlap => NeverMixed' /\ Pure(recordings)'
  BY <1>1 DEF MediaInv, Apart, NeverMixed, Pure
<1>. QED
  BY <1>1, <1>2, <1>3, <1>4, <1>5, <1>6, <1>7, ReaderKept

LEMMA Happened ==
    ASSUME left \in [Bound -> Nat], NEW o, NEW rolled \in BOOLEAN, o.failed \in BOOLEAN, Happens(o, rolled)
    PROVE  /\ left' \in [Bound -> Nat]
           /\ recorder' = o.recorder /\ recordings' = o.recordings /\ torn' = o.torn
<1>1. /\ o.failed => left["faults"] > 0
      /\ rolled => left["rolls"] > 0
      /\ left' = [left EXCEPT !["faults"] = IF o.failed THEN @ - 1 ELSE @,
                              !["rolls"] = IF rolled THEN @ - 1 ELSE @]
  BY DEF Happens
<1>2. left["faults"] \in Nat /\ left["rolls"] \in Nat
  OBVIOUS
<1>3. /\ (IF o.failed THEN left["faults"] - 1 ELSE left["faults"]) \in Nat
      /\ (IF rolled THEN left["rolls"] - 1 ELSE left["rolls"]) \in Nat
  BY <1>1, <1>2
<1>4. left' \in [Bound -> Nat]
  BY <1>1, <1>3
<1>. QED
  BY <1>4 DEF Happens

LEMMA StoreKept == ASSUME MediaInv, NEW g \in Muxer, StoreInit(g) \/ Store(g) PROVE MediaInv'
<1>1. /\ UNCHANGED <<worker, muxers, child, pipe, ready, live, viewer, record, overlap>>
      /\ reader[g] \in {"init_store", "store"}
  BY DEF StoreInit, Store, At, muxing, watch
<1>2. /\ Stored(recorder, recordings, torn) /\ left \in [Bound -> Nat] /\ g \in Unread
      /\ pipe' \in [Muxer -> 0..Pipe]
      /\ viewer' \in [Viewers -> [init : Muxer \cup {0}, open : BOOLEAN, last : Muxer \cup {0}]]
  BY <1>1 DEF MediaInv, MediaTypeOK, Unread
<1>3. Channel' /\ (~ overlap => NeverMixed')
  BY <1>1 DEF MediaInv, Apart, Channel, NeverMixed
<1>4. CASE StoreInit(g)
  <2>1. PICK o \in NewInit(g) : Happens(o, FALSE) /\ Proceed(g, IF o.failed THEN "ended" ELSE "init_live")
    BY <1>4 DEF StoreInit
  <2>2. /\ Stored(o.recorder, o.recordings, o.torn) /\ o.failed \in BOOLEAN
        /\ o.recorder.init = IF o.failed THEN recorder.init ELSE g
        /\ Pure(recordings) => Pure(o.recordings)
    BY <1>2, NewInitStored
  <2>3. /\ left' \in [Bound -> Nat]
        /\ recorder' = o.recorder /\ recordings' = o.recordings /\ torn' = o.torn
    BY <1>2, <2>1, <2>2, Happened
  <2>4. Stored(recorder, recordings, torn)' /\ (~ overlap => Pure(recordings)')
    BY <2>2, <2>3 DEF Stored, Pure, MediaInv, Apart
  <2>5. PICK stage \in {"ended", "init_live"} :
            reader' = [reader EXCEPT ![g] = stage] /\ (stage = "init_live" => recorder'.init = g)
    BY <2>1, <2>2, <2>3 DEF Proceed
  <2>6. stage \in Reader \ {"none"} /\ recorder'.init \in {recorder.init, g}
    BY <2>2, <2>3 DEF Reader
  <2>. QED
    BY <1>1, <1>2, <1>3, <2>3, <2>4, <2>5, <2>6, ReaderKept
<1>5. CASE Store(g)
  <2>0. PICK elapsed \in BOOLEAN :
            \E o \in IF record THEN WriteFragment(g, elapsed) ELSE Close :
                Happens(o, elapsed) /\ Proceed(g, IF o.failed THEN "ended" ELSE "publish")
    BY <1>5 DEF Store
  <2>1. PICK o \in (IF record THEN WriteFragment(g, elapsed) ELSE Close) :
            Happens(o, elapsed) /\ Proceed(g, IF o.failed THEN "ended" ELSE "publish")
    BY <2>0
  <2>2. g \in ready /\ recorder.init # 0
    BY <1>5 DEF Store, At, MediaInv, Passed
  <2>3. ~ overlap => Pure(recordings) /\ recorder.init = g
    BY <1>2, <2>2 DEF MediaInv, Apart
  <2>4. /\ Stored(o.recorder, o.recordings, o.torn) /\ o.failed \in BOOLEAN
        /\ o.recorder.init = recorder.init
        /\ ~ overlap => Pure(o.recordings)
    <3>1. CASE record
      BY <1>2, <2>1, <2>2, <2>3, <3>1, FragmentStored
    <3>2. CASE ~ record
      BY <1>2, <2>1, <2>3, <3>2, CloseStored
    <3>. QED
      BY <3>1, <3>2
  <2>5. /\ left' \in [Bound -> Nat]
        /\ recorder' = o.recorder /\ recordings' = o.recordings /\ torn' = o.torn
    BY <1>2, <2>1, <2>4, Happened
  <2>6. Stored(recorder, recordings, torn)' /\ (~ overlap => Pure(recordings)')
    BY <2>4, <2>5 DEF Stored, Pure
  <2>7. PICK stage \in {"ended", "publish"} : reader' = [reader EXCEPT ![g] = stage]
    BY <2>1 DEF Proceed
  <2>8. stage \in Reader \ {"none"} /\ recorder'.init \in {recorder.init, g}
    BY <2>4, <2>5 DEF Reader
  <2>. QED
    BY <1>1, <1>2, <1>3, <2>2, <2>5, <2>6, <2>7, <2>8, ReaderKept
<1>. QED
  BY <1>4, <1>5

ViewerType == [init : Muxer \cup {0}, open : BOOLEAN, last : Muxer \cup {0}]

LEMMA LiveInitKept == ASSUME MediaInv, NEW g \in Muxer, LiveInit(g) PROVE MediaInv'
<1>1. /\ UNCHANGED <<worker, muxers, child, pipe, recorder, recordings, torn, record, overlap, left>>
      /\ reader[g] = "init_live" /\ reader' = [reader EXCEPT ![g] = "moof"]
      /\ live' = g /\ ready' = ready \cup {g}
      /\ viewer' = [v \in Viewers |-> [viewer[v] EXCEPT !.open = FALSE]]
  BY DEF LiveInit, At, Proceed, muxing, storing
<1>2. /\ viewer \in [Viewers -> ViewerType] /\ reader \in [Muxer -> Reader]
  BY DEF MediaInv, MediaTypeOK, ViewerType
<1>3. ASSUME NEW v \in Viewers
      PROVE  /\ viewer'[v] \in ViewerType /\ viewer'[v].open = FALSE
             /\ viewer'[v].init = viewer[v].init /\ viewer'[v].last = viewer[v].last
  <2>1. viewer[v] \in ViewerType /\ viewer'[v] = [viewer[v] EXCEPT !.open = FALSE]
    BY <1>1, <1>2
  <2>. QED
    BY <2>1 DEF ViewerType
<1>4. viewer' \in [Viewers -> ViewerType]
  BY <1>1, <1>3
<1>5. /\ reader' \in [Muxer -> Reader] /\ reader'[g] = "moof"
      /\ \A h \in Muxer \ {g} : reader'[h] = reader[h]
  BY <1>1, <1>2, OneSet DEF Reader
<1>6. MediaTypeOK'
  BY <1>1, <1>4, <1>5 DEF MediaInv, MediaTypeOK, ViewerType
<1>7. Numbered'
  BY <1>1, <1>5 DEF MediaInv, Numbered, OneChild
<1>8. Stored(recorder, recordings, torn)'
  BY <1>1 DEF MediaInv, Stored
<1>9. Passed'
  BY <1>1, <1>5 DEF MediaInv, Passed
<1>10. Channel'
  BY <1>3 DEF Channel
<1>11. Apart'
  <2>. SUFFICES ASSUME ~ overlap PROVE Apart'
    BY <1>1 DEF Apart
  <2>1. g \in Unread
    BY <1>1 DEF Unread
  <2>2. /\ NeverMixed /\ Pure(recordings)
        /\ g = muxers /\ recorder.init = g
        /\ \A h \in Unread : h = muxers
    BY <1>1, <2>1 DEF MediaInv, Apart
  <2>3. NeverMixed'
    BY <1>3, <2>2 DEF NeverMixed
  <2>4. \A h \in Unread' : h = muxers'
    BY <1>1, <1>5, <2>1, <2>2 DEF Unread
  <2>. QED
    BY <1>1, <1>5, <2>2, <2>3, <2>4 DEF Apart, Pure
<1>. QED
  BY <1>6, <1>7, <1>8, <1>9, <1>10, <1>11 DEF MediaInv

(* A fragment is sent to the viewers that are connected, which have the init of the *)
(* live channel.                                                             *)
LEMMA PublishKept == ASSUME MediaInv, NEW g \in Muxer, Publish(g) PROVE MediaInv'
<1>1. /\ UNCHANGED <<worker, muxers, child, pipe, ready, live, recorder, recordings, torn, record,
                     overlap, left>>
      /\ reader[g] = "publish" /\ reader' = [reader EXCEPT ![g] = "reading"]
  BY DEF Publish, At, Proceed, muxing, storing
<1>2. PICK lagging \in SUBSET {v \in Viewers : viewer[v].open} :
          viewer' = [v \in Viewers |->
                       IF viewer[v].open /\ v \notin lagging
                       THEN [viewer[v] EXCEPT !.last = g] ELSE viewer[v]]
  BY DEF Publish
<1>3. viewer \in [Viewers -> ViewerType]
  BY DEF MediaInv, MediaTypeOK, ViewerType
<1>4. ASSUME NEW v \in Viewers
      PROVE  /\ viewer'[v] \in ViewerType
             /\ viewer'[v].open = viewer[v].open /\ viewer'[v].init = viewer[v].init
             /\ viewer'[v].last = viewer[v].last \/ (viewer[v].open /\ viewer'[v].last = g)
  <2>1. viewer[v] \in ViewerType
    BY <1>3
  <2>2. /\ viewer'[v] = [viewer[v] EXCEPT !.last = g] /\ viewer[v].open
        \/ viewer'[v] = viewer[v]
    BY <1>2
  <2>. QED
    BY <2>1, <2>2 DEF ViewerType
<1>5. viewer' \in [Viewers -> ViewerType]
  BY <1>2, <1>4
<1>6. Channel'
  BY <1>1, <1>4 DEF MediaInv, Channel
<1>7. g \in Unread
  BY <1>1 DEF Unread
<1>8. ~ overlap => NeverMixed' /\ Pure(recordings)'
  <2>. SUFFICES ASSUME ~ overlap PROVE NeverMixed' /\ Pure(recordings)'
    OBVIOUS
  <2>1. live = g /\ NeverMixed /\ Pure(recordings)
    BY <1>1, <1>7 DEF MediaInv, Apart, Passed
  <2>2. \A v \in Viewers : viewer[v].open => viewer[v].init = g
    BY <2>1 DEF MediaInv, Channel
  <2>3. NeverMixed'
    BY <1>4, <2>1, <2>2 DEF NeverMixed
  <2>. QED
    BY <1>1, <2>1, <2>3 DEF Pure
<1>9. /\ left' \in [Bound -> Nat] /\ pipe' \in [Muxer -> 0..Pipe]
      /\ Stored(recorder, recordings, torn)' /\ recorder'.init = recorder.init
  BY <1>1 DEF MediaInv, MediaTypeOK, Stored
<1>10. "reading" \in Reader \ {"none"}
  BY DEF Reader
<1>. QED
  BY <1>1, <1>5, <1>6, <1>7, <1>8, <1>9, <1>10, ReaderKept DEF ViewerType

LEMMA SubscribeKept == ASSUME MediaInv, NEW v \in Viewers, Subscribe(v) PROVE MediaInv'
<1>1. /\ UNCHANGED <<worker, muxers, child, pipe, reader, ready, live, recorder, recordings, torn, record,
                     overlap, left>>
      /\ viewer' = [viewer EXCEPT ![v] = [init |-> live, open |-> TRUE, last |-> 0]]
  BY DEF Subscribe, muxing, reading, storing
<1>2. viewer \in [Viewers -> ViewerType] /\ live \in Muxer \cup {0}
  BY DEF MediaInv, MediaTypeOK, ViewerType
<1>3. [init |-> live, open |-> TRUE, last |-> 0] \in ViewerType
  BY <1>2 DEF ViewerType
<1>4. /\ viewer' \in [Viewers -> ViewerType]
      /\ viewer'[v].init = live /\ viewer'[v].last = 0
      /\ \A w \in Viewers \ {v} : viewer'[w] = viewer[w]
  BY <1>1, <1>2, <1>3
<1>5. MediaTypeOK' /\ Numbered'
  BY <1>1, <1>4 DEF MediaInv, MediaTypeOK, Numbered, OneChild, ViewerType
<1>6. Stored(recorder, recordings, torn)' /\ Passed'
  BY <1>1 DEF MediaInv, Stored, Passed
<1>7. Channel'
  BY <1>1, <1>4 DEF MediaInv, Channel
<1>8. Apart'
  BY <1>1, <1>4 DEF MediaInv, Apart, NeverMixed, Pure, Unread
<1>. QED
  BY <1>5, <1>6, <1>7, <1>8 DEF MediaInv

(* What clean() removes is not the recording that is open.                        *)
LEMMA CleanKept == ASSUME MediaInv, Clean PROVE MediaInv'
<1>1. UNCHANGED <<worker, muxers, child, pipe, reader, ready, live, viewer, recorder, torn, record,
                  overlap, left>>
  BY DEF Clean, muxing, reading, watch
<1>2. PICK n \in DOMAIN recordings :
          recordings' = [m \in DOMAIN recordings |->
                           IF m <= n /\ m \notin Protected
                           THEN [recordings[m] EXCEPT !.kept = FALSE, !.holds = {}]
                           ELSE recordings[m]]
  BY DEF Clean
<1>3. /\ recordings \in Seq(Recording) /\ Len(recordings) \in Nat
      /\ DOMAIN recordings = 1..Len(recordings)
  BY LenProperties DEF MediaInv, Stored
<1>4. ASSUME NEW m \in DOMAIN recordings
      PROVE  /\ recordings'[m] \in Recording
             /\ recordings'[m].init = recordings[m].init
             /\ recordings'[m].finished = recordings[m].finished
             /\ recordings'[m].holds \subseteq recordings[m].holds
             /\ m = recorder.file => recordings'[m] = recordings[m]
  <2>1. recordings[m] \in Recording
    BY <1>3, ElementOfSeq
  <2>2. \/ recordings'[m] = recordings[m]
        \/ /\ recordings'[m] = [recordings[m] EXCEPT !.kept = FALSE, !.holds = {}]
           /\ m # recorder.file
    BY <1>2 DEF Protected
  <2>. QED
    BY <2>1, <2>2 DEF Recording
<1>5. /\ recordings' \in Seq(Recording) /\ Len(recordings') = Len(recordings)
      /\ DOMAIN recordings' = DOMAIN recordings
  <2>1. recordings' \in [1..Len(recordings) -> Recording]
    BY <1>2, <1>3, <1>4
  <2>. HIDE DEF Recording
  <2>2. recordings' \in Seq(Recording)
    BY <1>3, <2>1, SeqDef
  <2>3. DOMAIN recordings' = 1..Len(recordings) /\ DOMAIN recordings' = 1..Len(recordings')
    BY <2>1, <2>2, LenProperties
  <2>4. Len(recordings') \in Nat
    BY <2>2, LenProperties
  <2>5. Len(recordings') = Len(recordings)
    BY <1>3, <2>3, <2>4
  <2>. QED
    BY <1>3, <2>2, <2>3, <2>5
<1>6. Stored(recorder, recordings, torn)'
  <2>1. recorder.file # 0 => recorder.file \in DOMAIN recordings
    BY <1>3 DEF MediaInv, Stored
  <2>. QED
    BY <1>1, <1>4, <1>5, <2>1 DEF MediaInv, Stored
<1>7. Pure(recordings) => Pure(recordings')
  BY <1>4, <1>5 DEF Pure
<1>8. MediaTypeOK'
  BY <1>1, <1>5, <1>6 DEF MediaInv, MediaTypeOK, Stored, Recording
<1>9. Numbered' /\ Passed' /\ Channel'
  BY <1>1 DEF MediaInv, Numbered, OneChild, Passed, Channel
<1>10. Apart'
  BY <1>1, <1>7 DEF MediaInv, Apart, NeverMixed, Unread
<1>. QED
  BY <1>6, <1>8, <1>9, <1>10 DEF MediaInv

LEMMA IdleKept == ASSUME MediaInv, Switch \/ UNCHANGED mediaVars PROVE MediaInv'
<1>1. /\ UNCHANGED <<worker, muxers, child, pipe, reader, ready, live, viewer>>
      /\ UNCHANGED <<recorder, recordings, torn, overlap>>
  BY DEF Switch, mediaVars, muxing, reading, watch, storing
<1>2. record' \in BOOLEAN /\ left' \in [Bound -> Nat]
  BY Bounded DEF Switch, mediaVars, MediaInv, MediaTypeOK
<1>3. MediaTypeOK' /\ Numbered'
  BY <1>1, <1>2 DEF MediaInv, MediaTypeOK, Numbered, OneChild
<1>4. Stored(recorder, recordings, torn)' /\ Passed' /\ Channel' /\ Apart'
  BY <1>1 DEF MediaInv, Stored, Passed, Channel, Apart, NeverMixed, Pure, Unread
<1>. QED
  BY <1>3, <1>4 DEF MediaInv

LEMMA MediaStep == MediaInv /\ [MediaNext]_mediaVars => MediaInv'
<1>. SUFFICES ASSUME MediaInv, [MediaNext]_mediaVars PROVE MediaInv'
  OBVIOUS
<1>1. CASE Ensure
  BY <1>1, EnsureKept
<1>2. CASE ChildGone \/ SendFails
  BY <1>2, MuxerKept
<1>3. ASSUME NEW g \in Muxer, Emit(g) \/ Exit(g) \/ BrokenPipe(g) PROVE MediaInv'
  BY <1>3, MuxerKept
<1>4. ASSUME NEW g \in Muxer, Consume(g) PROVE MediaInv'
  BY <1>4, ReadKept, StoreKept, LiveInitKept, PublishKept DEF Consume
<1>5. CASE \E v \in Viewers : Subscribe(v)
  BY <1>5, SubscribeKept
<1>6. CASE Clean
  BY <1>6, CleanKept
<1>7. CASE Switch \/ UNCHANGED mediaVars
  BY <1>7, IdleKept
<1>. QED
  BY <1>1, <1>2, <1>3, <1>4, <1>5, <1>6, <1>7 DEF MediaNext

LEMMA InitMedia == MediaInit => MediaInv
<1>. SUFFICES ASSUME MediaInit PROVE MediaInv
  OBVIOUS
<1>1. /\ worker = "idle" /\ muxers = 0 /\ ready = {} /\ live = 0
      /\ child = [g \in Muxer |-> "none"] /\ pipe = [g \in Muxer |-> 0]
      /\ reader = [g \in Muxer |-> "none"] /\ left \in Budgets /\ record = TRUE /\ overlap = FALSE
      /\ viewer = [v \in Viewers |-> [init |-> 0, open |-> FALSE, last |-> 0]]
      /\ recorder = [init |-> 0, file |-> 0, index |-> FALSE] /\ recordings = <<>> /\ torn = {}
  BY DEF MediaInit
<1>2. recordings \in Seq(Recording) /\ Len(recordings) = 0 /\ DOMAIN recordings = {}
  BY <1>1, EmptySeq, LenProperties
<1>3. recorder \in [init : Muxer \cup {0}, file : 0..Len(recordings), index : BOOLEAN]
  BY <1>1, <1>2
<1>4. Stored(recorder, recordings, torn)
  BY <1>1, <1>2, <1>3 DEF Stored
<1>5. viewer \in [Viewers -> [init : Muxer \cup {0}, open : BOOLEAN, last : Muxer \cup {0}]]
  BY <1>1
<1>6. /\ child \in [Muxer -> {"none", "running", "exited"}] /\ pipe \in [Muxer -> 0..Pipe]
      /\ reader \in [Muxer -> Reader] /\ left \in [Bound -> Nat]
  BY <1>1 DEF Reader
<1>7. MediaTypeOK
  BY <1>1, <1>4, <1>5, <1>6 DEF MediaTypeOK, Stored, Recording
<1>8. Numbered /\ Passed /\ Channel
  BY <1>1 DEF Numbered, OneChild, Passed, Channel
<1>9. Apart
  BY <1>1, <1>2 DEF Apart, NeverMixed, Pure, Unread
<1>. QED
  BY <1>4, <1>7, <1>8, <1>9 DEF MediaInv

LEMMA MediaAlways == MediaSpec => []MediaInv
BY InitMedia, MediaStep, PTL DEF MediaSpec

(* The state of mux.rs, live.rs and media.rs keeps its shape.                      *)
THEOREM MediaTypeCorrect == MediaSpec => []MediaTypeOK
<1>1. MediaInv => MediaTypeOK
  BY DEF MediaInv
<1>. QED
  BY <1>1, MediaAlways, PTL

(* ensure never starts an FFmpeg beside another, and no viewer and no recording gets *)
(* a fragment of another init, unless two reading tasks overlapped (mux.rs).         *)
THEOREM StreamsAreApart == MediaSpec => []MuxersApart
<1>1. MediaInv => MuxersApart
  BY DEF MediaInv, Numbered, Apart, MuxersApart, ApartUnlessOverlap, Pure
<1>. QED
  BY <1>1, MediaAlways, PTL

(* Whoever closes a recording finishes its index, and none is removed while it is     *)
(* open (media.rs), however often writes fail, segments fill and the cleaner runs.    *)
THEOREM RecordingsAreKept == MediaSpec => []RecordingsKept
<1>1. MediaInv => RecordingsKept
  BY DEF MediaInv, Stored, RecordingsKept, IndexFinished
<1>. QED
  BY <1>1, MediaAlways, PTL
=============================================================================
