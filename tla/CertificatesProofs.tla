------------------------ MODULE CertificatesProofs ------------------------
(***************************************************************************)
(* Proofs about Certificates: types, that no TXT record is forgotten, that     *)
(* the hub starts again after a crash and that no certificate is issued       *)
(* without need, whatever fails however often.                              *)
(***************************************************************************)
EXTENDS Certificates, TLAPS

(***************************************************************************)
(* What the task knows at its stages: it has issued nothing before it decides  *)
(* to, the record it created has a number; a record is only created when      *)
(* none is in the challenge file, and one that is to leave the file is gone.  *)
(***************************************************************************)
Fresh       == /\ pc \in {"begin", "decide"} => check.issue = "none"
               /\ pc = "created" => check.record # 0
JournalFree == pc \in {"decide", "create", "created"} => journal[d] = 0
RecordGone  == pc = "unlink" => journal[d] \notin txt

(* The PEM files may only differ when there is a bundle in the cache; until    *)
(* then the task works with what is in them.                                *)
PemsWhole   == key_pem # cert_pem => cached["hub"] # 0
FromPems    == cached["hub"] # 0 \/ (check.chain = cert_pem /\ check.key = key_pem)
WorksOnPems ==
    /\ pc \in {"delete", "unlink", "decide"} /\ check.issue = "none" /\ d = "hub"
         => FromPems \/ check.chain = 0
    /\ pc = "deploy" => FromPems
    /\ pc \in {"deploy", "key", "cert", "tls"} => d = "hub"
    /\ pc \in {"key", "cert"} => cached["hub"] # 0
    /\ pc = "store" => check.issue = "ok"
    /\ pc = "sync" => d = "camera"
    /\ check.loading => d = "hub"

(* load() takes up the bundle in the cache, or has failed to.               *)
TakenUp == pc = "pem" => tls # 0 \/ check.failed \/ ~config.local \/ cached["hub"] = 0

(* What a check would find of a target, unless the task is about to put a       *)
(* bundle into the cache (Pending).                                          *)
Source(t) == IF cached[t] # 0 THEN cached[t] ELSE IF t = "hub" THEN cert_pem ELSE 0
Pending   == check.issue = "ok" /\ pc \in {"delete", "unlink", "store"}

(* What is found is of its target and was not given up.                      *)
Owned == \A t \in Target : cached[t] # 0 => names[cached[t]] = t
Saved == \A t \in Target : Source(t) \notin wasted

(* A bundle that was issued is the last there is.                            *)
Issuing ==
    check.issue = "ok" => /\ check.chain = Len(names) /\ names[check.chain] = d
                          /\ cached["hub"] # 0 \/ cert_pem # check.chain
                          /\ Pending => check.chain \notin wasted

(* A check finds the newest bundle of its target that was not given up; it      *)
(* works with that, and orders another only when it has to.                    *)
Newest ==
    \A b \in DOMAIN names \ wasted :
       names[b] \in Target => b <= Source(names[b]) \/ (Pending /\ b = check.chain)
InHand ==
    pc \in {"delete", "unlink", "decide", "create", "created", "ready"} /\ check.issue = "none" =>
       /\ check.chain = Source(d)
       /\ check.chain # 0 => names[check.chain] = d
Needed == pc \in {"create", "created", "ready"} => check.issue = "none" /\ NeedsIssue

(* The four inductive invariants.                                           *)
Typed    == TypeOK /\ Fresh
Recorded == Typed /\ JournalFree /\ RecordGone /\ RecordsFound
Restored == Typed /\ PemsWhole /\ WorksOnPems /\ TakenUp /\ StartsAgain
Renewing == Restored /\ Owned /\ Saved /\ Issuing /\ Newest /\ InHand /\ Needed

-----------------------------------------------------------------------------
(* The local variables that the constructors make.                          *)

LEMMA NoNumber == ASSUME TypeOK PROVE 0 \in Number
<1>1. Len(names) \in Nat
  BY DEF TypeOK
<1>. QED
  BY <1>1 DEF Number

LEMMA NoCheckFields ==
    ASSUME TypeOK
    PROVE  /\ NoCheck \in LocalVariables
           /\ NoCheck.loading = FALSE /\ NoCheck.target = "hub"
           /\ NoCheck.chain = 0 /\ NoCheck.key = 0 /\ NoCheck.issue = "none"
BY DEF TypeOK, NoCheck, LocalVariables, Number, Target

LEMMA RestoringFields ==
    ASSUME TypeOK, NEW b \in Number
    PROVE  /\ Restoring(b) \in LocalVariables
           /\ Restoring(b).chain = b /\ Restoring(b).key = b
           /\ Restoring(b).target = "hub" /\ Restoring(b).issue = "none"
<1>1. NoCheck \in LocalVariables /\ NoCheck.target = "hub" /\ NoCheck.issue = "none"
  BY NoCheckFields
<1>. QED
  BY <1>1 DEF Restoring, LocalVariables

LEMMA HoldingFields ==
    ASSUME TypeOK, NEW b \in Number, NEW k \in Number
    PROVE  /\ Holding(b, k) \in LocalVariables
           /\ Holding(b, k).chain = b /\ Holding(b, k).key = k
           /\ Holding(b, k).target = d /\ Holding(b, k).issue = check.issue
           /\ Holding(b, k).loading = check.loading
BY DEF TypeOK, Holding, LocalVariables, d

LEMMA ComparingFields ==
    ASSUME TypeOK, NEW c \in BOOLEAN
    PROVE  /\ Comparing(c) \in LocalVariables
           /\ Comparing(c).chain = check.chain /\ Comparing(c).key = check.key
           /\ Comparing(c).target = d /\ Comparing(c).issue = check.issue
           /\ Comparing(c).loading = check.loading
BY DEF TypeOK, Comparing, LocalVariables, d

LEMMA ErroneousFields ==
    ASSUME TypeOK
    PROVE  /\ Erroneous \in LocalVariables
           /\ Erroneous.failed = TRUE /\ Erroneous.chain = check.chain
           /\ Erroneous.target = d /\ Erroneous.issue = check.issue
           /\ Erroneous.loading = check.loading
BY DEF TypeOK, Erroneous, LocalVariables, d

LEMMA IssueErroneousFields ==
    ASSUME TypeOK
    PROVE  /\ IssueErroneous \in LocalVariables
           /\ IssueErroneous.target = d /\ IssueErroneous.issue = "failed"
           /\ IssueErroneous.loading = check.loading
BY DEF TypeOK, IssueErroneous, LocalVariables, d

LEMMA CheckFields ==
    ASSUME TypeOK
    PROVE  /\ check.local \in BOOLEAN /\ check.forced \in BOOLEAN /\ check.failed \in BOOLEAN
           /\ check.loading \in BOOLEAN /\ d \in Target
           /\ check.chain \in Number /\ check.key \in Number /\ check.record \in 0..records
BY DEF TypeOK, LocalVariables, d

(* The types of the local variables stay the same, or grow.                  *)
LEMMA SameTypes ==
    ASSUME UNCHANGED <<names, records>>
    PROVE  Number' = Number /\ LocalVariables' = LocalVariables
BY DEF Number, LocalVariables

LEMMA MoreRecords ==
    ASSUME TypeOK, records' = records + 1, UNCHANGED names
    PROVE  /\ Number' = Number /\ LocalVariables \subseteq LocalVariables'
           /\ records' \in 1..records' /\ records' \in Nat
           /\ \A s \in SUBSET (1..records) : s \subseteq 1..records'
           /\ [Target -> 0..records] \subseteq [Target -> 0..records']
<1>1. records \in Nat /\ 0..records \subseteq 0..records' /\ 1..records \subseteq 1..records'
  BY DEF TypeOK
<1>. QED
  BY <1>1 DEF Number, LocalVariables

(* A record just created is the local variable of the task.                  *)
LEMMA CreatedFields ==
    ASSUME TypeOK, records' = records + 1, UNCHANGED names
    PROVE  /\ Created(records') \in LocalVariables'
           /\ Created(records').chain = check.chain /\ Created(records').key = check.key
           /\ Created(records').record = records'
           /\ Created(records').target = d /\ Created(records').issue = check.issue
           /\ Created(records').loading = check.loading
<1>1. check \in LocalVariables' /\ records' \in 0..records'
  BY MoreRecords DEF TypeOK
<1>. QED
  BY <1>1 DEF Created, LocalVariables, d

LEMMA IssuedFields ==
    ASSUME TypeOK, names' = Append(names, d), UNCHANGED records
    PROVE  /\ Issued(Len(names) + 1) \in LocalVariables'
           /\ Issued(Len(names) + 1).chain = Len(names) + 1
           /\ Issued(Len(names) + 1).issue = "ok"
           /\ Issued(Len(names) + 1).target = d
           /\ Issued(Len(names) + 1).loading = check.loading
           /\ names' \in Seq(Target \cup {"other"}) /\ Len(names') = Len(names) + 1
           /\ Number \subseteq Number' /\ Len(names) \in Nat
<1>1. names \in Seq(Target \cup {"other"}) /\ d \in Target
  BY CheckFields DEF TypeOK
<1>2. /\ names' \in Seq(Target \cup {"other"}) /\ Len(names') = Len(names) + 1
      /\ Len(names) \in Nat
  BY <1>1
<1>3. Number \subseteq Number' /\ Len(names) + 1 \in Number'
  BY <1>2 DEF Number
<1>4. check \in LocalVariables'
  BY <1>3 DEF TypeOK, LocalVariables
<1>5. /\ Issued(Len(names) + 1) \in LocalVariables'
      /\ Issued(Len(names) + 1).chain = Len(names) + 1
      /\ Issued(Len(names) + 1).issue = "ok"
      /\ Issued(Len(names) + 1).target = d
      /\ Issued(Len(names) + 1).loading = check.loading
  BY <1>3, <1>4 DEF Issued, LocalVariables, d
<1>. QED
  BY <1>2, <1>3, <1>5

-----------------------------------------------------------------------------
(* The parts that actions have in common.                                   *)

LEMMA SpendType ==
    ASSUME TypeOK, NEW b \in Bound, Spend(b)
    PROVE  left' \in [Bound -> Nat]
BY DEF TypeOK, Spend

LEMMA FaultType == ASSUME TypeOK, Fault PROVE left' \in [Bound -> Nat]
BY SpendType DEF Fault, Bound

(* Where a cleanup leads to, with a chain that is there if one was issued.   *)
LEMMA CleanupLeads ==
    ASSUME NEW c, Cleanup(c)
    PROVE  /\ check' = c /\ pc' \in {"delete", "decide", "store", "next"}
           /\ pc' = "decide" => c.issue = "none" /\ journal[d] = 0
           /\ pc' = "store" => c.issue = "ok"
BY DEF Cleanup, After, To

LEMMA IssueFailsLeads ==
    ASSUME TypeOK, IssueFails
    PROVE  /\ check' = IssueErroneous /\ pc' \in {"delete", "next"}
           /\ check' \in LocalVariables /\ check'.issue = "failed"
           /\ check'.target = d /\ check'.loading = check.loading
<1>1. check' = IssueErroneous /\ pc' \in {"delete", "next"}
  <2>1. IssueErroneous.issue = "failed"
    BY IssueErroneousFields
  <2>. QED
    BY <2>1, CleanupLeads DEF IssueFails
<1>. QED
  BY <1>1, IssueErroneousFields

LEMMA FailedLeads ==
    ASSUME TypeOK, Failed
    PROVE  /\ pc' \in {"pem", "next"} /\ check' \in LocalVariables
           /\ check'.failed = TRUE /\ check'.chain = check.chain
           /\ check'.target = d /\ check'.issue = check.issue
           /\ check'.loading = check.loading
<1>1. pc' \in {"pem", "next"} /\ check' = Erroneous
  BY DEF Failed, Stop, To
<1>. QED
  BY <1>1, ErroneousFields

LEMMA ReadConfigFields ==
    ASSUME TypeOK, ReadConfig
    PROVE  /\ check' \in LocalVariables /\ check'.loading = FALSE
           /\ check'.issue = "none" /\ check'.target \in Target
<1>0. NoCheck \in LocalVariables /\ NoCheck.loading = FALSE /\ NoCheck.issue = "none"
  BY NoCheckFields
<1>. DEFINE first == IF config.local THEN "hub" ELSE "camera"
<1>1. config.local \in BOOLEAN /\ force \in BOOLEAN /\ FALSE \in BOOLEAN
  BY DEF TypeOK
<1>2. first \in Target
  BY DEF Target
<1>3. check' = Checking(config.local, force, FALSE, first)
  BY DEF ReadConfig
<1>. HIDE DEF first
<1>4. /\ Checking(config.local, force, FALSE, first) \in LocalVariables
      /\ Checking(config.local, force, FALSE, first).loading = FALSE
      /\ Checking(config.local, force, FALSE, first).issue = "none"
      /\ Checking(config.local, force, FALSE, first).target = first
  BY <1>0, <1>1, <1>2 DEF Checking, LocalVariables
<1>. QED
  BY <1>2, <1>3, <1>4

LEMMA NextTargetFields ==
    ASSUME TypeOK, NextTarget
    PROVE  /\ check' \in LocalVariables /\ check'.loading = FALSE
           /\ check'.issue = "none" /\ check'.target \in Target
<1>0. NoCheck \in LocalVariables /\ NoCheck.loading = FALSE /\ NoCheck.issue = "none"
  BY NoCheckFields
<1>1. /\ check.local \in BOOLEAN /\ check.forced \in BOOLEAN /\ check.failed \in BOOLEAN
      /\ FALSE \in BOOLEAN
  BY CheckFields
<1>2. "hub" \in Target /\ "camera" \in Target
  BY DEF Target
<1>3. /\ Checking(check.local, check.forced, check.failed, "camera") \in LocalVariables
      /\ Checking(check.local, check.forced, check.failed, "camera").loading = FALSE
      /\ Checking(check.local, check.forced, check.failed, "camera").issue = "none"
      /\ Checking(check.local, check.forced, check.failed, "camera").target = "camera"
  BY <1>0, <1>1, <1>2 DEF Checking, LocalVariables
<1>4. /\ Checking(FALSE, FALSE, check.failed, "hub") \in LocalVariables
      /\ Checking(FALSE, FALSE, check.failed, "hub").loading = FALSE
      /\ Checking(FALSE, FALSE, check.failed, "hub").issue = "none"
      /\ Checking(FALSE, FALSE, check.failed, "hub").target = "hub"
  BY <1>0, <1>1, <1>2 DEF Checking, LocalVariables
<1>. QED
  BY <1>2, <1>3, <1>4 DEF NextTarget

(* What is given up has a number.                                           *)
LEMMA UnsavedType == ASSUME TypeOK PROVE Unsaved \subseteq 1..Len(names)
<1>1. check.issue = "ok" => check.chain # 0
  BY DEF TypeOK
<1>2. check.chain \in 0..Len(names) /\ Len(names) \in Nat
  BY CheckFields DEF TypeOK, Number
<1>. QED
  BY <1>1, <1>2 DEF Unsaved

(* A bundle that is found has a number.                                     *)
LEMMA FoundType == ASSUME TypeOK PROVE Found(cert_pem) \in Number /\ Found(key_pem) \in Number
<1>1. cached[d] \in Number /\ 0 \in Number
  BY CheckFields DEF TypeOK, Number
<1>. QED
  BY <1>1 DEF Found, TypeOK

-----------------------------------------------------------------------------
(* Types.                                                                   *)

LEMMA InitTyped == Init => Typed
<1> SUFFICES ASSUME Init PROVE Typed
  OBVIOUS
<1>1. /\ names \in Seq(Target \cup {"other"}) /\ Len(names) \in Nat
      /\ due \subseteq 1..Len(names) /\ wasted \subseteq 1..Len(names)
  <2>1. <<>> \in Seq(Target \cup {"other"}) /\ <<"hub">> \in Seq(Target \cup {"other"})
        /\ <<"other">> \in Seq(Target \cup {"other"})
    BY DEF Target
  <2>2. names \in Seq(Target \cup {"other"})
    BY <2>1 DEF Init
  <2>. QED
    BY <2>2 DEF Init
<1>2. 0 \in Number /\ Len(names) \in Number
  BY <1>1 DEF Number
<1>3. /\ cached \in [Target -> Number] /\ key_pem \in Number /\ cert_pem \in Number
      /\ tls \in Number /\ edge \in Number
  BY <1>2 DEF Init
<1>4. /\ records \in Nat /\ journal \in [Target -> 0..records]
      /\ txt \subseteq 1..records /\ lost \subseteq 1..records
  BY DEF Init
<1>5. check \in LocalVariables /\ check.issue = "none"
  <2>1. check = NoCheck /\ 0 \in 0..records /\ "hub" \in Target
    BY <1>4 DEF Init, Target
  <2>. QED
    BY <1>2, <2>1 DEF NoCheck, LocalVariables
<1>6. left \in [Bound -> Nat]
  BY CertificatesAssumption DEF Init
<1>7. config \in [enabled : BOOLEAN, local : BOOLEAN] /\ force \in BOOLEAN
  BY DEF Init
<1>8. pc \in Stage /\ pc = "load" /\ ~Deployed
  BY DEF Init, Stage, Deployed
<1>. QED
  BY <1>1, <1>3, <1>4, <1>5, <1>6, <1>7, <1>8 DEF TypeOK, Typed, Fresh

(* A check that begins, and what load() does.                               *)
LEMMA StartTyped == Typed /\ (Start \/ Crash) => Typed'
<1> SUFFICES ASSUME Typed, Start \/ Crash PROVE Typed'
  OBVIOUS
<1> USE DEF To, requests, issues, files, served, dns, history
<1>0. TypeOK
  BY DEF Typed
<1>1. CASE Load
  <2>1. check' \in LocalVariables /\ (pc' = "deploy" => check'.chain # 0)
        /\ check'.issue = "none"
    <3>1. cached["hub"] \in Number
      BY <1>0 DEF TypeOK, Target
    <3>2. CASE Restorable
      BY <1>0, <1>1, <3>1, <3>2, RestoringFields DEF Load, Restorable
    <3>3. CASE ~Restorable
      BY <1>0, <1>1, <3>3, NoCheckFields DEF Load
    <3>. QED
      BY <3>2, <3>3
  <2>2. pc' \in {"deploy", "pem"}
    BY <1>1 DEF Load
  <2>. QED
    BY <1>0, <1>1, <2>1, <2>2, SameTypes DEF Load, TypeOK, Stage, Typed, Fresh, Deployed
<1>2. CASE Pem
  <2>1. check' \in LocalVariables /\ (check'.issue = "ok" => check'.chain # 0)
    BY <1>0, <1>2, NoCheckFields DEF Pem, TypeOK
  <2>2. pc' \in {"config", "down"}
    BY <1>2 DEF Pem
  <2>3. tls' \in Number
    BY <1>0, <1>2 DEF Pem, TypeOK
  <2>. QED
    BY <1>0, <1>2, <2>1, <2>2, <2>3, SameTypes DEF Pem, TypeOK, Stage, Typed, Fresh, Deployed
<1>3. CASE Restart
  BY <1>0, <1>3, SameTypes, NoCheckFields DEF Restart, TypeOK, Stage, Typed, Fresh, Deployed
<1>4. CASE Crash
  <2>1. left' \in [Bound -> Nat]
    BY <1>0, <1>4, SpendType DEF Crash, Bound
  <2>2. wasted' \subseteq 1..Len(names)
    BY <1>0, <1>4, UnsavedType DEF Crash, TypeOK
  <2>3. lost' \subseteq 1..records
    <3>1. pc = "created" => check.record \in 1..records
      BY <1>0, CheckFields DEF TypeOK, Typed, Fresh
    <3>. QED
      BY <1>0, <1>4, <3>1 DEF Crash, TypeOK
  <2>4. check' \in LocalVariables /\ check'.issue = "none" /\ pc' = "load"
    BY <1>0, <1>4, NoCheckFields DEF Crash
  <2>5. tls' \in Number /\ force' \in BOOLEAN
    BY <1>0, <1>4, NoNumber DEF Crash
  <2>. QED
    BY <1>0, <1>4, <2>1, <2>2, <2>3, <2>4, <2>5, SameTypes
       DEF Crash, TypeOK, Stage, Typed, Fresh, Deployed
<1>. QED
  BY <1>1, <1>2, <1>3, <1>4 DEF Start

(* The loop of the task, a check of a target and what is asked for.          *)
LEMMA CheckTyped ==
    Typed /\ (\/ Wake \/ Update \/ RequestCheck \/ Age \/ ReadConfig \/ NextTarget
              \/ Begin \/ Delete \/ Unlink \/ Decide \/ Store) => Typed'
<1> USE DEF To, requests, issues, files, served, dns, history
<1> SUFFICES ASSUME Typed PROVE (\/ Wake \/ Update \/ RequestCheck \/ Age \/ ReadConfig
                                \/ NextTarget \/ Begin \/ Delete \/ Unlink \/ Decide \/ Store)
                                   => Typed'
  OBVIOUS
<1>0. TypeOK
  BY DEF Typed
<1>1. CASE Wake
  BY <1>0, <1>1, SameTypes DEF Wake, TypeOK, Stage, Typed, Fresh, Deployed
<1>2. CASE Update
  <2>1. left' \in [Bound -> Nat]
    BY <1>0, <1>2, SpendType DEF Update, Bound
  <2>2. config' \in [enabled : BOOLEAN, local : BOOLEAN]
    BY <1>2 DEF Update
  <2>3. Deployed' = Deployed /\ Fresh' = Fresh
    BY <1>2 DEF Update, Deployed, Fresh
  <2>. QED
    BY <1>0, <1>2, <2>1, <2>2, <2>3, SameTypes DEF Update, TypeOK, Typed
<1>3. CASE RequestCheck
  <2>1. left' \in [Bound -> Nat]
    BY <1>0, <1>3, SpendType DEF RequestCheck, Bound
  <2>2. Deployed' = Deployed /\ Fresh' = Fresh
    BY <1>3 DEF RequestCheck, Deployed, Fresh
  <2>. QED
    BY <1>0, <1>3, <2>1, <2>2, SameTypes DEF RequestCheck, TypeOK, Typed
<1>4. CASE Age
  <2>1. left' \in [Bound -> Nat]
    BY <1>0, <1>4, SpendType DEF Age, Bound
  <2>2. due' \subseteq 1..Len(names)
    <3>1. DOMAIN names = 1..Len(names)
      BY <1>0 DEF TypeOK
    <3>. QED
      BY <1>0, <1>4, <3>1 DEF Age, TypeOK
  <2>3. Deployed' = Deployed /\ Fresh' = Fresh
    BY <1>4 DEF Age, Deployed, Fresh
  <2>. QED
    BY <1>0, <1>4, <2>1, <2>2, <2>3, SameTypes DEF Age, TypeOK, Typed
<1>5. CASE ReadConfig
  <2>1. check' \in LocalVariables /\ check'.issue = "none"
    BY <1>0, <1>5, ReadConfigFields
  <2>2. pc' \in {"begin", "sleep"}
    BY <1>5 DEF ReadConfig
  <2>. QED
    BY <1>0, <1>5, <2>1, <2>2, SameTypes DEF ReadConfig, TypeOK, Stage, Typed, Fresh, Deployed
<1>6. CASE NextTarget
  <2>1. check' \in LocalVariables /\ check'.issue = "none"
    BY <1>0, <1>6, NextTargetFields
  <2>2. pc' \in {"begin", "sleep"}
    BY <1>6 DEF NextTarget
  <2>. QED
    BY <1>0, <1>6, <2>1, <2>2, SameTypes DEF NextTarget, TypeOK, Stage, Typed, Fresh, Deployed
<1>7. CASE Begin
  <2>1. check.issue = "none"
    BY <1>7 DEF Begin, Typed, Fresh
  <2>2. /\ check' \in LocalVariables /\ check'.issue = "none"
        /\ pc' \in {"pem", "next", "delete", "decide", "store"} /\ pc' # "store"
    <3>1. CASE Failed
      BY <1>0, <2>1, <3>1, FailedLeads
    <3>2. CASE Cleanup(Holding(Found(cert_pem), Found(key_pem)))
      BY <1>0, <2>1, <3>2, CleanupLeads, FoundType, HoldingFields
    <3>. QED
      BY <1>7, <3>1, <3>2 DEF Begin
  <2>. QED
    BY <1>0, <1>7, <2>2, SameTypes DEF Begin, TypeOK, Stage, Typed, Fresh, Deployed
<1>8. CASE Delete
  <2>1. pc' = "unlink" /\ txt' \subseteq 1..records
    BY <1>0, <1>8 DEF Delete, TypeOK
  <2>. QED
    BY <1>0, <1>8, <2>1, SameTypes DEF Delete, TypeOK, Stage, Typed, Fresh, Deployed
<1>9. CASE Unlink
  <2>1. /\ pc' \in {"decide", "store", "next"}
        /\ pc' = "store" => check.issue = "ok"
        /\ pc' = "decide" => check.issue = "none"
    BY <1>9 DEF Unlink, After
  <2>2. journal' \in [Target -> 0..records]
    <3>1. 0 \in 0..records
      BY <1>0 DEF TypeOK
    <3>. QED
      BY <1>0, <1>9, <3>1 DEF Unlink, TypeOK
  <2>. QED
    BY <1>0, <1>9, <2>1, <2>2, SameTypes DEF Unlink, TypeOK, Stage, Typed, Fresh, Deployed
<1>10. CASE Decide
  <2>1. pc' \in {"create", "deploy", "sync"} /\ (pc' # "create" => check.chain # 0)
    BY <1>10 DEF Decide, NeedsIssue, Deploying
  <2>. QED
    BY <1>0, <1>10, <2>1, SameTypes DEF Decide, TypeOK, Stage, Typed, Fresh, Deployed
<1>11. CASE Store
  <2>1. pc' \in {"deploy", "sync"}
    BY <1>11 DEF Store, Deploying
  <2>2. cached' \in [Target -> Number]
    BY <1>0, <1>11, CheckFields DEF Store, TypeOK
  <2>. QED
    BY <1>0, <1>11, <2>1, <2>2, SameTypes DEF Store, TypeOK, Stage, Typed, Fresh, Deployed
<1>. QED
  BY <1>1, <1>2, <1>3, <1>4, <1>5, <1>6, <1>7, <1>8, <1>9, <1>10, <1>11

(* A certificate is issued.                                                 *)
LEMMA IssueTyped ==
    Typed /\ (CreateRecord \/ CreateFails \/ Journal \/ JournalFails \/ Issue \/ OrderFails)
      => Typed'
<1> USE DEF To, requests, issues, files, served, dns, history
<1> SUFFICES ASSUME Typed
             PROVE  (CreateRecord \/ CreateFails \/ Journal \/ JournalFails \/ Issue \/ OrderFails)
                      => Typed'
  OBVIOUS
<1>0. TypeOK
  BY DEF Typed
<1>1. CASE CreateRecord
  <2>1. CASE records' = records + 1 /\ txt' = txt \cup {records'}
             /\ check' = Created(records') /\ pc' = "created"
    <3>1. check' \in LocalVariables' /\ check'.record # 0
          /\ check'.issue = check.issue /\ check'.chain = check.chain
      <4>1. check' \in LocalVariables' /\ check'.record = records'
            /\ check'.issue = check.issue /\ check'.chain = check.chain
        BY <1>0, <1>1, <2>1, CreatedFields DEF CreateRecord
      <4>. QED
        BY <1>0, <2>1, <4>1 DEF TypeOK
    <3>2. /\ Number' = Number /\ records' \in Nat
          /\ txt' \subseteq 1..records' /\ lost' \subseteq 1..records'
          /\ journal' \in [Target -> 0..records']
      BY <1>0, <1>1, <2>1, MoreRecords DEF CreateRecord, TypeOK
    <3>. QED
      BY <1>0, <1>1, <2>1, <3>1, <3>2 DEF CreateRecord, TypeOK, Stage, Typed, Fresh, Deployed
  <2>2. CASE pc' = "ready" /\ UNCHANGED <<records, txt, check>>
    BY <1>0, <1>1, <2>2, SameTypes DEF CreateRecord, TypeOK, Stage, Typed, Fresh, Deployed
  <2>. QED
    BY <1>1, <2>1, <2>2 DEF CreateRecord
<1>2. CASE CreateFails
  <2>1. /\ check' \in LocalVariables /\ check'.issue = "failed"
        /\ pc' \in {"delete", "next"} /\ left' \in [Bound -> Nat]
    BY <1>0, <1>2, IssueFailsLeads, FaultType DEF CreateFails
  <2>2. CASE UNCHANGED <<records, txt, lost>>
    BY <1>0, <1>2, <2>1, <2>2, SameTypes DEF CreateFails, TypeOK, Stage, Typed, Fresh, Deployed
  <2>3. CASE records' = records + 1 /\ txt' = txt \cup {records'} /\ lost' = lost \cup {records'}
    <3>1. /\ Number' = Number /\ records' \in Nat /\ check' \in LocalVariables'
          /\ txt' \subseteq 1..records' /\ lost' \subseteq 1..records'
          /\ journal' \in [Target -> 0..records']
      BY <1>0, <1>2, <2>1, <2>3, MoreRecords DEF CreateFails, TypeOK
    <3>. QED
      BY <1>0, <1>2, <2>1, <2>3, <3>1 DEF CreateFails, TypeOK, Stage, Typed, Fresh, Deployed
  <2>. QED
    BY <1>2, <2>2, <2>3 DEF CreateFails
<1>3. CASE Journal
  <2>1. journal' \in [Target -> 0..records]
    BY <1>0, <1>3, CheckFields DEF Journal, TypeOK
  <2>. QED
    BY <1>0, <1>3, <2>1, SameTypes DEF Journal, TypeOK, Stage, Typed, Fresh, Deployed
<1>4. CASE JournalFails
  <2>1. /\ check' \in LocalVariables /\ check'.issue = "failed"
        /\ pc' \in {"delete", "next"} /\ left' \in [Bound -> Nat]
    BY <1>0, <1>4, IssueFailsLeads, FaultType DEF JournalFails
  <2>2. check.record \in 1..records
    BY <1>0, <1>4, CheckFields DEF JournalFails, Typed, Fresh, TypeOK
  <2>3. txt' \subseteq 1..records /\ lost' \subseteq 1..records
    BY <1>0, <1>4, <2>2 DEF JournalFails, TypeOK
  <2>. QED
    BY <1>0, <1>4, <2>1, <2>3, SameTypes DEF JournalFails, TypeOK, Stage, Typed, Fresh, Deployed
<1>5. CASE Issue
  <2>1. /\ names' = Append(names, d) /\ UNCHANGED records
        /\ check' = Issued(Len(names) + 1)
        /\ pc' \in {"delete", "decide", "store", "next"}
        /\ pc' = "decide" => Issued(Len(names) + 1).issue = "none"
    BY <1>5, CleanupLeads DEF Issue
  <2>2. /\ check' \in LocalVariables' /\ check'.chain = Len(names) + 1
        /\ check'.issue = "ok" /\ Len(names) \in Nat
        /\ names' \in Seq(Target \cup {"other"}) /\ Len(names') = Len(names) + 1
        /\ Number \subseteq Number'
    BY <1>0, <2>1, IssuedFields
  <2>3. /\ check'.chain # 0
        /\ due' \subseteq 1..Len(names') /\ wasted' \subseteq 1..Len(names')
    BY <1>0, <1>5, <2>2 DEF Issue, TypeOK
  <2>4. pc' # "decide"
    BY <2>1, <2>2
  <2>5. /\ cached' \in [Target -> Number'] /\ key_pem' \in Number' /\ cert_pem' \in Number'
        /\ tls' \in Number' /\ edge' \in Number'
    BY <1>0, <1>5, <2>2 DEF Issue, TypeOK
  <2>. QED
    BY <1>0, <1>5, <2>1, <2>2, <2>3, <2>4, <2>5 DEF Issue, TypeOK, Stage, Typed, Fresh
<1>6. CASE OrderFails
  <2>1. /\ check' \in LocalVariables /\ check'.issue = "failed"
        /\ pc' \in {"delete", "next"} /\ left' \in [Bound -> Nat]
    BY <1>0, <1>6, IssueFailsLeads, FaultType DEF OrderFails
  <2>. QED
    BY <1>0, <1>6, <2>1, SameTypes DEF OrderFails, TypeOK, Stage, Typed, Fresh, Deployed
<1>. QED
  BY <1>1, <1>2, <1>3, <1>4, <1>5, <1>6

(* What is deployed, and failures outside of issue().                       *)
LEMMA DeployTyped ==
    Typed /\ (\/ Deploy \/ WriteKey \/ WriteCert \/ Reload \/ Synchronize
              \/ CleanupFails \/ StepFails \/ Timeout) => Typed'
<1> USE DEF To, requests, issues, files, served, dns, history
<1> SUFFICES ASSUME Typed
             PROVE  (\/ Deploy \/ WriteKey \/ WriteCert \/ Reload \/ Synchronize
                     \/ CleanupFails \/ StepFails \/ Timeout) => Typed'
  OBVIOUS
<1>0. TypeOK
  BY DEF Typed
<1>1. CASE Deploy
  <2>1. /\ check' \in LocalVariables /\ check'.chain = check.chain
        /\ check'.issue = check.issue /\ pc' \in {"pem", "next", "key", "tls"}
    <3>1. CASE Failed
      BY <1>0, <3>1, FailedLeads
    <3>2. CASE pc' = "key" /\ check' = Comparing(TRUE)
      BY <1>0, <3>2, ComparingFields
    <3>3. CASE pc' = "tls" /\ check' = Comparing(FALSE)
      BY <1>0, <3>3, ComparingFields
    <3>. QED
      BY <1>1, <3>1, <3>2, <3>3 DEF Deploy
  <2>. QED
    BY <1>0, <1>1, <2>1, SameTypes DEF Deploy, TypeOK, Stage, Typed, Fresh, Deployed
<1>2. CASE WriteKey
  BY <1>0, <1>2, SameTypes, CheckFields DEF WriteKey, TypeOK, Stage, Typed, Fresh, Deployed
<1>3. CASE WriteCert
  BY <1>0, <1>3, SameTypes, CheckFields DEF WriteCert, TypeOK, Stage, Typed, Fresh, Deployed
<1>4. CASE Reload
  <2>1. tls' \in Number /\ pc' \in {"pem", "next"}
    BY <1>0, <1>4, CheckFields DEF Reload, Stop, TypeOK
  <2>. QED
    BY <1>0, <1>4, <2>1, SameTypes DEF Reload, TypeOK, Stage, Typed, Fresh, Deployed
<1>5. CASE Synchronize
  <2>1. edge' \in Number /\ pc' \in {"pem", "next"}
    BY <1>0, <1>5, CheckFields DEF Synchronize, Stop, TypeOK
  <2>. QED
    BY <1>0, <1>5, <2>1, SameTypes DEF Synchronize, TypeOK, Stage, Typed, Fresh, Deployed
<1>6. CASE CleanupFails
  <2>1. /\ pc' \in {"pem", "next"} /\ check' \in LocalVariables
        /\ check'.chain = check.chain /\ check'.issue = check.issue
        /\ left' \in [Bound -> Nat]
    BY <1>0, <1>6, FailedLeads, FaultType DEF CleanupFails
  <2>2. txt' \subseteq 1..records
    BY <1>0, <1>6 DEF CleanupFails, TypeOK
  <2>3. cached' \in [Target -> Number] /\ wasted' \subseteq 1..Len(names)
    <3>1. Kept \in [Target -> Number]
      BY <1>0, CheckFields DEF Kept, TypeOK
    <3>. QED
      BY <1>0, <1>6, <3>1, UnsavedType DEF CleanupFails, TypeOK
  <2>. QED
    BY <1>0, <1>6, <2>1, <2>2, <2>3, SameTypes
       DEF CleanupFails, TypeOK, Stage, Typed, Fresh, Deployed
<1>7. CASE StepFails
  <2>1. /\ pc' \in {"pem", "next"} /\ check' \in LocalVariables
        /\ check'.chain = check.chain /\ check'.issue = check.issue
        /\ left' \in [Bound -> Nat]
    BY <1>0, <1>7, FailedLeads, FaultType DEF StepFails
  <2>2. wasted' \subseteq 1..Len(names)
    BY <1>0, <1>7, UnsavedType DEF StepFails, TypeOK
  <2>. QED
    BY <1>0, <1>7, <2>1, <2>2, SameTypes DEF StepFails, TypeOK, Stage, Typed, Fresh, Deployed
<1>8. CASE Timeout
  <2>1. /\ pc' \in {"pem", "next"} /\ check' \in LocalVariables
        /\ check'.chain = check.chain /\ check'.issue = check.issue
        /\ left' \in [Bound -> Nat]
    BY <1>0, <1>8, FailedLeads, SpendType DEF Timeout, Bound
  <2>2. wasted' \subseteq 1..Len(names)
    BY <1>0, <1>8, UnsavedType DEF Timeout, TypeOK
  <2>3. CASE UNCHANGED <<records, txt, lost>>
    BY <1>0, <1>8, <2>1, <2>2, <2>3, SameTypes DEF Timeout, TypeOK, Stage, Typed, Fresh, Deployed
  <2>4. CASE records' = records + 1 /\ txt' = txt \cup {records'} /\ lost' = lost \cup {records'}
    <3>1. /\ Number' = Number /\ records' \in Nat /\ check' \in LocalVariables'
          /\ txt' \subseteq 1..records' /\ lost' \subseteq 1..records'
          /\ journal' \in [Target -> 0..records']
      BY <1>0, <1>8, <2>1, <2>4, MoreRecords DEF Timeout, TypeOK
    <3>. QED
      BY <1>0, <1>8, <2>1, <2>2, <2>4, <3>1 DEF Timeout, TypeOK, Stage, Typed, Fresh, Deployed
  <2>5. CASE txt' = txt \ {journal[d]} /\ UNCHANGED <<records, lost>>
    <3>1. txt' \subseteq 1..records
      BY <1>0, <2>5 DEF TypeOK
    <3>. QED
      BY <1>0, <1>8, <2>1, <2>2, <2>5, <3>1, SameTypes
         DEF Timeout, TypeOK, Stage, Typed, Fresh, Deployed
  <2>. QED
    BY <1>8, <2>3, <2>4, <2>5 DEF Timeout
<1>. QED
  BY <1>1, <1>2, <1>3, <1>4, <1>5, <1>6, <1>7, <1>8

LEMMA TypedInvariance == Typed /\ [Next]_vars => Typed'
<1>1. CASE UNCHANGED vars
  BY <1>1, SameTypes
     DEF vars, requests, issues, files, served, dns, history, TypeOK, Typed, Fresh, Deployed
<1>2. CASE Next
  BY <1>2, StartTyped, CheckTyped, IssueTyped, DeployTyped DEF Next, Start, Step, Fails
<1>. QED
  BY <1>1, <1>2

(* The state always has its shape, and a bundle that is deployed exists.      *)
THEOREM TypeCorrect == Spec => []TypeOK
<1>1. Typed => TypeOK
  BY DEF Typed
<1>. QED
  BY <1>1, InitTyped, TypedInvariance, PTL DEF Spec

-----------------------------------------------------------------------------
(* No TXT record is forgotten.                                              *)

LEMMA InitRecorded == Init => Recorded
<1> SUFFICES ASSUME Init PROVE Recorded
  OBVIOUS
<1>1. JournalFree /\ RecordGone /\ RecordsFound
  BY DEF Init, JournalFree, RecordGone, RecordsFound
<1>. QED
  BY <1>1, InitTyped DEF Recorded

(* A step that leaves the journal as it is, adds no record that is not lost    *)
(* and does not go where more must be known.                                *)
LEMMA Recording ==
    ASSUME Recorded, UNCHANGED journal, txt' \ lost' \subseteq txt \ lost,
           pc # "created", pc' \notin {"unlink", "created"},
           pc' \in {"decide", "create"} => journal[d'] = 0
    PROVE  JournalFree' /\ RecordGone' /\ RecordsFound'
BY DEF Recorded, JournalFree, RecordGone, RecordsFound

(* A step of somebody else, which the task does not notice.                  *)
LEMMA NotRecording ==
    ASSUME Recorded, UNCHANGED <<journal, txt, lost, pc, check>>
    PROVE  JournalFree' /\ RecordGone' /\ RecordsFound'
BY DEF Recorded, JournalFree, RecordGone, RecordsFound, d

LEMMA CleanupRecorded ==
    Recorded /\ (Delete \/ Unlink \/ CleanupFails) => JournalFree' /\ RecordGone' /\ RecordsFound'
<1> USE DEF To, dns, history
<1> SUFFICES ASSUME Recorded
             PROVE  (Delete \/ Unlink \/ CleanupFails)
                      => JournalFree' /\ RecordGone' /\ RecordsFound'
  OBVIOUS
<1>0. TypeOK /\ d \in Target /\ journal \in [Target -> 0..records]
  BY CheckFields DEF Recorded, Typed, TypeOK
<1>1. CASE Delete
  BY <1>1 DEF Delete, Recorded, JournalFree, RecordGone, RecordsFound, d
<1>2. CASE Unlink
  <2>1. pc' \in {"decide", "store", "next"} /\ d' = d /\ journal'[d] = 0
    BY <1>0, <1>2 DEF Unlink, After, d
  <2>2. JournalFree' /\ RecordGone'
    BY <2>1 DEF JournalFree, RecordGone
  <2>3. ASSUME NEW r \in txt' \ lost' PROVE \E t \in Target : journal'[t] = r
    <3>1. r \in txt \ lost /\ r # journal[d]
      BY <1>2, <2>3 DEF Unlink, Recorded, RecordGone
    <3>2. PICK t \in Target : journal[t] = r
      BY <1>2, <3>1 DEF Unlink, Recorded, RecordsFound
    <3>3. journal'[t] = r
      BY <1>0, <1>2, <3>1, <3>2 DEF Unlink
    <3>. QED
      BY <3>3
  <2>. QED
    BY <2>2, <2>3 DEF RecordsFound
<1>3. CASE CleanupFails
  <2>1. pc' \in {"pem", "next"}
    BY <1>0, <1>3, FailedLeads DEF CleanupFails
  <2>2. txt' \ lost' \subseteq txt \ lost /\ UNCHANGED journal
    BY <1>3 DEF CleanupFails
  <2>. QED
    BY <1>3, <2>1, <2>2, Recording DEF CleanupFails
<1>. QED
  BY <1>1, <1>2, <1>3

LEMMA CreateRecorded ==
    Recorded /\ (CreateRecord \/ CreateFails \/ Journal \/ JournalFails)
      => JournalFree' /\ RecordGone' /\ RecordsFound'
<1> USE DEF To, dns, history
<1> SUFFICES ASSUME Recorded
             PROVE  (CreateRecord \/ CreateFails \/ Journal \/ JournalFails)
                      => JournalFree' /\ RecordGone' /\ RecordsFound'
  OBVIOUS
<1>0. TypeOK /\ d \in Target /\ journal \in [Target -> 0..records] /\ txt \subseteq 1..records
  BY CheckFields DEF Recorded, Typed, TypeOK
<1>1. CASE CreateRecord
  <2>1. CASE /\ records' = records + 1 /\ txt' = txt \cup {records'}
             /\ check' = Created(records') /\ pc' = "created"
    <3>1. check'.record = records' /\ d' = d
      BY <1>0, <1>1, <2>1, CreatedFields DEF CreateRecord, issues, d
    <3>2. journal' = journal /\ lost' = lost /\ pc = "create" /\ journal[d] = 0
      BY <1>1 DEF CreateRecord, Recorded, JournalFree
    <3>3. ASSUME NEW r \in txt' \ lost', r # records' PROVE \E t \in Target : journal'[t] = r
      BY <2>1, <3>2, <3>3 DEF Recorded, RecordsFound
    <3>. QED
      BY <2>1, <3>1, <3>2, <3>3 DEF JournalFree, RecordGone, RecordsFound
  <2>2. CASE pc' = "ready" /\ UNCHANGED <<records, txt, check>>
    BY <1>1, <2>2, Recording DEF CreateRecord
  <2>. QED
    BY <1>1, <2>1, <2>2 DEF CreateRecord
<1>2. CASE CreateFails
  <2>1. pc' \in {"delete", "next"}
    BY <1>0, <1>2, IssueFailsLeads DEF CreateFails
  <2>2. txt' \ lost' \subseteq txt \ lost /\ UNCHANGED journal
    BY <1>2 DEF CreateFails
  <2>. QED
    BY <1>2, <2>1, <2>2, Recording DEF CreateFails
<1>3. CASE Journal
  <2>1. pc = "created" /\ pc' = "ready" /\ UNCHANGED <<txt, lost>> /\ journal[d] = 0
        /\ journal' = [journal EXCEPT ![d] = check.record]
    BY <1>3 DEF Journal, Recorded, JournalFree
  <2>2. ASSUME NEW r \in txt' \ lost' PROVE \E t \in Target : journal'[t] = r
    <3>1. r \in txt \ lost /\ r # 0
      BY <1>0, <2>1, <2>2
    <3>2. CASE r = check.record
      BY <1>0, <2>1, <3>2
    <3>3. CASE r # check.record
      <4>1. PICK t \in Target : journal[t] = r
        BY <3>1, <3>3 DEF Recorded, RecordsFound
      <4>2. journal'[t] = r
        BY <1>0, <2>1, <3>1, <4>1
      <4>. QED
        BY <4>2
    <3>. QED
      BY <3>2, <3>3
  <2>. QED
    BY <2>1, <2>2 DEF JournalFree, RecordGone, RecordsFound
<1>4. CASE JournalFails
  <2>1. pc' \in {"delete", "next"}
    BY <1>0, <1>4, IssueFailsLeads DEF JournalFails
  <2>2. ASSUME NEW r \in txt' \ lost' PROVE r \in txt \ lost /\ r # check.record
    BY <1>4, <2>2 DEF JournalFails
  <2>3. UNCHANGED journal
    BY <1>4 DEF JournalFails
  <2>. QED
    BY <2>1, <2>2, <2>3 DEF Recorded, JournalFree, RecordGone, RecordsFound
<1>. QED
  BY <1>1, <1>2, <1>3, <1>4

LEMMA CheckRecorded ==
    Recorded /\ (Start \/ Crash \/ ReadConfig \/ Begin \/ Decide \/ NextTarget \/ Wake)
      => JournalFree' /\ RecordGone' /\ RecordsFound'
<1> USE DEF To, dns, history
<1> SUFFICES ASSUME Recorded
             PROVE  (Start \/ Crash \/ ReadConfig \/ Begin \/ Decide \/ NextTarget \/ Wake)
                      => JournalFree' /\ RecordGone' /\ RecordsFound'
  OBVIOUS
<1>0. TypeOK
  BY DEF Recorded, Typed
<1>1. CASE Start \/ ReadConfig \/ NextTarget \/ Wake
  <2>1. /\ UNCHANGED <<journal, txt, lost>> /\ pc # "created"
        /\ pc' \notin {"unlink", "created", "decide", "create"}
    BY <1>1 DEF Start, Load, Pem, Restart, ReadConfig, NextTarget, Wake
  <2>. QED
    BY <2>1, Recording
<1>2. CASE Crash
  <2>1. UNCHANGED journal /\ pc' = "load"
    BY <1>2 DEF Crash
  <2>2. ASSUME NEW r \in txt' \ lost'
        PROVE  r \in txt \ lost /\ (pc = "created" => r # check.record)
    BY <1>2, <2>2 DEF Crash
  <2>. QED
    BY <2>1, <2>2 DEF Recorded, JournalFree, RecordGone, RecordsFound
<1>3. CASE Begin
  <2>1. UNCHANGED <<journal, txt, lost>> /\ pc = "begin"
    BY <1>3 DEF Begin
  <2>2. CASE Failed
    BY <1>0, <2>1, <2>2, FailedLeads, Recording
  <2>3. CASE Cleanup(Holding(Found(cert_pem), Found(key_pem)))
    <3>1. d' = d /\ pc' \in {"delete", "decide", "store", "next"}
          /\ (pc' = "decide" => journal[d] = 0)
      BY <1>0, <2>3, CleanupLeads, FoundType, HoldingFields DEF d
    <3>. QED
      BY <2>1, <3>1, Recording
  <2>. QED
    BY <1>3, <2>2, <2>3 DEF Begin
<1>4. CASE Decide
  <2>1. /\ UNCHANGED <<journal, txt, lost>> /\ d' = d /\ pc = "decide" /\ journal[d] = 0
        /\ pc' \in {"create", "deploy", "sync"}
    BY <1>4 DEF Decide, Deploying, Recorded, JournalFree, d
  <2>. QED
    BY <2>1, Recording
<1>. QED
  BY <1>1, <1>2, <1>3, <1>4

LEMMA OthersRecorded ==
    Recorded /\ (\/ Update \/ RequestCheck \/ Age \/ Store \/ Issue \/ OrderFails
                 \/ Deploy \/ WriteKey \/ WriteCert \/ Reload \/ Synchronize
                 \/ StepFails \/ Timeout)
      => JournalFree' /\ RecordGone' /\ RecordsFound'
<1> USE DEF To, dns, history
<1> SUFFICES ASSUME Recorded
             PROVE  (\/ Update \/ RequestCheck \/ Age \/ Store \/ Issue \/ OrderFails
                     \/ Deploy \/ WriteKey \/ WriteCert \/ Reload \/ Synchronize
                     \/ StepFails \/ Timeout)
                      => JournalFree' /\ RecordGone' /\ RecordsFound'
  OBVIOUS
<1>0. TypeOK
  BY DEF Recorded, Typed
<1>1. CASE Update \/ RequestCheck \/ Age
  BY <1>1, NotRecording DEF Update, RequestCheck, Age
<1>2. CASE Store \/ WriteKey \/ WriteCert \/ Reload \/ Synchronize
  <2>1. /\ UNCHANGED <<journal, txt, lost>> /\ pc # "created"
        /\ pc' \notin {"unlink", "created", "decide", "create"}
    BY <1>2 DEF Store, Deploying, WriteKey, WriteCert, Reload, Synchronize, Stop
  <2>. QED
    BY <2>1, Recording
<1>3. CASE Issue
  <2>1. /\ UNCHANGED <<journal, txt, lost, records>> /\ pc = "ready"
        /\ names' = Append(names, d) /\ Cleanup(Issued(Len(names) + 1))
    BY <1>3 DEF Issue
  <2>2. Issued(Len(names) + 1).issue = "ok"
    BY <1>0, <2>1, IssuedFields
  <2>3. pc' \in {"delete", "store", "next"}
    BY <2>1, <2>2, CleanupLeads
  <2>. QED
    BY <2>1, <2>3, Recording
<1>4. CASE OrderFails
  <2>1. UNCHANGED <<journal, txt, lost>> /\ pc = "ready" /\ pc' \in {"delete", "next"}
    BY <1>0, <1>4, IssueFailsLeads DEF OrderFails
  <2>. QED
    BY <2>1, Recording
<1>5. CASE Deploy
  <2>1. UNCHANGED <<journal, txt, lost>> /\ pc = "deploy" /\ pc' \in {"pem", "next", "key", "tls"}
    BY <1>5 DEF Deploy, Failed, Stop
  <2>. QED
    BY <2>1, Recording
<1>6. CASE StepFails
  <2>1. UNCHANGED <<journal, txt, lost>> /\ pc # "created" /\ pc' \in {"pem", "next"}
    BY <1>6 DEF StepFails, Failed, Stop
  <2>. QED
    BY <2>1, Recording
<1>7. CASE Timeout
  <2>1. UNCHANGED journal /\ pc # "created" /\ pc' \in {"pem", "next"}
    BY <1>7 DEF Timeout, Failed, Stop
  <2>2. txt' \ lost' \subseteq txt \ lost
    BY <1>7 DEF Timeout
  <2>. QED
    BY <2>1, <2>2, Recording
<1>. QED
  BY <1>1, <1>2, <1>3, <1>4, <1>5, <1>6, <1>7

LEMMA RecordedInvariance == Recorded /\ [Next]_vars => Recorded'
<1> SUFFICES ASSUME Recorded, [Next]_vars PROVE Recorded'
  OBVIOUS
<1>1. Typed'
  BY TypedInvariance DEF Recorded
<1>2. JournalFree' /\ RecordGone' /\ RecordsFound'
  <2>1. CASE UNCHANGED vars
    BY <2>1, NotRecording DEF vars, dns, history
  <2>2. CASE Next
    BY <2>2, CleanupRecorded, CreateRecorded, CheckRecorded, OthersRecorded DEF Next, Step, Fails
  <2>. QED
    BY <2>1, <2>2
<1>. QED
  BY <1>1, <1>2 DEF Recorded

(* No TXT record is forgotten at DNSPod, whatever fails however often         *)
(* (cleanup, issue).                                                        *)
THEOREM NoRecordForgotten == Spec => []RecordsFound
<1>1. Recorded => RecordsFound
  BY DEF Recorded
<1>. QED
  BY <1>1, InitRecorded, RecordedInvariance, PTL DEF Spec

-----------------------------------------------------------------------------
(* The hub starts again.                                                    *)

LEMMA InitRestored == Init => Restored
<1> SUFFICES ASSUME Init PROVE Restored
  OBVIOUS
<1>1. PemsWhole /\ TakenUp /\ StartsAgain
  BY DEF Init, PemsWhole, TakenUp, StartsAgain
<1>2. WorksOnPems
  <2>1. TypeOK /\ pc = "load" /\ check = NoCheck
    BY InitTyped DEF Init, Typed
  <2>2. check.target = "hub"
    BY <2>1, NoCheckFields
  <2>. QED
    BY <2>1, <2>2 DEF WorksOnPems, d
<1>. QED
  BY <1>1, <1>2, InitTyped DEF Restored

(* A step to a stage of which nothing needs to be known.                     *)
LEMMA Elsewhere ==
    ASSUME Restored, UNCHANGED <<cached, key_pem, cert_pem>>,
           pc' \in {"load", "sleep", "config", "begin", "create", "created", "ready", "next"},
           check'.loading => d' = "hub"
    PROVE  PemsWhole' /\ WorksOnPems' /\ TakenUp' /\ StartsAgain'
BY DEF Restored, PemsWhole, WorksOnPems, TakenUp, StartsAgain

(* A target is given up; in load() that is known.                            *)
LEMMA GivenUp ==
    ASSUME Restored, UNCHANGED <<cached, key_pem, cert_pem>>, Failed
    PROVE  PemsWhole' /\ WorksOnPems' /\ TakenUp' /\ StartsAgain'
<1>1. /\ pc' \in {"pem", "next"} /\ check'.failed = TRUE
      /\ d' = d /\ check'.loading = check.loading
  BY FailedLeads DEF Restored, Typed, d
<1>. QED
  BY <1>1 DEF Restored, PemsWhole, WorksOnPems, TakenUp, StartsAgain

(* After an issue only the challenge is left to be cleaned up, or the bundle    *)
(* to be stored.                                                            *)
LEMMA AfterIssue ==
    ASSUME Restored, UNCHANGED <<cached, key_pem, cert_pem>>,
           pc' \in {"delete", "unlink", "store", "next"},
           check'.issue # "none", pc' = "store" => check'.issue = "ok",
           d' = d, check'.loading = check.loading
    PROVE  PemsWhole' /\ WorksOnPems' /\ TakenUp' /\ StartsAgain'
BY DEF Restored, PemsWhole, WorksOnPems, TakenUp, StartsAgain

LEMMA StartRestored ==
    Restored /\ (Start \/ Crash) => PemsWhole' /\ WorksOnPems' /\ TakenUp' /\ StartsAgain'
<1> USE DEF To, files, served, requests
<1> SUFFICES ASSUME Restored
             PROVE  Start \/ Crash => PemsWhole' /\ WorksOnPems' /\ TakenUp' /\ StartsAgain'
  OBVIOUS
<1>0. TypeOK
  BY DEF Restored, Typed
<1>1. CASE Load
  <2>1. CASE Restorable
    <3>1. cached["hub"] \in Number /\ cached["hub"] # 0
      BY <1>0, <2>1 DEF TypeOK, Target, Restorable
    <3>2. pc' = "deploy" /\ check'.target = "hub"
      BY <1>0, <1>1, <2>1, <3>1, RestoringFields DEF Load
    <3>3. UNCHANGED <<cached, key_pem, cert_pem>>
      BY <1>1 DEF Load
    <3>. QED
      BY <3>1, <3>2, <3>3 DEF PemsWhole, WorksOnPems, FromPems, TakenUp, StartsAgain, d
  <2>2. CASE ~Restorable
    <3>1. pc' = "pem" /\ check'.loading = FALSE
      BY <1>0, <1>1, <2>2, NoCheckFields DEF Load
    <3>2. UNCHANGED <<cached, key_pem, cert_pem, config>>
      BY <1>1 DEF Load
    <3>. QED
      BY <2>2, <3>1, <3>2 DEF Restorable, Restored, PemsWhole, WorksOnPems, TakenUp, StartsAgain
  <2>. QED
    BY <2>1, <2>2
<1>2. CASE Pem
  <2>1. UNCHANGED <<cached, key_pem, cert_pem, config>> /\ pc = "pem"
    BY <1>2 DEF Pem
  <2>2. CASE pc' = "config" /\ check' = NoCheck
    BY <1>0, <2>1, <2>2, NoCheckFields, Elsewhere
  <2>3. CASE pc' = "down" /\ UNCHANGED check /\ key_pem # cert_pem /\ tls = 0
    <3>1. check.failed \/ ~config.local
      BY <2>1, <2>3 DEF Restored, PemsWhole, TakenUp
    <3>. QED
      BY <2>1, <2>3, <3>1 DEF Restored, PemsWhole, WorksOnPems, TakenUp, StartsAgain, d
  <2>. QED
    BY <1>2, <2>2, <2>3 DEF Pem
<1>3. CASE Restart \/ Crash
  <2>1. UNCHANGED <<cached, key_pem, cert_pem>> /\ pc' = "load" /\ check' = NoCheck
    BY <1>3 DEF Restart, Crash
  <2>. QED
    BY <1>0, <2>1, NoCheckFields, Elsewhere
<1>. QED
  BY <1>1, <1>2, <1>3 DEF Start

LEMMA CheckRestored ==
    Restored /\ (\/ Wake \/ Update \/ RequestCheck \/ Age \/ ReadConfig \/ NextTarget
                 \/ Begin \/ Delete \/ Unlink \/ Decide)
      => PemsWhole' /\ WorksOnPems' /\ TakenUp' /\ StartsAgain'
<1> USE DEF To, files, served, requests
<1> SUFFICES ASSUME Restored
             PROVE  (\/ Wake \/ Update \/ RequestCheck \/ Age \/ ReadConfig \/ NextTarget
                     \/ Begin \/ Delete \/ Unlink \/ Decide)
                      => PemsWhole' /\ WorksOnPems' /\ TakenUp' /\ StartsAgain'
  OBVIOUS
<1>0. TypeOK
  BY DEF Restored, Typed
<1>1. CASE Wake
  <2>1. UNCHANGED <<cached, key_pem, cert_pem, check>> /\ pc' = "config"
    BY <1>1 DEF Wake
  <2>. QED
    BY <2>1, Elsewhere DEF Restored, WorksOnPems, d
<1>2. CASE Update
  <2>1. UNCHANGED <<cached, key_pem, cert_pem, check, pc>> /\ pc \notin {"pem", "down"}
    BY <1>2 DEF Update, Up
  <2>. QED
    BY <2>1 DEF Restored, PemsWhole, WorksOnPems, FromPems, TakenUp, StartsAgain, d
<1>3. CASE RequestCheck \/ Age
  <2>1. UNCHANGED <<cached, key_pem, cert_pem, check, pc, tls, config>>
    BY <1>3 DEF RequestCheck, Age
  <2>. QED
    BY <2>1 DEF Restored, PemsWhole, WorksOnPems, FromPems, TakenUp, StartsAgain, d
<1>4. CASE ReadConfig
  <2>1. UNCHANGED <<cached, key_pem, cert_pem>> /\ pc' \in {"begin", "sleep"}
        /\ check'.loading = FALSE
    BY <1>0, <1>4, ReadConfigFields DEF ReadConfig
  <2>. QED
    BY <2>1, Elsewhere
<1>5. CASE NextTarget
  <2>1. UNCHANGED <<cached, key_pem, cert_pem>> /\ pc' \in {"begin", "sleep"}
        /\ check'.loading = FALSE
    BY <1>0, <1>5, NextTargetFields DEF NextTarget
  <2>. QED
    BY <2>1, Elsewhere
<1>6. CASE Begin
  <2>1. UNCHANGED <<cached, key_pem, cert_pem>> /\ pc = "begin" /\ check.issue = "none"
    BY <1>6 DEF Begin, Restored, Typed, Fresh
  <2>2. CASE Failed
    BY <2>1, <2>2, GivenUp
  <2>3. CASE Cleanup(Holding(Found(cert_pem), Found(key_pem)))
    <3>1. /\ pc' \in {"delete", "decide", "store", "next"} /\ pc' # "store"
          /\ check'.chain = Found(cert_pem) /\ check'.key = Found(key_pem)
          /\ check'.issue = "none" /\ check'.loading = check.loading /\ d' = d
      BY <1>0, <2>1, <2>3, CleanupLeads, FoundType, HoldingFields DEF d
    <3>2. d = "hub" => FromPems' \/ check'.chain = 0
      BY <2>1, <3>1 DEF Found, FromPems
    <3>. QED
      BY <2>1, <3>1, <3>2 DEF Restored, PemsWhole, WorksOnPems, TakenUp, StartsAgain
  <2>. QED
    BY <1>6, <2>2, <2>3 DEF Begin
<1>7. CASE Delete
  <2>1. UNCHANGED <<cached, key_pem, cert_pem, check>> /\ pc = "delete" /\ pc' = "unlink"
    BY <1>7 DEF Delete
  <2>. QED
    BY <2>1 DEF Restored, PemsWhole, WorksOnPems, FromPems, TakenUp, StartsAgain, d
<1>8. CASE Unlink
  <2>1. /\ UNCHANGED <<cached, key_pem, cert_pem, check>> /\ pc = "unlink"
        /\ pc' \in {"decide", "store", "next"} /\ (pc' = "store" => check.issue = "ok")
    BY <1>8 DEF Unlink, After
  <2>. QED
    BY <2>1 DEF Restored, PemsWhole, WorksOnPems, FromPems, TakenUp, StartsAgain, d
<1>9. CASE Decide
  <2>1. /\ UNCHANGED <<cached, key_pem, cert_pem, check>> /\ pc = "decide"
        /\ pc' \in {"create", "deploy", "sync"} /\ (pc' # "create" => check.chain # 0)
        /\ (pc' = "deploy" <=> d = "hub" /\ pc' # "create")
    BY <1>9 DEF Decide, NeedsIssue, Deploying
  <2>2. check.issue = "none" /\ d \in Target
    BY <1>0, <2>1, CheckFields DEF Restored, Typed, Fresh
  <2>. QED
    BY <2>1, <2>2
       DEF Restored, PemsWhole, WorksOnPems, FromPems, TakenUp, StartsAgain, d, Target
<1>. QED
  BY <1>1, <1>2, <1>3, <1>4, <1>5, <1>6, <1>7, <1>8, <1>9

LEMMA IssueRestored ==
    Restored /\ (\/ CreateRecord \/ CreateFails \/ Journal \/ JournalFails \/ Issue \/ OrderFails
                 \/ CleanupFails \/ StepFails \/ Timeout)
      => PemsWhole' /\ WorksOnPems' /\ TakenUp' /\ StartsAgain'
<1> USE DEF To, files, served, requests, issues, dns
<1> SUFFICES ASSUME Restored
             PROVE  (\/ CreateRecord \/ CreateFails \/ Journal \/ JournalFails \/ Issue
                     \/ OrderFails \/ CleanupFails \/ StepFails \/ Timeout)
                      => PemsWhole' /\ WorksOnPems' /\ TakenUp' /\ StartsAgain'
  OBVIOUS
<1>0. TypeOK /\ (check.loading => d = "hub")
  BY DEF Restored, Typed, WorksOnPems
<1>1. CASE CreateRecord
  <2>1. /\ UNCHANGED <<cached, key_pem, cert_pem>> /\ pc' \in {"created", "ready"}
        /\ d' = d /\ check'.loading = check.loading
    BY <1>0, <1>1, CreatedFields DEF CreateRecord, d
  <2>. QED
    BY <1>0, <2>1, Elsewhere
<1>2. CASE Journal
  <2>1. UNCHANGED <<cached, key_pem, cert_pem, check>> /\ pc' = "ready"
    BY <1>2 DEF Journal
  <2>. QED
    BY <1>0, <2>1, Elsewhere DEF d
<1>3. CASE Issue
  <2>1. /\ UNCHANGED <<cached, key_pem, cert_pem, records>>
        /\ names' = Append(names, d) /\ Cleanup(Issued(Len(names) + 1))
    BY <1>3 DEF Issue
  <2>2. /\ Issued(Len(names) + 1).issue = "ok" /\ Issued(Len(names) + 1).target = d
        /\ Issued(Len(names) + 1).loading = check.loading
    BY <1>0, <2>1, IssuedFields
  <2>3. /\ pc' \in {"delete", "store", "next"} /\ check'.issue = "ok"
        /\ d' = d /\ check'.loading = check.loading
    BY <2>1, <2>2, CleanupLeads DEF d
  <2>. QED
    BY <2>1, <2>3, AfterIssue
<1>4. CASE CreateFails \/ JournalFails \/ OrderFails
  <2>1. UNCHANGED <<cached, key_pem, cert_pem>> /\ IssueFails
    BY <1>4 DEF CreateFails, JournalFails, OrderFails
  <2>2. /\ pc' \in {"delete", "next"} /\ check'.issue = "failed"
        /\ d' = d /\ check'.loading = check.loading
    BY <1>0, <2>1, IssueFailsLeads DEF d
  <2>. QED
    BY <2>1, <2>2, AfterIssue
<1>5. CASE StepFails \/ Timeout
  <2>1. UNCHANGED <<cached, key_pem, cert_pem>> /\ Failed
    BY <1>5 DEF StepFails, Timeout
  <2>. QED
    BY <2>1, GivenUp
<1>6. CASE CleanupFails
  <2>1. /\ UNCHANGED <<key_pem, cert_pem>> /\ Failed
        /\ cached["hub"] # 0 => cached'["hub"] # 0
    <3>1. check.issue = "ok" => check.chain # 0
      BY <1>0 DEF TypeOK
    <3>2. cached' \in {Kept, cached}
      BY <1>6 DEF CleanupFails
    <3>3. cached["hub"] # 0 => Kept["hub"] # 0
      BY <1>0, <3>1, CheckFields DEF Kept, TypeOK, Target
    <3>. QED
      BY <1>6, <3>2, <3>3 DEF CleanupFails
  <2>2. /\ pc' \in {"pem", "next"} /\ check'.failed = TRUE
        /\ d' = d /\ check'.loading = check.loading
    BY <1>0, <2>1, FailedLeads DEF d
  <2>. QED
    BY <1>0, <2>1, <2>2 DEF Restored, PemsWhole, WorksOnPems, TakenUp, StartsAgain
<1>. QED
  BY <1>1, <1>2, <1>3, <1>4, <1>5, <1>6

LEMMA DeployRestored ==
    Restored /\ (Store \/ Deploy \/ WriteKey \/ WriteCert \/ Reload \/ Synchronize)
      => PemsWhole' /\ WorksOnPems' /\ TakenUp' /\ StartsAgain'
<1> USE DEF To, files, served, requests
<1> SUFFICES ASSUME Restored
             PROVE  Store \/ Deploy \/ WriteKey \/ WriteCert \/ Reload \/ Synchronize
                      => PemsWhole' /\ WorksOnPems' /\ TakenUp' /\ StartsAgain'
  OBVIOUS
<1>0. TypeOK /\ (check.loading => d = "hub")
  BY DEF Restored, Typed, WorksOnPems
<1>1. CASE Store
  <2>1. /\ UNCHANGED <<key_pem, cert_pem, check>> /\ pc = "store"
        /\ cached' = [cached EXCEPT ![d] = check.chain]
        /\ pc' \in {"deploy", "sync"} /\ (pc' = "deploy" <=> d = "hub")
    BY <1>1 DEF Store, Deploying
  <2>2. check.chain # 0 /\ d \in Target /\ cached \in [Target -> Number]
    BY <1>0, <2>1, CheckFields DEF TypeOK, Deployed
  <2>3. /\ cached["hub"] # 0 => cached'["hub"] # 0
        /\ d = "hub" => cached'["hub"] # 0
    BY <2>1, <2>2 DEF Target
  <2>. QED
    BY <2>1, <2>2, <2>3
       DEF Restored, PemsWhole, WorksOnPems, FromPems, TakenUp, StartsAgain, d, Target
<1>2. CASE Deploy
  <2>1. UNCHANGED <<cached, key_pem, cert_pem>> /\ pc = "deploy"
    BY <1>2 DEF Deploy
  <2>2. CASE Failed
    BY <2>1, <2>2, GivenUp
  <2>3. CASE pc' = "key" /\ check' = Comparing(TRUE) /\ check.chain = check.key
             /\ (key_pem # check.key \/ cert_pem # check.chain)
    <3>1. check'.loading = check.loading /\ d' = d
      BY <1>0, <2>3, ComparingFields DEF d
    <3>2. cached["hub"] # 0 /\ d = "hub"
      BY <2>1, <2>3 DEF Restored, WorksOnPems, FromPems
    <3>. QED
      BY <2>1, <2>3, <3>1, <3>2 DEF Restored, PemsWhole, WorksOnPems, TakenUp, StartsAgain
  <2>4. CASE pc' = "tls" /\ check' = Comparing(FALSE)
    <3>1. check'.loading = check.loading /\ d' = d
      BY <1>0, <2>4, ComparingFields DEF d
    <3>. QED
      BY <2>1, <2>4, <3>1 DEF Restored, PemsWhole, WorksOnPems, TakenUp, StartsAgain
  <2>. QED
    BY <1>2, <2>2, <2>3, <2>4 DEF Deploy
<1>3. CASE WriteKey \/ WriteCert
  <2>1. UNCHANGED <<cached, check>> /\ pc \in {"key", "cert"} /\ pc' \in {"cert", "tls"}
    BY <1>3 DEF WriteKey, WriteCert
  <2>2. cached["hub"] # 0 /\ d = "hub"
    BY <2>1 DEF Restored, WorksOnPems
  <2>. QED
    BY <2>1, <2>2 DEF PemsWhole, WorksOnPems, TakenUp, StartsAgain, d
<1>4. CASE Reload
  <2>1. /\ UNCHANGED <<cached, key_pem, cert_pem, check>> /\ pc = "tls"
        /\ pc' \in {"pem", "next"} /\ tls' # 0
    BY <1>0, <1>4 DEF Reload, Reloads, Stop, TypeOK, Deployed
  <2>. QED
    BY <2>1 DEF Restored, PemsWhole, WorksOnPems, TakenUp, StartsAgain, d
<1>5. CASE Synchronize
  <2>1. /\ UNCHANGED <<cached, key_pem, cert_pem, check>> /\ pc = "sync"
        /\ ~check.loading /\ pc' = "next"
    <3>1. UNCHANGED <<cached, key_pem, cert_pem, check>> /\ pc = "sync"
      BY <1>5 DEF Synchronize
    <3>2. ~check.loading
      BY <3>1 DEF Restored, WorksOnPems
    <3>. QED
      BY <1>5, <3>1, <3>2 DEF Synchronize, Stop
  <2>. QED
    BY <1>0, <2>1, Elsewhere DEF d
<1>. QED
  BY <1>1, <1>2, <1>3, <1>4, <1>5

LEMMA RestoredInvariance == Restored /\ [Next]_vars => Restored'
<1> SUFFICES ASSUME Restored, [Next]_vars PROVE Restored'
  OBVIOUS
<1>1. Typed'
  BY TypedInvariance DEF Restored
<1>2. PemsWhole' /\ WorksOnPems' /\ TakenUp' /\ StartsAgain'
  <2>1. CASE UNCHANGED vars
    BY <2>1 DEF vars, files, served, requests,
                Restored, PemsWhole, WorksOnPems, FromPems, TakenUp, StartsAgain, d
  <2>2. CASE Next
    BY <2>2, StartRestored, CheckRestored, IssueRestored, DeployRestored DEF Next, Step, Fails
  <2>. QED
    BY <2>1, <2>2
<1>. QED
  BY <1>1, <1>2 DEF Restored

(* The hub starts again after a crash, also between the renames of the two     *)
(* PEM files, however often it crashes (load, deploy_local).                 *)
THEOREM HubStartsAgain == Spec => []StartsAgain
<1>1. Restored => StartsAgain
  BY DEF Restored
<1>. QED
  BY <1>1, InitRestored, RestoredInvariance, PTL DEF Spec
-----------------------------------------------------------------------------
(* No certificate is issued without need.                                   *)

LEMMA SourceType == ASSUME TypeOK, NEW t \in Target PROVE Source(t) \in Number
BY NoNumber DEF TypeOK, Source

LEMMA FoundIsSource ==
    ASSUME Restored
    PROVE  Found(cert_pem) = Source(d)
BY DEF Restored, PemsWhole, Found, Source

LEMMA NamesType ==
    ASSUME TypeOK
    PROVE  /\ Len(names) \in Nat /\ DOMAIN names = 1..Len(names)
           /\ wasted \subseteq 1..Len(names) /\ due \subseteq 1..Len(names)
BY DEF TypeOK

LEMMA InitRenewing == Init => Renewing
<1> SUFFICES ASSUME Init PROVE Renewing
  OBVIOUS
<1>0. TypeOK /\ Restored
  BY InitTyped, InitRestored DEF Typed
<1>1. check.issue = "none"
  BY <1>0, NoCheckFields DEF Init
<1>2. \A t \in Target : Source(t) = IF t = "hub" THEN Len(names) ELSE 0
  BY DEF Init, Source
<1>3. Owned /\ Saved /\ Issuing /\ InHand /\ Needed
  BY <1>1 DEF Init, Owned, Saved, Issuing, InHand, Needed
<1>4. ASSUME NEW b \in DOMAIN names \ wasted, names[b] \in Target
      PROVE  b <= Source(names[b])
  <2>1. names = <<"hub">> /\ b = 1
    BY <1>4 DEF Init, Target
  <2>. QED
    BY <1>2, <2>1 DEF Target
<1>. QED
  BY <1>0, <1>3, <1>4 DEF Renewing, Newest

(* What is given up is not what a later check finds.                         *)
LEMMA UnsavedIsNoSource ==
    ASSUME Renewing, NEW t \in Target
    PROVE  Source(t) \notin Unsaved
<1>. SUFFICES ASSUME check.issue = "ok", cached[d] # check.chain
              PROVE  Source(t) # check.chain
  BY DEF Unsaved
<1>1. check.chain # 0 /\ names[check.chain] = d
  BY DEF Renewing, Restored, Typed, TypeOK, Issuing
<1>2. CASE cached[t] # 0
  BY <1>1, <1>2 DEF Source, Renewing, Owned
<1>3. CASE cached[t] = 0
  BY <1>1, <1>3 DEF Source, Renewing, Issuing
<1>. QED
  BY <1>2, <1>3

(* A step that neither issues nor stores nor gives a bundle up.              *)
LEMMA Ordinary ==
    ASSUME Renewing, UNCHANGED <<names, wasted, cached>>,
           UNCHANGED cert_pem \/ cached["hub"] # 0,
           Pending' <=> Pending,
           check'.issue = "ok" =>
               check.issue = "ok" /\ check'.chain = check.chain /\ d' = d
    PROVE  Owned' /\ Saved' /\ Issuing' /\ Newest'
<1>1. \A t \in Target : Source(t)' = Source(t)
  BY DEF Source
<1>2. Owned' /\ Saved'
  BY <1>1 DEF Renewing, Owned, Saved
<1>3. Issuing'
  BY DEF Renewing, Issuing
<1>4. Newest'
  BY <1>1 DEF Renewing, Newest, Pending
<1>. QED
  BY <1>2, <1>3, <1>4

(* A target is given up, and with it a bundle that is not in the cache.      *)
LEMMA Wasting ==
    ASSUME Renewing, UNCHANGED <<names, cached, cert_pem>>, wasted' = wasted \cup Unsaved,
           ~Pending',
           check'.issue = "ok" =>
               check.issue = "ok" /\ check'.chain = check.chain /\ d' = d
    PROVE  Owned' /\ Saved' /\ Issuing' /\ Newest'
<1>1. \A t \in Target : Source(t)' = Source(t)
  BY DEF Source
<1>2. Owned' /\ Saved'
  BY <1>1, UnsavedIsNoSource DEF Renewing, Owned, Saved
<1>3. Issuing'
  BY DEF Renewing, Issuing
<1>4. ASSUME NEW b \in DOMAIN names \ wasted, b \notin Unsaved, names[b] \in Target
      PROVE  b <= Source(names[b])
  <2>1. CASE Pending /\ b = check.chain
    <3>1. check.issue = "ok" /\ check.chain # 0 /\ names[b] = d
      BY <2>1 DEF Renewing, Restored, Typed, TypeOK, Issuing, Pending
    <3>2. cached[d] = b
      BY <1>4, <2>1, <3>1 DEF Unsaved
    <3>3. Source(d) = b /\ b \in Nat
      BY <2>1, <3>1, <3>2, NamesType DEF Source, Renewing, Restored, Typed
    <3>. QED
      BY <3>1, <3>3
  <2>. QED
    BY <1>4, <2>1 DEF Renewing, Newest
<1>. QED
  BY <1>1, <1>2, <1>3, <1>4 DEF Newest

(* The bundle reaches the cache, and is the newest one.                      *)
LEMMA Storing ==
    ASSUME Renewing, UNCHANGED <<names, wasted, cert_pem>>, Pending, ~Pending',
           cached' = [cached EXCEPT ![d] = check.chain],
           check'.issue = "ok" =>
               check.issue = "ok" /\ check'.chain = check.chain /\ d' = d
    PROVE  Owned' /\ Saved' /\ Issuing' /\ Newest'
<1>0. /\ TypeOK /\ d \in Target /\ cached \in [Target -> Number]
      /\ check.chain # 0 /\ check.chain = Len(names) /\ names[check.chain] = d
      /\ check.chain \notin wasted /\ Len(names) \in Nat /\ DOMAIN names = 1..Len(names)
  BY CheckFields, NamesType DEF Renewing, Restored, Typed, TypeOK, Issuing, Pending
<1>1. \A t \in Target : /\ t = d => (cached'[t] = check.chain /\ Source(t)' = check.chain)
                        /\ t # d => (cached'[t] = cached[t] /\ Source(t)' = Source(t))
  BY <1>0 DEF Source
<1>2. Owned'
  BY <1>0, <1>1 DEF Renewing, Owned
<1>3. Saved'
  <2>. SUFFICES ASSUME NEW t \in Target PROVE Source(t)' \notin wasted
    BY DEF Saved
  <2>. QED
    BY <1>0, <1>1 DEF Renewing, Saved
<1>4. Issuing'
  <2>1. cached["hub"] # 0 => cached'["hub"] # 0
    BY <1>0, <1>1 DEF Target
  <2>. QED
    BY <2>1 DEF Renewing, Issuing
<1>5. ASSUME NEW b \in DOMAIN names \ wasted, names[b] \in Target
      PROVE  b <= Source(names[b])'
  <2>0. PICK t \in Target : t = names[b]
    BY <1>5
  <2>1. CASE t = d
    <3>1. Source(t)' = Len(names) /\ b <= Len(names)
      BY <1>0, <1>1, <2>1
    <3>. QED
      BY <2>0, <3>1
  <2>2. CASE t # d
    <3>1. Source(t)' = Source(t) /\ b # check.chain
      BY <1>0, <1>1, <2>0, <2>2
    <3>. QED
      BY <1>5, <2>0, <3>1 DEF Renewing, Newest
  <2>. QED
    BY <2>1, <2>2
<1>. QED
  BY <1>2, <1>3, <1>4, <1>5 DEF Newest

LEMMA IssueRenewing ==
    Renewing /\ Issue => Owned' /\ Saved' /\ Issuing' /\ Newest' /\ InHand' /\ Needed'
<1> SUFFICES ASSUME Renewing, Issue
             PROVE  Owned' /\ Saved' /\ Issuing' /\ Newest' /\ InHand' /\ Needed'
  OBVIOUS
<1> DEFINE n == Len(names) + 1
<1>0. /\ TypeOK /\ d \in Target /\ Len(names) \in Nat /\ DOMAIN names = 1..Len(names)
      /\ wasted \subseteq 1..Len(names)
      /\ cached \in [Target -> 0..Len(names)] /\ cert_pem \in 0..Len(names)
      /\ names \in Seq(Target \cup {"other"})
  BY CheckFields, NamesType DEF Renewing, Restored, Typed, TypeOK, Number
<1>1. /\ UNCHANGED <<cached, cert_pem, wasted, records>> /\ pc = "ready"
      /\ names' = Append(names, d) /\ Cleanup(Issued(n))
  BY DEF Issue, files, history, dns
<1>2. /\ check' = Issued(n) /\ Issued(n).chain = n /\ Issued(n).issue = "ok"
      /\ Issued(n).target = d
  BY <1>0, <1>1, IssuedFields, CleanupLeads
<1>3. /\ Len(names') = n /\ DOMAIN names' = 1..n /\ names'[n] = d
      /\ \A b \in 1..Len(names) : names'[b] = names[b]
  BY <1>0, <1>1
<1>4. pc' \in {"delete", "store"}
  BY <1>1, <1>2, CleanupLeads DEF Cleanup, After, To
<1>5. Pending' /\ check'.chain = n /\ check'.issue = "ok" /\ d' = d
  BY <1>2, <1>4 DEF Pending, d
<1>6. \A t \in Target : Source(t)' = Source(t) /\ Source(t) \in 0..Len(names)
  BY <1>0, <1>1 DEF Source
<1>7. Owned'
  BY <1>0, <1>1, <1>3 DEF Renewing, Owned
<1>8. Saved'
  BY <1>1, <1>6 DEF Renewing, Saved
<1>9. Issuing'
  BY <1>0, <1>1, <1>3, <1>5 DEF Issuing
<1>10. Newest'
  <2>1. ASSUME NEW b \in DOMAIN names' \ wasted', names'[b] \in Target, b # n
        PROVE  b <= Source(names[b])'
    <3>1. b \in DOMAIN names \ wasted /\ names[b] = names'[b]
      BY <1>0, <1>1, <1>3, <2>1
    <3>2. ~Pending
      BY <1>1 DEF Pending
    <3>. QED
      BY <1>6, <2>1, <3>1, <3>2 DEF Renewing, Newest
  <2>. QED
    BY <1>5, <2>1 DEF Newest
<1>11. InHand' /\ Needed'
  BY <1>4, <1>5 DEF InHand, Needed
<1>. QED
  BY <1>7, <1>8, <1>9, <1>10, <1>11

(* A step to a stage at which nothing is ordered.                            *)
LEMMA Leaving ==
    ASSUME Renewing, UNCHANGED <<names, wasted, cached>>,
           UNCHANGED cert_pem \/ cached["hub"] # 0,
           ~Pending,
           pc' \in {"load", "pem", "down", "sleep", "config", "begin", "deploy", "key", "cert",
                    "tls", "sync", "next"},
           check'.issue = "ok" =>
               check.issue = "ok" /\ check'.chain = check.chain /\ d' = d
    PROVE  Owned' /\ Saved' /\ Issuing' /\ Newest' /\ InHand' /\ Needed'
<1>1. ~Pending'
  BY DEF Pending
<1>2. Owned' /\ Saved' /\ Issuing' /\ Newest'
  BY <1>1, Ordinary
<1>. QED
  BY <1>2 DEF InHand, Needed

LEMMA StartRenewing ==
    Renewing /\ (Start \/ Wake \/ ReadConfig \/ NextTarget)
      => Owned' /\ Saved' /\ Issuing' /\ Newest' /\ InHand' /\ Needed'
<1> USE DEF To, files, served, requests, issues, history
<1> SUFFICES ASSUME Renewing
             PROVE  Start \/ Wake \/ ReadConfig \/ NextTarget
                      => Owned' /\ Saved' /\ Issuing' /\ Newest' /\ InHand' /\ Needed'
  OBVIOUS
<1>0. TypeOK
  BY DEF Renewing, Restored, Typed
<1>1. CASE Load
  <2>1. /\ UNCHANGED <<names, wasted, cached, cert_pem>> /\ ~Pending /\ pc' \in {"deploy", "pem"}
        /\ check' = IF Restorable THEN Restoring(cached["hub"]) ELSE NoCheck
    BY <1>1 DEF Load, Pending
  <2>2. cached["hub"] \in Number
    BY <1>0 DEF TypeOK, Target
  <2>3. check'.issue = "none"
    BY <1>0, <2>1, <2>2, RestoringFields, NoCheckFields
  <2>. QED
    BY <2>1, <2>3, Leaving
<1>2. CASE Pem
  <2>1. /\ UNCHANGED <<names, wasted, cached, cert_pem>> /\ ~Pending /\ pc' \in {"config", "down"}
        /\ check' \in {NoCheck, check}
    BY <1>2 DEF Pem, Pending
  <2>2. check' = check \/ check'.issue = "none"
    BY <1>0, <2>1, NoCheckFields
  <2>. QED
    BY <2>1, <2>2, Leaving DEF d
<1>3. CASE Restart
  <2>1. /\ UNCHANGED <<names, wasted, cached, cert_pem>> /\ ~Pending /\ pc' = "load"
        /\ check' = NoCheck
    BY <1>3 DEF Restart, Pending
  <2>. QED
    BY <1>0, <2>1, NoCheckFields, Leaving
<1>4. CASE Wake
  <2>1. UNCHANGED <<names, wasted, cached, cert_pem, check>> /\ ~Pending /\ pc' = "config"
    BY <1>4 DEF Wake, Pending
  <2>. QED
    BY <2>1, Leaving DEF d
<1>5. CASE ReadConfig
  <2>1. UNCHANGED <<names, wasted, cached, cert_pem>> /\ ~Pending /\ pc' \in {"begin", "sleep"}
    BY <1>5 DEF ReadConfig, Pending
  <2>. QED
    BY <1>0, <1>5, <2>1, ReadConfigFields, Leaving
<1>6. CASE NextTarget
  <2>1. UNCHANGED <<names, wasted, cached, cert_pem>> /\ ~Pending /\ pc' \in {"begin", "sleep"}
    BY <1>6 DEF NextTarget, Pending
  <2>. QED
    BY <1>0, <1>6, <2>1, NextTargetFields, Leaving
<1>. QED
  BY <1>1, <1>2, <1>3, <1>4, <1>5, <1>6 DEF Start

LEMMA CheckRenewing ==
    Renewing /\ (Update \/ RequestCheck \/ Age \/ Begin \/ Delete \/ Unlink \/ Decide)
      => Owned' /\ Saved' /\ Issuing' /\ Newest' /\ InHand' /\ Needed'
<1> USE DEF To, files, served, requests, issues, dns, history
<1> SUFFICES ASSUME Renewing
             PROVE  Update \/ RequestCheck \/ Age \/ Begin \/ Delete \/ Unlink \/ Decide
                      => Owned' /\ Saved' /\ Issuing' /\ Newest' /\ InHand' /\ Needed'
  OBVIOUS
<1>0. TypeOK /\ Restored
  BY DEF Renewing, Restored, Typed
<1>1. CASE Update \/ RequestCheck \/ Age
  <2>1. /\ UNCHANGED <<names, wasted, cached, cert_pem, check, pc>> /\ d' = d
        /\ due \subseteq due'
    BY <1>1 DEF Update, RequestCheck, Age, d
  <2>2. Owned' /\ Saved' /\ Issuing' /\ Newest'
    BY <2>1, Ordinary DEF Pending
  <2>3. InHand' /\ Needed'
    BY <2>1 DEF Renewing, InHand, Needed, NeedsIssue, Source
  <2>. QED
    BY <2>2, <2>3
<1>2. CASE Begin
  <2>1. /\ UNCHANGED <<names, wasted, cached, cert_pem>> /\ pc = "begin" /\ check.issue = "none"
        /\ ~Pending
    BY <1>2 DEF Begin, Renewing, Restored, Typed, Fresh, Pending
  <2>2. CASE Failed
    BY <1>0, <2>1, <2>2, FailedLeads, Leaving
  <2>3. CASE /\ ~(Found(cert_pem) # 0 /\ Foreign(Found(cert_pem)))
             /\ Cleanup(Holding(Found(cert_pem), Found(key_pem)))
    <3>1. /\ pc' \in {"delete", "decide", "next"}
          /\ check'.chain = Found(cert_pem) /\ check'.issue = "none" /\ d' = d
      BY <1>0, <2>1, <2>3, CleanupLeads, FoundType, HoldingFields DEF d
    <3>2. Owned' /\ Saved' /\ Issuing' /\ Newest'
      BY <2>1, <3>1, Ordinary DEF Pending
    <3>3. check'.chain = Source(d)'
      BY <1>0, <2>1, <3>1, FoundIsSource DEF Source
    <3>4. check'.chain # 0 => names'[check'.chain] = d'
      BY <2>1, <2>3, <3>1 DEF Foreign
    <3>5. InHand'
      BY <3>3, <3>4 DEF InHand
    <3>. QED
      BY <3>1, <3>2, <3>5 DEF Needed
  <2>. QED
    BY <1>2, <2>2, <2>3 DEF Begin
<1>3. CASE Delete \/ Unlink
  <2>1. /\ UNCHANGED <<names, wasted, cached, cert_pem, check>> /\ d' = d
        /\ pc \in {"delete", "unlink"}
        /\ pc' \in {"unlink", "decide", "store", "next"}
        /\ pc' = "decide" => check.issue = "none"
        /\ pc' = "store" => check.issue = "ok"
        /\ check.issue = "ok" => pc' \in {"unlink", "store"}
    BY <1>3 DEF Delete, Unlink, After, d
  <2>2. Owned' /\ Saved' /\ Issuing' /\ Newest'
    BY <2>1, Ordinary DEF Pending
  <2>3. InHand' /\ Needed'
    BY <2>1 DEF Renewing, InHand, Needed, Source
  <2>. QED
    BY <2>2, <2>3
<1>4. CASE Decide
  <2>1. /\ UNCHANGED <<names, wasted, cached, cert_pem, check, due>> /\ d' = d
        /\ pc = "decide" /\ pc' \in {"create", "deploy", "sync"}
        /\ pc' = "create" => NeedsIssue
        /\ check.issue = "none"
    BY <1>4 DEF Decide, Deploying, Renewing, Restored, Typed, Fresh, d
  <2>2. Owned' /\ Saved' /\ Issuing' /\ Newest'
    BY <2>1, Ordinary DEF Pending
  <2>3. InHand' /\ Needed'
    BY <2>1 DEF Renewing, InHand, Needed, NeedsIssue, Source
  <2>. QED
    BY <2>2, <2>3
<1>. QED
  BY <1>1, <1>2, <1>3, <1>4

LEMMA OrderRenewing ==
    Renewing /\ (CreateRecord \/ Journal \/ CreateFails \/ JournalFails \/ OrderFails)
      => Owned' /\ Saved' /\ Issuing' /\ Newest' /\ InHand' /\ Needed'
<1> USE DEF To, files, served, requests, issues, dns, history
<1> SUFFICES ASSUME Renewing
             PROVE  CreateRecord \/ Journal \/ CreateFails \/ JournalFails \/ OrderFails
                      => Owned' /\ Saved' /\ Issuing' /\ Newest' /\ InHand' /\ Needed'
  OBVIOUS
<1>0. TypeOK
  BY DEF Renewing, Restored, Typed
<1>1. CASE CreateRecord \/ Journal
  <2>1. /\ UNCHANGED <<names, wasted, cached, cert_pem, due>>
        /\ pc \in {"create", "created"} /\ pc' \in {"created", "ready"}
    BY <1>1 DEF CreateRecord, Journal
  <2>2. /\ check'.issue = check.issue /\ check'.chain = check.chain
        /\ check'.forced = check.forced /\ d' = d
    <3>1. CASE UNCHANGED check
      BY <3>1 DEF d
    <3>2. CASE records' = records + 1 /\ check' = Created(records')
      <4>1. Created(records').forced = check.forced
        BY <1>0 DEF TypeOK, LocalVariables, Created
      <4>. QED
        BY <1>0, <2>1, <3>2, <4>1, CreatedFields DEF d
    <3>. QED
      BY <1>1, <3>1, <3>2 DEF CreateRecord, Journal
  <2>3. Owned' /\ Saved' /\ Issuing' /\ Newest'
    BY <2>1, <2>2, Ordinary DEF Pending
  <2>4. InHand' /\ Needed'
    BY <2>1, <2>2 DEF Renewing, InHand, Needed, NeedsIssue, Source
  <2>. QED
    BY <2>3, <2>4
<1>2. CASE CreateFails \/ JournalFails \/ OrderFails
  <2>1. /\ UNCHANGED <<names, wasted, cached, cert_pem>> /\ ~Pending /\ IssueFails
    BY <1>2 DEF CreateFails, JournalFails, OrderFails, Pending
  <2>2. pc' \in {"delete", "next"} /\ check'.issue = "failed"
    BY <1>0, <2>1, IssueFailsLeads
  <2>3. Owned' /\ Saved' /\ Issuing' /\ Newest'
    BY <2>1, <2>2, Ordinary DEF Pending
  <2>. QED
    BY <2>2, <2>3 DEF InHand, Needed
<1>. QED
  BY <1>1, <1>2

LEMMA GiveUpRenewing ==
    Renewing /\ (Crash \/ StepFails \/ Timeout \/ CleanupFails)
      => Owned' /\ Saved' /\ Issuing' /\ Newest' /\ InHand' /\ Needed'
<1> USE DEF To, files, served, requests, issues, dns, history
<1> SUFFICES ASSUME Renewing
             PROVE  Crash \/ StepFails \/ Timeout \/ CleanupFails
                      => Owned' /\ Saved' /\ Issuing' /\ Newest' /\ InHand' /\ Needed'
  OBVIOUS
<1>0. TypeOK
  BY DEF Renewing, Restored, Typed
<1>1. ASSUME Crash \/ StepFails \/ Timeout \/ CleanupFails
      PROVE  /\ UNCHANGED <<names, cert_pem>> /\ pc' \in {"load", "pem", "next"}
             /\ check'.issue = "ok" =>
                  check.issue = "ok" /\ check'.chain = check.chain /\ d' = d
             /\ ~Pending'
  <2>1. CASE Crash
    BY <1>0, <2>1, NoCheckFields DEF Crash, Pending
  <2>2. CASE StepFails \/ Timeout \/ CleanupFails
    <3>1. UNCHANGED <<names, cert_pem>> /\ Failed
      BY <2>2 DEF StepFails, Timeout, CleanupFails
    <3>. QED
      BY <1>0, <3>1, FailedLeads DEF Pending, d
  <2>. QED
    BY <1>1, <2>1, <2>2
<1>2. CASE \/ Crash \/ StepFails \/ Timeout
           \/ CleanupFails /\ UNCHANGED cached /\ wasted' = wasted \cup Unsaved
  <2>1. UNCHANGED cached /\ wasted' = wasted \cup Unsaved
    BY <1>2 DEF Crash, StepFails, Timeout
  <2>2. Owned' /\ Saved' /\ Issuing' /\ Newest'
    BY <1>1, <1>2, <2>1, Wasting
  <2>. QED
    BY <1>1, <1>2, <2>2 DEF InHand, Needed
<1>3. CASE CleanupFails /\ cached' = Kept /\ UNCHANGED wasted
  <2>1. CASE check.issue = "ok"
    <3>1. cached' = [cached EXCEPT ![d] = check.chain] /\ Pending
      BY <1>3, <2>1 DEF Kept, CleanupFails, Pending
    <3>2. Owned' /\ Saved' /\ Issuing' /\ Newest'
      BY <1>1, <1>3, <3>1, Storing
    <3>. QED
      BY <1>1, <1>3, <3>2 DEF InHand, Needed
  <2>2. CASE check.issue # "ok"
    <3>1. UNCHANGED cached /\ ~Pending
      BY <1>3, <2>2 DEF Kept, Pending
    <3>. QED
      BY <1>1, <1>3, <3>1, Leaving
  <2>. QED
    BY <2>1, <2>2
<1>. QED
  BY <1>2, <1>3 DEF CleanupFails

LEMMA DeployRenewing ==
    Renewing /\ (Store \/ Deploy \/ WriteKey \/ WriteCert \/ Reload \/ Synchronize)
      => Owned' /\ Saved' /\ Issuing' /\ Newest' /\ InHand' /\ Needed'
<1> USE DEF To, files, served, requests, issues, dns, history
<1> SUFFICES ASSUME Renewing
             PROVE  Store \/ Deploy \/ WriteKey \/ WriteCert \/ Reload \/ Synchronize
                      => Owned' /\ Saved' /\ Issuing' /\ Newest' /\ InHand' /\ Needed'
  OBVIOUS
<1>0. TypeOK
  BY DEF Renewing, Restored, Typed
<1>1. CASE Store
  <2>1. /\ UNCHANGED <<names, wasted, cert_pem, check>> /\ d' = d
        /\ cached' = [cached EXCEPT ![d] = check.chain]
        /\ pc = "store" /\ pc' \in {"deploy", "sync"}
    BY <1>1 DEF Store, Deploying, d
  <2>2. Pending /\ ~Pending'
    BY <2>1 DEF Renewing, Restored, WorksOnPems, Pending
  <2>3. Owned' /\ Saved' /\ Issuing' /\ Newest'
    BY <2>1, <2>2, Storing
  <2>. QED
    BY <2>1, <2>3 DEF InHand, Needed
<1>2. CASE Deploy
  <2>1. UNCHANGED <<names, wasted, cached, cert_pem>> /\ pc = "deploy" /\ ~Pending
    BY <1>2 DEF Deploy, Pending
  <2>2. CASE Failed
    BY <1>0, <2>1, <2>2, FailedLeads, Leaving DEF d
  <2>3. CASE pc' \in {"key", "tls"} /\ \E c \in BOOLEAN : check' = Comparing(c)
    <3>1. check'.issue = check.issue /\ check'.chain = check.chain /\ d' = d
      BY <1>0, <2>3, ComparingFields DEF d
    <3>. QED
      BY <2>1, <2>3, <3>1, Leaving
  <2>. QED
    BY <1>2, <2>2, <2>3 DEF Deploy
<1>3. CASE WriteKey \/ WriteCert
  <2>1. /\ UNCHANGED <<names, wasted, cached, check>> /\ d' = d
        /\ pc \in {"key", "cert"} /\ pc' \in {"cert", "tls"} /\ ~Pending
    BY <1>3 DEF WriteKey, WriteCert, Pending, d
  <2>2. cached["hub"] # 0
    BY <2>1 DEF Renewing, Restored, WorksOnPems
  <2>. QED
    BY <2>1, <2>2, Leaving
<1>4. CASE Reload \/ Synchronize
  <2>1. /\ UNCHANGED <<names, wasted, cached, cert_pem, check>> /\ d' = d
        /\ pc' \in {"pem", "next"} /\ ~Pending
    BY <1>4 DEF Reload, Synchronize, Stop, Pending, d
  <2>. QED
    BY <2>1, Leaving
<1>. QED
  BY <1>1, <1>2, <1>3, <1>4

LEMMA RenewingInvariance == Renewing /\ [Next]_vars => Renewing'
<1> SUFFICES ASSUME Renewing, [Next]_vars PROVE Renewing'
  OBVIOUS
<1>1. Restored'
  BY RestoredInvariance DEF Renewing
<1>2. Owned' /\ Saved' /\ Issuing' /\ Newest' /\ InHand' /\ Needed'
  <2>1. CASE UNCHANGED vars
    BY <2>1 DEF vars, files, served, requests, issues, history, Renewing, Owned, Saved, Issuing,
                Newest, InHand, Needed, NeedsIssue, Source, Pending, d
  <2>2. CASE Next
    BY <2>2, StartRenewing, CheckRenewing, OrderRenewing, IssueRenewing, GiveUpRenewing,
       DeployRenewing DEF Next, Step, Fails
  <2>. QED
    BY <2>1, <2>2
<1>. QED
  BY <1>1, <1>2 DEF Renewing

(* What the task has in hand when it orders is the newest bundle.            *)
LEMMA IssuesInNeed ==
    ASSUME Renewing, Issue
    PROVE  check.forced \/ Last(d) \subseteq due
<1>. SUFFICES ASSUME ~check.forced, NEW b \in Last(d) PROVE b \in due
  OBVIOUS
<1>1. /\ TypeOK /\ d \in Target /\ check.chain \in Nat /\ DOMAIN names = 1..Len(names)
      /\ Len(names) \in Nat /\ due \subseteq 1..Len(names)
  BY CheckFields, NamesType DEF Renewing, Restored, Typed, Number
<1>2. /\ check.chain = Source(d) /\ (check.chain # 0 => names[check.chain] = d)
      /\ check.chain = 0 \/ check.chain \in due
      /\ ~Pending
  BY DEF Issue, Renewing, InHand, Needed, NeedsIssue, Pending
<1>3. /\ b \in DOMAIN names \ wasted /\ names[b] = d
      /\ \A e \in DOMAIN names \ wasted : names[e] = d => e <= b
  BY DEF Last
<1>4. b <= check.chain
  BY <1>1, <1>2, <1>3 DEF Renewing, Newest
<1>5. check.chain # 0 /\ check.chain \in DOMAIN names \ wasted
  BY <1>1, <1>2, <1>3, <1>4 DEF Renewing, Saved
<1>6. check.chain <= b
  BY <1>2, <1>3, <1>5
<1>. QED
  BY <1>1, <1>2, <1>3, <1>4, <1>5, <1>6

(* No certificate is issued that nobody asked for while the last one of its    *)
(* target is neither due nor lost on its way to the cache, whatever fails and  *)
(* however often the hub dies (check_target, issue).                         *)
THEOREM IssuedInNeed == Spec => NoNeedlessIssue
<1>1. Renewing /\ [Next]_vars =>
        [names' # names => check.forced \/ Last(d) \subseteq due]_vars
  <2>. SUFFICES ASSUME Renewing, Next, names' # names
                PROVE  check.forced \/ Last(d) \subseteq due
    OBVIOUS
  <2>1. Issue
    BY DEF Next, Start, Load, Pem, Restart, Wake, Step, ReadConfig, Begin, Delete, Unlink, Decide,
           CreateRecord, Journal, Store, Deploy, WriteKey, WriteCert, Reload, Synchronize,
           NextTarget, Fails, CleanupFails, CreateFails, JournalFails, OrderFails, StepFails,
           Timeout, Crash, Update, RequestCheck, Age, issues
  <2>. QED
    BY <2>1, IssuesInNeed
<1>. QED
  BY <1>1, InitRenewing, RenewingInvariance, PTL DEF Spec, NoNeedlessIssue
=============================================================================
