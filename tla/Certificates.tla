---------------------------- MODULE Certificates ----------------------------
(***************************************************************************)
(* The renewal of certificates (src/src/certificates.rs): one for the hub    *)
(* itself, which it serves and keeps in two PEM files, and one for the       *)
(* camera, which is sent over its link (module DeviceLinks).                *)
(*                                                                         *)
(* One task checks both targets, one after the other: it takes the bundle    *)
(* from the cache (the hub's also from the PEM files), removes a TXT record   *)
(* that was left at DNSPod, has a new certificate issued when one is due,     *)
(* and deploys it.  A target may be given up at an await (600 s), any call    *)
(* or write may fail, and the hub may die between any two steps and start    *)
(* again with load().  The file of the configuration can always be read.     *)
(*                                                                         *)
(* A bundle (chain and key) is the number of its issue and names[b] its      *)
(* subject; due is the set of those past their time of renewal.             *)
(***************************************************************************)
EXTENDS Naturals, Sequences

CONSTANT Budgets    \* bounds: how often each thing of Bound happens in a behaviour

(* Calls and writes that fail, checks that take 600 s, crashes, bundles that   *)
(* come of age, updates of the configuration, requests of a forced renewal.   *)
Bound == {"errors", "timeouts", "crashes", "ages", "updates", "forces"}

ASSUME CertificatesAssumption == Budgets \subseteq [Bound -> Nat]

Target == {"hub", "camera"}

VARIABLES
    config,     \* the saved configuration: enabled, and whether the hub has a domain
    names,      \* of every bundle there ever was: whom it is for
    due,        \* those to be renewed
    cached,     \* of each target: the bundle in its cache file, or 0
    key_pem, cert_pem,    \* the bundles the two PEM files are of, or 0
    tls,        \* the bundle the hub serves
    edge,       \* the bundle the camera has acknowledged
    journal,    \* of each target: the TXT record in its challenge file, or 0
    txt,        \* the TXT records there are at DNSPod
    records,    \* how many have been created
    force,      \* CertificateService.force
    pc, check,  \* where the task is, and its local variables
    lost,       \* history: records whose number never reached the journal
    wasted,     \* history: bundles that never reached the cache
    left        \* how much of each bound is left

files    == <<cached, key_pem, cert_pem>>
served   == <<tls, edge>>
dns      == <<journal, txt, records>>
requests == <<config, force>>
issues   == <<names, due>>
history  == <<lost, wasted>>
vars == <<requests, issues, files, served, dns, pc, check, history, left>>

Spend(b) == left[b] > 0 /\ left' = [left EXCEPT ![b] = @ - 1]

NoCheck == [local |-> FALSE, forced |-> FALSE, failed |-> FALSE, loading |-> FALSE,
            target |-> "hub", chain |-> 0, key |-> 0, changed |-> FALSE,
            issue |-> "none", record |-> 0]

(* The first start: nothing is cached, and the PEM files are missing, or were *)
(* made for the hub's domain or for something else (a self-signed pair).     *)
Init ==
    /\ config = [enabled |-> TRUE, local |-> TRUE]
    /\ names \in {<<>>, <<"hub">>, <<"other">>}
    /\ due = {}
    /\ cached = [t \in Target |-> 0]
    /\ key_pem = Len(names) /\ cert_pem = Len(names)
    /\ tls = 0 /\ edge = 0
    /\ journal = [t \in Target |-> 0]
    /\ txt = {} /\ records = 0
    /\ force = FALSE
    /\ pc = "load" /\ check = NoCheck
    /\ lost = {} /\ wasted = {}
    /\ left \in Budgets

d == check.target
Foreign(b) == names[b] # d

(* The hub serves HTTP: load() has returned.                                *)
Up == pc \notin {"load", "pem", "down"} /\ ~check.loading

-----------------------------------------------------------------------------
(* How a target ends, and what comes next.                                  *)

To(stage) == pc' = stage

(* The local variables as check() and check_target go on.                   *)
Checking(local, forced, failed, target) ==
    [NoCheck EXCEPT !.local = local, !.forced = forced, !.failed = failed, !.target = target]
Restoring(b)     == [NoCheck EXCEPT !.loading = TRUE, !.chain = b, !.key = b]
Holding(b, k)    == [check EXCEPT !.chain = b, !.key = k]
Created(r)       == [check EXCEPT !.record = r]
Issued(b)        == [check EXCEPT !.issue = "ok", !.chain = b, !.key = b]
Comparing(c)     == [check EXCEPT !.changed = c]
Erroneous        == [check EXCEPT !.failed = TRUE]
IssueErroneous   == [check EXCEPT !.issue = "failed", !.failed = TRUE]

(* check_target returns an error; in load() it is only logged.              *)
Stop   == To(IF check.loading THEN "pem" ELSE "next")
Failed == Stop /\ check' = Erroneous
Fault  == Spend("errors")

Deploying == IF d = "hub" THEN "deploy" ELSE "sync"

(* A bundle that is given up before it is in the cache.                     *)
Unsaved == IF check.issue = "ok" /\ cached[d] # check.chain THEN {check.chain} ELSE {}

(* The next target, or the end of the check.                                *)
NextTarget ==
    /\ pc = "next"
    /\ IF d = "hub"
       THEN To("begin") /\ check' = Checking(check.local, check.forced, check.failed, "camera")
       ELSE To("sleep") /\ check' = Checking(FALSE, FALSE, check.failed, "hub")
    /\ UNCHANGED <<requests, issues, files, served, dns, history, left>>

-----------------------------------------------------------------------------
(* CertificateService::load.                                                *)

(* The bundle in the cache is deployed again, whatever the PEM files are.    *)
Restorable_Never == FALSE    \* fault: the PEM files are taken as they are
Restorable == config.local /\ cached["hub"] # 0

Load ==
    /\ pc = "load"
    /\ IF Restorable
       THEN To("deploy") /\ check' = Restoring(cached["hub"])
       ELSE To("pem") /\ check' = NoCheck
    /\ UNCHANGED <<requests, issues, files, served, dns, history, left>>

(* Without a bundle the hub serves the PEM files, or fails to start if they   *)
(* do not belong together.  The loop of the task begins with a check.        *)
Pem ==
    /\ pc = "pem"
    /\ IF tls = 0 /\ key_pem # 0 /\ cert_pem # 0
       THEN \/ /\ key_pem = cert_pem
               /\ tls' = cert_pem
               /\ To("config") /\ check' = NoCheck
            \/ /\ key_pem # cert_pem
               /\ To("down") /\ UNCHANGED <<tls, check>>
       ELSE To("config") /\ check' = NoCheck /\ UNCHANGED tls
    /\ UNCHANGED <<requests, issues, files, edge, dns, history, left>>

(* The process ends, at any point, and is started again.                    *)
Crash ==
    /\ pc # "down"
    /\ Spend("crashes")
    /\ To("load") /\ check' = NoCheck
    /\ tls' = 0 /\ force' = FALSE
    /\ lost' = IF pc = "created" THEN lost \cup {check.record} ELSE lost
    /\ wasted' = wasted \cup Unsaved
    /\ UNCHANGED <<config, issues, files, edge, dns>>

Restart ==
    /\ pc = "down"
    /\ To("load") /\ check' = NoCheck
    /\ UNCHANGED <<requests, issues, files, served, dns, history, left>>

-----------------------------------------------------------------------------
(* The loop of spawn(), and those who ask something of it.                  *)

(* Something was asked for, or retry_seconds or interval_seconds are over,    *)
(* which they are in the end: the permit of the Notify is in DeviceLinks.    *)
Wake ==
    /\ pc = "sleep"
    /\ To("config")
    /\ UNCHANGED <<requests, issues, files, served, dns, check, history, left>>

(* The configuration is copied and force taken.  The two are steps of their   *)
(* own, but a request that comes between them may as well come before.       *)
ReadConfig ==
    /\ pc = "config"
    /\ force' = FALSE
    /\ check' = Checking(config.local, force, FALSE, IF config.local THEN "hub" ELSE "camera")
    /\ To(IF config.enabled THEN "begin" ELSE "sleep")
    /\ UNCHANGED <<config, issues, files, served, dns, history, left>>

Update ==
    /\ Up
    /\ Spend("updates")
    /\ config' \in [enabled : BOOLEAN, local : BOOLEAN] \ {config}
    /\ UNCHANGED <<force, issues, files, served, dns, pc, check, history>>

RequestCheck ==
    /\ Up
    /\ Spend("forces")
    /\ force' = TRUE
    /\ UNCHANGED <<config, issues, files, served, dns, pc, check, history>>

(* Time passes.                                                             *)
Age ==
    /\ Spend("ages")
    /\ \E b \in DOMAIN names : b \notin due /\ due' = due \cup {b}
    /\ UNCHANGED <<requests, names, files, served, dns, pc, check, history>>

-----------------------------------------------------------------------------
(* check_target.                                                            *)

(* What comes after a cleanup: the rest of check_target, or of issue().      *)
After(issue) == IF issue = "none" THEN "decide" ELSE IF issue = "ok" THEN "store" ELSE "next"

Cleanup_Issued(c) ==    \* fault: nothing is cleaned up before an issue
    check' = c /\ To(IF c.issue # "none" /\ journal[d] # 0 THEN "delete" ELSE After(c.issue))
Cleanup(c) == check' = c /\ To(IF journal[d] # 0 THEN "delete" ELSE After(c.issue))

(* What there is of a bundle: in the cache, or else in PEM file f.           *)
Found(f) ==
    IF cached[d] # 0 THEN cached[d]
    ELSE IF d = "hub" /\ key_pem # 0 /\ cert_pem # 0 THEN f ELSE 0

Begin ==
    /\ pc = "begin"
    /\ IF Found(cert_pem) # 0 /\ Foreign(Found(cert_pem))
       THEN Failed
       ELSE Cleanup(Holding(Found(cert_pem), Found(key_pem)))
    /\ UNCHANGED <<requests, issues, files, served, dns, history, left>>

(* cleanup: the record is deleted, or was already, and the file removed.     *)
Delete ==
    /\ pc = "delete"
    /\ txt' = txt \ {journal[d]}
    /\ To("unlink")
    /\ UNCHANGED <<requests, issues, files, served, journal, records, check, history, left>>

Unlink ==
    /\ pc = "unlink"
    /\ journal' = [journal EXCEPT ![d] = 0]
    /\ To(After(check.issue))
    /\ UNCHANGED <<requests, issues, files, served, txt, records, check, history, left>>

(* A certificate that was issued is kept although the record could not be     *)
(* removed, unless that write fails, too.                                   *)
Kept_Dropped == cached    \* fault: the error is returned at once
Kept == IF check.issue = "ok" THEN [cached EXCEPT ![d] = check.chain] ELSE cached

CleanupFails ==
    /\ pc \in {"delete", "unlink"}
    /\ Fault
    /\ Failed
    /\ txt' \in IF pc = "delete" THEN {txt, txt \ {journal[d]}} ELSE {txt}
    /\ \/ cached' = Kept /\ UNCHANGED wasted
       \/ wasted' = wasted \cup Unsaved /\ UNCHANGED cached
    /\ UNCHANGED <<requests, issues, key_pem, cert_pem, served, journal, records, lost>>

NeedsIssue == check.forced \/ check.chain = 0 \/ check.chain \in due

Decide ==
    /\ pc = "decide"
    /\ To(IF NeedsIssue THEN "create" ELSE Deploying)
    /\ UNCHANGED <<requests, issues, files, served, dns, check, history, left>>

-----------------------------------------------------------------------------
(* issue.                                                                   *)

IssueFails == Cleanup(IssueErroneous)

(* The record is created at DNSPod; or the authorization is valid still.     *)
CreateRecord ==
    /\ pc = "create"
    /\ \/ /\ records' = records + 1
          /\ txt' = txt \cup {records'}
          /\ check' = Created(records')
          /\ To("created")
       \/ To("ready") /\ UNCHANGED <<records, txt, check>>
    /\ UNCHANGED <<requests, issues, files, served, journal, history, left>>

(* The call fails, perhaps after it was carried out.                        *)
CreateFails ==
    /\ pc = "create"
    /\ Fault
    /\ IssueFails
    /\ \/ UNCHANGED <<records, txt, lost>>
       \/ /\ records' = records + 1
          /\ txt' = txt \cup {records'} /\ lost' = lost \cup {records'}
    /\ UNCHANGED <<requests, issues, files, served, journal, wasted>>

Journal ==
    /\ pc = "created"
    /\ journal' = [journal EXCEPT ![d] = check.record]
    /\ To("ready")
    /\ UNCHANGED <<requests, issues, files, served, txt, records, check, history, left>>

(* The journal cannot be written: whether the record can be deleted is not    *)
(* looked at.                                                               *)
JournalFails ==
    /\ pc = "created"
    /\ Fault
    /\ IssueFails
    /\ \/ txt' = txt \ {check.record} /\ UNCHANGED lost
       \/ lost' = lost \cup {check.record} /\ UNCHANGED txt
    /\ UNCHANGED <<requests, issues, files, served, journal, records, wasted>>

(* The order is ready, finalized, and its certificate is there.              *)
Issue ==
    /\ pc = "ready"
    /\ names' = Append(names, d)
    /\ Cleanup(Issued(Len(names) + 1))
    /\ UNCHANGED <<requests, due, files, served, dns, history, left>>

OrderFails ==
    /\ pc = "ready"
    /\ Fault
    /\ IssueFails
    /\ UNCHANGED <<requests, issues, files, served, dns, history>>

Store ==
    /\ pc = "store"
    /\ cached' = [cached EXCEPT ![d] = check.chain]
    /\ To(Deploying)
    /\ UNCHANGED <<requests, issues, key_pem, cert_pem, served, dns, check, history, left>>

-----------------------------------------------------------------------------
(* deploy_local, and the camera.                                            *)

Deploy ==
    /\ pc = "deploy"
    /\ IF Foreign(check.chain) \/ check.chain # check.key
       THEN Failed
       ELSE IF key_pem # check.key \/ cert_pem # check.chain
       THEN To("key") /\ check' = Comparing(TRUE)
       ELSE To("tls") /\ check' = Comparing(FALSE)
    /\ UNCHANGED <<requests, issues, files, served, dns, history, left>>

WriteKey ==
    /\ pc = "key"
    /\ key_pem' = check.key
    /\ To("cert")
    /\ UNCHANGED <<requests, issues, cached, cert_pem, served, dns, check, history, left>>

WriteCert ==
    /\ pc = "cert"
    /\ cert_pem' = check.chain
    /\ To("tls")
    /\ UNCHANGED <<requests, issues, cached, key_pem, served, dns, check, history, left>>

Reloads_Once == tls = 0    \* fault: only what load() finds is served
Reloads == tls = 0 \/ check.changed

Reload ==
    /\ pc = "tls"
    /\ tls' = IF Reloads THEN check.chain ELSE tls
    /\ Stop
    /\ UNCHANGED <<requests, issues, files, edge, dns, check, history, left>>

(* synchronize (module DeviceLinks) succeeds.                               *)
Synchronize ==
    /\ pc = "sync"
    /\ edge' = check.chain
    /\ Stop
    /\ UNCHANGED <<requests, issues, files, tls, dns, check, history, left>>

(* Anything else that may go wrong outside of issue(): a file that cannot be  *)
(* read, missing credentials, a write, the camera.                          *)
StepFails ==
    /\ pc \in {"begin", "decide", "store", "deploy", "key", "cert", "sync"}
    /\ Fault
    /\ Failed
    /\ wasted' = wasted \cup Unsaved
    /\ UNCHANGED <<requests, issues, files, served, dns, lost>>

(* The 600 s of a target are over while it waits: it is dropped where it is.  *)
(* The lock of tls is never held long enough to be waited for.               *)
Timeout ==
    /\ pc \in {"delete", "create", "ready", "store", "deploy", "sync"} /\ ~check.loading
    /\ Spend("timeouts")
    /\ Failed
    /\ wasted' = wasted \cup Unsaved
    /\ \/ UNCHANGED <<records, txt, lost>>
       \/ /\ pc = "create"
          /\ records' = records + 1
          /\ txt' = txt \cup {records'} /\ lost' = lost \cup {records'}
       \/ /\ pc = "delete"
          /\ txt' = txt \ {journal[d]}
          /\ UNCHANGED <<records, lost>>
    /\ UNCHANGED <<requests, issues, files, served, journal>>

-----------------------------------------------------------------------------
Start == Load \/ Pem \/ Restart
Step  == \/ ReadConfig \/ Begin \/ Delete \/ Unlink \/ Decide
         \/ CreateRecord \/ Journal \/ Issue \/ Store
         \/ Deploy \/ WriteKey \/ WriteCert \/ Reload \/ Synchronize \/ NextTarget
Fails == CleanupFails \/ CreateFails \/ JournalFails \/ OrderFails \/ StepFails \/ Timeout

Next == Start \/ Wake \/ Step \/ Fails \/ Crash \/ Update \/ RequestCheck \/ Age

Spec == Init /\ [][Next]_vars

(* The task is scheduled and its timer fires; a supervisor restarts the hub.  *)
FairSpec == Spec /\ WF_vars(Start \/ Wake \/ Step)

-----------------------------------------------------------------------------
(* Properties.                                                              *)

Number == 0..Len(names)
Stage  == {"load", "pem", "down", "sleep", "config", "begin", "delete", "unlink", "decide",
           "create", "created", "ready", "store", "deploy", "key", "cert", "tls", "sync", "next"}

Deployed == pc \in {"store", "deploy", "key", "cert", "tls", "sync"}

LocalVariables ==
    [local : BOOLEAN, forced : BOOLEAN, failed : BOOLEAN, loading : BOOLEAN, target : Target,
     chain : Number, key : Number, changed : BOOLEAN, issue : {"none", "ok", "failed"},
     record : 0..records]

TypeOK ==
    /\ config \in [enabled : BOOLEAN, local : BOOLEAN]
    /\ names \in Seq(Target \cup {"other"})
    /\ due \subseteq 1..Len(names) /\ wasted \subseteq 1..Len(names)
    /\ cached \in [Target -> Number]
    /\ key_pem \in Number /\ cert_pem \in Number /\ tls \in Number /\ edge \in Number
    /\ records \in Nat
    /\ journal \in [Target -> 0..records]
    /\ txt \subseteq 1..records /\ lost \subseteq 1..records
    /\ force \in BOOLEAN
    /\ pc \in Stage
    /\ check \in LocalVariables
    /\ Deployed \/ check.issue = "ok" => check.chain # 0
    /\ left \in [Bound -> Nat]

(* No TXT record is forgotten at DNSPod: one that is there is in a challenge  *)
(* file, where a later check finds it, is about to be written to one, or was  *)
(* lost to a failure or crash right then (cleanup, issue).                  *)
RecordsFound ==
    \A r \in txt \ lost : \/ \E t \in Target : journal[t] = r
                          \/ pc = "created" /\ check.record = r

(* A certificate is issued only when it is asked for or the last one of the    *)
(* target that reached the cache is due: a failure to clean up, to deploy or   *)
(* to reach the camera costs no second one (check_target, issue).            *)
Last(t) == {b \in DOMAIN names \ wasted :
              names[b] = t /\ \A e \in DOMAIN names \ wasted : names[e] = t => e <= b}
NoNeedlessIssue ==
    [][names' # names => check.forced \/ Last(d) \subseteq due]_vars

(* The hub starts again, although it may have died between the renames of its  *)
(* two PEM files, unless restoring them fails or its domain has been taken    *)
(* from the configuration since (load).                                     *)
StartsAgain == pc = "down" => check.failed \/ ~config.local

(* A target has a certificate in use that is not due for renewal.            *)
InUse(t) == IF t = "hub" THEN tls ELSE edge
Current(t) == InUse(t) # 0 /\ InUse(t) \notin due

(* The hub's PEM files are for something else, which ends every check of it.   *)
Blocked == cached["hub"] = 0 /\ cert_pem # 0 /\ names[cert_pem] # "hub"

(* Each target always has a current certificate again, after failures,        *)
(* timeouts, crashes and changes of the configuration, as long as renewal is   *)
(* enabled and the hub runs (check, check_target).                           *)
Renews ==
    \A t \in Target :
      []<>(\/ Current(t) \/ ~config.enabled \/ pc = "down"
           \/ t = "hub" /\ (~config.local \/ Blocked))
=============================================================================
