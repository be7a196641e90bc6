-------------------------- MODULE VoicePagesProofs --------------------------
(***************************************************************************)
(* Proofs about VoicePages.  Of the voice view: the external interface of the  *)
(* air conditioner is open only while every capability is verified, and a     *)
(* capability is confirmed only by the command that tried it, for any set of    *)
(* capabilities and however often the view, the studio and the network do what  *)
(* they do.  Of the studio: what a visitor hears is spoken with a recording of   *)
(* his own, none older than what was confirmed to him, and what is confirmed is *)
(* kept, for any number of visitors and sessions.                             *)
(***************************************************************************)
EXTENDS VoicePages, TLAPS

(***************************************************************************)
(* Requests of the areas: of which command they are, and what the last command *)
(* was.  A request about a capability names one; what waits to be confirmed,    *)
(* and what is being confirmed, is the command tried last, which succeeded.     *)
(***************************************************************************)
Request ==
    [stage : {"none", "sent", "done", "refused", "loading"},
     kind  : {"none", "remote", "pass", "fail", "reset", "enable", "disable", "command",
              "schedule", "rotate", "toggle", "autostart", "install"},
     cap   : Capability \cup {None}]

HubState ==
    [commands : Nat, verified : SUBSET Capability, gate : BOOLEAN, ir : BOOLEAN,
     voice : BOOLEAN, asset : {"missing", "installing", "installed"}, profile : Nat]

Typed ==
    /\ hub \in HubState
    /\ op \in [Area -> Request]
    /\ pending \in Capability \cup {None}
    /\ tried \in [cap : Capability \cup {None}, ok : BOOLEAN]

TriedLast(cap) == tried.cap = cap /\ tried.ok

Named == \A a \in Area : op[a].kind \in {"pass", "fail", "reset"} => op[a].cap \in Capability

Confirming ==
    /\ \A a \in Area : op[a].kind \in {"remote", "pass"} => a = "aircon"
    /\ op["aircon"].kind = "remote" => tried.cap = op["aircon"].cap
    /\ op["aircon"].kind = "pass" => TriedLast(op["aircon"].cap)
    /\ pending # None => TriedLast(pending)

Remembered == Typed /\ Named /\ Confirming /\ GateVerified

consoleCore == <<hub, op, pending, tried>>

-----------------------------------------------------------------------------
LEMMA CoreKept == ASSUME Remembered, UNCHANGED consoleCore PROVE Remembered'
BY DEF consoleCore, Remembered, Typed, Named, Confirming, TriedLast, GateVerified

(* The hub changes by itself, or by a profile.                               *)
LEMMA HubAlone ==
    ASSUME Remembered, UNCHANGED <<op, pending, tried>>, hub' \in HubState,
           hub'.gate = hub.gate, hub'.verified = hub.verified
    PROVE  Remembered'
BY DEF Remembered, Typed, Named, Confirming, TriedLast, GateVerified

LEMMA HubChangesKept == ASSUME Remembered, HubChanges PROVE Remembered'
<1>1. UNCHANGED <<op, pending, tried>>
  BY DEF HubChanges, Ops
<1>2. hub \in HubState
  BY DEF Remembered, Typed
<1>3. hub' \in HubState /\ hub'.gate = hub.gate /\ hub'.verified = hub.verified
  BY <1>2 DEF HubChanges, HubState
<1>. QED
  BY <1>1, <1>3, HubAlone

LEMMA HubProfileKept == ASSUME Remembered, NEW free, HubProfile(free) PROVE Remembered'
<1>1. UNCHANGED <<op, pending, tried>>
  BY DEF HubProfile, Ops
<1>2. hub \in HubState
  BY DEF Remembered, Typed
<1>3. hub' \in HubState /\ hub'.gate = hub.gate /\ hub'.verified = hub.verified
  BY <1>2 DEF HubProfile, HubState
<1>. QED
  BY <1>1, <1>3, HubAlone

(***************************************************************************)
(* A request begins.  Only a command of the remote is tried, and it takes what *)
(* waited to be confirmed away.                                             *)
(***************************************************************************)
LEMMA Replaced ==
    ASSUME Remembered, NEW a \in Area, NEW r \in Request, op' = [op EXCEPT ![a] = r],
           UNCHANGED hub,
           r.kind \in {"pass", "fail", "reset"} => r.cap \in Capability,
           r.kind \in {"remote", "pass"} => a = "aircon",
           pending' \in Capability \cup {None},
           tried' \in [cap : Capability \cup {None}, ok : BOOLEAN],
           pending' # None => TriedLast(pending)',
           r.kind = "remote" => tried'.cap = r.cap,
           r.kind = "pass" => tried'.cap = r.cap /\ tried'.ok,
           a = "aircon" \/ UNCHANGED tried
    PROVE  Remembered'
<1>1. op' \in [Area -> Request] /\ \A x \in Area : op'[x] = IF x = a THEN r ELSE op[x]
  BY DEF Remembered, Typed
<1>2. Typed' /\ GateVerified'
  BY <1>1 DEF Remembered, Typed, GateVerified
<1>3. Named'
  BY <1>1 DEF Remembered, Named
<1>4. "aircon" \in Area
  BY DEF Area
<1>5. Confirming'
  <2>1. \A x \in Area : op'[x].kind \in {"remote", "pass"} => x = "aircon"
    BY <1>1 DEF Remembered, Confirming
  <2>2. CASE a = "aircon"
    BY <1>1, <1>4, <2>1, <2>2 DEF Confirming, TriedLast
  <2>3. CASE a # "aircon"
    BY <1>1, <1>4, <2>1, <2>3 DEF Remembered, Confirming, TriedLast
  <2>. QED
    BY <2>2, <2>3
<1>. QED
  BY <1>2, <1>3, <1>5 DEF Remembered

LEMMA Kept ==
    ASSUME Remembered, NEW a \in Area, NEW kind, NEW cap, Begin(a, Sent(kind, cap)),
           Sent(kind, cap) \in Request, UNCHANGED <<hub, pending, tried>>,
           kind \notin {"remote", "pass"},
           kind \in {"fail", "reset"} => cap \in Capability
    PROVE  Remembered'
<1>. DEFINE r == Sent(kind, cap)
<1>1. r \in Request /\ r.kind = kind /\ r.cap = cap
  BY DEF Sent
<1>2. op' = [op EXCEPT ![a] = r]
  BY DEF Begin
<1>3. pending' # None => TriedLast(pending)'
  BY DEF Remembered, Confirming, TriedLast
<1>. HIDE DEF r
<1>. QED
  BY <1>1, <1>2, <1>3, Replaced DEF Remembered, Typed

LEMMA RemoteKept ==
    ASSUME Remembered, UNCHANGED hub, NEW cap \in Capability, SendAirconRemoteCommand(cap)
    PROVE  Remembered'
<1>. DEFINE r == Sent("remote", cap)
<1>1. r \in Request /\ r.kind = "remote" /\ r.cap = cap
  BY DEF Sent, Request
<1>2. op' = [op EXCEPT !["aircon"] = r] /\ pending' = None
  BY DEF SendAirconRemoteCommand, Begin
<1>3. tried' = [cap |-> cap, ok |-> FALSE]
  BY DEF SendAirconRemoteCommand
<1>4. tried' \in [cap : Capability \cup {None}, ok : BOOLEAN] /\ tried'.cap = cap
  BY <1>3
<1>5. "aircon" \in Area
  BY DEF Area
<1>. HIDE DEF r
<1>. QED
  BY <1>1, <1>2, <1>4, <1>5, Replaced

LEMMA VerificationKept ==
    ASSUME Remembered, UNCHANGED hub, NEW verified \in BOOLEAN, UpdateAirconVerification(verified)
    PROVE  Remembered'
<1>. DEFINE kind == IF verified THEN "pass" ELSE "fail"
            r == Sent(kind, pending)
<1>1. pending \in Capability /\ TriedLast(pending) /\ UNCHANGED <<pending, tried>>
  BY DEF UpdateAirconVerification, Remembered, Typed, Confirming
<1>2. r \in Request /\ r.kind = kind /\ r.cap = pending
  BY <1>1 DEF Sent, Request
<1>3. op' = [op EXCEPT !["aircon"] = r]
  BY DEF UpdateAirconVerification, Begin
<1>4. "aircon" \in Area
  BY DEF Area
<1>5. TriedLast(pending)' /\ tried'.cap = pending /\ tried'.ok
  BY <1>1 DEF TriedLast
<1>6. pending' \in Capability \cup {None} /\ tried' \in [cap : Capability \cup {None}, ok : BOOLEAN]
  BY <1>1 DEF Remembered, Typed
<1>7. kind # "remote"
  OBVIOUS
<1>. HIDE DEF r, kind
<1>. QED
  BY <1>1, <1>2, <1>3, <1>4, <1>5, <1>6, <1>7, Replaced

LEMMA OperateKept == ASSUME Remembered, Operate PROVE Remembered'
<1>. USE DEF Operate
<1>a. "aircon" \in Area /\ "ir" \in Area /\ "services" \in Area /\ "assets" \in Area
  BY DEF Area
<1>b. UNCHANGED hub
  OBVIOUS
<1>1. ASSUME NEW cap \in Capability, SendAirconRemoteCommand(cap) PROVE Remembered'
  BY <1>1, <1>b, RemoteKept
<1>2. ASSUME NEW cap \in Capability, ResetAirconVerification(cap) PROVE Remembered'
  <2>1. Sent("reset", cap) \in Request
    BY DEF Sent, Request
  <2>. QED
    BY <1>2, <1>a, <1>b, <2>1, Kept DEF ResetAirconVerification
<1>3. ASSUME NEW verified \in BOOLEAN, UpdateAirconVerification(verified) PROVE Remembered'
  BY <1>3, <1>b, VerificationKept
<1>4. ASSUME NEW enabled \in BOOLEAN, SetAirconIntegration(enabled) PROVE Remembered'
  <2>1. Sent("enable", None) \in Request /\ Sent("disable", None) \in Request
    BY DEF Sent, Request
  <2>2. CASE enabled
    <3>1. Begin("aircon", Sent("enable", None)) /\ UNCHANGED <<pending, tried>>
      BY <1>4, <2>2 DEF SetAirconIntegration
    <3>. QED
      BY <1>a, <1>b, <2>1, <3>1, Kept
  <2>3. CASE ~ enabled
    <3>1. Begin("aircon", Sent("disable", None)) /\ UNCHANGED <<pending, tried>>
      BY <1>4, <2>3 DEF SetAirconIntegration
    <3>. QED
      BY <1>a, <1>b, <2>1, <3>1, Kept
  <2>. QED
    BY <2>2, <2>3
<1>5. ASSUME NEW a \in Area,
             NEW kind \in {"command", "schedule", "rotate", "toggle", "autostart", "install"},
             Begin(a, Sent(kind, None)), UNCHANGED <<pending, tried>>
      PROVE  Remembered'
  <2>1. Sent(kind, None) \in Request
    BY DEF Sent, Request
  <2>. QED
    BY <1>5, <1>b, <2>1, Kept
<1>. QED
  BY <1>1, <1>2, <1>3, <1>4, <1>5, <1>a
  DEF SubmitAirconCommand, SubmitAirconTimer, CancelAirconSchedule, RotateAirconToken,
      ControlIrService, SetIrAutostart, ControlVoiceService, SetVoiceServiceAutostart,
      InstallVoiceAsset

(***************************************************************************)
(* The hub handles a request, and its answer comes.                           *)
(***************************************************************************)
LEMMA CarriedOut ==
    ASSUME Remembered, NEW a \in Area, Accepts(op[a])
    PROVE  /\ Carried(a, op[a]) \in HubState
           /\ Carried(a, op[a]).gate => Carried(a, op[a]).verified = Capability
<1>. DEFINE r == op[a]
<1>1. r \in Request /\ (r.kind \in {"pass", "fail", "reset"} => r.cap \in Capability)
  BY DEF Remembered, Typed, Named
<1>2. hub \in HubState /\ (hub.gate => hub.verified = Capability)
  BY DEF Remembered, Typed, GateVerified
<1>3. r.kind = "enable" => hub.verified = Capability
  BY DEF Accepts
<1>. HIDE DEF r
<1>4. CASE r.kind \in {"pass", "fail", "reset"}
  <2>1. Carried(a, r) = UpdateVerification(r)
    BY <1>4 DEF Carried
  <2>2. UpdateVerification(r) \in HubState
    BY <1>1, <1>2, <1>4 DEF UpdateVerification, HubState
  <2>3. UpdateVerification(r).gate => UpdateVerification(r).verified = Capability
    BY <1>1, <1>2, <1>4 DEF UpdateVerification, HubState
  <2>. QED
    BY <2>1, <2>2, <2>3 DEF r
<1>5. CASE r.kind \in {"enable", "disable"}
  <2>. DEFINE opens == (r.kind = "enable")
  <2>1. Carried(a, r) = [hub EXCEPT !.gate = opens]
    BY <1>5 DEF Carried
  <2>2. opens \in BOOLEAN /\ (opens => hub.verified = Capability)
    BY <1>3
  <2>. HIDE DEF opens
  <2>. QED
    BY <1>2, <2>1, <2>2 DEF HubState, r
<1>6. CASE r.kind \notin {"pass", "fail", "reset", "enable", "disable"}
  <2>. DEFINE ir == ~ hub.ir
              voice == ~ hub.voice
              n == hub.commands + 1
  <2>1. ir \in BOOLEAN /\ voice \in BOOLEAN /\ n \in Nat
    BY <1>2 DEF HubState
  <2>2. Carried(a, r) \in {[hub EXCEPT !.commands = n], [hub EXCEPT !.ir = ir],
                           [hub EXCEPT !.voice = voice], [hub EXCEPT !.asset = "installing"], hub}
    BY <1>6 DEF Carried
  <2>. HIDE DEF ir, voice, n
  <2>3. \A h \in {[hub EXCEPT !.commands = n], [hub EXCEPT !.ir = ir],
                  [hub EXCEPT !.voice = voice], [hub EXCEPT !.asset = "installing"], hub} :
          h \in HubState /\ h.gate = hub.gate /\ h.verified = hub.verified
    BY <1>2, <2>1 DEF HubState
  <2>. QED
    BY <1>2, <2>2, <2>3 DEF r
<1>. QED
  BY <1>4, <1>5, <1>6 DEF r

LEMMA HubHandlesKept == ASSUME Remembered, NEW a \in Area, HubHandles(a) PROVE Remembered'
<1>. DEFINE r == [op[a] EXCEPT !.stage = IF Accepts(op[a]) THEN "done" ELSE "refused"]
<1>1. op[a] \in Request
  BY DEF Remembered, Typed
<1>2. r \in Request /\ r.kind = op[a].kind /\ r.cap = op[a].cap
  BY <1>1 DEF Request
<1>3. op' = [op EXCEPT ![a] = r] /\ UNCHANGED <<pending, tried>>
  BY DEF HubHandles
<1>4. hub' \in HubState /\ (hub'.gate => hub'.verified = Capability)
  <2>1. CASE Accepts(op[a])
    BY <2>1, CarriedOut DEF HubHandles
  <2>2. CASE ~ Accepts(op[a])
    BY <2>2 DEF HubHandles, Remembered, Typed, GateVerified
  <2>. QED
    BY <2>1, <2>2
<1>. HIDE DEF r
<1>5. op' \in [Area -> Request] /\ \A x \in Area : op'[x].kind = op[x].kind /\ op'[x].cap = op[x].cap
  BY <1>2, <1>3 DEF Remembered, Typed
<1>6. Typed' /\ GateVerified'
  BY <1>3, <1>4, <1>5 DEF Remembered, Typed, GateVerified
<1>7. Named' /\ Confirming'
  BY <1>3, <1>5 DEF Remembered, Named, Confirming, TriedLast, Area
<1>. QED
  BY <1>6, <1>7 DEF Remembered

LEMMA NothingAsked == NoOp \in Request /\ NoOp.kind = "none"
BY DEF NoOp, Request, None

LEMMA OperatedKept == ASSUME Remembered, NEW a \in Area, Operated(a) PROVE Remembered'
<1>1. op' = [op EXCEPT ![a] = NoOp] /\ UNCHANGED hub
  BY DEF Operated
<1>2. CASE UNCHANGED <<pending, tried>>
  <2>1. pending' # None => TriedLast(pending)'
    BY <1>2 DEF Remembered, Confirming, TriedLast
  <2>. QED
    BY <1>1, <1>2, <2>1, NothingAsked, Replaced DEF Remembered, Typed
<1>3. CASE Success(op[a])
  <2>. DEFINE r == op[a]
  <2>1. r \in Request /\ (r.kind \in {"remote", "pass"} => a = "aircon")
          /\ (r.kind = "remote" => tried.cap = r.cap)
    BY DEF Remembered, Typed, Confirming
  <2>2. tried \in [cap : Capability \cup {None}, ok : BOOLEAN]
    BY DEF Remembered, Typed
  <2>. HIDE DEF r
  <2>3. CASE r.kind = "remote"
    <3>1. pending' = r.cap /\ tried' = [tried EXCEPT !.ok = TRUE]
      BY <1>3, <2>3 DEF Success, r
    <3>2. tried' \in [cap : Capability \cup {None}, ok : BOOLEAN] /\ tried'.cap = r.cap /\ tried'.ok
      BY <2>1, <2>2, <2>3, <3>1
    <3>3. pending' \in Capability \cup {None} /\ TriedLast(pending)'
      BY <2>1, <3>1, <3>2 DEF Request, TriedLast
    <3>. QED
      BY <1>1, <2>1, <2>3, <3>2, <3>3, NothingAsked, Replaced
  <2>4. CASE r.kind \in {"pass", "fail"}
    <3>1. pending' = None /\ UNCHANGED tried
      BY <1>3, <2>4 DEF Success, r
    <3>. QED
      BY <1>1, <2>2, <3>1, NothingAsked, Replaced
  <2>5. CASE r.kind \notin {"remote", "pass", "fail"}
    <3>1. UNCHANGED <<pending, tried>>
      BY <1>3, <2>5 DEF Success, r
    <3>. QED
      BY <1>2, <3>1
  <2>. QED
    BY <2>3, <2>4, <2>5
<1>. QED
  BY <1>2, <1>3 DEF Operated

LEMMA InstallKept == ASSUME Remembered, InstallAnswered \/ InstallEnds PROVE Remembered'
<1>. DEFINE r == [op["assets"] EXCEPT !.stage = "loading"]
<1>1. "assets" \in Area /\ op["assets"] \in Request
  BY DEF Remembered, Typed, Area
<1>2. r \in Request /\ r.kind = op["assets"].kind /\ r.cap = op["assets"].cap
  BY <1>1 DEF Request
<1>3. UNCHANGED <<hub, pending, tried>>
  BY DEF InstallAnswered, InstallEnds
<1>4. pending' # None => TriedLast(pending)'
  BY <1>3 DEF Remembered, Confirming, TriedLast
<1>5. r.kind \notin {"remote", "pass"} /\ (r.kind \in {"fail", "reset"} => r.cap \in Capability)
  BY <1>1, <1>2 DEF Remembered, Confirming, Named
<1>6. op' = [op EXCEPT !["assets"] = r] \/ op' = [op EXCEPT !["assets"] = NoOp]
  BY DEF InstallAnswered, InstallEnds
<1>7. pending' \in Capability \cup {None} /\ tried' \in [cap : Capability \cup {None}, ok : BOOLEAN]
  BY <1>3 DEF Remembered, Typed
<1>. HIDE DEF r
<1>8. CASE op' = [op EXCEPT !["assets"] = r]
  BY <1>1, <1>2, <1>3, <1>4, <1>5, <1>7, <1>8, Replaced
<1>9. CASE op' = [op EXCEPT !["assets"] = NoOp]
  BY <1>1, <1>3, <1>4, <1>7, <1>9, NothingAsked, Replaced
<1>. QED
  BY <1>6, <1>8, <1>9

-----------------------------------------------------------------------------
LEMMA ConsoleKept == ASSUME Remembered, NEW free, ConsoleNext(free) PROVE Remembered'
<1>1. CASE Poll \/ PollAssets \/ ActivateView \/ HubReads \/ LoadAnswered \/ AssetsAnswered
             \/ LoadFails \/ RequestVoiceTranscription \/ Transcribing
  BY <1>1, CoreKept
  DEF Poll, PollAssets, ActivateView, HubReads, LoadAnswered, AssetsAnswered, LoadFails,
      RequestVoiceTranscription, Transcribing, Ops, consoleCore
<1>2. CASE StartVoiceReferenceRecording \/ Asked \/ StopVoiceReferenceRecording
             \/ UploadVoiceReference \/ DeleteVoiceReference \/ ProfileAnswered
  BY <1>2, CoreKept
  DEF StartVoiceReferenceRecording, Asked, Granted, StopVoiceReferenceRecording,
      UploadVoiceReference, DeleteVoiceReference, ProfileAnswered, Recording, Ops, consoleCore
<1>3. CASE HubProfile(free)
  BY <1>3, HubProfileKept
<1>4. CASE Operate
  BY <1>4, OperateKept
<1>5. CASE InstallAnswered \/ InstallEnds
  BY <1>5, InstallKept
<1>6. CASE HubChanges
  BY <1>6, HubChangesKept
<1>7. ASSUME NEW a \in Area, HubHandles(a) \/ Operated(a) PROVE Remembered'
  BY <1>7, HubHandlesKept, OperatedKept
<1>. QED
  BY <1>1, <1>2, <1>3, <1>4, <1>5, <1>6, <1>7 DEF ConsoleNext, Profile

LEMMA RememberedStep == ASSUME Remembered, [Next]_vars PROVE Remembered'
<1>1. CASE Console
  BY <1>1, ConsoleKept DEF Console
<1>2. CASE Studio \/ UNCHANGED vars
  BY <1>2, CoreKept DEF Studio, vars, consoleVars, Ops, consoleCore
<1>. QED
  BY <1>1, <1>2 DEF Next

LEMMA RememberedInit == ASSUME Init PROVE Remembered
<1>1. op \in [Area -> Request] /\ \A a \in Area : op[a].kind = "none"
  BY NothingAsked DEF Init, ConsoleInit
<1>2. hub \in HubState /\ ~ hub.gate
  <2>1. hub \in [commands : {0}, verified : {{}, Capability}, gate : {FALSE}, ir : {TRUE},
                voice : {TRUE}, asset : {"missing"}, profile : {0}]
    BY DEF Init, ConsoleInit
  <2>2. {{}, Capability} \subseteq SUBSET Capability /\ {0} \subseteq Nat
          /\ {TRUE} \subseteq BOOLEAN /\ {FALSE} \subseteq BOOLEAN
    OBVIOUS
  <2>. QED
    BY <2>1, <2>2 DEF HubState
<1>3. pending = None /\ tried \in [cap : Capability \cup {None}, ok : BOOLEAN]
  BY DEF Init, ConsoleInit
<1>. QED
  BY <1>1, <1>2, <1>3 DEF Remembered, Typed, Named, Confirming, GateVerified, Area

(* The external interface is only open while every capability is verified, for    *)
(* any set of capabilities and whatever pages reset, verify and enable in        *)
(* between.                                                                 *)
THEOREM InterfaceIsVerified == Spec => []GateVerified
<1>1. Remembered /\ [Next]_vars => Remembered'
  BY RememberedStep
<1>2. Remembered => GateVerified
  BY DEF Remembered
<1>. QED
  BY RememberedInit, <1>1, <1>2, PTL DEF Spec

(* A capability is confirmed by nothing but the last command of the remote, which *)
(* was for it and succeeded.                                                *)
THEOREM ConfirmedIsTried == Spec => ConfirmsWhatWasSent
<1>. DEFINE WasTried ==
              \A a \in Area : HubHandles(a) /\ op[a].kind = "pass"
                                => tried = [cap |-> op[a].cap, ok |-> TRUE]
<1>1. Remembered /\ [Next]_vars => Remembered'
  BY RememberedStep
<1>2. Remembered => WasTried
  <2>. SUFFICES ASSUME Remembered, NEW a \in Area, op[a].kind = "pass"
                PROVE  tried = [cap |-> op[a].cap, ok |-> TRUE]
    OBVIOUS
  <2>1. tried \in [cap : Capability \cup {None}, ok : BOOLEAN]
    BY DEF Remembered, Typed
  <2>2. tried.cap = op[a].cap /\ tried.ok
    BY DEF Remembered, Confirming, TriedLast
  <2>3. tried.ok = TRUE
    BY <2>1, <2>2
  <2>4. tried = [cap |-> tried.cap, ok |-> tried.ok]
    BY <2>1
  <2>. QED
    BY <2>2, <2>3, <2>4
<1>. HIDE DEF WasTried
<1>3. Remembered /\ [Next]_vars => [WasTried]_consoleVars
  BY <1>2
<1>4. ConfirmsWhatWasSent <=> [][WasTried]_consoleVars
  BY DEF ConfirmsWhatWasSent, WasTried
<1>. QED
  BY RememberedInit, <1>1, <1>3, <1>4, PTL DEF Spec

-----------------------------------------------------------------------------
(* The voice studio.  What its state is made of.                              *)
Take == [visitor : Visitor, n : Nat] \cup {Nobody}
Callers   == {"none", "page", "enroll", "synth"}

PageState ==
    [session : Nat, enrolled : BOOLEAN, saved : [session : Nat, enrolled : BOOLEAN],
     creating : Callers,
     recorder : {"idle", "asking", "recording", "stopped", "encoding", "enrolling", "stuck"},
     mic : BOOLEAN, off : BOOLEAN, timer : BOOLEAN, stale : BOOLEAN,
     synth : {"idle", "waiting"}, result : Take, least : Nat, made : Nat,
     known : [session : Nat, n : Nat], cut : BOOLEAN]

CallState ==
    [stage : {"none", "sent", "forwarded", "working", "ok", "unauthorized", "failed"},
     session : Nat, voice : Take, known : Nat]

JobState ==
    [visitor : Visitor \cup {"nobody"}, kind : {"none"} \cup Kind, session : Nat,
     voice : Take, stage : {"none", "save", "staged", "moved", "saved", "speak"}]

ProfileState ==
    [root : Take, old : Take, new : Take, confirmed : Nat, gone : BOOLEAN]

StudioTyped ==
    /\ page \in [Visitor -> PageState]
    /\ call \in [Visitor -> [Kind -> CallState]]
    /\ profiles \in Seq(ProfileState)
    /\ valid \subseteq DOMAIN profiles
    /\ worker \in JobState

(* A session is touched by the visitor who has it, or has it stored; by the one who  *)
(* has a request about it under way, in his page or in the worker; by the one whose   *)
(* recordings are in its profile.  It is always the same one.                      *)
Recordings(p) == {p.root, p.old, p.new}

Touches(v, s) ==
    \/ s \in {page[v].session, page[v].saved.session, page[v].known.session}
    \/ \E k \in Kind : call[v][k].session = s
    \/ worker.visitor = v /\ worker.session = s
    \/ s \in DOMAIN profiles /\ \E r \in Recordings(profiles[s]) : r.visitor = v

Private ==
    \A v \in Visitor, s \in Nat \ {0} :
        Touches(v, s) => /\ s \in DOMAIN profiles
                         /\ \A w \in Visitor : Touches(w, s) => v = w

(* He has made every recording that is in it.                                    *)
MadeBy(p, n) == p.confirmed <= n /\ \A r \in Recordings(p) : r.n <= n

Newest ==
    \A v \in Visitor, s \in DOMAIN profiles :
        Touches(v, s) => MadeBy(profiles[s], page[v].made)

(* What a page knows to be confirmed is so, or something newer is.                  *)
Confirmed(s, n) == n = 0 \/ (s \in DOMAIN profiles /\ n <= profiles[s].confirmed)

(* The recording of an enrollment that is under way is the last one of its page.     *)
Enrolling(v, p, c) ==
    /\ p.creating = "enroll" => p.recorder = "enrolling" /\ c.stage = "none"
    /\ c.stage # "none" => p.recorder = "enrolling"
    /\ c.stage \in {"sent", "forwarded", "working", "ok"}
         => c.voice.visitor = v /\ c.voice.n = p.made

(* A request that the worker works on is its job, and its answer is true.            *)
Calling(v, k, c) ==
    /\ c.stage \in {"forwarded", "working", "ok"} => c.session \in DOMAIN profiles
    /\ c.stage = "working" => /\ worker.visitor = v /\ worker.kind = k
                              /\ worker.session = c.session
                              /\ k = "enroll" => worker.voice = c.voice
    /\ k = "enroll" /\ c.stage = "ok" => Confirmed(c.session, c.voice.n)
    /\ k = "synth" => Confirmed(c.session, c.known)
    /\ k = "synth" /\ c.stage = "ok" => c.voice.visitor = v /\ c.voice.n >= c.known

Told(v, p) ==
    /\ Confirmed(p.known.session, p.known.n)
    /\ p.result # Nobody => p.result.visitor = v /\ p.result.n >= p.least

Visits ==
    \A v \in Visitor :
        /\ Enrolling(v, page[v], call[v]["enroll"])
        /\ \A k \in Kind : Calling(v, k, call[v][k])
        /\ Told(v, page[v])

(* How far the job of the worker is.                                             *)
Job ==
    worker # NoJob =>
        LET p == profiles[worker.session] IN
        /\ worker.visitor \in Visitor /\ worker.session \in DOMAIN profiles
        /\ worker.kind \in Kind
        /\ worker.kind = "synth" <=> worker.stage = "speak"
        /\ worker.stage # "none"
        /\ worker.kind = "enroll" =>
              /\ worker.voice.visitor = worker.visitor
              /\ p.confirmed <= worker.voice.n /\ worker.voice.n <= page[worker.visitor].made
        /\ worker.stage \in {"staged", "moved"} => p.new = worker.voice
        /\ worker.stage = "saved" => p.root = worker.voice

(* A profile, while job j is under way, has nothing that is older than the newest   *)
(* recording that was confirmed.                                                 *)
Intact(j, s, p) ==
    LET moved == j.session = s /\ j.stage = "moved"
        kept  == IF moved THEN p.old ELSE p.root
    IN  /\ kept # Nobody => kept.n >= p.confirmed
        /\ moved => p.root = Nobody
        /\ p.confirmed = 0 \/ p.gone \/ kept.n >= p.confirmed

Storage == \A s \in DOMAIN profiles : Intact(worker, s, profiles[s])

StudioInv == StudioTyped /\ Private /\ Newest /\ Visits /\ Job /\ Storage

-----------------------------------------------------------------------------
LEMMA Constants ==
    /\ Nobody \in Take /\ Nobody.visitor = "nobody" /\ Nobody.n = 0
    /\ NoCall \in CallState /\ NoJob \in JobState /\ NoProfile \in ProfileState
    /\ NoSaved \in [session : Nat, enrolled : BOOLEAN] /\ NoSaved.session = 0
    /\ NoCall.session = 0 /\ NoCall.known = 0 /\ NoCall.stage = "none"
    /\ NoJob.session = 0 /\ NoJob.stage = "none" /\ NoJob.visitor = "nobody"
    /\ NoProfile.confirmed = 0 /\ Recordings(NoProfile) = {Nobody}
<1>1. Nobody \in Take /\ Nobody.visitor = "nobody" /\ Nobody.n = 0
  BY DEF Nobody, Take
<1>2. NoCall \in CallState /\ NoCall.session = 0 /\ NoCall.known = 0 /\ NoCall.stage = "none"
  BY <1>1 DEF NoCall, CallState
<1>3. NoJob \in JobState /\ NoJob.session = 0 /\ NoJob.stage = "none" /\ NoJob.visitor = "nobody"
  BY <1>1 DEF NoJob, JobState
<1>4. NoProfile \in ProfileState /\ NoProfile.confirmed = 0 /\ Recordings(NoProfile) = {Nobody}
  BY <1>1 DEF NoProfile, ProfileState, Recordings
<1>5. NoSaved \in [session : Nat, enrolled : BOOLEAN] /\ NoSaved.session = 0
  BY DEF NoSaved
<1>. QED
  BY <1>1, <1>2, <1>3, <1>4, <1>5

LEMMA PageIs ==
    ASSUME NEW p \in PageState
    PROVE  /\ p.session \in Nat /\ p.saved.session \in Nat /\ p.known.session \in Nat
           /\ p.saved \in [session : Nat, enrolled : BOOLEAN]
           /\ p.known.n \in Nat /\ p.made \in Nat /\ p.least \in Nat
           /\ p.known \in [session : Nat, n : Nat]
           /\ p.result \in Take /\ p.creating \in Callers
BY DEF PageState

(* What a page does by itself leaves it with sessions it had, and with a recording    *)
(* it had or with none.                                                           *)
Follows(p, q) ==
    /\ q \in PageState
    /\ q.session \in {p.session, p.saved.session, 0}
    /\ q.saved.session \in {p.session, p.saved.session, 0}
    /\ q.made = p.made /\ q.known = p.known
    /\ q.result = Nobody \/ (q.result = p.result /\ q.least = p.least)

LEMMA FollowsOn ==
    ASSUME NEW p, NEW q, NEW r, Follows(p, q), Follows(q, r)
    PROVE  Follows(p, r)
BY DEF Follows

LEMMA Overs ==
    ASSUME NEW p \in PageState
    PROVE  /\ Follows(p, EnrollOver(p)) /\ Follows(p, SynthOver(p))
           /\ EnrollOver(p).recorder = "idle" /\ EnrollOver(p).creating = p.creating
           /\ SynthOver(p).recorder = p.recorder /\ SynthOver(p).creating = p.creating
BY DEF EnrollOver, SynthOver, PageState, Follows

LEMMA Continues ==
    ASSUME NEW p \in PageState, NEW caller \in Callers
    PROVE  LET q == Continue(p, caller)
           IN  /\ Follows(p, q) /\ q.creating = p.creating
               /\ q.recorder = IF caller = "enroll" THEN "idle" ELSE p.recorder
<1>1. Follows(p, p)
  BY DEF Follows, PageState
<1>2. CASE caller = "enroll"
  BY <1>2, Overs DEF Continue
<1>3. CASE caller = "synth"
  BY <1>3, Overs DEF Continue
<1>4. CASE caller \in {"none", "page"}
  BY <1>1, <1>4 DEF Continue
<1>. QED
  BY <1>2, <1>3, <1>4 DEF Callers

LEMMA Creates ==
    ASSUME NEW p \in PageState, NEW caller \in Callers
    PROVE  LET q == CreateAnonymousSession(p, caller)
           IN  /\ Follows(p, q)
               /\ p.creating = "none" => q.creating = caller /\ q.recorder = p.recorder
               /\ p.creating # "none" =>
                     /\ q.creating = p.creating
                     /\ q.recorder = IF caller = "enroll" THEN "idle" ELSE p.recorder
<1>1. CASE p.creating = "none"
  <2>. DEFINE q == [p EXCEPT !.creating = caller]
  <2>1. q \in PageState /\ q.creating = caller /\ q.recorder = p.recorder /\ Follows(p, q)
    BY DEF PageState, Follows
  <2>. QED
    BY <1>1, <2>1 DEF CreateAnonymousSession
<1>2. CASE p.creating # "none"
  BY <1>2, Continues DEF CreateAnonymousSession
<1>. QED
  BY <1>1, <1>2

LEMMA Recovers ==
    ASSUME NEW p \in PageState, NEW caller \in Callers
    PROVE  LET q == RecoverSession(p, caller)
           IN  /\ Follows(p, q)
               /\ p.creating = "none" => q.creating = caller /\ q.recorder = p.recorder
               /\ p.creating # "none" =>
                     /\ q.creating = p.creating
                     /\ q.recorder = IF caller = "enroll" THEN "idle" ELSE p.recorder
<1>. DEFINE r == [p EXCEPT !.session = 0, !.enrolled = FALSE, !.saved = NoSaved, !.result = Nobody]
<1>1. /\ r \in PageState /\ r.session = 0 /\ r.saved = NoSaved /\ r.result = Nobody
      /\ r.made = p.made /\ r.known = p.known /\ r.creating = p.creating
      /\ r.recorder = p.recorder
  BY Constants DEF PageState
<1>2. Follows(p, r)
  BY <1>1, Constants DEF Follows
<1>3. RecoverSession(p, caller) = CreateAnonymousSession(r, caller)
  BY DEF RecoverSession
<1>. HIDE DEF r
<1>. QED
  BY <1>1, <1>2, <1>3, Creates, FollowsOn

LEMMA Activates ==
    ASSUME NEW p \in PageState, NEW s \in Nat, NEW enrolled \in BOOLEAN
    PROVE  LET q == ActivateSession(p, s, enrolled)
           IN  /\ q \in PageState /\ q.session = s /\ q.saved.session = s
               /\ q.made = p.made /\ q.known = p.known /\ q.result = p.result
               /\ q.least = p.least /\ q.creating = p.creating /\ q.recorder = p.recorder
BY DEF ActivateSession, PageState

LEMMA StudioTypes ==
    ASSUME StudioTyped
    PROVE  /\ \A v \in Visitor : page[v] \in PageState
           /\ \A v \in Visitor, k \in Kind : call[v][k] \in CallState
           /\ DOMAIN profiles = 1..Len(profiles) /\ Len(profiles) \in Nat
           /\ \A s \in DOMAIN profiles : s \in Nat \ {0} /\ profiles[s] \in ProfileState
           /\ worker \in JobState
<1>1. profiles \in Seq(ProfileState)
  BY DEF StudioTyped
<1>2. /\ DOMAIN profiles = 1..Len(profiles) /\ Len(profiles) \in Nat
      /\ \A s \in DOMAIN profiles : s \in Nat \ {0} /\ profiles[s] \in ProfileState
  BY <1>1
<1>. QED
  BY <1>2 DEF StudioTyped

LEMMA ProfileIs ==
    ASSUME NEW p \in ProfileState
    PROVE  /\ p.root \in Take /\ p.old \in Take /\ p.new \in Take /\ p.confirmed \in Nat
           /\ \A r \in Recordings(p) : r \in Take
BY DEF ProfileState, Recordings

LEMMA TakeIs ==
    ASSUME NEW r \in Take
    PROVE  /\ r.n \in Nat /\ r.visitor \in Visitor \cup {"nobody"}
           /\ r = Nobody \/ r.visitor \in Visitor
BY Constants DEF Take

LEMMA JobIs ==
    ASSUME StudioTyped
    PROVE  /\ worker.session \in Nat /\ worker.voice \in Take
           /\ worker.visitor \in Visitor \cup {"nobody"}
BY DEF StudioTyped, JobState

LEMMA Untouched ==
    ASSUME StudioInv, NEW v \in Visitor, NEW s \in Nat \ {0}, s \notin DOMAIN profiles
    PROVE  ~Touches(v, s)
BY DEF StudioInv, Private

(* Sessions that a visitor may use, when there may be a new one.                   *)
Mine(v, s) == s = 0 \/ Touches(v, s) \/ s \in DOMAIN profiles' \ DOMAIN profiles

Grows ==
    /\ profiles' = profiles \/ profiles' = Append(profiles, NoProfile)
    /\ valid' \subseteq DOMAIN profiles'

LEMMA GrownIs ==
    ASSUME StudioInv, Grows
    PROVE  /\ profiles' \in Seq(ProfileState)
           /\ \A s \in DOMAIN profiles : s \in DOMAIN profiles' /\ profiles'[s] = profiles[s]
           /\ \A s \in DOMAIN profiles' : s \notin DOMAIN profiles => profiles'[s] = NoProfile
           /\ \A s \in DOMAIN profiles' : s \in Nat \ {0}
<1>1. profiles \in Seq(ProfileState) /\ NoProfile \in ProfileState
  BY Constants DEF StudioInv, StudioTyped
<1>2. CASE profiles' = profiles
  BY <1>1, <1>2
<1>3. CASE profiles' = Append(profiles, NoProfile)
  BY <1>1, <1>3
<1>. QED
  BY <1>2, <1>3 DEF Grows

LEMMA StillConfirmed ==
    ASSUME StudioInv, Grows, NEW s, NEW n, Confirmed(s, n)
    PROVE  Confirmed(s, n)'
BY GrownIs DEF Confirmed

LEMMA StillCalling ==
    ASSUME StudioInv, Grows, UNCHANGED worker, NEW v, NEW k, NEW c, Calling(v, k, c)
    PROVE  Calling(v, k, c)'
<1>1. \A s \in DOMAIN profiles : s \in DOMAIN profiles'
  BY GrownIs
<1>2. Confirmed(c.session, c.voice.n) => Confirmed(c.session, c.voice.n)'
  BY StillConfirmed
<1>3. Confirmed(c.session, c.known) => Confirmed(c.session, c.known)'
  BY StillConfirmed
<1>. QED
  BY <1>1, <1>2, <1>3 DEF Calling

LEMMA StillTold ==
    ASSUME StudioInv, Grows, NEW v, NEW p, Told(v, p) PROVE Told(v, p)'
BY StillConfirmed DEF Told

(* A step of a page, or of the hub about one of its requests.                       *)
LEMMA PageStep ==
    ASSUME StudioInv, NEW v \in Visitor, NEW q \in PageState, NEW c \in [Kind -> CallState],
           page' = [page EXCEPT ![v] = q], call' = [call EXCEPT ![v] = c], UNCHANGED worker,
           Grows,
           Mine(v, q.session), Mine(v, q.saved.session), Mine(v, q.known.session),
           \A k \in Kind : Mine(v, c[k].session),
           q.made >= page[v].made,
           Enrolling(v, q, c["enroll"]), \A k \in Kind : Calling(v, k, c[k]), Told(v, q)
    PROVE  StudioInv'
<1>1. StudioTyped
  BY DEF StudioInv
<1>2. /\ \A w \in Visitor : page'[w] = IF w = v THEN q ELSE page[w]
      /\ \A w \in Visitor : call'[w] = IF w = v THEN c ELSE call[w]
      /\ page' \in [Visitor -> PageState] /\ call' \in [Visitor -> [Kind -> CallState]]
  BY <1>1 DEF StudioTyped
<1>3. StudioTyped'
  BY <1>1, <1>2, GrownIs DEF StudioTyped, Grows
<1>4. /\ \A s \in DOMAIN profiles : s \in DOMAIN profiles' /\ profiles'[s] = profiles[s]
      /\ \A s \in DOMAIN profiles' : s \notin DOMAIN profiles => profiles'[s] = NoProfile
      /\ \A s \in DOMAIN profiles' : s \in Nat \ {0}
  BY GrownIs
<1>5. \A w \in Visitor, s \in Nat \ {0} :
         Touches(w, s)' => Touches(w, s) \/ (w = v /\ s \in DOMAIN profiles' \ DOMAIN profiles)
  <2>. SUFFICES ASSUME NEW w \in Visitor, NEW s \in Nat \ {0}, Touches(w, s)',
                       ~(w = v /\ s \in DOMAIN profiles' \ DOMAIN profiles)
                PROVE  Touches(w, s)
    OBVIOUS
  <2>1. CASE worker'.visitor = w /\ worker'.session = s
    BY <2>1 DEF Touches
  <2>2. CASE s \in DOMAIN profiles' /\ \E r \in Recordings(profiles'[s]) : r.visitor = w
    <3>1. s \in DOMAIN profiles
      BY <2>2, <1>4, Constants, VisitorAssumption
    <3>. QED
      BY <2>2, <3>1, <1>4 DEF Touches
  <2>3. CASE \/ s \in {page'[w].session, page'[w].saved.session, page'[w].known.session}
             \/ \E k \in Kind : call'[w][k].session = s
    <3>1. CASE w = v
      <4>1. Mine(v, s)
        BY <1>2, <2>3, <3>1
      <4>. QED
        BY <3>1, <4>1 DEF Mine
    <3>2. CASE w # v
      BY <1>2, <2>3, <3>2 DEF Touches
    <3>. QED
      BY <3>1, <3>2
  <2>. QED
    BY <2>1, <2>2, <2>3 DEF Touches
<1>6. Private'
  <2>. SUFFICES ASSUME NEW w \in Visitor, NEW s \in Nat \ {0}, Touches(w, s)'
                PROVE  s \in DOMAIN profiles' /\ \A x \in Visitor : Touches(x, s)' => w = x
    BY DEF Private
  <2>1. CASE s \in DOMAIN profiles
    BY <1>4, <1>5, <2>1 DEF StudioInv, Private
  <2>2. CASE s \notin DOMAIN profiles
    BY <1>5, <2>2, Untouched
  <2>. QED
    BY <2>1, <2>2
<1>7. Newest'
  <2>. SUFFICES ASSUME NEW w \in Visitor, NEW s \in DOMAIN profiles', Touches(w, s)'
                PROVE  MadeBy(profiles'[s], page'[w].made)
    BY DEF Newest, MadeBy, Recordings
  <2>1. page'[w].made \in Nat
    BY <1>2, PageIs
  <2>2. CASE s \in DOMAIN profiles
    <3>1. Touches(w, s) /\ MadeBy(profiles[s], page[w].made)
      BY <1>4, <1>5, <2>2 DEF StudioInv, Newest
    <3>2. page[w].made \in Nat /\ page[w].made <= page'[w].made
      BY <1>1, <1>2, StudioTypes, PageIs
    <3>3. profiles[s].confirmed \in Nat /\ \A r \in Recordings(profiles[s]) : r.n \in Nat
      BY <1>1, <2>2, StudioTypes, ProfileIs, TakeIs
    <3>. QED
      BY <1>4, <2>1, <2>2, <3>1, <3>2, <3>3 DEF MadeBy
  <2>3. CASE s \notin DOMAIN profiles
    BY <1>4, <2>1, <2>3, Constants DEF MadeBy
  <2>. QED
    BY <2>2, <2>3
<1>8. Visits'
  <2>1. ASSUME NEW w \in Visitor, NEW k \in Kind
        PROVE  /\ Enrolling(w, page'[w], call'[w]["enroll"])
               /\ Calling(w, k, call'[w][k]) /\ Told(w, page'[w])
    BY <1>2 DEF StudioInv, Visits
  <2>2. ASSUME NEW w \in Visitor, NEW k \in Kind
        PROVE  Calling(w, k, call[w][k])' /\ Told(w, page[w])'
    <3>. DEFINE cc == call'[w][k]
                pp == page'[w]
    <3>1. Calling(w, k, cc) /\ Told(w, pp)
      BY <2>1
    <3>2. PICK x : x = cc
      OBVIOUS
    <3>3. PICK y : y = pp
      OBVIOUS
    <3>4. Calling(w, k, x)' /\ Told(w, y)'
      BY <3>1, <3>2, <3>3, StillCalling, StillTold
    <3>. QED
      BY <3>2, <3>3, <3>4 DEF Calling, Told, Confirmed
  <2>3. "enroll" \in Kind
    BY DEF Kind
  <2>4. ASSUME NEW w \in Visitor
        PROVE  /\ Enrolling(w, page[w], call[w]["enroll"])'
               /\ Told(w, page[w])'
    BY <2>1, <2>2, <2>3 DEF Enrolling
  <2>. QED
    BY <2>2, <2>4 DEF Visits
<1>9. Job'
  <2>. SUFFICES ASSUME worker # NoJob PROVE Job'
    BY DEF Job
  <2>1. /\ worker.session \in DOMAIN profiles /\ worker.visitor \in Visitor
        /\ profiles'[worker.session] = profiles[worker.session]
    BY <1>4 DEF StudioInv, Job
  <2>2. page[worker.visitor].made <= page'[worker.visitor].made
        /\ page[worker.visitor].made \in Nat /\ page'[worker.visitor].made \in Nat
    BY <1>1, <1>2, <2>1, StudioTypes, PageIs
  <2>3. worker.voice.n \in Nat
    BY <1>1, JobIs, TakeIs
  <2>. QED
    BY <1>4, <2>1, <2>2, <2>3 DEF StudioInv, Job
<1>10. Storage'
  <2>. SUFFICES ASSUME NEW s \in DOMAIN profiles' PROVE Intact(worker, s, profiles'[s])
    BY DEF Storage, Intact
  <2>1. CASE s \in DOMAIN profiles
    BY <1>4, <2>1 DEF StudioInv, Storage
  <2>2. CASE s \notin DOMAIN profiles
    <3>1. worker.session # s
      BY <1>4, <2>2, Constants DEF StudioInv, Job
    <3>2. profiles'[s].root = Nobody /\ profiles'[s].confirmed = 0
      BY <1>4, <2>2 DEF NoProfile
    <3>. QED
      BY <3>1, <3>2 DEF Intact
  <2>. QED
    BY <2>1, <2>2
<1>. QED
  BY <1>3, <1>6, <1>7, <1>8, <1>9, <1>10 DEF StudioInv

(* What is known of the page and the requests of a visitor.                        *)
LEMMA VisitIs ==
    ASSUME StudioInv, NEW v \in Visitor
    PROVE  /\ page[v] \in PageState /\ call[v] \in [Kind -> CallState]
           /\ Mine(v, page[v].session) /\ Mine(v, page[v].saved.session)
           /\ Mine(v, page[v].known.session) /\ Mine(v, 0)
           /\ \A k \in Kind : Mine(v, call[v][k].session)
           /\ Enrolling(v, page[v], call[v]["enroll"])
           /\ \A k \in Kind : Calling(v, k, call[v][k])
           /\ Told(v, page[v])
           /\ "enroll" \in Kind /\ "synth" \in Kind
<1>1. page[v] \in PageState /\ call[v] \in [Kind -> CallState]
  BY DEF StudioInv, StudioTyped
<1>2. /\ Enrolling(v, page[v], call[v]["enroll"])
      /\ \A k \in Kind : Calling(v, k, call[v][k])
      /\ Told(v, page[v])
  BY DEF StudioInv, Visits
<1>3. /\ Mine(v, page[v].session) /\ Mine(v, page[v].saved.session)
      /\ Mine(v, page[v].known.session) /\ Mine(v, 0)
      /\ \A k \in Kind : Mine(v, call[v][k].session)
  BY DEF Mine, Touches
<1>. QED
  BY <1>1, <1>2, <1>3 DEF Kind

(* A page that changes within what it had, and drops a request or begins one.         *)
LEMMA PageMoves ==
    ASSUME StudioInv, NEW v \in Visitor, NEW q \in PageState, NEW c \in [Kind -> CallState],
           page' = [page EXCEPT ![v] = q], call' = [call EXCEPT ![v] = c],
           UNCHANGED <<valid, profiles, worker>>,
           q.session \in {page[v].session, page[v].saved.session, 0},
           q.saved.session \in {page[v].session, page[v].saved.session, 0},
           q.known = page[v].known, q.made >= page[v].made,
           q.result = Nobody \/ (q.result = page[v].result /\ q.least = page[v].least),
           \A k \in Kind : c[k].session \in {0, page[v].session, call[v][k].session},
           Enrolling(v, q, c["enroll"]), \A k \in Kind : Calling(v, k, c[k])
    PROVE  StudioInv'
<1>1. Grows
  BY DEF Grows, StudioInv, StudioTyped
<1>2. /\ Mine(v, q.session) /\ Mine(v, q.saved.session) /\ Mine(v, q.known.session)
      /\ \A k \in Kind : Mine(v, c[k].session)
  BY VisitIs
<1>3. Told(v, q)
  BY VisitIs DEF Told
<1>. QED
  BY <1>1, <1>2, <1>3, PageStep

LEMMA PageFollows ==
    ASSUME StudioInv, NEW v \in Visitor, NEW q, NEW c \in [Kind -> CallState],
           Follows(page[v], q),
           page' = [page EXCEPT ![v] = q], call' = [call EXCEPT ![v] = c],
           UNCHANGED <<valid, profiles, worker>>,
           \A k \in Kind : c[k].session \in {0, page[v].session, call[v][k].session},
           Enrolling(v, q, c["enroll"]), \A k \in Kind : Calling(v, k, c[k])
    PROVE  StudioInv'
<1>1. page[v].made \in Nat
  BY VisitIs, PageIs
<1>2. /\ q \in PageState /\ q.made >= page[v].made /\ q.known = page[v].known
      /\ q.session \in {page[v].session, page[v].saved.session, 0}
      /\ q.saved.session \in {page[v].session, page[v].saved.session, 0}
      /\ q.result = Nobody \/ (q.result = page[v].result /\ q.least = page[v].least)
  BY <1>1 DEF Follows
<1>. QED
  BY <1>2, PageMoves

(* The requests go on as they are.                                               *)
LEMMA CallsKept ==
    ASSUME StudioInv, NEW v \in Visitor
    PROVE  /\ call[v] \in [Kind -> CallState]
           /\ UNCHANGED call => call' = [call EXCEPT ![v] = call[v]]
           /\ \A k \in Kind : call[v][k].session \in {0, page[v].session, call[v][k].session}
           /\ \A k \in Kind : Calling(v, k, call[v][k])
BY VisitIs DEF StudioInv, StudioTyped

(* A request of the page is over.                                               *)
LEMMA CallsDropped ==
    ASSUME StudioInv, NEW v \in Visitor, NEW k \in Kind, Drops(v, k)
    PROVE  LET c == [call[v] EXCEPT ![k] = NoCall]
           IN  /\ c \in [Kind -> CallState] /\ call' = [call EXCEPT ![v] = c]
               /\ c[k] = NoCall /\ \A j \in Kind \ {k} : c[j] = call[v][j]
               /\ \A j \in Kind : c[j].session \in {0, page[v].session, call[v][j].session}
               /\ \A j \in Kind : Calling(v, j, c[j])
<1>. DEFINE c == [call[v] EXCEPT ![k] = NoCall]
<1>1. call[v] \in [Kind -> CallState] /\ call \in [Visitor -> [Kind -> CallState]]
  BY DEF StudioInv, StudioTyped
<1>2. /\ c \in [Kind -> CallState] /\ c[k] = NoCall /\ \A j \in Kind \ {k} : c[j] = call[v][j]
      /\ call' = [call EXCEPT ![v] = c]
  BY <1>1, Constants DEF Drops
<1>. HIDE DEF c
<1>3. \A j \in Kind : Calling(v, j, NoCall)
  BY Constants DEF Calling, Confirmed
<1>4. \A j \in Kind : Calling(v, j, call[v][j])
  BY VisitIs
<1>5. \A j \in Kind : c[j] = NoCall \/ c[j] = call[v][j]
  BY <1>2
<1>6. \A j \in Kind : Calling(v, j, c[j])
  BY <1>3, <1>4, <1>5
<1>7. \A j \in Kind : c[j].session \in {0, page[v].session, call[v][j].session}
  BY <1>5, Constants
<1>. QED
  BY <1>2, <1>6, <1>7 DEF c

-----------------------------------------------------------------------------
LEMMA SessionFailsKept ==
    ASSUME StudioInv, NEW v \in Visitor, SessionFails(v) PROVE StudioInv'
<1>. DEFINE p == page[v]
            r == [p EXCEPT !.creating = "none"]
            q == Continue(r, p.creating)
<1>1. p \in PageState /\ p.creating \in Callers
  BY VisitIs, PageIs
<1>2. /\ r \in PageState /\ r.creating = "none" /\ r.recorder = p.recorder
      /\ Follows(p, r)
  BY <1>1 DEF PageState, Follows, Callers
<1>3. page' = [page EXCEPT ![v] = q] /\ UNCHANGED <<call, valid, profiles, worker>>
  BY DEF SessionFails, Page, Behind
<1>. HIDE DEF r
<1>4. /\ Follows(p, q) /\ q.creating = "none"
      /\ q.recorder = IF p.creating = "enroll" THEN "idle" ELSE p.recorder
  BY <1>1, <1>2, Continues, FollowsOn
<1>. HIDE DEF q
<1>5. Enrolling(v, q, call[v]["enroll"])
  BY <1>4, VisitIs DEF Enrolling, Follows
<1>. QED
  BY <1>3, <1>4, <1>5, CallsKept, PageFollows

LEMMA FreshIs ==
    ASSUME NEW p \in PageState
    PROVE  LET q == Fresh(p)
           IN  /\ q \in PageState /\ Follows(p, q) /\ q.session = 0 /\ q.saved = p.saved
               /\ q.creating = "none" /\ q.recorder = "idle" /\ q.result = Nobody
BY Constants DEF Fresh, PageState, Follows, Callers

LEMMA VisitKept == ASSUME StudioInv, NEW v \in Visitor, Visit(v) PROVE StudioInv'
<1>. DEFINE p == page[v]
            f == Fresh(p)
            c == [k \in Kind |-> NoCall]
<1>1. /\ p \in PageState /\ f \in PageState /\ Follows(p, f) /\ f.creating = "none"
      /\ f.saved = p.saved /\ f.recorder = "idle" /\ f.result = Nobody /\ f.session = 0
  BY VisitIs, FreshIs
<1>2. /\ c \in [Kind -> CallState] /\ \A k \in Kind : c[k] = NoCall
      /\ \A k \in Kind : c[k].session \in {0, page[v].session, call[v][k].session}
  BY Constants
<1>3. \A k \in Kind : Calling(v, k, c[k])
  BY <1>2, Constants DEF Calling, Confirmed
<1>4. call' = [call EXCEPT ![v] = c] /\ UNCHANGED <<valid, profiles, worker>>
  BY DEF Visit, Behind
<1>5. \/ Page(v, ActivateSession(f, f.saved.session, f.saved.enrolled))
      \/ Page(v, CreateAnonymousSession(f, "page"))
  BY DEF Visit
<1>. HIDE DEF f, c
<1>6. c["enroll"].stage = "none"
  BY <1>2, Constants, VisitIs
<1>7. CASE Page(v, ActivateSession(f, f.saved.session, f.saved.enrolled))
  <2>. DEFINE q == ActivateSession(f, f.saved.session, f.saved.enrolled)
  <2>1. f.saved.session \in Nat /\ f.saved.enrolled \in BOOLEAN
    BY <1>1, PageIs
  <2>2. /\ q \in PageState /\ q.session = f.saved.session /\ q.saved.session = f.saved.session
        /\ q.made = f.made /\ q.known = f.known /\ q.result = f.result
        /\ q.creating = f.creating /\ q.recorder = f.recorder
    BY <1>1, <2>1, Activates
  <2>3. page' = [page EXCEPT ![v] = q]
    BY <1>7 DEF Page
  <2>. HIDE DEF q
  <2>4. Follows(p, q)
    BY <1>1, <2>2 DEF Follows
  <2>5. Enrolling(v, q, c["enroll"])
    BY <1>1, <1>6, <2>2 DEF Enrolling
  <2>. QED
    BY <1>2, <1>3, <1>4, <2>3, <2>4, <2>5, PageFollows
<1>8. CASE Page(v, CreateAnonymousSession(f, "page"))
  <2>. DEFINE q == CreateAnonymousSession(f, "page")
  <2>1. Follows(p, q) /\ q.creating = "page"
    BY <1>1, Creates, FollowsOn DEF Callers
  <2>2. page' = [page EXCEPT ![v] = q]
    BY <1>8 DEF Page
  <2>. HIDE DEF q
  <2>3. Enrolling(v, q, c["enroll"])
    BY <1>6, <2>1 DEF Enrolling
  <2>. QED
    BY <1>2, <1>3, <1>4, <2>1, <2>2, <2>3, PageFollows
<1>. QED
  BY <1>5, <1>7, <1>8

(* The steps of a recording, before it is sent.                                   *)
LEMMA RecordingKept ==
    ASSUME StudioInv, NEW v \in Visitor, NEW q \in PageState,
           page' = [page EXCEPT ![v] = q], UNCHANGED <<call, valid, profiles, worker>>,
           q.session = page[v].session, q.saved = page[v].saved, q.known = page[v].known,
           q.made \in {page[v].made, page[v].made + 1}, q.result = page[v].result, q.least = page[v].least,
           q.creating = page[v].creating,
           \/ page[v].recorder # "enrolling"
           \/ q.recorder = page[v].recorder /\ q.made = page[v].made
    PROVE  StudioInv'
<1>1. Enrolling(v, page[v], call[v]["enroll"])
  BY VisitIs
<1>2. Enrolling(v, q, call[v]["enroll"])
  BY <1>1 DEF Enrolling
<1>3. page[v].made \in Nat
  BY VisitIs, PageIs
<1>4. q.made >= page[v].made
  BY <1>3
<1>. QED
  BY <1>2, <1>4, CallsKept, PageMoves

LEMMA RecorderKept ==
    ASSUME StudioInv, NEW v \in Visitor,
           StartRecording(v) \/ MicGranted(v) \/ TracksEnd(v) \/ RecorderStops(v)
    PROVE  StudioInv'
<1>. DEFINE p == page[v]
<1>1. p \in PageState /\ p.made \in Nat
  BY VisitIs, PageIs
<1>2. CASE StartRecording(v)
  <2>. DEFINE q == [p EXCEPT !.recorder = "asking", !.off = TRUE]
  <2>1. /\ q \in PageState /\ q.session = p.session /\ q.saved = p.saved /\ q.known = p.known
        /\ q.made = p.made /\ q.result = p.result /\ q.least = p.least
        /\ q.creating = p.creating
    BY <1>1 DEF PageState
  <2>2. /\ page' = [page EXCEPT ![v] = q] /\ UNCHANGED <<call, valid, profiles, worker>>
        /\ p.recorder # "enrolling"
    BY <1>2 DEF StartRecording, Page, Behind
  <2>. HIDE DEF q
  <2>. QED
    BY <2>1, <2>2, RecordingKept
<1>3. CASE MicGranted(v)
  <2>. DEFINE q == [p EXCEPT !.recorder = "recording", !.mic = TRUE, !.made = @ + 1,
                             !.timer = TRUE, !.stale = @ \/ p.timer]
              r == EnrollOver(p)
              t == [r EXCEPT !.recorder = "stuck"]
  <2>1. /\ q \in PageState /\ q.session = p.session /\ q.saved = p.saved /\ q.known = p.known
        /\ q.made = p.made + 1 /\ q.result = p.result /\ q.least = p.least
        /\ q.creating = p.creating
    <3>. DEFINE stale == p.stale \/ p.timer
                x == [p EXCEPT !.recorder = "recording", !.mic = TRUE, !.made = p.made + 1,
                               !.timer = TRUE, !.stale = stale]
    <3>1. stale \in BOOLEAN /\ p.made + 1 \in Nat
      BY <1>1
    <3>2. q = x
      OBVIOUS
    <3>. HIDE DEF stale, q
    <3>3. /\ x \in PageState /\ x.session = p.session /\ x.saved = p.saved
          /\ x.known = p.known /\ x.made = p.made + 1 /\ x.result = p.result
          /\ x.least = p.least /\ x.creating = p.creating
      BY <1>1, <3>1 DEF PageState
    <3>. QED
      BY <3>2, <3>3
  <2>2. /\ r \in PageState /\ r.session = p.session /\ r.saved = p.saved /\ r.known = p.known
        /\ r.made = p.made /\ r.result = p.result /\ r.least = p.least
        /\ r.creating = p.creating
    BY <1>1 DEF PageState, EnrollOver
  <2>3. /\ page' = [page EXCEPT ![v] = q] \/ page' = [page EXCEPT ![v] = r]
                                         \/ page' = [page EXCEPT ![v] = t]
        /\ UNCHANGED <<call, valid, profiles, worker>> /\ p.recorder # "enrolling"
    BY <1>3 DEF MicGranted, Page, Behind
  <2>4. /\ t \in PageState /\ t.session = p.session /\ t.saved = p.saved /\ t.known = p.known
        /\ t.made = p.made /\ t.result = p.result /\ t.least = p.least
        /\ t.creating = p.creating
    <3>. HIDE DEF r
    <3>. QED
      BY <2>2 DEF PageState
  <2>. HIDE DEF q, r, t
  <2>. QED
    BY <2>1, <2>2, <2>3, <2>4, RecordingKept
<1>4. CASE TracksEnd(v)
  <2>. DEFINE q == [p EXCEPT !.recorder = "stopped", !.cut = TRUE]
  <2>1. /\ q \in PageState /\ q.session = p.session /\ q.saved = p.saved /\ q.known = p.known
        /\ q.made = p.made /\ q.result = p.result /\ q.least = p.least
        /\ q.creating = p.creating
    BY <1>1 DEF PageState
  <2>2. /\ page' = [page EXCEPT ![v] = q] /\ UNCHANGED <<call, valid, profiles, worker>>
        /\ p.recorder # "enrolling"
    BY <1>4 DEF TracksEnd, Page, Behind
  <2>. HIDE DEF q
  <2>. QED
    BY <2>1, <2>2, RecordingKept
<1>5. CASE RecorderStops(v)
  <2>. DEFINE q == EnrollReference(p)
  <2>1. /\ q \in PageState /\ q.session = p.session /\ q.saved = p.saved /\ q.known = p.known
        /\ q.made = p.made /\ q.result = p.result /\ q.least = p.least
        /\ q.creating = p.creating
    BY <1>1 DEF PageState, EnrollReference
  <2>2. /\ page' = [page EXCEPT ![v] = q] /\ UNCHANGED <<call, valid, profiles, worker>>
        /\ p.recorder # "enrolling"
    BY <1>5 DEF RecorderStops, Page, Behind
  <2>. HIDE DEF q
  <2>. QED
    BY <2>1, <2>2, RecordingKept
<1>. QED
  BY <1>2, <1>3, <1>4, <1>5

LEMMA StoppedIs ==
    ASSUME NEW p \in PageState
    PROVE  LET q == Stopped(p)
               r == [Stopped(p) EXCEPT !.stale = FALSE]
           IN  \A x \in {q, r} :
                 /\ x \in PageState /\ x.session = p.session /\ x.saved = p.saved
                 /\ x.known = p.known /\ x.made = p.made /\ x.result = p.result
                 /\ x.least = p.least /\ x.creating = p.creating
                 /\ p.recorder = "recording" \/ x.recorder = p.recorder
<1>. DEFINE q == Stopped(p)
            r == [q EXCEPT !.stale = FALSE]
<1>1. /\ q \in PageState /\ q.session = p.session /\ q.saved = p.saved
      /\ q.known = p.known /\ q.made = p.made /\ q.result = p.result
      /\ q.least = p.least /\ q.creating = p.creating
      /\ p.recorder = "recording" \/ q.recorder = p.recorder
  BY DEF Stopped, PageState
<1>. HIDE DEF q
<1>2. /\ r \in PageState /\ r.session = q.session /\ r.saved = q.saved
      /\ r.known = q.known /\ r.made = q.made /\ r.result = q.result
      /\ r.least = q.least /\ r.creating = q.creating /\ r.recorder = q.recorder
  BY <1>1 DEF PageState
<1>. HIDE DEF r
<1>3. \A x \in {q, r} :
         /\ x \in PageState /\ x.session = p.session /\ x.saved = p.saved
         /\ x.known = p.known /\ x.made = p.made /\ x.result = p.result
         /\ x.least = p.least /\ x.creating = p.creating
         /\ p.recorder = "recording" \/ x.recorder = p.recorder
  BY <1>1, <1>2
<1>. QED
  BY <1>3 DEF q, r

LEMMA StopKept == ASSUME StudioInv, NEW v \in Visitor, StopRecording(v) PROVE StudioInv'
<1>1. page[v] \in PageState /\ page[v].made \in Nat
  BY VisitIs, PageIs
<1>2. PICK x \in {Stopped(page[v]), [Stopped(page[v]) EXCEPT !.stale = FALSE]} :
         page' = [page EXCEPT ![v] = x]
  BY DEF StopRecording, Page
<1>3. UNCHANGED <<call, valid, profiles, worker>>
  BY DEF StopRecording, Behind
<1>4. /\ x \in PageState /\ x.session = page[v].session /\ x.saved = page[v].saved
      /\ x.known = page[v].known /\ x.made = page[v].made
      /\ x.result = page[v].result
      /\ x.least = page[v].least /\ x.creating = page[v].creating
      /\ page[v].recorder = "recording" \/ x.recorder = page[v].recorder
  BY <1>1, <1>2, StoppedIs
<1>. QED
  BY <1>2, <1>3, <1>4, RecordingKept

(* Another request of a page, or another stage of one.                             *)
LEMMA CallsSet ==
    ASSUME StudioInv, NEW v \in Visitor, NEW k \in Kind, NEW x \in CallState,
           x.session \in {0, page[v].session, call[v][k].session}, Calling(v, k, x)
    PROVE  LET c == [call[v] EXCEPT ![k] = x]
           IN  /\ c \in [Kind -> CallState] /\ [call EXCEPT ![v] = c] = [call EXCEPT ![v][k] = x]
               /\ c[k] = x /\ \A j \in Kind \ {k} : c[j] = call[v][j]
               /\ \A j \in Kind : c[j].session \in {0, page[v].session, call[v][j].session}
               /\ \A j \in Kind : Calling(v, j, c[j])
<1>. DEFINE c == [call[v] EXCEPT ![k] = x]
<1>1. call[v] \in [Kind -> CallState] /\ call \in [Visitor -> [Kind -> CallState]]
  BY DEF StudioInv, StudioTyped
<1>2. /\ c \in [Kind -> CallState] /\ c[k] = x /\ \A j \in Kind \ {k} : c[j] = call[v][j]
      /\ [call EXCEPT ![v] = c] = [call EXCEPT ![v][k] = x]
  BY <1>1
<1>. HIDE DEF c
<1>4. \A j \in Kind : Calling(v, j, call[v][j])
  BY VisitIs
<1>5. \A j \in Kind : j = k \/ c[j] = call[v][j]
  BY <1>2
<1>6. \A j \in Kind : Calling(v, j, c[j])
  BY <1>2, <1>4, <1>5
<1>7. \A j \in Kind : c[j].session \in {0, page[v].session, call[v][j].session}
  BY <1>2, <1>5
<1>. QED
  BY <1>2, <1>6, <1>7 DEF c

(* The stage of a request changes: it is not worked on, and not answered.             *)
LEMMA TurnsKept ==
    ASSUME StudioInv, NEW v \in Visitor, NEW k \in Kind,
           NEW s \in {"sent", "forwarded", "unauthorized", "failed"}, Turns(v, k, s),
           call[v][k].stage # "none",
           s \in {"sent", "forwarded"} => call[v][k].stage = "sent",
           s = "forwarded" => call[v][k].session \in valid,
           UNCHANGED <<page, valid, profiles, worker>>
    PROVE  StudioInv'
<1>. DEFINE x == [call[v][k] EXCEPT !.stage = s]
            c == [call[v] EXCEPT ![k] = x]
<1>1. /\ call[v][k] \in CallState /\ valid \subseteq DOMAIN profiles
      /\ page \in [Visitor -> PageState] /\ call \in [Visitor -> [Kind -> CallState]]
  BY DEF StudioInv, StudioTyped
<1>2. /\ x \in CallState /\ x.stage = s /\ x.session = call[v][k].session
      /\ x.voice = call[v][k].voice /\ x.known = call[v][k].known
  BY <1>1 DEF CallState
<1>3. call' = [call EXCEPT ![v][k] = x]
  BY <1>1 DEF Turns
<1>. HIDE DEF x
<1>4. Calling(v, k, x)
  BY <1>1, <1>2, VisitIs DEF Calling
<1>5. /\ c \in [Kind -> CallState] /\ call' = [call EXCEPT ![v] = c]
      /\ c[k] = x /\ \A j \in Kind \ {k} : c[j] = call[v][j]
      /\ \A j \in Kind : c[j].session \in {0, page[v].session, call[v][j].session}
      /\ \A j \in Kind : Calling(v, j, c[j])
  BY <1>2, <1>3, <1>4, CallsSet
<1>. HIDE DEF c
<1>6. Enrolling(v, page[v], c["enroll"])
  <2>1. Enrolling(v, page[v], call[v]["enroll"])
    BY VisitIs
  <2>2. CASE k = "enroll"
    BY <1>2, <1>5, <2>1, <2>2 DEF Enrolling
  <2>3. CASE k # "enroll"
    BY <1>5, <2>1, <2>3, VisitIs
  <2>. QED
    BY <2>2, <2>3
<1>7. page[v] \in PageState /\ page' = [page EXCEPT ![v] = page[v]] /\ page[v].made \in Nat
  BY <1>1, VisitIs, PageIs
<1>8. page[v].made >= page[v].made
  BY <1>7
<1>. QED
  BY <1>5, <1>6, <1>7, <1>8, PageMoves

LEMMA CallFailsKept ==
    ASSUME StudioInv, NEW v \in Visitor, CallFails(v) PROVE StudioInv'
BY TurnsKept DEF CallFails, Behind

LEMMA HubTakesKept ==
    ASSUME StudioInv, NEW v \in Visitor, NEW k \in Kind, HubTakes(v, k) PROVE StudioInv'
<1>1. PICK s \in {"forwarded", "unauthorized", "failed"} :
         Turns(v, k, s) /\ (s = "forwarded" => call[v][k].session \in valid)
  BY DEF HubTakes
<1>2. call[v][k].stage = "sent" /\ UNCHANGED <<page, valid, profiles, worker>>
  BY DEF HubTakes, Behind
<1>. QED
  BY <1>1, <1>2, TurnsKept

LEMMA EncodedKept == ASSUME StudioInv, NEW v \in Visitor, Encoded(v) PROVE StudioInv'
<1>. DEFINE p == page[v]
            x == [stage |-> "sent", session |-> p.session, known |-> 0,
                  voice |-> [visitor |-> v, n |-> p.made]]
            c == [call[v] EXCEPT !["enroll"] = x]
            q == [p EXCEPT !.recorder = "enrolling"]
            r == EnrollOver(p)
<1>1. /\ p \in PageState /\ p.made \in Nat /\ p.session \in Nat /\ p.recorder = "encoding"
      /\ UNCHANGED <<valid, profiles, worker>> /\ "enroll" \in Kind
  BY VisitIs, PageIs DEF Encoded, Behind
<1>2. call[v]["enroll"].stage = "none" /\ p.creating # "enroll"
  BY <1>1, VisitIs DEF Enrolling
<1>3. CASE page' = [page EXCEPT ![v] = q] /\ call' = [call EXCEPT ![v]["enroll"] = x]
  <2>1. /\ x \in CallState /\ x.session = p.session /\ x.stage = "sent"
        /\ x.voice.visitor = v /\ x.voice.n = p.made
    BY <1>1 DEF CallState, Take
  <2>. HIDE DEF x
  <2>2. Calling(v, "enroll", x)
    BY <2>1 DEF Calling
  <2>3. /\ c \in [Kind -> CallState] /\ call' = [call EXCEPT ![v] = c] /\ c["enroll"] = x
        /\ \A j \in Kind : c[j].session \in {0, page[v].session, call[v][j].session}
        /\ \A j \in Kind : Calling(v, j, c[j])
    BY <1>1, <1>3, <2>1, <2>2, CallsSet
  <2>. HIDE DEF c
  <2>4. /\ q \in PageState /\ q.session = p.session /\ q.saved = p.saved /\ q.known = p.known
        /\ q.made = p.made /\ q.result = p.result /\ q.least = p.least
        /\ q.creating = p.creating /\ q.recorder = "enrolling"
    BY <1>1 DEF PageState
  <2>. HIDE DEF q
  <2>5. Enrolling(v, q, c["enroll"])
    BY <1>2, <2>1, <2>3, <2>4 DEF Enrolling
  <2>6. q.made >= p.made
    BY <1>1, <2>4
  <2>. QED
    BY <1>1, <1>3, <2>3, <2>4, <2>5, <2>6, PageMoves
<1>4. CASE page' = [page EXCEPT ![v] = r] /\ UNCHANGED call
  <2>1. /\ Follows(p, r) /\ r.creating = p.creating
    BY <1>1, Overs
  <2>2. page' = [page EXCEPT ![v] = r]
    BY <1>4
  <2>. HIDE DEF r
  <2>3. Enrolling(v, r, call[v]["enroll"])
    BY <1>2, <2>1 DEF Enrolling
  <2>. QED
    BY <1>1, <1>4, <2>1, <2>2, <2>3, CallsKept, PageFollows
<1>. QED
  BY <1>3, <1>4 DEF Encoded, Page

(* The session is gone: the operation that found out waits for another one.           *)
LEMMA RecoveredKept ==
    ASSUME StudioInv, NEW v \in Visitor, NEW k \in Kind,
           Page(v, RecoverSession(page[v], k)), Drops(v, k), call[v][k].stage # "none",
           UNCHANGED <<valid, profiles, worker>>
    PROVE  StudioInv'
<1>. DEFINE p == page[v]
            q == RecoverSession(p, k)
            c == [call[v] EXCEPT ![k] = NoCall]
<1>1. p \in PageState /\ k \in Callers /\ k \in {"enroll", "synth"} /\ "enroll" \in Kind
  BY VisitIs DEF Kind, Callers
<1>2. /\ Follows(p, q)
      /\ p.creating = "none" => q.creating = k /\ q.recorder = p.recorder
      /\ p.creating # "none" => /\ q.creating = p.creating
                                /\ q.recorder = IF k = "enroll" THEN "idle" ELSE p.recorder
  BY <1>1, Recovers
<1>3. page' = [page EXCEPT ![v] = q]
  BY DEF Page
<1>4. /\ c \in [Kind -> CallState] /\ call' = [call EXCEPT ![v] = c]
      /\ c[k] = NoCall /\ \A j \in Kind \ {k} : c[j] = call[v][j]
      /\ \A j \in Kind : c[j].session \in {0, page[v].session, call[v][j].session}
      /\ \A j \in Kind : Calling(v, j, c[j])
  BY CallsDropped
<1>. HIDE DEF q, c
<1>5. Enrolling(v, p, call[v]["enroll"])
  BY VisitIs
<1>6. CASE k = "enroll"
  <2>1. Enrolling(v, q, c["enroll"])
    BY <1>2, <1>4, <1>5, <1>6, Constants DEF Enrolling
  <2>. QED
    BY <1>2, <1>3, <1>4, <2>1, PageFollows
<1>7. CASE k = "synth"
  <2>1. c["enroll"] = call[v]["enroll"]
    BY <1>1, <1>4, <1>7
  <2>2. Enrolling(v, q, c["enroll"])
    BY <1>2, <1>5, <1>7, <2>1 DEF Enrolling, Follows
  <2>. QED
    BY <1>2, <1>3, <1>4, <2>2, PageFollows
<1>. QED
  BY <1>1, <1>6, <1>7

LEMMA EnrolledKept == ASSUME StudioInv, NEW v \in Visitor, Enrolled(v) PROVE StudioInv'
<1>. DEFINE p == page[v]
            e == call[v]["enroll"]
            c == [call[v] EXCEPT !["enroll"] = NoCall]
<1>1. /\ p \in PageState /\ p.session \in Nat /\ p.made \in Nat /\ "enroll" \in Kind
      /\ e \in CallState /\ Enrolling(v, p, e) /\ Calling(v, "enroll", e)
  BY VisitIs, PageIs
<1>2. UNCHANGED <<valid, profiles, worker>> /\ Drops(v, "enroll")
  BY DEF Enrolled, Behind
<1>3. /\ c \in [Kind -> CallState] /\ call' = [call EXCEPT ![v] = c] /\ c["enroll"] = NoCall
      /\ \A j \in Kind : c[j].session \in {0, page[v].session, call[v][j].session}
      /\ \A j \in Kind : Calling(v, j, c[j])
  BY <1>1, <1>2, CallsDropped
<1>4. Grows
  BY <1>2 DEF Grows, StudioInv, StudioTyped
<1>. HIDE DEF c
<1>5. CASE /\ e.stage = "ok"
           /\ Page(v, EnrollOver([ActivateSession(p, p.session, TRUE) EXCEPT
                                    !.known = [session |-> e.session, n |-> e.voice.n]]))
  <2>. DEFINE a == ActivateSession(p, p.session, TRUE)
              known == [session |-> e.session, n |-> e.voice.n]
              b == [a EXCEPT !.known = known]
              q == EnrollOver(b)
  <2>1. /\ a \in PageState /\ a.session = p.session /\ a.saved.session = p.session
        /\ a.made = p.made /\ a.result = p.result /\ a.least = p.least
        /\ a.creating = p.creating
    BY <1>1, Activates
  <2>2. e.session \in Nat /\ e.voice \in Take
    BY <1>1 DEF CallState
  <2>3. known \in [session : Nat, n : Nat] /\ known.session = e.session /\ known.n = e.voice.n
    BY <2>2, TakeIs
  <2>. HIDE DEF a, known
  <2>4. /\ b \in PageState /\ b.session = a.session /\ b.saved = a.saved /\ b.made = a.made
        /\ b.result = a.result /\ b.least = a.least /\ b.creating = a.creating
        /\ b.known = known
    BY <2>1, <2>3 DEF PageState
  <2>. HIDE DEF b
  <2>5. /\ q \in PageState /\ q.session = b.session /\ q.saved = b.saved /\ q.made = b.made
        /\ q.result = b.result /\ q.least = b.least /\ q.creating = b.creating
        /\ q.known = b.known
    BY <2>4 DEF PageState, EnrollOver
  <2>6. page' = [page EXCEPT ![v] = q]
    BY <1>5 DEF Page, a, b, known
  <2>. HIDE DEF q
  <2>7. Mine(v, e.session) /\ Mine(v, p.session)
    BY <1>1, VisitIs
  <2>8. Told(v, q)
    BY <1>1, <1>5, <2>1, <2>3, <2>4, <2>5, VisitIs DEF Told, Calling
  <2>9. Enrolling(v, q, c["enroll"])
    BY <1>1, <1>3, <1>5, <2>1, <2>4, <2>5, Constants DEF Enrolling
  <2>10. /\ Mine(v, q.session) /\ Mine(v, q.saved.session) /\ Mine(v, q.known.session)
         /\ \A k \in Kind : Mine(v, c[k].session)
    BY <1>3, <2>1, <2>3, <2>4, <2>5, <2>7, VisitIs
  <2>11. q.made >= p.made
    BY <1>1, <2>1, <2>4, <2>5
  <2>. QED
    BY <1>2, <1>3, <1>4, <2>5, <2>6, <2>8, <2>9, <2>10, <2>11, PageStep
<1>6. CASE e.stage = "unauthorized" /\ Page(v, RecoverSession(p, "enroll"))
  BY <1>1, <1>2, <1>6, RecoveredKept
<1>7. CASE e.stage = "failed" /\ Page(v, EnrollOver(p))
  <2>. DEFINE q == EnrollOver(p)
  <2>1. Follows(p, q) /\ q.creating = p.creating
    BY <1>1, Overs
  <2>2. page' = [page EXCEPT ![v] = q]
    BY <1>7 DEF Page
  <2>. HIDE DEF q
  <2>3. Enrolling(v, q, c["enroll"])
    BY <1>1, <1>3, <1>7, <2>1, Constants DEF Enrolling
  <2>. QED
    BY <1>2, <1>3, <2>1, <2>2, <2>3, PageFollows
<1>. QED
  BY <1>5, <1>6, <1>7 DEF Enrolled

LEMMA SynthesizeKept == ASSUME StudioInv, NEW v \in Visitor, Synthesize(v) PROVE StudioInv'
<1>. DEFINE p == page[v]
            known == IF p.known.session = p.session THEN p.known.n ELSE 0
            x == [stage |-> "sent", session |-> p.session, voice |-> Nobody, known |-> known]
            c == [call[v] EXCEPT !["synth"] = x]
            q == [p EXCEPT !.synth = "waiting"]
<1>1. /\ p \in PageState /\ p.made \in Nat /\ p.session \in Nat /\ p.known.n \in Nat
      /\ "synth" \in Kind /\ "enroll" \in Kind
      /\ Enrolling(v, p, call[v]["enroll"]) /\ Told(v, p)
  BY VisitIs, PageIs
<1>2. /\ page' = [page EXCEPT ![v] = q] /\ call' = [call EXCEPT ![v]["synth"] = x]
      /\ UNCHANGED <<valid, profiles, worker>>
  BY DEF Synthesize, Page, Behind
<1>3. known \in Nat /\ Confirmed(p.session, known)
  BY <1>1 DEF Told, Confirmed
<1>. HIDE DEF known
<1>4. /\ x \in CallState /\ x.session = p.session /\ x.stage = "sent" /\ x.known = known
  BY <1>1, <1>3, Constants DEF CallState
<1>. HIDE DEF x
<1>5. Calling(v, "synth", x)
  BY <1>3, <1>4 DEF Calling
<1>6. /\ c \in [Kind -> CallState] /\ call' = [call EXCEPT ![v] = c]
      /\ \A j \in Kind \ {"synth"} : c[j] = call[v][j]
      /\ \A j \in Kind : c[j].session \in {0, page[v].session, call[v][j].session}
      /\ \A j \in Kind : Calling(v, j, c[j])
  BY <1>1, <1>2, <1>4, <1>5, CallsSet
<1>. HIDE DEF c
<1>7. /\ q \in PageState /\ q.session = p.session /\ q.saved = p.saved /\ q.known = p.known
      /\ q.made = p.made /\ q.result = p.result /\ q.least = p.least
      /\ q.creating = p.creating /\ q.recorder = p.recorder
  BY <1>1 DEF PageState
<1>. HIDE DEF q
<1>8. Enrolling(v, q, c["enroll"])
  BY <1>1, <1>6, <1>7 DEF Enrolling
<1>9. q.made >= p.made
  BY <1>1, <1>7
<1>. QED
  BY <1>2, <1>6, <1>7, <1>8, <1>9, PageMoves

LEMMA SynthesizedKept == ASSUME StudioInv, NEW v \in Visitor, Synthesized(v) PROVE StudioInv'
<1>. DEFINE p == page[v]
            d == call[v]["synth"]
            c == [call[v] EXCEPT !["synth"] = NoCall]
<1>1. /\ p \in PageState /\ p.made \in Nat /\ "synth" \in Kind /\ "enroll" \in Kind
      /\ d \in CallState /\ Calling(v, "synth", d) /\ Enrolling(v, p, call[v]["enroll"])
      /\ Told(v, p)
  BY VisitIs, PageIs
<1>2. UNCHANGED <<valid, profiles, worker>> /\ Drops(v, "synth")
  BY DEF Synthesized, Behind
<1>3. /\ c \in [Kind -> CallState] /\ call' = [call EXCEPT ![v] = c]
      /\ \A j \in Kind \ {"synth"} : c[j] = call[v][j]
      /\ \A j \in Kind : c[j].session \in {0, page[v].session, call[v][j].session}
      /\ \A j \in Kind : Calling(v, j, c[j])
  BY <1>1, <1>2, CallsDropped
<1>4. Grows
  BY <1>2 DEF Grows, StudioInv, StudioTyped
<1>. HIDE DEF c
<1>5. c["enroll"] = call[v]["enroll"]
  BY <1>1, <1>3
<1>6. CASE d.stage = "ok" /\ Page(v, SynthOver([p EXCEPT !.result = d.voice, !.least = d.known]))
  <2>. DEFINE b == [p EXCEPT !.result = d.voice, !.least = d.known]
              q == SynthOver(b)
  <2>1. d.voice \in Take /\ d.known \in Nat
    BY <1>1 DEF CallState
  <2>2. /\ b \in PageState /\ b.session = p.session /\ b.saved = p.saved /\ b.made = p.made
        /\ b.result = d.voice /\ b.least = d.known /\ b.creating = p.creating
        /\ b.known = p.known /\ b.recorder = p.recorder
    BY <1>1, <2>1 DEF PageState
  <2>. HIDE DEF b
  <2>3. /\ q \in PageState /\ q.session = b.session /\ q.saved = b.saved /\ q.made = b.made
        /\ q.result = b.result /\ q.least = b.least /\ q.creating = b.creating
        /\ q.known = b.known /\ q.recorder = b.recorder
    BY <2>2 DEF PageState, SynthOver
  <2>4. page' = [page EXCEPT ![v] = q]
    BY <1>6 DEF Page, b
  <2>. HIDE DEF q
  <2>5. Told(v, q)
    BY <1>1, <1>6, <2>2, <2>3 DEF Told, Calling
  <2>6. Enrolling(v, q, c["enroll"])
    BY <1>1, <1>5, <2>2, <2>3 DEF Enrolling
  <2>7. /\ Mine(v, q.session) /\ Mine(v, q.saved.session) /\ Mine(v, q.known.session)
        /\ \A k \in Kind : Mine(v, c[k].session)
    BY <1>3, <2>2, <2>3, VisitIs
  <2>8. q.made >= p.made
    BY <1>1, <2>2, <2>3
  <2>. QED
    BY <1>2, <1>3, <1>4, <2>3, <2>4, <2>5, <2>6, <2>7, <2>8, PageStep
<1>7. CASE d.stage = "unauthorized" /\ Page(v, RecoverSession(p, "synth"))
  BY <1>1, <1>2, <1>7, RecoveredKept
<1>8. CASE d.stage = "failed" /\ Page(v, SynthOver(p))
  <2>. DEFINE q == SynthOver(p)
  <2>1. Follows(p, q) /\ q.creating = p.creating /\ q.recorder = p.recorder
    BY <1>1, Overs
  <2>2. page' = [page EXCEPT ![v] = q]
    BY <1>8 DEF Page
  <2>. HIDE DEF q
  <2>3. Enrolling(v, q, c["enroll"])
    BY <1>1, <1>5, <2>1 DEF Enrolling, Follows
  <2>. QED
    BY <1>2, <1>3, <2>1, <2>2, <2>3, PageFollows
<1>. QED
  BY <1>6, <1>7, <1>8 DEF Synthesized

(* Only a session nobody has had before is given to a page.                         *)
LEMMA SessionCreatedKept ==
    ASSUME StudioInv, NEW v \in Visitor, SessionCreated(v) PROVE StudioInv'
<1>. DEFINE p == [page[v] EXCEPT !.creating = "none"]
            s == Len(profiles) + 1
            a == ActivateSession(p, s, FALSE)
            q == Continue(a, page[v].creating)
<1>1. /\ page[v] \in PageState /\ page[v].creating \in Callers /\ page[v].made \in Nat
      /\ Enrolling(v, page[v], call[v]["enroll"]) /\ Told(v, page[v])
      /\ Mine(v, page[v].known.session)
  BY VisitIs, PageIs
<1>2. /\ page' = [page EXCEPT ![v] = q] /\ UNCHANGED <<call, worker>>
      /\ valid' = valid \cup {s} /\ profiles' = Append(profiles, NoProfile)
  BY DEF SessionCreated, Page
<1>3. profiles \in Seq(ProfileState) /\ valid \subseteq DOMAIN profiles /\ NoProfile \in ProfileState
  BY Constants DEF StudioInv, StudioTyped
<1>4. /\ s \in DOMAIN profiles' /\ s \notin DOMAIN profiles /\ s \in Nat
      /\ valid' \subseteq DOMAIN profiles'
  BY <1>2, <1>3
<1>5. Grows
  BY <1>2, <1>4 DEF Grows
<1>. HIDE DEF s
<1>6. /\ p \in PageState /\ p.made = page[v].made /\ p.known = page[v].known
      /\ p.result = page[v].result /\ p.least = page[v].least
      /\ p.creating = "none" /\ p.recorder = page[v].recorder
  BY <1>1 DEF PageState, Callers
<1>. HIDE DEF p
<1>7. /\ a \in PageState /\ a.session = s /\ a.saved.session = s
      /\ a.made = p.made /\ a.known = p.known /\ a.result = p.result
      /\ a.least = p.least /\ a.creating = p.creating /\ a.recorder = p.recorder
  BY <1>4, <1>6, Activates
<1>. HIDE DEF a
<1>8. /\ Follows(a, q) /\ q.creating = a.creating
      /\ q.recorder = IF page[v].creating = "enroll" THEN "idle" ELSE a.recorder
  BY <1>1, <1>7, Continues
<1>. HIDE DEF q
<1>9. /\ q \in PageState /\ q.session \in {s, 0} /\ q.saved.session \in {s, 0}
      /\ q.made = page[v].made /\ q.known = page[v].known
      /\ q.result = Nobody \/ (q.result = page[v].result /\ q.least = page[v].least)
  BY <1>6, <1>7, <1>8 DEF Follows
<1>10. Told(v, q)
  BY <1>1, <1>9 DEF Told
<1>11. Enrolling(v, q, call[v]["enroll"])
  BY <1>1, <1>6, <1>7, <1>8, <1>9 DEF Enrolling
<1>12. Mine(v, s) /\ Mine(v, 0)
  BY <1>4 DEF Mine
<1>13. /\ Mine(v, q.session) /\ Mine(v, q.saved.session) /\ Mine(v, q.known.session)
  BY <1>1, <1>9, <1>12
<1>14. q.made >= page[v].made
  BY <1>1, <1>9
<1>15. /\ call[v] \in [Kind -> CallState] /\ call' = [call EXCEPT ![v] = call[v]]
       /\ \A k \in Kind : Mine(v, call[v][k].session) /\ Calling(v, k, call[v][k])
  BY <1>2, VisitIs, CallsKept
<1>. QED
  BY <1>2, <1>5, <1>9, <1>10, <1>11, <1>13, <1>14, <1>15, PageStep

LEMMA ExpiresKept == ASSUME StudioInv, Expires PROVE StudioInv'
<1>1. valid' \subseteq valid /\ UNCHANGED <<page, call, profiles, worker>>
  BY DEF Expires
<1>2. StudioTyped'
  BY <1>1 DEF StudioInv, StudioTyped
<1>3. \A v \in Visitor, s \in Nat : Touches(v, s)' <=> Touches(v, s)
  BY <1>1 DEF Touches
<1>4. Private'
  BY <1>1, <1>3 DEF StudioInv, Private
<1>5. Newest'
  <2>1. \A s \in DOMAIN profiles : s \in Nat
    BY StudioTypes DEF StudioInv
  <2>. QED
    BY <1>1, <1>3, <2>1 DEF StudioInv, Newest
<1>6. Visits' /\ Job' /\ Storage'
  BY <1>1 DEF StudioInv, Visits, Job, Storage, Calling, Told, Confirmed
<1>. QED
  BY <1>2, <1>4, <1>5, <1>6 DEF StudioInv

(* The worker.  What a step of its job may do to the profiles.                        *)
Within(s) ==
    LET own == s = worker.session /\ worker.kind = "enroll"
    IN  /\ \A r \in Recordings(profiles'[s]) :
              \/ r \in Recordings(profiles[s]) \cup {Nobody}
              \/ own /\ r = worker.voice
        /\ \/ profiles'[s].confirmed = profiles[s].confirmed
           \/ own /\ profiles'[s].confirmed = worker.voice.n

Stays ==
    /\ profiles' \in Seq(ProfileState) /\ DOMAIN profiles' = DOMAIN profiles
    /\ \A s \in DOMAIN profiles : Within(s)

LEMMA JobHas ==
    ASSUME StudioInv, worker # NoJob
    PROVE  /\ worker.visitor \in Visitor /\ worker.kind \in Kind
           /\ worker.session \in DOMAIN profiles /\ worker.session \in Nat \ {0}
           /\ worker.voice \in Take /\ worker.voice.n \in Nat
           /\ profiles[worker.session] \in ProfileState
           /\ Touches(worker.visitor, worker.session)
           /\ worker.kind = "enroll" =>
                 /\ worker.voice.visitor = worker.visitor
                 /\ profiles[worker.session].confirmed <= worker.voice.n
                 /\ worker.voice.n <= page[worker.visitor].made
<1>1. /\ worker.visitor \in Visitor /\ worker.kind \in Kind /\ worker.session \in DOMAIN profiles
      /\ worker.kind = "enroll" =>
            /\ worker.voice.visitor = worker.visitor
            /\ profiles[worker.session].confirmed <= worker.voice.n
            /\ worker.voice.n <= page[worker.visitor].made
  BY DEF StudioInv, Job
<1>2. worker.session \in Nat \ {0} /\ profiles[worker.session] \in ProfileState
  BY <1>1, StudioTypes DEF StudioInv
<1>3. worker.voice \in Take /\ worker.voice.n \in Nat
  BY JobIs, TakeIs DEF StudioInv
<1>4. Touches(worker.visitor, worker.session)
  BY DEF Touches
<1>. QED
  BY <1>1, <1>2, <1>3, <1>4

LEMMA StaysConfirmed ==
    ASSUME StudioInv, worker # NoJob, Stays, NEW s, NEW n, n = 0 \/ n \in Nat, Confirmed(s, n)
    PROVE  Confirmed(s, n)'
<1>. SUFFICES ASSUME s \in DOMAIN profiles, n <= profiles[s].confirmed
              PROVE  n <= profiles'[s].confirmed
  BY DEF Confirmed, Stays
<1>1. profiles[s].confirmed \in Nat /\ profiles'[s].confirmed \in Nat
  BY StudioTypes, ProfileIs DEF StudioInv, Stays
<1>2. \/ profiles'[s].confirmed = profiles[s].confirmed
      \/ /\ s = worker.session /\ worker.kind = "enroll"
         /\ profiles'[s].confirmed = worker.voice.n
  BY DEF Stays, Within
<1>. QED
  BY <1>1, <1>2, JobHas

LEMMA JobMoves ==
    ASSUME StudioInv, worker # NoJob, Stays, UNCHANGED <<page, valid>>,
           call' \in [Visitor -> [Kind -> CallState]],
           \A w \in Visitor, j \in Kind : call'[w][j].session = call[w][j].session,
           worker' \in JobState,
           \/ worker' = NoJob
           \/ worker'.visitor = worker.visitor /\ worker'.session = worker.session
    PROVE  StudioTyped' /\ Private' /\ Newest'
<1>1. StudioTyped /\ StudioTyped'
  BY DEF StudioInv, StudioTyped, Stays
<1>2. \A s \in DOMAIN profiles : s \in Nat \ {0} /\ profiles[s] \in ProfileState
  BY <1>1, StudioTypes
<1>3. \A w \in Visitor, s \in Nat \ {0} : Touches(w, s)' => Touches(w, s)
  <2>. SUFFICES ASSUME NEW w \in Visitor, NEW s \in Nat \ {0}, Touches(w, s)'
                PROVE  Touches(w, s)
    OBVIOUS
  <2>1. CASE worker'.visitor = w /\ worker'.session = s
    BY <2>1, Constants DEF Touches
  <2>2. CASE s \in DOMAIN profiles' /\ \E r \in Recordings(profiles'[s]) : r.visitor = w
    <3>1. s \in DOMAIN profiles /\ Within(s)
      BY <2>2 DEF Stays
    <3>2. PICK r \in Recordings(profiles'[s]) : r.visitor = w
      BY <2>2
    <3>3. CASE r \in Recordings(profiles[s]) \cup {Nobody}
      BY <3>1, <3>2, <3>3, Constants, VisitorAssumption DEF Touches
    <3>4. CASE s = worker.session /\ worker.kind = "enroll" /\ r = worker.voice
      BY <3>2, <3>4, JobHas
    <3>. QED
      BY <3>1, <3>2, <3>3, <3>4 DEF Within
  <2>3. CASE \/ s \in {page'[w].session, page'[w].saved.session, page'[w].known.session}
             \/ \E k \in Kind : call'[w][k].session = s
    BY <2>3 DEF Touches
  <2>. QED
    BY <2>1, <2>2, <2>3 DEF Touches
<1>4. Private'
  BY <1>3 DEF StudioInv, Private, Stays
<1>5. Newest'
  <2>. SUFFICES ASSUME NEW w \in Visitor, NEW s \in DOMAIN profiles, Touches(w, s)
                PROVE  MadeBy(profiles'[s], page[w].made)
    BY <1>2, <1>3 DEF Newest, MadeBy, Recordings, Stays
  <2>1. MadeBy(profiles[s], page[w].made) /\ page[w].made \in Nat
    BY <1>1, StudioTypes, PageIs DEF StudioInv, Newest
  <2>2. ASSUME s = worker.session, worker.kind = "enroll"
        PROVE  worker.voice.n <= page[w].made
    <3>1. worker.visitor = w
      BY <1>2, <2>2, JobHas DEF StudioInv, Private
    <3>. QED
      BY <2>2, <3>1, JobHas
  <2>3. Within(s)
    BY DEF Stays
  <2>4. profiles'[s].confirmed <= page[w].made
    BY <2>1, <2>2, <2>3 DEF Within, MadeBy
  <2>5. ASSUME NEW r \in Recordings(profiles'[s]) PROVE r.n <= page[w].made
    BY <2>1, <2>2, <2>3, Constants DEF Within, MadeBy
  <2>. QED
    BY <2>4, <2>5 DEF MadeBy
<1>. QED
  BY <1>1, <1>4, <1>5

(* The job goes on.                                                             *)
LEMMA JobGoesOn ==
    ASSUME StudioInv, worker # NoJob, Stays, UNCHANGED <<page, valid>>,
           NEW stage \in {"staged", "moved", "saved"}, Goes(stage), Job', Storage'
    PROVE  StudioInv'
<1>1. worker \in JobState /\ call \in [Visitor -> [Kind -> CallState]]
  BY DEF StudioInv, StudioTyped
<1>2. /\ worker' \in JobState /\ worker'.visitor = worker.visitor
      /\ worker'.session = worker.session /\ worker'.kind = worker.kind
      /\ worker'.voice = worker.voice /\ call' = call
  BY <1>1 DEF Goes, JobState
<1>3. StudioTyped' /\ Private' /\ Newest'
  BY <1>1, <1>2, JobMoves
<1>4. Visits'
  <2>. SUFFICES ASSUME NEW v \in Visitor
                PROVE  /\ Enrolling(v, page[v], call[v]["enroll"])
                       /\ \A k \in Kind : Calling(v, k, call[v][k])'
                       /\ Told(v, page[v])'
    BY <1>2 DEF Visits, Enrolling
  <2>1. Enrolling(v, page[v], call[v]["enroll"])
    BY VisitIs
  <2>2. Told(v, page[v])'
    <3>1. page[v].known.n \in Nat /\ Told(v, page[v])
      BY VisitIs, PageIs
    <3>2. Confirmed(page[v].known.session, page[v].known.n)'
      BY <3>1, StaysConfirmed DEF Told
    <3>. QED
      BY <3>1, <3>2 DEF Told
  <2>3. ASSUME NEW k \in Kind PROVE Calling(v, k, call[v][k])'
    <3>. DEFINE c == call[v][k]
    <3>1. Calling(v, k, c) /\ c.known \in Nat /\ c.voice.n \in Nat
      <4>1. c \in CallState
        BY <1>1
      <4>2. c.voice \in Take /\ c.known \in Nat
        BY <4>1 DEF CallState
      <4>. QED
        BY <4>2, VisitIs, TakeIs
    <3>2. PICK x : x = c
      OBVIOUS
    <3>3. /\ Confirmed(x.session, x.voice.n) => Confirmed(x.session, x.voice.n)'
          /\ Confirmed(x.session, x.known) => Confirmed(x.session, x.known)'
      BY <3>1, <3>2, StaysConfirmed
    <3>4. Calling(v, k, x)'
      BY <1>2, <3>1, <3>2, <3>3 DEF Calling, Stays
    <3>. QED
      BY <1>2, <3>2, <3>4 DEF Calling, Confirmed
  <2>. QED
    BY <2>1, <2>2, <2>3
<1>. QED
  BY <1>3, <1>4 DEF StudioInv

LEMMA JobEndsIs ==
    ASSUME StudioInv, worker # NoJob, NEW stage \in {"ok", "failed"}, NEW voice \in Take,
           JobEnds(stage, voice)
    PROVE  /\ worker' = NoJob /\ call' \in [Visitor -> [Kind -> CallState]]
           /\ \A w \in Visitor, j \in Kind :
                 LET c == call[w][j]
                     d == call'[w][j]
                 IN  /\ d.session = c.session
                     /\ \/ d = c /\ c.stage # "working"
                        \/ /\ w = worker.visitor /\ j = worker.kind /\ c.stage = "working"
                           /\ d.stage = stage /\ d.voice = voice /\ d.known = c.known
<1>. DEFINE v == worker.visitor
            k == worker.kind
            x == [call[v][k] EXCEPT !.stage = stage, !.voice = voice]
<1>1. /\ v \in Visitor /\ k \in Kind /\ call \in [Visitor -> [Kind -> CallState]]
      /\ call[v][k] \in CallState
  BY JobHas DEF StudioInv, StudioTyped
<1>2. \A w \in Visitor, j \in Kind : call[w][j].stage = "working" => w = v /\ j = k
  BY VisitIs DEF Calling
<1>3. CASE call[v][k].stage = "working"
  <2>1. /\ x \in CallState /\ x.stage = stage /\ x.voice = voice
        /\ x.session = call[v][k].session /\ x.known = call[v][k].known
    BY <1>1 DEF CallState
  <2>2. call' = [call EXCEPT ![v][k] = x] /\ worker' = NoJob
    BY <1>1, <1>3 DEF JobEnds
  <2>. HIDE DEF x
  <2>3. /\ call' \in [Visitor -> [Kind -> CallState]]
        /\ \A w \in Visitor, j \in Kind :
              call'[w][j] = IF w = v /\ j = k THEN x ELSE call[w][j]
    BY <1>1, <2>1, <2>2
  <2>. QED
    BY <1>1, <1>2, <1>3, <2>1, <2>2, <2>3
<1>4. CASE call[v][k].stage # "working"
  <2>1. call' = call /\ worker' = NoJob
    BY <1>4 DEF JobEnds
  <2>. QED
    BY <1>1, <1>2, <1>4, <2>1
<1>. QED
  BY <1>3, <1>4

(* The job is over; what it answers is true.                                      *)
LEMMA JobOver ==
    ASSUME StudioInv, worker # NoJob, Stays, UNCHANGED <<page, valid>>,
           NEW stage \in {"ok", "failed"}, NEW voice \in Take, JobEnds(stage, voice), Storage',
           stage = "ok" /\ worker.kind = "enroll" =>
              voice = worker.voice /\ voice.n <= profiles'[worker.session].confirmed,
           stage = "ok" /\ worker.kind = "synth" =>
              voice.visitor = worker.visitor /\ voice.n >= profiles[worker.session].confirmed
    PROVE  StudioInv'
<1>1. /\ worker' = NoJob /\ call' \in [Visitor -> [Kind -> CallState]]
      /\ \A w \in Visitor, j \in Kind :
            LET c == call[w][j]
                d == call'[w][j]
            IN  /\ d.session = c.session
                /\ \/ d = c /\ c.stage # "working"
                   \/ /\ w = worker.visitor /\ j = worker.kind /\ c.stage = "working"
                      /\ d.stage = stage /\ d.voice = voice /\ d.known = c.known
  BY JobEndsIs
<1>2. StudioTyped' /\ Private' /\ Newest'
  BY <1>1, JobMoves, Constants
<1>3. Job'
  BY <1>1 DEF Job
<1>4. Visits'
  <2>. SUFFICES ASSUME NEW v \in Visitor
                PROVE  /\ Enrolling(v, page[v], call'[v]["enroll"])
                       /\ \A k \in Kind : Calling(v, k, call[v][k])'
                       /\ Told(v, page[v])'
    BY DEF Visits, Enrolling
  <2>0. /\ page[v] \in PageState /\ "enroll" \in Kind
        /\ Enrolling(v, page[v], call[v]["enroll"]) /\ Told(v, page[v])
        /\ page[v].known.n \in Nat
    BY VisitIs, PageIs
  <2>2. Told(v, page[v])'
    <3>1. Confirmed(page[v].known.session, page[v].known.n)'
      BY <2>0, StaysConfirmed DEF Told
    <3>. QED
      BY <2>0, <3>1 DEF Told
  <2>3. ASSUME NEW k \in Kind
        PROVE  /\ Calling(v, k, call[v][k])'
               /\ k = "enroll" => Enrolling(v, page[v], call'[v]["enroll"])
    <3>. DEFINE c == call[v][k]
                d == call'[v][k]
    <3>1. /\ d.session = c.session
          /\ \/ d = c /\ c.stage # "working"
             \/ /\ v = worker.visitor /\ k = worker.kind /\ c.stage = "working"
                /\ d.stage = stage /\ d.voice = voice /\ d.known = c.known
      BY <1>1
    <3>2. Calling(v, k, c) /\ c.known \in Nat /\ c.voice.n \in Nat
      <4>1. c \in CallState
        BY DEF StudioInv, StudioTyped
      <4>2. c.voice \in Take /\ c.known \in Nat
        BY <4>1 DEF CallState
      <4>. QED
        BY <4>2, VisitIs, TakeIs
    <3>3. PICK x : x = c
      OBVIOUS
    <3>4. PICK y : y = d
      OBVIOUS
    <3>. HIDE DEF c, d
    <3>5. CASE d = c /\ c.stage # "working"
      <4>1. /\ Confirmed(x.session, x.voice.n) => Confirmed(x.session, x.voice.n)'
            /\ Confirmed(x.session, x.known) => Confirmed(x.session, x.known)'
        BY <3>2, <3>3, StaysConfirmed
      <4>2. Calling(v, k, x)'
        BY <3>2, <3>3, <3>5, <4>1 DEF Calling, Stays
      <4>3. Calling(v, k, call[v][k])'
        BY <3>3, <3>5, <4>2 DEF Calling, Confirmed, c, d
      <4>4. k = "enroll" => Enrolling(v, page[v], call'[v]["enroll"])
        BY <2>0, <3>5 DEF c, d
      <4>. QED
        BY <4>3, <4>4
    <3>6. CASE /\ v = worker.visitor /\ k = worker.kind /\ c.stage = "working"
               /\ d.stage = stage /\ d.voice = voice /\ d.known = c.known
      <4>1. /\ c.session \in DOMAIN profiles /\ worker.session = c.session
            /\ k = "enroll" => worker.voice = c.voice
            /\ k = "synth" => Confirmed(c.session, c.known)
        BY <3>2, <3>6 DEF Calling
      <4>2. y.session \in DOMAIN profiles'
        BY <3>1, <3>4, <4>1 DEF Stays
      <4>3. k = "enroll" /\ stage = "ok" => Confirmed(y.session, y.voice.n)'
        BY <3>1, <3>4, <3>6, <4>1, <4>2 DEF Confirmed
      <4>4. k = "synth" => Confirmed(y.session, y.known)'
        <5>1. k = "synth" => Confirmed(x.session, x.known)'
          BY <3>2, <3>3, <4>1, StaysConfirmed
        <5>. QED
          BY <3>1, <3>3, <3>4, <3>6, <5>1
      <4>5. k = "synth" /\ stage = "ok" => y.voice.visitor = v /\ y.voice.n >= y.known
        <5>1. profiles[c.session].confirmed \in Nat /\ voice.n \in Nat
          BY <4>1, JobHas, ProfileIs, TakeIs
        <5>. QED
          BY <3>2, <3>4, <3>6, <4>1, <5>1 DEF Confirmed
      <4>6. Calling(v, k, y)'
        BY <3>4, <3>6, <4>2, <4>3, <4>4, <4>5 DEF Calling
      <4>7. Calling(v, k, call[v][k])'
        BY <3>4, <4>6 DEF Calling, Confirmed, d
      <4>8. k = "enroll" => Enrolling(v, page[v], call'[v]["enroll"])
        BY <2>0, <3>6, <4>1 DEF c, d, Enrolling
      <4>. QED
        BY <4>7, <4>8
    <3>. QED
      BY <3>1, <3>5, <3>6
  <2>. QED
    BY <2>0, <2>2, <2>3
<1>. QED
  BY <1>2, <1>3, <1>4 DEF StudioInv

(* A profile that is evicted loses its recording and keeps the others.                *)
LEMMA EvictedIs ==
    ASSUME NEW p \in ProfileState
    PROVE  LET q == Evicted(p)
           IN  /\ q \in ProfileState /\ q.root = Nobody /\ q.gone = TRUE
               /\ q.confirmed = p.confirmed
               /\ \A r \in Recordings(q) : r \in Recordings(p) \cup {Nobody}
BY Constants DEF Evicted, ProfileState, Recordings

LEMMA EvictedIntact ==
    ASSUME NEW p \in ProfileState, NEW j, NEW s, j.session # s \/ j.stage # "moved"
    PROVE  Intact(j, s, Evicted(p))
BY EvictedIs DEF Intact

(* A job that stores profile p, and may prune one of the others when it ends.          *)
Written(p) == [profiles EXCEPT ![worker.session] = p]

Writes(p, others) ==
    \/ profiles' = Written(p)
    \/ /\ worker' = NoJob
       /\ \E s \in others : profiles' = [Written(p) EXCEPT ![s] = Evicted(@)]

LEMMA WrittenIs ==
    ASSUME StudioInv, worker # NoJob, NEW p \in ProfileState
    PROVE  /\ Written(p) \in Seq(ProfileState) /\ DOMAIN Written(p) = DOMAIN profiles
           /\ \A s \in DOMAIN profiles :
                 Written(p)[s] = IF s = worker.session THEN p ELSE profiles[s]
<1>1. profiles \in Seq(ProfileState) /\ worker.session \in DOMAIN profiles
  BY JobHas DEF StudioInv, StudioTyped
<1>2. /\ [profiles EXCEPT ![worker.session] = p] \in Seq(ProfileState)
      /\ DOMAIN [profiles EXCEPT ![worker.session] = p] = DOMAIN profiles
      /\ \A s \in DOMAIN profiles :
            [profiles EXCEPT ![worker.session] = p][s] =
               IF s = worker.session THEN p ELSE profiles[s]
  BY <1>1
<1>. QED
  BY <1>2 DEF Written

LEMMA WritesIs ==
    ASSUME StudioInv, worker # NoJob, NEW p \in ProfileState,
           NEW others \in SUBSET DOMAIN profiles, Writes(p, others)
    PROVE  /\ profiles' \in Seq(ProfileState) /\ DOMAIN profiles' = DOMAIN profiles
           /\ \A s \in DOMAIN profiles :
                 LET q == IF s = worker.session THEN p ELSE profiles[s]
                 IN  /\ q \in ProfileState
                     /\ \/ profiles'[s] = q
                        \/ s \in others /\ worker' = NoJob /\ profiles'[s] = Evicted(q)
<1>. DEFINE k == Written(p)
<1>1. /\ k \in Seq(ProfileState) /\ DOMAIN k = DOMAIN profiles
      /\ \A s \in DOMAIN profiles : k[s] = IF s = worker.session THEN p ELSE profiles[s]
  BY WrittenIs
<1>2. \A s \in DOMAIN profiles : k[s] \in ProfileState
  BY <1>1, StudioTypes DEF StudioInv
<1>3. CASE profiles' = k
  BY <1>1, <1>2, <1>3
<1>4. CASE worker' = NoJob /\ \E s \in others : profiles' = [k EXCEPT ![s] = Evicted(@)]
  <2>. HIDE DEF k
  <2>1. PICK s \in others : profiles' = [k EXCEPT ![s] = Evicted(@)]
    BY <1>4
  <2>2. PICK e \in ProfileState : e = Evicted(k[s])
    BY <1>2, EvictedIs
  <2>3. profiles' = [k EXCEPT ![s] = e]
    BY <2>1, <2>2
  <2>4. /\ profiles' \in Seq(ProfileState) /\ DOMAIN profiles' = DOMAIN k
        /\ \A t \in DOMAIN k : profiles'[t] = IF t = s THEN e ELSE k[t]
    BY <1>1, <2>3
  <2>. QED
    BY <1>1, <1>2, <1>4, <2>2, <2>4
<1>. QED
  BY <1>3, <1>4 DEF Writes

LEMMA JobWrites ==
    ASSUME StudioInv, worker # NoJob, NEW p \in ProfileState,
           NEW others \in SUBSET DOMAIN profiles, Writes(p, others),
           \A r \in Recordings(p) :
              \/ r \in Recordings(Stored) \cup {Nobody}
              \/ worker.kind = "enroll" /\ r = worker.voice,
           \/ p.confirmed = Stored.confirmed
           \/ worker.kind = "enroll" /\ p.confirmed = worker.voice.n,
           worker' = NoJob \/ worker'.session = worker.session,
           Intact(worker', worker.session, p)
    PROVE  Stays /\ Storage'
<1>1. /\ profiles' \in Seq(ProfileState) /\ DOMAIN profiles' = DOMAIN profiles
      /\ \A s \in DOMAIN profiles :
            LET q == IF s = worker.session THEN p ELSE profiles[s]
            IN  /\ q \in ProfileState
                /\ \/ profiles'[s] = q
                   \/ s \in others /\ worker' = NoJob /\ profiles'[s] = Evicted(q)
  BY WritesIs
<1>2. ASSUME NEW s \in DOMAIN profiles PROVE Within(s) /\ Intact(worker', s, profiles'[s])
  <2>. DEFINE q == IF s = worker.session THEN p ELSE profiles[s]
  <2>1. /\ q \in ProfileState
        /\ \/ profiles'[s] = q
           \/ worker' = NoJob /\ profiles'[s] = Evicted(q)
    BY <1>1
  <2>2. /\ \A r \in Recordings(q) :
              \/ r \in Recordings(profiles[s]) \cup {Nobody}
              \/ s = worker.session /\ worker.kind = "enroll" /\ r = worker.voice
        /\ \/ q.confirmed = profiles[s].confirmed
           \/ s = worker.session /\ worker.kind = "enroll" /\ q.confirmed = worker.voice.n
    BY DEF Stored
  <2>3. Intact(worker', s, q)
    <3>1. CASE s = worker.session
      BY <3>1
    <3>2. CASE s # worker.session
      <4>1. Intact(worker, s, profiles[s])
        BY DEF StudioInv, Storage
      <4>2. worker'.session # s \/ worker'.stage # "moved"
        BY <3>2, Constants
      <4>. QED
        BY <3>2, <4>1, <4>2 DEF Intact
    <3>. QED
      BY <3>1, <3>2
  <2>. HIDE DEF q
  <2>4. CASE profiles'[s] = q
    BY <2>2, <2>3, <2>4 DEF Within
  <2>5. CASE worker' = NoJob /\ profiles'[s] = Evicted(q)
    <3>1. PICK e : e = Evicted(q)
      OBVIOUS
    <3>2. /\ e.confirmed = q.confirmed
          /\ \A r \in Recordings(e) : r \in Recordings(q) \cup {Nobody}
      BY <2>1, <3>1, EvictedIs
    <3>3. Within(s)
      BY <2>2, <2>5, <3>1, <3>2 DEF Within
    <3>4. Intact(worker', s, profiles'[s])
      BY <2>1, <2>5, EvictedIntact, Constants
    <3>. QED
      BY <3>3, <3>4
  <2>. QED
    BY <2>1, <2>4, <2>5
<1>. QED
  BY <1>1, <1>2 DEF Stays, Storage

(* The profile of the job as the invariant has it.                                 *)
LEMMA StoredIs ==
    ASSUME StudioInv, worker # NoJob
    PROVE  /\ Stored \in ProfileState /\ Intact(worker, worker.session, Stored)
           /\ Stored.confirmed \in Nat /\ profiles = Written(Stored)
           /\ worker.kind = "synth" <=> worker.stage = "speak"
           /\ worker.kind = "enroll" =>
                 Stored.confirmed <= worker.voice.n /\ worker.voice # Nobody
           /\ worker.stage \in {"staged", "moved"} => Stored.new = worker.voice
           /\ worker.stage = "saved" => Stored.root = worker.voice
<1>1. worker.session \in DOMAIN profiles /\ profiles \in Seq(ProfileState)
  BY JobHas DEF StudioInv, StudioTyped
<1>2. profiles = Written(Stored)
  BY <1>1 DEF Written, Stored
<1>3. Stored \in ProfileState /\ Intact(worker, worker.session, Stored)
  BY <1>1, JobHas DEF StudioInv, Storage, Stored
<1>4. worker.kind = "enroll" => worker.voice # Nobody
  BY JobHas, Constants, VisitorAssumption
<1>. QED
  BY <1>2, <1>3, <1>4, ProfileIs DEF StudioInv, Job, Stored

(* A step that goes on with the job, and one that ends it without an answer.           *)
LEMMA Staged ==
    ASSUME StudioInv, worker # NoJob, NEW stage \in {"staged", "moved", "saved"}, Goes(stage)
    PROVE  /\ worker'.session = worker.session /\ worker'.stage = stage
           /\ worker'.visitor = worker.visitor /\ worker'.kind = worker.kind
           /\ worker'.voice = worker.voice /\ worker' # NoJob
<1>1. worker \in JobState
  BY DEF StudioInv, StudioTyped
<1>2. /\ worker'.session = worker.session /\ worker'.stage = stage
      /\ worker'.visitor = worker.visitor /\ worker'.kind = worker.kind
      /\ worker'.voice = worker.voice
  BY <1>1 DEF Goes, JobState
<1>. QED
  BY <1>2, Constants

LEMMA StepKept ==
    ASSUME StudioInv, worker # NoJob, worker.kind = "enroll", UNCHANGED <<page, valid>>,
           NEW stage \in {"staged", "moved", "saved"}, Goes(stage),
           NEW p \in ProfileState, Store(p), p.confirmed = Stored.confirmed,
           \A r \in Recordings(p) : r \in Recordings(Stored) \cup {Nobody, worker.voice},
           Intact(worker', worker.session, p),
           stage \in {"staged", "moved"} => p.new = worker.voice,
           stage = "saved" => p.root = worker.voice
    PROVE  StudioInv'
<1>1. /\ worker'.session = worker.session /\ worker'.stage = stage
      /\ worker'.visitor = worker.visitor /\ worker'.kind = worker.kind
      /\ worker'.voice = worker.voice /\ worker' # NoJob
  BY Staged
<1>2. Writes(p, {})
  BY DEF Writes, Written, Store
<1>3. Stays /\ Storage'
  BY <1>1, <1>2, JobWrites
<1>4. profiles'[worker.session] = p
  BY <1>2, WritesIs, JobHas
<1>5. Job'
  BY <1>1, <1>3, <1>4, JobHas, StoredIs DEF Job, Stays
<1>. QED
  BY <1>3, <1>5, JobGoesOn

LEMMA FailureKept ==
    ASSUME StudioInv, worker # NoJob, UNCHANGED <<page, valid>>,
           NEW voice \in Take, JobEnds("failed", voice),
           NEW p \in ProfileState, Store(p), p.confirmed = Stored.confirmed,
           \A r \in Recordings(p) : r \in Recordings(Stored) \cup {Nobody},
           Intact(NoJob, worker.session, p)
    PROVE  StudioInv'
<1>1. worker' = NoJob
  BY DEF JobEnds
<1>2. Writes(p, {})
  BY DEF Writes, Written, Store
<1>3. Stays /\ Storage'
  BY <1>1, <1>2, JobWrites
<1>. QED
  BY <1>3, JobOver

LEMMA SaveProfileKept == ASSUME StudioInv, SaveProfile PROVE StudioInv'
<1>. DEFINE p == [Stored EXCEPT !.old = Nobody, !.new = worker.voice]
            q == [Stored EXCEPT !.old = Nobody, !.new = Nobody]
<1>1. worker # NoJob /\ worker.stage = "save" /\ UNCHANGED <<page, valid>>
  BY Constants DEF SaveProfile
<1>2. /\ Stored \in ProfileState /\ Intact(worker, worker.session, Stored)
      /\ worker.voice \in Take /\ worker.kind = "enroll"
  BY <1>1, StoredIs, JobHas DEF Kind
<1>3. /\ p \in ProfileState /\ p.root = Stored.root /\ p.old = Nobody /\ p.new = worker.voice
      /\ p.confirmed = Stored.confirmed /\ p.gone = Stored.gone
      /\ q \in ProfileState /\ q.root = Stored.root /\ q.old = Nobody /\ q.new = Nobody
      /\ q.confirmed = Stored.confirmed /\ q.gone = Stored.gone
  BY <1>2, Constants DEF ProfileState
<1>4. CASE Store(p) /\ Goes("staged")
  <2>. HIDE DEF p
  <2>1. Intact(worker', worker.session, p)
    BY <1>1, <1>2, <1>3, <1>4, Staged DEF Intact
  <2>. QED
    BY <1>1, <1>2, <1>3, <1>4, <2>1, StepKept DEF Recordings
<1>5. CASE Store(q) /\ JobEnds("failed", worker.voice)
  <2>. HIDE DEF q
  <2>1. Intact(NoJob, worker.session, q)
    BY <1>1, <1>2, <1>3, Constants DEF Intact
  <2>. QED
    BY <1>1, <1>2, <1>3, <1>5, <2>1, FailureKept DEF Recordings
<1>. QED
  BY <1>4, <1>5 DEF SaveProfile

LEMMA BackUpKept == ASSUME StudioInv, BackUp PROVE StudioInv'
<1>. DEFINE p == [Stored EXCEPT !.old = Stored.root, !.root = Nobody]
<1>1. worker # NoJob /\ worker.stage = "staged" /\ UNCHANGED <<page, valid>>
  BY Constants DEF BackUp
<1>2. /\ Stored \in ProfileState /\ Intact(worker, worker.session, Stored)
      /\ worker.voice \in Take /\ worker.kind = "enroll" /\ Stored.new = worker.voice
      /\ profiles = Written(Stored)
  BY <1>1, StoredIs, JobHas DEF Kind
<1>3. /\ p \in ProfileState /\ p.root = Nobody /\ p.old = Stored.root /\ p.new = Stored.new
      /\ p.confirmed = Stored.confirmed /\ p.gone = Stored.gone
  BY <1>2, Constants DEF ProfileState
<1>4. CASE Store(p) /\ Goes("moved")
  <2>. HIDE DEF p
  <2>1. Intact(worker', worker.session, p)
    BY <1>1, <1>2, <1>3, <1>4, Staged DEF Intact
  <2>. QED
    BY <1>1, <1>2, <1>3, <1>4, <2>1, StepKept DEF Recordings
<1>5. CASE JobEnds("failed", worker.voice) /\ UNCHANGED profiles
  <2>1. Intact(NoJob, worker.session, Stored)
    BY <1>1, <1>2, Constants DEF Intact
  <2>2. Store(Stored)
    BY <1>2, <1>5 DEF Store, Written
  <2>. QED
    BY <1>1, <1>2, <1>5, <2>1, <2>2, FailureKept
<1>. QED
  BY <1>4, <1>5 DEF BackUp

LEMMA ReplaceKept == ASSUME StudioInv, Replace PROVE StudioInv'
<1>. DEFINE p == [Stored EXCEPT !.root = Stored.new, !.new = Nobody]
            q == RollBack(Stored)
            r == [Stored EXCEPT !.gone = TRUE]
<1>1. worker # NoJob /\ worker.stage = "moved" /\ UNCHANGED <<page, valid>>
  BY Constants DEF Replace
<1>2. /\ Stored \in ProfileState /\ Intact(worker, worker.session, Stored)
      /\ worker.voice \in Take /\ worker.kind = "enroll" /\ Stored.new = worker.voice
      /\ Stored.confirmed <= worker.voice.n /\ Stored.confirmed \in Nat
      /\ worker.voice.n \in Nat
  BY <1>1, StoredIs, JobHas DEF Kind
<1>3. /\ p \in ProfileState /\ p.root = worker.voice /\ p.old = Stored.old /\ p.new = Nobody
      /\ p.confirmed = Stored.confirmed /\ p.gone = Stored.gone
  BY <1>2, Constants DEF ProfileState
<1>4. /\ q \in ProfileState /\ q.root = Stored.old /\ q.old = Nobody /\ q.new = Stored.new
      /\ q.confirmed = Stored.confirmed /\ q.gone = Stored.gone
  BY <1>2, Constants DEF ProfileState, RollBack
<1>5. /\ r \in ProfileState /\ r.root = Stored.root /\ r.old = Stored.old /\ r.new = Stored.new
      /\ r.confirmed = Stored.confirmed /\ r.gone = TRUE
  BY <1>2 DEF ProfileState
<1>. HIDE DEF p, q, r
<1>6. CASE Store(p) /\ Goes("saved")
  <2>1. p.root.n >= p.confirmed
    BY <1>2, <1>3
  <2>2. Intact(worker', worker.session, p)
    BY <1>1, <1>6, <2>1, Staged DEF Intact
  <2>. QED
    BY <1>1, <1>2, <1>3, <1>6, <2>2, StepKept DEF Recordings
<1>7. CASE Store(q) /\ JobEnds("failed", worker.voice)
  <2>1. Intact(NoJob, worker.session, q)
    BY <1>1, <1>2, <1>4, Constants DEF Intact
  <2>. QED
    BY <1>1, <1>2, <1>4, <1>7, <2>1, FailureKept DEF Recordings
<1>8. CASE Store(r) /\ JobEnds("failed", worker.voice)
  <2>1. Intact(NoJob, worker.session, r)
    BY <1>1, <1>2, <1>5, Constants DEF Intact
  <2>. QED
    BY <1>1, <1>2, <1>5, <1>8, <2>1, FailureKept DEF Recordings
<1>. QED
  BY <1>6, <1>7, <1>8 DEF Replace, p, q, r

(* The newest recording is confirmed, and no other profile made older by it.           *)
LEMMA PruneStorageKept == ASSUME StudioInv, PruneStorage PROVE StudioInv'
<1>. DEFINE p == [Stored EXCEPT !.old = Nobody]
            q == [p EXCEPT !.confirmed = worker.voice.n, !.gone = FALSE]
            others == DOMAIN profiles \ {worker.session}
<1>1. worker # NoJob /\ worker.stage = "saved" /\ UNCHANGED <<page, valid>>
  BY Constants DEF PruneStorage
<1>2. /\ Stored \in ProfileState /\ Intact(worker, worker.session, Stored)
      /\ worker.voice \in Take /\ worker.kind = "enroll" /\ Stored.root = worker.voice
      /\ worker.voice.n \in Nat
  BY <1>1, StoredIs, JobHas DEF Kind
<1>3. /\ p \in ProfileState /\ p.root = worker.voice /\ p.old = Nobody /\ p.new = Stored.new
      /\ p.confirmed = Stored.confirmed /\ p.gone = Stored.gone
  BY <1>2, Constants DEF ProfileState
<1>. HIDE DEF p
<1>4. /\ q \in ProfileState /\ q.root = worker.voice /\ q.old = Nobody /\ q.new = Stored.new
      /\ q.confirmed = worker.voice.n
  BY <1>2, <1>3 DEF ProfileState
<1>. HIDE DEF q
<1>5. CASE Prunes(Written(q), others) /\ JobEnds("ok", worker.voice)
  <2>1. worker' = NoJob
    BY <1>5 DEF JobEnds
  <2>2. Writes(q, others)
    BY <1>5, <2>1 DEF Writes, Prunes
  <2>3. Intact(NoJob, worker.session, q)
    BY <1>2, <1>4, Constants DEF Intact
  <2>4. \A r \in Recordings(q) : r \in Recordings(Stored) \cup {Nobody}
    BY <1>2, <1>4 DEF Recordings
  <2>5. Stays /\ Storage'
    BY <1>1, <1>2, <1>4, <2>1, <2>2, <2>3, <2>4, JobWrites
  <2>6. profiles'[worker.session] = q
    BY <1>1, <1>4, <2>2, WritesIs, JobHas
  <2>7. worker.voice.n <= profiles'[worker.session].confirmed
    BY <1>2, <1>4, <2>6
  <2>. QED
    BY <1>1, <1>2, <1>5, <2>5, <2>7, JobOver
<1>6. CASE profiles' = Written(p) /\ JobEnds("failed", worker.voice)
  <2>1. Intact(NoJob, worker.session, p)
    BY <1>1, <1>2, <1>3, Constants DEF Intact
  <2>2. Store(p)
    BY <1>6 DEF Store, Written
  <2>. QED
    BY <1>1, <1>2, <1>3, <1>6, <2>1, <2>2, FailureKept DEF Recordings
<1>. QED
  BY <1>5, <1>6 DEF PruneStorage, Written, p, q

(* What is spoken is spoken with a recording of the visitor, none older than what he     *)
(* knows to be confirmed.                                                          *)
LEMMA SpeakKept == ASSUME StudioInv, Speak PROVE StudioInv'
<1>1. worker # NoJob /\ worker.stage = "speak" /\ UNCHANGED <<page, valid>>
  BY Constants DEF Speak
<1>2. /\ Stored \in ProfileState /\ Intact(worker, worker.session, Stored)
      /\ worker.kind = "synth" /\ profiles = Written(Stored) /\ Stored.root \in Take
  BY <1>1, StoredIs, ProfileIs
<1>3. Intact(NoJob, worker.session, Stored)
  BY <1>1, <1>2, Constants DEF Intact
<1>4. CASE JobEnds("failed", Nobody) /\ UNCHANGED profiles
  <2>1. Store(Stored)
    BY <1>2, <1>4 DEF Store, Written
  <2>. QED
    BY <1>1, <1>2, <1>3, <1>4, <2>1, FailureKept, Constants
<1>5. CASE /\ Prunes(profiles, DOMAIN profiles)
           /\ JobEnds(IF profiles'[worker.session].root = Nobody THEN "failed" ELSE "ok", Stored.root)
  <2>1. PICK stage \in {"ok", "failed"} :
           stage = IF profiles'[worker.session].root = Nobody THEN "failed" ELSE "ok"
    OBVIOUS
  <2>2. JobEnds(stage, Stored.root) /\ worker' = NoJob
    BY <1>5, <2>1 DEF JobEnds
  <2>3. Writes(Stored, DOMAIN profiles)
    BY <1>2, <1>5, <2>2 DEF Writes, Prunes
  <2>4. Stays /\ Storage'
    BY <1>1, <1>2, <1>3, <2>2, <2>3, JobWrites
  <2>5. ASSUME stage = "ok"
        PROVE  Stored.root.visitor = worker.visitor /\ Stored.root.n >= Stored.confirmed
    <3>1. Stored.root # Nobody
      <4>1. \/ profiles'[worker.session] = Stored
            \/ profiles'[worker.session] = Evicted(Stored)
        BY <1>1, <1>2, <2>3, WritesIs, JobHas
      <4>2. profiles'[worker.session].root # Nobody
        BY <2>1, <2>5
      <4>. QED
        BY <1>2, <4>1, <4>2, EvictedIs
    <3>2. Stored.root.visitor \in Visitor
      BY <1>2, <3>1, TakeIs
    <3>3. Touches(Stored.root.visitor, worker.session)
      BY <1>1, JobHas DEF Touches, Recordings, Stored
    <3>4. Stored.root.visitor = worker.visitor
      BY <1>1, <3>2, <3>3, JobHas DEF StudioInv, Private
    <3>. QED
      BY <1>1, <1>2, <3>1, <3>4 DEF Intact
  <2>. QED
    BY <1>1, <1>2, <2>2, <2>4, <2>5, JobOver DEF Stored
<1>. QED
  BY <1>4, <1>5 DEF Speak, Stored

(* A job that is lost takes with it at most the profile that it was replacing.          *)
LEMMA WorkerStopsKept ==
    ASSUME StudioInv, WorkerStops, worker # NoJob, UNCHANGED <<page, valid>>
    PROVE  StudioInv'
<1>. DEFINE moved == worker.stage = "moved"
            gone  == Stored.gone \/ moved
            p     == [Stored EXCEPT !.gone = @ \/ moved]
<1>1. Stored \in ProfileState /\ Intact(worker, worker.session, Stored)
  BY StoredIs
<1>2. gone \in BOOLEAN /\ p = [Stored EXCEPT !.gone = gone]
  BY <1>1 DEF ProfileState
<1>3. (moved => gone) /\ (Stored.gone => gone)
  OBVIOUS
<1>. HIDE DEF gone
<1>4. /\ p \in ProfileState /\ p.root = Stored.root /\ p.old = Stored.old /\ p.new = Stored.new
      /\ p.confirmed = Stored.confirmed /\ p.gone = gone
  BY <1>1, <1>2 DEF ProfileState
<1>5. Store(p) /\ JobEnds("failed", Nobody)
  BY DEF WorkerStops
<1>. HIDE DEF p
<1>6. Intact(NoJob, worker.session, p)
  <2>1. CASE moved
    BY <1>1, <1>3, <1>4, <2>1, Constants DEF Intact
  <2>2. CASE ~moved
    BY <1>1, <1>3, <1>4, <2>2, Constants DEF Intact
  <2>. QED
    BY <2>1, <2>2
<1>. QED
  BY <1>4, <1>5, <1>6, FailureKept, Constants DEF Recordings

(* The worker takes a request: it is the only one that it works on.                    *)
LEMMA WorkerTakesKept ==
    ASSUME StudioInv, NEW v \in Visitor, NEW k \in Kind, NEW up,
           WorkerTakes(v, k, up)
    PROVE  StudioInv'
<1>. DEFINE c == call[v][k]
            s == c.session
            stage == IF k = "enroll" THEN "save" ELSE "speak"
            job == [visitor |-> v, kind |-> k, session |-> s, voice |-> c.voice, stage |-> stage]
            d == [c EXCEPT !.stage = "working"]
<1>1. /\ c.stage = "forwarded" /\ UNCHANGED <<page, valid, profiles>>
      /\ \/ Turns(v, k, "failed") /\ worker' = worker
         \/ worker = NoJob /\ Turns(v, k, "working") /\ worker' = job
  BY DEF WorkerTakes, SessionProfile
<1>2. CASE Turns(v, k, "failed") /\ worker' = worker
  BY <1>1, <1>2, TurnsKept
<1>3. CASE worker = NoJob /\ Turns(v, k, "working") /\ worker' = job
  <2>0. /\ c \in CallState /\ page[v] \in PageState /\ call \in [Visitor -> [Kind -> CallState]]
        /\ Calling(v, k, c) /\ Enrolling(v, page[v], call[v]["enroll"])
        /\ page[v].made \in Nat
    BY VisitIs, PageIs DEF StudioInv, StudioTyped
  <2>1. /\ d \in CallState /\ d.stage = "working" /\ d.session = s /\ d.voice = c.voice
        /\ d.known = c.known
    BY <2>0 DEF CallState
  <2>2. job \in JobState /\ s \in Nat /\ c.voice \in Take
    BY <2>0 DEF CallState, JobState
  <2>3. call' = [call EXCEPT ![v][k] = d]
    BY <1>3, <2>0 DEF Turns
  <2>4. s \in DOMAIN profiles
    BY <1>1, <2>0 DEF Calling
  <2>5. Touches(v, s)
    BY DEF Touches
  <2>6. /\ job.visitor = v /\ job.kind = k /\ job.session = s /\ job.voice = c.voice
        /\ job.stage = stage /\ stage \in {"save", "speak"}
    OBVIOUS
  <2>7. PICK j \in JobState :
           /\ worker' = j /\ j.visitor = v /\ j.kind = k /\ j.session = s /\ j.voice = c.voice
           /\ j.stage = stage
    BY <1>3, <2>2, <2>6
  <2>. HIDE DEF d, job
  <2>8. /\ call' \in [Visitor -> [Kind -> CallState]]
        /\ \A w \in Visitor, i \in Kind : call'[w][i] = IF w = v /\ i = k THEN d ELSE call[w][i]
    BY <2>0, <2>1, <2>3
  <2>9. StudioTyped'
    BY <1>1, <2>7, <2>8 DEF StudioInv, StudioTyped
  <2>10. ASSUME NEW w \in Visitor, NEW t \in Nat \ {0}, Touches(w, t)' PROVE Touches(w, t)
    <3>1. CASE worker'.visitor = w /\ worker'.session = t
      BY <2>5, <2>7, <3>1
    <3>2. CASE \E i \in Kind : call'[w][i].session = t
      BY <2>1, <2>8, <3>2 DEF Touches
    <3>. QED
      BY <1>1, <2>10, <3>1, <3>2 DEF Touches
  <2>11. Private'
    BY <1>1, <2>10 DEF StudioInv, Private
  <2>12. Newest'
    <3>1. \A t \in DOMAIN profiles : t \in Nat \ {0}
      BY StudioTypes DEF StudioInv
    <3>. QED
      BY <1>1, <2>10, <3>1 DEF StudioInv, Newest, MadeBy, Recordings
  <2>13. k = "enroll" =>
            /\ c.voice.visitor = v /\ c.voice.n = page[v].made
            /\ profiles[s].confirmed <= c.voice.n
    BY <1>1, <2>0, <2>4, <2>5 DEF Enrolling, StudioInv, Newest, MadeBy
  <2>14. Job'
    <3>1. k = "enroll" => c.voice.n <= page[v].made
      BY <2>0, <2>13
    <3>2. k \in {"enroll", "synth"}
      BY DEF Kind
    <3>. QED
      BY <1>1, <2>4, <2>7, <2>13, <3>1, <3>2 DEF Job
  <2>15. Storage'
    <3>1. worker.stage # "moved" /\ worker'.stage # "moved"
      BY <1>3, <2>7, Constants
    <3>. QED
      BY <1>1, <3>1 DEF StudioInv, Storage, Intact
  <2>16. Visits'
    <3>. SUFFICES ASSUME NEW w \in Visitor
                  PROVE  /\ Enrolling(w, page[w], call'[w]["enroll"])
                         /\ \A i \in Kind : Calling(w, i, call[w][i])'
                         /\ Told(w, page[w])'
      BY <1>1 DEF Visits, Enrolling
    <3>1. Enrolling(w, page[w], call'[w]["enroll"])
      BY <1>1, <2>1, <2>8, VisitIs DEF Enrolling
    <3>2. Told(w, page[w])'
      BY <1>1, VisitIs DEF Told, Confirmed
    <3>3. ASSUME NEW i \in Kind PROVE Calling(w, i, call[w][i])'
      <4>1. CASE w = v /\ i = k
        <5>1. call'[w][i] = d
          BY <2>8, <4>1
        <5>2. k = "synth" => Confirmed(s, c.known)
          BY <2>0 DEF Calling
        <5>. QED
          BY <1>1, <2>1, <2>4, <2>7, <4>1, <5>1, <5>2 DEF Calling, Confirmed
      <4>2. CASE ~(w = v /\ i = k)
        <5>1. call'[w][i] = call[w][i]
          BY <2>8, <4>2
        <5>2. Calling(w, i, call[w][i])
          BY VisitIs
        <5>3. call[w][i].stage # "working"
          BY <1>3, <5>2, Constants, VisitorAssumption DEF Calling
        <5>. QED
          BY <1>1, <5>1, <5>2, <5>3 DEF Calling, Confirmed
      <4>. QED
        BY <4>1, <4>2
    <3>. QED
      BY <3>1, <3>2, <3>3
  <2>. QED
    BY <2>9, <2>11, <2>12, <2>14, <2>15, <2>16 DEF StudioInv
<1>. QED
  BY <1>1, <1>2, <1>3

(* The worker has nothing to do, and removes a profile: what was confirmed of it stays so, *)
(* and it is known to be gone.                                                      *)
LEMMA CleanupKept ==
    ASSUME StudioInv, NEW up, Cleanup(up) PROVE StudioInv'
<1>1. worker = NoJob /\ UNCHANGED <<page, call, valid, worker>>
  BY DEF Cleanup
<1>2. PICK s \in DOMAIN profiles : profiles' = [profiles EXCEPT ![s] = Evicted(@)]
  BY DEF Cleanup
<1>3. /\ profiles \in Seq(ProfileState)
      /\ \A t \in DOMAIN profiles : t \in Nat \ {0} /\ profiles[t] \in ProfileState
  BY StudioTypes DEF StudioInv, StudioTyped
<1>4. PICK e \in ProfileState : e = Evicted(profiles[s])
  BY <1>3, EvictedIs
<1>5. /\ e.confirmed = profiles[s].confirmed
      /\ \A r \in Recordings(e) : r \in Recordings(profiles[s]) \cup {Nobody}
      /\ Intact(NoJob, s, e)
  BY <1>3, <1>4, EvictedIs, EvictedIntact, Constants
<1>6. profiles' = [profiles EXCEPT ![s] = e]
  BY <1>2, <1>4
<1>7. /\ profiles' \in Seq(ProfileState) /\ DOMAIN profiles' = DOMAIN profiles
      /\ \A t \in DOMAIN profiles : profiles'[t] = IF t = s THEN e ELSE profiles[t]
  BY <1>3, <1>6
<1>8. \A t \in DOMAIN profiles :
         /\ profiles'[t].confirmed = profiles[t].confirmed
         /\ \A r \in Recordings(profiles'[t]) : r \in Recordings(profiles[t]) \cup {Nobody}
  BY <1>5, <1>7
<1>9. StudioTyped'
  BY <1>1, <1>7 DEF StudioInv, StudioTyped
<1>10. ASSUME NEW w \in Visitor, NEW t \in Nat \ {0}, Touches(w, t)' PROVE Touches(w, t)
  <2>1. CASE t \in DOMAIN profiles' /\ \E r \in Recordings(profiles'[t]) : r.visitor = w
    BY <1>7, <1>8, <2>1, Constants, VisitorAssumption DEF Touches
  <2>2. CASE ~(t \in DOMAIN profiles' /\ \E r \in Recordings(profiles'[t]) : r.visitor = w)
    BY <1>1, <1>10, <2>2 DEF Touches
  <2>. QED
    BY <2>1, <2>2
<1>11. Private'
  BY <1>7, <1>10 DEF StudioInv, Private
<1>12. Newest'
  <2>. SUFFICES ASSUME NEW w \in Visitor, NEW t \in DOMAIN profiles, Touches(w, t)
                PROVE  MadeBy(profiles'[t], page[w].made)
    BY <1>1, <1>3, <1>7, <1>10 DEF Newest, MadeBy, Recordings
  <2>1. MadeBy(profiles[t], page[w].made) /\ page[w].made \in Nat
    BY VisitIs, PageIs DEF StudioInv, Newest
  <2>. QED
    BY <1>8, <2>1, Constants DEF MadeBy
<1>13. Visits'
  BY <1>1, <1>7, <1>8 DEF StudioInv, Visits, Enrolling, Calling, Told, Confirmed
<1>14. Job'
  BY <1>1 DEF Job
<1>15. Storage'
  BY <1>1, <1>5, <1>7 DEF StudioInv, Storage, Intact
<1>. QED
  BY <1>9, <1>11, <1>12, <1>13, <1>14, <1>15 DEF StudioInv

-----------------------------------------------------------------------------
LEMMA StudioAtFirst == ASSUME StudioInit PROVE StudioInv
<1>1. /\ worker = NoJob /\ valid = {} /\ profiles = <<>>
      /\ \A v \in Visitor : page[v] = Closed /\ \A k \in Kind : call[v][k] = NoCall
  BY DEF StudioInit
<1>2. /\ Closed \in PageState /\ Closed.session = 0 /\ Closed.saved = NoSaved
      /\ Closed.known = [session |-> 0, n |-> 0] /\ Closed.creating = "none"
      /\ Closed.result = Nobody
  BY Constants DEF Closed, Fresh, PageState, Callers
<1>3. StudioTyped
  BY <1>1, <1>2, Constants DEF StudioInit, StudioTyped
<1>4. \A v \in Visitor, s \in Nat \ {0} : ~Touches(v, s)
  BY <1>1, <1>2, Constants DEF Touches
<1>5. Visits
  <2>1. "enroll" \in Kind
    BY DEF Kind
  <2>. QED
    BY <1>1, <1>2, <2>1, Constants DEF Visits, Enrolling, Calling, Told, Confirmed
<1>. QED
  BY <1>1, <1>3, <1>4, <1>5 DEF StudioInv, Private, Newest, Job, Storage

LEMMA StudioUnchanged == ASSUME StudioInv, UNCHANGED studioVars PROVE StudioInv'
BY DEF StudioInv, StudioTyped, Private, Touches, Newest, Visits, Enrolling, Calling, Told, Confirmed,
       Job, Storage, Intact, studioVars, MadeBy, Recordings

LEMMA StudioStep == ASSUME StudioInv, [Next]_vars PROVE StudioInv'
<1>1. CASE UNCHANGED vars
  BY <1>1, StudioUnchanged DEF vars
<1>2. CASE Console
  <2>1. CASE UNCHANGED studioVars
    BY <2>1, StudioUnchanged
  <2>2. CASE WorkerStops /\ UNCHANGED <<page, valid>>
    <3>1. CASE worker = NoJob
      BY <2>2, <3>1, StudioUnchanged DEF WorkerStops, studioVars
    <3>2. CASE worker # NoJob
      BY <2>2, <3>2, WorkerStopsKept
    <3>. QED
      BY <3>1, <3>2
  <2>. QED
    BY <1>2, <2>1, <2>2 DEF Console
<1>3. CASE Studio
  <2>. DEFINE up == hub.voice
  <2>1. CASE Work
    BY <2>1, SaveProfileKept, BackUpKept, ReplaceKept, PruneStorageKept, SpeakKept DEF Work
  <2>2. CASE Crash
    BY <2>2, WorkerStopsKept DEF Crash
  <2>3. CASE Cleanup(up)
    BY <2>3, CleanupKept
  <2>4. CASE Expires
    BY <2>4, ExpiresKept
  <2>5. ASSUME NEW v \in Visitor,
               \/ SessionCreated(v) \/ MicGranted(v) \/ StopRecording(v) \/ RecorderStops(v)
               \/ Encoded(v) \/ Enrolled(v) \/ Synthesized(v)
               \/ Visit(v) \/ StartRecording(v) \/ Synthesize(v)
               \/ TracksEnd(v) \/ SessionFails(v) \/ CallFails(v)
        PROVE  StudioInv'
    BY <2>5, SessionCreatedKept, RecorderKept, StopKept, EncodedKept, EnrolledKept,
       SynthesizedKept, VisitKept, SynthesizeKept, SessionFailsKept, CallFailsKept
  <2>6. ASSUME NEW v \in Visitor, NEW k \in Kind, HubTakes(v, k) \/ WorkerTakes(v, k, up)
        PROVE  StudioInv'
    BY <2>6, HubTakesKept, WorkerTakesKept
  <2>. QED
    BY <1>3, <2>1, <2>2, <2>3, <2>4, <2>5, <2>6 DEF Studio, StudioNext, GoesOn
<1>. QED
  BY <1>1, <1>2, <1>3 DEF Next

LEMMA StudioAlways == Spec => []StudioInv
<1>1. Init => StudioInv
  BY StudioAtFirst DEF Init
<1>2. StudioInv /\ [Next]_vars => StudioInv'
  BY StudioStep
<1>. QED
  BY <1>1, <1>2, PTL DEF Spec

(* A session, what its pages and requests name and what the worker keeps of it,      *)
(* belongs to one visitor, however the sessions of the pages expire and are replaced   *)
(* (VoiceStudio::session_profile).                                               *)
THEOREM SessionsArePrivate == Spec => []Private
<1>1. StudioInv => Private
  BY DEF StudioInv
<1>. QED
  BY StudioAlways, <1>1, PTL

(* What a visitor hears was spoken with a recording of his own, none older than the    *)
(* last one that was confirmed to him when he asked, for any visitors, sessions and     *)
(* budgets (VoiceStudio::session_profile, save_profile, synthesize_cached).          *)
THEOREM VoiceIsHisOwn == Spec => []OwnVoice
<1>1. StudioInv => OwnVoice
  BY DEF StudioInv, Visits, Told, OwnVoice
<1>. QED
  BY StudioAlways, <1>1, PTL

(* A recording that the worker confirmed is kept until a newer one is in its place,     *)
(* but for a crash between the two renames of save_profile and the limit of the storage. *)
THEOREM ProfileIsKept == Spec => []ProfileKept
<1>1. StudioInv => ProfileKept
  BY DEF StudioInv, Storage, Intact, ProfileKept
<1>. QED
  BY StudioAlways, <1>1, PTL
=============================================================================
