---------------------------- MODULE VoiceConsole ----------------------------
(***************************************************************************)
(* The voice view of the hub page (web-src/static/app.js): the remote        *)
(* control of the air conditioner and its verification, the infrared, voice   *)
(* and TTS services, the model assets, a transcription, and the recording of  *)
(* the reference of the voice profile.                                      *)
(*                                                                         *)
(* Every operation sets a flag of its area, disables buttons, sends a         *)
(* request, takes the flag back and calls loadVoice(), which shows the state  *)
(* of the hub and enables the buttons by the flags of that moment.  loadVoice *)
(* gives way when it is already under way, for whoever called it.            *)
(*                                                                         *)
(* Of the hub there is what the areas show: how many commands were carried    *)
(* out, the verified capabilities and the gate of the external interface,     *)
(* which workers run, the asset and the revision of the profile.             *)
(***************************************************************************)
EXTENDS Budget, FiniteSets

CONSTANT Capability  \* the commands of the remote that have to be verified

(* What is bounded: the operations of each area, and of transcribe and profile,   *)
(* requests that fail (failures), commands from elsewhere (others), coming to the *)
(* view and leaving it (views).                                             *)
Area == {"aircon", "ir", "services", "assets"}

VARIABLES
    hub,        \* the state of the hub the view shows
    shown,      \* the state shown last
    open,       \* the voice view is the one shown
    load,       \* loadVoice: state.voiceBusy, and its answer
    assetLoad,  \* loadVoiceAssets: state.voiceAssetsBusy for it, and its answer
    flag,       \* state.airconBusy, irBusy, voiceServicesBusy, voiceAssetsBusy
    off,        \* the buttons of an area are disabled until the next rendering
    op,         \* the operation of an area that is under way
    pending,    \* state.airconPendingVerification
    tried,      \* history: the last command the remote tried, and its success
    transcribe, \* state.transcribeBusy, and where the transcription is
    profile,    \* state.voiceProfileBusy, and what it stands for
    recorder,   \* state.voiceRecorder: none, one in use, or one that never started
    mic         \* the tracks of the microphone are live

consoleVars == <<hub, shown, open, load, assetLoad, flag, off, op, pending, tried,
                 transcribe, profile, recorder, mic>>

(* The operations, and what uses the microphone.                             *)
Ops   == <<flag, off, op, pending, tried>>
Sound == <<transcribe, profile, recorder, mic>>

None  == "none"
NoOp  == [stage |-> "none", kind |-> None, cap |-> None]
Quiet == [stage |-> "idle", seen |-> None]

(* The capabilities that were verified before are stored in the hub: all, or none. *)
ConsoleInit ==
    /\ hub \in [commands : {0}, verified : {{}, Capability}, gate : {FALSE}, ir : {TRUE},
               voice : {TRUE}, asset : {"missing"}, profile : {0}]
    /\ shown = hub /\ open = FALSE
    /\ load = Quiet /\ assetLoad = Quiet
    /\ flag = [a \in Area |-> FALSE] /\ off = flag
    /\ op = [a \in Area |-> NoOp]
    /\ pending = None /\ tried = [cap |-> None, ok |-> FALSE]
    /\ transcribe = "idle" /\ profile = "idle" /\ recorder = "none" /\ mic = FALSE

-----------------------------------------------------------------------------
(* Loading.  The areas render by the flags of that moment; the install buttons *)
(* by the asset alone.                                                      *)
Installing == shown.asset = "installing"

LoadVoice ==
    IF load.stage = "idle" THEN load' = [Quiet EXCEPT !.stage = "asked"] ELSE UNCHANGED load

LoadVoiceAssets ==
    IF load.stage = "idle" /\ assetLoad.stage = "idle" /\ ~ flag'["assets"]
    THEN assetLoad' = [Quiet EXCEPT !.stage = "asked"]
    ELSE UNCHANGED assetLoad

(* The timers of the view.                                                  *)
Poll ==
    /\ open /\ load.stage = "idle" /\ LoadVoice
    /\ UNCHANGED <<hub, shown, open, assetLoad, Ops, Sound, left>>

PollAssets ==
    /\ open /\ Installing
    /\ UNCHANGED flag /\ LoadVoiceAssets
    /\ UNCHANGED <<hub, shown, open, load, off, op, pending, tried, Sound, left>>

(* The user comes to the view, which loads it, or leaves it.                  *)
ActivateView ==
    /\ Spend("views") /\ open' = ~ open
    /\ IF open' THEN LoadVoice ELSE UNCHANGED load
    /\ UNCHANGED <<hub, shown, assetLoad, Ops, Sound>>

HubReads ==
    /\ \/ /\ load.stage = "asked" /\ load' = [stage |-> "answered", seen |-> hub]
          /\ UNCHANGED assetLoad
       \/ /\ assetLoad.stage = "asked"
          /\ assetLoad' = [stage |-> "answered", seen |-> [shown EXCEPT !.asset = hub.asset]]
          /\ UNCHANGED load
    /\ UNCHANGED <<hub, shown, open, Ops, Sound, left>>

RenderVoiceAssets(body)   == body.asset = "installing"
RenderVoiceServices(body) == flag["services"] \/ body.asset = "installing"
RenderIr                  == flag["ir"]
RenderAircon(body)        == flag["aircon"] \/ ~ body.ir

(* The buttons of each area after body is shown.                             *)
Disabled(body) ==
    [a \in Area |-> CASE a = "aircon"   -> RenderAircon(body)
                      [] a = "ir"       -> RenderIr
                      [] a = "services" -> RenderVoiceServices(body)
                      [] a = "assets"   -> RenderVoiceAssets(body)]

(* The form part of renderVoice, without effect here, is left to Panels; the    *)
(* revision of the profile is shown while there is no recorder and nothing is    *)
(* done to it.                                                              *)
LoadAnswered ==
    /\ load.stage = "answered"
    /\ shown' = [load.seen EXCEPT !.profile = IF profile = "idle" /\ recorder = "none" THEN @ ELSE shown.profile]
    /\ off' = Disabled(load.seen)
    /\ load' = Quiet
    /\ UNCHANGED <<hub, open, assetLoad, flag, op, pending, tried, Sound, left>>

(* renderVoiceAssets() shows only the assets.  An installation that was under   *)
(* way and is over makes the view load everything.                          *)
AssetsAnswered ==
    LET asset == assetLoad.seen.asset
    IN  /\ assetLoad.stage = "answered"
        /\ shown' = [shown EXCEPT !.asset = asset]
        /\ off' = [off EXCEPT !["assets"] = RenderVoiceAssets(assetLoad.seen)]
        /\ assetLoad' = Quiet
        /\ IF Installing /\ asset # "installing" THEN LoadVoice ELSE UNCHANGED load
        /\ UNCHANGED <<hub, open, flag, op, pending, tried, Sound, left>>

(* Mutation: a load that fails keeps its flag.                               *)
Failed_Busy(l) == [l EXCEPT !.stage = "failed"]

(* A load that fails takes back its flag and shows nothing.                   *)
Failed(l) == Quiet

LoadFails ==
    /\ Spend("failures")
    /\ \/ load.stage # "idle" /\ load' = Failed(load) /\ UNCHANGED assetLoad
       \/ assetLoad.stage # "idle" /\ assetLoad' = Failed(assetLoad) /\ UNCHANGED load
    /\ UNCHANGED <<hub, shown, open, Ops, Sound>>

-----------------------------------------------------------------------------
(* Operations.  Begin is what they have in common; the buttons of some stay as  *)
(* they are until the next rendering.                                       *)
Sent(kind, cap) == [stage |-> "sent", kind |-> kind, cap |-> cap]

Begin(a, request) ==
    /\ open /\ Spend(a)
    /\ ~ flag[a] /\ flag' = [flag EXCEPT ![a] = TRUE]
    /\ op' = [op EXCEPT ![a] = request]

Disable(a) == off' = [off EXCEPT ![a] = TRUE]

(* Mutation: an earlier command may still be confirmed after a later one.      *)
SendAirconRemoteCommand_Keeps(cap) ==
    /\ shown.ir /\ ~ off["aircon"]
    /\ Begin("aircon", Sent("remote", cap)) /\ Disable("aircon")
    /\ tried' = [cap |-> cap, ok |-> FALSE] /\ UNCHANGED pending

(* A command of the remote: what was to be confirmed before is not any more.    *)
SendAirconRemoteCommand(cap) ==
    /\ shown.ir /\ ~ off["aircon"]
    /\ Begin("aircon", Sent("remote", cap)) /\ Disable("aircon")
    /\ pending' = None
    /\ tried' = [cap |-> cap, ok |-> FALSE]

(* The user has looked at the air conditioner.                              *)
UpdateAirconVerification(verified) ==
    /\ pending # None
    /\ Begin("aircon", Sent(IF verified THEN "pass" ELSE "fail", pending))
    /\ UNCHANGED <<off, pending, tried>>

ResetAirconVerification(cap) ==
    /\ cap \in shown.verified
    /\ Begin("aircon", Sent("reset", cap)) /\ UNCHANGED <<off, pending, tried>>

SetAirconIntegration(enabled) ==
    /\ IF enabled THEN shown.verified = Capability ELSE shown.gate
    /\ Begin("aircon", Sent(IF enabled THEN "enable" ELSE "disable", None))
    /\ UNCHANGED <<off, pending, tried>>

SubmitAirconCommand ==
    /\ ~ off["aircon"]
    /\ Begin("aircon", Sent("command", None)) /\ Disable("aircon")
    /\ UNCHANGED <<pending, tried>>

SubmitAirconTimer ==
    /\ ~ off["aircon"]
    /\ Begin("aircon", Sent("schedule", None)) /\ UNCHANGED <<off, pending, tried>>

CancelAirconSchedule ==
    Begin("aircon", Sent("schedule", None)) /\ UNCHANGED <<off, pending, tried>>

RotateAirconToken ==
    /\ shown.gate
    /\ Begin("aircon", Sent("rotate", None)) /\ UNCHANGED <<off, pending, tried>>

(* The running of a worker is changed; an autostart changes nothing shown here.  *)
ControlIrService ==
    /\ ~ off["ir"]
    /\ Begin("ir", Sent("toggle", None)) /\ Disable("ir") /\ UNCHANGED <<pending, tried>>

SetIrAutostart ==
    /\ ~ off["ir"]
    /\ Begin("ir", Sent("autostart", None)) /\ UNCHANGED <<off, pending, tried>>

ControlVoiceService ==
    /\ ~ off["services"]
    /\ Begin("services", Sent("toggle", None)) /\ Disable("services")
    /\ UNCHANGED <<pending, tried>>

SetVoiceServiceAutostart ==
    /\ ~ off["services"]
    /\ Begin("services", Sent("autostart", None)) /\ Disable("services")
    /\ UNCHANGED <<pending, tried>>

InstallVoiceAsset ==
    /\ ~ Installing /\ assetLoad.stage = "idle" /\ ~ off["assets"]
    /\ Begin("assets", Sent("install", None)) /\ Disable("assets")
    /\ UNCHANGED <<pending, tried>>

Operate ==
    /\ \/ \E cap \in Capability : SendAirconRemoteCommand(cap) \/ ResetAirconVerification(cap)
       \/ \E verified, enabled \in BOOLEAN :
             UpdateAirconVerification(verified) \/ SetAirconIntegration(enabled)
       \/ SubmitAirconCommand \/ SubmitAirconTimer \/ CancelAirconSchedule
       \/ RotateAirconToken \/ ControlIrService \/ SetIrAutostart
       \/ ControlVoiceService \/ SetVoiceServiceAutostart \/ InstallVoiceAsset
    /\ UNCHANGED <<hub, shown, open, load, assetLoad, Sound>>

(* What the hub accepts, and what it then does.                             *)
Accepts(r) ==
    CASE r.kind \in {"remote", "command"} -> hub.ir
      [] r.kind = "enable"                -> hub.verified = Capability
      [] r.kind = "rotate"                -> hub.gate
      [] r.kind = "install"               -> hub.asset # "installing"
      [] OTHER                            -> TRUE

(* Mutation: a capability that is reset leaves the interface open.            *)
UpdateVerification_Open(r) ==
    IF r.kind = "pass"
    THEN [hub EXCEPT !.verified = @ \cup {r.cap}]
    ELSE [hub EXCEPT !.verified = @ \ {r.cap}]

UpdateVerification(r) ==
    IF r.kind = "pass"
    THEN [hub EXCEPT !.verified = @ \cup {r.cap}]
    ELSE [hub EXCEPT !.verified = @ \ {r.cap}, !.gate = FALSE]

Carried(a, r) ==
    CASE r.kind \in {"remote", "command"}  -> [hub EXCEPT !.commands = @ + 1]
      [] r.kind \in {"pass", "fail", "reset"} -> UpdateVerification(r)
      [] r.kind \in {"enable", "disable"}  -> [hub EXCEPT !.gate = (r.kind = "enable")]
      [] r.kind = "toggle" /\ a = "ir"     -> [hub EXCEPT !.ir = ~ @]
      [] r.kind = "toggle" /\ a # "ir"     -> [hub EXCEPT !.voice = ~ @]
      [] r.kind = "install"                -> [hub EXCEPT !.asset = "installing"]
      [] OTHER                             -> hub

HubHandles(a) ==
    /\ op[a].stage = "sent"
    /\ op' = [op EXCEPT ![a].stage = IF Accepts(op[a]) THEN "done" ELSE "refused"]
    /\ hub' = IF Accepts(op[a]) THEN Carried(a, op[a]) ELSE hub
    /\ UNCHANGED <<shown, open, load, assetLoad, flag, off, pending, tried, Sound, left>>

(* A success: what the remote sent is to be confirmed, a confirmation is over.  *)
Success(r) ==
    /\ pending' = CASE r.kind = "remote"           -> r.cap
                    [] r.kind \in {"pass", "fail"} -> None
                    [] OTHER                       -> pending
    /\ tried' = IF r.kind = "remote" THEN [tried EXCEPT !.ok = TRUE] ELSE tried

(* An answer, a refusal or a lost request; the flag is taken back and loadVoice  *)
(* called.                                                                  *)
Operated(a) ==
    /\ a # "assets"
    /\ \/ op[a].stage = "done" /\ Success(op[a]) /\ UNCHANGED left
       \/ op[a].stage = "refused" /\ UNCHANGED <<pending, tried, left>>
       \/ op[a].stage \in {"sent", "done"} /\ Spend("failures") /\ UNCHANGED <<pending, tried>>
    /\ op' = [op EXCEPT ![a] = NoOp] /\ flag' = [flag EXCEPT ![a] = FALSE]
    /\ LoadVoice
    /\ UNCHANGED <<hub, shown, open, assetLoad, off, Sound>>

(* The handler of an installation waits for the load that follows a success; at  *)
(* its end it loads the assets, unless a load is under way.                 *)
InstallAnswered ==
    /\ op["assets"].stage = "done" /\ load.stage = "idle"
    /\ LoadVoice
    /\ op' = [op EXCEPT !["assets"].stage = "loading"]
    /\ UNCHANGED <<hub, shown, open, assetLoad, flag, off, pending, tried, Sound, left>>

InstallEnds ==
    /\ \/ /\ UNCHANGED left
          /\ \/ op["assets"].stage = "loading" /\ load.stage = "idle"
             \/ op["assets"].stage = "done" /\ load.stage # "idle"
             \/ op["assets"].stage = "refused"
       \/ op["assets"].stage \in {"sent", "done"} /\ Spend("failures")
    /\ op' = [op EXCEPT !["assets"] = NoOp] /\ flag' = [flag EXCEPT !["assets"] = FALSE]
    /\ LoadVoiceAssets
    /\ UNCHANGED <<hub, shown, open, load, off, pending, tried, Sound>>

(* Elsewhere: a command of the voice worker, and an installation that ends.    *)
HubChanges ==
    /\ \/ Spend("others") /\ hub' = [hub EXCEPT !.commands = @ + 1]
       \/ /\ hub.asset = "installing" /\ UNCHANGED left
          /\ hub' = [hub EXCEPT !.asset = "installed"]
    /\ UNCHANGED <<shown, open, load, assetLoad, Ops, Sound>>

-----------------------------------------------------------------------------
(* A transcription: the view loads every 1.2 s until its window is over.       *)
RequestVoiceTranscription ==
    /\ open /\ transcribe = "idle" /\ Spend("transcribe")
    /\ transcribe' = "sent"
    /\ UNCHANGED <<hub, shown, open, load, assetLoad, Ops, profile, recorder, mic>>

Transcribing ==
    /\ \/ transcribe = "sent" /\ transcribe' = "polling" /\ UNCHANGED <<load, left>>
       \/ transcribe = "sent" /\ Spend("failures") /\ transcribe' = "idle" /\ LoadVoice
       \/ transcribe = "polling" /\ transcribe' \in {"polling", "idle"} /\ LoadVoice
          /\ UNCHANGED left
    /\ UNCHANGED <<hub, shown, open, assetLoad, Ops, profile, recorder, mic>>

-----------------------------------------------------------------------------
(* The reference of the voice profile: the browser asks for the microphone, the  *)
(* recorder runs until the user, the timer of 15 s or the end of the tracks     *)
(* stops it, and its stop event has the recording encoded and enrolled.        *)
Recording(stage) == profile' = stage /\ UNCHANGED <<hub, open, assetLoad, Ops, transcribe>>

StartVoiceReferenceRecording ==
    /\ open /\ profile = "idle" /\ Spend("profile")
    /\ Recording("asking") /\ UNCHANGED <<shown, load, recorder, mic>>

(* Mutation: the tracks are only stopped where a recording is uploaded.         *)
Granted_Leaks ==
    \/ Recording("recording") /\ recorder' = "used" /\ mic' = TRUE /\ UNCHANGED left
    \/ Spend("failures") /\ Recording("idle") /\ mic' \in BOOLEAN
       /\ (UNCHANGED recorder \/ recorder' = "unstarted")

(* Permission is given and the recorder starts; or permission is refused; or the   *)
(* recorder is there and does not start, and state.voiceRecorder keeps it.       *)
Granted ==
    \/ Recording("recording") /\ recorder' = "used" /\ mic' = TRUE /\ UNCHANGED left
    \/ Spend("failures") /\ Recording("idle") /\ mic' = FALSE
       /\ (UNCHANGED recorder \/ recorder' = "unstarted")

Asked == profile = "asking" /\ Granted /\ UNCHANGED <<shown, load>>

StopVoiceReferenceRecording ==
    /\ profile = "recording"
    /\ Recording("stopped") /\ UNCHANGED <<shown, load, recorder, mic, left>>

UploadVoiceReference ==
    /\ profile = "stopped"
    /\ Recording("enrolling") /\ mic' = FALSE /\ UNCHANGED <<shown, load, recorder, left>>

DeleteVoiceReference ==
    /\ open /\ profile = "idle" /\ shown.profile # 0 /\ Spend("profile")
    /\ Recording("deleting") /\ UNCHANGED <<shown, load, recorder, mic>>

(* The hub has the TTS worker replace or delete the profile, and only then counts  *)
(* it; a worker that is stopped, or not free, refuses.                        *)
HubProfile(free) ==
    /\ profile \in {"enrolling", "deleting"}
    /\ hub' = IF free
              THEN [hub EXCEPT !.profile = IF profile = "enrolling" THEN @ + 1 ELSE 0]
              ELSE hub
    /\ profile' = IF free THEN "answered" ELSE "refused"
    /\ UNCHANGED <<shown, open, load, assetLoad, Ops, transcribe, recorder, mic, left>>

(* The answer, a refusal, a recording that cannot be decoded, or a request that    *)
(* fails.  An answer brings the document of the hub, whose profile the buttons go  *)
(* by before it is loaded; what its revision does to the form is in Panels.     *)
ProfileAnswered ==
    /\ \/ profile = "answered" /\ shown' = [shown EXCEPT !.profile = hub.profile] /\ UNCHANGED left
       \/ profile = "refused" /\ UNCHANGED <<shown, left>>
       \/ /\ profile \in {"enrolling", "deleting", "answered"} /\ Spend("failures")
          /\ UNCHANGED shown
    /\ recorder' = IF recorder = "used" THEN "none" ELSE recorder
    /\ Recording("idle") /\ LoadVoice /\ UNCHANGED mic

Profile(free) ==
    \/ StartVoiceReferenceRecording \/ Asked \/ StopVoiceReferenceRecording
    \/ UploadVoiceReference \/ DeleteVoiceReference \/ HubProfile(free)
    \/ ProfileAnswered

-----------------------------------------------------------------------------
(* The page and the hub; the running of the workers is changed by HubHandles.     *)
ConsoleNext(free) ==
    \/ Poll \/ PollAssets \/ ActivateView \/ HubReads \/ LoadAnswered \/ AssetsAnswered
    \/ LoadFails \/ Operate \/ InstallAnswered \/ InstallEnds \/ HubChanges
    \/ \E a \in Area : HubHandles(a) \/ Operated(a)
    \/ RequestVoiceTranscription \/ Transcribing \/ Profile(free)

(* The timers go on, the hub answers, an installation ends, and so does the      *)
(* window of a transcription; the user answers when asked for the microphone.   *)
ConsoleFairness ==
    /\ WF_consoleVars(Poll) /\ WF_consoleVars(HubReads)
    /\ WF_consoleVars(LoadAnswered) /\ WF_consoleVars(AssetsAnswered)
    /\ WF_consoleVars(InstallAnswered \/ InstallEnds)
    /\ \A a \in Area : WF_consoleVars(HubHandles(a)) /\ WF_consoleVars(Operated(a))
    /\ WF_consoleVars(hub.asset = "installing" /\ HubChanges)
    /\ WF_consoleVars(Asked) /\ WF_consoleVars(StopVoiceReferenceRecording)
    /\ WF_consoleVars(UploadVoiceReference)
    /\ WF_consoleVars(ProfileAnswered)

-----------------------------------------------------------------------------
(* The external interface is only open while every capability is verified,       *)
(* whatever pages reset, verify and enable in between (update_verification,      *)
(* update_integration in aircon.rs).                                        *)
GateVerified == hub.gate => hub.verified = Capability

(* A capability is recorded as verified only when the last command the remote    *)
(* tried was that one and succeeded: what the user saw the device do is not      *)
(* credited to another button (sendAirconRemoteCommand, updateAirconVerification). *)
ConfirmsWhatWasSent ==
    [][\A a \in Area : HubHandles(a) /\ op[a].kind = "pass"
         => tried = [cap |-> op[a].cap, ok |-> TRUE]]_consoleVars

(* Whatever failed or gave way: a view that stays open ends up showing the hub,   *)
(* with its buttons enabled (loadVoice, loadVoiceAssets, the finally blocks).     *)
(* Not so the profile after a recorder that did not start: the page keeps it, and *)
(* shows the profile as it was until another recording.                       *)
ViewReturns ==
    <>[]open => <>[](/\ shown = IF recorder = "unstarted"
                               THEN [hub EXCEPT !.profile = shown.profile] ELSE hub
                     /\ off = [a \in Area |-> a = "aircon" /\ ~ hub.ir])
=============================================================================
