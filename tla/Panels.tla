------------------------------- MODULE Panels -------------------------------
(***************************************************************************)
(* The configuration panels of the hub page (web-src/static/app.js): the    *)
(* settings, the voice configuration and its public studio, the QQ robot,    *)
(* dynamic DNS, the television and the HTTP proxy.  Each shows a document of *)
(* the hub in a form, reads it again every few seconds, and writes it when    *)
(* the user submits the form.                                               *)
(*                                                                         *)
(* The panels have the same parts and differ in what guards what: whether a   *)
(* read sets the busy flag, whether a write does, whether unsaved edits hold  *)
(* reads back, whether the answer of a write is shown, and whether the hub    *)
(* compares a revision.  They share no state, so a behaviour is that of one   *)
(* panel.                                                                   *)
(*                                                                         *)
(* A document is represented by its revision, the number of writes the hub    *)
(* has accepted; a form by the revision it was last filled from.  The hub     *)
(* also changes from elsewhere: another browser, the robot, a worker.        *)
(***************************************************************************)
EXTENDS Budget

CONSTANTS
    Panel,      \* the panels looked at
    Request     \* the reads of a panel that may be under way at once

(* Bounded are the edits of the user, writes from elsewhere, requests that fail,  *)
(* operations other than saving, and reloads.                               *)
ASSUME PanelsAssumption ==
    /\ Panel \subseteq {"settings", "voice", "studio", "qq", "ddns", "tv", "proxy"}
    /\ {"edits", "others", "failures", "operations", "reloads"} \subseteq Bound

VARIABLES
    panel,      \* the panel of this behaviour
    hub,        \* the revision of the document in the hub
    open,       \* the view of the panel is the one shown
    form,       \* the revision the form was last filled from
    base,       \* the revision in state.voiceConfig, state.ddnsConfig, ...
    dirty,      \* state.settingsDirty, state.voiceDirty, ...
    edited,     \* the form has edits that are not in a request
    busy,       \* state.busy, state.voiceBusy, ...
    reads,      \* the reads under way: their stage and the answer
    write,      \* the write under way
    kept,       \* history: the form still holds what the write carries
    foreign,    \* history: the last revision that was written elsewhere
    unseen,     \* history: base goes back to the answer of a profile operation
    task        \* the other operation of the panel that is under way

panelVars == <<panel, hub, open, form, base, dirty, edited, busy, reads, write,
          kept, foreign, unseen, task, left>>

(* What the user sees and edits.                                            *)
Form == <<form, base, dirty, edited, kept, unseen>>

(* A request that is free, or sent, or answered with a revision.              *)
Idle      == [stage |-> "idle", rev |-> 0]
Asked     == [stage |-> "asked", rev |-> 0]
With(rev) == [stage |-> "answered", rev |-> rev]

(* A write carries base, is made from the form filled from shown, and may hold     *)
(* edits.                                                                   *)
NoWrite == [stage |-> "none", base |-> 0, shown |-> 0, unseen |-> FALSE, edits |-> FALSE, rev |-> 0]

(* An operation is of the voice profile, before or after the hub has counted it,    *)
(* or another one.  free: a save was under way when it began.                   *)
NoTask == [stage |-> "none", rev |-> 0, free |-> FALSE]
Other  == [NoTask EXCEPT !.stage = "other"]

(* state.voiceProfileBusy.                                                   *)
Profiling == task.stage \in {"profile", "enrolled"}

(* The page starts with empty forms: revision 0 is the document that has not  *)
(* been read.                                                               *)
PanelInit ==
    /\ panel \in Panel /\ hub = 1 /\ open = FALSE
    /\ form = 0 /\ base = 0 /\ dirty = FALSE /\ edited = FALSE
    /\ busy = FALSE /\ reads = [i \in Request |-> Idle]
    /\ write = NoWrite /\ kept = FALSE /\ foreign = 0 /\ unseen = FALSE /\ task = NoTask
    /\ left \in Budgets

-----------------------------------------------------------------------------
(* Reads.  A load gives way to one under way, and sets the flag until its      *)
(* answer is shown; loadTv only looks at the flag, so that several may be      *)
(* under way.  The requests are then counted by Request.                    *)
Free == {i \in Request : reads[i] = Idle}

Send == Free # {} /\ reads' = [reads EXCEPT ![CHOOSE i \in Free : TRUE] = Asked]

Begin == busy = FALSE /\ busy' = TRUE /\ Send

RefreshAll    == panel = "settings" /\ Begin
LoadVoice     == panel \in {"voice", "studio"} /\ Begin
LoadQq        == panel = "qq" /\ Begin
LoadDdns      == panel = "ddns" /\ Begin
LoadTv        == panel = "tv" /\ busy = FALSE /\ Send /\ UNCHANGED busy
LoadHttpProxy == panel = "proxy" /\ Begin

Load == RefreshAll \/ LoadVoice \/ LoadQq \/ LoadDdns \/ LoadTv \/ LoadHttpProxy

GivesWay == busy \/ Free = {}

Same == UNCHANGED <<panel, hub, foreign>>

(* The timers of the page.  Unsaved edits hold back the reads of three panels, *)
(* although the others ignore an answer that comes while there are some.      *)
Polled ==
    \/ panel = "settings"
    \/ open /\ panel \in {"voice", "studio", "tv"}
    \/ open /\ ~ dirty /\ panel \in {"qq", "ddns", "proxy"}

PollPanel ==
    /\ Polled /\ Load
    /\ Same /\ UNCHANGED <<open, Form, write, task, left>>

(* The user goes to the view of the panel, which reads it, or leaves it.      *)
ActivateView ==
    /\ open' = ~ open
    /\ IF open' /\ panel # "settings" /\ ~ GivesWay
       THEN Load
       ELSE UNCHANGED <<busy, reads>>
    /\ Same /\ UNCHANGED <<Form, write, task, left>>

(* The hub reads the document.                                              *)
HubReads(i) ==
    /\ reads[i] = Asked
    /\ reads' = [reads EXCEPT ![i] = With(hub)]
    /\ Same /\ UNCHANGED <<open, Form, busy, write, task, left>>

(* Mutation: an answer is taken over behind unsaved edits.                  *)
Fill_Behind(rev) ==
    IF dirty \/ Profiling
    THEN base' = rev /\ UNCHANGED <<form, edited, kept, unseen>>
    ELSE form' = rev /\ base' = rev /\ edited' = FALSE /\ kept' = FALSE /\ unseen' = FALSE

(* The form is filled unless it has unsaved edits, or the voice profile is being  *)
(* changed; what the next write will carry comes from the same answer.         *)
Fill(rev) ==
    IF dirty \/ Profiling
    THEN UNCHANGED <<form, base, edited, kept, unseen>>
    ELSE form' = rev /\ base' = rev /\ edited' = FALSE /\ kept' = FALSE /\ unseen' = FALSE

RenderSettings(rev)    == panel = "settings" /\ Fill(rev)
RenderVoice(rev)       == panel = "voice" /\ Fill(rev)
RenderVoiceStudio(rev) == panel = "studio" /\ Fill(rev)
RenderQq(rev)          == panel = "qq" /\ Fill(rev)
RenderDdns(rev)        == panel = "ddns" /\ Fill(rev)
RenderTv(rev)          == panel = "tv" /\ Fill(rev)
RenderHttpProxy(rev)   == panel = "proxy" /\ Fill(rev)

Render(rev) ==
    \/ RenderSettings(rev) \/ RenderVoice(rev) \/ RenderVoiceStudio(rev)
    \/ RenderQq(rev) \/ RenderDdns(rev) \/ RenderTv(rev) \/ RenderHttpProxy(rev)

(* Mutation: a read that fails leaves the flag set.                          *)
Finally_Answered ==
    IF panel = "tv" \/ \E i \in Request : reads[i] = Asked /\ reads'[i] = Idle
    THEN UNCHANGED busy ELSE busy' = FALSE

(* loadTv has no flag to take back.                                         *)
Finally == IF panel = "tv" THEN UNCHANGED busy ELSE busy' = FALSE

(* The load that a write ended with is over, and with it the write.          *)
Over == write' = IF write.stage = "reload" THEN NoWrite ELSE write

(* An answer arrives; that of loadTv is dropped if an action is under way.     *)
ReadAnswered(i) ==
    /\ reads[i].stage = "answered"
    /\ reads' = [reads EXCEPT ![i] = Idle]
    /\ IF panel = "tv" /\ busy
       THEN UNCHANGED <<form, base, edited, kept, unseen>>
       ELSE Render(reads[i].rev)
    /\ Finally /\ Over
    /\ Same /\ UNCHANGED <<open, dirty, task, left>>

(* A read fails, on its way to the hub or back.                             *)
ReadFails(i) ==
    /\ reads[i] # Idle
    /\ Spend("failures")
    /\ reads' = [reads EXCEPT ![i] = Idle]
    /\ Finally /\ Over
    /\ Same /\ UNCHANGED <<open, Form, task>>

-----------------------------------------------------------------------------
(* Edits and writes.  The buttons of a panel are disabled while its write is   *)
(* under way, its inputs are not.                                           *)
EditSettings    == panel = "settings"
EditVoice       == panel = "voice" /\ ~ Profiling
EditVoiceStudio == panel = "studio"
EditQq          == panel = "qq"
EditDdns        == panel = "ddns"
EditTv          == panel = "tv"
EditHttpProxy   == panel = "proxy"

Edit ==
    /\ open /\ Spend("edits")
    /\ EditSettings \/ EditVoice \/ EditVoiceStudio \/ EditQq \/ EditDdns \/ EditTv \/ EditHttpProxy
    /\ dirty' = TRUE /\ edited' = TRUE
    /\ Same /\ UNCHANGED <<open, form, kept, base, unseen, busy, reads, write, task>>

(* The user takes the document of the hub instead of the edits.  The button of *)
(* the television panel loads, and keeps them; the studio has none.           *)
ReloadSettings  == panel = "settings" /\ dirty' = FALSE
ReloadVoice     == panel = "voice" /\ ~ Profiling /\ dirty' = FALSE
ReloadQq        == panel = "qq" /\ dirty' = FALSE
ReloadDdns      == panel = "ddns" /\ dirty' = FALSE
ReloadTv        == panel = "tv" /\ UNCHANGED dirty
ReloadHttpProxy == panel = "proxy" /\ dirty' = FALSE

Reload ==
    /\ open /\ Spend("reloads")
    /\ ReloadSettings \/ ReloadVoice \/ ReloadQq \/ ReloadDdns \/ ReloadTv \/ ReloadHttpProxy
    /\ IF GivesWay THEN UNCHANGED <<busy, reads>> ELSE Load
    /\ Same /\ UNCHANGED <<open, form, kept, base, unseen, edited, write, task>>

(* A form is also written without edits, submitted as it is or with its secret    *)
(* cleared (clearQqSecret, clearDdnsSecret).  One write at a time is looked at.   *)
Put ==
    /\ open /\ write.stage = "none"
    /\ IF dirty THEN UNCHANGED left ELSE Spend("edits")
    /\ write' = [stage |-> "sent", base |-> base, shown |-> form, unseen |-> unseen,
                 edits |-> edited, rev |-> 0]
    /\ edited' = FALSE /\ kept' = TRUE

(* The button of the voice panel is disabled while the profile is being changed,    *)
(* and enabled at the end of a save that was under way then.                  *)
SaveSettings            == panel = "settings" /\ Put /\ UNCHANGED busy
SaveVoice               == panel = "voice" /\ (Profiling => task.free) /\ Put /\ UNCHANGED busy
SaveVoiceStudioSettings == panel = "studio" /\ Put /\ UNCHANGED busy
SaveQqConfig            == panel = "qq" /\ Put /\ UNCHANGED busy
SaveDdnsConfig          == panel = "ddns" /\ Put /\ UNCHANGED busy
SubmitTv                == panel = "tv" /\ busy = FALSE /\ Put /\ busy' = TRUE
SaveHttpProxy           == panel = "proxy" /\ Put /\ busy' = TRUE

Save ==
    /\ \/ SaveSettings \/ SaveVoice \/ SaveVoiceStudioSettings \/ SaveQqConfig
       \/ SaveDdnsConfig \/ SubmitTv \/ SaveHttpProxy
    /\ Same /\ UNCHANGED <<open, form, base, unseen, dirty, reads, task>>

(* What the hub does with a write.  Two of its services compare revisions.     *)
VoiceAccepts == write.base = hub
DdnsAccepts  == write.base = 0 \/ write.base = hub

Accepts ==
    CASE panel = "voice" -> VoiceAccepts
      [] panel = "ddns"  -> DdnsAccepts
      [] OTHER           -> TRUE

HubWrites ==
    /\ write.stage = "sent"
    /\ IF Accepts
       THEN /\ hub' = hub + 1
            /\ write' = [write EXCEPT !.stage = "accepted", !.rev = hub']
       ELSE /\ write' = [write EXCEPT !.stage = "refused"]
            /\ UNCHANGED hub
    /\ UNCHANGED <<panel, foreign, open, Form, busy, reads, task, left>>

(* The document changes in the hub, and nobody tells the page.               *)
HubChanges ==
    /\ Spend("others")
    /\ hub' = hub + 1 /\ foreign' = hub'
    /\ UNCHANGED <<panel, open, Form, busy, reads, write, task>>

(* The write succeeded: all edits count as saved, those made since too.  Unless *)
(* it was filled again, the form shows what was written.                    *)
Saved ==
    /\ dirty' = FALSE /\ form' = (IF kept THEN write.rev ELSE form)
    /\ UNCHANGED <<edited, kept>>

(* The load at the end of a write may give way to a poll that began before.    *)
ThenLoad ==
    IF GivesWay
    THEN write' = NoWrite /\ UNCHANGED <<busy, reads>>
    ELSE write' = [NoWrite EXCEPT !.stage = "reload"] /\ Load

Adopts(rev, from) == base' = rev /\ unseen' = from
AsBefore          == UNCHANGED <<base, unseen>>

SettingsSaved == panel = "settings" /\ Saved /\ AsBefore /\ ThenLoad
VoiceSaved    == panel = "voice" /\ Saved /\ Adopts(write.rev, write.unseen) /\ ThenLoad
StudioSaved   == panel = "studio" /\ Saved /\ AsBefore /\ ThenLoad
QqSaved       == panel = "qq" /\ Saved /\ AsBefore /\ ThenLoad
DdnsSaved     == panel = "ddns" /\ Saved /\ AsBefore /\ ThenLoad

(* These two show the answer of the write.                                  *)
Shown ==
    /\ dirty' = FALSE /\ edited' = FALSE /\ kept' = FALSE
    /\ form' = write.rev /\ base' = write.rev /\ UNCHANGED unseen

(* The end of a television action: the flag is taken back and a load begins.   *)
TvLoads == busy' = FALSE /\ IF Free = {} THEN UNCHANGED reads ELSE Send

TvSaved    == panel = "tv" /\ Shown /\ write' = NoWrite /\ TvLoads
ProxySaved == panel = "proxy" /\ Shown /\ write' = NoWrite /\ busy' = FALSE /\ UNCHANGED reads

WriteAnswered ==
    /\ write.stage = "accepted"
    /\ \/ SettingsSaved \/ VoiceSaved \/ StudioSaved \/ QqSaved \/ DdnsSaved
       \/ TvSaved \/ ProxySaved
    /\ Same /\ UNCHANGED <<open, task, left>>

(* It was refused, or the request or the answer is lost: its edits, if the form    *)
(* still holds them, are unsaved.                                           *)
WriteFails ==
    /\ \/ write.stage = "refused" /\ UNCHANGED left
       \/ write.stage \in {"sent", "accepted"} /\ Spend("failures")
    /\ write' = NoWrite /\ edited' = (edited \/ (kept /\ write.edits))
    /\ CASE panel = "tv"    -> TvLoads
         [] panel = "proxy" -> busy' = FALSE /\ UNCHANGED reads
         [] OTHER           -> UNCHANGED <<busy, reads>>
    /\ Same /\ UNCHANGED <<open, form, kept, base, unseen, dirty, task>>

-----------------------------------------------------------------------------
(* Operations beside the document, and what they share with it: the flag, and  *)
(* the load at their end.                                                   *)
TestVoiceCommand     == panel = "voice" /\ ~ dirty /\ UNCHANGED busy
SendQqTest           == panel = "qq" /\ ~ dirty /\ UNCHANGED busy
RotateQqPushToken    == panel = "qq" /\ UNCHANGED busy
ControlDdnsComponent == panel = "ddns" /\ UNCHANGED busy
SetDdnsAutostart     == panel = "ddns" /\ UNCHANGED busy
ReconcileDdns        == panel = "ddns" /\ ~ dirty /\ UNCHANGED busy
TvAction             == panel = "tv" /\ busy = FALSE /\ busy' = TRUE
RotateHttpProxyToken == panel = "proxy" /\ busy' = TRUE
TestHttpProxy        == panel = "proxy" /\ busy' = TRUE

Operate ==
    /\ open /\ task = NoTask /\ Spend("operations")
    /\ \/ TestVoiceCommand \/ SendQqTest \/ RotateQqPushToken \/ ControlDdnsComponent
       \/ SetDdnsAutostart \/ ReconcileDdns
       \/ TvAction \/ RotateHttpProxyToken \/ TestHttpProxy
    /\ task' = Other
    /\ Same /\ UNCHANGED <<open, Form, reads, write>>

LoadUnlessBusy == IF GivesWay THEN UNCHANGED <<busy, reads>> ELSE Load

Operated ==
    /\ task = Other /\ task' = NoTask
    /\ CASE panel = "tv"    -> TvLoads
         [] panel = "proxy" -> busy' = FALSE /\ UNCHANGED reads
         [] OTHER           -> LoadUnlessBusy
    /\ Same /\ UNCHANGED <<open, Form, write, left>>

(* The voice profile is recorded or deleted (startVoiceReferenceRecording,        *)
(* deleteVoiceReference; VoiceConsole has their steps).  The controls of the form *)
(* are disabled meanwhile, and renderVoice() leaves the form alone.            *)
ChangeProfile ==
    /\ panel = "voice" /\ open /\ task = NoTask /\ ~ dirty /\ Spend("operations")
    /\ task' = [stage |-> "profile", rev |-> 0, free |-> write.stage # "none"]
    /\ Same /\ UNCHANGED <<open, Form, busy, reads, write>>

(* The hub counts the change in the document, whatever the page has of it.       *)
HubEnrolls ==
    /\ task.stage = "profile"
    /\ hub' = hub + 1 /\ task' = [task EXCEPT !.stage = "enrolled", !.rev = hub']
    /\ UNCHANGED <<panel, foreign, open, Form, busy, reads, write, left>>

(* Its answer is taken over with its revision, the form is not filled from it, and *)
(* the controls are enabled before the load that follows.                     *)
ProfileAnswered ==
    /\ task.stage = "enrolled" /\ task' = NoTask
    /\ dirty' = FALSE /\ Adopts(task.rev, TRUE) /\ LoadUnlessBusy
    /\ Same /\ UNCHANGED <<open, form, edited, kept, write, left>>

(* The microphone is refused; or the recording, the request or its answer is      *)
(* lost, and a load follows.                                                *)
ProfileFails ==
    /\ Profiling /\ Spend("failures") /\ task' = NoTask
    /\ \/ task.stage = "profile" /\ UNCHANGED <<busy, reads>>
       \/ LoadUnlessBusy
    /\ Same /\ UNCHANGED <<open, Form, write>>

-----------------------------------------------------------------------------
Page ==
    \/ PollPanel \/ (\E i \in Request : ReadAnswered(i)) \/ WriteAnswered \/ Operated
    \/ ProfileAnswered
    \/ (write.stage = "refused" /\ WriteFails)

PanelNext ==
    \/ Page \/ ActivateView \/ Edit \/ Reload \/ Save \/ HubWrites \/ HubChanges
    \/ WriteFails \/ Operate \/ ChangeProfile \/ HubEnrolls \/ ProfileFails
    \/ \E i \in Request : HubReads(i) \/ ReadFails(i)

PanelSpec == PanelInit /\ [][PanelNext]_panelVars

(* The timers go on, the hub handles what it receives, and every request is     *)
(* answered or fails; a recording ends after 15 s.                           *)
FairPanelSpec ==
    /\ PanelSpec
    /\ WF_panelVars(PollPanel) /\ WF_panelVars(WriteAnswered \/ WriteFails) /\ WF_panelVars(Operated)
    /\ WF_panelVars(HubWrites) /\ WF_panelVars(HubEnrolls) /\ WF_panelVars(ProfileAnswered)
    /\ \A i \in Request : WF_panelVars(HubReads(i)) /\ WF_panelVars(ReadAnswered(i))

-----------------------------------------------------------------------------
PanelTypeOK ==
    /\ panel \in Panel /\ {hub, form, base, foreign} \subseteq Nat
    /\ {open, dirty, edited, kept, busy, unseen} \subseteq BOOLEAN
    /\ task \in [stage : {"none", "other", "profile", "enrolled"}, rev : Nat, free : BOOLEAN]
    /\ reads \in [Request -> [stage : {"idle", "asked", "answered"}, rev : Nat]]
    /\ write \in [stage : {"none", "sent", "accepted", "refused", "reload"},
                  base : Nat, shown : Nat, unseen : BOOLEAN, edits : BOOLEAN, rev : Nat]
    /\ left \in [Bound -> Nat]

(* A write of a panel whose hub service compares revisions overwrites nothing   *)
(* that another session wrote after the form was filled (VoiceService::update,  *)
(* VoiceConfig of collectVoiceConfig; DdnsConfig::apply_update): the revision   *)
(* sent is that of the form, through every order of polls, reloads, edits and    *)
(* answers.  Two writes are excepted: a DDNS form that was never filled sends 0,  *)
(* which is not compared; and after its profile operations the voice panel sends  *)
(* a revision its user has not seen (uploadVoiceReference, deleteVoiceReference),  *)
(* until its form is filled again.                                           *)
NoLostUpdate ==
    [][HubWrites /\ write'.stage = "accepted" /\ panel \in {"voice", "ddns"} /\ write.base # 0
         => foreign <= write.shown \/ write.unseen]_panelVars

(* However reads, writes and failures were ordered, and whichever of them gave   *)
(* way: a panel that is open, without unsaved edits, ends up showing the        *)
(* document of the hub (the timers of app.js, the busy flags of every load).    *)
Converges ==
    <>[](open /\ ~ dirty) => <>[](form = hub /\ ~ edited)
=============================================================================
