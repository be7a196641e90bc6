-------------------------------- MODULE Page --------------------------------
(***************************************************************************)
(* The camera views of the hub page (web-src/static/app.js): the lists and    *)
(* photos of Archive, the recordings of Playback and the live streams of      *)
(* LivePlayer share the selected device and the view that is shown.           *)
(***************************************************************************)
EXTENDS Archive, LivePlayer

VARIABLE watching  \* history: the device was selected when the live stream began

vars == <<playbackVars, archiveVars, liveVars, relayVars, watching, left>>

Live == <<liveVars, relayVars, watching>>

Init ==
    /\ PlaybackInit /\ ArchiveInit /\ LiveInit /\ RelayInit
    /\ watching = None /\ left \in Budgets

-----------------------------------------------------------------------------
(* activateView(): leaving the live view stops its stream, leaving the photos   *)
(* closes the lightbox, and coming to the photos reads them.                  *)
ActivateView(target) ==
    /\ target # view /\ Spend("views")
    /\ view' = target
    /\ IF view = "live" THEN StopHubLive /\ watching' = None ELSE UNCHANGED Live
    /\ current' = IF target # "photos" THEN None ELSE current
    /\ IF target = "photos" THEN LoadPhotos(Older({"photos"}), device, "view")
       ELSE UNCHANGED <<loads, photos, adopted, locked>>
    /\ UNCHANGED <<playbackVars, Hub, Lists, selection, refresh, deletions>>

Select(d) == SelectDevice(d) /\ StopHubLive /\ watching' = None

(* The buttons of the live view.                                             *)
StartLive ==
    /\ view = "live" /\ device # None /\ Spend("starts") /\ watching' = device
    /\ \/ mode # "mse" /\ StartHubLive(device)
       \/ mode # "flv" /\ StartHubFlv(device)
       \/ mode # "webrtc" /\ StartHubWebRtc(device)
       \/ mode # "moq" /\ StartHubMoq(device)
    /\ UNCHANGED <<playbackVars, archiveVars>>

StopLive ==
    /\ view = "live" /\ mode # "" /\ Spend("stops")
    /\ StopHubLive /\ watching' = None
    /\ UNCHANGED <<playbackVars, archiveVars>>

LiveSteps   == LiveGoesOn(device)
RelaySteps  == RelayNext /\ UNCHANGED liveVars
OthersCome  == \E d \in Device : OtherViewer(d)

Next ==
    \/ \E target \in {"live", "playback", "photos"} : ActivateView(target)
    \/ \E d \in Device : Select(d)
    \/ StartLive \/ StopLive
    \/ (LiveSteps \/ RelaySteps \/ OthersCome \/ SocketCloses)
          /\ UNCHANGED <<playbackVars, archiveVars, watching>>
    \/ ArchiveNext /\ UNCHANGED Live
    \/ PlaybackNext /\ UNCHANGED <<archiveVars, Live>>

Spec == Init /\ [][Next]_vars

(* The network and the browser answer, in some way; the user does as he likes.  *)
FairSpec ==
    /\ Spec /\ PlaybackFairness /\ ArchiveFairness
    /\ WF_<<liveVars, relayVars>>(LiveSteps) /\ WF_<<liveVars, relayVars>>(RelaySteps)

-----------------------------------------------------------------------------
(* One feed plays at most, and none outside the live view or after a stop,      *)
(* whatever start was still under way.                                       *)
NothingPlaysUnseen ==
    /\ OneFeed
    /\ feeds # {} => view = "live" /\ watching # None
=============================================================================
