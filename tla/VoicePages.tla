----------------------------- MODULE VoicePages -----------------------------
(***************************************************************************)
(* The two pages that record a voice, over the one TTS worker they share: the  *)
(* voice view of the hub page (VoiceConsole), whose profile is the one of the   *)
(* hub, and the public voice studio (VoiceStudio).  The worker takes one job    *)
(* at a time from either, and the view may stop it under a job of the other.    *)
(***************************************************************************)
EXTENDS VoiceConsole, VoiceStudio

vars == <<consoleVars, studioVars, left>>

Init == ConsoleInit /\ StudioInit /\ left \in Budgets

(* acquire_capacity() of the worker, for a job of the view.                    *)
Free == hub.voice /\ worker = NoJob

Console ==
    /\ ConsoleNext(Free)
    /\ IF hub.voice /\ ~ hub'.voice
       THEN WorkerStops /\ UNCHANGED <<page, valid>>
       ELSE UNCHANGED studioVars

Studio == StudioNext(hub.voice) /\ UNCHANGED consoleVars

Next == Console \/ Studio

Spec == Init /\ [][Next]_vars

FairSpec ==
    /\ Spec
    /\ ConsoleFairness /\ WF_consoleVars(HubProfile(Free))
    /\ WF_studioVars(GoesOn(hub.voice))

-----------------------------------------------------------------------------

(* The microphone is given back on every path, and with it the profile controls  *)
(* of the view (startVoiceReferenceRecording, uploadVoiceReference) and the       *)
(* recorder of the studio (startRecording, enrollReference).                 *)
MicReleased ==
    /\ mic ~> (profile = "idle" /\ ~ mic)
    /\ \A v \in Visitor : page[v].mic ~> (page[v].recorder = "idle" /\ ~ page[v].mic)
=============================================================================
