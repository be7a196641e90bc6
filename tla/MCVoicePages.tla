---------------------------- MODULE MCVoicePages ----------------------------
(***************************************************************************)
(* Small instances of VoicePages for TLC.                                   *)
(***************************************************************************)
EXTENDS VoicePages

Kinds ==
    Area \cup {"transcribe", "profile", "failures", "others", "views", "visits",
               "recordings", "syntheses", "cuts", "expiries", "evictions", "crashes"}

Nothing == [b \in Kinds |-> 0]

(* The view, which is left and comes back: commands are sent and verified, and  *)
(* the interface is opened; the infrared service changes under a command;       *)
(* recordings, while the device is used from elsewhere; an installation and a    *)
(* service, or a transcription.                                             *)
View         == [Nothing EXCEPT !["views"] = 3]
Remote       == [View EXCEPT !["views"] = 1, !["aircon"] = 3, !["failures"] = 1]
Infrared     == [View EXCEPT !["aircon"] = 1, !["ir"] = 1]
Recorder     == [View EXCEPT !["profile"] = 2, !["failures"] = 1, !["others"] = 1]
Installation == [View EXCEPT !["assets"] = 1, !["services"] = 1]
Listener     == [View EXCEPT !["transcribe"] = 1, !["assets"] = 1, !["failures"] = 1]

(* The studio: a visitor records twice while something fails, the worker dies or  *)
(* his session ends; two visitors; a microphone that ends; a profile that goes.   *)
Visit1  == [Nothing EXCEPT !["visits"] = 1, !["recordings"] = 2, !["syntheses"] = 1]
Failing == [Visit1 EXCEPT !["syntheses"] = 2, !["failures"] = 2]
Dying   == [Visit1 EXCEPT !["crashes"] = 1, !["evictions"] = 1, !["failures"] = 1]
Expired == [Visit1 EXCEPT !["expiries"] = 1, !["visits"] = 2]
Two     == [Visit1 EXCEPT !["visits"] = 2, !["syntheses"] = 2]
Cut     == [Visit1 EXCEPT !["cuts"] = 1, !["syntheses"] = 0]

(* Both, over the worker that the view also stops and starts.                  *)
Shared == [Visit1 EXCEPT !["views"] = 1, !["recordings"] = 1, !["profile"] = 1, !["services"] = 1]

Scenarios ==
    {Remote, Infrared, Recorder, Installation, Listener,
     Failing, Dying, Expired, Two, Cut, Shared}
=============================================================================
