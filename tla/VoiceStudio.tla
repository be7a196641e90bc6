----------------------------- MODULE VoiceStudio -----------------------------
(***************************************************************************)
(* The public voice studio: the page on which a visitor records a reference   *)
(* and has texts spoken with it (web-src/static/voice-studio.js), the service *)
(* of the hub behind it (src/voice_studio.rs), and the profiles of the TTS     *)
(* worker (src/workers/tts.rs).                                             *)
(*                                                                         *)
(* A session is a token that the hub has signed and keeps no list of; here it  *)
(* is its number, and the profile of a session is the one of that number.  A   *)
(* recording is the visitor it came from and how many he had made by then; a   *)
(* text that was spoken is the recording it was spoken with.                  *)
(*                                                                         *)
(* The hub lets one request through at a time, the worker one job; a job goes   *)
(* on when nobody waits for it any more.                                    *)
(***************************************************************************)
EXTENDS Budget, Sequences

CONSTANT Visitor  \* the browser tabs in which the page is opened

ASSUME VisitorAssumption == "nobody" \notin Visitor

VARIABLES
    page,      \* of each visitor: state of the page, its buttons and its storage
    call,      \* of each visitor: the reference and the synthesis under way
    valid,     \* the sessions whose signature and age the hub accepts
    profiles,  \* of each session: what the worker keeps of it
    worker     \* the job of the worker

studioVars == <<page, call, valid, profiles, worker>>

Kind    == {"enroll", "synth"}
Nobody  == [visitor |-> "nobody", n |-> 0]
NoSaved == [session |-> 0, enrolled |-> FALSE]
NoCall  == [stage |-> "none", session |-> 0, voice |-> Nobody, known |-> 0]
NoJob   == [visitor |-> "nobody", kind |-> "none", session |-> 0, voice |-> Nobody, stage |-> "none"]

(* The directory of a profile and those beside it; the newest recording the     *)
(* worker has confirmed, and whether it has been lost since.                  *)
NoProfile == [root |-> Nobody, old |-> Nobody, new |-> Nobody, confirmed |-> 0, gone |-> FALSE]

(* creating: who waits for createAnonymousSession (sessionPending); recorder:    *)
(* recordingPending, recorder and enrolling; timer and stale: the timeouts that  *)
(* stop a recording, the last one and one before it; off: the button that starts *)
(* a recording is disabled.  A recorder that was made and did not start is stuck. *)
(* History: the recordings made, the newest one that   *)
(* was enrolled and in which session, and whether a microphone ended by itself.  *)
Fresh(p) ==
    [session |-> 0, enrolled |-> FALSE, saved |-> p.saved, creating |-> "none",
     recorder |-> "idle", mic |-> FALSE, off |-> FALSE, timer |-> FALSE, stale |-> FALSE,
     synth |-> "idle", result |-> Nobody, least |-> 0,
     made |-> p.made, known |-> p.known, cut |-> FALSE]

Closed == Fresh([saved |-> NoSaved, made |-> 0, known |-> [session |-> 0, n |-> 0]])

StudioInit ==
    /\ page = [v \in Visitor |-> Closed]
    /\ call = [v \in Visitor |-> [k \in Kind |-> NoCall]]
    /\ valid = {} /\ profiles = <<>> /\ worker = NoJob

Page(v, p)     == page' = [page EXCEPT ![v] = p]
Turns(v, k, s) == call' = [call EXCEPT ![v][k].stage = s]
Drops(v, k)    == call' = [call EXCEPT ![v][k] = NoCall]
Behind         == <<valid, profiles, worker>>

-----------------------------------------------------------------------------
(* Sessions.  First, what the finally blocks of the two operations do.          *)


EnrollOver(p) == [p EXCEPT !.recorder = "idle", !.off = FALSE]
SynthOver(p)  == [p EXCEPT !.synth = "idle"]

(* What follows createAnonymousSession(), however it ended.                   *)
Continue(p, caller) ==
    CASE caller = "enroll" -> EnrollOver(p)
      [] caller = "synth"  -> SynthOver(p)
      [] OTHER             -> p

(* It gives way to one that is pending.                                      *)
CreateAnonymousSession(p, caller) ==
    IF p.creating = "none" THEN [p EXCEPT !.creating = caller] ELSE Continue(p, caller)

ActivateSession(p, s, enrolled) ==
    [p EXCEPT !.session = s, !.enrolled = enrolled,
              !.saved = [session |-> s, enrolled |-> enrolled]]

SessionCreated(v) ==
    LET p == [page[v] EXCEPT !.creating = "none"]
        s == Len(profiles) + 1
    IN  /\ page[v].creating # "none"
        /\ Page(v, Continue(ActivateSession(p, s, FALSE), page[v].creating))
        /\ valid' = valid \cup {s} /\ profiles' = Append(profiles, NoProfile)
        /\ UNCHANGED <<call, worker, left>>

SessionFails(v) ==
    /\ page[v].creating # "none" /\ Spend("failures")
    /\ Page(v, Continue([page[v] EXCEPT !.creating = "none"], page[v].creating))
    /\ UNCHANGED <<call, Behind>>

(* The hub does not accept the session: another one is created, without a        *)
(* reference.                                                               *)
RecoverSession(p, caller) ==
    CreateAnonymousSession(
        [p EXCEPT !.session = 0, !.enrolled = FALSE, !.saved = NoSaved, !.result = Nobody],
        caller)

(* The page is opened, or loaded again: what it was at is given up, and the      *)
(* session of the tab is taken up.                                           *)
Visit(v) ==
    LET p == Fresh(page[v])
    IN  /\ Spend("visits")
        /\ \/ p.saved.session # 0 /\ Page(v, ActivateSession(p, p.saved.session, p.saved.enrolled))
           \/ p.saved.session \notin valid /\ Page(v, CreateAnonymousSession(p, "page"))
        /\ call' = [call EXCEPT ![v] = [k \in Kind |-> NoCall]]
        /\ UNCHANGED Behind

-----------------------------------------------------------------------------
(* The recording of a reference.  Its controls are hidden without a session.    *)
StartRecording(v) ==
    LET p == page[v]
    IN  /\ p.session # 0 /\ ~ p.off /\ p.recorder = "idle" /\ Spend("recordings")
        /\ Page(v, [p EXCEPT !.recorder = "asking", !.off = TRUE])
        /\ UNCHANGED <<call, Behind>>

(* The user gives the microphone, or does not.  A timeout that is still set      *)
(* keeps running when the next one is.  A recorder that does not start remains the *)
(* recorder, and keeps every other one out.                                  *)
MicGranted(v) ==
    LET p == page[v]
    IN  /\ p.recorder = "asking"
        /\ \/ /\ Page(v, [p EXCEPT !.recorder = "recording", !.mic = TRUE, !.made = @ + 1,
                                   !.timer = TRUE, !.stale = @ \/ p.timer])
              /\ UNCHANGED left
           \/ /\ Spend("failures")
              /\ \/ Page(v, EnrollOver(p))
                 \/ Page(v, [EnrollOver(p) EXCEPT !.recorder = "stuck"])
        /\ UNCHANGED <<call, Behind>>

(* stopRecording(): the user, or a timeout.                                  *)
Stopped(p) ==
    [p EXCEPT !.timer = FALSE, !.off = TRUE,
              !.recorder = IF @ = "recording" THEN "stopped" ELSE @]

StopRecording(v) ==
    LET p == page[v]
    IN  /\ \/ p.recorder = "recording" /\ Page(v, Stopped(p))
           \/ p.timer /\ Page(v, Stopped(p))
           \/ p.stale /\ Page(v, [Stopped(p) EXCEPT !.stale = FALSE])
        /\ UNCHANGED <<call, Behind, left>>

(* The microphone is taken away: the recorder stops, and its timeout goes on.   *)
TracksEnd(v) ==
    LET p == page[v]
    IN  /\ p.recorder = "recording" /\ Spend("cuts")
        /\ Page(v, [p EXCEPT !.recorder = "stopped", !.cut = TRUE])
        /\ UNCHANGED <<call, Behind>>

(* The stop event.                                                          *)
EnrollReference(p) == [p EXCEPT !.recorder = "encoding", !.mic = FALSE]

RecorderStops(v) ==
    /\ page[v].recorder = "stopped" /\ Page(v, EnrollReference(page[v]))
    /\ UNCHANGED <<call, Behind, left>>

(* The recording is encoded, or cannot be; it is sent with the session of then.  *)
Encoded(v) ==
    LET p == page[v]
    IN  /\ p.recorder = "encoding"
        /\ \/ /\ Page(v, [p EXCEPT !.recorder = "enrolling"])
              /\ call' = [call EXCEPT ![v]["enroll"] =
                            [stage |-> "sent", session |-> p.session, known |-> 0,
                             voice |-> [visitor |-> v, n |-> p.made]]]
              /\ UNCHANGED left
           \/ Spend("failures") /\ Page(v, EnrollOver(p)) /\ UNCHANGED call
        /\ UNCHANGED Behind

(* The answer of the hub; when it comes, the page may have another session.     *)
Enrolled(v) ==
    LET p == page[v]
        c == call[v]["enroll"]
    IN  /\ \/ /\ c.stage = "ok"
              /\ Page(v, EnrollOver([ActivateSession(p, p.session, TRUE) EXCEPT
                                        !.known = [session |-> c.session, n |-> c.voice.n]]))
           \/ c.stage = "unauthorized" /\ Page(v, RecoverSession(p, "enroll"))
           \/ c.stage = "failed" /\ Page(v, EnrollOver(p))
        /\ Drops(v, "enroll")
        /\ UNCHANGED <<Behind, left>>

-----------------------------------------------------------------------------
(* The submit listener of synthesisForm.                                     *)
Synthesize(v) ==
    LET p == page[v]
    IN  /\ p.enrolled /\ p.synth = "idle" /\ Spend("syntheses")
        /\ Page(v, [p EXCEPT !.synth = "waiting"])
        /\ call' = [call EXCEPT ![v]["synth"] =
                      [stage |-> "sent", session |-> p.session, voice |-> Nobody,
                       known |-> IF p.known.session = p.session THEN p.known.n ELSE 0]]
        /\ UNCHANGED Behind

Synthesized(v) ==
    LET p == page[v]
        c == call[v]["synth"]
    IN  /\ \/ c.stage = "ok" /\ Page(v, SynthOver([p EXCEPT !.result = c.voice, !.least = c.known]))
           \/ c.stage = "unauthorized" /\ Page(v, RecoverSession(p, "synth"))
           \/ c.stage = "failed" /\ Page(v, SynthOver(p))
        /\ Drops(v, "synth")
        /\ UNCHANGED <<Behind, left>>

(* A request or its answer is lost: the hub drops what it does for it.           *)
CallFails(v) ==
    /\ Spend("failures")
    /\ \E k \in Kind : call[v][k].stage \notin {"none", "unauthorized", "failed"} /\ Turns(v, k, "failed")
    /\ UNCHANGED <<page, Behind>>

-----------------------------------------------------------------------------
(* The hub: one request at a time, then its session.                         *)
AtWorker == {"forwarded", "working"}
Permit   == \A v \in Visitor, k \in Kind : call[v][k].stage \notin AtWorker

(* Mutation: the visitors share a profile.                                   *)
SessionProfile_Shared(s) == 1

SessionProfile(s) == s

HubTakes(v, k) ==
    /\ call[v][k].stage = "sent"
    /\ Turns(v, k, IF ~ Permit THEN "failed"
                   ELSE IF call[v][k].session \in valid THEN "forwarded" ELSE "unauthorized")
    /\ UNCHANGED <<page, Behind, left>>

(* A session comes of age, or the hub starts again with another key.            *)
Expires ==
    /\ valid # {} /\ Spend("expiries")
    /\ valid' \in {valid \ {s} : s \in valid} \cup {{}}
    /\ UNCHANGED <<page, call, profiles, worker>>

-----------------------------------------------------------------------------
(* The worker, while it is up: one job at a time.                            *)
WorkerTakes(v, k, up) ==
    LET c == call[v][k]
        s == SessionProfile(c.session)
        takes == up /\ worker = NoJob /\ (k = "synth" => profiles[s].root # Nobody)
    IN  /\ c.stage = "forwarded"
        /\ Turns(v, k, IF takes THEN "working" ELSE "failed")
        /\ worker' = IF takes
                     THEN [visitor |-> v, kind |-> k, session |-> s, voice |-> c.voice,
                           stage |-> IF k = "enroll" THEN "save" ELSE "speak"]
                     ELSE worker
        /\ UNCHANGED <<page, valid, profiles, left>>

(* The job ends and its answer goes to the hub, if that still waits.            *)
JobEnds(stage, voice) ==
    LET v == worker.visitor
        k == worker.kind
    IN  /\ worker' = NoJob
        /\ call' = IF call[v][k].stage = "working"
                   THEN [call EXCEPT ![v][k].stage = stage, ![v][k].voice = voice] ELSE call

Goes(stage) == worker' = [worker EXCEPT !.stage = stage] /\ UNCHANGED call
Stored      == profiles[worker.session]
Store(p)    == profiles' = [profiles EXCEPT ![worker.session] = p]

(* save_profile(): what is left of an earlier one is removed, and the recording   *)
(* written beside the profile.                                              *)
SaveProfile ==
    /\ worker.stage = "save"
    /\ \/ /\ Store([Stored EXCEPT !.old = Nobody, !.new = worker.voice])
          /\ Goes("staged") /\ UNCHANGED left
       \/ /\ Spend("failures") /\ Store([Stored EXCEPT !.old = Nobody, !.new = Nobody])
          /\ JobEnds("failed", worker.voice)
    /\ UNCHANGED <<page, valid>>

(* The profile is moved away.                                               *)
BackUp ==
    /\ worker.stage = "staged"
    /\ \/ Store([Stored EXCEPT !.old = Stored.root, !.root = Nobody]) /\ Goes("moved")
          /\ UNCHANGED left
       \/ Spend("failures") /\ JobEnds("failed", worker.voice) /\ UNCHANGED profiles
    /\ UNCHANGED <<page, valid>>

(* Mutation: a profile that cannot be replaced is not moved back.               *)
RollBack_Not(p) == p

RollBack(p) == [p EXCEPT !.root = p.old, !.old = Nobody]

(* The recording takes its place; if it does not, the profile is moved back, or   *)
(* that fails as well.                                                       *)
Replace ==
    /\ worker.stage = "moved"
    /\ \/ /\ Store([Stored EXCEPT !.root = Stored.new, !.new = Nobody])
          /\ Goes("saved") /\ UNCHANGED left
       \/ /\ Spend("failures") /\ JobEnds("failed", worker.voice)
          /\ Store(RollBack(Stored)) \/ Store([Stored EXCEPT !.gone = TRUE])
    /\ UNCHANGED <<page, valid>>

(* prune_storage() removes profiles that are old, or more than there is room for: *)
(* here none or one of others.  What is kept may be too much even then.         *)
Evicted(p) == [p EXCEPT !.root = Nobody, !.gone = TRUE]

Prunes(kept, others) ==
    \/ profiles' = kept /\ UNCHANGED left
    \/ /\ Spend("evictions")
       /\ \E s \in others : profiles' = [kept EXCEPT ![s] = Evicted(@)]

(* The profile just saved is not removed.                                    *)
PruneStorage ==
    LET saved == [Stored EXCEPT !.old = Nobody]
        told  == [saved EXCEPT !.confirmed = worker.voice.n, !.gone = FALSE]
        kept(p) == [profiles EXCEPT ![worker.session] = p]
    IN  /\ worker.stage = "saved"
        /\ \/ Prunes(kept(told), DOMAIN profiles \ {worker.session}) /\ JobEnds("ok", worker.voice)
           \/ /\ Spend("failures") /\ profiles' = kept(saved)
              /\ JobEnds("failed", worker.voice)
        /\ UNCHANGED <<page, valid>>

(* synthesize_cached(): a text that has been spoken with the profile is not        *)
(* spoken again; the cache is part of the profile.  Before it answers it prunes,   *)
(* and finds nothing to answer with when its own profile was old.              *)
Speak ==
    /\ worker.stage = "speak"
    /\ \/ /\ Prunes(profiles, DOMAIN profiles)
          /\ JobEnds(IF profiles'[worker.session].root = Nobody THEN "failed" ELSE "ok", Stored.root)
       \/ Spend("failures") /\ JobEnds("failed", Nobody) /\ UNCHANGED profiles
    /\ UNCHANGED <<page, valid>>

(* Every hour, unless a job is under way.                                     *)
Cleanup(up) ==
    /\ up /\ worker = NoJob /\ Spend("evictions")
    /\ \E s \in DOMAIN profiles : profiles' = [profiles EXCEPT ![s] = Evicted(@)]
    /\ UNCHANGED <<page, call, valid, worker>>

(* The worker dies, or is stopped: its job is lost, and the profile that was      *)
(* being replaced with it.                                                  *)
WorkerStops ==
    IF worker = NoJob
    THEN UNCHANGED <<call, profiles, worker>>
    ELSE /\ JobEnds("failed", Nobody)
         /\ Store([Stored EXCEPT !.gone = @ \/ worker.stage = "moved"])

Crash ==
    /\ worker # NoJob /\ Spend("crashes")
    /\ WorkerStops
    /\ UNCHANGED <<page, valid>>

Work == SaveProfile \/ BackUp \/ Replace \/ PruneStorage \/ Speak

(* What goes on by itself: the browser, the hub, and the worker while it is up;    *)
(* the user answers when he is asked for the microphone.                      *)
GoesOn(up) ==
    \/ Work
    \/ \E v \in Visitor :
          \/ SessionCreated(v) \/ MicGranted(v) \/ StopRecording(v) \/ RecorderStops(v)
          \/ Encoded(v) \/ Enrolled(v) \/ Synthesized(v)
          \/ \E k \in Kind : HubTakes(v, k) \/ WorkerTakes(v, k, up)

StudioNext(up) ==
    \/ GoesOn(up) \/ Crash \/ Cleanup(up) \/ Expires
    \/ \E v \in Visitor :
          \/ Visit(v) \/ StartRecording(v) \/ Synthesize(v)
          \/ TracksEnd(v) \/ SessionFails(v) \/ CallFails(v)

-----------------------------------------------------------------------------
(* What a visitor hears was spoken with a recording of his own, and with none     *)
(* older than the last one that was confirmed to him when he asked, whatever     *)
(* sessions expired, whichever requests were lost and wherever the worker died   *)
(* (VoiceStudio::session_profile, save_profile, synthesize_cached).            *)
OwnVoice ==
    \A v \in Visitor :
        page[v].result # Nobody => page[v].result.visitor = v /\ page[v].result.n >= page[v].least

(* A recording that the worker has confirmed is what it speaks with, until a      *)
(* newer one is in its place: an enrollment that fails halfway changes nothing.  *)
(* Only a crash between the two renames and the limit of the storage lose it.    *)
ProfileKept ==
    \A s \in DOMAIN profiles :
        LET p == profiles[s]
            moved == worker.session = s /\ worker.stage = "moved"
        IN  p.confirmed = 0 \/ p.gone \/ (IF moved THEN p.old ELSE p.root).n >= p.confirmed

(* Whatever fails, the page of a visitor comes back to where he can record and     *)
(* have texts spoken.  After two failures he cannot record any more: a recorder    *)
(* that did not start (startRecording), and a microphone that ended by itself, if  *)
(* the timeout that is still set then disables the button (stopRecording).       *)
Settled(p) == p.creating = "none" /\ p.synth = "idle"
CanRecord(p) == p.recorder = "idle" /\ ~ p.off

StudioReturns ==
    \A v \in Visitor :
        ~ (Settled(page[v]) /\ CanRecord(page[v]))
            ~> (/\ Settled(page[v])
                /\ CanRecord(page[v]) \/ page[v].recorder = "stuck" \/ page[v].cut)
=============================================================================
