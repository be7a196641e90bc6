--------------------------- MODULE MediaPipeline ---------------------------
(***************************************************************************)
(* What becomes of the frames of one device: a muxer (src/src/mux.rs) feeds *)
(* an FFmpeg child, a task of its own reads the fragments the child writes,  *)
(* and each fragment goes to the recorder (media.rs) and to the viewers      *)
(* (live.rs).  Muxer, child and reading task are numbered together; number   *)
(* g starts with the g-th muxer.  The muxer that ends kills its child but    *)
(* does not wait for its reading task, so that two of them may overlap.      *)
(*                                                                         *)
(* A fragment is represented by the number of the child that wrote it, an    *)
(* init segment likewise.  Viewers get a fragment when it is sent or, if     *)
(* they lag, never; their queues are in order, so later is the same.         *)
(***************************************************************************)
EXTENDS Budget, Integers, Sequences, FiniteSets

CONSTANTS
    Viewers,        \* the live connections (serve_live in main.rs)
    Pipe,           \* how many fragments the pipe of a child holds
    Muxers          \* bound: muxers that are started, one more than there are faults

(* Bounded are the exits of a child and the sends, starts and writes that fail;   *)
(* the segments that reach their length; the changes of record_enabled.         *)
ASSUME MediaAssumption ==
    /\ {Pipe, Muxers} \subseteq Nat \ {0}
    /\ {"faults", "rolls", "switches"} \subseteq Bound

Muxer  == 1..Muxers
Reader == {"none", "reading", "init_store", "init_live", "moof", "store", "publish", "ended"}

VARIABLES
    worker,     \* the muxer task: "idle" (none, or finished) or "running"
    muxers,     \* how many have been started
    child,      \* FFmpeg of each: "none", "running" or "exited"
    pipe,       \* the fragments in its pipe
    reader,     \* where its consume_fmp4 is
    ready,      \* those whose init has been set
    live,       \* the init of the live channel, 0 before there is one
    viewer,     \* of each viewer: its init, whether its channel is open, its last fragment
    recorder,   \* init; file, the recording it has open or 0; index, whether it has its index
    recordings, \* in order: init, the fragments in it, its index finished, on the disk
    record,     \* the setting record_enabled
    overlap,    \* history: a muxer has been started while an earlier one was still read
    torn        \* history: the recordings an error has hit

muxing  == <<worker, muxers, child, pipe>>
reading == <<reader, ready>>
watch   == <<live, viewer>>
storing == <<recorder, recordings, torn>>
mediaVars == <<muxing, reading, watch, storing, record, overlap, left>>

MediaInit ==
    /\ worker = "idle"
    /\ muxers = 0
    /\ child = [g \in Muxer |-> "none"]
    /\ pipe = [g \in Muxer |-> 0]
    /\ reader = [g \in Muxer |-> "none"]
    /\ ready = {}
    /\ live = 0
    /\ viewer = [v \in Viewers |-> [init |-> 0, open |-> FALSE, last |-> 0]]
    /\ recorder = [init |-> 0, file |-> 0, index |-> FALSE]
    /\ recordings = <<>>
    /\ record = TRUE
    /\ overlap = FALSE
    /\ torn = {}
    /\ left \in Budgets

Unread == {g \in Muxer : reader[g] \notin {"none", "ended"}}

-----------------------------------------------------------------------------
(* The muxer task and its child.                                            *)

(* A packet of the device: handle_device_packet calls ensure, which starts a *)
(* muxer if there is none or the last has finished.  Ports, sockets or the   *)
(* child may fail before there is anything to read.                          *)
Ensure ==
    /\ worker = "idle"
    /\ \/ /\ muxers + 1 \in Muxer
          /\ worker' = "running"
          /\ muxers' = muxers + 1
          /\ child' = [child EXCEPT ![muxers + 1] = "running"]
          /\ reader' = [reader EXCEPT ![muxers + 1] = "reading"]
          /\ overlap' = (overlap \/ Unread # {})
          /\ UNCHANGED <<pipe, left>>
       \/ Spend("faults") /\ UNCHANGED <<worker, muxers, child, pipe, reader, overlap>>
    /\ UNCHANGED <<ready, watch, storing, record>>

(* The loop of run_muxer ends when its child has exited, which it looks for   *)
(* every second, or when a send fails.  The child is dropped, which kills it; *)
(* the reading task goes on.                                                *)
Finish ==
    /\ worker' = "idle"
    /\ child' = [child EXCEPT ![muxers] = "exited"]
    /\ UNCHANGED <<muxers, pipe, reading, watch, storing, record, overlap>>

ChildGone ==
    /\ worker = "running"
    /\ child[muxers] = "exited"
    /\ Finish
    /\ UNCHANGED left

SendFails ==
    /\ worker = "running"
    /\ Spend("faults")
    /\ Finish

(* FFmpeg begins a fragment; exits; or exits because nobody reads its pipe.   *)
Emit(g) ==
    /\ child[g] = "running"
    /\ reader[g] # "ended"
    /\ pipe[g] < Pipe
    /\ pipe' = [pipe EXCEPT ![g] = @ + 1]
    /\ UNCHANGED <<worker, muxers, child, reading, watch, storing, record, overlap, left>>

Exit(g) ==
    /\ child[g] = "running"
    /\ Spend("faults")
    /\ child' = [child EXCEPT ![g] = "exited"]
    /\ UNCHANGED <<worker, muxers, pipe, reading, watch, storing, record, overlap>>

BrokenPipe(g) ==
    /\ child[g] = "running"
    /\ reader[g] = "ended"
    /\ child' = [child EXCEPT ![g] = "exited"]
    /\ UNCHANGED <<worker, muxers, pipe, reading, watch, storing, record, overlap, left>>

-----------------------------------------------------------------------------
(* The recorder of the device.  Its operations run under the lock of the      *)
(* store; each is a set of outcomes [recorder, recordings, torn, failed].    *)

Outcome(r, files, t, failed) ==
    [recorder |-> r, recordings |-> files, torn |-> t, failed |-> failed]
Done(r, files) == Outcome(r, files, torn, FALSE)
AsIs == Done(recorder, recordings)

(* close_current: the index is given up first, and an error there leaves the  *)
(* recording open without one.                                              *)
Shut   == [recorder EXCEPT !.file = 0, !.index = FALSE]
Footed_Not == recordings    \* fault: the index is closed without its end
Footed == IF recorder.index THEN [recordings EXCEPT ![recorder.file].finished = TRUE]
                            ELSE recordings
Hit    == torn \cup {recorder.file}
Close ==
    IF recorder.file = 0 THEN {AsIs}
    ELSE {Done(Shut, Footed), Outcome(Shut, Footed, Hit, TRUE)}
         \cup IF recorder.index
              THEN {Outcome([recorder EXCEPT !.index = FALSE], recordings, Hit, TRUE)} ELSE {}

(* roll: close, then a new recording under a name that is not taken; it may   *)
(* fail before there is a file or before there is an index.                   *)
Fresh(init) == [init |-> init, holds |-> {}, finished |-> FALSE, kept |-> TRUE]
Opened(o) ==
    LET files == Append(o.recordings, Fresh(o.recorder.init))
        n == Len(files)
    IN  {Outcome([o.recorder EXCEPT !.file = n, !.index = TRUE], files, o.torn, FALSE),
         Outcome(o.recorder, files, o.torn \cup {n}, TRUE),
         Outcome(o.recorder, o.recordings, o.torn, TRUE)}
Roll == UNION {IF o.failed THEN {o} ELSE Opened(o) : o \in Close}

(* The end of DeviceRecorder::write_fragment; a write may fail halfway.       *)
Written(o, g) ==
    LET f == o.recorder.file
        files == [o.recordings EXCEPT ![f].holds = @ \cup {g}]
    IN  IF o.failed THEN {o}
        ELSE {Outcome(o.recorder, files, o.torn, FALSE),
              Outcome(o.recorder, files, o.torn \cup {f}, TRUE)}

WriteFragment(g, elapsed) ==
    UNION {Written(o, g) : o \in IF recorder.file = 0 \/ elapsed THEN Roll ELSE {AsIs}}

(* MediaStore::set_init: what is open is stopped first.                      *)
NewInit_KeepsFile(g) == {Done([recorder EXCEPT !.init = g], recordings)}  \* fault: nothing stopped
NewInit(g) == {IF o.failed THEN o ELSE [o EXCEPT !.recorder.init = g] : o \in Close}

(* One of the outcomes happens; a failure and a full segment are bounded.     *)
Happens(o, rolled) ==
    /\ recorder' = o.recorder
    /\ recordings' = o.recordings
    /\ torn' = o.torn
    /\ (o.failed => left["faults"] > 0) /\ (rolled => left["rolls"] > 0)
    /\ left' = [left EXCEPT !["faults"] = IF o.failed THEN @ - 1 ELSE @,
                            !["rolls"] = IF rolled THEN @ - 1 ELSE @]

-----------------------------------------------------------------------------
(* The task that reads the output of child g: consume_fmp4.                  *)

At(g, stage)      == reader[g] = stage
Proceed(g, stage) == reader' = [reader EXCEPT ![g] = stage]

(* The box moof; the first one publishes the init that came before it.       *)
ReadMoof(g) ==
    /\ At(g, "reading")
    /\ pipe[g] > 0
    /\ pipe' = [pipe EXCEPT ![g] = @ - 1]
    /\ Proceed(g, IF g \in ready THEN "moof" ELSE "init_store")
    /\ UNCHANGED <<worker, muxers, child, ready, watch, storing, record, overlap, left>>

(* The box mdat, unless the child has died before it was complete.           *)
ReadMdat(g) ==
    /\ At(g, "moof")
    /\ \/ Proceed(g, "store")
       \/ child[g] = "exited" /\ pipe[g] = 0 /\ Proceed(g, "ended")
    /\ UNCHANGED <<muxing, ready, watch, storing, record, overlap, left>>

EndOfFile(g) ==
    /\ At(g, "reading")
    /\ child[g] = "exited"
    /\ pipe[g] = 0
    /\ Proceed(g, "ended")
    /\ UNCHANGED <<muxing, ready, watch, storing, record, overlap, left>>

(* set_init of the store and then, in a step of its own, of the live channel; *)
(* the new channel closes the old one and so its viewers.                     *)
StoreInit(g) ==
    /\ At(g, "init_store")
    /\ \E o \in NewInit(g) :
          /\ Happens(o, FALSE)
          /\ Proceed(g, IF o.failed THEN "ended" ELSE "init_live")
    /\ UNCHANGED <<muxing, ready, watch, record, overlap>>

LiveInit_SameChannel(g) ==    \* fault: the old channel is kept for the new init
    /\ At(g, "init_live")
    /\ live' = g
    /\ ready' = ready \cup {g}
    /\ Proceed(g, "moof")
    /\ UNCHANGED <<muxing, viewer, storing, record, overlap, left>>
LiveInit(g) ==
    /\ At(g, "init_live")
    /\ live' = g
    /\ viewer' = [v \in Viewers |-> [viewer[v] EXCEPT !.open = FALSE]]
    /\ ready' = ready \cup {g}
    /\ Proceed(g, "moof")
    /\ UNCHANGED <<muxing, storing, record, overlap, left>>

(* write_fragment of the store; with recording switched off it closes.       *)
Store(g) ==
    /\ At(g, "store")
    /\ \E elapsed \in BOOLEAN :
          /\ elapsed => record /\ recorder.file # 0
          /\ \E o \in IF record THEN WriteFragment(g, elapsed) ELSE Close :
                /\ Happens(o, elapsed)
                /\ Proceed(g, IF o.failed THEN "ended" ELSE "publish")
    /\ UNCHANGED <<muxing, ready, watch, record, overlap>>

(* broadcast: a viewer that lags misses the fragment.                        *)
Publish(g) ==
    /\ At(g, "publish")
    /\ \E lagging \in SUBSET {v \in Viewers : viewer[v].open} :
          viewer' = [v \in Viewers |->
                       IF viewer[v].open /\ v \notin lagging
                       THEN [viewer[v] EXCEPT !.last = g] ELSE viewer[v]]
    /\ Proceed(g, "reading")
    /\ UNCHANGED <<muxing, ready, live, storing, record, overlap, left>>

-----------------------------------------------------------------------------
(* The others: viewers, the cleaner and the settings.                       *)

(* A viewer connects, or again after its channel has closed.                 *)
Subscribe(v) ==
    /\ live # 0
    /\ ~viewer[v].open
    /\ viewer' = [viewer EXCEPT ![v] = [init |-> live, open |-> TRUE, last |-> 0]]
    /\ UNCHANGED <<muxing, reading, live, storing, record, overlap, left>>

(* clean: the oldest recordings, by age or for space, but for the open one.   *)
Protected == {recorder.file}
Clean ==
    /\ \E n \in DOMAIN recordings :
          recordings' = [m \in DOMAIN recordings |->
                           IF m <= n /\ m \notin Protected
                           THEN [recordings[m] EXCEPT !.kept = FALSE, !.holds = {}]
                           ELSE recordings[m]]
    /\ UNCHANGED <<muxing, reading, watch, recorder, torn, record, overlap, left>>

Switch ==
    /\ Spend("switches")
    /\ record' = ~record
    /\ UNCHANGED <<muxing, reading, watch, storing, overlap>>

-----------------------------------------------------------------------------
Consume(g) ==
    \/ ReadMoof(g) \/ ReadMdat(g) \/ EndOfFile(g)
    \/ StoreInit(g) \/ LiveInit(g) \/ Store(g) \/ Publish(g)

MediaNext ==
    \/ Ensure \/ ChildGone \/ SendFails
    \/ \E g \in Muxer : Emit(g) \/ Exit(g) \/ BrokenPipe(g) \/ Consume(g)
    \/ \E v \in Viewers : Subscribe(v)
    \/ Clean \/ Switch

MediaSpec == MediaInit /\ [][MediaNext]_mediaVars

(* The device keeps sending, so that ensure is called again and again; the    *)
(* check of the child is a timer; FFmpeg writes while it runs and dies of a   *)
(* pipe nobody reads; the runtime schedules the reading tasks.               *)
Fairness ==
    /\ WF_mediaVars(Ensure) /\ WF_mediaVars(ChildGone)
    /\ \A g \in Muxer : WF_mediaVars(Emit(g)) /\ WF_mediaVars(BrokenPipe(g)) /\ WF_mediaVars(Consume(g))

FairMediaSpec == MediaSpec /\ Fairness

-----------------------------------------------------------------------------
(* Types of the state of mux.rs, live.rs and media.rs.                       *)
MediaTypeOK ==
    /\ worker \in {"idle", "running"}
    /\ muxers \in Muxer \cup {0}
    /\ child \in [Muxer -> {"none", "running", "exited"}]
    /\ pipe \in [Muxer -> 0..Pipe]
    /\ reader \in [Muxer -> Reader]
    /\ ready \subseteq Muxer
    /\ live \in Muxer \cup {0}
    /\ viewer \in [Viewers -> [init : Muxer \cup {0}, open : BOOLEAN, last : Muxer \cup {0}]]
    /\ recorder \in [init : Muxer \cup {0}, file : 0..Len(recordings), index : BOOLEAN]
    /\ recordings \in Seq([init : Muxer, holds : SUBSET Muxer, finished : BOOLEAN,
                           kept : BOOLEAN])
    /\ record \in BOOLEAN /\ overlap \in BOOLEAN
    /\ torn \subseteq DOMAIN recordings
    /\ left \in [Bound -> Nat]

(* A viewer gets the fragments of the child whose init it was sent: "closes   *)
(* its subscribers instead of mixing new fragments with old init" (set_init   *)
(* of live.rs).                                                             *)
NeverMixed == \A v \in Viewers : viewer[v].last \in {0, viewer[v].init}

(* So it is, on live connections and in recordings, unless a muxer was started *)
(* while the output of another was still being read (run_muxer returns        *)
(* without its reading task).                                               *)
ApartUnlessOverlap ==
    overlap \/ /\ NeverMixed
               /\ \A n \in DOMAIN recordings : recordings[n].holds \subseteq {recordings[n].init}

(* There is one FFmpeg at most, the newest, and none without its muxer: ensure *)
(* never starts another beside it, whatever the reading tasks still do.       *)
OneChild == \A g \in Muxer : child[g] = "running" => worker = "running" /\ g = muxers

MuxersApart == OneChild /\ ApartUnlessOverlap

(* Every recording that is not open any more has its index finished, whoever  *)
(* closed it: a full segment, a new init, or recording switched off; an error *)
(* may only cost the index of the recording it hit.                          *)
IndexFinished ==
    \A n \in DOMAIN recordings : n = recorder.file \/ n \in torn \/ recordings[n].finished

(* So the disk is kept in order by the recorders and by clean together: what    *)
(* is closed is finished, and what is open is of the init of its recorder and  *)
(* not removed under it.                                                    *)
RecordingsKept ==
    /\ IndexFinished
    /\ recorder.file # 0 => /\ recordings[recorder.file].kept
                            /\ recordings[recorder.file].init = recorder.init

(* Whatever failed before, the fragments of the newest child get through the  *)
(* recorder to the live channel again and again.                             *)
OutputFlows == []<>(muxers # 0 /\ reader[muxers] = "publish")

(* Without an overlap everything ends up with the newest child: the channel,  *)
(* every viewer still connected and, while recording is on, the open file.    *)
InStep ==
    /\ live = muxers
    /\ \A v \in Viewers : viewer[v].open => viewer[v].init = muxers
    /\ record => /\ recorder.file # 0
                 /\ muxers \in recordings[recorder.file].holds
    /\ ~record => recorder.file = 0

(* After every failure the newest child is heard again, and it alone in the end    *)
(* (run_muxer, consume_fmp4, the recorder and the viewers).                   *)
Settles == OutputFlows /\ (<>overlap \/ <>[]InStep)
=============================================================================
