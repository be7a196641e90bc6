------------------------------ MODULE Playback ------------------------------
(***************************************************************************)
(* The player of recordings of the hub page (web-src/static/app.js): the     *)
(* index of a recording is read, a media source is attached and opened, the   *)
(* initialization and the fragments around the position are fetched and       *)
(* appended, in batches, and more of them as the position moves.  When the    *)
(* indexed way fails the file is given to the browser as it is.              *)
(*                                                                         *)
(* Each playRecord() and each batch keeps the epoch it began in, and goes on  *)
(* after an await only in that epoch: here an operation is current or not.    *)
(* A stop aborts the fetches, whose operations end at once; waiting for the   *)
(* source to open, or for an append, cannot be aborted and ends later.       *)
(*                                                                         *)
(* A position is the number of its fragment.  The browser supports media      *)
(* sources; without them every recording is played as after a failed index.  *)
(***************************************************************************)
EXTENDS Budget, FiniteSets, FiniteSetsExt

CONSTANTS
    Fragments,  \* the number of fragments of a recording
    Span,       \* the number of fragments that ten seconds hold
    Low,        \* the number of fragments that five seconds hold
    Ahead       \* by how many fragments the place six seconds ahead may lie ahead

ASSUME PlaybackAssumption ==
    /\ Fragments \in Nat \ {0} /\ Span \in Nat \ {0}
    /\ Low \in Nat /\ Ahead \subseteq Nat

VARIABLES
    record,    \* state.currentRecord, with the device and the date of its URL
    media,     \* what the video element plays: nothing, a media source or a file
    index,     \* the recording of playbackIndex
    appended,  \* appendedFragments
    refill,    \* refillBusy
    position,  \* the position of the player
    starts,    \* the playRecord() calls under way
    batches,   \* the appendFragmentBatch() calls under way
    asked,     \* history: the recording the user asked for last and did not stop
    broken     \* history: the initialization of that recording was not appended

playbackVars == <<record, media, index, appended, refill, position, starts, batches,
                  asked, broken>>

Fragment == 0 .. Fragments - 1

NoUrl   == [device |-> "none", date |-> "none", name |-> "none"]
NoMedia == [kind |-> "none", url |-> NoUrl, ready |-> FALSE]

PlaybackInit ==
    /\ record = NoUrl /\ asked = NoUrl /\ broken = FALSE
    /\ media = NoMedia /\ index = NoUrl /\ appended = {} /\ refill = FALSE
    /\ position = 0 /\ starts = {} /\ batches = {}

-----------------------------------------------------------------------------
(* Stopping: a new epoch.  The operations that wait for a fetch are aborted,   *)
(* the others go on and find that they are not current.                      *)
Outlive(ops, waits) == {[o EXCEPT !.current = FALSE] : o \in {o \in ops : o.stage \in waits}}

NewEpoch ==
    /\ starts' = Outlive(starts, {"opening", "appending"})
    /\ batches' = Outlive(batches, {"appending"})
    /\ index' = NoUrl /\ appended' = {} /\ refill' = FALSE /\ position' = 0

StopRecordPlayback ==
    /\ NewEpoch
    /\ record' = NoUrl /\ media' = NoMedia /\ asked' = NoUrl /\ broken' = FALSE

(* playRecord() stops what is played and asks for the index.                 *)
PlayRecord(url, wanted) ==
    /\ record' = url /\ asked' = url /\ broken' = FALSE /\ media' = NoMedia
    /\ starts' = Outlive(starts, {"opening", "appending"})
                   \cup {[url |-> url, wanted |-> wanted, stage |-> "index", current |-> TRUE]}
    /\ batches' = Outlive(batches, {"appending"})
    /\ index' = NoUrl /\ appended' = {} /\ refill' = FALSE /\ position' = 0

(* The file itself is given to the browser, from the wanted position.          *)
FallbackNativePlayback(s) ==
    /\ starts' = Outlive(starts \ {s}, {"opening", "appending"})
    /\ batches' = Outlive(batches, {"appending"})
    /\ index' = NoUrl /\ appended' = {} /\ refill' = FALSE
    /\ record' = s.url /\ position' = s.wanted
    /\ media' = [kind |-> "file", url |-> s.url, ready |-> TRUE]
    /\ UNCHANGED <<asked, broken>>

-----------------------------------------------------------------------------
(* Batches.  One takes the fragments from start on that are not appended yet,  *)
(* as many as ten seconds hold, and up to one that is appended.               *)
Missing(start) == {f \in Fragment : f >= start /\ f \notin appended}

BatchFrom(start) ==
    LET first == Min(Missing(start))
    IN  {f \in first .. first + Span - 1 :
            f \in Fragment /\ (first .. f) \cap appended = {}}

Batch(start, kind) ==
    [url |-> record, takes |-> BatchFrom(start), to |-> start, kind |-> kind,
     stage |-> "fetching", current |-> TRUE]

AppendFragmentBatch(start, kind) ==
    IF refill \/ index = NoUrl \/ Missing(start) = {}
    THEN UNCHANGED <<batches, refill>>
    ELSE batches' = batches \cup {Batch(start, kind)} /\ refill' = TRUE

(* ensurePlaybackAt(): what is buffered is not fetched.                       *)
EnsurePlaybackAt(at, kind) ==
    IF at \in appended THEN UNCHANGED <<batches, refill>> ELSE AppendFragmentBatch(at, kind)

-----------------------------------------------------------------------------
(* playRecord() after each of its awaits.                                    *)
Ends(s)        == starts' = starts \ {s}
Goes(s, stage) == starts' = (starts \ {s}) \cup {[s EXCEPT !.stage = stage]}

(* The index has been read: the media source is attached.                     *)
IndexRead(s) ==
    /\ s.stage = "index"
    /\ index' = s.url
    /\ media' = [kind |-> "source", url |-> s.url, ready |-> FALSE]
    /\ Goes(s, "opening")
    /\ UNCHANGED <<record, appended, refill, position, batches, asked, broken, left>>

(* There is no index, or none that can be read.                              *)
IndexUnavailable(s) ==
    /\ s.stage = "index" /\ Spend("failures")
    /\ FallbackNativePlayback(s)

SourceOpened(s) ==
    /\ s.stage = "opening"
    /\ IF s.current THEN Goes(s, "init") ELSE Ends(s)
    /\ UNCHANGED <<record, media, index, appended, refill, position, batches, asked, broken, left>>

(* Mutation: the epoch is not looked at after the source failed to open.      *)
OpenFailed_Restores(s) == FallbackNativePlayback(s)

OpenFailed(s) ==
    IF s.current
    THEN FallbackNativePlayback(s)
    ELSE Ends(s) /\ UNCHANGED <<record, media, index, appended, refill, position, batches,
                                asked, broken>>

(* A source that was stopped does not open any more; another may be too slow. *)
SourceTimesOut(s) ==
    /\ s.stage = "opening"
    /\ IF s.current THEN Spend("failures") ELSE UNCHANGED left
    /\ OpenFailed(s)

InitRead(s) ==
    /\ s.stage = "init"
    /\ Goes(s, "appending")
    /\ UNCHANGED <<record, media, index, appended, refill, position, batches, asked, broken, left>>

InitUnavailable(s) ==
    /\ s.stage = "init" /\ Spend("failures")
    /\ FallbackNativePlayback(s)

(* The initialization is appended; the first batch follows.                  *)
InitAppended(s) ==
    /\ s.stage = "appending"
    /\ IF s.current
       THEN Goes(s, "first") /\ AppendFragmentBatch(s.wanted, "first")
       ELSE Ends(s) /\ UNCHANGED <<batches, refill>>
    /\ UNCHANGED <<record, media, index, appended, position, asked, broken, left>>

(* Its append fails: playRecord() returns and the player stays as it is.      *)
InitRefused(s) ==
    /\ s.stage = "appending" /\ s.current /\ Spend("failures")
    /\ Ends(s) /\ broken' = TRUE
    /\ UNCHANGED <<record, media, index, appended, refill, position, batches, asked>>

-----------------------------------------------------------------------------
(* A batch after each of its awaits.                                         *)
First(b) == {s \in starts : b.kind = "first" /\ s.stage = "first" /\ s.current}

Appending == \E b \in batches : b.current /\ b.stage = "appending"

BatchFetched(b) ==
    /\ b.stage = "fetching" /\ ~ Appending
    /\ batches' = (batches \ {b}) \cup {[b EXCEPT !.stage = "appending"]}
    /\ UNCHANGED <<record, media, index, appended, refill, position, starts, asked, broken, left>>

(* The batch is appended.  The first one ends playRecord(), which moves the    *)
(* player to the wanted position and listens to it; one that was forced by a   *)
(* seek moves the player to where that seek went.                            *)
BatchAppended(b) ==
    /\ b.stage = "appending" /\ b.current
    /\ batches' = batches \ {b} /\ refill' = FALSE
    /\ appended' = appended \cup b.takes
    /\ position' = IF b.kind = "refill" THEN position ELSE b.to
    /\ IF b.kind = "first"
       THEN media' = [media EXCEPT !.ready = TRUE] /\ starts' = starts \ First(b)
       ELSE UNCHANGED <<media, starts>>
    /\ UNCHANGED <<record, index, asked, broken, left>>

(* Mutation: a batch that fails keeps the others out.                         *)
Released_Not == refill' = refill

(* The finally of the batch.                                                 *)
Released == refill' = FALSE

(* A batch that was fetched or appended in vain: the first makes playRecord()  *)
(* fall back, another is asked for again as the position moves.               *)
BatchFailed(b) ==
    /\ b.current /\ Spend("failures")
    /\ IF First(b) # {}
       THEN FallbackNativePlayback(CHOOSE s \in First(b) : TRUE)
       ELSE /\ batches' = batches \ {b} /\ Released
            /\ UNCHANGED <<record, media, index, appended, position, starts, asked, broken>>

(* The buffer refuses bytes while it appends others.                          *)
BatchRefused(b) ==
    /\ b.stage = "fetching" /\ Appending
    /\ batches' = batches \ {b} /\ Released
    /\ UNCHANGED <<record, media, index, appended, position, starts, asked, broken, left>>

(* The append of a batch of another epoch ends: its finally resets the flag    *)
(* that now belongs to the recording played since.                           *)
BatchOutlived(b) ==
    /\ ~ b.current
    /\ batches' = batches \ {b} /\ Released
    /\ UNCHANGED <<record, media, index, appended, position, starts, asked, broken, left>>

-----------------------------------------------------------------------------
(* The player plays what is buffered.  As it goes on it looks how much remains  *)
(* of the piece it is in: when that is less than five seconds it asks for the   *)
(* place six seconds ahead, and not for the end of that piece: a fragment lasts *)
(* about a second, and the one between the two may be left out.              *)
Indexed == media.kind = "source" /\ media.ready

Plays ==
    /\ Indexed /\ position \in appended /\ position + 1 \in appended
    /\ position' = position + 1
    /\ UNCHANGED <<record, media, index, appended, refill, starts, batches, asked, broken, left>>

LittleRemains == \E f \in position .. position + Low : f \notin appended

(* fragmentAt(): past the end it is the last one.                             *)
FragmentAt(place) == IF place \in Fragment THEN place ELSE Fragments - 1

TimeUpdate ==
    /\ Indexed /\ LittleRemains
    /\ \E a \in Ahead : EnsurePlaybackAt(FragmentAt(position + a), "refill")
    /\ UNCHANGED <<record, media, index, appended, position, starts, asked, broken, left>>

(* The user moves the player's own control.                                  *)
Seek ==
    /\ Indexed /\ Spend("seeks")
    /\ \E f \in Fragment \ {position} :
          position' = f /\ EnsurePlaybackAt(f, "seek")
    /\ UNCHANGED <<record, media, index, appended, starts, asked, broken>>

StartGoesOn ==
    \E s \in starts :
        \/ IndexRead(s) \/ SourceOpened(s) \/ InitRead(s) \/ InitAppended(s)
        \/ IndexUnavailable(s) \/ SourceTimesOut(s) \/ InitUnavailable(s) \/ InitRefused(s)

FetchEnds  == \E b \in batches : BatchFetched(b) \/ BatchRefused(b)
AppendEnds == \E b \in batches : BatchAppended(b) \/ BatchFailed(b) \/ BatchOutlived(b)

PlaybackNext == StartGoesOn \/ FetchEnds \/ AppendEnds \/ Plays \/ TimeUpdate \/ Seek

(* The browser answers every fetch and ends every append, in some way.  That the *)
(* player moves, and tells, is not promised: it may be paused, or have run dry. *)
PlaybackFairness ==
    /\ WF_playbackVars(StartGoesOn)
    /\ WF_playbackVars(FetchEnds) /\ WF_playbackVars(AppendEnds)

-----------------------------------------------------------------------------
(* What is on the player is the recording the user asked for last, and nothing  *)
(* after a stop: an operation that was overtaken, whatever it was waiting for,  *)
(* neither restores its recording nor feeds the new one.                     *)
OnlyTheAskedRecording ==
    /\ record = asked
    /\ media.kind # "none" => media.url = asked
    /\ index \in {NoUrl, asked}
    /\ \A b \in batches : b.current => b.url = asked
    /\ \A s \in starts : s.current => s.url = asked

(* A recording that is asked for is played, in the one way or the other, until  *)
(* it is stopped, whatever fails on the way but the append of its               *)
(* initialization; and no batch keeps the others out for good, however it ends  *)
(* and whatever recording is played by then.  That the player then goes on       *)
(* is not said, and not so: it may stop at a fragment that TimeUpdate left out.  *)
PlaybackStarts ==
    /\ asked # NoUrl ~> (media.ready \/ broken \/ asked = NoUrl)
    /\ refill ~> ~ refill
=============================================================================
