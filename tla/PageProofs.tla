----------------------------- MODULE PageProofs -----------------------------
(***************************************************************************)
(* Proofs about Page: what is on the player of recordings is what the user     *)
(* asked for last, the lists show the device that is selected, one live stream  *)
(* plays at most, and only where it is seen, and the WebRTC session that is     *)
(* watched is not ended by an older request, for any devices, days, photos and  *)
(* recordings, however long they are and whatever was stopped or overtaken.     *)
(***************************************************************************)
EXTENDS Page, FiniteSetTheorems, TLAPS

(***************************************************************************)
(* Playback.  Where an operation waits for a fetch it is current, because a     *)
(* stop aborts the fetch; that of a recording that was overtaken only waits for *)
(* what cannot be aborted.                                                  *)
(***************************************************************************)
Start(s) ==
    s \in [url : {s.url}, wanted : {s.wanted}, current : BOOLEAN,
           stage : {"index", "opening", "init", "appending", "first"}]

FragmentBatch(b) ==
    b \in [url : {b.url}, takes : {b.takes}, to : {b.to}, kind : {b.kind}, current : BOOLEAN,
           stage : {"fetching", "appending"}]

Aborted ==
    /\ \A s \in starts : s.current \/ s.stage \in {"opening", "appending"}
    /\ \A b \in batches : b.current \/ b.stage = "appending"

AskedFor ==
    /\ record = asked
    /\ media \in [kind : {"none", "source", "file"}, url : {media.url}, ready : BOOLEAN]
    /\ media.kind # "none" => media.url = asked
    /\ index \in {NoUrl, asked}

Playing ==
    /\ AskedFor /\ Aborted
    /\ \A s \in starts : Start(s) /\ (s.current => s.url = asked)
    /\ \A b \in batches : FragmentBatch(b) /\ (b.current => b.url = asked)

-----------------------------------------------------------------------------
LEMMA OldStarts ==
    ASSUME Playing, NEW ops \in SUBSET starts
    PROVE  \A s \in Outlive(ops, {"opening", "appending"}) :
              Start(s) /\ ~ s.current /\ s.stage \in {"opening", "appending"}
<1>. SUFFICES ASSUME NEW o \in ops, o.stage \in {"opening", "appending"}
              PROVE  LET s == [o EXCEPT !.current = FALSE]
                     IN  Start(s) /\ ~ s.current /\ s.stage \in {"opening", "appending"}
  BY DEF Outlive
<1>1. Start(o)
  BY DEF Playing
<1>. QED
  BY <1>1 DEF Start

LEMMA OldBatches ==
    ASSUME Playing
    PROVE  \A b \in Outlive(batches, {"appending"}) :
              FragmentBatch(b) /\ ~ b.current /\ b.stage = "appending"
<1>. SUFFICES ASSUME NEW o \in batches, o.stage \in {"appending"}
              PROVE  LET b == [o EXCEPT !.current = FALSE]
                     IN  FragmentBatch(b) /\ ~ b.current /\ b.stage = "appending"
  BY DEF Outlive
<1>1. FragmentBatch(o)
  BY DEF Playing
<1>. QED
  BY <1>1 DEF FragmentBatch

LEMMA PlayingKept == ASSUME Playing, UNCHANGED playbackVars PROVE Playing'
BY DEF playbackVars, Playing, AskedFor, Aborted, Start, FragmentBatch

LEMMA StopPlaying == ASSUME Playing, StopRecordPlayback PROVE Playing'
<1>1. starts' = Outlive(starts, {"opening", "appending"}) /\ batches' = Outlive(batches, {"appending"})
  BY DEF StopRecordPlayback, NewEpoch
<1>2. AskedFor'
  BY DEF StopRecordPlayback, NewEpoch, AskedFor, NoMedia
<1>3. \A s \in starts' : Start(s) /\ ~ s.current /\ s.stage \in {"opening", "appending"}
  BY <1>1, OldStarts
<1>4. \A b \in batches' : FragmentBatch(b) /\ ~ b.current /\ b.stage = "appending"
  BY <1>1, OldBatches
<1>. QED
  BY <1>2, <1>3, <1>4 DEF Playing, Aborted

LEMMA PlayRecordPlaying == ASSUME Playing, NEW url, NEW wanted, PlayRecord(url, wanted) PROVE Playing'
<1>. DEFINE new == [url |-> url, wanted |-> wanted, stage |-> "index", current |-> TRUE]
<1>1. /\ starts' = Outlive(starts, {"opening", "appending"}) \cup {new}
      /\ batches' = Outlive(batches, {"appending"})
  BY DEF PlayRecord
<1>2. AskedFor' /\ asked' = url
  BY DEF PlayRecord, AskedFor, NoMedia
<1>3. Start(new) /\ new.current /\ new.url = url
  BY DEF Start
<1>. HIDE DEF new
<1>4. \A s \in starts' : Start(s) /\ (s.current => s = new)
                           /\ (s.current \/ s.stage \in {"opening", "appending"})
  BY <1>1, <1>3, OldStarts
<1>5. \A b \in batches' : FragmentBatch(b) /\ ~ b.current /\ b.stage = "appending"
  BY <1>1, OldBatches
<1>. QED
  BY <1>2, <1>3, <1>4, <1>5 DEF Playing, Aborted

(* A start that is current falls back to the file.                            *)
LEMMA FallbackPlaying ==
    ASSUME Playing, NEW s \in starts, s.current, FallbackNativePlayback(s)
    PROVE  Playing'
<1>1. /\ starts' = Outlive(starts \ {s}, {"opening", "appending"})
      /\ batches' = Outlive(batches, {"appending"})
      /\ starts \ {s} \in SUBSET starts
  BY DEF FallbackNativePlayback
<1>2. s.url = asked
  BY DEF Playing
<1>3. AskedFor'
  BY <1>2 DEF FallbackNativePlayback, AskedFor
<1>4. \A x \in starts' : Start(x) /\ ~ x.current /\ x.stage \in {"opening", "appending"}
  BY <1>1, OldStarts
<1>5. \A b \in batches' : FragmentBatch(b) /\ ~ b.current /\ b.stage = "appending"
  BY <1>1, OldBatches
<1>. QED
  BY <1>3, <1>4, <1>5 DEF Playing, Aborted

-----------------------------------------------------------------------------
(* The starts after their awaits.                                            *)

LEMMA GoesPlaying ==
    ASSUME Playing, NEW s \in starts, s.current,
           NEW stage \in {"index", "opening", "init", "appending", "first"}, Goes(s, stage)
    PROVE  /\ \A x \in starts' : Start(x) /\ (x.current => x.url = asked)
           /\ \A x \in starts' : x.current \/ x.stage \in {"opening", "appending"}
<1>. DEFINE t == [s EXCEPT !.stage = stage]
<1>1. Start(s) /\ s.url = asked
  BY DEF Playing
<1>2. Start(t) /\ t.current /\ t.url = asked
  BY <1>1 DEF Start
<1>3. starts' = (starts \ {s}) \cup {t}
  BY DEF Goes
<1>. HIDE DEF t
<1>. QED
  BY <1>2, <1>3 DEF Playing, Aborted

LEMMA EndsPlaying ==
    ASSUME Playing, NEW s \in starts, Ends(s), UNCHANGED <<record, media, index, batches, asked>>
    PROVE  Playing'
BY DEF Ends, Playing, AskedFor, Aborted, Start, FragmentBatch

(* A batch of the recording that plays is begun, or none.                     *)
LEMMA AppendBatch ==
    ASSUME Playing, NEW start, NEW kind,
           AppendFragmentBatch(start, kind) \/ UNCHANGED <<batches, refill>>
    PROVE  /\ \A b \in batches' : FragmentBatch(b) /\ (b.current => b.url = asked)
           /\ \A b \in batches' : b.current \/ b.stage = "appending"
<1>. DEFINE new == Batch(start, kind)
<1>1. FragmentBatch(new) /\ new.current /\ new.url = asked
  BY DEF Batch, FragmentBatch, Playing, AskedFor
<1>2. batches' \in {batches, batches \cup {new}}
  BY DEF AppendFragmentBatch
<1>. HIDE DEF new
<1>. QED
  BY <1>1, <1>2 DEF Playing, Aborted

LEMMA StartsPlaying == ASSUME Playing, StartGoesOn PROVE Playing'
<1>. PICK s \in starts :
        \/ IndexRead(s) \/ SourceOpened(s) \/ InitRead(s) \/ InitAppended(s)
        \/ IndexUnavailable(s) \/ SourceTimesOut(s) \/ InitUnavailable(s) \/ InitRefused(s)
  BY DEF StartGoesOn
<1>a. s.stage \in {"index", "init", "first"} => s.current
  BY DEF Playing, Aborted
<1>b. s.current => s.url = asked
  BY DEF Playing
<1>1. CASE IndexRead(s)
  <2>1. s.current /\ Goes(s, "opening") /\ UNCHANGED <<record, batches, asked>>
    BY <1>1, <1>a DEF IndexRead
  <2>2. AskedFor'
    BY <1>1, <1>b, <2>1 DEF IndexRead, Playing, AskedFor
  <2>. QED
    BY <2>1, <2>2, GoesPlaying DEF Playing, Aborted
<1>2. CASE SourceOpened(s)
  <2>1. CASE s.current
    BY <1>2, <2>1, GoesPlaying DEF SourceOpened, Playing, AskedFor, Aborted
  <2>2. CASE ~ s.current
    BY <1>2, <2>2, EndsPlaying DEF SourceOpened
  <2>. QED
    BY <2>1, <2>2
<1>3. CASE InitRead(s)
  BY <1>3, <1>a, GoesPlaying DEF InitRead, Playing, AskedFor, Aborted
<1>4. CASE InitAppended(s)
  <2>1. CASE s.current
    <3>1. Goes(s, "first") /\ AppendFragmentBatch(s.wanted, "first") /\ UNCHANGED <<record, media, index, asked>>
      BY <1>4, <2>1 DEF InitAppended
    <3>2. AskedFor'
      BY <3>1 DEF Playing, AskedFor
    <3>. QED
      BY <2>1, <3>1, <3>2, GoesPlaying, AppendBatch DEF Playing, Aborted
  <2>2. CASE ~ s.current
    BY <1>4, <2>2, EndsPlaying DEF InitAppended
  <2>. QED
    BY <2>1, <2>2
<1>5. CASE IndexUnavailable(s)
  BY <1>5, <1>a, FallbackPlaying DEF IndexUnavailable
<1>6. CASE SourceTimesOut(s)
  <2>1. CASE s.current
    BY <1>6, <2>1, FallbackPlaying DEF SourceTimesOut, OpenFailed
  <2>2. CASE ~ s.current
    BY <1>6, <2>2, EndsPlaying DEF SourceTimesOut, OpenFailed
  <2>. QED
    BY <2>1, <2>2
<1>7. CASE InitUnavailable(s)
  BY <1>7, <1>a, FallbackPlaying DEF InitUnavailable
<1>8. CASE InitRefused(s)
  BY <1>8, EndsPlaying DEF InitRefused
<1>. QED
  BY <1>1, <1>2, <1>3, <1>4, <1>5, <1>6, <1>7, <1>8

(* The batches after theirs.                                                 *)
LEMMA FetchesPlaying == ASSUME Playing, FetchEnds PROVE Playing'
<1>. PICK b \in batches : BatchFetched(b) \/ BatchRefused(b)
  BY DEF FetchEnds
<1>. DEFINE t == [b EXCEPT !.stage = "appending"]
<1>1. FragmentBatch(b) /\ (b.current => b.url = asked)
  BY DEF Playing
<1>2. FragmentBatch(t) /\ t.current = b.current /\ t.url = b.url /\ t.stage = "appending"
  BY <1>1 DEF FragmentBatch
<1>3. batches' \in {(batches \ {b}) \cup {t}, batches \ {b}}
  BY DEF BatchFetched, BatchRefused
<1>4. UNCHANGED <<record, media, index, starts, asked>>
  BY DEF BatchFetched, BatchRefused
<1>. HIDE DEF t
<1>. QED
  BY <1>1, <1>2, <1>3, <1>4 DEF Playing, AskedFor, Aborted, Start

LEMMA AppendsPlaying == ASSUME Playing, AppendEnds PROVE Playing'
<1>. PICK b \in batches : BatchAppended(b) \/ BatchFailed(b) \/ BatchOutlived(b)
  BY DEF AppendEnds
<1>1. CASE BatchAppended(b)
  <2>1. batches' = batches \ {b} /\ starts' \subseteq starts /\ UNCHANGED <<record, index, asked>>
    BY <1>1 DEF BatchAppended
  <2>2. media' \in {[media EXCEPT !.ready = TRUE], media}
    BY <1>1 DEF BatchAppended
  <2>3. AskedFor'
    BY <2>1, <2>2 DEF Playing, AskedFor
  <2>. QED
    BY <2>1, <2>3 DEF Playing, Aborted
<1>2. CASE BatchFailed(b) /\ First(b) # {}
  <2>1. PICK s \in First(b) : FallbackNativePlayback(s)
    BY <1>2 DEF BatchFailed
  <2>. QED
    BY <2>1, FallbackPlaying DEF First
<1>3. CASE BatchOutlived(b) \/ (BatchFailed(b) /\ First(b) = {})
  <2>1. batches' = batches \ {b} /\ UNCHANGED <<record, media, index, starts, asked>>
    BY <1>3 DEF BatchOutlived, BatchFailed
  <2>. QED
    BY <2>1 DEF Playing, AskedFor, Aborted
<1>. QED
  BY <1>1, <1>2, <1>3

LEMMA PlayerPlaying == ASSUME Playing, Plays \/ TimeUpdate \/ Seek PROVE Playing'
<1>1. UNCHANGED <<record, media, index, starts, asked>>
  BY DEF Plays, TimeUpdate, Seek
<1>2. \E f, kind : AppendFragmentBatch(f, kind) \/ UNCHANGED <<batches, refill>>
  BY DEF Plays, TimeUpdate, Seek, EnsurePlaybackAt
<1>. QED
  BY <1>1, <1>2, AppendBatch DEF Playing, AskedFor, Aborted, Start

LEMMA PlaybackPlaying == ASSUME Playing, PlaybackNext PROVE Playing'
BY StartsPlaying, FetchesPlaying, AppendsPlaying, PlayerPlaying DEF PlaybackNext

(* The lists only stop the player, or start it.                               *)
LEMMA ArchivePlaying == ASSUME Playing, ArchiveNext PROVE Playing'
<1>1. ASSUME NEW table, RenderRecords(table) PROVE Playing'
  BY <1>1, StopPlaying, PlayingKept DEF RenderRecords
<1>2. CASE LoadGoesOn
  <2>. PICK l \in loads :
          \/ HubReads(l) \/ Overtaken(l) \/ LoadFails(l)
          \/ DaysAnswered(l) \/ RecordsAnswered(l) \/ PhotosAnswered(l)
    BY <1>2 DEF LoadGoesOn
  <2>1. CASE DaysAnswered(l) \/ RecordsAnswered(l)
    BY <2>1, <1>1, PlayingKept DEF DaysAnswered, RecordsAnswered
  <2>2. CASE HubReads(l) \/ Overtaken(l) \/ LoadFails(l) \/ PhotosAnswered(l)
    BY <2>2, PlayingKept DEF HubReads, Overtaken, LoadFails, PhotosAnswered
  <2>. QED
    BY <2>1, <2>2
<1>3. CASE Refreshed
  BY <1>3, <1>1, PlayingKept DEF Refreshed, RefreshAnswered, RefreshFails
<1>4. CASE SelectDate
  BY <1>4, StopPlaying DEF SelectDate
<1>5. CASE Play \/ SeekTimeline
  BY <1>5, PlayRecordPlaying DEF Play, SeekTimeline
<1>6. CASE DeletionGoesOn \/ RefreshAll \/ PhotoClicks \/ DevicesChange
  BY <1>6, PlayingKept
  DEF DeletionGoesOn, HubDeletes, Deleted, DeleteFails, RefreshAll, PhotoClicks, SelectPhotos,
      RefreshPhotos, OpenPhoto, ClosePhoto, DeleteCurrentPhoto, DeleteSelectedPhotos,
      ClearCurrentPhotos, Delete, DevicesChange
<1>. QED
  BY <1>2, <1>3, <1>4, <1>5, <1>6 DEF ArchiveNext

LEMMA PlayingStep == ASSUME Playing, [Next]_vars PROVE Playing'
<1>1. ASSUME NEW target, ActivateView(target) PROVE Playing'
  BY <1>1, PlayingKept DEF ActivateView
<1>2. ASSUME NEW d, Select(d) PROVE Playing'
  BY <1>2, StopPlaying DEF Select, SelectDevice
<1>3. CASE StartLive \/ StopLive
  BY <1>3, PlayingKept DEF StartLive, StopLive
<1>4. CASE UNCHANGED playbackVars
  BY <1>4, PlayingKept
<1>5. CASE ArchiveNext
  BY <1>5, ArchivePlaying
<1>6. CASE PlaybackNext
  BY <1>6, PlaybackPlaying
<1>. QED
  BY <1>1, <1>2, <1>3, <1>4, <1>5, <1>6 DEF Next, vars

(* What is on the player is what the user asked for last, and nothing after a    *)
(* stop, however long the recordings are and whatever was overtaken.          *)
THEOREM TheAskedRecordingPlays == Spec => []OnlyTheAskedRecording
<1>1. Init => Playing
  BY DEF Init, PlaybackInit, Playing, AskedFor, Aborted, NoMedia
<1>2. Playing /\ [Next]_vars => Playing'
  BY PlayingStep
<1>3. Playing => OnlyTheAskedRecording
  BY DEF Playing, AskedFor, OnlyTheAskedRecording
<1>. QED
  BY <1>1, <1>2, <1>3, PTL DEF Spec

-----------------------------------------------------------------------------
(***************************************************************************)
(* The lists.  A request for photos is for a device, and its answer has photos  *)
(* of that device; what is shown is of the device selected, or was adopted when *)
(* a refresh replaced it.                                                   *)
(***************************************************************************)
Asked(l) ==
    /\ l \in [kind : {"days", "records", "photos"}, for : {l.for}, device : {l.device},
              date : {l.date}, latest : BOOLEAN, answered : BOOLEAN, seen : {l.seen}]
    /\ l.kind = "photos" => /\ l.device \in Device /\ l.device # None
                            /\ l.answered => l.seen \subseteq Photos[l.device]

Asks == \A l \in loads : Asked(l)

HubKeeps ==
    /\ known \subseteq Device
    /\ stored = [d \in Device |-> stored[d]]
    /\ \A d \in Device : stored[d] \subseteq Photos[d]

Chosen == devices \subseteq Device /\ device \in Device \cup {None}

Shown ==
    /\ records \in [device : {records.device}, date : {records.date}, names : {records.names},
                    adopted : BOOLEAN]
    /\ adopted \in BOOLEAN
    /\ ListsOfDevice

Listed == Asks /\ HubKeeps /\ Chosen /\ Shown

Deletion(d) ==
    d \in [kind : {"one", "many", "all"}, device : {d.device}, names : {d.names}, done : BOOLEAN]

Deletions == \A d \in deletions : Deletion(d)

LEMMA ListedKept ==
    ASSUME Listed, UNCHANGED <<known, stored, devices, device, records, photos, adopted, loads>>
    PROVE  Listed'
BY DEF Listed, Asks, Asked, HubKeeps, Chosen, Shown, ListsOfDevice

LEMMA OldLoad ==
    ASSUME NEW l, Asked(l) PROVE Asked([l EXCEPT !.latest = FALSE])
BY DEF Asked

LEMMA OlderAsked == ASSUME Listed, NEW kinds PROVE \A l \in Older(kinds) : Asked(l)
BY OldLoad DEF Older, Listed, Asks

LEMMA NewAsked ==
    ASSUME NEW kind \in {"days", "records", "photos"}, NEW for, NEW d, NEW day,
           kind = "photos" => d \in Device /\ d # None
    PROVE  Asked(Load(kind, for, d, day))
BY DEF Asked, Load

(* An operation that reads the photos, or finds that there is no device.        *)
LEMMA PhotosAsked ==
    ASSUME Listed, NEW others, \A l \in others : Asked(l), NEW who, LoadPhotos(others, device, who)
    PROVE  /\ Asks'
           /\ (photos' = {} /\ adopted' = FALSE) \/ UNCHANGED <<photos, adopted>>
<1>1. CASE device = None
  BY <1>1 DEF LoadPhotos, Asks
<1>2. CASE device # None
  <2>. DEFINE new == Load("photos", who, device, None)
              old(l) == [l EXCEPT !.latest = FALSE]
  <2>1. Asked(new)
    BY <1>2, NewAsked DEF Listed, Chosen
  <2>2. \A l \in others : Asked(old(l))
    BY OldLoad
  <2>3. loads' = {IF l.kind = "photos" THEN old(l) ELSE l : l \in others} \cup {new}
          /\ UNCHANGED <<photos, adopted>>
    BY <1>2 DEF LoadPhotos
  <2>. HIDE DEF new, old
  <2>. QED
    BY <2>1, <2>2, <2>3 DEF Asks
<1>. QED
  BY <1>1, <1>2

LEMMA ContinueAsked ==
    ASSUME Listed, NEW others \in SUBSET loads, NEW l, Continue(others, l)
    PROVE  /\ Asks'
           /\ (photos' = {} /\ adopted' = FALSE) \/ UNCHANGED <<photos, adopted>>
<1>1. \A x \in others : Asked(x)
  BY DEF Listed, Asks
<1>2. CASE UNCHANGED <<photos, adopted>> /\ loads' = others
  BY <1>1, <1>2 DEF Asks
<1>3. CASE LoadPhotos(others, device, l.for)
  BY <1>1, <1>3, PhotosAsked
<1>. QED
  BY <1>2, <1>3 DEF Continue

(* The selection stays, and a list is emptied or stays.                       *)
LEMMA ListsStay ==
    ASSUME Listed, Asks', UNCHANGED <<known, stored, devices, device, records>>,
           (photos' = {} /\ adopted' = FALSE) \/ UNCHANGED <<photos, adopted>>
    PROVE  Listed'
BY DEF Listed, HubKeeps, Chosen, Shown, ListsOfDevice

LEMMA TableListed ==
    ASSUME Listed, Asks', UNCHANGED <<known, stored, devices, device>>,
           (photos' = {} /\ adopted' = FALSE) \/ UNCHANGED <<photos, adopted>>,
           NEW day, NEW names, NEW dev, dev = device \/ names = {},
           records' = Table(dev, day, names)
    PROVE  Listed'
BY DEF Listed, HubKeeps, Chosen, Shown, ListsOfDevice, Table

LEMMA LoadListed == ASSUME Listed, NEW l \in loads, HubReads(l) PROVE Listed'
<1>. DEFINE seen == CASE l.kind = "days"    -> Days[l.device]
                      [] l.kind = "records" -> Name
                      [] l.kind = "photos"  -> stored[l.device]
            t == [l EXCEPT !.answered = TRUE, !.seen = seen]
<1>1. Asked(l)
  BY DEF Listed, Asks
<1>2. l.kind = "photos" => seen \subseteq Photos[l.device]
  BY <1>1 DEF Asked, Listed, HubKeeps
<1>3. loads' = (loads \ {l}) \cup {t}
        /\ UNCHANGED <<known, stored, devices, device, records, photos, adopted>>
  BY DEF HubReads, Hub, Lists, Grid
<1>. HIDE DEF seen
<1>4. Asked(t)
  BY <1>1, <1>2 DEF Asked
<1>. HIDE DEF t
<1>5. Asks'
  BY <1>3, <1>4 DEF Listed, Asks
<1>. QED
  BY <1>3, <1>5, ListsStay

LEMMA AnswerListed ==
    ASSUME Listed, NEW l \in loads,
           \/ Overtaken(l) \/ LoadFails(l)
           \/ DaysAnswered(l) \/ RecordsAnswered(l) \/ PhotosAnswered(l)
    PROVE  Listed'
<1>a. UNCHANGED <<known, stored, devices, device>> /\ loads \ {l} \in SUBSET loads
  BY DEF Overtaken, LoadFails, DaysAnswered, RecordsAnswered, PhotosAnswered, Hub, Lists
<1>b. Asked(l)
  BY DEF Listed, Asks
<1>1. ASSUME Continue(loads \ {l}, l), UNCHANGED records PROVE Listed'
  BY <1>a, <1>1, ContinueAsked, ListsStay
<1>2. CASE Overtaken(l)
  BY <1>1, <1>2 DEF Overtaken, Lists
<1>3. CASE LoadFails(l)
  <2>1. CASE l.kind = "photos"
    <3>1. loads' = loads \ {l} /\ UNCHANGED records
      BY <1>3, <2>1 DEF LoadFails, PhotosDone, Lists
    <3>2. (photos' = {} /\ adopted' = FALSE) \/ UNCHANGED <<photos, adopted>>
      BY <1>3, <2>1 DEF LoadFails, Listed, Shown
    <3>3. Asks'
      BY <3>1 DEF Listed, Asks
    <3>. QED
      BY <1>a, <3>1, <3>2, <3>3, ListsStay
  <2>2. CASE l.kind # "photos"
    BY <1>1, <1>3, <2>2 DEF LoadFails, Lists
  <2>. QED
    BY <2>1, <2>2
<1>4. CASE DaysAnswered(l)
  <2>1. CASE RenderRecords(NoRecords) /\ Continue(loads \ {l}, l)
    BY <1>a, <2>1, ContinueAsked, TableListed DEF RenderRecords, NoRecords
  <2>2. ASSUME NEW day,
               loads' = (Older({"records"}) \ {l}) \cup {Load("records", l.for, device, day)},
               UNCHANGED <<records, photos, adopted>>
        PROVE  Listed'
    <3>1. Asks'
      BY <2>2, OlderAsked, NewAsked DEF Asks
    <3>. QED
      BY <1>a, <2>2, <3>1, ListsStay
  <2>. QED
    BY <1>4, <2>1, <2>2 DEF DaysAnswered
<1>5. CASE RecordsAnswered(l)
  <2>1. Continue(loads \ {l}, l) /\ records' = Table(l.device, l.date, l.seen) /\ l.device = device
    BY <1>5 DEF RecordsAnswered, RenderRecords, Owned
  <2>. QED
    BY <1>a, <2>1, ContinueAsked, TableListed
<1>6. CASE PhotosAnswered(l)
  <2>1. loads' = loads \ {l} /\ UNCHANGED records
    BY <1>6 DEF PhotosAnswered, PhotosDone, Lists
  <2>2. Asks'
    BY <2>1 DEF Listed, Asks
  <2>3. CASE Owned(l)
    <3>1. photos' \subseteq Photos[device] /\ device # None /\ adopted' = FALSE
      BY <1>6, <1>b, <2>3 DEF PhotosAnswered, Owned, Asked
    <3>. QED
      BY <1>a, <2>1, <2>2, <3>1 DEF Listed, HubKeeps, Chosen, Shown, ListsOfDevice
  <2>4. CASE ~ Owned(l)
    BY <1>6, <1>a, <2>1, <2>2, <2>4, ListsStay DEF PhotosAnswered
  <2>. QED
    BY <2>3, <2>4
<1>. QED
  BY <1>2, <1>3, <1>4, <1>5, <1>6

LEMMA RefreshListed == ASSUME Listed, RefreshAnswered PROVE Listed'
<1>. DEFINE chosen == IF device \in known THEN device ELSE Pick(known)
<1>1. chosen \in Device \cup {None}
  BY DEF Pick, Listed, HubKeeps
<1>2. /\ devices' = known /\ device' = chosen
      /\ UNCHANGED <<known, stored>>
  BY DEF RefreshAnswered, Hub
<1>3. HubKeeps' /\ Chosen'
  BY <1>1, <1>2 DEF Listed, HubKeeps, Chosen
<1>. HIDE DEF chosen
<1>4. CASE chosen = None
  <2>1. /\ records' = NoRecords
        /\ adopted' = (photos' # {})
        /\ \E kinds : loads' = Older(kinds)
    BY <1>4 DEF RefreshAnswered, RenderRecords, chosen
  <2>2. Asks'
    BY <2>1, OlderAsked DEF Asks
  <2>. QED
    BY <1>3, <2>1, <2>2 DEF Listed, Shown, ListsOfDevice, NoRecords, Table
<1>5. CASE chosen # None
  <2>1. /\ loads' = Older({"days"}) \cup {Load("days", "refresh", chosen, None)}
        /\ records' = [records EXCEPT !.adopted = @ \/ chosen # device]
        /\ adopted' = (adopted \/ (chosen # device /\ photos # {}))
        /\ UNCHANGED photos
    BY <1>5 DEF RefreshAnswered, chosen
  <2>2. Asks'
    BY <2>1, OlderAsked, NewAsked DEF Asks
  <2>3. /\ records' \in [device : {records'.device}, date : {records'.date},
                        names : {records'.names}, adopted : BOOLEAN]
        /\ records'.names = records.names /\ records'.device = records.device
        /\ records'.adopted = (records.adopted \/ chosen # device)
    BY <2>1 DEF Listed, Shown
  <2>4. Shown'
    BY <1>2, <2>1, <2>3 DEF Listed, Shown, ListsOfDevice
  <2>. QED
    BY <1>3, <2>2, <2>4 DEF Listed
<1>. QED
  BY <1>4, <1>5

LEMMA DeletionsStep == ASSUME Deletions, [Next]_vars PROVE Deletions'
<1>1. ASSUME NEW kind \in {"one", "many", "all"}, NEW names, Delete(kind, names)
      PROVE  Deletions'
  <2>. DEFINE new == [kind |-> kind, device |-> device, names |-> names, done |-> FALSE]
  <2>1. Deletion(new)
    BY DEF Deletion
  <2>2. deletions' = deletions \cup {new}
    BY <1>1 DEF Delete
  <2>. HIDE DEF new
  <2>. QED
    BY <2>1, <2>2 DEF Deletions, Deletion
<1>2. CASE DeletionGoesOn
  <2>. PICK d \in deletions : HubDeletes(d) \/ Deleted(d) \/ DeleteFails(d)
    BY <1>2 DEF DeletionGoesOn
  <2>. DEFINE t == [d EXCEPT !.done = TRUE]
  <2>1. Deletion(t)
    BY DEF Deletions, Deletion
  <2>2. deletions' \in {(deletions \ {d}) \cup {t}, deletions \ {d}}
    BY DEF HubDeletes, Deleted, DeleteFails
  <2>. HIDE DEF t
  <2>. QED
    BY <2>1, <2>2 DEF Deletions, Deletion
<1>3. CASE DeleteCurrentPhoto \/ DeleteSelectedPhotos \/ ClearCurrentPhotos
  BY <1>1, <1>3 DEF DeleteCurrentPhoto, DeleteSelectedPhotos, ClearCurrentPhotos
<1>4. CASE UNCHANGED deletions
  BY <1>4 DEF Deletions, Deletion
<1>5. CASE LoadGoesOn
  BY <1>4, <1>5
  DEF LoadGoesOn, HubReads, Overtaken, LoadFails, DaysAnswered, RecordsAnswered, PhotosAnswered
<1>6. CASE Refreshed \/ RefreshAll \/ SelectDate \/ Play \/ SeekTimeline \/ SelectPhotos
             \/ RefreshPhotos \/ OpenPhoto \/ ClosePhoto \/ DevicesChange
  BY <1>4, <1>6
  DEF Refreshed, RefreshAnswered, RefreshFails, RefreshAll, SelectDate, Play, SeekTimeline,
      SelectPhotos, RefreshPhotos, OpenPhoto, ClosePhoto, DevicesChange, archiveVars
<1>7. CASE ArchiveNext
  BY <1>2, <1>3, <1>5, <1>6, <1>7 DEF ArchiveNext, PhotoClicks
<1>8. ASSUME NEW x, ActivateView(x) \/ Select(x) PROVE Deletions'
  BY <1>4, <1>8 DEF ActivateView, Select, SelectDevice
<1>. QED
  BY <1>4, <1>7, <1>8 DEF Next, vars, StartLive, StopLive, archiveVars

LEMMA DeletionListed == ASSUME Listed, Deletions, DeletionGoesOn PROVE Listed'
<1>. PICK d \in deletions : HubDeletes(d) \/ Deleted(d) \/ DeleteFails(d)
  BY DEF DeletionGoesOn
<1>1. CASE HubDeletes(d)
  <2>1. stored' = [stored EXCEPT ![d.device] = IF d.kind = "all" THEN {} ELSE @ \ d.names]
          /\ UNCHANGED <<known, devices, device, records, photos, adopted, loads>>
    BY <1>1 DEF HubDeletes, Lists, Grid
  <2>2. HubKeeps'
    BY <2>1 DEF Listed, HubKeeps
  <2>. QED
    BY <2>1, <2>2 DEF Listed, Asks, Asked, Chosen, Shown, ListsOfDevice
<1>2. CASE Deleted(d)
  <2>a. UNCHANGED <<known, stored, devices, device, records>>
    BY <1>2 DEF Deleted, Hub, Lists
  <2>1. CASE LoadPhotos(loads, device, "deletion")
    BY <2>a, <2>1, PhotosAsked, ListsStay DEF Listed, Asks
  <2>2. CASE photos' = photos \ d.names /\ UNCHANGED <<adopted, loads>>
    BY <2>a, <2>2 DEF Listed, Asks, HubKeeps, Chosen, Shown, ListsOfDevice
  <2>3. CASE photos' = {} /\ adopted' = FALSE /\ UNCHANGED loads
    BY <2>a, <2>3, ListsStay DEF Listed, Asks
  <2>4. d.kind \in {"one", "many", "all"}
    BY DEF Deletions, Deletion
  <2>. QED
    BY <1>2, <2>1, <2>2, <2>3, <2>4 DEF Deleted
<1>3. CASE DeleteFails(d)
  BY <1>3, ListedKept DEF DeleteFails, Hub, Lists
<1>. QED
  BY <1>1, <1>2, <1>3

LEMMA ArchiveListed == ASSUME Listed, Deletions, ArchiveNext PROVE Listed'
<1>1. CASE LoadGoesOn
  BY <1>1, LoadListed, AnswerListed DEF LoadGoesOn
<1>2. CASE Refreshed
  BY <1>2, RefreshListed, ListedKept DEF Refreshed, RefreshFails, Hub, Lists, Grid
<1>3. CASE DeletionGoesOn
  BY <1>3, DeletionListed
<1>4. CASE SelectDate
  <2>1. \E d : loads' = Older({"records"}) \cup {Load("records", "date", device, d)}
    BY <1>4 DEF SelectDate
  <2>2. Asks'
    BY <2>1, OlderAsked, NewAsked DEF Asks
  <2>. QED
    BY <1>4, <2>2, ListsStay DEF SelectDate, Hub, Grid
<1>5. CASE RefreshPhotos
  BY <1>5, PhotosAsked, ListsStay DEF RefreshPhotos, Hub, Lists, Listed, Asks
<1>6. CASE DevicesChange
  <2>1. known' \subseteq Device
          /\ UNCHANGED <<stored, devices, device, records, photos, adopted, loads>>
    BY <1>6 DEF DevicesChange, Lists, Grid, Listed, HubKeeps
  <2>. QED
    BY <2>1 DEF Listed, Asks, Asked, HubKeeps, Chosen, Shown, ListsOfDevice
<1>7. CASE RefreshAll \/ Play \/ SeekTimeline \/ SelectPhotos \/ OpenPhoto \/ ClosePhoto
           \/ DeleteCurrentPhoto \/ DeleteSelectedPhotos \/ ClearCurrentPhotos
  BY <1>7, ListedKept
  DEF RefreshAll, Play, SeekTimeline, SelectPhotos, OpenPhoto, ClosePhoto, DeleteCurrentPhoto,
      DeleteSelectedPhotos, ClearCurrentPhotos, Delete, Hub, Lists, Grid, archiveVars
<1>. QED
  BY <1>1, <1>2, <1>3, <1>4, <1>5, <1>6, <1>7 DEF ArchiveNext, PhotoClicks

LEMMA ListedStep == ASSUME Listed, Deletions, [Next]_vars PROVE Listed'
<1>1. ASSUME NEW target, ActivateView(target) PROVE Listed'
  <2>1. UNCHANGED <<known, stored, devices, device, records>>
    BY <1>1 DEF ActivateView, Hub, Lists
  <2>2. CASE LoadPhotos(Older({"photos"}), device, "view")
    BY <2>1, <2>2, OlderAsked, PhotosAsked, ListsStay
  <2>3. CASE UNCHANGED <<loads, photos, adopted>>
    BY <2>1, <2>3, ListedKept
  <2>. QED
    BY <1>1, <2>2, <2>3 DEF ActivateView
<1>2. ASSUME NEW d, Select(d) PROVE Listed'
  <2>1. /\ device' = d /\ d \in devices /\ photos' = {} /\ adopted' = FALSE /\ records' = NoRecords
        /\ loads' = Older({"days", "records", "photos"}) \cup {Load("days", "device", d, None)}
        /\ UNCHANGED <<known, stored, devices>>
    BY <1>2 DEF Select, SelectDevice, Hub
  <2>2. Asks'
    BY <2>1, OlderAsked, NewAsked DEF Asks
  <2>. QED
    BY <2>1, <2>2 DEF Listed, HubKeeps, Chosen, Shown, ListsOfDevice, NoRecords, Table
<1>3. CASE ArchiveNext
  BY <1>3, ArchiveListed
<1>4. CASE UNCHANGED archiveVars
  BY <1>4, ListedKept DEF archiveVars
<1>. QED
  BY <1>1, <1>2, <1>3, <1>4 DEF Next, vars, StartLive, StopLive

(* The table and the grid show the device that is selected, or are known to be   *)
(* what a refresh left of another, in whatever order the answers come and        *)
(* devices, days and views are chosen meanwhile, for any devices and photos.    *)
THEOREM ListsAreOfTheDevice == Spec => []ListsOfDevice
<1>1. Init => Listed /\ Deletions
  <2>. SUFFICES ASSUME ArchiveInit PROVE Listed /\ Deletions
    BY DEF Init
  <2>1. Asks /\ Chosen /\ Shown
    BY DEF ArchiveInit, Asks, Chosen, Shown, ListsOfDevice, NoRecords, Table
  <2>2. HubKeeps
    BY ArchiveAssumption DEF ArchiveInit, HubKeeps
  <2>. QED
    BY <2>1, <2>2 DEF Listed, ArchiveInit, Deletions
<1>2. (Listed /\ Deletions) /\ [Next]_vars => (Listed /\ Deletions)'
  BY ListedStep, DeletionsStep
<1>3. Listed => ListsOfDevice
  BY DEF Listed, Shown
<1>. QED
  BY <1>1, <1>2, <1>3, PTL DEF Spec

-----------------------------------------------------------------------------
(***************************************************************************)
(* The live player.  One start at most is current, and what it connects is of   *)
(* the mode that is set: until then nothing is connected, unless it is the WebRTC *)
(* peer.  While there is a feed, or a start that will connect one, the live view *)
(* is shown.                                                                *)
(***************************************************************************)
Begun(b) ==
    /\ b \in [mode : {"mse", "webrtc", "moq"}, device : {b.device}, id : Nat,
              stage : {"opening", "offer", "posted", "answer", "status"}, current : BOOLEAN]
    /\ b.mode = "mse" <=> b.stage = "opening"
    /\ b.mode = "moq" <=> b.stage = "status"

Starting == {b \in begun : b.current}

OfMode ==
    /\ \A f, g \in feeds : f = g
    /\ \A f \in feeds : f.kind = mode
    /\ \A b, c \in Starting : b = c
    /\ \A b \in Starting : mode = b.mode /\ (b.mode # "webrtc" => feeds = {})

Seen == feeds # {} \/ Starting # {} => view = "live" /\ watching # None

Feeding == (\A b \in begun : Begun(b)) /\ made \in Nat /\ OfMode /\ Seen

LEMMA FeedingKept ==
    ASSUME Feeding, UNCHANGED <<mode, feeds, begun, made, view, watching>>
    PROVE  Feeding'
BY DEF Feeding, OfMode, Seen, Starting, Begun

LEMMA DroppedOld ==
    ASSUME Feeding
    PROVE  \A b \in Dropped : Begun(b) /\ ~ b.current
<1>. SUFFICES ASSUME NEW o \in begun
              PROVE  LET b == [o EXCEPT !.current = FALSE] IN Begun(b) /\ ~ b.current
  BY DEF Dropped
<1>1. Begun(o)
  BY DEF Feeding
<1>. QED
  BY <1>1 DEF Begun

LEMMA StopFeeding == ASSUME Feeding, StopHubLive PROVE Feeding'
<1>1. begun' = Dropped /\ feeds' = {} /\ UNCHANGED made
  BY DEF StopHubLive
<1>2. \A b \in begun' : Begun(b) /\ ~ b.current
  BY <1>1, DroppedOld
<1>. QED
  BY <1>1, <1>2 DEF Feeding, OfMode, Seen, Starting

(* A start of which the first await comes before it connects, or whose peer is    *)
(* made at once.                                                            *)
LEMMA BeginFeeding ==
    ASSUME Feeding, NEW kind \in {"mse", "webrtc", "moq"}, NEW d, NEW stage,
           stage = (CASE kind = "mse" -> "opening" [] kind = "moq" -> "status"
                      [] kind = "webrtc" -> "offer"),
           Begin(kind, d, stage), mode' = kind, made' \in Nat,
           feeds' = IF kind = "webrtc" THEN {Feed("webrtc", d)} ELSE {},
           view' = "live", watching' # None
    PROVE  Feeding'
<1>. DEFINE new == [mode |-> kind, device |-> d, id |-> made', stage |-> stage, current |-> TRUE]
<1>1. begun' = Dropped \cup {new}
  BY DEF Begin
<1>2. Begun(new) /\ new.current /\ new.mode = kind
  BY DEF Begun
<1>. HIDE DEF new
<1>3. \A b \in begun' : Begun(b) /\ (b.current => b = new)
  BY <1>1, <1>2, DroppedOld
<1>4. \A f \in feeds' : f = Feed("webrtc", d) /\ kind = "webrtc"
  OBVIOUS
<1>5. Feed("webrtc", d).kind = "webrtc"
  BY DEF Feed
<1>6. OfMode'
  BY <1>2, <1>3, <1>4, <1>5 DEF OfMode, Starting
<1>. QED
  BY <1>3, <1>6 DEF Feeding, Seen

LEMMA StartLiveFeeding == ASSUME Feeding, StartLive PROVE Feeding'
<1>1. view' = "live" /\ watching' # None
  BY DEF StartLive, archiveVars
<1>2. made \in Nat
  BY DEF Feeding
<1>3. CASE StartHubLive(device)
  BY <1>1, <1>2, <1>3, BeginFeeding DEF StartHubLive
<1>4. CASE StartHubMoq(device)
  BY <1>1, <1>2, <1>4, BeginFeeding DEF StartHubMoq
<1>5. CASE StartHubWebRtc(device)
  BY <1>1, <1>2, <1>5, BeginFeeding DEF StartHubWebRtc
<1>6. CASE StartHubFlv(device)
  <2>1. begun' = Dropped /\ UNCHANGED made
    BY <1>6 DEF StartHubFlv
  <2>2. \A b \in begun' : Begun(b) /\ ~ b.current
    BY <2>1, DroppedOld
  <2>3. \A f \in feeds' : f = Feed("flv", device) /\ mode' = "flv"
    BY <1>6 DEF StartHubFlv, FlvPlayer
  <2>4. Feed("flv", device).kind = "flv"
    BY DEF Feed
  <2>. QED
    BY <1>1, <1>2, <2>1, <2>2, <2>3, <2>4 DEF Feeding, OfMode, Seen, Starting
<1>. QED
  BY <1>3, <1>4, <1>5, <1>6 DEF StartLive

LEMMA FurtherBegun ==
    ASSUME Feeding, NEW b \in begun, NEW stage \in {"posted", "answer"}, b.mode = "webrtc"
    PROVE  LET c == [b EXCEPT !.stage = stage]
           IN  Begun(c) /\ c.current = b.current /\ c.mode = b.mode /\ c.id = b.id
                 /\ c.device = b.device /\ c.stage = stage
<1>1. Begun(b)
  BY DEF Feeding
<1>. QED
  BY <1>1 DEF Begun

LEMMA LiveFeeding ==
    ASSUME Feeding, NEW d, LiveGoesOn(d), UNCHANGED <<view, watching>>
    PROVE  Feeding'
<1>. PICK b \in begun :
        \/ LiveSourceOpened(b, d) \/ LiveSourceTimesOut(b)
        \/ PostOffer(b) \/ OfferAccepted(b) \/ OfferRefused(b) \/ WebRtcFails(b)
        \/ RemoteDescriptionSet(b)
        \/ MoqStatus(b, d) \/ MoqUnavailable(b)
  BY DEF LiveGoesOn
<1>a. Begun(b)
  BY DEF Feeding
<1>b. b.current => b \in Starting /\ view = "live" /\ watching # None
  BY DEF Feeding, Seen, Starting
<1>1. CASE LiveSourceOpened(b, d)
  <2>1. begun' = begun \ {b} /\ UNCHANGED made
    BY <1>1 DEF LiveSourceOpened, Over
  <2>2. CASE b.current
    <3>1. feeds = {} /\ mode = "mse" /\ (Starting \ {b} = {})
      BY <1>1, <1>a, <1>b, <2>2 DEF LiveSourceOpened, Begun, Feeding, OfMode
    <3>2. feeds' = {} \/ (feeds' = {Feed("mse", d)} /\ mode' = "mse")
      BY <1>1, <2>2, <3>1 DEF LiveSourceOpened
    <3>3. Starting' = {}
      BY <2>1, <3>1 DEF Starting
    <3>4. Feed("mse", d).kind = "mse"
      BY DEF Feed
    <3>5. OfMode'
      BY <3>2, <3>3, <3>4 DEF OfMode
    <3>. QED
      BY <1>b, <2>1, <2>2, <3>5 DEF Feeding, Seen
  <2>3. CASE ~ b.current
    BY <1>1, <2>1, <2>3 DEF LiveSourceOpened, Feeding, OfMode, Seen, Starting
  <2>. QED
    BY <2>2, <2>3
<1>2. CASE LiveSourceTimesOut(b) \/ RemoteDescriptionSet(b)
  <2>1. begun' = begun \ {b} /\ UNCHANGED <<mode, feeds, made>>
    BY <1>2 DEF LiveSourceTimesOut, RemoteDescriptionSet, Over
  <2>. QED
    BY <2>1 DEF Feeding, OfMode, Seen, Starting
<1>3. CASE PostOffer(b) \/ OfferAccepted(b)
  <2>1. b.mode = "webrtc"
    BY <1>3, <1>a DEF PostOffer, OfferAccepted, Begun
  <2>2. UNCHANGED <<mode, feeds, made>>
    BY <1>3 DEF PostOffer, OfferAccepted
  <2>3. CASE b.current
    <3>1. PICK stage \in {"posted", "answer"} : Further(b, stage)
      BY <1>3, <2>3 DEF PostOffer, OfferAccepted
    <3>. DEFINE c == [b EXCEPT !.stage = stage]
    <3>2. Begun(c) /\ c.current = b.current /\ c.mode = b.mode
      BY <2>1, FurtherBegun
    <3>3. begun' = (begun \ {b}) \cup {c}
      BY <3>1 DEF Further
    <3>. HIDE DEF c
    <3>4. Starting' = (Starting \ {b}) \cup {c}
      BY <2>3, <3>2, <3>3 DEF Starting
    <3>5. Starting = {b}
      BY <1>b, <2>3 DEF Feeding, OfMode
    <3>. QED
      BY <2>1, <2>2, <2>3, <3>2, <3>3, <3>4, <3>5 DEF Feeding, OfMode, Seen
  <2>4. CASE ~ b.current
    <3>1. begun' = begun \ {b}
      BY <1>3, <2>4 DEF PostOffer, OfferAccepted, Over
    <3>. QED
      BY <2>2, <3>1 DEF Feeding, OfMode, Seen, Starting
  <2>. QED
    BY <2>3, <2>4
<1>4. CASE OfferRefused(b) \/ WebRtcFails(b) \/ MoqUnavailable(b)
  <2>1. begun' = begun \ {b} /\ UNCHANGED made
    BY <1>4 DEF OfferRefused, WebRtcFails, MoqUnavailable, CloseAndGiveUp, GivesUp, Over
  <2>2. CASE b.current
    <3>1. feeds' = {} /\ mode' = ""
      BY <1>4, <2>2 DEF OfferRefused, WebRtcFails, MoqUnavailable, CloseAndGiveUp, GivesUp
    <3>2. Starting' = {}
      BY <1>b, <2>1, <2>2 DEF Starting, Feeding, OfMode
    <3>. QED
      BY <2>1, <3>1, <3>2 DEF Feeding, OfMode, Seen
  <2>3. CASE ~ b.current
    <3>1. UNCHANGED <<mode, feeds>>
      BY <1>4, <2>3 DEF OfferRefused, WebRtcFails, MoqUnavailable, CloseAndGiveUp
    <3>. QED
      BY <2>1, <3>1 DEF Feeding, OfMode, Seen, Starting
  <2>. QED
    BY <2>2, <2>3
<1>5. CASE MoqStatus(b, d)
  <2>1. begun' = begun \ {b} /\ UNCHANGED <<made, mode>>
    BY <1>5 DEF MoqStatus, Over
  <2>2. CASE b.current /\ b.device = d
    <3>1. feeds = {} /\ mode = "moq" /\ (Starting \ {b} = {})
      BY <1>5, <1>a, <1>b, <2>2 DEF MoqStatus, Begun, Feeding, OfMode
    <3>2. feeds' = {Feed("moq", d)}
      BY <1>5, <2>2, <3>1 DEF MoqStatus, MoqPlayer
    <3>3. Starting' = {}
      BY <2>1, <3>1 DEF Starting
    <3>4. Feed("moq", d).kind = "moq"
      BY DEF Feed
    <3>5. OfMode'
      BY <2>1, <3>1, <3>2, <3>3, <3>4 DEF OfMode
    <3>. QED
      BY <1>b, <2>1, <2>2, <3>5 DEF Feeding, Seen
  <2>3. CASE ~ (b.current /\ b.device = d)
    BY <1>5, <2>1, <2>3 DEF MoqStatus, Feeding, OfMode, Seen, Starting
  <2>. QED
    BY <2>2, <2>3
<1>. QED
  BY <1>1, <1>2, <1>3, <1>4, <1>5

LEMMA SocketFeeding ==
    ASSUME Feeding, SocketCloses, UNCHANGED <<view, watching>>
    PROVE  Feeding'
<1>1. PICK f \in feeds : f.kind = "mse" /\ feeds' = feeds \ {f}
  BY DEF SocketCloses
<1>2. feeds' = {} /\ mode = "mse"
  BY <1>1 DEF Feeding, OfMode
<1>3. UNCHANGED <<begun, made>>
  BY DEF SocketCloses
<1>4. Starting = {}
  <2>. SUFFICES ASSUME NEW b \in Starting PROVE FALSE
    OBVIOUS
  <2>1. b.mode = "mse" /\ feeds # {}
    BY <1>1, <1>2 DEF Feeding, OfMode
  <2>. QED
    BY <2>1 DEF Feeding, OfMode
<1>. QED
  BY <1>2, <1>3, <1>4 DEF Feeding, OfMode, Seen, Starting, Begun

LEMMA FeedingStep == ASSUME Feeding, [Next]_vars PROVE Feeding'
<1>1. ASSUME NEW target, ActivateView(target) PROVE Feeding'
  <2>1. CASE view = "live"
    BY <1>1, <2>1, StopFeeding DEF ActivateView
  <2>2. CASE view # "live"
    <3>1. feeds = {} /\ Starting = {} /\ UNCHANGED <<mode, feeds, begun, made>>
      BY <1>1, <2>2 DEF ActivateView, Live, liveVars, Feeding, Seen
    <3>. QED
      BY <3>1 DEF Feeding, OfMode, Seen, Starting, Begun
  <2>. QED
    BY <2>1, <2>2
<1>2. ASSUME NEW d, Select(d) PROVE Feeding'
  BY <1>2, StopFeeding DEF Select
<1>3. CASE StartLive
  BY <1>3, StartLiveFeeding
<1>4. CASE StopLive
  BY <1>4, StopFeeding DEF StopLive
<1>5. CASE LiveSteps /\ UNCHANGED <<archiveVars, watching>>
  BY <1>5, LiveFeeding DEF LiveSteps, archiveVars
<1>6. CASE SocketCloses /\ UNCHANGED <<archiveVars, watching>>
  BY <1>6, SocketFeeding DEF archiveVars
<1>7. CASE (RelaySteps \/ OthersCome) /\ UNCHANGED <<archiveVars, watching>>
  BY <1>7, FeedingKept DEF RelaySteps, OthersCome, OtherViewer, liveVars, archiveVars
<1>8. CASE ArchiveNext /\ UNCHANGED Live
  <2>1. UNCHANGED view
    BY <1>8
    DEF ArchiveNext, LoadGoesOn, HubReads, Overtaken, LoadFails, DaysAnswered, RecordsAnswered,
        PhotosAnswered, Refreshed, RefreshAnswered, RefreshFails, DeletionGoesOn, HubDeletes,
        Deleted, DeleteFails, RefreshAll, SelectDate, Play, SeekTimeline, PhotoClicks,
        SelectPhotos, RefreshPhotos, OpenPhoto, ClosePhoto, DeleteCurrentPhoto,
        DeleteSelectedPhotos, ClearCurrentPhotos, Delete, DevicesChange, archiveVars
  <2>. QED
    BY <1>8, <2>1, FeedingKept DEF Live, liveVars
<1>9. CASE (PlaybackNext /\ UNCHANGED <<archiveVars, Live>>) \/ UNCHANGED vars
  BY <1>9, FeedingKept DEF Live, liveVars, archiveVars, vars
<1>. QED
  BY <1>1, <1>2, <1>3, <1>4, <1>5, <1>6, <1>7, <1>8, <1>9 DEF Next

(* One stream plays at most, in the live view and for a device that was selected, *)
(* whatever start was still under way when the user stopped, left or chose       *)
(* another.                                                                 *)
THEOREM StreamsAreSeen == Spec => []NothingPlaysUnseen
<1>1. Init => Feeding
  <2>. SUFFICES ASSUME LiveInit PROVE Feeding
    BY DEF Init
  <2>1. begun = {} /\ feeds = {} /\ made \in Nat
    BY DEF LiveInit
  <2>. QED
    BY <2>1 DEF Feeding, OfMode, Seen, Starting
<1>2. Feeding /\ [Next]_vars => Feeding'
  BY FeedingStep
<1>3. Feeding => NothingPlaysUnseen
  <2>. SUFFICES ASSUME Feeding PROVE OneFeed
    BY DEF NothingPlaysUnseen, Feeding, Seen
  <2>1. CASE feeds = {}
    BY <2>1, FS_EmptySet DEF OneFeed
  <2>2. ASSUME NEW f \in feeds PROVE Cardinality(feeds) = 1
    <3>1. feeds = {f}
      BY <2>2 DEF Feeding, OfMode
    <3>. QED
      BY <3>1, FS_Singleton
  <2>. QED
    BY <2>1, <2>2 DEF OneFeed, Feeding, OfMode
<1>. QED
  BY <1>1, <1>2, <1>3, PTL DEF Spec

-----------------------------------------------------------------------------
(***************************************************************************)
(* The session that is watched is the last one made, and every request about    *)
(* another one that is still under way, or will be sent, has a lower number.    *)
(* Its one offer leads to a slot: from the answer on the session is in it, or   *)
(* another offer has superseded it.                                         *)
(***************************************************************************)
InSlot == session.id \in taken \/ \E s \in slots : Own(s) = session /\ s.running

Slots  == \A s \in slots : s \in [device : {s.device}, id : {s.id}, running : BOOLEAN]
Offers ==
    \A o \in offers : /\ o \in [device : {o.device}, id : Nat,
                                stage : {"sent", "creating", "accepted", "refused"}]
                     /\ o.id <= made

Numbered ==
    /\ \A b \in begun : b.id <= made
    /\ \A c \in closings : c.id \in Nat /\ c.id <= made

Last ==
    session # NoSession =>
        /\ made > 0 /\ session.id = made
        /\ session = [device |-> session.device, id |-> session.id]
        /\ \A c \in closings : c.id < made
        /\ \A b \in begun : b.mode = "webrtc" /\ ~ b.current => b.id < made

OfStart ==
    \A b \in Starting : IF b.mode = "webrtc" THEN Own(b) = session ELSE session = NoSession

OwnOffers == {o \in offers : o.id = made}

Progress ==
    session # NoSession =>
        /\ \A o, p \in OwnOffers : o = p
        /\ \A o \in OwnOffers : o.device = session.device
        /\ \A b \in Starting : b.stage = "offer" => OwnOffers = {}
        /\ \A o \in OwnOffers : o.stage = "accepted" => InSlot
        /\ (\A b \in Starting : b.stage = "answer") => InSlot /\ OwnOffers = {}

Sparing == Feeding /\ Slots /\ Offers /\ Numbered /\ Last /\ OfStart /\ Progress

LEMMA NoSessionSparing ==
    ASSUME Feeding', Slots', Offers', Numbered', session' = NoSession,
           \A b \in Starting' : b.mode # "webrtc"
    PROVE  Sparing'
BY DEF Sparing, Last, OfStart, Progress

LEMMA SparingKept ==
    ASSUME Sparing, Feeding', UNCHANGED <<relayVars, session, begun, made>>
    PROVE  Sparing'
BY DEF relayVars, Sparing, Slots, Offers, Numbered, Last, OfStart, Progress, OwnOffers, InSlot, Own,
       Starting

LEMMA ClosedNumbered == ASSUME Sparing PROVE \A c \in Closed : c.id \in Nat /\ c.id <= made
BY DEF Closed, Sparing, Numbered, Last, Feeding

LEMMA DroppedNumbered == ASSUME Sparing PROVE \A b \in Dropped : b.id <= made /\ ~ b.current
<1>. SUFFICES ASSUME NEW o \in begun
              PROVE  LET b == [o EXCEPT !.current = FALSE] IN b.id <= made /\ ~ b.current
  BY DEF Dropped
<1>1. Begun(o) /\ o.id <= made
  BY DEF Sparing, Feeding, Numbered
<1>. QED
  BY <1>1 DEF Begun

LEMMA StopSparing == ASSUME Sparing, Feeding', StopHubLive PROVE Sparing'
<1>1. begun' = Dropped /\ closings' = Closed /\ session' = NoSession
        /\ UNCHANGED <<slots, offers, taken, made>>
  BY DEF StopHubLive
<1>2. Numbered' /\ Starting' = {}
  BY <1>1, ClosedNumbered, DroppedNumbered DEF Numbered, Starting
<1>. QED
  BY <1>1, <1>2, NoSessionSparing DEF Sparing, Slots, Offers

LEMMA StartLiveSparing == ASSUME Sparing, Feeding', StartLive PROVE Sparing'
<1>0. made \in Nat
  BY DEF Sparing, Feeding
<1>1. closings' = Closed /\ UNCHANGED <<slots, offers, taken>>
  BY DEF StartLive, StartHubLive, StartHubFlv, StartHubWebRtc, StartHubMoq
<1>2. ASSUME UNCHANGED made, session' = NoSession,
             begun' = Dropped \/ \E kind \in {"mse", "moq"} : \E d, stage : Begin(kind, d, stage)
      PROVE  Sparing'
  <2>1. \A b \in begun' : b.id <= made /\ (b.current => b.mode # "webrtc")
    BY <1>0, <1>2, DroppedNumbered DEF Begin
  <2>. QED
    BY <1>1, <1>2, <2>1, ClosedNumbered, NoSessionSparing
    DEF Sparing, Slots, Offers, Numbered, Starting
<1>3. CASE StartHubLive(device)
  BY <1>2, <1>3 DEF StartHubLive
<1>4. CASE StartHubMoq(device)
  BY <1>2, <1>4 DEF StartHubMoq
<1>5. CASE StartHubFlv(device)
  BY <1>2, <1>5 DEF StartHubFlv
<1>6. CASE StartHubWebRtc(device)
  <2>. DEFINE new == [mode |-> "webrtc", device |-> device, id |-> made', stage |-> "offer",
                      current |-> TRUE]
              own == [device |-> device, id |-> made']
  <2>1. begun' = Dropped \cup {new} /\ session' = own /\ made' = made + 1
    BY <1>6 DEF StartHubWebRtc, Begin
  <2>2. new.current /\ new.id = made + 1 /\ new.mode = "webrtc" /\ new.stage = "offer"
          /\ Own(new) = own /\ own.id = made + 1
          /\ own = [device |-> own.device, id |-> own.id]
    BY <2>1 DEF Own
  <2>. HIDE DEF new, own
  <2>3. \A b \in begun' : b = new \/ (b.id <= made /\ ~ b.current)
    BY <2>1, DroppedNumbered
  <2>4. \A c \in closings' : c.id \in Nat /\ c.id <= made
    BY <1>1, ClosedNumbered
  <2>5. Starting' = {new}
    BY <2>1, <2>2, <2>3 DEF Starting
  <2>6. \A o \in offers' : o.id \in Nat /\ o.id <= made
    BY <1>1 DEF Sparing, Offers
  <2>7. Slots' /\ Offers'
    BY <1>0, <1>1, <2>1, <2>6 DEF Sparing, Slots, Offers
  <2>8. \A b \in begun' : b.id \in Nat
    BY DEF Feeding, Begun
  <2>9. Numbered' /\ Last'
    BY <1>0, <2>1, <2>2, <2>3, <2>4, <2>8 DEF Numbered, Last
  <2>10. OwnOffers' = {}
    BY <1>0, <2>1, <2>6 DEF OwnOffers
  <2>11. OfStart' /\ Progress'
    BY <2>1, <2>2, <2>5, <2>10 DEF OfStart, Progress
  <2>. QED
    BY <2>7, <2>9, <2>11 DEF Sparing
<1>. QED
  BY <1>3, <1>4, <1>5, <1>6 DEF StartLive

(* A start that is over without having watched, or whose session is watched now. *)
LEMMA OverSparing ==
    ASSUME Sparing, Feeding', NEW b \in begun, begun' = begun \ {b},
           UNCHANGED <<relayVars, session, made>>,
           b.current => b.mode # "webrtc" \/ b.stage = "answer"
    PROVE  Sparing'
<1>1. Starting' \subseteq Starting
  BY DEF Starting
<1>2. (session # NoSession /\ \A x \in Starting' : x.stage = "answer")
        => \A x \in Starting : x.stage = "answer"
  BY DEF Sparing, OfStart, Starting
<1>3. UNCHANGED <<slots, offers, closings, taken>>
  BY DEF relayVars
<1>4. UNCHANGED <<InSlot, OwnOffers>>
  BY <1>3 DEF InSlot, OwnOffers
<1>5. Slots' /\ Offers' /\ Numbered' /\ Last' /\ OfStart'
  BY <1>1, <1>3 DEF Sparing, Slots, Offers, Numbered, Last, OfStart
<1>6. Progress'
  BY <1>1, <1>2, <1>4 DEF Sparing, Progress
<1>. QED
  BY <1>5, <1>6 DEF Sparing

(* A start that was overtaken is over, and closes its session for good measure.  *)
LEMMA LateSparing ==
    ASSUME Sparing, Feeding', NEW b \in begun, ~ b.current, b.mode = "webrtc",
           begun' = begun \ {b}, offers' \subseteq offers,
           closings' \subseteq closings \cup {Own(b)},
           UNCHANGED <<slots, taken, session, made>>
    PROVE  Sparing'
<1>1. Starting' = Starting
  BY DEF Starting
<1>2. Own(b).id = b.id /\ b.id \in Nat
  BY DEF Own, Sparing, Feeding, Begun
<1>3. UNCHANGED InSlot /\ OwnOffers' \subseteq OwnOffers
  BY DEF InSlot, OwnOffers
<1>4. Slots' /\ Offers' /\ Numbered' /\ Last' /\ OfStart'
  BY <1>1, <1>2 DEF Sparing, Slots, Offers, Numbered, Last, OfStart
<1>5. Progress'
  BY <1>1, <1>3 DEF Sparing, Progress
<1>. QED
  BY <1>4, <1>5 DEF Sparing

LEMMA GivenUpSparing ==
    ASSUME Sparing, Feeding', NEW b \in begun, b.current,
           begun' = begun \ {b}, offers' \subseteq offers,
           closings' \subseteq closings \cup {Own(b)}, session' = NoSession,
           UNCHANGED <<slots, made>>
    PROVE  Sparing'
<1>1. Own(b).id = b.id /\ b.id \in Nat
  BY DEF Own, Sparing, Feeding, Begun
<1>2. Starting' = {}
  BY DEF Starting, Sparing, Feeding, OfMode
<1>. QED
  BY <1>1, <1>2, NoSessionSparing DEF Sparing, Slots, Offers, Numbered

LEMMA PostedSparing ==
    ASSUME Sparing, Feeding', NEW b \in begun, b.current, PostOffer(b)
    PROVE  Sparing'
<1>. DEFINE c == [b EXCEPT !.stage = "posted"]
            o == Offer(b.device, b.id)
<1>1. b.stage = "offer" /\ b.mode = "webrtc" /\ b \in Starting /\ Starting = {b}
        /\ b.id \in Nat /\ b.id <= made
  BY DEF PostOffer, Sparing, Feeding, Begun, OfMode, Starting, Numbered
<1>2. Begun(c) /\ c.current /\ c.mode = "webrtc" /\ c.id = b.id /\ c.device = b.device
        /\ c.stage = "posted"
  BY <1>1, FurtherBegun DEF Sparing
<1>3. Own(c) = session /\ Own(b) = session /\ session.id = b.id /\ session.device = b.device
  BY <1>1, <1>2 DEF Sparing, OfStart, Own
<1>4. o \in [device : {o.device}, id : Nat, stage : {"sent", "creating", "accepted", "refused"}]
        /\ o.id = b.id /\ o.device = b.device /\ o.stage = "sent"
  BY <1>1 DEF Offer
<1>5. begun' = (begun \ {b}) \cup {c} /\ offers' = offers \cup {o}
        /\ UNCHANGED <<slots, closings, taken, session, made>>
  BY DEF PostOffer, Further
<1>. HIDE DEF c, o
<1>6. Starting' = {c}
  BY <1>1, <1>2, <1>5 DEF Starting
<1>7. Slots' /\ Offers' /\ Numbered' /\ OfStart'
  BY <1>1, <1>2, <1>3, <1>4, <1>5, <1>6 DEF Sparing, Slots, Offers, Numbered, OfStart
<1>8. Last'
  BY <1>2, <1>5 DEF Sparing, Last
<1>9. session # NoSession => OwnOffers' \subseteq {o}
  BY <1>1, <1>5 DEF Sparing, Progress, OwnOffers
<1>10. Progress'
  BY <1>2, <1>3, <1>4, <1>5, <1>6, <1>9 DEF Progress
<1>. QED
  BY <1>7, <1>8, <1>10 DEF Sparing

LEMMA AcceptedSparing ==
    ASSUME Sparing, Feeding', NEW b \in begun, b.current, OfferAccepted(b)
    PROVE  Sparing'
<1>. DEFINE c == [b EXCEPT !.stage = "answer"]
<1>1. b.stage = "posted" /\ b.mode = "webrtc" /\ b \in Starting /\ Starting = {b}
        /\ b.id \in Nat /\ b.id <= made
  BY DEF OfferAccepted, Sparing, Feeding, Begun, OfMode, Starting, Numbered
<1>2. Begun(c) /\ c.current /\ c.mode = "webrtc" /\ c.id = b.id /\ c.device = b.device
        /\ c.stage = "answer"
  BY <1>1, FurtherBegun DEF Sparing
<1>3. Own(c) = session /\ Own(b) = session /\ session.id = b.id
  BY <1>1, <1>2 DEF Sparing, OfStart, Own
<1>4. PICK o \in offers : o.id = b.id /\ o.stage = "accepted" /\ offers' = offers \ {o}
  BY DEF OfferAccepted, Answered
<1>5. begun' = (begun \ {b}) \cup {c} /\ UNCHANGED <<slots, closings, taken, session, made>>
  BY DEF OfferAccepted, Further
<1>. HIDE DEF c
<1>6. Starting' = {c}
  BY <1>1, <1>2, <1>5 DEF Starting
<1>7. Slots' /\ Offers' /\ Numbered' /\ OfStart'
  BY <1>1, <1>2, <1>3, <1>4, <1>5, <1>6 DEF Sparing, Slots, Offers, Numbered, OfStart
<1>8. Last'
  BY <1>2, <1>5 DEF Sparing, Last
<1>9. session # NoSession => OwnOffers' = {} /\ InSlot'
  <2>. SUFFICES ASSUME session # NoSession PROVE OwnOffers' = {} /\ InSlot'
    OBVIOUS
  <2>1. o \in OwnOffers
    BY <1>3, <1>4 DEF OwnOffers, Sparing, Last
  <2>2. OwnOffers = {o} /\ InSlot
    BY <1>4, <2>1 DEF Sparing, Progress
  <2>. QED
    BY <1>4, <1>5, <2>2 DEF OwnOffers, InSlot
<1>10. Progress'
  BY <1>2, <1>5, <1>6, <1>9 DEF Progress
<1>. QED
  BY <1>7, <1>8, <1>10 DEF Sparing

LEMMA LiveSparing ==
    ASSUME Sparing, Feeding', NEW d, LiveGoesOn(d)
    PROVE  Sparing'
<1>. PICK b \in begun :
        \/ LiveSourceOpened(b, d) \/ LiveSourceTimesOut(b)
        \/ PostOffer(b) \/ OfferAccepted(b) \/ OfferRefused(b) \/ WebRtcFails(b)
        \/ RemoteDescriptionSet(b)
        \/ MoqStatus(b, d) \/ MoqUnavailable(b)
  BY DEF LiveGoesOn
<1>a. Begun(b)
  BY DEF Sparing, Feeding
<1>1. CASE LiveSourceOpened(b, d) \/ LiveSourceTimesOut(b) \/ RemoteDescriptionSet(b) \/ MoqStatus(b, d)
  <2>1. begun' = begun \ {b} /\ UNCHANGED <<relayVars, session, made>>
    BY <1>1 DEF LiveSourceOpened, LiveSourceTimesOut, RemoteDescriptionSet, MoqStatus, Over
  <2>2. b.mode # "webrtc" \/ b.stage = "answer"
    BY <1>1, <1>a DEF LiveSourceOpened, LiveSourceTimesOut, RemoteDescriptionSet, MoqStatus, Begun
  <2>. QED
    BY <2>1, <2>2, OverSparing
<1>2. CASE MoqUnavailable(b)
  <2>1. begun' = begun \ {b} /\ UNCHANGED <<relayVars, made>> /\ b.mode # "webrtc"
    BY <1>2, <1>a DEF MoqUnavailable, Over, GivesUp, Begun
  <2>2. UNCHANGED session
    BY <1>2, <2>1 DEF MoqUnavailable, GivesUp, Sparing, OfStart, Starting
  <2>. QED
    BY <2>1, <2>2, OverSparing
<1>3. CASE PostOffer(b)
  <2>1. CASE b.current
    BY <1>3, <2>1, PostedSparing
  <2>2. CASE ~ b.current
    BY <1>3, <2>2, OverSparing DEF PostOffer, Over, relayVars
  <2>. QED
    BY <2>1, <2>2
<1>4. CASE OfferAccepted(b)
  <2>1. CASE b.current
    BY <1>4, <2>1, AcceptedSparing
  <2>2. CASE ~ b.current
    <3>1. b.mode = "webrtc" /\ begun' = begun \ {b} /\ closings' = closings \cup {Own(b)}
            /\ offers' \subseteq offers /\ UNCHANGED <<slots, taken, session, made>>
      BY <1>4, <1>a, <2>2 DEF OfferAccepted, Over, Begun
    <3>. QED
      BY <2>2, <3>1, LateSparing
  <2>. QED
    BY <2>1, <2>2
<1>5. CASE OfferRefused(b) \/ WebRtcFails(b)
  <2>1. b.mode = "webrtc"
    BY <1>5, <1>a DEF OfferRefused, WebRtcFails, Begun
  <2>2. begun' = begun \ {b} /\ closings' = closings \cup {Own(b)} /\ offers' \subseteq offers
          /\ UNCHANGED <<slots, taken, made>>
    BY <1>5 DEF OfferRefused, WebRtcFails, CloseAndGiveUp, GivesUp, Over
  <2>3. CASE b.current
    <3>1. session' = NoSession
      BY <1>5, <2>3 DEF OfferRefused, WebRtcFails, CloseAndGiveUp, GivesUp
    <3>. QED
      BY <2>2, <2>3, <3>1, GivenUpSparing
  <2>4. CASE ~ b.current
    <3>1. UNCHANGED session
      BY <1>5, <2>4 DEF OfferRefused, WebRtcFails, CloseAndGiveUp
    <3>. QED
      BY <2>1, <2>2, <2>4, <3>1, LateSparing
  <2>. QED
    BY <2>3, <2>4
<1>. QED
  BY <1>1, <1>2, <1>3, <1>4, <1>5
-----------------------------------------------------------------------------
(* The hub.  What it does to the offers and slots of other sessions does not     *)
(* matter; its own offer takes its slot, or is refused.                       *)
LEMMA TurnsSparing ==
    ASSUME Sparing, Feeding', NEW o \in offers,
           NEW stage \in {"creating", "accepted", "refused"}, Turns(o, stage),
           Slots', UNCHANGED <<closings, session, begun, made>>,
           session # NoSession /\ o.id # made /\ InSlot => InSlot',
           session # NoSession /\ o.id = made /\ stage = "accepted" => InSlot',
           o.stage \in {"sent", "creating"}
    PROVE  Sparing'
<1>. DEFINE t == [o EXCEPT !.stage = stage]
<1>1. o \in [device : {o.device}, id : Nat,
             stage : {"sent", "creating", "accepted", "refused"}] /\ o.id <= made
  BY DEF Sparing, Offers
<1>2. /\ t \in [device : {t.device}, id : Nat,
                stage : {"sent", "creating", "accepted", "refused"}]
      /\ t.id = o.id /\ t.device = o.device /\ t.stage = stage
  BY <1>1
<1>3. offers' = (offers \ {o}) \cup {t}
  BY DEF Turns
<1>. HIDE DEF t
<1>4. Offers' /\ Numbered' /\ Last' /\ OfStart' /\ Starting' = Starting
  BY <1>1, <1>2, <1>3 DEF Sparing, Offers, Numbered, Last, OfStart, Starting
<1>5. SUFFICES ASSUME session # NoSession PROVE Progress'
  BY <1>4 DEF Sparing, Progress
<1>6. CASE o.id = made
  <2>1. OwnOffers = {o} /\ OwnOffers' = {t}
    BY <1>2, <1>3, <1>5, <1>6 DEF Sparing, Progress, OwnOffers
  <2>. QED
    BY <1>2, <1>4, <1>5, <1>6, <2>1 DEF Sparing, Progress
<1>7. CASE o.id # made
  <2>1. OwnOffers' = OwnOffers
    BY <1>2, <1>3, <1>7 DEF OwnOffers
  <2>. QED
    BY <1>4, <1>5, <1>7, <2>1 DEF Sparing, Progress
<1>. QED
  BY <1>6, <1>7

(* The slot of another session ends.                                         *)
LEMMA OthersEnd ==
    ASSUME Sparing, session # NoSession, InSlot, NEW S,
           \A s \in S : s.id # made, slots' = slots \ S,
           taken \subseteq taken', UNCHANGED session
    PROVE  InSlot'
<1>1. session.id = made
  BY DEF Sparing, Last
<1>2. \A s \in slots : Own(s) = session => s.id = made
  BY <1>1 DEF Own
<1>. QED
  BY <1>2 DEF InSlot

LEMMA AnswerSparing ==
    ASSUME Sparing, Feeding', NEW o \in offers, Answer(o), UNCHANGED liveVars
    PROVE  Sparing'
<1>. DEFINE new == [device |-> o.device, id |-> o.id, running |-> FALSE]
            previous == {s \in slots : s.device = o.device}
<1>1. new \in [device : {new.device}, id : {new.id}, running : BOOLEAN]
  OBVIOUS
<1>2. /\ slots' = (slots \ previous) \cup {new}
      /\ taken' = taken \cup {s.id : s \in previous}
      /\ Turns(o, "creating") /\ o.stage = "sent"
      /\ UNCHANGED <<closings, session, begun, made>>
  BY DEF Answer, liveVars
<1>. HIDE DEF new
<1>3. Slots'
  BY <1>1, <1>2 DEF Sparing, Slots
<1>4. ASSUME session # NoSession, InSlot PROVE InSlot'
  <2>1. CASE session.id \in taken
    BY <1>2, <2>1 DEF InSlot
  <2>2. ASSUME NEW s \in slots, Own(s) = session, s.running PROVE InSlot'
    <3>1. s.id = session.id
      BY <2>2 DEF Own
    <3>2. CASE s \in previous
      BY <1>2, <3>1, <3>2 DEF InSlot
    <3>3. CASE s \notin previous
      BY <1>2, <2>2, <3>3 DEF InSlot, Own
    <3>. QED
      BY <3>2, <3>3
  <2>. QED
    BY <1>4, <2>1, <2>2 DEF InSlot
<1>. QED
  BY <1>2, <1>3, <1>4, TurnsSparing

LEMMA CreatedSparing ==
    ASSUME Sparing, Feeding', NEW o \in offers, SessionCreated(o), UNCHANGED liveVars
    PROVE  Sparing'
<1>1. UNCHANGED <<closings, taken, session, begun, made>> /\ o.stage = "creating"
  BY DEF SessionCreated, liveVars
<1>2. CASE OfId(o) = {}
  <2>1. UNCHANGED slots /\ Turns(o, "refused")
    BY <1>2 DEF SessionCreated
  <2>. QED
    BY <1>1, <2>1, TurnsSparing DEF Sparing, Slots, InSlot
<1>3. CASE OfId(o) # {}
  <2>. DEFINE runs(s) == [s EXCEPT !.running = TRUE]
  <2>1. slots' = (slots \ OfId(o)) \cup {runs(s) : s \in OfId(o)} /\ Turns(o, "accepted")
    BY <1>3 DEF SessionCreated
  <2>2. \A s \in slots : s \in [device : {s.device}, id : {s.id}, running : BOOLEAN]
    BY DEF Sparing, Slots
  <2>3. \A s \in slots :
           /\ runs(s) \in [device : {s.device}, id : {s.id}, running : BOOLEAN]
           /\ runs(s).device = s.device /\ runs(s).id = s.id /\ runs(s).running
    BY <2>2
  <2>4. OfId(o) \subseteq slots
    BY DEF OfId
  <2>. HIDE DEF runs
  <2>5. Slots'
    BY <2>1, <2>2, <2>3, <2>4 DEF Slots
  <2>6. ASSUME session # NoSession, InSlot PROVE InSlot'
    <3>1. CASE session.id \in taken
      BY <1>1, <3>1 DEF InSlot
    <3>2. ASSUME NEW s \in slots, Own(s) = session, s.running PROVE InSlot'
      <4>1. \E r \in slots' : Own(r) = Own(s) /\ r.running
        BY <2>1, <2>3, <2>4, <3>2 DEF Own
      <4>. QED
        BY <1>1, <3>2, <4>1 DEF InSlot, Own
    <3>. QED
      BY <2>6, <3>1, <3>2 DEF InSlot
  <2>7. ASSUME session # NoSession, o.id = made PROVE InSlot'
    <3>1. PICK s \in OfId(o) : TRUE
      BY <1>3
    <3>2. runs(s) \in slots' /\ runs(s).running
            /\ runs(s).device = o.device /\ runs(s).id = o.id
      BY <2>1, <2>3, <2>4, <3>1 DEF OfId
    <3>3. o.device = session.device /\ o.id = session.id
            /\ session = [device |-> session.device, id |-> session.id]
      BY <2>7 DEF Sparing, Progress, Last, OwnOffers
    <3>4. Own(runs(s)) = session
      BY <3>2, <3>3 DEF Own
    <3>. QED
      BY <1>1, <3>2, <3>4 DEF InSlot, Own
  <2>. QED
    BY <1>1, <2>1, <2>5, <2>6, <2>7, TurnsSparing
<1>. QED
  BY <1>2, <1>3

LEMMA RelaySparing == ASSUME Sparing, Feeding', RelayNext, UNCHANGED liveVars PROVE Sparing'
<1>1. UNCHANGED <<session, begun, made>>
  BY DEF liveVars
<1>2. ASSUME NEW o \in offers, OfferFails(o) PROVE Sparing'
  <2>1. PICK S \in SUBSET OfId(o) : slots' = slots \ S
    BY <1>2 DEF OfferFails
  <2>2. \A s \in S : s.id = o.id
    BY DEF OfId
  <2>3. Turns(o, "refused") /\ o.stage \in {"sent", "creating"} /\ UNCHANGED <<closings, taken>>
    BY <1>2 DEF OfferFails
  <2>4. Slots'
    BY <2>1 DEF Sparing, Slots
  <2>5. session # NoSession /\ o.id # made /\ InSlot => InSlot'
    BY <1>1, <2>1, <2>2, <2>3, OthersEnd
  <2>. QED
    BY <1>1, <2>3, <2>4, <2>5, TurnsSparing
<1>3. ASSUME NEW c \in closings, Close(c) \/ CloseLost(c) PROVE Sparing'
  <2>1. PICK S \in SUBSET OfId(c) : slots' = slots \ S
    <3>1. slots' \in {slots \ OfId(c), slots \ {}}
      BY <1>3 DEF Close, CloseLost, Matching
    <3>. QED
      BY <3>1
  <2>2. \A s \in S : s.id = c.id
    BY DEF OfId
  <2>3. closings' \subseteq closings /\ UNCHANGED <<offers, taken>>
    BY <1>3 DEF Close, CloseLost
  <2>4. session # NoSession /\ InSlot => InSlot'
    BY <1>1, <2>1, <2>2, <2>3, OthersEnd DEF Sparing, Last, Numbered, Feeding
  <2>5. Slots' /\ Offers' /\ Numbered' /\ Last' /\ OfStart'
    BY <1>1, <2>1, <2>3 DEF Sparing, Slots, Offers, Numbered, Last, OfStart, Starting
  <2>6. Progress'
    BY <1>1, <2>3, <2>4 DEF Sparing, Progress, OwnOffers, Starting
  <2>. QED
    BY <2>5, <2>6 DEF Sparing
<1>. QED
  BY <1>2, <1>3, AnswerSparing, CreatedSparing DEF RelayNext

(* The offer of another viewer is none of the page.                           *)
LEMMA ViewerSparing == ASSUME Sparing, Feeding', NEW d, OtherViewer(d) PROVE Sparing'
<1>. DEFINE o == Offer(d, Stranger)
<1>1. o \in [device : {o.device}, id : Nat, stage : {"sent", "creating", "accepted", "refused"}]
        /\ o.id = 0
  BY DEF Offer, Stranger
<1>2. offers' = offers \cup {o}
        /\ UNCHANGED <<slots, closings, taken, mode, feeds, session, begun, made>>
  BY DEF OtherViewer, liveVars
<1>. HIDE DEF o
<1>3. made \in Nat
  BY DEF Sparing, Feeding
<1>4. Slots' /\ Offers' /\ Numbered' /\ Last' /\ OfStart'
  BY <1>1, <1>2, <1>3 DEF Sparing, Slots, Offers, Numbered, Last, OfStart, Starting
<1>5. session # NoSession => OwnOffers' = OwnOffers
  BY <1>1, <1>2, <1>3 DEF Sparing, Last, OwnOffers
<1>6. Progress'
  BY <1>2, <1>5 DEF Sparing, Progress, InSlot, Starting
<1>. QED
  BY <1>4, <1>6 DEF Sparing

LEMMA SparingStep == ASSUME Sparing, [Next]_vars PROVE Sparing'
<1>0. Feeding'
  BY FeedingStep DEF Sparing
<1>1. ASSUME NEW target, ActivateView(target) PROVE Sparing'
  BY <1>0, <1>1, StopSparing, SparingKept DEF ActivateView, Live, liveVars
<1>2. ASSUME NEW d, Select(d) PROVE Sparing'
  BY <1>0, <1>2, StopSparing DEF Select
<1>3. CASE StartLive
  BY <1>0, <1>3, StartLiveSparing
<1>4. CASE StopLive
  BY <1>0, <1>4, StopSparing DEF StopLive
<1>5. CASE LiveSteps
  BY <1>0, <1>5, LiveSparing DEF LiveSteps
<1>6. CASE RelaySteps
  BY <1>0, <1>6, RelaySparing DEF RelaySteps
<1>7. CASE OthersCome
  BY <1>0, <1>7, ViewerSparing DEF OthersCome
<1>8. CASE SocketCloses
  BY <1>0, <1>8, SparingKept DEF SocketCloses
<1>9. CASE UNCHANGED Live
  BY <1>0, <1>9, SparingKept DEF Live, liveVars
<1>. QED
  BY <1>1, <1>2, <1>3, <1>4, <1>5, <1>6, <1>7, <1>8, <1>9 DEF Next, vars, Live

(* What the user watches over WebRTC goes on until another offer takes the       *)
(* camera: no request about an older session of the page, or one that failed,    *)
(* ends it, in whatever order the requests arrive.                             *)
THEOREM OldRequestsSpareTheSession == Spec => []OldRequestsSpareIt
<1>1. Init => Sparing
  <2>. SUFFICES ASSUME LiveInit, RelayInit PROVE Sparing
    BY DEF Init
  <2>1. /\ begun = {} /\ feeds = {} /\ made \in Nat /\ session = NoSession
        /\ slots = {} /\ offers = {} /\ closings = {}
    BY DEF LiveInit, RelayInit
  <2>2. Feeding
    BY <2>1 DEF Feeding, OfMode, Seen, Starting
  <2>. QED
    BY <2>1, <2>2 DEF Sparing, Slots, Offers, Numbered, Last, OfStart, Progress, Starting
<1>2. Sparing /\ [Next]_vars => Sparing'
  BY SparingStep
<1>3. Sparing => OldRequestsSpareIt
  <2>. SUFFICES ASSUME Sparing, Watched
                PROVE  session \notin closings /\ InSlot
    BY DEF OldRequestsSpareIt, InSlot
  <2>1. session # NoSession /\ Starting = {}
    BY DEF Watched, Starting
  <2>. QED
    BY <2>1 DEF Sparing, Last, Progress, Feeding
<1>. QED
  BY <1>1, <1>2, <1>3, PTL DEF Spec
=============================================================================
