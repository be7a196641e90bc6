------------------------------- MODULE Archive -------------------------------
(***************************************************************************)
(* The devices, recordings and photos of the hub page                        *)
(* (web-src/static/app.js): which device, day and photos are selected, the    *)
(* lists that are shown, the requests that fill them, and the photos that are *)
(* deleted.  The recordings are played by Playback.                          *)
(*                                                                         *)
(* A list is asked for by a request with a number, and an answer is taken     *)
(* when it is the last of its kind and the selection is still the one it was   *)
(* asked for.  Here a request is the latest or not.  Deleting photos has no    *)
(* such number: its answer changes what is selected by then.                 *)
(*                                                                         *)
(* Of the hub there are the devices it knows, the days with recordings and     *)
(* the photos of each.  Devices come and go with their connections and with   *)
(* restarts of the hub.                                                     *)
(***************************************************************************)
EXTENDS Playback

CONSTANTS
    Device,   \* the devices that may be connected
    Date,     \* the days
    Name,     \* the names of recordings
    Days,     \* the days each device has recordings of
    Photos    \* the photos of each device at the beginning

ASSUME ArchiveAssumption ==
    /\ Days \in [Device -> SUBSET Date]
    /\ Photos = [d \in Device |-> Photos[d]]

VARIABLES
    known,      \* the devices the hub lists
    stored,     \* the photos the hub keeps of each device
    view,       \* state.view
    devices,    \* state.devices
    device,     \* state.device
    date,       \* state.date
    days,       \* the options of the date select, of state.days
    records,    \* the table of recordings, and the selection it was read for
    photos,     \* state.photos, the grid
    selection,  \* state.photoSelection
    current,    \* state.currentPhoto, the one in the lightbox
    locked,     \* the buttons that are disabled while they work
    refresh,    \* state.busy: where refreshAll() is
    loads,      \* the requests for days, recordings and photos
    deletions,  \* the deletions under way
    adopted     \* history: the device was replaced under the photos by a refresh

archiveVars == <<known, stored, view, devices, device, date, days, records, photos, selection,
                 current, locked, refresh, loads, deletions, adopted>>

None == "none"

(* What an operation on photos, or one on lists, leaves alone.                *)
Lists == <<devices, device, date, days, records>>
Grid  == <<photos, adopted, selection, current, locked>>
Hub   == <<known, stored>>

(* A table is adopted when a refresh has replaced its device under it.         *)
Table(dev, day, names) == [device |-> dev, date |-> day, names |-> names, adopted |-> FALSE]
NoRecords == Table(None, None, {})
Pick(S)   == IF S = {} THEN None ELSE CHOOSE x \in S : TRUE

(* The page begins with refreshAll().                                        *)
ArchiveInit ==
    /\ known = Device /\ stored = Photos
    /\ view \in {"live", "playback", "photos"}
    /\ devices = {} /\ device = None /\ date = None /\ days = {}
    /\ records = NoRecords /\ photos = {} /\ selection = {} /\ current = None
    /\ locked = {} /\ refresh = "asked" /\ loads = {} /\ deletions = {} /\ adopted = FALSE

-----------------------------------------------------------------------------
(* Requests.  A new one of a kind makes the others of its kind old.            *)
Load(kind, for, dev, day) ==
    [kind |-> kind, for |-> for, device |-> dev, date |-> day, latest |-> TRUE,
     answered |-> FALSE, seen |-> {}]

Older(kinds) == {IF l.kind \in kinds THEN [l EXCEPT !.latest = FALSE] ELSE l : l \in loads}

(* Mutation: an answer is taken for the selection of the moment.             *)
Owned_Latest(l) == l.latest

(* The check after each await.                                               *)
Owned(l) == l.latest /\ l.device = device /\ (l.kind = "records" => l.date = date)

(* renderRecords(): an empty table stops the player.                          *)
RenderRecords(table) ==
    /\ records' = table
    /\ IF table.names = {} THEN StopRecordPlayback ELSE UNCHANGED playbackVars

(* loadPhotos() of device d, called by who.                                   *)
LoadPhotos(others, d, who) ==
    IF d = None
    THEN loads' = others /\ photos' = {} /\ adopted' = FALSE /\ UNCHANGED locked
    ELSE /\ loads' = {IF l.kind = "photos" THEN [l EXCEPT !.latest = FALSE] ELSE l : l \in others}
                       \cup {Load("photos", who, d, None)}
         /\ locked' = locked \cup {"refreshPhotos"} /\ UNCHANGED <<photos, adopted>>

(* What follows the days and the recordings: the refresh and the selection of  *)
(* a device go on with the photos when they are shown.                       *)
Continue(others, l) ==
    LET goes == l.for = "refresh" \/ (l.for = "device" /\ l.device = device)
    IN  /\ IF goes /\ view = "photos"
           THEN LoadPhotos(others, device, l.for)
           ELSE loads' = others /\ UNCHANGED <<photos, adopted, locked>>
        /\ refresh' = IF l.for # "refresh" THEN refresh
                      ELSE IF view = "photos" /\ device # None THEN "photos" ELSE "idle"

HubReads(l) ==
    /\ ~ l.answered
    /\ loads' = (loads \ {l}) \cup
           {[l EXCEPT !.answered = TRUE, !.seen = CASE l.kind = "days"    -> Days[l.device]
                                                    [] l.kind = "records" -> Name
                                                    [] l.kind = "photos"  -> stored[l.device]]}
    /\ UNCHANGED <<playbackVars, Hub, view, Lists, Grid, refresh, deletions, left>>

(* An answer that is not owned any more ends its operation.                   *)
Overtaken(l) ==
    /\ l.answered /\ ~ Owned(l) /\ l.kind \in {"days", "records"}
    /\ Continue(loads \ {l}, l)
    /\ UNCHANGED <<playbackVars, Hub, view, Lists, selection, current, deletions, left>>

(* A day that is still there stays selected.                                 *)
DaysAnswered(l) ==
    LET day == IF date \in l.seen THEN date ELSE Pick(l.seen)
    IN  /\ l.kind = "days" /\ l.answered /\ Owned(l)
        /\ days' = l.seen /\ date' = day
        /\ IF day = None
           THEN RenderRecords(NoRecords) /\ Continue(loads \ {l}, l)
           ELSE /\ loads' = (Older({"records"}) \ {l}) \cup {Load("records", l.for, device, day)}
                /\ UNCHANGED <<playbackVars, records, photos, adopted, locked, refresh>>
        /\ UNCHANGED <<Hub, view, devices, device, selection, current, deletions, left>>

RecordsAnswered(l) ==
    /\ l.kind = "records" /\ l.answered /\ Owned(l)
    /\ RenderRecords(Table(l.device, l.date, l.seen))
    /\ Continue(loads \ {l}, l)
    /\ UNCHANGED <<Hub, view, devices, device, date, days, selection, current, deletions, left>>

(* loadPhotos() ends: the refresh is over, and the button comes back.          *)
PhotosDone(l) ==
    /\ loads' = loads \ {l}
    /\ locked' = IF Owned(l) THEN locked \ {"refreshPhotos", "many", "all"} ELSE locked
    /\ refresh' = IF l.for = "refresh" THEN "idle" ELSE refresh

PhotosAnswered(l) ==
    /\ l.kind = "photos" /\ l.answered
    /\ IF Owned(l)
       THEN photos' = l.seen /\ adopted' = FALSE /\ selection' = selection \cap l.seen
       ELSE UNCHANGED <<photos, adopted, selection>>
    /\ PhotosDone(l)
    /\ UNCHANGED <<playbackVars, Hub, view, Lists, current, deletions, left>>

(* A request that fails leaves the days or the recordings as they are, and the *)
(* grid of photos empty.                                                    *)
LoadFails(l) ==
    /\ Spend("failures")
    /\ IF l.kind = "photos"
       THEN /\ photos' = (IF Owned(l) THEN {} ELSE photos)
            /\ adopted' = (~ Owned(l) /\ adopted)
            /\ PhotosDone(l)
       ELSE Continue(loads \ {l}, l)
    /\ UNCHANGED <<playbackVars, Hub, view, Lists, selection, current, deletions>>

-----------------------------------------------------------------------------
(* refreshAll(), and who calls it: the timer, the button.                     *)
RefreshAll ==
    /\ refresh = "idle" /\ Spend("refreshes")
    /\ refresh' = "asked"
    /\ UNCHANGED <<playbackVars, Hub, view, Lists, Grid, loads, deletions>>

(* A device that is gone is replaced by the first one.                        *)
RefreshAnswered ==
    LET chosen == IF device \in known THEN device ELSE Pick(known)
    IN  /\ refresh = "asked"
        /\ devices' = known /\ device' = chosen
        /\ IF chosen = device
           THEN UNCHANGED <<selection>> /\ date' = IF chosen = None THEN None ELSE date
           ELSE selection' = {} /\ date' = None
        /\ IF chosen = None
           THEN /\ days' = {} /\ RenderRecords(NoRecords)
                /\ photos' = (IF view = "photos" THEN {} ELSE photos)
                /\ adopted' = (photos' # {})
                /\ loads' = Older(IF view = "photos" THEN {"days", "photos"} ELSE {"days"})
                /\ refresh' = "idle"
           ELSE /\ days' = {}
                /\ loads' = Older({"days"}) \cup {Load("days", "refresh", chosen, None)}
                /\ refresh' = "lists"
                /\ records' = [records EXCEPT !.adopted = @ \/ chosen # device]
                /\ adopted' = (adopted \/ (chosen # device /\ photos # {}))
                /\ UNCHANGED <<playbackVars, photos>>
        /\ UNCHANGED <<Hub, view, current, locked, deletions, left>>

RefreshFails ==
    /\ refresh = "asked" /\ Spend("failures")
    /\ refresh' = "idle"
    /\ UNCHANGED <<playbackVars, Hub, view, Lists, Grid, loads, deletions>>

(* Another device is selected: everything of the old one is dropped.  The      *)
(* lightbox lies over the selects.                                           *)
SelectDevice(d) ==
    /\ d \in devices \ {device} /\ current = None /\ Spend("selects")
    /\ device' = d /\ date' = None /\ selection' = {} /\ photos' = {}
    /\ adopted' = FALSE /\ days' = {} /\ records' = NoRecords
    /\ StopRecordPlayback
    /\ loads' = Older({"days", "records", "photos"}) \cup {Load("days", "device", d, None)}
    /\ locked' = locked \ {"refreshPhotos", "many", "all"}
    /\ UNCHANGED <<Hub, view, devices, current, refresh, deletions>>

(* Another day is selected, of those loadDays() has found.                    *)
SelectDate ==
    /\ view = "playback" /\ Spend("dates")
    /\ \E d \in days \ {date} :
          /\ date' = d
          /\ loads' = Older({"records"}) \cup {Load("records", "date", device, d)}
    /\ StopRecordPlayback
    /\ UNCHANGED <<Hub, view, devices, device, days, records, Grid, refresh, deletions>>

(* A row of the table is played from its beginning, with the device and the day  *)
(* selected now in its URL.                                                 *)
RecordUrl(name) == [device |-> device, date |-> date, name |-> name]

Play ==
    /\ view = "playback" /\ Spend("plays")
    /\ \E name \in records.names : PlayRecord(RecordUrl(name), 0)
    /\ UNCHANGED archiveVars

(* A place of the timeline: the recording that covers it from there, or the next *)
(* one from its beginning.                                                  *)
SeekTimeline ==
    /\ view = "playback" /\ Spend("plays")
    /\ \E name \in records.names, wanted \in Fragment : PlayRecord(RecordUrl(name), wanted)
    /\ UNCHANGED archiveVars

-----------------------------------------------------------------------------
(* Photos.  Selecting or rendering them enables the buttons of the selection.  *)
SelectPhotos ==
    /\ view = "photos" /\ Spend("photos")
    /\ \/ \E p \in photos : selection' = (selection \cup {p}) \ (selection \cap {p})
       \/ selection' \in {photos \cup selection, {}}
    /\ locked' = locked \ {"many", "all"}
    /\ UNCHANGED <<playbackVars, Hub, view, Lists, photos, adopted, current, refresh, loads, deletions>>

(* The button that reads the photos again.                                    *)
RefreshPhotos ==
    /\ view = "photos" /\ "refreshPhotos" \notin locked /\ Spend("photos")
    /\ LoadPhotos(loads, device, "button")
    /\ UNCHANGED <<playbackVars, Hub, view, Lists, selection, current, refresh, deletions>>

OpenPhoto ==
    /\ view = "photos" /\ current = None /\ Spend("photos")
    /\ \E p \in photos : current' = p
    /\ locked' = locked \ {"one"}
    /\ UNCHANGED <<playbackVars, Hub, view, Lists, photos, adopted, selection, refresh, loads,
                   deletions>>

ClosePhoto ==
    /\ current # None
    /\ current' = None
    /\ UNCHANGED <<playbackVars, Hub, view, Lists, photos, adopted, selection, locked, refresh,
                   loads, deletions, left>>

(* The user confirms a deletion of the device selected now.                   *)
Delete(kind, names) ==
    /\ view = "photos" /\ device # None /\ names # {} /\ kind \notin locked
    /\ Spend("deletes")
    /\ locked' = locked \cup {kind}
    /\ deletions' = deletions \cup
           {[kind |-> kind, device |-> device, names |-> names, done |-> FALSE]}
    /\ UNCHANGED <<playbackVars, Hub, view, Lists, photos, adopted, selection, current, refresh,
                   loads>>

DeleteCurrentPhoto   == current # None /\ Delete("one", {current})
DeleteSelectedPhotos == current = None /\ Delete("many", selection)
ClearCurrentPhotos   == current = None /\ Delete("all", photos)

(* A photo that is not there cannot be deleted as the one; of several it is      *)
(* missing, which is no error.                                               *)
Deletable(d) == d.kind = "one" => d.names \subseteq stored[d.device]

HubDeletes(d) ==
    /\ ~ d.done /\ Deletable(d)
    /\ deletions' = (deletions \ {d}) \cup {[d EXCEPT !.done = TRUE]}
    /\ stored' = [stored EXCEPT ![d.device] = IF d.kind = "all" THEN {} ELSE @ \ d.names]
    /\ UNCHANGED <<playbackVars, known, view, Lists, Grid, refresh, loads, left>>

(* The answer changes what is shown by then, of whatever device.              *)
Deleted(d) ==
    /\ d.done
    /\ deletions' = deletions \ {d}
    /\ current' = None
    /\ CASE d.kind = "one" ->
              /\ photos' = photos \ d.names /\ selection' = selection \ d.names
              /\ locked' = locked \ {"many", "all"} /\ UNCHANGED <<adopted, loads>>
         [] d.kind = "many" ->
              selection' = {} /\ LoadPhotos(loads, device, "deletion")
         [] d.kind = "all" ->
              /\ photos' = {} /\ adopted' = FALSE /\ selection' = {}
              /\ locked' = locked \ {"many", "all"} /\ UNCHANGED loads
    /\ UNCHANGED <<playbackVars, Hub, view, Lists, refresh, left>>

DeleteFails(d) ==
    /\ \/ Spend("failures")
       \/ ~ d.done /\ ~ Deletable(d) /\ UNCHANGED left
    /\ deletions' = deletions \ {d}
    /\ locked' = locked \ (IF d.kind = "many" THEN {"many", "all"} ELSE {d.kind})
    /\ UNCHANGED <<playbackVars, Hub, view, Lists, photos, adopted, selection, current, refresh,
                   loads>>

(* Cameras connect and disconnect, and the hub forgets them when it restarts.  *)
DevicesChange ==
    /\ Spend("others")
    /\ \E d \in Device : known' = IF d \in known THEN known \ {d} ELSE known \cup {d}
    /\ UNCHANGED <<playbackVars, stored, view, Lists, Grid, refresh, loads, deletions>>

LoadGoesOn ==
    \E l \in loads :
        \/ HubReads(l) \/ Overtaken(l) \/ LoadFails(l)
        \/ DaysAnswered(l) \/ RecordsAnswered(l) \/ PhotosAnswered(l)

Refreshed == RefreshAnswered \/ RefreshFails

DeletionGoesOn == \E d \in deletions : HubDeletes(d) \/ Deleted(d) \/ DeleteFails(d)

PhotoClicks ==
    \/ SelectPhotos \/ RefreshPhotos \/ OpenPhoto \/ ClosePhoto
    \/ DeleteCurrentPhoto \/ DeleteSelectedPhotos \/ ClearCurrentPhotos

ArchiveNext ==
    \/ LoadGoesOn \/ Refreshed \/ DeletionGoesOn \/ RefreshAll
    \/ SelectDate \/ Play \/ SeekTimeline \/ PhotoClicks \/ DevicesChange

ArchiveFairness ==
    /\ WF_archiveVars(LoadGoesOn) /\ WF_archiveVars(Refreshed) /\ WF_archiveVars(DeletionGoesOn)

-----------------------------------------------------------------------------
(* The table shows recordings, and the grid photos, of the device selected,     *)
(* whatever was asked for on the way and deleted meanwhile; only a refresh that *)
(* had to replace a device that is gone leaves the lists of the other one,      *)
(* until the new ones are read.                                             *)
ListsOfDevice ==
    /\ records.names = {} \/ records.adopted \/ records.device = device
    /\ photos = {} \/ adopted \/ (device # None /\ photos \subseteq Photos[device])
=============================================================================
