------------------------------- MODULE Aircon -------------------------------
(***************************************************************************)
(* The air conditioner service (src/src/aircon.rs): commands that are sent  *)
(* at once, commands scheduled for later, the automatic switching off, and  *)
(* the shadow state of an appliance that cannot be asked.                   *)
(*                                                                         *)
(* All of it happens under one async mutex, execution, held by an HTTP      *)
(* handler (Client) or by the task that runs due schedules ("worker").  The *)
(* only await under that mutex is the request to the infrared worker, so a  *)
(* request that sends nothing is one action, and one that does goes through *)
(* the stages execute, send, sent and (for the worker) finish.              *)
(*                                                                         *)
(* The document is kept twice: mem is AirconStore.current, disk is the file.  *)
(* commit() writes the file first and gives up if that fails; save() writes *)
(* what memory already says and may leave the file behind.  The hub may      *)
(* crash between any two steps and restart from the file.                   *)
(***************************************************************************)
EXTENDS AirconState, Sequences, FiniteSetsExt, Functions

CONSTANTS
    Client,        \* HTTP handlers
    MaxSchedules,  \* MAX_SCHEDULES
    Scenarios      \* the requests that may be submitted, and the bounds

Bound == {"minutes",   \* the last minute of a behaviour
          "requests",  \* submitted requests
          "saves",     \* writes that fail
          "sends",     \* requests the infrared worker does not confirm
          "timeouts",  \* requests still under way when they are given up
          "drops",     \* handlers dropped with their connection
          "crashes"}   \* restarts of the hub

Nobody == "nobody"
Worker == "worker"

(* What a client asks for: a command, now or after a delay and with or without *)
(* an automatic off, or a cancellation.                                     *)
Cancellation == [operation : {"cancel_schedule"}, schedule_id : Nat]
                \cup [operation : {"cancel_all"}]
RequestId == STRING \cup {""}    \* "" is none
Request == [command : Operation \cup Cancellation, request_id : RequestId, delay : Nat,
            auto_off : Nat]

ASSUME AirconAssumption ==
    /\ Client \cap {Nobody, Worker} = {}
    /\ MaxSchedules \in Nat \ {0}
    /\ \A s \in Scenarios : s.asks \subseteq Request /\ s.most \in [Bound -> Nat]

Status == {"pending", "running", "completed", "failed", "cancelled"}

VARIABLES
    now,          \* the clock, in minutes
    mem, disk,    \* the document in memory and in the file
    waiting,      \* the request each handler waits with for the mutex
    execution,    \* who holds the mutex
    stage,        \* how far its holder is
    running,      \* the command that is executed
    appliance,    \* the last infrared command that was emitted
    flight,       \* commands whose caller has given up but that may yet be emitted
    dispatched,   \* history: the schedules handed to the infrared worker
    scenario,     \* the scenario of the behaviour
    used          \* how much of each bound is spent

vars == <<now, mem, disk, waiting, execution, stage, running, appliance, flight,
          dispatched, scenario, used>>

documents == <<mem, disk>>
outside   == <<appliance, flight>>

NoRequest == [command |-> [operation |-> "none"]]
Idle      == [command |-> [operation |-> "none"], auto_off |-> 0, id |-> 0,
              next |-> DefaultState, off |-> 0, ok |-> FALSE]

Spend(bounds) == /\ \A b \in bounds : used[b] < scenario.most[b]
                 /\ used' = [b \in Bound |-> IF b \in bounds THEN used[b] + 1 ELSE used[b]]

-----------------------------------------------------------------------------
(* The document.                                                            *)

EmptyDocument == [state |-> DefaultState, known |-> FALSE, next_id |-> 1, schedules |-> <<>>]

Active(s) == s.status \in {"pending", "running"}

(* insert_schedule: a pending schedule with an automatic off also holds the   *)
(* place of the off task; a running one has handed that place over.          *)
Reserves_Never(s) == FALSE    \* fault: the off task is forgotten
Reserves(s) == s.status = "pending" /\ s.auto_off > 0

Taken(schedules) ==
      Cardinality({i \in DOMAIN schedules : Active(schedules[i])})
    + Cardinality({i \in DOMAIN schedules : Reserves(schedules[i])})

Fits(document, auto_off) ==
    Taken(document.schedules) + (IF auto_off > 0 THEN 2 ELSE 1) <= MaxSchedules

(* A list with its items at the places given by a bijection; an item that has *)
(* no place is dropped.                                                     *)
Arranged(schedules, place) ==
    LET places == 1..Cardinality(DOMAIN place)
        origin == Inverse(place, DOMAIN place, places)
    IN  [k \in places |-> schedules[origin[k]]]

Numbered(set) == [i \in set |-> Cardinality({j \in set : j <= i})]

(* sort_by_key, which is stable: a schedule comes after those of its time that *)
(* were there before.                                                       *)
Before(schedules, j, i) ==
    \/ schedules[j].at < schedules[i].at
    \/ schedules[j].at = schedules[i].at /\ j <= i

ByTime(schedules) ==
    Arranged(schedules, [i \in DOMAIN schedules |->
                            Cardinality({j \in DOMAIN schedules : Before(schedules, j, i)})])

(* prune_schedules: the first settled ones go until MAX_SCHEDULES are left.   *)
Settled(schedules) == {i \in DOMAIN schedules : ~Active(schedules[i])}
Pruned(schedules) ==
    {i \in Settled(schedules) :
        Numbered(Settled(schedules))[i] <= Len(schedules) - MaxSchedules}

Prune(schedules) == Arranged(schedules, Numbered(DOMAIN schedules \ Pruned(schedules)))

(* insert_schedule, for a document the schedule fits.                       *)
Insert(document, command, request_id, at, auto_off) ==
    LET s == [id |-> document.next_id, command |-> command, request_id |-> request_id,
              at |-> at, auto_off |-> auto_off, status |-> "pending"]
    IN  [document EXCEPT !.next_id = @ + 1, !.schedules = Prune(ByTime(Append(@, s)))]

WithStatus(document, ids, status) ==
    [document EXCEPT !.schedules =
        [i \in DOMAIN @ |-> IF @[i].id \in ids THEN [@[i] EXCEPT !.status = status] ELSE @[i]]]

Ids(document, status) ==
    {s.id : s \in {document.schedules[i] : i \in {j \in DOMAIN document.schedules :
                                                    document.schedules[j].status = status}}}

(* AirconDocument::normalize: what was running when the hub died is not      *)
(* tried again.                                                             *)
Normalize_Retries(document) ==    \* fault: it is
    WithStatus(document, Ids(document, "running"), "pending")
Normalize(document) ==
    LET settled == WithStatus(document, Ids(document, "running"), "failed")
    IN  [settled EXCEPT !.schedules = Prune(ByTime(@))]

(* AirconStore::commit: the file first, then memory; on an error neither.    *)
Commit_MemoryFirst(document) ==    \* fault: memory changes although the write failed
    /\ mem' = document
    /\ \/ disk' = document /\ UNCHANGED used
       \/ UNCHANGED disk /\ Spend({"saves"})
Commit(document) ==
    /\ mem' = document
    /\ disk' = document
    /\ UNCHANGED used
CommitFails == Spend({"saves"}) /\ UNCHANGED documents

(* AirconStore::save after memory has changed: the file may stay behind.     *)
Save(document, spent) ==
    /\ mem' = document
    /\ \/ disk' = document /\ Spend(spent)
       \/ UNCHANGED disk /\ Spend(spent \cup {"saves"})

-----------------------------------------------------------------------------
(* submit(): a handler waits for the mutex with its request.                *)

Submit(t) ==
    /\ waiting[t] = NoRequest /\ execution # t
    /\ Spend({"requests"})
    /\ \E r \in scenario.asks : waiting' = [waiting EXCEPT ![t] = r]
    /\ UNCHANGED <<now, documents, execution, stage, running, outside, dispatched>>

(* The mutex is free and a request is there to use it.                       *)
Enters(t) == waiting[t] # NoRequest /\ execution = Nobody
Answered(t) == waiting' = [waiting EXCEPT ![t] = NoRequest]
IsCancellation(r) == r.command.operation \in {"cancel_schedule", "cancel_all"}

(* cancel(): only what has not started can be cancelled.                    *)
Cancel(t) ==
    LET command == waiting[t].command
        ids == {id \in Ids(mem, "pending") :
                   command.operation = "cancel_schedule" => id = command.schedule_id}
    IN
    /\ Enters(t) /\ IsCancellation(waiting[t])
    /\ Answered(t)
    /\ IF command.operation = "cancel_schedule" /\ ids = {}
       THEN UNCHANGED <<documents, used>>
       ELSE Commit(WithStatus(mem, ids, "cancelled")) \/ CommitFails
    /\ UNCHANGED <<now, execution, stage, running, outside, dispatched>>

(* An automatic off only goes with a command that leaves the power on.       *)
Acceptable(command, auto_off) ==
    /\ Applies(command, mem.state)
    /\ auto_off > 0 => Changed(command, mem.state).power

(* add_schedule finds an earlier schedule of the same request: it returns it *)
(* or refuses the request, but adds nothing.                                *)
Known(document, request_id) ==
    /\ request_id # ""
    /\ \E i \in DOMAIN document.schedules : document.schedules[i].request_id = request_id

Schedule(t) ==
    LET r == waiting[t] IN
    /\ Enters(t) /\ ~IsCancellation(r) /\ r.delay > 0
    /\ Answered(t)
    /\ IF /\ Acceptable(r.command, r.auto_off)
          /\ ~Known(mem, r.request_id)
          /\ Fits(mem, r.auto_off)
       THEN Commit(Insert(mem, r.command, r.request_id, now + r.delay, r.auto_off))
            \/ CommitFails
       ELSE UNCHANGED <<documents, used>>
    /\ UNCHANGED <<now, execution, stage, running, outside, dispatched>>

(* A command without a delay is executed by its handler.                     *)
Begin(t) ==
    LET r == waiting[t] IN
    /\ Enters(t) /\ ~IsCancellation(r) /\ r.delay = 0
    /\ Answered(t)
    /\ execution' = t
    /\ stage' = "execute"
    /\ running' = [Idle EXCEPT !.command = r.command, !.auto_off = r.auto_off]
    /\ UNCHANGED <<now, documents, outside, dispatched, used>>

-----------------------------------------------------------------------------
(* run_due(), once a second: the first pending schedule whose time has come  *)
(* is marked as running, in the file too, before anything is sent.          *)

DueIndexes == {i \in DOMAIN mem.schedules : /\ mem.schedules[i].status = "pending"
                                            /\ mem.schedules[i].at <= now}

RunDue ==
    LET s == mem.schedules[Min(DueIndexes)] IN
    /\ execution = Nobody
    /\ DueIndexes # {}
    /\ \/ /\ Commit(WithStatus(mem, {s.id}, "running"))
          /\ execution' = Worker
          /\ stage' = "execute"
          /\ running' = [Idle EXCEPT !.command = s.command, !.auto_off = s.auto_off, !.id = s.id]
       \/ CommitFails /\ UNCHANGED <<execution, stage, running>>
    /\ UNCHANGED <<now, waiting, outside, dispatched>>

-----------------------------------------------------------------------------
(* execute(), for whoever holds the mutex.                                  *)

Release == execution' = Nobody /\ stage' = "free" /\ running' = Idle

(* execute returns: to the handler, which answers, or to run_due.           *)
Returns(ok) ==
    IF execution = Worker
    THEN stage' = "finish" /\ running' = [running EXCEPT !.ok = ok] /\ UNCHANGED execution
    ELSE Release

Dispatch(off) ==
    /\ stage' = "send"
    /\ running' = [running EXCEPT !.next = Changed(running.command, mem.state), !.off = off]
    /\ dispatched' = dispatched \cup ({running.id} \ {0})
    /\ UNCHANGED execution

(* The off task is in the file before the command is sent.                   *)
InsertOff_InMemory ==    \* fault: or only in memory
    /\ mem' = Insert(mem, [operation |-> "off"], "", now + running.auto_off, 0)
    /\ UNCHANGED <<disk, used>>
InsertOff == Commit(Insert(mem, [operation |-> "off"], "", now + running.auto_off, 0))

Prepare ==
    /\ stage = "execute"
    /\ \/ /\ \/ ~Acceptable(running.command, running.auto_off)
             \/ running.auto_off > 0 /\ ~Fits(mem, 0)
          /\ Returns(FALSE)
          /\ UNCHANGED <<documents, used, dispatched>>
       \/ /\ Acceptable(running.command, running.auto_off) /\ running.auto_off = 0
          /\ Dispatch(0)
          /\ UNCHANGED <<documents, used>>
       \/ /\ Acceptable(running.command, running.auto_off) /\ running.auto_off > 0
          /\ Fits(mem, 0)
          /\ \/ InsertOff /\ Dispatch(mem.next_id)
             \/ CommitFails /\ Returns(FALSE) /\ UNCHANGED dispatched
    /\ UNCHANGED <<now, waiting, outside>>

(* The infrared worker emits the command.                                   *)
Emit ==
    /\ stage = "send"
    /\ appliance' = Infrared(running.next)
    /\ stage' = "sent"
    /\ UNCHANGED <<now, documents, waiting, execution, running, flight, dispatched, used>>

(* Its confirmation arrives: the shadow follows.                            *)
Confirmed ==
    /\ stage = "sent"
    /\ Save([mem EXCEPT !.state = running.next, !.known = TRUE], {})
    /\ Returns(TRUE)
    /\ UNCHANGED <<now, waiting, outside, dispatched>>

(* The request fails: refused, its answer lost, or given up after 5 seconds   *)
(* while the worker is still at it.  The shadow is no longer trusted.        *)
Distrusted_Never(document) == document    \* fault: it is
Distrusted(document) == [document EXCEPT !.known = FALSE]

Unconfirmed ==
    /\ stage \in {"send", "sent"}
    /\ \/ UNCHANGED flight /\ Save(Distrusted(mem), {"sends"})
       \/ /\ stage = "send"
          /\ flight' = flight \cup {Infrared(running.next)}
          /\ Save(Distrusted(mem), {"timeouts"})
    /\ Returns(FALSE)
    /\ UNCHANGED <<now, waiting, appliance, dispatched>>

(* run_due again: the outcome is recorded.                                  *)
Finish ==
    /\ stage = "finish"
    /\ Save(WithStatus(mem, {running.id}, IF running.ok THEN "completed" ELSE "failed"), {})
    /\ Release
    /\ UNCHANGED <<now, waiting, outside, dispatched>>

-----------------------------------------------------------------------------
(* The rest of the world.                                                   *)

(* A command nobody waits for any more is emitted after all.                 *)
EmitLate ==
    /\ \E c \in flight : appliance' = c /\ flight' = flight \ {c}
    /\ UNCHANGED <<now, documents, waiting, execution, stage, running, dispatched, used>>

(* What becomes of a command that is on its way when its sender goes.        *)
Abandoned ==
    \/ UNCHANGED flight
    \/ stage = "send" /\ flight' = flight \cup {Infrared(running.next)}

(* The HTTP server drops a handler at an await: waiting for the mutex or for *)
(* the infrared worker.                                                     *)
Drop(t) ==
    /\ Spend({"drops"})
    /\ \/ /\ waiting[t] # NoRequest
          /\ Answered(t)
          /\ UNCHANGED <<execution, stage, running, flight>>
       \/ /\ execution = t /\ stage \in {"send", "sent"}
          /\ Release
          /\ Abandoned
          /\ UNCHANGED waiting
    /\ UNCHANGED <<now, documents, appliance, dispatched>>

(* The hub dies and starts again from the file, which it normalizes.         *)
Crash ==
    /\ Spend({"crashes"})
    /\ mem' = Normalize(disk)
    /\ disk' = Normalize(disk)
    /\ waiting' = [t \in Client |-> NoRequest]
    /\ Release
    /\ Abandoned
    /\ UNCHANGED <<now, appliance, dispatched>>

Tick ==
    /\ Spend({"minutes"})
    /\ now' = now + 1
    /\ UNCHANGED <<documents, waiting, execution, stage, running, outside, dispatched>>

-----------------------------------------------------------------------------
(* The file does not exist yet; the appliance is in any state.               *)
Init ==
    /\ now = 0
    /\ mem = EmptyDocument
    /\ disk = EmptyDocument
    /\ waiting = [t \in Client |-> NoRequest]
    /\ execution = Nobody
    /\ stage = "free"
    /\ running = Idle
    /\ appliance \in {Infrared([DefaultState EXCEPT !.power = on]) : on \in BOOLEAN}
    /\ flight = {}
    /\ dispatched = {}
    /\ scenario \in Scenarios
    /\ used = [b \in Bound |-> 0]

Execute == Prepare \/ Emit \/ Confirmed \/ Unconfirmed \/ Finish

(* Where a behaviour of bounded length ends: time is up and nothing is left   *)
(* to do.                                                                   *)
TimeIsUp ==
    /\ now = scenario.most["minutes"] /\ execution = Nobody /\ DueIndexes = {}
    /\ \A t \in Client : waiting[t] = NoRequest
    /\ UNCHANGED vars

Next ==
    /\ \/ \E t \in Client : Submit(t) \/ Cancel(t) \/ Schedule(t) \/ Begin(t) \/ Drop(t)
       \/ RunDue
       \/ Execute
       \/ EmitLate
       \/ Crash
       \/ Tick
       \/ TimeIsUp
    /\ UNCHANGED scenario

Spec == Init /\ [][Next]_vars

-----------------------------------------------------------------------------
(* Properties.                                                              *)

Task == [id : Nat \ {0}, command : Operation, request_id : RequestId, at : Nat, auto_off : Nat,
         status : Status]
Document == [state : State, known : BOOLEAN, next_id : Nat \ {0}, schedules : Seq(Task)]
Command == {Infrared(state) : state \in State}

(* The shape of the state, for proofs.                                      *)
TypeOK ==
    /\ now \in Nat
    /\ mem \in Document /\ disk \in Document
    /\ waiting \in [Client -> Request \cup {NoRequest}]
    /\ execution \in Client \cup {Nobody, Worker}
    /\ stage \in {"free", "execute", "send", "sent", "finish"}
    /\ running \in [command : Operation \cup {NoRequest.command}, auto_off : Nat, id : Nat,
                    next : State, off : Nat, ok : BOOLEAN]
    /\ appliance \in Command /\ flight \subseteq Command
    /\ dispatched \subseteq Nat \ {0}
    /\ scenario \in Scenarios /\ used \in [Bound -> Nat]

(* However often the hub dies and whatever writes fail, a schedule is handed *)
(* to the infrared worker at most once: run_due marks it in the file before  *)
(* it sends, and normalize does not retry what was running.                 *)
AtMostOnce == [][stage = "execute" /\ stage' = "send" => running.id \notin dispatched]_vars

(* A request repeated with its request_id adds no second task as long as the *)
(* first is remembered, also when the first has run or was cancelled.       *)
OnePerRequest ==
    \A i, j \in DOMAIN mem.schedules :
        /\ mem.schedules[i].request_id # ""
        /\ mem.schedules[i].request_id = mem.schedules[j].request_id
        => i = j

(* What a client was told is scheduled or cancelled is so in the file: a     *)
(* restart at any moment neither loses a task nor brings one back           *)
(* (failed_schedule_save_does_not_publish_task tests one failed write); and   *)
(* it is one task, however often it was asked for.                          *)
TasksAreDurable ==
    /\ \A s \in {"pending", "cancelled"} : Ids(mem, s) = Ids(disk, s)
    /\ OnePerRequest

(* When a command with an automatic off is on its way, the off task is       *)
(* already in the file, whatever happens to the sender.                     *)
OffTaskIsSafe ==
    stage \in {"send", "sent"} /\ running.auto_off > 0 => running.off \in Ids(disk, "pending")

(* The task list never outgrows MAX_SCHEDULES, and a scheduled command with  *)
(* an automatic off never fails for want of the place it reserved, although  *)
(* other tasks were added in the meantime                                   *)
(* (delayed_auto_off_reserves_its_child_capacity tests one order).          *)
CapacityHeld ==
    /\ Taken(mem.schedules) <= MaxSchedules
    /\ Len(mem.schedules) <= MaxSchedules
    /\ stage = "execute" /\ execution = Worker /\ running.auto_off > 0 => Fits(mem, 0)

(* Between commands, a shadow state that is said to be known is what the     *)
(* appliance was last told (README.md:422 and the comment at aircon.rs:870), *)
(* whatever requests and writes fail, in whatever order commands and tasks   *)
(* come.  A sender that vanishes under way, with its connection or with the   *)
(* hub, or that gives up on a request, leaves a state that is wrong and      *)
(* believed (the README says how).                                          *)
SendersStay == used["drops"] + used["crashes"] + used["timeouts"] = 0

ShadowTruthful ==
    (SendersStay /\ stage \notin {"send", "sent"} /\ mem.known)
        => appliance = Infrared(mem.state)
=============================================================================
