----------------------------- MODULE Components -----------------------------
(***************************************************************************)
(* The in-process supervisor of camera-hub's worker processes              *)
(* (src/src/component_manager.rs): ComponentManager with its state mutex,   *)
(* one operation mutex per component, and the tasks that call it:           *)
(*   - HTTP handlers awaiting control(), which the server drops when the    *)
(*     client goes away (Client);                                           *)
(*   - the task that runs bootstrap() and then monitor() ("monitor");       *)
(*   - the asset installer, which quiesces the voice workers, replaces      *)
(*     model files and resumes them ("asset");                              *)
(*   - the main task, which calls shutdown() ("shutdown").                  *)
(*                                                                         *)
(* A section under the state mutex contains no await, so it is one action.  *)
(* Every other await is a step boundary.  The stages of a call are the      *)
(* values of pc, its arguments are job[t], the Child a stop took out of the *)
(* table is held[t].                                                       *)
(***************************************************************************)
EXTENDS Naturals, Sequences

CONSTANTS
    Order,          \* ComponentId::ALL, the order shutdown and monitor use
    Client,         \* HTTP handler tasks that may call control() at once
    Budgets         \* bounds: how often each thing of Bound happens in a behaviour

Component == {Order[i] : i \in DOMAIN Order}

(* control() calls, workers that exit on their own, control() futures dropped  *)
(* before they finish, asset installations, spawns that fail, shutdown().     *)
Bound == {"requests", "crashes", "drops", "installs", "failures", "shutdowns"}

Script    == {"monitor", "asset", "shutdown"}
Task      == Client \cup Script
NoTask    == "none"

ASSUME ComponentsAssumption ==
    /\ Order \in Seq(STRING)
    /\ {"tts", "voice"} \subseteq Component
    /\ Client \cap (Script \cup {NoTask}) = {}
    /\ Budgets \subseteq [Bound -> Nat]

Asset == {"voice-kws", "voice-asr", "voice-tts"}
Kind  == {"start", "stop", "restart", "ensure", "respawn", "quiesce"}
Stage == {"idle", "lock", "check", "stop", "wait", "stopped", "start", "lockTts",
          "startTts", "spawnTts", "waitTts", "spawn",                \* any call
          "boot", "tick", "probe", "returned",                       \* monitor
          "mark", "commit", "replacing", "resume", "resuming",       \* asset
          "closing", "closed"}                                       \* shutdown

VARIABLES
    shutting_down,    \* ManagerState.shutting_down
    desired_running, stopping, maintenance,    \* flags of ManagedComponent
    child,            \* ManagedComponent.child: absent, a live or a dead process
    backoff,          \* next_start_epoch is still in the future
    installed,        \* the component's files are on disk
    operations,       \* the task that holds each operation mutex
    pc, job,          \* stage and arguments of each task's current call
    held,             \* the Child that stop_component_locked took
    doomed,           \* killed (kill_on_drop) processes that are not gone yet
    todo,             \* components a script task has still to visit
    asset,            \* the asset the installer works on
    left              \* how much of each bound is left

vars == <<shutting_down, desired_running, stopping, maintenance, child, backoff,
          installed, operations, pc, job, held, doomed, todo, asset, left>>

flags   == <<desired_running, stopping, maintenance>>
workers == <<child, held, doomed>>
environment == <<installed, asset, left>>

Process == {"none", "alive", "exited"}
NoCall  == [comp |-> "tts", kind |-> "start"]

Spend(b) == /\ left[b] > 0
            /\ left' = [left EXCEPT ![b] = @ - 1]

(***************************************************************************)
(* ComponentManager::start: whatever the saved autostart settings are, TTS  *)
(* is also wanted when Voice is.  Files may or may not be installed.        *)
(***************************************************************************)
Init ==
    /\ shutting_down = FALSE
    /\ \E autostart \in [Component -> BOOLEAN] :
         desired_running = [c \in Component |->
             autostart[c] \/ (c = "tts" /\ autostart["voice"])]
    /\ stopping = [c \in Component |-> FALSE]
    /\ maintenance = [c \in Component |-> FALSE]
    /\ child = [c \in Component |-> "none"]
    /\ backoff = [c \in Component |-> FALSE]
    /\ installed \in [Component -> BOOLEAN]
    /\ operations = [c \in Component |-> NoTask]
    /\ pc = [t \in Task |-> IF t = "monitor" THEN "boot" ELSE "idle"]
    /\ job = [t \in Task |-> NoCall]
    /\ held = [t \in Task |-> "none"]
    /\ doomed = [c \in Component |-> 0]
    /\ todo = [t \in Script |-> IF t # "monitor" THEN <<>>
                                ELSE IF "ddns" \in Component THEN <<"tts", "ddns", "voice">>
                                ELSE <<"tts", "voice">>]
    /\ asset = "voice-kws"
    /\ left \in Budgets

-----------------------------------------------------------------------------
(* Moving a task from one stage to the next.                               *)

To(t, stage)   == pc' = [pc EXCEPT ![t] = stage]
Goto(t, stage) == To(t, stage) /\ UNCHANGED <<operations, job>>
Released(t)    == [c \in Component |-> IF operations[c] = t THEN NoTask ELSE operations[c]]

(* The call is made: the task now waits for the component's mutex.         *)
Call(t, c, kind) ==
    /\ job' = [job EXCEPT ![t] = [comp |-> c, kind |-> kind]]
    /\ To(t, "lock")

(* Where the caller continues when its call returns.  An error ends          *)
(* resume_after_asset (the ? operator); every other caller ignores it.      *)
Continuation(t, ok) ==
    CASE t \in Client    -> "idle"
      [] t = "monitor"   -> IF job[t].kind = "ensure" THEN "boot" ELSE "tick"
      [] t = "asset"     -> IF job[t].kind = "quiesce" THEN "commit"
                            ELSE IF ok THEN "resuming" ELSE "idle"
      [] OTHER           -> "closing"

(* The call returns: its mutex guards are dropped, its arguments forgotten.  *)
Return(t, ok) ==
    /\ To(t, Continuation(t, ok))
    /\ operations' = Released(t)
    /\ job' = [job EXCEPT ![t] = NoCall]

-----------------------------------------------------------------------------
(* The calls, one action per stage.                                         *)

(* control(): a request for an installed component, from an idle handler.   *)
Request(t) ==
    /\ pc[t] = "idle"
    /\ Spend("requests")
    /\ \E c \in Component, kind \in {"start", "stop", "restart"} :
         /\ installed[c]
         /\ Call(t, c, kind)
    /\ UNCHANGED <<shutting_down, flags, workers, backoff, installed, operations,
                   todo, asset>>

Free_Always(c) == c \in Component    \* fault: the mutex is not waited for
Free(c) == operations[c] = NoTask

(* What a call does first, once it has its mutex.                           *)
FirstStage == [start |-> "start", stop |-> "stop", restart |-> "stop", ensure |-> "check",
               respawn |-> "spawn", quiesce |-> "lockTts"]

(* operations[&id].lock().await                                             *)
Acquire(t) ==
    /\ pc[t] = "lock"
    /\ Free(job[t].comp)
    /\ operations' = [operations EXCEPT ![job[t].comp] = t]
    /\ To(t, FirstStage[job[t].kind])
    /\ UNCHANGED <<shutting_down, flags, workers, backoff, job, todo, environment>>

(* start_if_desired: nothing to do for a component nobody wants.            *)
Check(t) ==
    /\ pc[t] = "check"
    /\ IF desired_running[job[t].comp] /\ installed[job[t].comp]
       THEN Goto(t, "start")
       ELSE Return(t, TRUE)
    /\ UNCHANGED <<shutting_down, flags, workers, backoff, todo, environment>>

(* The restart argument of stop_component_locked; a quiesce passes the       *)
(* current desired_running back in.                                         *)
WishAfterStop(kind, wish) == kind = "restart" \/ (kind = "quiesce" /\ wish)

(* component.child.take()                                                   *)
TakeChild_Borrow(t, c) ==    \* fault: the Child is used but not taken
    held' = [held EXCEPT ![t] = child[c]] /\ UNCHANGED child
TakeChild(t, c) ==
    /\ held' = [held EXCEPT ![t] = child[c]]
    /\ child' = [child EXCEPT ![c] = "none"]

(* stop_component_locked, first section: the Child leaves the table.         *)
Stop(t) ==
    LET c == job[t].comp IN
    /\ pc[t] = "stop"
    /\ desired_running' = [desired_running EXCEPT ![c] = WishAfterStop(job[t].kind, @)]
    /\ stopping' = [stopping EXCEPT ![c] = TRUE]
    /\ TakeChild(t, c)
    /\ To(t, "wait")
    /\ UNCHANGED <<shutting_down, maintenance, backoff, operations, job, doomed, todo,
                   environment>>

(* terminate_child has seen the process exit (or there was none).           *)
Terminated(t) ==
    /\ pc[t] = "wait"
    /\ held[t] # "alive"
    /\ held' = [held EXCEPT ![t] = "none"]
    /\ To(t, "stopped")
    /\ UNCHANGED <<shutting_down, flags, child, doomed, backoff, operations, job, todo,
                   environment>>

(* What follows a stop: a restart goes on to start, a quiesce to its next    *)
(* component or, without the mutexes, to the file replacement.              *)
AfterStop_Relock(t) ==    \* fault: restart takes the mutex a second time
    /\ IF job[t].kind = "restart" THEN Call(t, job[t].comp, "start") /\ UNCHANGED operations
                                  ELSE Return(t, TRUE)
    /\ UNCHANGED todo
AfterStop(t) ==
    \/ /\ job[t].kind = "restart"
       /\ Goto(t, "start")
       /\ UNCHANGED todo
    \/ /\ job[t].kind = "quiesce" /\ Len(todo["asset"]) > 1
       /\ todo' = [todo EXCEPT !["asset"] = Tail(@)]
       /\ Goto(t, "mark")
    \/ /\ job[t].kind = "quiesce" /\ Len(todo["asset"]) <= 1
       /\ todo' = [todo EXCEPT !["asset"] = <<>>]
       /\ Return(t, TRUE)
    \/ /\ job[t].kind \notin {"restart", "quiesce"}
       /\ Return(t, TRUE)
       /\ UNCHANGED todo

(* stop_component_locked, last section.                                     *)
Stopped(t) ==
    /\ pc[t] = "stopped"
    /\ stopping' = [stopping EXCEPT ![job[t].comp] = FALSE]
    /\ AfterStop(t)
    /\ UNCHANGED <<shutting_down, desired_running, maintenance, workers, backoff,
                   environment>>

(* start_component_locked: refused while shutting down; under maintenance    *)
(* only the wish is recorded; Voice first needs TTS installed and its mutex. *)
Start(t) ==
    LET c == job[t].comp IN
    /\ pc[t] = "start"
    /\ IF shutting_down
       THEN Return(t, FALSE) /\ UNCHANGED desired_running
       ELSE /\ desired_running' = [desired_running EXCEPT ![c] = TRUE]
            /\ \/ maintenance[c] /\ Return(t, TRUE)
               \/ ~maintenance[c] /\ c # "voice" /\ Goto(t, "spawn")
               \/ ~maintenance[c] /\ c = "voice" /\ ~installed["tts"] /\ Return(t, FALSE)
               \/ ~maintenance[c] /\ c = "voice" /\ installed["tts"] /\ Goto(t, "lockTts")
    /\ UNCHANGED <<shutting_down, stopping, maintenance, workers, backoff, todo, environment>>

(* operations[&ComponentId::Tts].lock().await, always with Voice's held.     *)
LockTts(t) ==
    /\ pc[t] = "lockTts"
    /\ Free("tts")
    /\ operations' = [operations EXCEPT !["tts"] = t]
    /\ To(t, IF job[t].kind = "quiesce" THEN "mark" ELSE "startTts")
    /\ UNCHANGED <<shutting_down, flags, workers, backoff, job, todo, environment>>

(* start_component_locked_tts, before it spawns.                            *)
StartTts(t) ==
    /\ pc[t] = "startTts"
    /\ desired_running' = [desired_running EXCEPT !["tts"] = TRUE]
    /\ To(t, "spawnTts")
    /\ UNCHANGED <<shutting_down, stopping, maintenance, workers, backoff, operations, job,
                   todo, environment>>

(* spawn_component_locked under the state mutex: a process is created only   *)
(* if none is in the table, it is wanted, and neither a stop nor maintenance *)
(* nor shutdown is in progress.                                             *)
MaySpawn_InMaintenance(c) ==    \* fault: maintenance is not looked at
    ~shutting_down /\ child[c] = "none" /\ desired_running[c] /\ ~stopping[c]
MaySpawn(c) ==
    /\ ~shutting_down
    /\ child[c] = "none"
    /\ desired_running[c]
    /\ ~stopping[c]
    /\ ~maintenance[c]

SpawnLocked(c) ==
    /\ installed[c]
    /\ IF MaySpawn(c)
       THEN /\ child' = [child EXCEPT ![c] = "alive"]
            /\ backoff' = [backoff EXCEPT ![c] = FALSE]
       ELSE UNCHANGED <<child, backoff>>

(* Its errors: missing files, or the log file or the process cannot be       *)
(* opened; only the last postpones the monitor's next attempt.              *)
SpawnError(c) ==
    /\ UNCHANGED child
    /\ \/ ~installed[c] /\ UNCHANGED <<backoff, left>>
       \/ /\ installed[c] /\ MaySpawn(c)
          /\ Spend("failures")
          /\ \E postponed \in {backoff[c], TRUE} :
               backoff' = [backoff EXCEPT ![c] = postponed]

Spawn(t) ==
    /\ pc[t] = "spawn"
    /\ SpawnLocked(job[t].comp)
    /\ Return(t, TRUE)
    /\ UNCHANGED <<shutting_down, flags, held, doomed, todo, environment>>

SpawnFails(t) ==
    /\ pc[t] = "spawn"
    /\ SpawnError(job[t].comp)
    /\ Return(t, FALSE)
    /\ UNCHANGED <<shutting_down, flags, held, doomed, todo, installed, asset>>

SpawnTts(t) ==
    /\ pc[t] = "spawnTts"
    /\ SpawnLocked("tts")
    /\ To(t, "waitTts")
    /\ UNCHANGED <<shutting_down, flags, held, doomed, operations, job, todo, environment>>

SpawnTtsFails(t) ==
    /\ pc[t] = "spawnTts"
    /\ SpawnError("tts")
    /\ Return(t, FALSE)
    /\ UNCHANGED <<shutting_down, flags, held, doomed, todo, installed, asset>>

(* tts_health answers only if some TTS process is there to answer.          *)
Answers(c) ==
    \/ child[c] = "alive"
    \/ doomed[c] > 0
    \/ \E t \in Task : job[t].comp = c /\ held[t] = "alive"

(* wait_for_tts succeeds; the TTS mutex is dropped before Voice is spawned.  *)
TtsReady(t) ==
    /\ pc[t] = "waitTts"
    /\ Answers("tts")
    /\ operations' = [operations EXCEPT !["tts"] = NoTask]
    /\ To(t, "spawn")
    /\ UNCHANGED <<shutting_down, flags, workers, backoff, job, todo, environment>>

(* Thirty failed probes: the start of Voice is given up.                    *)
TtsTimeout_Never(t) == t \notin Task    \* fault: the loop has no limit
TtsTimeout(t) ==
    /\ pc[t] = "waitTts"
    /\ Return(t, FALSE)
    /\ UNCHANGED <<shutting_down, flags, workers, backoff, todo, environment>>

(* The HTTP server drops the future of control(): its mutex guards go, and   *)
(* a Child it held is killed (kill_on_drop) but not waited for.  The flags   *)
(* it set stay as they are.                                                 *)
Drop(t) ==
    LET c == job[t].comp IN
    /\ pc[t] # "idle"
    /\ Spend("drops")
    /\ Return(t, FALSE)
    /\ held' = [held EXCEPT ![t] = "none"]
    /\ doomed' = [doomed EXCEPT ![c] = IF held[t] = "alive" THEN @ + 1 ELSE @]
    /\ UNCHANGED <<shutting_down, flags, child, backoff, installed, todo, asset>>

-----------------------------------------------------------------------------
(* Worker processes and the clock.                                          *)

Crash(c) ==
    /\ child[c] = "alive"
    /\ Spend("crashes")
    /\ child' = [child EXCEPT ![c] = "exited"]
    /\ UNCHANGED <<shutting_down, flags, held, doomed, backoff, installed, operations, pc,
                   job, todo, asset>>

(* SIGTERM, and SIGKILL ten seconds later, end the process a stop waits for. *)
Obeys(t) ==
    /\ held[t] = "alive"
    /\ held' = [held EXCEPT ![t] = "exited"]
    /\ UNCHANGED <<shutting_down, flags, child, doomed, backoff, operations, pc, job, todo,
                   environment>>

Dies(c) ==
    /\ doomed[c] > 0
    /\ doomed' = [doomed EXCEPT ![c] = @ - 1]
    /\ UNCHANGED <<shutting_down, flags, child, held, backoff, operations, pc, job, todo,
                   environment>>

BackoffEnds(c) ==
    /\ backoff[c]
    /\ backoff' = [backoff EXCEPT ![c] = FALSE]
    /\ UNCHANGED <<shutting_down, flags, workers, operations, pc, job, todo, environment>>

(* reap_exited: forget every process that is gone; one that is still wanted  *)
(* is not restarted before RESTART_DELAY_SECONDS.                           *)
ReapExited_KeepsChild ==    \* fault: the dead Child stays in the table
    /\ backoff' = [c \in Component |->
           backoff[c] \/ (child[c] = "exited" /\ desired_running[c])]
    /\ UNCHANGED child
ReapExited ==
    /\ child' = [c \in Component |-> IF child[c] = "exited" THEN "none" ELSE child[c]]
    /\ backoff' = [c \in Component |->
           backoff[c] \/ (child[c] = "exited" /\ desired_running[c])]

(* overview(), which any page load may call.                                *)
Overview ==
    /\ ReapExited
    /\ UNCHANGED <<shutting_down, flags, held, doomed, operations, pc, job, todo,
                   environment>>

-----------------------------------------------------------------------------
(* bootstrap() and monitor().                                               *)

Bootstrap ==
    /\ pc["monitor"] = "boot"
    /\ IF todo["monitor"] = <<>>
       THEN To("monitor", "tick") /\ UNCHANGED <<job, todo>>
       ELSE /\ Call("monitor", Head(todo["monitor"]), "ensure")
            /\ todo' = [todo EXCEPT !["monitor"] = Tail(@)]
    /\ UNCHANGED <<shutting_down, flags, workers, backoff, operations, environment>>

(* A tick begins; the monitor returns for good once the hub shuts down.      *)
Tick ==
    /\ pc["monitor"] = "tick"
    /\ todo["monitor"] = <<>>
    /\ IF shutting_down
       THEN To("monitor", "returned") /\ UNCHANGED <<todo, child, backoff>>
       ELSE /\ ReapExited
            /\ todo' = [todo EXCEPT !["monitor"] = Order]
            /\ UNCHANGED pc
    /\ UNCHANGED <<shutting_down, flags, held, doomed, operations, job, environment>>

ShouldStart(c) ==
    /\ desired_running[c]
    /\ child[c] = "none"
    /\ ~stopping[c]
    /\ ~maintenance[c]
    /\ ~backoff[c]
    /\ installed[c]

(* The next component of the tick: skipped, or respawned; Voice only after   *)
(* TTS has answered a probe.                                                *)
Visit ==
    LET c == Head(todo["monitor"]) IN
    /\ pc["monitor"] = "tick"
    /\ todo["monitor"] # <<>>
    /\ todo' = [todo EXCEPT !["monitor"] = Tail(@)]
    /\ \/ ~ShouldStart(c) /\ UNCHANGED <<pc, job>>
       \/ ShouldStart(c) /\ c # "voice" /\ Call("monitor", c, "respawn")
       \/ /\ ShouldStart(c) /\ c = "voice"
          /\ job' = [job EXCEPT !["monitor"] = [comp |-> c, kind |-> "respawn"]]
          /\ To("monitor", "probe")
    /\ UNCHANGED <<shutting_down, flags, workers, backoff, operations, environment>>

ProbeAnswered ==
    /\ pc["monitor"] = "probe"
    /\ Answers("tts")
    /\ To("monitor", "lock")
    /\ UNCHANGED <<shutting_down, flags, workers, backoff, operations, job, todo, environment>>

ProbeFails ==
    /\ pc["monitor"] = "probe"
    /\ To("monitor", "tick")
    /\ UNCHANGED <<shutting_down, flags, workers, backoff, operations, job, todo, environment>>

-----------------------------------------------------------------------------
(* The installer: quiesce_for_asset, the file replacement, and              *)
(* resume_after_asset.                                                      *)

(* The components a quiesce stops, in its order.                            *)
Quiesced(a) == IF a = "voice-tts" THEN <<"voice", "tts">> ELSE <<"voice">>

Install ==
    /\ pc["asset"] = "idle"
    /\ Spend("installs")
    /\ asset' \in Asset
    /\ todo' = [todo EXCEPT !["asset"] = Quiesced(asset')]
    /\ Call("asset", "voice", "quiesce")
    /\ UNCHANGED <<shutting_down, flags, workers, backoff, installed, operations>>

(* maintenance is raised and desired_running read; both operation mutexes    *)
(* are held.                                                                *)
Mark ==
    LET c == Head(todo["asset"]) IN
    /\ pc["asset"] = "mark"
    /\ todo["asset"] # <<>>
    /\ maintenance' = [maintenance EXCEPT ![c] = TRUE]
    /\ job' = [job EXCEPT !["asset"] = [comp |-> c, kind |-> "quiesce"]]
    /\ To("asset", "stop")
    /\ UNCHANGED <<shutting_down, desired_running, stopping, workers, backoff, operations,
                   todo, environment>>

(* installed(c) looks at the files of asset a.                              *)
Needs(c, a) == <<c, a>> \in {<<"voice", "voice-kws">>, <<"tts", "voice-tts">>}

(* commit_replacements: files vanish, then either the new ones or the old    *)
(* ones are there, or none if there were none or they could not be restored. *)
Replace ==
    /\ pc["asset"] = "commit"
    /\ To("asset", "replacing")
    /\ installed' = [c \in Component |-> installed[c] /\ ~Needs(c, asset)]
    /\ UNCHANGED <<shutting_down, flags, workers, backoff, operations, job, todo, asset, left>>

Replaced ==
    /\ pc["asset"] = "replacing"
    /\ To("asset", "resume")
    /\ \E complete \in BOOLEAN :
         installed' = [c \in Component |->
                          IF Needs(c, asset) THEN complete ELSE installed[c]]
    /\ UNCHANGED <<shutting_down, flags, workers, backoff, operations, job, todo, asset, left>>

(* The maintenance flags once the components of asset a are released.       *)
Lowered_VoiceOnly(a) == [maintenance EXCEPT !["voice"] = FALSE]    \* fault: TTS forgotten
Lowered(a) == [c \in Component |->
    maintenance[c] /\ c # "voice" /\ ~(c = "tts" /\ a = "voice-tts")]

(* maintenance is lowered without any operation mutex; TTS is visited first. *)
Resume ==
    /\ pc["asset"] = "resume"
    /\ maintenance' = Lowered(asset)
    /\ todo' = [todo EXCEPT !["asset"] =
                   IF asset = "voice-tts" THEN <<"tts", "voice">> ELSE <<"voice">>]
    /\ To("asset", "resuming")
    /\ UNCHANGED <<shutting_down, desired_running, stopping, workers, backoff, operations, job,
                   environment>>

ResumeNext ==
    /\ pc["asset"] = "resuming"
    /\ IF todo["asset"] = <<>>
       THEN To("asset", "idle") /\ UNCHANGED <<job, todo>>
       ELSE /\ Call("asset", Head(todo["asset"]), "ensure")
            /\ todo' = [todo EXCEPT !["asset"] = Tail(@)]
    /\ UNCHANGED <<shutting_down, flags, workers, backoff, operations, environment>>

-----------------------------------------------------------------------------
(* shutdown().                                                              *)

BeginShutdown ==
    /\ pc["shutdown"] = "idle" /\ left["shutdowns"] > 0
    /\ shutting_down' = TRUE
    /\ todo' = [todo EXCEPT !["shutdown"] = Order]
    /\ To("shutdown", "closing")
    /\ UNCHANGED <<flags, workers, backoff, operations, job, environment>>

CloseNext ==
    /\ pc["shutdown"] = "closing"
    /\ IF todo["shutdown"] = <<>>
       THEN To("shutdown", "closed") /\ UNCHANGED <<job, todo>>
       ELSE /\ Call("shutdown", Head(todo["shutdown"]), "stop")
            /\ todo' = [todo EXCEPT !["shutdown"] = Tail(@)]
    /\ UNCHANGED <<shutting_down, flags, workers, backoff, operations, environment>>

-----------------------------------------------------------------------------
(* One step of a call that is under way, whoever made it.                   *)
CallStep(t) ==
    \/ Check(t) \/ Stop(t) \/ Terminated(t) \/ Stopped(t) \/ Start(t) \/ StartTts(t)
    \/ Spawn(t) \/ SpawnFails(t) \/ SpawnTts(t) \/ SpawnTtsFails(t)
    \/ TtsReady(t) \/ TtsTimeout(t)

MonitorStep == Bootstrap \/ Tick \/ Visit \/ ProbeAnswered \/ ProbeFails
AssetStep   == Mark \/ Replace \/ Replaced \/ Resume \/ ResumeNext

Next ==
    \/ \E t \in Client : Request(t) \/ Drop(t)
    \/ \E t \in Task : Acquire(t) \/ LockTts(t) \/ CallStep(t) \/ Obeys(t)
    \/ \E c \in Component : Crash(c) \/ Dies(c) \/ BackoffEnds(c)
    \/ Overview
    \/ Install
    \/ BeginShutdown
    \/ MonitorStep
    \/ AssetStep
    \/ CloseNext

Spec == Init /\ [][Next]_vars

(***************************************************************************)
(* Fairness: the runtime polls every ready task (weak fairness of the steps *)
(* of a call and of the scripts), tokio's mutexes are granted in FIFO order  *)
(* (strong fairness of acquiring; a task waits for one mutex at a time), a     *)
(* signalled process ends, time passes, and a TTS worker that stays up       *)
(* answers one of the monitor's probes.                                     *)
(* Requests, drops, crashes, installs and shutdown need not happen.         *)
(***************************************************************************)
Fairness ==
    /\ \A t \in Task : /\ WF_vars(CallStep(t) \/ Obeys(t))
                       /\ SF_vars(Acquire(t) \/ LockTts(t))
    /\ \A c \in Component : WF_vars(Dies(c)) /\ WF_vars(BackoffEnds(c))
    /\ WF_vars(MonitorStep) /\ WF_vars(AssetStep) /\ WF_vars(CloseNext)
    /\ SF_vars(ProbeAnswered)

FairSpec == Spec /\ Fairness

-----------------------------------------------------------------------------
(* Properties.                                                              *)

(* The shape of the supervisor's state.                                     *)
TypeOK ==
    /\ shutting_down \in BOOLEAN
    /\ desired_running \in [Component -> BOOLEAN]
    /\ stopping \in [Component -> BOOLEAN]
    /\ maintenance \in [Component -> BOOLEAN]
    /\ child \in [Component -> Process]
    /\ backoff \in [Component -> BOOLEAN]
    /\ installed \in [Component -> BOOLEAN]
    /\ operations \in [Component -> Task \cup {NoTask}]
    /\ pc \in [Task -> Stage]
    /\ job \in [Task -> [comp : Component, kind : Kind]]
    /\ held \in [Task -> Process]
    /\ doomed \in [Component -> Nat]
    /\ todo \in [Script -> Seq(Component)]
    /\ asset \in Asset
    /\ left \in [Bound -> Nat]

(* The process of component c that task t is waiting to see end.            *)
Ending(t, c) == job[t].comp = c /\ held[t] = "alive"

(* Some process of c runs that nobody has killed outright.                  *)
Running(c) == child[c] = "alive" \/ \E t \in Task : Ending(t, c)

(* However starts, stops, restarts, crashes, respawns, installs and dropped  *)
(* requests interleave, a component never has two processes, leaving aside   *)
(* one that a dropped request has already sent SIGKILL.  This is what the    *)
(* operation mutexes and the stopping flag are for, and what                *)
(* restart_does_not_spawn_before_old_child_exits tests for one schedule.     *)
OneProcess ==
    \A c \in Component :
        /\ child[c] = "alive" => \A t \in Task : ~Ending(t, c)
        /\ \A t, u \in Task : Ending(t, c) /\ Ending(u, c) => t = u

(* A component is under maintenance only while an installation is between    *)
(* quiesce and resume: an installation that failed leaves no worker parked.  *)
MaintenanceIsTransient ==
    \A c \in Component : maintenance[c] =>
        /\ pc["asset"] \in {"mark", "stop", "wait", "stopped", "commit", "replacing", "resume"}
        /\ \E i \in DOMAIN Quiesced(asset) : Quiesced(asset)[i] = c

(* A request that stopped a component finds it stopped: no task starts it    *)
(* again behind the back of the operation mutex the request still holds.     *)
StopIsNotUndone ==
    \A t \in Task : pc[t] \in {"wait", "stopped"} =>
        /\ child[job[t].comp] = "none"
        /\ desired_running[job[t].comp] => job[t].kind # "stop"

(* Every task that waits for TTS's mutex holds Voice's, and nobody holds     *)
(* TTS's while waiting for Voice's: the two mutexes cannot deadlock.        *)
NoCircularWait ==
    \A t \in Task : /\ pc[t] = "lockTts" => operations["voice"] = t /\ operations["tts"] # t
                    /\ pc[t] = "lock" => \A c \in Component : operations[c] # t

(* The supervisor implements WorkerPool: every step launches one process of  *)
(* a component that has none and may have one, ends one, freezes or thaws    *)
(* the components of an asset, closes, or changes nothing of that.          *)
Pool == INSTANCE WorkerPool WITH
    live   <- {c \in Component : Running(c)},
    frozen <- IF pc["asset"] \in {"commit", "replacing"}
              THEN {Quiesced(asset)[i] : i \in DOMAIN Quiesced(asset)}
              ELSE {},
    closed <- pc["shutdown"] = "closed"
ImplementsPool == Pool!Spec

(* Every call of the supervisor returns: a request, a visit of the monitor,  *)
(* the installer's calls, each step of shutdown(), which then completes even  *)
(* while a start of Voice waits for TTS.                                    *)
CallsReturn ==
    /\ \A t \in Task : pc[t] = "lock" ~>
                           pc[t] \in {"idle", "boot", "tick", "closing", "commit", "resuming"}
    /\ shutting_down ~> pc["shutdown"] = "closed"

(* Nothing that is not the supervisor's own business keeps c from running.   *)
Wanted(c) == desired_running[c] /\ installed[c] /\ ~maintenance[c] /\ ~shutting_down

(* A worker that is wanted and installed ends up running, after any crash,   *)
(* unless somebody stops it, an installation parks it or the hub shuts down; *)
(* for Voice, provided TTS is wanted as well.  README.md:384 promises the    *)
(* restart of Voice and TTS.                                                *)
WantedRuns ==
    \A c \in Component :
        LET Due == Wanted(c) /\ (c = "voice" => Wanted("tts"))
        IN  Due ~> child[c] = "alive" \/ ~Due

=============================================================================
