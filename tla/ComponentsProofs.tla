-------------------------- MODULE ComponentsProofs --------------------------
(***************************************************************************)
(* Proofs about Components for every set of components and handlers and for *)
(* every bound.                                                             *)
(***************************************************************************)
EXTENDS Components, TLAPS

(***************************************************************************)
(* The inductive invariant.  It is stated for one task at a time, because    *)
(* every step of the supervisor is a step of one task (or of a worker) and   *)
(* the operation mutexes keep the others from noticing it: Undisturbed       *)
(* below is all that a task needs of the steps of the rest.                 *)
(***************************************************************************)

(* A task that is past the wait for its component's mutex holds it.         *)
InCall == {"check", "stop", "wait", "stopped", "start", "lockTts", "startTts", "spawnTts",
           "waitTts", "spawn"}
Returned == {"idle", "boot", "tick", "commit", "resuming", "closing"}
TtsStage == {"startTts", "spawnTts", "waitTts"}
Quiescing == {"mark", "stop", "wait", "stopped"}

(* Which mutexes a task holds at which stage; a quiesce has both.           *)
Locks(t) ==
    /\ pc[t] \in InCall => operations[job[t].comp] = t
    /\ pc[t] \in {"lockTts"} \cup TtsStage => job[t].comp = "voice"
    /\ pc[t] \in TtsStage => operations["tts"] = t
    /\ pc[t] = "mark" => job[t].kind = "quiesce"
    /\ job[t].kind = "quiesce" =>
           /\ t = "asset" /\ job[t].comp \in {"voice", "tts"}
           /\ \/ pc[t] \in {"lock", "lockTts"} /\ job[t].comp = "voice"
              \/ pc[t] \in Quiescing
           /\ pc[t] \in Quiescing => operations["voice"] = t /\ operations["tts"] = t

(* And no others.                                                           *)
NoOtherLock(t) ==
    \A c \in Component : operations[c] = t =>
        \/ pc[t] \in InCall /\ c = job[t].comp
        \/ pc[t] \in TtsStage /\ c = "tts"
        \/ pc[t] \in Quiescing /\ job[t].kind = "quiesce" /\ c \in {"voice", "tts"}

(* A stop that is under way has emptied the table entry, and stopping keeps  *)
(* it empty; only such a stop holds a Child; a plain stop is not undone.     *)
Stops(t) ==
    /\ held[t] # "none" => pc[t] = "wait"
    /\ pc[t] \in {"wait", "stopped"} =>
           /\ stopping[job[t].comp]
           /\ child[job[t].comp] = "none"
           /\ desired_running[job[t].comp] => job[t].kind # "stop"

(* The installer only visits the voice workers.                             *)
AssetTodo == todo["asset"] \in Seq({"voice", "tts"})

TaskInv(t) == Locks(t) /\ NoOtherLock(t) /\ Stops(t)
IInv == TypeOK /\ AssetTodo /\ \A t \in Task : TaskInv(t)
-----------------------------------------------------------------------------
(* Facts about the operators every action is built from.                    *)

LEMMA Names ==
    /\ {"tts", "voice"} \subseteq Component
    /\ Script \subseteq Task
    /\ Client \subseteq Task
    /\ "asset" \in Task /\ "monitor" \in Task /\ "shutdown" \in Task
    /\ NoTask \notin Task
BY ComponentsAssumption DEF Task, Script, NoTask

LEMMA NoCallType == NoCall \in [comp : Component, kind : Kind]
BY ComponentsAssumption DEF NoCall, Kind

LEMMA OrderType == Order \in Seq(Component)
<1>1. Order \in Seq(STRING)
  BY ComponentsAssumption
<1>2. \A i \in 1..Len(Order) : Order[i] \in Component
  BY <1>1 DEF Component
<1>3. QED
  BY <1>1, <1>2

LEMMA Scripts ==
    /\ <<>> \in Seq(Component)
    /\ <<"voice">> \in Seq(Component)
    /\ <<"tts", "voice">> \in Seq(Component)
    /\ \A a : Quiesced(a) \in Seq(Component) /\ Quiesced(a) # <<>>
    /\ "ddns" \in Component => <<"tts", "ddns", "voice">> \in Seq(Component)
BY Names DEF Quiesced

LEMMA TodoType ==
    ASSUME TypeOK, NEW t \in Script
    PROVE  todo[t] \in Seq(Component) /\ Len(todo[t]) \in Nat
BY DEF TypeOK

LEMMA SpendType ==
    ASSUME TypeOK, NEW b \in Bound, Spend(b)
    PROVE  left' \in [Bound -> Nat]
BY DEF TypeOK, Spend

LEMMA ReturnType ==
    ASSUME TypeOK, NEW t \in Task, NEW ok, Return(t, ok)
    PROVE  /\ pc' \in [Task -> Stage]
           /\ operations' \in [Component -> Task \cup {NoTask}]
           /\ job' \in [Task -> [comp : Component, kind : Kind]]
<1>1. Continuation(t, ok) \in Stage
  BY DEF Continuation, Stage, Task, Script
<1>2. QED
  BY <1>1, NoCallType DEF Return, To, Released, TypeOK

LEMMA SpawnType ==
    ASSUME TypeOK, NEW c \in Component, SpawnLocked(c)
    PROVE  child' \in [Component -> Process] /\ backoff' \in [Component -> BOOLEAN]
BY DEF TypeOK, SpawnLocked, MaySpawn, Process

LEMMA SpawnErrorType ==
    ASSUME TypeOK, NEW c \in Component, SpawnError(c)
    PROVE  /\ child' \in [Component -> Process]
           /\ backoff' \in [Component -> BOOLEAN]
           /\ left' \in [Bound -> Nat]
<1>1. "failures" \in Bound
  BY DEF Bound
<1>2. backoff' \in [Component -> BOOLEAN]
  BY DEF TypeOK, SpawnError
<1>3. CASE Spend("failures")
  BY <1>1, <1>2, <1>3, SpendType DEF TypeOK, SpawnError
<1>4. CASE UNCHANGED left
  BY <1>2, <1>4 DEF TypeOK, SpawnError
<1>5. QED
  BY <1>3, <1>4 DEF SpawnError

LEMMA AfterStopType ==
    ASSUME TypeOK, NEW t \in Task, AfterStop(t)
    PROVE  /\ pc' \in [Task -> Stage]
           /\ operations' \in [Component -> Task \cup {NoTask}]
           /\ job' \in [Task -> [comp : Component, kind : Kind]]
           /\ todo' \in [Script -> Seq(Component)]
<1>0. todo["asset"] \in Seq(Component) /\ Len(todo["asset"]) \in Nat
  BY TodoType DEF Script
<1>1. CASE Goto(t, "start") /\ UNCHANGED todo
  BY <1>1 DEF Goto, To, TypeOK, Stage
<1>2. CASE /\ Len(todo["asset"]) > 1
           /\ todo' = [todo EXCEPT !["asset"] = Tail(todo["asset"])]
           /\ Goto(t, "mark")
  <2>1. Tail(todo["asset"]) \in Seq(Component)
    BY <1>0, <1>2
  <2>2. QED
    BY <1>2, <2>1 DEF Goto, To, TypeOK, Stage
<1>3. CASE todo' = [todo EXCEPT !["asset"] = <<>>] /\ Return(t, TRUE)
  BY <1>3, Scripts, ReturnType DEF TypeOK
<1>4. CASE Return(t, TRUE) /\ UNCHANGED todo
  BY <1>4, ReturnType DEF TypeOK
<1>5. QED
  BY <1>1, <1>2, <1>3, <1>4 DEF AfterStop

-----------------------------------------------------------------------------
(* Type correctness.                                                        *)

LEMMA InitType == Init => TypeOK
<1> SUFFICES ASSUME Init PROVE TypeOK
  OBVIOUS
<1> USE DEF Init
<1>1. pc \in [Task -> Stage]
  BY DEF Stage
<1>2. todo \in [Script -> Seq(Component)]
  BY Scripts
<1>3. job \in [Task -> [comp : Component, kind : Kind]]
  BY NoCallType
<1>4. desired_running \in [Component -> BOOLEAN]
  BY Names
<1>5. /\ child \in [Component -> Process]
      /\ held \in [Task -> Process]
      /\ operations \in [Component -> Task \cup {NoTask}]
      /\ doomed \in [Component -> Nat]
      /\ asset \in Asset
  BY DEF Process, Asset
<1>6. left \in [Bound -> Nat]
  BY ComponentsAssumption
<1>7. QED
  BY <1>1, <1>2, <1>3, <1>4, <1>5, <1>6 DEF TypeOK

LEMMA FirstStageType ==
    \A kind \in Kind :
        /\ kind = "quiesce" => FirstStage[kind] = "lockTts"
        /\ kind # "quiesce" => FirstStage[kind] \in {"start", "stop", "check", "spawn"}
BY DEF FirstStage, Kind

LEMMA CallType ==
    ASSUME TypeOK, NEW t \in Task,
           Acquire(t) \/ LockTts(t) \/ CallStep(t) \/ Obeys(t)
    PROVE  TypeOK'
<1> USE Names DEF TypeOK, flags, workers, environment, Stage, Process
<1>1. CASE Acquire(t)
  <2>1. job[t].kind \in Kind
    BY <1>1
  <2>2. FirstStage[job[t].kind] \in Stage
    BY <2>1, FirstStageType
  <2>3. QED
    BY <1>1, <2>2 DEF Acquire, To
<1>2. CASE LockTts(t)
  BY <1>2, ReturnType, SpawnType, SpawnErrorType DEF LockTts, Free, To
<1>3. CASE Check(t)
  BY <1>3, ReturnType, SpawnType, SpawnErrorType DEF Check, Goto, To
<1>4. CASE Stop(t)
  BY <1>4, ReturnType, SpawnType, SpawnErrorType DEF Stop, TakeChild, WishAfterStop, Goto, To
<1>5. CASE Terminated(t)
  BY <1>5, ReturnType, SpawnType, SpawnErrorType DEF Terminated, Goto, To
<1>6. CASE Stopped(t)
  BY <1>6, AfterStopType DEF Stopped
<1>7. CASE Start(t)
  <2>1. /\ pc' \in [Task -> Stage]
        /\ operations' \in [Component -> Task \cup {NoTask}]
        /\ job' \in [Task -> [comp : Component, kind : Kind]]
    BY <1>7, ReturnType DEF Start, Goto, To
  <2>2. desired_running' \in [Component -> BOOLEAN]
    BY <1>7 DEF Start
  <2>3. QED
    BY <1>7, <2>1, <2>2 DEF Start
<1>8. CASE StartTts(t)
  BY <1>8, ReturnType, SpawnType, SpawnErrorType DEF StartTts, To
<1>9. CASE Spawn(t)
  BY <1>9, ReturnType, SpawnType, SpawnErrorType DEF Spawn
<1>10. CASE SpawnFails(t)
  BY <1>10, ReturnType, SpawnType, SpawnErrorType DEF SpawnFails
<1>11. CASE SpawnTts(t)
  BY <1>11, ReturnType, SpawnType, SpawnErrorType DEF SpawnTts, To
<1>12. CASE SpawnTtsFails(t)
  BY <1>12, ReturnType, SpawnType, SpawnErrorType DEF SpawnTtsFails
<1>13. CASE TtsReady(t)
  BY <1>13, ReturnType, SpawnType, SpawnErrorType DEF TtsReady, To
<1>14. CASE TtsTimeout(t)
  BY <1>14, ReturnType, SpawnType, SpawnErrorType DEF TtsTimeout
<1>15. CASE Obeys(t)
  BY <1>15, ReturnType, SpawnType, SpawnErrorType DEF Obeys
<1>q. QED
  BY <1>1, <1>2, <1>3, <1>4, <1>5, <1>6, <1>7, <1>8, <1>9, <1>10, <1>11, <1>12, <1>13, <1>14, <1>15 DEF CallStep

LEMMA CallShape ==
    ASSUME TypeOK, NEW t \in Task, NEW c \in Component, NEW kind \in Kind, Call(t, c, kind)
    PROVE  /\ pc' \in [Task -> Stage]
           /\ job' \in [Task -> [comp : Component, kind : Kind]]
BY DEF TypeOK, Call, To, Stage

LEMMA TodoStep ==
    ASSUME TypeOK, NEW t \in Script, todo[t] # <<>>
    PROVE  /\ Head(todo[t]) \in Component
           /\ Tail(todo[t]) \in Seq(Component)
           /\ todo' = [todo EXCEPT ![t] = Tail(todo[t])] =>
                  todo' \in [Script -> Seq(Component)]
<1>1. todo[t] \in Seq(Component)
  BY DEF TypeOK
<1>2. Head(todo[t]) \in Component /\ Tail(todo[t]) \in Seq(Component)
  BY <1>1
<1>3. QED
  BY <1>2 DEF TypeOK

LEMMA ToShape ==
    ASSUME TypeOK, NEW t \in Task, NEW stage \in Stage, To(t, stage)
    PROVE  pc' \in [Task -> Stage]
BY DEF TypeOK, To

LEMMA ReapType ==
    ASSUME TypeOK, ReapExited
    PROVE  child' \in [Component -> Process] /\ backoff' \in [Component -> BOOLEAN]
BY DEF TypeOK, ReapExited, Process

LEMMA ScriptType ==
    ASSUME TypeOK, MonitorStep \/ AssetStep \/ CloseNext
    PROVE  TypeOK'
<1> USE Names DEF flags, workers, environment, Script
<1>0. {"boot", "tick", "lock", "probe", "returned", "idle", "closing", "closed"} \subseteq Stage
      /\ {"ensure", "respawn", "stop", "quiesce"} \subseteq Kind
  BY DEF Stage, Kind
<1>1. CASE Bootstrap
  <2>1. CASE todo["monitor"] = <<>>
    BY <1>0, <1>1, <2>1, ToShape DEF Bootstrap, TypeOK
  <2>2. CASE todo["monitor"] # <<>>
    BY <1>0, <1>1, <2>2, CallShape, TodoStep DEF Bootstrap, TypeOK
  <2>3. QED
    BY <2>1, <2>2
<1>2. CASE Tick
  <2>1. CASE shutting_down
    BY <1>0, <1>2, <2>1, ToShape DEF Tick, TypeOK
  <2>2. CASE ~shutting_down
    <3>1. todo' \in [Script -> Seq(Component)]
      BY <1>2, <2>2, OrderType DEF Tick, TypeOK
    <3>2. QED
      BY <1>2, <2>2, <3>1, ReapType DEF Tick, TypeOK
  <2>3. QED
    BY <2>1, <2>2
<1>3. CASE Visit
  <2>1. todo["monitor"] # <<>> /\ todo' = [todo EXCEPT !["monitor"] = Tail(todo["monitor"])]
    BY <1>3 DEF Visit
  <2>2. Head(todo["monitor"]) \in Component /\ todo' \in [Script -> Seq(Component)]
    BY <2>1, TodoStep
  <2>3. pc' \in [Task -> Stage] /\ job' \in [Task -> [comp : Component, kind : Kind]]
    <3>1. CASE UNCHANGED <<pc, job>>
      BY <3>1 DEF TypeOK
    <3>2. CASE Call("monitor", Head(todo["monitor"]), "respawn")
      BY <1>0, <2>2, <3>2, CallShape
    <3>3. CASE /\ job' = [job EXCEPT !["monitor"] =
                              [comp |-> Head(todo["monitor"]), kind |-> "respawn"]]
               /\ To("monitor", "probe")
      BY <1>0, <2>2, <3>3, ToShape DEF TypeOK
    <3>4. QED
      BY <1>3, <3>1, <3>2, <3>3 DEF Visit
  <2>4. QED
    BY <1>3, <2>2, <2>3 DEF Visit, TypeOK
<1>4. CASE ProbeAnswered
  BY <1>0, <1>4, ToShape DEF ProbeAnswered, TypeOK
<1>5. CASE ProbeFails
  BY <1>0, <1>5, ToShape DEF ProbeFails, TypeOK
<1>6. CASE Mark
  <2>1. Head(todo["asset"]) \in Component
    BY <1>6, TodoStep DEF Mark
  <2>2. pc' \in [Task -> Stage] /\ job' \in [Task -> [comp : Component, kind : Kind]]
    BY <1>0, <1>6, <2>1, ToShape DEF Mark, TypeOK, Stage
  <2>3. maintenance' \in [Component -> BOOLEAN]
    BY <1>6, <2>1 DEF Mark, TypeOK
  <2>4. QED
    BY <1>6, <2>2, <2>3 DEF Mark, TypeOK
<1>7. CASE Replace
  BY <1>7 DEF Replace, To, Needs, TypeOK, Stage
<1>8. CASE Replaced
  BY <1>8 DEF Replaced, To, Needs, TypeOK, Stage
<1>9. CASE Resume
  <2>1. todo' \in [Script -> Seq(Component)]
    BY <1>9, Scripts DEF Resume, TypeOK
  <2>2. maintenance' \in [Component -> BOOLEAN]
    BY <1>9 DEF Resume, Lowered, TypeOK
  <2>3. QED
    BY <1>9, <2>1, <2>2, ToShape DEF Resume, TypeOK, Stage
<1>10. CASE ResumeNext
  <2>1. CASE todo["asset"] = <<>>
    BY <1>0, <1>10, <2>1, ToShape DEF ResumeNext, TypeOK
  <2>2. CASE todo["asset"] # <<>>
    BY <1>0, <1>10, <2>2, CallShape, TodoStep DEF ResumeNext, TypeOK
  <2>3. QED
    BY <2>1, <2>2
<1>11. CASE CloseNext
  <2>1. CASE todo["shutdown"] = <<>>
    BY <1>0, <1>11, <2>1, ToShape DEF CloseNext, TypeOK
  <2>2. CASE todo["shutdown"] # <<>>
    BY <1>0, <1>11, <2>2, CallShape, TodoStep DEF CloseNext, TypeOK
  <2>3. QED
    BY <2>1, <2>2
<1>12. QED
  BY <1>1, <1>2, <1>3, <1>4, <1>5, <1>6, <1>7, <1>8, <1>9, <1>10, <1>11
     DEF MonitorStep, AssetStep

LEMMA OtherType ==
    ASSUME TypeOK,
           \/ \E t \in Client : Request(t) \/ Drop(t)
           \/ \E c \in Component : Crash(c) \/ Dies(c) \/ BackoffEnds(c)
           \/ Overview \/ Install \/ BeginShutdown
    PROVE  TypeOK'
<1> USE Names DEF flags, workers, environment, Script
<1>0. /\ {"requests", "crashes", "drops", "installs"} \subseteq Bound
      /\ {"start", "stop", "restart", "quiesce"} \subseteq Kind
  BY DEF Bound, Kind
<1>1. ASSUME NEW t \in Client, Request(t) PROVE TypeOK'
  <2>1. PICK c \in Component, kind \in {"start", "stop", "restart"} : Call(t, c, kind)
    BY <1>1 DEF Request
  <2>2. pc' \in [Task -> Stage] /\ job' \in [Task -> [comp : Component, kind : Kind]]
    BY <1>0, <2>1, CallShape
  <2>3. left' \in [Bound -> Nat]
    BY <1>0, <1>1, SpendType DEF Request
  <2>4. QED
    BY <1>1, <2>2, <2>3 DEF Request, TypeOK
<1>2. ASSUME NEW t \in Client, Drop(t) PROVE TypeOK'
  <2>1. /\ pc' \in [Task -> Stage]
        /\ operations' \in [Component -> Task \cup {NoTask}]
        /\ job' \in [Task -> [comp : Component, kind : Kind]]
    BY <1>2, ReturnType DEF Drop
  <2>2. doomed' \in [Component -> Nat] /\ held' \in [Task -> Process]
    BY <1>2 DEF Drop, TypeOK, Process
  <2>3. left' \in [Bound -> Nat]
    BY <1>0, <1>2, SpendType DEF Drop
  <2>4. QED
    BY <1>2, <2>1, <2>2, <2>3 DEF Drop, TypeOK
<1>3. ASSUME NEW c \in Component, Crash(c) PROVE TypeOK'
  <2>1. left' \in [Bound -> Nat]
    BY <1>0, <1>3, SpendType DEF Crash
  <2>2. QED
    BY <1>3, <2>1 DEF Crash, TypeOK, Process
<1>4. ASSUME NEW c \in Component, Dies(c) PROVE TypeOK'
  BY <1>4 DEF Dies, TypeOK
<1>5. ASSUME NEW c \in Component, BackoffEnds(c) PROVE TypeOK'
  BY <1>5 DEF BackoffEnds, TypeOK
<1>6. CASE Overview
  BY <1>6, ReapType DEF Overview, TypeOK
<1>7. CASE Install
  <2>1. todo' \in [Script -> Seq(Component)] /\ asset' \in Asset
    BY <1>7, Scripts DEF Install, TypeOK
  <2>2. left' \in [Bound -> Nat]
    BY <1>0, <1>7, SpendType DEF Install
  <2>3. pc' \in [Task -> Stage] /\ job' \in [Task -> [comp : Component, kind : Kind]]
    BY <1>0, <1>7, CallShape DEF Install
  <2>4. QED
    BY <1>7, <2>1, <2>2, <2>3 DEF Install, TypeOK
<1>8. CASE BeginShutdown
  <2>1. todo' \in [Script -> Seq(Component)]
    BY <1>8, OrderType DEF BeginShutdown, TypeOK
  <2>2. QED
    BY <1>8, <2>1, ToShape DEF BeginShutdown, TypeOK, Stage
<1>9. QED
  BY <1>1, <1>2, <1>3, <1>4, <1>5, <1>6, <1>7, <1>8

(* The supervisor's state keeps its shape, for any number of components and  *)
(* handlers and any bounds (the tables of ManagerState).                    *)
THEOREM TypeCorrect == Spec => []TypeOK
<1>1. Init => TypeOK
  BY InitType
<1>2. TypeOK /\ [Next]_vars => TypeOK'
  <2> SUFFICES ASSUME TypeOK, [Next]_vars PROVE TypeOK'
    OBVIOUS
  <2>1. CASE Next
    BY <2>1, CallType, ScriptType, OtherType DEF Next
  <2>2. CASE UNCHANGED vars
    BY <2>2 DEF vars, TypeOK
  <2>3. QED
    BY <2>1, <2>2
<1>3. QED
  BY <1>1, <1>2, PTL DEF Spec

-----------------------------------------------------------------------------
(* What a step must leave alone for the other tasks: their own fields, the   *)
(* mutexes they hold, and whatever a mutex they hold protects.              *)
Undisturbed(u) ==
    /\ pc'[u] = pc[u] /\ job'[u] = job[u] /\ held'[u] = held[u]
    /\ \A c \in Component : operations'[c] = u <=> operations[c] = u
    /\ \A c \in Component : operations[c] = u =>
           /\ stopping[c] => stopping'[c]
           /\ child[c] = "none" => child'[c] = "none"
           /\ desired_running'[c] => desired_running[c]

LEMMA Undisturbing ==
    ASSUME IInv, NEW u \in Task, Undisturbed(u)
    PROVE  TaskInv(u)'
<1> USE Names DEF IInv, TaskInv, Undisturbed
<1>1. job[u].comp \in Component
  BY DEF TypeOK
<1>2. Locks(u)'
  BY <1>1 DEF Locks
<1>3. NoOtherLock(u)'
  BY <1>1 DEF NoOtherLock
<1>4. Stops(u)'
  <2>1. pc[u] \in {"wait", "stopped"} => operations[job[u].comp] = u
    BY <1>1 DEF Locks, InCall
  <2>2. QED
    BY <1>1, <2>1 DEF Stops
<1>5. QED
  BY <1>2, <1>3, <1>4

(* What Return does for the caller, and for the others.                     *)
LEMMA ReturnStage ==
    ASSUME NEW t \in Task, NEW ok
    PROVE  Continuation(t, ok) \in Returned
BY DEF Continuation, Returned, Task, Script

LEMMA ReturnOwn ==
    ASSUME TypeOK, NEW t \in Task, NEW ok, Return(t, ok), held'[t] = "none"
    PROVE  TaskInv(t)'
<1>1. pc'[t] \in Returned /\ job'[t] = NoCall
  BY ReturnStage DEF Return, To, TypeOK
<1>2. \A c \in Component : operations'[c] # t
  BY Names DEF Return, Released, TypeOK
<1>3. pc'[t] \notin InCall \cup TtsStage \cup Quiescing \cup {"lock", "lockTts", "wait"}
  BY <1>1 DEF Returned, InCall, TtsStage, Quiescing
<1>4. job'[t].kind # "quiesce"
  BY <1>1 DEF NoCall
<1>5. Locks(t)' /\ Stops(t)'
  BY <1>3, <1>4 DEF Locks, Stops, Quiescing, InCall
<1>6. NoOtherLock(t)'
  BY <1>2 DEF NoOtherLock
<1>7. QED
  BY <1>5, <1>6 DEF TaskInv

LEMMA ReturnOthers ==
    ASSUME TypeOK, NEW t \in Task, NEW ok, Return(t, ok), NEW u \in Task, u # t
    PROVE  /\ pc'[u] = pc[u] /\ job'[u] = job[u]
           /\ \A c \in Component : operations'[c] = u <=> operations[c] = u
BY Names DEF Return, Released, To, TypeOK

(* Goto and To keep everything of the other tasks.                          *)
LEMMA ToOthers ==
    ASSUME TypeOK, NEW t \in Task, NEW stage, To(t, stage)
    PROVE  pc'[t] = stage /\ \A u \in Task : u # t => pc'[u] = pc[u]
BY DEF To, TypeOK

(* A task whose call is at stage s past its lock is alone with its component. *)
LEMMA Alone ==
    ASSUME IInv, NEW t \in Task, pc[t] \in InCall, NEW u \in Task, u # t
    PROVE  operations[job[t].comp] # u
BY DEF IInv, TaskInv, Locks

LEMMA AcquireStep ==
    ASSUME IInv, NEW t \in Task, Acquire(t)
    PROVE  TaskInv(t)' /\ \A u \in Task \ {t} : Undisturbed(u)
<1> DEFINE c == job[t].comp
           s == FirstStage[job[t].kind]
<1>1. /\ TypeOK /\ c \in Component /\ job[t].kind \in Kind
      /\ pc[t] = "lock" /\ operations[c] = NoTask
      /\ operations' = [operations EXCEPT ![c] = t]
      /\ UNCHANGED <<stopping, child, desired_running, job, held>>
  BY DEF Acquire, Free, IInv, TypeOK, flags, workers
<1>2. pc'[t] = s /\ \A u \in Task : u # t => pc'[u] = pc[u]
  BY <1>1, ToOthers DEF Acquire
<1>3. \A u \in Task \ {t} : Undisturbed(u)
  BY <1>1, <1>2, Names DEF Undisturbed, TypeOK
<1>4. /\ job[t].kind = "quiesce" => s = "lockTts"
      /\ job[t].kind # "quiesce" => s \in {"start", "stop", "check", "spawn"}
  BY <1>1, FirstStageType
<1>5. TaskInv(t)
  BY DEF IInv
<1>6. Locks(t)'
  BY <1>1, <1>2, <1>4, <1>5 DEF TaskInv, Locks, InCall, TtsStage, Quiescing, TypeOK
<1>7. NoOtherLock(t)'
  <2>1. \A d \in Component : operations[d] # t
    BY <1>1, <1>5 DEF TaskInv, NoOtherLock, InCall, TtsStage, Quiescing
  <2>2. pc'[t] \in InCall
    BY <1>2, <1>4 DEF InCall
  <2>3. QED
    BY <1>1, <2>1, <2>2 DEF NoOtherLock, TypeOK
<1>8. Stops(t)'
  BY <1>1, <1>2, <1>4, <1>5 DEF TaskInv, Stops
<1>9. QED
  BY <1>3, <1>6, <1>7, <1>8 DEF TaskInv

LEMMA LockTtsStep ==
    ASSUME IInv, NEW t \in Task, LockTts(t)
    PROVE  TaskInv(t)' /\ \A u \in Task \ {t} : Undisturbed(u)
<1> DEFINE s == IF job[t].kind = "quiesce" THEN "mark" ELSE "startTts"
<1>1. /\ TypeOK /\ job[t].comp \in Component
      /\ pc[t] = "lockTts" /\ operations["tts"] = NoTask
      /\ operations' = [operations EXCEPT !["tts"] = t]
      /\ UNCHANGED <<stopping, child, desired_running, job, held>>
  BY DEF LockTts, Free, IInv, TypeOK, flags, workers
<1>2. pc'[t] = s /\ \A u \in Task : u # t => pc'[u] = pc[u]
  BY <1>1, ToOthers DEF LockTts
<1>3. \A u \in Task \ {t} : Undisturbed(u)
  BY <1>1, <1>2, Names DEF Undisturbed, TypeOK
<1>4. /\ job[t].comp = "voice" /\ operations["voice"] = t
      /\ job[t].kind = "quiesce" => t = "asset"
      /\ \A d \in Component : operations[d] = t => d = "voice"
  BY <1>1 DEF IInv, TaskInv, Locks, NoOtherLock, InCall, TtsStage, Quiescing
<1>5. operations'["voice"] = t /\ operations'["tts"] = t
  BY <1>1, <1>4, Names DEF TypeOK
<1>6. Locks(t)'
  BY <1>1, <1>2, <1>4, <1>5 DEF Locks, InCall, TtsStage, Quiescing
<1>7. NoOtherLock(t)'
  BY <1>1, <1>2, <1>4 DEF NoOtherLock, InCall, TtsStage, Quiescing, TypeOK
<1>8. Stops(t)'
  BY <1>1, <1>2 DEF IInv, TaskInv, Stops
<1>9. QED
  BY <1>3, <1>6, <1>7, <1>8 DEF TaskInv

LEMMA StopStep ==
    ASSUME IInv, NEW t \in Task, Stop(t)
    PROVE  TaskInv(t)' /\ \A u \in Task \ {t} : Undisturbed(u)
<1> DEFINE c == job[t].comp
<1>1. /\ TypeOK /\ c \in Component /\ pc[t] = "stop"
      /\ UNCHANGED <<operations, job>>
      /\ stopping' = [stopping EXCEPT ![c] = TRUE]
      /\ child' = [child EXCEPT ![c] = "none"]
      /\ held' = [held EXCEPT ![t] = child[c]]
      /\ desired_running' = [desired_running EXCEPT
             ![c] = WishAfterStop(job[t].kind, desired_running[c])]
  BY DEF Stop, TakeChild, IInv, TypeOK
<1>2. pc'[t] = "wait" /\ \A u \in Task : u # t => pc'[u] = pc[u]
  BY <1>1, ToOthers DEF Stop
<1>3. \A u \in Task \ {t} : Undisturbed(u)
  <2> SUFFICES ASSUME NEW u \in Task, u # t PROVE Undisturbed(u)
    OBVIOUS
  <2>1. operations[c] # u
    BY <1>1, Alone DEF InCall
  <2>2. QED
    BY <1>1, <1>2, <2>1 DEF Undisturbed, TypeOK
<1>4. TaskInv(t)
  BY DEF IInv
<1>5. Locks(t)'
  BY <1>1, <1>2, <1>4 DEF TaskInv, Locks, InCall, TtsStage, Quiescing
<1>6. NoOtherLock(t)'
  BY <1>1, <1>2, <1>4 DEF TaskInv, NoOtherLock, InCall, TtsStage, Quiescing
<1>7. Stops(t)'
  BY <1>1, <1>2 DEF Stops, WishAfterStop, TypeOK
<1>8. QED
  BY <1>3, <1>5, <1>6, <1>7 DEF TaskInv

(* The other steps of a call either return or go on to a next stage with the *)
(* same mutexes; each changes at most what its own mutex protects.          *)
LEMMA ReturnStep ==
    ASSUME IInv, NEW t \in Task, NEW ok, Return(t, ok),
           held'[t] = "none", \A u \in Task \ {t} : held'[u] = held[u],
           \A u \in Task \ {t}, c \in Component : operations[c] = u =>
               /\ stopping[c] => stopping'[c]
               /\ child[c] = "none" => child'[c] = "none"
               /\ desired_running'[c] => desired_running[c]
    PROVE  TaskInv(t)' /\ \A u \in Task \ {t} : Undisturbed(u)
<1>1. TypeOK
  BY DEF IInv
<1>2. TaskInv(t)'
  BY <1>1, ReturnOwn
<1>3. ASSUME NEW u \in Task, u # t PROVE Undisturbed(u)
  BY <1>1, <1>3, ReturnOthers DEF Undisturbed
<1>4. QED
  BY <1>2, <1>3

LEMMA GotoStep ==
    ASSUME IInv, NEW t \in Task, NEW stage, Goto(t, stage), UNCHANGED held,
           pc[t] \in InCall, job[t].kind # "quiesce", held[t] = "none",
           \/ stage \in {"start", "spawn"} /\ pc[t] \notin TtsStage
           \/ stage = "lockTts" /\ job[t].comp = "voice" /\ pc[t] \notin TtsStage
           \/ stage \in TtsStage /\ pc[t] \in TtsStage,
           \A u \in Task \ {t}, c \in Component : operations[c] = u =>
               /\ stopping[c] => stopping'[c]
               /\ child[c] = "none" => child'[c] = "none"
               /\ desired_running'[c] => desired_running[c]
    PROVE  TaskInv(t)' /\ \A u \in Task \ {t} : Undisturbed(u)
<1>1. TypeOK /\ UNCHANGED <<operations, job>> /\ TaskInv(t)
  BY DEF IInv, Goto
<1>2. pc'[t] = stage /\ \A u \in Task : u # t => pc'[u] = pc[u]
  BY <1>1, ToOthers DEF Goto
<1>3. \A u \in Task \ {t} : Undisturbed(u)
  BY <1>1, <1>2 DEF Undisturbed
<1>4. Locks(t)'
  BY <1>1, <1>2 DEF TaskInv, Locks, InCall, TtsStage, Quiescing
<1>5. NoOtherLock(t)'
  BY <1>1, <1>2 DEF TaskInv, NoOtherLock, InCall, TtsStage, Quiescing
<1>6. Stops(t)'
  BY <1>1, <1>2 DEF Stops, TtsStage
<1>7. QED
  BY <1>3, <1>4, <1>5, <1>6 DEF TaskInv

(* What IInv says of a call at one stage.                                   *)
LEMMA AtStage ==
    ASSUME IInv, NEW t \in Task
    PROVE  /\ job[t].comp \in Component /\ job[t].kind \in Kind
           /\ pc[t] # "wait" => held[t] = "none"
           /\ pc[t] \in InCall \ {"lockTts", "stop", "wait", "stopped"} =>
                  job[t].kind # "quiesce"
           /\ pc[t] \in InCall => operations[job[t].comp] = t
           /\ pc[t] \in TtsStage => operations["tts"] = t
BY DEF IInv, TypeOK, TaskInv, Locks, Stops, InCall, Quiescing

LEMMA CheckStep ==
    ASSUME IInv, NEW t \in Task, Check(t)
    PROVE  TaskInv(t)' /\ \A u \in Task \ {t} : Undisturbed(u)
<1>1. pc[t] = "check" /\ UNCHANGED <<stopping, child, desired_running, held>>
  BY DEF Check, flags, workers
<1>2. pc[t] \in InCall \ {"lockTts", "stop", "wait", "stopped"} /\ pc[t] \notin TtsStage
  BY <1>1 DEF InCall, TtsStage
<1>3. held[t] = "none" /\ job[t].kind # "quiesce"
  BY <1>1, <1>2, AtStage
<1>4. CASE Goto(t, "start")
  BY <1>1, <1>2, <1>3, <1>4, GotoStep
<1>5. CASE Return(t, TRUE)
  BY <1>1, <1>3, <1>5, ReturnStep
<1>6. QED
  BY <1>4, <1>5 DEF Check

LEMMA TerminatedStep ==
    ASSUME IInv, NEW t \in Task, Terminated(t)
    PROVE  TaskInv(t)' /\ \A u \in Task \ {t} : Undisturbed(u)
<1>1. /\ TypeOK /\ TaskInv(t) /\ pc[t] = "wait"
      /\ UNCHANGED <<operations, job, stopping, child, desired_running>>
      /\ held' = [held EXCEPT ![t] = "none"]
  BY DEF IInv, Terminated, flags
<1>2. pc'[t] = "stopped" /\ \A u \in Task : u # t => pc'[u] = pc[u]
  BY <1>1, ToOthers DEF Terminated
<1>3. \A u \in Task \ {t} : Undisturbed(u)
  BY <1>1, <1>2 DEF Undisturbed, TypeOK
<1>4. Locks(t)'
  BY <1>1, <1>2 DEF TaskInv, Locks, InCall, TtsStage, Quiescing
<1>5. NoOtherLock(t)'
  BY <1>1, <1>2 DEF TaskInv, NoOtherLock, InCall, TtsStage, Quiescing
<1>6. Stops(t)'
  BY <1>1, <1>2 DEF TaskInv, Stops, TypeOK
<1>7. QED
  BY <1>3, <1>4, <1>5, <1>6 DEF TaskInv

LEMMA StoppedStep ==
    ASSUME IInv, NEW t \in Task, Stopped(t)
    PROVE  TaskInv(t)' /\ \A u \in Task \ {t} : Undisturbed(u)
<1> DEFINE c == job[t].comp
<1>1. /\ TypeOK /\ TaskInv(t) /\ pc[t] = "stopped" /\ c \in Component
      /\ UNCHANGED <<child, desired_running, held>>
      /\ stopping' = [stopping EXCEPT ![c] = FALSE]
  BY DEF IInv, TypeOK, Stopped, workers
<1>2. pc[t] \in InCall /\ pc[t] \notin TtsStage /\ held[t] = "none"
  BY <1>1, AtStage DEF InCall, TtsStage
<1>3. \A u \in Task \ {t}, d \in Component : operations[d] = u =>
          /\ stopping[d] => stopping'[d]
          /\ child[d] = "none" => child'[d] = "none"
          /\ desired_running'[d] => desired_running[d]
  <2>1. operations[c] = t
    BY <1>2, AtStage
  <2>2. QED
    BY <1>1, <2>1 DEF TypeOK
<1>4. CASE job[t].kind = "restart" /\ Goto(t, "start")
  BY <1>1, <1>2, <1>3, <1>4, GotoStep
<1>5. CASE job[t].kind = "quiesce" /\ Goto(t, "mark")
  <2>1. pc'[t] = "mark" /\ \A u \in Task : u # t => pc'[u] = pc[u]
    BY <1>1, <1>5, ToOthers DEF Goto
  <2>2. UNCHANGED <<operations, job>>
    BY <1>5 DEF Goto
  <2>3. \A u \in Task \ {t} : Undisturbed(u)
    BY <1>1, <1>3, <2>1, <2>2 DEF Undisturbed
  <2>4. Locks(t)'
    BY <1>1, <1>5, <2>1, <2>2 DEF TaskInv, Locks, InCall, TtsStage, Quiescing
  <2>5. NoOtherLock(t)'
    BY <1>1, <1>5, <2>1, <2>2 DEF TaskInv, Locks, NoOtherLock, InCall, TtsStage, Quiescing
  <2>6. Stops(t)'
    BY <1>1, <1>2, <2>1 DEF Stops
  <2>7. QED
    BY <2>3, <2>4, <2>5, <2>6 DEF TaskInv
<1>6. CASE Return(t, TRUE)
  BY <1>1, <1>2, <1>3, <1>6, ReturnStep
<1>7. QED
  BY <1>4, <1>5, <1>6 DEF Stopped, AfterStop

LEMMA StartStep ==
    ASSUME IInv, NEW t \in Task, Start(t)
    PROVE  TaskInv(t)' /\ \A u \in Task \ {t} : Undisturbed(u)
<1> DEFINE c == job[t].comp
<1>1. TypeOK /\ pc[t] = "start" /\ UNCHANGED <<stopping, child, held>>
  BY DEF IInv, Start, workers
<1>2. /\ pc[t] \in InCall \ {"lockTts", "stop", "wait", "stopped"}
      /\ pc[t] \in InCall /\ pc[t] \notin TtsStage
  BY <1>1 DEF InCall, TtsStage
<1>3. held[t] = "none" /\ job[t].kind # "quiesce" /\ operations[c] = t /\ c \in Component
  BY <1>1, <1>2, AtStage
<1>4. \A u \in Task \ {t}, d \in Component : operations[d] = u =>
          /\ stopping[d] => stopping'[d]
          /\ child[d] = "none" => child'[d] = "none"
          /\ desired_running'[d] => desired_running[d]
  BY <1>1, <1>3 DEF Start, TypeOK
<1>5. ASSUME NEW ok, Return(t, ok)
      PROVE  TaskInv(t)' /\ \A u \in Task \ {t} : Undisturbed(u)
  BY <1>1, <1>3, <1>4, <1>5, ReturnStep
<1>6. CASE Goto(t, "spawn")
  BY <1>1, <1>2, <1>3, <1>4, <1>6, GotoStep
<1>7. CASE c = "voice" /\ Goto(t, "lockTts")
  BY <1>1, <1>2, <1>3, <1>4, <1>7, GotoStep
<1>8. QED
  BY <1>5, <1>6, <1>7 DEF Start

LEMMA StartTtsStep ==
    ASSUME IInv, NEW t \in Task, StartTts(t)
    PROVE  TaskInv(t)' /\ \A u \in Task \ {t} : Undisturbed(u)
<1>1. /\ TypeOK /\ pc[t] = "startTts" /\ UNCHANGED <<stopping, child, held, operations, job>>
      /\ desired_running' = [desired_running EXCEPT !["tts"] = TRUE]
  BY DEF IInv, StartTts, workers
<1>2. /\ pc[t] \in InCall \ {"lockTts", "stop", "wait", "stopped"}
      /\ pc[t] \in InCall /\ pc[t] \in TtsStage
  BY <1>1 DEF InCall, TtsStage
<1>3. held[t] = "none" /\ job[t].kind # "quiesce" /\ operations["tts"] = t
  BY <1>1, <1>2, AtStage
<1>4. \A u \in Task \ {t}, d \in Component : operations[d] = u =>
          /\ stopping[d] => stopping'[d]
          /\ child[d] = "none" => child'[d] = "none"
          /\ desired_running'[d] => desired_running[d]
  BY <1>1, <1>3 DEF TypeOK
<1>5. Goto(t, "spawnTts") /\ "spawnTts" \in TtsStage
  BY <1>1 DEF StartTts, Goto, TtsStage
<1>6. QED
  BY <1>1, <1>2, <1>3, <1>4, <1>5, GotoStep

(* A spawn for a component whose mutex task t holds.                         *)
LEMMA SpawnOthers ==
    ASSUME IInv, NEW t \in Task, NEW c \in Component, operations[c] = t,
           SpawnLocked(c) \/ SpawnError(c), UNCHANGED <<stopping, desired_running>>
    PROVE  \A u \in Task \ {t}, d \in Component : operations[d] = u =>
               /\ stopping[d] => stopping'[d]
               /\ child[d] = "none" => child'[d] = "none"
               /\ desired_running'[d] => desired_running[d]
BY DEF IInv, TypeOK, SpawnLocked, SpawnError

LEMMA SpawnStep ==
    ASSUME IInv, NEW t \in Task, Spawn(t) \/ SpawnFails(t)
    PROVE  TaskInv(t)' /\ \A u \in Task \ {t} : Undisturbed(u)
<1>1. pc[t] = "spawn" /\ UNCHANGED <<stopping, desired_running, held>>
  BY DEF Spawn, SpawnFails, flags
<1>2. pc[t] \in InCall
  BY <1>1 DEF InCall
<1>3. held[t] = "none" /\ operations[job[t].comp] = t /\ job[t].comp \in Component
  BY <1>1, <1>2, AtStage
<1>4. SpawnLocked(job[t].comp) \/ SpawnError(job[t].comp)
  BY DEF Spawn, SpawnFails
<1>5. ASSUME NEW ok, Return(t, ok)
      PROVE  TaskInv(t)' /\ \A u \in Task \ {t} : Undisturbed(u)
  BY <1>1, <1>3, <1>4, <1>5, SpawnOthers, ReturnStep
<1>6. QED
  BY <1>5 DEF Spawn, SpawnFails

LEMMA SpawnTtsStep ==
    ASSUME IInv, NEW t \in Task, SpawnTts(t) \/ SpawnTtsFails(t)
    PROVE  TaskInv(t)' /\ \A u \in Task \ {t} : Undisturbed(u)
<1>1. pc[t] = "spawnTts" /\ UNCHANGED <<stopping, desired_running, held>>
  BY DEF SpawnTts, SpawnTtsFails, flags
<1>2. /\ pc[t] \in InCall \ {"lockTts", "stop", "wait", "stopped"}
      /\ pc[t] \in InCall /\ pc[t] \in TtsStage
  BY <1>1 DEF InCall, TtsStage
<1>3. held[t] = "none" /\ job[t].kind # "quiesce" /\ operations["tts"] = t
  BY <1>1, <1>2, AtStage
<1>4. SpawnLocked("tts") \/ SpawnError("tts")
  BY DEF SpawnTts, SpawnTtsFails
<1>5. \A u \in Task \ {t}, d \in Component : operations[d] = u =>
          /\ stopping[d] => stopping'[d]
          /\ child[d] = "none" => child'[d] = "none"
          /\ desired_running'[d] => desired_running[d]
  BY <1>1, <1>3, <1>4, SpawnOthers, Names
<1>6. CASE SpawnTts(t)
  <2>1. Goto(t, "waitTts") /\ "waitTts" \in TtsStage
    BY <1>6 DEF SpawnTts, Goto, TtsStage
  <2>2. QED
    BY <1>1, <1>2, <1>3, <1>5, <2>1, GotoStep
<1>7. CASE SpawnTtsFails(t)
  <2>1. Return(t, FALSE)
    BY <1>7 DEF SpawnTtsFails
  <2>2. QED
    BY <1>1, <1>3, <1>5, <2>1, ReturnStep
<1>8. QED
  BY <1>6, <1>7

LEMMA TtsReadyStep ==
    ASSUME IInv, NEW t \in Task, TtsReady(t)
    PROVE  TaskInv(t)' /\ \A u \in Task \ {t} : Undisturbed(u)
<1>1. /\ TypeOK /\ TaskInv(t) /\ pc[t] = "waitTts"
      /\ UNCHANGED <<stopping, child, desired_running, held, job>>
      /\ operations' = [operations EXCEPT !["tts"] = NoTask]
  BY DEF IInv, TtsReady, flags, workers
<1>2. pc'[t] = "spawn" /\ \A u \in Task : u # t => pc'[u] = pc[u]
  BY <1>1, ToOthers DEF TtsReady
<1>3. /\ pc[t] \in InCall \ {"lockTts", "stop", "wait", "stopped"}
      /\ pc[t] \in InCall /\ pc[t] \in TtsStage
  BY <1>1 DEF InCall, TtsStage
<1>4. /\ job[t].comp = "voice" /\ operations["tts"] = t /\ operations["voice"] = t
      /\ job[t].kind # "quiesce"
  BY <1>1, <1>3, AtStage DEF TaskInv, Locks
<1>5. \A u \in Task \ {t} : Undisturbed(u)
  BY <1>1, <1>2, <1>4, Names DEF Undisturbed, TypeOK
<1>6. Locks(t)'
  BY <1>1, <1>2, <1>4, Names DEF Locks, InCall, TtsStage, Quiescing, TypeOK
<1>7. NoOtherLock(t)'
  BY <1>1, <1>2, <1>4, Names DEF TaskInv, NoOtherLock, InCall, TtsStage, Quiescing, TypeOK
<1>8. Stops(t)'
  BY <1>1, <1>2 DEF TaskInv, Stops
<1>9. QED
  BY <1>5, <1>6, <1>7, <1>8 DEF TaskInv

LEMMA TtsTimeoutStep ==
    ASSUME IInv, NEW t \in Task, TtsTimeout(t)
    PROVE  TaskInv(t)' /\ \A u \in Task \ {t} : Undisturbed(u)
<1>1. pc[t] = "waitTts" /\ UNCHANGED <<stopping, child, desired_running, held>>
  BY DEF TtsTimeout, flags, workers
<1>2. Return(t, FALSE) /\ held[t] = "none"
  BY <1>1, AtStage DEF TtsTimeout
<1>3. QED
  BY <1>1, <1>2, ReturnStep

LEMMA ObeysStep ==
    ASSUME IInv, NEW t \in Task, Obeys(t)
    PROVE  TaskInv(t)' /\ \A u \in Task \ {t} : Undisturbed(u)
<1>1. /\ TypeOK /\ TaskInv(t) /\ held[t] = "alive"
      /\ UNCHANGED <<stopping, child, desired_running, operations, pc, job>>
      /\ held' = [held EXCEPT ![t] = "exited"]
  BY DEF IInv, Obeys, flags
<1>2. Locks(t)' /\ NoOtherLock(t)'
  BY <1>1 DEF TaskInv, Locks, NoOtherLock
<1>3. Stops(t)'
  BY <1>1 DEF TaskInv, Stops, TypeOK
<1>4. \A u \in Task \ {t} : Undisturbed(u)
  BY <1>1 DEF Undisturbed, TypeOK
<1>5. QED
  BY <1>2, <1>3, <1>4 DEF TaskInv

(* A dropped request: the guards go with the Child.                          *)
LEMMA DropStep ==
    ASSUME IInv, NEW t \in Client, Drop(t)
    PROVE  TaskInv(t)' /\ \A u \in Task \ {t} : Undisturbed(u)
<1>1. /\ TypeOK /\ t \in Task /\ Return(t, FALSE)
      /\ UNCHANGED <<stopping, child, desired_running>>
      /\ held' = [held EXCEPT ![t] = "none"]
  BY Names DEF IInv, Drop, flags
<1>2. held'[t] = "none" /\ \A u \in Task \ {t} : held'[u] = held[u]
  BY <1>1 DEF TypeOK
<1>3. QED
  BY <1>1, <1>2, ReturnStep

(* An idle task makes a call; only the installer calls quiesce, on Voice.    *)
LEMMA CallMade ==
    ASSUME IInv, NEW t \in Task, NEW c \in Component, NEW kind \in Kind, Call(t, c, kind),
           UNCHANGED <<operations, held, flags, child>>,
           pc[t] \in Returned \cup {"probe"},
           kind = "quiesce" => t = "asset" /\ c = "voice"
    PROVE  TaskInv(t)' /\ \A u \in Task \ {t} : Undisturbed(u)
<1>1. /\ TypeOK /\ TaskInv(t)
      /\ UNCHANGED <<operations, held, stopping, desired_running, child>>
      /\ job' = [job EXCEPT ![t] = [comp |-> c, kind |-> kind]]
  BY DEF IInv, Call, flags
<1>2. pc'[t] = "lock" /\ \A u \in Task : u # t => pc'[u] = pc[u]
  BY <1>1, ToOthers DEF Call
<1>3. job'[t] = [comp |-> c, kind |-> kind] /\ \A u \in Task : u # t => job'[u] = job[u]
  BY <1>1 DEF TypeOK
<1>4. \A u \in Task \ {t} : Undisturbed(u)
  BY <1>1, <1>2, <1>3 DEF Undisturbed
<1>5. Locks(t)'
  BY <1>2, <1>3 DEF Locks, InCall, TtsStage, Quiescing
<1>6. NoOtherLock(t)' /\ Stops(t)'
  BY <1>1, <1>2 DEF TaskInv, NoOtherLock, Stops, Returned, InCall, TtsStage, Quiescing
<1>7. QED
  BY <1>4, <1>5, <1>6 DEF TaskInv

(* An idle task goes on to another idle stage.                               *)
LEMMA IdleStep ==
    ASSUME IInv, NEW t \in Task, NEW stage, To(t, stage), UNCHANGED held,
           NEW c \in Component, NEW kind \in Kind \ {"quiesce"},
           job' = job \/ job' = [job EXCEPT ![t] = [comp |-> c, kind |-> kind]],
           UNCHANGED <<operations, stopping, desired_running>>,
           \A d \in Component : child[d] = "none" => child'[d] = "none",
           pc[t] \in Returned \cup {"probe", "replacing", "resume", "tick", "idle"},
           stage \in Returned \cup {"probe", "lock", "replacing", "resume", "closed", "returned"}
    PROVE  TaskInv(t)' /\ \A u \in Task \ {t} : Undisturbed(u)
<1>1. TypeOK /\ TaskInv(t)
  BY DEF IInv
<1>2. pc'[t] = stage /\ \A u \in Task : u # t => pc'[u] = pc[u]
  BY <1>1, ToOthers
<1>3. job'[t] \in {job[t], [comp |-> c, kind |-> kind]}
      /\ \A u \in Task : u # t => job'[u] = job[u]
  BY <1>1 DEF TypeOK
<1>4. \A u \in Task \ {t} : Undisturbed(u)
  BY <1>1, <1>2, <1>3 DEF Undisturbed
<1>5. job'[t].kind # "quiesce"
  BY <1>1, <1>3 DEF TaskInv, Locks, Returned, Quiescing
<1>6. Locks(t)'
  BY <1>2, <1>5 DEF Locks, InCall, TtsStage, Returned
<1>7. NoOtherLock(t)' /\ Stops(t)'
  BY <1>1, <1>2 DEF TaskInv, NoOtherLock, Stops, Returned, InCall, TtsStage, Quiescing
<1>8. QED
  BY <1>4, <1>6, <1>7 DEF TaskInv

(* A step that touches no task and puts nothing into the table.              *)
LEMMA OutsideStep ==
    ASSUME IInv, UNCHANGED <<pc, job, held, operations, stopping, desired_running>>,
           \A c \in Component : child[c] = "none" => child'[c] = "none"
    PROVE  \A t \in Task : TaskInv(t)'
<1>1. \A t \in Task : Undisturbed(t)
  BY DEF Undisturbed
<1>2. QED
  BY <1>1, Undisturbing

LEMMA ReapOutside ==
    ASSUME TypeOK, ReapExited
    PROVE  \A c \in Component : child[c] = "none" => child'[c] = "none"
BY DEF ReapExited

LEMMA MarkStep ==
    ASSUME IInv, Mark
    PROVE  TaskInv("asset")' /\ \A u \in Task \ {"asset"} : Undisturbed(u)
<1> DEFINE c == Head(todo["asset"])
<1>1. /\ TypeOK /\ TaskInv("asset") /\ "asset" \in Task /\ pc["asset"] = "mark"
      /\ UNCHANGED <<operations, stopping, desired_running, child, held>>
      /\ job' = [job EXCEPT !["asset"] = [comp |-> c, kind |-> "quiesce"]]
  BY Names DEF IInv, Mark, workers
<1>2. c \in {"voice", "tts"}
  BY DEF IInv, AssetTodo, Mark
<1>3. pc'["asset"] = "stop" /\ \A u \in Task : u # "asset" => pc'[u] = pc[u]
  BY <1>1, ToOthers DEF Mark
<1>4. /\ job'["asset"] = [comp |-> c, kind |-> "quiesce"]
      /\ \A u \in Task : u # "asset" => job'[u] = job[u]
  BY <1>1 DEF TypeOK
<1>5. \A u \in Task \ {"asset"} : Undisturbed(u)
  BY <1>1, <1>3, <1>4 DEF Undisturbed
<1>6. operations["voice"] = "asset" /\ operations["tts"] = "asset"
  BY <1>1 DEF TaskInv, Locks, Quiescing
<1>7. Locks("asset")'
  BY <1>1, <1>2, <1>3, <1>4, <1>6 DEF Locks, InCall, TtsStage, Quiescing
<1>8. NoOtherLock("asset")' /\ Stops("asset")'
  BY <1>1, <1>3, <1>4 DEF TaskInv, NoOtherLock, Stops, InCall, TtsStage, Quiescing
<1>9. QED
  BY <1>5, <1>7, <1>8 DEF TaskInv

(* One task moves and the others are not disturbed: every task keeps its     *)
(* part of the invariant.                                                   *)
LEMMA OneMoves ==
    ASSUME IInv, NEW t \in Task, TaskInv(t)', \A u \in Task \ {t} : Undisturbed(u)
    PROVE  \A u \in Task : TaskInv(u)'
BY Undisturbing

LEMMA CallKeeps ==
    ASSUME IInv, NEW t \in Task, Acquire(t) \/ LockTts(t) \/ CallStep(t) \/ Obeys(t)
    PROVE  \A u \in Task : TaskInv(u)'
<1>1. TaskInv(t)' /\ \A u \in Task \ {t} : Undisturbed(u)
  BY AcquireStep, LockTtsStep, CheckStep, StopStep, TerminatedStep, StoppedStep, StartStep,
     StartTtsStep, SpawnStep, SpawnTtsStep, TtsReadyStep, TtsTimeoutStep, ObeysStep
     DEF CallStep
<1>2. QED
  BY <1>1, OneMoves

LEMMA ClientKeeps ==
    ASSUME IInv, NEW t \in Client, Request(t) \/ Drop(t)
    PROVE  \A u \in Task : TaskInv(u)'
<1>0. t \in Task
  BY Names
<1>1. CASE Drop(t)
  BY <1>0, <1>1, DropStep, OneMoves
<1>2. CASE Request(t)
  <2>1. PICK c \in Component, kind \in {"start", "stop", "restart"} : Call(t, c, kind)
    BY <1>2 DEF Request
  <2>2. kind \in Kind /\ kind # "quiesce"
    BY DEF Kind
  <2>3. pc[t] \in Returned /\ UNCHANGED <<operations, held, flags, child>>
    BY <1>2 DEF Request, Returned, workers
  <2>4. QED
    BY <1>0, <2>1, <2>2, <2>3, CallMade, OneMoves
<1>3. QED
  BY <1>1, <1>2

LEMMA MonitorKeeps ==
    ASSUME IInv, MonitorStep
    PROVE  \A u \in Task : TaskInv(u)'
<1> USE Names
<1>0. TypeOK /\ "ensure" \in Kind \ {"quiesce"} /\ "respawn" \in Kind \ {"quiesce"}
  BY DEF IInv, Kind
<1>1. ASSUME NEW c \in Component, NEW kind \in {"ensure", "respawn"},
             Call("monitor", c, kind), pc["monitor"] \in {"boot", "tick"},
             UNCHANGED <<operations, held, flags, child>>
      PROVE  \A u \in Task : TaskInv(u)'
  BY <1>0, <1>1, CallMade, OneMoves DEF Returned
<1>2. ASSUME NEW stage \in {"tick", "probe", "lock", "returned"}, To("monitor", stage),
             NEW c \in Component,
             job' = job \/ job' = [job EXCEPT !["monitor"] = [comp |-> c, kind |-> "respawn"]],
             pc["monitor"] \in {"boot", "tick", "probe"},
             UNCHANGED <<operations, held, flags, child>>
      PROVE  \A u \in Task : TaskInv(u)'
  <2>1. UNCHANGED <<operations, held, stopping, desired_running, child>>
    BY <1>2 DEF flags
  <2>2. /\ stage \in Returned \cup {"probe", "lock", "replacing", "resume", "closed", "returned"}
        /\ pc["monitor"] \in Returned \cup {"probe", "replacing", "resume", "tick", "idle"}
    BY <1>2 DEF Returned
  <2>3. QED
    BY <1>0, <1>2, <2>1, <2>2, IdleStep, OneMoves
<1>3. CASE Bootstrap
  <2>1. UNCHANGED <<operations, held, flags, child>> /\ pc["monitor"] = "boot"
    BY <1>3 DEF Bootstrap, workers
  <2>2. CASE todo["monitor"] = <<>>
    BY <1>2, <1>3, <2>1, <2>2 DEF Bootstrap
  <2>3. CASE todo["monitor"] # <<>>
    <3>1. Head(todo["monitor"]) \in Component
      BY <1>0, <2>3, TodoStep DEF Script
    <3>2. QED
      BY <1>1, <1>3, <2>1, <2>3, <3>1 DEF Bootstrap
  <2>4. QED
    BY <2>2, <2>3
<1>4. CASE Tick
  <2>1. CASE shutting_down
    <3>1. /\ To("monitor", "returned") /\ pc["monitor"] = "tick" /\ job' = job
          /\ UNCHANGED <<operations, held, flags, child>>
      BY <1>4, <2>1 DEF Tick
    <3>2. QED
      BY <1>2, <3>1
  <2>2. CASE ~shutting_down
    <3>1. /\ UNCHANGED <<pc, job, held, operations, stopping, desired_running>>
          /\ ReapExited
      BY <1>4, <2>2 DEF Tick, flags
    <3>2. QED
      BY <1>0, <3>1, ReapOutside, OutsideStep
  <2>3. QED
    BY <2>1, <2>2
<1>5. CASE Visit
  <2>1. UNCHANGED <<operations, held, flags, child>> /\ pc["monitor"] = "tick"
    BY <1>5 DEF Visit, workers
  <2>2. Head(todo["monitor"]) \in Component
    BY <1>0, <1>5, TodoStep DEF Visit, Script
  <2>3. CASE UNCHANGED <<pc, job>>
    <3>1. UNCHANGED <<pc, job, held, operations, stopping, desired_running, child>>
      BY <2>1, <2>3 DEF flags
    <3>2. QED
      BY <3>1, OutsideStep
  <2>4. CASE Call("monitor", Head(todo["monitor"]), "respawn")
    BY <1>1, <2>1, <2>2, <2>4
  <2>5. CASE /\ job' = [job EXCEPT !["monitor"] =
                            [comp |-> Head(todo["monitor"]), kind |-> "respawn"]]
             /\ To("monitor", "probe")
    BY <1>2, <2>1, <2>2, <2>5
  <2>6. QED
    BY <1>5, <2>3, <2>4, <2>5 DEF Visit
<1>6. CASE ProbeAnswered
  <2>1. /\ To("monitor", "lock") /\ pc["monitor"] = "probe" /\ job' = job
        /\ UNCHANGED <<operations, held, flags, child>>
    BY <1>6 DEF ProbeAnswered, workers
  <2>2. QED
    BY <1>2, <2>1
<1>7. CASE ProbeFails
  <2>1. /\ To("monitor", "tick") /\ pc["monitor"] = "probe" /\ job' = job
        /\ UNCHANGED <<operations, held, flags, child>>
    BY <1>7 DEF ProbeFails, workers
  <2>2. QED
    BY <1>2, <2>1
<1>8. QED
  BY <1>3, <1>4, <1>5, <1>6, <1>7 DEF MonitorStep

LEMMA AssetKeeps ==
    ASSUME IInv, AssetStep \/ Install
    PROVE  \A u \in Task : TaskInv(u)'
<1> USE Names
<1>0. TypeOK /\ {"ensure", "quiesce"} \subseteq Kind /\ "ensure" # "quiesce"
  BY DEF IInv, Kind
<1>1. ASSUME NEW stage \in {"replacing", "resume", "resuming", "idle"}, To("asset", stage),
             pc["asset"] \in {"commit", "replacing", "resume", "resuming"},
             job' = job, UNCHANGED <<operations, held, stopping, desired_running, child>>
      PROVE  \A u \in Task : TaskInv(u)'
  <2>1. /\ stage \in Returned \cup {"probe", "lock", "replacing", "resume", "closed", "returned"}
        /\ pc["asset"] \in Returned \cup {"probe", "replacing", "resume", "tick", "idle"}
    BY <1>1 DEF Returned
  <2>2. QED
    BY <1>0, <1>1, <2>1, IdleStep, OneMoves
<1>2. CASE Mark
  BY <1>2, MarkStep, OneMoves
<1>3. CASE Replace
  BY <1>1, <1>3 DEF Replace, flags, workers
<1>4. CASE Replaced
  BY <1>1, <1>4 DEF Replaced, flags, workers
<1>5. CASE Resume
  BY <1>1, <1>5 DEF Resume, workers
<1>6. CASE ResumeNext
  <2>1. UNCHANGED <<operations, held, flags, child>> /\ pc["asset"] = "resuming"
    BY <1>6 DEF ResumeNext, workers
  <2>2. CASE todo["asset"] = <<>>
    BY <1>1, <1>6, <2>1, <2>2 DEF ResumeNext, flags
  <2>3. CASE todo["asset"] # <<>>
    <3>1. Head(todo["asset"]) \in Component
      BY <1>0, <2>3, TodoStep DEF Script
    <3>2. Call("asset", Head(todo["asset"]), "ensure")
      BY <1>6, <2>3 DEF ResumeNext
    <3>3. QED
      BY <1>0, <2>1, <3>1, <3>2, CallMade, OneMoves DEF Returned
  <2>4. QED
    BY <2>2, <2>3
<1>7. CASE Install
  <2>1. /\ UNCHANGED <<operations, held, flags, child>> /\ pc["asset"] = "idle"
        /\ Call("asset", "voice", "quiesce")
    BY <1>7 DEF Install, workers
  <2>2. QED
    BY <1>0, <2>1, CallMade, OneMoves DEF Returned
<1>8. QED
  BY <1>2, <1>3, <1>4, <1>5, <1>6, <1>7 DEF AssetStep

LEMMA CloseKeeps ==
    ASSUME IInv, CloseNext \/ BeginShutdown
    PROVE  \A u \in Task : TaskInv(u)'
<1> USE Names
<1>0. TypeOK /\ "stop" \in Kind \ {"quiesce"}
  BY DEF IInv, Kind
<1>1. ASSUME NEW stage \in {"closing", "closed"}, To("shutdown", stage),
             pc["shutdown"] \in {"idle", "closing"}, job' = job,
             UNCHANGED <<operations, held, stopping, desired_running, child>>
      PROVE  \A u \in Task : TaskInv(u)'
  <2>1. /\ stage \in Returned \cup {"probe", "lock", "replacing", "resume", "closed", "returned"}
        /\ pc["shutdown"] \in Returned \cup {"probe", "replacing", "resume", "tick", "idle"}
    BY <1>1 DEF Returned
  <2>2. QED
    BY <1>0, <1>1, <2>1, IdleStep, OneMoves
<1>2. CASE BeginShutdown
  BY <1>1, <1>2 DEF BeginShutdown, flags, workers
<1>3. CASE CloseNext
  <2>1. UNCHANGED <<operations, held, flags, child>> /\ pc["shutdown"] = "closing"
    BY <1>3 DEF CloseNext, workers
  <2>2. CASE todo["shutdown"] = <<>>
    BY <1>1, <1>3, <2>1, <2>2 DEF CloseNext, flags
  <2>3. CASE todo["shutdown"] # <<>>
    <3>1. Head(todo["shutdown"]) \in Component
      BY <1>0, <2>3, TodoStep DEF Script
    <3>2. Call("shutdown", Head(todo["shutdown"]), "stop")
      BY <1>3, <2>3 DEF CloseNext
    <3>3. QED
      BY <1>0, <2>1, <3>1, <3>2, CallMade, OneMoves DEF Returned
  <2>4. QED
    BY <2>2, <2>3
<1>4. QED
  BY <1>2, <1>3

LEMMA WorkerKeeps ==
    ASSUME IInv,
           \/ \E c \in Component : Crash(c) \/ Dies(c) \/ BackoffEnds(c)
           \/ Overview
    PROVE  \A u \in Task : TaskInv(u)'
<1>0. TypeOK
  BY DEF IInv
<1>1. UNCHANGED <<pc, job, held, operations, stopping, desired_running>>
  BY DEF Crash, Dies, BackoffEnds, Overview, flags, workers
<1>2. \A c \in Component : child[c] = "none" => child'[c] = "none"
  <2>1. CASE Overview
    BY <1>0, <2>1, ReapOutside DEF Overview
  <2>2. CASE \E c \in Component : Crash(c) \/ Dies(c) \/ BackoffEnds(c)
    BY <1>0, <2>2 DEF Crash, Dies, BackoffEnds, workers, TypeOK
  <2>3. QED
    BY <2>1, <2>2
<1>3. QED
  BY <1>1, <1>2, OutsideStep

LEMMA AssetTodoKept ==
    ASSUME IInv, Next
    PROVE  AssetTodo'
<1> DEFINE VoiceWorkers == {"voice", "tts"}
<1>1. TypeOK /\ todo["asset"] \in Seq(VoiceWorkers)
  BY DEF IInv, AssetTodo
<1>2. todo["asset"] # <<>> => Tail(todo["asset"]) \in Seq(VoiceWorkers)
  BY <1>1
<1>3. /\ <<>> \in Seq(VoiceWorkers)
      /\ <<"voice">> \in Seq(VoiceWorkers)
      /\ <<"tts", "voice">> \in Seq(VoiceWorkers)
      /\ \A a : Quiesced(a) \in Seq(VoiceWorkers)
  <2>1. /\ <<>> \in Seq(VoiceWorkers)
        /\ <<"voice">> \in Seq(VoiceWorkers)
        /\ <<"tts", "voice">> \in Seq(VoiceWorkers)
        /\ <<"voice", "tts">> \in Seq(VoiceWorkers)
    OBVIOUS
  <2>2. QED
    BY <2>1 DEF Quiesced
<1>4. CASE UNCHANGED todo
  BY <1>1, <1>4 DEF AssetTodo
<1>5. ASSUME NEW seq, todo' = [todo EXCEPT !["asset"] = seq], seq \in Seq(VoiceWorkers)
      PROVE  AssetTodo'
  BY <1>1, <1>5 DEF AssetTodo, TypeOK, Script
<1>6. ASSUME NEW seq, NEW t \in {"monitor", "shutdown"}, todo' = [todo EXCEPT ![t] = seq]
      PROVE  AssetTodo'
  BY <1>1, <1>6 DEF AssetTodo, TypeOK, Script
<1>7. ASSUME NEW t \in Task, Stopped(t) PROVE AssetTodo'
  <2>1. CASE Len(todo["asset"]) > 1 /\ todo' = [todo EXCEPT !["asset"] = Tail(todo["asset"])]
    <3>1. todo["asset"] # <<>>
      BY <1>1, <2>1
    <3>2. QED
      BY <1>2, <1>5, <2>1, <3>1
  <2>2. CASE todo' = [todo EXCEPT !["asset"] = <<>>]
    BY <1>3, <1>5, <2>2
  <2>3. QED
    BY <1>4, <1>7, <2>1, <2>2 DEF Stopped, AfterStop
<1>8. ASSUME NEW t \in Task, Acquire(t) \/ LockTts(t) \/ CallStep(t) \/ Obeys(t)
      PROVE  AssetTodo'
  <2>1. Stopped(t) \/ UNCHANGED todo
    BY <1>8 DEF CallStep, Acquire, LockTts, Obeys, Check, Stop, Terminated, Start, StartTts,
                Spawn, SpawnFails, SpawnTts, SpawnTtsFails, TtsReady, TtsTimeout
  <2>2. QED
    BY <1>4, <1>7, <2>1
<1>9. CASE MonitorStep
  <2>1. CASE Bootstrap \/ Visit
    BY <1>4, <1>6, <2>1 DEF Bootstrap, Visit
  <2>2. CASE Tick
    BY <1>4, <1>6, <2>2 DEF Tick
  <2>3. CASE ProbeAnswered \/ ProbeFails
    BY <1>4, <2>3 DEF ProbeAnswered, ProbeFails
  <2>4. QED
    BY <1>9, <2>1, <2>2, <2>3 DEF MonitorStep
<1>10. CASE AssetStep
  <2>1. CASE Mark \/ Replace \/ Replaced
    BY <1>4, <2>1 DEF Mark, Replace, Replaced
  <2>2. CASE Resume
    <3>1. PICK seq \in {<<"tts", "voice">>, <<"voice">>} :
              todo' = [todo EXCEPT !["asset"] = seq]
      BY <2>2 DEF Resume
    <3>2. QED
      BY <1>3, <1>5, <3>1
  <2>3. CASE ResumeNext
    BY <1>2, <1>4, <1>5, <2>3 DEF ResumeNext
  <2>4. QED
    BY <1>10, <2>1, <2>2, <2>3 DEF AssetStep
<1>11. CASE Install
  BY <1>3, <1>5, <1>11 DEF Install
<1>12. CASE BeginShutdown \/ CloseNext
  BY <1>4, <1>6, <1>12 DEF BeginShutdown, CloseNext
<1>13. CASE \/ \E t \in Client : Request(t) \/ Drop(t)
            \/ \E c \in Component : Crash(c) \/ Dies(c) \/ BackoffEnds(c)
            \/ Overview
  BY <1>4, <1>13 DEF Request, Drop, Crash, Dies, BackoffEnds, Overview
<1>14. QED
  BY <1>8, <1>9, <1>10, <1>11, <1>12, <1>13 DEF Next

LEMMA Invariance == Spec => []IInv
<1>1. Init => IInv
  <2> SUFFICES ASSUME Init PROVE IInv
    OBVIOUS
  <2>1. TypeOK
    BY InitType
  <2>2. AssetTodo
    BY Names DEF Init, AssetTodo, Script
  <2>3. ASSUME NEW t \in Task PROVE TaskInv(t)
    <3>1. /\ pc[t] \in {"boot", "idle"} /\ job[t].kind = "start" /\ held[t] = "none"
          /\ \A c \in Component : operations[c] # t
      BY Names DEF Init, NoCall
    <3>2. QED
      BY <3>1 DEF TaskInv, Locks, NoOtherLock, Stops, InCall, TtsStage, Quiescing
  <2>4. QED
    BY <2>1, <2>2, <2>3 DEF IInv
<1>2. IInv /\ [Next]_vars => IInv'
  <2> SUFFICES ASSUME IInv, [Next]_vars PROVE IInv'
    OBVIOUS
  <2>1. CASE Next
    <3>1. TypeOK'
      BY <2>1, CallType, ScriptType, OtherType DEF Next, IInv
    <3>2. \A u \in Task : TaskInv(u)'
      BY <2>1, CallKeeps, ClientKeeps, MonitorKeeps, AssetKeeps, CloseKeeps, WorkerKeeps
         DEF Next
    <3>3. QED
      BY <2>1, <3>1, <3>2, AssetTodoKept DEF IInv
  <2>2. CASE UNCHANGED vars
    BY <2>2 DEF vars, IInv, TypeOK, AssetTodo, TaskInv, Locks, NoOtherLock, Stops
  <2>3. QED
    BY <2>1, <2>2
<1>3. QED
  BY <1>1, <1>2, PTL DEF Spec

(* A component never has two processes, however the calls of any number of   *)
(* handlers, the monitor, the installer and shutdown interleave over any     *)
(* set of components (stop_component_locked and spawn_component_locked).    *)
THEOREM NeverTwoProcesses == Spec => []OneProcess
<1>1. IInv => OneProcess
  <2> SUFFICES ASSUME IInv, NEW c \in Component
               PROVE  /\ child[c] = "alive" => \A t \in Task : ~Ending(t, c)
                      /\ \A t, u \in Task : Ending(t, c) /\ Ending(u, c) => t = u
    BY DEF OneProcess
  <2>1. ASSUME NEW t \in Task, Ending(t, c)
        PROVE  child[c] = "none" /\ operations[c] = t
    BY <2>1 DEF Ending, IInv, TaskInv, Stops, Locks, InCall
  <2>2. QED
    BY <2>1
<1>2. QED
  BY <1>1, Invariance, PTL

(* A stop request stays in effect for as long as it holds its mutex, for any *)
(* number of tasks that would start the component (stop_component_locked).  *)
THEOREM StopStands == Spec => []StopIsNotUndone
<1>1. IInv => StopIsNotUndone
  BY DEF IInv, TaskInv, Stops, StopIsNotUndone
<1>2. QED
  BY <1>1, Invariance, PTL

(* TTS's mutex is only awaited under Voice's, and no task awaits its own      *)
(* component's mutex while it holds any: the wait-for graph has no cycle     *)
(* (start_component_locked, quiesce_for_asset).                             *)
THEOREM LockOrder == Spec => []NoCircularWait
<1>1. IInv => NoCircularWait
  <2> SUFFICES ASSUME IInv, NEW t \in Task
               PROVE  /\ pc[t] = "lockTts" =>
                             operations["voice"] = t /\ operations["tts"] # t
                      /\ pc[t] = "lock" => \A c \in Component : operations[c] # t
    BY DEF NoCircularWait
  <2>1. Locks(t) /\ NoOtherLock(t)
    BY DEF IInv, TaskInv
  <2>2. QED
    BY <2>1, Names DEF Locks, NoOtherLock, InCall, TtsStage, Quiescing
<1>2. QED
  BY <1>1, Invariance, PTL

-----------------------------------------------------------------------------
(***************************************************************************)
(* What runs.  A step of the supervisor starts a process, ends one, or does    *)
(* neither; a Child that a stop takes out of the table still runs.             *)
(***************************************************************************)
Quiet == \A c \in Component : Running(c)' <=> Running(c)

Launches(c) ==
    /\ MaySpawn(c) /\ ~Running(c)
    /\ \A d \in Component : Running(d)' <=> Running(d) \/ d = c

Ends(c) ==
    /\ Running(c)
    /\ \A d \in Component : Running(d)' <=> Running(d) /\ d # c

(* A task that holds no Child may do anything with its call.                   *)
LEMMA QuietStep ==
    ASSUME IInv, NEW t \in Task, UNCHANGED <<child, held>>,
           \A u \in Task \ {t} : job'[u] = job[u],
           pc[t] # "wait" \/ job'[t] = job[t]
    PROVE  Quiet
<1>1. held[t] = "alive" => job'[t] = job[t]
  BY AtStage
<1>. QED
  BY <1>1 DEF Quiet, Running, Ending

(* Nobody but a stop under way holds a Child of a component, and it holds the    *)
(* mutex.                                                                   *)
LEMMA EndingHolds ==
    ASSUME IInv, NEW t \in Task, NEW c \in Component, Ending(t, c)
    PROVE  child[c] = "none" /\ operations[c] = t /\ pc[t] = "wait"
BY DEF Ending, IInv, TaskInv, Stops, Locks, InCall

(* At the end of a stop nothing of the component runs.                         *)
LEMMA StoppedIsGone ==
    ASSUME IInv, NEW t \in Task, pc[t] = "stopped"
    PROVE  ~Running(job[t].comp)
<1>1. job[t].comp \in Component /\ operations[job[t].comp] = t
  BY AtStage DEF InCall
<1>2. child[job[t].comp] = "none"
  BY DEF IInv, TaskInv, Stops
<1>3. \A u \in Task : ~Ending(u, job[t].comp)
  BY <1>1, EndingHolds
<1>. QED
  BY <1>2, <1>3 DEF Running

(* A spawn under the mutex of the component.                                  *)
LEMMA SpawnRuns ==
    ASSUME IInv, NEW t \in Task, NEW c \in Component, SpawnLocked(c), UNCHANGED held,
           pc[t] # "wait", operations[c] = t, \A u \in Task \ {t} : job'[u] = job[u]
    PROVE  Quiet \/ Launches(c)
<1>1. CASE ~MaySpawn(c)
  BY <1>1, QuietStep DEF SpawnLocked
<1>2. CASE MaySpawn(c)
  <2>1. child' = [child EXCEPT ![c] = "alive"] /\ child[c] = "none" /\ TypeOK
    BY <1>2 DEF SpawnLocked, MaySpawn, IInv
  <2>2. \A u \in Task : ~Ending(u, c)
    BY EndingHolds
  <2>3. held[t] # "alive"
    BY AtStage
  <2>4. ~Running(c)
    BY <2>1, <2>2 DEF Running
  <2>5. \A u \in Task, d \in Component : Ending(u, d)' <=> Ending(u, d)
    BY <2>3 DEF Ending
  <2>6. \A d \in Component : child'[d] = "alive" <=> child[d] = "alive" \/ d = c
    BY <2>1 DEF TypeOK
  <2>. QED
    BY <1>2, <2>4, <2>5, <2>6 DEF Launches, Running
<1>. QED
  BY <1>1, <1>2

LEMMA SpawnErrorQuiet ==
    ASSUME IInv, NEW t \in Task, NEW c \in Component, SpawnError(c), UNCHANGED held,
           pc[t] # "wait", \A u \in Task \ {t} : job'[u] = job[u]
    PROVE  Quiet
BY QuietStep DEF SpawnError

(* The Child that a stop takes goes on running.                               *)
LEMMA StopQuiet == ASSUME IInv, NEW t \in Task, Stop(t) PROVE Quiet
<1> DEFINE c == job[t].comp
<1>1. /\ TypeOK /\ c \in Component /\ pc[t] = "stop" /\ UNCHANGED job
      /\ child' = [child EXCEPT ![c] = "none"]
      /\ held' = [held EXCEPT ![t] = child[c]]
  BY DEF Stop, TakeChild, IInv, TypeOK
<1>2. held[t] # "alive"
  BY <1>1, AtStage
<1>3. \A u \in Task, d \in Component :
         Ending(u, d)' <=> Ending(u, d) \/ (u = t /\ d = c /\ child[c] = "alive")
  BY <1>1, <1>2 DEF Ending, TypeOK
<1>4. \A d \in Component : child'[d] = "alive" <=> child[d] = "alive" /\ d # c
  BY <1>1 DEF TypeOK
<1>. QED
  BY <1>1, <1>3, <1>4 DEF Quiet, Running

(* A Child that obeys, or goes with a dropped request, was the only process.     *)
LEMMA LetGo ==
    ASSUME IInv, NEW t \in Task, UNCHANGED child, held'[t] # "alive",
           \A u \in Task \ {t} : held'[u] = held[u] /\ job'[u] = job[u]
    PROVE  Quiet \/ \E c \in Component : Ends(c)
<1> DEFINE c == job[t].comp
<1>0. c \in Component
  BY AtStage
<1>1. CASE held[t] # "alive"
  BY <1>1 DEF Quiet, Running, Ending
<1>2. CASE held[t] = "alive"
  <2>1. Ending(t, c)
    BY <1>2 DEF Ending
  <2>2. child[c] = "none" /\ \A u \in Task : Ending(u, c) => u = t
    BY <1>0, <2>1, EndingHolds
  <2>3. \A u \in Task, d \in Component : Ending(u, d)' <=> Ending(u, d) /\ u # t
    BY DEF Ending
  <2>4. \A d \in Component : Ending(t, d) => d = c
    BY DEF Ending
  <2>5. Ends(c)
    BY <1>0, <2>1, <2>2, <2>3, <2>4 DEF Ends, Running
  <2>. QED
    BY <1>0, <2>5
<1>. QED
  BY <1>1, <1>2

LEMMA CrashEnds == ASSUME IInv, NEW c \in Component, Crash(c) PROVE Ends(c)
<1>1. /\ TypeOK /\ child[c] = "alive" /\ child' = [child EXCEPT ![c] = "exited"]
      /\ UNCHANGED <<held, job>>
  BY DEF Crash, IInv
<1>2. \A u \in Task : ~Ending(u, c)
  BY <1>1, EndingHolds
<1>3. \A u \in Task, d \in Component : Ending(u, d)' <=> Ending(u, d)
  BY <1>1 DEF Ending
<1>. QED
  BY <1>1, <1>2, <1>3 DEF Ends, Running, TypeOK

LEMMA ReapQuiet == ASSUME ReapExited, UNCHANGED <<held, job>> PROVE Quiet
BY DEF ReapExited, Quiet, Running, Ending

(* What a step of a call does with the processes.                             *)
LEMMA CallRuns ==
    ASSUME IInv, NEW t \in Task, Acquire(t) \/ LockTts(t) \/ CallStep(t) \/ Obeys(t)
    PROVE  \/ Quiet
           \/ \E c \in Component : Ends(c) /\ Obeys(t)
           \/ \E c \in Component : Launches(c) /\ (Spawn(t) \/ SpawnTts(t))
<1>0. TypeOK /\ "tts" \in Component /\ job[t].comp \in Component
  BY AtStage, Names DEF IInv
<1>1. ASSUME NEW ok, Return(t, ok) PROVE \A u \in Task \ {t} : job'[u] = job[u]
  BY <1>0, <1>1 DEF Return, TypeOK
<1>2. CASE Acquire(t) \/ LockTts(t) \/ StartTts(t) \/ TtsReady(t)
  <2>1. UNCHANGED <<child, held, job>>
    BY <1>2 DEF Acquire, LockTts, StartTts, TtsReady, workers
  <2>. QED
    BY <2>1 DEF Quiet, Running, Ending
<1>3. CASE Check(t) \/ Start(t) \/ TtsTimeout(t)
  <2>1. UNCHANGED <<child, held>> /\ pc[t] # "wait"
    BY <1>3 DEF Check, Start, TtsTimeout, workers
  <2>2. \A u \in Task \ {t} : job'[u] = job[u]
    BY <1>1, <1>3 DEF Check, Start, TtsTimeout, Goto
  <2>. QED
    BY <2>1, <2>2, QuietStep
<1>4. CASE Stopped(t)
  <2>1. UNCHANGED <<child, held>> /\ pc[t] # "wait"
    BY <1>4 DEF Stopped, workers
  <2>2. \A u \in Task \ {t} : job'[u] = job[u]
    BY <1>1, <1>4 DEF Stopped, AfterStop, Goto
  <2>. QED
    BY <2>1, <2>2, QuietStep
<1>5. CASE Stop(t)
  BY <1>5, StopQuiet
<1>6. CASE Terminated(t)
  BY <1>0, <1>6 DEF Terminated, Quiet, Running, Ending, TypeOK
<1>7. CASE Spawn(t)
  <2>1. SpawnLocked(job[t].comp) /\ UNCHANGED held /\ pc[t] = "spawn"
    BY <1>7 DEF Spawn
  <2>2. \A u \in Task \ {t} : job'[u] = job[u]
    BY <1>1, <1>7 DEF Spawn
  <2>3. operations[job[t].comp] = t
    BY <2>1, AtStage DEF InCall
  <2>. QED
    BY <1>0, <1>7, <2>1, <2>2, <2>3, SpawnRuns
<1>8. CASE SpawnTts(t)
  <2>1. SpawnLocked("tts") /\ UNCHANGED <<held, job>> /\ pc[t] = "spawnTts"
    BY <1>8 DEF SpawnTts
  <2>2. operations["tts"] = t
    BY <2>1, AtStage DEF TtsStage
  <2>. QED
    BY <1>0, <1>8, <2>1, <2>2, SpawnRuns
<1>9. CASE SpawnFails(t)
  <2>1. SpawnError(job[t].comp) /\ UNCHANGED held /\ pc[t] = "spawn"
    BY <1>9 DEF SpawnFails
  <2>2. \A u \in Task \ {t} : job'[u] = job[u]
    BY <1>1, <1>9 DEF SpawnFails
  <2>. QED
    BY <1>0, <2>1, <2>2, SpawnErrorQuiet
<1>10. CASE SpawnTtsFails(t)
  <2>1. SpawnError("tts") /\ UNCHANGED held /\ pc[t] = "spawnTts"
    BY <1>10 DEF SpawnTtsFails
  <2>2. \A u \in Task \ {t} : job'[u] = job[u]
    BY <1>1, <1>10 DEF SpawnTtsFails
  <2>. QED
    BY <1>0, <2>1, <2>2, SpawnErrorQuiet
<1>11. CASE Obeys(t)
  <2>1. /\ UNCHANGED <<child, job>> /\ held'[t] # "alive"
        /\ \A u \in Task \ {t} : held'[u] = held[u]
    BY <1>0, <1>11 DEF Obeys, TypeOK
  <2>. QED
    BY <1>11, <2>1, LetGo
<1>. QED
  BY <1>2, <1>3, <1>4, <1>5, <1>6, <1>7, <1>8, <1>9, <1>10, <1>11 DEF CallStep

LEMMA ClientRuns ==
    ASSUME IInv, NEW t \in Client, Request(t) \/ Drop(t)
    PROVE  Quiet \/ \E c \in Component : Ends(c)
<1>0. TypeOK /\ t \in Task
  BY Names DEF IInv
<1>1. \A u \in Task \ {t} : job'[u] = job[u]
  BY <1>0 DEF Request, Drop, Call, Return, TypeOK
<1>2. CASE Request(t)
  BY <1>0, <1>1, <1>2, QuietStep DEF Request, workers
<1>3. CASE Drop(t)
  <2>1. UNCHANGED child /\ held'[t] # "alive" /\ \A u \in Task \ {t} : held'[u] = held[u]
    BY <1>0, <1>3 DEF Drop, TypeOK
  <2>. QED
    BY <1>0, <1>1, <2>1, LetGo
<1>. QED
  BY <1>2, <1>3

(* The scripts between their calls start and end nothing.                      *)
LEMMA ScriptRuns ==
    ASSUME IInv, \/ MonitorStep \/ AssetStep \/ CloseNext \/ Install \/ BeginShutdown
                 \/ Overview \/ \E c \in Component : Dies(c) \/ BackoffEnds(c)
    PROVE  Quiet
<1>0. TypeOK /\ "asset" \in Task /\ "monitor" \in Task /\ "shutdown" \in Task
  BY Names DEF IInv
<1>1. CASE (Tick /\ ~shutting_down) \/ Overview
  BY <1>1, ReapQuiet DEF Tick, Overview
<1>2. CASE \/ Bootstrap \/ (Tick /\ shutting_down) \/ Visit \/ ProbeAnswered \/ ProbeFails
  <2>1. UNCHANGED <<child, held>> /\ pc["monitor"] # "wait"
    BY <1>2 DEF Bootstrap, Tick, Visit, ProbeAnswered, ProbeFails, workers
  <2>2. \A u \in Task \ {"monitor"} : job'[u] = job[u]
    BY <1>0, <1>2 DEF Bootstrap, Tick, Visit, ProbeAnswered, ProbeFails, Call, TypeOK
  <2>. QED
    BY <1>0, <2>1, <2>2, QuietStep
<1>3. CASE AssetStep \/ Install
  <2>1. UNCHANGED <<child, held>> /\ pc["asset"] # "wait"
    BY <1>3 DEF AssetStep, Install, Mark, Replace, Replaced, Resume, ResumeNext, workers
  <2>2. \A u \in Task \ {"asset"} : job'[u] = job[u]
    BY <1>0, <1>3 DEF AssetStep, Install, Mark, Replace, Replaced, Resume, ResumeNext, Call, TypeOK
  <2>. QED
    BY <1>0, <2>1, <2>2, QuietStep
<1>4. CASE CloseNext \/ BeginShutdown
  <2>1. UNCHANGED <<child, held>> /\ pc["shutdown"] # "wait"
    BY <1>4 DEF CloseNext, BeginShutdown, workers
  <2>2. \A u \in Task \ {"shutdown"} : job'[u] = job[u]
    BY <1>0, <1>4 DEF CloseNext, BeginShutdown, Call, TypeOK
  <2>. QED
    BY <1>0, <2>1, <2>2, QuietStep
<1>5. CASE \E c \in Component : Dies(c) \/ BackoffEnds(c)
  BY <1>5 DEF Dies, BackoffEnds, workers, Quiet, Running, Ending
<1>. QED
  BY <1>1, <1>2, <1>3, <1>4, <1>5 DEF MonitorStep

(* In every case, what did not run before is only started if it may be.          *)
LEMMA StartsOnlyFree ==
    ASSUME IInv, Next, NEW c \in Component, ~Running(c), ~MaySpawn(c)
    PROVE  ~Running(c)'
<1>1. Quiet \/ (\E d \in Component : Ends(d)) \/ (\E d \in Component : Launches(d))
  BY CallRuns, ClientRuns, ScriptRuns, CrashEnds DEF Next
<1>. QED
  BY <1>1 DEF Quiet, Ends, Launches

-----------------------------------------------------------------------------
(***************************************************************************)
(* Where the installer is, and what is parked for it.  Nothing starts a       *)
(* component that is under maintenance, so that one that is parked stays       *)
(* parked until maintenance is lowered.                                      *)
(***************************************************************************)
Workers(a) == {Quiesced(a)[i] : i \in DOMAIN Quiesced(a)}
Parked(c)  == maintenance[c] /\ ~Running(c)
Installing == Quiescing \cup {"commit", "replacing", "resume"}

InstallInv ==
    /\ job["asset"].kind \in {"start", "ensure", "quiesce"}
    /\ pc["asset"] \in Quiescing => job["asset"].kind = "quiesce"
    /\ job["asset"].kind = "quiesce" =>
           \/ todo["asset"] = Quiesced(asset)
           \/ /\ todo["asset"] = <<"tts">> /\ asset = "voice-tts"
              /\ pc["asset"] \in Quiescing /\ Parked("voice")
    /\ pc["asset"] \in {"stop", "wait", "stopped"} =>
           job["asset"].comp = Head(todo["asset"]) /\ maintenance[job["asset"].comp]
    /\ pc["asset"] \in {"commit", "replacing", "resume"} =>
           \A c \in Workers(asset) : Parked(c)
    /\ \A c \in Component : maintenance[c] =>
           pc["asset"] \in Installing /\ c \in Workers(asset)

(* What shutdown() has passed is gone, and nothing comes after it.             *)
CloseInv ==
    /\ pc["shutdown"] \in {"idle", "closing", "closed", "lock", "stop", "wait", "stopped"}
    /\ pc["shutdown"] # "idle" => shutting_down
    /\ pc["shutdown"] \in {"lock", "stop", "wait", "stopped"} => job["shutdown"].kind = "stop"
    /\ pc["shutdown"] # "idle" => \A c \in Component :
          \/ ~Running(c)
          \/ \E i \in DOMAIN todo["shutdown"] : todo["shutdown"][i] = c
          \/ pc["shutdown"] \in {"lock", "stop", "wait"} /\ job["shutdown"].comp = c
    /\ pc["shutdown"] = "closed" => todo["shutdown"] = <<>>

PoolInv == IInv /\ InstallInv /\ CloseInv

LEMMA QuiescedAre ==
    \A a \in Asset :
        /\ a # "voice-tts" => Quiesced(a) = <<"voice">> /\ Workers(a) = {"voice"}
        /\ a = "voice-tts" => Quiesced(a) = <<"voice", "tts">> /\ Workers(a) = {"voice", "tts"}
        /\ Workers(a) \subseteq Component
<1>1. \A a \in Asset : a # "voice-tts" => Quiesced(a) = <<"voice">> /\ Workers(a) = {"voice"}
  BY DEF Quiesced, Workers, Asset
<1>2. \A a \in Asset : a = "voice-tts" =>
         Quiesced(a) = <<"voice", "tts">> /\ Workers(a) = {"voice", "tts"}
  BY DEF Quiesced, Workers, Asset
<1>. QED
  BY <1>1, <1>2, Names

(* What is parked stays so unless a step lowers the flag.                      *)
LEMMA StaysParked ==
    ASSUME IInv, Next, NEW c \in Component, Parked(c), maintenance'[c]
    PROVE  Parked(c)'
<1>1. ~MaySpawn(c)
  BY DEF MaySpawn, Parked
<1>. QED
  BY <1>1, StartsOnlyFree DEF Parked

(* The steps of the others leave the installer where it is.                    *)
LEMMA InstallerAside ==
    ASSUME PoolInv, Next, UNCHANGED <<maintenance, asset>>,
           pc'["asset"] = pc["asset"], job'["asset"] = job["asset"],
           todo'["asset"] = todo["asset"]
    PROVE  InstallInv'
<1>1. TypeOK /\ InstallInv /\ "voice" \in Component /\ Workers(asset) \subseteq Component
  BY QuiescedAre, Names DEF PoolInv, IInv, TypeOK
<1>2. \A c \in Component : Parked(c) => Parked(c)'
  BY StaysParked DEF PoolInv, Parked
<1>3. Quiesced(asset)' = Quiesced(asset) /\ Workers(asset)' = Workers(asset)
  BY DEF Quiesced, Workers
<1>. QED
  BY <1>1, <1>2, <1>3 DEF InstallInv

(* The installer's own steps.                                               *)
LEMMA InstallerCalls ==
    ASSUME PoolInv, Next,
           Acquire("asset") \/ LockTts("asset") \/ CallStep("asset") \/ Obeys("asset")
    PROVE  InstallInv'
<1> DEFINE t == "asset"
           c == job[t].comp
<1>0. /\ TypeOK /\ IInv /\ InstallInv /\ t \in Task /\ c \in Component
      /\ "voice" \in Component /\ "tts" \in Component /\ asset \in Asset
  BY AtStage, Names DEF PoolInv, IInv, TypeOK
<1>1. UNCHANGED <<maintenance, asset>>
  BY DEF CallStep, Acquire, LockTts, Obeys, Check, Stop, Terminated, Stopped, Start, StartTts,
         Spawn, SpawnFails, SpawnTts, SpawnTtsFails, TtsReady, TtsTimeout, flags, environment
<1>2. \A d \in Component : Parked(d) => Parked(d)'
  BY <1>0, <1>1, StaysParked DEF Parked
<1>3. Quiesced(asset)' = Quiesced(asset) /\ Workers(asset)' = Workers(asset)
  BY <1>1 DEF Quiesced, Workers
<1>4. maintenance' = maintenance /\ asset' = asset
  BY <1>1
<1>5. ASSUME pc[t] \in InCall \ Quiescing, pc'[t] \notin Installing,
             job'[t].kind \in {"start", "ensure"}
      PROVE  InstallInv'
  <2>1. \A d \in Component : ~maintenance[d]
    BY <1>0, <1>5 DEF InstallInv, Installing, InCall
  <2>. QED
    BY <1>4, <1>5, <2>1 DEF InstallInv, Installing, Quiescing
<1>6. ASSUME NEW ok, Return(t, ok), pc[t] \in {"check", "start", "spawn", "spawnTts", "waitTts"}
      PROVE  InstallInv'
  <2>1. job[t].kind # "quiesce" /\ pc[t] \in InCall \ Quiescing
    BY <1>0, <1>6, AtStage DEF InCall, Quiescing
  <2>2. pc'[t] \in {"idle", "resuming"} /\ job'[t].kind = "start"
    BY <1>0, <1>6, <2>1, ComponentsAssumption
    DEF Return, To, Continuation, NoCall, TypeOK, Task, Script
  <2>. QED
    BY <1>5, <2>1, <2>2 DEF Installing, Quiescing
<1>7. ASSUME NEW stage, To(t, stage), UNCHANGED job, stage \in InCall \ Quiescing,
             pc[t] \in {"check", "start", "startTts", "spawnTts", "waitTts"}
      PROVE  InstallInv'
  <2>1. job[t].kind # "quiesce" /\ pc[t] \in InCall \ Quiescing
    BY <1>0, <1>7, AtStage DEF InCall, Quiescing
  <2>2. pc'[t] = stage /\ pc'[t] \notin Installing
    BY <1>0, <1>7 DEF To, TypeOK, Installing, InCall
  <2>3. job'[t].kind \in {"start", "ensure"}
    BY <1>0, <1>7, <2>1 DEF InstallInv
  <2>. QED
    BY <1>5, <2>1, <2>2, <2>3
<1>8. CASE Check(t) \/ Start(t) \/ StartTts(t) \/ Spawn(t) \/ SpawnFails(t) \/ SpawnTts(t)
           \/ SpawnTtsFails(t) \/ TtsReady(t) \/ TtsTimeout(t)
  <2>1. {"start", "spawn", "lockTts", "spawnTts", "waitTts"} \subseteq InCall \ Quiescing
    BY DEF InCall, Quiescing
  <2>2. CASE Check(t) \/ Start(t)
    BY <1>6, <1>7, <2>1, <2>2 DEF Check, Start, Goto
  <2>3. CASE StartTts(t) \/ SpawnTts(t) \/ TtsReady(t)
    BY <1>7, <2>1, <2>3 DEF StartTts, SpawnTts, TtsReady
  <2>4. CASE Spawn(t) \/ SpawnFails(t) \/ SpawnTtsFails(t) \/ TtsTimeout(t)
    BY <1>6, <2>4 DEF Spawn, SpawnFails, SpawnTtsFails, TtsTimeout
  <2>. QED
    BY <1>8, <2>2, <2>3, <2>4
<1>9. CASE Acquire(t)
  <2>1. /\ pc[t] = "lock" /\ UNCHANGED <<job, todo>> /\ pc'[t] = FirstStage[job[t].kind]
    BY <1>0, <1>9 DEF Acquire, To, TypeOK
  <2>2. job[t].kind \in {"start", "ensure", "quiesce"}
    BY <1>0 DEF InstallInv
  <2>3. pc'[t] \in {"start", "check", "lockTts"}
    BY <2>1, <2>2 DEF FirstStage
  <2>4. \A d \in Component : ~maintenance[d]
    BY <1>0, <2>1 DEF InstallInv, Installing, Quiescing
  <2>5. job[t].kind = "quiesce" => todo[t] = Quiesced(asset)
    BY <1>0, <2>1 DEF InstallInv, Quiescing
  <2>. QED
    BY <1>3, <1>4, <2>1, <2>2, <2>3, <2>4, <2>5 DEF InstallInv, Quiescing
<1>10. CASE LockTts(t)
  <2>1. /\ pc[t] = "lockTts" /\ UNCHANGED <<job, todo>>
        /\ pc'[t] = IF job[t].kind = "quiesce" THEN "mark" ELSE "startTts"
    BY <1>0, <1>10 DEF LockTts, To, TypeOK
  <2>2. job[t].kind \in {"start", "ensure", "quiesce"}
    BY <1>0 DEF InstallInv
  <2>3. \A d \in Component : ~maintenance[d]
    BY <1>0, <2>1 DEF InstallInv, Installing, Quiescing
  <2>4. job[t].kind = "quiesce" => todo[t] = Quiesced(asset)
    BY <1>0, <2>1 DEF InstallInv, Quiescing
  <2>. QED
    BY <1>3, <1>4, <2>1, <2>2, <2>3, <2>4 DEF InstallInv, Quiescing
<1>11. CASE Stop(t) \/ Terminated(t)
  <2>1. /\ UNCHANGED <<job, todo>> /\ pc[t] \in {"stop", "wait"} /\ pc'[t] \in {"wait", "stopped"}
    BY <1>0, <1>11 DEF Stop, Terminated, To, TypeOK
  <2>. QED
    BY <1>0, <1>2, <1>3, <1>4, <2>1 DEF InstallInv, Quiescing, Installing
<1>12. CASE Obeys(t)
  BY <1>0, <1>4, <1>12, InstallerAside DEF Obeys
<1>13. CASE Stopped(t)
  <2>1. /\ pc[t] = "stopped" /\ job[t].kind = "quiesce" /\ maintenance[c]
        /\ c = Head(todo[t])
    BY <1>0, <1>13 DEF Stopped, InstallInv, Quiescing
  <2>2. \A d \in Component : d = c => Parked(d) /\ Parked(d)'
    BY <1>0, <1>2, <2>1, StoppedIsGone DEF Parked
  <2>3. CASE todo[t] = Quiesced(asset) /\ asset = "voice-tts"
    <3>1. todo[t] = <<"voice", "tts">> /\ c = "voice"
      BY <1>0, <2>1, <2>3, QuiescedAre
    <3>2. Len(todo[t]) = 2 /\ Tail(todo[t]) = <<"tts">>
      BY <3>1
    <3>3. Goto(t, "mark") /\ todo' = [todo EXCEPT ![t] = Tail(todo[t])]
      BY <1>13, <2>1, <3>2 DEF Stopped, AfterStop
    <3>4. pc'[t] = "mark" /\ job' = job /\ todo'[t] = <<"tts">>
      BY <1>0, <3>2, <3>3 DEF Goto, To, TypeOK, Script
    <3>. QED
      BY <1>0, <1>3, <1>4, <2>1, <2>2, <2>3, <3>1, <3>4 DEF InstallInv, Quiescing, Installing
  <2>4. CASE todo[t] # Quiesced(asset) \/ asset # "voice-tts"
    <3>1. /\ Len(todo[t]) = 1
          /\ \A d \in Workers(asset) : Parked(d)'
      <4>1. CASE todo[t] = Quiesced(asset) /\ asset # "voice-tts"
        <5>1. todo[t] = <<"voice">> /\ Workers(asset) = {"voice"}
          BY <1>0, <4>1, QuiescedAre
        <5>. QED
          BY <1>0, <2>1, <2>2, <5>1
      <4>2. CASE todo[t] = <<"tts">> /\ asset = "voice-tts" /\ Parked("voice")
        <5>1. Workers(asset) = {"voice", "tts"}
          BY <1>0, <4>2, QuiescedAre
        <5>. QED
          BY <1>0, <1>2, <2>1, <2>2, <4>2, <5>1
      <4>. QED
        BY <1>0, <2>1, <2>4, <4>1, <4>2 DEF InstallInv
    <3>2. Return(t, TRUE)
      <4>1. AfterStop(t) /\ job[t].kind = "quiesce" /\ Len(todo[t]) = 1
        BY <1>13, <2>1, <3>1 DEF Stopped
      <4>2. ~(Len(todo[t]) > 1)
        BY <4>1
      <4>. QED
        BY <4>1, <4>2 DEF AfterStop
    <3>3. pc'[t] = "commit" /\ job'[t].kind = "start"
      BY <1>0, <2>1, <3>2, ComponentsAssumption
      DEF Return, To, Continuation, NoCall, TypeOK, Task, Script
    <3>. QED
      BY <1>0, <1>3, <1>4, <2>1, <3>1, <3>3 DEF InstallInv, Quiescing, Installing
  <2>. QED
    BY <2>3, <2>4
<1>. QED
  BY <1>8, <1>9, <1>10, <1>11, <1>12, <1>13 DEF CallStep

LEMMA InstallerScript == ASSUME PoolInv, Next, AssetStep \/ Install PROVE InstallInv'
<1> DEFINE t == "asset"
<1>0. /\ TypeOK /\ IInv /\ InstallInv /\ AssetTodo /\ t \in Task /\ t \in Script
      /\ "voice" \in Component /\ "tts" \in Component /\ asset \in Asset
  BY Names DEF PoolInv, IInv, TypeOK, Script
<1>1. CASE Mark
  <2> DEFINE b == Head(todo[t])
  <2>1. /\ pc[t] = "mark" /\ UNCHANGED <<todo, asset>> /\ todo[t] # <<>>
        /\ maintenance' = [maintenance EXCEPT ![b] = TRUE]
        /\ job' = [job EXCEPT ![t] = [comp |-> b, kind |-> "quiesce"]]
        /\ pc' = [pc EXCEPT ![t] = "stop"]
    BY <1>1 DEF Mark, To, environment
  <2>2. b \in Workers(asset)
    <3>1. todo[t] = Quiesced(asset) \/ (todo[t] = <<"tts">> /\ asset = "voice-tts")
      BY <1>0, <2>1 DEF InstallInv, Quiescing
    <3>. QED
      BY <1>0, <3>1, QuiescedAre
  <2>3. b \in Component
    BY <1>0, <2>2, QuiescedAre
  <2>4. pc'[t] = "stop" /\ job'[t].kind = "quiesce" /\ job'[t].comp = b
    BY <1>0, <2>1 DEF TypeOK
  <2>5. \A d \in Component : maintenance'[d] <=> maintenance[d] \/ d = b
    BY <1>0, <2>1, <2>3 DEF TypeOK
  <2>6. \A d \in Component : Parked(d) => Parked(d)'
    BY <1>0, <2>5, StaysParked DEF Parked
  <2>7. Quiesced(asset)' = Quiesced(asset) /\ Workers(asset)' = Workers(asset)
    BY <2>1 DEF Quiesced, Workers
  <2>. QED
    BY <1>0, <2>1, <2>2, <2>3, <2>4, <2>5, <2>6, <2>7 DEF InstallInv, Quiescing, Installing
<1>2. CASE Replace \/ Replaced
  <2>1. /\ pc[t] \in {"commit", "replacing"} /\ pc'[t] \in {"replacing", "resume"}
        /\ UNCHANGED <<job, todo, asset, maintenance>>
    BY <1>0, <1>2 DEF Replace, Replaced, To, TypeOK, flags
  <2>2. \A d \in Component : Parked(d) => Parked(d)'
    BY <1>0, <2>1, StaysParked DEF Parked
  <2>3. Quiesced(asset)' = Quiesced(asset) /\ Workers(asset)' = Workers(asset)
    BY <2>1 DEF Quiesced, Workers
  <2>4. job[t].kind # "quiesce"
    BY <1>0, <2>1 DEF IInv, TaskInv, Locks, Quiescing
  <2>. QED
    BY <1>0, <2>1, <2>2, <2>3, <2>4, QuiescedAre DEF InstallInv, Quiescing, Installing
<1>3. CASE Resume
  <2>1. /\ pc[t] = "resume" /\ pc'[t] = "resuming" /\ UNCHANGED <<job, asset>>
        /\ maintenance' = Lowered(asset)
    BY <1>0, <1>3 DEF Resume, To, TypeOK, environment
  <2>2. \A d \in Component : ~maintenance'[d]
    <3>1. \A d \in Component : maintenance[d] => d \in Workers(asset)
      BY <1>0 DEF InstallInv
    <3>. QED
      BY <1>0, <2>1, <3>1, QuiescedAre DEF Lowered
  <2>3. job[t].kind # "quiesce"
    BY <1>0, <2>1 DEF IInv, TaskInv, Locks, Quiescing
  <2>. QED
    BY <1>0, <2>1, <2>2, <2>3 DEF InstallInv, Quiescing
<1>4. CASE ResumeNext
  <2>1. pc[t] = "resuming" /\ UNCHANGED <<asset, maintenance>>
    BY <1>4 DEF ResumeNext, flags, environment
  <2>2. \A d \in Component : ~maintenance[d]
    BY <1>0, <2>1 DEF InstallInv, Quiescing, Installing
  <2>3. job[t].kind # "quiesce" /\ job[t].kind \in {"start", "ensure"}
    BY <1>0, <2>1 DEF InstallInv, IInv, TaskInv, Locks, Quiescing
  <2>4. pc'[t] \in {"idle", "lock"} /\ job'[t].kind \in {"start", "ensure"}
    BY <1>0, <1>4, <2>3 DEF ResumeNext, Call, To, TypeOK
  <2>. QED
    BY <2>1, <2>2, <2>4 DEF InstallInv, Quiescing
<1>5. CASE Install
  <2>1. /\ pc[t] = "idle" /\ pc'[t] = "lock" /\ job'[t].kind = "quiesce"
        /\ UNCHANGED maintenance /\ todo'[t] = Quiesced(asset')
    BY <1>0, <1>5 DEF Install, Call, To, TypeOK, flags
  <2>2. \A d \in Component : ~maintenance[d]
    BY <1>0, <2>1 DEF InstallInv, Quiescing, Installing
  <2>3. Quiesced(asset') = Quiesced(asset)'
    BY DEF Quiesced
  <2>. QED
    BY <2>1, <2>2, <2>3 DEF InstallInv, Quiescing
<1>. QED
  BY <1>1, <1>2, <1>3, <1>4, <1>5 DEF AssetStep

(* A step of another task leaves the installer's fields as they are.            *)
LEMMA OtherCalls ==
    ASSUME TypeOK, NEW t \in Task, NEW u \in Script, u # t,
           Acquire(t) \/ LockTts(t) \/ CallStep(t) \/ Obeys(t)
    PROVE  /\ pc'[u] = pc[u] /\ job'[u] = job[u]
           /\ UNCHANGED <<maintenance, asset, shutting_down>>
           /\ todo'[u] = todo[u] \/ (u = "asset" /\ Stopped(t) /\ job[t].kind = "quiesce")
<1>0. u \in Task
  BY Names
<1>1. UNCHANGED <<maintenance, asset, shutting_down>>
  BY DEF CallStep, Acquire, LockTts, Obeys, Check, Stop, Terminated, Stopped, Start, StartTts,
         Spawn, SpawnFails, SpawnTts, SpawnTtsFails, TtsReady, TtsTimeout, flags, environment
<1>2. ASSUME NEW ok, Return(t, ok) PROVE pc'[u] = pc[u] /\ job'[u] = job[u]
  BY <1>0, <1>2 DEF Return, To, TypeOK
<1>3. ASSUME NEW stage, To(t, stage) PROVE pc'[u] = pc[u]
  BY <1>0, <1>3 DEF To, TypeOK
<1>4. pc'[u] = pc[u] /\ job'[u] = job[u]
  BY <1>2, <1>3 DEF CallStep, Acquire, LockTts, Obeys, Check, Stop, Terminated, Stopped, AfterStop,
         Start, StartTts, Spawn, SpawnFails, SpawnTts, SpawnTtsFails, TtsReady, TtsTimeout, Goto
<1>5. CASE Stopped(t)
  BY <1>1, <1>4, <1>5 DEF Stopped, AfterStop, TypeOK
<1>6. CASE ~Stopped(t)
  <2>1. UNCHANGED todo
    BY <1>6 DEF CallStep, Acquire, LockTts, Obeys, Check, Stop, Terminated, Start, StartTts,
         Spawn, SpawnFails, SpawnTts, SpawnTtsFails, TtsReady, TtsTimeout
  <2>. QED
    BY <1>1, <1>4, <2>1
<1>. QED
  BY <1>5, <1>6

(* The other steps of the rest.                                              *)
LEMMA OtherSteps ==
    ASSUME TypeOK, NEW u \in {"asset", "shutdown"},
           \/ \E t \in Client : Request(t) \/ Drop(t)
           \/ \E c \in Component : Crash(c) \/ Dies(c) \/ BackoffEnds(c)
           \/ Overview \/ MonitorStep
           \/ u = "asset" /\ (BeginShutdown \/ CloseNext)
           \/ u = "shutdown" /\ (AssetStep \/ Install)
    PROVE  /\ pc'[u] = pc[u] /\ job'[u] = job[u] /\ todo'[u] = todo[u]
           /\ u = "asset" => UNCHANGED <<maintenance, asset>>
           /\ u = "shutdown" => UNCHANGED shutting_down
<1>0. u \in Task /\ u \in Script /\ u \notin Client /\ u # "monitor"
  BY ComponentsAssumption, Names DEF Script
<1>1. CASE \E t \in Client : Request(t) \/ Drop(t)
  BY <1>0, <1>1 DEF Request, Drop, Call, Return, To, TypeOK, flags
<1>2. CASE (\E c \in Component : Crash(c) \/ Dies(c) \/ BackoffEnds(c)) \/ Overview
  BY <1>2 DEF Crash, Dies, BackoffEnds, Overview, flags, environment
<1>3. CASE MonitorStep
  BY <1>0, <1>3 DEF MonitorStep, Bootstrap, Tick, Visit, ProbeAnswered, ProbeFails, Call, To,
         TypeOK, flags, environment
<1>4. CASE u = "asset" /\ (BeginShutdown \/ CloseNext)
  BY <1>0, <1>4 DEF BeginShutdown, CloseNext, Call, To, TypeOK, flags, environment
<1>5. CASE u = "shutdown" /\ (AssetStep \/ Install)
  BY <1>0, <1>5 DEF AssetStep, Mark, Replace, Replaced, Resume, ResumeNext, Install, Call, To,
         TypeOK
<1>. QED
  BY <1>1, <1>2, <1>3, <1>4, <1>5

LEMMA InstallKept == ASSUME PoolInv, Next PROVE InstallInv'
<1>0. TypeOK /\ IInv /\ "asset" \in Script /\ "asset" \in Task
  BY Names DEF PoolInv, IInv, Script
<1>1. ASSUME NEW t \in Task, Acquire(t) \/ LockTts(t) \/ CallStep(t) \/ Obeys(t), t # "asset"
      PROVE  InstallInv'
  <2>1. ~(Stopped(t) /\ job[t].kind = "quiesce")
    BY <1>0, <1>1 DEF IInv, TaskInv, Locks
  <2>. QED
    BY <1>0, <1>1, <2>1, OtherCalls, InstallerAside
<1>2. ASSUME \/ \E t \in Client : Request(t) \/ Drop(t)
             \/ \E c \in Component : Crash(c) \/ Dies(c) \/ BackoffEnds(c)
             \/ Overview \/ MonitorStep \/ BeginShutdown \/ CloseNext
      PROVE  InstallInv'
  BY <1>0, <1>2, OtherSteps, InstallerAside
<1>. QED
  BY <1>1, <1>2, InstallerCalls, InstallerScript DEF Next

-----------------------------------------------------------------------------
(* Shutdown.                                                                *)

(* Nothing is started once shutdown() has begun.                              *)
LEMMA StaysGone ==
    ASSUME PoolInv, Next, pc["shutdown"] # "idle", NEW c \in Component, ~Running(c)
    PROVE  ~Running(c)'
BY StartsOnlyFree DEF PoolInv, CloseInv, MaySpawn

LEMMA CloserAside ==
    ASSUME PoolInv, Next, UNCHANGED shutting_down, pc'["shutdown"] = pc["shutdown"],
           job'["shutdown"] = job["shutdown"], todo'["shutdown"] = todo["shutdown"]
    PROVE  CloseInv'
BY StaysGone DEF PoolInv, CloseInv

LEMMA CloserCalls ==
    ASSUME PoolInv, Next, Acquire("shutdown") \/ LockTts("shutdown") \/ CallStep("shutdown")
                          \/ Obeys("shutdown")
    PROVE  CloseInv'
<1> DEFINE t == "shutdown"
<1>0. TypeOK /\ IInv /\ CloseInv /\ t \in Task /\ t \in Script
  BY Names DEF PoolInv, IInv, Script
<1>1. UNCHANGED shutting_down
  BY DEF CallStep, Acquire, LockTts, Obeys, Check, Stop, Terminated, Stopped, Start, StartTts,
         Spawn, SpawnFails, SpawnTts, SpawnTtsFails, TtsReady, TtsTimeout
<1>2. \A c \in Component : pc[t] # "idle" /\ ~Running(c) => ~Running(c)'
  BY StaysGone
<1>3. pc[t] \in {"idle", "closing", "closed", "lock", "stop", "wait", "stopped"}
  BY <1>0 DEF CloseInv
<1>4. Acquire(t) \/ Stop(t) \/ Terminated(t) \/ Stopped(t) \/ Obeys(t)
  BY <1>3 DEF CallStep, LockTts, Check, Start, StartTts, Spawn, SpawnFails, SpawnTts,
         SpawnTtsFails, TtsReady, TtsTimeout
<1>5. CASE Acquire(t) \/ Stop(t)
  <2>1. /\ pc[t] \in {"lock", "stop"} /\ UNCHANGED <<job, todo>> /\ job[t].kind = "stop"
        /\ pc' = [pc EXCEPT ![t] = IF pc[t] = "lock" THEN FirstStage["stop"] ELSE "wait"]
    BY <1>0, <1>5 DEF CloseInv, Acquire, Stop, To
  <2>2. FirstStage["stop"] = "stop"
    BY DEF FirstStage
  <2>3. pc'[t] = IF pc[t] = "lock" THEN "stop" ELSE "wait"
    BY <1>0, <2>1, <2>2 DEF TypeOK
  <2>. QED
    BY <1>0, <1>1, <1>2, <2>1, <2>3 DEF CloseInv
<1>6. CASE Terminated(t)
  <2>1. pc[t] = "wait" /\ pc'[t] = "stopped" /\ UNCHANGED <<job, todo, child>>
        /\ held' = [held EXCEPT ![t] = "none"]
    BY <1>0, <1>6 DEF Terminated, To, TypeOK
  <2>2. \A c \in Component : c = job[t].comp => ~Running(c)'
    <3>1. \A u \in Task, c \in Component : c = job[t].comp /\ u # t => ~Ending(u, c)
      BY <1>0, <2>1, EndingHolds, AtStage DEF InCall
    <3>2. \A c \in Component : c = job[t].comp => child[c] = "none"
      BY <1>0, <2>1 DEF IInv, TaskInv, Stops
    <3>. QED
      BY <1>0, <2>1, <3>1, <3>2 DEF Running, Ending, TypeOK
  <2>. QED
    BY <1>0, <1>1, <1>2, <2>1, <2>2 DEF CloseInv
<1>7. CASE Stopped(t)
  <2>1. pc[t] = "stopped" /\ job[t].kind = "stop" /\ AfterStop(t)
    BY <1>0, <1>7 DEF CloseInv, Stopped
  <2>2. Return(t, TRUE) /\ UNCHANGED todo
    BY <2>1 DEF AfterStop
  <2>3. pc'[t] = "closing"
    BY <1>0, <2>2, ComponentsAssumption DEF Return, To, Continuation, TypeOK, Script
  <2>. QED
    BY <1>0, <1>1, <1>2, <2>1, <2>2, <2>3 DEF CloseInv
<1>8. CASE Obeys(t)
  BY <1>0, <1>1, <1>8, CloserAside DEF Obeys
<1>. QED
  BY <1>4, <1>5, <1>6, <1>7, <1>8

LEMMA HeadOrTail ==
    ASSUME NEW S, NEW s \in Seq(S), s # <<>>, NEW i \in DOMAIN s
    PROVE  s[i] = Head(s) \/ \E j \in DOMAIN Tail(s) : Tail(s)[j] = s[i]
<1>1. CASE i = 1
  BY <1>1
<1>2. CASE i # 1
  <2>1. i - 1 \in DOMAIN Tail(s) /\ Tail(s)[i - 1] = s[i]
    BY <1>2
  <2>. QED
    BY <2>1
<1>. QED
  BY <1>1, <1>2

LEMMA CloserScript == ASSUME PoolInv, Next, BeginShutdown \/ CloseNext PROVE CloseInv'
<1> DEFINE t == "shutdown"
<1>0. TypeOK /\ CloseInv /\ t \in Task /\ t \in Script
  BY Names DEF PoolInv, IInv, Script
<1>1. CASE BeginShutdown
  <2>1. pc'[t] = "closing" /\ todo'[t] = Order /\ shutting_down'
    BY <1>0, <1>1 DEF BeginShutdown, To, TypeOK
  <2>. QED
    BY <2>1 DEF CloseInv, Component
<1>2. CASE CloseNext /\ todo[t] = <<>>
  <2>1. pc[t] = "closing" /\ pc'[t] = "closed" /\ UNCHANGED <<shutting_down, todo>>
    BY <1>0, <1>2 DEF CloseNext, To, TypeOK
  <2>2. \A c \in Component : ~Running(c)
    <3>1. \A i \in DOMAIN todo[t] : FALSE
      BY <1>2
    <3>. QED
      BY <1>0, <2>1, <3>1 DEF CloseInv
  <2>3. \A c \in Component : ~Running(c)'
    BY <2>1, <2>2, StaysGone
  <2>. QED
    BY <1>0, <1>2, <2>1, <2>3 DEF CloseInv
<1>3. CASE CloseNext /\ todo[t] # <<>>
  <2>1. /\ pc[t] = "closing" /\ pc'[t] = "lock" /\ UNCHANGED shutting_down
        /\ job'[t] = [comp |-> Head(todo[t]), kind |-> "stop"]
        /\ todo'[t] = Tail(todo[t])
    BY <1>0, <1>3 DEF CloseNext, Call, To, TypeOK
  <2>2. todo[t] \in Seq(Component) /\ Len(todo[t]) \in Nat
    BY <1>0, TodoType
  <2>3. \A i \in DOMAIN todo[t] :
           todo[t][i] = Head(todo[t]) \/ \E j \in DOMAIN Tail(todo[t]) : Tail(todo[t])[j] = todo[t][i]
    BY <1>3, <2>2, HeadOrTail
  <2>4. \A c \in Component : ~Running(c) => ~Running(c)'
    BY <2>1, StaysGone
  <2>. QED
    BY <1>0, <2>1, <2>3, <2>4 DEF CloseInv
<1>. QED
  BY <1>1, <1>2, <1>3

LEMMA CloseKept == ASSUME PoolInv, Next PROVE CloseInv'
<1>0. TypeOK /\ "shutdown" \in Script /\ "shutdown" \in Task
  BY Names DEF PoolInv, IInv, Script
<1>1. ASSUME NEW t \in Task, Acquire(t) \/ LockTts(t) \/ CallStep(t) \/ Obeys(t), t # "shutdown"
      PROVE  CloseInv'
  BY <1>0, <1>1, OtherCalls, CloserAside
<1>2. ASSUME \/ \E t \in Client : Request(t) \/ Drop(t)
             \/ \E c \in Component : Crash(c) \/ Dies(c) \/ BackoffEnds(c)
             \/ Overview \/ MonitorStep \/ AssetStep \/ Install
      PROVE  CloseInv'
  BY <1>0, <1>2, OtherSteps, CloserAside
<1>. QED
  BY <1>1, <1>2, CloserCalls, CloserScript DEF Next

LEMMA PoolInvariance == Spec => []PoolInv
<1>1. Init => InstallInv /\ CloseInv
  <2> SUFFICES ASSUME Init PROVE InstallInv /\ CloseInv
    OBVIOUS
  <2>1. /\ pc["asset"] = "idle" /\ pc["shutdown"] = "idle"
        /\ job["asset"].kind = "start" /\ \A c \in Component : ~maintenance[c]
    BY Names DEF Init, NoCall
  <2>. QED
    BY <2>1 DEF InstallInv, CloseInv, Quiescing, Installing
<1>2. IInv /\ IInv' /\ InstallInv /\ CloseInv /\ [Next]_vars => (InstallInv /\ CloseInv)'
  <2> SUFFICES ASSUME PoolInv, [Next]_vars PROVE (InstallInv /\ CloseInv)'
    BY DEF PoolInv
  <2>1. CASE UNCHANGED vars
    <3>1. UNCHANGED <<pc, job, todo, asset, maintenance, child, held, shutting_down>>
      BY <2>1 DEF vars
    <3>2. \A c \in Component : Running(c)' <=> Running(c)
      BY <3>1 DEF Running, Ending
    <3>3. Quiesced(asset)' = Quiesced(asset) /\ Workers(asset)' = Workers(asset)
      BY <3>1 DEF Quiesced, Workers
    <3>4. \A c \in Component : Parked(c) => Parked(c)'
      BY <3>1, <3>2 DEF Parked
    <3>5. "voice" \in Component /\ Workers(asset) \subseteq Component
      BY QuiescedAre, Names DEF PoolInv, IInv, TypeOK
    <3>6. InstallInv'
      BY <3>1, <3>3, <3>4, <3>5 DEF PoolInv, InstallInv
    <3>7. CloseInv'
      BY <3>1, <3>2 DEF PoolInv, CloseInv
    <3>. QED
      BY <3>6, <3>7
  <2>. QED
    BY <2>1, InstallKept, CloseKept
<1>. QED
  BY <1>1, <1>2, Invariance, PTL DEF Spec, PoolInv

(* An installation leaves no worker parked: a component is under maintenance     *)
(* only between quiesce_for_asset and resume_after_asset of an asset it needs,   *)
(* whatever requests, crashes and shutdown come between.                       *)
THEOREM NoWorkerIsParked == Spec => []MaintenanceIsTransient
<1>1. InstallInv => MaintenanceIsTransient
  BY DEF InstallInv, MaintenanceIsTransient, Installing, Quiescing, Workers
<1>. QED
  BY <1>1, PoolInvariance, PTL DEF PoolInv

-----------------------------------------------------------------------------
(* The refinement.                                                          *)
Live   == {c \in Component : Running(c)}
Frozen == IF pc["asset"] \in {"commit", "replacing"} THEN Workers(asset) ELSE {}
Closed == pc["shutdown"] = "closed"

LEMMA QuietLive == ASSUME Quiet PROVE Live' = Live
BY DEF Quiet, Live

LEMMA PoolInit == ASSUME Init PROVE Pool!Init
<1>1. \A c \in Component : ~Running(c)
  BY DEF Init, Running, Ending
<1>2. pc["asset"] = "idle" /\ pc["shutdown"] = "idle"
  BY Names DEF Init
<1>. QED
  BY <1>1, <1>2 DEF Pool!Init

(* The steps of the pool, in terms of the three.                              *)
LEMMA PoolSteps ==
    /\ \A c \in Component :
          c \notin Live \cup Frozen /\ ~Closed /\ Live' = Live \cup {c} /\ UNCHANGED <<Frozen, Closed>>
             => Pool!Launch(c)
    /\ \A c \in Component :
          c \in Live /\ Live' = Live \ {c} /\ UNCHANGED <<Frozen, Closed>> => Pool!End(c)
    /\ \A cs \in SUBSET Component :
          Frozen = {} /\ cs \cap Live = {} /\ Frozen' = cs /\ UNCHANGED <<Live, Closed>>
             => Pool!Freeze(cs)
    /\ Frozen' = {} /\ UNCHANGED <<Live, Closed>> => Pool!Thaw
    /\ Live = {} /\ Closed' = TRUE /\ UNCHANGED <<Live, Frozen>> => Pool!Close
    /\ UNCHANGED <<Live, Frozen, Closed>> => UNCHANGED Pool!vars
BY DEF Live, Frozen, Closed, Workers, Pool!Launch, Pool!End, Pool!Freeze, Pool!Thaw, Pool!Close,
       Pool!vars

LEMMA PoolEnds ==
    ASSUME NEW c \in Component, Ends(c), UNCHANGED <<Frozen, Closed>>
    PROVE  Pool!Next
<1>1. c \in Live /\ Live' = Live \ {c}
  BY DEF Ends, Live
<1>. QED
  BY <1>1, PoolSteps DEF Pool!Next

LEMMA PoolLaunches ==
    ASSUME PoolInv, NEW c \in Component, Launches(c), UNCHANGED <<Frozen, Closed>>
    PROVE  Pool!Next
<1>1. c \notin Live /\ Live' = Live \cup {c}
  BY DEF Launches, Live
<1>2. c \notin Frozen
  BY DEF Launches, MaySpawn, PoolInv, InstallInv, Parked, Frozen
<1>3. ~Closed
  BY DEF Launches, MaySpawn, PoolInv, CloseInv, Closed
<1>. QED
  BY <1>1, <1>2, <1>3, PoolSteps DEF Pool!Next

(* Unless the installer or shutdown() moves, nothing is frozen or closed.        *)
LEMMA FrozenStays ==
    ASSUME pc'["asset"] = pc["asset"], UNCHANGED asset PROVE UNCHANGED Frozen
BY DEF Frozen, Workers, Quiesced

LEMMA CallImplements ==
    ASSUME PoolInv, Next, NEW t \in Task, Acquire(t) \/ LockTts(t) \/ CallStep(t) \/ Obeys(t)
    PROVE  Pool!Next \/ UNCHANGED Pool!vars
<1>0. /\ TypeOK /\ IInv /\ InstallInv /\ "asset" \in Script /\ "shutdown" \in Script
      /\ "asset" \in Task /\ "shutdown" \in Task /\ asset \in Asset
  BY Names DEF PoolInv, IInv, TypeOK, Script
<1>1. UNCHANGED asset
  BY DEF CallStep, Acquire, LockTts, Obeys, Check, Stop, Terminated, Stopped, Start, StartTts,
         Spawn, SpawnFails, SpawnTts, SpawnTtsFails, TtsReady, TtsTimeout, environment
<1>2. UNCHANGED Closed
  <2>1. CASE t # "shutdown"
    BY <1>0, <2>1, OtherCalls DEF Closed
  <2>2. CASE t = "shutdown"
    <3>1. pc[t] # "closed" \/ Obeys(t)
      BY DEF CallStep, Acquire, LockTts, Check, Stop, Terminated, Stopped, Start, StartTts,
             Spawn, SpawnFails, SpawnTts, SpawnTtsFails, TtsReady, TtsTimeout
    <3>2. pc'[t] # "closed" \/ Obeys(t)
      <4>1. ASSUME NEW ok, Return(t, ok) PROVE pc'[t] # "closed"
        BY <1>0, <2>2, <4>1, ReturnStage DEF Return, To, TypeOK, Returned
      <4>2. ASSUME NEW stage, To(t, stage), stage # "closed" PROVE pc'[t] # "closed"
        BY <1>0, <4>2 DEF To, TypeOK
      <4>3. FirstStage[job[t].kind] # "closed"
        BY <1>0, AtStage, FirstStageType
      <4>. QED
        BY <4>1, <4>2, <4>3 DEF CallStep, Acquire, LockTts, Check, Stop, Terminated, Stopped,
               AfterStop, Start, StartTts, Spawn, SpawnFails, SpawnTts, SpawnTtsFails, TtsReady,
               TtsTimeout, Goto
    <3>3. Obeys(t) => UNCHANGED pc
      BY DEF Obeys
    <3>. QED
      BY <2>2, <3>1, <3>2, <3>3 DEF Closed
  <2>. QED
    BY <2>1, <2>2
<1>3. CASE t # "asset" \/ ~Stopped(t)
  <2>1. UNCHANGED Frozen
    <3>1. CASE t # "asset"
      BY <1>0, <1>1, <3>1, OtherCalls, FrozenStays
    <3>2. CASE t = "asset" /\ Obeys(t)
      BY <1>1, <3>2, FrozenStays DEF Obeys
    <3>3. CASE t = "asset" /\ ~Stopped(t) /\ ~Obeys(t)
      <4>1. pc[t] \notin {"commit", "replacing"}
        BY <3>3 DEF CallStep, Acquire, LockTts, Check, Stop, Terminated, Start, StartTts,
               Spawn, SpawnFails, SpawnTts, SpawnTtsFails, TtsReady, TtsTimeout
      <4>2. pc'[t] \notin {"commit", "replacing"}
        <5>1. ASSUME NEW ok, Return(t, ok), job[t].kind # "quiesce"
              PROVE  pc'[t] \notin {"commit", "replacing"}
          BY <1>0, <3>3, <5>1, ComponentsAssumption
          DEF Return, To, Continuation, TypeOK, Task, Script
        <5>2. ASSUME NEW stage, To(t, stage), stage \notin {"commit", "replacing"}
              PROVE  pc'[t] \notin {"commit", "replacing"}
          BY <1>0, <5>2 DEF To, TypeOK
        <5>3. FirstStage[job[t].kind] \notin {"commit", "replacing"}
          BY <1>0, AtStage, FirstStageType
        <5>4. pc[t] \in {"check", "start", "spawn", "spawnTts", "waitTts"} => job[t].kind # "quiesce"
          BY <1>0, AtStage DEF InCall
        <5>. QED
          BY <3>3, <5>1, <5>2, <5>3, <5>4 DEF CallStep, Acquire, LockTts, Check, Stop, Terminated,
                 Start, StartTts, Spawn, SpawnFails, SpawnTts, SpawnTtsFails, TtsReady,
                 TtsTimeout, Goto
      <4>. QED
        BY <3>3, <4>1, <4>2 DEF Frozen
    <3>. QED
      BY <1>3, <3>1, <3>2, <3>3
  <2>2. Quiet \/ (\E c \in Component : Ends(c)) \/ (\E c \in Component : Launches(c))
    BY <1>0, CallRuns
  <2>. QED
    BY <1>2, <2>1, <2>2, QuietLive, PoolEnds, PoolLaunches, PoolSteps
<1>4. CASE t = "asset" /\ Stopped(t)
  <2>1. UNCHANGED Live
    <3>1. ~Obeys(t) /\ ~Spawn(t) /\ ~SpawnTts(t)
      BY <1>0, <1>4, AtStage DEF Stopped, Obeys, Spawn, SpawnTts
    <3>. QED
      BY <1>0, <3>1, CallRuns, QuietLive
  <2>2. pc[t] = "stopped" /\ Frozen = {}
    BY <1>4 DEF Stopped, Frozen
  <2>3. CASE pc'[t] \notin {"commit", "replacing"}
    BY <1>2, <1>4, <2>1, <2>2, <2>3, PoolSteps DEF Frozen
  <2>4. CASE pc'[t] \in {"commit", "replacing"}
    <3>1. Frozen' = Workers(asset)
      BY <1>1, <1>4, <2>4 DEF Frozen, Workers, Quiesced
    <3>2. \A c \in Workers(asset) : ~Running(c)'
      <4>1. InstallInv'
        BY InstallKept
      <4>2. Workers(asset)' = Workers(asset)
        BY <1>1 DEF Workers, Quiesced
      <4>. QED
        BY <1>4, <2>4, <4>1, <4>2 DEF InstallInv, Parked
    <3>3. Workers(asset) \cap Live = {} /\ Workers(asset) \in SUBSET Component
      BY <1>0, <2>1, <3>2, QuiescedAre DEF Live
    <3>4. PICK cs \in SUBSET Component : cs = Workers(asset)
      BY <3>3
    <3>5. Pool!Freeze(cs)
      BY <1>2, <2>1, <2>2, <3>1, <3>3, <3>4, PoolSteps
    <3>. QED
      BY <3>5 DEF Pool!Next
  <2>. QED
    BY <2>3, <2>4
<1>. QED
  BY <1>3, <1>4

LEMMA ScriptImplements ==
    ASSUME PoolInv, Next,
           \/ MonitorStep \/ AssetStep \/ CloseNext \/ Install \/ BeginShutdown
           \/ Overview \/ \E c \in Component : Dies(c) \/ BackoffEnds(c)
    PROVE  Pool!Next \/ UNCHANGED Pool!vars
<1>0. TypeOK /\ IInv /\ "asset" \in Task /\ "shutdown" \in Task
  BY Names DEF PoolInv, IInv
<1>1. UNCHANGED Live
  BY <1>0, ScriptRuns, QuietLive
<1>2. CASE MonitorStep \/ Overview \/ \E c \in Component : Dies(c) \/ BackoffEnds(c)
  BY <1>0, <1>1, <1>2, OtherSteps, FrozenStays, PoolSteps DEF Closed
<1>3. CASE AssetStep \/ Install
  <2>1. UNCHANGED Closed
    BY <1>0, <1>3, OtherSteps DEF Closed
  <2>2. CASE Replaced
    <3>1. Frozen' = {}
      BY <1>0, <2>2 DEF Replaced, To, TypeOK, Frozen
    <3>. QED
      BY <1>1, <2>1, <3>1, PoolSteps DEF Pool!Next
  <2>3. CASE Replace
    <3>1. UNCHANGED Frozen
      BY <1>0, <2>3 DEF Replace, To, TypeOK, Frozen, Workers, Quiesced
    <3>. QED
      BY <1>1, <2>1, <3>1, PoolSteps
  <2>4. CASE Mark \/ Resume \/ ResumeNext \/ Install
    <3>1. /\ pc["asset"] \notin {"commit", "replacing"}
          /\ pc'["asset"] \notin {"commit", "replacing"}
      BY <1>0, <2>4 DEF Mark, Resume, ResumeNext, Install, Call, To, TypeOK
    <3>. QED
      BY <1>1, <2>1, <3>1, PoolSteps DEF Frozen
  <2>. QED
    BY <1>3, <2>2, <2>3, <2>4 DEF AssetStep
<1>4. CASE CloseNext \/ BeginShutdown
  <2>1. UNCHANGED Frozen
    BY <1>0, <1>4, OtherSteps, FrozenStays
  <2>2. CASE pc'["shutdown"] # "closed"
    <3>1. UNCHANGED Closed
      BY <1>4, <2>2 DEF Closed, CloseNext, BeginShutdown
    <3>. QED
      BY <1>1, <2>1, <3>1, PoolSteps
  <2>3. CASE pc'["shutdown"] = "closed"
    <3>1. CloseInv'
      BY CloseKept
    <3>2. \A c \in Component : ~Running(c)'
      <4>1. \A i \in DOMAIN todo'["shutdown"] : FALSE
        BY <2>3, <3>1 DEF CloseInv
      <4>. QED
        BY <2>3, <3>1, <4>1 DEF CloseInv
    <3>3. Live = {} /\ Closed' = TRUE
      BY <1>1, <2>3, <3>2 DEF Live, Closed
    <3>. QED
      BY <1>1, <2>1, <3>3, PoolSteps DEF Pool!Next
  <2>. QED
    BY <2>2, <2>3
<1>. QED
  BY <1>2, <1>3, <1>4

LEMMA PoolStep == ASSUME PoolInv, [Next]_vars PROVE [Pool!Next]_(Pool!vars)
<1>0. TypeOK /\ IInv
  BY DEF PoolInv, IInv
<1>1. CASE UNCHANGED vars
  <2>1. UNCHANGED <<Live, Frozen, Closed>>
    BY <1>1 DEF vars, Live, Running, Ending, Frozen, Workers, Quiesced, Closed
  <2>. QED
    BY <2>1, PoolSteps
<1>2. ASSUME NEW t \in Client, Request(t) \/ Drop(t) PROVE Pool!Next \/ UNCHANGED Pool!vars
  <2>1. UNCHANGED <<Frozen, Closed>>
    <3>1. UNCHANGED asset
      BY <1>0, <1>2, OtherSteps
    <3>. QED
      BY <1>0, <1>2, <3>1, OtherSteps, FrozenStays DEF Closed
  <2>. QED
    BY <1>0, <1>2, <2>1, ClientRuns, QuietLive, PoolEnds, PoolSteps
<1>3. ASSUME NEW c \in Component, Crash(c) PROVE Pool!Next
  <2>1. UNCHANGED <<Frozen, Closed>>
    BY <1>3 DEF Crash, Frozen, Workers, Quiesced, Closed
  <2>. QED
    BY <1>0, <1>3, <2>1, CrashEnds, PoolEnds
<1>4. CASE Next
  BY <1>2, <1>3, <1>4, CallImplements, ScriptImplements DEF Next
<1>. QED
  BY <1>1, <1>4

(* The supervisor implements the pool of workers, for any set of components and   *)
(* handlers: every step launches one process of a component that has none and    *)
(* is not frozen, ends one, freezes or thaws the components of an asset, closes   *)
(* when nothing runs, or changes nothing of that (spawn_component_locked,        *)
(* stop_component_locked, quiesce_for_asset, shutdown).                         *)
THEOREM SupervisorIsAPool == Spec => ImplementsPool
<1>1. Init => Pool!Init
  BY PoolInit
<1>2. PoolInv /\ [Next]_vars => [Pool!Next]_(Pool!vars)
  BY PoolStep
<1>. QED
  BY <1>1, <1>2, PoolInvariance, PTL DEF Spec, Pool!Spec, ImplementsPool
=============================================================================
