-------------------------- MODULE PagePartsProofs --------------------------
(***************************************************************************)
(* Proofs about two parts of the hub page that share no state with the rest    *)
(* of it.  Evaluation: what stop() has released stays released, and the stalls *)
(* of a metric are nested, however often the evaluation is started and stopped, *)
(* whatever the gaps between the frames and however many samples are retained. *)
(* Panels: a write that carries a revision overwrites nothing its user has not  *)
(* seen, for any number of edits, writes from elsewhere, requests that fail    *)
(* and reads, in any order.                                                *)
(***************************************************************************)
EXTENDS Evaluation, Panels, FiniteSetTheorems, TLAPS

(***************************************************************************)
(* A metric: counters, and a finite set of frames that wait for their latency. *)
(***************************************************************************)
MetricType ==
    [frames : Nat, micro : Nat, perceptible : Nat, severe : Nat, stalled : Nat,
     pending : SUBSET Nat, latencies : Nat]

Measured ==
    /\ metric \in MetricType
    /\ IsFiniteSet(metric.pending)
    /\ StallsNest

(***************************************************************************)
(* What the calls under way know.  A session is the last one made, and belongs *)
(* to an evaluation that runs; while none runs, nothing is connected, connects *)
(* or is polled, and the start button may be pressed only then.  The start()   *)
(* that is the last call is the only one, and finds nothing of an evaluation    *)
(* before it; a stop() that is the last call finds none running.               *)
(***************************************************************************)
Runner ==
    [kind : {"mse", "webrtc"}, session : Nat, stage : {"opening", "offer", "posted"},
     active : BOOLEAN]
StopCall == [session : Nat, current : BOOLEAN, stage : {"runners", "finish"}]

Records ==
    /\ runners \subseteq Runner /\ stops \subseteq StopCall
    /\ \A p \in prepares : p \in [n : {p.n}, current : BOOLEAN]

LastSession == made \in Nat /\ session \in {0, made} /\ (session # 0 => running)
Connected   == \A f \in feeds : running /\ f.session = session
Connecting  == \A r \in runners : r.active => running /\ session # 0 /\ r.session = session
Timed       == timer => running /\ session # 0
Anchored    == measured \in {0, made}
Disabled    == running => startOff

Preparing ==
    /\ \A p \in prepares : p.current => running /\ session = 0 /\ feeds = {}
    /\ \A p, q \in prepares : p.current /\ q.current => p = q
Stopping == \A c \in stops : c.current => ~ running

Released ==
    /\ Records /\ LastSession /\ Connected /\ Connecting /\ Timed /\ Anchored /\ Disabled
    /\ Preparing /\ Stopping

-----------------------------------------------------------------------------
(* The metric.                                                              *)

LEMMA CountsBounded ==
    ASSUME NEW gap \in Nat, NEW over \in Nat
    PROVE  /\ Counts(gap, over) \in {0, 1}
           /\ Counts(gap, over) = 1 => metric.frames > 0 /\ gap > over
           /\ \A more \in Nat : more >= over => Counts(gap, more) <= Counts(gap, over)
BY DEF Counts

(* A gap that counts is longer than its limit, so that the time of the stalls   *)
(* grows by at least as much as their number takes of it.                     *)
LEMMA StalledGrows ==
    ASSUME metric \in MetricType, NEW gap \in Nat,
           metric.stalled >= metric.micro * (101 - NominalFrame)
    PROVE  LET stalled == metric.stalled + (gap - NominalFrame) * Counts(gap, 100)
           IN  /\ stalled \in Nat
               /\ stalled >= (metric.micro + Counts(gap, 100)) * (101 - NominalFrame)
<1>1. metric.stalled \in Nat /\ metric.micro \in Nat
  BY DEF MetricType
<1>2. CASE Counts(gap, 100) = 0
  BY <1>1, <1>2 DEF NominalFrame
<1>3. CASE Counts(gap, 100) = 1
  <2>1. gap > 100
    BY <1>3, CountsBounded
  <2>. QED
    BY <1>1, <1>3, <2>1 DEF NominalFrame
<1>. QED
  BY <1>2, <1>3, CountsBounded

(* The samples keep at most one more frame than before.                       *)
LEMMA OneMorePending ==
    ASSUME metric \in MetricType, IsFiniteSet(metric.pending),
           NEW stay \in SUBSET (metric.pending \cup {metric.frames + 1})
    PROVE  /\ stay \in SUBSET Nat
           /\ IsFiniteSet(stay)
           /\ Cardinality(stay) <= Cardinality(metric.pending) + 1
           /\ Cardinality(stay) \in Nat /\ Cardinality(metric.pending) \in Nat
<1>. DEFINE more == metric.pending \cup {metric.frames + 1}
<1>1. metric.pending \in SUBSET Nat /\ metric.frames \in Nat
  BY DEF MetricType
<1>2. IsFiniteSet(more) /\ Cardinality(more) <= Cardinality(metric.pending) + 1
  <2>. DEFINE pending == metric.pending
  <2>1. IsFiniteSet(pending) /\ Cardinality(pending) \in Nat
    BY FS_CardinalityType
  <2>2. /\ IsFiniteSet(pending \cup {metric.frames + 1})
        /\ Cardinality(pending \cup {metric.frames + 1}) =
              IF metric.frames + 1 \in pending THEN Cardinality(pending)
                                              ELSE Cardinality(pending) + 1
    BY <2>1, FS_AddElement
  <2>. QED
    BY <2>1, <2>2
<1>3. IsFiniteSet(stay) /\ Cardinality(stay) <= Cardinality(more)
  BY <1>2, FS_Subset
<1>4. /\ Cardinality(stay) \in Nat /\ Cardinality(more) \in Nat
      /\ Cardinality(metric.pending) \in Nat
  BY <1>2, <1>3, FS_CardinalityType
<1>. QED
  BY <1>1, <1>2, <1>3, <1>4

(* What is processed is no longer pending, and gives at most that many latencies. *)
LEMMA ProcessedOnce ==
    ASSUME NEW pending, IsFiniteSet(pending),
           NEW processed \in SUBSET pending, NEW added \in SUBSET processed
    PROVE  /\ IsFiniteSet(pending \ processed)
           /\ Cardinality(added) \in Nat /\ Cardinality(pending \ processed) \in Nat
           /\ Cardinality(added) + Cardinality(pending \ processed) <= Cardinality(pending)
<1>1. IsFiniteSet(processed) /\ IsFiniteSet(pending \ processed)
  BY FS_Subset
<1>2. IsFiniteSet(added) /\ Cardinality(added) <= Cardinality(processed)
  BY <1>1, FS_Subset
<1>3. Cardinality(pending) = Cardinality(processed) + Cardinality(pending \ processed)
  <2>1. pending \cap processed = processed
    OBVIOUS
  <2>2. Cardinality(pending \ processed) =
          Cardinality(pending) - Cardinality(pending \cap processed)
    BY FS_Difference
  <2>3. Cardinality(pending) \in Nat /\ Cardinality(processed) \in Nat
    BY <1>1, FS_CardinalityType
  <2>. QED
    BY <2>1, <2>2, <2>3
<1>. QED
  BY <1>1, <1>2, <1>3, FS_CardinalityType

LEMMA RecordMeasured ==
    ASSUME Measured, NEW gap \in Gap, Record(gap)
    PROVE  Measured'
<1>. DEFINE stay == {f \in metric.pending \cup {metric.frames + 1} :
                        f + Retained > metric.frames + 1}
<1>1. /\ gap \in Nat /\ metric \in MetricType /\ IsFiniteSet(metric.pending) /\ StallsNest
      /\ stay \in SUBSET (metric.pending \cup {metric.frames + 1})
  BY MetricAssumption DEF Measured
<1>2. /\ metric.frames \in Nat /\ metric.micro \in Nat /\ metric.perceptible \in Nat
      /\ metric.severe \in Nat /\ metric.stalled \in Nat /\ metric.latencies \in Nat
  BY <1>1 DEF MetricType
<1>3. /\ metric'.frames = metric.frames + 1
      /\ metric'.micro = metric.micro + Counts(gap, 100)
      /\ metric'.stalled = metric.stalled + (gap - NominalFrame) * Counts(gap, 100)
      /\ metric'.perceptible = metric.perceptible + Counts(gap, 250)
      /\ metric'.severe = metric.severe + Counts(gap, 500)
      /\ metric'.pending = stay /\ metric'.latencies = metric.latencies
  BY <1>1 DEF Record, MetricType
<1>4. /\ Counts(gap, 100) \in {0, 1} /\ Counts(gap, 250) \in {0, 1}
      /\ Counts(gap, 500) \in {0, 1}
      /\ Counts(gap, 500) <= Counts(gap, 250) /\ Counts(gap, 250) <= Counts(gap, 100)
      /\ Counts(gap, 100) = 1 => metric.frames > 0
  BY <1>1, CountsBounded
<1>5. /\ metric'.stalled \in Nat
      /\ metric'.stalled >= metric'.micro * (101 - NominalFrame)
  BY <1>1, <1>3, StalledGrows DEF StallsNest
<1>6. /\ stay \in SUBSET Nat /\ IsFiniteSet(stay) /\ Cardinality(stay) \in Nat
      /\ Cardinality(metric.pending) \in Nat
      /\ Cardinality(stay) <= Cardinality(metric.pending) + 1
  BY <1>1, OneMorePending
<1>7. metric' \in MetricType
  <2>1. metric' = [frames |-> metric'.frames, micro |-> metric'.micro,
                   perceptible |-> metric'.perceptible, severe |-> metric'.severe,
                   stalled |-> metric'.stalled, pending |-> metric'.pending,
                   latencies |-> metric'.latencies]
    BY <1>1 DEF Record, MetricType
  <2>. HIDE DEF stay
  <2>2. /\ metric'.frames \in Nat /\ metric'.micro \in Nat /\ metric'.perceptible \in Nat
        /\ metric'.severe \in Nat /\ metric'.latencies \in Nat
        /\ metric'.pending \in SUBSET Nat
    BY <1>2, <1>3, <1>4, <1>6
  <2>. QED
    BY <1>5, <2>1, <2>2 DEF MetricType
<1>8. metric'.micro < metric'.frames
  BY <1>1, <1>2, <1>3, <1>4 DEF StallsNest, NoMetric
<1>. QED
  BY <1>1, <1>2, <1>3, <1>4, <1>5, <1>6, <1>7, <1>8 DEF Measured, StallsNest

LEMMA ResolveMeasured ==
    ASSUME Measured, Resolve
    PROVE  Measured'
<1>1. /\ metric \in MetricType /\ IsFiniteSet(metric.pending) /\ StallsNest
  BY DEF Measured
<1>2. PICK processed \in SUBSET metric.pending : \E added \in SUBSET processed :
         metric' = [metric EXCEPT !.pending   = @ \ processed,
                                  !.latencies = @ + Cardinality(added)]
  BY DEF Resolve
<1>3. PICK added \in SUBSET processed :
         metric' = [metric EXCEPT !.pending   = @ \ processed,
                                  !.latencies = @ + Cardinality(added)]
  BY <1>2
<1>4. /\ IsFiniteSet(metric.pending \ processed)
      /\ Cardinality(added) \in Nat /\ Cardinality(metric.pending \ processed) \in Nat
      /\ Cardinality(added) + Cardinality(metric.pending \ processed)
            <= Cardinality(metric.pending)
      /\ Cardinality(metric.pending) \in Nat
  BY <1>1, ProcessedOnce, FS_CardinalityType
<1>5. /\ metric'.frames = metric.frames /\ metric'.micro = metric.micro
      /\ metric'.stalled = metric.stalled /\ metric'.perceptible = metric.perceptible
      /\ metric'.severe = metric.severe
      /\ metric'.pending = metric.pending \ processed
      /\ metric'.latencies = metric.latencies + Cardinality(added)
      /\ metric' \in MetricType
  <2>. DEFINE n == metric.latencies + Cardinality(added)
              rest == metric.pending \ processed
  <2>1. n \in Nat /\ rest \in SUBSET Nat
    BY <1>1, <1>4 DEF MetricType
  <2>2. metric' = [metric EXCEPT !.pending = rest, !.latencies = n]
    BY <1>3
  <2>. HIDE DEF n, rest
  <2>3. /\ metric'.frames = metric.frames /\ metric'.micro = metric.micro
        /\ metric'.stalled = metric.stalled /\ metric'.perceptible = metric.perceptible
        /\ metric'.severe = metric.severe /\ metric'.pending = rest
        /\ metric'.latencies = n /\ metric' \in MetricType
    BY <1>1, <2>1, <2>2 DEF MetricType
  <2>. QED
    BY <2>3 DEF n, rest
<1>6. metric = NoMetric => metric' = NoMetric
  <2>. SUFFICES ASSUME metric = NoMetric PROVE metric' = NoMetric
    OBVIOUS
  <2>1. processed = {} /\ added = {}
    BY DEF NoMetric
  <2>2. Cardinality(added) = 0
    BY <2>1, FS_EmptySet
  <2>. DEFINE n == metric.latencies + Cardinality(added)
              rest == metric.pending \ processed
  <2>3. n = 0 /\ rest = {}
    BY <2>1, <2>2 DEF NoMetric
  <2>4. metric' = [metric EXCEPT !.pending = rest, !.latencies = n]
    BY <1>3
  <2>. HIDE DEF n, rest
  <2>. QED
    BY <2>3, <2>4 DEF NoMetric
<1>7. /\ metric.frames \in Nat /\ metric.latencies \in Nat
  BY <1>1 DEF MetricType
<1>. QED
  BY <1>1, <1>4, <1>5, <1>6, <1>7 DEF Measured, StallsNest

LEMMA NoMetricMeasured == ASSUME metric = NoMetric PROVE Measured
<1>1. NoMetric \in MetricType
  BY DEF NoMetric, MetricType
<1>2. IsFiniteSet(metric.pending) /\ Cardinality(metric.pending) = 0
  BY FS_EmptySet DEF NoMetric
<1>. QED
  BY <1>1, <1>2 DEF Measured, StallsNest, NoMetric, NominalFrame

LEMMA MetricKept == ASSUME Measured, UNCHANGED metric PROVE Measured'
BY DEF Measured, StallsNest

LEMMA MeasuredStep == ASSUME Measured, [Next]_vars PROVE Measured'
<1>1. CASE Start \/ Stop \/ Poll \/ RelaySteps \/ Turn \/ OtherViewer \/ UNCHANGED vars
  <2>1. UNCHANGED metric
    BY <1>1 DEF Start, Stop, Poll, RelaySteps, Turn, OtherViewer, VisibilityChange, vars,
                metricVars
  <2>. QED
    BY <2>1, MetricKept
<1>2. CASE CallsGoOn
  <2>1. ASSUME NEW p \in prepares, Prepared(p) PROVE Measured'
    <3>1. CASE p.current
      <4>1. metric' = NoMetric
        BY <2>1, <3>1 DEF Prepared
      <4>2. (metric = NoMetric => Measured)'
        BY NoMetricMeasured, PTL
      <4>. QED
        BY <4>1, <4>2 DEF NoMetric
    <3>2. CASE ~ p.current
      BY <2>1, <3>2, MetricKept DEF Prepared, metricVars
    <3>. QED
      BY <3>1, <3>2
  <2>2. ASSUME NEW c \in stops, StopGoesOn(c) PROVE Measured'
    BY <2>2, MetricKept DEF StopGoesOn, metricVars
  <2>3. ASSUME NEW s \in polls, PollAnswered(s) PROVE Measured'
    BY <2>3, MetricKept, ResolveMeasured DEF PollAnswered, metricVars
  <2>4. ASSUME NEW s \in polls, PollFails(s) PROVE Measured'
    BY <2>4, MetricKept DEF PollFails, metricVars
  <2>. QED
    BY <1>2, <2>1, <2>2, <2>3, <2>4 DEF CallsGoOn
<1>3. CASE RunnersGoOn
  <2>1. UNCHANGED metric
    BY <1>3 DEF RunnersGoOn, MseOpened, PostOffer, OfferAnswered, RunnerFails, metricVars
  <2>. QED
    BY <2>1, MetricKept
<1>4. CASE Frame
  BY <1>4, RecordMeasured DEF Frame
<1>. QED
  BY <1>1, <1>2, <1>3, <1>4 DEF Next

(* The stalls of a metric nest, lie between two frames and have their time, and *)
(* no frame has two latencies, for all gaps and every number of samples.       *)
THEOREM StallsAreNested == Spec => []StallsNest
<1>1. Init => Measured
  BY NoMetricMeasured DEF Init, MetricInit
<1>2. Measured /\ [Next]_vars => Measured'
  BY MeasuredStep
<1>3. Measured => StallsNest
  BY DEF Measured
<1>. QED
  BY <1>1, <1>2, <1>3, PTL DEF Spec

-----------------------------------------------------------------------------
(* The evaluation.                                                          *)

(* An evaluation that does not run, or whose start() is still under way, has      *)
(* nothing that a new session could meet.                                    *)
LEMMA NothingBefore ==
    ASSUME Released, session = 0 \/ ~ running
    PROVE  /\ session = 0 /\ ~ timer
           /\ \A r \in runners : ~ r.active
BY DEF Released, LastSession, Connecting, Timed

(* A call that is overtaken keeps what it is, and is not the last any more.     *)
LEMMA OvertakenPrepares ==
    ASSUME Records
    PROVE  \A p \in Overtaken(prepares) :
              p \in [n : {p.n}, current : BOOLEAN] /\ p.current = FALSE
<1>1. ASSUME NEW q \in prepares
      PROVE  LET p == [q EXCEPT !.current = FALSE]
             IN  p \in [n : {q.n}, current : BOOLEAN] /\ p.n = q.n /\ p.current = FALSE
  BY DEF Records
<1>. QED
  BY <1>1 DEF Overtaken

LEMMA OvertakenStops ==
    ASSUME Records
    PROVE  \A c \in Overtaken(stops) : c \in StopCall /\ c.current = FALSE
<1>1. ASSUME NEW q \in stops
      PROVE  [q EXCEPT !.current = FALSE] \in StopCall /\ [q EXCEPT !.current = FALSE].current = FALSE
  BY DEF Records, StopCall
<1>. QED
  BY <1>1 DEF Overtaken

LEMMA StartReleased == ASSUME Released, Start PROVE Released'
<1>1. ~ startOff /\ ~ running /\ session = 0 /\ feeds = {} /\ ~ timer
  BY NothingBefore DEF Released, Start, Disabled, Connected
<1>2. /\ running' = TRUE /\ startOff' = TRUE
      /\ prepares' = Overtaken(prepares) \cup {[n |-> left["starts"], current |-> TRUE]}
      /\ stops' = Overtaken(stops)
      /\ UNCHANGED <<session, made, feeds, runners, timer, measured>>
  BY DEF Start, Polls
<1>3. Records'
  <2>. DEFINE p == [n |-> left["starts"], current |-> TRUE]
  <2>1. p \in [n : {p.n}, current : BOOLEAN]
    OBVIOUS
  <2>. HIDE DEF p
  <2>. QED
    BY <1>2, <2>1, OvertakenPrepares, OvertakenStops DEF Released, Records, p
<1>4. Preparing' /\ Stopping'
  BY <1>1, <1>2, OvertakenPrepares, OvertakenStops DEF Released, Preparing, Stopping
<1>5. Connecting' /\ Connected' /\ Timed'
  BY <1>1, <1>2, NothingBefore DEF Connecting, Connected, Timed
<1>. QED
  BY <1>1, <1>2, <1>3, <1>4, <1>5 DEF Released, LastSession, Anchored, Disabled

LEMMA PreparedReleased ==
    ASSUME Released, NEW p \in prepares, Prepared(p)
    PROVE  Released'
<1>1. CASE ~ p.current
  BY <1>1 DEF Prepared, Players, Polls, Released, Records, LastSession, Connected, Connecting,
              Timed, Anchored, Disabled, Preparing, Stopping
<1>2. CASE p.current
  <2>1. running /\ session = 0 /\ feeds = {} /\ (\A r \in runners : ~ r.active)
    BY <1>2, NothingBefore DEF Released, Preparing
  <2>2. /\ made' = made + 1 /\ session' = made' /\ running' = TRUE /\ startOff' = TRUE
        /\ timer' = TRUE /\ measured' = 0 /\ UNCHANGED stops
        /\ prepares' = prepares \ {p}
        /\ runners' = runners \cup
              {[kind |-> "mse", session |-> made', stage |-> "opening", active |-> TRUE],
               [kind |-> "webrtc", session |-> made', stage |-> "offer", active |-> TRUE]}
    BY <1>2 DEF Prepared
  <2>3. \A f \in feeds' : f.session = made'
    BY <1>2 DEF Prepared, FlvRunner, MoqRunner, Feed
  <2>4. made' \in Nat /\ made' # 0
    BY <2>2 DEF Released, LastSession
  <2>5. Records'
    <3>. DEFINE mse == [kind |-> "mse", session |-> made', stage |-> "opening",
                        active |-> TRUE]
                webrtc == [kind |-> "webrtc", session |-> made', stage |-> "offer",
                           active |-> TRUE]
    <3>1. mse \in Runner /\ webrtc \in Runner
      BY <2>4 DEF Runner
    <3>2. runners' = runners \cup {mse, webrtc}
      BY <2>2
    <3>. HIDE DEF mse, webrtc
    <3>. QED
      BY <2>2, <3>1, <3>2 DEF Released, Records
  <2>6. Preparing' /\ Stopping'
    BY <1>2, <2>1, <2>2 DEF Released, Preparing, Stopping
  <2>7. Connecting' /\ Connected'
    BY <2>1, <2>2, <2>3, <2>4 DEF Connecting, Connected
  <2>. QED
    BY <2>2, <2>4, <2>5, <2>6, <2>7
       DEF Released, LastSession, Timed, Anchored, Disabled
<1>. QED
  BY <1>1, <1>2

LEMMA StopReleased == ASSUME Released, Stop PROVE Released'
<1>1. /\ prepares' = Overtaken(prepares) /\ UNCHANGED <<startOff, made, measured>>
  BY DEF Stop, Players, Polls
<1>2. CASE ~ running
  <2>1. /\ stops' = Overtaken(stops)
        /\ UNCHANGED <<running, session, feeds, runners, timer>>
    BY <1>2 DEF Stop, Players, Polls
  <2>2. Records' /\ Preparing' /\ Stopping'
    BY <1>1, <2>1, OvertakenPrepares, OvertakenStops DEF Released, Records, Preparing, Stopping
  <2>. QED
    BY <1>1, <2>1, <2>2
       DEF Released, LastSession, Connected, Connecting, Timed, Anchored, Disabled
<1>3. CASE running
  <2>1. /\ running' = FALSE /\ session' = 0 /\ feeds' = {} /\ timer' = FALSE
        /\ runners' = {[r EXCEPT !.active = FALSE] : r \in runners}
        /\ stops' = Overtaken(stops) \cup
               {[session |-> session, current |-> TRUE,
                 stage |-> IF session = 0 THEN "finish" ELSE "runners"]}
    BY <1>3 DEF Stop
  <2>2. \A r \in runners' : r \in Runner /\ r.active = FALSE
    <3>1. ASSUME NEW q \in runners
          PROVE  /\ [q EXCEPT !.active = FALSE] \in Runner
                 /\ [q EXCEPT !.active = FALSE].active = FALSE
      BY DEF Released, Records, Runner
    <3>. QED
      BY <2>1, <3>1
  <2>3. Records'
    <3>. DEFINE c == [session |-> session, current |-> TRUE,
                      stage |-> IF session = 0 THEN "finish" ELSE "runners"]
    <3>1. session \in Nat
      BY DEF Released, LastSession
    <3>2. c \in StopCall
      BY <3>1 DEF StopCall
    <3>. HIDE DEF c
    <3>. QED
      BY <1>1, <2>1, <2>2, <3>2, OvertakenPrepares, OvertakenStops
         DEF Released, Records, c
  <2>4. Preparing' /\ Stopping' /\ Connecting'
    BY <1>1, <2>1, <2>2, OvertakenPrepares DEF Released, Preparing, Stopping, Connecting
  <2>. QED
    BY <1>1, <2>1, <2>3, <2>4 DEF Released, LastSession, Connected, Timed, Anchored, Disabled
<1>. QED
  BY <1>2, <1>3

LEMMA StopGoesOnReleased ==
    ASSUME Released, NEW c \in stops, StopGoesOn(c)
    PROVE  Released'
<1>1. UNCHANGED <<running, session, made, feeds, runners, prepares, timer, measured>>
  BY DEF StopGoesOn, Players, Polls
<1>2. CASE c.stage = "runners"
  <2>1. stops' = (stops \ {c}) \cup {[c EXCEPT !.stage = "finish"]} /\ UNCHANGED startOff
    BY <1>2 DEF StopGoesOn
  <2>2. /\ [c EXCEPT !.stage = "finish"] \in StopCall
        /\ [c EXCEPT !.stage = "finish"].current = c.current
    BY DEF Released, Records, StopCall
  <2>3. \A e \in stops' : e \in StopCall /\ (e \in stops \/ e.current = c.current)
    BY <2>1, <2>2 DEF Released, Records
  <2>4. Records'
    BY <1>1, <2>3 DEF Released, Records
  <2>5. Stopping'
    BY <1>1, <2>3 DEF Released, Stopping
  <2>. QED
    BY <1>1, <2>1, <2>4, <2>5
       DEF Released, LastSession, Connected, Connecting, Timed, Anchored, Disabled, Preparing
<1>3. CASE c.stage = "finish"
  <2>1. stops' = stops \ {c} /\ startOff' = IF c.current THEN FALSE ELSE startOff
    BY <1>3 DEF StopGoesOn
  <2>2. Disabled'
    BY <1>1, <2>1 DEF Released, Disabled, Stopping
  <2>. QED
    BY <1>1, <2>1, <2>2
       DEF Released, Records, LastSession, Connected, Connecting, Timed, Anchored, Preparing,
           Stopping
<1>. QED
  BY <1>2, <1>3 DEF StopGoesOn

LEMMA PollsReleased ==
    ASSUME Released,
           Poll \/ \E s \in polls : PollAnswered(s) \/ PollFails(s)
    PROVE  Released'
<1>1. /\ UNCHANGED <<running, session, made, feeds, runners, prepares, stops, timer, startOff>>
      /\ measured' = measured \/ measured' = session
  BY DEF Poll, PollAnswered, PollFails, OfSession, Players
<1>. QED
  BY <1>1 DEF Released, Records, LastSession, Connected, Connecting, Timed, Anchored, Disabled,
              Preparing, Stopping

(* A runner only connects when it was not stopped.                            *)
LEMMA RunnersReleased ==
    ASSUME Released, NEW r \in runners,
           MseOpened(r) \/ PostOffer(r) \/ OfferAnswered(r) \/ RunnerFails(r)
    PROVE  Released'
<1>1. UNCHANGED <<running, session, made, prepares, stops, timer, measured, startOff>>
  BY DEF MseOpened, PostOffer, OfferAnswered, RunnerFails, Polls
<1>2. feeds' = feeds \/ (r.active /\ feeds' = feeds \cup {Feed("mse", r.session)})
  BY DEF MseOpened, PostOffer, OfferAnswered, RunnerFails
<1>3. runners' = runners \ {r} \/ runners' = (runners \ {r}) \cup {[r EXCEPT !.stage = "posted"]}
  BY DEF MseOpened, PostOffer, OfferAnswered, RunnerFails, Ends, Further
<1>. DEFINE posted == [r EXCEPT !.stage = "posted"]
<1>4. posted \in Runner /\ posted.active = r.active /\ posted.session = r.session
  BY DEF Released, Records, Runner
<1>. HIDE DEF posted
<1>5. Records'
  BY <1>1, <1>3, <1>4 DEF Released, Records, posted
<1>6. Connecting'
  BY <1>1, <1>3, <1>4 DEF Released, Connecting, posted
<1>7. Connected'
  BY <1>1, <1>2 DEF Released, Connected, Connecting, Feed
<1>8. Preparing'
  BY <1>1, <1>2 DEF Released, Preparing, Connecting
<1>. QED
  BY <1>1, <1>5, <1>6, <1>7, <1>8 DEF Released, LastSession, Timed, Anchored, Disabled, Stopping

LEMMA ReleasedKept == ASSUME Released, UNCHANGED evalVars PROVE Released'
BY DEF evalVars, Released, Records, LastSession, Connected, Connecting, Timed, Anchored, Disabled,
       Preparing, Stopping

LEMMA ReleasedStep == ASSUME Released, [Next]_vars PROVE Released'
<1>1. CASE Start
  BY <1>1, StartReleased
<1>2. CASE Stop
  BY <1>2, StopReleased
<1>3. CASE CallsGoOn
  BY <1>3, PreparedReleased, StopGoesOnReleased, PollsReleased DEF CallsGoOn
<1>4. CASE RunnersGoOn
  BY <1>4, RunnersReleased DEF RunnersGoOn
<1>5. CASE Poll
  BY <1>5, PollsReleased
<1>6. CASE RelaySteps \/ Frame \/ Turn \/ OtherViewer \/ UNCHANGED vars
  BY <1>6, ReleasedKept DEF RelaySteps, Frame, Turn, OtherViewer, vars
<1>. QED
  BY <1>1, <1>2, <1>3, <1>4, <1>5, <1>6 DEF Next

(* Nothing is connected, no timer runs and no answer is used but for the session *)
(* that is evaluated, however often the evaluation is started and stopped and in *)
(* whatever order its calls go on.                                           *)
THEOREM StoppedIsReleased == Spec => []ReleasedTogether
<1>1. Init => Released
  BY DEF Init, Released, Records, LastSession, Connected, Connecting, Timed, Anchored, Disabled,
         Preparing, Stopping
<1>2. Released /\ [Next]_vars => Released'
  BY ReleasedStep
<1>3. Released => ReleasedTogether
  BY DEF Released, Connected, Timed, Anchored, ReleasedTogether
<1>. QED
  BY <1>1, <1>2, <1>3, PTL DEF Spec

-----------------------------------------------------------------------------
(***************************************************************************)
(* Panels.                                                                 *)
(***************************************************************************)
ReadType  == [stage : {"idle", "asked", "answered"}, rev : Nat]
WriteType == [stage : {"none", "sent", "accepted", "refused", "reload"},
              base : Nat, shown : Nat, unseen : BOOLEAN, edits : BOOLEAN, rev : Nat]
TaskType  == [stage : {"none", "other", "profile", "enrolled"}, rev : Nat, free : BOOLEAN]

LEMMA TasksAre ==
    /\ NoTask \in TaskType /\ NoTask.stage = "none" /\ NoTask.rev = 0
    /\ Other \in TaskType /\ Other.stage = "other" /\ Other.rev = 0
BY DEF NoTask, Other, TaskType

LEMMA ReadsAre ==
    /\ Idle \in ReadType /\ Idle.stage = "idle" /\ Idle.rev = 0
    /\ Asked \in ReadType /\ Asked.stage = "asked" /\ Asked.rev = 0
    /\ \A rev \in Nat : /\ With(rev) \in ReadType /\ With(rev).stage = "answered"
                        /\ With(rev).rev = rev
BY DEF Idle, Asked, With, ReadType

LEMMA WritesAre ==
    /\ NoWrite \in WriteType /\ NoWrite.stage = "none" /\ NoWrite.base = 0 /\ NoWrite.rev = 0
    /\ \A w \in WriteType : \A stage \in {"accepted", "refused"}, rev \in Nat :
          /\ [w EXCEPT !.stage = stage, !.rev = rev] \in WriteType
          /\ [w EXCEPT !.stage = stage] \in WriteType
    /\ [NoWrite EXCEPT !.stage = "reload"] \in WriteType
BY DEF NoWrite, WriteType

LEMMA Spent == ASSUME PanelTypeOK, NEW b \in Bound, Spend(b) PROVE left' \in [Bound -> Nat]
BY DEF Spend, PanelTypeOK

(* A load takes a request that is free; but for the television it also waits for *)
(* the flag and sets it.                                                    *)
LEMMA LoadBegins ==
    ASSUME PanelTypeOK, Load
    PROVE  /\ \E i \in Request : reads[i] = Idle /\ reads' = [reads EXCEPT ![i] = Asked]
           /\ reads' \in [Request -> ReadType] /\ busy' \in BOOLEAN
           /\ panel # "tv" => busy = FALSE /\ busy' = TRUE
<1>1. Send
  BY DEF Load, RefreshAll, LoadVoice, LoadQq, LoadDdns, LoadTv, LoadHttpProxy, Begin
<1>2. PICK i \in Request : reads[i] = Idle /\ reads' = [reads EXCEPT ![i] = Asked]
  BY <1>1 DEF Send, Free
<1>3. reads' \in [Request -> ReadType]
  BY <1>2, ReadsAre DEF PanelTypeOK, ReadType
<1>. QED
  BY <1>2, <1>3
  DEF Load, RefreshAll, LoadVoice, LoadQq, LoadDdns, LoadTv, LoadHttpProxy, Begin, PanelTypeOK

LEMMA FillTyped ==
    ASSUME PanelTypeOK, NEW rev \in Nat, Render(rev)
    PROVE  {form, base}' \subseteq Nat /\ {edited, kept, unseen}' \subseteq BOOLEAN
BY DEF Render, RenderSettings, RenderVoice, RenderVoiceStudio, RenderQq, RenderDdns, RenderTv,
       RenderHttpProxy, Fill, PanelTypeOK

(* What the other operations do with the flag and the requests, at their end or    *)
(* their beginning.                                                         *)
Requests ==
    \/ UNCHANGED <<busy, reads>>
    \/ Load
    \/ panel = "tv" /\ TvLoads
    \/ panel \in {"tv", "proxy"} /\ busy' \in BOOLEAN /\ UNCHANGED reads

LEMMA RequestsTyped == ASSUME PanelTypeOK, Requests PROVE reads' \in [Request -> ReadType] /\ busy' \in BOOLEAN
<1>1. CASE TvLoads /\ Send
  <2>1. PICK i \in Request : reads' = [reads EXCEPT ![i] = Asked]
    BY <1>1 DEF Send, Free
  <2>. QED
    BY <1>1, <2>1, ReadsAre DEF TvLoads, PanelTypeOK, ReadType
<1>2. CASE UNCHANGED reads /\ busy' \in BOOLEAN
  BY <1>2 DEF PanelTypeOK, ReadType
<1>3. UNCHANGED busy => busy' \in BOOLEAN
  BY DEF PanelTypeOK
<1>. QED
  BY <1>1, <1>2, <1>3, LoadBegins DEF Requests, TvLoads

(* The operations that leave the form and the write as they are.               *)
Aside ==
    \/ PollPanel \/ ActivateView \/ Edit \/ Reload \/ Operate \/ Operated
    \/ ChangeProfile \/ ProfileFails

LEMMA AsideRequests ==
    ASSUME PanelTypeOK, Aside
    PROVE  /\ Requests /\ {open, dirty, edited}' \subseteq BOOLEAN /\ task' \in TaskType
           /\ task'.rev <= hub \/ task' = task
           /\ UNCHANGED <<panel, hub, foreign, form, base, kept, unseen, write>>
<1>1. UNCHANGED <<panel, hub, foreign, form, base, kept, unseen, write>>
  BY DEF Aside, PollPanel, ActivateView, Edit, Reload, Operate, Operated, ChangeProfile, ProfileFails,
         Same, Form
<1>2. {open, dirty, edited}' \subseteq BOOLEAN
  BY DEF Aside, PollPanel, ActivateView, Edit, Reload, Operate, Operated, ChangeProfile, ProfileFails,
         Form, ReloadSettings, ReloadVoice, ReloadQq, ReloadDdns, ReloadTv, ReloadHttpProxy,
         PanelTypeOK
<1>3. task' \in TaskType /\ (task'.rev = 0 \/ task' = task)
  <2>1. CASE ChangeProfile
    BY <2>1 DEF ChangeProfile, TaskType
  <2>2. CASE UNCHANGED task
    BY <2>2 DEF PanelTypeOK, TaskType
  <2>3. CASE task' \in {NoTask, Other}
    BY <2>3, TasksAre
  <2>. QED
    BY <2>1, <2>2, <2>3 DEF Aside, PollPanel, ActivateView, Edit, Reload, Operate, Operated, ProfileFails
<1>4. Requests
  BY DEF Aside, PollPanel, ActivateView, Edit, Reload, Operate, Operated, ChangeProfile, ProfileFails,
         LoadUnlessBusy, Requests, TestVoiceCommand, SendQqTest, RotateQqPushToken,
         ControlDdnsComponent, SetDdnsAutostart, ReconcileDdns, TvAction, RotateHttpProxyToken,
         TestHttpProxy
<1>5. hub \in Nat
  BY DEF PanelTypeOK
<1>. QED
  BY <1>1, <1>2, <1>3, <1>4, <1>5

LEMMA LeftTyped == ASSUME PanelTypeOK, [PanelNext]_panelVars PROVE left' \in [Bound -> Nat]
<1>1. UNCHANGED left \/ \E b \in Bound : Spend(b)
  BY PanelsAssumption
     DEF PanelNext, Page, PollPanel, ReadAnswered, WriteAnswered, Operated, WriteFails, ActivateView, Edit, Reload,
         Save, SaveSettings, SaveVoice, SaveVoiceStudioSettings, SaveQqConfig, SaveDdnsConfig,
         SubmitTv, SaveHttpProxy, Put, HubWrites, HubChanges, Operate, HubReads, ReadFails,
         ChangeProfile, HubEnrolls, ProfileAnswered, ProfileFails, panelVars
<1>. QED
  BY <1>1, Spent DEF PanelTypeOK

(* The end of a write: the form shows what was written, or not.                *)
LEMMA SavedTyped ==
    ASSUME PanelTypeOK, WriteAnswered
    PROVE  /\ Requests /\ write' \in WriteType
           /\ {form, base}' \subseteq Nat /\ {dirty, edited, kept, unseen}' \subseteq BOOLEAN
<1>a. write.rev \in Nat /\ write.unseen \in BOOLEAN /\ {form, base} \subseteq Nat
        /\ {dirty, edited, kept, unseen} \subseteq BOOLEAN
  BY DEF PanelTypeOK
<1>1. {form, base}' \subseteq Nat /\ {dirty, edited, kept, unseen}' \subseteq BOOLEAN
  BY <1>a DEF WriteAnswered, SettingsSaved, VoiceSaved, StudioSaved, QqSaved, DdnsSaved, TvSaved,
         ProxySaved, Saved, Shown, Adopts, AsBefore
<1>2. Requests /\ write' \in {NoWrite, [NoWrite EXCEPT !.stage = "reload"]}
  BY DEF WriteAnswered, SettingsSaved, VoiceSaved, StudioSaved, QqSaved, DdnsSaved, TvSaved,
         ProxySaved, ThenLoad, Requests
<1>. QED
  BY <1>1, <1>2, WritesAre

LEMMA PutTyped ==
    ASSUME PanelTypeOK, Put
    PROVE  write' \in WriteType /\ edited' = FALSE /\ kept' = TRUE
BY DEF Put, PanelTypeOK, WriteType

LEMMA TypedStep == ASSUME PanelTypeOK, [PanelNext]_panelVars PROVE PanelTypeOK'
<1>a. left' \in [Bound -> Nat]
  BY LeftTyped
<1>1. CASE Aside
  BY <1>a, <1>1, AsideRequests, RequestsTyped DEF PanelTypeOK, ReadType, TaskType
<1>2. ASSUME NEW i \in Request, HubReads(i) PROVE PanelTypeOK'
  <2>1. reads' = [reads EXCEPT ![i] = With(hub)]
          /\ UNCHANGED <<panel, hub, foreign, open, form, base, dirty, edited, kept, unseen, busy,
                         write, task>>
    BY <1>2 DEF HubReads, Same, Form
  <2>2. reads' \in [Request -> ReadType]
    BY <2>1, ReadsAre DEF PanelTypeOK, ReadType
  <2>. QED
    BY <1>a, <2>1, <2>2 DEF PanelTypeOK, ReadType
<1>3. ASSUME NEW i \in Request, ReadAnswered(i) \/ ReadFails(i) PROVE PanelTypeOK'
  <2>1. reads' = [reads EXCEPT ![i] = Idle]
          /\ UNCHANGED <<panel, hub, foreign, open, dirty, task>>
    BY <1>3 DEF ReadAnswered, ReadFails, Same, Form
  <2>2. reads' \in [Request -> ReadType]
    BY <2>1, ReadsAre DEF PanelTypeOK, ReadType
  <2>3. busy' \in BOOLEAN
    BY <1>3 DEF ReadAnswered, ReadFails, Finally, PanelTypeOK
  <2>4. write' \in WriteType
    BY <1>3, WritesAre DEF ReadAnswered, ReadFails, Over, PanelTypeOK, WriteType
  <2>5. {form, base}' \subseteq Nat /\ {edited, kept, unseen}' \subseteq BOOLEAN
    <3>1. reads[i].rev \in Nat
      BY DEF PanelTypeOK
    <3>. QED
      BY <1>3, <3>1, FillTyped DEF ReadAnswered, ReadFails, Form, PanelTypeOK
  <2>. QED
    BY <1>a, <2>1, <2>2, <2>3, <2>4, <2>5 DEF PanelTypeOK, ReadType, WriteType
<1>4. CASE Save
  <2>1. Put /\ busy' \in BOOLEAN
          /\ UNCHANGED <<panel, hub, foreign, open, form, base, unseen, dirty, reads, task>>
    BY <1>4 DEF Save, SaveSettings, SaveVoice, SaveVoiceStudioSettings, SaveQqConfig,
                SaveDdnsConfig, SubmitTv, SaveHttpProxy, Same, PanelTypeOK
  <2>. QED
    BY <1>a, <2>1, PutTyped DEF PanelTypeOK, WriteType
<1>5. CASE HubWrites
  <2>1. UNCHANGED <<panel, foreign, open, form, base, dirty, edited, kept, unseen, busy, reads, task>>
    BY <1>5 DEF HubWrites, Form
  <2>2. hub' \in Nat /\ write \in WriteType
    BY <1>5 DEF HubWrites, PanelTypeOK, WriteType
  <2>3. write' \in WriteType
    BY <1>5, <2>2, WritesAre DEF HubWrites
  <2>. QED
    BY <1>a, <2>1, <2>2, <2>3 DEF PanelTypeOK, WriteType
<1>6. CASE HubChanges
  BY <1>a, <1>6 DEF HubChanges, Form, PanelTypeOK
<1>7. CASE WriteAnswered
  <2>1. UNCHANGED <<panel, hub, foreign, open, task>>
    BY <1>7 DEF WriteAnswered, Same
  <2>. QED
    BY <1>a, <1>7, <2>1, SavedTyped, RequestsTyped DEF PanelTypeOK, ReadType, WriteType
<1>8. CASE WriteFails
  <2>1. UNCHANGED <<panel, hub, foreign, open, form, kept, base, unseen, dirty, task>>
          /\ Requests /\ write' = NoWrite /\ edited' \in BOOLEAN
    BY <1>8 DEF WriteFails, Same, Requests, PanelTypeOK
  <2>. QED
    BY <1>a, <2>1, RequestsTyped, WritesAre DEF PanelTypeOK, ReadType, WriteType
<1>9. CASE UNCHANGED panelVars
  BY <1>9 DEF panelVars, PanelTypeOK
<1>10. CASE HubEnrolls
  <2>1. /\ UNCHANGED <<panel, foreign, open, form, base, dirty, edited, kept, unseen, busy, reads, write>>
        /\ hub' \in Nat /\ task \in TaskType /\ task' = [task EXCEPT !.stage = "enrolled", !.rev = hub']
    BY <1>10 DEF HubEnrolls, Form, PanelTypeOK, TaskType
  <2>2. task' \in TaskType
    BY <2>1 DEF TaskType
  <2>. QED
    BY <1>a, <2>1, <2>2 DEF PanelTypeOK, TaskType
<1>11. CASE ProfileAnswered
  <2>1. /\ UNCHANGED <<panel, hub, foreign, open, form, edited, kept, write>> /\ task' = NoTask
        /\ dirty' = FALSE /\ base' = task.rev /\ unseen' = TRUE /\ Requests
    BY <1>11 DEF ProfileAnswered, LoadUnlessBusy, Adopts, Same, Requests
  <2>. QED
    BY <1>a, <2>1, RequestsTyped, TasksAre DEF PanelTypeOK, ReadType, TaskType
<1>. QED
  BY <1>1, <1>2, <1>3, <1>4, <1>5, <1>6, <1>7, <1>8, <1>9, <1>10, <1>11 DEF PanelNext, Page, Aside

LEMMA InitTyped == ASSUME PanelInit PROVE PanelTypeOK
<1>1. reads \in [Request -> ReadType] /\ write \in WriteType /\ left \in [Bound -> Nat]
  BY ReadsAre, WritesAre, BudgetAssumption DEF PanelInit
<1>2. /\ panel \in Panel /\ hub \in Nat /\ form \in Nat /\ base \in Nat /\ foreign \in Nat
        /\ open \in BOOLEAN /\ dirty \in BOOLEAN /\ edited \in BOOLEAN /\ kept \in BOOLEAN
        /\ busy \in BOOLEAN /\ unseen \in BOOLEAN /\ task \in TaskType
  BY TasksAre DEF PanelInit
<1>. QED
  BY <1>1, <1>2 DEF PanelTypeOK, ReadType, WriteType, TaskType

(* The state of a panel always has its shape.                                *)
THEOREM PanelTypeCorrect == PanelSpec => []PanelTypeOK
<1>1. PanelInit => PanelTypeOK
  BY InitTyped
<1>2. PanelTypeOK /\ [PanelNext]_panelVars => PanelTypeOK'
  BY TypedStep
<1>. QED
  BY <1>1, <1>2, PTL DEF PanelSpec

-----------------------------------------------------------------------------
(***************************************************************************)
(* Two panels write with a revision.  They have one read under way at most,     *)
(* which sets the flag.  When the revision that is sent, or would be sent, is     *)
(* that of the hub, then the user has seen what was written elsewhere: the form  *)
(* was filled after it, and so it will be by the answer of the read.  Of a        *)
(* revision that goes back to the answer of a profile operation this is not said. *)
(***************************************************************************)
Compared == panel \in {"voice", "ddns"}

OneRead ==
    \A i \in Request : reads[i] # Idle =>
        busy /\ \A j \in Request : reads[j] # Idle => j = i

Past ==
    /\ form <= hub /\ base <= hub /\ foreign <= hub
    /\ write.base <= hub /\ write.rev <= hub /\ task.rev <= hub
    /\ \A i \in Request : reads[i].rev <= hub

Fresh == \A i \in Request : reads[i].stage = "answered" => foreign <= reads[i].rev

Sees ==
    /\ base = hub /\ ~ unseen => foreign <= form /\ Fresh
    /\ write.stage = "sent" /\ write.base = hub /\ ~ write.unseen =>
          foreign <= write.shown /\ Fresh /\ (~ kept => foreign <= form)
    /\ panel = "voice" /\ write.stage = "accepted" /\ write.rev = hub /\ ~ write.unseen =>
          Fresh /\ (~ kept => foreign <= form)
    /\ panel # "voice" /\ kept /\ write.stage \in {"sent", "accepted"} => base = write.base
    /\ panel # "voice" => ~ unseen /\ task.stage \in {"none", "other"}
    /\ write.stage = "accepted" => write.base < write.rev

Seeing == PanelTypeOK /\ (Compared => OneRead /\ Past /\ Sees)

(* A read that begins, or none, does not matter.                              *)
LEMMA BeginSees ==
    ASSUME Seeing, Compared, UNCHANGED <<hub, foreign>>, UNCHANGED <<busy, reads>> \/ Load
    PROVE  OneRead' /\ (Fresh => Fresh') /\ \A i \in Request : reads'[i].rev <= hub
<1>1. CASE UNCHANGED <<busy, reads>>
  BY <1>1 DEF Seeing, OneRead, Fresh, Past
<1>2. CASE Load
  <2>1. PICK i \in Request : reads[i] = Idle /\ reads' = [reads EXCEPT ![i] = Asked]
    BY <1>2, LoadBegins DEF Seeing
  <2>2. busy = FALSE /\ busy' = TRUE
    BY <1>2, LoadBegins DEF Seeing, Compared
  <2>3. reads'[i] = Asked /\ \A j \in Request : j # i => reads'[j] = Idle
    BY <2>1, <2>2 DEF Seeing, OneRead, PanelTypeOK
  <2>4. hub \in Nat
    BY DEF Seeing, PanelTypeOK
  <2>. QED
    BY <2>2, <2>3, <2>4, ReadsAre DEF OneRead, Fresh
<1>. QED
  BY <1>1, <1>2

LEMMA AsideSees == ASSUME Seeing, PanelTypeOK', Aside PROVE Seeing'
<1>. SUFFICES ASSUME Compared PROVE (OneRead /\ Past /\ Sees)'
  BY AsideRequests DEF Seeing, Compared
<1>1. /\ UNCHANGED <<panel, hub, foreign, form, base, kept, unseen, write>> /\ Requests
      /\ task'.rev <= hub \/ task' = task
  BY AsideRequests DEF Seeing
<1>2. OneRead' /\ (Fresh => Fresh') /\ \A i \in Request : reads'[i].rev <= hub
  BY <1>1, BeginSees DEF Requests, Compared
<1>3. panel # "voice" /\ task.stage \in {"none", "other"} => task'.stage \in {"none", "other"}
  BY TasksAre DEF Aside, PollPanel, ActivateView, Edit, Reload, Operate, Operated, ChangeProfile, ProfileFails
<1>4. Past'
  BY <1>1, <1>2 DEF Seeing, Past
<1>5. Sees'
  BY <1>1, <1>2, <1>3 DEF Seeing, Sees
<1>. QED
  BY <1>2, <1>4, <1>5

LEMMA ReadSees == ASSUME Seeing, PanelTypeOK', NEW i \in Request, HubReads(i) PROVE Seeing'
<1>. SUFFICES ASSUME Compared PROVE (OneRead /\ Past /\ Sees)'
  BY DEF HubReads, Same, Seeing, Compared
<1>1. /\ reads[i] = Asked /\ reads' = [reads EXCEPT ![i] = With(hub)]
      /\ UNCHANGED <<panel, hub, foreign, form, base, kept, unseen, write, busy, task>>
  BY DEF HubReads, Same, Form
<1>2. reads[i] # Idle
  BY <1>1, ReadsAre
<1>3. busy /\ \A j \in Request : j # i => reads[j] = Idle
  BY <1>2 DEF Seeing, OneRead
<1>4. reads'[i] = With(hub) /\ \A j \in Request : j # i => reads'[j] = Idle
  BY <1>1, <1>3 DEF Seeing, PanelTypeOK
<1>5. hub \in Nat /\ foreign <= hub
  BY DEF Seeing, PanelTypeOK, Past
<1>6. OneRead'
  BY <1>1, <1>3, <1>4 DEF OneRead
<1>7. Past' /\ Fresh'
  BY <1>1, <1>4, <1>5, ReadsAre DEF Seeing, Past, Fresh
<1>. QED
  BY <1>1, <1>6, <1>7 DEF Seeing, Sees

(* The answer fills the form, or finds edits in it: in both cases no other read  *)
(* is under way.                                                            *)
LEMMA AnswerSees ==
    ASSUME Seeing, PanelTypeOK', NEW i \in Request, ReadAnswered(i) \/ ReadFails(i)
    PROVE  Seeing'
<1>. SUFFICES ASSUME Compared PROVE (OneRead /\ Past /\ Sees)'
  BY DEF ReadAnswered, ReadFails, Same, Seeing, Compared
<1>1. /\ reads[i] # Idle /\ reads' = [reads EXCEPT ![i] = Idle]
      /\ UNCHANGED <<panel, hub, foreign, task>>
  BY ReadsAre DEF ReadAnswered, ReadFails, Same
<1>2. \A j \in Request : reads'[j] = Idle
  BY <1>1 DEF Seeing, OneRead, PanelTypeOK
<1>3. OneRead' /\ Fresh'
  BY <1>2, ReadsAre DEF OneRead, Fresh
<1>4. write' = write \/ write' = NoWrite
  BY DEF ReadAnswered, ReadFails, Over
<1>a. hub \in Nat /\ \A j \in Request : reads'[j].rev = 0
  BY <1>2, ReadsAre DEF Seeing, PanelTypeOK
<1>b. \/ write'.base = write.base /\ write'.rev = write.rev /\ write'.shown = write.shown
           /\ write'.stage = write.stage /\ write'.unseen = write.unseen
      \/ write'.base = 0 /\ write'.rev = 0 /\ write'.stage = "none"
  BY <1>4, WritesAre
<1>5. CASE UNCHANGED <<form, base, kept, unseen>>
  <2>1. Past'
    BY <1>1, <1>5, <1>a, <1>b DEF Seeing, Past
  <2>2. Sees'
    BY <1>1, <1>3, <1>5, <1>b DEF Seeing, Sees
  <2>. QED
    BY <1>3, <2>1, <2>2
<1>6. ASSUME ReadAnswered(i), form' = reads[i].rev, base' = reads[i].rev, kept' = FALSE,
             unseen' = FALSE
      PROVE  (Past /\ Sees)'
  <2>1. reads[i].rev \in Nat /\ reads[i].rev <= hub /\ reads[i].stage = "answered"
    BY <1>6 DEF Seeing, Past, PanelTypeOK, ReadAnswered
  <2>2. Past'
    BY <1>1, <1>6, <1>a, <1>b, <2>1 DEF Seeing, Past
  <2>3. Sees'
    BY <1>1, <1>3, <1>6, <1>b, <2>1 DEF Seeing, Past, Sees, Fresh
  <2>. QED
    BY <2>2, <2>3
<1>7. \/ UNCHANGED <<form, base, kept, unseen>>
      \/ ReadAnswered(i) /\ form' = reads[i].rev /\ base' = reads[i].rev /\ kept' = FALSE
           /\ unseen' = FALSE
  BY DEF ReadAnswered, ReadFails, Form, Render, RenderSettings, RenderVoice, RenderVoiceStudio, RenderQq,
         RenderDdns, RenderTv, RenderHttpProxy, Fill
<1>. QED
  BY <1>3, <1>5, <1>6, <1>7

LEMMA SaveSees == ASSUME Seeing, PanelTypeOK', Save PROVE Seeing'
<1>1. Put /\ UNCHANGED <<panel, hub, foreign, form, base, unseen, reads, task>>
  BY DEF Save, SaveSettings, SaveVoice, SaveVoiceStudioSettings, SaveQqConfig, SaveDdnsConfig,
         SubmitTv, SaveHttpProxy, Same
<1>. SUFFICES ASSUME Compared PROVE (OneRead /\ Past /\ Sees)'
  BY <1>1 DEF Seeing, Compared
<1>2. UNCHANGED busy
  BY DEF Save, SaveSettings, SaveVoice, SaveVoiceStudioSettings, SaveQqConfig, SaveDdnsConfig,
         SubmitTv, SaveHttpProxy, Compared
<1>3. /\ write'.stage = "sent" /\ write'.base = base /\ write'.shown = form /\ write'.rev = 0
      /\ kept' = TRUE /\ write'.unseen = unseen
  BY <1>1 DEF Put
<1>. QED
  BY <1>1, <1>2, <1>3 DEF Seeing, OneRead, Past, Sees, Fresh, PanelTypeOK

(* The revision of the write is the newest, and what the user has seen is what   *)
(* he had when the hub compared it.                                         *)
LEMMA HubWritesSees == ASSUME Seeing, PanelTypeOK', HubWrites PROVE Seeing'
<1>1. UNCHANGED <<panel, foreign, form, base, kept, unseen, busy, reads, task>>
  BY DEF HubWrites, Form
<1>. SUFFICES ASSUME Compared PROVE (OneRead /\ Past /\ Sees)'
  BY <1>1 DEF Seeing, Compared
<1>2. OneRead'
  BY <1>1 DEF Seeing, OneRead
<1>3. write.base \in Nat /\ write.rev \in Nat /\ hub \in Nat /\ base \in Nat /\ form \in Nat
        /\ foreign \in Nat /\ task.rev \in Nat /\ \A i \in Request : reads[i].rev \in Nat
  BY DEF Seeing, PanelTypeOK
<1>4. CASE UNCHANGED hub /\ write'.stage = "refused" /\ write'.base = write.base
              /\ write'.rev = write.rev /\ write'.unseen = write.unseen
  BY <1>1, <1>2, <1>4 DEF Seeing, Past, Sees, Fresh
<1>5. CASE hub' = hub + 1 /\ write'.stage = "accepted" /\ write'.base = write.base
              /\ write'.rev = hub' /\ write'.unseen = write.unseen /\ Accepts
  <2>1. Past'
    BY <1>1, <1>3, <1>5 DEF Seeing, Past
  <2>2. write.stage = "sent" /\ (panel = "voice" => write.base = hub)
    BY <1>5 DEF HubWrites, Accepts, VoiceAccepts
  <2>3. base' # hub'
    BY <1>1, <1>3, <1>5 DEF Seeing, Past
  <2>. QED
    BY <1>1, <1>2, <1>3, <1>5, <2>1, <2>2, <2>3 DEF Seeing, Past, Sees, Fresh
<1>. QED
  BY <1>4, <1>5 DEF HubWrites, Seeing, PanelTypeOK

LEMMA ChangeSees == ASSUME Seeing, PanelTypeOK', HubChanges \/ HubEnrolls PROVE Seeing'
<1>1. /\ hub' = hub + 1 /\ (foreign' = hub' \/ foreign' = foreign)
      /\ UNCHANGED <<panel, form, base, kept, unseen, busy, reads, write>>
  BY DEF HubChanges, HubEnrolls, Form
<1>a. task' = task \/ task'.rev = hub'
  BY DEF HubChanges, HubEnrolls, PanelTypeOK
<1>. SUFFICES ASSUME Compared PROVE (OneRead /\ Past /\ Sees)'
  BY <1>1 DEF Seeing, Compared
<1>2. write.base \in Nat /\ write.rev \in Nat /\ hub \in Nat /\ base \in Nat /\ form \in Nat
        /\ foreign \in Nat /\ task.rev \in Nat /\ \A i \in Request : reads[i].rev \in Nat
  BY DEF Seeing, PanelTypeOK
<1>3. OneRead'
  BY <1>1 DEF Seeing, OneRead
<1>4. Past'
  BY <1>1, <1>a, <1>2 DEF Seeing, Past
<1>5. base' # hub' /\ write'.base # hub' /\ write'.rev # hub'
  BY <1>1, <1>2 DEF Seeing, Past
<1>6. task' = task \/ task.stage = "profile"
  BY DEF HubChanges, HubEnrolls
<1>7. panel' # "voice" => ~ unseen' /\ task'.stage \in {"none", "other"}
  BY <1>1, <1>6 DEF Seeing, Sees
<1>. QED
  BY <1>1, <1>3, <1>4, <1>5, <1>7 DEF Seeing, Sees

(* The revision of the answer is taken over, as one that was not seen.          *)
LEMMA ProfileSees == ASSUME Seeing, PanelTypeOK', ProfileAnswered PROVE Seeing'
<1>1. /\ UNCHANGED <<panel, hub, foreign, form, kept, write>> /\ base' = task.rev /\ unseen' = TRUE
      /\ task' = NoTask /\ (UNCHANGED <<busy, reads>> \/ Load) /\ task.stage = "enrolled"
  BY DEF ProfileAnswered, LoadUnlessBusy, Adopts, Same
<1>. SUFFICES ASSUME Compared PROVE (OneRead /\ Past /\ Sees)'
  BY <1>1 DEF Seeing, Compared
<1>2. panel = "voice"
  BY <1>1 DEF Seeing, Sees
<1>3. OneRead' /\ (Fresh => Fresh') /\ \A i \in Request : reads'[i].rev <= hub
  BY <1>1, BeginSees
<1>4. Past'
  <2>1. task'.rev = 0 /\ hub \in Nat
    BY <1>1, TasksAre DEF Seeing, PanelTypeOK
  <2>. QED
    BY <1>1, <1>3, <2>1 DEF Seeing, Past
<1>5. Sees'
  BY <1>1, <1>2, <1>3 DEF Seeing, Sees
<1>. QED
  BY <1>3, <1>4, <1>5

(* The write is over.  What the form shows is the write itself, or was filled     *)
(* since.                                                                   *)
LEMMA WriteOverSees ==
    ASSUME Seeing, PanelTypeOK', WriteAnswered \/ WriteFails
    PROVE  Seeing'
<1>1. UNCHANGED <<panel, hub, foreign, task>>
  BY DEF WriteAnswered, WriteFails, Same
<1>. SUFFICES ASSUME Compared PROVE (OneRead /\ Past /\ Sees)'
  BY <1>1 DEF Seeing, Compared
<1>2. write' \in {NoWrite, [NoWrite EXCEPT !.stage = "reload"]}
  BY DEF WriteAnswered, WriteFails, SettingsSaved, VoiceSaved, StudioSaved, QqSaved, DdnsSaved,
         TvSaved, ProxySaved, ThenLoad
<1>3. write'.base = 0 /\ write'.rev = 0 /\ write'.stage \in {"none", "reload"}
  BY <1>2, WritesAre DEF NoWrite
<1>4. UNCHANGED <<busy, reads>> \/ Load
  BY DEF WriteAnswered, WriteFails, SettingsSaved, VoiceSaved, StudioSaved, QqSaved, DdnsSaved,
         TvSaved, ProxySaved, ThenLoad, Compared
<1>5. OneRead' /\ (Fresh => Fresh') /\ \A i \in Request : reads'[i].rev <= hub
  BY <1>1, <1>4, BeginSees
<1>6. CASE UNCHANGED <<form, base, kept, unseen>>
  BY <1>1, <1>3, <1>5, <1>6 DEF Seeing, Past, Sees, PanelTypeOK
<1>7. CASE WriteAnswered
  <2>1. /\ write.stage = "accepted" /\ form' = (IF kept THEN write.rev ELSE form)
        /\ IF panel = "voice" THEN base' = write.rev /\ unseen' = write.unseen
                              ELSE UNCHANGED <<base, unseen>>
    BY <1>7 DEF WriteAnswered, SettingsSaved, VoiceSaved, StudioSaved, QqSaved, DdnsSaved, TvSaved,
                ProxySaved, Saved, Adopts, AsBefore, Compared
  <2>2. write.base \in Nat /\ write.rev \in Nat /\ hub \in Nat /\ base \in Nat /\ form \in Nat
          /\ foreign \in Nat
    BY DEF Seeing, PanelTypeOK
  <2>3. Past'
    BY <1>1, <1>3, <1>5, <2>1, <2>2 DEF Seeing, Past
  <2>4. ASSUME base' = hub', ~ unseen' PROVE foreign' <= form' /\ Fresh'
    <3>1. CASE panel = "voice"
      BY <1>1, <1>5, <2>1, <2>2, <2>4, <3>1 DEF Seeing, Past, Sees
    <3>2. CASE panel # "voice"
      <4>1. ~ kept
        BY <1>1, <2>1, <2>2, <2>4, <3>2 DEF Seeing, Past, Sees
      <4>. QED
        BY <1>1, <1>5, <2>1, <2>4, <3>2, <4>1 DEF Seeing, Sees
    <3>. QED
      BY <3>1, <3>2
  <2>5. panel' # "voice" => ~ unseen' /\ task'.stage \in {"none", "other"}
    BY <1>1, <2>1 DEF Seeing, Sees
  <2>. QED
    BY <1>3, <1>5, <2>3, <2>4, <2>5 DEF Sees
<1>. QED
  BY <1>6, <1>7 DEF WriteFails

LEMMA SeeingStep == ASSUME Seeing, [PanelNext]_panelVars PROVE Seeing'
<1>1. PanelTypeOK'
  BY TypedStep DEF Seeing
<1>2. CASE UNCHANGED panelVars
  BY <1>1, <1>2 DEF panelVars, Seeing, Compared, OneRead, Past, Sees, Fresh
<1>. QED
  BY <1>1, <1>2, AsideSees, ReadSees, AnswerSees, SaveSees, HubWritesSees, ChangeSees,
     ProfileSees, WriteOverSees
  DEF PanelNext, Page, Aside

(* What another session wrote after the form was filled is not overwritten by     *)
(* a write that carries a revision the form was filled with, through every order   *)
(* of polls, reloads, edits, writes, profile operations and failures.  A revision  *)
(* that goes back to a profile operation is excepted: there it is.            *)
THEOREM NothingIsOverwritten == PanelSpec => NoLostUpdate
<1>1. PanelInit => Seeing
  <2>. SUFFICES ASSUME PanelInit PROVE OneRead /\ Past /\ Sees
    BY InitTyped DEF Seeing
  <2>1. \A i \in Request : reads[i] = Idle
    BY DEF PanelInit
  <2>2. write.base = 0 /\ write.rev = 0 /\ write.stage = "none"
    BY WritesAre DEF PanelInit
  <2>3. form = 0 /\ base = 0 /\ foreign = 0 /\ hub = 1 /\ ~ unseen
        /\ task.stage = "none" /\ task.rev = 0
    BY TasksAre DEF PanelInit
  <2>. QED
    BY <2>1, <2>2, <2>3, ReadsAre DEF OneRead, Past, Sees
<1>2. Seeing /\ [PanelNext]_panelVars => Seeing'
  BY SeeingStep
<1>3. Seeing /\ [PanelNext]_panelVars =>
        [HubWrites /\ write'.stage = "accepted" /\ panel \in {"voice", "ddns"} /\ write.base # 0
           => foreign <= write.shown \/ write.unseen]_panelVars
  <2>. SUFFICES ASSUME Seeing, HubWrites, write'.stage = "accepted", Compared, write.base # 0,
                       ~ write.unseen
                PROVE  foreign <= write.shown
    BY DEF Compared
  <2>1. Accepts /\ write.stage = "sent"
    BY DEF HubWrites, Seeing, PanelTypeOK
  <2>2. write.base = hub
    BY <2>1 DEF Accepts, VoiceAccepts, DdnsAccepts, Compared
  <2>. QED
    BY <2>1, <2>2 DEF Seeing, Sees
<1>. QED
  BY <1>1, <1>2, <1>3, PTL DEF PanelSpec, NoLostUpdate
=============================================================================
