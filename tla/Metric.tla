------------------------------- MODULE Metric -------------------------------
(***************************************************************************)
(* What the evaluation of the protocols measures of one of them               *)
(* (web-src/evaluation.ts, class Metric): the frames that were rendered, the   *)
(* stalls between them in three degrees, and the latency of the frames whose   *)
(* moment of capture is known.                                              *)
(*                                                                         *)
(* Times are milliseconds.  A gap is the time between two rendered frames; it  *)
(* is not counted when the page was hidden or shown in between.               *)
(***************************************************************************)
EXTENDS Naturals, FiniteSets

CONSTANTS
    Gap,       \* the gaps between two frames
    Retained   \* how many samples are retained

ASSUME MetricAssumption == Gap \subseteq Nat /\ Retained \in Nat \ {0}

VARIABLES
    metric,    \* the counters of the metric
    turned     \* visibilityEpoch has changed since the last frame

metricVars == <<metric, turned>>

NominalFrame == 33

NoMetric == [frames |-> 0, micro |-> 0, perceptible |-> 0, severe |-> 0, stalled |-> 0,
             pending |-> {}, latencies |-> 0]

MetricInit == metric = NoMetric /\ turned = FALSE

(* Mutation: the page that was hidden is not looked at, nor the first frame.   *)
Counts_Always(gap, over) == IF gap > over THEN 1 ELSE 0

(* A gap over a limit counts, unless it is that of the first frame or the page  *)
(* was hidden meanwhile.                                                     *)
Counts(gap, over) == IF metric.frames > 0 /\ ~ turned /\ gap > over THEN 1 ELSE 0

(* record() of a frame that is newer than the last.  The samples are the last     *)
(* frames, by their numbers; those that are not processed yet are pending.      *)
Record(gap) ==
    /\ metric' = [metric EXCEPT
           !.frames      = @ + 1,
           !.micro       = @ + Counts(gap, 100),
           !.stalled     = @ + (gap - NominalFrame) * Counts(gap, 100),
           !.perceptible = @ + Counts(gap, 250),
           !.severe      = @ + Counts(gap, 500),
           !.pending     = {f \in @ \cup {metric.frames + 1} : f + Retained > metric.frames + 1}]
    /\ turned' = FALSE

VisibilityChange == turned' = TRUE /\ UNCHANGED metric

(* resolve(): a sample whose moment of capture can be told is processed, and     *)
(* its latency is added unless it is out of range.                           *)
Resolve ==
    /\ \E processed \in SUBSET metric.pending : \E added \in SUBSET processed :
          metric' = [metric EXCEPT !.pending   = @ \ processed,
                                   !.latencies = @ + Cardinality(added)]
    /\ UNCHANGED turned

-----------------------------------------------------------------------------
(* The degrees of a stall contain each other, a stall lies between two frames,  *)
(* the time of the stalls is theirs, and no frame has two latencies.           *)
StallsNest ==
    /\ metric.severe <= metric.perceptible
    /\ metric.perceptible <= metric.micro
    /\ metric.micro < metric.frames \/ metric = NoMetric
    /\ metric.stalled >= metric.micro * (101 - NominalFrame)
    /\ metric.latencies + Cardinality(metric.pending) <= metric.frames
=============================================================================
