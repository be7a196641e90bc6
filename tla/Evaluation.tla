----------------------------- MODULE Evaluation -----------------------------
(***************************************************************************)
(* The evaluation of the protocols on the hub page (web-src/evaluation.ts,    *)
(* class Evaluation): four players of one device are started together, polled  *)
(* and measured, and stopped together.                                       *)
(*                                                                         *)
(* start() and stop() take a number (generation) and go on after an await only *)
(* while it is the last: here they are current or not.  A runner that was       *)
(* stopped while it starts is told by a field of its own.  The WebRTC session   *)
(* is kept by the hub as in WebRtcRelay; the other streams end with their       *)
(* connection.                                                              *)
(***************************************************************************)
EXTENDS WebRtcRelay, Metric, FiniteSets

VARIABLES
    running,   \* Evaluation.running
    session,   \* Evaluation.sessionId, as a number; 0 when there is none
    made,      \* the number of sessions so far
    feeds,     \* what is connected: the protocol and its session
    runners,   \* the runners whose start() is under way
    prepares,  \* start() calls that wait for the status of MoQ
    stops,     \* stop() calls under way
    timer,     \* pollTimer runs
    polling,   \* pollingSession
    polls,     \* the polls under way
    measured,  \* the session whose anchors the metrics have
    startOff   \* the start button is disabled

evalVars == <<running, session, made, feeds, runners, prepares, stops, timer, polling, polls,
              measured, startOff>>

vars == <<evalVars, relayVars, metricVars, left>>

Dev == "device"

Players == <<running, session, made, feeds, runners>>
Polls   == <<timer, polling, polls, measured>>

Init ==
    /\ running = FALSE /\ session = 0 /\ made = 0 /\ feeds = {} /\ runners = {}
    /\ prepares = {} /\ stops = {} /\ timer = FALSE /\ polling = 0 /\ polls = {}
    /\ measured = 0 /\ startOff = FALSE
    /\ RelayInit /\ MetricInit /\ left \in Budgets

Overtaken(calls) == {[c EXCEPT !.current = FALSE] : c \in calls}

-----------------------------------------------------------------------------
(* start(), from its button.                                                 *)
Start ==
    /\ ~ startOff /\ Spend("starts")
    /\ running' = TRUE /\ startOff' = TRUE
    /\ prepares' = Overtaken(prepares) \cup {[n |-> left["starts"], current |-> TRUE]}
    /\ stops' = Overtaken(stops)
    /\ UNCHANGED <<session, made, feeds, runners, Polls, relayVars, metricVars>>

(* What a runner connects at once: that of FLV and that of MoQ all they need, or  *)
(* they fail; that of WebRTC its peer.                                       *)
Feed(kind, s) == [kind |-> kind, session |-> s]
FlvRunner(s) == {{}, {Feed("flv", s)}}
MoqRunner(s) == {{}, {Feed("moq", s)}}

(* The status of MoQ is known, or not: the runners are made and start, and the   *)
(* first poll is sent.                                                      *)
Prepared(p) ==
    /\ p \in prepares /\ prepares' = prepares \ {p}
    /\ IF p.current
       THEN /\ made' = made + 1 /\ session' = made' /\ running' = TRUE /\ startOff' = TRUE
            /\ \E flv \in FlvRunner(made'), moq \in MoqRunner(made') :
                  feeds' = flv \cup moq \cup {Feed("webrtc", made')}
            /\ runners' = runners \cup
                  {[kind |-> "mse", session |-> made', stage |-> "opening", active |-> TRUE],
                   [kind |-> "webrtc", session |-> made', stage |-> "offer", active |-> TRUE]}
            /\ timer' = TRUE /\ polling' = made' /\ polls' = polls \cup {made'} /\ measured' = 0
            /\ metric' = NoMetric /\ UNCHANGED turned
       ELSE UNCHANGED <<Players, Polls, startOff, metricVars>>
    /\ UNCHANGED <<stops, relayVars, left>>

(* stop(), from its button, when the view is left or the page closed.  Without   *)
(* anything to stop it only takes its number, which is the last of a stop() that *)
(* is still under way.  The runners close what they have; the WebRTC runner       *)
(* sends a DELETE, which stop() waits for.                                    *)
Stop ==
    /\ Spend("stops")
    /\ prepares' = Overtaken(prepares)
    /\ IF ~ running
       THEN stops' = Overtaken(stops) /\ UNCHANGED <<Players, Polls, relayVars>>
       ELSE /\ running' = FALSE /\ session' = 0 /\ feeds' = {} /\ timer' = FALSE
            /\ runners' = {[r EXCEPT !.active = FALSE] : r \in runners}
            /\ closings' = closings \cup {[device |-> Dev, id |-> s] : s \in {session} \ {0}}
            /\ stops' = Overtaken(stops) \cup
                   {[session |-> session, current |-> TRUE,
                     stage |-> IF session = 0 THEN "finish" ELSE "runners"]}
            /\ UNCHANGED <<made, polling, polls, measured, slots, offers, taken, lost>>
    /\ UNCHANGED <<startOff, metricVars>>

(* All runners have stopped; then the session of the benchmark is deleted.      *)
StopGoesOn(c) ==
    /\ c \in stops
    /\ \/ /\ c.stage = "runners" /\ [device |-> Dev, id |-> c.session] \notin closings
          /\ stops' = (stops \ {c}) \cup {[c EXCEPT !.stage = "finish"]}
          /\ UNCHANGED startOff
       \/ /\ c.stage = "finish"
          /\ stops' = stops \ {c}
          /\ startOff' = IF c.current THEN FALSE ELSE startOff
    /\ UNCHANGED <<Players, prepares, Polls, relayVars, metricVars, left>>

-----------------------------------------------------------------------------
(* The runners.                                                             *)
Ends(r)           == runners' = runners \ {r}
Further(r, stage) == runners' = (runners \ {r}) \cup {[r EXCEPT !.stage = stage]}

(* Mutation: the runner does not look whether it was stopped.                  *)
MseOpened_Late(r) ==
    /\ r.stage = "opening" /\ Ends(r)
    /\ feeds' = feeds \cup {Feed("mse", r.session)}
    /\ UNCHANGED <<running, session, made, prepares, stops, Polls, startOff, relayVars, metricVars, left>>

(* MseRunner.start(): the source is open, or was stopped; the socket follows.    *)
MseOpened(r) ==
    /\ r.stage = "opening" /\ Ends(r)
    /\ feeds' = IF r.active THEN feeds \cup {Feed("mse", r.session)} ELSE feeds
    /\ UNCHANGED <<running, session, made, prepares, stops, Polls, startOff, relayVars, metricVars, left>>

(* A runner that fails leaves a message; what it has is closed by stop().  When  *)
(* the answer to its offer does not arrive after that, nobody closes the session. *)
RunnerFails(r) ==
    /\ Spend("failures") /\ Ends(r)
    /\ lost' = IF r.stage = "posted" /\ ~ r.active THEN lost \cup {r.session} ELSE lost
    /\ offers' = {o \in offers : o.id # r.session \/ o.stage = "creating"
                                   \/ r.kind # "webrtc"}
    /\ UNCHANGED <<running, session, made, feeds, prepares, stops, Polls, startOff, slots,
                   closings, taken, metricVars>>

(* WebRtcRunner.start(): the offer is posted.                                 *)
PostOffer(r) ==
    /\ r.stage = "offer"
    /\ IF r.active
       THEN Further(r, "posted") /\ offers' = offers \cup {Offer(Dev, r.session)}
       ELSE Ends(r) /\ UNCHANGED offers
    /\ UNCHANGED <<running, session, made, feeds, prepares, stops, Polls, startOff, slots,
                   closings, taken, lost, metricVars, left>>

(* Its answer: that of a runner that was stopped closes the session again.       *)
OfferAnswered(r) ==
    /\ r.stage = "posted" /\ Ends(r)
    /\ \E o \in offers :
          /\ o.id = r.session /\ o.stage \in {"accepted", "refused"}
          /\ offers' = offers \ {o}
          /\ closings' = IF o.stage = "accepted" /\ ~ r.active
                         THEN closings \cup {[device |-> Dev, id |-> r.session]} ELSE closings
    /\ UNCHANGED <<running, session, made, feeds, prepares, stops, Polls, startOff, slots,
                   taken, lost, metricVars, left>>

-----------------------------------------------------------------------------
(* The timer polls the status of the session, one request at a time.            *)
Poll ==
    /\ timer /\ running /\ session # 0 /\ polling # session /\ Spend("polls")
    /\ polling' = session /\ polls' = polls \cup {session}
    /\ UNCHANGED <<Players, prepares, stops, timer, measured, startOff, relayVars, metricVars>>

OfSession(s) == running /\ session = s

(* The answer anchors the metrics and resolves the latencies, if the session is  *)
(* still the one evaluated.                                                  *)
PollAnswered(s) ==
    /\ s \in polls /\ polls' = polls \ {s}
    /\ polling' = IF polling = s THEN 0 ELSE polling
    /\ IF OfSession(s) THEN measured' = s /\ Resolve ELSE UNCHANGED <<measured, metricVars>>
    /\ UNCHANGED <<Players, prepares, stops, timer, startOff, relayVars, left>>

PollFails(s) ==
    /\ s \in polls /\ Spend("failures") /\ polls' = polls \ {s}
    /\ polling' = IF polling = s THEN 0 ELSE polling
    /\ UNCHANGED <<Players, prepares, stops, timer, measured, startOff, relayVars, metricVars>>

(* A frame is rendered; the user turns to another tab.                         *)
Frame ==
    /\ Feed("webrtc", session) \in feeds /\ Spend("frames")
    /\ \E gap \in Gap : Record(gap)
    /\ UNCHANGED <<evalVars, relayVars>>

Turn == Spend("turns") /\ VisibilityChange /\ UNCHANGED <<evalVars, relayVars>>

(* Someone looks at the device over WebRTC from elsewhere.                     *)
OtherViewer ==
    /\ Spend("viewers")
    /\ offers' = offers \cup {Offer(Dev, 0)}
    /\ UNCHANGED <<evalVars, slots, closings, taken, lost, metricVars>>

RunnersGoOn ==
    \E r \in runners : MseOpened(r) \/ PostOffer(r) \/ OfferAnswered(r) \/ RunnerFails(r)

CallsGoOn ==
    \/ \E p \in prepares : Prepared(p)
    \/ \E c \in stops : StopGoesOn(c)
    \/ \E s \in polls : PollAnswered(s) \/ PollFails(s)

RelaySteps == RelayNext /\ UNCHANGED <<evalVars, metricVars>>

Next == Start \/ Stop \/ CallsGoOn \/ RunnersGoOn \/ Poll \/ RelaySteps \/ Frame \/ Turn \/ OtherViewer

Spec == Init /\ [][Next]_vars

(* The browser and the hub answer; the user does as he likes.                  *)
FairSpec == Spec /\ WF_vars(CallsGoOn) /\ WF_vars(RunnersGoOn) /\ WF_vars(RelaySteps)

-----------------------------------------------------------------------------
(* What stop() has released stays released: nothing is connected, no timer runs  *)
(* and no answer is used but for the session that is evaluated, even when a      *)
(* runner, a poll or start() itself was stopped on its way.                    *)
ReleasedTogether ==
    /\ \A f \in feeds : running /\ f.session = session
    /\ timer => running
    /\ measured \in {0, made}

(* The hub ends the WebRTC session of an evaluation that was stopped, unless the *)
(* DELETE, or the answer after it, was lost.                                  *)
Kept(id) == \E s \in slots : s.id = id

EvaluationsReleased(ids) ==
    \A id \in ids : (Kept(id) /\ session # id) ~> (~ Kept(id) \/ id \in lost \/ session = id)
=============================================================================
