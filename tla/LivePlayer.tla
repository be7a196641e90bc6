----------------------------- MODULE LivePlayer -----------------------------
(***************************************************************************)
(* The live player of the hub page (web-src/static/app.js, flv-player.ts,     *)
(* moq-player.ts): four ways to see a camera, one at a time.  A start stops    *)
(* what is played, takes a number (liveSession) and goes on after each await    *)
(* only while that is the last number: here it is current or not.             *)
(*                                                                         *)
(* What feeds the player are the WebSocket of fMP4, the FLV player, the        *)
(* WebRTC peer and the MoQ element; the browser supports them all.  The device   *)
(* d of an action is the one selected then, which the page composes.          *)
(***************************************************************************)
EXTENDS WebRtcRelay, FiniteSets

VARIABLES
    mode,     \* liveMode
    feeds,    \* what is connected to the player, and to which device
    session,  \* liveWebRtcSession
    begun,    \* the start functions under way
    made      \* the number of WebRTC sessions of the page so far: their IDs

liveVars == <<mode, feeds, session, begun, made>>

NoSession == [device |-> "none", id |-> 0]
Stranger  == 0  \* the ID of the session of another viewer

LiveInit ==
    /\ mode = "" /\ feeds = {} /\ session = NoSession /\ begun = {} /\ made = 0

Feed(kind, d) == [kind |-> kind, device |-> d]

(* The FLV and the MoQ components: start() stops what the component plays.     *)
FlvPlayer(fs, d) == {f \in fs : f.kind # "flv"} \cup {Feed("flv", d)}
MoqPlayer(fs, d) == {f \in fs : f.kind # "moq"} \cup {Feed("moq", d)}

-----------------------------------------------------------------------------
(* stopHubLive() closes everything that is connected; the DELETE of a WebRTC    *)
(* session is sent and not waited for.                                      *)
Dropped == {[b EXCEPT !.current = FALSE] : b \in begun}
Closed  == closings \cup ({session} \ {NoSession})

StopHubLive ==
    /\ mode' = "" /\ feeds' = {} /\ session' = NoSession /\ begun' = Dropped
    /\ closings' = Closed
    /\ UNCHANGED <<slots, offers, taken, lost, made>>

Begin(kind, d, stage) ==
    begun' = Dropped \cup
        {[mode |-> kind, device |-> d, id |-> made', stage |-> stage, current |-> TRUE]}

StartHubLive(d) ==
    /\ mode' = "mse" /\ feeds' = {} /\ session' = NoSession /\ closings' = Closed
    /\ UNCHANGED <<slots, offers, taken, lost, made>>
    /\ Begin("mse", d, "opening")

(* The FLV player starts at once, or cannot.                                 *)
StartHubFlv(d) ==
    /\ \/ mode' = "flv" /\ feeds' = FlvPlayer({}, d)
       \/ mode' = "" /\ feeds' = {}
    /\ session' = NoSession /\ closings' = Closed /\ begun' = Dropped
    /\ UNCHANGED <<slots, offers, taken, lost, made>>

(* The peer and the ID of the session are made before the first await.         *)
StartHubWebRtc(d) ==
    /\ made' = made + 1
    /\ mode' = "webrtc" /\ feeds' = {Feed("webrtc", d)}
    /\ session' = [device |-> d, id |-> made'] /\ closings' = Closed
    /\ UNCHANGED <<slots, offers, taken, lost>>
    /\ Begin("webrtc", d, "offer")

StartHubMoq(d) ==
    /\ mode' = "moq" /\ feeds' = {} /\ session' = NoSession /\ closings' = Closed
    /\ UNCHANGED <<slots, offers, taken, lost, made>>
    /\ Begin("moq", d, "status")

-----------------------------------------------------------------------------
(* The starts after their awaits.                                            *)
Over(b)         == begun' = begun \ {b}
Further(b, stage) == begun' = (begun \ {b}) \cup {[b EXCEPT !.stage = stage]}

(* The catch of a start that is current.                                     *)
GivesUp ==
    mode' = "" /\ feeds' = {} /\ session' = NoSession /\ UNCHANGED made

(* Mutation: the number is not looked at after the source has opened.          *)
LiveSourceOpened_Late(b, d) ==
    /\ b.stage = "opening" /\ Over(b) /\ feeds' = feeds \cup {Feed("mse", d)}
    /\ UNCHANGED <<relayVars, mode, session, made, left>>

(* startHubLive(): the socket is opened to the device selected by then; with     *)
(* none it is closed at once.                                                *)
LiveSourceOpened(b, d) ==
    /\ b.stage = "opening" /\ Over(b)
    /\ feeds' = IF b.current /\ d # "none" THEN feeds \cup {Feed("mse", d)} ELSE feeds
    /\ mode'  = IF b.current /\ d = "none" THEN "" ELSE mode
    /\ UNCHANGED <<relayVars, session, made, left>>

(* A source that was stopped does not open; another may be too slow, and then   *)
(* the start returns with its button disabled.                               *)
LiveSourceTimesOut(b) ==
    /\ b.stage = "opening" /\ Over(b)
    /\ IF b.current THEN Spend("failures") ELSE UNCHANGED left
    /\ UNCHANGED <<relayVars, mode, feeds, session, made>>

(* The hub ends the stream: the camera is gone.                               *)
SocketCloses ==
    /\ Spend("failures")
    /\ \E f \in feeds : f.kind = "mse" /\ feeds' = feeds \ {f}
    /\ mode' = "" /\ UNCHANGED <<relayVars, session, begun, made>>

(* startHubWebRtc(): the offer is made and its candidates are gathered, then it *)
(* is posted.                                                               *)
PostOffer(b) ==
    /\ b.stage = "offer"
    /\ IF b.current
       THEN Further(b, "posted") /\ offers' = offers \cup {Offer(b.device, b.id)}
       ELSE Over(b) /\ UNCHANGED offers
    /\ UNCHANGED <<slots, closings, taken, lost, mode, feeds, session, made, left>>

Answered(b, stage) == {o \in offers : o.id = b.id /\ o.device = b.device /\ o.stage = stage}
Own(b) == [device |-> b.device, id |-> b.id]

(* An answer that comes after the player was stopped: its session is closed.   *)
OfferAccepted(b) ==
    /\ b.stage = "posted"
    /\ \E o \in Answered(b, "accepted") : offers' = offers \ {o}
    /\ IF b.current
       THEN Further(b, "answer") /\ UNCHANGED closings
       ELSE Over(b) /\ closings' = closings \cup {Own(b)}
    /\ UNCHANGED <<slots, taken, lost, mode, feeds, session, made, left>>

(* The catch, after any of the awaits: the session is closed for good measure,  *)
(* and the player is given up if it is still this start's.                    *)
CloseAndGiveUp(b) ==
    /\ Over(b)
    /\ closings' = closings \cup {Own(b)}
    /\ IF b.current THEN GivesUp ELSE UNCHANGED <<mode, feeds, session, made>>

OfferRefused(b) ==
    /\ b.stage = "posted"
    /\ \E o \in Answered(b, "refused") : offers' = offers \ {o}
    /\ CloseAndGiveUp(b)
    /\ UNCHANGED <<slots, taken, lost, left>>

(* The offer cannot be made, does not arrive, its answer does not, or cannot be *)
(* used.  A request that was not handled is not handled later.                *)
WebRtcFails(b) ==
    /\ b.mode = "webrtc" /\ Spend("failures")
    /\ offers' = {o \in offers : o.id # b.id \/ o.stage = "creating"}
    /\ CloseAndGiveUp(b)
    /\ UNCHANGED <<slots, taken, lost>>

RemoteDescriptionSet(b) ==
    /\ b.stage = "answer" /\ Over(b)
    /\ UNCHANGED <<relayVars, mode, feeds, session, made, left>>

(* startHubMoq(): the status of the MoQ service is known.  When the device was  *)
(* replaced by a refresh meanwhile it returns without a word.                 *)
MoqStatus(b, d) ==
    /\ b.stage = "status" /\ Over(b)
    /\ feeds' = IF b.current /\ b.device = d THEN MoqPlayer(feeds, d) ELSE feeds
    /\ UNCHANGED <<relayVars, mode, session, made, left>>

MoqUnavailable(b) ==
    /\ b.stage = "status" /\ Spend("failures") /\ Over(b)
    /\ IF b.current THEN GivesUp ELSE UNCHANGED <<mode, feeds, session, made>>
    /\ UNCHANGED relayVars

LiveGoesOn(d) ==
    \E b \in begun :
        \/ LiveSourceOpened(b, d) \/ LiveSourceTimesOut(b)
        \/ PostOffer(b) \/ OfferAccepted(b) \/ OfferRefused(b) \/ WebRtcFails(b)
        \/ RemoteDescriptionSet(b)
        \/ MoqStatus(b, d) \/ MoqUnavailable(b)

(* Someone else looks at device d over WebRTC.                               *)
OtherViewer(d) ==
    /\ Spend("viewers")
    /\ offers' = offers \cup {Offer(d, Stranger)}
    /\ UNCHANGED <<liveVars, slots, closings, taken, lost>>

-----------------------------------------------------------------------------
(* There is one feed at most, and it is the one of the button that is active:   *)
(* a start that was overtaken by another, or by a stop, connects nothing.      *)
OneFeed == Cardinality(feeds) <= 1 /\ \A f \in feeds : f.kind = mode

(* The session that is watched stays until another offer takes the device: no   *)
(* late request of the page about an older session ends it.                  *)
Watched == session # NoSession /\ ~ \E b \in begun : b.current

OldRequestsSpareIt ==
    Watched => /\ session \notin closings
               /\ session.id \in taken
                     \/ \E s \in slots : Own(s) = session /\ s.running

(* A session of the page that it does not watch any more is closed in the hub,  *)
(* whatever the order in which its requests arrive, unless the closing request  *)
(* is lost.                                                                 *)
Kept(id) == \E s \in slots : s.id = id

SessionsReleased(ids) ==
    \A id \in ids : (Kept(id) /\ session.id # id) ~> (~ Kept(id) \/ id \in lost \/ session.id = id)
=============================================================================
