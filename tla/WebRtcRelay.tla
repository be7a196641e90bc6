---------------------------- MODULE WebRtcRelay ----------------------------
(***************************************************************************)
(* The WebRTC sessions of the hub (src/webrtc_live.rs).  A device has one     *)
(* slot: an offer takes the slot, which ends the session of the one before,    *)
(* and its session is put there when it has been created, if the slot is still *)
(* its own.  A session ends when it is closed by its ID or superseded, never   *)
(* by itself.  The requests of the browser arrive in any order.              *)
(***************************************************************************)
EXTENDS Budget

VARIABLES
    slots,     \* WebRtcRelay.sessions: whose slot it is, and whether it has a session
    offers,    \* POST .../webrtc/offer under way, and their answers
    closings,  \* DELETE .../webrtc/offer?session_id= under way
    taken,     \* history: the sessions another offer has superseded
    lost       \* history: the sessions whose DELETE did not arrive

relayVars == <<slots, offers, closings, taken, lost>>

RelayInit == slots = {} /\ offers = {} /\ closings = {} /\ taken = {} /\ lost = {}

OfId(o) == {s \in slots : s.device = o.device /\ s.id = o.id}
Offer(d, id) == [device |-> d, id |-> id, stage |-> "sent"]
Turns(o, stage) == offers' = (offers \ {o}) \cup {[o EXCEPT !.stage = stage]}

(* answer(): the slot is taken, and the previous session closed.              *)
Answer(o) ==
    LET previous == {s \in slots : s.device = o.device}
    IN  /\ o.stage = "sent"
        /\ slots' = (slots \ previous) \cup
                       {[device |-> o.device, id |-> o.id, running |-> FALSE]}
        /\ taken' = taken \cup {s.id : s \in previous}
        /\ Turns(o, "creating")
        /\ UNCHANGED <<closings, lost, left>>

(* Mutation: the session is kept whosever the slot is now.                    *)
SessionCreated_Always(o) ==
    /\ o.stage = "creating"
    /\ slots' = {s \in slots : s.device # o.device}
                   \cup {[device |-> o.device, id |-> o.id, running |-> TRUE]}
    /\ Turns(o, "accepted")
    /\ UNCHANGED <<closings, taken, lost, left>>

SessionCreated(o) ==
    /\ o.stage = "creating"
    /\ IF OfId(o) = {}
       THEN UNCHANGED slots /\ Turns(o, "refused")
       ELSE /\ slots' = (slots \ OfId(o)) \cup {[s EXCEPT !.running = TRUE] : s \in OfId(o)}
            /\ Turns(o, "accepted")
    /\ UNCHANGED <<closings, taken, lost, left>>

(* The frames of the device are not ready, or its session cannot be created.   *)
OfferFails(o) ==
    /\ o.stage \in {"sent", "creating"} /\ Spend("failures")
    /\ slots' = (IF o.stage = "creating" THEN slots \ OfId(o) ELSE slots)
    /\ Turns(o, "refused")
    /\ UNCHANGED <<closings, taken, lost>>

(* Mutation: a close ends the session of the device, whichever it is.          *)
Matching_Device(c) == {s \in slots : s.device = c.device}

Matching(c) == OfId(c)

Close(c) ==
    /\ closings' = closings \ {c} /\ slots' = slots \ Matching(c)
    /\ UNCHANGED <<offers, taken, lost, left>>

CloseLost(c) ==
    /\ Spend("failures")
    /\ closings' = closings \ {c} /\ lost' = lost \cup {c.id}
    /\ UNCHANGED <<slots, offers, taken>>

RelayNext ==
    \/ \E o \in offers : Answer(o) \/ SessionCreated(o) \/ OfferFails(o)
    \/ \E c \in closings : Close(c) \/ CloseLost(c)
=============================================================================
