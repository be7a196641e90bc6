---------------------------- MODULE DeviceLinks ----------------------------
(***************************************************************************)
(* The WebSocket links of one camera (serve_device_link in src/src/main.rs, *)
(* begin_link and link_is_current in state.rs) and what travels on them to   *)
(* keep its certificate up to date (certificate_edge.rs).                   *)
(*                                                                         *)
(* A camera connects again before the hub finds its old connection dead, so  *)
(* that several links are served at once; the one inserted last is current.  *)
(* The table of links and the registry of certificate channels have locks of *)
(* their own.  A link is represented by its generation, a bundle by the      *)
(* number of its issue, which stands for its fingerprint; 0 is no link and   *)
(* the empty fingerprint.                                                   *)
(*                                                                         *)
(* link_is_current is asked right before control() and before a command is   *)
(* passed on.  What happens between the two steps changes nothing they look   *)
(* at, except that the link may be superseded, which then comes after.       *)
(*                                                                         *)
(* Of the certificate task (module Certificates) there is only what it does   *)
(* with the camera's bundle.                                                *)
(***************************************************************************)
EXTENDS Naturals, Sequences

CONSTANTS
    Link,       \* the generations there may be
    Bundle,     \* the bundles there may be
    Budgets     \* bounds: how often each thing of Bound happens in a behaviour

(* Connections, bundles issued later, connections that break while in use,    *)
(* bundles the camera refuses, waits that time out, checks that fail.        *)
Bound == {"links", "renewals", "breaks", "refusals", "timeouts", "errors"}

ASSUME DeviceLinksAssumption ==
    /\ Budgets \subseteq [Bound -> Nat]
    /\ Link \cup Bundle \subseteq Nat \ {0}
    /\ \A g \in Link : 1..g \subseteq Link
    /\ 1 \in Bundle

VARIABLES
    conn,       \* the connections in the order of their generations
    links,      \* AppState.links: the current generation
    link,       \* CertificateLinks.links: the registered link
    attempt,    \* where the certificate task is, and what its last attempt gave
    camera,     \* the connection the camera uses and the bundle it has loaded
    wake,       \* CertificateService.wake: the permit of the Notify
    cached,     \* the camera's bundle in the cache
    overtaken,  \* history: the last link to be registered was not the current one
    left        \* how much of each bound is left

vars == <<conn, links, link, attempt, camera, wake, cached, overtaken, left>>

Spend(b) == left[b] > 0 /\ left' = [left EXCEPT ![b] = @ - 1]

NoLink == [generation |-> 0, supported |-> FALSE, loaded |-> 0, pending |-> 0]
Fresh  == [stage |-> "insert", queue |-> 0, down |-> <<>>, up |-> <<>>]
Gone   == [Fresh EXCEPT !.stage = "closed"]

(* The hub starts: the certificate task begins with a check.                *)
Init ==
    /\ conn = <<>> /\ links = 0 /\ link = NoLink
    /\ attempt = [stage |-> "begin", link |-> 0, bundle |-> 0, reply |-> "none"]
    /\ camera = [on |-> 0, loaded |-> 0]
    /\ wake = FALSE /\ cached = 1 /\ overtaken = FALSE
    /\ left \in Budgets

Serving(g) == g \in DOMAIN conn /\ conn[g].stage = "serving"
Waiting    == attempt.stage \in {"send", "wait"}

-----------------------------------------------------------------------------
(* A connection is set up and taken down.                                   *)

(* The camera connects, whether or not it still has a connection; it may     *)
(* also have given this one up again before the hub takes it up.  The task   *)
(* of the connection starts with fetch_add.  What is under way to the camera  *)
(* on a connection it has left is lost.                                     *)
Connect ==
    /\ Spend("links")
    /\ Len(conn) + 1 \in Link
    /\ \/ /\ conn' = Append([g \in DOMAIN conn |-> [conn[g] EXCEPT !.down = <<>>]], Fresh)
          /\ camera' = [camera EXCEPT !.on = Len(conn) + 1]
       \/ conn' = Append(conn, Fresh) /\ UNCHANGED camera
    /\ UNCHANGED <<links, link, attempt, wake, cached, overtaken>>

Stage(g, stage) == conn' = [conn EXCEPT ![g].stage = stage]

(* begin_link: the generation is inserted under the lock of the table.      *)
Insert(g) ==
    /\ g \in DOMAIN conn /\ conn[g].stage = "insert"
    /\ links' = g
    /\ Stage(g, "register")
    /\ UNCHANGED <<link, attempt, camera, wake, cached, overtaken, left>>

(* A registered link goes, and with it the sender of its pending reply.     *)
ReplyDropped ==
    IF Waiting /\ attempt.link = link.generation /\ link.pending # 0
    THEN [attempt EXCEPT !.reply = "no"]
    ELSE attempt

(* register: whatever was there before is replaced.                         *)
Register(g) ==
    /\ g \in DOMAIN conn /\ conn[g].stage = "register"
    /\ link' = [NoLink EXCEPT !.generation = g]
    /\ attempt' = ReplyDropped
    /\ Stage(g, "serving")
    /\ overtaken' = (links # g)
    /\ UNCHANGED <<links, camera, wake, cached, left>>

(* The head of the loop, which clock_interval visits at least every 2 s.     *)
Superseded(g) ==
    /\ Serving(g) /\ links # g
    /\ Stage(g, "leaving")
    /\ UNCHANGED <<links, link, attempt, camera, wake, cached, overtaken, left>>

(* The connection breaks under the camera, or is found to have been left.    *)
Broken(g) ==
    /\ Serving(g)
    /\ \/ camera.on # g /\ UNCHANGED <<camera, left>>
       \/ camera.on = g /\ camera' = [camera EXCEPT !.on = 0] /\ Spend("breaks")
    /\ Stage(g, "leaving")
    /\ UNCHANGED <<links, link, attempt, wake, cached, overtaken>>

(* The end of serve_device_link: disconnect, if the link is still its own,   *)
(* and the socket is closed.                                                *)
Disconnected_Any(g) == link.generation # 0 /\ g \in Link    \* fault: whoever it is
Disconnected(g)     == link.generation = g
Leave(g) ==
    /\ g \in DOMAIN conn /\ conn[g].stage = "leaving"
    /\ IF Disconnected(g) THEN link' = NoLink /\ attempt' = ReplyDropped
                          ELSE UNCHANGED <<link, attempt>>
    /\ conn' = [conn EXCEPT ![g] = Gone]
    /\ camera' = [camera EXCEPT !.on = IF @ = g THEN 0 ELSE @]
    /\ UNCHANGED <<links, wake, cached, overtaken, left>>

-----------------------------------------------------------------------------
(* The camera (external): it says hello from time to time, installs what it   *)
(* is sent, and says so on the connection it got it from.                   *)

Hello ==
    LET hello == [type |-> "hello", hash |-> camera.loaded, ok |-> TRUE] IN
    /\ camera.on # 0
    /\ \A i \in DOMAIN conn[camera.on].up : conn[camera.on].up[i].type # "hello"
    /\ conn' = [conn EXCEPT ![camera.on].up = Append(@, hello)]
    /\ UNCHANGED <<links, link, attempt, camera, wake, cached, overtaken, left>>

InstallBundle ==
    LET g == camera.on IN
    /\ g # 0 /\ conn[g].down # <<>>
    /\ LET b == Head(conn[g].down)
           Ack(ok) == conn' = [conn EXCEPT
                          ![g].down = Tail(@),
                          ![g].up = Append(@, [type |-> "ack", hash |-> b, ok |-> ok])]
       IN  \/ Ack(TRUE) /\ camera' = [camera EXCEPT !.loaded = b] /\ UNCHANGED left
           \/ Ack(FALSE) /\ Spend("refusals") /\ UNCHANGED camera
    /\ UNCHANGED <<links, link, attempt, wake, cached, overtaken>>

-----------------------------------------------------------------------------
(* The loop of a link.                                                      *)

(* CertificateLinks::control of a message of link g; a hello with something   *)
(* new asks for a check of the certificates.                                *)
Changed(hash) == ~link.supported \/ link.loaded # hash

Matches_Any(hash) == link.pending # 0    \* fault: any acknowledgement will do
Matches(hash) == link.pending # 0 /\ link.pending = hash

ControlHello(message) ==
    /\ message.type = "hello"
    /\ link' = [link EXCEPT !.supported = TRUE, !.loaded = message.hash]
    /\ wake' = (wake \/ Changed(message.hash))
    /\ UNCHANGED attempt

ControlAck(message) ==
    /\ message.type = "ack"
    /\ IF Matches(message.hash)
       THEN /\ link' = [link EXCEPT !.pending = 0,
                            !.loaded = IF message.ok THEN message.hash ELSE @]
            /\ attempt' = IF Waiting /\ attempt.link = link.generation
                          THEN [attempt EXCEPT !.reply = IF message.ok THEN "ok" ELSE "no"]
                          ELSE attempt
       ELSE UNCHANGED <<link, attempt>>
    /\ UNCHANGED wake

(* A text message: nothing is done with it unless the link is current and,   *)
(* in control(), the registered one.                                        *)
Receive(g) ==
    /\ Serving(g) /\ links = g /\ conn[g].up # <<>>
    /\ conn' = [conn EXCEPT ![g].up = Tail(@)]
    /\ \/ link.generation # g /\ UNCHANGED <<link, attempt, wake>>
       \/ /\ link.generation = g
          /\ ControlHello(Head(conn[g].up)) \/ ControlAck(Head(conn[g].up))
    /\ UNCHANGED <<links, camera, cached, overtaken, left>>

(* A command is taken from the channel and sent to the camera.  The channel   *)
(* of a link that is not registered any more still gives what it holds.      *)
Forward(g) ==
    /\ Serving(g) /\ conn[g].queue # 0
    /\ conn' = [conn EXCEPT ![g].queue = 0,
                            ![g].stage = IF links = g THEN @ ELSE "leaving",
                            ![g].down = IF links = g /\ camera.on = g
                                        THEN Append(@, conn[g].queue) ELSE @]
    /\ UNCHANGED <<links, link, attempt, camera, wake, cached, overtaken, left>>

-----------------------------------------------------------------------------
(* The certificate task.                                                    *)

Until(stage) == attempt' = [attempt EXCEPT !.stage = stage]
Ended(reply) == attempt' = [attempt EXCEPT !.stage = "asleep", !.reply = reply]

(* Someone has asked for a check, a failure is retried after retry_seconds,   *)
(* or interval_seconds have passed.                                         *)
Wake ==
    /\ attempt.stage = "asleep"
    /\ wake \/ attempt.reply = "no"
    /\ wake' = FALSE
    /\ Until("begin")
    /\ UNCHANGED <<conn, links, link, camera, cached, overtaken, left>>

Interval ==
    /\ attempt.stage = "asleep"
    /\ Until("begin")
    /\ UNCHANGED <<conn, links, link, camera, wake, cached, overtaken, left>>

(* check_target has a new bundle issued, or fails, before it synchronizes.   *)
Renew ==
    /\ attempt.stage = "begin"
    /\ Spend("renewals")
    /\ cached + 1 \in Bundle /\ cached' = cached + 1
    /\ UNCHANGED <<conn, links, link, attempt, camera, wake, overtaken>>

CheckFails ==
    /\ attempt.stage = "begin"
    /\ Spend("errors")
    /\ Ended("no")
    /\ UNCHANGED <<conn, links, link, camera, wake, cached, overtaken>>

(* synchronize, under the lock: the camera is offline, does not support it,   *)
(* or has the bundle; or else a pending reply takes the place of an old one.  *)
Offline == link.generation = 0 \/ ~link.supported

SyncBegin ==
    /\ attempt.stage = "begin"
    /\ \/ Offline /\ Ended("no") /\ UNCHANGED link
       \/ /\ ~Offline /\ link.loaded = cached
          /\ attempt' = [attempt EXCEPT !.stage = "asleep", !.bundle = cached, !.reply = "ok"]
          /\ UNCHANGED link
       \/ /\ ~Offline /\ link.loaded # cached
          /\ link' = [link EXCEPT !.pending = cached]
          /\ attempt' = [stage |-> "send", link |-> link.generation, bundle |-> cached,
                         reply |-> "none"]
    /\ UNCHANGED <<conn, links, camera, wake, cached, overtaken, left>>

(* The channel has one place; its receiver is dropped with the connection.   *)
SyncSend ==
    /\ attempt.stage = "send"
    /\ \/ /\ conn[attempt.link].stage # "closed" /\ conn[attempt.link].queue = 0
          /\ conn' = [conn EXCEPT ![attempt.link].queue = attempt.bundle]
          /\ Until("wait")
       \/ /\ conn[attempt.link].stage = "closed"
          /\ attempt' = [attempt EXCEPT !.stage = "settled", !.reply = "no"]
          /\ UNCHANGED conn
    /\ UNCHANGED <<links, link, camera, wake, cached, overtaken, left>>

SyncReply ==
    /\ attempt.stage = "wait" /\ attempt.reply # "none"
    /\ Until("settled")
    /\ UNCHANGED <<conn, links, link, camera, wake, cached, overtaken, left>>

(* 30 s have passed; or the 600 s of the whole check, and then nothing of     *)
(* what follows is done.                                                    *)
SyncTimeout ==
    /\ Waiting
    /\ Spend("timeouts")
    /\ \/ attempt' = [attempt EXCEPT !.stage = "settled", !.reply = "no"]
       \/ Ended("no")
    /\ UNCHANGED <<conn, links, link, camera, wake, cached, overtaken>>

(* Under the lock again: the pending reply is cleared if it is still this     *)
(* attempt's.                                                               *)
SyncEnd ==
    /\ attempt.stage = "settled"
    /\ link' = IF link.generation = attempt.link /\ link.pending = attempt.bundle
               THEN [link EXCEPT !.pending = 0] ELSE link
    /\ Until("asleep")
    /\ UNCHANGED <<conn, links, camera, wake, cached, overtaken, left>>

-----------------------------------------------------------------------------
Loop(g) == Receive(g) \/ Forward(g)

Task == Wake \/ SyncBegin \/ SyncSend \/ SyncReply \/ SyncEnd

Next ==
    \/ Connect \/ Hello \/ InstallBundle
    \/ \E g \in Link : Insert(g) \/ Register(g) \/ Superseded(g) \/ Broken(g) \/ Leave(g)
                     \/ Loop(g)
    \/ Task \/ Interval \/ Renew \/ CheckFails \/ SyncTimeout

Spec == Init /\ [][Next]_vars

(* The tasks are scheduled, a retry comes, a dead connection is found out (a   *)
(* clock request is sent on it every 2 s), the camera says hello and takes    *)
(* what it is sent.  Neither interval_seconds (12 h) nor the timeouts are      *)
(* counted on.                                                              *)
Fairness ==
    /\ \A g \in Link :
         /\ WF_vars(Insert(g)) /\ WF_vars(Register(g)) /\ WF_vars(Leave(g))
         /\ WF_vars(Superseded(g)) /\ WF_vars(camera.on # g /\ Broken(g))
         /\ WF_vars(Receive(g)) /\ WF_vars(Forward(g))
    /\ WF_vars(Hello) /\ WF_vars(InstallBundle)
    /\ WF_vars(Task)

FairSpec == Spec /\ Fairness

-----------------------------------------------------------------------------
(* Properties.                                                              *)

Connection == [stage : {"insert", "register", "serving", "leaving", "closed"},
               queue : {0} \cup Bundle, down : Seq(Bundle),
               up : Seq([type : {"hello", "ack"}, hash : {0} \cup Bundle, ok : BOOLEAN])]

(* The shape of the state, for proofs.                                      *)
TypeOK ==
    /\ conn \in Seq(Connection) /\ DOMAIN conn \subseteq Link
    /\ links \in 0..Len(conn)
    /\ link \in [generation : 0..Len(conn), supported : BOOLEAN,
                 loaded : {0} \cup Bundle, pending : {0} \cup Bundle]
    /\ attempt \in [stage : {"asleep", "begin", "send", "wait", "settled"},
                    link : 0..Len(conn), bundle : {0} \cup Bundle,
                    reply : {"none", "ok", "no"}]
    /\ Waiting => attempt.link # 0
    /\ camera \in [on : 0..Len(conn), loaded : {0} \cup Bundle]
    /\ wake \in BOOLEAN /\ overtaken \in BOOLEAN
    /\ cached \in Bundle
    /\ left \in [Bound -> Nat]

(* What the status page says of the camera is so: an attempt that succeeded   *)
(* was for a bundle the camera has loaded, however late the acknowledgements  *)
(* of earlier attempts come and on whichever connection; and the hub never    *)
(* takes the camera for further than it is (control, synchronize).           *)
EdgeTruthful ==
    /\ attempt.reply = "ok" => camera.loaded = attempt.bundle
    /\ link.loaded <= camera.loaded

(* A camera that stays connected gets the bundle in the cache, whatever       *)
(* connections it had before and however they end, unless its last link was   *)
(* registered out of turn (serve_device_link, disconnect, request_check).    *)
UpToDate == camera.loaded = cached
CatchesUp == []<>(UpToDate \/ camera.on = 0 \/ overtaken)

=============================================================================
