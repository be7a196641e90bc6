-------------------------- MODULE DeviceLinksProofs --------------------------
(***************************************************************************)
(* Proofs about DeviceLinks: what the hub reports of the camera's certificate   *)
(* is so, for any number of connections, bundles, time-outs and refusals.       *)
(***************************************************************************)
EXTENDS DeviceLinks, SequenceTheorems, TLAPS

Report == [type : {"hello", "ack"}, hash : {0} \cup Bundle, ok : BOOLEAN]

LEMMA BundlesAre == /\ \A b \in {0} \cup Bundle : b \in Nat
                    /\ \A b \in Bundle : b # 0
                    /\ \A g \in Link : g \in Nat /\ g # 0
BY DeviceLinksAssumption

LEMMA FreshIs == /\ Fresh \in Connection /\ Gone \in Connection
                 /\ Fresh.queue = 0 /\ Fresh.down = <<>> /\ Fresh.up = <<>>
                 /\ Gone.queue = 0 /\ Gone.down = <<>> /\ Gone.up = <<>>
<1>1. <<>> \in Seq(Bundle) /\ <<>> \in Seq(Report)
  BY EmptySeq
<1>. QED
  BY <1>1 DEF Fresh, Gone, Connection, Report

LEMMA Spent == ASSUME TypeOK, NEW b \in Bound, Spend(b) PROVE left' \in [Bound -> Nat]
BY DEF Spend, TypeOK

LEMMA LeftTyped == ASSUME TypeOK, [Next]_vars PROVE left' \in [Bound -> Nat]
<1>1. UNCHANGED left \/ \E b \in Bound : Spend(b)
  BY DEF Next, Connect, Hello, InstallBundle, Insert, Register, Superseded, Broken, Leave, Loop,
         Receive, Forward, Task, Wake, SyncBegin, SyncSend, SyncReply, SyncEnd, Interval, Renew,
         CheckFails, SyncTimeout, Bound, vars
<1>. QED
  BY <1>1, Spent DEF TypeOK

-----------------------------------------------------------------------------
(* One connection changes.                                                  *)
LEMMA Updated ==
    ASSUME TypeOK, NEW g \in DOMAIN conn, NEW c \in Connection, conn' = [conn EXCEPT ![g] = c]
    PROVE  /\ conn' \in Seq(Connection) /\ Len(conn') = Len(conn) /\ DOMAIN conn' = DOMAIN conn
           /\ conn'[g] = c /\ \A h \in DOMAIN conn : h # g => conn'[h] = conn[h]
BY DEF TypeOK

LEMMA ConnectionIs ==
    ASSUME TypeOK, NEW g \in DOMAIN conn
    PROVE  conn[g] \in Connection
BY DEF TypeOK

(* One step of a connection: its stage, its channel or what is under way.        *)
Stages == {"insert", "register", "serving", "leaving", "closed"}

LEMMA Staged ==
    ASSUME NEW c \in Connection, NEW stage \in Stages
    PROVE  LET d == [c EXCEPT !.stage = stage]
           IN  d \in Connection /\ d.queue = c.queue /\ d.down = c.down /\ d.up = c.up
BY DEF Connection, Stages

LEMMA Hears ==
    ASSUME NEW c \in Connection, NEW up \in Seq(Report)
    PROVE  LET d == [c EXCEPT !.up = up]
           IN  d \in Connection /\ d.queue = c.queue /\ d.down = c.down /\ d.up = up
BY DEF Connection, Report

LEMMA Queued ==
    ASSUME NEW c \in Connection, NEW b \in {0} \cup Bundle
    PROVE  LET d == [c EXCEPT !.queue = b]
           IN  d \in Connection /\ d.queue = b /\ d.down = c.down /\ d.up = c.up
BY DEF Connection

LEMMA Cleared ==
    ASSUME NEW c \in Connection
    PROVE  LET d == [c EXCEPT !.down = <<>>]
           IN  d \in Connection /\ d.queue = c.queue /\ d.down = <<>> /\ d.up = c.up
<1>1. <<>> \in Seq(Bundle)
  BY EmptySeq
<1>. QED
  BY <1>1 DEF Connection

-----------------------------------------------------------------------------
(* What a queue holds when something is taken from it or added to it.            *)
LEMMA TailHolds ==
    ASSUME NEW S, NEW s \in Seq(S), s # <<>>
    PROVE  /\ Tail(s) \in Seq(S) /\ 1 \in DOMAIN s /\ Head(s) = s[1] /\ Head(s) \in S
           /\ DOMAIN s = 1..Len(s) /\ Len(s) \in Nat /\ DOMAIN Tail(s) = 1..(Len(s) - 1)
           /\ \A i \in DOMAIN Tail(s) : i + 1 \in DOMAIN s /\ Tail(s)[i] = s[i + 1]
BY HeadTailProperties, LenProperties

LEMMA AppendHolds ==
    ASSUME NEW S, NEW s \in Seq(S), NEW x \in S
    PROVE  /\ Append(s, x) \in Seq(S) /\ DOMAIN s = 1..Len(s) /\ Len(s) \in Nat
           /\ DOMAIN Append(s, x) = 1..(Len(s) + 1)
           /\ \A i \in DOMAIN s : Append(s, x)[i] = s[i]
           /\ Append(s, x)[Len(s) + 1] = x
BY AppendProperties, LenProperties

-----------------------------------------------------------------------------
(* The shape of the state.                                                   *)
Attempt == [stage : {"asleep", "begin", "send", "wait", "settled"}, link : 0..Len(conn),
            bundle : {0} \cup Bundle, reply : {"none", "ok", "no"}]
LinkState == [generation : 0..Len(conn), supported : BOOLEAN,
              loaded : {0} \cup Bundle, pending : {0} \cup Bundle]

LEMMA InitTyped == Init => TypeOK
<1>. SUFFICES ASSUME Init PROVE TypeOK
  OBVIOUS
<1>1. conn \in Seq(Connection) /\ Len(conn) = 0 /\ DOMAIN conn = {}
  BY EmptySeq DEF Init
<1>2. link \in LinkState
  BY <1>1 DEF Init, NoLink, LinkState
<1>3. attempt \in Attempt /\ ~Waiting
  BY <1>1 DEF Init, Attempt, Waiting
<1>4. camera \in [on : 0..Len(conn), loaded : {0} \cup Bundle]
  BY <1>1 DEF Init
<1>5. cached \in Bundle /\ left \in [Bound -> Nat]
  BY DeviceLinksAssumption DEF Init
<1>. QED
  BY <1>1, <1>2, <1>3, <1>4, <1>5 DEF Init, TypeOK, LinkState, Attempt

(* A pending reply that is dropped leaves an attempt that is waiting.            *)
LEMMA Dropped ==
    ASSUME TypeOK
    PROVE  /\ ReplyDropped \in Attempt /\ ReplyDropped.stage = attempt.stage
           /\ ReplyDropped.link = attempt.link /\ ReplyDropped.bundle = attempt.bundle
           /\ ReplyDropped.reply \in {attempt.reply, "no"}
BY DEF ReplyDropped, TypeOK, Attempt

(* A step that leaves the number of connections as it is.                        *)
LEMMA SameConnections ==
    ASSUME TypeOK, conn' \in Seq(Connection), Len(conn') = Len(conn), DOMAIN conn' = DOMAIN conn,
           links' \in 0..Len(conn), link' \in LinkState, attempt' \in Attempt,
           attempt'.stage \in {"send", "wait"} => attempt'.link # 0,
           camera' \in [on : 0..Len(conn), loaded : {0} \cup Bundle],
           wake' \in BOOLEAN, overtaken' \in BOOLEAN, cached' \in Bundle,
           left' \in [Bound -> Nat]
    PROVE  TypeOK'
BY DEF TypeOK, LinkState, Attempt, Waiting

LEMMA Shapes ==
    ASSUME TypeOK
    PROVE  /\ conn \in Seq(Connection) /\ Len(conn) \in Nat /\ DOMAIN conn = 1..Len(conn)
           /\ links \in 0..Len(conn) /\ link \in LinkState /\ attempt \in Attempt
           /\ attempt.stage \in {"send", "wait"} => attempt.link # 0
           /\ camera \in [on : 0..Len(conn), loaded : {0} \cup Bundle]
           /\ wake \in BOOLEAN /\ overtaken \in BOOLEAN /\ cached \in Bundle
           /\ left \in [Bound -> Nat] /\ DOMAIN conn \subseteq Link
<1>. conn \in Seq(Connection)
  BY DEF TypeOK
<1>. QED
  BY LenProperties DEF TypeOK, LinkState, Attempt, Waiting

LEMMA Registered ==
    ASSUME TypeOK, NEW g \in 0..Len(conn)
    PROVE  NoLink \in LinkState /\ [NoLink EXCEPT !.generation = g] \in LinkState
<1>1. 0 \in 0..Len(conn)
  BY Shapes
<1>. QED
  BY <1>1 DEF NoLink, LinkState

LEMMA ConnectTyped == ASSUME TypeOK, Connect PROVE TypeOK'
<1>0. left' \in [Bound -> Nat]
  BY LeftTyped DEF Next
<1>1. Fresh \in Connection
  BY FreshIs
<1>2. ASSUME NEW c \in Seq(Connection), Len(c) = Len(conn), conn' = Append(c, Fresh)
      PROVE  /\ conn' \in Seq(Connection) /\ Len(conn') = Len(conn) + 1
             /\ DOMAIN conn' \subseteq Link
  <2>1. conn' \in Seq(Connection) /\ Len(conn') = Len(conn) + 1
    BY <1>1, <1>2, AppendProperties
  <2>2. DOMAIN conn' = 1..(Len(conn) + 1)
    BY <2>1, LenProperties
  <2>3. Len(conn) + 1 \in Link
    BY DEF Connect
  <2>. QED
    BY <2>1, <2>2, <2>3, DeviceLinksAssumption
<1>3. /\ conn' \in Seq(Connection) /\ Len(conn') = Len(conn) + 1 /\ DOMAIN conn' \subseteq Link
      /\ camera' \in [on : 0..(Len(conn) + 1), loaded : {0} \cup Bundle]
  <2>1. Len(conn) \in Nat
    BY Shapes
  <2>2. CASE /\ conn' = Append([g \in DOMAIN conn |-> [conn[g] EXCEPT !.down = <<>>]], Fresh)
             /\ camera' = [camera EXCEPT !.on = Len(conn) + 1]
    <3>. DEFINE c == [g \in DOMAIN conn |-> [conn[g] EXCEPT !.down = <<>>]]
    <3>1. \A g \in DOMAIN conn : [conn[g] EXCEPT !.down = <<>>] \in Connection
      BY ConnectionIs, Cleared
    <3>2. c \in Seq(Connection) /\ Len(c) = Len(conn)
      <4>1. DOMAIN conn = 1..Len(conn)
        BY Shapes
      <4>2. c \in [1..Len(conn) -> Connection]
        BY <4>1, <3>1
      <4>3. c \in Seq(Connection)
        BY <4>2, <2>1
      <4>. QED
        BY <4>2, <4>3, <2>1, LenProperties
    <3>. HIDE DEF c
    <3>3. conn' = Append(c, Fresh)
      BY <2>2 DEF c
    <3>4. Len(conn) + 1 \in 0..(Len(conn) + 1)
      BY <2>1
    <3>5. camera' \in [on : 0..(Len(conn) + 1), loaded : {0} \cup Bundle]
      BY <3>4, <2>2, Shapes
    <3>. QED
      BY <3>2, <3>3, <3>5, <1>2
  <2>3. CASE conn' = Append(conn, Fresh) /\ UNCHANGED camera
    <3>1. 0..Len(conn) \subseteq 0..(Len(conn) + 1)
      BY <2>1
    <3>2. camera' \in [on : 0..(Len(conn) + 1), loaded : {0} \cup Bundle]
      BY <3>1, <2>3, Shapes
    <3>. QED
      BY <2>3, <3>2, <1>2, Shapes
  <2>. QED
    BY <2>2, <2>3 DEF Connect
<1>4. /\ links' \in 0..Len(conn') /\ camera' \in [on : 0..Len(conn'), loaded : {0} \cup Bundle]
  BY <1>3, Shapes DEF Connect
<1>5. link' \in LinkState' /\ attempt' \in Attempt'
  BY <1>3, Shapes DEF Connect, LinkState, Attempt
<1>. QED
  BY <1>0, <1>3, <1>4, <1>5 DEF Connect, TypeOK, LinkState, Attempt, Waiting

(* What a link's own task does with its connection.                             *)
LEMMA StageTyped ==
    ASSUME TypeOK, NEW g \in DOMAIN conn, NEW stage \in Stages, Stage(g, stage)
    PROVE  conn' \in Seq(Connection) /\ Len(conn') = Len(conn) /\ DOMAIN conn' = DOMAIN conn
<1>. DEFINE c == [conn[g] EXCEPT !.stage = stage]
<1>1. c \in Connection
  BY ConnectionIs, Staged
<1>2. conn' = [conn EXCEPT ![g] = c]
  BY DEF Stage
<1>. HIDE DEF c
<1>. QED
  BY <1>1, <1>2, Updated

LEMMA InsertTyped == ASSUME TypeOK, NEW g \in Link, Insert(g) PROVE TypeOK'
<1>1. conn' \in Seq(Connection) /\ Len(conn') = Len(conn) /\ DOMAIN conn' = DOMAIN conn
  BY StageTyped DEF Insert, Stages
<1>2. links' \in 0..Len(conn)
  BY Shapes DEF Insert
<1>. QED
  BY <1>1, <1>2, Shapes, SameConnections DEF Insert

LEMMA RegisterTyped == ASSUME TypeOK, NEW g \in Link, Register(g) PROVE TypeOK'
<1>1. conn' \in Seq(Connection) /\ Len(conn') = Len(conn) /\ DOMAIN conn' = DOMAIN conn
  BY StageTyped DEF Register, Stages
<1>2. link' \in LinkState
  BY Shapes, Registered DEF Register
<1>3. attempt' \in Attempt /\ (attempt'.stage \in {"send", "wait"} => attempt'.link # 0)
  BY Dropped, Shapes DEF Register
<1>. QED
  BY <1>1, <1>2, <1>3, Shapes, SameConnections DEF Register

LEMMA SupersededTyped == ASSUME TypeOK, NEW g \in Link, Superseded(g) PROVE TypeOK'
<1>1. conn' \in Seq(Connection) /\ Len(conn') = Len(conn) /\ DOMAIN conn' = DOMAIN conn
  BY StageTyped DEF Superseded, Serving, Stages
<1>. QED
  BY <1>1, Shapes, SameConnections DEF Superseded

LEMMA BrokenTyped == ASSUME TypeOK, NEW g \in Link, Broken(g) PROVE TypeOK'
<1>1. conn' \in Seq(Connection) /\ Len(conn') = Len(conn) /\ DOMAIN conn' = DOMAIN conn
  BY StageTyped DEF Broken, Serving, Stages
<1>2. left' \in [Bound -> Nat]
  BY LeftTyped DEF Next
<1>3. camera' \in [on : 0..Len(conn), loaded : {0} \cup Bundle]
  BY Shapes DEF Broken
<1>. QED
  BY <1>1, <1>2, <1>3, Shapes, SameConnections DEF Broken

LEMMA LeaveTyped == ASSUME TypeOK, NEW g \in Link, Leave(g) PROVE TypeOK'
<1>1. conn' \in Seq(Connection) /\ Len(conn') = Len(conn) /\ DOMAIN conn' = DOMAIN conn
  BY FreshIs, Updated DEF Leave
<1>2. link' \in LinkState
  <2>1. 0 \in 0..Len(conn)
    BY Shapes
  <2>. QED
    BY <2>1, Shapes, Registered DEF Leave
<1>3. attempt' \in Attempt /\ (attempt'.stage \in {"send", "wait"} => attempt'.link # 0)
  BY Dropped, Shapes DEF Leave
<1>4. camera' \in [on : 0..Len(conn), loaded : {0} \cup Bundle]
  BY Shapes DEF Leave
<1>. QED
  BY <1>1, <1>2, <1>3, <1>4, Shapes, SameConnections DEF Leave

(* What the camera does.                                                     *)
HelloReport(hash) == [type |-> "hello", hash |-> hash, ok |-> TRUE]
AckReport(hash, ok) == [type |-> "ack", hash |-> hash, ok |-> ok]

LEMMA ReportsAre ==
    ASSUME NEW hash \in {0} \cup Bundle, NEW ok \in BOOLEAN
    PROVE  HelloReport(hash) \in Report /\ AckReport(hash, ok) \in Report
BY DEF HelloReport, AckReport, Report

(* The camera says hello: its report joins those under way.                     *)
LEMMA HelloSays ==
    ASSUME TypeOK, Hello
    PROVE  LET up == Append(conn[camera.on].up, HelloReport(camera.loaded))
               c == [conn[camera.on] EXCEPT !.up = up]
           IN  /\ camera.on \in DOMAIN conn /\ up \in Seq(Report) /\ c \in Connection
               /\ c.queue = conn[camera.on].queue /\ c.down = conn[camera.on].down /\ c.up = up
               /\ conn' = [conn EXCEPT ![camera.on] = c]
<1>. DEFINE up == Append(conn[camera.on].up, HelloReport(camera.loaded))
            c == [conn[camera.on] EXCEPT !.up = up]
<1>1. camera.on \in DOMAIN conn
  BY Shapes DEF Hello
<1>2. conn[camera.on] \in Connection /\ conn[camera.on].up \in Seq(Report)
  BY <1>1, ConnectionIs DEF Connection, Report
<1>3. HelloReport(camera.loaded) \in Report
  BY Shapes, ReportsAre
<1>4. up \in Seq(Report)
  BY <1>2, <1>3, AppendProperties
<1>5. conn' = [conn EXCEPT ![camera.on] = c]
  BY DEF Hello, HelloReport
<1>. HIDE DEF up
<1>6. /\ c \in Connection /\ c.up = up
      /\ c.queue = conn[camera.on].queue /\ c.down = conn[camera.on].down
  BY <1>2, <1>4, Hears
<1>. QED
  BY <1>1, <1>4, <1>5, <1>6 DEF up

LEMMA HelloTyped == ASSUME TypeOK, Hello PROVE TypeOK'
<1>1. conn' \in Seq(Connection) /\ Len(conn') = Len(conn) /\ DOMAIN conn' = DOMAIN conn
  BY HelloSays, Updated
<1>. QED
  BY <1>1, Shapes, SameConnections DEF Hello

(* The camera takes a bundle and reports on it.                                 *)
LEMMA InstallSays ==
    ASSUME TypeOK, InstallBundle
    PROVE  LET g == camera.on
               b == Head(conn[g].down)
           IN  /\ g \in DOMAIN conn /\ conn[g].down # <<>> /\ conn[g].down \in Seq(Bundle)
               /\ b \in Bundle
               /\ \E ok \in BOOLEAN : \E c \in Connection :
                     /\ c.queue = conn[g].queue /\ c.down = Tail(conn[g].down)
                     /\ conn[g].up \in Seq(Report) /\ AckReport(b, ok) \in Report
                     /\ c.up = Append(conn[g].up, AckReport(b, ok))
                     /\ conn' = [conn EXCEPT ![g] = c]
                     /\ ok => camera' = [camera EXCEPT !.loaded = b]
                     /\ ~ok => UNCHANGED camera
<1>. DEFINE g == camera.on
            b == Head(conn[g].down)
            down == Tail(conn[g].down)
            up(ok) == Append(conn[g].up, AckReport(b, ok))
            c(ok) == [conn[g] EXCEPT !.down = down, !.up = up(ok)]
<1>1. g \in DOMAIN conn /\ conn[g].down # <<>>
  BY Shapes DEF InstallBundle
<1>2. conn[g] \in Connection /\ conn[g].up \in Seq(Report) /\ conn[g].down \in Seq(Bundle)
  BY <1>1, ConnectionIs DEF Connection, Report
<1>3. b \in Bundle /\ down \in Seq(Bundle)
  BY <1>1, <1>2, TailHolds
<1>4. ASSUME NEW ok \in BOOLEAN
      PROVE  AckReport(b, ok) \in Report /\ up(ok) \in Seq(Report)
  BY <1>2, <1>3, ReportsAre, AppendProperties
<1>5. \E ok \in BOOLEAN : /\ conn' = [conn EXCEPT ![g] = c(ok)]
                          /\ ok => camera' = [camera EXCEPT !.loaded = b]
                          /\ ~ok => UNCHANGED camera
  <2>1. CASE /\ conn' = [conn EXCEPT ![g].down = Tail(@),
                            ![g].up = Append(@, [type |-> "ack", hash |-> b, ok |-> TRUE])]
             /\ camera' = [camera EXCEPT !.loaded = b]
    BY <2>1, <1>1 DEF AckReport
  <2>2. CASE /\ conn' = [conn EXCEPT ![g].down = Tail(@),
                            ![g].up = Append(@, [type |-> "ack", hash |-> b, ok |-> FALSE])]
             /\ UNCHANGED camera
    BY <2>2, <1>1 DEF AckReport
  <2>. QED
    BY <2>1, <2>2 DEF InstallBundle
<1>. HIDE DEF b, down, up, g
<1>6. ASSUME NEW ok \in BOOLEAN
      PROVE  /\ c(ok) \in Connection /\ c(ok).queue = conn[g].queue
             /\ c(ok).down = down /\ c(ok).up = up(ok)
  BY <1>2, <1>3, <1>4 DEF Connection, Report
<1>. HIDE DEF c
<1>7. PICK ok \in BOOLEAN : /\ conn' = [conn EXCEPT ![g] = c(ok)]
                            /\ ok => camera' = [camera EXCEPT !.loaded = b]
                            /\ ~ok => UNCHANGED camera
  BY <1>5
<1>8. /\ c(ok) \in Connection /\ c(ok).queue = conn[g].queue /\ c(ok).down = down
      /\ conn[g].up \in Seq(Report) /\ AckReport(b, ok) \in Report /\ c(ok).up = up(ok)
  BY <1>2, <1>4, <1>6
<1>. QED
  BY <1>1, <1>2, <1>3, <1>7, <1>8 DEF b, down, up, g

LEMMA InstallTyped == ASSUME TypeOK, InstallBundle PROVE TypeOK'
<1>1. conn' \in Seq(Connection) /\ Len(conn') = Len(conn) /\ DOMAIN conn' = DOMAIN conn
  BY InstallSays, Updated
<1>2. camera' \in [on : 0..Len(conn), loaded : {0} \cup Bundle]
  BY Shapes, InstallSays
<1>3. left' \in [Bound -> Nat]
  BY LeftTyped DEF Next
<1>4. UNCHANGED <<links, link, attempt, wake, cached, overtaken>>
  BY DEF InstallBundle
<1>. QED
  BY <1>1, <1>2, <1>3, <1>4, Shapes, SameConnections

(* A report of the camera is taken up: what is under way is one less.             *)
LEMMA ReceiveTakes ==
    ASSUME TypeOK, NEW g \in Link, Receive(g)
    PROVE  /\ g \in DOMAIN conn /\ conn[g].up # <<>> /\ conn[g].up \in Seq(Report)
           /\ Head(conn[g].up) \in Report /\ Head(conn[g].up) = conn[g].up[1]
           /\ 1 \in DOMAIN conn[g].up
           /\ \E c \in Connection : /\ c.queue = conn[g].queue /\ c.down = conn[g].down
                                    /\ c.up = Tail(conn[g].up)
                                    /\ conn' = [conn EXCEPT ![g] = c]
<1>. DEFINE up == Tail(conn[g].up)
            c == [conn[g] EXCEPT !.up = up]
<1>1. g \in DOMAIN conn /\ conn[g].up # <<>>
  BY DEF Receive, Serving
<1>2. conn[g] \in Connection /\ conn[g].up \in Seq(Report)
  BY <1>1, ConnectionIs DEF Connection, Report
<1>3. /\ Head(conn[g].up) \in Report /\ Head(conn[g].up) = conn[g].up[1]
      /\ 1 \in DOMAIN conn[g].up /\ up \in Seq(Report)
  BY <1>1, <1>2, TailHolds
<1>4. conn' = [conn EXCEPT ![g] = c]
  BY DEF Receive
<1>. HIDE DEF up
<1>5. /\ c \in Connection /\ c.up = up
      /\ c.queue = conn[g].queue /\ c.down = conn[g].down
  BY <1>2, <1>3, Hears
<1>. HIDE DEF c
<1>. QED
  BY <1>1, <1>2, <1>3, <1>4, <1>5 DEF up

(* What control() does with a report of the registered link.                    *)
LEMMA Controlled ==
    ASSUME TypeOK, NEW m \in Report, ControlHello(m) \/ ControlAck(m)
    PROVE  /\ link' \in LinkState /\ attempt' \in Attempt /\ wake' \in BOOLEAN
           /\ attempt'.stage = attempt.stage /\ attempt'.link = attempt.link
           /\ attempt'.bundle = attempt.bundle
<1>. m.hash \in {0} \cup Bundle /\ m.ok \in BOOLEAN
  BY DEF Report
<1>1. CASE ControlHello(m)
  <2>1. link' \in LinkState
    BY <1>1, Shapes DEF ControlHello, LinkState
  <2>2. wake' \in BOOLEAN
    BY <1>1 DEF ControlHello
  <2>. QED
    BY <1>1, <2>1, <2>2, Shapes DEF ControlHello
<1>2. CASE ControlAck(m)
  <2>1. link' \in LinkState
    BY <1>2, Shapes DEF ControlAck, LinkState
  <2>2. /\ attempt' \in Attempt
        /\ attempt'.stage = attempt.stage /\ attempt'.link = attempt.link
        /\ attempt'.bundle = attempt.bundle
    BY <1>2, Shapes DEF ControlAck, Attempt
  <2>. QED
    BY <1>2, <2>1, <2>2, Shapes DEF ControlAck
<1>. QED
  BY <1>1, <1>2

LEMMA ReceiveTyped == ASSUME TypeOK, NEW g \in Link, Receive(g) PROVE TypeOK'
<1>1. conn' \in Seq(Connection) /\ Len(conn') = Len(conn) /\ DOMAIN conn' = DOMAIN conn
  BY ReceiveTakes, Updated
<1>2. UNCHANGED <<links, camera, cached, overtaken, left>>
  BY DEF Receive
<1>3. CASE UNCHANGED <<link, attempt, wake>>
  BY <1>1, <1>2, <1>3, Shapes, SameConnections
<1>4. CASE ControlHello(Head(conn[g].up)) \/ ControlAck(Head(conn[g].up))
  <2>1. /\ link' \in LinkState /\ attempt' \in Attempt /\ wake' \in BOOLEAN
        /\ attempt'.stage = attempt.stage /\ attempt'.link = attempt.link
    BY <1>4, ReceiveTakes, Controlled
  <2>. QED
    BY <1>1, <1>2, <2>1, Shapes, SameConnections
<1>. QED
  BY <1>3, <1>4 DEF Receive

(* A command goes out, or is given up with the connection.                       *)
LEMMA ForwardGives ==
    ASSUME TypeOK, NEW g \in Link, Forward(g)
    PROVE  /\ g \in DOMAIN conn /\ conn[g].queue # 0 /\ conn[g].queue \in Bundle
           /\ conn[g].down \in Seq(Bundle)
           /\ \E c \in Connection : /\ c.queue = 0 /\ c.up = conn[g].up
                                    /\ \/ c.down = conn[g].down
                                       \/ c.down = Append(conn[g].down, conn[g].queue)
                                    /\ conn' = [conn EXCEPT ![g] = c]
<1>. DEFINE stage == IF links = g THEN conn[g].stage ELSE "leaving"
            down == IF links = g /\ camera.on = g THEN Append(conn[g].down, conn[g].queue)
                                                  ELSE conn[g].down
            c == [conn[g] EXCEPT !.queue = 0, !.stage = stage, !.down = down]
<1>1. g \in DOMAIN conn /\ conn[g].queue # 0
  BY DEF Forward, Serving
<1>2. /\ conn[g] \in Connection /\ conn[g].down \in Seq(Bundle) /\ conn[g].queue \in Bundle
      /\ stage \in Stages
  BY <1>1, ConnectionIs DEF Connection, Stages
<1>3. down \in Seq(Bundle)
  BY <1>2, AppendProperties
<1>4. conn' = [conn EXCEPT ![g] = c]
  BY <1>1 DEF Forward
<1>5. down = conn[g].down \/ down = Append(conn[g].down, conn[g].queue)
  OBVIOUS
<1>. HIDE DEF stage, down
<1>6. c \in Connection /\ c.queue = 0 /\ c.down = down /\ c.up = conn[g].up
  BY <1>2, <1>3 DEF Connection, Stages
<1>. HIDE DEF c
<1>. QED
  BY <1>1, <1>2, <1>4, <1>5, <1>6

LEMMA ForwardTyped == ASSUME TypeOK, NEW g \in Link, Forward(g) PROVE TypeOK'
<1>1. conn' \in Seq(Connection) /\ Len(conn') = Len(conn) /\ DOMAIN conn' = DOMAIN conn
  BY ForwardGives, Updated
<1>. QED
  BY <1>1, Shapes, SameConnections DEF Forward

(* What the certificate task does.                                           *)
LEMMA TaskTyped ==
    ASSUME TypeOK,
           Wake \/ Interval \/ Renew \/ CheckFails \/ SyncReply \/ SyncTimeout \/ SyncEnd
    PROVE  TypeOK'
<1>1. conn' = conn /\ links' = links /\ camera' = camera /\ overtaken' = overtaken
  BY DEF Wake, Interval, Renew, CheckFails, SyncReply, SyncTimeout, SyncEnd
<1>2. left' \in [Bound -> Nat]
  BY LeftTyped DEF Next, Task
<1>3. attempt' \in Attempt /\ (attempt'.stage \in {"send", "wait"} => attempt'.link # 0)
  BY Shapes DEF Wake, Interval, Renew, CheckFails, SyncReply, SyncTimeout, SyncEnd, Until,
                Ended, Attempt, Waiting
<1>4. link' \in LinkState
  BY Shapes DEF Wake, Interval, Renew, CheckFails, SyncReply, SyncTimeout, SyncEnd, LinkState
<1>5. wake' \in BOOLEAN /\ cached' \in Bundle
  BY Shapes DEF Wake, Interval, Renew, CheckFails, SyncReply, SyncTimeout, SyncEnd
<1>. QED
  BY <1>1, <1>2, <1>3, <1>4, <1>5, Shapes, SameConnections

LEMMA BeginTyped == ASSUME TypeOK, SyncBegin PROVE TypeOK'
<1>1. link' \in LinkState
  BY Shapes DEF SyncBegin, LinkState
<1>2. attempt' \in Attempt /\ (attempt'.stage \in {"send", "wait"} => attempt'.link # 0)
  <2>1. link.generation \in 0..Len(conn)
    BY Shapes DEF LinkState
  <2>2. CASE Ended("no")
    BY <2>2, Shapes DEF Ended, Attempt
  <2>3. CASE attempt' = [attempt EXCEPT !.stage = "asleep", !.bundle = cached, !.reply = "ok"]
    BY <2>3, Shapes DEF Attempt
  <2>4. CASE /\ ~Offline
             /\ attempt' = [stage |-> "send", link |-> link.generation, bundle |-> cached,
                            reply |-> "none"]
    BY <2>1, <2>4, Shapes DEF Attempt, Offline
  <2>. QED
    BY <2>2, <2>3, <2>4 DEF SyncBegin
<1>. QED
  BY <1>1, <1>2, Shapes, SameConnections DEF SyncBegin

(* A command is put into the channel of a link that is still served.             *)
LEMMA SendQueues ==
    ASSUME TypeOK, SyncSend, ~UNCHANGED conn
    PROVE  LET g == attempt.link
               c == [conn[g] EXCEPT !.queue = attempt.bundle]
           IN  /\ g \in DOMAIN conn /\ c \in Connection /\ c.queue = attempt.bundle
               /\ c.down = conn[g].down /\ c.up = conn[g].up
               /\ conn' = [conn EXCEPT ![g] = c]
<1>1. attempt.link \in DOMAIN conn
  BY Shapes DEF SyncSend, Attempt
<1>2. conn[attempt.link] \in Connection /\ attempt.bundle \in {0} \cup Bundle
  BY <1>1, ConnectionIs, Shapes DEF Attempt
<1>3. conn' = [conn EXCEPT ![attempt.link].queue = attempt.bundle]
  BY DEF SyncSend
<1>. QED
  BY <1>1, <1>2, <1>3, Queued

LEMMA SendTyped == ASSUME TypeOK, SyncSend PROVE TypeOK'
<1>1. conn' \in Seq(Connection) /\ Len(conn') = Len(conn) /\ DOMAIN conn' = DOMAIN conn
  <2>1. CASE UNCHANGED conn
    BY <2>1, Shapes
  <2>2. CASE ~UNCHANGED conn
    BY <2>2, SendQueues, Updated
  <2>. QED
    BY <2>1, <2>2
<1>2. attempt' \in Attempt /\ (attempt'.stage \in {"send", "wait"} => attempt'.link # 0)
  BY Shapes DEF SyncSend, Until, Attempt
<1>. QED
  BY <1>1, <1>2, Shapes, SameConnections DEF SyncSend

-----------------------------------------------------------------------------
(* The actions of Next, one by one.                                           *)
LEMMA NextIs ==
    ASSUME Next
    PROVE  \/ Connect \/ Hello \/ InstallBundle
           \/ \E g \in Link : Insert(g) \/ Register(g) \/ Superseded(g) \/ Broken(g) \/ Leave(g)
                              \/ Receive(g) \/ Forward(g)
           \/ SyncBegin \/ SyncSend
           \/ (Wake \/ Interval \/ Renew \/ CheckFails \/ SyncReply \/ SyncTimeout \/ SyncEnd)
BY DEF Next, Loop, Task

LEMMA StepTyped == ASSUME TypeOK, [Next]_vars PROVE TypeOK'
<1>1. CASE UNCHANGED vars
  BY <1>1 DEF vars, TypeOK, Waiting
<1>2. CASE Next
  <2>1. ASSUME NEW g \in Link,
               Insert(g) \/ Register(g) \/ Superseded(g) \/ Broken(g) \/ Leave(g)
               \/ Receive(g) \/ Forward(g)
        PROVE  TypeOK'
    BY <2>1, InsertTyped, RegisterTyped, SupersededTyped, BrokenTyped, LeaveTyped, ReceiveTyped,
       ForwardTyped
  <2>. QED
    BY <1>2, <2>1, NextIs, ConnectTyped, HelloTyped, InstallTyped, BeginTyped, SendTyped,
       TaskTyped
<1>. QED
  BY <1>1, <1>2

THEOREM TypeCorrect == Spec => []TypeOK
<1>1. Init => TypeOK
  BY InitTyped
<1>2. TypeOK /\ [Next]_vars => TypeOK'
  BY StepTyped
<1>. QED
  BY <1>1, <1>2, PTL DEF Spec

-----------------------------------------------------------------------------
(* What is known of a connection c when the camera has loaded a bundle and the   *)
(* task has gone as far as another: the reports under way say nothing that is    *)
(* not so (yet), no command is beyond the attempt, and on the connection the     *)
(* camera uses, commands come in the order of their issue.                      *)
Honest(c, loaded) == \A i \in DOMAIN c.up :
    /\ c.up[i].type = "hello" => c.up[i].ok
    /\ c.up[i].ok => c.up[i].hash <= loaded

Within(c, bundle) == c.queue <= bundle /\ \A i \in DOMAIN c.down : c.down[i] <= bundle

Ordered(c, loaded) ==
    /\ \A i \in DOMAIN c.down : loaded <= c.down[i]
    /\ \A i, j \in DOMAIN c.down : i < j => c.down[i] <= c.down[j]
    /\ c.queue # 0 => loaded <= c.queue /\ \A i \in DOMAIN c.down : c.down[i] <= c.queue

Connections ==
    /\ \A g \in DOMAIN conn : Honest(conn[g], camera.loaded) /\ Within(conn[g], attempt.bundle)
    /\ camera.on # 0 => Ordered(conn[camera.on], camera.loaded)

Known ==
    /\ link.loaded <= camera.loaded
    /\ camera.loaded <= attempt.bundle
    /\ attempt.bundle <= cached
    /\ attempt.reply = "ok" => attempt.bundle <= camera.loaded
    /\ Waiting /\ attempt.link = link.generation /\ link.pending # 0
         => link.pending = attempt.bundle

Truth == Connections /\ Known

Numbers == /\ link.loaded \in Nat /\ link.pending \in Nat /\ camera.loaded \in Nat
           /\ attempt.bundle \in Nat /\ cached \in Nat
LEMMA AreNumbers == ASSUME TypeOK PROVE Numbers
BY Shapes, BundlesAre DEF Numbers, LinkState, Attempt

(* What a connection carries are numbers.                                       *)
LEMMA Carried ==
    ASSUME NEW c \in Connection
    PROVE  /\ c.queue \in Nat
           /\ c.down \in Seq(Bundle) /\ \A i \in DOMAIN c.down : c.down[i] \in Nat
           /\ c.up \in Seq(Report)
           /\ \A i \in DOMAIN c.up : c.up[i] \in Report /\ c.up[i].hash \in Nat
<1>1. c.queue \in {0} \cup Bundle /\ c.down \in Seq(Bundle) /\ c.up \in Seq(Report)
  BY DEF Connection, Report
<1>2. \A i \in DOMAIN c.down : c.down[i] \in Bundle
  BY <1>1
<1>3. \A i \in DOMAIN c.up : c.up[i] \in Report
  BY <1>1
<1>4. \A r \in Report : r.hash \in {0} \cup Bundle
  BY DEF Report
<1>. QED
  BY <1>1, <1>2, <1>3, <1>4, BundlesAre

(* A connection is as honest as before when the camera has loaded more, and as    *)
(* far within when the task has gone on.                                        *)
LEMMA StillHonest ==
    ASSUME NEW c \in Connection, NEW m \in Nat, NEW n \in Nat, m <= n, Honest(c, m)
    PROVE  Honest(c, n)
<1>1. \A i \in DOMAIN c.up : c.up[i].hash \in Nat
  BY Carried
<1>. QED
  BY <1>1 DEF Honest

LEMMA StillWithin ==
    ASSUME NEW c \in Connection, NEW m \in Nat, NEW n \in Nat, m <= n, Within(c, m)
    PROVE  Within(c, n)
<1>1. c.queue \in Nat /\ \A i \in DOMAIN c.down : c.down[i] \in Nat
  BY Carried
<1>. QED
  BY <1>1 DEF Within

LEMMA FreshIsHonest ==
    ASSUME NEW n \in Nat, NEW c \in {Fresh, Gone}
    PROVE  Honest(c, n) /\ Within(c, n) /\ Ordered(c, n)
BY FreshIs DEF Honest, Within, Ordered

(* A step that changes the stages of connections at most.                        *)
LEMMA SameTraffic ==
    ASSUME NEW c, NEW d, c.queue = d.queue, c.down = d.down, c.up = d.up, NEW n
    PROVE  /\ Honest(c, n) <=> Honest(d, n)
           /\ Within(c, n) <=> Within(d, n)
           /\ Ordered(c, n) <=> Ordered(d, n)
BY DEF Honest, Within, Ordered

(* One connection changes and stays honest; the camera and the task are where     *)
(* they were, or further on.                                                    *)
LEMMA OneConnection ==
    ASSUME TypeOK, TypeOK', Connections, NEW g \in DOMAIN conn, NEW c \in Connection,
           conn' = [conn EXCEPT ![g] = c],
           camera.loaded <= camera'.loaded, attempt.bundle <= attempt'.bundle,
           Honest(c, camera'.loaded), Within(c, attempt'.bundle),
           camera'.on # 0 =>
              \/ camera'.on = g /\ Ordered(c, camera'.loaded)
              \/ camera'.on = camera.on /\ camera'.on # g /\ camera'.loaded = camera.loaded
    PROVE  Connections'
<1>0. /\ camera.loaded \in Nat /\ camera'.loaded \in Nat
      /\ attempt.bundle \in Nat /\ attempt'.bundle \in Nat
  <2>1. Numbers /\ Numbers'
    BY AreNumbers, PTL
  <2>. QED
    BY <2>1 DEF Numbers
<1>1. DOMAIN conn' = DOMAIN conn /\ conn'[g] = c /\ \A h \in DOMAIN conn : h # g => conn'[h] = conn[h]
  BY Updated
<1>2. ASSUME NEW h \in DOMAIN conn'
      PROVE  Honest(conn'[h], camera'.loaded) /\ Within(conn'[h], attempt'.bundle)
  <2>1. CASE h = g
    BY <2>1, <1>1
  <2>2. CASE h # g
    <3>1. /\ conn'[h] = conn[h] /\ conn[h] \in Connection
          /\ Honest(conn[h], camera.loaded) /\ Within(conn[h], attempt.bundle)
      BY <2>2, <1>1, ConnectionIs DEF Connections
    <3>. QED
      BY <3>1, <1>0, StillHonest, StillWithin
  <2>. QED
    BY <2>1, <2>2
<1>3. ASSUME camera'.on # 0
      PROVE  Ordered(conn'[camera'.on], camera'.loaded)
  <2>1. CASE camera'.on = g /\ Ordered(c, camera'.loaded)
    BY <2>1, <1>1
  <2>2. CASE camera'.on = camera.on /\ camera'.on # g /\ camera'.loaded = camera.loaded
    <3>1. camera.on \in DOMAIN conn
      BY <2>2, <1>3, Shapes
    <3>. QED
      BY <3>1, <2>2, <1>1, <1>3 DEF Connections
  <2>. QED
    BY <2>1, <2>2, <1>3
<1>. QED
  BY <1>2, <1>3 DEF Connections

(* No connection changes.                                                      *)
LEMMA NoConnection ==
    ASSUME TypeOK, TypeOK', Connections, UNCHANGED <<conn, camera>>,
           attempt.bundle <= attempt'.bundle
    PROVE  Connections'
<1>0. attempt.bundle \in Nat /\ attempt'.bundle \in Nat
  <2>1. Numbers /\ Numbers'
    BY AreNumbers, PTL
  <2>. QED
    BY <2>1 DEF Numbers
<1>1. ASSUME NEW h \in DOMAIN conn
      PROVE  Honest(conn[h], camera.loaded) /\ Within(conn[h], attempt'.bundle)
  BY <1>0, ConnectionIs, StillWithin DEF Connections
<1>. QED
  BY <1>1 DEF Connections

(* Only the stage of a connection changes, and perhaps the camera leaves it.       *)
LEMMA StageTruth ==
    ASSUME TypeOK, TypeOK', Connections, NEW g \in DOMAIN conn, NEW stage \in Stages,
           Stage(g, stage), camera'.loaded = camera.loaded, camera'.on \in {0, camera.on},
           attempt'.bundle = attempt.bundle
    PROVE  Connections'
<1>. DEFINE c == [conn[g] EXCEPT !.stage = stage]
<1>1. /\ conn[g] \in Connection /\ c \in Connection
      /\ c.queue = conn[g].queue /\ c.down = conn[g].down /\ c.up = conn[g].up
  BY ConnectionIs, Staged
<1>2. conn' = [conn EXCEPT ![g] = c]
  BY DEF Stage
<1>. HIDE DEF c
<1>3. Honest(c, camera'.loaded) /\ Within(c, attempt'.bundle)
  BY <1>1, SameTraffic DEF Connections
<1>4. camera.on # 0 => Ordered(conn[camera.on], camera'.loaded)
  BY DEF Connections
<1>5. camera'.on = g => Ordered(c, camera'.loaded)
  <2>. SUFFICES ASSUME camera'.on = g PROVE Ordered(c, camera'.loaded)
    OBVIOUS
  <2>1. g # 0
    BY Shapes, BundlesAre
  <2>2. camera.on = g
    BY <2>1
  <2>. QED
    BY <1>1, <1>4, <2>1, <2>2, SameTraffic
<1>6. camera.loaded <= camera'.loaded /\ attempt.bundle <= attempt'.bundle
  BY AreNumbers DEF Numbers
<1>. QED
  BY <1>1, <1>2, <1>3, <1>5, <1>6, OneConnection

LEMMA InitTruth == Init => Truth
<1>. SUFFICES ASSUME Init PROVE Truth
  OBVIOUS
<1>1. DOMAIN conn = {} /\ camera.on = 0
  BY DEF Init
<1>2. /\ link.loaded = 0 /\ camera.loaded = 0 /\ attempt.bundle = 0 /\ attempt.reply = "none"
      /\ cached = 1 /\ ~Waiting
  BY DEF Init, NoLink, Waiting
<1>. QED
  BY <1>1, <1>2 DEF Truth, Connections, Known

LEMMA ConnectTruth == ASSUME TypeOK, TypeOK', Truth, Connect PROVE Truth'
<1>0. /\ camera.loaded \in Nat /\ attempt.bundle \in Nat
      /\ attempt' = attempt /\ camera'.loaded = camera.loaded
  BY AreNumbers, Shapes DEF Numbers, Connect
<1>1. Fresh \in Connection
  BY FreshIs
<1>2. /\ conn \in Seq(Connection) /\ DOMAIN conn = 1..Len(conn) /\ Len(conn) \in Nat
  BY Shapes
<1>3. ASSUME NEW c \in Seq(Connection), Len(c) = Len(conn), conn' = Append(c, Fresh),
             \A g \in DOMAIN conn :
                 Honest(c[g], camera.loaded) /\ Within(c[g], attempt.bundle)
      PROVE  /\ conn'[Len(conn) + 1] = Fresh /\ \A g \in DOMAIN conn : conn'[g] = c[g]
             /\ \A g \in DOMAIN conn' :
                   Honest(conn'[g], camera'.loaded) /\ Within(conn'[g], attempt'.bundle)
  <2>1. /\ DOMAIN conn' = 1..(Len(conn) + 1) /\ conn'[Len(conn) + 1] = Fresh
        /\ \A g \in DOMAIN conn : conn'[g] = c[g]
    BY <1>1, <1>2, <1>3, AppendHolds
  <2>2. Honest(Fresh, camera.loaded) /\ Within(Fresh, attempt.bundle)
    BY <1>0, FreshIsHonest
  <2>3. ASSUME NEW g \in DOMAIN conn'
        PROVE  Honest(conn'[g], camera'.loaded) /\ Within(conn'[g], attempt'.bundle)
    <3>1. g = Len(conn) + 1 \/ g \in DOMAIN conn
      BY <2>1, <1>2
    <3>. QED
      BY <3>1, <2>1, <2>2, <1>0, <1>3
  <2>. QED
    BY <2>1, <2>3
<1>4. CASE /\ conn' = Append([g \in DOMAIN conn |-> [conn[g] EXCEPT !.down = <<>>]], Fresh)
           /\ camera' = [camera EXCEPT !.on = Len(conn) + 1]
  <2>. DEFINE c == [g \in DOMAIN conn |-> [conn[g] EXCEPT !.down = <<>>]]
  <2>1. \A g \in DOMAIN conn : /\ [conn[g] EXCEPT !.down = <<>>] \in Connection
                               /\ [conn[g] EXCEPT !.down = <<>>].queue = conn[g].queue
                               /\ [conn[g] EXCEPT !.down = <<>>].up = conn[g].up
                               /\ [conn[g] EXCEPT !.down = <<>>].down = <<>>
    BY ConnectionIs, Cleared
  <2>2. c \in Seq(Connection) /\ Len(c) = Len(conn)
    <3>1. c \in [1..Len(conn) -> Connection]
      BY <1>2, <2>1
    <3>2. c \in Seq(Connection)
      BY <3>1, <1>2
    <3>. QED
      BY <3>1, <3>2, <1>2, LenProperties
  <2>3. ASSUME NEW g \in DOMAIN conn
        PROVE  Honest(c[g], camera.loaded) /\ Within(c[g], attempt.bundle)
    <3>1. c[g].queue = conn[g].queue /\ c[g].up = conn[g].up /\ c[g].down = <<>>
      BY <2>1
    <3>. QED
      BY <3>1 DEF Truth, Connections, Honest, Within
  <2>4. conn' = Append(c, Fresh)
    BY <1>4
  <2>. HIDE DEF c
  <2>5. /\ conn'[Len(conn) + 1] = Fresh
        /\ \A g \in DOMAIN conn' :
              Honest(conn'[g], camera'.loaded) /\ Within(conn'[g], attempt'.bundle)
    BY <2>2, <2>3, <2>4, <1>3
  <2>6. camera'.on = Len(conn) + 1
    BY <1>4, Shapes
  <2>7. Ordered(Fresh, camera'.loaded)
    BY <1>0, FreshIsHonest
  <2>. QED
    BY <1>0, <2>5, <2>6, <2>7 DEF Truth, Connections, Known, Connect, Waiting
<1>5. CASE conn' = Append(conn, Fresh) /\ UNCHANGED camera
  <2>1. /\ \A g \in DOMAIN conn : conn'[g] = conn[g]
        /\ \A g \in DOMAIN conn' :
              Honest(conn'[g], camera'.loaded) /\ Within(conn'[g], attempt'.bundle)
    BY <1>2, <1>3, <1>5 DEF Truth, Connections
  <2>2. camera.on # 0 => camera.on \in DOMAIN conn
    BY Shapes
  <2>. QED
    BY <1>0, <1>5, <2>1, <2>2 DEF Truth, Connections, Known, Connect, Waiting
<1>. QED
  BY <1>4, <1>5 DEF Connect

(* The tasks of the links.                                                    *)
LEMMA QuietTruth ==
    ASSUME TypeOK, TypeOK', Truth, NEW g \in Link, Insert(g) \/ Superseded(g) \/ Broken(g)
    PROVE  Truth'
<1>1. g \in DOMAIN conn /\ \E stage \in Stages : Stage(g, stage)
  BY DEF Insert, Superseded, Broken, Serving, Stages
<1>2. camera'.loaded = camera.loaded /\ camera'.on \in {0, camera.on}
  BY Shapes DEF Insert, Superseded, Broken
<1>3. UNCHANGED <<link, attempt, cached>>
  BY DEF Insert, Superseded, Broken
<1>4. Connections'
  BY <1>1, <1>2, <1>3, StageTruth DEF Truth
<1>. QED
  BY <1>2, <1>3, <1>4 DEF Truth, Known, Waiting

LEMMA RegisterTruth ==
    ASSUME TypeOK, TypeOK', Truth, NEW g \in Link, Register(g) PROVE Truth'
<1>1. g \in DOMAIN conn /\ Stage(g, "serving") /\ "serving" \in Stages
  BY DEF Register, Stages
<1>2. /\ attempt'.bundle = attempt.bundle /\ attempt'.reply \in {attempt.reply, "no"}
      /\ UNCHANGED <<camera, cached>> /\ link'.loaded = 0 /\ link'.pending = 0
  BY Dropped DEF Register, NoLink
<1>3. Connections'
  BY <1>1, <1>2, StageTruth DEF Truth
<1>4. camera.loaded \in Nat
  BY AreNumbers DEF Numbers
<1>. QED
  BY <1>2, <1>3, <1>4 DEF Truth, Known, Waiting

LEMMA LeaveTruth ==
    ASSUME TypeOK, TypeOK', Truth, NEW g \in Link, Leave(g) PROVE Truth'
<1>1. /\ g \in DOMAIN conn /\ Gone \in Connection /\ conn' = [conn EXCEPT ![g] = Gone]
  BY FreshIs DEF Leave
<1>2. /\ camera'.on = 0 \/ (camera'.on = camera.on /\ camera'.on # g)
      /\ camera'.loaded = camera.loaded /\ cached' = cached
  BY Shapes DEF Leave
<1>3. /\ attempt'.bundle = attempt.bundle /\ attempt'.reply \in {attempt.reply, "no"}
      /\ attempt'.stage = attempt.stage /\ attempt'.link = attempt.link
      /\ link' = link \/ (link'.loaded = 0 /\ link'.pending = 0)
  BY Dropped DEF Leave, NoLink
<1>4. camera.loaded \in Nat /\ attempt.bundle \in Nat
  BY AreNumbers DEF Numbers
<1>5. Honest(Gone, camera.loaded) /\ Within(Gone, attempt.bundle)
  BY <1>4, FreshIsHonest
<1>6. Connections'
  <2>1. Honest(Gone, camera'.loaded) /\ Within(Gone, attempt'.bundle)
    BY <1>2, <1>3, <1>5
  <2>2. camera.loaded <= camera'.loaded /\ attempt.bundle <= attempt'.bundle
    BY <1>2, <1>3, <1>4
  <2>3. camera'.on # 0 =>
          camera'.on = camera.on /\ camera'.on # g /\ camera'.loaded = camera.loaded
    BY <1>2
  <2>4. Connections
    BY DEF Truth
  <2>. QED
    BY <1>1, <2>1, <2>2, <2>3, <2>4, OneConnection
<1>. QED
  BY <1>2, <1>3, <1>4, <1>6 DEF Truth, Known, Waiting

LEMMA HelloTruth == ASSUME TypeOK, TypeOK', Truth, Hello PROVE Truth'
<1>. DEFINE g == camera.on
            report == HelloReport(camera.loaded)
<1>1. UNCHANGED <<link, attempt, camera, cached>>
  BY DEF Hello
<1>2. PICK c \in Connection :
        /\ g \in DOMAIN conn /\ conn[g].up \in Seq(Report) /\ report \in Report
        /\ c.queue = conn[g].queue /\ c.down = conn[g].down
        /\ c.up = Append(conn[g].up, report) /\ conn' = [conn EXCEPT ![g] = c]
  <2>1. camera.on \in DOMAIN conn
    BY HelloSays
  <2>2. conn[g].up \in Seq(Report)
    BY <2>1, ConnectionIs DEF Connection, Report
  <2>3. report \in Report
    BY Shapes, ReportsAre
  <2>. QED
    BY <2>1, <2>2, <2>3, HelloSays
<1>3. camera.loaded \in Nat /\ attempt.bundle \in Nat
  BY AreNumbers DEF Numbers
<1>4. g # 0 /\ Honest(conn[g], camera.loaded) /\ Within(conn[g], attempt.bundle)
      /\ Ordered(conn[g], camera.loaded)
  BY <1>2 DEF Truth, Connections, Hello
<1>5. Honest(c, camera.loaded)
  <2>1. /\ DOMAIN c.up = 1..(Len(conn[g].up) + 1) /\ DOMAIN conn[g].up = 1..Len(conn[g].up)
        /\ Len(conn[g].up) \in Nat /\ c.up[Len(conn[g].up) + 1] = report
        /\ \A i \in DOMAIN conn[g].up : c.up[i] = conn[g].up[i]
    BY <1>2, AppendHolds
  <2>2. report.ok /\ report.hash <= camera.loaded
    BY <1>3 DEF HelloReport
  <2>3. \A i \in DOMAIN c.up : i \in DOMAIN conn[g].up \/ i = Len(conn[g].up) + 1
    BY <2>1
  <2>. QED
    BY <2>1, <2>2, <2>3, <1>4 DEF Honest
<1>6. Within(c, attempt.bundle) /\ Ordered(c, camera.loaded)
  BY <1>2, <1>4 DEF Within, Ordered
<1>7. Connections'
  <2>. HIDE DEF g
  <2>1. camera'.on # 0 => camera'.on = g /\ Ordered(c, camera'.loaded)
    BY <1>1, <1>6 DEF g
  <2>2. g \in DOMAIN conn /\ conn' = [conn EXCEPT ![g] = c]
    BY <1>2
  <2>3. camera.loaded <= camera'.loaded /\ attempt.bundle <= attempt'.bundle
    BY <1>1, <1>3
  <2>. QED
    BY <1>1, <1>5, <1>6, <2>1, <2>2, <2>3, OneConnection DEF Truth
<1>. QED
  BY <1>1, <1>7 DEF Truth, Known, Waiting

LEMMA InstallTruth == ASSUME TypeOK, TypeOK', Truth, InstallBundle PROVE Truth'
<1>. DEFINE g == camera.on
            b == Head(conn[g].down)
            down == conn[g].down
            up == conn[g].up
<1>1. UNCHANGED <<link, attempt, cached>> /\ g # 0
  BY DEF InstallBundle
<1>2. /\ g \in DOMAIN conn /\ down # <<>> /\ down \in Seq(Bundle) /\ b \in Bundle
      /\ up \in Seq(Report) /\ conn[g] \in Connection
  BY InstallSays, ConnectionIs DEF Connection, Report
<1>3. PICK ok \in BOOLEAN : \E c \in Connection :
        /\ c.queue = conn[g].queue /\ c.down = Tail(down)
        /\ AckReport(b, ok) \in Report
        /\ c.up = Append(up, AckReport(b, ok)) /\ conn' = [conn EXCEPT ![g] = c]
        /\ ok => camera' = [camera EXCEPT !.loaded = b]
        /\ ~ok => UNCHANGED camera
  BY InstallSays
<1>4. PICK c \in Connection :
        /\ c.queue = conn[g].queue /\ c.down = Tail(down)
        /\ AckReport(b, ok) \in Report
        /\ c.up = Append(up, AckReport(b, ok)) /\ conn' = [conn EXCEPT ![g] = c]
        /\ ok => camera' = [camera EXCEPT !.loaded = b]
        /\ ~ok => UNCHANGED camera
  BY <1>3
<1>5. /\ camera.loaded \in Nat /\ attempt.bundle \in Nat /\ b \in Nat
      /\ c.queue \in Nat /\ \A i \in DOMAIN down : down[i] \in Nat
      /\ link.loaded \in Nat
  BY <1>2, AreNumbers, BundlesAre, Carried DEF Numbers
<1>6. Honest(conn[g], camera.loaded) /\ Within(conn[g], attempt.bundle)
      /\ Ordered(conn[g], camera.loaded)
  BY <1>1, <1>2 DEF Truth, Connections
<1>7. /\ 1 \in DOMAIN down /\ b = down[1] /\ DOMAIN down = 1..Len(down) /\ Len(down) \in Nat
      /\ DOMAIN c.down = 1..(Len(down) - 1)
      /\ \A i \in DOMAIN c.down : i + 1 \in DOMAIN down /\ c.down[i] = down[i + 1]
  <2>. HIDE DEF b, down, up
  <2>1. /\ 1 \in DOMAIN down /\ Head(down) = down[1] /\ DOMAIN down = 1..Len(down)
        /\ Len(down) \in Nat /\ DOMAIN Tail(down) = 1..(Len(down) - 1)
        /\ \A i \in DOMAIN Tail(down) : i + 1 \in DOMAIN down /\ Tail(down)[i] = down[i + 1]
    BY <1>2, TailHolds
  <2>2. b = Head(down)
    BY DEF b, down
  <2>. QED
    BY <1>4, <2>1, <2>2
<1>8. /\ DOMAIN c.up = 1..(Len(up) + 1) /\ DOMAIN up = 1..Len(up) /\ Len(up) \in Nat
      /\ c.up[Len(up) + 1] = AckReport(b, ok) /\ \A i \in DOMAIN up : c.up[i] = up[i]
  <2>. HIDE DEF b, down, up
  <2>. QED
    BY <1>2, <1>4, AppendHolds
<1>. HIDE DEF b, g
<1>9. camera'.on = g /\ camera'.loaded = IF ok THEN b ELSE camera.loaded
  <2>1. camera'.on = camera.on /\ (ok => camera'.loaded = b) /\ (~ok => camera'.loaded = camera.loaded)
    BY <1>4, Shapes
  <2>. QED
    BY <2>1 DEF g
<1>10. /\ camera.loaded <= camera'.loaded /\ camera'.loaded \in Nat
       /\ camera'.loaded <= attempt.bundle
       /\ (ok => b <= camera'.loaded) /\ camera'.loaded <= b
  <2>1. camera.loaded <= b /\ b <= attempt.bundle
    BY <1>6, <1>7 DEF Ordered, Within
  <2>2. camera.loaded <= attempt.bundle
    BY DEF Truth, Known
  <2>. QED
    BY <2>1, <2>2, <1>5, <1>9
<1>11. Honest(c, camera'.loaded)
  <2>1. Honest(conn[g], camera'.loaded)
    BY <1>2, <1>5, <1>6, <1>10, StillHonest
  <2>2. AckReport(b, ok).type # "hello" /\ AckReport(b, ok).hash = b /\ AckReport(b, ok).ok = ok
    BY DEF AckReport
  <2>3. \A i \in DOMAIN c.up : i \in DOMAIN up \/ i = Len(up) + 1
    BY <1>8
  <2>4. ok => b <= camera'.loaded
    BY <1>10
  <2>. QED
    BY <1>8, <2>1, <2>2, <2>3, <2>4 DEF Honest
<1>12. Within(c, attempt.bundle)
  BY <1>4, <1>6, <1>7 DEF Within
<1>13. Ordered(c, camera'.loaded)
  <2>1. \A i \in DOMAIN c.down : b <= c.down[i] /\ c.down[i] \in Nat
    <3>1. \A i \in DOMAIN c.down : 1 < i + 1 /\ i \in Nat
      BY <1>7
    <3>. QED
      BY <1>5, <1>6, <1>7, <3>1 DEF Ordered
  <2>2. \A i \in DOMAIN c.down : camera'.loaded <= c.down[i]
    BY <1>5, <1>10, <2>1
  <2>3. \A i, j \in DOMAIN c.down : i < j => c.down[i] <= c.down[j]
    <3>1. \A i, j \in DOMAIN c.down : i < j => i + 1 < j + 1
      BY <1>7
    <3>. QED
      BY <1>6, <1>7, <3>1 DEF Ordered
  <2>4. c.queue # 0 => camera'.loaded <= c.queue
    <3>1. c.queue # 0 => b <= c.queue
      BY <1>4, <1>6, <1>7 DEF Ordered
    <3>. QED
      BY <3>1, <1>5, <1>10
  <2>5. c.queue # 0 => \A i \in DOMAIN c.down : c.down[i] <= c.queue
    BY <1>4, <1>6, <1>7 DEF Ordered
  <2>. QED
    BY <2>2, <2>3, <2>4, <2>5 DEF Ordered
<1>14. Connections'
  <2>1. Within(c, attempt'.bundle) /\ attempt.bundle <= attempt'.bundle
    BY <1>1, <1>5, <1>12
  <2>2. camera'.on # 0 => camera'.on = g /\ Ordered(c, camera'.loaded)
    BY <1>9, <1>13
  <2>3. g \in DOMAIN conn /\ conn' = [conn EXCEPT ![g] = c] /\ Connections
    BY <1>2, <1>4 DEF Truth
  <2>. QED
    BY <1>10, <1>11, <2>1, <2>2, <2>3, OneConnection
<1>. QED
  <2>1. link.loaded <= camera'.loaded
    BY <1>5, <1>10 DEF Truth, Known
  <2>2. attempt.reply = "ok" => attempt.bundle <= camera'.loaded
    BY <1>5, <1>10 DEF Truth, Known
  <2>. QED
    BY <1>1, <1>10, <1>14, <2>1, <2>2 DEF Truth, Known, Waiting

LEMMA ForwardTruth ==
    ASSUME TypeOK, TypeOK', Truth, NEW g \in Link, Forward(g) PROVE Truth'
<1>. DEFINE down == conn[g].down
            queue == conn[g].queue
<1>1. UNCHANGED <<link, attempt, camera, cached>>
  BY DEF Forward
<1>2. /\ g \in DOMAIN conn /\ queue # 0 /\ queue \in Bundle /\ down \in Seq(Bundle)
      /\ conn[g] \in Connection
  BY ForwardGives, ConnectionIs
<1>3. PICK c \in Connection :
        /\ c.queue = 0 /\ c.up = conn[g].up
        /\ c.down = down \/ c.down = Append(down, queue)
        /\ conn' = [conn EXCEPT ![g] = c]
  BY ForwardGives
<1>4. /\ camera.loaded \in Nat /\ attempt.bundle \in Nat /\ queue \in Nat /\ g # 0
  BY <1>2, AreNumbers, BundlesAre DEF Numbers
<1>5. Honest(conn[g], camera.loaded) /\ Within(conn[g], attempt.bundle)
      /\ (camera.on = g => Ordered(conn[g], camera.loaded))
  BY <1>2, <1>4 DEF Truth, Connections
<1>6. Honest(c, camera.loaded)
  BY <1>3, <1>5 DEF Honest
<1>7. Within(c, attempt.bundle) /\ (camera.on = g => Ordered(c, camera.loaded))
  <2>1. CASE c.down = down
    BY <2>1, <1>3, <1>4, <1>5 DEF Within, Ordered
  <2>2. CASE c.down = Append(down, queue)
    <3>1. /\ DOMAIN c.down = 1..(Len(down) + 1) /\ DOMAIN down = 1..Len(down)
          /\ Len(down) \in Nat /\ c.down[Len(down) + 1] = queue
          /\ \A i \in DOMAIN down : c.down[i] = down[i]
      <4>. HIDE DEF down, queue
      <4>. QED
        BY <1>2, <2>2, AppendHolds
    <3>2. \A i \in DOMAIN c.down : i \in DOMAIN down \/ i = Len(down) + 1
      BY <3>1
    <3>3. Within(c, attempt.bundle)
      BY <1>3, <1>4, <1>5, <3>1, <3>2 DEF Within
    <3>4. ASSUME camera.on = g PROVE Ordered(c, camera.loaded)
      <4>1. Ordered(conn[g], camera.loaded)
        BY <3>4, <1>5
      <4>2. \A i \in DOMAIN c.down : camera.loaded <= c.down[i]
        BY <1>2, <3>1, <3>2, <4>1 DEF Ordered
      <4>3. \A i \in DOMAIN down : down[i] <= queue
        BY <1>2, <4>1 DEF Ordered
      <4>4. \A i, j \in DOMAIN c.down : i < j => i \in DOMAIN down
        BY <3>1
      <4>5. \A i, j \in DOMAIN c.down : i < j => c.down[i] <= c.down[j]
        <5>. SUFFICES ASSUME NEW i \in DOMAIN c.down, NEW j \in DOMAIN c.down, i < j
                      PROVE  c.down[i] <= c.down[j]
          OBVIOUS
        <5>1. i \in DOMAIN down /\ c.down[i] = down[i]
          BY <4>4, <3>1
        <5>2. CASE j \in DOMAIN down
          BY <5>1, <5>2, <3>1, <4>1 DEF Ordered
        <5>3. CASE j = Len(down) + 1
          BY <5>1, <5>3, <3>1, <4>3
        <5>. QED
          BY <5>2, <5>3, <3>2
      <4>. QED
        BY <1>3, <4>2, <4>5 DEF Ordered
    <3>. QED
      BY <3>3, <3>4
  <2>. QED
    BY <1>3, <2>1, <2>2
<1>8. Connections'
  <2>1. camera'.on # 0 =>
              \/ camera'.on = g /\ Ordered(c, camera'.loaded)
              \/ camera'.on = camera.on /\ camera'.on # g /\ camera'.loaded = camera.loaded
    BY <1>1, <1>7
  <2>2. g \in DOMAIN conn /\ conn' = [conn EXCEPT ![g] = c] /\ Connections
    BY <1>2, <1>3 DEF Truth
  <2>3. camera.loaded <= camera'.loaded /\ attempt.bundle <= attempt'.bundle
    BY <1>1, <1>4
  <2>. QED
    BY <1>1, <1>6, <1>7, <2>1, <2>2, <2>3, OneConnection
<1>. QED
  BY <1>1, <1>8 DEF Truth, Known, Waiting

(* A report is taken up by the hub: what it says is so.                          *)
LEMMA ReceiveTruth ==
    ASSUME TypeOK, TypeOK', Truth, NEW g \in Link, Receive(g) PROVE Truth'
<1>. DEFINE up == conn[g].up
            m == Head(conn[g].up)
<1>1. UNCHANGED <<camera, cached>>
  BY DEF Receive
<1>2. /\ g \in DOMAIN conn /\ up # <<>> /\ up \in Seq(Report) /\ m \in Report
      /\ m = up[1] /\ 1 \in DOMAIN up
  BY ReceiveTakes
<1>3. PICK c \in Connection :
        /\ c.queue = conn[g].queue /\ c.down = conn[g].down
        /\ c.up = Tail(conn[g].up) /\ conn' = [conn EXCEPT ![g] = c]
  BY ReceiveTakes
<1>4. /\ camera.loaded \in Nat /\ attempt.bundle \in Nat /\ g # 0
      /\ m.hash \in {0} \cup Bundle /\ m.ok \in BOOLEAN
  BY <1>2, AreNumbers, BundlesAre DEF Numbers, Report
<1>5. Honest(conn[g], camera.loaded) /\ Within(conn[g], attempt.bundle)
      /\ (camera.on = g => Ordered(conn[g], camera.loaded))
  BY <1>2, <1>4 DEF Truth, Connections
<1>6. (m.type = "hello" => m.ok) /\ (m.ok => m.hash <= camera.loaded)
  BY <1>2, <1>5 DEF Honest
<1>7. Honest(c, camera.loaded)
  <2>1. \A i \in DOMAIN c.up : i + 1 \in DOMAIN up /\ c.up[i] = up[i + 1]
    BY <1>2, <1>3, TailHolds
  <2>. QED
    BY <2>1, <1>5 DEF Honest
<1>8. Within(c, attempt.bundle) /\ (camera.on = g => Ordered(c, camera.loaded))
  BY <1>3, <1>5 DEF Within, Ordered
<1>9. attempt'.bundle = attempt.bundle /\ attempt'.stage = attempt.stage
      /\ attempt'.link = attempt.link
  <2>1. CASE UNCHANGED attempt
    BY <2>1
  <2>2. CASE ControlHello(m) \/ ControlAck(m)
    BY <2>2, <1>2, Controlled
  <2>. QED
    BY <2>1, <2>2 DEF Receive
<1>10. Connections'
  <2>1. camera'.on # 0 =>
              \/ camera'.on = g /\ Ordered(c, camera'.loaded)
              \/ camera'.on = camera.on /\ camera'.on # g /\ camera'.loaded = camera.loaded
    BY <1>1, <1>8
  <2>2. g \in DOMAIN conn /\ conn' = [conn EXCEPT ![g] = c] /\ Connections
    BY <1>2, <1>3 DEF Truth
  <2>3. camera.loaded <= camera'.loaded /\ attempt.bundle <= attempt'.bundle
    BY <1>1, <1>4, <1>9
  <2>4. Honest(c, camera'.loaded) /\ Within(c, attempt'.bundle)
    BY <1>1, <1>7, <1>8, <1>9
  <2>. QED
    BY <2>1, <2>2, <2>3, <2>4, OneConnection
<1>11. Known'
  <2>1. CASE UNCHANGED <<link, attempt>>
    BY <2>1, <1>1 DEF Truth, Known, Waiting
  <2>2. CASE ControlHello(m)
    <3>1. /\ link'.loaded = m.hash /\ link'.pending = link.pending
          /\ link'.generation = link.generation /\ attempt' = attempt
      BY <2>2, Shapes DEF ControlHello, LinkState
    <3>2. m.hash <= camera.loaded
      BY <2>2, <1>6 DEF ControlHello
    <3>. QED
      BY <1>1, <3>1, <3>2 DEF Truth, Known, Waiting
  <2>3. CASE ControlAck(m) /\ ~UNCHANGED <<link, attempt>>
    <3>1. /\ link.pending # 0 /\ link.pending = m.hash
          /\ link' = [link EXCEPT !.pending = 0, !.loaded = IF m.ok THEN m.hash ELSE @]
          /\ attempt' = IF Waiting /\ attempt.link = link.generation
                        THEN [attempt EXCEPT !.reply = IF m.ok THEN "ok" ELSE "no"]
                        ELSE attempt
      BY <2>3 DEF ControlAck, Matches
    <3>2. /\ link'.pending = 0 /\ link'.loaded \in {link.loaded, m.hash}
          /\ (link'.loaded = m.hash /\ m.ok) \/ link'.loaded = link.loaded
      BY <3>1, Shapes DEF LinkState
    <3>3. link'.loaded <= camera.loaded
      BY <3>2, <1>6 DEF Truth, Known
    <3>4. attempt'.reply = "ok" => attempt.bundle <= camera.loaded
      <4>1. CASE Waiting /\ attempt.link = link.generation
        <5>1. m.hash = attempt.bundle
          BY <3>1, <4>1 DEF Truth, Known
        <5>2. attempt'.reply = "ok" => m.ok
          BY <3>1, <4>1, Shapes DEF Attempt
        <5>. QED
          BY <5>1, <5>2, <1>6
      <4>2. CASE ~(Waiting /\ attempt.link = link.generation)
        BY <3>1, <4>2 DEF Truth, Known
      <4>. QED
        BY <4>1, <4>2
    <3>. QED
      BY <1>1, <1>9, <3>2, <3>3, <3>4 DEF Truth, Known
  <2>. QED
    BY <2>1, <2>2, <2>3 DEF Receive
<1>. QED
  BY <1>10, <1>11 DEF Truth

(* The certificate task.                                                      *)
LEMMA TaskTruth ==
    ASSUME TypeOK, TypeOK', Truth,
           Wake \/ Interval \/ Renew \/ CheckFails \/ SyncReply \/ SyncTimeout \/ SyncEnd
    PROVE  Truth'
<1>0. Numbers
  BY AreNumbers
<1>1. UNCHANGED <<conn, camera>>
  BY DEF Wake, Interval, Renew, CheckFails, SyncReply, SyncTimeout, SyncEnd
<1>2. attempt'.bundle = attempt.bundle /\ attempt'.link = attempt.link
      /\ attempt'.reply \in {attempt.reply, "no"}
      /\ (Waiting' => Waiting)
  BY Shapes DEF Wake, Interval, Renew, CheckFails, SyncReply, SyncTimeout, SyncEnd, Until, Ended,
                Attempt, Waiting
<1>3. link'.loaded = link.loaded /\ link'.pending \in {link.pending, 0}
      /\ link'.generation = link.generation
  BY Shapes DEF Wake, Interval, Renew, CheckFails, SyncReply, SyncTimeout, SyncEnd, LinkState
<1>4. cached' \in {cached, cached + 1}
  BY DEF Wake, Interval, Renew, CheckFails, SyncReply, SyncTimeout, SyncEnd
<1>5. Connections'
  BY <1>0, <1>1, <1>2, NoConnection DEF Truth, Numbers
<1>6. attempt'.bundle <= cached'
  BY <1>0, <1>2, <1>4 DEF Truth, Known, Numbers
<1>. QED
  BY <1>0, <1>1, <1>2, <1>3, <1>5, <1>6 DEF Truth, Known, Numbers

LEMMA BeginTruth == ASSUME TypeOK, TypeOK', Truth, SyncBegin PROVE Truth'
<1>0. Numbers
  BY AreNumbers
<1>1. UNCHANGED <<conn, camera, cached>>
  BY DEF SyncBegin
<1>2. CASE Ended("no") /\ UNCHANGED link
  <2>1. /\ attempt'.bundle = attempt.bundle /\ attempt'.reply = "no" /\ ~Waiting'
    BY <1>2, Shapes DEF Ended, Attempt, Waiting
  <2>2. Connections'
    BY <1>0, <1>1, <2>1, NoConnection DEF Truth, Numbers
  <2>. QED
    BY <1>1, <1>2, <2>1, <2>2 DEF Truth, Known
<1>3. CASE /\ link.loaded = cached /\ UNCHANGED link
           /\ attempt' = [attempt EXCEPT !.stage = "asleep", !.bundle = cached, !.reply = "ok"]
  <2>1. /\ attempt'.bundle = cached /\ ~Waiting'
    BY <1>3, Shapes DEF Attempt, Waiting
  <2>2. /\ attempt.bundle <= attempt'.bundle /\ camera.loaded <= cached
        /\ cached <= camera.loaded
    BY <1>0, <1>3, <2>1 DEF Truth, Known, Numbers
  <2>3. Connections'
    BY <1>1, <2>2, NoConnection DEF Truth
  <2>4. cached <= cached
    BY <1>0 DEF Numbers
  <2>. QED
    BY <1>1, <1>3, <2>1, <2>2, <2>3, <2>4 DEF Truth, Known
<1>4. CASE /\ link' = [link EXCEPT !.pending = cached]
           /\ attempt' = [stage |-> "send", link |-> link.generation, bundle |-> cached,
                          reply |-> "none"]
  <2>1. /\ attempt'.bundle = cached /\ attempt'.reply = "none"
        /\ link'.pending = cached /\ link'.loaded = link.loaded
    BY <1>4, Shapes DEF LinkState
  <2>2. /\ attempt.bundle <= attempt'.bundle /\ camera.loaded <= cached /\ cached <= cached
    BY <1>0, <2>1 DEF Truth, Known, Numbers
  <2>3. Connections'
    BY <1>1, <2>2, NoConnection DEF Truth
  <2>. QED
    BY <1>1, <2>1, <2>2, <2>3 DEF Truth, Known
<1>. QED
  BY <1>2, <1>3, <1>4 DEF SyncBegin

LEMMA SendTruth == ASSUME TypeOK, TypeOK', Truth, SyncSend PROVE Truth'
<1>0. Numbers
  BY AreNumbers
<1>1. UNCHANGED <<link, camera, cached>>
  BY DEF SyncSend
<1>2. /\ attempt'.bundle = attempt.bundle /\ attempt'.link = attempt.link
      /\ attempt'.reply \in {attempt.reply, "no"} /\ Waiting
  BY Shapes DEF SyncSend, Until, Attempt, Waiting
<1>3. Connections'
  <2>1. CASE UNCHANGED conn
    BY <2>1, <1>0, <1>1, <1>2, NoConnection DEF Truth, Numbers
  <2>2. CASE ~UNCHANGED conn
    <3>. DEFINE g == attempt.link
    <3>1. PICK c \in Connection :
            /\ c.queue = attempt.bundle /\ c.down = conn[g].down /\ c.up = conn[g].up
            /\ g \in DOMAIN conn /\ conn' = [conn EXCEPT ![g] = c]
      BY <2>2, SendQueues
    <3>2. g # 0
      BY <3>1, Shapes, BundlesAre
    <3>3. Honest(conn[g], camera.loaded) /\ Within(conn[g], attempt.bundle)
          /\ (camera.on = g => Ordered(conn[g], camera.loaded))
      BY <3>1, <3>2 DEF Truth, Connections
    <3>4. attempt.bundle <= attempt.bundle /\ camera.loaded <= attempt.bundle
          /\ camera.loaded <= camera.loaded
      BY <1>0 DEF Numbers, Truth, Known
    <3>5. Honest(c, camera.loaded) /\ Within(c, attempt.bundle)
      BY <3>1, <3>3, <3>4 DEF Honest, Within
    <3>6. camera.on = g => Ordered(c, camera.loaded)
      BY <3>1, <3>3, <3>4 DEF Within, Ordered
    <3>. HIDE DEF g
    <3>7. camera'.on # 0 =>
              \/ camera'.on = g /\ Ordered(c, camera'.loaded)
              \/ camera'.on = camera.on /\ camera'.on # g /\ camera'.loaded = camera.loaded
      BY <1>1, <3>6
    <3>8. camera.loaded <= camera'.loaded /\ attempt.bundle <= attempt'.bundle
          /\ Honest(c, camera'.loaded) /\ Within(c, attempt'.bundle) /\ Connections
      BY <1>1, <1>2, <3>4, <3>5 DEF Truth
    <3>. QED
      BY <3>1, <3>7, <3>8, OneConnection
  <2>. QED
    BY <2>1, <2>2
<1>. QED
  BY <1>1, <1>2, <1>3 DEF Truth, Known

-----------------------------------------------------------------------------
LEMMA StepTruth == ASSUME TypeOK, TypeOK', Truth, [Next]_vars PROVE Truth'
<1>1. CASE UNCHANGED vars
  BY <1>1 DEF vars, Truth, Connections, Known, Waiting
<1>2. CASE Next
  <2>1. ASSUME NEW g \in Link,
               Insert(g) \/ Register(g) \/ Superseded(g) \/ Broken(g) \/ Leave(g)
               \/ Receive(g) \/ Forward(g)
        PROVE  Truth'
    BY <2>1, QuietTruth, RegisterTruth, LeaveTruth, ReceiveTruth, ForwardTruth
  <2>. QED
    BY <1>2, <2>1, NextIs, ConnectTruth, HelloTruth, InstallTruth, BeginTruth, SendTruth,
       TaskTruth
<1>. QED
  BY <1>1, <1>2

LEMMA TruthIsEdgeTruthful == ASSUME TypeOK, Truth PROVE EdgeTruthful
<1>1. Numbers
  BY AreNumbers
<1>. QED
  BY <1>1 DEF Truth, Known, Numbers, EdgeTruthful

(* What the hub reports of the camera is so: an attempt that succeeded was for     *)
(* the bundle the camera has loaded, and the hub never takes the camera for        *)
(* further than it is, for any number of connections and renewals, however late    *)
(* the acknowledgements come and whatever breaks or times out.                    *)
THEOREM ReportsAreTrue == Spec => []EdgeTruthful
<1>1. Init => TypeOK /\ Truth
  BY InitTyped, InitTruth
<1>2. TypeOK /\ Truth /\ [Next]_vars => (TypeOK /\ Truth)'
  BY StepTyped, StepTruth
<1>3. TypeOK /\ Truth => EdgeTruthful
  BY TruthIsEdgeTruthful
<1>. QED
  BY <1>1, <1>2, <1>3, PTL DEF Spec
=============================================================================
