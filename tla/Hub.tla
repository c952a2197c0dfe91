-------------------------------- MODULE Hub --------------------------------
(***************************************************************************)
(* The real-time core of the aha-chat server (cmd/server): the hub         *)
(* goroutine (hub.go), and for every WebSocket connection the wsHandler    *)
(* goroutine with its readPump and the writePump goroutine (ws.go,         *)
(* client.go), together with the messages table StoreTextMessage writes    *)
(* (db.go).                                                                *)
(*                                                                         *)
(* One element of Conns is one call of wsHandler that got past the token   *)
(* check: one *Client, for the user UserOf[c].  Steps of the goroutines    *)
(* interleave at every channel operation and every database call, which    *)
(* is where Go may switch between them; what a goroutine does between two  *)
(* such points touches only its own locals and is part of the same step.   *)
(*                                                                         *)
(* Sending on, or closing, a closed Go channel panics.  A panic in a       *)
(* handler goroutine is recovered by net/http: that handler is over and    *)
(* none of its remaining statements run.  Nothing recovers a panic in the  *)
(* hub goroutine: it ends the server process.                              *)
(***************************************************************************)
EXTENDS Naturals, Sequences, FiniteSets, Functions

CONSTANTS
    Users,     \* usernames
    Conns,     \* connections, each one call of wsHandler
    UserOf,    \* the username the token of a connection belongs to
    MsgIds,    \* client-generated msg_id strings
    Drafts,    \* Drafts[u]: what the program of user u may send, [id, to]
    SendCap,   \* capacity of Client.send (64 in the code)
    HubCap,    \* capacity of Hub.sendTo (256 in the code)
    MaxReads,  \* bound of the model: frames read from each connection
    NoConn,    \* "no entry" in byUser
    NoMsg      \* "no message" in a frame or a local variable

ASSUME ConstantsAssumption ==
    /\ UserOf \in [Conns -> Users]
    /\ Drafts \in [Users -> SUBSET [id : MsgIds, to : Users]]
    /\ SendCap \in Nat \ {0}
    /\ HubCap \in Nat \ {0}
    /\ MaxReads \in [Conns -> Nat]
    /\ NoConn \notin Conns

VARIABLES
    clients,   \* hub.clients: the registered connections
    byUser,    \* hub.byUser: the connection of each user, or NoConn
    sendTo,    \* hub.sendTo: the queued sendReqs (each is its message)
    chan,      \* chan[c]: c.send, its buffered frames and whether it is open
    pc,        \* pc[c]: where the handler goroutine of c stands
    out,       \* out[c]: readPump's local out, the message it is handling
    inserted,  \* inserted[c]: readPump's local inserted
    writer,    \* writer[c]: the writePump of c, "off", "on" or "done"
    wire,      \* wire[c]: the frames written to the peer of c
    lost,      \* lost[c]: the "msg" frames of c.send that never will be (for properties)
    db,        \* the messages table in id order
    reads,     \* reads[c]: frames read so far (bounds the model)
    crashed    \* the server process has panicked

vars == <<clients, byUser, sendTo, chan, pc, out, inserted, writer, wire, lost, db,
          reads, crashed>>

hubVars == <<clients, byUser, sendTo>>
pumpVars == <<out, inserted, reads>>

----------------------------------------------------------------------------
(* Messages and frames.  A message is built by one readPump; conn names it, *)
(* and its from_user is UserOf[m.conn].  The bytes on the wire carry from,  *)
(* to, msg_id and text, not conn.                                           *)

Message == [id : MsgIds, to : Users, conn : Conns]

From(m) == UserOf[m.conn]

FrameTypes == {"info", "error", "ack", "msg", "delivered", "offline", "failed"}

Frame == [type : FrameTypes, msg : Message \cup {NoMsg}]

\* WSOut{Type: type, ...}.  "ack" is the server_received ack, "delivered"
\* the delivered ack, "offline" and "failed" the hub's two errors, "error"
\* any error readPump answers itself.
WSOut(type, m) == [type |-> type, msg |-> m]

\* The frames of F that carry a message.
Texts(F) == {f \in F : f.type = "msg"}

\* A Client.send: what is buffered in it, and whether it is still open.
Channel == [buf : Seq(Frame), open : BOOLEAN]

\* How far a handler goroutine has come in wsHandler and readPump.
Registered == {"greeting", "reading", "acking", "echoing", "handing", "leaving"}

PCs == {"idle"} \cup Registered \cup {"closed", "panicked"}

----------------------------------------------------------------------------
(* Go channels. *)

\* Slip: append without looking at the capacity.
OfferUnbounded(ch, f) ==
    IF ch.open THEN [ch EXCEPT !.buf = Append(@, f)] ELSE ch

\* select { case ch <- f: default: } on an open channel: a full buffer drops
\* f.  On a closed channel the send panics and leaves it as it is.
Offer(ch, f) ==
    IF ch.open /\ Len(ch.buf) < SendCap
    THEN [ch EXCEPT !.buf = Append(@, f)]
    ELSE ch

\* Slip: a connection that leaves the maps keeps its channel open.
CloseNothing(S) == UNCHANGED <<chan, crashed>>

\* close(k.send) for every k in S.  Closing a closed channel panics.
Close(S) ==
    /\ chan' = [k \in Conns |-> IF k \in S THEN [chan[k] EXCEPT !.open = FALSE]
                                           ELSE chan[k]]
    /\ crashed' = \E k \in S : ~chan[k].open

\* Handler c sends f on c.send without blocking and goes on to next: this is
\* enqueueJSON, and the select around the echo.
Enqueue(c, f, next) ==
    /\ chan' = [chan EXCEPT ![c] = Offer(@, f)]
    /\ pc' = [pc EXCEPT ![c] = IF chan[c].open THEN next ELSE "panicked"]

\* Slip: the answer is sent without a default, so a full sender stops the hub.
ReplyWaiting(ch, from, f) ==
    /\ ch[from].open => Len(ch[from].buf) < SendCap
    /\ chan' = [ch EXCEPT ![from] = Offer(@, f)]
    /\ crashed' = ~ch[from].open

\* The hub sends f on from.send without blocking, ch being the channels as
\* the handling of the request has left them so far.
Reply(ch, from, f) ==
    /\ chan' = [ch EXCEPT ![from] = Offer(@, f)]
    /\ crashed' = ~ch[from].open

----------------------------------------------------------------------------
(* The messages table. *)

Stored(id) == \E i \in DOMAIN db : db[i].id = id

\* Slip: the error of a failed insert is dropped and the row taken as new.
StoreIgnoringError(c, m) ==
    /\ db' \in {db, Append(db, m)}
    /\ inserted' = [inserted EXCEPT ![c] = TRUE]

\* INSERT OR IGNORE on the UNIQUE column msg_id; RowsAffected tells whether
\* the row is new.  The row is the message; its id is its place in db.
StoreTextMessage(c, m) ==
    /\ db' = IF Stored(m.id) THEN db ELSE Append(db, m)
    /\ inserted' = [inserted EXCEPT ![c] = ~Stored(m.id)]

----------------------------------------------------------------------------
(* wsHandler and readPump of connection c. *)

\* The welcome frame, and go c.writePump() unless the frame panicked.
Greet(c) ==
    /\ ~crashed
    /\ pc[c] = "greeting"
    /\ Enqueue(c, WSOut("info", NoMsg), "reading")
    /\ writer' = IF chan[c].open THEN [writer EXCEPT ![c] = "on"] ELSE writer
    /\ UNCHANGED <<hubVars, pumpVars, wire, lost, db, crashed>>

\* A frame that is not a complete "msg" (bad JSON, no msg_id, no to, no text,
\* unknown type), or one whose StoreTextMessage fails: nothing is stored and
\* an error is enqueued.
ReadRejected(c) ==
    /\ ~crashed
    /\ pc[c] = "reading" /\ reads[c] < MaxReads[c]
    /\ reads' = [reads EXCEPT ![c] = @ + 1]
    /\ Enqueue(c, WSOut("error", NoMsg), "reading")
    /\ UNCHANGED <<hubVars, out, inserted, writer, wire, lost, db, crashed>>

\* A "msg" frame: it is stored before anything is answered.
ReadMsg(c) ==
    /\ ~crashed
    /\ pc[c] = "reading" /\ reads[c] < MaxReads[c]
    /\ reads' = [reads EXCEPT ![c] = @ + 1]
    /\ \E d \in Drafts[UserOf[c]] :
         LET m == [id |-> d.id, to |-> d.to, conn |-> c]
         IN  /\ StoreTextMessage(c, m)
             /\ out' = [out EXCEPT ![c] = m]
    /\ pc' = [pc EXCEPT ![c] = "acking"]
    /\ UNCHANGED <<hubVars, chan, writer, wire, lost, crashed>>

\* Step 3 of readPump: server_received, only once the row is stored.
Ack(c) ==
    /\ ~crashed
    /\ pc[c] = "acking"
    /\ Enqueue(c, WSOut("ack", out[c]), "echoing")
    /\ UNCHANGED <<hubVars, pumpVars, writer, wire, lost, db, crashed>>

\* Slip: no continue after a repeated msg_id.
EchoThenAlwaysHand(c) ==
    /\ ~crashed
    /\ pc[c] = "echoing"
    /\ Enqueue(c, WSOut("msg", out[c]), "handing")
    /\ UNCHANGED <<hubVars, pumpVars, writer, wire, lost, db, crashed>>

\* Steps 5 and 6: the echo, and the early continue for a repeated msg_id.
Echo(c) ==
    /\ ~crashed
    /\ pc[c] = "echoing"
    /\ Enqueue(c, WSOut("msg", out[c]), IF inserted[c] THEN "handing" ELSE "reading")
    /\ UNCHANGED <<hubVars, pumpVars, writer, wire, lost, db, crashed>>

\* Slip: the handover is left to a goroutine of its own, which may be late.
HandToHubLater(c) ==
    /\ ~crashed
    /\ pc[c] = "handing"
    /\ Len(sendTo) < HubCap
    /\ sendTo' \in {Append(sendTo, out[c]), <<out[c]>> \o sendTo}
    /\ pc' = [pc EXCEPT ![c] = "reading"]
    /\ UNCHANGED <<clients, byUser, chan, pumpVars, writer, wire, lost, db, crashed>>

\* Step 7: c.hub.sendTo <- sendReq{...}, which blocks while the queue is full.
HandToHub(c) ==
    /\ ~crashed
    /\ pc[c] = "handing"
    /\ Len(sendTo) < HubCap
    /\ sendTo' = Append(sendTo, out[c])
    /\ pc' = [pc EXCEPT ![c] = "reading"]
    /\ UNCHANGED <<clients, byUser, chan, pumpVars, writer, wire, lost, db, crashed>>

\* Slip: readPump's return is the end of the handler, nothing unregisters.
ReadFailsForGood(c) ==
    /\ ~crashed
    /\ pc[c] = "reading"
    /\ pc' = [pc EXCEPT ![c] = "closed"]
    /\ UNCHANGED <<hubVars, chan, pumpVars, writer, wire, lost, db, crashed>>

\* Slip: no read deadline, so a peer that is silently gone is never noticed.
ReadFailsWhilePinged(c) ==
    /\ ~crashed
    /\ pc[c] = "reading" /\ writer[c] # "done"
    /\ pc' = [pc EXCEPT ![c] = "leaving"]
    /\ UNCHANGED <<hubVars, chan, pumpVars, writer, wire, lost, db, crashed>>

\* ReadMessage returns an error: the peer closed or vanished, or the read
\* deadline that only pongs extend has passed.
ReadFails(c) ==
    /\ ~crashed
    /\ pc[c] = "reading"
    /\ pc' = [pc EXCEPT ![c] = "leaving"]
    /\ UNCHANGED <<hubVars, chan, pumpVars, writer, wire, lost, db, crashed>>

----------------------------------------------------------------------------
(* writePump of connection c. *)

\* One frame is taken from c.send and written to the peer.  That may still
\* succeed after Unregister: the handler's conn.Close comes at any later time.
WriteFrame(c) ==
    /\ ~crashed
    /\ writer[c] = "on"
    /\ chan[c].buf # <<>>
    /\ wire' = [wire EXCEPT ![c] = Append(@, Head(chan[c].buf))]
    /\ chan' = [chan EXCEPT ![c].buf = Tail(@)]
    /\ UNCHANGED <<hubVars, pc, pumpVars, writer, lost, db, crashed>>

\* The write fails (connection gone, or 10s deadline): the frame is lost and
\* writePump returns without telling anyone.
WriteFails(c) ==
    /\ ~crashed
    /\ writer[c] = "on" /\ chan[c].buf # <<>>
    /\ chan' = [chan EXCEPT ![c].buf = Tail(@)]
    /\ writer' = [writer EXCEPT ![c] = "done"]
    /\ lost' = [lost EXCEPT ![c] = @ \cup Texts({Head(chan[c].buf)})]
    /\ UNCHANGED <<hubVars, pc, pumpVars, wire, db, crashed>>

\* A keep-alive ping cannot be written (connection gone, or 10s deadline).
PingFails(c) ==
    /\ ~crashed
    /\ writer[c] = "on"
    /\ writer' = [writer EXCEPT ![c] = "done"]
    /\ UNCHANGED <<hubVars, chan, pc, pumpVars, wire, lost, db, crashed>>

\* c.send is closed and drained: the close frame, and writePump returns.
SendCloseFrame(c) ==
    /\ ~crashed
    /\ writer[c] = "on"
    /\ ~chan[c].open /\ chan[c].buf = <<>>
    /\ writer' = [writer EXCEPT ![c] = "done"]
    /\ UNCHANGED <<hubVars, chan, pc, pumpVars, wire, lost, db, crashed>>

----------------------------------------------------------------------------
(* Hub.run: one action per case of the select, one per way a case ends. *)

\* The upgrade succeeded and the handler's hub.register <- c meets the hub's
\* case c := <-h.register.  An older connection of the same user is kicked.
Register(c) ==
    /\ ~crashed
    /\ pc[c] = "idle"
    /\ LET kicked == {old \in clients : old = byUser[UserOf[c]] /\ old # c}
       IN  /\ clients' = (clients \ kicked) \cup {c}
           /\ Close(kicked)
    /\ byUser' = [byUser EXCEPT ![UserOf[c]] = c]
    /\ pc' = [pc EXCEPT ![c] = "greeting"]
    /\ UNCHANGED <<sendTo, pumpVars, writer, wire, lost, db>>

\* byUser without c, if it is c that its user is listed with.
Unlisted(c) ==
    [byUser EXCEPT ![UserOf[c]] = IF @ = c THEN NoConn ELSE @]

\* Slip: the user's entry goes without asking whose connection it names.
UnregisterName(c) ==
    /\ ~crashed
    /\ pc[c] = "leaving"
    /\ pc' = [pc EXCEPT ![c] = "closed"]
    /\ clients' = clients \ {c}
    /\ byUser' = [byUser EXCEPT ![UserOf[c]] = NoConn]
    /\ Close(clients \cap {c})
    /\ UNCHANGED <<sendTo, pumpVars, writer, wire, lost, db>>

\* readPump has returned: hub.unregister <- c meets case c := <-h.unregister,
\* for a connection that is still registered and for one the hub has already
\* kicked.  The handler's conn.Close() that follows ends the connection.
Unregister(c) ==
    /\ ~crashed
    /\ pc[c] = "leaving"
    /\ pc' = [pc EXCEPT ![c] = "closed"]
    /\ IF c \in clients
       THEN /\ clients' = clients \ {c}
            /\ byUser' = Unlisted(c)
            /\ Close({c})
       ELSE UNCHANGED <<clients, byUser, chan, crashed>>
    /\ UNCHANGED <<sendTo, pumpVars, writer, wire, lost, db>>

\* Slip: the request is left in the queue, to be tried again.
TakeRequestAgain ==
    /\ ~crashed
    /\ sendTo # <<>>
    /\ UNCHANGED <<sendTo, pc, pumpVars, writer, wire, lost, db>>

\* What the three ways to serve a sendReq share.
TakeRequest ==
    /\ ~crashed
    /\ sendTo # <<>>
    /\ sendTo' = Tail(sendTo)
    /\ UNCHANGED <<pc, pumpVars, writer, wire, lost, db>>

\* case req := <-h.sendTo, the receiver has no connection.
SendToOffline ==
    /\ TakeRequest
    /\ LET m == Head(sendTo)
       IN  /\ byUser[m.to] = NoConn
           /\ Reply(chan, m.conn, WSOut("offline", m))
    /\ UNCHANGED <<clients, byUser>>

\* Slip: a frame that does not fit is dropped, as everywhere else.
RoomOrDropped(k) == TRUE

\* Slip: the last place of a channel is never used.
RoomForTwo(k) == chan[k].open => Len(chan[k].buf) + 1 < SendCap

\* dst.send <- req.msg does not have to wait: there is room for one more frame
\* (or the channel is closed, and the send panics).
Room(k) == chan[k].open => Len(chan[k].buf) < SendCap

\* case req := <-h.sendTo, the frame fits into the receiver's channel.  (The
\* send would panic if that channel were closed: Registry below rules it out.)
SendToOnline ==
    /\ TakeRequest
    /\ LET m      == Head(sendTo)
           dst    == byUser[m.to]
           queued == [chan EXCEPT ![dst] = Offer(@, WSOut("msg", m))]
       IN  /\ dst # NoConn
           /\ Room(dst)
           /\ chan' = [queued EXCEPT ![m.conn] = Offer(@, WSOut("delivered", m))]
           /\ crashed' = (~chan[dst].open \/ ~chan[m.conn].open)
    /\ UNCHANGED <<clients, byUser>>

\* case req := <-h.sendTo, the receiver's channel is full: it is kicked.
SendToSlow ==
    /\ TakeRequest
    /\ LET m   == Head(sendTo)
           dst == byUser[m.to]
       IN  /\ dst # NoConn
           /\ ~Room(dst)
           /\ clients' = clients \ {dst}
           /\ byUser' = Unlisted(dst)
           /\ Reply([chan EXCEPT ![dst].open = FALSE],
                    m.conn, WSOut("failed", m))

----------------------------------------------------------------------------
(* The server process. *)

\* The process ends, by a signal, a kill or a panic of the hub, and is started
\* again: hub, goroutines and connections are gone, what StoreTextMessage has
\* stored is in the file.  (Shutdown waits for no WebSocket handler.)
Restart ==
    /\ clients' = {}
    /\ byUser' = [u \in Users |-> NoConn]
    /\ sendTo' = <<>>
    /\ chan' = [c \in Conns |-> [buf |-> <<>>, open |-> pc[c] = "idle"]]
    /\ pc' = [c \in Conns |-> IF pc[c] = "idle" THEN "idle" ELSE "closed"]
    /\ out' = [c \in Conns |-> NoMsg]
    /\ inserted' = [c \in Conns |-> FALSE]
    /\ writer' = [c \in Conns |-> IF pc[c] = "idle" THEN "off" ELSE "done"]
    /\ lost' = [c \in Conns |-> lost[c] \cup Texts(Range(chan[c].buf))]
    /\ crashed' = FALSE
    /\ UNCHANGED <<wire, db, reads>>

----------------------------------------------------------------------------
Init ==
    /\ clients = {}
    /\ byUser = [u \in Users |-> NoConn]
    /\ sendTo = <<>>
    /\ chan = [c \in Conns |-> [buf |-> <<>>, open |-> TRUE]]
    /\ pc = [c \in Conns |-> "idle"]
    /\ out = [c \in Conns |-> NoMsg]
    /\ inserted = [c \in Conns |-> FALSE]
    /\ writer = [c \in Conns |-> "off"]
    /\ wire = [c \in Conns |-> <<>>]
    /\ lost = [c \in Conns |-> {}]
    /\ db = <<>>
    /\ reads = [c \in Conns |-> 0]
    /\ crashed = FALSE

\* The goroutines' steps, grouped by the goroutine that takes them.
HandlerStep(c) ==
    \/ Greet(c) \/ ReadRejected(c) \/ ReadMsg(c) \/ Ack(c) \/ Echo(c)
    \/ HandToHub(c) \/ ReadFails(c)

WriterStep(c) ==
    WriteFrame(c) \/ WriteFails(c) \/ PingFails(c) \/ SendCloseFrame(c)

HubSend == SendToOffline \/ SendToOnline \/ SendToSlow

Next ==
    \/ \E c \in Conns :
         \/ Greet(c)
         \/ ReadRejected(c)
         \/ ReadMsg(c)
         \/ Ack(c)
         \/ Echo(c)
         \/ HandToHub(c)
         \/ ReadFails(c)
         \/ WriteFrame(c)
         \/ WriteFails(c)
         \/ PingFails(c)
         \/ SendCloseFrame(c)
         \/ Register(c)
         \/ Unregister(c)
    \/ SendToOffline
    \/ SendToOnline
    \/ SendToSlow
    \/ Restart

Spec == Init /\ [][Next]_vars

----------------------------------------------------------------------------
(* Fairness.  A goroutine that can run does run, and the select of Hub.run  *)
(* takes one of its ready cases at random, so none is passed over forever.  *)
(* A sender blocked on a full hub.sendTo stands in the channel's FIFO wait  *)
(* list, so it gets in though others keep filling the queue: SF.  Pings are *)
(* what keeps the 60 s read deadline moving; once writePump is done there   *)
(* are none, and from then on every ReadMessage fails: SF.  Nothing is      *)
(* assumed of peers and networks: no fairness for Register, ReadMsg,        *)
(* WriteFrame, WriteFails, PingFails, or for ReadFails of a live writer.    *)

ReadDeadline(c) == writer[c] = "done" /\ ReadFails(c)

Fairness ==
    /\ \A c \in Conns :
         /\ WF_vars(Greet(c) \/ Ack(c) \/ Echo(c))
         /\ WF_vars(Unregister(c))
         /\ WF_vars(SendCloseFrame(c))
         /\ SF_vars(HandToHub(c))
         /\ SF_vars(ReadDeadline(c))
    /\ WF_vars(HubSend)

FairSpec == Spec /\ Fairness

----------------------------------------------------------------------------
(* Properties. *)

\* All that was sent to the peer of c and all that waits for it, in order.
Stream(c) == wire[c] \o chan[c].buf

\* A frame of Stream(k) that the hub put there for k's user, not k's own echo.
FromPeer(k, f) == f.type = "msg" /\ f.msg.conn # k

\* The type of every variable; no channel holds more than its capacity.
TypeOK ==
    /\ clients \subseteq Conns
    /\ byUser \in [Users -> Conns \cup {NoConn}]
    /\ sendTo \in Seq(Message) /\ Len(sendTo) <= HubCap
    /\ chan \in [Conns -> Channel]
    /\ \A c \in Conns : Len(chan[c].buf) <= SendCap
    /\ pc \in [Conns -> PCs]
    /\ out \in [Conns -> Message \cup {NoMsg}]
    /\ inserted \in [Conns -> BOOLEAN]
    /\ writer \in [Conns -> {"off", "on", "done"}]
    /\ wire \in [Conns -> Seq(Frame)]
    /\ lost \in [Conns -> SUBSET Frame]
    /\ db \in Seq(Message)
    /\ reads \in [Conns -> Nat]
    /\ crashed \in BOOLEAN

\* The two maps of the hub agree: who is registered is the one connection its
\* user is reached at, and nobody is reached at a connection that is not
\* registered.  A user so has one live connection, and the late unregister of
\* a kicked connection leaves the newer one alone (hub.go: register,
\* unregister and the two places that kick).
RegistryConsistent ==
    /\ \A c \in clients : byUser[UserOf[c]] = c
    /\ \A u \in Users : byUser[u] # NoConn =>
         byUser[u] \in clients /\ UserOf[byUser[u]] = u

\* Once the hub knows a connection, its send channel is open exactly while
\* it is registered: close(send) happens once, on every way out of the
\* registry, so the hub never closes twice nor sends to a closed receiver.
OpenIffRegistered ==
    \A c \in Conns : chan[c].open <=> (pc[c] = "idle" \/ c \in clients)

\* A registered connection has a handler that still runs and will unregister
\* it: neither an ordinary return nor a panic leaves a dead entry behind.
NoZombie == \A c \in clients : pc[c] \in Registered

\* server_received is only ever sent for a message that is in the table, the
\* one its sender wrote: same msg_id, same from_user, same to_user (client.go
\* stores at step 2 and acks at step 3).
AckedIsStored ==
    \A c \in Conns : \A f \in Range(Stream(c)) : f.type = "ack" =>
        \E row \in Range(db) :
            row.id = f.msg.id /\ row.to = f.msg.to /\ From(row) = From(f.msg)

\* A message is handed to a receiver at most once, however often and over
\* however many connections its sender repeats it (the !inserted continue of
\* readPump): requests still queued at the hub and frames count together.
AtMostOnce ==
    \A id \in MsgIds :
        LET queued == {i \in DOMAIN sendTo : sendTo[i].id = id}
            shown  == UNION {{<<k, i>> : i \in {j \in DOMAIN Stream(k) :
                                /\ FromPeer(k, Stream(k)[j])
                                /\ Stream(k)[j].msg.id = id}} : k \in Conns}
        IN  Cardinality(queued) + Cardinality(shown) <= 1

\* What a receiver gets from one connection of a sender are rows of the
\* table, in the order of their row ids: nothing between the insert and the
\* receiver's writePump overtakes.  (Across two connections of a sender the
\* order may differ: each readPump hands over on its own.)
PerSenderOrder ==
    \A k \in Conns :
        LET s == Stream(k)
        IN  \A i, j \in DOMAIN s :
              (/\ i <= j
               /\ FromPeer(k, s[i]) /\ FromPeer(k, s[j])
               /\ s[i].msg.conn = s[j].msg.conn)
              => \E p, q \in DOMAIN db :
                   p <= q /\ db[p] = s[i].msg /\ db[q] = s[j].msg

\* The hub answers a message once: delivered, offline or failed, never two of
\* them and never one twice, over all that its sender's connections are sent.
OneOutcome ==
    \A id \in MsgIds :
        Cardinality(UNION {{<<k, i>> : i \in {j \in DOMAIN Stream(k) :
              /\ Stream(k)[j].type \in {"delivered", "offline", "failed"}
              /\ Stream(k)[j].msg.id = id}} : k \in Conns}) <= 1

\* "delivered" is true: the frame of that message went into the channel of a
\* connection of its receiver, where it still is, or was written from there, or
\* was lost from there by a failed write or with the process.
DeliveredMeansQueued ==
    \A c \in Conns : \A f \in Range(Stream(c)) : f.type = "delivered" =>
        \E k \in Conns :
            /\ UserOf[k] = f.msg.to
            /\ WSOut("msg", f.msg) \in Range(Stream(k)) \cup lost[k]

\* A connection leaves the registry only because its own handler unregisters
\* it, a newer connection of the same user has taken its place, its channel
\* was full when a message came, or the server process ends.
RemovedForAReason ==
    [][\A c \in clients \ clients' :
         \/ pc[c] = "leaving" /\ pc'[c] = "closed"
         \/ byUser'[UserOf[c]] \in clients' \ clients
         \/ Len(chan[c].buf) = SendCap /\ byUser'[UserOf[c]] = NoConn
         \/ Restart
      ]_vars

\* Connection c owes a new message to the hub, or the hub has not served it yet.
Undelivered(c) ==
    \/ inserted[c] /\ pc[c] \in {"acking", "echoing", "handing"}
    \/ \E m \in Range(sendTo) : m.conn = c

\* A message stored as new is handed over and served, also when its handler
\* has to wait for room in hub.sendTo: the hub never blocks on a receiver, so
\* handlers and hub cannot wait for each other.  (Unless the handler panics.)
StoredIsServed ==
    \A c \in Conns :
        Undelivered(c) ~> (~Undelivered(c) \/ pc[c] = "panicked" \/ crashed)

\* A connection whose writePump has ended, because a write or a ping failed,
\* does not stay registered: the read deadline brings its handler home.
DeadWriterLeaves ==
    \A c \in Conns :
        (writer[c] = "done" /\ c \in clients) ~> (c \notin clients \/ crashed)

\* What the comments of hub.go promise of sendTo, "the receiver is offline:
\* answer the sender", "delivered: ack the sender": the hub lives to do it.
HubNeverPanics == ~crashed

=============================================================================
