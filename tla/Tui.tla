-------------------------------- MODULE Tui --------------------------------
(***************************************************************************)
(* The terminal client at work (aha_tui.py, class TUI): its WebSocket loop, *)
(* the commands of its user, and the HTTP calls both make, against a server *)
(* reduced to its messages table and the frames it pushes.                 *)
(*                                                                         *)
(* The client is one asyncio program: what a coroutine does between two    *)
(* awaits is atomic, and an HTTP call is an await.  A call therefore takes  *)
(* three steps, in which anything else may happen: it is sent with what    *)
(* the state says then, the server answers it from the table as it is      *)
(* then, and the coroutine applies the answer to the state as it is then.  *)
(* Tasks holds the coroutines that may be inside such a call: loop is the  *)
(* WebSocket loop, which handles no frame meanwhile, the others run typed  *)
(* commands.                                                               *)
(*                                                                         *)
(* The model covers one account with a valid token; the WebSocket ends by  *)
(* an exception.                                                           *)
(***************************************************************************)
EXTENDS TuiState

CONSTANTS
    Tasks,         \* coroutines that make HTTP calls
    loop,          \* the one of ws_connect_loop
    HistoryLimit,  \* HISTORY_LIMIT (80 in the code)
    ReloadLimits,  \* what /history n may ask for (10 to 500 in the code, of which
                   \* the server gives 200)
    SyncLimit,     \* SYNC_LIMIT (200 in the code)
    Taken,         \* msg_ids that a row between other users already has
    MaxSends,      \* bound of the model: ws.send calls that may raise, at a time
    MaxFrames      \* bound of the model: with so many frames on their way to the
                   \* client the server sends no more

ASSUME TuiAssumption ==
    /\ loop \in Tasks
    /\ HistoryLimit \in Nat \ {0}
    /\ ReloadLimits \subseteq Nat \ {0}
    /\ SyncLimit \in Nat \ {0}
    /\ Taken \subseteq MsgId
    /\ {MaxSends, MaxFrames} \subseteq Nat

VARIABLES
    st,         \* the State object
    disk,       \* the config file
    task,       \* task[t]: the HTTP call t is inside
    connected,  \* the WebSocket is up
    frames,     \* frames on their way to the client
    sending,    \* ids of own messages whose ws.send may still raise
    outbox,     \* messages on their way to the server
    rows,       \* the messages table; the position of a row is its db id
    owed,       \* frames the hub has still to push to the client
    written,    \* how many messages have been written, which numbers them
    shown       \* ids of all messages that ever entered a buffer (for properties)

vars == <<st, disk, task, connected, frames, sending, outbox, rows, owed, written, shown>>

----------------------------------------------------------------------------
(* The server, as far as the client can see it. *)

FrameTypes == {"msg", "server_received", "delivered", "error"}

Frame == [type : FrameTypes, row : Row]

Send(type, row) == [type |-> type, row |-> row]

\* Its rows after position a that are for Me, oldest first, at most n of them
\* (QuerySyncInboxAfterID), and the position of the last (next_after_id).
Inbox(a, n) ==
    LET new  == {i \in DOMAIN rows : i > a /\ rows[i].to = Me}
        size == Min({n, Cardinality(new)})
    IN  [items |-> [r \in 1 .. size |-> rows[Nth(new, r)]],
         next  |-> IF size = 0 THEN a ELSE Nth(new, size)]

\* The rows between Me and p, before row before unless that is 0.
Between(p, before) ==
    {i \in DOMAIN rows : PeerOf(rows[i]) = p /\ (before > 0 => i < before)}

\* Slip: the page begins with the oldest rows.
PageOldest(p, before, n) ==
    LET all == Between(p, before)
    IN  [r \in 1 .. Min({n, Cardinality(all)}) |-> Nth(all, r)]

\* QueryConversation: the positions of the last n of them, oldest first.
Page(p, before, n) ==
    LET all  == Between(p, before)
        size == Min({n, Cardinality(all)})
    IN  [r \in 1 .. size |-> Nth(all, Cardinality(all) - size + r)]

\* What the client asks for: the newest page.
Conversation(p, n) ==
    LET page == Page(p, 0, n)
    IN  [i \in DOMAIN page |-> rows[page[i]]]

\* StoreTextMessage, where it does not fail: INSERT OR IGNORE.
Store(row) == rows' = IF row.id \in Taken THEN rows ELSE Append(rows, row)

\* The WebSocket is gone, and with it the frames on their way; of the messages
\* on their way the server has stored some: it takes the first few, and an
\* insert may fail or be ignored.  What the hub owes the user waits for the next
\* connection; its answers to this one are lost.
LoseConnection ==
    /\ connected' = FALSE
    /\ frames' = <<>>
    /\ outbox' = <<>>
    /\ \E stored \in SUBSET {i \in DOMAIN outbox : outbox[i].id \notin Taken} :
         rows' = rows \o [r \in 1 .. Cardinality(stored) |-> outbox[Nth(stored, r)]]
    /\ owed' = {f \in owed : f.type = "msg"}

----------------------------------------------------------------------------
(* HTTP calls. *)

Idle == [kind |-> "idle"]

\* Slip: one too far.
AskSyncAfterNext == [kind |-> "sync", after |-> st.afterId + 1]

AskSync == [kind |-> "sync", after |-> st.afterId]

AskHistory(p, n) == [kind |-> "history", peer |-> p, limit |-> n]

\* The server has answered; items wait to be applied.
SyncAnswer(inbox) == [kind |-> "synced", items |-> inbox.items, next |-> inbox.next]

HistoryAnswer(p, items) == [kind |-> "loaded", peer |-> p, items |-> items]

\* The server answers a call, from the table as it is now.
Answer(t) ==
    /\ \/ /\ task[t].kind = "sync"
          /\ task' = [task EXCEPT ![t] = SyncAnswer(Inbox(@.after, SyncLimit))]
       \/ /\ task[t].kind = "history"
          /\ task' = [task EXCEPT ![t] = HistoryAnswer(@.peer, Conversation(@.peer, @.limit))]
    /\ UNCHANGED <<st, disk, connected, frames, sending, outbox, rows, owed, written, shown>>

\* The call fails: an error answer, after which the coroutine goes on, or an
\* exception, which ends a command and brings the loop to its reconnect.
CallFails(t) ==
    /\ task[t].kind # "idle"
    /\ task' = [task EXCEPT ![t] = Idle]
    /\ \/ UNCHANGED <<connected, frames, outbox, rows, owed>>
       \/ t = loop /\ LoseConnection
    /\ UNCHANGED <<st, disk, sending, written, shown>>

\* Slip: the watermark is taken from the answer as it is.
WatermarkLast(a, next) == next

\* max(self.st.after_id, next_after)
Watermark(a, next) == IF next > a THEN next ELSE a

\* do_sync, from the answer on.
ApplySync(t) ==
    /\ task[t].kind = "synced"
    /\ st' = [FoldLeft(Receive, st, task[t].items) EXCEPT !.afterId = Watermark(@, task[t].next)]
    /\ disk' = Persisted(st')
    /\ shown' = shown \cup {task[t].items[i].id : i \in DOMAIN task[t].items}
    /\ task' = [task EXCEPT ![t] = Idle]
    /\ UNCHANGED <<connected, frames, sending, outbox, rows, owed, written>>

\* switch_peer and /history, from the answer on.
ApplyHistory(t) ==
    /\ task[t].kind = "loaded"
    /\ st' = ReplaceBuffer(st, task[t].peer, task[t].items)
    /\ shown' = shown \cup {task[t].items[i].id : i \in DOMAIN task[t].items}
    /\ task' = [task EXCEPT ![t] = Idle]
    /\ UNCHANGED <<disk, connected, frames, sending, outbox, rows, owed, written>>

----------------------------------------------------------------------------
(* Commands. *)

\* /chat p: switch_peer up to its HTTP call.
SwitchPeer(t, p) ==
    /\ t # loop /\ task[t] = Idle
    /\ st' = Opened(st, p)
    /\ task' = [task EXCEPT ![t] = AskHistory(p, HistoryLimit)]
    /\ UNCHANGED <<disk, connected, frames, sending, outbox, rows, owed, written, shown>>

\* Ctrl+N and Ctrl+P switch to a neighbour in peers_order.
CyclePeer(t) ==
    /\ st.order # <<>>
    /\ \/ SwitchPeer(t, NextPeer(st.order, st.current))
       \/ SwitchPeer(t, PrevPeer(st.order, st.current))

\* /history n: a like call for the current peer, nothing changed before it.
ReloadHistory(t) ==
    /\ t # loop /\ task[t] = Idle
    /\ st.current # NoPeer
    /\ \E n \in ReloadLimits : task' = [task EXCEPT ![t] = AskHistory(st.current, n)]
    /\ UNCHANGED <<st, disk, connected, frames, sending, outbox, rows, owed, written, shown>>

\* /sync: do_sync up to its HTTP call.
SyncCommand(t) ==
    /\ t # loop /\ task[t] = Idle
    /\ task' = [task EXCEPT ![t] = AskSync]
    /\ UNCHANGED <<st, disk, connected, frames, sending, outbox, rows, owed, written, shown>>

\* ws_send_msg up to its await of ws.send: shown as pending at once.  Whether the
\* message gets on its way does not say whether the call will raise.
SendMsg(p) ==
    /\ connected
    /\ written < MaxMsgs
    /\ LET row == [id |-> written + 1, from |-> Me, to |-> p]
       IN  /\ st' = [BufferAppend(st, p, Chat(row, "pending")) EXCEPT
                      !.unread[p] = 0,
                      !.current = IF @ = NoPeer THEN p ELSE @]
           /\ shown' = shown \cup {row.id}
           /\ sending' = IF Cardinality(sending) < MaxSends THEN sending \cup {row.id}
                         ELSE sending
           /\ outbox' \in {outbox, Append(outbox, row)}
    /\ disk' = Persisted(st')
    /\ written' = written + 1
    /\ UNCHANGED <<task, connected, frames, rows, owed>>

\* The rest of it when ws.send raises, at any time after; when it returns there
\* is no rest.
SendFails(id) ==
    /\ st' = UpdateStatus(st, id, "failed")
    /\ sending' = sending \ {id}
    /\ UNCHANGED <<disk, task, connected, frames, outbox, rows, owed, written, shown>>

----------------------------------------------------------------------------
(* The WebSocket loop. *)

\* The WebSocket is up; the loop starts one do_sync before any frame.
Connect ==
    /\ ~connected
    /\ task[loop] = Idle
    /\ connected' = TRUE
    /\ task' = [task EXCEPT ![loop] = AskSync]
    /\ UNCHANGED <<st, disk, frames, sending, outbox, rows, owed, written, shown>>

\* The connection fails: what was on the way is lost, the loop reconnects.
Disconnect ==
    /\ connected
    /\ task[loop] = Idle
    /\ LoseConnection
    /\ UNCHANGED <<st, disk, task, sending, written, shown>>

\* The loop takes the next frame, outside do_sync.
TakeFrame(type) ==
    /\ connected /\ task[loop] = Idle
    /\ frames # <<>> /\ Head(frames).type = type
    /\ frames' = Tail(frames)
    /\ UNCHANGED <<task, connected, sending, outbox, rows, owed, written>>

\* handle_ws_msg, a "msg" frame: received, or the echo of an own message.
HandleMsg ==
    /\ TakeFrame("msg")
    /\ LET row  == Head(frames).row
           p    == PeerOf(row)
           got  == Receive(st, row)
           grew == Len(got.buffers[p]) > Len(st.buffers[p])
           read == IF p = st.current THEN [got EXCEPT !.unread[p] = 0] ELSE got
       IN  /\ st' = IF grew THEN read ELSE got
           /\ disk' = IF grew THEN Persisted(st') ELSE disk
           /\ shown' = shown \cup {row.id}

\* handle_ws_msg, an "ack" frame.
HandleAck ==
    /\ \/ TakeFrame("server_received")
       \/ TakeFrame("delivered")
    /\ st' = UpdateStatus(st, Head(frames).row.id, Head(frames).type)
    /\ UNCHANGED <<disk, shown>>

\* handle_ws_msg, an "error" frame with a msg_id.
HandleError ==
    /\ TakeFrame("error")
    /\ st' = UpdateStatus(st, Head(frames).row.id, "failed")
    /\ UNCHANGED <<disk, shown>>

----------------------------------------------------------------------------
(* The process, the server and the peers. *)

\* The process ends, by /quit, which persists, or killed, and a new one reads
\* the config file.
Restart ==
    /\ disk' \in {disk, Persisted(st)}
    /\ st' = Loaded(disk')
    /\ task' = [t \in Tasks |-> Idle]
    /\ sending' = {}
    /\ LoseConnection
    /\ UNCHANGED <<written, shown>>

\* A peer's message to Me: if it is stored as new, the hub owes it to the client.
PeerWrites(p) ==
    /\ written < MaxMsgs
    /\ LET row == [id |-> written + 1, from |-> p, to |-> Me]
       IN  /\ Store(row)
           /\ owed' = IF row.id \in Taken THEN owed ELSE owed \cup {Send("msg", row)}
    /\ written' = written + 1
    /\ UNCHANGED <<st, disk, task, connected, frames, sending, outbox, shown>>

\* The hub pushes a frame, at most once, and in order per sender: an older one
\* it has dropped (client offline, kicked as slow, or its channel full).
Push(f) ==
    /\ connected /\ Len(frames) < MaxFrames
    /\ frames' = Append(frames, f)
    /\ owed' = {g \in owed : g.row.from # f.row.from \/ g.row.id > f.row.id}
    /\ UNCHANGED <<st, disk, task, connected, sending, outbox, rows, written, shown>>

\* The server takes an own message.  If its insert does not fail it is acked and
\* echoed, stored or ignored, and if it is stored the hub will have a word on its
\* delivery; if the insert fails there is an error.  A frame that finds the
\* client's channel full is dropped.
ServerTakes ==
    /\ connected /\ Len(frames) < MaxFrames
    /\ outbox # <<>>
    /\ outbox' = Tail(outbox)
    /\ LET row  == Head(outbox)
           ack  == Send("server_received", row)
           echo == Send("msg", row)
       IN  \/ /\ Store(row)
              /\ \E answer \in {<<>>, <<ack>>, <<echo>>, <<ack, echo>>} :
                   frames' = frames \o answer
              /\ \/ row.id \in Taken /\ UNCHANGED owed
                 \/ /\ row.id \notin Taken
                    /\ \E type \in {"delivered", "error"} :
                         owed' = owed \cup {Send(type, row)}
           \/ /\ frames' \in {frames, Append(frames, Send("error", row))}
              /\ UNCHANGED <<rows, owed>>
    /\ UNCHANGED <<st, disk, task, connected, sending, written, shown>>

----------------------------------------------------------------------------
Init ==
    /\ st = NewState
    /\ disk = Persisted(NewState)
    /\ task = [t \in Tasks |-> Idle]
    /\ connected = FALSE
    /\ frames = <<>>
    /\ sending = {}
    /\ outbox = <<>>
    /\ rows = <<>>
    /\ owed = {}
    /\ written = 0
    /\ shown = {}

Next ==
    \/ \E t \in Tasks :
         \/ Answer(t)
         \/ CallFails(t)
         \/ ApplySync(t)
         \/ ApplyHistory(t)
         \/ \E p \in Peers : SwitchPeer(t, p)
         \/ CyclePeer(t)
         \/ ReloadHistory(t)
         \/ SyncCommand(t)
    \/ \E p \in Peers : SendMsg(p) \/ PeerWrites(p)
    \/ \E id \in sending : SendFails(id)
    \/ Connect
    \/ Disconnect
    \/ HandleMsg
    \/ HandleAck
    \/ HandleError
    \/ Restart
    \/ \E f \in owed : Push(f)
    \/ ServerTakes

Spec == Init /\ [][Next]_vars

----------------------------------------------------------------------------
(* Properties. *)

Config == [order   : Seq(Peers), unread : [Peers -> Nat],
           current : Peers \cup {NoPeer}, afterId : Nat]

Call ==
    {Idle}
    \cup [kind : {"sync"}, after : Nat]
    \cup [kind : {"history"}, peer : Peers, limit : Nat]
    \cup [kind : {"synced"}, items : Seq(Row), next : Nat]
    \cup [kind : {"loaded"}, peer : Peers, items : Seq(Row)]

\* The type of every variable; no buffer holds more than MaxBuffer messages.
TypeOK ==
    /\ DOMAIN st = DOMAIN NewState
    /\ st.buffers \in [Peers -> Seq(ChatMsg)]
    /\ \A p \in Peers : Len(st.buffers[p]) <= MaxBuffer
    /\ DOMAIN st.index \subseteq MsgId
    /\ \A id \in DOMAIN st.index : st.index[id] \in [peer : Peers, pos : 1 .. MaxBuffer]
    /\ Persisted(st) \in Config
    /\ disk \in Config
    /\ task \in [Tasks -> Call]
    /\ connected \in BOOLEAN
    /\ frames \in Seq(Frame)
    /\ sending \subseteq MsgId
    /\ outbox \in Seq(Row)
    /\ rows \in Seq(Row)
    /\ owed \subseteq Frame
    /\ written \in 0 .. MaxMsgs
    /\ shown \subseteq MsgId

\* De-duplication is sound over everything that feeds the buffers at once:
\* live frames, echoes, optimistic sends, sync answers and history reloads
\* computed from an older table.
DedupSound == IndexCovers(st)

\* No coroutine dies of an IndexError in buffer_append.
NoIndexError == IndexInBounds(st)

\* Every message to Me up to the sync watermark has been put into a buffer,
\* in this process or an earlier one: overlapping sync calls with older
\* answers, lost frames, crashes and limits never make sync skip one.
NothingSkipped ==
    \A i \in DOMAIN rows : rows[i].to = Me /\ i <= st.afterId => rows[i].id \in shown

\* The watermark a restart begins with is the one the process had, even when
\* it was killed: do_sync persists it before anything else can happen.
WatermarkDurable == disk.afterId = st.afterId

\* The watermark never moves back, not by the late answer of an earlier sync
\* call, nor by a restart.
WatermarkForward == [][st'.afterId >= st.afterId]_vars

\* The peer on the screen has no unread messages, and would have none after a
\* restart, though calls for other peers and frames are handled meanwhile.
CurrentIsRead ==
    /\ st.current # NoPeer => st.unread[st.current] = 0
    /\ disk.current # NoPeer => disk.unread[disk.current] = 0

\* A row of the table from the first to the last of these.
Within(id, items) ==
    items # <<>> /\ \E i, j, k \in DOMAIN rows :
        /\ i <= k /\ k <= j
        /\ rows[i] = Head(items) /\ rows[j] = Last(items) /\ rows[k].id = id

\* A message leaves the screen only because the process ends, because it is the
\* oldest of a full buffer, or by a reload whose page it is not in: one older
\* than the page, or one the table did not have when the page was read.
VanishForAReason ==
    [][\A p \in Peers : \A id \in Held(st, p) \ Held(st', p) :
         \/ st' = Loaded(disk')
         \/ Len(st.buffers[p]) = MaxBuffer /\ st.buffers[p][1].row.id = id
         \/ \E t \in Tasks :
              /\ task[t].kind = "loaded" /\ task[t].peer = p /\ task'[t] = Idle
              /\ ~Within(id, task[t].items)]_vars

\* An own message shown as received by the server or as delivered is in the
\* table, whichever of ack, echo, verdict, sync and history said so, and whatever
\* inserts failed and connections were lost.  (Where no buffer overflows.  Not
\* where its msg_id was taken: such a message is acked and echoed like any other.)
SentIsStored ==
    \A p \in Peers : \A i \in DOMAIN st.buffers[p] :
        LET m == st.buffers[p][i]
        IN  /\ m.row.from = Me /\ m.row.id \notin Taken
            /\ m.status \in {"server_received", "delivered"}
            => m.row \in Range(rows)

\* A reader that asks for page after page, each before the first row of the one
\* before, sees every row of the conversation once and in order.
PagesCover ==
    \A p \in Peers :
        LET Back[before \in 0 .. Len(rows)] ==
              LET page == Page(p, before, HistoryLimit)
              IN  IF page = <<>> THEN <<>> ELSE Back[page[1]] \o page
        IN  Lists(Back[0], {i \in DOMAIN rows : PeerOf(rows[i]) = p})

\* aha_tui.py:116, "msg_id -> (peer, index) for quick status updates": a status
\* update reaches the message it is for.
StatusHitsItsMessage == IndexExact(st)

\* aha_tui.py:144, "de-dup by msg_id (important for sync + ws overlap)": a peer
\* never has more unread messages than it has written.
UnreadNotOvercounted ==
    \A p \in Peers :
        st.unread[p] <= Cardinality({i \in DOMAIN rows : rows[i].from = p})

\* aha_tui.py:604, "already have it (dedup)": a frame handled without counting
\* is of a message that was there before.
NewMessageCounts ==
    [][\A p \in Peers :
         (/\ HandleMsg
          /\ Head(frames).row.from = p /\ p # st.current
          /\ Head(frames).row.id \notin shown)
         => st'.unread[p] = st.unread[p] + 1]_vars
=============================================================================
