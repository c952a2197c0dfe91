------------------------------ MODULE TuiState ------------------------------
(***************************************************************************)
(* The State object of the terminal client (aha_tui.py, class State): the  *)
(* message buffer of each peer, the index "msg_id -> (peer, position)" that *)
(* finds a message in it, the unread counters, the order of the peers and  *)
(* the sync watermark.  A state is a record and a method is an operator    *)
(* from states to states; Tui composes them to what the client does.       *)
(*                                                                         *)
(* Python's setdefault and get(peer, default) make absent entries read as  *)
(* [] and 0, so buffers and unread are total functions here.  Positions    *)
(* count from 1.                                                           *)
(***************************************************************************)
EXTENDS Naturals, Sequences, SequencesExt, FiniteSets, Ranks

CONSTANTS
    Me,         \* the username the client is logged in with
    Peers,      \* the other users
    NoPeer,     \* current_peer = ""
    MaxBuffer,  \* MAX_BUFFER_PER_PEER (400 in the code)
    MaxMsgs     \* bound of the model: messages ever written, by anyone

ASSUME StateAssumption ==
    /\ Me \notin Peers
    /\ NoPeer \notin Peers
    /\ MaxBuffer \in Nat \ {0}
    /\ MaxMsgs \in Nat

MsgId == 1 .. MaxMsgs

Status == {"pending", "server_received", "delivered", "failed"}

\* A message as the server stores and sends it.
Row == [id : MsgId, from : Peers \cup {Me}, to : Peers \cup {Me}]

\* A ChatMsg: a row with the status the client shows.
ChatMsg == [row : Row, status : Status]

\* Slip: the status of an own message is left to its default.
ChatDefault(row, status) == [row |-> row, status |-> "delivered"]

Chat(row, status) == [row |-> row, status |-> status]

\* The other side of a message: whose buffer it belongs to.
PeerOf(row) == IF row.from = Me THEN row.to ELSE row.from

NoIndex == [id \in {} |-> [peer |-> NoPeer, pos |-> 0]]

NewState ==
    [buffers |-> [p \in Peers |-> <<>>],
     index   |-> NoIndex,
     order   |-> <<>>,
     unread  |-> [p \in Peers |-> 0],
     current |-> NoPeer,
     afterId |-> 0]

----------------------------------------------------------------------------
\* add_peer: to the front of peers_order, whether new or not.
AddPeer(s, p) ==
    [s EXCEPT !.order = <<p>> \o RemoveFirst(@, p)]

\* Slip: the counter is cleared when the history is there, not at once.
OpenedUncleared(s, p) == AddPeer([s EXCEPT !.current = p], p)

\* What switch_peer does at once: p is on the screen, read, and in front.
Opened(s, p) == AddPeer([s EXCEPT !.current = p, !.unread[p] = 0], p)

\* The peer n places after the current one, around the end; the first one
\* when there is no current peer.  A current peer is always in the order.
Neighbour(order, current, n) ==
    IF current = NoPeer THEN order[1]
    ELSE order[((SelectInSeq(order, LAMBDA q : q = current) + n - 1) % Len(order)) + 1]

\* Ctrl+N
NextPeer(order, current) == Neighbour(order, current, 1)

\* Ctrl+P
PrevPeer(order, current) == Neighbour(order, current, Len(order) - 1)

\* What buffer_append does for a message it already has: its status may
\* become better, in the buffer and at the position the index remembers.
Upgrade(s, p, m) ==
    LET at == s.index[m.row.id]
    IN  IF /\ at.peer = p
           /\ s.buffers[p][at.pos].status \notin {m.status, "delivered"}
        THEN [s EXCEPT !.buffers[p][at.pos].status = m.status]
        ELSE s

\* Slip: the length is compared with the cap before the append.
ExcessLate(all) == IF Len(all) > MaxBuffer + 1 THEN Len(all) - MaxBuffer - 1 ELSE 0

\* Slip: only the newest message stays.
ExcessAll(all) == IF Len(all) > MaxBuffer THEN Len(all) - 1 ELSE 0

\* How many of the oldest messages a buffer has to drop.
Excess(all) == IF Len(all) > MaxBuffer THEN Len(all) - MaxBuffer ELSE 0

\* Slip: the dropped messages stay in the index.
UnindexedNever(index, ids) == index

Unindexed(index, ids) == Restrict(index, DOMAIN index \ ids)

\* Slip: the position is taken before the oldest messages are dropped.
PlaceEarly(all) == Len(all)

\* The position of the new message.
Place(all) == Len(all) - Excess(all)

Indexed(index, id, at) ==
    [i \in DOMAIN index \cup {id} |-> IF i = id THEN at ELSE index[i]]

\* What it does for a new one: append, drop the oldest beyond MaxBuffer from
\* buffer and index, index the new one at the end.  The positions of those
\* that stay are not moved along.
Insert(s, p, m) ==
    LET all  == Append(s.buffers[p], m)
        gone == {all[i].row.id : i \in 1 .. Excess(all)}
    IN  [s EXCEPT !.buffers[p] = SubSeq(all, Excess(all) + 1, Len(all)),
                  !.index = Indexed(Unindexed(@, gone), m.row.id,
                                    [peer |-> p, pos |-> Place(all)])]

BufferAppend(s, p, m) ==
    LET t == AddPeer(s, p)
    IN  IF m.row.id \in DOMAIN t.index THEN Upgrade(t, p, m) ELSE Insert(t, p, m)

\* update_status: silently nothing when the index does not lead to a message.
UpdateStatus(s, id, status) ==
    IF id \in DOMAIN s.index /\ s.index[id].pos <= Len(s.buffers[s.index[id].peer])
    THEN [s EXCEPT !.buffers[s.index[id].peer][s.index[id].pos].status = status]
    ELSE s

\* How switch_peer and /history replace a buffer: emptied, its messages out of
\* the index, then the rows of the answer appended one by one.
ReplaceBuffer(s, p, rows) ==
    LET cleared == [s EXCEPT !.buffers[p] = <<>>,
                             !.index = Unindexed(@, {id \in DOMAIN @ : @[id].peer = p})]
    IN  FoldLeft(LAMBDA t, row : BufferAppend(t, p, Chat(row, "delivered")), cleared, rows)

\* buffer_append of a message that came from the server, and the counter: a
\* message is new when its buffer has grown.
Receive(s, row) ==
    LET p    == PeerOf(row)
        t    == BufferAppend(s, p, Chat(row, "delivered"))
        grew == Len(t.buffers[p]) > Len(s.buffers[p])
    IN  IF grew /\ p # s.current THEN [t EXCEPT !.unread[p] = @ + 1] ELSE t

----------------------------------------------------------------------------
\* Slip: the watermark is left out of the config file.
PersistedUnmarked(s) ==
    [order |-> s.order, unread |-> s.unread, current |-> s.current, afterId |-> 0]

\* persist_cfg: the part of the state that survives the process.
Persisted(s) ==
    [order |-> s.order, unread |-> s.unread, current |-> s.current, afterId |-> s.afterId]

\* ensure_login: what a new process knows.
Loaded(cfg) ==
    [NewState EXCEPT !.order = cfg.order, !.unread = cfg.unread,
                     !.current = cfg.current, !.afterId = cfg.afterId]

----------------------------------------------------------------------------
(* Properties of a state. *)

Held(s, p) == {s.buffers[p][i].row.id : i \in DOMAIN s.buffers[p]}

\* The index has an entry for exactly the messages in the buffers, each entry
\* names the peer whose buffer holds the message, and no message is there
\* twice: de-duplication sees every message on the screen, and only those.
IndexCovers(s) ==
    /\ DOMAIN s.index = UNION {Held(s, p) : p \in Peers}
    /\ \A p \in Peers : \A i \in DOMAIN s.buffers[p] :
         /\ s.index[s.buffers[p][i].row.id].peer = p
         /\ \A j \in DOMAIN s.buffers[p] :
              s.buffers[p][i].row.id = s.buffers[p][j].row.id => i = j

\* An index entry never points past the end of its buffer, nor before the
\* message it is for: the unguarded buf[idx] of buffer_append cannot raise.
IndexInBounds(s) ==
    \A p \in Peers : \A i \in DOMAIN s.buffers[p] :
        LET at == s.index[s.buffers[p][i].row.id]
        IN  at.peer = p => i <= at.pos /\ at.pos <= Len(s.buffers[p])

\* An index entry points at its message.
IndexExact(s) ==
    \A id \in DOMAIN s.index :
        LET at == s.index[id]
        IN  at.pos \in DOMAIN s.buffers[at.peer]
            /\ s.buffers[at.peer][at.pos].row.id = id
=============================================================================
