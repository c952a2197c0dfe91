# aha-chat: a TLA+ model of the server and the terminal client

This directory specifies aha-chat's server hub, its terminal client and the
accounts between them in TLA+, checks them with TLC on small instances, and
proves nearly all safety properties for every instance with TLAPS, the hub's
refinement of an abstract mailbox among them. Paths below are relative to the
repository. Line numbers refer to the files this directory is kept beside.

## 1. The system

A Go server (`cmd/server`) keeps users, tokens and messages in SQLite, answers
`/v1/login`, `/v1/register`, `/v1/history` and `/v1/sync` over HTTP, and carries
live messages over one WebSocket per client. A Python terminal client
(`aha_tui.py`) shows conversations, fed by that WebSocket and by HTTP calls.

| part | state | operations | talks to |
|---|---|---|---|
| Hub (`hub.go`) | `clients`, `byUser`, the queue `sendTo` | register, unregister, sendTo | the `send` channel of every connection |
| connection (`ws.go`, `client.go`) | `send` (64 frames), the handler goroutine's place and locals, the writePump goroutine | welcome, read, store, ack, echo, hand over, leave; write, ping, close frame | hub (rendezvous and queue), messages table, socket |
| messages table (`db.go`) | rows in id order, `msg_id` unique | StoreTextMessage, QueryConversation, QuerySyncInboxAfterID | handlers |
| users and tokens (`db.go`, `http_handlers.go`) | users, tokens with expiry | CreateUser, AuthenticateUser, IssueToken, UsernameByToken | HTTP handlers, wsHandler |
| client state (`aha_tui.py`, `State`) | buffer per peer, `msg_index`, unread, peer order, current peer, `after_id` | add_peer, buffer_append, update_status | everything in the client |
| client loop (`aha_tui.py`, `TUI`) | the WebSocket, the calls coroutines are inside, the config file | connect loop, frames, send, sync, switch peer (command and keys), history, quit | server over WebSocket and HTTP |
| account (`aha_tui.py`, `TUI`) | base_url, username, token, after_id, in memory and on disk | login, register, logout, base, refusal of a token | HTTP handlers |
| start and shutdown (`main.go`) | none | InitDB, newHub, signal, Shutdown, CloseDB | all of the server |

What is hard here, and which properties answer it:

* **Hub and connections.** Three goroutines per connection and the hub meet at
  channels that the hub closes while handlers still use them. A newer login
  kicks an older connection whose handler unregisters later. Queues are bounded:
  a full receiver is kicked, a full hub queue blocks handlers, a full sender
  loses its answer. The process may end at any point, Shutdown waits for no
  WebSocket handler, and only the table survives. Correct means: both maps agree,
  a channel is closed once, nobody stays registered without a living handler, a
  message is delivered and answered at most once and in order, an ack is true,
  and nothing waits forever.
* **Client.** One thread, but every HTTP call is an await: a sync answer, a
  history answer, live frames, echoes and typed commands mix in any order, and
  what a call brings back was computed before other things happened. Correct
  means: a message is on the screen once and stays there, sync skips nothing, the
  watermark goes forward and survives a kill, positions stay inside their
  buffers, unread counters count messages.
* **Account.** A login is two calls, a logout is none, a refusal comes with the
  answer of a call made earlier, and the loop keeps connecting with whatever the
  token is at the time. A server also refuses a token when it fails to look it
  up. Correct means: the token is that of the user named beside it, a restart
  neither loses a login nor revives one that was given up, and a good token gets
  the client back online.

`PROJECT.json` lists every component with its status and every hazard with its
line and the properties that cover it.

## 2. The modules

| module | what it is |
|---|---|
| `Hub` | hub goroutine, handlers, writePumps, messages table |
| `MCHub` | values for Hub's constants |
| `Mailbox` | abstract: what the server promises about a message |
| `HubMailbox` | Hub as a Mailbox: the refinement mapping |
| `Ranks` | finite sets of numbers in ascending order, with lemmas: the rows or frames that satisfy a condition, oldest first |
| `HubProofs` | theorems about Hub: types and the registry |
| `HubDelivery` | theorems about Hub: where a message is on its way, and in which order |
| `HubAnswers` | theorems about Hub: acks and "delivered" are true |
| `HubMailboxProofs` | Hub implements Mailbox |
| `TuiState` | the client's State object: records and operators on them, no variables |
| `Tui` | the client's coroutines around a TuiState, and the server as the client sees it |
| `MCTui` | values for Tui's constants, and what the keys do with small peer lists |
| `TuiStateProofs` | what every method of the State object keeps |
| `TuiProofs` | theorems about Tui |
| `Session` | the client's account and connection, users and tokens of the servers |
| `MCSession` | values for Session's constants |
| `SessionProofs` | theorems about Session |

Operators whose comment begins with "Slip" are not part of a specification:
each is a definition as a plausible mistake would have it, and stands right
before the one it distorts. `PROJECT.json` pairs each property of a passing run
with the slip that breaks it.

### Hub

A member of `Conns` is one call of `wsHandler` past its token check. Go may
switch goroutines at a channel or database operation, so a step of the model is
the code from one such operation to the next.

| action | code |
|---|---|
| `Register`, `Unregister` | the hub's two cases, each with the handler's side of the rendezvous; `Register` closes the older connection of the user |
| `Greet` | the welcome frame and `go c.writePump()` |
| `ReadRejected`, `ReadMsg` | a frame that is answered with an error; a frame that is stored |
| `Ack`, `Echo`, `HandToHub` | steps 3, 5 and 6, 7 of readPump; HandToHub blocks while the queue is full |
| `ReadFails` | ReadMessage returns an error, or its deadline passes |
| `WriteFrame`, `WriteFails`, `PingFails`, `SendCloseFrame` | writePump |
| `SendToOffline`, `SendToOnline`, `SendToSlow` | the three ways the hub serves a request |
| `Restart` | `main`: the process ends in whatever way and is started again on the same file |

A send on a closed channel panics. In a handler, net/http recovers it: the
handler goes to `"panicked"` and runs nothing further, its unregister included.
In the hub nothing recovers it: `crashed` becomes TRUE and everything stops until
the server is started again.

Abstractions: a message is `[id, to, conn]`, its text does not matter; the
sockets are the sequences `wire`; `conn.Close()` is part of `Unregister`, and
writes may still succeed afterwards, as they may in the code between the two.
A message to oneself is allowed by the module and covered by the theorems;
`MCHub`'s drafts have none. `lost` is a history variable, which no step reads: for
every connection the message frames that were in its channel and will never be
written, because a write of them failed (`WriteFails`) or the process ended with
them in the channel (`Restart`). `Texts` picks these frames. `DeliveredMeansQueued`
needs it to say what "delivered" is worth: the frame is in the channel or on the
wire of a connection of the receiver, or it is in `lost`.

### Mailbox

The promise: a message is accepted once, for all time (`msg_id`), waits, and is
then given to one connection of its receiver or refused, in the order of its
sender's connection. A connection that ends, or panics, may take its latest
message with it; a box may lose frames (a dead writePump); a restart may lose all
that waits and all that is still on its way. `HubMailbox` maps `accepted` to the
table, `waiting` to what handlers hold between insert and handover together with
`hub.sendTo`, and a box to the frames of others in a connection's channel and on
its wire. What a sequence of frames gives to a connection is written as the
list of the places of these frames (`Places`, `Nth`), a form that can be proved
about. `hub_pair` checks `ImplementsMailbox`, that every step of Hub is a step of
Mailbox or none, and `HubMailboxProofs` proves it.

### TuiState and Tui

The State object is the record `st`; each method is an operator from states to
states. `setdefault` and `get` with a default make missing entries read as empty,
so buffers and counters are total functions. Positions count from 1.

An HTTP call takes three steps, between which anything else may happen:
sent (`AskSync`, `AskHistory` with what the state says then), answered by the
server from the table as it is then (`Answer`), applied to the state as it is
then (`ApplySync`, `ApplyHistory`); or it fails (`CallFails`). `Tasks` holds the
WebSocket loop, which handles no frame while it is inside its sync, and a
coroutine for typed commands.

Sending is another await. `SendMsg` is `ws_send_msg` up to `ws.send`: the message
is shown as pending and may or may not get on its way. `sending` has the ids whose
`ws.send` may still raise, and `SendFails` is the handler of that exception,
at any time after: after the ack, the echo, a trim, a reload, or a reconnect.

The server is its table, and the frames it owes: `PeerWrites` stores a message
for us, `ServerTakes` takes one of ours: it stores it, or ignores it because its
msg_id is in `Taken` (`Store`, with the same ack and echo but no word from the
hub), or its insert fails and there is an error. `Push` sends what is owed, at most once
and in order per sender, possibly leaving frames out (offline, slow, full). That
is what `Hub` gives its clients by `AtMostOnce` and `PerSenderOrder`.
An ack and an echo are put on their way together; a frame between them would
lead to the same buffers.

`CyclePeer` is Ctrl+N and Ctrl+P, `ReloadHistory` is `/history n` for the n of
`ReloadLimits`. A history answer is a `Page` of the table as `QueryConversation`
makes it: the newest rows before an id, oldest first.

Left out of Tui: accounts and the clean close of the WebSocket (Session), messages
to oneself, and the failure frame that names no message, which changes no state.

### Session

What `TUI` does with `base_url`, `username`, `token` and `after_id` (the record
`st`, and `disk` for the config file), around servers that keep `accounts` and
`tokens`. Calls take three steps as in Tui.

| action | code |
|---|---|
| `UserCommand`, `ApplyAnswer` | /login and /register: each makes both calls, in its own order, and goes on whatever the first one answered |
| `Logout`, `SetBase`, `SyncCommand` | the commands |
| `ApplySync`, `CallFails` | do_sync after its answer; an unauthorized one clears the token |
| `BeginConnect`, `ConnectSucceeds`, `LoopRaises`, `LoopEnds`, `SocketCloses` | ws_connect_loop, with the clean close that raises nothing |
| `Start`, `Started`, `Stop` | ensure_login with its trial of the saved token; quit, kill, or the end by an exception |
| `AnswerLogin`, `AnswerRegister`, `AnswerSync`, `Expire` | the handlers and what they ask of the users and tokens tables |

`UsernameByToken` is the set of what that function may return: for an accepted
token its user or an error, since its query may fail, otherwise an error.
syncHandler answers every error with 401. `dropped` is a history variable: the tokens
a running client gave up.

Abstractions: what sync brings is only the rows of the token's user, from a table
that does not change (`Inbox`); the answer is one page; a token is who it was
issued to, where and as which; expiry makes it unacceptable in one step, that the
row is deleted when this is noticed changes no answer. `OpenBases` are the
servers that take new accounts, a bound.

## 3. Runs

| run | instance | shows |
|---|---|---|
| `hub_relogin` | alice on two connections, bob on one, 1 message that may be repeated, channels and queue of 1 | maps, channels and handlers agree through every login, kick (by a newer login and for a full channel), failure, panic and restart; acks are true; no repetition is delivered twice; removals have a reason |
| `hub_pair` | one sender, 2 messages, receiver that stops writing, channels of 2, queue of 2 | order, one answer per message, "delivered" is true, and Hub implements Mailbox |
| `hub_live` | two senders, absent receiver, channels and queue of 1 | liveness under a full queue and after a dead writePump |
| `hub_crash` | as `hub_relogin`, channels of 2 | **violation**: the hub panics on a reply |
| `hub_collision` | two users with the same msg_id | **violation**: server_received for what was never stored |
| `tui_peers` | 2 peers, 2 messages, one msg_id taken | the open conversation is read, an own message shown as received or delivered is stored, with failed and ignored inserts, sends that raise late and overlapping calls |
| `tui_trim` | 1 peer, 3 messages, buffers of 2, pages of 1 | de-duplication and index bounds when buffers overflow; no message leaves the screen without a reason; sync skips none, and its watermark goes forward and survives a kill; history pages cover the table |
| `tui_index`, `tui_unread_cap`, `tui_unread_twice` | 1 peer | **violations**: index after a trim, unread at the cap, unread after a restart |
| `session` | 2 users, 2 servers, 2 tokens, one command at a time beside the loop | whose token it is, what survives a restart, and that a client with a good token comes back online |
| `session_inbox` | as `session`, with a row for each user | **violation**: the next user's older messages are never pulled |

**Bounds.** Capacities shrink from 64, 256, 400, 200 and 80 to 1 or 2: the code
only asks whether a queue is full or a page is exhausted, and the small ones
make both happen. Two messages are the fewest that can be out of order, three
the fewest that overflow a buffer of two and are then touched again. Two
connections of one user are what kicking needs. `MaxReads` bounds the
frames read per connection, `MaxMsgs` the messages ever written, `MaxFrames`
the frames at which the server holds back, `MaxSends` the sends that may still
raise. It is 0 in `tui_trim`: with it no run of that size ends in time, and that a
late failure after trims and reloads keeps buffers and index in step is what
theorem `TuiSound` says for every value. In `tui_peers` it is 2, all messages, and
`Taken` has one of the two msg_ids; elsewhere none is taken. `hub_relogin` has
channels of one frame, which the welcome already fills: a first message may then
find its receiver slow. The session runs have two tokens, an old and a new one, one
command beside the loop (two calls under way), and accounts on one of two servers, so
that `/base` leads to one where the token is worth nothing. Two commands at once, as
two logins that overlap, are in the theorems `TokenOwner` and `RestartSound` for any
number. A wrong password needs no second one: typed for a name without an account
it is refused like any other. `/history n` asks for fewer rows than a buffer holds
in the trim runs and for as many in `tui_peers`.
Connections of one user are symmetric in `hub_relogin`, peers in `tui_peers`; the
runs that check liveness use no symmetry. Deadlock is not checked: a bounded
instance whose frames are all read, connections all closed and messages all
written has nothing left to do.

**Fairness** in `hub_live`. A goroutine that can run does run: WF for the
handler's non-blocking steps, for `Unregister`, for the end of writePump on a
closed channel, and for the hub's serving of requests, since `select` picks
at random among ready cases. SF for `HandToHub`: blocked senders of a Go channel
queue first in, first out, so one gets in although others keep filling the
queue. SF for `ReadDeadline`: once writePump is done no pings go out and no
pongs extend the deadline, so every later read fails, also when the handler
is busy in between. Nothing is assumed of peers or the network: frames need not
be written, sockets need not fail, the server need not be restarted.

In `session`: WF for the steps of ws_connect_loop, of the event loop that runs it
and of its sync call, which `ClientTimeout` (15 s) ends, and for the notice of a
closed WebSocket; SF for `ConnectSucceeds`: the network may fail any attempt, but
not all of ever new ones. Nothing is assumed of the user, of expiry, or of the
server's closing of a WebSocket.

## 4. Divergences found

1. **The hub can panic and take the server down** (`hub_crash`, hub.go:69, 81,
   102). It answers on the sender's channel without asking whether it is
   still open. A sender kicked or gone between its handover and the serving of
   it is enough. A slow receiver that is its own sender is another way.
2. **An ack for a message that was not stored** (`hub_collision`, client.go:82,
   db.go:118). `msg_id` is unique over all users and the clients' ids carry no
   user.
3. **Status updates reach another message** (`tui_index`, aha_tui.py:162). A
   trim leaves the index one too high.
4. **New messages are not counted** (`tui_unread_cap`, aha_tui.py:596). At the cap
   a buffer does not grow.
5. **Messages are counted twice** (`tui_unread_twice`, aha_tui.py:144). The
   counters survive a restart, the index does not. The same happens when a
   frame that sync has already counted arrives after a restart.
6. **The next user's inbox is not pulled** (`session_inbox`, aha_tui.py:476; the
   text it contradicts is aha_tui.py:709). `/login` as another user and `/base`
   keep `after_id`, so sync starts behind rows nobody has pulled.

Read but not run: `diagram.md` draws all messages through `hub.broadcast` to
everyone, while readPump uses `sendTo` and nobody sends on `broadcast`;
`smoke_test_split.py` uses `dev-token-` tokens, which `UsernameByToken` rejects.
Ctrl+N moves the chosen peer to the front of the list it walks, so it alternates
between two peers (`MCTui`, assumption `CtrlNAlternates`; Ctrl+P reaches all).
`/login` goes on to register after a failed login, so a mistyped name becomes an
account. Every error of `UsernameByToken`, a failed query (db.go:379) included, is
answered 401 (http_handlers.go:84), and the client forgets its token, saying
"saved token expired/invalid" (aha_tui.py:449) or "token expired?" (505) of one
that is good; it also forgets the token it has by then when the refused call was
made with an older one. After a refused trial at the start the token stays on
disk: the next start tries it again, and is logged in again if the refusal was a
failed query. A WebSocket opened for one user stays open after `/login` as another,
and what is sent over it goes out under the old name. With a saved token and no
server in reach the client does not start. Two clients of one user kick each other
without a pause.

## 5. Proofs

Every theorem holds for all values of the constants that satisfy the named
assumption of its module (`ConstantsAssumption`, `StateAssumption` with
`TuiAssumption`, `SessionAssumption`), which ask for no more than that sets are
finite, capacities positive and names different. Nothing else is assumed, except
where a theorem says so.

Each inductive invariant was first run as an invariant on the instances of
section 3 and only then proved.

### Hub: types and registry (`HubProofs`)

| theorem | states |
|---|---|
| `TypeCorrect` | `Spec => []TypeOK`, with the capacities of channels and queue |
| `RegistrySound` | `Spec => []Registry`, the inductive invariant |
| `RegistryAgrees` | `Spec => []RegistryConsistent` |
| `ReceiverIsOpen` | `Spec => []OpenIffRegistered` |
| `NoDeadEntry` | `Spec => []NoZombie` |
| `RemovalJustified` | `Spec => RemovedForAReason` |

`TypeOK` is not inductive: a handler in `"acking"`, `"echoing"` or `"handing"`
uses `out[c]`, which `TypeOK` allows to be `NoMsg`. `TypeInv` adds
`HandlingMessage`: in these places `out[c]` is a message.

The three registry invariants are not inductive alone either, they need each
other. That `Register` closes a channel at most once, and that `SendToOnline`
finds its receiver's channel open, needs `OpenIffRegistered` together with
`RegistryConsistent`: an entry of `byUser` is registered, so it is open.
`OpenIffRegistered` in turn needs that a connection about to register is not yet
in `clients`, which `NoZombie` gives (`"idle"` is not in `Registered`).
`NoZombie` is preserved by a handler's panic because the panic says that its
channel is closed, hence that it is not registered, which is
`OpenIffRegistered`. So `Registry` is the conjunction of all of them. The proof
goes by goroutine: handler steps, writePump steps, register, unregister, the
hub's serving, and the restart, with one lemma (`RemovalRegistry`) for what
unregister and the slow kick have in common, and one (`RegistryKept`) for steps
that leave the maps alone. `RemovalJustified` is an action property and uses
`Registry` in the state before the step.

`OpenIffRegistered` also says where finding 1 lies: neither a send to a receiver
nor a `close` of the hub can panic, only its replies to senders.

### Hub: the way of a message (`HubDelivery`, `HubAnswers`)

| theorem | states |
|---|---|
| `DeliverySound` | `Spec => []Delivery`, the inductive invariant |
| `NeverTwice` | `Spec => []AtMostOnce` |
| `AnsweredOnce` | `Spec => []OneOutcome` |
| `OrderKept` | `Spec => []PerSenderOrder` |
| `AckIsTrue` | `NoCollision => (Spec => []AckedIsStored)` |
| `DeliveredIsTrue` | `Spec => []DeliveredMeansQueued` |

`Delivery` follows a row through its stations: held by the one handler that
inserted it (`HandlerSound`), queued once (`QueueSound`), served once
(`ServedSound`, `ServedOnce`). At every station, and from each to the next, the
messages of one connection are in the order of their rows: what is held comes
after what is queued, and that after what is served. This is what makes the
order inductive, since a step moves a message from one station to the next, and
it also gives at-most-once, since a row that waits is not among those served.
`RowsUnique` (the UNIQUE column) starts it: a repeated msg_id is not held at all.

What steps do to frames is said once, for the stream of a connection (channel
and wire together): a stream keeps its deciding frames (`Keeps`), perhaps losing
one or its end, or serves one request (`Serves`). A step that keeps them in all
streams preserves the invariant by one lemma (`QuietStep`); only insert, handover
and serving remain.

`AckIsTrue` has a hypothesis: no msg_id is drafted by two users, or by one user
for two receivers. Without it the statement is false, as `hub_collision` shows
(finding 2); with it the row found under the msg_id is the message itself.
`DeliveredIsTrue` needs `Registry` (the channel the hub sends to is open and
belongs to the receiver). Its invariant `DeliveredSound` says for each
`"delivered"` that the frame it speaks of has arrived at one connection of the
receiver. That it stays so (`ArrivedStays`) rests on `FrameKept`: a message frame
once in a stream stays in it or goes to `lost`, which only grows (`LostGrows`).

### Hub implements Mailbox (`HubMailboxProofs`)

`HubIsMailbox` is `Spec => ImplementsMailbox`, the refinement with the mapping of
`HubMailbox`. The lemma on which all about the boxes rests is `GivenConcat`: what
two sequences of frames give is what the one gives and then the other. From it
follow the effects of a frame more, a frame lost and a channel lost. That the
hub's oldest request is the one Mailbox may take next (`HeadIsFirst`), and that
what a panicking handler drops is the latest of its connection (`HeldIsLatest`),
comes from the orders in `Delivery`. Then one lemma per goroutine shows that its
steps are steps of Mailbox or leave `accepted`, `waiting` and `box` alone.

### Client (`TuiStateProofs`, `TuiProofs`)

| theorem | states |
|---|---|
| `TuiSound` | `Spec => []TuiInv`, the inductive invariant |
| `TuiTypes` | `Spec => []TypeOK`, with the length of the buffers |
| `NeverShownTwice` | `Spec => []DedupSound` |
| `IndexStaysInside` | `Spec => []NoIndexError` |
| `SyncSkipsNothing` | `Spec => []NothingSkipped` |
| `WatermarkOnDisk` | `Spec => []WatermarkDurable` |
| `ScreenIsRead` | `Spec => []CurrentIsRead` |
| `WatermarkAdvances` | `Spec => WatermarkForward` |
| `HistoryIsCovered` | `Spec => []PagesCover` |
| `SentIsTrue` | `MaxMsgs <= MaxBuffer => (Spec => []SentIsStored)` |
| `StatusHitsUntrimmed` | `MaxMsgs <= MaxBuffer => (Spec => []StatusHitsItsMessage)` |

`TuiStateProofs` has a lemma for each method of State: it keeps `Sound`. That
buffer and index go together (`IndexCovers`) and that positions stay inside
(`IndexInBounds`) need each other and the length of the buffers: a trim drops at
most one message because no buffer was too long before, and the stale positions
it leaves are one too high, never beyond the end, only because the buffer is full
then. `ReplaceBuffer` and `ApplySync` are folds over lists of any length. Their
proofs take the recursive function behind `FoldLeft`, show that it exists
(`ReceiptsExist`, `LoadsExist`), read off the state after each row, and go up the
list with `Climb`, which is induction over numbers for sets.

`TypeOK` is not inductive: it allows a message between two others than `Me`, which
belongs to no buffer. `Shapes` has `Ours`, messages of `Me` with a peer,
everywhere instead of `Row`. `NothingSkipped` needs what the calls under way will
do to the watermark: `CallSound` says that a call was asked no further on than the
watermark is by now, and that an answer has every row for `Me` from the
watermark up to where it leads. A watermark moved on by another call in between
only makes this weaker. And the watermark is not past the table (`Pulled`), or
a row written there would be skipped.

`HistoryIsCovered` is about `Page` alone, in every table. The function of
`PagesCover` is recursive over the rows before which a page is asked; `TurnsExist`
shows with `Climb` that there is one, since a page begins before the row it is
asked with. Each page is the end of what is left (`PageLists`), so what the pages
before list and then the page is a list of everything so far (`ListsOn`).

`SentIsTrue` has the hypothesis that a buffer may hold as many messages as are
ever written, because with trimming positions go stale and an ack may mark another
message, which is finding 3; and `SentIsStored` excepts messages whose msg_id was
taken, which is finding 2. The inductive invariant is `StoredInv`: for the set `W`
of all messages written, whose ids differ, the table and the outbox are in `W`, and
frames that are not errors, and the statuses of the state, are about `Told(W)`: rows
of the table, or messages of `W` with a taken id (`Faithful`, with exact positions and
every message of the buffers in `W`). `Told(W)` only grows (`ToldGrows`), so a frame
that was true stays true, and an error or a send that raises late, which may be
about any message, sets a status that claims nothing. One lemma for each method of
State says that it keeps `Faithful`; that a new message needs no trim is counted with
`FS_Injection` (`RoomLeft`). So long as nothing
is trimmed, status updates reach their messages (`StatusHitsUntrimmed`): trimming is
the only cause of that finding.

### Account (`SessionProofs`)

| theorem | states |
|---|---|
| `SessionTypes` | `Spec => []TypeOK` |
| `SessionSound` | `Spec => []SessionInv`, the inductive invariant |
| `TokenOwner` | `Spec => []TokenIsUsers` |
| `RestartSound` | `Spec => []RestartKeepsSession` |

`RestartKeepsSession` is not inductive: when the answer of a login is applied, its
token must not be one that was given up before. `Fresh` says why: every token in
memory, on disk or given up was issued earlier, and a token in an answer is in no
other place and no other answer (`New`), because the server never issues a number
twice. Nothing is assumed about which tokens are refused, since a good one may be.
`Shapes` has the form of the records and, through `Sound`, that what follows on an
answer is a call. The proof has one lemma for steps that save (`SaveInv`), one for
steps that change a call and leave memory and file alone (`CallInv`), and the starting
and stopping of the process by itself.

`SessionTypes` needs where each call may be made (`Placed`): the loop's in its two
places, commands only while the application runs.

### Only model-checked

* Liveness (`StoredIsServed`, `DeadWriterLeaves`, `Reconnects`): fairness and
  ENABLED are outside what the prover handles.
* `VanishForAReason`: as stated it is for sync pages of one row, as in the runs. With
  longer pages one step may drop several messages from a full buffer, so the
  statement has to grow before it can be proved.
* What the runs that expect a violation show.

## 6. Not modelled

Routes, logging and JSON helpers (I/O without state of their own); parsing of
query parameters, limits and names (normalizeLimit, normalizePeer): models take
valid values; rendering, /help, /peers and usage messages, which only print;
`ws_client.py`, a print loop around one WebSocket; `smoke_test_split.py`, a script
for tokens the server no longer accepts; `cmd/tcpecho`, a demo that shares nothing
with the chat; the hub's broadcast case and `usernameFromToken`, which no code
reaches; bcrypt and the randomness of tokens.

Not composed: Session and Tui share the client but are separate modules. The
messages of one account with buffers, and the account with calls, are each at
the size TLC can still check; together they are not.

## 7. Plan

1. Done: `Hub` with restarts, `TuiState`, `Tui` with pages and keys, `Session`,
   `Mailbox` and the mapping that shows Hub implements it.
2. Done: the theorems about the registry, delivery, answers and the account, the
   refinement of `Mailbox`, the client's types, de-duplication, index bounds and
   watermark.
3. Next: `VanishForAReason` for sync pages of any length.
