------------------------------ MODULE Session ------------------------------
(***************************************************************************)
(* The account of the terminal client (aha_tui.py): login, registration,   *)
(* logout and change of server, the sync calls that use the token, the     *)
(* WebSocket loop that connects with it and the config file that keeps it, *)
(* with the users and tokens of the servers (db.go, http_handlers.go).     *)
(*                                                                         *)
(* As in Tui, an HTTP call is sent, answered and applied in three steps,   *)
(* with what the state says at each of them.  What sync brings is only the *)
(* rows of a user here; buffers and frames are in Tui.                     *)
(***************************************************************************)
EXTENDS Naturals, Sequences

CONSTANTS
    Bases,       \* servers
    Default,     \* DEFAULT_BASE_URL
    Users,
    NoUser,      \* username = ""
    Passwords,
    NoPassword,  \* of a user without an account
    NoToken,     \* token = ""
    Commands,    \* coroutines that run typed commands
    wsLoop,      \* the coroutine of the WebSocket loop
    OpenBases,   \* bound of the model: the servers that accept new accounts
    MaxTokens,   \* bound of the model: tokens ever issued
    Inbox        \* Inbox[b]: receiver of each row of b's messages table

ASSUME SessionAssumption ==
    /\ Default \in Bases
    /\ NoUser \notin Users
    /\ NoPassword \notin Passwords
    /\ wsLoop \notin Commands
    /\ OpenBases \subseteq Bases
    /\ MaxTokens \in Nat
    /\ Inbox \in [Bases -> Seq(Users)]

Tasks == Commands \cup {wsLoop}

Token == [base : Bases, user : Users, nr : 1 .. MaxTokens]

ASSUME TokenAssumption == NoToken \notin Token

VARIABLES
    accounts,   \* accounts[b][u]: password of u on server b
    tokens,     \* tokens that have not expired
    issued,     \* number of tokens ever issued, on all servers
    st,         \* base_url, username, token and after_id of the process
    disk,       \* the same in the config file
    task,       \* task[t]: the HTTP call t is inside
    loop,       \* where the process and its WebSocket loop are
    target,     \* the ws_url of a connection attempt
    up,         \* the WebSocket is open at both ends
    pulled,     \* rows <<b, i>> that sync ever brought (for properties)
    dropped     \* tokens a running client ever gave up (for properties)

server == <<accounts, tokens, issued>>
socket == <<loop, target, up>>
history == <<pulled, dropped>>
vars == <<server, st, disk, task, socket, history>>

----------------------------------------------------------------------------
(* The servers. *)

\* The token is in the table of the server, and has not expired.
Accepted(b, tok) == tok \in tokens /\ tok.base = b

\* What UsernameByToken may return: the user of an accepted token, or an error,
\* here NoUser, which it also returns when its query fails.
UsernameByToken(b, tok) == IF Accepted(b, tok) THEN {tok.user, NoUser} ELSE {NoUser}

\* users.username is UNIQUE: an account that exists keeps its password.
CreateUser(b, u, pw) ==
    accounts' = [accounts EXCEPT ![b][u] = IF @ = NoPassword THEN pw ELSE @]

\* now > expires_at: the token is accepted no more.
Expire(tok) ==
    /\ tokens' = tokens \ {tok}
    /\ UNCHANGED <<accounts, issued, st, disk, task, socket, history>>

----------------------------------------------------------------------------
(* HTTP calls. *)

Idle == [kind |-> "idle"]

SyncCall(s) == [kind |-> "sync", base |-> s.base, token |-> s.token, after |-> s.afterId]

\* A login or register call with a name and a password, and the one to follow.
UserCall(kind, rest, s, who) ==
    [kind |-> kind, base |-> s.base, who |-> who, rest |-> rest]

\* syncHandler: 401 for every error of UsernameByToken, or what is new for the user.
AnswerSync(t) ==
    /\ task[t].kind = "sync"
    /\ LET call == task[t]
       IN  \E user \in UsernameByToken(call.base, call.token) :
             LET new == {i \in DOMAIN Inbox[call.base] :
                           i > call.after /\ Inbox[call.base][i] = user}
             IN  task' = [task EXCEPT ![t] =
                   IF user = NoUser THEN [kind |-> "refused"]
                   ELSE [kind |-> "synced", rows |-> {<<call.base, i>> : i \in new},
                         next |-> IF new = {} THEN call.after
                                  ELSE CHOOSE i \in new : \A j \in new : j <= i]]
    /\ UNCHANGED <<server, st, disk, socket, history>>

Answered(call, tok) ==
    [kind |-> "answered", token |-> tok, rest |-> call.rest,
     who |-> IF call.rest = <<>> THEN NoUser ELSE call.who]

\* loginHandler: a new token for who knows the password, or an error.
AnswerLogin(t) ==
    /\ task[t].kind = "login"
    /\ LET call == task[t]
           tok  == [base |-> call.base, user |-> call.who.name, nr |-> issued + 1]
       IN  \/ /\ accounts[call.base][call.who.name] = call.who.password
              /\ issued < MaxTokens
              /\ tokens' = tokens \cup {tok}
              /\ issued' = issued + 1
              /\ task' = [task EXCEPT ![t] = Answered(call, tok)]
           \/ /\ task' = [task EXCEPT ![t] = Answered(call, NoToken)]
              /\ UNCHANGED <<tokens, issued>>
    /\ UNCHANGED <<accounts, st, disk, socket, history>>

\* registerHandler.  After an error it answers ok too, in a second document,
\* which makes both an error to the client; no answer changes its state.
AnswerRegister(t) ==
    /\ task[t].kind = "register"
    /\ \/ task[t].base \in OpenBases
          /\ CreateUser(task[t].base, task[t].who.name, task[t].who.password)
       \/ UNCHANGED accounts
    /\ task' = [task EXCEPT ![t] = Answered(@, NoToken)]
    /\ UNCHANGED <<tokens, issued, st, disk, socket, history>>

\* The call ends with nothing applied, before the server has done its part or
\* after it.
Ended(t) ==
    /\ task[t] # Idle
    /\ task' = [task EXCEPT ![t] = Idle]

----------------------------------------------------------------------------
(* Commands; the application runs once ensure_login has returned. *)

Running == loop \notin {"down", "starting"}

\* A change of the state that is saved at once.  A token it takes away is given
\* up, for good.
Save(s) ==
    /\ st' = s /\ disk' = s
    /\ dropped' = dropped \cup ({st.token, disk.token} \ {s.token, NoToken})

\* /login and /register make both calls, in this or the other order.
LoginCalls == <<"login", "register">>

RegisterCalls == <<"register", "login">>

\* Slip: the name is taken when the command is typed.
UserCommandNaming(t, calls, who) ==
    /\ Running /\ task[t] = Idle
    /\ task' = [task EXCEPT ![t] = UserCall(calls[1], <<calls[2]>>, st, who)]
    /\ st' = [st EXCEPT !.user = who.name]
    /\ UNCHANGED <<server, disk, socket, history>>

\* One of the two, up to its first HTTP call.
UserCommand(t, calls, who) ==
    /\ Running /\ task[t] = Idle
    /\ task' = [task EXCEPT ![t] = UserCall(calls[1], <<calls[2]>>, st, who)]
    /\ UNCHANGED <<server, st, disk, socket, history>>

\* do_login or do_register from the answer on, and the call that follows.
ApplyAnswer(t) ==
    /\ task[t].kind = "answered"
    /\ LET tok == task[t].token
       IN  IF tok # NoToken
             THEN Save([st EXCEPT !.user = tok.user, !.token = tok])
             ELSE UNCHANGED <<st, disk, dropped>>
    /\ task' = [task EXCEPT ![t] =
         IF @.rest = <<>> THEN Idle ELSE UserCall(@.rest[1], <<>>, st, @.who)]
    /\ UNCHANGED <<server, socket, pulled>>

SyncCommand(t) ==
    /\ Running /\ task[t] = Idle
    /\ st.token # NoToken
    /\ task' = [task EXCEPT ![t] = SyncCall(st)]
    /\ UNCHANGED <<server, st, disk, socket, history>>

\* Slip: the config file keeps the token.
LogoutUnsaved ==
    /\ Running
    /\ st' = [st EXCEPT !.token = NoToken]
    /\ dropped' = dropped \cup ({st.token} \ {NoToken})
    /\ UNCHANGED <<server, disk, task, socket, pulled>>

\* /logout
Logout ==
    /\ Running
    /\ Save([st EXCEPT !.token = NoToken])
    /\ UNCHANGED <<server, task, socket, pulled>>

\* /base b
SetBase(b) ==
    /\ Running
    /\ Save([st EXCEPT !.base = b])
    /\ UNCHANGED <<server, task, socket, pulled>>

\* do_sync from the answer on, in a command or in the loop.
ApplySync(t) ==
    /\ Running
    /\ \/ /\ task[t].kind = "refused"
          /\ Save([st EXCEPT !.token = NoToken])
          /\ UNCHANGED pulled
       \/ /\ task[t].kind = "synced"
          /\ Save([st EXCEPT !.afterId = IF task[t].next > @ THEN task[t].next ELSE @])
          /\ pulled' = pulled \cup task[t].rows
    /\ task' = [task EXCEPT ![t] = Idle]
    /\ UNCHANGED <<server, socket>>

\* An error answer, and for a command an exception too, only ends the call.
CallFails(t) ==
    /\ Running
    /\ t = wsLoop => loop = "reading"
    /\ Ended(t)
    /\ UNCHANGED <<server, st, disk, socket, history>>

----------------------------------------------------------------------------
(* The WebSocket loop. *)

NoTarget == [base |-> Default, token |-> NoToken]

At(place, tgt, open) ==
    loop' = place /\ target' = tgt /\ up' = open

\* With a token, the loop builds ws_url and begins to connect.
BeginConnect ==
    /\ loop = "top" /\ st.token # NoToken
    /\ At("connecting", [base |-> st.base, token |-> st.token], FALSE)
    /\ UNCHANGED <<server, st, disk, task, history>>

\* The server accepts the token; do_sync follows, if there still is one.
ConnectSucceeds ==
    /\ loop = "connecting" /\ Accepted(target.base, target.token)
    /\ At("reading", NoTarget, TRUE)
    /\ task' = [task EXCEPT ![wsLoop] = IF st.token = NoToken THEN Idle ELSE SyncCall(st)]
    /\ UNCHANGED <<server, st, disk, history>>

\* Slip: a failed attempt is repeated with the ws_url it began with.
LoopRaisesRetrying ==
    /\ loop = "reading" /\ (up => task[wsLoop] # Idle)
    /\ At("top", NoTarget, FALSE)
    /\ task' = [task EXCEPT ![wsLoop] = Idle]
    /\ UNCHANGED <<server, st, disk, history>>

\* An exception anywhere in an attempt or a connection: the WebSocket is closed,
\* and after a pause the loop begins again.
LoopRaises ==
    /\ \/ loop = "connecting"
       \/ loop = "reading" /\ (up => task[wsLoop] # Idle)
    /\ At("top", NoTarget, FALSE)
    /\ task' = [task EXCEPT ![wsLoop] = Idle]
    /\ UNCHANGED <<server, st, disk, history>>

\* The server has closed it cleanly: no exception, no pause.
LoopEnds ==
    /\ loop = "reading" /\ task[wsLoop] = Idle /\ ~up
    /\ At("top", NoTarget, FALSE)
    /\ UNCHANGED <<server, st, disk, task, history>>

\* The server closes the WebSocket (newer login, slow reader), or it breaks.
SocketCloses ==
    /\ up
    /\ At(loop, target, FALSE)
    /\ UNCHANGED <<server, st, disk, task, history>>

----------------------------------------------------------------------------
(* The process. *)

NewSession == [base |-> Default, user |-> NoUser, token |-> NoToken, afterId |-> 0]

\* ensure_login: the config file is read, and a token tried with a sync call
\* whose rows are not used.
Start ==
    /\ loop = "down"
    /\ st' = disk
    /\ IF disk.token = NoToken
         THEN loop' = "top" /\ UNCHANGED task
         ELSE loop' = "starting" /\ task' = [task EXCEPT ![wsLoop] = SyncCall(disk)]
    /\ UNCHANGED <<server, disk, target, up, history>>

\* The rest of ensure_login: a refused token is forgotten, but not on disk.  An
\* answer with another error counts as good.
Started ==
    /\ loop = "starting"
    /\ st' = IF task[wsLoop].kind = "refused" THEN [st EXCEPT !.token = NoToken] ELSE st
    /\ loop' = "top"
    /\ task' = [task EXCEPT ![wsLoop] = Idle]
    /\ UNCHANGED <<server, disk, target, up, history>>

\* Slip: the commands go on.
StopWithCalls ==
    /\ loop # "down"
    /\ disk' = IF Running THEN st ELSE disk
    /\ st' = NewSession
    /\ At("down", NoTarget, FALSE)
    /\ UNCHANGED <<server, task, history>>

\* /quit, which persists; a kill; or, before the application runs, an
\* exception of the sync call that tries the token.
Stop ==
    /\ loop # "down"
    /\ \/ UNCHANGED disk
       \/ Running /\ disk' = st
    /\ st' = NewSession
    /\ task' = [t \in Tasks |-> Idle]
    /\ At("down", NoTarget, FALSE)
    /\ UNCHANGED <<server, history>>

----------------------------------------------------------------------------
Init ==
    /\ accounts = [b \in Bases |-> [u \in Users |-> NoPassword]]
    /\ tokens = {}
    /\ issued = 0
    /\ st = NewSession
    /\ disk = NewSession
    /\ task = [t \in Tasks |-> Idle]
    /\ loop = "down"
    /\ target = NoTarget
    /\ up = FALSE
    /\ pulled = {}
    /\ dropped = {}

Next ==
    \/ \E tok \in tokens : Expire(tok)
    \/ \E t \in Tasks :
         AnswerSync(t) \/ AnswerLogin(t) \/ AnswerRegister(t)
         \/ ApplyAnswer(t) \/ ApplySync(t) \/ CallFails(t)
    \/ \E t \in Commands :
         \/ \E who \in [name : Users, password : Passwords] :
              UserCommand(t, LoginCalls, who) \/ UserCommand(t, RegisterCalls, who)
         \/ SyncCommand(t)
    \/ Logout
    \/ \E b \in Bases : SetBase(b)
    \/ BeginConnect \/ ConnectSucceeds \/ LoopRaises \/ LoopEnds \/ SocketCloses
    \/ Start \/ Started \/ Stop

Spec == Init /\ [][Next]_vars

\* The event loop runs what is ready; a call ends within the 15 s of
\* ClientTimeout, a connection attempt and the notice of a closed WebSocket
\* come in time as well.  The network lets one of ever new attempts succeed.
Fairness ==
    /\ WF_vars(BeginConnect)
    /\ WF_vars(LoopEnds)
    /\ WF_vars(LoopRaises)
    /\ WF_vars(AnswerSync(wsLoop) \/ ApplySync(wsLoop) \/ CallFails(wsLoop))
    /\ SF_vars(ConnectSucceeds)

FairSpec == Spec /\ Fairness

----------------------------------------------------------------------------
(* Properties. *)

SessionState ==
    [base : Bases, user : Users \cup {NoUser}, token : Token \cup {NoToken}, afterId : Nat]

\* The type of every variable; only a running application has commands, and
\* the loop makes its calls in two places only.
TypeOK ==
    /\ accounts \in [Bases -> [Users -> Passwords \cup {NoPassword}]]
    /\ tokens \subseteq Token
    /\ issued \in 0 .. MaxTokens
    /\ {st, disk} \subseteq SessionState
    /\ loop \in {"down", "starting", "top", "connecting", "reading"}
    /\ target.base \in Bases /\ target.token \in Token \cup {NoToken}
    /\ up \in BOOLEAN
    /\ dropped \subseteq Token
    /\ up => loop = "reading"
    /\ ~Running => \A t \in Commands : task[t] = Idle
    /\ task[wsLoop] # Idle =>
         /\ task[wsLoop].kind \in {"sync", "synced", "refused"}
         /\ loop \in {"starting", "reading"}

\* The token, in memory and in the config file, is one of the user who is
\* named beside it, with calls of several logins under way, and a kill or a
\* logout between any two of their steps.
TokenIsUsers ==
    \A s \in {st, disk} : s.token # NoToken => s.token.user = s.user

\* A kill at any point costs nothing, and a restart brings nothing back.  The
\* file has the server, user, token and watermark of the running process, and
\* differs only by a token that ensure_login has forgotten in memory: it is
\* tried again.  A token a running client gave up, by /logout, a refused sync or
\* a newer login, never returns, whichever calls of other logins are under way.
RestartKeepsSession ==
    /\ loop # "down" => st \in {disk, [disk EXCEPT !.token = NoToken]}
    /\ {st.token, disk.token} \cap dropped = {}

\* "persistent WS loop with reconnect": while a client has a good token, every
\* closed or failed WebSocket is followed by an open one.
Reconnects ==
    LET Good == Running /\ st.token # NoToken /\ Accepted(st.base, st.token)
    IN  Good ~> (up \/ ~Good)

\* aha_tui.py:709, "pull offline inbox": rows for the user up to the sync
\* watermark have been pulled, since no sync will ask for them again.
InboxPulled ==
    \A i \in DOMAIN Inbox[st.base] :
        st.token # NoToken /\ Inbox[st.base][i] = st.user /\ i <= st.afterId
        => <<st.base, i>> \in pulled
=============================================================================
