--------------------------- MODULE SessionProofs ---------------------------
(***************************************************************************)
(* Theorems about Session, for every value of its constants: whose the     *)
(* token is, what a restart keeps of the session and what it never brings  *)
(* back, and what a coroutine may be inside of.                            *)
(***************************************************************************)
EXTENDS Session, Ranks

\* A record of the session: its four fields, of which nothing is said yet.
Record(s) ==
    s = [base |-> s.base, user |-> s.user, token |-> s.token, afterId |-> s.afterId]

\* What is called after a login or register call is the other of the two.
Sound(call) ==
    call.kind \in {"login", "register", "answered"} /\ call.rest # <<>> =>
        call.rest[1] \in {"login", "register"}

\* The variables have their shape.
Shapes ==
    /\ Record(st) /\ Record(disk)
    /\ task = [t \in Tasks |-> task[t]]
    /\ issued \in Nat
    /\ \A t \in Tasks : Sound(task[t])

\* No token, or one that has been issued before now.
Old(tok) == tok = NoToken \/ tok.nr \in 1 .. issued

\* The tokens the client has, or had and gave up.
Used == {st.token, disk.token} \cup dropped

\* An answer that t is to apply brings a token.
Brings(t) == task[t].kind = "answered" /\ task[t].token # NoToken

\* It was issued, is not used yet, and is in no other answer.
New(t) ==
    Brings(t) =>
        /\ Old(task[t].token) /\ task[t].token \notin Used
        /\ \A u \in Tasks : Brings(u) /\ task[u].token = task[t].token => u = t

\* Every token was issued, and the answer of a login brings a new one.
Fresh ==
    /\ NoToken \notin dropped
    /\ \A tok \in Used : Old(tok)
    /\ \A t \in Tasks : New(t)

\* The inductive invariant.  RestartKeepsSession needs Fresh for the step that
\* applies the answer of a login: its token was not given up before.
SessionInv ==
    /\ Shapes
    /\ Fresh
    /\ TokenIsUsers
    /\ RestartKeepsSession

----------------------------------------------------------------------------
\* A step that saves: memory and file agree after it, on the token they had, or
\* none, or that of an answer, which is taken away.
LEMMA SaveInv ==
    ASSUME SessionInv, UNCHANGED issued,
           NEW s, Save(s), Record(s), s.token # NoToken => s.token.user = s.user,
           NEW t \in Tasks, NEW call, call.kind # "answered", Sound(call),
           task' = task \/ task' = [task EXCEPT ![t] = call],
           \/ s.token \in {st.token, NoToken}
           \/ /\ task[t].kind = "answered" /\ s.token = task[t].token
              /\ task' = [task EXCEPT ![t] = call]
    PROVE  SessionInv'
<1>0. Shapes /\ Fresh /\ RestartKeepsSession
  BY DEF SessionInv
<1>1. /\ st' = s /\ disk' = s
      /\ dropped' = dropped \cup ({st.token, disk.token} \ {s.token, NoToken})
  BY DEF Save
<1>2. /\ \A u \in Tasks : Sound(task[u])' /\ (task'[u].kind = "answered" => task'[u] = task[u])
      /\ task' = [u \in Tasks |-> task'[u]]
      /\ task' # task => task'[t] = call
  BY <1>0 DEF Shapes
<1>3. Shapes'
  BY <1>0, <1>1, <1>2 DEF Shapes, Record
<1>4. s.token \notin dropped' /\ Old(s.token)
  BY <1>0, <1>1 DEF Fresh, New, Brings, Used, Old, RestartKeepsSession
<1>5. Fresh'
  <2>1. NoToken \notin dropped'
    BY <1>0, <1>1 DEF Fresh
  <2>2. Used' \subseteq Used \cup {s.token, NoToken}
    BY <1>1 DEF Used
  <2>3. \A tok \in Used' : Old(tok)'
    BY <1>0, <1>4, <2>2 DEF Fresh, Old
  <2>4. ASSUME NEW u \in Tasks, Brings(u)' PROVE New(u)'
    <3>1. task'[u] = task[u] /\ Brings(u)
      BY <1>2, <2>4 DEF Brings
    <3>2. Old(task[u].token) /\ task[u].token \notin Used
      BY <1>0, <3>1 DEF Fresh, New
    <3>3. \A v \in Tasks : Brings(v) /\ task[v].token = task[u].token => v = u
      BY <1>0, <3>1 DEF Fresh, New
    <3>4. task[u].token # s.token
      <4>1. CASE s.token \in {st.token, NoToken}
        BY <3>1, <3>2, <4>1 DEF Used, Brings
      <4>2. CASE /\ task[t].kind = "answered" /\ s.token = task[t].token
                 /\ task' = [task EXCEPT ![t] = call]
        BY <1>0, <2>4, <3>1, <3>3, <4>2 DEF Shapes, Brings
      <4>. QED
        BY <4>1, <4>2
    <3>5. task[u].token \notin Used'
      BY <2>2, <3>1, <3>2, <3>4 DEF Brings
    <3>6. \A v \in Tasks : Brings(v)' => Brings(v) /\ task'[v] = task[v]
      BY <1>2 DEF Brings
    <3>. QED
      BY <3>1, <3>2, <3>3, <3>5, <3>6 DEF New, Old
  <2>. QED
    BY <2>1, <2>3, <2>4 DEF Fresh, New
<1>6. TokenIsUsers' /\ RestartKeepsSession'
  BY <1>1, <1>4 DEF TokenIsUsers, RestartKeepsSession
<1>. QED
  BY <1>3, <1>5, <1>6 DEF SessionInv

\* A step that leaves memory and file alone: a call is begun, answered or ends,
\* or nothing of it.  A token that an answer brings is a new one.
LEMMA CallInv ==
    ASSUME SessionInv, UNCHANGED <<st, disk, dropped>>, loop' # "down" => loop # "down",
           issued' \in Nat, issued <= issued',
           NEW t \in Tasks, NEW call, Sound(call),
           call.kind = "answered" /\ call.token # NoToken =>
             call.token.nr = issued + 1 /\ issued' = issued + 1,
           task' = task \/ task' = [task EXCEPT ![t] = call]
    PROVE  SessionInv'
<1>0. Shapes /\ Fresh /\ TokenIsUsers /\ RestartKeepsSession
  BY DEF SessionInv
<1>1. task' = [u \in Tasks |-> task'[u]] /\ \A u \in Tasks : Sound(task[u])'
  BY <1>0 DEF Shapes
<1>2. Shapes'
  BY <1>0, <1>1 DEF Shapes, Record
<1>3. \A tok : Old(tok) => Old(tok)'
  BY <1>0 DEF Shapes, Old
<1>4. Used' = Used
  BY DEF Used
<1>5. Fresh'
  <2>1. CASE task' = task
    BY <1>0, <1>3, <1>4, <2>1 DEF Fresh, New, Brings
  <2>2. CASE task' = [task EXCEPT ![t] = call]
    <3>1. task'[t] = call /\ \A u \in Tasks : u # t => task'[u] = task[u]
      BY <1>0, <2>2 DEF Shapes
    <3>2. Brings(t)' => Old(task[t].token)' /\ ~Old(task'[t].token)
      <4>1. issued \in Nat
        BY <1>0 DEF Shapes
      <4>. QED
        BY <3>1, <4>1 DEF Brings, Old
    <3>3. \A u \in Tasks : u # t => (Brings(u)' <=> Brings(u))
      BY <3>1 DEF Brings
    <3>4. New(t)'
      <4>1. ASSUME NEW u \in Tasks, u # t, Brings(u)', Brings(t)' PROVE task'[u].token # task'[t].token
        BY <1>0, <3>1, <3>2, <3>3, <4>1 DEF Fresh, New
      <4>2. Brings(t)' => task'[t].token \notin Used
        BY <1>0, <3>2 DEF Fresh
      <4>. QED
        BY <1>4, <3>2, <4>1, <4>2 DEF New
    <3>5. ASSUME NEW u \in Tasks, u # t, Brings(u)' PROVE New(u)'
      <4>1. task'[u] = task[u] /\ Brings(u) /\ New(u)
        BY <1>0, <3>1, <3>3, <3>5 DEF Fresh
      <4>2. Old(task[u].token)' /\ Old(task[u].token) /\ task[u].token \notin Used'
        BY <1>3, <1>4, <4>1 DEF New, Old
      <4>3. Brings(t)' => task'[t].token # task[u].token
        BY <3>2, <4>2
      <4>4. \A v \in Tasks : Brings(v)' /\ task'[v].token = task[u].token => v = u
        BY <3>1, <3>3, <4>1, <4>3 DEF New
      <4>. QED
        BY <4>1, <4>2, <4>4 DEF New
    <3>6. NoToken \notin dropped' /\ \A tok \in Used' : Old(tok)'
      BY <1>0, <1>3, <1>4 DEF Fresh
    <3>. QED
      BY <3>4, <3>5, <3>6 DEF Fresh, New
  <2>. QED
    BY <2>1, <2>2
<1>6. TokenIsUsers' /\ RestartKeepsSession'
  BY <1>0 DEF TokenIsUsers, RestartKeepsSession
<1>. QED
  BY <1>2, <1>5, <1>6 DEF SessionInv

\* One that brings no token.
LEMMA QuietInv ==
    ASSUME SessionInv, UNCHANGED <<st, disk, dropped, issued>>, loop' # "down" => loop # "down",
           NEW t \in Tasks, NEW call, Sound(call), call.kind # "answered",
           task' = task \/ task' = [task EXCEPT ![t] = call]
    PROVE  SessionInv'
<1>1. issued' = issued /\ issued \in Nat
  BY DEF SessionInv, Shapes
<1>2. issued' \in Nat /\ issued <= issued'
  BY <1>1
<1>. QED
  BY <1>2, CallInv

\* What the answer to a sync call is of.
LEMMA SyncAnswered ==
    ASSUME NEW t \in Tasks, AnswerSync(t)
    PROVE  \E call : /\ task' = [task EXCEPT ![t] = call]
                     /\ call.kind = "synced" \/ call.kind = "refused"
<1>1. PICK user \in UsernameByToken(task[t].base, task[t].token) :
        LET new == {i \in DOMAIN Inbox[task[t].base] :
                      i > task[t].after /\ Inbox[task[t].base][i] = user}
        IN  task' = [task EXCEPT ![t] =
              IF user = NoUser THEN [kind |-> "refused"]
              ELSE [kind |-> "synced", rows |-> {<<task[t].base, i>> : i \in new},
                    next |-> IF new = {} THEN task[t].after
                             ELSE CHOOSE i \in new : \A j \in new : j <= i]]
  BY DEF AnswerSync
<1>. DEFINE new == {i \in DOMAIN Inbox[task[t].base] :
                      i > task[t].after /\ Inbox[task[t].base][i] = user}
            rows == {<<task[t].base, i>> : i \in new}
            next == IF new = {} THEN task[t].after
                                ELSE CHOOSE i \in new : \A j \in new : j <= i
            synced == [kind |-> "synced", rows |-> rows, next |-> next]
            refused == [kind |-> "refused"]
<1>2. task' = [task EXCEPT ![t] = IF user = NoUser THEN refused ELSE synced]
  BY <1>1
<1>3. synced.kind = "synced" /\ refused.kind = "refused"
  OBVIOUS
<1>. HIDE DEF synced, refused
<1>. QED
  BY <1>2, <1>3

\* The steps of the servers.
LEMMA ServerInv ==
    ASSUME SessionInv,
           \/ \E tok \in tokens : Expire(tok)
           \/ \E t \in Tasks : AnswerSync(t) \/ AnswerLogin(t) \/ AnswerRegister(t)
    PROVE  SessionInv'
<1>0. /\ issued \in Nat /\ \A t \in Tasks : Sound(task[t])
      /\ wsLoop \in Tasks
      /\ Sound(Idle) /\ Idle.kind # "answered"
  BY DEF SessionInv, Shapes, Tasks, Sound, Idle
<1>1. ASSUME NEW tok \in tokens, Expire(tok) PROVE SessionInv'
  <2>1. UNCHANGED <<st, disk, loop, issued, task, dropped>>
    BY <1>1 DEF Expire, socket, history
  <2>. QED
    BY <1>0, <2>1, CallInv
<1>2. ASSUME NEW t \in Tasks, AnswerSync(t) PROVE SessionInv'
  <2>1. UNCHANGED <<st, disk, loop, issued, dropped>>
    BY <1>2 DEF AnswerSync, socket, server, history
  <2>2. PICK call : /\ task' = [task EXCEPT ![t] = call]
                    /\ call.kind = "synced" \/ call.kind = "refused"
    BY <1>2, SyncAnswered
  <2>3. Sound(call) /\ call.kind # "answered"
    BY <2>2 DEF Sound
  <2>. QED
    BY <1>0, <2>1, <2>2, <2>3, QuietInv
<1>3. ASSUME NEW t \in Tasks, AnswerLogin(t) \/ AnswerRegister(t) PROVE SessionInv'
  <2>. DEFINE tok == [base |-> task[t].base, user |-> task[t].who.name, nr |-> issued + 1]
  <2>1. /\ UNCHANGED <<st, disk, loop, dropped>>
        /\ task[t].kind \in {"login", "register"}
        /\ \/ /\ issued' = issued + 1
              /\ task' = [task EXCEPT ![t] = Answered(task[t], tok)]
           \/ /\ task' = [task EXCEPT ![t] = Answered(task[t], NoToken)]
              /\ UNCHANGED issued
    BY <1>3 DEF AnswerLogin, AnswerRegister, socket, history
  <2>2. tok.nr = issued + 1
    OBVIOUS
  <2>. HIDE DEF tok
  <2>3. ASSUME NEW k PROVE /\ Answered(task[t], k).token = k
                           /\ Sound(Answered(task[t], k))
    <3>1. Sound(task[t]) /\ task[t].kind \in {"login", "register"}
      BY <1>0, <2>1
    <3>2. Answered(task[t], k).token = k /\ Answered(task[t], k).rest = task[t].rest
      BY DEF Answered
    <3>. QED
      BY <3>1, <3>2 DEF Sound
  <2>4. CASE issued' = issued + 1 /\ task' = [task EXCEPT ![t] = Answered(task[t], tok)]
    <3>1. /\ issued' \in Nat /\ issued <= issued'
          /\ Sound(Answered(task[t], tok)) /\ Answered(task[t], tok).token.nr = issued + 1
      BY <1>0, <2>2, <2>3, <2>4
    <3>. QED
      BY <2>1, <2>4, <3>1, CallInv
  <2>5. CASE UNCHANGED issued /\ task' = [task EXCEPT ![t] = Answered(task[t], NoToken)]
    <3>1. /\ issued' \in Nat /\ issued <= issued'
          /\ Sound(Answered(task[t], NoToken)) /\ Answered(task[t], NoToken).token = NoToken
      BY <1>0, <2>3, <2>5
    <3>. QED
      BY <2>1, <2>5, <3>1, CallInv
  <2>. QED
    BY <2>1, <2>4, <2>5
<1>. QED
  BY <1>1, <1>2, <1>3

\* What do_login writes.
LEMMA LoginRecord ==
    ASSUME NEW r, Record(r), NEW u, NEW k
    PROVE  [r EXCEPT !.user = u, !.token = k] =
               [base |-> r.base, user |-> u, token |-> k, afterId |-> r.afterId]
<1>1. PICK b, v, j, a : r = [base |-> b, user |-> v, token |-> j, afterId |-> a]
  BY DEF Record
<1>. DEFINE s == [r EXCEPT !.user = u, !.token = k]
<1>2. s \in [base : {b}, user : {u}, token : {k}, afterId : {a}]
  BY <1>1
<1>3. r.base = b /\ r.afterId = a
  BY <1>1
<1>. HIDE DEF s
<1>4. s = [base |-> r.base, user |-> u, token |-> k, afterId |-> r.afterId]
  BY <1>2, <1>3
<1>. QED
  BY <1>4 DEF s

\* Commands, and the answers they and the loop apply.
LEMMA CommandInv ==
    ASSUME SessionInv,
           \/ \E t \in Tasks : ApplyAnswer(t) \/ ApplySync(t) \/ CallFails(t)
           \/ \E t \in Commands :
                \/ \E calls \in {LoginCalls, RegisterCalls} :
                     \E who : UserCommand(t, calls, who)
                \/ SyncCommand(t)
           \/ Logout
           \/ \E b \in Bases : SetBase(b)
    PROVE  SessionInv'
<1>0. /\ issued \in Nat /\ \A k \in Tasks : Sound(task[k])
      /\ Record(st) /\ TokenIsUsers
      /\ Idle.kind # "answered" /\ Sound(Idle)
      /\ wsLoop \in Tasks /\ Commands \subseteq Tasks
  BY DEF SessionInv, Shapes, Idle, Sound, Tasks
<1>1. ASSUME NEW t \in Tasks, ApplyAnswer(t) PROVE SessionInv'
  <2>. DEFINE tok == task[t].token
              s == [st EXCEPT !.user = tok.user, !.token = tok]
              call == IF task[t].rest = <<>> THEN Idle
                      ELSE UserCall(task[t].rest[1], <<>>, st, task[t].who)
  <2>1. /\ task[t].kind = "answered" /\ UNCHANGED <<loop, issued>>
        /\ task' = [task EXCEPT ![t] = call]
        /\ IF tok # NoToken THEN Save(s) ELSE UNCHANGED <<st, disk, dropped>>
    BY <1>1 DEF ApplyAnswer, server, socket
  <2>2. call.kind # "answered" /\ Sound(call)
    <3>1. Sound(task[t])
      BY <1>0
    <3>2. CASE task[t].rest = <<>>
      BY <1>0, <3>2
    <3>3. CASE task[t].rest # <<>>
      <4>1. call.kind \in {"login", "register"} /\ call.rest = <<>>
        BY <2>1, <3>1, <3>3 DEF Sound, UserCall
      <4>. HIDE DEF call
      <4>. QED
        BY <4>1 DEF Sound
    <3>. QED
      BY <3>2, <3>3
  <2>3. CASE tok # NoToken
    <3>. HIDE DEF tok
    <3>1. Record(s) /\ s.token = tok /\ s.user = tok.user
      <4>1. s = [base |-> st.base, user |-> tok.user, token |-> tok, afterId |-> st.afterId]
        BY <1>0, LoginRecord
      <4>. HIDE DEF s
      <4>. QED
        BY <4>1 DEF Record
    <3>2. s.token = task[t].token
      BY <3>1 DEF tok
    <3>. HIDE DEF s, call
    <3>. QED
      BY <2>1, <2>2, <2>3, <3>1, <3>2, SaveInv
  <2>4. CASE tok = NoToken
    <3>. HIDE DEF call
    <3>. QED
      BY <1>0, <2>1, <2>2, <2>4, QuietInv
  <2>. QED
    BY <2>3, <2>4
<1>2. ASSUME NEW t \in Tasks, ApplySync(t) PROVE SessionInv'
  <2>1. UNCHANGED issued /\ task' = [task EXCEPT ![t] = Idle]
    BY <1>2 DEF ApplySync, server
  <2>2. PICK s : /\ Save(s)
                 /\ \/ s = [st EXCEPT !.token = NoToken]
                    \/ \E after : s = [st EXCEPT !.afterId = after]
    BY <1>2 DEF ApplySync
  <2>3. /\ Record(s) /\ s.token \in {st.token, NoToken}
        /\ s.token # NoToken => s.token.user = s.user
    BY <1>0, <2>2 DEF Record, TokenIsUsers
  <2>. QED
    BY <1>0, <2>1, <2>2, <2>3, SaveInv
<1>3. ASSUME NEW t \in Tasks, CallFails(t) PROVE SessionInv'
  <2>1. /\ UNCHANGED <<st, disk, dropped, loop, issued>>
        /\ task' = [task EXCEPT ![t] = Idle]
    BY <1>3 DEF CallFails, Ended, server, socket, history
  <2>. QED
    BY <1>0, <2>1, QuietInv
<1>4. ASSUME NEW t \in Commands, NEW calls \in {LoginCalls, RegisterCalls}, NEW who,
             UserCommand(t, calls, who)
      PROVE  SessionInv'
  <2>. DEFINE call == UserCall(calls[1], <<calls[2]>>, st, who)
  <2>1. /\ UNCHANGED <<st, disk, dropped, loop, issued>>
        /\ task' = [task EXCEPT ![t] = call]
    BY <1>4 DEF UserCommand, server, socket, history
  <2>2. call.kind # "answered" /\ Sound(call)
    BY DEF UserCall, LoginCalls, RegisterCalls, Sound
  <2>. HIDE DEF call
  <2>. QED
    BY <1>0, <2>1, <2>2, QuietInv
<1>5. ASSUME NEW t \in Commands, SyncCommand(t) PROVE SessionInv'
  <2>1. /\ UNCHANGED <<st, disk, dropped, loop, issued>>
        /\ task' = [task EXCEPT ![t] = SyncCall(st)]
    BY <1>5 DEF SyncCommand, server, socket, history
  <2>2. SyncCall(st).kind # "answered" /\ Sound(SyncCall(st))
    BY DEF SyncCall, Sound
  <2>. QED
    BY <1>0, <2>1, <2>2, QuietInv
<1>6. ASSUME Logout \/ \E b \in Bases : SetBase(b) PROVE SessionInv'
  <2>1. UNCHANGED <<issued, task>>
    BY <1>6 DEF Logout, SetBase, server
  <2>2. PICK s : /\ Save(s)
                 /\ \/ s = [st EXCEPT !.token = NoToken]
                    \/ \E b : s = [st EXCEPT !.base = b]
    BY <1>6 DEF Logout, SetBase
  <2>3. /\ Record(s) /\ s.token \in {st.token, NoToken}
        /\ s.token # NoToken => s.token.user = s.user
    BY <1>0, <2>2 DEF Record, TokenIsUsers
  <2>. QED
    BY <1>0, <2>1, <2>2, <2>3, SaveInv
<1>. QED
  BY <1>1, <1>2, <1>3, <1>4, <1>5, <1>6

\* The WebSocket loop.
LEMMA LoopInv ==
    ASSUME SessionInv,
           BeginConnect \/ ConnectSucceeds \/ LoopRaises \/ LoopEnds \/ SocketCloses
    PROVE  SessionInv'
<1>1. /\ issued \in Nat /\ wsLoop \in Tasks
      /\ Idle.kind # "answered" /\ Sound(Idle)
      /\ SyncCall(st).kind # "answered" /\ Sound(SyncCall(st))
  BY DEF SessionInv, Shapes, Tasks, Idle, SyncCall, Sound
<1>2. UNCHANGED <<st, disk, dropped, issued>> /\ (loop' # "down" => loop # "down")
  BY DEF BeginConnect, ConnectSucceeds, LoopRaises, LoopEnds, SocketCloses, At, server, history
<1>3. \/ task' = task
      \/ task' = [task EXCEPT ![wsLoop] = Idle]
      \/ task' = [task EXCEPT ![wsLoop] = SyncCall(st)]
  BY DEF BeginConnect, ConnectSucceeds, LoopRaises, LoopEnds, SocketCloses
<1>4. CASE task' = task \/ task' = [task EXCEPT ![wsLoop] = Idle]
  BY <1>1, <1>2, <1>4, QuietInv
<1>5. CASE task' = [task EXCEPT ![wsLoop] = SyncCall(st)]
  BY <1>1, <1>2, <1>5, QuietInv
<1>. QED
  BY <1>3, <1>4, <1>5

\* The process starts, tries its token, and stops.
LEMMA ProcessInv ==
    ASSUME SessionInv, Start \/ Started \/ Stop
    PROVE  SessionInv'
<1>0. Shapes /\ Fresh /\ TokenIsUsers /\ RestartKeepsSession
  BY DEF SessionInv
<1>1. Idle.kind # "answered" /\ Sound(Idle) /\ wsLoop \in Tasks
  BY DEF Idle, Sound, Tasks
<1>2. SyncCall(disk).kind # "answered" /\ Sound(SyncCall(disk))
  BY DEF SyncCall, Sound
<1>3. Record(NewSession) /\ NewSession.token = NoToken
  BY DEF Record, NewSession
<1>4. UNCHANGED <<issued, dropped>>
  BY DEF Start, Started, Stop, server, history
<1>5. /\ task' = [t \in Tasks |-> task'[t]]
      /\ \A t \in Tasks : Sound(task'[t]) /\ (task'[t].kind = "answered" => task'[t] = task[t])
  BY <1>0, <1>1, <1>2 DEF Start, Started, Stop, Shapes
<1>6. /\ Record(st') /\ st'.token \in {st.token, disk.token, NoToken}
      /\ st'.token # NoToken => st'.token.user = st'.user
      /\ disk' \in {st, disk}
      /\ loop' # "down" => disk' = disk /\ st' \in {disk, [disk EXCEPT !.token = NoToken]}
  <2>1. CASE Start
    BY <1>0, <2>1 DEF Start, Shapes, TokenIsUsers
  <2>2. CASE Stop
    BY <1>3, <2>2 DEF Stop, At
  <2>3. CASE Started
    <3>1. disk' = disk /\ loop # "down" /\ (st' = st \/ st' = [st EXCEPT !.token = NoToken])
      BY <2>3 DEF Started
    <3>2. st \in {disk, [disk EXCEPT !.token = NoToken]} /\ Record(st) /\ Record(disk)
      BY <1>0, <3>1 DEF Shapes, RestartKeepsSession
    <3>3. st' \in {disk, [disk EXCEPT !.token = NoToken]}
      BY <3>1, <3>2 DEF Record
    <3>4. Record(st') /\ st'.token \in {st.token, NoToken} /\ st'.user = st.user
      BY <3>1, <3>2 DEF Record
    <3>. QED
      BY <1>0, <3>1, <3>3, <3>4 DEF TokenIsUsers
  <2>. QED
    BY <2>1, <2>2, <2>3
<1>7. Shapes'
  BY <1>0, <1>4, <1>5, <1>6 DEF Shapes, Record
<1>8. Used' \subseteq Used \cup {NoToken}
  BY <1>4, <1>6 DEF Used
<1>9. Fresh'
  <2>1. NoToken \notin dropped' /\ \A tok \in Used' : Old(tok)'
    BY <1>0, <1>4, <1>8 DEF Fresh, Old
  <2>2. ASSUME NEW t \in Tasks, Brings(t)' PROVE New(t)'
    <3>1. \A u \in Tasks : Brings(u)' => Brings(u) /\ task'[u] = task[u]
      BY <1>5 DEF Brings
    <3>2. task'[t] = task[t] /\ Brings(t) /\ New(t)
      BY <1>0, <2>2, <3>1 DEF Fresh
    <3>3. Old(task[t].token)' /\ task[t].token \notin Used'
      BY <1>4, <1>8, <3>2 DEF New, Old, Brings
    <3>. QED
      BY <3>1, <3>2, <3>3 DEF New
  <2>. QED
    BY <2>1, <2>2 DEF Fresh, New
<1>10. TokenIsUsers' /\ RestartKeepsSession'
  <2>1. {st'.token, disk'.token} \subseteq {st.token, disk.token, NoToken}
    BY <1>6
  <2>. QED
    BY <1>0, <1>4, <1>6, <2>1 DEF Fresh, TokenIsUsers, RestartKeepsSession
<1>. QED
  BY <1>7, <1>9, <1>10 DEF SessionInv

\* The invariant holds at first, and every step keeps it.
LEMMA SessionInit == Init => SessionInv
<1>. SUFFICES ASSUME Init PROVE SessionInv
  OBVIOUS
<1>1. Record(NewSession) /\ NewSession.token = NoToken /\ Idle.kind = "idle" /\ Sound(Idle)
  BY DEF Record, NewSession, Idle, Sound
<1>2. Shapes
  BY <1>1 DEF Init, Shapes
<1>3. Fresh
  BY <1>1 DEF Init, Fresh, New, Brings, Used, Old
<1>4. TokenIsUsers /\ RestartKeepsSession
  BY <1>1 DEF Init, TokenIsUsers, RestartKeepsSession
<1>. QED
  BY <1>2, <1>3, <1>4 DEF SessionInv

\* No step of Session disturbs its invariant.
LEMMA SessionStep == SessionInv /\ [Next]_vars => SessionInv'
<1>. SUFFICES ASSUME SessionInv, [Next]_vars PROVE SessionInv'
  OBVIOUS
<1>1. CASE UNCHANGED vars
  BY <1>1 DEF vars, server, socket, history, SessionInv, Shapes, Record, Sound, Fresh, New, Brings, Used, Old,
              TokenIsUsers, RestartKeepsSession
<1>2. CASE Next
  BY <1>2, ServerInv, CommandInv, LoopInv, ProcessInv DEF Next
<1>. QED
  BY <1>1, <1>2

\* The inductive invariant holds in every state.
THEOREM SessionSound == Spec => []SessionInv
BY SessionInit, SessionStep, PTL DEF Spec

\* However logins, refusals, kills and restarts interleave, the token in memory
\* and the one in the config file belong to the user named beside them.
THEOREM TokenOwner == Spec => []TokenIsUsers
BY SessionSound, PTL DEF SessionInv

\* A restart begins with the session the process had, or with that and the token
\* that ensure_login forgot in memory, and never with a token that was given up.
THEOREM RestartSound == Spec => []RestartKeepsSession
BY SessionSound, PTL DEF SessionInv

----------------------------------------------------------------------------
(* Types. *)

Who == [name : Users, password : Passwords]

AnyToken == Token \cup {NoToken}

Follows == {<<"login">>, <<"register">>}

\* What a coroutine may be inside of; a call to follow has a name and a password.
Call ==
    {Idle}
    \cup [kind : {"sync"}, base : Bases, token : Token, after : Nat]
    \cup [kind : {"synced"}, rows : SUBSET (Bases \X Nat), next : Nat]
    \cup [kind : {"refused"}]
    \cup [kind : {"login", "register"}, base : Bases, who : Who, rest : {<<>>} \cup Follows]
    \cup [kind : {"answered"}, token : AnyToken, rest : {<<>>}, who : {NoUser}]
    \cup [kind : {"answered"}, token : AnyToken, rest : Follows, who : Who]

Typed ==
    /\ accounts \in [Bases -> [Users -> Passwords \cup {NoPassword}]]
    /\ tokens \subseteq Token
    /\ issued \in 0 .. MaxTokens
    /\ st \in SessionState /\ disk \in SessionState
    /\ target \in [base : Bases, token : AnyToken]
    /\ loop \in {"down", "starting", "top", "connecting", "reading"}
    /\ up \in BOOLEAN
    /\ task \in [Tasks -> Call]
    /\ dropped \subseteq Token

\* Where the loop has a call, and who has one while nothing runs.
Placed ==
    /\ up => loop = "reading"
    /\ ~Running => \A t \in Commands : task[t] = Idle
    /\ task[wsLoop] # Idle =>
         /\ task[wsLoop].kind \in {"sync", "synced", "refused"}
         /\ loop \in {"starting", "reading"}

LEMMA CallFields ==
    ASSUME NEW call \in Call
    PROVE  /\ call.kind = "sync" => call.base \in Bases /\ call.token \in Token /\ call.after \in Nat
           /\ call.kind = "synced" => call.next \in Nat
           /\ call.kind \in {"login", "register"} =>
                call.base \in Bases /\ call.who \in Who /\ call.rest \in {<<>>} \cup Follows
           /\ call.kind = "answered" =>
                /\ call.token \in AnyToken /\ call.rest \in {<<>>} \cup Follows
                /\ call.rest # <<>> => call.who \in Who /\ call.rest \in Follows
BY DEF Call, Idle

LEMMA IdleCall == Idle \in Call /\ Idle.kind = "idle"
BY DEF Call, Idle

LEMMA SyncCallTyped ==
    ASSUME NEW s \in SessionState, s.token # NoToken
    PROVE  SyncCall(s) \in Call /\ SyncCall(s).kind = "sync"
BY DEF SyncCall, SessionState, Call

LEMMA UserCallTyped ==
    ASSUME NEW s \in SessionState, NEW kind \in {"login", "register"},
           NEW rest \in {<<>>} \cup Follows, NEW who \in Who
    PROVE  UserCall(kind, rest, s, who) \in Call /\ UserCall(kind, rest, s, who).kind = kind
BY DEF UserCall, SessionState, Call

LEMMA AnsweredTyped ==
    ASSUME NEW call \in Call, call.kind \in {"login", "register"}, NEW tok \in AnyToken
    PROVE  Answered(call, tok) \in Call /\ Answered(call, tok).kind = "answered"
<1>1. call.who \in Who /\ call.rest \in {<<>>} \cup Follows
  BY CallFields
<1>2. CASE call.rest = <<>>
  BY <1>2 DEF Answered, Call
<1>3. CASE call.rest # <<>>
  BY <1>1, <1>3 DEF Answered, Call
<1>. QED
  BY <1>2, <1>3

\* The largest of some positions in a table.
LEMMA LargestPosition ==
    ASSUME NEW n \in Nat, NEW S \in SUBSET (1 .. n), S # {}
    PROVE  (CHOOSE i \in S : \A j \in S : j <= i) \in S
<1>. DEFINE B == {b \in Nat : \A j \in S : j <= b}
<1>1. n \in B /\ B \subseteq Nat
  OBVIOUS
<1>2. PICK b \in B : \A x \in B : b <= x
  BY <1>1, LeastOf
<1>3. b \in S
  <2>. SUFFICES ASSUME b \notin S PROVE FALSE
    OBVIOUS
  <2>1. \A j \in S : j <= b - 1
    BY <1>2
  <2>2. b - 1 \in Nat
    <3>1. PICK j \in S : j \in 1 .. n
      OBVIOUS
    <3>. QED
      BY <1>2, <2>1, <3>1
  <2>. QED
    BY <1>2, <2>1, <2>2
<1>4. \A j \in S : j <= b
  BY <1>2
<1>. QED
  BY <1>3, <1>4

\* One coroutine begins a call, has it answered or ends it.
LEMMA TaskTyped ==
    ASSUME Typed, NEW t \in Tasks, NEW call \in Call, task' = [task EXCEPT ![t] = call]
    PROVE  /\ task' \in [Tasks -> Call] /\ task'[t] = call
           /\ \A u \in Tasks : u # t => task'[u] = task[u]
BY DEF Typed

LEMMA TaskPlaced ==
    ASSUME Typed, Placed, NEW t \in Tasks, NEW call \in Call,
           task' = [task EXCEPT ![t] = call], UNCHANGED <<loop, up>>,
           \/ call = Idle
           \/ call.kind \in {"synced", "refused"} /\ task[t].kind = "sync"
           \/ t # wsLoop /\ Running
    PROVE  Placed'
<1>1. task'[t] = call /\ \A u \in Tasks : u # t => task'[u] = task[u]
  BY TaskTyped
<1>2. Running' = Running
  BY DEF Running
<1>3. ASSUME ~Running, NEW u \in Commands PROVE task'[u] = Idle
  <2>1. task[u] = Idle /\ u \in Tasks
    BY <1>3 DEF Placed, Tasks
  <2>2. CASE u # t
    BY <1>1, <2>1, <2>2
  <2>3. CASE u = t
    BY <1>1, <1>3, <2>1, <2>3, IdleCall
  <2>. QED
    BY <2>2, <2>3
<1>4. wsLoop \in Tasks
  BY DEF Tasks
<1>5. ASSUME task'[wsLoop] # Idle
      PROVE  /\ task'[wsLoop].kind \in {"sync", "synced", "refused"}
             /\ loop \in {"starting", "reading"}
  <2>1. CASE wsLoop # t
    BY <1>1, <1>4, <1>5, <2>1 DEF Placed
  <2>2. CASE wsLoop = t
    BY <1>1, <1>5, <2>2, IdleCall DEF Placed
  <2>. QED
    BY <2>1, <2>2
<1>. QED
  BY <1>2, <1>3, <1>5 DEF Placed

\* A coroutine that is inside a call of a command is one, and the application runs.
LEMMA CommandRuns ==
    ASSUME Typed, Placed, NEW t \in Tasks, task[t].kind \in {"login", "register", "answered"}
    PROVE  t # wsLoop /\ Running
BY IdleCall DEF Placed, Tasks

LEMMA AnswerSyncTyped ==
    ASSUME Typed, Placed, NEW t \in Tasks, AnswerSync(t)
    PROVE  Typed' /\ Placed'
<1>. DEFINE call == task[t]
<1>1. PICK user : LET new == {i \in DOMAIN Inbox[call.base] :
                                i > call.after /\ Inbox[call.base][i] = user}
                  IN  task' = [task EXCEPT ![t] =
                        IF user = NoUser THEN [kind |-> "refused"]
                        ELSE [kind |-> "synced", rows |-> {<<call.base, i>> : i \in new},
                              next |-> IF new = {} THEN call.after
                                       ELSE CHOOSE i \in new : \A j \in new : j <= i]]
  BY DEF AnswerSync
<1>. DEFINE new  == {i \in DOMAIN Inbox[call.base] :
                       i > call.after /\ Inbox[call.base][i] = user}
            rows == {<<call.base, i>> : i \in new}
            last == CHOOSE i \in new : \A j \in new : j <= i
            next == IF new = {} THEN call.after ELSE last
            synced  == [kind |-> "synced", rows |-> rows, next |-> next]
            refused == [kind |-> "refused"]
            answer  == IF user = NoUser THEN refused ELSE synced
<1>2. call \in Call /\ call.kind = "sync"
  BY DEF Typed, AnswerSync
<1>3. call.base \in Bases /\ call.after \in Nat
  BY <1>2, CallFields
<1>4. task' = [task EXCEPT ![t] = answer] /\ UNCHANGED <<server, st, disk, socket, dropped>>
  BY <1>1 DEF AnswerSync, history
<1>5. Len(Inbox[call.base]) \in Nat /\ new \in SUBSET (1 .. Len(Inbox[call.base]))
  <2>1. Inbox[call.base] \in Seq(Users)
    BY <1>3, SessionAssumption
  <2>. QED
    BY <2>1
<1>. HIDE DEF new
<1>6. rows \in SUBSET (Bases \X Nat) /\ next \in Nat
  <2>1. new # {} => last \in new
    BY <1>5, LargestPosition
  <2>. HIDE DEF last
  <2>2. \A i \in new : i \in Nat
    BY <1>5
  <2>. QED
    BY <1>3, <2>1, <2>2
<1>. HIDE DEF rows, next
<1>7. answer \in Call /\ answer.kind \in {"synced", "refused"}
  BY <1>6 DEF Call
<1>. HIDE DEF answer
<1>8. Typed'
  BY <1>4, <1>7, TaskTyped DEF Typed, server, socket
<1>9. Placed'
  BY <1>2, <1>4, <1>7, TaskPlaced DEF socket
<1>. QED
  BY <1>8, <1>9

\* The steps of the servers, and the answers a command applies.
LEMMA ServerTyped ==
    ASSUME Typed, Placed, NEW t \in Tasks,
           AnswerLogin(t) \/ AnswerRegister(t)
    PROVE  Typed' /\ Placed'
<1>. DEFINE call == task[t]
<1>1. call \in Call /\ call.kind \in {"login", "register"} /\ t # wsLoop /\ Running
  BY CommandRuns DEF Typed, AnswerLogin, AnswerRegister
<1>2. call.base \in Bases /\ call.who \in Who
  BY <1>1, CallFields
<1>3. UNCHANGED <<st, disk, socket, dropped>>
  BY DEF AnswerLogin, AnswerRegister, history
<1>4. /\ accounts' \in [Bases -> [Users -> Passwords \cup {NoPassword}]]
      /\ tokens' \subseteq Token /\ issued' \in 0 .. MaxTokens
      /\ \E tok \in AnyToken : task' = [task EXCEPT ![t] = Answered(call, tok)]
  <2>1. CASE AnswerLogin(t)
    <3>. DEFINE tok == [base |-> call.base, user |-> call.who.name, nr |-> issued + 1]
    <3>1. UNCHANGED accounts
      BY <2>1 DEF AnswerLogin
    <3>2. CASE /\ issued < MaxTokens
               /\ tokens' = tokens \cup {tok} /\ issued' = issued + 1
               /\ task' = [task EXCEPT ![t] = Answered(call, tok)]
      <4>1. issued + 1 \in 1 .. MaxTokens
        BY <3>2, SessionAssumption DEF Typed
      <4>2. tok \in Token
        BY <1>2, <4>1 DEF Token, Who
      <4>. HIDE DEF tok
      <4>3. tok \in AnyToken /\ task' = [task EXCEPT ![t] = Answered(call, tok)]
        BY <3>2, <4>2 DEF AnyToken
      <4>4. tokens' \subseteq Token /\ issued' \in 0 .. MaxTokens
        BY <3>2, <4>1, <4>2, SessionAssumption DEF Typed
      <4>5. accounts' \in [Bases -> [Users -> Passwords \cup {NoPassword}]]
        BY <3>1 DEF Typed
      <4>. HIDE DEF call
      <4>. QED
        BY <4>3, <4>4, <4>5
    <3>3. CASE /\ task' = [task EXCEPT ![t] = Answered(call, NoToken)]
               /\ UNCHANGED <<tokens, issued>>
      BY <3>1, <3>3 DEF Typed, AnyToken
    <3>. QED
      BY <2>1, <3>2, <3>3 DEF AnswerLogin
  <2>2. CASE AnswerRegister(t)
    <3>1. accounts' = accounts \/ CreateUser(call.base, call.who.name, call.who.password)
      BY <2>2 DEF AnswerRegister
    <3>2. UNCHANGED <<tokens, issued>> /\ task' = [task EXCEPT ![t] = Answered(call, NoToken)]
      BY <2>2 DEF AnswerRegister
    <3>3. accounts' \in [Bases -> [Users -> Passwords \cup {NoPassword}]]
      BY <1>2, <3>1 DEF CreateUser, Typed, Who
    <3>. QED
      BY <3>2, <3>3 DEF Typed, AnyToken
  <2>. QED
    BY <2>1, <2>2
<1>5. PICK tok \in AnyToken : task' = [task EXCEPT ![t] = Answered(call, tok)]
  BY <1>4
<1>6. Answered(call, tok) \in Call
  BY <1>1, AnsweredTyped
<1>7. Typed'
  BY <1>3, <1>4, <1>5, <1>6, TaskTyped DEF Typed, socket
<1>8. Placed'
  BY <1>1, <1>3, <1>5, <1>6, TaskPlaced DEF socket
<1>. QED
  BY <1>7, <1>8

LEMMA SaveTyped ==
    ASSUME Typed, NEW s \in SessionState, Save(s)
    PROVE  st' \in SessionState /\ disk' \in SessionState /\ dropped' \subseteq Token
BY DEF Save, Typed, SessionState

LEMMA ApplyAnswerTyped ==
    ASSUME Typed, Placed, NEW t \in Tasks, ApplyAnswer(t)
    PROVE  Typed' /\ Placed'
<1>. DEFINE call == task[t]
            tok  == call.token
            then == IF call.rest = <<>> THEN Idle ELSE UserCall(call.rest[1], <<>>, st, call.who)
<1>1. call \in Call /\ call.kind = "answered" /\ t # wsLoop /\ Running /\ st \in SessionState
  BY CommandRuns DEF Typed, ApplyAnswer
<1>2. tok \in AnyToken /\ (call.rest # <<>> => call.who \in Who /\ call.rest \in Follows)
  BY <1>1, CallFields
<1>3. /\ task' = [task EXCEPT ![t] = then] /\ UNCHANGED <<server, socket>>
      /\ IF tok # NoToken
           THEN Save([st EXCEPT !.user = tok.user, !.token = tok])
           ELSE UNCHANGED <<st, disk, dropped>>
  BY DEF ApplyAnswer
<1>4. then \in Call
  <2>1. CASE call.rest = <<>>
    BY <2>1, IdleCall
  <2>2. CASE call.rest # <<>>
    <3>1. call.rest[1] \in {"login", "register"}
      BY <1>2, <2>2 DEF Follows
    <3>. QED
      BY <1>1, <1>2, <2>2, <3>1, UserCallTyped
  <2>. QED
    BY <2>1, <2>2
<1>. HIDE DEF then
<1>5. st' \in SessionState /\ disk' \in SessionState /\ dropped' \subseteq Token
  <2>1. CASE tok # NoToken
    <3>1. tok \in Token
      BY <1>2, <2>1 DEF AnyToken
    <3>. HIDE DEF tok
    <3>2. tok.user \in Users
      BY <3>1 DEF Token
    <3>. DEFINE s == [st EXCEPT !.user = tok.user, !.token = tok]
    <3>3. s \in SessionState
      BY <1>1, <3>1, <3>2 DEF SessionState
    <3>. QED
      BY <1>3, <2>1, <3>3, SaveTyped
  <2>2. CASE tok = NoToken
    BY <1>1, <1>3, <2>2 DEF Typed
  <2>. QED
    BY <2>1, <2>2
<1>6. Typed'
  BY <1>3, <1>4, <1>5, TaskTyped DEF Typed, socket, server
<1>7. Placed'
  BY <1>1, <1>3, <1>4, TaskPlaced DEF socket
<1>. QED
  BY <1>6, <1>7

LEMMA EndsTyped ==
    ASSUME Typed, Placed, NEW t \in Tasks, ApplySync(t) \/ CallFails(t)
    PROVE  Typed' /\ Placed'
<1>1. UNCHANGED <<server, socket>> /\ task' = [task EXCEPT ![t] = Idle]
  BY DEF ApplySync, CallFails, Ended
<1>2. st' \in SessionState /\ disk' \in SessionState /\ dropped' \subseteq Token
  <2>1. st \in SessionState /\ task[t] \in Call
    BY DEF Typed
  <2>2. CASE CallFails(t)
    BY <2>2 DEF CallFails, Typed, history
  <2>3. CASE task[t].kind = "refused" /\ Save([st EXCEPT !.token = NoToken])
    <3>1. [st EXCEPT !.token = NoToken] \in SessionState
      BY <2>1 DEF SessionState
    <3>. QED
      BY <2>3, <3>1, SaveTyped
  <2>4. CASE /\ task[t].kind = "synced"
             /\ Save([st EXCEPT !.afterId = IF task[t].next > st.afterId
                                              THEN task[t].next ELSE st.afterId])
    <3>1. task[t].next \in Nat
      BY <2>1, <2>4, CallFields
    <3>2. [st EXCEPT !.afterId = IF task[t].next > st.afterId THEN task[t].next ELSE st.afterId]
             \in SessionState
      BY <2>1, <3>1 DEF SessionState
    <3>. QED
      BY <2>4, <3>2, SaveTyped
  <2>. QED
    BY <2>2, <2>3, <2>4 DEF ApplySync
<1>3. Typed'
  BY <1>1, <1>2, IdleCall, TaskTyped DEF Typed, socket, server
<1>4. Placed'
  BY <1>1, IdleCall, TaskPlaced DEF socket
<1>. QED
  BY <1>3, <1>4

LEMMA CommandTyped ==
    ASSUME Typed, Placed, NEW t \in Commands,
           \/ \E who \in Who : UserCommand(t, LoginCalls, who) \/ UserCommand(t, RegisterCalls, who)
           \/ SyncCommand(t)
    PROVE  Typed' /\ Placed'
<1>1. t \in Tasks /\ t # wsLoop /\ st \in SessionState
  BY SessionAssumption DEF Tasks, Typed
<1>2. Running /\ UNCHANGED <<server, st, disk, socket, dropped>>
  BY DEF UserCommand, SyncCommand, history
<1>3. PICK call \in Call : task' = [task EXCEPT ![t] = call]
  <2>1. ASSUME NEW who \in Who, UserCommand(t, LoginCalls, who)
        PROVE  \E call \in Call : task' = [task EXCEPT ![t] = call]
    <3>1. UserCall("login", <<"register">>, st, who) \in Call
      BY <1>1, UserCallTyped DEF Follows
    <3>2. task' = [task EXCEPT ![t] = UserCall("login", <<"register">>, st, who)]
      BY <2>1 DEF UserCommand, LoginCalls
    <3>. QED
      BY <3>1, <3>2
  <2>2. ASSUME NEW who \in Who, UserCommand(t, RegisterCalls, who)
        PROVE  \E call \in Call : task' = [task EXCEPT ![t] = call]
    <3>1. UserCall("register", <<"login">>, st, who) \in Call
      BY <1>1, UserCallTyped DEF Follows
    <3>2. task' = [task EXCEPT ![t] = UserCall("register", <<"login">>, st, who)]
      BY <2>2 DEF UserCommand, RegisterCalls
    <3>. QED
      BY <3>1, <3>2
  <2>3. ASSUME SyncCommand(t) PROVE \E call \in Call : task' = [task EXCEPT ![t] = call]
    BY <1>1, <2>3, SyncCallTyped DEF SyncCommand
  <2>. QED
    BY <2>1, <2>2, <2>3
<1>4. Typed'
  BY <1>1, <1>2, <1>3, TaskTyped DEF Typed, socket, server
<1>5. Placed'
  BY <1>1, <1>2, <1>3, TaskPlaced DEF socket
<1>. QED
  BY <1>4, <1>5

LEMMA SettingTyped ==
    ASSUME Typed, Placed, Logout \/ \E b \in Bases : SetBase(b)
    PROVE  Typed' /\ Placed'
<1>1. UNCHANGED <<server, task, socket>>
  BY DEF Logout, SetBase
<1>2. st' \in SessionState /\ disk' \in SessionState /\ dropped' \subseteq Token
  <2>1. PICK s : /\ Save(s)
                 /\ \/ s = [st EXCEPT !.token = NoToken]
                    \/ \E b \in Bases : s = [st EXCEPT !.base = b]
    BY DEF Logout, SetBase
  <2>2. s \in SessionState
    BY <2>1 DEF Typed, SessionState
  <2>. QED
    BY <2>1, <2>2, SaveTyped
<1>. QED
  BY <1>1, <1>2 DEF Typed, Placed, Running, socket, server

LEMMA LoopTyped ==
    ASSUME Typed, Placed,
           BeginConnect \/ ConnectSucceeds \/ LoopRaises \/ LoopEnds \/ SocketCloses
    PROVE  Typed' /\ Placed'
<1>1. UNCHANGED <<server, st, disk, dropped>>
  BY DEF BeginConnect, ConnectSucceeds, LoopRaises, LoopEnds, SocketCloses, history
<1>2. wsLoop \in Tasks /\ wsLoop \notin Commands /\ Commands \subseteq Tasks
  BY SessionAssumption DEF Tasks
<1>3. /\ loop' \in {"down", "starting", "top", "connecting", "reading"} /\ up' \in BOOLEAN
      /\ target' \in [base : Bases, token : AnyToken]
      /\ up' => loop' = "reading"
      /\ Running' = Running
  <2>1. NoTarget \in [base : Bases, token : AnyToken]
    BY SessionAssumption DEF NoTarget, AnyToken
  <2>2. [base |-> st.base, token |-> st.token] \in [base : Bases, token : AnyToken]
    BY DEF Typed, SessionState, AnyToken
  <2>. QED
    BY <2>1, <2>2 DEF BeginConnect, ConnectSucceeds, LoopRaises, LoopEnds, SocketCloses, At,
                      Running, Typed, Placed
<1>4. CASE BeginConnect \/ LoopEnds \/ SocketCloses
  <2>1. UNCHANGED task
    BY <1>4 DEF BeginConnect, LoopEnds, SocketCloses
  <2>2. task[wsLoop] # Idle => loop' \in {"starting", "reading"}
    BY <1>4 DEF BeginConnect, LoopEnds, SocketCloses, At, Placed
  <2>3. Typed'
    BY <1>1, <1>3, <2>1 DEF Typed, server
  <2>4. Placed'
    BY <1>3, <2>1, <2>2 DEF Placed
  <2>. QED
    BY <2>3, <2>4
<1>5. CASE ConnectSucceeds \/ LoopRaises
  <2>1. PICK call \in Call : /\ task' = [task EXCEPT ![wsLoop] = call]
                             /\ \/ call = Idle
                                \/ call.kind = "sync" /\ loop' = "reading"
    <3>1. CASE st.token # NoToken /\ ConnectSucceeds
      <4>1. SyncCall(st) \in Call /\ SyncCall(st).kind = "sync"
        BY <3>1, SyncCallTyped DEF Typed
      <4>2. task' = [task EXCEPT ![wsLoop] = SyncCall(st)] /\ loop' = "reading"
        BY <3>1 DEF ConnectSucceeds, At
      <4>. QED
        BY <4>1, <4>2
    <3>2. CASE ~(st.token # NoToken /\ ConnectSucceeds)
      BY <1>5, <3>2, IdleCall DEF ConnectSucceeds, LoopRaises
    <3>. QED
      BY <3>1, <3>2
  <2>2. /\ task' \in [Tasks -> Call] /\ task'[wsLoop] = call
        /\ \A u \in Commands : task'[u] = task[u]
    BY <1>2, <2>1, TaskTyped
  <2>3. Typed'
    BY <1>1, <1>3, <2>2 DEF Typed, server
  <2>4. Placed'
    BY <1>3, <2>1, <2>2 DEF Placed
  <2>. QED
    BY <2>3, <2>4
<1>. QED
  BY <1>4, <1>5

LEMMA ProcessTyped ==
    ASSUME Typed, Placed, Start \/ Started \/ Stop
    PROVE  Typed' /\ Placed'
<1>1. UNCHANGED <<server, dropped>>
  BY DEF Start, Started, Stop, history
<1>2. wsLoop \in Tasks /\ wsLoop \notin Commands /\ Commands \subseteq Tasks
  BY SessionAssumption DEF Tasks
<1>3. NewSession \in SessionState /\ NoTarget \in [base : Bases, token : AnyToken]
  BY SessionAssumption DEF NewSession, SessionState, NoTarget, AnyToken
<1>4. st \in SessionState /\ disk \in SessionState
  BY DEF Typed
<1>5. CASE Stop
  <2>1. /\ st' \in SessionState /\ disk' \in SessionState /\ loop' = "down" /\ up' = FALSE
        /\ target' \in [base : Bases, token : AnyToken] /\ task' = [t \in Tasks |-> Idle]
    BY <1>3, <1>4, <1>5 DEF Stop, At
  <2>2. Typed'
    BY <1>1, <2>1, IdleCall DEF Typed, server
  <2>3. Placed'
    BY <1>2, <2>1 DEF Placed
  <2>. QED
    BY <2>2, <2>3
<1>6. CASE Started
  <2>1. /\ st' \in SessionState /\ loop' = "top" /\ UNCHANGED <<disk, up, target>>
        /\ task' = [task EXCEPT ![wsLoop] = Idle] /\ loop = "starting"
    BY <1>4, <1>6 DEF Started, SessionState
  <2>2. task' \in [Tasks -> Call] /\ task'[wsLoop] = Idle
    BY <1>2, <2>1, IdleCall, TaskTyped
  <2>3. Typed'
    BY <1>1, <2>1, <2>2 DEF Typed, server
  <2>4. Placed'
    BY <2>1, <2>2 DEF Placed, Running
  <2>. QED
    BY <2>3, <2>4
<1>7. CASE Start
  <2>1. /\ loop = "down" /\ st' = disk /\ UNCHANGED <<disk, up, target>>
        /\ loop' \in {"top", "starting"}
    BY <1>7 DEF Start
  <2>2. ~up /\ task[wsLoop] = Idle /\ \A t \in Commands : task[t] = Idle
    BY <2>1 DEF Placed, Running
  <2>3. CASE disk.token = NoToken
    <3>1. loop' = "top" /\ UNCHANGED task
      BY <1>7, <2>3 DEF Start
    <3>2. Typed'
      BY <1>1, <1>4, <2>1, <3>1 DEF Typed, server
    <3>3. Placed'
      BY <2>1, <2>2, <3>1 DEF Placed
    <3>. QED
      BY <3>2, <3>3
  <2>4. CASE disk.token # NoToken
    <3>1. loop' = "starting" /\ task' = [task EXCEPT ![wsLoop] = SyncCall(disk)]
      BY <1>7, <2>4 DEF Start
    <3>2. SyncCall(disk) \in Call /\ SyncCall(disk).kind = "sync"
      BY <1>4, <2>4, SyncCallTyped
    <3>3. /\ task' \in [Tasks -> Call] /\ task'[wsLoop] = SyncCall(disk)
          /\ \A u \in Commands : task'[u] = task[u]
      BY <1>2, <3>1, <3>2, TaskTyped
    <3>4. Typed'
      BY <1>1, <1>4, <2>1, <3>1, <3>3 DEF Typed, server
    <3>5. Placed'
      BY <2>1, <2>2, <3>1, <3>2, <3>3 DEF Placed
    <3>. QED
      BY <3>4, <3>5
  <2>. QED
    BY <2>3, <2>4
<1>. QED
  BY <1>5, <1>6, <1>7

LEMMA TypedInit == Init => Typed /\ Placed
<1>. SUFFICES ASSUME Init PROVE Typed /\ Placed
  OBVIOUS
<1>1. NewSession \in SessionState /\ NoTarget \in [base : Bases, token : AnyToken]
  BY SessionAssumption DEF NewSession, SessionState, NoTarget, AnyToken
<1>2. Typed
  <2>1. accounts \in [Bases -> [Users -> Passwords \cup {NoPassword}]] /\ tokens \subseteq Token
    BY DEF Init
  <2>2. issued \in 0 .. MaxTokens
    BY SessionAssumption DEF Init
  <2>3. task \in [Tasks -> Call] /\ up \in BOOLEAN
    BY IdleCall DEF Init
  <2>. QED
    BY <1>1, <2>1, <2>2, <2>3 DEF Init, Typed
<1>3. Placed
  BY DEF Init, Placed, Tasks
<1>. QED
  BY <1>2, <1>3

LEMMA TypedStep == Typed /\ Placed /\ [Next]_vars => Typed' /\ Placed'
<1>. SUFFICES ASSUME Typed, Placed, [Next]_vars PROVE Typed' /\ Placed'
  OBVIOUS
<1>1. CASE UNCHANGED vars
  BY <1>1 DEF vars, server, socket, history, Typed, Placed, Running
<1>2. ASSUME NEW tok \in tokens, Expire(tok) PROVE Typed' /\ Placed'
  BY <1>2 DEF Expire, socket, history, Typed, Placed, Running
<1>3. ASSUME NEW t \in Tasks,
             \/ AnswerSync(t) \/ AnswerLogin(t) \/ AnswerRegister(t)
             \/ ApplyAnswer(t) \/ ApplySync(t) \/ CallFails(t)
      PROVE  Typed' /\ Placed'
  BY <1>3, AnswerSyncTyped, ServerTyped, ApplyAnswerTyped, EndsTyped
<1>4. CASE Next
  BY <1>2, <1>3, <1>4, CommandTyped, SettingTyped, LoopTyped, ProcessTyped DEF Next, Who
<1>. QED
  BY <1>1, <1>4

\* Every variable keeps its type; while ensure_login runs, or nothing does, there
\* are no commands, and the loop has no call but the sync of ensure_login and
\* that of a new connection.
THEOREM SessionTypes == Spec => []TypeOK
<1>1. Typed /\ Placed => TypeOK
  BY DEF Typed, Placed, TypeOK, AnyToken
<1>2. (Typed /\ Placed) /\ [Next]_vars => (Typed /\ Placed)'
  BY TypedStep
<1>. QED
  BY <1>1, <1>2, TypedInit, PTL DEF Spec
=============================================================================
