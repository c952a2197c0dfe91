----------------------------- MODULE TuiProofs -----------------------------
(***************************************************************************)
(* Theorems about Tui, for every value of its constants: that buffers and  *)
(* index go together whatever order calls, frames and commands come in,    *)
(* that sync skips no message, and what a restart finds.                   *)
(***************************************************************************)
EXTENDS Tui, TuiStateProofs

OurFrame == [type : FrameTypes, row : Ours]

OurCall ==
    {Idle}
    \cup [kind : {"sync"}, after : Nat]
    \cup [kind : {"history"}, peer : Peers, limit : Nat]
    \cup [kind : {"synced"}, items : Seq(Ours), next : Nat]
    \cup [kind : {"loaded"}, peer : Peers, items : Seq(Ours)]

\* Every message anywhere is one between Me and a peer.  TypeOK leaves this
\* open, but a message between others would belong to no buffer.
Shapes ==
    /\ Sound(st)
    /\ disk \in Config
    /\ task \in [Tasks -> OurCall]
    /\ connected \in BOOLEAN
    /\ frames \in Seq(OurFrame)
    /\ sending \subseteq MsgId
    /\ outbox \in Seq(Ours)
    /\ rows \in Seq(Ours)
    /\ owed \subseteq OurFrame
    /\ written \in 0 .. MaxMsgs
    /\ shown \subseteq MsgId

\* What a sync call under way will do to the watermark: it was asked no further
\* on than the watermark is by now, and its answer has every row from there up
\* to the position it leads to.
CallSound(call) ==
    /\ call.kind = "sync" => call.after <= st.afterId
    /\ call.kind = "synced" =>
         /\ call.next <= Len(rows)
         /\ \A i \in DOMAIN rows :
              rows[i].to = Me /\ st.afterId < i /\ i <= call.next
              => \E j \in DOMAIN call.items : call.items[j] = rows[i]

\* NothingSkipped needs what the calls under way will do, and that the watermark
\* is not past the table, where a row may come that nobody has pulled.
Pulled ==
    /\ NothingSkipped
    /\ st.afterId <= Len(rows)
    /\ \A t \in Tasks : CallSound(task[t])

\* The inductive invariant.
TuiInv ==
    /\ Shapes
    /\ WatermarkDurable
    /\ CurrentIsRead
    /\ Pulled

----------------------------------------------------------------------------
(* The rows the server answers with. *)

\* The smaller of two numbers.
LEMMA MinOfTwo ==
    ASSUME NEW a \in Nat, NEW b \in Nat
    PROVE  Min({a, b}) \in Nat /\ Min({a, b}) <= a /\ Min({a, b}) <= b
           /\ Min({a, b}) \in {a, b}
<1>1. \E x \in {a, b} : \A y \in {a, b} : x <= y
  OBVIOUS
<1>. QED
  BY <1>1 DEF Min

\* The list of a set of places in the table, in terms of Nth.
LEMMA PlacesOf ==
    ASSUME NEW m \in Nat, NEW S \in SUBSET (1 .. m)
    PROVE  /\ Cardinality(S) \in Nat
           /\ \A r \in 1 .. Cardinality(S) : Nth(S, r) \in S
           /\ \A q, r \in 1 .. Cardinality(S) : q < r => Nth(S, q) < Nth(S, r)
           /\ \A x \in S : \E r \in 1 .. Cardinality(S) : Nth(S, r) = x
<1>1. S \subseteq Nat
  OBVIOUS
<1>2. PICK n \in Nat : \E e \in [1 .. n -> Nat] : Lists(e, S)
  BY ListExists
<1>3. PICK e \in [1 .. n -> Nat] : Lists(e, S)
  BY <1>2
<1>4. Cardinality(S) = n
  BY <1>1, <1>3, ListLength
<1>5. \A r \in 1 .. n : Nth(S, r) = e[r]
  BY <1>1, <1>3, NthOfList
<1>. QED
  BY <1>3, <1>4, <1>5 DEF Lists

\* A sync answer: rows of the client, and none left out up to where it leads.
LEMMA InboxSound ==
    ASSUME rows \in Seq(Ours), NEW a \in Nat, a <= Len(rows)
    PROVE  LET inbox == Inbox(a, SyncLimit)
           IN  /\ inbox.items \in Seq(Ours) /\ inbox.next \in Nat
               /\ Range(inbox.items) \subseteq Range(rows)
               /\ a <= inbox.next /\ inbox.next <= Len(rows)
               /\ \A i \in DOMAIN rows :
                    rows[i].to = Me /\ a < i /\ i <= inbox.next
                    => \E j \in DOMAIN inbox.items : inbox.items[j] = rows[i]
<1>. DEFINE new  == {i \in DOMAIN rows : i > a /\ rows[i].to = Me}
            card == Cardinality(new)
            size == Min({SyncLimit, card})
            items == [r \in 1 .. size |-> rows[Nth(new, r)]]
            next  == IF size = 0 THEN a ELSE Nth(new, size)
<1>1. Len(rows) \in Nat /\ DOMAIN rows = 1 .. Len(rows)
  BY LenProperties
<1>2. new \in SUBSET (1 .. Len(rows)) /\ \A x \in new : x > a
  BY <1>1
<1>2a. \A x \in new : x \in Nat /\ a <= x /\ x <= Len(rows)
  BY <1>1, <1>2
<1>2b. \A i \in 1 .. Len(rows) : i > a /\ rows[i].to = Me => i \in new
  BY <1>1
<1>3. Inbox(a, SyncLimit) = [items |-> items, next |-> next]
  BY DEF Inbox
<1>. HIDE DEF new
<1>4. /\ card \in Nat
      /\ \A r \in 1 .. card : Nth(new, r) \in new
      /\ \A q, r \in 1 .. card : q < r => Nth(new, q) < Nth(new, r)
      /\ \A x \in new : \E r \in 1 .. card : Nth(new, r) = x
  BY <1>1, <1>2, PlacesOf
<1>. HIDE DEF card
<1>5. size \in 0 .. card
  <2>1. SyncLimit \in Nat
    BY TuiAssumption
  <2>. QED
    BY <1>4, <2>1, MinOfTwo
<1>. HIDE DEF size
<1>6. \A r \in 1 .. size : Nth(new, r) \in 1 .. Len(rows) /\ rows[Nth(new, r)] \in Ours
  <2>1. \A r \in 1 .. size : r \in 1 .. card
    BY <1>4, <1>5
  <2>2. \A x \in new : x \in 1 .. Len(rows) /\ rows[x] \in Ours
    BY <1>1, <1>2, ElementOfSeq
  <2>. QED
    BY <1>4, <2>1, <2>2
<1>7. items \in Seq(Ours) /\ DOMAIN items = 1 .. size
  <2>1. items \in [1 .. size -> Ours]
    BY <1>6
  <2>. QED
    BY <1>4, <1>5, <2>1, IsASeq
<1>7a. Range(items) \subseteq Range(rows)
  BY <1>1, <1>6, <1>7 DEF Range
<1>8. next \in Nat /\ a <= next /\ next <= Len(rows)
  <2>1. CASE size = 0
    BY <2>1
  <2>2. CASE size # 0
    <3>1. size \in 1 .. card
      BY <1>4, <1>5, <2>2
    <3>2. Nth(new, size) \in new
      BY <1>4, <3>1
    <3>3. next = Nth(new, size)
      BY <2>2
    <3>. HIDE DEF next
    <3>. QED
      BY <1>2a, <3>2, <3>3
  <2>. QED
    BY <2>1, <2>2
<1>9. ASSUME NEW i \in DOMAIN rows, rows[i].to = Me, a < i, i <= next
      PROVE  \E j \in 1 .. size : items[j] = rows[i]
  <2>1. i \in 1 .. Len(rows) /\ i > a
    BY <1>1, <1>9
  <2>2. i \in new
    BY <1>2b, <1>9, <2>1
  <2>3. PICK r \in 1 .. card : Nth(new, r) = i
    BY <1>4, <2>2
  <2>4. size # 0 /\ i <= Nth(new, size)
    BY <1>9, <2>1
  <2>5. size \in 1 .. card
    BY <1>4, <1>5, <2>4
  <2>6. Nth(new, size) \in Nat
    BY <1>2a, <1>4, <2>5
  <2>7. ~(size < r)
    BY <1>4, <2>1, <2>3, <2>4, <2>5, <2>6
  <2>8. r \in 1 .. size
    BY <1>4, <2>3, <2>5, <2>7
  <2>. QED
    BY <2>3, <2>8
<1>. HIDE DEF items, next
<1>10. Inbox(a, SyncLimit).items = items /\ Inbox(a, SyncLimit).next = next
  BY <1>3
<1>. QED
  BY <1>7, <1>7a, <1>8, <1>9, <1>10

\* A history answer.
LEMMA ConversationType ==
    ASSUME rows \in Seq(Ours), NEW p, NEW n \in Nat
    PROVE  Conversation(p, n) \in Seq(Ours) /\ Range(Conversation(p, n)) \subseteq Range(rows)
<1>. DEFINE all  == Between(p, 0)
            card == Cardinality(all)
            size == Min({n, card})
            page == Page(p, 0, n)
<1>1. Len(rows) \in Nat /\ DOMAIN rows = 1 .. Len(rows)
  BY LenProperties
<1>2. all \in SUBSET (1 .. Len(rows))
  BY <1>1 DEF Between
<1>3. page = [r \in 1 .. size |-> Nth(all, card - size + r)]
  BY DEF Page
<1>. HIDE DEF all, page
<1>4. card \in Nat /\ \A r \in 1 .. card : Nth(all, r) \in all
  BY <1>1, <1>2, PlacesOf
<1>. HIDE DEF card
<1>5. size \in 0 .. card
  BY <1>4, MinOfTwo
<1>. HIDE DEF size
<1>6. \A r \in 1 .. size : card - size + r \in 1 .. card
  BY <1>4, <1>5
<1>7. \A r \in 1 .. size : rows[page[r]] \in Ours /\ rows[page[r]] \in Range(rows)
  <2>. TAKE r \in 1 .. size
  <2>1. page[r] \in 1 .. Len(rows)
    BY <1>2, <1>3, <1>4, <1>6
  <2>. QED
    BY <1>1, <2>1, ElementOfSeq DEF Range
<1>8. Conversation(p, n) = [r \in 1 .. size |-> rows[page[r]]]
  BY <1>3 DEF Conversation, page
<1>9. Conversation(p, n) \in [1 .. size -> Ours]
  BY <1>7, <1>8
<1>10. Range(Conversation(p, n)) \subseteq Range(rows)
  BY <1>7, <1>8 DEF Range
<1>. QED
  BY <1>4, <1>5, <1>9, <1>10, IsASeq

\* What a sequence of messages or frames has after it got longer or shorter.
LEMMA RangeOfAppend ==
    ASSUME NEW S, NEW q \in Seq(S), NEW x \in S
    PROVE  Range(Append(q, x)) = Range(q) \cup {x}
<1>. DEFINE u == Append(q, x)
<1>1. /\ Len(q) \in Nat /\ DOMAIN q = 1 .. Len(q) /\ DOMAIN u = 1 .. Len(q) + 1
      /\ u[Len(q) + 1] = x /\ \A i \in 1 .. Len(q) : u[i] = q[i]
  BY AppendProperties, LenProperties
<1>. HIDE DEF u
<1>2. \A i \in 1 .. Len(q) + 1 : i \in 1 .. Len(q) \/ i = Len(q) + 1
  BY <1>1
<1>3. Len(q) + 1 \in 1 .. Len(q) + 1 /\ \A i \in 1 .. Len(q) : i \in 1 .. Len(q) + 1
  BY <1>1
<1>4. Range(u) = Range(q) \cup {x}
  BY <1>1, <1>2, <1>3 DEF Range
<1>. QED
  BY <1>4 DEF u

LEMMA RangeOfTail ==
    ASSUME NEW S, NEW q \in Seq(S), q # <<>>
    PROVE  Head(q) \in Range(q) /\ Range(Tail(q)) \subseteq Range(q)
<1>. DEFINE u == Tail(q)
<1>1. /\ Len(q) \in Nat \ {0} /\ DOMAIN q = 1 .. Len(q)
      /\ u \in Seq(S) /\ Len(u) = Len(q) - 1 /\ \A i \in 1 .. Len(u) : u[i] = q[i + 1]
  BY HeadTailProperties, LenProperties, EmptySeq
<1>2. DOMAIN u = 1 .. Len(u)
  BY <1>1, LenProperties
<1>3. Head(q) = q[1]
  OBVIOUS
<1>. HIDE DEF u
<1>4. 1 \in 1 .. Len(q) /\ \A i \in 1 .. Len(u) : i + 1 \in 1 .. Len(q)
  BY <1>1
<1>5. Head(q) \in Range(q) /\ Range(u) \subseteq Range(q)
  BY <1>1, <1>2, <1>3, <1>4 DEF Range
<1>. QED
  BY <1>5 DEF u

----------------------------------------------------------------------------
(* What steps have in common. *)

\* The table only gets longer.
Grows ==
    /\ rows' \in Seq(Ours)
    /\ Len(rows) <= Len(rows')
    /\ \A i \in 1 .. Len(rows) : rows'[i] = rows[i]

\* No sync answer comes in, and what is asked is asked from the watermark on.
NoAnswer ==
    \A t \in Tasks :
        \/ task'[t] = task[t]
        \/ task'[t].kind \notin {"sync", "synced"}
        \/ task'[t] = [kind |-> "sync", after |-> st.afterId]

\* The fields of a call.
LEMMA CallFields ==
    ASSUME NEW call \in OurCall
    PROVE  /\ call.kind \in {"idle", "sync", "history", "synced", "loaded"}
           /\ call.kind = "sync" => call.after \in Nat
           /\ call.kind = "history" => call.peer \in Peers /\ call.limit \in Nat
           /\ call.kind = "synced" => call.items \in Seq(Ours) /\ call.next \in Nat
           /\ call.kind = "loaded" => call.items \in Seq(Ours) /\ call.peer \in Peers
BY DEF OurCall, Idle

LEMMA StateFields ==
    ASSUME NEW s, Sound(s)
    PROVE  /\ s.afterId \in Nat /\ s.unread \in [Peers -> Nat] /\ s.order \in Seq(Peers)
           /\ s.current \in Peers \cup {NoPeer}
           /\ Persisted(s) \in Config /\ Persisted(s).afterId = s.afterId
           /\ Persisted(s).current = s.current /\ Persisted(s).unread = s.unread
BY DEF Sound, State, Persisted, Config

LEMMA SameRows == rows \in Seq(Ours) /\ UNCHANGED rows => Grows
<1>. SUFFICES ASSUME rows \in Seq(Ours), UNCHANGED rows PROVE Grows
  OBVIOUS
<1>1. Len(rows) \in Nat
  BY LenProperties
<1>. QED
  BY <1>1 DEF Grows

\* A call that goes on stays sound while table and watermark grow.
LEMMA CallStays ==
    ASSUME Shapes, Shapes', Grows, st.afterId <= st'.afterId,
           NEW call \in OurCall, CallSound(call)
    PROVE  CallSound(call)'
<1>1. st.afterId \in Nat /\ st'.afterId \in Nat
  BY StateFields DEF Shapes
<1>2. /\ Len(rows) \in Nat /\ DOMAIN rows = 1 .. Len(rows)
      /\ Len(rows') \in Nat /\ DOMAIN rows' = 1 .. Len(rows')
  BY LenProperties DEF Shapes
<1>3. CASE call.kind = "sync"
  <2>1. call.after \in Nat
    BY <1>3, CallFields
  <2>. QED
    BY <1>1, <1>3, <2>1 DEF CallSound
<1>4. CASE call.kind = "synced"
  <2>1. call.next \in Nat /\ call.next <= Len(rows)
    BY <1>4, CallFields DEF CallSound
  <2>2. \A i \in DOMAIN rows' : i <= call.next /\ st'.afterId < i
          => i \in DOMAIN rows /\ rows'[i] = rows[i] /\ st.afterId < i
    BY <1>1, <1>2, <2>1 DEF Grows
  <2>3. call.next <= Len(rows')
    BY <1>2, <2>1 DEF Grows
  <2>. QED
    BY <1>4, <2>2, <2>3 DEF CallSound
<1>. QED
  BY <1>3, <1>4 DEF CallSound

\* A step that applies no sync answer keeps what the calls will do.
LEMMA PulledStays ==
    ASSUME Shapes, Shapes', Pulled, Grows, NoAnswer,
           st'.afterId = st.afterId, shown \subseteq shown'
    PROVE  Pulled'
<1>1. st.afterId \in Nat
  BY StateFields DEF Shapes
<1>2. /\ Len(rows) \in Nat /\ DOMAIN rows = 1 .. Len(rows)
      /\ Len(rows') \in Nat /\ DOMAIN rows' = 1 .. Len(rows')
  BY LenProperties DEF Shapes
<1>3. NothingSkipped'
  <2>1. \A i \in DOMAIN rows' : i <= st'.afterId => i \in DOMAIN rows /\ rows'[i] = rows[i]
    BY <1>1, <1>2 DEF Pulled, Grows
  <2>. QED
    BY <2>1 DEF Pulled, NothingSkipped
<1>4. (st.afterId <= Len(rows))'
  BY <1>1, <1>2 DEF Pulled, Grows
<1>5. ASSUME NEW t \in Tasks PROVE CallSound(task[t])'
  <2>1. CASE task'[t] = task[t]
    <3>1. PICK call \in OurCall : call = task[t]
      BY DEF Shapes
    <3>2. CallSound(call)
      BY <3>1 DEF Pulled
    <3>3. CallSound(call)'
      BY <1>1, <3>2, CallStays
    <3>. QED
      BY <2>1, <3>1, <3>3 DEF CallSound
  <2>2. CASE task'[t].kind \notin {"sync", "synced"}
    BY <2>2 DEF CallSound
  <2>3. CASE task'[t] = [kind |-> "sync", after |-> st.afterId]
    BY <1>1, <2>3 DEF CallSound
  <2>. QED
    BY <2>1, <2>2, <2>3 DEF NoAnswer
<1>. QED
  BY <1>3, <1>4, <1>5 DEF Pulled

\* A step that leaves memory and file alone.
LEMMA QuietStep ==
    ASSUME TuiInv, UNCHANGED <<st, disk, shown>>, Grows, NoAnswer,
           task' \in [Tasks -> OurCall], connected' \in BOOLEAN,
           frames' \in Seq(OurFrame), sending' \subseteq MsgId, outbox' \in Seq(Ours),
           owed' \subseteq OurFrame, written' \in 0 .. MaxMsgs
    PROVE  TuiInv' /\ st.afterId <= st'.afterId
<1>1. Shapes'
  BY DEF TuiInv, Shapes, Grows
<1>2. Pulled'
  BY <1>1, PulledStays DEF TuiInv
<1>3. WatermarkDurable' /\ CurrentIsRead'
  BY DEF TuiInv, WatermarkDurable, CurrentIsRead
<1>4. st.afterId \in Nat
  BY StateFields DEF TuiInv, Shapes
<1>. QED
  BY <1>1, <1>2, <1>3, <1>4 DEF TuiInv

LEMMA LostConnection ==
    ASSUME Shapes, LoseConnection
    PROVE  /\ Grows /\ connected' \in BOOLEAN /\ frames' \in Seq(OurFrame)
           /\ outbox' \in Seq(Ours) /\ owed' \subseteq OurFrame
           /\ Range(rows') \subseteq Range(rows) \cup Range(outbox)
<1>1. /\ rows \in Seq(Ours) /\ outbox \in Seq(Ours)
      /\ Len(outbox) \in Nat /\ DOMAIN outbox = 1 .. Len(outbox) /\ Len(rows) \in Nat
  BY LenProperties DEF Shapes
<1>2. PICK stored \in SUBSET (1 .. Len(outbox)) :
        rows' = rows \o [r \in 1 .. Cardinality(stored) |-> outbox[Nth(stored, r)]]
  <2>1. PICK stored \in SUBSET {i \in DOMAIN outbox : outbox[i].id \notin Taken} :
          rows' = rows \o [r \in 1 .. Cardinality(stored) |-> outbox[Nth(stored, r)]]
    BY DEF LoseConnection
  <2>. QED
    BY <1>1, <2>1
<1>3. PICK n \in Nat : n = Cardinality(stored) /\ \A r \in 1 .. n : Nth(stored, r) \in stored
  BY <1>1, PlacesOf
<1>. DEFINE took == [r \in 1 .. n |-> outbox[Nth(stored, r)]]
<1>4. took \in Seq(Ours) /\ Range(took) \subseteq Range(outbox)
  <2>1. \A r \in 1 .. n : Nth(stored, r) \in 1 .. Len(outbox)
    BY <1>3
  <2>2. \A r \in 1 .. n : outbox[Nth(stored, r)] \in Ours
    BY <1>1, <2>1, ElementOfSeq
  <2>3. took \in [1 .. n -> Ours]
    BY <2>2
  <2>4. took \in Seq(Ours)
    BY <2>3, IsASeq
  <2>5. Range(took) \subseteq Range(outbox)
    BY <1>1, <2>1 DEF Range
  <2>. QED
    BY <2>4, <2>5
<1>5. rows' = rows \o took
  BY <1>2, <1>3
<1>. HIDE DEF took
<1>6. Len(took) \in Nat
  BY <1>4, LenProperties
<1>7. rows' \in Seq(Ours) /\ Len(rows') = Len(rows) + Len(took)
      /\ \A i \in 1 .. Len(rows) + Len(took) :
           rows'[i] = IF i <= Len(rows) THEN rows[i] ELSE took[i - Len(rows)]
  BY <1>1, <1>4, <1>5, ConcatProperties
<1>8. Grows
  BY <1>1, <1>6, <1>7 DEF Grows
<1>9. Range(rows') = Range(rows) \cup Range(took)
  BY <1>1, <1>4, <1>5, RangeConcatenation
<1>10. <<>> \in Seq(OurFrame) /\ <<>> \in Seq(Ours)
  BY EmptySeq
<1>. QED
  BY <1>4, <1>8, <1>9, <1>10 DEF LoseConnection, Shapes

LEMMA StoreGrows ==
    ASSUME rows \in Seq(Ours), NEW row \in Ours, Store(row)
    PROVE  Grows
<1>1. Len(rows) \in Nat
  BY LenProperties
<1>2. CASE rows' = rows
  BY <1>1, <1>2 DEF Grows
<1>3. CASE rows' = Append(rows, row)
  BY <1>1, <1>3, AppendProperties DEF Grows
<1>. QED
  BY <1>2, <1>3 DEF Store

----------------------------------------------------------------------------
(* HTTP calls. *)

\* A command or the loop begins a call.
LEMMA TaskSet ==
    ASSUME Shapes, NEW t \in Tasks, NEW call \in OurCall, task' = [task EXCEPT ![t] = call]
    PROVE  /\ task' \in [Tasks -> OurCall] /\ task'[t] = call
           /\ \A u \in Tasks : u # t => task'[u] = task[u]
BY DEF Shapes

LEMMA IdleIsCall == Idle \in OurCall /\ Idle.kind = "idle"
BY DEF OurCall, Idle

LEMMA AskSyncIsCall ==
    ASSUME Shapes
    PROVE  AskSync \in OurCall /\ AskSync = [kind |-> "sync", after |-> st.afterId]
<1>1. st.afterId \in Nat
  BY StateFields DEF Shapes
<1>. QED
  BY <1>1 DEF AskSync, OurCall

LEMMA AskHistoryIsCall ==
    ASSUME NEW p \in Peers, NEW n \in Nat
    PROVE  AskHistory(p, n) \in OurCall /\ AskHistory(p, n).kind = "history"
BY DEF AskHistory, OurCall

LEMMA AnswerStep ==
    ASSUME TuiInv, NEW t \in Tasks, Answer(t)
    PROVE  TuiInv' /\ st.afterId <= st'.afterId
<1>0. Shapes
  BY DEF TuiInv
<1>. DEFINE call == task[t]
<1>1. call \in OurCall /\ CallSound(call) /\ rows \in Seq(Ours) /\ st.afterId <= Len(rows)
      /\ st.afterId \in Nat /\ Len(rows) \in Nat
  BY <1>0, StateFields, LenProperties DEF TuiInv, Shapes, Pulled
<1>2. Grows /\ UNCHANGED <<st, disk, shown, connected, frames, sending, outbox, rows, owed, written>>
  BY <1>1, SameRows DEF Answer
<1>3. CASE call.kind = "history"
  <2>1. call.peer \in Peers /\ call.limit \in Nat
    BY <1>1, <1>3, CallFields
  <2>. DEFINE answer == HistoryAnswer(call.peer, Conversation(call.peer, call.limit))
  <2>2. Conversation(call.peer, call.limit) \in Seq(Ours)
    BY <1>1, <2>1, ConversationType
  <2>3. answer \in OurCall /\ answer.kind = "loaded"
    BY <2>1, <2>2 DEF HistoryAnswer, OurCall
  <2>4. task' = [task EXCEPT ![t] = answer]
    BY <1>3 DEF Answer
  <2>. HIDE DEF answer
  <2>5. NoAnswer /\ task' \in [Tasks -> OurCall]
    BY <1>0, <2>3, <2>4, TaskSet DEF NoAnswer
  <2>. QED
    BY <1>0, <1>2, <2>5, QuietStep DEF Shapes
<1>4. CASE call.kind = "sync"
  <2>1. call.after \in Nat /\ call.after <= st.afterId /\ call.after <= Len(rows)
    <3>1. call.after \in Nat
      BY <1>1, <1>4, CallFields
    <3>2. call.after <= st.afterId
      BY <1>1, <1>4 DEF CallSound
    <3>. QED
      BY <1>1, <3>1, <3>2
  <2>. DEFINE inbox  == Inbox(call.after, SyncLimit)
              answer == SyncAnswer(inbox)
  <2>2. /\ inbox.items \in Seq(Ours) /\ inbox.next \in Nat /\ inbox.next <= Len(rows)
        /\ \A i \in DOMAIN rows :
             rows[i].to = Me /\ call.after < i /\ i <= inbox.next
             => \E j \in DOMAIN inbox.items : inbox.items[j] = rows[i]
    BY <1>1, <2>1, InboxSound
  <2>3. task' = [task EXCEPT ![t] = answer]
    BY <1>4 DEF Answer
  <2>. HIDE DEF inbox
  <2>4. /\ answer \in OurCall /\ answer.kind = "synced"
        /\ answer.items = inbox.items /\ answer.next = inbox.next
    BY <2>2 DEF SyncAnswer, OurCall
  <2>. HIDE DEF answer
  <2>5. CallSound(answer)
    <3>1. \A i \in DOMAIN rows : st.afterId < i => call.after < i
      BY <1>1, <2>1, LenProperties
    <3>. QED
      BY <2>2, <2>4, <3>1 DEF CallSound
  <2>6. /\ task' \in [Tasks -> OurCall] /\ task'[t] = answer
        /\ \A u \in Tasks : u # t => task'[u] = task[u]
    BY <1>0, <2>3, <2>4, TaskSet
  <2>7. Shapes'
    BY <1>0, <1>2, <2>6 DEF Shapes
  <2>8. Pulled'
    <3>1. \A u \in Tasks : CallSound(task'[u])
      BY <2>5, <2>6 DEF TuiInv, Pulled
    <3>2. \A u \in Tasks : CallSound(task[u])'
      BY <1>2, <3>1 DEF CallSound
    <3>. QED
      BY <1>2, <3>2 DEF TuiInv, Pulled, NothingSkipped
  <2>9. WatermarkDurable' /\ CurrentIsRead'
    BY <1>2 DEF TuiInv, WatermarkDurable, CurrentIsRead
  <2>. QED
    BY <1>1, <1>2, <2>7, <2>8, <2>9 DEF TuiInv
<1>. QED
  BY <1>3, <1>4 DEF Answer

LEMMA CallFailsStep ==
    ASSUME TuiInv, NEW t \in Tasks, CallFails(t)
    PROVE  TuiInv' /\ st.afterId <= st'.afterId
<1>1. Shapes
  BY DEF TuiInv
<1>2. UNCHANGED <<st, disk, sending, shown, written>> /\ task' = [task EXCEPT ![t] = Idle]
  BY DEF CallFails
<1>3. NoAnswer /\ task' \in [Tasks -> OurCall]
  BY <1>1, <1>2, TaskSet, IdleIsCall DEF NoAnswer
<1>4. CASE UNCHANGED <<connected, frames, outbox, rows, owed>>
  BY <1>1, <1>2, <1>3, <1>4, QuietStep, SameRows DEF Shapes
<1>5. CASE LoseConnection
  BY <1>1, <1>2, <1>3, <1>5, QuietStep, LostConnection DEF Shapes
<1>. QED
  BY <1>4, <1>5 DEF CallFails

\* The rest of do_sync.
LEMMA ApplySyncStep ==
    ASSUME TuiInv, NEW t \in Tasks, ApplySync(t)
    PROVE  TuiInv' /\ st.afterId <= st'.afterId
<1>. DEFINE call == task[t]
            got  == FoldLeft(Receive, st, call.items)
            mark == Watermark(got.afterId, call.next)
<1>0. Shapes /\ Sound(st) /\ rows \in Seq(Ours) /\ call \in OurCall /\ CallSound(call)
      /\ call.kind = "synced"
  BY DEF TuiInv, Shapes, Pulled, ApplySync
<1>1. call.items \in Seq(Ours) /\ call.next \in Nat
  BY <1>0, CallFields
<1>2. Sound(got) /\ Counted(st, got)
  BY <1>0, <1>1, ReceiveAllSound
<1>3. st' = [got EXCEPT !.afterId = mark]
  BY DEF ApplySync
<1>4. /\ disk' = Persisted(st')
      /\ shown' = shown \cup {call.items[i].id : i \in DOMAIN call.items}
      /\ task' = [task EXCEPT ![t] = Idle]
      /\ UNCHANGED <<connected, frames, sending, outbox, rows, owed, written>>
  BY DEF ApplySync
<1>5. st.afterId \in Nat /\ got.afterId = st.afterId
  BY <1>0, <1>2, StateFields DEF Counted
<1>. HIDE DEF got
<1>6. mark \in Nat /\ st.afterId <= mark /\ mark \in {st.afterId, call.next}
  BY <1>1, <1>5 DEF Watermark
<1>. HIDE DEF mark
<1>7. /\ st' \in State /\ st'.buffers = got.buffers /\ st'.index = got.index
      /\ st'.afterId = mark /\ st'.current = got.current /\ st'.unread = got.unread
  BY <1>2, <1>3, <1>6 DEF Sound, State
<1>8. Sound(st')
  BY <1>2, <1>7, SoundSame
<1>9. Persisted(st') \in Config /\ disk'.afterId = st'.afterId
      /\ disk'.current = st'.current /\ disk'.unread = st'.unread
  BY <1>4, <1>8, StateFields
<1>10. \A i \in DOMAIN call.items : call.items[i].id \in MsgId
  BY <1>1, ElementOfSeq, LenProperties, PeerOfOurs DEF Row
<1>11. Shapes'
  <2>1. task' \in [Tasks -> OurCall]
    BY <1>0, <1>4, TaskSet, IdleIsCall
  <2>2. shown' \subseteq MsgId
    BY <1>0, <1>4, <1>10 DEF Shapes
  <2>. QED
    BY <1>0, <1>4, <1>8, <1>9, <2>1, <2>2 DEF Shapes
<1>12. CurrentIsRead'
  <2>1. st'.current # NoPeer => st'.unread[st'.current] = 0
    <3>1. st.current # NoPeer => st.unread[st.current] = 0
      BY DEF TuiInv, CurrentIsRead
    <3>2. st.current \in Peers \cup {NoPeer}
      BY <1>0, StateFields
    <3>. QED
      BY <1>2, <1>7, <3>1, <3>2 DEF Counted
  <2>. QED
    BY <1>9, <2>1 DEF CurrentIsRead
<1>13. Len(rows) \in Nat /\ DOMAIN rows = 1 .. Len(rows)
  BY <1>0, LenProperties
<1>14. Pulled'
  <2>1. ASSUME NEW i \in DOMAIN rows, rows[i].to = Me, i <= mark PROVE rows[i].id \in shown'
    <3>1. CASE i <= st.afterId
      BY <1>4, <2>1, <3>1 DEF TuiInv, Pulled, NothingSkipped
    <3>2. CASE ~(i <= st.afterId)
      <4>1. st.afterId < i /\ i <= call.next
        BY <1>1, <1>5, <1>6, <1>13, <2>1, <3>2
      <4>2. PICK j \in DOMAIN call.items : call.items[j] = rows[i]
        BY <1>0, <2>1, <4>1 DEF CallSound
      <4>. QED
        BY <1>4, <4>2
    <3>. QED
      BY <3>1, <3>2
  <2>2. NothingSkipped'
    BY <1>4, <1>7, <2>1 DEF NothingSkipped
  <2>3. mark <= Len(rows)
    BY <1>0, <1>6 DEF TuiInv, Pulled, CallSound
  <2>4. ASSUME NEW u \in Tasks PROVE CallSound(task[u])'
    <3>1. CASE u = t
      BY <1>0, <1>4, <3>1, TaskSet, IdleIsCall DEF CallSound
    <3>2. CASE u # t
      <4>1. task'[u] = task[u]
        BY <1>0, <1>4, <3>2, TaskSet, IdleIsCall
      <4>2. PICK c \in OurCall : c = task[u]
        BY <1>0 DEF Shapes
      <4>3. CallSound(c) /\ Grows
        BY <1>0, <1>4, <4>2, SameRows DEF TuiInv, Pulled
      <4>4. CallSound(c)'
        BY <1>0, <1>6, <1>7, <1>11, <4>3, CallStays
      <4>. QED
        BY <4>1, <4>2, <4>4 DEF CallSound
    <3>. QED
      BY <3>1, <3>2
  <2>. QED
    BY <1>4, <1>7, <2>2, <2>3, <2>4 DEF Pulled
<1>. QED
  BY <1>6, <1>7, <1>9, <1>11, <1>12, <1>14 DEF TuiInv, WatermarkDurable

----------------------------------------------------------------------------
(* Steps that change the state, other than do_sync. *)

FileRead(cfg) == cfg.current # NoPeer => cfg.unread[cfg.current] = 0

LEMMA StateStep ==
    ASSUME TuiInv, Sound(st'), ScreenRead(st'), st'.afterId = st.afterId,
           disk' \in Config, disk'.afterId = st.afterId, FileRead(disk'),
           shown \subseteq shown', shown' \subseteq MsgId, Grows, NoAnswer,
           task' \in [Tasks -> OurCall], connected' \in BOOLEAN,
           frames' \in Seq(OurFrame), sending' \subseteq MsgId, outbox' \in Seq(Ours),
           owed' \subseteq OurFrame, written' \in 0 .. MaxMsgs
    PROVE  TuiInv' /\ st.afterId <= st'.afterId
<1>1. Shapes'
  BY DEF Shapes, Grows
<1>2. Pulled'
  BY <1>1, PulledStays DEF TuiInv
<1>3. WatermarkDurable' /\ CurrentIsRead'
  BY DEF WatermarkDurable, CurrentIsRead, ScreenRead, FileRead
<1>4. st.afterId \in Nat
  BY StateFields DEF TuiInv, Shapes
<1>. QED
  BY <1>1, <1>2, <1>3, <1>4 DEF TuiInv

\* What the file has, and what the state has, before such a step.
LEMMA Before ==
    ASSUME TuiInv
    PROVE  /\ Shapes /\ Sound(st) /\ ScreenRead(st) /\ FileRead(disk)
           /\ disk \in Config /\ disk.afterId = st.afterId
BY DEF TuiInv, Shapes, CurrentIsRead, WatermarkDurable, ScreenRead, FileRead

\* The file after persist_cfg.
LEMMA SavedRead ==
    ASSUME NEW s, Sound(s), ScreenRead(s)
    PROVE  Persisted(s) \in Config /\ Persisted(s).afterId = s.afterId /\ FileRead(Persisted(s))
BY StateFields DEF ScreenRead, FileRead

\* The rest of switch_peer and /history.
LEMMA ApplyHistoryStep ==
    ASSUME TuiInv, NEW t \in Tasks, ApplyHistory(t)
    PROVE  TuiInv' /\ st.afterId <= st'.afterId
<1>. DEFINE call == task[t]
<1>1. /\ Shapes /\ Sound(st) /\ ScreenRead(st) /\ FileRead(disk)
      /\ disk \in Config /\ disk.afterId = st.afterId
  BY Before
<1>2. call \in OurCall /\ call.kind = "loaded" /\ call.items \in Seq(Ours) /\ call.peer \in Peers
  <2>1. call \in OurCall /\ call.kind = "loaded"
    BY <1>1 DEF Shapes, ApplyHistory
  <2>. QED
    BY <2>1, CallFields
<1>3. Sound(st') /\ SameMarks(st, st')
  BY <1>1, <1>2, ReplaceBufferSound DEF ApplyHistory
<1>4. ScreenRead(st') /\ st'.afterId = st.afterId
  BY <1>1, <1>3 DEF ScreenRead, SameMarks
<1>5. \A i \in DOMAIN call.items : call.items[i].id \in MsgId
  BY <1>2, ElementOfSeq, LenProperties, PeerOfOurs DEF Row
<1>6. shown \subseteq shown' /\ shown' \subseteq MsgId
  BY <1>1, <1>5 DEF ApplyHistory, Shapes
<1>7. NoAnswer /\ task' \in [Tasks -> OurCall]
  BY <1>1, TaskSet, IdleIsCall DEF NoAnswer, ApplyHistory
<1>8. UNCHANGED <<disk, connected, frames, sending, outbox, rows, owed, written>>
  BY DEF ApplyHistory
<1>. QED
  BY <1>1, <1>3, <1>4, <1>6, <1>7, <1>8, StateStep, SameRows DEF Shapes

LEMMA SwitchPeerStep ==
    ASSUME TuiInv, NEW t \in Tasks, NEW p \in Peers, SwitchPeer(t, p)
    PROVE  TuiInv' /\ st.afterId <= st'.afterId
<1>1. /\ Shapes /\ Sound(st) /\ ScreenRead(st) /\ FileRead(disk)
      /\ disk \in Config /\ disk.afterId = st.afterId
  BY Before
<1>2. Sound(st') /\ st'.afterId = st.afterId /\ ScreenRead(st')
  BY <1>1, OpenedSound DEF SwitchPeer, ScreenRead
<1>3. NoAnswer /\ task' \in [Tasks -> OurCall]
  <2>1. AskHistory(p, HistoryLimit) \in OurCall /\ AskHistory(p, HistoryLimit).kind = "history"
    BY AskHistoryIsCall, TuiAssumption
  <2>. QED
    BY <1>1, <2>1, TaskSet DEF NoAnswer, SwitchPeer
<1>4. UNCHANGED <<disk, connected, frames, sending, outbox, rows, owed, written, shown>>
  BY DEF SwitchPeer
<1>. QED
  BY <1>1, <1>2, <1>3, <1>4, StateStep, SameRows DEF Shapes

LEMMA CyclePeerStep ==
    ASSUME TuiInv, NEW t \in Tasks, CyclePeer(t)
    PROVE  TuiInv' /\ st.afterId <= st'.afterId
<1>1. st.order \in Seq(Peers) /\ st.order # <<>>
  BY StateFields DEF TuiInv, Shapes, CyclePeer
<1>2. NextPeer(st.order, st.current) \in Peers /\ PrevPeer(st.order, st.current) \in Peers
  BY <1>1, NeighbourIsPeer
<1>. QED
  BY <1>2, SwitchPeerStep DEF CyclePeer

LEMMA ReloadHistoryStep ==
    ASSUME TuiInv, NEW t \in Tasks, ReloadHistory(t)
    PROVE  TuiInv' /\ st.afterId <= st'.afterId
<1>1. Shapes
  BY DEF TuiInv
<1>2. PICK n \in ReloadLimits : task' = [task EXCEPT ![t] = AskHistory(st.current, n)]
  BY DEF ReloadHistory
<1>3. st.current \in Peers /\ n \in Nat
  BY <1>1, StateFields, TuiAssumption DEF ReloadHistory, Shapes
<1>4. NoAnswer /\ task' \in [Tasks -> OurCall]
  BY <1>1, <1>2, <1>3, TaskSet, AskHistoryIsCall DEF NoAnswer
<1>. QED
  BY <1>1, <1>4, QuietStep, SameRows DEF ReloadHistory, Shapes

LEMMA SyncCommandStep ==
    ASSUME TuiInv, NEW t \in Tasks, SyncCommand(t)
    PROVE  TuiInv' /\ st.afterId <= st'.afterId
<1>1. Shapes
  BY DEF TuiInv
<1>2. NoAnswer /\ task' \in [Tasks -> OurCall]
  BY <1>1, TaskSet, AskSyncIsCall DEF NoAnswer, SyncCommand
<1>. QED
  BY <1>1, <1>2, QuietStep, SameRows DEF SyncCommand, Shapes

\* Steps of the loop and of the process.
LEMMA ConnectStep ==
    ASSUME TuiInv, Connect
    PROVE  TuiInv' /\ st.afterId <= st'.afterId
<1>1. Shapes
  BY DEF TuiInv
<1>2. NoAnswer /\ task' \in [Tasks -> OurCall]
  BY <1>1, TaskSet, AskSyncIsCall, TuiAssumption DEF NoAnswer, Connect
<1>. QED
  BY <1>1, <1>2, QuietStep, SameRows DEF Connect, Shapes

LEMMA DisconnectStep ==
    ASSUME TuiInv, Disconnect
    PROVE  TuiInv' /\ st.afterId <= st'.afterId
<1>1. Shapes
  BY DEF TuiInv
<1>2. NoAnswer /\ task' \in [Tasks -> OurCall]
  BY <1>1 DEF NoAnswer, Disconnect, Shapes
<1>. QED
  BY <1>1, <1>2, QuietStep, LostConnection DEF Disconnect, Shapes

LEMMA FrameTaken ==
    ASSUME Shapes, NEW type, TakeFrame(type)
    PROVE  /\ Head(frames).row \in Ours /\ Head(frames).row.id \in MsgId
           /\ Head(frames).type = type /\ frames' \in Seq(OurFrame)
           /\ Grows /\ NoAnswer /\ task' \in [Tasks -> OurCall] /\ connected' \in BOOLEAN
           /\ sending' \subseteq MsgId /\ outbox' \in Seq(Ours)
           /\ owed' \subseteq OurFrame /\ written' \in 0 .. MaxMsgs
<1>1. frames \in Seq(OurFrame) /\ frames # <<>> /\ frames' = Tail(frames)
  BY DEF Shapes, TakeFrame
<1>2. Head(frames) \in OurFrame /\ frames' \in Seq(OurFrame)
  BY <1>1, HeadTailProperties
<1>3. Head(frames).row \in Ours /\ Head(frames).row.id \in MsgId
  BY <1>2, PeerOfOurs DEF OurFrame, Row
<1>4. /\ UNCHANGED <<task, connected, sending, outbox, rows, owed, written>>
      /\ Head(frames).type = type
  BY DEF TakeFrame
<1>. QED
  BY <1>2, <1>3, <1>4, SameRows DEF Shapes, NoAnswer

LEMMA HandleMsgStep ==
    ASSUME TuiInv, HandleMsg
    PROVE  TuiInv' /\ st.afterId <= st'.afterId
<1>. DEFINE row  == Head(frames).row
            p    == PeerOf(row)
            got  == Receive(st, row)
            grew == Len(got.buffers[p]) > Len(st.buffers[p])
            none == [got EXCEPT !.unread[p] = 0]
            read == IF p = st.current THEN none ELSE got
<1>1. /\ Shapes /\ Sound(st) /\ ScreenRead(st) /\ FileRead(disk)
      /\ disk \in Config /\ disk.afterId = st.afterId
  BY Before
<1>2. /\ row \in Ours /\ row.id \in MsgId /\ frames' \in Seq(OurFrame)
      /\ Grows /\ NoAnswer /\ task' \in [Tasks -> OurCall] /\ connected' \in BOOLEAN
      /\ sending' \subseteq MsgId /\ outbox' \in Seq(Ours)
      /\ owed' \subseteq OurFrame /\ written' \in 0 .. MaxMsgs
  BY <1>1, FrameTaken DEF HandleMsg
<1>3. p \in Peers
  BY <1>2, PeerOfOurs
<1>4. /\ st' = IF grew THEN read ELSE got
      /\ disk' = IF grew THEN Persisted(st') ELSE disk
      /\ shown' = shown \cup {row.id}
  BY DEF HandleMsg
<1>5. Sound(got) /\ Counted(st, got)
  BY <1>1, <1>2, ReceiveSound
<1>. HIDE DEF row, p, got
<1>6. got \in State /\ st.current \in Peers \cup {NoPeer}
  BY <1>1, <1>5, StateFields DEF Sound
<1>7. /\ none \in State /\ none.buffers = got.buffers /\ none.index = got.index
      /\ none.current = got.current /\ none.afterId = got.afterId
      /\ none.unread = [got.unread EXCEPT ![p] = 0]
  <2>. DEFINE u == [got.unread EXCEPT ![p] = 0]
  <2>1. u \in [Peers -> Nat]
    BY <1>6 DEF State
  <2>2. none = [got EXCEPT !.unread = u]
    OBVIOUS
  <2>. HIDE DEF u, none
  <2>3. none.unread = u
    BY <1>6, <2>2 DEF State
  <2>4. /\ none \in State /\ none.buffers = got.buffers /\ none.index = got.index
        /\ none.current = got.current /\ none.afterId = got.afterId
    BY <1>6, <2>1, <2>2 DEF State
  <2>. QED
    BY <2>3, <2>4 DEF u
<1>. HIDE DEF none
<1>8. Sound(none)
  BY <1>5, <1>7, SoundSame
<1>9. got.unread \in [Peers -> Nat]
  BY <1>6 DEF State
<1>10. ScreenRead(got) /\ ScreenRead(none)
  <2>1. ScreenRead(got)
    BY <1>1, <1>5, <1>6 DEF ScreenRead, Counted
  <2>2. ScreenRead(none)
    BY <1>3, <1>7, <1>9, <2>1 DEF ScreenRead
  <2>. QED
    BY <2>1, <2>2
<1>11. Sound(st') /\ ScreenRead(st') /\ st'.afterId = st.afterId
  BY <1>4, <1>5, <1>7, <1>8, <1>10 DEF Counted
<1>12. disk' \in Config /\ disk'.afterId = st.afterId /\ FileRead(disk')
  BY <1>1, <1>4, <1>11, SavedRead
<1>13. shown \subseteq shown' /\ shown' \subseteq MsgId
  BY <1>1, <1>2, <1>4 DEF Shapes
<1>. QED
  BY <1>2, <1>11, <1>12, <1>13, StateStep

\* An ack or an error frame.
LEMMA StatusStep ==
    ASSUME TuiInv, NEW type, TakeFrame(type), NEW x \in Status,
           st' = UpdateStatus(st, Head(frames).row.id, x), UNCHANGED <<disk, shown>>
    PROVE  TuiInv' /\ st.afterId <= st'.afterId
<1>1. /\ Shapes /\ Sound(st) /\ ScreenRead(st) /\ FileRead(disk)
      /\ disk \in Config /\ disk.afterId = st.afterId
  BY Before
<1>2. Sound(st') /\ SameMarks(st, st')
  BY <1>1, UpdateStatusSound
<1>3. ScreenRead(st') /\ st'.afterId = st.afterId
  BY <1>1, <1>2 DEF ScreenRead, SameMarks
<1>4. shown' \subseteq MsgId /\ shown \subseteq shown'
  BY <1>1 DEF Shapes
<1>. QED
  BY <1>1, <1>2, <1>3, <1>4, FrameTaken, StateStep

LEMMA HandleAckStep ==
    ASSUME TuiInv, HandleAck \/ HandleError
    PROVE  TuiInv' /\ st.afterId <= st'.afterId
<1>1. CASE HandleError
  <2>1. "failed" \in Status
    BY DEF Status
  <2>. QED
    BY <1>1, <2>1, StatusStep DEF HandleError
<1>2. ASSUME NEW type \in {"server_received", "delivered"}, TakeFrame(type), HandleAck
      PROVE  TuiInv' /\ st.afterId <= st'.afterId
  <2>1. type \in Status
    BY DEF Status
  <2>2. Head(frames).type = type
    BY <1>2 DEF TakeFrame
  <2>. QED
    BY <1>2, <2>1, <2>2, StatusStep DEF HandleAck
<1>. QED
  BY <1>1, <1>2 DEF HandleAck

\* A message is sent: like a received one, but from the client.
LEMMA SentSound ==
    ASSUME NEW s, Sound(s), ScreenRead(s), NEW p \in Peers, NEW m \in ChatMsg
    PROVE  LET sent == [BufferAppend(s, p, m) EXCEPT
                          !.unread[p] = 0,
                          !.current = IF @ = NoPeer THEN p ELSE @]
           IN  Sound(sent) /\ ScreenRead(sent) /\ sent.afterId = s.afterId
<1>. DEFINE t == BufferAppend(s, p, m)
            u == [t.unread EXCEPT ![p] = 0]
            c == IF t.current = NoPeer THEN p ELSE t.current
            sent == [t EXCEPT !.unread = u, !.current = c]
<1>1. Sound(t) /\ SameMarks(s, t)
  BY BufferAppendSound
<1>. HIDE DEF t
<1>2. t \in State /\ t.unread \in [Peers -> Nat] /\ t.current \in Peers \cup {NoPeer}
  BY <1>1 DEF Sound, State
<1>3. u \in [Peers -> Nat] /\ c \in Peers /\ u[p] = 0
      /\ \A q \in Peers : q # p => u[q] = t.unread[q]
  BY <1>2
<1>3a. u[c] = 0
  BY <1>1, <1>2, <1>3 DEF ScreenRead, SameMarks
<1>. HIDE DEF u, c
<1>4. /\ sent \in State /\ sent.buffers = t.buffers /\ sent.index = t.index
      /\ sent.unread = u /\ sent.current = c /\ sent.afterId = t.afterId
  BY <1>2, <1>3 DEF State
<1>. HIDE DEF sent
<1>5. Sound(sent)
  BY <1>1, <1>4, SoundSame
<1>6. ScreenRead(sent) /\ sent.afterId = s.afterId
  BY <1>1, <1>3a, <1>4 DEF ScreenRead, SameMarks
<1>. QED
  BY <1>5, <1>6 DEF sent, t, u, c

LEMMA SendMsgStep ==
    ASSUME TuiInv, NEW p \in Peers, SendMsg(p)
    PROVE  TuiInv' /\ st.afterId <= st'.afterId
<1>. DEFINE row  == [id |-> written + 1, from |-> Me, to |-> p]
            sent == [BufferAppend(st, p, Chat(row, "pending")) EXCEPT
                       !.unread[p] = 0,
                       !.current = IF @ = NoPeer THEN p ELSE @]
<1>1. Shapes /\ Sound(st) /\ ScreenRead(st) /\ disk.afterId = st.afterId
  BY Before
<1>2. written \in Nat /\ written + 1 \in MsgId
  BY <1>1, StateAssumption DEF Shapes, SendMsg, MsgId
<1>3. row \in Ours /\ row.id \in MsgId
  BY <1>2, StateAssumption DEF Ours, Row
<1>4. /\ st' = sent /\ disk' = Persisted(sent)
      /\ shown' = shown \cup {row.id}
      /\ sending' \subseteq sending \cup {row.id}
      /\ outbox' \in {outbox, Append(outbox, row)}
      /\ written' = written + 1
      /\ UNCHANGED <<task, connected, frames, rows, owed>>
  BY DEF SendMsg
<1>. HIDE DEF row
<1>5. Chat(row, "pending") \in ChatMsg
  BY <1>3, PeerOfOurs DEF Chat, ChatMsg, Status
<1>6. Sound(sent) /\ ScreenRead(sent) /\ sent.afterId = st.afterId
  BY <1>1, <1>5, SentSound
<1>. HIDE DEF sent
<1>7. disk' \in Config /\ disk'.afterId = st.afterId /\ FileRead(disk')
  BY <1>4, <1>6, SavedRead
<1>8. outbox' \in Seq(Ours)
  <2>1. outbox \in Seq(Ours)
    BY <1>1 DEF Shapes
  <2>2. Append(outbox, row) \in Seq(Ours)
    BY <1>3, <2>1, AppendProperties
  <2>. QED
    BY <1>4, <2>1, <2>2
<1>9. /\ shown \subseteq shown' /\ shown' \subseteq MsgId /\ sending' \subseteq MsgId
      /\ written' \in 0 .. MaxMsgs
  <2>1. written' \in 0 .. MaxMsgs
    BY <1>2, <1>4, StateAssumption DEF MsgId
  <2>2. shown' \subseteq MsgId /\ sending' \subseteq MsgId
    BY <1>1, <1>3, <1>4 DEF Shapes
  <2>. QED
    BY <1>4, <2>1, <2>2
<1>10. Grows /\ NoAnswer /\ task' \in [Tasks -> OurCall] /\ connected' \in BOOLEAN
       /\ frames' \in Seq(OurFrame) /\ owed' \subseteq OurFrame
  BY <1>1, <1>4, SameRows DEF Shapes, NoAnswer
<1>. QED
  BY <1>4, <1>6, <1>7, <1>8, <1>9, <1>10, StateStep

\* The call of ws.send has raised.
LEMMA SendFailsStep ==
    ASSUME TuiInv, NEW id \in sending, SendFails(id)
    PROVE  TuiInv' /\ st.afterId <= st'.afterId
<1>1. /\ Shapes /\ Sound(st) /\ ScreenRead(st) /\ FileRead(disk)
      /\ disk \in Config /\ disk.afterId = st.afterId
  BY Before
<1>2. Sound(st') /\ SameMarks(st, st')
  <2>1. "failed" \in Status
    BY DEF Status
  <2>. QED
    BY <1>1, <2>1, UpdateStatusSound DEF SendFails
<1>3. ScreenRead(st') /\ st'.afterId = st.afterId
  BY <1>1, <1>2 DEF ScreenRead, SameMarks
<1>4. /\ sending' = sending \ {id}
      /\ UNCHANGED <<disk, task, connected, frames, outbox, rows, owed, written, shown>>
  BY DEF SendFails
<1>5. Grows /\ NoAnswer /\ sending' \subseteq MsgId
  BY <1>1, <1>4, SameRows DEF Shapes, NoAnswer
<1>. QED
  BY <1>1, <1>2, <1>3, <1>4, <1>5, StateStep DEF Shapes

----------------------------------------------------------------------------
(* The process, the server and the peers. *)

LEMMA RestartStep ==
    ASSUME TuiInv, Restart
    PROVE  TuiInv' /\ st.afterId <= st'.afterId
<1>1. /\ Shapes /\ Sound(st) /\ ScreenRead(st) /\ FileRead(disk)
      /\ disk \in Config /\ disk.afterId = st.afterId
  BY Before
<1>2. disk' \in Config /\ disk'.afterId = st.afterId /\ FileRead(disk')
  <2>1. Persisted(st) \in Config /\ Persisted(st).afterId = st.afterId /\ FileRead(Persisted(st))
    BY <1>1, SavedRead
  <2>. QED
    BY <1>1, <2>1 DEF Restart
<1>3. /\ st' \in State /\ st'.buffers = [p \in Peers |-> <<>>] /\ st'.index = NoIndex
      /\ st'.current = disk'.current /\ st'.unread = disk'.unread
      /\ st'.afterId = disk'.afterId
  <2>1. NewState \in State /\ NewState.buffers = [p \in Peers |-> <<>>]
        /\ NewState.index = NoIndex
    BY NewStateSound DEF Sound, NewState
  <2>. HIDE DEF NewState
  <2>2. st' = [NewState EXCEPT !.order = disk'.order, !.unread = disk'.unread,
                               !.current = disk'.current, !.afterId = disk'.afterId]
    BY DEF Restart, Loaded
  <2>. QED
    BY <1>2, <2>1, <2>2 DEF State, Config
<1>4. Sound(st') /\ ScreenRead(st') /\ st'.afterId = st.afterId
  BY <1>2, <1>3, EmptySound DEF ScreenRead, FileRead
<1>5. NoAnswer /\ task' \in [Tasks -> OurCall]
  BY IdleIsCall DEF NoAnswer, Restart
<1>6. LoseConnection /\ sending' \subseteq MsgId /\ UNCHANGED <<written, shown>>
  BY DEF Restart
<1>. QED
  BY <1>1, <1>2, <1>4, <1>5, <1>6, LostConnection, StateStep DEF Shapes

LEMMA PeerWritesStep ==
    ASSUME TuiInv, NEW p \in Peers, PeerWrites(p)
    PROVE  TuiInv' /\ st.afterId <= st'.afterId
<1>. DEFINE row == [id |-> written + 1, from |-> p, to |-> Me]
<1>1. Shapes
  BY DEF TuiInv
<1>2. written \in Nat /\ written + 1 \in MsgId
  BY <1>1, StateAssumption DEF Shapes, PeerWrites, MsgId
<1>3. row \in Ours
  BY <1>2, StateAssumption DEF Ours, Row
<1>4. /\ Store(row) /\ owed' \in {owed, owed \cup {Send("msg", row)}}
      /\ written' = written + 1
      /\ UNCHANGED <<st, disk, task, connected, frames, sending, outbox, shown>>
  BY DEF PeerWrites
<1>. HIDE DEF row
<1>5. Send("msg", row) \in OurFrame
  BY <1>3 DEF Send, OurFrame, FrameTypes
<1>6. Grows /\ NoAnswer
  BY <1>1, <1>3, <1>4, StoreGrows DEF Shapes, NoAnswer
<1>7. written' \in 0 .. MaxMsgs /\ owed' \subseteq OurFrame
  BY <1>1, <1>2, <1>4, <1>5 DEF Shapes, MsgId
<1>. QED
  BY <1>1, <1>4, <1>6, <1>7, QuietStep DEF Shapes

LEMMA PushStep ==
    ASSUME TuiInv, NEW f \in owed, Push(f)
    PROVE  TuiInv' /\ st.afterId <= st'.afterId
<1>1. Shapes /\ f \in OurFrame
  BY DEF TuiInv, Shapes
<1>2. frames' \in Seq(OurFrame) /\ owed' \subseteq OurFrame
  BY <1>1, AppendProperties DEF Shapes, Push
<1>3. Grows /\ NoAnswer
  BY <1>1, SameRows DEF Shapes, Push, NoAnswer
<1>. QED
  BY <1>1, <1>2, <1>3, QuietStep DEF Shapes, Push

\* What it sends, and what the hub will have to.
LEMMA AnswersAre ==
    ASSUME Shapes, ServerTakes
    PROVE  LET row == Head(outbox)
           IN  /\ row \in Ours /\ row \in Range(outbox)
               /\ outbox' \in Seq(Ours) /\ Range(outbox') \subseteq Range(outbox)
               /\ frames' \in Seq(OurFrame) /\ owed' \subseteq OurFrame /\ Grows
               /\ \A f \in Range(frames') \cup owed' :
                    \/ f \in Range(frames) \cup owed
                    \/ f.row = row /\ (f.type = "error" \/ Store(row))
               /\ Range(rows') \subseteq Range(rows) \cup {row}
               /\ UNCHANGED <<st, disk, task, connected, sending, written, shown>>
<1>. DEFINE row  == Head(outbox)
            ack  == Send("server_received", row)
            echo == Send("msg", row)
            err  == Send("error", row)
<1>1. outbox \in Seq(Ours) /\ outbox # <<>> /\ outbox' = Tail(outbox)
  BY DEF Shapes, ServerTakes
<1>2. row \in Ours /\ row \in Range(outbox) /\ outbox' \in Seq(Ours)
      /\ Range(outbox') \subseteq Range(outbox)
  BY <1>1, RangeOfTail, HeadTailProperties
<1>3. \/ /\ Store(row)
         /\ \E answer \in {<<>>, <<ack>>, <<echo>>, <<ack, echo>>} : frames' = frames \o answer
         /\ \/ owed' = owed
            \/ \E type \in {"delivered", "error"} : owed' = owed \cup {Send(type, row)}
      \/ /\ frames' \in {frames, Append(frames, err)}
         /\ UNCHANGED <<rows, owed>>
  BY DEF ServerTakes
<1>4. UNCHANGED <<st, disk, task, connected, sending, written, shown>>
  BY DEF ServerTakes
<1>. HIDE DEF row
<1>5. /\ ack.row = row /\ echo.row = row /\ err.row = row /\ err.type = "error"
      /\ ack \in OurFrame /\ echo \in OurFrame /\ err \in OurFrame
      /\ Send("delivered", row).row = row /\ Send("delivered", row) \in OurFrame
  BY <1>2 DEF Send, OurFrame, FrameTypes
<1>. HIDE DEF ack, echo, err
<1>6. frames \in Seq(OurFrame) /\ owed \subseteq OurFrame /\ rows \in Seq(Ours)
  BY DEF Shapes
<1>7. ASSUME Store(row), NEW answer \in {<<>>, <<ack>>, <<echo>>, <<ack, echo>>},
             frames' = frames \o answer,
             \/ owed' = owed
             \/ \E type \in {"delivered", "error"} : owed' = owed \cup {Send(type, row)}
      PROVE  /\ frames' \in Seq(OurFrame) /\ owed' \subseteq OurFrame /\ Grows
             /\ \A f \in Range(frames') \cup owed' :
                  f \in Range(frames) \cup owed \/ f.row = row
             /\ Range(rows') \subseteq Range(rows) \cup {row}
  <2>1. owed' \subseteq OurFrame /\ \A f \in owed' : f \in owed \/ f.row = row
    BY <1>5, <1>6, <1>7 DEF err
  <2>2. Grows
    BY <1>2, <1>6, <1>7, StoreGrows
  <2>3. Range(rows') \subseteq Range(rows) \cup {row}
    BY <1>2, <1>6, <1>7, RangeOfAppend DEF Store
  <2>4. answer \in Seq(OurFrame) /\ \A i \in DOMAIN answer : answer[i] \in {ack, echo}
    <3>1. <<>> \in Seq(OurFrame) /\ <<ack>> \in Seq(OurFrame) /\ <<echo>> \in Seq(OurFrame)
      BY <1>5, EmptySeq
    <3>2. <<ack, echo>> \in Seq(OurFrame)
      BY <1>5
    <3>3. /\ DOMAIN <<>> = {} /\ DOMAIN <<ack>> = {1} /\ DOMAIN <<echo>> = {1}
          /\ DOMAIN <<ack, echo>> = {1, 2}
      OBVIOUS
    <3>4. answer \in Seq(OurFrame)
      BY <1>7, <3>1, <3>2
    <3>5. \A i \in DOMAIN answer : answer[i] \in {ack, echo}
      BY <3>3
    <3>. QED
      BY <3>4, <3>5
  <2>5. frames' \in Seq(OurFrame) /\ Range(frames') = Range(frames) \cup Range(answer)
    BY <1>6, <1>7, <2>4, RangeConcatenation, ConcatProperties
  <2>6. \A f \in Range(frames') : f \in Range(frames) \/ f.row = row
    BY <1>5, <2>4, <2>5 DEF Range
  <2>. QED
    BY <2>1, <2>2, <2>3, <2>5, <2>6
<1>8. CASE frames' \in {frames, Append(frames, err)} /\ UNCHANGED <<rows, owed>>
  <2>1. frames' \in Seq(OurFrame) /\ Range(frames') \subseteq Range(frames) \cup {err}
    <3>1. CASE frames' = frames
      BY <1>6, <3>1
    <3>2. CASE frames' = Append(frames, err)
      BY <1>5, <1>6, <3>2, RangeOfAppend, AppendProperties
    <3>. QED
      BY <1>8, <3>1, <3>2
  <2>2. Grows
    BY <1>6, <1>8, SameRows
  <2>. QED
    BY <1>2, <1>4, <1>5, <1>6, <1>8, <2>1, <2>2 DEF row
<1>. QED
  BY <1>2, <1>3, <1>4, <1>7, <1>8 DEF row

LEMMA ServerTakesStep ==
    ASSUME TuiInv, ServerTakes
    PROVE  TuiInv' /\ st.afterId <= st'.afterId
<1>1. Shapes
  BY DEF TuiInv
<1>2. /\ outbox' \in Seq(Ours) /\ frames' \in Seq(OurFrame) /\ owed' \subseteq OurFrame
      /\ Grows /\ UNCHANGED <<st, disk, task, connected, sending, written, shown>>
  BY <1>1, AnswersAre
<1>3. NoAnswer
  BY <1>2 DEF NoAnswer
<1>. QED
  BY <1>1, <1>2, <1>3, QuietStep DEF Shapes

----------------------------------------------------------------------------
(* The theorems. *)

LEMMA InitTui == Init => TuiInv
<1>. SUFFICES ASSUME Init PROVE TuiInv
  OBVIOUS
<1>1. Sound(st) /\ ScreenRead(st) /\ st.afterId = 0
  BY NewStateSound DEF Init
<1>2. disk \in Config /\ disk.afterId = st.afterId /\ FileRead(disk)
  BY <1>1, SavedRead DEF Init
<1>3. <<>> \in Seq(OurFrame) /\ <<>> \in Seq(Ours) /\ Len(<<>>) = 0 /\ DOMAIN rows = {}
  BY EmptySeq DEF Init
<1>4. task \in [Tasks -> OurCall] /\ \A t \in Tasks : task[t].kind = "idle"
  BY IdleIsCall DEF Init
<1>5. Shapes
  <2>1. connected \in BOOLEAN /\ frames \in Seq(OurFrame) /\ outbox \in Seq(Ours)
        /\ rows \in Seq(Ours)
    BY <1>3 DEF Init
  <2>2. owed \subseteq OurFrame /\ shown \subseteq MsgId /\ sending \subseteq MsgId
        /\ written \in 0 .. MaxMsgs
    BY StateAssumption DEF Init
  <2>. QED
    BY <1>1, <1>2, <1>4, <2>1, <2>2 DEF Shapes
<1>6. Pulled
  BY <1>1, <1>3, <1>4 DEF Pulled, NothingSkipped, CallSound, Init
<1>. QED
  BY <1>1, <1>2, <1>5, <1>6 DEF TuiInv, WatermarkDurable, CurrentIsRead, ScreenRead, FileRead

LEMMA TuiStep == TuiInv /\ [Next]_vars => TuiInv' /\ st.afterId <= st'.afterId
<1>. SUFFICES ASSUME TuiInv, [Next]_vars PROVE TuiInv' /\ st.afterId <= st'.afterId
  OBVIOUS
<1>1. ASSUME NEW t \in Tasks, Answer(t) PROVE TuiInv' /\ st.afterId <= st'.afterId
  BY <1>1, AnswerStep
<1>2. ASSUME NEW t \in Tasks, CallFails(t) PROVE TuiInv' /\ st.afterId <= st'.afterId
  BY <1>2, CallFailsStep
<1>3. ASSUME NEW t \in Tasks, ApplySync(t) PROVE TuiInv' /\ st.afterId <= st'.afterId
  BY <1>3, ApplySyncStep
<1>4. ASSUME NEW t \in Tasks, ApplyHistory(t) PROVE TuiInv' /\ st.afterId <= st'.afterId
  BY <1>4, ApplyHistoryStep
<1>5. ASSUME NEW t \in Tasks, NEW p \in Peers, SwitchPeer(t, p)
      PROVE  TuiInv' /\ st.afterId <= st'.afterId
  BY <1>5, SwitchPeerStep
<1>6. ASSUME NEW t \in Tasks, CyclePeer(t) PROVE TuiInv' /\ st.afterId <= st'.afterId
  BY <1>6, CyclePeerStep
<1>7. ASSUME NEW t \in Tasks, ReloadHistory(t) PROVE TuiInv' /\ st.afterId <= st'.afterId
  BY <1>7, ReloadHistoryStep
<1>8. ASSUME NEW t \in Tasks, SyncCommand(t) PROVE TuiInv' /\ st.afterId <= st'.afterId
  BY <1>8, SyncCommandStep
<1>9. ASSUME NEW p \in Peers, SendMsg(p) PROVE TuiInv' /\ st.afterId <= st'.afterId
  BY <1>9, SendMsgStep
<1>10. ASSUME NEW p \in Peers, PeerWrites(p) PROVE TuiInv' /\ st.afterId <= st'.afterId
  BY <1>10, PeerWritesStep
<1>11. CASE Connect
  BY <1>11, ConnectStep
<1>12. CASE Disconnect
  BY <1>12, DisconnectStep
<1>13. CASE HandleMsg
  BY <1>13, HandleMsgStep
<1>14. CASE HandleAck \/ HandleError
  BY <1>14, HandleAckStep
<1>15. CASE Restart
  BY <1>15, RestartStep
<1>16. ASSUME NEW f \in owed, Push(f) PROVE TuiInv' /\ st.afterId <= st'.afterId
  BY <1>16, PushStep
<1>17. CASE ServerTakes
  BY <1>17, ServerTakesStep
<1>18. ASSUME NEW id \in sending, SendFails(id) PROVE TuiInv' /\ st.afterId <= st'.afterId
  BY <1>18, SendFailsStep
<1>19. CASE UNCHANGED vars
  <2>1. Shapes
    BY DEF TuiInv
  <2>2. UNCHANGED <<st, disk, task, connected, frames, sending, outbox, rows, owed, written, shown>>
    BY <1>19 DEF vars
  <2>. QED
    BY <2>1, <2>2, QuietStep, SameRows DEF Shapes, NoAnswer
<1>. QED
  BY <1>1, <1>2, <1>3, <1>4, <1>5, <1>6, <1>7, <1>8, <1>9, <1>10, <1>11, <1>12, <1>13,
     <1>14, <1>15, <1>16, <1>17, <1>18, <1>19 DEF Next

\* Whatever calls, frames, commands, lost connections and restarts come in which
\* order, the inductive invariant holds.
THEOREM TuiSound == Spec => []TuiInv
<1>1. TuiInv /\ [Next]_vars => TuiInv'
  BY TuiStep
<1>. QED
  BY <1>1, InitTui, PTL DEF Spec

\* What the invariant says of the types, in the terms of TypeOK.
LEMMA TypeFollows == TuiInv => TypeOK
<1>. SUFFICES ASSUME TuiInv PROVE TypeOK
  OBVIOUS
<1>1. Shapes /\ Sound(st)
  BY DEF TuiInv, Shapes
<1>2. Ours \subseteq Row
  BY PeerOfOurs
<1>3. \A q \in Seq(Ours) : q \in Seq(Row)
  <2>. TAKE q \in Seq(Ours)
  <2>1. q \in [1 .. Len(q) -> Ours] /\ Len(q) \in Nat
    BY LenProperties
  <2>2. q \in [1 .. Len(q) -> Row]
    BY <1>2, <2>1
  <2>. QED
    BY <2>1, <2>2, IsASeq
<1>4. OurFrame \subseteq Frame
  BY <1>2 DEF OurFrame, Frame
<1>5. frames \in Seq(Frame)
  <2>1. frames \in [1 .. Len(frames) -> OurFrame] /\ Len(frames) \in Nat
    BY <1>1, LenProperties DEF Shapes
  <2>2. frames \in [1 .. Len(frames) -> Frame]
    BY <1>4, <2>1
  <2>. QED
    BY <2>1, <2>2, IsASeq
<1>6. OurCall \subseteq Call
  BY <1>3 DEF OurCall, Call
<1>7. st \in State /\ Bounded(st)
  BY <1>1 DEF Sound
<1>8. DOMAIN st = DOMAIN NewState
  BY <1>7 DEF State, NewState
<1>9. DOMAIN st.index \subseteq MsgId
      /\ \A id \in DOMAIN st.index : st.index[id] \in [peer : Peers, pos : 1 .. MaxBuffer]
  BY <1>7 DEF State, Index, Entry
<1>10. st.buffers \in [Peers -> Seq(ChatMsg)] /\ Persisted(st) \in Config
  BY <1>1, <1>7, StateFields DEF State
<1>11. task \in [Tasks -> Call]
  BY <1>1, <1>6 DEF Shapes
<1>. QED
  BY <1>1, <1>3, <1>4, <1>5, <1>7, <1>8, <1>9, <1>10, <1>11 DEF TypeOK, Shapes, Bounded

\* Every variable of the client keeps its type, and no buffer outgrows
\* MAX_BUFFER_PER_PEER.
THEOREM TuiTypes == Spec => []TypeOK
BY TuiSound, TypeFollows, PTL

\* The buffers and the index they are de-duplicated by go together: no message
\* is on the screen twice, and none that is there counts as new.
THEOREM NeverShownTwice == Spec => []DedupSound
<1>1. TuiInv => DedupSound
  BY DEF TuiInv, Shapes, Sound, DedupSound
<1>. QED
  BY <1>1, TuiSound, PTL

\* The unguarded buf[idx] of buffer_append raises no IndexError, stale as the
\* positions in the index are once a buffer has dropped messages.
THEOREM IndexStaysInside == Spec => []NoIndexError
<1>1. TuiInv => NoIndexError
  BY DEF TuiInv, Shapes, Sound, NoIndexError
<1>. QED
  BY <1>1, TuiSound, PTL

\* Sync leaves out no message to the client up to its watermark, with two calls
\* under way at once, answers that fail or come late, and restarts in between.
THEOREM SyncSkipsNothing == Spec => []NothingSkipped
<1>1. TuiInv => NothingSkipped
  BY DEF TuiInv, Pulled
<1>. QED
  BY <1>1, TuiSound, PTL

\* The config file has the watermark of the running client, so that a kill
\* loses nothing of it.
THEOREM WatermarkOnDisk == Spec => []WatermarkDurable
<1>1. TuiInv => WatermarkDurable
  BY DEF TuiInv
<1>. QED
  BY <1>1, TuiSound, PTL

\* The peer on the screen never shows unread messages, now or after a restart.
THEOREM ScreenIsRead == Spec => []CurrentIsRead
<1>1. TuiInv => CurrentIsRead
  BY DEF TuiInv
<1>. QED
  BY <1>1, TuiSound, PTL

\* No step takes the watermark back: not the late answer of an earlier call, and
\* not a restart.
THEOREM WatermarkAdvances == Spec => WatermarkForward
<1>1. TuiInv /\ [Next]_vars => [st'.afterId >= st.afterId]_vars
  <2>. SUFFICES ASSUME TuiInv, [Next]_vars PROVE st'.afterId >= st.afterId
    OBVIOUS
  <2>1. st.afterId <= st'.afterId /\ TuiInv'
    BY TuiStep
  <2>2. st.afterId \in Nat /\ st'.afterId \in Nat
    BY <2>1, StateFields DEF TuiInv, Shapes
  <2>. QED
    BY <2>1, <2>2
<1>. QED
  BY <1>1, TuiSound, PTL DEF WatermarkForward, Spec

----------------------------------------------------------------------------
(* Pages of the history. *)

\* A list of the members below the first entry of page, and then page, which
\* has the others.
LEMMA ListsOn ==
    ASSUME NEW S, S \subseteq Nat, NEW old \in Seq(Nat), NEW page \in Seq(Nat), page # <<>>,
           Lists(old, {x \in S : x < page[1]}),
           Lists(page, {x \in S : page[1] <= x})
    PROVE  old \o page \in Seq(Nat) /\ Lists(old \o page, S)
<1>. DEFINE n == Len(old)
            l == Len(page)
            u == old \o page
<1>1. n \in Nat /\ l \in Nat /\ DOMAIN old = 1 .. n /\ DOMAIN page = 1 .. l
  BY LenProperties
<1>2. 1 \in 1 .. l /\ page[1] \in Nat
  BY <1>1, EmptySeq, ElementOfSeq
<1>3. /\ u \in Seq(Nat) /\ DOMAIN u = 1 .. n + l
      /\ \A i \in 1 .. n + l : u[i] = IF i <= n THEN old[i] ELSE page[i - n]
  BY ConcatProperties, LenProperties
<1>. HIDE DEF n, l, u
<1>4. \A i \in 1 .. n : i \in 1 .. n + l /\ i <= n
  BY <1>1
<1>5. \A i \in 1 .. n : u[i] = old[i] /\ old[i] \in S /\ old[i] < page[1]
  BY <1>1, <1>3, <1>4 DEF Lists
<1>6. \A i \in 1 .. l : i + n \in 1 .. n + l /\ ~(i + n <= n) /\ (i + n) - n = i
  BY <1>1
<1>7. \A i \in 1 .. l : u[i + n] = page[i] /\ page[i] \in S /\ page[1] <= page[i]
  BY <1>1, <1>3, <1>6 DEF Lists
<1>8. ASSUME NEW i \in 1 .. n + l
      PROVE  \/ i \in 1 .. n
             \/ ~(i <= n) /\ i - n \in 1 .. l /\ (i - n) + n = i
  BY <1>1
<1>9. \A i \in DOMAIN u : u[i] \in S
  <2>. SUFFICES ASSUME NEW i \in 1 .. n + l PROVE u[i] \in S
    BY <1>3
  <2>1. CASE i \in 1 .. n
    BY <1>5, <2>1
  <2>2. CASE i - n \in 1 .. l /\ (i - n) + n = i
    BY <1>7, <2>2
  <2>. QED
    BY <1>8, <2>1, <2>2
<1>10. \A i, j \in DOMAIN u : i < j => u[i] < u[j]
  <2>. SUFFICES ASSUME NEW i \in 1 .. n + l, NEW j \in 1 .. n + l, i < j
                PROVE  u[i] < u[j]
    BY <1>3
  <2>1. CASE j \in 1 .. n
    <3>1. i \in 1 .. n
      BY <1>1, <2>1
    <3>2. old[i] < old[j]
      BY <1>1, <2>1, <3>1 DEF Lists
    <3>. QED
      BY <1>5, <2>1, <3>1, <3>2
  <2>2. CASE i \in 1 .. n /\ ~(j <= n) /\ j - n \in 1 .. l /\ (j - n) + n = j
    <3>1. u[i] < page[1] /\ page[1] <= u[j] /\ u[i] \in S /\ u[j] \in S
      BY <1>5, <1>7, <2>2
    <3>2. u[i] \in Nat /\ u[j] \in Nat
      BY <3>1
    <3>. QED
      BY <1>2, <3>1, <3>2
  <2>3. CASE ~(i <= n)
    <3>1. /\ i - n \in 1 .. l /\ (i - n) + n = i
          /\ j - n \in 1 .. l /\ (j - n) + n = j /\ i - n < j - n
      BY <1>1, <2>3
    <3>2. page[i - n] < page[j - n]
      BY <1>1, <3>1 DEF Lists
    <3>. QED
      BY <1>7, <3>1, <3>2
  <2>. QED
    BY <1>8, <2>1, <2>2, <2>3
<1>11. ASSUME NEW x \in S PROVE \E i \in DOMAIN u : u[i] = x
  <2>0. x \in Nat
    OBVIOUS
  <2>1. CASE x < page[1]
    <3>1. PICK i \in 1 .. n : old[i] = x
      BY <1>1, <2>1 DEF Lists
    <3>. QED
      BY <1>3, <1>4, <1>5, <3>1
  <2>2. CASE page[1] <= x
    <3>1. PICK i \in 1 .. l : page[i] = x
      BY <1>1, <2>2 DEF Lists
    <3>. QED
      BY <1>3, <1>6, <1>7, <3>1
  <2>. QED
    BY <1>2, <2>0, <2>1, <2>2
<1>12. Lists(u, S)
  BY <1>9, <1>10, <1>11 DEF Lists
<1>. QED
  BY <1>3, <1>12 DEF u

\* A page before a row: the last of the rows before it, or none if there is none.
LEMMA PageLists ==
    ASSUME rows \in Seq(Ours), NEW p, NEW before \in 0 .. Len(rows)
    PROVE  LET page == Page(p, before, HistoryLimit)
               all  == Between(p, before)
           IN  \/ page = <<>> /\ all = {}
               \/ /\ page # <<>> /\ page \in Seq(Nat)
                  /\ page[1] \in all
                  /\ Lists(page, {x \in all : page[1] <= x})
<1>. DEFINE page == Page(p, before, HistoryLimit)
            all  == Between(p, before)
            card == Cardinality(all)
            size == Min({HistoryLimit, card})
<1>1. Len(rows) \in Nat /\ DOMAIN rows = 1 .. Len(rows)
  BY LenProperties
<1>2. all \in SUBSET (1 .. Len(rows))
  BY <1>1 DEF Between
<1>3. page = [r \in 1 .. size |-> Nth(all, card - size + r)]
  BY DEF Page
<1>. HIDE DEF all, page
<1>4. /\ card \in Nat
      /\ \A r \in 1 .. card : Nth(all, r) \in all
      /\ \A q, r \in 1 .. card : q < r => Nth(all, q) < Nth(all, r)
      /\ \A x \in all : \E r \in 1 .. card : Nth(all, r) = x
  BY <1>1, <1>2, PlacesOf
<1>. HIDE DEF card
<1>5. size \in {HistoryLimit, card} /\ size \in 0 .. card /\ HistoryLimit \in Nat \ {0}
  BY <1>4, MinOfTwo, TuiAssumption
<1>. HIDE DEF size
<1>6. \A x \in all : x \in Nat
  BY <1>1, <1>2
<1>7. CASE size = 0
  <2>1. card = 0
    BY <1>5, <1>7
  <2>2. all = {}
    BY <1>4, <2>1
  <2>3. page \in [1 .. 0 -> Nat] /\ 1 .. 0 = {}
    BY <1>3, <1>7
  <2>4. page = <<>>
    <3>1. page \in Seq(Nat)
      BY <2>3, IsASeq
    <3>2. Len(page) = 0
      BY <2>3, <3>1, LenProperties
    <3>. QED
      BY <3>1, <3>2, EmptySeq
  <2>. QED
    BY <2>2, <2>4 DEF page, all
<1>8. CASE size # 0
  <2>1. /\ size \in Nat /\ 1 \in 1 .. size
        /\ \A r \in 1 .. size : card - size + r \in 1 .. card
    BY <1>4, <1>5, <1>8
  <2>2. \A r \in 1 .. size : page[r] = Nth(all, card - size + r) /\ page[r] \in all
    BY <1>3, <1>4, <2>1
  <2>3. page \in [1 .. size -> Nat] /\ DOMAIN page = 1 .. size
    BY <1>3, <1>6, <2>2
  <2>4. page \in Seq(Nat) /\ page # <<>>
    BY <2>1, <2>3, IsASeq, EmptySeq
  <2>5. \A i, j \in 1 .. size : i < j => page[i] < page[j]
    <3>. SUFFICES ASSUME NEW i \in 1 .. size, NEW j \in 1 .. size, i < j PROVE page[i] < page[j]
      OBVIOUS
    <3>1. /\ card - size + i \in 1 .. card /\ card - size + j \in 1 .. card
          /\ card - size + i < card - size + j
      BY <1>4, <2>1
    <3>. QED
      BY <1>4, <2>2, <3>1
  <2>6. \A i \in 1 .. size : page[1] <= page[i]
    <3>. TAKE i \in 1 .. size
    <3>1. i = 1 \/ 1 < i
      BY <2>1
    <3>2. page[1] \in Nat /\ page[i] \in Nat
      BY <2>1, <2>3
    <3>. QED
      BY <2>1, <2>5, <3>1, <3>2
  <2>7. ASSUME NEW x \in all, page[1] <= x PROVE \E i \in 1 .. size : page[i] = x
    <3>1. PICK r \in 1 .. card : Nth(all, r) = x
      BY <1>4
    <3>2. ~(r < card - size + 1)
      <4>1. page[1] = Nth(all, card - size + 1) /\ card - size + 1 \in 1 .. card
        BY <2>1, <2>2
      <4>2. x \in Nat /\ page[1] \in Nat
        BY <1>6, <2>1, <2>3
      <4>. QED
        BY <1>4, <2>7, <3>1, <4>1, <4>2
    <3>. DEFINE i == r - (card - size)
    <3>3. i \in 1 .. size /\ card - size + i = r
      BY <1>4, <1>5, <3>2
    <3>. HIDE DEF i
    <3>. QED
      BY <2>2, <3>1, <3>3
  <2>8. Lists(page, {x \in all : page[1] <= x})
    BY <2>2, <2>3, <2>5, <2>6, <2>7 DEF Lists
  <2>. QED
    BY <2>1, <2>2, <2>4, <2>8 DEF page, all
<1>. QED
  BY <1>7, <1>8

\* What a reader has who has what g says of each row and reads one page.
Turn(g, p, before) ==
    LET page == Page(p, before, HistoryLimit)
    IN  IF page = <<>> THEN <<>> ELSE g[page[1]] \o page

\* g says what a reader has read who has read all pages before a row.
Turns(g, p) == g = [before \in 0 .. Len(rows) |-> Turn(g, p, before)]

\* A page begins with an earlier row than the one it is asked with.
LEMMA TurnsBack ==
    ASSUME rows \in Seq(Ours), NEW p, NEW before \in 0 .. Len(rows),
           NEW g, NEW h,
           \A x \in 1 .. Len(rows) : (before > 0 => x < before) => g[x] = h[x]
    PROVE  Turn(g, p, before) = Turn(h, p, before)
<1>. DEFINE page == Page(p, before, HistoryLimit)
<1>1. page = <<>> \/ page[1] \in Between(p, before)
  BY PageLists
<1>2. \A x \in Between(p, before) : x \in 1 .. Len(rows) /\ (before > 0 => x < before)
  BY LenProperties DEF Between
<1>3. CASE page = <<>>
  BY <1>3 DEF Turn
<1>4. CASE page # <<>>
  <2>1. g[page[1]] = h[page[1]]
    BY <1>1, <1>2, <1>4
  <2>. QED
    BY <1>4, <2>1 DEF Turn
<1>. QED
  BY <1>3, <1>4

\* The recursive function of PagesCover exists.
LEMMA TurnsExist ==
    ASSUME rows \in Seq(Ours), NEW p
    PROVE  \E g : Turns(g, p)
<1>. DEFINE n == Len(rows)
            Upto(h, k) == h = [x \in 1 .. k |-> Turn(h, p, x)]
            K == {k \in 0 .. n : \E h : Upto(h, k)}
<1>1. n \in Nat
  BY LenProperties
<1>2. 0 \in K
  <2>. DEFINE h == [x \in {} |-> <<>>]
  <2>1. Upto(h, 0)
    <3>1. 1 .. 0 = {}
      OBVIOUS
    <3>. QED
      BY <3>1
  <2>. HIDE DEF h, Upto
  <2>2. \E f : Upto(f, 0)
    BY <2>1
  <2>3. 0 \in 0 .. n
    BY <1>1
  <2>. QED
    BY <2>2, <2>3
<1>3. ASSUME NEW k \in 1 .. n, k - 1 \in K PROVE k \in K
  <2>1. PICK f : Upto(f, k - 1)
    BY <1>3
  <2>. DEFINE h == [x \in 1 .. k |-> IF x = k THEN Turn(f, p, k) ELSE f[x]]
  <2>2. \A x \in 1 .. k - 1 : h[x] = f[x] /\ f[x] = Turn(f, p, x)
    <3>1. \A x \in 1 .. k - 1 : x \in 1 .. k /\ x # k
      OBVIOUS
    <3>2. \A x \in 1 .. k - 1 : f[x] = Turn(f, p, x)
      BY <2>1
    <3>. QED
      BY <3>1, <3>2
  <2>3. DOMAIN h = 1 .. k /\ h = [x \in 1 .. k |-> h[x]] /\ h[k] = Turn(f, p, k)
    BY <1>1
  <2>. HIDE DEF h
  <2>4. ASSUME NEW x \in 1 .. k PROVE h[x] = Turn(h, p, x)
    <3>1. \A y \in 1 .. n : (x > 0 => y < x) => f[y] = h[y]
      <4>. SUFFICES ASSUME NEW y \in 1 .. n, x > 0 => y < x PROVE f[y] = h[y]
        OBVIOUS
      <4>1. y \in 1 .. k - 1
        BY <1>1
      <4>. QED
        BY <2>2, <4>1
    <3>2. x \in 0 .. n
      BY <1>1
    <3>3. Turn(f, p, x) = Turn(h, p, x)
      BY <3>1, <3>2, TurnsBack
    <3>4. x = k \/ x \in 1 .. k - 1
      BY <1>1
    <3>. QED
      BY <2>2, <2>3, <3>3, <3>4
  <2>5. Upto(h, k)
    BY <2>3, <2>4
  <2>6. k \in 0 .. n
    BY <1>1
  <2>. QED
    BY <2>5, <2>6
<1>4. n \in K
  <2>. HIDE DEF K
  <2>. QED
    BY <1>1, <1>2, <1>3, Climb
<1>5. PICK f : Upto(f, n)
  BY <1>4
<1>. DEFINE g == [x \in 0 .. n |-> IF x = 0 THEN Turn(f, p, 0) ELSE f[x]]
<1>6. \A x \in 1 .. n : g[x] = f[x] /\ f[x] = Turn(f, p, x)
  <2>1. \A x \in 1 .. n : x \in 0 .. n /\ x # 0
    OBVIOUS
  <2>2. \A x \in 1 .. n : f[x] = Turn(f, p, x)
    BY <1>5
  <2>. QED
    BY <2>1, <2>2
<1>7. g = [x \in 0 .. n |-> g[x]] /\ g[0] = Turn(f, p, 0)
  BY <1>1
<1>. HIDE DEF g
<1>8. ASSUME NEW x \in 0 .. n PROVE g[x] = Turn(g, p, x)
  <2>1. Turn(f, p, x) = Turn(g, p, x)
    BY <1>6, TurnsBack
  <2>2. x = 0 \/ x \in 1 .. n
    BY <1>1
  <2>. QED
    BY <1>6, <1>7, <2>1, <2>2
<1>. QED
  BY <1>7, <1>8 DEF Turns

\* Who has turned all pages has read everything, in order.
LEMMA TurnsCover ==
    ASSUME rows \in Seq(Ours), NEW p, NEW g, Turns(g, p)
    PROVE  Lists(g[0], Between(p, 0))
<1>. DEFINE n == Len(rows)
            Read(x) == g[x] \in Seq(Nat) /\ Lists(g[x], Between(p, x))
            K == {k \in 0 .. n : \A x \in 1 .. k : Read(x)}
<1>1. n \in Nat /\ DOMAIN rows = 1 .. n
  BY LenProperties
<1>2. ASSUME NEW x \in 0 .. n,
             \A y \in 1 .. n : (x > 0 => y < x) => Read(y)
      PROVE  Read(x)
  <2>. DEFINE page == Page(p, x, HistoryLimit)
              all  == Between(p, x)
  <2>1. g[x] = IF page = <<>> THEN <<>> ELSE g[page[1]] \o page
    BY DEF Turns, Turn
  <2>2. \/ page = <<>> /\ all = {}
        \/ /\ page # <<>> /\ page \in Seq(Nat)
           /\ page[1] \in all
           /\ Lists(page, {y \in all : page[1] <= y})
    BY PageLists
  <2>3. \A y \in all : y \in 1 .. n /\ (x > 0 => y < x)
    BY <1>1 DEF Between
  <2>. HIDE DEF page
  <2>4. CASE page = <<>>
    <3>1. g[x] = <<>> /\ all = {}
      BY <2>1, <2>2, <2>4
    <3>2. DOMAIN <<>> = {} /\ <<>> \in Seq(Nat)
      BY EmptySeq
    <3>3. Lists(<<>>, {})
      BY <3>2 DEF Lists
    <3>. QED
      BY <3>1, <3>2, <3>3
  <2>5. CASE page # <<>>
    <3>1. /\ page \in Seq(Nat) /\ page[1] \in all
          /\ Lists(page, {y \in all : page[1] <= y})
      BY <2>2, <2>5
    <3>2. page[1] \in 1 .. n /\ (x > 0 => page[1] < x)
      BY <2>3, <3>1
    <3>3. Read(page[1])
      BY <1>2, <3>2
    <3>4. Between(p, page[1]) = {y \in all : y < page[1]}
      <4>1. page[1] \in Nat /\ page[1] > 0 /\ DOMAIN rows \subseteq Nat
        BY <1>1, <3>2
      <4>2. \A y \in DOMAIN rows : y < page[1] => (x > 0 => y < x)
        BY <1>1, <3>2, <4>1
      <4>. QED
        BY <4>1, <4>2 DEF Between
    <3>5. all \subseteq Nat
      BY <2>3
    <3>6. g[x] = g[page[1]] \o page
      BY <2>1, <2>5
    <3>. DEFINE old == g[page[1]]
    <3>7. old \in Seq(Nat) /\ Lists(old, {y \in all : y < page[1]})
      BY <3>3, <3>4
    <3>. HIDE DEF old, all
    <3>8. old \o page \in Seq(Nat) /\ Lists(old \o page, all)
      BY <2>5, <3>1, <3>5, <3>7, ListsOn
    <3>. QED
      BY <3>6, <3>8 DEF old, all
  <2>. QED
    BY <2>4, <2>5
<1>. HIDE DEF Read
<1>3. 0 \in K
  <2>1. 1 .. 0 = {}
    OBVIOUS
  <2>2. 0 \in 0 .. n
    BY <1>1
  <2>3. \A x \in 1 .. 0 : Read(x)
    BY <2>1, Zenon
  <2>. QED
    BY <2>2, <2>3
<1>4. ASSUME NEW k \in 1 .. n, k - 1 \in K PROVE k \in K
  <2>1. k \in 0 .. n /\ k > 0 /\ \A x \in 1 .. k - 1 : Read(x)
    BY <1>1, <1>4
  <2>2. \A y \in 1 .. n : (k > 0 => y < k) => Read(y)
    <3>1. \A y \in 1 .. n : y < k => y \in 1 .. k - 1
      BY <1>1
    <3>. QED
      BY <2>1, <3>1
  <2>3. Read(k)
    BY <1>2, <2>1, <2>2
  <2>4. \A x \in 1 .. k : x = k \/ x \in 1 .. k - 1
    BY <1>1
  <2>. QED
    BY <2>1, <2>3, <2>4
<1>5. n \in K
  <2>. HIDE DEF K
  <2>. QED
    BY <1>1, <1>3, <1>4, Climb
<1>6. Read(0)
  <2>1. \A y \in 1 .. n : Read(y)
    BY <1>5
  <2>2. 0 \in 0 .. n
    BY <1>1
  <2>. QED
    BY <1>2, <2>1, <2>2
<1>. QED
  BY <1>6 DEF Read

\* A reader who asks the server for page after page, each before the first row
\* of the one before, sees every row of the conversation once and in order,
\* whatever the page size, wherever the seams are, and in every table.
THEOREM HistoryIsCovered == Spec => []PagesCover
<1>1. TuiInv => PagesCover
  <2>. SUFFICES ASSUME TuiInv, NEW p \in Peers
                PROVE  LET Back[before \in 0 .. Len(rows)] ==
                             LET page == Page(p, before, HistoryLimit)
                             IN  IF page = <<>> THEN <<>> ELSE Back[page[1]] \o page
                       IN  Lists(Back[0], {i \in DOMAIN rows : PeerOf(rows[i]) = p})
    BY DEF PagesCover
  <2>1. rows \in Seq(Ours)
    BY DEF TuiInv, Shapes
  <2>. DEFINE back == CHOOSE g : Turns(g, p)
  <2>2. Turns(back, p)
    BY <2>1, TurnsExist
  <2>3. Between(p, 0) = {i \in DOMAIN rows : PeerOf(rows[i]) = p}
    BY DEF Between
  <2>4. Lists(back[0], {i \in DOMAIN rows : PeerOf(rows[i]) = p})
    <3>. HIDE DEF back
    <3>. QED
      BY <2>1, <2>2, <2>3, TurnsCover
  <2>. QED
    BY <2>4 DEF Turns, Turn
<1>. QED
  BY <1>1, TuiSound, PTL

----------------------------------------------------------------------------
(* Where no buffer overflows: acks reach their messages, and are true. *)

\* What the server may tell of, when W are the messages written: what is in its
\* table, or has an id that was taken.
Told(W) == Range(rows) \cup {r \in W : r.id \in Taken}

\* An error may be about any message.
FramesTold(W) ==
    \A f \in Range(frames) \cup owed : f.type = "error" \/ f.row \in Told(W)

\* W are the messages written: with different ids, which count them.  What the
\* server has or will get is one of them, and it tells of what it may.
Written(W) ==
    /\ W \subseteq Ours /\ Unambiguous(W) /\ \A r \in W : r.id <= written
    /\ Range(rows) \subseteq W /\ Range(outbox) \subseteq W
    /\ FramesTold(W)
    /\ \A t \in Tasks : task[t].kind \in {"synced", "loaded"}
                          => Range(task[t].items) \subseteq Range(rows)
    /\ Faithful(st, W, Told(W))

\* The inductive invariant.
StoredInv == \E W \in SUBSET Ours : Written(W)

\* No answer to a call comes in.
NoItems ==
    \A t \in Tasks : task'[t] = task[t] \/ task'[t].kind \notin {"synced", "loaded"}

LEMMA TableGrows ==
    ASSUME Shapes, Grows
    PROVE  Range(rows) \subseteq Range(rows')
<1>1. /\ Len(rows) \in Nat /\ DOMAIN rows = 1 .. Len(rows)
      /\ Len(rows') \in Nat /\ DOMAIN rows' = 1 .. Len(rows')
  BY LenProperties DEF Shapes, Grows
<1>2. \A i \in 1 .. Len(rows) : i \in 1 .. Len(rows') /\ rows'[i] = rows[i]
  BY <1>1 DEF Grows
<1>. QED
  BY <1>1, <1>2 DEF Range

LEMMA ToldGrows ==
    ASSUME Shapes, NEW W, Written(W), Grows
    PROVE  /\ Range(rows) \subseteq Told(W) /\ Told(W) \subseteq W
           /\ Told(W) \subseteq Told(W)'
BY TableGrows DEF Told, Written

\* A step in which nothing is written and no answer comes in.
LEMMA WrittenStays ==
    ASSUME Shapes, NEW W, Written(W), Grows, NoItems, UNCHANGED written,
           Range(rows') \subseteq W, Range(outbox') \subseteq W,
           FramesTold(W)',
           Faithful(st', W, Told(W)')
    PROVE  Written(W)'
<1>1. Range(rows) \subseteq Range(rows')
  BY TableGrows
<1>2. ASSUME NEW t \in Tasks, task'[t].kind \in {"synced", "loaded"}
      PROVE  Range(task'[t].items) \subseteq Range(rows')
  <2>1. task'[t] = task[t]
    BY <1>2 DEF NoItems
  <2>2. Range(task[t].items) \subseteq Range(rows)
    BY <1>2, <2>1 DEF Written
  <2>. QED
    BY <1>1, <2>1, <2>2
<1>3. W \subseteq Ours /\ Unambiguous(W) /\ \A r \in W : r.id <= written'
  BY DEF Written
<1>. QED
  BY <1>2, <1>3 DEF Written

\* A state that is faithful stays so while the table grows.
LEMMA FaithfulStays ==
    ASSUME Shapes, Shapes', NEW W, Written(W), Grows,
           st'.buffers = st.buffers, st'.index = st.index
    PROVE  Faithful(st', W, Told(W)')
<1>1. Told(W) \subseteq Told(W)' /\ Faithful(st, W, Told(W)) /\ Sound(st')
  BY ToldGrows DEF Written, Shapes
<1>. DEFINE R == Told(W)
            Q == Told(W)'
<1>. HIDE DEF R, Q
<1>2. R \subseteq Q /\ Faithful(st, W, R)
  BY <1>1 DEF R, Q
<1>3. W \subseteq W
  OBVIOUS
<1>4. Faithful(st', W, Q)
  BY <1>1, <1>2, <1>3, FaithfulSame
<1>. QED
  BY <1>4 DEF Q

\* A step that leaves table, streams and buffers alone.
LEMMA WrittenSame ==
    ASSUME Shapes, Shapes', NEW W, Written(W), NoItems,
           UNCHANGED <<frames, outbox, rows, owed, written>>,
           st'.buffers = st.buffers, st'.index = st.index
    PROVE  Written(W)'
<1>1. Grows
  BY SameRows DEF Shapes
<1>2. Faithful(st', W, Told(W)')
  BY <1>1, FaithfulStays
<1>3. /\ Range(rows') \subseteq W /\ Range(outbox') \subseteq W
      /\ FramesTold(W)'
  BY DEF Written, FramesTold, Told
<1>. QED
  BY <1>1, <1>2, <1>3, WrittenStays

\* The server takes some messages of the outbox, the rest is lost.
LEMMA LostStored ==
    ASSUME Shapes, NEW W, Written(W), LoseConnection
    PROVE  /\ Grows /\ Range(rows') \subseteq W /\ Range(outbox') \subseteq W
           /\ FramesTold(W)'
<1>1. Grows /\ Range(rows') \subseteq Range(rows) \cup Range(outbox)
  BY LostConnection
<1>2. Range(rows') \subseteq W
  BY <1>1 DEF Written
<1>3. frames' = <<>> /\ outbox' = <<>> /\ owed' \subseteq owed
  BY DEF LoseConnection
<1>4. Range(frames') = {} /\ Range(outbox') = {}
  BY <1>3 DEF Range
<1>5. FramesTold(W)'
  BY <1>1, <1>3, <1>4, ToldGrows DEF Written, FramesTold
<1>. QED
  BY <1>1, <1>2, <1>4, <1>5

\* The server answers a call with rows of its table.
LEMMA AnswerWritten ==
    ASSUME TuiInv, NEW W, Written(W), NEW t \in Tasks, Answer(t)
    PROVE  Written(W)'
<1>. DEFINE call == task[t]
<1>1. /\ Shapes /\ call \in OurCall /\ CallSound(call) /\ rows \in Seq(Ours)
      /\ st.afterId <= Len(rows) /\ st.afterId \in Nat /\ Len(rows) \in Nat
  BY StateFields, LenProperties DEF TuiInv, Shapes, Pulled
<1>2. UNCHANGED <<st, frames, outbox, rows, owed, written>>
  BY DEF Answer
<1>3. PICK answer : task' = [task EXCEPT ![t] = answer]
                    /\ Range(answer.items) \subseteq Range(rows)
  <2>1. CASE call.kind = "history" /\ task' = [task EXCEPT ![t] =
                  HistoryAnswer(call.peer, Conversation(call.peer, call.limit))]
    <3>. DEFINE items == Conversation(call.peer, call.limit)
    <3>1. call.limit \in Nat
      BY <1>1, <2>1, CallFields
    <3>2. Range(items) \subseteq Range(rows)
      BY <1>1, <3>1, ConversationType
    <3>3. HistoryAnswer(call.peer, items).items = items
      BY DEF HistoryAnswer
    <3>. QED
      BY <2>1, <3>2, <3>3
  <2>2. CASE call.kind = "sync" /\ task' = [task EXCEPT ![t] =
                  SyncAnswer(Inbox(call.after, SyncLimit))]
    <3>. DEFINE inbox == Inbox(call.after, SyncLimit)
    <3>1. call.after \in Nat /\ call.after <= Len(rows)
      <4>1. call.after \in Nat /\ call.after <= st.afterId
        BY <1>1, <2>2, CallFields DEF CallSound
      <4>. QED
        BY <1>1, <4>1
    <3>2. Range(inbox.items) \subseteq Range(rows)
      BY <1>1, <3>1, InboxSound
    <3>3. SyncAnswer(inbox).items = inbox.items
      BY DEF SyncAnswer
    <3>. QED
      BY <2>2, <3>2, <3>3
  <2>. QED
    BY <2>1, <2>2 DEF Answer
<1>4. ASSUME NEW u \in Tasks, task'[u].kind \in {"synced", "loaded"}
      PROVE  Range(task'[u].items) \subseteq Range(rows')
  <2>1. CASE u = t
    BY <1>1, <1>2, <1>3, <2>1 DEF Shapes
  <2>2. CASE u # t
    <3>1. task'[u] = task[u]
      BY <1>1, <1>3, <2>2 DEF Shapes
    <3>. QED
      BY <1>2, <1>4, <3>1 DEF Written
  <2>. QED
    BY <2>1, <2>2
<1>. QED
  BY <1>2, <1>4 DEF Written, FramesTold, Told

LEMMA CallFailsWritten ==
    ASSUME TuiInv, TuiInv', NEW W, Written(W), NEW t \in Tasks, CallFails(t)
    PROVE  Written(W)'
<1>1. Shapes /\ Shapes'
  BY DEF TuiInv
<1>2. UNCHANGED <<st, written>> /\ task' = [task EXCEPT ![t] = Idle]
  BY DEF CallFails
<1>3. NoItems
  BY <1>1, <1>2, TaskSet, IdleIsCall DEF NoItems
<1>4. CASE UNCHANGED <<connected, frames, outbox, rows, owed>>
  BY <1>1, <1>2, <1>3, <1>4, WrittenSame
<1>5. CASE LoseConnection
  <2>1. /\ Grows /\ Range(rows') \subseteq W /\ Range(outbox') \subseteq W
        /\ FramesTold(W)'
    BY <1>1, <1>5, LostStored
  <2>2. Faithful(st', W, Told(W)')
    BY <1>1, <1>2, <2>1, FaithfulStays
  <2>. QED
    BY <1>1, <1>2, <1>3, <2>1, <2>2, WrittenStays
<1>. QED
  BY <1>4, <1>5 DEF CallFails

LEMMA DisconnectWritten ==
    ASSUME TuiInv, TuiInv', NEW W, Written(W), Disconnect
    PROVE  Written(W)'
<1>1. Shapes /\ Shapes' /\ UNCHANGED <<st, task, written>>
  BY DEF TuiInv, Disconnect
<1>2. /\ Grows /\ Range(rows') \subseteq W /\ Range(outbox') \subseteq W
      /\ FramesTold(W)'
  BY <1>1, LostStored DEF Disconnect
<1>3. Faithful(st', W, Told(W)')
  BY <1>1, <1>2, FaithfulStays
<1>4. NoItems
  BY <1>1 DEF NoItems
<1>. QED
  BY <1>1, <1>2, <1>3, <1>4, WrittenStays

LEMMA RestartWritten ==
    ASSUME TuiInv, TuiInv', NEW W, Written(W), Restart
    PROVE  Written(W)'
<1>1. Shapes /\ Shapes' /\ UNCHANGED written
  BY DEF TuiInv, Restart
<1>2. /\ Grows /\ Range(rows') \subseteq W /\ Range(outbox') \subseteq W
      /\ FramesTold(W)'
  BY <1>1, LostStored DEF Restart
<1>3. st'.buffers = [p \in Peers |-> <<>>]
  BY DEF Restart, Loaded, NewState
<1>4. Faithful(st', W, Told(W)')
  BY <1>1, <1>3, EmptyFaithful DEF Shapes
<1>5. NoItems
  BY IdleIsCall DEF NoItems, Restart
<1>. QED
  BY <1>1, <1>2, <1>4, <1>5, WrittenStays

\* A step that changes the state of the client, but nothing of the server.
LEMMA WrittenApplied ==
    ASSUME Shapes, NEW W, Written(W), NoItems, UNCHANGED <<outbox, rows, owed, written>>,
           Range(frames') \subseteq Range(frames), Faithful(st', W, Told(W))
    PROVE  Written(W)'
<1>1. Grows
  BY SameRows DEF Shapes
<1>2. /\ Range(rows') \subseteq W /\ Range(outbox') \subseteq W
      /\ FramesTold(W)'
  BY DEF Written, FramesTold, Told
<1>3. Faithful(st', W, Told(W)')
  BY DEF Told
<1>. QED
  BY <1>1, <1>2, <1>3, WrittenStays

LEMMA ApplySyncWritten ==
    ASSUME MaxMsgs <= MaxBuffer, TuiInv, TuiInv', NEW W, Written(W),
           NEW t \in Tasks, ApplySync(t)
    PROVE  Written(W)'
<1>. DEFINE call == task[t]
            got  == FoldLeft(Receive, st, call.items)
            R    == Told(W)
<1>1. /\ Shapes /\ Sound(st') /\ call \in OurCall /\ call.kind = "synced"
      /\ Faithful(st, W, R) /\ Unambiguous(W) /\ R \subseteq W
      /\ Range(call.items) \subseteq R
  BY DEF TuiInv, Shapes, Written, Told, ApplySync
<1>2. call.items \in Seq(Ours)
  BY <1>1, CallFields
<1>. HIDE DEF R
<1>3. Faithful(got, W, R)
  BY <1>1, <1>2, ReceiveAllFaithful
<1>4. st' = [got EXCEPT !.afterId = Watermark(@, call.next)]
  BY DEF ApplySync
<1>. HIDE DEF got
<1>5. st'.buffers = got.buffers /\ st'.index = got.index
  BY <1>3, <1>4 DEF Faithful, Sound, State
<1>6. Faithful(st', W, R)
  BY <1>1, <1>3, <1>5, FaithfulSame
<1>7. NoItems /\ UNCHANGED <<frames, outbox, rows, owed, written>>
  BY <1>1, TaskSet, IdleIsCall DEF NoItems, ApplySync
<1>. QED
  BY <1>1, <1>6, <1>7, WrittenApplied DEF R

LEMMA ApplyHistoryWritten ==
    ASSUME MaxMsgs <= MaxBuffer, TuiInv, NEW W, Written(W), NEW t \in Tasks, ApplyHistory(t)
    PROVE  Written(W)'
<1>. DEFINE call == task[t]
            R    == Told(W)
<1>1. /\ Shapes /\ call \in OurCall /\ call.kind = "loaded"
      /\ Faithful(st, W, R) /\ Unambiguous(W) /\ R \subseteq W
      /\ Range(call.items) \subseteq R
  BY DEF TuiInv, Shapes, Written, Told, ApplyHistory
<1>2. call.items \in Seq(Ours) /\ call.peer \in Peers
  BY <1>1, CallFields
<1>. HIDE DEF R
<1>3. Faithful(st', W, R)
  BY <1>1, <1>2, ReplaceBufferFaithful DEF ApplyHistory
<1>4. NoItems /\ UNCHANGED <<frames, outbox, rows, owed, written>>
  BY <1>1, TaskSet, IdleIsCall DEF NoItems, ApplyHistory
<1>. QED
  BY <1>1, <1>3, <1>4, WrittenApplied DEF R

\* Commands that only begin a call.
LEMMA AskWritten ==
    ASSUME TuiInv, TuiInv', NEW W, Written(W), NEW t \in Tasks,
           ReloadHistory(t) \/ SyncCommand(t) \/ Connect
    PROVE  Written(W)'
<1>1. Shapes /\ Shapes' /\ loop \in Tasks
  BY TuiAssumption DEF TuiInv
<1>2. UNCHANGED <<st, frames, outbox, rows, owed, written>>
  BY DEF ReloadHistory, SyncCommand, Connect
<1>3. \E u \in Tasks : \E call : /\ task' = [task EXCEPT ![u] = call]
                                /\ call.kind \in {"sync", "history"}
  <2>1. AskSync.kind = "sync" /\ \A n : AskHistory(st.current, n).kind = "history"
    BY DEF AskSync, AskHistory
  <2>2. CASE ReloadHistory(t)
    BY <2>1, <2>2 DEF ReloadHistory
  <2>3. CASE SyncCommand(t)
    BY <2>1, <2>3 DEF SyncCommand
  <2>4. CASE Connect
    BY <1>1, <2>1, <2>4 DEF Connect
  <2>. QED
    BY <2>2, <2>3, <2>4
<1>4. NoItems
  BY <1>1, <1>3 DEF NoItems, Shapes
<1>. QED
  BY <1>1, <1>2, <1>4, WrittenSame

LEMMA SwitchPeerWritten ==
    ASSUME TuiInv, NEW W, Written(W), NEW t \in Tasks, NEW p \in Peers, SwitchPeer(t, p)
    PROVE  Written(W)'
<1>1. Shapes /\ Faithful(st, W, Told(W))
  BY DEF TuiInv, Written
<1>2. Faithful(st', W, Told(W))
  BY <1>1, OpenedFaithful DEF SwitchPeer
<1>3. UNCHANGED <<frames, outbox, rows, owed, written>>
      /\ task' = [task EXCEPT ![t] = AskHistory(p, HistoryLimit)]
  BY DEF SwitchPeer
<1>4. NoItems
  BY <1>1, <1>3 DEF NoItems, AskHistory, Shapes
<1>. QED
  BY <1>1, <1>2, <1>3, <1>4, WrittenApplied

\* A frame but an error is about what the server may tell of.
LEMMA TakenWritten ==
    ASSUME Shapes, NEW W, Written(W), NEW type, TakeFrame(type)
    PROVE  /\ type # "error" => Head(frames).row \in Told(W)
           /\ Head(frames).row \in Ours
           /\ Range(frames') \subseteq Range(frames) /\ NoItems
           /\ UNCHANGED <<outbox, rows, owed, written>>
<1>1. frames \in Seq(OurFrame) /\ frames # <<>> /\ frames' = Tail(frames)
  BY DEF Shapes, TakeFrame
<1>2. Head(frames) \in Range(frames) /\ Range(frames') \subseteq Range(frames)
  BY <1>1, RangeOfTail
<1>3. type # "error" => Head(frames).row \in Told(W)
  BY <1>2 DEF Written, FramesTold, TakeFrame
<1>. QED
  BY <1>2, <1>3, FrameTaken DEF NoItems, TakeFrame

LEMMA HandleMsgWritten ==
    ASSUME MaxMsgs <= MaxBuffer, TuiInv, TuiInv', NEW W, Written(W), HandleMsg
    PROVE  Written(W)'
<1>. DEFINE row == Head(frames).row
            p   == PeerOf(row)
            got == Receive(st, row)
            R   == Told(W)
<1>1. /\ Shapes /\ Sound(st') /\ Faithful(st, W, R) /\ Unambiguous(W) /\ R \subseteq W
  BY DEF TuiInv, Shapes, Written, Told
<1>2. /\ row \in R /\ row \in Ours /\ Range(frames') \subseteq Range(frames) /\ NoItems
      /\ UNCHANGED <<outbox, rows, owed, written>>
  BY <1>1, TakenWritten DEF HandleMsg
<1>3. st' \in {got, [got EXCEPT !.unread[p] = 0]}
  BY DEF HandleMsg
<1>. HIDE DEF R, row, p
<1>4. Faithful(got, W, R)
  BY <1>1, <1>2, ReceiveFaithful
<1>. HIDE DEF got
<1>5. st'.buffers = got.buffers /\ st'.index = got.index
  BY <1>3, <1>4 DEF Faithful, Sound, State
<1>6. Faithful(st', W, R)
  BY <1>1, <1>4, <1>5, FaithfulSame
<1>. QED
  BY <1>1, <1>2, <1>6, WrittenApplied DEF R

LEMMA HandleAckWritten ==
    ASSUME TuiInv, NEW W, Written(W), HandleAck \/ HandleError
    PROVE  Written(W)'
<1>. DEFINE row == Head(frames).row
<1>1. Shapes /\ Faithful(st, W, Told(W)) /\ Unambiguous(W) /\ Told(W) \subseteq W
  BY DEF TuiInv, Written, Told
<1>2. /\ HandleAck => row \in Told(W)
      /\ Range(frames') \subseteq Range(frames) /\ NoItems
      /\ UNCHANGED <<outbox, rows, owed, written>>
  BY <1>1, TakenWritten DEF HandleAck, HandleError
<1>3. PICK x \in Status : /\ st' = UpdateStatus(st, row.id, x)
                          /\ x \in {"server_received", "delivered"} => HandleAck
  <2>1. HandleError => st' = UpdateStatus(st, row.id, "failed")
    BY DEF HandleError
  <2>2. HandleAck => st' = UpdateStatus(st, row.id, Head(frames).type)
                     /\ Head(frames).type \in {"server_received", "delivered"}
    BY DEF HandleAck, TakeFrame
  <2>. QED
    BY <2>1, <2>2 DEF Status
<1>4. x \in {"server_received", "delivered"} => \A r \in W : r.id = row.id => r \in Told(W)
  BY <1>1, <1>2, <1>3 DEF Unambiguous
<1>. HIDE DEF row
<1>5. Faithful(st', W, Told(W))
  BY <1>1, <1>3, <1>4, UpdateStatusFaithful
<1>. QED
  BY <1>1, <1>2, <1>5, WrittenApplied

\* The call of ws.send has raised: the message is shown as neither received nor
\* delivered, whatever it was before.
LEMMA SendFailsWritten ==
    ASSUME TuiInv, NEW W, Written(W), NEW id \in sending, SendFails(id)
    PROVE  Written(W)'
<1>1. Shapes /\ Faithful(st, W, Told(W))
  BY DEF TuiInv, Written
<1>2. Faithful(st', W, Told(W))
  <2>1. "failed" \in Status /\ "failed" \notin {"server_received", "delivered"}
    BY DEF Status
  <2>. QED
    BY <1>1, <2>1, UpdateStatusFaithful DEF SendFails
<1>3. NoItems /\ UNCHANGED <<frames, outbox, rows, owed, written>>
  BY DEF SendFails, NoItems
<1>. QED
  BY <1>1, <1>2, <1>3, WrittenApplied

\* A new message is told from those written before by its id.
LEMMA OneMore ==
    ASSUME Shapes, NEW W, Written(W), NEW row \in Ours, row.id = written + 1,
           written' = written + 1
    PROVE  /\ W \cup {row} \subseteq Ours /\ Unambiguous(W \cup {row})
           /\ \A r \in W \cup {row} : r.id <= written'
<1>1. written \in Nat
  BY StateAssumption DEF Shapes
<1>2. \A r \in W : r.id \in Nat /\ r.id <= written
  BY PeerOfOurs, StateAssumption DEF Written, Row, MsgId
<1>3. \A r \in W : r.id # row.id /\ r.id <= written'
  BY <1>1, <1>2
<1>4. row.id <= written'
  BY <1>1
<1>. QED
  BY <1>3, <1>4 DEF Written, Unambiguous

LEMMA PeerWritesWritten ==
    ASSUME TuiInv, TuiInv', NEW W, Written(W), NEW p \in Peers, PeerWrites(p)
    PROVE  StoredInv'
<1>1. Shapes /\ Shapes'
  BY DEF TuiInv
<1>2. /\ [id |-> written + 1, from |-> p, to |-> Me] \in Ours
      /\ Send("msg", [id |-> written + 1, from |-> p, to |-> Me]).row
           = [id |-> written + 1, from |-> p, to |-> Me]
  <2>1. written + 1 \in MsgId
    BY <1>1, StateAssumption DEF Shapes, PeerWrites, MsgId
  <2>. QED
    BY <2>1, StateAssumption DEF Ours, Row, Send
<1>3. PICK row \in Ours : row = [id |-> written + 1, from |-> p, to |-> Me]
  BY <1>2
<1>4. /\ row.id = written + 1 /\ written' = written + 1 /\ Store(row)
      /\ owed' = IF row.id \in Taken THEN owed ELSE owed \cup {Send("msg", row)}
      /\ Send("msg", row).row = row
      /\ UNCHANGED <<st, task, frames, outbox>>
  BY <1>2, <1>3 DEF PeerWrites
<1>5. PICK V : V = W \cup {row}
  OBVIOUS
<1>6. V \subseteq Ours /\ Unambiguous(V) /\ \A r \in V : r.id <= written'
  BY <1>1, <1>4, <1>5, OneMore
<1>7. /\ Range(rows) \subseteq Range(rows') /\ Range(rows') \subseteq Range(rows) \cup {row}
      /\ row.id \notin Taken => row \in Range(rows')
  BY <1>1, <1>4, RangeOfAppend DEF Shapes, Store
<1>8. Told(W) \subseteq Told(V)' /\ row \in Told(V)'
  BY <1>5, <1>7 DEF Told
<1>9. Faithful(st', V, Told(V)')
  <2>. DEFINE R == Told(W)
              Q == Told(V)'
  <2>1. R \subseteq Q /\ W \subseteq V /\ Sound(st') /\ Faithful(st, W, R)
    BY <1>1, <1>5, <1>8 DEF Shapes, Written
  <2>. HIDE DEF R, Q
  <2>2. st'.buffers = st.buffers /\ st'.index = st.index
    BY <1>4
  <2>3. Faithful(st', V, Q)
    BY <2>1, <2>2, FaithfulSame
  <2>. QED
    BY <2>3 DEF Q
<1>10. Written(V)'
  <2>1. Range(rows') \subseteq V /\ Range(outbox') \subseteq V
    BY <1>4, <1>5, <1>7 DEF Written
  <2>2. FramesTold(V)'
    BY <1>4, <1>8 DEF Written, FramesTold
  <2>3. \A t \in Tasks : task'[t].kind \in {"synced", "loaded"}
                          => Range(task'[t].items) \subseteq Range(rows')
    BY <1>4, <1>7 DEF Written
  <2>. QED
    BY <1>6, <1>9, <2>1, <2>2, <2>3 DEF Written
<1>. QED
  BY <1>6, <1>10 DEF StoredInv

LEMMA SendMsgWritten ==
    ASSUME MaxMsgs <= MaxBuffer, TuiInv, TuiInv', NEW W, Written(W), NEW p \in Peers, SendMsg(p)
    PROVE  StoredInv'
<1>1. Shapes /\ Shapes' /\ Sound(st) /\ ScreenRead(st)
  BY Before DEF TuiInv
<1>2. [id |-> written + 1, from |-> Me, to |-> p] \in Ours
  <2>1. written + 1 \in MsgId
    BY <1>1, StateAssumption DEF Shapes, SendMsg, MsgId
  <2>. QED
    BY <2>1, StateAssumption DEF Ours, Row
<1>3. PICK row \in Ours : row = [id |-> written + 1, from |-> Me, to |-> p]
  BY <1>2
<1>. DEFINE t    == BufferAppend(st, p, Chat(row, "pending"))
            sent == [t EXCEPT !.unread[p] = 0, !.current = IF @ = NoPeer THEN p ELSE @]
<1>4. /\ row.id = written + 1 /\ written' = written + 1
      /\ st' = sent /\ outbox' \in {outbox, Append(outbox, row)}
      /\ UNCHANGED <<task, frames, rows, owed>>
  BY <1>3 DEF SendMsg
<1>5. PICK V : V = W \cup {row}
  OBVIOUS
<1>6. V \subseteq Ours /\ Unambiguous(V) /\ \A r \in V : r.id <= written'
  BY <1>1, <1>4, <1>5, OneMore
<1>. DEFINE R == Told(V)
<1>. HIDE DEF R
<1>7. Faithful(st, V, R)
  <2>. DEFINE Q == Told(W)
  <2>1. Faithful(st, W, Q) /\ Q \subseteq R /\ W \subseteq V
    BY <1>5 DEF Written, Told, R
  <2>. HIDE DEF Q
  <2>. QED
    BY <1>1, <2>1, FaithfulSame
<1>8. Chat(row, "pending") \in ChatMsg /\ Genuine(Chat(row, "pending"), V, R)
  BY <1>5, PeerOfOurs DEF Chat, ChatMsg, Status, Genuine
<1>9. Faithful(t, V, R)
  BY <1>6, <1>7, <1>8, BufferAppendFaithful
<1>10. Sound(sent)
  BY <1>1, <1>8, SentSound
<1>11. sent.buffers = t.buffers /\ sent.index = t.index
  <2>1. t \in State
    BY <1>9 DEF Faithful, Sound
  <2>. HIDE DEF t
  <2>. QED
    BY <2>1 DEF State
<1>. HIDE DEF t, sent
<1>12. Faithful(sent, V, R)
  BY <1>9, <1>10, <1>11, FaithfulSame
<1>13. Faithful(st', V, Told(V)')
  BY <1>4, <1>12 DEF Told, R
<1>14. Range(outbox') \subseteq V
  <2>1. Range(Append(outbox, row)) = Range(outbox) \cup {row}
    BY <1>1, RangeOfAppend DEF Shapes
  <2>. QED
    BY <1>4, <1>5, <2>1 DEF Written
<1>15. Written(V)'
  <2>1. Range(rows') \subseteq V
    BY <1>4, <1>5 DEF Written
  <2>2. FramesTold(V)'
    BY <1>4, <1>5 DEF Written, FramesTold, Told
  <2>3. \A u \in Tasks : task'[u].kind \in {"synced", "loaded"}
                          => Range(task'[u].items) \subseteq Range(rows')
    BY <1>4 DEF Written
  <2>. QED
    BY <1>6, <1>13, <1>14, <2>1, <2>2, <2>3 DEF Written
<1>. QED
  BY <1>6, <1>15 DEF StoredInv

LEMMA PushWritten ==
    ASSUME TuiInv, TuiInv', NEW W, Written(W), NEW f \in owed, Push(f)
    PROVE  Written(W)'
<1>1. Shapes /\ Shapes' /\ f \in OurFrame
  BY DEF TuiInv, Shapes
<1>2. frames' = Append(frames, f) /\ owed' \subseteq owed
      /\ UNCHANGED <<st, task, outbox, rows, written>>
  BY DEF Push
<1>3. Range(frames') = Range(frames) \cup {f}
  BY <1>1, <1>2, RangeOfAppend DEF Shapes
<1>4. /\ Range(rows') \subseteq W /\ Range(outbox') \subseteq W
      /\ FramesTold(W)'
  BY <1>2, <1>3 DEF Written, FramesTold, Told
<1>5. Grows /\ NoItems
  BY <1>1, <1>2, SameRows DEF Shapes, NoItems
<1>6. Faithful(st', W, Told(W)')
  BY <1>1, <1>2, <1>5, FaithfulStays
<1>. QED
  BY <1>1, <1>2, <1>4, <1>5, <1>6, WrittenStays

LEMMA ServerTakesWritten ==
    ASSUME TuiInv, TuiInv', NEW W, Written(W), ServerTakes
    PROVE  Written(W)'
<1>. DEFINE row == Head(outbox)
<1>1. Shapes /\ Shapes'
  BY DEF TuiInv
<1>2. /\ row \in Ours /\ row \in Range(outbox) /\ Range(outbox') \subseteq Range(outbox)
      /\ \A f \in Range(frames') \cup owed' :
           \/ f \in Range(frames) \cup owed
           \/ f.row = row /\ (f.type = "error" \/ Store(row))
      /\ Range(rows') \subseteq Range(rows) \cup {row}
      /\ Grows /\ UNCHANGED <<st, task, written>>
  BY <1>1, AnswersAre
<1>. HIDE DEF row
<1>3. Store(row) => row \in Told(W)'
  <2>1. row \in W
    BY <1>2 DEF Written
  <2>2. rows' = Append(rows, row) => row \in Range(rows')
    BY <1>1, <1>2, RangeOfAppend DEF Shapes
  <2>. QED
    BY <2>1, <2>2 DEF Store, Told
<1>4. FramesTold(W)'
  BY <1>1, <1>2, <1>3, ToldGrows DEF Written, FramesTold
<1>5. Range(rows') \subseteq W /\ Range(outbox') \subseteq W
  BY <1>2 DEF Written
<1>6. NoItems
  BY <1>2 DEF NoItems
<1>7. Faithful(st', W, Told(W)')
  BY <1>1, <1>2, FaithfulStays
<1>. QED
  BY <1>1, <1>2, <1>4, <1>5, <1>6, <1>7, WrittenStays

LEMMA InitStored == Init => StoredInv
<1>. SUFFICES ASSUME Init PROVE StoredInv
  OBVIOUS
<1>1. Range(rows) = {} /\ Range(outbox) = {} /\ Range(frames) = {} /\ owed = {}
  BY DEF Init, Range
<1>2. \A t \in Tasks : task[t].kind = "idle"
  BY IdleIsCall DEF Init
<1>3. Faithful(st, {}, Told({}))
  <2>1. Sound(st) /\ st.buffers = [p \in Peers |-> <<>>]
    BY NewStateSound DEF Init, NewState
  <2>. QED
    BY <2>1, EmptyFaithful
<1>4. Written({})
  BY <1>1, <1>2, <1>3 DEF Written, FramesTold, Unambiguous
<1>. QED
  BY <1>4 DEF StoredInv

LEMMA StoredStep ==
    ASSUME MaxMsgs <= MaxBuffer, TuiInv, TuiInv', StoredInv, [Next]_vars
    PROVE  StoredInv'
<1>1. PICK W \in SUBSET Ours : Written(W)
  BY DEF StoredInv
<1>2. SUFFICES Written(W)' \/ \E p \in Peers : SendMsg(p) \/ PeerWrites(p)
  <2>1. ASSUME NEW p \in Peers, SendMsg(p) PROVE StoredInv'
    BY <1>1, <2>1, SendMsgWritten
  <2>2. ASSUME NEW p \in Peers, PeerWrites(p) PROVE StoredInv'
    BY <1>1, <2>2, PeerWritesWritten
  <2>3. ASSUME Written(W)' PROVE StoredInv'
    BY <1>1, <2>3 DEF StoredInv
  <2>. QED
    BY <1>2, <2>1, <2>2, <2>3
<1>3. ASSUME NEW t \in Tasks, Answer(t) PROVE Written(W)'
  BY <1>1, <1>3, AnswerWritten
<1>4. ASSUME NEW t \in Tasks, CallFails(t) PROVE Written(W)'
  BY <1>1, <1>4, CallFailsWritten
<1>5. ASSUME NEW t \in Tasks, ApplySync(t) PROVE Written(W)'
  BY <1>1, <1>5, ApplySyncWritten
<1>6. ASSUME NEW t \in Tasks, ApplyHistory(t) PROVE Written(W)'
  BY <1>1, <1>6, ApplyHistoryWritten
<1>7. ASSUME NEW t \in Tasks, NEW p \in Peers, SwitchPeer(t, p) PROVE Written(W)'
  BY <1>1, <1>7, SwitchPeerWritten
<1>8. ASSUME NEW t \in Tasks, CyclePeer(t) PROVE Written(W)'
  <2>1. st.order \in Seq(Peers) /\ st.order # <<>>
    BY <1>8, StateFields DEF TuiInv, Shapes, CyclePeer
  <2>2. NextPeer(st.order, st.current) \in Peers /\ PrevPeer(st.order, st.current) \in Peers
    BY <2>1, NeighbourIsPeer
  <2>. QED
    BY <1>7, <1>8, <2>2 DEF CyclePeer
<1>9. ASSUME NEW t \in Tasks, ReloadHistory(t) \/ SyncCommand(t) PROVE Written(W)'
  BY <1>1, <1>9, AskWritten
<1>10. CASE Connect
  BY <1>1, <1>10, AskWritten, TuiAssumption
<1>11. CASE Disconnect
  BY <1>1, <1>11, DisconnectWritten
<1>12. CASE HandleMsg
  BY <1>1, <1>12, HandleMsgWritten
<1>13. CASE HandleAck \/ HandleError
  BY <1>1, <1>13, HandleAckWritten
<1>14. CASE Restart
  BY <1>1, <1>14, RestartWritten
<1>15. ASSUME NEW f \in owed, Push(f) PROVE Written(W)'
  BY <1>1, <1>15, PushWritten
<1>16. CASE ServerTakes
  BY <1>1, <1>16, ServerTakesWritten
<1>17. ASSUME NEW id \in sending, SendFails(id) PROVE Written(W)'
  BY <1>1, <1>17, SendFailsWritten
<1>18. CASE UNCHANGED vars
  <2>1. Shapes /\ Shapes' /\ NoItems /\ st' = st
        /\ UNCHANGED <<frames, outbox, rows, owed, written>>
    BY <1>18 DEF TuiInv, vars, NoItems
  <2>. QED
    BY <1>1, <2>1, WrittenSame
<1>. QED
  BY <1>3, <1>4, <1>5, <1>6, <1>7, <1>8, <1>9, <1>10, <1>11, <1>12, <1>13, <1>14, <1>15,
     <1>16, <1>17, <1>18 DEF Next

LEMMA StoredSound == MaxMsgs <= MaxBuffer => (Spec => []StoredInv)
<1>. SUFFICES ASSUME MaxMsgs <= MaxBuffer PROVE Spec => []StoredInv
  OBVIOUS
<1>1. TuiInv /\ TuiInv' /\ StoredInv /\ [Next]_vars => StoredInv'
  BY StoredStep
<1>. QED
  BY <1>1, InitStored, TuiSound, PTL DEF Spec

\* Where no buffer can overflow, an own message shown as received or delivered
\* is in the table unless its msg_id was taken: acks and echoes of inserts that
\* worked, of those ignored and of those that failed, lost connections, calls of
\* ws.send that raise late, sync and reloads in any order never mark another one
\* the server does not have.
THEOREM SentIsTrue == MaxMsgs <= MaxBuffer => (Spec => []SentIsStored)
<1>. SUFFICES ASSUME MaxMsgs <= MaxBuffer PROVE Spec => []SentIsStored
  OBVIOUS
<1>1. StoredInv => SentIsStored
  BY DEF StoredInv, Written, Told, Faithful, Genuine, SentIsStored
<1>. QED
  BY <1>1, StoredSound, PTL

\* Where no buffer can overflow, every entry of the index points at its message,
\* so that a status update reaches the message it is for: what goes wrong with
\* the positions otherwise comes from trimming and from nothing else.
THEOREM StatusHitsUntrimmed == MaxMsgs <= MaxBuffer => (Spec => []StatusHitsItsMessage)
<1>. SUFFICES ASSUME MaxMsgs <= MaxBuffer PROVE Spec => []StatusHitsItsMessage
  OBVIOUS
<1>1. StoredInv => StatusHitsItsMessage
  <2>. SUFFICES ASSUME StoredInv, NEW id \in DOMAIN st.index
                PROVE  LET at == st.index[id]
                       IN  at.pos \in DOMAIN st.buffers[at.peer]
                           /\ st.buffers[at.peer][at.pos].row.id = id
    BY DEF StatusHitsItsMessage, IndexExact
  <2>1. PICK W \in SUBSET Ours : Faithful(st, W, Told(W))
    BY DEF StoredInv, Written
  <2>. QED
    BY <2>1, EntryLeads
<1>. QED
  BY <1>1, StoredSound, PTL
=============================================================================
