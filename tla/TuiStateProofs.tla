--------------------------- MODULE TuiStateProofs ---------------------------
(***************************************************************************)
(* Lemmas about TuiState: what each method of the State object keeps, for  *)
(* every state, message and list of messages.                              *)
(***************************************************************************)
EXTENDS TuiState, SequenceTheorems

Entry == [peer : Peers, pos : 1 .. MaxBuffer]

Index == UNION {[D -> Entry] : D \in SUBSET MsgId}

State ==
    [buffers : [Peers -> Seq(ChatMsg)],
     index   : Index,
     order   : Seq(Peers),
     unread  : [Peers -> Nat],
     current : Peers \cup {NoPeer},
     afterId : Nat]

\* No buffer is longer than MaxBuffer.
Bounded(s) == \A p \in Peers : Len(s.buffers[p]) <= MaxBuffer

\* What every method keeps.  That buffer and index go together needs the length
\* of the buffers, since a buffer must not lose more than one message at once;
\* that the index stays in its bounds needs that it covers the buffers.
Sound(s) ==
    /\ s \in State
    /\ Bounded(s)
    /\ IndexCovers(s)
    /\ IndexInBounds(s)

\* The peer on the screen has no unread messages.
ScreenRead(s) == s.current # NoPeer => s.unread[s.current] = 0

\* Everything but buffers, index and order is the same.
SameMarks(s, t) ==
    t.unread = s.unread /\ t.current = s.current /\ t.afterId = s.afterId

----------------------------------------------------------------------------
\* A message of the client with a peer.
Ours == {r \in Row : r.from = Me <=> r.to # Me}

LEMMA PeerOfOurs ==
    ASSUME NEW r \in Ours
    PROVE  PeerOf(r) \in Peers /\ r \in Row
BY DEF Ours, Row, PeerOf

\* The first place of p in a sequence, 0 if there is none.
First(q, p) == SelectInSeq(q, LAMBDA x : x = p)

LEMMA FirstPlace ==
    ASSUME NEW S, NEW q \in Seq(S), NEW p
    PROVE  /\ First(q, p) \in 0 .. Len(q)
           /\ (\E j \in 1 .. Len(q) : q[j] = p) => First(q, p) \in 1 .. Len(q)
<1>. DEFINE I == {i \in 1 .. Len(q) : q[i] = p}
<1>1. First(q, p) = IF I # {} THEN Min(I) ELSE 0
  BY DEF First, SelectInSeq
<1>2. ASSUME I # {} PROVE Min(I) \in I
  <2>1. I \subseteq Nat
    OBVIOUS
  <2>. HIDE DEF I
  <2>2. \E x \in I : \A y \in I : x <= y
    BY <1>2, <2>1, LeastOf
  <2>. QED
    BY <2>2 DEF Min
<1>3. Len(q) \in Nat
  BY LenProperties
<1>. QED
  BY <1>1, <1>2, <1>3

LEMMA RemoveFirstType ==
    ASSUME NEW S, NEW q \in Seq(S), NEW p
    PROVE  RemoveFirst(q, p) \in Seq(S)
<1>1. CASE ~\E i \in 1 .. Len(q) : q[i] = p
  BY <1>1 DEF RemoveFirst
<1>2. CASE \E i \in 1 .. Len(q) : q[i] = p
  <2>. DEFINE i == First(q, p)
  <2>1. i \in 1 .. Len(q)
    BY <1>2, FirstPlace
  <2>2. RemoveFirst(q, p) = SubSeq(q, 1, i - 1) \o SubSeq(q, i + 1, Len(q))
    BY <1>2 DEF RemoveFirst, RemoveAt, First
  <2>. HIDE DEF i
  <2>3. Len(q) \in Nat
    BY LenProperties
  <2>4. SubSeq(q, 1, i - 1) \in Seq(S) /\ SubSeq(q, i + 1, Len(q)) \in Seq(S)
    BY <2>1, <2>3, SubSeqProperties
  <2>. QED
    BY <2>2, <2>4, ConcatProperties
<1>. QED
  BY <1>1, <1>2

\* Soundness is about buffers and index alone.
LEMMA SoundSame ==
    ASSUME NEW s, Sound(s), NEW t \in State, t.buffers = s.buffers, t.index = s.index
    PROVE  Sound(t)
<1>1. \A p \in Peers : Held(t, p) = Held(s, p)
  BY DEF Held
<1>2. IndexCovers(t)
  BY <1>1 DEF Sound, IndexCovers
<1>3. IndexInBounds(t)
  BY DEF Sound, IndexInBounds
<1>4. Bounded(t)
  BY DEF Sound, Bounded
<1>. QED
  BY <1>2, <1>3, <1>4 DEF Sound

\* add_peer changes only the order.
LEMMA AddPeerSound ==
    ASSUME NEW s, Sound(s), NEW p \in Peers
    PROVE  LET t == AddPeer(s, p)
           IN  /\ Sound(t) /\ SameMarks(s, t)
               /\ t.buffers = s.buffers /\ t.index = s.index
<1>. DEFINE r == RemoveFirst(s.order, p)
            o == <<p>> \o r
            t == AddPeer(s, p)
<1>1. s \in State
  BY DEF Sound
<1>2. o \in Seq(Peers)
  <2>1. r \in Seq(Peers) /\ <<p>> \in Seq(Peers)
    BY <1>1, RemoveFirstType DEF State
  <2>. QED
    BY <2>1, ConcatProperties
<1>3. t = [s EXCEPT !.order = o]
  BY DEF AddPeer
<1>. HIDE DEF o
<1>4. t \in State /\ SameMarks(s, t) /\ t.buffers = s.buffers /\ t.index = s.index
  BY <1>1, <1>2, <1>3 DEF State, SameMarks
<1>. QED
  BY <1>4, SoundSame DEF t

\* The message at a position gets another status.
Restatus(s, p, j, x) == [s EXCEPT !.buffers[p][j].status = x]

LEMMA RestatusSound ==
    ASSUME NEW s, Sound(s), NEW p \in Peers, NEW j \in DOMAIN s.buffers[p],
           NEW x \in Status
    PROVE  LET t == Restatus(s, p, j, x)
           IN  /\ Sound(t) /\ SameMarks(s, t)
               /\ t.order = s.order /\ t.index = s.index
               /\ \A q \in Peers : /\ DOMAIN t.buffers[q] = DOMAIN s.buffers[q]
                                    /\ Len(t.buffers[q]) = Len(s.buffers[q])
                                    /\ \A i \in DOMAIN s.buffers[q] :
                                         t.buffers[q][i].row = s.buffers[q][i].row
<1>. DEFINE old == s.buffers[p]
            new == [old EXCEPT ![j].status = x]
            t   == Restatus(s, p, j, x)
<1>1. s \in State /\ s.buffers \in [Peers -> Seq(ChatMsg)] /\ old \in Seq(ChatMsg)
  BY DEF Sound, State
<1>2. /\ new \in Seq(ChatMsg) /\ Len(new) = Len(old) /\ DOMAIN new = DOMAIN old
      /\ \A i \in DOMAIN old : new[i].row = old[i].row
  <2>1. old[j] \in ChatMsg /\ [old[j] EXCEPT !.status = x] \in ChatMsg
        /\ [old[j] EXCEPT !.status = x].row = old[j].row
    <3>1. old[j] \in ChatMsg
      BY <1>1, ElementOfSeq, LenProperties
    <3>2. \A m \in ChatMsg : [m EXCEPT !.status = x] \in ChatMsg /\ [m EXCEPT !.status = x].row = m.row
      BY DEF ChatMsg
    <3>. HIDE DEF old
    <3>. QED
      BY <3>1, <3>2
  <2>2. new = [old EXCEPT ![j] = [old[j] EXCEPT !.status = x]]
    OBVIOUS
  <2>. QED
    BY <1>1, <2>1, <2>2, ExceptSeq
<1>3. t = [s EXCEPT !.buffers = [s.buffers EXCEPT ![p] = new]]
  BY DEF Restatus
<1>. HIDE DEF new
<1>4. /\ t \in State /\ SameMarks(s, t) /\ t.order = s.order /\ t.index = s.index
      /\ t.buffers = [s.buffers EXCEPT ![p] = new]
  <2>. DEFINE b == [s.buffers EXCEPT ![p] = new]
  <2>1. b \in [Peers -> Seq(ChatMsg)]
    BY <1>1, <1>2
  <2>. HIDE DEF b
  <2>2. t = [s EXCEPT !.buffers = b]
    BY <1>3 DEF b
  <2>. HIDE DEF t
  <2>3. t \in State /\ SameMarks(s, t) /\ t.order = s.order /\ t.index = s.index /\ t.buffers = b
    BY <1>1, <2>1, <2>2 DEF State, SameMarks
  <2>. QED
    BY <2>3 DEF b
<1>. HIDE DEF t
<1>5. \A q \in Peers : /\ DOMAIN t.buffers[q] = DOMAIN s.buffers[q]
                       /\ Len(t.buffers[q]) = Len(s.buffers[q])
                       /\ \A i \in DOMAIN s.buffers[q] :
                            t.buffers[q][i].row = s.buffers[q][i].row
  BY <1>1, <1>2, <1>4
<1>6. \A q \in Peers : Held(t, q) = Held(s, q)
  BY <1>5 DEF Held
<1>7. Sound(t)
  <2>1. Bounded(t)
    BY <1>5 DEF Bounded, Sound
  <2>2. IndexCovers(t)
    <3>1. IndexCovers(s)
      BY DEF Sound
    <3>2. DOMAIN t.index = UNION {Held(t, q) : q \in Peers}
      BY <1>4, <1>6, <3>1 DEF IndexCovers
    <3>3. ASSUME NEW q \in Peers, NEW i \in DOMAIN t.buffers[q]
          PROVE  /\ t.index[t.buffers[q][i].row.id].peer = q
                 /\ \A k \in DOMAIN t.buffers[q] :
                      t.buffers[q][i].row.id = t.buffers[q][k].row.id => i = k
      <4>1. i \in DOMAIN s.buffers[q] /\ t.buffers[q][i].row = s.buffers[q][i].row
        BY <1>5, <3>3
      <4>2. s.index[s.buffers[q][i].row.id].peer = q
        BY <3>1, <4>1 DEF IndexCovers
      <4>3. \A k \in DOMAIN s.buffers[q] :
              s.buffers[q][i].row.id = s.buffers[q][k].row.id => i = k
        BY <3>1, <4>1 DEF IndexCovers
      <4>. QED
        BY <1>4, <1>5, <4>1, <4>2, <4>3
    <3>. QED
      BY <3>2, <3>3 DEF IndexCovers
  <2>3. IndexInBounds(t)
    <3>. SUFFICES ASSUME NEW q \in Peers, NEW i \in DOMAIN t.buffers[q],
                         t.index[t.buffers[q][i].row.id].peer = q
                  PROVE  /\ i <= t.index[t.buffers[q][i].row.id].pos
                         /\ t.index[t.buffers[q][i].row.id].pos <= Len(t.buffers[q])
      BY DEF IndexInBounds
    <3>1. /\ i \in DOMAIN s.buffers[q] /\ Len(t.buffers[q]) = Len(s.buffers[q])
          /\ t.index[t.buffers[q][i].row.id] = s.index[s.buffers[q][i].row.id]
      BY <1>4, <1>5
    <3>. QED
      BY <3>1 DEF IndexInBounds, Sound
  <2>. QED
    BY <1>4, <2>1, <2>2, <2>3 DEF Sound
<1>. QED
  BY <1>4, <1>5, <1>7 DEF t

\* Every indexed message is in the buffer of the peer it is indexed with, no
\* earlier than the entry says.
LEMMA IndexedIsHeld ==
    ASSUME NEW s, Sound(s), NEW id \in DOMAIN s.index
    PROVE  LET at == s.index[id]
           IN  /\ at \in Entry
               /\ at.pos \in DOMAIN s.buffers[at.peer]
               /\ id \in Held(s, at.peer)
<1>. DEFINE at == s.index[id]
<1>1. at \in Entry /\ s.buffers \in [Peers -> Seq(ChatMsg)]
  BY DEF Sound, State, Index
<1>2. PICK p \in Peers : id \in Held(s, p)
  BY DEF Sound, IndexCovers
<1>3. PICK i \in DOMAIN s.buffers[p] : s.buffers[p][i].row.id = id
  BY <1>2 DEF Held
<1>4. at.peer = p
  BY <1>3 DEF Sound, IndexCovers
<1>5. i <= at.pos /\ at.pos <= Len(s.buffers[p])
  BY <1>3, <1>4 DEF Sound, IndexInBounds
<1>6. DOMAIN s.buffers[p] = 1 .. Len(s.buffers[p]) /\ Len(s.buffers[p]) \in Nat
  BY <1>1, LenProperties
<1>. QED
  BY <1>1, <1>2, <1>4, <1>5, <1>6 DEF Entry

\* buffer_append of a message the client has.
LEMMA UpgradeSound ==
    ASSUME NEW s, Sound(s), NEW p \in Peers, NEW m \in ChatMsg, m.row.id \in DOMAIN s.index
    PROVE  LET t == Upgrade(s, p, m)
           IN  /\ Sound(t) /\ SameMarks(s, t)
               /\ \A q \in Peers : Len(t.buffers[q]) = Len(s.buffers[q])
<1>. DEFINE at == s.index[m.row.id]
<1>1. at \in Entry /\ at.pos \in DOMAIN s.buffers[at.peer]
  BY IndexedIsHeld
<1>2. m.status \in Status
  BY DEF ChatMsg
<1>3. CASE /\ at.peer = p
           /\ s.buffers[p][at.pos].status \notin {m.status, "delivered"}
  <2>. DEFINE t == Restatus(s, p, at.pos, m.status)
  <2>1. Upgrade(s, p, m) = t
    BY <1>3 DEF Upgrade, Restatus
  <2>2. /\ Sound(t) /\ SameMarks(s, t)
        /\ \A q \in Peers : Len(t.buffers[q]) = Len(s.buffers[q])
    <3>1. at.pos \in DOMAIN s.buffers[p]
      BY <1>1, <1>3
    <3>. QED
      BY <1>2, <3>1, RestatusSound
  <2>. HIDE DEF t
  <2>. QED
    BY <2>1, <2>2
<1>4. CASE ~(/\ at.peer = p
             /\ s.buffers[p][at.pos].status \notin {m.status, "delivered"})
  BY <1>4 DEF Upgrade, SameMarks
<1>. QED
  BY <1>3, <1>4

\* update_status.
LEMMA UpdateStatusSound ==
    ASSUME NEW s, Sound(s), NEW id, NEW x \in Status
    PROVE  LET t == UpdateStatus(s, id, x)
           IN  /\ Sound(t) /\ SameMarks(s, t)
               /\ \A q \in Peers : Len(t.buffers[q]) = Len(s.buffers[q])
<1>. DEFINE at == s.index[id]
            t  == Restatus(s, at.peer, at.pos, x)
<1>1. CASE id \in DOMAIN s.index /\ at.pos <= Len(s.buffers[at.peer])
  <2>1. at \in Entry /\ at.pos \in DOMAIN s.buffers[at.peer] /\ at.peer \in Peers
    BY <1>1, IndexedIsHeld DEF Entry
  <2>2. UpdateStatus(s, id, x) = t
    BY <1>1 DEF UpdateStatus, Restatus
  <2>3. /\ Sound(t) /\ SameMarks(s, t)
        /\ \A q \in Peers : Len(t.buffers[q]) = Len(s.buffers[q])
    BY <2>1, RestatusSound
  <2>. HIDE DEF t
  <2>. QED
    BY <2>2, <2>3
<1>2. CASE ~(id \in DOMAIN s.index /\ at.pos <= Len(s.buffers[at.peer]))
  BY <1>2 DEF UpdateStatus, SameMarks
<1>. QED
  BY <1>1, <1>2

----------------------------------------------------------------------------
(* Inserting a message. *)

\* The new buffer: what it holds, and that it drops one message at most.
LEMMA AppendedBuffer ==
    ASSUME NEW old \in Seq(ChatMsg), Len(old) <= MaxBuffer, NEW m \in ChatMsg
    PROVE  LET all == Append(old, m)
               e   == Excess(all)
               new == SubSeq(all, e + 1, Len(all))
           IN  /\ e \in {0, 1} /\ (e = 1 => Len(old) = MaxBuffer)
               /\ new \in Seq(ChatMsg)
               /\ Len(new) = Len(old) + 1 - e /\ Len(new) \in 1 .. MaxBuffer
               /\ Place(all) = Len(new)
               /\ new[Len(new)] = m
               /\ \A i \in 1 .. Len(old) : all[i] = old[i]
               /\ \A i \in 1 .. Len(new) : i # Len(new) => i + e \in 1 .. Len(old) /\ new[i] = old[i + e]
<1>. DEFINE all == Append(old, m)
            e   == Excess(all)
            new == SubSeq(all, e + 1, Len(all))
<1>1. /\ Len(old) \in Nat
      /\ all \in Seq(ChatMsg) /\ Len(all) = Len(old) + 1
      /\ \A i \in 1 .. Len(old) : all[i] = old[i]
      /\ all[Len(old) + 1] = m
  BY AppendProperties, LenProperties
<1>. HIDE DEF all
<1>2. MaxBuffer \in Nat \ {0}
  BY StateAssumption
<1>3. e \in {0, 1} /\ (e = 1 => Len(old) = MaxBuffer) /\ (e = 0 => Len(old) < MaxBuffer)
      /\ Place(all) = Len(old) + 1 - e
  BY <1>1, <1>2 DEF Excess, Place
<1>. HIDE DEF e
<1>4. /\ new \in Seq(ChatMsg) /\ Len(new) = Len(old) + 1 - e
      /\ \A i \in 1 .. Len(new) : new[i] = all[i + e]
  <2>1. /\ e + 1 \in 1 .. Len(all) + 1 /\ Len(all) \in e .. Len(all)
        /\ Len(all) - (e + 1) + 1 = Len(old) + 1 - e
    BY <1>1, <1>3
  <2>2. \A i \in 1 .. Len(old) + 1 - e : e + 1 + i - 1 = i + e
    BY <1>1, <1>3
  <2>3. /\ new \in Seq(ChatMsg)
        /\ Len(new) = IF e + 1 <= Len(all) THEN Len(all) - (e + 1) + 1 ELSE 0
        /\ \A i \in 1 .. Len(all) - (e + 1) + 1 : new[i] = all[e + 1 + i - 1]
    BY <1>1, <2>1, SubSeqProperties
  <2>. QED
    BY <1>1, <1>3, <2>1, <2>2, <2>3
<1>. HIDE DEF new
<1>. QED
  BY <1>1, <1>2, <1>3, <1>4 DEF all, e, new

\* g is f without the messages gone, and with id at the place at.
Reindexed(f, gone, id, at, g) ==
    /\ g \in Index /\ DOMAIN g = (DOMAIN f \ gone) \cup {id}
    /\ g[id] = at
    /\ \A x \in DOMAIN f \ gone : x # id => g[x] = f[x]

\* That is what Insert makes of the index.
LEMMA IndexAfter ==
    ASSUME NEW f \in Index, NEW gone, NEW id \in MsgId, NEW at \in Entry
    PROVE  Reindexed(f, gone, id, at, Indexed(Unindexed(f, gone), id, at))
<1>. DEFINE u == Unindexed(f, gone)
            g == Indexed(u, id, at)
<1>1. PICK D \in SUBSET MsgId : f \in [D -> Entry]
  BY DEF Index
<1>2. u = [x \in D \ gone |-> f[x]] /\ DOMAIN f = D
  BY <1>1 DEF Unindexed, Restrict
<1>. HIDE DEF u
<1>3. g = [x \in (D \ gone) \cup {id} |-> IF x = id THEN at ELSE f[x]]
  BY <1>2 DEF Indexed
<1>4. g \in [(D \ gone) \cup {id} -> Entry]
  BY <1>1, <1>3
<1>5. (D \ gone) \cup {id} \in SUBSET MsgId
  BY <1>1
<1>6. g \in Index
  BY <1>4, <1>5 DEF Index
<1>. QED
  BY <1>2, <1>3, <1>6 DEF u, Reindexed

\* buffer_append of a message the client does not have.
LEMMA InsertSound ==
    ASSUME NEW s, Sound(s), NEW p \in Peers, NEW m \in ChatMsg, m.row.id \notin DOMAIN s.index
    PROVE  LET t == Insert(s, p, m)
           IN  /\ Sound(t) /\ SameMarks(s, t)
               /\ m.row.id \in Held(t, p)
<1>. DEFINE old  == s.buffers[p]
            all  == Append(old, m)
            e    == Excess(all)
            new  == SubSeq(all, e + 1, Len(all))
            gone == {all[i].row.id : i \in 1 .. e}
            id   == m.row.id
            at   == [peer |-> p, pos |-> Place(all)]
            g    == Indexed(Unindexed(s.index, gone), id, at)
            t    == Insert(s, p, m)
<1>1. /\ s \in State /\ s.buffers \in [Peers -> Seq(ChatMsg)] /\ s.index \in Index
      /\ old \in Seq(ChatMsg) /\ Len(old) <= MaxBuffer /\ Len(old) \in Nat
      /\ DOMAIN old = 1 .. Len(old)
      /\ MaxBuffer \in Nat \ {0}
  BY StateAssumption, LenProperties DEF Sound, State, Bounded
<1>2. /\ e \in {0, 1} /\ (e = 1 => Len(old) = MaxBuffer)
      /\ new \in Seq(ChatMsg)
      /\ Len(new) = Len(old) + 1 - e /\ Len(new) \in 1 .. MaxBuffer
      /\ Place(all) = Len(new)
      /\ new[Len(new)] = m
      /\ \A i \in 1 .. Len(old) : all[i] = old[i]
      /\ \A i \in 1 .. Len(new) : i # Len(new) => i + e \in 1 .. Len(old) /\ new[i] = old[i + e]
  BY <1>1, AppendedBuffer
<1>3. t = [s EXCEPT !.buffers = [s.buffers EXCEPT ![p] = new], !.index = g]
  BY DEF Insert
<1>. HIDE DEF all, new, t
<1>4. id \in MsgId /\ at \in Entry
  BY <1>2 DEF ChatMsg, Row, Entry
<1>. HIDE DEF gone, id, at
<1>5. /\ g \in Index /\ DOMAIN g = (DOMAIN s.index \ gone) \cup {id}
      /\ g[id] = at
      /\ \A x \in DOMAIN s.index \ gone : x # id => g[x] = s.index[x]
  <2>1. Reindexed(s.index, gone, id, at, g)
    BY <1>1, <1>4, IndexAfter
  <2>. HIDE DEF g
  <2>. QED
    BY <2>1 DEF Reindexed
<1>. HIDE DEF g
<1>6. /\ t \in State /\ SameMarks(s, t)
      /\ t.buffers = [s.buffers EXCEPT ![p] = new] /\ t.index = g
  <2>1. [s.buffers EXCEPT ![p] = new] \in [Peers -> Seq(ChatMsg)]
    BY <1>1, <1>2
  <2>. QED
    BY <1>1, <1>3, <1>5, <2>1 DEF State, SameMarks
<1>7. t.buffers[p] = new /\ \A q \in Peers : q # p => t.buffers[q] = s.buffers[q]
  BY <1>1, <1>6
<1>8. gone = IF e = 1 THEN {old[1].row.id} ELSE {}
  <2>1. CASE e = 0
    BY <2>1 DEF gone
  <2>2. CASE e = 1
    <3>1. 1 .. e = {1} /\ 1 \in 1 .. Len(old) /\ all[1] = old[1]
      BY <1>1, <1>2, <2>2
    <3>. QED
      BY <2>2, <3>1 DEF gone
  <2>. QED
    BY <1>2, <2>1, <2>2
<1>. HIDE DEF e
<1>9. DOMAIN new = 1 .. Len(new)
  BY <1>2, LenProperties
\* Which messages are in which buffer.
<1>10. \A q \in Peers : q # p => Held(t, q) = Held(s, q)
  BY <1>7 DEF Held
<1>11. \A i, j \in 1 .. Len(old) : old[i].row.id = old[j].row.id => i = j
  BY <1>1 DEF Sound, IndexCovers
<1>12. id \notin DOMAIN s.index
  BY DEF id
<1>13. \A i \in 1 .. Len(old) : old[i].row.id \in DOMAIN s.index /\ old[i].row.id # id
                               /\ s.index[old[i].row.id].peer = p
  <2>. TAKE i \in 1 .. Len(old)
  <2>1. old[i].row.id \in Held(s, p) /\ i \in DOMAIN s.buffers[p]
    BY <1>1 DEF Held
  <2>2. IndexCovers(s)
    BY DEF Sound
  <2>3. old[i].row.id \in DOMAIN s.index
    BY <2>1, <2>2 DEF IndexCovers
  <2>4. s.index[old[i].row.id].peer = p
    BY <2>1, <2>2 DEF IndexCovers
  <2>. QED
    BY <1>12, <2>3, <2>4
<1>14. gone \subseteq Held(s, p)
  BY <1>1, <1>2, <1>8 DEF Held
<1>15. Held(t, p) = (Held(s, p) \ gone) \cup {id}
  <2>1. ASSUME NEW x \in Held(t, p) PROVE x \in (Held(s, p) \ gone) \cup {id}
    <3>1. PICK i \in 1 .. Len(new) : new[i].row.id = x
      BY <1>7, <1>9 DEF Held
    <3>2. CASE i # Len(new)
      <4>1. i + e \in 1 .. Len(old) /\ x = old[i + e].row.id
        BY <1>2, <3>1, <3>2
      <4>2. x \in Held(s, p)
        BY <1>1, <4>1 DEF Held
      <4>3. x \notin gone
        <5>1. CASE e = 1
          <6>1. i + e # 1 /\ 1 \in 1 .. Len(old)
            BY <1>1, <1>2, <3>1, <5>1
          <6>. QED
            BY <1>8, <1>11, <4>1, <5>1, <6>1
        <5>. QED
          BY <1>2, <1>8, <5>1
      <4>. QED
        BY <4>2, <4>3
    <3>3. CASE i = Len(new)
      BY <1>2, <3>1, <3>3 DEF id
    <3>. QED
      BY <3>2, <3>3
  <2>2. ASSUME NEW x \in Held(s, p), x \notin gone PROVE x \in Held(t, p)
    <3>1. PICK i \in 1 .. Len(old) : old[i].row.id = x
      BY <1>1 DEF Held
    <3>2. i - e \in 1 .. Len(new) /\ i - e # Len(new) /\ (i - e) + e = i
      BY <1>1, <1>2, <1>8, <2>2, <3>1
    <3>3. new[i - e] = old[i]
      BY <1>2, <3>2
    <3>. QED
      BY <1>7, <1>9, <3>1, <3>2, <3>3 DEF Held
  <2>3. id \in Held(t, p)
    <3>1. Len(new) \in DOMAIN new
      BY <1>2, <1>9
    <3>. QED
      BY <1>2, <1>7, <3>1 DEF Held, id
  <2>. QED
    BY <2>1, <2>2, <2>3
\* Index and buffers.
<1>16. \A q \in Peers : q # p => \A x \in Held(s, q) :
         x \in DOMAIN s.index /\ s.index[x].peer = q /\ x # id /\ x \notin gone /\ x \notin Held(s, p)
  <2>. SUFFICES ASSUME NEW q \in Peers, q # p, NEW x \in Held(s, q)
                PROVE  x \in DOMAIN s.index /\ s.index[x].peer = q /\ x # id /\ x \notin Held(s, p)
    BY <1>14
  <2>1. \A r \in Peers : \A y \in Held(s, r) : s.index[y].peer = r
    <3>. TAKE r \in Peers
    <3>. TAKE y \in Held(s, r)
    <3>1. PICK i \in DOMAIN s.buffers[r] : s.buffers[r][i].row.id = y
      BY DEF Held
    <3>. QED
      BY <3>1 DEF Sound, IndexCovers
  <2>2. x \in DOMAIN s.index
    BY DEF Sound, IndexCovers
  <2>. QED
    BY <1>12, <2>1, <2>2
<1>17. DOMAIN g = UNION {Held(t, q) : q \in Peers}
  <2>1. DOMAIN s.index = UNION {Held(s, q) : q \in Peers}
    BY DEF Sound, IndexCovers
  <2>2. \A x \in DOMAIN g : \E q \in Peers : x \in Held(t, q)
    BY <1>5, <1>10, <1>15, <2>1
  <2>3. \A q \in Peers : \A x \in Held(t, q) : x \in DOMAIN g
    BY <1>5, <1>10, <1>14, <1>15, <1>16, <2>1
  <2>. QED
    BY <2>2, <2>3
<1>18. \A i \in 1 .. Len(new) : i # Len(new) =>
         /\ i + e \in 1 .. Len(old) /\ new[i] = old[i + e]
         /\ new[i].row.id # id /\ new[i].row.id \in DOMAIN s.index \ gone
         /\ g[new[i].row.id] = s.index[old[i + e].row.id]
  <2>. SUFFICES ASSUME NEW i \in 1 .. Len(new), i # Len(new)
                PROVE  /\ i + e \in 1 .. Len(old) /\ new[i] = old[i + e]
                       /\ new[i].row.id # id /\ new[i].row.id \in DOMAIN s.index \ gone
                       /\ g[new[i].row.id] = s.index[old[i + e].row.id]
    OBVIOUS
  <2>1. i + e \in 1 .. Len(old) /\ new[i] = old[i + e]
    BY <1>2
  <2>2. old[i + e].row.id # id /\ old[i + e].row.id \in DOMAIN s.index
    BY <1>13, <2>1
  <2>3. old[i + e].row.id \notin gone
    <3>1. CASE e = 1
      <4>1. i + e # 1 /\ 1 \in 1 .. Len(old)
        BY <1>1, <1>2, <3>1
      <4>. QED
        BY <1>8, <1>11, <2>1, <3>1, <4>1
    <3>. QED
      BY <1>2, <1>8, <3>1
  <2>. QED
    BY <1>5, <2>1, <2>2, <2>3
<1>19. new[Len(new)].row.id = id /\ at.peer = p /\ at.pos = Len(new)
  BY <1>2 DEF id, at
<1>20. \A i, j \in 1 .. Len(new) : new[i].row.id = new[j].row.id => i = j
  <2>. SUFFICES ASSUME NEW i \in 1 .. Len(new), NEW j \in 1 .. Len(new),
                       new[i].row.id = new[j].row.id
                PROVE  i = j
    OBVIOUS
  <2>1. CASE i # Len(new) /\ j # Len(new)
    <3>1. /\ i + e \in 1 .. Len(old) /\ new[i] = old[i + e]
          /\ j + e \in 1 .. Len(old) /\ new[j] = old[j + e]
      BY <1>18, <2>1
    <3>2. i + e = j + e
      BY <1>11, <3>1
    <3>3. i \in Int /\ j \in Int /\ e \in Int
      BY <1>2
    <3>. QED
      BY <3>2, <3>3
  <2>2. CASE i = Len(new) \/ j = Len(new)
    BY <1>18, <1>19, <2>2
  <2>. QED
    BY <2>1, <2>2
<1>21. IndexCovers(t)
  <2>1. ASSUME NEW q \in Peers, NEW i \in DOMAIN t.buffers[q]
        PROVE  g[t.buffers[q][i].row.id].peer = q
    <3>1. CASE q = p
      <4>1. CASE i = Len(new)
        BY <1>5, <1>7, <1>19, <3>1, <4>1
      <4>2. CASE i # Len(new)
        <5>1. i \in 1 .. Len(new) /\ i + e \in 1 .. Len(old)
              /\ g[new[i].row.id] = s.index[old[i + e].row.id]
          BY <1>7, <1>9, <1>18, <3>1, <4>2
        <5>2. s.index[old[i + e].row.id].peer = p
          BY <1>13, <5>1
        <5>. QED
          BY <1>7, <3>1, <5>1, <5>2
      <4>. QED
        BY <4>1, <4>2
    <3>2. CASE q # p
      <4>1. t.buffers[q][i].row.id \in Held(s, q)
        BY <1>7, <2>1, <3>2 DEF Held
      <4>. QED
        BY <1>5, <1>16, <3>2, <4>1
    <3>. QED
      BY <3>1, <3>2
  <2>2. ASSUME NEW q \in Peers, NEW i \in DOMAIN t.buffers[q], NEW j \in DOMAIN t.buffers[q],
               t.buffers[q][i].row.id = t.buffers[q][j].row.id
        PROVE  i = j
    <3>1. CASE q = p
      BY <1>7, <1>9, <1>20, <2>2, <3>1
    <3>2. CASE q # p
      BY <1>7, <2>2, <3>2 DEF Sound, IndexCovers
    <3>. QED
      BY <3>1, <3>2
  <2>. QED
    BY <1>6, <1>17, <2>1, <2>2 DEF IndexCovers
<1>22. IndexInBounds(t)
  <2>. SUFFICES ASSUME NEW q \in Peers, NEW i \in DOMAIN t.buffers[q],
                       g[t.buffers[q][i].row.id].peer = q
                PROVE  /\ i <= g[t.buffers[q][i].row.id].pos
                       /\ g[t.buffers[q][i].row.id].pos <= Len(t.buffers[q])
    BY <1>6 DEF IndexInBounds
  <2>1. CASE q = p
    <3>1. CASE i = Len(new)
      <4>1. g[new[i].row.id].pos = Len(new) /\ Len(new) \in Nat
        <5>1. g[new[Len(new)].row.id] = at /\ Len(new) \in Nat
          BY <1>2, <1>5, <1>19
        <5>. QED
          BY <1>19, <3>1, <5>1
      <4>. QED
        BY <1>7, <2>1, <3>1, <4>1
    <3>2. CASE i # Len(new)
      <4>1. i \in 1 .. Len(new) /\ i + e \in 1 .. Len(old)
            /\ g[new[i].row.id] = s.index[old[i + e].row.id]
        BY <1>7, <1>9, <1>18, <2>1, <3>2
      <4>2. /\ i + e <= s.index[old[i + e].row.id].pos
            /\ s.index[old[i + e].row.id].pos <= Len(old)
        <5>1. IndexInBounds(s) /\ i + e \in DOMAIN s.buffers[p]
          BY <1>1, <4>1 DEF Sound
        <5>2. s.index[s.buffers[p][i + e].row.id].peer = p
          BY <1>13, <4>1
        <5>. QED
          BY <5>1, <5>2 DEF IndexInBounds
      <4>3. s.index[old[i + e].row.id].pos \in Nat
        <5>1. old[i + e].row.id \in DOMAIN s.index
          BY <1>13, <4>1
        <5>2. s.index[old[i + e].row.id] \in Entry
          <6>1. PICK D \in SUBSET MsgId : s.index \in [D -> Entry]
            BY <1>1 DEF Index
          <6>. QED
            BY <5>1, <6>1
        <5>3. \A x \in Entry : x.pos \in Nat
          BY <1>1 DEF Entry
        <5>. QED
          BY <5>2, <5>3
      <4>. DEFINE pos == g[new[i].row.id].pos
      <4>4. pos \in Nat /\ i + e <= pos /\ pos <= Len(old)
        <5>1. pos = s.index[old[i + e].row.id].pos
          BY <4>1, Zenon
        <5>. HIDE DEF pos
        <5>. QED
          BY <4>2, <4>3, <5>1
      <4>. HIDE DEF pos
      <4>5. i <= pos /\ pos <= Len(new)
        <5>0. i \in Nat /\ Len(new) \in Nat
          BY <1>2, <4>1
        <5>1. i \in Nat /\ Len(new) \in Nat /\ Len(old) \in Nat /\ Len(new) = Len(old) + 1 - e
          BY <1>1, <1>2, <5>0
        <5>2. CASE e = 0
          BY <4>4, <5>1, <5>2
        <5>3. CASE e = 1
          BY <1>2, <4>4, <5>1, <5>3
        <5>. QED
          BY <1>2, <5>2, <5>3
      <4>. QED
        BY <1>7, <2>1, <4>5 DEF pos
    <3>. QED
      BY <3>1, <3>2
  <2>2. CASE q # p
    <3>1. /\ t.buffers[q] = s.buffers[q] /\ t.buffers[q][i].row.id \in Held(s, q)
      BY <1>7, <2>2 DEF Held
    <3>2. g[t.buffers[q][i].row.id] = s.index[s.buffers[q][i].row.id]
      BY <1>5, <1>16, <2>2, <3>1
    <3>3. IndexInBounds(s) /\ i \in DOMAIN s.buffers[q]
      BY <3>1 DEF Sound
    <3>. QED
      BY <3>1, <3>2, <3>3 DEF IndexInBounds
  <2>. QED
    BY <2>1, <2>2
<1>23. Bounded(t)
  BY <1>1, <1>2, <1>7 DEF Sound, Bounded
<1>24. id \in Held(t, p)
  BY <1>15
<1>. QED
  BY <1>6, <1>21, <1>22, <1>23, <1>24 DEF Sound, t, id

\* buffer_append.
LEMMA BufferAppendSound ==
    ASSUME NEW s, Sound(s), NEW p \in Peers, NEW m \in ChatMsg
    PROVE  Sound(BufferAppend(s, p, m)) /\ SameMarks(s, BufferAppend(s, p, m))
<1>. DEFINE a == AddPeer(s, p)
<1>1. Sound(a) /\ SameMarks(s, a)
  BY AddPeerSound
<1>2. BufferAppend(s, p, m) = IF m.row.id \in DOMAIN a.index THEN Upgrade(a, p, m)
                                                            ELSE Insert(a, p, m)
  BY DEF BufferAppend
<1>. HIDE DEF a
<1>3. CASE m.row.id \in DOMAIN a.index
  BY <1>1, <1>2, <1>3, UpgradeSound DEF SameMarks
<1>4. CASE m.row.id \notin DOMAIN a.index
  BY <1>1, <1>2, <1>4, InsertSound DEF SameMarks
<1>. QED
  BY <1>3, <1>4

\* A message received is counted for a peer that is not on the screen, and
\* nothing else is.
Counted(s, t) ==
    /\ t.current = s.current /\ t.afterId = s.afterId
    /\ \A q \in Peers : q = s.current => t.unread[q] = s.unread[q]

LEMMA ReceiveSound ==
    ASSUME NEW s, Sound(s), NEW row \in Ours
    PROVE  Sound(Receive(s, row)) /\ Counted(s, Receive(s, row))
<1>. DEFINE p    == PeerOf(row)
            t    == BufferAppend(s, p, Chat(row, "delivered"))
            more == [t EXCEPT !.unread[p] = @ + 1]
            grew == Len(t.buffers[p]) > Len(s.buffers[p])
<1>1. p \in Peers /\ row \in Row
  BY PeerOfOurs
<1>2. Chat(row, "delivered") \in ChatMsg
  BY <1>1 DEF Chat, ChatMsg, Status
<1>3. Sound(t) /\ SameMarks(s, t)
  BY <1>1, <1>2, BufferAppendSound
<1>4. Receive(s, row) = IF grew /\ p # s.current THEN more ELSE t
  BY DEF Receive
<1>. HIDE DEF t, p
<1>5. t \in State
  BY <1>3 DEF Sound
<1>6. /\ more \in State /\ more.buffers = t.buffers /\ more.index = t.index
      /\ more.current = t.current /\ more.afterId = t.afterId
      /\ \A q \in Peers : q # p => more.unread[q] = t.unread[q]
  <2>. DEFINE u == [t.unread EXCEPT ![p] = t.unread[p] + 1]
  <2>1. u \in [Peers -> Nat] /\ \A q \in Peers : q # p => u[q] = t.unread[q]
    BY <1>1, <1>5 DEF State
  <2>2. more = [t EXCEPT !.unread = u]
    OBVIOUS
  <2>. HIDE DEF u, more
  <2>. QED
    BY <1>5, <2>1, <2>2 DEF State
<1>. HIDE DEF more
<1>7. Sound(more)
  BY <1>3, <1>6, SoundSame
<1>8. Counted(s, t) /\ (p # s.current => Counted(s, more))
  BY <1>3, <1>6 DEF SameMarks, Counted
<1>. QED
  BY <1>3, <1>4, <1>7, <1>8

----------------------------------------------------------------------------
(* Lists of messages. *)

\* The largest member of T, if T has the upper bound l as a member.
LEMMA LargestIs ==
    ASSUME NEW l \in Nat, NEW T \in SUBSET (1 .. l), l \in T
    PROVE  Max(T) = l
<1>1. \A y \in T : l >= y
  OBVIOUS
<1>2. ASSUME NEW x \in T, \A y \in T : x >= y PROVE x = l
  BY <1>2
<1>. QED
  BY <1>1, <1>2 DEF Max

\* The numbers up to i without the largest of them.
LEMMA UpTo ==
    ASSUME NEW n \in Nat, NEW i \in 1 .. n
    PROVE  /\ 1 .. i \in SUBSET (1 .. n) /\ 1 .. i # {} /\ (1 .. i) \ {i} = 1 .. i - 1
           /\ Max(1 .. i) = i /\ i - 1 \in 0 .. n /\ i \in 0 .. n
<1>1. i \in Nat /\ i \in 1 .. i /\ i <= n
  OBVIOUS
<1>2. 1 .. i \in SUBSET (1 .. n) /\ 1 .. i # {}
  BY <1>1
<1>3. (1 .. i) \ {i} = 1 .. i - 1
  BY <1>1
<1>4. Max(1 .. i) = i
  BY <1>1, LargestIs
<1>5. i - 1 \in 0 .. n /\ i \in 0 .. n
  BY <1>1
<1>. QED
  BY <1>2, <1>3, <1>4, <1>5

\* The recursive function by which FoldLeft is defined: after each set of
\* positions, the state when the rows at these positions have been received.
Receipts(g, s, items, l) ==
    g = [T \in SUBSET (1 .. l) |->
            IF T = {} THEN s ELSE Receive(g[T \ {Max(T)}], items[Max(T)])]

LEMMA ReceiptsExist ==
    ASSUME NEW s, NEW items, NEW n \in Nat
    PROVE  \E g : Receipts(g, s, items, n)
<1>. DEFINE S == {l \in 0 .. n : \E g : Receipts(g, s, items, l)}
<1>1. 0 \in S
  <2>. DEFINE g == [T \in SUBSET (1 .. 0) |-> s]
  <2>1. 1 .. 0 = {}
    OBVIOUS
  <2>2. Receipts(g, s, items, 0)
    BY <2>1 DEF Receipts
  <2>. QED
    BY <2>2
<1>2. ASSUME NEW l \in 1 .. n, l - 1 \in S PROVE l \in S
  <2>1. PICK f : Receipts(f, s, items, l - 1)
    BY <1>2
  <2>. DEFINE g == [T \in SUBSET (1 .. l) |->
                       IF l \in T THEN Receive(f[T \ {l}], items[l]) ELSE f[T]]
  <2>2. ASSUME NEW T \in SUBSET (1 .. l)
        PROVE  g[T] = IF T = {} THEN s ELSE Receive(g[T \ {Max(T)}], items[Max(T)])
    <3>1. CASE l \in T
      <4>1. Max(T) = l
        BY <3>1, LargestIs
      <4>2. T \ {l} \in SUBSET (1 .. l) /\ l \notin T \ {l}
        OBVIOUS
      <4>3. g[T \ {l}] = f[T \ {l}]
        BY <4>2
      <4>. QED
        BY <3>1, <4>1, <4>3
    <3>2. CASE l \notin T
      <4>1. T \in SUBSET (1 .. l - 1) /\ T \ {Max(T)} \in SUBSET (1 .. l)
            /\ l \notin T \ {Max(T)}
        <5>1. \A y \in T : y \in 1 .. l /\ y # l
          BY <3>2
        <5>2. \A y \in T : y \in 1 .. l - 1
          BY <5>1
        <5>. QED
          BY <3>2, <5>2
      <4>2. g[T] = f[T] /\ g[T \ {Max(T)}] = f[T \ {Max(T)}]
        BY <3>2, <4>1
      <4>3. f[T] = IF T = {} THEN s ELSE Receive(f[T \ {Max(T)}], items[Max(T)])
        BY <2>1, <4>1 DEF Receipts
      <4>. QED
        BY <4>2, <4>3
    <3>. QED
      BY <3>1, <3>2
  <2>3. g = [T \in SUBSET (1 .. l) |-> g[T]]
    OBVIOUS
  <2>. HIDE DEF g
  <2>4. Receipts(g, s, items, l)
    BY <2>2, <2>3 DEF Receipts
  <2>. QED
    BY <2>4
<1>. HIDE DEF S
<1>3. n \in S
  BY <1>1, <1>2, Climb
<1>. QED
  BY <1>3 DEF S

\* h[i] is s after the first i rows have been received.
Receiving(h, s, items) ==
    /\ h[0] = s
    /\ h[Len(items)] = FoldLeft(Receive, s, items)
    /\ \A i \in 1 .. Len(items) : h[i] = Receive(h[i - 1], items[i])

\* Receiving a list of rows is receiving one after the other.
LEMMA ReceiveOneByOne ==
    ASSUME NEW s, NEW items \in Seq(Ours)
    PROVE  \E h : Receiving(h, s, items)
<1>1. Len(items) \in Nat /\ DOMAIN items = 1 .. Len(items)
  BY LenProperties
<1>2. \E g : Receipts(g, s, items, Len(items))
  BY <1>1, ReceiptsExist
<1>3. PICK g : /\ Receipts(g, s, items, Len(items))
               /\ FoldLeft(Receive, s, items) = g[1 .. Len(items)]
  BY <1>1, <1>2, Zenon DEF FoldLeft, MapThenFoldSet, Receipts
<1>. DEFINE h == [i \in 0 .. Len(items) |-> g[1 .. i]]
<1>4. h[0] = s
  <2>1. 1 .. 0 = {} /\ {} \in SUBSET (1 .. Len(items))
    OBVIOUS
  <2>. QED
    BY <1>1, <1>3, <2>1 DEF Receipts
<1>5. ASSUME NEW i \in 1 .. Len(items) PROVE h[i] = Receive(h[i - 1], items[i])
  <2>1. /\ 1 .. i \in SUBSET (1 .. Len(items)) /\ 1 .. i # {} /\ (1 .. i) \ {i} = 1 .. i - 1
        /\ Max(1 .. i) = i /\ i - 1 \in 0 .. Len(items) /\ i \in 0 .. Len(items)
    BY <1>1, UpTo
  <2>3. g[1 .. i] = Receive(g[1 .. i - 1], items[i])
    <3>1. g = [T \in SUBSET (1 .. Len(items)) |->
                 IF T = {} THEN s ELSE Receive(g[T \ {Max(T)}], items[Max(T)])]
      BY <1>3 DEF Receipts
    <3>. DEFINE T == 1 .. i
    <3>2. T \in SUBSET (1 .. Len(items)) /\ T # {} /\ Max(T) = i /\ T \ {i} = 1 .. i - 1
      BY <2>1
    <3>. HIDE DEF T
    <3>3. g[T] = IF T = {} THEN s ELSE Receive(g[T \ {Max(T)}], items[Max(T)])
      BY <3>1, <3>2, Zenon
    <3>4. g[T] = Receive(g[1 .. i - 1], items[i])
      BY <3>2, <3>3, Zenon
    <3>. QED
      BY <3>4 DEF T
  <2>. QED
    BY <2>1, <2>3
<1>6. h[Len(items)] = g[1 .. Len(items)]
  BY <1>1
<1>. HIDE DEF h
<1>7. Receiving(h, s, items)
  BY <1>3, <1>4, <1>5, <1>6 DEF Receiving
<1>. QED
  BY <1>7

LEMMA ReceiveAllSound ==
    ASSUME NEW s, Sound(s), NEW items \in Seq(Ours)
    PROVE  Sound(FoldLeft(Receive, s, items)) /\ Counted(s, FoldLeft(Receive, s, items))
<1>0. PICK h : Receiving(h, s, items)
  BY ReceiveOneByOne
<1>1. /\ h[0] = s /\ h[Len(items)] = FoldLeft(Receive, s, items)
      /\ \A i \in 1 .. Len(items) : h[i] = Receive(h[i - 1], items[i])
  BY <1>0 DEF Receiving
<1>. DEFINE S == {i \in 0 .. Len(items) : Sound(h[i]) /\ Counted(s, h[i])}
<1>2. Len(items) \in Nat
  BY LenProperties
<1>3. 0 \in S
  BY <1>1, <1>2 DEF Counted
<1>4. ASSUME NEW i \in 1 .. Len(items), i - 1 \in S PROVE i \in S
  <2>1. items[i] \in Ours
    BY ElementOfSeq
  <2>2. Sound(h[i - 1]) /\ Counted(s, h[i - 1])
    BY <1>4
  <2>3. Sound(h[i]) /\ Counted(h[i - 1], h[i])
    BY <1>1, <2>1, <2>2, ReceiveSound
  <2>4. Counted(s, h[i])
    BY <2>2, <2>3 DEF Counted
  <2>. QED
    BY <1>2, <2>3, <2>4
<1>. HIDE DEF S
<1>5. Len(items) \in S
  BY <1>2, <1>3, <1>4, Climb
<1>. QED
  BY <1>1, <1>5 DEF S

\* The same for the list of an answer that replaces the buffer of p.
Load(t, p, row) == BufferAppend(t, p, Chat(row, "delivered"))

Loads(g, s, p, items, l) ==
    g = [T \in SUBSET (1 .. l) |->
            IF T = {} THEN s ELSE Load(g[T \ {Max(T)}], p, items[Max(T)])]

LEMMA LoadsExist ==
    ASSUME NEW s, NEW p, NEW items, NEW n \in Nat
    PROVE  \E g : Loads(g, s, p, items, n)
<1>. DEFINE S == {l \in 0 .. n : \E g : Loads(g, s, p, items, l)}
<1>1. 0 \in S
  <2>. DEFINE g == [T \in SUBSET (1 .. 0) |-> s]
  <2>1. 1 .. 0 = {}
    OBVIOUS
  <2>2. Loads(g, s, p, items, 0)
    BY <2>1 DEF Loads
  <2>. QED
    BY <2>2
<1>2. ASSUME NEW l \in 1 .. n, l - 1 \in S PROVE l \in S
  <2>1. PICK f : Loads(f, s, p, items, l - 1)
    BY <1>2
  <2>. DEFINE g == [T \in SUBSET (1 .. l) |->
                       IF l \in T THEN Load(f[T \ {l}], p, items[l]) ELSE f[T]]
  <2>2. ASSUME NEW T \in SUBSET (1 .. l)
        PROVE  g[T] = IF T = {} THEN s ELSE Load(g[T \ {Max(T)}], p, items[Max(T)])
    <3>1. CASE l \in T
      <4>1. Max(T) = l
        BY <3>1, LargestIs
      <4>2. T \ {l} \in SUBSET (1 .. l) /\ l \notin T \ {l}
        OBVIOUS
      <4>3. g[T \ {l}] = f[T \ {l}]
        BY <4>2
      <4>. QED
        BY <3>1, <4>1, <4>3
    <3>2. CASE l \notin T
      <4>1. T \in SUBSET (1 .. l - 1) /\ T \ {Max(T)} \in SUBSET (1 .. l)
            /\ l \notin T \ {Max(T)}
        <5>1. \A y \in T : y \in 1 .. l /\ y # l
          BY <3>2
        <5>2. \A y \in T : y \in 1 .. l - 1
          BY <5>1
        <5>. QED
          BY <3>2, <5>2
      <4>2. g[T] = f[T] /\ g[T \ {Max(T)}] = f[T \ {Max(T)}]
        BY <3>2, <4>1
      <4>3. f[T] = IF T = {} THEN s ELSE Load(f[T \ {Max(T)}], p, items[Max(T)])
        BY <2>1, <4>1 DEF Loads
      <4>. QED
        BY <4>2, <4>3
    <3>. QED
      BY <3>1, <3>2
  <2>3. g = [T \in SUBSET (1 .. l) |-> g[T]]
    OBVIOUS
  <2>. HIDE DEF g
  <2>4. Loads(g, s, p, items, l)
    BY <2>2, <2>3 DEF Loads
  <2>. QED
    BY <2>4
<1>. HIDE DEF S
<1>3. n \in S
  BY <1>1, <1>2, Climb
<1>. QED
  BY <1>3 DEF S

\* How switch_peer and /history empty a buffer.
Cleared(s, p) ==
    [s EXCEPT !.buffers[p] = <<>>,
              !.index = Unindexed(@, {id \in DOMAIN @ : @[id].peer = p})]

\* h[i] is s after the buffer of p has been cleared and the first i rows loaded.
Loading(h, s, p, items) ==
    /\ h[0] = Cleared(s, p)
    /\ h[Len(items)] = ReplaceBuffer(s, p, items)
    /\ \A i \in 1 .. Len(items) : h[i] = Load(h[i - 1], p, items[i])

LEMMA LoadOneByOne ==
    ASSUME NEW s, NEW p, NEW items \in Seq(Ours)
    PROVE  \E h : Loading(h, s, p, items)
<1>1. Len(items) \in Nat /\ DOMAIN items = 1 .. Len(items)
  BY LenProperties
<1>2. \E g : Loads(g, Cleared(s, p), p, items, Len(items))
  BY <1>1, LoadsExist
<1>3. PICK g : /\ Loads(g, Cleared(s, p), p, items, Len(items))
               /\ ReplaceBuffer(s, p, items) = g[1 .. Len(items)]
  BY <1>1, <1>2 DEF ReplaceBuffer, Cleared, FoldLeft, MapThenFoldSet, Loads, Load
<1>. DEFINE h == [i \in 0 .. Len(items) |-> g[1 .. i]]
<1>4. h[0] = Cleared(s, p)
  <2>1. 1 .. 0 = {} /\ {} \in SUBSET (1 .. Len(items))
    OBVIOUS
  <2>. QED
    BY <1>1, <1>3, <2>1 DEF Loads
<1>5. ASSUME NEW i \in 1 .. Len(items) PROVE h[i] = Load(h[i - 1], p, items[i])
  <2>1. /\ 1 .. i \in SUBSET (1 .. Len(items)) /\ 1 .. i # {} /\ (1 .. i) \ {i} = 1 .. i - 1
        /\ Max(1 .. i) = i /\ i - 1 \in 0 .. Len(items) /\ i \in 0 .. Len(items)
    BY <1>1, UpTo
  <2>3. g[1 .. i] = Load(g[1 .. i - 1], p, items[i])
    <3>1. g = [T \in SUBSET (1 .. Len(items)) |->
                 IF T = {} THEN Cleared(s, p)
                 ELSE Load(g[T \ {Max(T)}], p, items[Max(T)])]
      BY <1>3 DEF Loads
    <3>. DEFINE T == 1 .. i
    <3>2. T \in SUBSET (1 .. Len(items)) /\ T # {} /\ Max(T) = i /\ T \ {i} = 1 .. i - 1
      BY <2>1
    <3>. HIDE DEF T
    <3>3. g[T] = IF T = {} THEN Cleared(s, p) ELSE Load(g[T \ {Max(T)}], p, items[Max(T)])
      BY <3>1, <3>2, Zenon
    <3>4. g[T] = Load(g[1 .. i - 1], p, items[i])
      BY <3>2, <3>3, Zenon
    <3>. QED
      BY <3>4 DEF T
  <2>. QED
    BY <2>1, <2>3
<1>6. h[Len(items)] = g[1 .. Len(items)]
  BY <1>1
<1>. HIDE DEF h
<1>7. Loading(h, s, p, items)
  BY <1>3, <1>4, <1>5, <1>6 DEF Loading
<1>. QED
  BY <1>7

LEMMA ClearedSound ==
    ASSUME NEW s, Sound(s), NEW p \in Peers
    PROVE  Sound(Cleared(s, p)) /\ SameMarks(s, Cleared(s, p))
<1>. DEFINE gone == {id \in DOMAIN s.index : s.index[id].peer = p}
            g    == Unindexed(s.index, gone)
            b    == [s.buffers EXCEPT ![p] = <<>>]
            t    == Cleared(s, p)
<1>1. /\ s \in State /\ s.buffers \in [Peers -> Seq(ChatMsg)] /\ s.index \in Index
      /\ MaxBuffer \in Nat
  BY StateAssumption DEF Sound, State
<1>2. b \in [Peers -> Seq(ChatMsg)] /\ b[p] = <<>> /\ \A q \in Peers : q # p => b[q] = s.buffers[q]
  <2>1. <<>> \in Seq(ChatMsg)
    BY EmptySeq
  <2>. QED
    BY <1>1, <2>1
<1>3. /\ g \in Index /\ DOMAIN g = DOMAIN s.index \ gone
      /\ \A x \in DOMAIN s.index \ gone : g[x] = s.index[x]
  <2>1. PICK D \in SUBSET MsgId : s.index \in [D -> Entry]
    BY <1>1 DEF Index
  <2>2. g = [x \in D \ gone |-> s.index[x]] /\ DOMAIN s.index = D
    BY <2>1 DEF Unindexed, Restrict
  <2>3. g \in [D \ gone -> Entry] /\ D \ gone \in SUBSET MsgId
    BY <2>1, <2>2
  <2>4. g \in Index
    BY <2>3 DEF Index
  <2>. QED
    BY <2>2, <2>4
<1>4. t = [s EXCEPT !.buffers = b, !.index = g]
  BY DEF Cleared
<1>. HIDE DEF b, g, t
<1>5. t \in State /\ SameMarks(s, t) /\ t.buffers = b /\ t.index = g
  BY <1>1, <1>2, <1>3, <1>4 DEF State, SameMarks
<1>6. Held(t, p) = {} /\ \A q \in Peers : q # p => Held(t, q) = Held(s, q)
  <2>1. DOMAIN <<>> = {}
    BY EmptySeq
  <2>. QED
    BY <1>2, <1>5, <2>1 DEF Held
<1>7. \A q \in Peers : \A x \in Held(s, q) : x \in DOMAIN s.index /\ s.index[x].peer = q
  BY DEF Sound, IndexCovers, Held
<1>8. DOMAIN g = UNION {Held(t, q) : q \in Peers}
  <2>1. \A x \in DOMAIN g : \E q \in Peers : q # p /\ x \in Held(s, q)
    BY <1>3, <1>7 DEF Sound, IndexCovers
  <2>2. \A q \in Peers : q # p => \A x \in Held(s, q) : x \in DOMAIN g
    BY <1>3, <1>7
  <2>. QED
    BY <1>6, <2>1, <2>2
<1>9. \A q \in Peers : q # p => \A i \in DOMAIN s.buffers[q] :
        /\ s.buffers[q][i].row.id \in DOMAIN s.index \ gone
        /\ g[s.buffers[q][i].row.id] = s.index[s.buffers[q][i].row.id]
  <2>. TAKE q \in Peers
  <2>. HAVE q # p
  <2>. TAKE i \in DOMAIN s.buffers[q]
  <2>1. s.buffers[q][i].row.id \in Held(s, q)
    BY DEF Held
  <2>2. s.buffers[q][i].row.id \in DOMAIN s.index \ gone
    BY <1>7, <2>1
  <2>. QED
    BY <1>3, <2>2
<1>10. DOMAIN b[p] = {} /\ Len(b[p]) = 0
  BY <1>2, EmptySeq
<1>11. IndexCovers(t)
  <2>1. ASSUME NEW q \in Peers, NEW i \in DOMAIN b[q]
        PROVE  /\ g[b[q][i].row.id].peer = q
               /\ \A j \in DOMAIN b[q] : b[q][i].row.id = b[q][j].row.id => i = j
    <3>1. q # p /\ b[q] = s.buffers[q]
      BY <1>2, <1>10, <2>1
    <3>2. /\ s.index[s.buffers[q][i].row.id].peer = q
          /\ \A j \in DOMAIN s.buffers[q] :
               s.buffers[q][i].row.id = s.buffers[q][j].row.id => i = j
      BY <2>1, <3>1 DEF Sound, IndexCovers
    <3>. QED
      BY <1>9, <2>1, <3>1, <3>2
  <2>. QED
    BY <1>5, <1>8, <2>1 DEF IndexCovers
<1>12. IndexInBounds(t)
  <2>1. ASSUME NEW q \in Peers, NEW i \in DOMAIN b[q], g[b[q][i].row.id].peer = q
        PROVE  i <= g[b[q][i].row.id].pos /\ g[b[q][i].row.id].pos <= Len(b[q])
    <3>1. q # p /\ b[q] = s.buffers[q]
      BY <1>2, <1>10, <2>1
    <3>2. IndexInBounds(s) /\ i \in DOMAIN s.buffers[q]
      BY <2>1, <3>1 DEF Sound
    <3>3. g[b[q][i].row.id] = s.index[s.buffers[q][i].row.id]
      BY <1>9, <3>1, <3>2
    <3>. QED
      BY <2>1, <3>1, <3>2, <3>3 DEF IndexInBounds
  <2>. QED
    BY <1>5, <2>1 DEF IndexInBounds
<1>13. Bounded(t)
  BY <1>1, <1>2, <1>5, <1>10 DEF Sound, Bounded
<1>. QED
  BY <1>5, <1>11, <1>12, <1>13 DEF Sound, t

LEMMA ReplaceBufferSound ==
    ASSUME NEW s, Sound(s), NEW p \in Peers, NEW items \in Seq(Ours)
    PROVE  Sound(ReplaceBuffer(s, p, items)) /\ SameMarks(s, ReplaceBuffer(s, p, items))
<1>0. PICK h : Loading(h, s, p, items)
  BY LoadOneByOne
<1>1. /\ h[0] = Cleared(s, p) /\ h[Len(items)] = ReplaceBuffer(s, p, items)
      /\ \A i \in 1 .. Len(items) : h[i] = Load(h[i - 1], p, items[i])
  BY <1>0 DEF Loading
<1>. DEFINE S == {i \in 0 .. Len(items) : Sound(h[i]) /\ SameMarks(s, h[i])}
<1>2. Len(items) \in Nat
  BY LenProperties
<1>3. 0 \in S
  BY <1>1, <1>2, ClearedSound
<1>4. ASSUME NEW i \in 1 .. Len(items), i - 1 \in S PROVE i \in S
  <2>1. items[i] \in Row
    BY ElementOfSeq, PeerOfOurs
  <2>2. Chat(items[i], "delivered") \in ChatMsg
    BY <2>1 DEF Chat, ChatMsg, Status
  <2>3. Sound(h[i - 1]) /\ SameMarks(s, h[i - 1])
    BY <1>4
  <2>4. Sound(h[i]) /\ SameMarks(h[i - 1], h[i])
    BY <1>1, <2>2, <2>3, BufferAppendSound DEF Load
  <2>5. SameMarks(s, h[i])
    BY <2>3, <2>4 DEF SameMarks
  <2>. QED
    BY <1>2, <2>4, <2>5
<1>. HIDE DEF S
<1>5. Len(items) \in S
  BY <1>2, <1>3, <1>4, Climb
<1>. QED
  BY <1>1, <1>5 DEF S

----------------------------------------------------------------------------
(* Peers, and what survives the process. *)

\* Ctrl+N and Ctrl+P lead to a peer in the order.
LEMMA NeighbourIsPeer ==
    ASSUME NEW order \in Seq(Peers), order # <<>>, NEW current
    PROVE  NextPeer(order, current) \in Peers /\ PrevPeer(order, current) \in Peers
<1>. DEFINE l == Len(order)
            i == First(order, current)
<1>1. l \in Nat \ {0} /\ \A j \in 1 .. l : order[j] \in Peers
  BY LenProperties, EmptySeq, ElementOfSeq
<1>2. i \in 0 .. l
  BY FirstPlace
<1>. HIDE DEF l, i
<1>3. \A a \in Int : (a % l) + 1 \in 1 .. l
  BY <1>1
<1>4. ASSUME NEW n \in {1, l - 1} PROVE Neighbour(order, current, n) \in Peers
  <2>1. order[1] \in Peers
    BY <1>1
  <2>2. order[((i + n - 1) % l) + 1] \in Peers
    <3>1. i + n - 1 \in Int
      BY <1>1, <1>2
    <3>. QED
      BY <1>1, <1>3, <3>1
  <2>. QED
    BY <2>1, <2>2 DEF Neighbour, l, i, First
<1>. QED
  BY <1>4 DEF NextPeer, PrevPeer, l

\* switch_peer up to its HTTP call.
LEMMA OpenedSound ==
    ASSUME NEW s, Sound(s), NEW p \in Peers
    PROVE  LET t == Opened(s, p)
           IN  Sound(t) /\ t.afterId = s.afterId /\ t.current = p /\ t.unread[p] = 0
<1>. DEFINE u == [s.unread EXCEPT ![p] = 0]
            o == [s EXCEPT !.current = p, !.unread = u]
<1>1. s \in State
  BY DEF Sound
<1>2. u \in [Peers -> Nat] /\ u[p] = 0
  BY <1>1 DEF State
<1>3. Opened(s, p) = AddPeer(o, p)
  BY DEF Opened
<1>. HIDE DEF u
<1>4. /\ o \in State /\ o.buffers = s.buffers /\ o.index = s.index
      /\ o.afterId = s.afterId /\ o.current = p /\ o.unread[p] = 0
  BY <1>1, <1>2 DEF State
<1>. HIDE DEF o
<1>5. Sound(o)
  BY <1>4, SoundSame
<1>6. Sound(AddPeer(o, p)) /\ SameMarks(o, AddPeer(o, p))
  BY <1>5, AddPeerSound
<1>. QED
  BY <1>3, <1>4, <1>6 DEF SameMarks

\* A state without messages.
LEMMA EmptySound ==
    ASSUME NEW s \in State, s.buffers = [p \in Peers |-> <<>>], s.index = NoIndex
    PROVE  Sound(s)
<1>1. \A p \in Peers : DOMAIN s.buffers[p] = {} /\ Len(s.buffers[p]) = 0
  BY EmptySeq
<1>2. DOMAIN s.index = {} /\ MaxBuffer \in Nat
  BY StateAssumption DEF NoIndex
<1>3. \A p \in Peers : Held(s, p) = {}
  BY <1>1 DEF Held
<1>. QED
  BY <1>1, <1>2, <1>3 DEF Sound, Bounded, IndexCovers, IndexInBounds

LEMMA NoIndexType == NoIndex \in Index
<1>1. NoIndex \in [{} -> Entry] /\ {} \in SUBSET MsgId
  BY DEF NoIndex
<1>. QED
  BY <1>1 DEF Index

LEMMA NewStateSound == Sound(NewState) /\ ScreenRead(NewState) /\ NewState.afterId = 0
<1>1. /\ [p \in Peers |-> <<>>] \in [Peers -> Seq(ChatMsg)]
      /\ [p \in Peers |-> 0] \in [Peers -> Nat]
      /\ <<>> \in Seq(Peers)
  BY EmptySeq
<1>2. NewState \in State
  BY <1>1, NoIndexType DEF NewState, State
<1>. QED
  BY <1>2, EmptySound DEF NewState, ScreenRead

----------------------------------------------------------------------------
(* Where no buffer overflows: positions are exact, and what a status says is *)
(* borne out.  W are the messages written, R those in the server's table.  *)

\* An id is of one message.
Unambiguous(W) == \A x, y \in W : x.id = y.id => x = y

Exact(s) ==
    \A p \in Peers : \A i \in DOMAIN s.buffers[p] : s.index[s.buffers[p][i].row.id].pos = i

\* A message that was written, and is in the table if it is an own one shown as
\* received or delivered.
Genuine(m, W, R) ==
    /\ m.row \in W
    /\ m.row.from = Me /\ m.status \in {"server_received", "delivered"} => m.row \in R

Faithful(s, W, R) ==
    /\ Sound(s)
    /\ Exact(s)
    /\ \A p \in Peers : \A i \in DOMAIN s.buffers[p] : Genuine(s.buffers[p][i], W, R)

\* Like Sound, it is about buffers and index alone; and it stays when more is
\* written or stored.
LEMMA FaithfulSame ==
    ASSUME NEW s, NEW W, NEW R, Faithful(s, W, R),
           NEW t, Sound(t), t.buffers = s.buffers, t.index = s.index,
           NEW V, W \subseteq V, NEW Q, R \subseteq Q
    PROVE  Faithful(t, V, Q)
<1>1. Exact(t)
  BY DEF Faithful, Exact
<1>2. ASSUME NEW p \in Peers, NEW i \in DOMAIN t.buffers[p]
      PROVE  Genuine(t.buffers[p][i], V, Q)
  <2>1. Genuine(s.buffers[p][i], W, R)
    BY <1>2 DEF Faithful
  <2>. QED
    BY <2>1 DEF Genuine
<1>. QED
  BY <1>1, <1>2 DEF Faithful

\* The index leads to the message.
LEMMA EntryLeads ==
    ASSUME NEW s, NEW W, NEW R, Faithful(s, W, R), NEW id \in DOMAIN s.index
    PROVE  LET at == s.index[id]
           IN  /\ at.peer \in Peers /\ at.pos \in DOMAIN s.buffers[at.peer]
               /\ s.buffers[at.peer][at.pos].row.id = id
<1>. DEFINE at == s.index[id]
<1>0. Sound(s)
  BY DEF Faithful
<1>1. at \in Entry /\ at.pos \in DOMAIN s.buffers[at.peer] /\ id \in Held(s, at.peer)
  BY <1>0, IndexedIsHeld
<1>2. at.peer \in Peers
  BY <1>1 DEF Entry
<1>3. PICK i \in DOMAIN s.buffers[at.peer] : s.buffers[at.peer][i].row.id = id
  BY <1>1 DEF Held
<1>4. at.pos = i
  BY <1>2, <1>3 DEF Faithful, Exact
<1>. QED
  BY <1>1, <1>2, <1>3, <1>4

\* A status that may be shown is shown.
LEMMA RestatusFaithful ==
    ASSUME NEW s, NEW W, NEW R, Faithful(s, W, R),
           NEW p \in Peers, NEW j \in DOMAIN s.buffers[p], NEW x \in Status,
           s.buffers[p][j].row.from = Me /\ x \in {"server_received", "delivered"}
             => s.buffers[p][j].row \in R
    PROVE  Faithful(Restatus(s, p, j, x), W, R)
<1>. DEFINE t   == Restatus(s, p, j, x)
            old == s.buffers[p]
<1>1. Sound(s)
  BY DEF Faithful
<1>2. /\ Sound(t) /\ t.index = s.index
      /\ \A q \in Peers : /\ DOMAIN t.buffers[q] = DOMAIN s.buffers[q]
                           /\ \A i \in DOMAIN s.buffers[q] :
                                t.buffers[q][i].row = s.buffers[q][i].row
  BY <1>1, RestatusSound
<1>3. /\ s \in State /\ s.buffers \in [Peers -> Seq(ChatMsg)] /\ old \in Seq(ChatMsg)
      /\ DOMAIN old = 1 .. Len(old)
  BY <1>1, LenProperties DEF Sound, State
<1>4. t.buffers = [s.buffers EXCEPT ![p] = [old EXCEPT ![j] = [old[j] EXCEPT !.status = x]]]
  BY <1>3 DEF Restatus, State
<1>5. old[j] \in ChatMsg
  BY <1>3, ElementOfSeq
<1>6. t.buffers[p] = [old EXCEPT ![j] = [old[j] EXCEPT !.status = x]]
      /\ \A q \in Peers : q # p => t.buffers[q] = s.buffers[q]
  BY <1>3, <1>4
<1>. HIDE DEF t
<1>7. Exact(t)
  <2>1. Exact(s)
    BY DEF Faithful
  <2>. QED
    BY <1>2, <2>1 DEF Exact
<1>8. ASSUME NEW q \in Peers, NEW i \in DOMAIN t.buffers[q]
      PROVE  Genuine(t.buffers[q][i], W, R)
  <2>1. i \in DOMAIN s.buffers[q] /\ t.buffers[q][i].row = s.buffers[q][i].row
    BY <1>2, <1>8
  <2>2. Genuine(s.buffers[q][i], W, R)
    BY <2>1 DEF Faithful
  <2>3. CASE q = p /\ i = j
    <3>1. t.buffers[q][i].status = x
      <4>1. t.buffers[q][i] = [old[j] EXCEPT !.status = x]
        BY <1>6, <2>3
      <4>. QED
        BY <1>5, <4>1 DEF ChatMsg
    <3>. QED
      BY <2>1, <2>2, <2>3, <3>1 DEF Genuine
  <2>4. CASE ~(q = p /\ i = j)
    <3>1. t.buffers[q][i] = s.buffers[q][i]
      BY <1>6, <2>1, <2>4
    <3>. QED
      BY <2>2, <3>1
  <2>. QED
    BY <2>3, <2>4
<1>. QED
  BY <1>2, <1>7, <1>8 DEF Faithful, t

LEMMA UpgradeFaithful ==
    ASSUME NEW s, NEW W, NEW R, Faithful(s, W, R), Unambiguous(W),
           NEW p \in Peers, NEW m \in ChatMsg, Genuine(m, W, R), m.row.id \in DOMAIN s.index
    PROVE  Faithful(Upgrade(s, p, m), W, R)
<1>. DEFINE at == s.index[m.row.id]
<1>1. CASE /\ at.peer = p
           /\ s.buffers[p][at.pos].status \notin {m.status, "delivered"}
  <2>1. Upgrade(s, p, m) = Restatus(s, p, at.pos, m.status)
    BY <1>1 DEF Upgrade, Restatus
  <2>2. at.pos \in DOMAIN s.buffers[p] /\ s.buffers[p][at.pos].row.id = m.row.id
    BY <1>1, EntryLeads
  <2>. HIDE DEF at
  <2>3. s.buffers[p][at.pos].row \in W
    BY <2>2 DEF Faithful, Genuine
  <2>4. s.buffers[p][at.pos].row = m.row
    BY <2>2, <2>3 DEF Genuine, Unambiguous
  <2>5. m.status \in Status
    BY DEF ChatMsg
  <2>6. Faithful(Restatus(s, p, at.pos, m.status), W, R)
    BY <2>2, <2>4, <2>5, RestatusFaithful DEF Genuine
  <2>. QED
    BY <2>1, <2>6
<1>2. CASE ~(/\ at.peer = p
             /\ s.buffers[p][at.pos].status \notin {m.status, "delivered"})
  BY <1>2 DEF Upgrade
<1>. QED
  BY <1>1, <1>2

\* An ack or a failure, which reaches the message it is for.
LEMMA UpdateStatusFaithful ==
    ASSUME NEW s, NEW W, NEW R, Faithful(s, W, R), NEW id, NEW x \in Status,
           x \in {"server_received", "delivered"} => \A r \in W : r.id = id => r \in R
    PROVE  Faithful(UpdateStatus(s, id, x), W, R)
<1>. DEFINE at == s.index[id]
<1>1. CASE id \in DOMAIN s.index /\ at.pos <= Len(s.buffers[at.peer])
  <2>1. UpdateStatus(s, id, x) = Restatus(s, at.peer, at.pos, x)
    BY <1>1 DEF UpdateStatus, Restatus
  <2>2. /\ at.peer \in Peers /\ at.pos \in DOMAIN s.buffers[at.peer]
        /\ s.buffers[at.peer][at.pos].row.id = id
    BY <1>1, EntryLeads
  <2>. HIDE DEF at
  <2>3. s.buffers[at.peer][at.pos].row \in W
    BY <2>2 DEF Faithful, Genuine
  <2>4. Faithful(Restatus(s, at.peer, at.pos, x), W, R)
    BY <2>2, <2>3, RestatusFaithful
  <2>. QED
    BY <2>1, <2>4
<1>2. CASE ~(id \in DOMAIN s.index /\ at.pos <= Len(s.buffers[at.peer]))
  BY <1>2 DEF UpdateStatus
<1>. QED
  BY <1>1, <1>2

\* Messages have different ids, so that one more has room where a buffer may
\* hold as many as are ever written.
LEMMA RoomLeft ==
    ASSUME MaxMsgs <= MaxBuffer, NEW s, Sound(s), NEW p \in Peers,
           NEW id \in MsgId \ DOMAIN s.index
    PROVE  Len(s.buffers[p]) < MaxBuffer
<1>. DEFINE buf == s.buffers[p]
            n   == Len(buf)
            f   == [i \in 1 .. n |-> buf[i].row.id]
            T   == MsgId \ {id}
<1>1. buf \in Seq(ChatMsg) /\ n \in Nat /\ DOMAIN buf = 1 .. n
  BY LenProperties DEF Sound, State
<1>2. IndexCovers(s)
  BY DEF Sound
<1>3. \A i \in 1 .. n : f[i] \in T
  <2>. TAKE i \in 1 .. n
  <2>1. buf[i] \in ChatMsg
    BY <1>1, ElementOfSeq
  <2>2. buf[i].row.id \in MsgId
    BY <2>1 DEF ChatMsg, Row
  <2>3. buf[i].row.id \in Held(s, p)
    BY <1>1 DEF Held
  <2>4. buf[i].row.id \in DOMAIN s.index
    BY <1>2, <2>3 DEF IndexCovers
  <2>. QED
    BY <2>2, <2>4
<1>4. \A i, j \in 1 .. n : f[i] = f[j] => i = j
  BY <1>1, <1>2 DEF IndexCovers
<1>5. f \in [1 .. n -> T]
  BY <1>3
<1>. HIDE DEF f
<1>6. f \in Injection(1 .. n, T)
  BY <1>4, <1>5 DEF Injection, IsInjective
<1>7. IsFiniteSet(MsgId) /\ Cardinality(MsgId) = MaxMsgs /\ MaxMsgs \in Nat /\ MaxBuffer \in Nat
  <2>1. MaxMsgs \in Nat /\ MaxBuffer \in Nat
    BY StateAssumption
  <2>2. IsFiniteSet(1 .. MaxMsgs)
        /\ Cardinality(1 .. MaxMsgs) = IF 1 > MaxMsgs THEN 0 ELSE MaxMsgs - 1 + 1
    BY <2>1, FS_Interval
  <2>. QED
    BY <2>1, <2>2 DEF MsgId
<1>8. IsFiniteSet(T) /\ Cardinality(T) = MaxMsgs - 1
  BY <1>7, FS_RemoveElement
<1>. HIDE DEF T
<1>9. Cardinality(1 .. n) <= Cardinality(T)
  BY <1>6, <1>8, FS_Injection
<1>10. Cardinality(1 .. n) = n
  BY <1>1, FS_Interval
<1>. HIDE DEF n
<1>11. n <= MaxMsgs - 1
  BY <1>8, <1>9, <1>10
<1>. QED
  BY <1>1, <1>7, <1>11 DEF n

\* A new message, which drops none.
LEMMA InsertFaithful ==
    ASSUME MaxMsgs <= MaxBuffer, NEW s, NEW W, NEW R, Faithful(s, W, R),
           NEW p \in Peers, NEW m \in ChatMsg, Genuine(m, W, R), m.row.id \notin DOMAIN s.index
    PROVE  Faithful(Insert(s, p, m), W, R)
<1>. DEFINE old  == s.buffers[p]
            all  == Append(old, m)
            e    == Excess(all)
            new  == SubSeq(all, e + 1, Len(all))
            gone == {all[i].row.id : i \in 1 .. e}
            id   == m.row.id
            at   == [peer |-> p, pos |-> Place(all)]
            g    == Indexed(Unindexed(s.index, gone), id, at)
            t    == Insert(s, p, m)
<1>0. Sound(s) /\ Exact(s) /\ id \in MsgId
  BY DEF Faithful, ChatMsg, Row
<1>1. /\ s \in State /\ s.buffers \in [Peers -> Seq(ChatMsg)] /\ s.index \in Index
      /\ old \in Seq(ChatMsg) /\ Len(old) \in Nat /\ DOMAIN old = 1 .. Len(old)
      /\ MaxBuffer \in Nat
  BY <1>0, StateAssumption, LenProperties DEF Sound, State
<1>2. Len(old) < MaxBuffer
  BY <1>0, RoomLeft
<1>3. /\ e \in {0, 1} /\ (e = 1 => Len(old) = MaxBuffer)
      /\ new \in Seq(ChatMsg)
      /\ Len(new) = Len(old) + 1 - e
      /\ Place(all) = Len(new)
      /\ new[Len(new)] = m /\ Len(new) \in 1 .. MaxBuffer
      /\ \A i \in 1 .. Len(new) : i # Len(new) => i + e \in 1 .. Len(old) /\ new[i] = old[i + e]
  <2>1. Len(old) <= MaxBuffer
    BY <1>1, <1>2
  <2>. QED
    BY <1>1, <2>1, AppendedBuffer
<1>4. t = [s EXCEPT !.buffers = [s.buffers EXCEPT ![p] = new], !.index = g]
  BY DEF Insert
<1>. HIDE DEF all, new, t
<1>5. e = 0
  BY <1>1, <1>2, <1>3
<1>6. gone = {}
  BY <1>5
<1>7. at \in Entry
  BY <1>3 DEF Entry
<1>. HIDE DEF gone, id, at, e
<1>8. g[id] = at /\ \A x \in DOMAIN s.index : x # id => g[x] = s.index[x]
  <2>1. Reindexed(s.index, gone, id, at, g)
    BY <1>0, <1>1, <1>7, IndexAfter
  <2>. HIDE DEF g
  <2>. QED
    BY <1>6, <2>1 DEF Reindexed
<1>. HIDE DEF g
<1>9. t.buffers = [s.buffers EXCEPT ![p] = new] /\ t.index = g
  BY <1>1, <1>4 DEF State
<1>10. t.buffers[p] = new /\ \A q \in Peers : q # p => t.buffers[q] = s.buffers[q]
  BY <1>1, <1>9
<1>11. Sound(t)
  BY <1>0, InsertSound DEF t, id
<1>12. Len(new) = Len(old) + 1 /\ DOMAIN new = 1 .. Len(new)
       /\ new[Len(old) + 1] = m
  BY <1>1, <1>3, <1>5, LenProperties
<1>13. \A i \in 1 .. Len(new) : i = Len(old) + 1 \/ (i \in 1 .. Len(old) /\ new[i] = old[i])
  BY <1>1, <1>3, <1>5, <1>12
<1>14. \A q \in Peers : \A i \in DOMAIN s.buffers[q] :
         /\ s.buffers[q][i].row.id \in DOMAIN s.index
         /\ s.buffers[q][i].row.id # id
  <2>. TAKE q \in Peers
  <2>. TAKE i \in DOMAIN s.buffers[q]
  <2>1. s.buffers[q][i].row.id \in Held(s, q)
    BY DEF Held
  <2>2. s.buffers[q][i].row.id \in DOMAIN s.index
    BY <1>0, <2>1 DEF Sound, IndexCovers
  <2>. QED
    BY <2>2 DEF id
<1>15. ASSUME NEW q \in Peers, NEW i \in DOMAIN t.buffers[q]
       PROVE  \/ /\ q = p /\ i = Len(old) + 1 /\ t.buffers[q][i] = m
              \/ i \in DOMAIN s.buffers[q] /\ t.buffers[q][i] = s.buffers[q][i]
  <2>1. CASE q = p
    <3>1. i \in 1 .. Len(new)
      BY <1>10, <1>12, <1>15, <2>1
    <3>. QED
      BY <1>1, <1>10, <1>12, <1>13, <2>1, <3>1
  <2>2. CASE q # p
    BY <1>10, <1>15, <2>2
  <2>. QED
    BY <2>1, <2>2
<1>16. ASSUME NEW q \in Peers, NEW i \in DOMAIN t.buffers[q]
       PROVE  t.index[t.buffers[q][i].row.id].pos = i /\ Genuine(t.buffers[q][i], W, R)
  <2>1. CASE q = p /\ i = Len(old) + 1 /\ t.buffers[q][i] = m
    <3>1. at.pos = Len(old) + 1
      BY <1>3, <1>12 DEF at
    <3>2. t.index[t.buffers[q][i].row.id] = at
      BY <1>8, <1>9, <2>1 DEF id
    <3>. QED
      BY <2>1, <3>1, <3>2
  <2>2. CASE i \in DOMAIN s.buffers[q] /\ t.buffers[q][i] = s.buffers[q][i]
    <3>1. t.index[t.buffers[q][i].row.id] = s.index[s.buffers[q][i].row.id]
      BY <1>8, <1>9, <1>14, <2>2
    <3>2. s.index[s.buffers[q][i].row.id].pos = i
      BY <1>0, <2>2 DEF Exact
    <3>3. Genuine(s.buffers[q][i], W, R)
      BY <2>2 DEF Faithful
    <3>. QED
      BY <2>2, <3>1, <3>2, <3>3
  <2>. QED
    BY <1>15, <2>1, <2>2
<1>. QED
  BY <1>11, <1>16 DEF Faithful, Exact, t

LEMMA BufferAppendFaithful ==
    ASSUME MaxMsgs <= MaxBuffer, NEW s, NEW W, NEW R, Faithful(s, W, R), Unambiguous(W),
           NEW p \in Peers, NEW m \in ChatMsg, Genuine(m, W, R)
    PROVE  Faithful(BufferAppend(s, p, m), W, R)
<1>. DEFINE a == AddPeer(s, p)
<1>1. Sound(a) /\ a.buffers = s.buffers /\ a.index = s.index
  BY AddPeerSound DEF Faithful
<1>2. BufferAppend(s, p, m) = IF m.row.id \in DOMAIN a.index THEN Upgrade(a, p, m)
                                                            ELSE Insert(a, p, m)
  BY DEF BufferAppend
<1>. HIDE DEF a
<1>3. Faithful(a, W, R)
  BY <1>1, FaithfulSame
<1>4. CASE m.row.id \in DOMAIN a.index
  BY <1>2, <1>3, <1>4, UpgradeFaithful
<1>5. CASE m.row.id \notin DOMAIN a.index
  BY <1>2, <1>3, <1>5, InsertFaithful
<1>. QED
  BY <1>4, <1>5

\* A row of the table as sync, history and frames show it.
LEMMA DeliveredGenuine ==
    ASSUME NEW W, NEW R, R \subseteq W, NEW row \in Ours, row \in R
    PROVE  Chat(row, "delivered") \in ChatMsg /\ Genuine(Chat(row, "delivered"), W, R)
BY PeerOfOurs DEF Chat, ChatMsg, Status, Genuine

LEMMA ReceiveFaithful ==
    ASSUME MaxMsgs <= MaxBuffer, NEW s, NEW W, NEW R, Faithful(s, W, R), Unambiguous(W),
           R \subseteq W, NEW row \in Ours, row \in R
    PROVE  Faithful(Receive(s, row), W, R)
<1>. DEFINE p == PeerOf(row)
            t == BufferAppend(s, p, Chat(row, "delivered"))
            r == Receive(s, row)
<1>1. Faithful(t, W, R)
  BY PeerOfOurs, DeliveredGenuine, BufferAppendFaithful
<1>2. Sound(r)
  BY ReceiveSound DEF Faithful
<1>3. r.buffers = t.buffers /\ r.index = t.index
  <2>1. t \in State
    BY <1>1 DEF Faithful, Sound
  <2>2. r \in {t, [t EXCEPT !.unread[p] = @ + 1]}
    BY DEF Receive
  <2>. HIDE DEF t, r
  <2>. QED
    BY <2>1, <2>2 DEF State
<1>. HIDE DEF t, r
<1>4. Faithful(r, W, R)
  BY <1>1, <1>2, <1>3, FaithfulSame
<1>. QED
  BY <1>4 DEF r

LEMMA ReceiveAllFaithful ==
    ASSUME MaxMsgs <= MaxBuffer, NEW s, NEW W, NEW R, Faithful(s, W, R), Unambiguous(W),
           R \subseteq W, NEW items \in Seq(Ours), Range(items) \subseteq R
    PROVE  Faithful(FoldLeft(Receive, s, items), W, R)
<1>0. PICK h : Receiving(h, s, items)
  BY ReceiveOneByOne
<1>1. /\ h[0] = s /\ h[Len(items)] = FoldLeft(Receive, s, items)
      /\ \A i \in 1 .. Len(items) : h[i] = Receive(h[i - 1], items[i])
  BY <1>0 DEF Receiving
<1>. DEFINE S == {i \in 0 .. Len(items) : Faithful(h[i], W, R)}
<1>2. Len(items) \in Nat /\ DOMAIN items = 1 .. Len(items)
  BY LenProperties
<1>3. 0 \in S
  BY <1>1, <1>2
<1>4. ASSUME NEW i \in 1 .. Len(items), i - 1 \in S PROVE i \in S
  <2>1. items[i] \in Ours
    BY ElementOfSeq
  <2>2. items[i] \in R
    BY <1>2 DEF Range
  <2>3. Faithful(h[i - 1], W, R)
    BY <1>4
  <2>4. Faithful(h[i], W, R)
    BY <1>1, <2>1, <2>2, <2>3, ReceiveFaithful
  <2>. QED
    BY <1>2, <2>4
<1>. HIDE DEF S
<1>5. Len(items) \in S
  BY <1>2, <1>3, <1>4, Climb
<1>. QED
  BY <1>1, <1>5 DEF S

LEMMA ClearedFaithful ==
    ASSUME NEW s, NEW W, NEW R, Faithful(s, W, R), NEW p \in Peers
    PROVE  Faithful(Cleared(s, p), W, R)
<1>. DEFINE gone == {id \in DOMAIN s.index : s.index[id].peer = p}
            g    == Unindexed(s.index, gone)
            b    == [s.buffers EXCEPT ![p] = <<>>]
            t    == Cleared(s, p)
<1>1. Sound(s) /\ Sound(t) /\ Exact(s)
  BY ClearedSound DEF Faithful
<1>2. s \in State /\ s.buffers \in [Peers -> Seq(ChatMsg)]
  BY <1>1 DEF Sound, State
<1>3. \A x \in DOMAIN s.index \ gone : g[x] = s.index[x]
  <2>1. g = [x \in DOMAIN s.index \cap (DOMAIN s.index \ gone) |-> s.index[x]]
    BY DEF Unindexed, Restrict
  <2>. QED
    BY <2>1
<1>4. t = [s EXCEPT !.buffers = b, !.index = g]
  BY DEF Cleared
<1>5. b[p] = <<>> /\ \A q \in Peers : q # p => b[q] = s.buffers[q]
  BY <1>2
<1>. HIDE DEF b, g, t
<1>6. t.buffers = b /\ t.index = g
  BY <1>2, <1>4 DEF State
<1>7. ASSUME NEW q \in Peers, NEW i \in DOMAIN t.buffers[q]
      PROVE  t.index[t.buffers[q][i].row.id].pos = i /\ Genuine(t.buffers[q][i], W, R)
  <2>1. q # p
    BY <1>5, <1>6, <1>7, EmptySeq
  <2>2. t.buffers[q] = s.buffers[q] /\ i \in DOMAIN s.buffers[q]
    BY <1>5, <1>6, <1>7, <2>1
  <2>3. s.buffers[q][i].row.id \in DOMAIN s.index \ gone
    <3>1. s.buffers[q][i].row.id \in Held(s, q)
      BY <2>2 DEF Held
    <3>2. s.buffers[q][i].row.id \in DOMAIN s.index
      BY <1>1, <3>1 DEF Sound, IndexCovers
    <3>3. s.index[s.buffers[q][i].row.id].peer = q
      BY <1>1, <2>2 DEF Sound, IndexCovers
    <3>. QED
      BY <2>1, <3>2, <3>3
  <2>4. s.index[s.buffers[q][i].row.id].pos = i
    BY <1>1, <2>2 DEF Exact
  <2>5. Genuine(s.buffers[q][i], W, R)
    BY <2>2 DEF Faithful
  <2>. QED
    BY <1>3, <1>6, <2>2, <2>3, <2>4, <2>5
<1>. QED
  BY <1>1, <1>7 DEF Faithful, Exact, t

LEMMA ReplaceBufferFaithful ==
    ASSUME MaxMsgs <= MaxBuffer, NEW s, NEW W, NEW R, Faithful(s, W, R), Unambiguous(W),
           R \subseteq W, NEW p \in Peers, NEW items \in Seq(Ours), Range(items) \subseteq R
    PROVE  Faithful(ReplaceBuffer(s, p, items), W, R)
<1>0. PICK h : Loading(h, s, p, items)
  BY LoadOneByOne
<1>1. /\ h[0] = Cleared(s, p) /\ h[Len(items)] = ReplaceBuffer(s, p, items)
      /\ \A i \in 1 .. Len(items) : h[i] = Load(h[i - 1], p, items[i])
  BY <1>0 DEF Loading
<1>. DEFINE S == {i \in 0 .. Len(items) : Faithful(h[i], W, R)}
<1>2. Len(items) \in Nat /\ DOMAIN items = 1 .. Len(items)
  BY LenProperties
<1>3. 0 \in S
  BY <1>1, <1>2, ClearedFaithful
<1>4. ASSUME NEW i \in 1 .. Len(items), i - 1 \in S PROVE i \in S
  <2>1. items[i] \in Ours
    BY ElementOfSeq
  <2>2. items[i] \in R
    BY <1>2 DEF Range
  <2>3. Chat(items[i], "delivered") \in ChatMsg /\ Genuine(Chat(items[i], "delivered"), W, R)
    BY <2>1, <2>2, DeliveredGenuine
  <2>4. Faithful(h[i - 1], W, R)
    BY <1>4
  <2>5. Faithful(h[i], W, R)
    BY <1>1, <2>3, <2>4, BufferAppendFaithful DEF Load
  <2>. QED
    BY <1>2, <2>5
<1>. HIDE DEF S
<1>5. Len(items) \in S
  BY <1>2, <1>3, <1>4, Climb
<1>. QED
  BY <1>1, <1>5 DEF S

LEMMA OpenedFaithful ==
    ASSUME NEW s, NEW W, NEW R, Faithful(s, W, R), NEW p \in Peers
    PROVE  Faithful(Opened(s, p), W, R)
<1>. DEFINE o == Opened(s, p)
<1>1. Sound(s) /\ s \in State /\ Sound(o)
  BY OpenedSound DEF Faithful, Sound
<1>2. o.buffers = s.buffers /\ o.index = s.index
  BY <1>1 DEF Opened, AddPeer, State
<1>. HIDE DEF o
<1>3. Faithful(o, W, R)
  BY <1>1, <1>2, FaithfulSame
<1>. QED
  BY <1>3 DEF o

LEMMA EmptyFaithful ==
    ASSUME NEW s, Sound(s), s.buffers = [p \in Peers |-> <<>>], NEW W, NEW R
    PROVE  Faithful(s, W, R)
<1>1. \A p \in Peers : DOMAIN s.buffers[p] = {}
  BY EmptySeq
<1>. QED
  BY <1>1 DEF Faithful, Exact
=============================================================================
