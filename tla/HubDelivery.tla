---------------------------- MODULE HubDelivery ----------------------------
(***************************************************************************)
(* Theorems about Hub, for every value of its constants: what becomes of a *)
(* message between the insert of its row and the frames its receiver and   *)
(* its sender are sent for it.                                             *)
(***************************************************************************)
EXTENDS HubProofs, FiniteSetTheorems

----------------------------------------------------------------------------
(* What every step does to the streams, that is, to the frames in the      *)
(* channels and on the wires taken together.  What the theorems say of     *)
(* frames rests on these lemmas alone.                                     *)

\* The frames with which the hub tells a sender what became of a message.
Outcomes == {"delivered", "offline", "failed"}

\* A frame of Stream(k) that the hub puts there when it serves a request.
Decides(k, f) == FromPeer(k, f) \/ f.type \in Outcomes

----------------------------------------------------------------------------
\* Streams are sequences of frames; a message in a place where it is handled
\* is a message.
LEMMA StreamType ==
    ASSUME TypeInv, NEW k \in Conns
    PROVE  /\ Stream(k) \in Seq(Frame)
           /\ wire[k] \in Seq(Frame) /\ chan[k].buf \in Seq(Frame)
           /\ Len(Stream(k)) = Len(wire[k]) + Len(chan[k].buf)
<1>1. wire[k] \in Seq(Frame) /\ chan[k].buf \in Seq(Frame)
  BY DEF TypeInv, TypeOK, Channel
<1>. QED
  BY <1>1, ConcatProperties DEF Stream

\* So they are after a step.
LEMMA NextStreamType ==
    ASSUME TypeInv', NEW k \in Conns
    PROVE  /\ Stream(k)' \in Seq(Frame)
           /\ \A i \in DOMAIN (Stream(k)') : i \in Nat /\ Stream(k)'[i] \in Frame
<1>1. wire'[k] \in Seq(Frame) /\ chan'[k].buf \in Seq(Frame)
  BY DEF TypeInv, TypeOK, Channel
<1>2. Stream(k)' \in Seq(Frame)
  BY <1>1, ConcatProperties DEF Stream
<1>3. DOMAIN (Stream(k)') = 1 .. Len(Stream(k)') /\ Len(Stream(k)') \in Nat
  BY <1>2, LenProperties
<1>. QED
  BY <1>2, <1>3, ElementOfSeq

\* Moving the head of one sequence to the end of the other leaves their
\* concatenation as it is.
LEMMA HeadMoves ==
    ASSUME NEW S, NEW w \in Seq(S), NEW b \in Seq(S), b # <<>>
    PROVE  Append(w, Head(b)) \o Tail(b) = w \o b
<1>. DEFINE h == Head(b)
           t == Tail(b)
<1>1. h \in S /\ t \in Seq(S) /\ b = <<h>> \o t
  BY HeadTailProperties
<1>. HIDE DEF h, t
<1>2. <<h>> \in Seq(S) /\ Append(w, h) = w \o <<h>>
  BY <1>1, AppendIsConcat
<1>3. (w \o <<h>>) \o t = w \o (<<h>> \o t)
  BY <1>1, <1>2, ConcatAssociative
<1>. QED
  BY <1>1, <1>2, <1>3 DEF h, t

\* A frame offered to a channel comes last in its stream, if it fits.
LEMMA OfferStream ==
    ASSUME NEW w \in Seq(Frame), NEW ch \in Channel, NEW f \in Frame
    PROVE  /\ w \o Offer(ch, f).buf \in {w \o ch.buf, Append(w \o ch.buf, f)}
           /\ ch.open /\ Len(ch.buf) < SendCap =>
                w \o Offer(ch, f).buf = Append(w \o ch.buf, f)
<1>. DEFINE b == ch.buf
<1>1. b \in Seq(Frame)
  BY DEF Channel
<1>2. CASE ch.open /\ Len(ch.buf) < SendCap
  <2>1. Offer(ch, f).buf = Append(b, f)
    BY <1>2 DEF Offer, Channel
  <2>2. w \o Append(b, f) = Append(w \o b, f)
    <3>. HIDE DEF b
    <3>1. Append(b, f) = b \o <<f>> /\ Append(w \o b, f) = (w \o b) \o <<f>>
      BY <1>1, AppendIsConcat, ConcatProperties
    <3>2. <<f>> \in Seq(Frame)
      OBVIOUS
    <3>. QED
      BY <1>1, <3>1, <3>2, ConcatAssociative
  <2>. QED
    BY <2>1, <2>2
<1>3. CASE ~(ch.open /\ Len(ch.buf) < SendCap)
  BY <1>3 DEF Offer
<1>. QED
  BY <1>2, <1>3

\* A handler that enqueues a frame lengthens its own stream by it, or leaves
\* all streams as they are.
LEMMA EnqueueStreams ==
    ASSUME TypeInv, NEW c \in Conns, NEW f \in Frame, NEW next,
           Enqueue(c, f, next), wire' = wire, NEW k \in Conns
    PROVE  \/ Stream(k)' = Stream(k)
           \/ k = c /\ Stream(k)' = Append(Stream(k), f)
<1>1. chan' = [chan EXCEPT ![c] = Offer(chan[c], f)] /\ chan \in [Conns -> Channel]
  BY DEF Enqueue, TypeInv, TypeOK
<1>2. CASE k = c
  <2>1. Stream(k)' = wire[k] \o Offer(chan[k], f).buf
    BY <1>1, <1>2 DEF Stream
  <2>. QED
    BY <1>1, <1>2, <2>1, StreamType, OfferStream DEF Stream
<1>3. CASE k # c
  BY <1>1, <1>3 DEF Stream
<1>. QED
  BY <1>2, <1>3

\* A handler's frames are about its own message, and none decides on it.
LEMMA HandlerStreams ==
    ASSUME TypeInv, NEW c \in Conns, HandlerStep(c), NEW k \in Conns,
           pc[c] = "echoing" => out[c].conn = c
    PROVE  \/ Stream(k)' = Stream(k)
           \/ /\ k = c
              /\ \E f \in Frame :
                   /\ Stream(k)' = Append(Stream(k), f)
                   /\ ~Decides(k, f)
                   /\ f.type = "ack" => pc[c] = "acking" /\ f.msg = out[c]
<1>types. {"info", "error", "ack", "msg"} \subseteq FrameTypes
  BY DEF FrameTypes
<1>out. out[c] \in Message \cup {NoMsg}
  BY DEF TypeInv, TypeOK
<1>1. CASE Greet(c)
  <2>1. WSOut("info", NoMsg) \in Frame /\ Enqueue(c, WSOut("info", NoMsg), "reading")
        /\ wire' = wire
    BY <1>1, <1>types, FrameType DEF Greet
  <2>2. ~Decides(k, WSOut("info", NoMsg)) /\ WSOut("info", NoMsg).type # "ack"
    BY DEF Decides, FromPeer, WSOut, Outcomes
  <2>. QED
    BY <2>1, <2>2, EnqueueStreams
<1>2. CASE ReadRejected(c)
  <2>1. WSOut("error", NoMsg) \in Frame /\ Enqueue(c, WSOut("error", NoMsg), "reading")
        /\ wire' = wire
    BY <1>2, <1>types, FrameType DEF ReadRejected
  <2>2. ~Decides(k, WSOut("error", NoMsg)) /\ WSOut("error", NoMsg).type # "ack"
    BY DEF Decides, FromPeer, WSOut, Outcomes
  <2>. QED
    BY <2>1, <2>2, EnqueueStreams
<1>3. CASE ReadMsg(c) \/ HandToHub(c) \/ ReadFails(c)
  BY <1>3 DEF ReadMsg, HandToHub, ReadFails, Stream
<1>4. CASE Ack(c)
  <2>1. WSOut("ack", out[c]) \in Frame /\ Enqueue(c, WSOut("ack", out[c]), "echoing")
        /\ wire' = wire /\ pc[c] = "acking"
    BY <1>4, <1>types, <1>out, FrameType DEF Ack
  <2>2. ~Decides(k, WSOut("ack", out[c])) /\ WSOut("ack", out[c]).msg = out[c]
    BY DEF Decides, FromPeer, WSOut, Outcomes
  <2>. QED
    BY <2>1, <2>2, EnqueueStreams
<1>5. CASE Echo(c)
  <2>. DEFINE next == IF inserted[c] THEN "handing" ELSE "reading"
  <2>1. WSOut("msg", out[c]) \in Frame /\ Enqueue(c, WSOut("msg", out[c]), next)
        /\ wire' = wire /\ out[c].conn = c
    BY <1>5, <1>types, <1>out, FrameType DEF Echo
  <2>. HIDE DEF next
  <2>2. ~Decides(c, WSOut("msg", out[c])) /\ WSOut("msg", out[c]).type # "ack"
    BY <2>1 DEF Decides, FromPeer, WSOut, Outcomes
  <2>. QED
    BY <2>1, <2>2, EnqueueStreams
<1>. QED
  BY <1>1, <1>2, <1>3, <1>4, <1>5 DEF HandlerStep

\* A writePump moves the oldest frame of its channel to the wire, or loses it
\* with its connection.
LEMMA WriterStreams ==
    ASSUME TypeInv, NEW c \in Conns, WriterStep(c), NEW k \in Conns
    PROVE  \/ Stream(k)' = Stream(k)
           \/ /\ k = c /\ chan[k].buf # <<>>
              /\ Stream(k)' = wire[k] \o Tail(chan[k].buf)
              /\ WriteFails(k)
<1>0. /\ chan \in [Conns -> Channel] /\ wire \in [Conns -> Seq(Frame)]
      /\ writer \in [Conns -> {"off", "on", "done"}]
  BY DEF TypeInv, TypeOK
<1>1. CASE WriteFrame(c)
  <2>1. CASE k = c
    <3>. DEFINE b == chan[k].buf
    <3>1. b \in Seq(Frame) /\ b # <<>>
      BY <1>0, <1>1, <2>1 DEF WriteFrame, Channel
    <3>2. Stream(k)' = Append(wire[k], Head(b)) \o Tail(b)
      BY <1>0, <1>1, <2>1 DEF WriteFrame, Stream, Channel
    <3>. HIDE DEF b
    <3>3. Append(wire[k], Head(b)) \o Tail(b) = wire[k] \o b
      BY <1>0, <3>1, HeadMoves
    <3>. QED
      BY <3>2, <3>3 DEF Stream, b
  <2>2. CASE k # c
    BY <1>0, <1>1, <2>2 DEF WriteFrame, Stream
  <2>. QED
    BY <2>1, <2>2
<1>2. CASE WriteFails(c)
  BY <1>0, <1>2 DEF WriteFails, Stream, Channel
<1>3. CASE PingFails(c) \/ SendCloseFrame(c)
  BY <1>3 DEF PingFails, SendCloseFrame, Stream
<1>. QED
  BY <1>1, <1>2, <1>3 DEF WriterStep

\* Closing channels puts nothing into them and takes nothing out.
LEMMA RegistrationStreams ==
    ASSUME TypeInv, NEW c \in Conns, Register(c) \/ Unregister(c), NEW k \in Conns
    PROVE  Stream(k)' = Stream(k)
<1>0. chan \in [Conns -> Channel]
  BY DEF TypeInv, TypeOK
<1>1. ASSUME NEW S, Close(S) PROVE chan'[k].buf = chan[k].buf
  BY <1>0, <1>1 DEF Close, Channel
<1>. QED
  BY <1>1 DEF Register, Unregister, Stream

\* What all ways to serve a request know of it.
LEMMA RequestHead ==
    ASSUME TypeInv, sendTo # <<>>
    PROVE  /\ Head(sendTo) \in Message
           /\ Head(sendTo).to \in Users /\ Head(sendTo).conn \in Conns
           /\ 1 \in DOMAIN sendTo /\ sendTo[1] = Head(sendTo)
           /\ DOMAIN Tail(sendTo) = 1 .. Len(sendTo) - 1
           /\ DOMAIN sendTo = 1 .. Len(sendTo) /\ Len(sendTo) \in Nat
           /\ \A i \in DOMAIN Tail(sendTo) :
                i + 1 \in DOMAIN sendTo /\ Tail(sendTo)[i] = sendTo[i + 1]
<1>1. sendTo \in Seq(Message)
  BY DEF TypeInv, TypeOK
<1>2. /\ Head(sendTo) \in Message /\ Tail(sendTo) \in Seq(Message)
      /\ Len(Tail(sendTo)) = Len(sendTo) - 1
      /\ \A i \in 1 .. Len(Tail(sendTo)) : Tail(sendTo)[i] = sendTo[i + 1]
  BY <1>1, HeadTailProperties
<1>3. Len(sendTo) \in Nat /\ DOMAIN sendTo = 1 .. Len(sendTo) /\ Len(sendTo) # 0
  BY <1>1, LenProperties, EmptySeq
<1>4. DOMAIN Tail(sendTo) = 1 .. Len(sendTo) - 1
  BY <1>2, LenProperties
<1>5. sendTo[1] = Head(sendTo)
  BY <1>1
<1>. QED
  BY <1>2, <1>3, <1>4, <1>5 DEF Message

\* A message that cannot be handed on: its sender's stream may get an answer.
LEMMA RefusedStreams ==
    ASSUME Registry, SendToOffline \/ SendToSlow, NEW k \in Conns
    PROVE  \/ Stream(k)' = Stream(k)
           \/ /\ k = Head(sendTo).conn
              /\ \E type \in {"offline", "failed"} :
                   Stream(k)' = Append(Stream(k), WSOut(type, Head(sendTo)))
<1>. DEFINE m == Head(sendTo)
<1>0. /\ m \in Message /\ m.conn \in Conns /\ chan \in [Conns -> Channel]
      /\ wire \in [Conns -> Seq(Frame)] /\ wire' = wire
  BY RequestHead DEF Registry, TypeInv, TypeOK, SendToOffline, SendToSlow, TakeRequest
<1>1. ASSUME NEW ch \in [Conns -> Channel], NEW type \in {"offline", "failed"},
             \A l \in Conns : ch[l].buf = chan[l].buf,
             Reply(ch, m.conn, WSOut(type, m))
      PROVE  \/ Stream(k)' = Stream(k)
             \/ k = m.conn /\ Stream(k)' = Append(Stream(k), WSOut(type, m))
  <2>. DEFINE f == WSOut(type, m)
  <2>1. f \in Frame
    BY <1>0, FrameType DEF FrameTypes
  <2>2. chan' = [ch EXCEPT ![m.conn] = Offer(ch[m.conn], f)]
    BY <1>1 DEF Reply
  <2>. HIDE DEF f, m
  <2>3. CASE k = m.conn
    <3>1. Stream(k)' = wire[k] \o Offer(ch[k], f).buf
      BY <1>0, <1>1, <2>2, <2>3 DEF Stream
    <3>2. wire[k] \o Offer(ch[k], f).buf \in {wire[k] \o ch[k].buf, Append(wire[k] \o ch[k].buf, f)}
      BY <1>0, <1>1, <2>1, OfferStream
    <3>. QED
      BY <1>1, <2>3, <3>1, <3>2 DEF Stream, f
  <2>4. CASE k # m.conn
    BY <1>0, <1>1, <2>2, <2>4 DEF Stream
  <2>. QED
    BY <2>3, <2>4
<1>. HIDE DEF m
<1>2. CASE SendToOffline
  <2>1. Reply(chan, m.conn, WSOut("offline", m))
    BY <1>2 DEF SendToOffline, m
  <2>. QED
    BY <1>0, <1>1, <2>1 DEF m
<1>3. CASE SendToSlow
  <2>. DEFINE dst == byUser[m.to]
              ch  == [chan EXCEPT ![dst].open = FALSE]
  <2>1. Reply(ch, m.conn, WSOut("failed", m))
    BY <1>3 DEF SendToSlow, m
  <2>2. ch \in [Conns -> Channel] /\ \A l \in Conns : ch[l].buf = chan[l].buf
    BY <1>0 DEF Channel
  <2>. HIDE DEF ch
  <2>. QED
    BY <1>1, <2>1, <2>2 DEF m
<1>. QED
  BY <1>2, <1>3

\* A message that is handed on: the receiver's stream gets it, for there is
\* room in its open channel; its sender's stream may get the answer.
LEMMA OnlineStreams ==
    ASSUME Registry, SendToOnline
    PROVE  LET m   == Head(sendTo)
               dst == byUser[m.to]
               given(k) == IF k = dst THEN Append(Stream(k), WSOut("msg", m)) ELSE Stream(k)
           IN  /\ dst \in clients /\ dst \in Conns /\ UserOf[dst] = m.to
               /\ \A k \in Conns :
                    \/ Stream(k)' = given(k)
                    \/ k = m.conn /\ Stream(k)' = Append(given(k), WSOut("delivered", m))
<1>. DEFINE m == Head(sendTo)
            dst == byUser[m.to]
            f == WSOut("msg", m)
            d == WSOut("delivered", m)
            queued == [chan EXCEPT ![dst] = Offer(@, f)]
<1>0. /\ m \in Message /\ m.conn \in Conns /\ m.to \in Users /\ chan \in [Conns -> Channel]
      /\ wire \in [Conns -> Seq(Frame)] /\ wire' = wire
  BY RequestHead DEF Registry, TypeInv, TypeOK, SendToOnline, TakeRequest
<1>1. /\ dst \in clients /\ dst \in Conns /\ UserOf[dst] = m.to
      /\ chan[dst].open /\ Len(chan[dst].buf) < SendCap
  BY <1>0 DEF SendToOnline, Registry, TypeInv, TypeOK, RegistryConsistent, OpenIffRegistered, Room
<1>2. f \in Frame /\ d \in Frame
  BY <1>0, FrameType DEF FrameTypes
<1>3. chan' = [queued EXCEPT ![m.conn] = Offer(queued[m.conn], d)]
  BY DEF SendToOnline
<1>. HIDE DEF m, f, d
<1>4. ASSUME NEW k \in Conns
      PROVE  /\ queued[k] \in Channel
             /\ wire[k] \o queued[k].buf = IF k = dst THEN Append(Stream(k), f) ELSE Stream(k)
  <2>1. CASE k = dst
    <3>1. queued[k] = Offer(chan[k], f)
      BY <1>0, <2>1
    <3>2. Offer(chan[k], f) \in Channel
      BY <1>0, <1>2, OfferType DEF Registry, TypeInv, TypeOK
    <3>3. wire[k] \o Offer(chan[k], f).buf = Append(wire[k] \o chan[k].buf, f)
      <4>1. /\ wire[k] \in Seq(Frame) /\ chan[k] \in Channel
            /\ chan[k].open /\ Len(chan[k].buf) < SendCap
        BY <1>0, <1>1, <2>1
      <4>. QED
        BY <1>2, <4>1, OfferStream
    <3>. QED
      BY <2>1, <3>1, <3>2, <3>3 DEF Stream
  <2>2. CASE k # dst
    BY <1>0, <2>2 DEF Stream
  <2>. QED
    BY <2>1, <2>2
<1>5. ASSUME NEW k \in Conns
      PROVE  \/ Stream(k)' = wire[k] \o queued[k].buf
             \/ k = m.conn /\ Stream(k)' = Append(wire[k] \o queued[k].buf, d)
  <2>0. queued \in [Conns -> Channel]
    BY <1>0, <1>4
  <2>. HIDE DEF queued
  <2>1. CASE k = m.conn
    <3>1. Stream(k)' = wire[k] \o Offer(queued[k], d).buf
      BY <1>0, <1>3, <2>0, <2>1 DEF Stream
    <3>. QED
      BY <1>0, <1>2, <2>0, <2>1, <3>1, OfferStream
  <2>2. CASE k # m.conn
    BY <1>0, <1>3, <2>0, <2>2 DEF Stream
  <2>. QED
    BY <2>1, <2>2
<1>. QED
  BY <1>1, <1>4, <1>5 DEF m, f, d

\* A restart leaves what has been written.
LEMMA RestartStreams ==
    ASSUME TypeInv, Restart, NEW k \in Conns
    PROVE  Stream(k)' = wire[k]
<1>1. wire[k] \in Seq(Frame) /\ chan'[k].buf = <<>> /\ wire' = wire
  BY DEF Restart, TypeInv, TypeOK
<1>. QED
  BY <1>1, ConcatEmptySeq DEF Stream
----------------------------------------------------------------------------
(* Where a message is on its way. *)

\* The handler of c has inserted a row and not yet handed its message over.
Held(c) == inserted[c] /\ pc[c] \in {"acking", "echoing", "handing"}

\* Row m comes before row n in the table.
Before(m, n) == \E p, q \in DOMAIN db : p < q /\ db[p] = m /\ db[q] = n

IsRow(m) == \E p \in DOMAIN db : db[p] = m

----------------------------------------------------------------------------
(* The inductive invariant of delivery. *)

\* The UNIQUE column.
RowsUnique == \A p, q \in DOMAIN db : db[p].id = db[q].id => p = q

\* What a handler holds is its own message; it hands over only new rows.
HandlerSound ==
    \A c \in Conns :
        /\ pc[c] \in {"acking", "echoing", "handing"} => out[c].conn = c
        /\ pc[c] = "handing" => inserted[c]
        /\ Held(c) => IsRow(out[c])

\* What is queued at the hub is in the table; requests of one connection are
\* queued in the order of their rows; what its handler holds comes later.
QueueSound ==
    /\ \A i \in DOMAIN sendTo : IsRow(sendTo[i])
    /\ \A i, j \in DOMAIN sendTo :
         i < j /\ sendTo[i].conn = sendTo[j].conn => Before(sendTo[i], sendTo[j])
    /\ \A c \in Conns : Held(c) =>
         \A i \in DOMAIN sendTo : sendTo[i].conn = c => Before(sendTo[i], out[c])

\* What the hub has served is in the table, before all that is still queued
\* or held of the same connection.
ServedSound ==
    \A k \in Conns : \A i \in DOMAIN Stream(k) : Decides(k, Stream(k)[i]) =>
        LET m == Stream(k)[i].msg
        IN  /\ IsRow(m)
            /\ \A j \in DOMAIN sendTo : sendTo[j].conn = m.conn => Before(m, sendTo[j])
            /\ \A c \in Conns : Held(c) /\ m.conn = c => Before(m, out[c])

\* In one stream the messages of one connection are in the order of their rows.
StreamsOrdered ==
    \A k \in Conns : \A i, j \in DOMAIN Stream(k) :
        /\ i < j
        /\ FromPeer(k, Stream(k)[i]) /\ FromPeer(k, Stream(k)[j])
        /\ Stream(k)[i].msg.conn = Stream(k)[j].msg.conn
        => Before(Stream(k)[i].msg, Stream(k)[j].msg)

\* No two frames hand the same message to a receiver, no two tell its outcome.
ServedOnce ==
    \A k, l \in Conns : \A i \in DOMAIN Stream(k), j \in DOMAIN Stream(l) :
        /\ \/ FromPeer(k, Stream(k)[i]) /\ FromPeer(l, Stream(l)[j])
           \/ Stream(k)[i].type \in Outcomes /\ Stream(l)[j].type \in Outcomes
        /\ Stream(k)[i].msg.id = Stream(l)[j].msg.id
        => k = l /\ i = j

Delivery ==
    /\ RowsUnique
    /\ HandlerSound
    /\ QueueSound
    /\ ServedSound
    /\ StreamsOrdered
    /\ ServedOnce

----------------------------------------------------------------------------
(* Steps that decide nothing. *)

\* The deciding frames of t are frames of s, in the order they have there:
\* t is s, possibly with one frame less, or with other frames at its end, or
\* only the beginning of s.
Keeps(k, s, t) ==
    \E n \in Nat : \A i \in DOMAIN t : Decides(k, t[i]) =>
        \/ i <= n /\ i \in DOMAIN s /\ t[i] = s[i]
        \/ i > n /\ i + 1 \in DOMAIN s /\ t[i] = s[i + 1]

\* A stream that stays as it is keeps its deciding frames.
LEMMA KeepsSame ==
    ASSUME NEW k, NEW s \in Seq(Frame)
    PROVE  Keeps(k, s, s)
<1>1. Len(s) \in Nat /\ DOMAIN s = 1 .. Len(s)
  BY LenProperties
<1>. QED
  BY <1>1 DEF Keeps

\* So does one that gets a frame that decides nothing.
LEMMA KeepsAppend ==
    ASSUME NEW k, NEW s \in Seq(Frame), NEW f \in Frame, ~Decides(k, f)
    PROVE  Keeps(k, s, Append(s, f))
<1>. DEFINE t == Append(s, f)
<1>1. /\ Len(s) \in Nat /\ DOMAIN s = 1 .. Len(s)
      /\ DOMAIN t = 1 .. Len(s) + 1
      /\ \A i \in 1 .. Len(s) : t[i] = s[i]
      /\ t[Len(s) + 1] = f
  BY AppendProperties, LenProperties
<1>. HIDE DEF t
<1>2. \A i \in DOMAIN t : Decides(k, t[i]) => i <= Len(s) /\ i \in DOMAIN s /\ t[i] = s[i]
  BY <1>1
<1>. QED
  BY <1>1, <1>2 DEF Keeps, t

\* So does one whose channel loses its first frame to a failed write.
LEMMA KeepsTail ==
    ASSUME NEW k, NEW w \in Seq(Frame), NEW b \in Seq(Frame), b # <<>>
    PROVE  Keeps(k, w \o b, w \o Tail(b))
<1>. DEFINE r == Tail(b)
            s == w \o b
            t == w \o r
<1>1. /\ r \in Seq(Frame) /\ Len(r) = Len(b) - 1
      /\ \A i \in 1 .. Len(r) : r[i] = b[i + 1]
      /\ Len(w) \in Nat /\ Len(b) \in Nat
  BY HeadTailProperties, LenProperties
<1>. HIDE DEF r
<1>2. /\ s \in Seq(Frame) /\ DOMAIN s = 1 .. Len(w) + Len(b)
      /\ \A i \in 1 .. Len(w) + Len(b) :
           s[i] = IF i <= Len(w) THEN w[i] ELSE b[i - Len(w)]
  BY ConcatProperties, LenProperties
<1>3. /\ t \in Seq(Frame) /\ DOMAIN t = 1 .. Len(w) + Len(r)
      /\ \A i \in 1 .. Len(w) + Len(r) :
           t[i] = IF i <= Len(w) THEN w[i] ELSE r[i - Len(w)]
  <2>1. r \in Seq(Frame)
    BY <1>1
  <2>. QED
    BY <2>1, ConcatProperties, LenProperties
<1>. HIDE DEF s, t
<1>4. ASSUME NEW i \in DOMAIN t
      PROVE  \/ i <= Len(w) /\ i \in DOMAIN s /\ t[i] = s[i]
             \/ i > Len(w) /\ i + 1 \in DOMAIN s /\ t[i] = s[i + 1]
  <2>0. i \in 1 .. Len(w) + Len(r) /\ Len(r) = Len(b) - 1 /\ Len(w) \in Nat /\ Len(b) \in Nat
    BY <1>1, <1>3
  <2>1. CASE i <= Len(w)
    <3>1. i \in 1 .. Len(w) + Len(b)
      BY <2>0
    <3>. QED
      BY <1>2, <1>3, <2>0, <2>1, <3>1
  <2>2. CASE i > Len(w)
    <3>1. i - Len(w) \in 1 .. Len(r) /\ t[i] = r[i - Len(w)]
      <4>1. i - Len(w) \in 1 .. Len(r) /\ ~(i <= Len(w))
        BY <2>0, <2>2
      <4>. QED
        BY <1>3, <2>0, <4>1
    <3>. DEFINE j == i - Len(w)
    <3>2. r[i - Len(w)] = b[(i - Len(w)) + 1]
      <4>1. j \in 1 .. Len(r)
        BY <3>1
      <4>. HIDE DEF j
      <4>2. r[j] = b[j + 1]
        BY <1>1, <4>1
      <4>. QED
        BY <4>2 DEF j
    <3>3. i + 1 \in 1 .. Len(w) + Len(b) /\ (i - Len(w)) + 1 = (i + 1) - Len(w)
      BY <1>1, <1>3, <2>2
    <3>4. s[i + 1] = b[(i + 1) - Len(w)]
      <4>1. ~(i + 1 <= Len(w))
        BY <2>0, <2>2
      <4>. QED
        BY <1>2, <3>3, <4>1
    <3>. QED
      BY <1>2, <2>2, <3>1, <3>2, <3>3, <3>4
  <2>. QED
    BY <1>1, <1>3, <2>1, <2>2
<1>5. Keeps(k, s, t)
  BY <1>1, <1>4 DEF Keeps
<1>. QED
  BY <1>5 DEF s, t, r

\* So does one of which only the wire is left.
LEMMA KeepsPrefix ==
    ASSUME NEW k, NEW w \in Seq(Frame), NEW b \in Seq(Frame)
    PROVE  Keeps(k, w \o b, w)
<1>. DEFINE s == w \o b
<1>1. /\ Len(w) \in Nat /\ Len(b) \in Nat /\ DOMAIN w = 1 .. Len(w)
      /\ DOMAIN s = 1 .. Len(w) + Len(b)
      /\ \A i \in 1 .. Len(w) : s[i] = w[i]
  BY ConcatProperties, LenProperties
<1>. HIDE DEF s
<1>2. \A i \in DOMAIN w : i <= Len(w) /\ i \in DOMAIN s /\ w[i] = s[i]
  BY <1>1
<1>3. Keeps(k, s, w)
  BY <1>1, <1>2 DEF Keeps
<1>. QED
  BY <1>3 DEF s

\* A step that inserts no row, queues nothing, lets handlers hold nothing new
\* and only keeps deciding frames does nothing to the order and uniqueness of
\* messages.
LEMMA QuietStep ==
    ASSUME TypeInv, TypeInv', Delivery,
           db' = db,
           sendTo' \in {sendTo, <<>>},
           \A c \in Conns : Held(c)' => Held(c) /\ out'[c] = out[c],
           \A k \in Conns : Keeps(k, Stream(k), Stream(k)')
    PROVE  RowsUnique' /\ QueueSound' /\ ServedSound' /\ StreamsOrdered' /\ ServedOnce'
<1>b. \A m, n : Before(m, n) => Before(m, n)'
  BY DEF Before
<1>r. \A m : IsRow(m) => IsRow(m)'
  BY DEF IsRow
<1>q. ASSUME NEW i \in DOMAIN sendTo' PROVE i \in DOMAIN sendTo /\ sendTo'[i] = sendTo[i]
  <2>1. DOMAIN <<>> = {}
    OBVIOUS
  <2>. QED
    BY <1>q, <2>1
<1>len. \A k \in Conns : /\ Len(Stream(k)) \in Nat /\ DOMAIN Stream(k) = 1 .. Len(Stream(k))
                         /\ DOMAIN (Stream(k)') \subseteq Nat
  <2>1. \A k \in Conns : Stream(k) \in Seq(Frame)
    BY StreamType
  <2>2. \A k \in Conns : Stream(k)' \in Seq(Frame)
    BY NextStreamType
  <2>. QED
    BY <2>1, <2>2, LenProperties
<1>0. PICK n \in [Conns -> Nat] :
        \A k \in Conns : \A i \in DOMAIN (Stream(k)') : Decides(k, Stream(k)'[i]) =>
          \/ i <= n[k] /\ i \in DOMAIN Stream(k) /\ Stream(k)'[i] = Stream(k)[i]
          \/ i > n[k] /\ i + 1 \in DOMAIN Stream(k) /\ Stream(k)'[i] = Stream(k)[i + 1]
  <2>. DEFINE P(k, x) == \A i \in DOMAIN (Stream(k)') : Decides(k, Stream(k)'[i]) =>
          \/ i <= x /\ i \in DOMAIN Stream(k) /\ Stream(k)'[i] = Stream(k)[i]
          \/ i > x /\ i + 1 \in DOMAIN Stream(k) /\ Stream(k)'[i] = Stream(k)[i + 1]
              n == [k \in Conns |-> CHOOSE x \in Nat : P(k, x)]
  <2>1. \A k \in Conns : \E x \in Nat : P(k, x)
    BY DEF Keeps
  <2>2. \A k \in Conns : n[k] \in Nat /\ P(k, n[k])
    <3>. HIDE DEF P
    <3>. QED
      BY <2>1
  <2>. HIDE DEF P
  <2>3. n \in [Conns -> Nat]
    BY <2>2
  <2>. HIDE DEF n
  <2>. QED
    BY <2>2, <2>3 DEF P
<1>. DEFINE at(k, i) == IF i <= n[k] THEN i ELSE i + 1
<1>1. ASSUME NEW k \in Conns, NEW i \in DOMAIN (Stream(k)'), Decides(k, Stream(k)'[i])
      PROVE  at(k, i) \in DOMAIN Stream(k) /\ Stream(k)'[i] = Stream(k)[at(k, i)]
  BY <1>0, <1>1, <1>len
<1>2. \A k \in Conns : \A i, j \in Nat : i < j => at(k, i) < at(k, j)
  BY <1>0
<1>3. \A k, f : FromPeer(k, f) \/ f.type \in Outcomes => Decides(k, f)
  BY DEF Decides
<1>4. RowsUnique'
  BY DEF Delivery, RowsUnique
<1>5. QueueSound'
  BY <1>b, <1>r, <1>q DEF Delivery, QueueSound
<1>. HIDE DEF at
<1>6. ServedSound'
  BY <1>b, <1>r, <1>q, <1>1 DEF Delivery, ServedSound
<1>7. StreamsOrdered'
  BY <1>b, <1>1, <1>2, <1>3, <1>len DEF Delivery, StreamsOrdered
<1>8. ServedOnce'
  BY <1>1, <1>2, <1>3, <1>len DEF Delivery, ServedOnce
<1>. QED
  BY <1>4, <1>5, <1>6, <1>7, <1>8

\* The rows of a table with one row more.
LEMMA InsertedRow ==
    ASSUME TypeInv, NEW m \in Message, db' = Append(db, m)
    PROVE  /\ \A x, y : Before(x, y) => Before(x, y)'
           /\ \A x : IsRow(x) => IsRow(x)' /\ Before(x, m)'
           /\ IsRow(m)'
           /\ RowsUnique /\ ~Stored(m.id) => RowsUnique'
<1>1. /\ Len(db) \in Nat /\ DOMAIN db = 1 .. Len(db)
      /\ DOMAIN db' = 1 .. Len(db) + 1
      /\ \A p \in 1 .. Len(db) : db'[p] = db[p]
      /\ db'[Len(db) + 1] = m
  <2>1. db \in Seq(Message)
    BY DEF TypeInv, TypeOK
  <2>. QED
    BY <2>1, AppendProperties, LenProperties
<1>2. ASSUME RowsUnique, ~Stored(m.id), NEW p \in DOMAIN db', NEW q \in DOMAIN db',
             db'[p].id = db'[q].id
      PROVE  p = q
  <2>1. CASE p \in DOMAIN db /\ q \in DOMAIN db
    BY <1>1, <1>2, <2>1 DEF RowsUnique
  <2>2. ASSUME NEW r \in DOMAIN db, db'[r].id = m.id
        PROVE  FALSE
    BY <1>1, <1>2, <2>2 DEF Stored
  <2>. QED
    BY <1>1, <1>2, <2>1, <2>2
<1>3. RowsUnique /\ ~Stored(m.id) => RowsUnique'
  BY <1>2 DEF RowsUnique
<1>4. \A x, y : Before(x, y) => Before(x, y)'
  BY <1>1 DEF Before
<1>5. \A x : IsRow(x) => IsRow(x)'
  BY <1>1 DEF IsRow
<1>6. IsRow(m)'
  BY <1>1 DEF IsRow
<1>7. ASSUME NEW x, IsRow(x) PROVE Before(x, m)'
  BY <1>1, <1>7 DEF IsRow, Before
<1>. QED
  BY <1>3, <1>4, <1>5, <1>6, <1>7

\* A handler stores a message: a new row is the last of the table, and so
\* after all that has been handed over.
LEMMA InsertStep ==
    ASSUME TypeInv, TypeInv', Delivery, NEW c \in Conns, ReadMsg(c)
    PROVE  Delivery'
<1>1. PICK m \in Message :
        /\ m.conn = c /\ StoreTextMessage(c, m) /\ out' = [out EXCEPT ![c] = m]
  <2>1. PICK d \in Drafts[UserOf[c]] :
          /\ StoreTextMessage(c, [id |-> d.id, to |-> d.to, conn |-> c])
          /\ out' = [out EXCEPT ![c] = [id |-> d.id, to |-> d.to, conn |-> c]]
    BY DEF ReadMsg
  <2>2. [id |-> d.id, to |-> d.to, conn |-> c] \in Message
    BY ConstantsAssumption DEF Message
  <2>. QED
    BY <2>1, <2>2
<1>2. /\ pc' = [pc EXCEPT ![c] = "acking"] /\ pc[c] = "reading"
      /\ inserted' = [inserted EXCEPT ![c] = ~Stored(m.id)]
      /\ sendTo' = sendTo
      /\ pc \in [Conns -> PCs] /\ inserted \in [Conns -> BOOLEAN]
      /\ out \in [Conns -> Message \cup {NoMsg}]
  BY <1>1 DEF ReadMsg, StoreTextMessage, hubVars, TypeInv, TypeOK
<1>3. \A k \in Conns : Stream(k)' = Stream(k)
  BY DEF ReadMsg, Stream
<1>4. \A k \in Conns \ {c} : (Held(k)' <=> Held(k)) /\ out'[k] = out[k]
  BY <1>1, <1>2 DEF Held
<1>5. CASE Stored(m.id)
  <2>1. db' = db /\ ~Held(c)'
    BY <1>1, <1>2, <1>5 DEF StoreTextMessage, Held
  <2>2. HandlerSound'
    BY <1>1, <1>2, <1>4, <2>1 DEF Delivery, HandlerSound, Held, IsRow
  <2>3. \A k \in Conns : Keeps(k, Stream(k), Stream(k)')
    BY <1>3, StreamType, KeepsSame
  <2>. QED
    BY <1>2, <1>4, <2>1, <2>2, <2>3, QuietStep DEF Delivery
<1>6. CASE ~Stored(m.id)
  <2>1. db' = Append(db, m) /\ Held(c)' /\ out'[c] = m
    BY <1>1, <1>2, <1>6 DEF StoreTextMessage, Held
  <2>2. /\ \A x, y : Before(x, y) => Before(x, y)'
        /\ \A x : IsRow(x) => IsRow(x)' /\ Before(x, m)'
        /\ IsRow(m)'
        /\ RowsUnique'
    BY <1>6, <2>1, InsertedRow DEF Delivery
  <2>3. HandlerSound'
    BY <1>1, <1>2, <1>4, <2>1, <2>2 DEF Delivery, HandlerSound, Held
  <2>4. QueueSound'
    BY <1>2, <1>4, <2>1, <2>2 DEF Delivery, QueueSound
  <2>5. ServedSound'
    BY <1>2, <1>3, <1>4, <2>1, <2>2 DEF Delivery, ServedSound
  <2>6. StreamsOrdered'
    BY <1>3, <2>2 DEF Delivery, StreamsOrdered
  <2>7. ServedOnce'
    BY <1>3 DEF Delivery, ServedOnce
  <2>. QED
    BY <2>2, <2>3, <2>4, <2>5, <2>6, <2>7 DEF Delivery
<1>. QED
  BY <1>5, <1>6

\* A handler hands over what it holds: it comes last in the queue.
LEMMA HandStep ==
    ASSUME TypeInv, TypeInv', Delivery, NEW c \in Conns, HandToHub(c)
    PROVE  Delivery'
<1>1. /\ Held(c) /\ out[c].conn = c /\ IsRow(out[c]) /\ out[c] \in Message
      /\ pc[c] = "handing" /\ pc' = [pc EXCEPT ![c] = "reading"] /\ pc \in [Conns -> PCs]
      /\ out' = out /\ inserted' = inserted /\ db' = db
  BY DEF HandToHub, Delivery, HandlerSound, Held, HandlingMessage, TypeInv, TypeOK, pumpVars
<1>2. /\ Len(sendTo) \in Nat /\ DOMAIN sendTo = 1 .. Len(sendTo)
      /\ DOMAIN sendTo' = 1 .. Len(sendTo) + 1
      /\ \A i \in 1 .. Len(sendTo) : sendTo'[i] = sendTo[i]
      /\ sendTo'[Len(sendTo) + 1] = out[c]
  <2>1. sendTo \in Seq(Message) /\ sendTo' = Append(sendTo, out[c])
    BY DEF TypeInv, TypeOK, HandToHub
  <2>. QED
    BY <1>1, <2>1, AppendProperties, LenProperties
<1>3. \A k \in Conns : Stream(k)' = Stream(k)
  BY DEF HandToHub, Stream
<1>4. ~Held(c)' /\ \A k \in Conns \ {c} : Held(k)' <=> Held(k)
  BY <1>1 DEF Held
<1>5. (\A m, n : Before(m, n)' <=> Before(m, n)) /\ \A m : IsRow(m)' <=> IsRow(m)
  BY <1>1 DEF Before, IsRow
<1>6. HandlerSound'
  BY <1>1, <1>4, <1>5 DEF Delivery, HandlerSound
<1>7. QueueSound'
  BY <1>1, <1>2, <1>4, <1>5 DEF Delivery, QueueSound
<1>8. ServedSound'
  <2>1. ASSUME NEW k \in Conns, NEW i \in DOMAIN Stream(k), Decides(k, Stream(k)[i]),
               NEW j \in DOMAIN sendTo', sendTo'[j].conn = Stream(k)[i].msg.conn
        PROVE  Before(Stream(k)[i].msg, sendTo'[j])
    <3>1. CASE j = Len(sendTo) + 1
      BY <1>1, <1>2, <2>1, <3>1 DEF Delivery, ServedSound
    <3>2. CASE j \in DOMAIN sendTo
      BY <1>2, <2>1, <3>2 DEF Delivery, ServedSound
    <3>. QED
      BY <1>2, <3>1, <3>2
  <2>. QED
    BY <1>1, <1>3, <1>4, <1>5, <2>1 DEF Delivery, ServedSound
<1>9. StreamsOrdered' /\ ServedOnce' /\ RowsUnique'
  BY <1>1, <1>3, <1>5 DEF Delivery, StreamsOrdered, ServedOnce, RowsUnique
<1>. QED
  BY <1>6, <1>7, <1>8, <1>9 DEF Delivery

\* What serving a request for m adds to a stream s: nothing that decides, or
\* one such frame, about m, at the receiver dst or at the sender.
Serves(k, s, t, m, dst) ==
    /\ \A i \in DOMAIN t : Decides(k, t[i]) =>
         \/ i \in DOMAIN s /\ t[i] = s[i]
         \/ /\ i > Len(s) /\ t[i].msg = m
            /\ FromPeer(k, t[i]) => k = dst
            /\ t[i].type \in Outcomes => k = m.conn
    /\ \A i, j \in DOMAIN t :
         i > Len(s) /\ j > Len(s) /\ Decides(k, t[i]) /\ Decides(k, t[j]) => i = j

\* A stream that does not change serves no request.
LEMMA ServesNothing ==
    ASSUME NEW k, NEW s \in Seq(Frame), NEW m, NEW dst
    PROVE  Serves(k, s, s, m, dst)
<1>1. Len(s) \in Nat /\ DOMAIN s = 1 .. Len(s)
  BY LenProperties
<1>. QED
  BY <1>1 DEF Serves

\* One frame more.
LEMMA ServesOne ==
    ASSUME NEW k, NEW s \in Seq(Frame), NEW f \in Frame, NEW m, NEW dst, f.msg = m,
           FromPeer(k, f) => k = dst, f.type \in Outcomes => k = m.conn
    PROVE  Serves(k, s, Append(s, f), m, dst)
<1>. DEFINE t == Append(s, f)
<1>1. /\ Len(s) \in Nat /\ DOMAIN s = 1 .. Len(s)
      /\ DOMAIN t = 1 .. Len(s) + 1
      /\ \A i \in 1 .. Len(s) : t[i] = s[i]
      /\ t[Len(s) + 1] = f
  BY AppendProperties, LenProperties
<1>. HIDE DEF t
<1>2. Serves(k, s, t, m, dst)
  BY <1>1 DEF Serves
<1>. QED
  BY <1>2 DEF t

\* Two frames more, the first of which decides nothing.
LEMMA ServesTwo ==
    ASSUME NEW k, NEW s \in Seq(Frame), NEW e \in Frame, NEW f \in Frame,
           NEW m, NEW dst, ~Decides(k, e), f.msg = m,
           FromPeer(k, f) => k = dst, f.type \in Outcomes => k = m.conn
    PROVE  Serves(k, s, Append(Append(s, e), f), m, dst)
<1>. DEFINE r == Append(s, e)
            t == Append(r, f)
<1>1. /\ Len(s) \in Nat /\ DOMAIN s = 1 .. Len(s)
      /\ r \in Seq(Frame) /\ Len(r) = Len(s) + 1
      /\ \A i \in 1 .. Len(s) : r[i] = s[i]
      /\ r[Len(s) + 1] = e
  BY AppendProperties, LenProperties
<1>. HIDE DEF r
<1>2. /\ DOMAIN t = 1 .. Len(r) + 1
      /\ \A i \in 1 .. Len(r) : t[i] = r[i]
      /\ t[Len(r) + 1] = f
  BY <1>1, AppendProperties, LenProperties
<1>. HIDE DEF t
<1>3. Serves(k, s, t, m, dst)
  BY <1>1, <1>2 DEF Serves
<1>. QED
  BY <1>3 DEF t, r

\* The hub's serving of one request, seen from every stream.
LEMMA HubSendServes ==
    ASSUME Registry, HubSend, NEW k \in Conns
    PROVE  Serves(k, Stream(k), Stream(k)', Head(sendTo), byUser[Head(sendTo).to])
<1>. DEFINE m == Head(sendTo)
            dst == byUser[m.to]
            s == Stream(k)
<1>0. s \in Seq(Frame) /\ m \in Message
  BY StreamType, RequestHead DEF Registry, HubSend, SendToOffline, SendToOnline, SendToSlow, TakeRequest
<1>1. ASSUME NEW type \in FrameTypes
      PROVE  WSOut(type, m) \in Frame /\ WSOut(type, m).msg = m /\ WSOut(type, m).type = type
  BY <1>0, FrameType DEF WSOut
<1>2. CASE SendToOffline \/ SendToSlow
  <2>1. CASE Stream(k)' = s
    BY <1>0, <2>1, ServesNothing
  <2>2. CASE /\ k = m.conn
             /\ \E type \in {"offline", "failed"} : Stream(k)' = Append(s, WSOut(type, m))
    <3>1. PICK type \in {"offline", "failed"} : Stream(k)' = Append(s, WSOut(type, m))
      BY <2>2
    <3>2. WSOut(type, m) \in Frame /\ WSOut(type, m).msg = m /\ ~FromPeer(k, WSOut(type, m))
      BY <1>1 DEF FrameTypes, FromPeer
    <3>. HIDE DEF m, s
    <3>. QED
      BY <1>0, <2>2, <3>1, <3>2, ServesOne DEF m, s
  <2>. QED
    BY <1>2, <2>1, <2>2, RefusedStreams
<1>3. CASE SendToOnline
  <2>. DEFINE e == WSOut("msg", m)
              f == WSOut("delivered", m)
  <2>1. e \in Frame /\ f \in Frame /\ e.msg = m /\ f.msg = m
        /\ e.type = "msg" /\ f.type = "delivered"
    BY <1>1 DEF FrameTypes
  <2>2. LET given == IF k = dst THEN Append(s, e) ELSE s
        IN  Stream(k)' = given \/ (k = m.conn /\ Stream(k)' = Append(given, f))
    BY <1>3, OnlineStreams
  <2>3. ~FromPeer(k, f) /\ e.type \notin Outcomes /\ (k = m.conn => ~Decides(k, e))
    BY <2>1 DEF FromPeer, Decides, Outcomes
  <2>. HIDE DEF m, s, e, f
  <2>4. Stream(k)' = s => Serves(k, s, Stream(k)', m, dst)
    BY <1>0, ServesNothing
  <2>5. k = dst /\ Stream(k)' = Append(s, e) => Serves(k, s, Stream(k)', m, dst)
    BY <1>0, <2>1, <2>3, ServesOne
  <2>6. k = m.conn /\ Stream(k)' = Append(s, f) => Serves(k, s, Stream(k)', m, dst)
    BY <1>0, <2>1, <2>3, ServesOne
  <2>7. k = m.conn /\ Stream(k)' = Append(Append(s, e), f) => Serves(k, s, Stream(k)', m, dst)
    BY <1>0, <2>1, <2>3, ServesTwo
  <2>. QED
    BY <2>2, <2>4, <2>5, <2>6, <2>7 DEF m, s
<1>. QED
  BY <1>2, <1>3 DEF HubSend

\* The hub serves the oldest request: its message is the next of its
\* connection in every order, and has not been served before.
LEMMA ServeStep ==
    ASSUME Registry, TypeInv', Delivery, HubSend
    PROVE  Delivery'
<1>. DEFINE m == Head(sendTo)
            dst == byUser[m.to]
<1>1. /\ pc' = pc /\ out' = out /\ inserted' = inserted /\ db' = db
      /\ sendTo # <<>> /\ sendTo' = Tail(sendTo) /\ TypeInv
  BY DEF HubSend, SendToOffline, SendToOnline, SendToSlow, TakeRequest, pumpVars, Registry
<1>2. /\ m \in Message /\ 1 \in DOMAIN sendTo /\ sendTo[1] = m
      /\ DOMAIN sendTo = 1 .. Len(sendTo) /\ Len(sendTo) \in Nat
      /\ DOMAIN sendTo' = 1 .. Len(sendTo) - 1
      /\ \A i \in DOMAIN sendTo' : i + 1 \in DOMAIN sendTo /\ sendTo'[i] = sendTo[i + 1]
  BY <1>1, RequestHead
<1>3. \A k \in Conns : /\ Serves(k, Stream(k), Stream(k)', m, dst)
                       /\ Len(Stream(k)) \in Nat /\ DOMAIN Stream(k) = 1 .. Len(Stream(k))
                       /\ \A i \in DOMAIN (Stream(k)') : i \in Nat
  BY <1>1, HubSendServes, StreamType, NextStreamType, LenProperties
<1>. HIDE DEF m, dst
<1>4. /\ \A c \in Conns : Held(c)' <=> Held(c)
      /\ \A x, y : Before(x, y)' <=> Before(x, y)
      /\ \A x : IsRow(x)' <=> IsRow(x)
  BY <1>1 DEF Held, Before, IsRow
<1>5. HandlerSound' /\ RowsUnique'
  BY <1>1, <1>4 DEF Delivery, HandlerSound, RowsUnique
<1>6. QueueSound'
  <2>1. ASSUME NEW i \in DOMAIN sendTo', NEW j \in DOMAIN sendTo', i < j,
               sendTo'[i].conn = sendTo'[j].conn
        PROVE  Before(sendTo'[i], sendTo'[j])
    <3>1. i + 1 < j + 1
      BY <1>2, <2>1
    <3>. QED
      BY <1>2, <2>1, <3>1 DEF Delivery, QueueSound
  <2>. QED
    BY <1>1, <1>2, <1>4, <2>1 DEF Delivery, QueueSound
<1>7. /\ IsRow(m)
      /\ \A j \in DOMAIN sendTo' : sendTo'[j].conn = m.conn => Before(m, sendTo'[j])
      /\ \A c \in Conns : Held(c) /\ m.conn = c => Before(m, out[c])
  <2>1. ASSUME NEW j \in DOMAIN sendTo', sendTo'[j].conn = m.conn
        PROVE  Before(m, sendTo'[j])
    <3>1. 1 < j + 1 /\ j + 1 \in DOMAIN sendTo /\ sendTo'[j] = sendTo[j + 1]
      BY <1>2
    <3>. QED
      BY <1>2, <2>1, <3>1 DEF Delivery, QueueSound
  <2>. QED
    BY <1>2, <2>1 DEF Delivery, QueueSound
<1>8. ServedSound'
  <2>1. ASSUME NEW k \in Conns, NEW i \in DOMAIN (Stream(k)'), Decides(k, Stream(k)'[i])
        PROVE  LET x == Stream(k)'[i].msg
               IN  /\ IsRow(x)
                   /\ \A j \in DOMAIN sendTo' : sendTo'[j].conn = x.conn => Before(x, sendTo'[j])
                   /\ \A c \in Conns : Held(c) /\ x.conn = c => Before(x, out[c])
    <3>1. CASE i \in DOMAIN Stream(k) /\ Stream(k)'[i] = Stream(k)[i]
      BY <1>2, <2>1, <3>1 DEF Delivery, ServedSound
    <3>2. CASE Stream(k)'[i].msg = m
      BY <1>7, <3>2
    <3>. QED
      BY <1>3, <2>1, <3>1, <3>2 DEF Serves
  <2>. QED
    BY <1>1, <1>4, <2>1 DEF ServedSound
<1>9. \A x : IsRow(x) /\ x.id = m.id => x = m
  BY <1>7 DEF IsRow, Delivery, RowsUnique
<1>10. ASSUME NEW k \in Conns, NEW i \in DOMAIN Stream(k), Decides(k, Stream(k)[i])
       PROVE  /\ Stream(k)[i].msg.id # m.id
              /\ Stream(k)[i].msg.conn = m.conn => Before(Stream(k)[i].msg, m)
  <2>1. Stream(k)[i].msg.conn = m.conn => Before(Stream(k)[i].msg, m)
    BY <1>2, <1>10 DEF Delivery, ServedSound
  <2>2. ~Before(m, m)
    <3>1. SUFFICES ASSUME NEW p \in DOMAIN db, NEW q \in DOMAIN db, p < q,
                          db[p] = m, db[q] = m
                   PROVE  FALSE
      BY DEF Before
    <3>2. p = q
      BY <3>1 DEF Delivery, RowsUnique
    <3>3. p \in Nat
      BY <1>1, LenProperties DEF TypeInv, TypeOK
    <3>. QED
      BY <3>1, <3>2, <3>3
  <2>. QED
    BY <1>9, <1>10, <2>1, <2>2 DEF Delivery, ServedSound
<1>11. StreamsOrdered'
  <2>1. ASSUME NEW k \in Conns, NEW i \in DOMAIN (Stream(k)'), NEW j \in DOMAIN (Stream(k)'),
               i < j, FromPeer(k, Stream(k)'[i]), FromPeer(k, Stream(k)'[j]),
               Stream(k)'[i].msg.conn = Stream(k)'[j].msg.conn
        PROVE  Before(Stream(k)'[i].msg, Stream(k)'[j].msg)
    <3>0. Decides(k, Stream(k)'[i]) /\ Decides(k, Stream(k)'[j])
      BY <2>1 DEF Decides
    <3>1. CASE /\ i \in DOMAIN Stream(k) /\ Stream(k)'[i] = Stream(k)[i]
               /\ j \in DOMAIN Stream(k) /\ Stream(k)'[j] = Stream(k)[j]
      BY <2>1, <3>1 DEF Delivery, StreamsOrdered
    <3>2. CASE /\ i \in DOMAIN Stream(k) /\ Stream(k)'[i] = Stream(k)[i]
               /\ j > Len(Stream(k)) /\ Stream(k)'[j].msg = m
      BY <1>10, <2>1, <3>0, <3>2
    <3>3. CASE i > Len(Stream(k))
      <4>1. CASE j \in DOMAIN Stream(k)
        BY <1>3, <2>1, <3>3, <4>1
      <4>2. CASE j > Len(Stream(k))
        BY <1>3, <2>1, <3>0, <3>3, <4>2 DEF Serves
      <4>. QED
        BY <1>3, <3>0, <4>1, <4>2 DEF Serves
    <3>. QED
      BY <1>3, <3>0, <3>1, <3>2, <3>3 DEF Serves
  <2>. QED
    BY <1>4, <2>1 DEF StreamsOrdered
<1>12. ServedOnce'
  <2>1. ASSUME NEW k \in Conns, NEW l \in Conns,
               NEW i \in DOMAIN (Stream(k)'), NEW j \in DOMAIN (Stream(l)'),
               \/ FromPeer(k, Stream(k)'[i]) /\ FromPeer(l, Stream(l)'[j])
               \/ Stream(k)'[i].type \in Outcomes /\ Stream(l)'[j].type \in Outcomes,
               Stream(k)'[i].msg.id = Stream(l)'[j].msg.id
        PROVE  k = l /\ i = j
    <3>0. Decides(k, Stream(k)'[i]) /\ Decides(l, Stream(l)'[j])
      BY <2>1 DEF Decides
    <3>. DEFINE oldi == i \in DOMAIN Stream(k) /\ Stream(k)'[i] = Stream(k)[i]
                oldj == j \in DOMAIN Stream(l) /\ Stream(l)'[j] = Stream(l)[j]
                newi == i > Len(Stream(k)) /\ Stream(k)'[i].msg = m
                newj == j > Len(Stream(l)) /\ Stream(l)'[j].msg = m
    <3>1. CASE oldi /\ oldj
      BY <2>1, <3>1 DEF Delivery, ServedOnce
    <3>2. CASE (oldi /\ newj) \/ (newi /\ oldj)
      BY <1>10, <2>1, <3>0, <3>2
    <3>3. CASE newi /\ newj /\ ~oldi /\ ~oldj
      <4>1. k = l
        BY <1>3, <2>1, <3>0, <3>3 DEF Serves
      <4>. QED
        BY <1>3, <3>0, <3>3, <4>1 DEF Serves
    <3>. QED
      BY <1>3, <3>0, <3>1, <3>2, <3>3 DEF Serves
  <2>. QED
    BY <2>1 DEF ServedOnce
<1>. QED
  BY <1>5, <1>6, <1>8, <1>11, <1>12 DEF Delivery

----------------------------------------------------------------------------
\* All other steps of handlers only let a message go on, or drop it.
LEMMA HandlerDelivery ==
    ASSUME TypeInv, TypeInv', Delivery, NEW c \in Conns, HandlerStep(c)
    PROVE  Delivery'
<1>0. pc \in [Conns -> PCs] /\ inserted \in [Conns -> BOOLEAN]
  BY DEF TypeInv, TypeOK
<1>1. CASE ReadMsg(c)
  BY <1>1, InsertStep
<1>2. CASE HandToHub(c)
  BY <1>2, HandStep
<1>3. CASE Greet(c) \/ ReadRejected(c) \/ Ack(c) \/ Echo(c) \/ ReadFails(c)
  <2>1. db' = db /\ sendTo' = sendTo /\ out' = out /\ inserted' = inserted
    BY <1>3 DEF Greet, ReadRejected, Ack, Echo, ReadFails, hubVars, pumpVars
  <2>2. /\ \A k \in Conns \ {c} : pc'[k] = pc[k]
        /\ \/ pc'[c] \in {"reading", "panicked", "leaving"}
           \/ pc[c] = "acking" /\ pc'[c] = "echoing"
           \/ pc[c] = "echoing" /\ pc'[c] = "handing" /\ inserted[c]
    <3>1. CASE Greet(c) \/ ReadRejected(c)
      BY <1>0, <3>1 DEF Greet, ReadRejected, Enqueue
    <3>2. CASE Ack(c)
      BY <1>0, <3>2 DEF Ack, Enqueue
    <3>3. CASE Echo(c)
      BY <1>0, <3>3 DEF Echo, Enqueue
    <3>4. CASE ReadFails(c)
      BY <1>0, <3>4 DEF ReadFails
    <3>. QED
      BY <1>3, <3>1, <3>2, <3>3, <3>4
  <2>3. \A k \in Conns : Held(k)' => Held(k)
    BY <2>1, <2>2 DEF Held
  <2>4. HandlerSound'
    BY <2>1, <2>2, <2>3 DEF Delivery, HandlerSound, IsRow
  <2>5. ASSUME NEW k \in Conns PROVE Keeps(k, Stream(k), Stream(k)')
    <3>1. pc[c] = "echoing" => out[c].conn = c
      BY DEF Delivery, HandlerSound
    <3>2. Stream(k) \in Seq(Frame)
      BY StreamType
    <3>3. ASSUME NEW f \in Frame, ~Decides(k, f), Stream(k)' = Append(Stream(k), f)
          PROVE  Keeps(k, Stream(k), Stream(k)')
      BY <3>2, <3>3, KeepsAppend
    <3>4. CASE Stream(k)' = Stream(k)
      BY <3>2, <3>4, KeepsSame
    <3>. QED
      BY <3>1, <3>3, <3>4, HandlerStreams
  <2>. QED
    BY <2>1, <2>3, <2>4, <2>5, QuietStep DEF Delivery
<1>. QED
  BY <1>1, <1>2, <1>3 DEF HandlerStep

\* A writePump changes no order and makes nothing appear.
LEMMA WriterDelivery ==
    ASSUME TypeInv, TypeInv', Delivery, NEW c \in Conns, WriterStep(c)
    PROVE  Delivery'
<1>1. UNCHANGED <<db, sendTo, out, inserted, pc>>
  BY DEF WriterStep, WriteFrame, WriteFails, PingFails, SendCloseFrame, hubVars, pumpVars
<1>2. \A k \in Conns : Held(k)' => Held(k)
  BY <1>1 DEF Held
<1>3. HandlerSound'
  BY <1>1, <1>2 DEF Delivery, HandlerSound, IsRow
<1>4. ASSUME NEW k \in Conns PROVE Keeps(k, Stream(k), Stream(k)')
  <2>1. CASE Stream(k)' = Stream(k)
    BY <2>1, StreamType, KeepsSame
  <2>2. CASE chan[k].buf # <<>> /\ Stream(k)' = wire[k] \o Tail(chan[k].buf)
    BY <2>2, StreamType, KeepsTail DEF Stream
  <2>. QED
    BY <2>1, <2>2, WriterStreams
<1>. QED
  BY <1>1, <1>2, <1>3, <1>4, QuietStep DEF Delivery

\* Neither does the registry of the hub.
LEMMA RegistrationDelivery ==
    ASSUME TypeInv, TypeInv', Delivery, NEW c \in Conns, Register(c) \/ Unregister(c)
    PROVE  Delivery'
<1>1. /\ UNCHANGED <<db, sendTo, out, inserted>>
      /\ \A k \in Conns : pc'[k] = pc[k] \/ pc'[k] \in {"greeting", "closed"}
  BY DEF Register, Unregister, pumpVars, TypeInv, TypeOK
<1>2. \A k \in Conns : Held(k)' => Held(k)
  BY <1>1 DEF Held
<1>3. HandlerSound'
  BY <1>1, <1>2 DEF Delivery, HandlerSound, IsRow
<1>4. ASSUME NEW k \in Conns PROVE Keeps(k, Stream(k), Stream(k)')
  BY RegistrationStreams, StreamType, KeepsSame
<1>. QED
  BY <1>1, <1>2, <1>3, <1>4, QuietStep DEF Delivery

\* A restart forgets what is not written, and holds and queues nothing.
LEMMA RestartDelivery ==
    ASSUME TypeInv, TypeInv', Delivery, Restart
    PROVE  Delivery'
<1>1. /\ db' = db /\ sendTo' = <<>>
      /\ \A k \in Conns : pc'[k] \in {"idle", "closed"}
  BY DEF Restart
<1>2. \A k \in Conns : ~Held(k)'
  BY <1>1 DEF Held
<1>3. HandlerSound'
  BY <1>1, <1>2 DEF HandlerSound
<1>4. ASSUME NEW k \in Conns PROVE Keeps(k, Stream(k), Stream(k)')
  BY RestartStreams, StreamType, KeepsPrefix DEF Stream
<1>. QED
  BY <1>1, <1>2, <1>3, <1>4, QuietStep DEF Delivery

\* The inductive invariant of delivery, with that of the registry, which
\* finds the receiver's channel.
THEOREM DeliverySound == Spec => []Delivery
<1>1. Init => Delivery
  <2>. SUFFICES ASSUME Init PROVE Delivery
    OBVIOUS
  <2>1. \A k \in Conns : Stream(k) = <<>> /\ ~Held(k)
    BY ConcatEmptySeq, EmptySeq DEF Init, Stream, Held
  <2>2. db = <<>> /\ sendTo = <<>> /\ \A k \in Conns : pc[k] = "idle"
    BY DEF Init
  <2>3. DOMAIN <<>> = {}
    OBVIOUS
  <2>. QED
    BY <2>1, <2>2, <2>3 DEF Delivery, RowsUnique, HandlerSound, QueueSound, ServedSound,
                            StreamsOrdered, ServedOnce
<1>2. Registry /\ Registry' /\ Delivery /\ [Next]_vars => Delivery'
  <2>. SUFFICES ASSUME Registry, Registry', Delivery, [Next]_vars PROVE Delivery'
    OBVIOUS
  <2>0. TypeInv /\ TypeInv'
    BY DEF Registry
  <2>1. CASE UNCHANGED vars
    <3>1. \A k \in Conns : (Stream(k)' = Stream(k)) /\ (Held(k)' <=> Held(k))
      BY <2>1 DEF vars, Stream, Held
    <3>2. UNCHANGED <<db, sendTo, out, inserted, pc>>
      BY <2>1 DEF vars
    <3>3. HandlerSound'
      BY <3>1, <3>2 DEF Delivery, HandlerSound, IsRow
    <3>4. ASSUME NEW k \in Conns PROVE Keeps(k, Stream(k), Stream(k)')
      BY <2>0, <3>1, StreamType, KeepsSame
    <3>. QED
      BY <2>0, <3>1, <3>2, <3>3, <3>4, QuietStep DEF Delivery
  <2>2. CASE Next
    BY <2>0, <2>2, HandlerDelivery, WriterDelivery, RegistrationDelivery, ServeStep,
       RestartDelivery DEF Next, HandlerStep, WriterStep, HubSend
  <2>. QED
    BY <2>1, <2>2
<1>. QED
  BY <1>1, <1>2, RegistrySound, PTL DEF Spec

----------------------------------------------------------------------------
(* What follows from it. *)

\* A row is told by its id, and comes before no earlier self.
LEMMA RowOfId ==
    ASSUME TypeInv, RowsUnique
    PROVE  /\ \A m, n : IsRow(m) /\ IsRow(n) /\ m.id = n.id => m = n
           /\ \A m : ~Before(m, m)
<1>1. \A m, n : IsRow(m) /\ IsRow(n) /\ m.id = n.id => m = n
  BY DEF IsRow, RowsUnique
<1>2. \A p \in DOMAIN db : p \in Nat
  BY LenProperties DEF TypeInv, TypeOK
<1>3. \A m : ~Before(m, m)
  BY <1>2 DEF Before, RowsUnique
<1>. QED
  BY <1>1, <1>3

\* A set without two different elements.
LEMMA Singular ==
    ASSUME NEW S, \A x, y \in S : x = y
    PROVE  Cardinality(S) \in {0, 1} /\ (S = {} => Cardinality(S) = 0)
<1>1. CASE S = {}
  BY <1>1, FS_EmptySet
<1>2. CASE S # {}
  <2>1. PICK x \in S : S = {x}
    BY <1>2
  <2>. QED
    BY <1>2, <2>1, FS_Singleton
<1>. QED
  BY <1>1, <1>2

\* No message reaches a receiver twice, whatever its sender repeats and over
\* however many connections, whoever is kicked, restarted or panics meanwhile.
THEOREM NeverTwice == Spec => []AtMostOnce
<1>1. TypeInv /\ Delivery => AtMostOnce
  <2>. SUFFICES ASSUME TypeInv, Delivery, NEW id \in MsgIds
                PROVE  LET queued == {i \in DOMAIN sendTo : sendTo[i].id = id}
                           shown  == UNION {{<<k, i>> : i \in {j \in DOMAIN Stream(k) :
                                       /\ FromPeer(k, Stream(k)[j])
                                       /\ Stream(k)[j].msg.id = id}} : k \in Conns}
                       IN  Cardinality(queued) + Cardinality(shown) <= 1
    BY DEF AtMostOnce
  <2>. DEFINE queued == {i \in DOMAIN sendTo : sendTo[i].id = id}
              shown  == UNION {{<<k, i>> : i \in {j \in DOMAIN Stream(k) :
                                       /\ FromPeer(k, Stream(k)[j])
                                       /\ Stream(k)[j].msg.id = id}} : k \in Conns}
  <2>1. \A i \in DOMAIN sendTo : i \in Nat
    BY LenProperties DEF TypeInv, TypeOK
  <2>2. /\ \A m, n : IsRow(m) /\ IsRow(n) /\ m.id = n.id => m = n
        /\ \A m : ~Before(m, m)
    BY RowOfId DEF Delivery
  <2>3. ASSUME NEW i \in queued, NEW j \in queued PROVE i = j
    <3>1. sendTo[i] = sendTo[j]
      BY <2>2, <2>3 DEF Delivery, QueueSound
    <3>2. ~(i < j) /\ ~(j < i)
      BY <2>2, <2>3, <3>1 DEF Delivery, QueueSound
    <3>. QED
      BY <2>1, <2>3, <3>2
  <2>4. ASSUME NEW x \in shown
        PROVE  \E k \in Conns : \E i \in DOMAIN Stream(k) :
                 x = <<k, i>> /\ FromPeer(k, Stream(k)[i]) /\ Stream(k)[i].msg.id = id
    BY <2>4
  <2>5. ASSUME NEW x \in shown, NEW y \in shown PROVE x = y
    BY <2>4, <2>5 DEF Delivery, ServedOnce
  <2>6. queued = {} \/ shown = {}
    <3>1. SUFFICES ASSUME NEW i \in queued, NEW x \in shown PROVE FALSE
      OBVIOUS
    <3>2. PICK k \in Conns : \E j \in DOMAIN Stream(k) :
                 x = <<k, j>> /\ FromPeer(k, Stream(k)[j]) /\ Stream(k)[j].msg.id = id
      BY <2>4, <3>1
    <3>3. PICK j \in DOMAIN Stream(k) :
                 x = <<k, j>> /\ FromPeer(k, Stream(k)[j]) /\ Stream(k)[j].msg.id = id
      BY <3>2
    <3>4. IsRow(Stream(k)[j].msg) /\ IsRow(sendTo[i]) /\ sendTo[i].id = id
      BY <3>1, <3>3 DEF Delivery, ServedSound, QueueSound, Decides
    <3>5. Stream(k)[j].msg = sendTo[i]
      BY <2>2, <3>3, <3>4
    <3>6. Before(Stream(k)[j].msg, sendTo[i])
      BY <3>1, <3>3, <3>5 DEF Delivery, ServedSound, Decides
    <3>. QED
      BY <2>2, <3>5, <3>6
  <2>. HIDE DEF queued, shown
  <2>7. /\ Cardinality(queued) \in {0, 1} /\ (queued = {} => Cardinality(queued) = 0)
        /\ Cardinality(shown) \in {0, 1} /\ (shown = {} => Cardinality(shown) = 0)
    BY <2>3, <2>5, Singular
  <2>8. Cardinality(queued) + Cardinality(shown) <= 1
    BY <2>6, <2>7
  <2>. QED
    BY <2>8 DEF queued, shown
<1>. QED
  BY <1>1, RegistrySound, DeliverySound, PTL DEF Registry

\* A sender is never told two outcomes of one message.
THEOREM AnsweredOnce == Spec => []OneOutcome
<1>1. Delivery => OneOutcome
  <2>. SUFFICES ASSUME Delivery, NEW id \in MsgIds
                PROVE  Cardinality(UNION {{<<k, i>> : i \in {j \in DOMAIN Stream(k) :
                         /\ Stream(k)[j].type \in {"delivered", "offline", "failed"}
                         /\ Stream(k)[j].msg.id = id}} : k \in Conns}) <= 1
    BY DEF OneOutcome
  <2>. DEFINE told == UNION {{<<k, i>> : i \in {j \in DOMAIN Stream(k) :
                         /\ Stream(k)[j].type \in {"delivered", "offline", "failed"}
                         /\ Stream(k)[j].msg.id = id}} : k \in Conns}
  <2>1. ASSUME NEW x \in told
        PROVE  \E k \in Conns : \E i \in DOMAIN Stream(k) :
                 x = <<k, i>> /\ Stream(k)[i].type \in Outcomes /\ Stream(k)[i].msg.id = id
    BY <2>1 DEF Outcomes
  <2>2. ASSUME NEW x \in told, NEW y \in told PROVE x = y
    BY <2>1, <2>2 DEF Delivery, ServedOnce
  <2>. HIDE DEF told
  <2>3. Cardinality(told) <= 1
    BY <2>2, Singular
  <2>. QED
    BY <2>3 DEF told
<1>. QED
  BY <1>1, DeliverySound, PTL

\* What a receiver has of one connection of a sender is in the order of the
\* table, though three goroutines and two queues lie between.
THEOREM OrderKept == Spec => []PerSenderOrder
<1>1. TypeInv /\ Delivery => PerSenderOrder
  <2>. SUFFICES ASSUME TypeInv, Delivery, NEW k \in Conns,
                       NEW i \in DOMAIN Stream(k), NEW j \in DOMAIN Stream(k), i <= j,
                       FromPeer(k, Stream(k)[i]), FromPeer(k, Stream(k)[j]),
                       Stream(k)[i].msg.conn = Stream(k)[j].msg.conn
                PROVE  \E p, q \in DOMAIN db :
                         p <= q /\ db[p] = Stream(k)[i].msg /\ db[q] = Stream(k)[j].msg
    BY DEF PerSenderOrder
  <2>1. (\A n \in DOMAIN Stream(k) : n \in Nat) /\ (\A p \in DOMAIN db : p \in Nat)
    BY StreamType, LenProperties DEF TypeInv, TypeOK
  <2>2. CASE i = j
    <3>1. IsRow(Stream(k)[i].msg)
      BY DEF Delivery, ServedSound, Decides
    <3>. QED
      BY <2>1, <2>2, <3>1 DEF IsRow
  <2>3. CASE i < j
    <3>1. Before(Stream(k)[i].msg, Stream(k)[j].msg)
      BY <2>3 DEF Delivery, StreamsOrdered
    <3>. QED
      BY <2>1, <3>1 DEF Before
  <2>. QED
    BY <2>1, <2>2, <2>3
<1>. QED
  BY <1>1, RegistrySound, DeliverySound, PTL DEF Registry

=============================================================================
