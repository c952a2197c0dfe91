----------------------------- MODULE HubAnswers -----------------------------
(***************************************************************************)
(* Theorems about Hub, for every value of its constants: what the server   *)
(* tells a sender is true, that a message is stored and that it has been   *)
(* delivered.                                                              *)
(***************************************************************************)
EXTENDS HubDelivery

----------------------------------------------------------------------------
(* Acks. *)

\* Every program generates a msg_id for one message only, and no two users'
\* programs generate the same one.
NoCollision ==
    \A u, v \in Users : \A d \in Drafts[u], e \in Drafts[v] :
        d.id = e.id => u = v /\ d.to = e.to

\* The row an ack of m speaks of.
HasRow(m) ==
    \E p \in DOMAIN db : db[p].id = m.id /\ db[p].to = m.to /\ From(db[p]) = From(m)

\* A row is a draft of the user it is from.
RowsAreDrafts ==
    \A p \in DOMAIN db : \E d \in Drafts[From(db[p])] :
        d.id = db[p].id /\ d.to = db[p].to

\* A handler that is still to ack has a message with a row.
AckSound ==
    /\ RowsAreDrafts
    /\ \A c \in Conns : pc[c] = "acking" => HasRow(out[c])
    /\ \A c \in Conns : \A i \in DOMAIN Stream(c) :
         Stream(c)[i].type = "ack" => HasRow(Stream(c)[i].msg)

----------------------------------------------------------------------------
(* "delivered". *)

\* Connection k was given the frame of m: it is still to be found, or was lost.
Reached(k, m) ==
    \/ \E i \in DOMAIN Stream(k) : Stream(k)[i] = WSOut("msg", m)
    \/ WSOut("msg", m) \in lost[k]

\* The frame of a message its sender was told is delivered.
Arrived(m) == \E k \in Conns : UserOf[k] = m.to /\ Reached(k, m)

DeliveredSound ==
    \A m \in Message : \A c \in Conns : \A i \in DOMAIN Stream(c) :
        Stream(c)[i] = WSOut("delivered", m) => Arrived(m)

----------------------------------------------------------------------------
(* Where frames come from and where they stay. *)

\* The frames of a stream with one frame more.
LEMMA AppendFrames ==
    ASSUME NEW s \in Seq(Frame), NEW f \in Frame
    PROVE  /\ \A i \in DOMAIN Append(s, f) :
                Append(s, f)[i] = f \/ \E j \in DOMAIN s : s[j] = Append(s, f)[i]
           /\ \A j \in DOMAIN s : \E i \in DOMAIN Append(s, f) : Append(s, f)[i] = s[j]
           /\ \E i \in DOMAIN Append(s, f) : Append(s, f)[i] = f
<1>. DEFINE t == Append(s, f)
<1>1. /\ Len(s) \in Nat /\ DOMAIN s = 1 .. Len(s)
      /\ DOMAIN t = 1 .. Len(s) + 1
      /\ \A i \in 1 .. Len(s) : t[i] = s[i]
      /\ t[Len(s) + 1] = f
  BY AppendProperties, LenProperties
<1>. HIDE DEF t
<1>2. /\ \A i \in DOMAIN t : t[i] = f \/ \E j \in DOMAIN s : s[j] = t[i]
      /\ \A j \in DOMAIN s : \E i \in DOMAIN t : t[i] = s[j]
      /\ \E i \in DOMAIN t : t[i] = f
  BY <1>1
<1>. QED
  BY <1>2 DEF t

\* The frames of a stream that loses its channel, or the first frame of it.
LEMMA ConcatFrames ==
    ASSUME NEW w \in Seq(Frame), NEW b \in Seq(Frame)
    PROVE  /\ \A i \in DOMAIN w : \E j \in DOMAIN (w \o b) : (w \o b)[j] = w[i]
           /\ b # <<>> => \A i \in DOMAIN (w \o Tail(b)) :
                            \E j \in DOMAIN (w \o b) : (w \o b)[j] = (w \o Tail(b))[i]
<1>. DEFINE s == w \o b
            r == Tail(b)
            t == w \o r
<1>1. /\ Len(w) \in Nat /\ Len(b) \in Nat /\ DOMAIN w = 1 .. Len(w)
      /\ DOMAIN s = 1 .. Len(w) + Len(b)
      /\ \A i \in 1 .. Len(w) + Len(b) :
           s[i] = IF i <= Len(w) THEN w[i] ELSE b[i - Len(w)]
  BY ConcatProperties, LenProperties
<1>. HIDE DEF s
<1>2. \A i \in DOMAIN w : \E j \in DOMAIN s : s[j] = w[i]
  BY <1>1
<1>3. ASSUME b # <<>>, NEW i \in DOMAIN t PROVE \E j \in DOMAIN s : s[j] = t[i]
  <2>1. /\ r \in Seq(Frame) /\ Len(r) = Len(b) - 1
        /\ \A j \in 1 .. Len(r) : r[j] = b[j + 1]
    BY <1>3, HeadTailProperties
  <2>2. /\ DOMAIN t = 1 .. Len(w) + Len(r)
        /\ \A j \in 1 .. Len(w) + Len(r) :
             t[j] = IF j <= Len(w) THEN w[j] ELSE r[j - Len(w)]
    <3>. HIDE DEF r
    <3>1. r \in Seq(Frame)
      BY <2>1
    <3>. QED
      BY <3>1, ConcatProperties, LenProperties
  <2>. HIDE DEF r, t
  <2>3. CASE i <= Len(w)
    BY <1>1, <1>3, <2>1, <2>2, <2>3
  <2>4. CASE ~(i <= Len(w))
    <3>1. i \in 1 .. Len(w) + Len(r) /\ i - Len(w) \in 1 .. Len(r)
          /\ (i + 1) - Len(w) = (i - Len(w)) + 1
          /\ i + 1 \in DOMAIN s /\ ~(i + 1 <= Len(w))
      BY <1>1, <1>3, <2>1, <2>2, <2>4
    <3>2. t[i] = r[i - Len(w)] /\ r[i - Len(w)] = b[(i - Len(w)) + 1]
      BY <2>1, <2>2, <2>4, <3>1
    <3>3. s[i + 1] = b[(i + 1) - Len(w)]
      BY <1>1, <3>1
    <3>. QED
      BY <3>1, <3>2, <3>3
  <2>. QED
    BY <2>3, <2>4
<1>. QED
  BY <1>2, <1>3 DEF s, t, r

\* Only a handler that is to ack sends an ack, and of its own message; only
\* the hub says "delivered", of the message it hands on.
LEMMA FrameOrigin ==
    ASSUME Registry, Delivery, Next, NEW k \in Conns, NEW i \in DOMAIN (Stream(k)')
    PROVE  \/ \E j \in DOMAIN Stream(k) : Stream(k)[j] = Stream(k)'[i]
           \/ /\ Stream(k)'[i].type = "ack"
              /\ pc[k] = "acking" /\ Stream(k)'[i].msg = out[k]
           \/ /\ Stream(k)'[i].type = "delivered"
              /\ SendToOnline /\ Stream(k)'[i].msg = Head(sendTo)
           \/ Stream(k)'[i].type \notin {"ack", "delivered"}
<1>. DEFINE f == Stream(k)'[i]
<1>0. Stream(k) \in Seq(Frame) /\ TypeInv
  BY StreamType DEF Registry
<1>1. CASE Stream(k)' = Stream(k)
  BY <1>1
<1>2. ASSUME NEW e \in Frame, Stream(k)' = Append(Stream(k), e)
      PROVE  f = e \/ \E j \in DOMAIN Stream(k) : Stream(k)[j] = f
  BY <1>0, <1>2, AppendFrames
<1>3. ASSUME NEW c \in Conns, HandlerStep(c)
      PROVE  \/ \E j \in DOMAIN Stream(k) : Stream(k)[j] = f
             \/ f.type = "ack" => pc[k] = "acking" /\ f.msg = out[k]
  <2>1. pc[c] = "echoing" => out[c].conn = c
    BY DEF Delivery, HandlerSound
  <2>2. CASE k = c /\ \E e \in Frame :
                /\ Stream(k)' = Append(Stream(k), e)
                /\ ~Decides(k, e)
                /\ e.type = "ack" => pc[c] = "acking" /\ e.msg = out[c]
    BY <1>2, <2>2
  <2>. QED
    BY <1>0, <1>1, <1>3, <2>1, <2>2, HandlerStreams
<1>4. ASSUME NEW c \in Conns, HandlerStep(c)
      PROVE  \/ \E j \in DOMAIN Stream(k) : Stream(k)[j] = f
             \/ f.type # "delivered"
  <2>1. pc[c] = "echoing" => out[c].conn = c
    BY DEF Delivery, HandlerSound
  <2>2. CASE k = c /\ \E e \in Frame :
                /\ Stream(k)' = Append(Stream(k), e)
                /\ ~Decides(k, e)
    BY <1>2, <2>2 DEF Decides, Outcomes
  <2>. QED
    BY <1>0, <1>1, <1>4, <2>1, <2>2, HandlerStreams
<1>5. ASSUME NEW c \in Conns, WriterStep(c) \/ Register(c) \/ Unregister(c)
      PROVE  \E j \in DOMAIN Stream(k) : Stream(k)[j] = f
  <2>1. CASE chan[k].buf # <<>> /\ Stream(k)' = wire[k] \o Tail(chan[k].buf)
    <3>. DEFINE w == wire[k]
                b == chan[k].buf
    <3>1. w \in Seq(Frame) /\ b \in Seq(Frame)
      BY <1>0, StreamType
    <3>2. Stream(k) = w \o b /\ Stream(k)' = w \o Tail(b) /\ b # <<>>
      BY <2>1 DEF Stream
    <3>. DEFINE s == w \o b
                t == w \o Tail(b)
    <3>. HIDE DEF w, b
    <3>3. \A l \in DOMAIN t : \E j \in DOMAIN s : s[j] = t[l]
      BY <3>1, <3>2, ConcatFrames
    <3>4. Stream(k) = s /\ Stream(k)' = t
      BY <3>2
    <3>. HIDE DEF s, t
    <3>. QED
      BY <3>3, <3>4
  <2>. QED
    BY <1>0, <1>1, <1>5, <2>1, WriterStreams, RegistrationStreams
<1>6. ASSUME Restart PROVE \E j \in DOMAIN Stream(k) : Stream(k)[j] = f
  <2>. DEFINE w == wire[k]
              b == chan[k].buf
  <2>1. w \in Seq(Frame) /\ b \in Seq(Frame)
    BY <1>0, StreamType
  <2>2. Stream(k) = w \o b /\ Stream(k)' = w
    BY <1>0, <1>6, RestartStreams DEF Stream
  <2>. HIDE DEF w, b
  <2>. QED
    BY <2>1, <2>2, ConcatFrames
<1>7. ASSUME HubSend
      PROVE  Head(sendTo) \in Message
  BY <1>0, <1>7, RequestHead DEF HubSend, SendToOffline, SendToOnline, SendToSlow, TakeRequest
<1>8. ASSUME SendToOffline \/ SendToSlow
      PROVE  \/ \E j \in DOMAIN Stream(k) : Stream(k)[j] = f
             \/ f.type \in {"offline", "failed"}
  <2>1. ASSUME NEW type \in {"offline", "failed"},
               Stream(k)' = Append(Stream(k), WSOut(type, Head(sendTo)))
        PROVE  (\E j \in DOMAIN Stream(k) : Stream(k)[j] = f) \/ f.type = type
    <3>1. WSOut(type, Head(sendTo)) \in Frame /\ WSOut(type, Head(sendTo)).type = type
      BY <1>7, <1>8, FrameType DEF HubSend, FrameTypes, WSOut
    <3>. QED
      BY <1>2, <2>1, <3>1
  <2>. QED
    BY <1>1, <1>8, <2>1, RefusedStreams
<1>9. ASSUME SendToOnline
      PROVE  \/ \E j \in DOMAIN Stream(k) : Stream(k)[j] = f
             \/ f.type = "msg"
             \/ f.type = "delivered" /\ f.msg = Head(sendTo)
  <2>. DEFINE m == Head(sendTo)
              e == WSOut("msg", m)
              d == WSOut("delivered", m)
              given == IF k = byUser[m.to] THEN Append(Stream(k), e) ELSE Stream(k)
  <2>1. e \in Frame /\ d \in Frame /\ e.type = "msg" /\ d.type = "delivered" /\ d.msg = m
    BY <1>7, <1>9, FrameType DEF HubSend, FrameTypes, WSOut
  <2>2. Stream(k)' = given \/ Stream(k)' = Append(given, d)
    BY <1>9, OnlineStreams
  <2>. HIDE DEF e, d, m
  <2>3. given \in Seq(Frame)
    BY <1>0, <2>1, AppendProperties
  <2>4. \A j \in DOMAIN given : given[j] = e \/ \E l \in DOMAIN Stream(k) : Stream(k)[l] = given[j]
    BY <1>0, <2>1, AppendFrames
  <2>. HIDE DEF given
  <2>5. CASE Stream(k)' = Append(given, d)
    <3>1. f = d \/ \E j \in DOMAIN given : given[j] = f
      BY <2>1, <2>3, <2>5, AppendFrames
    <3>. QED
      BY <2>1, <2>4, <3>1 DEF m
  <2>. QED
    BY <2>1, <2>2, <2>4, <2>5
<1>. HIDE DEF f
<1>10. CASE \E c \in Conns : HandlerStep(c)
  BY <1>3, <1>4, <1>10 DEF f
<1>11. CASE \E c \in Conns : WriterStep(c) \/ Register(c) \/ Unregister(c)
  BY <1>5, <1>11 DEF f
<1>12. CASE Restart
  BY <1>6, <1>12 DEF f
<1>13. CASE SendToOffline \/ SendToSlow
  BY <1>8, <1>13 DEF f
<1>14. CASE SendToOnline
  BY <1>9, <1>14 DEF f
<1>. QED
  BY <1>10, <1>11, <1>12, <1>13, <1>14 DEF Next, HandlerStep, WriterStep

\* Taking the first frame of a channel takes no other.
LEMMA HeadTaken ==
    ASSUME NEW w \in Seq(Frame), NEW b \in Seq(Frame), b # <<>>, NEW j \in DOMAIN (w \o b)
    PROVE  \/ (w \o b)[j] = Head(b)
           \/ \E i \in DOMAIN (w \o Tail(b)) : (w \o Tail(b))[i] = (w \o b)[j]
<1>. DEFINE s == w \o b
            r == Tail(b)
            t == w \o r
<1>1. /\ Len(w) \in Nat /\ Len(b) \in Nat \ {0}
      /\ DOMAIN s = 1 .. Len(w) + Len(b)
      /\ \A i \in 1 .. Len(w) + Len(b) :
           s[i] = IF i <= Len(w) THEN w[i] ELSE b[i - Len(w)]
  BY ConcatProperties, LenProperties, EmptySeq
<1>2. /\ r \in Seq(Frame) /\ Len(r) = Len(b) - 1 /\ Head(b) = b[1]
      /\ \A i \in 1 .. Len(r) : r[i] = b[i + 1]
  BY HeadTailProperties
<1>. HIDE DEF r, s
<1>3. /\ DOMAIN t = 1 .. Len(w) + Len(r)
      /\ \A i \in 1 .. Len(w) + Len(r) : t[i] = IF i <= Len(w) THEN w[i] ELSE r[i - Len(w)]
  <2>1. r \in Seq(Frame) /\ t = w \o r
    BY <1>2
  <2>. QED
    BY <2>1, ConcatProperties, LenProperties
<1>. HIDE DEF t
<1>4. ASSUME j <= Len(w) PROVE \E i \in DOMAIN t : t[i] = s[j]
  <2>1. j \in DOMAIN t /\ t[j] = s[j]
    BY <1>1, <1>2, <1>3, <1>4 DEF s
  <2>. QED
    BY <2>1
<1>5. ASSUME j = Len(w) + 1 PROVE s[j] = Head(b)
  <2>1. s[j] = b[1]
    BY <1>1, <1>5 DEF s
  <2>. QED
    BY <1>2, <2>1
<1>6. ASSUME j > Len(w) + 1 PROVE \E i \in DOMAIN t : t[i] = s[j]
  <2>1. /\ j - 1 \in DOMAIN t /\ ~(j - 1 <= Len(w))
        /\ j \in 1 .. Len(w) + Len(b) /\ ~(j <= Len(w))
        /\ (j - 1) - Len(w) \in 1 .. Len(r) /\ ((j - 1) - Len(w)) + 1 = j - Len(w)
    BY <1>1, <1>2, <1>3, <1>6 DEF s
  <2>2. t[j - 1] = r[(j - 1) - Len(w)] /\ r[(j - 1) - Len(w)] = b[j - Len(w)]
    BY <1>2, <1>3, <2>1
  <2>3. s[j] = b[j - Len(w)]
    BY <1>1, <2>1
  <2>4. t[j - 1] = s[j]
    BY <2>2, <2>3
  <2>. QED
    BY <2>1, <2>4
<1>7. s[j] = Head(b) \/ \E i \in DOMAIN t : t[i] = s[j]
  <2>1. j \in 1 .. Len(w) + Len(b)
    BY <1>1 DEF s
  <2>2. j <= Len(w) \/ j = Len(w) + 1 \/ j > Len(w) + 1
    BY <1>1, <2>1
  <2>. QED
    BY <2>2, <1>4, <1>5, <1>6
<1>. QED
  BY <1>7 DEF s, t, r

\* Only a write that fails and the end of the process lose frames, and both say
\* which.
LEMMA LostGrows ==
    ASSUME TypeInv, Next, NEW k \in Conns
    PROVE  lost[k] \subseteq lost'[k]
<1>0. lost \in [Conns -> SUBSET Frame]
  BY DEF TypeInv, TypeOK
<1>1. ASSUME NEW c \in Conns, HandlerStep(c) PROVE lost' = lost
  BY <1>1 DEF HandlerStep, Greet, ReadRejected, ReadMsg, Ack, Echo, HandToHub, ReadFails
<1>2. ASSUME NEW c \in Conns, WriterStep(c) PROVE lost[k] \subseteq lost'[k]
  BY <1>0, <1>2 DEF WriterStep, WriteFrame, WriteFails, PingFails, SendCloseFrame
<1>3. ASSUME NEW c \in Conns, Register(c) \/ Unregister(c) PROVE lost' = lost
  BY <1>3 DEF Register, Unregister
<1>4. ASSUME HubSend PROVE lost' = lost
  BY <1>4 DEF HubSend, SendToOffline, SendToOnline, SendToSlow, TakeRequest
<1>5. ASSUME Restart PROVE lost[k] \subseteq lost'[k]
  BY <1>5 DEF Restart
<1>. QED
  BY <1>1, <1>2, <1>3, <1>4, <1>5 DEF Next, HandlerStep, WriterStep, HubSend

LEMMA FrameKept ==
    ASSUME Registry, Delivery, Next, NEW k \in Conns,
           NEW j \in DOMAIN Stream(k), Stream(k)[j].type = "msg"
    PROVE  \/ \E i \in DOMAIN (Stream(k)') : Stream(k)'[i] = Stream(k)[j]
           \/ Stream(k)[j] \in lost'[k]
<1>. DEFINE f == Stream(k)[j]
<1>0. Stream(k) \in Seq(Frame) /\ TypeInv
  BY StreamType DEF Registry
<1>1. CASE Stream(k)' = Stream(k)
  BY <1>1
<1>2. ASSUME NEW e \in Frame, Stream(k)' = Append(Stream(k), e)
      PROVE  \E i \in DOMAIN (Stream(k)') : Stream(k)'[i] = f
  <2>. DEFINE s == Stream(k)
              t == Append(s, e)
  <2>1. \A l \in DOMAIN s : \E i \in DOMAIN t : t[i] = s[l]
    BY <1>0, AppendFrames
  <2>2. Stream(k)' = t /\ j \in DOMAIN s /\ f = s[j]
    BY <1>2
  <2>. HIDE DEF s, t, f
  <2>. QED
    BY <2>1, <2>2
<1>3. CASE \E c \in Conns : HandlerStep(c)
  <2>1. PICK c \in Conns : HandlerStep(c)
    BY <1>3
  <2>2. pc[c] = "echoing" => out[c].conn = c
    BY DEF Delivery, HandlerSound
  <2>. QED
    BY <1>0, <1>1, <1>2, <2>1, <2>2, HandlerStreams
<1>4. CASE \E c \in Conns : WriterStep(c) \/ Register(c) \/ Unregister(c)
  <2>1. CASE WriteFails(k)
    <3>. DEFINE w == wire[k]
                b == chan[k].buf
    <3>1. w \in Seq(Frame) /\ b \in Seq(Frame) /\ b # <<>>
      BY <1>0, <2>1, StreamType DEF WriteFails
    <3>2. Stream(k) = w \o b /\ Stream(k)' = w \o Tail(b)
      BY <1>0, <2>1 DEF Stream, WriteFails, TypeInv, TypeOK, Channel
    <3>3. f.type = "msg" => f # Head(b) \/ f \in lost'[k]
      BY <1>0, <2>1 DEF WriteFails, Texts, TypeInv, TypeOK
    <3>. HIDE DEF w, b
    <3>4. \/ (w \o b)[j] = Head(b)
          \/ \E i \in DOMAIN (w \o Tail(b)) : (w \o Tail(b))[i] = (w \o b)[j]
      BY <3>1, <3>2, HeadTaken
    <3>. QED
      BY <3>2, <3>3, <3>4
  <2>2. Stream(k)' = Stream(k) \/ WriteFails(k)
    BY <1>0, <1>4, WriterStreams, RegistrationStreams
  <2>. QED
    BY <1>1, <2>1, <2>2
<1>5. CASE Restart
  <2>. DEFINE w == wire[k]
              b == chan[k].buf
  <2>1. w \in Seq(Frame) /\ b \in Seq(Frame)
    BY <1>0, StreamType
  <2>2. Stream(k) = w \o b /\ Stream(k)' = w
    BY <1>0, <1>5, RestartStreams DEF Stream
  <2>3. Texts(Range(b)) \subseteq lost'[k]
    BY <1>5 DEF Restart
  <2>. HIDE DEF w, b
  <2>. DEFINE s == w \o b
  <2>4. /\ Len(w) \in Nat /\ Len(b) \in Nat /\ DOMAIN w = 1 .. Len(w) /\ DOMAIN b = 1 .. Len(b)
        /\ DOMAIN s = 1 .. Len(w) + Len(b)
        /\ \A i \in 1 .. Len(w) + Len(b) :
             s[i] = IF i <= Len(w) THEN w[i] ELSE b[i - Len(w)]
    BY <2>1, ConcatProperties, LenProperties
  <2>5. j \in DOMAIN s /\ f = s[j]
    BY <2>2
  <2>. HIDE DEF s
  <2>6. CASE j <= Len(w)
    <3>1. j \in DOMAIN w /\ w[j] = f
      BY <2>4, <2>5, <2>6
    <3>. QED
      BY <2>2, <3>1
  <2>7. CASE ~(j <= Len(w))
    <3>1. j - Len(w) \in DOMAIN b /\ f = b[j - Len(w)]
      BY <2>4, <2>5, <2>7
    <3>2. f \in Texts(Range(b))
      BY <3>1 DEF Texts, Range
    <3>. QED
      BY <2>3, <3>2
  <2>. QED
    BY <2>6, <2>7
<1>6. HubSend => Head(sendTo) \in Message
  BY <1>0, RequestHead DEF HubSend, SendToOffline, SendToOnline, SendToSlow, TakeRequest
<1>7. CASE SendToOffline \/ SendToSlow
  <2>1. ASSUME NEW type \in {"offline", "failed"},
               Stream(k)' = Append(Stream(k), WSOut(type, Head(sendTo)))
        PROVE  \E i \in DOMAIN (Stream(k)') : Stream(k)'[i] = f
    <3>1. WSOut(type, Head(sendTo)) \in Frame
      BY <1>6, <1>7, FrameType DEF HubSend, FrameTypes
    <3>. QED
      BY <1>2, <2>1, <3>1
  <2>. QED
    BY <1>1, <1>7, <2>1, RefusedStreams
<1>8. CASE SendToOnline
  <2>. DEFINE m == Head(sendTo)
              e == WSOut("msg", m)
              d == WSOut("delivered", m)
              given == IF k = byUser[m.to] THEN Append(Stream(k), e) ELSE Stream(k)
  <2>1. e \in Frame /\ d \in Frame
    BY <1>6, <1>8, FrameType DEF HubSend, FrameTypes
  <2>2. Stream(k)' = given \/ Stream(k)' = Append(given, d)
    BY <1>8, OnlineStreams
  <2>. HIDE DEF e, d, m
  <2>3. given \in Seq(Frame)
    BY <1>0, <2>1, AppendProperties
  <2>4. \E i \in DOMAIN given : given[i] = f
    <3>. DEFINE s == Stream(k)
                t == Append(s, e)
    <3>1. \A l \in DOMAIN s : \E i \in DOMAIN t : t[i] = s[l]
      BY <1>0, <2>1, AppendFrames
    <3>2. (given = s \/ given = t) /\ j \in DOMAIN s /\ f = s[j]
      OBVIOUS
    <3>. HIDE DEF s, t, f, given
    <3>. QED
      BY <3>1, <3>2
  <2>. HIDE DEF given, f
  <2>5. CASE Stream(k)' = Append(given, d)
    <3>. DEFINE t == Append(given, d)
    <3>1. \A l \in DOMAIN given : \E i \in DOMAIN t : t[i] = given[l]
      BY <2>1, <2>3, AppendFrames
    <3>2. Stream(k)' = t
      BY <2>5
    <3>. HIDE DEF t
    <3>3. \E i \in DOMAIN (Stream(k)') : Stream(k)'[i] = f
      BY <2>4, <3>1, <3>2
    <3>. QED
      BY <3>3 DEF f
  <2>6. CASE Stream(k)' = given
    <3>1. \E i \in DOMAIN (Stream(k)') : Stream(k)'[i] = f
      BY <2>4, <2>6
    <3>. QED
      BY <3>1 DEF f
  <2>. QED
    BY <2>2, <2>5, <2>6
<1>. QED
  BY <1>3, <1>4, <1>5, <1>7, <1>8 DEF Next, HandlerStep, WriterStep

\* No step makes a row of a message go away.
LEMMA RowsStay ==
    ASSUME TypeInv, Next
    PROVE  /\ db' = db \/ \E c \in Conns : ReadMsg(c)
           /\ \A m : HasRow(m) => HasRow(m)'
<1>1. db' = db \/ \E c \in Conns : ReadMsg(c)
  BY DEF Next, Greet, ReadRejected, Ack, Echo, HandToHub, ReadFails, WriteFrame, WriteFails,
         PingFails, SendCloseFrame, Register, Unregister, SendToOffline, SendToOnline,
         SendToSlow, TakeRequest, Restart
<1>2. ASSUME NEW c \in Conns, ReadMsg(c)
      PROVE  \A p \in DOMAIN db : p \in DOMAIN db' /\ db'[p] = db[p]
  <2>1. PICK d \in Drafts[UserOf[c]] :
          db' = db \/ db' = Append(db, [id |-> d.id, to |-> d.to, conn |-> c])
    BY <1>2 DEF ReadMsg, StoreTextMessage
  <2>2. [id |-> d.id, to |-> d.to, conn |-> c] \in Message
    BY ConstantsAssumption DEF Message
  <2>3. db \in Seq(Message)
    BY DEF TypeInv, TypeOK
  <2>. QED
    BY <2>1, <2>2, <2>3, AppendProperties, LenProperties
<1>3. \A p \in DOMAIN db : p \in DOMAIN db' /\ db'[p] = db[p]
  BY <1>1, <1>2
<1>. QED
  BY <1>1, <1>3 DEF HasRow, From

----------------------------------------------------------------------------
\* A message that is stored, or found stored under its msg_id, has its row,
\* because nobody else uses that msg_id.
LEMMA StoredHasRow ==
    ASSUME NoCollision, TypeInv, RowsAreDrafts, NEW c \in Conns, ReadMsg(c)
    PROVE  RowsAreDrafts' /\ HasRow(out[c])'
<1>1. PICK d \in Drafts[UserOf[c]] :
        /\ StoreTextMessage(c, [id |-> d.id, to |-> d.to, conn |-> c])
        /\ out' = [out EXCEPT ![c] = [id |-> d.id, to |-> d.to, conn |-> c]]
  BY DEF ReadMsg
<1>. DEFINE m == [id |-> d.id, to |-> d.to, conn |-> c]
<1>2. m \in Message /\ out'[c] = m /\ From(m) = UserOf[c] /\ m.id = d.id /\ m.to = d.to
      /\ UserOf[c] \in Users
  <2>1. UserOf[c] \in Users /\ d \in [id : MsgIds, to : Users]
    BY <1>1, ConstantsAssumption
  <2>2. m \in Message /\ m.conn = c /\ m.id = d.id /\ m.to = d.to
    BY <2>1 DEF Message
  <2>3. out'[c] = m
    BY <1>1 DEF TypeInv, TypeOK
  <2>. QED
    BY <2>1, <2>2, <2>3 DEF From
<1>. HIDE DEF m
<1>db. db \in Seq(Message)
  BY DEF TypeInv, TypeOK
<1>3. CASE Stored(m.id)
  <2>1. db' = db
    BY <1>1, <1>3 DEF StoreTextMessage, m
  <2>2. PICK p \in DOMAIN db : db[p].id = m.id
    BY <1>3 DEF Stored
  <2>3. PICK e \in Drafts[From(db[p])] : e.id = db[p].id /\ e.to = db[p].to
    BY DEF RowsAreDrafts
  <2>4. From(db[p]) \in Users
    <3>1. db[p] \in Message
      BY <1>db, LenProperties, ElementOfSeq
    <3>. QED
      BY <3>1, ConstantsAssumption DEF From, Message
  <2>5. From(db[p]) = UserOf[c] /\ e.to = d.to
    BY <1>2, <2>2, <2>3, <2>4 DEF NoCollision
  <2>. QED
    BY <1>2, <2>1, <2>2, <2>3, <2>5 DEF HasRow, RowsAreDrafts, From
<1>4. CASE ~Stored(m.id)
  <2>1. db' = Append(db, m)
    BY <1>1, <1>4 DEF StoreTextMessage, m
  <2>2. /\ Len(db) \in Nat /\ DOMAIN db = 1 .. Len(db)
        /\ DOMAIN db' = 1 .. Len(db) + 1
        /\ \A p \in 1 .. Len(db) : db'[p] = db[p]
        /\ db'[Len(db) + 1] = m
    BY <1>2, <1>db, <2>1, AppendProperties, LenProperties
  <2>3. HasRow(out[c])'
    BY <1>2, <2>2 DEF HasRow, From
  <2>4. RowsAreDrafts'
    BY <1>2, <2>2 DEF RowsAreDrafts, From
  <2>. QED
    BY <2>3, <2>4
<1>. QED
  BY <1>3, <1>4

\* Where every msg_id stands for one message, server_received is true: the
\* message its sender wrote is in the table.
THEOREM AckIsTrue == NoCollision => (Spec => []AckedIsStored)
<1>. SUFFICES ASSUME NoCollision PROVE Spec => []AckedIsStored
  OBVIOUS
<1>1. Init => AckSound
  <2>. SUFFICES ASSUME Init PROVE AckSound
    OBVIOUS
  <2>1. \A k \in Conns : Stream(k) = <<>>
    BY ConcatEmptySeq, EmptySeq DEF Init, Stream
  <2>2. db = <<>> /\ \A k \in Conns : pc[k] = "idle"
    BY DEF Init
  <2>3. DOMAIN <<>> = {}
    OBVIOUS
  <2>. QED
    BY <2>1, <2>2, <2>3 DEF AckSound, RowsAreDrafts
<1>2. Registry /\ Delivery /\ AckSound /\ [Next]_vars => AckSound'
  <2>. SUFFICES ASSUME Registry, Delivery, AckSound, [Next]_vars PROVE AckSound'
    OBVIOUS
  <2>0. TypeInv
    BY DEF Registry
  <2>1. CASE UNCHANGED vars
    BY <2>1 DEF vars, AckSound, RowsAreDrafts, HasRow, Stream
  <2>2. CASE Next
    <3>1. (\A m : HasRow(m) => HasRow(m)') /\ (db' = db \/ \E c \in Conns : ReadMsg(c))
      BY <2>0, <2>2, RowsStay
    <3>2. RowsAreDrafts'
      <4>1. CASE db' = db
        BY <4>1 DEF AckSound, RowsAreDrafts
      <4>. QED
        BY <2>0, <3>1, <4>1, StoredHasRow DEF AckSound
    <3>3. ASSUME NEW c \in Conns, pc'[c] = "acking"
          PROVE  \/ ReadMsg(c)
                 \/ pc[c] = "acking" /\ out'[c] = out[c]
      <4>0. /\ pc \in [Conns -> PCs] /\ out \in [Conns -> Message \cup {NoMsg}]
        BY <2>0 DEF TypeInv, TypeOK
      <4>1. ASSUME NEW k \in Conns, HandlerStep(k)
            PROVE  ReadMsg(c) \/ (pc[c] = "acking" /\ out'[c] = out[c])
        BY <3>3, <4>0, <4>1 DEF HandlerStep, Greet, ReadRejected, ReadMsg, Ack, Echo, HandToHub,
           ReadFails, Enqueue, hubVars, pumpVars
      <4>2. ASSUME NEW k \in Conns, WriterStep(k) \/ Register(k) \/ Unregister(k)
            PROVE  pc[c] = "acking" /\ out'[c] = out[c]
        BY <3>3, <4>0, <4>2 DEF WriterStep, WriteFrame, WriteFails, PingFails, SendCloseFrame,
           Register, Unregister, pumpVars
      <4>3. ASSUME HubSend
            PROVE  pc[c] = "acking" /\ out'[c] = out[c]
        BY <3>3, <4>3 DEF HubSend, SendToOffline, SendToOnline, SendToSlow, TakeRequest, pumpVars
      <4>4. ~Restart
        BY <3>3 DEF Restart
      <4>. QED
        BY <2>2, <4>1, <4>2, <4>3, <4>4 DEF Next, HandlerStep, WriterStep, HubSend
    <3>4. ASSUME NEW c \in Conns, pc'[c] = "acking" PROVE HasRow(out[c])'
      <4>1. CASE ReadMsg(c)
        BY <2>0, <4>1, StoredHasRow DEF AckSound
      <4>2. CASE pc[c] = "acking" /\ out'[c] = out[c]
        <5>1. HasRow(out[c])
          BY <4>2 DEF AckSound
        <5>. QED
          BY <3>1, <4>2, <5>1 DEF HasRow
      <4>. QED
        BY <3>3, <3>4, <4>1, <4>2
    <3>5. ASSUME NEW c \in Conns, NEW i \in DOMAIN (Stream(c)'), Stream(c)'[i].type = "ack"
          PROVE  HasRow(Stream(c)[i].msg)'
      <4>1. HasRow(Stream(c)'[i].msg)
        BY <2>2, <3>5, FrameOrigin DEF AckSound
      <4>. QED
        BY <3>1, <4>1 DEF HasRow
    <3>. QED
      BY <3>2, <3>4, <3>5 DEF AckSound
  <2>. QED
    BY <2>1, <2>2
<1>3. Registry /\ AckSound => AckedIsStored
  <2>. SUFFICES ASSUME Registry, AckSound, NEW c \in Conns, NEW f \in Range(Stream(c)),
                       f.type = "ack"
                PROVE  \E row \in Range(db) :
                         row.id = f.msg.id /\ row.to = f.msg.to /\ From(row) = From(f.msg)
    BY DEF AckedIsStored
  <2>1. PICK i \in DOMAIN Stream(c) : Stream(c)[i] = f
    BY DEF Range
  <2>2. HasRow(f.msg)
    BY <2>1 DEF AckSound
  <2>. QED
    BY <2>2 DEF HasRow, Range
<1>. QED
  BY <1>1, <1>2, <1>3, RegistrySound, DeliverySound, PTL DEF Spec

----------------------------------------------------------------------------
\* What has arrived stays, or is known to be lost.
LEMMA ArrivedStays ==
    ASSUME Registry, Delivery, Next, NEW m, Arrived(m)
    PROVE  Arrived(m)'
<1>1. PICK k \in Conns : UserOf[k] = m.to /\ Reached(k, m)
  BY DEF Arrived
<1>2. CASE WSOut("msg", m) \in lost[k]
  <2>1. WSOut("msg", m) \in lost'[k]
    BY <1>2, LostGrows DEF Registry
  <2>. QED
    BY <1>1, <2>1 DEF Arrived, Reached, WSOut
<1>3. CASE \E i \in DOMAIN Stream(k) : Stream(k)[i] = WSOut("msg", m)
  <2>1. \/ \E i \in DOMAIN (Stream(k)') : Stream(k)'[i] = WSOut("msg", m)
        \/ WSOut("msg", m) \in lost'[k]
    <3>1. WSOut("msg", m).type = "msg"
      BY DEF WSOut
    <3>. QED
      BY <1>3, <3>1, FrameKept
  <2>. QED
    BY <1>1, <2>1 DEF Arrived, Reached, WSOut
<1>. QED
  BY <1>1, <1>2, <1>3 DEF Reached

\* The hub says "delivered" only when the frame of that message has gone into
\* the channel of a connection of its receiver, over however many connections,
\* kicks and restarts: it is there, was written from there, or is known to have
\* been lost from there.
THEOREM DeliveredIsTrue == Spec => []DeliveredMeansQueued
<1>1. Init => DeliveredSound
  <2>. SUFFICES ASSUME Init PROVE DeliveredSound
    OBVIOUS
  <2>1. \A k \in Conns : Stream(k) = <<>>
    BY ConcatEmptySeq, EmptySeq DEF Init, Stream
  <2>2. DOMAIN <<>> = {}
    OBVIOUS
  <2>. QED
    BY <2>1, <2>2 DEF DeliveredSound
<1>2. Registry /\ Registry' /\ Delivery /\ DeliveredSound /\ [Next]_vars => DeliveredSound'
  <2>. SUFFICES ASSUME Registry, Registry', Delivery, DeliveredSound, [Next]_vars
                PROVE  DeliveredSound'
    OBVIOUS
  <2>1. CASE UNCHANGED vars
    BY <2>1 DEF vars, DeliveredSound, Arrived, Reached, Stream
  <2>2. CASE Next
    <3>1. ASSUME NEW m \in Message, NEW c \in Conns, NEW i \in DOMAIN (Stream(c)'),
                 Stream(c)'[i] = WSOut("delivered", m)
          PROVE  Arrived(m)'
      <4>0. Stream(c)'[i].type = "delivered" /\ Stream(c)'[i].msg = m
        BY <3>1 DEF WSOut
      <4>1. CASE \E j \in DOMAIN Stream(c) : Stream(c)[j] = Stream(c)'[i]
        <5>1. Arrived(m)
          BY <3>1, <4>1 DEF DeliveredSound
        <5>. QED
          BY <2>2, <5>1, ArrivedStays
      <4>2. CASE SendToOnline /\ m = Head(sendTo)
        <5>. DEFINE f == WSOut("msg", m)
                    d == WSOut("delivered", m)
        <5>1. PICK dst \in Conns :
                /\ UserOf[dst] = m.to
                /\ Stream(dst)' \in {Append(Stream(dst), f), Append(Append(Stream(dst), f), d)}
          <6>1. byUser[m.to] \in Conns /\ UserOf[byUser[m.to]] = m.to
            BY <4>2, OnlineStreams
          <6>2. PICK k \in Conns : k = byUser[m.to]
            BY <6>1
          <6>3. Stream(k)' \in {Append(Stream(k), f), Append(Append(Stream(k), f), d)}
            BY <4>2, <6>2, OnlineStreams
          <6>. QED
            BY <6>1, <6>2, <6>3
        <5>2. Stream(dst) \in Seq(Frame) /\ f \in Frame /\ d \in Frame
          <6>1. TypeInv
            BY DEF Registry
          <6>. QED
            BY <5>1, <6>1, StreamType, FrameType DEF FrameTypes
        <5>. HIDE DEF f, d
        <5>3. \E l \in DOMAIN (Stream(dst)') : Stream(dst)'[l] = f
          <6>. DEFINE s == Append(Stream(dst), f)
                      t == Append(s, d)
          <6>1. s \in Seq(Frame) /\ \E l \in DOMAIN s : s[l] = f
            BY <5>2, AppendFrames, AppendProperties
          <6>2. \A l \in DOMAIN s : \E j \in DOMAIN t : t[j] = s[l]
            <7>. HIDE DEF s
            <7>. QED
              BY <5>2, <6>1, AppendFrames
          <6>3. Stream(dst)' \in {s, t}
            BY <5>1
          <6>. HIDE DEF s, t
          <6>. QED
            BY <6>1, <6>2, <6>3
        <5>. QED
          BY <5>1, <5>3 DEF Arrived, Reached, WSOut, f
      <4>. QED
        BY <2>2, <4>0, <4>1, <4>2, FrameOrigin
    <3>. QED
      BY <3>1 DEF DeliveredSound
  <2>. QED
    BY <2>1, <2>2
<1>3. TypeInv /\ Delivery /\ DeliveredSound => DeliveredMeansQueued
  <2>. SUFFICES ASSUME TypeInv, Delivery, DeliveredSound,
                       NEW c \in Conns, NEW f \in Range(Stream(c)), f.type = "delivered"
                PROVE  \E k \in Conns :
                         /\ UserOf[k] = f.msg.to
                         /\ WSOut("msg", f.msg) \in Range(Stream(k)) \cup lost[k]
    BY DEF DeliveredMeansQueued
  <2>1. PICK i \in DOMAIN Stream(c) : Stream(c)[i] = f
    BY DEF Range
  <2>2. f.msg \in Message
    <3>1. IsRow(f.msg)
      BY <2>1 DEF Delivery, ServedSound, Decides, Outcomes
    <3>. QED
      BY <3>1, LenProperties, ElementOfSeq DEF IsRow, TypeInv, TypeOK
  <2>3. f = WSOut("delivered", f.msg)
    <3>1. f \in Frame
      BY <2>1, StreamType, LenProperties, ElementOfSeq
    <3>. QED
      BY <3>1 DEF WSOut, Frame
  <2>4. Arrived(f.msg)
    BY <2>1, <2>2, <2>3 DEF DeliveredSound
  <2>. QED
    BY <2>4 DEF Arrived, Reached, Range
<1>4. Registry => TypeInv
  BY DEF Registry
<1>. QED
  BY <1>1, <1>2, <1>3, <1>4, RegistrySound, DeliverySound, PTL DEF Spec

=============================================================================
