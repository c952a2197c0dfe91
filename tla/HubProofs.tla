----------------------------- MODULE HubProofs -----------------------------
(***************************************************************************)
(* Theorems about Hub, for every value of its constants: the types, and    *)
(* that the registry of the hub is sound - its two maps agree, a           *)
(* registered connection has a living handler and an open channel, and a   *)
(* connection leaves only for a reason.                                    *)
(***************************************************************************)
EXTENDS Hub, SequenceTheorems, TLAPS

\* What TypeOK needs to be inductive: a handler that is about to ack, echo or
\* hand over a message holds one.
HandlingMessage ==
    \A c \in Conns : pc[c] \in {"acking", "echoing", "handing"} => out[c] \in Message

\* The type part of the inductive invariant.
TypeInv == TypeOK /\ HandlingMessage

\* The inductive invariant: the parts of the registry need each other, since
\* whom an action removes and whose channel it closes are looked up in both
\* maps, and only a living handler of a registered connection unregisters it.
Registry ==
    /\ TypeInv
    /\ RegistryConsistent
    /\ OpenIffRegistered
    /\ NoZombie

----------------------------------------------------------------------------
\* Every frame the code builds is a Frame.
LEMMA FrameType ==
    ASSUME NEW type \in FrameTypes, NEW m \in Message \cup {NoMsg}
    PROVE  WSOut(type, m) \in Frame
BY DEF WSOut, Frame

\* A non-blocking send keeps a channel a channel within its capacity, and
\* does not open or close it.
LEMMA OfferType ==
    ASSUME NEW ch \in Channel, Len(ch.buf) <= SendCap, NEW f \in Frame
    PROVE  /\ Offer(ch, f) \in Channel
           /\ Len(Offer(ch, f).buf) <= SendCap
           /\ Offer(ch, f).open = ch.open
<1>1. CASE ch.open /\ Len(ch.buf) < SendCap
  <2>1. Append(ch.buf, f) \in Seq(Frame) /\ Len(Append(ch.buf, f)) = Len(ch.buf) + 1
    BY AppendProperties DEF Channel
  <2>2. Offer(ch, f) = [ch EXCEPT !.buf = Append(@, f)]
    BY <1>1 DEF Offer
  <2>3. Len(ch.buf) \in Nat
    BY LenProperties DEF Channel
  <2>4. Offer(ch, f).buf = Append(ch.buf, f) /\ Offer(ch, f).open = ch.open
    BY <2>2 DEF Channel
  <2>5. Offer(ch, f) = [buf |-> Append(ch.buf, f), open |-> ch.open]
    BY <2>2 DEF Channel
  <2>6. Offer(ch, f) \in Channel
    BY <2>1, <2>5 DEF Channel
  <2>. QED
    BY <1>1, <2>1, <2>3, <2>4, <2>6, ConstantsAssumption
<1>2. CASE ~(ch.open /\ Len(ch.buf) < SendCap)
  BY <1>2 DEF Offer
<1>. QED
  BY <1>1, <1>2

\* Taking the head of a channel, or closing it, keeps it a channel.
LEMMA ChannelType ==
    ASSUME NEW ch \in Channel, Len(ch.buf) <= SendCap
    PROVE  /\ [ch EXCEPT !.open = FALSE] \in Channel
           /\ ch.buf # <<>> =>
                /\ Head(ch.buf) \in Frame
                /\ [ch EXCEPT !.buf = Tail(@)] \in Channel
                /\ Len(Tail(ch.buf)) <= SendCap
<1>1. ASSUME ch.buf # <<>>
      PROVE  Head(ch.buf) \in Frame /\ Tail(ch.buf) \in Seq(Frame)
             /\ Len(Tail(ch.buf)) = Len(ch.buf) - 1
  BY <1>1, HeadTailProperties DEF Channel
<1>2. Len(ch.buf) \in Nat
  BY LenProperties DEF Channel
<1>3. ASSUME ch.buf # <<>>
      PROVE  [ch EXCEPT !.buf = Tail(@)] \in Channel /\ Len(Tail(ch.buf)) <= SendCap
  <2>. DEFINE rest == Tail(ch.buf)
  <2>0. rest \in Seq(Frame)
    BY <1>1, <1>3
  <2>. HIDE DEF rest
  <2>1. [ch EXCEPT !.buf = rest] = [buf |-> rest, open |-> ch.open]
    BY <2>0 DEF Channel
  <2>2. ch.open \in BOOLEAN
    BY DEF Channel
  <2>3. [ch EXCEPT !.buf = rest] \in Channel
    BY <2>0, <2>1, <2>2 DEF Channel
  <2>. QED
    BY <1>1, <1>2, <1>3, <2>3, ConstantsAssumption DEF rest
<1>4. [ch EXCEPT !.open = FALSE] \in Channel
  BY DEF Channel
<1>. QED
  BY <1>1, <1>3, <1>4

\* The step of a handler that enqueues one frame.
LEMMA EnqueueType ==
    ASSUME TypeOK, NEW c \in Conns, NEW f \in Frame, NEW next \in PCs,
           Enqueue(c, f, next)
    PROVE  /\ chan' \in [Conns -> Channel]
           /\ \A k \in Conns : Len(chan'[k].buf) <= SendCap
           /\ \A k \in Conns : chan'[k].open = chan[k].open
           /\ pc' \in [Conns -> PCs]
<1>1. /\ Offer(chan[c], f) \in Channel
      /\ Len(Offer(chan[c], f).buf) <= SendCap
      /\ Offer(chan[c], f).open = chan[c].open
  BY OfferType DEF TypeOK
<1>2. chan' = [chan EXCEPT ![c] = Offer(chan[c], f)]
  BY DEF Enqueue
<1>. QED
  BY <1>1, <1>2 DEF TypeOK, Enqueue, PCs

\* The answer of the hub to a sender.
LEMMA ReplyType ==
    ASSUME NEW ch \in [Conns -> Channel], \A k \in Conns : Len(ch[k].buf) <= SendCap,
           NEW from \in Conns, NEW f \in Frame, Reply(ch, from, f)
    PROVE  /\ chan' \in [Conns -> Channel]
           /\ \A k \in Conns : Len(chan'[k].buf) <= SendCap
           /\ \A k \in Conns : chan'[k].open = ch[k].open
           /\ crashed' \in BOOLEAN
<1>1. /\ Offer(ch[from], f) \in Channel
      /\ Len(Offer(ch[from], f).buf) <= SendCap
      /\ Offer(ch[from], f).open = ch[from].open
  BY OfferType
<1>. QED
  BY <1>1 DEF Reply, Channel

\* Closing a set of channels.
LEMMA CloseType ==
    ASSUME TypeOK, NEW S \in SUBSET Conns, Close(S)
    PROVE  /\ chan' \in [Conns -> Channel]
           /\ \A k \in Conns : Len(chan'[k].buf) <= SendCap
           /\ \A k \in Conns : chan'[k].open <=> chan[k].open /\ k \notin S
           /\ crashed' \in BOOLEAN
<1>1. ASSUME NEW k \in Conns
      PROVE  /\ chan'[k] \in Channel
             /\ Len(chan'[k].buf) <= SendCap
             /\ chan'[k].open <=> chan[k].open /\ k \notin S
  <2>1. chan[k] \in Channel /\ Len(chan[k].buf) <= SendCap
    BY DEF TypeOK
  <2>2. chan'[k] = IF k \in S THEN [chan[k] EXCEPT !.open = FALSE] ELSE chan[k]
    BY DEF Close
  <2>3. CASE k \in S
    <3>1. chan'[k] = [chan[k] EXCEPT !.open = FALSE]
      BY <2>2, <2>3
    <3>2. chan'[k].buf = chan[k].buf /\ chan'[k].open = FALSE
      BY <2>1, <3>1 DEF Channel
    <3>. QED
      BY <2>1, <2>3, <3>1, <3>2, ChannelType
  <2>4. CASE k \notin S
    BY <2>1, <2>2, <2>4
  <2>. QED
    BY <2>3, <2>4
<1>2. chan' = [k \in Conns |-> chan'[k]]
  BY DEF Close
<1>3. chan' \in [Conns -> Channel]
  BY <1>1, <1>2
<1>. QED
  BY <1>1, <1>3 DEF Close

----------------------------------------------------------------------------
\* The steps of the handler goroutine of one connection.
LEMMA HandlerType ==
    ASSUME TypeInv, NEW c \in Conns,
           HandlerStep(c)
    PROVE  TypeInv'
<1>. USE DEF TypeInv
<1>pcs. {"greeting", "reading", "acking", "echoing", "handing", "leaving",
         "closed", "panicked", "idle"} = PCs
  BY DEF PCs, Registered
<1>types. {"info", "error", "ack", "msg", "delivered", "offline", "failed"} = FrameTypes
  BY DEF FrameTypes
<1>1. CASE Greet(c)
  <2>1. WSOut("info", NoMsg) \in Frame
    BY FrameType, <1>types
  <2>2. Enqueue(c, WSOut("info", NoMsg), "reading")
    BY <1>1 DEF Greet
  <2>3. /\ chan' \in [Conns -> Channel]
        /\ \A k \in Conns : Len(chan'[k].buf) <= SendCap
        /\ pc' \in [Conns -> PCs]
    BY <2>1, <2>2, <1>pcs, EnqueueType
  <2>4. TypeOK'
    BY <1>1, <2>3 DEF TypeOK, Greet, hubVars, pumpVars
  <2>5. HandlingMessage'
    BY <1>1, <2>2 DEF HandlingMessage, TypeOK, Greet, Enqueue, pumpVars
  <2>. QED
    BY <2>4, <2>5
<1>2. CASE ReadRejected(c)
  <2>1. WSOut("error", NoMsg) \in Frame
    BY FrameType, <1>types
  <2>2. Enqueue(c, WSOut("error", NoMsg), "reading")
    BY <1>2 DEF ReadRejected
  <2>3. /\ chan' \in [Conns -> Channel]
        /\ \A k \in Conns : Len(chan'[k].buf) <= SendCap
        /\ pc' \in [Conns -> PCs]
    BY <2>1, <2>2, <1>pcs, EnqueueType
  <2>r. reads' \in [Conns -> Nat]
    BY <1>2 DEF ReadRejected, TypeOK
  <2>4. TypeOK'
    BY <1>2, <2>3, <2>r DEF TypeOK, ReadRejected, hubVars
  <2>5. HandlingMessage'
    BY <1>2, <2>2 DEF HandlingMessage, TypeOK, ReadRejected, Enqueue
  <2>. QED
    BY <2>4, <2>5
<1>3. CASE ReadMsg(c)
  <2>1. PICK d \in Drafts[UserOf[c]] :
          /\ StoreTextMessage(c, [id |-> d.id, to |-> d.to, conn |-> c])
          /\ out' = [out EXCEPT ![c] = [id |-> d.id, to |-> d.to, conn |-> c]]
    BY <1>3 DEF ReadMsg
  <2>2. [id |-> d.id, to |-> d.to, conn |-> c] \in Message
    BY ConstantsAssumption DEF Message
  <2>3. db' \in Seq(Message) /\ inserted' \in [Conns -> BOOLEAN]
    BY <2>1, <2>2, AppendProperties DEF StoreTextMessage, TypeOK
  <2>r. reads' \in [Conns -> Nat]
    BY <1>3 DEF ReadMsg, TypeOK
  <2>p. /\ pc' \in [Conns -> PCs]
        /\ UNCHANGED <<clients, byUser, sendTo, chan, writer, wire, lost, crashed>>
    BY <1>3, <1>pcs DEF ReadMsg, TypeOK, hubVars
  <2>o. out' \in [Conns -> Message \cup {NoMsg}]
    BY <2>1, <2>2 DEF TypeOK
  <2>4. TypeOK'
    BY <2>3, <2>r, <2>p, <2>o DEF TypeOK
  <2>5. HandlingMessage'
    BY <1>3, <2>1, <2>2 DEF HandlingMessage, TypeOK, ReadMsg
  <2>. QED
    BY <2>4, <2>5
<1>4. CASE Ack(c)
  <2>1. WSOut("ack", out[c]) \in Frame
    BY FrameType, <1>types DEF TypeOK
  <2>2. Enqueue(c, WSOut("ack", out[c]), "echoing")
    BY <1>4 DEF Ack
  <2>3. /\ chan' \in [Conns -> Channel]
        /\ \A k \in Conns : Len(chan'[k].buf) <= SendCap
        /\ pc' \in [Conns -> PCs]
    BY <2>1, <2>2, <1>pcs, EnqueueType
  <2>4. TypeOK'
    BY <1>4, <2>3 DEF TypeOK, Ack, hubVars, pumpVars
  <2>5. HandlingMessage'
    BY <1>4, <2>2 DEF HandlingMessage, TypeOK, Ack, Enqueue, pumpVars
  <2>. QED
    BY <2>4, <2>5
<1>5. CASE Echo(c)
  <2>. DEFINE next == IF inserted[c] THEN "handing" ELSE "reading"
  <2>1. WSOut("msg", out[c]) \in Frame
    BY FrameType, <1>types DEF TypeOK
  <2>2. Enqueue(c, WSOut("msg", out[c]), next)
    BY <1>5 DEF Echo
  <2>3. next \in PCs /\ next \in {"handing", "reading"}
    BY <1>pcs
  <2>. HIDE DEF next
  <2>4. /\ chan' \in [Conns -> Channel]
        /\ \A k \in Conns : Len(chan'[k].buf) <= SendCap
        /\ pc' \in [Conns -> PCs]
    BY <2>1, <2>2, <2>3, EnqueueType
  <2>5. TypeOK'
    BY <1>5, <2>4 DEF TypeOK, Echo, hubVars, pumpVars
  <2>6. HandlingMessage'
    BY <1>5, <2>2, <2>3 DEF HandlingMessage, TypeOK, Echo, Enqueue, pumpVars
  <2>. QED
    BY <2>5, <2>6
<1>6. CASE HandToHub(c)
  <2>1. out[c] \in Message
    BY <1>6 DEF HandToHub, HandlingMessage
  <2>2. sendTo' \in Seq(Message) /\ Len(sendTo') <= HubCap
    BY <1>6, <2>1, AppendProperties, LenProperties, ConstantsAssumption DEF HandToHub, TypeOK
  <2>3. TypeOK'
    BY <1>6, <2>2, <1>pcs DEF TypeOK, HandToHub, pumpVars
  <2>4. HandlingMessage'
    BY <1>6 DEF HandlingMessage, TypeOK, HandToHub, pumpVars
  <2>. QED
    BY <2>3, <2>4
<1>7. CASE ReadFails(c)
  <2>1. TypeOK'
    BY <1>7, <1>pcs DEF TypeOK, ReadFails, hubVars, pumpVars
  <2>2. HandlingMessage'
    BY <1>7 DEF HandlingMessage, TypeOK, ReadFails, pumpVars
  <2>. QED
    BY <2>1, <2>2
<1>. QED
  BY <1>1, <1>2, <1>3, <1>4, <1>5, <1>6, <1>7 DEF HandlerStep

\* The steps of the writePump goroutine of one connection.
LEMMA WriterType ==
    ASSUME TypeInv, NEW c \in Conns,
           WriterStep(c)
    PROVE  TypeInv'
<1>. USE DEF TypeInv
<1>1. ASSUME chan[c].buf # <<>>
      PROVE  /\ Head(chan[c].buf) \in Frame
             /\ [chan EXCEPT ![c].buf = Tail(@)] \in [Conns -> Channel]
             /\ \A k \in Conns : Len([chan EXCEPT ![c].buf = Tail(@)][k].buf) <= SendCap
  <2>1. chan[c] \in Channel /\ Len(chan[c].buf) <= SendCap
    BY DEF TypeOK
  <2>2. /\ Head(chan[c].buf) \in Frame
        /\ [chan[c] EXCEPT !.buf = Tail(@)] \in Channel
        /\ Len(Tail(chan[c].buf)) <= SendCap
    BY <1>1, <2>1, ChannelType
  <2>3. [chan EXCEPT ![c].buf = Tail(@)]
          = [chan EXCEPT ![c] = [chan[c] EXCEPT !.buf = Tail(@)]]
    BY DEF TypeOK
  <2>4. [chan[c] EXCEPT !.buf = Tail(@)].buf = Tail(chan[c].buf)
    BY <2>1 DEF Channel
  <2>. QED
    BY <2>2, <2>3, <2>4 DEF TypeOK
<1>2. CASE WriteFrame(c)
  <2>1. wire' \in [Conns -> Seq(Frame)]
    BY <1>1, <1>2, AppendProperties DEF WriteFrame, TypeOK
  <2>2. TypeOK'
    BY <1>1, <1>2, <2>1 DEF TypeOK, WriteFrame, hubVars, pumpVars
  <2>3. HandlingMessage'
    BY <1>2 DEF HandlingMessage, WriteFrame, pumpVars
  <2>. QED
    BY <2>2, <2>3
<1>3. CASE WriteFails(c)
  <2>0. lost' \in [Conns -> SUBSET Frame]
    BY <1>1, <1>3 DEF TypeOK, WriteFails, Texts
  <2>1. TypeOK'
    BY <1>1, <1>3, <2>0 DEF TypeOK, WriteFails, hubVars, pumpVars
  <2>2. HandlingMessage'
    BY <1>3 DEF HandlingMessage, WriteFails, pumpVars
  <2>. QED
    BY <2>1, <2>2
<1>4. CASE PingFails(c) \/ SendCloseFrame(c)
  <2>1. TypeOK'
    BY <1>4 DEF TypeOK, PingFails, SendCloseFrame, hubVars, pumpVars
  <2>2. HandlingMessage'
    BY <1>4 DEF HandlingMessage, PingFails, SendCloseFrame, pumpVars
  <2>. QED
    BY <2>1, <2>2
<1>. QED
  BY <1>2, <1>3, <1>4 DEF WriterStep

\* The cases of the hub's select.
LEMMA RegistrationType ==
    ASSUME TypeInv, NEW c \in Conns, Register(c) \/ Unregister(c)
    PROVE  TypeInv'
<1>. USE DEF TypeInv
<1>pcs. {"greeting", "closed"} \subseteq PCs
  BY DEF PCs, Registered
<1>user. UserOf[c] \in Users
  BY ConstantsAssumption
<1>1. CASE Register(c)
  <2>. DEFINE kicked == {old \in clients : old = byUser[UserOf[c]] /\ old # c}
  <2>1. kicked \in SUBSET Conns
    BY DEF TypeOK
  <2>2. Close(kicked) /\ clients' = (clients \ kicked) \cup {c}
    BY <1>1 DEF Register
  <2>. HIDE DEF kicked
  <2>3. /\ chan' \in [Conns -> Channel]
        /\ \A k \in Conns : Len(chan'[k].buf) <= SendCap
        /\ crashed' \in BOOLEAN
    BY <2>1, <2>2, CloseType
  <2>4. clients' \subseteq Conns
    BY <2>2 DEF TypeOK
  <2>5. TypeOK'
    BY <1>1, <2>3, <2>4, <1>pcs DEF TypeOK, Register, pumpVars
  <2>6. HandlingMessage'
    BY <1>1 DEF HandlingMessage, TypeOK, Register, pumpVars
  <2>. QED
    BY <2>5, <2>6
<1>2. CASE Unregister(c)
  <2>1. HandlingMessage'
    BY <1>2 DEF HandlingMessage, TypeOK, Unregister, pumpVars
  <2>2. /\ clients' \subseteq Conns
        /\ byUser' \in [Users -> Conns \cup {NoConn}]
        /\ chan' \in [Conns -> Channel]
        /\ \A k \in Conns : Len(chan'[k].buf) <= SendCap
        /\ crashed' \in BOOLEAN
    <3>1. CASE c \in clients
      <4>1. Close({c}) /\ clients' = clients \ {c} /\ byUser' = Unlisted(c)
        BY <1>2, <3>1 DEF Unregister
      <4>2. /\ chan' \in [Conns -> Channel]
            /\ \A k \in Conns : Len(chan'[k].buf) <= SendCap
            /\ crashed' \in BOOLEAN
        BY <4>1, CloseType
      <4>. QED
        BY <4>1, <4>2 DEF TypeOK, Unlisted
    <3>2. CASE c \notin clients
      BY <1>2, <3>2 DEF Unregister, TypeOK
    <3>. QED
      BY <3>1, <3>2
  <2>3. pc' \in [Conns -> PCs] /\ UNCHANGED <<sendTo, pumpVars, writer, wire, lost, db>>
    BY <1>2, <1>pcs DEF Unregister, TypeOK
  <2>4. TypeOK'
    BY <2>2, <2>3 DEF TypeOK, pumpVars
  <2>. QED
    BY <2>1, <2>4
<1>. QED
  BY <1>1, <1>2

\* The message at the head of a non-empty hub.sendTo, and what is left of it.
LEMMA RequestType ==
    ASSUME TypeOK, TakeRequest
    PROVE  /\ Head(sendTo) \in Message
           /\ Head(sendTo).to \in Users
           /\ Head(sendTo).conn \in Conns
           /\ sendTo' \in Seq(Message)
           /\ Len(sendTo') <= HubCap
<1>1. sendTo \in Seq(Message) /\ Len(sendTo) <= HubCap /\ sendTo # <<>>
  BY DEF TypeOK, TakeRequest
<1>2. /\ Head(sendTo) \in Message /\ Tail(sendTo) \in Seq(Message)
      /\ Len(Tail(sendTo)) = Len(sendTo) - 1
  BY <1>1, HeadTailProperties
<1>3. Len(sendTo) \in Nat
  BY <1>1, LenProperties
<1>. QED
  BY <1>1, <1>2, <1>3, ConstantsAssumption DEF TakeRequest, Message

\* The three ways to serve a request of hub.sendTo.
LEMMA HubSendType ==
    ASSUME TypeInv, HubSend
    PROVE  TypeInv'
<1>. USE DEF TypeInv
<1>. DEFINE m == Head(sendTo)
            dst == byUser[m.to]
<1>1. TakeRequest
  BY DEF HubSend, SendToOffline, SendToOnline, SendToSlow
<1>2. m \in Message /\ m.to \in Users /\ m.conn \in Conns
  BY <1>1, RequestType
<1>3. sendTo' \in Seq(Message) /\ Len(sendTo') <= HubCap
  BY <1>1, RequestType
<1>4. {WSOut("offline", m), WSOut("delivered", m), WSOut("failed", m), WSOut("msg", m)}
        \subseteq Frame
  BY <1>2, FrameType DEF FrameTypes
<1>5. dst \in Conns \cup {NoConn}
  BY <1>2 DEF TypeOK
<1>6. chan \in [Conns -> Channel] /\ \A k \in Conns : Len(chan[k].buf) <= SendCap
  BY DEF TypeOK
<1>. HIDE DEF m
<1>7. /\ clients' \subseteq Conns
      /\ byUser' \in [Users -> Conns \cup {NoConn}]
      /\ chan' \in [Conns -> Channel]
      /\ \A k \in Conns : Len(chan'[k].buf) <= SendCap
      /\ crashed' \in BOOLEAN
  <2>1. CASE SendToOffline
    <3>1. Reply(chan, m.conn, WSOut("offline", m)) /\ UNCHANGED <<clients, byUser>>
      BY <2>1 DEF SendToOffline, m
    <3>. QED
      BY <1>2, <1>4, <1>6, <3>1, ReplyType DEF TypeOK
  <2>2. CASE SendToOnline
    <3>. DEFINE queued == [chan EXCEPT ![dst] = Offer(@, WSOut("msg", m))]
    <3>1. /\ dst # NoConn
          /\ chan' = [queued EXCEPT ![m.conn] = Offer(@, WSOut("delivered", m))]
          /\ crashed' = (~chan[dst].open \/ ~chan[m.conn].open)
          /\ UNCHANGED <<clients, byUser>>
      BY <2>2 DEF SendToOnline, m
    <3>2. /\ queued \in [Conns -> Channel]
          /\ \A k \in Conns : Len(queued[k].buf) <= SendCap
      BY <1>4, <1>5, <1>6, <3>1, OfferType
    <3>. HIDE DEF queued
    <3>3. /\ Offer(queued[m.conn], WSOut("delivered", m)) \in Channel
          /\ Len(Offer(queued[m.conn], WSOut("delivered", m)).buf) <= SendCap
      BY <1>2, <1>4, <3>2, OfferType
    <3>. QED
      BY <1>2, <3>1, <3>2, <3>3 DEF TypeOK
  <2>3. CASE SendToSlow
    <3>. DEFINE closed == [chan EXCEPT ![dst].open = FALSE]
    <3>1. /\ dst # NoConn
          /\ clients' = clients \ {dst}
          /\ byUser' = Unlisted(dst)
          /\ Reply(closed, m.conn, WSOut("failed", m))
      BY <2>3 DEF SendToSlow, m
    <3>2. /\ closed \in [Conns -> Channel]
          /\ \A k \in Conns : Len(closed[k].buf) <= SendCap
      BY <1>5, <1>6, <3>1 DEF Channel
    <3>. HIDE DEF closed
    <3>3. /\ chan' \in [Conns -> Channel]
          /\ \A k \in Conns : Len(chan'[k].buf) <= SendCap
          /\ crashed' \in BOOLEAN
      BY <1>2, <1>4, <3>1, <3>2, ReplyType
    <3>. QED
      BY <3>1, <3>3 DEF TypeOK, Unlisted
  <2>. QED
    BY <2>1, <2>2, <2>3 DEF HubSend
<1>8. UNCHANGED <<pc, pumpVars, writer, wire, lost, db>>
  BY <1>1 DEF TakeRequest
<1>9. TypeOK'
  BY <1>3, <1>7, <1>8 DEF TypeOK, pumpVars
<1>10. HandlingMessage'
  BY <1>8 DEF HandlingMessage, pumpVars
<1>. QED
  BY <1>9, <1>10

\* A server that starts anew: empty maps, queue and channels.
LEMMA RestartType ==
    ASSUME TypeInv, Restart
    PROVE  TypeInv'
<1>1. /\ <<>> \in Seq(Message) /\ Len(<<>>) <= HubCap
      /\ <<>> \in Seq(Frame) /\ Len(<<>>) <= SendCap
  BY EmptySeq, ConstantsAssumption
<1>2. \A c \in Conns : [buf |-> <<>>, open |-> pc[c] = "idle"] \in Channel
  BY <1>1 DEF Channel
<1>3. /\ chan' \in [Conns -> Channel]
      /\ \A k \in Conns : Len(chan'[k].buf) <= SendCap
  BY <1>1, <1>2 DEF Restart
<1>4. /\ pc' \in [Conns -> {"idle", "closed"}]
      /\ {"idle", "closed"} \subseteq PCs
      /\ writer' \in [Conns -> {"off", "on", "done"}]
  BY DEF Restart, PCs
<1>5. /\ clients' \subseteq Conns
      /\ byUser' \in [Users -> Conns \cup {NoConn}]
      /\ sendTo' = <<>>
      /\ out' \in [Conns -> Message \cup {NoMsg}]
      /\ inserted' \in [Conns -> BOOLEAN]
      /\ crashed' \in BOOLEAN
      /\ UNCHANGED <<wire, db, reads>>
  BY DEF Restart
<1>5a. lost' \in [Conns -> SUBSET Frame]
  <2>1. \A c \in Conns : lost[c] \subseteq Frame /\ chan[c].buf \in Seq(Frame)
    BY DEF TypeInv, TypeOK, Channel
  <2>2. \A c \in Conns : Range(chan[c].buf) \subseteq Frame
    BY <2>1, ElementOfSeq, LenProperties DEF Range
  <2>. QED
    BY <2>1, <2>2 DEF Restart, Texts
<1>6. TypeOK'
  <2>1. pc' \in [Conns -> PCs]
    BY <1>4
  <2>. QED
    BY <1>1, <1>3, <1>4, <1>5, <1>5a, <2>1 DEF TypeInv, TypeOK
<1>7. HandlingMessage'
  BY <1>4 DEF HandlingMessage
<1>. QED
  BY <1>6, <1>7 DEF TypeInv

\* The initial types.
LEMMA InitType == Init => TypeInv
<1>1. /\ <<>> \in Seq(Message) /\ Len(<<>>) <= HubCap
      /\ <<>> \in Seq(Frame) /\ Len(<<>>) <= SendCap
  BY EmptySeq, ConstantsAssumption
<1>2. [buf |-> <<>>, open |-> TRUE] \in Channel
  BY <1>1 DEF Channel
<1>. SUFFICES ASSUME Init PROVE TypeInv
  OBVIOUS
<1>3. TypeOK
  BY <1>1, <1>2 DEF Init, TypeOK, PCs
<1>4. HandlingMessage
  BY DEF Init, HandlingMessage
<1>. QED
  BY <1>3, <1>4 DEF TypeInv

\* Every variable always has its type: no channel of a client and no queue of
\* the hub ever holds more than its capacity, and the program never indexes
\* its maps with something that is not a connection or a user.
THEOREM TypeCorrect == Spec => []TypeOK
<1>1. Init => TypeInv
  BY InitType
<1>2. TypeInv /\ [Next]_vars => TypeInv'
  <2>. SUFFICES ASSUME TypeInv, [Next]_vars PROVE TypeInv'
    OBVIOUS
  <2>1. CASE UNCHANGED vars
    BY <2>1 DEF vars, TypeInv, TypeOK, HandlingMessage
  <2>2. CASE Next
    BY <2>2, HandlerType, WriterType, RegistrationType, HubSendType, RestartType DEF Next, HandlerStep, WriterStep, HubSend
  <2>. QED
    BY <2>1, <2>2
<1>3. TypeInv => TypeOK
  BY DEF TypeInv
<1>. QED
  BY <1>1, <1>2, <1>3, PTL DEF Spec

----------------------------------------------------------------------------
\* The type invariant is preserved by every step; cited by what follows.
LEMMA TypeStep == TypeInv /\ Next => TypeInv'
BY HandlerType, WriterType, RegistrationType, HubSendType, RestartType DEF Next, HandlerStep, WriterStep, HubSend

\* A step that neither registers, removes nor closes keeps the registry sound,
\* as long as the handlers of registered connections stay alive.
LEMMA RegistryKept ==
    ASSUME Registry, TypeInv', UNCHANGED <<clients, byUser>>,
           \A k \in Conns : chan'[k].open = chan[k].open,
           \A k \in Conns : pc'[k] = "idle" <=> pc[k] = "idle",
           \A k \in clients : pc'[k] \in Registered
    PROVE  Registry'
<1>1. RegistryConsistent'
  BY DEF Registry, RegistryConsistent
<1>2. OpenIffRegistered'
  BY DEF Registry, OpenIffRegistered
<1>3. NoZombie'
  BY DEF Registry, NoZombie
<1>. QED
  BY <1>1, <1>2, <1>3 DEF Registry

\* A handler that panics on its channel is not registered any more: its
\* channel is closed, so the hub has removed it before.
LEMMA EnqueueRegistry ==
    ASSUME Registry, TypeInv', NEW c \in Conns, NEW f \in Frame, NEW next \in Registered,
           pc[c] # "idle", Enqueue(c, f, next), UNCHANGED <<clients, byUser>>
    PROVE  Registry'
<1>1. next \in PCs /\ next # "idle"
  BY DEF PCs, Registered
<1>2. \A k \in Conns : chan'[k].open = chan[k].open
  BY <1>1, EnqueueType DEF Registry, TypeInv
<1>3. \A k \in Conns : pc'[k] = IF k = c THEN (IF chan[c].open THEN next ELSE "panicked")
                                         ELSE pc[k]
  BY DEF Enqueue, Registry, TypeInv, TypeOK
<1>4. \A k \in Conns : pc'[k] = "idle" <=> pc[k] = "idle"
  BY <1>1, <1>3
<1>5. ASSUME NEW k \in clients PROVE pc'[k] \in Registered
  <2>1. k \in Conns /\ pc[k] \in Registered /\ chan[k].open
    BY DEF Registry, TypeInv, TypeOK, NoZombie, OpenIffRegistered
  <2>. QED
    BY <1>3, <2>1
<1>. QED
  BY <1>2, <1>4, <1>5, RegistryKept

\* No step of a handler, a panic on its channel included, disturbs the registry.
LEMMA HandlerRegistry ==
    ASSUME Registry, TypeInv', NEW c \in Conns,
           HandlerStep(c)
    PROVE  Registry'
<1>. USE DEF hubVars
<1>types. {"info", "error", "ack", "msg"} \subseteq FrameTypes
  BY DEF FrameTypes
<1>regs. {"reading", "acking", "echoing", "handing", "leaving"} \subseteq Registered
  BY DEF Registered
<1>out. out[c] \in Message \cup {NoMsg}
  BY DEF Registry, TypeInv, TypeOK
<1>1. CASE Greet(c)
  <2>1. WSOut("info", NoMsg) \in Frame
    BY FrameType, <1>types
  <2>. QED
    BY <1>1, <2>1, <1>regs, EnqueueRegistry DEF Greet
<1>2. CASE ReadRejected(c)
  <2>1. WSOut("error", NoMsg) \in Frame
    BY FrameType, <1>types
  <2>. QED
    BY <1>2, <2>1, <1>regs, EnqueueRegistry DEF ReadRejected
<1>3. CASE Ack(c)
  <2>1. WSOut("ack", out[c]) \in Frame
    BY FrameType, <1>types, <1>out
  <2>. QED
    BY <1>3, <2>1, <1>regs, EnqueueRegistry DEF Ack
<1>4. CASE Echo(c)
  <2>. DEFINE next == IF inserted[c] THEN "handing" ELSE "reading"
  <2>1. WSOut("msg", out[c]) \in Frame
    BY FrameType, <1>types, <1>out
  <2>2. next \in Registered /\ Enqueue(c, WSOut("msg", out[c]), next)
    BY <1>4, <1>regs DEF Echo
  <2>. HIDE DEF next
  <2>. QED
    BY <1>4, <2>1, <2>2, EnqueueRegistry DEF Echo
<1>5. CASE ReadMsg(c) \/ HandToHub(c) \/ ReadFails(c)
  <2>1. /\ pc[c] # "idle"
        /\ \E next \in {"acking", "reading", "leaving"} : pc' = [pc EXCEPT ![c] = next]
        /\ UNCHANGED <<clients, byUser, chan>>
    BY <1>5 DEF ReadMsg, HandToHub, ReadFails
  <2>2. \A k \in Conns : pc'[k] = "idle" <=> pc[k] = "idle"
    BY <2>1 DEF Registry, TypeInv, TypeOK
  <2>3. \A k \in clients : pc'[k] \in Registered
    BY <2>1, <1>regs DEF Registry, TypeInv, TypeOK, NoZombie
  <2>. QED
    BY <2>1, <2>2, <2>3, RegistryKept
<1>. QED
  BY <1>1, <1>2, <1>3, <1>4, <1>5 DEF HandlerStep

\* No step of a writePump touches the registry, nor opens or closes a channel.
LEMMA WriterRegistry ==
    ASSUME Registry, TypeInv', NEW c \in Conns,
           WriterStep(c)
    PROVE  Registry'
<1>1. UNCHANGED <<clients, byUser, pc>>
  BY DEF WriterStep, WriteFrame, WriteFails, PingFails, SendCloseFrame, hubVars
<1>2. chan \in [Conns -> Channel]
  BY DEF Registry, TypeInv, TypeOK
<1>3. chan' = chan \/ chan' = [chan EXCEPT ![c].buf = Tail(@)]
  BY DEF WriterStep, WriteFrame, WriteFails, PingFails, SendCloseFrame
<1>4. \A k \in Conns : chan'[k].open = chan[k].open
  BY <1>2, <1>3 DEF Channel
<1>. QED
  BY <1>1, <1>4, RegistryKept DEF Registry, NoZombie

\* A newer connection takes the place of the older one of its user, whose
\* channel is closed in the same step.
LEMMA RegisterRegistry ==
    ASSUME Registry, TypeInv', NEW c \in Conns, Register(c)
    PROVE  Registry'
<1>. DEFINE u == UserOf[c]
            kicked == {old \in clients : old = byUser[u] /\ old # c}
<1>0. /\ TypeOK /\ RegistryConsistent /\ OpenIffRegistered /\ NoZombie
      /\ u \in Users /\ pc[c] = "idle"
      /\ clients \subseteq Conns /\ kicked \in SUBSET Conns /\ NoConn \notin Conns
  BY ConstantsAssumption DEF Registry, TypeInv, TypeOK, Register
<1>1. /\ clients' = (clients \ kicked) \cup {c}
      /\ byUser' = [byUser EXCEPT ![u] = c]
      /\ pc' = [pc EXCEPT ![c] = "greeting"]
      /\ Close(kicked)
  BY DEF Register
<1>2. c \notin clients
  BY <1>0 DEF NoZombie, Registered
<1>3. \A k \in clients : k \in kicked <=> UserOf[k] = u
  BY <1>0, <1>2 DEF RegistryConsistent
<1>. HIDE DEF kicked
<1>4. \A k \in Conns : chan'[k].open <=> chan[k].open /\ k \notin kicked
  BY <1>0, <1>1, CloseType
<1>5. RegistryConsistent'
  <2>1. ASSUME NEW k \in clients' PROVE byUser'[UserOf[k]] = k
    BY <1>0, <1>1, <1>3, ConstantsAssumption DEF RegistryConsistent, TypeOK
  <2>2. ASSUME NEW v \in Users, byUser'[v] # NoConn
        PROVE  byUser'[v] \in clients' /\ UserOf[byUser'[v]] = v
    <3>1. CASE v = u
      BY <1>0, <1>1, <3>1 DEF TypeOK
    <3>2. CASE v # u
      <4>1. byUser'[v] = byUser[v]
        BY <1>1, <3>2 DEF TypeOK, Registry, TypeInv
      <4>2. byUser[v] \in clients /\ UserOf[byUser[v]] = v
        BY <1>0, <2>2, <4>1 DEF RegistryConsistent
      <4>. QED
        BY <1>1, <1>3, <3>2, <4>1, <4>2
    <3>. QED
      BY <3>1, <3>2
  <2>. QED
    BY <2>1, <2>2 DEF RegistryConsistent
<1>6. ASSUME NEW k \in Conns
      PROVE  chan'[k].open <=> (pc'[k] = "idle" \/ k \in clients')
  <2>1. CASE k = c
    <3>1. chan[c].open /\ c \notin kicked
      BY <1>0, <1>2 DEF OpenIffRegistered, kicked
    <3>. QED
      BY <1>1, <1>4, <2>1, <3>1
  <2>2. CASE k # c
    <3>1. pc'[k] = pc[k]
      BY <1>0, <1>1, <2>2 DEF TypeOK
    <3>2. k \in kicked => pc[k] # "idle"
      BY <1>0 DEF NoZombie, Registered, kicked
    <3>. QED
      BY <1>0, <1>1, <1>4, <2>2, <3>1, <3>2 DEF OpenIffRegistered
  <2>. QED
    BY <2>1, <2>2
<1>7. NoZombie'
  BY <1>0, <1>1 DEF NoZombie, TypeOK, Registered
<1>. QED
  BY <1>5, <1>6, <1>7 DEF Registry, OpenIffRegistered

\* Taking a registered connection out of both maps and closing its channel, as
\* unregister and the kick of a slow receiver do, keeps the registry sound.
LEMMA RemovalRegistry ==
    ASSUME Registry, TypeInv', NEW d \in clients,
           clients' = clients \ {d}, byUser' = Unlisted(d),
           \A k \in Conns : chan'[k].open <=> chan[k].open /\ k # d,
           \A k \in Conns : pc'[k] = "idle" <=> pc[k] = "idle",
           \A k \in clients \ {d} : pc'[k] = pc[k]
    PROVE  Registry'
<1>0. /\ TypeOK /\ RegistryConsistent /\ OpenIffRegistered /\ NoZombie
      /\ clients \subseteq Conns /\ d \in Conns /\ UserOf[d] \in Users
      /\ NoConn \notin Conns /\ byUser[UserOf[d]] = d
  BY ConstantsAssumption DEF Registry, TypeInv, TypeOK, RegistryConsistent
<1>1. byUser' = [byUser EXCEPT ![UserOf[d]] = NoConn]
  BY <1>0 DEF Unlisted, TypeOK
<1>2. RegistryConsistent'
  <2>1. ASSUME NEW k \in clients' PROVE byUser'[UserOf[k]] = k
    <3>1. k \in clients /\ k # d /\ byUser[UserOf[k]] = k /\ UserOf[k] \in Users
      BY <1>0, ConstantsAssumption DEF RegistryConsistent
    <3>2. UserOf[k] # UserOf[d]
      BY <1>0, <3>1
    <3>. QED
      BY <1>0, <1>1, <3>1, <3>2 DEF TypeOK
  <2>2. ASSUME NEW v \in Users, byUser'[v] # NoConn
        PROVE  byUser'[v] \in clients' /\ UserOf[byUser'[v]] = v
    <3>1. v # UserOf[d] /\ byUser'[v] = byUser[v]
      BY <1>0, <1>1, <2>2 DEF TypeOK
    <3>2. byUser[v] \in clients /\ UserOf[byUser[v]] = v
      BY <1>0, <2>2, <3>1 DEF RegistryConsistent
    <3>. QED
      BY <3>1, <3>2
  <2>. QED
    BY <2>1, <2>2 DEF RegistryConsistent
<1>3. OpenIffRegistered'
  <2>1. pc[d] # "idle"
    BY <1>0 DEF NoZombie, Registered
  <2>2. ASSUME NEW k \in Conns
        PROVE  chan'[k].open <=> (pc'[k] = "idle" \/ k \in clients')
    BY <1>0, <2>1 DEF OpenIffRegistered
  <2>. QED
    BY <2>2 DEF OpenIffRegistered
<1>4. NoZombie'
  BY <1>0 DEF NoZombie
<1>. QED
  BY <1>2, <1>3, <1>4 DEF Registry

\* unregister: the connection is removed, or was removed before and nothing
\* happens, in particular not to a newer connection of its user.
LEMMA UnregisterRegistry ==
    ASSUME Registry, TypeInv', NEW c \in Conns, Unregister(c)
    PROVE  Registry'
<1>1. /\ pc[c] = "leaving" /\ pc' = [pc EXCEPT ![c] = "closed"]
      /\ pc \in [Conns -> PCs] /\ clients \subseteq Conns
      /\ TypeOK /\ NoZombie
  BY DEF Unregister, Registry, TypeInv, TypeOK
<1>2. \A k \in Conns : pc'[k] = "idle" <=> pc[k] = "idle"
  BY <1>1
<1>3. \A k \in clients \ {c} : pc'[k] = pc[k]
  BY <1>1
<1>4. CASE c \in clients
  <2>1. clients' = clients \ {c} /\ byUser' = Unlisted(c) /\ Close({c})
    BY <1>4 DEF Unregister
  <2>2. \A k \in Conns : chan'[k].open <=> chan[k].open /\ k # c
    BY <1>1, <2>1, CloseType
  <2>. QED
    BY <1>2, <1>3, <1>4, <2>1, <2>2, RemovalRegistry
<1>5. CASE c \notin clients
  <2>1. UNCHANGED <<clients, byUser, chan>>
    BY <1>5 DEF Unregister
  <2>2. \A k \in clients : pc'[k] \in Registered
    BY <1>1, <1>3, <1>5 DEF NoZombie
  <2>. QED
    BY <1>2, <2>1, <2>2, RegistryKept
<1>. QED
  BY <1>4, <1>5

\* Serving a request: only the kick of a slow receiver changes the registry.
LEMMA HubSendRegistry ==
    ASSUME Registry, TypeInv', HubSend
    PROVE  Registry'
<1>. DEFINE m == Head(sendTo)
            dst == byUser[m.to]
<1>1. TakeRequest /\ pc' = pc
  BY DEF HubSend, SendToOffline, SendToOnline, SendToSlow, TakeRequest
<1>2. /\ m \in Message /\ m.to \in Users /\ m.conn \in Conns
      /\ chan \in [Conns -> Channel] /\ \A k \in Conns : Len(chan[k].buf) <= SendCap
      /\ TypeOK /\ RegistryConsistent /\ NoZombie
  BY <1>1, RequestType DEF Registry, TypeInv, TypeOK
<1>3. {WSOut("offline", m), WSOut("delivered", m), WSOut("failed", m), WSOut("msg", m)}
        \subseteq Frame
  BY <1>2, FrameType DEF FrameTypes
<1>4. dst # NoConn => dst \in clients /\ dst \in Conns
  BY <1>2 DEF RegistryConsistent, TypeOK
<1>. HIDE DEF m
<1>5. \A k \in clients : pc'[k] \in Registered
  BY <1>1, <1>2 DEF NoZombie
<1>6. CASE SendToOffline
  <2>1. Reply(chan, m.conn, WSOut("offline", m)) /\ UNCHANGED <<clients, byUser>>
    BY <1>6 DEF SendToOffline, m
  <2>2. \A k \in Conns : chan'[k].open = chan[k].open
    BY <1>2, <1>3, <2>1, ReplyType
  <2>. QED
    BY <1>1, <1>5, <2>1, <2>2, RegistryKept
<1>7. CASE SendToOnline
  <2>. DEFINE queued == [chan EXCEPT ![dst] = Offer(@, WSOut("msg", m))]
  <2>1. /\ dst # NoConn
        /\ chan' = [queued EXCEPT ![m.conn] = Offer(@, WSOut("delivered", m))]
        /\ UNCHANGED <<clients, byUser>>
    BY <1>7 DEF SendToOnline, m
  <2>2. /\ queued \in [Conns -> Channel]
        /\ \A k \in Conns : Len(queued[k].buf) <= SendCap
        /\ \A k \in Conns : queued[k].open = chan[k].open
    BY <1>2, <1>3, <1>4, <2>1, OfferType
  <2>. HIDE DEF queued
  <2>3. Offer(queued[m.conn], WSOut("delivered", m)).open = queued[m.conn].open
    BY <1>2, <1>3, <2>2, OfferType
  <2>4. \A k \in Conns : chan'[k].open = chan[k].open
    BY <1>2, <2>1, <2>2, <2>3
  <2>. QED
    BY <1>1, <1>5, <2>1, <2>4, RegistryKept
<1>8. CASE SendToSlow
  <2>. DEFINE closed == [chan EXCEPT ![dst].open = FALSE]
  <2>1. /\ dst # NoConn
        /\ clients' = clients \ {dst}
        /\ byUser' = Unlisted(dst)
        /\ Reply(closed, m.conn, WSOut("failed", m))
    BY <1>8 DEF SendToSlow, m
  <2>2. /\ closed \in [Conns -> Channel]
        /\ \A k \in Conns : Len(closed[k].buf) <= SendCap
        /\ \A k \in Conns : closed[k].open <=> chan[k].open /\ k # dst
    BY <1>2, <1>4, <2>1 DEF Channel
  <2>. HIDE DEF closed
  <2>3. \A k \in Conns : chan'[k].open <=> chan[k].open /\ k # dst
    BY <1>2, <1>3, <2>1, <2>2, ReplyType
  <2>. QED
    BY <1>1, <1>4, <2>1, <2>3, RemovalRegistry
<1>. QED
  BY <1>6, <1>7, <1>8 DEF HubSend

\* After a restart nobody is registered, and of the open channels only those
\* of connections to come are left.
LEMMA RestartRegistry ==
    ASSUME Registry, TypeInv', Restart
    PROVE  Registry'
<1>1. RegistryConsistent' /\ NoZombie'
  BY DEF Restart, RegistryConsistent, NoZombie
<1>2. OpenIffRegistered'
  BY DEF Restart, OpenIffRegistered
<1>. QED
  BY <1>1, <1>2 DEF Registry

\* The inductive invariant holds in every state.
THEOREM RegistrySound == Spec => []Registry
<1>1. Init => Registry
  <2>. SUFFICES ASSUME Init PROVE Registry
    OBVIOUS
  <2>1. TypeInv
    BY InitType
  <2>. QED
    BY <2>1 DEF Init, Registry, RegistryConsistent, OpenIffRegistered, NoZombie
<1>2. Registry /\ [Next]_vars => Registry'
  <2>. SUFFICES ASSUME Registry, [Next]_vars PROVE Registry'
    OBVIOUS
  <2>1. CASE UNCHANGED vars
    BY <2>1 DEF vars, Registry, TypeInv, TypeOK, HandlingMessage, RegistryConsistent,
                OpenIffRegistered, NoZombie
  <2>2. CASE Next
    <3>1. TypeInv'
      BY <2>2, TypeStep DEF Registry
    <3>. QED
      BY <2>2, <3>1, HandlerRegistry, WriterRegistry, RegisterRegistry,
         UnregisterRegistry, HubSendRegistry, RestartRegistry DEF Next, HandlerStep, WriterStep, HubSend
  <2>. QED
    BY <2>1, <2>2
<1>. QED
  BY <1>1, <1>2, PTL DEF Spec

\* The two maps of the hub always agree: at most one live connection per user,
\* and the one at which the hub reaches a user is registered.
THEOREM RegistryAgrees == Spec => []RegistryConsistent
BY RegistrySound, PTL DEF Registry

\* A channel is closed exactly when its connection leaves the registry, so no
\* send to a receiver and no close(send) of the hub ever panics: the one way
\* for the hub to die is its answer to a sender that has gone.
THEOREM ReceiverIsOpen == Spec => []OpenIffRegistered
BY RegistrySound, PTL DEF Registry

\* Whatever way a handler ends, it leaves no entry of its own in the hub.
THEOREM NoDeadEntry == Spec => []NoZombie
BY RegistrySound, PTL DEF Registry

\* A connection is unregistered by its own handler, by a newer connection of
\* its user, because its channel is full when a message comes, or with the
\* whole server.
THEOREM RemovalJustified == Spec => RemovedForAReason
<1>1. Registry /\ [Next]_vars =>
        [\A c \in clients \ clients' :
           \/ pc[c] = "leaving" /\ pc'[c] = "closed"
           \/ byUser'[UserOf[c]] \in clients' \ clients
           \/ Len(chan[c].buf) = SendCap /\ byUser'[UserOf[c]] = NoConn
           \/ Restart]_vars
  <2>. SUFFICES ASSUME Registry, Next, NEW c \in clients \ clients'
                PROVE  \/ pc[c] = "leaving" /\ pc'[c] = "closed"
                       \/ byUser'[UserOf[c]] \in clients' \ clients
                       \/ Len(chan[c].buf) = SendCap /\ byUser'[UserOf[c]] = NoConn
                       \/ Restart
    OBVIOUS
  <2>0. /\ TypeOK /\ RegistryConsistent /\ NoZombie /\ clients \subseteq Conns
        /\ c \in Conns /\ UserOf[c] \in Users /\ byUser[UserOf[c]] = c
    BY ConstantsAssumption DEF Registry, TypeInv, TypeOK, RegistryConsistent
  <2>1. ASSUME NEW k \in Conns, Register(k)
        PROVE  byUser'[UserOf[c]] \in clients' \ clients
    <3>0. /\ c = byUser[UserOf[k]] /\ k \in clients'
          /\ UserOf[k] \in Users /\ NoConn \notin Conns
      BY <2>0, <2>1, ConstantsAssumption DEF Register
    <3>1. UserOf[c] = UserOf[k]
      BY <2>0, <3>0 DEF RegistryConsistent
    <3>2. k \notin clients
      BY <2>0, <2>1 DEF Register, NoZombie, Registered
    <3>3. byUser'[UserOf[c]] = k
      BY <2>0, <2>1, <3>1 DEF Register, TypeOK
    <3>. QED
      BY <3>0, <3>2, <3>3
  <2>2. ASSUME NEW k \in Conns, Unregister(k)
        PROVE  pc[c] = "leaving" /\ pc'[c] = "closed"
    BY <2>0, <2>2 DEF Unregister, TypeOK
  <2>3. ASSUME SendToSlow
        PROVE  Len(chan[c].buf) = SendCap /\ byUser'[UserOf[c]] = NoConn
    <3>1. /\ c = byUser[Head(sendTo).to] /\ ~Room(c)
          /\ byUser' = Unlisted(c)
      BY <2>0, <2>3 DEF SendToSlow
    <3>. QED
      BY <2>0, <3>1, ConstantsAssumption DEF Unlisted, Room, TypeOK, Channel
  <2>4. ASSUME NEW k \in Conns, HandlerStep(k)
        PROVE  FALSE
    BY <2>0, <2>4 DEF HandlerStep, Greet, ReadRejected, ReadMsg, Ack, Echo, HandToHub,
       ReadFails, hubVars
  <2>5. ASSUME NEW k \in Conns, WriterStep(k)
        PROVE  FALSE
    BY <2>0, <2>5 DEF WriterStep, WriteFrame, WriteFails, PingFails, SendCloseFrame, hubVars
  <2>6. ASSUME SendToOffline \/ SendToOnline
        PROVE  FALSE
    BY <2>0, <2>6 DEF SendToOffline, SendToOnline
  <2>. QED
    BY <2>1, <2>2, <2>3, <2>4, <2>5, <2>6 DEF Next, HandlerStep, WriterStep
<1>. QED
  BY <1>1, RegistrySound, PTL DEF Spec, RemovedForAReason
=============================================================================
