----------------------------- MODULE HubMailbox -----------------------------
(***************************************************************************)
(* Hub implements Mailbox.                                                 *)
(***************************************************************************)
EXTENDS Hub, Ranks

\* A message waits in its handler, from the insert to the handover, and then
\* in hub.sendTo.
Waiting ==
    Range(sendTo) \cup
    {out[c] : c \in {k \in Conns : inserted[k] /\ pc[k] \in {"acking", "echoing", "handing"}}}

\* The places in the frames s at which k is given a message of another.
Places(k, s) == {i \in DOMAIN s : FromPeer(k, s[i])}

\* The messages of others that k is given by frames, in order.
Given(k) ==
    [s \in Seq(Frame) |->
        LET at == Places(k, s)
        IN  [r \in 1 .. Cardinality(at) |-> s[Nth(at, r)].msg]]

\* What each connection is given, on the wire or still in its channel.
Boxes == [k \in Conns |-> Given(k)[Stream(k)]]

Mail == INSTANCE Mailbox WITH
            accepted <- db,
            waiting  <- Waiting,
            box      <- Boxes

\* Handlers, hub and writePumps together do nothing to a message that a
\* mailbox would not do: no message is accepted twice, decided on twice,
\* decided on before an older one of its connection, given to someone else
\* than its receiver or twice to the same, whatever panics, fails or is kicked.
ImplementsMailbox == Mail!Spec
=============================================================================
