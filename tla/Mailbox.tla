------------------------------ MODULE Mailbox ------------------------------
(***************************************************************************)
(* What the server promises about live messages, without hub, goroutines   *)
(* and channels.  A message is accepted once, for all time, and from then  *)
(* on waits for a decision; it is put into the box of one connection of    *)
(* its receiver, or refused, in the order in which its sender's connection *)
(* wrote it.  A connection that ends may take its latest message with it,  *)
(* a box may lose what is in it, and a restart of the server may lose all  *)
(* that is not in accepted.                                                *)
(***************************************************************************)
EXTENDS Naturals, Sequences, SequencesExt

CONSTANTS
    Conns,     \* connections
    UserOf,    \* the user of each connection
    Message    \* messages, each with its id, its receiver to and its conn

VARIABLES
    accepted,  \* all messages ever accepted, in order
    waiting,   \* those still to be decided on
    box        \* box[k]: the messages of others that connection k is given

vars == <<accepted, waiting, box>>

----------------------------------------------------------------------------
\* Of the waiting messages of its connection, m was accepted first or last.
First(m) ==
    \E i \in DOMAIN accepted : accepted[i] = m
        /\ \A j \in 1 .. i - 1 : accepted[j].conn = m.conn => accepted[j] \notin waiting

Latest(m) ==
    \E i \in DOMAIN accepted : accepted[i] = m
        /\ \A j \in i + 1 .. Len(accepted) :
             accepted[j].conn = m.conn => accepted[j] \notin waiting

\* A message is new by its id, whoever sends it.
Accept(m) ==
    /\ \A i \in DOMAIN accepted : accepted[i].id # m.id
    /\ accepted' = Append(accepted, m)
    /\ waiting' = waiting \cup {m}
    /\ UNCHANGED box

\* A connection of the receiver is given the message.
Deliver(m, k) ==
    /\ m \in waiting /\ First(m)
    /\ UserOf[k] = m.to
    /\ waiting' = waiting \ {m}
    /\ box' = [box EXCEPT ![k] = Append(@, m)]
    /\ UNCHANGED accepted

\* The receiver cannot have it now.
Refuse(m) ==
    /\ m \in waiting /\ First(m)
    /\ waiting' = waiting \ {m}
    /\ UNCHANGED <<accepted, box>>

\* The connection that wrote it ends before it could hand it over.
Abandon(m) ==
    /\ m \in waiting /\ Latest(m)
    /\ waiting' = waiting \ {m}
    /\ UNCHANGED <<accepted, box>>

\* Something in a box does not reach its reader.
Lose(k) ==
    /\ \E i \in DOMAIN box[k] : box' = [box EXCEPT ![k] = RemoveAt(@, i)]
    /\ UNCHANGED <<accepted, waiting>>

\* The server starts anew: what was undecided stays so for good, and of each
\* box only what was on its way out already is left.
Restart ==
    /\ waiting' = {}
    /\ \A k \in Conns : IsPrefix(box'[k], box[k])
    /\ UNCHANGED accepted

Init ==
    /\ accepted = <<>>
    /\ waiting = {}
    /\ box = [k \in Conns |-> <<>>]

Next ==
    \/ \E m \in Message : Accept(m)
    \/ \E m \in waiting :
         \/ \E k \in Conns : Deliver(m, k)
         \/ Refuse(m)
         \/ Abandon(m)
    \/ \E k \in Conns : Lose(k)
    \/ Restart

Spec == Init /\ [][Next]_vars
=============================================================================
