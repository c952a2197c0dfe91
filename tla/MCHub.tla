------------------------------- MODULE MCHub -------------------------------
(***************************************************************************)
(* Values for the constants of Hub: alice logs in twice, bob once; alice   *)
(* has one message for bob and bob one for alice, and either may be sent   *)
(* again, over the same connection or the other one.                       *)
(***************************************************************************)
EXTENDS HubMailbox, TLC

CONSTANTS alice, bob, carol, a1, a2, b1, m1, m2, m3

MCUserOf == [c \in Conns |-> IF c = b1 THEN bob ELSE alice]

MCDrafts == (alice :> {[id |-> m1, to |-> bob]})
         @@ (bob   :> {[id |-> m2, to |-> alice]})

\* Two programs that generated the same msg_id, as two aha_tui.py processes
\* may: millisecond clock, per-process counter, no user in it.
CollidingDrafts == (alice :> {[id |-> m1, to |-> bob]})
                @@ (bob   :> {[id |-> m1, to |-> alice]})

\* Two messages for bob over one connection, so that order can go wrong.
PairDrafts == (alice :> {[id |-> m1, to |-> bob], [id |-> m3, to |-> bob]})
           @@ (bob   :> {[id |-> m2, to |-> alice]})

\* alice and bob both write to carol, who is not connected: two handlers
\* contend for one place in hub.sendTo.
LiveDrafts == (alice :> {[id |-> m1, to |-> carol]})
           @@ (bob   :> {[id |-> m2, to |-> carol]})
           @@ (carol :> {})

\* One frame is read from each connection.
OneRead == [c \in Conns |-> 1]

PairReads == (a1 :> 2) @@ (b1 :> 0)

\* Frames read: alice sends and repeats over a new connection, bob listens.
ReloginReads == [c \in Conns |-> IF c = b1 THEN 0 ELSE 1]

Symmetry == Permutations({a1, a2})
=============================================================================
