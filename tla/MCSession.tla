----------------------------- MODULE MCSession -----------------------------
(***************************************************************************)
(* Values for the constants of Session.                                    *)
(***************************************************************************)
EXTENDS Session

CONSTANTS home, away, ann, ben, noUser, secret, noPassword, noToken, command, loopTask

OneRow == [b \in Bases |-> IF b = home THEN <<ann>> ELSE <<>>]

TwoRows == [b \in Bases |-> IF b = home THEN <<ben, ann>> ELSE <<>>]
=============================================================================
