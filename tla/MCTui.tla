------------------------------- MODULE MCTui -------------------------------
(***************************************************************************)
(* Values for the constants of Tui.                                        *)
(***************************************************************************)
EXTENDS Tui

CONSTANTS me, ann, ben, noPeer, wsLoop, command

Symmetry == Permutations({ann, ben})

\* The peers on the screen, in order, while Ctrl+N or Ctrl+P is pressed n times
\* and nothing else happens; each press moves its peer to the front.
Pressed(Step(_, _), order, current, n) ==
    LET after[i \in 0 .. n] ==
          IF i = 0 THEN [order |-> order, current |-> current]
          ELSE LET p == Step(after[i - 1].order, after[i - 1].current)
               IN  [order   |-> <<p>> \o RemoveFirst(after[i - 1].order, p),
                    current |-> p]
    IN  {after[i].current : i \in 1 .. n}

Orders(n) == {s \in [1 .. n -> 1 .. n] : IsInjective(s)}

\* From any peer, Ctrl+P pressed once for each peer shows all of them.
ASSUME CtrlPReachesAll ==
    \A n \in 1 .. 4 : \A order \in Orders(n), p \in 1 .. n :
        Pressed(PrevPeer, order, p, n) = 1 .. n

\* Ctrl+N shows two of them, and one if there is no more, however often it is
\* pressed, once the current peer is the one in front, as it is after a press.
ASSUME CtrlNAlternates ==
    \A n \in 2 .. 4 : \A order \in Orders(n) :
        Pressed(NextPeer, order, order[1], 2 * n) = {order[1], order[2]}
=============================================================================
