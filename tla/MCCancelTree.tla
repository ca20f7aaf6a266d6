----------------------------- MODULE MCCancelTree -----------------------------
(* One turn with two derived tokens, chained or side by side, two threads    *)
(* cancelling and one waiting on a derived token.                            *)
EXTENDS CancelTree
CONSTANTS r, k1, k2, c1, c2
MCRoots == {r}
MCKids == {k1, k2}
MCCancellers == {c1, c2}
OnKid == {k1}
=============================================================================
