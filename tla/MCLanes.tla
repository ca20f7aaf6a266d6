------------------------------- MODULE MCLanes -------------------------------
(* The primary bot with one chat and a second bot with two.                 *)
EXTENDS Lanes, TLC
CONSTANTS main, work, a, x, y, home, proj
MCRouteOf == a :> main @@ x :> work @@ y :> work
MCSays == a :> {"ask", work} @@ x :> {"ask", "new", proj} @@ y :> {"ask"}
=============================================================================
