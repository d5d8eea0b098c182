-------------------------------- MODULE Grid --------------------------------
(***************************************************************************)
(* The arithmetic of a W x H map (Map.h, Navigation.h): cells are indices  *)
(* x + y*W, an undirected edge is kept in the closed set as one integer,   *)
(* and the distance between two cells is 10 a straight step, 14 a diagonal *)
(***************************************************************************)
EXTENDS Integers

CONSTANTS W, H   \* _w, _h

ASSUME GridAssumption == W \in Nat \ {0} /\ H \in Nat \ {0}

Len0  == W * H
Cells == 0 .. Len0 - 1

GetIndex(x, y) == x + y * W
GetX(i) == i % W
GetY(i) == i \div W

Abs(n) == IF n < 0 THEN -n ELSE n
Least(a, b) == IF a < b THEN a ELSE b

ExpectDistance(i, j) ==
    LET x == Abs(GetX(i) - GetX(j))
        y == Abs(GetY(i) - GetY(j))
    IN  Least(x, y) * 14 + Abs(x - y) * 10

\* The integer under which AddClose stores, and IsInClose finds, the edge i - j.
EdgeKey(i, j) == IF i > j THEN i * Len0 + j ELSE j * Len0 + i
=============================================================================
