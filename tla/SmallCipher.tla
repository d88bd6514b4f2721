----------------------------- MODULE SmallCipher -----------------------------
(***************************************************************************)
(* A cipher small enough for TLC: words of two 2-bit lanes in place of     *)
(* sixteen bytes.  The tables are in the shape of the real layers, and the *)
(* box has no fixed point, as the Rijndael S-box has none.                 *)
(***************************************************************************)
EXTENDS Integers

LOCAL INSTANCE Bitwise

SmallWords == 0 .. 15
SmallBytes == 0 .. 3

\* A rotation to the right by one bit within four.
SmallRotr7 == [x \in SmallWords |-> (x \div 2) + 8 * (x % 2)]

\* The box applied to both lanes.
SmallBox == [b \in SmallBytes |-> <<2, 3, 1, 0>>[b + 1]]
SmallSub == [x \in SmallWords |-> SmallBox[x % 4] + 4 * SmallBox[x \div 4]]

SmallXorW == [p \in SmallWords \X SmallWords |-> p[1] ^^ p[2]]

SmallLeBytes ==
  [x \in SmallWords |-> [l \in 0 .. 1 |-> IF l = 0 THEN x % 4 ELSE x \div 4]]
SmallNibble == [b \in SmallBytes |-> b % 2]

\* Three round keys, so that the two rounds of a byte straddle the schedule's end.
SmallSchedules ==
  {[k \in 0 .. 2 |-> <<5, 14, 9>>[k + 1]], [k \in 0 .. 2 |-> <<7, 7, 0>>[k + 1]]}
=============================================================================
