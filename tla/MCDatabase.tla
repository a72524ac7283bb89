----------------------------- MODULE MCDatabase -----------------------------
(* A small instance of Database for TLC: two players who have an item each,  *)
(* one who has no row, and orders that cross, cancel out, overflow, ask too  *)
(* much and are empty.                                                       *)
EXTENDS Database, TLC

MCStart == [p \in {1, 2} |-> [i \in {"x", "y"} |-> 1]]

Order(a, aItem, aCount, b, bItem, bCount) ==
    [a |-> a, aItem |-> aItem, aCount |-> aCount, b |-> b, bItem |-> bItem, bCount |-> bCount]

MCOrders == {
    Order(1, "x", 1, 2, "y", 1),
    Order(2, "x", 2, 1, "x", 1),
    Order(1, "y", 1, 2, "x", 0),
    Order(1, "x", 1, 3, "x", 0),
    Order(1, "x", 1, 1, "y", 1),
    Order(1, "x", 0, 2, "x", 0)}
=============================================================================
