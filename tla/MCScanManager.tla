---------------------------- MODULE MCScanManager ----------------------------
(* Instances of ScanManager for TLC: scopes of one to five blocks, adjacent   *)
(* or apart, of sizes a CIDR block can have.                                  *)
EXTENDS ScanManager

B(first, count) == [start |-> first, size |-> count]

MCScopes == {<<B(3, 1)>>,
             <<B(4, 4)>>,
             <<B(0, 1), B(2, 2)>>,
             <<B(1, 1), B(2, 2), B(8, 2)>>,
             <<B(0, 4), B(5, 1), B(6, 2)>>,
             <<B(1, 1), B(2, 2), B(5, 1), B(6, 2)>>,
             <<B(0, 1), B(2, 1), B(4, 1), B(6, 1), B(8, 1)>>}
=============================================================================
