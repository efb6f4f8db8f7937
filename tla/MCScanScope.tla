----------------------------- MODULE MCScanScope -----------------------------
(* Instances of ScanScope for TLC: a network of two addresses, one of them as *)
(* an item of its own, and a third address.                                   *)
EXTENDS ScanScope

MCCovers == [i \in Item |-> CASE i = "net" -> {1, 2}
                              [] i = "host" -> {2}
                              [] OTHER -> {3}]
=============================================================================
