----------------------------- MODULE MCScanStore -----------------------------
(* Instances of ScanStore for TLC: scans 1, 2 and 3 are of one host, 4 of another. *)
EXTENDS ScanStore

MCIpOf == [s \in Scan |-> IF s \in {1, 2, 3} THEN "h1" ELSE "h2"]
=============================================================================
