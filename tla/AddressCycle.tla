----------------------------- MODULE AddressCycle -----------------------------
(* What a scan manager promises: it hands out the addresses of its scope in  *)
(* cycles, each address exactly once per cycle.  ScanScope builds on this.   *)
EXTENDS Integers

VARIABLES addrs,  \* the addresses of the scope
          left    \* those not handed out yet in this cycle

Init == left = addrs

HandOut(a) == /\ a \in left
              /\ left' = IF left = {a} THEN addrs ELSE left \ {a}
              /\ UNCHANGED addrs

Next == \E a \in left : HandOut(a)

Spec == Init /\ [][Next]_<<addrs, left>>
=============================================================================
