--------------------------- MODULE MCContactStore ---------------------------
(* Instances of ContactStore: which keys share the first byte. *)
EXTENDS ContactStore

CONSTANTS k1, k2, k3, h1, h2

OneBucket == [k \in Keys |-> h1]

TwoBuckets == [k \in Keys |-> IF k = k3 THEN h2 ELSE h1]
=============================================================================
