------------------------------ MODULE MCRouter ------------------------------
(* Router on two workers, two connections (one homed on each worker) and  *)
(* two keys (one owned by each worker), with i64 cut down to 3 bits.      *)
EXTENDS Router

CONSTANTS k1, k2

MCKeys == {k1, k2}

(* "1" parses as an integer, "a" does not. *)
MCVals == {<<49>>, <<97>>}

(* k1 hashes to worker 0, k2 to worker 1. *)
MCHash == [k \in MCKeys |-> IF k = k1 THEN 2 ELSE 5]

(* k2 hashes to u64::MAX, the "any worker" sentinel. *)
MCHashSentinel == [k \in MCKeys |-> IF k = k1 THEN 2 ELSE MaxU64]

(* One request of each shape and path: k1 (worker 0) and k2 (worker 1)  *)
(* between them see every branch of SET, DEL and INCR.                    *)
MCInputs ==
  { [op |-> "GET", key |-> k2],
    [op |-> "SET", key |-> k1, val |-> <<49>>, opt |-> "none"],
    [op |-> "SET", key |-> k2, val |-> <<97>>, opt |-> "NX"],
    [op |-> "SET", key |-> k2, val |-> <<49>>, opt |-> "XX"],
    [op |-> "DEL", key |-> k1],
    [op |-> "INCR", key |-> k1, delta |-> 3], [op |-> "INCR", key |-> k2, delta |-> 3],
    [op |-> "PING"], [op |-> "QUIT"],
    [op |-> "KEYS", n |-> -1] }
=============================================================================
