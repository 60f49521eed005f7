----------------------------- MODULE MCBitfield -----------------------------
(* BITFIELD next to SET, DEL and INCR on one key, "k".  i64 and u64 are 16 *)
(* bits wide, so an integer's buffer (tbuf) is 2 bytes; a field of up to   *)
(* 16 bits spans 3 bytes at most, which the offsets below reach.           *)
EXTENDS Bitfield

MCKey == <<107>>
MCKeys == {MCKey}
MCHash == [k \in MCKeys |-> 0]

(* "1" is byte 0x31, 00110001: an integer for INCR and a one-byte string. *)
MCVals == {<<49>>, <<97, 97>>}

MCInputs ==
  { [op |-> "SET", key |-> MCKey, val |-> <<49>>, opt |-> "none"],
    [op |-> "SET", key |-> MCKey, val |-> <<97, 97>>, opt |-> "none"],
    [op |-> "DEL", key |-> MCKey],
    [op |-> "INCR", key |-> MCKey, delta |-> 1] }

GetF(t, off) == [k |-> "GET", t |-> t, off |-> off]
SetF(t, off, v) == [k |-> "SET", t |-> t, off |-> off, val |-> v]
IncrBy(t, off, v) == [k |-> "INCRBY", t |-> t, off |-> off, val |-> v]
Ovf(m) == [k |-> "OVERFLOW", mode |-> m]
U(n) == [signed |-> FALSE, bits |-> n]
I(n) == [signed |-> TRUE, bits |-> n]

(* Fields inside the first byte at a non-zero offset and across a byte    *)
(* boundary, past the value's end, a signed write and read back, a write   *)
(* past the end, and signed INCRBY below zero under SAT and FAIL.          *)
MCBfInputs ==
  { [op |-> "BITFIELD", key |-> MCKey, ops |-> <<GetF(U(4), 2)>>],
    [op |-> "BITFIELD", key |-> MCKey, ops |-> <<GetF(U(8), 12)>>],
    [op |-> "BITFIELD", key |-> MCKey, ops |-> <<SetF(I(8), 0, -2), GetF(I(8), 0)>>],
    [op |-> "BITFIELD", key |-> MCKey, ops |-> <<SetF(U(8), 16, 5)>>],
    [op |-> "BITFIELD", key |-> MCKey, ops |-> <<Ovf("SAT"), IncrBy(I(4), 0, -3)>>],
    [op |-> "BITFIELD", key |-> MCKey, ops |-> <<Ovf("FAIL"), IncrBy(I(4), 0, -1)>>] }
=============================================================================
