------------------------------ MODULE MCStrings ------------------------------
(* The string commands on one key, "k", whose values stay within 6 bytes.  *)
(* The inline capacity is cut from 31 to 3 bytes so that a value outgrows  *)
(* it within that bound; uninitialised bytes read as 0 or 255.             *)
EXTENDS Strings

MCKey == <<107>>
MCKeys == {MCKey}
MCHash == [k \in MCKeys |-> 0]

(* The values SET stores: an integer and a string. *)
MCVals == {<<49>>, <<97, 97, 97>>}

(* The proofs of StringsProofs take i64::to_string to yield bytes; here it *)
(* is evaluated on every i64 of the model's width.                         *)
ASSUME DecimalRendersBytes == DecimalBytes

(* Every branch of every string exec:                                      *)
(*  - SET "1" (an integer to APPEND to and render), SET "aaa" (a full      *)
(*    inline buffer), DEL, INCR;                                           *)
(*  - APPEND "bb", longer than the key, on absent, inline and spilled values;                     *)
(*  - SETBIT at offsets 3 (byte 0) and 9 (byte 1): growing, cutting,       *)
(*    setting and clearing, on absent and present keys;                    *)
(*  - GETBIT at both offsets; GETRANGE 0 1, -2 -1 and 1 0;                 *)
(*  - SETRANGE past the end and inside the value.                          *)
MCInputs ==
  { [op |-> "SET", key |-> MCKey, val |-> <<49>>, opt |-> "none"],
    [op |-> "SET", key |-> MCKey, val |-> <<97, 97, 97>>, opt |-> "none"],
    [op |-> "DEL", key |-> MCKey],
    [op |-> "INCR", key |-> MCKey, delta |-> 1],
    [op |-> "APPEND", key |-> MCKey, val |-> <<98, 98>>],
    [op |-> "STRLEN", key |-> MCKey],
    [op |-> "SETBIT", key |-> MCKey, off |-> 3, bit |-> 1],
    [op |-> "SETBIT", key |-> MCKey, off |-> 3, bit |-> 0],
    [op |-> "SETBIT", key |-> MCKey, off |-> 9, bit |-> 1],
    [op |-> "GETBIT", key |-> MCKey, off |-> 3],
    [op |-> "GETBIT", key |-> MCKey, off |-> 9],
    [op |-> "GETRANGE", key |-> MCKey, from |-> 0, to |-> 1],
    [op |-> "GETRANGE", key |-> MCKey, from |-> -2, to |-> -1],
    [op |-> "SETRANGE", key |-> MCKey, off |-> 1, val |-> <<98, 98>>] }

=============================================================================
