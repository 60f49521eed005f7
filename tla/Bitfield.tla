------------------------------ MODULE Bitfield ------------------------------
(***************************************************************************)
(* BITFIELD (src/command/string.rs, Bitfield::read_field and              *)
(* Bitfield::exec) on the keyspace of module Strings.  One BITFIELD is one *)
(* atomic exec of the worker: the entry is taken out with remove_entry,    *)
(* its bytes (or the 8 big-endian bytes of an integer, or 8 zero bytes)    *)
(* are run through the sub-commands in order, and the buffer is put back   *)
(* only when has_stored is set.                                            *)
(*                                                                         *)
(* The code's u64 and i64 have width W here, so the integer buffer tbuf    *)
(* has W \div 8 bytes.  A release build is modelled: an integer overflow   *)
(* wraps, and a shift by an amount of 8 or more (or below 0) of a u8 is a  *)
(* shift by that amount modulo 8.  An index past a slice panics.           *)
(***************************************************************************)
EXTENDS Strings

LOCAL FS == INSTANCE FiniteSetsExt

CONSTANT BfInputs   \* the parsed BITFIELD commands the client sends

(* BitfieldType as Bitfield::parse_type accepts it: i1..i64, u1..u63. *)
BfType == [signed : {TRUE}, bits : 1..W] \cup [signed : {FALSE}, bits : 1..(W - 1)]

(* BitfieldCommand and BitfieldOverflow, as Bitfield::parse builds them:   *)
(* an INCRBY by 0 is parsed as a GET, and at least one op is required.     *)
BfOp ==
       [k : {"GET"}, t : BfType, off : Nat]
  \cup [k : {"SET"}, t : BfType, off : Nat, val : I64]
  \cup [k : {"INCRBY"}, t : BfType, off : Nat, val : I64 \ {0}]
  \cup [k : {"OVERFLOW"}, mode : {"WRAP", "SAT", "FAIL"}]

BfCmd == [op : {"BITFIELD"}, key : Keys, ops : Seq(BfOp) \ {<<>>}]

(* The reply of BITFIELD: an array of integers and null bulk strings. *)
ArrReply(items) == [t |-> "array", items |-> items]

(* x as u64, for x an i64 or a u64. *)
AsU64(x) == x % 2^W

(* x as i64, for x a u64. *)
AsI64(x) == IF x > MaxI64 THEN x - 2^W ELSE x

(* The sum of f(i) over the integers of S. *)
SumOver(f(_), S) == FS!MapThenSumSet(f, S)

(* tbuf after write_i64::<BigEndian>(i). *)
BigEndian(i) ==
  LET n == W \div 8
  IN  [b \in 1..n |-> (AsU64(i) \div 2^(8 * (n - b))) % 256]

(***************************************************************************)
(* Bitfield::read_field.  The guard compares the bit offset with the       *)
(* length in bytes.  bit_array is the slice of sz = ceil(bits / 8) bytes   *)
(* from byte off / 8, cut at the end of the buffer; bit i of the loop      *)
(* (from bo + bits - 1 down to bo) is bit (8 - (fbp - i)) of its byte and  *)
(* is added shifted left by i.  A signed field whose first bit read is 1   *)
(* is negative: the later bits are flipped and one is added.  A bit index  *)
(* past bit_array panics.                                                  *)
(***************************************************************************)
ReadField(arr, t, off) ==
  IF off > Len(arr) THEN [ok |-> TRUE, v |-> 0]
  ELSE
    LET o == off \div 8
        sz == (t.bits + 7) \div 8
        upper == IF o + sz < Len(arr) THEN o + sz ELSE Len(arr)
        bo == off % 8
        fbp == t.bits + bo
        Raw(i) == (arr[o + i \div 8 + 1] \div 2^((8 - (fbp - i)) % 8)) % 2
        neg == t.signed /\ Raw(fbp - 1) = 1
        Read(i) == IF neg THEN 1 - Raw(i) ELSE Raw(i)
        j == SumOver(LAMBDA i : Read(i) * 2^(i % 8),
                     IF t.signed THEN bo..(fbp - 2) ELSE bo..(fbp - 1))
    IN  IF (fbp - 1) \div 8 >= upper - o THEN [ok |-> FALSE]
        ELSE IF neg THEN [ok |-> TRUE, v |-> -(j + 1)]
        ELSE [ok |-> TRUE, v |-> j]

(***************************************************************************)
(* The write loop of SET and INCRBY: bit bits-1-j of u goes to bit         *)
(* 7 - (off + j) % 8 of byte (off + j) / 8, for j in 0..bits; a byte past  *)
(* the buffer panics at get(byte).unwrap().  Nothing grows the buffer.     *)
(***************************************************************************)
WriteField(arr, off, bits, u) ==
  LET NewBit(b, q) ==
        LET pos == 8 * (b - 1) + 7 - q
        IN  IF off <= pos /\ pos < off + bits
            THEN (u \div 2^(bits - 1 - (pos - off))) % 2
            ELSE (arr[b] \div 2^q) % 2
  IN  IF (off + bits - 1) \div 8 >= Len(arr) THEN [ok |-> FALSE]
      ELSE [ok |-> TRUE,
            arr |-> [b \in DOMAIN arr |-> SumOver(LAMBDA q : NewBit(b, q) * 2^q, 0..7)]]

(***************************************************************************)
(* INCRBY's new value from the current one (read_field's result as u64),   *)
(* by overflow policy: u64 wrapping, saturating and checked arithmetic,    *)
(* then the field's bounds for bits < 64 as the code writes them.  A      *)
(* negative result of a signed field under SAT becomes 2^bits - 1; under   *)
(* FAIL it is a failure.                                                   *)
(***************************************************************************)
IncrResult(curr, t, val, ovf) ==
  LET M == 2^W
      small == t.bits < W
      lim == IF t.signed THEN 2^t.bits \div 2 ELSE 2^t.bits
      d == (-val) % M
      Ok(n) == [null |-> FALSE, v |-> n]
      Null == [null |-> TRUE]
  IN  IF val > 0 THEN
        IF ovf = "WRAP" THEN Ok((curr + val) % M)
        ELSE IF ovf = "SAT" THEN
          LET n == IF curr + val < M THEN curr + val ELSE M - 1
          IN  Ok(IF small /\ n >= lim THEN lim - 1 ELSE n)
        ELSE IF curr + val >= M \/ (small /\ curr + val >= lim) THEN Null
        ELSE Ok(curr + val)
      ELSE
        IF ovf = "WRAP" THEN Ok((curr - d) % M)
        ELSE IF ovf = "SAT" THEN
          LET n == IF curr >= d THEN curr - d ELSE 0
          IN  Ok(IF small /\ t.signed /\ AsI64(n) <= -1 THEN 2^t.bits - 1 ELSE n)
        ELSE IF curr < d \/ (small /\ t.signed /\ AsI64(curr - d) <= -1) THEN Null
        ELSE Ok(curr - d)

(***************************************************************************)
(* One sub-command of the loop of Bitfield::exec on the loop's state: the  *)
(* buffer, the overflow policy, the replies so far, has_stored, and        *)
(* whether it panicked (then the rest is never run).                       *)
(***************************************************************************)
ExecOp(st, op) ==
  LET Panicked == [st EXCEPT !.panic = TRUE]
      r == ReadField(st.arr, op.t, op.off)
  IN
  IF st.panic THEN st
  ELSE IF op.k = "OVERFLOW" THEN [st EXCEPT !.ovf = op.mode]
  ELSE IF ~r.ok THEN Panicked
  ELSE IF op.k = "GET" THEN [st EXCEPT !.resp = Append(@, IntReply(r.v))]
  ELSE IF op.k = "SET" THEN
    LET w == WriteField(st.arr, op.off, op.t.bits, AsU64(op.val))
    IN  IF ~w.ok THEN Panicked
        ELSE [st EXCEPT !.arr = w.arr, !.stored = TRUE, !.resp = Append(@, IntReply(r.v))]
  ELSE
    LET n == IncrResult(AsU64(r.v), op.t, op.val, st.ovf)
        w == WriteField(st.arr, op.off, op.t.bits, n.v)
        r2 == ReadField(w.arr, op.t, op.off)
    IN  IF n.null THEN [st EXCEPT !.stored = TRUE, !.resp = Append(@, NullBulk)]
        ELSE IF ~w.ok \/ ~r2.ok THEN Panicked
        ELSE [st EXCEPT !.arr = w.arr, !.stored = TRUE, !.resp = Append(@, IntReply(r2.v))]

(***************************************************************************)
(* Bitfield::exec.  A string is taken as it is (has_stored already set),   *)
(* an integer as its big-endian bytes, an absent key as zero bytes.  The   *)
(* entry was removed, so when nothing set has_stored the key is gone.      *)
(***************************************************************************)
ExecBitfield(v, ops) ==
  LET arr0 == IF v = Nil THEN BigEndian(0)
              ELSE IF v.t = "int" THEN BigEndian(v.i)
              ELSE v.s
      run[n \in 0..Len(ops)] ==
        IF n = 0 THEN [arr |-> arr0, ovf |-> "WRAP", resp |-> <<>>,
                       stored |-> v # Nil /\ v.t = "str", panic |-> FALSE]
        ELSE ExecOp(run[n - 1], ops[n])
      fin == run[Len(ops)]
  IN  IF fin.panic THEN {[val |-> Nil, reply |-> Panic]}
      ELSE {[val |-> IF fin.stored THEN StrVal(fin.arr) ELSE Nil,
             reply |-> ArrReply(fin.resp)]}

BitfieldStep(cmd) == cmd.op = "BITFIELD" /\ Apply(cmd, ExecBitfield(store[cmd.key], cmd.ops))

NextB ==
  \/ Next
  \/ \E cmd \in BfInputs : BitfieldStep(cmd)

SpecB == Init /\ [][NextB]_vars
-----------------------------------------------------------------------------
(***************************************************************************)
(* The spec's BITFIELD (4.2, 9): a field is bits off..off+bits-1 of the    *)
(* value, MSB-first within each byte, the high bit the sign of an i<n>;    *)
(* bits past the end read 0 and a write zero-fills the value up to the     *)
(* field.  INCRBY wraps, saturates or fails (null, nothing written) by the *)
(* policy in force, WRAP until an OVERFLOW sub-command.                    *)
(***************************************************************************)
SpecBitAt(s, p) == IF p \div 8 < Len(s) THEN (s[p \div 8 + 1] \div 2^(7 - (p % 8))) % 2 ELSE 0

SpecRead(s, t, off) ==
  LET u == SumOver(LAMBDA k : SpecBitAt(s, off + k) * 2^(t.bits - 1 - k), 0..(t.bits - 1))
  IN  IF t.signed /\ u >= 2^(t.bits - 1) THEN u - 2^t.bits ELSE u

SpecWrite(s, t, off, x) ==
  LET g == ZeroGrown(s, IF (off + t.bits + 7) \div 8 > Len(s) THEN (off + t.bits + 7) \div 8 ELSE Len(s))
      u == x % 2^t.bits
      Bit(p) == IF off <= p /\ p < off + t.bits THEN (u \div 2^(off + t.bits - 1 - p)) % 2
                ELSE SpecBitAt(g, p)
  IN  [b \in DOMAIN g |-> SumOver(LAMBDA q : Bit(8 * (b - 1) + 7 - q) * 2^q, 0..7)]

SpecIncr(old, t, delta, ovf) ==
  LET lo == IF t.signed THEN -(2^(t.bits - 1)) ELSE 0
      hi == IF t.signed THEN 2^(t.bits - 1) - 1 ELSE 2^t.bits - 1
      n == old + delta
  IN  IF lo <= n /\ n <= hi THEN [null |-> FALSE, v |-> n]
      ELSE IF ovf = "WRAP" THEN [null |-> FALSE, v |-> lo + ((n - lo) % 2^t.bits)]
      ELSE IF ovf = "SAT" THEN [null |-> FALSE, v |-> IF n < lo THEN lo ELSE hi]
      ELSE [null |-> TRUE]

SpecOp(st, op) ==
  IF op.k = "OVERFLOW" THEN [st EXCEPT !.ovf = op.mode]
  ELSE LET old == SpecRead(st.s, op.t, op.off)
       IN  IF op.k = "GET" THEN [st EXCEPT !.resp = Append(@, IntReply(old))]
           ELSE IF op.k = "SET" THEN
             [st EXCEPT !.s = SpecWrite(@, op.t, op.off, op.val), !.resp = Append(@, IntReply(old))]
           ELSE LET n == SpecIncr(old, op.t, op.val, st.ovf)
                IN  IF n.null THEN [st EXCEPT !.resp = Append(@, NullBulk)]
                    ELSE [st EXCEPT !.s = SpecWrite(@, op.t, op.off, n.v),
                                    !.resp = Append(@, IntReply(n.v))]

SpecBitfieldReply(s, ops) ==
  LET run[n \in 0..Len(ops)] ==
        IF n = 0 THEN [s |-> s, ovf |-> "WRAP", resp |-> <<>>]
        ELSE SpecOp(run[n - 1], ops[n])
  IN  ArrReply(run[Len(ops)].resp)

(***************************************************************************)
(* BITFIELD replies what the spec's semantics give on the key's bytes (an  *)
(* integer's are its decimal rendering, as for every string command; none *)
(* when absent): each GET the field's value, each SET the old value, *)
(* each INCRBY the new value or null.  And one whose data ops are all GETs *)
(* only reads: the key keeps its value, whatever it is.  It covers         *)
(* read_field's bit addressing, the write loop, the overflow arithmetic,   *)
(* the panics of Bitfield::exec and its final insert under has_stored.     *)
(***************************************************************************)
BitfieldAsSpec ==
  [][last'.cmd.op = "BITFIELD" =>
       LET k == last'.cmd.key
           ops == last'.cmd.ops
       IN  /\ last'.reply = SpecBitfieldReply(IF store[k] = Nil THEN <<>> ELSE Render(store[k]), ops)
           /\ (\A n \in DOMAIN ops : ops[n].k \in {"GET", "OVERFLOW"})
                => store'[k] = store[k]]_vars
=============================================================================
