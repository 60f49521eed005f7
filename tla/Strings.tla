------------------------------ MODULE Strings ------------------------------
(***************************************************************************)
(* The string commands of mkii (src/command/string.rs) on one worker's     *)
(* keyspace: APPEND, STRLEN, SETBIT, GETBIT, GETRANGE and SETRANGE, with   *)
(* the commands of module Command to create and remove values.  Every exec *)
(* is one atomic step of the worker (database::execute), on a command      *)
(* that arrives already parsed.                                            *)
(*                                                                         *)
(* Two things the code leaves to the machine are choices here:             *)
(*  - the bytes BytesMut::set_len exposes past the old length are          *)
(*    uninitialised memory: any byte of the set Garbage;                   *)
(*  - a panic inside exec (an out-of-range slice, a write past a           *)
(*    BytesMut's capacity) unwinds the worker thread: the model halts.     *)
(* Buffers follow bytes 0.4 (the version with Bytes::try_mut): a BytesMut  *)
(* of at most InlineCap bytes (31 on 64-bit targets) is stored inline with *)
(* capacity InlineCap, and put_slice asserts that the bytes fit.           *)
(***************************************************************************)
EXTENDS Command

CONSTANTS
  Inputs,     \* the parsed commands the client sends
  MaxLen,     \* longest value the client grows a key to
  InlineCap,  \* bytes 0.4's inline capacity (31 on 64-bit targets)
  Garbage     \* the values an uninitialised byte may hold

(* The parsed string commands, as the parse of each command builds them. *)
StrCmd ==
       [op : {"APPEND"}, key : Keys, val : Seq(Byte)]
  \cup [op : {"STRLEN"}, key : Keys]
  \cup [op : {"SETBIT"}, key : Keys, off : Nat, bit : {0, 1}]
  \cup [op : {"GETBIT"}, key : Keys, off : Nat]
  \cup [op : {"GETRANGE"}, key : Keys, from : I64, to : I64]
  \cup [op : {"SETRANGE"}, key : Keys, off : Nat, val : Seq(Byte)]

ASSUME StringsAssumption ==
  /\ MaxLen \in Nat /\ InlineCap \in Nat
  /\ Garbage \subseteq Byte /\ Garbage # {}
  /\ Keys \subseteq Seq(Byte)
  /\ Inputs \subseteq StrCmd \cup {c \in Cmd : IsKeyed(c)}

VARIABLES
  store,    \* the worker's keyspace
  last,     \* the last command run and its reply
  crashed   \* an exec panicked and the worker thread unwound

vars == <<store, last, crashed>>

(* A panicking exec, in place of its reply. *)
Panic == [t |-> "panic"]
NoCmd == [op |-> "none"]
NoReply == [t |-> "none"]

Bulk(s) == [t |-> "bulk", s |-> s]

(* i64::to_string. *)
Decimal(i) ==
  LET digits[m \in Nat] ==
        IF m < 10 THEN <<48 + m>> ELSE digits[m \div 10] \o <<48 + (m % 10)>>
  IN  IF i < 0 THEN <<45>> \o digits[-i] ELSE digits[i]

(* i64::to_string renders every i64 as bytes. *)
DecimalBytes == \A i \in I64 : Decimal(i) \in Seq(Byte)

(* The bytes of a scalar: a string, or an integer's decimal rendering. *)
Render(v) == IF v.t = "str" THEN v.s ELSE Decimal(v.i)

(* The contents of n bytes of uninitialised memory. *)
Fill(n) == [1..n -> Garbage]

(* Bit i of byte x (least significant first, as >> and << count), and x   *)
(* with that bit set to b.                                                 *)
BitOf(x, i) == (x \div 2^i) % 2

(* Mutant: |= and &= done as an addition, without masking. *)
WithBitAdd(x, i, b) == x + b * 2^i

WithBit(x, i, b) == x + (b - BitOf(x, i)) * 2^i

(* The capacity of a BytesMut built for n bytes. *)
CapOf(n) == IF n <= InlineCap THEN InlineCap ELSE n

(* Mutant: the argument put before the old value. *)
ExecAppendSwapped(v, s, key) ==
  IF v = Nil THEN {[val |-> StrVal(s), reply |-> IntReply(Len(key))]}
  ELSE LET old == Render(v)
           newSz == Len(old) + Len(key)
       IN  IF Len(old) + Len(s) > CapOf(newSz) THEN {[val |-> v, reply |-> Panic]}
           ELSE {[val |-> StrVal(s \o old), reply |-> IntReply(newSz)]}

(***************************************************************************)
(* Append::exec.  new_sz adds the key's length, not the argument's: it     *)
(* sizes the buffer and is the reply.  Putting more than the capacity     *)
(* panics.  An absent key gets the argument and the key's length.          *)
(***************************************************************************)
ExecAppend(v, s, key) ==
  IF v = Nil THEN {[val |-> StrVal(s), reply |-> IntReply(Len(key))]}
  ELSE LET old == Render(v)
           newSz == Len(old) + Len(key)
       IN  IF Len(old) + Len(s) > CapOf(newSz) THEN {[val |-> v, reply |-> Panic]}
           ELSE {[val |-> StrVal(old \o s), reply |-> IntReply(newSz)]}

(* Strlen::exec. *)
ExecStrlen(v) == {[val |-> v, reply |-> IntReply(IF v = Nil THEN 0 ELSE Len(Render(v)))]}

(***************************************************************************)
(* Setbit::exec.  The entry is removed, its bytes taken into a BytesMut,   *)
(* and the length set to off / 8 + 1: shorter values grow by uninitialised *)
(* bytes, longer ones are cut.  A length past the buffer's capacity panics *)
(* (capacity - buff_sz underflows), the entry already gone.  That capacity *)
(* is the value's own allocation when try_mut succeeds, a Vec from         *)
(* to_string for an integer, or a copy: growing may or may not fit, and    *)
(* both are outcomes.  An absent key is created only to set a bit to 1.    *)
(***************************************************************************)
ExecSetbit(v, off, b) ==
  LET byte == off \div 8
      bit == off % 8
      sz == byte + 1
      old == IF v = Nil THEN <<>> ELSE Render(v)
      Sized(g) == SubSeq(old \o g, 1, sz)
      Grow == Fill(IF sz > Len(old) THEN sz - Len(old) ELSE 0)
  IN  IF v = Nil /\ b = 0 THEN {[val |-> Nil, reply |-> IntReply(0)]}
      ELSE IF v = Nil THEN {[val |-> StrVal([g EXCEPT ![sz] = WithBit(@, bit, 1)]), reply |-> IntReply(0)]
                              : g \in Fill(sz)}
      ELSE {[val |-> StrVal([Sized(g) EXCEPT ![sz] = WithBit(@, bit, b)]),
             reply |-> IntReply(BitOf(Sized(g)[sz], bit))] : g \in Grow}
           \cup (IF sz > Len(old) THEN {[val |-> Nil, reply |-> Panic]} ELSE {})

(* Mutant: the bit counted from the most significant end of the byte. *)
ExecGetbitMsbFirst(v, off) ==
  LET s == IF v = Nil THEN <<>> ELSE Render(v)
  IN  {[val |-> v,
        reply |-> IntReply(IF off \div 8 < Len(s) THEN BitOf(s[off \div 8 + 1], 7 - (off % 8)) ELSE 0)]}

(* The bit Getbit::exec reads: past the end, or of an absent key, it is 0. *)
GetbitOf(v, off) ==
  LET s == IF v = Nil THEN <<>> ELSE Render(v)
  IN  IF off \div 8 < Len(s) THEN BitOf(s[off \div 8 + 1], off % 8) ELSE 0

(* Getbit::exec. *)
ExecGetbit(v, off) == {[val |-> v, reply |-> IntReply(GetbitOf(v, off))]}

(***************************************************************************)
(* GetRange::exec.  Negative indices count from the end; a start outside   *)
(* 0..len is empty; the end is clamped to len and the reply is            *)
(* val.slice(left, right), which excludes right and panics when            *)
(* right < left.  An absent key is the null bulk string.                   *)
(***************************************************************************)
ExecGetRange(v, a, b) ==
  IF v = Nil THEN {[val |-> v, reply |-> NullBulk]}
  ELSE LET s == Render(v)
           n == Len(s)
           left == IF a < 0 THEN n + a ELSE a
           right == IF b < 0 THEN n + b ELSE IF b > n THEN n ELSE b
       IN  IF left > n \/ left < 0 THEN {[val |-> v, reply |-> Bulk(<<>>)]}
           ELSE IF right < left    THEN {[val |-> v, reply |-> Panic]}
           ELSE {[val |-> v, reply |-> Bulk(SubSeq(s, left + 1, right))]}

(* Mutant: the reply taken as the length before set_len.                  *)
ExecSetRangeOldLen(v, off, s) ==
  LET hs == IF v = Nil THEN <<>> ELSE Render(v)
      min == off + Len(s)
      Grown(g) == hs \o g
  IN  {[val |-> StrVal([i \in DOMAIN Grown(g) |->
                          IF off < i /\ i <= min THEN s[i - off] ELSE Grown(g)[i]]),
        reply |-> IntReply(Len(hs))]
        : g \in Fill(IF min > Len(hs) THEN min - Len(hs) ELSE 0)}

(***************************************************************************)
(* SetRange::exec: the old bytes (none for an absent key), their length    *)
(* raised by set_len to off + len(s) with uninitialised bytes, then s      *)
(* copied at off.  The reply is the new length.                            *)
(***************************************************************************)
ExecSetRange(v, off, s) ==
  LET hs == IF v = Nil THEN <<>> ELSE Render(v)
      min == off + Len(s)
      Grown(g) == hs \o g
  IN  {[val |-> StrVal([i \in DOMAIN Grown(g) |->
                          IF off < i /\ i <= min THEN s[i - off] ELSE Grown(g)[i]]),
        reply |-> IntReply(Len(Grown(g)))]
        : g \in Fill(IF min > Len(hs) THEN min - Len(hs) ELSE 0)}

(* The length of an entry's bytes (0 when absent). *)
Size(v) == IF v = Nil THEN 0 ELSE Len(Render(v))

(***************************************************************************)
(* Type invariant: every entry of the keyspace is absent or a scalar       *)
(* database::Value, a byte string or an i64 (the bytes SETBIT and SETRANGE *)
(* write stay within 0..255), and the last command is one a client sent.   *)
(***************************************************************************)
TypeOK ==
  /\ store \in [Keys -> Entry]
  /\ last.cmd \in Inputs \cup {NoCmd}
  /\ crashed \in BOOLEAN

Init ==
  /\ store = [k \in Keys |-> Nil]
  /\ last = [cmd |-> NoCmd, reply |-> NoReply]
  /\ crashed = FALSE


(***************************************************************************)
(* database::execute of cmd: one of the outcomes of its exec becomes the   *)
(* key's entry and the reply; a panic ends the worker.  The client keeps   *)
(* every value within MaxLen bytes.                                        *)
(***************************************************************************)
Apply(cmd, outcomes) ==
  /\ ~crashed
  /\ \E o \in outcomes :
       /\ Size(o.val) <= MaxLen
       /\ store' = [store EXCEPT ![cmd.key] = o.val]
       /\ last' = [cmd |-> cmd, reply |-> o.reply]
       /\ crashed' = (o.reply = Panic)

AppendStep(cmd) == cmd.op = "APPEND" /\ Apply(cmd, ExecAppend(store[cmd.key], cmd.val, cmd.key))
StrlenStep(cmd) == cmd.op = "STRLEN" /\ Apply(cmd, ExecStrlen(store[cmd.key]))
SetbitStep(cmd) == cmd.op = "SETBIT" /\ Apply(cmd, ExecSetbit(store[cmd.key], cmd.off, cmd.bit))
GetbitStep(cmd) == cmd.op = "GETBIT" /\ Apply(cmd, ExecGetbit(store[cmd.key], cmd.off))
GetRangeStep(cmd) == cmd.op = "GETRANGE" /\ Apply(cmd, ExecGetRange(store[cmd.key], cmd.from, cmd.to))
SetRangeStep(cmd) == cmd.op = "SETRANGE" /\ Apply(cmd, ExecSetRange(store[cmd.key], cmd.off, cmd.val))

(* GET, SET, DEL and INCR, as module Command has them. *)
KeyedStep(cmd) == cmd.op \in KeyedOps /\ Apply(cmd, {ExecKeyed(store[cmd.key], cmd)})

(* The worker has panicked: nothing runs on it any more. *)
Halted == crashed /\ UNCHANGED vars

Next ==
  \/ \E cmd \in Inputs :
       \/ AppendStep(cmd) \/ StrlenStep(cmd) \/ SetbitStep(cmd) \/ GetbitStep(cmd)
       \/ GetRangeStep(cmd) \/ SetRangeStep(cmd) \/ KeyedStep(cmd)
  \/ Halted

Spec == Init /\ [][Next]_vars
-----------------------------------------------------------------------------
(***************************************************************************)
(* APPEND leaves the key holding its old bytes (an integer's decimal      *)
(* rendering) followed by the argument, or the argument alone when the key *)
(* was absent: the buffer Append::exec builds from the old value and the   *)
(* argument keeps both, in that order.                                     *)
(***************************************************************************)
AppendConcatenates ==
  [][(last'.cmd.op = "APPEND" /\ ~crashed') =>
       LET k == last'.cmd.key
       IN  store'[k] = StrVal(IF store[k] = Nil THEN last'.cmd.val
                              ELSE Render(store[k]) \o last'.cmd.val)]_vars

(***************************************************************************)
(* GETBIT right after SETBIT of the same key and offset reads back the bit *)
(* that SETBIT wrote: the two handlers address the same byte and the same *)
(* bit within it, whatever the value's length and kind were before.       *)
(***************************************************************************)
SetbitReadBack ==
  [][(/\ last.cmd.op = "SETBIT" /\ last'.cmd.op = "GETBIT"
      /\ last'.cmd.key = last.cmd.key /\ last'.cmd.off = last.cmd.off)
       => last'.reply = IntReply(last.cmd.bit)]_vars

(***************************************************************************)
(* SETRANGE that returns leaves a string holding the argument at the       *)
(* offset and every old byte (an integer's decimal rendering) outside the *)
(* written range where it was; the value is as long as the longer of the  *)
(* old bytes and offset + argument, and that length is the reply: the     *)
(* slice [off..minimum_size] SetRange::exec copies into, set_len and       *)
(* hs.len() agree.                                                         *)
(***************************************************************************)
SetRangeWrites ==
  [][(last'.cmd.op = "SETRANGE" /\ ~crashed') =>
       LET c == last'.cmd
           old == IF store[c.key] = Nil THEN <<>> ELSE Render(store[c.key])
           top == c.off + Len(c.val)
           new == store'[c.key].s
       IN  /\ store'[c.key].t = "str"
           /\ Len(new) = IF top > Len(old) THEN top ELSE Len(old)
           /\ last'.reply = IntReply(Len(new))
           /\ \A i \in 1..Len(c.val) : new[c.off + i] = c.val[i]
           /\ \A i \in 1..Len(old) : (i <= c.off \/ top < i) => new[i] = old[i]]_vars

(* The spec's GETRANGE (4.2): an inclusive slice; a start outside 0..len   *)
(* or an end before the start is empty; the end is clamped to the last     *)
(* byte.                                                                   *)
SpecGetRange(v, a, b) ==
  LET s == IF v = Nil THEN <<>> ELSE Render(v)
      n == Len(s)
      left == IF a < 0 THEN n + a ELSE a
      right == IF b < 0 THEN n + b ELSE IF b >= n THEN n - 1 ELSE b
  IN  IF left > n \/ left < 0 \/ right < left THEN Bulk(<<>>)
      ELSE Bulk(SubSeq(s, left + 1, right + 1))

(***************************************************************************)
(* The replies of APPEND and GETRANGE are the ones the spec (4.2) gives:   *)
(* APPEND returns the new length of the value, GETRANGE the inclusive      *)
(* slice, on a key that holds a value.                                     *)
(***************************************************************************)
RepliesAsSpec ==
  [][LET c == last'.cmd
     IN  /\ c.op = "APPEND" => last'.reply = IntReply(Size(store'[c.key]))
         /\ (c.op = "GETRANGE" /\ store[c.key] # Nil)
              => last'.reply = SpecGetRange(store[c.key], c.from, c.to)]_vars

(* The spec's growth of a value to n bytes: zero fill. *)
ZeroGrown(s, n) == s \o [i \in 1..(n - Len(s)) |-> 0]

(***************************************************************************)
(* SETBIT and SETRANGE write the spec's value (4.2): the old bytes, zero   *)
(* filled up to the byte of the bit or the end of the written range, with *)
(* the bit or the range written and every other byte kept.                *)
(***************************************************************************)
WritesAsSpec ==
  [][~crashed' =>
     LET c == last'.cmd
         old == IF store[c.key] = Nil THEN <<>> ELSE Render(store[c.key])
     IN  /\ (c.op = "SETBIT" /\ c.bit = 1) =>
              LET g == ZeroGrown(old, c.off \div 8 + 1)
              IN  store'[c.key] = StrVal([g EXCEPT ![c.off \div 8 + 1] = WithBit(@, c.off % 8, 1)])
         /\ c.op = "SETRANGE" =>
              LET g == ZeroGrown(old, c.off + Len(c.val))
              IN  store'[c.key] = StrVal([i \in DOMAIN g |->
                                   IF c.off < i /\ i <= c.off + Len(c.val)
                                   THEN c.val[i - c.off] ELSE g[i]])]_vars

=============================================================================
