---------------------------- MODULE StringsProofs ----------------------------
(***************************************************************************)
(* Proofs about module Strings, for every key set, value set, integer     *)
(* width, inline capacity and set of uninitialised byte values the         *)
(* assumptions allow.  They rest on one fact about the Rust library that   *)
(* TLAPS cannot derive from the recursive definition of Decimal: that      *)
(* i64::to_string renders every i64 as bytes (DecimalBytes), which the TLC *)
(* runs of MCStrings evaluate on every i64 of their width.                 *)
(***************************************************************************)
EXTENDS Strings, CommandProofs, SequenceTheorems, TLAPS

-----------------------------------------------------------------------------
(* Lemmas on the bit arithmetic of SETBIT and GETBIT. *)

(* Integer division undoes a multiplication plus a remainder. *)
LEMMA DivOfMul ==
  ASSUME NEW p \in Nat \ {0}, NEW a \in Int, NEW r \in 0..(p - 1)
  PROVE  (a * p + r) \div p = a
BY SMT
(* Euclidean division by a positive number. *)
LEMMA DivMod ==
  ASSUME NEW p \in Nat \ {0}, NEW x \in Int
  PROVE  /\ x = (x \div p) * p + (x % p)
         /\ (x % p) \in 0..(p - 1)
BY SMT
(* A rearrangement of the sum WithBit computes. *)
LEMMA Distrib ==
  ASSUME NEW p \in Int, NEW q \in Int, NEW r \in Int, NEW m \in Int, NEW b \in Int,
         NEW x \in Int, x = q * p + r
  PROVE  x + (b - m) * p = (q + b - m) * p + r
BY SMT

(* Setting bit p of x to b and reading it back yields b (p a power of 2). *)
LEMMA ReadBack ==
  ASSUME NEW x \in Nat, NEW p \in Nat \ {0}, NEW b \in {0, 1}
  PROVE  ((x + (b - ((x \div p) % 2)) * p) \div p) % 2 = b
<1> DEFINE q == x \div p
<1> DEFINE r == x % p
<1> DEFINE m == q % 2
<1>1. x = q * p + r /\ r \in 0..(p - 1) /\ q \in Int /\ m \in {0, 1}
  BY DivMod
<1> HIDE DEF q, r, m
<1>2. x + (b - m) * p = (q + b - m) * p + r
  BY <1>1, Distrib
<1>3. (x + (b - m) * p) \div p = q + b - m
  BY <1>1, <1>2, DivOfMul
<1>4. (q + b - m) % 2 = b
  <2>1. m = q % 2
    BY DEF m
  <2> QED BY <1>1, <2>1
<1> QED BY <1>3, <1>4 DEF m
(* Setting or clearing one bit of a byte leaves a byte. *)
LEMMA ByteRange ==
  ASSUME NEW x \in 0..255, NEW p \in {1, 2, 4, 8, 16, 32, 64, 128}, NEW b \in {0, 1}
  PROVE  x + (b - ((x \div p) % 2)) * p \in 0..255
<1>1. CASE p = 1 BY <1>1
<1>2. CASE p = 2 BY <1>2
<1>3. CASE p = 4 BY <1>3
<1>4. CASE p = 8 BY <1>4
<1>5. CASE p = 16 BY <1>5
<1>6. CASE p = 32 BY <1>6
<1>7. CASE p = 64 BY <1>7
<1>8. CASE p = 128 BY <1>8
<1> QED BY <1>1, <1>2, <1>3, <1>4, <1>5, <1>6, <1>7, <1>8

(* The bit masks of a byte: 1 << i for i in 0..7. *)
LEMMA Pow ==
  ASSUME NEW i \in 0..7
  PROVE  2^i \in {1, 2, 4, 8, 16, 32, 64, 128}
<1>1. CASE i = 0 BY <1>1
<1>2. CASE i = 1 BY <1>2
<1>3. CASE i = 2 BY <1>3
<1>4. CASE i = 3 BY <1>4
<1>5. CASE i = 4 BY <1>5
<1>6. CASE i = 5 BY <1>6
<1>7. CASE i = 6 BY <1>7
<1>8. CASE i = 7 BY <1>8
<1> QED BY <1>1, <1>2, <1>3, <1>4, <1>5, <1>6, <1>7, <1>8
(* Setbit::exec's write, read back by Getbit::exec's read, for each bit. *)
LEMMA BitReadBack ==
  ASSUME NEW x \in Byte, NEW i \in 0..7, NEW b \in {0, 1}
  PROVE  /\ BitOf(WithBit(x, i, b), i) = b
         /\ WithBit(x, i, b) \in Byte
<1> DEFINE p == 2^i
<1>1. p \in {1, 2, 4, 8, 16, 32, 64, 128}
  BY Pow
<1> HIDE DEF p
<1>2. ((x + (b - ((x \div p) % 2)) * p) \div p) % 2 = b
  BY <1>1, ReadBack DEF Byte
<1>3. x + (b - ((x \div p) % 2)) * p \in 0..255
  BY <1>1, ByteRange DEF Byte
<1> QED
  BY <1>2, <1>3 DEF BitOf, WithBit, Byte, p

-----------------------------------------------------------------------------
(* Lemmas on byte strings. *)

(* A function on 1..n is a sequence of length n. *)
LEMMA FcnIsSeq ==
  ASSUME NEW S, NEW n \in Nat, NEW f \in [1..n -> S]
  PROVE  f \in Seq(S) /\ Len(f) = n
BY SMT

(* The first k bytes of a byte string of at least k bytes. *)
LEMMA PrefixSeq ==
  ASSUME NEW t \in Seq(Byte), NEW k \in 1..Len(t)
  PROVE  SubSeq(t, 1, k) \in Seq(Byte) /\ Len(SubSeq(t, 1, k)) = k
BY SMT

(* The bytes of a stored value (to_string for an integer). *)
LEMMA RenderBytes ==
  ASSUME DecimalBytes, NEW v \in Entry, v # Nil
  PROVE  Render(v) \in Seq(Byte)
BY DEF DecimalBytes, Render, Entry, Value, Nil
-----------------------------------------------------------------------------
(* Lemmas on the exec of each string command. *)

(***************************************************************************)
(* Every outcome of Setbit::exec leaves an entry, and unless it panics,    *)
(* Getbit::exec at the same offset reads the bit written: the byte is cut  *)
(* or grown to exactly off / 8 + 1 bytes and the bit is set in the last.   *)
(***************************************************************************)
LEMMA SetbitOutcome ==
  ASSUME DecimalBytes, NEW v \in Entry, NEW off \in Nat, NEW b \in {0, 1},
         NEW o \in ExecSetbit(v, off, b)
  PROVE  /\ o.val \in Entry
         /\ o.reply # Panic => GetbitOf(o.val, off) = b
<1> DEFINE ix == off % 8
<1> DEFINE size == off \div 8 + 1
<1> DEFINE base == IF v = Nil THEN <<>> ELSE Render(v)
<1>1. ix \in 0..7 /\ size \in Nat \ {0} /\ off \div 8 < size
  OBVIOUS
<1>2. base \in Seq(Byte)
  BY RenderBytes, EmptySeq
(* A byte string of size bytes whose last byte has the ix written. *)
<1>3. ASSUME NEW t \in Seq(Byte), Len(t) = size
      PROVE  LET u == [t EXCEPT ![size] = WithBit(t[size], ix, b)]
             IN  /\ StrVal(u) \in Entry
                 /\ GetbitOf(StrVal(u), off) = b
  <2>1. t[size] \in Byte
    BY <1>1, <1>3, ElementOfSeq
  <2>2. WithBit(t[size], ix, b) \in Byte /\ BitOf(WithBit(t[size], ix, b), ix) = b
    BY <1>1, <2>1, BitReadBack
  <2> DEFINE u == [t EXCEPT ![size] = WithBit(t[size], ix, b)]
  <2>3. u \in Seq(Byte) /\ Len(u) = size /\ u[size] = WithBit(t[size], ix, b)
    BY <1>1, <1>3, <2>2, ExceptSeq
  <2>4. StrVal(u) \in Entry
    BY <2>3 DEF StrVal, Entry, Value
  <2>5. GetbitOf(StrVal(u), off) = b
    BY <1>1, <2>2, <2>3 DEF GetbitOf, Render, StrVal, Nil
  <2> QED BY <2>4, <2>5
<1>4. CASE v = Nil /\ b = 0
  <2>0. ExecSetbit(v, off, b) = {[val |-> Nil, reply |-> IntReply(0)]}
    BY <1>4 DEF ExecSetbit
  <2>1. o = [val |-> Nil, reply |-> IntReply(0)]
    BY <2>0
  <2>2. GetbitOf(Nil, off) = 0
    BY DEF GetbitOf
  <2> QED BY <1>4, <2>1, <2>2 DEF Entry
<1>5. CASE v = Nil /\ b = 1
  <2>1. PICK g \in Fill(size) :
             o = [val |-> StrVal([g EXCEPT ![size] = WithBit(g[size], ix, 1)]), reply |-> IntReply(0)]
    BY <1>5 DEF ExecSetbit
  <2>2. g \in Seq(Byte) /\ Len(g) = size
    BY <1>1, FcnIsSeq, StringsAssumption DEF Fill
  <2> QED BY <1>3, <1>5, <2>1, <2>2
<1>6. CASE v # Nil
  <2> DEFINE gap == IF size > Len(base) THEN size - Len(base) ELSE 0
  <2> DEFINE Cut(g) == SubSeq(base \o g, 1, size)
  <2>1. o = [val |-> Nil, reply |-> Panic]
        \/ \E g \in Fill(gap) :
             o = [val |-> StrVal([Cut(g) EXCEPT ![size] = WithBit(Cut(g)[size], ix, b)]),
                  reply |-> IntReply(BitOf(Cut(g)[size], ix))]
    BY <1>6 DEF ExecSetbit
  <2>2. CASE o = [val |-> Nil, reply |-> Panic]
    BY <2>2 DEF Entry
  <2>3. ASSUME NEW g \in Fill(gap),
               o = [val |-> StrVal([Cut(g) EXCEPT ![size] = WithBit(Cut(g)[size], ix, b)]),
                    reply |-> IntReply(BitOf(Cut(g)[size], ix))]
        PROVE  o.val \in Entry /\ (o.reply # Panic => GetbitOf(o.val, off) = b)
    <3>1. gap \in Nat /\ g \in Seq(Byte) /\ Len(g) = gap
      <4>1. Len(base) \in Nat
        BY <1>2, LenProperties
      <4>2. gap \in Nat
        BY <1>1, <4>1
      <4>3. g \in [1..gap -> Byte]
        BY StringsAssumption DEF Fill
      <4>4. \A m \in Nat : \A f \in [1..m -> Byte] : f \in Seq(Byte) /\ Len(f) = m
        BY FcnIsSeq
      <4> QED BY <4>2, <4>3, <4>4
    <3>2. base \o g \in Seq(Byte) /\ Len(base \o g) >= size
      BY <1>2, <3>1, ConcatProperties
    <3>3. Cut(g) \in Seq(Byte) /\ Len(Cut(g)) = size
      BY <1>1, <3>2, PrefixSeq DEF Cut
    <3> QED BY <1>3, <2>3, <3>3
  <2> QED BY <2>1, <2>2, <2>3
<1> QED BY <1>4, <1>5, <1>6
(***************************************************************************)
(* Every outcome of Append::exec leaves an entry, and unless it panics the *)
(* key holds the old bytes followed by the argument (the argument alone    *)
(* when the key was absent).                                               *)
(***************************************************************************)
LEMMA AppendOutcome ==
  ASSUME DecimalBytes, NEW v \in Entry, NEW s \in Seq(Byte), NEW key \in Seq(Byte),
         NEW o \in ExecAppend(v, s, key)
  PROVE  /\ o.val \in Entry
         /\ o.reply # Panic => o.val = StrVal(IF v = Nil THEN s ELSE Render(v) \o s)
<1>1. CASE v = Nil
  <2>1. o = [val |-> StrVal(s), reply |-> IntReply(Len(key))]
    BY <1>1 DEF ExecAppend
  <2> QED BY <1>1, <2>1 DEF StrVal, Entry, Value
<1>2. CASE v # Nil
  <2>1. Render(v) \o s \in Seq(Byte)
    BY <1>2, RenderBytes, ConcatProperties
  <2>2. o = [val |-> v, reply |-> Panic]
        \/ o = [val |-> StrVal(Render(v) \o s), reply |-> IntReply(Len(Render(v)) + Len(key))]
    BY <1>2 DEF ExecAppend
  <2>3. o.val \in Entry
    <3>1. CASE o = [val |-> v, reply |-> Panic]
      BY <3>1
    <3>2. CASE o = [val |-> StrVal(Render(v) \o s), reply |-> IntReply(Len(Render(v)) + Len(key))]
      <4>1. StrVal(Render(v) \o s) \in Value
        BY <2>1 DEF StrVal, Value
      <4> QED BY <3>2, <4>1 DEF Entry
    <3> QED BY <2>2, <3>1, <3>2
  <2>4. o.reply # Panic => o.val = StrVal(Render(v) \o s)
    BY <2>2
  <2> QED BY <1>2, <2>3, <2>4
<1> QED BY <1>1, <1>2

(* Every outcome of SetRange::exec leaves a byte string. *)
LEMMA SetRangeOutcome ==
  ASSUME DecimalBytes, NEW v \in Entry, NEW off \in Nat, NEW s \in Seq(Byte),
         NEW o \in ExecSetRange(v, off, s)
  PROVE  o.val \in Entry
<1> DEFINE base == IF v = Nil THEN <<>> ELSE Render(v)
<1> DEFINE top == off + Len(s)
<1>1. base \in Seq(Byte) /\ Len(base) \in Nat /\ Len(s) \in Nat
  BY RenderBytes, EmptySeq, LenProperties
<1> DEFINE Written(g) == [j \in DOMAIN (base \o g) |->
                            IF off < j /\ j <= top THEN s[j - off] ELSE (base \o g)[j]]
<1> DEFINE gap == IF top > Len(base) THEN top - Len(base) ELSE 0
<1>2. PICK g \in Fill(gap) : o.val = StrVal(Written(g))
  <2>1. ExecSetRange(v, off, s) =
          {[val |-> StrVal(Written(g)), reply |-> IntReply(Len(base \o g))] : g \in Fill(gap)}
    BY Zenon DEF ExecSetRange
  <2> HIDE DEF Written, gap
  <2>2. \E g \in Fill(gap) : o = [val |-> StrVal(Written(g)), reply |-> IntReply(Len(base \o g))]
    BY <2>1, Zenon
  <2> QED BY <2>2
<1>3. g \in Seq(Byte)
  <2>1. gap \in Nat
    BY <1>1
  <2>2. g \in [1..gap -> Byte]
    BY StringsAssumption DEF Fill
  <2> QED BY <2>1, <2>2, FcnIsSeq
<1>4. base \o g \in Seq(Byte) /\ DOMAIN (base \o g) = 1..Len(base \o g)
  BY <1>1, <1>3, ConcatProperties, LenProperties
<1>5. \A j \in DOMAIN (base \o g) :
        (IF off < j /\ j <= top THEN s[j - off] ELSE (base \o g)[j]) \in Byte
  <2>1. SUFFICES ASSUME NEW j \in DOMAIN (base \o g)
                 PROVE  (IF off < j /\ j <= top THEN s[j - off] ELSE (base \o g)[j]) \in Byte
    OBVIOUS
  <2>2. CASE off < j /\ j <= top
    <3>1. j - off \in 1..Len(s)
      BY <2>2, <1>1, <1>4
    <3> QED BY <2>2, <3>1, ElementOfSeq
  <2>3. CASE ~(off < j /\ j <= top)
    BY <2>3, <1>4, ElementOfSeq
  <2> QED BY <2>2, <2>3
<1>6. Written(g) \in Seq(Byte)
  <2>1. Len(base \o g) \in Nat
    BY <1>4, LenProperties
  <2> QED BY <1>4, <1>5, <2>1, FcnIsSeq
<1> QED BY <1>2, <1>6 DEF StrVal, Entry, Value

(***************************************************************************)
(* What SetRange::exec writes: the argument at the offset, the old bytes   *)
(* outside the written range kept, the length the larger of the old one   *)
(* and offset + argument length, and that length as the reply.            *)
(***************************************************************************)
LEMMA SetRangeContent ==
  ASSUME DecimalBytes, NEW v \in Entry, NEW off \in Nat, NEW s \in Seq(Byte),
         NEW o \in ExecSetRange(v, off, s)
  PROVE  LET old == IF v = Nil THEN <<>> ELSE Render(v)
             top == off + Len(s)
         IN  /\ o.val.t = "str"
             /\ Len(o.val.s) = IF top > Len(old) THEN top ELSE Len(old)
             /\ o.reply = IntReply(Len(o.val.s))
             /\ \A i \in 1..Len(s) : o.val.s[off + i] = s[i]
             /\ \A i \in 1..Len(old) : (i <= off \/ top < i) => o.val.s[i] = old[i]
<1> DEFINE base == IF v = Nil THEN <<>> ELSE Render(v)
<1> DEFINE top == off + Len(s)
<1>1. base \in Seq(Byte) /\ Len(base) \in Nat /\ Len(s) \in Nat
  BY RenderBytes, EmptySeq, LenProperties
<1> DEFINE Written(g) == [j \in DOMAIN (base \o g) |->
                            IF off < j /\ j <= top THEN s[j - off] ELSE (base \o g)[j]]
<1> DEFINE gap == IF top > Len(base) THEN top - Len(base) ELSE 0
<1>2. PICK g \in Fill(gap) :
        o = [val |-> StrVal(Written(g)), reply |-> IntReply(Len(base \o g))]
  <2>1. ExecSetRange(v, off, s) =
          {[val |-> StrVal(Written(g)), reply |-> IntReply(Len(base \o g))] : g \in Fill(gap)}
    BY Zenon DEF ExecSetRange
  <2> HIDE DEF Written, gap
  <2> QED BY <2>1, Zenon
<1>3. g \in Seq(Byte) /\ Len(g) = gap
  <2>1. gap \in Nat
    BY <1>1
  <2>2. g \in [1..gap -> Byte]
    BY StringsAssumption DEF Fill
  <2> HIDE DEF gap
  <2> QED BY <2>1, <2>2, FcnIsSeq
<1>4. /\ Len(base \o g) = IF top > Len(base) THEN top ELSE Len(base)
      /\ DOMAIN (base \o g) = 1..Len(base \o g)
      /\ \A i \in 1..Len(base) : (base \o g)[i] = base[i]
  <2>1. /\ base \o g \in Seq(Byte)
        /\ Len(base \o g) = Len(base) + Len(g)
        /\ \A i \in 1..Len(base) + Len(g) :
              (base \o g)[i] = IF i <= Len(base) THEN base[i] ELSE g[i - Len(base)]
    BY <1>1, <1>3, ConcatProperties
  <2>2. DOMAIN (base \o g) = 1..Len(base \o g)
    BY <2>1, LenProperties
  <2>3. Len(base \o g) = IF top > Len(base) THEN top ELSE Len(base)
    BY <1>1, <1>3, <2>1
  <2>4. \A i \in 1..Len(base) : (base \o g)[i] = base[i]
    BY <1>1, <1>3, <2>1
  <2> QED BY <2>2, <2>3, <2>4
<1>5. o.val.t = "str" /\ o.val.s = Written(g) /\ o.reply = IntReply(Len(base \o g))
  BY <1>2 DEF StrVal
<1>6. Len(Written(g)) = Len(base \o g)
  <2>1. o.val \in Entry
    BY SetRangeOutcome
  <2>2. Written(g) \in Seq(Byte)
    BY <1>5, <2>1 DEF Entry, Value, Nil
  <2> QED BY <1>4, <2>2, LenProperties
<1>7. \A i \in 1..Len(s) : Written(g)[off + i] = s[i]
  BY <1>1, <1>4
<1>8. \A i \in 1..Len(base) : (i <= off \/ top < i) => Written(g)[i] = base[i]
  BY <1>1, <1>4
<1> QED BY <1>4, <1>5, <1>6, <1>7, <1>8

(***************************************************************************)
(* What the parse of each command guarantees of a command the client      *)
(* sends: a key, and the typed arguments of its kind.                      *)
(***************************************************************************)
LEMMA InputShape ==
  ASSUME NEW cmd \in Inputs
  PROVE  /\ cmd.key \in Keys
         /\ cmd.op = "APPEND" => cmd.val \in Seq(Byte)
         /\ cmd.op = "SETBIT" => cmd.off \in Nat /\ cmd.bit \in {0, 1}
         /\ cmd.op = "GETBIT" => cmd.off \in Nat
         /\ cmd.op = "SETRANGE" => cmd.off \in Nat /\ cmd.val \in Seq(Byte)
         /\ cmd.op \in KeyedOps => cmd \in Cmd /\ IsKeyed(cmd)
<1>1. cmd \in StrCmd \/ (cmd \in Cmd /\ IsKeyed(cmd))
  BY StringsAssumption
<1>2. CASE cmd \in StrCmd
  BY <1>2 DEF StrCmd, KeyedOps
<1>3. CASE cmd \in Cmd /\ IsKeyed(cmd)
  BY <1>3 DEF Cmd, IsKeyed, KeyedOps
<1> QED BY <1>1, <1>2, <1>3

(* database::execute keeps the keyspace typed when every outcome does. *)
LEMMA ApplyType ==
  ASSUME TypeOK, NEW cmd \in Inputs, NEW outs, \A o \in outs : o.val \in Entry,
         Apply(cmd, outs)
  PROVE  TypeOK'
<1>1. cmd.key \in Keys
  BY InputShape
<1> QED BY <1>1 DEF Apply, TypeOK
-----------------------------------------------------------------------------
(* The worker starts with an empty keyspace, no command and no panic. *)
LEMMA InitType ==
  Init => TypeOK
<1> SUFFICES ASSUME Init PROVE TypeOK
  OBVIOUS
<1>1. store \in [Keys -> Entry]
  BY DEF Init, Entry
<1>2. last.cmd \in Inputs \cup {NoCmd} /\ crashed \in BOOLEAN
  BY DEF Init
<1> QED BY <1>1, <1>2 DEF TypeOK

(* Every step of the worker keeps the keyspace and the last command typed. *)
LEMMA StepType ==
  ASSUME DecimalBytes, TypeOK, [Next]_vars
  PROVE  TypeOK'
<1>1. CASE \E cmd \in Inputs :
             \/ AppendStep(cmd) \/ StrlenStep(cmd) \/ SetbitStep(cmd) \/ GetbitStep(cmd)
             \/ GetRangeStep(cmd) \/ SetRangeStep(cmd) \/ KeyedStep(cmd)
  <2>1. PICK cmd \in Inputs :
             \/ AppendStep(cmd) \/ StrlenStep(cmd) \/ SetbitStep(cmd) \/ GetbitStep(cmd)
             \/ GetRangeStep(cmd) \/ SetRangeStep(cmd) \/ KeyedStep(cmd)
    BY <1>1
  <2>2. store[cmd.key] \in Entry
    BY InputShape DEF TypeOK
  <2>3. CASE AppendStep(cmd)
    <3>1. cmd.key \in Seq(Byte)
      BY InputShape, StringsAssumption
    <3>2. \A o \in ExecAppend(store[cmd.key], cmd.val, cmd.key) : o.val \in Entry
      BY <2>3, <2>2, <3>1, InputShape, AppendOutcome DEF AppendStep
    <3> QED BY <2>3, <3>2, ApplyType DEF AppendStep
  <2>4. CASE StrlenStep(cmd)
    BY <2>4, <2>2, ApplyType DEF StrlenStep, ExecStrlen
  <2>5. CASE SetbitStep(cmd)
    <3>1. \A o \in ExecSetbit(store[cmd.key], cmd.off, cmd.bit) : o.val \in Entry
      BY <2>5, <2>2, InputShape, SetbitOutcome DEF SetbitStep
    <3> QED BY <2>5, <3>1, ApplyType DEF SetbitStep
  <2>6. CASE GetbitStep(cmd)
    BY <2>6, <2>2, ApplyType DEF GetbitStep, ExecGetbit
  <2>7. CASE GetRangeStep(cmd)
    <3>1. \A o \in ExecGetRange(store[cmd.key], cmd.from, cmd.to) : o.val \in Entry
      BY <2>2 DEF ExecGetRange
    <3> QED BY <2>7, <3>1, ApplyType DEF GetRangeStep
  <2>8. CASE SetRangeStep(cmd)
    <3>1. \A o \in ExecSetRange(store[cmd.key], cmd.off, cmd.val) : o.val \in Entry
      BY <2>8, <2>2, InputShape, SetRangeOutcome DEF SetRangeStep
    <3> QED BY <2>8, <3>1, ApplyType DEF SetRangeStep
  <2>9. CASE KeyedStep(cmd)
    <3>1. cmd \in Cmd /\ IsKeyed(cmd)
      BY <2>9, InputShape DEF KeyedStep
    <3>2. \A o \in {ExecKeyed(store[cmd.key], cmd)} : o.val \in Entry
      BY <2>2, <3>1, ExecKeyedType
    <3> QED BY <2>9, <3>2, ApplyType DEF KeyedStep
  <2> QED BY <2>1, <2>3, <2>4, <2>5, <2>6, <2>7, <2>8, <2>9
<1>2. CASE Halted \/ UNCHANGED vars
  BY <1>2 DEF Halted, vars, TypeOK
<1> QED BY <1>1, <1>2 DEF Next

(***************************************************************************)
(* Type correctness: whatever commands clients send, every entry of the   *)
(* worker's keyspace stays absent, a byte string or an i64; in particular  *)
(* the bytes SETBIT and SETRANGE write, and those set_len exposes, stay   *)
(* bytes.                                                                  *)
(***************************************************************************)
THEOREM TypeCorrect ==
  ASSUME DecimalBytes
  PROVE  Spec => []TypeOK
<1>1. Init => TypeOK
  BY InitType
<1>2. TypeOK /\ [Next]_vars => TypeOK'
  BY StepType
<1> QED BY <1>1, <1>2, PTL DEF Spec

(***************************************************************************)
(* APPEND concatenates: a step of Append::exec that does not panic leaves  *)
(* the key holding its old bytes followed by the argument.                 *)
(***************************************************************************)
THEOREM AppendConcatenated ==
  ASSUME DecimalBytes
  PROVE  Spec => AppendConcatenates
<1>1. TypeOK /\ [Next]_vars =>
        [(last'.cmd.op = "APPEND" /\ ~crashed') =>
           LET k == last'.cmd.key
           IN  store'[k] = StrVal(IF store[k] = Nil THEN last'.cmd.val
                                  ELSE Render(store[k]) \o last'.cmd.val)]_vars
  <2> SUFFICES ASSUME TypeOK, Next, last'.cmd.op = "APPEND", ~crashed'
               PROVE  LET k == last'.cmd.key
                      IN  store'[k] = StrVal(IF store[k] = Nil THEN last'.cmd.val
                                             ELSE Render(store[k]) \o last'.cmd.val)
    OBVIOUS
  <2>1. ~Halted
    BY DEF Halted, vars
  <2>2. PICK cmd \in Inputs :
             \/ AppendStep(cmd) \/ StrlenStep(cmd) \/ SetbitStep(cmd) \/ GetbitStep(cmd)
             \/ GetRangeStep(cmd) \/ SetRangeStep(cmd) \/ KeyedStep(cmd)
    BY <2>1 DEF Next
  <2>3. last'.cmd = cmd
    BY <2>2 DEF AppendStep, StrlenStep, SetbitStep, GetbitStep, GetRangeStep,
               SetRangeStep, KeyedStep, Apply
  <2>4. AppendStep(cmd)
    BY <2>2, <2>3 DEF StrlenStep, SetbitStep, GetbitStep, GetRangeStep,
                      SetRangeStep, KeyedStep, KeyedOps
  <2>5. PICK o \in ExecAppend(store[cmd.key], cmd.val, cmd.key) :
             /\ store' = [store EXCEPT ![cmd.key] = o.val]
             /\ crashed' = (o.reply = Panic)
    BY <2>4 DEF AppendStep, Apply
  <2>6. cmd.key \in Keys /\ cmd.val \in Seq(Byte) /\ cmd.key \in Seq(Byte)
    BY <2>4, InputShape, StringsAssumption DEF AppendStep
  <2>7. o.reply # Panic
    BY <2>5
  <2>8. store[cmd.key] \in Entry
    BY <2>6 DEF TypeOK
  <2>9. o.val = StrVal(IF store[cmd.key] = Nil THEN cmd.val
                       ELSE Render(store[cmd.key]) \o cmd.val)
    <3> DEFINE prior == store[cmd.key]
    <3> HIDE DEF prior
    <3>1. \A p \in ExecAppend(prior, cmd.val, cmd.key) :
            p.reply # Panic => p.val = StrVal(IF prior = Nil THEN cmd.val ELSE Render(prior) \o cmd.val)
      BY <2>6, <2>8, AppendOutcome DEF prior
    <3> QED BY <3>1, <2>7 DEF prior
  <2> QED BY <2>3, <2>5, <2>6, <2>9 DEF TypeOK
<1> QED BY <1>1, TypeCorrect, PTL DEF Spec, AppendConcatenates
(***************************************************************************)
(* The inductive invariant behind SETBIT read-back: while the worker runs  *)
(* and the last command was SETBIT, the key's value reads back, at that    *)
(* offset, the bit that SETBIT wrote.                                      *)
(***************************************************************************)
LastSetbitHolds ==
  (~crashed /\ last.cmd.op = "SETBIT")
    => GetbitOf(store[last.cmd.key], last.cmd.off) = last.cmd.bit

(* A step that applies a client command records it as the last command. *)
LEMMA StepRecords ==
  ASSUME NEW cmd \in Inputs,
         \/ AppendStep(cmd) \/ StrlenStep(cmd) \/ SetbitStep(cmd) \/ GetbitStep(cmd)
         \/ GetRangeStep(cmd) \/ SetRangeStep(cmd) \/ KeyedStep(cmd)
  PROVE  /\ last'.cmd = cmd
         /\ ~crashed
         /\ cmd.op = "SETBIT" => SetbitStep(cmd)
         /\ cmd.op = "GETBIT" => GetbitStep(cmd)
<1>1. last'.cmd = cmd /\ ~crashed
  BY DEF AppendStep, StrlenStep, SetbitStep, GetbitStep, GetRangeStep,
         SetRangeStep, KeyedStep, Apply
<1> QED BY <1>1 DEF AppendStep, StrlenStep, SetbitStep, GetbitStep, GetRangeStep,
                   SetRangeStep, KeyedStep, KeyedOps

(* Every step keeps the read-back invariant. *)
LEMMA LastSetbitStep ==
  ASSUME DecimalBytes, TypeOK, LastSetbitHolds, [Next]_vars
  PROVE  LastSetbitHolds'
<1>1. CASE Halted \/ UNCHANGED vars
  BY <1>1 DEF Halted, vars, LastSetbitHolds
<1>2. CASE \E cmd \in Inputs :
             \/ AppendStep(cmd) \/ StrlenStep(cmd) \/ SetbitStep(cmd) \/ GetbitStep(cmd)
             \/ GetRangeStep(cmd) \/ SetRangeStep(cmd) \/ KeyedStep(cmd)
  <2>1. PICK cmd \in Inputs :
             \/ AppendStep(cmd) \/ StrlenStep(cmd) \/ SetbitStep(cmd) \/ GetbitStep(cmd)
             \/ GetRangeStep(cmd) \/ SetRangeStep(cmd) \/ KeyedStep(cmd)
    BY <1>2
  <2>2. last'.cmd = cmd
    BY <2>1, StepRecords
  <2>3. SUFFICES ASSUME ~crashed', cmd.op = "SETBIT"
                 PROVE  GetbitOf(store'[cmd.key], cmd.off) = cmd.bit
    BY <2>2 DEF LastSetbitHolds
  <2>4. SetbitStep(cmd)
    BY <2>1, <2>3, StepRecords
  <2>5. PICK o \in ExecSetbit(store[cmd.key], cmd.off, cmd.bit) :
             /\ store' = [store EXCEPT ![cmd.key] = o.val]
             /\ crashed' = (o.reply = Panic)
    BY <2>4 DEF SetbitStep, Apply
  <2>6. cmd.key \in Keys /\ cmd.off \in Nat /\ cmd.bit \in {0, 1}
    BY <2>3, InputShape
  <2>7. o.reply # Panic
    BY <2>3, <2>5
  <2>8. GetbitOf(o.val, cmd.off) = cmd.bit
    BY <2>5, <2>6, <2>7, SetbitOutcome DEF TypeOK
  <2> QED BY <2>5, <2>6, <2>8 DEF TypeOK
<1> QED BY <1>1, <1>2 DEF Next

(***************************************************************************)
(* SETBIT read-back: GETBIT right after SETBIT of the same key and offset  *)
(* replies the bit SETBIT wrote, for every offset, every prior value      *)
(* (absent, string or integer, of any length) and every bit.              *)
(***************************************************************************)
THEOREM SetbitReadsBack ==
  ASSUME DecimalBytes
  PROVE  Spec => SetbitReadBack
<1> DEFINE Inv == TypeOK /\ LastSetbitHolds
<1>1. Init => Inv
  <2>1. Init => LastSetbitHolds
    BY DEF Init, LastSetbitHolds, NoCmd
  <2> QED BY <2>1, InitType
<1>2. Inv /\ [Next]_vars => Inv'
  BY StepType, LastSetbitStep
<1>3. Inv /\ [Next]_vars =>
        [(/\ last.cmd.op = "SETBIT" /\ last'.cmd.op = "GETBIT"
          /\ last'.cmd.key = last.cmd.key /\ last'.cmd.off = last.cmd.off)
           => last'.reply = IntReply(last.cmd.bit)]_vars
  <2> SUFFICES ASSUME Inv, Next, last.cmd.op = "SETBIT", last'.cmd.op = "GETBIT",
                      last'.cmd.key = last.cmd.key, last'.cmd.off = last.cmd.off
               PROVE  last'.reply = IntReply(last.cmd.bit)
    OBVIOUS
  <2>1. ~Halted
    BY DEF Halted, vars
  <2>2. PICK cmd \in Inputs :
             \/ AppendStep(cmd) \/ StrlenStep(cmd) \/ SetbitStep(cmd) \/ GetbitStep(cmd)
             \/ GetRangeStep(cmd) \/ SetRangeStep(cmd) \/ KeyedStep(cmd)
    BY <2>1 DEF Next
  <2>3. last'.cmd = cmd /\ ~crashed /\ GetbitStep(cmd)
    BY <2>2, StepRecords
  <2>4. last'.reply = IntReply(GetbitOf(store[cmd.key], cmd.off))
    BY <2>3 DEF GetbitStep, Apply, ExecGetbit
  <2>5. GetbitOf(store[last.cmd.key], last.cmd.off) = last.cmd.bit
    BY <2>3 DEF LastSetbitHolds
  <2> QED BY <2>3, <2>4, <2>5
<1> QED BY <1>1, <1>2, <1>3, PTL DEF Spec, SetbitReadBack

(***************************************************************************)
(* SETRANGE writes what it is given: a step of SetRange::exec leaves the   *)
(* key a string with the argument at the offset, every old byte outside    *)
(* the range kept, the longer of the two lengths, and that length as its   *)
(* reply, for every offset, argument and prior value.                      *)
(***************************************************************************)
THEOREM SetRangeWritten ==
  ASSUME DecimalBytes
  PROVE  Spec => SetRangeWrites
<1>1. TypeOK /\ [Next]_vars =>
        [(last'.cmd.op = "SETRANGE" /\ ~crashed') =>
           LET c == last'.cmd
               old == IF store[c.key] = Nil THEN <<>> ELSE Render(store[c.key])
               top == c.off + Len(c.val)
               new == store'[c.key].s
           IN  /\ store'[c.key].t = "str"
               /\ Len(new) = IF top > Len(old) THEN top ELSE Len(old)
               /\ last'.reply = IntReply(Len(new))
               /\ \A i \in 1..Len(c.val) : new[c.off + i] = c.val[i]
               /\ \A i \in 1..Len(old) : (i <= c.off \/ top < i) => new[i] = old[i]]_vars
  <2> SUFFICES ASSUME TypeOK, Next, last'.cmd.op = "SETRANGE", ~crashed'
               PROVE  LET c == last'.cmd
                          old == IF store[c.key] = Nil THEN <<>> ELSE Render(store[c.key])
                          top == c.off + Len(c.val)
                          new == store'[c.key].s
                      IN  /\ store'[c.key].t = "str"
                          /\ Len(new) = IF top > Len(old) THEN top ELSE Len(old)
                          /\ last'.reply = IntReply(Len(new))
                          /\ \A i \in 1..Len(c.val) : new[c.off + i] = c.val[i]
                          /\ \A i \in 1..Len(old) : (i <= c.off \/ top < i) => new[i] = old[i]
    OBVIOUS
  <2>1. ~Halted
    BY DEF Halted, vars
  <2>2. PICK cmd \in Inputs :
             \/ AppendStep(cmd) \/ StrlenStep(cmd) \/ SetbitStep(cmd) \/ GetbitStep(cmd)
             \/ GetRangeStep(cmd) \/ SetRangeStep(cmd) \/ KeyedStep(cmd)
    BY <2>1 DEF Next
  <2>3. last'.cmd = cmd
    BY <2>2, StepRecords
  <2>4. SetRangeStep(cmd)
    BY <2>2, <2>3 DEF AppendStep, StrlenStep, SetbitStep, GetbitStep, GetRangeStep,
                      KeyedStep, KeyedOps, Apply
  <2>5. PICK o \in ExecSetRange(store[cmd.key], cmd.off, cmd.val) :
             /\ store' = [store EXCEPT ![cmd.key] = o.val]
             /\ last' = [cmd |-> cmd, reply |-> o.reply]
    BY <2>4 DEF SetRangeStep, Apply
  <2>6. cmd.key \in Keys /\ cmd.off \in Nat /\ cmd.val \in Seq(Byte)
    BY <2>4, InputShape DEF SetRangeStep
  <2>7. store[cmd.key] \in Entry /\ store'[cmd.key] = o.val /\ last'.reply = o.reply
    BY <2>5, <2>6 DEF TypeOK
  <2>8. LET old == IF store[cmd.key] = Nil THEN <<>> ELSE Render(store[cmd.key])
            top == cmd.off + Len(cmd.val)
        IN  /\ o.val.t = "str"
            /\ Len(o.val.s) = IF top > Len(old) THEN top ELSE Len(old)
            /\ o.reply = IntReply(Len(o.val.s))
            /\ \A i \in 1..Len(cmd.val) : o.val.s[cmd.off + i] = cmd.val[i]
            /\ \A i \in 1..Len(old) : (i <= cmd.off \/ top < i) => o.val.s[i] = old[i]
    <3> DEFINE prior == store[cmd.key]
    <3> HIDE DEF prior
    <3>1. prior \in Entry /\ o \in ExecSetRange(prior, cmd.off, cmd.val)
      BY <2>5, <2>7 DEF prior
    <3> QED BY <2>6, <3>1, SetRangeContent DEF prior
  <2> QED BY <2>3, <2>7, <2>8
<1> QED BY <1>1, TypeCorrect, PTL DEF Spec, SetRangeWrites

=============================================================================
