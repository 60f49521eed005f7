---------------------------- MODULE CommandProofs ----------------------------
(***************************************************************************)
(* Lemmas on the command layer of module Command, used by the proofs about *)
(* Router and Strings: the exec of each command keeps the keyspace's       *)
(* entries typed and returns a reply.                                      *)
(***************************************************************************)
EXTENDS Command, TLAPS

(* The release-build addition of two i64 is an i64. *)
LEMMA WrapAddType ==
  ASSUME NEW a \in I64, NEW b \in I64
  PROVE  WrapAdd(a, b) \in I64
BY CommandAssumption DEF WrapAdd, I64, MinI64, MaxU64

(* The exec of a keyed command yields an entry and a reply. *)
LEMMA ExecKeyedType ==
  ASSUME NEW v \in Entry, NEW cmd \in Cmd, IsKeyed(cmd)
  PROVE  /\ ExecKeyed(v, cmd).val \in Entry
         /\ ExecKeyed(v, cmd).reply \in Reply
<1>1. CASE cmd.op = "GET"
  BY <1>1 DEF ExecKeyed, Get, Entry, Value, Nil, NullBulk, IntReply, Reply
<1>2. CASE cmd.op = "SET"
  <2>1. cmd.val \in Seq(Byte)
    BY <1>2, CommandAssumption DEF Cmd
  <2>2. QED
    BY <1>2, <2>1 DEF ExecKeyed, Set, Entry, Value, StrVal, NullBulk, Simple, Reply
<1>3. CASE cmd.op = "DEL"
  <2>1. {0, 1} \subseteq I64
    BY CommandAssumption DEF I64, MinI64
  <2>2. QED
    BY <1>3, <2>1 DEF ExecKeyed, Del, Entry, Nil, IntReply, Reply
<1>4. CASE cmd.op = "INCR"
  <2>1. cmd.delta \in I64
    BY <1>4 DEF Cmd
  <2>2. CASE v = Nil
    BY <1>4, <2>1, <2>2 DEF ExecKeyed, Incr, Entry, Value, IntVal, IntReply, Reply
  <2>3. CASE v # Nil /\ v.t = "str" /\ ~ParsesI64(v.s)
    BY <1>4, <2>3 DEF ExecKeyed, Incr, Entry, Nil, ErrReply, Reply
  <2>4. CASE v # Nil /\ ~(v.t = "str" /\ ~ParsesI64(v.s))
    <3>1. (IF v.t = "int" THEN v.i ELSE ParsedI64(v.s)) \in I64
      BY <2>4 DEF Entry, Value, Nil, ParsesI64, ParsedI64
    <3>2. WrapAdd(IF v.t = "int" THEN v.i ELSE ParsedI64(v.s), cmd.delta) \in I64
      BY <3>1, <2>1, WrapAddType
    <3>3. QED
      BY <1>4, <2>4, <3>2 DEF ExecKeyed, Incr, Entry, Value, IntVal, IntReply, Reply
  <2>5. QED
    BY <2>2, <2>3, <2>4
<1>5. QED
  BY <1>1, <1>2, <1>3, <1>4 DEF IsKeyed, KeyedOps

(* The exec of a keyless command yields a reply. *)
LEMMA ExecKeylessType ==
  ASSUME NEW d \in [Keys -> Entry], NEW cmd \in Cmd, ~IsKeyed(cmd)
  PROVE  ExecKeyless(d, cmd) \in Reply
<1>1. cmd.op \in {"PING", "QUIT", "KEYS"}
  BY DEF Cmd, IsKeyed, KeyedOps
<1>2. QED
  BY <1>1 DEF ExecKeyless, Ping, Quit, KeysOf, Simple, QuitSignal, Reply
=============================================================================
