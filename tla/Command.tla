------------------------------ MODULE Command ------------------------------
(***************************************************************************)
(* The command layer of mkii (src/command/*.rs, src/database.rs) for the   *)
(* commands the shard router is checked with: GET, SET [NX|XX], DEL,       *)
(* INCR/INCRBY/DECR/DECRBY, PING, QUIT and KEYS.  A command arrives here   *)
(* already parsed (the argument grammar is modelled in module Strings).    *)
(*                                                                         *)
(* Every keyed command of the code reads and writes the one entry of its   *)
(* key (self.0) and nothing else, so its exec is written as a function of  *)
(* the old entry of that key returning the new entry and the reply.  The   *)
(* keyless commands either leave the keyspace alone (PING, QUIT) or read   *)
(* the whole of it (KEYS).                                                 *)
(*                                                                         *)
(* Integers keep the code's i64 semantics at width W (64 in the code): a   *)
(* release build wraps on overflow, and that is the build modelled.        *)
(***************************************************************************)
EXTENDS Integers, Sequences

CONSTANTS
  Keys,   \* the key byte strings that clients use
  Vals,   \* the value byte strings SET may store
  W,      \* width of the code's i64/u64 (64 in the code)
  Hash    \* SeaHash of each key: Keys -> 0..MaxU64

Byte == 0..255

(* i64::MAX, i64::MIN and u64::MAX at width W. *)
MaxI64 == 2^(W - 1) - 1
MinI64 == -MaxI64 - 1
I64 == MinI64..MaxI64
MaxU64 == 2 * MaxI64 + 1

ASSUME CommandAssumption ==
  /\ W \in Nat /\ W >= 2
  /\ MaxI64 \in Nat \ {0}
  /\ Vals \subseteq Seq(Byte)
  /\ Hash \in [Keys -> 0..MaxU64]

(***************************************************************************)
(* database::Value restricted to its scalars (List, HashMap, Set and       *)
(* SortedSet are never built by any command), and the absence of a key.   *)
(***************************************************************************)
Nil == [t |-> "nil"]
StrVal(s) == [t |-> "str", s |-> s]
IntVal(i) == [t |-> "int", i |-> i]
Value == [t : {"str"}, s : Seq(Byte)] \cup [t : {"int"}, i : I64]
Entry == Value \cup {Nil}

(***************************************************************************)
(* resp::Msg as replies: static simple strings ("OK", "PONG"), integers,   *)
(* bulk strings and the null bulk string, errors, the array KEYS returns   *)
(* (HashMap iteration order is not observable, so a set of keys), and the  *)
(* Error::Quit signal QUIT's exec returns instead of a reply.              *)
(***************************************************************************)
NullBulk == [t |-> "nullbulk"]
Simple(m) == [t |-> "simple", msg |-> m]
IntReply(i) == [t |-> "int", i |-> i]
ErrReply(e) == [t |-> "err", e |-> e]
QuitSignal == [t |-> "quit"]
Reply ==
       [t : {"simple"}, msg : {"OK", "PONG"}]
  \cup [t : {"int"}, i : I64]
  \cup [t : {"bulk"}, s : Seq(Byte)]
  \cup {NullBulk, QuitSignal}
  \cup [t : {"err"}, e : {"WRONGTYPE", "ERR"}]
  \cup [t : {"keys"}, ks : SUBSET Keys]

(***************************************************************************)
(* The parsed commands (the structs Get, Set, Del, Incr, Ping, Quit, Keys).*)
(* INCR, DECR and DECRBY are Incr with the delta their parse computes.     *)
(***************************************************************************)
Cmd ==
       [op : {"GET", "DEL"}, key : Keys]
  \cup [op : {"SET"}, key : Keys, val : Vals, opt : {"none", "NX", "XX"}]
  \cup [op : {"INCR"}, key : Keys, delta : I64]
  \cup [op : {"PING", "QUIT"}]
  \cup [op : {"KEYS"}, n : I64]

KeyedOps == {"GET", "SET", "DEL", "INCR"}
IsKeyed(cmd) == cmd.op \in KeyedOps

(***************************************************************************)
(* str::parse::<i64>: an optional '+' or '-', then one or more ASCII       *)
(* digits, and a value that fits in i64.                                   *)
(***************************************************************************)
HasSign(s) == Len(s) > 0 /\ s[1] \in {43, 45}
Digits(s) == IF HasSign(s) THEN Tail(s) ELSE s
DecimalValue(d) ==
  LET v[i \in 0..Len(d)] == IF i = 0 THEN 0 ELSE 10 * v[i - 1] + (d[i] - 48)
  IN  v[Len(d)]
SignedValue(s) ==
  IF Len(s) > 0 /\ s[1] = 45 THEN -DecimalValue(Digits(s)) ELSE DecimalValue(Digits(s))
ParsesI64(s) ==
  /\ Len(Digits(s)) > 0
  /\ \A i \in 1..Len(Digits(s)) : Digits(s)[i] \in 48..57
  /\ SignedValue(s) \in I64
ParsedI64(s) == SignedValue(s)

(* Mutant: the sum without i64 wrap-around. *)
WrapAddUnbounded(a, b) == a + b

(* i64 + i64 in a release build: two's complement wrap-around. *)
WrapAdd(a, b) ==
  LET x == a + b
  IN  IF x > MaxI64 THEN x - (MaxU64 + 1)
      ELSE IF x < MinI64 THEN x + (MaxU64 + 1)
      ELSE x

(***************************************************************************)
(* The exec of the keyed commands: old entry v of the key -> new entry and *)
(* reply.                                                                  *)
(***************************************************************************)
Get(v) ==
  [val |-> v,
   reply |-> IF v = Nil THEN NullBulk
             ELSE IF v.t = "str" THEN [t |-> "bulk", s |-> v.s]
             ELSE IntReply(v.i)]

Set(v, s, opt) ==
  IF \/ opt = "NX" /\ v # Nil
     \/ opt = "XX" /\ v = Nil
  THEN [val |-> v, reply |-> NullBulk]
  ELSE [val |-> StrVal(s), reply |-> Simple("OK")]

Del(v) == [val |-> Nil, reply |-> IntReply(IF v = Nil THEN 0 ELSE 1)]

(* remove_entry takes the entry out first: the error return for a string  *)
(* that is not an integer never puts it back.                              *)
Incr(v, d) ==
  IF v = Nil THEN [val |-> IntVal(d), reply |-> IntReply(d)]
  ELSE IF v.t = "str" /\ ~ParsesI64(v.s) THEN [val |-> Nil, reply |-> ErrReply("WRONGTYPE")]
  ELSE LET old == IF v.t = "int" THEN v.i ELSE ParsedI64(v.s)
       IN  [val |-> IntVal(WrapAdd(old, d)), reply |-> IntReply(WrapAdd(old, d))]

ExecKeyed(v, cmd) ==
  CASE cmd.op = "GET"  -> Get(v)
    [] cmd.op = "SET"  -> Set(v, cmd.val, cmd.opt)
    [] cmd.op = "DEL"  -> Del(v)
    [] cmd.op = "INCR" -> Incr(v, cmd.delta)

(* The keyless commands against the whole keyspace d of a worker. *)
Ping == Simple("PONG")
Quit == QuitSignal
KeysOf(d) == [t |-> "keys", ks |-> {k \in Keys : d[k] # Nil}]

ExecKeyless(d, cmd) ==
  CASE cmd.op = "PING" -> Ping
    [] cmd.op = "QUIT" -> Quit
    [] cmd.op = "KEYS" -> KeysOf(d)

(***************************************************************************)
(* Execute::shard.  Keyed commands hash their key; PING and QUIT answer    *)
(* u64::MAX ("any worker"); KEYS n answers n, and 0 for -1.  For n < -1    *)
(* the code panics (keys.rs), which KeysShardPanics says.                  *)
(***************************************************************************)
KeyedShard(cmd) == Hash[cmd.key]
KeysShard(n) == IF n = -1 THEN 0 ELSE n
KeysShardPanics(cmd) == cmd.op = "KEYS" /\ cmd.n < -1
ShardOf(cmd) ==
  IF IsKeyed(cmd) THEN KeyedShard(cmd)
  ELSE IF cmd.op = "KEYS" THEN KeysShard(cmd.n)
  ELSE MaxU64
=============================================================================
