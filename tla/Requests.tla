------------------------------ MODULE Requests ------------------------------
(***************************************************************************)
(* A request as it leaves the decoder, through process_req (conn.rs), the *)
(* parse of its command (src/command/*.rs), Execute::shard and exec, on    *)
(* one worker: with a single worker every shard is local and conn() takes  *)
(* the fast path.  The string commands and BITFIELD execute as in modules  *)
(* Strings and Bitfield; KEYS lists the worker's keys.                     *)
(*                                                                         *)
(* Arguments are the resp::Msg values a client can put in an array:        *)
(* String, BulkString, a null BulkString and Int.  Their bytes are ASCII,  *)
(* so str::from_utf8 never fails on them.  A parse that indexes past the   *)
(* arguments (Args::own) panics, as does Keys::shard; a panic unwinds the  *)
(* worker thread, like a panic in exec.  PING, ECHO, QUIT and the          *)
(* unimplemented verbs are not among the verbs modelled here.              *)
(***************************************************************************)
EXTENDS Bitfield, TLC

CONSTANT Requests   \* the decoded messages the client sends

(* The ASCII bytes of the words the parsers compare with. *)
GET == <<71, 69, 84>>
SET == <<83, 69, 84>>
SETNX == <<83, 69, 84, 78, 88>>
SETEX == <<83, 69, 84, 69, 88>>
PSETEX == <<80, 83, 69, 84, 69, 88>>
APPEND == <<65, 80, 80, 69, 78, 68>>
STRLEN == <<83, 84, 82, 76, 69, 78>>
SETBIT == <<83, 69, 84, 66, 73, 84>>
GETBIT == <<71, 69, 84, 66, 73, 84>>
GETRANGE == <<71, 69, 84, 82, 65, 78, 71, 69>>
SETRANGE == <<83, 69, 84, 82, 65, 78, 71, 69>>
INCR == <<73, 78, 67, 82>>
INCRBY == <<73, 78, 67, 82, 66, 89>>
DECR == <<68, 69, 67, 82>>
DECRBY == <<68, 69, 67, 82, 66, 89>>
DEL == <<68, 69, 76>>
UNLINK == <<85, 78, 76, 73, 78, 75>>
KEYS == <<75, 69, 89, 83>>
BITFIELD == <<66, 73, 84, 70, 73, 69, 76, 68>>
EX == <<69, 88>>
PX == <<80, 88>>
NX == <<78, 88>>
XX == <<88, 88>>
OVERFLOW == <<79, 86, 69, 82, 70, 76, 79, 87>>
WRAP == <<87, 82, 65, 80>>
SAT == <<83, 65, 84>>
FAIL == <<70, 65, 73, 76>>

(* The lower-case spelling of an upper-case word. *)
Lower(s) == [i \in DOMAIN s |-> s[i] + 32]

(* name is the word w in upper case or in lower case (b"EX" | b"ex"). *)
Either(name, w) == name \in {w, Lower(w)}

(* The unsafe loop of process_req: a-z have bit 0x20 flipped. *)
Upper(s) == [i \in DOMAIN s |-> IF s[i] > 96 /\ s[i] < 123 THEN s[i] - 32 ELSE s[i]]

(* COMMANDS (command/index.rs): the upper-case verb -> its parse. *)
COMMANDS ==
  (GET :> "Get") @@ (SET :> "Set") @@ (SETNX :> "Set") @@ (SETEX :> "Set")
  @@ (PSETEX :> "Set") @@ (APPEND :> "Append") @@ (STRLEN :> "Strlen")
  @@ (SETBIT :> "Setbit") @@ (GETBIT :> "Getbit") @@ (GETRANGE :> "GetRange")
  @@ (SETRANGE :> "SetRange") @@ (INCR :> "Incr") @@ (INCRBY :> "Incr")
  @@ (DECR :> "Incr") @@ (DECRBY :> "Incr") @@ (DEL :> "Del") @@ (UNLINK :> "Del")
  @@ (KEYS :> "Keys") @@ (BITFIELD :> "Bitfield")

(* The outcomes of a parse. *)
Ok(c) == [r |-> "ok", cmd |-> c]
Fail == [r |-> "err"]
ParsePanics == [r |-> "panic"]

(* resp::Msg::String(b) | resp::Msg::BulkString(Some(b)). *)
Text(a) == a.t \in {"string", "bulk"}

(* str::parse::<u64> (an optional '+') and parse::<u8>. *)
ParsesUnsigned(s, max) ==
  /\ Len(Digits(s)) > 0 /\ s[1] # 45
  /\ \A i \in 1..Len(Digits(s)) : Digits(s)[i] \in 48..57
  /\ DecimalValue(Digits(s)) <= max

(* A u64 argument: text that parses, or an Int cast with `as u64`. *)
U64Arg(a) ==
  IF Text(a) /\ ParsesUnsigned(a.s, MaxU64) THEN [ok |-> TRUE, v |-> DecimalValue(Digits(a.s))]
  ELSE IF a.t = "int" THEN [ok |-> TRUE, v |-> AsU64(a.i)]
  ELSE [ok |-> FALSE]

(* An i64 argument: text that parses, or an Int. *)
I64Arg(a) ==
  IF Text(a) /\ ParsesI64(a.s) THEN [ok |-> TRUE, v |-> ParsedI64(a.s)]
  ELSE IF a.t = "int" THEN [ok |-> TRUE, v |-> a.i]
  ELSE [ok |-> FALSE]

(* `cmd.1 *= -1` on an i64 in a release build: i64::MIN stays i64::MIN. *)
WrapNeg(d) == WrapAdd(0, -d)

(***************************************************************************)
(* The parse of each command on args (args[1] is the verb, upper-cased).  *)
(* Own(i) is Args::own(i): it panics when there is no argument i.          *)
(***************************************************************************)
Own(args, i) == i < Len(args)

ParseGet(args) ==
  IF Len(args) # 2 \/ ~Text(args[2]) THEN Fail ELSE Ok([op |-> "GET", key |-> args[2].s])

ParseStrlen(args) ==
  IF Len(args) # 2 \/ ~Text(args[2]) THEN Fail ELSE Ok([op |-> "STRLEN", key |-> args[2].s])

ParseAppend(args) ==
  IF Len(args) # 3 \/ ~Text(args[2]) \/ ~Text(args[3]) THEN Fail
  ELSE Ok([op |-> "APPEND", key |-> args[2].s, val |-> args[3].s])

(* SET's option loop from argument i: EX/PX skip their number (one that  *)
(* does not parse is dropped with the TTL), NX and XX set the option.      *)
RECURSIVE SetOpts(_, _, _)
SetOpts(args, i, opt) ==
  IF i >= Len(args) THEN [ok |-> TRUE, opt |-> opt]
  ELSE LET name == args[i + 1].s
       IN  IF ~Text(args[i + 1]) THEN [ok |-> FALSE]
           ELSE IF Either(name, EX) \/ Either(name, PX) THEN
             IF i + 1 < Len(args) /\ (Text(args[i + 2]) \/ args[i + 2].t = "int")
             THEN SetOpts(args, i + 2, opt) ELSE [ok |-> FALSE]
           ELSE IF Either(name, NX) THEN SetOpts(args, i + 1, "NX")
           ELSE IF Either(name, XX) THEN SetOpts(args, i + 1, "XX")
           ELSE [ok |-> FALSE]

(* Set::parse, shared by SET, SETNX, SETEX and PSETEX: the key is taken    *)
(* before any arity check.  SETEX's TTL is parsed and never used.         *)
ParseSet(args) ==
  LET name == args[1].s
      SetCmd(v, opt) == Ok([op |-> "SET", key |-> args[2].s, val |-> v, opt |-> opt])
  IN  IF ~Own(args, 1) THEN ParsePanics
      ELSE IF ~Text(args[2]) THEN Fail
      ELSE IF name = SET THEN
        IF Len(args) < 3 \/ ~Text(args[3]) THEN Fail
        ELSE LET o == SetOpts(args, 3, "none")
             IN  IF o.ok THEN SetCmd(args[3].s, o.opt) ELSE Fail
      ELSE IF name = SETNX THEN
        IF ~Own(args, 2) THEN ParsePanics
        ELSE IF ~Text(args[3]) THEN Fail ELSE SetCmd(args[3].s, "NX")
      ELSE IF ~Own(args, 3) THEN ParsePanics
      ELSE IF ~Text(args[4]) \/ ~(Text(args[3]) \/ args[3].t = "int") THEN Fail
      ELSE SetCmd(args[4].s, "none")

ParseSetbit(args) ==
  LET off == U64Arg(args[3])
      bit == IF Text(args[4]) /\ ParsesUnsigned(args[4].s, 255)
             THEN [ok |-> TRUE, v |-> DecimalValue(Digits(args[4].s)) # 0]
             ELSE [ok |-> args[4].t = "int", v |-> args[4].t = "int" /\ args[4].i # 0]
  IN  IF Len(args) # 4 \/ ~Text(args[2]) \/ ~off.ok \/ ~bit.ok THEN Fail
      ELSE Ok([op |-> "SETBIT", key |-> args[2].s, off |-> off.v, bit |-> IF bit.v THEN 1 ELSE 0])

ParseGetbit(args) ==
  IF Len(args) # 3 \/ ~Text(args[2]) \/ ~U64Arg(args[3]).ok THEN Fail
  ELSE Ok([op |-> "GETBIT", key |-> args[2].s, off |-> U64Arg(args[3]).v])

ParseGetRange(args) ==
  IF Len(args) # 4 \/ ~Text(args[2]) \/ ~I64Arg(args[3]).ok \/ ~I64Arg(args[4]).ok THEN Fail
  ELSE Ok([op |-> "GETRANGE", key |-> args[2].s, from |-> I64Arg(args[3]).v, to |-> I64Arg(args[4]).v])

ParseSetRange(args) ==
  IF Len(args) # 4 \/ ~Text(args[2]) \/ ~U64Arg(args[3]).ok \/ ~Text(args[4]) THEN Fail
  ELSE Ok([op |-> "SETRANGE", key |-> args[2].s, off |-> U64Arg(args[3]).v, val |-> args[4].s])

(* Incr::parse: a delta of 1, or the third argument; DECR and DECRBY      *)
(* negate it.  INCR k 5 is INCRBY k 5, and INCRBY k is INCR k.            *)
ParseIncr(args) ==
  LET d == IF Len(args) = 3 THEN I64Arg(args[3]) ELSE [ok |-> TRUE, v |-> 1]
  IN  IF Len(args) < 2 \/ ~Text(args[2]) \/ Len(args) > 3 \/ ~d.ok THEN Fail
      ELSE Ok([op |-> "INCR", key |-> args[2].s,
               delta |-> IF args[1].s \in {DECR, DECRBY} THEN WrapNeg(d.v) ELSE d.v])

(* Del::parse: every key must be text; only the first is kept. *)
ParseDel(args) ==
  IF Len(args) < 2 \/ \E i \in 2..Len(args) : ~Text(args[i]) THEN Fail
  ELSE Ok([op |-> "DEL", key |-> args[2].s])

(* Keys::parse: no argument is -1, else an i64 (further ones ignored). *)
ParseKeys(args) ==
  IF Len(args) = 1 THEN Ok([op |-> "KEYS", n |-> -1])
  ELSE IF I64Arg(args[2]).ok THEN Ok([op |-> "KEYS", n |-> I64Arg(args[2]).v])
  ELSE Fail
-----------------------------------------------------------------------------
(* Bitfield::parse_type: i<bits> with 1 <= bits <= 64, or u<bits> with     *)
(* bits < 64 (64 is the width W here).                                     *)
ParseType(a) ==
  LET bits == DecimalValue(Digits(Tail(a.s)))
  IN  IF ~Text(a) \/ Len(a.s) < 2 \/ ~ParsesUnsigned(Tail(a.s), MaxU64) THEN [ok |-> FALSE]
      ELSE IF bits = 0 \/ bits > W THEN [ok |-> FALSE]
      ELSE IF a.s[1] = 105 THEN [ok |-> TRUE, t |-> [signed |-> TRUE, bits |-> bits]]
      ELSE IF a.s[1] = 117 /\ bits # W THEN [ok |-> TRUE, t |-> [signed |-> FALSE, bits |-> bits]]
      ELSE [ok |-> FALSE]

(* Bitfield::parse's loop over the sub-commands from argument i (0-based), *)
(* with the ops parsed so far.  A missing argument is a None: an error.    *)
RECURSIVE BfOps(_, _, _)
BfOps(args, i, ops) ==
  LET At(j) == IF j < Len(args) THEN args[j + 1] ELSE [t |-> "none"]
      name == At(i).s
      t == ParseType(At(i + 1))
      off == U64Arg(At(i + 2))
      val == I64Arg(At(i + 3))
      Field(k) == [k |-> k, t |-> t.t, off |-> off.v]
  IN  IF i >= Len(args) THEN IF ops = <<>> THEN [ok |-> FALSE] ELSE [ok |-> TRUE, ops |-> ops]
      ELSE IF ~Text(At(i)) THEN [ok |-> FALSE]
      ELSE IF Either(name, OVERFLOW) THEN
        LET m == At(i + 1).s
        IN  IF ~Text(At(i + 1)) THEN [ok |-> FALSE]
            ELSE IF Either(m, WRAP) THEN BfOps(args, i + 2, Append(ops, [k |-> "OVERFLOW", mode |-> "WRAP"]))
            ELSE IF Either(m, SAT) THEN BfOps(args, i + 2, Append(ops, [k |-> "OVERFLOW", mode |-> "SAT"]))
            ELSE IF Either(m, FAIL) THEN BfOps(args, i + 2, Append(ops, [k |-> "OVERFLOW", mode |-> "FAIL"]))
            ELSE [ok |-> FALSE]
      ELSE IF ~(Either(name, GET) \/ Either(name, SET) \/ Either(name, INCRBY)) THEN [ok |-> FALSE]
      ELSE IF ~t.ok \/ ~off.ok THEN [ok |-> FALSE]
      ELSE IF Either(name, GET) THEN BfOps(args, i + 3, Append(ops, Field("GET")))
      ELSE IF ~val.ok THEN [ok |-> FALSE]
      ELSE IF Either(name, SET) THEN BfOps(args, i + 4, Append(ops, [Field("SET") EXCEPT !.val = val.v]))
      ELSE IF val.v = 0 THEN BfOps(args, i + 4, Append(ops, Field("GET")))
      ELSE BfOps(args, i + 4, Append(ops, [Field("INCRBY") EXCEPT !.val = val.v]))

(* Bitfield::parse: the key is taken before any arity check. *)
ParseBitfield(args) ==
  LET o == BfOps(args, 2, <<>>)
  IN  IF ~Own(args, 1) THEN ParsePanics
      ELSE IF ~Text(args[2]) \/ ~o.ok THEN Fail
      ELSE Ok([op |-> "BITFIELD", key |-> args[2].s, ops |-> o.ops])
-----------------------------------------------------------------------------
Parse(h, args) ==
  IF h = "Get" THEN ParseGet(args)          ELSE IF h = "Set" THEN ParseSet(args)
  ELSE IF h = "Append" THEN ParseAppend(args) ELSE IF h = "Strlen" THEN ParseStrlen(args)
  ELSE IF h = "Setbit" THEN ParseSetbit(args) ELSE IF h = "Getbit" THEN ParseGetbit(args)
  ELSE IF h = "GetRange" THEN ParseGetRange(args) ELSE IF h = "SetRange" THEN ParseSetRange(args)
  ELSE IF h = "Incr" THEN ParseIncr(args)   ELSE IF h = "Del" THEN ParseDel(args)
  ELSE IF h = "Keys" THEN ParseKeys(args)   ELSE ParseBitfield(args)

(***************************************************************************)
(* process_req: a non-empty array whose first element is text; the verb is *)
(* upper-cased in place and looked up.  Anything else is an error reply.  *)
(***************************************************************************)
ProcessReq(req) ==
  IF req.t # "array" THEN Fail
  ELSE IF req.items = <<>> \/ ~Text(req.items[1]) THEN Fail
  ELSE LET args == [req.items EXCEPT ![1].s = Upper(@)]
       IN  IF args[1].s \notin DOMAIN COMMANDS THEN Fail
           ELSE Parse(COMMANDS[args[1].s], args)

(* KEYS on the worker: Keys::shard panics below -1, exec lists the keys. *)
KeysStep(cmd) ==
  /\ cmd.op = "KEYS"
  /\ last' = [cmd |-> cmd, reply |-> IF KeysShardPanics(cmd) THEN Panic ELSE KeysOf(store)]
  /\ crashed' = KeysShardPanics(cmd)
  /\ UNCHANGED store

(* A message that did not parse, in place of a command. *)
Unparsed(req) == [op |-> "unparsed", req |-> req]

(* conn()'s fast path for one decoded message: the error reply of a failed *)
(* process_req, or shard and exec of the command, or a panic.             *)
RequestStep(req) ==
  LET p == ProcessReq(req)
  IN  /\ ~crashed
      /\ \/ p.r = "err" /\ last' = [cmd |-> Unparsed(req), reply |-> ErrReply("ERR")]
            /\ UNCHANGED <<store, crashed>>
         \/ p.r = "panic" /\ last' = [cmd |-> Unparsed(req), reply |-> Panic] /\ crashed' = TRUE
            /\ UNCHANGED store
         \/ /\ p.r = "ok"
            /\ \/ AppendStep(p.cmd) \/ StrlenStep(p.cmd) \/ SetbitStep(p.cmd) \/ GetbitStep(p.cmd)
               \/ GetRangeStep(p.cmd) \/ SetRangeStep(p.cmd) \/ KeyedStep(p.cmd)
               \/ BitfieldStep(p.cmd) \/ KeysStep(p.cmd)

NextR ==
  \/ \E req \in Requests : RequestStep(req)
  \/ Halted

SpecR == Init /\ [][NextR]_vars
-----------------------------------------------------------------------------
(***************************************************************************)
(* No message a client sends panics the worker thread: a bad arity or      *)
(* argument is an ERR reply and the connection goes on (spec 4.2, 7).  It *)
(* covers the Args::own calls of every parse, Keys::shard and the panics  *)
(* of exec.                                                                *)
(***************************************************************************)
WorkerNeverPanics == ~crashed
=============================================================================
