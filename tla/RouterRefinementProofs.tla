------------------------ MODULE RouterRefinementProofs ------------------------
(***************************************************************************)
(* The router implements the abstract store of module KVStore (KVSpec),   *)
(* for every number of workers, connections and keys, every hash and     *)
(* every integer width, provided no key hashes to u64::MAX.               *)
(*                                                                         *)
(* The refinement mapping of Router (KV) takes a key's global value to be *)
(* its entry on its owner, and a forwarded request not yet run to be       *)
(* still unread.  A router step maps to a KVStore step as follows:         *)
(*   RecvLocal -> Request, RunForwarded -> Request of the awaited command, *)
(*   RecvError -> Reject, SendReply -> Answer, QuitReply -> Bye,          *)
(*   Eof -> Hangup, Close -> Disconnect, RecvForward and Finished ->      *)
(*   stuttering.                                                           *)
(* The proof needs more than TypeInv: that every key lives on its owner   *)
(* (so the owner's entry is the global one, and a KEYS on a worker sees    *)
(* exactly the global keys of that worker), and FwdInv below, on what a   *)
(* connection awaiting a forwarded exec holds.                            *)
(***************************************************************************)
EXTENDS RouterProofs

(* A connection awaiting a forwarded exec holds a request some client     *)
(* sent, that request did not pass the fast-path test (so it is neither   *)
(* PING nor QUIT), and the read of it has been counted.                   *)
FwdInv ==
  \A c \in Conns : conn[c].pc = "fwd" =>
     /\ conn[c].cmd \in Inputs
     /\ ~IsLocal(c, conn[c].cmd)
     /\ conn[c].n >= 1

RefInv == TypeInv /\ KeyResidesOnOwner /\ FwdInv

(* The hypothesis of the refinement: no key's SeaHash is the "any worker" *)
(* sentinel u64::MAX (run router_sentinel shows what goes wrong if one is).*)
NoSentinel == \A k \in Keys : Hash[k] # MaxU64

-----------------------------------------------------------------------------
(* FwdInv and RefInv are invariants. *)

(* A step that leaves connection c outside "fwd" and every other          *)
(* connection as it was keeps FwdInv.                                     *)
LEMMA FwdFrame ==
  ASSUME FwdInv, NEW c \in Conns, conn' \in [Conns -> ConnRec],
         conn'[c].pc # "fwd", \A d \in Conns \ {c} : conn'[d] = conn[d]
  PROVE  FwdInv'
BY DEF FwdInv, IsLocal

LEMMA NextFwdInv == TypeInv /\ FwdInv /\ [Next]_vars => FwdInv'
<1> SUFFICES ASSUME TypeInv, FwdInv, [Next]_vars PROVE FwdInv'
  OBVIOUS
<1>0. TypeInv'
  BY NextTypeInv
<1>1. ASSUME NEW c \in Conns, NEW cmd \in Inputs, RecvLocal(c, cmd)
      PROVE  FwdInv'
  <2>1. conn'[c].pc \in {"quit", "send"} /\ \A d \in Conns \ {c} : conn'[d] = conn[d]
    BY <1>1 DEF RecvLocal, TypeInv, TypeOK
  <2>2. QED
    BY <1>0, <2>1, FwdFrame DEF TypeInv, TypeOK, ConnRec
<1>2. ASSUME NEW c \in Conns, NEW cmd \in Inputs, RecvForward(c, cmd)
      PROVE  FwdInv'
  <2>1. conn' = [conn EXCEPT ![c] = [conn[c] EXCEPT !.pc = "fwd", !.n = conn[c].n + 1,
                                                    !.cmd = cmd]]
    BY <1>2 DEF RecvForward
  <2>2. conn[c].n \in Nat
    BY DEF TypeInv, TypeOK
  <2>3. /\ conn'[c].cmd = cmd /\ conn'[c].n = conn[c].n + 1
        /\ \A d \in Conns \ {c} : conn'[d] = conn[d]
    BY <2>1 DEF TypeInv, TypeOK
  <2>4. ~IsLocal(c, cmd)
    BY <1>2 DEF RecvForward
  <2>5. QED
    BY <2>2, <2>3, <2>4 DEF FwdInv
<1>3. ASSUME NEW c \in Conns, RecvError(c)
      PROVE  FwdInv'
  <2>1. conn'[c].pc = "send" /\ \A d \in Conns \ {c} : conn'[d] = conn[d]
    BY <1>3 DEF RecvError, TypeInv, TypeOK
  <2>2. QED
    BY <1>0, <2>1, FwdFrame DEF TypeInv, TypeOK, ConnRec
<1>4. ASSUME NEW c \in Conns, SendReply(c)
      PROVE  FwdInv'
  <2>1. conn'[c].pc \in {"read", "done"} /\ \A d \in Conns \ {c} : conn'[d] = conn[d]
    <3>1. CASE sock[c]
      <4>1. conn' = [conn EXCEPT ![c] = [conn[c] EXCEPT !.pc = "read", !.resp = NoReply]]
        BY <1>4, <3>1 DEF SendReply
      <4>2. QED
        BY <4>1 DEF TypeInv, TypeOK
    <3>2. CASE ~sock[c]
      <4>1. conn' = [conn EXCEPT ![c] = [conn[c] EXCEPT !.pc = "done", !.resp = NoReply]]
        BY <1>4, <3>2 DEF SendReply
      <4>2. QED
        BY <4>1 DEF TypeInv, TypeOK
    <3>3. QED
      BY <3>1, <3>2
  <2>2. QED
    BY <1>0, <2>1, FwdFrame DEF TypeInv, TypeOK, ConnRec
<1>5. ASSUME NEW c \in Conns, QuitReply(c)
      PROVE  FwdInv'
  <2>1. conn'[c].pc = "done" /\ \A d \in Conns \ {c} : conn'[d] = conn[d]
    BY <1>5 DEF QuitReply, TypeInv, TypeOK
  <2>2. QED
    BY <1>0, <2>1, FwdFrame DEF TypeInv, TypeOK, ConnRec
<1>6. ASSUME NEW c \in Conns, Eof(c)
      PROVE  FwdInv'
  <2>1. conn'[c].pc = "done" /\ \A d \in Conns \ {c} : conn'[d] = conn[d]
    BY <1>6 DEF Eof, TypeInv, TypeOK
  <2>2. QED
    BY <1>0, <2>1, FwdFrame DEF TypeInv, TypeOK, ConnRec
<1>7. ASSUME NEW w \in Workers, NEW c \in Conns, RunForwarded(w, c)
      PROVE  FwdInv'
  <2>1. conn'[c].pc = "send" /\ \A d \in Conns \ {c} : conn'[d] = conn[d]
    BY <1>7 DEF RunForwarded, TypeInv, TypeOK
  <2>2. QED
    BY <1>0, <2>1, FwdFrame DEF TypeInv, TypeOK, ConnRec
<1>8. UNCHANGED conn => FwdInv'
  BY DEF FwdInv
<1>9. QED
  BY <1>1, <1>2, <1>3, <1>4, <1>5, <1>6, <1>7, <1>8 DEF Next, vars, Close, Finished

(***************************************************************************)
(* RefInv is an invariant of the router when no key hashes to u64::MAX:   *)
(* every connection and keyspace stays typed, every key lives on its      *)
(* owner, and a connection awaiting a forwarded exec holds a counted      *)
(* request that conn.rs did not run on the fast path.                     *)
(***************************************************************************)
THEOREM RefInvariant ==
  ASSUME NoSentinel
  PROVE  Spec => []RefInv
<1>1. Init => RefInv
  BY InitTypeInv DEF Init, RefInv, KeyResidesOnOwner, FwdInv
<1>2. RefInv /\ [Next]_vars => RefInv'
  BY NextTypeInv, NextSharding, NextFwdInv DEF RefInv, NoSentinel
<1>3. QED
  BY <1>1, <1>2, PTL DEF Spec


-----------------------------------------------------------------------------
(* Lemmas on the refinement mapping. *)

(* The global keyspace of the mapping: each key's entry on its owner. *)
AbsStore == [k \in Keys |-> db[Owner(k)][k]]

(* Every key's owner is a worker of the pool. *)
LEMMA OwnerType ==
  ASSUME NEW k \in Keys
  PROVE  Owner(k) \in Workers
<1>1. Hash[k] \in Int
  BY CommandAssumption
<1>2. QED
  BY <1>1, WorkerOfType DEF Owner

(* Replacing one connection's record replaces its abstract record. *)
LEMMA AbsConnUpdate ==
  ASSUME TypeOK, NEW c \in Conns, NEW x, conn' = [conn EXCEPT ![c] = x]
  PROVE  AbsConn' = [AbsConn EXCEPT ![c] = AbsRec(x)]
BY DEF AbsConn, TypeOK

(* With every key on its owner, the keys present on worker w are the      *)
(* global keys that w owns.                                               *)
LEMMA KeysOnOwner ==
  ASSUME TypeOK, KeyResidesOnOwner, NEW w \in Workers, NEW k \in Keys
  PROVE  db[w][k] # Nil <=> AbsStore[k] # Nil /\ Hash[k] % N = w
BY DEF KeyResidesOnOwner, AbsStore, Owner, WorkerOf

(* KVStore extends Command with the same constants, so the operators of   *)
(* Command seen through the instance KV are those of Command itself.     *)
LEMMA KVCommandOps ==
  /\ KV!Nil = Nil /\ KV!QuitSignal = QuitSignal /\ KV!ErrReply("ERR") = ErrReply("ERR")
  /\ KV!Simple("OK") = Simple("OK")
  /\ \A cmd : KV!IsKeyed(cmd) = IsKeyed(cmd)
  /\ \A n : KV!KeysShard(n) = KeysShard(n)
  /\ \A d, cmd : KV!ExecKeyless(d, cmd) = ExecKeyless(d, cmd)
  /\ \A v, cmd : KV!ExecKeyed(v, cmd) = ExecKeyed(v, cmd)
<1>1. \A s : KV!ParsesI64(s) = ParsesI64(s) /\ KV!ParsedI64(s) = ParsedI64(s)
  BY DEF KV!ParsesI64, ParsesI64, KV!ParsedI64, ParsedI64, KV!SignedValue, SignedValue,
         KV!DecimalValue, DecimalValue, KV!Digits, Digits, KV!HasSign, HasSign,
         KV!I64, I64, KV!MinI64, MinI64, KV!MaxI64, MaxI64
<1>2. \A a, b : KV!WrapAdd(a, b) = WrapAdd(a, b)
  BY DEF KV!WrapAdd, WrapAdd, KV!MaxI64, MaxI64, KV!MinI64, MinI64, KV!MaxU64, MaxU64
<1>3. \A v, cmd : KV!ExecKeyed(v, cmd) = ExecKeyed(v, cmd)
  BY <1>1, <1>2 DEF KV!ExecKeyed, ExecKeyed, KV!Get, Get, KV!Set, Set, KV!Del, Del,
                    KV!Incr, Incr, KV!Nil, Nil, KV!NullBulk, NullBulk, KV!IntReply, IntReply,
                    KV!StrVal, StrVal, KV!Simple, Simple, KV!IntVal, IntVal,
                    KV!ErrReply, ErrReply
<1>4. QED
  BY <1>3 DEF KV!Nil, Nil, KV!QuitSignal, QuitSignal, KV!ErrReply, ErrReply,
              KV!Simple, Simple, KV!IsKeyed, IsKeyed, KV!KeyedOps, KeyedOps,
              KV!KeysShard, KeysShard, KV!ExecKeyless, ExecKeyless, KV!Ping, Ping,
              KV!Quit, Quit, KV!KeysOf, KeysOf

(* An exec on worker w, where w is the worker the command's shard maps to *)
(* (or the command is PING or QUIT, which run anywhere), acts on the       *)
(* global keyspace exactly as KVStore's Apply does.                       *)
LEMMA ExecuteAbs ==
  ASSUME TypeOK, KeyResidesOnOwner, NEW w \in Workers, NEW cmd \in Cmd,
         cmd.op \in {"PING", "QUIT"} \/ w = WorkerOf(ShardOf(cmd))
  PROVE  /\ [k \in Keys |-> [db EXCEPT ![w] = Execute(w, cmd).db][Owner(k)][k]]
              = KV!Apply(cmd).store
         /\ Execute(w, cmd).reply = KV!Apply(cmd).reply
<1>1. CASE IsKeyed(cmd)
  <2>1. cmd.key \in Keys /\ w = Owner(cmd.key) /\ cmd.op \notin {"PING", "QUIT"}
    BY <1>1, KeyedShardOf DEF Cmd, IsKeyed, KeyedOps, Owner
  <2> DEFINE r == ExecKeyed(db[w][cmd.key], cmd)
  <2>2. AbsStore[cmd.key] = db[w][cmd.key]
    BY <2>1 DEF AbsStore
  <2>3. KV!Apply(cmd) = [store |-> [AbsStore EXCEPT ![cmd.key] = r.val], reply |-> r.reply]
    BY <1>1, <2>2, KVCommandOps DEF KV!Apply, AbsStore
  <2>4. Execute(w, cmd) = [db |-> [db[w] EXCEPT ![cmd.key] = r.val], reply |-> r.reply]
    BY <1>1 DEF Execute
  <2>5. ASSUME NEW k \in Keys
        PROVE  [db EXCEPT ![w] = Execute(w, cmd).db][Owner(k)][k]
                 = [AbsStore EXCEPT ![cmd.key] = r.val][k]
    <3>1. Owner(k) \in Workers /\ db[w] \in [Keys -> Entry] /\ AbsStore \in [Keys -> Entry]
      BY OwnerType DEF TypeOK, AbsStore
    <3>2. [db EXCEPT ![w] = Execute(w, cmd).db][w] = [db[w] EXCEPT ![cmd.key] = r.val]
      BY <2>4 DEF TypeOK
    <3>3. CASE k = cmd.key
      <4>1. [AbsStore EXCEPT ![cmd.key] = r.val][k] = r.val
        BY <3>1, <3>3
      <4>2. [db[w] EXCEPT ![cmd.key] = r.val][k] = r.val
        BY <3>1, <3>3
      <4>3. QED
        BY <2>1, <3>2, <3>3, <4>1, <4>2
    <3>4. CASE k # cmd.key /\ Owner(k) = w
      <4>1. [AbsStore EXCEPT ![cmd.key] = r.val][k] = db[w][k]
        BY <3>1, <3>4 DEF AbsStore
      <4>2. [db[w] EXCEPT ![cmd.key] = r.val][k] = db[w][k]
        BY <3>1, <3>4
      <4>3. QED
        BY <3>2, <3>4, <4>1, <4>2
    <3>5. CASE Owner(k) # w
      <4>1. [AbsStore EXCEPT ![cmd.key] = r.val][k] = db[Owner(k)][k]
        BY <2>1, <3>1, <3>5 DEF AbsStore
      <4>2. [db EXCEPT ![w] = Execute(w, cmd).db][Owner(k)] = db[Owner(k)]
        BY <3>1, <3>5 DEF TypeOK
      <4>3. QED
        BY <4>1, <4>2
    <3>6. QED
      BY <3>3, <3>4, <3>5
  <2>6. [AbsStore EXCEPT ![cmd.key] = r.val]
          = [k \in Keys |-> [AbsStore EXCEPT ![cmd.key] = r.val][k]]
    BY DEF AbsStore
  <2>7. [k \in Keys |-> [db EXCEPT ![w] = Execute(w, cmd).db][Owner(k)][k]]
          = [AbsStore EXCEPT ![cmd.key] = r.val]
    BY <2>5, <2>6
  <2>8. QED
    BY <2>3, <2>4, <2>7
<1>2. CASE ~IsKeyed(cmd)
  <2>1. Execute(w, cmd) = [db |-> db[w], reply |-> ExecKeyless(db[w], cmd)]
    BY <1>2 DEF Execute
  <2>2. [k \in Keys |-> [db EXCEPT ![w] = Execute(w, cmd).db][Owner(k)][k]] = AbsStore
    BY <2>1, OwnerType DEF TypeOK, AbsStore
  <2>3. cmd.op \in {"PING", "QUIT", "KEYS"}
    BY <1>2 DEF Cmd, IsKeyed, KeyedOps
  <2>4. CASE cmd.op \in {"PING", "QUIT"}
    <3>1. KV!Apply(cmd) = [store |-> AbsStore, reply |-> ExecKeyless(AbsStore, cmd)]
      BY <1>2, <2>4, KVCommandOps DEF KV!Apply, AbsStore
    <3>2. ExecKeyless(AbsStore, cmd) = ExecKeyless(db[w], cmd)
      BY <2>4 DEF ExecKeyless
    <3>3. QED
      BY <2>1, <2>2, <3>1, <3>2
  <2>5. CASE cmd.op = "KEYS"
    <3> DEFINE Here == {k \in Keys : db[w][k] # Nil}
               Owned == {k \in Keys : AbsStore[k] # Nil /\ Hash[k] % N = KeysShard(cmd.n) % N}
    <3>1. w = KeysShard(cmd.n) % N
      BY <1>2, <2>5 DEF ShardOf, WorkerOf
    <3>2. Execute(w, cmd).reply = [t |-> "keys", ks |-> Here]
      BY <2>1, <2>5 DEF ExecKeyless, KeysOf
    <3>3. Here = Owned
      BY <3>1, KeysOnOwner
    <3>4. KV!Apply(cmd).reply = [t |-> "keys", ks |-> Owned]
      <4>1. KV!KeysOnWorker(cmd.n) = [t |-> "keys", ks |-> Owned]
        BY KVCommandOps DEF KV!KeysOnWorker, AbsStore
      <4>2. KV!Apply(cmd).reply = KV!KeysOnWorker(cmd.n)
        BY <1>2, <2>5, KVCommandOps DEF KV!Apply
      <4>3. QED
        BY <4>1, <4>2
    <3>5. KV!Apply(cmd).store = AbsStore
      <4>1. ~KV!IsKeyed(cmd)
        BY <1>2, KVCommandOps
      <4>2. QED
        BY <4>1 DEF KV!Apply, AbsStore
    <3> HIDE DEF Here, Owned
    <3>6. QED
      BY <2>2, <3>2, <3>3, <3>4, <3>5
  <2>6. QED
    BY <2>3, <2>4, <2>5
<1>3. QED
  BY <1>1, <1>2


(* Only PING and QUIT claim the "any worker" shard when no key hashes to   *)
(* u64::MAX: a KEYS shard is at most i64::MAX.                             *)
LEMMA SentinelOnlyAnywhere ==
  ASSUME NoSentinel, NEW cmd \in Cmd, ShardOf(cmd) = MaxU64
  PROVE  cmd.op \in {"PING", "QUIT"}
<1>1. CASE IsKeyed(cmd)
  <2>1. cmd.key \in Keys
    BY <1>1 DEF Cmd, IsKeyed, KeyedOps
  <2>2. QED
    BY <1>1, <2>1, KeyedShardOf DEF NoSentinel
<1>2. CASE cmd.op = "KEYS"
  <2>1. cmd.n \in I64 /\ ~IsKeyed(cmd)
    BY <1>2 DEF Cmd, IsKeyed, KeyedOps
  <2>2. KeysShard(cmd.n) # MaxU64
    BY <2>1, CommandAssumption DEF KeysShard, I64, MinI64, MaxU64
  <2>3. QED
    BY <1>2, <2>1, <2>2 DEF ShardOf
<1>3. QED
  BY <1>1, <1>2 DEF Cmd, IsKeyed, KeyedOps

(* A request that is not PING or QUIT never ends the loop: its exec     *)
(* returns a reply, not Error::Quit.                                       *)
LEMMA ExecuteNotQuit ==
  ASSUME TypeOK, NEW w \in Workers, NEW cmd \in Cmd, cmd.op \notin {"PING", "QUIT"}
  PROVE  Execute(w, cmd).reply # QuitSignal
<1>1. CASE IsKeyed(cmd)
  <2>1. cmd.key \in Keys /\ db[w][cmd.key] \in Entry
    BY <1>1 DEF Cmd, IsKeyed, KeyedOps, TypeOK
  <2>2. ExecKeyed(db[w][cmd.key], cmd).reply # QuitSignal
    BY <1>1 DEF IsKeyed, KeyedOps, ExecKeyed, Get, Set, Del, Incr, QuitSignal, NullBulk,
                Simple, IntReply, ErrReply
  <2>3. QED
    BY <1>1, <2>2 DEF Execute
<1>2. CASE ~IsKeyed(cmd)
  <2>1. cmd.op = "KEYS"
    BY <1>2 DEF Cmd, IsKeyed, KeyedOps
  <2>2. QED
    BY <1>2, <2>1 DEF Execute, ExecKeyless, KeysOf, QuitSignal
<1>3. QED
  BY <1>1, <1>2

-----------------------------------------------------------------------------
(* Each router step is a KVStore step or leaves the mapped state alone. *)

LEMMA InitRefines == Init => KV!Init
<1> SUFFICES ASSUME Init PROVE KV!Init
  OBVIOUS
<1>1. AbsStore = [k \in Keys |-> Nil]
  BY OwnerType DEF Init, AbsStore
<1>2. AbsConn = [c \in Conns |-> [pc |-> "read", n |-> 0, resp |-> KV!NoReply]]
  BY DEF Init, AbsConn, AbsRec, NoReply, KV!NoReply
<1>3. QED
  BY <1>1, <1>2, KVCommandOps DEF KV!Init, AbsStore, Init


(* A request run on the worker its shard maps to (or PING/QUIT anywhere)  *)
(* from a connection whose abstract record is at "read" with count m is   *)
(* KVStore's Request of that command, when the new record counts m + 1.   *)
LEMMA RunIsRequest ==
  ASSUME RefInv, NEW c \in Conns, NEW cmd \in Inputs, NEW w \in Workers,
         cmd.op \in {"PING", "QUIT"} \/ w = WorkerOf(ShardOf(cmd)),
         AbsConn[c].pc = "read", AbsConn[c].n < MaxReq,
         db' = [db EXCEPT ![w] = Execute(w, cmd).db],
         AbsConn' = [AbsConn EXCEPT ![c] =
                       [pc |-> IF Execute(w, cmd).reply = QuitSignal THEN "quit" ELSE "send",
                        n |-> AbsConn[c].n + 1,
                        resp |-> IF Execute(w, cmd).reply = QuitSignal THEN NoReply
                                 ELSE Execute(w, cmd).reply]],
         UNCHANGED <<sock, out>>
  PROVE  KV!Request(c, cmd)
<1>1. cmd \in Cmd
  BY RouterAssumption
<1>2. /\ [k \in Keys |-> [db EXCEPT ![w] = Execute(w, cmd).db][Owner(k)][k]]
           = KV!Apply(cmd).store
      /\ Execute(w, cmd).reply = KV!Apply(cmd).reply
  BY <1>1, ExecuteAbs DEF RefInv, TypeInv
<1>3. AbsStore' = KV!Apply(cmd).store
  BY <1>2 DEF AbsStore
<1>4. QED
  BY <1>2, <1>3, KVCommandOps DEF KV!Request, AbsStore, NoReply, KV!NoReply


(* The mapped keyspace only changes when some worker's keyspace does. *)
LEMMA AbsStoreUnchanged ==
  ASSUME UNCHANGED db
  PROVE  UNCHANGED [k \in Keys |-> db[Owner(k)][k]]
BY DEF Owner, WorkerOf

LEMMA NextRefines ==
  ASSUME NoSentinel
  PROVE  RefInv /\ [Next]_vars => [KV!Next]_KV!vars
<1> SUFFICES ASSUME RefInv, [Next]_vars PROVE [KV!Next]_KV!vars
  OBVIOUS
<1>0. TypeOK /\ KeyResidesOnOwner /\ FwdInv
  BY DEF RefInv, TypeInv
<1>1. ASSUME NEW c \in Conns, NEW cmd \in Inputs, RecvLocal(c, cmd)
      PROVE  KV!Next
  <2> DEFINE r == Execute(Home(c), cmd)
             pc2 == IF r.reply = QuitSignal THEN "quit" ELSE "send"
             resp2 == IF r.reply = QuitSignal THEN NoReply ELSE r.reply
             X == [pc |-> pc2, n |-> conn[c].n + 1, cmd |-> NoCmd, resp |-> resp2]
  <2>1. Home(c) \in Workers /\ cmd \in Cmd /\ conn[c].pc = "read" /\ conn[c].n < MaxReq
    BY <1>1, RouterAssumption, WorkerOfType DEF Home, RecvLocal, CanRead
  <2>2. cmd.op \in {"PING", "QUIT"} \/ Home(c) = WorkerOf(ShardOf(cmd))
    BY <1>1, <2>1, SentinelOnlyAnywhere DEF RecvLocal, IsLocal
  <2>3. AbsConn[c] = [pc |-> "read", n |-> conn[c].n, resp |-> conn[c].resp]
    BY <2>1 DEF AbsConn, AbsRec
  <2>4. conn' = [conn EXCEPT ![c] = X]
    BY <1>1 DEF RecvLocal
  <2>5. AbsConn' = [AbsConn EXCEPT ![c] = AbsRec(X)]
    BY <1>0, <2>4, AbsConnUpdate
  <2>6. AbsRec(X) = [pc |-> pc2, n |-> AbsConn[c].n + 1, resp |-> resp2]
    BY <2>3 DEF AbsRec
  <2>7. KV!Request(c, cmd)
    <3>1. AbsConn[c].pc = "read" /\ AbsConn[c].n < MaxReq
      BY <2>1, <2>3
    <3>2. db' = [db EXCEPT ![Home(c)] = Execute(Home(c), cmd).db] /\ UNCHANGED <<sock, out>>
      BY <1>1 DEF RecvLocal
    <3>3. AbsConn' = [AbsConn EXCEPT ![c] =
                        [pc |-> IF Execute(Home(c), cmd).reply = QuitSignal THEN "quit" ELSE "send",
                         n |-> AbsConn[c].n + 1,
                         resp |-> IF Execute(Home(c), cmd).reply = QuitSignal THEN NoReply
                                  ELSE Execute(Home(c), cmd).reply]]
      BY <2>5, <2>6
    <3>4. QED
      BY <2>1, <2>2, <3>1, <3>2, <3>3, RunIsRequest
  <2>8. QED
    BY <2>7 DEF KV!Next
<1>2. ASSUME NEW c \in Conns, NEW cmd \in Inputs, RecvForward(c, cmd)
      PROVE  UNCHANGED KV!vars
  <2> DEFINE X == [conn[c] EXCEPT !.pc = "fwd", !.n = conn[c].n + 1, !.cmd = cmd]
  <2>1. conn[c].pc = "read" /\ conn[c].n \in Nat /\ conn[c] \in ConnRec
    BY <1>0, <1>2 DEF RecvForward, CanRead, TypeOK, ConnRec
  <2>2. conn' = [conn EXCEPT ![c] = X]
    BY <1>2 DEF RecvForward
  <2>3. AbsConn' = [AbsConn EXCEPT ![c] = AbsRec(X)]
    BY <1>0, <2>2, AbsConnUpdate
  <2>4. AbsRec(X) = AbsConn[c]
    BY <2>1 DEF AbsRec, AbsConn, ConnRec
  <2>5. AbsConn' = AbsConn
    BY <2>3, <2>4 DEF AbsConn
  <2>6. QED
    BY <1>2, <2>5, AbsStoreUnchanged DEF RecvForward, KV!vars
<1>3. ASSUME NEW c \in Conns, RecvError(c)
      PROVE  KV!Next
  <2> DEFINE X == [conn[c] EXCEPT !.pc = "send", !.n = conn[c].n + 1, !.resp = BadRequest]
  <2>1. conn[c].pc = "read" /\ conn[c].n < MaxReq /\ conn[c] \in ConnRec
    BY <1>0, <1>3 DEF RecvError, CanRead, TypeOK, ConnRec
  <2>2. AbsConn[c] = [pc |-> "read", n |-> conn[c].n, resp |-> conn[c].resp]
    BY <2>1 DEF AbsConn, AbsRec
  <2>3. conn' = [conn EXCEPT ![c] = X]
    BY <1>3 DEF RecvError
  <2>4. AbsConn' = [AbsConn EXCEPT ![c] = AbsRec(X)]
    BY <1>0, <2>3, AbsConnUpdate
  <2>5. AbsRec(X) = [pc |-> "send", n |-> AbsConn[c].n + 1, resp |-> ErrReply("ERR")]
    BY <2>1, <2>2 DEF AbsRec, ConnRec, BadRequest
  <2>6. KV!Reject(c)
    <3>1. AbsConn[c].pc = "read" /\ AbsConn[c].n < MaxReq
      BY <2>1, <2>2
    <3>2. AbsConn' = [AbsConn EXCEPT ![c] = [pc |-> "send", n |-> AbsConn[c].n + 1,
                                             resp |-> KV!ErrReply("ERR")]]
      BY <2>4, <2>5, KVCommandOps
    <3>3. UNCHANGED <<[k \in Keys |-> db[Owner(k)][k]], sock, out>>
      BY <1>3, AbsStoreUnchanged DEF RecvError
    <3>4. QED
      BY <3>1, <3>2, <3>3 DEF KV!Reject
  <2>7. QED
    BY <2>6 DEF KV!Next
<1>4. ASSUME NEW c \in Conns, SendReply(c)
      PROVE  KV!Next
  <2> DEFINE pc2 == IF sock[c] THEN "read" ELSE "done"
             X == [conn[c] EXCEPT !.pc = pc2, !.resp = NoReply]
  <2>1. conn[c].pc = "send" /\ conn[c] \in ConnRec
    BY <1>0, <1>4 DEF SendReply, TypeOK, ConnRec
  <2>2. AbsConn[c] = [pc |-> "send", n |-> conn[c].n, resp |-> conn[c].resp]
    BY <2>1 DEF AbsConn, AbsRec
  <2>3. conn' = [conn EXCEPT ![c] = X]
    <3>1. CASE sock[c]
      BY <1>4, <3>1 DEF SendReply
    <3>2. CASE ~sock[c]
      BY <1>4, <3>2 DEF SendReply
    <3>3. QED
      BY <3>1, <3>2
  <2>4. out' = IF sock[c] THEN [out EXCEPT ![c] = Append(out[c], conn[c].resp)] ELSE out
    BY <1>4 DEF SendReply
  <2>5. AbsConn' = [AbsConn EXCEPT ![c] = AbsRec(X)]
    BY <1>0, <2>3, AbsConnUpdate
  <2>6. AbsRec(X) = [AbsConn[c] EXCEPT !.pc = pc2, !.resp = KV!NoReply]
    <3>1. X.pc = pc2 /\ X.n = conn[c].n /\ X.resp = NoReply
      BY <2>1 DEF ConnRec
    <3>2. pc2 # "fwd"
      OBVIOUS
    <3>3. AbsRec(X) = [pc |-> pc2, n |-> conn[c].n, resp |-> NoReply]
      BY <3>1, <3>2 DEF AbsRec
    <3>4. KV!NoReply = NoReply
      BY DEF NoReply, KV!NoReply
    <3> DEFINE Y == [AbsConn[c] EXCEPT !.pc = pc2, !.resp = NoReply]
    <3>5. Y = [pc |-> pc2, n |-> conn[c].n, resp |-> NoReply]
      <4> HIDE DEF pc2
      <4>1. Y.pc = pc2 /\ Y.n = conn[c].n /\ Y.resp = NoReply
        BY <2>2
      <4>2. DOMAIN Y = {"pc", "n", "resp"}
        BY <2>2
      <4>3. Y = [f \in DOMAIN Y |-> Y[f]]
        BY <2>2, Zenon
      <4> HIDE DEF Y
      <4>4. QED
        BY <4>1, <4>2, <4>3
    <3>6. QED
      BY <3>3, <3>4, <3>5
  <2>7. KV!Answer(c)
    <3>1. AbsConn[c].pc = "send" /\ AbsConn[c].resp = conn[c].resp
      BY <2>2
    <3>2. UNCHANGED <<[k \in Keys |-> db[Owner(k)][k]], sock>>
      BY <1>4, AbsStoreUnchanged DEF SendReply
    <3>3. AbsConn' = [AbsConn EXCEPT ![c] = [AbsConn[c] EXCEPT
                                               !.pc = IF sock[c] THEN "read" ELSE "done",
                                               !.resp = KV!NoReply]]
      BY <2>5, <2>6
    <3>4. QED
      BY <2>4, <3>1, <3>2, <3>3 DEF KV!Answer
  <2>8. QED
    BY <2>7 DEF KV!Next
<1>5. ASSUME NEW c \in Conns, QuitReply(c)
      PROVE  KV!Next
  <2> DEFINE X == [conn[c] EXCEPT !.pc = "done"]
  <2>1. conn[c].pc = "quit" /\ conn[c] \in ConnRec
    BY <1>0, <1>5 DEF QuitReply, TypeOK, ConnRec
  <2>2. AbsConn[c] = [pc |-> "quit", n |-> conn[c].n, resp |-> conn[c].resp]
    BY <2>1 DEF AbsConn, AbsRec
  <2>3. conn' = [conn EXCEPT ![c] = X]
    BY <1>5 DEF QuitReply
  <2>4. AbsConn' = [AbsConn EXCEPT ![c] = AbsRec(X)]
    BY <1>0, <2>3, AbsConnUpdate
  <2>5. AbsRec(X) = [AbsConn[c] EXCEPT !.pc = "done"]
    BY <2>1, <2>2 DEF AbsRec, ConnRec
  <2>6. KV!Bye(c)
    <3>1. AbsConn[c].pc = "quit"
      BY <2>2
    <3>2. out' = IF sock[c] THEN [out EXCEPT ![c] = Append(out[c], KV!Simple("OK"))] ELSE out
      BY <1>5, KVCommandOps DEF QuitReply
    <3>3. AbsConn' = [AbsConn EXCEPT ![c] = [AbsConn[c] EXCEPT !.pc = "done"]]
      BY <2>4, <2>5
    <3>4. UNCHANGED <<[k \in Keys |-> db[Owner(k)][k]], sock>>
      BY <1>5, AbsStoreUnchanged DEF QuitReply
    <3>5. QED
      BY <3>1, <3>2, <3>3, <3>4 DEF KV!Bye
  <2>7. QED
    BY <2>6 DEF KV!Next
<1>6. ASSUME NEW c \in Conns, Eof(c)
      PROVE  KV!Next
  <2> DEFINE X == [conn[c] EXCEPT !.pc = "done"]
  <2>1. conn[c].pc = "read" /\ conn[c] \in ConnRec
    BY <1>0, <1>6 DEF Eof, TypeOK, ConnRec
  <2>2. AbsConn[c] = [pc |-> "read", n |-> conn[c].n, resp |-> conn[c].resp]
    BY <2>1 DEF AbsConn, AbsRec
  <2>3. conn' = [conn EXCEPT ![c] = X]
    BY <1>6 DEF Eof
  <2>4. AbsConn' = [AbsConn EXCEPT ![c] = AbsRec(X)]
    BY <1>0, <2>3, AbsConnUpdate
  <2>5. AbsRec(X) = [AbsConn[c] EXCEPT !.pc = "done"]
    BY <2>1, <2>2 DEF AbsRec, ConnRec
  <2>6. KV!Hangup(c)
    <3>1. AbsConn[c].pc = "read" /\ ~sock[c]
      BY <1>6, <2>2 DEF Eof
    <3>2. AbsConn' = [AbsConn EXCEPT ![c] = [AbsConn[c] EXCEPT !.pc = "done"]]
      BY <2>4, <2>5
    <3>3. UNCHANGED <<[k \in Keys |-> db[Owner(k)][k]], sock, out>>
      BY <1>6, AbsStoreUnchanged DEF Eof
    <3>4. QED
      BY <3>1, <3>2, <3>3 DEF KV!Hangup
  <2>7. QED
    BY <2>6 DEF KV!Next
<1>7. ASSUME NEW c \in Conns, Close(c)
      PROVE  KV!Next
  <2>1. KV!Disconnect(c)
    BY <1>7, AbsStoreUnchanged DEF KV!Disconnect, Close, AbsConn
  <2>2. QED
    BY <2>1 DEF KV!Next
<1>8. ASSUME NEW w \in Workers, NEW c \in Conns, RunForwarded(w, c)
      PROVE  KV!Next
  <2> DEFINE fc == conn[c].cmd
             r == Execute(w, fc)
             X == [conn[c] EXCEPT !.pc = "send", !.cmd = NoCmd, !.resp = r.reply]
  <2>1. /\ conn[c].pc = "fwd" /\ fc \in Inputs /\ ~IsLocal(c, fc)
        /\ conn[c].n \in 1..MaxReq /\ w = WorkerOf(ShardOf(fc)) /\ conn[c] \in ConnRec
    BY <1>0, <1>8 DEF RunForwarded, Target, FwdInv, TypeOK, ConnRec
  <2>2. fc \in Cmd /\ fc.op \notin {"PING", "QUIT"}
    BY <2>1, RouterAssumption DEF IsLocal, ShardOf, IsKeyed, KeyedOps
  <2>3. r.reply # QuitSignal
    BY <1>0, <2>2, ExecuteNotQuit
  <2>4. AbsConn[c] = [pc |-> "read", n |-> conn[c].n - 1, resp |-> conn[c].resp]
    BY <2>1 DEF AbsConn, AbsRec
  <2>5. conn' = [conn EXCEPT ![c] = X]
    BY <1>8 DEF RunForwarded
  <2>6. AbsConn' = [AbsConn EXCEPT ![c] = AbsRec(X)]
    BY <1>0, <2>5, AbsConnUpdate
  <2>7. AbsRec(X) = [pc |-> IF r.reply = QuitSignal THEN "quit" ELSE "send",
                     n |-> AbsConn[c].n + 1,
                     resp |-> IF r.reply = QuitSignal THEN NoReply ELSE r.reply]
    BY <2>1, <2>3, <2>4 DEF AbsRec, ConnRec
  <2>8. PICK cm \in Inputs : cm = fc
    BY <2>1
  <2>9. KV!Request(c, cm)
    <3>1. AbsConn[c].pc = "read" /\ AbsConn[c].n < MaxReq
      BY <2>1, <2>4, RouterAssumption
    <3>2. db' = [db EXCEPT ![w] = Execute(w, cm).db] /\ UNCHANGED <<sock, out>>
      BY <1>8, <2>8 DEF RunForwarded
    <3>3. AbsConn' = [AbsConn EXCEPT ![c] =
                        [pc |-> IF Execute(w, cm).reply = QuitSignal THEN "quit" ELSE "send",
                         n |-> AbsConn[c].n + 1,
                         resp |-> IF Execute(w, cm).reply = QuitSignal THEN NoReply
                                  ELSE Execute(w, cm).reply]]
      BY <2>6, <2>7, <2>8
    <3>4. cm.op \in {"PING", "QUIT"} \/ w = WorkerOf(ShardOf(cm))
      BY <2>1, <2>8
    <3>5. QED
      BY <3>1, <3>2, <3>3, <3>4, RunIsRequest
  <2>10. QED
    BY <2>9 DEF KV!Next
<1>9. CASE UNCHANGED vars
  BY <1>9, AbsStoreUnchanged DEF vars, KV!vars, AbsConn
<1>10. QED
  BY <1>1, <1>2, <1>3, <1>4, <1>5, <1>6, <1>7, <1>8, <1>9 DEF Next, Finished

(***************************************************************************)
(* The router implements KVStore when no key hashes to u64::MAX: every    *)
(* behaviour of conn.rs over the worker pool, with its fast path and its   *)
(* spawn_on slow path, is a behaviour of one global keyspace where each    *)
(* request takes effect atomically between its read and its reply and      *)
(* replies come in request order (the property KVSpec run router_safety    *)
(* checks on two workers and two connections).                            *)
(***************************************************************************)
THEOREM RouterRefinesKVStore ==
  ASSUME NoSentinel
  PROVE  Spec => KVSpec
<1>1. Init => KV!Init
  BY InitRefines
<1>2. RefInv /\ [Next]_vars => [KV!Next]_KV!vars
  BY NextRefines
<1>3. Spec => []RefInv
  BY RefInvariant
<1>4. QED
  BY <1>1, <1>2, <1>3, PTL DEF Spec, KVSpec, KV!Spec

=============================================================================
