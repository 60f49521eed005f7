---------------------------- MODULE RouterProofs ----------------------------
(***************************************************************************)
(* Proofs about module Router, for every number of workers, connections,   *)
(* keys, values, integer width and hash function the assumptions allow.   *)
(*                                                                         *)
(* TypeOK is not inductive as it stands: a connection about to write must *)
(* hold a reply, not NoReply, and one awaiting a forwarded exec must hold  *)
(* the parsed command.  TypeInv adds those two facts.                      *)
(***************************************************************************)
EXTENDS Router, CommandProofs, TLAPS

TypeInv ==
  /\ TypeOK
  /\ \A c \in Conns : conn[c].pc = "send" => conn[c].resp \in Reply
  /\ \A c \in Conns : conn[c].pc = "fwd" => conn[c].cmd \in Cmd

-----------------------------------------------------------------------------
(* Lemmas on the pool. *)

(* A worker number computed from any shard is a worker of the pool. *)
LEMMA WorkerOfType ==
  ASSUME NEW s \in Int
  PROVE  WorkerOf(s) \in Workers
BY RouterAssumption DEF WorkerOf, Workers

(* database::execute on a worker keeps its keyspace typed and replies. *)
LEMMA ExecuteType ==
  ASSUME TypeOK, NEW w \in Workers, NEW cmd \in Cmd
  PROVE  /\ Execute(w, cmd).db \in [Keys -> Entry]
         /\ Execute(w, cmd).reply \in Reply
<1>1. db[w] \in [Keys -> Entry]
  BY DEF TypeOK
<1>2. CASE IsKeyed(cmd)
  <2>1. cmd.key \in Keys
    BY <1>2 DEF Cmd, IsKeyed, KeyedOps
  <2>2. /\ ExecKeyed(db[w][cmd.key], cmd).val \in Entry
        /\ ExecKeyed(db[w][cmd.key], cmd).reply \in Reply
    BY <1>1, <1>2, <2>1, ExecKeyedType
  <2>3. QED
    BY <1>1, <1>2, <2>1, <2>2 DEF Execute
<1>3. CASE ~IsKeyed(cmd)
  BY <1>1, <1>3, ExecKeylessType DEF Execute
<1>4. QED
  BY <1>2, <1>3

-----------------------------------------------------------------------------
(* Type correctness of the router. *)

ConnRec == [pc : PC, n : 0..MaxReq, cmd : Cmd \cup {NoCmd}, resp : Reply \cup {NoReply}]

(* Replacing one connection's record by a well-typed one keeps conn typed. *)
LEMMA ConnUpdate ==
  ASSUME TypeOK, NEW c \in Conns, NEW x \in ConnRec
  PROVE  [conn EXCEPT ![c] = x] \in [Conns -> ConnRec]
BY DEF TypeOK, ConnRec

LEMMA InitTypeInv == Init => TypeInv
BY RouterAssumption DEF Init, TypeInv, TypeOK, Entry, PC, NoCmd, NoReply

LEMMA NextTypeInv == TypeInv /\ [Next]_vars => TypeInv'
<1> SUFFICES ASSUME TypeInv, [Next]_vars PROVE TypeInv'
  OBVIOUS
<1> USE DEF TypeInv
<1>1. ASSUME NEW c \in Conns, NEW cmd \in Inputs, RecvLocal(c, cmd)
      PROVE  TypeInv'
  <2> DEFINE r == Execute(Home(c), cmd)
  <2>1. Home(c) \in Workers
    BY RouterAssumption, WorkerOfType DEF Home
  <2>2. r.db \in [Keys -> Entry] /\ r.reply \in Reply
    BY <2>1, ExecuteType, RouterAssumption
  <2>3. db' \in [Workers -> [Keys -> Entry]]
    BY <1>1, <2>1, <2>2 DEF RecvLocal, TypeOK
  <2>4. conn[c].n + 1 \in 0..MaxReq
    BY <1>1, RouterAssumption DEF RecvLocal, CanRead, TypeOK
  <2>5. conn' = [conn EXCEPT ![c] =
                   [pc |-> IF r.reply = QuitSignal THEN "quit" ELSE "send",
                    n |-> conn[c].n + 1, cmd |-> NoCmd,
                    resp |-> IF r.reply = QuitSignal THEN NoReply ELSE r.reply]]
    BY <1>1 DEF RecvLocal
  <2>6. QED
    BY <1>1, <2>2, <2>3, <2>4, <2>5 DEF RecvLocal, TypeOK, PC
<1>2. ASSUME NEW c \in Conns, NEW cmd \in Inputs, RecvForward(c, cmd)
      PROVE  TypeInv'
  <2>1. conn[c] \in ConnRec /\ cmd \in Cmd
    BY RouterAssumption DEF TypeOK, ConnRec
  <2>2. conn[c].n + 1 \in 0..MaxReq
    BY <1>2, RouterAssumption DEF RecvForward, CanRead, TypeOK
  <2>3. [conn[c] EXCEPT !.pc = "fwd", !.n = conn[c].n + 1, !.cmd = cmd] \in ConnRec
    BY <2>1, <2>2 DEF ConnRec, PC
  <2>4. conn' = [conn EXCEPT ![c] = [conn[c] EXCEPT !.pc = "fwd", !.n = conn[c].n + 1,
                                                    !.cmd = cmd]]
    BY <1>2 DEF RecvForward
  <2>5. QED
    BY <1>2, <2>1, <2>3, <2>4, ConnUpdate DEF RecvForward, TypeOK, ConnRec
<1>3. ASSUME NEW c \in Conns, RecvError(c)
      PROVE  TypeInv'
  <2>1. BadRequest \in Reply
    BY DEF BadRequest, ErrReply, Reply
  <2>2. conn[c] \in ConnRec
    BY DEF TypeOK, ConnRec
  <2>3. conn[c].n + 1 \in 0..MaxReq
    BY <1>3, RouterAssumption DEF RecvError, CanRead, TypeOK
  <2>4. [conn[c] EXCEPT !.pc = "send", !.n = conn[c].n + 1, !.resp = BadRequest] \in ConnRec
    BY <2>1, <2>2, <2>3 DEF ConnRec, PC
  <2>5. conn' = [conn EXCEPT ![c] = [conn[c] EXCEPT !.pc = "send", !.n = conn[c].n + 1,
                                                    !.resp = BadRequest]]
    BY <1>3 DEF RecvError
  <2>6. QED
    BY <1>3, <2>1, <2>4, <2>5, ConnUpdate DEF RecvError, TypeOK, ConnRec
<1>4. ASSUME NEW c \in Conns, SendReply(c)
      PROVE  TypeInv'
  <2>1. conn[c] \in ConnRec
    BY DEF TypeOK, ConnRec
  <2>2. CASE sock[c]
    <3>1. [conn[c] EXCEPT !.pc = "read", !.resp = NoReply] \in ConnRec
      BY <2>1 DEF ConnRec, PC
    <3>2. conn' = [conn EXCEPT ![c] = [conn[c] EXCEPT !.pc = "read", !.resp = NoReply]]
      BY <1>4, <2>2 DEF SendReply
    <3>3. out' = [out EXCEPT ![c] = Append(out[c], conn[c].resp)]
      BY <1>4, <2>2 DEF SendReply
    <3>4. QED
      BY <1>4, <3>1, <3>2, <3>3, ConnUpdate DEF SendReply, TypeOK, ConnRec
  <2>3. CASE ~sock[c]
    <3>1. [conn[c] EXCEPT !.pc = "done", !.resp = NoReply] \in ConnRec
      BY <2>1 DEF ConnRec, PC
    <3>2. conn' = [conn EXCEPT ![c] = [conn[c] EXCEPT !.pc = "done", !.resp = NoReply]]
      BY <1>4, <2>3 DEF SendReply
    <3>3. QED
      BY <1>4, <2>3, <3>1, <3>2, ConnUpdate DEF SendReply, TypeOK, ConnRec
  <2>4. QED
    BY <2>2, <2>3
<1>5. ASSUME NEW c \in Conns, QuitReply(c)
      PROVE  TypeInv'
  <2>1. Simple("OK") \in Reply
    BY DEF Simple, Reply
  <2>2. [conn[c] EXCEPT !.pc = "done"] \in ConnRec
    BY DEF TypeOK, ConnRec, PC
  <2>3. conn' = [conn EXCEPT ![c] = [conn[c] EXCEPT !.pc = "done"]]
    BY <1>5 DEF QuitReply
  <2>4. out' \in [Conns -> Seq(Reply)]
    BY <1>5, <2>1 DEF QuitReply, TypeOK
  <2>5. QED
    BY <1>5, <2>2, <2>3, <2>4, ConnUpdate DEF QuitReply, TypeOK, ConnRec
<1>6. ASSUME NEW c \in Conns, Eof(c)
      PROVE  TypeInv'
  <2>1. [conn[c] EXCEPT !.pc = "done"] \in ConnRec
    BY DEF TypeOK, ConnRec, PC
  <2>2. conn' = [conn EXCEPT ![c] = [conn[c] EXCEPT !.pc = "done"]]
    BY <1>6 DEF Eof
  <2>3. QED
    BY <1>6, <2>1, <2>2, ConnUpdate DEF Eof, TypeOK, ConnRec
<1>7. ASSUME NEW c \in Conns, Close(c)
      PROVE  TypeInv'
  BY <1>7 DEF Close, TypeOK
<1>8. ASSUME NEW w \in Workers, NEW c \in Conns, RunForwarded(w, c)
      PROVE  TypeInv'
  <2> DEFINE r == Execute(w, conn[c].cmd)
  <2>1. r.db \in [Keys -> Entry] /\ r.reply \in Reply
    BY <1>8, ExecuteType DEF RunForwarded
  <2>2. db' \in [Workers -> [Keys -> Entry]]
    BY <1>8, <2>1 DEF RunForwarded, TypeOK
  <2>3. [conn[c] EXCEPT !.pc = "send", !.cmd = NoCmd, !.resp = r.reply] \in ConnRec
    <3>1. conn[c] \in ConnRec
      BY DEF TypeOK, ConnRec
    <3>2. QED
      BY <2>1, <3>1 DEF ConnRec, PC, NoCmd
  <2>4. conn' = [conn EXCEPT ![c] = [conn[c] EXCEPT !.pc = "send", !.cmd = NoCmd,
                                                    !.resp = r.reply]]
    BY <1>8 DEF RunForwarded
  <2>5. conn' \in [Conns -> ConnRec]
    BY <2>3, <2>4, ConnUpdate
  <2>6. conn'[c].pc = "send" /\ conn'[c].resp \in Reply
    BY <2>1, <2>4 DEF TypeOK
  <2>7. \A d \in Conns \ {c} : conn'[d] = conn[d]
    BY <2>4
  <2>8. QED
    BY <1>8, <2>2, <2>5, <2>6, <2>7 DEF RunForwarded, TypeOK, ConnRec
<1>9. CASE Finished
  BY <1>9 DEF Finished, vars, TypeOK
<1>10. CASE UNCHANGED vars
  BY <1>10 DEF vars, TypeOK
<1>11. QED
  BY <1>1, <1>2, <1>3, <1>4, <1>5, <1>6, <1>7, <1>8, <1>9, <1>10 DEF Next

(***************************************************************************)
(* Type correctness: whatever requests arrive and however the connections  *)
(* and the workers interleave, every keyspace holds entries of the right   *)
(* type (i64 arithmetic of INCR stays in range), every connection is at a  *)
(* place of its loop with a request count within its bound, and only      *)
(* replies are ever written to a socket.                                   *)
(***************************************************************************)
THEOREM TypeCorrect == Spec => []TypeOK
<1>1. TypeInv => TypeOK
  BY DEF TypeInv
<1>2. QED
  BY <1>1, InitTypeInv, NextTypeInv, PTL DEF Spec

-----------------------------------------------------------------------------
(* Sharding. *)

(* A keyed command's shard is its key's hash. *)
LEMMA KeyedShardOf ==
  ASSUME NEW cmd \in Cmd, IsKeyed(cmd)
  PROVE  ShardOf(cmd) = Hash[cmd.key]
BY DEF ShardOf, KeyedShard

(* An exec touches no entry but its own key's, and a keyless one none. *)
LEMMA ExecuteFrame ==
  ASSUME TypeOK, NEW w \in Workers, NEW cmd \in Cmd, NEW k \in Keys,
         ~IsKeyed(cmd) \/ k # cmd.key
  PROVE  Execute(w, cmd).db[k] = db[w][k]
BY DEF Execute, TypeOK

(* An exec on the key's owner keeps KeyResidesOnOwner, whatever it does. *)
LEMMA ExecOnOwner ==
  ASSUME TypeOK, KeyResidesOnOwner, NEW w \in Workers, NEW cmd \in Cmd,
         IsKeyed(cmd) => w = Owner(cmd.key),
         NEW v \in Workers, NEW k \in Keys,
         [db EXCEPT ![w] = Execute(w, cmd).db][v][k] # Nil
  PROVE  v = Owner(k)
<1>1. CASE v = w /\ IsKeyed(cmd) /\ k = cmd.key
  BY <1>1
<1>2. CASE v = w /\ ~(IsKeyed(cmd) /\ k = cmd.key)
  <2>1. Execute(w, cmd).db[k] = db[w][k]
    BY <1>2, ExecuteFrame
  <2>2. db[w][k] # Nil
    BY <1>2, <2>1 DEF TypeOK
  <2>3. QED
    BY <1>2, <2>2 DEF KeyResidesOnOwner
<1>3. CASE v # w
  BY <1>3 DEF KeyResidesOnOwner, TypeOK
<1>4. QED
  BY <1>1, <1>2, <1>3

LEMMA NextSharding ==
  ASSUME \A k \in Keys : Hash[k] # MaxU64
  PROVE  TypeInv /\ KeyResidesOnOwner /\ [Next]_vars => KeyResidesOnOwner'
<1> SUFFICES ASSUME TypeInv, KeyResidesOnOwner, [Next]_vars
             PROVE  KeyResidesOnOwner'
  OBVIOUS
<1>1. ASSUME NEW c \in Conns, NEW cmd \in Inputs, RecvLocal(c, cmd)
      PROVE  KeyResidesOnOwner'
  <2>1. Home(c) \in Workers /\ cmd \in Cmd
    BY RouterAssumption, WorkerOfType DEF Home
  <2>2. IsKeyed(cmd) => Home(c) = Owner(cmd.key)
    BY <1>1, <2>1, KeyedShardOf DEF RecvLocal, IsLocal, Owner, Cmd, IsKeyed, KeyedOps
  <2>3. db' = [db EXCEPT ![Home(c)] = Execute(Home(c), cmd).db]
    BY <1>1 DEF RecvLocal
  <2>4. QED
    BY <2>1, <2>2, <2>3, ExecOnOwner DEF KeyResidesOnOwner, TypeInv
<1>2. ASSUME NEW w \in Workers, NEW c \in Conns, RunForwarded(w, c)
      PROVE  KeyResidesOnOwner'
  <2>1. conn[c].cmd \in Cmd
    BY <1>2 DEF RunForwarded, TypeInv
  <2>2. IsKeyed(conn[c].cmd) => w = Owner(conn[c].cmd.key)
    BY <1>2, <2>1, KeyedShardOf DEF RunForwarded, Target, Owner
  <2>3. db' = [db EXCEPT ![w] = Execute(w, conn[c].cmd).db]
    BY <1>2 DEF RunForwarded
  <2>4. QED
    BY <2>1, <2>2, <2>3, ExecOnOwner DEF KeyResidesOnOwner, TypeInv
<1>3. UNCHANGED db => KeyResidesOnOwner'
  BY DEF KeyResidesOnOwner
<1>4. QED
  BY <1>1, <1>2, <1>3 DEF Next, vars, RecvForward, RecvError, SendReply, QuitReply,
                           Eof, Close, Finished

(***************************************************************************)
(* Sharding is correct when no key hashes to u64::MAX: every key present   *)
(* in a worker's keyspace is on the worker its hash maps to, because the   *)
(* fast path of conn.rs only executes a keyed request on its owner and     *)
(* the slow path spawns it there.  With a key whose SeaHash is u64::MAX    *)
(* the fast path takes the key for "any worker" and the theorem fails      *)
(* (run router_sentinel shows it).                                         *)
(***************************************************************************)
THEOREM ShardingCorrect ==
  ASSUME \A k \in Keys : Hash[k] # MaxU64
  PROVE  Spec => []KeyResidesOnOwner
<1>1. Init => KeyResidesOnOwner
  BY DEF Init, KeyResidesOnOwner
<1>2. TypeInv /\ KeyResidesOnOwner /\ [Next]_vars => (TypeInv /\ KeyResidesOnOwner)'
  BY NextTypeInv, NextSharding
<1>3. QED
  BY <1>1, <1>2, InitTypeInv, PTL DEF Spec

-----------------------------------------------------------------------------
(* Replies and requests. *)

(* RepliesAnswerRequests for one connection. *)
RepliesOf(c) ==
  /\ Len(out[c]) <= conn[c].n
  /\ sock[c] => Len(out[c]) = conn[c].n - InFlight(c)

(* A step that leaves connection c's loop, socket and replies alone keeps *)
(* its count of replies.                                                  *)
LEMMA RepliesFrame ==
  ASSUME NEW c \in Conns, RepliesOf(c),
         conn'[c] = conn[c], out'[c] = out[c], sock'[c] = sock[c]
  PROVE  RepliesOf(c)'
BY DEF RepliesOf, InFlight

(* Every step keeps the count of replies of every connection: a read      *)
(* counts a request and puts it in flight, writing its reply takes it out, *)
(* and a closed socket only stops replies.                                *)
LEMMA NextReplies ==
  TypeInv /\ RepliesAnswerRequests /\ [Next]_vars => RepliesAnswerRequests'
<1> SUFFICES ASSUME TypeInv, RepliesAnswerRequests, [Next]_vars, NEW d \in Conns
             PROVE  RepliesOf(d)'
  BY DEF RepliesAnswerRequests, RepliesOf
<1>0. /\ RepliesOf(d) /\ conn[d] \in ConnRec /\ out[d] \in Seq(Reply)
      /\ sock[d] \in BOOLEAN
  BY DEF RepliesAnswerRequests, RepliesOf, TypeInv, TypeOK, ConnRec
<1>1. ASSUME NEW c \in Conns, NEW cmd \in Inputs, RecvLocal(c, cmd)
      PROVE  RepliesOf(d)'
  <2>1. CASE d # c
    <3>1. conn'[d] = conn[d] /\ out'[d] = out[d] /\ sock'[d] = sock[d]
      BY <1>1, <2>1 DEF RecvLocal
    <3>2. QED
      BY <1>0, <3>1, RepliesFrame
  <2>2. CASE d = c
    <3>3. conn[d].pc = "read" /\ out'[d] = out[d] /\ sock'[d] = sock[d]
      BY <1>1, <2>2 DEF RecvLocal, CanRead
    <3>4. conn'[d].n = conn[d].n + 1 /\ conn'[d].pc \in {"send", "quit"}
      BY <1>0, <1>1, <2>2 DEF RecvLocal, TypeInv, TypeOK
    <3>5. QED
      BY <1>0, <3>3, <3>4 DEF RepliesOf, InFlight, ConnRec
  <2>6. QED
    BY <2>1, <2>2
<1>2. ASSUME NEW c \in Conns, NEW cmd \in Inputs, RecvForward(c, cmd)
      PROVE  RepliesOf(d)'
  <2>1. CASE d # c
    <3>1. conn'[d] = conn[d] /\ out'[d] = out[d] /\ sock'[d] = sock[d]
      BY <1>2, <2>1 DEF RecvForward
    <3>2. QED
      BY <1>0, <3>1, RepliesFrame
  <2>2. CASE d = c
    <3>3. conn[d].pc = "read" /\ out'[d] = out[d] /\ sock'[d] = sock[d]
      BY <1>2, <2>2 DEF RecvForward, CanRead
    <3>4. conn'[d].n = conn[d].n + 1 /\ conn'[d].pc = "fwd"
      BY <1>0, <1>2, <2>2 DEF RecvForward, ConnRec, TypeInv, TypeOK
    <3>5. QED
      BY <1>0, <3>3, <3>4 DEF RepliesOf, InFlight, ConnRec
  <2>6. QED
    BY <2>1, <2>2
<1>3. ASSUME NEW c \in Conns, RecvError(c)
      PROVE  RepliesOf(d)'
  <2>1. CASE d # c
    <3>1. conn'[d] = conn[d] /\ out'[d] = out[d] /\ sock'[d] = sock[d]
      BY <1>3, <2>1 DEF RecvError
    <3>2. QED
      BY <1>0, <3>1, RepliesFrame
  <2>2. CASE d = c
    <3>3. conn[d].pc = "read" /\ out'[d] = out[d] /\ sock'[d] = sock[d]
      BY <1>3, <2>2 DEF RecvError, CanRead
    <3>4. conn'[d].n = conn[d].n + 1 /\ conn'[d].pc = "send"
      BY <1>0, <1>3, <2>2 DEF RecvError, ConnRec, TypeInv, TypeOK
    <3>5. QED
      BY <1>0, <3>3, <3>4 DEF RepliesOf, InFlight, ConnRec
  <2>6. QED
    BY <2>1, <2>2
<1>4. ASSUME NEW c \in Conns, SendReply(c)
      PROVE  RepliesOf(d)'
  <2>1. CASE sock[c]
    <3>1. /\ conn' = [conn EXCEPT ![c] = [conn[c] EXCEPT !.pc = "read", !.resp = NoReply]]
          /\ out' = [out EXCEPT ![c] = Append(out[c], conn[c].resp)]
          /\ sock' = sock /\ conn[c].pc = "send"
      BY <1>4, <2>1 DEF SendReply
    <3>2. CASE d # c
      <4>1. conn'[d] = conn[d] /\ out'[d] = out[d] /\ sock'[d] = sock[d]
        BY <3>1, <3>2
      <4>2. QED
        BY <1>0, <4>1, RepliesFrame
    <3>3. CASE d = c
      <4>1. conn'[d].n = conn[d].n /\ conn'[d].pc = "read"
        BY <1>0, <3>1, <3>3 DEF TypeInv, TypeOK, ConnRec
      <4>2. Len(out'[d]) = Len(out[d]) + 1
        <5>1. out'[d] = Append(out[d], conn[d].resp)
          BY <3>1, <3>3 DEF TypeInv, TypeOK
        <5>2. QED
          BY <1>0, <5>1
      <4>3. QED
        BY <1>0, <2>1, <3>1, <3>3, <4>1, <4>2 DEF RepliesOf, InFlight, ConnRec
    <3>4. QED
      BY <3>2, <3>3
  <2>2. CASE ~sock[c]
    <3>1. /\ conn' = [conn EXCEPT ![c] = [conn[c] EXCEPT !.pc = "done", !.resp = NoReply]]
          /\ out' = out /\ sock' = sock
      BY <1>4, <2>2 DEF SendReply
    <3>2. CASE d # c
      <4>1. conn'[d] = conn[d] /\ out'[d] = out[d] /\ sock'[d] = sock[d]
        BY <3>1, <3>2
      <4>2. QED
        BY <1>0, <4>1, RepliesFrame
    <3>3. CASE d = c
      <4>1. conn'[d].n = conn[d].n
        BY <1>0, <3>1, <3>3 DEF TypeInv, TypeOK, ConnRec
      <4>2. QED
        BY <1>0, <2>2, <3>1, <3>3, <4>1 DEF RepliesOf
    <3>4. QED
      BY <3>2, <3>3
  <2>3. QED
    BY <2>1, <2>2
<1>5. ASSUME NEW c \in Conns, QuitReply(c)
      PROVE  RepliesOf(d)'
  <2>1. CASE d # c
    <3>1. conn'[d] = conn[d] /\ out'[d] = out[d] /\ sock'[d] = sock[d]
      BY <1>5, <2>1 DEF QuitReply
    <3>2. QED
      BY <1>0, <3>1, RepliesFrame
  <2>2. CASE d = c /\ sock[c]
    <3>3. conn[d].pc = "quit" /\ sock'[d] = sock[d]
      BY <1>5, <2>2 DEF QuitReply
    <3>4. out'[d] = Append(out[d], Simple("OK"))
      BY <1>5, <2>2 DEF QuitReply, TypeInv, TypeOK
    <3>5. conn'[d].n = conn[d].n /\ conn'[d].pc = "done"
      BY <1>0, <1>5, <2>2 DEF QuitReply, ConnRec, TypeInv, TypeOK
    <3>6. Len(out'[d]) = Len(out[d]) + 1
      BY <1>0, <3>4
    <3>7. QED
      BY <1>0, <2>2, <3>3, <3>5, <3>6 DEF RepliesOf, InFlight, ConnRec
  <2>8. CASE d = c /\ ~sock[c]
    <3>9. out'[d] = out[d] /\ sock'[d] = sock[d]
      BY <1>5, <2>8 DEF QuitReply
    <3>10. conn'[d].n = conn[d].n
      BY <1>0, <1>5, <2>8 DEF QuitReply, ConnRec, TypeInv, TypeOK
    <3>11. QED
      BY <1>0, <2>8, <3>9, <3>10 DEF RepliesOf
  <2>12. QED
    BY <2>1, <2>2, <2>8
<1>6. ASSUME NEW c \in Conns, Eof(c)
      PROVE  RepliesOf(d)'
  <2>1. CASE d # c
    <3>1. conn'[d] = conn[d] /\ out'[d] = out[d] /\ sock'[d] = sock[d]
      BY <1>6, <2>1 DEF Eof
    <3>2. QED
      BY <1>0, <3>1, RepliesFrame
  <2>2. CASE d = c
    <3>3. ~sock[d] /\ out'[d] = out[d] /\ sock'[d] = sock[d]
      BY <1>6, <2>2 DEF Eof
    <3>4. conn'[d].n = conn[d].n
      BY <1>0, <1>6, <2>2 DEF Eof, ConnRec, TypeInv, TypeOK
    <3>5. QED
      BY <1>0, <3>3, <3>4 DEF RepliesOf
  <2>6. QED
    BY <2>1, <2>2
<1>7. ASSUME NEW c \in Conns, Close(c)
      PROVE  RepliesOf(d)'
  <2>1. CASE d # c
    <3>1. conn'[d] = conn[d] /\ out'[d] = out[d] /\ sock'[d] = sock[d]
      BY <1>7, <2>1 DEF Close
    <3>2. QED
      BY <1>0, <3>1, RepliesFrame
  <2>2. CASE d = c
    <3>3. ~sock'[d] /\ out'[d] = out[d] /\ conn'[d] = conn[d]
      BY <1>7, <2>2 DEF Close, TypeInv, TypeOK
    <3>4. QED
      BY <1>0, <3>3 DEF RepliesOf
  <2>5. QED
    BY <2>1, <2>2
<1>8. ASSUME NEW w \in Workers, NEW c \in Conns, RunForwarded(w, c)
      PROVE  RepliesOf(d)'
  <2>1. CASE d # c
    <3>1. conn'[d] = conn[d] /\ out'[d] = out[d] /\ sock'[d] = sock[d]
      BY <1>8, <2>1 DEF RunForwarded
    <3>2. QED
      BY <1>0, <3>1, RepliesFrame
  <2>2. CASE d = c
    <3>3. conn[d].pc = "fwd" /\ out'[d] = out[d] /\ sock'[d] = sock[d]
      BY <1>8, <2>2 DEF RunForwarded
    <3>4. conn'[d].n = conn[d].n /\ conn'[d].pc = "send"
      BY <1>0, <1>8, <2>2 DEF RunForwarded, ConnRec, TypeInv, TypeOK
    <3>5. QED
      BY <1>0, <3>3, <3>4 DEF RepliesOf, InFlight
  <2>6. QED
    BY <2>1, <2>2
<1>9. CASE Finished \/ UNCHANGED vars
  BY <1>0, <1>9, RepliesFrame DEF Finished, vars
<1>10. QED
  BY <1>1, <1>2, <1>3, <1>4, <1>5, <1>6, <1>7, <1>8, <1>9 DEF Next

(***************************************************************************)
(* Pipelining: for every pool size and number of connections, while a      *)
(* client is connected the loop of conn.rs has written exactly one reply   *)
(* for each request it read, except the one in flight, whether that one    *)
(* ran on the fast path, was forwarded to its owner, or was QUIT; once the *)
(* client is gone no reply is written beyond the requests read.           *)
(***************************************************************************)
THEOREM RepliesMatchRequests == Spec => []RepliesAnswerRequests
<1>1. Init => RepliesAnswerRequests
  BY DEF Init, RepliesAnswerRequests, InFlight
<1>2. TypeInv /\ RepliesAnswerRequests /\ [Next]_vars
        => (TypeInv /\ RepliesAnswerRequests)'
  BY NextTypeInv, NextReplies
<1>3. QED
  BY <1>1, <1>2, InitTypeInv, PTL DEF Spec

=============================================================================
