------------------------------ MODULE Router ------------------------------
(***************************************************************************)
(* The shard router of mkii: the connection loop of src/conn.rs over the   *)
(* worker pool, with one keyspace per worker (the thread-local DB of       *)
(* src/database.rs).                                                       *)
(*                                                                         *)
(* Connection c runs as a task on worker c % N.  Each turn of its loop it  *)
(* reads one request; a request whose shard maps to its own worker, or    *)
(* whose shard is u64::MAX, executes there at once (fast path); any other  *)
(* is spawned on the owning worker and the connection awaits the one-shot  *)
(* reply (slow path).  Then it writes the reply.  A worker's tasks never   *)
(* interleave inside exec, which does not suspend, so each exec is one     *)
(* step.  The client may close its socket at any time; requests it sent    *)
(* before may still be read.                                               *)
(***************************************************************************)
EXTENDS Command

CONSTANTS
  N,        \* number of workers of the pool
  Conns,    \* connection numbers (conn_no of main.rs)
  Inputs,   \* the parsed requests clients send
  MaxReq    \* requests one client sends, at most

ASSUME RouterAssumption ==
  /\ N \in Nat \ {0}
  /\ Conns \subseteq Nat
  /\ Inputs \subseteq Cmd
  /\ MaxReq \in Nat

VARIABLES
  db,     \* db[w]: the keyspace of worker w
  conn,   \* conn[c]: where connection task c is in its loop
  sock,   \* sock[c]: the client has not closed its socket
  out     \* out[c]: the replies written to connection c, in order

vars == <<db, conn, sock, out>>

Workers == 0..(N - 1)

(* tokio_io_pool's worker_id / spawn_on: a shard picks worker shard % N. *)
WorkerOf(s) == s % N

(* The worker connection c is spawned on (conn::new, spawn_on(conn_no)). *)
Home(c) == WorkerOf(c)

(* The worker that owns a key. *)
Owner(k) == WorkerOf(Hash[k])

NoCmd == [op |-> "none"]
NoReply == [t |-> "none"]

(* The reply written for a request that fails to decode or to parse. *)
BadRequest == ErrReply("ERR")

PC == {"read", "fwd", "send", "quit", "done"}

TypeOK ==
  /\ db \in [Workers -> [Keys -> Entry]]
  /\ conn \in [Conns -> [pc : PC, n : 0..MaxReq, cmd : Cmd \cup {NoCmd},
                         resp : Reply \cup {NoReply}]]
  /\ sock \in [Conns -> BOOLEAN]
  /\ out \in [Conns -> Seq(Reply)]

Init ==
  /\ db = [w \in Workers |-> [k \in Keys |-> Nil]]
  /\ conn = [c \in Conns |-> [pc |-> "read", n |-> 0, cmd |-> NoCmd, resp |-> NoReply]]
  /\ sock = [c \in Conns |-> TRUE]
  /\ out = [c \in Conns |-> <<>>]

(***************************************************************************)
(* database::execute on worker w: the whole exec of cmd against db[w],     *)
(* returning the new keyspace and the reply.                               *)
(***************************************************************************)
Execute(w, cmd) ==
  IF IsKeyed(cmd)
  THEN LET r == ExecKeyed(db[w][cmd.key], cmd)
       IN  [db |-> [db[w] EXCEPT ![cmd.key] = r.val], reply |-> r.reply]
  ELSE [db |-> db[w], reply |-> ExecKeyless(db[w], cmd)]

(* Mutant: every keyless command treated as "any worker", KEYS included.  *)
IsLocalKeylessAnywhere(c, cmd) ==
  WorkerOf(ShardOf(cmd)) = Home(c) \/ ~IsKeyed(cmd)

(* The fast-path test of conn.rs. *)
IsLocal(c, cmd) ==
  WorkerOf(ShardOf(cmd)) = Home(c) \/ ShardOf(cmd) = MaxU64

CanRead(c) == conn[c].pc = "read" /\ conn[c].n < MaxReq

(***************************************************************************)
(* One turn of the loop up to the reply, for a request that runs here.     *)
(* Error::Quit breaks out of the loop to answer +OK.                       *)
(***************************************************************************)
RecvLocal(c, cmd) ==
  /\ CanRead(c)
  /\ IsLocal(c, cmd)
  /\ LET r == Execute(Home(c), cmd)
     IN  /\ db' = [db EXCEPT ![Home(c)] = r.db]
         /\ conn' = [conn EXCEPT ![c] =
                       [pc |-> IF r.reply = QuitSignal THEN "quit" ELSE "send",
                        n |-> @.n + 1, cmd |-> NoCmd,
                        resp |-> IF r.reply = QuitSignal THEN NoReply ELSE r.reply]]
  /\ UNCHANGED <<sock, out>>

(* The slow path: spawn exec on the owning worker and await the reply. *)
RecvForward(c, cmd) ==
  /\ CanRead(c)
  /\ ~IsLocal(c, cmd)
  /\ conn' = [conn EXCEPT ![c] = [@ EXCEPT !.pc = "fwd", !.n = conn[c].n + 1, !.cmd = cmd]]
  /\ UNCHANGED <<db, sock, out>>

(* A frame that fails to decode, or a request process_req rejects. *)
RecvError(c) ==
  /\ CanRead(c)
  /\ conn' = [conn EXCEPT ![c] = [@ EXCEPT !.pc = "send", !.n = conn[c].n + 1,
                                            !.resp = BadRequest]]
  /\ UNCHANGED <<db, sock, out>>

(* Mutant: the task spawned on the connection's own worker.              *)
TargetHome(c) == Home(c)

(* Mutant: spawn_on given the shard itself, not reduced to a worker.      *)
TargetUnreduced(c) == ShardOf(conn[c].cmd)

(* spawn_on(shard, fut): the worker the forwarded exec is queued on. *)
Target(c) == WorkerOf(ShardOf(conn[c].cmd))

(* Mutant: the one-shot reply lost, the connection reading on.            *)
RunForwardedNoReply(w, c) ==
  /\ conn[c].pc = "fwd"
  /\ Target(c) = w
  /\ db' = [db EXCEPT ![w] = Execute(w, conn[c].cmd).db]
  /\ conn' = [conn EXCEPT ![c] = [@ EXCEPT !.pc = "read", !.cmd = NoCmd]]
  /\ UNCHANGED <<sock, out>>

(* The spawned task runs on worker w and completes the one-shot channel. *)
RunForwarded(w, c) ==
  /\ conn[c].pc = "fwd"
  /\ Target(c) = w
  /\ LET r == Execute(w, conn[c].cmd)
     IN  /\ db' = [db EXCEPT ![w] = r.db]
         /\ conn' = [conn EXCEPT ![c] = [@ EXCEPT !.pc = "send", !.cmd = NoCmd,
                                                  !.resp = r.reply]]
  /\ UNCHANGED <<sock, out>>

(* resp_out.send: a failed write ends the task silently. *)
SendReply(c) ==
  /\ conn[c].pc = "send"
  /\ IF sock[c]
     THEN /\ out' = [out EXCEPT ![c] = Append(@, conn[c].resp)]
          /\ conn' = [conn EXCEPT ![c] = [@ EXCEPT !.pc = "read", !.resp = NoReply]]
     ELSE /\ conn' = [conn EXCEPT ![c] = [@ EXCEPT !.pc = "done", !.resp = NoReply]]
          /\ UNCHANGED out
  /\ UNCHANGED <<db, sock>>

(* After QUIT: send +OK, ignoring the result, and end. *)
QuitReply(c) ==
  /\ conn[c].pc = "quit"
  /\ out' = IF sock[c] THEN [out EXCEPT ![c] = Append(@, Simple("OK"))] ELSE out
  /\ conn' = [conn EXCEPT ![c] = [@ EXCEPT !.pc = "done"]]
  /\ UNCHANGED <<db, sock>>

(* resp_in.next() yields None once the client has closed: the loop ends. *)
Eof(c) ==
  /\ conn[c].pc = "read"
  /\ ~sock[c]
  /\ conn' = [conn EXCEPT ![c] = [@ EXCEPT !.pc = "done"]]
  /\ UNCHANGED <<db, sock, out>>

(* The client closes its socket (the environment, not the server). *)
Close(c) ==
  /\ sock[c]
  /\ sock' = [sock EXCEPT ![c] = FALSE]
  /\ UNCHANGED <<db, conn, out>>

(* Every client is gone and every connection task has ended. *)
Finished ==
  /\ \A c \in Conns : conn[c].pc = "done" /\ ~sock[c]
  /\ UNCHANGED vars

Next ==
  \/ \E c \in Conns :
       \/ \E cmd \in Inputs : RecvLocal(c, cmd) \/ RecvForward(c, cmd)
       \/ RecvError(c)
       \/ SendReply(c)
       \/ QuitReply(c)
       \/ Eof(c)
       \/ Close(c)
  \/ \E w \in Workers, c \in Conns : RunForwarded(w, c)
  \/ Finished

(***************************************************************************)
(* Each worker's cooperative scheduler eventually polls every task spawned *)
(* on it, and a connection task that can write or see EOF eventually does.*)
(* Nothing forces a client to send or to close.                            *)
(***************************************************************************)
Fairness ==
  /\ \A w \in Workers, c \in Conns : WF_vars(RunForwarded(w, c))
  /\ \A c \in Conns : WF_vars(SendReply(c)) /\ WF_vars(QuitReply(c)) /\ WF_vars(Eof(c))

Spec == Init /\ [][Next]_vars /\ Fairness

-----------------------------------------------------------------------------
(***************************************************************************)
(* Sharding: a key is only ever present in the keyspace of the worker its  *)
(* hash maps to.  The fast-path test of conn.rs is what keeps this: a      *)
(* request only runs locally when the local worker owns its key or the     *)
(* request claims to have no key.                                          *)
(***************************************************************************)
KeyResidesOnOwner ==
  \A w \in Workers, k \in Keys : db[w][k] # Nil => w = Owner(k)

(***************************************************************************)
(* Pipelining: while the client is connected, every request the loop of   *)
(* conn.rs has read is answered by exactly one reply on its connection,   *)
(* except the one in flight (executing on a worker, awaiting the one-shot *)
(* reply, or about to be written); QUIT's +OK answers QUIT itself.  Once   *)
(* the client has gone, no more replies are written than requests read.   *)
(***************************************************************************)
InFlight(c) == IF conn[c].pc \in {"fwd", "send", "quit"} THEN 1 ELSE 0

RepliesAnswerRequests ==
  \A c \in Conns :
     /\ Len(out[c]) <= conn[c].n
     /\ sock[c] => Len(out[c]) = conn[c].n - InFlight(c)

(***************************************************************************)
(* A request forwarded to another worker is eventually answered: the       *)
(* owning worker runs the spawned exec and the awaiting connection writes  *)
(* its reply (or finds the client gone), whatever the other connections   *)
(* on either worker are doing.                                             *)
(***************************************************************************)
ForwardedAnswered ==
  \A c \in Conns : conn[c].pc = "fwd" ~> conn[c].pc \in {"read", "done"}

(***************************************************************************)
(* The spec (4.2, and the "any worker" list of Execute::shard) says KEYS   *)
(* returns the keys resident on the current worker: the connection's own. *)
(* Every KEYS reply a connection receives lists exactly the keys present  *)
(* in its own worker's keyspace at the moment it was computed.  The code   *)
(* routes KEYS n to worker n mod N instead (keys.rs, Keys::shard).         *)
(***************************************************************************)
KeysFromOwnWorker ==
  [][\A c \in Conns :
       (conn'[c].pc = "send" /\ conn'[c].resp.t = "keys" /\ conn[c].resp # conn'[c].resp)
         => conn'[c].resp.ks = {k \in Keys : db'[Home(c)][k] # Nil}]_vars

(***************************************************************************)
(* A command that fails with an error leaves the keyspace as it was: INCR  *)
(* on a string that is not an integer answers WRONGTYPE, and the value it  *)
(* took out with remove_entry to reuse the key on reinsertion is still    *)
(* there afterwards.                                                       *)
(***************************************************************************)
ErrorKeepsKeyspace ==
  [][\A c \in Conns :
       (conn[c].pc \in {"read", "fwd"} /\ conn'[c].pc = "send" /\ conn'[c].resp.t = "err")
         => UNCHANGED db]_vars

(***************************************************************************)
(* The router implements the abstract store of module KVStore: one global  *)
(* keyspace, each request applied atomically between its read and its     *)
(* reply, replies in request order on every connection.  The global       *)
(* keyspace is each key's entry on its owner; a forwarded request that has *)
(* not yet run is, abstractly, still unread.                               *)
(***************************************************************************)
AbsRec(x) ==
  IF x.pc = "fwd"
  THEN [pc |-> "read", n |-> x.n - 1, resp |-> x.resp]
  ELSE [pc |-> x.pc, n |-> x.n, resp |-> x.resp]

AbsConn == [c \in Conns |-> AbsRec(conn[c])]

KV == INSTANCE KVStore WITH store <- [k \in Keys |-> db[Owner(k)][k]], conn <- AbsConn

KVSpec == KV!Spec
=============================================================================
