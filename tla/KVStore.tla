------------------------------ MODULE KVStore ------------------------------
(***************************************************************************)
(* What the store promises its clients (spec sections 3, 4.4 and 5): one   *)
(* keyspace, each request applied to it atomically at one instant between *)
(* its read and its reply, replies written in request order on each       *)
(* connection.  No workers and no forwarding appear here; the one trace   *)
(* of the partitioning a client can see is KEYS n, which lists the keys    *)
(* resident on worker n mod N.                                             *)
(***************************************************************************)
EXTENDS Command

CONSTANTS N, Conns, Inputs, MaxReq

VARIABLES
  store,  \* the one keyspace
  conn,   \* conn[c]: [pc, n, resp] of connection c
  sock,   \* sock[c]: the client has not closed its socket
  out     \* out[c]: the replies written to connection c, in order

vars == <<store, conn, sock, out>>

NoReply == [t |-> "none"]

(* KEYS n: the keys of the worker that shard n maps to. *)
KeysOnWorker(n) ==
  [t |-> "keys",
   ks |-> {k \in Keys : store[k] # Nil /\ Hash[k] % N = KeysShard(n) % N}]

Apply(cmd) ==
  IF IsKeyed(cmd)
  THEN LET r == ExecKeyed(store[cmd.key], cmd)
       IN  [store |-> [store EXCEPT ![cmd.key] = r.val], reply |-> r.reply]
  ELSE [store |-> store,
        reply |-> IF cmd.op = "KEYS" THEN KeysOnWorker(cmd.n) ELSE ExecKeyless(store, cmd)]

Init ==
  /\ store = [k \in Keys |-> Nil]
  /\ conn = [c \in Conns |-> [pc |-> "read", n |-> 0, resp |-> NoReply]]
  /\ sock = [c \in Conns |-> TRUE]
  /\ out = [c \in Conns |-> <<>>]

(* Read one request and apply it. *)
Request(c, cmd) ==
  /\ conn[c].pc = "read" /\ conn[c].n < MaxReq
  /\ LET r == Apply(cmd)
     IN  /\ store' = r.store
         /\ conn' = [conn EXCEPT ![c] =
                       [pc |-> IF r.reply = QuitSignal THEN "quit" ELSE "send",
                        n |-> @.n + 1,
                        resp |-> IF r.reply = QuitSignal THEN NoReply ELSE r.reply]]
  /\ UNCHANGED <<sock, out>>

(* Read a request that is rejected before it reaches the store. *)
Reject(c) ==
  /\ conn[c].pc = "read" /\ conn[c].n < MaxReq
  /\ conn' = [conn EXCEPT ![c] = [pc |-> "send", n |-> @.n + 1, resp |-> ErrReply("ERR")]]
  /\ UNCHANGED <<store, sock, out>>

Answer(c) ==
  /\ conn[c].pc = "send"
  /\ out' = IF sock[c] THEN [out EXCEPT ![c] = Append(@, conn[c].resp)] ELSE out
  /\ conn' = [conn EXCEPT ![c] = [@ EXCEPT !.pc = IF sock[c] THEN "read" ELSE "done",
                                           !.resp = NoReply]]
  /\ UNCHANGED <<store, sock>>

Bye(c) ==
  /\ conn[c].pc = "quit"
  /\ out' = IF sock[c] THEN [out EXCEPT ![c] = Append(@, Simple("OK"))] ELSE out
  /\ conn' = [conn EXCEPT ![c].pc = "done"]
  /\ UNCHANGED <<store, sock>>

Hangup(c) ==
  /\ conn[c].pc = "read" /\ ~sock[c]
  /\ conn' = [conn EXCEPT ![c].pc = "done"]
  /\ UNCHANGED <<store, sock, out>>

Disconnect(c) ==
  /\ sock[c]
  /\ sock' = [sock EXCEPT ![c] = FALSE]
  /\ UNCHANGED <<store, conn, out>>

Next ==
  \E c \in Conns :
    \/ \E cmd \in Inputs : Request(c, cmd)
    \/ Reject(c) \/ Answer(c) \/ Bye(c) \/ Hangup(c) \/ Disconnect(c)

Spec == Init /\ [][Next]_vars
=============================================================================
