----------------------------- MODULE MCRequests -----------------------------
(* Decoded requests on one key, "k", as in MCStrings: values within 6      *)
(* bytes, an inline capacity of 3, uninitialised bytes 0 or 255, and an   *)
(* 8-bit i64 so that BITFIELD's integer buffer is one byte.                *)
EXTENDS Requests

K == <<107>>
MCKeys == {K}
MCHash == [k \in MCKeys |-> 0]
MCVals == {<<49>>, <<97, 97, 97>>}

(* resp::Msg::BulkString(Some(s)), resp::Msg::Int(i) and an array. *)
B(s) == [t |-> "bulk", s |-> s]
N(i) == [t |-> "int", i |-> i]
Arr(items) == [t |-> "array", items |-> items]

(* Every parse on well-formed arguments, lower-case verbs and options,    *)
(* the arity and argument errors, and the messages that panic:            *)
(*  - SET, SETNX and BITFIELD with too few arguments, KEYS -2 (parse);     *)
(*  - APPEND "bb" to "aaa" and GETRANGE 1 0 (exec).                        *)
MCRequests ==
  { Arr(<<B(SET), B(K), B(<<49>>)>>),
    Arr(<<B(Lower(SET)), B(K), B(<<97, 97, 97>>), B(Lower(XX)), B(NX)>>),
    Arr(<<B(SETEX), B(K), N(10), B(<<97, 97, 97>>)>>),
    Arr(<<B(SET), B(K), B(<<49>>), B(PX), B(<<120>>)>>),
    Arr(<<B(SET), B(K), B(<<49>>), B(EX)>>),
    Arr(<<B(SET)>>),
    Arr(<<B(SETNX), B(K)>>),
    Arr(<<B(GET), B(K)>>),
    Arr(<<B(Lower(INCR)), B(K), B(<<53>>)>>),
    Arr(<<B(DECRBY), B(K), B(<<45, 49, 50, 56>>)>>),
    Arr(<<B(DEL), B(K), B(<<120>>)>>),
    Arr(<<B(APPEND), B(K), B(<<98, 98>>)>>),
    Arr(<<B(STRLEN), B(K), B(K)>>),
    Arr(<<B(SETBIT), B(K), N(9), B(<<49>>)>>),
    Arr(<<B(GETBIT), B(K), B(<<51>>)>>),
    Arr(<<B(GETRANGE), B(K), B(<<49>>), N(0)>>),
    Arr(<<B(SETRANGE), B(K), B(<<49>>), B(<<98, 98>>)>>),
    Arr(<<B(KEYS)>>),
    Arr(<<B(KEYS), B(<<45, 50>>)>>),
    Arr(<<B(BITFIELD)>>),
    Arr(<<B(BITFIELD), B(K), B(Lower(GET)), B(<<117, 52>>), B(<<48>>),
          B(OVERFLOW), B(SAT), B(INCRBY), B(<<105, 52>>), N(0), B(<<48>>)>>),
    Arr(<<B(<<102, 111, 111>>)>>),
    Arr(<<>>),
    [t |-> "nullarray"],
    N(1) }
=============================================================================
