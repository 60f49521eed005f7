------------------------------ MODULE MCCodec ------------------------------
(***************************************************************************)
(* TLC instances of Codec.  Bytes are ASCII codes: 97 'a', 48 '0',        *)
(* 49 '1', 13 '\r', 10 '\n'.                                               *)
(***************************************************************************)
EXTENDS Codec

(***************************************************************************)
(* Pairs of messages a client pipelines: every non-null kind of Msg, an    *)
(* empty and a nested array, an empty simple string, a bulk string whose   *)
(* payload is \r\n and ends the stream, and a two-digit integer.           *)
(***************************************************************************)
MCSendable ==
  { <<Str(<<97>>), IntMsg(10)>>,
    <<ErrMsg(<<97>>), Bulk(<<13, 10>>)>>,
    <<Bulk(<<>>), Arr(<<>>)>>,
    <<Arr(<<Bulk(<<97>>), Arr(<<IntMsg(0)>>)>>), Str(<<>>)>> }

(* The null bulk string, the null array and a negative integer. *)
MCSendNull == { <<NullBulk>>, <<NullArr>>, <<IntMsg(-1)>> }

(* A simple string holding a \r not followed by \n: what a client may     *)
(* send, and what PING's exec returns for the argument "a\ra".             *)
MCSendCR == { <<Str(<<97, 13, 97>>)>> }
=============================================================================
