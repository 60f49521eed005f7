------------------------------ MODULE Codec ------------------------------
(***************************************************************************)
(* The RESP codec of mkii (src/resp.rs) and the framed reader that drives  *)
(* it on each connection (tokio's Framed, an external crate).              *)
(*                                                                         *)
(* The decoder is a chain of Codec structs: level 1 is the connection's    *)
(* codec, level i+1 is the `inner` codec of level i, created by the first  *)
(* array header level i reads and kept from then on.  A level is           *)
(* [kind, idx, sz, msgs, cap]: curr_kind without its payload, the scan     *)
(* position, the declared bulk length, and for an array under construction *)
(* the elements decoded so far and the Vec's capacity.                     *)
(*                                                                         *)
(* One call of decode is one step of the reader.  A call returns a         *)
(* message ("some"), Ok(None) ("none"), an io::Error ("err"), or never     *)
(* returns ("hang": read_line spinning) or panics ("panic").  A client     *)
(* writes the encoding of a sequence of messages; the network delivers it  *)
(* to the read buffer in chunks of any size.                               *)
(***************************************************************************)
EXTENDS Integers, Sequences, SequencesExt

CONSTANTS
  Sendable,   \* the sequences of messages a client may write
  IsizeBits   \* width of isize (64 in the code)

ASSUME CodecAssumption == IsizeBits \in Nat \ {0}

VARIABLES
  sent,      \* the messages the client wrote
  wire,      \* their bytes not yet read from the socket
  buf,       \* the reader's BytesMut
  chain,     \* the codec and its inner codecs
  readable,  \* Framed's is_readable: decode again before reading
  eof,       \* the socket returned 0 bytes
  got,       \* the items the stream yielded, in order
  fault,     \* "none", or a decode call that hung or panicked
  ended      \* the stream yielded None

vars == <<sent, wire, buf, chain, readable, eof, got, fault, ended>>

(* The bytes the codec tests for. *)
CR == 13
LF == 10
CRLF == <<CR, LF>>

(***************************************************************************)
(* resp::Msg.  Msg::Str encodes as Msg::String and decodes as one, so     *)
(* only String appears.                                                    *)
(***************************************************************************)
Str(s) == [t |-> "str", s |-> s]
ErrMsg(s) == [t |-> "err", s |-> s]
IntMsg(i) == [t |-> "int", i |-> i]
Bulk(s) == [t |-> "bulk", s |-> s]
NullBulk == [t |-> "nullbulk"]
Arr(a) == [t |-> "arr", a |-> a]
NullArr == [t |-> "nullarr"]
NoMsg == [t |-> "none"]

(* The items the stream yields for a decode error and for decode_eof's     *)
(* "bytes remaining on stream".                                            *)
DecodeError == [t |-> "decode_error"]
EofError == [t |-> "bytes_remaining"]

-----------------------------------------------------------------------------
(* The encoder. *)

(* i64::to_string / usize::to_string. *)
ToDecimal(n) ==
  LET digits[m \in Nat] ==
        IF m < 10 THEN <<48 + m>> ELSE digits[m \div 10] \o <<48 + (m % 10)>>
  IN  IF n < 0 THEN <<45>> \o digits[-n] ELSE digits[n]

RECURSIVE Encode(_), EncodeAll(_)

(* Encoder::encode of one message. *)
Encode(m) ==
  CASE m.t = "str"      -> <<43>> \o m.s \o CRLF
    [] m.t = "err"      -> <<45>> \o m.s \o CRLF
    [] m.t = "int"      -> <<58>> \o ToDecimal(m.i) \o CRLF
    [] m.t = "nullbulk" -> <<36, 45, 49>> \o CRLF
    [] m.t = "bulk"     -> <<36>> \o ToDecimal(Len(m.s)) \o CRLF \o m.s \o CRLF
    [] m.t = "nullarr"  -> <<42, 45, 49>> \o CRLF
    [] m.t = "arr"      -> <<42>> \o ToDecimal(Len(m.a)) \o CRLF \o EncodeAll(m.a)

(* The messages of an array, or of a connection, one after the other. *)
EncodeAll(ms) == IF ms = <<>> THEN <<>> ELSE Encode(Head(ms)) \o EncodeAll(Tail(ms))

-----------------------------------------------------------------------------
(* The decoder. *)

(* Codec::new. *)
Fresh == [kind |-> "None", idx |-> 0, sz |-> 0, msgs |-> <<>>, cap |-> 0]

(* reset / reset2 of level i: it and every inner codec start over. *)
Reset(ch, i) == [j \in DOMAIN ch |-> IF j >= i THEN Fresh ELSE ch[j]]

(* A decode result; a call that does not return leaves everything as is. *)
Result(st, m, ch, b) == [st |-> st, msg |-> m, chain |-> ch, buf |-> b]
Stuck(st, ch, b) == Result(st, NoMsg, ch, b)

(* Level i's idx set to x. *)
SetIdx(ch, i, x) == [ch EXCEPT ![i].idx = x]

(* isize arithmetic of a release build: two's complement wrap-around. *)
IsizeWrap(x) == LET h == 2^(IsizeBits - 1) IN ((x + h) % (2 * h)) - h

(***************************************************************************)
(* read_line from position idx (0-based) of b.  The first \r after idx     *)
(* decides: last byte of b, wait (idx just before it); followed by \n, the *)
(* line; followed by anything else, the loop never advances (idx +=       *)
(* carriage_pos finds the same \r at offset 0 again).                      *)
(***************************************************************************)
ReadLine(idx, b) ==
  LET p == SelectInSubSeq(b, idx + 1, Len(b), LAMBDA x : x = CR)
  IN  IF idx > Len(b)     THEN [r |-> "panic"]
      ELSE IF p = 0         THEN [r |-> "none", idx |-> Len(b)]
      ELSE IF p = Len(b)    THEN [r |-> "none", idx |-> Len(b) - 1]
      ELSE IF b[p + 1] # LF THEN [r |-> "hang"]
      ELSE [r |-> "line", line |-> SubSeq(b, 2, p - 1), rest |-> SubSeq(b, p + 2, Len(b))]

(***************************************************************************)
(* read_isize: this loop skips a \r not followed by \n (idx += pos + 1),   *)
(* so the first \r that is last or followed by \n decides.  Every byte     *)
(* between the type byte and it is a digit: (b - b'0') in u8, wrapping,   *)
(* then len * 10 + digit in isize.                                         *)
(***************************************************************************)
IsizeOf(d) ==
  LET v[j \in 0..Len(d)] ==
        IF j = 0 THEN 0 ELSE IsizeWrap(IsizeWrap(10 * v[j - 1]) + ((d[j] - 48) % 256))
  IN  v[Len(d)]

ReadIsize(idx, b) ==
  LET EndsLine(q) == b[q] = CR /\ (q = Len(b) \/ b[q + 1] = LF)
      p == SelectInSubSeq([q \in 1..Len(b) |-> q], idx + 1, Len(b), EndsLine)
  IN  IF idx > Len(b)  THEN [r |-> "panic"]
      ELSE IF p = 0      THEN [r |-> "none", idx |-> Len(b)]
      ELSE IF p = Len(b) THEN [r |-> "none", idx |-> Len(b) - 1]
      ELSE [r |-> "line", n |-> IsizeOf(SubSeq(b, 2, p - 1)), rest |-> SubSeq(b, p + 2, Len(b))]

(* std::str::from_utf8 accepts s: well-formed UTF-8 (Unicode table 3-7). *)
Utf8(s) ==
  LET Cont(x) == x \in 128..191
      Width(x) == CASE x < 128 -> 1 [] x \in 194..223 -> 2 [] x \in 224..239 -> 3
                    [] x \in 240..244 -> 4 [] OTHER -> 0
      Second(x, y) == CASE x = 224 -> y \in 160..191 [] x = 237 -> y \in 128..159
                        [] x = 240 -> y \in 144..191 [] x = 244 -> y \in 128..143
                        [] OTHER -> Cont(y)
      ok[j \in 1..(Len(s) + 1)] ==
        IF j > Len(s) THEN TRUE
        ELSE LET n == Width(s[j])
             IN  /\ n > 0 /\ j + n - 1 <= Len(s)
                 /\ n > 1 => Second(s[j], s[j + 1])
                 /\ \A q \in (j + 2)..(j + n - 1) : Cont(s[q])
                 /\ ok[j + n]
  IN  ok[1]

(* The type byte starting a frame. *)
KindOf(x) ==
  CASE x = 43 -> "String" [] x = 45 -> "Error" [] x = 58 -> "Int"
    [] x = 36 -> "BulkHdr" [] x = 42 -> "ArrHdr" [] OTHER -> "invalid"

(* Mutant: the empty-buffer return dropped. *)
StartFrameNoEmptyCheck(ch, i, b) ==
  IF ch[i].idx >= Len(b) THEN Stuck("panic", ch, b)
  ELSE LET k == KindOf(b[ch[i].idx + 1])
       IN  IF k = "invalid" THEN Result("err", NoMsg, ch, Tail(b))
           ELSE Result("notready", NoMsg, [ch EXCEPT ![i].kind = k, ![i].idx = @ + 1], b)

(* curr_kind None: read the type byte at idx; an unknown one is consumed   *)
(* and surfaced as an error.                                               *)
StartFrame(ch, i, b) ==
  IF Len(b) = 0 THEN Result("none", NoMsg, ch, b)
  ELSE IF ch[i].idx >= Len(b) THEN Stuck("panic", ch, b)
  ELSE LET k == KindOf(b[ch[i].idx + 1])
       IN  IF k = "invalid" THEN Result("err", NoMsg, ch, Tail(b))
           ELSE Result("notready", NoMsg, [ch EXCEPT ![i].kind = k, ![i].idx = @ + 1], b)

(* curr_kind String or Error: one line; an error line must be UTF-8. *)
LineStep(ch, i, b) ==
  LET r == ReadLine(ch[i].idx, b)
  IN  IF r.r \in {"panic", "hang"} THEN Stuck(r.r, ch, b)
      ELSE IF r.r = "none"          THEN Result("none", NoMsg, SetIdx(ch, i, r.idx), b)
      ELSE IF ch[i].kind = "String" THEN Result("some", Str(r.line), Reset(ch, i), r.rest)
      ELSE IF Utf8(r.line)          THEN Result("some", ErrMsg(r.line), Reset(ch, i), r.rest)
      ELSE Result("err", NoMsg, Reset(ch, i), r.rest)

(* curr_kind Int: s as i64. *)
IntStep(ch, i, b) ==
  LET r == ReadIsize(ch[i].idx, b)
  IN  CASE r.r = "panic" -> Stuck("panic", ch, b)
        [] r.r = "none"  -> Result("none", NoMsg, SetIdx(ch, i, r.idx), b)
        [] OTHER         -> Result("some", IntMsg(r.n), Reset(ch, i), r.rest)

(* curr_kind BulkString(None): the length line; negative is the null bulk. *)
BulkHdrStep(ch, i, b) ==
  LET r == ReadIsize(ch[i].idx, b)
  IN  IF r.r = "panic"     THEN Stuck("panic", ch, b)
      ELSE IF r.r = "none" THEN Result("none", NoMsg, SetIdx(ch, i, r.idx), b)
      ELSE IF r.n < 0      THEN Result("some", NullBulk, Reset(ch, i), r.rest)
      ELSE Result("notready", NoMsg,
                  [ch EXCEPT ![i].kind = "Bulk", ![i].sz = r.n, ![i].idx = 0], r.rest)

(* Mutant: waits for one byte more than sz + 2. *)
BulkStepWaitsExtraByte(ch, i, b) ==
  IF ch[i].sz + 2 >= Len(b) THEN Result("none", NoMsg, ch, b)
  ELSE Result("some", Bulk(SubSeq(b, 1, ch[i].sz)), Reset(ch, i), SubSeq(b, ch[i].sz + 3, Len(b)))

(* Mutant: the two bytes after the payload left in the buffer. *)
BulkStepNoAdvance(ch, i, b) ==
  IF ch[i].sz + 2 > Len(b) THEN Result("none", NoMsg, ch, b)
  ELSE Result("some", Bulk(SubSeq(b, 1, ch[i].sz)), Reset(ch, i), SubSeq(b, ch[i].sz + 1, Len(b)))

(* curr_kind BulkString(Some): wait for sz + 2 bytes, take sz, skip 2      *)
(* (whatever they are).                                                    *)
BulkStep(ch, i, b) ==
  IF ch[i].sz + 2 > Len(b) THEN Result("none", NoMsg, ch, b)
  ELSE Result("some", Bulk(SubSeq(b, 1, ch[i].sz)), Reset(ch, i), SubSeq(b, ch[i].sz + 3, Len(b)))

(* curr_kind Array(None): the count line; negative is the null array;      *)
(* otherwise Vec::with_capacity(s) and, the first time, the inner codec.   *)
ArrHdrStep(ch, i, b) ==
  LET r == ReadIsize(ch[i].idx, b)
      ch1 == [ch EXCEPT ![i].kind = "Arr", ![i].cap = r.n, ![i].msgs = <<>>, ![i].idx = 0]
  IN  IF r.r = "panic"     THEN Stuck("panic", ch, b)
      ELSE IF r.r = "none" THEN Result("none", NoMsg, SetIdx(ch, i, r.idx), b)
      ELSE IF r.n < 0      THEN Result("some", NullArr, Reset(ch, i), r.rest)
      ELSE Result("notready", NoMsg, IF Len(ch) = i THEN Append(ch1, Fresh) ELSE ch1, r.rest)

RECURSIVE Decode(_, _, _), ArrayLoop(_, _, _)

(***************************************************************************)
(* curr_kind Array(Some(msgs)): while msgs.len() < capacity, decode one    *)
(* element with the inner codec; its Ok(None) or Err is returned as is,    *)
(* the elements so far staying in msgs.                                    *)
(***************************************************************************)
ArrayLoop(ch, i, b) ==
  IF Len(ch[i].msgs) >= ch[i].cap
  THEN Result("some", Arr(ch[i].msgs), Reset(ch, i), b)
  ELSE LET r == Decode(ch, i + 1, b)
       IN  IF r.st = "some"
           THEN ArrayLoop([r.chain EXCEPT ![i].msgs = Append(@, r.msg)], i, r.buf)
           ELSE r

(* One pass of decode's loop body on level i. *)
Step(ch, i, b) ==
  CASE ch[i].kind = "None"                  -> StartFrame(ch, i, b)
    [] ch[i].kind \in {"String", "Error"}   -> LineStep(ch, i, b)
    [] ch[i].kind = "Int"                   -> IntStep(ch, i, b)
    [] ch[i].kind = "BulkHdr"               -> BulkHdrStep(ch, i, b)
    [] ch[i].kind = "Bulk"                  -> BulkStep(ch, i, b)
    [] ch[i].kind = "ArrHdr"                -> ArrHdrStep(ch, i, b)
    [] ch[i].kind = "Arr"                   -> ArrayLoop(ch, i, b)

(* Decoder::decode on level i: loop while the body answers NotReady. *)
Decode(ch, i, b) ==
  LET r == Step(ch, i, b)
  IN  IF r.st = "notready" THEN Decode(r.chain, i, r.buf) ELSE r
-----------------------------------------------------------------------------
(***************************************************************************)
(* The framed reader (tokio Framed, poll_next and the default decode_eof): *)
(* while readable it decodes; Ok(None) clears readable and it reads the    *)
(* socket again; a read of 0 bytes sets eof.  At eof it calls decode_eof:  *)
(* Ok(None) with bytes left is the error "bytes remaining on stream", and  *)
(* the stream ends.                                                        *)
(***************************************************************************)
Init ==
  /\ sent \in Sendable
  /\ wire = EncodeAll(sent)
  /\ buf = <<>>
  /\ chain = <<Fresh>>
  /\ readable = FALSE
  /\ eof = FALSE
  /\ got = <<>>
  /\ fault = "none"
  /\ ended = FALSE

Faults == {"hang", "panic"}

(* The item the stream yields for a decode result that returned. *)
Item(r) == IF r.st = "some" THEN r.msg ELSE DecodeError

(* The socket read returns the next k bytes the client wrote. *)
Deliver(k) ==
  /\ ~readable /\ ~eof
  /\ k \in 1..Len(wire)
  /\ buf' = buf \o SubSeq(wire, 1, k)
  /\ wire' = SubSeq(wire, k + 1, Len(wire))
  /\ readable' = TRUE
  /\ UNCHANGED <<sent, chain, eof, got, fault, ended>>

(* The client has closed and everything it wrote has been read. *)
Closed ==
  /\ ~readable /\ ~eof /\ wire = <<>>
  /\ eof' = TRUE /\ readable' = TRUE
  /\ UNCHANGED <<sent, wire, buf, chain, got, fault, ended>>

(* One call of decode on the connection's codec. *)
DecodeReady == readable /\ ~eof /\ fault = "none"

DecodeCall ==
  /\ DecodeReady
  /\ \E r \in {Decode(chain, 1, buf)} :
         /\ chain' = r.chain /\ buf' = r.buf
         /\ got' = IF r.st \in {"some", "err"} THEN Append(got, Item(r)) ELSE got
         /\ readable' = (r.st # "none")
         /\ fault' = IF r.st \in Faults THEN r.st ELSE "none"
  /\ UNCHANGED <<sent, wire, eof, ended>>

(* One call of decode_eof after the socket's end. *)
DecodeAtEof ==
  /\ readable /\ eof /\ ~ended /\ fault = "none"
  /\ \E r \in {Decode(chain, 1, buf)} :
         /\ chain' = r.chain /\ buf' = r.buf
         /\ got' = CASE r.st \in {"some", "err"}       -> Append(got, Item(r))
                     [] r.st = "none" /\ r.buf # <<>> -> Append(got, EofError)
                     [] OTHER                          -> got
         /\ ended' = (r.st = "none")
         /\ fault' = IF r.st \in Faults THEN r.st ELSE "none"
  /\ UNCHANGED <<sent, wire, readable, eof>>

(* The stream has ended, or a decode call spins or has panicked. *)
Halted ==
  /\ ended \/ fault # "none"
  /\ UNCHANGED vars

Next ==
  \/ \E k \in 1..Len(wire) : Deliver(k)
  \/ Closed
  \/ DecodeCall
  \/ DecodeAtEof
  \/ Halted

(***************************************************************************)
(* The connection task is polled whenever its socket is readable and it    *)
(* is ready to decode; bytes the client wrote eventually arrive.  Nothing  *)
(* forces the client to close.  The conjunct for DecodeCall is             *)
(* WF_vars(DecodeCall) written out: whenever DecodeReady holds, DecodeCall *)
(* has a successor, and every outcome changes got, readable or fault, so   *)
(* DecodeReady is ENABLED <<DecodeCall>>_vars.                             *)
(***************************************************************************)
Fairness ==
  /\ WF_vars(\E k \in 1..Len(wire) : Deliver(k))
  /\ []<>~DecodeReady \/ []<><<DecodeCall>>_vars
  /\ WF_vars(DecodeAtEof)

Spec == Init /\ [][Next]_vars /\ Fairness

-----------------------------------------------------------------------------
(***************************************************************************)
(* The stream yields exactly the messages the client wrote, in order: no   *)
(* message altered, none skipped, no error item, nothing extra.  This is   *)
(* the spec's round trip decode(encode(m)) = m, for every segmentation of *)
(* the bytes, with several messages pipelined in one buffer.              *)
(***************************************************************************)
FramesInOrder == IsPrefix(got, sent)

(***************************************************************************)
(* Resumability: however the bytes are split, every message the client     *)
(* wrote is eventually yielded, with no byte left in the buffer.          *)
(***************************************************************************)
AllDecoded == <>(got = sent /\ buf = <<>>)

(* No call of decode panics (an index past the buffer, a failed assert). *)
DecodeNeverPanics == fault # "panic"

(* Every call of decode returns (the spec's "scanning resumes past that   *)
(* \r"): read_line never spins on a \r that is not followed by \n.        *)
DecodeReturns == fault # "hang"
=============================================================================
