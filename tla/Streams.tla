------------------------------ MODULE Streams ------------------------------
(***************************************************************************)
(* Messages over a TCP stream: one end sends through a Codec               *)
(* (include/codec/Codec.h), the bytes arrive in pieces of any length, and  *)
(* the other end reads them into its input buffer and runs Codec::recv on  *)
(* it, the message callback of a TcpConnection.  With a ProtobufCodec the  *)
(* messages are parsed and dispatched (include/protobuf/).                 *)
(***************************************************************************)
EXTENDS Codecs, ByteBuffer

CONSTANTS CodecKinds,       \* the codecs the two ends may have agreed on
          Messages(_),      \* the messages sent with a codec
          Handled,          \* the protobuf types ProtobufDispatch has callbacks for
          MaxSent           \* the messages sent

VARIABLES codec,            \* the codec of both ends
          sent,             \* the messages encode accepted, oldest first
          sending,          \* the sender has not shut its end down
          wire,             \* the bytes on their way
          input,            \* the receiver's input_buffer_
          offset,           \* the receiver's StringEofCodec::curr_offset_
          got,              \* the messages given to the callback, oldest first
          reading,          \* the receiver has not shut its end down
          taken,            \* history: the bytes read from the stream
          whole             \* history: every read ended where a message ends

svars == <<codec, sent, sending, wire, input, offset, got, reading, taken, whole>>

StreamsInit ==
    /\ codec \in CodecKinds
    /\ sent = <<>> /\ sending = TRUE /\ wire = <<>>
    /\ input = ByteBuffer(kUnLimitSize, 1) /\ offset = 0
    /\ got = <<>> /\ reading = TRUE /\ taken = 0 /\ whole = TRUE

PayloadOf(c, m) == IF c.kind = "protobuf" THEN serialize(m) ELSE m

\* Codec::send; an encode error shuts the connection down, length 0 is dropped.
Send(m) ==
    LET e == encode(codec, PayloadOf(codec, m))
    IN /\ sending /\ Len(sent) < MaxSent
       /\ sent' = IF e.rt = 1 THEN Append(sent, m) ELSE sent
       /\ wire' = wire \o e.bytes
       /\ sending' = (e.rt # -1)
       /\ UNCHANGED <<codec, input, offset, got, reading, taken, whole>>

-----------------------------------------------------------------------------
(* The receiving end: handle_read reads, then the message callback runs.   *)

\* The message callback: ProtobufCodec::parse and ProtobufDispatch::dispatch,
\* or the user's callback.  An error shuts the connection down and goes on.
Delivered(s, payload) ==
    LET p == parse_mesg(payload)
    IN IF codec.kind # "protobuf" THEN [s EXCEPT !.got = Append(@, payload)]
       ELSE IF p.err # "kNoError" THEN [s EXCEPT !.reading = FALSE]
       ELSE LET m == CHOOSE m \in p.mesg : TRUE
            IN IF m.type \in Handled THEN [s EXCEPT !.got = Append(@, m)] ELSE s

\* What decode has done to the buffer and to the codec.
Consumed(s, buff, d) ==
    [s EXCEPT !.offset = curr_offset_(codec, buff, s.offset),
              !.input = IF d.rt = 1 THEN has_read(@, d.read) ELSE @]

RECURSIVE Loop(_)

\* The do-while loop of Codec::recv: decode until it is not 1.
Turn(next, d) ==
    IF d.rt = 1 THEN Loop(Delivered(next, d.payload))
    ELSE IF d.rt = -1 THEN [next EXCEPT !.reading = FALSE]
    ELSE next
Loop(s) ==
    LET buff == to_string(s.input)  d == decode(codec, buff, s.offset)
    IN Turn(Consumed(s, buff, d), d)

MutantRecvOnce(s) ==
    LET buff == to_string(s.input)  d == decode(codec, buff, s.offset)
        next == Consumed(s, buff, d)
    IN IF d.rt = 1 THEN Delivered(next, d.payload)
       ELSE [next EXCEPT !.reading = @ /\ d.rt # -1]

recv(s) == Loop(s)

Frame(m) == encode(codec, PayloadOf(codec, m)).bytes
EndOf(k) == FoldLeft(LAMBDA n, m : n + Len(Frame(m)), 0, SubSeq(sent, 1, k))

\* conn->shutdown() closes the other direction only: reading goes on.
Receive(n) ==
    /\ n <= Len(wire) /\ n <= MostRead(input)
    /\ \E s \in {recv([input |-> read_fd(input, SubSeq(wire, 1, n)), offset |-> offset,
                       got |-> got, reading |-> reading])} :
            input' = s.input /\ offset' = s.offset /\ got' = s.got /\ reading' = s.reading
    /\ wire' = SubSeq(wire, n + 1, Len(wire))
    /\ taken' = taken + n
    /\ whole' = (whole /\ \E k \in 1 .. Len(sent) : EndOf(k) = taken + n)
    /\ UNCHANGED <<codec, sent, sending>>

StreamsNext == \/ \E m \in Messages(codec) : Send(m)
               \/ \E n \in 1 .. Len(wire) : Receive(n)

StreamsSpec == StreamsInit /\ [][StreamsNext]_svars

-----------------------------------------------------------------------------
(* What the streams promise.                                               *)

FitsLimit(m) ==
    ~TooLong(codec, Len(PayloadOf(codec, m)) + (IF codec.kind = "eof" THEN 0
                                                ELSE checksum_length(codec)))

\* A message a receiver can tell from its frame: a length its header can
\* hold and within the limit, no terminator inside.
Fits(m) ==
    /\ FitsLimit(m)
    /\ IF codec.kind = "eof" THEN find(Frame(m), codec.eof, 0) = Len(m)
       ELSE 2 * (Len(Frame(m)) - codec.length_type) < Base^codec.length_type

\* The header can hold every length within the limit.
HeaderHoldsLimit ==
    \/ codec.kind = "eof"
    \/ /\ codec.max_payload > 0
       /\ 2 * (codec.max_payload + checksum_length(codec)) < Base^codec.length_type

Arrived == {k \in 1 .. Len(sent) : EndOf(k) <= taken}
Unfit == {k \in 1 .. Len(sent) : ~Fits(sent[k])}
Reaches(m) == codec.kind = "protobuf" => m.type \in Handled

\* The messages in full at the receiver, up to the first that does not fit.
Expected ==
    SelectSeq(SubSeq(sent, 1, Min({Cardinality(Arrived)} \cup {k - 1 : k \in Unfit})), Reaches)

\* However the stream is cut into reads, the callback has been given exactly
\* the messages that have arrived in full, in order and unchanged, when
\* handle_read returns: none is left in the buffer, merged or repeated.  A
\* message over the limit ends the deliveries.  (With a StringEofCodec, as
\* long as every read ends where a message ends.)
FramesDelivered ==
    /\ codec.kind = "eof" => whole
    /\ codec.kind = "eof" => Unfit = {}
    /\ HeaderHoldsLimit \/ Unfit = {}
    => got = Expected

\* A message encode accepts and decode refuses is not lost in silence: when
\* all bytes have been read, every message was delivered or the receiver has
\* shut the connection down.
LossIsNoticed ==
    wire = <<>> /\ HeaderHoldsLimit /\ codec.kind # "eof" /\ reading =>
        got = SelectSeq(sent, Reaches)

\* Every codec carries what it accepts, or the receiver knows that it has not.
StreamsCarry == FramesDelivered /\ LossIsNoticed

\* What "0 decode incomplete, continues to read more data" says of
\* StringEofCodec: it is returned only while a terminator is missing.
EofFramesDelivered == codec.kind = "eof" /\ Unfit = {} => got = Expected
=============================================================================
