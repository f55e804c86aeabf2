------------------------------- MODULE Codecs -------------------------------
(***************************************************************************)
(* The codecs that cut a TCP stream into messages: LengthHeaderCodec and   *)
(* StringEofCodec (include/codec/), ProtobufCodec (include/protobuf/), as  *)
(* decode and encode operators on the bytes of a buffer.  A codec is a     *)
(* record of its parameters.                                               *)
(*                                                                         *)
(* A byte is a digit in base Base, so that an intN_t wraps around where    *)
(* the code's would, and a header is at most as many bytes as the model    *)
(* needs to reach both ends of its range.                                  *)
(***************************************************************************)
EXTENDS Strings

CONSTANTS Base,             \* the values of a byte, 256 in the code
          kChecksumBytes,   \* sizeof(uint32_t), the length of a checksum
          Types,            \* the message types both ends have linked in
          TypeBytes         \* the name of a message type, as bytes

ASSUME BaseAssumption == Base \in Nat \ {0, 1} /\ kChecksumBytes \in Nat \ {0}

-----------------------------------------------------------------------------
(* NetBuffer's integers: two's complement, most significant byte first.    *)

ByteOf(x, w, i) == (x \div Base^(w - i)) % Base
append_int(w, x) == LET u == x % Base^w IN [i \in 1 .. w |-> ByteOf(u, w, i)]

Unsigned(bytes) == FoldLeft(LAMBDA n, d : n * Base + d, 0, bytes)

peek_int(bytes) ==
    LET u == Unsigned(bytes) IN IF 2 * u < Base^Len(bytes) THEN u ELSE u - Base^Len(bytes)

\* crc32_short or crc32_long, by the length; both give the same.  In place of the tables a
\* function of the bytes that depends on each of them: encode and decode compute it alike.
crc32(bytes) == append_int(kChecksumBytes, FoldLeft(LAMBDA n, d : 3 * n + d + 1, 0, bytes))

-----------------------------------------------------------------------------
(* LengthHeaderCodec, and ProtobufCodec, which has the same framing with   *)
(* fixed parameters.                                                       *)

checksum_length(c) == IF c.enable_checksum THEN kChecksumBytes ELSE 0
header_length == kChecksumBytes
min_payload(c) == checksum_length(c) + (IF c.kind = "protobuf" THEN header_length + 2 ELSE 0)
TooLong(c, length) == c.max_payload > 0 /\ length > c.max_payload

Decoded(rt, payload, read) == [rt |-> rt, payload |-> payload, read |-> read]
Incomplete == Decoded(0, <<>>, 0)
Invalid == Decoded(-1, <<>>, 0)

MutantDecodeWaits(c, buff) ==
    IF Len(buff) < c.length_type THEN Incomplete
    ELSE LET length == peek_int(SubSeq(buff, 1, c.length_type))
             frame == SubSeq(buff, c.length_type + 1, c.length_type + length)
             payload == SubSeq(frame, 1, length - checksum_length(c))
         IN IF length < min_payload(c) \/ TooLong(c, length) THEN Incomplete
            ELSE IF Len(buff) < length + c.length_type THEN Incomplete
            ELSE IF c.enable_checksum /\ frame # payload \o crc32(payload) THEN Invalid
            ELSE Decoded(1, payload, c.length_type + length)

\* The length counts the checksum at the end of the payload.
LengthDecode(c, buff) ==
    IF Len(buff) < c.length_type THEN Incomplete
    ELSE LET length == peek_int(SubSeq(buff, 1, c.length_type))
             frame == SubSeq(buff, c.length_type + 1, c.length_type + length)
             payload == SubSeq(frame, 1, length - checksum_length(c))
         IN IF length < min_payload(c) \/ TooLong(c, length) THEN Invalid
            ELSE IF Len(buff) < length + c.length_type THEN Incomplete
            ELSE IF c.enable_checksum /\ frame # payload \o crc32(payload) THEN Invalid
            ELSE Decoded(1, payload, c.length_type + length)

Encoded(rt, bytes) == [rt |-> rt, bytes |-> bytes]

\* The checksum is not counted in the limit.
LengthEncode(c, payload) ==
    LET length == Len(payload)
    IN IF length = 0 THEN Encoded(0, <<>>)
       ELSE IF length < min_payload(c) - checksum_length(c) \/ TooLong(c, length)
            THEN Encoded(-1, <<>>)
       ELSE Encoded(1, append_int(c.length_type, length + checksum_length(c)) \o payload
                       \o (IF c.enable_checksum THEN crc32(payload) ELSE <<>>))

-----------------------------------------------------------------------------
(* StringEofCodec.  curr_offset_ belongs to the codec.                     *)

\* Where the next search starts if this one finds nothing.
NextOffset(c, buff, curr_offset) == size_t(curr_offset + Len(buff) - Len(c.eof) - 1)

EofFind(c, buff, curr_offset) ==
    IF Len(c.eof) = 1 THEN find_char(buff, c.eof[1], curr_offset)
    ELSE find(buff, c.eof, curr_offset)

EofDecode(c, buff, curr_offset) ==
    LET n == EofFind(c, buff, curr_offset)
    IN IF Len(buff) < Len(c.eof) THEN Incomplete
       ELSE IF n # npos THEN Decoded(1, SubSeq(buff, 1, n), n + Len(c.eof))
       ELSE IF c.max_payload > 0 /\ Len(buff) > c.max_payload + Len(c.eof) THEN Invalid
       ELSE Incomplete

EofOffset(c, buff, curr_offset) ==
    IF Len(buff) < Len(c.eof) THEN curr_offset
    ELSE IF EofFind(c, buff, curr_offset) # npos THEN 0
    ELSE NextOffset(c, buff, curr_offset)

EofEncode(c, payload) ==
    IF Len(payload) = 0 THEN Encoded(0, <<>>)
    ELSE IF TooLong(c, Len(payload)) THEN Encoded(-1, <<>>)
    ELSE Encoded(1, payload \o c.eof)

-----------------------------------------------------------------------------
(* ProtobufCodec: the frame is a LengthHeaderCodec's, and the payload names *)
(* the type of the message.                                                *)

ProtobufDecode(c, buff) == LengthDecode(c, buff)
ProtobufEncode(c, payload) == LengthEncode(c, payload)

serialize(m) ==
    append_int(header_length, Len(TypeBytes[m.type]) + 1) \o TypeBytes[m.type] \o <<0>> \o m.data

\* generate_mesg: a type this end has; nothing otherwise.
generate_mesg(name) == {t \in Types : TypeBytes[t] = name}

Parsed(err, m) == [err |-> err, mesg |-> m]

\* A negative nameLen is a huge size_t.  ParseFromArray accepts what
\* SerializeToArray wrote for the type.
parse_mesg(payload) ==
    LET nameLen == peek_int(SubSeq(payload, 1, header_length))
        rest == SubSeq(payload, header_length + 1, Len(payload))
        found == generate_mesg(SubSeq(rest, 1, nameLen - 1))
    IN IF ~(nameLen >= 2 /\ nameLen <= Len(rest)) THEN Parsed("kInvalidNameLen", {})
       ELSE IF found = {} THEN Parsed("kUnknownMessageType", {})
       ELSE Parsed("kNoError", {[type |-> t, data |-> SubSeq(rest, nameLen + 1, Len(rest))] :
                                    t \in found})

-----------------------------------------------------------------------------
\* Codec's virtual functions.
decode(c, buff, curr_offset) ==
    CASE c.kind = "eof" -> EofDecode(c, buff, curr_offset)
      [] c.kind = "protobuf" -> ProtobufDecode(c, buff)
      [] c.kind = "length" -> LengthDecode(c, buff)

encode(c, payload) ==
    CASE c.kind = "eof" -> EofEncode(c, payload)
      [] c.kind = "protobuf" -> ProtobufEncode(c, payload)
      [] c.kind = "length" -> LengthEncode(c, payload)

curr_offset_(c, buff, curr_offset) ==
    IF c.kind = "eof" THEN EofOffset(c, buff, curr_offset) ELSE curr_offset
=============================================================================
