------------------------------ MODULE MCStreams ------------------------------
(***************************************************************************)
(* Codecs and messages at their limits: headers that can and cannot hold   *)
(* the largest message, with and without a checksum, terminators of one    *)
(* and of two bytes, payloads that hold parts of a terminator.             *)
(***************************************************************************)
EXTENDS Streams

MCByte == 0 .. Base - 1
Header(width, checksum, max) ==
    [kind |-> "length", length_type |-> width, enable_checksum |-> checksum, max_payload |-> max]
Eof(eof, max) == [kind |-> "eof", eof |-> eof, max_payload |-> max]
MCCodecs ==
    {Header(1, TRUE, 2), Header(1, FALSE, 3), Header(2, TRUE, 4), Header(1, TRUE, 0),
     [kind |-> "protobuf", length_type |-> 2, enable_checksum |-> TRUE, max_payload |-> 5],
     Eof(<<1>>, 3), Eof(<<1, 0>>, 3)}
MCTypeBytes == [Query |-> <<5>>, Answer |-> <<6>>, Other |-> <<7>>]
MCMessages(c) ==
    CASE c.kind = "protobuf" -> [type : DOMAIN MCTypeBytes, data : {<<>>, <<3>>, <<3, 2>>}]
      [] c.kind = "eof" -> {<<>>, <<0>>, <<2>>, <<2, 0>>, <<0, 1, 2>>, <<2, 2, 2>>, <<2, 2, 2, 2>>}
      [] OTHER -> {<<>>, <<1>>, <<2, 0>>, <<0, 3, 1>>, <<1, 1, 1, 1>>, <<1, 2, 3, 4, 5>>}
==============================================================================
