----------------------------- MODULE ByteBuffer -----------------------------
(***************************************************************************)
(* The byte buffers of include/ByteBuffer.h and include/NetBuffer.h, as    *)
(* operators on a record of the class's members: buffer_ is the vector,    *)
(* reader_index_ and writer_index_ are the code's offsets into it (0 is    *)
(* the first byte) and max_size_ is kUnLimitSize or the length of a fixed  *)
(* buffer.                                                                 *)
(***************************************************************************)
EXTENDS Integers, Sequences

CONSTANTS Byte,             \* what a byte holds
          Zero,             \* the byte std::vector::resize fills with
          kExtraBytes       \* sizeof extrabuf in NetBuffer::read_fd

ASSUME BytesAssumption == Zero \in Byte /\ kExtraBytes \in Nat \ {0}

kUnLimitSize == -1

Buffers == [max_size_ : Nat \cup {kUnLimitSize}, reader_index_ : Nat, writer_index_ : Nat,
            buffer_ : Seq(Byte)]

Fixed(b) == b.max_size_ # kUnLimitSize
Lower(m, n) == IF m < n THEN m ELSE n
Zeros(n) == [i \in 1 .. n |-> Zero]

ByteBuffer(max_size, init_size) ==
    [max_size_ |-> max_size, reader_index_ |-> 0, writer_index_ |-> 0,
     buffer_ |-> Zeros(IF max_size > 0 THEN max_size ELSE init_size)]

size(b) == Len(b.buffer_)
readable_bytes(b) == b.writer_index_ - b.reader_index_
writable_bytes(b) == (IF Fixed(b) THEN b.max_size_ ELSE size(b)) - b.writer_index_

\* The bytes from begin_read() to begin_write().
to_string(b) == [i \in 1 .. readable_bytes(b) |-> b.buffer_[b.reader_index_ + i]]

reset(b) == [b EXCEPT !.reader_index_ = 0, !.writer_index_ = 0]

has_read(b, len) ==
    IF len < readable_bytes(b) THEN [b EXCEPT !.reader_index_ = @ + len] ELSE reset(b)

\* std::vector::resize to more bytes.
resize(v, n) == [i \in 1 .. n |-> IF i <= Len(v) THEN v[i] ELSE Zero]

\* std::copy of the readable bytes to the front; what lay behind them stays.
migration_buffer_data(b) ==
    IF b.reader_index_ = 0 THEN b
    ELSE [b EXCEPT !.reader_index_ = 0, !.writer_index_ = readable_bytes(b),
                   !.buffer_ = [i \in 1 .. size(b) |->
                       IF i <= readable_bytes(b) THEN b.buffer_[b.reader_index_ + i]
                       ELSE b.buffer_[i]]]

\* A fixed buffer has only the bytes of buffer_ that are within its limit.
real_writeable_bytes(b) ==
    (IF Fixed(b) THEN Lower(b.max_size_, size(b)) ELSE size(b)) - b.writer_index_

make_writable_bytes(b, len) ==
    IF real_writeable_bytes(b) < len
    THEN IF Fixed(b) /\ b.max_size_ - b.writer_index_ < len THEN b
         ELSE [b EXCEPT !.buffer_ = resize(@, b.writer_index_ + len)]
    ELSE migration_buffer_data(b)

\* std::copy of data to begin_write(), then has_written.
Written(b, data) ==
    [b EXCEPT !.writer_index_ = @ + Len(data),
              !.buffer_ = [i \in 1 .. size(b) |->
                  IF i > b.writer_index_ /\ i <= b.writer_index_ + Len(data)
                  THEN data[i - b.writer_index_] ELSE b.buffer_[i]]]

\* append's result: whether it had room.
Appends(b, len) == writable_bytes(make_writable_bytes(b, len)) >= len

append(b, data) ==
    LET room == make_writable_bytes(b, Len(data))
    IN IF Appends(b, Len(data)) THEN Written(room, data) ELSE room

shrink(b) ==
    LET front == migration_buffer_data(b)
    IN [front EXCEPT !.buffer_ = [i \in 1 .. readable_bytes(front) |-> front.buffer_[i]]]

\* The moved-to and the moved-from object: the constructor takes the vector ...
MoveTo(rhs) == rhs
MoveFrom(rhs) == [reset(rhs) EXCEPT !.buffer_ = <<>>]

\* ... and the assignment swaps everything, then resets rhs.
AssignFrom(lhs) == reset(lhs)

-----------------------------------------------------------------------------
(* NetBuffer::read_fd.  readv fills the writable bytes first and extrabuf  *)
(* after them; extrabuf is left out when the buffer has as much room.      *)

MostRead(b) ==
    writable_bytes(b) + (IF writable_bytes(b) < kExtraBytes THEN kExtraBytes ELSE 0)

MutantReadDropsExtra(b, data) ==
    Written(b, SubSeq(data, 1, Lower(Len(data), writable_bytes(b))))

read_fd(b, data) ==
    LET writable == writable_bytes(b)
    IN IF Len(data) <= writable THEN Written(b, data)
       ELSE append(Written(b, SubSeq(data, 1, writable)),
                   SubSeq(data, writable + 1, Len(data)))

-----------------------------------------------------------------------------
\* The picture above the class: 0 <= readerIndex <= writerIndex <= size, and
\* a fixed buffer never holds more than its limit.
Shaped(b) ==
    /\ b \in Buffers
    /\ b.reader_index_ <= b.writer_index_ /\ b.writer_index_ <= size(b)
    /\ Fixed(b) => b.writer_index_ <= b.max_size_
=============================================================================
