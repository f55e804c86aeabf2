----------------------------- MODULE Buffering -----------------------------
(***************************************************************************)
(* Byte buffers in use: any sequence of the public operations of           *)
(* include/ByteBuffer.h and NetBuffer.h on a few buffers, some of them     *)
(* fixed.  read_fd is called on unlimited buffers only, as TcpConnection   *)
(* does.                                                                   *)
(***************************************************************************)
EXTENDS ByteBuffer

CONSTANTS Names,        \* the buffers
          Limits,       \* the max_size the program constructs buffers with
          InitSize,     \* the init_size
          Chunks,       \* the data it appends and the peer sends
          MaxSize       \* the bytes a buffer_ may grow to

ASSUME SizesAssumption == /\ Limits \subseteq Nat \cup {kUnLimitSize}
                          /\ InitSize \in Nat
                          /\ Chunks \subseteq Seq(Byte)
                          /\ MaxSize \in Nat

VARIABLES buf,      \* the buffers
          last_call \* the last call: the bytes given or returned, and its result

bvars == <<buf, last_call>>

BuffersInit == /\ \E limit \in [Names -> Limits] :
                      buf = [b \in Names |-> ByteBuffer(limit[b], InitSize)]
               /\ last_call = [data |-> <<>>, ok |-> TRUE]

Becomes(b, new) == buf' = [buf EXCEPT ![b] = new]
Called(data, ok) == last_call' = [data |-> data, ok |-> ok]

AppendTo(b) ==
    \E data \in Chunks :
        /\ buf[b].writer_index_ + Len(data) <= MaxSize
        /\ Becomes(b, append(buf[b], data)) /\ Called(data, Appends(buf[b], Len(data)))

\* sockets::readv returns any number of bytes up to what it was given room for.
ReadFd(b) ==
    \E data \in Chunks :
        /\ ~Fixed(buf[b])
        /\ Len(data) <= MostRead(buf[b])
        /\ buf[b].writer_index_ + Len(data) <= MaxSize
        /\ Becomes(b, read_fd(buf[b], data)) /\ Called(data, TRUE)

\* taken_as_string, and has_read after the caller looked at the bytes.
TakenAsString(b) ==
    \E n \in 0 .. readable_bytes(buf[b]) :
        /\ Becomes(b, has_read(buf[b], n)) /\ Called(SubSeq(to_string(buf[b]), 1, n), TRUE)

\* has_read_all.
HasReadAll(b) == Becomes(b, reset(buf[b])) /\ Called(to_string(buf[b]), TRUE)

Shrink(b) == Becomes(b, shrink(buf[b])) /\ Called(<<>>, TRUE)

\* ByteBuffer b(std::move(a)), and b = std::move(a).
MoveConstruct(a, b) == buf' = [buf EXCEPT ![b] = MoveTo(buf[a]), ![a] = MoveFrom(buf[a])]
                       /\ UNCHANGED last_call
MoveAssign(a, b) == buf' = [buf EXCEPT ![b] = buf[a], ![a] = AssignFrom(buf[b])]
                    /\ UNCHANGED last_call

BuffersNext ==
    \E b \in Names : \/ AppendTo(b) \/ ReadFd(b) \/ TakenAsString(b) \/ HasReadAll(b) \/ Shrink(b)
                     \/ \E a \in Names \ {b} : MoveConstruct(a, b) \/ MoveAssign(a, b)

BuffersSpec == BuffersInit /\ [][BuffersNext]_bvars

-----------------------------------------------------------------------------
\* The indices stay in the order the picture in ByteBuffer.h gives them, in
\* every buffer, moved-from and shrunk ones included: no begin_read() or
\* begin_write() points outside buffer_.
AllShaped == \A b \in Names : Shaped(buf[b])

content == [b \in Names |-> to_string(buf[b])]
bounded == [b \in Names |-> Fixed(buf[b])]

Queue == INSTANCE ByteQueue

\* The buffers are queues of bytes: whatever is resized, migrated to the
\* front, spilled into extrabuf or moved, no byte is lost, repeated or
\* reordered, and an unlimited buffer never refuses one.
BuffersAreQueues == Queue!Spec
=============================================================================
