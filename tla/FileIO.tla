-------------------------------- MODULE FileIO --------------------------------
(***************************************************************************)
(* The contents of a File: its reads, writes, seeks and lengths, and the   *)
(* functions of FileUtil that read or compare whole contents.  An open     *)
(* file is [content, pos, append].  The kernel may move fewer bytes than   *)
(* asked for: grants has, per system call, the most it moves, 0 for a call *)
(* that fails.                                                             *)
(***************************************************************************)
EXTENDS Strings

CR == 13
LF == 10

-----------------------------------------------------------------------------
(* The kernel, external.                                                   *)

Moved(asked, left, grant) == IF grant = 0 THEN -1 ELSE Min({asked, grant, Max({0, left})})

\* Bytes put beyond the end leave a hole of zeros.
PutAt(content, offset, data) ==
    IF data = <<>> THEN content
    ELSE [i \in 1 .. Max({Len(content), offset + Len(data)}) |->
            IF i \in offset + 1 .. offset + Len(data) THEN data[i - offset]
            ELSE IF i <= Len(content) THEN content[i] ELSE 0]

-----------------------------------------------------------------------------
(* File.                                                                   *)

Outcome(data, rv) == [data |-> data, result |-> IF data # <<>> THEN Len(data) ELSE rv]

\* The loop of read and read_at_current_pos, from offset on.
RECURSIVE ReadLoop(_, _, _, _, _)
ReadLoop(content, offset, size, grants, data) ==
    LET at_byte == offset + Len(data)
        rv == Moved(size - Len(data), Len(content) - at_byte, Head(grants))
        more == data \o SubSeq(content, at_byte + 1, at_byte + rv)
    IN IF rv <= 0 THEN Outcome(data, rv)
       ELSE IF Len(more) < size THEN ReadLoop(content, offset, size, Tail(grants), more)
       ELSE Outcome(more, rv)

MutantReadNoBestEffort(f, offset, size, grants) ==
    LET rv == Moved(size, Len(f.content) - offset, Head(grants))
    IN Outcome(SubSeq(f.content, offset + 1, offset + rv), rv)

File_read(f, offset, size, grants) ==
    IF size < 0 THEN Outcome(<<>>, -1) ELSE ReadLoop(f.content, offset, size, grants, <<>>)

read_at_current_pos(f, size, grants) ==
    LET r == IF size < 0 THEN Outcome(<<>>, -1)
             ELSE ReadLoop(f.content, f.pos, size, grants, <<>>)
    IN [file |-> [f EXCEPT !.pos = @ + Len(r.data)], data |-> r.data, result |-> r.result]

\* The loops of write and write_at_current_pos: pwrite at the offset, write at pos, or
\* at the end of a file that is open for appending.
RECURSIVE WriteLoop(_, _, _, _, _)
WriteLoop(f, offset, data, grants, done) ==
    LET rv == Moved(Len(data) - done, Len(data) - done, Head(grants))
        written == [f EXCEPT !.content = PutAt(@, offset, SubSeq(data, done + 1, done + rv))]
    IN IF rv <= 0 THEN [file |-> f, result |-> IF done # 0 THEN done ELSE rv]
       ELSE IF done + rv < Len(data)
            THEN WriteLoop(written, offset + rv, data, Tail(grants), done + rv)
       ELSE [file |-> written, result |-> done + rv]

File_write_at_current_pos(f, data, grants) ==
    LET start == IF f.append THEN Len(f.content) ELSE f.pos
        w == WriteLoop(f, start, data, grants, 0)
    IN [w EXCEPT !.file.pos = IF w.result <= 0 THEN f.pos ELSE start + w.result]

\* "O_APPEND flags called open() will ignore offset".
File_write(f, offset, data, grants) ==
    IF f.append THEN File_write_at_current_pos(f, data, grants)
    ELSE WriteLoop(f, offset, data, grants, 0)

\* lseek refuses a negative position.
seek(f, whence, offset) ==
    LET start == CASE whence = "FROM_BEGIN" -> 0
                   [] whence = "FROM_CURRENT" -> f.pos
                   [] whence = "FROM_END" -> Len(f.content)
    IN IF start + offset < 0 THEN [file |-> f, result |-> -1]
       ELSE [file |-> [f EXCEPT !.pos = start + offset], result |-> start + offset]

set_length(f, length) ==
    [f EXCEPT !.content = [i \in 1 .. length |-> IF i <= Len(@) THEN @[i] ELSE 0]]

-----------------------------------------------------------------------------
(* FileUtil.                                                               *)

\* read_from_fd: all the bytes, or false.
read_from_fd(content, bytes, grants) ==
    bytes = 0 \/ Len(ReadLoop(content, 0, bytes, grants, <<>>).data) = bytes

\* read_file: one ::read, whatever it gives.
read_file(content, max_size, grants) == Moved(max_size, Len(content), Head(grants))

\* truncate_FILE cuts the file off where the stream is.
truncate_FILE(f) == set_length(f, f.pos)

\* std::getline from pos on.
getline(content, pos) ==
    LET lf == find_char(content, LF, pos)
    IN IF lf = npos THEN [line |-> substr(content, pos, npos), next |-> Len(content), eof |-> TRUE]
       ELSE [line |-> substr(content, pos, lf - pos), next |-> lf + 1, eof |-> FALSE]

\* Everything after the last character that is not a line end is cleared.
StripEol(line) ==
    LET end == find_last_not_of(line, <<CR, LF>>, npos)
    IN IF end = npos THEN <<>> ELSE substr(line, 0, end + 1)

RECURSIVE TextEqualFrom(_, _, _, _)
SameLines(file1, file2, line1, line2) ==
    /\ line1.eof = line2.eof
    /\ StripEol(line1.line) = StripEol(line2.line)
    /\ line1.eof \/ TextEqualFrom(file1, file2, line1.next, line2.next)
TextEqualFrom(file1, file2, pos1, pos2) ==
    SameLines(file1, file2, getline(file1, pos1), getline(file2, pos2))

text_contents_equal(file1, file2) == TextEqualFrom(file1, file2, 0, 0)
===============================================================================
