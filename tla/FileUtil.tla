------------------------------- MODULE FileUtil -------------------------------
(***************************************************************************)
(* FileEnumerator (src/FileEnumerator.cc) and the functions of             *)
(* src/FileUtil.cc, src/FileUtilPosix.cc and src/File.cc that make one     *)
(* pass over files, as operators on a disk.  The functions that other      *)
(* processes can get in the way of are the actions of module Files.        *)
(***************************************************************************)
EXTENDS FileSystem

CONSTANTS kBufferSize,          \* the buffers of copy_file_contents and contents_equal
          kDefaultChunkSize     \* of read_file_to_string_with_max_size

path_exists(disk, p) == Exists(stat(disk, p))
directory_exists(disk, p) == stat(disk, p).kind = "dir"
make_absolute_filepath(disk, p) ==
    IF path_exists(disk, p) THEN Follow(disk, p) ELSE ENOENT
has_parent(p) == ".." \in ToSet(p)

-----------------------------------------------------------------------------
(* FileEnumerator.  A pattern is the set of names that fnmatch accepts,    *)
(* {} if there is none; all is FolderSearchPolicy::ALL.                    *)

FileEnumerator(disk, root_path, recursive, file_type, pattern, all) ==
    [root |-> root_path, recursive |-> recursive, types |-> file_type,
     pattern |-> pattern, all |-> all,
     pending |-> <<root_path>>, entries |-> <<>>, current |-> 0,
     visited |-> IF recursive /\ "links" \notin file_type THEN {st_ino(disk, root_path)} ELSE {}]

is_pattern_matched(e, name) == e.pattern = {} \/ name \in e.pattern
is_type_matched(e, is_dir) == (IF is_dir THEN "dirs" ELSE "files") \in e.types

\* One turn of the readdir loop.  A node whose stat fails has a mode of 0: no directory.
ShowsLinks(e) == "links" \in e.types
AddEntry(e, name, full_path, node, ino) ==
    LET matched == is_pattern_matched(e, name)
        is_dir == node.kind = "dir"
        pushed == e.recursive /\ is_dir /\ (ShowsLinks(e) \/ ino \notin e.visited)
    IN IF ~matched /\ (~e.all \/ ~e.recursive) THEN e
       ELSE [e EXCEPT !.pending = IF pushed THEN Append(@, full_path) ELSE @,
                      !.visited = IF pushed /\ ~ShowsLinks(e) THEN @ \cup {ino} ELSE @,
                      !.entries = IF matched /\ is_type_matched(e, is_dir)
                                  THEN Append(@, [name |-> name, node |-> node]) ELSE @]
ReadEntry(disk, e, name) ==
    LET full_path == Append(e.root, name)
    IN AddEntry(e, name, full_path,
                IF ShowsLinks(e) THEN lstat(disk, full_path) ELSE stat(disk, full_path),
                st_ino(disk, full_path))

MutantSkipsPending(disk, e) ==
    IF e.current < Len(e.entries) \/ e.pending = <<>> THEN e
    ELSE LET opened == [e EXCEPT !.root = Last(e.pending), !.pending = <<>>,
                                 !.entries = <<>>, !.current = 0]
         IN FoldLeft(LAMBDA x, q : ReadEntry(disk, x, Last(q)), opened,
                     SetToSeq(Children(disk, Follow(disk, Last(e.pending)))))

\* The while loop of next, until there is an entry or nothing is pending.
RECURSIVE Refill(_, _)
Refill(disk, e) ==
    LET root == Last(e.pending)
        popped == [e EXCEPT !.root = root, !.pending = Front(@)]
        opened == [popped EXCEPT !.entries = <<>>, !.current = 0]
        read == FoldLeft(LAMBDA x, q : ReadEntry(disk, x, Last(q)), opened,
                         SetToSeq(Children(disk, Follow(disk, root))))
    IN IF e.current < Len(e.entries) \/ e.pending = <<>> THEN e
       ELSE IF ~directory_exists(disk, root) THEN Refill(disk, popped)      \* opendir failed
       ELSE Refill(disk, [read EXCEPT !.pattern = IF e.all THEN @ ELSE {}])

next(disk, e) ==
    Refill(disk, [e EXCEPT !.current = IF e.entries = <<>> THEN 0 ELSE @ + 1])
Ended(e) == e.current >= Len(e.entries)
Entry(e) == e.entries[e.current + 1]
EntryPath(e) == Append(e.root, Entry(e).name)

\* All that next returns, with get_info.
RECURSIVE Enumerated(_, _)
WithRest(disk, n) ==
    IF Ended(n) THEN <<>>
    ELSE <<[path |-> EntryPath(n), node |-> Entry(n).node]>> \o Enumerated(disk, n)
Enumerated(disk, e) == WithRest(disk, next(disk, e))

is_directory_empty(disk, p) ==
    Ended(next(disk, FileEnumerator(disk, p, FALSE, {"files", "dirs"}, {}, FALSE)))

compute_directory_size(disk, p) ==
    FoldLeft(LAMBDA size, x : size + Len(x.node.data), 0,
             Enumerated(disk, FileEnumerator(disk, p, TRUE, {"files"}, {}, FALSE)))

-----------------------------------------------------------------------------
(* Reading and writing contents.                                           *)

\* File::write_at_current_pos: a best effort, until a write fails; what was written, or
\* -1 if nothing was.
RECURSIVE WriteOn(_, _, _, _)
WriteOn(disk, to, data, written) ==
    LET w == write(disk, to, data)
    IN IF w.ret < 0 THEN [disk |-> disk, ret |-> IF written > 0 THEN written ELSE -1]
       ELSE IF w.ret = Len(data) THEN [disk |-> w.disk, ret |-> written + w.ret]
       ELSE WriteOn(w.disk, to, SubSeq(data, w.ret + 1, Len(data)), written + w.ret)
write_at_current_pos(disk, to, data) == WriteOn(disk, to, data, 0)

\* copy_file_contents: the input is read up to kBufferSize at a time; what a write left
\* is written again, until one fails.
RECURSIVE copy_file_contents(_, _, _)
copy_file_contents(disk, data, to) ==
    LET w == write_at_current_pos(disk, to, SubSeq(data, 1, Min({Len(data), kBufferSize})))
    IN IF data = <<>> THEN Done(disk)
       ELSE IF w.ret < 0 THEN Failed(w.disk, "ENOSPC")
       ELSE copy_file_contents(w.disk, SubSeq(data, w.ret + 1, Len(data)), to)

\* contents_equal of two regular files: the end of a file is seen by a read that asks
\* for more.  (Reads of a directory fail without reaching an end.)
RECURSIVE SameFrom(_, _, _)
SameFrom(a, b, pos) ==
    LET taken(s) == SubSeq(s, pos + 1, Min({Len(s), pos + kBufferSize}))
        eof(s) == Len(s) < pos + kBufferSize
    IN IF eof(a) # eof(b) \/ taken(a) # taken(b) THEN FALSE
       ELSE eof(a) \/ SameFrom(a, b, pos + kBufferSize)
contents_equal(disk, p, q) == SameFrom(stat(disk, p).data, stat(disk, q).data, 0)

\* The fread loop of read_file_to_string_with_max_size, so_far bytes read.
MutantReadKeepsExcess(data, max_size, chunk_size, so_far) ==
    [contents |-> SubSeq(data, 1, Min({Len(data), max_size + 1})), ok |-> Len(data) <= max_size]

RECURSIVE ReadChunks(_, _, _, _)
ReadChunks(data, max_size, chunk_size, so_far) ==
    LET this_pass == Min({chunk_size, Len(data) - so_far})
        read(n, ok) == [contents |-> SubSeq(data, 1, n), ok |-> ok]
    IN IF this_pass = 0 THEN read(so_far, TRUE)
       ELSE IF max_size - so_far < this_pass THEN read(max_size, FALSE)
       ELSE IF this_pass < chunk_size THEN read(so_far + this_pass, TRUE)   \* feof
       ELSE ReadChunks(data, max_size, IF so_far = 0 THEN kDefaultChunkSize ELSE chunk_size,
                       so_far + this_pass)

\* The size the file says it has is a hint, and may be wrong.
read_file_to_string_with_max_size(disk, p, max_size, hint) ==
    LET size == IF hint <= 0 THEN kDefaultChunkSize - 1 ELSE hint
    IN IF has_parent(p) \/ stat(disk, p).kind # "file"
       THEN [contents |-> <<>>, ok |-> FALSE]
       ELSE ReadChunks(stat(disk, p).data, max_size, Min({size, max_size}) + 1, 0)
===============================================================================
