--------------------------------- MODULE Files ---------------------------------
(***************************************************************************)
(* The functions of src/FileUtilPosix.cc, src/FileUtil.cc and src/File.cc  *)
(* that take several steps on a disk which others use at the same time:    *)
(* create_directory, delete_file, copy_directory, move_file, copy_file,    *)
(* write_file, append_to_file and opening a File.  Each process makes one  *)
(* call; a step is a system call, or one turn of a loop.                   *)
(***************************************************************************)
EXTENDS FileUtil

CONSTANTS Procs, Scenarios,     \* the disks and calls to start from
          MaxRoom               \* bound: the room there is on a disk

VARIABLES disk,
          before,               \* history: the disk at the start
          proc                  \* the call of each process, and how far it is

fvars == <<disk, before, proc>>

\* A call at its start; exists is what the disk said of its path when it returned
\* (history).
Begun(call) ==
    [call |-> call, pc |-> IF call.op = "none" THEN "returned" ELSE "begin",
     then |-> "return", ok |-> TRUE, created |-> FALSE, exists |-> FALSE,
     e |-> [entries |-> <<>>], stack |-> <<>>, path |-> call.path,
     node |-> Dir, base |-> <<>>, rest |-> <<>>, at |-> <<>>]

FilesInit ==
    \E s \in Scenarios, room \in 0 .. MaxRoom :
        /\ disk = [node |-> s.node, room |-> room]
        /\ before = disk
        /\ proc = [p \in Procs |-> Begun(s.calls[p])]

\* How every step of a process ends: on a new disk, in a new state of the call.
Step(p, newDisk, c) ==
    disk' = newDisk /\ proc' = [proc EXCEPT ![p] = c] /\ UNCHANGED before

Returned(newDisk, c, ok) ==
    [c EXCEPT !.pc = "returned", !.ok = ok, !.exists = Exists(lstat(newDisk, c.call.path))]
Return(p, newDisk, c, ok) == Step(p, newDisk, Returned(newDisk, c, ok))
At(p, pc) == proc[p].pc = pc
Calls(p, op) == At(p, "begin") /\ proc[p].call.op = op

-----------------------------------------------------------------------------
(* create_directory_and_get_error.                                         *)

\* The path and all its parents, from the root down.
CreateBegin(p) ==
    /\ Calls(p, "create_directory")
    /\ LET c == proc[p]
       IN Step(p, disk, [c EXCEPT !.pc = "exists",
                !.stack = [i \in 1 .. Len(c.path) + 1 |-> SubSeq(c.path, 1, i - 1)]])

CreateExists(p) ==
    /\ At(p, "exists")
    /\ LET c == proc[p]
       IN IF c.stack = <<>> THEN Return(p, disk, c, TRUE)
          ELSE IF directory_exists(disk, Head(c.stack))
          THEN Step(p, disk, [c EXCEPT !.stack = Tail(@)])
          ELSE Step(p, disk, [c EXCEPT !.pc = "mkdir"])

MutantCreateNoRecheck(p) ==
    /\ At(p, "mkdir")
    /\ LET c == proc[p]  made == mkdir(disk, Head(c.stack))
       IN IF made.ok THEN Step(p, made.disk, [c EXCEPT !.stack = Tail(@), !.pc = "exists"])
          ELSE Return(p, disk, c, FALSE)

CreateMkdir(p) ==
    /\ At(p, "mkdir")
    /\ LET c == proc[p]  made == mkdir(disk, Head(c.stack))
       IN IF made.ok THEN Step(p, made.disk, [c EXCEPT !.stack = Tail(@), !.pc = "exists"])
          ELSE Step(p, disk, [c EXCEPT !.pc = "recheck"])

CreateRecheck(p) ==
    /\ At(p, "recheck")
    /\ LET c == proc[p]
       IN IF directory_exists(disk, Head(c.stack))
          THEN Step(p, disk, [c EXCEPT !.stack = Tail(@), !.pc = "exists"])
          ELSE Return(p, disk, c, FALSE)

-----------------------------------------------------------------------------
(* delete_file; move_file deletes the source with it, then is "moved".     *)

Traversal(path) ==
    FileEnumerator(disk, path, TRUE, {"files", "dirs", "links"}, {}, FALSE)

\* What follows a lstat: the call as it goes on from there.
Deleting(c) ==
    LET node == lstat(disk, c.path)
    IN IF node.kind # "dir" THEN [c EXCEPT !.pc = "unlink"]
       ELSE IF ~c.call.recursive THEN [c EXCEPT !.pc = "rmdir"]
       ELSE [c EXCEPT !.pc = "traverse", !.ok = TRUE, !.stack = <<c.path>>,
                      !.e = Traversal(c.path)]

\* move_file does not look at the result.
DeleteReturn(p, newDisk, c, ok) == Return(p, newDisk, c, ok \/ c.then = "moved")

DeleteBegin(p) ==
    /\ Calls(p, "delete_file") \/ At(p, "delete")
    /\ LET c == proc[p]  kind == lstat(disk, c.path).kind
       IN IF ~Exists(lstat(disk, c.path))
          THEN DeleteReturn(p, disk, c, kind \in {"ENOENT", "ENOTDIR"})
          ELSE Step(p, disk, Deleting(c))

DeleteOne(p) ==
    /\ proc[p].pc \in {"unlink", "rmdir"}
    /\ LET c == proc[p]
           r == IF c.pc = "unlink" THEN unlink(disk, c.path) ELSE rmdir(disk, c.path)
       IN DeleteReturn(p, r.disk, c, r.ok)

\* Directories are kept for later, everything else is unlinked, links included.
DeleteEntry(p, c, e) ==
    LET r == unlink(disk, EntryPath(e))
    IN IF Ended(e) THEN Step(p, disk, [c EXCEPT !.e = e, !.pc = "rmdirs"])
       ELSE IF Entry(e).node.kind = "dir"
       THEN Step(p, disk, [c EXCEPT !.e = e, !.stack = Append(@, EntryPath(e))])
       ELSE Step(p, r.disk, [c EXCEPT !.e = e, !.ok = @ /\ r.ok])
DeleteTraverse(p) == At(p, "traverse") /\ DeleteEntry(p, proc[p], next(disk, proc[p].e))

MutantDeleteForgets(p) ==
    /\ At(p, "rmdirs")
    /\ LET c == proc[p]  r == rmdir(disk, Last(c.stack))
       IN IF Len(c.stack) = 1 THEN DeleteReturn(p, r.disk, c, c.ok)
          ELSE Step(p, r.disk, [c EXCEPT !.stack = Front(@)])

DeleteDirectories(p) ==
    /\ At(p, "rmdirs")
    /\ LET c == proc[p]  r == rmdir(disk, Last(c.stack))
       IN IF Len(c.stack) = 1 THEN DeleteReturn(p, r.disk, c, c.ok /\ r.ok)
          ELSE Step(p, r.disk, [c EXCEPT !.stack = Front(@), !.ok = @ /\ r.ok])

-----------------------------------------------------------------------------
(* do_copy_directory.                                                      *)

\* The copy is through: move_file then deletes the source.
CopyReturn(p, newDisk, c, ok) ==
    IF c.then = "move" /\ ok
    THEN Step(p, newDisk, [c EXCEPT !.pc = "delete", !.then = "moved", !.path = c.call.path])
    ELSE Return(p, newDisk, c, ok)

\* The destination may not be the source, nor within it.
Overlap(from, to) ==
    LET real_from == make_absolute_filepath(disk, from)
        real_to == make_absolute_filepath(disk, IF path_exists(disk, to) THEN to ELSE ParentOf(to))
    IN ENOENT \in {real_from, real_to} \/ real_to = real_from \/ Under(real_from, real_to)

CopyBegin(p) ==
    /\ Calls(p, "copy_directory") \/ At(p, "copy")
    /\ LET c == proc[p]  from == c.call.path  to == c.call.to
           types == {"files", "links"} \cup (IF c.call.recursive THEN {"dirs"} ELSE {})
       IN IF Overlap(from, to) \/ ~path_exists(disk, from) THEN Return(p, disk, c, FALSE)
          ELSE Step(p, disk,
                [c EXCEPT !.pc = "copying", !.path = from, !.node = stat(disk, from),
                    !.e = FileEnumerator(disk, from, c.call.recursive, types, {}, FALSE),
                    !.base = IF c.call.recursive /\ directory_exists(disk, to)
                             THEN ParentOf(from) ELSE from])

\* advance_enumerator_with_stat: the end of one turn of the loop.
CopyFrom(p, newDisk, c, e) ==
    IF Ended(e) THEN CopyReturn(p, newDisk, [c EXCEPT !.e = e], TRUE)
    ELSE Step(p, newDisk, [c EXCEPT !.e = e, !.path = EntryPath(e), !.node = Entry(e).node])
Advance(p, newDisk, c) == CopyFrom(p, newDisk, c, next(newDisk, c.e))

MutantCopyIgnoresFull(p) ==
    /\ At(p, "copying")
    /\ LET c == proc[p]
           target == c.call.to \o SubSeq(c.path, Len(c.base) + 1, Len(c.path))
           made == mkdir(disk, target)
           out == open(disk, target, TRUE, c.call.excl, ~c.call.excl, TRUE)
           copied == copy_file_contents(out.disk, stat(out.disk, c.path).data, out.at)
       IN IF c.node.kind = "dir"
          THEN IF made.ok \/ made.errno = "EEXIST" THEN Advance(p, made.disk, c)
               ELSE Return(p, disk, c, FALSE)
          ELSE IF c.node.kind # "file" THEN Advance(p, disk, c)
          ELSE IF ~out.ok THEN Return(p, disk, c, FALSE) ELSE Advance(p, copied.disk, c)

\* One turn: a directory is made, a regular file copied, anything else skipped.
CopyEntry(p) ==
    /\ At(p, "copying")
    /\ LET c == proc[p]
           target == c.call.to \o SubSeq(c.path, Len(c.base) + 1, Len(c.path))
           made == mkdir(disk, target)
           infile == stat(disk, c.path)
           out == open(disk, target, TRUE, c.call.excl, ~c.call.excl, TRUE)
           copied == copy_file_contents(out.disk, stat(out.disk, c.path).data, out.at)
       IN IF c.node.kind = "dir"
          THEN IF made.ok \/ (made.errno = "EEXIST" /\ ~c.call.excl) THEN Advance(p, made.disk, c)
               ELSE Return(p, disk, c, FALSE)
          ELSE IF c.node.kind # "file" THEN Advance(p, disk, c)
          ELSE IF ~Exists(infile) THEN Return(p, disk, c, FALSE)
          ELSE IF infile.kind # "file" THEN Advance(p, disk, c)
          ELSE IF ~out.ok THEN Return(p, out.disk, c, FALSE)
          ELSE IF copied.ok THEN Advance(p, copied.disk, c)
          ELSE Return(p, copied.disk, c, FALSE)

-----------------------------------------------------------------------------
(* move_file, copy_file, replace_file.                                     *)

\* move_unsafe: if the target exists, both are directories or neither is.
MoveBegin(p) ==
    /\ Calls(p, "move_file")
    /\ LET c == proc[p]  from == stat(disk, c.call.path)  to == stat(disk, c.call.to)
       IN IF \/ has_parent(c.call.path) \/ has_parent(c.call.to)
             \/ Exists(to) /\ (~Exists(from) \/ (to.kind = "dir") # (from.kind = "dir"))
          THEN Return(p, disk, c, FALSE)
          ELSE Step(p, disk, [c EXCEPT !.pc = "rename", !.then = "move"])

ReplaceFile(p) ==
    /\ Calls(p, "replace_file")
    /\ LET r == rename(disk, proc[p].call.path, proc[p].call.to)
       IN Return(p, r.disk, proc[p], r.ok)

MoveRename(p) ==
    /\ At(p, "rename")
    /\ LET c == proc[p]  r == rename(disk, c.call.path, c.call.to)
       IN IF r.ok THEN Return(p, r.disk, c, TRUE) ELSE Step(p, disk, [c EXCEPT !.pc = "copy"])

CopyFile(p) ==
    /\ Calls(p, "copy_file")
    /\ LET c == proc[p]  infile == Follow(disk, c.call.path)
           out == open(disk, c.call.to, TRUE, FALSE, TRUE, TRUE)
           copied == copy_file_contents(out.disk, NodeAt(out.disk, infile).data, out.at)
       IN IF \/ has_parent(c.call.path) \/ has_parent(c.call.to)
             \/ ~path_exists(disk, c.call.path)
          THEN Return(p, disk, c, FALSE)
          ELSE IF ~out.ok \/ stat(disk, c.call.path).kind = "dir" THEN Return(p, out.disk, c, FALSE)
          ELSE Return(p, copied.disk, c, copied.ok)

-----------------------------------------------------------------------------
(* write_file, append_to_file, and File's constructor.                     *)

WriteBegin(p) ==
    /\ Calls(p, "write_file") \/ Calls(p, "append_to_file")
    /\ LET c == proc[p]  creat == c.call.op = "write_file"
           out == open(disk, c.call.path, creat, FALSE, creat, TRUE)
       IN IF ~out.ok THEN Return(p, out.disk, c, FALSE)
          ELSE Step(p, out.disk, [c EXCEPT !.pc = "write", !.at = out.at, !.rest = c.call.data])

MutantWriteOnce(p) ==
    /\ At(p, "write")
    /\ LET c == proc[p]
       IN \E n \in 1 .. Len(c.rest) :
            Return(p, write(disk, c.at, SubSeq(c.rest, 1, n)).disk, c, disk.room > 0)

\* write_to_fd: a write may take only some of the bytes.
WriteSome(p) ==
    /\ At(p, "write")
    /\ LET c == proc[p]
       IN IF c.rest = <<>> THEN Return(p, disk, c, TRUE)
          ELSE \E n \in 1 .. Len(c.rest) :
                LET w == write(disk, c.at, SubSeq(c.rest, 1, n))
                IN IF w.ret < 0 THEN Return(p, disk, c, FALSE)
                   ELSE Step(p, w.disk, [c EXCEPT !.rest = SubSeq(@, w.ret + 1, Len(@))])

\* File::initialize with FLAG_OPEN_ALWAYS: opened if it is there, else created.
OpenAlways(p) ==
    /\ Calls(p, "open_always")
    /\ LET c == proc[p]  out == open(disk, c.call.path, FALSE, FALSE, FALSE, TRUE)
       IN IF has_parent(c.call.path) THEN Return(p, disk, c, FALSE)
          ELSE IF out.ok THEN Return(p, disk, c, TRUE)
          ELSE Step(p, disk, [c EXCEPT !.pc = "create"])

MutantOpenCreateShared(p) ==
    /\ At(p, "create")
    /\ LET c == proc[p]  out == open(disk, c.call.path, TRUE, FALSE, FALSE, TRUE)
       IN Return(p, out.disk, [c EXCEPT !.created = out.ok], out.ok)

OpenCreate(p) ==
    /\ At(p, "create")
    /\ LET c == proc[p]  out == open(disk, c.call.path, TRUE, c.call.excl, FALSE, TRUE)
       IN Return(p, out.disk, [c EXCEPT !.created = out.ok], out.ok)

FilesStep(p) ==
    \/ CreateBegin(p) \/ CreateExists(p) \/ CreateMkdir(p) \/ CreateRecheck(p)
    \/ DeleteBegin(p) \/ DeleteOne(p) \/ DeleteTraverse(p) \/ DeleteDirectories(p)
    \/ CopyBegin(p) \/ CopyEntry(p)
    \/ MoveBegin(p) \/ MoveRename(p) \/ ReplaceFile(p) \/ CopyFile(p)
    \/ WriteBegin(p) \/ WriteSome(p) \/ OpenAlways(p) \/ OpenCreate(p)

FilesNext == \E p \in Procs : FilesStep(p)
FilesSpec == FilesInit /\ [][FilesNext]_fvars

-----------------------------------------------------------------------------
(* Properties.                                                             *)

Within(p, q) == p = q \/ Under(p, q)
Others(p) == {proc[o].call.op : o \in Procs \ {p}}
Files(d, p) == {q \in DOMAIN d.node : Within(p, q) /\ d.node[q].kind = "file"}

\* In every state of move_file, across devices too, and whether it succeeds, fails on a
\* full disk or stops there, each regular file of the source is whole, where it was or
\* where it goes (under the target, or in it if that is a directory); what it returns is
\* true only if all of them have arrived.  Others leave the source alone.
NothingLost ==
    \A p \in Procs :
        LET c == proc[p]  from == c.call.path
            rel(q, n) == SubSeq(q, n + 1, Len(q))
            has(q, x) == Has(disk, x) /\ disk.node[x] = before.node[q]
            arrived(q) == \E t \in {c.call.to, Follow(before, c.call.to)} :
                            has(q, t \o rel(q, Len(from))) \/ has(q, t \o rel(q, Len(from) - 1))
        IN (c.call.op = "move_file" /\ Others(p) \subseteq {"none", "create_directory"}) =>
            \A q \in Files(before, from) :
                /\ has(q, q) \/ arrived(q)
                /\ (c.pc = "returned" /\ c.ok) => arrived(q)

\* The paths a call may change: copies leave the source alone, links are not followed
\* when they are removed, and are when they are written through.
Touches(call, q) ==
    CASE call.op = "none" -> FALSE
      [] call.op = "create_directory" -> Within(q, call.path)
      [] call.op = "delete_file" -> Within(NoFollow(before, call.path), q)
      [] call.op \in {"copy_directory", "copy_file"} ->
            Within(call.to, q) \/ Within(Follow(before, call.to), q)
      [] call.op \in {"move_file", "replace_file"} ->
            \E x \in {call.path, call.to, Follow(before, call.to)} : Within(x, q)
      [] OTHER -> Within(Follow(before, call.path), q)

\* Nothing outside the paths that the calls name is created, changed or removed: the
\* recursive deletion and copy never leave their tree through a symbolic link.
OutsideUntouched ==
    \A q \in DOMAIN before.node \cup DOMAIN disk.node :
        (\A p \in Procs : ~Touches(proc[p].call, q)) =>
            /\ Has(before, q) /\ Has(disk, q) /\ disk.node[q] = before.node[q]

\* delete_file returns true only if the path was gone after its last rmdir or unlink,
\* whatever others put into the tree meanwhile; alone, and not on a mount point, a
\* recursive one succeeds.
DeleteMeansGone ==
    \A p \in Procs :
        LET c == proc[p]
        IN (c.call.op = "delete_file" /\ c.pc = "returned") =>
            /\ c.ok => ~c.exists
            /\ /\ c.call.recursive /\ Others(p) = {"none"} /\ c.call.path # <<>>
               /\ \A m \in Mounts : ~Within(c.call.path, m)
               /\ lstat(before, c.call.path).kind # "ELOOP"
               => c.ok

\* Processes that create the same tree at the same time all succeed, unless something
\* that is no directory is in the way or the disk is full; and of those that open the
\* same file with FLAG_OPEN_ALWAYS and an exclusive flag, at most one has created it.
CreatorsAgree ==
    /\ \A p \in Procs :
        LET c == proc[p]
            free == \A i \in 0 .. Len(c.call.path) :
                        stat(before, SubSeq(c.call.path, 1, i)).kind \in {"dir", "ENOENT"}
        IN (/\ c.call.op = "create_directory" /\ c.pc = "returned"
            /\ Others(p) \subseteq {"none", "create_directory"}) =>
            /\ c.ok => c.exists
            /\ free /\ disk.room > 0 => c.ok
    /\ \A p, o \in Procs :
        (/\ p # o /\ proc[p].created /\ proc[o].created
         /\ proc[p].call.path = proc[o].call.path) => ~proc[p].call.excl \/ ~proc[o].call.excl

IsSubsequence(s, t) ==
    \E f \in [DOMAIN s -> DOMAIN t] :
        /\ \A i, j \in DOMAIN s : i < j => f[i] < f[j]
        /\ \A i \in DOMAIN s : s[i] = t[f[i]]

\* append_to_file keeps what was there, and all of the data is there in order when it
\* returns true, however the writes are split and another appender's come between;
\* write_file leaves exactly the data.
WritesWhole ==
    \A p \in Procs :
        LET c == proc[p]  now == stat(disk, c.call.path)  was == stat(before, c.call.path)
        IN /\ (c.call.op = "append_to_file" /\ Others(p) \subseteq {"none", "append_to_file"}) =>
                /\ IsPrefix(was.data, now.data)
                /\ (c.pc = "returned" /\ c.ok) =>
                    IsSubsequence(c.call.data, SubSeq(now.data, Len(was.data) + 1, Len(now.data)))
           /\ (c.call.op = "write_file" /\ Others(p) = {"none"} /\ c.pc = "returned" /\ c.ok) =>
                now.data = c.call.data

\* On every disk that the calls leave behind: the enumerator returns each entry of the tree that the
\* pattern and the policy ask for once, and never follows a link out of it; the size is
\* that of the files in the tree (on one device); equal files are told from different
\* ones at the buffers' ends; a file is read whole, or cut at the most that was asked
\* for, whatever size it claimed to have.
QueriesAgree ==
    (\A p \in Procs : proc[p].pc = "returned") =>
    LET dirs == {d \in DOMAIN disk.node : disk.node[d].kind = "dir"}
        files == Files(disk, <<>>)
    IN /\ \A d \in dirs :
            LET inner == {q \in DOMAIN disk.node : Under(d, q)}
                lists(recursive, pattern, all, S) ==
                    \A f \in {FileEnumerator(disk, d, recursive, {"files", "dirs", "links"},
                                             pattern, all)} :
                        \A e \in {Enumerated(disk, f)} :
                            Len(e) = Cardinality(S) /\ {e[i].path : i \in DOMAIN e} = S
            IN /\ lists(TRUE, {}, FALSE, inner)
               /\ lists(TRUE, {"b", "f"}, TRUE, {q \in inner : Last(q) \in {"b", "f"}})
               /\ lists(TRUE, {"b", "f"}, FALSE, {q \in inner : q[Len(d) + 1] \in {"b", "f"}})
               /\ lists(FALSE, {"b", "f"}, TRUE, {q \in Children(disk, d) : Last(q) \in {"b", "f"}})
               /\ is_directory_empty(disk, d) <=> inner = {}
               /\ (\A q \in inner : disk.node[q].kind # "link" /\ q \notin Mounts) =>
                    compute_directory_size(disk, d) =
                        MapThenSumSet(LAMBDA q : Len(disk.node[q].data), inner)
       /\ \A a, b \in files : contents_equal(disk, a, b) <=> disk.node[a].data = disk.node[b].data
       /\ \A f \in files, max \in 0 .. 4, hint \in 0 .. 4 :
            read_file_to_string_with_max_size(disk, f, max, hint) =
                [contents |-> SubSeq(disk.node[f].data, 1, Min({max, Len(disk.node[f].data)})),
                 ok |-> Len(disk.node[f].data) <= max]

\* The functions keep what they promise, alone, on full disks, and with others at work in
\* the same tree.
FilesAgree ==
    /\ NothingLost /\ OutsideUntouched /\ DeleteMeansGone
    /\ CreatorsAgree /\ WritesWhole /\ QueriesAgree
===============================================================================
