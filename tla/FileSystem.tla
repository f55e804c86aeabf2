------------------------------ MODULE FileSystem ------------------------------
(***************************************************************************)
(* The system calls that src/FileUtil.cc, src/FileUtilPosix.cc,            *)
(* src/FileEnumerator.cc and src/File.cc make, as operators on a disk.     *)
(* The file system is external: it is modelled as far as they tell its     *)
(* answers apart.                                                          *)
(*                                                                         *)
(* A path is the sequence of its components from the root (module FilePath *)
(* is about how a string is taken apart).  A disk has the node every path  *)
(* names, and room for so many more nodes and bytes: a full disk is the    *)
(* fault that the calls have to cope with.                                 *)
(***************************************************************************)
EXTENDS Integers, SequencesExt, FiniteSetsExt

CONSTANTS Mounts,               \* the directories where another device begins
          MaxHops               \* bound: the symbolic links a lookup follows

Dir == [kind |-> "dir", data |-> <<>>, to |-> <<>>]
RegularFile(data) == [kind |-> "file", data |-> data, to |-> <<>>]
Link(to) == [kind |-> "link", data |-> <<>>, to |-> to]

\* What a lookup ends in if it does not end in a path.
ENOENT == <<"ENOENT">>
ENOTDIR == <<"ENOTDIR">>
ELOOP == <<"ELOOP">>
Errors == {ENOENT, ENOTDIR, ELOOP}

ParentOf(p) == IF p = <<>> THEN p ELSE Front(p)
Under(p, q) == IsStrictPrefix(p, q)
Has(disk, p) == p \in DOMAIN disk.node
Children(disk, p) == {q \in DOMAIN disk.node : q # <<>> /\ Front(q) = p}

\* Resolution of the components in rest from a directory; links are absolute, and no
\* component is "..".
RECURSIVE Walk(_, _, _, _)
Walk(disk, from, rest, hops) ==
    IF rest = <<>> THEN from
    ELSE IF ~Has(disk, from) THEN ENOENT
    ELSE IF disk.node[from].kind # "dir" THEN ENOTDIR
    ELSE LET p == Append(from, Head(rest))
         IN IF Has(disk, p) /\ disk.node[p].kind = "link"
            THEN IF hops = 0 THEN ELOOP
                 ELSE Walk(disk, <<>>, disk.node[p].to \o Tail(rest), hops - 1)
            ELSE Walk(disk, p, Tail(rest), hops)

\* Where a path leads (realpath), and where its last component is, not followed.
Follow(disk, p) == Walk(disk, <<>>, p, MaxHops)
EntryOf(disk, dir, name) ==
    IF dir \in Errors THEN dir
    ELSE IF ~Has(disk, dir) THEN ENOENT
    ELSE IF disk.node[dir].kind # "dir" THEN ENOTDIR ELSE Append(dir, name)
NoFollow(disk, p) ==
    IF p = <<>> THEN p ELSE EntryOf(disk, Follow(disk, ParentOf(p)), Last(p))

\* stat and lstat: the node, or what is missing.
Missing(e) == [kind |-> e[1], data |-> <<>>, to |-> <<>>]
NodeAt(disk, q) == IF q \in Errors THEN Missing(q)
                   ELSE IF Has(disk, q) THEN disk.node[q] ELSE Missing(ENOENT)
stat(disk, p) == NodeAt(disk, Follow(disk, p))
lstat(disk, p) == NodeAt(disk, NoFollow(disk, p))
Exists(node) == node.kind \in {"dir", "file", "link"}

\* st_ino: the roots of all devices have the same number.
st_ino(disk, p) == LET q == Follow(disk, p) IN IF q \in Mounts THEN <<>> ELSE q
Device(q) == {m \in Mounts : m = q \/ Under(m, q)}

-----------------------------------------------------------------------------
(* Calls that change the disk; ok is a result of 0, or a descriptor.       *)

Done(disk) == [disk |-> disk, ok |-> TRUE, errno |-> "0"]
Failed(disk, e) == [disk |-> disk, ok |-> FALSE, errno |-> e]
Put(disk, q, node) ==
    [node |-> [x \in DOMAIN disk.node \cup {q} |-> IF x = q THEN node ELSE disk.node[x]],
     room |-> disk.room - 1]
Without(disk, S) == [disk EXCEPT !.node = [x \in DOMAIN @ \ S |-> @[x]]]

Create(disk, q, node) ==
    IF q \in Errors THEN Failed(disk, q[1])
    ELSE IF Has(disk, q) THEN Failed(disk, "EEXIST")
    ELSE IF ~Has(disk, ParentOf(q)) THEN Failed(disk, "ENOENT")
    ELSE IF disk.room = 0 THEN Failed(disk, "ENOSPC") ELSE Done(Put(disk, q, node))

mkdir(disk, p) == Create(disk, NoFollow(disk, p), Dir)

\* The calls resolve their paths; what they do is in terms of where these lead.
UnlinkAt(disk, q) ==
    IF NodeAt(disk, q).kind \in {"file", "link"} THEN Done(Without(disk, {q}))
    ELSE Failed(disk, NodeAt(disk, q).kind)
unlink(disk, p) == UnlinkAt(disk, NoFollow(disk, p))

RmdirAt(disk, q) ==
    IF NodeAt(disk, q).kind # "dir" THEN Failed(disk, NodeAt(disk, q).kind)
    ELSE IF q \in Mounts \cup {<<>>} THEN Failed(disk, "EBUSY")
    ELSE IF Children(disk, q) # {} THEN Failed(disk, "ENOTEMPTY") ELSE Done(Without(disk, {q}))
rmdir(disk, p) == RmdirAt(disk, NoFollow(disk, p))

\* open with O_CREAT (creates), O_EXCL, O_TRUNC and for writing; at is the file opened.
OpenAt(disk, q, creates, exclusive, truncate, writes) ==
    LET made == Create(disk, q, RegularFile(<<>>))
        node == NodeAt(disk, q)
        opened(r) == [disk |-> r.disk, ok |-> r.ok, errno |-> r.errno, at |-> q]
    IN IF ~Exists(node)
       THEN opened(IF creates THEN made ELSE Failed(disk, node.kind))
       ELSE IF creates /\ exclusive THEN opened(Failed(disk, "EEXIST"))
       ELSE IF (creates \/ truncate \/ writes) /\ node.kind = "dir"
            THEN opened(Failed(disk, "EISDIR"))
       ELSE opened(Done(IF truncate THEN [disk EXCEPT !.node[q].data = <<>>] ELSE disk))
open(disk, p, creates, exclusive, truncate, writes) ==
    OpenAt(disk, IF creates /\ exclusive THEN NoFollow(disk, p) ELSE Follow(disk, p),
           creates, exclusive, truncate, writes)

\* write of chars at the end of an open file: as many as there is room for.
write(disk, q, chars) ==
    LET n == Min({Len(chars), disk.room})
    IN IF chars # <<>> /\ n = 0 THEN [disk |-> disk, ret |-> -1]
       ELSE IF ~Has(disk, q) THEN [disk |-> disk, ret |-> n]       \* unlinked, still open
       ELSE [disk |-> [disk EXCEPT !.node[q].data = @ \o SubSeq(chars, 1, n), !.room = @ - n],
             ret |-> n]

RenameAt(disk, f, t) ==
    LET x == NodeAt(disk, f)  y == NodeAt(disk, t)
        moved == {q \in DOMAIN disk.node : q = f \/ Under(f, q)}
        placed(q) == t \o SubSeq(q, Len(f) + 1, Len(q))
        rest == DOMAIN disk.node \ (moved \cup {t})
    IN IF ~Exists(x) THEN Failed(disk, x.kind)
       ELSE IF t \in Errors THEN Failed(disk, t[1])
       ELSE IF f = t THEN Done(disk)
       ELSE IF Device(f) # Device(t) THEN Failed(disk, "EXDEV")
       ELSE IF Under(f, t) THEN Failed(disk, "EINVAL")
       ELSE IF y.kind = "dir" /\ x.kind # "dir" THEN Failed(disk, "EISDIR")
       ELSE IF Exists(y) /\ y.kind # "dir" /\ x.kind = "dir" THEN Failed(disk, "ENOTDIR")
       ELSE IF y.kind = "dir" /\ Children(disk, t) # {} THEN Failed(disk, "ENOTEMPTY")
       ELSE Done([disk EXCEPT !.node =
                    [q \in rest \cup {placed(m) : m \in moved} |->
                        IF q \in rest THEN disk.node[q]
                        ELSE disk.node[f \o SubSeq(q, Len(t) + 1, Len(q))]]])
rename(disk, from, to) == RenameAt(disk, NoFollow(disk, from), NoFollow(disk, to))
===============================================================================
