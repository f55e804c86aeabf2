------------------------------ MODULE MCLibrary ------------------------------
(***************************************************************************)
(* Eight parts of the library that share nothing, in one run: a behaviour  *)
(* is one of the part it has picked, the others stay as they are at first. *)
(***************************************************************************)
EXTENDS Values, Files, Handles, Buffering, LogFile, Poller, MCStreams, Lifetime

-----------------------------------------------------------------------------
(* Constants of Values, Buffering and Lifetime.                            *)

ShortYear == <<2, 3>>
Letters == {32, 65, 97}                 \* space, A, a
PathLetters == {Sep, Dot, 97, 122}      \* / . a z
SomePorts == {0, 1, 255, 256, 8080, 36895, 65535}     \* 36895 = byte_swap(8080)
Bytes == {CR, LF, 97}
AllInstants == Int64Min .. Int64Max

MCChunks == {<<>>, <<1>>, <<1, 2>>, <<2, 1, 1>>}
MCLimits == {kUnLimitSize, 0, 2}

\* The constructor of "a" calls the instance() of "b" and "c", theirs that of "d": two
\* threads may create "b" and "c" side by side.
NeedsDef == [a |-> {"b", "c"}, b |-> {"d"}, c |-> {"d"}, d |-> {}]

-----------------------------------------------------------------------------
(* Constants of Files: trees, and the calls made in them.                  *)

FileCall(op, path, to, recursive, excl, data) ==
    [op |-> op, path |-> path, to |-> to, recursive |-> recursive, excl |-> excl, data |-> data]
Idle == FileCall("none", <<>>, <<>>, FALSE, FALSE, <<>>)
Make(path) == FileCall("create_directory", path, <<>>, FALSE, FALSE, <<>>)
Delete(path, recursive) == FileCall("delete_file", path, <<>>, recursive, FALSE, <<>>)
Copy(path, to, recursive, excl) == FileCall("copy_directory", path, to, recursive, excl, <<>>)
Move(path, to) == FileCall("move_file", path, to, TRUE, FALSE, <<>>)
Replace(path, to) == FileCall("replace_file", path, to, FALSE, FALSE, <<>>)
CopyOne(path, to) == FileCall("copy_file", path, to, FALSE, FALSE, <<>>)
Put2(path) == FileCall("write_file", path, <<>>, FALSE, FALSE, <<1, 2, 3>>)
Add(path, data) == FileCall("append_to_file", path, <<>>, FALSE, FALSE, data)
Open(path, excl) == FileCall("open_always", path, <<>>, FALSE, excl, <<>>)

\* /a/b/f, /a/g, /a/l -> /k, /k/f, and a device at /m with a directory /m/d.
TreeMounts == {<<"m">>}
Tree == [p \in {<<>>, <<"a">>, <<"a", "b">>, <<"a", "b", "f">>, <<"a", "g">>, <<"a", "l">>,
                <<"k">>, <<"k", "f">>, <<"m">>, <<"m", "d">>} |->
            CASE p = <<"a", "b", "f">> -> RegularFile(<<7, 8, 9>>)
              [] p = <<"a", "g">> -> RegularFile(<<7>>)
              [] p = <<"k", "f">> -> RegularFile(<<7, 8>>)
              [] p = <<"a", "l">> -> Link(<<"k">>)
              [] OTHER -> Dir]

Alone(S) == {[node |-> Tree, calls |-> <<c, Idle>>] : c \in S}
Paired(S, T) == {[node |-> Tree, calls |-> <<c, d>>] : c \in S, d \in T}

Targets == {<<"n">>, <<"k">>, <<"m">>, <<"m", "d">>, <<"m", "n">>, <<"a", "l">>, <<"a", "b", "n">>}
Sources == {<<"a">>, <<"a", "b">>, <<"a", "g">>, <<"a", "l">>, <<"x">>}
Up == <<"a", "..">>         \* only given to functions that refuse it
FileScenarios ==
    Alone({Move(s, t) : s \in Sources \cup {Up}, t \in Targets})
    \cup Alone({Copy(s, t, TRUE, x) : s \in Sources, t \in Targets, x \in BOOLEAN})
    \cup Alone({Copy(s, t, FALSE, FALSE) : s \in {<<"a">>, <<"k">>}, t \in Targets})
    \cup Alone({CopyOne(s, t) : s \in Sources \cup {Up}, t \in Targets})
    \cup Alone({Replace(s, t) : s \in Sources, t \in Targets})
    \cup Alone({Delete(s, r) : s \in Sources \cup {<<"a", "g", "x">>, <<"m">>}, r \in BOOLEAN})
    \cup Alone({Put2(s) : s \in Sources})
    \cup Paired({Make(<<"n", "o">>), Make(<<"a", "g", "o">>)}, {Make(<<"n">>), Make(<<"n", "o">>)})
    \cup Paired({Delete(<<"a">>, TRUE)},
                {Put2(<<"a", "b", "n">>), Make(<<"a", "b", "n">>), Delete(<<"a">>, TRUE),
                 Delete(<<"a", "b">>, TRUE)})
    \cup Paired({Move(<<"a">>, <<"m", "n">>)}, {Make(<<"m", "n">>), Make(<<"k", "n">>)})
    \cup Paired({Add(<<"a", "g">>, <<1, 2>>)}, {Add(<<"a", "g">>, <<3, 4>>), Idle})
    \cup Paired({Open(<<"n">>, x) : x \in BOOLEAN}, {Open(<<"n">>, TRUE)})

-----------------------------------------------------------------------------
ValuesIdle == subject = "none" /\ text = <<>> /\ us = 0
FilesIdle ==
    /\ disk = [node |-> [p \in {<<>>} |-> Dir], room |-> 0] /\ before = disk
    /\ proc = [p \in Procs |-> Begun(Idle)]
BuffersIdle ==
    /\ buf = [b \in Names |-> ByteBuffer(kUnLimitSize, InitSize)]
    /\ last_call = [data |-> <<>>, ok |-> TRUE]
PollerIdle == Init /\ fd = [c \in Channels |-> 3]
StreamsIdle == StreamsInit /\ codec = Eof(<<1>>, 3)
LifetimeIdle == LifetimeInit /\ leaky = {}

VARIABLE part

libvars == <<part, vvars, fvars, hvars, bvars, lvars, vars, svars, ltvars>>

LibraryInit ==
    /\ part \in {"values", "files", "handles", "buffers", "log", "poller", "streams", "lifetime"}
    /\ IF part = "values" THEN ValuesInit ELSE ValuesIdle
    /\ IF part = "files" THEN FilesInit ELSE FilesIdle
    /\ IF part = "buffers" THEN BuffersInit ELSE BuffersIdle
    /\ IF part = "poller" THEN Init ELSE PollerIdle
    /\ IF part = "streams" THEN StreamsInit ELSE StreamsIdle
    /\ IF part = "lifetime" THEN LifetimeInit ELSE LifetimeIdle
    /\ HandlesInit /\ LogFileInit

LibraryNext ==
    /\ \/ /\ part = "values" /\ ValuesNext
          /\ UNCHANGED <<fvars, hvars, bvars, lvars, vars, svars, ltvars>>
       \/ /\ part = "files" /\ FilesNext
          /\ UNCHANGED <<vvars, hvars, bvars, lvars, vars, svars, ltvars>>
       \/ /\ part = "handles" /\ HandlesNext
          /\ UNCHANGED <<vvars, fvars, bvars, lvars, vars, svars, ltvars>>
       \/ /\ part = "buffers" /\ BuffersNext
          /\ UNCHANGED <<vvars, fvars, hvars, lvars, vars, svars, ltvars>>
       \/ /\ part = "log" /\ LogFileNext
          /\ UNCHANGED <<vvars, fvars, hvars, bvars, vars, svars, ltvars>>
       \/ /\ part = "poller" /\ Next
          /\ UNCHANGED <<vvars, fvars, hvars, bvars, lvars, svars, ltvars>>
       \/ /\ part = "streams" /\ StreamsNext
          /\ UNCHANGED <<vvars, fvars, hvars, bvars, lvars, vars, ltvars>>
       \/ /\ part = "lifetime" /\ LifetimeNext
          /\ UNCHANGED <<vvars, fvars, hvars, bvars, lvars, vars, svars>>
    /\ UNCHANGED part

LibrarySpec == LibraryInit /\ [][LibraryNext]_libvars
==============================================================================
