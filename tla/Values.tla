-------------------------------- MODULE Values --------------------------------
(***************************************************************************)
(* What the pure parts of the library compute, against reference           *)
(* definitions: every string, path and file up to a length, every instant  *)
(* and interval of a small clock, every number and every port is a state.  *)
(***************************************************************************)
EXTENDS FilePath, TimeStamp, EndPoint, FileIO

CONSTANTS Characters, MaxText,          \* bound: the length of a string
          PathCharacters, MaxPath,      \* bound: the length of a path
          Contents, MaxContent,         \* bound: the length of a file
          Instants,                     \* the microseconds, and the numbers, looked at
          Ports

VARIABLES subject, text, us
vvars == <<subject, text, us>>

ValuesInit ==
    /\ subject \in {"string", "path", "file", "time", "number", "address"}
    /\ text = <<>>
    /\ us \in CASE subject \in {"time", "number"} -> Instants
               [] subject = "address" -> Ports
               [] OTHER -> {0}

Extend(what, characters, max) ==
    /\ subject = what /\ Len(text) < max
    /\ \E c \in characters : text' = Append(text, c)
    /\ UNCHANGED <<subject, us>>

ValuesNext ==
    \/ Extend("string", Characters, MaxText)
    \/ Extend("path", PathCharacters, MaxPath)
    \/ Extend("file", Contents, MaxContent)

ValuesSpec == ValuesInit /\ [][ValuesNext]_vvars

Texts(n) == UNION {[1 .. k -> Characters] : k \in 0 .. n}

-----------------------------------------------------------------------------
(* Strings.                                                                *)

\* Leftmost matches from pos on, none overlapping another, are replaced.
RECURSIVE Replaced(_, _, _, _)
Replaced(str, m, replace_with, pos) ==
    LET match == match_find(m, str, pos)
    IN IF match = npos THEN substr(str, pos, npos)
       ELSE substr(str, pos, match - pos) \o replace_with
            \o Replaced(str, m, replace_with, match + match_size(m))

\* do_replace_matches_after_offset, which overwrites in place, shifts down, shifts up
\* within the capacity or builds anew, always replaces the leftmost matches that do not
\* overlap, and nothing before the offset.
ReplaceAgrees ==
    subject = "string" =>
        \A m \in Matchers(Texts(2) \ {<<>>}), w \in Texts(3), offset \in 0 .. Len(text) :
            \A capacity \in {Len(text), 4 * Len(text)} :
                do_replace_matches_after_offset(text, offset, m, w, TRUE, capacity) =
                    substr(text, 0, offset) \o Replaced(text, m, w, offset)

\* trim_string_T and trim_string_piece_T, one testing for npos and one relying on its
\* overflow, leave the same: what is cut off is of trim_chars and on the sides asked
\* for, what is left does not start or end with one there, and the report is right.
TrimAgrees ==
    subject = "string" =>
        \A chars \in Texts(2), positions \in SUBSET TRIM_ALL :
            LET t == trim_string_T(text, chars, positions)
                kept(side, i) == side \in positions => t.output[i] \notin ToSet(chars)
            IN /\ trim_string_piece_T(text, chars, positions) = t.output
               /\ \E i, j \in 0 .. Len(text) :
                    /\ i + j <= Len(text)
                    /\ t.output = SubSeq(text, i + 1, Len(text) - j)
                    /\ ToSet(SubSeq(text, 1, i) \o SubSeq(text, Len(text) - j + 1, Len(text)))
                            \subseteq ToSet(chars)
                    /\ t.output # <<>> =>
                        /\ kept("leading", 1) /\ kept("trailing", Len(t.output))
                        /\ t.trimmed = (IF i = 0 THEN {} ELSE {"leading"}) \cup
                                       (IF j = 0 THEN {} ELSE {"trailing"})

NotEmpty(piece) == piece # <<>>

\* join_string undoes both splitters when all pieces are kept, no piece has a
\* separator in it, and a pair of split_string_into_key_value_pairs is what was
\* around the first run of delimiters.
SplitJoins ==
    (subject = "string" /\ text # <<>>) =>
        /\ \A seps \in Texts(2) \ {<<>>} :
            LET all == split_string(text, seps, FALSE, TRUE)
            IN /\ Len(seps) = 1 => join_string(all, seps) = text
               /\ \A i \in DOMAIN all : ToSet(all[i]) \cap ToSet(seps) = {}
               /\ split_string(text, seps, FALSE, FALSE) = SelectSeq(all, NotEmpty)
               /\ join_string(split_string_using_substr(text, seps, FALSE, TRUE), seps) = text
        /\ \A k, p \in Characters : k # p =>
            LET pairs == split_string_into_key_value_pairs(text, k, p)
            IN \A i \in DOMAIN pairs : pairs[i].ok =>
                /\ k \notin ToSet(pairs[i].key) /\ pairs[i].value[1] # k
                /\ \E n \in 1 .. Len(text) :
                    find(text, pairs[i].key \o [j \in 1 .. n |-> k] \o pairs[i].value, 0) # npos

\* StringPiece and StringUtil and StringSplit: replacing, trimming and splitting do what
\* they say for every string, also where they rely on npos wrapping around and where they
\* work in place.
StringsAgree == ReplaceAgrees /\ TrimAgrees /\ SplitJoins

-----------------------------------------------------------------------------
(* Paths.                                                                  *)

\* The maximal runs of characters that are not separators.
Runs(path) == split_string(path, <<Sep>>, FALSE, FALSE)
Relative(path) ==
    IF path = kCurrentDirectory \/ (Len(Runs(path)) > 1 /\ Runs(path)[1] = kCurrentDirectory)
    THEN Tail(Runs(path)) ELSE Runs(path)

\* get_components is lossless: it has the root if there is one, then the runs between
\* separators (a "." is dropped if it is the whole path or starts it); dirname and
\* basename of a path that is not a root are all its components but the last, and the
\* last; and appending them gives the same path again, up to separators.
ComponentsRebuild ==
    (subject = "path" /\ text # <<>>) =>
        \A c \in {get_components(text)}, dir \in {dirname(text)} :
           /\ IF is_path_absolute(text)
              THEN c[1] \in {<<Sep>>, <<Sep, Sep>>} /\ Tail(c) = Runs(text)
              ELSE c = Relative(text)
           /\ Len(c) > 1 =>
                /\ get_components(append_path(dir, basename(text))) = c
                /\ is_parent(dir, text) /\ ~is_parent(text, dir)
                /\ append_relative_path(dir, text, <<97>>) = <<97, Sep>> \o Last(c)

\* "The following code should always work regardless of the value of path":
\* remove_extension() followed by extension() is the path.
ExtensionRebuilds ==
    subject = "path" => remove_extension(text) \o extension(text) = text

\* It does for every path that does not end in a separator, and the same with
\* final_extension; what a path has after replace_extension is what was given.
ExtensionRebuildsFile ==
    (subject = "path" /\ ~ends_with_separator(text)) =>
        /\ ExtensionRebuilds
        /\ remove_final_extension(text) \o final_extension(text) = text
        /\ ~is_empty_or_special_case(basename(text)) =>
            /\ final_extension(replace_extension(text, <<97>>)) = <<Dot, 97>>
            /\ dirname(insert_before_extension(text, <<97>>)) = dirname(text)

Sound == [exists |-> TRUE, link |-> FALSE, mine |-> TRUE, group_writable |-> FALSE,
          group_known |-> FALSE, other_writable |-> FALSE]
Unsound == {[Sound EXCEPT !.exists = FALSE], [Sound EXCEPT !.link = TRUE],
            [Sound EXCEPT !.mine = FALSE], [Sound EXCEPT !.group_writable = TRUE],
            [Sound EXCEPT !.other_writable = TRUE]}

\* verify_path_controlled_by_user looks at the base, the path and every directory between
\* them, however the path is spelled: one that is not sound is enough to refuse, and what
\* is above the base does not matter.
ControlIsWhole ==
    (subject = "path" /\ text # <<>>) =>
        \A c \in {Place(text)} :
        \A n \in 0 .. Len(c), entry \in Unsound, base \in {substr(text, 0, i) : i \in DOMAIN text} :
        \A entries \in {[p \in {SubSeq(c, 1, i) : i \in 0 .. Len(c)} |->
                            IF Len(p) = n THEN entry ELSE Sound]} :
            (base = text \/ is_parent(base, text)) =>
                (verify_path_controlled_by_user(base, text, entries) <=> n < Len(Place(base)))

\* get_unique_path_number gives the least number whose name, and whose name with the
\* suffix, is free.
UniqueIsFree ==
    (subject = "path" /\ ~is_empty_or_special_case(basename(text)) /\ ~ends_with_separator(text)) =>
        \A k \in 0 .. kMaxUniqueFiles + 1, suffix, ending \in {<<>>, <<122>>} :
            LET name(i) == IF i = 0 THEN text ELSE Numbered(text, i)
                taken == {name(i) \o ending : i \in 0 .. k - 1}
                found == get_unique_path_number(text, suffix, taken)
            IN found = IF ending \notin {<<>>, suffix} THEN 0
                       ELSE IF k > kMaxUniqueFiles THEN -1 ELSE k

\* FilePath, and the parts of FileUtil that walk along paths: taking a path apart and
\* putting it together again gives the same path.
PathsRebuild == ComponentsRebuild /\ ExtensionRebuildsFile /\ ControlIsWhole /\ UniqueIsFree

-----------------------------------------------------------------------------
(* Contents of files.                                                      *)

Grants == [1 .. MaxContent + 1 -> 0 .. 2]
Whole(grants) == \A i \in DOMAIN grants : grants[i] > 0
Opened(pos, append) == [content |-> text, pos |-> pos, append |-> append]

\* The loops of File::read read what is at the offset to the size or the end of the file,
\* over any number of short reads; a read that fails cuts it off, and is only reported if
\* there is nothing before it.
ReadsWhole ==
    subject = "file" =>
        \A offset \in 0 .. MaxContent, size \in -1 .. MaxContent, grants \in Grants :
            \A r \in {File_read(Opened(0, FALSE), offset, size, grants)},
               c \in {read_at_current_pos(Opened(offset, FALSE), size, grants)},
               wanted \in {substr(text, offset, Max({0, size}))} :
               /\ IsPrefix(r.data, wanted) /\ c.data = r.data /\ c.result = r.result
               /\ c.file.pos = offset + Len(r.data)
               /\ r.data # <<>> => r.result = Len(r.data)
               /\ Whole(grants) =>
                    r.data = wanted /\ r.result = IF size < 0 THEN -1 ELSE Len(wanted)
               /\ size >= 0 => read_file(text, size, grants) \in
                        -1 .. Len(File_read(Opened(0, FALSE), 0, size, grants).data)
               /\ size >= 0 => (read_from_fd(text, size, grants) <=>
                        Len(File_read(Opened(0, FALSE), 0, size, grants).data) = size)

\* What File::write reports as written reads back from where it was to go, the offset or,
\* in a file that is open for appending, the end; nothing else has changed, and going
\* back by as much finds it again.
WritesReadBack ==
    subject = "file" =>
        \A append \in BOOLEAN, offset \in 0 .. MaxContent, grants \in Grants :
            \A data \in UNION {[1 .. n -> {1, 2}] : n \in 0 .. 2} :
                \A f \in {Opened(offset, append)},
                   start \in {IF append THEN Len(text) ELSE offset} :
                \A w \in {File_write(f, offset, data, grants)},
                   p \in {File_write_at_current_pos(f, data, grants)} :
                \A k \in {Max({0, w.result})} :
                   /\ Whole(grants) => k = Len(data)
                   /\ w.file.content = p.file.content
                   /\ substr(w.file.content, start, k) = substr(data, 0, k)
                   /\ substr(w.file.content, 0, start) =
                        substr(set_length(f, start).content, 0,
                               IF k = 0 THEN Lesser(start, Len(text)) ELSE start)
                   /\ substr(w.file.content, start + k, npos) = substr(text, start + k, npos)
                   /\ k > 0 => LET back == seek(p.file, "FROM_CURRENT", -k).file
                                   again == read_at_current_pos(back, k, [i \in 1 .. 3 |-> 2])
                               IN /\ again.data = substr(data, 0, k)
                                  /\ truncate_FILE(back).content = substr(w.file.content, 0, start)

Chomped(line) == SubSeq(line, 1, Max({0} \cup {i \in DOMAIN line : line[i] # CR}))
Lines(content) ==
    LET pieces == split_string(content, <<LF>>, FALSE, TRUE)
    IN [i \in DOMAIN pieces |-> Chomped(pieces[i])]

\* text_contents_equal holds for just the files that have the same lines, not counting
\* carriage returns at the end of a line; the last line feed counts.
TextsEqual ==
    subject = "file" =>
        \A other \in UNION {[1 .. n -> Contents] : n \in 0 .. MaxContent} :
            text_contents_equal(text, other) <=>
                (text = other \/ (text # <<>> /\ other # <<>> /\ Lines(text) = Lines(other))
                 \/ (<<>> \in {text, other} /\ ToSet(text \o other) \subseteq {CR}))

\* File and FileUtil: what is written is what is read, however the kernel cuts it up.
ContentsReadBack == ReadsWhole /\ WritesReadBack /\ TextsEqual

-----------------------------------------------------------------------------
(* Time.                                                                   *)

Clamped(n) == IF n > Int64Max THEN Int64Max ELSE IF n < Int64Min THEN Int64Min ELSE n
FloorMs(n) == (n \div kMicrosecondsPerMillisecond) * kMicrosecondsPerMillisecond

\* A delta made of seconds or milliseconds is the exact product, or the limit it is
\* beyond, and has as many units as it was made of, unless it met the limit; so has one
\* made of minutes or hours, whose product always fits, and of days if it does; max()
\* stays max().
DeltaSaturates ==
    subject = "time" =>
        /\ from_seconds(us) = Clamped(us * kMicrosecondsPerSecond)
        /\ from_milliseconds(us) = Clamped(us * kMicrosecondsPerMillisecond)
        /\ from_seconds(us) \notin {Int64Min, Int64Max} => in_seconds(from_seconds(us)) = us
        /\ us \in -IntMax - 1 .. IntMax =>
            /\ in_minutes(from_minutes(us)) = us /\ in_hours(from_hours(us)) = us
            /\ (us = IntMax \/ us * kMicrosecondsPerDay \in Int64) => in_days(from_days(us)) = us

\* An instant that is not negative goes through timeval and timespec, and a delta below max(), and
\* come back, the microseconds in range; time_t rounds to the second.
TimevalRoundTrip ==
    (subject = "time" /\ us >= 0) =>
        LET tv == to_timeval(us)  dv == delta_to_timeval(us)
            ts == to_timespec(us)  ds == delta_to_timespec(us)
            kNanosecondsPerSecond == kMicrosecondsPerSecond * kNanosecondsPerMicrosecond
        IN /\ ts.tv_nsec \in 0 .. kNanosecondsPerSecond - 1 /\ ts.tv_sec = tv.tv_sec
           /\ us # Int64Max => ds = ts /\ delta_from_timespec(ts) = us
           /\ tv.tv_usec \in 0 .. kMicrosecondsPerSecond - 1 /\ from_timeval(tv) = us
           /\ us # Int64Max => /\ dv.tv_usec \in 0 .. kMicrosecondsPerSecond - 1
                               /\ delta_from_timeval(dv) = us
                               /\ us - from_time_t(to_time_t(us)) \in
                                        0 .. kMicrosecondsPerSecond - 1

\* The instants that have room below them for a day, and for the milliseconds that
\* to_explode takes off before it divides.
Explodable == us - kMicrosecondsPerDay - 2 * kMicrosecondsPerMillisecond >= Int64Min

\* Exploding and putting together again, in UTC or local time, before the epoch as after
\* it, gives the instant rounded down to the millisecond; a time is only accepted if its
\* fields name it, a day the month does not have is refused; midnight is the start of
\* the day the instant is in.  Nothing is said of the first day and milliseconds an
\* int64_t has, where the code's own arithmetic overflows.
ExplodeRoundTrip ==
    (subject = "time" /\ Explodable) =>
        \A is_local \in BOOLEAN :
            LET e == to_explode(us, is_local)  m == midnight(us, is_local)
                offset == IF is_local THEN Zone * kMicrosecondsPerSecond ELSE 0
                beyond == [e EXCEPT !.tm.day_of_month = MonthDays[e.tm.month] + 1]
            IN /\ Exploded_is_valid(e)
               /\ from_exploded(e, is_local) = [ok |-> TRUE, us |-> FloorMs(us)]
               /\ m.ok /\ us - m.us \in 0 .. kMicrosecondsPerDay - 1
               /\ (m.us + offset) % kMicrosecondsPerDay = 0
               /\ ~from_exploded(beyond, is_local).ok
               /\ ~from_exploded([e EXCEPT !.tm.year = MaxYear + 1], is_local).ok

\* TimeDelta and TimeStamp: deltas of seconds and milliseconds saturate, and conversions
\* come back to where they started, before the epoch too, up to the largest instant and
\* down to a day above the least one.
TimesAgree == DeltaSaturates /\ TimevalRoundTrip /\ ExplodeRoundTrip

-----------------------------------------------------------------------------
(* Numbers and addresses as text.                                          *)

DigitValue(c) == IF c >= Hex THEN c - Hex + 10 ELSE c - DigitZero
Number(chars, base) == FoldLeft(LAMBDA n, c : n * base + DigitValue(c), 0, chars)
Signed(chars) == IF chars[1] = Minus THEN -Number(Tail(chars), 10) ELSE Number(chars, 10)

\* What LogStream prints for an integer, the least of its type included, reads back as that
\* integer, without leading zeros; a text printed into a std::string is there to its last
\* character, or not at all beyond the limit, and in a char array it is cut.
NumbersReadBack ==
    subject = "number" =>
        /\ Signed(convert(us)) = us
        /\ us # 0 => convert(us)[IF us < 0 THEN 2 ELSE 1] # DigitZero
        /\ us >= 0 => Number(SubSeq(format_pointer(us), 3, Len(format_pointer(us))), 16) = us
        /\ us > 0 => LET printed == [i \in 1 .. us |-> DigitZero]
                     IN /\ sstring_appendvt(printed) = IF us < MemLimit THEN printed ELSE <<>>
                        /\ \A size \in 1 .. StackBuf : Len(sstring_printv(printed, size)) <= size

\* An EndPoint gives back the address and the port it was made of, in both families, and
\* is_self_connect holds for no two different ends of one family; a name that resolves
\* gives the first of its addresses, also over an EndPoint of the other family.
AddressesReadBack ==
    subject = "address" =>
        \A ip \in Ips, ipv6 \in BOOLEAN :
            LET e == FromText(ip, us, ipv6)
            IN /\ to_ip_port(e) = <<ip, us>> /\ to_port(e) = us
               /\ \A other \in Ips, port \in Ports :
                    LET peer == FromText(other, port, ipv6)
                    IN is_self_connect(e, peer) <=> (ip = other /\ us = port)
               /\ \A old \in BOOLEAN :
                    to_ip_port(resolve(<<e>>, FromPort(us, TRUE, old))) = <<ip, us>>

\* LogStream, StringPrintf and EndPoint: what is turned into text or into a socket address
\* is what comes back out of it.
TextReadsBack == NumbersReadBack /\ AddressesReadBack

\* Conversions of times, numbers and addresses come back to what they started from.
ConversionsAgree == TimesAgree /\ TextReadsBack
===============================================================================
