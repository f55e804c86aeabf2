------------------------------- MODULE Strings -------------------------------
(***************************************************************************)
(* The string library: StringPiece's searches (src/StringPiece.cc), the    *)
(* case, trim, join and replace functions of src/StringUtil.cc and the     *)
(* splitters of src/StringSplit.cc, as operators on sequences of           *)
(* characters.                                                             *)
(*                                                                         *)
(* A character is its code, an offset is the code's: 0 is the first        *)
(* character, npos the largest size_t, and sizes wrap around after it.     *)
(***************************************************************************)
EXTENDS Integers, SequencesExt, FiniteSetsExt

npos == 2^30 - 1                        \* size_t, narrowed to TLC's integers
size_t(n) == n % (npos + 1)
Lesser(a, b) == IF a < b THEN a ELSE b

at(s, i) == s[i + 1]
FirstOf(S) == IF S = {} THEN npos ELSE Min(S)
LastOf(S) == IF S = {} THEN npos ELSE Max(S)

-----------------------------------------------------------------------------
(* StringPiece.                                                            *)

\* substr: both the offset and the length are clamped.
substr(self, pos, n) ==
    LET p == Lesser(pos, Len(self)) IN SubSeq(self, p + 1, p + Lesser(n, Len(self) - p))

IsAt(self, s, x) == SubSeq(self, x + 1, x + Len(s)) = s
find(self, s, pos) == FirstOf({x \in pos .. Len(self) - Len(s) : IsAt(self, s, x)})
find_char(self, c, pos) == FirstOf({x \in pos .. Len(self) - 1 : at(self, x) = c})

rfind(self, s, pos) ==
    IF Len(self) < Len(s) THEN npos
    ELSE IF s = <<>> THEN Lesser(Len(self), pos)
    ELSE LastOf({x \in 0 .. Lesser(Len(self) - Len(s), pos) : IsAt(self, s, x)})

UpTo(self, pos) == 0 .. Lesser(pos, Len(self) - 1)
rfind_char(self, c, pos) == LastOf({x \in UpTo(self, pos) : at(self, x) = c})

\* The lookup table is the set of its characters.
find_first_of(self, s, pos) ==
    IF Len(s) = 1 THEN find_char(self, s[1], pos)
    ELSE FirstOf({x \in pos .. Len(self) - 1 : at(self, x) \in ToSet(s)})

find_first_not_of_char(self, c, pos) ==
    FirstOf({x \in pos .. Len(self) - 1 : at(self, x) # c})

find_first_not_of(self, s, pos) ==
    IF self = <<>> THEN npos
    ELSE IF s = <<>> THEN 0
    ELSE IF Len(s) = 1 THEN find_first_not_of_char(self, s[1], pos)
    ELSE FirstOf({x \in pos .. Len(self) - 1 : at(self, x) \notin ToSet(s)})

find_last_of(self, s, pos) ==
    IF self = <<>> \/ s = <<>> THEN npos
    ELSE IF Len(s) = 1 THEN rfind_char(self, s[1], pos)
    ELSE LastOf({x \in UpTo(self, pos) : at(self, x) \in ToSet(s)})

find_last_not_of_char(self, c, pos) == LastOf({x \in UpTo(self, pos) : at(self, x) # c})

find_last_not_of(self, s, pos) ==
    IF self = <<>> THEN npos
    ELSE IF s = <<>> THEN Lesser(pos, Len(self) - 1)
    ELSE IF Len(s) = 1 THEN find_last_not_of_char(self, s[1], pos)
    ELSE LastOf({x \in UpTo(self, pos) : at(self, x) \notin ToSet(s)})

Sign(n) == IF n < 0 THEN -1 ELSE IF n > 0 THEN 1 ELSE 0
FirstDifference(a, b) == FirstOf({x \in 0 .. Lesser(Len(a), Len(b)) - 1 : at(a, x) # at(b, x)})

\* compare: memcmp of what both have, then the lengths.
compare(a, b) ==
    LET x == FirstDifference(a, b)
    IN IF x = npos THEN Sign(Len(a) - Len(b)) ELSE Sign(at(a, x) - at(b, x))

-----------------------------------------------------------------------------
(* StringUtil: copy, case.                                                 *)

\* lcpy_T: src ends with a 0; the characters written to dst, and the result.
lcpy_T(src, dst_size) ==
    LET len == find_char(src, 0, 0)
    IN [dst |-> IF len < dst_size THEN substr(src, 0, len + 1)
                ELSE IF dst_size = 0 THEN <<>> ELSE Append(substr(src, 0, dst_size - 1), 0),
        ret |-> len]

lower_char(c) == IF c \in 65 .. 90 THEN c + 32 ELSE c
upper_char(c) == IF c \in 97 .. 122 THEN c - 32 ELSE c
to_lower(s) == [i \in DOMAIN s |-> lower_char(s[i])]
to_upper(s) == [i \in DOMAIN s |-> upper_char(s[i])]

signed_char(c) == IF c > 127 THEN c - 256 ELSE c

\* compare_case_insensitive_T: the first pair that differs in lower case, as chars.
compare_case_insensitive(a, b) ==
    LET x == FirstDifference(to_lower(a), to_lower(b))
    IN IF x = npos THEN Sign(Len(a) - Len(b))
       ELSE Sign(signed_char(lower_char(at(a, x))) - signed_char(lower_char(at(b, x))))

equals_case_insensitive(a, b) == Len(a) = Len(b) /\ compare_case_insensitive(a, b) = 0

contains_only_chars(input, characters) == find_first_not_of(input, characters, 0) = npos

lower_case_equals(str, lowercase) ==
    Len(str) = Len(lowercase) /\ \A i \in DOMAIN str : lower_char(str[i]) = lowercase[i]

SameCase(a, b, sensitive) == IF sensitive THEN a = b ELSE to_lower(a) = to_lower(b)

starts_with(str, search_for, sensitive) ==
    Len(search_for) <= Len(str) /\ SameCase(substr(str, 0, Len(search_for)), search_for, sensitive)

ends_with(str, search_for, sensitive) ==
    /\ Len(search_for) <= Len(str)
    /\ SameCase(substr(str, Len(str) - Len(search_for), Len(search_for)), search_for, sensitive)

-----------------------------------------------------------------------------
(* StringUtil: trim and join.                                              *)

kWhitespace == <<9, 10, 11, 12, 13, 32>>
TRIM_ALL == {"leading", "trailing"}

\* trim_string_T: the output, and where it was trimmed.
trim_string_T(input, trim_chars, positions) ==
    LET last_char == size_t(Len(input) - 1)
        first_good == IF "leading" \in positions THEN find_first_not_of(input, trim_chars, 0) ELSE 0
        last_good == IF "trailing" \in positions
                     THEN find_last_not_of(input, trim_chars, npos) ELSE last_char
    IN IF input = <<>> \/ first_good = npos \/ last_good = npos
       THEN [output |-> <<>>, trimmed |-> IF input = <<>> THEN {} ELSE positions]
       ELSE [output |-> substr(input, first_good, size_t(last_good - first_good + 1)),
             trimmed |-> (IF first_good = 0 THEN {} ELSE {"leading"}) \cup
                         (IF last_good = last_char THEN {} ELSE {"trailing"})]

MutantTrimNoWrap(input, trim_chars, positions) ==
    LET begin == IF "leading" \in positions THEN find_first_not_of(input, trim_chars, 0) ELSE 0
        end == IF "trailing" \in positions
               THEN find_last_not_of(input, trim_chars, npos) ELSE Len(input)
    IN substr(input, begin, size_t(end - begin))

\* trim_string_piece_T: npos + 1 is 0, and substr clamps what wraps.
trim_string_piece_T(input, trim_chars, positions) ==
    LET begin == IF "leading" \in positions THEN find_first_not_of(input, trim_chars, 0) ELSE 0
        end == IF "trailing" \in positions
               THEN size_t(find_last_not_of(input, trim_chars, npos) + 1) ELSE Len(input)
    IN substr(input, begin, size_t(end - begin))

join_string(parts, sep) ==
    IF parts = <<>> THEN <<>>
    ELSE FoldLeft(LAMBDA result, part : result \o sep \o part, Head(parts), Tail(parts))

-----------------------------------------------------------------------------
(* StringUtil: replace.                                                    *)

\* A Matcher finds a string, or any one of some characters.
Matchers(S) == [any : BOOLEAN, chars : S]
match_size(m) == IF m.any THEN 1 ELSE Len(m.chars)
match_find(m, input, pos) ==
    IF m.any THEN find_first_of(input, m.chars, pos) ELSE find(input, m.chars, pos)

\* CharTraits::copy and move: chars over the buffer from an offset.
Overwrite(buffer, offset, chars) ==
    [i \in DOMAIN buffer |-> IF i \in offset + 1 .. offset + Len(chars)
                             THEN chars[i - offset] ELSE buffer[i]]

\* The lengths are equal: each match is overwritten where it is.
RECURSIVE ReplaceEach(_, _, _, _)
ReplaceEach(str, m, replace_with, offset) ==
    IF offset = npos THEN str
    ELSE LET next == Overwrite(str, offset, replace_with)
         IN ReplaceEach(next, m, replace_with,
                        match_find(m, next, offset + Len(replace_with)))

RECURSIVE CountMatches(_, _, _)
CountMatches(str, m, match) ==
    IF match = npos THEN 0
    ELSE 1 + CountMatches(str, m, match_find(m, str, match + match_size(m)))

\* The string grows beyond its capacity: it is built anew from src.
RECURSIVE Rebuild(_, _, _, _, _, _, _)
Rebuild(str, src, m, replace_with, match, pos, num_matches) ==
    LET built == str \o substr(src, pos, match - pos) \o replace_with
        after == match + match_size(m)
    IN IF num_matches = 1 THEN built \o substr(src, after, Len(src) - after)
       ELSE Rebuild(built, src, m, replace_with, match_find(m, src, after), after, num_matches - 1)

\* The do loop: write the replacement, then move what is between two matches down.
RECURSIVE ReplaceAndMove(_, _, _, _, _)
ReplaceAndMove(buffer, m, replace_with, write_offset, read_offset) ==
    LET written == Overwrite(buffer, write_offset, replace_with)
        w == write_offset + Len(replace_with)
        r == read_offset + match_size(m)
        match == Lesser(match_find(m, written, r), Len(buffer))
        moved == Overwrite(written, w, substr(written, r, match - r))
    IN IF match < Len(buffer)
       THEN ReplaceAndMove(moved, m, replace_with, w + match - r, match)
       ELSE substr(moved, 0, w + match - r)

\* A string that grows within its capacity: the data after the first match is shifted
\* to the end of the resized string, padded if need be.
ShiftTail(str, shift_src, expansion) ==
    LET padded == str \o [i \in 1 .. shift_src + expansion - Len(str) |-> 0]
    IN substr(padded, 0, shift_src + expansion) \o substr(str, shift_src, Len(str) - shift_src)

\* do_replace_matches_after_offset: what it makes of str.
do_replace_matches_after_offset(str, initial_offset, m, replace_with, replace_all, capacity) ==
    LET first_match == match_find(m, str, initial_offset)
        per_match == Len(replace_with) - match_size(m)
        num_matches == CountMatches(str, m, first_match)
        expansion == num_matches * per_match
    IN IF match_size(m) = 0 \/ first_match = npos THEN str
       ELSE IF ~replace_all
       THEN substr(str, 0, first_match) \o replace_with \o
            substr(str, first_match + match_size(m), npos)
       ELSE IF per_match = 0 THEN ReplaceEach(str, m, replace_with, first_match)
       ELSE IF per_match < 0 THEN ReplaceAndMove(str, m, replace_with, first_match, first_match)
       ELSE IF capacity < Len(str) + expansion
       THEN Rebuild(<<>>, str, m, replace_with, first_match, 0, num_matches)
       ELSE ReplaceAndMove(ShiftTail(str, first_match + match_size(m), expansion), m, replace_with,
                           first_match, first_match + expansion)

replace_chars(input, chars, replace_with, capacity) ==
    do_replace_matches_after_offset(input, 0, [any |-> TRUE, chars |-> chars],
                                    replace_with, TRUE, capacity)

remove_chars(input, chars) == replace_chars(input, chars, <<>>, Len(input))

-----------------------------------------------------------------------------
(* StringSplit.                                                            *)

Piece(piece, trim) == IF trim THEN trim_string_piece_T(piece, kWhitespace, TRIM_ALL) ELSE piece
Wanted(piece, want_all) == IF want_all \/ piece # <<>> THEN <<piece>> ELSE <<>>

\* split_string_T's loop, from start.
RECURSIVE SplitFrom(_, _, _, _, _)
SplitFrom(str, delimiter, trim, want_all, start) ==
    LET end == find_first_of(str, delimiter, start)
        n == IF end = npos THEN npos ELSE end - start
    IN Wanted(Piece(substr(str, start, n), trim), want_all) \o
       IF end = npos THEN <<>> ELSE SplitFrom(str, delimiter, trim, want_all, end + 1)

split_string(str, separators, trim, want_all) ==
    IF str = <<>> THEN <<>> ELSE SplitFrom(str, separators, trim, want_all, 0)

\* split_string_using_substr_T's loop; delimiter is not empty.
RECURSIVE SplitSubstrFrom(_, _, _, _, _)
SplitSubstrFrom(input, delimiter, trim, want_all, begin) ==
    LET end == find(input, delimiter, begin)
        n == IF end = npos THEN npos ELSE end - begin
    IN Wanted(Piece(substr(input, begin, n), trim), want_all) \o
       IF end = npos THEN <<>>
       ELSE SplitSubstrFrom(input, delimiter, trim, want_all, end + Len(delimiter))

split_string_using_substr(input, delimiter, trim, want_all) ==
    SplitSubstrFrom(input, delimiter, trim, want_all, 0)

\* append_string_key_value: the pair appended, and whether it is complete.
append_string_key_value(input, delimiter) ==
    LET end_key == find_char(input, delimiter, 0)
        remains == substr(input, end_key, Len(input) - end_key)
        begin_value == find_first_not_of_char(remains, delimiter, 0)
    IN IF end_key = npos THEN [key |-> <<>>, value |-> <<>>, ok |-> FALSE]
       ELSE IF begin_value = npos
       THEN [key |-> substr(input, 0, end_key), value |-> <<>>, ok |-> FALSE]
       ELSE [key |-> substr(input, 0, end_key),
             value |-> substr(remains, begin_value, Len(remains) - begin_value), ok |-> TRUE]

\* split_string_into_key_value_pairs: the pairs; it succeeds if all are ok.
split_string_into_key_value_pairs(input, key_value_delimiter, pair_delimiter) ==
    LET pairs == split_string(input, <<pair_delimiter>>, TRUE, FALSE)
    IN [i \in DOMAIN pairs |-> append_string_key_value(pairs[i], key_value_delimiter)]
===============================================================================
