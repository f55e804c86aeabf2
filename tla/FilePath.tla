------------------------------- MODULE FilePath -------------------------------
(***************************************************************************)
(* FilePath (src/FilePath.cc): a path is a string; the operators take it   *)
(* apart, put it together and look for its extension.  There are no drive  *)
(* letters in this build: find_drive_letter is npos, and npos + 1 is 0.    *)
(* And two decisions of FileUtil about the paths around a path: whether    *)
(* every directory from a base down to it is controlled by a user, and     *)
(* which number makes its name unique.  What is in the file system is a    *)
(* parameter.                                                              *)
(***************************************************************************)
EXTENDS Formatting

CONSTANT kMaxUniqueFiles

ASSUME FilePathAssumption == kMaxUniqueFiles \in Nat

Sep == 47
Dot == 46
kCurrentDirectory == <<Dot>>
kParentDirectory == <<Dot, Dot>>
DoubleExtensions == {<<117, 115, 101, 114, 46, 106, 115>>}                   \* user.js
DoubleExtensionSuffixes == {<<103, 122>>, <<122>>, <<98, 122, 50>>, <<98, 122>>}  \* gz z bz2 bz

is_path_absolute(path) == path # <<>> /\ path[1] = Sep
are_all_separators(path) == \A i \in DOMAIN path : path[i] = Sep
LastSeparator(path) == find_last_of(path, <<Sep>>, npos)

\* FilePath's constructor: what follows a NUL is cut off.
FilePath(path) == substr(path, 0, find_char(path, 0, 0))

\* The trailing separators go, but not the first character, nor one of a leading pair
\* that is the whole path.
strip_trailing_separators(path) ==
    IF Len(path) < 2 \/ path = <<Sep, Sep>> THEN path
    ELSE substr(path, 0, Min({p \in 1 .. Len(path) :
                                \A i \in p .. Len(path) - 1 : at(path, i) = Sep}))

\* Up to the last separator, or the first one, or both of a leading pair.
UpToSeparator(stripped, last) ==
    substr(stripped, 0, IF last = npos THEN 0
                        ELSE IF last = 0 THEN 1
                        ELSE IF last = 1 /\ stripped[1] = Sep THEN 2 ELSE last)
CutAtSeparator(stripped) == UpToSeparator(stripped, LastSeparator(stripped))
OrCurrent(dir) == IF dir = <<>> THEN kCurrentDirectory ELSE dir

dirname(path) ==
    OrCurrent(strip_trailing_separators(CutAtSeparator(strip_trailing_separators(path))))

BaseOf(stripped) ==
    LET last == LastSeparator(stripped)
    IN IF last # npos /\ last < Len(stripped) - 1
       THEN substr(stripped, last + 1, npos) ELSE stripped

basename(path) == BaseOf(strip_trailing_separators(path))

\* get_components' loop, from the last component up to a path that is its own dirname.
RECURSIVE ComponentsOf(_)
ComponentsTo(current, dir, base) ==
    IF current = dir
    THEN IF base # <<>> /\ base # kCurrentDirectory THEN <<base>> ELSE <<>>
    ELSE ComponentsOf(dir) \o IF are_all_separators(base) THEN <<>> ELSE <<base>>
ComponentsOf(current) == ComponentsTo(current, dirname(current), basename(current))

get_components(path) == IF path = <<>> THEN <<>> ELSE ComponentsOf(path)

\* append_path(component): component is relative (a DCHECK).
append_path(path, component) ==
    LET appended == FilePath(component)
        stripped == strip_trailing_separators(path)
        separator == IF appended # <<>> /\ stripped # <<>> /\ Last(stripped) # Sep
                     THEN <<Sep>> ELSE <<>>
    IN IF path = kCurrentDirectory /\ appended # <<>> THEN appended
       ELSE stripped \o separator \o appended

\* append_relative_path(child, path); is_parent is the test alone.
Leads(parent_components, child_components) ==
    /\ parent_components # <<>> /\ Len(parent_components) < Len(child_components)
    /\ IsPrefix(parent_components, child_components)
AppendRest(parent_components, child_components, to) ==
    IF ~Leads(parent_components, child_components) THEN to
    ELSE FoldLeft(append_path, to, SubSeq(child_components, Len(parent_components) + 1,
                                          Len(child_components)))

is_parent(path, child) == Leads(get_components(path), get_components(child))
append_relative_path(path, child, to) ==
    AppendRest(get_components(path), get_components(child), to)

-----------------------------------------------------------------------------
(* Extensions.                                                             *)

final_extension_separator_position(path) ==
    IF path \in {kCurrentDirectory, kParentDirectory} THEN npos ELSE rfind_char(path, Dot, npos)

MutantExtensionFarDot(path) ==
    LET last_dot == final_extension_separator_position(path)
        penultimate == rfind_char(path, Dot, last_dot - 1)
    IN IF last_dot \in {0, npos} \/ penultimate = npos THEN last_dot
       ELSE IF lower_case_equals(substr(path, last_dot + 1, npos), <<122>>)
       THEN penultimate ELSE last_dot

extension_separator_position(path) ==
    LET last_dot == final_extension_separator_position(path)
        penultimate == rfind_char(path, Dot, last_dot - 1)
        last_separator == find_last_of(path, <<Sep>>, last_dot - 1)
    IN IF last_dot \in {0, npos} THEN last_dot
       ELSE IF penultimate = npos \/ (last_separator # npos /\ penultimate < last_separator)
       THEN last_dot
       ELSE IF \E e \in DoubleExtensions : lower_case_equals(substr(path, penultimate + 1, npos), e)
       THEN penultimate
       ELSE IF /\ \E e \in DoubleExtensionSuffixes :
                    lower_case_equals(substr(path, last_dot + 1, npos), e)
               /\ last_dot - penultimate \in 2 .. 5
       THEN penultimate ELSE last_dot

From(path, dot) == IF dot = npos THEN <<>> ELSE substr(path, dot, npos)
Before(path, dot) == IF dot = npos THEN path ELSE FilePath(substr(path, 0, dot))

extension(path) == From(basename(path), extension_separator_position(basename(path)))
final_extension(path) == From(basename(path), final_extension_separator_position(basename(path)))

remove_extension(path) ==
    IF extension(path) = <<>> THEN path ELSE Before(path, extension_separator_position(path))
remove_final_extension(path) ==
    IF final_extension(path) = <<>> THEN path
    ELSE Before(path, final_extension_separator_position(path))

is_empty_or_special_case(path) == path \in {<<>>, kCurrentDirectory, kParentDirectory}

insert_before_extension(path, suffix) ==
    IF suffix = <<>> THEN path
    ELSE IF is_empty_or_special_case(basename(path)) THEN <<>>
    ELSE FilePath(remove_extension(path) \o suffix \o extension(path))

add_extension(path, ext) ==
    IF is_empty_or_special_case(basename(path)) THEN <<>>
    ELSE IF ext \in {<<>>, <<Dot>>} THEN path
    ELSE FilePath(path \o (IF ext[1] # Dot /\ Last(path) # Dot THEN <<Dot>> ELSE <<>>) \o ext)

replace_extension(path, ext) ==
    IF is_empty_or_special_case(basename(path)) THEN <<>>
    ELSE IF ext \in {<<>>, <<Dot>>} THEN remove_extension(path)
    ELSE FilePath(remove_extension(path) \o (IF ext[1] # Dot THEN <<Dot>> ELSE <<>>) \o ext)

\* compare_ignore_case is strcasecmp, external.
compare_ignore_case(a, b) == compare(to_lower(a), to_lower(b))

matches_extension(path, ext) ==
    Len(extension(path)) = Len(ext) /\ compare_ignore_case(ext, extension(path)) = 0

ends_with_separator(path) == path # <<>> /\ Last(path) = Sep
as_ending_with_separator(path) ==
    IF ends_with_separator(path) \/ path = <<>> THEN path ELSE Append(path, Sep)

\* references_parent: a component of dots and white space that has ".." in it.
references_parent(path) ==
    /\ find(path, kParentDirectory, 0) # npos
    /\ \E c \in ToSet(get_components(path)) :
        /\ find_first_not_of(c, <<Dot, 32, 10, 13, 9>>, 0) = npos
        /\ find(c, kParentDirectory, 0) # npos

-----------------------------------------------------------------------------
(* FileUtil.                                                               *)

\* entry is what lstat tells of a path: is it there, a link, the user's, writable by a
\* group, is the group one of the admitted ones, writable by everyone.
verify_specific_path_controlled_by_user(entry) ==
    /\ entry.exists /\ ~entry.link /\ entry.mine
    /\ entry.group_writable => entry.group_known
    /\ ~entry.other_writable

\* Where a path leads: "." is a step to where one is.
Place(path) == SelectSeq(get_components(path), LAMBDA c : c # kCurrentDirectory)

\* The base, then the paths that appending the rest of the components one by one gives.
\* The two DCHECKs of the loop ask for what is_parent has found.
\* entries[p] is what lstat tells of the place p.
verify_path_controlled_by_user(base, path, entries) ==
    LET base_components == get_components(base)
        path_components == get_components(path)
        n == Len(base_components)
        current_path[i \in 0 .. Len(path_components) - n] ==
            IF i = 0 THEN base ELSE append_path(current_path[i - 1], path_components[n + i])
    IN /\ base = path \/ is_parent(base, path)
       /\ \A i \in DOMAIN current_path :
            verify_specific_path_controlled_by_user(entries[Place(current_path[i])])

-----------------------------------------------------------------------------
Numbered(path, count) == insert_before_extension(path, <<32, 40>> \o convert(count) \o <<41>>)

\* get_unique_path_number: neither the path with the number nor that with the suffix exists.
get_unique_path_number(path, suffix, exists) ==
    LET taken(p) == p \in exists \/ (suffix # <<>> /\ p \o suffix \in exists)
        free == {count \in 1 .. kMaxUniqueFiles : ~taken(Numbered(path, count))}
    IN IF ~taken(path) THEN 0 ELSE IF free = {} THEN -1 ELSE Min(free)
===============================================================================
