-------------------------------- MODULE Handles --------------------------------
(***************************************************************************)
(* Who closes a descriptor: File (src/File.cc) as an owner, on top of      *)
(* ScopedFD (include/ScopedGeneric.h, include/ScopedFile.h).  Files are    *)
(* made, opened, moved, duplicated, emptied and destroyed in any order by  *)
(* a program that also handles bare descriptors.  The kernel gives out the *)
(* lowest descriptor that is free, so one that was closed comes back.      *)
(***************************************************************************)
EXTENDS Integers

CONSTANTS Slots,        \* places for File objects
          MaxFd         \* bound: descriptors are 0 .. MaxFd - 1

invalid_value == -1     \* kInvalidPlatformFile
FdNumbers == 0 .. MaxFd - 1

ASSUME HandlesAssumption == MaxFd \in Nat

VARIABLES file,         \* slot -> the File in it, or NoFile
          openfds,      \* the descriptors that are open
          loose,        \* those the program itself has to close
          crash         \* the check that failed

hvars == <<file, openfds, loose, crash>>

NoFile == [alive |-> FALSE, fd |-> invalid_value, error |-> "FILE_OK", created |-> FALSE]
Made(fd, error, created) == [alive |-> TRUE, fd |-> fd, error |-> error, created |-> created]

HandlesInit ==
    /\ file = [f \in Slots |-> NoFile]
    /\ openfds = {} /\ loose = {} /\ crash = "no"

Empty(f) == crash = "no" /\ ~file[f].alive
Holds(f) == crash = "no" /\ file[f].alive
is_valid(f) == file[f].fd # invalid_value
LowestFree == CHOOSE n \in FdNumbers \ openfds : \A k \in FdNumbers \ openfds : n <= k

-----------------------------------------------------------------------------
(* ScopedFD.                                                               *)

\* ScopedFDCloseTraits::free: EBADF, the descriptor was closed behind its owner's back,
\* is fatal.
free(fd) ==
    /\ openfds' = openfds \ {fd}
    /\ crash' = IF fd \in openfds THEN crash ELSE "free"

\* ~ScopedGeneric, and reset() with nothing to own: free_if_necessary.
free_if_necessary(fd) == IF fd = invalid_value THEN UNCHANGED <<openfds, crash>> ELSE free(fd)

\* reset(value) of a scoper that has fd: owning the same value twice is fatal.
scoped_reset(fd, value) ==
    IF fd # invalid_value /\ fd = value THEN crash' = "reset" /\ UNCHANGED openfds
    ELSE free_if_necessary(fd)

-----------------------------------------------------------------------------
(* Making and opening.                                                     *)

\* File() and File(error_details).
Default(f) ==
    /\ Empty(f)
    /\ file' = [file EXCEPT ![f] = Made(invalid_value, "FILE_ERROR_FAILED", FALSE)]
    /\ UNCHANGED <<openfds, loose, crash>>

\* File(platform_file): takes a bare descriptor over.
FromDescriptor(f, fd) ==
    /\ Empty(f) /\ fd \in loose
    /\ file' = [file EXCEPT ![f] = Made(fd, "FILE_OK", FALSE)]
    /\ loose' = loose \ {fd}
    /\ UNCHANGED <<openfds, crash>>

\* initialize, of a path with ".." in it.
InitializeParent(f) ==
    /\ Holds(f)
    /\ file' = [file EXCEPT ![f].error = "FILE_ERROR_ACCESS_DENIED"]
    /\ UNCHANGED <<openfds, loose, crash>>

\* initialize and do_initialize: ::open fails, or there is a descriptor for file_, of a
\* file that is new or not.
Initialize(f, created) ==
    /\ Holds(f)
    /\ IF is_valid(f) THEN crash' = "do_initialize" /\ UNCHANGED <<file, openfds>>
       ELSE \/ /\ file' = [file EXCEPT ![f].error = "FILE_ERROR_NOT_FOUND", ![f].created = FALSE]
               /\ UNCHANGED <<openfds, crash>>
            \/ /\ FdNumbers \ openfds # {}
               /\ openfds' = openfds \cup {LowestFree}
               /\ file' = [file EXCEPT ![f] = Made(LowestFree, "FILE_OK", created)]
               /\ UNCHANGED crash
    /\ UNCHANGED loose

-----------------------------------------------------------------------------
(* Moving.                                                                 *)

MutantMoveKeeps(f, g) ==
    /\ Empty(f) /\ Holds(g)
    /\ file' = [file EXCEPT ![f] = file[g]]
    /\ UNCHANGED <<openfds, loose, crash>>

\* File(File&& other).
ConstructMoved(f, g) ==
    /\ Empty(f) /\ Holds(g)
    /\ file' = [file EXCEPT ![f] = file[g], ![g].fd = invalid_value]
    /\ UNCHANGED <<openfds, loose, crash>>

\* operator=(File&& other): this file is closed first, also when it is the other.
AssignMoved(f, g) ==
    /\ Holds(f) /\ Holds(g)
    /\ free_if_necessary(file[f].fd)
    /\ file' = IF f = g THEN [file EXCEPT ![f].fd = invalid_value]
               ELSE [file EXCEPT ![f] = file[g], ![g].fd = invalid_value]
    /\ UNCHANGED loose

\* duplicate: an invalid File gives an invalid one, as does a ::dup that fails.
Duplicate(f, g) ==
    /\ Empty(f) /\ Holds(g)
    /\ \/ /\ file' = [file EXCEPT ![f] = Made(invalid_value, "FILE_ERROR_FAILED", FALSE)]
          /\ UNCHANGED openfds
       \/ /\ is_valid(g) /\ FdNumbers \ openfds # {}
          /\ file' = [file EXCEPT ![f] = Made(LowestFree, "FILE_OK", FALSE)]
          /\ openfds' = openfds \cup {LowestFree}
    /\ UNCHANGED <<loose, crash>>

-----------------------------------------------------------------------------
(* Letting go.                                                             *)

MutantCloseForgets(f) ==
    /\ Holds(f) /\ is_valid(f)
    /\ free(file[f].fd)
    /\ UNCHANGED <<file, loose>>

\* close(); the error and created_ stay.
Close(f) ==
    /\ Holds(f) /\ is_valid(f)
    /\ scoped_reset(file[f].fd, invalid_value)
    /\ file' = [file EXCEPT ![f].fd = invalid_value]
    /\ UNCHANGED loose

\* take_platform_file: the program has the descriptor now.
Take(f) ==
    /\ Holds(f) /\ is_valid(f)
    /\ loose' = loose \cup {file[f].fd}
    /\ file' = [file EXCEPT ![f].fd = invalid_value]
    /\ UNCHANGED <<openfds, crash>>

\* ~File.
DestroyFile(f) ==
    /\ Holds(f)
    /\ free_if_necessary(file[f].fd)
    /\ file' = [file EXCEPT ![f] = NoFile]
    /\ UNCHANGED loose

CloseLoose(fd) ==
    /\ crash = "no" /\ fd \in loose
    /\ loose' = loose \ {fd} /\ openfds' = openfds \ {fd}
    /\ UNCHANGED <<file, crash>>

HandlesNext ==
    \/ \E f \in Slots : \/ Default(f) \/ InitializeParent(f) \/ Close(f) \/ Take(f)
                        \/ DestroyFile(f)
                        \/ \E created \in BOOLEAN : Initialize(f, created)
    \/ \E f, g \in Slots : ConstructMoved(f, g) \/ AssignMoved(f, g) \/ Duplicate(f, g)
    \/ \E fd \in FdNumbers : CloseLoose(fd) \/ \E f \in Slots : FromDescriptor(f, fd)

HandlesSpec == HandlesInit /\ [][HandlesNext]_hvars

-----------------------------------------------------------------------------
Owned(fd) == \E f \in Slots : file[f].fd = fd

\* Every open descriptor has exactly one owner, a File or the program, and no File has one
\* that is not open: nothing is closed twice or never, whatever is moved, duplicated or
\* taken, and the check of ScopedFDCloseTraits::free never fails.
HandlesOwned ==
    crash # "do_initialize" =>
        /\ crash = "no"
        /\ \A fd \in FdNumbers : IF fd \in openfds THEN Owned(fd) <=> fd \notin loose
                                ELSE ~Owned(fd) /\ fd \notin loose
        /\ \A f, g \in Slots : (file[f].fd = file[g].fd /\ is_valid(f)) => f = g
================================================================================
