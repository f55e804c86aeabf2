-------------------------------- MODULE LogFile --------------------------------
(***************************************************************************)
(* Logging to files: the messages of src/Logging.cc, whose output handler  *)
(* appends them to the LogFile of src/LogFile.cc, which starts a new file  *)
(* when the size or the day calls for it.  One thread logs.                *)
(*                                                                         *)
(* A message is its length.  A file is named by the second it was started  *)
(* in, so a rotation in the same second opens the same file again, and no  *)
(* other than the open one is ever opened again.                           *)
(***************************************************************************)
EXTENDS Integers, SequencesExt

CONSTANTS Lengths,              \* of a message
          rotate_size_b_, check_every_n_,
          DaySeconds,
          MaxSecond, MaxBytes   \* bounds: of the clock, and of a file

ASSUME LogFileAssumption ==
    /\ Lengths \subseteq Nat /\ Lengths # {}
    /\ {rotate_size_b_, check_every_n_, DaySeconds, MaxSecond, MaxBytes} \subseteq Nat
    /\ DaySeconds > 0

LOG_ERROR == 4
LOG_FATAL == 5
Severities == {0, LOG_ERROR, LOG_FATAL}

VARIABLES clock,
          g_min_log_severity,
          handler,              \* which output handler is set: "none", "stdout", "file"
          file_,                \* the second that names the open file
          length,               \* of that file
          written_, count_, last_rotate_,
          late,                 \* history: messages of a later day in the open file
          ended                 \* a LOG(FATAL) has aborted the process

lvars == <<clock, g_min_log_severity, handler, file_, length, written_, count_,
           last_rotate_, late, ended>>

\* The constructor rotates, with force.
LogFileInit ==
    /\ clock = 0 /\ g_min_log_severity = 0 /\ handler = "stdout"
    /\ file_ = 0 /\ length = 0 /\ written_ = 0 /\ count_ = 0 /\ last_rotate_ = 0
    /\ late = 0 /\ ended = FALSE

-----------------------------------------------------------------------------
utc_midnight(s) == (s \div DaySeconds) * DaySeconds

\* The length of the file of this second, which do_rotate_with_locked opens with
\* FLAG_OPEN_ALWAYS and FLAG_APPEND.
get_length == IF file_ = clock THEN length ELSE 0

\* append_unlocked: what written_ and count_ are afterwards, and whether it rotates.  The
\* length of a message that rotates is not counted: written_ becomes the length of the
\* file before it.
FileTooLong == written_ > rotate_size_b_
CheckDue == ~FileTooLong /\ count_ >= check_every_n_
NewDay == utc_midnight(clock) > last_rotate_
Rotates == FileTooLong \/ (CheckDue /\ NewDay)

MutantCountsNothing(len) ==
    /\ written_' = IF Rotates THEN get_length ELSE written_
    /\ count_' = IF FileTooLong THEN count_ ELSE IF CheckDue THEN 0 ELSE count_ + 1

Counted(len) ==
    /\ written_' = IF Rotates THEN get_length ELSE written_ + len
    /\ count_' = IF FileTooLong THEN count_ ELSE IF CheckDue THEN 0 ELSE count_ + 1

\* append.
AppendMessage(len) ==
    /\ Counted(len)
    /\ file_' = IF Rotates THEN clock ELSE file_
    /\ last_rotate_' = IF Rotates THEN clock ELSE last_rotate_
    /\ length' = len + IF Rotates THEN get_length ELSE length
    /\ late' = IF utc_midnight(clock) > file_' THEN late + 1 ELSE 0

\* rotate(true), by the user.
Rotate ==
    /\ ~ended
    /\ written_' = get_length /\ file_' = clock /\ length' = get_length /\ last_rotate_' = clock
    /\ late' = 0
    /\ UNCHANGED <<clock, g_min_log_severity, handler, count_, ended>>

-----------------------------------------------------------------------------
should_logging_message(severity) == severity >= g_min_log_severity

\* LOG(severity): ~LogMessage gives the text to the handler, and ends the process after a
\* FATAL, its handler flushed.
Log(severity, len) ==
    /\ ~ended /\ should_logging_message(severity) /\ length < MaxBytes
    /\ IF handler = "file" THEN AppendMessage(len)
       ELSE UNCHANGED <<file_, length, written_, count_, last_rotate_, late>>
    /\ ended' = (severity = LOG_FATAL)
    /\ UNCHANGED <<clock, g_min_log_severity, handler>>

set_min_log_severity(severity) ==
    /\ ~ended /\ g_min_log_severity' = Min({LOG_FATAL, severity})
    /\ UNCHANGED <<clock, handler, file_, length, written_, count_, last_rotate_, late, ended>>

set_log_output_handler(h) ==
    /\ ~ended /\ handler' = h
    /\ UNCHANGED <<clock, g_min_log_severity, file_, length, written_, count_, last_rotate_,
                   late, ended>>

Tick ==
    /\ ~ended /\ clock < MaxSecond /\ clock' = clock + 1
    /\ UNCHANGED <<g_min_log_severity, handler, file_, length, written_, count_, last_rotate_,
                   late, ended>>

LogFileNext ==
    \/ \E severity \in Severities, len \in Lengths : Log(severity, len)
    \/ \E severity \in Severities : set_min_log_severity(severity)
    \/ \E h \in {"none", "stdout", "file"} : set_log_output_handler(h)
    \/ Rotate \/ Tick

LogFileSpec == LogFileInit /\ [][LogFileNext]_lvars

-----------------------------------------------------------------------------
MaxLength == Max(Lengths)

\* append_unlocked and rotate: a file is only appended to up to rotate_size_b_ and two
\* messages, except in the second it is named by; and after midnight at most
\* check_every_n_ messages go to the file of an earlier day.
LogFilesBounded ==
    [][/\ (file_' = file_ /\ file_ < clock /\ length' > length) =>
            length' <= rotate_size_b_ + 2 * MaxLength
       /\ late' <= check_every_n_]_lvars
================================================================================
