------------------------------ MODULE Formatting ------------------------------
(***************************************************************************)
(* Numbers and formats as text: convert and format_number of               *)
(* src/LogStream.cc, and the buffers that src/StringPrintf.cc tries.       *)
(*                                                                         *)
(* What vsnprintf would print is given; only how much of it there is room  *)
(* for matters.  Floating point numbers are left out.                      *)
(***************************************************************************)
EXTENDS Strings

CONSTANTS StackBuf,     \* arraysize(stack_buf): 1024
          MemLimit      \* the largest buffer tried: 32 MiB

ASSUME FormattingAssumption == StackBuf \in Nat /\ MemLimit \in Nat /\ StackBuf <= MemLimit

-----------------------------------------------------------------------------
(* LogStream.                                                              *)

DigitZero == 48              \* '0'
Minus == 45             \* '-'
Hex == 65               \* 'A'

\* kDigitMaps is a mirror around '0': digits[lsd] for an lsd of either sign.
digits(lsd) == DigitZero + (IF lsd < 0 THEN -lsd ELSE lsd)
digitsHex(lsd) == IF lsd < 10 THEN DigitZero + lsd ELSE Hex + lsd - 10

\* Division of C++, towards zero; the remainder has the sign of a.
Quotient(a, b) == IF a >= 0 THEN a \div b ELSE -((-a) \div b)
Remainder(a, b) == a - b * Quotient(a, b)

\* The do loops: the digits of i, the least significant first.
RECURSIVE Decimal(_)
Decimal(i) == <<digits(Remainder(i, 10))>> \o
    (IF Quotient(i, 10) = 0 THEN <<>> ELSE Decimal(Quotient(i, 10)))

RECURSIVE Hexadecimal(_)
Hexadecimal(i) == <<digitsHex(i % 16)>> \o
    (IF i \div 16 = 0 THEN <<>> ELSE Hexadecimal(i \div 16))

MutantConvertWhilePositive(value) ==
    IF value < 0 THEN <<Minus, digits(Remainder(value, 10))>> ELSE Reverse(Decimal(value))

\* convert<T>: no negation, so that the least value of T needs no care.
convert(value) ==
    Reverse(IF value < 0 THEN Append(Decimal(value), Minus) ELSE Decimal(value))

\* format_number<uintptr_t>.  Where uintptr_t is unsigned long, as on 64-bit Linux, this
\* is also what operator<<(unsigned long) prints.
format_pointer(value) == <<DigitZero, 120>> \o Reverse(Hexadecimal(value))

-----------------------------------------------------------------------------
(* StringPrintf.                                                           *)

\* vsnprintf of a text into a buffer of a size: what the buffer has (it ends with a NUL
\* within the size), and the length of the whole text; -1 if the text cannot be made.
NUL == 0
vsnprintf(text, size) ==
    [buffer |-> Append(substr(text, 0, size - 1), NUL), result |-> Len(text)]

\* sstring_appendvt: what is appended.  vsnprintf of glibc tells the length it needs, so
\* one more turn of the loop is enough; a text that is too long is left out altogether.
sstring_appendvt(text) ==
    LET first == vsnprintf(text, StackBuf)
        mem_length == first.result + 1
        second == vsnprintf(text, mem_length)
    IN IF first.result < StackBuf THEN SubSeq(first.buffer, 1, first.result)
       ELSE IF mem_length > MemLimit THEN <<>>
       ELSE SubSeq(second.buffer, 1, second.result)

\* sstring_printv of a char array: cut off at the end of it.
sstring_printv(text, size) == vsnprintf(text, size).buffer
===============================================================================
