------------------------------ MODULE ByteQueue ------------------------------
(***************************************************************************)
(* What ByteBuffers promise: the content of each is a queue of bytes.      *)
(* append adds at the end, all or nothing, and only a fixed buffer may     *)
(* refuse; reading takes from the front and returns what it takes; a move  *)
(* takes the content along and leaves the other buffer empty.              *)
(***************************************************************************)
EXTENDS Integers, Sequences

CONSTANTS Byte, Names

VARIABLES content,  \* what each buffer holds
          bounded,  \* whether it has a limit
          last_call \* the last call: the bytes given or returned, and its result

Init == /\ content = [b \in Names |-> <<>>]
        /\ bounded \in [Names -> BOOLEAN]
        /\ last_call = [data |-> <<>>, ok |-> TRUE]

Put(b) == /\ last_call'.ok /\ last_call'.data \in Seq(Byte)
          /\ content' = [content EXCEPT ![b] = @ \o last_call'.data]
          /\ bounded' = bounded

Refuse(b) == bounded[b] /\ ~last_call'.ok /\ content' = content /\ bounded' = bounded

Take(b) == /\ \E n \in 0 .. Len(content[b]) :
                 /\ last_call' = [data |-> SubSeq(content[b], 1, n), ok |-> TRUE]
                 /\ content' = [content EXCEPT ![b] = SubSeq(@, n + 1, Len(@))]
           /\ bounded' = bounded

\* std::move(a) given to b: a's limit goes along; b's may come back.
Move(a, b) == /\ content' = [content EXCEPT ![a] = <<>>, ![b] = content[a]]
              /\ \E limited \in {bounded[a], bounded[b]} :
                     bounded' = [bounded EXCEPT ![a] = limited, ![b] = bounded[a]]
              /\ last_call' = last_call

Next == \E b \in Names : \/ Put(b) \/ Refuse(b) \/ Take(b)
                         \/ \E a \in Names \ {b} : Move(a, b)

Spec == Init /\ [][Next]_<<content, bounded, last_call>>
=============================================================================
