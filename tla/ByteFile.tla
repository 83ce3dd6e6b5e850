------------------------------ MODULE ByteFile ------------------------------
(***************************************************************************)
(* What a program sees of a file: its bytes and a position in them.  A     *)
(* position behind the end makes the file longer by bytes nobody wrote.    *)
(* The program may keep the bytes, with the file or in its place, and      *)
(* opens them again.                                                       *)
(***************************************************************************)
EXTENDS Integers, SequencesExt

CONSTANTS Byte, Unset, Length

VARIABLES
  content, pos,
  got,    \* what the last read gave
  kept    \* what the program keeps

Padded(c, n) == c \o [i \in 1..Max({0, n - Len(c)}) |-> Unset]

Fresh(c) == content' = c /\ pos' = 0 /\ got' = << >>

Open == Fresh(kept) /\ UNCHANGED kept
Extract == kept' = content /\ UNCHANGED <<content, pos, got>>
Close == kept' = content /\ Fresh(<< >>)

Read(n) ==
  /\ got' = SubSeq(content, pos + 1, Min({pos + n, Len(content)}))
  /\ pos' = pos + Len(got')
  /\ UNCHANGED <<content, kept>>

Write(d) ==
  /\ content' = SubSeq(content, 1, pos) \o d \o SubSeq(content, pos + Len(d) + 1, Len(content))
  /\ pos' = pos + Len(d)
  /\ UNCHANGED <<got, kept>>

Seek(p) ==
  /\ content' = Padded(content, p) /\ pos' = p
  /\ UNCHANGED <<got, kept>>

Init == content = << >> /\ pos = 0 /\ got = << >> /\ kept = << >>

Next ==
  \/ Open \/ Extract \/ Close
  \/ \E n \in 0..Length : Read(n) \/ Seek(n)
  \/ \E d \in BoundedSeq(Byte, Length) : Write(d)

Spec == Init /\ [][Next]_<<content, pos, got, kept>>
=============================================================================
