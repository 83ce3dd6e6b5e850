------------------------------ MODULE MemFile -------------------------------
(***************************************************************************)
(* Files in memory (memfile.c): a buffer that grows in steps of 1024       *)
(* bytes, the size of the file, and a position.  Illkirch keeps its        *)
(* messages in one, writing a header first and again at the end.           *)
(*                                                                         *)
(* The bytes of the buffer nobody has written are Unset, whatever malloc   *)
(* and realloc left there.  Memory never runs out.                         *)
(***************************************************************************)
EXTENDS Integers, SequencesExt

CONSTANTS
  Byte, Unset,
  Step,     \* 1024
  Length,   \* bound on the size of a file
  Odd       \* boundaries, among the names below

\* "behind": a seek from the position or the end reaches behind the buffer.
\* "over": a read reaches behind the buffer.
ASSUME MemFileAssumption ==
  /\ Unset \notin Byte /\ Step \in Nat \ {0} /\ Length \in Nat
  /\ Odd \subseteq {"behind", "over"}

VARIABLES
  Buffer,   \* as long as BufferSize says
  FileSize, Pos,
  got,      \* what the last read gave
  BinData   \* what an application keeps of a file that is closed

fileVars == <<Buffer, FileSize, Pos, got, BinData>>
-----------------------------------------------------------------------------
BufferSize == Len(Buffer)
Rounded(n) == ((n \div Step) + 1) * Step

\* realloc.
Resized(b, n) == SubSeq(b, 1, Min({n, Len(b)})) \o [i \in 1..Max({0, n - Len(b)}) |-> Unset]

Content == SubSeq(Buffer, 1, FileSize)

\* MemFileNewEmpty.
FileInit ==
  /\ Buffer = Resized(<< >>, Step)
  /\ FileSize = 0 /\ Pos = 0 /\ got = << >> /\ BinData = << >>

\* Mutant of MemFileRead: the position goes on by what was asked for.
ReadGoesOn(s) ==
  LET toRead == IF s + Pos > FileSize THEN FileSize - Pos ELSE s
  IN /\ Pos + s > BufferSize => "over" \in Odd
     /\ got' = SubSeq(Buffer, Pos + 1, Pos + toRead)
     /\ Pos' = Min({Pos + s, BufferSize})
     /\ UNCHANGED <<Buffer, FileSize, BinData>>

\* MemFileRead: s bytes are copied, of which the program is told of toRead.
MemFileRead(s) ==
  LET toRead == IF s + Pos > FileSize THEN FileSize - Pos ELSE s
  IN /\ Pos + s > BufferSize => "over" \in Odd
     /\ got' = SubSeq(Buffer, Pos + 1, Pos + toRead)
     /\ Pos' = Pos + toRead
     /\ UNCHANGED <<Buffer, FileSize, BinData>>

MemFileWrite(d) ==
  LET s == Len(d)
      b == IF s > BufferSize - Pos THEN Resized(Buffer, Rounded(s + Pos)) ELSE Buffer
  IN /\ Pos + s <= Length
     /\ Buffer' = SubSeq(b, 1, Pos) \o d \o SubSeq(b, Pos + s + 1, Len(b))
     /\ FileSize' = IF s > FileSize - Pos THEN Pos + s ELSE FileSize
     /\ Pos' = Pos + s
     /\ UNCHANGED <<got, BinData>>

\* Mutant of MemFileSeek: the file does not grow.
SeekKeepsSize(base, p) ==
  LET newPos == base + p
  IN /\ newPos \in 0..Length
     /\ newPos > BufferSize /\ base # 0 => "behind" \in Odd
     /\ Buffer' = IF newPos > BufferSize THEN Resized(Buffer, Rounded(p)) ELSE Buffer
     /\ Pos' = newPos
     /\ UNCHANGED <<FileSize, got, BinData>>

\* MemFileSeek, from base: the start (0), Pos or FileSize.  The buffer gets the size that p
\* alone asks for.
MemFileSeek(base, p) ==
  LET newPos == base + p
  IN /\ newPos \in 0..Length
     /\ newPos > BufferSize /\ base # 0 => "behind" \in Odd
     /\ Buffer' = IF newPos > BufferSize THEN Resized(Buffer, Rounded(p)) ELSE Buffer
     /\ Pos' = newPos
     /\ FileSize' = Max({FileSize, newPos})
     /\ UNCHANGED <<got, BinData>>

\* FileExtractToBinData: by way of the end and the start, back to where it was.
FileExtractToBinData ==
  /\ BinData' = Content
  /\ UNCHANGED <<Buffer, FileSize, Pos, got>>

Reopened(b) ==
  /\ Buffer' = b /\ FileSize' = Len(BinData) /\ Pos' = 0 /\ got' = << >>
  /\ UNCHANGED BinData

\* MemFileFromBinData copies the data, MemFileFromFreeBinData takes them for its buffer.
MemFileFromBinData == Reopened(Resized(BinData, Rounded(Len(BinData))))
MemFileFromFreeBinData == Reopened(BinData)

\* MemFileCloseToBinData, and a new file.
MemFileCloseToBinData ==
  /\ BinData' = Content
  /\ Buffer' = Resized(<< >>, Step) /\ FileSize' = 0 /\ Pos' = 0 /\ got' = << >>

FileNext ==
  \/ \E s \in 0..Length : MemFileRead(s)
  \/ \E d \in BoundedSeq(Byte, Length) : MemFileWrite(d)
  \/ \E base \in {0, Pos, FileSize}, p \in -Length..Length : MemFileSeek(base, p)
  \/ FileExtractToBinData \/ MemFileFromBinData \/ MemFileFromFreeBinData \/ MemFileCloseToBinData

FileSpec == FileInit /\ [][FileNext]_fileVars
-----------------------------------------------------------------------------
\* Every variable has its type.
FileTypeOK ==
  /\ Buffer \in Seq(Byte \cup {Unset}) /\ BinData \in Seq(Byte \cup {Unset})
  /\ FileSize \in Nat /\ Pos \in Nat

\* The position is in the file and the file in the buffer: the unsigned differences of
\* MemFileRead and MemFileWrite do not wrap, and no copy runs over the end.
InBuffer == Pos <= FileSize /\ FileSize <= BufferSize

\* Through all growing, closing and reopening it is a file like those on a disk: what is
\* opened is what was closed.
F == INSTANCE ByteFile WITH content <- Content, pos <- Pos, kept <- BinData
IsFile == F!Spec
=============================================================================
