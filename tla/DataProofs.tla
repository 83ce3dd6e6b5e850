----------------------------- MODULE DataProofs ------------------------------
(***************************************************************************)
(* About the data the system keeps.                                        *)
(*                                                                         *)
(* Files in memory: that memfile.c keeps to its buffer, and gives a        *)
(* program a file like those on a disk, for every growth of the buffer,    *)
(* size of file and alphabet, as long as no seek from the position or the  *)
(* end reaches behind the buffer.  A seek behind the end takes bytes of    *)
(* the buffer into the file that nobody wrote.  That they are not the      *)
(* leftovers of an earlier file needs the invariant: what is behind the    *)
(* end of the file is Unset.                                               *)
(*                                                                         *)
(* Lists of rectangles: what the macros AddBminusAHPref and                *)
(* AddBminusAVPref of metrics.c leave of a rectangle when another one is   *)
(* taken away is all of the rest, and no pixel twice, wherever the two     *)
(* lie; and the lists are exact, for lists of any length: RectList's walks *)
(* put these pieces in the place of the items they remove, into the list   *)
(* they walk.                                                              *)
(*                                                                         *)
(* The registry: that what registry.c does to its keys leaves a tree, for  *)
(* any keys, names, types and paths, and that the file is one too; that a  *)
(* value set is the value got, and no other path's; that the tree read     *)
(* back is the one saved.                                                  *)
(***************************************************************************)
EXTENDS MemFile, RectList, Registry, Links, SequenceTheorems, TLAPS

(***************************************************************************)
(* Files in memory.                                                        *)
(***************************************************************************)
Char == Byte \cup {Unset}

BehindUnset == \A i \in 1..Len(Buffer) : i > FileSize => Buffer[i] = Unset

Bounded == FileSize <= Length /\ Len(BinData) <= Length

FileInv == FileTypeOK /\ InBuffer /\ BehindUnset /\ Bounded
-----------------------------------------------------------------------------
LEMMA MaxOfTwo ==
  ASSUME NEW h \in Int, NEW b \in Int
  PROVE  Max({h, b}) = IF h >= b THEN h ELSE b
<1> DEFINE m == IF h >= b THEN h ELSE b
<1>1. m \in {h, b} /\ \A y \in {h, b} : m >= y
  OBVIOUS
<1>2. \A x \in {h, b} : (\A y \in {h, b} : x >= y) => x = m
  OBVIOUS
<1> QED
  BY <1>1, <1>2 DEF Max

LEMMA MinOfTwo ==
  ASSUME NEW h \in Int, NEW b \in Int
  PROVE  Min({h, b}) = IF h <= b THEN h ELSE b
<1> DEFINE m == IF h <= b THEN h ELSE b
<1>1. m \in {h, b} /\ \A y \in {h, b} : m <= y
  OBVIOUS
<1>2. \A x \in {h, b} : (\A y \in {h, b} : x <= y) => x = m
  OBVIOUS
<1> QED
  BY <1>1, <1>2 DEF Min

\* ((n/1024)+1)*1024 is more than n.
LEMMA RoundedAbove ==
  ASSUME NEW n \in Nat
  PROVE  Rounded(n) \in Nat /\ Rounded(n) > n
<1>1. Step \in Nat /\ Step > 0
  BY MemFileAssumption
<1>2. ((n \div Step) + 1) * Step \in Nat /\ n < ((n \div Step) + 1) * Step
  <2>1. \A y \in Nat : y > 0 => ((n \div y) + 1) * y \in Nat /\ n < ((n \div y) + 1) * y
    OBVIOUS
  <2> QED
    BY <1>1, <2>1
<1> QED
  BY <1>2 DEF Rounded

\* A prefix of a sequence.
LEMMA PrefixIs ==
  ASSUME NEW S, NEW b \in Seq(S), NEW n \in 0..Len(b)
  PROVE  /\ SubSeq(b, 1, n) \in Seq(S) /\ Len(SubSeq(b, 1, n)) = n
         /\ \A i \in 1..n : SubSeq(b, 1, n)[i] = b[i]
<1>1. n \in Int /\ 1 \in Int /\ \A i \in 1..n : b[i] \in S
  OBVIOUS
<1>2. /\ SubSeq(b, 1, n) \in Seq(S)
      /\ Len(SubSeq(b, 1, n)) = IF 1 <= n THEN n - 1 + 1 ELSE 0
      /\ \A i \in 1..(n - 1 + 1) : SubSeq(b, 1, n)[i] = b[1 + i - 1]
  BY <1>1, SubSeqProperties
<1>3. 1..(n - 1 + 1) = 1..n /\ n - 1 + 1 = n /\ \A i \in 1..n : 1 + i - 1 = i
  BY <1>1
<1>4. Len(SubSeq(b, 1, n)) = n
  BY <1>2, <1>3
<1> QED
  BY <1>2, <1>3, <1>4

\* What is left of a sequence behind its first n elements.
LEMMA RestIs ==
  ASSUME NEW S, NEW b \in Seq(S), NEW n \in Nat
  PROVE  /\ SubSeq(b, n + 1, Len(b)) \in Seq(S)
         /\ Len(SubSeq(b, n + 1, Len(b))) = IF n < Len(b) THEN Len(b) - n ELSE 0
         /\ \A i \in 1..(Len(b) - n) : SubSeq(b, n + 1, Len(b))[i] = b[n + i]
<1> DEFINE m == n + 1
           l == Len(b)
<1>1. m \in Int /\ l \in Int /\ l >= 0 /\ \A i \in m..l : b[i] \in S
  OBVIOUS
<1>2. m = n + 1
  OBVIOUS
<1> HIDE DEF m, l
<1>3. /\ SubSeq(b, m, l) \in Seq(S)
      /\ Len(SubSeq(b, m, l)) = IF m <= l THEN l - m + 1 ELSE 0
      /\ \A i \in 1..(l - m + 1) : SubSeq(b, m, l)[i] = b[m + i - 1]
  BY <1>1, SubSeqProperties
<1>4. l - m + 1 = l - n /\ (m <= l <=> n < l)
  BY <1>1, <1>2
<1>5. \A i \in 1..(l - n) : m + i - 1 = n + i
  BY <1>1, <1>2
<1>6. \A i \in 1..(l - n) : SubSeq(b, m, l)[i] = b[n + i]
  BY <1>3, <1>4, <1>5
<1>7. Len(SubSeq(b, m, l)) = IF n < l THEN l - n ELSE 0
  BY <1>3, <1>4
<1> QED
  BY <1>3, <1>6, <1>7 DEF m, l

LEMMA UnsetIs ==
  ASSUME NEW n \in Nat
  PROVE  /\ [i \in 1..n |-> Unset] \in Seq(Char) /\ Len([i \in 1..n |-> Unset]) = n
         /\ \A j \in 1..n : [i \in 1..n |-> Unset][j] = Unset
BY DEF Char

\* realloc keeps what fits, and what it adds is Unset.
LEMMA ResizedIs ==
  ASSUME NEW b \in Seq(Char), NEW n \in Nat
  PROVE  /\ Resized(b, n) \in Seq(Char) /\ Len(Resized(b, n)) = n
         /\ \A i \in 1..n : Resized(b, n)[i] = IF i <= Len(b) THEN b[i] ELSE Unset
<1> DEFINE k == IF n <= Len(b) THEN n ELSE Len(b)
           x == IF 0 >= n - Len(b) THEN 0 ELSE n - Len(b)
           p == SubSeq(b, 1, k)
           u == [i \in 1..x |-> Unset]
<1>1. Len(b) \in Nat /\ k \in 0..Len(b) /\ x \in Nat /\ k + x = n
  OBVIOUS
<1>2. Min({n, Len(b)}) = k /\ Max({0, n - Len(b)}) = x
  BY <1>1, MinOfTwo, MaxOfTwo
<1>3. Resized(b, n) = p \o u
  BY <1>2 DEF Resized
<1>4. p \in Seq(Char) /\ Len(p) = k /\ \A i \in 1..k : p[i] = b[i]
  BY <1>1, PrefixIs
<1>5. u \in Seq(Char) /\ Len(u) = x /\ \A i \in 1..x : u[i] = Unset
  BY <1>1, UnsetIs
<1>6. k <= Len(b) /\ (k < n => k = Len(b)) /\ k <= n
  BY <1>1
<1> HIDE DEF k, x, p, u
<1>7. /\ p \o u \in Seq(Char) /\ Len(p \o u) = k + x
      /\ \A i \in 1..(k + x) : (p \o u)[i] = IF i <= k THEN p[i] ELSE u[i - k]
  BY <1>4, <1>5, ConcatProperties, ZenonT(40)
<1>8. \A i \in 1..n : (p \o u)[i] = IF i <= Len(b) THEN b[i] ELSE Unset
  <2> SUFFICES ASSUME NEW i \in 1..n PROVE (p \o u)[i] = IF i <= Len(b) THEN b[i] ELSE Unset
    OBVIOUS
  <2>1. CASE i <= k
    BY <1>1, <1>4, <1>6, <1>7, <2>1
  <2>2. CASE i > k
    <3>1. i - k \in 1..x /\ i > Len(b)
      BY <1>1, <1>6, <2>2
    <3> QED
      BY <1>1, <1>5, <1>7, <2>2, <3>1
  <2>3. i <= k \/ i > k
    BY <1>1
  <2> QED
    BY <2>1, <2>2, <2>3
<1> QED
  BY <1>1, <1>3, <1>7, <1>8

\* d written over b at position n.
Overwritten(b, n, d) == SubSeq(b, 1, n) \o d \o SubSeq(b, n + Len(d) + 1, Len(b))

LEMMA OverwrittenIs ==
  ASSUME NEW b \in Seq(Char), NEW d \in Seq(Char), NEW n \in 0..Len(b),
         NEW o, o = Overwritten(b, n, d)
  PROVE  /\ o \in Seq(Char)
         /\ Len(o) = IF n + Len(d) > Len(b) THEN n + Len(d) ELSE Len(b)
         /\ \A i \in 1..Len(o) : o[i] = IF i <= n THEN b[i]
                                        ELSE IF i <= n + Len(d) THEN d[i - n] ELSE b[i]
<1> DEFINE p == SubSeq(b, 1, n)
           m == n + Len(d)
           e == SubSeq(b, m + 1, Len(b))
<1>1. m \in Nat /\ n \in Nat /\ Len(d) \in Nat /\ Len(b) \in Nat /\ m = n + Len(d) /\ n <= Len(b)
  OBVIOUS
<1>2. p \in Seq(Char) /\ Len(p) = n /\ \A i \in 1..n : p[i] = b[i]
  BY PrefixIs
<1> HIDE DEF m
<1>3. /\ e \in Seq(Char) /\ Len(e) = IF m < Len(b) THEN Len(b) - m ELSE 0
      /\ \A i \in 1..(Len(b) - m) : e[i] = b[m + i]
  BY <1>1, RestIs
<1>4. o = (p \o d) \o e
  BY DEF m, Overwritten
<1> HIDE DEF p, e
<1>5. /\ p \o d \in Seq(Char) /\ Len(p \o d) = m
      /\ \A i \in 1..m : (p \o d)[i] = IF i <= n THEN b[i] ELSE d[i - n]
  <2>1. /\ p \o d \in Seq(Char) /\ Len(p \o d) = n + Len(d)
        /\ \A i \in 1..(n + Len(d)) : (p \o d)[i] = IF i <= n THEN p[i] ELSE d[i - n]
    BY <1>2, ConcatProperties
  <2> QED
    BY <1>1, <1>2, <2>1
<1> DEFINE q == p \o d
<1> HIDE DEF q
<1>6. /\ o \in Seq(Char) /\ Len(o) = m + Len(e)
      /\ \A i \in 1..(m + Len(e)) : o[i] = IF i <= m THEN q[i] ELSE e[i - m]
  <2>1. q \in Seq(Char) /\ Len(q) = m /\ o = q \o e
    BY <1>4, <1>5 DEF q
  <2>2. /\ q \o e \in Seq(Char) /\ Len(q \o e) = Len(q) + Len(e)
        /\ \A i \in 1..(Len(q) + Len(e)) : (q \o e)[i] = IF i <= Len(q) THEN q[i] ELSE e[i - Len(q)]
    BY <1>3, <2>1, ConcatProperties
  <2> QED
    BY <2>1, <2>2
<1>e. e \in Seq(Char) /\ Len(e) \in Nat
  BY <1>3
<1>l. Len(e) \in Nat /\ m + Len(e) \in Nat /\ Len(o) \in Nat
  BY <1>1, <1>e, <1>6
<1>7. Len(o) = IF m > Len(b) THEN m ELSE Len(b)
  <2>1. Len(o) = m + Len(e) /\ Len(e) = IF m < Len(b) THEN Len(b) - m ELSE 0
    BY <1>3, <1>6
  <2>2. CASE m < Len(b)
    BY <1>1, <2>1, <2>2
  <2>3. CASE ~(m < Len(b))
    BY <1>1, <2>1, <2>3
  <2> QED
    BY <2>2, <2>3
<1>8. ASSUME NEW i \in 1..Len(o)
      PROVE  o[i] = IF i <= n THEN b[i] ELSE IF i <= m THEN d[i - n] ELSE b[i]
  <2>1. CASE i <= m
    <3>1. i \in 1..m /\ i \in 1..(m + Len(e))
      BY <1>1, <1>6, <1>l, <2>1
    <3> QED
      BY <1>5, <1>6, <2>1, <3>1 DEF q
  <2>2. CASE i > m
    <3>1. i - m \in 1..(Len(b) - m) /\ m + (i - m) = i /\ i > n
      BY <1>1, <1>7, <1>l, <2>2
    <3>2. e[i - m] = b[i]
      BY <1>3, <3>1
    <3>3. i \in 1..(m + Len(e)) /\ ~(i <= m) /\ ~(i <= n)
      BY <1>1, <1>6, <1>l, <2>2
    <3> QED
      BY <1>6, <3>2, <3>3
  <2>3. i <= m \/ i > m
    BY <1>1, <1>l
  <2> QED
    BY <2>1, <2>2, <2>3
<1> QED
  BY <1>1, <1>6, <1>7, <1>8
-----------------------------------------------------------------------------
LEMMA CharOfByte ==
  ASSUME NEW d \in BoundedSeq(Byte, Length)
  PROVE  d \in Seq(Char) /\ Len(d) \in Nat
BY DEF BoundedSeq, SeqOf, Char

LEMMA FileInitInv == FileInit => FileInv
<1> SUFFICES ASSUME FileInit PROVE FileInv
  OBVIOUS
<1>1. << >> \in Seq(Char) /\ Len(<< >>) = 0
  OBVIOUS
<1>2. Step \in Nat /\ Length \in Nat
  BY MemFileAssumption
<1>3. /\ Resized(<< >>, Step) \in Seq(Char) /\ Len(Resized(<< >>, Step)) = Step
      /\ \A i \in 1..Step : Resized(<< >>, Step)[i] = IF i <= 0 THEN << >>[i] ELSE Unset
  BY <1>1, <1>2, ResizedIs
<1> QED
  BY <1>1, <1>2, <1>3 DEF FileInit, FileInv, FileTypeOK, InBuffer, BehindUnset, Bounded, BufferSize, Char

\* What Inv says, at hand for the steps.
LEMMA InvIs ==
  ASSUME FileInv
  PROVE  /\ Buffer \in Seq(Char) /\ BinData \in Seq(Char) /\ Len(Buffer) \in Nat /\ Len(BinData) \in Nat
         /\ FileSize \in Nat /\ Pos \in Nat /\ Length \in Nat
         /\ Pos <= FileSize /\ FileSize <= Len(Buffer) /\ FileSize <= Length
         /\ Len(BinData) <= Length
         /\ \A i \in 1..Len(Buffer) : i > FileSize => Buffer[i] = Unset
BY MemFileAssumption DEF FileInv, FileTypeOK, InBuffer, BehindUnset, Bounded, BufferSize, Char

LEMMA InvFrom ==
  ASSUME Buffer' \in Seq(Char), BinData' \in Seq(Char), FileSize' \in Nat, Pos' \in Nat,
         Pos' <= FileSize', FileSize' <= Len(Buffer'), FileSize' <= Length,
         Len(BinData') <= Length,
         \A i \in 1..Len(Buffer') : i > FileSize' => Buffer'[i] = Unset
  PROVE  FileInv'
BY DEF FileInv, FileTypeOK, InBuffer, BehindUnset, Bounded, BufferSize, Char

\* The file, as an application sees it.
LEMMA ContentIs ==
  ASSUME FileInv
  PROVE  /\ Content \in Seq(Char) /\ Len(Content) = FileSize
         /\ \A i \in 1..FileSize : Content[i] = Buffer[i]
<1>1. Buffer \in Seq(Char) /\ FileSize \in 0..Len(Buffer)
  BY InvIs
<1> QED
  BY <1>1, PrefixIs DEF Content

\* What a read gives, which is its toRead.
Read(s) == IF s + Pos > FileSize THEN FileSize - Pos ELSE s

LEMMA ReadInv ==
  ASSUME FileInv, NEW s \in 0..Length, MemFileRead(s)
  PROVE  FileInv' /\ Pos + Read(s) <= FileSize /\ Read(s) \in Nat
<1>1. s \in Nat /\ Pos' = Pos + Read(s) /\ UNCHANGED <<Buffer, FileSize, BinData>>
  BY InvIs DEF MemFileRead, Read
<1>2. Read(s) \in Nat /\ Pos + Read(s) <= FileSize
  BY <1>1, InvIs DEF Read
<1> QED
  BY <1>1, <1>2, InvIs, InvFrom

\* The buffer MemFileWrite copies into.
Grown(s) == IF s > Len(Buffer) - Pos THEN Resized(Buffer, Rounded(s + Pos)) ELSE Buffer

LEMMA RoomIs ==
  ASSUME FileInv, NEW s \in Nat
  PROVE  /\ Grown(s) \in Seq(Char) /\ Pos + s <= Len(Grown(s)) /\ FileSize <= Len(Grown(s))
         /\ \A i \in 1..Len(Grown(s)) : Grown(s)[i] = IF i <= FileSize THEN Buffer[i] ELSE Unset
<1>1. CASE s > Len(Buffer) - Pos
  <2> DEFINE n == Rounded(s + Pos)
  <2>1. n \in Nat /\ n > s + Pos
    <3>1. s + Pos \in Nat
      BY InvIs
    <3> QED
      BY <3>1, RoundedAbove
  <2>2. Grown(s) = Resized(Buffer, n)
    BY <1>1 DEF Grown
  <2> HIDE DEF n
  <2>3. /\ Resized(Buffer, n) \in Seq(Char) /\ Len(Resized(Buffer, n)) = n
        /\ \A i \in 1..n : Resized(Buffer, n)[i] = IF i <= Len(Buffer) THEN Buffer[i] ELSE Unset
    BY <2>1, ResizedIs, InvIs
  <2>4. n > Len(Buffer)
    BY <1>1, <2>1, InvIs
  <2> QED
    BY <2>1, <2>2, <2>3, <2>4, InvIs
<1>2. CASE ~(s > Len(Buffer) - Pos)
  BY <1>2, InvIs DEF Grown
<1> QED
  BY <1>1, <1>2

LEMMA WriteIs ==
  ASSUME FileInv, NEW d \in BoundedSeq(Byte, Length), MemFileWrite(d)
  PROVE  /\ FileInv'
         /\ FileSize' = IF Pos + Len(d) > FileSize THEN Pos + Len(d) ELSE FileSize
         /\ \A i \in 1..Len(Buffer') :
              Buffer'[i] = IF i <= Pos THEN Buffer[i]
                           ELSE IF i <= Pos + Len(d) THEN d[i - Pos]
                           ELSE IF i <= FileSize THEN Buffer[i] ELSE Unset
<1> DEFINE s == Len(d)
           b == Grown(s)
<1>1. d \in Seq(Char) /\ s \in Nat
  BY CharOfByte
<1>2. /\ Pos + s <= Length /\ Pos' = Pos + s /\ BinData' = BinData
      /\ Buffer' = Overwritten(b, Pos, d)
      /\ FileSize' = IF s > FileSize - Pos THEN Pos + s ELSE FileSize
  BY DEF MemFileWrite, Grown, Overwritten, BufferSize
<1>3. /\ b \in Seq(Char) /\ Pos + s <= Len(b) /\ FileSize <= Len(b) /\ Len(b) \in Nat
      /\ \A i \in 1..Len(b) : b[i] = IF i <= FileSize THEN Buffer[i] ELSE Unset
  <2> HIDE DEF s
  <2>1. /\ b \in Seq(Char) /\ Pos + s <= Len(b) /\ FileSize <= Len(b)
        /\ \A i \in 1..Len(b) : b[i] = IF i <= FileSize THEN Buffer[i] ELSE Unset
    BY <1>1, RoomIs, Zenon
  <2> QED
    BY <2>1
<1>4. Pos \in 0..Len(b)
  BY <1>1, <1>3, InvIs
<1> HIDE DEF b
<1>5. /\ Buffer' \in Seq(Char)
      /\ Len(Buffer') = IF Pos + s > Len(b) THEN Pos + s ELSE Len(b)
      /\ \A i \in 1..Len(Buffer') :
           Buffer'[i] = IF i <= Pos THEN b[i] ELSE IF i <= Pos + s THEN d[i - Pos] ELSE b[i]
  BY <1>1, <1>2, <1>3, <1>4, OverwrittenIs
<1>6. Len(Buffer') = Len(b)
  BY <1>1, <1>3, <1>5, InvIs
<1>7. FileSize' = IF Pos + s > FileSize THEN Pos + s ELSE FileSize
  BY <1>1, <1>2, InvIs
<1> HIDE DEF s
<1>8. ASSUME NEW i \in 1..Len(Buffer')
      PROVE  Buffer'[i] = IF i <= Pos THEN Buffer[i] ELSE IF i <= Pos + s THEN d[i - Pos]
                          ELSE IF i <= FileSize THEN Buffer[i] ELSE Unset
  <2>1. i \in Nat /\ i \in 1..Len(b) /\ (i <= Pos => i <= FileSize)
    BY <1>3, <1>6, InvIs
  <2>2. b[i] = IF i <= FileSize THEN Buffer[i] ELSE Unset
    BY <1>3, <2>1
  <2> QED
    BY <1>5, <2>1, <2>2
<1>9. \A i \in 1..Len(Buffer') : i > FileSize' => Buffer'[i] = Unset
  <2> SUFFICES ASSUME NEW i \in 1..Len(Buffer'), i > FileSize' PROVE Buffer'[i] = Unset
    OBVIOUS
  <2>1. i \in Nat /\ ~(i <= Pos) /\ ~(i <= Pos + s) /\ ~(i <= FileSize)
    BY <1>1, <1>7, <1>3, <1>6, InvIs
  <2> QED
    BY <1>8, <2>1
<1>10. FileInv'
  <2>1. /\ Pos' \in Nat /\ FileSize' \in Nat /\ Pos' <= FileSize' /\ FileSize' <= Len(Buffer')
        /\ FileSize' <= Length
    BY <1>1, <1>2, <1>3, <1>6, <1>7, InvIs
  <2> QED
    BY <1>2, <1>5, <1>9, <2>1, InvIs, InvFrom
<1> QED
  BY <1>7, <1>8, <1>10 DEF s

LEMMA SeekIs ==
  ASSUME "behind" \notin Odd, FileInv, NEW base \in {0, Pos, FileSize}, NEW p \in -Length..Length,
         MemFileSeek(base, p)
  PROVE  /\ FileInv' /\ base + p \in 0..Length /\ Pos' = base + p /\ got' = got
         /\ FileSize' = IF FileSize >= base + p THEN FileSize ELSE base + p
         /\ \A i \in 1..FileSize' : Buffer'[i] = IF i <= FileSize THEN Buffer[i] ELSE Unset
<1>1. base \in Nat /\ p \in Int
  BY InvIs
<1>2. PICK n : n = base + p
  OBVIOUS
<1>3. /\ n \in 0..Length /\ Pos' = n /\ got' = got /\ BinData' = BinData
      /\ FileSize' = Max({FileSize, n})
      /\ n > Len(Buffer) => base = 0
      /\ Buffer' = IF n > Len(Buffer) THEN Resized(Buffer, Rounded(p)) ELSE Buffer
  BY <1>2 DEF MemFileSeek, BufferSize
<1>4. n \in Nat /\ FileSize' = IF FileSize >= n THEN FileSize ELSE n
  BY <1>3, MaxOfTwo, InvIs
<1>5. FileSize' \in Nat /\ FileSize <= FileSize' /\ n <= FileSize' /\ FileSize' <= Length
  BY <1>3, <1>4, InvIs
<1>6. /\ Buffer' \in Seq(Char) /\ FileSize' <= Len(Buffer')
      /\ \A i \in 1..Len(Buffer') : Buffer'[i] = IF i <= FileSize THEN Buffer[i] ELSE Unset
  <2>1. CASE n > Len(Buffer)
    <3>1. p = n
      BY <1>1, <1>2, <1>3, <2>1
    <3> DEFINE m == Rounded(n)
    <3>2. m \in Nat /\ m > n
      BY <1>4, RoundedAbove
    <3>3. Buffer' = Resized(Buffer, m)
      BY <1>3, <2>1, <3>1
    <3> HIDE DEF m
    <3>4. /\ Resized(Buffer, m) \in Seq(Char) /\ Len(Resized(Buffer, m)) = m
          /\ \A i \in 1..m : Resized(Buffer, m)[i] = IF i <= Len(Buffer) THEN Buffer[i] ELSE Unset
      BY <3>2, ResizedIs, InvIs
    <3>5. FileSize' <= m
      BY <1>4, <2>1, <3>2, InvIs
    <3> QED
      BY <3>2, <3>3, <3>4, <3>5, InvIs
  <2>2. CASE ~(n > Len(Buffer))
    BY <1>3, <1>4, <2>2, InvIs
  <2> QED
    BY <2>1, <2>2
<1>7. \A i \in 1..Len(Buffer') : i > FileSize' => Buffer'[i] = Unset
  BY <1>5, <1>6, InvIs
<1>8. FileInv'
  BY <1>3, <1>4, <1>5, <1>6, <1>7, InvIs, InvFrom
<1>9. \A i \in 1..FileSize' : Buffer'[i] = IF i <= FileSize THEN Buffer[i] ELSE Unset
  BY <1>5, <1>6
<1> QED
  BY <1>2, <1>3, <1>4, <1>8, <1>9

LEMMA ExtractInv ==
  ASSUME FileInv, FileExtractToBinData
  PROVE  FileInv'
BY ContentIs, InvIs, InvFrom DEF FileExtractToBinData

LEMMA FromBinDataInv ==
  ASSUME FileInv, MemFileFromBinData
  PROVE  FileInv'
<1> DEFINE m == Rounded(Len(BinData))
<1>1. m \in Nat /\ m > Len(BinData)
  BY RoundedAbove, InvIs
<1>2. /\ Buffer' = Resized(BinData, m) /\ FileSize' = Len(BinData) /\ Pos' = 0 /\ BinData' = BinData
  BY DEF MemFileFromBinData, Reopened
<1> HIDE DEF m
<1>3. /\ Resized(BinData, m) \in Seq(Char) /\ Len(Resized(BinData, m)) = m
      /\ \A i \in 1..m : Resized(BinData, m)[i] = IF i <= Len(BinData) THEN BinData[i] ELSE Unset
  BY <1>1, ResizedIs, InvIs
<1>4. \A i \in 1..Len(Buffer') : i > FileSize' => Buffer'[i] = Unset
  BY <1>1, <1>2, <1>3, InvIs
<1> QED
  BY <1>1, <1>2, <1>3, <1>4, InvIs, InvFrom

LEMMA FromFreeBinDataInv ==
  ASSUME FileInv, MemFileFromFreeBinData
  PROVE  FileInv'
BY InvIs, InvFrom DEF MemFileFromFreeBinData, Reopened

LEMMA CloseInv ==
  ASSUME FileInv, MemFileCloseToBinData
  PROVE  FileInv'
<1>1. << >> \in Seq(Char) /\ Len(<< >>) = 0 /\ Step \in Nat
  BY MemFileAssumption
<1>2. /\ Resized(<< >>, Step) \in Seq(Char) /\ Len(Resized(<< >>, Step)) = Step
      /\ \A i \in 1..Step : Resized(<< >>, Step)[i] = IF i <= 0 THEN << >>[i] ELSE Unset
  BY <1>1, ResizedIs
<1>3. /\ BinData' = Content /\ Buffer' = Resized(<< >>, Step) /\ FileSize' = 0 /\ Pos' = 0
  BY DEF MemFileCloseToBinData
<1>4. \A i \in 1..Len(Buffer') : i > FileSize' => Buffer'[i] = Unset
  BY <1>1, <1>2, <1>3
<1> QED
  BY <1>1, <1>2, <1>3, <1>4, ContentIs, InvIs, InvFrom

LEMMA FileNextInv ==
  ASSUME "behind" \notin Odd
  PROVE  FileInv /\ [FileNext]_fileVars => FileInv'
<1> SUFFICES ASSUME FileInv, [FileNext]_fileVars PROVE FileInv'
  OBVIOUS
<1>1. ASSUME NEW s \in 0..Length, MemFileRead(s) PROVE FileInv'
  BY <1>1, ReadInv
<1>2. ASSUME NEW d \in BoundedSeq(Byte, Length), MemFileWrite(d) PROVE FileInv'
  BY <1>2, WriteIs
<1>3. ASSUME NEW base \in {0, Pos, FileSize}, NEW p \in -Length..Length, MemFileSeek(base, p)
      PROVE  FileInv'
  BY <1>3, SeekIs
<1>4. CASE FileExtractToBinData
  BY <1>4, ExtractInv
<1>5. CASE MemFileFromBinData
  BY <1>5, FromBinDataInv
<1>6. CASE MemFileFromFreeBinData
  BY <1>6, FromFreeBinDataInv
<1>7. CASE MemFileCloseToBinData
  BY <1>7, CloseInv
<1>8. CASE UNCHANGED fileVars
  BY <1>8, InvIs, InvFrom DEF fileVars
<1> QED
  BY <1>1, <1>2, <1>3, <1>4, <1>5, <1>6, <1>7, <1>8 DEF FileNext

\* TypeOK: every variable keeps its type.
THEOREM MemFileTypeCorrect ==
  ASSUME "behind" \notin Odd
  PROVE  FileSpec => []FileTypeOK
<1>1. FileInv => FileTypeOK
  BY DEF FileInv
<1>2. FileInv /\ [FileNext]_fileVars => FileInv'
  BY FileNextInv
<1> QED
  BY <1>1, <1>2, FileInitInv, PTL DEF FileSpec

\* InBuffer: no copy of memfile.c runs over the end of its buffer, and no size wraps.
THEOREM MemFileInBuffer ==
  ASSUME "behind" \notin Odd
  PROVE  FileSpec => []InBuffer
<1>1. FileInv => InBuffer
  BY DEF FileInv
<1>2. FileInv /\ [FileNext]_fileVars => FileInv'
  BY FileNextInv
<1> QED
  BY <1>1, <1>2, FileInitInv, PTL DEF FileSpec
-----------------------------------------------------------------------------
\* Two descriptions of the bytes of a file are of the same file.
LEMMA SameContent ==
  ASSUME FileInv', NEW w \in Seq(Char), Len(w) = FileSize', \A i \in 1..FileSize' : Buffer'[i] = w[i]
  PROVE  Content' = w
<1>1. Buffer' \in Seq(Char) /\ FileSize' \in Nat /\ FileSize' \in 0..Len(Buffer')
  BY DEF FileInv, FileTypeOK, InBuffer, BufferSize, Char
<1>2. /\ SubSeq(Buffer', 1, FileSize') \in Seq(Char) /\ Len(SubSeq(Buffer', 1, FileSize')) = FileSize'
      /\ \A i \in 1..FileSize' : SubSeq(Buffer', 1, FileSize')[i] = Buffer'[i]
  BY <1>1, PrefixIs
<1>3. Content' = SubSeq(Buffer', 1, FileSize')
  BY DEF Content
<1> DEFINE e == Content'
<1> HIDE DEF e
<1>4. /\ e \in Seq(Char) /\ Len(e) = Len(w) /\ \A i \in 1..Len(e) : e[i] = w[i]
  BY <1>2, <1>3 DEF e
<1>5. e = w
  BY <1>4, SeqEqual
<1> QED
  BY <1>5 DEF e

LEMMA SameOperators ==
  /\ \A S : F!Max(S) = Max(S) /\ F!Min(S) = Min(S)
  /\ \A S, n : F!BoundedSeq(S, n) = BoundedSeq(S, n)
BY DEF F!Max, F!Min, Max, Min, F!BoundedSeq, BoundedSeq, F!SeqOf, SeqOf

LEMMA PaddedIs ==
  ASSUME NEW w \in Seq(Char), NEW n \in Nat
  PROVE  /\ F!Padded(w, n) \in Seq(Char)
         /\ Len(F!Padded(w, n)) = IF Len(w) >= n THEN Len(w) ELSE n
         /\ \A i \in 1..Len(F!Padded(w, n)) : F!Padded(w, n)[i] = IF i <= Len(w) THEN w[i] ELSE Unset
<1> DEFINE x == IF 0 >= n - Len(w) THEN 0 ELSE n - Len(w)
           u == [i \in 1..x |-> Unset]
<1>1. Len(w) \in Nat /\ x \in Nat /\ Len(w) + x = IF Len(w) >= n THEN Len(w) ELSE n
  OBVIOUS
<1>2. Max({0, n - Len(w)}) = x
  BY <1>1, MaxOfTwo
<1>3. F!Padded(w, n) = w \o u
  BY <1>2, SameOperators DEF F!Padded
<1> HIDE DEF x
<1>4. u \in Seq(Char) /\ Len(u) = x /\ \A i \in 1..x : u[i] = Unset
  BY <1>1, UnsetIs
<1> HIDE DEF u
<1>5. /\ w \o u \in Seq(Char) /\ Len(w \o u) = Len(w) + Len(u)
      /\ \A i \in 1..(Len(w) + Len(u)) : (w \o u)[i] = IF i <= Len(w) THEN w[i] ELSE u[i - Len(w)]
  BY <1>4, ConcatProperties
<1>6. ASSUME NEW i \in 1..(Len(w) + x)
      PROVE  (w \o u)[i] = IF i <= Len(w) THEN w[i] ELSE Unset
  <2>1. i > Len(w) => i - Len(w) \in 1..x
    BY <1>1
  <2> QED
    BY <1>1, <1>4, <1>5, <2>1
<1> QED
  BY <1>1, <1>3, <1>4, <1>5, <1>6

\* What is read from the buffer is what the file holds there.
LEMMA ReadsContent ==
  ASSUME FileInv, NEW m \in Nat, m <= FileSize
  PROVE  SubSeq(Buffer, Pos + 1, m) = SubSeq(Content, Pos + 1, m)
<1>1. /\ Content \in Seq(Char) /\ Len(Content) = FileSize
      /\ \A i \in 1..FileSize : Content[i] = Buffer[i]
  BY ContentIs
<1>2. PICK k \in Int : k = Pos + 1
  BY InvIs
<1>3. k >= 1 /\ \A i \in k..m : i \in 1..FileSize /\ i \in 1..Len(Buffer)
  BY <1>2, InvIs
<1>4. \A i \in k..m : Buffer[i] = Content[i] /\ Buffer[i] \in Char
  BY <1>1, <1>3, InvIs
<1>5. /\ SubSeq(Buffer, k, m) \in Seq(Char)
      /\ Len(SubSeq(Buffer, k, m)) = IF k <= m THEN m - k + 1 ELSE 0
      /\ \A i \in 1..(m - k + 1) : SubSeq(Buffer, k, m)[i] = Buffer[k + i - 1]
  BY <1>4, SubSeqProperties
<1>6. /\ SubSeq(Content, k, m) \in Seq(Char)
      /\ Len(SubSeq(Content, k, m)) = IF k <= m THEN m - k + 1 ELSE 0
      /\ \A i \in 1..(m - k + 1) : SubSeq(Content, k, m)[i] = Content[k + i - 1]
  BY <1>4, SubSeqProperties
<1> DEFINE h == SubSeq(Buffer, k, m)
           b == SubSeq(Content, k, m)
<1>7. ASSUME NEW i \in 1..Len(h) PROVE h[i] = b[i]
  <2>1. i \in 1..(m - k + 1) /\ k + i - 1 \in k..m
    BY <1>3, <1>5
  <2> QED
    BY <1>4, <1>5, <1>6, <2>1
<1>8. h \in Seq(Char) /\ b \in Seq(Char) /\ Len(h) = Len(b)
  BY <1>5, <1>6
<1> HIDE DEF h, b
<1>9. h = b
  BY <1>7, <1>8, SeqEqual
<1> QED
  BY <1>2, <1>9 DEF h, b

LEMMA ReadSim ==
  ASSUME FileInv, NEW s \in 0..Length, MemFileRead(s)
  PROVE  F!Read(s)
<1> DEFINE m == Pos + Read(s)
<1>1. Read(s) \in Nat /\ m <= FileSize /\ s \in Nat
  BY ReadInv, InvIs
<1>2. /\ got' = SubSeq(Buffer, Pos + 1, m) /\ Pos' = m /\ UNCHANGED <<Buffer, FileSize, BinData>>
  BY DEF MemFileRead, Read
<1>3. Content' = Content
  BY <1>2 DEF Content
<1>4. Min({Pos + s, Len(Content)}) = m
  <2>1. m = IF Pos + s <= FileSize THEN Pos + s ELSE FileSize
    BY <1>1, InvIs DEF Read
  <2>2. Min({Pos + s, FileSize}) = IF Pos + s <= FileSize THEN Pos + s ELSE FileSize
    BY <1>1, InvIs, MinOfTwo
  <2> QED
    BY <2>1, <2>2, ContentIs
<1>5. m \in Nat /\ m >= Pos
  BY <1>1, InvIs
<1> HIDE DEF m
<1>6. got' = SubSeq(Content, Pos + 1, m)
  BY <1>1, <1>2, <1>5, ReadsContent
<1>7. Len(got') = m - Pos
  <2>1. PICK k \in Int : k = Pos + 1
    BY InvIs
  <2>2. \A i \in k..m : Buffer[i] \in Char
    BY <1>1, <1>5, <2>1, InvIs
  <2>3. Len(SubSeq(Buffer, k, m)) = IF k <= m THEN m - k + 1 ELSE 0
    BY <1>5, <2>2, SubSeqProperties
  <2> QED
    BY <1>2, <1>5, <2>1, <2>3, InvIs
<1>8. Pos' = Pos + Len(got')
  BY <1>2, <1>5, <1>7, InvIs
<1> QED
  BY <1>2, <1>3, <1>4, <1>6, <1>8, SameOperators DEF F!Read

LEMMA WriteSim ==
  ASSUME FileInv, NEW d \in BoundedSeq(Byte, Length), MemFileWrite(d)
  PROVE  F!Write(d)
<1>1. d \in Seq(Char) /\ Len(d) \in Nat
  BY CharOfByte
<1>2. PICK o : o = Overwritten(Content, Pos, d)
  OBVIOUS
<1>3. /\ Content \in Seq(Char) /\ Len(Content) = FileSize
      /\ \A i \in 1..FileSize : Content[i] = Buffer[i]
  BY ContentIs
<1>4. Pos \in 0..Len(Content)
  BY <1>3, InvIs
<1>5. /\ o \in Seq(Char)
      /\ Len(o) = IF Pos + Len(d) > Len(Content) THEN Pos + Len(d) ELSE Len(Content)
      /\ \A i \in 1..Len(o) : o[i] = IF i <= Pos THEN Content[i]
                                     ELSE IF i <= Pos + Len(d) THEN d[i - Pos] ELSE Content[i]
  BY <1>1, <1>2, <1>3, <1>4, OverwrittenIs
<1>6. /\ FileInv'
      /\ FileSize' = IF Pos + Len(d) > FileSize THEN Pos + Len(d) ELSE FileSize
      /\ \A i \in 1..Len(Buffer') :
           Buffer'[i] = IF i <= Pos THEN Buffer[i]
                        ELSE IF i <= Pos + Len(d) THEN d[i - Pos]
                        ELSE IF i <= FileSize THEN Buffer[i] ELSE Unset
  BY WriteIs
<1>7. Len(o) = FileSize'
  BY <1>3, <1>5, <1>6
<1>8. FileSize' \in Nat /\ FileSize' <= Len(Buffer') /\ Len(Buffer') \in Nat
  BY <1>6 DEF FileInv, FileTypeOK, InBuffer, BufferSize
<1>9. ASSUME NEW i \in 1..FileSize' PROVE Buffer'[i] = o[i]
  <2>1. i \in Nat /\ i \in 1..Len(Buffer') /\ i \in 1..Len(o)
    BY <1>7, <1>8
  <2>2. i <= Pos => Content[i] = Buffer[i]
    BY <1>3, <2>1, <1>9, InvIs
  <2>3. i > Pos + Len(d) => i <= FileSize /\ Content[i] = Buffer[i]
    BY <1>1, <1>3, <1>6, <1>9, <2>1, InvIs
  <2> QED
    BY <1>1, <1>5, <1>6, <2>1, <2>2, <2>3, InvIs
<1>10. Content' = o
  BY <1>5, <1>6, <1>7, <1>9, SameContent
<1>11. Pos' = Pos + Len(d) /\ got' = got /\ BinData' = BinData
  BY DEF MemFileWrite
<1> QED
  BY <1>2, <1>10, <1>11 DEF F!Write, Overwritten

LEMMA SeekSim ==
  ASSUME "behind" \notin Odd, FileInv, NEW base \in {0, Pos, FileSize}, NEW p \in -Length..Length,
         MemFileSeek(base, p)
  PROVE  \E n \in 0..Length : F!Seek(n)
<1>1. PICK n : n = base + p
  OBVIOUS
<1>2. /\ FileInv' /\ n \in 0..Length /\ Pos' = n /\ got' = got
      /\ FileSize' = IF FileSize >= n THEN FileSize ELSE n
      /\ \A i \in 1..FileSize' : Buffer'[i] = IF i <= FileSize THEN Buffer[i] ELSE Unset
  BY <1>1, SeekIs
<1>3. /\ Content \in Seq(Char) /\ Len(Content) = FileSize
      /\ \A i \in 1..FileSize : Content[i] = Buffer[i]
  BY ContentIs
<1>4. n \in Nat
  BY <1>2
<1>5. /\ F!Padded(Content, n) \in Seq(Char)
      /\ Len(F!Padded(Content, n)) = FileSize'
      /\ \A i \in 1..FileSize' : F!Padded(Content, n)[i] = IF i <= FileSize THEN Content[i] ELSE Unset
  BY <1>2, <1>3, <1>4, PaddedIs
<1>6. \A i \in 1..FileSize' : Buffer'[i] = F!Padded(Content, n)[i]
  BY <1>2, <1>3, <1>5, InvIs
<1>7. Content' = F!Padded(Content, n)
  BY <1>2, <1>5, <1>6, SameContent
<1>8. BinData' = BinData
  BY DEF MemFileSeek
<1> QED
  BY <1>2, <1>7, <1>8 DEF F!Seek

\* What is opened is what was kept.
LEMMA OpenSim ==
  ASSUME FileInv', Pos' = 0, got' = << >>, BinData' = BinData, BinData \in Seq(Char),
         FileSize' = Len(BinData), \A i \in 1..Len(BinData) : Buffer'[i] = BinData[i]
  PROVE  F!Open
<1>1. Content' = BinData
  BY SameContent
<1> QED
  BY <1>1 DEF F!Open, F!Fresh

LEMMA FromBinDataSim ==
  ASSUME FileInv, MemFileFromBinData
  PROVE  F!Open
<1> DEFINE m == Rounded(Len(BinData))
<1>1. m \in Nat /\ m > Len(BinData) /\ Len(BinData) \in Nat
  BY RoundedAbove, InvIs
<1>2. /\ Buffer' = Resized(BinData, m) /\ FileSize' = Len(BinData) /\ Pos' = 0
      /\ got' = << >> /\ BinData' = BinData
  BY DEF MemFileFromBinData, Reopened
<1> HIDE DEF m
<1>3. \A i \in 1..m : Resized(BinData, m)[i] = IF i <= Len(BinData) THEN BinData[i] ELSE Unset
  BY <1>1, ResizedIs, InvIs
<1>4. \A i \in 1..Len(BinData) : Buffer'[i] = BinData[i]
  BY <1>1, <1>2, <1>3
<1> QED
  BY <1>2, <1>4, FromBinDataInv, InvIs, OpenSim

LEMMA FromFreeBinDataSim ==
  ASSUME FileInv, MemFileFromFreeBinData
  PROVE  F!Open
<1>1. /\ Buffer' = BinData /\ FileSize' = Len(BinData) /\ Pos' = 0
      /\ got' = << >> /\ BinData' = BinData
  BY DEF MemFileFromFreeBinData, Reopened
<1> QED
  BY <1>1, FromFreeBinDataInv, InvIs, OpenSim

LEMMA CloseSim ==
  ASSUME FileInv, MemFileCloseToBinData
  PROVE  F!Close
<1>1. /\ BinData' = Content /\ FileSize' = 0 /\ Pos' = 0 /\ got' = << >>
  BY DEF MemFileCloseToBinData
<1>2. Content' = << >>
  <2>1. FileInv' /\ << >> \in Seq(Char) /\ Len(<< >>) = FileSize'
    BY <1>1, CloseInv
  <2>2. \A i \in 1..FileSize' : Buffer'[i] = << >>[i]
    BY <1>1
  <2> QED
    BY <2>1, <2>2, SameContent
<1> QED
  BY <1>1, <1>2 DEF F!Close, F!Fresh

LEMMA NextSim ==
  ASSUME "behind" \notin Odd, FileInv, [FileNext]_fileVars
  PROVE  [F!Next]_<<Content, Pos, got, BinData>>
<1>1. ASSUME NEW s \in 0..Length, MemFileRead(s) PROVE F!Next
  BY <1>1, ReadSim DEF F!Next
<1>2. ASSUME NEW d \in BoundedSeq(Byte, Length), MemFileWrite(d) PROVE F!Next
  <2>1. d \in F!BoundedSeq(Byte, Length)
    BY SameOperators
  <2> QED
    BY <1>2, <2>1, WriteSim DEF F!Next
<1>3. ASSUME NEW base \in {0, Pos, FileSize}, NEW p \in -Length..Length, MemFileSeek(base, p)
      PROVE  F!Next
  BY <1>3, SeekSim DEF F!Next
<1>4. ASSUME FileExtractToBinData PROVE F!Next
  <2>1. Content' = Content
    BY <1>4 DEF FileExtractToBinData, Content
  <2> QED
    BY <1>4, <2>1 DEF FileExtractToBinData, F!Next, F!Extract
<1>5. ASSUME MemFileFromBinData \/ MemFileFromFreeBinData PROVE F!Next
  BY <1>5, FromBinDataSim, FromFreeBinDataSim DEF F!Next
<1>6. ASSUME MemFileCloseToBinData PROVE F!Next
  BY <1>6, CloseSim DEF F!Next
<1>7. ASSUME UNCHANGED fileVars PROVE UNCHANGED <<Content, Pos, got, BinData>>
  BY <1>7 DEF fileVars, Content
<1> QED
  BY <1>1, <1>2, <1>3, <1>4, <1>5, <1>6, <1>7 DEF FileNext

LEMMA InitSim == FileInit => F!Init
<1> SUFFICES ASSUME FileInit PROVE F!Init
  OBVIOUS
<1>1. FileInv /\ FileSize = 0
  BY FileInitInv DEF FileInit
<1>2. Content \in Seq(Char) /\ Len(Content) = 0
  BY <1>1, ContentIs
<1>3. Content = << >>
  BY <1>2
<1> QED
  BY <1>3 DEF FileInit, F!Init

\* IsFile: what a program sees of a file in memory is what it sees of a file.
THEOREM MemFileIsFile ==
  ASSUME "behind" \notin Odd
  PROVE  FileSpec => IsFile
<1>1. FileInv /\ [FileNext]_fileVars => [F!Next]_<<Content, Pos, got, BinData>>
  BY NextSim
<1>2. FileInv /\ [FileNext]_fileVars => FileInv'
  BY FileNextInv
<1> QED
  BY <1>1, <1>2, FileInitInv, InitSim, PTL DEF FileSpec, IsFile, F!Spec
-----------------------------------------------------------------------------
(***************************************************************************)
(* Lists of rectangles.                                                    *)
(***************************************************************************)
\* The items of a concatenation.
LEMMA ItemsOfBoth ==
  ASSUME NEW S, NEW s \in Seq(S), NEW t \in Seq(S)
  PROVE  s \o t \in Seq(S) /\ \A x : x \in ToSet(s \o t) <=> x \in ToSet(s) \/ x \in ToSet(t)
<1>1. s \o t \in Seq(S) /\ Len(s \o t) = Len(s) + Len(t)
  OBVIOUS
<1>2. \A i \in 1..Len(s) : (s \o t)[i] = s[i]
  OBVIOUS
<1>3. \A i \in 1..Len(t) : (s \o t)[Len(s) + i] = t[i] /\ Len(s) + i \in 1..Len(s \o t)
  OBVIOUS
<1>4. ASSUME NEW x PROVE x \in ToSet(s \o t) <=> x \in ToSet(s) \/ x \in ToSet(t)
  <2>1. ASSUME NEW i \in 1..Len(s \o t), x = (s \o t)[i]
        PROVE  x \in ToSet(s) \/ x \in ToSet(t)
    <3>1. CASE i <= Len(s)
      BY <2>1, <3>1, <1>2 DEF ToSet
    <3>2. CASE i > Len(s)
      <4>1. i - Len(s) \in 1..Len(t) /\ Len(s) + (i - Len(s)) = i
        BY <3>2, <1>1
      <4> QED BY <4>1, <2>1, <1>3 DEF ToSet
    <3> QED BY <3>1, <3>2, <1>1
  <2>2. ASSUME NEW i \in 1..Len(s), x = s[i] PROVE x \in ToSet(s \o t)
    BY <2>2, <1>1, <1>2 DEF ToSet
  <2>3. ASSUME NEW i \in 1..Len(t), x = t[i] PROVE x \in ToSet(s \o t)
    BY <2>3, <1>3 DEF ToSet
  <2> QED BY <2>1, <2>2, <2>3, <1>1 DEF ToSet
<1> QED BY <1>1, <1>4

\* The one item of When, or none.
LEMMA ItemOfWhen ==
  ASSUME NEW S, NEW w \in S, NEW g
  PROVE  When(g, w) \in Seq(S) /\ \A x : x \in ToSet(When(g, w)) <=> g /\ x = w
<1>1. CASE g
  BY <1>1 DEF When, ToSet
<1>2. CASE ~g
  BY <1>2 DEF When, ToSet
<1> QED BY <1>1, <1>2

\* The items of the four parts.
LEMMA ItemsOfFour ==
  ASSUME NEW S, NEW r1 \in S, NEW r2 \in S, NEW r3 \in S, NEW r4 \in S,
         NEW c1, NEW c2, NEW c3, NEW c4
  PROVE  \A x : x \in ToSet(When(c1, r1) \o When(c2, r2) \o When(c3, r3) \o When(c4, r4))
                  <=> \/ c1 /\ x = r1
                      \/ c2 /\ x = r2
                      \/ c3 /\ x = r3
                      \/ c4 /\ x = r4
<1> DEFINE w1 == When(c1, r1)
           w2 == When(c2, r2)
           w3 == When(c3, r3)
           w4 == When(c4, r4)
<1>1. w1 \in Seq(S) /\ \A x : x \in ToSet(w1) <=> c1 /\ x = r1
  BY ItemOfWhen
<1>2. w2 \in Seq(S) /\ \A x : x \in ToSet(w2) <=> c2 /\ x = r2
  BY ItemOfWhen
<1>3. w3 \in Seq(S) /\ \A x : x \in ToSet(w3) <=> c3 /\ x = r3
  BY ItemOfWhen
<1>4. w4 \in Seq(S) /\ \A x : x \in ToSet(w4) <=> c4 /\ x = r4
  BY ItemOfWhen
<1> HIDE DEF w1, w2, w3, w4
<1> DEFINE w12 == w1 \o w2
           w123 == w12 \o w3
<1>5. w12 \in Seq(S) /\ \A x : x \in ToSet(w12) <=> x \in ToSet(w1) \/ x \in ToSet(w2)
  BY <1>1, <1>2, ItemsOfBoth, Zenon
<1> HIDE DEF w12
<1>6. w123 \in Seq(S) /\ \A x : x \in ToSet(w123) <=> x \in ToSet(w12) \/ x \in ToSet(w3)
  BY <1>3, <1>5, ItemsOfBoth, Zenon
<1> HIDE DEF w123
<1>7. \A x : x \in ToSet(w123 \o w4) <=> x \in ToSet(w123) \/ x \in ToSet(w4)
  BY <1>4, <1>6, ItemsOfBoth, Zenon
<1>8. \A x : x \in ToSet(w123 \o w4)
               <=> \/ c1 /\ x = r1
                   \/ c2 /\ x = r2
                   \/ c3 /\ x = r3
                   \/ c4 /\ x = r4
  BY <1>1, <1>2, <1>3, <1>4, <1>5, <1>6, <1>7, Zenon
<1> QED BY <1>8 DEF w1, w2, w3, w4, w12, w123
-----------------------------------------------------------------------------
\* No two items have a pixel in common.
Apart(s) == \A i, j \in DOMAIN s : i # j => ~RectOverlay(s[i], s[j])

\* A rectangle in another one.
Within(w, d) == d.a.x <= w.a.x /\ d.a.y <= w.a.y /\ w.b.x <= d.b.x /\ w.b.y <= d.b.y

\* The pixels of a rectangle without those of another one.
Rest(p, aa, bb) == PointInRect(p, aa) /\ ~PointInRect(p, bb)

\* The pieces cover what is left, and nothing else; none is empty; no pixel is in two of them.
Exact(pieces, aa, bb) ==
  /\ \A p \in Point : (\E q \in ToSet(pieces) : PointInRect(p, q)) <=> Rest(p, aa, bb)
  /\ pieces \in Seq(Rect) /\ \A q \in ToSet(pieces) : NonEmpty(q) /\ Within(q, aa) /\ ~RectOverlay(q, bb)
  /\ Apart(pieces)

\* RectOverlay tells whether two rectangles have a pixel in common (metrics.c, RectOverlay).
THEOREM OverlayIsCommonPixel ==
  ASSUME NEW w \in Rect, NEW d \in Rect, NonEmpty(w), NonEmpty(d)
  PROVE  RectOverlay(w, d) <=> \E p \in Point : PointInRect(p, w) /\ PointInRect(p, d)
<1>1. ASSUME RectOverlay(w, d)
      PROVE  \E p \in Point : PointInRect(p, w) /\ PointInRect(p, d)
  <2> DEFINE p == [x |-> max(w.a.x, d.a.x), y |-> max(w.a.y, d.a.y)]
  <2>1. p \in Point
    BY DEF Point, Rect, max
  <2>2. PointInRect(p, w) /\ PointInRect(p, d)
    BY <1>1 DEF Point, Rect, max, PointInRect, RectOverlay, NonEmpty
  <2> QED BY <2>1, <2>2
<1>2. ASSUME NEW p \in Point, PointInRect(p, w), PointInRect(p, d)
      PROVE  RectOverlay(w, d)
  BY <1>2 DEF Point, Rect, PointInRect, RectOverlay
<1> QED BY <1>1, <1>2

LEMMA OverlaySymmetric == \A q, d \in Rect : RectOverlay(q, d) => RectOverlay(d, q)
  BY DEF RectOverlay, Rect, Point

\* Two sequences that keep apart from each other.
LEMMA ApartBoth ==
  ASSUME NEW s \in Seq(Rect), NEW t \in Seq(Rect), Apart(s), Apart(t),
         \A q \in ToSet(s), d \in ToSet(t) : ~RectOverlay(q, d)
  PROVE  Apart(s \o t)
<1>1. s \o t \in Seq(Rect) /\ Len(s \o t) = Len(s) + Len(t)
  OBVIOUS
<1>2. \A i \in 1..Len(s) : (s \o t)[i] = s[i] /\ s[i] \in ToSet(s) /\ s[i] \in Rect
  BY DEF ToSet
<1>3. \A i \in 1..Len(t) : (s \o t)[Len(s) + i] = t[i] /\ t[i] \in ToSet(t) /\ t[i] \in Rect
  BY DEF ToSet
<1> SUFFICES ASSUME NEW i \in 1..Len(s \o t), NEW j \in 1..Len(s \o t), i # j
             PROVE  ~RectOverlay((s \o t)[i], (s \o t)[j])
  BY <1>1 DEF Apart
<1>4. \A k \in 1..Len(s \o t) : k \in 1..Len(s) \/ \E e \in 1..Len(t) : k = Len(s) + e
  <2> SUFFICES ASSUME NEW k \in 1..Len(s \o t), k \notin 1..Len(s)
               PROVE  \E e \in 1..Len(t) : k = Len(s) + e
    OBVIOUS
  <2>1. k - Len(s) \in 1..Len(t) /\ k = Len(s) + (k - Len(s))
    BY <1>1
  <2> QED
    BY <2>1
<1>5. CASE i \in 1..Len(s) /\ j \in 1..Len(s)
  BY <1>2, <1>5 DEF Apart
<1>6. CASE i \in 1..Len(s) /\ \E e \in 1..Len(t) : j = Len(s) + e
  BY <1>2, <1>3, <1>6
<1>7. CASE j \in 1..Len(s) /\ \E e \in 1..Len(t) : i = Len(s) + e
  BY <1>2, <1>3, <1>7, OverlaySymmetric
<1>8. ASSUME NEW e \in 1..Len(t), NEW g \in 1..Len(t), i = Len(s) + e, j = Len(s) + g
      PROVE  ~RectOverlay((s \o t)[i], (s \o t)[j])
  <2>1. e # g /\ (s \o t)[i] = t[e] /\ (s \o t)[j] = t[g]
    BY <1>3, <1>8
  <2> QED
    BY <2>1 DEF Apart
<1> QED
  BY <1>4, <1>5, <1>6, <1>7, <1>8

LEMMA ApartWhen ==
  ASSUME NEW w, NEW g
  PROVE  Apart(When(g, w))
BY DEF Apart, When

\* Four parts that keep apart, in one sequence.
LEMMA FourApart ==
  ASSUME NEW left \in Rect, NEW above \in Rect, NEW right \in Rect, NEW below \in Rect,
         NEW l, NEW v, NEW w, NEW b,
         ~RectOverlay(left, above), ~RectOverlay(left, right), ~RectOverlay(left, below),
         ~RectOverlay(above, right), ~RectOverlay(above, below), ~RectOverlay(right, below)
  PROVE  LET pieces == When(l, left) \o When(v, above) \o When(w, right) \o When(b, below)
         IN pieces \in Seq(Rect) /\ Apart(pieces)
<1> DEFINE w1 == When(l, left)
           w2 == When(v, above)
           w3 == When(w, right)
           w4 == When(b, below)
<1>1. w1 \in Seq(Rect) /\ \A x : x \in ToSet(w1) <=> l /\ x = left
  BY ONLY left \in Rect, ItemOfWhen
<1>2. w2 \in Seq(Rect) /\ \A x : x \in ToSet(w2) <=> v /\ x = above
  BY ONLY above \in Rect, ItemOfWhen
<1>3. w3 \in Seq(Rect) /\ \A x : x \in ToSet(w3) <=> w /\ x = right
  BY ONLY right \in Rect, ItemOfWhen
<1>4. w4 \in Seq(Rect) /\ \A x : x \in ToSet(w4) <=> b /\ x = below
  BY ONLY below \in Rect, ItemOfWhen
<1>5. Apart(w1) /\ Apart(w2) /\ Apart(w3) /\ Apart(w4)
  BY ApartWhen
<1> HIDE DEF w1, w2, w3, w4
<1> DEFINE w12 == w1 \o w2
           w123 == w12 \o w3
<1>6. w12 \in Seq(Rect) /\ \A x : x \in ToSet(w12) <=> x \in ToSet(w1) \/ x \in ToSet(w2)
  BY <1>1, <1>2, ItemsOfBoth, Zenon
<1>7. \A q \in ToSet(w1), d \in ToSet(w2) : ~RectOverlay(q, d)
  BY <1>1, <1>2
<1>8. Apart(w12)
  BY <1>1, <1>2, <1>5, <1>7, ApartBoth
<1> HIDE DEF w12
<1>9. w123 \in Seq(Rect) /\ \A x : x \in ToSet(w123) <=> x \in ToSet(w12) \/ x \in ToSet(w3)
  BY <1>3, <1>6, ItemsOfBoth, Zenon
<1>10. \A q \in ToSet(w12), d \in ToSet(w3) : ~RectOverlay(q, d)
  BY <1>1, <1>2, <1>3, <1>6
<1>11. Apart(w123)
  BY <1>3, <1>5, <1>6, <1>8, <1>10, ApartBoth
<1> HIDE DEF w123
<1>12. w123 \o w4 \in Seq(Rect)
  BY <1>4, <1>9
<1>13. \A q \in ToSet(w123), d \in ToSet(w4) : ~RectOverlay(q, d)
  <2>1. \A q : q \in ToSet(w123) => q = left \/ q = above \/ q = right
    BY <1>1, <1>2, <1>3, <1>6, <1>9
  <2> QED
    BY <1>4, <2>1
<1>14. Apart(w123 \o w4)
  BY <1>4, <1>5, <1>9, <1>11, <1>13, ApartBoth
<1> QED
  BY <1>12, <1>14 DEF w1, w2, w3, w4, w12, w123

\* Four parts that fill the rest and keep apart are exact, with those that are not made left out.
LEMMA FourExact ==
  ASSUME NEW aa \in Rect, NEW bb \in Rect,
         NEW left \in Rect, NEW above \in Rect, NEW right \in Rect, NEW below \in Rect,
         NEW l, NEW v, NEW w, NEW b,
         \A p \in Point : Rest(p, aa, bb) <=> \/ l /\ PointInRect(p, left)
                                              \/ v /\ PointInRect(p, above)
                                              \/ w /\ PointInRect(p, right)
                                              \/ b /\ PointInRect(p, below),
         l => NonEmpty(left) /\ Within(left, aa), v => NonEmpty(above) /\ Within(above, aa),
         w => NonEmpty(right) /\ Within(right, aa), b => NonEmpty(below) /\ Within(below, aa),
         ~RectOverlay(left, bb), ~RectOverlay(above, bb), ~RectOverlay(right, bb), ~RectOverlay(below, bb),
         ~RectOverlay(left, above), ~RectOverlay(left, right), ~RectOverlay(left, below),
         ~RectOverlay(above, right), ~RectOverlay(above, below), ~RectOverlay(right, below)
  PROVE  Exact(When(l, left) \o When(v, above) \o When(w, right) \o When(b, below), aa, bb)
<1> DEFINE pieces == When(l, left) \o When(v, above) \o When(w, right) \o When(b, below)
<1>1. \A x : x \in ToSet(pieces) <=> \/ l /\ x = left
                                     \/ v /\ x = above
                                     \/ w /\ x = right
                                     \/ b /\ x = below
  BY ItemsOfFour
<1>2. pieces \in Seq(Rect) /\ Apart(pieces)
  BY FourApart
<1> HIDE DEF pieces
<1>3. ASSUME NEW p \in Point
      PROVE  (\E q \in ToSet(pieces) : PointInRect(p, q)) <=> Rest(p, aa, bb)
  <2>1. Rest(p, aa, bb) <=> \/ l /\ PointInRect(p, left)
                            \/ v /\ PointInRect(p, above)
                            \/ w /\ PointInRect(p, right)
                            \/ b /\ PointInRect(p, below)
    OBVIOUS
  <2>2. (\E q \in ToSet(pieces) : PointInRect(p, q)) <=> \/ l /\ PointInRect(p, left)
                                                         \/ v /\ PointInRect(p, above)
                                                         \/ w /\ PointInRect(p, right)
                                                         \/ b /\ PointInRect(p, below)
    BY <1>1
  <2> QED BY <2>1, <2>2, Zenon
<1>4. \A q \in ToSet(pieces) : NonEmpty(q) /\ Within(q, aa) /\ ~RectOverlay(q, bb)
  BY <1>1
<1>6. Exact(pieces, aa, bb)
  BY <1>2, <1>3, <1>4 DEF Exact
<1> QED BY <1>6 DEF pieces

\* The pieces AddBminusAHPref adds to a list are exactly what is left of aa (metrics.c).
THEOREM HPrefExact ==
  ASSUME NEW aa \in Rect, NEW bb \in Rect, NonEmpty(aa), NonEmpty(bb), RectOverlay(aa, bb)
  PROVE  Exact(AddBminusAHPref(aa, bb), aa, bb)
<1> DEFINE left  == RectAssign(aa.a.x, max(aa.a.y, bb.a.y), bb.a.x - 1, min(bb.b.y, aa.b.y))
           above == RectAssign(aa.a.x, aa.a.y, aa.b.x, bb.a.y - 1)
           right == RectAssign(bb.b.x + 1, max(aa.a.y, bb.a.y), aa.b.x, min(bb.b.y, aa.b.y))
           below == RectAssign(aa.a.x, bb.b.y + 1, aa.b.x, aa.b.y)
<1>1. left \in Rect /\ above \in Rect /\ right \in Rect /\ below \in Rect
  BY DEF Rect, Point, RectAssign, max, min
<1>2. ASSUME NEW p \in Point
      PROVE  Rest(p, aa, bb) <=> \/ aa.a.x < bb.a.x /\ PointInRect(p, left)
                                 \/ aa.a.y < bb.a.y /\ PointInRect(p, above)
                                 \/ aa.b.x > bb.b.x /\ PointInRect(p, right)
                                 \/ aa.b.y > bb.b.y /\ PointInRect(p, below)
  BY DEF Rest, PointInRect, Point, Rect, RectAssign, max, min, RectOverlay, NonEmpty
<1>3. /\ aa.a.x < bb.a.x => NonEmpty(left) /\ Within(left, aa)
      /\ aa.a.y < bb.a.y => NonEmpty(above) /\ Within(above, aa)
      /\ aa.b.x > bb.b.x => NonEmpty(right) /\ Within(right, aa)
      /\ aa.b.y > bb.b.y => NonEmpty(below) /\ Within(below, aa)
  BY DEF Within, Point, Rect, RectAssign, max, min, RectOverlay, NonEmpty
<1>4. /\ ~RectOverlay(left, above) /\ ~RectOverlay(left, right) /\ ~RectOverlay(left, below)
      /\ ~RectOverlay(above, right) /\ ~RectOverlay(above, below) /\ ~RectOverlay(right, below)
  BY DEF Point, Rect, RectAssign, max, min, RectOverlay, NonEmpty
<1>b. /\ ~RectOverlay(left, bb) /\ ~RectOverlay(above, bb)
      /\ ~RectOverlay(right, bb) /\ ~RectOverlay(below, bb)
  BY DEF Point, Rect, RectAssign, max, min, RectOverlay, NonEmpty
<1> DEFINE l == aa.a.x < bb.a.x
           v == aa.a.y < bb.a.y
           w == aa.b.x > bb.b.x
           b == aa.b.y > bb.b.y
<1> HIDE DEF left, above, right, below, l, v, w, b
<1>5. \A p \in Point : Rest(p, aa, bb) <=> \/ l /\ PointInRect(p, left)
                                           \/ v /\ PointInRect(p, above)
                                           \/ w /\ PointInRect(p, right)
                                           \/ b /\ PointInRect(p, below)
  BY <1>2, Zenon DEF l, v, w, b
<1>6. /\ l => NonEmpty(left) /\ Within(left, aa)
      /\ v => NonEmpty(above) /\ Within(above, aa)
      /\ w => NonEmpty(right) /\ Within(right, aa)
      /\ b => NonEmpty(below) /\ Within(below, aa)
  BY <1>3 DEF l, v, w, b
<1>7. Exact(When(l, left) \o When(v, above) \o When(w, right) \o When(b, below), aa, bb)
  BY <1>1, <1>4, <1>b, <1>5, <1>6, FourExact
<1> QED BY <1>7, Zenon DEF AddBminusAHPref, left, above, right, below, l, v, w, b

\* So are those of AddBminusAVPref, which RemoveZoneInListV uses (metrics.c).
THEOREM VPrefExact ==
  ASSUME NEW aa \in Rect, NEW bb \in Rect, NonEmpty(aa), NonEmpty(bb), RectOverlay(aa, bb)
  PROVE  Exact(AddBminusAVPref(aa, bb), aa, bb)
<1> DEFINE left  == RectAssign(aa.a.x, aa.a.y, bb.a.x - 1, aa.b.y)
           above == RectAssign(max(aa.a.x, bb.a.x), aa.a.y, min(aa.b.x, bb.b.x), bb.a.y - 1)
           right == RectAssign(bb.b.x + 1, aa.a.y, aa.b.x, aa.b.y)
           below == RectAssign(max(aa.a.x, bb.a.x), bb.b.y + 1, min(aa.b.x, bb.b.x), aa.b.y)
<1>1. left \in Rect /\ above \in Rect /\ right \in Rect /\ below \in Rect
  BY DEF Rect, Point, RectAssign, max, min
<1>2. ASSUME NEW p \in Point
      PROVE  Rest(p, aa, bb) <=> \/ aa.a.x < bb.a.x /\ PointInRect(p, left)
                                 \/ aa.a.y < bb.a.y /\ PointInRect(p, above)
                                 \/ aa.b.x > bb.b.x /\ PointInRect(p, right)
                                 \/ aa.b.y > bb.b.y /\ PointInRect(p, below)
  BY DEF Rest, PointInRect, Point, Rect, RectAssign, max, min, RectOverlay, NonEmpty
<1>3. /\ aa.a.x < bb.a.x => NonEmpty(left) /\ Within(left, aa)
      /\ aa.a.y < bb.a.y => NonEmpty(above) /\ Within(above, aa)
      /\ aa.b.x > bb.b.x => NonEmpty(right) /\ Within(right, aa)
      /\ aa.b.y > bb.b.y => NonEmpty(below) /\ Within(below, aa)
  BY DEF Within, Point, Rect, RectAssign, max, min, RectOverlay, NonEmpty
<1>4. /\ ~RectOverlay(left, above) /\ ~RectOverlay(left, right) /\ ~RectOverlay(left, below)
      /\ ~RectOverlay(above, right) /\ ~RectOverlay(above, below) /\ ~RectOverlay(right, below)
  BY DEF Point, Rect, RectAssign, max, min, RectOverlay, NonEmpty
<1>b. /\ ~RectOverlay(left, bb) /\ ~RectOverlay(above, bb)
      /\ ~RectOverlay(right, bb) /\ ~RectOverlay(below, bb)
  BY DEF Point, Rect, RectAssign, max, min, RectOverlay, NonEmpty
<1> DEFINE l == aa.a.x < bb.a.x
           v == aa.a.y < bb.a.y
           w == aa.b.x > bb.b.x
           b == aa.b.y > bb.b.y
<1> HIDE DEF left, above, right, below, l, v, w, b
<1>5. \A p \in Point : Rest(p, aa, bb) <=> \/ l /\ PointInRect(p, left)
                                           \/ v /\ PointInRect(p, above)
                                           \/ w /\ PointInRect(p, right)
                                           \/ b /\ PointInRect(p, below)
  BY <1>2, Zenon DEF l, v, w, b
<1>6. /\ l => NonEmpty(left) /\ Within(left, aa)
      /\ v => NonEmpty(above) /\ Within(above, aa)
      /\ w => NonEmpty(right) /\ Within(right, aa)
      /\ b => NonEmpty(below) /\ Within(below, aa)
  BY <1>3 DEF l, v, w, b
<1>7. Exact(When(l, left) \o When(v, above) \o When(w, right) \o When(b, below), aa, bb)
  BY <1>1, <1>4, <1>b, <1>5, <1>6, FourExact
<1> QED BY <1>7, Zenon DEF AddBminusAVPref, left, above, right, below, l, v, w, b
-----------------------------------------------------------------------------
(***************************************************************************)
(* Choosing the items of a list.  upTo of Chosen is a recursive function:  *)
(* that there is such a function, and what it is at every place, is shown  *)
(* by induction.                                                           *)
(***************************************************************************)
\* f is upTo for the first m items.
Chooses(f, s, chosen, m) ==
  f = [k \in 0..m |-> IF k = 0 THEN << >> ELSE f[k - 1] \o When(k \in chosen, s[k])]

LEMMA ChoosesExists ==
  ASSUME NEW s, NEW chosen, NEW m \in Nat
  PROVE  \E f : Chooses(f, s, chosen, m)
<1> DEFINE T == {x \in Nat : \E f : Chooses(f, s, chosen, x)}
<1>1. 0 \in T
  <2> DEFINE f == [k \in 0..0 |-> << >>]
  <2>1. f = [k \in 0..0 |-> IF k = 0 THEN << >> ELSE f[k - 1] \o When(k \in chosen, s[k])]
    OBVIOUS
  <2> QED
    BY <2>1, Zenon DEF Chooses
<1>2. ASSUME NEW x \in Nat, x \in T PROVE x + 1 \in T
  <2>1. PICK f : Chooses(f, s, chosen, x)
    BY <1>2
  <2> DEFINE e == f[x] \o When(x + 1 \in chosen, s[x + 1])
             g == [k \in 0..(x + 1) |-> IF k = x + 1 THEN e ELSE f[k]]
             d == [k \in 0..(x + 1) |-> IF k = 0 THEN << >> ELSE g[k - 1] \o When(k \in chosen, s[k])]
  <2>2. \A k \in 0..x : f[k] = IF k = 0 THEN << >> ELSE f[k - 1] \o When(k \in chosen, s[k])
    BY <2>1 DEF Chooses
  <2>3. (\A k \in 0..x : g[k] = f[k]) /\ g[x + 1] = e
    <3> HIDE DEF e
    <3> QED
      OBVIOUS
  <2> HIDE DEF g
  <2>4. ASSUME NEW k \in 0..(x + 1)
        PROVE  g[k] = IF k = 0 THEN << >> ELSE g[k - 1] \o When(k \in chosen, s[k])
    <3>1. CASE k = 0
      BY <2>2, <2>3, <3>1
    <3>2. CASE k # 0 /\ k # x + 1
      <4>1. k \in 0..x /\ k - 1 \in 0..x
        BY <3>2
      <4> QED
        BY <2>2, <2>3, <3>2, <4>1
    <3>3. CASE k = x + 1
      <4>1. k - 1 = x /\ k # 0 /\ x \in 0..x
        BY <3>3
      <4>2. g[k - 1] = f[x] /\ g[k] = e
        BY <2>3, <3>3, <4>1
      <4> QED
        BY <3>3, <4>1, <4>2
    <3> QED
      BY <3>1, <3>2, <3>3
  <2>5. g = [k \in 0..(x + 1) |-> g[k]]
    BY DEF g
  <2>6. g = d
    BY <2>4, <2>5
  <2>7. Chooses(g, s, chosen, x + 1)
    BY <2>6 DEF Chooses
  <2> QED
    BY <2>7
<1> HIDE DEF T
<1>3. Nat \subseteq T
  BY <1>1, <1>2, SetInduction
<1> QED
  BY <1>3 DEF T

\* Chosen takes the items whose places are chosen, and those of them that kept apart do so still.
LEMMA ChosenItems ==
  ASSUME NEW s \in Seq(Rect), NEW chosen
  PROVE  /\ Chosen(s, chosen) \in Seq(Rect)
         /\ \A x : x \in ToSet(Chosen(s, chosen)) <=> \E i \in DOMAIN s : i \in chosen /\ x = s[i]
         /\ Apart(s) => Apart(Chosen(s, chosen))
<1> DEFINE E(g) == [k \in 0..Len(s) |-> IF k = 0 THEN << >> ELSE g[k - 1] \o When(k \in chosen, s[k])]
<1>1. Len(s) \in Nat /\ DOMAIN s = 1..Len(s) /\ \A i \in 1..Len(s) : s[i] \in Rect
  OBVIOUS
<1>2. PICK f : Chooses(f, s, chosen, Len(s))
  BY <1>1, ChoosesExists
<1>3. f = E(f)
  BY <1>2, Zenon DEF Chooses
<1>4. PICK g : g = (CHOOSE h : h = E(h))
  OBVIOUS
<1>5. Chosen(s, chosen) = g[Len(s)]
  BY <1>4 DEF Chosen
<1>6. g = E(g)
  BY <1>3, <1>4, Zenon
<1>7. g[0] = << >> /\ \A k \in 1..Len(s) : g[k] = g[k - 1] \o When(k \in chosen, s[k])
  BY <1>1, <1>6
<1> HIDE DEF E
<1> DEFINE Good(k) == /\ g[k] \in Seq(Rect)
                      /\ \A x : x \in ToSet(g[k]) <=> \E i \in 1..k : i \in chosen /\ x = s[i]
                      /\ Apart(s) => Apart(g[k])
           T == {k \in Nat : k <= Len(s) => Good(k)}
<1>8. 0 \in T
  <2>1. g[0] \in Seq(Rect) /\ ToSet(g[0]) = {} /\ Apart(g[0])
    BY <1>7 DEF ToSet, Apart
  <2> QED
    BY <2>1
<1>9. ASSUME NEW k \in Nat, k \in T PROVE k + 1 \in T
  <2> SUFFICES ASSUME k + 1 <= Len(s) PROVE Good(k + 1)
    OBVIOUS
  <2>1. Good(k)
    BY <1>1, <1>9
  <2>2. k + 1 \in 1..Len(s) /\ (k + 1) - 1 = k /\ s[k + 1] \in Rect
    BY <1>1
  <2> DEFINE w == When(k + 1 \in chosen, s[k + 1])
  <2>3. g[k + 1] = g[k] \o w
    BY <1>7, <2>2
  <2>4. /\ w \in Seq(Rect) /\ \A x : x \in ToSet(w) <=> k + 1 \in chosen /\ x = s[k + 1]
        /\ Apart(w)
    <3> DEFINE e == s[k + 1]
               in == k + 1 \in chosen
    <3>1. e \in Rect
      BY <2>2
    <3> HIDE DEF e, in
    <3>2. When(in, e) \in Seq(Rect) /\ \A x : x \in ToSet(When(in, e)) <=> in /\ x = e
      BY ONLY <3>1, ItemOfWhen
    <3>3. Apart(When(in, e))
      BY ONLY ApartWhen
    <3> QED
      BY <3>2, <3>3 DEF e, in
  <2> HIDE DEF w
  <2>5. g[k + 1] \in Seq(Rect) /\ \A x : x \in ToSet(g[k + 1]) <=> x \in ToSet(g[k]) \/ x \in ToSet(w)
    <3>1. g[k] \in Seq(Rect)
      BY <2>1
    <3>2. /\ g[k] \o w \in Seq(Rect)
          /\ \A x : x \in ToSet(g[k] \o w) <=> x \in ToSet(g[k]) \/ x \in ToSet(w)
      BY ONLY <3>1, <2>4, ItemsOfBoth
    <3> QED
      BY <2>3, <3>2
  <2>6. ASSUME NEW x
        PROVE  x \in ToSet(g[k + 1]) <=> \E i \in 1..(k + 1) : i \in chosen /\ x = s[i]
    <3>1. (\E i \in 1..(k + 1) : i \in chosen /\ x = s[i])
            <=> \/ \E i \in 1..k : i \in chosen /\ x = s[i]
                \/ k + 1 \in chosen /\ x = s[k + 1]
      <4>1. 1..(k + 1) = 1..k \cup {k + 1}
        OBVIOUS
      <4> QED
        BY <4>1
    <3> QED
      BY <2>1, <2>4, <2>5, <3>1, Zenon
  <2>7. ASSUME Apart(s) PROVE Apart(g[k + 1])
    <3>1. ASSUME NEW q \in ToSet(g[k]), NEW d \in ToSet(w) PROVE ~RectOverlay(q, d)
      <4>1. PICK i \in 1..k : i \in chosen /\ q = s[i]
        BY <2>1
      <4>2. d = s[k + 1]
        BY <2>4
      <4>3. i \in DOMAIN s /\ k + 1 \in DOMAIN s /\ i # k + 1
        BY <1>1, <2>2
      <4> QED
        BY <2>7, <4>1, <4>2, <4>3 DEF Apart
    <3> QED
      BY <2>1, <2>3, <2>4, <2>7, <3>1, ApartBoth
  <2> QED
    BY <2>5, <2>6, <2>7
<1> HIDE DEF T
<1>10. Nat \subseteq T
  BY <1>8, <1>9, SetInduction
<1> HIDE DEF Good
<1>11. Good(Len(s))
  <2>1. Len(s) \in T /\ Len(s) <= Len(s)
    BY <1>1, <1>10
  <2> QED
    BY <2>1 DEF T
<1> USE DEF Good
<1> QED
  BY <1>1, <1>5, <1>11
-----------------------------------------------------------------------------
(***************************************************************************)
(* The pixels of lists.                                                    *)
(***************************************************************************)
\* No empty input meets the rectangle.
Clear(w) == \A e \in Inputs : ~NonEmpty(e) => ~RectOverlay(w, e)

\* A list as it is to be.
Listed(s) ==
  /\ s \in Seq(Rect) /\ Apart(s)
  /\ \A q \in ToSet(s) : NonEmpty(q) /\ Clear(q)

\* A pixel in two rectangles.
LEMMA CommonPixel ==
  ASSUME NEW w \in Rect, NEW d \in Rect, NEW p \in Point, PointInRect(p, w), PointInRect(p, d)
  PROVE  RectOverlay(w, d)
BY DEF Point, Rect, PointInRect, RectOverlay

LEMMA WithinClear ==
  ASSUME NEW w \in Rect, NEW d \in Rect, Within(w, d), Clear(d), Inputs \subseteq Rect
  PROVE  Clear(w)
<1> SUFFICES ASSUME NEW e \in Inputs, RectOverlay(w, e) PROVE RectOverlay(d, e)
  BY DEF Clear
<1> QED
  BY DEF RectOverlay, Within, Rect, Point

LEMMA CoveredIs ==
  ASSUME NEW s, Plane \subseteq Point
  PROVE  /\ Covered(s) \subseteq Plane
         /\ \A p \in Plane : p \in Covered(s) <=> \E q \in ToSet(s) : PointInRect(p, q)
BY DEF Covered, PointsOf

LEMMA ItemsAre ==
  ASSUME NEW S, NEW s \in Seq(S)
  PROVE  /\ ToSet(s) \subseteq S
         /\ \A x : x \in ToSet(s) <=> \E i \in 1..Len(s) : x = s[i]
BY DEF ToSet

LEMMA EmptyHasNone ==
  ASSUME NEW w \in Rect, ~NonEmpty(w), NEW p \in Point
  PROVE  ~PointInRect(p, w)
BY DEF NonEmpty, PointInRect, Rect, Point

\* What _AddRectInList keeps of a sequence covers what the sequence covers.
LEMMA KeptItems ==
  ASSUME NEW s \in Seq(Rect), Plane \subseteq Point
  PROVE  /\ Kept(s) \in Seq(Rect)
         /\ \A x : x \in ToSet(Kept(s)) <=> x \in ToSet(s) /\ NonEmpty(x)
         /\ Apart(s) => Apart(Kept(s))
         /\ Covered(Kept(s)) = Covered(s)
<1> DEFINE C == {i \in DOMAIN s : NonEmpty(s[i])}
<1>1. Kept(s) = Chosen(s, C)
  BY DEF Kept
<1> HIDE DEF C
<1>2. /\ Kept(s) \in Seq(Rect)
      /\ \A x : x \in ToSet(Kept(s)) <=> \E i \in DOMAIN s : i \in C /\ x = s[i]
      /\ Apart(s) => Apart(Kept(s))
  BY <1>1, ChosenItems
<1>3. \A x : x \in ToSet(Kept(s)) <=> x \in ToSet(s) /\ NonEmpty(x)
  BY <1>2 DEF C, ToSet
<1>4. ToSet(s) \subseteq Rect
  BY ItemsAre
<1>5. \A p \in Plane : p \in Covered(Kept(s)) <=> p \in Covered(s)
  <2> SUFFICES ASSUME NEW p \in Plane PROVE p \in Covered(Kept(s)) <=> p \in Covered(s)
    OBVIOUS
  <2>1. p \in Covered(Kept(s)) <=> \E q \in ToSet(Kept(s)) : PointInRect(p, q)
    BY CoveredIs
  <2>2. p \in Covered(s) <=> \E q \in ToSet(s) : PointInRect(p, q)
    BY CoveredIs
  <2>3. \A q \in ToSet(s) : PointInRect(p, q) => NonEmpty(q)
    BY <1>4, EmptyHasNone
  <2> QED
    BY <1>3, <2>1, <2>2, <2>3
<1>6. Covered(Kept(s)) = Covered(s)
  <2>1. Covered(Kept(s)) \subseteq Plane /\ Covered(s) \subseteq Plane
    BY CoveredIs
  <2> QED
    BY <1>5, <2>1
<1> QED
  BY <1>2, <1>3, <1>6

\* The items that meet a rectangle.
LEMMA MetItems ==
  ASSUME NEW s \in Seq(Rect), NEW w
  PROVE  /\ Met(s, w) \in Seq(Rect)
         /\ \A x : x \in ToSet(Met(s, w)) <=> x \in ToSet(s) /\ RectOverlay(x, w)
         /\ Apart(s) => Apart(Met(s, w))
<1> DEFINE C == {i \in DOMAIN s : RectOverlay(s[i], w)}
<1>1. Met(s, w) = Chosen(s, C)
  BY DEF Met
<1> HIDE DEF C
<1>2. /\ Met(s, w) \in Seq(Rect)
      /\ \A x : x \in ToSet(Met(s, w)) <=> \E i \in DOMAIN s : i \in C /\ x = s[i]
      /\ Apart(s) => Apart(Met(s, w))
  BY <1>1, ChosenItems
<1> QED
  BY <1>2 DEF C, ToSet

\* The items before one.
LEMMA ItemsBefore ==
  ASSUME NEW S, NEW s \in Seq(S), NEW k \in 1..Len(s)
  PROVE  /\ SubSeq(s, 1, k - 1) \in Seq(S) /\ Len(SubSeq(s, 1, k - 1)) = k - 1
         /\ \A i \in 1..(k - 1) : SubSeq(s, 1, k - 1)[i] = s[i]
OBVIOUS

\* A list without one of its items.
LEMMA WithoutItem ==
  ASSUME NEW S, NEW s \in Seq(S), NEW k \in 1..Len(s)
  PROVE  /\ RemoveAt(s, k) \in Seq(S) /\ Len(RemoveAt(s, k)) = Len(s) - 1
         /\ \A i \in 1..(Len(s) - 1) : RemoveAt(s, k)[i] = IF i < k THEN s[i] ELSE s[i + 1]
<1> DEFINE f == SubSeq(s, 1, k - 1)
           b == SubSeq(s, k + 1, Len(s))
<1>1. f \in Seq(S) /\ Len(f) = k - 1 /\ \A i \in 1..(k - 1) : f[i] = s[i]
  OBVIOUS
<1>2. b \in Seq(S) /\ Len(b) = Len(s) - k /\ \A i \in 1..(Len(s) - k) : b[i] = s[k + i]
  OBVIOUS
<1> HIDE DEF f, b
<1>3. f \o b \in Seq(S) /\ Len(f \o b) = Len(s) - 1
  BY <1>1, <1>2
<1>4. ASSUME NEW i \in 1..(Len(s) - 1)
      PROVE  (f \o b)[i] = IF i < k THEN s[i] ELSE s[i + 1]
  <2>1. CASE i < k
    BY <1>1, <1>2, <2>1
  <2>2. CASE i >= k
    <3>0. i - (k - 1) \in 1..(Len(s) - k) /\ i \in 1..(Len(f) + Len(b)) /\ ~(i <= Len(f))
      BY <1>1, <1>2, <2>2
    <3>1. (f \o b)[i] = b[i - (k - 1)] /\ i - (k - 1) \in 1..(Len(s) - k)
      BY <1>1, <1>2, <3>0, ConcatProperties, SMTT(20)
    <3>2. k + (i - (k - 1)) = i + 1
      BY <2>2
    <3> QED
      BY <1>2, <2>2, <3>1, <3>2
  <2>3. i < k \/ i >= k
    OBVIOUS
  <2> QED
    BY <2>1, <2>2, <2>3
<1> QED
  BY <1>3, <1>4 DEF RemoveAt, f, b

\* It has the others of its items, which keep apart if all did.
LEMMA WithoutItems ==
  ASSUME NEW s \in Seq(Rect), NEW k \in 1..Len(s)
  PROVE  /\ \A x : x \in ToSet(RemoveAt(s, k)) <=> \E i \in 1..Len(s) : i # k /\ x = s[i]
         /\ Apart(s) => Apart(RemoveAt(s, k))
<1> DEFINE d == RemoveAt(s, k)
<1>1. /\ d \in Seq(Rect) /\ Len(d) = Len(s) - 1
      /\ \A i \in 1..(Len(s) - 1) : d[i] = IF i < k THEN s[i] ELSE s[i + 1]
  BY WithoutItem
<1> HIDE DEF d
<1>2. Len(s) \in Nat /\ DOMAIN s = 1..Len(s) /\ DOMAIN d = 1..(Len(s) - 1)
  BY <1>1
<1>3. ASSUME NEW x, x \in ToSet(d) PROVE \E i \in 1..Len(s) : i # k /\ x = s[i]
  <2>1. PICK i \in 1..(Len(s) - 1) : x = d[i]
    BY <1>2, <1>3 DEF ToSet
  <2>2. CASE i < k
    <3>1. i \in 1..Len(s) /\ i # k /\ x = s[i]
      BY <1>1, <1>2, <2>1, <2>2
    <3> QED
      BY <3>1
  <2>3. CASE ~(i < k)
    <3>1. i + 1 \in 1..Len(s) /\ i + 1 # k /\ x = s[i + 1]
      BY <1>1, <1>2, <2>1, <2>3
    <3> QED
      BY <3>1
  <2> QED
    BY <2>2, <2>3
<1>4. ASSUME NEW i \in 1..Len(s), i # k PROVE s[i] \in ToSet(d)
  <2>1. CASE i < k
    <3>1. i \in 1..(Len(s) - 1) /\ d[i] = s[i]
      BY <1>1, <1>2, <2>1
    <3> QED
      BY <1>2, <3>1 DEF ToSet
  <2>2. CASE i > k
    <3>1. i - 1 \in 1..(Len(s) - 1) /\ ~(i - 1 < k) /\ (i - 1) + 1 = i
      BY <1>2, <2>2
    <3>2. d[i - 1] = s[i]
      BY <1>1, <3>1
    <3> QED
      BY <1>2, <3>1, <3>2 DEF ToSet
  <2> QED
    BY <1>2, <1>4, <2>1, <2>2
<1>5. ASSUME Apart(s) PROVE Apart(d)
  <2> SUFFICES ASSUME NEW i \in 1..(Len(s) - 1), NEW j \in 1..(Len(s) - 1), i # j
               PROVE  ~RectOverlay(d[i], d[j])
    BY <1>2 DEF Apart
  <2>1. PICK m \in 1..Len(s) : m = (IF i < k THEN i ELSE i + 1)
    BY <1>2
  <2>2. PICK n \in 1..Len(s) : n = (IF j < k THEN j ELSE j + 1)
    BY <1>2
  <2>3. m # n
    BY <1>2, <2>1, <2>2
  <2>4. d[i] = s[m] /\ d[j] = s[n]
    BY <1>1, <2>1, <2>2
  <2> QED
    BY <1>2, <1>5, <2>3, <2>4 DEF Apart
<1> QED
  BY <1>3, <1>4, <1>5 DEF d

\* The pieces behind the last item are not moved by the item that is left out.
LEMMA WithoutBefore ==
  ASSUME NEW s \in Seq(Rect), NEW t \in Seq(Rect), NEW k \in 1..Len(s)
  PROVE  RemoveAt(s \o t, k) = RemoveAt(s, k) \o t
<1> DEFINE d == RemoveAt(s, k)
           u == s \o t
<1>1. /\ d \in Seq(Rect) /\ Len(d) = Len(s) - 1
      /\ \A i \in 1..(Len(s) - 1) : d[i] = IF i < k THEN s[i] ELSE s[i + 1]
  BY WithoutItem
<1>2. u \in Seq(Rect) /\ Len(u) = Len(s) + Len(t) /\ k \in 1..Len(u)
  OBVIOUS
<1>3. Len(s) \in Nat /\ Len(t) \in Nat
  OBVIOUS
<1>4. /\ \A i \in 1..Len(s) : u[i] = s[i]
      /\ \A i \in 1..Len(t) : u[Len(s) + i] = t[i]
  OBVIOUS
<1> HIDE DEF d, u
<1>5. /\ RemoveAt(u, k) \in Seq(Rect) /\ Len(RemoveAt(u, k)) = Len(u) - 1
      /\ \A i \in 1..(Len(u) - 1) : RemoveAt(u, k)[i] = IF i < k THEN u[i] ELSE u[i + 1]
  BY <1>2, WithoutItem
<1>6. d \o t \in Seq(Rect) /\ Len(d \o t) = Len(u) - 1
  <2>1. d \o t \in Seq(Rect) /\ Len(d \o t) = Len(d) + Len(t)
    BY <1>1
  <2> QED
    BY <1>1, <1>2, <1>3, <2>1
<1>7. ASSUME NEW i \in 1..(Len(u) - 1) PROVE RemoveAt(u, k)[i] = (d \o t)[i]
  <2>1. CASE i <= Len(s) - 1
    <3>1. (d \o t)[i] = d[i] /\ i \in 1..(Len(s) - 1)
      BY <1>1, <1>3, <2>1
    <3>2. i \in 1..Len(s) /\ i + 1 \in 1..Len(s)
      BY <1>3, <2>1
    <3> QED
      BY <1>1, <1>4, <1>5, <3>1, <3>2
  <2>2. CASE i > Len(s) - 1
    <3>1. i - (Len(s) - 1) \in 1..Len(t) /\ ~(i < k) /\ Len(s) + (i - (Len(s) - 1)) = i + 1
      BY <1>2, <1>3, <2>2
    <3>2. (d \o t)[i] = t[i - (Len(s) - 1)]
      BY <1>1, <1>3, <2>2, <3>1
    <3>3. u[i + 1] = t[i - (Len(s) - 1)]
      BY <1>4, <3>1
    <3> QED
      BY <1>5, <3>1, <3>2, <3>3
  <2>3. i <= Len(s) - 1 \/ i > Len(s) - 1
    BY <1>3
  <2> QED
    BY <2>1, <2>2, <2>3
<1>8. RemoveAt(u, k) = d \o t
  <2>1. Len(RemoveAt(u, k)) = Len(d \o t) /\ \A i \in 1..Len(RemoveAt(u, k)) : RemoveAt(u, k)[i] = (d \o t)[i]
    BY <1>5, <1>6, <1>7
  <2> QED
    BY <1>5, <1>6, <2>1, SeqEqual
<1> QED
  BY <1>8 DEF d, u

\* The list as the walks of metrics.c meet it has the same items.
LEMMA LastFirstItems ==
  ASSUME list \in Seq(Rect)
  PROVE  /\ LastFirst \in Seq(Rect) /\ ToSet(LastFirst) = ToSet(list)
         /\ Apart(list) => Apart(LastFirst)
<1>1. CASE list = << >>
  BY <1>1 DEF LastFirst
<1>2. CASE list # << >>
  <2> DEFINE n == Len(list)
             f == SubSeq(list, 1, n - 1)
             w == list[n]
  <2>1. n \in Nat /\ n > 0 /\ n \in 1..n /\ w \in Rect
    BY <1>2
  <2>2. LastFirst = <<w>> \o f
    BY <1>2 DEF LastFirst, Last, Front
  <2>3. f \in Seq(Rect) /\ Len(f) = n - 1 /\ \A i \in 1..(n - 1) : f[i] = list[i]
    BY ONLY <2>1, list \in Seq(Rect), ItemsBefore
  <2>4. <<w>> \in Seq(Rect) /\ (\A x : x \in ToSet(<<w>>) <=> x = w) /\ Apart(<<w>>)
    BY <2>1 DEF ToSet, Apart
  <2>5. DOMAIN f = 1..(n - 1) /\ DOMAIN list = 1..n
    BY <2>1, <2>3
  <2>6. \A x : x \in ToSet(f) <=> \E i \in 1..(n - 1) : x = list[i]
    BY <2>3, <2>5 DEF ToSet
  <2>7. \A x : x \in ToSet(list) <=> x = w \/ \E i \in 1..(n - 1) : x = list[i]
    <3>1. 1..n = 1..(n - 1) \cup {n}
      BY <2>1
    <3> QED
      BY <2>5, <3>1 DEF ToSet
  <2> HIDE DEF f, w
  <2>8. <<w>> \o f \in Seq(Rect) /\ \A x : x \in ToSet(<<w>> \o f) <=> x \in ToSet(<<w>>) \/ x \in ToSet(f)
    BY ONLY <2>3, <2>4, ItemsOfBoth
  <2>9. \A x : x \in ToSet(LastFirst) <=> x \in ToSet(list)
    BY <2>2, <2>4, <2>6, <2>7, <2>8
  <2>10. ASSUME Apart(list) PROVE Apart(LastFirst)
    <3>1. Apart(f)
      BY <2>1, <2>3, <2>5, <2>10 DEF Apart
    <3>2. \A q \in ToSet(<<w>>), d \in ToSet(f) : ~RectOverlay(q, d)
      <4> SUFFICES ASSUME NEW i \in 1..(n - 1) PROVE ~RectOverlay(w, list[i])
        BY <2>4, <2>6
      <4>1. n \in 1..n /\ i \in 1..n /\ n # i
        BY <2>1
      <4> QED
        BY <2>5, <2>10, <4>1 DEF Apart, w
    <3> QED
      BY <2>2, <2>3, <2>4, <3>1, <3>2, ApartBoth
  <2> QED
    BY <2>2, <2>8, <2>9, <2>10
<1> QED
  BY <1>1, <1>2
-----------------------------------------------------------------------------
(***************************************************************************)
(* The walks.  ListsAreExact is not inductive: a removal that has passed   *)
(* an item must have left nothing of its rectangle there.  The items it    *)
(* has still to visit are c items from a on, but for the first one, which  *)
(* is the last of the list, before the walk goes round to the others.      *)
(***************************************************************************)
Passed ==
  call \in {"removeH", "removeV"} =>
    /\ r \in Inputs
    /\ \/ a = Len(list) /\ c = Len(list)
       \/ /\ a + c <= Len(list) + 1
          /\ \A i \in 1..Len(list) : i < a \/ a + c <= i => ~RectOverlay(list[i], r)

\* The items, and the rests that an addition has still to add, come from the inputs.
OfInputs ==
  /\ \A q \in ToSet(list) : Clear(q)
  /\ \A q \in ToSet(adding) : q \in Inputs \/ (NonEmpty(q) /\ Clear(q))

ListInv == ListsAreExact /\ Passed /\ OfInputs

LEMMA ListedIs == ListInv => Listed(list)
<1> SUFFICES ASSUME ListInv PROVE Listed(list)
  OBVIOUS
<1>1. list \in Seq(Rect) /\ Disjoint /\ \A q \in ToSet(list) : Clear(q)
  BY DEF ListInv, ListsAreExact, ListTypeOK, OfInputs
<1> QED
  BY <1>1 DEF Listed, Disjoint, Apart, ToSet

LEMMA DisjointIs ==
  ASSUME Listed(list)
  PROVE  list \in Seq(Rect) /\ Disjoint /\ \A q \in ToSet(list) : Clear(q)
<1>1. \A i \in DOMAIN list : list[i] \in ToSet(list)
  BY DEF ToSet
<1> QED
  BY <1>1 DEF Listed, Disjoint, Apart

LEMMA InputClear ==
  ASSUME InputsOnScreen, NEW w \in Inputs, NonEmpty(w)
  PROVE  Clear(w)
BY DEF InputsOnScreen, Clear

\* What is left of an item that the removed rectangle meets.
LeftOf(pieces, t, w) ==
  /\ pieces \in Seq(Rect) /\ Apart(pieces)
  /\ \A q \in ToSet(pieces) : NonEmpty(q) /\ Clear(q) /\ ~RectOverlay(q, w)
  /\ \A p \in Point : (\E q \in ToSet(pieces) : PointInRect(p, q)) <=> Rest(p, t, w)

LEMMA ExactLeft ==
  ASSUME InputsOnScreen, NEW t \in Rect, NEW w \in Rect, Clear(t),
         NEW pieces, Exact(pieces, t, w)
  PROVE  LeftOf(pieces, t, w) /\ LeftOf(Kept(pieces), t, w)
<1>1. /\ pieces \in Seq(Rect) /\ Apart(pieces)
      /\ \A q \in ToSet(pieces) : NonEmpty(q) /\ Within(q, t) /\ ~RectOverlay(q, w)
      /\ \A p \in Point : (\E q \in ToSet(pieces) : PointInRect(p, q)) <=> Rest(p, t, w)
  BY DEF Exact
<1>2. \A q \in ToSet(pieces) : Clear(q)
  <2>1. ToSet(pieces) \subseteq Rect
    BY <1>1, ItemsAre
  <2> QED
    BY <1>1, <2>1, WithinClear DEF InputsOnScreen
<1>3. /\ Kept(pieces) \in Seq(Rect) /\ Apart(Kept(pieces))
      /\ \A x : x \in ToSet(Kept(pieces)) <=> x \in ToSet(pieces) /\ NonEmpty(x)
  BY <1>1, KeptItems DEF InputsOnScreen
<1>4. \A p : (\E q \in ToSet(Kept(pieces)) : PointInRect(p, q))
                <=> \E q \in ToSet(pieces) : PointInRect(p, q)
  BY <1>1, <1>3
<1> QED
  BY <1>1, <1>2, <1>3, <1>4 DEF LeftOf

LEMMA PiecesLeft ==
  ASSUME InputsOnScreen, NEW t \in Rect, NonEmpty(t), Clear(t), NEW w \in Inputs, RectOverlay(t, w)
  PROVE  LeftOf(Pieces(t, w), t, w)
<1>1. w \in Rect /\ NonEmpty(w)
  BY DEF InputsOnScreen, Clear
<1>2. Exact(AddBminusAHPref(t, w), t, w) /\ Exact(AddBminusAVPref(t, w), t, w)
  BY <1>1, HPrefExact, VPrefExact
<1>3. LeftOf(Kept(AddBminusAHPref(t, w)), t, w) /\ LeftOf(Kept(AddBminusAVPref(t, w)), t, w)
  BY <1>1, <1>2, ExactLeft
<1> QED
  BY <1>3 DEF Pieces

\* The pieces behind the list and the item left out: the list is as it is to be, and no other
\* pixel is lost.
LEMMA ItemReplaced ==
  ASSUME InputsOnScreen, Listed(list), NEW k \in 1..Len(list), NEW w \in Rect, NEW pieces,
         LeftOf(pieces, list[k], w)
  PROVE  LET new == RemoveAt(list \o pieces, k)
         IN /\ Listed(new)
            /\ Covered(new) \ PointsOf(w) = Covered(list) \ PointsOf(w)
            /\ Len(new) = Len(list) - 1 + Len(pieces)
            /\ \A i \in 1..(Len(list) - 1) : new[i] = IF i < k THEN list[i] ELSE list[i + 1]
            /\ \A i \in Len(list)..Len(new) : ~RectOverlay(new[i], w)
<1> DEFINE d == RemoveAt(list, k)
           new == RemoveAt(list \o pieces, k)
<1>1. /\ list \in Seq(Rect) /\ Apart(list) /\ \A q \in ToSet(list) : NonEmpty(q) /\ Clear(q)
      /\ Len(list) \in Nat
  BY DEF Listed
<1>2. /\ pieces \in Seq(Rect) /\ Apart(pieces) /\ Len(pieces) \in Nat
      /\ \A q \in ToSet(pieces) : NonEmpty(q) /\ Clear(q) /\ ~RectOverlay(q, w)
      /\ \A p \in Point : (\E q \in ToSet(pieces) : PointInRect(p, q)) <=> Rest(p, list[k], w)
  BY DEF LeftOf
<1>3. new = d \o pieces
  BY <1>1, <1>2, WithoutBefore
<1>4. /\ d \in Seq(Rect) /\ Len(d) = Len(list) - 1
      /\ \A i \in 1..(Len(list) - 1) : d[i] = IF i < k THEN list[i] ELSE list[i + 1]
  BY <1>1, WithoutItem
<1>5. /\ \A x : x \in ToSet(d) <=> \E i \in 1..Len(list) : i # k /\ x = list[i]
      /\ Apart(d)
  BY <1>1, WithoutItems
<1>6. (\A i \in 1..Len(list) : list[i] \in Rect) /\ DOMAIN list = 1..Len(list)
  BY <1>1
<1> HIDE DEF d, new
<1>7. ASSUME NEW q \in ToSet(d), NEW e \in ToSet(pieces) PROVE ~RectOverlay(q, e)
  <2> SUFFICES ASSUME RectOverlay(q, e) PROVE FALSE
    OBVIOUS
  <2>1. PICK i \in 1..Len(list) : i # k /\ q = list[i]
    BY <1>5
  <2>2. q \in Rect /\ NonEmpty(q) /\ e \in Rect /\ NonEmpty(e)
    BY <1>1, <1>2, <1>6, <2>1, ItemsAre DEF ToSet
  <2>3. PICK p \in Point : PointInRect(p, q) /\ PointInRect(p, e)
    BY <2>2, OverlayIsCommonPixel
  <2>4. PointInRect(p, list[k])
    BY <1>2, <2>3 DEF Rest
  <2>5. RectOverlay(list[i], list[k])
    BY <1>6, <2>1, <2>3, <2>4, CommonPixel
  <2> QED
    BY <1>1, <1>6, <2>1, <2>5 DEF Apart
<1>8. new \in Seq(Rect) /\ \A x : x \in ToSet(new) <=> x \in ToSet(d) \/ x \in ToSet(pieces)
  BY ONLY <1>2, <1>3, <1>4, ItemsOfBoth
<1>9. Apart(new)
  BY <1>2, <1>3, <1>4, <1>5, <1>7, ApartBoth
<1>10. Listed(new)
  <2>1. \A q \in ToSet(d) : q \in ToSet(list)
    BY <1>5, <1>6 DEF ToSet
  <2> QED
    BY <1>1, <1>2, <1>8, <1>9, <2>1 DEF Listed
<1>11. Covered(new) \ PointsOf(w) = Covered(list) \ PointsOf(w)
  <2>1. ASSUME NEW p \in Plane, ~PointInRect(p, w)
        PROVE  p \in Covered(new) <=> p \in Covered(list)
    <3>1. p \in Covered(new) <=> \E q \in ToSet(new) : PointInRect(p, q)
      BY CoveredIs DEF InputsOnScreen
    <3>2. p \in Covered(list) <=> \E q \in ToSet(list) : PointInRect(p, q)
      BY CoveredIs DEF InputsOnScreen
    <3>3. (\E q \in ToSet(pieces) : PointInRect(p, q)) <=> PointInRect(p, list[k])
      BY <1>2, <2>1 DEF Rest, InputsOnScreen
    <3>4. (\E q \in ToSet(new) : PointInRect(p, q))
            <=> (\E q \in ToSet(d) : PointInRect(p, q)) \/ PointInRect(p, list[k])
      BY <1>8, <3>3
    <3>5. \A q : q \in ToSet(list) <=> q \in ToSet(d) \/ q = list[k]
      BY <1>5, <1>6 DEF ToSet
    <3> QED
      BY <3>1, <3>2, <3>4, <3>5
  <2>2. Covered(new) \subseteq Plane /\ Covered(list) \subseteq Plane
    BY CoveredIs DEF InputsOnScreen
  <2> QED
    BY <2>1, <2>2 DEF PointsOf
<1>12. Len(new) = Len(list) - 1 + Len(pieces)
  <2>1. Len(d \o pieces) = Len(d) + Len(pieces)
    BY <1>2, <1>4, ConcatProperties
  <2> QED
    BY <1>3, <1>4, <2>1
<1>13. \A i \in 1..(Len(list) - 1) : new[i] = IF i < k THEN list[i] ELSE list[i + 1]
  <2>1. \A i \in 1..Len(d) : (d \o pieces)[i] = d[i]
    BY <1>2, <1>4
  <2> QED
    BY <1>3, <1>4, <2>1
<1>14. ASSUME NEW i \in Len(list)..Len(new) PROVE ~RectOverlay(new[i], w)
  <2>1. i - Len(d) \in 1..Len(pieces) /\ i = Len(d) + (i - Len(d))
    BY <1>1, <1>2, <1>4, <1>12
  <2>2. \A j \in 1..Len(pieces) : (d \o pieces)[Len(d) + j] = pieces[j] /\ pieces[j] \in ToSet(pieces)
    BY <1>2, <1>4 DEF ToSet
  <2>3. new[i] \in ToSet(pieces)
    BY <1>3, <2>1, <2>2
  <2> QED
    BY <1>2, <2>3
<1> QED
  BY <1>10, <1>11, <1>12, <1>13, <1>14 DEF new

LEMMA ListInitInv ==
  ASSUME ListInit
  PROVE  ListInv
<1>1. list = << >> /\ adding = << >> /\ call = "none" /\ ToSet(list) = {} /\ ToSet(adding) = {}
  BY DEF ListInit, ToSet
<1>2. Nowhere \in Rect
  BY DEF Nowhere, RectAssign, Rect, Point
<1>3. ListTypeOK
  BY <1>1, <1>2 DEF ListInit, ListTypeOK
<1>4. Covered(list) = {}
  BY <1>1 DEF Covered
<1> QED
  BY <1>1, <1>3, <1>4 DEF ListInit, ListInv, ListsAreExact, Disjoint, CoversZone, CoversMeanwhile, Passed, OfInputs

\* A new list between the calls.
LEMMA NewList ==
  ASSUME ListInv, Idle, Listed(list'), Covered(list') = zone', UNCHANGED <<call, r, a, c, adding>>
  PROVE  ListInv'
<1>1. call = "none" /\ call' = "none"
  BY DEF Idle
<1>2. list' \in Seq(Rect) /\ Disjoint' /\ \A q \in ToSet(list') : Clear(q)
  <2>1. \A i \in DOMAIN list' : list'[i] \in ToSet(list')
    BY DEF ToSet
  <2> QED
    BY <2>1 DEF Listed, Disjoint, Apart
<1>3. zone' \subseteq Plane
  <2>1. Covered(list') \subseteq Plane
    BY DEF Covered, PointsOf
  <2> QED
    BY <2>1
<1>4. ListTypeOK'
  BY <1>1, <1>2, <1>3 DEF ListInv, ListsAreExact, ListTypeOK
<1>5. CoversZone' /\ CoversMeanwhile' /\ Passed'
  BY <1>1 DEF CoversZone, CoversMeanwhile, Passed
<1>6. OfInputs'
  BY <1>2 DEF ListInv, OfInputs
<1> QED
  BY <1>2, <1>4, <1>5, <1>6 DEF ListInv, ListsAreExact

\* One item, or none.
LEMMA KeptOne ==
  ASSUME InputsOnScreen, NEW w \in Rect, NonEmpty(w) => Clear(w)
  PROVE  /\ Listed(Kept(<<w>>)) /\ Covered(Kept(<<w>>)) = PointsOf(w)
         /\ \A q \in ToSet(Kept(<<w>>)) : q = w
<1>1. <<w>> \in Seq(Rect) /\ (\A x : x \in ToSet(<<w>>) <=> x = w) /\ Apart(<<w>>)
  BY DEF ToSet, Apart
<1>2. /\ Kept(<<w>>) \in Seq(Rect)
      /\ \A x : x \in ToSet(Kept(<<w>>)) <=> x \in ToSet(<<w>>) /\ NonEmpty(x)
      /\ Apart(Kept(<<w>>))
      /\ Covered(Kept(<<w>>)) = Covered(<<w>>)
  BY <1>1, KeptItems DEF InputsOnScreen
<1>3. Covered(<<w>>) = PointsOf(w)
  BY <1>1 DEF Covered
<1> QED
  BY <1>1, <1>2, <1>3 DEF Listed

LEMMA NewListFromRectInv ==
  ASSUME InputsOnScreen, ListInv, NEW rect \in Inputs, NewListFromRect(rect)
  PROVE  ListInv'
<1>1. rect \in Rect /\ (NonEmpty(rect) => Clear(rect))
  BY InputClear DEF InputsOnScreen
<1>2. Listed(Kept(<<rect>>)) /\ Covered(Kept(<<rect>>)) = PointsOf(rect)
  BY <1>1, KeptOne
<1>3. Listed(list') /\ Covered(list') = zone'
  BY <1>2 DEF NewListFromRect
<1> QED
  BY <1>3, NewList DEF NewListFromRect

LEMMA NewListFromRectListInv ==
  ASSUME InputsOnScreen, ListInv, NewListFromRectList
  PROVE  ListInv'
<1>1. list \in Seq(Rect) /\ Apart(list) /\ \A q \in ToSet(list) : NonEmpty(q) /\ Clear(q)
  BY ListedIs DEF Listed
<1>2. LastFirst \in Seq(Rect) /\ ToSet(LastFirst) = ToSet(list) /\ Apart(LastFirst)
  BY <1>1, LastFirstItems
<1>3. /\ Kept(LastFirst) \in Seq(Rect) /\ Apart(Kept(LastFirst))
      /\ \A x : x \in ToSet(Kept(LastFirst)) <=> x \in ToSet(LastFirst) /\ NonEmpty(x)
      /\ Covered(Kept(LastFirst)) = Covered(LastFirst)
  BY <1>2, KeptItems DEF InputsOnScreen
<1>4. Covered(LastFirst) = Covered(list)
  BY <1>2 DEF Covered
<1>5. Covered(list) = zone
  BY DEF ListInv, ListsAreExact, CoversZone, NewListFromRectList, Idle
<1>6. Listed(list') /\ Covered(list') = zone'
  BY <1>1, <1>2, <1>3, <1>4, <1>5 DEF NewListFromRectList, Listed
<1> QED
  BY <1>6, NewList DEF NewListFromRectList

\* The common part of two rectangles that meet.
LEMMA InterseptIs ==
  ASSUME NEW w \in Rect, NEW t \in Rect, NonEmpty(w), NonEmpty(t), RectOverlay(t, w)
  PROVE  /\ RectIntersept(w, t) \in Rect /\ NonEmpty(RectIntersept(w, t)) /\ Within(RectIntersept(w, t), t)
         /\ \A p \in Point : PointInRect(p, RectIntersept(w, t)) <=> PointInRect(p, w) /\ PointInRect(p, t)
<1>1. RectIntersept(w, t) \in Rect
  BY DEF RectIntersept, RectAssign, Rect, Point, max, min
<1>2. NonEmpty(RectIntersept(w, t)) /\ Within(RectIntersept(w, t), t)
  BY DEF RectIntersept, RectAssign, Rect, Point, max, min, NonEmpty, Within, RectOverlay
<1>3. \A p \in Point : PointInRect(p, RectIntersept(w, t)) <=> PointInRect(p, w) /\ PointInRect(p, t)
  BY DEF RectIntersept, RectAssign, Rect, Point, max, min, NonEmpty, PointInRect, RectOverlay
<1> QED
  BY <1>1, <1>2, <1>3

LEMMA NewListFromRectListInterseptInv ==
  ASSUME InputsOnScreen, ListInv, NEW rect \in Inputs, NewListFromRectListIntersept(rect)
  PROVE  ListInv'
<1> DEFINE met == Met(LastFirst, rect)
           s == [i \in DOMAIN met |-> RectIntersept(rect, met[i])]
<1>1. list \in Seq(Rect) /\ Apart(list) /\ \A q \in ToSet(list) : NonEmpty(q) /\ Clear(q)
  BY ListedIs DEF Listed
<1>2. LastFirst \in Seq(Rect) /\ ToSet(LastFirst) = ToSet(list) /\ Apart(LastFirst)
  BY <1>1, LastFirstItems
<1>3. /\ met \in Seq(Rect) /\ Apart(met)
      /\ \A x : x \in ToSet(met) <=> x \in ToSet(list) /\ RectOverlay(x, rect)
  BY <1>2, MetItems
<1>4. rect \in Rect
  BY DEF InputsOnScreen
<1> HIDE DEF met
<1>5. \A i \in 1..Len(met) : met[i] \in ToSet(met) /\ met[i] \in Rect
  BY <1>3 DEF ToSet
<1>6. ASSUME NEW i \in 1..Len(met)
      PROVE  /\ NonEmpty(met[i]) /\ Clear(met[i]) /\ RectOverlay(met[i], rect) /\ NonEmpty(rect)
  BY <1>1, <1>3, <1>5 DEF Clear
<1>7. DOMAIN met = 1..Len(met) /\ Len(met) \in Nat
  BY <1>3
<1>8. ASSUME NEW i \in 1..Len(met)
      PROVE  /\ s[i] \in Rect /\ NonEmpty(s[i]) /\ Clear(s[i])
             /\ \A p \in Point : PointInRect(p, s[i]) <=> PointInRect(p, rect) /\ PointInRect(p, met[i])
  <2>1. s[i] = RectIntersept(rect, met[i])
    BY <1>7
  <2> HIDE DEF s
  <2>2. /\ s[i] \in Rect /\ NonEmpty(s[i]) /\ Within(s[i], met[i])
        /\ \A p \in Point : PointInRect(p, s[i]) <=> PointInRect(p, rect) /\ PointInRect(p, met[i])
    BY <1>4, <1>5, <1>6, <2>1, InterseptIs
  <2> QED
    BY <1>5, <1>6, <2>2, WithinClear DEF InputsOnScreen
<1>9. s \in Seq(Rect) /\ Len(s) = Len(met) /\ DOMAIN s = 1..Len(met)
  <2>1. s \in [1..Len(met) -> Rect]
    BY <1>7, <1>8
  <2> QED
    BY <1>7, <2>1
<1> HIDE DEF s
<1>10. Apart(s)
  <2> SUFFICES ASSUME NEW i \in 1..Len(met), NEW j \in 1..Len(met), i # j, RectOverlay(s[i], s[j])
               PROVE  FALSE
    BY <1>9 DEF Apart
  <2>1. PICK p \in Point : PointInRect(p, s[i]) /\ PointInRect(p, s[j])
    BY <1>8, OverlayIsCommonPixel
  <2>2. PointInRect(p, met[i]) /\ PointInRect(p, met[j])
    BY <1>8, <2>1
  <2>3. RectOverlay(met[i], met[j])
    BY <1>5, <2>2, CommonPixel
  <2> QED
    BY <1>3, <1>7, <2>3 DEF Apart
<1>11. /\ Kept(s) \in Seq(Rect) /\ Apart(Kept(s))
       /\ \A x : x \in ToSet(Kept(s)) <=> x \in ToSet(s) /\ NonEmpty(x)
       /\ Covered(Kept(s)) = Covered(s)
  BY <1>9, <1>10, KeptItems DEF InputsOnScreen
<1>12. \A x : x \in ToSet(s) <=> \E i \in 1..Len(met) : x = s[i]
  BY <1>9 DEF ToSet
<1>13. Listed(Kept(s))
  BY <1>8, <1>11, <1>12 DEF Listed
<1>14. Covered(s) = Covered(list) \cap PointsOf(rect)
  <2>1. ASSUME NEW p \in Plane
        PROVE  p \in Covered(s) <=> p \in Covered(list) /\ PointInRect(p, rect)
    <3>1. p \in Covered(s) <=> \E q \in ToSet(s) : PointInRect(p, q)
      BY CoveredIs DEF InputsOnScreen
    <3>2. p \in Covered(list) <=> \E q \in ToSet(list) : PointInRect(p, q)
      BY CoveredIs DEF InputsOnScreen
    <3>0. p \in Point
      BY DEF InputsOnScreen
    <3>3. (\E q \in ToSet(s) : PointInRect(p, q))
            <=> \E i \in 1..Len(met) : PointInRect(p, rect) /\ PointInRect(p, met[i])
      BY <1>8, <1>12, <3>0
    <3>4. \A q \in ToSet(list) : PointInRect(p, q) /\ PointInRect(p, rect) => RectOverlay(q, rect)
      <4>1. ToSet(list) \subseteq Rect
        BY <1>1, ItemsAre
      <4> QED
        BY <1>4, <3>0, <4>1, CommonPixel
    <3>5. \A q : q \in ToSet(met) <=> \E i \in 1..Len(met) : q = met[i]
      BY <1>7 DEF ToSet
    <3> QED
      BY <1>3, <3>1, <3>2, <3>3, <3>4, <3>5
  <2>2. Covered(s) \subseteq Plane /\ Covered(list) \subseteq Plane
    BY CoveredIs DEF InputsOnScreen
  <2> QED
    BY <2>1, <2>2 DEF PointsOf
<1>15. Covered(list) = zone
  BY DEF ListInv, ListsAreExact, CoversZone, NewListFromRectListIntersept, Idle
<1>16. list' = Kept(s) /\ zone' = zone \cap PointsOf(rect)
  BY DEF NewListFromRectListIntersept, met, s
<1>17. Listed(list') /\ Covered(list') = zone'
  BY <1>11, <1>13, <1>14, <1>15, <1>16
<1> QED
  BY <1>17, NewList DEF NewListFromRectListIntersept

LEMMA RemoveZoneInv ==
  ASSUME InputsOnScreen, ListInv, NEW rect \in Inputs, NEW variant \in {"removeH", "removeV"},
         RemoveZone(rect, variant)
  PROVE  ListInv'
<1>1. /\ list' = list /\ adding' = adding /\ zone' = zone \ PointsOf(rect) /\ call = "none"
      /\ rect \in Rect /\ list \in Seq(Rect) /\ zone \subseteq Plane /\ Covered(list) = zone
  BY DEF RemoveZone, Idle, InputsOnScreen, ListInv, ListsAreExact, ListTypeOK, CoversZone
<1>2. Disjoint' /\ OfInputs'
  BY <1>1 DEF ListInv, ListsAreExact, Disjoint, OfInputs
<1>3. CASE list = << >>
  <2>1. UNCHANGED <<call, r, a, c>>
    BY <1>3 DEF RemoveZone
  <2>2. Covered(list) = {}
    BY <1>3 DEF Covered, ToSet
  <2>3. ListTypeOK'
    BY <1>1, <2>1 DEF ListInv, ListsAreExact, ListTypeOK
  <2>4. CoversZone' /\ CoversMeanwhile' /\ Passed'
    BY <1>1, <2>1, <2>2 DEF CoversZone, CoversMeanwhile, Passed
  <2> QED
    BY <1>2, <2>3, <2>4 DEF ListInv, ListsAreExact
<1>4. CASE list # << >>
  <2>1. call' = variant /\ r' = rect /\ a' = Len(list) /\ c' = Len(list)
    BY <1>4 DEF RemoveZone
  <2>2. Len(list) \in Nat /\ Len(list) \in 1..Len(list) /\ DOMAIN list = 1..Len(list)
    BY <1>1, <1>4
  <2>3. ListTypeOK'
    BY <1>1, <2>1, <2>2 DEF ListInv, ListsAreExact, ListTypeOK
  <2>4. CoversZone' /\ CoversMeanwhile' /\ Passed'
    BY <1>1, <2>1 DEF CoversZone, CoversMeanwhile, Passed
  <2> QED
    BY <1>2, <2>3, <2>4 DEF ListInv, ListsAreExact
<1> QED
  BY <1>3, <1>4

\* After a round: the items that are not to be visited any more are clear of the rectangle.
LEMMA AfterRound ==
  ASSUME InputsOnScreen, ListInv, call \in {"removeH", "removeV"}, Counted, UNCHANGED <<adding, zone>>,
         Listed(list'), Covered(list') \ PointsOf(r) = Covered(list) \ PointsOf(r),
         c = 1 => \A i \in 1..Len(list') : ~RectOverlay(list'[i], r),
         c # 1 => /\ a' \in 1..Len(list') /\ a' + (c - 1) <= Len(list') + 1
                  /\ \A i \in 1..Len(list') : i < a' \/ a' + (c - 1) <= i => ~RectOverlay(list'[i], r),
         c = 1 => a' = 0
  PROVE  ListInv'
<1>1. /\ c \in 1..Len(list) /\ Len(list) \in Nat /\ r \in Inputs /\ r \in Rect
      /\ Covered(list) \ PointsOf(r) = zone /\ zone \subseteq Plane /\ adding \in Seq(Rect)
  BY DEF ListInv, ListsAreExact, ListTypeOK, Passed, CoversMeanwhile
<1>2. list' \in Seq(Rect) /\ Disjoint' /\ \A q \in ToSet(list') : Clear(q)
  <2>1. \A i \in DOMAIN list' : list'[i] \in ToSet(list')
    BY DEF ToSet
  <2> QED
    BY <2>1 DEF Listed, Disjoint, Apart
<1>3. OfInputs'
  BY <1>2 DEF ListInv, OfInputs
<1>4. CASE c = 1
  <2>1. call' = "none" /\ r' = Nowhere /\ c' = 0 /\ a' = 0
    BY <1>4 DEF Counted
  <2>2. Nowhere \in Rect
    BY DEF Nowhere, RectAssign, Rect, Point
  <2>3. ListTypeOK'
    BY <1>1, <1>2, <2>1, <2>2 DEF ListTypeOK
  <2>4. Covered(list') \cap PointsOf(r) = {}
    <3> SUFFICES ASSUME NEW p \in Covered(list'), p \in PointsOf(r) PROVE FALSE
      OBVIOUS
    <3>1. p \in Point /\ PointInRect(p, r)
      BY DEF PointsOf, InputsOnScreen
    <3>2. PICK q \in ToSet(list') : PointInRect(p, q)
      BY DEF Covered, PointsOf
    <3>3. PICK i \in 1..Len(list') : q = list'[i]
      BY <1>2, <3>2 DEF ToSet
    <3>4. RectOverlay(q, r)
      BY <1>1, <1>2, <3>1, <3>2, <3>3, CommonPixel
    <3> QED
      BY <1>4, <3>3, <3>4
  <2>5. CoversZone'
    BY <1>1, <2>4 DEF CoversZone
  <2>6. CoversMeanwhile' /\ Passed'
    BY <2>1 DEF CoversMeanwhile, Passed
  <2> QED
    BY <1>2, <1>3, <2>3, <2>5, <2>6 DEF ListInv, ListsAreExact
<1>5. CASE c # 1
  <2>1. call' = call /\ r' = r /\ c' = c - 1
    BY <1>5 DEF Counted
  <2>2. Len(list') \in Nat /\ DOMAIN list' = 1..Len(list')
    BY <1>2
  <2>3. c' \in Nat /\ c' \in 1..Len(list') /\ a' \in Nat /\ a' \in DOMAIN list'
    BY <1>1, <1>5, <2>1, <2>2
  <2>4. ListTypeOK'
    BY <1>1, <1>2, <2>1, <2>3 DEF ListTypeOK
  <2>5. CoversZone' /\ CoversMeanwhile'
    BY <1>1, <2>1 DEF CoversZone, CoversMeanwhile
  <2>6. Passed'
    BY <1>1, <1>5, <2>1 DEF Passed
  <2> QED
    BY <1>2, <1>3, <2>4, <2>5, <2>6 DEF ListInv, ListsAreExact
<1> QED
  BY <1>4, <1>5

LEMMA RemoveStepInv ==
  ASSUME InputsOnScreen, ListInv, RemoveStep
  PROVE  ListInv'
<1>1. /\ call \in {"removeH", "removeV"} /\ Counted /\ UNCHANGED <<adding, zone>>
      /\ c \in 1..Len(list) /\ a \in 1..Len(list) /\ Len(list) \in Nat /\ r \in Inputs /\ r \in Rect
  BY DEF RemoveStep, ListInv, ListsAreExact, ListTypeOK, Passed
<1>2. \/ a = Len(list) /\ c = Len(list)
      \/ /\ a + c <= Len(list) + 1
         /\ \A i \in 1..Len(list) : i < a \/ a + c <= i => ~RectOverlay(list[i], r)
  BY <1>1 DEF ListInv, Passed
<1>3. Listed(list)
  BY ListedIs
<1>4. list[a] \in Rect /\ NonEmpty(list[a]) /\ Clear(list[a])
  BY <1>1, <1>3 DEF Listed, ToSet
<1> DEFINE n == Following(a)
<1>5. n = (IF a = Len(list) THEN 1 ELSE a + 1)
  BY DEF Following
<1> HIDE DEF n
<1>6. CASE ~RectOverlay(list[a], r)
  <2>1. list' = list /\ a' = AtEnd(n)
    BY <1>6 DEF RemoveStep, n
  <2>2. ASSUME c = 1 PROVE a' = 0 /\ \A i \in 1..Len(list') : ~RectOverlay(list'[i], r)
    <3>1. \A i \in 1..Len(list) : i = a \/ i < a \/ a + c <= i
      BY <1>1, <2>2
    <3>2. \A i \in 1..Len(list) : i # a => ~RectOverlay(list[i], r)
      <4>1. CASE a = Len(list) /\ c = Len(list)
        <5>1. Len(list) = 1 /\ a = 1
          BY <1>1, <2>2, <4>1
        <5>2. \A i \in 1..Len(list) : i = a
          BY <5>1
        <5> QED
          BY <5>2
      <4>2. CASE ~(a = Len(list) /\ c = Len(list))
        BY <1>2, <3>1, <4>2
      <4> QED
        BY <4>1, <4>2
    <3> QED
      BY <1>6, <2>1, <2>2, <3>2 DEF AtEnd
  <2>3. ASSUME c # 1
        PROVE  /\ a' \in 1..Len(list') /\ a' + (c - 1) <= Len(list') + 1
               /\ \A i \in 1..Len(list') : i < a' \/ a' + (c - 1) <= i => ~RectOverlay(list'[i], r)
    <3>1. a' = n
      BY <2>1, <2>3 DEF AtEnd
    <3>2. CASE a = Len(list) /\ c = Len(list)
      <4>1. a' = 1 /\ a' + (c - 1) = Len(list)
        BY <1>1, <1>5, <3>1, <3>2
      <4>2. \A i \in 1..Len(list) : i < 1 \/ Len(list) <= i => i = a
        BY <1>1, <3>2
      <4> QED
        BY <1>1, <1>6, <2>1, <4>1, <4>2
    <3>3. CASE ~(a = Len(list) /\ c = Len(list))
      <4>1. a # Len(list)
        BY <1>1, <1>2, <2>3, <3>3
      <4>2. a' = a + 1 /\ a' + (c - 1) = a + c
        BY <1>1, <1>5, <3>1, <4>1
      <4>3. \A i \in 1..Len(list) : i < a + 1 => i < a \/ i = a
        BY <1>1
      <4> QED
        BY <1>1, <1>2, <1>6, <2>1, <3>3, <4>1, <4>2, <4>3
    <3> QED
      BY <3>2, <3>3
  <2> QED
    BY <1>1, <1>3, <2>1, <2>2, <2>3, AfterRound
<1>7. CASE RectOverlay(list[a], r)
  <2> DEFINE P == Pieces(list[a], r)
             L == Len(list)
  <2>1. list' = RemoveAt(list \o P, a) /\ a' = AtEnd(IF n > a THEN n - 1 ELSE n)
    BY <1>7 DEF RemoveStep, n
  <2>2. LeftOf(P, list[a], r)
    BY <1>1, <1>4, <1>7, PiecesLeft
  <2> HIDE DEF P
  <2>3. /\ Listed(list')
        /\ Covered(list') \ PointsOf(r) = Covered(list) \ PointsOf(r)
        /\ Len(list') = L - 1 + Len(P)
        /\ \A i \in 1..(L - 1) : list'[i] = IF i < a THEN list[i] ELSE list[i + 1]
        /\ \A i \in L..Len(list') : ~RectOverlay(list'[i], r)
    <3> DEFINE new == RemoveAt(list \o P, a)
    <3>1. /\ Listed(new)
          /\ Covered(new) \ PointsOf(r) = Covered(list) \ PointsOf(r)
          /\ Len(new) = L - 1 + Len(P)
          /\ \A i \in 1..(L - 1) : new[i] = IF i < a THEN list[i] ELSE list[i + 1]
          /\ \A i \in L..Len(new) : ~RectOverlay(new[i], r)
      BY ONLY InputsOnScreen, <1>1, <1>3, <2>2, ItemReplaced
    <3> QED
      BY <2>1, <3>1
  <2>4. Len(P) \in Nat
    BY <2>2 DEF LeftOf
  <2>5. \A i \in 1..Len(list') : i \in 1..(L - 1) \/ i \in L..Len(list')
    BY <1>1
  <2>6. ASSUME c = 1 PROVE a' = 0 /\ \A i \in 1..Len(list') : ~RectOverlay(list'[i], r)
    <3>1. \A i \in 1..L : i # a => ~RectOverlay(list[i], r)
      <4>1. \A i \in 1..L : i = a \/ i < a \/ a + c <= i
        BY <1>1, <2>6
      <4>2. CASE a = L /\ c = L
        <5>1. L = 1 /\ a = 1
          BY <1>1, <2>6, <4>2
        <5>2. \A i \in 1..L : i = a
          BY <5>1
        <5> QED
          BY <5>2
      <4>3. CASE ~(a = L /\ c = L)
        BY <1>2, <4>1, <4>3
      <4> QED
        BY <4>2, <4>3
    <3>2. \A i \in 1..(L - 1) : ~RectOverlay(list'[i], r)
      <4> SUFFICES ASSUME NEW i \in 1..(L - 1) PROVE ~RectOverlay(list'[i], r)
        OBVIOUS
      <4>1. i \in 1..L /\ i + 1 \in 1..L /\ (~(i < a) => i + 1 # a) /\ (i < a => i # a)
        BY <1>1
      <4> QED
        BY <2>3, <3>1, <4>1
    <3> QED
      BY <2>1, <2>3, <2>5, <2>6, <3>2 DEF AtEnd
  <2>7. ASSUME c # 1
        PROVE  /\ a' \in 1..Len(list') /\ a' + (c - 1) <= Len(list') + 1
               /\ \A i \in 1..Len(list') : i < a' \/ a' + (c - 1) <= i => ~RectOverlay(list'[i], r)
    <3>1. a' = IF n > a THEN n - 1 ELSE n
      BY <2>1, <2>7 DEF AtEnd
    <3>2. CASE a = L /\ c = L
      <4>1. a' = 1 /\ a' + (c - 1) = L /\ L > 1
        BY <1>1, <1>5, <2>7, <3>1, <3>2
      <4>2. \A i \in 1..Len(list') : i < 1 \/ L <= i => i \in L..Len(list')
        BY <1>1, <2>3, <2>4
      <4> QED
        BY <1>1, <2>3, <2>4, <4>1, <4>2
    <3>3. CASE ~(a = L /\ c = L)
      <4>1. a # L /\ a + c <= L + 1
        BY <1>1, <1>2, <2>7, <3>3
      <4>2. a' = a
        BY <1>1, <1>5, <3>1, <4>1
      <4>3. a' \in 1..Len(list') /\ a' + (c - 1) <= Len(list') + 1
        BY <1>1, <2>3, <2>4, <4>1, <4>2
      <4>4. ASSUME NEW i \in 1..(L - 1), i < a \/ a + (c - 1) <= i PROVE ~RectOverlay(list'[i], r)
        <5>1. CASE i < a
          <6>1. i \in 1..L /\ list'[i] = list[i]
            BY <1>1, <2>3, <5>1
          <6> QED
            BY <1>2, <3>3, <5>1, <6>1
        <5>2. CASE ~(i < a)
          <6>1. i + 1 \in 1..L /\ a + c <= i + 1 /\ list'[i] = list[i + 1]
            BY <1>1, <2>3, <4>4, <5>2
          <6> QED
            BY <1>2, <3>3, <6>1
        <5> QED
          BY <5>1, <5>2
      <4> QED
        BY <2>3, <2>5, <4>2, <4>3, <4>4
    <3> QED
      BY <3>2, <3>3
  <2> QED
    BY <1>1, <2>3, <2>6, <2>7, AfterRound
<1> QED
  BY <1>6, <1>7

LEMMA AddZoneInListInv ==
  ASSUME InputsOnScreen, ListInv, NEW rect \in Inputs, AddZoneInList(rect)
  PROVE  ListInv'
<1>1. /\ list' = list /\ adding' = <<rect>> /\ zone' = zone \cup PointsOf(rect) /\ call' = "add"
      /\ UNCHANGED <<r, a, c>>
      /\ rect \in Rect /\ list \in Seq(Rect) /\ zone \subseteq Plane /\ Covered(list) = zone
  BY DEF AddZoneInList, Idle, InputsOnScreen, ListInv, ListsAreExact, ListTypeOK, CoversZone
<1>2. adding' \in Seq(Rect) /\ adding' # << >> /\ \A q \in ToSet(adding') : q = rect
  BY <1>1 DEF ToSet
<1>3. Covered(adding') = PointsOf(rect)
  BY <1>1 DEF Covered, ToSet
<1>4. Disjoint' /\ OfInputs'
  <2>1. Disjoint'
    BY <1>1 DEF ListInv, ListsAreExact, Disjoint
  <2>2. \A q \in ToSet(list') : Clear(q)
    BY <1>1 DEF ListInv, OfInputs
  <2>3. \A q \in ToSet(adding') : q \in Inputs
    BY <1>2
  <2>4. OfInputs'
    BY <2>2, <2>3 DEF OfInputs
  <2> QED
    BY <2>1, <2>4
<1>5. ListTypeOK'
  <2>1. PointsOf(rect) \subseteq Plane
    BY DEF PointsOf
  <2> QED
    BY <1>1, <1>2, <2>1 DEF ListInv, ListsAreExact, ListTypeOK
<1>6. CoversZone' /\ CoversMeanwhile' /\ Passed'
  BY <1>1, <1>3 DEF CoversZone, CoversMeanwhile, Passed
<1> QED
  BY <1>4, <1>5, <1>6 DEF ListInv, ListsAreExact

\* The first rest and the others.
LEMMA HeadItems ==
  ASSUME NEW s \in Seq(Rect), s # << >>
  PROVE  /\ Head(s) \in Rect /\ Tail(s) \in Seq(Rect)
         /\ \A x : x \in ToSet(s) <=> x = Head(s) \/ x \in ToSet(Tail(s))
<1>1. Len(s) \in Nat /\ 1 \in 1..Len(s) /\ DOMAIN s = 1..Len(s)
  OBVIOUS
<1>2. /\ Head(s) = s[1] /\ Tail(s) \in Seq(Rect) /\ Len(Tail(s)) = Len(s) - 1
      /\ \A i \in 1..(Len(s) - 1) : Tail(s)[i] = s[i + 1]
  OBVIOUS
<1>3. DOMAIN Tail(s) = 1..(Len(s) - 1)
  BY <1>2
<1>4. ASSUME NEW i \in 1..Len(s) PROVE s[i] = Head(s) \/ s[i] \in ToSet(Tail(s))
  <2>1. CASE i = 1
    BY <1>2, <2>1
  <2>2. CASE i # 1
    <3>1. i - 1 \in 1..(Len(s) - 1) /\ (i - 1) + 1 = i
      BY <1>1, <2>2
    <3>2. Tail(s)[i - 1] = s[i]
      BY <1>2, <3>1
    <3> QED
      BY <1>3, <3>1, <3>2 DEF ToSet
  <2> QED
    BY <2>1, <2>2
<1>5. ASSUME NEW i \in 1..(Len(s) - 1) PROVE Tail(s)[i] \in ToSet(s)
  <2>1. i + 1 \in 1..Len(s)
    BY <1>1
  <2> QED
    BY <1>1, <1>2, <2>1 DEF ToSet
<1>6. \A x : x \in ToSet(s) => x = Head(s) \/ x \in ToSet(Tail(s))
  BY <1>1, <1>4 DEF ToSet
<1>7. \A x : x \in ToSet(Tail(s)) => x \in ToSet(s)
  BY <1>3, <1>5 DEF ToSet
<1>8. Head(s) \in ToSet(s) /\ Head(s) \in Rect
  BY <1>1, <1>2 DEF ToSet
<1> QED
  BY <1>2, <1>6, <1>7, <1>8

LEMMA AddStepInv ==
  ASSUME InputsOnScreen, ListInv, AddStep
  PROVE  ListInv'
<1>1. /\ call = "add" /\ adding \in Seq(Rect) /\ adding # << >> /\ zone \subseteq Plane
      /\ Covered(list) \cup Covered(adding) = zone /\ UNCHANGED <<r, a, c, zone>>
      /\ r \in Rect /\ a \in Nat /\ c \in Nat
      /\ call' = IF adding' = << >> THEN "none" ELSE "add"
  BY DEF AddStep, ListInv, ListsAreExact, ListTypeOK, CoversMeanwhile
<1> DEFINE rect == Head(adding)
           rest == Tail(adding)
           met == Met(LastFirst, rect)
<1>2. /\ rect \in Rect /\ rest \in Seq(Rect)
      /\ \A x : x \in ToSet(adding) <=> x = rect \/ x \in ToSet(rest)
  BY <1>1, HeadItems
<1>3. Listed(list)
  BY ListedIs
<1>4. list \in Seq(Rect) /\ Apart(list) /\ \A q \in ToSet(list) : q \in Rect /\ NonEmpty(q) /\ Clear(q)
  BY <1>3, ItemsAre DEF Listed
<1>5. LastFirst \in Seq(Rect) /\ ToSet(LastFirst) = ToSet(list)
  BY <1>4, LastFirstItems
<1>6. /\ met \in Seq(Rect)
      /\ \A x : x \in ToSet(met) <=> x \in ToSet(list) /\ RectOverlay(x, rect)
  BY <1>5, MetItems
<1>7. /\ rect \in Inputs \/ (NonEmpty(rect) /\ Clear(rect))
      /\ \A q \in ToSet(rest) : q \in Inputs \/ (NonEmpty(q) /\ Clear(q))
  BY <1>2 DEF ListInv, OfInputs
<1>8. Covered(adding) = PointsOf(rect) \cup Covered(rest)
  BY <1>2 DEF Covered
<1>9. IF met # << >>
      THEN adding' = AddBminusAHPref(rect, Head(met)) \o rest /\ list' = list
      ELSE adding' = rest /\ list' = list \o Kept(<<rect>>)
  BY DEF AddStep
<1> HIDE DEF met, rect, rest
\* What a step leaves to be done.
<1>10. ASSUME Listed(list'), adding' \in Seq(Rect), Covered(list') \cup Covered(adding') = zone,
              \A q \in ToSet(adding') : q \in Inputs \/ (NonEmpty(q) /\ Clear(q))
       PROVE  ListInv'
  <2>1. list' \in Seq(Rect) /\ Disjoint' /\ \A q \in ToSet(list') : Clear(q)
    <3>1. \A i \in DOMAIN list' : list'[i] \in ToSet(list')
      BY DEF ToSet
    <3> QED
      BY <1>10, <3>1 DEF Listed, Disjoint, Apart
  <2>2. ListTypeOK'
    BY <1>1, <1>10, <2>1 DEF ListTypeOK
  <2>3. CoversZone'
    <3>1. adding' = << >> => Covered(adding') = {}
      BY DEF Covered, ToSet
    <3> QED
      BY <1>1, <1>10, <3>1 DEF CoversZone
  <2>4. CoversMeanwhile' /\ Passed'
    BY <1>1, <1>10 DEF CoversMeanwhile, Passed
  <2>5. OfInputs'
    BY <1>10, <2>1 DEF OfInputs
  <2> QED
    BY <2>1, <2>2, <2>3, <2>4, <2>5 DEF ListInv, ListsAreExact
<1>11. CASE met = << >>
  <2> DEFINE k == Kept(<<rect>>)
  <2>1. adding' = rest /\ list' = list \o k
    BY <1>9, <1>11
  <2>2. Listed(k) /\ Covered(k) = PointsOf(rect) /\ \A q \in ToSet(k) : q = rect
    BY <1>2, <1>7, InputClear, KeptOne
  <2> HIDE DEF k
  <2>3. k \in Seq(Rect) /\ Apart(k)
    BY <2>2 DEF Listed
  <2>4. \A q \in ToSet(list) : ~RectOverlay(q, rect)
    BY <1>6, <1>11 DEF ToSet
  <2>5. list \o k \in Seq(Rect) /\ \A x : x \in ToSet(list \o k) <=> x \in ToSet(list) \/ x \in ToSet(k)
    BY ONLY <1>4, <2>3, ItemsOfBoth
  <2>6. Apart(list \o k)
    BY <1>4, <2>2, <2>3, <2>4, ApartBoth
  <2>7. Listed(list \o k)
    BY <1>4, <2>2, <2>5, <2>6 DEF Listed
  <2>8. Covered(list \o k) = Covered(list) \cup Covered(k)
    BY <2>5 DEF Covered
  <2> QED
    BY <1>1, <1>2, <1>7, <1>8, <1>10, <2>1, <2>2, <2>7, <2>8
<1>12. CASE met # << >>
  <2> DEFINE t == Head(met)
             left == AddBminusAHPref(rect, t)
  <2>1. adding' = left \o rest /\ list' = list
    BY <1>9, <1>12
  <2>2. t \in ToSet(met)
    BY <1>6, <1>12, HeadItems
  <2>3. t \in ToSet(list) /\ t \in Rect /\ NonEmpty(t) /\ Clear(t) /\ RectOverlay(t, rect)
    BY <1>4, <1>6, <2>2
  <2>4. NonEmpty(rect) /\ Clear(rect) /\ RectOverlay(rect, t)
    BY <1>2, <1>7, <2>3, InputClear, OverlaySymmetric DEF Clear
  <2>5. Exact(left, rect, t)
    BY <1>2, <2>3, <2>4, HPrefExact
  <2> HIDE DEF t, left
  <2>6. LeftOf(left, rect, t)
    BY <1>2, <2>3, <2>4, <2>5, ExactLeft
  <2>7. left \o rest \in Seq(Rect) /\ \A x : x \in ToSet(left \o rest) <=> x \in ToSet(left) \/ x \in ToSet(rest)
    BY ONLY <1>2, <2>6, ItemsOfBoth DEF LeftOf
  <2>8. \A q \in ToSet(adding') : q \in Inputs \/ (NonEmpty(q) /\ Clear(q))
    BY <1>7, <2>1, <2>6, <2>7 DEF LeftOf
  <2>9. Covered(left \o rest) = Covered(left) \cup Covered(rest)
    BY <2>7 DEF Covered
  <2>10. Covered(list) \cup Covered(left) = Covered(list) \cup PointsOf(rect)
    <3>1. ASSUME NEW p \in Plane PROVE p \in Covered(left) <=> PointInRect(p, rect) /\ ~PointInRect(p, t)
      BY <2>6, CoveredIs DEF LeftOf, Rest, InputsOnScreen
    <3>2. \A p \in Plane : PointInRect(p, t) => p \in Covered(list)
      BY <2>3, CoveredIs DEF InputsOnScreen
    <3>3. Covered(left) \subseteq Plane /\ PointsOf(rect) \subseteq Plane
      BY DEF Covered, PointsOf
    <3> QED
      BY <3>1, <3>2, <3>3 DEF PointsOf
  <2> QED
    BY <1>1, <1>3, <1>8, <1>10, <2>1, <2>7, <2>8, <2>9, <2>10
<1> QED
  BY <1>11, <1>12

LEMMA StutterInv ==
  ASSUME ListInv, UNCHANGED listVars
  PROVE  ListInv'
BY DEF ListInv, ListsAreExact, ListTypeOK, Disjoint, CoversZone, CoversMeanwhile, Passed, OfInputs, listVars,
       Covered, PointsOf

LEMMA ListNextInv ==
  ASSUME InputsOnScreen, ListInv, [ListNext]_listVars
  PROVE  ListInv'
<1>1. CASE Calls
  <2>1. CASE NewListFromRectList
    BY <2>1, NewListFromRectListInv
  <2>2. ASSUME NEW rect \in Inputs,
               \/ NewListFromRect(rect)
               \/ NewListFromRectListIntersept(rect)
               \/ RemoveZone(rect, "removeH")
               \/ RemoveZone(rect, "removeV")
               \/ AddZoneInList(rect)
        PROVE  ListInv'
    BY <2>2, NewListFromRectInv, NewListFromRectListInterseptInv, RemoveZoneInv, AddZoneInListInv
  <2> QED
    BY <1>1, <2>1, <2>2 DEF Calls
<1>2. CASE Steps
  BY <1>2, RemoveStepInv, AddStepInv DEF Steps
<1>3. CASE Full \/ UNCHANGED listVars
  BY <1>3, StutterInv DEF Full
<1> QED
  BY <1>1, <1>2, <1>3 DEF ListNext

\* No pixel is in two rectangles of a list, and a list covers the pixels that were asked for,
\* through all the calls of metrics.c and on the way, as long as what is empty is out of sight.
THEOREM ListsExact == ListSpec => []ListsAreExact
<1>1. ListInit => ListInv
  BY ListInitInv
<1>2. ListInv /\ [ListNext]_listVars => ListInv'
  BY ListNextInv, InputsAssumption
<1>3. ListInv => ListsAreExact
  BY DEF ListInv
<1> QED
  BY <1>1, <1>2, <1>3, PTL DEF ListSpec
-----------------------------------------------------------------------------
(***************************************************************************)
(* The registry.                                                           *)
(***************************************************************************)
Keys == Cardinality(Key)

KeyRec == [used : BOOLEAN, name : Name \cup {NULL}, type : Type \cup {"nodata"}, data : Seq(Octet),
           parent : Key \cup {NULL}, last : Key \cup {NULL}, next : Key \cup {NULL},
           prev : Key \cup {NULL}]

\* The links of the keys of a registry, or of the lines of a file.
LinksOf(st) ==
  [last |-> [k \in DOMAIN st |-> st[k].last], next |-> [k \in DOMAIN st |-> st[k].next],
   prev |-> [k \in DOMAIN st |-> st[k].prev], parent |-> [k \in DOMAIN st |-> st[k].parent]]

\* The elements U of W are a tree with the root m: the children of each are a ring by the ranks
\* rk, and h is how deep they lie.
Shape(W, N, q, U, m, rk, h) ==
  /\ Ringed(W, N, q, rk) /\ \E b \in Int : \A x \in W : rk[x] < b
  /\ U \subseteq W /\ m \in U /\ q.parent[m] = N
  /\ \A x \in W : q.parent[x] # N => x \in U /\ q.parent[x] \in U
  /\ \A x \in U : x # m => q.parent[x] # N
  /\ q.next[m] = N /\ q.prev[m] = N
  /\ h \in [W -> Nat] /\ h[m] = 0
  /\ \A x \in W : q.parent[x] # N => h[x] = h[q.parent[x]] + 1

UsedOf(st) == {k \in Key : st[k].used}

Shaped(st, m, rk, h) ==
  st \in [Key -> KeyRec] /\ Shape(Key, NULL, LinksOf(st), UsedOf(st), m, rk, h)

\* Step i leads from V[i - 1] to V[i].
Leads(n, V, next) == \A i \in 1..n : \A x \in V[i - 1] : next[i][x] \in V[i]

\* g holds what n steps make, from a on.
Made(g, n, V, aa, next) ==
  /\ g = [i \in 0..n |-> g[i]] /\ g[0] = aa
  /\ \A i \in 0..n : g[i] \in V[i]
  /\ \A i \in 1..n : g[i] = next[i][g[i - 1]]

\* What is made in n steps, each from what V holds then, is there, and V holds it.
LEMMA StepsExist ==
  ASSUME NEW n \in Nat, NEW V, NEW aa \in V[0], NEW next, Leads(n, V, next)
  PROVE  \E g : Made(g, n, V, aa, next)
<1> DEFINE Goes(g, m) == /\ g = [i \in 0..m |-> g[i]] /\ g[0] = aa
                         /\ \A i \in 0..m : g[i] \in V[i]
                         /\ \A i \in 1..m : g[i] = next[i][g[i - 1]]
           T == {m \in Nat : m <= n => \E g : Goes(g, m)}
<1>1. 0 \in T
  <2>1. PICK g : g = [i \in 0..0 |-> aa]
    OBVIOUS
  <2>2. Goes(g, 0)
    BY <2>1
  <2> HIDE DEF Goes
  <2> QED
    BY <2>2
<1>2. ASSUME NEW m \in Nat, m \in T PROVE m + 1 \in T
  <2> SUFFICES ASSUME m + 1 <= n PROVE \E g : Goes(g, m + 1)
    OBVIOUS
  <2>1. PICK g : Goes(g, m)
    BY <1>2
  <2>2. PICK f : f = [i \in 0..(m + 1) |-> IF i = m + 1 THEN next[m + 1][g[m]] ELSE g[i]]
    OBVIOUS
  <2>3. \A i \in 0..m : f[i] = g[i] /\ g[i] \in V[i]
    BY <2>1, <2>2
  <2>4. f[m + 1] = next[m + 1][f[m]] /\ f[0] = aa
    BY <2>1, <2>2, <2>3
  <2>5. m + 1 \in 1..n /\ (m + 1) - 1 = m /\ f[m] \in V[m]
    BY <2>3
  <2>6. f[m + 1] \in V[m + 1]
    BY <2>4, <2>5 DEF Leads
  <2>7. ASSUME NEW i \in 1..(m + 1) PROVE f[i] = next[i][f[i - 1]]
    <3>1. CASE i = m + 1
      BY <2>4, <3>1
    <3>2. CASE i # m + 1
      <4>1. i \in 1..m /\ i \in 0..m /\ i - 1 \in 0..m
        BY <3>2
      <4> QED
        BY <2>1, <2>3, <4>1
    <3> QED
      BY <3>1, <3>2
  <2>8. \A i \in 0..(m + 1) : i \in 0..m \/ i = m + 1
    OBVIOUS
  <2>9. f = [i \in 0..(m + 1) |-> f[i]]
    BY <2>2
  <2>10. Goes(f, m + 1)
    BY <2>3, <2>4, <2>6, <2>7, <2>8, <2>9
  <2> HIDE DEF Goes
  <2> QED
    BY <2>10
<1> HIDE DEF T, Goes
<1>3. Nat \subseteq T
  BY <1>1, <1>2, SetInduction
<1>4. \E g : Goes(g, n)
  BY <1>3 DEF T
<1> QED
  BY <1>4 DEF Goes, Made

\* What holds at first, and of each step when it holds before it, holds of all.
LEMMA StepsStay ==
  ASSUME NEW n \in Nat, NEW V, NEW f, f[0] \in V[0],
         \A i \in 1..n : f[i - 1] \in V[i - 1] => f[i] \in V[i]
  PROVE  \A i \in 0..n : f[i] \in V[i]
<1> DEFINE T == {m \in Nat : m <= n => f[m] \in V[m]}
<1>1. 0 \in T
  OBVIOUS
<1>2. ASSUME NEW m \in Nat, m \in T PROVE m + 1 \in T
  <2>1. m + 1 <= n => m + 1 \in 1..n /\ (m + 1) - 1 = m /\ m <= n
    OBVIOUS
  <2> QED
    BY <1>2, <2>1
<1> HIDE DEF T
<1>3. Nat \subseteq T
  BY <1>1, <1>2, SetInduction
<1> QED
  BY <1>3 DEF T

\* There are finitely many keys, and they can be counted.
LEMMA KeysFinite ==
  /\ IsFiniteSet(Key) /\ Keys \in Nat /\ NULL \notin Key /\ ExistsBijection(1..Keys, Key)
BY RegistryAssumption, FS_CardinalityType DEF Keys

\* The links of a registry, key by key.
LEMMA LinksAre ==
  ASSUME NEW st \in [Key -> KeyRec]
  PROVE  /\ LinksTyped(Key, NULL, LinksOf(st))
         /\ \A k \in Key : /\ LinksOf(st).last[k] = st[k].last /\ LinksOf(st).next[k] = st[k].next
                           /\ LinksOf(st).prev[k] = st[k].prev /\ LinksOf(st).parent[k] = st[k].parent
<1>1. DOMAIN st = Key
  OBVIOUS
<1>2. \A k \in Key : /\ st[k].last \in Key \cup {NULL} /\ st[k].next \in Key \cup {NULL}
                     /\ st[k].prev \in Key \cup {NULL} /\ st[k].parent \in Key \cup {NULL}
  BY DEF KeyRec
<1> QED
  BY <1>1, <1>2 DEF LinksTyped, LinkSet, LinksOf
-----------------------------------------------------------------------------
(***************************************************************************)
(* The children of a key.                                                  *)
(***************************************************************************)
\* s goes from the key's Last along Next.
ReadOf(st, o, s) ==
  Len(s) # 0 => s[1] = st[o].last /\ \A i \in 2..Len(s) : s[i] = st[s[i - 1]].next

LEMMA KidsAre ==
  ASSUME NEW st \in [Key -> KeyRec], NEW rk, Ringed(Key, NULL, LinksOf(st), rk), NEW o \in Key,
         NEW K, K = KidsOf(Key, LinksOf(st), o), NEW s, s = Kids(st, o)
  PROVE  /\ s \in Seq(K) /\ Len(s) = Cardinality(K) /\ Len(s) \in Nat
         /\ \A k \in K : \E i \in 1..Len(s) : s[i] = k
         /\ \A i, j \in 1..Len(s) : s[i] = s[j] => i = j
         /\ ReadOf(st, o, s)
<1> DEFINE q == LinksOf(st)
           C(k) == Cardinality(LowerKids(Key, q, rk, k))
<1>1. /\ LinksTyped(Key, NULL, q)
      /\ \A k \in Key : /\ q.last[k] = st[k].last /\ q.next[k] = st[k].next
                        /\ q.prev[k] = st[k].prev /\ q.parent[k] = st[k].parent
  BY LinksAre
<1> HIDE DEF q
<1>6. K = KidsOf(Key, q, o) /\ K \subseteq Key
  BY DEF KidsOf, q
<1>2. K = KidsOf(Key, q, o) /\ K = {k \in Key : st[k].parent = o}
  BY <1>1, <1>6 DEF KidsOf
<1>3. Ringed(Key, NULL, q, rk) /\ IsFiniteSet(Key) /\ NULL \notin Key
  BY KeysFinite DEF q
<1>4. CASE st[o].last = NULL
  <2>1. s = << >>
    BY <1>4 DEF Kids
  <2>2. K = {}
    BY <1>1, <1>2, <1>3, <1>4 DEF Ringed, RoundTrips
  <2>3. Cardinality(K) = 0
    BY <2>2, FS_EmptySet
  <2> QED
    BY <2>1, <2>2, <2>3 DEF ReadOf
<1>5. CASE st[o].last # NULL
  <2> DEFINE l == st[o].last
  <2>0. PICK n : n = Cardinality(K)
    OBVIOUS
  <2>1. l \in Key /\ l \in K /\ q.last[o] = l
    <3>1. l \in Key
      BY <1>5 DEF KeyRec
    <3> QED
      BY <1>1, <1>2, <1>3, <1>5, <3>1 DEF Ringed, LastsIn
  <2>2. \A k \in K : q.next[k] \in K
    <3> SUFFICES ASSUME NEW k \in K PROVE q.next[k] \in K
      OBVIOUS
    <3>1. k \in Key /\ q.parent[k] = o /\ o # NULL
      BY <1>1, <1>2, <1>3
    <3>2. q.next[k] # NULL /\ q.parent[q.next[k]] = o /\ q.next[k] \in Key \cup {NULL}
      BY <1>1, <1>3, <3>1 DEF Ringed, RoundTrips, LinksTyped, LinkSet
    <3> QED
      BY <1>1, <1>2, <3>2
  <2>3. /\ n \in Nat
        /\ \A k \in K : /\ C(k) \in 0..(n - 1)
                        /\ k = l => C(k) = n - 1 /\ C(q.next[k]) = 0
                        /\ k # l => C(q.next[k]) = C(k) + 1
    <3>1. /\ Cardinality(KidsOf(Key, q, o)) \in Nat
          /\ \A k \in KidsOf(Key, q, o) :
               /\ C(k) \in 0..(Cardinality(KidsOf(Key, q, o)) - 1)
               /\ k = q.last[o] => /\ C(k) = Cardinality(KidsOf(Key, q, o)) - 1
                                   /\ C(q.next[k]) = 0
               /\ k # q.last[o] => C(q.next[k]) = C(k) + 1
      BY <1>3, RingPlaces
    <3> HIDE DEF C
    <3> QED
      BY <1>2, <2>0, <2>1, <3>1
  <2>4. \A j, k \in K : C(j) = C(k) => j = k
    BY <1>6, <1>3, RingPlace
  <2> HIDE DEF C
  <2>5. n \in Nat /\ n > 0 /\ n <= Keys /\ Keys \in Nat
    <3> HIDE DEF l
    <3>1. C(l) \in 0..(n - 1)
      BY <2>1, <2>3
    <3>2. n # 0
      BY <2>3, <3>1
    <3>3. K \in SUBSET Key
      BY <1>2
    <3>4. Cardinality(K) <= Cardinality(Key)
      BY <1>3, <3>3, FS_Subset, Zenon
    <3> QED
      BY <2>0, <2>3, <3>2, <3>4, KeysFinite DEF Keys
  <2> DEFINE E(g) == [i \in 1..Cardinality(Key) |-> IF i = 1 THEN st[o].last ELSE st[g[i - 1]].next]
             at == CHOOSE g : g = E(g)
  <2>6. \E g : g = E(g)
    <3> DEFINE f == WalkOf(l, q.next, Keys)
               g == [i \in 1..Keys |-> f[i - 1]]
    <3>1. f \in [0..Keys -> K] /\ f[0] = l /\ GoesOn(f, q.next, 0, Keys)
      <4> HIDE DEF l
      <4>1. \A k \in K : Keys # 0 => q.next[k] \in K
        BY <2>2
      <4>2. Keys \in Nat /\ l \in K
        BY <2>1, <2>5
      <4> QED
        BY <4>1, <4>2, WalkStays
    <3> HIDE DEF f
    <3>2. ASSUME NEW i \in 1..Keys PROVE g[i] = IF i = 1 THEN st[o].last ELSE st[g[i - 1]].next
      <4>1. CASE i = 1
        BY <3>1, <4>1
      <4>2. CASE i # 1
        <5>1. i - 1 \in 1..Keys /\ i - 1 \in (0 + 1)..Keys /\ g[i - 1] = f[i - 2] /\ g[i] = f[i - 1]
          BY <2>5, <4>2
        <5>2. f[i - 1] = q.next[f[(i - 1) - 1]]
          BY <3>1, <5>1 DEF GoesOn
        <5>3. (i - 1) - 1 = i - 2 /\ f[i - 2] \in Key
          BY <1>2, <2>5, <3>1, <4>2
        <5> QED
          BY <1>1, <4>2, <5>1, <5>2, <5>3
      <4> QED
        BY <4>1, <4>2
    <3>3. g = E(g)
      BY <3>2 DEF Keys
    <3> QED
      BY <3>3
  <2>7. at = E(at)
    <3> HIDE DEF E
    <3> QED
      BY <2>6
  <2>8. /\ at[1] = l
        /\ \A i \in 2..Keys : at[i] = st[at[i - 1]].next
    <3>1. \A i \in 1..Keys : at[i] = IF i = 1 THEN st[o].last ELSE st[at[i - 1]].next
      BY <2>7 DEF Keys
    <3> HIDE DEF at
    <3> QED
      BY <2>5, <3>1
  <2> DEFINE IsEnd(i) == /\ st[at[i]].next = at[1] /\ \A j \in 1..(i - 1) : st[at[j]].next # at[1]
  <2>9. s = [i \in 1..(CHOOSE i \in 1..Keys : IsEnd(i)) |-> at[i]]
    BY <1>5 DEF Kids, Keys
  <2> HIDE DEF at, l
  <2>10. \A i \in 1..Keys : at[i] \in K /\ (i <= n => C(at[i]) = IF i = 1 THEN n - 1 ELSE i - 2)
    <3> DEFINE T == {i \in Nat : i + 1 <= Keys =>
                       /\ at[i + 1] \in K
                       /\ i + 1 <= n => C(at[i + 1]) = IF i + 1 = 1 THEN n - 1 ELSE (i + 1) - 2}
    <3>1. 0 \in T
      BY <2>1, <2>3, <2>8
    <3>2. ASSUME NEW i \in Nat, i \in T PROVE i + 1 \in T
      <4> SUFFICES ASSUME (i + 1) + 1 <= Keys
                   PROVE  /\ at[(i + 1) + 1] \in K
                          /\ (i + 1) + 1 <= n => C(at[(i + 1) + 1]) = ((i + 1) + 1) - 2
        BY <2>5
      <4>1. at[i + 1] \in K /\ (i + 1 <= n => C(at[i + 1]) = IF i + 1 = 1 THEN n - 1 ELSE (i + 1) - 2)
        BY <2>5, <3>2
      <4>2. at[(i + 1) + 1] = q.next[at[i + 1]]
        <5>1. (i + 1) + 1 \in 2..Keys /\ ((i + 1) + 1) - 1 = i + 1
          BY <2>5
        <5>2. at[(i + 1) + 1] = st[at[i + 1]].next
          BY <2>8, <5>1
        <5> QED
          BY <1>1, <1>2, <4>1, <5>2
      <4>3. at[(i + 1) + 1] \in K
        BY <2>2, <4>1, <4>2
      <4>4. ASSUME (i + 1) + 1 <= n PROVE C(at[(i + 1) + 1]) = ((i + 1) + 1) - 2
        <5>1. CASE i = 0
          <6>1. at[i + 1] = l
            BY <2>8, <5>1
          <6> QED
            BY <2>3, <4>1, <4>2, <5>1, <6>1
        <5>2. CASE i # 0
          <6>1. C(at[i + 1]) = i - 1
            BY <2>3, <4>1, <4>4, <5>2
          <6>2. at[i + 1] # l
            BY <2>1, <2>3, <4>4, <6>1
          <6> QED
            BY <2>3, <4>1, <4>2, <6>1, <6>2
        <5> QED
          BY <5>1, <5>2
      <4> QED
        BY <4>3, <4>4
    <3> HIDE DEF T
    <3>3. Nat \subseteq T
      BY <3>1, <3>2, SetInduction
    <3> SUFFICES ASSUME NEW i \in 1..Keys
                 PROVE  at[i] \in K /\ (i <= n => C(at[i]) = IF i = 1 THEN n - 1 ELSE i - 2)
      OBVIOUS
    <3>4. i - 1 \in T /\ i - 1 \in Nat /\ (i - 1) + 1 = i
      BY <2>5, <3>3
    <3> QED
      BY <3>4 DEF T
  <2>11. \A i \in 1..n : st[at[i]].next = at[1] <=> i = n
    <3> SUFFICES ASSUME NEW i \in 1..n PROVE st[at[i]].next = l <=> i = n
      BY <2>8
    <3>1. i \in 1..Keys /\ at[i] \in K /\ C(at[i]) = IF i = 1 THEN n - 1 ELSE i - 2
      BY <2>3, <2>5, <2>10
    <3>2. st[at[i]].next = q.next[at[i]] /\ q.next[at[i]] \in K
      BY <1>1, <1>2, <2>2, <3>1
    <3>3. C(q.next[at[i]]) = i - 1
      <4>1. CASE i = 1
        <5>1. at[i] = l
          BY <2>8, <4>1
        <5> QED
          BY <2>3, <3>1, <4>1, <5>1
      <4>2. CASE i # 1
        <5>1. at[i] # l
          BY <2>1, <2>3, <3>1, <4>2
        <5> QED
          BY <2>3, <3>1, <4>2, <5>1
      <4> QED
        BY <4>1, <4>2
    <3>4. C(l) = n - 1
      BY <2>1, <2>3
    <3> QED
      BY <2>1, <2>3, <2>4, <3>2, <3>3, <3>4
  <2>12. (CHOOSE i \in 1..Keys : IsEnd(i)) = n
    <3>1. n \in 1..Keys /\ IsEnd(n)
      BY <2>3, <2>5, <2>11
    <3>2. ASSUME NEW i \in 1..Keys, IsEnd(i) PROVE i = n
      <4>1. CASE i > n
        <5>1. n \in 1..(i - 1) /\ n \in 1..n
          BY <2>3, <2>5, <4>1
        <5> QED
          BY <2>11, <3>2, <5>1
      <4>2. CASE i <= n
        BY <2>3, <2>5, <2>11, <3>2, <4>2
      <4> QED
        BY <2>3, <4>1, <4>2
    <3> HIDE DEF IsEnd
    <3> QED
      BY <3>1, <3>2
  <2>13. s = [i \in 1..n |-> at[i]]
    BY <2>9, <2>12
  <2>14. \A i \in 1..n : at[i] \in K /\ C(at[i]) = IF i = 1 THEN n - 1 ELSE i - 2
    BY <2>3, <2>5, <2>10
  <2>15. s \in Seq(K) /\ Len(s) = n /\ \A i \in 1..n : s[i] = at[i]
    BY <2>3, <2>13, <2>14
  <2>16. ASSUME NEW i \in 1..n, NEW j \in 1..n, s[i] = s[j] PROVE i = j
    <3>1. at[i] = at[j]
      BY <2>15, <2>16
    <3>2. (IF i = 1 THEN n - 1 ELSE i - 2) = (IF j = 1 THEN n - 1 ELSE j - 2)
      BY <2>14, <3>1
    <3> QED
      BY <2>5, <3>2
  <2>17. ASSUME NEW k \in K PROVE \E i \in 1..n : s[i] = k
    <3>1. C(k) \in 0..(n - 1)
      BY <2>3
    <3> DEFINE i == IF C(k) = n - 1 THEN 1 ELSE C(k) + 2
    <3>2. i \in 1..n /\ C(at[i]) = C(k)
      BY <2>3, <2>5, <2>14, <3>1
    <3>3. s[i] = k
      BY <2>4, <2>14, <2>15, <3>2
    <3> QED
      BY <3>2, <3>3
  <2>18. ReadOf(st, o, s)
    <3>1. s[1] = st[o].last
      BY <2>5, <2>8, <2>15 DEF l
    <3>2. ASSUME NEW i \in 2..n PROVE s[i] = st[s[i - 1]].next
      <4>1. i \in 2..Keys /\ i \in 1..n /\ i - 1 \in 1..n
        BY <2>5
      <4> QED
        BY <2>8, <2>15, <4>1
    <3> QED
      BY <2>15, <3>1, <3>2 DEF ReadOf
  <2> QED
    BY <2>0, <2>5, <2>15, <2>16, <2>17, <2>18
<1> QED
  BY <1>4, <1>5
-----------------------------------------------------------------------------
(***************************************************************************)
(* What is below a key.                                                    *)
(***************************************************************************)
\* The depths of the keys, which are fewer than the keys.
Graded(st, h) ==
  /\ h \in [Key -> Nat]
  /\ \A k \in Key : st[k].used /\ st[k].parent \in Key =>
       h[k] = h[st[k].parent] + 1 /\ h[k] < Keys

\* What Shape says of the records.
LEMMA ShapedIs ==
  ASSUME NEW st, NEW m, NEW rk, NEW h, Shaped(st, m, rk, h)
  PROVE  /\ st \in [Key -> KeyRec] /\ Ringed(Key, NULL, LinksOf(st), rk)
         /\ m \in Key /\ st[m].used /\ st[m].parent = NULL
         /\ \A k \in Key : st[k].parent # NULL => /\ st[k].used /\ st[k].parent \in Key
                                                  /\ st[st[k].parent].used
                                                  /\ h[k] = h[st[k].parent] + 1
         /\ \A k \in Key : st[k].used /\ k # m => st[k].parent # NULL
         /\ h \in [Key -> Nat] /\ h[m] = 0
         /\ \A k \in Key : st[k].parent \in Key \cup {NULL}
         /\ st[m].next = NULL /\ st[m].prev = NULL
<1> DEFINE q == LinksOf(st)
<1>1. /\ st \in [Key -> KeyRec]
      /\ \A k \in Key : /\ q.parent[k] = st[k].parent /\ q.next[k] = st[k].next
                        /\ q.prev[k] = st[k].prev
  BY LinksAre DEF Shaped
<1>2. /\ Ringed(Key, NULL, q, rk) /\ UsedOf(st) \subseteq Key /\ m \in UsedOf(st) /\ q.parent[m] = NULL
      /\ \A k \in Key : q.parent[k] # NULL => k \in UsedOf(st) /\ q.parent[k] \in UsedOf(st)
      /\ \A k \in UsedOf(st) : k # m => q.parent[k] # NULL
      /\ q.next[m] = NULL /\ q.prev[m] = NULL
      /\ h \in [Key -> Nat] /\ h[m] = 0
      /\ \A k \in Key : q.parent[k] # NULL => h[k] = h[q.parent[k]] + 1
  BY DEF Shaped, Shape
<1>3. \A k \in Key : k \in UsedOf(st) <=> st[k].used
  BY DEF UsedOf
<1>4. \A k \in Key : st[k].parent \in Key \cup {NULL}
  BY <1>1 DEF KeyRec
<1> HIDE DEF q
<1>5. m \in Key /\ st[m].used /\ st[m].parent = NULL
  BY <1>1, <1>2, <1>3
<1>6. \A k \in Key : st[k].parent # NULL => /\ st[k].used /\ st[k].parent \in Key
                                            /\ st[st[k].parent].used
                                            /\ h[k] = h[st[k].parent] + 1
  BY <1>1, <1>2, <1>3
<1>7. \A k \in Key : st[k].used /\ k # m => st[k].parent # NULL
  BY <1>1, <1>2, <1>3
<1> QED
  BY <1>1, <1>2, <1>4, <1>5, <1>6, <1>7 DEF q

\* In a tree every key is deeper than its parent, and none so deep as there are keys.
LEMMA ShapedGraded ==
  ASSUME NEW st, NEW m, NEW rk, NEW h, Shaped(st, m, rk, h)
  PROVE  Graded(st, h) /\ \A k \in Key : st[k].used => h[k] < Keys
<1> DEFINE T == {n \in Nat : \A k \in Key : st[k].used /\ h[k] = n =>
                   \E f \in [0..n -> Key] : \A j \in 0..n : h[f[j]] = j}
<1>1. /\ h \in [Key -> Nat] /\ h[m] = 0 /\ NULL \notin Key
      /\ \A k \in Key : st[k].parent # NULL => /\ st[k].used /\ st[k].parent \in Key
                                               /\ st[st[k].parent].used
                                               /\ h[k] = h[st[k].parent] + 1
      /\ \A k \in Key : st[k].used /\ k # m => st[k].parent # NULL
  BY ShapedIs, KeysFinite
<1>2. 0 \in T
  <2> SUFFICES ASSUME NEW k \in Key, h[k] = 0
               PROVE  \E f \in [0..0 -> Key] : \A j \in 0..0 : h[f[j]] = j
    OBVIOUS
  <2>1. [j \in 0..0 |-> k] \in [0..0 -> Key] /\ \A j \in 0..0 : h[[i \in 0..0 |-> k][j]] = j
    OBVIOUS
  <2> QED
    BY <2>1
<1>3. ASSUME NEW n \in Nat, n \in T PROVE n + 1 \in T
  <2> SUFFICES ASSUME NEW k \in Key, st[k].used, h[k] = n + 1
               PROVE  \E f \in [0..(n + 1) -> Key] : \A j \in 0..(n + 1) : h[f[j]] = j
    OBVIOUS
  <2>1. k # m /\ st[k].parent \in Key /\ st[st[k].parent].used /\ h[st[k].parent] = n
    BY <1>1
  <2>2. PICK f \in [0..n -> Key] : \A j \in 0..n : h[f[j]] = j
    BY <1>3, <2>1
  <2> DEFINE g == [j \in 0..(n + 1) |-> IF j = n + 1 THEN k ELSE f[j]]
  <2>3. g \in [0..(n + 1) -> Key] /\ \A j \in 0..(n + 1) : h[g[j]] = j
    BY <2>2
  <2> QED
    BY <2>3
<1> HIDE DEF T
<1>4. Nat \subseteq T
  BY <1>2, <1>3, SetInduction
<1>5. ASSUME NEW k \in Key, st[k].used PROVE h[k] < Keys
  <2>1. PICK n \in Nat : n = h[k]
    BY <1>1
  <2>2. PICK f \in [0..n -> Key] : \A j \in 0..n : h[f[j]] = j
    BY <1>4, <1>5, <2>1 DEF T
  <2>3. \A i, j \in 0..n : f[i] = f[j] => i = j
    BY <2>2
  <2>4. f \in Injection(0..n, Key)
    BY <2>3 DEF Injection, IsInjective
  <2>5. Cardinality(0..n) <= Cardinality(Key)
    BY <2>4, KeysFinite, FS_Injection
  <2>6. 0 \in Int /\ n \in Int
    OBVIOUS
  <2>7. Cardinality(0..n) = IF 0 > n THEN 0 ELSE n - 0 + 1
    BY <2>6, FS_Interval
  <2> QED
    BY <2>1, <2>5, <2>7, KeysFinite DEF Keys
<1>6. \A k \in Key : st[k].used /\ st[k].parent \in Key =>
        h[k] = h[st[k].parent] + 1 /\ h[k] < Keys
  BY <1>1, <1>5
<1> QED
  BY <1>1, <1>5, <1>6 DEF Graded

\* Below gathers the descendants of a key: the least set that holds it and the children of all it
\* holds.
LEMMA BelowIs ==
  ASSUME NEW st, NEW h, Graded(st, h), NEW o \in Key, NEW B, B = Below(st, o)
  PROVE  /\ B \subseteq Key /\ o \in B
         /\ \A k \in Key : st[k].used /\ st[k].parent \in B => k \in B
         /\ \A S : o \in S /\ (\A k \in Key : st[k].used /\ st[k].parent \in S => k \in S) => B \subseteq S
<1> DEFINE Widened(D) == D \cup {k \in Key : st[k].used /\ st[k].parent \in D}
           E(g) == [n \in 0..Cardinality(Key) |-> IF n = 0 THEN {o} ELSE
                      g[n - 1] \cup {k \in Key : st[k].used /\ st[k].parent \in g[n - 1]}]
           Sub == CHOOSE g : g = E(g)
           Follows(g, n) == g = [k \in 0..n |-> IF k = 0 THEN {o} ELSE Widened(g[k - 1])]
           T == {n \in Nat : \E g : Follows(g, n)}
<1>1. Keys \in Nat
  BY KeysFinite
<1>2. \E g : g = E(g)
  <2> HIDE DEF Widened
  <2>1. 0 \in T
    <3>1. Follows([k \in 0..0 |-> {o}], 0)
      OBVIOUS
    <3> QED
      BY <3>1
  <2>2. ASSUME NEW n \in Nat, n \in T PROVE n + 1 \in T
    <3>1. PICK g : Follows(g, n)
      BY <2>2
    <3> DEFINE f == [k \in 0..(n + 1) |-> IF k = n + 1 THEN Widened(g[n]) ELSE g[k]]
    <3>2. ASSUME NEW k \in 0..(n + 1) PROVE f[k] = IF k = 0 THEN {o} ELSE Widened(f[k - 1])
      <4>1. CASE k = 0
        BY <3>1, <4>1
      <4>2. CASE k # 0
        <5>1. k - 1 \in 0..n /\ f[k - 1] = g[k - 1]
          BY <4>2
        <5>2. CASE k = n + 1
          BY <5>1, <5>2
        <5>3. CASE k # n + 1
          <6>1. k \in 0..n /\ f[k] = g[k]
            BY <5>3
          <6>2. g[k] = Widened(g[k - 1])
            BY <3>1, <4>2, <6>1
          <6> QED
            BY <4>2, <5>1, <6>1, <6>2
        <5> QED
          BY <5>2, <5>3
      <4> QED
        BY <4>1, <4>2
    <3>3. f = [k \in 0..(n + 1) |-> f[k]]
      OBVIOUS
    <3> HIDE DEF f
    <3>4. Follows(f, n + 1)
      BY <3>2, <3>3
    <3> HIDE DEF Follows
    <3> QED
      BY <3>4
  <2>3. PICK g : Follows(g, Keys)
    <3> HIDE DEF T, Follows
    <3>1. Nat \subseteq T
      BY <2>1, <2>2, SetInduction
    <3> QED
      BY <1>1, <3>1 DEF T
  <2>4. g = E(g)
    BY <2>3 DEF Keys, Widened
  <2> QED
    BY <2>4
<1>3. Sub = E(Sub)
  <2> HIDE DEF E
  <2> QED
    BY <1>2
<1>4. /\ Sub[0] = {o}
      /\ \A n \in 1..Keys : Sub[n] = Widened(Sub[n - 1])
  <2>1. \A n \in 0..Keys : Sub[n] = IF n = 0 THEN {o} ELSE Widened(Sub[n - 1])
    BY <1>3 DEF Keys
  <2> HIDE DEF Sub, Widened
  <2> QED
    BY <1>1, <2>1
<1>5. B = Sub[Keys]
  BY DEF Below, Keys
<1> HIDE DEF Sub
<1>6. \A n \in 0..Keys : o \in Sub[n] /\ Sub[n] \subseteq Key
  <2> DEFINE V == {n \in Nat : n <= Keys => o \in Sub[n] /\ Sub[n] \subseteq Key}
  <2>1. 0 \in V
    BY <1>4
  <2>2. ASSUME NEW n \in Nat, n \in V PROVE n + 1 \in V
    <3> SUFFICES ASSUME n + 1 <= Keys PROVE o \in Sub[n + 1] /\ Sub[n + 1] \subseteq Key
      OBVIOUS
    <3>1. n + 1 \in 1..Keys /\ (n + 1) - 1 = n /\ n <= Keys
      BY <1>1
    <3>2. Sub[n + 1] = Widened(Sub[n])
      BY <1>4, <3>1
    <3> QED
      BY <2>2, <3>1, <3>2
  <2> HIDE DEF V
  <2>3. Nat \subseteq V
    BY <2>1, <2>2, SetInduction
  <2> QED
    BY <1>1, <2>3 DEF V
<1>7. ASSUME NEW i \in 0..Keys, NEW x \in Sub[i] PROVE \A n \in 0..Keys : i <= n => x \in Sub[n]
  <2> DEFINE V == {n \in Nat : i <= n /\ n <= Keys => x \in Sub[n]}
  <2>1. 0 \in V
    BY <1>7
  <2>2. ASSUME NEW n \in Nat, n \in V PROVE n + 1 \in V
    <3> SUFFICES ASSUME i <= n + 1, n + 1 <= Keys PROVE x \in Sub[n + 1]
      OBVIOUS
    <3>1. n + 1 \in 1..Keys /\ (n + 1) - 1 = n /\ n <= Keys
      BY <1>1
    <3>2. Sub[n + 1] = Widened(Sub[n])
      BY <1>4, <3>1
    <3>3. CASE i = n + 1
      BY <1>7, <3>3
    <3>4. CASE i # n + 1
      BY <2>2, <3>1, <3>2, <3>4
    <3> QED
      BY <3>3, <3>4
  <2> HIDE DEF V
  <2>3. Nat \subseteq V
    BY <2>1, <2>2, SetInduction
  <2> QED
    BY <1>1, <2>3 DEF V
<1>8. \A n \in 0..Keys : \A x \in Sub[n] :
        h[x] >= h[o] /\ h[x] - h[o] <= n /\ x \in Sub[h[x] - h[o]]
  <2> DEFINE V == {n \in Nat : n <= Keys => \A x \in Sub[n] :
                     h[x] >= h[o] /\ h[x] - h[o] <= n /\ x \in Sub[h[x] - h[o]]}
  <2>0. h \in [Key -> Nat]
    BY DEF Graded
  <2>1. 0 \in V
    BY <1>4, <2>0
  <2>2. ASSUME NEW n \in Nat, n \in V PROVE n + 1 \in V
    <3> SUFFICES ASSUME n + 1 <= Keys, NEW x \in Sub[n + 1]
                 PROVE  h[x] >= h[o] /\ h[x] - h[o] <= n + 1 /\ x \in Sub[h[x] - h[o]]
      OBVIOUS
    <3>1. n + 1 \in 1..Keys /\ (n + 1) - 1 = n /\ n <= Keys /\ n \in 0..Keys /\ n + 1 \in 0..Keys
      BY <1>1
    <3>2. Sub[n + 1] = Widened(Sub[n]) /\ x \in Key
      BY <1>4, <1>6, <3>1
    <3>3. CASE x \in Sub[n]
      <4>1. h[x] >= h[o] /\ h[x] - h[o] <= n /\ x \in Sub[h[x] - h[o]]
        BY <2>2, <3>1, <3>3
      <4> QED
        BY <2>0, <3>2, <4>1
    <3>4. CASE x \notin Sub[n]
      <4>1. st[x].used /\ st[x].parent \in Sub[n] /\ st[x].parent \in Key
        BY <1>6, <3>1, <3>2, <3>4
      <4>2. PICK p \in Key : p = st[x].parent
        BY <4>1
      <4>3. h[p] >= h[o] /\ h[p] - h[o] <= n /\ p \in Sub[h[p] - h[o]]
        BY <2>2, <3>1, <4>1, <4>2
      <4>4. h[x] = h[p] + 1 /\ h[x] < Keys
        BY <3>2, <4>1, <4>2 DEF Graded
      <4>5. PICK j \in Nat : j = h[p] - h[o]
        BY <2>0, <4>3
      <4>6. h[x] - h[o] = j + 1 /\ j + 1 \in 1..Keys /\ (j + 1) - 1 = j /\ h[x] >= h[o] /\ j <= n
        BY <1>1, <2>0, <4>3, <4>4, <4>5
      <4>7. Sub[j + 1] = Widened(Sub[j])
        BY <1>4, <4>6
      <4>8. x \in Sub[j + 1]
        BY <3>2, <4>1, <4>2, <4>3, <4>5, <4>7
      <4> QED
        BY <4>6, <4>8
    <3> QED
      BY <3>3, <3>4
  <2> HIDE DEF V
  <2>3. Nat \subseteq V
    BY <2>1, <2>2, SetInduction
  <2> QED
    BY <1>1, <2>3 DEF V
<1>9. B \subseteq Key /\ o \in B
  BY <1>1, <1>5, <1>6
<1>10. ASSUME NEW k \in Key, st[k].used, st[k].parent \in B PROVE k \in B
  <2>1. PICK p \in Key : p = st[k].parent
    BY <1>9, <1>10
  <2>2. h[p] >= h[o] /\ p \in Sub[h[p] - h[o]]
    BY <1>1, <1>5, <1>8, <1>10, <2>1
  <2>3. h[k] = h[p] + 1 /\ h[k] < Keys /\ h \in [Key -> Nat]
    BY <1>10, <2>1 DEF Graded
  <2>4. PICK j \in Nat : j = h[p] - h[o]
    BY <2>2, <2>3
  <2>5. j + 1 \in 1..Keys /\ (j + 1) - 1 = j
    BY <1>1, <2>2, <2>3, <2>4
  <2>6. Sub[j + 1] = Widened(Sub[j])
    BY <1>4, <2>5
  <2>7. k \in Sub[j + 1]
    BY <1>10, <2>1, <2>2, <2>4, <2>6
  <2>8. j + 1 \in 0..Keys /\ Keys \in 0..Keys /\ j + 1 <= Keys
    BY <1>1, <2>5
  <2>9. k \in Sub[Keys]
    BY <1>7, <2>7, <2>8
  <2> QED
    BY <1>5, <2>9
<1>11. ASSUME NEW S, o \in S, \A k \in Key : st[k].used /\ st[k].parent \in S => k \in S
       PROVE  B \subseteq S
  <2> DEFINE V == {n \in Nat : n <= Keys => Sub[n] \subseteq S}
  <2>1. 0 \in V
    BY <1>4, <1>11
  <2>2. ASSUME NEW n \in Nat, n \in V PROVE n + 1 \in V
    <3> SUFFICES ASSUME n + 1 <= Keys PROVE Sub[n + 1] \subseteq S
      OBVIOUS
    <3>1. n + 1 \in 1..Keys /\ (n + 1) - 1 = n /\ n <= Keys
      BY <1>1
    <3>2. Sub[n + 1] = Widened(Sub[n]) /\ Sub[n] \subseteq S
      BY <1>4, <2>2, <3>1
    <3> QED
      BY <1>11, <3>2
  <2> HIDE DEF V
  <2>3. Nat \subseteq V
    BY <2>1, <2>2, SetInduction
  <2> QED
    BY <1>1, <1>5, <2>3 DEF V
<1> QED
  BY <1>9, <1>10, <1>11

\* Every key that is not freed is below the root.
LEMMA AllBelow ==
  ASSUME NEW st, NEW m, NEW rk, NEW h, Shaped(st, m, rk, h)
  PROVE  UsedOf(st) = Below(st, m)
<1>1. /\ m \in Key /\ st[m].used /\ h \in [Key -> Nat] /\ NULL \notin Key
      /\ \A k \in Key : st[k].parent # NULL => /\ st[k].used /\ st[k].parent \in Key
                                               /\ st[st[k].parent].used
                                               /\ h[k] = h[st[k].parent] + 1
      /\ \A k \in Key : st[k].used /\ k # m => st[k].parent # NULL
  BY ShapedIs, KeysFinite
<1>2. PICK B : B = Below(st, m)
  OBVIOUS
<1>3. /\ B \subseteq Key /\ m \in B
      /\ \A k \in Key : st[k].used /\ st[k].parent \in B => k \in B
      /\ \A S : m \in S /\ (\A k \in Key : st[k].used /\ st[k].parent \in S => k \in S) => B \subseteq S
  <2>1. Graded(st, h)
    BY ShapedGraded
  <2> QED
    BY <1>1, <1>2, <2>1, BelowIs
<1>4. B \subseteq UsedOf(st)
  <2>1. m \in UsedOf(st) /\ \A k \in Key : st[k].used /\ st[k].parent \in UsedOf(st) => k \in UsedOf(st)
    BY <1>1 DEF UsedOf
  <2> QED
    BY <1>3, <2>1
<1>5. UsedOf(st) \subseteq B
  <2> DEFINE T == {n \in Nat : \A k \in Key : st[k].used /\ h[k] = n => k \in B}
  <2>1. 0 \in T
    <3> SUFFICES ASSUME NEW k \in Key, st[k].used, h[k] = 0 PROVE k \in B
      OBVIOUS
    <3>1. k # m => FALSE
      BY <1>1
    <3> QED
      BY <1>3, <3>1
  <2>2. ASSUME NEW n \in Nat, n \in T PROVE n + 1 \in T
    <3> SUFFICES ASSUME NEW k \in Key, st[k].used, h[k] = n + 1 PROVE k \in B
      OBVIOUS
    <3>1. CASE k = m
      BY <1>3, <3>1
    <3>2. CASE k # m
      <4>1. PICK x \in Key : x = st[k].parent
        BY <1>1, <3>2
      <4>2. st[x].used /\ h[x] = n
        BY <1>1, <3>2, <4>1
      <4>3. x \in B
        BY <2>2, <4>2
      <4> QED
        BY <1>3, <4>1, <4>3
    <3> QED
      BY <3>1, <3>2
  <2> HIDE DEF T
  <2>3. Nat \subseteq T
    BY <2>1, <2>2, SetInduction
  <2> SUFFICES ASSUME NEW k \in Key, st[k].used PROVE k \in B
    BY DEF UsedOf
  <2>4. h[k] \in T
    BY <1>1, <2>3
  <2> QED
    BY <2>4 DEF T
<1> QED
  BY <1>2, <1>4, <1>5

\* The neighbours of a key.
LEMMA ShapedRing ==
  ASSUME NEW st, NEW m, NEW rk, NEW h, Shaped(st, m, rk, h)
  PROVE  /\ \A k \in Key : st[k].last # NULL => st[k].last \in Key /\ st[st[k].last].parent = k
         /\ \A k \in Key : st[k].parent # NULL =>
              /\ st[k].next \in Key /\ st[st[k].next].parent = st[k].parent
              /\ st[st[k].next].prev = k
              /\ st[k].prev \in Key /\ st[st[k].prev].parent = st[k].parent
              /\ st[st[k].prev].next = k
              /\ st[st[k].parent].last # NULL
<1> DEFINE q == LinksOf(st)
<1>1. /\ st \in [Key -> KeyRec] /\ Ringed(Key, NULL, q, rk) /\ NULL \notin Key
      /\ \A k \in Key : st[k].parent # NULL => st[k].parent \in Key
  BY ShapedIs, KeysFinite
<1>2. /\ LinksTyped(Key, NULL, q)
      /\ \A k \in Key : /\ q.last[k] = st[k].last /\ q.next[k] = st[k].next
                        /\ q.prev[k] = st[k].prev /\ q.parent[k] = st[k].parent
  BY <1>1, LinksAre
<1> HIDE DEF q
<1>3. \A k \in Key : q.last[k] # NULL => q.last[k] \in Key /\ q.parent[q.last[k]] = k
  BY <1>1, <1>2 DEF Ringed, LastsIn, LinksTyped, LinkSet
<1>4. \A k \in Key : q.parent[k] # NULL =>
         /\ q.next[k] \in Key /\ q.parent[q.next[k]] = q.parent[k] /\ q.prev[q.next[k]] = k
         /\ q.prev[k] \in Key /\ q.parent[q.prev[k]] = q.parent[k] /\ q.next[q.prev[k]] = k
         /\ q.last[q.parent[k]] # NULL
  BY <1>1, <1>2 DEF Ringed, RoundTrips, LinksTyped, LinkSet
<1>5. ASSUME NEW k \in Key, st[k].last # NULL PROVE st[k].last \in Key /\ st[st[k].last].parent = k
  BY <1>2, <1>3, <1>5
<1>6. ASSUME NEW k \in Key, st[k].parent # NULL
      PROVE  /\ st[k].next \in Key /\ st[st[k].next].parent = st[k].parent
             /\ st[st[k].next].prev = k
             /\ st[k].prev \in Key /\ st[st[k].prev].parent = st[k].parent
             /\ st[st[k].prev].next = k
             /\ st[st[k].parent].last # NULL
  <2>1. q.parent[k] # NULL /\ st[k].parent \in Key
    BY <1>1, <1>2, <1>6
  <2> QED
    BY <1>2, <1>4, <2>1
<1> QED
  BY <1>5, <1>6

ChildrenOf(st, o) == {k \in Key : st[k].used /\ st[k].parent = o}

\* s lists K, each element once.
Once(s, K) ==
  /\ s \in Seq(K) /\ Len(s) \in Nat /\ {s[i] : i \in 1..Len(s)} = K
  /\ \A i, j \in 1..Len(s) : s[i] = s[j] => i = j

\* The children of a key of a registry of that shape.
LEMMA ShapedKids ==
  ASSUME NEW st, NEW m, NEW rk, NEW h, Shaped(st, m, rk, h), NEW o \in Key,
         NEW K, K = ChildrenOf(st, o), NEW s, s = Kids(st, o)
  PROVE  /\ s \in Seq(K) /\ Len(s) = Cardinality(K) /\ Len(s) \in Nat
         /\ \A k \in K : \E i \in 1..Len(s) : s[i] = k
         /\ \A i, j \in 1..Len(s) : s[i] = s[j] => i = j
         /\ {s[i] : i \in 1..Len(s)} = K /\ Once(s, K)
         /\ \A k \in K : st[st[k].next].prev = k
         /\ ReadOf(st, o, s)
<1>1. /\ st \in [Key -> KeyRec] /\ Ringed(Key, NULL, LinksOf(st), rk) /\ NULL \notin Key
      /\ \A k \in Key : st[k].parent # NULL => st[k].used
  BY ShapedIs, KeysFinite
<1>2. PICK C : C = KidsOf(Key, LinksOf(st), o)
  OBVIOUS
<1>3. C = K
  <2>1. \A k \in Key : LinksOf(st).parent[k] = st[k].parent
    BY <1>1, LinksAre
  <2>2. C = {k \in Key : st[k].parent = o} /\ K = {k \in Key : st[k].used /\ st[k].parent = o}
    BY <1>2, <2>1 DEF KidsOf, ChildrenOf
  <2> QED
    BY <1>1, <2>2
<1>4. /\ s \in Seq(C) /\ Len(s) = Cardinality(C) /\ Len(s) \in Nat
      /\ \A k \in C : \E i \in 1..Len(s) : s[i] = k
      /\ \A i, j \in 1..Len(s) : s[i] = s[j] => i = j
  BY <1>1, <1>2, KidsAre
<1>9. ReadOf(st, o, s)
  BY <1>1, <1>2, KidsAre
<1>5. (\A i \in 1..Len(s) : s[i] \in K) /\ K = {k \in Key : st[k].used /\ st[k].parent = o}
  BY <1>3, <1>4 DEF ChildrenOf
<1>6. {s[i] : i \in 1..Len(s)} = K
  BY <1>3, <1>4, <1>5
<1>7. ASSUME NEW k \in K PROVE st[st[k].next].prev = k
  <2>1. k \in Key /\ st[k].parent # NULL
    BY <1>1, <1>5
  <2> QED
    BY <2>1, ShapedRing
<1>8. Once(s, K)
  BY <1>3, <1>4, <1>6 DEF Once
<1> QED
  BY <1>3, <1>4, <1>6, <1>7, <1>8, <1>9

\* Where the links of the children of o are those of the children of e, under the map w, the
\* loops visit them in the same order.
LEMMA KidsMapped ==
  ASSUME NEW st, NEW m, NEW rk, NEW h, Shaped(st, m, rk, h), NEW o \in Key,
         NEW z, NEW y, NEW x, NEW g, Shaped(z, y, x, g), NEW e \in Key, NEW w,
         Cardinality(ChildrenOf(z, e)) = Cardinality(ChildrenOf(st, o)),
         st[o].last # NULL => z[e].last = w[st[o].last],
         \A k \in ChildrenOf(st, o) : z[w[k]].next = w[st[k].next],
         NEW s, s = Kids(st, o), NEW t, t = Kids(z, e)
  PROVE  Len(t) = Len(s) /\ \A i \in 1..Len(s) : t[i] = w[s[i]]
<1>1. PICK K : K = ChildrenOf(st, o)
  OBVIOUS
<1>2. PICK C : C = ChildrenOf(z, e)
  OBVIOUS
<1>3. PICK n : n = Len(s)
  OBVIOUS
<1>4. n = Cardinality(K) /\ n \in Nat /\ ReadOf(st, o, s)
  BY <1>1, <1>3, ShapedKids
<1>12. s \in Seq(K)
  BY <1>1, ShapedKids
<1>5. Len(t) = Cardinality(C) /\ ReadOf(z, e, t)
  BY <1>2, ShapedKids
<1>6. Len(t) = n
  BY <1>1, <1>2, <1>4, <1>5
<1>7. K \subseteq Key /\ NULL \notin Key /\ \A i \in 1..n : s[i] \in K
  BY <1>1, <1>3, <1>12, KeysFinite DEF ChildrenOf
<1> DEFINE T == {i \in Nat : i + 1 \in 1..n => t[i + 1] = w[s[i + 1]]}
<1>8. 0 \in T
  <2> SUFFICES ASSUME n # 0 PROVE t[1] = w[s[1]]
    BY <1>4
  <2>1. s[1] = st[o].last /\ t[1] = z[e].last /\ s[1] \in Key
    BY <1>3, <1>4, <1>5, <1>6, <1>7 DEF ReadOf
  <2> QED
    BY <1>7, <2>1
<1>9. ASSUME NEW i \in Nat, i \in T PROVE i + 1 \in T
  <2> SUFFICES ASSUME (i + 1) + 1 \in 1..n PROVE t[(i + 1) + 1] = w[s[(i + 1) + 1]]
    OBVIOUS
  <2>1. /\ i + 1 \in 1..n /\ (i + 1) + 1 \in 2..n /\ ((i + 1) + 1) - 1 = i + 1 /\ n # 0
    BY <1>4
  <2>2. t[i + 1] = w[s[i + 1]] /\ s[i + 1] \in K
    BY <1>7, <1>9, <2>1
  <2>3. s[(i + 1) + 1] = st[s[i + 1]].next /\ t[(i + 1) + 1] = z[t[i + 1]].next
    BY <1>3, <1>4, <1>5, <1>6, <2>1 DEF ReadOf
  <2> QED
    BY <1>1, <2>2, <2>3
<1> HIDE DEF T
<1>10. Nat \subseteq T
  BY <1>8, <1>9, SetInduction
<1>11. ASSUME NEW i \in 1..n PROVE t[i] = w[s[i]]
  <2>1. i - 1 \in Nat /\ (i - 1) + 1 = i /\ i - 1 \in T
    BY <1>4, <1>10
  <2> QED
    BY <2>1 DEF T
<1> QED
  BY <1>3, <1>6, <1>11

\* The children of a key keep their order when their links stay.
LEMMA KidsSame ==
  ASSUME NEW st, NEW m, NEW rk, NEW h, Shaped(st, m, rk, h), NEW o \in Key,
         NEW z, NEW y, NEW x, NEW g, Shaped(z, y, x, g),
         ChildrenOf(z, o) = ChildrenOf(st, o), z[o].last = st[o].last,
         \A k \in ChildrenOf(st, o) : z[k].next = st[k].next
  PROVE  Kids(z, o) = Kids(st, o)
<1>1. PICK w : w = [k \in Key |-> k]
  OBVIOUS
<1>2. PICK s : s = Kids(st, o)
  OBVIOUS
<1>3. PICK t : t = Kids(z, o)
  OBVIOUS
<1>4. PICK K : K = ChildrenOf(st, o)
  OBVIOUS
<1>5. /\ s \in Seq(K) /\ t \in Seq(K) /\ K \subseteq Key
  <2>1. Once(s, K) /\ Once(t, K)
    BY <1>2, <1>3, <1>4, ShapedKids
  <2> QED
    BY <1>4, <2>1 DEF Once, ChildrenOf
<1>6. \A k \in Key : st[k].last \in Key \cup {NULL} /\ (k \in K => st[k].next \in Key)
  <2>1. st \in [Key -> KeyRec] /\ NULL \notin Key /\ \A k \in K : k \in Key /\ st[k].parent = o
    BY <1>4, ShapedIs, KeysFinite DEF ChildrenOf
  <2> QED
    BY <2>1, ShapedRing DEF KeyRec
<1>7. Cardinality(ChildrenOf(z, o)) = Cardinality(ChildrenOf(st, o))
  OBVIOUS
<1>8. st[o].last # NULL => z[o].last = w[st[o].last]
  BY <1>1, <1>6
<1>9. \A k \in ChildrenOf(st, o) : z[w[k]].next = w[st[k].next]
  BY <1>1, <1>4, <1>5, <1>6
<1>10. Len(t) = Len(s) /\ \A i \in 1..Len(s) : t[i] = w[s[i]]
  BY <1>2, <1>3, <1>7, <1>8, <1>9, KidsMapped
<1>11. \A i \in 1..Len(s) : s[i] \in Key /\ t[i] = s[i]
  BY <1>1, <1>5, <1>10
<1>12. s = t
  BY <1>5, <1>10, <1>11
<1> QED
  BY <1>2, <1>3, <1>12

\* A registry of that shape is the tree of TreeInv.
LEMMA ShapedIsTree ==
  ASSUME NEW rk, NEW h, Shaped(reg, MainKey, rk, h)
  PROVE  TreeInv
<1>1. /\ reg \in [Key -> KeyRec] /\ Ringed(Key, NULL, LinksOf(reg), rk)
      /\ MainKey \in Key /\ reg[MainKey].used /\ reg[MainKey].parent = NULL
      /\ \A k \in Key : reg[k].parent # NULL => reg[k].used /\ reg[k].parent \in Key
      /\ \A k \in Key : reg[k].used /\ k # MainKey => reg[k].parent # NULL
  BY ShapedIs
<1>2. UsedOf(reg) = Below(reg, MainKey)
  BY AllBelow
<1>3. ASSUME NEW k \in Key, NEW kids, kids = ChildrenOf(reg, k), NEW ring, ring = Kids(reg, k)
      PROVE  /\ {ring[i] : i \in 1..Len(ring)} = kids /\ Len(ring) = Cardinality(kids)
             /\ \A kid \in kids : reg[reg[kid].next].prev = kid
  BY <1>3, ShapedKids, SMTT(20)
<1>4. {k \in Key : reg[k].used} = Below(reg, MainKey)
  BY <1>2 DEF UsedOf
<1>5. \A k \in Key : reg[k].used =>
        LET kids == {kid \in Key : reg[kid].used /\ reg[kid].parent = k}
            ring == Kids(reg, k)
        IN /\ {ring[i] : i \in 1..Len(ring)} = kids /\ Len(ring) = Cardinality(kids)
           /\ \A kid \in kids : reg[reg[kid].next].prev = kid
  BY <1>3 DEF ChildrenOf
<1>6. \A k \in Key : reg[k].used => (reg[k].parent = NULL <=> k = MainKey)
  BY <1>1
<1> QED
  BY <1>4, <1>5, <1>6 DEF TreeInv
-----------------------------------------------------------------------------
(***************************************************************************)
(* Finding a key.                                                          *)
(***************************************************************************)
LEMMA FirstIs ==
  ASSUME NEW st, NEW m, NEW rk, NEW h, Shaped(st, m, rk, h), NEW o \in Key, NEW names,
         NEW kid, kid = First(st, o, names)
  PROVE  \/ kid = NULL /\ \A k \in ChildrenOf(st, o) : st[k].name \notin names
         \/ kid \in ChildrenOf(st, o) /\ st[kid].name \in names
<1>1. PICK s : s = Kids(st, o)
  OBVIOUS
<1>2. PICK K : K = ChildrenOf(st, o)
  OBVIOUS
<1>3. /\ s \in Seq(K) /\ Len(s) \in Nat
      /\ \A k \in K : \E i \in 1..Len(s) : s[i] = k
  <2>1. Once(s, K)
    BY <1>1, <1>2, ShapedKids
  <2> QED
    BY <2>1 DEF Once
<1>4. PICK A : A = {i \in 1..Len(s) : st[s[i]].name \in names}
  OBVIOUS
<1>5. kid = IF A = {} THEN NULL ELSE s[CHOOSE i \in A : \A j \in A : i <= j]
  BY <1>1, <1>4 DEF First
<1>6. CASE A = {}
  <2>1. ASSUME NEW k \in K PROVE st[k].name \notin names
    <3>1. PICK i \in 1..Len(s) : s[i] = k
      BY <1>3
    <3> QED
      BY <1>4, <1>6, <3>1
  <2> QED
    BY <1>2, <1>5, <1>6, <2>1
<1>7. CASE A # {}
  <2>1. A \in SUBSET Nat
    BY <1>3, <1>4
  <2>2. \E i \in A : \A j \in A : i <= j
    BY <1>7, <2>1, LeastNumber
  <2>3. PICK i \in A : kid = s[i]
    BY <1>5, <1>7, <2>2
  <2>4. i \in 1..Len(s) /\ st[s[i]].name \in names
    BY <1>4
  <2>5. s[i] \in K
    BY <1>3, <2>4
  <2> QED
    BY <1>2, <2>3, <2>4, <2>5
<1> QED
  BY <1>6, <1>7

\* A child that is found is a child.
LEMMA ChildIs ==
  ASSUME NEW st, NEW m, NEW rk, NEW h, Shaped(st, m, rk, h), NEW o \in Key, NEW path, NEW i,
         NEW kid, kid = Child(st, o, path, i), kid # NULL
  PROVE  kid \in Key /\ st[kid].used /\ st[kid].parent = o
<1>1. PICK names : names = IF i < Len(path) THEN Alike(path[i]) ELSE {path[i]}
  OBVIOUS
<1>2. kid = First(st, o, names)
  BY <1>1 DEF Child
<1>3. kid \in ChildrenOf(st, o)
  BY <1>2, FirstIs
<1> QED
  BY <1>3 DEF ChildrenOf

\* The keys that ResolveKeyEx comes to, NULL after the first that is not there.
StepsOf(st, path, o, n, f) ==
  /\ f[0] = o /\ \A i \in 0..n : f[i] \in Key \cup {NULL}
  /\ \A i \in 1..n : f[i] = IF f[i - 1] = NULL THEN NULL ELSE Child(st, f[i - 1], path, i)

LEMMA ResolveSteps ==
  ASSUME NEW st, NEW m, NEW rk, NEW h, Shaped(st, m, rk, h), NEW o \in Key,
         NEW path, NEW n \in Nat, n = Len(path), NEW kid, kid = ResolveKeyEx(st, path, o)
  PROVE  \E f : StepsOf(st, path, o, n, f) /\ kid = f[n]
<1> DEFINE E(g) == [i \in 0..Len(path) |->
                      IF i = 0 THEN o ELSE IF g[i - 1] = NULL THEN NULL ELSE Child(st, g[i - 1], path, i)]
           U == {k \in Key : st[k].used /\ st[k].parent # NULL} \cup {NULL}
           at == CHOOSE g : g = E(g)
<1>0. NULL \notin Key /\ n \in Nat
  BY KeysFinite
<1>1. PICK V : V = [i \in 0..n |-> IF i = 0 THEN {o} ELSE U]
  OBVIOUS
<1>2. ASSUME NEW x, x \in Key \/ x = NULL, NEW i, NEW y, y = IF x = NULL THEN NULL ELSE Child(st, x, path, i)
      PROVE  y \in U
  BY <1>0, <1>2, ChildIs
<1>3. PICK next : next = [i \in 1..n |-> [x \in Key \cup {NULL} |->
                                             IF x = NULL THEN NULL ELSE Child(st, x, path, i)]]
  OBVIOUS
<1>4. /\ \A i \in 1..n : \A x \in Key \cup {NULL} :
           next[i][x] = IF x = NULL THEN NULL ELSE Child(st, x, path, i)
      /\ \A i \in 0..n : V[i] \subseteq Key \cup {NULL}
      /\ V[0] = {o} /\ \A i \in 1..n : V[i] = U
  BY <1>0, <1>1, <1>3
<1> HIDE DEF U
<1>5. Leads(n, V, next)
  <2> SUFFICES ASSUME NEW i \in 1..n, NEW x \in V[i - 1] PROVE next[i][x] \in V[i]
    BY DEF Leads
  <2>1. i - 1 \in 0..n
    BY <1>0
  <2>2. x \in Key \/ x = NULL
    BY <1>4, <2>1
  <2>3. next[i][x] = IF x = NULL THEN NULL ELSE Child(st, x, path, i)
    BY <1>4, <2>2
  <2> QED
    BY <1>2, <1>4, <2>2, <2>3
<1>21. PICK f : Made(f, n, V, o, next)
  <2>1. o \in V[0] /\ n \in Nat
    BY <1>0, <1>4
  <2> QED
    BY <1>5, <2>1, StepsExist
<1>6. /\ f = [i \in 0..n |-> f[i]] /\ f[0] = o
      /\ \A i \in 0..n : f[i] \in V[i]
      /\ \A i \in 1..n : f[i] = next[i][f[i - 1]]
  BY <1>21 DEF Made
<1>7. ASSUME NEW i \in 1..n
      PROVE  f[i] = IF f[i - 1] = NULL THEN NULL ELSE Child(st, f[i - 1], path, i)
  <2>1. i - 1 \in 0..n
    BY <1>0
  <2>2. f[i - 1] \in Key \cup {NULL}
    BY <1>4, <1>6, <2>1
  <2> QED
    BY <1>4, <1>6, <2>2
<1>8. \A i \in 0..n : f[i] = IF i = 0 THEN o
                             ELSE IF f[i - 1] = NULL THEN NULL ELSE Child(st, f[i - 1], path, i)
  <2>1. \A i \in 0..n : i = 0 \/ i \in 1..n
    BY <1>0
  <2> QED
    BY <1>6, <1>7, <2>1
<1>9. f = E(f)
  BY <1>6, <1>8
<1>10. at = E(at)
  <2> HIDE DEF E
  <2> QED
    BY <1>9
<1>11. \A i \in 0..n : at[i] = IF i = 0 THEN o
                               ELSE IF at[i - 1] = NULL THEN NULL ELSE Child(st, at[i - 1], path, i)
  BY <1>10
<1>12. kid = at[n]
  BY DEF ResolveKeyEx
<1> HIDE DEF at
<1>13. ASSUME NEW i \in 1..n, at[i - 1] \in V[i - 1] PROVE at[i] \in V[i]
  <2>1. i - 1 \in 0..n /\ i \in 0..n /\ i # 0
    BY <1>0
  <2>2. at[i - 1] \in Key \/ at[i - 1] = NULL
    BY <1>4, <1>13, <2>1
  <2>3. at[i] = IF at[i - 1] = NULL THEN NULL ELSE Child(st, at[i - 1], path, i)
    BY <1>11, <2>1
  <2>4. at[i] \in U
    BY <1>2, <2>2, <2>3
  <2> QED
    BY <1>4, <2>4
<1>14. at[0] \in V[0]
  BY <1>0, <1>4, <1>11
<1>15. \A i \in 0..n : at[i] \in V[i]
  BY <1>0, <1>13, <1>14, StepsStay
<1>16. \A i \in 0..n : at[i] \in Key \cup {NULL}
  BY <1>4, <1>15
<1>17. \A i \in 1..n : i \in 0..n /\ i # 0
  OBVIOUS
<1>18. StepsOf(st, path, o, n, at)
  BY <1>11, <1>16, <1>17 DEF StepsOf
<1> QED
  BY <1>12, <1>18

\* What a path leads to is a key that is used, and no root.
LEMMA ResolveIs ==
  ASSUME NEW st, NEW m, NEW rk, NEW h, Shaped(st, m, rk, h), NEW o \in Key,
         NEW path, Len(path) \in Nat \ {0}, NEW kid, kid = ResolveKeyEx(st, path, o), kid # NULL
  PROVE  kid \in Key /\ st[kid].used /\ st[kid].parent # NULL
<1>1. PICK n \in Nat : n = Len(path) /\ n # 0
  OBVIOUS
<1>2. PICK f : StepsOf(st, path, o, n, f) /\ kid = f[n]
  BY <1>1, ResolveSteps
<1>3. n \in 1..n /\ n - 1 \in 0..n /\ NULL \notin Key
  BY <1>1, KeysFinite
<1>4. f[n - 1] \in Key /\ kid = Child(st, f[n - 1], path, n)
  BY <1>2, <1>3 DEF StepsOf
<1>5. kid \in Key /\ st[kid].used /\ st[kid].parent = f[n - 1]
  BY <1>4, ChildIs
<1> QED
  BY <1>3, <1>4, <1>5

\* A path of one name leads to the first child of that name, its case minded.
LEMMA ResolveOne ==
  ASSUME NEW st, NEW p \in Key, NEW n
  PROVE  ResolveKeyEx(st, <<n>>, p) = First(st, p, {n})
<1> DEFINE E(g) == [i \in 0..Len(<<n>>) |->
                      IF i = 0 THEN p ELSE IF g[i - 1] = NULL THEN NULL ELSE Child(st, g[i - 1], <<n>>, i)]
           at == CHOOSE g : g = E(g)
<1>1. Len(<<n>>) = 1 /\ <<n>>[1] = n /\ p # NULL
  BY KeysFinite
<1>2. PICK f : f = [i \in 0..1 |-> IF i = 0 THEN p ELSE Child(st, p, <<n>>, 1)]
  OBVIOUS
<1>3. f[0] = p /\ f[1] = Child(st, p, <<n>>, 1) /\ \A i \in 0..1 : i = 0 \/ i = 1
  BY <1>2
<1>4. \A i \in 0..1 : f[i] = IF i = 0 THEN p
                             ELSE IF f[i - 1] = NULL THEN NULL ELSE Child(st, f[i - 1], <<n>>, i)
  BY <1>1, <1>3
<1>5. f = E(f)
  BY <1>1, <1>2, <1>4
<1>6. at = E(at)
  <2> HIDE DEF E
  <2> QED
    BY <1>5
<1>7. \A i \in 0..1 : at[i] = IF i = 0 THEN p
                              ELSE IF at[i - 1] = NULL THEN NULL ELSE Child(st, at[i - 1], <<n>>, i)
  BY <1>1, <1>6
<1>8. ResolveKeyEx(st, <<n>>, p) = at[1]
  BY <1>1 DEF ResolveKeyEx
<1> HIDE DEF at
<1>9. at[0] = p /\ at[1] = Child(st, p, <<n>>, 1)
  BY <1>1, <1>7
<1>10. ~(1 < Len(<<n>>))
  BY <1>1
<1> QED
  BY <1>1, <1>8, <1>9, <1>10 DEF Child

\* The names that component i of a path accepts.
NamesAt(path, i) == IF i < Len(path) THEN Alike(path[i]) ELSE {path[i]}

\* The last child is found first.
LEMMA FirstIsLast ==
  ASSUME NEW st, NEW m, NEW rk, NEW h, Shaped(st, m, rk, h), NEW o \in Key, NEW names,
         NEW kid, kid = st[o].last, kid # NULL, st[kid].name \in names
  PROVE  First(st, o, names) = kid
<1>1. PICK s : s = Kids(st, o)
  OBVIOUS
<1>2. PICK K : K = ChildrenOf(st, o)
  OBVIOUS
<1>3. PICK n \in Nat : n = Len(s) /\ \A k \in K : \E i \in 1..n : s[i] = k
  BY <1>1, <1>2, ShapedKids
<1>4. ReadOf(st, o, s)
  BY <1>1, ShapedKids
<1>5. kid \in K
  <2>1. kid \in Key /\ st[kid].parent = o /\ o # NULL
    BY ShapedRing, KeysFinite
  <2>2. st[kid].used
    BY <2>1, ShapedIs
  <2> QED
    BY <1>2, <2>1, <2>2 DEF ChildrenOf
<1>6. n # 0 /\ s[1] = kid
  BY <1>3, <1>4, <1>5 DEF ReadOf
<1>7. PICK A : A = {i \in 1..Len(s) : st[s[i]].name \in names}
  OBVIOUS
<1>8. 1 \in A /\ \A j \in A : 1 <= j
  BY <1>3, <1>6, <1>7
<1>9. (CHOOSE i \in A : \A j \in A : i <= j) = 1
  <2>1. \A i \in A : (\A j \in A : i <= j) => i = 1
    BY <1>3, <1>7, <1>8
  <2> QED
    BY <1>8, <2>1
<1>10. First(st, o, names) = IF A = {} THEN NULL ELSE s[CHOOSE i \in A : \A j \in A : i <= j]
  BY <1>1, <1>7 DEF First
<1> QED
  BY <1>6, <1>8, <1>9, <1>10

\* Nothing changes for the children of o but their values.
SameKids(st, z, o) ==
  /\ ChildrenOf(z, o) = ChildrenOf(st, o) /\ z[o].last = st[o].last
  /\ \A k \in ChildrenOf(st, o) : z[k].next = st[k].next /\ z[k].name = st[k].name

\* Then the same child is found.
LEMMA ChildSame ==
  ASSUME NEW st, NEW m, NEW rk, NEW h, Shaped(st, m, rk, h), NEW o \in Key,
         NEW z, NEW y, NEW x, NEW g, Shaped(z, y, x, g), SameKids(st, z, o), NEW path, NEW i
  PROVE  Child(z, o, path, i) = Child(st, o, path, i)
<1>1. PICK s : s = Kids(st, o)
  OBVIOUS
<1>2. Kids(z, o) = s
  BY <1>1, KidsSame DEF SameKids
<1>3. PICK K : K = ChildrenOf(st, o)
  OBVIOUS
<1>4. PICK n \in Nat : n = Len(s) /\ \A j \in 1..n : s[j] \in K
  <2>1. Once(s, K)
    BY <1>1, <1>3, ShapedKids
  <2> QED
    BY <2>1 DEF Once
<1>5. \A j \in 1..n : z[s[j]].name = st[s[j]].name
  BY <1>3, <1>4 DEF SameKids
<1>6. ASSUME NEW names PROVE First(z, o, names) = First(st, o, names)
  <2>1. PICK A : A = {j \in 1..n : st[s[j]].name \in names}
    OBVIOUS
  <2>2. A = {j \in 1..n : z[s[j]].name \in names}
    BY <1>5, <2>1
  <2>3. First(st, o, names) = IF A = {} THEN NULL ELSE s[CHOOSE j \in A : \A d \in A : j <= d]
    BY <1>1, <1>4, <2>1 DEF First
  <2>4. First(z, o, names) = IF A = {} THEN NULL ELSE s[CHOOSE j \in A : \A d \in A : j <= d]
    BY <1>2, <1>4, <2>2 DEF First
  <2> QED
    BY <2>3, <2>4
<1>7. Child(z, o, path, i) = First(z, o, NamesAt(path, i))
  BY DEF Child, NamesAt
<1>8. Child(st, o, path, i) = First(st, o, NamesAt(path, i))
  BY DEF Child, NamesAt
<1> QED
  BY <1>6, <1>7, <1>8

\* The first n components of a path lead from m along the keys c.
Walked(st, m, path, n, way) ==
  way \in [0..n -> Key] /\ way[0] = m /\ \A i \in 1..n : Child(st, way[i - 1], path, i) = way[i]

\* Key i of the way is a child of the one before, of such a name.
OnWay(st, path, way, i) ==
  /\ way[i] \in Key /\ way[i - 1] \in Key /\ st[way[i]].used
  /\ st[way[i]].parent = way[i - 1] /\ st[way[i]].name \in NamesAt(path, i)

\* That is what is found.
LEMMA WalkIs ==
  ASSUME NEW st, NEW m, NEW rk, NEW h, Shaped(st, m, rk, h), NEW path, NEW n \in Nat, NEW way,
         Walked(st, m, path, n, way)
  PROVE  \A i \in 1..n : OnWay(st, path, way, i)
<1>0. NULL \notin Key
  BY KeysFinite
<1>1. ASSUME NEW i \in 1..n PROVE OnWay(st, path, way, i)
  <2>1. PICK o \in Key : o = way[i - 1]
    BY DEF Walked
  <2>2. PICK kid \in Key : kid = way[i]
    BY DEF Walked
  <2>3. kid = First(st, o, NamesAt(path, i)) /\ kid # NULL
    BY <1>0, <2>1, <2>2 DEF Walked, Child, NamesAt
  <2>4. kid \in ChildrenOf(st, o) /\ st[kid].name \in NamesAt(path, i)
    BY <2>3, FirstIs
  <2> QED
    BY <2>1, <2>2, <2>4 DEF ChildrenOf, OnWay
<1> QED
  BY <1>1

\* Each is as deep as there are components on the way to it.
LEMMA WalkDepth ==
  ASSUME NEW st, NEW m, NEW rk, NEW h, Shaped(st, m, rk, h), NEW path, NEW n \in Nat, NEW way,
         Walked(st, m, path, n, way)
  PROVE  \A i \in 0..n : way[i] \in Key /\ h[way[i]] = i
<1>0. NULL \notin Key /\ h[m] = 0 /\ m \in Key
  BY ShapedIs, KeysFinite
<1>1. \A i \in 1..n : OnWay(st, path, way, i)
  BY WalkIs
<1>2. PICK V : V = [i \in 0..n |-> {k \in Key : h[k] = i}]
  OBVIOUS
<1>3. way[0] \in V[0]
  BY <1>0, <1>2 DEF Walked
<1>4. ASSUME NEW i \in 1..n, way[i - 1] \in V[i - 1] PROVE way[i] \in V[i]
  <2>1. way[i] \in Key /\ way[i - 1] \in Key /\ st[way[i]].parent = way[i - 1]
    BY <1>1 DEF OnWay
  <2>2. h[way[i]] = h[way[i - 1]] + 1
    BY <1>0, <2>1, ShapedIs
  <2>3. h[way[i - 1]] = i - 1 /\ i \in 0..n
    BY <1>2, <1>4
  <2> QED
    BY <1>2, <2>1, <2>2, <2>3
<1>5. \A i \in 0..n : way[i] \in V[i]
  BY <1>3, <1>4, StepsStay
<1>6. \A i \in 0..n : way[i] \in Key /\ h[way[i]] = i
  BY <1>2, <1>5
<1> QED
  BY <1>6

\* A path that is walked to its end leads there.
LEMMA WalkLeads ==
  ASSUME NEW st, NEW m, NEW rk, NEW h, Shaped(st, m, rk, h), NEW path, NEW n \in Nat, n = Len(path),
         NEW way, Walked(st, m, path, n, way)
  PROVE  ResolveKeyEx(st, path, m) = way[n]
<1>0. m \in Key /\ NULL \notin Key
  BY ShapedIs, KeysFinite
<1>1. PICK kid : kid = ResolveKeyEx(st, path, m)
  OBVIOUS
<1>2. PICK f : StepsOf(st, path, m, n, f) /\ kid = f[n]
  BY <1>0, <1>1, ResolveSteps
<1>3. PICK V : V = [i \in 0..n |-> {way[i]}]
  OBVIOUS
<1>4. f[0] \in V[0]
  BY <1>2, <1>3 DEF Walked, StepsOf
<1>5. ASSUME NEW i \in 1..n, f[i - 1] \in V[i - 1] PROVE f[i] \in V[i]
  <2>1. i \in 0..n /\ i - 1 \in 0..n
    OBVIOUS
  <2>2. f[i - 1] = way[i - 1] /\ way[i - 1] # NULL
    BY <1>0, <1>3, <1>5, <2>1 DEF Walked
  <2>3. f[i] = way[i]
    BY <1>2, <2>2 DEF Walked, StepsOf
  <2> QED
    BY <1>3, <2>1, <2>3
<1>6. \A i \in 0..n : f[i] \in V[i]
  BY <1>4, <1>5, StepsStay
<1> QED
  BY <1>1, <1>2, <1>3, <1>6

\* A path that leads to a key is walked to its end.
LEMMA WalkExists ==
  ASSUME NEW st, NEW m, NEW rk, NEW h, Shaped(st, m, rk, h), NEW path, NEW n \in Nat, n = Len(path),
         NEW kid, kid = ResolveKeyEx(st, path, m), kid # NULL
  PROVE  \E way : Walked(st, m, path, n, way) /\ way[n] = kid
<1>0. m \in Key /\ NULL \notin Key
  BY ShapedIs, KeysFinite
<1>1. PICK f : StepsOf(st, path, m, n, f) /\ kid = f[n]
  BY <1>0, ResolveSteps
<1>2. PICK g : g = [i \in 0..n |-> f[n - i]]
  OBVIOUS
<1>3. PICK V : V = [i \in 0..n |-> Key]
  OBVIOUS
<1>4. g[0] \in V[0]
  BY <1>1, <1>2, <1>3 DEF StepsOf
<1>5. ASSUME NEW i \in 1..n, g[i - 1] \in V[i - 1] PROVE g[i] \in V[i]
  <2>1. i \in 0..n /\ i - 1 \in 0..n /\ n - i \in 0..n /\ n - (i - 1) \in 1..n /\ (n - (i - 1)) - 1 = n - i
    OBVIOUS
  <2>2. g[i - 1] = f[n - (i - 1)] /\ g[i] = f[n - i] /\ g[i - 1] # NULL
    BY <1>0, <1>2, <1>3, <1>5, <2>1
  <2>3. f[n - i] # NULL
    BY <1>1, <2>1, <2>2 DEF StepsOf
  <2> QED
    BY <1>1, <1>3, <2>1, <2>2, <2>3 DEF StepsOf
<1>6. \A i \in 0..n : g[i] \in V[i]
  BY <1>4, <1>5, StepsStay
<1>7. ASSUME NEW i \in 0..n PROVE f[i] \in Key
  <2>1. n - i \in 0..n /\ n - (n - i) = i
    OBVIOUS
  <2> QED
    BY <1>2, <1>3, <1>6, <2>1
<1>8. PICK way : way = [i \in 0..n |-> f[i]]
  OBVIOUS
<1>9. way \in [0..n -> Key] /\ way[0] = m /\ way[n] = kid
  BY <1>1, <1>7, <1>8 DEF StepsOf
<1>10. ASSUME NEW i \in 1..n PROVE Child(st, way[i - 1], path, i) = way[i]
  <2>1. i \in 0..n /\ i - 1 \in 0..n
    OBVIOUS
  <2>2. f[i - 1] # NULL /\ f[i] = IF f[i - 1] = NULL THEN NULL ELSE Child(st, f[i - 1], path, i)
    BY <1>0, <1>1, <1>7, <2>1 DEF StepsOf
  <2> QED
    BY <1>8, <2>1, <2>2
<1> QED
  BY <1>9, <1>10 DEF Walked
-----------------------------------------------------------------------------
(***************************************************************************)
(* Creating keys.                                                          *)
(***************************************************************************)
LEMMA BlankIs ==
  /\ Blank \in KeyRec /\ ~Blank.used /\ Blank.parent = NULL /\ Blank.last = NULL
  /\ Blank.next = NULL /\ Blank.prev = NULL
  /\ Root \in KeyRec /\ Root.used /\ Root.parent = NULL /\ Root.last = NULL
  /\ Root.next = NULL /\ Root.prev = NULL
<1>1. << >> \in Seq(Octet)
  OBVIOUS
<1>2. /\ Blank \in KeyRec /\ ~Blank.used /\ Blank.parent = NULL /\ Blank.last = NULL
      /\ Blank.next = NULL /\ Blank.prev = NULL
  BY <1>1 DEF Blank, KeyRec
<1>3. Root \in KeyRec
  BY <1>2 DEF Root, KeyRec
<1>4. Root.used /\ Root.parent = NULL /\ Root.last = NULL /\ Root.next = NULL /\ Root.prev = NULL
  BY <1>2 DEF Root, KeyRec
<1> QED
  BY <1>2, <1>3, <1>4

(***************************************************************************)
(* One link of one key.                                                    *)
(***************************************************************************)
WithLast(x, p, kid) == [x EXCEPT ![p].last = kid]
WithNext(x, p, kid) == [x EXCEPT ![p].next = kid]
WithPrev(x, p, kid) == [x EXCEPT ![p].prev = kid]

\* What an assignment to Last leaves alone, and what it gives.
LEMMA PutLast ==
  ASSUME NEW x \in [Key -> KeyRec], NEW p \in Key, NEW kid \in Key \cup {NULL},
         NEW y, y = WithLast(x, p, kid)
  PROVE  /\ y \in [Key -> KeyRec]
         /\ \A k \in Key : /\ y[k].used = x[k].used /\ y[k].parent = x[k].parent
                           /\ y[k].name = x[k].name /\ y[k].type = x[k].type /\ y[k].data = x[k].data
                           /\ y[k].next = x[k].next /\ y[k].prev = x[k].prev
                           /\ y[k].last = IF k = p THEN kid ELSE x[k].last
<1>1. PICK w : w = [x[p] EXCEPT !.last = kid]
  OBVIOUS
<1>2. x[p] \in KeyRec
  OBVIOUS
<1>3. /\ w \in KeyRec /\ w.used = x[p].used /\ w.parent = x[p].parent /\ w.name = x[p].name
      /\ w.type = x[p].type /\ w.data = x[p].data /\ w.next = x[p].next
      /\ w.prev = x[p].prev /\ w.last = kid
  BY <1>1, <1>2 DEF KeyRec
<1>4. y = [x EXCEPT ![p] = w]
  BY <1>1 DEF WithLast
<1>5. y \in [Key -> KeyRec] /\ \A k \in Key : y[k] = IF k = p THEN w ELSE x[k]
  BY <1>3, <1>4
<1> QED
  BY <1>3, <1>5

\* The same of Next.
LEMMA PutNext ==
  ASSUME NEW x \in [Key -> KeyRec], NEW p \in Key, NEW kid \in Key \cup {NULL},
         NEW y, y = WithNext(x, p, kid)
  PROVE  /\ y \in [Key -> KeyRec]
         /\ \A k \in Key : /\ y[k].used = x[k].used /\ y[k].parent = x[k].parent
                           /\ y[k].name = x[k].name /\ y[k].type = x[k].type /\ y[k].data = x[k].data
                           /\ y[k].last = x[k].last /\ y[k].prev = x[k].prev
                           /\ y[k].next = IF k = p THEN kid ELSE x[k].next
<1>1. PICK w : w = [x[p] EXCEPT !.next = kid]
  OBVIOUS
<1>2. x[p] \in KeyRec
  OBVIOUS
<1>3. /\ w \in KeyRec /\ w.used = x[p].used /\ w.parent = x[p].parent /\ w.name = x[p].name
      /\ w.type = x[p].type /\ w.data = x[p].data /\ w.last = x[p].last
      /\ w.prev = x[p].prev /\ w.next = kid
  BY <1>1, <1>2 DEF KeyRec
<1>4. y = [x EXCEPT ![p] = w]
  BY <1>1 DEF WithNext
<1>5. y \in [Key -> KeyRec] /\ \A k \in Key : y[k] = IF k = p THEN w ELSE x[k]
  BY <1>3, <1>4
<1> QED
  BY <1>3, <1>5

\* The same of Prev.
LEMMA PutPrev ==
  ASSUME NEW x \in [Key -> KeyRec], NEW p \in Key, NEW kid \in Key \cup {NULL},
         NEW y, y = WithPrev(x, p, kid)
  PROVE  /\ y \in [Key -> KeyRec]
         /\ \A k \in Key : /\ y[k].used = x[k].used /\ y[k].parent = x[k].parent
                           /\ y[k].name = x[k].name /\ y[k].type = x[k].type /\ y[k].data = x[k].data
                           /\ y[k].last = x[k].last /\ y[k].next = x[k].next
                           /\ y[k].prev = IF k = p THEN kid ELSE x[k].prev
<1>1. PICK w : w = [x[p] EXCEPT !.prev = kid]
  OBVIOUS
<1>2. x[p] \in KeyRec
  OBVIOUS
<1>3. /\ w \in KeyRec /\ w.used = x[p].used /\ w.parent = x[p].parent /\ w.name = x[p].name
      /\ w.type = x[p].type /\ w.data = x[p].data /\ w.last = x[p].last
      /\ w.next = x[p].next /\ w.prev = kid
  BY <1>1, <1>2 DEF KeyRec
<1>4. y = [x EXCEPT ![p] = w]
  BY <1>1 DEF WithPrev
<1>5. y \in [Key -> KeyRec] /\ \A k \in Key : y[k] = IF k = p THEN w ELSE x[k]
  BY <1>3, <1>4
<1> QED
  BY <1>3, <1>5

\* The value of a key, with its name.
SameValue(e, d) == e.name = d.name /\ e.type = d.type /\ e.data = d.data

\* What a key that is made changes.
Gets(st, z, o, p, n) ==
  LET l == st[p].last
      f == IF l = NULL THEN o ELSE st[l].next
  IN /\ \A k \in Key : /\ z[k].used <=> st[k].used \/ k = o
                       /\ z[k].parent = IF k = o THEN p ELSE st[k].parent
                       /\ z[k].last = IF k = p THEN o ELSE st[k].last
                       /\ z[k].next = IF k = o THEN f ELSE IF k = l THEN o ELSE st[k].next
                       /\ z[k].prev = IF k = f /\ l # NULL THEN o
                                      ELSE IF k = o THEN IF l = NULL THEN o ELSE l ELSE st[k].prev
     /\ z[o].name = n /\ \A k \in Key : k # o => SameValue(z[k], st[k])

\* NewKeyEx takes a free key, and gives it to p as its last child.
LEMMA NewKeyGets ==
  ASSUME NEW st, NEW m, NEW rk, NEW h, Shaped(st, m, rk, h), NEW p \in Key, st[p].used, NEW n \in Name,
         FreeAddr(st) # {}, ResolveKeyEx(st, <<n>>, p) = NULL, NEW s, s = NewKeyEx(st, p, n)
  PROVE  s.key \in FreeAddr(st) /\ s.reg \in [Key -> KeyRec] /\ Gets(st, s.reg, s.key, p, n)
<1>0. /\ st \in [Key -> KeyRec] /\ NULL \notin Key
      /\ \A k \in Key : st[k].parent # NULL => st[k].used
  BY ShapedIs, KeysFinite
<1>1. PICK o : o = CHOOSE k \in FreeAddr(st) : TRUE
  OBVIOUS
<1>2. o \in FreeAddr(st)
  BY <1>1
<1>3. o \in Key /\ ~st[o].used /\ p # o
  BY <1>2 DEF FreeAddr
<1>4. PICK l : l = st[p].last
  OBVIOUS
<1>5. PICK f : f = IF l = NULL THEN o ELSE st[l].next
  OBVIOUS
<1>6. PICK v : v = IF l = NULL THEN o ELSE l
  OBVIOUS
<1>7. l # NULL => l \in Key /\ st[l].parent = p /\ l # o /\ f \in Key /\ st[f].parent = p /\ f # o
  <2> SUFFICES ASSUME l # NULL PROVE l \in Key /\ st[l].parent = p /\ l # o /\ f \in Key /\ st[f].parent = p /\ f # o
    OBVIOUS
  <2>1. l \in Key /\ st[l].parent = p
    BY <1>4, ShapedRing
  <2>2. f \in Key /\ st[f].parent = p
    BY <1>0, <1>5, <2>1, ShapedRing
  <2> QED
    BY <1>0, <1>3, <2>1, <2>2
<1>8. f \in Key /\ v \in Key
  BY <1>3, <1>5, <1>6, <1>7
<1>9. PICK w : w = [Root EXCEPT !.name = n, !.parent = p]
  OBVIOUS
<1>10. w \in KeyRec /\ w.used /\ w.name = n /\ w.parent = p /\ w.last = NULL
  BY <1>9, BlankIs DEF KeyRec
<1>11. PICK e : e = [w EXCEPT !.next = f, !.prev = v]
  OBVIOUS
<1>12. e \in KeyRec /\ e.used /\ e.name = n /\ e.parent = p /\ e.last = NULL /\ e.next = f /\ e.prev = v
  BY <1>8, <1>10, <1>11 DEF KeyRec
<1>13. PICK x : x = [st EXCEPT ![o] = e]
  OBVIOUS
<1>14. x \in [Key -> KeyRec] /\ x[o] = e /\ \A k \in Key : k # o => x[k] = st[k]
  BY <1>0, <1>3, <1>12, <1>13
<1>15. PICK y : y = WithLast(x, p, o)
  OBVIOUS
<1>16. /\ y \in [Key -> KeyRec]
       /\ \A k \in Key : /\ y[k].used = x[k].used /\ y[k].parent = x[k].parent /\ y[k].name = x[k].name
                         /\ y[k].next = x[k].next /\ y[k].prev = x[k].prev
                         /\ y[k].last = IF k = p THEN o ELSE x[k].last
  BY <1>3, <1>14, <1>15, PutLast
<1>17. PICK u : u = WithPrev(y, f, o)
  OBVIOUS
<1>18. /\ u \in [Key -> KeyRec]
       /\ \A k \in Key : /\ u[k].used = y[k].used /\ u[k].parent = y[k].parent /\ u[k].name = y[k].name
                         /\ u[k].next = y[k].next /\ u[k].last = y[k].last
                         /\ u[k].prev = IF k = f THEN o ELSE y[k].prev
  BY <1>3, <1>8, <1>16, <1>17, PutPrev, SMTT(20)
<1>19. PICK z : z = IF l = NULL THEN y ELSE WithNext(u, l, o)
  OBVIOUS
<1>20. \A k \in Key : k # o => st[k].last = x[k].last /\ st[k].next = x[k].next /\ st[k].prev = x[k].prev
                              /\ st[k].used = x[k].used /\ st[k].parent = x[k].parent
  BY <1>14
<1>21. x[o].used /\ x[o].parent = p /\ x[o].last = NULL /\ x[o].next = f /\ x[o].prev = v /\ x[o].name = n
  BY <1>12, <1>14
<1>22. st[o].last = NULL
  BY <1>0, <1>3, ShapedRing, ShapedIs
<1>26. ASSUME NEW k \in Key, k # o PROVE SameValue(y[k], st[k]) /\ SameValue(u[k], st[k])
  <2>1. x[k].name = st[k].name /\ x[k].type = st[k].type /\ x[k].data = st[k].data
    BY <1>14, <1>26
  <2>2. y[k].name = x[k].name /\ y[k].type = x[k].type /\ y[k].data = x[k].data
    BY <1>3, <1>14, <1>15, PutLast
  <2>3. u[k].name = y[k].name /\ u[k].type = y[k].type /\ u[k].data = y[k].data
    BY <1>3, <1>8, <1>16, <1>17, PutPrev
  <2> QED
    BY <2>1, <2>2, <2>3 DEF SameValue
<1>23. ASSUME l = NULL PROVE z \in [Key -> KeyRec] /\ Gets(st, z, o, p, n)
  <2>1. z = y
    BY <1>19, <1>23
  <2>2. ASSUME NEW k \in Key
        PROVE  /\ z[k].used <=> st[k].used \/ k = o
               /\ z[k].parent = IF k = o THEN p ELSE st[k].parent
               /\ z[k].last = IF k = p THEN o ELSE st[k].last
               /\ z[k].next = IF k = o THEN f ELSE IF k = l THEN o ELSE st[k].next
               /\ z[k].prev = IF k = f /\ l # NULL THEN o
                              ELSE IF k = o THEN IF l = NULL THEN o ELSE l ELSE st[k].prev
    <3>1. CASE k = o
      BY <1>0, <1>3, <1>6, <1>16, <1>21, <1>22, <1>23, <2>1, <3>1
    <3>2. CASE k # o
      BY <1>0, <1>3, <1>6, <1>16, <1>20, <1>23, <2>1, <3>2
    <3> QED
      BY <3>1, <3>2
  <2>3. z \in [Key -> KeyRec] /\ z[o].name = n
    BY <1>3, <1>16, <1>21, <2>1
  <2>4. \A k \in Key : k # o => SameValue(z[k], st[k])
    BY <1>26, <2>1
  <2> QED
    BY <1>4, <1>5, <2>2, <2>3, <2>4 DEF Gets
<1>24. ASSUME l # NULL PROVE z \in [Key -> KeyRec] /\ Gets(st, z, o, p, n)
  <2>1. z = WithNext(u, l, o) /\ l \in Key /\ l # o /\ f # o /\ v = l
    BY <1>6, <1>7, <1>19, <1>24
  <2>2. /\ z \in [Key -> KeyRec]
        /\ \A k \in Key : /\ z[k].used = u[k].used /\ z[k].parent = u[k].parent /\ z[k].name = u[k].name
                          /\ z[k].last = u[k].last /\ z[k].prev = u[k].prev
                          /\ z[k].next = IF k = l THEN o ELSE u[k].next
    <3>1. u \in [Key -> KeyRec] /\ l \in Key /\ o \in Key \cup {NULL} /\ z = WithNext(u, l, o)
      BY <1>3, <1>18, <2>1
    <3> QED
      BY <3>1, PutNext
  <2>3. ASSUME NEW k \in Key
        PROVE  /\ z[k].used <=> st[k].used \/ k = o
               /\ z[k].parent = IF k = o THEN p ELSE st[k].parent
               /\ z[k].last = IF k = p THEN o ELSE st[k].last
               /\ z[k].next = IF k = o THEN f ELSE IF k = l THEN o ELSE st[k].next
               /\ z[k].prev = IF k = f /\ l # NULL THEN o
                              ELSE IF k = o THEN IF l = NULL THEN o ELSE l ELSE st[k].prev
    <3>1. CASE k = o
      BY <1>3, <1>16, <1>18, <1>21, <1>22, <1>24, <2>1, <2>2, <3>1
    <3>2. CASE k # o
      BY <1>3, <1>16, <1>18, <1>20, <1>24, <2>1, <2>2, <3>2
    <3> QED
      BY <3>1, <3>2
  <2>4. z[o].name = n
    BY <1>3, <1>16, <1>18, <1>21, <2>1, <2>2
  <2>5. ASSUME NEW k \in Key, k # o PROVE SameValue(z[k], st[k])
    <3>1. z[k].name = u[k].name /\ z[k].type = u[k].type /\ z[k].data = u[k].data
      BY <1>3, <1>18, <2>1, PutNext
    <3> QED
      BY <1>26, <2>5, <3>1 DEF SameValue
  <2> QED
    BY <1>4, <1>5, <2>2, <2>3, <2>4, <2>5 DEF Gets
<1>25. s.key = o /\ s.reg = z
  <2>1. s = [reg |-> IF l = NULL THEN y ELSE [[y EXCEPT ![f].prev = o] EXCEPT ![l].next = o], key |-> o]
    BY <1>1, <1>4, <1>5, <1>6, <1>9, <1>11, <1>13, <1>15, ZenonT(40) DEF NewKeyEx, WithLast
  <2> QED
    BY <1>17, <1>19, <2>1 DEF WithPrev, WithNext
<1> QED
  BY <1>2, <1>23, <1>24, <1>25

\* The shape stays when a key is made: it ranks above all that there is.
LEMMA GetsShaped ==
  ASSUME NEW st, NEW m, NEW rk, NEW h, Shaped(st, m, rk, h), NEW p \in Key, st[p].used, NEW n,
         NEW o \in FreeAddr(st), NEW z \in [Key -> KeyRec], Gets(st, z, o, p, n)
  PROVE  /\ \E s, g : Shaped(z, m, s, g)
         /\ z[o].used /\ z[o].parent = p /\ FreeAddr(z) = FreeAddr(st) \ {o}
<1> DEFINE q == LinksOf(st)
           w == LinksOf(z)
<1>0. /\ st \in [Key -> KeyRec] /\ Ringed(Key, NULL, q, rk) /\ NULL \notin Key
      /\ o \in Key /\ ~st[o].used /\ p # o
  BY ShapedIs, KeysFinite DEF FreeAddr
<1>1. /\ LinksTyped(Key, NULL, q) /\ LinksTyped(Key, NULL, w)
      /\ \A k \in Key : /\ q.last[k] = st[k].last /\ q.next[k] = st[k].next
                        /\ q.prev[k] = st[k].prev /\ q.parent[k] = st[k].parent
      /\ \A k \in Key : /\ w.last[k] = z[k].last /\ w.next[k] = z[k].next
                        /\ w.prev[k] = z[k].prev /\ w.parent[k] = z[k].parent
  BY <1>0, LinksAre
<1>2. /\ UsedOf(st) \subseteq Key /\ m \in UsedOf(st) /\ q.parent[m] = NULL
      /\ \A k \in Key : q.parent[k] # NULL => k \in UsedOf(st) /\ q.parent[k] \in UsedOf(st)
      /\ \A k \in UsedOf(st) : k # m => q.parent[k] # NULL
      /\ q.next[m] = NULL /\ q.prev[m] = NULL
      /\ h \in [Key -> Nat] /\ h[m] = 0
      /\ \A k \in Key : q.parent[k] # NULL => h[k] = h[q.parent[k]] + 1
      /\ \E b \in Int : \A x \in Key : rk[x] < b
  BY DEF Shaped, Shape
<1>3. PICK b \in Int : \A x \in Key : rk[x] < b
  BY <1>2
<1>4. PICK l : l = q.last[p]
  OBVIOUS
<1>5. PICK f : f = IF l = NULL THEN o ELSE q.next[l]
  OBVIOUS
<1>6. l # NULL => l \in Key /\ q.parent[l] = p /\ f \in Key /\ q.parent[f] = p /\ l # o /\ f # o
  <2> SUFFICES ASSUME l # NULL PROVE l \in Key /\ q.parent[l] = p /\ f \in Key /\ q.parent[f] = p /\ l # o /\ f # o
    OBVIOUS
  <2>1. l \in Key /\ q.parent[l] = p
    BY <1>0, <1>1, <1>4, ShapedRing
  <2>2. f \in Key /\ q.parent[f] = p
    BY <1>0, <1>1, <1>5, <2>1, ShapedRing
  <2>3. o \notin UsedOf(st)
    BY <1>0 DEF UsedOf
  <2> QED
    BY <1>0, <1>2, <2>1, <2>2, <2>3
<1>7. /\ \A k \in Key : /\ z[k].used <=> st[k].used \/ k = o
                        /\ w.parent[k] = IF k = o THEN p ELSE q.parent[k]
                        /\ w.last[k] = IF k = p THEN o ELSE q.last[k]
                        /\ w.next[k] = IF k = o THEN f ELSE IF k = l THEN o ELSE q.next[k]
                        /\ w.prev[k] = IF k = f /\ l # NULL THEN o
                                       ELSE IF k = o THEN IF l = NULL THEN o ELSE l ELSE q.prev[k]
  <2>1. l = st[p].last
    BY <1>1, <1>4
  <2>2. f = IF l = NULL THEN o ELSE st[l].next
    BY <1>1, <1>5, <1>6
  <2>3. \A k \in Key : /\ z[k].used <=> st[k].used \/ k = o
                       /\ z[k].parent = IF k = o THEN p ELSE st[k].parent
                       /\ z[k].last = IF k = p THEN o ELSE st[k].last
                       /\ z[k].next = IF k = o THEN f ELSE IF k = l THEN o ELSE st[k].next
                       /\ z[k].prev = IF k = f /\ l # NULL THEN o
                                      ELSE IF k = o THEN IF l = NULL THEN o ELSE l ELSE st[k].prev
    BY <2>1, <2>2 DEF Gets
  <2> QED
    BY <1>1, <2>3
<1>8. PICK s : s = [rk EXCEPT ![o] = b]
  OBVIOUS
<1>9. s \in [Key -> Int] /\ s[o] = b /\ \A k \in Key \ {o} : s[k] = rk[k]
  BY <1>0, <1>3, <1>8 DEF Ringed
<1>10. PICK g : g = [h EXCEPT ![o] = h[p] + 1]
  OBVIOUS
<1>11. g \in [Key -> Nat] /\ g[o] = h[p] + 1 /\ \A k \in Key \ {o} : g[k] = h[k]
  BY <1>0, <1>2, <1>10
<1>12. UsedOf(z) = UsedOf(st) \cup {o} /\ o \notin UsedOf(st) /\ p \in UsedOf(st)
  BY <1>0, <1>7 DEF UsedOf
<1>13. q.parent[o] = NULL
  BY <1>0, <1>2, <1>12
<1> HIDE DEF q, w
<1>14. /\ q.last \in [Key -> Key \cup {NULL}] /\ q.next \in [Key -> Key \cup {NULL}]
       /\ q.prev \in [Key -> Key \cup {NULL}] /\ q.parent \in [Key -> Key \cup {NULL}]
       /\ w.last \in [Key -> Key \cup {NULL}] /\ w.next \in [Key -> Key \cup {NULL}]
       /\ w.prev \in [Key -> Key \cup {NULL}] /\ w.parent \in [Key -> Key \cup {NULL}]
  BY <1>1 DEF LinksTyped, LinkSet
<1>15. w.parent = [q.parent EXCEPT ![o] = p] /\ w.last = [q.last EXCEPT ![p] = o]
  BY <1>0, <1>7, <1>14
<1>16. Ringed(Key, NULL, w, s)
  <2>1. CASE l = NULL
    <3>1. w.next = [q.next EXCEPT ![o] = o]
      BY <1>0, <1>5, <1>7, <1>14, <2>1
    <3>2. w.prev = [q.prev EXCEPT ![o] = o]
      BY <1>0, <1>5, <1>7, <1>14, <2>1
    <3>3. Begins(q, w, o, p)
      BY <1>15, <3>1, <3>2 DEF Begins
    <3> QED
      <4>1. q.last[p] = NULL /\ o \in Key /\ p \in Key /\ Ringed(Key, NULL, q, rk) /\ LinksTyped(Key, NULL, w)
        BY <1>0, <1>1, <1>4, <2>1
      <4>2. s \in [Key -> Int] /\ \A kid \in Key \ {o} : s[kid] = rk[kid]
        BY <1>9
      <4> QED
        BY <1>13, <3>3, <4>1, <4>2, RingBegins
  <2>2. CASE l # NULL
    <3>1. w.next = [[q.next EXCEPT ![o] = q.next[l]] EXCEPT ![l] = o]
      BY <1>0, <1>5, <1>6, <1>7, <1>14, <2>2
    <3>2. w.prev = [[q.prev EXCEPT ![o] = l] EXCEPT ![q.next[l]] = o]
      BY <1>0, <1>5, <1>6, <1>7, <1>14, <2>2
    <3>3. Gains(q, w, o, p)
      BY <1>4, <1>15, <3>1, <3>2 DEF Gains
    <3>4. \A kid \in Key : q.parent[kid] = p => rk[kid] < s[o]
      BY <1>3, <1>9
    <3>5. AtAnEnd(Key, q, w, rk, s, o, p)
      BY <1>15, <3>4 DEF AtAnEnd
    <3> QED
      BY <1>0, <1>1, <1>4, <1>9, <1>13, <2>2, <3>3, <3>5, RingGains
  <2> QED
    BY <2>1, <2>2
<1>17. \E kid \in Int : \A x \in Key : s[x] < kid
  <2>1. b + 1 \in Int /\ \A x \in Key : s[x] < b + 1
    BY <1>0, <1>3, <1>9 DEF Ringed
  <2> QED
    BY <2>1
<1>18. /\ UsedOf(z) \subseteq Key /\ m \in UsedOf(z) /\ m # o /\ w.parent[m] = NULL
       /\ \A k \in Key : w.parent[k] # NULL => k \in UsedOf(z) /\ w.parent[k] \in UsedOf(z)
       /\ \A k \in UsedOf(z) : k # m => w.parent[k] # NULL
  BY <1>0, <1>2, <1>7, <1>12
<1>19. w.next[m] = NULL /\ w.prev[m] = NULL
  BY <1>0, <1>2, <1>6, <1>7, <1>18
<1>20. g[m] = 0 /\ \A k \in Key : w.parent[k] # NULL => g[k] = g[w.parent[k]] + 1
  <2>1. g[m] = 0
    BY <1>2, <1>11, <1>18
  <2>2. ASSUME NEW k \in Key, w.parent[k] # NULL PROVE g[k] = g[w.parent[k]] + 1
    <3>1. CASE k = o
      BY <1>0, <1>7, <1>11, <3>1
    <3>2. CASE k # o
      <4>1. w.parent[k] = q.parent[k] /\ q.parent[k] \in UsedOf(st)
        BY <1>2, <1>7, <2>2, <3>2
      <4>2. q.parent[k] \in Key \ {o}
        BY <1>2, <1>12, <4>1
      <4> QED
        BY <1>2, <1>11, <2>2, <3>2, <4>1, <4>2
    <3> QED
      BY <3>1, <3>2
  <2> QED
    BY <2>1, <2>2
<1>21. Shaped(z, m, s, g)
  BY <1>11, <1>16, <1>17, <1>18, <1>19, <1>20 DEF Shaped, Shape, w
<1>22. FreeAddr(z) = FreeAddr(st) \ {o}
  BY <1>7 DEF FreeAddr
<1>23. z[o].used /\ z[o].parent = p
  BY <1>0, <1>1, <1>7
<1> QED
  BY <1>21, <1>22, <1>23

\* No key that is used goes, moves or changes.
KeptKeys(st, z) ==
  \A k \in Key : st[k].used =>
    z[k].used /\ z[k].parent = st[k].parent /\ SameValue(z[k], st[k])

LEMMA KeptOn ==
  ASSUME NEW st, NEW z, NEW y, KeptKeys(st, z), KeptKeys(z, y)
  PROVE  KeptKeys(st, y)
<1> SUFFICES ASSUME NEW k \in Key, st[k].used
             PROVE  y[k].used /\ y[k].parent = st[k].parent /\ SameValue(y[k], st[k])
  BY DEF KeptKeys
<1>1. z[k].used /\ z[k].parent = st[k].parent /\ SameValue(z[k], st[k])
  BY DEF KeptKeys
<1>2. y[k].used /\ y[k].parent = z[k].parent /\ SameValue(y[k], z[k])
  BY <1>1 DEF KeptKeys
<1> QED
  BY <1>1, <1>2 DEF SameValue

\* The first i components of the path lead to the key that s holds.
Led(s, m, path, i) == \E way : Walked(s.reg, m, path, i, way) /\ way[i] = s.key

\* A walk goes on by one key.
LEMMA WalkOn ==
  ASSUME NEW st, NEW m, NEW path, NEW i \in Nat, NEW way \in [0..i -> Key], way[0] = m,
         \A j \in 1..i : Child(st, way[j - 1], path, j) = way[j],
         NEW kid \in Key, kid = Child(st, way[i], path, i + 1), NEW s, s.reg = st, s.key = kid
  PROVE  Led(s, m, path, i + 1)
<1>1. PICK d : d = [j \in 0..(i + 1) |-> IF j = i + 1 THEN kid ELSE way[j]]
  OBVIOUS
<1>2. d \in [0..(i + 1) -> Key] /\ d[i + 1] = kid /\ \A j \in 0..i : d[j] = way[j]
  BY <1>1
<1>3. ASSUME NEW j \in 1..(i + 1) PROVE Child(st, d[j - 1], path, j) = d[j]
  <2>1. CASE j = i + 1
    <3>1. j - 1 = i /\ i \in 0..i
      BY <2>1
    <3> QED
      BY <1>2, <2>1, <3>1
  <2>2. CASE j # i + 1
    <3>1. j \in 1..i /\ j \in 0..i /\ j - 1 \in 0..i
      BY <2>2
    <3> QED
      BY <1>2, <3>1
  <2> QED
    BY <2>1, <2>2
<1>4. d[0] = m
  BY <1>2
<1>5. Walked(s.reg, m, path, i + 1, d)
  BY <1>2, <1>3, <1>4 DEF Walked
<1> QED
  BY <1>2, <1>5 DEF Led

\* The key that is made for component i + 1 is found as that component, and the way to its parent
\* stays.
LEMMA GetsLed ==
  ASSUME NEW st, NEW m, NEW rk, NEW h, Shaped(st, m, rk, h), NEW p \in Key, st[p].used,
         NEW path, NEW i \in Nat, path[i + 1] \in Name,
         NEW way, Walked(st, m, path, i, way), way[i] = p,
         NEW o \in FreeAddr(st), NEW z \in [Key -> KeyRec], Gets(st, z, o, p, path[i + 1]),
         NEW s, s.reg = z, s.key = o
  PROVE  KeptKeys(st, z) /\ Led(s, m, path, i + 1)
<1>0. /\ NULL \notin Key /\ o \in Key /\ ~st[o].used /\ o # p
      /\ \A k \in Key : st[k].parent # NULL => st[k].used
  BY ShapedIs, KeysFinite DEF FreeAddr
<1>1. PICK x, g : Shaped(z, m, x, g)
  BY GetsShaped
<1>2. PICK l : l = st[p].last
  OBVIOUS
<1>3. PICK f : f = IF l = NULL THEN o ELSE st[l].next
  OBVIOUS
<1>4. /\ \A k \in Key : /\ z[k].used <=> st[k].used \/ k = o
                        /\ z[k].parent = IF k = o THEN p ELSE st[k].parent
                        /\ z[k].last = IF k = p THEN o ELSE st[k].last
                        /\ z[k].next = IF k = o THEN f ELSE IF k = l THEN o ELSE st[k].next
      /\ z[o].name = path[i + 1] /\ \A k \in Key : k # o => SameValue(z[k], st[k])
  BY <1>2, <1>3 DEF Gets
<1>5. KeptKeys(st, z)
  BY <1>0, <1>4 DEF KeptKeys
<1>6. /\ way \in [0..i -> Key] /\ way[0] = m /\ \A j \in 0..i : h[way[j]] = j
      /\ \A j \in 1..i : Child(st, way[j - 1], path, j) = way[j]
  <2>1. \A j \in 0..i : way[j] \in Key /\ h[way[j]] = j
    BY WalkDepth
  <2> QED
    BY <2>1 DEF Walked
<1>7. l # NULL => l \in Key /\ st[l].parent = p
  BY <1>2, ShapedRing
<1>8. ASSUME NEW k \in Key, k # p PROVE SameKids(st, z, k)
  <2>1. PICK K : K = ChildrenOf(st, k)
    OBVIOUS
  <2>2. PICK C : C = ChildrenOf(z, k)
    OBVIOUS
  <2>3. \A e \in Key : e \in K <=> st[e].used /\ st[e].parent = k
    BY <2>1 DEF ChildrenOf
  <2>4. \A e \in Key : e \in C <=> z[e].used /\ z[e].parent = k
    BY <2>2 DEF ChildrenOf
  <2>5. K \subseteq Key /\ C \subseteq Key
    BY <2>1, <2>2 DEF ChildrenOf
  <2>6. ASSUME NEW e \in Key PROVE e \in K <=> e \in C
    BY <1>0, <1>4, <1>8, <2>3, <2>4
  <2>7. C = K
    BY <2>5, <2>6
  <2>8. ASSUME NEW e \in K PROVE z[e].next = st[e].next /\ z[e].name = st[e].name
    <3>1. e \in Key /\ e # o /\ e # l
      BY <1>0, <1>7, <1>8, <2>3, <2>5
    <3> QED
      BY <1>4, <3>1 DEF SameValue
  <2>9. z[k].last = st[k].last
    BY <1>4, <1>8
  <2> QED
    BY <2>1, <2>2, <2>7, <2>8, <2>9 DEF SameKids
<1>9. ASSUME NEW j \in 1..i PROVE Child(z, way[j - 1], path, j) = way[j]
  <2>1. PICK k \in Key : k = way[j - 1]
    BY <1>6
  <2>2. k # p
    <3>1. j - 1 \in 0..i /\ i \in 0..i
      OBVIOUS
    <3>2. h[way[j - 1]] = j - 1 /\ h[way[i]] = i
      BY <1>6, <3>1
    <3> QED
      BY <2>1, <3>2
  <2>3. SameKids(st, z, k)
    BY <1>8, <2>2
  <2>4. Child(z, k, path, j) = Child(st, k, path, j)
    BY <1>1, <2>3, ChildSame
  <2> QED
    BY <1>6, <2>1, <2>4
<1>10. Child(z, p, path, i + 1) = o
  <2>1. PICK names : names = IF i + 1 < Len(path) THEN Alike(path[i + 1]) ELSE {path[i + 1]}
    OBVIOUS
  <2>2. z[p].last = o /\ o # NULL
    BY <1>0, <1>4
  <2>3. z[o].name \in names
    BY <1>4, <2>1 DEF Alike
  <2>4. First(z, p, names) = o
    BY <1>1, <2>2, <2>3, FirstIsLast
  <2> QED
    BY <2>1, <2>4 DEF Child
<1> QED
  BY <1>0, <1>5, <1>6, <1>9, <1>10, WalkOn, ZenonT(40)

\* NewKeyEx leaves a tree, and one free key less when there was no such child.
LEMMA NewKeyShaped ==
  ASSUME NEW st, NEW m, NEW rk, NEW h, Shaped(st, m, rk, h), NEW p \in Key, st[p].used, NEW n \in Name,
         FreeAddr(st) # {}, NEW s, s = NewKeyEx(st, p, n)
  PROVE  /\ \E x, g : Shaped(s.reg, m, x, g)
         /\ ResolveKeyEx(st, <<n>>, p) = NULL =>
              /\ s.key \in FreeAddr(st) /\ s.reg[s.key].used
              /\ FreeAddr(s.reg) = FreeAddr(st) \ {s.key}
<1>1. CASE ResolveKeyEx(st, <<n>>, p) # NULL
  <2>1. s.reg = st
    BY <1>1 DEF NewKeyEx
  <2> QED
    BY <1>1, <2>1
<1>2. CASE ResolveKeyEx(st, <<n>>, p) = NULL
  <2>1. s.key \in FreeAddr(st) /\ s.reg \in [Key -> KeyRec] /\ Gets(st, s.reg, s.key, p, n)
    BY <1>2, NewKeyGets
  <2>2. /\ \E x, g : Shaped(s.reg, m, x, g)
        /\ s.reg[s.key].used /\ FreeAddr(s.reg) = FreeAddr(st) \ {s.key}
    BY <2>1, GetsShaped
  <2> QED
    BY <2>1, <2>2
<1> QED
  BY <1>1, <1>2

\* A registry of the shape with room for j more keys, and a key of it.
Holds(m, j) ==
  {s \in [reg : [Key -> KeyRec], key : Key] :
     /\ \E rk, h : Shaped(s.reg, m, rk, h)
     /\ s.reg[s.key].used /\ Cardinality(FreeAddr(s.reg)) >= j}

\* The free keys are counted, and each that is taken is one less.
LEMMA FreeFinite ==
  ASSUME NEW st
  PROVE  /\ IsFiniteSet(FreeAddr(st)) /\ Cardinality(FreeAddr(st)) \in Nat
         /\ \A o \in FreeAddr(st) : Cardinality(FreeAddr(st) \ {o}) = Cardinality(FreeAddr(st)) - 1
         /\ Cardinality(FreeAddr(st)) > 0 => FreeAddr(st) # {}
<1>1. FreeAddr(st) \in SUBSET Key /\ IsFiniteSet(Key)
  BY KeysFinite DEF FreeAddr
<1>2. IsFiniteSet(FreeAddr(st))
  BY <1>1, FS_Subset
<1> QED
  BY <1>2, FS_CardinalityType, FS_RemoveElement, FS_EmptySet

\* A component of a path takes at most one of the free keys.
LEMMA GetOrCreateHolds ==
  ASSUME NEW m, NEW j \in Nat, NEW s, s \in Holds(m, j + 1), NEW path, NEW i, path[i] \in Name,
         NEW d \in Nat, i = d + 1, Led(s, m, path, d), NEW t, t = GetOrCreate(s, path, i)
  PROVE  t \in Holds(m, j) /\ KeptKeys(s.reg, t.reg) /\ Led(t, m, path, i)
<1>1. /\ s \in [reg : [Key -> KeyRec], key : Key] /\ s.reg[s.key].used
      /\ Cardinality(FreeAddr(s.reg)) >= j + 1 /\ \E rk, h : Shaped(s.reg, m, rk, h)
  BY DEF Holds
<1>2. PICK rk, h : Shaped(s.reg, m, rk, h)
  BY <1>1
<1>3. Cardinality(FreeAddr(s.reg)) \in Nat
  BY FreeFinite
<1>4. PICK kid : kid = Child(s.reg, s.key, path, i)
  OBVIOUS
<1>7. PICK way : Walked(s.reg, m, path, d, way) /\ way[d] = s.key
  BY DEF Led
<1>5. CASE kid # NULL
  <2>1. t = [s EXCEPT !.key = kid]
    BY <1>4, <1>5 DEF GetOrCreate
  <2>2. kid \in Key /\ s.reg[kid].used
    BY <1>1, <1>2, <1>4, <1>5, ChildIs
  <2>3. t \in [reg : [Key -> KeyRec], key : Key] /\ t.reg = s.reg /\ t.key = kid
    BY <1>1, <2>1, <2>2
  <2>4. t \in Holds(m, j)
    BY <1>1, <1>3, <2>2, <2>3 DEF Holds
  <2>5. Led(t, m, path, d + 1)
    <3>1. /\ way \in [0..d -> Key] /\ way[0] = m
          /\ \A e \in 1..d : Child(s.reg, way[e - 1], path, e) = way[e]
      BY <1>7 DEF Walked
    <3>2. kid = Child(s.reg, way[d], path, d + 1)
      BY <1>4, <1>7
    <3> QED
      BY <2>2, <2>3, <3>1, <3>2, WalkOn
  <2>6. KeptKeys(s.reg, t.reg)
    BY <2>3 DEF KeptKeys, SameValue
  <2> QED
    BY <2>4, <2>5, <2>6
<1>6. CASE kid = NULL
  <2>1. t = NewKeyEx(s.reg, s.key, path[i])
    BY <1>4, <1>6 DEF GetOrCreate
  <2>2. PICK names : names = IF i < Len(path) THEN Alike(path[i]) ELSE {path[i]}
    OBVIOUS
  <2>3. path[i] \in names
    BY <2>2 DEF Alike
  <2>4. s.key \in Key /\ NULL \notin Key
    BY <1>1, KeysFinite
  <2>5. PICK rr \in [Key -> KeyRec] : rr = s.reg
    BY <1>1
  <2>6. PICK p \in Key : p = s.key
    BY <1>1
  <2>7. Shaped(rr, m, rk, h) /\ rr[p].used
    BY <1>1, <1>2, <2>5, <2>6
  <2>8. First(rr, p, names) = NULL
    BY <1>4, <1>6, <2>2, <2>5, <2>6 DEF Child
  <2>9. \A k \in ChildrenOf(rr, p) : k \in Key
    BY DEF ChildrenOf
  <2>10. \A k \in ChildrenOf(rr, p) : rr[k].name \notin names
    BY <2>4, <2>7, <2>8, <2>9, FirstIs
  <2>11. First(rr, p, {path[i]}) = NULL
    <3>1. PICK e : e = First(rr, p, {path[i]})
      OBVIOUS
    <3>2. \/ e = NULL
          \/ e \in ChildrenOf(rr, p) /\ rr[e].name \in {path[i]}
      BY <2>7, <3>1, FirstIs
    <3> QED
      BY <2>3, <2>10, <3>1, <3>2
  <2>12. ResolveKeyEx(rr, <<path[i]>>, p) = NULL
    BY <2>11, ResolveOne
  <2>13. FreeAddr(rr) # {}
    BY <1>1, <1>3, <2>5, FreeFinite
  <2>14. /\ \E x, g : Shaped(t.reg, m, x, g)
         /\ t.key \in FreeAddr(rr) /\ t.reg[t.key].used
         /\ FreeAddr(t.reg) = FreeAddr(rr) \ {t.key}
    BY <2>1, <2>5, <2>6, <2>7, <2>12, <2>13, NewKeyShaped
  <2>15. Cardinality(FreeAddr(t.reg)) >= j
    <3>1. Cardinality(FreeAddr(rr) \ {t.key}) = Cardinality(FreeAddr(rr)) - 1
      BY <2>14, FreeFinite
    <3>2. Cardinality(FreeAddr(t.reg)) = Cardinality(FreeAddr(rr)) - 1
      BY <2>14, <3>1
    <3>3. PICK e \in Nat : e = Cardinality(FreeAddr(rr))
      BY <1>3, <2>5
    <3>4. e >= j + 1
      BY <1>1, <2>5, <3>3
    <3> QED
      BY <3>2, <3>3, <3>4
  <2>16. t \in [reg : [Key -> KeyRec], key : Key]
    <3>1. \E aa, b : t = [reg |-> aa, key |-> b]
      <4>1. t = NewKeyEx(rr, p, path[i])
        BY <2>1, <2>5, <2>6
      <4> QED
        BY <2>12, <4>1 DEF NewKeyEx
    <3>2. t.reg \in [Key -> KeyRec]
      BY <2>14 DEF Shaped
    <3>3. t.key \in Key
      BY <2>14 DEF FreeAddr
    <3> QED
      BY <3>1, <3>2, <3>3
  <2>17. t \in Holds(m, j)
    BY <2>14, <2>15, <2>16 DEF Holds
  <2>18. KeptKeys(rr, t.reg) /\ Led(t, m, path, d + 1)
    <3>1. t = NewKeyEx(rr, p, path[d + 1]) /\ path[d + 1] \in Name
      BY <2>1, <2>5, <2>6
    <3>2. ResolveKeyEx(rr, <<path[d + 1]>>, p) = NULL
      BY <2>12
    <3>3. t.key \in FreeAddr(rr) /\ t.reg \in [Key -> KeyRec] /\ Gets(rr, t.reg, t.key, p, path[d + 1])
      BY <2>7, <2>13, <3>1, <3>2, NewKeyGets
    <3>4. Walked(rr, m, path, d, way) /\ way[d] = p
      BY <1>7, <2>5, <2>6
    <3>5. PICK o \in FreeAddr(rr) : o = t.key
      BY <3>3
    <3>6. PICK z \in [Key -> KeyRec] : z = t.reg
      BY <3>3
    <3>7. Gets(rr, z, o, p, path[d + 1])
      BY <3>3, <3>5, <3>6
    <3>8. KeptKeys(rr, z) /\ Led(t, m, path, d + 1)
      BY <2>7, <3>1, <3>4, <3>5, <3>6, <3>7, GetsLed
    <3> QED
      BY <3>6, <3>8
  <2> QED
    BY <2>5, <2>17, <2>18
<1> QED
  BY <1>5, <1>6

\* A path takes at most as many free keys as it has components, and then it leads to the key that
\* comes back.
LEMMA PathHolds ==
  ASSUME NEW m, NEW j \in Nat, NEW path \in Seq(Name), NEW st,
         [reg |-> st, key |-> m] \in Holds(m, Len(path) + j),
         NEW s, s = GetOrCreateKeyEx(st, path, m)
  PROVE  s \in Holds(m, j) /\ KeptKeys(st, s.reg) /\ Led(s, m, path, Len(path))
<1> DEFINE E(g) == [i \in 0..Len(path) |->
                      IF i = 0 THEN [reg |-> st, key |-> m] ELSE GetOrCreate(g[i - 1], path, i)]
           at == CHOOSE g : g = E(g)
<1>0. PICK n \in Nat : n = Len(path)
  OBVIOUS
<1>1. PICK V : V = [i \in 0..n |-> {x \in Holds(m, (n - i) + j) : KeptKeys(st, x.reg) /\ Led(x, m, path, i)}]
  OBVIOUS
<1>2. ASSUME NEW i \in 0..n, NEW x
      PROVE  x \in V[i] <=> x \in Holds(m, (n - i) + j) /\ KeptKeys(st, x.reg) /\ Led(x, m, path, i)
  BY <1>1
<1>3. ASSUME NEW i \in 1..n, NEW x \in V[i - 1] PROVE GetOrCreate(x, path, i) \in V[i]
  <2>1. /\ (n - i) + j \in Nat /\ path[i] \in Name /\ i \in 0..n /\ i - 1 \in 0..n /\ i = (i - 1) + 1
        /\ (n - (i - 1)) + j = ((n - i) + j) + 1
    BY <1>0
  <2>2. PICK k \in Nat : k = (n - i) + j
    BY <2>1
  <2>3. x \in Holds(m, k + 1) /\ KeptKeys(st, x.reg) /\ Led(x, m, path, i - 1)
    BY <1>2, <1>3, <2>1, <2>2
  <2>4. PICK t : t = GetOrCreate(x, path, i)
    OBVIOUS
  <2>5. PICK d \in Nat : d = i - 1
    BY <2>1
  <2>6. t \in Holds(m, k) /\ KeptKeys(x.reg, t.reg) /\ Led(t, m, path, i)
    <3>1. i = d + 1 /\ Led(x, m, path, d)
      BY <2>1, <2>3, <2>5
    <3> QED
      BY <2>1, <2>3, <2>4, <3>1, GetOrCreateHolds
  <2>7. KeptKeys(st, t.reg)
    BY <2>3, <2>6, KeptOn
  <2> QED
    BY <1>2, <2>1, <2>2, <2>4, <2>6, <2>7
<1>4. PICK next : next = [i \in 1..n |-> [x \in V[i - 1] |-> GetOrCreate(x, path, i)]]
  OBVIOUS
<1>5. \A i \in 1..n : \A x \in V[i - 1] : next[i][x] = GetOrCreate(x, path, i)
  BY <1>4
<1>6. Leads(n, V, next)
  BY <1>3, <1>5 DEF Leads
<1>7. [reg |-> st, key |-> m] \in V[0]
  <2>1. PICK x : x = [reg |-> st, key |-> m]
    OBVIOUS
  <2>2. x.reg = st /\ x.key = m /\ x \in Holds(m, (n - 0) + j)
    BY <1>0, <2>1
  <2>3. m \in Key
    BY <2>2 DEF Holds
  <2>4. PICK way : way = [i \in 0..0 |-> m]
    OBVIOUS
  <2>5. Walked(st, m, path, 0, way) /\ way[0] = m
    BY <2>3, <2>4 DEF Walked
  <2>6. Led(x, m, path, 0)
    BY <2>2, <2>5 DEF Led
  <2>7. KeptKeys(st, st)
    BY DEF KeptKeys, SameValue
  <2>8. x \in V[0]
    BY <1>2, <2>2, <2>6, <2>7
  <2> QED
    BY <2>1, <2>8
<1>21. PICK f : Made(f, n, V, [reg |-> st, key |-> m], next)
  BY <1>6, <1>7, StepsExist
<1>8. /\ f = [i \in 0..n |-> f[i]] /\ f[0] = [reg |-> st, key |-> m]
      /\ \A i \in 0..n : f[i] \in V[i]
      /\ \A i \in 1..n : f[i] = next[i][f[i - 1]]
  BY <1>21 DEF Made
<1>9. \A i \in 0..n : f[i] = IF i = 0 THEN [reg |-> st, key |-> m] ELSE GetOrCreate(f[i - 1], path, i)
  <2>1. ASSUME NEW i \in 1..n PROVE f[i] = GetOrCreate(f[i - 1], path, i)
    <3>1. i - 1 \in 0..n
      BY <1>0
    <3> QED
      BY <1>5, <1>8, <3>1
  <2>2. \A i \in 0..n : i = 0 \/ i \in 1..n
    BY <1>0
  <2> QED
    BY <1>8, <2>1, <2>2
<1>10. f = E(f)
  BY <1>0, <1>8, <1>9
<1>11. at = E(at)
  <2> HIDE DEF E
  <2> QED
    BY <1>10
<1>12. \A i \in 0..n : at[i] = IF i = 0 THEN [reg |-> st, key |-> m] ELSE GetOrCreate(at[i - 1], path, i)
  BY <1>0, <1>11
<1>13. s = at[n]
  BY <1>0 DEF GetOrCreateKeyEx
<1> HIDE DEF at
<1>14. ASSUME NEW i \in 1..n, at[i - 1] \in V[i - 1] PROVE at[i] \in V[i]
  <2>1. i \in 0..n /\ i # 0
    BY <1>0
  <2>2. at[i] = GetOrCreate(at[i - 1], path, i)
    BY <1>12, <2>1
  <2> QED
    BY <1>3, <1>14, <2>2
<1>15. at[0] \in V[0]
  BY <1>0, <1>7, <1>12
<1>16. at[n] \in V[n]
  <2>1. \A i \in 0..n : at[i] \in V[i]
    BY <1>14, <1>15, StepsStay
  <2> QED
    BY <1>0, <2>1
<1>17. (n - n) + j = j /\ n \in 0..n
  BY <1>0
<1>18. at[n] \in Holds(m, j) /\ KeptKeys(st, at[n].reg) /\ Led(at[n], m, path, n)
  BY <1>2, <1>16, <1>17
<1> QED
  BY <1>0, <1>13, <1>18

\* The array LoadRegistry reads into has its keys at different addresses.
LEMMA ArrayIs ==
  /\ Array \in [1..Keys -> Key] /\ \A i, j \in 1..Keys : Array[i] = Array[j] => i = j
  /\ Keys \in Nat \ {0}
<1>1. Keys \in Nat /\ ExistsBijection(1..Keys, Key)
  BY KeysFinite
<1>2. PICK f \in Bijection(1..Keys, Key) : TRUE
  BY <1>1 DEF ExistsBijection
<1>3. f \in [1..Keys -> Key] /\ \A i, j \in 1..Keys : f[i] = f[j] => i = j
  BY <1>2 DEF Bijection, Injection, IsInjective
<1>4. Array = CHOOSE at \in [1..Keys -> Key] : \A i, j \in 1..Keys : at[i] = at[j] => i = j
  BY DEF Array, Keys
<1>5. Keys # 0
  <2>1. /\ Default \in Seq(UNION {[1..n -> Name] : n \in 1..MaxPath}) /\ MaxPath \in Nat
        /\ Len(Default) * MaxPath < Keys
    BY RegistryAssumption DEF Keys
  <2>2. PICK n \in Nat : n = Len(Default)
    BY <2>1
  <2>3. n * MaxPath \in Nat
    BY <2>1
  <2> QED
    BY <1>1, <2>1, <2>2, <2>3
<1> QED
  BY <1>1, <1>3, <1>4, <1>5

\* The root alone.
LEMMA RootShaped ==
  ASSUME NEW m \in Key, NEW st, st = [[k \in Key |-> Blank] EXCEPT ![m] = Root]
  PROVE  (\E rk, h : Shaped(st, m, rk, h)) /\ FreeAddr(st) = Key \ {m} /\ st[m].used
<1>1. PICK z : z = [k \in Key |-> 0]
  OBVIOUS
<1>2. st \in [Key -> KeyRec] /\ st[m] = Root /\ \A k \in Key : k # m => st[k] = Blank
  BY BlankIs
<1>3. \A k \in Key : st[k].parent = NULL /\ st[k].last = NULL /\ st[k].next = NULL /\ st[k].prev = NULL
  BY <1>2, BlankIs
<1>4. UsedOf(st) = {m} /\ FreeAddr(st) = Key \ {m} /\ st[m].used
  BY <1>2, BlankIs DEF UsedOf, FreeAddr
<1>5. PICK q : q = LinksOf(st)
  OBVIOUS
<1>6. /\ LinksTyped(Key, NULL, q) /\ NULL \notin Key
      /\ \A k \in Key : q.parent[k] = NULL /\ q.last[k] = NULL /\ q.next[k] = NULL /\ q.prev[k] = NULL
  BY <1>2, <1>3, <1>5, LinksAre, KeysFinite
<1>7. z \in [Key -> Int] /\ z \in [Key -> Nat] /\ \A k \in Key : z[k] = 0
  BY <1>1
<1>8. Ringed(Key, NULL, q, z)
  BY <1>6, <1>7 DEF Ringed, LastsIn, RoundTrips, RankOrder
<1>9. \E b \in Int : \A x \in Key : z[x] < b
  <2>1. 1 \in Int /\ \A x \in Key : z[x] < 1
    BY <1>7
  <2> QED
    BY <2>1
<1>10. Shape(Key, NULL, q, UsedOf(st), m, z, z)
  BY <1>4, <1>6, <1>7, <1>8, <1>9 DEF Shape
<1>11. Shaped(st, m, z, z)
  BY <1>2, <1>5, <1>10 DEF Shaped
<1> QED
  BY <1>4, <1>11

\* A registry that holds a key holds its root too.
LEMMA HoldsRoot ==
  ASSUME NEW m, NEW j \in Nat, NEW i \in Nat, i <= j, NEW s, s \in Holds(m, j)
  PROVE  [reg |-> s.reg, key |-> m] \in Holds(m, i) /\ m \in Key /\ s.reg \in [Key -> KeyRec]
<1>1. /\ s.reg \in [Key -> KeyRec]
      /\ Cardinality(FreeAddr(s.reg)) >= j /\ \E rk, h : Shaped(s.reg, m, rk, h)
  BY DEF Holds
<1>2. PICK rk, h : Shaped(s.reg, m, rk, h)
  BY <1>1
<1>3. m \in Key /\ s.reg[m].used
  BY <1>2, ShapedIs
<1>4. Cardinality(FreeAddr(s.reg)) \in Nat
  BY FreeFinite
<1>5. PICK t : t = [reg |-> s.reg, key |-> m]
  OBVIOUS
<1>6. t \in [reg : [Key -> KeyRec], key : Key] /\ t.reg = s.reg /\ t.key = m
  BY <1>1, <1>3, <1>5
<1> QED
  BY <1>1, <1>3, <1>4, <1>5, <1>6 DEF Holds

\* The default registry is a tree, and it fits.
LEMMA DefaultHolds ==
  ASSUME NEW m, m = Array[1]
  PROVE  [reg |-> DefaultRegistry, key |-> m] \in Holds(m, 0)
<1> DEFINE st == [[k \in Key |-> Blank] EXCEPT ![Array[1]] = Root]
           E(g) == [i \in 0..Len(Default) |->
                      IF i = 0 THEN st ELSE GetOrCreateKeyEx(g[i - 1], Default[i], Array[1]).reg]
           at == CHOOSE g : g = E(g)
           Q(rr, j) == [reg |-> rr, key |-> m] \in Holds(m, j)
<1>0. /\ Default \in Seq(UNION {[1..k -> Name] : k \in 1..MaxPath}) /\ MaxPath \in Nat
      /\ Len(Default) * MaxPath < Keys
  BY RegistryAssumption DEF Keys
<1>1. PICK n \in Nat : n = Len(Default)
  BY <1>0
<1>2. PICK R : R = [i \in 0..n |-> (n - i) * MaxPath]
  OBVIOUS
<1>3. /\ R[0] = n * MaxPath /\ R[n] = 0
      /\ \A i \in 1..n : R[i] \in Nat /\ R[i - 1] = R[i] + MaxPath
  <2>1. R[0] = n * MaxPath /\ R[n] = 0
    BY <1>0, <1>2
  <2>2. ASSUME NEW i \in 1..n PROVE R[i] \in Nat /\ R[i - 1] = R[i] + MaxPath
    <3>1. R[i] = (n - i) * MaxPath /\ R[i - 1] = (n - (i - 1)) * MaxPath
      BY <1>2
    <3>2. PICK k \in Nat : k = n - i
      OBVIOUS
    <3>3. n - (i - 1) = k + 1
      BY <3>2
    <3>4. k * MaxPath \in Nat /\ (k + 1) * MaxPath = k * MaxPath + MaxPath
      BY <1>0
    <3> QED
      BY <3>1, <3>2, <3>3, <3>4
  <2> QED
    BY <2>1, <2>2
<1>4. m \in Key /\ IsFiniteSet(Key) /\ Keys \in Nat
  BY ArrayIs, KeysFinite
<1>5. Q(st, R[0])
  <2>1. (\E rk, h : Shaped(st, m, rk, h)) /\ FreeAddr(st) = Key \ {m} /\ st[m].used
    BY <1>4, RootShaped
  <2>2. st \in [Key -> KeyRec]
    BY <2>1 DEF Shaped
  <2>3. Cardinality(Key \ {m}) = Keys - 1
    BY <1>4, FS_RemoveElement DEF Keys
  <2>4. R[0] \in Nat
    BY <1>0, <1>3
  <2>5. Cardinality(FreeAddr(st)) >= R[0]
    <3>1. FreeAddr(st) = Key \ {m}
      BY <2>1
    <3> HIDE DEF st
    <3>2. Cardinality(FreeAddr(st)) = Keys - 1
      BY <2>3, <3>1
    <3>3. R[0] < Keys
      BY <1>0, <1>1, <1>3
    <3> QED
      BY <1>4, <2>4, <3>2, <3>3
  <2> HIDE DEF st
  <2>6. PICK t : t = [reg |-> st, key |-> m]
    OBVIOUS
  <2>7. t \in [reg : [Key -> KeyRec], key : Key] /\ t.reg = st /\ t.key = m
    BY <1>4, <2>2, <2>6
  <2> QED
    BY <2>1, <2>5, <2>6, <2>7 DEF Holds
<1>6. ASSUME NEW i \in 1..n, NEW rr, Q(rr, R[i - 1])
      PROVE  Q(GetOrCreateKeyEx(rr, Default[i], Array[1]).reg, R[i])
  <2>1. PICK k \in 1..MaxPath : Default[i] \in [1..k -> Name]
    BY <1>0, <1>1
  <2>2. PICK path : path = Default[i]
    OBVIOUS
  <2>3. path \in Seq(Name) /\ Len(path) = k
    BY <2>1, <2>2
  <2>4. PICK j \in Nat : j = R[i]
    BY <1>3
  <2>5. PICK x : x = [reg |-> rr, key |-> m]
    OBVIOUS
  <2>6. x \in Holds(m, j + MaxPath) /\ x.reg = rr
    BY <1>3, <1>6, <2>4, <2>5
  <2>7. k + j <= j + MaxPath /\ k + j \in Nat /\ j + MaxPath \in Nat
    BY <1>0
  <2>8. [reg |-> x.reg, key |-> m] \in Holds(m, k + j)
    BY <2>6, <2>7, HoldsRoot
  <2>9. [reg |-> rr, key |-> m] \in Holds(m, Len(path) + j)
    BY <2>3, <2>6, <2>8
  <2>10. PICK s : s = GetOrCreateKeyEx(rr, path, m)
    OBVIOUS
  <2>11. s \in Holds(m, j)
    BY <2>3, <2>9, <2>10, PathHolds
  <2>12. [reg |-> s.reg, key |-> m] \in Holds(m, j)
    BY <2>11, HoldsRoot
  <2> QED
    BY <2>2, <2>4, <2>10, <2>12
<1> HIDE DEF Q, st
<1>7. PICK V : V = [i \in 0..n |-> {rr \in [Key -> KeyRec] : Q(rr, R[i])}]
  OBVIOUS
<1>8. \A i \in 0..n : \A rr : rr \in V[i] <=> Q(rr, R[i])
  <2>1. ASSUME NEW rr, NEW j, Q(rr, j) PROVE rr \in [Key -> KeyRec]
    BY <2>1 DEF Q, Holds
  <2> QED
    BY <1>7, <2>1
<1>9. PICK next : next = [i \in 1..n |-> [rr \in V[i - 1] |-> GetOrCreateKeyEx(rr, Default[i], Array[1]).reg]]
  OBVIOUS
<1>10. \A i \in 1..n : \A rr \in V[i - 1] : next[i][rr] = GetOrCreateKeyEx(rr, Default[i], Array[1]).reg
  BY <1>9
<1>11. \A i \in 1..n : i \in 0..n /\ i - 1 \in 0..n /\ i # 0
  OBVIOUS
<1>12. Leads(n, V, next)
  <2> SUFFICES ASSUME NEW i \in 1..n, NEW rr \in V[i - 1] PROVE next[i][rr] \in V[i]
    BY DEF Leads
  <2>1. Q(rr, R[i - 1])
    BY <1>8, <1>11
  <2>2. Q(next[i][rr], R[i])
    BY <1>6, <1>10, <2>1
  <2> QED
    BY <1>8, <1>11, <2>2
<1>13. st \in V[0]
  BY <1>5, <1>8
<1>31. PICK f : Made(f, n, V, st, next)
  BY <1>12, <1>13, StepsExist
<1>14. /\ f = [i \in 0..n |-> f[i]] /\ f[0] = st
       /\ \A i \in 0..n : f[i] \in V[i]
       /\ \A i \in 1..n : f[i] = next[i][f[i - 1]]
  BY <1>31 DEF Made
<1>15. \A i \in 0..n : f[i] = IF i = 0 THEN st ELSE GetOrCreateKeyEx(f[i - 1], Default[i], Array[1]).reg
  <2>1. ASSUME NEW i \in 1..n PROVE f[i] = GetOrCreateKeyEx(f[i - 1], Default[i], Array[1]).reg
    BY <1>10, <1>11, <1>14
  <2>2. \A i \in 0..n : i = 0 \/ i \in 1..n
    OBVIOUS
  <2> QED
    BY <1>14, <2>1, <2>2
<1>16. f = E(f)
  BY <1>1, <1>14, <1>15
<1>17. at = E(at)
  <2> HIDE DEF E
  <2> QED
    BY <1>16
<1>18. \A i \in 0..n : at[i] = IF i = 0 THEN st
                               ELSE GetOrCreateKeyEx(at[i - 1], Default[i], Array[1]).reg
  BY <1>1, <1>17
<1>19. DefaultRegistry = at[n]
  BY <1>1 DEF DefaultRegistry, st
<1> HIDE DEF at
<1>20. ASSUME NEW i \in 1..n, at[i - 1] \in V[i - 1] PROVE at[i] \in V[i]
  <2>1. at[i] = GetOrCreateKeyEx(at[i - 1], Default[i], Array[1]).reg
    BY <1>11, <1>18
  <2>2. Q(at[i - 1], R[i - 1])
    BY <1>8, <1>11, <1>20
  <2>3. Q(at[i], R[i])
    BY <1>6, <2>1, <2>2
  <2> QED
    BY <1>8, <1>11, <2>3
<1>21. at[0] \in V[0]
  BY <1>13, <1>18
<1>22. at[n] \in V[n]
  <2>1. \A i \in 0..n : at[i] \in V[i]
    BY <1>20, <1>21, StepsStay
  <2> QED
    BY <2>1
<1>23. Q(at[n], R[n])
  BY <1>8, <1>22
<1> QED
  BY <1>3, <1>19, <1>23 DEF Q
-----------------------------------------------------------------------------
(***************************************************************************)
(* Deleting keys.                                                          *)
(***************************************************************************)
LEMMA UnlinkedIs ==
  ASSUME NEW st, NEW m, NEW rk, NEW h, Shaped(st, m, rk, h), NEW o \in Key, st[o].parent # NULL,
         NEW p, p = st[o].parent, NEW aa, aa = st[o].prev, NEW b, b = st[o].next, NEW y, y = Unlinked(st, o)
  PROVE  /\ y \in [Key -> KeyRec] /\ p \in Key /\ aa \in Key /\ b \in Key
         /\ \A k \in Key :
              /\ y[k].used = st[k].used /\ y[k].parent = st[k].parent
              /\ y[k].next = IF k = aa THEN b ELSE st[k].next
              /\ y[k].prev = IF k = b THEN aa ELSE st[k].prev
              /\ y[k].last = IF k # p THEN st[k].last
                             ELSE IF b = o THEN NULL ELSE IF st[p].last = o THEN aa ELSE st[p].last
<1>1. /\ st \in [Key -> KeyRec] /\ p \in Key /\ aa \in Key /\ b \in Key
      /\ st[b].prev = o /\ st[aa].next = o /\ st[b].parent = p /\ st[aa].parent = p
  BY ShapedIs, ShapedRing
<1>2. PICK u : u = WithPrev(st, b, aa)
  OBVIOUS
<1>3. /\ u \in [Key -> KeyRec]
      /\ \A k \in Key : /\ u[k].used = st[k].used /\ u[k].parent = st[k].parent
                        /\ u[k].last = st[k].last /\ u[k].next = st[k].next
                        /\ u[k].prev = IF k = b THEN aa ELSE st[k].prev
  BY <1>1, <1>2, PutPrev, SMTT(20)
<1>4. PICK v : v = WithNext(u, aa, b)
  OBVIOUS
<1>5. /\ v \in [Key -> KeyRec]
      /\ \A k \in Key : /\ v[k].used = u[k].used /\ v[k].parent = u[k].parent
                        /\ v[k].last = u[k].last /\ v[k].prev = u[k].prev
                        /\ v[k].next = IF k = aa THEN b ELSE u[k].next
  <2>1. u \in [Key -> KeyRec] /\ aa \in Key /\ b \in Key \cup {NULL}
    BY <1>1, <1>3
  <2> QED
    BY <1>4, <2>1, PutNext
<1>6. y = IF b = o THEN WithLast(st, p, NULL)
          ELSE IF st[p].last = o THEN WithLast(v, p, aa) ELSE v
  BY <1>2, <1>4 DEF Unlinked, WithLast, WithNext, WithPrev
<1>7. /\ \A k \in Key : /\ v[k].used = st[k].used /\ v[k].parent = st[k].parent /\ v[k].last = st[k].last
                        /\ v[k].next = IF k = aa THEN b ELSE st[k].next
                        /\ v[k].prev = IF k = b THEN aa ELSE st[k].prev
  BY <1>3, <1>5
<1>8. CASE b = o
  <2>1. y = WithLast(st, p, NULL)
    BY <1>6, <1>8
  <2>2. /\ y \in [Key -> KeyRec]
        /\ \A k \in Key : /\ y[k].used = st[k].used /\ y[k].parent = st[k].parent
                          /\ y[k].next = st[k].next /\ y[k].prev = st[k].prev
                          /\ y[k].last = IF k = p THEN NULL ELSE st[k].last
    <3>1. st \in [Key -> KeyRec] /\ p \in Key /\ NULL \in Key \cup {NULL}
      BY <1>1
    <3> QED
      BY <2>1, <3>1, PutLast
  <2>3. aa = o
    BY <1>1, <1>8
  <2> QED
    BY <1>1, <1>8, <2>2, <2>3
<1>9. CASE b # o /\ st[p].last = o
  <2>1. y = WithLast(v, p, aa)
    BY <1>6, <1>9
  <2>2. /\ y \in [Key -> KeyRec]
        /\ \A k \in Key : /\ y[k].used = v[k].used /\ y[k].parent = v[k].parent
                          /\ y[k].next = v[k].next /\ y[k].prev = v[k].prev
                          /\ y[k].last = IF k = p THEN aa ELSE v[k].last
    <3>1. v \in [Key -> KeyRec] /\ p \in Key /\ aa \in Key \cup {NULL}
      BY <1>1, <1>5
    <3> QED
      BY <2>1, <3>1, PutLast
  <2> QED
    BY <1>1, <1>7, <1>9, <2>2
<1>10. CASE b # o /\ st[p].last # o
  <2>1. y = v
    BY <1>6, <1>10
  <2> QED
    BY <1>1, <1>5, <1>7, <1>10, <2>1
<1> QED
  BY <1>8, <1>9, <1>10

\* The shape stays when a key that is no root is deleted with all that is below it.
LEMMA DeleteShaped ==
  ASSUME NEW st, NEW m, NEW rk, NEW h, Shaped(st, m, rk, h), NEW o \in Key, st[o].parent # NULL,
         NEW x, x = DeleteKeyEx(st, o)
  PROVE  Shaped(x, m, rk, h)
<1>1. PICK p : p = st[o].parent
  OBVIOUS
<1>2. PICK aa : aa = st[o].prev
  OBVIOUS
<1>3. PICK b : b = st[o].next
  OBVIOUS
<1>4. PICK y : y = Unlinked(st, o)
  OBVIOUS
<1>5. /\ y \in [Key -> KeyRec] /\ p \in Key /\ aa \in Key /\ b \in Key
      /\ \A k \in Key :
           /\ y[k].used = st[k].used /\ y[k].parent = st[k].parent
           /\ y[k].next = IF k = aa THEN b ELSE st[k].next
           /\ y[k].prev = IF k = b THEN aa ELSE st[k].prev
           /\ y[k].last = IF k # p THEN st[k].last
                          ELSE IF b = o THEN NULL ELSE IF st[p].last = o THEN aa ELSE st[p].last
  BY <1>1, <1>2, <1>3, <1>4, UnlinkedIs
<1>6. PICK B : B = Below(y, o)
  OBVIOUS
<1>7. x = [k \in Key |-> IF k \in B THEN Blank ELSE y[k]]
  BY <1>4, <1>6 DEF DeleteKeyEx, FreeKey
<1>8. /\ st \in [Key -> KeyRec] /\ Ringed(Key, NULL, LinksOf(st), rk) /\ NULL \notin Key
      /\ m \in Key /\ st[m].used /\ st[m].parent = NULL
      /\ \A k \in Key : st[k].parent # NULL => /\ st[k].used /\ st[k].parent \in Key
                                               /\ st[st[k].parent].used
                                               /\ h[k] = h[st[k].parent] + 1
      /\ \A k \in Key : st[k].used /\ k # m => st[k].parent # NULL
      /\ h \in [Key -> Nat] /\ h[m] = 0 /\ st[m].next = NULL /\ st[m].prev = NULL
  BY ShapedIs, KeysFinite
<1>9. Graded(y, h)
  <2>1. Graded(st, h)
    BY ShapedGraded
  <2> QED
    BY <1>5, <2>1 DEF Graded
<1>10. /\ B \subseteq Key /\ o \in B
       /\ \A k \in Key : y[k].used /\ y[k].parent \in B => k \in B
       /\ \A S : o \in S /\ (\A k \in Key : y[k].used /\ y[k].parent \in S => k \in S) => B \subseteq S
  BY <1>6, <1>9, BelowIs
<1>11. /\ \A k \in Key : st[k].parent \in B => k \in B
       /\ \A k \in B : k = o \/ st[k].parent \in B
  <2>1. ASSUME NEW k \in Key, st[k].parent \in B PROVE k \in B
    BY <1>5, <1>8, <1>10, <2>1
  <2>2. PICK S : S = {k \in B : k = o \/ st[k].parent \in B}
    OBVIOUS
  <2>3. o \in S
    BY <1>10, <2>2
  <2>4. ASSUME NEW k \in Key, y[k].used, y[k].parent \in S PROVE k \in S
    BY <1>5, <1>10, <2>2, <2>4
  <2>5. B \subseteq S
    BY <1>10, <2>3, <2>4
  <2> QED
    BY <2>1, <2>2, <2>5
<1>12. m \notin B
  BY <1>8, <1>10, <1>11
<1>13. PICK q : q = LinksOf(st)
  OBVIOUS
<1>14. PICK w : w = LinksOf(y)
  OBVIOUS
<1>15. /\ LinksTyped(Key, NULL, q) /\ LinksTyped(Key, NULL, w) /\ Ringed(Key, NULL, q, rk)
       /\ \A k \in Key : /\ q.last[k] = st[k].last /\ q.next[k] = st[k].next
                         /\ q.prev[k] = st[k].prev /\ q.parent[k] = st[k].parent
       /\ \A k \in Key : /\ w.last[k] = y[k].last /\ w.next[k] = y[k].next
                         /\ w.prev[k] = y[k].prev /\ w.parent[k] = y[k].parent
  BY <1>5, <1>8, <1>13, <1>14, LinksAre
<1>16. PICK z : z = [last |-> w.last, next |-> w.next, prev |-> w.prev,
                     parent |-> [q.parent EXCEPT ![o] = NULL]]
  OBVIOUS
<1>17. /\ q.last \in [Key -> Key \cup {NULL}] /\ q.next \in [Key -> Key \cup {NULL}]
       /\ q.prev \in [Key -> Key \cup {NULL}] /\ q.parent \in [Key -> Key \cup {NULL}]
       /\ w.last \in [Key -> Key \cup {NULL}] /\ w.next \in [Key -> Key \cup {NULL}]
       /\ w.prev \in [Key -> Key \cup {NULL}]
  BY <1>15 DEF LinksTyped, LinkSet
<1>18. /\ z.last = w.last /\ z.next = w.next /\ z.prev = w.prev
       /\ z.parent = [q.parent EXCEPT ![o] = NULL] /\ LinksTyped(Key, NULL, z)
  <2>1. z.last = w.last /\ z.next = w.next /\ z.prev = w.prev /\ z.parent = [q.parent EXCEPT ![o] = NULL]
    BY <1>16
  <2>2. [q.parent EXCEPT ![o] = NULL] \in [Key -> Key \cup {NULL}]
    BY <1>17
  <2> QED
    BY <1>17, <2>1, <2>2 DEF LinksTyped, LinkSet
<1>19. /\ z.next = [q.next EXCEPT ![aa] = b]
       /\ z.prev = [q.prev EXCEPT ![b] = aa]
       /\ z.last = [q.last EXCEPT ![p] = IF b = o THEN NULL ELSE IF q.last[p] = o THEN aa ELSE q.last[p]]
  <2>1. w.next = [q.next EXCEPT ![aa] = b]
    BY <1>5, <1>15, <1>17
  <2>2. w.prev = [q.prev EXCEPT ![b] = aa]
    BY <1>5, <1>15, <1>17
  <2>3. w.last = [q.last EXCEPT ![p] = IF b = o THEN NULL ELSE IF q.last[p] = o THEN aa ELSE q.last[p]]
    BY <1>5, <1>15, <1>17
  <2> QED
    BY <1>18, <2>1, <2>2, <2>3
<1>20. q.prev[o] = aa /\ q.next[o] = b /\ q.parent[o] = p
  BY <1>1, <1>2, <1>3, <1>15
<1>21. Loses(q, z, o, NULL)
  BY <1>18, <1>19, <1>20 DEF Loses
<1>22. Ringed(Key, NULL, z, rk)
  <2>1. q.parent[o] # NULL
    BY <1>15
  <2> QED
    BY <1>15, <1>18, <1>21, <2>1, RingLoses
<1>23. \A k \in Key : z.parent[k] = IF k = o THEN NULL ELSE st[k].parent
  BY <1>15, <1>17, <1>18
<1>24. \A k \in Key : z.parent[k] # NULL => (k \in B <=> z.parent[k] \in B)
  BY <1>8, <1>11, <1>23
<1>25. x \in [Key -> KeyRec] /\ \A k \in Key : x[k] = IF k \in B THEN Blank ELSE y[k]
  BY <1>5, <1>7, BlankIs
<1>26. PICK g : g = LinksOf(x)
  OBVIOUS
<1>27. /\ LinksTyped(Key, NULL, g)
       /\ \A k \in Key : /\ g.last[k] = x[k].last /\ g.next[k] = x[k].next
                         /\ g.prev[k] = x[k].prev /\ g.parent[k] = x[k].parent
  BY <1>25, <1>26, LinksAre
<1>28. \A k \in Key : /\ g.last[k] = IF k \in B THEN NULL ELSE z.last[k]
                      /\ g.next[k] = IF k \in B THEN NULL ELSE z.next[k]
                      /\ g.prev[k] = IF k \in B THEN NULL ELSE z.prev[k]
                      /\ g.parent[k] = IF k \in B THEN NULL ELSE z.parent[k]
  <2> SUFFICES ASSUME NEW k \in Key
               PROVE  /\ g.last[k] = IF k \in B THEN NULL ELSE z.last[k]
                      /\ g.next[k] = IF k \in B THEN NULL ELSE z.next[k]
                      /\ g.prev[k] = IF k \in B THEN NULL ELSE z.prev[k]
                      /\ g.parent[k] = IF k \in B THEN NULL ELSE z.parent[k]
    OBVIOUS
  <2>1. CASE k \in B
    BY <1>25, <1>27, <2>1, BlankIs
  <2>2. CASE k \notin B
    <3>1. x[k] = y[k] /\ k # o
      BY <1>10, <1>25, <2>2
    <3> QED
      BY <1>5, <1>15, <1>18, <1>23, <1>27, <2>2, <3>1
  <2> QED
    BY <2>1, <2>2
<1>29. Drops(Key, NULL, z, g, B)
  <2>1. /\ g.last \in [Key -> Key \cup {NULL}] /\ g.next \in [Key -> Key \cup {NULL}]
        /\ g.prev \in [Key -> Key \cup {NULL}] /\ g.parent \in [Key -> Key \cup {NULL}]
    BY <1>27 DEF LinksTyped, LinkSet
  <2>2. g.last = [k \in Key |-> IF k \in B THEN NULL ELSE z.last[k]]
    BY <1>28, <2>1
  <2>3. g.next = [k \in Key |-> IF k \in B THEN NULL ELSE z.next[k]]
    BY <1>28, <2>1
  <2>4. g.prev = [k \in Key |-> IF k \in B THEN NULL ELSE z.prev[k]]
    BY <1>28, <2>1
  <2>5. g.parent = [k \in Key |-> IF k \in B THEN NULL ELSE z.parent[k]]
    BY <1>28, <2>1
  <2> QED
    BY <2>2, <2>3, <2>4, <2>5 DEF Drops
<1>30. Ringed(Key, NULL, g, rk)
  BY <1>22, <1>24, <1>29, RingsDrop
<1>31. \A k \in Key : x[k].used <=> st[k].used /\ k \notin B
  BY <1>5, <1>25, BlankIs
<1>32. \A k \in Key : g.parent[k] = IF k \in B THEN NULL ELSE st[k].parent
  BY <1>10, <1>23, <1>28
<1>33. PICK U : U = UsedOf(x)
  OBVIOUS
<1>34. U \subseteq Key /\ \A k \in Key : k \in U <=> st[k].used /\ k \notin B
  BY <1>31, <1>33 DEF UsedOf
<1>35. /\ m \in U /\ g.parent[m] = NULL
       /\ \A k \in Key : g.parent[k] # NULL => k \in U /\ g.parent[k] \in U
       /\ \A k \in U : k # m => g.parent[k] # NULL
  <2>1. ASSUME NEW k \in Key, g.parent[k] # NULL PROVE k \in U /\ g.parent[k] \in U
    BY <1>8, <1>11, <1>32, <1>34, <2>1
  <2> QED
    BY <1>8, <1>12, <1>32, <1>34, <2>1
<1>36. g.next[m] = NULL /\ g.prev[m] = NULL
  <2>1. st[aa].parent = p /\ st[b].parent = p
    BY <1>1, <1>2, <1>3, ShapedRing
  <2>2. aa # m /\ b # m
    BY <1>5, <1>8, <2>1
  <2>3. z.next[m] = NULL /\ z.prev[m] = NULL
    BY <1>5, <1>8, <1>15, <1>18, <2>2
  <2> QED
    BY <1>8, <1>12, <1>28, <2>3
<1>37. \A k \in Key : g.parent[k] # NULL => h[k] = h[g.parent[k]] + 1
  BY <1>8, <1>32
<1>38. \E kid \in Int : \A k \in Key : rk[k] < kid
  BY DEF Shaped, Shape
<1>39. Shape(Key, NULL, g, U, m, rk, h)
  BY <1>8, <1>30, <1>34, <1>35, <1>36, <1>37, <1>38 DEF Shape
<1> QED
  BY <1>25, <1>26, <1>33, <1>39 DEF Shaped
-----------------------------------------------------------------------------
(***************************************************************************)
(* Setting and renaming keys: their links stay.                            *)
(***************************************************************************)
LEMMA SameLinks ==
  ASSUME NEW st, NEW m, NEW rk, NEW h, Shaped(st, m, rk, h), NEW z \in [Key -> KeyRec],
         \A k \in Key : /\ z[k].used = st[k].used /\ z[k].parent = st[k].parent
                        /\ z[k].last = st[k].last /\ z[k].next = st[k].next /\ z[k].prev = st[k].prev
  PROVE  Shaped(z, m, rk, h)
<1>1. st \in [Key -> KeyRec] /\ DOMAIN st = Key /\ DOMAIN z = Key
  BY DEF Shaped
<1>2. /\ [k \in Key |-> z[k].last] = [k \in Key |-> st[k].last]
      /\ [k \in Key |-> z[k].next] = [k \in Key |-> st[k].next]
      /\ [k \in Key |-> z[k].prev] = [k \in Key |-> st[k].prev]
      /\ [k \in Key |-> z[k].parent] = [k \in Key |-> st[k].parent]
  OBVIOUS
<1>3. LinksOf(z) = LinksOf(st)
  BY <1>1, <1>2 DEF LinksOf
<1>4. UsedOf(z) = UsedOf(st)
  BY DEF UsedOf
<1>5. Shape(Key, NULL, LinksOf(st), UsedOf(st), m, rk, h)
  BY DEF Shaped
<1> QED
  BY <1>3, <1>4, <1>5 DEF Shaped

\* What is stored is a sequence of bytes.
LEMMA StoredIs ==
  ASSUME NEW t \in Type, NEW v \in Value(t)
  PROVE  Stored(t, v) \in Seq(Octet)
<1>1. t \in DOMAIN RKT
  BY RegistryAssumption
<1>2. t \in {"nodata", "char", "bool", "short", "int", "big", "text"}
  BY <1>1 DEF RKT
<1>3. CASE t = "text"
  <2>1. Stored(t, v) = v /\ v \in [1..1 -> Octet]
    BY <1>3 DEF Stored, Value
  <2>2. PICK n \in Nat : n = 1
    OBVIOUS
  <2>3. v \in [1..n -> Octet]
    BY <2>1, <2>2
  <2>4. v \in Seq(Octet)
    BY <2>3
  <2> QED
    BY <2>1, <2>4
<1>4. CASE t # "text"
  <2>1. PICK b \in Octet : v = [i \in 1..Width[t] |-> b]
    BY <1>4 DEF Value
  <2>2. Stored(t, v) = SubSeq(v, 1, Size(t))
    BY <1>4 DEF Stored
  <2>3. Width[t] \in Nat /\ Size(t) \in Nat /\ Size(t) <= Width[t]
    <3>1. CASE t = "nodata"
      BY <3>1 DEF Width, Size, RDSizes, RKT
    <3>2. CASE t = "char"
      BY <3>2 DEF Width, Size, RDSizes, RKT
    <3>3. CASE t = "bool"
      BY <3>3 DEF Width, Size, RDSizes, RKT
    <3>4. CASE t = "short"
      BY <3>4 DEF Width, Size, RDSizes, RKT
    <3>5. CASE t = "int"
      BY <3>5 DEF Width, Size, RDSizes, RKT
    <3>6. CASE t = "big"
      BY <3>6 DEF Width, Size, RDSizes, RKT
    <3> QED
      BY <1>2, <1>4, <3>1, <3>2, <3>3, <3>4, <3>5, <3>6
  <2>4. PICK w \in Nat : w = Width[t]
    BY <2>3
  <2>5. PICK n \in Nat : n = Size(t)
    BY <2>3
  <2>6. v \in Seq(Octet) /\ Len(v) = w /\ n <= w
    BY <2>1, <2>3, <2>4, <2>5
  <2>7. SubSeq(v, 1, n) \in Seq(Octet)
    BY <2>6
  <2> QED
    BY <2>2, <2>5, <2>7
<1> QED
  BY <1>3, <1>4

\* KeySetData changes the type and the data of its key.
LEMMA SetDataIs ==
  ASSUME NEW st \in [Key -> KeyRec], NEW o \in Key,
         NEW t \in Type, NEW v \in Value(t), NEW z, z = SetData(st, o, t, v)
  PROVE  /\ z \in [Key -> KeyRec] /\ z[o].type = t /\ z[o].data = Stored(t, v)
         /\ \A k \in Key : /\ k # o => z[k] = st[k]
                           /\ z[k].name = st[k].name
                           /\ z[k].used = st[k].used /\ z[k].parent = st[k].parent
                           /\ z[k].last = st[k].last /\ z[k].next = st[k].next /\ z[k].prev = st[k].prev
<1>1. st[o] \in KeyRec
  OBVIOUS
<1>2. PICK d : d = Stored(t, v)
  OBVIOUS
<1>3. d \in Seq(Octet)
  BY <1>2, StoredIs
<1>4. PICK w : w = [[st[o] EXCEPT !.type = t] EXCEPT !.data = d]
  OBVIOUS
<1>5. /\ w \in KeyRec /\ w.used = st[o].used /\ w.parent = st[o].parent /\ w.name = st[o].name
      /\ w.last = st[o].last /\ w.next = st[o].next /\ w.prev = st[o].prev
      /\ w.type = t /\ w.data = d
  BY <1>1, <1>3, <1>4 DEF KeyRec
<1>6. z = [st EXCEPT ![o] = w]
  BY <1>1, <1>2, <1>4 DEF SetData
<1>7. z \in [Key -> KeyRec] /\ \A k \in Key : z[k] = IF k = o THEN w ELSE st[k]
  BY <1>1, <1>5, <1>6
<1> QED
  BY <1>2, <1>5, <1>7

\* KeySetData changes no link.
LEMMA SetDataShaped ==
  ASSUME NEW st, NEW m, NEW rk, NEW h, Shaped(st, m, rk, h), NEW o \in Key,
         NEW t \in Type, NEW v \in Value(t), NEW z, z = SetData(st, o, t, v)
  PROVE  Shaped(z, m, rk, h)
<1>1. st \in [Key -> KeyRec]
  BY DEF Shaped
<1>2. /\ z \in [Key -> KeyRec]
      /\ \A k \in Key : /\ z[k].used = st[k].used /\ z[k].parent = st[k].parent
                        /\ z[k].last = st[k].last /\ z[k].next = st[k].next /\ z[k].prev = st[k].prev
  BY <1>1, SetDataIs
<1> QED
  BY <1>2, SameLinks

\* Every path leads where it led.
LEMMA SetDataWalk ==
  ASSUME NEW st, NEW m, NEW rk, NEW h, Shaped(st, m, rk, h), NEW o \in Key,
         NEW t \in Type, NEW v \in Value(t), NEW z, z = SetData(st, o, t, v),
         NEW path, NEW n \in Nat, NEW way, Walked(st, m, path, n, way)
  PROVE  Walked(z, m, path, n, way)
<1>1. st \in [Key -> KeyRec] /\ Shaped(z, m, rk, h)
  BY SetDataShaped DEF Shaped
<1>2. \A k \in Key : /\ z[k].name = st[k].name /\ z[k].used = st[k].used /\ z[k].parent = st[k].parent
                     /\ z[k].last = st[k].last /\ z[k].next = st[k].next
  BY <1>1, SetDataIs
<1>3. ASSUME NEW k \in Key PROVE SameKids(st, z, k)
  <2>1. ChildrenOf(z, k) = ChildrenOf(st, k)
    BY <1>2 DEF ChildrenOf
  <2>2. \A e \in ChildrenOf(st, k) : e \in Key
    BY DEF ChildrenOf
  <2> QED
    BY <1>2, <2>1, <2>2 DEF SameKids
<1>4. ASSUME NEW i \in 1..n PROVE Child(z, way[i - 1], path, i) = way[i]
  <2>1. PICK k \in Key : k = way[i - 1]
    BY DEF Walked
  <2>2. Child(z, k, path, i) = Child(st, k, path, i)
    BY <1>1, <1>3, ChildSame
  <2> QED
    BY <2>1, <2>2 DEF Walked
<1> QED
  BY <1>4 DEF Walked

\* RenameKey changes no link.
LEMMA RenameShaped ==
  ASSUME NEW st, NEW m, NEW rk, NEW h, Shaped(st, m, rk, h), NEW o \in Key,
         NEW n \in Name, NEW z, z = [st EXCEPT ![o].name = n]
  PROVE  Shaped(z, m, rk, h)
<1>1. st \in [Key -> KeyRec] /\ st[o] \in KeyRec
  BY DEF Shaped
<1>2. PICK w : w = [st[o] EXCEPT !.name = n]
  OBVIOUS
<1>3. /\ w \in KeyRec /\ w.used = st[o].used /\ w.parent = st[o].parent
      /\ w.last = st[o].last /\ w.next = st[o].next /\ w.prev = st[o].prev
  BY <1>1, <1>2 DEF KeyRec
<1>4. z = [st EXCEPT ![o] = w]
  BY <1>2
<1>5. z \in [Key -> KeyRec] /\ \A k \in Key : z[k] = IF k = o THEN w ELSE st[k]
  BY <1>1, <1>3, <1>4
<1>6. \A k \in Key : /\ z[k].used = st[k].used /\ z[k].parent = st[k].parent
                     /\ z[k].last = st[k].last /\ z[k].next = st[k].next /\ z[k].prev = st[k].prev
  BY <1>3, <1>5
<1> QED
  BY <1>5, <1>6, SameLinks
-----------------------------------------------------------------------------
(***************************************************************************)
(* Saving and loading: the shape is carried over to other elements.        *)
(***************************************************************************)
\* A link of y and that of the element e[y] that it stands for.
SameLink(x, N, w, M, e) == (x = N /\ w = M) \/ (x \in DOMAIN e /\ w = e[x] /\ w # M /\ x # N)

\* Each element of V stands for one of U, and so do its links; the rest of W has none.
Moves(W, N, q, V, U, M, w, e) ==
  /\ e \in [V -> U] /\ \A x, y \in V : e[x] = e[y] => x = y
  /\ \A y \in V : /\ SameLink(q.last[y], N, w.last[e[y]], M, e)
                  /\ SameLink(q.next[y], N, w.next[e[y]], M, e)
                  /\ SameLink(q.prev[y], N, w.prev[e[y]], M, e)
                  /\ SameLink(q.parent[y], N, w.parent[e[y]], M, e)
  /\ \A y \in W \ V : q.last[y] = N /\ q.next[y] = N /\ q.prev[y] = N /\ q.parent[y] = N

\* The shape of a tree does not depend on the addresses of its elements.
LEMMA ShapeMoves ==
  ASSUME NEW X, NEW M, NEW w, NEW U, NEW m, NEW rk, NEW h, Shape(X, M, w, U, m, rk, h),
         NEW W, NEW N, N \notin W, NEW q, LinksTyped(W, N, q), NEW V \in SUBSET W, NEW e,
         Moves(W, N, q, V, U, M, w, e), NEW top \in V, e[top] = m
  PROVE  \E s, g : Shape(W, N, q, V, top, s, g)
<1>1. /\ Ringed(X, M, w, rk) /\ U \subseteq X /\ m \in U /\ w.parent[m] = M
      /\ \A x \in X : w.parent[x] # M => x \in U /\ w.parent[x] \in U
      /\ \A x \in U : x # m => w.parent[x] # M
      /\ w.next[m] = M /\ w.prev[m] = M
      /\ h \in [X -> Nat] /\ h[m] = 0
      /\ \A x \in X : w.parent[x] # M => h[x] = h[w.parent[x]] + 1
  BY DEF Shape
<1>2. PICK b \in Int : \A x \in X : rk[x] < b
  BY DEF Shape
<1>3. /\ M \notin X /\ rk \in [X -> Int]
      /\ LastsIn(X, M, w) /\ RoundTrips(X, M, w) /\ RankOrder(X, M, w, rk)
  BY <1>1 DEF Ringed
<1>4. /\ e \in [V -> U] /\ \A x, y \in V : e[x] = e[y] => x = y
      /\ \A y \in W \ V : q.last[y] = N /\ q.next[y] = N /\ q.prev[y] = N /\ q.parent[y] = N
  BY DEF Moves
<1>5. \A y \in V : e[y] \in U /\ e[y] \in X /\ y \in W /\ y # N /\ e[y] # M
  BY <1>1, <1>3, <1>4
<1>6. /\ \A y \in V : \/ q.last[y] = N /\ w.last[e[y]] = M
                      \/ q.last[y] \in V /\ q.last[y] # N /\ w.last[e[y]] # M /\ w.last[e[y]] = e[q.last[y]]
      /\ \A y \in V : \/ q.next[y] = N /\ w.next[e[y]] = M
                      \/ q.next[y] \in V /\ q.next[y] # N /\ w.next[e[y]] # M /\ w.next[e[y]] = e[q.next[y]]
      /\ \A y \in V : \/ q.prev[y] = N /\ w.prev[e[y]] = M
                      \/ q.prev[y] \in V /\ q.prev[y] # N /\ w.prev[e[y]] # M /\ w.prev[e[y]] = e[q.prev[y]]
      /\ \A y \in V : \/ q.parent[y] = N /\ w.parent[e[y]] = M
                      \/ q.parent[y] \in V /\ q.parent[y] # N /\ w.parent[e[y]] # M /\ w.parent[e[y]] = e[q.parent[y]]
  <2>1. DOMAIN e = V
    BY <1>4
  <2>2. \A y \in V : /\ SameLink(q.last[y], N, w.last[e[y]], M, e)
                     /\ SameLink(q.next[y], N, w.next[e[y]], M, e)
                     /\ SameLink(q.prev[y], N, w.prev[e[y]], M, e)
                     /\ SameLink(q.parent[y], N, w.parent[e[y]], M, e)
    BY DEF Moves
  <2> QED
    BY <2>1, <2>2 DEF SameLink
<1>7. PICK s : s = [y \in W |-> IF y \in V THEN rk[e[y]] ELSE 0]
  OBVIOUS
<1>8. s \in [W -> Int] /\ \A y \in V : s[y] = rk[e[y]]
  BY <1>3, <1>5, <1>7
<1>9. PICK g : g = [y \in W |-> IF y \in V THEN h[e[y]] ELSE 0]
  OBVIOUS
<1>10. g \in [W -> Nat] /\ \A y \in V : g[y] = h[e[y]]
  BY <1>1, <1>5, <1>9
<1>11. LastsIn(W, N, q)
  <2> SUFFICES ASSUME NEW o \in W, q.last[o] # N PROVE q.parent[q.last[o]] = o
    BY DEF LastsIn
  <2>1. o \in V
    BY <1>4
  <2>2. PICK l : l = q.last[o]
    OBVIOUS
  <2>3. l \in V /\ w.last[e[o]] # M /\ w.last[e[o]] = e[l]
    BY <1>6, <2>1, <2>2
  <2>4. w.parent[e[l]] = e[o]
    BY <1>3, <1>5, <2>1, <2>3 DEF LastsIn
  <2>5. q.parent[l] \in V /\ e[q.parent[l]] = e[o]
    BY <1>5, <1>6, <2>1, <2>3, <2>4
  <2> QED
    BY <1>4, <2>1, <2>2, <2>5
<1>12. ASSUME NEW x \in W, q.parent[x] # N
       PROVE  /\ x \in V /\ q.parent[x] \in V /\ e[q.parent[x]] = w.parent[e[x]] /\ w.parent[e[x]] # M
              /\ q.next[x] \in V /\ q.next[x] # N /\ e[q.next[x]] = w.next[e[x]]
              /\ q.prev[x] \in V /\ q.prev[x] # N /\ e[q.prev[x]] = w.prev[e[x]]
  <2>1. x \in V
    BY <1>4, <1>12
  <2>2. q.parent[x] \in V /\ e[q.parent[x]] = w.parent[e[x]] /\ w.parent[e[x]] # M
    BY <1>6, <1>12, <2>1
  <2>3. w.next[e[x]] # M /\ w.prev[e[x]] # M
    BY <1>3, <1>5, <2>1, <2>2 DEF RoundTrips
  <2> QED
    BY <1>6, <2>1, <2>2, <2>3
<1>13. RoundTrips(W, N, q)
  <2> SUFFICES ASSUME NEW x \in W, q.parent[x] # N
               PROVE  /\ q.next[x] # N /\ q.parent[q.next[x]] = q.parent[x] /\ q.prev[q.next[x]] = x
                      /\ q.prev[x] # N /\ q.parent[q.prev[x]] = q.parent[x] /\ q.next[q.prev[x]] = x
                      /\ q.last[q.parent[x]] # N
    BY DEF RoundTrips
  <2>1. PICK p : p = q.parent[x]
    OBVIOUS
  <2>2. PICK u : u = q.next[x]
    OBVIOUS
  <2>3. PICK v : v = q.prev[x]
    OBVIOUS
  <2>4. /\ x \in V /\ p \in V /\ e[p] = w.parent[e[x]] /\ w.parent[e[x]] # M
        /\ u \in V /\ u # N /\ e[u] = w.next[e[x]]
        /\ v \in V /\ v # N /\ e[v] = w.prev[e[x]]
    BY <1>12, <2>1, <2>2, <2>3
  <2>5. /\ w.parent[e[u]] = e[p] /\ w.prev[e[u]] = e[x]
        /\ w.parent[e[v]] = e[p] /\ w.next[e[v]] = e[x] /\ w.last[e[p]] # M
    BY <1>3, <1>5, <2>4 DEF RoundTrips
  <2>6. q.parent[u] = p
    BY <1>4, <1>5, <1>6, <2>4, <2>5
  <2>7. q.prev[u] = x
    BY <1>4, <1>5, <1>6, <2>4, <2>5
  <2>8. q.parent[v] = p
    BY <1>4, <1>5, <1>6, <2>4, <2>5
  <2>9. q.next[v] = x
    BY <1>4, <1>5, <1>6, <2>4, <2>5
  <2>10. q.last[p] # N
    BY <1>6, <2>4, <2>5
  <2> QED
    BY <2>1, <2>2, <2>3, <2>4, <2>6, <2>7, <2>8, <2>9, <2>10
<1>14. RankOrder(W, N, q, s)
  <2> SUFFICES ASSUME NEW x \in W, NEW y \in W, q.parent[x] # N, q.parent[y] = q.parent[x]
               PROVE  /\ s[x] = s[y] => x = y
                      /\ IF x = q.last[q.parent[x]] THEN s[y] <= s[x] /\ s[q.next[x]] <= s[y]
                         ELSE s[x] < s[q.next[x]] /\ (s[x] < s[y] => s[q.next[x]] <= s[y])
    BY DEF RankOrder
  <2>1. PICK p : p = q.parent[x]
    OBVIOUS
  <2>2. PICK u : u = q.next[x]
    OBVIOUS
  <2>3. /\ x \in V /\ p \in V /\ e[p] = w.parent[e[x]] /\ w.parent[e[x]] # M
        /\ u \in V /\ e[u] = w.next[e[x]]
    BY <1>12, <2>1, <2>2
  <2>4. y \in V /\ e[p] = w.parent[e[y]]
    BY <1>12, <2>1
  <2>5. /\ rk[e[x]] = rk[e[y]] => e[x] = e[y]
        /\ IF e[x] = w.last[e[p]] THEN rk[e[y]] <= rk[e[x]] /\ rk[e[u]] <= rk[e[y]]
           ELSE rk[e[x]] < rk[e[u]] /\ (rk[e[x]] < rk[e[y]] => rk[e[u]] <= rk[e[y]])
    <3>1. e[x] \in X /\ e[y] \in X /\ w.parent[e[y]] = w.parent[e[x]]
      BY <1>5, <2>3, <2>4
    <3>2. /\ rk[e[x]] = rk[e[y]] => e[x] = e[y]
          /\ IF e[x] = w.last[w.parent[e[x]]] THEN rk[e[y]] <= rk[e[x]] /\ rk[w.next[e[x]]] <= rk[e[y]]
             ELSE rk[e[x]] < rk[w.next[e[x]]] /\ (rk[e[x]] < rk[e[y]] => rk[w.next[e[x]]] <= rk[e[y]])
      BY <1>3, <2>3, <3>1 DEF RankOrder
    <3> QED
      BY <2>3, <3>2
  <2>6. x = q.last[p] <=> e[x] = w.last[e[p]]
    BY <1>4, <1>5, <1>6, <2>3
  <2>7. s[x] = rk[e[x]] /\ s[y] = rk[e[y]] /\ s[u] = rk[e[u]]
    BY <1>8, <2>3, <2>4
  <2>8. e[x] = e[y] => x = y
    BY <1>4, <2>3, <2>4
  <2> QED
    BY <2>1, <2>2, <2>5, <2>6, <2>7, <2>8
<1>15. Ringed(W, N, q, s)
  BY <1>8, <1>11, <1>13, <1>14 DEF Ringed
<1>16. \E aa \in Int : \A x \in W : s[x] < aa
  <2>1. PICK aa \in Int : aa >= b /\ aa >= 1
    <3>1. b >= 1 \/ 1 >= b
      OBVIOUS
    <3> QED
      BY <3>1
  <2>2. ASSUME NEW x \in W PROVE s[x] < aa
    <3>1. CASE x \in V
      <4>1. s[x] = rk[e[x]] /\ e[x] \in X /\ rk[e[x]] \in Int /\ rk[e[x]] < b
        BY <1>2, <1>3, <1>5, <1>8, <3>1
      <4> QED
        BY <2>1, <4>1
    <3>2. CASE x \notin V
      BY <1>7, <2>1, <3>2
    <3> QED
      BY <3>1, <3>2
  <2> QED
    BY <2>2
<1>17. q.parent[top] = N /\ q.next[top] = N /\ q.prev[top] = N /\ g[top] = 0
  BY <1>1, <1>6, <1>10
<1>18. \A x \in V : x # top => q.parent[x] # N
  BY <1>1, <1>4, <1>5, <1>6
<1>19. \A x \in W : q.parent[x] # N => x \in V /\ q.parent[x] \in V
  BY <1>12
<1>20. ASSUME NEW x \in W, q.parent[x] # N PROVE g[x] = g[q.parent[x]] + 1
  BY <1>1, <1>5, <1>10, <1>12, <1>20
<1>21. Shape(W, N, q, V, top, s, g)
  BY <1>10, <1>15, <1>16, <1>17, <1>18, <1>19, <1>20 DEF Shape
<1> QED
  BY <1>21

\* A line of a file of n lines.
LineRec(n) ==
  [name : Name \cup {NULL}, type : Type \cup {"nodata"}, data : Seq(Octet),
   parent : 0..n, last : 0..n, next : 0..n, prev : 0..n]

\* The lines of a file are a tree with the first line as its root.
FileShaped(f, rk, h) ==
  /\ Len(f) \in 1..Keys /\ f \in [1..Len(f) -> LineRec(Len(f))]
  /\ Shape(1..Len(f), 0, LinksOf(f), 1..Len(f), 1, rk, h)

\* The links of a file, line by line.
LEMMA LinesAre ==
  ASSUME NEW n \in Nat, NEW f \in [1..n -> LineRec(n)]
  PROVE  /\ LinksTyped(1..n, 0, LinksOf(f))
         /\ \A i \in 1..n : /\ LinksOf(f).last[i] = f[i].last /\ LinksOf(f).next[i] = f[i].next
                            /\ LinksOf(f).prev[i] = f[i].prev /\ LinksOf(f).parent[i] = f[i].parent
<1>1. DOMAIN f = 1..n
  OBVIOUS
<1>2. \A i \in 1..n : /\ f[i].last \in (1..n) \cup {0} /\ f[i].next \in (1..n) \cup {0}
                      /\ f[i].prev \in (1..n) \cup {0} /\ f[i].parent \in (1..n) \cup {0}
  <2> SUFFICES ASSUME NEW i \in 1..n
               PROVE  /\ f[i].last \in (1..n) \cup {0} /\ f[i].next \in (1..n) \cup {0}
                      /\ f[i].prev \in (1..n) \cup {0} /\ f[i].parent \in (1..n) \cup {0}
    OBVIOUS
  <2>1. f[i].last \in 0..n /\ f[i].next \in 0..n /\ f[i].prev \in 0..n /\ f[i].parent \in 0..n
    BY DEF LineRec
  <2> QED
    BY <2>1
<1> QED
  BY <1>1, <1>2 DEF LinksTyped, LinkSet, LinksOf

\* LoadRegistry makes a tree of the file of one.
LEMMA LoadedShaped ==
  ASSUME NEW f, NEW rk, NEW h, FileShaped(f, rk, h), NEW x, x = Loaded(f, Array)
  PROVE  \E s, g : Shaped(x, Array[1], s, g)
<1>1. PICK n \in 1..Keys : n = Len(f)
  BY DEF FileShaped
<1>2. /\ f \in [1..n -> LineRec(n)] /\ Shape(1..n, 0, LinksOf(f), 1..n, 1, rk, h) /\ n \in Nat
  BY <1>1, ArrayIs DEF FileShaped
<1>3. /\ \A i \in 1..n : Array[i] \in Key
      /\ \A i, j \in 1..n : Array[i] = Array[j] => i = j
      /\ NULL \notin Key /\ Array[1] \in Key /\ 1 \in 1..n
  BY ArrayIs, KeysFinite
<1> DEFINE Ref(i) == IF i = 0 THEN NULL ELSE Array[i]
           Record(i) == [Root EXCEPT !.name = f[i].name, !.type = f[i].type, !.data = f[i].data,
                                     !.parent = Ref(f[i].parent), !.next = Ref(f[i].next),
                                     !.prev = Ref(f[i].prev), !.last = Ref(f[i].last)]
<1>4. PICK V : V = {Array[i] : i \in 1..n}
  OBVIOUS
<1>5. PICK e : e = [y \in V |-> CHOOSE i \in 1..n : Array[i] = y]
  OBVIOUS
<1>6. /\ V \in SUBSET Key /\ e \in [V -> 1..n] /\ \A y \in V : Array[e[y]] = y
      /\ \A i \in 1..n : Array[i] \in V /\ e[Array[i]] = i
  <2>1. \A y \in V : \E i \in 1..n : Array[i] = y
    BY <1>4
  <2>2. \A y \in V : e[y] \in 1..n /\ Array[e[y]] = y
    BY <1>5, <2>1
  <2>3. V \in SUBSET Key /\ \A i \in 1..n : Array[i] \in V
    BY <1>3, <1>4
  <2>4. e \in [V -> 1..n]
    BY <1>5, <2>2
  <2> QED
    BY <1>3, <2>2, <2>3, <2>4
<1>7. \A k \in Key : x[k] = IF k \in V THEN Record(e[k]) ELSE Blank
  <2>1. x = [k \in Key |-> IF \E i \in 1..n : Array[i] = k
                           THEN Record(CHOOSE i \in 1..n : Array[i] = k) ELSE Blank]
    <3>1. x = [k \in Key |-> IF \E i \in 1..Len(f) : Array[i] = k
                             THEN Record(CHOOSE i \in 1..Len(f) : Array[i] = k) ELSE Blank]
      BY DEF Loaded
    <3> HIDE DEF Record
    <3> QED
      BY <1>1, <3>1
  <2> HIDE DEF Record
  <2>2. \A k \in Key : k \in V <=> \E i \in 1..n : Array[i] = k
    BY <1>4
  <2>3. \A k \in V : e[k] = CHOOSE i \in 1..n : Array[i] = k
    BY <1>5
  <2> QED
    BY <2>1, <2>2, <2>3
<1>8. \A i \in 0..n : Ref(i) \in Key \cup {NULL}
  BY <1>3
<1>9. ASSUME NEW i \in 1..n
      PROVE  /\ Record(i) \in KeyRec /\ Record(i).used
             /\ Record(i).last = Ref(f[i].last) /\ Record(i).next = Ref(f[i].next)
             /\ Record(i).prev = Ref(f[i].prev) /\ Record(i).parent = Ref(f[i].parent)
  <2>1. /\ f[i].name \in Name \cup {NULL} /\ f[i].type \in Type \cup {"nodata"} /\ f[i].data \in Seq(Octet)
        /\ f[i].parent \in 0..n /\ f[i].last \in 0..n /\ f[i].next \in 0..n /\ f[i].prev \in 0..n
    BY <1>2 DEF LineRec
  <2>2. PICK aa \in Key \cup {NULL} : aa = Ref(f[i].parent)
    BY <1>8, <2>1
  <2>3. PICK b \in Key \cup {NULL} : b = Ref(f[i].last)
    BY <1>8, <2>1
  <2>4. PICK kid \in Key \cup {NULL} : kid = Ref(f[i].next)
    BY <1>8, <2>1
  <2>5. PICK d \in Key \cup {NULL} : d = Ref(f[i].prev)
    BY <1>8, <2>1
  <2> HIDE DEF Ref
  <2>6. PICK w : w = [Root EXCEPT !.name = f[i].name, !.type = f[i].type, !.data = f[i].data,
                                  !.parent = aa, !.next = kid, !.prev = d, !.last = b]
    OBVIOUS
  <2>7. /\ w.used /\ w.last = b /\ w.next = kid /\ w.prev = d /\ w.parent = aa
    BY <2>6, BlankIs DEF KeyRec
  <2>8. w \in KeyRec
    BY <2>1, <2>6, BlankIs DEF KeyRec
  <2>9. w = Record(i)
    BY <2>2, <2>3, <2>4, <2>5, <2>6
  <2> HIDE DEF Record
  <2> QED
    BY <2>2, <2>3, <2>4, <2>5, <2>7, <2>8, <2>9
<1> HIDE DEF Record
<1>10. x \in [Key -> KeyRec] /\ UsedOf(x) = V
  <2>1. \A k \in Key : x[k] \in KeyRec /\ (x[k].used <=> k \in V)
    BY <1>6, <1>7, <1>9, BlankIs
  <2>2. x = [k \in Key |-> x[k]]
    BY DEF Loaded
  <2>3. x \in [Key -> KeyRec]
    BY <2>1, <2>2
  <2> QED
    BY <1>6, <2>1, <2>3 DEF UsedOf
<1>11. PICK q : q = LinksOf(x)
  OBVIOUS
<1>12. PICK w : w = LinksOf(f)
  OBVIOUS
<1>13. /\ LinksTyped(Key, NULL, q)
       /\ \A k \in Key : /\ q.last[k] = x[k].last /\ q.next[k] = x[k].next
                         /\ q.prev[k] = x[k].prev /\ q.parent[k] = x[k].parent
       /\ \A i \in 1..n : /\ w.last[i] = f[i].last /\ w.next[i] = f[i].next
                          /\ w.prev[i] = f[i].prev /\ w.parent[i] = f[i].parent
  BY <1>2, <1>10, <1>11, <1>12, LinksAre, LinesAre
<1>14. \A i \in 0..n : SameLink(Ref(i), NULL, i, 0, e)
  <2> SUFFICES ASSUME NEW i \in 0..n PROVE SameLink(Ref(i), NULL, i, 0, e)
    OBVIOUS
  <2>1. CASE i = 0
    BY <2>1 DEF SameLink
  <2>2. CASE i # 0
    <3>1. i \in 1..n /\ Ref(i) = Array[i]
      BY <2>2
    <3>2. Array[i] \in V /\ e[Array[i]] = i /\ DOMAIN e = V /\ Array[i] # NULL
      BY <1>3, <1>6, <3>1
    <3> QED
      BY <2>2, <3>1, <3>2 DEF SameLink
  <2> QED
    BY <2>1, <2>2
<1> HIDE DEF Ref
<1>15. Moves(Key, NULL, q, V, 1..n, 0, w, e)
  <2>1. ASSUME NEW y \in V
        PROVE  /\ SameLink(q.last[y], NULL, w.last[e[y]], 0, e)
               /\ SameLink(q.next[y], NULL, w.next[e[y]], 0, e)
               /\ SameLink(q.prev[y], NULL, w.prev[e[y]], 0, e)
               /\ SameLink(q.parent[y], NULL, w.parent[e[y]], 0, e)
    <3>1. PICK i \in 1..n : i = e[y]
      BY <1>6
    <3>2. x[y] = Record(i) /\ y \in Key
      BY <1>6, <1>7, <3>1
    <3>3. /\ q.last[y] = Ref(f[i].last) /\ q.next[y] = Ref(f[i].next)
          /\ q.prev[y] = Ref(f[i].prev) /\ q.parent[y] = Ref(f[i].parent)
      BY <1>9, <1>13, <3>2
    <3>4. f[i].parent \in 0..n /\ f[i].last \in 0..n /\ f[i].next \in 0..n /\ f[i].prev \in 0..n
      BY <1>2 DEF LineRec
    <3> QED
      BY <1>13, <1>14, <3>1, <3>3, <3>4
  <2>2. \A y, z \in V : e[y] = e[z] => y = z
    BY <1>6
  <2>3. \A y \in Key \ V : q.last[y] = NULL /\ q.next[y] = NULL /\ q.prev[y] = NULL /\ q.parent[y] = NULL
    BY <1>7, <1>13, BlankIs
  <2> QED
    BY <1>6, <2>1, <2>2, <2>3 DEF Moves
<1>16. PICK kid : kid = Array[1]
  OBVIOUS
<1>17. kid \in V /\ e[kid] = 1
  BY <1>3, <1>6, <1>16
<1>18. \E s, g : Shape(Key, NULL, q, V, kid, s, g)
  <2>1. Shape(1..n, 0, w, 1..n, 1, rk, h)
    BY <1>2, <1>12
  <2> QED
    BY <1>3, <1>6, <1>13, <1>15, <1>17, <2>1, ShapeMoves
<1> QED
  BY <1>10, <1>11, <1>16, <1>18 DEF Shaped
-----------------------------------------------------------------------------
(***************************************************************************)
(* The order in which the tree is visited: every key below o is in it once.*)
(***************************************************************************)
\* Below o are o and what is below its children, and no key is below two of them.
LEMMA BelowKids ==
  ASSUME NEW st, NEW m, NEW rk, NEW h, Shaped(st, m, rk, h), NEW o \in Key,
         NEW K, K = ChildrenOf(st, o)
  PROVE  /\ Below(st, o) = {o} \cup UNION {Below(st, kid) : kid \in K}
         /\ \A kid \in K : o \notin Below(st, kid)
         /\ \A kid, d \in K : kid # d => Below(st, kid) \cap Below(st, d) = {}
         /\ \A kid \in Key : Below(st, kid) \subseteq Key
<1> DEFINE Up(k, B) == /\ B \subseteq Key /\ k \in B
                       /\ \A x \in Key : st[x].used /\ st[x].parent \in B => x \in B
                       /\ \A S : k \in S /\ (\A x \in Key : st[x].used /\ st[x].parent \in S => x \in S)
                                   => B \subseteq S
<1>1. \A k \in Key : Up(k, Below(st, k))
  <2> SUFFICES ASSUME NEW k \in Key PROVE Up(k, Below(st, k))
    OBVIOUS
  <2>1. Graded(st, h)
    BY ShapedGraded
  <2>2. PICK B : B = Below(st, k)
    OBVIOUS
  <2>3. Up(k, B)
    BY <2>1, <2>2, BelowIs
  <2> QED
    BY <2>2, <2>3
<1>2. /\ h \in [Key -> Nat] /\ NULL \notin Key
      /\ \A k \in Key : st[k].parent # NULL => /\ st[k].used /\ st[k].parent \in Key
                                               /\ h[k] = h[st[k].parent] + 1
  BY ShapedIs, KeysFinite
<1>3. \A kid \in K : kid \in Key /\ st[kid].used /\ st[kid].parent = o /\ h[kid] = h[o] + 1
  BY <1>2 DEF ChildrenOf
<1>4. \A kid \in Key : kid \in K <=> st[kid].used /\ st[kid].parent = o
  BY DEF ChildrenOf
\* What is below c lies no higher than c.
<1>5. ASSUME NEW kid \in Key, NEW x \in Below(st, kid) PROVE x \in Key /\ h[x] >= h[kid]
  <2>1. PICK S : S = {y \in Key : h[y] >= h[kid]}
    OBVIOUS
  <2>2. kid \in S
    BY <1>2, <2>1
  <2>3. ASSUME NEW y \in Key, st[y].used, st[y].parent \in S PROVE y \in S
    <3>1. st[y].parent \in Key /\ h[st[y].parent] >= h[kid] /\ h[y] = h[st[y].parent] + 1
      BY <1>2, <2>1, <2>3
    <3> QED
      BY <1>2, <2>1, <3>1
  <2>4. Below(st, kid) \subseteq S
    BY <1>1, <2>2, <2>3
  <2> QED
    BY <2>1, <2>4
\* The parent of a key below c is below c, or the key is c.
<1>6. ASSUME NEW kid \in Key, NEW x \in Below(st, kid), x # kid
      PROVE  st[x].parent \in Below(st, kid) /\ st[x].parent \in Key /\ h[x] = h[st[x].parent] + 1
  <2>1. PICK B : B = Below(st, kid)
    OBVIOUS
  <2>2. Up(kid, B)
    BY <1>1, <2>1
  <2>3. PICK S : S = {y \in B : y = kid \/ st[y].parent \in B}
    OBVIOUS
  <2>4. kid \in S
    BY <2>2, <2>3
  <2>5. ASSUME NEW y \in Key, st[y].used, st[y].parent \in S PROVE y \in S
    BY <2>2, <2>3, <2>5
  <2>6. B \subseteq S
    BY <2>2, <2>4, <2>5
  <2>7. st[x].parent \in B
    BY <1>6, <2>1, <2>3, <2>6
  <2>8. st[x].parent \in Key /\ x \in Key
    BY <2>1, <2>2, <2>7
  <2> QED
    BY <1>2, <2>1, <2>7, <2>8
<1> HIDE DEF Up
<1>7. PICK D : D = {o} \cup UNION {Below(st, kid) : kid \in K}
  OBVIOUS
<1>8. Below(st, o) \subseteq D
  <2>1. ASSUME NEW x \in Key, st[x].used, st[x].parent \in D PROVE x \in D
    <3>1. CASE st[x].parent = o
      <4>1. x \in K /\ x \in Below(st, x)
        BY <1>1, <1>4, <2>1, <3>1 DEF Up
      <4> QED
        BY <1>7, <4>1
    <3>2. CASE st[x].parent # o
      <4>1. PICK kid \in K : st[x].parent \in Below(st, kid)
        BY <1>7, <2>1, <3>2
      <4>2. x \in Below(st, kid)
        BY <1>1, <1>3, <2>1, <4>1 DEF Up
      <4> QED
        BY <1>7, <4>2
    <3> QED
      BY <3>1, <3>2
  <2>2. o \in D
    BY <1>7
  <2> QED
    BY <1>1, <2>1, <2>2 DEF Up
<1>9. D \subseteq Below(st, o)
  <2>1. PICK B : B = Below(st, o)
    OBVIOUS
  <2>2. o \in B /\ \A x \in Key : st[x].used /\ st[x].parent \in B => x \in B
    BY <1>1, <2>1 DEF Up
  <2>3. ASSUME NEW kid \in K PROVE Below(st, kid) \subseteq B
    <3>1. kid \in B /\ kid \in Key
      BY <1>3, <2>2
    <3> QED
      BY <1>1, <2>2, <3>1 DEF Up
  <2> QED
    BY <1>7, <2>1, <2>2, <2>3
<1>10. ASSUME NEW kid \in K PROVE o \notin Below(st, kid)
  BY <1>2, <1>3, <1>5
<1>11. ASSUME NEW kid \in K, NEW d \in K, kid # d PROVE Below(st, kid) \cap Below(st, d) = {}
  <2> DEFINE T == {n \in Nat : \A x \in Key : h[x] = n => ~(x \in Below(st, kid) /\ x \in Below(st, d))}
  <2>1. kid \in Key /\ d \in Key /\ h[kid] = h[o] + 1 /\ h[d] = h[o] + 1 /\ h[o] \in Nat
    BY <1>2, <1>3
  <2>2. ASSUME NEW x, x \in Below(st, kid), x \in Below(st, d)
        PROVE  /\ x # kid /\ x # d /\ x \in Key /\ st[x].parent \in Key /\ h[x] = h[st[x].parent] + 1
               /\ st[x].parent \in Below(st, kid) /\ st[x].parent \in Below(st, d)
    <3>1. x # kid
      <4> SUFFICES ASSUME x = kid PROVE FALSE
        OBVIOUS
      <4>1. st[x].parent \in Below(st, d)
        BY <1>6, <1>11, <2>1, <2>2
      <4> QED
        BY <1>3, <1>10, <4>1
    <3>2. x # d
      <4> SUFFICES ASSUME x = d PROVE FALSE
        OBVIOUS
      <4>1. st[x].parent \in Below(st, kid)
        BY <1>6, <1>11, <2>1, <2>2
      <4> QED
        BY <1>3, <1>10, <4>1
    <3>3. x \in Key
      BY <1>5, <2>1, <2>2
    <3> QED
      BY <1>6, <2>1, <2>2, <3>1, <3>2, <3>3
  <2>3. 0 \in T
    <3> SUFFICES ASSUME NEW x \in Key, h[x] = 0, x \in Below(st, kid), x \in Below(st, d) PROVE FALSE
      OBVIOUS
    <3>1. st[x].parent \in Key /\ h[x] = h[st[x].parent] + 1
      BY <2>2
    <3> QED
      BY <1>2, <3>1
  <2>4. ASSUME NEW n \in Nat, n \in T PROVE n + 1 \in T
    <3> SUFFICES ASSUME NEW x \in Key, h[x] = n + 1, x \in Below(st, kid), x \in Below(st, d) PROVE FALSE
      OBVIOUS
    <3>1. PICK y \in Key : y = st[x].parent
      BY <2>2
    <3>2. h[x] = h[y] + 1 /\ y \in Below(st, kid) /\ y \in Below(st, d)
      BY <2>2, <3>1
    <3>3. h[y] = n
      BY <1>2, <3>2
    <3> QED
      BY <2>4, <3>2, <3>3
  <2> HIDE DEF T
  <2>5. Nat \subseteq T
    BY <2>3, <2>4, SetInduction
  <2> SUFFICES ASSUME NEW x, x \in Below(st, kid), x \in Below(st, d) PROVE FALSE
    OBVIOUS
  <2>6. x \in Key /\ h[x] \in Nat
    BY <1>2, <2>2
  <2>7. h[x] \in T
    BY <2>5, <2>6
  <2> QED
    BY <2>6, <2>7 DEF T
<1>12. \A kid \in Key : Below(st, kid) \subseteq Key
  BY <1>5
<1> QED
  BY <1>7, <1>8, <1>9, <1>10, <1>11, <1>12

\* t lists B, each element once, and starts with k.
Starts(t, B, k) ==
  /\ t \in Seq(Key) /\ Len(t) \in Nat \ {0} /\ t[1] = k
  /\ {t[i] : i \in 1..Len(t)} = B
  /\ \A i, j \in 1..Len(t) : t[i] = t[j] => i = j

\* Two lists of different keys, one after the other.
LEMMA StartsJoin ==
  ASSUME NEW s, NEW A, NEW k, Starts(s, A, k), NEW t, NEW B, NEW kid, Starts(t, B, kid), A \cap B = {}
  PROVE  Starts(s \o t, A \cup B, k)
<1>1. PICK n \in Nat : n = Len(s)
  BY DEF Starts
<1>2. PICK l \in Nat : l = Len(t)
  BY DEF Starts
<1>3. /\ s \in Seq(Key) /\ t \in Seq(Key) /\ n # 0 /\ s[1] = k
      /\ {s[i] : i \in 1..n} = A /\ {t[i] : i \in 1..l} = B
      /\ \A i, j \in 1..n : s[i] = s[j] => i = j
      /\ \A i, j \in 1..l : t[i] = t[j] => i = j
  BY <1>1, <1>2 DEF Starts
<1>4. PICK u : u = s \o t
  OBVIOUS
<1>5. /\ u \in Seq(Key) /\ Len(u) = n + l
      /\ \A i \in 1..n : u[i] = s[i]
      /\ \A i \in (n + 1)..(n + l) : u[i] = t[i - n]
  BY <1>1, <1>2, <1>3, <1>4
<1>6. \A i \in 1..(n + l) : i \in 1..n \/ (i \in (n + 1)..(n + l) /\ i - n \in 1..l)
  OBVIOUS
<1>7. /\ \A i \in 1..n : i \in 1..(n + l)
      /\ \A i \in 1..l : i + n \in (n + 1)..(n + l) /\ i + n \in 1..(n + l) /\ (i + n) - n = i
  OBVIOUS
<1>8. \A i \in 1..n : u[i] \in A
  BY <1>3, <1>5
<1>9. \A i \in (n + 1)..(n + l) : i - n \in 1..l /\ u[i] \in B
  <2>1. \A i \in (n + 1)..(n + l) : i - n \in 1..l
    OBVIOUS
  <2> QED
    BY <1>3, <1>5, <2>1
<1>10. {u[i] : i \in 1..(n + l)} = A \cup B
  <2>1. \A i \in 1..(n + l) : u[i] \in A \cup B
    BY <1>6, <1>8, <1>9
  <2>2. ASSUME NEW x \in A PROVE \E i \in 1..(n + l) : u[i] = x
    <3>1. PICK i \in 1..n : s[i] = x
      BY <1>3
    <3> QED
      BY <1>5, <1>7, <3>1
  <2>3. ASSUME NEW x \in B PROVE \E i \in 1..(n + l) : u[i] = x
    <3>1. PICK i \in 1..l : t[i] = x
      BY <1>3
    <3>2. u[i + n] = x /\ i + n \in 1..(n + l)
      BY <1>5, <1>7, <3>1
    <3> QED
      BY <3>2
  <2> QED
    BY <2>1, <2>2, <2>3
<1>11. ASSUME NEW i \in 1..(n + l), NEW j \in 1..(n + l), u[i] = u[j] PROVE i = j
  <2>1. CASE i \in 1..n /\ j \in 1..n
    BY <1>3, <1>5, <1>11, <2>1
  <2>2. CASE i \in 1..n /\ j \in (n + 1)..(n + l)
    BY <1>8, <1>9, <1>11, <2>2
  <2>3. CASE i \in (n + 1)..(n + l) /\ j \in 1..n
    BY <1>8, <1>9, <1>11, <2>3
  <2>4. CASE i \in (n + 1)..(n + l) /\ j \in (n + 1)..(n + l)
    <3>1. i - n \in 1..l /\ j - n \in 1..l /\ t[i - n] = t[j - n]
      BY <1>5, <1>9, <1>11, <2>4
    <3>2. i - n = j - n
      BY <1>3, <3>1
    <3> QED
      BY <3>2
  <2> QED
    BY <1>6, <2>1, <2>2, <2>3, <2>4
<1>12. u[1] = k
  BY <1>3, <1>5, SMTT(20)
<1>13. /\ {u[i] : i \in 1..Len(u)} = A \cup B /\ Len(u) \in Nat \ {0}
       /\ \A i, j \in 1..Len(u) : u[i] = u[j] => i = j
  BY <1>3, <1>5, <1>10, <1>11
<1>14. Starts(u, A \cup B, k)
  BY <1>5, <1>12, <1>13 DEF Starts
<1> QED
  BY <1>4, <1>14

\* The keys below k, when the keys below each of its children are listed.
LEMMA VisitedIs ==
  ASSUME NEW st, NEW m, NEW rk, NEW h, Shaped(st, m, rk, h), NEW k \in Key,
         NEW below \in [Key -> Seq(Key)], NEW t, t = Visited(st, k, below)
  PROVE  /\ t \in Seq(Key)
         /\ (\A kid \in ChildrenOf(st, k) : Starts(below[kid], Below(st, kid), kid)) => Starts(t, Below(st, k), k)
<1>1. PICK s : s = Kids(st, k)
  OBVIOUS
<1>2. PICK K : K = ChildrenOf(st, k)
  OBVIOUS
<1>3. /\ s \in Seq(K) /\ Len(s) \in Nat
      /\ \A i, j \in 1..Len(s) : s[i] = s[j] => i = j
      /\ {s[i] : i \in 1..Len(s)} = K
  <2>1. Once(s, K)
    BY <1>1, <1>2, ShapedKids
  <2> QED
    BY <2>1 DEF Once
<1>4. PICK n \in Nat : n = Len(s)
  BY <1>3
<1>5. /\ Below(st, k) = {k} \cup UNION {Below(st, kid) : kid \in K}
      /\ \A kid \in K : k \notin Below(st, kid)
      /\ \A kid, d \in K : kid # d => Below(st, kid) \cap Below(st, d) = {}
  BY <1>2, BelowKids
<1>6. \A i \in 1..n : s[i] \in K /\ s[i] \in Key
  BY <1>2, <1>3, <1>4 DEF ChildrenOf
<1> DEFINE E(g) == [i \in 0..n |-> IF i = 0 THEN <<k>> ELSE g[i - 1] \o below[s[i]]]
           at == CHOOSE g : g = E(g)
           Fit == \A kid \in K : Starts(below[kid], Below(st, kid), kid)
<1>7. t = at[n]
  BY <1>1, <1>4 DEF Visited
<1>8. PICK P : P = [i \in 0..n |-> {k} \cup UNION {Below(st, s[j]) : j \in 1..i}]
  OBVIOUS
<1>9. P[0] = {k} /\ P[n] = Below(st, k)
  <2>1. P[0] = {k}
    BY <1>8
  <2>2. P[n] = {k} \cup UNION {Below(st, s[j]) : j \in 1..n}
    BY <1>8
  <2>3. {Below(st, s[j]) : j \in 1..n} = {Below(st, kid) : kid \in K}
    BY <1>3, <1>4
  <2> QED
    BY <1>5, <2>1, <2>2, <2>3
<1>10. ASSUME NEW i \in 1..n
       PROVE  P[i] = P[i - 1] \cup Below(st, s[i]) /\ P[i - 1] \cap Below(st, s[i]) = {}
  <2>1. i - 1 \in 0..n /\ i \in 0..n /\ 1..i = 1..(i - 1) \cup {i}
    OBVIOUS
  <2>2. /\ P[i] = {k} \cup UNION {Below(st, s[j]) : j \in 1..i}
        /\ P[i - 1] = {k} \cup UNION {Below(st, s[j]) : j \in 1..(i - 1)}
    BY <1>8, <2>1
  <2>3. P[i] = P[i - 1] \cup Below(st, s[i])
    BY <2>1, <2>2
  <2>4. ASSUME NEW x, x \in P[i - 1], x \in Below(st, s[i]) PROVE FALSE
    <3>1. x # k
      BY <1>5, <1>6, <2>4
    <3>2. PICK j \in 1..(i - 1) : x \in Below(st, s[j])
      BY <2>2, <2>4, <3>1
    <3>3. j \in 1..n /\ j # i
      OBVIOUS
    <3>4. s[j] # s[i] /\ s[j] \in K /\ s[i] \in K
      BY <1>3, <1>4, <1>6, <3>3
    <3> QED
      BY <1>5, <2>4, <3>2, <3>4
  <2> QED
    BY <2>3, <2>4
<1> HIDE DEF Fit
<1>11. PICK V : V = [i \in 0..n |-> {x \in Seq(Key) : Fit => Starts(x, P[i], k)}]
  OBVIOUS
<1>12. \A i \in 0..n : \A x : x \in V[i] <=> x \in Seq(Key) /\ (Fit => Starts(x, P[i], k))
  BY <1>11
<1>13. ASSUME NEW i \in 1..n, NEW x \in V[i - 1] PROVE x \o below[s[i]] \in V[i]
  <2>1. i - 1 \in 0..n /\ i \in 0..n
    OBVIOUS
  <2>2. x \in Seq(Key) /\ below[s[i]] \in Seq(Key)
    BY <1>6, <1>12, <2>1
  <2>3. x \o below[s[i]] \in Seq(Key)
    BY <2>2
  <2>4. ASSUME Fit PROVE Starts(x \o below[s[i]], P[i], k)
    <3>1. Starts(x, P[i - 1], k)
      BY <1>12, <2>1, <2>4
    <3>2. Starts(below[s[i]], Below(st, s[i]), s[i])
      BY <1>6, <2>4 DEF Fit
    <3>3. P[i - 1] \cap Below(st, s[i]) = {} /\ P[i] = P[i - 1] \cup Below(st, s[i])
      BY <1>10
    <3>4. Starts(x \o below[s[i]], P[i - 1] \cup Below(st, s[i]), k)
      BY <3>1, <3>2, <3>3, StartsJoin
    <3> QED
      BY <3>3, <3>4
  <2> QED
    BY <1>12, <2>1, <2>3, <2>4
<1>14. PICK next : next = [i \in 1..n |-> [x \in V[i - 1] |-> x \o below[s[i]]]]
  OBVIOUS
<1>15. \A i \in 1..n : \A x \in V[i - 1] : next[i][x] = x \o below[s[i]]
  BY <1>14
<1>16. Leads(n, V, next)
  BY <1>13, <1>15 DEF Leads
<1>17. PICK aa : aa = <<k>>
  OBVIOUS
<1>28. aa \in V[0]
  <2>1. aa \in Seq(Key) /\ Len(aa) = 1 /\ aa[1] = k
    BY <1>17
  <2>2. {aa[i] : i \in 1..Len(aa)} = {k}
    BY <2>1
  <2>3. Starts(aa, {k}, k)
    BY <2>1, <2>2 DEF Starts
  <2>4. Starts(aa, P[0], k) /\ 0 \in 0..n
    BY <1>9, <2>3
  <2> QED
    BY <1>12, <2>1, <2>4
<1>31. PICK f : Made(f, n, V, aa, next)
  <2>1. n \in Nat /\ aa \in V[0] /\ Leads(n, V, next)
    BY <1>16, <1>28
  <2> HIDE DEF at
  <2> QED
    BY <2>1, StepsExist
<1>18. /\ f = [i \in 0..n |-> f[i]] /\ f[0] = aa
       /\ \A i \in 0..n : f[i] \in V[i]
       /\ \A i \in 1..n : f[i] = next[i][f[i - 1]]
  BY <1>31 DEF Made
<1>19. \A i \in 1..n : i - 1 \in 0..n /\ i \in 0..n /\ i # 0
  OBVIOUS
<1>20. \A i \in 0..n : f[i] = IF i = 0 THEN <<k>> ELSE f[i - 1] \o below[s[i]]
  <2>1. \A i \in 0..n : i = 0 \/ i \in 1..n
    OBVIOUS
  <2>2. \A i \in 1..n : f[i] = f[i - 1] \o below[s[i]]
    BY <1>15, <1>18, <1>19
  <2> QED
    BY <1>17, <1>18, <2>1, <2>2
<1>21. f = E(f)
  BY <1>18, <1>20
<1>22. at = E(at)
  <2> HIDE DEF E
  <2> QED
    BY <1>21
<1>23. \A i \in 0..n : at[i] = IF i = 0 THEN <<k>> ELSE at[i - 1] \o below[s[i]]
  BY <1>22
<1> HIDE DEF at
<1>24. ASSUME NEW i \in 1..n, at[i - 1] \in V[i - 1] PROVE at[i] \in V[i]
  BY <1>13, <1>19, <1>23, <1>24
<1>25. at[0] \in V[0]
  BY <1>17, <1>23, <1>28
<1>26. at[n] \in V[n]
  <2>1. \A i \in 0..n : at[i] \in V[i]
    BY <1>24, <1>25, StepsStay
  <2>2. n \in 0..n
    <3> HIDE DEF E
    <3> QED
      BY <1>4
  <2> QED
    BY <2>1, <2>2, Zenon
<1>27. t \in Seq(Key) /\ (Fit => Starts(t, Below(st, k), k))
  BY <1>7, <1>9, <1>12, <1>26
<1> QED
  BY <1>2, <1>27 DEF Fit

\* WriteKey comes to every key once, and to the root first.
LEMMA VisitIs ==
  ASSUME NEW st, NEW m, NEW rk, NEW h, Shaped(st, m, rk, h), NEW t, t = Visit(st, m)
  PROVE  Starts(t, UsedOf(st), m)
<1> DEFINE E(g) == [d \in 0..Cardinality(Key) |->
                      [k \in Key |-> IF d = 0 THEN <<k>> ELSE Visited(st, k, g[d - 1])]]
           order == CHOOSE g : g = E(g)
           Far(f, d) == \A k \in Key : st[k].used /\ h[k] + d >= Keys => Starts(f[k], Below(st, k), k)
<1>1. /\ Keys \in Nat /\ h \in [Key -> Nat] /\ NULL \notin Key /\ m \in Key /\ st[m].used /\ h[m] = 0
      /\ \A k \in Key : st[k].parent # NULL => h[k] = h[st[k].parent] + 1
  BY ShapedIs, KeysFinite
<1>2. \A k \in Key : st[k].used => h[k] < Keys
  BY ShapedGraded
<1>3. PICK V : V = [d \in 0..Keys |-> {f \in [Key -> Seq(Key)] : Far(f, d)}]
  OBVIOUS
<1>4. \A d \in 0..Keys : \A f : f \in V[d] <=> f \in [Key -> Seq(Key)] /\ Far(f, d)
  BY <1>3
<1>5. PICK aa : aa = [k \in Key |-> <<k>>]
  OBVIOUS
<1>6. aa \in V[0]
  <2>1. aa \in [Key -> Seq(Key)]
    BY <1>5
  <2>2. Far(aa, 0)
    BY <1>1, <1>2
  <2> HIDE DEF Far
  <2> QED
    BY <1>1, <1>4, <2>1, <2>2
<1>7. ASSUME NEW d \in 1..Keys, NEW f \in V[d - 1], NEW g, g = [k \in Key |-> Visited(st, k, f)]
      PROVE  g \in V[d]
  <2>1. d - 1 \in 0..Keys /\ d \in 0..Keys
    BY <1>1
  <2>2. f \in [Key -> Seq(Key)] /\ Far(f, d - 1)
    BY <1>4, <2>1
  <2>3. ASSUME NEW k \in Key, NEW u, u = Visited(st, k, f)
        PROVE  /\ u \in Seq(Key)
               /\ st[k].used /\ h[k] + d >= Keys => Starts(u, Below(st, k), k)
    <3>1. ASSUME h[k] + d >= Keys, NEW kid \in ChildrenOf(st, k) PROVE Starts(f[kid], Below(st, kid), kid)
      <4>1. kid \in Key /\ st[kid].used /\ st[kid].parent = k
        BY DEF ChildrenOf
      <4>2. h[kid] = h[k] + 1
        BY <1>1, <4>1
      <4>3. h[kid] + (d - 1) >= Keys
        BY <1>1, <3>1, <4>2
      <4> QED
        BY <2>2, <4>1, <4>3
    <3>2. /\ u \in Seq(Key)
          /\ (\A kid \in ChildrenOf(st, k) : Starts(f[kid], Below(st, kid), kid)) => Starts(u, Below(st, k), k)
      BY <2>2, <2>3, VisitedIs
    <3> QED
      BY <3>1, <3>2
  <2>4. \A k \in Key : g[k] = Visited(st, k, f)
    BY <1>7
  <2>5. g \in [Key -> Seq(Key)]
    BY <1>7, <2>3
  <2>6. Far(g, d)
    BY <2>3, <2>4
  <2> HIDE DEF Far
  <2> QED
    BY <1>4, <2>1, <2>5, <2>6
<1> HIDE DEF Far
<1>8. PICK next : next = [d \in 1..Keys |-> [f \in V[d - 1] |-> [k \in Key |-> Visited(st, k, f)]]]
  OBVIOUS
<1>9. \A d \in 1..Keys : \A f \in V[d - 1] : next[d][f] = [k \in Key |-> Visited(st, k, f)]
  BY <1>8
<1>10. Leads(Keys, V, next)
  <2> SUFFICES ASSUME NEW d \in 1..Keys, NEW f \in V[d - 1] PROVE next[d][f] \in V[d]
    BY DEF Leads
  <2>1. PICK g : g = [k \in Key |-> Visited(st, k, f)]
    OBVIOUS
  <2>2. g \in V[d]
    BY <1>7, <2>1
  <2> QED
    BY <1>9, <2>1, <2>2
<1>11. PICK f : Made(f, Keys, V, aa, next)
  BY <1>1, <1>6, <1>10, StepsExist
<1>12. /\ f = [d \in 0..Keys |-> f[d]] /\ f[0] = aa
       /\ \A d \in 0..Keys : f[d] \in V[d]
       /\ \A d \in 1..Keys : f[d] = next[d][f[d - 1]]
  BY <1>11 DEF Made
<1>13. \A d \in 1..Keys : d - 1 \in 0..Keys /\ d \in 0..Keys /\ d # 0
  BY <1>1
<1>14. \A d \in 0..Keys : f[d] = [k \in Key |-> IF d = 0 THEN <<k>> ELSE Visited(st, k, f[d - 1])]
  <2>1. \A d \in 0..Keys : d = 0 \/ d \in 1..Keys
    BY <1>1
  <2>2. f[0] = [k \in Key |-> IF 0 = 0 THEN <<k>> ELSE Visited(st, k, f[0 - 1])]
    BY <1>5, <1>12
  <2>3. ASSUME NEW d \in 1..Keys
        PROVE  f[d] = [k \in Key |-> IF d = 0 THEN <<k>> ELSE Visited(st, k, f[d - 1])]
    <3>1. f[d] = [k \in Key |-> Visited(st, k, f[d - 1])]
      BY <1>9, <1>12, <1>13
    <3> QED
      BY <1>13, <3>1
  <2> QED
    BY <2>1, <2>2, <2>3
<1>15. f = E(f)
  BY <1>12, <1>14 DEF Keys
<1>16. order = E(order)
  <2> HIDE DEF E
  <2> QED
    BY <1>15
<1>17. \A d \in 0..Keys : order[d] = [k \in Key |-> IF d = 0 THEN <<k>> ELSE Visited(st, k, order[d - 1])]
  BY <1>16 DEF Keys
<1>18. t = order[Keys][m]
  BY DEF Visit, Keys
<1> HIDE DEF order
<1>19. ASSUME NEW d \in 1..Keys, order[d - 1] \in V[d - 1] PROVE order[d] \in V[d]
  <2>1. PICK g : g = [k \in Key |-> Visited(st, k, order[d - 1])]
    OBVIOUS
  <2>2. g \in V[d]
    BY <1>7, <1>19, <2>1
  <2>3. order[d] = [k \in Key |-> IF d = 0 THEN <<k>> ELSE Visited(st, k, order[d - 1])]
    BY <1>13, <1>17
  <2>4. order[d] = g
    BY <1>13, <2>1, <2>3
  <2> QED
    BY <2>2, <2>4
<1>20. order[0] \in V[0]
  <2>1. order[0] = [k \in Key |-> IF 0 = 0 THEN <<k>> ELSE Visited(st, k, order[0 - 1])]
    BY <1>1, <1>17
  <2> QED
    BY <1>5, <1>6, <2>1
<1>21. order[Keys] \in V[Keys]
  <2>1. \A d \in 0..Keys : order[d] \in V[d]
    BY <1>1, <1>19, <1>20, StepsStay
  <2> QED
    BY <1>1, <2>1
<1>22. Starts(order[Keys][m], Below(st, m), m)
  <2>1. Far(order[Keys], Keys)
    BY <1>1, <1>4, <1>21
  <2> QED
    BY <1>1, <2>1 DEF Far
<1>23. UsedOf(st) = Below(st, m)
  BY AllBelow
<1> QED
  BY <1>18, <1>22, <1>23

\* The ids GenerateTmpId gives make a tree of the lines WriteKey writes.
LEMMA WrittenShaped ==
  ASSUME NEW st, NEW m, NEW rk, NEW h, Shaped(st, m, rk, h), NEW f, f = Written(st, m)
  PROVE  \E s, g : FileShaped(f, s, g)
<1>1. PICK e : e = Visit(st, m)
  OBVIOUS
<1>2. Starts(e, UsedOf(st), m)
  BY <1>1, VisitIs
<1>3. PICK n \in Nat : n = Len(e)
  BY <1>2 DEF Starts
<1>4. PICK U : U = UsedOf(st)
  OBVIOUS
<1>5. /\ e \in Seq(Key) /\ n # 0 /\ e[1] = m /\ {e[i] : i \in 1..n} = U
      /\ \A i, j \in 1..n : e[i] = e[j] => i = j
  BY <1>2, <1>3, <1>4 DEF Starts
<1>6. e \in [1..n -> U] /\ \A k \in U : \E i \in 1..n : e[i] = k
  BY <1>3, <1>5
<1>7. n \in 1..Keys
  <2>1. e \in Injection(1..n, Key)
    BY <1>3, <1>5 DEF Injection, IsInjective
  <2>2. Cardinality(1..n) <= Keys
    BY <2>1, KeysFinite, FS_Injection DEF Keys
  <2>3. Cardinality(1..n) = IF 1 > n THEN 0 ELSE n - 1 + 1
    BY FS_Interval
  <2> QED
    BY <1>5, <2>2, <2>3, KeysFinite
<1>8. PICK id : id = GenerateTmpId(st, m)
  OBVIOUS
<1>9. id = [k \in Key |-> IF \E i \in 1..n : e[i] = k THEN CHOOSE i \in 1..n : e[i] = k ELSE 0]
  BY <1>1, <1>3, <1>8 DEF GenerateTmpId
<1> DEFINE Id(k) == IF k = NULL THEN 0 ELSE id[k]
           Line(k) == [name |-> st[k].name, type |-> st[k].type, data |-> st[k].data,
                       parent |-> Id(st[k].parent), next |-> Id(st[k].next), prev |-> Id(st[k].prev),
                       last |-> Id(st[k].last)]
<1>10. f = [i \in 1..n |-> Line(e[i])]
  <2>1. f = [i \in 1..Len(e) |-> Line(e[i])]
    BY <1>1, <1>8 DEF Written
  <2> HIDE DEF Line
  <2> QED
    BY <1>3, <2>1
<1>11. /\ st \in [Key -> KeyRec] /\ NULL \notin Key /\ m \in Key
       /\ st[m].next = NULL /\ st[m].prev = NULL
       /\ \A k \in Key : st[k].parent # NULL => st[k].used /\ st[k].parent \in Key /\ st[st[k].parent].used
       /\ \A k \in Key : st[k].used /\ k # m => st[k].parent # NULL
  BY ShapedIs, KeysFinite
<1>12. U \subseteq Key /\ \A k \in Key : k \in U <=> st[k].used
  BY <1>4 DEF UsedOf
<1>13. \A k \in U : k \in Key /\ k # NULL /\ id[k] \in 1..n /\ e[id[k]] = k
  BY <1>6, <1>9, <1>11, <1>12
<1>14. ASSUME NEW k, k = NULL \/ k \in U PROVE Id(k) \in 0..n /\ SameLink(Id(k), 0, k, NULL, e)
  <2>1. CASE k = NULL
    BY <2>1 DEF SameLink
  <2>2. CASE k \in U
    <3>1. Id(k) = id[k] /\ id[k] \in 1..n /\ e[id[k]] = k /\ k # NULL
      BY <1>13, <2>2
    <3>2. DOMAIN e = 1..n /\ id[k] # 0
      BY <1>6, <3>1
    <3> QED
      BY <3>1, <3>2 DEF SameLink
  <2> QED
    BY <1>14, <2>1, <2>2
\* The links of a key that is used lead to such keys.
<1>15. ASSUME NEW k \in U
       PROVE  /\ st[k].last = NULL \/ st[k].last \in U
              /\ st[k].next = NULL \/ st[k].next \in U
              /\ st[k].prev = NULL \/ st[k].prev \in U
              /\ st[k].parent = NULL \/ st[k].parent \in U
  <2>1. k \in Key /\ st[k].used
    BY <1>12
  <2>2. st[k].parent = NULL \/ st[k].parent \in U
    BY <1>11, <1>12, <2>1
  <2>3. ASSUME st[k].last # NULL PROVE st[k].last \in U
    <3>1. st[k].last \in Key /\ st[st[k].last].parent = k
      BY <2>1, <2>3, ShapedRing
    <3> QED
      BY <1>11, <1>12, <2>1, <3>1
  <2>4. CASE k = m
    BY <1>11, <2>2, <2>3, <2>4
  <2>5. CASE k # m
    <3>1. st[k].parent # NULL
      BY <1>11, <2>1, <2>5
    <3>2. /\ st[k].next \in Key /\ st[st[k].next].parent = st[k].parent
          /\ st[k].prev \in Key /\ st[st[k].prev].parent = st[k].parent
      BY <2>1, <3>1, ShapedRing
    <3>3. st[k].next \in U /\ st[k].prev \in U
      BY <1>11, <1>12, <3>1, <3>2
    <3> QED
      BY <2>2, <2>3, <3>3
  <2> QED
    BY <2>4, <2>5
<1> HIDE DEF Id
<1>16. ASSUME NEW i \in 1..n
       PROVE  /\ f[i] \in LineRec(n)
              /\ SameLink(f[i].last, 0, st[e[i]].last, NULL, e)
              /\ SameLink(f[i].next, 0, st[e[i]].next, NULL, e)
              /\ SameLink(f[i].prev, 0, st[e[i]].prev, NULL, e)
              /\ SameLink(f[i].parent, 0, st[e[i]].parent, NULL, e)
  <2>1. PICK k \in U : k = e[i]
    BY <1>6
  <2>2. PICK w : w = Line(k)
    OBVIOUS
  <2>3. f[i] = w
    <3> HIDE DEF Line
    <3> QED
      BY <1>10, <2>1, <2>2
  <2>4. /\ w.last = Id(st[k].last) /\ w.next = Id(st[k].next) /\ w.prev = Id(st[k].prev)
        /\ w.parent = Id(st[k].parent)
    BY <2>2
  <2>5. /\ Id(st[k].last) \in 0..n /\ Id(st[k].next) \in 0..n /\ Id(st[k].prev) \in 0..n
        /\ Id(st[k].parent) \in 0..n
    BY <1>14, <1>15
  <2>6. st[k].name \in Name \cup {NULL} /\ st[k].type \in Type \cup {"nodata"} /\ st[k].data \in Seq(Octet)
    BY <1>11, <1>12 DEF KeyRec
  <2>7. w \in LineRec(n)
    BY <2>2, <2>5, <2>6 DEF LineRec
  <2>8. /\ SameLink(Id(st[k].last), 0, st[k].last, NULL, e)
        /\ SameLink(Id(st[k].next), 0, st[k].next, NULL, e)
        /\ SameLink(Id(st[k].prev), 0, st[k].prev, NULL, e)
        /\ SameLink(Id(st[k].parent), 0, st[k].parent, NULL, e)
    BY <1>14, <1>15
  <2> QED
    BY <2>1, <2>3, <2>4, <2>7, <2>8
<1>17. f \in [1..n -> LineRec(n)] /\ Len(f) = n
  <2> HIDE DEF Line
  <2> QED
    BY <1>10, <1>16
<1>18. PICK q : q = LinksOf(f)
  OBVIOUS
<1>19. PICK w : w = LinksOf(st)
  OBVIOUS
<1>20. /\ LinksTyped(1..n, 0, q)
       /\ \A i \in 1..n : /\ q.last[i] = f[i].last /\ q.next[i] = f[i].next
                          /\ q.prev[i] = f[i].prev /\ q.parent[i] = f[i].parent
       /\ \A k \in Key : /\ w.last[k] = st[k].last /\ w.next[k] = st[k].next
                         /\ w.prev[k] = st[k].prev /\ w.parent[k] = st[k].parent
  BY <1>11, <1>17, <1>18, <1>19, LinksAre, LinesAre
<1>21. Moves(1..n, 0, q, 1..n, U, NULL, w, e)
  <2>1. ASSUME NEW i \in 1..n
        PROVE  /\ SameLink(q.last[i], 0, w.last[e[i]], NULL, e)
               /\ SameLink(q.next[i], 0, w.next[e[i]], NULL, e)
               /\ SameLink(q.prev[i], 0, w.prev[e[i]], NULL, e)
               /\ SameLink(q.parent[i], 0, w.parent[e[i]], NULL, e)
    <3>1. e[i] \in Key
      BY <1>6, <1>12
    <3> QED
      BY <1>16, <1>20, <3>1
  <2> QED
    BY <1>5, <1>6, <2>1 DEF Moves
<1>22. PICK top : top = 1
  OBVIOUS
<1>23. top \in 1..n /\ e[top] = m /\ 0 \notin 1..n
  BY <1>5, <1>22
<1>24. \E s, g : Shape(1..n, 0, q, 1..n, top, s, g)
  <2>1. Shape(Key, NULL, w, U, m, rk, h)
    BY <1>4, <1>19 DEF Shaped
  <2>2. PICK W : W = 1..n
    OBVIOUS
  <2>3. W \in SUBSET W
    OBVIOUS
  <2>4. Moves(W, 0, q, W, U, NULL, w, e)
    BY <1>21, <2>2
  <2>5. 0 \notin W /\ LinksTyped(W, 0, q) /\ top \in W /\ e[top] = m
    BY <1>20, <1>23, <2>2
  <2>6. \E s, g : Shape(W, 0, q, W, top, s, g)
    BY <2>1, <2>3, <2>4, <2>5, ShapeMoves
  <2> QED
    BY <2>2, <2>6
<1> QED
  BY <1>7, <1>17, <1>18, <1>22, <1>24 DEF FileShaped
-----------------------------------------------------------------------------
(***************************************************************************)
(* The invariant.                                                          *)
(***************************************************************************)
TreeAt(st, m) == \E rk, h : Shaped(st, m, rk, h)
FileIs(f) == \E rk, h : FileShaped(f, rk, h)

RegistryOf(st, m, f) ==
  /\ st \in [Key -> KeyRec] /\ m \in Key \cup {NULL}
  /\ m # NULL => TreeAt(st, m)
  /\ f # NULL => FileIs(f)

\* What the inductive proof carries: the registry in memory and that of the file are trees.
RegInv == RegistryOf(reg, MainKey, file)

\* A tree is a registry with its typing, whatever the file.
LEMMA TreeTyped ==
  ASSUME NEW st, NEW m, TreeAt(st, m)
  PROVE  st \in [Key -> KeyRec] /\ m \in Key /\ st[m].used
  BY ShapedIs DEF TreeAt

\* A path of the model is one of at least one name.
LEMMA PathIs ==
  ASSUME NEW path \in Path
  PROVE  path \in Seq(Name) /\ Len(path) \in Nat \ {0}
<1>1. PICK n \in 1..MaxPath : path \in [1..n -> Name]
  BY DEF Path
<1>2. n \in Nat \ {0}
  BY <1>1, RegistryAssumption
<1> QED
  BY <1>1, <1>2

\* The room an action waits for is the room its path takes.
LEMMA RoomHolds ==
  ASSUME RegInv, Running, NEW j \in Nat, Cardinality(FreeAddr(reg)) >= j,
         NEW s, s = [reg |-> reg, key |-> MainKey]
  PROVE  s \in Holds(MainKey, j) /\ TreeAt(reg, MainKey)
<1>1. TreeAt(reg, MainKey)
  BY DEF RegInv, RegistryOf, Running
<1>2. reg \in [Key -> KeyRec] /\ MainKey \in Key /\ reg[MainKey].used
  BY <1>1, TreeTyped
<1>3. s \in [reg : [Key -> KeyRec], key : Key] /\ s.reg = reg /\ s.key = MainKey
  BY <1>2
<1> QED
  BY <1>1, <1>2, <1>3 DEF Holds, TreeAt

\* The path is found or created, and a key of the tree comes back.
LEMMA CreatedTree ==
  ASSUME RegInv, Running, NEW path \in Seq(Name), NEW j \in Nat, Len(path) \in Nat,
         Cardinality(FreeAddr(reg)) >= Len(path) + j,
         NEW s, s = GetOrCreateKeyEx(reg, path, MainKey)
  PROVE  s \in Holds(MainKey, j) /\ KeptKeys(reg, s.reg) /\ Led(s, MainKey, path, Len(path))
<1>1. PICK i \in Nat : i = Len(path) + j
  OBVIOUS
<1>2. [reg |-> reg, key |-> MainKey] \in Holds(MainKey, i)
  BY <1>1, RoomHolds
<1> QED
  BY <1>1, <1>2, PathHolds

\* What Holds says, apart from the sets.
LEMMA HoldsIs ==
  ASSUME NEW m, NEW j \in Nat, NEW s, s \in Holds(m, j)
  PROVE  /\ TreeAt(s.reg, m) /\ s.key \in Key /\ s.reg[s.key].used
         /\ Cardinality(FreeAddr(s.reg)) >= j
  BY DEF Holds, TreeAt

\* A step that leaves the root and the file alone, and a tree.
LEMMA KeptTree ==
  ASSUME RegInv, UNCHANGED <<MainKey, file>>, TreeAt(reg', MainKey)
  PROVE  RegInv'
<1>1. reg' \in [Key -> KeyRec] /\ MainKey \in Key
  BY TreeTyped
<1>2. MainKey' = MainKey /\ file' = file
  OBVIOUS
<1>3. file # NULL => FileIs(file)
  BY DEF RegInv, RegistryOf
<1>4. RegistryOf(reg', MainKey', file')
  BY <1>1, <1>2, <1>3 DEF RegistryOf
<1> QED
  BY <1>4 DEF RegInv

\* KeySetInt, KeySetText and the like.
LEMMA SetKeeps ==
  ASSUME RegInv, NEW path \in Path, NEW t \in Type, NEW v \in Value(t), KeySetData(path, t, v)
  PROVE  RegInv'
<1>1. path \in Seq(Name) /\ Len(path) \in Nat
  BY PathIs
<1>2. PICK s : s = GetOrCreateKeyEx(reg, path, MainKey)
  OBVIOUS
<1>3. /\ Running /\ Cardinality(FreeAddr(reg)) >= Len(path) + 0
      /\ reg' = SetData(s.reg, s.key, t, v) /\ UNCHANGED <<MainKey, file>>
  BY <1>1, <1>2 DEF KeySetData, Room
<1>4. 0 \in Nat /\ s \in Holds(MainKey, 0)
  BY <1>1, <1>2, <1>3, CreatedTree
<1>5. TreeAt(s.reg, MainKey) /\ s.key \in Key
  BY <1>4, HoldsIs
<1>6. PICK rk, h : Shaped(s.reg, MainKey, rk, h)
  BY <1>5 DEF TreeAt
<1>7. Shaped(reg', MainKey, rk, h)
  BY <1>3, <1>5, <1>6, SetDataShaped
<1> QED
  BY <1>3, <1>7, KeptTree DEF TreeAt

\* CreateKey.
LEMMA CreateKeeps ==
  ASSUME RegInv, NEW path \in Path, CreateKey(path)
  PROVE  RegInv'
<1>1. path \in Seq(Name) /\ Len(path) \in Nat
  BY PathIs
<1>2. PICK s : s = GetOrCreateKeyEx(reg, path, MainKey)
  OBVIOUS
<1>3. /\ Running /\ Cardinality(FreeAddr(reg)) >= Len(path) + 0
      /\ reg' = s.reg /\ UNCHANGED <<MainKey, file>>
  BY <1>1, <1>2 DEF CreateKey, Room
<1>4. 0 \in Nat /\ s \in Holds(MainKey, 0)
  BY <1>1, <1>2, <1>3, CreatedTree
<1> QED
  BY <1>3, <1>4, HoldsIs, KeptTree

\* NewKey: its parent, and then the key.
LEMMA NewKeyKeeps ==
  ASSUME RegInv, NEW path \in Path, NEW n \in Name, NewKey(path, n)
  PROVE  RegInv'
<1>1. path \in Seq(Name) /\ Len(path) \in Nat
  BY PathIs
<1>2. PICK s : s = GetOrCreateKeyEx(reg, path, MainKey)
  OBVIOUS
<1>3. Len(Append(path, n)) = Len(path) + 1
  BY <1>1
<1>4. /\ Running /\ Cardinality(FreeAddr(reg)) >= Len(path) + 1
      /\ reg' = NewKeyEx(s.reg, s.key, n).reg /\ UNCHANGED <<MainKey, file>>
  BY <1>2, <1>3 DEF NewKey, Room
<1>5. 1 \in Nat /\ s \in Holds(MainKey, 1)
  BY <1>1, <1>2, <1>4, CreatedTree
<1>6. /\ TreeAt(s.reg, MainKey) /\ s.key \in Key /\ s.reg[s.key].used
      /\ Cardinality(FreeAddr(s.reg)) >= 1
  BY <1>5, HoldsIs
<1>7. FreeAddr(s.reg) # {}
  <2>1. PICK st : st = s.reg
    OBVIOUS
  <2>2. Cardinality(FreeAddr(st)) \in Nat /\ (Cardinality(FreeAddr(st)) > 0 => FreeAddr(st) # {})
    BY FreeFinite
  <2> QED
    BY <1>6, <2>1, <2>2
<1>8. PICK rk, h : Shaped(s.reg, MainKey, rk, h)
  BY <1>6 DEF TreeAt
<1>9. PICK x : x = NewKeyEx(s.reg, s.key, n)
  OBVIOUS
<1>10. \E y, g : Shaped(x.reg, MainKey, y, g)
  BY <1>6, <1>7, <1>8, <1>9, NewKeyShaped
<1> QED
  BY <1>4, <1>9, <1>10, KeptTree DEF TreeAt

\* The key a path leads to is below the root.
LEMMA ResolvedIs ==
  ASSUME RegInv, Running, NEW path \in Path, NEW o, o = ResolveKey(path), o # NULL
  PROVE  TreeAt(reg, MainKey) /\ o \in Key /\ reg[o].parent # NULL
<1>1. TreeAt(reg, MainKey)
  BY DEF RegInv, RegistryOf, Running
<1>2. PICK rk, h : Shaped(reg, MainKey, rk, h)
  BY <1>1 DEF TreeAt
<1>3. MainKey \in Key /\ Len(path) \in Nat \ {0}
  BY <1>1, TreeTyped, PathIs
<1>4. o = ResolveKeyEx(reg, path, MainKey)
  BY DEF ResolveKey
<1>5. o \in Key /\ reg[o].used /\ reg[o].parent # NULL
  BY <1>2, <1>3, <1>4, ResolveIs
<1> QED
  BY <1>1, <1>5

\* DeleteKey, which cannot reach the root.
LEMMA DeleteKeeps ==
  ASSUME RegInv, NEW path \in Path, DeleteKey(path)
  PROVE  RegInv'
<1>1. PICK o : o = ResolveKey(path)
  OBVIOUS
<1>2. /\ Running /\ o # NULL /\ reg' = DeleteKeyEx(reg, o) /\ UNCHANGED <<MainKey, file>>
  BY <1>1 DEF DeleteKey
<1>3. TreeAt(reg, MainKey) /\ o \in Key /\ reg[o].parent # NULL
  BY <1>1, <1>2, ResolvedIs
<1>4. PICK rk, h : Shaped(reg, MainKey, rk, h)
  BY <1>3 DEF TreeAt
<1>5. Shaped(reg', MainKey, rk, h)
  BY <1>2, <1>3, <1>4, DeleteShaped
<1> QED
  BY <1>2, <1>5, KeptTree DEF TreeAt

\* RenameKey.
LEMMA RenameKeeps ==
  ASSUME RegInv, NEW path \in Path, NEW n \in Name, RenameKey(path, n)
  PROVE  RegInv'
<1>1. PICK o : o = ResolveKey(path)
  OBVIOUS
<1>2. /\ Running /\ o # NULL /\ reg' = [reg EXCEPT ![o].name = n] /\ UNCHANGED <<MainKey, file>>
  BY <1>1 DEF RenameKey
<1>3. TreeAt(reg, MainKey) /\ o \in Key
  BY <1>1, <1>2, ResolvedIs
<1>4. PICK rk, h : Shaped(reg, MainKey, rk, h)
  BY <1>3 DEF TreeAt
<1>5. Shaped(reg', MainKey, rk, h)
  BY <1>2, <1>3, <1>4, RenameShaped
<1> QED
  BY <1>2, <1>5, KeptTree DEF TreeAt

\* What is written of a tree is the file of one.
LEMMA WrittenIs ==
  ASSUME RegInv, Running
  PROVE  FileIs(Written(reg, MainKey)) /\ reg \in [Key -> KeyRec] /\ MainKey \in Key
<1>1. TreeAt(reg, MainKey)
  BY DEF RegInv, RegistryOf, Running
<1>2. PICK rk, h : Shaped(reg, MainKey, rk, h)
  BY <1>1 DEF TreeAt
<1>3. PICK f : f = Written(reg, MainKey)
  OBVIOUS
<1>4. \E s, g : FileShaped(f, s, g)
  BY <1>2, <1>3, WrittenShaped
<1> QED
  BY <1>1, <1>3, <1>4, TreeTyped DEF FileIs

\* RegistrySave.
LEMMA SaveKeeps ==
  ASSUME RegInv, RegistrySave
  PROVE  RegInv'
<1>1. /\ Running /\ file' = Written(reg, MainKey) /\ reg' = reg /\ MainKey' = MainKey
  BY DEF RegistrySave, Saves
<1>2. FileIs(file')
  BY <1>1, WrittenIs
<1>3. reg' \in [Key -> KeyRec] /\ MainKey' \in Key \cup {NULL} /\ (MainKey' # NULL => TreeAt(reg', MainKey'))
  BY <1>1 DEF RegInv, RegistryOf
<1> QED
  BY <1>2, <1>3 DEF RegInv, RegistryOf

\* What is read of the file of a tree is a tree.
LEMMA LoadedIs ==
  ASSUME RegInv, file # NULL
  PROVE  TreeAt(Loaded(file, Array), Array[1]) /\ FileIs(file)
<1>1. FileIs(file)
  BY DEF RegInv, RegistryOf
<1>2. PICK rk, h : FileShaped(file, rk, h)
  BY <1>1 DEF FileIs
<1>3. PICK x : x = Loaded(file, Array)
  OBVIOUS
<1>4. \E s, g : Shaped(x, Array[1], s, g)
  BY <1>2, <1>3, LoadedShaped
<1> QED
  BY <1>1, <1>3, <1>4 DEF TreeAt

\* A step that leaves the file alone, and a tree with its root.
LEMMA TreeKeeps ==
  ASSUME TreeAt(reg', MainKey'), RegInv, file' = file
  PROVE  RegInv'
<1>1. reg' \in [Key -> KeyRec] /\ MainKey' \in Key
  BY TreeTyped
<1>2. file' # NULL => FileIs(file')
  BY DEF RegInv, RegistryOf
<1>3. RegistryOf(reg', MainKey', file')
  BY <1>1, <1>2 DEF RegistryOf
<1> QED
  BY <1>3 DEF RegInv

\* RegistryReLoad.
LEMMA ReLoadKeeps ==
  ASSUME RegInv, RegistryReLoad
  PROVE  RegInv'
<1>1. file # NULL /\ reg' = Loaded(file, Array) /\ MainKey' = Array[1] /\ file' = file
  BY DEF RegistryReLoad
<1>2. TreeAt(reg', MainKey')
  BY <1>1, LoadedIs
<1> QED
  BY <1>1, <1>2, TreeKeeps

\* NRegistryInit, with a file and without one.
LEMMA InitKeeps ==
  ASSUME RegInv, NRegistryInit
  PROVE  RegInv'
<1>1. /\ MainKey' = Array[1] /\ file' = file
      /\ (file # NULL /\ reg' = Loaded(file, Array)) \/ reg' = DefaultRegistry
  BY DEF NRegistryInit
<1>2. CASE file # NULL /\ reg' = Loaded(file, Array)
  <2>1. TreeAt(reg', MainKey')
    BY <1>1, <1>2, LoadedIs
  <2> QED
    BY <1>1, <2>1, TreeKeeps
<1>3. CASE reg' = DefaultRegistry
  <2>1. PICK m : m = Array[1]
    OBVIOUS
  <2>2. PICK s : s = [reg |-> DefaultRegistry, key |-> m]
    OBVIOUS
  <2>3. s \in Holds(m, 0) /\ 0 \in Nat
    BY <2>1, <2>2, DefaultHolds
  <2>4. TreeAt(s.reg, m)
    BY <2>3, HoldsIs
  <2>5. s.reg = reg' /\ m = MainKey'
    BY <1>1, <1>3, <2>1, <2>2
  <2>6. TreeAt(reg', MainKey')
    BY <2>4, <2>5
  <2> QED
    BY <1>1, <2>6, TreeKeeps
<1> QED
  BY <1>1, <1>2, <1>3

\* A step that leaves no registry in memory.
LEMMA NoneKeeps ==
  ASSUME reg' \in [Key -> KeyRec], MainKey' = NULL, file' # NULL => FileIs(file')
  PROVE  RegInv'
<1>1. RegistryOf(reg', MainKey', file')
  BY DEF RegistryOf
<1> QED
  BY <1>1 DEF RegInv

\* NRegistryUnInit: saved, and freed.
LEMMA UnInitKeeps ==
  ASSUME RegInv, NRegistryUnInit
  PROVE  RegInv'
<1>1. /\ Running /\ file' = Written(reg, MainKey) /\ reg' = FreeKey(reg, MainKey) /\ MainKey' = NULL
  BY DEF NRegistryUnInit, Saves
<1>2. FileIs(file') /\ reg \in [Key -> KeyRec]
  BY <1>1, WrittenIs
<1>3. \A k \in Key : (IF k \in Below(reg, MainKey) THEN Blank ELSE reg[k]) \in KeyRec
  BY <1>2, BlankIs
<1>4. reg' \in [Key -> KeyRec]
  BY <1>1, <1>3 DEF FreeKey
<1> QED
  BY <1>1, <1>2, <1>4, NoneKeeps

\* What is saved outlives the machine being switched off.
LEMMA PowerKeeps ==
  ASSUME RegInv, PowerOff
  PROVE  RegInv'
<1>1. reg' = [k \in Key |-> Blank] /\ MainKey' = NULL /\ file' = file
  BY DEF PowerOff
<1>2. reg' \in [Key -> KeyRec]
  BY <1>1, BlankIs
<1>3. file' # NULL => FileIs(file')
  BY <1>1 DEF RegInv, RegistryOf
<1> QED
  BY <1>1, <1>2, <1>3, NoneKeeps

\* At first there is neither registry nor file.
LEMMA RegInitInv == Init => RegInv
<1>1. SUFFICES ASSUME Init PROVE RegInv
  OBVIOUS
<1>2. reg = [k \in Key |-> Blank] /\ MainKey = NULL /\ file = NULL
  BY <1>1 DEF Init
<1>3. reg \in [Key -> KeyRec]
  BY <1>2, BlankIs
<1> QED
  BY <1>2, <1>3 DEF RegInv, RegistryOf

\* Every step keeps the invariant.
LEMMA RegNextInv == RegInv /\ [Next]_vars => RegInv'
<1>1. SUFFICES ASSUME RegInv, [Next]_vars PROVE RegInv'
  OBVIOUS
<1>2. CASE UNCHANGED vars
  BY <1>1, <1>2 DEF RegInv, RegistryOf, vars
<1>3. ASSUME NEW path \in Path, NEW t \in Type, NEW v \in Value(t), KeySetData(path, t, v) PROVE RegInv'
  BY <1>1, <1>3, SetKeeps
<1>4. ASSUME NEW path \in Path, CreateKey(path) PROVE RegInv'
  BY <1>1, <1>4, CreateKeeps
<1>5. ASSUME NEW path \in Path, NEW n \in Name, NewKey(path, n) PROVE RegInv'
  BY <1>1, <1>5, NewKeyKeeps
<1>6. ASSUME NEW path \in Path, DeleteKey(path) PROVE RegInv'
  BY <1>1, <1>6, DeleteKeeps
<1>7. ASSUME NEW path \in Path, NEW n \in Name, RenameKey(path, n) PROVE RegInv'
  BY <1>1, <1>7, RenameKeeps
<1>8. CASE RegistrySave
  BY <1>1, <1>8, SaveKeeps
<1>9. CASE RegistryReLoad
  BY <1>1, <1>9, ReLoadKeeps
<1>10. CASE NRegistryInit
  BY <1>1, <1>10, InitKeeps
<1>11. CASE NRegistryUnInit
  BY <1>1, <1>11, UnInitKeeps
<1>12. CASE PowerOff
  BY <1>1, <1>12, PowerKeeps
<1> QED
  BY <1>1, <1>2, <1>3, <1>4, <1>5, <1>6, <1>7, <1>8, <1>9, <1>10, <1>11, <1>12 DEF Next

\* The lines of the file of a tree lead to lines of it.
LEMMA FileTyped ==
  ASSUME NEW f, FileIs(f)
  PROVE  \A i \in 1..Len(f) : {f[i].parent, f[i].next, f[i].prev, f[i].last} \subseteq 0..Len(f)
<1>1. PICK n : n = Len(f)
  OBVIOUS
<1>2. f \in [1..n -> LineRec(n)]
  BY <1>1 DEF FileIs, FileShaped
<1>3. \A i \in 1..n : {f[i].parent, f[i].next, f[i].prev, f[i].last} \subseteq 0..n
  BY <1>2 DEF LineRec
<1> QED
  BY <1>1, <1>3

\* What the invariant says of the registry in memory and of its file.
LEMMA RegInvIs == RegInv => TreeOK
<1>1. SUFFICES ASSUME RegInv PROVE TreeOK
  OBVIOUS
<1>2. /\ reg \in [Key -> KeyRec] /\ MainKey \in Key \cup {NULL}
      /\ MainKey # NULL => TreeAt(reg, MainKey)
      /\ file # NULL => FileIs(file)
  BY <1>1 DEF RegInv, RegistryOf
<1>3. TypeOK
  BY <1>2, FileTyped DEF TypeOK, KeyRec
<1>4. TreeInv
  <2>1. CASE Running
    <3>1. PICK rk, h : Shaped(reg, MainKey, rk, h)
      BY <1>2, <2>1 DEF Running, TreeAt
    <3> QED
      BY <3>1, ShapedIsTree
  <2>2. CASE ~Running
    BY <2>2 DEF TreeInv
  <2> QED
    BY <2>1, <2>2
<1> QED
  BY <1>3, <1>4 DEF TreeOK

(***************************************************************************)
(* Whatever keys are set, created, renamed and deleted, saved and read     *)
(* back, the registry is a tree: the ring entered at a key's Last is that  *)
(* of the keys whose Parent it is, no key that is used is out of reach of  *)
(* MainKey, and every line of the file leads to lines of it.               *)
(***************************************************************************)
THEOREM RegistryIsTree == Spec => []TreeOK
<1>1. Init => RegInv
  BY RegInitInv
<1>2. RegInv /\ [Next]_vars => RegInv'
  BY RegNextInv
<1>3. RegInv => TreeOK
  BY RegInvIs
<1> QED
  BY <1>1, <1>2, <1>3, PTL DEF Spec
-----------------------------------------------------------------------------
(***************************************************************************)
(* Setting a key and getting it.                                           *)
(***************************************************************************)
\* What KeySetData has set is what KeyGetData gets.
LEMMA SetGot ==
  ASSUME RegInv, NEW path \in Path, NEW t \in Type, NEW v \in Value(t), KeySetData(path, t, v)
  PROVE  KeyGetData(path, t, NULL)' = Stored(t, v)
<1>1. path \in Seq(Name) /\ Len(path) \in Nat
  BY PathIs
<1>2. PICK s : s = GetOrCreateKeyEx(reg, path, MainKey)
  OBVIOUS
<1>3. /\ Running /\ Cardinality(FreeAddr(reg)) >= Len(path) + 0
      /\ reg' = SetData(s.reg, s.key, t, v) /\ MainKey' = MainKey
  BY <1>1, <1>2 DEF KeySetData, Room
<1>4. 0 \in Nat /\ s \in Holds(MainKey, 0) /\ Led(s, MainKey, path, Len(path))
  BY <1>1, <1>2, <1>3, CreatedTree
<1>5. TreeAt(s.reg, MainKey) /\ s.key \in Key
  BY <1>4, HoldsIs
<1>6. PICK n \in Nat : n = Len(path)
  BY <1>1
<1>7. PICK way : Walked(s.reg, MainKey, path, n, way) /\ way[n] = s.key
  BY <1>4, <1>6 DEF Led
<1>8. PICK rk, h : Shaped(s.reg, MainKey, rk, h)
  BY <1>5 DEF TreeAt
<1>9. PICK z : z = SetData(s.reg, s.key, t, v)
  OBVIOUS
<1>10. Walked(z, MainKey, path, n, way) /\ Shaped(z, MainKey, rk, h)
  BY <1>5, <1>7, <1>8, <1>9, SetDataWalk, SetDataShaped
<1>11. ResolveKeyEx(z, path, MainKey) = s.key
  <2>1. ResolveKeyEx(z, path, MainKey) = way[n]
    BY <1>6, <1>10, WalkLeads
  <2> QED
    BY <1>7, <2>1
<1>12. s.reg \in [Key -> KeyRec] /\ NULL \notin Key
  BY <1>5, TreeTyped, KeysFinite
<1>13. z[s.key].type = t /\ z[s.key].data = Stored(t, v)
  BY <1>5, <1>9, <1>12, SetDataIs
<1>14. ResolveKey(path)' = s.key
  BY <1>3, <1>9, <1>11 DEF ResolveKey
<1>15. reg' = z /\ s.key # NULL
  BY <1>3, <1>5, <1>9, <1>12
<1>16. KeyGetData(path, t, NULL)' = IF ResolveKey(path)' = NULL \/ reg'[ResolveKey(path)'].type # t
                                    THEN NULL ELSE reg'[ResolveKey(path)'].data
  BY DEF KeyGetData
<1> QED
  BY <1>13, <1>14, <1>15, <1>16

\* Two ways that end in the same key are the same way.
LEMMA SameWay ==
  ASSUME NEW st, NEW m, NEW rk, NEW h, Shaped(st, m, rk, h), NEW n \in Nat, NEW way, NEW d,
         NEW p, NEW q, Walked(st, m, p, n, way), Walked(st, m, q, n, d), way[n] = d[n]
  PROVE  \A i \in 0..n : way[i] = d[i]
<1>1. PICK f : f = [i \in 0..n |-> way[n - i]]
  OBVIOUS
<1>2. PICK V : V = [i \in 0..n |-> {d[n - i]}]
  OBVIOUS
<1>3. f[0] \in V[0]
  BY <1>1, <1>2
<1>4. ASSUME NEW i \in 1..n, f[i - 1] \in V[i - 1] PROVE f[i] \in V[i]
  <2>1. PICK j \in 1..n : j = n - (i - 1)
    OBVIOUS
  <2>2. f[i - 1] = way[j] /\ V[i - 1] = {d[j]} /\ f[i] = way[j - 1] /\ V[i] = {d[j - 1]}
    BY <1>1, <1>2, <2>1
  <2>3. OnWay(st, p, way, j)
    BY WalkIs
  <2>4. OnWay(st, q, d, j)
    BY WalkIs
  <2> QED
    BY <1>4, <2>2, <2>3, <2>4 DEF OnWay
<1>5. \A i \in 0..n : f[i] \in V[i]
  BY <1>3, <1>4, StepsStay
<1>6. ASSUME NEW i \in 0..n PROVE way[i] = d[i]
  <2>1. PICK j \in 0..n : j = n - i /\ n - j = i
    OBVIOUS
  <2> QED
    BY <1>1, <1>2, <1>5, <2>1
<1> QED
  BY <1>6

\* The names a component accepts differ by their case only.
LEMMA NamesAlike ==
  ASSUME NEW path, NEW i, NEW n, n \in NamesAt(path, i)
  PROVE  Fold[n] = Fold[path[i]] /\ (~(i < Len(path)) => n = path[i])
BY DEF NamesAt, Alike

\* No two children of st are alike but for the case.
Differ(st, m) ==
  \A k, e \in Key :
    /\ st[k].used /\ st[e].used /\ {k, e} \cap {m} = {}
    /\ st[k].parent = st[e].parent /\ Fold[st[k].name] = Fold[st[e].name]
    => k = e

\* The places and the names of the keys of st stay.
Stays(st, z) ==
  \A k \in Key : st[k].used => z[k].used /\ z[k].parent = st[k].parent /\ z[k].name = st[k].name

\* A path that leads to a key leads to it when there are more keys, as long as no two siblings are
\* alike.
LEMMA WayStays ==
  ASSUME NEW st, NEW m, NEW rk, NEW h, Shaped(st, m, rk, h), NEW z, NEW x, NEW g, Shaped(z, m, x, g),
         Stays(st, z), Differ(z, m), NEW path, NEW n \in Nat, NEW way, Walked(st, m, path, n, way)
  PROVE  Walked(z, m, path, n, way)
<1>0. NULL \notin Key /\ z[m].parent = NULL
  BY ShapedIs, KeysFinite
<1>1. ASSUME NEW i \in 1..n PROVE Child(z, way[i - 1], path, i) = way[i]
  <2>1. OnWay(st, path, way, i)
    BY WalkIs
  <2>2. PICK o \in Key : o = way[i - 1]
    BY <2>1 DEF OnWay
  <2>3. PICK kid \in Key : kid = way[i]
    BY <2>1 DEF OnWay
  <2>4. z[kid].used /\ z[kid].parent = o /\ z[kid].name \in NamesAt(path, i)
    BY <2>1, <2>2, <2>3 DEF OnWay, Stays
  <2>5. kid \in ChildrenOf(z, o)
    BY <2>4 DEF ChildrenOf
  <2>6. PICK e : e = First(z, o, NamesAt(path, i))
    OBVIOUS
  <2>7. e \in ChildrenOf(z, o) /\ z[e].name \in NamesAt(path, i)
    BY <2>4, <2>5, <2>6, FirstIs
  <2>8. e \in Key /\ z[e].used /\ z[e].parent = o
    BY <2>7 DEF ChildrenOf
  <2>9. Fold[z[e].name] = Fold[z[kid].name]
    BY <2>4, <2>7, NamesAlike
  <2>10. e # m /\ kid # m
    BY <1>0, <2>2, <2>4, <2>8
  <2>11. e = kid
    BY <2>4, <2>8, <2>9, <2>10 DEF Differ
  <2> QED
    BY <2>2, <2>3, <2>6, <2>11 DEF Child, NamesAt
<1> QED
  BY <1>1 DEF Walked

\* What an action that creates the path leaves: the registry it came from, with new keys and maybe
\* the value of the key at the path set.
Created(path, s) ==
  /\ s = GetOrCreateKeyEx(reg, path, MainKey)
  /\ MainKey' = MainKey
  /\ \/ reg' = s.reg
     \/ \E t \in Type : \E v \in Value(t) : reg' = SetData(s.reg, s.key, t, v)

\* The keys keep their places and their names, and all but the one at the path their values.
LEMMA CreatedIs ==
  ASSUME RegInv, Running, NEW path \in Path, NEW n \in Nat, n = Len(path), Room(path),
         NEW s, Created(path, s)
  PROVE  /\ \E rk, h : Shaped(reg', MainKey, rk, h)
         /\ Stays(reg, reg') /\ \E way : Walked(reg', MainKey, path, n, way) /\ way[n] = s.key
         /\ \A k \in Key : reg[k].used /\ k # s.key => SameValue(reg'[k], reg[k])
<1>1. path \in Seq(Name)
  BY PathIs
<1>2. Cardinality(FreeAddr(reg)) >= Len(path) + 0 /\ 0 \in Nat /\ Len(path) \in Nat
  BY <1>1 DEF Room
<1>3. s = GetOrCreateKeyEx(reg, path, MainKey)
  BY DEF Created
<1>4. s \in Holds(MainKey, 0) /\ KeptKeys(reg, s.reg) /\ Led(s, MainKey, path, Len(path))
  BY <1>1, <1>2, <1>3, CreatedTree
<1>5. TreeAt(s.reg, MainKey) /\ s.key \in Key
  BY <1>2, <1>4, HoldsIs
<1>6. PICK way : Walked(s.reg, MainKey, path, n, way) /\ way[n] = s.key
  BY <1>4 DEF Led
<1>7. PICK rk, h : Shaped(s.reg, MainKey, rk, h)
  BY <1>5 DEF TreeAt
<1>8. PICK z : z = s.reg
  OBVIOUS
<1>9. z \in [Key -> KeyRec]
  BY <1>5, <1>8, TreeTyped
<1>10. \A k \in Key : reg[k].used =>
         z[k].used /\ z[k].parent = reg[k].parent /\ SameValue(z[k], reg[k])
  BY <1>4, <1>8 DEF KeptKeys
<1>11. CASE reg' = z
  <2>1. Stays(reg, reg')
    BY <1>10, <1>11 DEF Stays, SameValue
  <2> QED
    BY <1>6, <1>7, <1>8, <1>10, <1>11, <2>1
<1>12. ASSUME NEW t \in Type, NEW v \in Value(t), reg' = SetData(z, s.key, t, v)
       PROVE  /\ \E x, g : Shaped(reg', MainKey, x, g)
              /\ Stays(reg, reg') /\ \E w : Walked(reg', MainKey, path, n, w) /\ w[n] = s.key
              /\ \A k \in Key : reg[k].used /\ k # s.key => SameValue(reg'[k], reg[k])
  <2>1. PICK y : y = SetData(z, s.key, t, v)
    OBVIOUS
  <2>2. Walked(y, MainKey, path, n, way) /\ Shaped(y, MainKey, rk, h)
    BY <1>5, <1>6, <1>7, <1>8, <2>1, SetDataWalk, SetDataShaped
  <2>3. \A k \in Key : /\ k # s.key => y[k] = z[k]
                       /\ y[k].name = z[k].name /\ y[k].used = z[k].used /\ y[k].parent = z[k].parent
    BY <1>5, <1>9, <2>1, SetDataIs
  <2>4. Stays(reg, y)
    BY <1>10, <2>3 DEF Stays, SameValue
  <2>5. \A k \in Key : reg[k].used /\ k # s.key => SameValue(y[k], reg[k])
    BY <1>10, <2>3
  <2> QED
    BY <1>6, <1>12, <2>1, <2>2, <2>4, <2>5
<1>13. reg' = z \/ \E t \in Type : \E v \in Value(t) : reg' = SetData(z, s.key, t, v)
  BY <1>8 DEF Created
<1> QED
  BY <1>11, <1>12, <1>13

\* Two paths that lead to one key are the same but for the case of the components before the last.
LEMMA OnePath ==
  ASSUME NEW st, NEW m, NEW rk, NEW h, Shaped(st, m, rk, h), NEW path \in Path, NEW q \in Path,
         NEW n \in Nat, n = Len(path), NEW l \in Nat, l = Len(q), NEW way, NEW d,
         Walked(st, m, path, n, way), Walked(st, m, q, l, d), way[n] = d[l]
  PROVE  SamePath(q, path)
<1>1. n # 0
  BY PathIs
<1>2. n = l
  <2>1. h[way[n]] = n
    <3>1. \A i \in 0..n : way[i] \in Key /\ h[way[i]] = i
      BY WalkDepth
    <3> QED
      BY <3>1
  <2>2. h[d[l]] = l
    <3>1. \A i \in 0..l : d[i] \in Key /\ h[d[i]] = i
      BY WalkDepth
    <3> QED
      BY <3>1
  <2> QED
    BY <2>1, <2>2
<1>3. Walked(st, m, q, n, d) /\ way[n] = d[n]
  BY <1>2
<1>4. \A i \in 0..n : way[i] = d[i]
  BY <1>3, SameWay
<1>5. ASSUME NEW i \in 1..n
      PROVE  Fold[q[i]] = Fold[path[i]] /\ (i = n => q[i] = path[i])
  <2>1. OnWay(st, path, way, i)
    BY WalkIs
  <2>2. OnWay(st, q, d, i)
    BY <1>3, WalkIs
  <2>3. PICK e : e = st[way[i]].name
    OBVIOUS
  <2>4. way[i] = d[i]
    BY <1>4
  <2>5. e \in NamesAt(path, i) /\ e \in NamesAt(q, i)
    BY <2>1, <2>2, <2>3, <2>4 DEF OnWay
  <2>6. Fold[e] = Fold[path[i]] /\ (~(i < Len(path)) => e = path[i])
    BY <2>5, NamesAlike
  <2>7. Fold[e] = Fold[q[i]] /\ (~(i < Len(q)) => e = q[i])
    BY <2>5, NamesAlike
  <2>8. i = n => ~(i < Len(path)) /\ ~(i < Len(q))
    BY <1>2
  <2> QED
    BY <2>6, <2>7, <2>8
<1>6. n \in 1..n
  BY <1>1
<1>7. q[n] = path[n] /\ \A i \in 1..n : Fold[q[i]] = Fold[path[i]]
  BY <1>5, <1>6
<1> QED
  BY <1>2, <1>7 DEF SamePath

\* What another path leads to keeps its value.
LEMMA OtherKept ==
  ASSUME RegInv, Running, NEW path \in Path, Room(path), NEW s, Created(path, s), SiblingsDiffer',
         NEW q \in Path, ~SamePath(q, path), ResolveKey(q) # NULL, NEW t \in Type
  PROVE  KeyGetData(q, t, NULL)' = KeyGetData(q, t, NULL)
<1>1. PICK n \in Nat : n = Len(path)
  BY PathIs
<1>2. PICK l \in Nat : l = Len(q) /\ l # 0
  BY PathIs
<1>3. MainKey' = MainKey
  BY DEF Created
<1>4. PICK x, g : Shaped(reg', MainKey, x, g)
  BY <1>1, CreatedIs
<1>5. Stays(reg, reg') /\ \A k \in Key : reg[k].used /\ k # s.key => SameValue(reg'[k], reg[k])
  BY <1>1, CreatedIs
<1>6. PICK way : Walked(reg', MainKey, path, n, way) /\ way[n] = s.key
  BY <1>1, CreatedIs
<1>7. PICK rk, h : Shaped(reg, MainKey, rk, h)
  BY DEF RegInv, RegistryOf, Running, TreeAt
<1>8. PICK k : k = ResolveKey(q)
  OBVIOUS
<1>9. k = ResolveKeyEx(reg, q, MainKey) /\ k # NULL
  BY <1>8 DEF ResolveKey
<1>10. PICK d : Walked(reg, MainKey, q, l, d) /\ d[l] = k
  BY <1>2, <1>7, <1>9, WalkExists
<1>11. Differ(reg', MainKey)
  BY <1>3 DEF Differ, SiblingsDiffer
<1>12. Walked(reg', MainKey, q, l, d)
  BY <1>4, <1>5, <1>7, <1>10, <1>11, WayStays
<1>13. ResolveKeyEx(reg', q, MainKey) = k
  BY <1>2, <1>4, <1>10, <1>12, WalkLeads
<1>14. ResolveKey(q)' = k
  BY <1>3, <1>13 DEF ResolveKey
<1>15. k # s.key
  <2> SUFFICES ASSUME k = s.key PROVE FALSE
    OBVIOUS
  <2>1. way[n] = d[l]
    BY <1>6, <1>10
  <2> QED
    BY <1>1, <1>2, <1>4, <1>6, <1>12, <2>1, OnePath
<1>16. k \in Key /\ reg[k].used
  <2>1. Len(q) \in Nat \ {0} /\ MainKey \in Key
    BY <1>2, <1>7, ShapedIs
  <2> QED
    BY <1>7, <1>9, <2>1, ResolveIs
<1>17. reg'[k].type = reg[k].type /\ reg'[k].data = reg[k].data
  BY <1>5, <1>15, <1>16 DEF SameValue
<1>18. KeyGetData(q, t, NULL)' = IF ResolveKey(q)' = NULL \/ reg'[ResolveKey(q)'].type # t
                                 THEN NULL ELSE reg'[ResolveKey(q)'].data
  BY DEF KeyGetData
<1>19. KeyGetData(q, t, NULL) = IF k = NULL \/ reg[k].type # t THEN NULL ELSE reg[k].data
  BY <1>8 DEF KeyGetData
<1> QED
  BY <1>14, <1>17, <1>18, <1>19

(***************************************************************************)
(* What KeySetData sets is what KeyGetData of the same path gets, whatever *)
(* the keys are called; and setting or creating a key changes the value of *)
(* no other path, as long as no two siblings are alike but for the case.   *)
(***************************************************************************)
THEOREM SetIsGotAlone == Spec => SetsItsPath
<1>1. RegInv => [\A path \in Path, t \in Type : \A v \in Value(t) :
                   KeySetData(path, t, v) => KeyGetData(path, t, NULL)' = Stored(t, v)]_vars
  BY SetGot
<1>2. ASSUME RegInv, SiblingsDiffer', NEW path \in Path,
             CreateKey(path) \/ \E t \in Type : \E v \in Value(t) : KeySetData(path, t, v),
             NEW q \in Path, ~SamePath(q, path), ResolveKey(q) # NULL, NEW t \in Type
      PROVE  KeyGetData(q, t, NULL)' = KeyGetData(q, t, NULL)
  <2>1. PICK s : s = GetOrCreateKeyEx(reg, path, MainKey)
    OBVIOUS
  <2>2. CASE CreateKey(path)
    <3>1. Created(path, s) /\ Running /\ Room(path)
      BY <2>1, <2>2 DEF CreateKey, Created
    <3> QED
      BY <1>2, <3>1, OtherKept
  <2>3. CASE \E x \in Type : \E v \in Value(x) : KeySetData(path, x, v)
    <3>1. Created(path, s) /\ Running /\ Room(path)
      BY <2>1, <2>3 DEF KeySetData, Created
    <3> QED
      BY <1>2, <3>1, OtherKept
  <2> QED
    BY <1>2, <2>2, <2>3
<1>3. RegInv => [SiblingsDiffer /\ SiblingsDiffer' =>
                   \A path \in Path :
                     (CreateKey(path) \/ \E t \in Type : \E v \in Value(t) : KeySetData(path, t, v)) =>
                       \A q \in Path : ~SamePath(q, path) /\ ResolveKey(q) # NULL =>
                         \A t \in Type : KeyGetData(q, t, NULL)' = KeyGetData(q, t, NULL)]_vars
  BY <1>2
<1>4. Init => RegInv
  BY RegInitInv
<1>5. RegInv /\ [Next]_vars => RegInv'
  BY RegNextInv
<1> QED
  BY <1>1, <1>3, <1>4, <1>5, PTL DEF Spec, SetsItsPath, SetIsGot, OthersAreKept
-----------------------------------------------------------------------------
(***************************************************************************)
(* What is saved is what is read.                                          *)
(***************************************************************************)
LineId(id, k) == IF k = NULL THEN 0 ELSE id[k]
Address(i) == IF i = 0 THEN NULL ELSE Array[i]

\* Line id[k] of the file is that of key k.
LineOf(st, f, id, k) ==
  /\ id[k] \in 1..Len(f) /\ SameValue(f[id[k]], st[k])
  /\ f[id[k]].last = LineId(id, st[k].last)
  /\ f[id[k]].next = LineId(id, st[k].next)
  /\ f[id[k]].parent = LineId(id, st[k].parent)

\* The links of a key that is used lead to such keys.
LinksIn(st, k) ==
  /\ st[k].last = NULL \/ st[k].last \in UsedOf(st)
  /\ st[k].next = NULL \/ st[k].next \in UsedOf(st)
  /\ st[k].parent = NULL \/ st[k].parent \in UsedOf(st)

\* Every key that is used has its line, and no line is that of two keys.
Lined(st, m, f, id) ==
  /\ id[m] = 1
  /\ \A k \in UsedOf(st) : LineOf(st, f, id, k)
  /\ \A j, k \in UsedOf(st) : id[j] = id[k] => j = k
  /\ \A i \in 1..Len(f) : \E k \in UsedOf(st) : id[k] = i

LEMMA LinksStay ==
  ASSUME NEW st, NEW m, NEW rk, NEW h, Shaped(st, m, rk, h), NEW k \in UsedOf(st)
  PROVE  LinksIn(st, k)
<1>1. PICK U : U = UsedOf(st)
  OBVIOUS
<1>2. /\ st \in [Key -> KeyRec] /\ NULL \notin Key /\ m \in Key /\ st[m].next = NULL
      /\ \A x \in Key : st[x].parent # NULL => st[x].used /\ st[x].parent \in Key /\ st[st[x].parent].used
      /\ \A x \in Key : st[x].used /\ x # m => st[x].parent # NULL
  BY ShapedIs, KeysFinite
<1>3. U \subseteq Key /\ \A x \in Key : x \in U <=> st[x].used
  BY <1>1 DEF UsedOf
<1>4. k \in Key /\ st[k].used
  BY <1>1, <1>3
<1>5. st[k].parent = NULL \/ st[k].parent \in U
  BY <1>2, <1>3, <1>4
<1>6. ASSUME st[k].last # NULL PROVE st[k].last \in U
  <2>1. st[k].last \in Key /\ st[st[k].last].parent = k
    BY <1>4, <1>6, ShapedRing
  <2> QED
    BY <1>2, <1>3, <1>4, <2>1
<1>7. ASSUME st[k].next # NULL PROVE st[k].next \in U
  <2>1. st[k].parent # NULL
    BY <1>2, <1>4, <1>7
  <2>2. st[k].next \in Key /\ st[st[k].next].parent = st[k].parent
    BY <1>4, <2>1, ShapedRing
  <2> QED
    BY <1>2, <1>3, <2>1, <2>2
<1> QED
  BY <1>1, <1>5, <1>6, <1>7 DEF LinksIn

\* WriteKey writes a line of every key, under the ids GenerateTmpId gives.
LEMMA WrittenLines ==
  ASSUME NEW st, NEW m, NEW rk, NEW h, Shaped(st, m, rk, h), NEW f, f = Written(st, m)
  PROVE  \E id : Lined(st, m, f, id)
<1>1. PICK e : e = Visit(st, m)
  OBVIOUS
<1>2. Starts(e, UsedOf(st), m)
  BY <1>1, VisitIs
<1>3. PICK n \in Nat : n = Len(e)
  BY <1>2 DEF Starts
<1>4. PICK U : U = UsedOf(st)
  OBVIOUS
<1>5. /\ e \in Seq(Key) /\ n # 0 /\ e[1] = m /\ {e[i] : i \in 1..n} = U
      /\ \A i, j \in 1..n : e[i] = e[j] => i = j
  BY <1>2, <1>3, <1>4 DEF Starts
<1>6. \A k \in U : \E i \in 1..n : e[i] = k
  BY <1>5
<1>7. \A i \in 1..n : e[i] \in U
  BY <1>5
<1>8. PICK id : id = GenerateTmpId(st, m)
  OBVIOUS
<1>9. id = [k \in Key |-> IF \E i \in 1..n : e[i] = k THEN CHOOSE i \in 1..n : e[i] = k ELSE 0]
  BY <1>1, <1>3, <1>8 DEF GenerateTmpId
<1>10. U \subseteq Key
  BY <1>4 DEF UsedOf
<1>11. \A k \in U : id[k] \in 1..n /\ e[id[k]] = k
  BY <1>6, <1>9, <1>10
<1> DEFINE Id(k) == IF k = NULL THEN 0 ELSE id[k]
           Line(k) == [name |-> st[k].name, type |-> st[k].type, data |-> st[k].data,
                       parent |-> Id(st[k].parent), next |-> Id(st[k].next), prev |-> Id(st[k].prev),
                       last |-> Id(st[k].last)]
<1>12. f = [i \in 1..n |-> Line(e[i])]
  <2>1. f = [i \in 1..Len(e) |-> Line(e[i])]
    BY <1>1, <1>8 DEF Written
  <2> HIDE DEF Line
  <2> QED
    BY <1>3, <2>1
<1>13. Len(f) = n
  <2> HIDE DEF Line
  <2> QED
    BY <1>12
<1>14. ASSUME NEW k \in U PROVE LineOf(st, f, id, k)
  <2>1. PICK w : w = Line(k)
    OBVIOUS
  <2>2. f[id[k]] = w
    <3> HIDE DEF Line
    <3> QED
      BY <1>11, <1>12, <2>1
  <2>3. /\ w.last = LineId(id, st[k].last) /\ w.next = LineId(id, st[k].next)
        /\ w.parent = LineId(id, st[k].parent)
    BY <2>1 DEF LineId
  <2>4. SameValue(w, st[k])
    BY <2>1 DEF SameValue
  <2> HIDE DEF Line
  <2> QED
    BY <1>11, <1>13, <2>2, <2>3, <2>4 DEF LineOf
<1>15. \A i \in 1..n : id[e[i]] = i
  BY <1>5, <1>7, <1>11
<1>16. id[m] = 1
  BY <1>3, <1>5, <1>15
<1>17. \A j, k \in U : id[j] = id[k] => j = k
  BY <1>11
<1>18. \A i \in 1..n : \E k \in U : id[k] = i
  BY <1>7, <1>15
<1> QED
  BY <1>4, <1>13, <1>14, <1>16, <1>17, <1>18 DEF Lined

\* The key at Array[i] is that of line i of the file.
ReadFrom(f, z, i) ==
  /\ Array[i] \in Key /\ z[Array[i]].used /\ SameValue(z[Array[i]], f[i])
  /\ z[Array[i]].last = Address(f[i].last)
  /\ z[Array[i]].next = Address(f[i].next)
  /\ z[Array[i]].parent = Address(f[i].parent)

\* LoadRegistry reads every line into a key of its own, and makes no others.
LEMMA LoadedLines ==
  ASSUME NEW f, NEW n \in Nat, n = Len(f), n <= Keys, NEW z, z = Loaded(f, Array)
  PROVE  /\ \A i \in 1..n : ReadFrom(f, z, i)
         /\ \A k \in UsedOf(z) : \E i \in 1..n : k = Array[i]
<1>1. /\ \A i \in 1..n : Array[i] \in Key
      /\ \A i, j \in 1..n : Array[i] = Array[j] => i = j
  BY ArrayIs
<1> DEFINE Ref(i) == IF i = 0 THEN NULL ELSE Array[i]
           Record(i) == [Root EXCEPT !.name = f[i].name, !.type = f[i].type, !.data = f[i].data,
                                     !.parent = Ref(f[i].parent), !.next = Ref(f[i].next),
                                     !.prev = Ref(f[i].prev), !.last = Ref(f[i].last)]
<1>2. z = [k \in Key |-> IF \E i \in 1..n : Array[i] = k
                         THEN Record(CHOOSE i \in 1..n : Array[i] = k) ELSE Blank]
  <2>1. z = [k \in Key |-> IF \E i \in 1..Len(f) : Array[i] = k
                           THEN Record(CHOOSE i \in 1..Len(f) : Array[i] = k) ELSE Blank]
    BY DEF Loaded
  <2> HIDE DEF Record
  <2> QED
    BY <2>1
<1>3. ASSUME NEW i \in 1..n PROVE z[Array[i]] = Record(i)
  <2>1. (CHOOSE j \in 1..n : Array[j] = Array[i]) = i
    BY <1>1
  <2> HIDE DEF Record
  <2> QED
    BY <1>1, <1>2, <2>1
<1>4. ASSUME NEW i \in 1..n PROVE ReadFrom(f, z, i)
  <2>1. PICK w : w = Record(i)
    OBVIOUS
  <2>2. /\ w.used /\ w.name = f[i].name /\ w.type = f[i].type /\ w.data = f[i].data
        /\ w.last = Address(f[i].last) /\ w.next = Address(f[i].next) /\ w.parent = Address(f[i].parent)
    BY <2>1, BlankIs DEF Address, KeyRec
  <2> HIDE DEF Record
  <2>3. z[Array[i]] = w
    BY <1>3, <2>1
  <2> QED
    BY <1>1, <2>2, <2>3 DEF ReadFrom, SameValue
<1>5. ASSUME NEW k \in UsedOf(z) PROVE \E i \in 1..n : k = Array[i]
  <2>1. k \in Key /\ z[k].used
    BY <1>5 DEF UsedOf
  <2>2. CASE ~\E i \in 1..n : Array[i] = k
    <3> HIDE DEF Record
    <3>1. z[k] = Blank
      BY <1>2, <2>1, <2>2
    <3> QED
      BY <2>1, <3>1, BlankIs
  <2> QED
    BY <2>2
<1> QED
  BY <1>4, <1>5

\* Key w[k] of z is the copy of key k of st.
Copied(st, z, w, k) ==
  /\ w[k] \in Key /\ z[w[k]].used /\ SameValue(z[w[k]], st[k])
  /\ z[w[k]].last = IF st[k].last = NULL THEN NULL ELSE w[st[k].last]
  /\ z[w[k]].next = IF st[k].next = NULL THEN NULL ELSE w[st[k].next]
  /\ z[w[k]].parent = IF st[k].parent = NULL THEN NULL ELSE w[st[k].parent]

\* Every key that is used has its copy, and z holds nothing else.
Copies(st, z, w) ==
  /\ \A k \in UsedOf(st) : Copied(st, z, w, k)
  /\ \A j, k \in UsedOf(st) : w[j] = w[k] => j = k
  /\ \A x \in UsedOf(z) : \E k \in UsedOf(st) : x = w[k]

LEMMA SavedCopied ==
  ASSUME NEW st, NEW m, NEW rk, NEW h, Shaped(st, m, rk, h), NEW f, f = Written(st, m),
         NEW z, z = Loaded(f, Array)
  PROVE  \E w : Copies(st, z, w) /\ w[m] = Array[1]
<1>1. PICK s, g : FileShaped(f, s, g)
  BY WrittenShaped
<1>2. PICK n \in Nat : n = Len(f) /\ n <= Keys
  <2>1. PICK i \in 1..Keys : i = Len(f)
    BY <1>1 DEF FileShaped
  <2> QED
    BY <2>1, ArrayIs
<1>3. PICK id : Lined(st, m, f, id)
  BY WrittenLines
<1>4. PICK U : U = UsedOf(st)
  OBVIOUS
<1>5. /\ id[m] = 1
      /\ \A k \in U : LineOf(st, f, id, k)
      /\ \A j, k \in U : id[j] = id[k] => j = k
      /\ \A i \in 1..n : \E k \in U : id[k] = i
  BY <1>2, <1>3, <1>4 DEF Lined
<1>6. /\ \A i \in 1..n : ReadFrom(f, z, i)
      /\ \A k \in UsedOf(z) : \E i \in 1..n : k = Array[i]
  BY <1>2, LoadedLines
<1>7. PICK w : w = [k \in U |-> Array[id[k]]]
  OBVIOUS
<1>8. \A k \in U : w[k] = Array[id[k]]
  BY <1>7
<1>9. \A k \in U : id[k] \in 1..n /\ k # NULL
  <2>1. NULL \notin U
    BY <1>4, KeysFinite DEF UsedOf
  <2> QED
    BY <1>2, <1>5, <2>1 DEF LineOf
<1>10. ASSUME NEW k, k = NULL \/ k \in U
       PROVE  Address(LineId(id, k)) = IF k = NULL THEN NULL ELSE w[k]
  <2>1. CASE k = NULL
    BY <2>1 DEF Address, LineId
  <2>2. CASE k \in U
    <3>1. LineId(id, k) = id[k] /\ id[k] # 0
      BY <1>9, <2>2 DEF LineId
    <3> QED
      BY <1>8, <1>9, <2>2, <3>1 DEF Address
  <2> QED
    BY <1>10, <2>1, <2>2
<1>11. ASSUME NEW k \in U PROVE Copied(st, z, w, k)
  <2>1. PICK i \in 1..n : i = id[k] /\ w[k] = Array[i]
    BY <1>8, <1>9
  <2>2. /\ SameValue(f[i], st[k]) /\ f[i].last = LineId(id, st[k].last)
        /\ f[i].next = LineId(id, st[k].next) /\ f[i].parent = LineId(id, st[k].parent)
    BY <1>5, <2>1 DEF LineOf
  <2>3. /\ Array[i] \in Key /\ z[Array[i]].used /\ SameValue(z[Array[i]], f[i])
        /\ z[Array[i]].last = Address(f[i].last)
        /\ z[Array[i]].next = Address(f[i].next)
        /\ z[Array[i]].parent = Address(f[i].parent)
    BY <1>6 DEF ReadFrom
  <2>4. LinksIn(st, k)
    BY <1>4, LinksStay
  <2>5. /\ Address(f[i].last) = IF st[k].last = NULL THEN NULL ELSE w[st[k].last]
        /\ Address(f[i].next) = IF st[k].next = NULL THEN NULL ELSE w[st[k].next]
        /\ Address(f[i].parent) = IF st[k].parent = NULL THEN NULL ELSE w[st[k].parent]
    BY <1>4, <1>10, <2>2, <2>4 DEF LinksIn
  <2>6. SameValue(z[Array[i]], st[k])
    BY <2>2, <2>3 DEF SameValue
  <2> QED
    BY <2>1, <2>3, <2>5, <2>6 DEF Copied
<1>12. \A i, j \in 1..n : Array[i] = Array[j] => i = j
  BY <1>2, ArrayIs
<1>13. \A j, k \in U : w[j] = w[k] => j = k
  BY <1>5, <1>8, <1>9, <1>12
<1>14. \A x \in UsedOf(z) : \E k \in U : x = w[k]
  BY <1>5, <1>6, <1>8
<1>15. w[m] = Array[1]
  <2>1. m \in U
    BY <1>4, ShapedIs DEF UsedOf
  <2> QED
    BY <1>5, <1>8, <2>1
<1> QED
  BY <1>4, <1>11, <1>13, <1>14, <1>15 DEF Copies

\* The children of a copy are the copies of the children, in their order.
LEMMA CopiedKids ==
  ASSUME NEW st, NEW m, NEW rk, NEW h, Shaped(st, m, rk, h),
         NEW z, NEW y, NEW x, NEW g, Shaped(z, y, x, g),
         NEW w, Copies(st, z, w), NEW o \in UsedOf(st),
         NEW s, s = Kids(st, o), NEW t, t = Kids(z, w[o])
  PROVE  Len(t) = Len(s) /\ \A i \in 1..Len(s) : s[i] \in UsedOf(st) /\ t[i] = w[s[i]]
<1>1. PICK U : U = UsedOf(st)
  OBVIOUS
<1>2. /\ \A k \in U : Copied(st, z, w, k)
      /\ \A j, k \in U : w[j] = w[k] => j = k
      /\ \A k \in UsedOf(z) : \E j \in U : k = w[j]
  BY <1>1 DEF Copies
<1>3. PICK e : e = w[o]
  OBVIOUS
<1>4. PICK K : K = ChildrenOf(st, o)
  OBVIOUS
<1>5. PICK C : C = ChildrenOf(z, e)
  OBVIOUS
<1>6. NULL \notin Key /\ IsFiniteSet(Key) /\ o \in U
  BY <1>1, KeysFinite
<1>7. /\ U \subseteq Key /\ K \subseteq U /\ C \subseteq UsedOf(z)
      /\ \A k \in U : k \in K <=> st[k].parent = o
      /\ \A k \in UsedOf(z) : k \in C <=> z[k].parent = e
  BY <1>1, <1>4, <1>5 DEF ChildrenOf, UsedOf
<1>8. \A k \in U : LinksIn(st, k)
  BY <1>1, LinksStay
<1>9. \A k \in U : /\ w[k] \in Key /\ w[k] \in UsedOf(z)
                   /\ z[w[k]].last = IF st[k].last = NULL THEN NULL ELSE w[st[k].last]
                   /\ z[w[k]].next = IF st[k].next = NULL THEN NULL ELSE w[st[k].next]
                   /\ z[w[k]].parent = IF st[k].parent = NULL THEN NULL ELSE w[st[k].parent]
  BY <1>2 DEF Copied, UsedOf
<1>10. \A k \in U : w[k] \in C <=> k \in K
  <2> SUFFICES ASSUME NEW k \in U PROVE w[k] \in C <=> k \in K
    OBVIOUS
  <2>1. st[k].parent = NULL \/ st[k].parent \in U
    BY <1>1, <1>8 DEF LinksIn
  <2>2. z[w[k]].parent = e <=> st[k].parent = o
    BY <1>2, <1>3, <1>6, <1>7, <1>9, <2>1
  <2> QED
    BY <1>7, <1>9, <2>2
<1>11. Cardinality(C) = Cardinality(K)
  <2>1. PICK f : f = [k \in K |-> w[k]]
    OBVIOUS
  <2>2. \A k \in K : f[k] \in C /\ f[k] = w[k]
    BY <1>7, <1>10, <2>1
  <2>3. \A j, k \in K : f[j] = f[k] => j = k
    BY <1>2, <1>7, <2>2
  <2>4. \A k \in C : \E j \in K : f[j] = k
    BY <1>2, <1>7, <1>10, <2>2
  <2>5. f \in [K -> C]
    BY <2>1, <2>2
  <2>6. f \in Bijection(K, C)
    BY <2>3, <2>4, <2>5 DEF Bijection, Injection, Surjection, IsInjective
  <2>7. IsFiniteSet(K)
    BY <1>6, <1>7, FS_Subset
  <2> QED
    BY <2>6, <2>7, FS_Bijection DEF ExistsBijection
<1>12. st[o].last # NULL => z[e].last = w[st[o].last]
  BY <1>3, <1>6, <1>9
<1>13. \A k \in K : z[w[k]].next = w[st[k].next]
  <2> SUFFICES ASSUME NEW k \in K PROVE z[w[k]].next = w[st[k].next]
    OBVIOUS
  <2>1. k \in U /\ k \in Key /\ st[k].parent # NULL
    BY <1>6, <1>7
  <2>2. st[k].next # NULL
    BY <1>6, <2>1, ShapedRing
  <2> QED
    BY <1>9, <2>1, <2>2
<1>14. e \in Key /\ o \in Key
  BY <1>3, <1>6, <1>7, <1>9
<1>15. Len(t) = Len(s) /\ \A i \in 1..Len(s) : t[i] = w[s[i]]
  <2>1. t = Kids(z, e)
    BY <1>3
  <2>2. /\ Cardinality(ChildrenOf(z, e)) = Cardinality(ChildrenOf(st, o))
        /\ \A k \in ChildrenOf(st, o) : z[w[k]].next = w[st[k].next]
    BY <1>4, <1>5, <1>11, <1>13
  <2> QED
    BY <1>12, <1>14, <2>1, <2>2, KidsMapped
<1>16. \A i \in 1..Len(s) : s[i] \in K
  BY <1>4, <1>14, ShapedKids DEF Once
<1> QED
  BY <1>1, <1>7, <1>15, <1>16

\* The trees of depth d, from those of depth d - 1.
Trees(st, d, below) ==
  [k \in Key |->
    [name |-> st[k].name, type |-> st[k].type, data |-> st[k].data,
     kids |-> IF d = 0 THEN << >> ELSE [i \in 1..Len(Kids(st, k)) |-> below[Kids(st, k)[i]]]]]

ByDepth(st, n, f) == f = [d \in 0..n |-> f[d]] /\ \A d \in 0..n : f[d] = Trees(st, d, f[d - 1])

\* The trees below the keys grow from depth to depth.
LEMMA TreeGrows ==
  ASSUME NEW st, NEW m
  PROVE  \E f : ByDepth(st, Keys, f) /\ Tree(st, m) = f[Keys][m]
<1> DEFINE E(f) == [d \in 0..Cardinality(Key) |->
                      [k \in Key |->
                        [name |-> st[k].name, type |-> st[k].type, data |-> st[k].data,
                         kids |-> IF d = 0 THEN << >>
                                  ELSE [i \in 1..Len(Kids(st, k)) |-> f[d - 1][Kids(st, k)[i]]]]]]
           at == CHOOSE f : f = E(f)
           T == {n \in Nat : \E f : ByDepth(st, n, f)}
<1>1. \A d, aa, b : d = 0 => Trees(st, d, aa) = Trees(st, d, b)
  BY DEF Trees
<1>2. 0 \in T
  <2>1. PICK f : f = [d \in 0..0 |-> Trees(st, 0, 0)]
    OBVIOUS
  <2>2. \A d \in 0..0 : d = 0
    OBVIOUS
  <2>3. f[0] = Trees(st, 0, 0)
    BY <2>1
  <2>4. f[0] = Trees(st, 0, f[0 - 1])
    BY <1>1, <2>3
  <2>5. f = [d \in 0..0 |-> f[d]]
    BY <2>1
  <2>6. \A d \in 0..0 : f[d] = Trees(st, d, f[d - 1])
    BY <2>2, <2>4
  <2> QED
    BY <2>5, <2>6 DEF ByDepth
<1>3. ASSUME NEW n \in Nat, n \in T PROVE n + 1 \in T
  <2>1. PICK f : ByDepth(st, n, f)
    BY <1>3
  <2>2. PICK v : v = Trees(st, n + 1, f[n])
    OBVIOUS
  <2>3. PICK g : g = [d \in 0..(n + 1) |-> IF d = n + 1 THEN v ELSE f[d]]
    OBVIOUS
  <2>4. g[n + 1] = v /\ \A d \in 0..n : g[d] = f[d]
    BY <2>3
  <2>5. ASSUME NEW d \in 0..(n + 1) PROVE g[d] = Trees(st, d, g[d - 1])
    <3>1. CASE d = n + 1
      <4>1. d - 1 = n /\ n \in 0..n
        BY <3>1
      <4>2. g[d - 1] = f[n]
        BY <2>4, <4>1
      <4> QED
        BY <2>2, <2>4, <3>1, <4>2
    <3>2. CASE d # n + 1 /\ d # 0
      <4>1. d \in 0..n /\ d - 1 \in 0..n
        BY <3>2
      <4>2. f[d] = Trees(st, d, f[d - 1])
        BY <2>1, <4>1 DEF ByDepth
      <4> QED
        BY <2>4, <4>1, <4>2
    <3>3. CASE d = 0
      <4>1. d \in 0..n
        BY <3>3
      <4>2. f[d] = Trees(st, d, f[d - 1]) /\ g[d] = f[d]
        BY <2>1, <2>4, <4>1 DEF ByDepth
      <4> QED
        BY <1>1, <3>3, <4>2
    <3> QED
      BY <3>1, <3>2, <3>3
  <2>6. g = [d \in 0..(n + 1) |-> g[d]]
    BY <2>3
  <2>7. ByDepth(st, n + 1, g)
    BY <2>5, <2>6 DEF ByDepth
  <2> QED
    BY <2>7
<1> HIDE DEF T
<1>4. Keys \in T
  <2>1. Nat \subseteq T
    BY <1>2, <1>3, SetInduction
  <2> QED
    BY <2>1, KeysFinite
<1>5. PICK f : ByDepth(st, Keys, f)
  BY <1>4 DEF T
<1>6. \A g : E(g) = [d \in 0..Keys |-> Trees(st, d, g[d - 1])]
  BY DEF Trees, Keys
<1>7. f = E(f)
  <2> HIDE DEF E
  <2>1. f = [d \in 0..Keys |-> f[d]] /\ \A d \in 0..Keys : f[d] = Trees(st, d, f[d - 1])
    BY <1>5 DEF ByDepth
  <2>2. f = [d \in 0..Keys |-> Trees(st, d, f[d - 1])]
    BY <2>1
  <2> QED
    BY <1>6, <2>2
<1>8. at = E(at)
  <2> HIDE DEF E
  <2> QED
    BY <1>7
<1>9. Tree(st, m) = at[Keys][m]
  BY DEF Tree, Keys
<1> HIDE DEF at, E
<1>10. at = [d \in 0..Keys |-> Trees(st, d, at[d - 1])]
  BY <1>6, <1>8
<1>11. ByDepth(st, Keys, at)
  BY <1>10 DEF ByDepth
<1> QED
  BY <1>9, <1>11

\* The tree of a key, of the trees below it.
Node(st, k, kids) == [name |-> st[k].name, type |-> st[k].type, data |-> st[k].data, kids |-> kids]
SubTrees(s, below) == [i \in 1..Len(s) |-> below[s[i]]]

LEMMA TreesAt ==
  ASSUME NEW st, NEW d, NEW below, NEW T, T = Trees(st, d, below), NEW k \in Key,
         NEW s, s = Kids(st, k)
  PROVE  T[k] = Node(st, k, IF d = 0 THEN << >> ELSE SubTrees(s, below))
<1>1. T[k] =
        [name |-> st[k].name, type |-> st[k].type, data |-> st[k].data,
         kids |-> IF d = 0 THEN << >> ELSE [i \in 1..Len(Kids(st, k)) |-> below[Kids(st, k)[i]]]]
  BY DEF Trees
<1> QED
  BY <1>1 DEF Node, SubTrees

\* The tree below a copy is that below the key it was made of.
LEMMA CopiedTree ==
  ASSUME NEW st, NEW m, NEW rk, NEW h, Shaped(st, m, rk, h),
         NEW z, NEW y, NEW x, NEW g, Shaped(z, y, x, g),
         NEW w, Copies(st, z, w), w[m] = y
  PROVE  Tree(z, y) = Tree(st, m)
<1>1. PICK aa : ByDepth(st, Keys, aa) /\ Tree(st, m) = aa[Keys][m]
  BY TreeGrows
<1>2. PICK b : ByDepth(z, Keys, b) /\ Tree(z, y) = b[Keys][y]
  BY TreeGrows
<1>3. PICK U : U = UsedOf(st)
  OBVIOUS
<1>4. \A k \in U : Copied(st, z, w, k) /\ k \in Key
  BY <1>3 DEF Copies, UsedOf
<1>5. Keys \in Nat /\ m \in U
  BY <1>3, KeysFinite, ShapedIs DEF UsedOf
<1>6. /\ \A d \in 0..Keys : aa[d] = Trees(st, d, aa[d - 1])
      /\ \A d \in 0..Keys : b[d] = Trees(z, d, b[d - 1])
  BY <1>1, <1>2 DEF ByDepth
<1> DEFINE T == {d \in Nat : d <= Keys => \A k \in U : b[d][w[k]] = aa[d][k]}
<1>7. \A k \in U : w[k] \in Key /\ k \in Key
  BY <1>4 DEF Copied
<1>8. \A k \in U : /\ z[w[k]].name = st[k].name /\ z[w[k]].type = st[k].type
                   /\ z[w[k]].data = st[k].data
  BY <1>4 DEF Copied, SameValue
<1>9. 0 \in T
  <2> SUFFICES ASSUME NEW k \in U PROVE b[0][w[k]] = aa[0][k]
    OBVIOUS
  <2>1. PICK d : d = 0
    OBVIOUS
  <2>2. d \in 0..Keys
    BY <1>5, <2>1
  <2>3. aa[d] = Trees(st, d, aa[d - 1]) /\ b[d] = Trees(z, d, b[d - 1])
    BY <1>6, <2>2
  <2>4. aa[d][k] = Node(st, k, IF d = 0 THEN << >> ELSE SubTrees(Kids(st, k), aa[d - 1]))
    BY <1>7, <2>3, TreesAt
  <2>5. b[d][w[k]] = Node(z, w[k], IF d = 0 THEN << >> ELSE SubTrees(Kids(z, w[k]), b[d - 1]))
    BY <1>7, <2>3, TreesAt
  <2> QED
    BY <1>8, <2>1, <2>4, <2>5 DEF Node
<1>10. ASSUME NEW n \in Nat, n \in T PROVE n + 1 \in T
  <2> SUFFICES ASSUME n + 1 <= Keys, NEW k \in U PROVE b[n + 1][w[k]] = aa[n + 1][k]
    OBVIOUS
  <2>1. n + 1 \in 0..Keys /\ (n + 1) - 1 = n /\ n + 1 # 0
    BY <1>5
  <2>2. \A j \in U : b[n][w[j]] = aa[n][j]
    BY <1>5, <1>10
  <2>3. PICK s : s = Kids(st, k)
    OBVIOUS
  <2>4. PICK t : t = Kids(z, w[k])
    OBVIOUS
  <2>5. Len(t) = Len(s) /\ \A i \in 1..Len(s) : s[i] \in U /\ t[i] = w[s[i]]
    BY <1>3, <2>3, <2>4, CopiedKids
  <2>6. \A i \in 1..Len(s) : b[n][t[i]] = aa[n][s[i]]
    BY <2>2, <2>5
  <2>7. SubTrees(t, b[n]) = SubTrees(s, aa[n])
    BY <2>5, <2>6 DEF SubTrees
  <2>8. PICK d \in 0..Keys : d = n + 1 /\ d - 1 = n /\ d # 0
    BY <2>1
  <2>9. aa[d] = Trees(st, d, aa[d - 1]) /\ b[d] = Trees(z, d, b[d - 1])
    BY <1>6
  <2>10. aa[d][k] = Node(st, k, IF d = 0 THEN << >> ELSE SubTrees(s, aa[d - 1]))
    BY <1>7, <2>3, <2>9, TreesAt
  <2>11. b[d][w[k]] = Node(z, w[k], IF d = 0 THEN << >> ELSE SubTrees(t, b[d - 1]))
    BY <1>7, <2>4, <2>9, TreesAt
  <2> QED
    BY <1>8, <2>7, <2>8, <2>10, <2>11 DEF Node
<1> HIDE DEF T
<1>11. Keys \in T
  <2>1. Nat \subseteq T
    BY <1>9, <1>10, SetInduction
  <2> QED
    BY <1>5, <2>1
<1>12. b[Keys][w[m]] = aa[Keys][m]
  BY <1>5, <1>11 DEF T
<1> QED
  BY <1>1, <1>2, <1>12

\* What WriteKey has written LoadRegistry reads.
LEMMA WrittenIsLoaded ==
  ASSUME RegInv, Running, NEW f, f = Written(reg, MainKey)
  PROVE  Tree(Loaded(f, Array), Array[1]) = Tree(reg, MainKey)
<1>1. PICK rk, h : Shaped(reg, MainKey, rk, h)
  BY DEF RegInv, RegistryOf, Running, TreeAt
<1>2. PICK x, y : FileShaped(f, x, y)
  BY <1>1, WrittenShaped
<1>3. PICK z : z = Loaded(f, Array)
  OBVIOUS
<1>4. PICK s, g : Shaped(z, Array[1], s, g)
  BY <1>2, <1>3, LoadedShaped
<1>5. PICK w : Copies(reg, z, w) /\ w[MainKey] = Array[1]
  BY <1>1, <1>3, SavedCopied
<1>6. Tree(z, Array[1]) = Tree(reg, MainKey)
  BY <1>1, <1>4, <1>5, CopiedTree
<1> QED
  BY <1>3, <1>6

(***************************************************************************)
(* Whatever registry is saved, by RegistrySave or by NRegistryUnInit, what *)
(* is read back from the file is that tree: its names, types and data, and *)
(* the order of the children of every key.                                 *)
(***************************************************************************)
THEOREM SavingKeepsTheTree == Spec => SavedIsLoaded
<1>1. ASSUME RegInv, [Next]_vars, Running, file' # file
      PROVE  Tree(Loaded(file', Array), Array[1]) = Tree(reg, MainKey)
  <2>1. CASE RegistrySave
    <3>1. file' = Written(reg, MainKey)
      BY <2>1 DEF RegistrySave
    <3> QED
      BY <1>1, <3>1, WrittenIsLoaded
  <2>2. CASE NRegistryUnInit
    <3>1. file' = Written(reg, MainKey)
      BY <2>2 DEF NRegistryUnInit
    <3> QED
      BY <1>1, <3>1, WrittenIsLoaded
  <2>3. CASE \E path \in Path, t \in Type : \E v \in Value(t) : KeySetData(path, t, v)
    BY <1>1, <2>3 DEF KeySetData
  <2>4. CASE \E path \in Path : CreateKey(path) \/ DeleteKey(path)
    BY <1>1, <2>4 DEF CreateKey, DeleteKey
  <2>5. CASE \E path \in Path, n \in Name : (Len(path) < MaxPath /\ NewKey(path, n)) \/ RenameKey(path, n)
    BY <1>1, <2>5 DEF NewKey, RenameKey
  <2>6. CASE RegistryReLoad \/ NRegistryInit \/ PowerOff \/ UNCHANGED vars
    BY <1>1, <2>6 DEF RegistryReLoad, NRegistryInit, PowerOff, vars
  <2> QED
    BY <1>1, <2>1, <2>2, <2>3, <2>4, <2>5, <2>6 DEF Next
<1>2. RegInv /\ [Next]_vars =>
        [Running /\ file' # file => Tree(Loaded(file', Array), Array[1]) = Tree(reg, MainKey)]_vars
  BY <1>1
<1>3. Init => RegInv
  BY RegInitInv
<1>4. RegInv /\ [Next]_vars => RegInv'
  BY RegNextInv
<1> QED
  BY <1>2, <1>3, <1>4, PTL DEF Spec, SavedIsLoaded
=============================================================================
