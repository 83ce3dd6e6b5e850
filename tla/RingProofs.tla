----------------------------- MODULE RingProofs -----------------------------
(***************************************************************************)
(* Proofs about the list of list.h and list.c, for every finite set of     *)
(* items.  First the list alone: the links represent the sequence the      *)
(* callers believe in, a walk over them sees it, and so the list is one of *)
(* ItemList.  Then the exchange sort alone, on places: it is right for     *)
(* lists of every length, every comparator that ranks what it compares,    *)
(* and both answers to equals.  Then the two together: the sort's pointers *)
(* go along the links and are where it counts, and as it changes no link,  *)
(* the list with its sort behaves as the list alone.                       *)
(***************************************************************************)
EXTENDS RingOrder, Links, FiniteSetTheorems, TLAPS

\* What the inductive proof carries from step to step.
IInv == TypeOK /\ RingInv

(***************************************************************************)
(* Sequences: what appending, inserting and removing an item does.         *)
(***************************************************************************)
\* The sequence ListAddItemBefore and a drop make: one longer, i at place k.
LEMMA InsertedSeq ==
  ASSUME NEW S, NEW s \in Seq(S), NEW i \in S, NEW k \in 1..(Len(s) + 1)
  PROVE  /\ Abs!InsertedAt(s, k, i) \in Seq(S)
         /\ Len(Abs!InsertedAt(s, k, i)) = Len(s) + 1
         /\ \A m \in 1..(Len(s) + 1) :
              Abs!InsertedAt(s, k, i)[m] = IF m < k THEN s[m] ELSE IF m = k THEN i ELSE s[m - 1]
<1> DEFINE t == [m \in 1..(Len(s) + 1) |-> IF m < k THEN s[m] ELSE IF m = k THEN i ELSE s[m - 1]]
<1>1. Len(s) \in Nat
  OBVIOUS
<1>2. \A m \in 1..(Len(s) + 1) : t[m] \in S
  BY <1>1
<1>3. t \in [1..(Len(s) + 1) -> S]
  BY <1>2
<1>4. t \in Seq(S) /\ Len(t) = Len(s) + 1
  BY <1>1, <1>3
<1>5. Abs!InsertedAt(s, k, i) = t
  BY DEF Abs!InsertedAt
<1> QED
  BY <1>4, <1>5

\* The sequence BListRemoveItemEx makes: one shorter, without the k-th item.
LEMMA RemovedSeq ==
  ASSUME NEW S, NEW s \in Seq(S), NEW k \in 1..Len(s)
  PROVE  /\ Abs!RemovedAt(s, k) \in Seq(S)
         /\ Len(Abs!RemovedAt(s, k)) = Len(s) - 1
         /\ \A m \in 1..(Len(s) - 1) :
              Abs!RemovedAt(s, k)[m] = IF m < k THEN s[m] ELSE s[m + 1]
<1> DEFINE t == [m \in 1..(Len(s) - 1) |-> IF m < k THEN s[m] ELSE s[m + 1]]
<1>1. Len(s) \in Nat /\ Len(s) - 1 \in Nat
  OBVIOUS
<1>2. \A m \in 1..(Len(s) - 1) : t[m] \in S
  BY <1>1
<1>3. t \in [1..(Len(s) - 1) -> S]
  BY <1>2
<1>4. t \in Seq(S) /\ Len(t) = Len(s) - 1
  BY <1>1, <1>3
<1>5. Abs!RemovedAt(s, k) = t
  BY DEF Abs!RemovedAt
<1> QED
  BY <1>4, <1>5

\* An item of a sequence is at the place IndexOf finds.
LEMMA IndexOfItem ==
  ASSUME NEW S, NEW s \in Seq(S), NEW i \in Abs!Holds(s)
  PROVE  Abs!IndexOf(s, i) \in 1..Len(s) /\ s[Abs!IndexOf(s, i)] = i
BY DEF Abs!IndexOf, Abs!Holds

(***************************************************************************)
(* A sequence and a ring: Represents and Distinct of any ring, so that the *)
(* lemmas on the link operators can speak of the ring between two of them. *)
(***************************************************************************)
Rep(s, r) ==
  /\ IF s = << >> THEN r.last = NULL ELSE r.last = s[Len(s)]
  /\ \A k \in 1..Len(s) :
       /\ r.next[s[k]] = s[IF k = Len(s) THEN 1 ELSE k + 1]
       /\ r.prev[s[k]] = s[IF k = 1 THEN Len(s) ELSE k - 1]

OneToOne(s) == \A j, k \in 1..Len(s) : s[j] = s[k] => j = k

Rings == [last : Items \cup {NULL}, next : [Items -> Items \cup {NULL}],
          prev : [Items -> Items \cup {NULL}]]

\* BListAddItem: the ring that LinkLast makes represents the longer sequence.
LEMMA LinkLastRep ==
  ASSUME NEW r \in Rings, NEW s \in Seq(Items), NEW i \in Items,
         Rep(s, r), OneToOne(s), i \notin Abs!Holds(s)
  PROVE  LET q == LinkLast(i, r.last, r.next, r.prev)
         IN q \in Rings /\ Rep(Append(s, i), q) /\ OneToOne(Append(s, i))
<1> DEFINE q == LinkLast(i, r.last, r.next, r.prev)
           t == Append(s, i)
           N == Len(s)
<1>1. N \in Nat /\ t \in Seq(Items) /\ Len(t) = N + 1 /\ t[N + 1] = i
      /\ \A k \in 1..N : t[k] = s[k] /\ s[k] \in Items
  OBVIOUS
<1>2. \A k \in 1..N : s[k] # i
  BY DEF Abs!Holds
<1>3. OneToOne(t)
  BY <1>1, <1>2 DEF OneToOne
<1>6. t # << >>
  BY <1>1
<1>4. CASE s = << >>
  <2>1. N = 0 /\ r.last = NULL
    BY <1>4 DEF Rep
  <2>2. q = [last |-> i, next |-> [r.next EXCEPT ![i] = i], prev |-> [r.prev EXCEPT ![i] = i]]
    BY <2>1 DEF LinkLast, Alone
  <2>3. q \in Rings /\ q.last = i /\ q.next[i] = i /\ q.prev[i] = i
    BY <2>2 DEF Rings
  <2>4. Rep(t, q)
    <3> HIDE DEF q, t
    <3> QED
      BY <1>1, <1>6, <2>1, <2>3 DEF Rep
  <2> QED
    BY <1>3, <2>3, <2>4
<1>5. CASE s # << >>
  <2>1. N \in Nat \ {0} /\ r.last = s[N] /\ s[N] \in Items /\ s[1] \in Items
    BY <1>1, <1>5 DEF Rep
  <2>2. r.next[s[N]] = s[1]
    BY <2>1 DEF Rep
  <2>3. r.last # NULL
    BY <2>1, NullAssumption
  <2>4. q = [last |-> i,
             next |-> [[r.next EXCEPT ![i] = s[1]] EXCEPT ![s[N]] = i],
             prev |-> [[r.prev EXCEPT ![i] = s[N]] EXCEPT ![s[1]] = i]]
    BY <2>1, <2>2, <2>3 DEF LinkLast
  <2>5. q \in Rings
    BY <2>1, <2>4 DEF Rings
  <2>6. s[N] # i /\ s[1] # i
    BY <1>2, <2>1
  <2>7. q.last = i /\ q.next[i] = s[1] /\ q.next[s[N]] = i /\ q.prev[i] = s[N] /\ q.prev[s[1]] = i
    BY <2>1, <2>4, <2>6 DEF Rings
  <2>8. \A k \in 1..N : /\ k # N => q.next[s[k]] = r.next[s[k]]
                        /\ k # 1 => q.prev[s[k]] = r.prev[s[k]]
    BY <1>1, <1>2, <2>1, <2>4 DEF Rings, OneToOne
  <2>9. \A k \in 1..(N + 1) : q.next[t[k]] = t[IF k = N + 1 THEN 1 ELSE k + 1]
    BY <1>1, <2>1, <2>7, <2>8 DEF Rep
  <2>10. \A k \in 1..(N + 1) : q.prev[t[k]] = t[IF k = 1 THEN N + 1 ELSE k - 1]
    BY <1>1, <2>1, <2>7, <2>8 DEF Rep
  <2>11. Rep(t, q)
    <3> HIDE DEF q, t
    <3> QED
      BY <1>1, <1>6, <2>7, <2>9, <2>10 DEF Rep
  <2> QED
    BY <1>3, <2>5, <2>11
<1> QED
  BY <1>4, <1>5

\* ListAddItemBefore: the ring LinkBefore makes represents s with i in front of its k-th item.
LEMMA LinkBeforeRep ==
  ASSUME NEW r \in Rings, NEW s \in Seq(Items), NEW i \in Items, NEW k \in 1..Len(s),
         Rep(s, r), OneToOne(s), i \notin Abs!Holds(s)
  PROVE  LET q == LinkBefore(i, s[k], r.last, r.next, r.prev)
             t == Abs!InsertedAt(s, k, i)
         IN q \in Rings /\ t \in Seq(Items) /\ Rep(t, q) /\ OneToOne(t)
<1> DEFINE q == LinkBefore(i, s[k], r.last, r.next, r.prev)
           t == Abs!InsertedAt(s, k, i)
           N == Len(s)
           p == s[IF k = 1 THEN N ELSE k - 1]
<1>1. N \in Nat \ {0} /\ k \in 1..N /\ \A m \in 1..N : s[m] \in Items
  OBVIOUS
<1>2. /\ t \in Seq(Items) /\ Len(t) = N + 1 /\ t # << >>
      /\ \A m \in 1..(N + 1) : t[m] = IF m < k THEN s[m] ELSE IF m = k THEN i ELSE s[m - 1]
  BY <1>1, InsertedSeq
<1>3. \A m \in 1..N : s[m] # i
  BY DEF Abs!Holds
<1>4. OneToOne(t)
  <2> HIDE DEF t
  <2> SUFFICES ASSUME NEW j \in 1..(N + 1), NEW m \in 1..(N + 1), t[j] = t[m], j < m
               PROVE  FALSE
    BY <1>1, <1>2 DEF OneToOne
  <2>1. \A x, y \in 1..N : s[x] = s[y] => x = y
    BY DEF OneToOne
  <2>2. CASE m < k
    BY <1>1, <1>2, <2>1, <2>2
  <2>3. CASE m = k
    BY <1>1, <1>2, <1>3, <2>3
  <2>4. CASE m > k
    <3>1. t[m] = s[m - 1] /\ m - 1 \in 1..N
      BY <1>1, <1>2, <2>4
    <3>2. CASE j < k
      <4>1. t[j] = s[j] /\ j \in 1..N
        BY <1>1, <1>2, <3>2
      <4> QED
        BY <1>1, <2>1, <2>4, <3>1, <3>2, <4>1
    <3>3. CASE j = k
      BY <1>1, <1>2, <1>3, <3>1, <3>3
    <3>4. CASE j > k
      <4>1. t[j] = s[j - 1] /\ j - 1 \in 1..N
        BY <1>1, <1>2, <3>4
      <4> QED
        BY <1>1, <2>1, <3>1, <4>1
    <3> QED
      BY <1>1, <3>2, <3>3, <3>4
  <2> QED
    BY <1>1, <2>2, <2>3, <2>4
<1>5. r.prev[s[k]] = p /\ p \in Items /\ r.last = s[N]
  BY <1>1 DEF Rep
<1>6. q = [last |-> s[N], next |-> [[r.next EXCEPT ![i] = s[k]] EXCEPT ![p] = i],
           prev |-> [[r.prev EXCEPT ![i] = p] EXCEPT ![s[k]] = i]]
  BY <1>5 DEF LinkBefore
<1>7. q \in Rings
  BY <1>1, <1>5, <1>6 DEF Rings
<1>8. p # i /\ s[k] # i
  BY <1>1, <1>3
<1>9. q.next[i] = s[k] /\ q.next[p] = i /\ q.prev[i] = p /\ q.prev[s[k]] = i /\ q.last = s[N]
  BY <1>1, <1>5, <1>6, <1>8 DEF Rings
<1>10. \A m \in 1..N : q.next[s[m]] = IF m = (IF k = 1 THEN N ELSE k - 1) THEN i
                                      ELSE s[IF m = N THEN 1 ELSE m + 1]
  BY <1>1, <1>3, <1>5, <1>6 DEF Rings, OneToOne, Rep
<1>11. \A m \in 1..N : q.prev[s[m]] = IF m = k THEN i ELSE s[IF m = 1 THEN N ELSE m - 1]
  BY <1>1, <1>3, <1>5, <1>6 DEF Rings, OneToOne, Rep
<1> HIDE DEF q, t
<1>12. \A m \in 1..(N + 1) : q.next[t[m]] = t[IF m = N + 1 THEN 1 ELSE m + 1]
  <2> SUFFICES ASSUME NEW m \in 1..(N + 1)
               PROVE  q.next[t[m]] = t[IF m = N + 1 THEN 1 ELSE m + 1]
    OBVIOUS
  <2>1. CASE m = k
    BY <1>1, <1>2, <1>9, <2>1
  <2>2. CASE m < k
    <3>1. t[m] = s[m] /\ m \in 1..N /\ m # N /\ m # N + 1
      BY <1>1, <1>2, <2>2
    <3>2. CASE m + 1 = k
      BY <1>1, <1>2, <1>10, <3>1, <3>2
    <3>3. CASE m + 1 # k
      <4>1. q.next[s[m]] = s[m + 1]
        BY <1>1, <1>10, <2>2, <3>1, <3>3
      <4>2. t[m + 1] = s[m + 1]
        BY <1>1, <1>2, <2>2, <3>3
      <4> QED
        BY <3>1, <4>1, <4>2
    <3> QED
      BY <3>2, <3>3
  <2>3. CASE m > k
    <3>1. t[m] = s[m - 1] /\ m - 1 \in 1..N
      BY <1>1, <1>2, <2>3
    <3>2. CASE m = N + 1
      <4>1. CASE k = 1
        BY <1>1, <1>2, <1>10, <3>1, <3>2, <4>1
      <4>2. CASE k # 1
        <5>1. q.next[s[N]] = s[1]
          BY <1>1, <1>10, <4>2
        <5>2. t[1] = s[1]
          BY <1>1, <1>2, <4>2
        <5> QED
          BY <1>1, <3>1, <3>2, <5>1, <5>2
      <4> QED
        BY <4>1, <4>2
    <3>3. CASE m # N + 1
      <4>1. q.next[s[m - 1]] = s[m]
        <5>1. m - 1 # (IF k = 1 THEN N ELSE k - 1) /\ m - 1 # N /\ (m - 1) + 1 = m
          BY <1>1, <2>3, <3>3
        <5>2. PICK x \in 1..N : x = m - 1
          BY <3>1
        <5>3. x # (IF k = 1 THEN N ELSE k - 1) /\ x # N /\ x + 1 = m
          BY <5>1, <5>2
        <5>4. q.next[s[x]] = s[x + 1]
          BY <1>1, <1>10, <5>1, <5>2, <5>3
        <5> QED
          BY <5>2, <5>3, <5>4
      <4>2. t[m + 1] = s[m]
        <5>1. PICK y \in 1..(N + 1) : y = m + 1
          BY <1>1, <3>3
        <5>2. y > k /\ y - 1 = m
          BY <1>1, <2>3, <5>1
        <5>3. t[y] = s[y - 1]
          BY <1>1, <1>2, <5>2
        <5> QED
          BY <5>1, <5>2, <5>3
      <4> QED
        BY <3>1, <3>3, <4>1, <4>2
    <3> QED
      BY <3>2, <3>3
  <2> QED
    BY <1>1, <2>1, <2>2, <2>3
<1>13. \A m \in 1..(N + 1) : q.prev[t[m]] = t[IF m = 1 THEN N + 1 ELSE m - 1]
  <2> SUFFICES ASSUME NEW m \in 1..(N + 1)
               PROVE  q.prev[t[m]] = t[IF m = 1 THEN N + 1 ELSE m - 1]
    OBVIOUS
  <2>1. CASE m = k
    BY <1>1, <1>2, <1>9, <2>1
  <2>2. CASE m < k
    <3>1. t[m] = s[m] /\ m \in 1..N /\ q.prev[s[m]] = s[IF m = 1 THEN N ELSE m - 1]
      BY <1>1, <1>2, <1>11, <2>2
    <3>2. CASE m = 1
      <4>1. t[N + 1] = s[N]
        BY <1>1, <1>2
      <4> QED
        BY <3>1, <3>2, <4>1
    <3>3. CASE m # 1
      <4>1. t[m - 1] = s[m - 1]
        BY <1>1, <1>2, <2>2, <3>3
      <4> QED
        BY <3>1, <3>3, <4>1
    <3> QED
      BY <3>2, <3>3
  <2>3. CASE m > k
    <3>1. t[m] = s[m - 1] /\ m - 1 \in 1..N /\ m # 1
      BY <1>1, <1>2, <2>3
    <3>2. CASE m - 1 = k
      BY <1>1, <1>2, <1>11, <3>1, <3>2
    <3>3. CASE m - 1 # k
      <4>1. q.prev[s[m - 1]] = s[m - 2]
        BY <1>1, <1>11, <2>3, <3>1, <3>3
      <4>2. t[m - 1] = s[m - 2]
        BY <1>1, <1>2, <2>3, <3>3
      <4> QED
        BY <3>1, <4>1, <4>2
    <3> QED
      BY <3>2, <3>3
  <2> QED
    BY <1>1, <2>1, <2>2, <2>3
<1>14. q.last = t[N + 1]
  BY <1>1, <1>2, <1>9
<1>15. Rep(t, q)
  BY <1>2, <1>12, <1>13, <1>14 DEF Rep
<1> QED
  BY <1>2, <1>4, <1>7, <1>15 DEF q, t

\* BListRemoveItemEx: the ring Unlink makes represents s without its k-th item.
LEMMA UnlinkRep ==
  ASSUME NEW r \in Rings, NEW s \in Seq(Items), NEW k \in 1..Len(s),
         Rep(s, r), OneToOne(s)
  PROVE  LET q == Unlink(s[k], r.last, r.next, r.prev)
             t == Abs!RemovedAt(s, k)
         IN q \in Rings /\ t \in Seq(Items) /\ Rep(t, q) /\ OneToOne(t) /\ s[k] \notin Abs!Holds(t)
<1> DEFINE i == s[k]
           q == Unlink(i, r.last, r.next, r.prev)
           t == Abs!RemovedAt(s, k)
           N == Len(s)
           After_k  == IF k = N THEN 1 ELSE k + 1
           Before_k == IF k = 1 THEN N ELSE k - 1
<1>1. N \in Nat \ {0} /\ k \in 1..N /\ \A m \in 1..N : s[m] \in Items
  OBVIOUS
<1>2. /\ t \in Seq(Items) /\ Len(t) = N - 1
      /\ \A m \in 1..(N - 1) : t[m] = IF m < k THEN s[m] ELSE s[m + 1]
  BY <1>1, RemovedSeq
<1>3. \A m, j \in 1..N : s[m] = s[j] => m = j
  BY DEF OneToOne
<1>4. OneToOne(t) /\ i \notin Abs!Holds(t)
  <2> HIDE DEF t
  <2>1. \A m, j \in 1..(N - 1) : t[m] = t[j] => m = j
    BY <1>1, <1>2, <1>3
  <2>2. \A m \in 1..(N - 1) : t[m] # i
    BY <1>1, <1>2, <1>3
  <2> QED
    BY <1>2, <2>1, <2>2 DEF OneToOne, Abs!Holds
<1>5. r.next[i] = s[After_k] /\ r.prev[i] = s[Before_k] /\ r.last = s[N]
  BY <1>1 DEF Rep
<1>6. After_k \in 1..N /\ Before_k \in 1..N
  BY <1>1
<1>7. CASE N = 1
  <2>1. q = [last |-> NULL, next |-> r.next, prev |-> r.prev]
    BY <1>1, <1>5, <1>7 DEF Unlink
  <2>2. t = << >>
    BY <1>2, <1>7
  <2>3. Rep(t, q) /\ q \in Rings
    BY <2>1, <2>2 DEF Rep, Rings
  <2> QED
    BY <1>2, <1>4, <2>3
<1>8. CASE N # 1
  <2>1. r.next[i] # i /\ t # << >>
    BY <1>1, <1>2, <1>3, <1>5, <1>6, <1>8
  <2>2. q = [last |-> IF r.last = i THEN s[Before_k] ELSE r.last,
             next |-> [r.next EXCEPT ![s[Before_k]] = s[After_k]],
             prev |-> [r.prev EXCEPT ![s[After_k]] = s[Before_k]]]
    BY <1>5, <2>1 DEF Unlink
  <2>3. q \in Rings
    BY <1>1, <1>6, <2>2 DEF Rings
  <2>4. \A m \in 1..N : q.next[s[m]] = IF m = Before_k THEN s[After_k] ELSE s[IF m = N THEN 1 ELSE m + 1]
    BY <1>1, <1>3, <1>6, <2>2 DEF Rep, Rings
  <2>5. \A m \in 1..N : q.prev[s[m]] = IF m = After_k THEN s[Before_k] ELSE s[IF m = 1 THEN N ELSE m - 1]
    BY <1>1, <1>3, <1>6, <2>2 DEF Rep, Rings
  <2>6. q.last = IF k = N THEN s[N - 1] ELSE s[N]
    <3>1. CASE k = N
      BY <1>1, <1>5, <1>8, <2>2, <3>1
    <3>2. CASE k # N
      <4>1. s[N] # s[k]
        BY <1>1, <1>3, <3>2
      <4> QED
        BY <1>5, <2>2, <3>2, <4>1
    <3> QED
      BY <3>1, <3>2
  <2> HIDE DEF q, t
  <2>7. \A m \in 1..(N - 1) : q.next[t[m]] = t[IF m = N - 1 THEN 1 ELSE m + 1]
    <3> SUFFICES ASSUME NEW m \in 1..(N - 1)
                 PROVE  q.next[t[m]] = t[IF m = N - 1 THEN 1 ELSE m + 1]
      OBVIOUS
    <3>1. CASE m < k
      BY <1>1, <1>2, <1>8, <2>4, <3>1
    <3>2. CASE m >= k
      <4>1. t[m] = s[m + 1] /\ m + 1 \in 1..N
        BY <1>1, <1>2, <3>2
      <4>2. CASE m = N - 1
        <5>1. CASE k = 1
          BY <1>1, <1>2, <1>8, <2>4, <4>1, <4>2, <5>1
        <5>2. CASE k # 1
          <6>1. q.next[s[N]] = s[1]
            BY <1>1, <2>4, <5>2
          <6>2. t[1] = s[1]
            BY <1>1, <1>2, <1>8, <5>2
          <6> QED
            BY <1>1, <4>1, <4>2, <6>1, <6>2
        <5> QED
          BY <5>1, <5>2
      <4>3. CASE m # N - 1
        <5>1. q.next[s[m + 1]] = s[m + 2]
          BY <1>1, <2>4, <3>2, <4>1, <4>3
        <5>2. t[m + 1] = s[m + 2]
          BY <1>1, <1>2, <3>2, <4>3
        <5> QED
          BY <4>1, <4>3, <5>1, <5>2
      <4> QED
        BY <4>2, <4>3
    <3> QED
      BY <1>1, <3>1, <3>2
  <2>8. \A m \in 1..(N - 1) : q.prev[t[m]] = t[IF m = 1 THEN N - 1 ELSE m - 1]
    <3> SUFFICES ASSUME NEW m \in 1..(N - 1)
                 PROVE  q.prev[t[m]] = t[IF m = 1 THEN N - 1 ELSE m - 1]
      OBVIOUS
    <3>1. CASE m < k
      <4>1. t[m] = s[m] /\ m \in 1..N
        BY <1>1, <1>2, <3>1
      <4>2. CASE m = 1
        <5>1. t[N - 1] = IF k = N THEN s[N - 1] ELSE s[N]
          BY <1>1, <1>2, <1>8
        <5>2. q.prev[s[1]] = IF k = N THEN s[N - 1] ELSE s[N]
          BY <1>1, <1>8, <2>5, <3>1, <4>2
        <5> QED
          BY <4>1, <4>2, <5>1, <5>2
      <4>3. CASE m # 1
        <5>1. q.prev[s[m]] = s[m - 1]
          BY <1>1, <2>5, <3>1, <4>1, <4>3
        <5>2. t[m - 1] = s[m - 1]
          BY <1>1, <1>2, <3>1, <4>3
        <5> QED
          BY <4>1, <4>3, <5>1, <5>2
      <4> QED
        BY <4>2, <4>3
    <3>2. CASE m >= k
      BY <1>1, <1>2, <1>8, <2>5, <3>2
    <3> QED
      BY <1>1, <3>1, <3>2
  <2>9. q.last = t[N - 1]
    BY <1>1, <1>2, <1>8, <2>6
  <2>10. Rep(t, q)
    BY <1>2, <2>1, <2>7, <2>8, <2>9 DEF Rep
  <2> QED
    BY <1>2, <1>4, <2>3, <2>10 DEF q, t
<1> QED
  BY <1>1, <1>7, <1>8

(***************************************************************************)
(* The ring of the variables.                                              *)
(***************************************************************************)
TheRing == [last |-> Last, next |-> Next, prev |-> Prev]

LEMMA IInvRing == IInv <=> TypeOK /\ TheRing \in Rings /\ Rep(order, TheRing) /\ OneToOne(order)
BY DEF IInv, TypeOK, RingInv, Represents, Distinct, After, Before, TheRing, Rings, Rep, OneToOne

\* Init => IInv: a list starts empty.
LEMMA RingInit == Init => IInv
BY DEF Init, IInv, TypeOK, RingInv, Represents, Distinct

\* What Becomes says of the ring of the next state.
LEMMA BecomesRing ==
  ASSUME NEW q \in Rings, Becomes(q), Idle, TypeOK, order' \in Seq(Items),
         Rep(order', q), OneToOne(order')
  PROVE  IInv'
<1>1. TheRing' = q
  BY DEF Becomes, TheRing, Rings
<1>2. TypeOK'
  BY DEF TypeOK, Idle, Becomes, Rings
<1> QED
  BY <1>1, <1>2 DEF IInv, RingInv, Represents, Distinct, After, Before, TheRing, Rep, OneToOne

\* Every step of the list keeps the links in agreement with the sequence.
LEMMA RingStep == IInv /\ [Step]_vars => IInv'
<1> SUFFICES ASSUME IInv, [Step]_vars PROVE IInv'
  OBVIOUS
<1>1. /\ TypeOK /\ order \in Seq(Items) /\ TheRing \in Rings
      /\ Rep(order, TheRing) /\ OneToOne(order)
      /\ TheRing.last = Last /\ TheRing.next = Next /\ TheRing.prev = Prev
  BY IInvRing DEF TypeOK, TheRing
<1>2. ASSUME NEW i \in Items, AddItem(i) PROVE IInv'
  BY <1>1, <1>2, LinkLastRep, BecomesRing DEF AddItem, Members
<1>3. ASSUME NEW i \in Items, NEW y \in Items, AddItemBefore(i, y) PROVE IInv'
  <2> DEFINE k == Abs!IndexOf(order, y)
  <2>1. k \in 1..Len(order) /\ order[k] = y
    BY <1>1, <1>3, IndexOfItem DEF AddItemBefore, Members
  <2> HIDE DEF k
  <2>2. order' = Abs!InsertedAt(order, k, i)
    BY <1>3 DEF AddItemBefore, k
  <2> QED
    BY <1>1, <1>3, <2>1, <2>2, LinkBeforeRep, BecomesRing DEF AddItemBefore, Members
<1>4. ASSUME NEW i \in Items, RemoveItem(i) PROVE IInv'
  <2> DEFINE k == Abs!IndexOf(order, i)
  <2>1. k \in 1..Len(order) /\ order[k] = i
    BY <1>1, <1>4, IndexOfItem DEF RemoveItem, Members
  <2> HIDE DEF k
  <2>2. order' = Abs!RemovedAt(order, k)
    BY <1>4 DEF RemoveItem, k
  <2> QED
    BY <1>1, <1>4, <2>1, <2>2, UnlinkRep, BecomesRing DEF RemoveItem
<1>5. ASSUME NEW w \in Items, NEW y \in Items, DropBehind(y, w) PROVE IInv'
  <2> DEFINE j == Abs!IndexOf(order, y)
             r == Unlink(y, Last, Next, Prev)
             s == Abs!RemovedAt(order, j)
             k == Abs!IndexOf(s, w)
             l == IF w = r.last THEN y ELSE r.last
             q == LinkBefore(y, r.next[w], l, r.next, r.prev)
  <2>1. j \in 1..Len(order) /\ order[j] = y
    BY <1>1, <1>5, IndexOfItem DEF DropBehind, Members
  <2> HIDE DEF j
  <2>2. /\ r \in Rings /\ s \in Seq(Items) /\ Rep(s, r) /\ OneToOne(s)
        /\ y \notin Abs!Holds(s)
    BY <1>1, <2>1, UnlinkRep
  <2>3. w \in Abs!Holds(s)
    <3>1. PICK m \in 1..Len(order) : order[m] = w
      BY <1>5 DEF DropBehind, Members, Abs!Holds
    <3>2. m # j /\ Len(order) \in Nat
      BY <1>1, <1>5, <2>1, <3>1 DEF DropBehind
    <3>3. /\ Len(s) = Len(order) - 1
          /\ \A x \in 1..(Len(order) - 1) : s[x] = IF x < j THEN order[x] ELSE order[x + 1]
      BY <1>1, <2>1, RemovedSeq
    <3> HIDE DEF s
    <3>4. CASE m < j
      BY <2>1, <3>1, <3>2, <3>3, <3>4 DEF Abs!Holds
    <3>5. CASE m > j
      <4>1. m - 1 \in 1..(Len(order) - 1) /\ s[m - 1] = order[m]
        BY <2>1, <3>1, <3>2, <3>3, <3>5
      <4> QED
        BY <3>1, <3>3, <4>1 DEF Abs!Holds
    <3> QED
      BY <2>1, <3>2, <3>4, <3>5
  <2> HIDE DEF r, s
  <2>4. k \in 1..Len(s) /\ s[k] = w /\ Len(s) \in Nat /\ s # << >>
    BY <2>2, <2>3, IndexOfItem
  <2> HIDE DEF k
  <2>5. Becomes(q) /\ Idle /\ order' = Abs!InsertedAt(s, k + 1, y)
    BY <1>5 DEF DropBehind, r, s, k, j
  <2>6. r.last = s[Len(s)]
    BY <2>2, <2>4 DEF Rep
  <2>7. CASE k = Len(s)
    <3> DEFINE p == LinkLast(y, r.last, r.next, r.prev)
               t == Append(s, y)
    <3>1. p \in Rings /\ Rep(t, p) /\ OneToOne(t) /\ t \in Seq(Items)
      BY <2>2, LinkLastRep
    <3>2. w = r.last /\ r.last # NULL
      BY <2>4, <2>6, <2>7, NullAssumption
    <3>3. r.next[w] = s[1] /\ r.prev[s[1]] = w /\ s[1] \in Items
      BY <2>2, <2>4, <2>7 DEF Rep
    <3>4. q = p
      BY <3>2, <3>3 DEF LinkBefore, LinkLast
    <3>5. order' = t
      <4>1. /\ order' \in Seq(Items) /\ Len(order') = Len(s) + 1
            /\ \A m \in 1..(Len(s) + 1) : order'[m] = IF m < k + 1 THEN s[m] ELSE IF m = k + 1 THEN y ELSE s[m - 1]
        <5>1. PICK j1 \in 1..(Len(s) + 1) : j1 = k + 1
          BY <2>4
        <5>2. order' = Abs!InsertedAt(s, j1, y)
          BY <2>5, <5>1
        <5>3. /\ Abs!InsertedAt(s, j1, y) \in Seq(Items)
              /\ Len(Abs!InsertedAt(s, j1, y)) = Len(s) + 1
              /\ \A m \in 1..(Len(s) + 1) :
                   Abs!InsertedAt(s, j1, y)[m] = IF m < j1 THEN s[m] ELSE IF m = j1 THEN y ELSE s[m - 1]
          BY <2>2, InsertedSeq
        <5> QED
          BY <5>1, <5>2, <5>3
      <4>2. Len(t) = Len(s) + 1 /\ \A m \in 1..(Len(s) + 1) : t[m] = order'[m]
        BY <2>2, <2>4, <2>7, <4>1
      <4> HIDE DEF t
      <4> QED
        BY <3>1, <4>1, <4>2
    <3> HIDE DEF p, q, t
    <3> QED
      BY <1>1, <2>5, <3>1, <3>4, <3>5, BecomesRing
  <2>8. CASE k # Len(s)
    <3>1. k + 1 \in 1..Len(s) /\ r.next[w] = s[k + 1]
      BY <2>2, <2>4, <2>8 DEF Rep
    <3>2. w # r.last
      BY <2>2, <2>4, <2>6, <2>8 DEF OneToOne
    <3>3. q = LinkBefore(y, s[k + 1], r.last, r.next, r.prev)
      BY <3>1, <3>2
    <3>4. q \in Rings /\ order' \in Seq(Items) /\ Rep(order', q) /\ OneToOne(order')
      BY <2>2, <2>5, <3>1, <3>3, LinkBeforeRep
    <3> HIDE DEF q
    <3> QED
      BY <1>1, <2>5, <3>4, BecomesRing
  <2> QED
    BY <2>7, <2>8
<1>6. CASE FreeListStart
  BY <1>6 DEF FreeListStart, IInv, TypeOK, RingInv, Represents, Distinct, After, Before
<1>7. CASE FreeListStep
  <2>1. CASE Prev[cursor] # Last
    <3>1. UNCHANGED <<Last, Next, Prev, order>> /\ cursor' = Prev[cursor] /\ freed' = freed \cup {cursor}
      BY <1>7, <2>1 DEF FreeListStep
    <3>2. cursor' \in Items \cup {NULL} /\ freed' \in SUBSET Items
      BY <1>7, <3>1 DEF FreeListStep, IInv, TypeOK
    <3> QED
      BY <3>1, <3>2 DEF IInv, TypeOK, RingInv, Represents, Distinct, After, Before
  <2>2. CASE Prev[cursor] = Last
    BY <1>7, <2>2 DEF FreeListStep, IInv, TypeOK, RingInv, Represents, Distinct
  <2> QED
    BY <2>1, <2>2
<1>8. CASE UNCHANGED vars
  BY <1>8 DEF vars, IInv, TypeOK, RingInv, Represents, Distinct, After, Before
<1> QED
  BY <1>2, <1>3, <1>4, <1>5, <1>6, <1>7, <1>8 DEF Step

(***************************************************************************)
(* For every set of items, after every sequence of additions, insertions,  *)
(* removals and drops: Last and the links of list.h represent the sequence *)
(* the callers believe in, and no item is in it twice.                     *)
(***************************************************************************)
THEOREM RingCorrect == Spec => []RingInv
<1>1. IInv => RingInv
  BY DEF IInv
<1> QED
  BY RingInit, RingStep, <1>1, PTL DEF Spec

\* The types of the list's variables, for every set of items.
THEOREM RingTypeCorrect == Spec => []TypeOK
<1>1. IInv => TypeOK
  BY DEF IInv
<1> QED
  BY RingInit, RingStep, <1>1, PTL DEF Spec

(***************************************************************************)
(* FreeList.  What the walk carries from step to step is, besides IInv,    *)
(* that it has freed exactly what lies behind the cursor.                  *)
(***************************************************************************)
FreeIInv == IInv /\ FreedBehindCursor

LEMMA FreeInit == Init => FreeIInv
BY RingInit DEF Init, FreeIInv, FreedBehindCursor

\* The walk is back at Last exactly when it stands on the first item.
LEMMA BackAtLast ==
  ASSUME IInv, NEW k \in 1..Len(order)
  PROVE  /\ Prev[order[k]] = Last <=> k = 1
         /\ k # 1 => Prev[order[k]] = order[k - 1] /\ k - 1 \in 1..Len(order)
<1>1. Len(order) \in Nat /\ order # << >>
  BY DEF IInv, TypeOK
<1>2. Last = order[Len(order)] /\ Prev[order[k]] = order[Before(k)]
  BY <1>1 DEF IInv, RingInv, Represents
<1>3. Before(k) \in 1..Len(order) /\ Len(order) \in 1..Len(order)
  BY <1>1 DEF Before
<1>4. order[Before(k)] = order[Len(order)] <=> Before(k) = Len(order)
  BY <1>3 DEF IInv, RingInv, Distinct
<1>5. Before(k) = Len(order) <=> k = 1
  BY <1>1 DEF Before
<1> QED
  BY <1>1, <1>2, <1>4, <1>5 DEF Before

\* Every step keeps the freed items behind the cursor.
LEMMA FreeStep == FreeIInv /\ [Step]_vars => FreeIInv'
<1> SUFFICES ASSUME FreeIInv, [Step]_vars PROVE FreedBehindCursor'
  BY RingStep DEF FreeIInv
<1>1. IInv /\ FreedBehindCursor /\ Len(order) \in Nat /\ NULL \notin Items
  BY NullAssumption DEF FreeIInv, IInv, TypeOK
<1>2. ASSUME Idle PROVE FreedBehindCursor'
  BY <1>1, <1>2 DEF Idle, FreedBehindCursor
<1>3. CASE FreeListStart
  <2>1. order # << >> /\ Len(order) \in 1..Len(order) /\ Last = order[Len(order)]
    BY <1>1, <1>3 DEF FreeListStart, IInv, TypeOK, RingInv, Represents
  <2>2. cursor' = order[Len(order)] /\ freed' = {} /\ order' = order /\ cursor' # NULL
    BY <1>1, <1>3, <2>1 DEF FreeListStart, FreedBehindCursor
  <2>3. {order[j] : j \in (Len(order) + 1)..Len(order)} = {}
    BY <1>1
  <2> QED
    BY <2>1, <2>2, <2>3 DEF FreedBehindCursor
<1>4. CASE FreeListStep
  <2>1. PICK k \in 1..Len(order) : cursor = order[k] /\ freed = {order[j] : j \in (k + 1)..Len(order)}
    BY <1>1, <1>4 DEF FreeListStep, FreedBehindCursor
  <2>2. CASE k = 1
    BY <1>1, <1>4, <2>1, <2>2, BackAtLast DEF FreeListStep, FreedBehindCursor
  <2>3. CASE k # 1
    <3>1. Prev[cursor] # Last /\ Prev[cursor] = order[k - 1] /\ k - 1 \in 1..Len(order)
      BY <1>1, <2>1, <2>3, BackAtLast
    <3>2. cursor' = order[k - 1] /\ freed' = freed \cup {order[k]} /\ order' = order
      BY <1>4, <2>1, <3>1 DEF FreeListStep
    <3>3. cursor' # NULL
      BY <1>1, <3>1, <3>2 DEF IInv, TypeOK
    <3>4. (k - 1) + 1 = k /\ k..Len(order) = {k} \cup ((k + 1)..Len(order))
      BY <1>1, <2>1
    <3>5. freed' = {order[j] : j \in ((k - 1) + 1)..Len(order)}
      BY <2>1, <3>2, <3>4
    <3> QED
      BY <3>1, <3>2, <3>3, <3>5 DEF FreedBehindCursor
  <2> QED
    BY <2>2, <2>3
<1>5. CASE UNCHANGED vars
  BY <1>1, <1>5 DEF vars, FreedBehindCursor
<1> QED
  BY <1>2, <1>3, <1>4, <1>5 DEF Step, AddItem, AddItemBefore, RemoveItem, DropBehind

(***************************************************************************)
(* FreeList and KickList free no item twice and follow no link of an item  *)
(* they have freed, however the list they are given was made.              *)
(***************************************************************************)
THEOREM FreeListCorrect == Spec => []FreedBehindCursor
<1>1. FreeIInv => FreedBehindCursor
  BY DEF FreeIInv
<1> QED
  BY FreeInit, FreeStep, <1>1, PTL DEF Spec

(***************************************************************************)
(* FreeList and KickList end only when every item of the list is freed.    *)
(***************************************************************************)
THEOREM FreeListComplete == Spec => FreeListFreesAll
<1>1. FreeIInv /\ [Step]_vars =>
        [cursor # NULL /\ cursor' = NULL => freed \cup {cursor} = Members]_vars
  <2> SUFFICES ASSUME FreeIInv, Step, cursor # NULL, cursor' = NULL
               PROVE  freed \cup {cursor} = Members
    OBVIOUS
  <2>1. IInv /\ FreedBehindCursor /\ Len(order) \in Nat /\ NULL \notin Items
    BY NullAssumption DEF FreeIInv, IInv, TypeOK
  <2>2. FreeListStep
    BY DEF Step, AddItem, AddItemBefore, RemoveItem, DropBehind, Idle, FreeListStart
  <2>3. PICK k \in 1..Len(order) : cursor = order[k] /\ freed = {order[j] : j \in (k + 1)..Len(order)}
    BY <2>1 DEF FreedBehindCursor
  <2>4. k = 1
    <3> SUFFICES ASSUME k # 1 PROVE FALSE
      OBVIOUS
    <3>1. Prev[cursor] # Last /\ Prev[cursor] = order[k - 1] /\ k - 1 \in 1..Len(order)
      BY <2>1, <2>3, BackAtLast
    <3>2. cursor' = order[k - 1]
      BY <2>2, <3>1 DEF FreeListStep
    <3> QED
      BY <2>1, <3>1, <3>2 DEF IInv, TypeOK
  <2>5. 1..Len(order) = {1} \cup ((k + 1)..Len(order))
    BY <2>1, <2>3, <2>4
  <2> QED
    BY <2>3, <2>4, <2>5 DEF Members, Abs!Holds
<1> QED
  BY FreeInit, FreeStep, <1>1, PTL DEF Spec, FreeListFreesAll

\* The two together: FreeList and KickList free the list, all of it and each item once.
THEOREM FreeListOnce == Spec => FreesAllOnce
  BY FreeListCorrect, FreeListComplete DEF FreesAllOnce

(***************************************************************************)
(* The walks.  Met is a recursive function: that there is such a function, *)
(* and what it is at every place, is shown by induction.                   *)
(***************************************************************************)
\* f is a walk along Next, of m items from the first one on.
Follows(f, m) ==
  /\ f \in [1..m -> Items \cup {NULL}]
  /\ \A k \in 1..m : f[k] = IF k = 1 THEN Next[Last]
                            ELSE IF f[k - 1] = NULL THEN NULL ELSE Next[f[k - 1]]

\* There is such a walk of every length, whatever the links are.
LEMMA WalkExists ==
  ASSUME TypeOK, Last # NULL, NEW m \in Nat
  PROVE  \E f : Follows(f, m)
<1> DEFINE T == {x \in Nat : \E f : Follows(f, x)}
<1>1. 0 \in T
  <2>1. Follows([k \in 1..0 |-> NULL], 0)
    BY DEF Follows
  <2> QED
    BY <2>1
<1>2. ASSUME NEW x \in Nat, x \in T PROVE x + 1 \in T
  <2>1. PICK f : Follows(f, x)
    BY <1>2
  <2> DEFINE e == IF x = 0 THEN Next[Last] ELSE IF f[x] = NULL THEN NULL ELSE Next[f[x]]
             g == [k \in 1..(x + 1) |-> IF k = x + 1 THEN e ELSE f[k]]
  <2>2. e \in Items \cup {NULL}
    BY <2>1 DEF Follows, TypeOK
  <2>3. g \in [1..(x + 1) -> Items \cup {NULL}]
    <3> HIDE DEF e
    <3> QED
      BY <2>1, <2>2 DEF Follows
  <2>4. \A k \in 1..x : g[k] = f[k] /\ (k # 1 => k - 1 \in 1..x)
    OBVIOUS
  <2>5. g[x + 1] = e
    OBVIOUS
  <2> HIDE DEF g
  <2>6. ASSUME NEW k \in 1..(x + 1)
        PROVE  g[k] = IF k = 1 THEN Next[Last] ELSE IF g[k - 1] = NULL THEN NULL ELSE Next[g[k - 1]]
    <3>1. CASE k \in 1..x
      BY <2>1, <2>4, <3>1 DEF Follows
    <3>2. CASE k = x + 1
      <4>1. CASE x = 0
        BY <2>5, <3>2, <4>1
      <4>2. CASE x # 0
        <5>1. k - 1 = x /\ k # 1 /\ x \in 1..x
          BY <3>2, <4>2
        <5>2. g[k - 1] = f[x]
          BY <2>4, <5>1
        <5> QED
          BY <2>5, <3>2, <4>2, <5>1, <5>2
      <4> QED
        BY <4>1, <4>2
    <3> QED
      BY <3>1, <3>2
  <2>7. Follows(g, x + 1)
    BY <2>3, <2>6 DEF Follows
  <2> QED
    BY <2>7
<1> HIDE DEF T
<1>3. Nat \subseteq T
  BY <1>1, <1>2, SetInduction
<1> QED
  BY <1>3 DEF T

\* Met is the walk of one step more than there are items.
LEMMA MetFollows ==
  ASSUME TypeOK, Last # NULL
  PROVE  Follows(Met, Cardinality(Items) + 1)
<1> DEFINE S == 1..(Cardinality(Items) + 1)
           E(g) == [k \in S |-> IF k = 1 THEN Next[Last]
                                ELSE IF g[k - 1] = NULL THEN NULL ELSE Next[g[k - 1]]]
<1>1. Cardinality(Items) + 1 \in Nat
  BY ItemsAssumption, FS_CardinalityType
<1>2. PICK f : Follows(f, Cardinality(Items) + 1)
  BY <1>1, WalkExists
<1>3. f = E(f)
  BY <1>2 DEF Follows
<1>4. Met = CHOOSE g : g = E(g)
  BY DEF Met
<1>5. Met = E(Met)
  BY <1>3, <1>4
<1>6. DOMAIN Met = S
  BY <1>5
<1>7. \A k \in S : Met[k] = IF k = 1 THEN Next[Last]
                            ELSE IF Met[k - 1] = NULL THEN NULL ELSE Next[Met[k - 1]]
  BY <1>5
<1>8. \A k \in S : Met[k] \in Items \cup {NULL}
  <2> DEFINE T == {x \in Nat : x + 1 \in S => Met[x + 1] \in Items \cup {NULL}}
  <2> HIDE DEF E
  <2>1. 0 \in T
    BY <1>1, <1>7 DEF TypeOK
  <2>2. ASSUME NEW x \in Nat, x \in T PROVE x + 1 \in T
    <3> SUFFICES ASSUME (x + 1) + 1 \in S PROVE Met[(x + 1) + 1] \in Items \cup {NULL}
      OBVIOUS
    <3>1. x + 1 \in S /\ (x + 1) + 1 # 1 /\ ((x + 1) + 1) - 1 = x + 1
      BY <1>1
    <3>2. Met[x + 1] \in Items \cup {NULL}
      BY <2>2, <3>1
    <3>3. Met[(x + 1) + 1] = IF Met[x + 1] = NULL THEN NULL ELSE Next[Met[x + 1]]
      BY <1>7, <3>1
    <3> QED
      BY <3>2, <3>3 DEF TypeOK
  <2> HIDE DEF T
  <2>3. Nat \subseteq T
    BY <2>1, <2>2, SetInduction
  <2> QED
    BY <1>1, <2>3 DEF T
<1> HIDE DEF E
<1>9. Met \in [S -> Items \cup {NULL}]
  <2>1. Met = [k \in S |-> Met[k]]
    BY <1>5 DEF E
  <2> QED
    BY <1>8, <2>1
<1> QED
  BY <1>7, <1>9 DEF Follows

\* A list without repetitions is not longer than there are items.
LEMMA LengthBound ==
  ASSUME NEW s \in Seq(Items), OneToOne(s)
  PROVE  Len(s) <= Cardinality(Items)
<1>1. Len(s) \in Nat /\ s \in [1..Len(s) -> Items]
  OBVIOUS
<1>2. s \in Injection(1..Len(s), Items)
  BY <1>1 DEF OneToOne, Injection, IsInjective
<1>3. Cardinality(1..Len(s)) <= Cardinality(Items)
  BY <1>2, ItemsAssumption, FS_Injection
<1>4. Cardinality(1..Len(s)) = Len(s)
  <2>1. 1 \in Int /\ Len(s) \in Int
    BY <1>1
  <2>2. Cardinality(1..Len(s)) = IF 1 > Len(s) THEN 0 ELSE Len(s) - 1 + 1
    BY <2>1, FS_Interval
  <2> QED
    BY <1>1, <2>2
<1> QED
  BY <1>3, <1>4

(***************************************************************************)
(* In a ring that represents a sequence the walk meets the sequence: item  *)
(* by item, and after the last one the first again.                        *)
(***************************************************************************)
LEMMA MetIsOrder ==
  ASSUME IInv, order # << >>
  PROVE  /\ \A k \in 1..Len(order) : Met[k] = order[k]
         /\ Met[Len(order) + 1] = order[1]
         /\ Len(order) \in 1..Cardinality(Items)
<1> DEFINE N == Len(order)
<1>1. TypeOK /\ N \in Nat \ {0} /\ \A k \in 1..N : order[k] \in Items
  BY DEF IInv, TypeOK
<1>2. Last = order[N] /\ Last \in Items /\ Last # NULL
  BY <1>1, NullAssumption DEF IInv, RingInv, Represents
<1>3. \A k \in 1..N : Next[order[k]] = order[IF k = N THEN 1 ELSE k + 1] /\ order[k] # NULL
  BY <1>1, NullAssumption DEF IInv, RingInv, Represents, After
<1>4. N <= Cardinality(Items) /\ Cardinality(Items) \in Nat
  <2>1. OneToOne(order) /\ order \in Seq(Items)
    BY DEF IInv, TypeOK, RingInv, Distinct, OneToOne
  <2> QED
    BY <2>1, LengthBound, ItemsAssumption, FS_CardinalityType
<1>5. \A k \in 1..(N + 1) : Met[k] = IF k = 1 THEN Next[Last]
                            ELSE IF Met[k - 1] = NULL THEN NULL ELSE Next[Met[k - 1]]
  BY <1>1, <1>2, <1>4, MetFollows DEF Follows
<1> DEFINE T == {x \in Nat : x + 1 \in 1..N => Met[x + 1] = order[x + 1]}
<1> HIDE DEF N
<1>6. 0 \in T
  BY <1>1, <1>2, <1>3, <1>5
<1>7. ASSUME NEW x \in Nat, x \in T PROVE x + 1 \in T
  <2> SUFFICES ASSUME (x + 1) + 1 \in 1..N PROVE Met[(x + 1) + 1] = order[(x + 1) + 1]
    OBVIOUS
  <2>1. PICK y \in 1..N : y = x + 1
    BY <1>1
  <2>2. y # N /\ y + 1 \in 1..(N + 1) /\ y + 1 # 1 /\ (y + 1) - 1 = y
    BY <1>1, <2>1
  <2>3. Met[y] = order[y]
    BY <1>7, <2>1
  <2>4. Met[y + 1] = IF Met[y] = NULL THEN NULL ELSE Next[Met[y]]
    BY <1>5, <2>2
  <2>5. Met[y + 1] = order[y + 1]
    BY <1>3, <2>2, <2>3, <2>4
  <2> QED
    BY <2>1, <2>5
<1> HIDE DEF T
<1>8. Nat \subseteq T
  BY <1>6, <1>7, SetInduction
<1>9. \A k \in 1..N : Met[k] = order[k]
  <2> SUFFICES ASSUME NEW k \in 1..N PROVE Met[k] = order[k]
    OBVIOUS
  <2>1. PICK x \in Nat : x + 1 = k
    <3>1. k - 1 \in Nat /\ (k - 1) + 1 = k
      BY <1>1
    <3> QED
      BY <3>1
  <2>2. x \in T
    BY <1>8
  <2> QED
    BY <2>1, <2>2 DEF T
<1>10. Met[N + 1] = order[1]
  <2>1. N + 1 \in 1..(N + 1) /\ N + 1 # 1 /\ (N + 1) - 1 = N /\ N \in 1..N
    BY <1>1
  <2>2. Met[N] = order[N] /\ Next[order[N]] = order[1] /\ order[N] # NULL
    BY <1>3, <1>9, <2>1
  <2>3. Met[N + 1] = IF Met[N] = NULL THEN NULL ELSE Next[Met[N]]
    BY <1>5, <2>1
  <2> QED
    BY <2>2, <2>3
<1> QED
  BY <1>1, <1>4, <1>9, <1>10 DEF N

\* "do ... while ( a != b )" visits each item once: the walk sees the sequence.
LEMMA WalkIsOrder == IInv => Walk = order
<1> SUFFICES ASSUME IInv PROVE Walk = order
  OBVIOUS
<1> DEFINE N == Len(order)
<1>1. TypeOK /\ order \in Seq(Items) /\ N \in Nat
  BY DEF IInv, TypeOK
<1>2. CASE order = << >>
  BY <1>2 DEF IInv, RingInv, Represents, Walk
<1>3. CASE order # << >>
  <2>1. /\ \A k \in 1..N : Met[k] = order[k]
        /\ Met[N + 1] = order[1]
        /\ N \in 1..Cardinality(Items)
    BY <1>3, MetIsOrder
  <2>2. Last # NULL
    BY <1>1, <1>3, NullAssumption DEF IInv, RingInv, Represents
  <2>3. Cardinality(Items) \in Nat
    BY ItemsAssumption, FS_CardinalityType
  <2> DEFINE Back(m) == Met[m + 1] = Met[1] /\ \A j \in 2..m : Met[j] # Met[1]
  <2>4. \A k \in 2..N : Met[k] # Met[1]
    <3>1. \A j, k \in 1..N : order[j] = order[k] => j = k
      BY DEF IInv, RingInv, Distinct
    <3> QED
      BY <1>1, <2>1, <3>1
  <2>5. Met[N + 1] = Met[1] /\ Back(N)
    BY <1>1, <2>1, <2>4
  <2>6. ASSUME NEW m \in 1..Cardinality(Items), Back(m) PROVE m = N
    <3>1. CASE m < N
      <4>1. m + 1 \in 2..N
        BY <1>1, <2>3, <3>1
      <4> QED
        BY <2>4, <2>6, <4>1
    <3>2. CASE m > N
      <4>1. N + 1 \in 2..m
        BY <2>1, <2>3, <3>2
      <4> QED
        BY <2>5, <2>6, <4>1
    <3> QED
      BY <2>1, <2>3, <3>1, <3>2
  <2>7. Round = CHOOSE m \in 1..Cardinality(Items) : Back(m)
    BY <2>1, <2>5 DEF Round
  <2> HIDE DEF Back
  <2>8. Round = N
    BY <2>1, <2>5, <2>6, <2>7
  <2>9. Walk = [k \in 1..N |-> Met[k]]
    BY <2>2, <2>8 DEF Walk
  <2>10. order = [k \in 1..N |-> order[k]]
    BY <1>1
  <2> QED
    BY <2>1, <2>9, <2>10
<1> QED
  BY <1>2, <1>3

(***************************************************************************)
(* For every finite set of items: a walk along Next from Last->Next until  *)
(* it is back there sees the sequence the callers believe in.              *)
(***************************************************************************)
THEOREM WalkCorrect == Spec => [](Walk = order)
  BY RingInit, RingStep, WalkIsOrder, PTL DEF Spec

\* What the two lookups return on a walk that is the sequence.
LEMMA LookupsAgree == IInv => IndexRoundTrip
<1> SUFFICES ASSUME IInv, Last # NULL
             PROVE  /\ \A i \in Members : ListAtItem(ListFoundIndex(i)) = i
                    /\ \A k \in 0..(Cardinality(Items) + 1) :
                         IF k \in 1..Len(order) THEN ListFoundIndex(ListAtItem(k)) = k
                         ELSE ListAtItem(k) = NULL
  BY DEF IndexRoundTrip
<1>1. Walk = order /\ order \in Seq(Items) /\ Len(order) \in Nat
  BY WalkIsOrder DEF IInv, TypeOK
<1>2. \A j, k \in 1..Len(order) : order[j] = order[k] => j = k
  BY DEF IInv, RingInv, Distinct
<1>3. \A k : ListAtItem(k) = IF k \in 1..Len(order) THEN order[k] ELSE NULL
  BY <1>1 DEF ListAtItem
<1>4. ASSUME NEW k \in 1..Len(order) PROVE ListFoundIndex(order[k]) = k
  <2> DEFINE Found(m) == order[m] = order[k] /\ \A j \in 1..(m - 1) : order[j] # order[k]
  <2>1. order[k] \in Abs!Holds(Walk)
    BY <1>1 DEF Abs!Holds
  <2>2. ListFoundIndex(order[k]) = CHOOSE m \in 1..Len(order) : Found(m)
    BY <1>1, <2>1 DEF ListFoundIndex
  <2>3. Found(k)
    <3>1. \A j \in 1..(k - 1) : j \in 1..Len(order) /\ j # k
      BY <1>1
    <3> QED
      BY <1>2, <3>1
  <2>4. \A m \in 1..Len(order) : Found(m) => m = k
    BY <1>2
  <2> HIDE DEF Found
  <2> QED
    BY <2>2, <2>3, <2>4
<1>5. ASSUME NEW i \in Members PROVE ListAtItem(ListFoundIndex(i)) = i
  <2>1. PICK k \in 1..Len(order) : order[k] = i
    BY DEF Members, Abs!Holds
  <2> QED
    BY <1>3, <1>4, <2>1
<1> QED
  BY <1>3, <1>4, <1>5

(***************************************************************************)
(* ListAtItem and ListFoundIndex are inverse to each other, whatever was   *)
(* done to the list.                                                       *)
(***************************************************************************)
THEOREM LookupsCorrect == Spec => []IndexRoundTrip
  BY RingInit, RingStep, LookupsAgree, PTL DEF Spec

(***************************************************************************)
(* Refinement: what a step of list.c does to the sequence is a step of     *)
(* ItemList on what a walk sees.                                           *)
(***************************************************************************)
\* Appending is inserting behind the last item.
LEMMA AppendInserts ==
  ASSUME NEW s \in Seq(Items), NEW i \in Items
  PROVE  Append(s, i) = Walked!InsertedAt(s, Len(s) + 1, i)
<1> DEFINE t == Append(s, i)
           u == [m \in 1..(Len(s) + 1) |-> IF m < Len(s) + 1 THEN s[m]
                                           ELSE IF m = Len(s) + 1 THEN i ELSE s[m - 1]]
<1>1. Len(s) \in Nat /\ t = [m \in 1..(Len(s) + 1) |-> t[m]]
  <2>1. Len(s) \in Nat /\ t \in Seq(Items) /\ Len(t) = Len(s) + 1
    OBVIOUS
  <2> HIDE DEF t
  <2>2. t = [m \in 1..Len(t) |-> t[m]]
    BY <2>1
  <2> QED
    BY <2>1, <2>2
<1>2. \A m \in 1..(Len(s) + 1) : t[m] = u[m]
  <2>1. /\ \A m \in 1..Len(s) : t[m] = s[m] /\ u[m] = s[m]
        /\ t[Len(s) + 1] = i /\ u[Len(s) + 1] = i
    BY <1>1
  <2>2. \A m \in 1..(Len(s) + 1) : m \in 1..Len(s) \/ m = Len(s) + 1
    BY <1>1
  <2> HIDE DEF t, u
  <2> QED
    BY <2>1, <2>2
<1>3. t = u
  BY <1>1, <1>2
<1> QED
  BY <1>3 DEF Walked!InsertedAt

LEMMA StepRefines == IInv /\ IInv' /\ [Step]_vars => [Walked!Next]_Walk
<1> SUFFICES ASSUME IInv, IInv', [Step]_vars PROVE Walked!Next \/ Walk' = Walk
  OBVIOUS
<1>1. Walk = order /\ order \in Seq(Items) /\ Len(order) \in Nat
  BY WalkIsOrder DEF IInv, TypeOK
<1>2. Walk' = order'
  <2>1. (IInv => Walk = order)'
    BY WalkIsOrder, PTL
  <2> QED
    BY <2>1
<1> USE DEF Walked!IndexOf, Walked!Holds, Walked!InsertedAt, Walked!RemovedAt,
            Abs!IndexOf, Abs!Holds, Abs!InsertedAt, Abs!RemovedAt
<1>3. ASSUME NEW i \in Items, AddItem(i) PROVE Walked!Next
  <2>1. Walked!Insert(Len(order) + 1, i)
    BY <1>1, <1>2, <1>3, AppendInserts DEF AddItem, Members, Walked!Insert
  <2> QED
    BY <1>1, <2>1 DEF Walked!Next
<1>4. ASSUME NEW i \in Items, NEW y \in Items, AddItemBefore(i, y) PROVE Walked!Next
  <2>1. PICK k : k = Abs!IndexOf(order, y)
    OBVIOUS
  <2>2. k \in 1..Len(order)
    BY <1>1, <1>4, <2>1, IndexOfItem DEF AddItemBefore, Members
  <2>3. k \in 1..(Len(Walk) + 1)
    BY <1>1, <2>2
  <2>4. Walked!Insert(k, i)
    BY <1>1, <1>2, <1>4, <2>1, <2>3 DEF AddItemBefore, Members, Walked!Insert
  <2> QED
    BY <2>3, <2>4 DEF Walked!Next
<1>5. ASSUME NEW i \in Items, RemoveItem(i) PROVE Walked!Next
  <2>1. PICK k : k = Abs!IndexOf(order, i)
    OBVIOUS
  <2>2. k \in 1..Len(Walk)
    BY <1>1, <1>5, <2>1, IndexOfItem DEF RemoveItem, Members
  <2>3. Walked!Remove(k)
    BY <1>1, <1>2, <1>5, <2>1, <2>2 DEF RemoveItem, Walked!Remove
  <2> QED
    BY <2>2, <2>3 DEF Walked!Next
<1>6. ASSUME NEW w \in Items, NEW y \in Items, DropBehind(y, w) PROVE Walked!Next
  <2>1. PICK j : j = Abs!IndexOf(order, y)
    OBVIOUS
  <2>2. j \in 1..Len(order) /\ order[j] = y
    BY <1>1, <1>6, <2>1, IndexOfItem DEF DropBehind, Members
  <2>3. PICK s : s = Abs!RemovedAt(order, j)
    OBVIOUS
  <2>4. /\ s \in Seq(Items) /\ Len(s) = Len(order) - 1
        /\ \A m \in 1..(Len(order) - 1) : s[m] = IF m < j THEN order[m] ELSE order[m + 1]
    BY <1>1, <2>2, <2>3, RemovedSeq
  <2>5. w \in Abs!Holds(s)
    <3>1. PICK m \in 1..Len(order) : order[m] = w
      BY <1>6 DEF DropBehind, Members
    <3>2. m # j
      BY <1>6, <2>2, <3>1 DEF DropBehind
    <3>3. CASE m < j
      BY <1>1, <2>2, <2>4, <3>1, <3>3
    <3>4. CASE m > j
      <4>1. m - 1 \in 1..(Len(order) - 1) /\ s[m - 1] = order[m]
        BY <1>1, <2>2, <2>4, <3>1, <3>4
      <4> QED
        BY <1>1, <2>4, <3>1, <4>1
    <3> QED
      BY <1>1, <2>2, <3>2, <3>3, <3>4
  <2>6. PICK k : k = Abs!IndexOf(s, w) + 1
    OBVIOUS
  <2>7. k \in 1..Len(order)
    <3>1. PICK x : x = Abs!IndexOf(s, w)
      OBVIOUS
    <3>2. x \in 1..Len(s)
      BY <2>4, <2>5, <3>1, IndexOfItem
    <3> QED
      BY <1>1, <2>4, <2>6, <3>1, <3>2
  <2>8. order' = Abs!InsertedAt(s, k, y)
    BY <1>6, <2>1, <2>3, <2>6 DEF DropBehind
  <2>9. Walked!Move(j, k)
    BY <1>1, <1>2, <2>2, <2>3, <2>7, <2>8 DEF Walked!Move
  <2> QED
    BY <1>1, <2>2, <2>7, <2>9 DEF Walked!Next
<1>7. CASE FreeListStart
  BY <1>1, <1>2, <1>7 DEF FreeListStart
<1>8. CASE FreeListStep
  BY <1>1, <1>2, <1>8 DEF FreeListStep, Walked!Next, Walked!Free
<1>9. CASE UNCHANGED vars
  BY <1>1, <1>2, <1>9 DEF vars
<1> QED
  BY <1>3, <1>4, <1>5, <1>6, <1>7, <1>8, <1>9 DEF Step

(***************************************************************************)
(* The linked list implements the abstract one: for every finite set of    *)
(* items, what a forward walk over the links sees behaves as ItemList.     *)
(***************************************************************************)
THEOREM RingImplements == Spec => ImplementsItemList
<1>1. Init => Walked!Init
  BY DEF Init, Walk, Walked!Init
<1> QED
  BY RingInit, RingStep, StepRefines, <1>1, PTL DEF Spec, ImplementsItemList, Walked!Spec
-----------------------------------------------------------------------------
(***************************************************************************)
(* The exchange sort, on places.                                           *)
(***************************************************************************)
\* The inductive invariant of the order: a has come to the end when it is done.
OrderInv == OrderTypeOK /\ Partly /\ (done => a = n)

\* The comparison a step makes has put the less of the two at a.
Compared(f) == \A j \in 1..n : a < j /\ j <= b =>
                 (f[a] \in Ranked /\ f[j] \in Ranked => Rank[f[a]] <= Rank[f[j]])
-----------------------------------------------------------------------------
\* The types hold at the call.
LEMMA InitTypes == OrderInit => OrderTypeOK
<1> SUFFICES ASSUME OrderInit PROVE OrderTypeOK
  OBVIOUS
<1>1. n \in Nat \ {0} /\ a = 1 /\ b = 1
  BY LengthAssumption DEF OrderInit
<1>2. a \in 1..n /\ b \in a..n
  BY <1>1
<1>3. from \in [1..n -> 1..n] /\ item \in [1..n -> Data] /\ first \in [1..n -> Data]
  BY DEF OrderInit
<1>4. done \in BOOLEAN /\ ties \in BOOLEAN /\ n \in Lengths
  BY Zenon DEF OrderInit
<1> QED
  BY <1>2, <1>3, <1>4 DEF OrderTypeOK

\* The types hold in every step.
LEMMA TypeStep == OrderTypeOK /\ [Compare]_orderVars => OrderTypeOK'
<1> SUFFICES ASSUME OrderTypeOK, [Compare]_orderVars PROVE OrderTypeOK'
  OBVIOUS
<1> USE DEF OrderTypeOK
<1>1. ASSUME Compare PROVE OrderTypeOK'
  <2>1. n' = n /\ first' = first /\ ties' = ties
    BY <1>1 DEF Compare
  <2>2. n \in Nat /\ a \in 1..n /\ b \in 1..n /\ a <= b
    BY LengthAssumption
  <2>3. item' \in [1..n -> Data] /\ from' \in [1..n -> 1..n]
    BY <1>1, <2>2 DEF Compare, Exchanged
  <2>4. a' \in 1..n /\ b' \in a'..n
    <3>1. \/ b < n /\ b' = b + 1 /\ a' = a
          \/ b = n /\ a < n /\ a' = a + 1 /\ b' = a + 1
          \/ a' = a /\ b' = b
      BY <1>1, Zenon DEF Compare, Onward
    <3>2. CASE b < n /\ b' = b + 1 /\ a' = a
      BY <2>2, <3>2
    <3>3. CASE b = n /\ a < n /\ a' = a + 1 /\ b' = a + 1
      BY <2>2, <3>3
    <3>4. CASE a' = a /\ b' = b
      BY <2>2, <3>4
    <3> QED
      BY <3>1, <3>2, <3>3, <3>4
  <2>5. done' \in BOOLEAN
    BY <1>1, Zenon DEF Compare, Onward
  <2> QED
    BY <2>1, <2>3, <2>4, <2>5
<1>2. ASSUME UNCHANGED orderVars PROVE OrderTypeOK'
  BY <1>2 DEF orderVars
<1> QED
  BY <1>1, <1>2

\* The types hold in every list order that is called.
THEOREM OrderTypeCorrect == OrderSpec => []OrderTypeOK
<1>1. OrderInit => OrderTypeOK
  BY InitTypes
<1> QED
  BY <1>1, TypeStep, PTL DEF OrderSpec
-----------------------------------------------------------------------------
\* What an exchange leaves at each place.
LEMMA ExchangedAt ==
  ASSUME OrderTypeOK, NEW S, NEW f \in [1..n -> S]
  PROVE  /\ Exchanged(f) \in [1..n -> S]
         /\ Exchanged(f)[a] = f[b] /\ Exchanged(f)[b] = f[a]
         /\ \A i \in 1..n : i # a /\ i # b => Exchanged(f)[i] = f[i]
<1>1. a \in 1..n /\ b \in 1..n
  BY LengthAssumption DEF OrderTypeOK
<1> QED
  BY <1>1 DEF Exchanged

\* A comparison keeps what lies before a, and puts the less of the two at a.
LEMMA CompareOrders ==
  ASSUME OrderTypeOK, Partly, Compare
  PROVE  /\ Compared(item')
         /\ \A i, j \in 1..n : i < a /\ i < j => InOrder(i, j)'
<1> DEFINE Le(f, i, j) == f[i] \in Ranked /\ f[j] \in Ranked => Rank[f[i]] <= Rank[f[j]]
<1>1. n \in Nat /\ a \in 1..n /\ b \in 1..n /\ a <= b /\ item \in [1..n -> Data]
  BY LengthAssumption DEF OrderTypeOK
<1>2. /\ \A i, j \in 1..n : i < a /\ i < j => Le(item, i, j)
      /\ \A j \in 1..n : a < j /\ j < b => Le(item, a, j)
  BY DEF Partly, InOrder
<1>3. \A x \in Ranked : Rank[x] \in Int
  BY ComparatorAssumption
<1>4. CASE Above(item[a], item[b])
  <2>1. item' = Exchanged(item)
    BY <1>4 DEF Compare
  <2>2. item'[a] = item[b] /\ item'[b] = item[a] /\ \A i \in 1..n : i # a /\ i # b => item'[i] = item[i]
    BY <1>1, <2>1, ExchangedAt
  <2>3. item[a] \in Ranked /\ item[b] \in Ranked /\ Rank[item[b]] <= Rank[item[a]]
    BY <1>3, <1>4 DEF Above
  <2>4. ASSUME NEW j \in 1..n, a < j, j <= b PROVE Le(item', a, j)
    <3>1. CASE j = b
      BY <2>2, <2>3, <3>1
    <3>2. CASE j # b
      <4>1. Le(item, a, j) /\ item'[j] = item[j]
        BY <1>1, <1>2, <2>2, <2>4, <3>2
      <4> QED
        BY <1>3, <2>2, <2>3, <4>1
    <3> QED
      BY <3>1, <3>2
  <2>5. ASSUME NEW i \in 1..n, NEW j \in 1..n, i < a, i < j PROVE Le(item', i, j)
    <3>1. item'[i] = item[i]
      BY <1>1, <2>2, <2>5
    <3>2. PICK k \in 1..n : i < k /\ item'[j] = item[k]
      BY <1>1, <2>2, <2>5
    <3>3. Le(item, i, k)
      BY <1>2, <2>5, <3>2
    <3> QED
      BY <3>1, <3>2, <3>3
  <2> QED
    BY <2>4, <2>5 DEF Compared, InOrder
<1>5. CASE ~Above(item[a], item[b])
  <2>1. item' = item
    BY <1>5 DEF Compare
  <2>2. Le(item, a, b)
    BY <1>3, <1>5 DEF Above
  <2>3. ASSUME NEW j \in 1..n, a < j, j <= b PROVE Le(item, a, j)
    BY <1>1, <1>2, <2>2, <2>3
  <2> QED
    BY <1>2, <2>1, <2>3 DEF Compared, InOrder
<1> QED
  BY <1>4, <1>5

\* The order that is reached is kept in every step.
LEMMA OrderStep == OrderInv /\ [Compare]_orderVars => OrderInv'
<1> SUFFICES ASSUME OrderInv, [Compare]_orderVars PROVE OrderInv'
  OBVIOUS
<1>1. OrderTypeOK /\ Partly /\ OrderTypeOK'
  BY TypeStep DEF OrderInv
<1>2. ASSUME Compare PROVE Partly' /\ (done' => a' = n')
  <2>1. n' = n /\ n \in Nat /\ a \in 1..n /\ b \in 1..n /\ a <= b /\ ~done
    BY <1>1, <1>2, LengthAssumption DEF OrderTypeOK, Compare
  <2>2. /\ Compared(item')
        /\ \A i, j \in 1..n : i < a /\ i < j => InOrder(i, j)'
    BY <1>1, <1>2, CompareOrders
  <2>4. CASE b < n /\ b' = b + 1 /\ a' = a /\ done' = done
    <3>1. \A j \in 1..n : a' < j /\ j < b' => InOrder(a, j)'
      BY <2>1, <2>2, <2>4 DEF Compared, InOrder
    <3> QED
      BY <2>1, <2>2, <2>4, <3>1 DEF Partly, InOrder
  <2>5. CASE b = n /\ a < n /\ a' = a + 1 /\ b' = a + 1 /\ done' = done
    <3>1. ASSUME NEW i \in 1..n, NEW j \in 1..n, i < a', i < j PROVE InOrder(i, j)'
      <4>1. CASE i < a
        BY <2>2, <3>1, <4>1
      <4>2. CASE i = a
        BY <2>1, <2>2, <2>5, <3>1, <4>2 DEF Compared, InOrder
      <4> QED
        BY <2>1, <2>5, <3>1, <4>1, <4>2
    <3>2. \A j \in 1..n : ~(a' < j /\ j < b')
      BY <2>1, <2>5
    <3> QED
      BY <2>1, <2>5, <3>1, <3>2 DEF Partly
  <2>6. CASE b = n /\ a = n /\ done' = TRUE /\ a' = a /\ b' = b
    <3>1. \A j \in 1..n : ~(a' < j /\ j < b')
      BY <2>1, <2>6
    <3> QED
      BY <2>1, <2>2, <2>6, <3>1 DEF Partly
  <2> QED
    BY <1>2, <2>4, <2>5, <2>6 DEF Compare, Onward
<1>3. ASSUME UNCHANGED orderVars PROVE Partly' /\ (done' => a' = n')
  BY <1>3 DEF OrderInv, orderVars, Partly, InOrder
<1> QED
  BY <1>1, <1>2, <1>3 DEF OrderInv

\* A call begins with nothing in its place.
LEMMA SortBegins == OrderInit => OrderInv /\ SameItems
<1> SUFFICES ASSUME OrderInit PROVE OrderInv /\ SameItems
  OBVIOUS
<1>1. OrderTypeOK
  BY InitTypes
<1>2. a = 1 /\ b = 1 /\ n \in Nat /\ done = FALSE
  BY LengthAssumption DEF OrderInit
<1>3. SameItems
  BY DEF OrderInit, SameItems
<1> QED
  BY <1>1, <1>2, <1>3 DEF OrderInv, Partly

\* When the loops have ended everything lies before a.
LEMMA SortedAtEnd == OrderInv => Sorted
<1> SUFFICES ASSUME OrderInv, done, NEW i \in 1..n, NEW j \in 1..n, i < j PROVE InOrder(i, j)
  BY DEF Sorted
<1>1. n \in Nat /\ a = n
  BY LengthAssumption DEF OrderInv, OrderTypeOK
<1>2. i < a
  BY <1>1
<1> QED
  BY <1>2 DEF OrderInv, Partly

(***************************************************************************)
(* When the sort returns, no item is above a later one: for every list,    *)
(* every ranking, and whatever the comparator answers to equals.           *)
(***************************************************************************)
THEOREM OrderCorrect == OrderSpec => []Sorted
<1> QED
  BY SortBegins, SortedAtEnd, OrderStep, PTL DEF OrderSpec
-----------------------------------------------------------------------------
\* A step loses no contents and moves none that are not ranked.
LEMMA ItemsStep == OrderTypeOK /\ SameItems /\ [Compare]_orderVars => SameItems'
<1> SUFFICES ASSUME OrderTypeOK, SameItems, [Compare]_orderVars PROVE SameItems'
  OBVIOUS
<1>1. CASE Compare /\ Above(item[a], item[b])
  <2>1. n' = n /\ first' = first /\ item' = Exchanged(item) /\ from' = Exchanged(from)
    BY <1>1 DEF Compare
  <2>2. a \in 1..n /\ b \in 1..n /\ item \in [1..n -> Data] /\ from \in [1..n -> 1..n]
    BY LengthAssumption DEF OrderTypeOK
  <2>3. item'[a] = item[b] /\ item'[b] = item[a] /\ \A i \in 1..n : i # a /\ i # b => item'[i] = item[i]
    BY <2>1, <2>2, ExchangedAt
  <2>4. from'[a] = from[b] /\ from'[b] = from[a] /\ \A i \in 1..n : i # a /\ i # b => from'[i] = from[i]
    BY <2>1, <2>2, ExchangedAt
  <2>5. item[a] \in Ranked /\ item[b] \in Ranked
    BY <1>1 DEF Above
  <2>6. \A i \in 1..n : item'[i] = first[from'[i]]
    BY <2>2, <2>3, <2>4 DEF SameItems
  <2>7. \A i, j \in 1..n : from'[i] = from'[j] => i = j
    BY <2>2, <2>4 DEF SameItems
  <2>8. \A i \in 1..n : item'[i] \notin Ranked => from'[i] = i
    BY <2>2, <2>3, <2>4, <2>5 DEF SameItems
  <2> QED
    BY <2>1, <2>6, <2>7, <2>8 DEF SameItems
<1>2. CASE Compare /\ ~Above(item[a], item[b])
  BY <1>2 DEF Compare, SameItems
<1>3. CASE UNCHANGED orderVars
  BY <1>3 DEF orderVars, SameItems
<1> QED
  BY <1>1, <1>2, <1>3

(***************************************************************************)
(* The contents after the sort are a rearrangement of those before it, and *)
(* what the comparator does not rank has not moved.                        *)
(***************************************************************************)
THEOREM OrderKeepsItems == OrderSpec => []SameItems
<1>1. OrderInit => OrderTypeOK /\ SameItems
  BY InitTypes DEF OrderInit, SameItems
<1> QED
  BY <1>1, TypeStep, ItemsStep, PTL DEF OrderSpec

\* The two together: ListOrderByData and ListOrderByItem sort the list they are given.
THEOREM OrderSorts == OrderSpec => []SortsInPlace
  BY OrderCorrect, OrderKeepsItems, PTL DEF SortsInPlace
-----------------------------------------------------------------------------
(***************************************************************************)
(* The list with its sort.  No step of a sort changes a link, so the list  *)
(* of RingOrder is the list of Ring.                                       *)
(***************************************************************************)
LEMMA ListStepIsStep == [ListNext]_allVars => [Step]_vars
BY DEF ListNext, ListOperation, SortCall, SortStep, SortReturns, allVars

(***************************************************************************)
(* A list that is also sorted behaves as the list of Ring.tla: what is     *)
(* proved of the one holds of the other.                                   *)
(***************************************************************************)
THEOREM ListIsRing == ListSpec => Spec
<1>1. ListInit => Init
  BY DEF ListInit
<1> QED
  BY <1>1, ListStepIsStep, PTL DEF ListSpec, Spec

(***************************************************************************)
(* The inductive invariant of the two together: between sorts the sort's   *)
(* variables are at rest; while one runs, it counts the items of the list, *)
(* its order is kept, and its pointers are at the places it counts.        *)
(***************************************************************************)
Sorting ==
  /\ OrderInv /\ SameItems
  /\ n = Len(order)
  /\ pa \in Items /\ AtPlaces

SortInv == IF pa = NULL THEN NoSort ELSE Sorting

LEMMA SortInit == ListInit => SortInv
BY NullAssumption DEF ListInit, NoSort, SortInv

\* What the ring says of the two pointers: order[k]->Next is the first item exactly at the end.
LEMMA OnPlaces ==
  ASSUME IInv, NEW k \in 1..Len(order)
  PROVE  /\ Last # NULL /\ Next[Last] = order[1] /\ order[1] \in Items /\ order[k] \in Items
         /\ Next[order[k]] = Next[Last] <=> k = Len(order)
         /\ k # Len(order) => Next[order[k]] = order[k + 1]
<1>1. Len(order) \in Nat \ {0} /\ order # << >> /\ \A j \in 1..Len(order) : order[j] \in Items
  BY DEF IInv, TypeOK
<1>2. Last = order[Len(order)] /\ \A j \in 1..Len(order) : Next[order[j]] = order[After(j)]
  BY <1>1 DEF IInv, RingInv, Represents
<1>3. Next[Last] = order[1]
  BY <1>1, <1>2 DEF After
<1>4. \A j \in 1..Len(order) : order[j] = order[1] => j = 1
  BY <1>1 DEF IInv, RingInv, Distinct
<1>5. k # Len(order) => k + 1 \in 1..Len(order) /\ k + 1 # 1 /\ After(k) = k + 1
  BY <1>1 DEF After
<1>6. k = Len(order) => After(k) = 1
  BY DEF After
<1> QED
  BY <1>1, <1>2, <1>3, <1>4, <1>5, <1>6, NullAssumption

LEMMA SortStepInv == IInv /\ SortInv /\ [ListNext]_allVars => SortInv'
<1> SUFFICES ASSUME IInv, SortInv, [ListNext]_allVars PROVE SortInv'
  OBVIOUS
<1>1. NULL \notin Items
  BY NullAssumption
<1>2. CASE ListOperation
  BY <1>2 DEF ListOperation, orderVars, SortInv, NoSort
<1>3. CASE SortCall
  <2>1. OrderInit'
    BY <1>3 DEF SortCall, OrderInit
  <2>2. (OrderInit => OrderInv /\ SameItems)'
    BY SortBegins, PTL
  <2>3. order # << >> /\ Len(order) \in Nat
    BY <1>3 DEF SortCall, IInv, TypeOK, RingInv, Represents
  <2>4. 1 \in 1..Len(order)
    BY <2>3
  <2>5. Next[Last] = order[1] /\ order[1] \in Items
    BY <2>4, OnPlaces
  <2>6. n' = Len(order') /\ a' = 1 /\ b' = 1 /\ done' = FALSE /\ pa' = order'[1] /\ pb' = order'[1]
    BY <1>3, <2>5 DEF SortCall, vars
  <2>7. pa' \in Items
    BY <1>3, <2>5 DEF SortCall
  <2>8. AtPlaces'
    BY <2>6 DEF AtPlaces
  <2> QED
    BY <1>1, <2>1, <2>2, <2>6, <2>7, <2>8 DEF SortInv, Sorting
<1>4. CASE SortStep
  <2>1. pa # NULL /\ ~done /\ Compare /\ Loops /\ order' = order
    BY <1>4 DEF SortStep, vars
  <2>2. Sorting
    BY <2>1 DEF SortInv
  <2>3. OrderInv' /\ SameItems'
    BY <2>1, <2>2, OrderStep, ItemsStep DEF Sorting, OrderInv
  <2>4. n = Len(order) /\ pa = order[a] /\ pb = order[b] /\ n' = n
    BY <2>1, <2>2 DEF Sorting, AtPlaces, Compare
  <2>5. a \in 1..n /\ b \in 1..n /\ n \in Nat
    BY <2>2, LengthAssumption DEF Sorting, OrderInv, OrderTypeOK
  <2>6. /\ Next[Last] = order[1] /\ order[1] \in Items
        /\ Next[pa] = Next[Last] <=> a = n
        /\ Next[pb] = Next[Last] <=> b = n
        /\ a # n => Next[pa] = order[a + 1] /\ order[a + 1] \in Items
        /\ b # n => Next[pb] = order[b + 1]
    <3>1. a # n => a + 1 \in 1..n
      BY <2>5
    <3> QED
      BY <2>4, <2>5, <3>1, OnPlaces
  <2>7. CASE b # n
    <3>1. b' = b + 1 /\ a' = a /\ done' = done
      BY <2>1, <2>7, Zenon DEF Compare, Onward
    <3>2. pb' = order[b + 1] /\ pa' = pa
      BY <2>1, <2>6, <2>7 DEF Loops
    <3>3. AtPlaces' /\ pa' \in Items
      BY <2>1, <2>2, <2>4, <3>1, <3>2 DEF AtPlaces, Sorting
    <3> QED
      BY <1>1, <2>1, <2>3, <2>4, <3>3 DEF SortInv, Sorting
  <2>8. CASE b = n /\ a # n
    <3>1. a' = a + 1 /\ b' = a + 1 /\ done' = done
      <4>1. ~(b < n)
        BY <2>5, <2>8
      <4> QED
        BY <2>1, <2>8, <4>1, Zenon DEF Compare, Onward
    <3>2. pa' = order[a + 1] /\ pb' = order[a + 1]
      BY <2>1, <2>6, <2>8 DEF Loops
    <3>3. AtPlaces' /\ pa' \in Items
      BY <2>1, <2>4, <2>6, <2>8, <3>1, <3>2 DEF AtPlaces
    <3> QED
      BY <1>1, <2>1, <2>3, <2>4, <3>3 DEF SortInv, Sorting
  <2>9. CASE b = n /\ a = n
    <3>1. done'
      BY <2>1, <2>5, <2>9 DEF Compare, Onward
    <3>2. pa' = order[1] /\ pb' = order[1]
      BY <2>1, <2>6, <2>9 DEF Loops
    <3>3. AtPlaces' /\ pa' \in Items
      BY <2>1, <2>6, <3>1, <3>2 DEF AtPlaces
    <3> QED
      BY <1>1, <2>1, <2>3, <2>4, <3>3 DEF SortInv, Sorting
  <2> QED
    BY <2>7, <2>8, <2>9
<1>5. CASE SortReturns
  <2>1. done
    BY <1>5 DEF SortReturns
  <2>2. done = TRUE
    <3>1. Sorting
      BY <1>5 DEF SortReturns, SortInv
    <3>2. done \in BOOLEAN
      BY <3>1, Zenon DEF Sorting, OrderInv, OrderTypeOK
    <3> QED
      BY <2>1, <3>2
  <2> QED
    BY <1>5, <2>2 DEF SortReturns, SortInv, NoSort
<1>6. CASE UNCHANGED allVars
  <2>1. UNCHANGED <<order, pa, pb, ties, n, item, a, b, done, first, from>>
    BY <1>6 DEF allVars, vars, orderVars
  <2>2. CASE pa = NULL
    BY <2>1, <2>2 DEF SortInv, NoSort
  <2>3. CASE pa # NULL
    <3>1. Sorting /\ UNCHANGED orderVars
      BY <2>1, <2>3 DEF SortInv, orderVars
    <3>2. OrderInv' /\ SameItems'
      BY <3>1, OrderStep, ItemsStep DEF Sorting, OrderInv
    <3>3. AtPlaces'
      BY <2>1, <3>1 DEF Sorting, AtPlaces
    <3> QED
      BY <2>1, <2>3, <3>1, <3>2, <3>3 DEF SortInv, Sorting
  <2> QED
    BY <2>2, <2>3
<1> QED
  BY <1>2, <1>3, <1>4, <1>5, <1>6 DEF ListNext

\* The invariant of the list and of the sort, in every step of the two together.
LEMMA ListInvariant == ListSpec => [](IInv /\ SortInv)
<1>1. ListInit => IInv /\ SortInv
  BY RingInit, SortInit DEF ListInit
<1>2. IInv /\ SortInv /\ [ListNext]_allVars => (IInv /\ SortInv)'
  BY ListStepIsStep, RingStep, SortStepInv
<1> QED
  BY <1>1, <1>2, PTL DEF ListSpec

(***************************************************************************)
(* For every finite set of items and every comparator: whoever goes along  *)
(* the links of a list, to look an item up or to sort, meets the items at  *)
(* their places, and is back at the first when the loop ends.              *)
(***************************************************************************)
THEOREM WalksCorrect == ListSpec => []WalksAgree
<1>1. IInv /\ SortInv => WalksAgree
  <2> SUFFICES ASSUME IInv, SortInv PROVE AtPlaces /\ IndexRoundTrip
    BY DEF WalksAgree
  <2> QED
    BY LookupsAgree DEF SortInv, Sorting, AtPlaces
<1> QED
  BY <1>1, ListInvariant, PTL

(***************************************************************************)
(* Every sort of a list that is changed in between leaves the contents in  *)
(* the comparator's order, and loses and doubles none.                     *)
(***************************************************************************)
THEOREM ListSorts == ListSpec => []SortsInPlace
<1>1. SortInv => SortsInPlace
  <2> SUFFICES ASSUME SortInv PROVE Sorted /\ SameItems
    BY DEF SortsInPlace
  <2>1. CASE pa = NULL
    <3>1. n = 1 /\ first = item /\ from = <<1>>
      BY <2>1 DEF SortInv, NoSort, OnePlace
    <3>2. \A i \in 1..n : i = 1
      BY <3>1
    <3>3. from[1] = 1
      BY <3>1
    <3> QED
      BY <3>1, <3>2, <3>3 DEF Sorted, SameItems
  <2>2. CASE pa # NULL
    BY <2>2, SortedAtEnd DEF SortInv, Sorting
  <2> QED
    BY <2>1, <2>2
<1> QED
  BY <1>1, ListInvariant, PTL

(***************************************************************************)
(* The list, changed and sorted in any order of calls, is to its callers   *)
(* the sequence of ItemList.tla, and FreeList and KickList free it once.   *)
(***************************************************************************)
THEOREM ListImplements == ListSpec => []RingInv /\ ImplementsItemList /\ FreesAllOnce
  BY ListIsRing, RingCorrect, RingImplements, FreeListOnce
=============================================================================
