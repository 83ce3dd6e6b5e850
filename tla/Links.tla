------------------------------- MODULE Links --------------------------------
(***************************************************************************)
(* What the proofs about linked structures share: induction over numbers,  *)
(* walks along a link, and the rings that the children of a node form.     *)
(*                                                                         *)
(* Induction is a fact about a set, because the library's own is about an  *)
(* operator; it is derived from the fact that the finite sets of numbers   *)
(* are well-founded.                                                       *)
(***************************************************************************)
EXTENDS Integers, FiniteSetTheorems, TLAPS

\* Induction: a set that holds 0 and every successor holds all the numbers.
LEMMA SetInduction ==
  ASSUME NEW T, 0 \in T, \A k \in Nat : k \in T => k + 1 \in T
  PROVE  Nat \subseteq T
<1> DEFINE Below(x) == {z \in Nat : z < x}
           U == {Below(x) : x \in Nat \ T}
           R == StrictSubsetOrdering(Nat)
<1> SUFFICES ASSUME Nat \ T # {} PROVE FALSE
  OBVIOUS
<1>1. \A x \in Nat : Below(x) \in FiniteSubsetsOf(Nat)
  <2> SUFFICES ASSUME NEW x \in Nat PROVE IsFiniteSet(Below(x))
    BY DEF FiniteSubsetsOf
  <2>1. Below(x) = 0..(x - 1)
    OBVIOUS
  <2>2. 0 \in Int /\ x - 1 \in Int
    OBVIOUS
  <2>3. IsFiniteSet(0..(x - 1))
    BY <2>2, FS_Interval
  <2> QED
    BY <2>1, <2>3
<1>2. IsWellFoundedOn(R, FiniteSubsetsOf(Nat))
  BY FS_StrictSubsetOrderingWellFounded
<1>3. PICK u \in U : \A v \in U : ~(<<v, u>> \in R)
  <2>1. U \subseteq FiniteSubsetsOf(Nat) /\ U # {}
    BY <1>1
  <2> HIDE DEF U, R
  <2> QED
    BY <1>2, <2>1, WFMin
<1>4. PICK x \in Nat \ T : u = Below(x)
  BY <1>3
<1>5. x # 0 /\ x - 1 \in Nat /\ x - 1 \notin T
  OBVIOUS
<1>6. PICK v \in U : v = Below(x - 1)
  BY <1>5
<1>7. v \subseteq u /\ x - 1 \in u /\ x - 1 \notin v
  BY <1>4, <1>5, <1>6
<1>8. <<v, u>> \in R
  BY <1>4, <1>6, <1>7 DEF StrictSubsetOrdering
<1> QED
  BY <1>3, <1>8

\* A set of numbers that is not empty has a least one.
LEMMA LeastNumber ==
  ASSUME NEW S \in SUBSET Nat, S # {}
  PROVE  \E m \in S : \A n \in S : m <= n
<1> SUFFICES ASSUME \A m \in S : \E n \in S : ~(m <= n) PROVE FALSE
  OBVIOUS
<1> DEFINE T == {k \in Nat : \A m \in 0..k : m \notin S}
<1>1. 0 \in T
  OBVIOUS
<1>2. ASSUME NEW k \in Nat, k \in T PROVE k + 1 \in T
  <2>1. k + 1 \notin S
    <3> SUFFICES ASSUME k + 1 \in S PROVE FALSE
      OBVIOUS
    <3>1. PICK n \in S : ~(k + 1 <= n)
      OBVIOUS
    <3>2. n \in 0..k
      BY <3>1
    <3> QED
      BY <1>2, <3>2
  <2>2. \A m \in 0..(k + 1) : m = k + 1 \/ m \in 0..k
    OBVIOUS
  <2> QED
    BY <1>2, <2>1, <2>2
<1>3. Nat \subseteq T
  <2> HIDE DEF T
  <2> QED
    BY <1>1, <1>2, SetInduction
<1>4. PICK m \in S : TRUE
  OBVIOUS
<1>5. m \in T /\ m \in 0..m
  BY <1>3
<1> QED
  BY <1>5

(***************************************************************************)
(* A walk along a link: what the recursive functions of the models are.    *)
(***************************************************************************)
WalkOf(a, next, n) == CHOOSE g : g = [k \in 0..n |-> IF k = 0 THEN a ELSE next[g[k - 1]]]

\* f goes on along next from its place j to its place m.
GoesOn(f, next, j, m) == \A k \in (j + 1)..m : f[k] = next[f[k - 1]]

\* A walk over a set that the link does not leave is a function to that set.
LEMMA WalkStays ==
  ASSUME NEW V, NEW a \in V, NEW next, NEW n \in Nat, \A x \in V : n # 0 => next[x] \in V
  PROVE  /\ WalkOf(a, next, n) \in [0..n -> V] /\ WalkOf(a, next, n)[0] = a
         /\ GoesOn(WalkOf(a, next, n), next, 0, n)
<1> DEFINE f == WalkOf(a, next, n)
           Follows(g, m) == /\ g \in [0..m -> V] /\ g[0] = a
                            /\ \A k \in 1..m : g[k] = next[g[k - 1]]
           T == {m \in Nat : m <= n => \E g : Follows(g, m)}
<1>1. 0 \in T
  <2>1. Follows([k \in 0..0 |-> a], 0)
    OBVIOUS
  <2> QED
    BY <2>1
<1>2. ASSUME NEW m \in Nat, m \in T PROVE m + 1 \in T
  <2> SUFFICES ASSUME m + 1 <= n PROVE \E g : Follows(g, m + 1)
    OBVIOUS
  <2>1. PICK g : Follows(g, m)
    BY <1>2
  <2>2. g[m] \in V /\ next[g[m]] \in V
    BY <2>1
  <2> DEFINE h == [k \in 0..(m + 1) |-> IF k = m + 1 THEN next[g[m]] ELSE g[k]]
  <2>3. h \in [0..(m + 1) -> V] /\ h[0] = a
    BY <2>1, <2>2
  <2>4. ASSUME NEW k \in 1..(m + 1) PROVE h[k] = next[h[k - 1]]
    <3>1. k - 1 \in 0..m /\ h[k - 1] = g[k - 1]
      OBVIOUS
    <3>2. CASE k = m + 1
      BY <3>1, <3>2
    <3>3. CASE k # m + 1
      <4>1. k \in 1..m /\ h[k] = g[k]
        BY <3>3
      <4> QED
        BY <2>1, <3>1, <4>1
    <3> QED
      BY <3>2, <3>3
  <2> HIDE DEF h
  <2>5. Follows(h, m + 1)
    BY <2>3, <2>4
  <2> QED
    BY <2>5
<1>3. PICK g : Follows(g, n)
  <2> HIDE DEF T, Follows
  <2>1. Nat \subseteq T
    BY <1>1, <1>2, SetInduction
  <2> QED
    BY <2>1 DEF T
<1>4. g = [k \in 0..n |-> IF k = 0 THEN a ELSE next[g[k - 1]]]
  <2>1. g = [k \in 0..n |-> g[k]]
    BY <1>3
  <2>2. \A k \in 0..n : g[k] = IF k = 0 THEN a ELSE next[g[k - 1]]
    BY <1>3
  <2> QED
    BY <2>1, <2>2
<1> DEFINE E(x) == [k \in 0..n |-> IF k = 0 THEN a ELSE next[x[k - 1]]]
<1>5. g = E(g)
  BY <1>4
<1>6. f = CHOOSE x : x = E(x)
  BY DEF WalkOf
<1> HIDE DEF f
<1>7. f = E(f)
  <2> HIDE DEF E
  <2> QED
    BY <1>5, <1>6
<1>8. /\ DOMAIN f = 0..n /\ f[0] = a
      /\ \A k \in 1..n : f[k] = next[f[k - 1]]
  <2>1. \A k \in 0..n : f[k] = IF k = 0 THEN a ELSE next[f[k - 1]]
    BY <1>7
  <2>2. DOMAIN f = 0..n
    BY <1>7
  <2> QED
    BY <2>1, <2>2
<1>9. \A k \in 0..n : f[k] \in V
  <2> DEFINE U == {m \in Nat : m <= n => f[m] \in V}
  <2>1. 0 \in U
    BY <1>8
  <2>2. ASSUME NEW m \in Nat, m \in U PROVE m + 1 \in U
    <3> SUFFICES ASSUME m + 1 <= n PROVE f[m + 1] \in V
      OBVIOUS
    <3>1. m + 1 \in 1..n /\ (m + 1) - 1 = m /\ f[m] \in V
      BY <2>2
    <3> QED
      BY <1>8, <3>1
  <2> HIDE DEF U
  <2>3. Nat \subseteq U
    BY <2>1, <2>2, SetInduction
  <2> QED
    BY <2>3 DEF U
<1>10. f = [k \in 0..n |-> f[k]]
  <2> HIDE DEF E
  <2>1. f = E(f)
    BY <1>7
  <2>2. \A k \in 0..n : f[k] = IF k = 0 THEN a ELSE next[f[k - 1]]
    BY <1>8
  <2>3. [k \in 0..n |-> f[k]] = [k \in 0..n |-> IF k = 0 THEN a ELSE next[f[k - 1]]]
    BY <2>2
  <2> QED
    BY <2>1, <2>3 DEF E
<1>11. f \in [0..n -> V]
  BY <1>9, <1>10
<1>12. GoesOn(f, next, 0, n)
  <2>1. (0 + 1)..n = 1..n
    OBVIOUS
  <2> QED
    BY <1>8, <2>1 DEF GoesOn
<1> QED
  BY <1>8, <1>11, <1>12 DEF f

(***************************************************************************)
(* The children of a node are a ring through next and prev, entered at     *)
(* the node's last.  q holds the links of the elements of W, with N where  *)
(* there is none; r ranks the elements: next goes from a child to the one  *)
(* that ranks next, and from the last back to the first.                   *)
(***************************************************************************)
LinkSet(W, N) == [W -> W \cup {N}]

LinksTyped(W, N, q) ==
  /\ q.last \in LinkSet(W, N) /\ q.next \in LinkSet(W, N)
  /\ q.prev \in LinkSet(W, N) /\ q.parent \in LinkSet(W, N)

LastsIn(W, N, q) ==
  \A o \in W : q.last[o] # N => q.parent[q.last[o]] = o

RoundTrips(W, N, q) ==
  \A c \in W : q.parent[c] # N =>
    /\ q.next[c] # N /\ q.parent[q.next[c]] = q.parent[c] /\ q.prev[q.next[c]] = c
    /\ q.prev[c] # N /\ q.parent[q.prev[c]] = q.parent[c] /\ q.next[q.prev[c]] = c
    /\ q.last[q.parent[c]] # N

RankOrder(W, N, q, r) ==
  \A c, d \in W : q.parent[c] # N /\ q.parent[d] = q.parent[c] =>
    /\ r[c] = r[d] => c = d
    /\ IF c = q.last[q.parent[c]] THEN r[d] <= r[c] /\ r[q.next[c]] <= r[d]
       ELSE r[c] < r[q.next[c]] /\ (r[c] < r[d] => r[q.next[c]] <= r[d])

Ringed(W, N, q, r) ==
  /\ N \notin W /\ r \in [W -> Int]
  /\ LinksTyped(W, N, q) /\ LastsIn(W, N, q) /\ RoundTrips(W, N, q) /\ RankOrder(W, N, q, r)

KidsOf(W, q, o) == {c \in W : q.parent[c] = o}

\* A child goes; its neighbours are linked to each other.
Loses(q, z, i, N) ==
  /\ z.parent = [q.parent EXCEPT ![i] = N]
  /\ z.next = [q.next EXCEPT ![q.prev[i]] = q.next[i]]
  /\ z.prev = [q.prev EXCEPT ![q.next[i]] = q.prev[i]]
  /\ z.last = [q.last EXCEPT ![q.parent[i]] =
                 IF q.next[i] = i THEN N ELSE IF q.last[q.parent[i]] = i THEN q.prev[i]
                 ELSE q.last[q.parent[i]]]

LEMMA RingLoses ==
  ASSUME NEW W, NEW N, NEW q, NEW r, Ringed(W, N, q, r),
         NEW i \in W, q.parent[i] # N, NEW z, LinksTyped(W, N, z), Loses(q, z, i, N)
  PROVE  Ringed(W, N, z, r)
<1> DEFINE o == q.parent[i]
           a == q.prev[i]
           b == q.next[i]
<1> USE DEF Loses
<1>1. /\ N \notin W /\ o \in W /\ a \in W /\ b \in W
      /\ q.parent[a] = o /\ q.parent[b] = o /\ q.prev[b] = i /\ q.next[a] = i
  BY DEF Ringed, LinksTyped, LinkSet, RoundTrips
<1>2. a = i <=> b = i
  BY <1>1 DEF Ringed, RoundTrips
<1>3. \A c \in W : z.parent[c] # N => c # i /\ z.parent[c] = q.parent[c]
  BY DEF Ringed, LinksTyped, LinkSet
<1>4. \A c \in W \ {i} : z.parent[c] = q.parent[c]
  BY DEF Ringed, LinksTyped, LinkSet
<1>5. /\ \A c \in W : z.next[c] = IF c = a THEN b ELSE q.next[c]
      /\ \A c \in W : z.prev[c] = IF c = b THEN a ELSE q.prev[c]
  BY <1>1 DEF Ringed, LinksTyped, LinkSet
<1>6. \A p \in W : z.last[p] = IF p # o THEN q.last[p] ELSE IF b = i THEN N
                               ELSE IF q.last[o] = i THEN a ELSE q.last[o]
  BY <1>1 DEF Ringed, LinksTyped, LinkSet
<1>7. LastsIn(W, N, z)
  <2> SUFFICES ASSUME NEW p \in W, z.last[p] # N PROVE z.parent[z.last[p]] = p
    BY DEF LastsIn
  <2>1. CASE p # o
    BY <1>1, <1>4, <1>6, <2>1 DEF Ringed, LastsIn, LinksTyped, LinkSet
  <2>2. CASE p = o
    <3>1. b # i /\ a # i
      BY <1>2, <1>6, <2>2
    <3>2. CASE q.last[o] = i
      BY <1>1, <1>4, <1>6, <2>2, <3>1, <3>2
    <3>3. CASE q.last[o] # i
      BY <1>1, <1>4, <1>6, <2>2, <3>1, <3>3 DEF Ringed, LastsIn, LinksTyped, LinkSet
    <3> QED
      BY <3>2, <3>3
  <2> QED
    BY <2>1, <2>2
<1>8. RoundTrips(W, N, z)
  <2> SUFFICES ASSUME NEW c \in W, z.parent[c] # N
               PROVE  /\ z.next[c] # N /\ z.parent[z.next[c]] = z.parent[c] /\ z.prev[z.next[c]] = c
                      /\ z.prev[c] # N /\ z.parent[z.prev[c]] = z.parent[c] /\ z.next[z.prev[c]] = c
                      /\ z.last[z.parent[c]] # N
    BY DEF RoundTrips
  <2>1. c # i /\ q.parent[c] # N /\ z.parent[c] = q.parent[c] /\ q.parent[c] \in W
    BY <1>3 DEF Ringed, LinksTyped, LinkSet
  <2>2. /\ q.next[c] \in W /\ q.parent[q.next[c]] = q.parent[c] /\ q.prev[q.next[c]] = c
        /\ q.prev[c] \in W /\ q.parent[q.prev[c]] = q.parent[c] /\ q.next[q.prev[c]] = c
        /\ q.last[q.parent[c]] # N
    BY <2>1 DEF Ringed, LinksTyped, LinkSet, RoundTrips
  <2>3. /\ z.next[c] # N /\ z.parent[z.next[c]] = z.parent[c] /\ z.prev[z.next[c]] = c
    <3>1. CASE c = a
      BY <1>1, <1>2, <1>4, <1>5, <2>1, <3>1
    <3>2. CASE c # a
      <4>1. q.next[c] # i /\ q.next[c] # b
        BY <1>1, <2>1, <2>2, <3>2
      <4> QED
        BY <1>1, <1>4, <1>5, <2>1, <2>2, <3>2, <4>1
    <3> QED
      BY <3>1, <3>2
  <2>4. /\ z.prev[c] # N /\ z.parent[z.prev[c]] = z.parent[c] /\ z.next[z.prev[c]] = c
    <3>1. CASE c = b
      BY <1>1, <1>2, <1>4, <1>5, <2>1, <3>1
    <3>2. CASE c # b
      <4>1. q.prev[c] # i /\ q.prev[c] # a
        BY <1>1, <2>1, <2>2, <3>2
      <4> QED
        BY <1>1, <1>4, <1>5, <2>1, <2>2, <3>2, <4>1
    <3> QED
      BY <3>1, <3>2
  <2>5. z.last[z.parent[c]] # N
    <3>1. CASE q.parent[c] # o
      BY <1>6, <2>1, <2>2, <3>1
    <3>2. CASE q.parent[c] = o
      <4>1. b # i
        <5> SUFFICES ASSUME b = i PROVE FALSE
          OBVIOUS
        <5>1. q.last[o] = i
          BY <1>1, <2>2, <3>2 DEF Ringed, LastsIn, LinksTyped, LinkSet, RankOrder
        <5>2. r[c] \in Int /\ r[i] \in Int /\ r[c] <= r[i] /\ r[i] <= r[c]
          BY <1>1, <2>1, <3>2, <5>1 DEF Ringed, RankOrder
        <5>3. r[c] = r[i]
          BY <5>2
        <5> QED
          BY <1>1, <2>1, <3>2, <5>3 DEF Ringed, RankOrder
      <4> QED
        BY <1>1, <1>6, <2>1, <2>2, <3>2, <4>1
    <3> QED
      BY <3>1, <3>2
  <2> QED
    BY <2>3, <2>4, <2>5
<1>9. RankOrder(W, N, z, r)
  <2> SUFFICES ASSUME NEW c \in W, NEW d \in W, z.parent[c] # N, z.parent[d] = z.parent[c]
               PROVE  /\ r[c] = r[d] => c = d
                      /\ IF c = z.last[z.parent[c]] THEN r[d] <= r[c] /\ r[z.next[c]] <= r[d]
                         ELSE r[c] < r[z.next[c]] /\ (r[c] < r[d] => r[z.next[c]] <= r[d])
    BY DEF RankOrder
  <2> DEFINE p == q.parent[c]
  <2>1. /\ c # i /\ d # i /\ p # N /\ z.parent[c] = p /\ q.parent[d] = p /\ p \in W
        /\ q.next[c] \in W
    BY <1>3 DEF Ringed, LinksTyped, LinkSet, RoundTrips
  <2>2. \A x \in W : r[x] \in Int
    BY DEF Ringed
  <2>3. /\ r[c] = r[d] => c = d
        /\ IF c = q.last[p] THEN r[d] <= r[c] /\ r[q.next[c]] <= r[d]
           ELSE r[c] < r[q.next[c]] /\ (r[c] < r[d] => r[q.next[c]] <= r[d])
    BY <2>1 DEF Ringed, RankOrder
  <2>4. CASE p # o
    <3>1. c # a /\ z.last[p] = q.last[p]
      BY <1>1, <1>6, <2>1, <2>4
    <3> QED
      BY <1>5, <2>1, <2>3, <3>1
  <2>5. CASE p = o
    <3> DEFINE At(x, y) == /\ r[x] = r[y] => x = y
                           /\ IF x = q.last[o] THEN r[y] <= r[x] /\ r[q.next[x]] <= r[y]
                              ELSE r[x] < r[q.next[x]] /\ (r[x] < r[y] => r[q.next[x]] <= r[y])
    <3>1. \A x, y \in W : q.parent[x] = o /\ q.parent[y] = o => At(x, y)
      BY <1>1 DEF Ringed, RankOrder
    <3>2. At(c, d) /\ At(a, d) /\ At(i, d) /\ At(d, i) /\ At(c, i) /\ At(a, i) /\ At(i, a)
      <4> HIDE DEF At
      <4> QED
        BY <1>1, <2>1, <2>5, <3>1
    <3>3. b # i
      <4> SUFFICES ASSUME b = i PROVE FALSE
        OBVIOUS
      <4>1. q.last[o] = i
        BY <1>1, <2>2, <3>2
      <4> QED
        BY <1>1, <2>1, <2>2, <3>2, <4>1
    <3>4. CASE q.last[o] = i
      <4>1. z.last[z.parent[c]] = a
        BY <1>1, <1>6, <2>1, <2>5, <3>3, <3>4
      <4>2. CASE c = a
        <5>1. z.next[c] = b
          BY <1>5, <4>2
        <5>2. r[b] <= r[d]
          BY <3>2, <3>4
        <5>3. r[d] <= r[a]
          BY <1>1, <1>2, <2>1, <2>2, <3>2, <3>3, <3>4
        <5> QED
          BY <2>3, <4>1, <4>2, <5>1, <5>2, <5>3
      <4>3. CASE c # a
        BY <1>5, <2>1, <2>3, <2>5, <3>4, <4>1, <4>3
      <4> QED
        BY <4>2, <4>3
    <3>5. CASE q.last[o] # i
      <4>1. z.last[z.parent[c]] = q.last[o]
        BY <1>1, <1>6, <2>1, <2>5, <3>3, <3>5
      <4>2. CASE c = a
        <5>1. z.next[c] = b
          BY <1>5, <4>2
        <5>2. r[i] \in Int /\ r[d] \in Int /\ r[b] \in Int /\ r[a] \in Int /\ r[i] # r[d] /\ r[i] < r[b]
          BY <1>1, <2>1, <2>2, <3>2, <3>5
        <5>3. CASE a = q.last[o]
          <6>1. r[i] <= r[d] /\ r[d] <= r[a]
            BY <1>1, <3>2, <5>3
          <6>2. r[i] < r[d]
            BY <5>2, <6>1
          <6> QED
            BY <2>3, <3>2, <3>5, <4>1, <4>2, <5>1, <5>3, <6>1, <6>2
        <5>4. CASE a # q.last[o]
          <6>1. r[a] < r[i] /\ (r[a] < r[d] => r[i] <= r[d])
            BY <1>1, <3>2, <5>4
          <6>2. r[a] < r[b]
            BY <5>2, <6>1
          <6>3. r[a] < r[d] => r[b] <= r[d]
            <7> SUFFICES ASSUME r[a] < r[d] PROVE r[b] <= r[d]
              OBVIOUS
            <7>1. r[i] < r[d]
              BY <5>2, <6>1
            <7> QED
              BY <3>2, <3>5, <7>1
          <6> QED
            BY <2>3, <4>1, <4>2, <5>1, <5>4, <6>2, <6>3
        <5> QED
          BY <5>3, <5>4
      <4>3. CASE c # a
        BY <1>5, <2>1, <2>3, <2>5, <4>1, <4>3
      <4> QED
        BY <4>2, <4>3
    <3> QED
      BY <3>4, <3>5
  <2> QED
    BY <2>4, <2>5
<1> QED
  BY <1>7, <1>8, <1>9 DEF Ringed

\* The first child comes.
Begins(q, z, i, o) ==
  /\ z.parent = [q.parent EXCEPT ![i] = o] /\ z.last = [q.last EXCEPT ![o] = i]
  /\ z.next = [q.next EXCEPT ![i] = i] /\ z.prev = [q.prev EXCEPT ![i] = i]

LEMMA RingBegins ==
  ASSUME NEW W, NEW N, NEW q, NEW r, Ringed(W, N, q, r),
         NEW i \in W, q.parent[i] = N, NEW o \in W, q.last[o] = N,
         NEW s \in [W -> Int], \A c \in W \ {i} : s[c] = r[c],
         NEW z, LinksTyped(W, N, z), Begins(q, z, i, o)
  PROVE  Ringed(W, N, z, s)
<1> DEFINE n == s[i]
<1> USE DEF Begins
<1>1. N \notin W /\ s \in [W -> Int] /\ s[i] = n /\ n \in Int /\ \A c \in W \ {i} : s[c] = r[c]
  BY DEF Ringed
<1>2. \A c \in W : q.parent[c] # o
  BY DEF Ringed, RoundTrips
<1>3. /\ z.parent[i] = o /\ z.next[i] = i /\ z.prev[i] = i /\ z.last[o] = i
      /\ \A c \in W \ {i} : /\ z.parent[c] = q.parent[c] /\ z.parent[c] # o
                            /\ z.next[c] = q.next[c] /\ z.prev[c] = q.prev[c]
      /\ \A p \in W \ {o} : z.last[p] = q.last[p]
  BY <1>2 DEF Ringed, LinksTyped, LinkSet
<1> HIDE DEF n
<1>4. \A c \in W : q.parent[c] # N => q.parent[c] \in W \ {o} /\ q.next[c] \in W \ {i} /\ q.prev[c] \in W \ {i}
  BY <1>2 DEF Ringed, LinksTyped, LinkSet, RoundTrips
<1>5. LastsIn(W, N, z)
  BY <1>1, <1>3 DEF Ringed, LastsIn, LinksTyped, LinkSet
<1>6. RoundTrips(W, N, z)
  <2> SUFFICES ASSUME NEW c \in W, z.parent[c] # N
               PROVE  /\ z.next[c] # N /\ z.parent[z.next[c]] = z.parent[c] /\ z.prev[z.next[c]] = c
                      /\ z.prev[c] # N /\ z.parent[z.prev[c]] = z.parent[c] /\ z.next[z.prev[c]] = c
                      /\ z.last[z.parent[c]] # N
    BY DEF RoundTrips
  <2>1. CASE c = i
    BY <1>1, <1>3, <2>1
  <2>2. CASE c # i
    BY <1>3, <1>4, <2>2 DEF Ringed, RoundTrips
  <2> QED
    BY <2>1, <2>2
<1>7. RankOrder(W, N, z, s)
  <2> SUFFICES ASSUME NEW c \in W, NEW d \in W, z.parent[c] # N, z.parent[d] = z.parent[c]
               PROVE  /\ s[c] = s[d] => c = d
                      /\ IF c = z.last[z.parent[c]] THEN s[d] <= s[c] /\ s[z.next[c]] <= s[d]
                         ELSE s[c] < s[z.next[c]] /\ (s[c] < s[d] => s[z.next[c]] <= s[d])
    BY DEF RankOrder
  <2>1. CASE c = i
    <3>1. d = i
      BY <1>3, <2>1
    <3> QED
      BY <1>1, <1>3, <2>1, <3>1
  <2>2. CASE c # i
    <3>1. d # i
      BY <1>3, <2>2
    <3>2. /\ q.parent[c] # N /\ q.parent[d] = q.parent[c] /\ z.parent[c] = q.parent[c]
          /\ q.parent[c] \in W \ {o} /\ q.next[c] \in W \ {i}
      BY <1>3, <1>4, <2>2, <3>1
    <3>3. /\ r[c] = r[d] => c = d
          /\ IF c = q.last[q.parent[c]] THEN r[d] <= r[c] /\ r[q.next[c]] <= r[d]
             ELSE r[c] < r[q.next[c]] /\ (r[c] < r[d] => r[q.next[c]] <= r[d])
      BY <3>2 DEF Ringed, RankOrder
    <3> QED
      BY <1>1, <1>3, <2>2, <3>1, <3>2, <3>3
  <2> QED
    BY <2>1, <2>2
<1> QED
  BY <1>1, <1>5, <1>6, <1>7 DEF Ringed

\* A child comes between the last one and the first; it becomes the one or the other.
Gains(q, z, i, o) ==
  /\ z.parent = [q.parent EXCEPT ![i] = o]
  /\ z.next = [[q.next EXCEPT ![i] = q.next[q.last[o]]] EXCEPT ![q.last[o]] = i]
  /\ z.prev = [[q.prev EXCEPT ![i] = q.last[o]] EXCEPT ![q.next[q.last[o]]] = i]

\* It ranks below the others, and the last stays; or above them, and is the last.
AtAnEnd(W, q, z, r, s, i, o) ==
  \/ z.last = q.last /\ \A c \in W : q.parent[c] = o => s[i] < r[c]
  \/ z.last = [q.last EXCEPT ![o] = i] /\ \A c \in W : q.parent[c] = o => r[c] < s[i]

LEMMA RingGains ==
  ASSUME NEW W, NEW N, NEW q, NEW r, Ringed(W, N, q, r),
         NEW i \in W, q.parent[i] = N, NEW o \in W, q.last[o] # N,
         NEW s \in [W -> Int], \A c \in W \ {i} : s[c] = r[c],
         NEW z, LinksTyped(W, N, z), Gains(q, z, i, o), AtAnEnd(W, q, z, r, s, i, o)
  PROVE  Ringed(W, N, z, s)
<1> DEFINE n == s[i]
           l == q.last[o]
           b == q.next[l]
<1> USE DEF Gains, AtAnEnd
<1>1. N \notin W /\ s \in [W -> Int] /\ s[i] = n /\ n \in Int /\ \A c \in W \ {i} : s[c] = r[c]
  BY DEF Ringed
<1>2. l \in W /\ l # i /\ q.parent[l] = o
  BY <1>1 DEF Ringed, LinksTyped, LinkSet, LastsIn
<1>3. b \in W /\ b # i /\ q.parent[b] = o /\ q.prev[b] = l
  BY <1>1, <1>2 DEF Ringed, LinksTyped, LinkSet, RoundTrips
<1>4. /\ z.parent[i] = o /\ z.next[i] = b /\ z.prev[i] = l /\ z.next[l] = i /\ z.prev[b] = i
      /\ \A c \in W \ {i} : /\ z.parent[c] = q.parent[c]
                            /\ c # l => z.next[c] = q.next[c]
                            /\ c # b => z.prev[c] = q.prev[c]
      /\ \A p \in W \ {o} : z.last[p] = q.last[p]
      /\ z.last[o] \in {i, l}
  BY <1>2, <1>3 DEF Ringed, LinksTyped, LinkSet
<1> l = q.last[o] /\ b = q.next[l]
  OBVIOUS
<1> HIDE DEF n, l, b
<1>5. \A c \in W : q.parent[c] # N => q.parent[c] \in W /\ q.next[c] \in W \ {i} /\ q.prev[c] \in W \ {i}
  BY DEF Ringed, LinksTyped, LinkSet, RoundTrips
<1>6. LastsIn(W, N, z)
  <2> SUFFICES ASSUME NEW p \in W, z.last[p] # N PROVE z.parent[z.last[p]] = p
    BY DEF LastsIn
  <2>1. CASE p = o
    BY <1>2, <1>4, <2>1
  <2>2. CASE p # o
    <3>1. z.last[p] = q.last[p] /\ q.last[p] \in W /\ q.parent[q.last[p]] = p
      BY <1>4, <2>2 DEF Ringed, LastsIn, LinksTyped, LinkSet
    <3>2. q.last[p] # i
      BY <1>1, <3>1
    <3> QED
      BY <1>4, <3>1, <3>2
  <2> QED
    BY <2>1, <2>2
<1>7. RoundTrips(W, N, z)
  <2> SUFFICES ASSUME NEW c \in W, z.parent[c] # N
               PROVE  /\ z.next[c] # N /\ z.parent[z.next[c]] = z.parent[c] /\ z.prev[z.next[c]] = c
                      /\ z.prev[c] # N /\ z.parent[z.prev[c]] = z.parent[c] /\ z.next[z.prev[c]] = c
                      /\ z.last[z.parent[c]] # N
    BY DEF RoundTrips
  <2>1. CASE c = i
    BY <1>1, <1>2, <1>3, <1>4, <2>1
  <2>2. CASE c # i
    <3>1. /\ q.parent[c] # N /\ z.parent[c] = q.parent[c] /\ q.parent[c] \in W
          /\ q.next[c] \in W \ {i} /\ q.parent[q.next[c]] = q.parent[c] /\ q.prev[q.next[c]] = c
          /\ q.prev[c] \in W \ {i} /\ q.parent[q.prev[c]] = q.parent[c] /\ q.next[q.prev[c]] = c
          /\ q.last[q.parent[c]] # N
      BY <1>4, <1>5, <2>2 DEF Ringed, RoundTrips
    <3>2. z.next[c] # N /\ z.parent[z.next[c]] = z.parent[c] /\ z.prev[z.next[c]] = c
      <4>1. CASE c = l
        BY <1>1, <1>2, <1>4, <3>1, <4>1
      <4>2. CASE c # l
        <5>1. q.next[c] # b
          BY <1>3, <3>1, <4>2
        <5> QED
          BY <1>1, <1>4, <2>2, <3>1, <4>2, <5>1
      <4> QED
        BY <4>1, <4>2
    <3>3. z.prev[c] # N /\ z.parent[z.prev[c]] = z.parent[c] /\ z.next[z.prev[c]] = c
      <4>1. CASE c = b
        BY <1>1, <1>3, <1>4, <3>1, <4>1
      <4>2. CASE c # b
        <5>1. q.prev[c] # l
          BY <3>1, <4>2
        <5> QED
          BY <1>1, <1>4, <2>2, <3>1, <4>2, <5>1
      <4> QED
        BY <4>1, <4>2
    <3>4. z.last[z.parent[c]] # N
      BY <1>1, <1>2, <1>4, <3>1
    <3> QED
      BY <3>2, <3>3, <3>4
  <2> QED
    BY <2>1, <2>2
<1>8. RankOrder(W, N, z, s)
  <2> SUFFICES ASSUME NEW c \in W, NEW d \in W, z.parent[c] # N, z.parent[d] = z.parent[c]
               PROVE  /\ s[c] = s[d] => c = d
                      /\ IF c = z.last[z.parent[c]] THEN s[d] <= s[c] /\ s[z.next[c]] <= s[d]
                         ELSE s[c] < s[z.next[c]] /\ (s[c] < s[d] => s[z.next[c]] <= s[d])
    BY DEF RankOrder
  <2>1. \A x, y \in W : q.parent[x] # N /\ q.parent[y] = q.parent[x] =>
          /\ r[x] \in Int /\ r[y] \in Int /\ r[x] = r[y] => x = y
          /\ IF x = q.last[q.parent[x]] THEN r[y] <= r[x] /\ r[q.next[x]] <= r[y]
             ELSE r[x] < r[q.next[x]] /\ (r[x] < r[y] => r[q.next[x]] <= r[y])
    BY DEF Ringed, RankOrder
  <2>2. CASE z.parent[c] # o
    <3>1. /\ c # i /\ d # i /\ c # l /\ q.parent[c] # N /\ q.parent[d] = q.parent[c]
          /\ z.parent[c] = q.parent[c] /\ q.parent[c] \in W \ {o} /\ q.next[c] \in W \ {i}
      BY <1>2, <1>4, <1>5, <2>2
    <3>2. /\ r[c] = r[d] => c = d
          /\ IF c = q.last[q.parent[c]] THEN r[d] <= r[c] /\ r[q.next[c]] <= r[d]
             ELSE r[c] < r[q.next[c]] /\ (r[c] < r[d] => r[q.next[c]] <= r[d])
      BY <3>1 DEF Ringed, RankOrder
    <3> QED
      BY <1>1, <1>4, <3>1, <3>2
  <2>3. CASE z.parent[c] = o
    <3>1. \A x \in {c, d} \ {i} : q.parent[x] = o
      BY <1>4, <2>3
    <3>2. \A x \in W : q.parent[x] = o => /\ r[x] \in Int /\ x # i /\ s[x] = r[x]
                                         /\ r[x] <= r[l] /\ r[b] <= r[x] /\ (r[x] = r[l] => x = l)
      BY <1>1, <1>2, <1>3, <2>1 DEF Ringed
    <3>3. CASE z.last = q.last /\ \A x \in W : q.parent[x] = o => n < r[x]
      <4>1. z.last[o] = l
        BY <3>3
      <4>2. CASE c = i
        BY <1>1, <1>2, <1>3, <1>4, <2>3, <3>1, <3>2, <3>3, <4>1, <4>2
      <4>3. CASE c = l
        BY <1>1, <1>2, <1>3, <1>4, <2>3, <3>1, <3>2, <3>3, <4>1, <4>3
      <4>4. CASE c # i /\ c # l
        <5>1. q.parent[c] = o /\ z.next[c] = q.next[c] /\ q.next[c] \in W \ {i} /\ q.parent[q.next[c]] = o
          BY <1>1, <1>4, <1>5, <3>1, <4>4 DEF Ringed, RoundTrips
        <5>2. CASE d = i
          BY <1>1, <2>1, <2>3, <3>2, <3>3, <4>1, <4>4, <5>1, <5>2
        <5>3. CASE d # i
          <6>1. q.parent[d] = o
            BY <3>1, <5>3
          <6>2. /\ r[c] = r[d] => c = d
                /\ r[c] < r[q.next[c]] /\ (r[c] < r[d] => r[q.next[c]] <= r[d])
            BY <1>1, <2>1, <4>4, <5>1, <6>1
          <6> QED
            BY <1>1, <2>3, <4>1, <4>4, <5>1, <5>3, <6>1, <6>2
        <5> QED
          BY <5>2, <5>3
      <4> QED
        BY <4>2, <4>3, <4>4
    <3>4. CASE z.last = [q.last EXCEPT ![o] = i] /\ \A x \in W : q.parent[x] = o => r[x] < n
      <4>1. z.last[o] = i
        BY <3>4 DEF Ringed, LinksTyped, LinkSet
      <4>2. CASE c = i
        BY <1>1, <1>2, <1>3, <1>4, <2>3, <3>1, <3>2, <3>4, <4>1, <4>2
      <4>3. CASE c = l
        BY <1>1, <1>2, <1>3, <1>4, <2>3, <3>1, <3>2, <3>4, <4>1, <4>3
      <4>4. CASE c # i /\ c # l
        <5>1. q.parent[c] = o /\ z.next[c] = q.next[c] /\ q.next[c] \in W \ {i} /\ q.parent[q.next[c]] = o
          BY <1>1, <1>4, <1>5, <3>1, <4>4 DEF Ringed, RoundTrips
        <5>4. r[c] < r[q.next[c]]
          BY <1>1, <2>1, <4>4, <5>1
        <5>2. CASE d = i
          <6>1. s[d] = n /\ s[c] = r[c] /\ r[c] < n /\ r[q.next[c]] < n /\ s[q.next[c]] = r[q.next[c]]
                /\ n \in Int /\ r[c] \in Int /\ r[q.next[c]] \in Int
            BY <1>1, <3>2, <3>4, <4>4, <5>1, <5>2
          <6>2. s[c] # s[d] /\ s[c] < s[z.next[c]] /\ s[z.next[c]] <= s[d]
            BY <5>1, <5>4, <6>1
          <6> QED
            BY <2>3, <4>1, <4>4, <6>2
        <5>3. CASE d # i
          <6>1. q.parent[d] = o
            BY <3>1, <5>3
          <6>2. /\ r[c] = r[d] => c = d
                /\ r[c] < r[q.next[c]] /\ (r[c] < r[d] => r[q.next[c]] <= r[d])
            BY <1>1, <2>1, <4>4, <5>1, <6>1
          <6> QED
            BY <1>1, <2>3, <4>1, <4>4, <5>1, <5>3, <6>1, <6>2
        <5> QED
          BY <5>2, <5>3
      <4> QED
        BY <4>2, <4>3, <4>4
    <3> QED
      BY <3>3, <3>4 DEF n
  <2> QED
    BY <2>2, <2>3
<1> QED
  BY <1>1, <1>6, <1>7, <1>8 DEF Ringed

\* The children that rank below c.  How many there are is the place of c in the ring.
LowerKids(W, q, r, c) == {d \in W : q.parent[d] = q.parent[c] /\ r[d] < r[c]}

LEMMA RingPlaces ==
  ASSUME NEW W, IsFiniteSet(W), NEW N, NEW q, NEW r, Ringed(W, N, q, r), NEW o \in W
  PROVE  /\ Cardinality(KidsOf(W, q, o)) \in Nat
         /\ \A c \in KidsOf(W, q, o) :
              /\ Cardinality(LowerKids(W, q, r, c)) \in 0..(Cardinality(KidsOf(W, q, o)) - 1)
              /\ c = q.last[o] =>
                   /\ Cardinality(LowerKids(W, q, r, c)) = Cardinality(KidsOf(W, q, o)) - 1
                   /\ Cardinality(LowerKids(W, q, r, q.next[c])) = 0
              /\ c # q.last[o] =>
                   Cardinality(LowerKids(W, q, r, q.next[c])) = Cardinality(LowerKids(W, q, r, c)) + 1
         /\ \A c, d \in KidsOf(W, q, o) :
              r[c] < r[d] => Cardinality(LowerKids(W, q, r, c)) < Cardinality(LowerKids(W, q, r, d))
<1> DEFINE K == KidsOf(W, q, o)
           L(c) == LowerKids(W, q, r, c)
<1>1. N \notin W /\ o # N /\ \A c \in W : r[c] \in Int
  BY DEF Ringed
<1>2. IsFiniteSet(K) /\ Cardinality(K) \in Nat
  BY FS_Subset, FS_CardinalityType DEF KidsOf
<1>3. \A c \in K : IsFiniteSet(L(c)) /\ Cardinality(L(c)) \in Nat /\ L(c) \subseteq K \ {c}
  <2> SUFFICES ASSUME NEW c \in K PROVE IsFiniteSet(L(c)) /\ Cardinality(L(c)) \in Nat /\ L(c) \subseteq K \ {c}
    OBVIOUS
  <2>1. L(c) \subseteq K \ {c}
    BY <1>1 DEF KidsOf, LowerKids
  <2> QED
    BY <1>2, <2>1, FS_Subset, FS_CardinalityType
<1>4. \A c \in K : Cardinality(K \ {c}) = Cardinality(K) - 1 /\ IsFiniteSet(K \ {c})
  BY <1>2, FS_RemoveElement
<1>5. \A c \in K : q.next[c] \in K
  BY <1>1 DEF KidsOf, Ringed, RoundTrips, LinksTyped, LinkSet
<1>6. \A c, d \in K :
        /\ r[c] = r[d] => c = d
        /\ IF c = q.last[o] THEN r[d] <= r[c] /\ r[q.next[c]] <= r[d]
           ELSE r[c] < r[q.next[c]] /\ (r[c] < r[d] => r[q.next[c]] <= r[d])
  BY <1>1 DEF KidsOf, Ringed, RankOrder
<1>7. ASSUME NEW c \in K PROVE Cardinality(L(c)) \in 0..(Cardinality(K) - 1)
  <2>1. Cardinality(L(c)) <= Cardinality(K \ {c})
    BY <1>3, <1>4, FS_Subset
  <2> QED
    BY <1>2, <1>3, <1>4, <2>1
<1>8. ASSUME NEW c \in K, c = q.last[o]
      PROVE  Cardinality(L(c)) = Cardinality(K) - 1 /\ Cardinality(L(q.next[c])) = 0
  <2>1. L(c) = K \ {c}
    <3>1. \A d \in K \ {c} : r[d] < r[c]
      BY <1>1, <1>6, <1>8 DEF KidsOf
    <3> QED
      BY <1>3, <3>1 DEF KidsOf, LowerKids
  <2>2. L(q.next[c]) = {}
    <3>1. \A d \in K : ~(r[d] < r[q.next[c]])
      BY <1>1, <1>5, <1>6, <1>8 DEF KidsOf
    <3> QED
      BY <1>5, <3>1 DEF KidsOf, LowerKids
  <2> QED
    BY <1>4, <2>1, <2>2, FS_EmptySet
<1>9. ASSUME NEW c \in K, c # q.last[o]
      PROVE  Cardinality(L(q.next[c])) = Cardinality(L(c)) + 1
  <2>1. \A d \in K : r[d] < r[q.next[c]] <=> d = c \/ r[d] < r[c]
    BY <1>1, <1>5, <1>6, <1>9 DEF KidsOf
  <2>2. L(q.next[c]) = L(c) \cup {c} /\ c \notin L(c)
    BY <1>1, <1>5, <2>1 DEF KidsOf, LowerKids
  <2> QED
    BY <1>3, <2>2, FS_AddElement
<1>10. ASSUME NEW c \in K, NEW d \in K, r[c] < r[d]
       PROVE  Cardinality(L(c)) < Cardinality(L(d))
  <2>1. L(c) \cup {c} \subseteq L(d) /\ c \notin L(c)
    BY <1>1, <1>10 DEF KidsOf, LowerKids
  <2>2. Cardinality(L(c) \cup {c}) = Cardinality(L(c)) + 1
    BY <1>3, <2>1, FS_AddElement
  <2>3. Cardinality(L(c) \cup {c}) <= Cardinality(L(d))
    BY <1>3, <2>1, FS_Subset
  <2> QED
    BY <1>3, <2>2, <2>3
<1> QED
  BY <1>2, <1>7, <1>8, <1>9, <1>10

\* Two children at the same place are one.
LEMMA RingPlace ==
  ASSUME NEW W, IsFiniteSet(W), NEW N, NEW q, NEW r, Ringed(W, N, q, r), NEW o \in W,
         NEW c \in KidsOf(W, q, o), NEW d \in KidsOf(W, q, o),
         Cardinality(LowerKids(W, q, r, c)) = Cardinality(LowerKids(W, q, r, d))
  PROVE  c = d
<1>1. r[c] \in Int /\ r[d] \in Int /\ (r[c] = r[d] => c = d)
  BY DEF Ringed, RankOrder, KidsOf
<1>2. ~(r[c] < r[d]) /\ ~(r[d] < r[c])
  BY RingPlaces
<1> QED
  BY <1>1, <1>2

\* A walk that has come to the first child sees the children in their order.
LEMMA RingWalk ==
  ASSUME NEW W, IsFiniteSet(W), NEW N, NEW q, NEW r, Ringed(W, N, q, r), NEW o \in W,
         q.last[o] # N, NEW j \in Nat, NEW m \in Nat, NEW f, f[j] = q.next[q.last[o]],
         GoesOn(f, q.next, j, m)
  PROVE  \A k \in j..m : k - j < Cardinality(KidsOf(W, q, o)) =>
           f[k] \in KidsOf(W, q, o) /\ Cardinality(LowerKids(W, q, r, f[k])) = k - j
<1> DEFINE K == KidsOf(W, q, o)
           C(c) == Cardinality(LowerKids(W, q, r, c))
           T == {k \in Nat : j + k <= m /\ k < Cardinality(K) => f[j + k] \in K /\ C(f[j + k]) = k}
<1>1. N \notin W /\ o # N
  BY DEF Ringed
<1>2. q.last[o] \in K /\ \A c \in K : q.next[c] \in K
  BY <1>1 DEF KidsOf, Ringed, RoundTrips, LastsIn, LinksTyped, LinkSet
<1>3. /\ Cardinality(K) \in Nat /\ C(q.next[q.last[o]]) = 0
      /\ \A c \in K : c # q.last[o] => C(q.next[c]) = C(c) + 1
      /\ C(q.last[o]) = Cardinality(K) - 1
  BY <1>2, RingPlaces
<1> HIDE DEF K, C
<1>4. 0 \in T
  BY <1>2, <1>3
<1>5. ASSUME NEW k \in Nat, k \in T PROVE k + 1 \in T
  <2> SUFFICES ASSUME j + (k + 1) <= m, k + 1 < Cardinality(K)
               PROVE  f[j + (k + 1)] \in K /\ C(f[j + (k + 1)]) = k + 1
    OBVIOUS
  <2>1. f[j + k] \in K /\ C(f[j + k]) = k
    BY <1>3, <1>5
  <2>2. j + (k + 1) \in (j + 1)..m /\ (j + (k + 1)) - 1 = j + k
    OBVIOUS
  <2>3. f[j + (k + 1)] = q.next[f[j + k]]
    BY <2>2 DEF GoesOn
  <2>4. f[j + k] # q.last[o]
    BY <1>3, <2>1
  <2> QED
    BY <1>2, <1>3, <2>1, <2>3, <2>4
<1> HIDE DEF T
<1>6. Nat \subseteq T
  BY <1>4, <1>5, SetInduction
<1> SUFFICES ASSUME NEW k \in j..m, k - j < Cardinality(K) PROVE f[k] \in K /\ C(f[k]) = k - j
  BY DEF K, C
<1>7. k - j \in T /\ j + (k - j) = k
  BY <1>6
<1> QED
  BY <1>7 DEF T

\* All of G is freed: with a child its brothers and their parent go, and with a parent all
\* its children.
Drops(W, N, q, z, G) ==
  /\ z.last = [c \in W |-> IF c \in G THEN N ELSE q.last[c]]
  /\ z.next = [c \in W |-> IF c \in G THEN N ELSE q.next[c]]
  /\ z.prev = [c \in W |-> IF c \in G THEN N ELSE q.prev[c]]
  /\ z.parent = [c \in W |-> IF c \in G THEN N ELSE q.parent[c]]

LEMMA RingsDrop ==
  ASSUME NEW W, NEW N, NEW q, NEW r, Ringed(W, N, q, r), NEW G,
         \A c \in W : q.parent[c] # N => (c \in G <=> q.parent[c] \in G),
         NEW z, Drops(W, N, q, z, G)
  PROVE  Ringed(W, N, z, r)
<1>1. N \notin W /\ r \in [W -> Int] /\ LinksTyped(W, N, q)
  BY DEF Ringed
<1>2. LinksTyped(W, N, z)
  <2>1. /\ q.last \in [W -> W \cup {N}] /\ q.next \in [W -> W \cup {N}]
        /\ q.prev \in [W -> W \cup {N}] /\ q.parent \in [W -> W \cup {N}]
    BY <1>1 DEF LinksTyped, LinkSet
  <2>2. z.last \in [W -> W \cup {N}]
    BY <2>1 DEF Drops
  <2>3. z.next \in [W -> W \cup {N}]
    BY <2>1 DEF Drops
  <2>4. z.prev \in [W -> W \cup {N}]
    BY <2>1 DEF Drops
  <2>5. z.parent \in [W -> W \cup {N}]
    BY <2>1 DEF Drops
  <2> QED
    BY <2>2, <2>3, <2>4, <2>5 DEF LinksTyped, LinkSet
<1>3. \A c \in W : z.parent[c] # N =>
        /\ c \notin G /\ q.parent[c] # N /\ z.parent[c] = q.parent[c] /\ q.parent[c] \notin G
        /\ z.next[c] = q.next[c] /\ z.prev[c] = q.prev[c]
  BY DEF Drops
<1>4. \A c \in W : c \notin G => z.last[c] = q.last[c] /\ z.parent[c] = q.parent[c]
                                /\ z.next[c] = q.next[c] /\ z.prev[c] = q.prev[c]
  BY DEF Drops
<1>5. \A c \in W : c \in G => z.last[c] = N
  BY DEF Drops
<1>6. \A c \in W : q.parent[c] # N => q.parent[c] \in W /\ q.next[c] \in W /\ q.prev[c] \in W
  BY <1>1 DEF Ringed, RoundTrips, LinksTyped, LinkSet
<1>7. LastsIn(W, N, z)
  <2> SUFFICES ASSUME NEW o \in W, z.last[o] # N PROVE z.parent[z.last[o]] = o
    BY DEF LastsIn
  <2>1. o \notin G /\ z.last[o] = q.last[o] /\ q.last[o] \in W /\ q.parent[q.last[o]] = o
    BY <1>1, <1>4, <1>5 DEF Ringed, LastsIn, LinksTyped, LinkSet
  <2>2. q.last[o] \notin G
    BY <1>1, <2>1
  <2> QED
    BY <1>4, <2>1, <2>2
<1>8. RoundTrips(W, N, z)
  <2> SUFFICES ASSUME NEW c \in W, z.parent[c] # N
               PROVE  /\ z.next[c] # N /\ z.parent[z.next[c]] = z.parent[c] /\ z.prev[z.next[c]] = c
                      /\ z.prev[c] # N /\ z.parent[z.prev[c]] = z.parent[c] /\ z.next[z.prev[c]] = c
                      /\ z.last[z.parent[c]] # N
    BY DEF RoundTrips
  <2>1. /\ q.parent[c] # N /\ z.parent[c] = q.parent[c] /\ q.parent[c] \in W \ G
        /\ z.next[c] = q.next[c] /\ z.prev[c] = q.prev[c]
        /\ q.next[c] \in W /\ q.prev[c] \in W
    BY <1>3, <1>6
  <2>2. /\ q.parent[q.next[c]] = q.parent[c] /\ q.prev[q.next[c]] = c
        /\ q.parent[q.prev[c]] = q.parent[c] /\ q.next[q.prev[c]] = c
        /\ q.last[q.parent[c]] # N
    BY <2>1 DEF Ringed, RoundTrips
  <2>3. q.next[c] \notin G /\ q.prev[c] \notin G
    BY <2>1, <2>2
  <2> QED
    BY <1>1, <1>4, <2>1, <2>2, <2>3
<1>9. RankOrder(W, N, z, r)
  BY <1>3, <1>4, <1>6 DEF Ringed, RankOrder
<1> QED
  BY <1>1, <1>2, <1>7, <1>8, <1>9 DEF Ringed

\* Read from its last along next, a ring gives all the children, and ends at the last again.
LEMMA RingRead ==
  ASSUME NEW W, IsFiniteSet(W), NEW N, NEW q, NEW r, Ringed(W, N, q, r), NEW o \in W,
         KidsOf(W, q, o) # {}, NEW n, n = Cardinality(KidsOf(W, q, o)),
         NEW f, f = WalkOf(q.last[o], q.next, n)
  PROVE  /\ n \in Nat /\ q.last[o] \in KidsOf(W, q, o)
         /\ {f[k] : k \in 0..n} = KidsOf(W, q, o) /\ f[n] = q.last[o]
<1> DEFINE K == KidsOf(W, q, o)
           C(c) == Cardinality(LowerKids(W, q, r, c))
           l == q.last[o]
<1>1. /\ n \in Nat
      /\ \A c \in K : C(c) \in 0..(n - 1) /\ (c = l => C(c) = n - 1)
      /\ \A c, d \in K : r[c] < r[d] => C(c) < C(d)
  BY RingPlaces
<1>2. /\ N \notin W /\ LinksTyped(W, N, q) /\ LastsIn(W, N, q) /\ RoundTrips(W, N, q)
  BY DEF Ringed
<1>3. l # N
  <2>1. PICK c \in K : TRUE
    OBVIOUS
  <2>2. c \in W /\ q.parent[c] = o /\ o # N
    BY <1>2, <2>1 DEF KidsOf
  <2> QED
    BY <1>2, <2>2 DEF RoundTrips
<1>4. l \in K /\ \A c \in K : q.next[c] \in K
  <2>1. l \in W /\ q.parent[l] = o
    BY <1>2, <1>3 DEF LastsIn, LinksTyped, LinkSet
  <2>2. \A c \in K : q.next[c] \in W /\ q.parent[q.next[c]] = o
    BY <1>2 DEF RoundTrips, LinksTyped, LinkSet, KidsOf
  <2> QED
    BY <2>1, <2>2 DEF KidsOf
<1>5. f \in [0..n -> K] /\ f[0] = l /\ GoesOn(f, q.next, 0, n)
  <2> HIDE DEF K, l
  <2>1. \A c \in K : n # 0 => q.next[c] \in K
    BY <1>4
  <2>2. f = WalkOf(l, q.next, n)
    BY DEF l
  <2> QED
    BY <1>1, <1>4, <2>1, <2>2, WalkStays
<1>6. n # 0
  <2>1. C(l) \in 0..(n - 1)
    BY <1>1, <1>4
  <2> HIDE DEF C
  <2> QED
    BY <1>1, <2>1
<1>7. f[1] = q.next[l] /\ GoesOn(f, q.next, 1, n)
  <2>1. 1 \in (0 + 1)..n /\ 1 - 1 = 0 /\ \A k \in (1 + 1)..n : k \in (0 + 1)..n
    BY <1>1, <1>6
  <2> QED
    BY <1>5, <2>1 DEF GoesOn
<1>8. \A k \in 1..n : k - 1 < n => f[k] \in K /\ C(f[k]) = k - 1
  <2> HIDE DEF l
  <2>1. l = q.last[o] /\ 1 \in Nat
    BY DEF l
  <2>2. \A k \in 1..n : k - 1 < Cardinality(KidsOf(W, q, o)) =>
          f[k] \in KidsOf(W, q, o) /\ Cardinality(LowerKids(W, q, r, f[k])) = k - 1
    BY <1>1, <1>3, <1>7, <2>1, RingWalk
  <2> QED
    BY <2>2
<1>9. ASSUME NEW d \in K PROVE \E k \in 1..n : f[k] = d
  <2>1. C(d) \in 0..(n - 1)
    BY <1>1
  <2> DEFINE k == C(d) + 1
  <2>2. k \in 1..n /\ k - 1 = C(d) /\ k - 1 < n
    <3> HIDE DEF C
    <3> QED
      BY <1>1, <2>1
  <2>3. f[k] \in K /\ C(f[k]) = C(d)
    BY <1>8, <2>2
  <2>4. f[k] = d
    BY <2>3, RingPlace
  <2> QED
    BY <2>2, <2>4
<1>10. f[n] = l
  <2>1. n \in 1..n /\ n - 1 < n
    BY <1>1, <1>6
  <2>2. f[n] \in K /\ C(f[n]) = n - 1
    BY <1>8, <2>1
  <2>3. C(l) = n - 1
    BY <1>1, <1>4
  <2> QED
    BY <1>4, <2>2, <2>3, RingPlace
<1>11. {f[k] : k \in 0..n} = K
  <2>1. \A k \in 0..n : f[k] \in K
    BY <1>5
  <2>2. \A d \in K : \E k \in 0..n : f[k] = d
    <3>1. 1..n \subseteq 0..n
      BY <1>1
    <3> QED
      BY <1>9, <3>1
  <2> QED
    BY <2>1, <2>2
<1> QED
  BY <1>1, <1>4, <1>10, <1>11
=============================================================================
