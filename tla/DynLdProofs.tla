---------------------------- MODULE DynLdProofs ----------------------------
(***************************************************************************)
(* That the loader never lets a program run without the libraries it is    *)
(* linked to, for any programs and libraries, any number of them in        *)
(* memory, and polls within polls to any depth.                            *)
(*                                                                         *)
(* The count App->Users alone says too little: it is above the number of   *)
(* users after a failed load, and a library whose user is still being      *)
(* loaded has that user in no list.  The invariant therefore relates the   *)
(* activations on the stack to the tables: what each load in progress has  *)
(* taken stays in memory, and what lies above it on the stack is what it   *)
(* is waiting for.                                                         *)
(***************************************************************************)
EXTENDS DynLd, FiniteSetTheorems, FunctionTheorems, TLAPS

\* No item is in the list twice; x stands before y.
Distinct(q) == \A i, j \in 1..Len(q) : q[i] = q[j] => i = j
Before(q, x, y) == \E i, j \in 1..Len(q) : i < j /\ q[i] = x /\ q[j] = y
-----------------------------------------------------------------------------
(***************************************************************************)
(* What a list is when some of its items are gone.                         *)
(***************************************************************************)
\* The k-th smallest element of a finite set of numbers, for each k.
LEMMA Ranks ==
  ASSUME NEW kept \in SUBSET Nat, IsFiniteSet(kept)
  PROVE  LET n == Cardinality(kept)
             at == [i \in 1..n |-> CHOOSE k \in kept : Cardinality({j \in kept : j <= k}) = i]
         IN /\ n \in Nat
            /\ at \in [1..n -> kept]
            /\ \A k \in kept : \E i \in 1..n : at[i] = k
            /\ \A i, j \in 1..n : i < j => at[i] < at[j]
<1> DEFINE n == Cardinality(kept)
           upto(k) == {j \in kept : j <= k}
           rank == [k \in kept |-> Cardinality(upto(k))]
           at == [i \in 1..n |-> CHOOSE k \in kept : Cardinality({j \in kept : j <= k}) = i]
<1>1. n \in Nat
  BY FS_CardinalityType
<1>2. ASSUME NEW k \in kept
      PROVE  IsFiniteSet(upto(k)) /\ Cardinality(upto(k)) \in 1..n
  <2>1. upto(k) \in SUBSET kept
    OBVIOUS
  <2>2. IsFiniteSet(upto(k)) /\ Cardinality(upto(k)) <= n
    BY <2>1, FS_Subset
  <2>3. k \in upto(k)
    OBVIOUS
  <2>4. Cardinality(upto(k)) \in Nat /\ Cardinality(upto(k)) # 0
    <3> HIDE DEF upto
    <3> QED BY <2>2, <2>3, FS_CardinalityType, FS_EmptySet
  <2> HIDE DEF upto, n
  <2> QED BY <1>1, <2>2, <2>4
<1>3. ASSUME NEW j \in kept, NEW k \in kept, j < k
      PROVE  Cardinality(upto(j)) < Cardinality(upto(k))
  <2>1. k \notin upto(j)
    <3>1. j \in Nat /\ k \in Nat /\ ~ (k <= j)
      BY <1>3
    <3> QED BY <3>1
  <2>2. upto(j) \cup {k} \in SUBSET upto(k)
    <3>1. \A x \in upto(j) : x \in kept /\ x <= k
      BY <1>3
    <3>2. k \in kept /\ k <= k
      OBVIOUS
    <3> QED BY <3>1, <3>2
  <2> HIDE DEF upto, n
  <2>3. Cardinality(upto(j) \cup {k}) = Cardinality(upto(j)) + 1
    BY <1>2, <2>1, FS_AddElement
  <2>4. Cardinality(upto(j) \cup {k}) <= Cardinality(upto(k))
    BY <1>2, <2>2, FS_Subset
  <2> QED BY <1>2, <2>3, <2>4
<1>4. rank \in [kept -> 1..n]
  <2> HIDE DEF upto, n
  <2> QED BY <1>2
<1>5. \A j, k \in kept : rank[j] = rank[k] => j = k
  <2> SUFFICES ASSUME NEW j \in kept, NEW k \in kept, rank[j] = rank[k], j # k
               PROVE  FALSE
    OBVIOUS
  <2>1. rank[j] = Cardinality(upto(j)) /\ rank[k] = Cardinality(upto(k))
    OBVIOUS
  <2>2. j < k \/ k < j
    OBVIOUS
  <2> HIDE DEF upto, n, rank
  <2>3. Cardinality(upto(j)) \in Nat /\ Cardinality(upto(k)) \in Nat
    BY <1>1, <1>2
  <2>4. Cardinality(upto(j)) # Cardinality(upto(k))
    BY <1>3, <2>2, <2>3
  <2> QED BY <2>1, <2>4
<1>6. \A i \in 1..n : \E k \in kept : rank[k] = i
  <2>1. rank \in Injection(kept, 1..n)
    BY <1>4, <1>5 DEF Injection, IsInjective
  <2>2. IsFiniteSet(1..n) /\ Cardinality(1..n) = n
    <3> HIDE DEF n
    <3> QED BY <1>1, FS_Interval
  <2>3. rank \in Surjection(kept, 1..n)
    <3> HIDE DEF rank
    <3> QED BY <2>1, <2>2, FS_Injection
  <2> QED BY <2>3 DEF Surjection
<1>7. \A i \in 1..n : at[i] \in kept /\ rank[at[i]] = i
  <2> TAKE i \in 1..n
  <2>1. \E k \in kept : Cardinality({j \in kept : j <= k}) = i
    BY <1>6
  <2> QED BY <2>1
<1>8. at \in [1..n -> kept]
  <2> HIDE DEF n
  <2> QED BY <1>7
<1>9. \A k \in kept : \E i \in 1..n : at[i] = k
  <2> TAKE k \in kept
  <2>1. rank[k] \in 1..n
    BY <1>4
  <2> HIDE DEF rank, at
  <2> QED BY <1>5, <1>7, <2>1
<1>10. \A i, j \in 1..n : i < j => at[i] < at[j]
  <2> SUFFICES ASSUME NEW i \in 1..n, NEW j \in 1..n, i < j, ~ (at[i] < at[j])
               PROVE  FALSE
    OBVIOUS
  <2>1. at[i] \in kept /\ at[j] \in kept /\ rank[at[i]] = i /\ rank[at[j]] = j
    BY <1>7
  <2>2. at[j] < at[i] \/ at[i] = at[j]
    <3> HIDE DEF at, rank
    <3>1. at[i] \in Nat /\ at[j] \in Nat /\ ~ (at[i] < at[j])
      BY <2>1
    <3> QED BY <3>1
  <2>3. rank[at[i]] = Cardinality(upto(at[i])) /\ rank[at[j]] = Cardinality(upto(at[j]))
    <3> HIDE DEF at, upto
    <3> QED BY <2>1
  <2> HIDE DEF at, rank, upto, n
  <2>4. CASE at[j] < at[i]
    <3>1. Cardinality(upto(at[j])) < Cardinality(upto(at[i]))
      BY <1>3, <2>1, <2>4
    <3> QED BY <3>1, <2>1, <2>3
  <2>5. CASE at[i] = at[j]
    BY <2>1, <2>5
  <2> QED BY <2>2, <2>4, <2>5
<1> QED BY <1>1, <1>8, <1>9, <1>10

\* ListRemoveItem keeps the order of what it leaves.
LEMMA WithoutIs ==
  ASSUME NEW q \in Seq(Addr), NEW A
  PROVE  /\ Without(q, A) \in Seq(Addr)
         /\ SeqRange(Without(q, A)) = SeqRange(q) \ A
         /\ Distinct(q) => Distinct(Without(q, A))
         /\ \A x, y : x \notin A /\ y \notin A /\ Before(q, x, y) => Before(Without(q, A), x, y)
<1> DEFINE kept == {k \in 1..Len(q) : q[k] \notin A}
           n == Cardinality(kept)
           at == [i \in 1..n |-> CHOOSE k \in kept : Cardinality({j \in kept : j <= k}) = i]
           w == Without(q, A)
<1>1. kept \in SUBSET Nat /\ IsFiniteSet(kept)
  <2>1. IsFiniteSet(1..Len(q)) /\ kept \in SUBSET (1..Len(q)) /\ Len(q) \in Nat
    BY FS_Interval
  <2> QED BY <2>1, FS_Subset
<1>2. /\ n \in Nat /\ at \in [1..n -> kept]
      /\ \A k \in kept : \E i \in 1..n : at[i] = k
      /\ \A i, j \in 1..n : i < j => at[i] < at[j]
  <2> HIDE DEF kept
  <2> QED BY <1>1, Ranks
<1>3. w = [i \in 1..n |-> q[at[i]]]
  BY DEF Without
<1> HIDE DEF at, n, w
<1>4. \A k \in kept : k \in 1..Len(q) /\ q[k] \in Addr /\ q[k] \notin A
  OBVIOUS
<1>5. \A k \in 1..Len(q) : q[k] \notin A => k \in kept
  OBVIOUS
<1> HIDE DEF kept
<1>6. w \in Seq(Addr) /\ Len(w) = n /\ \A i \in 1..n : w[i] = q[at[i]] /\ at[i] \in kept
  <2>1. w \in [1..n -> Addr] /\ \A i \in 1..n : w[i] = q[at[i]] /\ at[i] \in kept
    BY <1>2, <1>3, <1>4
  <2> QED BY <2>1, <1>2
<1>7. SeqRange(w) = SeqRange(q) \ A
  <2>1. \A x \in SeqRange(w) : x \in SeqRange(q) \ A
    BY <1>4, <1>6 DEF SeqRange
  <2>2. \A x \in SeqRange(q) \ A : x \in SeqRange(w)
    <3> TAKE x \in SeqRange(q) \ A
    <3>1. PICK k \in 1..Len(q) : q[k] = x
      BY DEF SeqRange
    <3>2. PICK i \in 1..n : at[i] = k
      BY <1>2, <1>5, <3>1
    <3> QED BY <1>6, <3>1, <3>2 DEF SeqRange
  <2> QED BY <2>1, <2>2
<1>8. Distinct(q) => Distinct(w)
  <2> SUFFICES ASSUME Distinct(q), NEW i \in 1..n, NEW j \in 1..n, w[i] = w[j], i # j
               PROVE  FALSE
    BY <1>6 DEF Distinct
  <2>1. at[i] = at[j]
    BY <1>4, <1>6 DEF Distinct
  <2>2. i < j \/ j < i
    BY <1>2
  <2>3. at[i] \in Nat /\ at[j] \in Nat
    BY <1>1, <1>6
  <2> QED BY <1>2, <2>1, <2>2, <2>3
<1>9. ASSUME NEW x, NEW y, x \notin A, y \notin A, Before(q, x, y)
      PROVE  Before(w, x, y)
  <2>1. PICK k, m \in 1..Len(q) : k < m /\ q[k] = x /\ q[m] = y
    BY <1>9 DEF Before
  <2>2. PICK i, j \in 1..n : at[i] = k /\ at[j] = m
    BY <1>2, <1>5, <1>9, <2>1
  <2>3. i < j
    <3>1. ~ (j < i) /\ i # j
      BY <1>2, <2>1, <2>2
    <3> QED BY <3>1, <1>2
  <2> QED BY <1>6, <2>1, <2>2, <2>3 DEF Before
<1> QED BY <1>6, <1>7, <1>8, <1>9 DEF w

\* A finite set of numbers that is not empty has a least one.
LEMMA LeastExists ==
  ASSUME NEW kept \in SUBSET Nat, IsFiniteSet(kept), kept # {}
  PROVE  \E k \in kept : \A j \in kept : k <= j
<1> DEFINE n == Cardinality(kept)
           at == [i \in 1..n |-> CHOOSE k \in kept : Cardinality({j \in kept : j <= k}) = i]
<1>1. /\ n \in Nat /\ at \in [1..n -> kept]
      /\ \A k \in kept : \E i \in 1..n : at[i] = k
      /\ \A i, j \in 1..n : i < j => at[i] < at[j]
  BY Ranks
<1> HIDE DEF n, at
<1>2. 1 \in 1..n
  <2>1. PICK k \in kept : TRUE
    OBVIOUS
  <2>2. PICK i \in 1..n : at[i] = k
    BY <1>1, <2>1
  <2> QED BY <1>1, <2>2
<1>3. \A j \in kept : at[1] <= j
  <2> TAKE j \in kept
  <2>1. PICK i \in 1..n : at[i] = j
    BY <1>1
  <2>2. at[1] \in Nat /\ at[i] \in Nat
    BY <1>1, <1>2
  <2>3. i = 1 \/ 1 < i
    BY <1>1
  <2> QED BY <1>1, <1>2, <2>1, <2>2, <2>3
<1> QED BY <1>1, <1>2, <1>3

\* GetLibrary finds an item of the list with that UID, if there is one.
LEMMA GetLibraryIs ==
  ASSUME NEW s, NEW u, s.apps \in Seq(Addr)
  PROVE  LET l == GetLibrary(s, u)
         IN IF \E x \in SeqRange(s.apps) : s.app[x].prog = u
            THEN l \in SeqRange(s.apps) /\ s.app[l].prog = u
            ELSE l = NULL
<1> DEFINE n == Len(s.apps)
           at == {k \in 1..n : s.app[s.apps[k]].prog = u}
           l == GetLibrary(s, u)
<1>1. n \in Nat
  OBVIOUS
<1>2. at = {} <=> ~ \E x \in SeqRange(s.apps) : s.app[x].prog = u
  BY DEF SeqRange
<1>3. l = IF at = {} THEN NULL
          ELSE IF n \in at THEN s.apps[n]
          ELSE s.apps[CHOOSE k \in at : \A j \in at : k <= j]
  BY DEF GetLibrary
<1>4. at # {} => \E k \in at : \A j \in at : k <= j
  <2>1. at \in SUBSET (1..n) /\ at \in SUBSET Nat
    OBVIOUS
  <2>2. IsFiniteSet(1..n)
    BY <1>1, FS_Interval
  <2>3. IsFiniteSet(at)
    <3> HIDE DEF at, n
    <3> QED BY <2>1, <2>2, FS_Subset
  <2> HIDE DEF at, n
  <2> QED BY <2>1, <2>3, LeastExists
<1>5. at # {} => \E k \in at : l = s.apps[k]
  <2> HIDE DEF at, n, l
  <2> QED BY <1>3, <1>4
<1>6. \A k \in at : s.apps[k] \in SeqRange(s.apps) /\ s.app[s.apps[k]].prog = u
  BY DEF SeqRange
<1> HIDE DEF at, n, l
<1> QED BY <1>2, <1>3, <1>5, <1>6 DEF l
-----------------------------------------------------------------------------
(***************************************************************************)
(* How the programs are linked.                                            *)
(***************************************************************************)
\* A program depends on what it names, and on what that depends on.
LEMMA DependsIs ==
  /\ Depends \subseteq Programs \X Libraries
  /\ \A p \in Programs : \A q \in SeqRange(NeededLibs[p]) : q \in Libraries => <<p, q>> \in Depends
  /\ \A p \in Programs, q, r \in Libraries :
       <<p, q>> \in Depends /\ <<q, r>> \in Depends => <<p, r>> \in Depends
<1>1. Depends \subseteq Programs \X Libraries
  BY DEF Depends
<1>2. \A p \in Programs : \A q \in SeqRange(NeededLibs[p]) : q \in Libraries => <<p, q>> \in Depends
  BY DEF Depends, Direct
<1>3. ASSUME NEW p \in Programs, NEW q \in Libraries, NEW r \in Libraries,
             <<p, q>> \in Depends, <<q, r>> \in Depends
      PROVE  <<p, r>> \in Depends
  BY <1>3 DEF Depends
<1> QED BY <1>1, <1>2, <1>3

\* What holds of the direct needs, and along them, holds of all dependencies.
LEMMA DependsIsLeast ==
  ASSUME NEW R \in SUBSET (Programs \X Libraries), Direct \subseteq R,
         \A p \in Programs, q, r \in Libraries : <<p, q>> \in R /\ <<q, r>> \in R => <<p, r>> \in R
  PROVE  Depends \subseteq R
BY DEF Depends
-----------------------------------------------------------------------------
(***************************************************************************)
(* The invariant.                                                          *)
(***************************************************************************)
Application == [prog : Programs \cup {NULL},
                st : {"free", "loading", "starting", "running", "tofree"},
                users : Nat, close : BOOLEAN, host : Addr \cup {NULL}, bound : SUBSET Addr]
Activation == [kind : {"load", "main", "handler", "dialog", "tcp"}, app : Addr, next : Nat]

Typed ==
  /\ app \in [Addr -> Application]
  /\ apps \in Seq(Addr)
  /\ \A y \in symbols : y.home \in Addr /\ y.owner \in Addr \cup {NULL}
  /\ stack \in Seq(Activation)
  /\ ret \in {"ok", "fail", "none"}
  /\ phase \in {"boot", "up", "down", "halted"}
  /\ pos \in Nat /\ GSExit \in BOOLEAN

Libs(a) == NeededLibs[app[a].prog]
IsLib(a) == app[a].prog \in Libraries

\* Applications and the states of its items agree; a library is in memory once.
EntriesOK ==
  /\ \A a \in Addr : IF app[a].st = "free" THEN app[a] = Blank ELSE app[a].prog \in Programs
  /\ \A a \in Addr : Listed(a) <=> app[a].st \in {"starting", "running", "tofree"}
  /\ Distinct(apps)
  /\ \A l, m \in Addr : IsLib(l) /\ app[l].prog = app[m].prog => l = m

Calls(k) == stack[k].kind \in {"load", "main"}
Loads(k, a) == stack[k].kind = "load" /\ stack[k].app = a
Starting(k, a) == stack[k].kind = "main" /\ stack[k].app = a

\* Each activation: only a program's Main polls, DynLdTCP polls nothing.
ActivationsOK ==
  \A k \in 1..Len(stack) :
    /\ stack[k].kind = "tcp" => k = Len(stack)
    /\ stack[k].kind = "load" =>
         /\ app[stack[k].app].st = "loading"
         /\ stack[k].next \in 1..(Len(Libs(stack[k].app)) + 1)
    /\ stack[k].kind = "main" =>
         /\ app[stack[k].app].st = "starting"
         /\ IsLib(stack[k].app) => k = Len(stack)

\* Two activations: above a load there is only what the load depends on.
NestingOK ==
  /\ \A k, m \in 1..Len(stack) : Calls(k) /\ Calls(m) /\ stack[k].app = stack[m].app => k = m
  /\ \A k, m \in 1..Len(stack) : stack[k].kind = "load" /\ k < m =>
       Calls(m) /\ <<app[stack[k].app].prog, app[stack[m].app].prog>> \in Depends
  /\ \A k \in 1..Len(stack) : stack[k].kind = "load" /\ k < Len(stack) =>
       /\ stack[k].next <= Len(Libs(stack[k].app))
       /\ app[stack[k + 1].app].prog = Libs(stack[k].app)[stack[k].next]

\* What is being loaded is so by an activation, and so is a library that starts.
InProgress ==
  \A a \in Addr :
    /\ app[a].st = "loading" => \E k \in 1..Len(stack) : Loads(k, a)
    /\ app[a].st = "starting" /\ IsLib(a) => \E k \in 1..Len(stack) : Starting(k, a)

RetOK ==
  /\ ret # "none" => Running("load")
  /\ ret = "ok" => /\ Top.next <= Len(Libs(Top.app))
                   /\ \E l \in Addr : /\ app[l].prog = Libs(Top.app)[Top.next]
                                      /\ app[l].st = "running"

\* A hosted program is no library, its host is a console in the list with no host.
HostsOK ==
  /\ \A b \in Addr : app[b].host # NULL =>
       /\ ~IsLib(b) /\ Listed(app[b].host)
       /\ app[app[b].host].prog \in Consoles /\ app[app[b].host].host = NULL
  /\ \A b, c \in Addr : app[b].host # NULL /\ app[b].host = app[c].host => b = c
  /\ \A a \in Addr : app[a].st = "tofree" => app[a].prog \notin Consoles

\* The calls of a hosted program lie above its host's Main.
HostBelow ==
  \A j, k \in 1..Len(stack) :
    Calls(k) /\ Starting(j, app[stack[k].app].host) => j < k

SymbolsOK ==
  \A y \in symbols : /\ app[y.home].st = "running" /\ IsLib(y.home)
                     /\ \/ y.owner = y.home /\ y.name \in AppExports[app[y.home].prog]
                        \/ y.owner = NULL /\ y.name \in SysExports[app[y.home].prog]

\* The libraries the load at k has taken; what has just returned is taken.
Taken(k) ==
  {Libs(stack[k].app)[j] :
     j \in 1..(IF ret = "ok" /\ k = Len(stack) THEN stack[k].next ELSE stack[k].next - 1)}
Takes(a, q) ==
  \/ Listed(a) /\ q \in SeqRange(Libs(a))
  \/ \E k \in 1..Len(stack) : Loads(k, a) /\ q \in Taken(k)
Holders(q) == {a \in Addr : Takes(a, q)}

Runs(q) == \E l \in Addr : app[l].prog = q /\ app[l].st = "running"
Stays(q) == \E l \in Addr : app[l].prog = q /\ app[l].st \in {"running", "tofree"}

\* AUTOLIB or STARTUP has named the library q; RegistryLoadLibraries is one of its users.
Booted(q) ==
  /\ phase \in {"boot", "up"} /\ q \in Libraries
  /\ \E i \in 1..Len(BootList) : BootList[i] = q /\ (phase = "boot" => i < pos)
Booting(q) == phase = "boot" /\ stack # << >> /\ app[stack[1].app].prog = q
Boots(q) == IF Booted(q) THEN 1 ELSE 0

BootsOK == \A q \in Libraries : Booted(q) => Runs(q) \/ Booting(q)

\* What is in the list has its libraries, what is being loaded those it has taken.
NeedsRun ==
  /\ \A a \in Addr : Listed(a) => \A q \in SeqRange(Libs(a)) : Runs(q)
  /\ \A k \in 1..Len(stack) : stack[k].kind = "load" => \A q \in Taken(k) : Stays(q)

UsersOK ==
  \A l \in Addr : app[l].st = "running" /\ IsLib(l) =>
    app[l].users >= Cardinality(Holders(app[l].prog)) + Boots(app[l].prog)

\* What an application is linked to runs, is depended on, and stands before it.
LinksOK ==
  \A a \in Addr : Listed(a) => \A h \in app[a].bound :
    /\ app[h].st = "running" /\ <<app[a].prog, app[h].prog>> \in Depends
    /\ Before(apps, h, a)

Open(a) == app[a].st \in {"loading", "starting", "running"}

PhasesOK ==
  /\ \A a \in Addr : app[a].st = "tofree" => ~app[a].close
  /\ phase \in {"boot", "up"} => \A a \in Addr : Open(a) => app[a].close
  /\ phase \in {"down", "halted"} => stack = << >> /\ ret = "none"
  /\ phase = "boot" =>
       /\ ret # "fail" /\ pos \in 1..(Len(BootList) + 1)
       /\ \A a \in Addr : app[a].st # "tofree"
       /\ \A k \in 1..Len(stack) : Calls(k)
  /\ phase = "down" =>
       /\ pos \in 0..Len(apps)
       /\ \A i \in 1..Len(apps) : /\ i > pos => ~app[apps[i]].close
                                  /\ i <= pos /\ Open(apps[i]) => app[apps[i]].close
  /\ phase = "halted" => apps = << >>

Inv ==
  /\ Typed /\ EntriesOK /\ ActivationsOK /\ NestingOK /\ InProgress /\ RetOK
  /\ HostsOK /\ HostBelow /\ SymbolsOK /\ NeedsRun /\ BootsOK /\ UsersOK /\ LinksOK /\ PhasesOK

(***************************************************************************)
(* What the proofs assume.  SoundlyLinked says how the programs are        *)
(* linked.  The bound is that a console has at most one program in memory  *)
(* that it has launched: of two at the end of the list FreeHostedApp       *)
(* misses one, which then keeps the address of a host that is gone, and    *)
(* the loader is wrong.                                                    *)
(***************************************************************************)
Sound == SoundlyLinked /\ MaxHosted <= 1
-----------------------------------------------------------------------------
(***************************************************************************)
(* The stack is cut back, or keeps its length, or a handler or DynLdTCP is *)
(* called on top of what polls.                                            *)
(***************************************************************************)
KeptCall(k) ==
  /\ app'[stack[k].app].prog = app[stack[k].app].prog
  /\ app'[stack[k].app].st = app[stack[k].app].st
  /\ app'[stack[k].app].host = app[stack[k].app].host

CutTo(n) ==
  /\ n \in 0..Len(stack) /\ Len(stack') \in {n, n + 1}
  /\ \A k \in 1..n : stack'[k] = stack[k] /\ (Calls(k) => KeptCall(k))
  /\ Len(stack') = n + 1 =>
       /\ stack'[n + 1].kind \in {"handler", "dialog", "tcp"}
       /\ \A k \in 1..n : /\ stack[k].kind \notin {"load", "tcp"}
                          /\ stack[k].kind = "main" => ~IsLib(stack[k].app)

\* Cutting the stack back keeps what the invariant says of it.
LEMMA CutKeepsStack ==
  ASSUME Typed, Typed', ActivationsOK, NestingOK, HostBelow, NEW n \in Nat, CutTo(n)
  PROVE  ActivationsOK' /\ NestingOK' /\ HostBelow'
<1>1. Len(stack) \in Nat /\ Len(stack') \in Nat
  BY DEF Typed
<1>2. \A k \in 1..Len(stack') : k \in 1..n \/ (k = n + 1 /\ stack'[k].kind \in {"handler", "dialog", "tcp"})
  BY <1>1 DEF CutTo
<1>3. ASSUME NEW k \in 1..n
      PROVE  /\ k \in 1..Len(stack) /\ stack'[k] = stack[k]
             /\ Calls(k)' = Calls(k) /\ (Calls(k) => KeptCall(k))
  BY <1>1 DEF CutTo, Calls
<1>4. ActivationsOK'
  <2> SUFFICES ASSUME NEW k \in 1..Len(stack')
               PROVE  /\ stack'[k].kind = "tcp" => k = Len(stack')
                      /\ stack'[k].kind = "load" =>
                           /\ app'[stack'[k].app].st = "loading"
                           /\ stack'[k].next \in 1..(Len(NeededLibs[app'[stack'[k].app].prog]) + 1)
                      /\ stack'[k].kind = "main" =>
                           /\ app'[stack'[k].app].st = "starting"
                           /\ app'[stack'[k].app].prog \in Libraries => k = Len(stack')
    BY DEF ActivationsOK, Libs, IsLib
  <2>1. CASE k = n + 1
    BY <1>1, <1>2, <2>1 DEF CutTo
  <2>2. CASE k \in 1..n
    <3>1. /\ stack[k].kind = "tcp" => k = Len(stack)
          /\ stack[k].kind = "load" =>
                           /\ app[stack[k].app].st = "loading"
                           /\ stack[k].next \in 1..(Len(Libs(stack[k].app)) + 1)
          /\ stack[k].kind = "main" =>
                           /\ app[stack[k].app].st = "starting"
                           /\ IsLib(stack[k].app) => k = Len(stack)
      BY <1>3, <2>2 DEF ActivationsOK
    <3>2. stack'[k] = stack[k] /\ k \in 1..Len(stack)
      BY <1>3, <2>2
    <3>3. stack[k].kind \in {"load", "main"} => KeptCall(k)
      BY <1>3, <2>2 DEF Calls
    <3>4. k = Len(stack) => n = Len(stack)
      BY <1>1, <2>2 DEF CutTo
    <3>5. n = Len(stack) /\ k = n =>
            \/ k = Len(stack')
            \/ stack[k].kind # "tcp" /\ (stack[k].kind = "main" => ~IsLib(stack[k].app))
      BY <1>1, <2>2 DEF CutTo
    <3> QED BY <3>1, <3>2, <3>3, <3>4, <3>5 DEF KeptCall, Libs, IsLib
  <2> QED BY <1>2, <2>1, <2>2
<1>5. NestingOK'
  <2>1. ASSUME NEW k \in 1..Len(stack'), NEW m \in 1..Len(stack'), Calls(k)', Calls(m)',
               stack'[k].app = stack'[m].app
        PROVE  k = m
    <3>1. k \in 1..n /\ m \in 1..n
      BY <1>2, <2>1 DEF Calls
    <3> QED BY <1>3, <2>1, <3>1 DEF NestingOK
  <2>2. ASSUME NEW k \in 1..Len(stack'), NEW m \in 1..Len(stack'), stack'[k].kind = "load", k < m
        PROVE  Calls(m)' /\ <<app'[stack'[k].app].prog, app'[stack'[m].app].prog>> \in Depends
    <3>1. k \in 1..n /\ stack[k].kind = "load"
      BY <1>2, <1>3, <2>2
    <3>2. m \in 1..n
      BY <1>1, <1>2, <2>2, <3>1 DEF CutTo
    <3>3. Calls(k) /\ Calls(m) /\ <<app[stack[k].app].prog, app[stack[m].app].prog>> \in Depends
      BY <1>3, <2>2, <3>1, <3>2 DEF NestingOK, Calls
    <3> QED BY <1>3, <3>1, <3>2, <3>3 DEF KeptCall
  <2>3. ASSUME NEW k \in 1..Len(stack'), stack'[k].kind = "load", k < Len(stack')
        PROVE  /\ stack'[k].next <= Len(NeededLibs[app'[stack'[k].app].prog])
               /\ app'[stack'[k + 1].app].prog = NeededLibs[app'[stack'[k].app].prog][stack'[k].next]
    <3>1. k \in 1..n /\ stack[k].kind = "load" /\ k + 1 \in 1..n
      BY <1>1, <1>2, <1>3, <2>3 DEF CutTo
    <3>2. k < k + 1 /\ k + 1 \in 1..Len(stack) /\ k < Len(stack)
      BY <1>1, <1>3, <3>1
    <3>4. Calls(k) /\ Calls(k + 1)
      BY <1>3, <3>1, <3>2 DEF NestingOK, Calls
    <3>3. /\ stack[k].next <= Len(Libs(stack[k].app))
          /\ app[stack[k + 1].app].prog = Libs(stack[k].app)[stack[k].next]
      BY <1>3, <3>1, <3>2 DEF NestingOK
    <3>5. /\ stack'[k] = stack[k] /\ stack'[k + 1] = stack[k + 1]
          /\ KeptCall(k) /\ KeptCall(k + 1)
      BY <1>3, <3>1, <3>4
    <3> QED BY <3>3, <3>5 DEF KeptCall, Libs
  <2> QED BY <2>1, <2>2, <2>3 DEF NestingOK, Libs
<1>6. HostBelow'
  <2> SUFFICES ASSUME NEW j \in 1..Len(stack'), NEW k \in 1..Len(stack'), Calls(k)',
                      stack'[j].kind = "main", stack'[j].app = app'[stack'[k].app].host
               PROVE  j < k
    BY DEF HostBelow, Starting
  <2>1. j \in 1..n /\ k \in 1..n
    BY <1>2 DEF Calls
  <2> QED BY <1>3, <2>1 DEF HostBelow, Starting, KeptCall
<1> QED BY <1>4, <1>5, <1>6

\* What a cut stack has been returned is the call that has ended.
LEMMA CutKeepsRet ==
  ASSUME Typed, NestingOK, NEW n \in Nat, CutTo(n),
         ret' # "none" => n > 0 /\ Len(stack') = n /\ stack[n].kind = "load",
         ret' = "ok" => /\ n < Len(stack)
                        /\ \E l \in Addr : /\ app'[l].prog = app[stack[n + 1].app].prog
                                           /\ app'[l].st = "running"
  PROVE  RetOK'
<1> SUFFICES ASSUME ret' # "none"
             PROVE  /\ stack' # << >> /\ stack'[Len(stack')].kind = "load"
                    /\ ret' = "ok" =>
                         /\ stack'[n].next <= Len(NeededLibs[app'[stack'[n].app].prog])
                         /\ \E l \in Addr :
                              /\ app'[l].prog = NeededLibs[app'[stack'[n].app].prog][stack'[n].next]
                              /\ app'[l].st = "running"
  BY DEF RetOK, Running, Top, Libs
<1>1. n \in 1..n /\ Len(stack') = n /\ stack'[n] = stack[n] /\ stack[n].kind = "load" /\ KeptCall(n)
  BY DEF CutTo, Calls
<1>2. ret' = "ok" => /\ n \in 1..Len(stack) /\ n < Len(stack)
                     /\ stack[n].next <= Len(Libs(stack[n].app))
                     /\ app[stack[n + 1].app].prog = Libs(stack[n].app)[stack[n].next]
  BY <1>1 DEF NestingOK, Typed
<1>3. stack' # << >>
  BY <1>1
<1> QED BY <1>1, <1>2, <1>3 DEF KeptCall, Libs

\* What the loads kept have taken is what they had.
LEMMA CutKeepsTaken ==
  ASSUME Typed, NEW n \in Nat, CutTo(n), ret # "ok", ret' # "ok"
  PROVE  /\ \A k \in 1..Len(stack') : stack'[k].kind = "load" =>
              k \in 1..Len(stack) /\ stack[k].kind = "load" /\ stack'[k] = stack[k] /\ Taken(k)' = Taken(k)
         /\ \A q : \A a \in Addr : Takes(a, q)' => \/ Takes(a, q)
                                              \/ (Listed(a)' /\ q \in SeqRange(NeededLibs[app'[a].prog]))
<1>1. ASSUME NEW k \in 1..Len(stack'), stack'[k].kind = "load"
      PROVE  k \in 1..Len(stack) /\ stack[k].kind = "load" /\ stack'[k] = stack[k] /\ Taken(k)' = Taken(k)
  <2>1. k \in 1..n /\ n <= Len(stack) /\ Len(stack) \in Nat
    BY <1>1 DEF CutTo, Typed
  <2>2. k \in 1..Len(stack) /\ stack'[k] = stack[k] /\ stack[k].kind = "load" /\ KeptCall(k)
    BY <1>1, <2>1 DEF CutTo, Calls
  <2>3. NeededLibs[app'[stack'[k].app].prog] = Libs(stack[k].app)
    BY <2>2 DEF KeptCall, Libs
  <2>4. Taken(k) = {Libs(stack[k].app)[j] : j \in 1..(stack[k].next - 1)}
    BY DEF Taken
  <2>5. Taken(k)' = {NeededLibs[app'[stack'[k].app].prog][j] : j \in 1..(stack'[k].next - 1)}
    BY DEF Taken, Libs
  <2> QED BY <2>2, <2>3, <2>4, <2>5
<1>2. ASSUME NEW a \in Addr, NEW q, Takes(a, q)'
      PROVE  Takes(a, q) \/ (Listed(a)' /\ q \in SeqRange(NeededLibs[app'[a].prog]))
  <2> SUFFICES ASSUME NEW k \in 1..Len(stack'), stack'[k].kind = "load", stack'[k].app = a, q \in Taken(k)'
               PROVE  Takes(a, q)
    BY <1>2 DEF Takes, Loads, Libs
  <2> QED BY <1>1 DEF Takes, Loads
<1> QED BY <1>1, <1>2

\* Holders is finite, so that it can be counted.
LEMMA HoldersFinite ==
  ASSUME NEW q
  PROVE  IsFiniteSet(Holders(q)) /\ Cardinality(Holders(q)) \in Nat
<1>1. Holders(q) \in SUBSET Addr
  BY DEF Holders
<1>2. IsFiniteSet(Holders(q))
  BY <1>1, ProgramsAssumption, FS_Subset
<1> QED BY <1>2, FS_CardinalityType

\* Where nobody takes hold of a library its holders are no more than before.
LEMMA FewerHolders ==
  ASSUME NEW q, \A a \in Addr : Takes(a, q)' => Takes(a, q)
  PROVE  /\ Holders(q)' \in SUBSET Holders(q)
         /\ Cardinality(Holders(q)') \in Nat /\ Cardinality(Holders(q)') <= Cardinality(Holders(q))
<1>1. Holders(q)' \in SUBSET Holders(q)
  BY DEF Holders
<1>2. IsFiniteSet(Holders(q))
  BY HoldersFinite
<1> QED BY <1>1, <1>2, FS_Subset, FS_CardinalityType

\* Within the boot and after it the same libraries are booted.
LEMMA BootsAre ==
  /\ \A q : Boots(q) \in {0, 1} /\ Boots(q)' \in {0, 1} /\ (Booted(q) => Boots(q) = 1)
  /\ phase' = phase /\ pos' = pos => \A q : (Booted(q)' <=> Booted(q)) /\ Boots(q)' = Boots(q)
BY DEF Boots, Booted

\* RegistryLoadLibraries takes the next entry of the boot list.
BootsNext(p) ==
  /\ phase = "boot" /\ stack = << >>
  /\ pos <= Len(BootList) /\ p = BootList[pos] /\ pos' = pos + 1

\* A step of RegistryLoadLibraries boots the library it is at, no other.
LEMMA BootedNext ==
  ASSUME Inv, phase' = phase, NEW p, BootsNext(p), NEW q, Booted(q)'
  PROVE  Booted(q) \/ q = p
<1>1. /\ q \in Libraries /\ pos \in Nat /\ phase = "boot"
  BY DEF Booted, BootsNext, Inv, Typed
<1>2. PICK i \in 1..Len(BootList) : BootList[i] = q /\ i < pos + 1
  BY <1>1 DEF Booted, BootsNext
<1>3. i < pos \/ i = pos
  BY <1>1, <1>2
<1> QED BY <1>1, <1>2, <1>3 DEF Booted, BootsNext

\* While RegistryLoadLibraries does not go on, its libraries only have to go on running.
LEMMA BootsKept ==
  ASSUME BootsOK, phase' = phase, pos' = pos, \A q : Runs(q) => Runs(q)',
         phase = "boot" => \A q : Booting(q) => Booting(q)' \/ Runs(q)'
  PROVE  BootsOK'
<1> SUFFICES ASSUME NEW q \in Libraries, Booted(q)'
             PROVE  Runs(q)' \/ Booting(q)'
  BY DEF BootsOK
<1>1. Booted(q)
  BY BootsAre
<1>2. Runs(q) \/ Booting(q)
  BY <1>1 DEF BootsOK
<1> QED BY <1>2 DEF Booting

\* Nobody takes hold of a library, and no library that runs loses a user.
LEMMA UsersKept ==
  ASSUME Inv, Typed', phase' = phase, pos' = pos,
         \A q : \A a \in Addr : Takes(a, q)' => Takes(a, q),
         \A l \in Addr : app'[l].st = "running" =>
           app[l].st = "running" /\ app'[l].prog = app[l].prog /\ app'[l].users >= app[l].users
  PROVE  UsersOK'
<1> SUFFICES ASSUME NEW l \in Addr, app'[l].st = "running", NEW q, q = app'[l].prog, q \in Libraries
             PROVE  app'[l].users >= Cardinality(Holders(q)') + Boots(q)'
  BY DEF UsersOK, IsLib
<1>1. app[l].st = "running" /\ app[l].prog = q /\ app'[l].users >= app[l].users
  OBVIOUS
<1>2. app[l].users >= Cardinality(Holders(q)) + Boots(q)
  BY <1>1 DEF Inv, UsersOK, IsLib
<1>3. app[l].users \in Nat /\ app'[l].users \in Nat
  BY DEF Inv, Typed, Application
<1>4. /\ Cardinality(Holders(q)') <= Cardinality(Holders(q))
      /\ Cardinality(Holders(q)') \in Nat /\ Cardinality(Holders(q)) \in Nat
  BY FewerHolders, HoldersFinite
<1>5. Boots(q)' = Boots(q) /\ Boots(q) \in Nat
  BY BootsAre
<1> QED BY <1>1, <1>2, <1>3, <1>4, <1>5

(***************************************************************************)
(* Steps that leave the loader's tables alone.                             *)
(***************************************************************************)
LEMMA StackStep ==
  ASSUME Inv, Typed', NEW n \in Nat, CutTo(n), UNCHANGED <<tables, phase, pos>>,
         phase = "up", ret # "ok", ret' # "ok",
         \A k \in 1..Len(stack) : k > n => ~Calls(k),
         ret' # "none" => n > 0 /\ Len(stack') = n /\ stack[n].kind = "load"
  PROVE  Inv'
<1>1. app' = app /\ apps' = apps /\ symbols' = symbols
  BY DEF tables
<1>2. ActivationsOK' /\ NestingOK' /\ HostBelow' /\ RetOK'
  BY CutKeepsStack, CutKeepsRet DEF Inv
<1>3. EntriesOK' /\ HostsOK' /\ SymbolsOK' /\ LinksOK'
  BY <1>1 DEF Inv, EntriesOK, HostsOK, SymbolsOK, LinksOK, Listed, IsLib
<1>4. InProgress'
  <2>1. \A k \in 1..Len(stack) : Calls(k) => k \in 1..Len(stack') /\ stack'[k] = stack[k]
    BY DEF CutTo, Typed, Inv
  <2> QED BY <1>1, <2>1 DEF Inv, InProgress, Loads, Starting, Calls, IsLib
<1>5. NeedsRun'
  BY <1>1, CutKeepsTaken DEF Inv, NeedsRun, Listed, Libs, Runs, Stays
<1>6. UsersOK'
  <2>1. \A q : \A a \in Addr : Takes(a, q)' => Takes(a, q)
    BY <1>1, CutKeepsTaken DEF Inv, Takes, Listed, Libs
  <2>2. \A l \in Addr : app[l].users \in Nat
    BY DEF Inv, Typed, Application
  <2> QED BY <1>1, <2>1, <2>2, UsersKept
<1>7. PhasesOK'
  BY <1>1 DEF Inv, PhasesOK, Open
<1>8. BootsOK'
  BY <1>1, BootsKept DEF Inv, Runs
<1> QED BY <1>2, <1>3, <1>4, <1>5, <1>6, <1>7, <1>8 DEF Inv
-----------------------------------------------------------------------------
(***************************************************************************)
(* DynLdRunEx takes a TApplication: for a program of the user's or of the  *)
(* boot list, or for the next library of the load at the top.              *)
(***************************************************************************)
LoadsAtTop(p) ==
  /\ Running("load") /\ p \in Libraries
  /\ Top.next <= Len(Libs(Top.app)) /\ p = Libs(Top.app)[Top.next]

PollsAtTop ==
  \A k \in 1..Len(stack) : /\ stack[k].kind \notin {"load", "tcp"}
                           /\ stack[k].kind = "main" => ~IsLib(stack[k].app)

HostFor(p, h) ==
  /\ p \notin Libraries /\ Listed(h) /\ app[h].prog \in Consoles /\ app[h].host = NULL
  /\ \A b \in Addr : app[b].host # h

Fresh(p, h) ==
  [Blank EXCEPT !.prog = p, !.st = "loading", !.close = TRUE, !.host = h]

\* Boot, LoadNextLibrary, Run, RunHosted: DynLdRunEx begins to load a program.
LEMMA AllocatesStep ==
  ASSUME Inv, NEW a \in Addr, NEW p \in Programs, NEW h \in Addr \cup {NULL},
         Allocates(a, p, h), UNCHANGED <<phase, GSExit>>, phase \in {"boot", "up"}, ret = "none",
         p \in Libraries => \A x \in Addr : app[x].prog # p,
         h # NULL => HostFor(p, h),
         PollsAtTop \/ LoadsAtTop(p),
         pos' = pos \/ BootsNext(p)
  PROVE  Inv'
<1> DEFINE n == Len(stack)
<1>1. /\ app[a].st = "free" /\ apps' = apps /\ symbols' = symbols /\ ret' = "none"
      /\ \A x \in Addr : app'[x] = IF x = a THEN Fresh(p, h) ELSE app[x]
      /\ app' \in [Addr -> Application]
  <2>1. /\ app[a].st = "free" /\ apps' = apps /\ symbols' = symbols /\ ret' = "none"
        /\ app' = [app EXCEPT ![a] = Fresh(p, h)]
    BY DEF Allocates, Fresh
  <2>2. app \in [Addr -> Application] /\ Fresh(p, h) \in Application
    BY DEF Inv, Typed, Application, Fresh, Blank
  <2> HIDE DEF Fresh
  <2> QED BY <2>1, <2>2
<1>2. /\ stack' \in Seq(Activation) /\ n \in Nat /\ Len(stack') = n + 1
      /\ \A k \in 1..n : stack'[k] = stack[k]
      /\ stack'[n + 1] = [kind |-> "load", app |-> a, next |-> 1]
      /\ \A k \in 1..Len(stack') : k \in 1..n \/ k = n + 1
  BY DEF Allocates, Inv, Typed, Activation
<1>3. /\ app'[a].prog = p /\ app'[a].st = "loading" /\ app'[a].close /\ app'[a].host = h
      /\ \A x \in Addr : x # a => app'[x] = app[x]
  BY <1>1 DEF Fresh, Blank
<1>4. app[a] = Blank /\ ~Listed(a)
  BY <1>1 DEF Inv, EntriesOK
<1>5. \A x \in Addr : Listed(x)' = Listed(x)
  BY <1>1 DEF Listed
<1>6. ASSUME NEW k \in 1..n
      PROVE  /\ Calls(k)' = Calls(k) /\ stack[k].app \in Addr
             /\ Calls(k) => stack[k].app # a /\ app'[stack[k].app] = app[stack[k].app]
  <2>1. stack[k].app \in Addr /\ stack'[k] = stack[k]
    <3>1. k \in 1..Len(stack) /\ stack'[k] = stack[k]
      BY <1>2 DEF n
    <3>2. stack[k] \in Activation
      BY <3>1 DEF Inv, Typed
    <3> QED BY <3>1, <3>2 DEF Activation
  <2>2. Calls(k) => app[stack[k].app].st \in {"loading", "starting"}
    BY DEF Inv, ActivationsOK, Calls
  <2>3. Calls(k) => stack[k].app # a
    BY <1>1, <2>2
  <2> QED BY <1>3, <2>1, <2>3 DEF Calls
<1>7. /\ NeededLibs[p] \in Seq(Libraries) /\ Len(NeededLibs[p]) \in Nat /\ p # NULL /\ NULL \notin Addr
      /\ a # NULL
  BY ProgramsAssumption
<1> HIDE DEF n
<1>8. Typed'
  BY <1>1, <1>2 DEF Inv, Typed, BootsNext
<1>9. EntriesOK'
  <2>1. \A x \in Addr : IF app'[x].st = "free" THEN app'[x] = Blank ELSE app'[x].prog \in Programs
    BY <1>3 DEF Inv, EntriesOK
  <2>2. \A x \in Addr : Listed(x)' <=> app'[x].st \in {"starting", "running", "tofree"}
    BY <1>3, <1>4, <1>5 DEF Inv, EntriesOK
  <2>3. \A l, m \in Addr : app'[l].prog \in Libraries /\ app'[l].prog = app'[m].prog => l = m
    BY <1>3 DEF Inv, EntriesOK, IsLib
  <2> QED BY <1>1, <2>1, <2>2, <2>3 DEF Inv, EntriesOK, IsLib, Distinct
<1>10. ActivationsOK'
  <2>1. ASSUME NEW k \in 1..n
        PROVE  stack[k].kind # "tcp" /\ (stack[k].kind = "main" => ~IsLib(stack[k].app))
    <3>1. LoadsAtTop(p) => stack[n].kind = "load"
      BY DEF LoadsAtTop, Running, Top, n
    <3>2. stack[k].kind = "tcp" \/ (stack[k].kind = "main" /\ IsLib(stack[k].app)) => k = n
      BY DEF Inv, ActivationsOK, n
    <3> QED BY <3>1, <3>2 DEF PollsAtTop, n
  <2>2. \A k \in 1..n : stack[k].kind = "load" => stack[k].next \in 1..(Len(Libs(stack[k].app)) + 1)
    BY DEF Inv, ActivationsOK, n
  <2>3. \A k \in 1..n : /\ stack[k].kind = "load" => app[stack[k].app].st = "loading"
                        /\ stack[k].kind = "main" => app[stack[k].app].st = "starting"
    BY DEF Inv, ActivationsOK, n
  <2>4. ASSUME NEW k \in 1..n
        PROVE  /\ stack'[k].kind # "tcp"
               /\ stack'[k].kind = "load" =>
                    /\ app'[stack'[k].app].st = "loading"
                    /\ stack'[k].next \in 1..(Len(NeededLibs[app'[stack'[k].app].prog]) + 1)
               /\ stack'[k].kind = "main" =>
                    app'[stack'[k].app].st = "starting" /\ app'[stack'[k].app].prog \notin Libraries
    BY <1>2, <1>6, <2>1, <2>2, <2>3 DEF Libs, IsLib, Calls
  <2>5. LET k == n + 1
        IN /\ stack'[k].kind = "load" /\ app'[stack'[k].app].st = "loading"
           /\ stack'[k].next \in 1..(Len(NeededLibs[app'[stack'[k].app].prog]) + 1)
    BY <1>2, <1>3, <1>7
  <2> QED BY <1>2, <2>4, <2>5 DEF ActivationsOK, Libs, IsLib
<1>11. NestingOK'
  <2>1. ASSUME NEW k \in 1..Len(stack'), NEW m \in 1..Len(stack'), Calls(k)', Calls(m)',
               stack'[k].app = stack'[m].app
        PROVE  k = m
    BY <1>2, <1>6, <2>1 DEF Inv, NestingOK, n
  <2>2. ASSUME NEW k \in 1..Len(stack'), NEW m \in 1..Len(stack'), stack'[k].kind = "load", k < m
        PROVE  Calls(m)' /\ <<app'[stack'[k].app].prog, app'[stack'[m].app].prog>> \in Depends
    <3>1. k \in 1..n /\ stack[k].kind = "load" /\ Calls(k)
      BY <1>2, <2>2 DEF Calls
    <3>2. CASE m \in 1..n
      <4>1. Calls(m) /\ <<app[stack[k].app].prog, app[stack[m].app].prog>> \in Depends
        BY <2>2, <3>1, <3>2 DEF Inv, NestingOK, n
      <4> QED BY <1>2, <1>6, <3>1, <3>2, <4>1
    <3>3. CASE m = n + 1
      <4>1. LoadsAtTop(p)
        BY <3>1 DEF PollsAtTop, n
      <4>2. /\ n \in 1..n /\ stack[n].kind = "load" /\ p \in Libraries
            /\ p \in SeqRange(NeededLibs[app[stack[n].app].prog])
        <5>1. stack # << >> /\ stack[n].kind = "load" /\ p \in Libraries
              /\ stack[n].next <= Len(Libs(stack[n].app)) /\ p = Libs(stack[n].app)[stack[n].next]
          BY <4>1 DEF LoadsAtTop, Running, Top, n
        <5>2. n \in 1..n
          BY <1>2, <5>1 DEF Inv, Typed, n
        <5>3. stack[n].next \in 1..Len(Libs(stack[n].app))
          BY <5>1, <5>2 DEF Inv, ActivationsOK, n
        <5> QED BY <5>1, <5>2, <5>3 DEF SeqRange, Libs
      <4>3. app[stack[n].app].prog \in Programs
        BY <1>6, <4>2 DEF Inv, EntriesOK, ActivationsOK, n
      <4>4. <<app[stack[n].app].prog, p>> \in Depends
        BY <4>2, <4>3, DependsIs
      <4>5. k # n => <<app[stack[k].app].prog, app[stack[n].app].prog>> \in Depends
        <5>1. k # n => k < n
          BY <3>1, <4>2
        <5>2. n \in 1..Len(stack) /\ k \in 1..Len(stack)
          BY <3>1, <4>2 DEF n
        <5> QED BY <3>1, <5>1, <5>2 DEF Inv, NestingOK
      <4>6. <<app[stack[k].app].prog, p>> \in Depends
        <5>1. CASE k = n
          BY <4>4, <5>1
        <5>2. CASE k # n
          <6>1. app[stack[k].app].prog \in Programs /\ app[stack[n].app].prog \in Libraries
            BY <4>5, <5>2, DependsIs
          <6> QED BY <4>2, <4>4, <4>5, <5>2, <6>1, DependsIs
        <5> QED BY <5>1, <5>2
      <4> QED BY <1>2, <1>3, <1>6, <3>1, <3>3, <4>6 DEF Calls
    <3> QED BY <1>2, <3>2, <3>3
  <2>3. ASSUME NEW k \in 1..Len(stack'), stack'[k].kind = "load", k < Len(stack')
        PROVE  /\ stack'[k].next <= Len(NeededLibs[app'[stack'[k].app].prog])
               /\ app'[stack'[k + 1].app].prog = NeededLibs[app'[stack'[k].app].prog][stack'[k].next]
    <3>1. k \in 1..n /\ stack[k].kind = "load" /\ Calls(k)
      BY <1>2, <2>3 DEF Calls
    <3>2. CASE k = n
      BY <1>2, <1>3, <1>6, <3>1, <3>2 DEF LoadsAtTop, PollsAtTop, Top, Libs, n
    <3>3. CASE k # n
      <4>1. k + 1 \in 1..n /\ k < n /\ k < k + 1
        BY <1>2, <3>1, <3>3
      <4>2. Calls(k + 1) /\ stack[k].next <= Len(Libs(stack[k].app))
            /\ app[stack[k + 1].app].prog = Libs(stack[k].app)[stack[k].next]
        BY <3>1, <4>1 DEF Inv, NestingOK, n
      <4> QED BY <1>2, <1>6, <3>1, <4>1, <4>2 DEF Libs
    <3> QED BY <3>2, <3>3
  <2> QED BY <2>1, <2>2, <2>3 DEF NestingOK, Libs
<1>12. InProgress'
  <2>1. ASSUME NEW x \in Addr, app'[x].st = "loading"
        PROVE  \E k \in 1..Len(stack') : Loads(k, x)'
    BY <1>2, <1>3, <2>1 DEF Inv, InProgress, Loads, n
  <2>2. ASSUME NEW x \in Addr, app'[x].st = "starting", app'[x].prog \in Libraries
        PROVE  \E k \in 1..Len(stack') : Starting(k, x)'
    BY <1>2, <1>3, <2>2 DEF Inv, InProgress, Starting, n, IsLib
  <2> QED BY <2>1, <2>2 DEF InProgress, IsLib
<1>13. RetOK'
  BY <1>1 DEF RetOK
<1>14. HostsOK'
  <2>1. \A b \in Addr : app[b].host # NULL => app[b].host \in Addr /\ app[b].host # a
    BY <1>4, <1>5 DEF Inv, HostsOK, Typed, Application
  <2>2. h # NULL => h \in Addr /\ h # a
    BY <1>4 DEF HostFor
  <2>3. ASSUME NEW b \in Addr, app'[b].host # NULL
        PROVE  /\ app'[b].prog \notin Libraries /\ Listed(app'[b].host)
               /\ app'[app'[b].host].prog \in Consoles /\ app'[app'[b].host].host = NULL
    BY <1>3, <2>1, <2>2, <2>3 DEF Inv, HostsOK, HostFor, IsLib
  <2>4. ASSUME NEW b \in Addr, NEW c \in Addr, app'[b].host # NULL, app'[b].host = app'[c].host
        PROVE  b = c
    BY <1>3, <2>4 DEF Inv, HostsOK, HostFor
  <2>5. \A x \in Addr : app'[x].st = "tofree" => app'[x].prog \notin Consoles
    BY <1>3 DEF Inv, HostsOK
  <2> QED BY <1>1, <2>3, <2>4, <2>5 DEF HostsOK, IsLib, Listed
<1>15. HostBelow'
  <2> SUFFICES ASSUME NEW j \in 1..Len(stack'), NEW k \in 1..Len(stack'), Calls(k)',
                      stack'[j].kind = "main", stack'[j].app = app'[stack'[k].app].host
               PROVE  j < k
    BY DEF HostBelow, Starting
  <2>1. j \in 1..n /\ stack[j].kind = "main" /\ stack'[j] = stack[j]
    BY <1>2
  <2> QED BY <1>2, <1>6, <2>1 DEF Inv, HostBelow, Starting, n
<1>16. SymbolsOK'
  BY <1>1, <1>3 DEF Inv, SymbolsOK, Typed, IsLib
<1>17. ASSUME NEW k \in 1..Len(stack'), stack'[k].kind = "load"
       PROVE  \/ k = n + 1 /\ Taken(k)' = {}
              \/ k \in 1..n /\ stack[k].kind = "load" /\ Taken(k)' = Taken(k)
  <2>1. Taken(k)' = {NeededLibs[app'[stack'[k].app].prog][j] : j \in 1..(stack'[k].next - 1)}
    BY <1>1 DEF Taken, Libs
  <2>2. CASE k = n + 1
    BY <1>2, <2>1, <2>2
  <2>3. CASE k \in 1..n
    <3>1. Taken(k) = {Libs(stack[k].app)[j] : j \in 1..(stack[k].next - 1)}
      BY DEF Taken
    <3>2. stack'[k] = stack[k] /\ app'[stack[k].app] = app[stack[k].app]
      BY <1>2, <1>6, <1>17, <2>3 DEF Calls
    <3> QED BY <1>17, <2>1, <2>3, <3>1, <3>2 DEF Libs
  <2> QED BY <1>2, <2>2, <2>3
<1>18. NeedsRun'
  <2>1. \A q : (Runs(q) => Runs(q)') /\ (Stays(q) => Stays(q)')
    BY <1>1, <1>3 DEF Runs, Stays
  <2>2. ASSUME NEW x \in Addr, Listed(x)', NEW q \in SeqRange(NeededLibs[app'[x].prog])
        PROVE  Runs(q)'
    BY <1>3, <1>4, <1>5, <2>1, <2>2 DEF Inv, NeedsRun, Libs
  <2>3. ASSUME NEW k \in 1..Len(stack'), stack'[k].kind = "load", NEW q \in Taken(k)'
        PROVE  Stays(q)'
    BY <1>17, <2>1, <2>3 DEF Inv, NeedsRun, n
  <2> QED BY <2>2, <2>3 DEF NeedsRun, Libs
<1>19. UsersOK'
  <2>1. ASSUME NEW q, NEW x \in Addr, Takes(x, q)'
        PROVE  Takes(x, q)
    <3>1. CASE Listed(x)' /\ q \in SeqRange(NeededLibs[app'[x].prog])
      BY <1>3, <1>4, <1>5, <3>1 DEF Takes, Libs
    <3>2. CASE \E k \in 1..Len(stack') : Loads(k, x)' /\ q \in Taken(k)'
      <4>1. PICK k \in 1..Len(stack') : stack'[k].kind = "load" /\ stack'[k].app = x /\ q \in Taken(k)'
        BY <3>2 DEF Loads
      <4>2. k \in 1..n /\ stack[k].kind = "load" /\ q \in Taken(k)
        BY <1>17, <4>1
      <4> QED BY <1>2, <4>1, <4>2 DEF Takes, Loads, n
    <3> QED BY <2>1, <3>1, <3>2 DEF Takes, Libs
  <2>2. \A q : /\ Cardinality(Holders(q)') <= Cardinality(Holders(q))
               /\ Cardinality(Holders(q)') \in Nat /\ Cardinality(Holders(q)) \in Nat
    BY <2>1, FewerHolders, HoldersFinite
  <2>3. \A l \in Addr : app'[l].st = "running" => app'[l] = app[l]
    BY <1>3
  <2>4. ASSUME NEW l \in Addr, app[l].st = "running", IsLib(l), NEW q, q = app[l].prog
        PROVE  Boots(q)' <= Boots(q) /\ Boots(q) \in Nat /\ Boots(q)' \in Nat
    <3>1. Booted(q)' => Booted(q)
      BY <2>4, BootsAre, BootedNext DEF IsLib
    <3> QED BY <3>1, BootsAre DEF Boots
  <2>5. ASSUME NEW l \in Addr, app'[l].st = "running", NEW q, q = app'[l].prog, q \in Libraries
        PROVE  app'[l].users >= Cardinality(Holders(q)') + Boots(q)'
    <3>1. app'[l] = app[l] /\ IsLib(l) /\ app[l].users \in Nat
      BY <2>3, <2>5 DEF IsLib, Inv, Typed, Application
    <3>2. app[l].users >= Cardinality(Holders(q)) + Boots(q)
      BY <2>5, <3>1 DEF Inv, UsersOK
    <3>3. Boots(q)' <= Boots(q) /\ Boots(q) \in Nat /\ Boots(q)' \in Nat
      BY <2>4, <2>5, <3>1
    <3> QED BY <2>2, <3>1, <3>2, <3>3
  <2> QED BY <2>5 DEF UsersOK, IsLib
<1>20. LinksOK'
  <2>1. ASSUME NEW x \in Addr, Listed(x)', NEW g \in app'[x].bound
        PROVE  app'[g].st = "running" /\ <<app'[x].prog, app'[g].prog>> \in Depends /\ Before(apps, g, x)
    <3>1. app'[x] = app[x] /\ Listed(x)
      BY <1>3, <1>4, <1>5, <2>1
    <3>2. g \in Addr /\ app[g].st = "running" /\ <<app[x].prog, app[g].prog>> \in Depends /\ Before(apps, g, x)
      BY <2>1, <3>1 DEF Inv, LinksOK, Typed, Application
    <3> QED BY <1>1, <1>3, <3>1, <3>2
  <2> QED BY <1>1, <2>1 DEF LinksOK, Before
<1>21. PhasesOK'
  <2>1. \A x \in Addr : /\ app'[x].st = "tofree" => ~app'[x].close
                        /\ Open(x)' => app'[x].close
    BY <1>3 DEF Inv, PhasesOK, Open
  <2>2. phase = "boot" => /\ pos' \in 1..(Len(BootList) + 1)
                          /\ \A x \in Addr : app'[x].st # "tofree"
    <3> SUFFICES ASSUME phase = "boot"
                 PROVE  /\ pos' \in 1..(Len(BootList) + 1)
                        /\ \A x \in Addr : app'[x].st # "tofree"
      OBVIOUS
    <3>1. pos \in 1..(Len(BootList) + 1) /\ \A x \in Addr : app[x].st # "tofree"
      BY DEF Inv, PhasesOK
    <3>2. \A x \in Addr : app'[x].st # "tofree"
      BY <1>3, <3>1
    <3>3. Len(BootList) \in Nat
      BY ProgramsAssumption
    <3>4. pos' = pos \/ (pos' = pos + 1 /\ pos <= Len(BootList))
      BY DEF BootsNext
    <3> QED BY <3>1, <3>2, <3>3, <3>4
  <2>3. phase = "boot" => \A k \in 1..Len(stack') : Calls(k)'
    BY <1>2 DEF Inv, PhasesOK, Calls, n
  <2> QED BY <1>1, <2>1, <2>2, <2>3 DEF PhasesOK
<1>22. BootsOK'
  <2>1. \A q : Runs(q) => Runs(q)'
    BY <1>1, <1>3 DEF Runs
  <2>2. CASE pos' = pos
    <3>1. ASSUME phase = "boot", NEW q, Booting(q)
          PROVE  Booting(q)'
      <4>1. n > 0 /\ 1 \in 1..n
        BY <1>2, <3>1 DEF Booting, n
      <4>2. Calls(1)
        BY <3>1, <4>1 DEF Inv, PhasesOK, n
      <4>3. stack'[1] = stack[1] /\ stack' # << >> /\ app'[stack[1].app] = app[stack[1].app]
        BY <1>2, <1>6, <4>1, <4>2
      <4> QED BY <3>1, <4>3 DEF Booting
    <3> QED BY <2>1, <2>2, <3>1, BootsKept DEF Inv
  <2>3. CASE BootsNext(p)
    <3>0. n = 0 /\ n + 1 = 1
      BY <2>3 DEF BootsNext, n
    <3>1. n = 0 /\ stack'[1].app = a /\ stack' # << >> /\ app'[a].prog = p
      <4>1. stack'[1] = [kind |-> "load", app |-> a, next |-> 1] /\ Len(stack') = 1
        BY <1>2, <3>0
      <4>2. app'[a].prog = p
        BY <1>1 DEF Fresh, Blank
      <4> QED BY <3>0, <4>1, <4>2
    <3>2. Booting(p)'
      BY <2>3, <3>1 DEF Booting, BootsNext
    <3>3. \A q \in Libraries : Booted(q) => Runs(q)
      BY <2>3 DEF Inv, BootsOK, Booting, BootsNext
    <3> QED BY <2>1, <2>3, <3>2, <3>3, BootedNext DEF BootsOK
  <2> QED BY <2>2, <2>3
<1> QED BY <1>8, <1>9, <1>10, <1>11, <1>12, <1>13, <1>14, <1>15, <1>16, <1>18, <1>19, <1>20, <1>21,
           <1>22 DEF Inv
-----------------------------------------------------------------------------
(***************************************************************************)
(* The activation at the top returns; DynLdRunEx gives up.                 *)
(***************************************************************************)
LEMMA Activations ==
  ASSUME Typed
  PROVE  /\ Len(stack) \in Nat
         /\ \A k \in 1..Len(stack) : /\ stack[k] \in Activation
                                     /\ stack[k].app \in Addr /\ stack[k].next \in Nat
<1>1. Len(stack) \in Nat /\ \A k \in 1..Len(stack) : stack[k] \in Activation
  BY DEF Typed
<1> QED BY <1>1 DEF Activation

\* The activation at the top.
LEMMA TopIs ==
  ASSUME Typed, NEW kind, Running(kind)
  PROVE  /\ Len(stack) \in 1..Len(stack) /\ Top = stack[Len(stack)] /\ Top.kind = kind
         /\ Top \in Activation /\ Top.app \in Addr /\ Top.next \in Nat
<1>1. Len(stack) \in 1..Len(stack) /\ Top = stack[Len(stack)] /\ Top.kind = kind
  BY DEF Typed, Running, Top
<1>2. Top \in Activation
  BY <1>1 DEF Typed
<1> QED BY <1>1, <1>2 DEF Activation

\* The activations below the top.
LEMMA BelowIs ==
  ASSUME Typed, stack # << >>
  PROVE  /\ Len(stack) - 1 \in Nat /\ Below \in Seq(Activation) /\ Len(Below) = Len(stack) - 1
         /\ \A k \in 1..(Len(stack) - 1) : Below[k] = stack[k]
<1>1. stack \in Seq(Activation) /\ Len(stack) \in Nat /\ Len(stack) > 0
  BY DEF Typed
<1>2. \A k \in 1..(Len(stack) - 1) : stack[k] \in Activation
  BY <1>1
<1>3. Below = [k \in 1..(Len(stack) - 1) |-> stack[k]]
  BY <1>1 DEF Below
<1>4. Len(stack) - 1 \in Nat
  BY <1>1
<1> QED BY <1>2, <1>3, <1>4

\* A return takes one activation off, and hands its result to a load only.
LEMMA ReturnsIs ==
  ASSUME Typed, stack # << >>, NEW r, Returns(r)
  PROVE  LET n == Len(stack) - 1
         IN /\ n \in Nat /\ stack' \in Seq(Activation) /\ Len(stack') = n
            /\ \A k \in 1..n : stack'[k] = stack[k]
            /\ IF n > 0 /\ stack[n].kind = "load" THEN ret' = r ELSE ret' = "none"
<1>1. Below # << >> <=> Len(stack) - 1 > 0
  BY BelowIs
<1>2. Len(stack) - 1 > 0 => Below[Len(Below)] = stack[Len(stack) - 1]
  BY BelowIs
<1> QED BY <1>1, <1>2, BelowIs DEF Returns

\* LibraryMissing and NotStarted: what is loaded is freed, its libraries stay.
LEMMA LoadFailsStep ==
  ASSUME Inv, Running("load"), ret # "ok", phase = "up",
         app' = [app EXCEPT ![Top.app] = Blank], UNCHANGED <<apps, symbols, phase, pos, GSExit>>,
         Returns("fail")
  PROVE  Inv'
<1> DEFINE n == Len(stack) - 1
           a == Top.app
<1>1. /\ n \in Nat /\ n + 1 \in 1..Len(stack) /\ n + 1 = Len(stack)
      /\ stack[n + 1].kind = "load" /\ stack[n + 1].app = a /\ a \in Addr
      /\ stack # << >>
  BY TopIs DEF Inv, Typed, Running
<1>2. /\ stack' \in Seq(Activation) /\ Len(stack') = n
      /\ \A k \in 1..n : stack'[k] = stack[k]
      /\ IF n > 0 /\ stack[n].kind = "load" THEN ret' = "fail" ELSE ret' = "none"
  BY <1>1, ReturnsIs DEF Inv
<1>3. /\ app[a].st = "loading" /\ ~Listed(a)
      /\ app' \in [Addr -> Application]
      /\ app'[a] = Blank /\ \A x \in Addr : x # a => app'[x] = app[x]
  <2>1. app[a].st = "loading"
    BY <1>1 DEF Inv, ActivationsOK
  <2>2. Blank \in Application
    BY DEF Blank, Application
  <2> QED BY <1>1, <2>1, <2>2 DEF Inv, EntriesOK, Typed
<1>4. /\ app'[a].prog = NULL /\ app'[a].st = "free" /\ app'[a].host = NULL
      /\ NULL \notin Libraries /\ NULL \notin Programs /\ NULL \notin Addr
  BY <1>3, ProgramsAssumption DEF Blank
<1>5. \A x \in Addr : Listed(x)' = Listed(x)
  BY DEF Listed
<1> HIDE DEF n, a
<1>6. CutTo(n)
  <2>1. ASSUME NEW k \in 1..n
        PROVE  stack'[k] = stack[k] /\ (Calls(k) => KeptCall(k))
    <3>1. k \in 1..Len(stack) /\ k # n + 1 /\ stack[k].app \in Addr
      <4>1. k \in 1..Len(stack) /\ k # n + 1
        BY <1>1
      <4>2. stack[k] \in Activation
        BY <4>1 DEF Inv, Typed
      <4> QED BY <4>1, <4>2 DEF Activation
    <3>2. Calls(k) => stack[k].app # a
      BY <1>1, <3>1 DEF Inv, NestingOK, Calls
    <3> QED BY <1>2, <1>3, <3>1, <3>2 DEF KeptCall
  <2> QED BY <1>1, <1>2, <2>1 DEF CutTo
<1>7. Typed'
  BY <1>2, <1>3 DEF Inv, Typed
<1>8. ActivationsOK' /\ NestingOK' /\ HostBelow' /\ RetOK'
  BY <1>1, <1>2, <1>6, <1>7, CutKeepsStack, CutKeepsRet DEF Inv
<1>9. EntriesOK'
  <2>1. \A x \in Addr : IF app'[x].st = "free" THEN app'[x] = Blank ELSE app'[x].prog \in Programs
    BY <1>3, <1>4 DEF Inv, EntriesOK
  <2>2. \A x \in Addr : Listed(x)' <=> app'[x].st \in {"starting", "running", "tofree"}
    BY <1>3, <1>4, <1>5 DEF Inv, EntriesOK
  <2>3. \A l, m \in Addr : app'[l].prog \in Libraries /\ app'[l].prog = app'[m].prog => l = m
    BY <1>3, <1>4 DEF Inv, EntriesOK, IsLib
  <2> QED BY <2>1, <2>2, <2>3 DEF Inv, EntriesOK, IsLib, Distinct
<1>10. InProgress'
  <2>1. ASSUME NEW x \in Addr, app'[x].st = "loading"
        PROVE  \E k \in 1..Len(stack') : stack'[k].kind = "load" /\ stack'[k].app = x
    <3>1. x # a /\ app[x].st = "loading"
      BY <1>3, <1>4, <2>1
    <3>2. PICK k \in 1..Len(stack) : stack[k].kind = "load" /\ stack[k].app = x
      BY <3>1 DEF Inv, InProgress, Loads
    <3> QED BY <1>1, <1>2, <3>1, <3>2
  <2>2. ASSUME NEW x \in Addr, app'[x].st = "starting", app'[x].prog \in Libraries
        PROVE  \E k \in 1..Len(stack') : stack'[k].kind = "main" /\ stack'[k].app = x
    <3>1. x # a /\ app[x].st = "starting" /\ IsLib(x)
      BY <1>3, <1>4, <2>2 DEF IsLib
    <3>2. PICK k \in 1..Len(stack) : stack[k].kind = "main" /\ stack[k].app = x
      BY <3>1 DEF Inv, InProgress, Starting
    <3> QED BY <1>1, <1>2, <3>1, <3>2
  <2> QED BY <2>1, <2>2 DEF InProgress, IsLib, Loads, Starting
<1>11. HostsOK'
  <2>1. \A b \in Addr : app[b].host # NULL => app[b].host \in Addr /\ app[b].host # a
    BY <1>3 DEF Inv, HostsOK, Typed, Application
  <2>2. \A x \in Addr : app'[x].host # NULL => x # a /\ app'[x] = app[x]
    BY <1>3, <1>4
  <2>3. ASSUME NEW b \in Addr, app'[b].host # NULL
        PROVE  /\ app'[b].prog \notin Libraries /\ Listed(app'[b].host)
               /\ app'[app'[b].host].prog \in Consoles /\ app'[app'[b].host].host = NULL
    BY <1>3, <2>1, <2>2, <2>3 DEF Inv, HostsOK, IsLib
  <2>4. ASSUME NEW b \in Addr, NEW c \in Addr, app'[b].host # NULL, app'[b].host = app'[c].host
        PROVE  b = c
    BY <2>2, <2>4 DEF Inv, HostsOK
  <2>5. \A x \in Addr : app'[x].st = "tofree" => app'[x].prog \notin Consoles
    BY <1>3, <1>4 DEF Inv, HostsOK
  <2> QED BY <2>3, <2>4, <2>5 DEF HostsOK, IsLib, Listed
<1>12. SymbolsOK'
  <2>1. \A y \in symbols : y.home \in Addr /\ app[y.home].st = "running"
    BY DEF Inv, SymbolsOK, Typed
  <2> QED BY <1>3, <2>1 DEF Inv, SymbolsOK, IsLib
<1>13. \A q : (Runs(q) => Runs(q)') /\ (Stays(q) => Stays(q)')
  BY <1>3 DEF Runs, Stays
<1>14. \A x \in Addr : Listed(x) => x # a /\ app'[x] = app[x]
  BY <1>3
<1>15. NeedsRun'
  <2>1. ret' # "ok"
    BY <1>2
  <2>2. ASSUME NEW x \in Addr, Listed(x)', NEW q \in SeqRange(NeededLibs[app'[x].prog])
        PROVE  Runs(q)'
    BY <1>5, <1>13, <1>14, <2>2 DEF Inv, NeedsRun, Libs
  <2>3. ASSUME NEW k \in 1..Len(stack'), stack'[k].kind = "load", NEW q \in Taken(k)'
        PROVE  Stays(q)'
    BY <1>1, <1>6, <1>13, <2>1, <2>3, CutKeepsTaken DEF Inv, NeedsRun
  <2> QED BY <2>2, <2>3 DEF NeedsRun, Libs
<1>16. UsersOK'
  <2>1. ASSUME NEW q, NEW x \in Addr, Takes(x, q)'
        PROVE  Takes(x, q)
    <3>1. ret' # "ok"
      BY <1>2
    <3>2. Takes(x, q) \/ (Listed(x)' /\ q \in SeqRange(NeededLibs[app'[x].prog]))
      BY <1>1, <1>6, <2>1, <3>1, CutKeepsTaken DEF Inv
    <3> QED BY <1>5, <1>14, <3>2 DEF Takes, Libs
  <2>2. \A l \in Addr : app'[l].st = "running" => app'[l] = app[l]
    BY <1>3, <1>4
  <2>3. \A l \in Addr : app[l].users \in Nat
    BY DEF Inv, Typed, Application
  <2> QED BY <1>7, <2>1, <2>2, <2>3, UsersKept
<1>17. LinksOK'
  <2>1. ASSUME NEW x \in Addr, Listed(x)', NEW g \in app'[x].bound
        PROVE  app'[g].st = "running" /\ <<app'[x].prog, app'[g].prog>> \in Depends /\ Before(apps, g, x)
    <3>1. app'[x] = app[x] /\ Listed(x)
      BY <1>5, <1>14, <2>1
    <3>2. g \in Addr /\ app[g].st = "running" /\ <<app[x].prog, app[g].prog>> \in Depends /\ Before(apps, g, x)
      BY <2>1, <3>1 DEF Inv, LinksOK, Typed, Application
    <3> QED BY <1>3, <3>1, <3>2
  <2> QED BY <2>1 DEF LinksOK, Before
<1>18. PhasesOK'
  <2>1. \A x \in Addr : /\ app'[x].st = "tofree" => ~app'[x].close
                        /\ Open(x)' => app'[x].close
    BY <1>3, <1>4 DEF Inv, PhasesOK, Open
  <2> QED BY <2>1 DEF PhasesOK
<1>19. BootsOK'
  BY <1>13, BootsKept DEF Inv
<1> QED BY <1>7, <1>8, <1>9, <1>10, <1>11, <1>12, <1>15, <1>16, <1>17, <1>18, <1>19 DEF Inv
-----------------------------------------------------------------------------
(***************************************************************************)
(* A library gets one more user: one that DynLdRunEx finds for the load at *)
(* the top, or one of the boot list that is there already.                 *)
(***************************************************************************)
OneMoreUser(l) ==
  \/ app' = app
  \/ l \in Addr /\ app[l].st # "free" /\ app' = [app EXCEPT ![l].users = @ + 1]

\* What stays so when only users counts change.
LEMMA UsersOnly ==
  ASSUME Inv, NEW l, OneMoreUser(l), UNCHANGED <<apps, symbols>>
  PROVE  /\ app' \in [Addr -> Application]
         /\ \A x \in Addr : /\ app'[x].prog = app[x].prog /\ app'[x].st = app[x].st
                            /\ app'[x].close = app[x].close /\ app'[x].host = app[x].host
                            /\ app'[x].bound = app[x].bound /\ app'[x].users >= app[x].users
                            /\ app[x].st = "free" => app'[x] = app[x]
         /\ EntriesOK' /\ HostsOK' /\ SymbolsOK' /\ LinksOK'
<1>1. app' \in [Addr -> Application]
  BY DEF Inv, Typed, OneMoreUser, Application
<1>2. \A x \in Addr : /\ app'[x].prog = app[x].prog /\ app'[x].st = app[x].st
                      /\ app'[x].close = app[x].close /\ app'[x].host = app[x].host
                      /\ app'[x].bound = app[x].bound /\ app'[x].users >= app[x].users
                      /\ app[x].st = "free" => app'[x] = app[x]
  BY DEF Inv, Typed, OneMoreUser, Application
<1>3. \A x : Listed(x)' = Listed(x)
  BY DEF Listed
<1>4. EntriesOK'
  <2>1. \A x \in Addr : IF app'[x].st = "free" THEN app'[x] = Blank ELSE app'[x].prog \in Programs
    BY <1>2 DEF Inv, EntriesOK
  <2> QED BY <1>2, <1>3, <2>1 DEF Inv, EntriesOK, Distinct, IsLib
<1>5. HostsOK'
  <2>1. \A b \in Addr : app[b].host # NULL => app[b].host \in Addr
    BY DEF Inv, Typed, Application
  <2> QED BY <1>2, <1>3, <2>1 DEF Inv, HostsOK, IsLib
<1>6. SymbolsOK'
  BY <1>2 DEF Inv, Typed, SymbolsOK, IsLib
<1>7. LinksOK'
  <2>1. \A x \in Addr : app[x].bound \subseteq Addr
    BY DEF Inv, Typed, Application
  <2> QED BY <1>2, <1>3, <2>1 DEF Inv, LinksOK, Before
<1> QED BY <1>1, <1>2, <1>4, <1>5, <1>6, <1>7

\* RegistryLoadLibraries finds the library in the list and counts itself as a user.
LEMMA BootFindsStep ==
  ASSUME Inv, NEW l \in Addr, app[l].st = "running", app' = [app EXCEPT ![l].users = @ + 1],
         UNCHANGED <<apps, symbols, stack, ret, phase, GSExit>>,
         BootsNext(app[l].prog)
  PROVE  Inv'
<1>1. OneMoreUser(l)
  BY DEF OneMoreUser
<1>0. phase = "boot" /\ pos' = pos + 1 /\ pos <= Len(BootList) /\ stack = << >>
  BY DEF BootsNext
<1>2. /\ app' \in [Addr -> Application]
      /\ \A x \in Addr : /\ app'[x].prog = app[x].prog /\ app'[x].st = app[x].st
                         /\ app'[x].close = app[x].close /\ app'[x].host = app[x].host
                         /\ app'[x].bound = app[x].bound /\ app'[x].users >= app[x].users
      /\ EntriesOK' /\ HostsOK' /\ SymbolsOK' /\ LinksOK'
  BY <1>1, UsersOnly
<1>3. Typed'
  BY <1>0, <1>2 DEF Inv, Typed
<1>4. \A k \in 1..Len(stack) : stack[k].app \in Addr
  BY Activations DEF Inv
<1>5. CutTo(Len(stack)) /\ Len(stack) \in Nat
  BY <1>2, <1>4 DEF CutTo, KeptCall, Inv, Typed
<1>6. ActivationsOK' /\ NestingOK' /\ HostBelow'
  BY <1>3, <1>5, CutKeepsStack DEF Inv
<1>7. InProgress'
  BY <1>2 DEF Inv, InProgress, Loads, Starting, IsLib
<1>8. RetOK'
  <2>1. stack # << >> => Top.app \in Addr
    BY <1>4 DEF Top, Inv, Typed
  <2> QED BY <1>2, <2>1 DEF Inv, RetOK, Running, Top, Libs
<1>9. ASSUME NEW k \in 1..Len(stack)
      PROVE  Taken(k)' = Taken(k)
  BY <1>2, <1>4 DEF Taken, Libs
<1>10. NeedsRun'
  <2>1. \A q : (Runs(q) => Runs(q)') /\ (Stays(q) => Stays(q)')
    BY <1>2 DEF Runs, Stays
  <2> QED BY <1>2, <1>9, <2>1 DEF Inv, NeedsRun, Listed, Libs
<1>11. UsersOK'
  <2>1. \A q : \A x \in Addr : Takes(x, q)' => Takes(x, q)
    BY <1>2, <1>9 DEF Takes, Listed, Libs, Loads
  <2>2. \A q : /\ Cardinality(Holders(q)') <= Cardinality(Holders(q))
               /\ Cardinality(Holders(q)') \in Nat /\ Cardinality(Holders(q)) \in Nat
    BY <2>1, FewerHolders, HoldersFinite
  <2>3. \A x \in Addr : app[x].users \in Nat /\ app'[x].users \in Nat
    BY <1>2 DEF Inv, Typed, Application
  <2>4. ASSUME NEW x \in Addr, app[x].st = "running", NEW q, q = app[x].prog, q \in Libraries
        PROVE  app'[x].users >= Cardinality(Holders(q)') + Boots(q)'
    <3>1. app[x].users >= Cardinality(Holders(q)) + Boots(q)
      BY <2>4 DEF Inv, UsersOK, IsLib
    <3>2. Boots(q) \in {0, 1} /\ Boots(q)' \in {0, 1}
      BY BootsAre
    <3>3. CASE x = l
      <4>1. app'[x].users = app[x].users + 1
        BY <3>3 DEF Inv, Typed, Application
      <4> QED BY <2>2, <2>3, <3>1, <3>2, <4>1
    <3>4. CASE x # l
      <4>1. q # app[l].prog
        BY <2>4, <3>4 DEF Inv, EntriesOK, IsLib
      <4>2. Boots(q)' <= Boots(q)
        BY <3>2, <4>1, BootedNext DEF Boots
      <4>3. app'[x].users >= app[x].users
        BY <1>2
      <4> QED BY <2>2, <2>3, <3>1, <3>2, <4>2, <4>3
    <3> QED BY <3>3, <3>4
  <2> QED BY <1>2, <2>4 DEF UsersOK, IsLib
<1>12. PhasesOK'
  BY <1>0, <1>2, ProgramsAssumption DEF Inv, PhasesOK, Open, Calls
<1>13. BootsOK'
  <2>1. \A q : Runs(q) => Runs(q)'
    BY <1>2 DEF Runs
  <2>2. \A q \in Libraries : Booted(q) => Runs(q)
    BY <1>0 DEF Inv, BootsOK, Booting
  <2>3. Runs(app[l].prog)'
    BY <1>2 DEF Runs
  <2> QED BY <2>1, <2>2, <2>3, BootedNext DEF BootsOK
<1> QED BY <1>2, <1>3, <1>6, <1>7, <1>8, <1>10, <1>11, <1>12, <1>13 DEF Inv

(***************************************************************************)
(* The load at the top has its next library: found, or just loaded.        *)
(***************************************************************************)
LEMMA LoadGoesOnStep ==
  ASSUME Inv, NEW l \in Addr, OneMoreUser(l), UNCHANGED <<apps, symbols, phase, pos, GSExit>>,
         Running("load"), Top.next <= Len(Libs(Top.app)),
         stack' = [stack EXCEPT ![Len(stack)].next = @ + 1], ret' = "none",
         \/ ret = "ok" /\ app' = app
         \/ /\ ret = "none" /\ app[l].prog = Libs(Top.app)[Top.next]
            /\ app[l].st \in {"running", "tofree"} /\ app' = [app EXCEPT ![l].users = @ + 1]
  PROVE  Inv'
<1>0. PICK n, a, p : n = Len(stack) /\ a = Top.app /\ p = Libs(a)[Top.next]
  OBVIOUS
<1>1. /\ n \in 1..n /\ Top = stack[n] /\ stack[n].kind = "load" /\ stack[n].app = a /\ a \in Addr
      /\ stack[n] \in Activation /\ stack[n].next \in Nat /\ n \in Nat
      /\ ret \in {"ok", "none"}
  BY <1>0, TopIs DEF Inv, Typed
<1>2. /\ app' \in [Addr -> Application]
      /\ \A x \in Addr : /\ app'[x].prog = app[x].prog /\ app'[x].st = app[x].st
                         /\ app'[x].close = app[x].close /\ app'[x].host = app[x].host
                         /\ app'[x].bound = app[x].bound /\ app'[x].users >= app[x].users
      /\ EntriesOK' /\ HostsOK' /\ SymbolsOK' /\ LinksOK'
  BY UsersOnly
<1>3. /\ stack' \in Seq(Activation) /\ Len(stack') = n
      /\ \A k \in 1..n : /\ stack'[k].kind = stack[k].kind /\ stack'[k].app = stack[k].app
                         /\ k # n => stack'[k] = stack[k]
      /\ stack'[n].next = stack[n].next + 1
  <2> DEFINE e == [stack[n] EXCEPT !.next = @ + 1]
  <2>1. stack' = [stack EXCEPT ![n] = e]
    BY <1>0
  <2>2. e \in Activation /\ e.kind = stack[n].kind /\ e.app = stack[n].app /\ e.next = stack[n].next + 1
    BY <1>1 DEF Activation
  <2>3. stack \in Seq(Activation)
    BY  DEF Inv, Typed
  <2> HIDE DEF e
  <2>4. stack' \in Seq(Activation) /\ Len(stack') = n /\ \A k \in 1..n : stack'[k] = IF k = n THEN e ELSE stack[k]
    BY <1>0, <1>1, <2>1, <2>2, <2>3
  <2> QED BY <1>1, <2>2, <2>4
<1>4. \A k \in 1..n : /\ stack[k].app \in Addr /\ Calls(k)' = Calls(k)
                      /\ NeededLibs[app'[stack'[k].app].prog] = Libs(stack[k].app)
                      /\ app'[stack'[k].app].st = app[stack[k].app].st
                      /\ app'[stack'[k].app].prog = app[stack[k].app].prog
                      /\ app'[stack'[k].app].host = app[stack[k].app].host
  BY <1>0, <1>2, <1>3, Activations DEF Inv, Calls, Libs
<1>5. Typed'
  BY <1>2, <1>3 DEF Inv, Typed
<1>6. stack[n].next \in 1..Len(Libs(stack[n].app)) /\ Len(Libs(stack[n].app)) \in Nat /\ stack[n].app = a
  <2>1. app[a].prog \in Programs
    BY <1>0, <1>1 DEF Inv, ActivationsOK, EntriesOK
  <2>2. Len(Libs(a)) \in Nat
    BY <2>1, ProgramsAssumption DEF Libs
  <2> QED BY <1>0, <1>1, <2>2 DEF Inv, ActivationsOK
<1>7. ActivationsOK'
  <2>1. ASSUME NEW k \in 1..n
        PROVE  /\ stack'[k].kind = "tcp" => k = n
               /\ stack'[k].kind = "load" =>
                    /\ app'[stack'[k].app].st = "loading"
                    /\ stack'[k].next \in 1..(Len(NeededLibs[app'[stack'[k].app].prog]) + 1)
               /\ stack'[k].kind = "main" =>
                    /\ app'[stack'[k].app].st = "starting"
                    /\ app'[stack'[k].app].prog \in Libraries => k = n
    <3>1. /\ stack[k].kind = "tcp" => k = n
          /\ stack[k].kind = "load" =>
               /\ app[stack[k].app].st = "loading" /\ stack[k].next \in 1..(Len(Libs(stack[k].app)) + 1)
          /\ stack[k].kind = "main" =>
               app[stack[k].app].st = "starting" /\ (IsLib(stack[k].app) => k = n)
      BY <1>0, <2>1 DEF Inv, ActivationsOK
    <3>2. CASE k = n
      BY <1>1, <1>3, <1>4, <1>6, <3>1, <3>2
    <3>3. CASE k # n
      BY <1>3, <1>4, <3>1, <3>3 DEF IsLib
    <3> QED BY <3>2, <3>3
  <2> QED BY <1>3, <2>1 DEF ActivationsOK, Libs, IsLib
<1>8. NestingOK'
  <2>0. NestingOK /\ Len(stack) = n
    BY <1>0 DEF Inv
  <2>1. ASSUME NEW k \in 1..n, NEW m \in 1..n, Calls(k)', Calls(m)', stack'[k].app = stack'[m].app
        PROVE  k = m
    BY <1>3, <1>4, <2>0, <2>1 DEF NestingOK
  <2>2. ASSUME NEW k \in 1..n, NEW m \in 1..n, stack'[k].kind = "load", k < m
        PROVE  Calls(m)' /\ <<app'[stack'[k].app].prog, app'[stack'[m].app].prog>> \in Depends
    BY <1>3, <1>4, <2>0, <2>2 DEF NestingOK
  <2>3. ASSUME NEW k \in 1..n, stack'[k].kind = "load", k < n
        PROVE  /\ stack'[k].next <= Len(NeededLibs[app'[stack'[k].app].prog])
               /\ app'[stack'[k + 1].app].prog = NeededLibs[app'[stack'[k].app].prog][stack'[k].next]
    <3>1. k + 1 \in 1..n /\ k # n
      BY <1>1, <2>3
    <3> QED BY <1>3, <1>4, <2>0, <2>3, <3>1 DEF NestingOK
  <2> QED BY <1>3, <2>1, <2>2, <2>3 DEF NestingOK, Libs
<1>9. HostBelow'
  <2>1. HostBelow /\ Len(stack) = n
    BY <1>0 DEF Inv
  <2> QED BY <1>3, <1>4, <2>1 DEF HostBelow, Starting
<1>10. InProgress'
  BY <1>0, <1>2, <1>3 DEF Inv, InProgress, Loads, Starting, IsLib
<1>11. RetOK'
  BY  DEF RetOK
<1>12. ASSUME NEW k \in 1..n, k # n
       PROVE  Taken(k)' = Taken(k)
  <2>1. PICK q, w : q = Libs(stack[k].app) /\ w = stack[k].next - 1
    OBVIOUS
  <2>2. stack'[k].next - 1 = w /\ NeededLibs[app'[stack'[k].app].prog] = q
    BY <1>3, <1>4, <1>12, <2>1
  <2>3. Taken(k)' = {q[j] : j \in 1..w}
    BY <2>2 DEF Taken, Libs
  <2>4. Taken(k) = {q[j] : j \in 1..w}
    BY <1>0, <1>12, <2>1 DEF Taken
  <2> QED BY <2>3, <2>4
<1>13. Taken(n)' = Taken(n) \cup {p}
  <2>1. Taken(n)' = {Libs(stack[n].app)[j] : j \in 1..stack[n].next}
    <3>1. stack'[n].next - 1 = stack[n].next
      BY <1>1, <1>3
    <3>2. Taken(n)' = {NeededLibs[app'[stack'[n].app].prog][j] : j \in 1..(stack'[n].next - 1)}
      BY DEF Taken, Libs
    <3>3. NeededLibs[app'[stack'[n].app].prog] = Libs(stack[n].app)
      BY <1>1, <1>4
    <3> QED BY <3>1, <3>2, <3>3
  <2>2. p = Libs(stack[n].app)[stack[n].next] /\ stack[n].next \in 1..stack[n].next
    BY <1>0, <1>1, <1>6
  <2>3. CASE ret = "ok"
    BY <1>0, <1>1, <2>1, <2>2, <2>3 DEF Taken
  <2>4. CASE ret = "none"
    <3>1. Taken(n) = {Libs(stack[n].app)[j] : j \in 1..(stack[n].next - 1)}
      BY <2>4 DEF Taken
    <3>2. \A j \in 1..stack[n].next : j = stack[n].next \/ j \in 1..(stack[n].next - 1)
      BY <1>1
    <3>3. \A j \in 1..(stack[n].next - 1) : j \in 1..stack[n].next
      BY <1>1
    <3> QED BY <2>1, <2>2, <3>1, <3>2, <3>3
  <2> QED BY <2>3, <2>4
<1>14. ret = "ok" => p \in Taken(n)
  BY <1>0, <1>1, <1>6 DEF Taken
<1>15. NeedsRun'
  <2>1. \A q : (Runs(q) => Runs(q)') /\ (Stays(q) => Stays(q)')
    BY <1>2 DEF Runs, Stays
  <2>2. Stays(p)
    BY <1>0, <1>1, <1>14 DEF Inv, NeedsRun, Stays
  <2>3. ASSUME NEW x \in Addr, Listed(x)', NEW q \in SeqRange(NeededLibs[app'[x].prog])
        PROVE  Runs(q)'
    BY <1>2, <2>1, <2>3 DEF Inv, NeedsRun, Libs, Listed
  <2>4. ASSUME NEW k \in 1..n, stack'[k].kind = "load", NEW q \in Taken(k)'
        PROVE  Stays(q)'
    BY <1>0, <1>3, <1>12, <1>13, <2>1, <2>2, <2>4 DEF Inv, NeedsRun
  <2> QED BY <1>3, <2>3, <2>4 DEF NeedsRun, Libs
<1>16. UsersOK'
  <2>1. ASSUME NEW q, NEW x \in Addr, Takes(x, q)'
        PROVE  Takes(x, q) \/ (x = a /\ q = p /\ ret = "none")
    <3>1. CASE Listed(x)' /\ q \in SeqRange(NeededLibs[app'[x].prog])
      BY <1>2, <3>1 DEF Takes, Libs, Listed
    <3>2. CASE \E k \in 1..Len(stack') : Loads(k, x)' /\ q \in Taken(k)'
      <4>1. PICK k \in 1..n : stack'[k].kind = "load" /\ stack'[k].app = x /\ q \in Taken(k)'
        BY <1>3, <3>2 DEF Loads
      <4>2. k \in 1..Len(stack) /\ stack[k].kind = "load" /\ stack[k].app = x
        BY <1>0, <1>3, <4>1
      <4>3. q \in Taken(k) => Takes(x, q)
        BY <4>2 DEF Takes, Loads
      <4>4. CASE k # n
        BY <1>12, <4>1, <4>2, <4>3, <4>4
      <4>5. CASE k = n
        BY <1>1, <1>13, <1>14, <4>1, <4>2, <4>3, <4>5
      <4> QED BY <4>4, <4>5
    <3> QED BY <2>1, <3>1, <3>2 DEF Takes, Libs
  <2>2. ASSUME NEW x \in Addr, NEW q, q = app[x].prog, app'[x].st = "running", q \in Libraries
        PROVE  app'[x].users >= Cardinality(Holders(q)') + Boots(q)'
    <3>0. Boots(q) \in Nat /\ Boots(q)' = Boots(q)
      BY BootsAre
    <3>1. app[x].users >= Cardinality(Holders(q)) + Boots(q) /\ app[x].users \in Nat /\ app'[x].users \in Nat
          /\ app'[x].users >= app[x].users
      BY <1>2, <2>2 DEF Inv, UsersOK, IsLib, Typed, Application
    <3>2. Cardinality(Holders(q)) \in Nat /\ IsFiniteSet(Holders(q))
      BY HoldersFinite
    <3>3. CASE \A y \in Addr : Takes(y, q)' => Takes(y, q)
      <4>1. Cardinality(Holders(q)') <= Cardinality(Holders(q)) /\ Cardinality(Holders(q)') \in Nat
        BY <3>3, FewerHolders
      <4> QED BY <3>0, <3>1, <3>2, <4>1
    <3>4. CASE q = p /\ ret = "none"
      <4>1. x = l
        <5>1. app[l].prog = p
          BY <1>0, <3>4
        <5> QED BY <2>2, <3>4, <5>1 DEF Inv, EntriesOK, IsLib
      <4>2. app'[x].users = app[x].users + 1
        BY <3>4, <4>1 DEF Inv, Typed, Application
      <4>3. Holders(q)' \in SUBSET (Holders(q) \cup {a})
        BY <2>1 DEF Holders
      <4>4. /\ IsFiniteSet(Holders(q) \cup {a})
            /\ Cardinality(Holders(q) \cup {a}) <= Cardinality(Holders(q)) + 1
            /\ Cardinality(Holders(q) \cup {a}) \in Nat
        <5>1. /\ IsFiniteSet(Holders(q) \cup {a})
              /\ Cardinality(Holders(q) \cup {a}) =
                   IF a \in Holders(q) THEN Cardinality(Holders(q)) ELSE Cardinality(Holders(q)) + 1
          BY <3>2, FS_AddElement
        <5> QED BY <3>2, <5>1
      <4>5. /\ Cardinality(Holders(q)') <= Cardinality(Holders(q) \cup {a})
            /\ Cardinality(Holders(q)') \in Nat
        BY <4>3, <4>4, FS_Subset, FS_CardinalityType
      <4> QED BY <3>0, <3>1, <3>2, <4>2, <4>4, <4>5
    <3> QED BY <2>1, <3>3, <3>4
  <2> QED BY <1>2, <2>2 DEF UsersOK, IsLib
<1>17. PhasesOK'
  <2>1. phase \in {"boot", "up"}
    BY <1>1 DEF Inv, PhasesOK, Running, Typed
  <2>2. phase = "boot" => \A k \in 1..Len(stack') : Calls(k)'
    BY <1>0, <1>3, <1>4 DEF Inv, PhasesOK
  <2> QED BY <1>2, <2>1, <2>2 DEF Inv, PhasesOK, Open
<1>18. BootsOK'
  <2>1. \A q : Runs(q) => Runs(q)'
    BY <1>2 DEF Runs
  <2>2. stack'[1].app = stack[1].app /\ stack' # << >> /\ stack[1].app \in Addr
    BY <1>0, <1>1, <1>3, Activations DEF Inv
  <2>3. \A q : Booting(q) => Booting(q)'
    BY <1>2, <2>2 DEF Booting
  <2> QED BY <2>1, <2>3, BootsKept DEF Inv
<1> QED BY <1>2, <1>5, <1>7, <1>8, <1>9, <1>10, <1>11, <1>15, <1>16, <1>17, <1>18 DEF Inv
-----------------------------------------------------------------------------
(***************************************************************************)
(* Every external resolves: the application joins the list.                *)
(***************************************************************************)
LEMMA AppendedIs ==
  ASSUME NEW S, NEW q \in Seq(S), NEW a \in S
  PROVE  /\ Append(q, a) \in Seq(S) /\ Len(Append(q, a)) = Len(q) + 1 /\ Len(q) \in Nat
         /\ \A k \in 1..Len(q) : Append(q, a)[k] = q[k]
         /\ Append(q, a)[Len(q) + 1] = a
         /\ SeqRange(Append(q, a)) = SeqRange(q) \cup {a}
         /\ Distinct(q) /\ a \notin SeqRange(q) => Distinct(Append(q, a))
         /\ \A x, y : Before(q, x, y) => Before(Append(q, a), x, y)
         /\ \A x \in SeqRange(q) : Before(Append(q, a), x, a)
<1> DEFINE w == Append(q, a)
<1>1. /\ w \in Seq(S) /\ Len(w) = Len(q) + 1 /\ Len(q) \in Nat
      /\ \A k \in 1..Len(q) : w[k] = q[k]
      /\ w[Len(q) + 1] = a
  OBVIOUS
<1> HIDE DEF w
<1>2. SeqRange(w) = SeqRange(q) \cup {a}
  <2>1. \A x \in SeqRange(w) : x \in SeqRange(q) \cup {a}
    BY <1>1 DEF SeqRange
  <2>2. \A x \in SeqRange(q) \cup {a} : x \in SeqRange(w)
    BY <1>1 DEF SeqRange
  <2> QED BY <2>1, <2>2
<1>3. Distinct(q) /\ a \notin SeqRange(q) => Distinct(w)
  BY <1>1 DEF Distinct, SeqRange
<1>4. \A x, y : Before(q, x, y) => Before(w, x, y)
  BY <1>1 DEF Before
<1>5. \A x \in SeqRange(q) : Before(w, x, a)
  <2> TAKE x \in SeqRange(q)
  <2>1. PICK k \in 1..Len(q) : q[k] = x
    BY DEF SeqRange
  <2>2. k \in 1..Len(w) /\ Len(q) + 1 \in 1..Len(w) /\ k < Len(q) + 1 /\ w[k] = x
    BY <1>1, <2>1
  <2> QED BY <1>1, <2>2 DEF Before
<1> QED BY <1>1, <1>2, <1>3, <1>4, <1>5 DEF w

\* Every external resolves: the program joins the list, linked to what it depends on.
LEMMA StartsStep ==
  ASSUME Inv, SoundlyLinked, Starts
  PROVE  Inv'
<1>0. PICK n, a, p : n = Len(stack) - 1 /\ a = Top.app /\ p = app[a].prog
  OBVIOUS
<1>1. /\ n \in Nat /\ n + 1 = Len(stack) /\ n + 1 \in 1..Len(stack) /\ a \in Addr
      /\ stack[n + 1].kind = "load" /\ stack[n + 1].app = a /\ stack # << >>
      /\ stack[n + 1].next > Len(Libs(a)) /\ ret = "none" /\ phase \in {"boot", "up"}
  <2>1. Running("load")
    BY DEF Starts, AllLoaded
  <2>2. stack # << >>
    BY <2>1 DEF Running
  <2> QED BY <1>0, <2>1, <2>2, TopIs DEF Inv, Typed, Starts, AllLoaded, Libs, PhasesOK
<1>2. /\ app[a].st = "loading" /\ ~Listed(a) /\ p \in Programs
      /\ stack[n + 1].next = Len(Libs(a)) + 1 /\ Len(Libs(a)) \in Nat
  <2>1. app[a].st = "loading" /\ stack[n + 1].next \in 1..(Len(Libs(a)) + 1)
    BY <1>1 DEF Inv, ActivationsOK
  <2>2. ~Listed(a) /\ p \in Programs
    BY <1>0, <1>1, <2>1 DEF Inv, EntriesOK
  <2>3. Len(Libs(a)) \in Nat
    BY <1>0, <2>2, ProgramsAssumption DEF Libs
  <2> QED BY <1>1, <2>1, <2>2, <2>3
<1>3. PICK B : B = {y.home : y \in Found(p)}
  OBVIOUS
<1>4. /\ app' = [app EXCEPT ![a].st = "starting", ![a].bound = B]
      /\ apps' = Append(apps, a) /\ symbols' = symbols
      /\ stack' = Append(Below, [kind |-> "main", app |-> a, next |-> 0])
      /\ ret' = "none" /\ UNCHANGED <<phase, pos, GSExit>>
      /\ \A x \in Imports[p] : \E y \in symbols : y.name = x
  BY <1>0, <1>1, <1>3 DEF Starts, Env
<1>5. \A h \in B : h \in Addr /\ app[h].st = "running" /\ Listed(h) /\ <<p, app[h].prog>> \in Depends
  <2> TAKE h \in B
  <2>1. PICK y \in symbols : y.name \in Imports[p] /\ y.home = h
    BY <1>3 DEF Found
  <2>2. h \in Addr /\ app[h].st = "running" /\ IsLib(h) /\ y.name \in Exports(app[h].prog)
    BY <2>1 DEF Inv, Typed, SymbolsOK, Exports
  <2>3. app[h].prog \in Programs
    BY <2>2, ProgramsAssumption DEF IsLib
  <2>4. <<p, app[h].prog>> \in Depends
    <3>1. Imports[p] \cap Exports(app[h].prog) # {}
      BY <2>1, <2>2
    <3> QED BY <1>2, <2>3, <3>1 DEF SoundlyLinked
  <2> QED BY <2>2, <2>4 DEF Inv, EntriesOK
<1>6. \A q \in SeqRange(NeededLibs[p]) : Runs(q)
  <2> TAKE q \in SeqRange(NeededLibs[p])
  <2>1. PICK x \in Imports[p] : \A r \in Programs : x \in Exports(r) => r = q
    BY <1>2 DEF SoundlyLinked
  <2>2. PICK y \in symbols : y.name = x
    BY <1>4
  <2>3. y.home \in Addr /\ app[y.home].st = "running" /\ IsLib(y.home) /\ x \in Exports(app[y.home].prog)
    BY <2>2 DEF Inv, Typed, SymbolsOK, Exports
  <2>4. app[y.home].prog = q
    BY <2>1, <2>3, ProgramsAssumption DEF IsLib
  <2> QED BY <2>3, <2>4 DEF Runs
<1>7. /\ app' \in [Addr -> Application]
      /\ \A x \in Addr : /\ x # a => app'[x] = app[x]
                         /\ app'[x].prog = app[x].prog /\ app'[x].users = app[x].users
                         /\ app'[x].close = app[x].close /\ app'[x].host = app[x].host
                         /\ app'[x].st = IF x = a THEN "starting" ELSE app[x].st
                         /\ app'[x].bound = IF x = a THEN B ELSE app[x].bound
  <2> DEFINE e == [app[a] EXCEPT !.st = "starting", !.bound = B]
  <2>1. B \subseteq Addr /\ app[a] \in Application /\ app \in [Addr -> Application]
    BY <1>1, <1>5 DEF Inv, Typed
  <2>2. app' = [app EXCEPT ![a] = e]
    BY <1>4
  <2>3. /\ e \in Application /\ e.prog = app[a].prog /\ e.users = app[a].users /\ e.close = app[a].close
        /\ e.host = app[a].host /\ e.st = "starting" /\ e.bound = B
    BY <2>1 DEF Application
  <2> HIDE DEF e
  <2>4. app' \in [Addr -> Application] /\ \A x \in Addr : app'[x] = IF x = a THEN e ELSE app[x]
    BY <1>1, <2>1, <2>2, <2>3
  <2> QED BY <2>3, <2>4
<1>8. /\ apps' \in Seq(Addr)
      /\ \A x \in Addr : Listed(x)' <=> Listed(x) \/ x = a
      /\ Distinct(apps')
      /\ \A x, y : Before(apps, x, y) => Before(apps', x, y)
      /\ \A x \in Addr : Listed(x) => Before(apps', x, a)
  BY <1>1, <1>2, <1>4, AppendedIs DEF Inv, Typed, EntriesOK, Listed
<1>9. /\ stack' \in Seq(Activation) /\ Len(stack') = n + 1
      /\ \A k \in 1..n : stack'[k] = stack[k]
      /\ stack'[n + 1].kind = "main" /\ stack'[n + 1].app = a
      /\ \A k \in 1..(n + 1) : k \in 1..n \/ k = n + 1
  <2> DEFINE f == [kind |-> "main", app |-> a, next |-> 0]
  <2>1. f \in Activation /\ f.kind = "main" /\ f.app = a
    BY <1>1 DEF Activation
  <2>2. /\ n \in Nat /\ Below \in Seq(Activation) /\ Len(Below) = n
        /\ \A k \in 1..n : Below[k] = stack[k]
    BY <1>0, <1>1, BelowIs DEF Inv
  <2>3. stack' = Append(Below, f)
    BY <1>4
  <2> HIDE DEF f
  <2> QED BY <2>1, <2>2, <2>3
<1>10. \A k \in 1..(n + 1) :
         /\ stack'[k].app = stack[k].app /\ stack[k].app \in Addr /\ Calls(k)' = Calls(k)
         /\ app'[stack'[k].app].prog = app[stack[k].app].prog
         /\ NeededLibs[app'[stack'[k].app].prog] = Libs(stack[k].app)
  <2>1. \A k \in 1..(n + 1) : stack'[k].app = stack[k].app /\ stack[k].app \in Addr /\ Calls(k)' = Calls(k)
    BY <1>1, <1>9, Activations DEF Inv, Calls
  <2> QED BY <1>7, <2>1 DEF Libs
<1>11. \A k \in 1..n : Calls(k) => stack[k].app # a
  BY <1>1 DEF Inv, NestingOK, Calls
<1>12. Typed'
  BY <1>4, <1>7, <1>8, <1>9 DEF Inv, Typed
<1>13. EntriesOK'
  <2>1. \A x \in Addr : IF app'[x].st = "free" THEN app'[x] = Blank ELSE app'[x].prog \in Programs
    BY <1>0, <1>2, <1>7 DEF Inv, EntriesOK
  <2>2. \A x \in Addr : Listed(x)' <=> app'[x].st \in {"starting", "running", "tofree"}
    BY <1>7, <1>8 DEF Inv, EntriesOK
  <2>3. \A l, m \in Addr : app'[l].prog \in Libraries /\ app'[l].prog = app'[m].prog => l = m
    BY <1>7 DEF Inv, EntriesOK, IsLib
  <2> QED BY <1>8, <2>1, <2>2, <2>3 DEF EntriesOK, IsLib
<1>14. ActivationsOK'
  <2>1. ASSUME NEW k \in 1..n
        PROVE  /\ stack'[k].kind # "tcp"
               /\ stack'[k].kind = "load" =>
                    /\ app'[stack'[k].app].st = "loading"
                    /\ stack'[k].next \in 1..(Len(NeededLibs[app'[stack'[k].app].prog]) + 1)
               /\ stack'[k].kind = "main" =>
                    app'[stack'[k].app].st = "starting" /\ app'[stack'[k].app].prog \notin Libraries
    <3>1. k \in 1..Len(stack) /\ k # Len(stack)
      BY <1>1
    <3>2. /\ stack[k].kind # "tcp"
          /\ stack[k].kind = "load" =>
               /\ app[stack[k].app].st = "loading" /\ stack[k].next \in 1..(Len(Libs(stack[k].app)) + 1)
          /\ stack[k].kind = "main" =>
               app[stack[k].app].st = "starting" /\ ~IsLib(stack[k].app)
      BY <3>1 DEF Inv, ActivationsOK
    <3>3. /\ stack'[k] = stack[k] /\ stack[k].app \in Addr
          /\ app'[stack[k].app].prog = app[stack[k].app].prog
          /\ NeededLibs[app'[stack[k].app].prog] = Libs(stack[k].app)
      BY <1>1, <1>9, <1>10
    <3>4. stack[k].kind \in {"load", "main"} => app'[stack[k].app].st = app[stack[k].app].st
      BY <1>7, <1>11, <3>3 DEF Calls
    <3> QED BY <3>2, <3>3, <3>4 DEF IsLib
  <2>2. app'[stack'[n + 1].app].st = "starting"
    BY <1>1, <1>7, <1>9
  <2> QED BY <1>9, <2>1, <2>2 DEF ActivationsOK, Libs, IsLib
<1>15. NestingOK'
  <2>1. ASSUME NEW k \in 1..(n + 1), NEW m \in 1..(n + 1), Calls(k)', Calls(m)', stack'[k].app = stack'[m].app
        PROVE  k = m
    BY <1>1, <1>10, <2>1 DEF Inv, NestingOK
  <2>2. ASSUME NEW k \in 1..(n + 1), NEW m \in 1..(n + 1), stack'[k].kind = "load", k < m
        PROVE  Calls(m)' /\ <<app'[stack'[k].app].prog, app'[stack'[m].app].prog>> \in Depends
    <3>1. stack[k].kind = "load"
      BY <1>9, <2>2
    <3>2. Calls(m) /\ <<app[stack[k].app].prog, app[stack[m].app].prog>> \in Depends
      BY <1>1, <2>2, <3>1 DEF Inv, NestingOK
    <3> QED BY <1>7, <1>10, <3>2
  <2>3. ASSUME NEW k \in 1..(n + 1), stack'[k].kind = "load", k < n + 1
        PROVE  /\ stack'[k].next <= Len(NeededLibs[app'[stack'[k].app].prog])
               /\ app'[stack'[k + 1].app].prog = NeededLibs[app'[stack'[k].app].prog][stack'[k].next]
    <3>1. k \in 1..n /\ stack'[k] = stack[k] /\ k + 1 \in 1..(n + 1)
      BY <1>1, <1>9, <2>3
    <3>2. /\ stack[k].next <= Len(Libs(stack[k].app))
          /\ app[stack[k + 1].app].prog = Libs(stack[k].app)[stack[k].next]
      BY <1>1, <2>3, <3>1 DEF Inv, NestingOK
    <3> QED BY <1>7, <1>10, <3>1, <3>2 DEF Libs
  <2> QED BY <1>9, <2>1, <2>2, <2>3 DEF NestingOK, Libs
<1>16. InProgress'
  <2>1. ASSUME NEW x \in Addr, app'[x].st = "loading"
        PROVE  \E k \in 1..(n + 1) : stack'[k].kind = "load" /\ stack'[k].app = x
    <3>1. x # a /\ app[x].st = "loading"
      BY <1>7, <2>1
    <3>2. PICK k \in 1..(n + 1) : stack[k].kind = "load" /\ stack[k].app = x
      BY <1>1, <3>1 DEF Inv, InProgress, Loads
    <3> QED BY <1>1, <1>9, <3>1, <3>2
  <2>2. ASSUME NEW x \in Addr, app'[x].st = "starting", app'[x].prog \in Libraries
        PROVE  \E k \in 1..(n + 1) : stack'[k].kind = "main" /\ stack'[k].app = x
    <3>1. CASE x = a
      BY <1>1, <1>9, <3>1
    <3>2. CASE x # a
      <4>1. PICK k \in 1..(n + 1) : stack[k].kind = "main" /\ stack[k].app = x
        BY <1>1, <1>7, <2>2, <3>2 DEF Inv, InProgress, Starting, IsLib
      <4> QED BY <1>1, <1>9, <4>1
    <3> QED BY <3>1, <3>2
  <2> QED BY <1>9, <2>1, <2>2 DEF InProgress, IsLib, Loads, Starting
<1>17. RetOK'
  BY <1>4 DEF RetOK
<1>18. HostsOK'
  <2>1. \A b \in Addr : app[b].host # NULL => app[b].host \in Addr
    BY DEF Inv, Typed, Application
  <2> QED BY <1>7, <1>8, <2>1 DEF Inv, HostsOK, IsLib
<1>19. HostBelow'
  <2> SUFFICES ASSUME NEW j \in 1..(n + 1), NEW k \in 1..(n + 1), Calls(k)',
                      stack'[j].kind = "main", stack'[j].app = app'[stack'[k].app].host
               PROVE  j < k
    BY <1>9 DEF HostBelow, Starting
  <2>1. Calls(k) /\ stack[j].app = app[stack[k].app].host /\ stack[k].app \in Addr
    BY <1>7, <1>10
  <2>2. CASE j = n + 1
    <3>1. app[stack[k].app].host = a /\ a # NULL
      BY <1>1, <2>1, <2>2, ProgramsAssumption
    <3> QED BY <1>2, <2>1, <3>1 DEF Inv, HostsOK
  <2>3. CASE j \in 1..n
    BY <1>1, <1>9, <2>1, <2>3 DEF Inv, HostBelow, Starting
  <2> QED BY <1>9, <2>2, <2>3
<1>20. SymbolsOK'
  BY <1>2, <1>4, <1>7 DEF Inv, SymbolsOK, Typed, IsLib
<1>21. ASSUME NEW k \in 1..n, stack[k].kind = "load"
       PROVE  Taken(k)' = Taken(k)
  <2>1. Taken(k)' = {NeededLibs[app'[stack'[k].app].prog][j] : j \in 1..(stack'[k].next - 1)}
    BY <1>4 DEF Taken, Libs
  <2>2. Taken(k) = {Libs(stack[k].app)[j] : j \in 1..(stack[k].next - 1)}
    BY <1>1 DEF Taken
  <2>3. stack'[k] = stack[k] /\ NeededLibs[app'[stack'[k].app].prog] = Libs(stack[k].app)
    BY <1>1, <1>9, <1>10
  <2> QED BY <2>1, <2>2, <2>3
<1>22. NeedsRun'
  <2>1. \A q : (Runs(q) => Runs(q)') /\ (Stays(q) => Stays(q)')
    BY <1>2, <1>7 DEF Runs, Stays
  <2>2. ASSUME NEW x \in Addr, Listed(x)', NEW q \in SeqRange(NeededLibs[app'[x].prog])
        PROVE  Runs(q)'
    <3>1. CASE x = a
      BY <1>0, <1>6, <1>7, <2>1, <2>2, <3>1
    <3>2. CASE x # a
      BY <1>7, <1>8, <2>1, <2>2, <3>2 DEF Inv, NeedsRun, Libs
    <3> QED BY <3>1, <3>2
  <2>3. ASSUME NEW k \in 1..(n + 1), stack'[k].kind = "load", NEW q \in Taken(k)'
        PROVE  Stays(q)'
    <3>1. k \in 1..n /\ stack[k].kind = "load" /\ k \in 1..Len(stack)
      BY <1>1, <1>9, <2>3
    <3> QED BY <1>21, <2>1, <2>3, <3>1 DEF Inv, NeedsRun
  <2> QED BY <1>9, <2>2, <2>3 DEF NeedsRun, Libs
<1>23. UsersOK'
  <2>1. ASSUME NEW q, NEW x \in Addr, Takes(x, q)'
        PROVE  Takes(x, q)
    <3>1. CASE Listed(x)' /\ q \in SeqRange(NeededLibs[app'[x].prog])
      <4>1. CASE x # a
        BY <1>7, <1>8, <3>1, <4>1 DEF Takes, Libs
      <4>2. CASE x = a
        <5>1. PICK j \in 1..Len(Libs(a)) : q = Libs(a)[j]
          BY <1>0, <1>7, <3>1, <4>2 DEF SeqRange, Libs
        <5>2. q \in Taken(n + 1)
          BY <1>1, <1>2, <5>1 DEF Taken
        <5> QED BY <1>1, <4>2, <5>2 DEF Takes, Loads
      <4> QED BY <4>1, <4>2
    <3>2. CASE \E k \in 1..Len(stack') : Loads(k, x)' /\ q \in Taken(k)'
      <4>1. PICK k \in 1..(n + 1) : stack'[k].kind = "load" /\ stack'[k].app = x /\ q \in Taken(k)'
        BY <1>9, <3>2 DEF Loads
      <4>2. k \in 1..n /\ k \in 1..Len(stack) /\ stack[k].kind = "load" /\ stack[k].app = x
        BY <1>1, <1>9, <4>1
      <4> QED BY <1>21, <4>1, <4>2 DEF Takes, Loads
    <3> QED BY <2>1, <3>1, <3>2 DEF Takes, Libs
  <2>2. \A l \in Addr : app'[l].st = "running" => app'[l] = app[l]
    BY <1>7
  <2>3. \A l \in Addr : app[l].users \in Nat
    BY DEF Inv, Typed, Application
  <2>4. phase' = phase /\ pos' = pos
    BY <1>4
  <2>5. \A l \in Addr : app'[l].st = "running" =>
          app[l].st = "running" /\ app'[l].prog = app[l].prog /\ app'[l].users >= app[l].users
    BY <2>2, <2>3
  <2> QED BY <1>12, <2>1, <2>4, <2>5, UsersKept
<1>24. LinksOK'
  <2>1. ASSUME NEW x \in Addr, Listed(x)', NEW g \in app'[x].bound
        PROVE  app'[g].st = "running" /\ <<app'[x].prog, app'[g].prog>> \in Depends /\ Before(apps', g, x)
    <3>1. CASE x = a
      <4>1. g \in B /\ app'[x].prog = p
        BY <1>0, <1>7, <2>1, <3>1
      <4>2. g \in Addr /\ g # a /\ app[g].st = "running" /\ Listed(g) /\ <<p, app[g].prog>> \in Depends
        BY <1>2, <1>5, <4>1
      <4> QED BY <1>7, <1>8, <3>1, <4>1, <4>2
    <3>2. CASE x # a
      <4>1. /\ g \in Addr /\ app[g].st = "running" /\ <<app[x].prog, app[g].prog>> \in Depends
            /\ Before(apps, g, x)
        BY <1>7, <1>8, <2>1, <3>2 DEF Inv, LinksOK, Typed, Application
      <4> QED BY <1>2, <1>7, <1>8, <4>1
    <3> QED BY <3>1, <3>2
  <2> QED BY <2>1 DEF LinksOK, Before
<1>25. PhasesOK'
  <2>1. \A x \in Addr : /\ app'[x].st = "tofree" => ~app'[x].close
                        /\ Open(x)' => app'[x].close
    BY <1>1, <1>2, <1>7 DEF Inv, PhasesOK, Open
  <2>2. phase = "boot" => /\ \A x \in Addr : app'[x].st # "tofree"
                          /\ \A k \in 1..(n + 1) : Calls(k)'
    BY <1>1, <1>7, <1>10 DEF Inv, PhasesOK
  <2> QED BY <1>1, <1>4, <1>9, <2>1, <2>2 DEF Inv, PhasesOK
<1>26. BootsOK'
  <2>1. \A q : Runs(q) => Runs(q)'
    BY <1>2, <1>7 DEF Runs
  <2>2. stack'[1].app = stack[1].app /\ stack' # << >> /\ stack[1].app \in Addr
    BY <1>1, <1>9, <1>10
  <2>3. \A q : Booting(q) => Booting(q)'
    BY <1>4, <1>7, <2>2 DEF Booting
  <2> QED BY <1>4, <2>1, <2>3, BootsKept DEF Inv
<1> QED BY <1>12, <1>13, <1>14, <1>15, <1>16, <1>17, <1>18, <1>19, <1>20, <1>22, <1>23, <1>24, <1>25,
           <1>26 DEF Inv
-----------------------------------------------------------------------------
(***************************************************************************)
(* Main returns true.                                                      *)
(***************************************************************************)
LEMMA MainTrueApp ==
  ASSUME Inv, MainTrue
  PROVE  /\ app' = [app EXCEPT ![Top.app].st = "running", ![Top.app].users = 1]
         /\ apps' = apps /\ symbols' = Exported(Tables, Top.app).symbols
<1> PICK a, S : a = Top.app /\ S = Exported(Tables, a).symbols
  OBVIOUS
<1> DEFINE s == [app |-> app, apps |-> apps, symbols |-> S]
           t == [s EXCEPT !.app[a].st = "running", !.app[a].users = 1]
<1>1. Exported(Tables, a) = s
  <2>1. PICK w : Exported(Tables, a) = [[app |-> app, apps |-> apps, symbols |-> symbols]
                                          EXCEPT !.symbols = w]
    BY DEF Exported, Tables
  <2>2. Exported(Tables, a) = [app |-> app, apps |-> apps, symbols |-> w]
    BY <2>1
  <2> QED BY <2>2
<1>2. app' = t.app /\ apps' = t.apps /\ symbols' = t.symbols
  BY <1>1 DEF MainTrue, Becomes
<1>3. t.apps = apps /\ t.symbols = S
  OBVIOUS
<1>4. t.app = [app EXCEPT ![a].st = "running", ![a].users = 1]
  OBVIOUS
<1> HIDE DEF t
<1> QED BY <1>2, <1>3, <1>4

\* Main has returned true: its exports become symbols, its loader is counted.
LEMMA MainTrueStep ==
  ASSUME Inv, SoundlyLinked, MainTrue
  PROVE  Inv'
<1>0. PICK n, a, p : n = Len(stack) - 1 /\ a = Top.app /\ p = app[a].prog
  OBVIOUS
<1>1. /\ n \in Nat /\ n + 1 = Len(stack) /\ n + 1 \in 1..Len(stack) /\ a \in Addr
      /\ stack[n + 1].kind = "main" /\ stack[n + 1].app = a /\ stack # << >>
      /\ ret = "none" /\ phase \in {"boot", "up"}
  <2>1. Running("main")
    BY DEF MainTrue
  <2>2. stack # << >> /\ ~Running("load")
    BY <2>1 DEF Running
  <2> QED BY <1>0, <2>1, <2>2, TopIs DEF Inv, Typed, RetOK, PhasesOK
<1>2. /\ app[a].st = "starting" /\ Listed(a) /\ p \in Programs /\ a # NULL
      /\ NULL \notin Addr
  <2>1. app[a].st = "starting"
    BY <1>1 DEF Inv, ActivationsOK
  <2> QED BY <1>0, <1>1, <2>1, ProgramsAssumption DEF Inv, EntriesOK
<1>3. PICK S : S = Exported(Tables, a).symbols
  OBVIOUS
<1>4. /\ app' = [app EXCEPT ![a] = [app[a] EXCEPT !.st = "running", !.users = 1]]
      /\ apps' = apps /\ symbols' = S /\ Returns("ok") /\ UNCHANGED <<phase, pos, GSExit>>
  <2>1. app \in [Addr -> Application] /\ app[a] \in Application
    BY <1>1 DEF Inv, Typed
  <2>2. [app EXCEPT ![a].st = "running", ![a].users = 1]
          = [app EXCEPT ![a] = [app[a] EXCEPT !.st = "running", !.users = 1]]
    BY <1>1, <2>1
  <2> QED BY <1>0, <1>3, <2>2, MainTrueApp DEF MainTrue, Env
<1>5. \A y \in S : \/ y \in symbols
                   \/ /\ y.home = a /\ p \in Libraries
                      /\ \/ y.owner = a /\ y.name \in AppExports[p]
                         \/ y.owner = NULL /\ y.name \in SysExports[p]
  <2>1. S = symbols \cup {[name |-> x, home |-> a, owner |-> a] :
                             x \in {m \in AppExports[p] : \A y \in symbols : y.name # m}}
                    \cup {[name |-> x, home |-> a, owner |-> NULL] :
                             x \in {m \in SysExports[p] : \A y \in symbols : y.name # m}}
    BY <1>0, <1>3 DEF Exported, Tables
  <2>2. p \notin Libraries => AppExports[p] = {} /\ SysExports[p] = {}
    BY <1>2 DEF SoundlyLinked, Exports
  <2> QED BY <2>1, <2>2
<1>6. /\ app' \in [Addr -> Application]
      /\ app'[a].st = "running" /\ app'[a].users = 1
      /\ \A x \in Addr : /\ x # a => app'[x] = app[x]
                         /\ app'[x].prog = app[x].prog /\ app'[x].bound = app[x].bound
                         /\ app'[x].close = app[x].close /\ app'[x].host = app[x].host
  <2> DEFINE e == [app[a] EXCEPT !.st = "running", !.users = 1]
  <2>1. app[a] \in Application /\ app \in [Addr -> Application]
    BY <1>1 DEF Inv, Typed
  <2>2. /\ e \in Application /\ e.prog = app[a].prog /\ e.close = app[a].close
        /\ e.host = app[a].host /\ e.st = "running" /\ e.users = 1 /\ e.bound = app[a].bound
    BY <2>1 DEF Application
  <2>3. app' = [app EXCEPT ![a] = e]
    BY <1>4
  <2> HIDE DEF e
  <2>4. app' \in [Addr -> Application] /\ \A x \in Addr : app'[x] = IF x = a THEN e ELSE app[x]
    BY <1>1, <2>1, <2>2, <2>3
  <2> QED BY <1>1, <2>2, <2>4
<1>7. /\ stack' \in Seq(Activation) /\ Len(stack') = n
      /\ \A k \in 1..n : stack'[k] = stack[k]
      /\ IF n > 0 /\ stack[n].kind = "load" THEN ret' = "ok" ELSE ret' = "none"
  BY <1>0, <1>1, <1>4, ReturnsIs DEF Inv
<1>8. \A x : Listed(x)' = Listed(x)
  BY <1>4 DEF Listed
<1>9. CutTo(n)
  <2>1. ASSUME NEW k \in 1..n
        PROVE  stack'[k] = stack[k] /\ (Calls(k) => KeptCall(k))
    <3>1. k \in 1..Len(stack) /\ k # n + 1
      BY <1>1
    <3>2. Calls(k) => stack[k].app # a /\ stack[k].app \in Addr
      BY <1>1, <3>1, Activations DEF Inv, NestingOK, Calls
    <3> QED BY <1>6, <1>7, <3>1, <3>2 DEF KeptCall
  <2> QED BY <1>1, <1>7, <2>1 DEF CutTo
<1>10. Typed'
  <2>1. \A y \in symbols' : y.home \in Addr /\ y.owner \in Addr \cup {NULL}
    BY <1>1, <1>4, <1>5 DEF Inv, Typed
  <2>2. ret' \in {"ok", "fail", "none"}
    BY <1>7
  <2> QED BY <1>4, <1>6, <1>7, <2>1, <2>2 DEF Inv, Typed
<1>11. ActivationsOK' /\ NestingOK' /\ HostBelow'
  BY <1>1, <1>9, <1>10, CutKeepsStack DEF Inv
<1>12. RetOK'
  <2>1. app'[a].prog = app[stack[n + 1].app].prog /\ app'[a].st = "running" /\ n < Len(stack)
    BY <1>1, <1>6
  <2> QED BY <1>1, <1>7, <1>9, <2>1, CutKeepsRet DEF Inv
<1>13. EntriesOK'
  <2>1. \A x \in Addr : IF app'[x].st = "free" THEN app'[x] = Blank ELSE app'[x].prog \in Programs
    BY <1>0, <1>2, <1>6 DEF Inv, EntriesOK
  <2>2. \A x \in Addr : Listed(x)' <=> app'[x].st \in {"starting", "running", "tofree"}
    BY <1>2, <1>6, <1>8 DEF Inv, EntriesOK
  <2>3. \A l, m \in Addr : app'[l].prog \in Libraries /\ app'[l].prog = app'[m].prog => l = m
    BY <1>6 DEF Inv, EntriesOK, IsLib
  <2> QED BY <1>4, <2>1, <2>2, <2>3 DEF Inv, EntriesOK, IsLib, Distinct
<1>14. InProgress'
  <2>1. ASSUME NEW x \in Addr, app'[x].st = "loading"
        PROVE  \E k \in 1..n : stack'[k].kind = "load" /\ stack'[k].app = x
    <3>1. x # a /\ app[x].st = "loading"
      BY <1>6, <2>1
    <3>2. PICK k \in 1..(n + 1) : stack[k].kind = "load" /\ stack[k].app = x
      BY <1>1, <3>1 DEF Inv, InProgress, Loads
    <3> QED BY <1>1, <1>7, <3>1, <3>2
  <2>2. ASSUME NEW x \in Addr, app'[x].st = "starting", app'[x].prog \in Libraries
        PROVE  \E k \in 1..n : stack'[k].kind = "main" /\ stack'[k].app = x
    <3>1. x # a /\ app[x].st = "starting" /\ IsLib(x)
      BY <1>6, <2>2 DEF IsLib
    <3>2. PICK k \in 1..(n + 1) : stack[k].kind = "main" /\ stack[k].app = x
      BY <1>1, <3>1 DEF Inv, InProgress, Starting
    <3> QED BY <1>1, <1>7, <3>1, <3>2
  <2> QED BY <1>7, <2>1, <2>2 DEF InProgress, IsLib, Loads, Starting
<1>15. HostsOK'
  <2>1. \A b \in Addr : app[b].host # NULL => app[b].host \in Addr
    BY DEF Inv, Typed, Application
  <2> QED BY <1>6, <1>8, <2>1 DEF Inv, HostsOK, IsLib
<1>16. SymbolsOK'
  <2>1. \A y \in symbols : y.home \in Addr /\ y.home # a
    BY <1>2 DEF Inv, SymbolsOK, Typed
  <2> QED BY <1>0, <1>1, <1>4, <1>5, <1>6, <2>1 DEF Inv, SymbolsOK, IsLib
<1>17. \A q : /\ Runs(q) => Runs(q)'
              /\ Stays(q) => Stays(q)'
  BY <1>2, <1>6 DEF Runs, Stays
<1>18. Stays(p)'
  BY <1>0, <1>1, <1>6 DEF Stays
<1>19. ASSUME NEW k \in 1..n, stack[k].kind = "load"
       PROVE  Taken(k)' = Taken(k) \/ (k = n /\ Taken(k)' = Taken(k) \cup {p})
  <2>1. /\ k \in 1..Len(stack) /\ k < Len(stack) /\ stack'[k] = stack[k] /\ KeptCall(k)
    BY <1>1, <1>9, <1>19 DEF CutTo, Calls
  <2>2. NeededLibs[app'[stack'[k].app].prog] = Libs(stack[k].app) /\ stack[k].next \in Nat
    BY <1>1, <2>1, Activations DEF KeptCall, Libs, Inv
  <2>3. Taken(k) = {Libs(stack[k].app)[j] : j \in 1..(stack[k].next - 1)}
    BY <1>1 DEF Taken
  <2>4. CASE k = n /\ ret' = "ok"
    <3>1. Taken(k)' = {NeededLibs[app'[stack'[k].app].prog][j] : j \in 1..stack'[k].next}
      BY <1>7, <2>4 DEF Taken, Libs
    <3>2. p = Libs(stack[k].app)[stack[k].next]
      BY <1>0, <1>1, <1>19, <2>1, <2>4 DEF Inv, NestingOK
    <3>3. stack[k].next \in 1..stack[k].next
      BY <1>19, <2>1, <2>2 DEF Inv, ActivationsOK
    <3>4. \A j \in 1..stack[k].next : j = stack[k].next \/ j \in 1..(stack[k].next - 1)
      BY <2>2
    <3>5. \A j \in 1..(stack[k].next - 1) : j \in 1..stack[k].next
      BY <2>2
    <3> QED BY <2>1, <2>2, <2>3, <2>4, <3>1, <3>2, <3>3, <3>4, <3>5
  <2>5. CASE ~ (k = n /\ ret' = "ok")
    <3>1. Taken(k)' = {NeededLibs[app'[stack'[k].app].prog][j] : j \in 1..(stack'[k].next - 1)}
      BY <1>7, <2>5 DEF Taken, Libs
    <3> QED BY <2>1, <2>2, <2>3, <3>1
  <2> QED BY <2>4, <2>5
<1>20. NeedsRun'
  <2>1. ASSUME NEW x \in Addr, Listed(x)', NEW q \in SeqRange(NeededLibs[app'[x].prog])
        PROVE  Runs(q)'
    BY <1>6, <1>8, <1>17, <2>1 DEF Inv, NeedsRun, Libs
  <2>2. ASSUME NEW k \in 1..n, stack'[k].kind = "load", NEW q \in Taken(k)'
        PROVE  Stays(q)'
    <3>1. k \in 1..Len(stack) /\ stack[k].kind = "load"
      BY <1>1, <1>7, <2>2
    <3>2. q \in Taken(k) \/ q = p
      BY <1>19, <2>2, <3>1
    <3> QED BY <1>17, <1>18, <3>1, <3>2 DEF Inv, NeedsRun
  <2> QED BY <1>7, <2>1, <2>2 DEF NeedsRun, Libs
<1>21. ASSUME NEW q, NEW x \in Addr, Takes(x, q)'
       PROVE  Takes(x, q) \/ (n > 0 /\ x = stack[n].app /\ q = p)
  <2>1. CASE Listed(x)' /\ q \in SeqRange(NeededLibs[app'[x].prog])
    BY <1>6, <1>8, <2>1 DEF Takes, Libs
  <2>2. CASE \E k \in 1..Len(stack') : Loads(k, x)' /\ q \in Taken(k)'
    <3>1. PICK k \in 1..n : stack'[k].kind = "load" /\ stack'[k].app = x /\ q \in Taken(k)'
      BY <1>7, <2>2 DEF Loads
    <3>2. k \in 1..Len(stack) /\ stack[k].kind = "load" /\ stack[k].app = x
      BY <1>1, <1>7, <3>1
    <3>3. q \in Taken(k) \/ (k = n /\ q = p)
      BY <1>19, <3>1, <3>2
    <3> QED BY <1>1, <3>1, <3>2, <3>3 DEF Takes, Loads
  <2> QED BY <1>21, <2>1, <2>2 DEF Takes, Libs
<1>22. UsersOK'
  <2>1. ASSUME NEW l \in Addr, NEW q, q = app[l].prog, app'[l].st = "running", q \in Libraries, l # a
        PROVE  app'[l].users >= Cardinality(Holders(q)') + Boots(q)'
    <3>0. Boots(q) \in Nat /\ Boots(q)' = Boots(q)
      BY <1>4, BootsAre
    <3>1. q # p
      BY <1>0, <1>1, <2>1 DEF Inv, EntriesOK, IsLib
    <3>2. \A x \in Addr : Takes(x, q)' => Takes(x, q)
      BY <1>21, <3>1
    <3>3. /\ Cardinality(Holders(q)') <= Cardinality(Holders(q))
          /\ Cardinality(Holders(q)') \in Nat /\ Cardinality(Holders(q)) \in Nat
      BY <3>2, FewerHolders, HoldersFinite
    <3>4. app'[l] = app[l] /\ app[l].users >= Cardinality(Holders(q)) + Boots(q) /\ app[l].users \in Nat
      BY <1>6, <2>1 DEF Inv, UsersOK, IsLib, Typed, Application
    <3> QED BY <3>0, <3>3, <3>4
  <2>2. ASSUME p \in Libraries
        PROVE  app'[a].users >= Cardinality(Holders(p)') + Boots(p)'
    <3>1. ~Stays(p) /\ ~Runs(p)
      BY <1>0, <1>1, <1>2, <2>2 DEF Inv, EntriesOK, IsLib, Stays, Runs
    <3>2. \A x \in Addr : ~Takes(x, p)
      BY <3>1 DEF Takes, Inv, NeedsRun, Loads
    <3>3. Holders(p)' \in SUBSET {stack[n].app} /\ (n = 0 => Holders(p)' = {})
      BY <1>1, <1>21, <3>2 DEF Holders
    <3>4. IsFiniteSet({stack[n].app}) /\ Cardinality({stack[n].app}) = 1
      BY FS_Singleton
    <3>5. Cardinality(Holders(p)') <= 1 /\ Cardinality(Holders(p)') \in Nat
      BY <3>3, <3>4, FS_Subset, FS_CardinalityType
    <3>6. CASE n = 0
      <4>1. Cardinality(Holders(p)') = 0
        BY <3>3, <3>6, FS_EmptySet
      <4>2. Boots(p)' \in {0, 1}
        BY BootsAre
      <4> QED BY <1>6, <4>1, <4>2
    <3>7. CASE n > 0
      <4>1. ~Booting(p)
        <5> SUFFICES ASSUME phase = "boot", app[stack[1].app].prog = p
                     PROVE  FALSE
          BY DEF Booting
        <5>1. 1 \in 1..Len(stack) /\ 1 # n + 1 /\ stack[1].app \in Addr
          BY <1>1, <3>7, Activations DEF Inv
        <5>2. Calls(1) /\ Calls(n + 1)
          BY <1>1, <5>1 DEF Inv, PhasesOK
        <5>3. stack[1].app = a
          BY <1>0, <1>1, <2>2, <5>1 DEF Inv, EntriesOK, IsLib
        <5> QED BY <1>1, <5>1, <5>2, <5>3 DEF Inv, NestingOK
      <4>2. ~Booted(p)'
        BY <1>4, <2>2, <3>1, <4>1, BootsAre DEF Inv, BootsOK
      <4>3. Boots(p)' = 0
        BY <4>2 DEF Boots
      <4> QED BY <1>6, <3>5, <4>3
    <3> QED BY <1>1, <3>6, <3>7
  <2>3. \A l \in Addr : app'[l].prog = app[l].prog
    BY <1>6
  <2> QED BY <1>0, <2>1, <2>2, <2>3 DEF UsersOK, IsLib
<1>23. LinksOK'
  <2>1. ASSUME NEW x \in Addr, Listed(x)', NEW g \in app'[x].bound
        PROVE  app'[g].st = "running" /\ <<app'[x].prog, app'[g].prog>> \in Depends /\ Before(apps, g, x)
    <3>1. g \in Addr /\ app[g].st = "running" /\ <<app[x].prog, app[g].prog>> \in Depends /\ Before(apps, g, x)
      BY <1>6, <1>8, <2>1 DEF Inv, LinksOK, Typed, Application
    <3> QED BY <1>6, <3>1
  <2> QED BY <1>4, <2>1 DEF LinksOK, Before
<1>24. PhasesOK'
  <2>1. \A x \in Addr : /\ app'[x].st = "tofree" => ~app'[x].close
                        /\ Open(x)' => app'[x].close
    BY <1>1, <1>2, <1>6 DEF Inv, PhasesOK, Open
  <2>2. phase = "boot" => /\ \A x \in Addr : app'[x].st # "tofree"
                          /\ \A k \in 1..n : Calls(k)'
    BY <1>1, <1>6, <1>7 DEF Inv, PhasesOK, Calls
  <2>3. ret' # "fail"
    BY <1>7
  <2> QED BY <1>1, <1>4, <1>7, <2>1, <2>2, <2>3 DEF Inv, PhasesOK
<1>25. BootsOK'
  <2>1. ASSUME phase = "boot", NEW q, Booting(q)
        PROVE  Booting(q)' \/ Runs(q)'
    <3>1. app[stack[1].app].prog = q /\ 1 \in 1..(n + 1) /\ stack[1].app \in Addr
      BY <1>1, <2>1, Activations DEF Booting, Inv
    <3>2. CASE n = 0
      <4>1. stack[1].app = a
        BY <1>1, <3>2
      <4> QED BY <1>6, <3>1, <4>1 DEF Runs
    <3>3. CASE n > 0
      <4>1. stack'[1] = stack[1] /\ stack' # << >>
        BY <1>1, <1>7, <3>3
      <4> QED BY <1>4, <1>6, <2>1, <3>1, <4>1 DEF Booting
    <3> QED BY <1>1, <3>2, <3>3
  <2> QED BY <1>4, <1>17, <2>1, BootsKept DEF Inv
<1> QED BY <1>10, <1>11, <1>12, <1>13, <1>14, <1>15, <1>16, <1>20, <1>22, <1>23, <1>24, <1>25 DEF Inv
-----------------------------------------------------------------------------
(***************************************************************************)
(* CloseApp, UnLoadLibraries and FreeApplication.                          *)
(***************************************************************************)
Tab(f, q, y) == [app |-> f, apps |-> q, symbols |-> y]
FreedApps(f, A) == [x \in Addr |-> IF x \in A THEN Blank ELSE f[x]]
ClosedApps(f, A) == [x \in Addr |-> IF x \in A THEN [f[x] EXCEPT !.close = FALSE, !.st = "tofree"] ELSE f[x]]
OthersSymbols(y, A) == {z \in y : z.owner \notin A}

\* Freed, on tables written out.
LEMMA FreedIs ==
  ASSUME NEW f, NEW q, NEW y, NEW A
  PROVE  Freed(Tab(f, q, y), A) = Tab(FreedApps(f, A), Without(q, A), y)
<1>1. PICK g, w : /\ g = FreedApps(f, A)
                  /\ w = Without(q, A)
  OBVIOUS
<1>2. Tab(f, q, y).app = f /\ Tab(f, q, y).apps = q
  BY DEF Tab
<1>3. Freed(Tab(f, q, y), A) = [Tab(f, q, y) EXCEPT !.app = g, !.apps = w]
  BY <1>1, <1>2 DEF Freed, FreedApps
<1>4. [Tab(f, q, y) EXCEPT !.app = g, !.apps = w] = Tab(g, w, y)
  <2>1. [Tab(f, q, y) EXCEPT !.app = g] = Tab(g, q, y)
    BY DEF Tab
  <2>2. [Tab(g, q, y) EXCEPT !.apps = w] = Tab(g, w, y)
    BY DEF Tab
  <2>3. [Tab(f, q, y) EXCEPT !.app = g, !.apps = w] = [[Tab(f, q, y) EXCEPT !.app = g] EXCEPT !.apps = w]
    OBVIOUS
  <2> QED BY <2>1, <2>2, <2>3
<1> QED BY <1>1, <1>3, <1>4

\* Closed, on tables written out.
LEMMA ClosedIs ==
  ASSUME NEW f, NEW q, NEW y, NEW A
  PROVE  Closed(Tab(f, q, y), A) = Tab(ClosedApps(f, A), q, OthersSymbols(y, A))
<1>1. PICK g, w : g = ClosedApps(f, A) /\ w = OthersSymbols(y, A)
  OBVIOUS
<1>2. Tab(f, q, y).app = f /\ Tab(f, q, y).symbols = y
  BY DEF Tab
<1>3. Closed(Tab(f, q, y), A) = [Tab(f, q, y) EXCEPT !.app = g, !.symbols = w]
  BY <1>1, <1>2 DEF Closed, ClosedApps, OthersSymbols
<1>4. [Tab(f, q, y) EXCEPT !.app = g, !.symbols = w] = Tab(g, q, w)
  <2>1. [Tab(f, q, y) EXCEPT !.app = g] = Tab(g, q, y)
    BY DEF Tab
  <2>2. [Tab(g, q, y) EXCEPT !.symbols = w] = Tab(g, q, w)
    BY DEF Tab
  <2>3. [Tab(f, q, y) EXCEPT !.app = g, !.symbols = w] = [[Tab(f, q, y) EXCEPT !.app = g] EXCEPT !.symbols = w]
    OBVIOUS
  <2> QED BY <2>1, <2>2, <2>3
<1> QED BY <1>1, <1>3, <1>4

Used(a) == {l \in Addr : Listed(l) /\ app[l].prog \in SeqRange(Libs(a))}
Hosted(a) == {b \in Addr : app[b].host = a}

\* A library that loses a user; with the last one it is closed.
LosesUser(e) ==
  IF e.users = 1 THEN [e EXCEPT !.users = 0, !.close = FALSE, !.st = "tofree"]
                 ELSE [e EXCEPT !.users = @ - 1]

\* UnLoadLibraries takes a user from each library of a, and closes those it was the last of.
LEMMA UnLoadIs ==
  ASSUME NEW f \in [Addr -> Application], NEW q \in Seq(Addr), NEW y, NEW a \in Addr,
         f[a].prog \in Programs,
         \A l, m \in SeqRange(q) : f[l].prog \in Libraries /\ f[l].prog = f[m].prog => l = m
  PROVE  LET L == {l \in SeqRange(q) : f[l].prog \in SeqRange(NeededLibs[f[a].prog])}
         IN UnLoadLibraries(Tab(f, q, y), a)
              = Tab([x \in Addr |-> IF x \in L THEN LosesUser(f[x]) ELSE f[x]],
                    q, OthersSymbols(y, {x \in L : f[x].users = 1}))
<1> DEFINE L == {l \in SeqRange(q) : f[l].prog \in SeqRange(NeededLibs[f[a].prog])}
           s == Tab(f, q, y)
           libs == {GetLibrary(s, u) : u \in SeqRange(NeededLibs[f[a].prog])} \ {NULL}
<1>1. s.app = f /\ s.apps = q /\ s.symbols = y
  BY DEF Tab
<1>2. SeqRange(q) \subseteq Addr /\ SeqRange(NeededLibs[f[a].prog]) \subseteq Libraries /\ NULL \notin Addr
  BY ProgramsAssumption DEF SeqRange
<1>3. libs = L
  <2>1. ASSUME NEW u
        PROVE  LET l == GetLibrary(s, u)
               IN IF \E x \in SeqRange(q) : f[x].prog = u
                  THEN l \in SeqRange(q) /\ f[l].prog = u ELSE l = NULL
    <3> HIDE DEF s
    <3> QED BY <1>1, GetLibraryIs
  <2>2. ASSUME NEW l \in L
        PROVE  l \in libs
    <3>1. PICK u : u = f[l].prog
      OBVIOUS
    <3>2. PICK m : m = GetLibrary(s, u)
      OBVIOUS
    <3>3. u \in SeqRange(NeededLibs[f[a].prog]) /\ l \in SeqRange(q)
      BY <3>1
    <3>4. m \in SeqRange(q) /\ f[m].prog = u
      BY <2>1, <3>1, <3>2, <3>3
    <3>5. m = l
      BY <1>2, <3>1, <3>3, <3>4
    <3>6. l # NULL
      BY <1>2, <3>3
    <3> HIDE DEF s, L
    <3> QED BY <3>2, <3>3, <3>5, <3>6
  <2>3. ASSUME NEW l \in libs
        PROVE  l \in L
    <3>1. PICK u \in SeqRange(NeededLibs[f[a].prog]) : l = GetLibrary(s, u) /\ l # NULL
      <4> HIDE DEF s
      <4> QED BY <2>3
    <3>2. l \in SeqRange(q) /\ f[l].prog = u
      BY <2>1, <3>1
    <3> QED BY <3>1, <3>2
  <2> HIDE DEF libs, L
  <2> QED BY <2>2, <2>3
<1> DEFINE g == [x \in Addr |-> IF x \in L THEN [f[x] EXCEPT !.users = @ - 1] ELSE f[x]]
           C == {x \in L : g[x].users = 0}
<1>4. UnLoadLibraries(s, a) = Closed(Tab(g, q, y), C)
  <2>1. [s EXCEPT !.app = g] = Tab(g, q, y)
    <3> HIDE DEF g
    <3> QED BY DEF Tab
  <2>2. Tab(g, q, y).app = g
    BY DEF Tab
  <2>3. UnLoadLibraries(s, a)
          = LET less == [s EXCEPT !.app = [x \in Addr |-> IF x \in libs
                                   THEN [s.app[x] EXCEPT !.users = @ - 1] ELSE s.app[x]]]
            IN Closed(less, {x \in libs : less.app[x].users = 0})
    <3> HIDE DEF s
    <3> QED BY <1>1 DEF UnLoadLibraries
  <2> HIDE DEF libs, L, s
  <2> QED BY <1>1, <1>3, <2>1, <2>2, <2>3
<1>5. /\ L \subseteq Addr
      /\ \A x \in L : f[x] \in Application /\ f[x].users \in Nat /\ g[x] = [f[x] EXCEPT !.users = @ - 1]
  BY <1>2 DEF Application
<1>6. \A x \in L : g[x].users = f[x].users - 1
  <2> HIDE DEF g, L
  <2> QED BY <1>5 DEF Application
<1>7. C = {x \in L : f[x].users = 1}
  <2>1. \A x \in L : g[x].users = 0 <=> f[x].users = 1
    <3> HIDE DEF g, L
    <3>1. \A x \in L : f[x].users \in Nat
      BY <1>5
    <3> QED BY <1>6, <3>1
  <2> HIDE DEF g, L
  <2> QED BY <2>1
<1>8. ASSUME NEW x \in Addr
      PROVE  (IF x \in C THEN [g[x] EXCEPT !.close = FALSE, !.st = "tofree"] ELSE g[x])
               = IF x \in L THEN LosesUser(f[x]) ELSE f[x]
  <2>1. CASE x \in C
    <3>1. x \in L /\ f[x].users = 1 /\ f[x] \in Application /\ g[x] = [f[x] EXCEPT !.users = @ - 1]
      BY <1>5, <1>7, <2>1
    <3>2. [[f[x] EXCEPT !.users = @ - 1] EXCEPT !.close = FALSE, !.st = "tofree"]
            = [f[x] EXCEPT !.users = 0, !.close = FALSE, !.st = "tofree"]
      BY <3>1 DEF Application
    <3> HIDE DEF g, L, C
    <3> QED BY <2>1, <3>1, <3>2 DEF LosesUser
  <2>2. CASE x \notin C
    <3>1. x \in L => f[x].users # 1
      BY <1>7, <2>2
    <3>2. x \notin L => g[x] = f[x]
      OBVIOUS
    <3> HIDE DEF g, L, C
    <3> QED BY <1>5, <2>2, <3>1, <3>2 DEF LosesUser
  <2> QED BY <2>1, <2>2
<1> HIDE DEF L, g, C
<1>9. ClosedApps(g, C) = [x \in Addr |-> IF x \in L THEN LosesUser(f[x]) ELSE f[x]]
  BY <1>8 DEF ClosedApps
<1>10. UnLoadLibraries(s, a) = Tab(ClosedApps(g, C), q, OthersSymbols(y, C))
  <2> HIDE DEF s
  <2> QED BY <1>4, ClosedIs
<1> QED BY <1>7, <1>9, <1>10 DEF L

\* FreeHostedApp misses nothing of the one program that a console may host.
LEMMA FreeHostedAppIs ==
  ASSUME Inv, NEW a \in Addr, \A b \in Hosted(a) : Listed(b)
  PROVE  FreeHostedApp(Tables, a) = Tab(FreedApps(app, Hosted(a)), Without(apps, Hosted(a)), symbols)
<1> DEFINE n == Len(apps)
           hosted == {b \in SeqRange(apps) : app[b].host = a}
           missed == IF n > 1 /\ apps[n] \in hosted THEN {apps[n - 1]} ELSE {}
<1>1. apps \in Seq(Addr) /\ n \in Nat /\ \A k \in 1..n : apps[k] \in Addr
  BY DEF Inv, Typed
<1>2. hosted = Hosted(a)
  <2>1. SeqRange(apps) \subseteq Addr
    BY <1>1 DEF SeqRange
  <2> QED BY <2>1 DEF Hosted, Listed
<1>3. hosted \ missed = hosted
  <2> SUFFICES ASSUME n > 1, apps[n] \in hosted, apps[n - 1] \in hosted
               PROVE  FALSE
    OBVIOUS
  <2>1. apps[n] \in Addr /\ apps[n - 1] \in Addr /\ n \in 1..n /\ n - 1 \in 1..n
    BY <1>1
  <2>2. app[apps[n]].host = a /\ app[apps[n - 1]].host = a
    OBVIOUS
  <2>3. a # NULL
    BY ProgramsAssumption
  <2>4. apps[n] = apps[n - 1]
    BY <2>1, <2>2, <2>3 DEF Inv, HostsOK
  <2>5. n = n - 1
    BY <2>1, <2>4 DEF Inv, EntriesOK, Distinct
  <2> QED BY <1>1, <2>5
<1>4. FreeHostedApp(Tables, a) = Freed(Tables, hosted \ missed)
  BY DEF FreeHostedApp, Tables
<1>5. Tables = Tab(app, apps, symbols)
  BY DEF Tables, Tab
<1> HIDE DEF hosted, missed
<1> QED BY <1>2, <1>3, <1>4, <1>5, FreedIs

(***************************************************************************)
(* What leaves the list: a, with all it hosts.                             *)
(***************************************************************************)
Gone(a) == Hosted(a) \cup {a}

Retires(a) ==
  /\ \A x \in Addr : app'[x] = IF x \in Gone(a) THEN Blank
                               ELSE IF x \in Used(a) THEN LosesUser(app[x]) ELSE app[x]
  /\ app' \in [Addr -> Application]
  /\ apps' \in Seq(Addr) /\ SeqRange(apps') = SeqRange(apps) \ Gone(a) /\ Distinct(apps')
  /\ \A x, y : x \notin Gone(a) /\ y \notin Gone(a) /\ Before(apps, x, y) => Before(apps', x, y)
  /\ symbols' \subseteq symbols
  /\ \A y \in symbols' : y.owner \notin {l \in Used(a) : app[l].users = 1}

\* A library that loses a user.
LEMMA LosesUserIs ==
  ASSUME NEW e \in Application, e.users >= 1
  PROVE  /\ LosesUser(e) \in Application /\ LosesUser(e).prog = e.prog /\ LosesUser(e).host = e.host
         /\ LosesUser(e).bound = e.bound /\ LosesUser(e).users = e.users - 1
         /\ IF e.users = 1 THEN LosesUser(e).st = "tofree" /\ ~LosesUser(e).close
                           ELSE LosesUser(e).st = e.st /\ LosesUser(e).close = e.close
<1>1. CASE e.users = 1
  <2> DEFINE d == [e EXCEPT !.users = 0, !.close = FALSE, !.st = "tofree"]
  <2>1. LosesUser(e) = d
    BY <1>1 DEF LosesUser
  <2>2. /\ d \in Application /\ d.prog = e.prog /\ d.host = e.host /\ d.bound = e.bound
        /\ d.users = 0 /\ d.st = "tofree" /\ d.close = FALSE
    BY DEF Application
  <2> HIDE DEF d
  <2> QED BY <1>1, <2>1, <2>2
<1>2. CASE e.users # 1
  <2>1. e.users - 1 \in Nat
    BY DEF Application
  <2> QED BY <1>2, <2>1 DEF LosesUser, Application
<1> QED BY <1>1, <1>2

\* The libraries of what is in the list run, and have a user.
LEMMA UsedIs ==
  ASSUME Inv, SoundlyLinked, NEW a \in Addr, Listed(a), NEW l \in Used(a)
  PROVE  /\ l \in Addr /\ Listed(l) /\ l # a /\ IsLib(l) /\ app[l].st = "running"
         /\ app[l].prog \in SeqRange(Libs(a))
         /\ app[l] \in Application /\ app[l].users \in Nat /\ app[l].users >= 1
         /\ app[l].users >= Cardinality(Holders(app[l].prog)) + Boots(app[l].prog)
         /\ l \notin Gone(a)
<1> PICK p, q : p = app[a].prog /\ q = app[l].prog
  OBVIOUS
<1>1. l \in Addr /\ Listed(l) /\ q \in SeqRange(Libs(a)) /\ app[l] \in Application /\ app[l].users \in Nat
  BY DEF Used, Inv, Typed, Application
<1>2. p \in Programs
  BY DEF Inv, EntriesOK
<1>3. q \in Libraries
  BY <1>1, <1>2, ProgramsAssumption DEF Libs, SeqRange
<1>4. <<p, q>> \in Depends
  BY <1>1, <1>2, <1>3, DependsIs DEF Libs
<1>5. p # q
  BY <1>2, <1>4 DEF SoundlyLinked
<1>6. app[l].st = "running"
  <2>1. Runs(q)
    BY <1>1 DEF Inv, NeedsRun
  <2> QED BY <1>1, <1>3, <2>1 DEF Runs, Inv, EntriesOK, IsLib
<1>7. app[l].users >= Cardinality(Holders(q)) + Boots(q) /\ Boots(q) \in Nat
  BY <1>1, <1>3, <1>6, BootsAre DEF Inv, UsersOK, IsLib
<1>8. Cardinality(Holders(q)) >= 1 /\ Cardinality(Holders(q)) \in Nat
  <2>1. a \in Holders(q)
    BY <1>1 DEF Holders, Takes
  <2> QED BY <2>1, HoldersFinite, FS_EmptySet
<1>9. l \notin Gone(a)
  <2>1. l # a /\ a # NULL
    BY <1>5, ProgramsAssumption
  <2> QED BY <1>1, <1>3, <2>1 DEF Gone, Hosted, Inv, HostsOK, IsLib
<1> QED BY <1>1, <1>3, <1>5, <1>6, <1>7, <1>8, <1>9 DEF IsLib

\* BreakApp, and a Main that has failed: a retires.
LEMMA DiscardedIs ==
  ASSUME Inv, SoundlyLinked, NEW a \in Addr, Listed(a), \A b \in Hosted(a) : Listed(b),
         Becomes(Discarded(Tables, a))
  PROVE  Retires(a)
<1>1. PICK H, f, q : H = Hosted(a) /\ f = FreedApps(app, H) /\ q = Without(apps, H)
  OBVIOUS
<1>2. PICK g, y : g = ClosedApps(f, {a}) /\ y = OthersSymbols(symbols, {a})
  OBVIOUS
<1>3. CloseApp(Tables, a) = Tab(g, q, y)
  BY <1>1, <1>2, FreeHostedAppIs, ClosedIs DEF CloseApp
<1>4. /\ app \in [Addr -> Application] /\ apps \in Seq(Addr) /\ app[a].prog \in Programs
      /\ a \notin H /\ NULL \notin Addr
  <2>1. /\ app \in [Addr -> Application] /\ apps \in Seq(Addr) /\ app[a].prog \in Programs
        /\ NULL \notin Addr /\ a # NULL
    BY ProgramsAssumption DEF Inv, Typed, EntriesOK
  <2>2. a \notin Hosted(a)
    BY <2>1 DEF Hosted, Inv, HostsOK
  <2> QED BY <1>1, <2>1, <2>2
<1>5. /\ f \in [Addr -> Application]
      /\ \A x \in Addr : f[x] = IF x \in H THEN Blank ELSE app[x]
  <2>1. Blank \in Application
    BY DEF Blank, Application
  <2> QED BY <1>1, <1>4, <2>1 DEF FreedApps
<1>6. /\ g \in [Addr -> Application]
      /\ \A x \in Addr : x # a => g[x] = f[x]
      /\ g[a].prog = app[a].prog
  <2> DEFINE e == [f[a] EXCEPT !.close = FALSE, !.st = "tofree"]
  <2>1. f[a] = app[a] /\ f[a] \in Application
    BY <1>4, <1>5
  <2>2. e \in Application /\ e.prog = app[a].prog
    BY <2>1 DEF Application
  <2>3. g = [x \in Addr |-> IF x = a THEN e ELSE f[x]]
    <3>1. \A x \in Addr : (IF x \in {a} THEN [f[x] EXCEPT !.close = FALSE, !.st = "tofree"] ELSE f[x])
                            = IF x = a THEN e ELSE f[x]
      OBVIOUS
    <3> QED BY <1>2, <3>1 DEF ClosedApps
  <2> HIDE DEF e
  <2> QED BY <1>5, <2>2, <2>3
<1>7. /\ q \in Seq(Addr) /\ SeqRange(q) = SeqRange(apps) \ H /\ Distinct(q)
      /\ \A x, z : x \notin H /\ z \notin H /\ Before(apps, x, z) => Before(q, x, z)
  BY <1>1, <1>4, WithoutIs DEF Inv, EntriesOK
<1>8. SeqRange(q) \subseteq Addr /\ SeqRange(apps) \subseteq Addr
  BY <1>4, <1>7 DEF SeqRange
<1>9. \A l \in SeqRange(q) : l \in Addr /\ g[l].prog = app[l].prog
  BY <1>5, <1>6, <1>7, <1>8
<1>10. \A l, m \in SeqRange(q) : g[l].prog \in Libraries /\ g[l].prog = g[m].prog => l = m
  BY <1>9 DEF Inv, EntriesOK, IsLib
<1>11. PICK L : L = {l \in SeqRange(q) : g[l].prog \in SeqRange(NeededLibs[g[a].prog])}
  OBVIOUS
<1>12. PICK u, v : /\ u = [x \in Addr |-> IF x \in L THEN LosesUser(g[x]) ELSE g[x]]
                   /\ v = OthersSymbols(y, {x \in L : g[x].users = 1})
  OBVIOUS
<1>13. UnLoadLibraries(CloseApp(Tables, a), a) = Tab(u, q, v)
  BY <1>3, <1>4, <1>6, <1>7, <1>10, <1>11, <1>12, UnLoadIs
<1>14. Discarded(Tables, a) = Tab(FreedApps(u, {a}), Without(q, {a}), v)
  BY <1>13, FreedIs DEF Discarded
<1>15. /\ app' = FreedApps(u, {a}) /\ apps' = Without(q, {a}) /\ symbols' = v
  <2>1. \A i, j, k : Tab(i, j, k).app = i /\ Tab(i, j, k).apps = j /\ Tab(i, j, k).symbols = k
    BY DEF Tab
  <2> QED BY <1>14, <2>1 DEF Becomes
<1>16. L = Used(a)
  <2>1. ASSUME NEW l \in Used(a)
        PROVE  l \in L
    <3>1. l \in Addr /\ Listed(l) /\ app[l].prog \in SeqRange(Libs(a)) /\ l \notin H
      BY <1>1, UsedIs DEF Gone
    <3> QED BY <1>6, <1>7, <1>9, <1>11, <3>1 DEF Listed, Libs
  <2>2. ASSUME NEW l \in L
        PROVE  l \in Used(a)
    BY <1>6, <1>7, <1>9, <1>11 DEF Used, Listed, Libs
  <2> QED BY <2>1, <2>2
<1>17. \A l \in Used(a) : l \in Addr /\ l # a /\ l \notin H /\ g[l] = app[l]
  BY <1>1, <1>5, <1>6, UsedIs DEF Gone
<1>18. ASSUME NEW x \in Addr
       PROVE  /\ app'[x] = IF x \in Gone(a) THEN Blank
                           ELSE IF x \in Used(a) THEN LosesUser(app[x]) ELSE app[x]
              /\ app'[x] \in Application
  <2>1. Blank \in Application
    BY DEF Blank, Application
  <2>2. app'[x] = IF x = a THEN Blank ELSE u[x]
    BY <1>15 DEF FreedApps
  <2>3. u[x] = IF x \in Used(a) THEN LosesUser(g[x]) ELSE g[x]
    BY <1>12, <1>16
  <2>4. x # a => g[x] = IF x \in H THEN Blank ELSE app[x]
    BY <1>5, <1>6
  <2>5. x \in Used(a) => LosesUser(app[x]) \in Application
    BY UsedIs, LosesUserIs
  <2> QED BY <1>1, <1>4, <1>17, <2>1, <2>2, <2>3, <2>4, <2>5 DEF Gone
<1>19. app' \in [Addr -> Application]
  <2>1. app' = [x \in Addr |-> app'[x]]
    BY <1>15 DEF FreedApps
  <2> QED BY <1>18, <2>1
<1>20. /\ apps' \in Seq(Addr) /\ SeqRange(apps') = SeqRange(apps) \ Gone(a) /\ Distinct(apps')
       /\ \A x, z : x \notin Gone(a) /\ z \notin Gone(a) /\ Before(apps, x, z) => Before(apps', x, z)
  <2>1. /\ apps' \in Seq(Addr) /\ SeqRange(apps') = SeqRange(q) \ {a} /\ Distinct(apps')
        /\ \A x, z : x \notin {a} /\ z \notin {a} /\ Before(q, x, z) => Before(apps', x, z)
    BY <1>7, <1>15, WithoutIs
  <2> QED BY <1>1, <1>7, <2>1 DEF Gone
<1>21. symbols' \subseteq symbols /\ \A z \in symbols' : z.owner \notin {l \in Used(a) : app[l].users = 1}
  BY <1>2, <1>12, <1>15, <1>16, <1>17 DEF OthersSymbols
<1> QED BY <1>18, <1>19, <1>20, <1>21 DEF Retires

\* DynLdTCP frees what CloseApp has closed: a retires, and hosts nothing.
LEMMA SweptIs ==
  ASSUME Inv, SoundlyLinked, NEW a \in Addr, app[a].st = "tofree",
         Becomes(Freed(UnLoadLibraries(Tables, a), {a}))
  PROVE  Retires(a) /\ Listed(a) /\ Hosted(a) = {}
<1>1. /\ app \in [Addr -> Application] /\ apps \in Seq(Addr) /\ app[a].prog \in Programs
      /\ Listed(a) /\ NULL \notin Addr /\ a # NULL
  BY ProgramsAssumption DEF Inv, Typed, EntriesOK
<1>2. Hosted(a) = {}
  BY <1>1 DEF Hosted, Inv, HostsOK
<1>3. Gone(a) = {a}
  BY <1>2 DEF Gone
<1>4. SeqRange(apps) \subseteq Addr
  BY <1>1 DEF SeqRange
<1>5. \A l, m \in SeqRange(apps) : app[l].prog \in Libraries /\ app[l].prog = app[m].prog => l = m
  BY <1>4 DEF Inv, EntriesOK, IsLib
<1>6. Used(a) = {l \in SeqRange(apps) : app[l].prog \in SeqRange(NeededLibs[app[a].prog])}
  BY <1>4 DEF Used, Listed, Libs
<1>7. PICK u, v : /\ u = [x \in Addr |-> IF x \in Used(a) THEN LosesUser(app[x]) ELSE app[x]]
                  /\ v = OthersSymbols(symbols, {x \in Used(a) : app[x].users = 1})
  OBVIOUS
<1>8. Tables = Tab(app, apps, symbols)
  BY DEF Tables, Tab
<1>9. UnLoadLibraries(Tables, a) = Tab(u, apps, v)
  BY <1>1, <1>5, <1>6, <1>7, <1>8, UnLoadIs
<1>10. /\ app' = FreedApps(u, {a}) /\ apps' = Without(apps, {a}) /\ symbols' = v
  <2>1. \A i, j, k : Tab(i, j, k).app = i /\ Tab(i, j, k).apps = j /\ Tab(i, j, k).symbols = k
    BY DEF Tab
  <2> QED BY <1>9, <2>1, FreedIs DEF Becomes
<1>11. ASSUME NEW x \in Addr
       PROVE  /\ app'[x] = IF x \in Gone(a) THEN Blank
                           ELSE IF x \in Used(a) THEN LosesUser(app[x]) ELSE app[x]
              /\ app'[x] \in Application
  <2>1. Blank \in Application
    BY DEF Blank, Application
  <2>2. app'[x] = IF x = a THEN Blank ELSE u[x]
    BY <1>10 DEF FreedApps
  <2>3. u[x] = IF x \in Used(a) THEN LosesUser(app[x]) ELSE app[x]
    BY <1>7
  <2>4. x \in Used(a) => LosesUser(app[x]) \in Application
    BY <1>1, UsedIs, LosesUserIs
  <2> QED BY <1>1, <1>3, <2>1, <2>2, <2>3, <2>4
<1>12. app' \in [Addr -> Application]
  <2>1. app' = [x \in Addr |-> app'[x]]
    BY <1>10 DEF FreedApps
  <2> QED BY <1>11, <2>1
<1>13. /\ apps' \in Seq(Addr) /\ SeqRange(apps') = SeqRange(apps) \ Gone(a) /\ Distinct(apps')
       /\ \A x, z : x \notin Gone(a) /\ z \notin Gone(a) /\ Before(apps, x, z) => Before(apps', x, z)
  BY <1>1, <1>3, <1>10, WithoutIs DEF Inv, EntriesOK
<1>14. symbols' \subseteq symbols /\ \A z \in symbols' : z.owner \notin {l \in Used(a) : app[l].users = 1}
  BY <1>7, <1>10 DEF OthersSymbols
<1> QED BY <1>1, <1>2, <1>11, <1>12, <1>13, <1>14 DEF Retires

\* A program retires while the stack is cut back so far that none of its calls is left.
LEMMA RetiresStep ==
  ASSUME Inv, SoundlyLinked, NEW a \in Addr, Listed(a), ~(app[a].st = "running" /\ IsLib(a)),
         \A b \in Hosted(a) : Listed(b), Retires(a), UNCHANGED <<phase, pos, GSExit>>, phase = "up",
         NEW n \in Nat, n <= Len(stack), stack' \in Seq(Activation), Len(stack') \in {n, n + 1},
         \A k \in 1..n : stack'[k] = stack[k] /\ (Calls(k) => stack[k].app \notin Gone(a)),
         Len(stack') = n + 1 =>
           /\ stack'[n + 1].kind \in {"handler", "dialog", "tcp"}
           /\ \A k \in 1..n : /\ stack[k].kind \notin {"load", "tcp"}
                              /\ stack[k].kind = "main" => ~IsLib(stack[k].app),
         \A k \in 1..Len(stack) : k > n /\ Calls(k) /\ stack[k].app # a =>
           stack[k].kind = "main" /\ ~IsLib(stack[k].app),
         app[a].st = "tofree" => \A k \in 1..Len(stack) : stack[k].kind # "load",
         ret # "ok", ret' \in {"fail", "none"},
         ret' = "fail" => n > 0 /\ Len(stack') = n /\ stack[n].kind = "load"
  PROVE  Inv'
<1> DEFINE Last == {l \in Used(a) : app[l].users = 1}
<1>1. /\ app \in [Addr -> Application] /\ apps \in Seq(Addr) /\ Len(stack) \in Nat
      /\ NULL \notin Addr /\ app[a].st \in {"starting", "running", "tofree"}
      /\ \A k \in 1..Len(stack) : stack[k].app \in Addr /\ stack[k].next \in Nat
  BY ProgramsAssumption, Activations DEF Inv, Typed, EntriesOK
<1>2. ASSUME NEW b \in Hosted(a)
      PROVE  b \in Addr /\ ~IsLib(b) /\ Listed(b) /\ app[b].host = a /\ a # NULL
  BY <1>1, <1>2 DEF Hosted, Inv, HostsOK
<1>3. ASSUME NEW l \in Used(a)
      PROVE  /\ l \in Addr /\ IsLib(l) /\ app[l].st = "running" /\ l \notin Gone(a)
             /\ app[l].prog \in SeqRange(Libs(a))
             /\ app[l].users >= Cardinality(Holders(app[l].prog)) + Boots(app[l].prog)
             /\ app[l].users \in Nat
             /\ app'[l].prog = app[l].prog /\ app'[l].host = app[l].host /\ app'[l].bound = app[l].bound
             /\ app'[l].users = app[l].users - 1
             /\ IF app[l].users = 1 THEN app'[l].st = "tofree" /\ ~app'[l].close
                                    ELSE app'[l].st = "running" /\ app'[l].close = app[l].close
  <2>1. /\ l \in Addr /\ IsLib(l) /\ app[l].st = "running" /\ l \notin Gone(a)
        /\ app[l] \in Application /\ app[l].users \in Nat /\ app[l].users >= 1
    BY <1>3, UsedIs
  <2>2. app'[l] = LosesUser(app[l])
    BY <1>3, <2>1 DEF Retires
  <2> QED BY <1>3, <2>1, <2>2, UsedIs, LosesUserIs
<1>4. ASSUME NEW x \in Addr
      PROVE  /\ x \in Gone(a) => app'[x] = Blank
             /\ x \notin Gone(a) => /\ app'[x].prog = app[x].prog /\ app'[x].host = app[x].host
                                    /\ app'[x].bound = app[x].bound
                                    /\ x \notin Last => app'[x].st = app[x].st /\ app'[x].close = app[x].close
                                    /\ x \in Last => app'[x].st = "tofree" /\ ~app'[x].close
                                    /\ x \notin Used(a) => app'[x] = app[x]
             /\ Listed(x)' <=> Listed(x) /\ x \notin Gone(a)
  <2>1. app'[x] = IF x \in Gone(a) THEN Blank ELSE IF x \in Used(a) THEN LosesUser(app[x]) ELSE app[x]
    BY DEF Retires
  <2>2. Listed(x)' <=> Listed(x) /\ x \notin Gone(a)
    BY DEF Retires, Listed
  <2> QED BY <1>3, <2>1, <2>2
<1>5. Last \subseteq Used(a)
  OBVIOUS
<1> HIDE DEF Last
<1>6. Gone(a) \subseteq Addr /\ \A x \in Gone(a) : Listed(x) /\ app[x].st \in {"starting", "running", "tofree"}
                             /\ ~(app[x].st = "running" /\ IsLib(x)) /\ (x # a => ~IsLib(x))
  <2>1. \A x \in Addr : Listed(x) <=> app[x].st \in {"starting", "running", "tofree"}
    BY DEF Inv, EntriesOK
  <2> QED BY <1>2, <2>1 DEF Gone
<1>7. Blank.prog = NULL /\ Blank.st = "free" /\ Blank.host = NULL /\ Blank.bound = {} /\ NULL \notin Programs
  BY ProgramsAssumption DEF Blank
<1>8. NULL \notin Libraries
  BY <1>7, ProgramsAssumption
<1>9. Typed'
  <2>1. symbols' \subseteq symbols
    BY DEF Retires
  <2> QED BY <2>1 DEF Inv, Typed, Retires
<1>10. CutTo(n)
  <2>1. ASSUME NEW k \in 1..n, Calls(k)
        PROVE  KeptCall(k)
    <3>1. k \in 1..Len(stack) /\ stack[k].app \in Addr /\ stack[k].app \notin Gone(a)
      BY <1>1, <2>1
    <3>2. app[stack[k].app].st \in {"loading", "starting"}
      BY <2>1, <3>1 DEF Inv, ActivationsOK, Calls
    <3>3. stack[k].app \notin Used(a)
      BY <1>3, <3>2
    <3> QED BY <1>4, <3>1, <3>3 DEF KeptCall
  <2>2. n \in 0..Len(stack) /\ Len(stack') \in {n, n + 1}
    BY <1>1
  <2>3. \A k \in 1..n : stack'[k] = stack[k] /\ (Calls(k) => KeptCall(k))
    BY <2>1
  <2> HIDE DEF Calls
  <2> QED BY <2>2, <2>3 DEF CutTo
<1>11. ActivationsOK' /\ NestingOK' /\ HostBelow'
  BY <1>9, <1>10, CutKeepsStack DEF Inv
<1>12. RetOK'
  BY <1>10, CutKeepsRet DEF Inv
<1>13. EntriesOK'
  <2>1. \A x \in Addr : IF app'[x].st = "free" THEN app'[x] = Blank ELSE app'[x].prog \in Programs
    BY <1>3, <1>4, <1>5, <1>7 DEF Inv, EntriesOK
  <2>2. \A x \in Addr : Listed(x)' <=> app'[x].st \in {"starting", "running", "tofree"}
    BY <1>3, <1>4, <1>5, <1>7 DEF Inv, EntriesOK
  <2>3. \A l, m \in Addr : app'[l].prog \in Libraries /\ app'[l].prog = app'[m].prog => l = m
    BY <1>4, <1>7, <1>8 DEF Inv, EntriesOK, IsLib
  <2> QED BY <2>1, <2>2, <2>3 DEF Retires, EntriesOK, IsLib
<1>14. InProgress'
  <2>1. ASSUME NEW x \in Addr, app'[x].st = "loading"
        PROVE  \E k \in 1..Len(stack') : Loads(k, x)'
    <3>1. app[x].st = "loading" /\ x # a
      BY <1>1, <1>3, <1>4, <1>5, <1>7, <2>1
    <3>2. PICK k \in 1..Len(stack) : stack[k].kind = "load" /\ stack[k].app = x
      BY <3>1 DEF Inv, InProgress, Loads
    <3>3. k \in 1..n /\ k \in 1..Len(stack')
      BY <1>1, <3>1, <3>2 DEF Calls
    <3> QED BY <3>2, <3>3 DEF Loads
  <2>2. ASSUME NEW x \in Addr, app'[x].st = "starting", app'[x].prog \in Libraries
        PROVE  \E k \in 1..Len(stack') : Starting(k, x)'
    <3>1. app[x].st = "starting" /\ x # a /\ IsLib(x)
      BY <1>3, <1>4, <1>5, <1>7, <2>2 DEF Gone, IsLib
    <3>2. PICK k \in 1..Len(stack) : stack[k].kind = "main" /\ stack[k].app = x
      BY <3>1 DEF Inv, InProgress, Starting
    <3>3. k \in 1..n /\ k \in 1..Len(stack')
      BY <1>1, <3>1, <3>2 DEF Calls
    <3> QED BY <3>2, <3>3 DEF Starting
  <2> QED BY <2>1, <2>2 DEF InProgress, IsLib
<1>15. HostsOK'
  <2>1. ASSUME NEW b \in Addr, app'[b].host # NULL
        PROVE  /\ app[b].host # NULL /\ app'[b].host = app[b].host /\ app'[b].prog = app[b].prog
               /\ app[b].host \in Addr /\ app[b].host \notin Gone(a) /\ app[b].host \notin Used(a)
               /\ app[app[b].host].host = NULL /\ ~IsLib(b)
    <3>1. b \notin Gone(a) /\ app'[b].host = app[b].host /\ app'[b].prog = app[b].prog
      BY <1>4, <1>7, <2>1
    <3>2. app[b].host # NULL /\ app[b].host \in Addr
      BY <1>1, <2>1, <3>1 DEF Application
    <3>3. app[app[b].host].prog \in Consoles /\ app[app[b].host].host = NULL /\ ~IsLib(b)
      BY <3>2 DEF Inv, HostsOK
    <3>4. app[b].host # a
      BY <3>1 DEF Gone, Hosted
    <3>5. app[b].host \notin Hosted(a)
      BY <1>2, <3>3
    <3>6. app[b].host \notin Used(a)
      BY <1>3, <3>3, ProgramsAssumption DEF IsLib
    <3> QED BY <3>1, <3>2, <3>3, <3>4, <3>5, <3>6 DEF Gone
  <2>2. \A b \in Addr : app'[b].host # NULL =>
          /\ app'[b].prog \notin Libraries /\ Listed(app[b].host)'
          /\ app'[app'[b].host].prog \in Consoles /\ app'[app'[b].host].host = NULL
    BY <1>4, <2>1 DEF Inv, HostsOK, IsLib
  <2>3. \A b, c \in Addr : app'[b].host # NULL /\ app'[b].host = app'[c].host => b = c
    BY <2>1 DEF Inv, HostsOK
  <2>4. ASSUME NEW x \in Addr, app'[x].st = "tofree"
        PROVE  app'[x].prog \notin Consoles
    <3>1. CASE x \in Last
      BY <1>3, <1>5, <3>1, ProgramsAssumption DEF IsLib
    <3>2. CASE x \notin Last
      BY <1>4, <1>7, <2>4, <3>2 DEF Inv, HostsOK
    <3> QED BY <3>1, <3>2
  <2>5. \A b \in Addr : app'[b].host # NULL => app'[b].host = app[b].host
    BY <2>1
  <2> QED BY <2>2, <2>3, <2>4, <2>5 DEF HostsOK, IsLib, Listed
<1>17. /\ \A k \in 1..Len(stack') : stack'[k].kind = "load" =>
            k \in 1..Len(stack) /\ stack[k].kind = "load" /\ stack'[k] = stack[k] /\ Taken(k)' = Taken(k)
       /\ \A q : \A x \in Addr : Takes(x, q)' => Takes(x, q) /\ x # a
  <2>1. Typed
    BY DEF Inv
  <2>2. ASSUME NEW q, NEW x \in Addr, Takes(x, q)'
        PROVE  Takes(x, q) /\ x # a
    <3>1. Listed(x)' /\ q \in SeqRange(NeededLibs[app'[x].prog]) => Takes(x, q) /\ x # a
      BY <1>4 DEF Takes, Libs, Gone
    <3>2. ASSUME NEW k \in 1..Len(stack'), Loads(k, x)', q \in Taken(k)'
          PROVE  Takes(x, q) /\ x # a
      <4>1. k \in 1..Len(stack) /\ Loads(k, x) /\ q \in Taken(k)
        BY <1>10, <2>1, <3>2, CutKeepsTaken DEF Loads
      <4>2. app[x].st = "loading"
        BY <4>1 DEF Loads, Inv, ActivationsOK
      <4> QED BY <1>1, <4>1, <4>2 DEF Takes
    <3> QED BY <2>2, <3>1, <3>2 DEF Takes, Libs
  <2> QED BY <1>10, <2>1, <2>2, CutKeepsTaken
<1>18. ASSUME NEW q
       PROVE  /\ Cardinality(Holders(q)') \in Nat /\ Cardinality(Holders(q)) \in Nat
              /\ Cardinality(Holders(q)') <= Cardinality(Holders(q))
              /\ a \in Holders(q) => Cardinality(Holders(q)') <= Cardinality(Holders(q)) - 1
              /\ Holders(q)' # {} => Cardinality(Holders(q)') >= 1
  <2>1. Holders(q)' \subseteq Holders(q) \ {a}
    BY <1>17 DEF Holders
  <2>2. IsFiniteSet(Holders(q)) /\ Cardinality(Holders(q)) \in Nat
    BY HoldersFinite
  <2>3. IsFiniteSet(Holders(q) \ {a}) /\ Cardinality(Holders(q) \ {a})
          = IF a \in Holders(q) THEN Cardinality(Holders(q)) - 1 ELSE Cardinality(Holders(q))
    BY <2>2, FS_RemoveElement
  <2>4. IsFiniteSet(Holders(q)') /\ Cardinality(Holders(q)') <= Cardinality(Holders(q) \ {a})
    BY <2>1, <2>3, FS_Subset
  <2>5. Cardinality(Holders(q)') \in Nat /\ (Cardinality(Holders(q)') = 0 <=> Holders(q)' = {})
    BY <2>4, FS_CardinalityType, FS_EmptySet
  <2> QED BY <2>2, <2>3, <2>4, <2>5
<1>19. ASSUME NEW l \in Used(a)
       PROVE  a \in Holders(app[l].prog)
  BY <1>3 DEF Holders, Takes
\* a library of the boot list has a user left
<1>25. \A l \in Last : ~Booted(app[l].prog)
  <2> SUFFICES ASSUME NEW l \in Last, NEW q, q = app[l].prog, Booted(q)
               PROVE  FALSE
    OBVIOUS
  <2>1. l \in Used(a) /\ app[l].users = 1
    BY DEF Last
  <2>2. 1 >= Cardinality(Holders(q)) + 1
    BY <1>3, <2>1, BootsAre
  <2>3. a \in Holders(q)
    BY <1>19, <2>1
  <2>4. Holders(q) # {} /\ IsFiniteSet(Holders(q)) /\ Cardinality(Holders(q)) \in Nat
    BY <2>3, HoldersFinite
  <2> QED BY <2>2, <2>4, FS_EmptySet
<1>16. SymbolsOK'
  <2> SUFFICES ASSUME NEW y \in symbols'
               PROVE  /\ app'[y.home].st = "running" /\ app'[y.home].prog \in Libraries
                      /\ \/ y.owner = y.home /\ y.name \in AppExports[app'[y.home].prog]
                         \/ y.owner = NULL /\ y.name \in SysExports[app'[y.home].prog]
    BY DEF SymbolsOK, IsLib
  <2>1. y \in symbols /\ y.owner \notin Last
    BY DEF Retires, Last
  <2>2. /\ y.home \in Addr /\ app[y.home].st = "running" /\ IsLib(y.home)
        /\ \/ y.owner = y.home /\ y.name \in AppExports[app[y.home].prog]
           \/ y.owner = NULL /\ y.name \in SysExports[app[y.home].prog]
    BY <2>1 DEF Inv, Typed, SymbolsOK
  <2>3. y.home \notin Last
    <3>1. CASE y.owner = y.home
      BY <2>1, <3>1
    <3>2. CASE SysExports[app[y.home].prog] # {}
      <4>1. app[y.home].prog \in SeqRange(BootList)
        BY <2>2, <3>2, ProgramsAssumption DEF SoundlyLinked, IsLib
      <4>2. Booted(app[y.home].prog)
        BY <2>2, <4>1 DEF Booted, SeqRange, IsLib
      <4> QED BY <1>25, <4>2
    <3> QED BY <2>2, <3>1, <3>2
  <2> QED BY <1>4, <1>6, <2>2, <2>3 DEF IsLib
<1>26. BootsOK'
  <2> SUFFICES ASSUME NEW q \in Libraries, Booted(q)'
               PROVE  Runs(q)'
    BY DEF BootsOK
  <2>1. Booted(q)
    BY BootsAre
  <2>2. Runs(q)
    BY <2>1 DEF Inv, BootsOK, Booting
  <2>3. PICK l \in Addr : app[l].prog = q /\ app[l].st = "running"
    BY <2>2 DEF Runs
  <2>4. l \notin Gone(a) /\ l \notin Last
    BY <1>6, <1>25, <2>1, <2>3 DEF IsLib
  <2> QED BY <1>4, <2>3, <2>4 DEF Runs
\* a library that something in the list needs, and that runs, goes on running
<1>20. NeedsRun'
  <2>1. ASSUME NEW x \in Addr, Listed(x)', NEW q \in SeqRange(NeededLibs[app'[x].prog])
        PROVE  Runs(q)'
    <3>1. Listed(x) /\ x \notin Gone(a) /\ q \in SeqRange(Libs(x))
      BY <1>4, <2>1 DEF Libs
    <3>2. PICK l \in Addr : app[l].prog = q /\ app[l].st = "running"
      BY <3>1 DEF Inv, NeedsRun, Runs
    <3>3. app[x].prog \in Programs
      BY <3>1 DEF Inv, EntriesOK
    <3>4. IsLib(l)
      <4>1. NeededLibs[app[x].prog] \in Seq(Libraries)
        BY <3>3, ProgramsAssumption
      <4>2. q \in Libraries
        BY <3>1, <4>1 DEF Libs, SeqRange
      <4> QED BY <3>2, <4>2 DEF IsLib
    <3>5. l \notin Gone(a)
      BY <1>6, <3>2, <3>4
    <3>6. x \in Holders(q)'
      BY <2>1 DEF Holders, Takes, Libs
    <3>7. l \notin Last
      <4> SUFFICES ASSUME l \in Last
                   PROVE  FALSE
        OBVIOUS
      <4>1. l \in Used(a) /\ app[l].users = 1
        BY DEF Last
      <4>2. Cardinality(Holders(q)) <= 1 /\ a \in Holders(q)
        <5>1. /\ 1 >= Cardinality(Holders(q)) + Boots(q) /\ Boots(q) \in Nat
              /\ Cardinality(Holders(q)) \in Nat
          <6>1. 1 >= Cardinality(Holders(app[l].prog)) + Boots(app[l].prog)
            BY <1>3, <4>1
          <6>2. Boots(q) \in Nat
            BY BootsAre
          <6>3. Cardinality(Holders(q)) \in Nat
            BY HoldersFinite
          <6> QED BY <3>2, <6>1, <6>2, <6>3
        <5> QED BY <1>19, <3>2, <4>1, <5>1
      <4> QED BY <1>18, <3>6, <4>2
    <3> QED BY <1>4, <3>2, <3>5, <3>7 DEF Runs
  <2>2. ASSUME NEW k \in 1..Len(stack'), stack'[k].kind = "load", NEW q \in Taken(k)'
        PROVE  Stays(q)'
    <3>1. k \in 1..Len(stack) /\ stack[k].kind = "load" /\ q \in Taken(k)
      BY <1>17, <2>2
    <3>2. PICK l \in Addr : app[l].prog = q /\ app[l].st \in {"running", "tofree"}
      BY <3>1 DEF Inv, NeedsRun, Stays
    <3>3. q \in Libraries
      <4>1. app[stack[k].app].prog \in Programs /\ stack[k].next \in 1..(Len(Libs(stack[k].app)) + 1)
        <5>1. stack[k].app \in Addr /\ app[stack[k].app].st = "loading"
                /\ stack[k].next \in 1..(Len(Libs(stack[k].app)) + 1)
          BY <1>1, <3>1 DEF Inv, ActivationsOK
        <5> QED BY <5>1 DEF Inv, EntriesOK
      <4>2. Libs(stack[k].app) \in Seq(Libraries)
        BY <4>1, ProgramsAssumption DEF Libs
      <4>3. PICK j \in 1..(stack[k].next - 1) : q = Libs(stack[k].app)[j]
        BY <3>1 DEF Taken
      <4>4. j \in 1..Len(Libs(stack[k].app))
        BY <4>1, <4>2, <4>3
      <4> QED BY <4>2, <4>3, <4>4
    <3>4. l \notin Gone(a)
      BY <1>6, <3>1, <3>2, <3>3 DEF IsLib
    <3> QED BY <1>4, <3>2, <3>4 DEF Stays
  <2> QED BY <2>1, <2>2 DEF NeedsRun, Libs
<1>21. UsersOK'
  <2>1. ASSUME NEW l \in Addr, NEW q, q = app'[l].prog, app'[l].st = "running", q \in Libraries
        PROVE  app'[l].users >= Cardinality(Holders(q)') + Boots(q)'
    <3>0. Boots(q)' = Boots(q) /\ Boots(q) \in Nat
      BY BootsAre
    <3>1. l \notin Gone(a) /\ l \notin Last /\ q = app[l].prog /\ app[l].st = "running" /\ IsLib(l)
      BY <1>4, <1>7, <2>1 DEF IsLib
    <3>2. app[l].users >= Cardinality(Holders(q)) + Boots(q) /\ app[l].users \in Nat
      BY <1>1, <3>1 DEF Inv, UsersOK, Application
    <3>3. CASE l \in Used(a)
      <4>1. a \in Holders(q) /\ app'[l].users = app[l].users - 1
        BY <1>3, <1>19, <3>1, <3>3
      <4>2. /\ Cardinality(Holders(q)') <= Cardinality(Holders(q)) - 1
            /\ Cardinality(Holders(q)') \in Nat /\ Cardinality(Holders(q)) \in Nat
        BY <1>18, <4>1
      <4> QED BY <3>0, <3>2, <4>1, <4>2
    <3>4. CASE l \notin Used(a)
      <4>1. app'[l] = app[l]
        BY <1>4, <3>1, <3>4
      <4>2. /\ Cardinality(Holders(q)') <= Cardinality(Holders(q))
            /\ Cardinality(Holders(q)') \in Nat /\ Cardinality(Holders(q)) \in Nat
        BY <1>18
      <4> QED BY <3>0, <3>2, <4>1, <4>2
    <3> QED BY <3>3, <3>4
  <2> QED BY <2>1 DEF UsersOK, IsLib
\* and so does, for each dependency, what it is an instance of
<1>22. ASSUME NEW x \in Addr, Listed(x)', NEW q, <<app'[x].prog, q>> \in Depends
       PROVE  Runs(q)'
  <2> DEFINE R == {pq \in Programs \X Libraries :
                     \A z \in Addr : Listed(z)' /\ app'[z].prog = pq[1] => Runs(pq[2])'}
  <2>1. Direct \subseteq R
    <3> SUFFICES ASSUME NEW pq \in Direct, NEW z \in Addr, Listed(z)', app'[z].prog = pq[1]
                 PROVE  Runs(pq[2])'
      BY DEF Direct
    <3>1. pq[2] \in SeqRange(NeededLibs[app'[z].prog])
      BY DEF Direct
    <3> QED BY <1>20, <3>1 DEF NeedsRun, Libs
  <2>2. ASSUME NEW p \in Programs, NEW r \in Libraries, NEW s \in Libraries, <<p, r>> \in R, <<r, s>> \in R
        PROVE  <<p, s>> \in R
    <3>1. r \in Programs
      BY ProgramsAssumption
    <3> SUFFICES ASSUME NEW z \in Addr, Listed(z)', app'[z].prog = p
                 PROVE  Runs(s)'
      BY <3>1
    <3>2. Runs(r)'
      BY <2>2
    <3>3. PICK l \in Addr : app'[l].prog = r /\ app'[l].st = "running"
      BY <3>2 DEF Runs
    <3>4. Listed(l)'
      BY <1>13, <3>3 DEF EntriesOK
    <3> QED BY <2>2, <3>3, <3>4
  <2>3. R \in SUBSET (Programs \X Libraries)
    OBVIOUS
  <2> HIDE DEF R
  <2>4. Depends \subseteq R
    BY <2>1, <2>2, <2>3, DependsIsLeast
  <2> QED BY <1>22, <2>4 DEF R
<1>23. LinksOK'
  <2>1. ASSUME NEW x \in Addr, Listed(x)', NEW h \in app'[x].bound
        PROVE  app'[h].st = "running" /\ <<app'[x].prog, app'[h].prog>> \in Depends /\ Before(apps', h, x)
    <3>1. Listed(x) /\ x \notin Gone(a) /\ app'[x].prog = app[x].prog /\ app'[x].bound = app[x].bound
      BY <1>4, <2>1
    <3>2. h \in Addr /\ app[h].st = "running" /\ <<app[x].prog, app[h].prog>> \in Depends /\ Before(apps, h, x)
      BY <1>1, <2>1, <3>1 DEF Inv, LinksOK, Application
    <3>3. IsLib(h)
      BY <3>2, DependsIs DEF IsLib
    <3>4. h \notin Gone(a)
      BY <1>6, <3>2, <3>3
    <3>5. app'[h].prog = app[h].prog
      BY <1>4, <3>2, <3>4
    <3>7. PICK l \in Addr : app'[l].prog = app'[h].prog /\ app'[l].st = "running"
      <4> PICK q : q = app'[h].prog
        OBVIOUS
      <4>1. Runs(q)'
        BY <1>22, <2>1, <3>1, <3>2, <3>5
      <4> QED BY <4>1 DEF Runs
    <3>8. l = h
      BY <1>13, <3>2, <3>3, <3>5, <3>7 DEF EntriesOK, IsLib
    <3>9. Before(apps', h, x)
      BY <3>1, <3>2, <3>4 DEF Retires
    <3> QED BY <3>1, <3>2, <3>5, <3>7, <3>8, <3>9
  <2> QED BY <2>1 DEF LinksOK, Before
<1>24. PhasesOK'
  <2>1. \A x \in Addr : /\ app'[x].st = "tofree" => ~app'[x].close
                        /\ Open(x)' => app'[x].close
    BY <1>4, <1>5, <1>7 DEF Inv, PhasesOK, Open
  <2> QED BY <2>1 DEF PhasesOK
<1> QED BY <1>9, <1>11, <1>12, <1>13, <1>14, <1>15, <1>16, <1>20, <1>21, <1>23, <1>24, <1>26 DEF Inv

\* Main has returned false.
LEMMA MainFalseStep ==
  ASSUME Inv, SoundlyLinked, MainFalse
  PROVE  Inv' /\ Retires(Top.app)
<1>0. PICK n, a : n = Len(stack) - 1 /\ a = Top.app
  OBVIOUS
<1>1. /\ n \in Nat /\ n + 1 = Len(stack) /\ n + 1 \in 1..Len(stack) /\ a \in Addr
      /\ stack[n + 1].kind = "main" /\ stack[n + 1].app = a /\ stack # << >>
      /\ ret = "none" /\ phase = "up"
  <2>1. Running("main")
    BY DEF MainFalse
  <2>2. stack # << >> /\ ~Running("load")
    BY <2>1 DEF Running
  <2> QED BY <1>0, <2>1, <2>2, TopIs DEF Inv, Typed, RetOK, MainFalse
<1>2. app[a].st = "starting" /\ Listed(a) /\ a # NULL
  <2>1. app[a].st = "starting"
    BY <1>1 DEF Inv, ActivationsOK
  <2> QED BY <1>1, <2>1, ProgramsAssumption DEF Inv, EntriesOK
<1>3. Becomes(Discarded(Tables, a)) /\ Returns("fail") /\ UNCHANGED <<phase, pos, GSExit>>
  BY <1>0 DEF MainFalse, Env
<1>4. /\ stack' \in Seq(Activation) /\ Len(stack') = n
      /\ \A k \in 1..n : stack'[k] = stack[k]
      /\ IF n > 0 /\ stack[n].kind = "load" THEN ret' = "fail" ELSE ret' = "none"
  BY <1>0, <1>1, <1>3, ReturnsIs DEF Inv
<1>5. ASSUME NEW k \in 1..Len(stack), Calls(k)
      PROVE  stack[k].app \notin Hosted(a)
  <2>1. Starting(n + 1, a) /\ k <= n + 1
    BY <1>1 DEF Starting
  <2>2. app[stack[k].app].host # a
    <3>1. app[stack[k].app].host = a => n + 1 < k
      BY <1>1, <1>5, <2>1 DEF Inv, HostBelow
    <3> QED BY <1>1, <2>1, <3>1
  <2> QED BY <2>2 DEF Hosted
<1>6. ASSUME NEW b \in Hosted(a)
      PROVE  Listed(b)
  <2>1. b \in Addr /\ app[b] # Blank
    BY <1>2, <1>6 DEF Hosted, Blank
  <2>2. app[b].st # "loading"
    BY <1>5, <1>6, <2>1 DEF Inv, InProgress, Loads, Calls
  <2> QED BY <2>1, <2>2 DEF Inv, EntriesOK, Typed, Application
<1>7. Retires(a)
  BY <1>1, <1>2, <1>3, <1>6, DiscardedIs
<1>8. \A k \in 1..n : Calls(k) => stack[k].app \notin Gone(a)
  <2> SUFFICES ASSUME NEW k \in 1..n, Calls(k)
               PROVE  stack[k].app \notin Gone(a)
    OBVIOUS
  <2>1. k \in 1..Len(stack) /\ k # n + 1
    BY <1>1
  <2>2. stack[k].app # a
    BY <1>1, <2>1 DEF Inv, NestingOK, Calls
  <2> QED BY <1>5, <2>1, <2>2 DEF Gone
<1>9. \A k \in 1..Len(stack) : k > n => stack[k].app = a
  BY <1>1
<1>10. Inv'
  <2>1. /\ n <= Len(stack) /\ Len(stack') \in {n, n + 1} /\ Len(stack') # n + 1
        /\ ret # "ok" /\ ~(app[a].st = "running" /\ IsLib(a)) /\ app[a].st # "tofree"
    BY <1>1, <1>2, <1>4
  <2>2. ret' \in {"fail", "none"} /\ (ret' = "fail" => n > 0 /\ Len(stack') = n /\ stack[n].kind = "load")
    BY <1>4
  <2>3. UNCHANGED <<phase, pos, GSExit>>
    BY <1>3
  <2>4. /\ n \in Nat /\ a \in Addr /\ Listed(a) /\ phase = "up" /\ stack' \in Seq(Activation)
        /\ \A b \in Hosted(a) : Listed(b)
    BY <1>1, <1>2, <1>4, <1>6
  <2>5. \A k \in 1..n : stack'[k] = stack[k] /\ (Calls(k) => stack[k].app \notin Gone(a))
    BY <1>4, <1>8
  <2>6. \A k \in 1..Len(stack) : k > n /\ Calls(k) /\ stack[k].app # a =>
          stack[k].kind = "main" /\ ~IsLib(stack[k].app)
    BY <1>9
  <2> HIDE DEF Calls
  <2> QED BY <1>7, <2>1, <2>2, <2>3, <2>4, <2>5, <2>6, RetiresStep
<1> QED BY <1>0, <1>7, <1>10

\* While SysPoll or a handler runs nothing is being loaded, and no library is
\* in its LibMain.
LEMMA PollingIs ==
  ASSUME Inv, Polling \/ Running("handler") \/ Running("dialog")
  PROVE  PollsAtTop /\ ret = "none" /\ phase = "up"
<1>1. phase = "up" /\ ~Running("load")
  <2>1. CASE Polling
    BY <2>1 DEF Polling, Running
  <2>2. CASE Running("handler") \/ Running("dialog")
    <3>1. /\ stack # << >> /\ Len(stack) \in 1..Len(stack) /\ ~Running("load")
          /\ stack[Len(stack)].kind \in {"handler", "dialog"}
      BY <2>2, TopIs DEF Inv, Running
    <3>2. phase # "boot" /\ phase \notin {"down", "halted"}
      BY <3>1 DEF Inv, PhasesOK, Calls
    <3> QED BY <3>1, <3>2 DEF Inv, Typed
  <2> QED BY <2>1, <2>2
<1>2. ret = "none"
  BY <1>1 DEF Inv, RetOK
<1>3. PollsAtTop
  <2> SUFFICES ASSUME NEW k \in 1..Len(stack)
               PROVE  stack[k].kind \notin {"load", "tcp"} /\ (stack[k].kind = "main" => ~IsLib(stack[k].app))
    BY DEF PollsAtTop
  <2>1. PICK n : n = Len(stack)
    OBVIOUS
  <2>2. n \in 1..n /\ stack # << >> /\ k <= n
    BY <2>1 DEF Inv, Typed
  <2>3. /\ stack[n].kind \in {"handler", "dialog", "main"}
        /\ stack[n].kind = "main" => ~IsLib(stack[n].app)
    BY <2>1, <2>2, ProgramsAssumption DEF Polling, Running, Top, IsLib
  <2>4. k = n \/ k < n
    BY <2>1, <2>2
  <2>5. stack[k].kind # "tcp" /\ (stack[k].kind = "main" /\ IsLib(stack[k].app) => k = n)
    BY <2>1, <2>3 DEF Inv, ActivationsOK
  <2>6. k < n /\ stack[k].kind = "load" => Calls(n) /\ app[stack[n].app].prog \in Libraries
    <3>1. k < n /\ stack[k].kind = "load" =>
            Calls(n) /\ <<app[stack[k].app].prog, app[stack[n].app].prog>> \in Depends
      BY <2>1, <2>2 DEF Inv, NestingOK
    <3> QED BY <3>1, DependsIs
  <2> QED BY <2>3, <2>4, <2>5, <2>6 DEF Calls, IsLib
<1> QED BY <1>1, <1>2, <1>3

\* While DynLdTCP runs what is below it polls.
LEMMA SweepingIs ==
  ASSUME Inv, Running("tcp")
  PROVE  /\ ret = "none" /\ phase = "up" /\ \A k \in 1..Len(stack) : stack[k].kind # "load"
         /\ \A k \in 1..(Len(stack) - 1) : /\ stack[k].kind \notin {"load", "tcp"}
                                           /\ stack[k].kind = "main" => ~IsLib(stack[k].app)
<1>1. PICK n : n = Len(stack)
  OBVIOUS
<1>2. n \in 1..n /\ stack # << >> /\ stack[n].kind = "tcp" /\ ~Running("load")
  BY <1>1, TopIs DEF Inv, Running
<1>3. ~Calls(n)
  BY <1>2 DEF Calls
<1>4. ret = "none"
  BY <1>2 DEF Inv, RetOK
<1>5. phase = "up"
  BY <1>1, <1>2, <1>3 DEF Inv, PhasesOK, Typed
<1>6. ASSUME NEW k \in 1..(n - 1)
      PROVE  stack[k].kind \notin {"load", "tcp"} /\ (stack[k].kind = "main" => ~IsLib(stack[k].app))
  <2>1. k \in 1..Len(stack) /\ k < n /\ k # n
    BY <1>1, <1>2
  <2> QED BY <1>1, <1>2, <1>3, <2>1 DEF Inv, NestingOK, ActivationsOK
<1>7. \A k \in 1..n : k = n \/ k \in 1..(n - 1)
  BY <1>2
<1> QED BY <1>1, <1>2, <1>4, <1>5, <1>6, <1>7

\* BreakApp: a program retires and no call is left.
LEMMA BreaksStep ==
  ASSUME Inv, SoundlyLinked, NEW a \in Addr, Listed(a), ~(app[a].st = "running" /\ IsLib(a)),
         Becomes(Discarded(Tables, a)), LongJmp, Env, phase = "up", ret = "none",
         \A k \in 1..Len(stack) : stack[k].kind # "load" /\ (stack[k].kind = "main" => ~IsLib(stack[k].app))
  PROVE  Inv'
<1>1. ASSUME NEW b \in Hosted(a)
      PROVE  Listed(b)
  <2>1. b \in Addr /\ app[b] # Blank
    BY <1>1, ProgramsAssumption DEF Hosted, Blank
  <2>2. app[b].st # "loading"
    BY <2>1 DEF Inv, InProgress, Loads
  <2> QED BY <2>1, <2>2 DEF Inv, EntriesOK, Typed, Application
<1>2. Retires(a)
  BY <1>1, DiscardedIs
<1>3. stack' \in Seq(Activation) /\ Len(stack') = 0 /\ ret' = "none" /\ Len(stack) \in Nat
  BY DEF LongJmp, Inv, Typed
<1>4. UNCHANGED <<phase, pos, GSExit>>
  BY DEF Env
<1>5. PICK n \in Nat : n = 0
  OBVIOUS
<1>6. /\ n <= Len(stack) /\ Len(stack') \in {n, n + 1} /\ Len(stack') # n + 1
      /\ \A k \in 1..n : FALSE
  BY <1>3, <1>5
<1>7. \A k \in 1..Len(stack) : Calls(k) => stack[k].kind = "main" /\ ~IsLib(stack[k].app)
  BY DEF Calls
<1> QED BY <1>1, <1>2, <1>3, <1>4, <1>6, <1>7, RetiresStep
-----------------------------------------------------------------------------
(***************************************************************************)
(* DynLdTCP: it stands on an item of the list.                             *)
(***************************************************************************)
SweepOK == Running("tcp") => Listed(Top.app)

\* The item after one of the list is in the list, and is another unless it is alone.
LEMMA FollowingIs ==
  ASSUME apps \in Seq(Addr), Distinct(apps), NEW a, Listed(a)
  PROVE  /\ Following(a) \in SeqRange(apps)
         /\ Following(a) = a => SeqRange(apps) = {a}
<1>1. PICK k : k = CHOOSE j \in 1..Len(apps) : apps[j] = a
  OBVIOUS
<1>2. k \in 1..Len(apps) /\ apps[k] = a /\ Len(apps) \in Nat
  BY <1>1 DEF Listed, SeqRange
<1>3. Following(a) = IF k = Len(apps) THEN apps[1] ELSE apps[k + 1]
  BY <1>1 DEF Following
<1>4. CASE k = Len(apps)
  <2>1. 1 \in 1..Len(apps) /\ Following(a) = apps[1]
    BY <1>2, <1>3, <1>4
  <2>2. Following(a) = a => Len(apps) = 1
    BY <1>2, <1>4, <2>1 DEF Distinct
  <2>3. Len(apps) = 1 => SeqRange(apps) = {a}
    BY <1>2, <1>4 DEF SeqRange
  <2> QED BY <2>1, <2>2, <2>3 DEF SeqRange
<1>5. CASE k # Len(apps)
  <2>1. k + 1 \in 1..Len(apps) /\ Following(a) = apps[k + 1]
    BY <1>2, <1>3, <1>5
  <2>2. Following(a) # a
    BY <1>2, <2>1 DEF Distinct
  <2> QED BY <2>1, <2>2 DEF SeqRange
<1> QED BY <1>4, <1>5

\* DynLdTCP goes on to the next item or returns.
LEMMA GoesOnIs ==
  ASSUME Typed, Distinct(apps), SweepOK, Running("tcp"), NEW s, TcpGoesOn(s)
  PROVE  LET n == Len(stack) - 1
         IN /\ n \in Nat /\ stack' \in Seq(Activation) /\ Len(stack') \in {n, n + 1}
            /\ \A k \in 1..n : stack'[k] = stack[k]
            /\ Len(stack') = n + 1 => /\ stack'[n + 1].kind = "tcp" /\ s.apps # << >>
                                      /\ stack'[n + 1].app = Following(Top.app)
<1>1. PICK n, f : n = Len(stack) - 1 /\ f = Following(Top.app)
  OBVIOUS
<1>2. /\ n \in Nat /\ n + 1 = Len(stack) /\ n + 1 \in 1..Len(stack) /\ stack # << >>
      /\ stack[n + 1] \in Activation /\ stack[n + 1].kind = "tcp" /\ stack \in Seq(Activation)
      /\ Top.app \in Addr
  BY <1>1, TopIs DEF Typed
<1>3. f \in Addr
  <2>1. f \in SeqRange(apps) /\ apps \in Seq(Addr)
    BY <1>1, FollowingIs DEF SweepOK, Typed
  <2> QED BY <2>1 DEF SeqRange
<1>4. CASE s.apps # << >> /\ f # s.apps[Len(s.apps)]
  <2>1. stack' = [stack EXCEPT ![n + 1].app = f]
    BY <1>1, <1>2, <1>4 DEF TcpGoesOn
  <2> DEFINE e == [stack[n + 1] EXCEPT !.app = f]
  <2>2. stack' = [stack EXCEPT ![n + 1] = e]
    BY <1>2, <2>1
  <2>3. e \in Activation /\ e.kind = "tcp" /\ e.app = f
    BY <1>2, <1>3 DEF Activation
  <2> HIDE DEF e
  <2>4. /\ stack' \in Seq(Activation) /\ Len(stack') = n + 1 /\ stack'[n + 1] = e
        /\ \A k \in 1..n : stack'[k] = stack[k]
    BY <1>2, <2>2, <2>3
  <2> QED BY <1>1, <1>2, <1>4, <2>3, <2>4
<1>5. CASE ~ (s.apps # << >> /\ f # s.apps[Len(s.apps)])
  <2>1. stack' = Below
    BY <1>1, <1>5 DEF TcpGoesOn
  <2>2. Len(stack') = n /\ stack' \in Seq(Activation) /\ \A k \in 1..n : stack'[k] = stack[k]
    BY <1>1, <1>2, <2>1, BelowIs
  <2>3. Len(stack') # n + 1
    BY <1>2, <2>2
  <2> QED BY <1>1, <1>2, <2>2, <2>3
<1> QED BY <1>4, <1>5

\* One turn of DynLdTCP: the item is broken, freed or left as it is.
LEMMA TcpItemStep ==
  ASSUME Inv, SweepOK, SoundlyLinked, TcpItem
  PROVE  /\ Inv' /\ SweepOK'
         /\ \/ stack' = << >>
            \/ /\ Len(stack') \in {Len(stack) - 1, Len(stack)}
               /\ \A k \in 1..(Len(stack) - 1) : stack'[k] = stack[k]
               /\ Len(stack') = Len(stack) => stack'[Len(stack)].kind = "tcp"
               /\ app' = app \/ (Retires(Top.app) /\ Gone(Top.app) = {Top.app} /\ app[Top.app].st = "tofree")
<1>0. PICK n, a : n = Len(stack) - 1 /\ a = Top.app
  OBVIOUS
<1>1. Running("tcp") /\ UNCHANGED <<phase, pos, GSExit>>
  BY DEF TcpItem, Env
<1>2. /\ n \in Nat /\ n + 1 = Len(stack) /\ n + 1 \in 1..Len(stack) /\ a \in Addr
      /\ stack[n + 1].kind = "tcp" /\ stack[n + 1].app = a /\ Listed(a)
      /\ ret = "none" /\ phase = "up" /\ \A k \in 1..Len(stack) : stack[k].kind # "load"
      /\ \A k \in 1..n : /\ stack[k].kind \notin {"load", "tcp"}
                         /\ stack[k].kind = "main" => ~IsLib(stack[k].app)
  BY <1>0, <1>1, TopIs, SweepingIs DEF Inv, SweepOK
<1>3. PICK s : s = Freed(UnLoadLibraries(Tables, a), {a})
  OBVIOUS
<1>4. ASSUME NEW t, TcpGoesOn(t)
      PROVE  /\ stack' \in Seq(Activation) /\ Len(stack') \in {n, n + 1}
             /\ \A k \in 1..n : stack'[k] = stack[k]
             /\ Len(stack') = n + 1 => /\ stack'[n + 1].kind = "tcp" /\ t.apps # << >>
                                       /\ stack'[n + 1].app = Following(a)
  BY <1>0, <1>1, <1>4, GoesOnIs DEF Inv, EntriesOK
<1>5. Following(a) \in SeqRange(apps) /\ (Following(a) = a => SeqRange(apps) = {a})
  BY <1>2, FollowingIs DEF Inv, Typed, EntriesOK
<1>6. CASE app[a].st = "tofree"
  <2>1. Becomes(s) /\ TcpGoesOn(s) /\ ret' = ret
    BY <1>0, <1>3, <1>6 DEF TcpItem
  <2>2. Retires(a) /\ Hosted(a) = {} /\ Gone(a) = {a}
    BY <1>2, <1>3, <1>6, <2>1, SweptIs DEF Gone
  <2>3. \A k \in 1..n : Calls(k) => stack[k].app # a
    <3>1. \A k \in 1..n : k \in 1..Len(stack)
      BY <1>2
    <3> QED BY <1>6, <3>1 DEF Calls, Inv, ActivationsOK
  <2>4. \A k \in 1..Len(stack) : k > n => ~Calls(k)
    BY <1>2 DEF Calls
  <2>5. Inv'
    <3>1. /\ n <= Len(stack) /\ stack' \in Seq(Activation) /\ Len(stack') \in {n, n + 1}
          /\ \A k \in 1..n : stack'[k] = stack[k]
          /\ Len(stack') = n + 1 => stack'[n + 1].kind \in {"handler", "dialog", "tcp"}
      BY <1>2, <1>4, <2>1, SMTT(20)
    <3> HIDE DEF Calls
    <3> QED BY <1>1, <1>2, <1>6, <2>1, <2>2, <2>3, <2>4, <3>1, RetiresStep
  <2>6. SweepOK'
    <3> SUFFICES ASSUME stack' # << >>, stack'[Len(stack')].kind = "tcp"
                 PROVE  stack'[Len(stack')].app \in SeqRange(apps')
      BY DEF SweepOK, Running, Top, Listed
    <3>1. Len(stack') = n + 1
      BY <1>2, <1>4, <2>1
    <3>2. s.apps = apps' /\ apps' # << >> /\ stack'[n + 1].app = Following(a)
      BY <1>4, <2>1, <3>1 DEF Becomes
    <3>3. SeqRange(apps') = SeqRange(apps) \ {a} /\ apps' \in Seq(Addr)
      BY <2>2 DEF Retires
    <3>4. SeqRange(apps') # {}
      <4>1. 1 \in 1..Len(apps')
        BY <3>2, <3>3
      <4> QED BY <4>1 DEF SeqRange
    <3> QED BY <1>5, <3>1, <3>2, <3>3, <3>4
  <2> QED BY <1>0, <1>2, <1>4, <1>6, <2>1, <2>2, <2>5, <2>6
<1>7. CASE app[a].st = "starting" /\ GSExit
  <2>1. Becomes(Discarded(Tables, a)) /\ LongJmp
    BY <1>0, <1>7 DEF TcpItem
  <2>2. \A k \in 1..Len(stack) : stack[k].kind # "load" /\ (stack[k].kind = "main" => ~IsLib(stack[k].app))
    <3>1. \A k \in 1..Len(stack) : k \in 1..n \/ k = n + 1
      BY <1>2
    <3> QED BY <1>2, <3>1
  <2>3. Inv'
    BY <1>1, <1>2, <1>7, <2>1, <2>2, BreaksStep DEF Env
  <2>4. SweepOK'
    BY <2>1 DEF LongJmp, SweepOK, Running
  <2> QED BY <2>1, <2>3, <2>4 DEF LongJmp
<1>8. CASE ~(app[a].st = "tofree") /\ ~(app[a].st = "starting" /\ GSExit)
  <2>1. TcpGoesOn(Tables) /\ UNCHANGED <<tables, ret>>
    BY <1>0, <1>8 DEF TcpItem
  <2>2. /\ stack' \in Seq(Activation) /\ Len(stack') \in {n, n + 1}
        /\ \A k \in 1..n : stack'[k] = stack[k]
        /\ Len(stack') = n + 1 => stack'[n + 1].kind = "tcp" /\ stack'[n + 1].app = Following(a)
    BY <1>4, <2>1
  <2>3. Typed'
    BY <1>1, <2>1, <2>2 DEF Inv, Typed, tables
  <2>4. CutTo(n)
    <3>1. \A k \in 1..n : stack'[k] = stack[k] /\ (Calls(k) => KeptCall(k))
      BY <2>1, <2>2 DEF KeptCall, tables
    <3> QED BY <1>2, <2>2, <3>1 DEF CutTo
  <2>5. \A k \in 1..Len(stack) : k > n => ~Calls(k)
    BY <1>2 DEF Calls
  <2>6. Inv'
    BY <1>1, <1>2, <2>1, <2>3, <2>4, <2>5, StackStep
  <2>7. SweepOK'
    <3> SUFFICES ASSUME stack' # << >>, stack'[Len(stack')].kind = "tcp"
                 PROVE  stack'[Len(stack')].app \in SeqRange(apps')
      BY DEF SweepOK, Running, Top, Listed
    <3>1. Len(stack') = n + 1
      BY <1>2, <2>2
    <3> QED BY <1>5, <2>1, <2>2, <3>1 DEF tables
  <2> QED BY <1>0, <1>2, <2>1, <2>2, <2>6, <2>7 DEF tables
<1> QED BY <1>6, <1>7, <1>8
-----------------------------------------------------------------------------
(***************************************************************************)
(* The actions that are left.                                              *)
(***************************************************************************)
LEMMA LoadingIs ==
  ASSUME Inv, Running("load")
  PROVE  /\ phase \in {"boot", "up"} /\ Len(stack) \in 1..Len(stack) /\ Len(stack) \in Nat
         /\ Top = stack[Len(stack)] /\ Top.kind = "load" /\ Top.app \in Addr /\ Top.next \in Nat
         /\ app[Top.app].st = "loading" /\ app[Top.app].prog \in Programs
         /\ Top.next \in 1..(Len(Libs(Top.app)) + 1) /\ Libs(Top.app) \in Seq(Libraries)
<1>1. /\ Len(stack) \in 1..Len(stack) /\ Top = stack[Len(stack)] /\ Top.kind = "load"
      /\ Top.app \in Addr /\ Top.next \in Nat /\ stack # << >> /\ Len(stack) \in Nat
  BY TopIs, Activations DEF Inv, Running
<1>2. app[Top.app].st = "loading" /\ Top.next \in 1..(Len(Libs(Top.app)) + 1)
  BY <1>1 DEF Inv, ActivationsOK
<1>3. app[Top.app].prog \in Programs
  BY <1>1, <1>2 DEF Inv, EntriesOK
<1>4. phase \in {"boot", "up"}
  BY <1>1 DEF Inv, PhasesOK, Typed
<1> QED BY <1>1, <1>2, <1>3, <1>4, ProgramsAssumption DEF Libs

\* LoadLibrary finds the next library, or begins to load it.
LEMMA LoadNextLibraryStep ==
  ASSUME Inv, SoundlyLinked, LoadNextLibrary
  PROVE  Inv'
<1>0. PICK a, p : a = Top.app /\ p = Libs(a)[Top.next]
  OBVIOUS
<1>1. /\ Running("load") /\ ret = "none" /\ UNCHANGED <<phase, pos, GSExit>>
      /\ Top.next <= Len(Libs(a))
  BY <1>0 DEF LoadNextLibrary, Env, Libs
<1>2. /\ phase \in {"boot", "up"} /\ Len(stack) \in 1..Len(stack) /\ a \in Addr
      /\ stack[Len(stack)].kind = "load" /\ stack[Len(stack)].app = a /\ app[a].prog \in Programs
      /\ p \in SeqRange(Libs(a)) /\ p \in Libraries /\ p \in Programs
  <2>1. Top.next \in 1..Len(Libs(a)) /\ Libs(a) \in Seq(Libraries)
    BY <1>0, <1>1, LoadingIs
  <2> QED BY <1>0, <1>1, <2>1, LoadingIs, ProgramsAssumption DEF SeqRange
<1>3. <<app[a].prog, p>> \in Depends
  BY <1>2, DependsIs DEF Libs
<1>4. PICK l : l = GetLibrary(Tables, p)
  OBVIOUS
<1>5. IF \E x \in SeqRange(apps) : app[x].prog = p
      THEN l \in SeqRange(apps) /\ app[l].prog = p ELSE l = NULL
  <2>1. Tables.apps = apps /\ Tables.app = app /\ apps \in Seq(Addr)
    BY DEF Tables, Inv, Typed
  <2> QED BY <1>4, <2>1, GetLibraryIs
<1>6. CASE /\ l # NULL
           /\ app' = [app EXCEPT ![l].users = @ + 1]
           /\ stack' = [stack EXCEPT ![Len(stack)].next = @ + 1]
           /\ UNCHANGED <<apps, symbols, ret>>
  <2>1. Listed(l) /\ app[l].prog = p /\ l \in Addr
    BY <1>5, <1>6 DEF Listed, SeqRange, Inv, Typed
  <2>2. app[l].st \in {"starting", "running", "tofree"}
    BY <2>1 DEF Inv, EntriesOK
  <2>3. app[l].st # "starting"
    <3> SUFFICES ASSUME app[l].st = "starting" PROVE FALSE
      OBVIOUS
    <3>1. PICK k \in 1..Len(stack) : stack[k].kind = "main" /\ stack[k].app = l
      BY <1>2, <2>1 DEF Inv, InProgress, Starting, IsLib
    <3>2. k = Len(stack)
      BY <1>2, <2>1, <3>1 DEF Inv, ActivationsOK, IsLib
    <3> QED BY <1>2, <3>1, <3>2
  <2>4. OneMoreUser(l)
    BY <1>6, <2>1, <2>2 DEF OneMoreUser
  <2> QED BY <1>0, <1>1, <1>6, <2>1, <2>2, <2>3, <2>4, LoadGoesOnStep
<1>7. CASE l = NULL /\ \E b \in Addr : Allocates(b, p, NULL)
  <2>1. PICK b \in Addr : Allocates(b, p, NULL)
    BY <1>7
  <2>2. ASSUME NEW x \in Addr, app[x].prog = p
        PROVE  FALSE
    <3>1. x \notin SeqRange(apps)
      BY <1>5, <1>7, <2>2, ProgramsAssumption DEF SeqRange, Inv, Typed
    <3>2. app[x].st = "loading"
      <4>1. app[x].st # "free"
        BY <1>2, <2>2, ProgramsAssumption DEF Inv, EntriesOK, Blank
      <4> QED BY <3>1, <4>1 DEF Inv, EntriesOK, Listed, Typed, Application
    <3>3. PICK k \in 1..Len(stack) : stack[k].kind = "load" /\ stack[k].app = x
      BY <3>2 DEF Inv, InProgress, Loads
    <3>4. x # a
      BY <1>2, <1>3, <2>2 DEF SoundlyLinked
    <3>5. k < Len(stack)
      BY <1>2, <3>3, <3>4
    <3>6. <<p, app[a].prog>> \in Depends
      BY <1>2, <2>2, <3>3, <3>5 DEF Inv, NestingOK
    <3>7. <<p, p>> \in Depends
      BY <1>2, <1>3, <3>6, DependsIs
    <3> QED BY <1>2, <3>7 DEF SoundlyLinked
  <2>3. LoadsAtTop(p)
    BY <1>0, <1>1, <1>2 DEF LoadsAtTop
  <2> QED BY <1>1, <1>2, <2>1, <2>2, <2>3, AllocatesStep
<1> QED BY <1>0, <1>4, <1>6, <1>7 DEF LoadNextLibrary, Libs

\* RegistryLoadLibraries finds the next entry, or begins to load it.
LEMMA BootStep ==
  ASSUME Inv, Boot
  PROVE  Inv'
<1>0. PICK p : p = BootList[pos]
  OBVIOUS
<1>1. /\ phase = "boot" /\ stack = << >> /\ pos <= Len(BootList) /\ pos' = pos + 1
      /\ UNCHANGED <<phase, GSExit>>
  BY DEF Boot
<1>2. p \in Programs /\ ret = "none" /\ p # NULL
  <2>1. pos \in 1..Len(BootList)
    BY <1>1, ProgramsAssumption DEF Inv, PhasesOK
  <2>2. ret = "none"
    BY <1>1 DEF Inv, RetOK, Running
  <2> QED BY <1>0, <2>1, <2>2, ProgramsAssumption
<1>3. PICK l : l = IF p \in Libraries THEN GetLibrary(Tables, p) ELSE NULL
  OBVIOUS
<1>4. p \in Libraries => IF \E x \in SeqRange(apps) : app[x].prog = p
                         THEN l \in SeqRange(apps) /\ app[l].prog = p ELSE l = NULL
  <2>1. Tables.apps = apps /\ Tables.app = app /\ apps \in Seq(Addr)
    BY DEF Tables, Inv, Typed
  <2> QED BY <1>3, <2>1, GetLibraryIs
<1>5. CASE l = NULL
  <2>1. PICK a \in Addr : Allocates(a, p, NULL)
    BY <1>0, <1>3, <1>5 DEF Boot
  <2>2. ASSUME p \in Libraries, NEW x \in Addr
        PROVE  app[x].prog # p
    <3>1. x \in SeqRange(apps) => app[x].prog # p
      BY <1>4, <1>5, <2>2, ProgramsAssumption DEF SeqRange, Inv, Typed
    <3>2. app[x].st # "loading"
      <4>1. Len(stack) = 0
        BY <1>1
      <4> QED BY <4>1 DEF Inv, InProgress
    <3>3. app[x].st = "free" => app[x].prog # p
      BY <1>2 DEF Inv, EntriesOK, Blank
    <3> QED BY <3>1, <3>2, <3>3 DEF Inv, EntriesOK, Listed, Typed, Application
  <2>3. PollsAtTop /\ BootsNext(p)
    BY <1>0, <1>1 DEF PollsAtTop, BootsNext
  <2> QED BY <1>1, <1>2, <2>1, <2>2, <2>3, AllocatesStep
<1>6. CASE l # NULL
  <2>1. app' = [app EXCEPT ![l].users = @ + 1] /\ UNCHANGED <<apps, symbols, stack, ret>>
    BY <1>0, <1>3, <1>6 DEF Boot
  <2>2. l \in Addr /\ Listed(l)
    BY <1>3, <1>4, <1>6 DEF Listed, SeqRange, Inv, Typed
  <2>3. app[l].st = "running"
    <3>1. IsLib(l) /\ Len(stack) = 0
      BY <1>1, <1>3, <1>4, <1>6, <2>2 DEF IsLib, Listed
    <3>2. app[l].st # "starting"
      BY <2>2, <3>1 DEF Inv, InProgress
    <3> QED BY <1>1, <2>2, <3>2 DEF Inv, EntriesOK, PhasesOK
  <2>4. BootsNext(app[l].prog)
    BY <1>0, <1>1, <1>3, <1>4, <1>6 DEF BootsNext
  <2> QED BY <1>1, <2>1, <2>2, <2>3, <2>4, BootFindsStep
<1> QED BY <1>5, <1>6

\* A program is started by the user, or by a console.
LEMMA RunStep ==
  ASSUME Inv, NEW p \in Programs \ Libraries, Run(p) \/ RunHosted(p), MaxHosted <= 1
  PROVE  Inv'
<1>1. PollsAtTop /\ ret = "none" /\ phase = "up" /\ UNCHANGED <<phase, pos, GSExit>>
  BY PollingIs DEF Run, RunHosted, Env
<1>2. CASE Run(p)
  <2>1. PICK a \in Addr : Allocates(a, p, NULL)
    BY <1>2 DEF Run
  <2> QED BY <1>1, <2>1, AllocatesStep
<1>3. CASE RunHosted(p)
  <2>1. PICK h : h = Top.app
    OBVIOUS
  <2>2. PICK a \in Addr : Allocates(a, p, h)
    BY <1>3, <2>1 DEF RunHosted
  <2>3. h \in Addr /\ stack[Len(stack)].kind = "main" /\ stack[Len(stack)].app = h /\ Len(stack) \in 1..Len(stack)
    BY <1>3, <2>1, TopIs DEF RunHosted, Inv
  <2>4. Listed(h)
    BY <2>3 DEF Inv, ActivationsOK, EntriesOK
  <2>5. app[h].prog \in Consoles /\ app[h].host = NULL
    BY <1>3, <2>1 DEF RunHosted, Polling, Running
  <2>6. \A b \in Addr : app[b].host # h
    <3> DEFINE B == {b \in Addr : app[b].host = h}
    <3>1. Cardinality(B) < MaxHosted
      BY <1>3, <2>1 DEF RunHosted
    <3>2. IsFiniteSet(B)
      <4>1. B \in SUBSET Addr
        OBVIOUS
      <4> HIDE DEF B
      <4> QED BY <4>1, FS_Subset, ProgramsAssumption
    <3>3. Cardinality(B) \in Nat /\ (Cardinality(B) = 0 <=> B = {})
      <4> HIDE DEF B
      <4> QED BY <3>2, FS_CardinalityType, FS_EmptySet
    <3>4. B = {}
      <4> HIDE DEF B
      <4> QED BY <3>1, <3>3, ProgramsAssumption
    <3> QED BY <3>4
  <2>7. HostFor(p, h)
    BY <2>4, <2>5, <2>6 DEF HostFor
  <2> QED BY <1>1, <2>2, <2>3, <2>7, AllocatesStep
<1> QED BY <1>2, <1>3

\* A step that only changes the stack.
LEMMA TypedStack ==
  ASSUME Typed, UNCHANGED <<tables, phase, pos, GSExit>>, stack' \in Seq(Activation),
         ret' \in {"ok", "fail", "none"}
  PROVE  Typed'
BY DEF Typed, tables

\* The library's file is not there.
LEMMA LibraryNotRunStep ==
  ASSUME Inv, LibraryNotRun
  PROVE  Inv'
<1>1. /\ Running("load") /\ ret = "none" /\ phase = "up" /\ ret' = "fail"
      /\ UNCHANGED <<tables, stack, phase, pos, GSExit>>
  BY DEF LibraryNotRun, Env
<1>2. PICK n : n = Len(stack)
  OBVIOUS
<1>3. n \in Nat /\ n > 0 /\ stack[n].kind = "load" /\ Len(stack') = n
  BY <1>1, <1>2, LoadingIs
<1>4. Typed'
  BY <1>1, TypedStack DEF Inv, Typed
<1>5. CutTo(n)
  BY <1>1, <1>2, <1>3 DEF CutTo, KeptCall, tables
<1>6. \A k \in 1..Len(stack) : k > n => ~Calls(k)
  BY <1>2, <1>3
<1> QED BY <1>1, <1>3, <1>4, <1>5, <1>6, StackStep

\* LoadLibraries goes on to the library after the one that has returned.
LEMMA LibraryLoadedStep ==
  ASSUME Inv, LibraryLoaded
  PROVE  Inv'
<1>1. /\ Running("load") /\ ret = "ok" /\ ret' = "none" /\ UNCHANGED <<tables, phase, pos, GSExit>>
      /\ stack' = [stack EXCEPT ![Len(stack)].next = @ + 1]
  BY DEF LibraryLoaded, Env
<1>2. app' = app /\ UNCHANGED <<apps, symbols>>
  BY <1>1 DEF tables
<1>3. Top.next <= Len(Libs(Top.app)) /\ Top.app \in Addr
  BY <1>1, LoadingIs DEF Inv, RetOK
<1>4. PICK l \in Addr : OneMoreUser(l)
  BY <1>2, <1>3 DEF OneMoreUser
<1> QED BY <1>1, <1>2, <1>3, <1>4, LoadGoesOnStep

\* A handler returns.
LEMMA HandlerReturnsStep ==
  ASSUME Inv, HandlerReturns
  PROVE  Inv'
<1>1. Running("handler") /\ Returns("none") /\ UNCHANGED <<tables, phase, pos, GSExit>>
  BY DEF HandlerReturns, Env
<1>2. PICK n : n = Len(stack) - 1
  OBVIOUS
<1>3. /\ n \in Nat /\ n + 1 = Len(stack) /\ n + 1 \in 1..Len(stack) /\ stack[n + 1].kind = "handler"
      /\ stack # << >> /\ ~Running("load")
  BY <1>1, <1>2, TopIs DEF Inv, Running
<1>4. ret = "none" /\ phase = "up"
  BY <1>1, PollingIs
<1>5. /\ stack' \in Seq(Activation) /\ Len(stack') = n /\ ret' = "none"
      /\ \A k \in 1..n : stack'[k] = stack[k]
  BY <1>1, <1>2, <1>3, ReturnsIs DEF Inv
<1>6. Typed'
  BY <1>1, <1>5, TypedStack DEF Inv
<1>7. CutTo(n)
  BY <1>1, <1>3, <1>5 DEF CutTo, KeptCall, tables
<1>8. \A k \in 1..Len(stack) : k > n => ~Calls(k)
  BY <1>3 DEF Calls
<1> QED BY <1>1, <1>3, <1>4, <1>5, <1>6, <1>7, <1>8, StackStep

\* A handler, or DynLdTCP, is called by what polls.
LEMMA PollCallsStep ==
  ASSUME Inv, Polling, NEW f \in Activation, f.kind \in {"handler", "dialog", "tcp"},
         stack' = Append(stack, f), UNCHANGED <<tables, ret, phase, pos, GSExit>>
  PROVE  Inv'
<1>1. PollsAtTop /\ ret = "none" /\ phase = "up"
  BY PollingIs
<1>2. PICK n : n = Len(stack)
  OBVIOUS
<1>3. /\ n \in Nat /\ stack' \in Seq(Activation) /\ Len(stack') = n + 1 /\ stack'[n + 1] = f
      /\ \A k \in 1..n : stack'[k] = stack[k]
  BY <1>2, AppendedIs DEF Inv, Typed
<1>4. Typed'
  BY <1>1, <1>3, TypedStack DEF Inv
<1>5. CutTo(n)
  <2>1. \A k \in 1..n : stack'[k] = stack[k] /\ (Calls(k) => KeptCall(k))
    BY <1>3 DEF KeptCall, tables
  <2>2. \A k \in 1..n : /\ stack[k].kind \notin {"load", "tcp"}
                        /\ stack[k].kind = "main" => ~IsLib(stack[k].app)
    BY <1>1, <1>2 DEF PollsAtTop
  <2> QED BY <1>2, <1>3, <2>1, <2>2 DEF CutTo
<1>6. \A k \in 1..Len(stack) : k > n => ~Calls(k)
  BY <1>2, <1>3
<1> QED BY <1>1, <1>3, <1>4, <1>5, <1>6, StackStep

\* A poll calls a handler.
LEMMA HandleEventStep ==
  ASSUME Inv, NEW a \in Addr, HandleEvent(a)
  PROVE  Inv'
<1>1. [kind |-> "handler", app |-> a, next |-> 0] \in Activation
  BY DEF Activation
<1> QED BY <1>1, PollCallsStep DEF HandleEvent, Env

\* What the handler at the top becomes when it calls WidgetExecute or is returned into.
LEMMA TurnsIs ==
  ASSUME Typed, NEW kind \in {"handler", "dialog"}, NEW k0, Running(k0), Turns(kind)
  PROVE  LET n == Len(stack) IN
         /\ n \in Nat /\ n > 0 /\ stack' \in Seq(Activation) /\ Len(stack') = n
         /\ stack'[n].kind = kind /\ stack'[n].app = stack[n].app
         /\ \A k \in 1..(n - 1) : stack'[k] = stack[k]
<1>1. PICK n, f : n = Len(stack) /\ f = [stack[n] EXCEPT !.kind = kind]
  OBVIOUS
<1>2. n \in 1..n /\ n \in Nat /\ stack[n] \in Activation /\ stack \in Seq(Activation)
  BY <1>1, TopIs DEF Typed
<1>3. f \in Activation /\ f.kind = kind /\ f.app = stack[n].app
  BY <1>1, <1>2 DEF Activation
<1>4. stack' = [stack EXCEPT ![n] = f]
  BY <1>1 DEF Turns
<1>5. stack' \in Seq(Activation) /\ Len(stack') = n /\ stack'[n] = f
  BY <1>1, <1>2, <1>3, <1>4
<1>6. \A k \in 1..(n - 1) : stack'[k] = stack[k]
  BY <1>1, <1>2, <1>4
<1> QED BY <1>1, <1>2, <1>3, <1>5, <1>6

\* A handler calls WidgetExecute, or is returned into.
LEMMA TurnsStep ==
  ASSUME Inv, OpenDialog \/ AnswerDialog
  PROVE  Inv'
<1>1. PICK k0, k1 \in {"handler", "dialog"} :
        Running(k0) /\ Turns(k1) /\ UNCHANGED <<phase, pos, GSExit>>
  BY DEF OpenDialog, AnswerDialog, Env
<1>2. PollsAtTop /\ ret = "none" /\ phase = "up" /\ UNCHANGED <<tables, ret>>
  BY <1>1, PollingIs DEF Turns
<1>3. PICK n : n = Len(stack) - 1
  OBVIOUS
<1>4. /\ n \in Nat /\ n + 1 = Len(stack) /\ stack' \in Seq(Activation) /\ Len(stack') = n + 1
      /\ stack'[n + 1].kind \in {"handler", "dialog"}
      /\ \A k \in 1..n : stack'[k] = stack[k] /\ k \in 1..Len(stack)
  <2>1. PICK m : m = Len(stack)
    OBVIOUS
  <2>2. /\ m \in Nat /\ m > 0 /\ stack' \in Seq(Activation) /\ Len(stack') = m
        /\ stack'[m].kind = k1 /\ \A k \in 1..(m - 1) : stack'[k] = stack[k]
    BY <1>1, <2>1, TurnsIs DEF Inv
  <2> QED BY <1>3, <2>1, <2>2
<1>5. Typed'
  BY <1>1, <1>2, <1>4, TypedStack DEF Inv
<1>6. CutTo(n)
  <2>1. \A k \in 1..n : stack'[k] = stack[k] /\ (Calls(k) => KeptCall(k))
    BY <1>2, <1>4 DEF KeptCall, tables
  <2>2. \A k \in 1..n : /\ stack[k].kind \notin {"load", "tcp"}
                        /\ stack[k].kind = "main" => ~IsLib(stack[k].app)
    BY <1>2, <1>4 DEF PollsAtTop
  <2> QED BY <1>4, <2>1, <2>2 DEF CutTo
<1>7. \A k \in 1..Len(stack) : k > n => ~Calls(k)
  <2>1. stack[n + 1].kind = k0
    BY <1>1, <1>4, TopIs DEF Inv
  <2> QED BY <1>4, <2>1 DEF Calls
<1> QED BY <1>1, <1>2, <1>4, <1>5, <1>6, <1>7, StackStep

\* SysPoll calls DynLdTCP on the last item.
LEMMA TcpStartStep ==
  ASSUME Inv, TcpStart
  PROVE  Inv' /\ SweepOK'
<1>1. PICK f : f = [kind |-> "tcp", app |-> apps[Len(apps)], next |-> 0]
  OBVIOUS
<1>2. /\ Polling /\ apps # << >> /\ stack' = Append(stack, f)
      /\ UNCHANGED <<tables, ret, phase, pos, GSExit>>
  BY <1>1 DEF TcpStart, Env
<1>3. Len(apps) \in 1..Len(apps) /\ apps[Len(apps)] \in Addr
  BY <1>2 DEF Inv, Typed
<1>4. f \in Activation /\ f.kind = "tcp" /\ f.app \in SeqRange(apps)
  BY <1>1, <1>3 DEF Activation, SeqRange
<1>5. Inv'
  BY <1>2, <1>4, PollCallsStep
<1>6. SweepOK'
  <2>1. stack'[Len(stack')] = f
    BY <1>2, <1>4, AppendedIs DEF Inv, Typed
  <2> QED BY <1>2, <1>4, <2>1 DEF SweepOK, Running, Top, Listed, tables
<1> QED BY <1>5, <1>6

\* CloseApp: the program waits for DynLdTCP, its symbols are gone.
LEMMA CloseWindowStep ==
  ASSUME Inv, SoundlyLinked, NEW a \in Addr, a = Top.app, CloseWindow
  PROVE  Inv' /\ \A x \in Addr : x # a => app'[x] = app[x]
<1>1. /\ Running("handler") /\ Listed(a) /\ ~IsLib(a) /\ app[a].st = "running"
      /\ app[a].prog \notin Consoles /\ Becomes(CloseApp(Tables, a))
      /\ Returns("none") /\ UNCHANGED <<phase, pos, GSExit>>
  BY DEF CloseWindow, Program, IsLib, Env
<1>2. ret = "none" /\ phase = "up" /\ PollsAtTop
  BY <1>1, PollingIs
<1>3. /\ app \in [Addr -> Application] /\ apps \in Seq(Addr) /\ app[a].prog \in Programs
      /\ NULL \notin Addr /\ a # NULL /\ Len(stack) \in Nat /\ NULL \notin Libraries
      /\ \A k \in 1..Len(stack) : stack[k].app \in Addr /\ stack[k].next \in Nat
  BY <1>1, ProgramsAssumption, Activations DEF Inv, Typed, EntriesOK
<1>4. Hosted(a) = {}
  BY <1>1, <1>3 DEF Hosted, Inv, HostsOK
<1>5. PICK f, q, g, y : /\ f = FreedApps(app, {}) /\ q = Without(apps, {})
                        /\ g = ClosedApps(f, {a}) /\ y = OthersSymbols(symbols, {a})
  OBVIOUS
<1>6. app' = g /\ apps' = q /\ symbols' = y
  <2>1. CloseApp(Tables, a) = Tab(g, q, y)
    BY <1>4, <1>5, FreeHostedAppIs, ClosedIs DEF CloseApp
  <2>2. \A i, j, k : Tab(i, j, k).app = i /\ Tab(i, j, k).apps = j /\ Tab(i, j, k).symbols = k
    BY DEF Tab
  <2> QED BY <1>1, <2>1, <2>2 DEF Becomes
<1>7. f = app
  <2>1. f = [x \in Addr |-> app[x]]
    BY <1>5 DEF FreedApps
  <2> QED BY <1>3, <2>1
<1>8. /\ app' \in [Addr -> Application]
      /\ app'[a].st = "tofree" /\ app'[a].close = FALSE /\ app'[a].users = app[a].users
      /\ \A x \in Addr : /\ x # a => app'[x] = app[x]
                         /\ app'[x].prog = app[x].prog /\ app'[x].bound = app[x].bound
                         /\ app'[x].host = app[x].host
  <2> DEFINE e == [app[a] EXCEPT !.close = FALSE, !.st = "tofree"]
  <2>1. app[a] \in Application
    BY <1>3
  <2>2. /\ e \in Application /\ e.prog = app[a].prog /\ e.host = app[a].host /\ e.bound = app[a].bound
        /\ e.users = app[a].users /\ e.st = "tofree" /\ e.close = FALSE
    BY <2>1 DEF Application
  <2>3. app' = [x \in Addr |-> IF x = a THEN e ELSE app[x]]
    <3>1. \A x \in Addr : (IF x \in {a} THEN [app[x] EXCEPT !.close = FALSE, !.st = "tofree"] ELSE app[x])
                            = IF x = a THEN e ELSE app[x]
      OBVIOUS
    <3> QED BY <1>5, <1>6, <1>7, <3>1 DEF ClosedApps
  <2> HIDE DEF e
  <2> QED BY <1>3, <2>2, <2>3
<1>9. /\ apps' \in Seq(Addr) /\ SeqRange(apps') = SeqRange(apps) /\ Distinct(apps')
      /\ \A x, z : Before(apps, x, z) => Before(apps', x, z)
  <2>1. /\ q \in Seq(Addr) /\ SeqRange(q) = SeqRange(apps) \ {} /\ Distinct(q)
        /\ \A x, z : x \notin {} /\ z \notin {} /\ Before(apps, x, z) => Before(q, x, z)
    BY <1>3, <1>5, WithoutIs DEF Inv, EntriesOK
  <2> QED BY <1>6, <2>1
<1>10. \A x : Listed(x)' = Listed(x)
  BY <1>9 DEF Listed
<1>11. symbols' \subseteq symbols
  BY <1>5, <1>6 DEF OthersSymbols
<1>12. PICK n : n = Len(stack) - 1
  OBVIOUS
<1>13. /\ n \in Nat /\ n + 1 = Len(stack) /\ n + 1 \in 1..Len(stack)
       /\ stack[n + 1].kind = "handler" /\ stack' \in Seq(Activation) /\ Len(stack') = n
       /\ ret' = "none" /\ \A k \in 1..n : stack'[k] = stack[k]
  <2>1. /\ n \in Nat /\ n + 1 = Len(stack) /\ n + 1 \in 1..Len(stack)
        /\ stack[n + 1].kind = "handler" /\ stack # << >>
    BY <1>1, <1>3, <1>12, TopIs DEF Inv, Running
  <2> QED BY <1>1, <1>12, <2>1, ReturnsIs DEF Inv
<1>14. Typed'
  BY <1>1, <1>8, <1>9, <1>11, <1>13 DEF Inv, Typed
<1>15. ASSUME NEW k \in 1..Len(stack), Calls(k)
       PROVE  stack[k].app # a /\ stack[k].app \in Addr /\ app'[stack[k].app] = app[stack[k].app]
  <2>1. app[stack[k].app].st \in {"loading", "starting"}
    BY <1>15 DEF Inv, ActivationsOK, Calls
  <2> QED BY <1>1, <1>3, <1>8, <2>1
<1>16. n \in Nat /\ CutTo(n)
  BY <1>15, <1>13 DEF CutTo, KeptCall
<1>17. ActivationsOK' /\ NestingOK' /\ HostBelow' /\ RetOK'
  BY <1>1, <1>2, <1>14, <1>16, <1>13, CutKeepsStack, CutKeepsRet DEF Inv
<1>18. EntriesOK'
  <2>1. \A x \in Addr : IF app'[x].st = "free" THEN app'[x] = Blank ELSE app'[x].prog \in Programs
    BY <1>3, <1>8 DEF Inv, EntriesOK
  <2>2. \A x \in Addr : Listed(x)' <=> app'[x].st \in {"starting", "running", "tofree"}
    BY <1>1, <1>8, <1>10 DEF Inv, EntriesOK
  <2>3. \A l, m \in Addr : app'[l].prog \in Libraries /\ app'[l].prog = app'[m].prog => l = m
    BY <1>8 DEF Inv, EntriesOK, IsLib
  <2> QED BY <1>9, <2>1, <2>2, <2>3 DEF EntriesOK, IsLib
<1>19. InProgress'
  <2>1. \A x \in Addr : /\ app'[x].st = "loading" => app[x].st = "loading"
                        /\ app'[x].st = "starting" => app[x].st = "starting"
                        /\ app'[x].prog = app[x].prog
    BY <1>8
  <2>2. \A k \in 1..Len(stack) : Calls(k) => k \in 1..Len(stack') /\ stack'[k] = stack[k]
    BY <1>13 DEF Calls
  <2> QED BY <2>1, <2>2 DEF Inv, InProgress, Loads, Starting, IsLib, Calls
<1>20. HostsOK'
  <2>1. \A b \in Addr : app[b].host # NULL => app[b].host \in Addr
    BY <1>3 DEF Application
  <2>2. \A x \in Addr : app'[x].st = "tofree" => app'[x].prog \notin Consoles
    BY <1>1, <1>8 DEF Inv, HostsOK
  <2> QED BY <1>8, <1>10, <2>1, <2>2 DEF Inv, HostsOK, IsLib
<1>21. SymbolsOK'
  <2>1. \A y2 \in symbols : y2.home \in Addr /\ y2.home # a
    BY <1>1 DEF Inv, SymbolsOK, Typed
  <2> QED BY <1>8, <1>11, <2>1 DEF Inv, SymbolsOK, IsLib
<1>22. \A u \in Libraries : /\ Runs(u) => Runs(u)'
                            /\ Stays(u) => Stays(u)'
  BY <1>1, <1>8 DEF Runs, Stays, IsLib
<1>23. /\ \A k \in 1..Len(stack') : stack'[k].kind = "load" =>
            k \in 1..Len(stack) /\ stack[k].kind = "load" /\ stack'[k] = stack[k] /\ Taken(k)' = Taken(k)
       /\ \A u : \A x \in Addr : Takes(x, u)' => Takes(x, u)
  <2>1. Typed /\ ret # "ok" /\ ret' # "ok"
    BY <1>2, <1>13 DEF Inv
  <2>2. \A u : \A x \in Addr : Listed(x)' /\ u \in SeqRange(NeededLibs[app'[x].prog]) => Takes(x, u)
    BY <1>8, <1>10 DEF Takes, Libs
  <2> QED BY <1>16, <2>1, <2>2, CutKeepsTaken
<1>24. NeedsRun'
  <2>1. ASSUME NEW x \in Addr, Listed(x)', NEW u \in SeqRange(NeededLibs[app'[x].prog])
        PROVE  Runs(u)'
    <3>1. Listed(x) /\ u \in SeqRange(Libs(x)) /\ app[x].prog \in Programs
      BY <1>8, <1>10, <2>1 DEF Libs, Inv, EntriesOK
    <3>2. u \in Libraries
      BY <3>1, ProgramsAssumption DEF Libs, SeqRange
    <3> QED BY <1>22, <3>1, <3>2 DEF Inv, NeedsRun
  <2>2. \A k \in 1..Len(stack') : stack'[k].kind # "load"
    BY <1>2, <1>13 DEF PollsAtTop
  <2> QED BY <2>1, <2>2 DEF NeedsRun, Libs
<1>25. UsersOK'
  <2>1. \A l \in Addr : app'[l].st = "running" => app'[l] = app[l]
    BY <1>8
  <2>2. \A l \in Addr : app[l].users \in Nat
    BY <1>3 DEF Application
  <2>3. \A l \in Addr : app'[l].st = "running" =>
          app[l].st = "running" /\ app'[l].prog = app[l].prog /\ app'[l].users >= app[l].users
    BY <2>1, <2>2
  <2>4. phase' = phase /\ pos' = pos /\ \A u : \A x \in Addr : Takes(x, u)' => Takes(x, u)
    BY <1>1, <1>23
  <2> QED BY <1>14, <2>3, <2>4, UsersKept
<1>26. LinksOK'
  <2>1. ASSUME NEW x \in Addr, Listed(x)', NEW h \in app'[x].bound
        PROVE  app'[h].st = "running" /\ <<app'[x].prog, app'[h].prog>> \in Depends /\ Before(apps', h, x)
    <3>1. h \in Addr /\ app[h].st = "running" /\ <<app[x].prog, app[h].prog>> \in Depends /\ Before(apps, h, x)
      BY <1>3, <1>8, <1>10, <2>1 DEF Inv, LinksOK, Application
    <3>2. h # a
      BY <1>1, <3>1, DependsIs DEF IsLib
    <3> QED BY <1>8, <1>9, <3>1, <3>2
  <2> QED BY <2>1 DEF LinksOK, Before
<1>27. PhasesOK'
  <2>1. \A x \in Addr : /\ app'[x].st = "tofree" => ~app'[x].close
                        /\ Open(x)' => app'[x].close
    BY <1>2, <1>8 DEF Inv, PhasesOK, Open
  <2> QED BY <1>1, <1>2, <1>13, <2>1 DEF PhasesOK
<1>28. BootsOK'
  <2> SUFFICES ASSUME NEW u \in Libraries, Booted(u)'
               PROVE  Runs(u)'
    BY DEF BootsOK
  <2>1. Booted(u)
    BY <1>1, BootsAre
  <2> QED BY <1>2, <1>22, <2>1 DEF Inv, BootsOK, Booting
<1> QED BY <1>8, <1>14, <1>17, <1>18, <1>19, <1>20, <1>21, <1>24, <1>25, <1>26, <1>27, <1>28 DEF Inv

(***************************************************************************)
(* The phases.                                                             *)
(***************************************************************************)
LEMMA SameTablesStep ==
  ASSUME Inv, UNCHANGED <<tables, stack, ret>>, Typed', PhasesOK',
         phase' = phase \/ stack = << >>, \A q : Booted(q)' => Booted(q)
  PROVE  Inv'
<1>1. app' = app /\ apps' = apps /\ symbols' = symbols /\ stack' = stack /\ ret' = ret
  BY DEF tables
<1>2. EntriesOK' /\ ActivationsOK' /\ NestingOK' /\ InProgress'
  BY <1>1 DEF Inv, EntriesOK, ActivationsOK, NestingOK, InProgress, Listed, IsLib, Libs, Calls, Loads, Starting
<1>3. RetOK' /\ HostsOK' /\ HostBelow' /\ SymbolsOK' /\ LinksOK'
  BY <1>1 DEF Inv, RetOK, HostsOK, HostBelow, SymbolsOK, LinksOK,
                  Running, Top, Listed, IsLib, Libs, Calls, Starting
<1>4. \A k : Taken(k)' = Taken(k)
  BY <1>1 DEF Taken, Libs
<1>5. NeedsRun'
  BY <1>1, <1>4 DEF Inv, NeedsRun, Listed, Libs, Runs, Stays
<1>6. UsersOK'
  <2>1. \A q : Holders(q)' = Holders(q)
    BY <1>1, <1>4 DEF Holders, Takes, Listed, Libs, Loads
  <2>2. \A q : Cardinality(Holders(q)) \in Nat
    BY HoldersFinite
  <2>3. \A q : Boots(q)' \in Nat /\ Boots(q) \in Nat /\ Boots(q)' <= Boots(q)
    BY DEF Boots
  <2>4. ASSUME NEW l \in Addr, app[l].st = "running", NEW q, q = app[l].prog, q \in Libraries
        PROVE  app[l].users >= Cardinality(Holders(q)') + Boots(q)'
    <3>1. app[l].users >= Cardinality(Holders(q)) + Boots(q) /\ app[l].users \in Nat
      BY <2>4 DEF Inv, UsersOK, IsLib, Typed, Application
    <3> QED BY <2>1, <2>2, <2>3, <3>1
  <2> QED BY <1>1, <2>4 DEF UsersOK, IsLib
<1>7. BootsOK'
  <2> SUFFICES ASSUME NEW q \in Libraries, Booted(q)'
               PROVE  Runs(q)' \/ Booting(q)'
    BY DEF BootsOK
  <2>1. Runs(q) \/ Booting(q)
    BY DEF Inv, BootsOK
  <2> QED BY <1>1, <2>1 DEF Runs, Booting
<1> QED BY <1>2, <1>3, <1>5, <1>6, <1>7 DEF Inv

\* The phases of the system's life, up to the end of the main loop.
LEMMA PhaseStep ==
  ASSUME Inv, BootEnds \/ Quit \/ LeaveLoop \/ UNCHANGED vars
  PROVE  Inv'
<1>1. UNCHANGED <<tables, stack, ret>>
  BY DEF BootEnds, Quit, LeaveLoop, vars, tables
<1>2. app' = app /\ apps' = apps /\ symbols' = symbols /\ stack' = stack /\ ret' = ret
  BY <1>1 DEF tables
<1>3. Len(apps) \in Nat /\ \A i \in 1..Len(apps) : apps[i] \in Addr
  BY DEF Inv, Typed
<1>4. stack = << >> => ret = "none"
  BY DEF Inv, RetOK, Running
<1>5. CASE BootEnds
  <2>1. phase = "boot" /\ phase' = "up" /\ stack = << >> /\ pos' = pos /\ GSExit' = GSExit
    BY <1>5 DEF BootEnds
  <2>2. Typed'
    BY <1>2, <2>1 DEF Inv, Typed
  <2>3. PhasesOK'
    BY <1>2, <2>1 DEF Inv, PhasesOK, Open
  <2>4. \A q : Booted(q)' => Booted(q)
    <3>1. pos \in Nat /\ pos > Len(BootList) /\ Len(BootList) \in Nat
      BY <1>5, ProgramsAssumption DEF BootEnds, Inv, Typed
    <3> QED BY <2>1, <3>1 DEF Booted
  <2> QED BY <1>1, <2>1, <2>2, <2>3, <2>4, SameTablesStep
<1>6. CASE Quit
  <2>1. phase' = phase /\ pos' = pos /\ GSExit' = TRUE
    BY <1>6 DEF Quit
  <2>2. Typed'
    BY <1>2, <2>1 DEF Inv, Typed
  <2>3. PhasesOK'
    BY <1>2, <2>1 DEF Inv, PhasesOK, Open, Calls
  <2> QED BY <1>1, <2>1, <2>2, <2>3, BootsAre, SameTablesStep
<1>7. CASE LeaveLoop
  <2>1. phase = "up" /\ phase' = "down" /\ stack = << >> /\ pos' = Len(apps) /\ GSExit' = GSExit
    BY <1>7 DEF LeaveLoop
  <2>2. Typed'
    BY <1>2, <1>3, <2>1 DEF Inv, Typed
  <2>3. PhasesOK'
    BY <1>2, <1>3, <1>4, <2>1 DEF Inv, PhasesOK, Open
  <2>4. \A q : ~Booted(q)'
    BY <2>1 DEF Booted
  <2> QED BY <1>1, <2>1, <2>2, <2>3, <2>4, SameTablesStep
<1>8. CASE UNCHANGED vars
  <2>1. phase' = phase /\ pos' = pos /\ GSExit' = GSExit
    BY <1>8 DEF vars
  <2>2. Typed'
    BY <1>2, <2>1 DEF Inv, Typed
  <2>3. PhasesOK'
    BY <1>2, <2>1 DEF Inv, PhasesOK, Open, Calls
  <2> QED BY <1>1, <2>1, <2>2, <2>3, BootsAre, SameTablesStep
<1> QED BY <1>5, <1>6, <1>7, <1>8

\* ShutDownDynLd closes the item before the one it has closed.
LEMMA ShutDownCloseStep ==
  ASSUME Inv, ShutDownClose
  PROVE  Inv'
<1>1. PICK a : a = apps[pos]
  OBVIOUS
<1>2. /\ phase = "down" /\ pos > 0 /\ pos' = pos - 1 /\ app' = [app EXCEPT ![a].close = FALSE]
      /\ apps' = apps /\ symbols' = symbols /\ stack' = stack /\ ret' = ret
      /\ phase' = phase /\ GSExit' = GSExit
  BY <1>1 DEF ShutDownClose
<1>3. /\ stack = << >> /\ ret = "none" /\ pos \in 1..Len(apps) /\ pos \in Nat /\ Len(apps) \in Nat
      /\ app \in [Addr -> Application] /\ apps \in Seq(Addr) /\ Len(stack) = 0 /\ NULL \notin Addr
      /\ \A i \in 1..Len(apps) : apps[i] \in Addr
  BY <1>2, ProgramsAssumption DEF Inv, PhasesOK, Typed
<1>4. a \in Addr /\ Listed(a)
  BY <1>1, <1>3 DEF Listed, SeqRange
<1>5. /\ app' \in [Addr -> Application] /\ app'[a].close = FALSE
      /\ \A x \in Addr : /\ x # a => app'[x] = app[x]
                         /\ app'[x].prog = app[x].prog /\ app'[x].st = app[x].st
                         /\ app'[x].host = app[x].host /\ app'[x].bound = app[x].bound
                         /\ app'[x].users = app[x].users
  <2> DEFINE e == [app[a] EXCEPT !.close = FALSE]
  <2>1. app[a] \in Application
    BY <1>3, <1>4
  <2>2. /\ e \in Application /\ e.prog = app[a].prog /\ e.host = app[a].host /\ e.bound = app[a].bound
        /\ e.users = app[a].users /\ e.st = app[a].st /\ e.close = FALSE
    BY <2>1 DEF Application
  <2>3. app' = [app EXCEPT ![a] = e]
    BY <1>2
  <2> HIDE DEF e
  <2> QED BY <1>3, <1>4, <2>2, <2>3
<1>6. \A x : Listed(x)' = Listed(x)
  BY <1>2 DEF Listed
<1>7. app[a].st \in {"starting", "running", "tofree"}
  BY <1>4 DEF Inv, EntriesOK
<1>8. Typed'
  BY <1>2, <1>3, <1>5 DEF Inv, Typed
<1>9. EntriesOK'
  <2>1. \A x \in Addr : IF app'[x].st = "free" THEN app'[x] = Blank ELSE app'[x].prog \in Programs
    BY <1>5, <1>7 DEF Inv, EntriesOK
  <2>2. \A x \in Addr : Listed(x)' <=> app'[x].st \in {"starting", "running", "tofree"}
    BY <1>5, <1>6 DEF Inv, EntriesOK
  <2>3. \A l, m \in Addr : app'[l].prog \in Libraries /\ app'[l].prog = app'[m].prog => l = m
    BY <1>5 DEF Inv, EntriesOK, IsLib
  <2> QED BY <1>2, <2>1, <2>2, <2>3 DEF Inv, EntriesOK, IsLib, Distinct
<1>10. ActivationsOK' /\ NestingOK' /\ HostBelow' /\ RetOK'
  BY <1>2, <1>3 DEF ActivationsOK, NestingOK, HostBelow, RetOK
<1>11. InProgress'
  BY <1>2, <1>5 DEF Inv, InProgress, Loads, Starting, IsLib
<1>12. HostsOK'
  <2>1. \A b \in Addr : app[b].host # NULL => app[b].host \in Addr
    BY <1>3 DEF Application
  <2> QED BY <1>5, <1>6, <2>1 DEF Inv, HostsOK, IsLib
<1>13. SymbolsOK'
  <2>1. \A y \in symbols : y.home \in Addr
    BY DEF Inv, Typed
  <2> QED BY <1>2, <1>5, <2>1 DEF Inv, SymbolsOK, IsLib
<1>14. NeedsRun'
  <2>1. \A x \in Addr : Listed(x)' => \A q \in SeqRange(NeededLibs[app'[x].prog]) : Runs(q)'
    BY <1>5, <1>6 DEF Inv, NeedsRun, Libs, Runs
  <2> QED BY <1>2, <1>3, <2>1 DEF NeedsRun, Libs
<1>15. UsersOK'
  <2>1. \A q : Holders(q)' = Holders(q)
    <3>1. \A q : \A x \in Addr : Takes(x, q)' <=> Takes(x, q)
      BY <1>2, <1>3, <1>5, <1>6 DEF Takes, Libs
    <3> QED BY <3>1 DEF Holders
  <2>2. \A l \in Addr : app'[l].prog = app[l].prog /\ app'[l].st = app[l].st /\ app'[l].users = app[l].users
    BY <1>5
  <2>3. \A q : Boots(q)' = Boots(q)
    BY <1>2 DEF Boots, Booted
  <2> QED BY <2>1, <2>2, <2>3 DEF Inv, UsersOK, IsLib
<1>16. LinksOK'
  <2>1. ASSUME NEW x \in Addr, Listed(x)', NEW h \in app'[x].bound
        PROVE  app'[h].st = "running" /\ <<app'[x].prog, app'[h].prog>> \in Depends /\ Before(apps', h, x)
    <3>1. h \in Addr /\ app[h].st = "running" /\ <<app[x].prog, app[h].prog>> \in Depends /\ Before(apps, h, x)
      BY <1>3, <1>5, <1>6, <2>1 DEF Inv, LinksOK, Application
    <3> QED BY <1>2, <1>5, <3>1
  <2> QED BY <2>1 DEF LinksOK, Before
<1>17. PhasesOK'
  <2>1. \A x \in Addr : app'[x].st = "tofree" => ~app'[x].close
    BY <1>5 DEF Inv, PhasesOK
  <2>2. ASSUME NEW i \in 1..Len(apps)
        PROVE  /\ i > pos - 1 => ~app'[apps[i]].close
               /\ i <= pos - 1 /\ Open(apps[i])' => app'[apps[i]].close
    <3>1. apps[i] \in Addr /\ (i > pos => ~app[apps[i]].close)
          /\ (i <= pos /\ Open(apps[i]) => app[apps[i]].close)
      BY <1>2, <1>3 DEF Inv, PhasesOK
    <3>2. CASE i = pos
      BY <1>1, <1>3, <1>5, <3>2
    <3>3. CASE i # pos
      <4>1. apps[i] # a
        BY <1>1, <1>3, <3>3 DEF Inv, EntriesOK, Distinct
      <4>2. app'[apps[i]] = app[apps[i]]
        BY <1>5, <3>1, <4>1
      <4>3. (i > pos - 1 => i > pos) /\ (i <= pos - 1 => i <= pos)
        BY <1>3, <3>3
      <4>4. app'[apps[i]].close = app[apps[i]].close /\ (Open(apps[i])' => Open(apps[i]))
        BY <1>2, <4>2 DEF Open
      <4> QED BY <3>1, <4>3, <4>4
    <3> QED BY <3>2, <3>3
  <2>3. pos - 1 \in 0..Len(apps)
    BY <1>3
  <2> QED BY <1>2, <1>3, <2>1, <2>2, <2>3 DEF PhasesOK, Open
<1>18. BootsOK'
  BY <1>2 DEF BootsOK, Booted
<1> QED BY <1>8, <1>9, <1>10, <1>11, <1>12, <1>13, <1>14, <1>15, <1>16, <1>17, <1>18 DEF Inv

\* Nothing is loaded: in the initial state, and at the end.
LEMMA NothingLoaded ==
  ASSUME app = [a \in Addr |-> Blank], apps = << >>, symbols = {}, stack = << >>, ret = "none",
         phase \in {"boot", "halted"}, pos \in Nat, phase = "boot" => pos = 1, GSExit \in BOOLEAN
  PROVE  Inv
<1>1. /\ \A a \in Addr : app[a] = Blank
      /\ Blank \in Application /\ Blank.st = "free" /\ Blank.prog = NULL /\ Blank.host = NULL
      /\ Blank.bound = {} /\ NULL \notin Programs /\ NULL \notin Libraries
      /\ Len(apps) = 0 /\ Len(stack) = 0
  BY ProgramsAssumption DEF Application, Blank
<1>2. Typed
  BY <1>1 DEF Typed
<1>3. \A a : ~Listed(a)
  BY <1>1 DEF Listed, SeqRange
<1>4. EntriesOK
  BY <1>1, <1>3 DEF EntriesOK, Distinct, IsLib
<1>5. ActivationsOK /\ NestingOK /\ HostBelow /\ RetOK /\ SymbolsOK
  BY <1>1 DEF ActivationsOK, NestingOK, HostBelow, RetOK, SymbolsOK
<1>6. InProgress /\ HostsOK /\ UsersOK
  BY <1>1 DEF InProgress, HostsOK, UsersOK
<1>7. NeedsRun /\ LinksOK
  BY <1>1, <1>3 DEF NeedsRun, LinksOK
<1>8. PhasesOK
  <2>1. Len(BootList) \in Nat
    BY ProgramsAssumption
  <2> QED BY <1>1, <2>1 DEF PhasesOK, Open
<1>9. BootsOK
  BY DEF BootsOK, Booted
<1> QED BY <1>2, <1>4, <1>5, <1>6, <1>7, <1>8, <1>9 DEF Inv

\* ShutDownDynLd has freed the lists.
LEMMA ShutDownFreeStep ==
  ASSUME Inv, ShutDownFree
  PROVE  Inv'
<1>1. /\ app' = [a \in Addr |-> Blank] /\ apps' = << >> /\ symbols' = {} /\ phase' = "halted"
      /\ stack' = stack /\ ret' = ret /\ pos' = pos /\ GSExit' = GSExit /\ phase = "down"
  BY DEF ShutDownFree, Becomes
<1>2. stack' = << >> /\ ret' = "none"
  BY <1>1 DEF Inv, PhasesOK
<1>3. /\ \A a \in Addr : app'[a] = Blank
      /\ Blank \in Application /\ Blank.st = "free" /\ Blank.prog = NULL /\ Blank.host = NULL
      /\ Blank.bound = {} /\ NULL \notin Programs /\ NULL \notin Libraries
      /\ Len(apps') = 0 /\ Len(stack') = 0
  BY <1>1, <1>2, ProgramsAssumption DEF Application, Blank
<1>4. Typed'
  BY <1>1, <1>2, <1>3 DEF Inv, Typed
<1>5. \A a : ~Listed(a)'
  BY <1>3 DEF Listed, SeqRange
<1>6. EntriesOK'
  BY <1>3, <1>5 DEF EntriesOK, Distinct, IsLib
<1>7. ActivationsOK' /\ NestingOK' /\ HostBelow' /\ RetOK' /\ SymbolsOK'
  BY <1>1, <1>2, <1>3 DEF ActivationsOK, NestingOK, HostBelow, RetOK, SymbolsOK
<1>8. InProgress' /\ HostsOK' /\ UsersOK'
  BY <1>3 DEF InProgress, HostsOK, UsersOK
<1>9. NeedsRun' /\ LinksOK'
  BY <1>3, <1>5 DEF NeedsRun, LinksOK
<1>10. PhasesOK'
  BY <1>1, <1>2, <1>3 DEF PhasesOK, Open
<1>11. BootsOK'
  BY <1>1 DEF BootsOK, Booted
<1> QED BY <1>4, <1>6, <1>7, <1>8, <1>9, <1>10, <1>11 DEF Inv

(***************************************************************************)
(* Only DynLdTCP itself has its activation at the top after a step.        *)
(***************************************************************************)
LEMMA NoOtherSweeps ==
  ASSUME Inv, SweepOK, [Next]_vars, ~TcpStart, ~TcpItem
  PROVE  SweepOK'
<1>1. PICK n : n = Len(stack)
  OBVIOUS
<1>2. stack \in Seq(Activation) /\ n \in Nat /\ \A k \in 1..n : stack[k].kind = "tcp" => k = n
  BY <1>1 DEF Inv, Typed, ActivationsOK
<1>3. ASSUME stack # << >>, stack' = Below
      PROVE  SweepOK'
  <2>1. Len(stack') = n - 1 /\ \A k \in 1..(n - 1) : stack'[k] = stack[k]
    BY <1>1, <1>2, <1>3, BelowIs DEF Inv
  <2>2. stack' # << >> => n - 1 \in 1..(n - 1) /\ n - 1 \in 1..n /\ n - 1 # n
    BY <1>2, <2>1, BelowIs, <1>3 DEF Inv
  <2> QED BY <1>2, <2>1, <2>2 DEF SweepOK, Running, Top
<1>4. ASSUME stack' = << >>
      PROVE  SweepOK'
  BY <1>4 DEF SweepOK, Running
<1>5. ASSUME NEW q \in Seq(Activation), NEW f \in Activation, f.kind # "tcp", stack' = Append(q, f)
      PROVE  SweepOK'
  <2>1. stack'[Len(stack')] = f
    BY <1>5, AppendedIs
  <2> QED BY <1>5, <2>1 DEF SweepOK, Running, Top
<1>6. ASSUME stack' = stack, apps' = apps
      PROVE  SweepOK'
  BY <1>6 DEF SweepOK, Running, Top, Listed
<1>7. ASSUME stack' = stack, ~Running("tcp")
      PROVE  SweepOK'
  BY <1>7 DEF SweepOK, Running, Top
<1>8. ASSUME Running("load"), stack' = [stack EXCEPT ![Len(stack)].next = @ + 1]
      PROVE  SweepOK'
  <2>1. n \in 1..n /\ stack[n].kind = "load" /\ stack[n] \in Activation
    BY <1>1, <1>8, TopIs DEF Inv
  <2>2. stack' = [stack EXCEPT ![n] = [stack[n] EXCEPT !.next = @ + 1]]
    BY <1>1, <1>2, <1>8, <2>1
  <2>3. [stack[n] EXCEPT !.next = @ + 1].kind = "load"
    BY <2>1 DEF Activation
  <2>4. Len(stack') = n /\ stack'[n].kind = "load"
    BY <1>1, <1>2, <2>1, <2>2, <2>3
  <2> QED BY <2>4 DEF SweepOK, Running, Top
<1>9. \A a \in Addr : \A p, h : Allocates(a, p, h) => SweepOK'
  <2> SUFFICES ASSUME NEW a \in Addr, NEW p, NEW h, Allocates(a, p, h)
               PROVE  SweepOK'
    OBVIOUS
  <2>1. [kind |-> "load", app |-> a, next |-> 1] \in Activation
    BY DEF Activation
  <2> QED BY <1>2, <1>5, <2>1 DEF Allocates
<1>10. ASSUME NEW r, NEW k, Running(k), Returns(r)
       PROVE  SweepOK'
  BY <1>3, <1>10 DEF Returns, Running
<1>11. Boot \/ BootEnds => SweepOK'
  BY <1>6, <1>9 DEF Boot, BootEnds, tables
<1>12. LoadNextLibrary => SweepOK'
  BY <1>8, <1>9 DEF LoadNextLibrary
<1>13. LibraryNotRun \/ LibraryLoaded => SweepOK'
  BY <1>6, <1>8 DEF LibraryNotRun, LibraryLoaded, tables
<1>14. LibraryMissing \/ NotStarted => SweepOK'
  BY <1>10 DEF LibraryMissing, NotStarted, AllLoaded
<1>15. Starts => SweepOK'
  <2> SUFFICES ASSUME Starts
               PROVE  SweepOK'
    OBVIOUS
  <2>1. Running("load") /\ stack' = Append(Below, [kind |-> "main", app |-> Top.app, next |-> 0])
    BY DEF Starts, AllLoaded
  <2>2. [kind |-> "main", app |-> Top.app, next |-> 0] \in Activation
    BY <2>1, TopIs DEF Activation, Inv
  <2>3. Below \in Seq(Activation)
    BY <2>1, BelowIs DEF Running, Inv
  <2> QED BY <1>5, <2>1, <2>2, <2>3
<1>16. MainTrue \/ MainFalse => SweepOK'
  BY <1>10 DEF MainTrue, MainFalse
<1>17. \A p \in Programs \ Libraries : Run(p) \/ RunHosted(p) => SweepOK'
  BY <1>9 DEF Run, RunHosted
<1>18. \A a \in Addr : HandleEvent(a) => SweepOK'
  <2> SUFFICES ASSUME NEW a \in Addr, HandleEvent(a)
               PROVE  SweepOK'
    OBVIOUS
  <2>1. [kind |-> "handler", app |-> a, next |-> 0] \in Activation
    BY DEF Activation
  <2> QED BY <1>2, <1>5, <2>1 DEF HandleEvent
<1>19. CloseWindow => SweepOK'
  BY <1>10 DEF CloseWindow
<1>20. \A a \in Addr : CloseConsoleWindow(a) \/ Kill(a) => SweepOK'
  BY <1>4 DEF CloseConsoleWindow, Kill, LongJmp
<1>21. Quit \/ LeaveLoop \/ Halted \/ UNCHANGED vars => SweepOK'
  BY <1>6 DEF Quit, LeaveLoop, Halted, vars, tables
<1>22. HandlerReturns \/ OpenDialog \/ AnswerDialog => SweepOK'
  <2>1. HandlerReturns => SweepOK'
    BY <1>10 DEF HandlerReturns
  <2>2. ASSUME NEW k0, Running(k0), NEW kind \in {"handler", "dialog"}, Turns(kind)
        PROVE  SweepOK'
    <3>1. PICK m : m = Len(stack)
      OBVIOUS
    <3>2. Len(stack') = m /\ stack'[m].kind = kind
      BY <2>2, <3>1, TurnsIs DEF Inv
    <3> QED BY <3>2 DEF SweepOK, Running, Top
  <2> QED BY <2>1, <2>2 DEF OpenDialog, AnswerDialog
<1>23. ShutDownClose => SweepOK'
  BY <1>6 DEF ShutDownClose
<1>24. ShutDownFree => SweepOK'
  BY <1>4 DEF ShutDownFree, Inv, PhasesOK
<1> QED BY <1>11, <1>12, <1>13, <1>14, <1>15, <1>16, <1>17, <1>18, <1>19, <1>20, <1>21, <1>22, <1>23, <1>24
    DEF Next, Loader
-----------------------------------------------------------------------------
\* Before the first entry of AUTOLIB nothing is loaded.
LEMMA InitInv == Init => Inv /\ SweepOK
<1> SUFFICES ASSUME Init
             PROVE  Inv /\ SweepOK
  OBVIOUS
<1>1. Inv
  BY NothingLoaded DEF Init
<1>2. SweepOK
  BY DEF Init, SweepOK, Running
<1> QED BY <1>1, <1>2

\* Every step of the loader keeps the invariant.
LEMMA NextInv ==
  ASSUME Sound, Inv, SweepOK, [Next]_vars
  PROVE  Inv' /\ SweepOK'
<1>1. SoundlyLinked /\ MaxHosted <= 1
  BY DEF Sound
<1>2. TcpStart => Inv' /\ SweepOK'
  BY TcpStartStep
<1>3. TcpItem => Inv' /\ SweepOK'
  BY <1>1, TcpItemStep
<1>4. CASE ~TcpStart /\ ~TcpItem
  <2>1. SweepOK'
    BY <1>4, NoOtherSweeps
  <2>2. Boot => Inv'
    BY BootStep
  <2>3. BootEnds \/ Quit \/ LeaveLoop \/ UNCHANGED vars => Inv'
    BY PhaseStep
  <2>4. LoadNextLibrary => Inv'
    BY <1>1, LoadNextLibraryStep
  <2>5. LibraryNotRun => Inv'
    BY LibraryNotRunStep
  <2>6. LibraryLoaded => Inv'
    BY LibraryLoadedStep
  <2>7. LibraryMissing => Inv'
    <3> SUFFICES ASSUME LibraryMissing
                 PROVE  Inv'
      OBVIOUS
    <3>1. /\ Running("load") /\ ret = "fail" /\ app' = [app EXCEPT ![Top.app] = Blank]
          /\ UNCHANGED <<apps, symbols, phase, pos, GSExit>> /\ Returns("fail")
      BY DEF LibraryMissing, Env
    <3>2. phase = "up"
      BY <3>1, LoadingIs DEF Inv, PhasesOK
    <3> QED BY <3>1, <3>2, LoadFailsStep
  <2>8. NotStarted => Inv'
    <3> SUFFICES ASSUME NotStarted
                 PROVE  Inv'
      OBVIOUS
    <3>1. /\ Running("load") /\ ret = "none" /\ app' = [app EXCEPT ![Top.app] = Blank] /\ phase = "up"
          /\ UNCHANGED <<apps, symbols, phase, pos, GSExit>> /\ Returns("fail")
      BY DEF NotStarted, AllLoaded, Env
    <3> QED BY <3>1, LoadFailsStep
  <2>9. Starts => Inv'
    BY <1>1, StartsStep
  <2>10. MainTrue => Inv'
    BY <1>1, MainTrueStep
  <2>11. MainFalse => Inv'
    BY <1>1, MainFalseStep
  <2>12. \A p \in Programs \ Libraries : Run(p) \/ RunHosted(p) => Inv'
    BY <1>1, RunStep
  <2>13. \A a \in Addr : HandleEvent(a) => Inv'
    BY HandleEventStep
  <2>14. CloseWindow => Inv'
    <3>1. CloseWindow => Top.app \in Addr
      BY TopIs DEF CloseWindow, Inv
    <3> QED BY <1>1, <3>1, CloseWindowStep
  <2>15. ASSUME NEW a \in Addr, CloseConsoleWindow(a) \/ Kill(a)
         PROVE  Inv'
    <3>1. /\ Polling /\ Listed(a) /\ ~IsLib(a) /\ Becomes(Discarded(Tables, a)) /\ LongJmp /\ Env
      BY <2>15, ProgramsAssumption DEF CloseConsoleWindow, Kill, Program, IsLib
    <3>2. PollsAtTop /\ ret = "none" /\ phase = "up"
      BY <3>1, PollingIs
    <3> QED BY <1>1, <3>1, <3>2, BreaksStep DEF PollsAtTop
  <2>16. HandlerReturns \/ OpenDialog \/ AnswerDialog => Inv'
    BY HandlerReturnsStep, TurnsStep
  <2>17. ShutDownClose => Inv'
    BY ShutDownCloseStep
  <2>18. ShutDownFree => Inv'
    BY ShutDownFreeStep
  <2>19. Halted => Inv'
    BY <2>3 DEF Halted
  <2>20. Inv'
    BY <1>4, <2>2, <2>3, <2>4, <2>5, <2>6, <2>7, <2>8, <2>9, <2>10, <2>11, <2>12, <2>13, <2>14, <2>15,
       <2>16, <2>17, <2>18, <2>19 DEF Next, Loader
  <2> QED BY <2>1, <2>20
<1> QED BY <1>2, <1>3, <1>4

\* The invariant holds: dynld.c keeps its tables and the stack of calls in step.
THEOREM Safe ==
  ASSUME Sound
  PROVE  Spec => [](Inv /\ SweepOK)
<1>1. Init => Inv /\ SweepOK
  BY InitInv
<1>2. (Inv /\ SweepOK) /\ [Next]_vars => (Inv /\ SweepOK)'
  BY NextInv
<1> QED BY <1>1, <1>2, PTL DEF Spec

\* The invariant gives TablesOK.
LEMMA InvTables == Inv => TablesOK
<1> SUFFICES ASSUME Inv
             PROVE  TablesOK
  OBVIOUS
<1>1. TypeOK
  <2>1. \A k \in 1..Len(stack) : /\ stack[k].kind \in {"load", "main", "handler", "dialog", "tcp"}
                                 /\ stack[k].app \in Addr /\ stack[k].next \in Nat
    BY Activations DEF Inv, Activation
  <2> QED BY <2>1 DEF Inv, Typed, Application, TypeOK
<1>2. OneInstance
  BY DEF Inv, EntriesOK, OneInstance, Lib, IsLib
<1>3. OwnersAreOpen
  BY DEF Inv, Typed, EntriesOK, SymbolsOK, OwnersAreOpen
<1> QED BY <1>1, <1>2, <1>3 DEF TablesOK

\* TablesOK: a library is in memory once, and after CloseApp no symbol is left of
\* an application that is closed or freed.
THEOREM TablesAgree ==
  ASSUME Sound
  PROVE  Spec => []TablesOK
BY Safe, InvTables, PTL

\* The invariant gives ImportsLive.
LEMMA InvImports == Inv => ImportsLive
<1> SUFFICES ASSUME Inv, NEW a \in Addr, Listed(a), NEW h \in app[a].bound
             PROVE  Listed(h) /\ app[h].st = "running"
  BY DEF ImportsLive
<1>1. h \in Addr
  BY DEF Inv, Typed, Application
<1> QED BY <1>1 DEF Inv, LinksOK, EntriesOK

\* ImportsLive: what an application is linked to runs as long as the application
\* is in the list; UnLoadLibraries never closes a library that has a user.
THEOREM ImportsStayLive ==
  ASSUME Sound
  PROVE  Spec => []ImportsLive
BY Safe, InvImports, PTL

\* The invariant gives UsersCoverHolders.
LEMMA InvUsers == Inv => UsersCoverHolders
<1> SUFFICES ASSUME Inv, NEW l \in Addr, Lib(l), app[l].st = "running"
             PROVE  app[l].users >= Cardinality({a \in Addr : Holds(a, l)})
  BY DEF UsersCoverHolders
<1> DEFINE H == {a \in Addr : Holds(a, l)}
<1>1. PICK q : q = app[l].prog
  OBVIOUS
<1>2. app[l].users >= Cardinality(Holders(q)) /\ app[l].users \in Nat
  <2>1. app[l].users >= Cardinality(Holders(q)) + Boots(q) /\ app[l].users \in Nat
    BY <1>1 DEF Inv, UsersOK, Lib, IsLib, Typed, Application
  <2>2. Cardinality(Holders(q)) \in Nat /\ Boots(q) \in Nat
    BY HoldersFinite, BootsAre
  <2> QED BY <2>1, <2>2
<1>3. ASSUME NEW a \in H
      PROVE  a \in Holders(q)
  <2>1. CASE Listed(a) /\ q \in SeqRange(NeededLibs[app[a].prog])
    BY <2>1 DEF Holders, Takes, Libs
  <2>2. CASE \E k \in 1..Len(stack) : /\ stack[k].kind = "load" /\ stack[k].app = a
                                      /\ \E j \in 1..(stack[k].next - 1) : NeededLibs[app[a].prog][j] = q
    <3>1. PICK k \in 1..Len(stack) : /\ stack[k].kind = "load" /\ stack[k].app = a
                                     /\ \E j \in 1..(stack[k].next - 1) : NeededLibs[app[a].prog][j] = q
      BY <2>2
    <3>2. PICK j \in 1..(stack[k].next - 1) : Libs(stack[k].app)[j] = q
      BY <3>1 DEF Libs
    <3>3. j \in 1..stack[k].next /\ stack[k].next \in Nat
      BY <3>2, Activations DEF Inv
    <3>4. q \in Taken(k)
      BY <3>2, <3>3 DEF Taken
    <3> QED BY <3>1, <3>4 DEF Holders, Takes, Loads
  <2> QED BY <1>1, <2>1, <2>2 DEF Holds
<1>4. H \subseteq Holders(q)
  BY <1>3
<1> HIDE DEF H
<1>5. Cardinality(H) <= Cardinality(Holders(q)) /\ Cardinality(H) \in Nat /\ Cardinality(Holders(q)) \in Nat
  BY <1>4, HoldersFinite, FS_Subset, FS_CardinalityType
<1>6. app[l].users >= Cardinality(H)
  BY <1>2, <1>5
<1> QED BY <1>6 DEF H

\* UsersCoverHolders: App->Users is never below the number of those that hold the
\* library, failed loads and broken programs included.
THEOREM UsersStayCounted ==
  ASSUME Sound
  PROVE  Spec => []UsersCoverHolders
BY Safe, InvUsers, PTL

\* The invariant gives LibrariesCloseLast.
LEMMA InvCloses == Inv => LibrariesCloseLast
<1> SUFFICES ASSUME Inv, NEW a \in Addr, Listed(a), app[a].close, NEW h \in app[a].bound
             PROVE  app[h].close
  BY DEF LibrariesCloseLast
<1>1. h \in Addr /\ app[h].st = "running" /\ Before(apps, h, a) /\ Open(h)
  BY DEF Inv, Typed, Application, LinksOK, Open
<1>2. phase \in {"boot", "up"} => app[h].close
  BY <1>1 DEF Inv, PhasesOK
<1>3. phase = "down" => app[h].close
  <2> SUFFICES ASSUME phase = "down"
               PROVE  app[h].close
    OBVIOUS
  <2>1. PICK i, j \in 1..Len(apps) : i < j /\ apps[i] = h /\ apps[j] = a
    BY <1>1 DEF Before
  <2>2. pos \in Nat /\ i \in Nat /\ j \in Nat
    BY <2>1 DEF Inv, Typed
  <2>3. j <= pos
    BY <2>1, <2>2 DEF Inv, PhasesOK
  <2> QED BY <1>1, <2>1, <2>2, <2>3 DEF Inv, PhasesOK
<1>4. phase # "halted"
  BY DEF Inv, PhasesOK, Listed, SeqRange
<1> QED BY <1>2, <1>3, <1>4 DEF Inv, Typed

\* LibrariesCloseLast: neither CloseApp nor ShutDownDynLd calls the Close of a
\* library while a program linked to it is open.
THEOREM LibrariesStayOpen ==
  ASSUME Sound
  PROVE  Spec => []LibrariesCloseLast
BY Safe, InvCloses, PTL

\* While DynLdTCP runs, a library that AUTOLIB names is in the list: the item to be
\* freed is not the only one.
LEMMA InvSweeps ==
  ASSUME Inv, SweepOK, NEW i \in 1..Len(BootList), BootList[i] \in Libraries
  PROVE  SweepStaysInList
<1> SUFFICES ASSUME Running("tcp")
             PROVE  Listed(Top.app) /\ (app[Top.app].st = "tofree" => Len(apps) > 1)
  BY DEF SweepStaysInList
<1>1. Listed(Top.app)
  BY DEF SweepOK
<1>2. PICK q : q = BootList[i]
  OBVIOUS
<1>3. phase = "up"
  <2>1. Len(stack) \in 1..Len(stack) /\ stack[Len(stack)].kind = "tcp"
    BY TopIs DEF Inv
  <2>2. phase # "boot"
    BY <2>1 DEF Inv, PhasesOK, Calls
  <2>3. phase \notin {"down", "halted"}
    BY DEF Inv, PhasesOK, Running
  <2> QED BY <2>2, <2>3 DEF Inv, Typed
<1>4. Booted(q)
  BY <1>2, <1>3 DEF Booted
<1>5. Runs(q)
  BY <1>2, <1>3, <1>4 DEF Inv, BootsOK, Booting
<1>6. PICK l \in Addr : app[l].prog = q /\ app[l].st = "running"
  BY <1>5 DEF Runs
<1>7. Listed(l)
  BY <1>6 DEF Inv, EntriesOK
<1>8. ASSUME app[Top.app].st = "tofree"
      PROVE  Len(apps) > 1
  <2>1. l # Top.app
    BY <1>6, <1>8
  <2>2. PICK j \in 1..Len(apps), k \in 1..Len(apps) : apps[j] = l /\ apps[k] = Top.app
    BY <1>1, <1>7 DEF Listed, SeqRange
  <2>3. j # k
    BY <2>1, <2>2
  <2>4. Len(apps) \in Nat
    BY DEF Inv, Typed
  <2> QED BY <2>3, <2>4
<1> QED BY <1>1, <1>8

\* SweepStaysInList: DynLdTCP stands on an item of the list and never frees the only
\* one, after which its walk would go on from an item that is freed.  AUTOLIB always
\* names a library, and RegistryLoadLibraries keeps a user of it to the end.
THEOREM SweepStays ==
  ASSUME Sound, NEW i \in 1..Len(BootList), BootList[i] \in Libraries
  PROVE  Spec => []SweepStaysInList
<1>1. Inv /\ SweepOK => SweepStaysInList
  BY InvSweeps
<1> QED BY <1>1, Safe, PTL
-----------------------------------------------------------------------------
(***************************************************************************)
(* Handlers, those that wait in a dialog or below a program they have      *)
(* started among them.  They are those of programs that run; the handler   *)
(* of a hosted program lies above its host's Main.                         *)
(***************************************************************************)
HandlersOK ==
  \A k \in 1..Len(stack) : stack[k].kind \in {"handler", "dialog"} =>
    /\ app[stack[k].app].st = "running" /\ ~IsLib(stack[k].app)
    /\ \A j \in 1..Len(stack) : Starting(j, app[stack[k].app].host) => j < k

\* HandlersOK, from what is kept of each handler and of its program.
LEMMA HandlersKept ==
  ASSUME HandlersOK,
         \A k \in 1..Len(stack') : stack'[k].kind \in {"handler", "dialog"} =>
           /\ k \in 1..Len(stack) /\ stack[k].kind \in {"handler", "dialog"} /\ stack'[k].app = stack[k].app
           /\ KeptCall(k),
         \A j \in 1..Len(stack') : stack'[j].kind = "main" =>
           j \in 1..Len(stack) /\ stack[j].kind = "main" /\ stack'[j].app = stack[j].app
  PROVE  HandlersOK'
<1> SUFFICES ASSUME NEW k \in 1..Len(stack'), stack'[k].kind \in {"handler", "dialog"}
             PROVE  /\ app'[stack'[k].app].st = "running" /\ app'[stack'[k].app].prog \notin Libraries
                    /\ \A j \in 1..Len(stack') :
                         stack'[j].kind = "main" /\ stack'[j].app = app'[stack'[k].app].host => j < k
  BY DEF HandlersOK, IsLib, Starting
<1> QED BY DEF HandlersOK, IsLib, Starting, KeptCall

\* What a step leaves alone: no handler is under it.
LEMMA KeptApps ==
  ASSUME Inv, HandlersOK, NEW k \in 1..Len(stack), stack[k].kind \in {"handler", "dialog"},
         \A x \in Addr : app[x].st = "running" /\ ~IsLib(x) /\ x = stack[k].app =>
           /\ app'[x].prog = app[x].prog /\ app'[x].st = app[x].st /\ app'[x].host = app[x].host
  PROVE  KeptCall(k)
<1>1. stack[k].app \in Addr
  BY Activations DEF Inv
<1> QED BY <1>1 DEF HandlersOK, KeptCall

\* No step takes a program away from under its handler.
LEMMA HandlersStep ==
  ASSUME Inv, SweepOK, HandlersOK, Sound, CloseUnderCall = FALSE, [Next]_vars
  PROVE  HandlersOK'
<1>0. SoundlyLinked
  BY DEF Sound
<1>1. PICK n : n = Len(stack)
  OBVIOUS
<1>2. /\ stack \in Seq(Activation) /\ n \in Nat /\ app \in [Addr -> Application]
      /\ \A k \in 1..n : stack[k] \in Activation /\ stack[k].app \in Addr
  BY <1>1, Activations DEF Inv, Typed
<1>3. \A k \in 1..n : stack[k].kind \in {"handler", "dialog"} => app[stack[k].app].st = "running" /\ ~IsLib(stack[k].app)
  BY <1>1 DEF HandlersOK
\* the stack is cut back, or something that is no handler and no Main is on top
<1>4. ASSUME NEW m \in Nat, m <= n, Len(stack') \in {m, m + 1},
             \A k \in 1..m : stack'[k] = stack[k],
             Len(stack') = m + 1 => stack'[m + 1].kind \in {"load", "tcp"},
             \A k \in 1..m : stack[k].kind \in {"handler", "dialog"} => KeptCall(k)
      PROVE  HandlersOK'
  <2>1. \A k \in 1..Len(stack') : k \in 1..m \/ (k = m + 1 /\ stack'[k].kind \notin {"handler", "dialog", "main"})
    BY <1>4
  <2>2. \A k \in 1..m : k \in 1..n
    BY <1>2, <1>4
  <2> QED BY <1>1, <1>4, <2>1, <2>2, HandlersKept
<1>5. ASSUME NEW k \in 1..n, stack[k].kind \in {"handler", "dialog"}, app' = app
      PROVE  KeptCall(k)
  BY <1>5 DEF KeptCall
<1>6. ASSUME stack' = stack, app' = app
      PROVE  HandlersOK'
  BY <1>6 DEF HandlersOK, IsLib, Starting
<1>7. ASSUME stack' = << >>
      PROVE  HandlersOK'
  BY <1>7 DEF HandlersOK
<1>8. ASSUME NEW a \in Addr, NEW p, NEW h, Allocates(a, p, h)
      PROVE  HandlersOK'
  <2>1. /\ app[a].st = "free" /\ stack' = Append(stack, [kind |-> "load", app |-> a, next |-> 1])
        /\ app' = [app EXCEPT ![a] = Fresh(p, h)]
    BY <1>8 DEF Allocates, Fresh
  <2>2. \A x \in Addr : x # a => app'[x] = app[x]
    BY <1>2, <2>1
  <2>3. \A k \in 1..n : stack[k].kind \in {"handler", "dialog"} => KeptCall(k)
    BY <1>1, <2>1, <2>2, KeptApps
  <2>4. [kind |-> "load", app |-> a, next |-> 1] \in Activation
    BY DEF Activation
  <2>5. /\ Len(stack') = n + 1 /\ stack'[n + 1].kind = "load"
        /\ \A k \in 1..n : stack'[k] = stack[k]
    BY <1>1, <1>2, <2>1, <2>4, AppendedIs
  <2> QED BY <1>2, <1>4, <2>3, <2>5
<1>9. ASSUME Running("load"), stack' = [stack EXCEPT ![Len(stack)].next = @ + 1],
             \A k \in 1..n : stack[k].kind \in {"handler", "dialog"} => KeptCall(k)
      PROVE  HandlersOK'
  <2>1. n \in 1..n /\ stack[n].kind = "load" /\ stack[n] \in Activation
    BY <1>1, <1>9, TopIs DEF Inv
  <2>2. stack' = [stack EXCEPT ![n] = [stack[n] EXCEPT !.next = @ + 1]]
    BY <1>1, <1>2, <1>9, <2>1
  <2>3. [stack[n] EXCEPT !.next = @ + 1].kind = "load"
    BY <2>1 DEF Activation
  <2>4. /\ Len(stack') = n /\ stack'[n].kind = "load"
        /\ \A k \in 1..n : k = n \/ stack'[k] = stack[k]
    BY <1>1, <1>2, <2>1, <2>2, <2>3
  <2> QED BY <1>1, <1>9, <2>4, HandlersKept
<1>10. ASSUME stack # << >>, NEW r, Returns(r),
              \A k \in 1..(n - 1) : stack[k].kind \in {"handler", "dialog"} => KeptCall(k)
       PROVE  HandlersOK'
  <2>1. n - 1 \in Nat /\ Len(stack') = n - 1 /\ \A k \in 1..(n - 1) : stack'[k] = stack[k]
    BY <1>1, <1>10, ReturnsIs DEF Inv
  <2> QED BY <1>2, <1>4, <1>10, <2>1
<1>11. ASSUME NEW k \in 1..n, stack[k].kind \in {"handler", "dialog"}, NEW a \in Addr, stack[k].app # a,
              \A x \in Addr : x # a => app'[x] = app[x]
       PROVE  KeptCall(k)
  BY <1>2, <1>11 DEF KeptCall
\* a user more, or less, is that of a library
<1>12. ASSUME NEW a \in Addr, Listed(a), Retires(a), NEW k \in 1..n, stack[k].kind \in {"handler", "dialog"},
              stack[k].app \notin Gone(a)
       PROVE  KeptCall(k)
  <2>1. stack[k].app \notin Used(a)
    BY <1>0, <1>3, <1>12, UsedIs
  <2> QED BY <1>2, <1>12, <2>1 DEF Retires, KeptCall
<1>13. Boot => HandlersOK'
  <2>1. ASSUME Boot, stack' = stack
        PROVE  HandlersOK'
    BY <2>1 DEF Boot, HandlersOK
  <2> QED BY <1>8, <2>1 DEF Boot
<1>14. LoadNextLibrary => HandlersOK'
  <2> SUFFICES ASSUME LoadNextLibrary
               PROVE  HandlersOK'
    OBVIOUS
  <2>1. ASSUME NEW l, app' = [app EXCEPT ![l].users = @ + 1]
        PROVE  \A x \in Addr : /\ app'[x].prog = app[x].prog /\ app'[x].st = app[x].st
                               /\ app'[x].host = app[x].host
    <3> TAKE x \in Addr
    <3>1. app[x] \in Application
      BY <1>2
    <3>2. PICK e : e = [app[l] EXCEPT !.users = @ + 1]
      OBVIOUS
    <3>3. app' = [app EXCEPT ![l] = e]
      BY <2>1, <3>2
    <3>4. x = l => e.prog = app[x].prog /\ e.st = app[x].st /\ e.host = app[x].host
      BY <3>1, <3>2 DEF Application
    <3> QED BY <1>2, <3>3, <3>4
  <2>2. \A l : app' = [app EXCEPT ![l].users = @ + 1]
          => \A k \in 1..n : stack[k].kind \in {"handler", "dialog"} => KeptCall(k)
    BY <1>2, <2>1 DEF KeptCall
  <2> QED BY <1>8, <1>9, <2>2 DEF LoadNextLibrary
<1>15. LibraryNotRun \/ LibraryLoaded => HandlersOK'
  BY <1>5, <1>6, <1>9 DEF LibraryNotRun, LibraryLoaded, tables
<1>16. LibraryMissing \/ NotStarted => HandlersOK'
  <2> SUFFICES ASSUME LibraryMissing \/ NotStarted
               PROVE  HandlersOK'
    OBVIOUS
  <2>1. PICK a : a = Top.app
    OBVIOUS
  <2>2. Running("load") /\ stack # << >> /\ Returns("fail") /\ app' = [app EXCEPT ![a] = Blank]
    BY <2>1 DEF LibraryMissing, NotStarted, AllLoaded, Running
  <2>3. a \in Addr /\ app[a].st = "loading"
    BY <2>1, <2>2, LoadingIs
  <2>4. \A x \in Addr : x # a => app'[x] = app[x]
    BY <1>2, <2>2
  <2>5. \A k \in 1..n : stack[k].kind \in {"handler", "dialog"} => KeptCall(k)
    BY <1>3, <1>11, <2>3, <2>4
  <2> QED BY <1>2, <1>10, <2>2, <2>5
\* a console that starts hosts nothing yet
<1>17. Starts => HandlersOK'
  <2> SUFFICES ASSUME Starts
               PROVE  HandlersOK'
    OBVIOUS
  <2>1. PICK a, f : a = Top.app /\ f = [kind |-> "main", app |-> a, next |-> 0]
    OBVIOUS
  <2>2. /\ Running("load") /\ stack' = Append(Below, f)
        /\ \E B : app' = [app EXCEPT ![a].st = "starting", ![a].bound = B]
    BY <2>1 DEF Starts, AllLoaded
  <2>3. a \in Addr /\ app[a].st = "loading" /\ f \in Activation /\ f.kind = "main" /\ f.app = a
    BY <2>1, <2>2, LoadingIs DEF Activation
  <2>4. /\ Len(stack') = n /\ n > 0 /\ stack'[n] = f
        /\ \A k \in 1..(n - 1) : stack'[k] = stack[k]
    <3>1. /\ n - 1 \in Nat /\ Below \in Seq(Activation) /\ Len(Below) = n - 1
          /\ \A k \in 1..(n - 1) : Below[k] = stack[k]
      BY <1>1, <2>2, BelowIs DEF Running, Inv
    <3> QED BY <1>2, <2>2, <2>3, <3>1, AppendedIs
  <2>5. \A x \in Addr : x # a => app'[x] = app[x]
    BY <1>2, <2>2
  <2>6. ASSUME NEW k \in 1..n, stack[k].kind \in {"handler", "dialog"}
        PROVE  KeptCall(k) /\ app[stack[k].app].host # a
    <3>1. KeptCall(k)
      BY <1>3, <1>11, <2>3, <2>5, <2>6
    <3>2. ~Listed(a) /\ a # NULL
      BY <2>3, ProgramsAssumption DEF Inv, EntriesOK
    <3> QED BY <1>2, <2>6, <3>1, <3>2 DEF Inv, HostsOK
  <2> SUFFICES ASSUME NEW k \in 1..n, stack'[k].kind \in {"handler", "dialog"}
               PROVE  /\ app'[stack'[k].app].st = "running" /\ app'[stack'[k].app].prog \notin Libraries
                      /\ \A j \in 1..n :
                           stack'[j].kind = "main" /\ stack'[j].app = app'[stack'[k].app].host => j < k
    BY <2>4 DEF HandlersOK, IsLib, Starting
  <2>7. k \in 1..(n - 1) /\ stack'[k] = stack[k]
    <3>1. k # n
      BY <2>3, <2>4
    <3>2. k \in 1..(n - 1)
      BY <1>2, <3>1
    <3> QED BY <2>4, <3>2
  <2>8. KeptCall(k) /\ app[stack[k].app].host # a
    BY <2>6, <2>7
  <2>9. \A j \in 1..n : j = n \/ (j \in 1..(n - 1) /\ stack'[j] = stack[j])
    BY <1>2, <2>4
  <2>10. \A j \in 1..n : stack[j].kind = "main" /\ stack[j].app = app[stack[k].app].host => j < k
    BY <1>1, <2>7 DEF HandlersOK, Starting
  <2> QED BY <1>3, <2>3, <2>4, <2>7, <2>8, <2>9, <2>10 DEF KeptCall, IsLib
<1>18. MainTrue => HandlersOK'
  <2> SUFFICES ASSUME MainTrue
               PROVE  HandlersOK'
    OBVIOUS
  <2>1. PICK a : a = Top.app
    OBVIOUS
  <2>2. /\ Running("main") /\ stack # << >> /\ Returns("ok")
        /\ app' = [app EXCEPT ![a].st = "running", ![a].users = 1]
    BY <2>1, MainTrueApp DEF MainTrue, Running
  <2>3. a \in Addr /\ app[a].st = "starting"
    <3>1. /\ Len(stack) \in 1..Len(stack) /\ stack[Len(stack)].kind = "main"
          /\ stack[Len(stack)].app = a /\ a \in Addr
      BY <2>1, <2>2, TopIs DEF Inv
    <3> QED BY <3>1 DEF Inv, ActivationsOK
  <2>4. \A x \in Addr : x # a => app'[x] = app[x]
    BY <1>2, <2>2
  <2>5. \A k \in 1..n : stack[k].kind \in {"handler", "dialog"} => KeptCall(k)
    BY <1>3, <1>11, <2>3, <2>4
  <2> QED BY <1>2, <1>10, <2>2, <2>5
<1>19. MainFalse => HandlersOK'
  <2> SUFFICES ASSUME MainFalse
               PROVE  HandlersOK'
    OBVIOUS
  <2>1. PICK a : a = Top.app
    OBVIOUS
  <2>2. Running("main") /\ stack # << >> /\ Returns("fail") /\ Retires(a)
    BY <1>0, <2>1, MainFalseStep DEF MainFalse, Running
  <2>3. /\ n \in 1..n /\ stack[n].kind = "main" /\ stack[n].app = a /\ a \in Addr
        /\ app[a].st = "starting" /\ Listed(a)
    <3>1. n \in 1..n /\ stack[n].kind = "main" /\ stack[n].app = a /\ a \in Addr
      BY <1>1, <2>1, <2>2, TopIs DEF Inv
    <3>2. app[a].st = "starting"
      BY <1>1, <3>1 DEF Inv, ActivationsOK
    <3> QED BY <3>1, <3>2 DEF Inv, EntriesOK
  <2>4. ASSUME NEW k \in 1..(n - 1), stack[k].kind \in {"handler", "dialog"}
        PROVE  KeptCall(k)
    <3>1. k \in 1..n /\ ~(n < k)
      BY <2>3
    <3>2. stack[k].app # a
      BY <1>3, <2>3, <2>4, <3>1
    <3>3. app[stack[k].app].host # a
      BY <1>1, <2>3, <2>4, <3>1 DEF HandlersOK, Starting
    <3> QED BY <1>12, <2>2, <2>3, <2>4, <3>1, <3>2, <3>3 DEF Gone, Hosted
  <2> QED BY <1>10, <2>2, <2>4
<1>20. \A p \in Programs \ Libraries : Run(p) \/ RunHosted(p) => HandlersOK'
  BY <1>8 DEF Run, RunHosted
<1>21. \A a \in Addr : HandleEvent(a) => HandlersOK'
  <2> SUFFICES ASSUME NEW a \in Addr, HandleEvent(a)
               PROVE  HandlersOK'
    OBVIOUS
  <2>1. PICK f : f = [kind |-> "handler", app |-> a, next |-> 0]
    OBVIOUS
  <2>2. /\ stack' = Append(stack, f) /\ app' = app /\ app[a].st = "running" /\ ~IsLib(a)
        /\ f \in Activation /\ f.kind = "handler" /\ f.app = a
    BY <2>1 DEF HandleEvent, Program, IsLib, tables, Activation
  <2>3. Len(stack') = n + 1 /\ stack'[n + 1] = f /\ \A k \in 1..n : stack'[k] = stack[k]
    BY <1>1, <1>2, <2>2, AppendedIs
  <2> SUFFICES ASSUME NEW k \in 1..(n + 1), stack'[k].kind \in {"handler", "dialog"}
               PROVE  /\ app[stack'[k].app].st = "running" /\ app[stack'[k].app].prog \notin Libraries
                      /\ \A j \in 1..(n + 1) :
                           stack'[j].kind = "main" /\ stack'[j].app = app[stack'[k].app].host => j < k
    BY <2>2, <2>3 DEF HandlersOK, IsLib, Starting
  <2>4. \A j \in 1..(n + 1) : stack'[j].kind = "main" => j \in 1..n /\ stack'[j] = stack[j]
    <3>1. \A j \in 1..(n + 1) : j = n + 1 \/ j \in 1..n
      BY <1>2
    <3> QED BY <2>2, <2>3, <3>1
  <2>5. CASE k = n + 1
    BY <1>2, <2>2, <2>3, <2>4, <2>5 DEF IsLib
  <2>6. CASE k # n + 1
    <3>1. k \in 1..n /\ stack'[k] = stack[k]
      BY <1>2, <2>3, <2>6
    <3> QED BY <1>1, <2>4, <3>1 DEF HandlersOK, IsLib, Starting
  <2> QED BY <2>5, <2>6
<1>22. CloseWindow => HandlersOK'
  <2> SUFFICES ASSUME CloseWindow
               PROVE  HandlersOK'
    OBVIOUS
  <2>1. PICK a : a = Top.app
    OBVIOUS
  <2>2. a \in Addr /\ stack # << >> /\ Returns("none") /\ ~WaitsBelow(a)
    BY <2>1, TopIs DEF CloseWindow, Inv, Running
  <2>3. \A x \in Addr : x # a => app'[x] = app[x]
    BY <1>0, <2>1, <2>2, CloseWindowStep
  <2>4. ASSUME NEW k \in 1..(n - 1), stack[k].kind \in {"handler", "dialog"}
        PROVE  KeptCall(k)
    <3>1. k \in 1..n /\ stack[k].app # a
      BY <1>1, <1>2, <2>2 DEF WaitsBelow
    <3> QED BY <1>11, <2>2, <2>3, <2>4, <3>1
  <2> QED BY <1>10, <2>2, <2>4
<1>23. \A a \in Addr : CloseConsoleWindow(a) \/ Kill(a) => HandlersOK'
  BY <1>7 DEF CloseConsoleWindow, Kill, LongJmp
<1>24. Quit \/ LeaveLoop \/ BootEnds \/ Halted \/ UNCHANGED vars => HandlersOK'
  BY <1>6 DEF Quit, LeaveLoop, BootEnds, Halted, vars, tables
<1>25. HandlerReturns \/ OpenDialog \/ AnswerDialog => HandlersOK'
  <2>1. HandlerReturns => HandlersOK'
    BY <1>2, <1>5, <1>10 DEF HandlerReturns, Running, tables
  <2>2. ASSUME NEW k0 \in {"handler", "dialog"}, NEW k1 \in {"handler", "dialog"},
               Running(k0), Turns(k1)
        PROVE  HandlersOK'
    <3>1. /\ Len(stack') = n /\ stack'[n].kind = k1 /\ stack'[n].app = stack[n].app
          /\ \A k \in 1..(n - 1) : stack'[k] = stack[k]
      BY <1>1, <2>2, TurnsIs DEF Inv
    <3>2. stack[n].kind = k0 /\ app' = app
      BY <1>1, <2>2, TopIs DEF Turns, tables, Inv
    <3>3. \A k \in 1..n : k = n \/ (k \in 1..(n - 1) /\ stack'[k] = stack[k])
      BY <1>2, <3>1
    <3>4. \A k \in 1..n : stack'[k].kind \in {"handler", "dialog"} =>
            stack[k].kind \in {"handler", "dialog"} /\ stack'[k].app = stack[k].app /\ KeptCall(k)
      BY <1>5, <3>1, <3>2, <3>3
    <3>5. \A k \in 1..n : stack'[k].kind = "main" => stack[k].kind = "main" /\ stack'[k].app = stack[k].app
      BY <3>1, <3>3
    <3> QED BY <1>1, <3>1, <3>4, <3>5, HandlersKept
  <2> QED BY <2>1, <2>2 DEF OpenDialog, AnswerDialog
<1>26. TcpStart => HandlersOK'
  <2> SUFFICES ASSUME TcpStart
               PROVE  HandlersOK'
    OBVIOUS
  <2>1. PICK f : f = [kind |-> "tcp", app |-> apps[Len(apps)], next |-> 0]
    OBVIOUS
  <2>2. stack' = Append(stack, f) /\ app' = app /\ apps # << >>
    BY <2>1 DEF TcpStart, tables
  <2>3. apps[Len(apps)] \in Addr
    BY <2>2 DEF Inv, Typed
  <2>4. f \in Activation /\ f.kind = "tcp"
    BY <2>1, <2>3 DEF Activation
  <2>5. Len(stack') = n + 1 /\ stack'[n + 1] = f /\ \A k \in 1..n : stack'[k] = stack[k]
    BY <1>1, <1>2, <2>2, <2>4, AppendedIs
  <2> QED BY <1>2, <1>4, <1>5, <2>2, <2>4, <2>5
<1>27. TcpItem => HandlersOK'
  <2> SUFFICES ASSUME TcpItem, stack' # << >>
               PROVE  HandlersOK'
    BY <1>7
  <2>1. PICK a : a = Top.app
    OBVIOUS
  <2>2. /\ Len(stack') \in {n - 1, n} /\ \A k \in 1..(n - 1) : stack'[k] = stack[k]
        /\ Len(stack') = n => stack'[n].kind = "tcp"
        /\ app' = app \/ (Retires(a) /\ Gone(a) = {a} /\ app[a].st = "tofree")
    BY <1>0, <1>1, <2>1, TcpItemStep
  <2>3. n - 1 \in Nat /\ a \in Addr
    BY <1>1, <1>2, <2>1, TopIs DEF TcpItem, Inv
  <2>4. ASSUME NEW k \in 1..(n - 1), stack[k].kind \in {"handler", "dialog"}
        PROVE  KeptCall(k)
    <3>1. k \in 1..n
      BY <1>2
    <3>2. CASE app' = app
      BY <1>5, <2>4, <3>1, <3>2
    <3>3. CASE Retires(a) /\ Gone(a) = {a} /\ app[a].st = "tofree"
      <4>1. Listed(a)
        BY <2>3, <3>3 DEF Inv, EntriesOK
      <4>2. stack[k].app # a
        BY <1>3, <2>4, <3>1, <3>3
      <4> QED BY <1>12, <2>3, <2>4, <3>1, <3>3, <4>1, <4>2
    <3> QED BY <2>2, <3>2, <3>3
  <2>5. PICK m \in Nat : m = n - 1
    BY <2>3
  <2>6. m <= n /\ m + 1 = n
    BY <1>2, <2>5
  <2> QED BY <1>4, <2>2, <2>4, <2>5, <2>6
<1>28. ShutDownClose \/ ShutDownFree => HandlersOK'
  BY <1>7 DEF ShutDownClose, ShutDownFree, Inv, PhasesOK
<1> QED BY <1>13, <1>14, <1>15, <1>16, <1>17, <1>18, <1>19, <1>20, <1>21, <1>22, <1>23, <1>24, <1>25,
           <1>26, <1>27, <1>28 DEF Next, Loader

\* The program of a handler that waits, in a dialog or for a program it has
\* started, stays in memory until it is returned into or BreakApp leaves it by longjmp.
THEOREM HandlersSafe ==
  ASSUME Sound, CloseUnderCall = FALSE
  PROVE  Spec => []HandlersOK
<1>1. Init => HandlersOK
  BY DEF Init, HandlersOK
<1>2. Inv /\ SweepOK /\ HandlersOK /\ [Next]_vars => HandlersOK'
  BY HandlersStep
<1> QED BY <1>1, <1>2, Safe, PTL DEF Spec

\* CallsReturnToLoadedCode: no call in progress is one of a program that is freed.
THEOREM CallsReturn ==
  ASSUME Sound, CloseUnderCall = FALSE
  PROVE  Spec => []CallsReturnToLoadedCode
<1>1. Inv /\ HandlersOK => CallsReturnToLoadedCode
  <2> SUFFICES ASSUME Inv, HandlersOK, NEW k \in 1..Len(stack), stack[k].kind # "tcp"
               PROVE  app[stack[k].app].st = CASE stack[k].kind = "load" -> "loading"
                                               [] stack[k].kind = "main" -> "starting"
                                               [] OTHER -> "running"
    BY DEF CallsReturnToLoadedCode
  <2>1. stack[k].kind \in {"load", "main", "handler", "dialog"}
    BY Activations DEF Inv, Activation
  <2>2. CASE stack[k].kind = "load"
    BY <2>2 DEF Inv, ActivationsOK
  <2>3. CASE stack[k].kind = "main"
    BY <2>3 DEF Inv, ActivationsOK
  <2>4. CASE stack[k].kind \in {"handler", "dialog"}
    BY <2>4 DEF HandlersOK
  <2> QED BY <2>1, <2>2, <2>3, <2>4
<1> QED BY <1>1, Safe, HandlersSafe, PTL
=============================================================================
