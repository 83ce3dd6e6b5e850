------------------------------ MODULE Registry ------------------------------
(***************************************************************************)
(* The registry (registry.c): a tree of named, typed keys.  The children   *)
(* of a key form a ring through Next and Prev, entered at Last; the tree   *)
(* is written to system/settings.dat and read back from it.                *)
(*                                                                         *)
(* A path is the sequence of its components; a datum is the sequence of    *)
(* its bytes, a text one datum of its own.  A save is one step: what a     *)
(* crash in the middle of it leaves is not modelled.                       *)
(***************************************************************************)
EXTENDS Integers, FiniteSets, SequencesExt

CONSTANTS
  Key,       \* where a TRegKey may be
  NULL,
  Name,      \* the names of the keys below the root
  Fold,      \* Fold[n]: n in lower case
  Type,      \* the types applications store, a subset of DOMAIN RKT
  Octet,      \* what a byte of a datum may be
  Default,   \* the paths NRegistryInit creates without a file, or for a new setup
  MaxPath,   \* bound on the length of a path
  MaxSaved   \* bound on the number of keys of a registry that is saved

RKT == [nodata |-> 0, char |-> 1, bool |-> 2, short |-> 3, int |-> 4, big |-> 5, text |-> 10]
RDSizes == <<0, 1, 1, 2, 4, 4, 8, 4, 8, 16, 4, 0>>
Size(t) == RDSizes[RKT[t] + 1]
\* The size of the C type KeySet... is given and KeyGet... returns.
Width == [nodata |-> 0, char |-> 1, bool |-> 4, short |-> 2, int |-> 4, big |-> 8]

ASSUME RegistryAssumption ==
  /\ NULL \notin Key /\ NULL \notin Name /\ IsFiniteSet(Key)
  /\ Type \subseteq DOMAIN RKT /\ MaxPath \in Nat /\ MaxSaved \in Nat
  /\ Name \subseteq DOMAIN Fold
  \* Memory does not run out while the default registry is made.
  /\ Default \in Seq(UNION {[1..n -> Name] : n \in 1..MaxPath})
  /\ Len(Default) * MaxPath < Cardinality(Key)

VARIABLES
  reg,       \* the TRegKey at each address
  MainKey,
  file       \* system/settings.dat: what is written, by TmpId; NULL when there is no file

vars == <<reg, MainKey, file>>

Blank == [used |-> FALSE, name |-> NULL, type |-> "nodata", data |-> << >>,
          parent |-> NULL, last |-> NULL, next |-> NULL, prev |-> NULL]
Root == [Blank EXCEPT !.used = TRUE]

Init == reg = [k \in Key |-> Blank] /\ MainKey = NULL /\ file = NULL

Running == MainKey # NULL
Path == UNION {[1..n -> Name] : n \in 1..MaxPath}
-----------------------------------------------------------------------------
(***************************************************************************)
(* Finding a key.                                                          *)
(***************************************************************************)
\* The children of o in the order every loop visits them: Last, then its Next...
Kids(r, o) ==
  IF r[o].last = NULL THEN << >>
  ELSE LET at[i \in 1..Cardinality(Key)] == IF i = 1 THEN r[o].last ELSE r[at[i - 1]].next
           n == CHOOSE i \in 1..Cardinality(Key) :
                  /\ r[at[i]].next = at[1]
                  /\ \A j \in 1..(i - 1) : r[at[j]].next # at[1]
       IN [i \in 1..n |-> at[i]]

\* The first child of o the loop accepts.
First(r, o, names) ==
  LET s == Kids(r, o)
      at == {i \in 1..Len(s) : r[s[i]].name \in names}
  IN IF at = {} THEN NULL ELSE s[CHOOSE i \in at : \A j \in at : i <= j]

Alike(n) == {m \in Name : Fold[m] = Fold[n]}

\* Mutant of Child: the last component does not mind the case either.
ChildFolds(r, o, path, i) == First(r, o, Alike(path[i]))

\* TextSqNCaseCompare below the last component, TextCompare for the last one.
Child(r, o, path, i) == First(r, o, IF i < Len(path) THEN Alike(path[i]) ELSE {path[i]})

ResolveKeyEx(r, path, o) ==
  LET at[i \in 0..Len(path)] ==
        IF i = 0 THEN o ELSE IF at[i - 1] = NULL THEN NULL ELSE Child(r, at[i - 1], path, i)
  IN at[Len(path)]

ResolveKey(path) == ResolveKeyEx(reg, path, MainKey)
-----------------------------------------------------------------------------
(***************************************************************************)
(* Creating and deleting keys.  s = [reg, key]: the registry, and the key  *)
(* that a function returns.                                                *)
(***************************************************************************)
FreeAddr(r) == {k \in Key : ~r[k].used}

\* Mutant of NewKeyEx: the new key's neighbour does not learn of it.
NewKeyExOneWay(r, p, n) ==
  IF ResolveKeyEx(r, <<n>>, p) # NULL THEN [reg |-> r, key |-> NULL]
  ELSE LET o == CHOOSE k \in FreeAddr(r) : TRUE
           new == [Root EXCEPT !.name = n, !.parent = p]
           l == r[p].last
           f == IF l = NULL THEN o ELSE r[l].next
           in == [r EXCEPT ![o] = [new EXCEPT !.next = f, !.prev = IF l = NULL THEN o ELSE l],
                           ![p].last = o]
       IN [reg |-> IF l = NULL THEN in ELSE [in EXCEPT ![l].next = o], key |-> o]

\* A new last child n of p, unless ResolveKeyEx finds one of that name.
NewKeyEx(r, p, n) ==
  IF ResolveKeyEx(r, <<n>>, p) # NULL THEN [reg |-> r, key |-> NULL]
  ELSE LET o == CHOOSE k \in FreeAddr(r) : TRUE
           new == [Root EXCEPT !.name = n, !.parent = p]
           l == r[p].last
           f == IF l = NULL THEN o ELSE r[l].next
           in == [r EXCEPT ![o] = [new EXCEPT !.next = f, !.prev = IF l = NULL THEN o ELSE l],
                           ![p].last = o]
       IN [reg |-> IF l = NULL THEN in ELSE [in EXCEPT ![f].prev = o, ![l].next = o], key |-> o]

\* One component of the path.
GetOrCreate(s, path, i) ==
  LET c == Child(s.reg, s.key, path, i)
  IN IF c # NULL THEN [s EXCEPT !.key = c] ELSE NewKeyEx(s.reg, s.key, path[i])

GetOrCreateKeyEx(r, path, o) ==
  LET at[i \in 0..Len(path)] ==
        IF i = 0 THEN [reg |-> r, key |-> o] ELSE GetOrCreate(at[i - 1], path, i)
  IN at[Len(path)]

\* o and all that is below it.
Below(r, o) ==
  LET Sub[n \in 0..Cardinality(Key)] ==
        IF n = 0 THEN {o} ELSE Sub[n - 1] \cup {k \in Key : r[k].used /\ r[k].parent \in Sub[n - 1]}
  IN Sub[Cardinality(Key)]

FreeKey(r, o) == [k \in Key |-> IF k \in Below(r, o) THEN Blank ELSE r[k]]

\* o is linked out of its parent's children.
Unlinked(r, o) ==
  LET p == r[o].parent
      out == [r EXCEPT ![r[o].next].prev = r[o].prev, ![r[o].prev].next = r[o].next]
  IN IF r[o].next = o THEN [r EXCEPT ![p].last = NULL]
     ELSE IF r[p].last = o THEN [out EXCEPT ![p].last = r[o].prev]
     ELSE out

DeleteKeyEx(r, o) == FreeKey(Unlinked(r, o), o)

\* What KeySetData keeps of a value: a text is duplicated, the rest has its size in RDSizes.
Stored(t, v) == IF t = "text" THEN v ELSE SubSeq(v, 1, Size(t))
SetData(r, o, t, v) == [r EXCEPT ![o].type = t, ![o].data = Stored(t, v)]
\* The values an application has to give for type t.
Value(t) == IF t = "text" THEN [1..1 -> Octet] ELSE {[i \in 1..Width[t] |-> b] : b \in Octet}
-----------------------------------------------------------------------------
(***************************************************************************)
(* The file.  GenerateTmpId and WriteKey visit the tree in the same order, *)
(* a key before its children: the TmpId of a key is its place in the file. *)
(***************************************************************************)
\* k, and what is visited below it, child after child.
Visited(r, k, below) ==
  LET upTo[i \in 0..Len(Kids(r, k))] ==
        IF i = 0 THEN <<k>> ELSE upTo[i - 1] \o below[Kids(r, k)[i]]
  IN upTo[Len(Kids(r, k))]

Visit(r, o) ==
  LET order[d \in 0..Cardinality(Key)] ==
        [k \in Key |-> IF d = 0 THEN <<k>> ELSE Visited(r, k, order[d - 1])]
  IN order[Cardinality(Key)][o]

GenerateTmpId(r, o) ==
  LET s == Visit(r, o)
  IN [k \in Key |-> IF \E i \in 1..Len(s) : s[i] = k
                    THEN CHOOSE i \in 1..Len(s) : s[i] = k ELSE 0]

Written(r, o) ==
  LET id == GenerateTmpId(r, o)
      Id(k) == IF k = NULL THEN 0 ELSE id[k]
      Line(k) == [name |-> r[k].name, type |-> r[k].type, data |-> r[k].data,
                  parent |-> Id(r[k].parent), next |-> Id(r[k].next), prev |-> Id(r[k].prev),
                  last |-> Id(r[k].last)]
      s == Visit(r, o)
  IN [i \in 1..Len(s) |-> Line(s[i])]

\* Mutant of Loaded: the data are not read.
LoadedEmpty(f, at) ==
  LET Ref(i) == IF i = 0 THEN NULL ELSE at[i]
      Record(i) == [Root EXCEPT !.name = f[i].name, !.type = f[i].type,
                                !.parent = Ref(f[i].parent), !.next = Ref(f[i].next),
                                !.prev = Ref(f[i].prev), !.last = Ref(f[i].last)]
  IN [k \in Key |-> IF \E i \in 1..Len(f) : at[i] = k
                    THEN Record(CHOOSE i \in 1..Len(f) : at[i] = k) ELSE Blank]

\* LoadRegistry reads the keys into one array; at[i] is the address of Reg[i].
Loaded(f, at) ==
  LET Ref(i) == IF i = 0 THEN NULL ELSE at[i]
      Record(i) == [Root EXCEPT !.name = f[i].name, !.type = f[i].type, !.data = f[i].data,
                                !.parent = Ref(f[i].parent), !.next = Ref(f[i].next),
                                !.prev = Ref(f[i].prev), !.last = Ref(f[i].last)]
  IN [k \in Key |-> IF \E i \in 1..Len(f) : at[i] = k
                    THEN Record(CHOOSE i \in 1..Len(f) : at[i] = k) ELSE Blank]
Array == CHOOSE at \in [1..Cardinality(Key) -> Key] :
           \A i, j \in 1..Cardinality(Key) : at[i] = at[j] => i = j
-----------------------------------------------------------------------------
Room(path) == Cardinality(FreeAddr(reg)) >= Len(path)

\* KeySetInt, KeySetText, KeySetNothing...: KeySetData.
KeySetData(path, t, v) ==
  /\ Running /\ Room(path)
  /\ LET s == GetOrCreateKeyEx(reg, path, MainKey)
     IN reg' = SetData(s.reg, s.key, t, v)
  /\ UNCHANGED <<MainKey, file>>

CreateKey(path) ==
  /\ Running /\ Room(path)
  /\ reg' = GetOrCreateKeyEx(reg, path, MainKey).reg
  /\ UNCHANGED <<MainKey, file>>

\* NewKey: the parent is created when it is missing.
NewKey(path, n) ==
  /\ Running /\ Room(Append(path, n))
  /\ LET s == GetOrCreateKeyEx(reg, path, MainKey)
     IN reg' = NewKeyEx(s.reg, s.key, n).reg
  /\ UNCHANGED <<MainKey, file>>

DeleteKey(path) ==
  /\ Running /\ ResolveKey(path) # NULL
  /\ reg' = DeleteKeyEx(reg, ResolveKey(path))
  /\ UNCHANGED <<MainKey, file>>

\* The new name may be a sibling's.
RenameKey(path, n) ==
  /\ Running /\ ResolveKey(path) # NULL
  /\ reg' = [reg EXCEPT ![ResolveKey(path)].name = n]
  /\ UNCHANGED <<MainKey, file>>

Saves == Running /\ Cardinality(Below(reg, MainKey)) <= MaxSaved

RegistrySave ==
  /\ Saves
  /\ file' = Written(reg, MainKey)
  /\ UNCHANGED <<reg, MainKey>>

\* LoadRegistry: without a file nothing changes.
RegistryReLoad ==
  /\ Running /\ file # NULL
  /\ reg' = Loaded(file, Array) /\ MainKey' = Array[1]
  /\ UNCHANGED file

\* The registry there is without a file.
DefaultRegistry ==
  LET at[i \in 0..Len(Default)] ==
        IF i = 0 THEN [[k \in Key |-> Blank] EXCEPT ![Array[1]] = Root]
        ELSE GetOrCreateKeyEx(at[i - 1], Default[i], Array[1]).reg
  IN at[Len(Default)]

\* With KERNEL_RESETUP the file is not read.
NRegistryInit ==
  /\ ~Running
  /\ MainKey' = Array[1]
  /\ \E resetup \in BOOLEAN :
       reg' = IF file # NULL /\ ~resetup THEN Loaded(file, Array) ELSE DefaultRegistry
  /\ UNCHANGED file

NRegistryUnInit ==
  /\ Saves
  /\ file' = Written(reg, MainKey)
  /\ reg' = FreeKey(reg, MainKey) /\ MainKey' = NULL

\* The machine is switched off: what was not saved is lost.
PowerOff ==
  /\ Running
  /\ reg' = [k \in Key |-> Blank] /\ MainKey' = NULL
  /\ UNCHANGED file

Next ==
  \/ \E path \in Path, t \in Type : \E v \in Value(t) : KeySetData(path, t, v)
  \/ \E path \in Path : CreateKey(path)
  \/ \E path \in Path, n \in Name : Len(path) < MaxPath /\ NewKey(path, n)
  \/ \E path \in Path : DeleteKey(path)
  \/ \E path \in Path, n \in Name : RenameKey(path, n)
  \/ RegistrySave \/ RegistryReLoad
  \/ NRegistryInit \/ NRegistryUnInit \/ PowerOff

Spec == Init /\ [][Next]_vars
-----------------------------------------------------------------------------
(***************************************************************************)
(* Properties.                                                             *)
(***************************************************************************)
\* Every variable has its type.
TypeOK ==
  /\ reg \in [Key -> [used : BOOLEAN, name : Name \cup {NULL},
                      type : Type \cup {"nodata"}, data : Seq(Octet),
                      parent : Key \cup {NULL}, last : Key \cup {NULL},
                      next : Key \cup {NULL}, prev : Key \cup {NULL}]]
  /\ MainKey \in Key \cup {NULL}
  /\ file # NULL => \A i \in 1..Len(file) :
       {file[i].parent, file[i].next, file[i].prev, file[i].last} \subseteq 0..Len(file)

(***************************************************************************)
(* The registry is a tree and no key is lost: the ring entered at a key's  *)
(* Last is that of the keys whose Parent it is, forth and back, and every  *)
(* key that is not freed is below MainKey.                                 *)
(***************************************************************************)
TreeInv ==
  Running =>
    /\ \A k \in Key : reg[k].used =>
         /\ reg[k].parent = NULL <=> k = MainKey
         /\ LET kids == {c \in Key : reg[c].used /\ reg[c].parent = k}
                ring == Kids(reg, k)
            IN /\ {ring[i] : i \in 1..Len(ring)} = kids /\ Len(ring) = Cardinality(kids)
               /\ \A c \in kids : reg[reg[c].next].prev = c
    /\ {k \in Key : reg[k].used} = Below(reg, MainKey)

\* The registry in memory and the file of it are well formed.
TreeOK == TypeOK /\ TreeInv

\* The tree below a key, without its addresses.
Tree(r, o) ==
  LET at[d \in 0..Cardinality(Key)] ==
        [k \in Key |->
          [name |-> r[k].name, type |-> r[k].type, data |-> r[k].data,
           kids |-> IF d = 0 THEN << >>
                    ELSE [i \in 1..Len(Kids(r, k)) |-> at[d - 1][Kids(r, k)[i]]]]]
  IN at[Cardinality(Key)][o]

(***************************************************************************)
(* What is read back from the file is the tree that was saved: the ids     *)
(* WriteKey gives are those under which LoadRegistry finds the keys.       *)
(***************************************************************************)
SavedIsLoaded ==
  [][Running /\ file' # file =>
       Tree(Loaded(file', Array), Array[1]) = Tree(reg, MainKey)]_vars

(***************************************************************************)
(* After KeySetData, KeyGetData of the same path finds that value: both    *)
(* come to the same key, whatever the case of its parents' names and       *)
(* however many siblings RenameKey has given its name.                     *)
(***************************************************************************)
KeyGetData(path, t, def) ==
  LET o == ResolveKey(path) IN IF o = NULL \/ reg[o].type # t THEN def ELSE reg[o].data

SetIsGot ==
  [][\A path \in Path, t \in Type : \A v \in Value(t) :
       KeySetData(path, t, v) => KeyGetData(path, t, NULL)' = Stored(t, v)]_vars

(***************************************************************************)
(* Setting or creating a key changes nothing that a different path leads   *)
(* to, as long as RenameKey and the two ways of comparing names have not   *)
(* made two siblings alike but for the case.  Paths are the same when they *)
(* differ in nothing but the case of the components before the last.       *)
(***************************************************************************)
SamePath(q, path) ==
  /\ Len(q) = Len(path) /\ q[Len(q)] = path[Len(path)]
  /\ \A i \in 1..Len(q) : Fold[q[i]] = Fold[path[i]]

SiblingsDiffer ==
  \A k, c \in Key :
    /\ reg[k].used /\ reg[c].used /\ {k, c} \cap {MainKey} = {}
    /\ reg[k].parent = reg[c].parent /\ Fold[reg[k].name] = Fold[reg[c].name]
    => k = c

OthersAreKept ==
  [][SiblingsDiffer /\ SiblingsDiffer' =>
       \A path \in Path :
         (CreateKey(path) \/ \E t \in Type : \E v \in Value(t) : KeySetData(path, t, v)) =>
           \A q \in Path : ~SamePath(q, path) /\ ResolveKey(q) # NULL =>
             \A t \in Type : KeyGetData(q, t, NULL)' = KeyGetData(q, t, NULL)]_vars

\* KeySetData and CreateKey write the value of their path, and no other.
SetsItsPath == SetIsGot /\ OthersAreKept

(***************************************************************************)
(* registry.c on RDSizes: "8, // RKT_BIG".  A key of that type holds the 8 *)
(* bytes KeyGetBig reads from it.                                          *)
(***************************************************************************)
BigIsStoredWhole ==
  \A k \in Key : reg[k].used /\ reg[k].type = "big" => Len(reg[k].data) = Width["big"]
=============================================================================
