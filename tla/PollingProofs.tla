--------------------------- MODULE PollingProofs ----------------------------
(***************************************************************************)
(* The two lists that SysPoll walks, for any number of tasks, timers and   *)
(* programs and polls within polls to any depth.                           *)
(***************************************************************************)
EXTENDS Tasks, Timers, Links, SequenceTheorems, FiniteSetTheorems
-----------------------------------------------------------------------------
(***************************************************************************)
(* The tasks.                                                              *)
(*                                                                         *)
(* That PollTasks meets each task once, for any number of tasks, polls     *)
(* within polls to any depth, and whatever is installed and removed in the *)
(* middle, as long as no task is removed while it runs; and that           *)
(* InstallTask and RemoveTask keep the order of the tasks in any case.     *)
(*                                                                         *)
(* The pointers alone do not say that the tasks form one list: a ring of   *)
(* two tasks apart from it would satisfy every equation between            *)
(* neighbours.  The invariant therefore says that the tasks can be given   *)
(* ranks such that Next leads to the next higher one, or, for the order,   *)
(* that there is a sequence that the pointers hold.                        *)
(***************************************************************************)
Walks == [p : Task, ran : SUBSET Task, owed : SUBSET Task]

\* Types.
Typed ==
  /\ Next \in [Task -> Task \cup {NULL}] /\ Prev \in [Task -> Task \cup {NULL}]
  /\ live \subseteq Task
  /\ walks \in Seq(Walks)

\* The pointers lead through the tasks in the order of their ranks.
Ranked(rank) ==
  /\ \A t, u \in live : rank[t] = rank[u] => t = u
  /\ IF live = {} THEN TaskList = NULL /\ LastTask = NULL
     ELSE /\ TaskList \in live /\ \A u \in live : rank[TaskList] <= rank[u]
          /\ LastTask \in live /\ \A u \in live : rank[u] <= rank[LastTask]
  /\ \A t \in live : IF Next[t] = NULL THEN t = LastTask
                     ELSE /\ Next[t] \in live /\ rank[t] < rank[Next[t]]
                          /\ \A u \in live : rank[t] < rank[u] => rank[Next[t]] <= rank[u]
  /\ \A t \in live : IF Prev[t] = NULL THEN t = TaskList
                     ELSE Prev[t] \in live /\ Next[Prev[t]] = t
  /\ \A t \in live : Next[t] # NULL => Prev[Next[t]] = t

\* A walk has run nothing behind its task, and owes nothing before it.
WalksRanked(rank) ==
  \A i \in DOMAIN walks :
    /\ walks[i].p \in live
    /\ walks[i].ran \subseteq {u \in live : rank[u] <= rank[walks[i].p]}
    /\ walks[i].owed \subseteq {u \in live : rank[walks[i].p] < rank[u]}

Inv == Typed /\ \E rank \in [Task -> Int] : Ranked(rank) /\ WalksRanked(rank)

\* A new task gets the highest rank.
Extended(rank, t) == [rank EXCEPT ![t] = IF live = {} THEN 0 ELSE rank[LastTask] + 1]
-----------------------------------------------------------------------------
LEMMA InitInv == Init => Inv
<1> SUFFICES ASSUME Init PROVE Inv
  OBVIOUS
<1>1. Typed
  BY TaskAssumption DEF Init, Typed
<1>2. [t \in Task |-> 0] \in [Task -> Int]
  OBVIOUS
<1>3. Ranked([t \in Task |-> 0]) /\ WalksRanked([t \in Task |-> 0])
  BY DEF Init, Ranked, WalksRanked
<1> QED
  BY <1>1, <1>2, <1>3 DEF Inv

LEMMA InstallInv ==
  ASSUME Inv, NEW t \in Task, InstallTask(t)
  PROVE  Inv'
<1>1. PICK rank \in [Task -> Int] : Ranked(rank) /\ WalksRanked(rank)
  BY DEF Inv
<1> USE TaskAssumption
<1>n. PICK new : new = Extended(rank, t)
  OBVIOUS
<1>0. Typed
  BY DEF Inv
<1>2. new \in [Task -> Int]
  BY <1>0, <1>1, <1>n DEF Extended, Ranked, Typed
<1>3. /\ t \notin live /\ live' = live \cup {t} /\ walks' = walks
      /\ LastTask' = t /\ TaskList' = IF live = {} THEN t ELSE TaskList
      /\ Prev' = [Prev EXCEPT ![t] = LastTask]
      /\ Next' = IF live = {} THEN [Next EXCEPT ![t] = NULL]
                 ELSE [Next EXCEPT ![t] = NULL, ![LastTask] = t]
  BY <1>1 DEF InstallTask, Ranked, Inv, Typed
<1>a. new[t] = (IF live = {} THEN 0 ELSE rank[LastTask] + 1) /\ \A u \in Task \ {t} : new[u] = rank[u]
  BY <1>n DEF Extended
<1>b. live \subseteq Task /\ \A u \in live : u # t /\ rank[u] \in Int /\ rank[u] <= rank[LastTask]
  BY <1>0, <1>1, <1>3 DEF Ranked, Typed
<1>c. live # {} => LastTask \in live
  BY <1>1 DEF Ranked
<1>4. \A u \in live : new[u] = rank[u] /\ rank[u] \in Int /\ new[u] < new[t]
  BY <1>a, <1>b, <1>c
<1>5. Typed'
  BY <1>1, <1>3 DEF Inv, Typed, Ranked
<1>6. Ranked(new)'
  <2> SUFFICES ASSUME TRUE
               PROVE  /\ \A x, u \in live' : new[x] = new[u] => x = u
                      /\ IF live' = {} THEN TaskList' = NULL /\ LastTask' = NULL
                         ELSE /\ TaskList' \in live' /\ \A u \in live' : new[TaskList'] <= new[u]
                              /\ LastTask' \in live' /\ \A u \in live' : new[u] <= new[LastTask']
                      /\ \A x \in live' : IF Next'[x] = NULL THEN x = LastTask'
                           ELSE /\ Next'[x] \in live' /\ new[x] < new[Next'[x]]
                                /\ \A u \in live' : new[x] < new[u] => new[Next'[x]] <= new[u]
                      /\ \A x \in live' : IF Prev'[x] = NULL THEN x = TaskList'
                           ELSE Prev'[x] \in live' /\ Next'[Prev'[x]] = x
                      /\ \A x \in live' : Next'[x] # NULL => Prev'[Next'[x]] = x
    BY DEF Ranked
  <2>1. \A x, u \in live' : new[x] = new[u] => x = u
    BY <1>1, <1>2, <1>3, <1>4 DEF Ranked
  <2>2. IF live' = {} THEN TaskList' = NULL /\ LastTask' = NULL
        ELSE /\ TaskList' \in live' /\ \A u \in live' : new[TaskList'] <= new[u]
             /\ LastTask' \in live' /\ \A u \in live' : new[u] <= new[LastTask']
    BY <1>1, <1>2, <1>3, <1>4 DEF Ranked
  <2>3. ASSUME NEW x \in live'
        PROVE  IF Next'[x] = NULL THEN x = LastTask'
               ELSE /\ Next'[x] \in live' /\ new[x] < new[Next'[x]]
                    /\ \A u \in live' : new[x] < new[u] => new[Next'[x]] <= new[u]
    BY <1>0, <1>1, <1>2, <1>3, <1>4 DEF Ranked, Typed
  <2>4. ASSUME NEW x \in live'
        PROVE  IF Prev'[x] = NULL THEN x = TaskList'
               ELSE Prev'[x] \in live' /\ Next'[Prev'[x]] = x
    BY <1>0, <1>1, <1>3 DEF Ranked, Typed
  <2>5. ASSUME NEW x \in live', Next'[x] # NULL
        PROVE  Prev'[Next'[x]] = x
    BY <1>0, <1>1, <1>3, <2>5 DEF Ranked, Typed
  <2> QED
    BY <2>1, <2>2, <2>3, <2>4, <2>5
<1>7. WalksRanked(new)'
  BY <1>0, <1>1, <1>3, <1>4 DEF WalksRanked, Typed
<1> QED
  BY <1>2, <1>5, <1>6, <1>7 DEF Inv

\* What RemoveTask leaves of the walks.
ForgottenIs(t) ==
  /\ walks' \in Seq(Walks) /\ Len(walks') = Len(walks) /\ DOMAIN walks' = DOMAIN walks
  /\ \A i \in DOMAIN walks :
       /\ walks'[i].p = walks[i].p
       /\ walks'[i].ran = walks[i].ran \ {t} /\ walks'[i].owed = walks[i].owed \ {t}

LEMMA ForgetsOne ==
  ASSUME Typed, NEW t \in Task, walks' = Forgotten(t)
  PROVE  ForgottenIs(t)
<1>1. \A i \in DOMAIN walks : walks[i] \in Walks
  BY DEF Typed
<1>2. DOMAIN walks = 1..Len(walks) /\ Len(walks) \in Nat
  BY DEF Typed
<1> QED
  BY <1>1, <1>2 DEF ForgottenIs, Forgotten, Walk, Walks

LEMMA RemoveInv ==
  ASSUME RemoveSelf = FALSE, Inv, NEW t \in Task, RemoveTask(t)
  PROVE  Inv'
<1>1. PICK rank \in [Task -> Int] : Ranked(rank) /\ WalksRanked(rank)
  BY DEF Inv
<1>0. Typed
  BY DEF Inv
<1> USE TaskAssumption
<1>2. /\ t \in live /\ live' = live \ {t} /\ \A i \in DOMAIN walks : walks[i].p # t
      /\ Next' = IF Prev[t] # NULL THEN [Next EXCEPT ![Prev[t]] = Next[t]] ELSE Next
      /\ Prev' = IF Next[t] # NULL THEN [Prev EXCEPT ![Next[t]] = Prev[t]] ELSE Prev
      /\ TaskList' = IF Prev[t] # NULL THEN TaskList ELSE Next[t]
      /\ LastTask' = IF Next[t] # NULL THEN LastTask ELSE Prev[t]
  BY DEF RemoveTask, NextWithout, PrevWithout, LastWithout
<1>3. ForgottenIs(t)
  BY <1>0, ForgetsOne DEF RemoveTask
<1>4. \A u \in live : u \in Task /\ rank[u] \in Int
  BY DEF Inv, Typed
<1>5. Typed'
  <2>1. walks' \in Seq(Walks)
    BY <1>3 DEF ForgottenIs
  <2> QED
    BY <1>0, <1>1, <1>2, <2>1 DEF Typed, Ranked
<1>6. Ranked(rank)'
  <2>1. \A x, u \in live' : rank[x] = rank[u] => x = u
    BY <1>1, <1>2 DEF Ranked
  <2>2. IF live' = {} THEN TaskList' = NULL /\ LastTask' = NULL
        ELSE /\ TaskList' \in live' /\ \A u \in live' : rank[TaskList'] <= rank[u]
             /\ LastTask' \in live' /\ \A u \in live' : rank[u] <= rank[LastTask']
    <3>1. /\ TaskList \in live /\ \A u \in live : rank[TaskList] <= rank[u]
          /\ LastTask \in live /\ \A u \in live : u # LastTask => rank[u] < rank[LastTask]
      BY <1>1, <1>2, <1>4 DEF Ranked
    <3>2. \A u \in live : u # NULL
      BY <1>4
    <3>3. CASE Prev[t] = NULL /\ Next[t] = NULL
      <4>1. live' = {}
        BY <1>1, <1>2, <1>4, <3>1, <3>3 DEF Ranked
      <4> QED
        BY <1>2, <3>3, <4>1
    <3>4. CASE Prev[t] # NULL /\ Next[t] = NULL
      <4>1. /\ Prev[t] \in live /\ Next[Prev[t]] = t /\ Prev[t] # t
            /\ \A u \in live : rank[Prev[t]] < rank[u] => rank[t] <= rank[u]
        BY <1>1, <1>2, <1>4, <3>2, <3>4 DEF Ranked
      <4>2. t = LastTask /\ TaskList # t
        BY <1>1, <1>2, <3>1, <3>4, <4>1, <1>4 DEF Ranked
      <4>3. TaskList' = TaskList /\ LastTask' = Prev[t]
        BY <1>2, <3>4
      <4>4. \A u \in live' : rank[u] <= rank[Prev[t]]
        BY <1>2, <1>4, <3>1, <4>1, <4>2
      <4> QED
        BY <1>2, <3>1, <4>1, <4>2, <4>3, <4>4
    <3>5. CASE Prev[t] = NULL /\ Next[t] # NULL
      <4>1. /\ Next[t] \in live /\ rank[t] < rank[Next[t]]
            /\ \A u \in live : rank[t] < rank[u] => rank[Next[t]] <= rank[u]
        BY <1>1, <1>2, <3>5 DEF Ranked
      <4>2. t = TaskList /\ t # LastTask /\ Next[t] # t
        BY <1>1, <1>2, <1>4, <3>1, <3>5, <4>1 DEF Ranked
      <4>3. \A u \in live' : rank[Next[t]] <= rank[u]
        BY <1>1, <1>2, <1>4, <3>1, <4>1, <4>2 DEF Ranked
      <4> QED
        BY <1>2, <1>4, <3>1, <3>5, <4>1, <4>2, <4>3
    <3>6. CASE Prev[t] # NULL /\ Next[t] # NULL
      <4>1. t # LastTask
        BY <1>1, <1>2, <1>4, <3>1, <3>6 DEF Ranked
      <4>2. t # TaskList
        BY <1>1, <1>2, <1>4, <3>1, <3>2, <3>6 DEF Ranked
      <4> QED
        BY <1>2, <1>4, <3>1, <3>6, <4>1, <4>2
    <3> QED
      BY <3>3, <3>4, <3>5, <3>6
  <2>3. ASSUME NEW x \in live'
        PROVE  IF Next'[x] = NULL THEN x = LastTask'
               ELSE /\ Next'[x] \in live' /\ rank[x] < rank[Next'[x]]
                    /\ \A u \in live' : rank[x] < rank[u] => rank[Next'[x]] <= rank[u]
    <3>1. CASE x # Prev[t]
      <4>1. Next'[x] = Next[x] /\ x # t /\ x \in live
        BY <1>0, <1>2, <3>1 DEF Typed
      <4>2. Next[x] # t
        BY <1>0, <1>1, <1>2, <3>1, <4>1 DEF Ranked, Typed
      <4>3. x = LastTask => LastTask' = LastTask
        BY <1>1, <1>2, <4>1, <3>1 DEF Ranked
      <4> QED
        BY <1>1, <1>2, <4>1, <4>2, <4>3 DEF Ranked
    <3>2. CASE x = Prev[t]
      <4>1. x \in live /\ x # NULL /\ Next'[x] = Next[t] /\ Next[x] = t
        BY <1>0, <1>1, <1>2, <3>2 DEF Ranked, Typed
      <4>2. rank[x] < rank[t] /\ \A u \in live : rank[x] < rank[u] => rank[t] <= rank[u]
        BY <1>0, <1>1, <1>2, <4>1 DEF Ranked, Typed
      <4>3. \A u \in live' : rank[x] < rank[u] => rank[t] < rank[u]
        BY <1>1, <1>2, <1>4, <4>2 DEF Ranked
      <4>4. CASE Next[t] = NULL
        BY <1>2, <3>2, <4>1, <4>4
      <4>5. CASE Next[t] # NULL
        <5>1. /\ Next[t] \in live /\ rank[t] < rank[Next[t]]
              /\ \A u \in live : rank[t] < rank[u] => rank[Next[t]] <= rank[u]
          BY <1>1, <1>2, <4>5 DEF Ranked
        <5>2. Next[t] # t
          BY <1>4, <5>1
        <5> QED
          BY <1>2, <1>4, <4>1, <4>2, <4>3, <4>5, <5>1, <5>2
      <4> QED
        BY <4>4, <4>5
    <3> QED
      BY <3>1, <3>2
  <2>4. ASSUME NEW x \in live'
        PROVE  IF Prev'[x] = NULL THEN x = TaskList'
               ELSE Prev'[x] \in live' /\ Next'[Prev'[x]] = x
    BY <1>0, <1>1, <1>2, <1>4 DEF Ranked, Typed
  <2>5. ASSUME NEW x \in live', Next'[x] # NULL
        PROVE  Prev'[Next'[x]] = x
    BY <1>0, <1>1, <1>2, <1>4, <2>5 DEF Ranked, Typed
  <2> QED
    BY <2>1, <2>2, <2>3, <2>4, <2>5 DEF Ranked
<1>7. WalksRanked(rank)'
  BY <1>0, <1>1, <1>2, <1>3 DEF WalksRanked, Typed, ForgottenIs
<1> QED
  BY <1>5, <1>6, <1>7 DEF Inv
-----------------------------------------------------------------------------
LEMMA PollInv ==
  ASSUME Inv, PollTasks
  PROVE  Inv'
<1>1. PICK rank \in [Task -> Int] : Ranked(rank) /\ WalksRanked(rank)
  BY DEF Inv
<1> USE TaskAssumption
<1> DEFINE w == Walk(TaskList, {TaskList}, live \ {TaskList})
<1>2. /\ walks' = Append(walks, w)
      /\ UNCHANGED <<TaskList, LastTask, Next, Prev, live>>
  BY DEF PollTasks
<1>3. TaskList \in live /\ \A u \in live : rank[TaskList] <= rank[u] /\ rank[u] \in Int /\ u \in Task
  BY <1>1 DEF PollTasks, Ranked, Inv, Typed
<1>4. Typed'
  BY <1>2, <1>3 DEF Inv, Typed, Walk, Walks
<1>5. Ranked(rank)'
  BY <1>1, <1>2 DEF Ranked
<1>6. \A u \in w.owed : u \in live /\ rank[TaskList] < rank[u]
  BY <1>1, <1>3 DEF Ranked, Walk
<1>7. WalksRanked(rank)'
  <2> SUFFICES ASSUME NEW i \in DOMAIN walks'
               PROVE  /\ walks'[i].p \in live
                      /\ walks'[i].ran \subseteq {u \in live : rank[u] <= rank[walks'[i].p]}
                      /\ walks'[i].owed \subseteq {u \in live : rank[walks'[i].p] < rank[u]}
    BY <1>2 DEF WalksRanked
  <2>1. (i \in DOMAIN walks /\ walks'[i] = walks[i]) \/ walks'[i] = w
    BY <1>2 DEF Inv, Typed
  <2>2. CASE i \in DOMAIN walks /\ walks'[i] = walks[i]
    BY <1>1, <2>2 DEF WalksRanked
  <2>3. CASE walks'[i] = w
    BY <1>3, <1>6, <2>3 DEF Walk
  <2> QED
    BY <2>1, <2>2, <2>3
<1> QED
  BY <1>4, <1>5, <1>7 DEF Inv

LEMMA FrontWalks ==
  ASSUME NEW s \in Seq(Walks), s # << >>
  PROVE  /\ Front(s) \in Seq(Walks) /\ Len(Front(s)) = Len(s) - 1
         /\ \A i \in DOMAIN Front(s) : i \in DOMAIN s /\ Front(s)[i] = s[i]
<1>1. Len(s) \in Nat \ {0} /\ \A i \in 1..(Len(s) - 1) : i \in DOMAIN s /\ s[i] \in Walks
  OBVIOUS
<1>2. /\ SubSeq(s, 1, Len(s) - 1) \in Seq(Walks)
      /\ Len(SubSeq(s, 1, Len(s) - 1)) = Len(s) - 1
      /\ \A i \in 1..(Len(s) - 1) : SubSeq(s, 1, Len(s) - 1)[i] = s[i]
  <2> DEFINE m == Len(s) - 1
  <2>1. m \in Int /\ m >= 0 /\ 1 \in Int /\ \A i \in 1..m : s[i] \in Walks
    BY <1>1
  <2> HIDE DEF m
  <2>2. /\ SubSeq(s, 1, m) \in Seq(Walks)
        /\ Len(SubSeq(s, 1, m)) = IF 1 <= m THEN m - 1 + 1 ELSE 0
        /\ \A i \in 1..(m - 1 + 1) : SubSeq(s, 1, m)[i] = s[1 + i - 1]
    BY <2>1, SubSeqProperties
  <2>3. Len(SubSeq(s, 1, m)) = m /\ \A i \in 1..m : SubSeq(s, 1, m)[i] = s[i]
    <3>1. 1..(m - 1 + 1) = 1..m /\ \A i \in 1..m : 1 + i - 1 = i
      BY <2>1
    <3>2. Len(SubSeq(s, 1, m)) = m
      BY <2>1, <2>2
    <3> QED
      BY <2>2, <3>1, <3>2
  <2> QED
    BY <2>2, <2>3 DEF m
<1> QED
  BY <1>1, <1>2 DEF Front

\* What holds of the task a walk goes on with, and of a walk that ends.
LEMMA OnwardRanked ==
  ASSUME Inv, walks # << >>
  PROVE  /\ Len(walks) \in Nat \ {0} /\ Last(walks) = walks[Len(walks)] /\ Last(walks).p \in live
         /\ Next[Last(walks).p] = NULL => Last(walks).owed = {}
         /\ Next[Last(walks).p] # NULL =>
              /\ Next[Last(walks).p] \in live
              /\ Next[Last(walks).p] \notin Last(walks).ran
<1>1. PICK rank \in [Task -> Int] : Ranked(rank) /\ WalksRanked(rank)
  BY DEF Inv
<1>2. Len(walks) \in Nat \ {0} /\ Last(walks) = walks[Len(walks)] /\ Len(walks) \in DOMAIN walks
  BY DEF Inv, Typed, Last
<1> DEFINE w == Last(walks)
<1>3. /\ w.p \in live
      /\ w.ran \subseteq {u \in live : rank[u] <= rank[w.p]}
      /\ w.owed \subseteq {u \in live : rank[w.p] < rank[u]}
  BY <1>1, <1>2 DEF WalksRanked
<1>4. \A u \in live : rank[u] \in Int
  BY DEF Inv, Typed
<1> HIDE DEF w
<1>5. Next[w.p] = NULL => w.owed = {}
  BY <1>1, <1>3, <1>4 DEF Ranked
<1>6. Next[w.p] # NULL => Next[w.p] \in live /\ Next[w.p] \notin w.ran
  BY <1>1, <1>3, <1>4 DEF Ranked
<1> QED
  BY <1>2, <1>3, <1>5, <1>6 DEF w

LEMMA ReturnInv ==
  ASSUME Inv, TaskReturns
  PROVE  Inv'
<1>1. PICK rank \in [Task -> Int] : Ranked(rank) /\ WalksRanked(rank)
  BY DEF Inv
<1> DEFINE w == Last(walks)
           n == Next[w.p]
           v == Walk(n, w.ran \cup {n}, w.owed \ {n})
<1>2. /\ walks # << >>
      /\ walks' = IF n = NULL THEN Front(walks) ELSE Append(Front(walks), v)
      /\ UNCHANGED <<TaskList, LastTask, Next, Prev, live>>
  BY DEF TaskReturns, Onward
<1>3. /\ Len(walks) \in Nat \ {0} /\ w = walks[Len(walks)] /\ w.p \in live
      /\ w \in Walks
      /\ n # NULL => n \in live
  BY <1>2, OnwardRanked DEF Inv, Typed
<1>4. /\ Front(walks) \in Seq(Walks)
      /\ Len(Front(walks)) = Len(walks) - 1
      /\ \A i \in DOMAIN Front(walks) : i \in DOMAIN walks /\ Front(walks)[i] = walks[i]
  BY <1>2, FrontWalks DEF Inv, Typed
<1>5. n # NULL => v \in Walks
  BY <1>3 DEF Inv, Typed, Walk, Walks
<1>6. Typed'
  <2> HIDE DEF w, n, v
  <2> QED
    BY <1>2, <1>4, <1>5 DEF Inv, Typed
<1>7. Ranked(rank)'
  BY <1>1, <1>2 DEF Ranked
<1>8. n # NULL => /\ v.p \in live
                  /\ v.ran \subseteq {u \in live : rank[u] <= rank[v.p]}
                  /\ v.owed \subseteq {u \in live : rank[v.p] < rank[u]}
  <2> SUFFICES ASSUME n # NULL
               PROVE  /\ n \in live
                      /\ w.ran \cup {n} \subseteq {u \in live : rank[u] <= rank[n]}
                      /\ w.owed \ {n} \subseteq {u \in live : rank[n] < rank[u]}
    BY DEF Walk
  <2>1. /\ w.ran \subseteq {u \in live : rank[u] <= rank[w.p]}
        /\ w.owed \subseteq {u \in live : rank[w.p] < rank[u]}
    BY <1>1, <1>3 DEF WalksRanked, Inv, Typed
  <2>2. \A u \in live : rank[u] \in Int
    BY DEF Inv, Typed
  <2>3. n \in live /\ rank[w.p] < rank[n] /\ \A u \in live : rank[w.p] < rank[u] => rank[n] <= rank[u]
    BY <1>1, <1>3 DEF Ranked
  <2>4. \A u \in live : rank[u] = rank[n] => u = n
    BY <1>1, <2>3 DEF Ranked
  <2> HIDE DEF w, n
  <2> QED
    BY <1>3, <2>1, <2>2, <2>3, <2>4
<1>9. WalksRanked(rank)'
  <2> SUFFICES ASSUME NEW i \in DOMAIN walks'
               PROVE  /\ walks'[i].p \in live
                      /\ walks'[i].ran \subseteq {u \in live : rank[u] <= rank[walks'[i].p]}
                      /\ walks'[i].owed \subseteq {u \in live : rank[walks'[i].p] < rank[u]}
    BY <1>2 DEF WalksRanked
  <2> HIDE DEF w, n, v
  <2>1. \/ i \in DOMAIN walks /\ walks'[i] = walks[i]
        \/ n # NULL /\ walks'[i] = v
    BY <1>2, <1>4
  <2>2. CASE i \in DOMAIN walks /\ walks'[i] = walks[i]
    BY <1>1, <2>2 DEF WalksRanked
  <2>3. CASE n # NULL /\ walks'[i] = v
    BY <1>8, <2>3
  <2> QED
    BY <2>1, <2>2, <2>3
<1> QED
  BY <1>6, <1>7, <1>9 DEF Inv

LEMMA NextInv ==
  ASSUME RemoveSelf = FALSE
  PROVE  Inv /\ [Step]_vars => Inv'
<1> SUFFICES ASSUME Inv, [Step]_vars PROVE Inv'
  OBVIOUS
<1>1. ASSUME NEW t \in Task, InstallTask(t) PROVE Inv'
  BY <1>1, InstallInv
<1>2. ASSUME NEW t \in Task, RemoveTask(t) PROVE Inv'
  BY <1>2, RemoveInv
<1>3. CASE PollTasks
  BY <1>3, PollInv
<1>4. CASE TaskReturns
  BY <1>4, ReturnInv
<1>5. CASE UNCHANGED vars
  <2>1. UNCHANGED <<TaskList, LastTask, Next, Prev, live, walks>>
    BY <1>5 DEF vars
  <2> QED
    BY <2>1, ZenonT(20) DEF Inv, Typed, Ranked, WalksRanked
<1> QED
  BY <1>1, <1>2, <1>3, <1>4, <1>5 DEF Step
-----------------------------------------------------------------------------
\* TypeOK: the task a walk is at is never freed under it.
THEOREM TasksTypeCorrect ==
  ASSUME RemoveSelf = FALSE
  PROVE  Spec => []TypeOK
<1>1. Inv => TypeOK
  <2> SUFFICES ASSUME Inv PROVE TypeOK
    OBVIOUS
  <2>1. PICK rank \in [Task -> Int] : Ranked(rank) /\ WalksRanked(rank)
    BY DEF Inv
  <2>2. {TaskList, LastTask} \subseteq live \cup {NULL}
    BY <2>1 DEF Ranked
  <2>3. \A i \in DOMAIN walks : walks[i].p \in live /\ walks[i].owed \subseteq live
    BY <2>1 DEF WalksRanked
  <2> QED
    BY <2>2, <2>3 DEF TypeOK, Inv, Typed
<1>2. Inv /\ [Step]_vars => Inv'
  BY NextInv
<1> QED
  BY <1>1, <1>2, InitInv, PTL DEF Spec

\* A step either leaves the innermost walk at its task, or takes it on as PollTasks does.
LEMMA StepOnce ==
  ASSUME Inv, Step
  PROVE  /\ Len(walks') < Len(walks) => Last(walks).owed = {}
         /\ Len(walks') = Len(walks) /\ walks # << >> /\ Last(walks').p # Last(walks).p =>
              Last(walks').p \notin Last(walks).ran
<1> USE DEF Inv, Typed
<1>1. ASSUME NEW t \in Task, InstallTask(t) PROVE walks' = walks
  BY <1>1 DEF InstallTask
<1>2. ASSUME NEW t \in Task, RemoveTask(t)
      PROVE  Len(walks') = Len(walks) /\ (walks # << >> => Last(walks').p = Last(walks).p)
  <2>1. ForgottenIs(t)
    BY <1>2, ForgetsOne DEF RemoveTask
  <2>2. Len(walks') = Len(walks)
    BY <2>1 DEF ForgottenIs
  <2>3. walks # << >> => Len(walks) \in DOMAIN walks
    OBVIOUS
  <2> QED
    BY <2>1, <2>2, <2>3 DEF Last, ForgottenIs
<1>3. ASSUME PollTasks PROVE Len(walks') = Len(walks) + 1
  BY <1>3 DEF PollTasks
<1>4. ASSUME TaskReturns
      PROVE  /\ Len(walks') < Len(walks) => Last(walks).owed = {}
             /\ Len(walks') = Len(walks) => Last(walks').p \notin Last(walks).ran
  <2> DEFINE w == Last(walks)
             n == Next[w.p]
             v == Walk(n, w.ran \cup {n}, w.owed \ {n})
  <2>1. walks # << >> /\ walks' = IF n = NULL THEN Front(walks) ELSE Append(Front(walks), v)
    BY <1>4 DEF TaskReturns, Onward
  <2>2. /\ Len(walks) \in Nat \ {0} /\ w = walks[Len(walks)]
        /\ w \in Walks
    BY <2>1, OnwardRanked
  <2>3. /\ Front(walks) \in Seq(Walks)
        /\ Len(Front(walks)) = Len(walks) - 1
    BY <2>1, FrontWalks
  <2>4. /\ n = NULL => w.owed = {}
        /\ n # NULL => n \notin w.ran
    BY <2>1, OnwardRanked
  <2>5. v.p = n
    BY DEF Walk
  <2> HIDE DEF w, n, v
  <2>6. CASE n = NULL
    BY <2>1, <2>2, <2>3, <2>4, <2>6 DEF w
  <2>7. CASE n # NULL
    <3>1. Len(walks') = Len(walks) /\ Last(walks') = v
      BY <2>1, <2>2, <2>3, <2>7 DEF Last
    <3> QED
      BY <2>2, <2>4, <2>5, <2>7, <3>1 DEF w
  <2> QED
    BY <2>6, <2>7
<1>5. Len(walks) \in Nat
  OBVIOUS
<1> QED
  BY <1>1, <1>2, <1>3, <1>4, <1>5 DEF Step

\* EachOnce: a walk of PollTasks runs each task that stays installed, and none twice.
THEOREM TasksOnceCorrect ==
  ASSUME RemoveSelf = FALSE
  PROVE  Spec => EachOnce
<1>1. Inv /\ [Step]_vars =>
        [/\ Len(walks') < Len(walks) => Last(walks).owed = {}
         /\ Len(walks') = Len(walks) /\ walks # << >> /\ Last(walks').p # Last(walks).p =>
              Last(walks').p \notin Last(walks).ran]_vars
  BY StepOnce
<1>2. Inv /\ [Step]_vars => Inv'
  BY NextInv
<1> QED
  BY <1>1, <1>2, InitInv, PTL DEF Spec, EachOnce

\* RunsOnce: PollTasks runs each task once and reads no task that has been freed.
THEOREM TasksRunOnce ==
  ASSUME RemoveSelf = FALSE
  PROVE  Spec => RunsOnce
BY TasksTypeCorrect, TasksOnceCorrect DEF RunsOnce
-----------------------------------------------------------------------------
(***************************************************************************)
(* The order of the tasks.  Whatever runs, and whether or not a task is    *)
(* removed while it runs, the pointers hold one sequence.                  *)
(***************************************************************************)
OneToOne(s) == \A j, k \in 1..Len(s) : s[j] = s[k] => j = k

\* The pointers hold the sequence s.
Linked(s, head, tail, next, prev) ==
  /\ IF s = << >> THEN head = NULL /\ tail = NULL ELSE head = s[1] /\ tail = s[Len(s)]
  /\ \A k \in 1..Len(s) : /\ next[s[k]] = IF k = Len(s) THEN NULL ELSE s[k + 1]
                          /\ prev[s[k]] = IF k = 1 THEN NULL ELSE s[k - 1]

Holding(s) ==
  /\ s \in Seq(Task) /\ OneToOne(s)
  /\ live = {s[k] : k \in 1..Len(s)}
  /\ Linked(s, TaskList, LastTask, Next, Prev)

PointersTyped ==
  /\ Next \in [Task -> Task \cup {NULL}] /\ Prev \in [Task -> Task \cup {NULL}]

OrderInv == PointersTyped /\ \E s : Holding(s)

LEMMA OrderInit == Init => OrderInv
<1> SUFFICES ASSUME Init PROVE OrderInv
  OBVIOUS
<1>1. Holding(<< >>)
  BY DEF Init, Holding, OneToOne, Linked
<1> QED
  BY <1>1 DEF Init, OrderInv, PointersTyped

\* The new task is behind the last one.
LEMMA InstallHolds ==
  ASSUME PointersTyped, NEW s, Holding(s), NEW t \in Task, InstallTask(t)
  PROVE  PointersTyped' /\ Holding(Append(s, t))'
<1> DEFINE u == Append(s, t)
           N == Len(s)
<1>1. /\ N \in Nat /\ u \in Seq(Task) /\ Len(u) = N + 1 /\ u[N + 1] = t
      /\ \A k \in 1..N : u[k] = s[k] /\ s[k] \in Task
  BY DEF Holding
<1>2. \A k \in 1..N : s[k] # t
  BY DEF Holding, InstallTask
<1>3. NULL \notin Task
  BY TaskAssumption
<1>4. N = 0 <=> TaskList = NULL
  BY <1>1, <1>3 DEF Holding, Linked
<1>5. N # 0 => TaskList = s[1] /\ LastTask = s[N] /\ s[1] \in Task /\ s[N] \in Task
  BY <1>1 DEF Holding, Linked
<1>6. N = 0 => LastTask = NULL
  BY <1>1 DEF Holding, Linked
<1>7. /\ Prev' = [Prev EXCEPT ![t] = LastTask]
      /\ Next' = IF N = 0 THEN [Next EXCEPT ![t] = NULL] ELSE [Next EXCEPT ![t] = NULL, ![s[N]] = t]
      /\ TaskList' = (IF N = 0 THEN t ELSE TaskList) /\ LastTask' = t
      /\ live' = live \cup {t}
  BY <1>4, <1>5 DEF InstallTask
<1>8. PointersTyped'
  BY <1>1, <1>5, <1>6, <1>7 DEF PointersTyped
<1>9. OneToOne(u)
  BY <1>1, <1>2 DEF Holding, OneToOne
<1>10. live' = {u[k] : k \in 1..(N + 1)}
  <2>1. live = {u[k] : k \in 1..N}
    BY <1>1 DEF Holding
  <2>2. 1..(N + 1) = (1..N) \cup {N + 1}
    BY <1>1
  <2> HIDE DEF u
  <2> QED
    BY <1>1, <1>7, <2>1, <2>2
<1>11. /\ \A k \in 1..N : Next[s[k]] = IF k = N THEN NULL ELSE s[k + 1]
       /\ \A k \in 1..N : Prev[s[k]] = IF k = 1 THEN NULL ELSE s[k - 1]
  BY DEF Holding, Linked
<1>12. /\ Next'[t] = NULL /\ Prev'[t] = LastTask
       /\ N # 0 => Next'[s[N]] = t
  BY <1>1, <1>2, <1>5, <1>7 DEF PointersTyped
<1>13. \A k \in 1..N : /\ k # N => Next'[s[k]] = Next[s[k]]
                       /\ Prev'[s[k]] = Prev[s[k]]
  <2>1. \A k \in 1..N : k # N => s[k] # s[N]
    BY <1>1 DEF Holding, OneToOne
  <2> QED
    BY <1>1, <1>2, <1>5, <1>7, <2>1 DEF PointersTyped
<1> HIDE DEF u
<1>14. ASSUME NEW k \in 1..(N + 1) PROVE Next'[u[k]] = IF k = N + 1 THEN NULL ELSE u[k + 1]
  <2>1. CASE k = N + 1
    BY <1>1, <1>12, <2>1
  <2>2. CASE k = N
    BY <1>1, <1>12, <1>14, <2>2
  <2>3. CASE k # N /\ k # N + 1
    <3>1. k \in 1..N /\ k + 1 \in 1..N
      BY <1>1, <2>3
    <3> QED
      BY <1>1, <1>11, <1>13, <2>3, <3>1
  <2> QED
    BY <2>1, <2>2, <2>3
<1>15. ASSUME NEW k \in 1..(N + 1) PROVE Prev'[u[k]] = IF k = 1 THEN NULL ELSE u[k - 1]
  <2>1. CASE k = N + 1
    <3>1. CASE N = 0
      BY <1>1, <1>6, <1>12, <2>1, <3>1
    <3>2. CASE N # 0
      <4>1. k - 1 = N /\ N \in 1..N /\ k # 1
        BY <1>1, <2>1, <3>2
      <4> QED
        BY <1>1, <1>5, <1>12, <2>1, <3>2, <4>1
    <3> QED
      BY <3>1, <3>2
  <2>2. CASE k # N + 1
    <3>1. k \in 1..N /\ (k # 1 => k - 1 \in 1..N)
      BY <1>1, <2>2
    <3> QED
      BY <1>1, <1>11, <1>13, <3>1
  <2> QED
    BY <2>1, <2>2
<1>16. TaskList' = u[1] /\ LastTask' = u[Len(u)] /\ u # << >>
  <2>1. N # 0 => 1 \in 1..N
    BY <1>1
  <2>2. CASE N = 0
    <3>1. N + 1 = 1 /\ Len(u) = 1 /\ u[1] = t
      BY <1>1, <2>2
    <3>2. TaskList' = t /\ LastTask' = t
      BY <1>7, <2>2
    <3>3. u # << >>
      BY <3>1
    <3> QED
      BY <3>1, <3>2, <3>3
  <2>3. CASE N # 0
    BY <1>1, <1>5, <1>7, <2>1, <2>3
  <2> QED
    BY <2>2, <2>3
<1>17. Linked(u, TaskList', LastTask', Next', Prev')
  BY <1>1, <1>14, <1>15, <1>16 DEF Linked
<1>18. Holding(u)'
  BY <1>1, <1>9, <1>10, <1>17 DEF Holding, OneToOne, Linked, u
<1> QED
  BY <1>8, <1>18 DEF u

\* The neighbours of the task that is removed are linked to each other.
LEMMA RemoveHolds ==
  ASSUME PointersTyped, NEW s, Holding(s), NEW k \in 1..Len(s), RemoveTask(s[k])
  PROVE  PointersTyped' /\ Holding(Order!RemovedAt(s, k))'
<1> DEFINE u == Order!RemovedAt(s, k)
           N == Len(s)
           t == s[k]
<1>1. s \in Seq(Task) /\ N \in Nat \ {0} /\ k \in 1..N /\ \A m \in 1..N : s[m] \in Task
  BY DEF Holding
<1>2. NULL \notin Task
  BY TaskAssumption
<1>3. \A j, m \in 1..N : s[j] = s[m] => j = m
  BY DEF Holding, OneToOne
<1>4. /\ u \in Seq(Task) /\ Len(u) = N - 1
      /\ \A m \in 1..(N - 1) : u[m] = IF m < k THEN s[m] ELSE s[m + 1]
  <2> DEFINE r == [m \in 1..(N - 1) |-> IF m < k THEN s[m] ELSE s[m + 1]]
  <2>1. u = r
    BY DEF Order!RemovedAt
  <2>2. \A m \in 1..(N - 1) : r[m] \in Task
    BY <1>1
  <2>3. r \in [1..(N - 1) -> Task]
    BY <2>2
  <2>4. r \in Seq(Task) /\ Len(r) = N - 1
    BY <1>1, <2>3
  <2> QED
    BY <2>1, <2>4
<1>5. /\ \A m \in 1..N : Next[s[m]] = IF m = N THEN NULL ELSE s[m + 1]
      /\ \A m \in 1..N : Prev[s[m]] = IF m = 1 THEN NULL ELSE s[m - 1]
      /\ TaskList = s[1] /\ LastTask = s[N]
  BY <1>1 DEF Holding, Linked
<1>6. /\ Next[t] = (IF k = N THEN NULL ELSE s[k + 1]) /\ Prev[t] = (IF k = 1 THEN NULL ELSE s[k - 1])
      /\ Next[t] = NULL <=> k = N
      /\ Prev[t] = NULL <=> k = 1
  <2>1. (k # N => k + 1 \in 1..N) /\ (k # 1 => k - 1 \in 1..N)
    BY <1>1
  <2> QED
    BY <1>1, <1>2, <1>5, <2>1
<1>7. /\ Next' = IF k # 1 THEN [Next EXCEPT ![s[k - 1]] = Next[t]] ELSE Next
      /\ Prev' = IF k # N THEN [Prev EXCEPT ![s[k + 1]] = Prev[t]] ELSE Prev
      /\ TaskList' = IF k # 1 THEN TaskList ELSE Next[t]
      /\ LastTask' = IF k # N THEN LastTask ELSE Prev[t]
      /\ live' = live \ {t}
  BY <1>6 DEF RemoveTask, NextWithout, PrevWithout, LastWithout
<1>8. PointersTyped'
  <2>1. Next[t] \in Task \cup {NULL} /\ Prev[t] \in Task \cup {NULL}
    BY <1>1 DEF PointersTyped
  <2> QED
    BY <1>7, <2>1 DEF PointersTyped
<1> HIDE DEF u
<1>9. OneToOne(u)
  <2> SUFFICES ASSUME NEW x \in 1..(N - 1), NEW y \in 1..(N - 1), u[x] = u[y] PROVE x = y
    BY <1>4 DEF OneToOne
  <2>1. x \in 1..N /\ y \in 1..N /\ x + 1 \in 1..N /\ y + 1 \in 1..N
    BY <1>1
  <2>2. PICK i, j : i = (IF x < k THEN x ELSE x + 1) /\ j = (IF y < k THEN y ELSE y + 1)
    OBVIOUS
  <2>3. i \in 1..N /\ j \in 1..N /\ s[i] = s[j]
    BY <1>4, <2>1, <2>2
  <2>4. i = j
    BY <1>3, <2>3
  <2> QED
    BY <1>1, <2>1, <2>2, <2>4
<1>10. live' = {u[m] : m \in 1..(N - 1)}
  <2>1. live = {s[m] : m \in 1..N}
    BY DEF Holding
  <2>2. ASSUME NEW x \in live, x # t PROVE \E m \in 1..(N - 1) : u[m] = x
    <3>1. PICK m \in 1..N : s[m] = x /\ m # k
      BY <2>1, <2>2
    <3>2. CASE m < k
      <4>1. m \in 1..(N - 1)
        BY <1>1, <3>2
      <4> QED
        BY <1>4, <3>1, <3>2, <4>1
    <3>3. CASE m > k
      <4>1. PICK j \in 1..(N - 1) : j = m - 1
        BY <1>1, <3>3
      <4>2. ~(j < k) /\ j + 1 = m
        BY <1>1, <3>3, <4>1
      <4> QED
        BY <1>4, <3>1, <4>1, <4>2
    <3> QED
      BY <1>1, <3>1, <3>2, <3>3
  <2>3. ASSUME NEW m \in 1..(N - 1) PROVE u[m] \in live /\ u[m] # t
    <3>1. m \in 1..N /\ m + 1 \in 1..N
      BY <1>1
    <3>2. PICK j \in 1..N : u[m] = s[j] /\ j # k
      BY <1>1, <1>4, <3>1
    <3> QED
      BY <1>1, <1>3, <2>1, <3>2
  <2> QED
    BY <1>7, <2>2, <2>3
<1>11. \A m \in 1..N : Next'[s[m]] = IF m = k - 1 THEN Next[t] ELSE Next[s[m]]
  <2>1. k # 1 => k - 1 \in 1..N
    BY <1>1
  <2>2. \A m \in 1..N : s[m] = s[k - 1] /\ k # 1 => m = k - 1
    BY <1>3, <2>1
  <2>3. k = 1 => \A m \in 1..N : m # k - 1
    BY <1>1
  <2> QED
    BY <1>1, <1>7, <2>1, <2>2, <2>3 DEF PointersTyped
<1>12. \A m \in 1..N : Prev'[s[m]] = IF m = k + 1 THEN Prev[t] ELSE Prev[s[m]]
  <2>1. k # N => k + 1 \in 1..N
    BY <1>1
  <2>2. \A m \in 1..N : s[m] = s[k + 1] /\ k # N => m = k + 1
    BY <1>3, <2>1
  <2>3. k = N => \A m \in 1..N : m # k + 1
    BY <1>1
  <2> QED
    BY <1>1, <1>7, <2>1, <2>2, <2>3 DEF PointersTyped
<1>13. ASSUME NEW m \in 1..(N - 1) PROVE Next'[u[m]] = IF m = N - 1 THEN NULL ELSE u[m + 1]
  <2>0. m \in 1..N /\ (m # N - 1 => m + 1 \in 1..(N - 1)) /\ m + 1 \in 1..N
    BY <1>1
  <2>1. CASE m < k - 1
    <3>1. u[m] = s[m] /\ m # N /\ m # N - 1 /\ u[m + 1] = s[m + 1]
      BY <1>1, <1>4, <2>0, <2>1
    <3> QED
      BY <1>1, <1>5, <1>11, <2>0, <2>1, <3>1
  <2>2. CASE m = k - 1
    <3>1. u[m] = s[m] /\ Next'[s[m]] = Next[t]
      BY <1>1, <1>4, <1>11, <2>0, <2>2
    <3>2. m # N - 1 => u[m + 1] = s[k + 1]
      BY <1>1, <1>4, <2>0, <2>2
    <3> QED
      BY <1>1, <1>6, <2>2, <3>1, <3>2
  <2>3. CASE m >= k
    <3>1. PICK j \in 1..N : j = m + 1
      BY <2>0
    <3>2. u[m] = s[j] /\ j # k - 1 /\ (j = N <=> m = N - 1)
      BY <1>1, <1>4, <2>3, <3>1
    <3>3. Next'[u[m]] = IF j = N THEN NULL ELSE s[j + 1]
      BY <1>5, <1>11, <3>2
    <3>4. m # N - 1 => u[m + 1] = s[j + 1]
      <4> SUFFICES ASSUME m # N - 1 PROVE u[j] = s[j + 1]
        BY <3>1
      <4>1. j \in 1..(N - 1) /\ ~(j < k)
        BY <1>1, <2>0, <2>3, <3>1
      <4> QED
        BY <1>4, <4>1
    <3> QED
      BY <3>2, <3>3, <3>4
  <2> QED
    BY <1>1, <2>1, <2>2, <2>3
<1>14. ASSUME NEW m \in 1..(N - 1) PROVE Prev'[u[m]] = IF m = 1 THEN NULL ELSE u[m - 1]
  <2>0. m \in 1..N /\ (m # 1 => m - 1 \in 1..(N - 1)) /\ m + 1 \in 1..N
    BY <1>1
  <2>1. CASE m < k
    <3>1. u[m] = s[m] /\ m # k + 1 /\ (m # 1 => u[m - 1] = s[m - 1])
      BY <1>1, <1>4, <2>0, <2>1
    <3> QED
      BY <1>5, <1>12, <2>0, <3>1
  <2>2. CASE m = k
    <3>1. u[m] = s[k + 1] /\ Prev'[s[k + 1]] = Prev[t]
      BY <1>1, <1>4, <1>12, <2>0, <2>2
    <3>2. m # 1 => u[m - 1] = s[k - 1]
      BY <1>1, <1>4, <2>0, <2>2
    <3> QED
      BY <1>6, <2>2, <3>1, <3>2
  <2>3. CASE m > k
    <3>1. PICK j \in 1..N : j = m + 1
      BY <2>0
    <3>2. u[m] = s[j] /\ j # k + 1 /\ j # 1 /\ m # 1
      BY <1>1, <1>4, <2>3, <3>1
    <3>3. Prev'[u[m]] = s[j - 1]
      BY <1>5, <1>12, <3>2
    <3>4. u[m - 1] = s[m]
      <4>1. PICK i \in 1..(N - 1) : i = m - 1
        BY <2>0, <3>2
      <4>2. ~(i < k) /\ i + 1 = m
        BY <1>1, <2>3, <4>1
      <4> QED
        BY <1>4, <4>1, <4>2
    <3>5. j - 1 = m
      BY <2>0, <3>1
    <3> QED
      BY <3>2, <3>3, <3>4, <3>5
  <2> QED
    BY <1>1, <2>1, <2>2, <2>3
<1>15. CASE N = 1
  <2>1. u = << >> /\ k = 1
    BY <1>1, <1>4, <1>15
  <2>2. TaskList' = NULL /\ LastTask' = NULL
    BY <1>6, <1>7, <1>15, <2>1
  <2>3. Linked(u, TaskList', LastTask', Next', Prev')
    BY <2>1, <2>2 DEF Linked
  <2>4. Holding(u)'
    BY <1>4, <1>9, <1>10, <2>3 DEF Holding, OneToOne, Linked, u
  <2> QED
    BY <1>8, <2>4 DEF u
<1>16. CASE N # 1
  <2>1. u # << >> /\ 1 \in 1..(N - 1) /\ N - 1 \in 1..(N - 1)
    BY <1>1, <1>4, <1>16
  <2>2. TaskList' = u[1]
    <3>1. CASE k = 1
      BY <1>1, <1>4, <1>6, <1>7, <1>16, <2>1, <3>1
    <3>2. CASE k # 1
      <4>1. 1 < k
        BY <1>1, <3>2
      <4>2. u[1] = s[1]
        BY <1>4, <2>1, <4>1
      <4> QED
        BY <1>5, <1>7, <3>2, <4>2
    <3> QED
      BY <3>1, <3>2
  <2>3. LastTask' = u[N - 1]
    <3>1. CASE k = N
      BY <1>1, <1>4, <1>6, <1>7, <1>16, <2>1, <3>1
    <3>2. CASE k # N
      <4>1. PICK j \in 1..(N - 1) : j = N - 1
        BY <2>1
      <4>2. ~(j < k) /\ j + 1 = N
        BY <1>1, <3>2, <4>1
      <4>3. u[j] = s[N]
        BY <1>4, <4>2
      <4> QED
        BY <1>5, <1>7, <3>2, <4>1, <4>3
    <3> QED
      BY <3>1, <3>2
  <2>4. Linked(u, TaskList', LastTask', Next', Prev')
    BY <1>4, <1>13, <1>14, <2>1, <2>2, <2>3 DEF Linked
  <2>5. Holding(u)'
    BY <1>4, <1>9, <1>10, <2>4 DEF Holding, OneToOne, Linked, u
  <2> QED
    BY <1>8, <2>5 DEF u
<1> QED
  BY <1>15, <1>16

\* Nothing but the two operations moves a pointer.
LEMMA OthersHold ==
  ASSUME PointersTyped, NEW s, Holding(s), UNCHANGED <<TaskList, LastTask, Next, Prev, live>>
  PROVE  PointersTyped' /\ Holding(s)'
BY DEF PointersTyped, Holding, OneToOne, Linked
-----------------------------------------------------------------------------
\* f is a walk along Next, of m tasks from TaskList on.
Follows(f, m) ==
  /\ f \in [1..m -> Task \cup {NULL}]
  /\ \A k \in 1..m : f[k] = IF k = 1 THEN TaskList
                            ELSE IF f[k - 1] = NULL THEN NULL ELSE Next[f[k - 1]]

\* In a list that holds s there is such a walk of every length: s, and NULL behind it.
LEMMA WalkHolds ==
  ASSUME NEW s, Holding(s), NEW m \in Nat
  PROVE  Follows([k \in 1..m |-> IF k <= Len(s) THEN s[k] ELSE NULL], m)
<1> DEFINE N == Len(s)
           f == [k \in 1..m |-> IF k <= N THEN s[k] ELSE NULL]
<1>1. N \in Nat /\ \A k \in 1..N : s[k] \in Task
  BY DEF Holding
<1>2. \A k \in 1..m : f[k] = IF k <= N THEN s[k] ELSE NULL
  OBVIOUS
<1>3. f \in [1..m -> Task \cup {NULL}]
  BY <1>1
<1> HIDE DEF f
<1>4. ASSUME NEW k \in 1..m
      PROVE  f[k] = IF k = 1 THEN TaskList ELSE IF f[k - 1] = NULL THEN NULL ELSE Next[f[k - 1]]
  <2>1. CASE k = 1
    <3>1. s = << >> <=> N = 0
      BY DEF Holding
    <3> QED
      BY <1>1, <1>2, <2>1, <3>1 DEF Holding, Linked
  <2>2. CASE k # 1
    <3>1. PICK j \in 1..m : j = k - 1
      BY <2>2
    <3>2. j + 1 = k /\ k \in 1..m
      BY <3>1
    <3>3. CASE j > N
      <4>1. ~(k <= N) /\ ~(j <= N)
        BY <1>1, <3>2, <3>3
      <4>2. f[k] = NULL /\ f[j] = NULL
        BY <1>2, <3>2, <4>1
      <4> QED
        BY <2>2, <3>1, <4>2
    <3>4. CASE j <= N
      <4>1. j \in 1..N /\ f[j] = s[j] /\ s[j] # NULL
        BY <1>1, <1>2, <3>4, TaskAssumption
      <4>2. Next[s[j]] = IF j = N THEN NULL ELSE s[j + 1]
        BY <4>1 DEF Holding, Linked
      <4>3. f[k] = IF j = N THEN NULL ELSE s[j + 1]
        <5>1. k <= N <=> j # N
          BY <1>1, <3>2, <3>4
        <5> QED
          BY <1>2, <3>2, <5>1
      <4> QED
        BY <2>2, <3>1, <4>1, <4>2, <4>3
    <3> QED
      BY <1>1, <3>3, <3>4
  <2> QED
    BY <2>1, <2>2
<1>5. Follows(f, m)
  BY <1>3, <1>4 DEF Follows
<1> QED
  BY <1>5 DEF f

\* There is only one: it holds s, and NULL behind it.
LEMMA WalkIs ==
  ASSUME NEW s, Holding(s), NEW m \in Nat, NEW f, NEW g, Follows(f, m),
         DOMAIN g = 1..m,
         \A k \in 1..m : g[k] = IF k = 1 THEN TaskList
                                ELSE IF g[k - 1] = NULL THEN NULL ELSE Next[g[k - 1]]
  PROVE  \A k \in 1..m : g[k] = f[k]
<1> DEFINE T == {x \in Nat : x + 1 \in 1..m => g[x + 1] = f[x + 1]}
<1>1. 0 \in T
  BY DEF Follows
<1>2. ASSUME NEW x \in Nat, x \in T PROVE x + 1 \in T
  <2> SUFFICES ASSUME (x + 1) + 1 \in 1..m PROVE g[(x + 1) + 1] = f[(x + 1) + 1]
    OBVIOUS
  <2>1. PICK j \in 1..m : j = x + 1
    OBVIOUS
  <2>2. PICK k \in 1..m : k = (x + 1) + 1
    OBVIOUS
  <2>3. k # 1 /\ k - 1 = j
    BY <2>1, <2>2
  <2>4. g[j] = f[j]
    BY <1>2, <2>1
  <2>5. g[k] = f[k]
    BY <2>3, <2>4 DEF Follows
  <2> QED
    BY <2>2, <2>5
<1> HIDE DEF T
<1>3. Nat \subseteq T
  BY <1>1, <1>2, SetInduction
<1> SUFFICES ASSUME NEW k \in 1..m PROVE g[k] = f[k]
  OBVIOUS
<1>4. PICK x \in Nat : x + 1 = k
  <2>1. k - 1 \in Nat /\ (k - 1) + 1 = k
    OBVIOUS
  <2> QED
    BY <2>1
<1>5. x \in T
  BY <1>3
<1> QED
  BY <1>4, <1>5 DEF T

\* The tasks that are met along Next from TaskList on are the sequence the pointers hold.
LEMMA ChainHeld ==
  ASSUME NEW s, Holding(s)
  PROVE  Chain = s
<1> DEFINE C == Cardinality(Task)
           N == Len(s)
           E(g) == [i \in 1..C |-> IF i = 1 THEN TaskList
                                   ELSE IF g[i - 1] = NULL THEN NULL ELSE Next[g[i - 1]]]
           f == [k \in 1..C |-> IF k <= N THEN s[k] ELSE NULL]
<1>1. C \in Nat
  BY TaskAssumption, FS_CardinalityType
<1>2. N \in Nat /\ s \in [1..N -> Task] /\ \A k \in 1..N : s[k] \in Task
  BY DEF Holding
<1>3. N <= C
  <2>1. s \in Injection(1..N, Task)
    BY <1>2 DEF Holding, OneToOne, Injection, IsInjective
  <2>2. Cardinality(1..N) <= C
    BY <2>1, TaskAssumption, FS_Injection
  <2>3. 1 \in Int /\ N \in Int
    BY <1>2
  <2>4. Cardinality(1..N) = IF 1 > N THEN 0 ELSE N - 1 + 1
    BY <2>3, FS_Interval
  <2> QED
    BY <1>2, <2>2, <2>4
<1>4. At = CHOOSE g : g = E(g)
  BY DEF At
<1>5. At = E(At)
  <2>1. Follows(f, C)
    BY <1>1, WalkHolds
  <2>2. f = E(f)
    <3> HIDE DEF f
    <3> QED
      BY <2>1 DEF Follows
  <2> QED
    BY <1>4, <2>2
<1>6. \A k \in 1..C : At[k] = IF k <= N THEN s[k] ELSE NULL
  <2>1. DOMAIN At = 1..C
    BY <1>5
  <2>2. \A k \in 1..C : At[k] = IF k = 1 THEN TaskList
                                ELSE IF At[k - 1] = NULL THEN NULL ELSE Next[At[k - 1]]
    BY <1>5
  <2> HIDE DEF E, C
  <2>3. Follows([k \in 1..C |-> IF k <= N THEN s[k] ELSE NULL], C)
    BY <1>1, WalkHolds
  <2>4. \A k \in 1..C : At[k] = f[k]
    BY <1>1, <2>1, <2>2, <2>3, WalkIs
  <2> QED
    BY <2>4
<1>7. {j \in 1..C : At[j] # NULL} = 1..N
  <2>1. \A j \in 1..N : j \in 1..C /\ j <= N /\ s[j] # NULL
    BY <1>1, <1>2, <1>3, TaskAssumption
  <2>2. \A j \in 1..C : j <= N => j \in 1..N
    BY <1>2
  <2> HIDE DEF C, N
  <2> QED
    BY <1>6, <2>1, <2>2
<1>8. Cardinality({j \in 1..C : At[j] # NULL}) = N
  <2>1. 1 \in Int /\ N \in Int
    BY <1>2
  <2>2. Cardinality(1..N) = IF 1 > N THEN 0 ELSE N - 1 + 1
    BY <2>1, FS_Interval
  <2> QED
    <3> HIDE DEF N
    <3>1. Cardinality(1..N) = N
      BY <1>2, <2>2
    <3> QED
      BY <1>7, <3>1
<1>9. Chain = [i \in 1..N |-> At[i]]
  BY <1>8 DEF Chain
<1>10. \A i \in 1..N : At[i] = s[i]
  BY <1>1, <1>2, <1>3, <1>6
<1>11. s = [i \in 1..N |-> s[i]]
  BY <1>2
<1> QED
  BY <1>9, <1>10, <1>11

LEMMA ChainIs == \A q : Holding(q) => Chain = q
  BY ChainHeld

\* Appending is inserting behind the last one.
LEMMA AppendInserts ==
  ASSUME NEW s \in Seq(Task), NEW i \in Task
  PROVE  Append(s, i) = Order!InsertedAt(s, Len(s) + 1, i)
<1> DEFINE t == Append(s, i)
           u == [m \in 1..(Len(s) + 1) |-> IF m < Len(s) + 1 THEN s[m]
                                           ELSE IF m = Len(s) + 1 THEN i ELSE s[m - 1]]
<1>1. Len(s) \in Nat /\ t = [m \in 1..(Len(s) + 1) |-> t[m]]
  <2>1. Len(s) \in Nat /\ t \in Seq(Task) /\ Len(t) = Len(s) + 1
    OBVIOUS
  <2> HIDE DEF t
  <2>2. t = [m \in 1..Len(t) |-> t[m]]
    BY <2>1
  <2> QED
    BY <2>1, <2>2
<1>2. \A m \in 1..(Len(s) + 1) : t[m] = u[m]
  <2>1. /\ \A m \in 1..Len(s) : t[m] = s[m] /\ u[m] = s[m]
        /\ t[Len(s) + 1] = i /\ u[Len(s) + 1] = i
    BY <1>1
  <2>2. \A m \in 1..(Len(s) + 1) : m \in 1..Len(s) \/ m = Len(s) + 1
    BY <1>1
  <2> HIDE DEF t, u
  <2> QED
    BY <2>1, <2>2
<1>3. t = u
  BY <1>1, <1>2
<1> QED
  BY <1>3 DEF Order!InsertedAt

\* What a step does to the sequence is a step of TaskOrder.
LEMMA OrderStep ==
  OrderInv /\ [Step]_vars => OrderInv' /\ [Order!TaskNext]_Chain
<1> SUFFICES ASSUME OrderInv, [Step]_vars
             PROVE  OrderInv' /\ (Order!TaskNext \/ Chain' = Chain)
  OBVIOUS
<1>1. PICK s : Holding(s)
  BY DEF OrderInv
<1>2. PointersTyped /\ Chain = s /\ s \in Seq(Task)
  BY <1>1, ChainHeld DEF OrderInv, Holding
<1>3. ASSUME NEW u, Holding(u)' PROVE Chain' = u
  <2>1. (\A q : Holding(q) => Chain = q)'
    BY ChainIs, PTL
  <2> QED
    BY <1>3, <2>1
<1>4. ASSUME NEW t \in Task, InstallTask(t) PROVE OrderInv' /\ Order!TaskNext
  <2>1. PointersTyped' /\ Holding(Append(s, t))'
    BY <1>1, <1>2, <1>4, InstallHolds
  <2>2. Chain' = Append(s, t)
    BY <1>3, <2>1
  <2>3. t \notin Order!Holds(s)
    BY <1>1, <1>4 DEF InstallTask, Holding, Order!Holds
  <2>4. Append(s, t) = Order!InsertedAt(s, Len(s) + 1, t)
    BY <1>2, AppendInserts
  <2>5. Order!Insert(Len(Chain) + 1, t)
    BY <1>2, <2>2, <2>3, <2>4 DEF Order!Insert
  <2> QED
    BY <2>1, <2>5 DEF OrderInv, Order!TaskNext
<1>5. ASSUME NEW t \in Task, RemoveTask(t) PROVE OrderInv' /\ Order!TaskNext
  <2>1. PICK k \in 1..Len(s) : s[k] = t
    BY <1>1, <1>5 DEF RemoveTask, Holding
  <2>2. PointersTyped' /\ Holding(Order!RemovedAt(s, k))'
    BY <1>1, <1>2, <1>5, <2>1, RemoveHolds
  <2>3. Chain' = Order!RemovedAt(s, k)
    BY <1>3, <2>2
  <2>4. Order!Remove(k) /\ k \in 1..Len(Chain)
    BY <1>2, <2>1, <2>3 DEF Order!Remove
  <2> QED
    BY <2>2, <2>4 DEF OrderInv, Order!TaskNext
<1>6. CASE UNCHANGED <<TaskList, LastTask, Next, Prev, live>>
  <2>1. PointersTyped' /\ Holding(s)'
    BY <1>1, <1>2, <1>6, OthersHold
  <2>2. Chain' = s
    BY <1>3, <2>1
  <2> QED
    BY <1>2, <2>1, <2>2 DEF OrderInv
<1> QED
  BY <1>4, <1>5, <1>6 DEF Step, PollTasks, TaskReturns, vars

(***************************************************************************)
(* InstallTask and RemoveTask keep the tasks in the order of their         *)
(* installation, whatever number there is, and even where a task is        *)
(* removed while it runs.                                                  *)
(***************************************************************************)
THEOREM TasksKeepOrder == Spec => OrderSpec
<1>1. Init => Order!Init
  <2> SUFFICES ASSUME Init PROVE Chain = << >>
    BY DEF Order!Init
  <2>1. Holding(<< >>)
    BY DEF Init, Holding, OneToOne, Linked
  <2> QED
    BY <2>1, ChainHeld
<1> QED
  BY <1>1, OrderInit, OrderStep, PTL DEF Spec, OrderSpec, Order!TaskSpec
-----------------------------------------------------------------------------
(***************************************************************************)
(* The timers.                                                             *)
(*                                                                         *)
(* That TimersPoll goes on with timers of the list, calls none of an       *)
(* unloaded program, and ends a walk only when it has called every timer   *)
(* that was due at its beginning: for any number of timers and programs    *)
(* and polls within polls to any depth, as long as no timer is killed that *)
(* a walk has read ahead to and no program forgets a timer.                *)
(*                                                                         *)
(* A walk begins at Last and goes round to it, so that what it still owes  *)
(* lies from its cursor on, before Last; only at its first timer it owes   *)
(* anything.                                                               *)
(***************************************************************************)
Frame == [a : Timer, n : Timer \cup {NULL}, busy : BOOLEAN, owed : SUBSET Timer]

\* Types.
TimersTyped ==
  /\ list \in Seq(Timer) /\ IsInjective(list)
  /\ due \subseteq ToSet(list)
  /\ owner \in [Timer -> Programs \cup {System}] /\ loaded \subseteq Programs
  /\ tim \in [Programs -> Timer \cup {NULL}]
  /\ stack \in Seq(Frame)
  /\ kills \in 0..MaxKills

\* A program's timers are in its variable, and the tooltips' are nobody's.
Owned ==
  /\ \A p \in Programs : tim[p] # NULL => tim[p] \in ToSet(list) /\ owner[tim[p]] = p
  /\ \A t \in ToSet(list) : owner[t] # System => owner[t] \in loaded /\ tim[owner[t]] = t
  /\ \A t \in Waits : t \in ToSet(list) /\ owner[t] = System

\* The timer a walk goes on with.
Cursor(f) == IF f.busy THEN f.n ELSE f.a

\* What is owed from the cursor at t on lies from there on, before Last.
Ahead(l, t, owed) ==
  \A j, k \in DOMAIN l : l[j] = t /\ l[k] \in owed => j <= k /\ k < Len(l)

FrameOK(f) ==
  /\ Cursor(f) \in ToSet(list)
  /\ f.owed \subseteq due
  /\ Ahead(list, Cursor(f), f.owed) \/ (~f.busy /\ f.a = Last(list))

TimersWalks ==
  \A i \in DOMAIN stack : FrameOK(stack[i]) /\ (i < Len(stack) => stack[i].busy)

TimersInv == TimersTyped /\ Owned /\ TimersWalks
-----------------------------------------------------------------------------
(***************************************************************************)
(* Sequences.                                                              *)
(***************************************************************************)
LEMMA AppendedIs ==
  ASSUME NEW S, NEW l \in Seq(S), NEW t \in S
  PROVE  /\ Append(l, t) \in Seq(S) /\ Len(Append(l, t)) = Len(l) + 1
         /\ DOMAIN Append(l, t) = 1..(Len(l) + 1)
         /\ \A k \in 1..Len(l) : Append(l, t)[k] = l[k]
         /\ Append(l, t)[Len(l) + 1] = t
         /\ ToSet(Append(l, t)) = ToSet(l) \cup {t}
         /\ Last(Append(l, t)) = t
<1>1. /\ Append(l, t) \in Seq(S) /\ Len(Append(l, t)) = Len(l) + 1
      /\ DOMAIN Append(l, t) = 1..(Len(l) + 1)
      /\ \A k \in 1..Len(l) : Append(l, t)[k] = l[k]
      /\ Append(l, t)[Len(l) + 1] = t
  OBVIOUS
<1>2. ToSet(Append(l, t)) = ToSet(l) \cup {t}
  <2>1. \A x \in ToSet(Append(l, t)) : x \in ToSet(l) \cup {t}
    BY <1>1 DEF ToSet
  <2>2. \A x \in ToSet(l) \cup {t} : x \in ToSet(Append(l, t))
    BY <1>1 DEF ToSet
  <2> QED BY <2>1, <2>2
<1> QED BY <1>1, <1>2 DEF Last

\* The item at k leaves: those before it keep their places, those behind it move up.
LEMMA RemovedIs ==
  ASSUME NEW S, NEW l \in Seq(S), NEW k \in 1..Len(l)
  PROVE  /\ RemoveAt(l, k) \in Seq(S) /\ Len(RemoveAt(l, k)) = Len(l) - 1
         /\ DOMAIN RemoveAt(l, k) = 1..(Len(l) - 1)
         /\ \A j \in 1..(Len(l) - 1) : RemoveAt(l, k)[j] = IF j < k THEN l[j] ELSE l[j + 1]
<1> DEFINE p == SubSeq(l, 1, k - 1)
           q == SubSeq(l, k + 1, Len(l))
<1>1. p \in Seq(S) /\ Len(p) = k - 1 /\ \A j \in 1..(k - 1) : p[j] = l[j]
  BY SubSeqProperties
<1>2. q \in Seq(S) /\ Len(q) = Len(l) - k /\ \A j \in 1..(Len(l) - k) : q[j] = l[k + j]
  BY SubSeqProperties
<1> HIDE DEF p, q
<1>3. p \o q \in Seq(S) /\ Len(p \o q) = Len(l) - 1 /\ DOMAIN (p \o q) = 1..(Len(l) - 1)
  BY <1>1, <1>2
<1>4. \A j \in 1..(Len(l) - 1) : (p \o q)[j] = IF j < k THEN l[j] ELSE l[j + 1]
  <2> TAKE j \in 1..(Len(l) - 1)
  <2>1. CASE j < k
    <3>1. (p \o q)[j] = p[j]
      BY <2>1, <1>1, <1>2
    <3> QED BY <3>1, <2>1, <1>1
  <2>2. CASE ~(j < k)
    <3>1. j - (k - 1) \in 1..(Len(l) - k) /\ k + (j - (k - 1)) = j + 1
      BY <2>2
    <3>2. (p \o q)[j] = q[j - (k - 1)]
      BY <2>2, <1>1, <1>2
    <3> QED BY <3>1, <3>2, <2>2, <1>2
  <2> QED BY <2>1, <2>2
<1>5. RemoveAt(l, k) = p \o q
  BY Zenon DEF RemoveAt, p, q
<1> QED BY <1>3, <1>4, <1>5

LEMMA RemovedSet ==
  ASSUME NEW S, NEW l \in Seq(S), IsInjective(l), NEW k \in 1..Len(l)
  PROVE  IsInjective(RemoveAt(l, k)) /\ ToSet(RemoveAt(l, k)) = ToSet(l) \ {l[k]}
<1> DEFINE r == RemoveAt(l, k)
<1>1. /\ r \in Seq(S) /\ Len(r) = Len(l) - 1 /\ DOMAIN r = 1..(Len(l) - 1)
      /\ \A j \in 1..(Len(l) - 1) : r[j] = IF j < k THEN l[j] ELSE l[j + 1]
  BY RemovedIs
<1>2. \A i, j \in 1..Len(l) : l[i] = l[j] => i = j
  BY DEF IsInjective
<1> HIDE DEF r
<1>3. \A i, j \in 1..(Len(l) - 1) : r[i] = r[j] => i = j
  BY <1>1, <1>2
<1>4. \A x \in ToSet(r) : x \in ToSet(l) \ {l[k]}
  BY <1>1, <1>2 DEF ToSet
<1>5. ASSUME NEW x \in ToSet(l) \ {l[k]} PROVE x \in ToSet(r)
  <2>1. PICK j \in 1..Len(l) : x = l[j] /\ j # k
    BY <1>5 DEF ToSet
  <2>2. CASE j < k
    BY <2>1, <2>2, <1>1 DEF ToSet
  <2>3. CASE j > k
    <3>1. j - 1 \in 1..(Len(l) - 1) /\ r[j - 1] = l[j]
      BY <2>1, <2>3, <1>1
    <3> QED BY <3>1, <2>1, <1>1 DEF ToSet
  <2> QED BY <2>1, <2>2, <2>3
<1>6. IsInjective(r) /\ ToSet(r) = ToSet(l) \ {l[k]}
  BY <1>1, <1>3, <1>4, <1>5 DEF IsInjective
<1> QED BY <1>6 DEF r

\* A sequence of a finite set has all its elements.
LEMMA SeqOfSet ==
  ASSUME NEW S, IsFiniteSet(S)
  PROVE  SetToSeq(S) \in Seq(S) /\ IsInjective(SetToSeq(S)) /\ ToSet(SetToSeq(S)) = S
<1> DEFINE n == Cardinality(S)
           f == SetToSeq(S)
<1>1. n \in Nat /\ ExistsBijection(1..n, S)
  BY FS_CardinalityType
<1>2. \E g \in [1..n -> S] : IsInjective(g)
  BY <1>1 DEF ExistsBijection, Bijection, Injection, IsInjective
<1>3. f \in [1..n -> S] /\ IsInjective(f)
  BY <1>2 DEF SetToSeq
<1> HIDE DEF f
<1>4. f \in Seq(S) /\ DOMAIN f = 1..n
  BY <1>1, <1>3
<1>5. f \in Bijection(1..n, ToSet(f))
  BY <1>3, <1>4 DEF Bijection, Injection, Surjection, ToSet, IsInjective
<1>6. Cardinality(ToSet(f)) = n
  BY <1>1, <1>5, FS_CountingElements DEF ExistsBijection
<1>7. ToSet(f) \subseteq S
  BY <1>3, <1>4 DEF ToSet
<1>8. ToSet(f) = S
  BY <1>6, <1>7, FS_Subset
<1> QED BY <1>3, <1>4, <1>8 DEF f
-----------------------------------------------------------------------------
(***************************************************************************)
(* The invariant, operation by operation.                                  *)
(***************************************************************************)
LEMMA TimersInitInv == TimersInit => TimersInv
<1> SUFFICES ASSUME TimersInit PROVE TimersInv
  OBVIOUS
<1>1. list \in Seq(Waits) /\ IsInjective(list) /\ ToSet(list) = Waits
  BY TimersAssumption, SeqOfSet DEF TimersInit
<1>2. list \in Seq(Timer)
  BY <1>1, TimersAssumption
<1>3. TimersTyped
  BY <1>1, <1>2, KillsAssumption DEF TimersInit, TimersTyped
<1>4. Owned
  BY <1>1, TimersAssumption DEF TimersInit, Owned
<1>5. TimersWalks
  BY DEF TimersInit, TimersWalks
<1> QED BY <1>3, <1>4, <1>5 DEF TimersInv

\* The list is never empty.
LEMMA SomeTimer ==
  ASSUME TimersInv
  PROVE  /\ list \in Seq(Timer) /\ Len(list) \in Nat \ {0} /\ DOMAIN list = 1..Len(list)
         /\ \A j, k \in 1..Len(list) : list[j] = list[k] => j = k
         /\ Last(list) \in ToSet(list) /\ ToSet(list) \subseteq Timer
<1>1. list \in Seq(Timer) /\ Len(list) \in Nat /\ DOMAIN list = 1..Len(list) /\ IsInjective(list)
  BY DEF TimersInv, TimersTyped
<1>2. Len(list) # 0
  BY <1>1, TimersAssumption DEF TimersInv, Owned, ToSet
<1> QED BY <1>1, <1>2 DEF Last, ToSet, IsInjective

LEMMA OwedSet ==
  ASSUME NEW f \in Frame, NEW o \in SUBSET Timer
  PROVE  LET g == [f EXCEPT !.owed = o]
         IN g \in Frame /\ g.a = f.a /\ g.n = f.n /\ g.busy = f.busy /\ g.owed = o
BY DEF Frame

\* When the program's own code runs, every walk is in a callback.
LEMMA AllBusy ==
  ASSUME TimersInv, Free
  PROVE  \A i \in DOMAIN stack : stack[i].busy
<1> TAKE i \in DOMAIN stack
<1>1. stack \in Seq(Frame) /\ DOMAIN stack = 1..Len(stack) /\ Len(stack) \in Nat
  BY DEF TimersInv, TimersTyped
<1>2. CASE i < Len(stack)
  BY <1>2 DEF TimersInv, TimersWalks
<1>3. CASE i = Len(stack)
  BY <1>1, <1>3 DEF Free, Top, Last
<1> QED BY <1>1, <1>2, <1>3

\* What keeps a walk right when the list changes behind its cursor or time passes.
LEMMA WalksKept ==
  ASSUME TimersInv, \A i \in DOMAIN stack : stack[i].busy, UNCHANGED stack, due \subseteq due',
         \A i \in DOMAIN stack : /\ stack[i].n \in ToSet(list) => stack[i].n \in ToSet(list')
                                 /\ Ahead(list, stack[i].n, stack[i].owed) =>
                                      Ahead(list', stack[i].n, stack[i].owed)
  PROVE  TimersWalks'
<1> SUFFICES ASSUME NEW i \in DOMAIN stack PROVE FrameOK(stack[i])' /\ stack[i].busy
  BY DEF TimersWalks
<1>1. FrameOK(stack[i])
  BY DEF TimersInv, TimersWalks
<1> QED BY <1>1 DEF FrameOK, Cursor

LEMMA ElapseInv == TimersInv /\ Elapse => TimersInv'
<1> SUFFICES ASSUME TimersInv, Elapse PROVE TimersInv'
  OBVIOUS
<1>1. due \subseteq due' /\ due' \subseteq ToSet(list) /\ UNCHANGED <<list, owner, loaded, tim, stack, kills>>
  BY DEF Elapse, TimersInv, TimersTyped
<1>2. TimersTyped' /\ Owned'
  BY <1>1 DEF TimersInv, TimersTyped, Owned
<1>3. TimersWalks'
  BY <1>1 DEF TimersInv, TimersWalks, FrameOK
<1> QED BY <1>2, <1>3 DEF TimersInv

\* A new timer is behind what every walk still owes.
LEMMA NewTimerInv ==
  ASSUME TimersInv, NEW p \in Programs \cup {System}, NEW t \in Timer, NewTimer(p, t)
  PROVE  /\ list' \in Seq(Timer) /\ IsInjective(list') /\ ToSet(list') = ToSet(list) \cup {t}
         /\ t \notin ToSet(list) /\ due' \subseteq ToSet(list')
         /\ owner' = [owner EXCEPT ![t] = p] /\ UNCHANGED <<loaded, stack, kills>>
         /\ TimersWalks'
<1>1. /\ t \notin ToSet(list) /\ list' = Append(list, t) /\ Free
      /\ owner' = [owner EXCEPT ![t] = p] /\ UNCHANGED <<loaded, stack, kills>>
      /\ due' = IF t \in Always THEN due \cup {t} ELSE due
  BY DEF NewTimer
<1>2. list \in Seq(Timer) /\ IsInjective(list) /\ due \subseteq ToSet(list)
  BY DEF TimersInv, TimersTyped
<1>3. /\ list' \in Seq(Timer) /\ Len(list') = Len(list) + 1 /\ DOMAIN list' = 1..(Len(list) + 1)
      /\ \A k \in 1..Len(list) : list'[k] = list[k]
      /\ list'[Len(list) + 1] = t /\ ToSet(list') = ToSet(list) \cup {t}
  BY <1>1, <1>2, AppendedIs
<1>4. \A k \in 1..Len(list) : list[k] \in ToSet(list)
  BY <1>2 DEF ToSet
<1>5. IsInjective(list')
  BY <1>1, <1>2, <1>3, <1>4 DEF IsInjective
<1>6. ASSUME NEW i \in DOMAIN stack, stack[i].n \in ToSet(list),
             Ahead(list, stack[i].n, stack[i].owed)
      PROVE  Ahead(list', stack[i].n, stack[i].owed)
  <2>1. stack[i].owed \subseteq ToSet(list)
    BY <1>2 DEF TimersInv, TimersWalks, FrameOK
  <2> SUFFICES ASSUME NEW j \in 1..(Len(list) + 1), NEW k \in 1..(Len(list) + 1),
                      list'[j] = stack[i].n, list'[k] \in stack[i].owed
               PROVE  j <= k /\ k < Len(list) + 1
    BY <1>3 DEF Ahead
  <2>2. j \in 1..Len(list) /\ k \in 1..Len(list)
    BY <1>1, <1>2, <1>3, <1>6, <2>1
  <2>3. list[j] = stack[i].n /\ list[k] \in stack[i].owed
    BY <2>2, <1>3
  <2> QED BY <2>2, <2>3, <1>2, <1>6 DEF Ahead
<1>7. TimersWalks'
  <2>1. \A i \in DOMAIN stack : stack[i].busy
    BY <1>1, AllBusy
  <2>2. \A i \in DOMAIN stack : stack[i].n \in ToSet(list)
    BY <2>1 DEF TimersInv, TimersWalks, FrameOK, Cursor
  <2> QED BY <1>1, <1>3, <1>6, <2>1, <2>2, WalksKept
<1>8. due' \subseteq ToSet(list')
  BY <1>1, <1>2, <1>3
<1> QED BY <1>1, <1>3, <1>5, <1>7, <1>8

LEMMA WidgetMakesInv ==
  ASSUME TimersInv, NEW t \in Timer, WidgetMakesTimer(t)
  PROVE  TimersInv'
<1>1. /\ list' \in Seq(Timer) /\ IsInjective(list') /\ ToSet(list') = ToSet(list) \cup {t}
      /\ t \notin ToSet(list) /\ due' \subseteq ToSet(list')
      /\ owner' = [owner EXCEPT ![t] = System] /\ UNCHANGED <<loaded, stack, kills, tim>>
      /\ TimersWalks'
  BY NewTimerInv DEF WidgetMakesTimer
<1>2. TimersTyped'
  BY <1>1 DEF TimersInv, TimersTyped
<1>3. \A u \in ToSet(list) : u \in Timer /\ owner'[u] = owner[u]
  BY <1>1 DEF TimersInv, TimersTyped, ToSet
<1>4. owner'[t] = System
  BY <1>1 DEF TimersInv, TimersTyped
<1>5. Owned'
  BY <1>1, <1>3, <1>4, TimersAssumption DEF TimersInv, Owned
<1> QED BY <1>1, <1>2, <1>5 DEF TimersInv

LEMMA ProgramMakesInv ==
  ASSUME Overwrites = FALSE, TimersInv, NEW p \in Programs, NEW t \in Timer, ProgramMakesTimer(p, t)
  PROVE  TimersInv'
<1>1. /\ list' \in Seq(Timer) /\ IsInjective(list') /\ ToSet(list') = ToSet(list) \cup {t}
      /\ t \notin ToSet(list) /\ due' \subseteq ToSet(list')
      /\ owner' = [owner EXCEPT ![t] = p] /\ UNCHANGED <<loaded, stack, kills>>
      /\ TimersWalks'
  BY NewTimerInv DEF ProgramMakesTimer
<1>2. p \in loaded /\ tim[p] = NULL /\ tim' = [tim EXCEPT ![p] = t]
  BY DEF ProgramMakesTimer
<1>3. TimersTyped'
  BY <1>1, <1>2 DEF TimersInv, TimersTyped
<1>4. \A u \in ToSet(list) : u \in Timer /\ owner'[u] = owner[u]
  BY <1>1 DEF TimersInv, TimersTyped, ToSet
<1>5. owner'[t] = p /\ tim'[p] = t /\ \A q \in Programs \ {p} : tim'[q] = tim[q]
  BY <1>1, <1>2 DEF TimersInv, TimersTyped
<1>6. \A u \in ToSet(list) : owner[u] # System => owner[u] # p
  BY <1>2, <1>4, TimersAssumption DEF TimersInv, Owned
<1>7. Owned'
  <2>1. ASSUME NEW q \in Programs, tim'[q] # NULL
        PROVE  tim'[q] \in ToSet(list') /\ owner'[tim'[q]] = q
    <3>1. CASE q = p
      BY <3>1, <1>1, <1>5
    <3>2. CASE q # p
      <4>1. tim[q] \in ToSet(list) /\ owner[tim[q]] = q /\ tim'[q] = tim[q]
        BY <2>1, <3>2, <1>5 DEF TimersInv, Owned
      <4> QED BY <4>1, <1>1, <1>4
    <3> QED BY <3>1, <3>2
  <2>2. ASSUME NEW u \in ToSet(list'), owner'[u] # System
        PROVE  owner'[u] \in loaded' /\ tim'[owner'[u]] = u
    <3>1. CASE u = t
      BY <3>1, <1>1, <1>2, <1>5
    <3>2. CASE u # t
      <4>1. u \in ToSet(list) /\ owner'[u] = owner[u]
        BY <3>2, <1>1, <1>4
      <4>2. owner[u] \in loaded /\ tim[owner[u]] = u /\ owner[u] # p /\ owner[u] \in Programs
        BY <2>2, <4>1, <1>6 DEF TimersInv, Owned, TimersTyped
      <4> QED BY <4>1, <4>2, <1>1, <1>5
    <3> QED BY <3>1, <3>2
  <2>3. \A w \in Waits : w \in ToSet(list') /\ owner'[w] = System
    BY <1>1, <1>4 DEF TimersInv, Owned
  <2> QED BY <2>1, <2>2, <2>3 DEF Owned
<1> QED BY <1>1, <1>3, <1>7 DEF TimersInv

\* A timer that is killed was none a walk goes on with; the others keep their order.
LEMMA KillTimerInv ==
  ASSUME KillSaved = FALSE, TimersInv, Free, NEW t \in ToSet(list), KillTimer(t)
  PROVE  /\ list' \in Seq(Timer) /\ IsInjective(list') /\ ToSet(list') = ToSet(list) \ {t}
         /\ due' \subseteq ToSet(list')
         /\ stack' \in Seq(Frame)
         /\ TimersWalks'
<1>1. /\ list \in Seq(Timer) /\ IsInjective(list) /\ due \subseteq ToSet(list) /\ stack \in Seq(Frame)
      /\ DOMAIN list = 1..Len(list) /\ DOMAIN stack = 1..Len(stack) /\ Len(list) \in Nat
  BY DEF TimersInv, TimersTyped
<1> DEFINE at == Place(t)
           o(i) == IF t = Last(list) THEN {} ELSE stack[i].owed \ {t}
<1>2. at \in 1..Len(list) /\ list[at] = t
  BY <1>1 DEF Place, ToSet
<1>3. /\ list' = RemoveAt(list, at) /\ due' = due \ {t}
      /\ stack' = [i \in DOMAIN stack |-> [stack[i] EXCEPT !.owed = o(i)]]
      /\ \A i \in DOMAIN stack : stack[i].n # t
  BY DEF KillTimer, Killed, Relieved, Saved
<1> HIDE DEF at
<1>4. /\ list' \in Seq(Timer) /\ Len(list') = Len(list) - 1 /\ DOMAIN list' = 1..(Len(list) - 1)
      /\ \A j \in 1..(Len(list) - 1) : list'[j] = IF j < at THEN list[j] ELSE list[j + 1]
  BY <1>1, <1>2, <1>3, RemovedIs
<1>5. IsInjective(list') /\ ToSet(list') = ToSet(list) \ {t}
  BY <1>1, <1>2, <1>3, RemovedSet
<1>6. \A i \in DOMAIN stack : stack[i] \in Frame /\ o(i) \in SUBSET Timer
  <2> TAKE i \in DOMAIN stack
  <2>1. stack[i] \in Frame
    BY <1>1
  <2>2. stack[i].owed \subseteq Timer
    BY <2>1 DEF Frame
  <2> QED BY <2>1, <2>2
<1>7. \A i \in DOMAIN stack : /\ stack'[i] \in Frame /\ stack'[i].n = stack[i].n
                             /\ stack'[i].busy = stack[i].busy /\ stack'[i].owed = o(i)
  <2> TAKE i \in DOMAIN stack
  <2> DEFINE f == stack[i]
             x == o(i)
  <2>1. f \in Frame /\ x \in SUBSET Timer
    BY <1>6
  <2>2. stack'[i] = [f EXCEPT !.owed = x]
    BY <1>3
  <2> HIDE DEF f, x
  <2>3. stack'[i] \in Frame /\ stack'[i].n = f.n /\ stack'[i].busy = f.busy /\ stack'[i].owed = x
    BY <2>1, <2>2, OwedSet
  <2> QED BY <2>3 DEF f, x
<1>8. stack' \in Seq(Frame) /\ DOMAIN stack' = DOMAIN stack /\ Len(stack') = Len(stack)
  <2>1. stack' \in [1..Len(stack) -> Frame]
    BY <1>1, <1>3, <1>7
  <2> QED BY <1>1, <2>1
<1>9. ASSUME NEW i \in DOMAIN stack
      PROVE  FrameOK(stack[i])' /\ stack'[i].busy
  <2>1. stack[i].busy /\ stack[i].n \in ToSet(list) /\ stack[i].owed \subseteq due
    BY AllBusy DEF TimersInv, TimersWalks, FrameOK, Cursor
  <2>2. Ahead(list, stack[i].n, stack[i].owed)
    BY <2>1 DEF TimersInv, TimersWalks, FrameOK, Cursor
  <2>3. stack'[i].busy /\ stack'[i].n \in ToSet(list')
    BY <2>1, <1>3, <1>5, <1>7
  <2>4. stack'[i].owed \subseteq due'
    <3>1. o(i) \subseteq due \ {t}
      BY <2>1
    <3>2. stack'[i].owed = o(i) /\ due' = due \ {t}
      BY <1>3, <1>7
    <3> QED BY <3>1, <3>2, Zenon
  <2>5. Ahead(list', stack[i].n, o(i))
    <3>1. CASE t = Last(list)
      BY <3>1 DEF Ahead
    <3>2. CASE t # Last(list)
      <4>1. at < Len(list)
        BY <3>2, <1>1, <1>2 DEF Last
      <4> SUFFICES ASSUME NEW j \in 1..(Len(list) - 1), NEW k \in 1..(Len(list) - 1),
                          list'[j] = stack[i].n, list'[k] \in stack[i].owed
                   PROVE  j <= k /\ k < Len(list) - 1
        BY <1>4, <3>2 DEF Ahead
      <4> DEFINE was(m) == IF m < at THEN m ELSE m + 1
      <4>2. was(j) \in 1..Len(list) /\ was(k) \in 1..Len(list)
        BY <1>1, <1>2
      <4>3. list[was(j)] = stack[i].n /\ list[was(k)] \in stack[i].owed
        BY <1>4
      <4>4. was(j) <= was(k) /\ was(k) < Len(list)
        BY <4>2, <4>3, <2>2, <1>1 DEF Ahead
      <4> QED BY <4>4, <4>1, <1>1, <1>2
    <3> QED BY <3>1, <3>2
  <2> QED BY <2>3, <2>4, <2>5, <1>7 DEF FrameOK, Cursor
<1>10. TimersWalks'
  BY <1>8, <1>9 DEF TimersWalks
<1>11. due' \subseteq ToSet(list')
  BY <1>1, <1>3, <1>5
<1> QED BY <1>4, <1>5, <1>8, <1>10, <1>11

LEMMA WidgetKillsInv ==
  ASSUME KillSaved = FALSE, TimersInv, NEW t \in Timer, WidgetKillsTimer(t)
  PROVE  TimersInv'
<1>1. /\ Free /\ kills < MaxKills /\ t \in ToSet(list) \ Waits /\ owner[t] = System
      /\ KillTimer(t) /\ kills' = kills + 1 /\ UNCHANGED <<owner, loaded, tim>>
  BY DEF WidgetKillsTimer
<1>2. /\ list' \in Seq(Timer) /\ IsInjective(list') /\ ToSet(list') = ToSet(list) \ {t}
      /\ due' \subseteq ToSet(list') /\ stack' \in Seq(Frame) /\ TimersWalks'
  BY <1>1, KillTimerInv
<1>3. TimersTyped'
  BY <1>1, <1>2, KillsAssumption DEF TimersInv, TimersTyped
<1>4. Owned'
  BY <1>1, <1>2, TimersAssumption DEF TimersInv, Owned
<1> QED BY <1>2, <1>3, <1>4 DEF TimersInv

LEMMA CloseProgramInv ==
  ASSUME KillSaved = FALSE, TimersInv, NEW p \in Programs, CloseProgram(p)
  PROVE  TimersInv'
<1>1. /\ Free /\ kills < MaxKills /\ kills' = kills + 1 /\ UNCHANGED owner
      /\ tim' = [tim EXCEPT ![p] = NULL] /\ loaded' = loaded \ {p}
  BY DEF CloseProgram
<1>2. /\ tim'[p] = NULL /\ \A q \in Programs \ {p} : tim'[q] = tim[q]
      /\ tim' \in [Programs -> Timer \cup {NULL}] /\ tim \in [Programs -> Timer \cup {NULL}]
  BY <1>1 DEF TimersInv, TimersTyped
<1>3. CASE tim[p] = NULL
  <2>1. UNCHANGED <<list, due, stack>>
    BY <1>3 DEF CloseProgram
  <2>2. TimersTyped'
    BY <1>1, <1>2, <2>1, KillsAssumption DEF TimersInv, TimersTyped
  <2>3. \A u \in ToSet(list) : u # NULL
    BY TimersAssumption DEF TimersInv, TimersTyped, ToSet
  <2>4. Owned'
    BY <1>1, <1>2, <1>3, <2>1, <2>3 DEF TimersInv, Owned
  <2>5. TimersWalks'
    BY <2>1 DEF TimersInv, TimersWalks, FrameOK
  <2> QED BY <2>2, <2>4, <2>5 DEF TimersInv
<1>4. CASE tim[p] # NULL
  <2>1. KillTimer(tim[p]) /\ tim[p] \in ToSet(list) /\ owner[tim[p]] = p
    BY <1>4 DEF CloseProgram, TimersInv, Owned
  <2>2. /\ list' \in Seq(Timer) /\ IsInjective(list') /\ ToSet(list') = ToSet(list) \ {tim[p]}
        /\ due' \subseteq ToSet(list') /\ stack' \in Seq(Frame) /\ TimersWalks'
    BY <1>1, <2>1, KillTimerInv
  <2>3. TimersTyped'
    BY <1>1, <1>2, <2>2, KillsAssumption DEF TimersInv, TimersTyped
  <2>4. ASSUME NEW q \in Programs, tim'[q] # NULL
        PROVE  tim'[q] \in ToSet(list') /\ owner'[tim'[q]] = q
    <3>1. q # p /\ tim'[q] = tim[q]
      BY <2>4, <1>2
    <3>2. tim[q] \in ToSet(list) /\ owner[tim[q]] = q
      BY <2>4, <3>1 DEF TimersInv, Owned
    <3> QED BY <3>1, <3>2, <2>1, <2>2, <1>1
  <2>5. ASSUME NEW u \in ToSet(list'), owner'[u] # System
        PROVE  owner'[u] \in loaded' /\ tim'[owner'[u]] = u
    <3>1. u \in ToSet(list) /\ u # tim[p] /\ u \in Timer
      BY <2>2, SomeTimer
    <3>2. owner[u] \in loaded /\ tim[owner[u]] = u /\ owner[u] \in Programs
      BY <2>5, <3>1, <1>1 DEF TimersInv, Owned, TimersTyped
    <3> QED BY <3>1, <3>2, <1>1, <1>2
  <2>6. \A w \in Waits : w \in ToSet(list') /\ owner'[w] = System
    BY <1>1, <2>1, <2>2, TimersAssumption DEF TimersInv, Owned
  <2>7. Owned'
    BY <2>4, <2>5, <2>6 DEF Owned
  <2> QED BY <2>2, <2>3, <2>7 DEF TimersInv
<1> QED BY <1>3, <1>4

LEMMA LoadProgramInv ==
  ASSUME TimersInv, NEW p \in Programs, LoadProgram(p)
  PROVE  TimersInv'
<1>1. loaded' = loaded \cup {p} /\ UNCHANGED <<list, due, owner, tim, stack, kills>>
  BY DEF LoadProgram
<1>2. TimersTyped' /\ Owned'
  BY <1>1 DEF TimersInv, TimersTyped, Owned
<1>3. TimersWalks'
  BY <1>1 DEF TimersInv, TimersWalks, FrameOK
<1> QED BY <1>2, <1>3 DEF TimersInv
-----------------------------------------------------------------------------
(***************************************************************************)
(* The walks themselves.                                                   *)
(***************************************************************************)
LEMMA TimersPollInv == TimersInv /\ TimersPoll => TimersInv'
<1> SUFFICES ASSUME TimersInv, TimersPoll PROVE TimersInv'
  OBVIOUS
<1>1. /\ stack # << >> => Top.busy
      /\ stack' = Append(stack, WalkFrom(Last(list)))
      /\ UNCHANGED <<list, due, owner, loaded, tim, kills>>
  BY DEF TimersPoll
<1> DEFINE f == WalkFrom(Last(list))
<1>2. due \subseteq Timer
  BY SomeTimer DEF TimersInv, TimersTyped
<1>3. f \in Frame /\ f.a = Last(list) /\ f.busy = FALSE /\ f.owed = due
  BY <1>2, SomeTimer DEF WalkFrom, Frame
<1> HIDE DEF f
<1>4. stack \in Seq(Frame) /\ Len(stack) \in Nat /\ DOMAIN stack = 1..Len(stack)
  BY DEF TimersInv, TimersTyped
<1>5. /\ stack' \in Seq(Frame) /\ Len(stack') = Len(stack) + 1 /\ DOMAIN stack' = 1..(Len(stack) + 1)
      /\ \A i \in 1..Len(stack) : stack'[i] = stack[i]
      /\ stack'[Len(stack) + 1] = f
  BY <1>1, <1>3, <1>4, AppendedIs DEF f
<1>6. TimersTyped' /\ Owned'
  BY <1>1, <1>5 DEF TimersInv, TimersTyped, Owned
<1>7. \A i \in DOMAIN stack : stack[i].busy
  BY <1>1, AllBusy DEF Free
<1>8. ASSUME NEW i \in 1..(Len(stack) + 1)
      PROVE  FrameOK(stack[i])' /\ (i < Len(stack) + 1 => stack'[i].busy)
  <2>1. CASE i \in 1..Len(stack)
    <3>1. FrameOK(stack[i]) /\ stack[i].busy /\ stack'[i] = stack[i]
      BY <2>1, <1>4, <1>5, <1>7 DEF TimersInv, TimersWalks
    <3> QED BY <3>1, <1>1 DEF FrameOK, Cursor
  <2>2. CASE i = Len(stack) + 1
    <3>1. stack'[i].a = Last(list) /\ stack'[i].busy = FALSE /\ stack'[i].owed = due
      BY <2>2, <1>3, <1>5
    <3> QED BY <2>2, <3>1, <1>1, SomeTimer DEF FrameOK, Cursor
  <2> QED BY <2>1, <2>2, <1>4
<1>9. TimersWalks'
  BY <1>5, <1>8 DEF TimersWalks
<1> QED BY <1>6, <1>9 DEF TimersInv

\* What is owed from t on, without t itself, lies from the timer after t on.
LEMMA AfterIs ==
  ASSUME TimersInv, NEW t \in ToSet(list), NEW owed, t \notin owed,
         Ahead(list, t, owed) \/ t = Last(list)
  PROVE  After(t) \in ToSet(list) /\ Ahead(list, After(t), owed)
<1>1. /\ list \in Seq(Timer) /\ Len(list) \in Nat \ {0} /\ DOMAIN list = 1..Len(list)
      /\ \A j, k \in 1..Len(list) : list[j] = list[k] => j = k
  BY SomeTimer
<1>2. Place(t) \in 1..Len(list) /\ list[Place(t)] = t
  BY <1>1 DEF Place, ToSet
<1>3. CASE Place(t) = Len(list)
  <2>1. After(t) = list[1]
    BY <1>1, <1>3 DEF After
  <2>2. list[Len(list)] \notin owed
    BY <1>2, <1>3
  <2> QED BY <1>1, <2>1, <2>2 DEF Ahead, ToSet
<1>4. CASE Place(t) # Len(list)
  <2>1. After(t) = list[Place(t) + 1] /\ Place(t) + 1 \in 1..Len(list)
    BY <1>1, <1>2, <1>4 DEF After
  <2>2. t # Last(list)
    BY <1>1, <1>2, <1>4 DEF Last
  <2>3. ASSUME NEW j \in 1..Len(list), NEW k \in 1..Len(list), list[j] = After(t), list[k] \in owed
        PROVE  j <= k /\ k < Len(list)
    <3>1. j = Place(t) + 1
      BY <1>1, <2>1, <2>3
    <3>2. Place(t) <= k /\ k < Len(list)
      BY <1>1, <1>2, <2>2, <2>3 DEF Ahead
    <3>3. k # Place(t)
      BY <1>2, <2>3
    <3> QED BY <1>2, <3>1, <3>2, <3>3
  <2> QED BY <1>1, <2>1, <2>3 DEF Ahead, ToSet
<1> QED BY <1>3, <1>4

\* A walk that goes on with n, or ends because n is Last.
LEMMA GoOnInv ==
  ASSUME TimersInv, stack # << >>, NEW n \in ToSet(list), Ahead(list, n, Top.owed),
         stack' = GoOn(stack, n), UNCHANGED <<list, due, owner, loaded, tim, kills>>
  PROVE  TimersInv' /\ (Len(stack') < Len(stack) => Top.owed = {})
<1> DEFINE m == Len(stack)
<1>1. stack \in Seq(Frame) /\ m \in Nat \ {0} /\ DOMAIN stack = 1..m /\ Top = stack[m]
  BY DEF TimersInv, TimersTyped, Top, Last
<1>2. \A i \in 1..m : stack[i] \in Frame /\ FrameOK(stack[i]) /\ (i < m => stack[i].busy)
  BY <1>1 DEF TimersInv, TimersWalks
<1> HIDE DEF m
<1>3. CASE n = Last(list)
  <2>1. stack' = SubSeq(stack, 1, m - 1)
    BY <1>3 DEF GoOn, Front, m
  <2>2. /\ stack' \in Seq(Frame) /\ Len(stack') = m - 1 /\ DOMAIN stack' = 1..(m - 1)
        /\ \A i \in 1..(m - 1) : stack'[i] = stack[i]
    BY <1>1, <2>1 DEF m
  <2>3. TimersTyped' /\ Owned'
    BY <2>2 DEF TimersInv, TimersTyped, Owned
  <2>4. ASSUME NEW i \in 1..(m - 1) PROVE FrameOK(stack[i])' /\ stack'[i].busy
    <3>1. FrameOK(stack[i]) /\ stack[i].busy /\ stack'[i] = stack[i]
      BY <1>1, <1>2, <2>2
    <3> QED BY <3>1 DEF FrameOK, Cursor
  <2>5. TimersWalks'
    BY <2>2, <2>4 DEF TimersWalks
  <2>6. Top.owed = {}
    <3>1. Top.owed \subseteq ToSet(list)
      BY <1>1, <1>2 DEF FrameOK, TimersInv, TimersTyped
    <3>2. list[Len(list)] = n /\ Len(list) \in DOMAIN list /\ Len(list) \in Nat
      BY <1>3, SomeTimer DEF Last
    <3>3. ~\E k \in DOMAIN list : list[k] \in Top.owed
      BY <3>2, SomeTimer DEF Ahead
    <3> QED BY <3>1, <3>3 DEF ToSet
  <2> QED BY <2>3, <2>5, <2>6 DEF TimersInv
<1>4. CASE n # Last(list)
  <2> DEFINE f == stack[m]
             g == [f EXCEPT !.a = n, !.n = NULL, !.busy = FALSE]
  <2>1. stack' = [stack EXCEPT ![m] = g]
    BY <1>1, <1>4 DEF GoOn, m
  <2>2. f \in Frame /\ n \in Timer
    BY <1>1, <1>2, SomeTimer
  <2>3. g \in Frame /\ g.a = n /\ g.busy = FALSE /\ g.owed = f.owed
    BY <2>2 DEF Frame
  <2> HIDE DEF g
  <2>4. /\ stack' \in Seq(Frame) /\ Len(stack') = m /\ DOMAIN stack' = 1..m
        /\ stack'[m] = g /\ \A i \in 1..(m - 1) : stack'[i] = stack[i]
    <3>1. stack \in [1..m -> Frame]
      BY <1>1 DEF m
    <3>2. /\ stack' \in [1..m -> Frame]
          /\ stack'[m] = g /\ \A i \in 1..(m - 1) : stack'[i] = stack[i]
      BY <1>1, <2>1, <2>3, <3>1
    <3> QED BY <1>1, <3>2
  <2>5. TimersTyped' /\ Owned'
    BY <2>4 DEF TimersInv, TimersTyped, Owned
  <2>6. ASSUME NEW i \in 1..m PROVE FrameOK(stack[i])' /\ (i < m => stack'[i].busy)
    <3>1. CASE i < m
      <4>1. FrameOK(stack[i]) /\ stack[i].busy /\ stack'[i] = stack[i]
        BY <3>1, <1>1, <1>2, <2>4
      <4> QED BY <4>1 DEF FrameOK, Cursor
    <3>2. CASE i = m
      <4>1. stack'[i].a = n /\ stack'[i].busy = FALSE /\ stack'[i].owed = Top.owed
        BY <3>2, <1>1, <2>3, <2>4
      <4>2. Top.owed \subseteq due
        BY <1>1, <1>2 DEF FrameOK
      <4> QED BY <3>2, <4>1, <4>2 DEF FrameOK, Cursor
    <3> QED BY <3>1, <3>2, <1>1
  <2>7. TimersWalks'
    BY <2>4, <2>6 DEF TimersWalks
  <2> QED BY <2>4, <2>5, <2>7 DEF TimersInv, m
<1> QED BY <1>3, <1>4

LEMMA SkipInv == TimersInv /\ Skip => TimersInv' /\ (Len(stack') < Len(stack) => Top.owed = {})
<1> SUFFICES ASSUME TimersInv, Skip
             PROVE  TimersInv' /\ (Len(stack') < Len(stack) => Top.owed = {})
  OBVIOUS
<1>1. /\ stack # << >> /\ ~Top.busy /\ Top.a \in ToSet(list) /\ Top.a \notin due
      /\ stack' = GoOn(stack, After(Top.a)) /\ UNCHANGED <<list, due, owner, loaded, tim, kills>>
  BY DEF Skip, Calling
<1>2. FrameOK(Top)
  BY <1>1 DEF TimersInv, TimersWalks, TimersTyped, Top, Last
<1>3. Top.a \notin Top.owed /\ (Ahead(list, Top.a, Top.owed) \/ Top.a = Last(list))
  BY <1>1, <1>2 DEF FrameOK, Cursor
<1>4. After(Top.a) \in ToSet(list) /\ Ahead(list, After(Top.a), Top.owed)
  BY <1>1, <1>3, AfterIs
<1> QED BY <1>1, <1>4, GoOnInv

LEMMA TimersReturnInv == TimersInv /\ Return => TimersInv' /\ (Len(stack') < Len(stack) => Top.owed = {})
<1> SUFFICES ASSUME TimersInv, Return
             PROVE  TimersInv' /\ (Len(stack') < Len(stack) => Top.owed = {})
  OBVIOUS
<1>1. /\ stack # << >> /\ Top.busy
      /\ stack' = GoOn(stack, Top.n) /\ UNCHANGED <<list, due, owner, loaded, tim, kills>>
  BY DEF Return
<1>2. FrameOK(Top)
  BY <1>1 DEF TimersInv, TimersWalks, TimersTyped, Top, Last
<1>3. Top.n \in ToSet(list) /\ Ahead(list, Top.n, Top.owed)
  BY <1>1, <1>2 DEF FrameOK, Cursor
<1> QED BY <1>1, <1>3, GoOnInv

\* The walk reads n and calls a; no walk owes a any more.
LEMMA CallInv == TimersInv /\ Call => TimersInv' /\ Len(stack') = Len(stack)
<1> SUFFICES ASSUME TimersInv, Call PROVE TimersInv' /\ Len(stack') = Len(stack)
  OBVIOUS
<1> DEFINE m == Len(stack)
           t == Top.a
           less(i) == [stack[i] EXCEPT !.owed = @ \ {t}]
           calls == [[stack[m] EXCEPT !.owed = @ \ {t}] EXCEPT !.n = After(t), !.busy = TRUE]
<1>1. stack \in Seq(Frame) /\ m \in Nat /\ DOMAIN stack = 1..m /\ Top = stack[m]
  BY DEF TimersInv, TimersTyped, Top, Last
<1>2. /\ stack # << >> /\ ~Top.busy /\ t \in ToSet(list)
      /\ due' = IF t \in Always THEN due ELSE due \ {t}
      /\ UNCHANGED <<list, owner, loaded, tim, kills>>
  BY DEF Call, Calling
<1>3. stack' = [i \in 1..m |-> IF i = m THEN calls ELSE less(i)]
  BY <1>1 DEF Call
<1>4. m # 0
  BY <1>1, <1>2
<1> HIDE DEF m, t
<1>5. \A i \in 1..m : stack[i] \in Frame /\ FrameOK(stack[i]) /\ (i < m => stack[i].busy)
  BY <1>1 DEF TimersInv, TimersWalks, m
<1>6. \A i \in 1..m : /\ less(i) \in Frame /\ less(i).busy = stack[i].busy
                      /\ less(i).n = stack[i].n /\ less(i).a = stack[i].a
                      /\ less(i).owed = stack[i].owed \ {t}
  BY <1>5 DEF Frame
<1>7. t \notin Top.owed \ {t} /\ (Ahead(list, t, Top.owed \ {t}) \/ t = Last(list))
  BY <1>1, <1>2, <1>4, <1>5 DEF FrameOK, Cursor, Ahead, t
<1>8. After(t) \in ToSet(list) /\ Ahead(list, After(t), Top.owed \ {t})
  BY <1>2, <1>7, AfterIs
<1>9. /\ calls \in Frame /\ calls.busy = TRUE /\ calls.n = After(t)
      /\ calls.owed = Top.owed \ {t}
  <2>1. After(t) \in Timer
    BY <1>8, SomeTimer
  <2>2. stack[m] \in Frame
    BY <1>1, <1>4, <1>5
  <2> QED BY <1>1, <2>1, <2>2 DEF Frame
<1> HIDE DEF less, calls
<1>10. /\ stack' \in [1..m -> Frame] /\ stack'[m] = calls
       /\ \A i \in 1..(m - 1) : stack'[i] = less(i)
  BY <1>1, <1>3, <1>4, <1>6, <1>9
<1>11. stack' \in Seq(Frame) /\ Len(stack') = m /\ DOMAIN stack' = 1..m
  BY <1>1, <1>10
<1>12. due' \subseteq due /\ due \ {t} \subseteq due'
  BY <1>2
<1>13. TimersTyped' /\ Owned'
  BY <1>2, <1>11, <1>12 DEF TimersInv, TimersTyped, Owned
<1>14. ASSUME NEW i \in 1..m PROVE FrameOK(stack[i])' /\ (i < m => stack'[i].busy)
  <2>1. CASE i < m
    <3>1. /\ FrameOK(stack[i]) /\ stack[i].busy /\ stack'[i].busy = stack[i].busy
          /\ stack'[i].n = stack[i].n /\ stack'[i].owed = stack[i].owed \ {t}
      BY <2>1, <1>1, <1>5, <1>6, <1>10
    <3>2. /\ stack[i].n \in ToSet(list) /\ stack[i].owed \subseteq due
          /\ Ahead(list, stack[i].n, stack[i].owed)
      BY <3>1 DEF FrameOK, Cursor
    <3>3. Ahead(list, stack[i].n, stack[i].owed \ {t})
      BY <3>2 DEF Ahead
    <3> QED BY <3>1, <3>2, <3>3, <1>2, <1>12 DEF FrameOK, Cursor
  <2>2. CASE i = m
    <3>1. Top.owed \subseteq due
      BY <1>1, <1>4, <1>5 DEF FrameOK
    <3> QED BY <2>2, <3>1, <1>2, <1>8, <1>9, <1>10, <1>12 DEF FrameOK, Cursor
  <2> QED BY <2>1, <2>2, <1>1
<1>15. TimersWalks'
  BY <1>11, <1>14 DEF TimersWalks
<1> QED BY <1>11, <1>13, <1>15 DEF TimersInv, m
-----------------------------------------------------------------------------
(***************************************************************************)
(* The theorems.                                                           *)
(***************************************************************************)
LEMMA TimersNextInv ==
  ASSUME KillSaved = FALSE, Overwrites = FALSE, TimersInv, [TimersNext]_timersVars
  PROVE  TimersInv' /\ (Len(stack') < Len(stack) => Top.owed = {})
<1>1. CASE Elapse
  BY <1>1, ElapseInv DEF Elapse, TimersInv, TimersTyped
<1>2. CASE Program
  <2>1. UNCHANGED stack \/ Len(stack') = Len(stack)
    BY <1>2 DEF Program, WidgetMakesTimer, ProgramMakesTimer, NewTimer, LoadProgram, CloseProgram,
                WidgetKillsTimer, KillTimer, Relieved, TimersInv, TimersTyped
  <2>2. TimersInv'
    BY <1>2, WidgetMakesInv, WidgetKillsInv, ProgramMakesInv, CloseProgramInv, LoadProgramInv
    DEF Program
  <2> QED BY <2>1, <2>2 DEF TimersInv, TimersTyped
<1>3. CASE TimersPoll
  <2>1. Len(stack') = Len(stack) + 1 /\ Len(stack) \in Nat
    BY <1>3 DEF TimersPoll, TimersInv, TimersTyped
  <2> QED BY <1>3, <2>1, TimersPollInv
<1>4. CASE Call
  BY <1>4, CallInv DEF TimersInv, TimersTyped
<1>5. CASE Skip
  BY <1>5, SkipInv
<1>6. CASE Return
  BY <1>6, TimersReturnInv
<1>7. CASE UNCHANGED timersVars
  BY <1>7 DEF timersVars, TimersInv, TimersTyped, Owned, TimersWalks, FrameOK
<1> QED BY <1>1, <1>2, <1>3, <1>4, <1>5, <1>6, <1>7 DEF TimersNext

\* TimersPoll goes on with timers of the list, and each belongs to a program that is loaded.
THEOREM TimersLiveCorrect ==
  ASSUME KillSaved = FALSE, Overwrites = FALSE
  PROVE  TimersSpec => []CallsLiveTimers
<1>1. TimersInv => CallsLiveTimers
  <2> SUFFICES ASSUME TimersInv PROVE CallsLiveTimers
    OBVIOUS
  <2>1. stack \in Seq(Frame) /\ DOMAIN stack = 1..Len(stack) /\ Len(stack) \in Nat
    BY DEF TimersInv, TimersTyped
  <2>2. TimersTypeOK
    <3>1. \A i \in DOMAIN stack :
            /\ stack[i].a \in Timer /\ stack[i].n \in Timer \cup {NULL}
            /\ i < Len(stack) => stack[i].busy
      <4> TAKE i \in DOMAIN stack
      <4>1. stack[i] \in Frame
        BY <2>1
      <4>2. stack[i].a \in Timer /\ stack[i].n \in Timer \cup {NULL}
        BY <4>1 DEF Frame
      <4>3. i < Len(stack) => stack[i].busy
        BY DEF TimersInv, TimersWalks
      <4> QED BY <4>2, <4>3
    <3> QED BY <3>1 DEF TimersInv, TimersTyped, Owned, TimersTypeOK
  <2>3. WalksInList
    BY <2>1 DEF TimersInv, TimersWalks, FrameOK, Cursor, WalksInList, Top, Last
  <2>4. OwnersLoaded
    BY DEF TimersInv, Owned, OwnersLoaded
  <2> QED BY <2>2, <2>3, <2>4 DEF CallsLiveTimers
<1>2. TimersInv /\ [TimersNext]_timersVars => TimersInv'
  BY TimersNextInv
<1> QED BY <1>1, <1>2, TimersInitInv, PTL DEF TimersSpec

\* AllServed: a walk that ends owes no timer a call.
THEOREM TimersServedCorrect ==
  ASSUME KillSaved = FALSE, Overwrites = FALSE
  PROVE  TimersSpec => AllServed
<1>1. TimersInv /\ [TimersNext]_timersVars => [Len(stack') < Len(stack) => Top.owed = {}]_timersVars
  BY TimersNextInv
<1>2. TimersInv /\ [TimersNext]_timersVars => TimersInv'
  BY TimersNextInv
<1> QED BY <1>1, <1>2, TimersInitInv, PTL DEF TimersSpec, AllServed
=============================================================================
