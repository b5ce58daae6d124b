----------------------------- MODULE RdapProofs -----------------------------
(***************************************************************************)
(* Proofs about Rdap: how runs share the registries, for any number of     *)
(* runs, investigations and families, and whatever the documents hold.     *)
(*                                                                         *)
(* Sharing does not depend on what is in a cell.  That a run asks the most *)
(* specific service does: the second part proves what the folds Parse and  *)
(* ServiceFor compute, by the inductions of FoldLemmas.                    *)
(***************************************************************************)
EXTENDS Rdap, FoldLemmas, SequenceTheorems

(* The types that sharing depends on. *)
Shape ==
  /\ cells = [f \in Families |-> cells[f]]
  /\ holder \in [Families -> Runs \cup {None}]
  /\ used \in [Cases -> 0..MaxRequests]
  /\ state = [r \in Runs |-> state[r]]
  /\ result = [r \in Runs |-> result[r]]

(* The inductive invariant. *)
SharingInvariant == Shape /\ OneFetchAtATime /\ DenialsAreOwn

-----------------------------------------------------------------------------
(* Every step leaves the cells and their semaphores alone, or takes one    *)
(* semaphore, or gives it back, with or without a registry in the cell.    *)

Apart(r) ==
  /\ UNCHANGED <<cells, holder>>
  /\ state[r] # "fetching"
  /\ \E s \in {"waiting", "ready", "querying", "over"} :
       state' = [state EXCEPT ![r] = s]

Took(r) ==
  /\ Holder(r) = None /\ Cell(r) = None
  /\ cells' = cells
  /\ holder' = [holder EXCEPT ![FamilyOf[r]] = r]
  /\ state' = [state EXCEPT ![r] = "fetching"]

Gave(r) ==
  /\ state[r] = "fetching"
  /\ \E value : cells' = [cells EXCEPT ![FamilyOf[r]] = value]
  /\ holder' = [holder EXCEPT ![FamilyOf[r]] = None]
  /\ \E s \in {"ready", "over"} : state' = [state EXCEPT ![r] = s]

(* What a step does to the budgets and to what the runs have come to: an   *)
(* outcome "budget" is given to a run whose budget is used up.             *)
Spent(r) ==
  /\ \/ used' = used
     \/ used[CaseOf[r]] < MaxRequests /\ Charge(r)
  /\ \/ result' = result
     \/ \E what \in {"ok", "failed", "cancelled"} :
          result' = [result EXCEPT ![r] = what]
     \/ /\ ~(used[CaseOf[r]] < MaxRequests)
        /\ result' = [result EXCEPT ![r] = "budget"]

LEMMA StepsOfRun ==
  ASSUME SharingInvariant, NEW r \in Runs,
         Start(r) \/ Advance(r) \/ Network(r) \/ Cancel(r)
  PROVE  (Apart(r) \/ Took(r) \/ Gave(r)) /\ Spent(r)
<1>1. cells = [cells EXCEPT ![FamilyOf[r]] = cells[FamilyOf[r]]]
  BY DEF SharingInvariant, Shape
<1>2. CASE Start(r)
  BY <1>2 DEF Start, Goto, Apart, Spent
<1>3. CASE UseRegistry(r)
  BY <1>3 DEF UseRegistry, Goto, Apart, Spent
<1>4. CASE Fetch(r)
  BY <1>4 DEF Fetch, Goto, BudgetLeft, Took, Spent
<1>5. CASE FetchDenied(r)
  BY <1>5 DEF FetchDenied, End, Goto, BudgetLeft, Apart, Spent
<1>6. CASE NoService(r)
  BY <1>6 DEF NoService, End, Goto, Apart, Spent
<1>7. CASE Query(r)
  BY <1>7 DEF Query, Goto, BudgetLeft, Apart, Spent
<1>8. CASE QueryDenied(r)
  BY <1>8 DEF QueryDenied, End, Goto, BudgetLeft, Apart, Spent
<1>9. CASE Fetched(r)
  <2>1. PICK document \in Documents :
          cells' = [cells EXCEPT ![FamilyOf[r]] = Parse(document)]
    BY <1>9 DEF Fetched
  <2>2. \E value : cells' = [cells EXCEPT ![FamilyOf[r]] = value]
    BY <2>1
  <2>3. QED
    BY <1>9, <2>2 DEF Fetched, Goto, Release, Gave, Spent
<1>10. CASE FetchFailed(r)
  <2>1. cells' = [cells EXCEPT ![FamilyOf[r]] = cells[FamilyOf[r]]]
    BY <1>1, <1>10 DEF FetchFailed
  <2>2. QED
    BY <1>10, <2>1 DEF FetchFailed, End, Goto, Release, Gave, Spent
<1>11. CASE Answered(r)
  BY <1>11 DEF Answered, End, Goto, Apart, Spent
<1>12. CASE Cancel(r)
  <2>1. Spent(r)
    BY <1>12 DEF Cancel, End, Spent
  <2>2. CASE state[r] = "fetching"
    <3>1. Holder(r) = r
      BY <2>2 DEF SharingInvariant, OneFetchAtATime
    <3>2. cells' = [cells EXCEPT ![FamilyOf[r]] = cells[FamilyOf[r]]]
      BY <1>1, <1>12 DEF Cancel
    <3>3. QED
      BY <1>12, <2>1, <2>2, <3>1, <3>2 DEF Cancel, End, Goto, Release, Gave
  <2>3. CASE state[r] # "fetching"
    <3>1. Holder(r) # r
      BY <2>3 DEF SharingInvariant, OneFetchAtATime
    <3>2. QED
      BY <1>12, <2>1, <2>3, <3>1 DEF Cancel, End, Goto, Apart
  <2>4. QED
    BY <2>2, <2>3
<1>13. QED
  BY <1>2, <1>3, <1>4, <1>5, <1>6, <1>7, <1>8, <1>9, <1>10, <1>11, <1>12
     DEF Advance, Network

-----------------------------------------------------------------------------
(* Each conjunct of the invariant under a step of a run *)

LEMMA ShapeInductive ==
  ASSUME SharingInvariant, NEW r \in Runs,
         Apart(r) \/ Took(r) \/ Gave(r), Spent(r)
  PROVE  Shape'
<1>. USE RdapConstants
<1>1. /\ FamilyOf[r] \in Families /\ CaseOf[r] \in Cases
  BY DEF RdapConstants
<1>2. cells' = [f \in Families |-> cells'[f]]
  BY <1>1 DEF SharingInvariant, Shape, Apart, Took, Gave
<1>3. holder' \in [Families -> Runs \cup {None}]
  BY <1>1 DEF SharingInvariant, Shape, Apart, Took, Gave
<1>4. used' \in [Cases -> 0..MaxRequests]
  <2>1. CASE used' = used
    BY <2>1 DEF SharingInvariant, Shape
  <2>2. CASE used[CaseOf[r]] < MaxRequests /\ Charge(r)
    <3>1. used[CaseOf[r]] + 1 \in 0..MaxRequests
      BY <1>1, <2>2 DEF SharingInvariant, Shape, RdapConstants
    <3>2. QED
      BY <1>1, <2>2, <3>1 DEF SharingInvariant, Shape, Charge
  <2>3. QED
    BY <2>1, <2>2 DEF Spent
<1>5. state' = [q \in Runs |-> state'[q]]
  BY DEF SharingInvariant, Shape, Apart, Took, Gave
<1>6. result' = [q \in Runs |-> result'[q]]
  BY DEF SharingInvariant, Shape, Spent
<1>7. QED
  BY <1>2, <1>3, <1>4, <1>5, <1>6 DEF Shape

LEMMA OneFetchInductive ==
  ASSUME SharingInvariant, NEW r \in Runs,
         Apart(r) \/ Took(r) \/ Gave(r)
  PROVE  OneFetchAtATime'
<1>1. /\ None \notin Runs
      /\ \A q \in Runs : FamilyOf[q] \in Families
  BY RdapConstants DEF RdapConstants
<1>2. SUFFICES ASSUME NEW q \in Runs
               PROVE  /\ (state[q] = "fetching" <=> Holder(q) = q)'
                      /\ (Holder(q) = q => Cell(q) = None)'
  BY DEF OneFetchAtATime, Holder, Cell
<1>3. /\ state[q] = "fetching" <=> Holder(q) = q
      /\ Holder(q) = q => Cell(q) = None
      /\ state[r] = "fetching" <=> Holder(r) = r
  BY DEF SharingInvariant, OneFetchAtATime
<1>4. CASE Apart(r)
  <2>1. Holder(q)' = Holder(q) /\ Cell(q)' = Cell(q)
    BY <1>4 DEF Apart, Holder, Cell
  <2>2. state'[q] = "fetching" <=> state[q] = "fetching"
    BY <1>4 DEF Apart, SharingInvariant, Shape
  <2>3. QED
    BY <1>3, <2>1, <2>2
<1>5. CASE Took(r)
  <2>1. Cell(q)' = Cell(q)
    BY <1>5 DEF Took, Cell
  <2>2. CASE FamilyOf[q] = FamilyOf[r]
    <3>1. Holder(q) = None /\ Cell(q) = None /\ Holder(q)' = r
      BY <1>1, <1>5, <2>2 DEF Took, Holder, Cell, SharingInvariant, Shape
    <3>2. state'[q] = "fetching" <=> q = r
      BY <1>1, <1>3, <1>5, <3>1 DEF Took, SharingInvariant, Shape
    <3>3. QED
      BY <2>1, <3>1, <3>2
  <2>3. CASE FamilyOf[q] # FamilyOf[r]
    <3>1. Holder(q)' = Holder(q) /\ state'[q] = state[q]
      BY <1>1, <1>5, <2>3 DEF Took, Holder, SharingInvariant, Shape
    <3>2. QED
      BY <1>3, <2>1, <3>1
  <2>4. QED
    BY <2>2, <2>3
<1>6. CASE Gave(r)
  <2>1. CASE FamilyOf[q] = FamilyOf[r]
    <3>1. Holder(q)' = None /\ Holder(q) = r
      BY <1>1, <1>3, <1>6, <2>1 DEF Gave, Holder, SharingInvariant, Shape
    <3>2. state'[q] # "fetching"
      BY <1>3, <1>6, <3>1 DEF Gave, SharingInvariant, Shape
    <3>3. QED
      BY <1>1, <3>1, <3>2
  <2>2. CASE FamilyOf[q] # FamilyOf[r]
    <3>1. Holder(q)' = Holder(q) /\ Cell(q)' = Cell(q) /\ state'[q] = state[q]
      BY <1>1, <1>6, <2>2 DEF Gave, Holder, Cell, SharingInvariant, Shape
    <3>2. QED
      BY <1>3, <3>1
  <2>3. QED
    BY <2>1, <2>2
<1>7. QED
  BY <1>4, <1>5, <1>6

LEMMA DenialsInductive ==
  ASSUME SharingInvariant, NEW r \in Runs, Spent(r)
  PROVE  DenialsAreOwn'
<1>1. \A q \in Runs : CaseOf[q] \in Cases
  BY RdapConstants DEF RdapConstants
<1>2. SUFFICES ASSUME NEW q \in Runs, result'[q] = "budget"
               PROVE  used'[CaseOf[q]] = MaxRequests
  BY DEF DenialsAreOwn
<1>3. used \in [Cases -> 0..MaxRequests] /\ MaxRequests \in Nat
  BY RdapConstants DEF RdapConstants, SharingInvariant, Shape
<1>4. used[CaseOf[q]] = MaxRequests
  <2>1. CASE result[q] = "budget"
    BY <2>1 DEF SharingInvariant, DenialsAreOwn
  <2>2. CASE result[q] # "budget"
    <3>1. q = r /\ ~(used[CaseOf[r]] < MaxRequests)
      BY <1>2, <2>2 DEF Spent, SharingInvariant, Shape
    <3>2. QED
      BY <1>1, <1>3, <3>1
  <2>3. QED
    BY <2>1, <2>2
<1>5. used'[CaseOf[q]] = used[CaseOf[q]]
  BY <1>1, <1>3, <1>4 DEF Spent, Charge
<1>6. QED
  BY <1>4, <1>5

LEMMA SharingInitially ==
  ASSUME Init
  PROVE  SharingInvariant
<1>1. None \notin Runs /\ MaxRequests \in Nat
      /\ \A r \in Runs : FamilyOf[r] \in Families
  BY RdapConstants DEF RdapConstants
<1>2. Shape
  BY <1>1 DEF Init, Shape
<1>3. OneFetchAtATime
  BY <1>1 DEF Init, OneFetchAtATime, Holder, Cell
<1>4. DenialsAreOwn
  BY DEF Init, DenialsAreOwn
<1>5. QED
  BY <1>2, <1>3, <1>4 DEF SharingInvariant

LEMMA SharingStuttering ==
  ASSUME SharingInvariant, UNCHANGED vars
  PROVE  SharingInvariant'
BY DEF SharingInvariant, Shape, OneFetchAtATime, DenialsAreOwn, Holder, Cell,
       vars

LEMMA SharingInductive ==
  ASSUME SharingInvariant, [Next]_vars
  PROVE  SharingInvariant'
<1>1. CASE \E r \in Runs : Start(r) \/ Advance(r) \/ Network(r) \/ Cancel(r)
  <2>1. PICK r \in Runs : Start(r) \/ Advance(r) \/ Network(r) \/ Cancel(r)
    BY <1>1
  <2>2. (Apart(r) \/ Took(r) \/ Gave(r)) /\ Spent(r)
    BY <2>1, StepsOfRun
  <2>3. QED
    BY <2>2, ShapeInductive, OneFetchInductive, DenialsInductive
       DEF SharingInvariant
<1>2. CASE UNCHANGED vars
  BY <1>2, SharingStuttering
<1>3. QED
  BY <1>1, <1>2 DEF Next, Over

-----------------------------------------------------------------------------
(* Theorems about sharing *)

LEMMA SharingInvariance == Spec => []SharingInvariant
<1>1. Init => SharingInvariant
  BY SharingInitially
<1>2. SharingInvariant /\ [Next]_vars => SharingInvariant'
  BY SharingInductive
<1>3. QED
  BY <1>1, <1>2, PTL DEF Spec

(* One run at a time fetches the registry of a family, the one that holds  *)
(* the cell, and only while the cell is empty.                             *)
THEOREM SharingHolds == Spec => []OneFetchAtATime
<1>1. SharingInvariant => OneFetchAtATime
  BY DEF SharingInvariant
<1>2. QED
  BY <1>1, SharingInvariance, PTL

(* A run is denied a request only if its own investigation's budget is     *)
(* used up, whichever run it waited for.                                   *)
THEOREM DenialsHold == Spec => []DenialsAreOwn
<1>1. SharingInvariant => DenialsAreOwn
  BY DEF SharingInvariant
<1>2. QED
  BY <1>1, SharingInvariance, PTL

(* A registry that was fetched is never replaced.                          *)
THEOREM RegistryHolds == Spec => RegistryIsFinal
<1>1. SharingInvariant /\ [Next]_vars =>
        [\A f \in Families : cells[f] # None => cells'[f] = cells[f]]_vars
  <2>. SUFFICES ASSUME SharingInvariant, [Next]_vars, vars' # vars
                PROVE  \A f \in Families :
                         cells[f] # None => cells'[f] = cells[f]
    OBVIOUS
  <2>1. SUFFICES ASSUME NEW f \in Families, cells[f] # None
                 PROVE  cells'[f] = cells[f]
    OBVIOUS
  <2>2. CASE Over
    BY <2>2 DEF Over, vars
  <2>3. CASE \E r \in Runs : Start(r) \/ Advance(r) \/ Network(r) \/ Cancel(r)
    <3>1. PICK r \in Runs : Start(r) \/ Advance(r) \/ Network(r) \/ Cancel(r)
      BY <2>3
    <3>2. Apart(r) \/ Took(r) \/ Gave(r)
      BY <3>1, StepsOfRun
    <3>3. CASE Gave(r)
      <4>1. Cell(r) = None
        BY <3>3 DEF Gave, SharingInvariant, OneFetchAtATime
      <4>2. FamilyOf[r] # f
        BY <2>1, <4>1 DEF Cell
      <4>3. PICK value : cells' = [cells EXCEPT ![FamilyOf[r]] = value]
        BY <3>3 DEF Gave
      <4>4. cells = [g \in Families |-> cells[g]]
        BY DEF SharingInvariant, Shape
      <4>5. QED
        BY <4>2, <4>3, <4>4
    <3>4. QED
      BY <3>2, <3>3 DEF Apart, Took
  <2>4. QED
    BY <2>1, <2>2, <2>3 DEF Next
<1>2. QED
  BY <1>1, SharingInvariance, PTL DEF Spec, RegistryIsFinal
-----------------------------------------------------------------------------
(* What Parse and ServiceFor compute: each is a fold, that is, what is     *)
(* left after the last of a sequence of steps.                             *)

(* What one entry does to the best entry so far. *)
Better(address, best, entry) ==
  IF /\ address \in Covers[entry.prefix]
     /\ \/ best = None
        \/ PrefixLength[best.prefix] <= PrefixLength[entry.prefix]
  THEN entry ELSE best

LEMMA ServiceForSteps ==
  ASSUME NEW entries \in Seq(Entry), NEW address
  PROVE  \E g : /\ g[0] = None
                /\ \A i \in 1..Len(entries) :
                     g[i] = Better(address, g[i - 1], entries[i])
                /\ ServiceFor(entries, address) = g[Len(entries)]
<1> DEFINE n == Len(entries)
           V == Entry \cup {None}
           step == [i \in 1..n |-> [best \in V |-> Better(address, best, entries[i])]]
           IsService(f) ==
             f = [s \in SUBSET (1..n) |->
                    IF s = {} THEN None
                    ELSE Better(address, f[s \ {Max(s)}], entries[Max(s)])]
<1>1. n \in Nat /\ DOMAIN entries = 1..n
  BY LenProperties
<1>2. step \in [1..n -> [V -> V]]
  <2>1. ASSUME NEW i \in 1..n, NEW best \in V
        PROVE  Better(address, best, entries[i]) \in V
    BY <1>1 DEF Better
  <2> QED BY <2>1
<1> HIDE DEF n
<1>3. PICK f \in [SUBSET (1..n) -> V] : Folding(f, n, None, step)
  <2>1. None \in V
    OBVIOUS
  <2> HIDE DEF V, step
  <2> QED BY <1>1, <1>2, <2>1, RecursionOnSets
<1>4. IsService(f)
  <2>1. ASSUME NEW s \in SUBSET (1..n), s # {}
        PROVE  f[s] = Better(address, f[s \ {Max(s)}], entries[Max(s)])
    <3>1. IsGreatest(Max(s), s) /\ Max(s) \in s
      BY <1>1, <2>1, MaxIsGreatest DEF IsGreatest
    <3>2. f[s] = step[Max(s)][f[s \ {Max(s)}]]
      BY <1>3, <3>1 DEF Folding
    <3>3. f[s \ {Max(s)}] \in V /\ Max(s) \in 1..n
      BY <3>1
    <3> QED BY <3>2, <3>3
  <2>2. f[{}] = None
    BY <1>3 DEF Folding
  <2> HIDE DEF V
  <2> QED BY <2>1, <2>2
<1> DEFINE iter == CHOOSE h : IsService(h)
<1>5. IsService(iter)
  <2> HIDE DEF IsService
  <2> QED BY <1>4
<1>6. ServiceFor(entries, address) = iter[1..n]
  BY <1>1 DEF ServiceFor, FoldLeft, MapThenFoldSet, Better
<1> HIDE DEF iter
<1> DEFINE g == [i \in 0..n |-> iter[1..i]]
<1>7. g[0] = None
  <2>1. 1..0 = {} /\ 0 \in 0..n
    BY <1>1
  <2> QED BY <1>5, <2>1
<1>8. ASSUME NEW i \in 1..n
      PROVE  g[i] = Better(address, g[i - 1], entries[i])
  <2>1. Max(1..i) = i /\ (1..i) \ {i} = 1..(i - 1)
    BY <1>1, LastOfAll
  <2>2. 1..i \in SUBSET (1..n) /\ 1..i # {} /\ i - 1 \in 0..n /\ i \in 0..n
    <3>1. i \in 1..i /\ i - 1 \in 0..n /\ i \in 0..n
      BY <1>1
    <3>2. \A j \in 1..i : j \in 1..n
      BY <1>1
    <3> QED BY <3>1, <3>2
  <2>3. iter[1..i] = Better(address, iter[(1..i) \ {Max(1..i)}], entries[Max(1..i)])
    BY <1>5, <2>2
  <2> QED BY <2>1, <2>2, <2>3
<1>9. ServiceFor(entries, address) = g[n]
  <2>1. n \in 0..n
    BY <1>1
  <2> QED BY <1>6, <2>1
<1> HIDE DEF g
<1> QED BY <1>7, <1>8, <1>9 DEF n

(* A covering entry is only given up for one that is as long.              *)
LEMMA ServiceForIsLongest ==
  ASSUME RdapConstants, NEW entries \in Seq(Entry), NEW address
  PROVE  LET best == ServiceFor(entries, address) IN
         best # None =>
           /\ \E i \in DOMAIN entries : entries[i] = best
           /\ address \in Covers[best.prefix]
           /\ \A i \in DOMAIN entries : address \in Covers[entries[i].prefix] =>
                PrefixLength[entries[i].prefix] <= PrefixLength[best.prefix]
<1> DEFINE n == Len(entries)
<1>1. n \in Nat /\ DOMAIN entries = 1..n
  BY LenProperties
<1>2. PICK g : /\ g[0] = None
               /\ \A i \in 1..n : g[i] = Better(address, g[i - 1], entries[i])
               /\ ServiceFor(entries, address) = g[n]
  BY ServiceForSteps, Zenon
<1>3. None \notin Entry
  BY DEF RdapConstants
<1> DEFINE covering(j) == address \in Covers[entries[j].prefix]
           length(e) == PrefixLength[e.prefix]
           IsBest(i) ==
             IF g[i] = None THEN \A j \in 1..i : ~covering(j)
             ELSE \E k \in 1..i :
                    /\ g[i] = entries[k] /\ covering(k)
                    /\ \A j \in 1..i : covering(j) => length(entries[j]) <= length(g[i])
           T == {i \in 0..n : IsBest(i)}
<1>4. ASSUME NEW j \in 1..n
      PROVE  entries[j] # None /\ length(entries[j]) \in Nat
  <2>1. entries[j] \in Entry
    BY <1>1
  <2> QED BY <1>3, <2>1 DEF RdapConstants, Entry
<1>5. 0 \in T
  BY <1>1, <1>2
<1>6. ASSUME NEW i \in 1..n, i - 1 \in T
      PROVE  i \in T
  <2>1. g[i] = IF covering(i) /\ (g[i - 1] = None \/ length(g[i - 1]) <= length(entries[i]))
               THEN entries[i] ELSE g[i - 1]
    BY <1>2 DEF Better
  <2>2. IsBest(i - 1)
    BY <1>6
  <2>3. \A j \in 1..i : j = i \/ j \in 1..(i - 1)
    BY <1>1
  <2>4. i \in 1..i /\ 1..(i - 1) \subseteq 1..i /\ 1..i \subseteq 1..n
    BY <1>1
  <2> HIDE DEF covering, length, n
  <2>5. CASE g[i - 1] = None /\ covering(i)
    BY <1>4, <2>1, <2>2, <2>3, <2>4, <2>5
  <2>6. CASE g[i - 1] = None /\ ~covering(i)
    BY <2>1, <2>2, <2>3, <2>6
  <2>7. CASE g[i - 1] # None /\ g[i] = entries[i] /\ covering(i)
             /\ length(g[i - 1]) <= length(entries[i])
    <3>1. PICK k \in 1..(i - 1) :
            /\ g[i - 1] = entries[k] /\ covering(k)
            /\ \A j \in 1..(i - 1) : covering(j) => length(entries[j]) <= length(g[i - 1])
      BY <2>2, <2>7
    <3>2. length(g[i - 1]) \in Nat /\ length(g[i]) \in Nat
      BY <1>4, <2>4, <2>7, <3>1
    <3>3. ASSUME NEW j \in 1..i, covering(j)
          PROVE  length(entries[j]) <= length(g[i])
      <4>1. length(entries[j]) \in Nat
        BY <1>4, <2>4
      <4> QED BY <2>3, <2>7, <3>1, <3>2, <3>3, <4>1
    <3> QED BY <1>4, <2>4, <2>7, <3>3
  <2>8. CASE g[i - 1] # None /\ g[i] = g[i - 1]
             /\ ~(covering(i) /\ length(g[i - 1]) <= length(entries[i]))
    <3>1. PICK k \in 1..(i - 1) :
            /\ g[i - 1] = entries[k] /\ covering(k)
            /\ \A j \in 1..(i - 1) : covering(j) => length(entries[j]) <= length(g[i - 1])
      BY <2>2, <2>8
    <3>2. length(g[i]) \in Nat /\ length(entries[i]) \in Nat
      BY <1>4, <2>4, <2>8, <3>1
    <3>3. ASSUME NEW j \in 1..i, covering(j)
          PROVE  length(entries[j]) <= length(g[i])
      BY <2>3, <2>8, <3>1, <3>2, <3>3
    <3> QED BY <2>4, <2>8, <3>1, <3>3
  <2> QED BY <2>1, <2>5, <2>6, <2>7, <2>8
<1>7. n \in T
  <2>1. \A i \in 1..n : i - 1 \in T => i \in T
    BY <1>6
  <2> HIDE DEF T
  <2>2. \A i \in 0..n : i \in T
    BY <1>1, <1>5, <2>1, UpTo
  <2> QED BY <1>1, <2>2
<1> QED BY <1>1, <1>2, <1>7
-----------------------------------------------------------------------------
(* The sequences that the registry is made of. *)

LEMMA TakeProperties ==
  ASSUME NEW S, NEW s \in Seq(S), NEW n \in Nat
  PROVE  /\ Take(s, n) \in Seq(S)
         /\ DOMAIN Take(s, n) = {i \in DOMAIN s : i <= n}
         /\ \A i \in DOMAIN Take(s, n) : Take(s, n)[i] = s[i]
<1> DEFINE k == IF Len(s) < n THEN Len(s) ELSE n
<1>1. Len(s) \in Nat /\ DOMAIN s = 1..Len(s)
  BY LenProperties
<1>2. k \in 0..Len(s)
  BY <1>1
<1>3. Take(s, n) = SubSeq(s, 1, k)
  BY DEF Take
<1>4. ASSUME NEW i \in Int
      PROVE  i \in 1..k <=> i \in 1..Len(s) /\ i <= n
  BY <1>1
<1> HIDE DEF k
<1>5. /\ SubSeq(s, 1, k) \in Seq(S)
      /\ DOMAIN SubSeq(s, 1, k) = 1..k
      /\ \A i \in 1..k : SubSeq(s, 1, k)[i] = s[i]
  BY <1>2, Beginning
<1>6. 1..k = {i \in DOMAIN s : i <= n}
  BY <1>1, <1>4
<1> QED BY <1>3, <1>5, <1>6

LEMMA AcceptableSteps ==
  ASSUME NEW urls \in Seq(URLs)
  PROVE  \E g \in [0..Len(urls) -> Seq(URLs)] :
           /\ g[0] = <<>>
           /\ \A i \in 1..Len(urls) :
                g[i] = IF urls[i] \in Acceptable THEN Append(g[i - 1], urls[i])
                       ELSE g[i - 1]
           /\ AcceptableOf(urls) = g[Len(urls)]
<1> DEFINE n == Len(urls)
           V == Seq(URLs)
           Added(kept, url) == IF url \in Acceptable THEN Append(kept, url) ELSE kept
           step == [i \in 1..n |-> [kept \in V |-> Added(kept, urls[i])]]
           IsKept(f) ==
             f = [s \in SUBSET (1..n) |->
                    IF s = {} THEN <<>> ELSE Added(f[s \ {Max(s)}], urls[Max(s)])]
<1>1. n \in Nat /\ DOMAIN urls = 1..n
  BY LenProperties
<1>2. ASSUME NEW i \in 1..n, NEW kept \in V
      PROVE  Added(kept, urls[i]) \in V
  <2>1. urls[i] \in URLs
    BY <1>1
  <2> QED BY <2>1, AppendProperties
<1>3. step \in [1..n -> [V -> V]]
  <2> HIDE DEF Added, V, n
  <2> QED BY <1>2
<1> HIDE DEF n
<1>4. PICK f \in [SUBSET (1..n) -> V] : Folding(f, n, <<>>, step)
  <2>1. <<>> \in V
    OBVIOUS
  <2> HIDE DEF V, step
  <2> QED BY <1>1, <1>3, <2>1, RecursionOnSets
<1> HIDE DEF V
<1>5. ASSUME NEW s \in SUBSET (1..n), s # {}
      PROVE  /\ f[s] = Added(f[s \ {Max(s)}], urls[Max(s)])
             /\ Max(s) \in 1..n
  <2> HIDE DEF Added
  <2>1. IsGreatest(Max(s), s) /\ Max(s) \in s
    BY <1>1, <1>5, MaxIsGreatest DEF IsGreatest
  <2>2. f[s] = step[Max(s)][f[s \ {Max(s)}]]
    BY <1>4, <2>1 DEF Folding
  <2>3. f[s \ {Max(s)}] \in V /\ Max(s) \in 1..n
    BY <2>1
  <2> QED BY <2>2, <2>3
<1>6. IsKept(f)
  <2>1. f[{}] = <<>>
    BY <1>4 DEF Folding
  <2> HIDE DEF Added
  <2> QED BY <1>5, <2>1
<1> DEFINE iter == CHOOSE h : IsKept(h)
<1>7. IsKept(iter)
  <2> HIDE DEF IsKept
  <2> QED BY <1>6
<1>8. AcceptableOf(urls) = iter[1..n]
  BY <1>1 DEF AcceptableOf, FoldLeft, MapThenFoldSet
<1> HIDE DEF iter
<1> DEFINE g == [i \in 0..n |-> iter[1..i]]
<1>9. g[0] = <<>>
  <2>1. 1..0 = {} /\ 0 \in 0..n
    BY <1>1
  <2> QED BY <1>7, <2>1
<1>10. ASSUME NEW i \in 1..n
       PROVE  g[i] = Added(g[i - 1], urls[i])
  <2> HIDE DEF Added
  <2>1. Max(1..i) = i /\ (1..i) \ {i} = 1..(i - 1)
    BY <1>1, LastOfAll
  <2>2. 1..i \in SUBSET (1..n) /\ 1..i # {} /\ i - 1 \in 0..n /\ i \in 0..n
    <3>1. i \in 1..i /\ i - 1 \in 0..n /\ i \in 0..n
      BY <1>1
    <3>2. \A j \in 1..i : j \in 1..n
      BY <1>1
    <3> QED BY <3>1, <3>2
  <2>3. iter[1..i] = Added(iter[(1..i) \ {Max(1..i)}], urls[Max(1..i)])
    BY <1>7, <2>2
  <2> QED BY <2>1, <2>2, <2>3
<1>11. AcceptableOf(urls) = g[n]
  <2>1. n \in 0..n
    BY <1>1
  <2> QED BY <1>8, <2>1
<1>12. g \in [0..n -> V]
  <2> DEFINE T == {i \in 0..n : g[i] \in V}
  <2>1. 0 \in T
    <3>1. 0 \in 0..n /\ <<>> \in V
      BY <1>1 DEF V
    <3> HIDE DEF g
    <3> QED BY <1>9, <3>1
  <2>2. ASSUME NEW i \in 1..n, i - 1 \in T PROVE i \in T
    <3>1. g[i - 1] \in V /\ i \in 0..n
      BY <1>1, <2>2
    <3>2. Added(g[i - 1], urls[i]) \in V
      <4> HIDE DEF Added, g
      <4> QED BY <1>2, <3>1
    <3> HIDE DEF Added, g
    <3> QED BY <1>10, <3>1, <3>2
  <2>3. \A i \in 1..n : i - 1 \in T => i \in T
    BY <2>2
  <2> HIDE DEF T
  <2>4. \A i \in 0..n : i \in T
    BY <1>1, <2>1, <2>3, UpTo
  <2>5. \A i \in 0..n : g[i] \in V
    BY <2>4 DEF T
  <2> QED BY <2>5
<1> HIDE DEF g
<1> QED BY <1>9, <1>10, <1>11, <1>12 DEF n, V

(* What is kept is empty if no URL is acceptable; else it begins with the  *)
(* first that is.                                                          *)
LEMMA FirstOfAcceptable ==
  ASSUME NEW urls \in Seq(URLs)
  PROVE  /\ AcceptableOf(urls) \in Seq(URLs)
         /\ AcceptableOf(urls) = <<>> <=> \A u \in DOMAIN urls : urls[u] \notin Acceptable
         /\ AcceptableOf(urls) # <<>> => FirstAcceptable(urls, AcceptableOf(urls)[1])
<1> DEFINE n == Len(urls)
<1>1. n \in Nat /\ DOMAIN urls = 1..n
  BY LenProperties
<1>2. PICK g \in [0..n -> Seq(URLs)] :
        /\ g[0] = <<>>
        /\ \A i \in 1..n : g[i] = IF urls[i] \in Acceptable
                                  THEN Append(g[i - 1], urls[i]) ELSE g[i - 1]
        /\ AcceptableOf(urls) = g[n]
  BY AcceptableSteps
<1> HIDE DEF n
<1> DEFINE none(i) == \A u \in 1..i : urls[u] \notin Acceptable
           first(i, url) == \E u \in 1..i : /\ urls[u] = url /\ url \in Acceptable
                                            /\ \A v \in 1..(u - 1) : urls[v] \notin Acceptable
           T == {i \in 0..n : /\ g[i] = <<>> <=> none(i)
                              /\ g[i] # <<>> => first(i, g[i][1])}
<1>3. 0 \in T
  BY <1>1, <1>2
<1>4. ASSUME NEW i \in 1..n, i - 1 \in T
      PROVE  i \in T
  <2>1. /\ i - 1 \in 0..n /\ i \in 0..n /\ i \in 1..i
        /\ \A u \in 1..i : u = i \/ u \in 1..(i - 1)
        /\ \A u \in 1..(i - 1) : u \in 1..i
    BY <1>1
  <2>2. /\ g[i - 1] = <<>> <=> none(i - 1)
        /\ g[i - 1] # <<>> => first(i - 1, g[i - 1][1])
    BY <1>4
  <2>3. CASE urls[i] \notin Acceptable
    <3>1. g[i] = g[i - 1]
      BY <1>2, <2>3
    <3>2. none(i) <=> none(i - 1)
      BY <2>1, <2>3
    <3>3. ASSUME NEW url, first(i - 1, url) PROVE first(i, url)
      BY <2>1, <3>3
    <3> HIDE DEF none, first
    <3> QED BY <2>1, <2>2, <3>1, <3>2, <3>3
  <2>4. CASE urls[i] \in Acceptable
    <3>1. g[i] = Append(g[i - 1], urls[i]) /\ g[i - 1] \in Seq(URLs) /\ urls[i] \in URLs
      <4>1. g[i] = Append(g[i - 1], urls[i])
        BY <1>2, <2>4
      <4>2. g[i - 1] \in Seq(URLs)
        BY <1>2, <2>1
      <4>3. urls[i] \in URLs
        BY <1>1
      <4> QED BY <4>1, <4>2, <4>3
    <3>2. g[i] # <<>>
      BY <3>1, AppendProperties
    <3>3. ~none(i)
      BY <2>1, <2>4
    <3>4. CASE g[i - 1] = <<>>
      <4>1. g[i][1] = urls[i]
        BY <3>1, <3>4
      <4>2. first(i, urls[i])
        BY <2>1, <2>2, <2>4, <3>4
      <4> HIDE DEF none, first
      <4> QED BY <2>1, <3>2, <3>3, <4>1, <4>2
    <3>5. CASE g[i - 1] # <<>>
      <4>1. Len(g[i - 1]) \in Nat /\ Len(g[i - 1]) # 0
        BY <3>1, <3>5, EmptySeq, LenProperties
      <4>2. g[i][1] = g[i - 1][1]
        BY <3>1, <4>1, AppendProperties
      <4>3. ASSUME NEW url, first(i - 1, url) PROVE first(i, url)
        BY <2>1, <4>3
      <4> HIDE DEF none, first
      <4> QED BY <2>1, <2>2, <3>2, <3>3, <3>5, <4>2, <4>3
    <3> QED BY <3>4, <3>5
  <2> QED BY <2>3, <2>4
<1>5. n \in T
  <2>1. \A i \in 1..n : i - 1 \in T => i \in T
    BY <1>4
  <2> HIDE DEF T
  <2>2. \A i \in 0..n : i \in T
    BY <1>1, <1>3, <2>1, UpTo
  <2> QED BY <1>1, <2>2
<1>6. g[n] \in Seq(URLs)
  BY <1>1, <1>2
<1> QED BY <1>1, <1>2, <1>5, <1>6 DEF FirstAcceptable

LEMMA FlattenSteps ==
  ASSUME NEW S, NEW seqs \in Seq(Seq(S))
  PROVE  \E g \in [0..Len(seqs) -> Seq(S)] :
           /\ g[0] = <<>>
           /\ \A i \in 1..Len(seqs) : g[i] = g[i - 1] \o seqs[i]
           /\ FlattenSeq(seqs) = g[Len(seqs)]
<1> DEFINE n == Len(seqs)
           V == Seq(S)
           step == [i \in 1..n |-> [v \in V |-> v \o seqs[i]]]
           IsFlat(f) ==
             f = [i \in 1..n |-> IF i = 1 THEN seqs[i] ELSE f[i - 1] \o seqs[i]]
<1>1. n \in Nat /\ DOMAIN seqs = 1..n /\ \A i \in 1..n : seqs[i] \in V
  BY LenProperties
<1>2. ASSUME NEW v \in V, NEW i \in 1..n
      PROVE  v \o seqs[i] \in V
  BY <1>1, ConcatProperties
<1>3. step \in [1..n -> [V -> V]]
  <2> HIDE DEF V, n
  <2> QED BY <1>2
<1>4. <<>> \in V /\ \A v \in V : <<>> \o v = v
  BY EmptySeq, ConcatEmptySeq
<1>5. n = 0 => seqs = <<>>
  BY EmptySeq
<1> HIDE DEF n, V
<1>6. PICK h \in [0..n -> V] : Recursive(h, n, <<>>, step)
  <2> HIDE DEF step
  <2> QED BY <1>1, <1>3, <1>4, RecursionOnNumbers
<1>7. /\ h[0] = <<>>
      /\ \A i \in 1..n : h[i] = h[i - 1] \o seqs[i]
  <2>1. ASSUME NEW i \in 1..n PROVE h[i] = h[i - 1] \o seqs[i]
    <3>1. h[i - 1] \in V
      BY <1>1
    <3> QED BY <1>6, <3>1 DEF Recursive
  <2> QED BY <1>6, <2>1 DEF Recursive
<1> DEFINE f == [i \in 1..n |-> h[i]]
<1>8. IsFlat(f)
  <2>1. ASSUME NEW i \in 1..n
        PROVE  h[i] = IF i = 1 THEN seqs[i] ELSE f[i - 1] \o seqs[i]
    <3>1. CASE i = 1
      <4>1. i - 1 = 0 /\ seqs[i] \in V
        BY <1>1, <3>1
      <4>2. h[i] = <<>> \o seqs[i]
        BY <1>7, <4>1
      <4> QED BY <1>4, <3>1, <4>1, <4>2
    <3>2. CASE i # 1
      <4>1. i - 1 \in 1..n
        BY <1>1, <3>2
      <4> QED BY <1>7, <3>2, <4>1
    <3> QED BY <3>1, <3>2
  <2> QED BY <2>1
<1> DEFINE flatten == CHOOSE k : IsFlat(k)
<1>9. IsFlat(flatten)
  <2> HIDE DEF IsFlat, f
  <2> QED BY <1>8
<1>10. FlattenSeq(seqs) = IF n = 0 THEN seqs ELSE flatten[n]
  BY DEF FlattenSeq, n
<1> HIDE DEF flatten
<1> DEFINE g == [i \in 0..n |-> IF i = 0 THEN <<>> ELSE flatten[i]]
<1>11. g[0] = <<>>
  BY <1>1
<1>12. ASSUME NEW i \in 1..n
       PROVE  g[i] = g[i - 1] \o seqs[i]
  <2>1. g[i] = flatten[i] /\ i - 1 \in 0..n
    BY <1>1
  <2>2. CASE i = 1
    <3>1. flatten[i] = seqs[i]
      BY <1>9, <2>2
    <3>2. i - 1 = 0 /\ seqs[i] \in V
      BY <1>1, <2>2
    <3>3. g[i - 1] = <<>>
      BY <1>11, <3>2
    <3> HIDE DEF g
    <3>4. g[i - 1] \o seqs[i] = seqs[i]
      BY <1>4, <3>2, <3>3
    <3> QED BY <2>1, <3>1, <3>4
  <2>3. CASE i # 1
    <3>1. flatten[i] = flatten[i - 1] \o seqs[i]
      BY <1>9, <2>3
    <3>2. i - 1 # 0
      BY <1>1, <2>3
    <3>3. g[i - 1] = flatten[i - 1]
      BY <2>1, <3>2
    <3> HIDE DEF g
    <3> QED BY <2>1, <3>1, <3>3
  <2> QED BY <2>2, <2>3
<1>13. g \in [0..n -> V]
  <2> DEFINE T == {i \in 0..n : g[i] \in V}
  <2>1. 0 \in T
    <3> HIDE DEF g
    <3> QED BY <1>1, <1>4, <1>11
  <2>2. ASSUME NEW i \in 1..n, i - 1 \in T PROVE i \in T
    <3>1. g[i - 1] \in V /\ i \in 0..n
      BY <1>1, <2>2
    <3> HIDE DEF g
    <3>2. g[i - 1] \o seqs[i] \in V
      BY <1>2, <3>1
    <3> QED BY <1>12, <3>1, <3>2
  <2>3. \A i \in 1..n : i - 1 \in T => i \in T
    BY <2>2
  <2> HIDE DEF T
  <2>4. \A i \in 0..n : i \in T
    BY <1>1, <2>1, <2>3, UpTo
  <2>5. \A i \in 0..n : g[i] \in V
    BY <2>4 DEF T
  <2> QED BY <2>5
<1>14. FlattenSeq(seqs) = g[n]
  <2>1. n \in 0..n
    BY <1>1
  <2> QED BY <1>5, <1>10, <2>1
<1> HIDE DEF g
<1> QED BY <1>11, <1>12, <1>13, <1>14 DEF n, V

LEMMA FlattenRange ==
  ASSUME NEW S, NEW seqs \in Seq(Seq(S))
  PROVE  /\ FlattenSeq(seqs) \in Seq(S)
         /\ Range(FlattenSeq(seqs)) = UNION {Range(seqs[k]) : k \in DOMAIN seqs}
<1> DEFINE n == Len(seqs)
<1>1. n \in Nat /\ DOMAIN seqs = 1..n /\ \A i \in 1..n : seqs[i] \in Seq(S)
  BY LenProperties
<1>2. PICK g \in [0..n -> Seq(S)] :
        /\ g[0] = <<>>
        /\ \A i \in 1..n : g[i] = g[i - 1] \o seqs[i]
        /\ FlattenSeq(seqs) = g[n]
  BY FlattenSteps
<1> HIDE DEF n
<1> DEFINE all(i) == UNION {Range(seqs[k]) : k \in 1..i}
           T == {i \in 0..n : Range(g[i]) = all(i)}
<1>3. 0 \in T
  <2>1. Range(g[0]) = {}
    BY <1>2 DEF Range
  <2> QED BY <1>1, <2>1
<1>4. ASSUME NEW i \in 1..n, i - 1 \in T
      PROVE  i \in T
  <2>1. Range(g[i - 1]) = all(i - 1) /\ i - 1 \in 0..n /\ i \in 0..n
    BY <1>1, <1>4
  <2>2. g[i - 1] \in Seq(S) /\ seqs[i] \in Seq(S)
    BY <1>1, <1>2, <2>1
  <2>3. Range(g[i]) = Range(g[i - 1]) \cup Range(seqs[i])
    <3>1. Range(g[i - 1] \o seqs[i]) = Range(g[i - 1]) \cup Range(seqs[i])
      BY <2>2, RangeConcatenation
    <3>2. g[i] = g[i - 1] \o seqs[i]
      BY <1>2
    <3> QED BY <3>1, <3>2
  <2>4. 1..i = 1..(i - 1) \cup {i}
    BY <1>1, OneMore
  <2>5. all(i) = all(i - 1) \cup Range(seqs[i])
    BY <2>4
  <2> QED BY <2>1, <2>3, <2>5
<1>5. n \in T
  <2>1. \A i \in 1..n : i - 1 \in T => i \in T
    BY <1>4
  <2> HIDE DEF T
  <2>2. \A i \in 0..n : i \in T
    BY <1>1, <1>3, <2>1, UpTo
  <2> QED BY <1>1, <2>2
<1>6. g[n] \in Seq(S)
  BY <1>1, <1>2
<1> QED BY <1>1, <1>2, <1>5, <1>6

-----------------------------------------------------------------------------
(* What is kept of the URLs of a service, if anything is. *)
LEMMA KeptURLsProperties ==
  ASSUME RdapConstants, NEW service \in Service
  PROVE  /\ KeptURLs(service) = <<>> =>
              MaxURLs = 0 \/ ToSet(service.urls) \cap Acceptable = {}
         /\ KeptURLs(service) # <<>> =>
              /\ MaxURLs # 0
              /\ KeptURLs(service)[1] \in URLs
              /\ FirstAcceptable(service.urls, KeptURLs(service)[1])
<1> DEFINE urls == service.urls
           all == AcceptableOf(urls)
<1>1. urls \in Seq(URLs) /\ MaxURLs \in Nat
  BY DEF Service, RdapConstants
<1>2. KeptURLs(service) = Take(all, MaxURLs)
  BY DEF KeptURLs
<1> HIDE DEF urls
<1>3. /\ all \in Seq(URLs)
      /\ all = <<>> <=> \A u \in DOMAIN urls : urls[u] \notin Acceptable
      /\ all # <<>> => FirstAcceptable(urls, all[1])
  BY <1>1, FirstOfAcceptable
<1> HIDE DEF all
<1> DEFINE kept == Take(all, MaxURLs)
<1>4. /\ kept \in Seq(URLs)
      /\ DOMAIN kept = {i \in DOMAIN all : i <= MaxURLs}
      /\ \A i \in DOMAIN kept : kept[i] = all[i]
  BY <1>1, <1>3, TakeProperties
<1> HIDE DEF kept
<1>5. all # <<>> => 1 \in DOMAIN all
  BY <1>3, EmptySeq, LenProperties
<1>6. CASE kept = <<>>
  <2>1. 1 \notin DOMAIN kept
    BY <1>6
  <2>2. MaxURLs = 0 \/ all = <<>>
    BY <1>1, <1>4, <1>5, <2>1
  <2>3. all = <<>> => ToSet(urls) \cap Acceptable = {}
    BY <1>3 DEF ToSet
  <2> QED BY <1>2, <1>6, <2>2, <2>3 DEF kept, urls
<1>7. CASE kept # <<>>
  <2>1. 1 \in DOMAIN kept
    BY <1>4, <1>7, FirstElement
  <2>2. kept[1] = all[1] /\ 1 \in DOMAIN all /\ 1 <= MaxURLs
    BY <1>4, <2>1
  <2>3. all # <<>>
    BY <2>2
  <2>4. kept[1] \in URLs
    BY <1>4, <1>7, FirstElement
  <2> QED BY <1>1, <1>2, <1>3, <1>7, <2>2, <2>3, <2>4 DEF kept, urls
<1> QED BY <1>6, <1>7

(* The prefixes of a service that count. *)
Counted(s, max) == {i \in DOMAIN s : i <= max}

LEMMA EntriesOfProperties ==
  ASSUME RdapConstants, NEW service \in Service
  PROVE  /\ EntriesOf(service) \in Seq(Entry)
         /\ KeptURLs(service) = <<>> => Range(EntriesOf(service)) = {}
         /\ KeptURLs(service) # <<>> =>
              Range(EntriesOf(service))
                = {[prefix |-> service.prefixes[k], url |-> KeptURLs(service)[1]] :
                     k \in Counted(service.prefixes, MaxPrefixes)}
<1>1. CASE KeptURLs(service) = <<>>
  <2>1. EntriesOf(service) = <<>>
    BY <1>1 DEF EntriesOf
  <2>2. Range(<<>>) = {}
    BY DEF Range
  <2> QED BY <1>1, <2>1, <2>2, EmptySeq
<1>2. CASE KeptURLs(service) # <<>>
  <2> DEFINE prefixes == service.prefixes
             url == KeptURLs(service)[1]
             kept == Take(prefixes, MaxPrefixes)
             entries == [k \in DOMAIN kept |-> [prefix |-> kept[k], url |-> url]]
  <2>1. EntriesOf(service) = entries
    BY <1>2 DEF EntriesOf
  <2>2. url \in URLs
    BY <1>2, KeptURLsProperties
  <2>3. prefixes \in Seq(Blocks) /\ MaxPrefixes \in Nat
    BY DEF Service, RdapConstants
  <2> HIDE DEF prefixes, url
  <2>4. /\ kept \in Seq(Blocks)
        /\ DOMAIN kept = Counted(prefixes, MaxPrefixes)
        /\ \A i \in DOMAIN kept : kept[i] = prefixes[i]
    BY <2>3, TakeProperties DEF Counted
  <2> HIDE DEF kept
  <2>5. ASSUME NEW k \in DOMAIN kept PROVE [prefix |-> kept[k], url |-> url] \in Entry
    <3>1. kept[k] \in Blocks
      BY <2>4, LenProperties
    <3> QED BY <2>2, <3>1 DEF Entry
  <2>6. DOMAIN kept = 1..Len(kept) /\ Len(kept) \in Nat
    BY <2>4, LenProperties
  <2>7. entries \in Seq(Entry)
    <3>1. entries \in [1..Len(kept) -> Entry]
      BY <2>5, <2>6
    <3> QED BY <2>6, <3>1, FunctionIsSeq
  <2>8. Range(entries) = {[prefix |-> prefixes[k], url |-> url] :
                            k \in Counted(prefixes, MaxPrefixes)}
    BY <2>4 DEF Range
  <2> HIDE DEF entries
  <2> QED BY <1>2, <2>1, <2>7, <2>8 DEF prefixes, url
<1> QED BY <1>1, <1>2

LEMMA ParseProperties ==
  ASSUME RdapConstants, NEW d \in Documents
  PROVE  /\ Parse(d) \in Seq(Entry)
         /\ Range(Parse(d)) = UNION {Range(EntriesOf(d[k])) :
                                       k \in Counted(d, MaxServices)}
<1> DEFINE services == Take(d, MaxServices)
           seqs == [k \in DOMAIN services |-> EntriesOf(services[k])]
<1>1. d \in Seq(Service) /\ MaxServices \in Nat
  BY DEF RdapConstants
<1>2. /\ services \in Seq(Service)
      /\ DOMAIN services = Counted(d, MaxServices)
      /\ \A i \in DOMAIN services : services[i] = d[i]
  BY <1>1, TakeProperties DEF Counted
<1>3. Parse(d) = FlattenSeq(seqs)
  BY DEF Parse
<1> HIDE DEF services
<1>4. DOMAIN services = 1..Len(services) /\ Len(services) \in Nat
  BY <1>2, LenProperties
<1>5. seqs \in Seq(Seq(Entry))
  <2>1. ASSUME NEW k \in DOMAIN services PROVE EntriesOf(services[k]) \in Seq(Entry)
    <3>1. services[k] \in Service
      BY <1>2, LenProperties
    <3> QED BY <3>1, EntriesOfProperties
  <2>2. seqs \in [1..Len(services) -> Seq(Entry)]
    BY <1>4, <2>1
  <2> QED BY <1>4, <2>2, FunctionIsSeq
<1>6. /\ FlattenSeq(seqs) \in Seq(Entry)
      /\ Range(FlattenSeq(seqs)) = UNION {Range(seqs[k]) : k \in DOMAIN seqs}
  <2> HIDE DEF seqs
  <2> QED BY <1>5, FlattenRange
<1>7. \A k \in DOMAIN seqs : seqs[k] = EntriesOf(d[k])
  BY <1>2
<1>8. DOMAIN seqs = Counted(d, MaxServices)
  BY <1>2
<1> HIDE DEF seqs
<1> QED BY <1>3, <1>6, <1>7, <1>8
-----------------------------------------------------------------------------
(* What is in a cell was parsed from a document; a run is ready only when  *)
(* its cell is full; and what a run has asked is the service for its       *)
(* address by the registry that is, for good, in its cell.                 *)

CellsAreParsed ==
  \A f \in Families : cells[f] # None => \E d \in Documents : Parse(d) = cells[f]

ReadyIsFull ==
  \A r \in Runs : state[r] = "ready" => Cell(r) # None

AsksByTheCell(r) ==
  /\ Cell(r) # None
  /\ ServiceFor(Cell(r), AddressOf[r]) # None
  /\ asked[r] = ServiceFor(Cell(r), AddressOf[r]).url

AskedByTheCell ==
  /\ asked = [r \in Runs |-> asked[r]]
  /\ \A r \in Runs : asked[r] # None => AsksByTheCell(r)

RegistryInvariant == CellsAreParsed /\ ReadyIsFull /\ AskedByTheCell

(* What a step of a run does to the cells, to who is ready, and to what    *)
(* has been asked.                                                         *)
Fills(r) ==
  \/ cells' = cells
  \/ /\ Cell(r) = None
     /\ \E d \in Documents : cells' = [cells EXCEPT ![FamilyOf[r]] = Parse(d)]

Readies(r) ==
  \/ \E s \in {"waiting", "fetching", "querying", "over"} :
       state' = [state EXCEPT ![r] = s]
  \/ state' = [state EXCEPT ![r] = "ready"] /\ cells'[FamilyOf[r]] # None

Asks(r) ==
  \/ asked' = asked
  \/ /\ cells' = cells
     /\ state[r] = "ready"
     /\ ServiceFor(Cell(r), AddressOf[r]) # None
     /\ asked' = [asked EXCEPT ![r] = ServiceFor(Cell(r), AddressOf[r]).url]

LEMMA ParseIsSome ==
  ASSUME NEW d \in Documents
  PROVE  Parse(d) # None
BY RdapConstants, ParseProperties DEF RdapConstants

LEMMA AsksOfRun ==
  ASSUME SharingInvariant, NEW r \in Runs,
         Start(r) \/ Advance(r) \/ Network(r) \/ Cancel(r)
  PROVE  Fills(r) /\ Readies(r) /\ Asks(r)
<1>1. CASE Start(r)
  BY <1>1 DEF Start, Goto, Fills, Readies, Asks
<1>2. CASE UseRegistry(r)
  BY <1>2 DEF UseRegistry, Goto, Cell, Fills, Readies, Asks
<1>3. CASE Fetch(r)
  BY <1>3 DEF Fetch, Goto, Fills, Readies, Asks
<1>4. CASE FetchDenied(r)
  BY <1>4 DEF FetchDenied, End, Goto, Fills, Readies, Asks
<1>5. CASE NoService(r)
  BY <1>5 DEF NoService, End, Goto, Fills, Readies, Asks
<1>6. CASE Query(r)
  BY <1>6 DEF Query, Goto, Fills, Readies, Asks
<1>7. CASE QueryDenied(r)
  BY <1>7 DEF QueryDenied, End, Goto, Fills, Readies, Asks
<1>8. CASE Fetched(r)
  <2>1. PICK d \in Documents : cells' = [cells EXCEPT ![FamilyOf[r]] = Parse(d)]
    BY <1>8 DEF Fetched
  <2>2. Cell(r) = None
    BY <1>8 DEF Fetched, SharingInvariant, OneFetchAtATime
  <2>3. cells'[FamilyOf[r]] # None
    <3>1. cells = [f \in Families |-> cells[f]] /\ FamilyOf[r] \in Families
      BY RdapConstants DEF SharingInvariant, Shape, RdapConstants
    <3> QED BY <2>1, <3>1, ParseIsSome
  <2> QED BY <1>8, <2>1, <2>2, <2>3 DEF Fetched, Goto, Fills, Readies, Asks
<1>9. CASE FetchFailed(r)
  BY <1>9 DEF FetchFailed, End, Goto, Fills, Readies, Asks
<1>10. CASE Answered(r)
  BY <1>10 DEF Answered, End, Goto, Fills, Readies, Asks
<1>11. CASE Cancel(r)
  BY <1>11 DEF Cancel, End, Goto, Fills, Readies, Asks
<1> QED
  BY <1>1, <1>2, <1>3, <1>4, <1>5, <1>6, <1>7, <1>8, <1>9, <1>10, <1>11
     DEF Advance, Network

LEMMA RegistryInitially ==
  ASSUME Init
  PROVE  RegistryInvariant
<1>1. \A r \in Runs : FamilyOf[r] \in Families
  BY RdapConstants DEF RdapConstants
<1> QED BY <1>1 DEF Init, RegistryInvariant, CellsAreParsed, ReadyIsFull,
                    AskedByTheCell, Cell

LEMMA RegistryInductive ==
  ASSUME SharingInvariant, RegistryInvariant, [Next]_vars
  PROVE  RegistryInvariant'
<1>1. ASSUME NEW r \in Runs, Start(r) \/ Advance(r) \/ Network(r) \/ Cancel(r)
      PROVE  RegistryInvariant'
  <2>1. Fills(r) /\ Readies(r) /\ Asks(r)
    BY <1>1, AsksOfRun
  <2>2. /\ cells = [f \in Families |-> cells[f]]
        /\ state = [q \in Runs |-> state[q]]
        /\ asked = [q \in Runs |-> asked[q]]
        /\ \A q \in Runs : FamilyOf[q] \in Families
    BY RdapConstants
       DEF SharingInvariant, Shape, RegistryInvariant, AskedByTheCell, RdapConstants
  <2>3. \A f \in Families : cells[f] # None => cells'[f] = cells[f]
    BY <2>1, <2>2 DEF Fills, Cell
  <2>4. CellsAreParsed'
    BY <2>1, <2>2 DEF Fills, Cell, RegistryInvariant, CellsAreParsed
  <2>5. ReadyIsFull'
    BY <2>1, <2>2, <2>3 DEF Readies, Cell, RegistryInvariant, ReadyIsFull
  <2>6. asked' = [q \in Runs |-> asked'[q]]
    BY <2>1, <2>2 DEF Asks
  <2>7. ASSUME NEW q \in Runs, asked'[q] # None
        PROVE  AsksByTheCell(q)'
    <3>1. CASE asked'[q] = asked[q]
      <4>1. AsksByTheCell(q)
        BY <2>7, <3>1 DEF RegistryInvariant, AskedByTheCell
      <4>2. Cell(q)' = Cell(q)
        BY <2>2, <2>3, <4>1 DEF AsksByTheCell, Cell
      <4> QED BY <3>1, <4>1, <4>2 DEF AsksByTheCell
    <3>2. CASE asked'[q] # asked[q]
      <4>1. /\ q = r /\ state[q] = "ready" /\ Cell(q)' = Cell(q)
            /\ ServiceFor(Cell(q), AddressOf[q]) # None
            /\ asked'[q] = ServiceFor(Cell(q), AddressOf[q]).url
        BY <2>1, <2>2, <3>2 DEF Asks, Cell
      <4>2. Cell(q) # None
        BY <4>1 DEF RegistryInvariant, ReadyIsFull
      <4> QED BY <4>1, <4>2 DEF AsksByTheCell
    <3> QED BY <3>1, <3>2
  <2> QED BY <2>4, <2>5, <2>6, <2>7 DEF RegistryInvariant, AskedByTheCell
<1>2. CASE UNCHANGED vars
  BY <1>2 DEF vars, RegistryInvariant, CellsAreParsed, ReadyIsFull,
              AskedByTheCell, AsksByTheCell, Cell
<1> QED BY <1>1, <1>2 DEF Next, Over

(* An entry of the registry comes from a place of the document that        *)
(* counts, and every such place has its entry there.                       *)
EntryAt(d, place) ==
  [prefix |-> d[place[1]].prefixes[place[2]], url |-> KeptURLs(d[place[1]])[1]]

LEMMA EntriesAreListed ==
  ASSUME NEW d \in Documents, NEW e \in Range(Parse(d))
  PROVE  \E at \in Listed(d) :
           e = EntryAt(d, at) /\ FirstAcceptable(d[at[1]].urls, e.url)
<1>1. d \in Seq(Service) /\ MaxServices \in Nat /\ MaxPrefixes \in Nat
  BY RdapConstants DEF RdapConstants
<1>2. PICK k \in Counted(d, MaxServices) : e \in Range(EntriesOf(d[k]))
  BY RdapConstants, ParseProperties
<1>3. k \in 1..MaxServices /\ k \in DOMAIN d /\ d[k] \in Service
  BY <1>1, <1>2, LenProperties DEF Counted
<1>4. KeptURLs(d[k]) # <<>>
  BY RdapConstants, <1>2, <1>3, EntriesOfProperties
<1>5. PICK j \in Counted(d[k].prefixes, MaxPrefixes) :
        e = [prefix |-> d[k].prefixes[j], url |-> KeptURLs(d[k])[1]]
  BY RdapConstants, <1>2, <1>3, <1>4, EntriesOfProperties
<1>6. j \in 1..MaxPrefixes /\ j \in DOMAIN d[k].prefixes
  <2>1. d[k].prefixes \in Seq(Blocks)
    BY <1>3 DEF Service
  <2> QED BY <1>1, <1>5, <2>1, LenProperties DEF Counted
<1>7. FirstAcceptable(d[k].urls, e.url)
  BY RdapConstants, <1>3, <1>4, <1>5, KeptURLsProperties
<1>8. ToSet(d[k].urls) \cap Acceptable # {}
  BY <1>7 DEF FirstAcceptable, ToSet
<1> DEFINE at == <<k, j>>
<1>9. at \in Listed(d)
  BY <1>3, <1>6, <1>8 DEF Listed
<1>10. e = EntryAt(d, at)
  BY <1>5 DEF EntryAt
<1> QED BY <1>7, <1>9, <1>10

LEMMA ListedAreEntries ==
  ASSUME NEW d \in Documents, NEW at \in Listed(d), Parse(d) # <<>>
  PROVE  EntryAt(d, at) \in Range(Parse(d))
<1> DEFINE k == at[1]
           j == at[2]
<1>1. d \in Seq(Service) /\ MaxServices \in Nat /\ MaxPrefixes \in Nat /\ MaxURLs \in Nat
  BY RdapConstants DEF RdapConstants
<1>2. /\ k \in 1..MaxServices /\ j \in 1..MaxPrefixes
      /\ k \in DOMAIN d /\ j \in DOMAIN d[k].prefixes
      /\ ToSet(d[k].urls) \cap Acceptable # {}
  BY DEF Listed
<1>3. d[k] \in Service
  BY <1>1, <1>2, LenProperties
<1>4. MaxURLs # 0
  <2>1. Parse(d) \in Seq(Entry)
    BY RdapConstants, ParseProperties
  <2>2. 1 \in DOMAIN Parse(d)
    BY <2>1, FirstElement
  <2>3. Parse(d)[1] \in Range(Parse(d))
    BY <2>2 DEF Range
  <2>4. PICK m \in Counted(d, MaxServices) : Parse(d)[1] \in Range(EntriesOf(d[m]))
    BY RdapConstants, <2>3, ParseProperties
  <2>5. d[m] \in Service
    BY <1>1, <2>4, LenProperties DEF Counted
  <2>6. KeptURLs(d[m]) # <<>>
    BY RdapConstants, <2>4, <2>5, EntriesOfProperties
  <2> QED BY RdapConstants, <2>5, <2>6, KeptURLsProperties
<1>5. KeptURLs(d[k]) # <<>>
  BY RdapConstants, <1>2, <1>3, <1>4, KeptURLsProperties
<1>6. k \in Counted(d, MaxServices) /\ j \in Counted(d[k].prefixes, MaxPrefixes)
  BY <1>1, <1>2 DEF Counted
<1>7. EntryAt(d, at) \in Range(EntriesOf(d[k]))
  <2>1. EntryAt(d, at) = [prefix |-> d[k].prefixes[j], url |-> KeptURLs(d[k])[1]]
    BY DEF EntryAt
  <2> HIDE DEF j, k
  <2> QED BY RdapConstants, <1>3, <1>5, <1>6, <2>1, EntriesOfProperties
<1> HIDE DEF j, k
<1> QED BY RdapConstants, <1>6, <1>7, ParseProperties

LEMMA AskedIsMostSpecific ==
  ASSUME RegistryInvariant
  PROVE  MostSpecificService
<1> SUFFICES ASSUME NEW r \in Runs, asked[r] # None
    PROVE  \E d \in Documents :
      /\ Parse(d) = Cell(r)
      /\ \E at \in Listed(d) :
           LET prefix(place) == d[place[1]].prefixes[place[2]]
               covering(place) == AddressOf[r] \in Covers[prefix(place)]
           IN /\ covering(at)
              /\ FirstAcceptable(d[at[1]].urls, asked[r])
              /\ \A place \in Listed(d) : covering(place) =>
                   PrefixLength[prefix(place)] <= PrefixLength[prefix(at)]
  BY DEF MostSpecificService
<1>1. AsksByTheCell(r)
  BY DEF RegistryInvariant, AskedByTheCell
<1>2. PICK d \in Documents : Parse(d) = Cell(r)
  <2>1. FamilyOf[r] \in Families /\ Cell(r) # None
    BY RdapConstants, <1>1 DEF RdapConstants, AsksByTheCell
  <2> QED BY <2>1 DEF Cell, RegistryInvariant, CellsAreParsed
<1> DEFINE entries == Parse(d)
           best == ServiceFor(entries, AddressOf[r])
<1>3. entries \in Seq(Entry)
  BY RdapConstants, ParseProperties
<1>4. best # None /\ asked[r] = best.url
  BY <1>1, <1>2 DEF AsksByTheCell
<1>5. /\ \E i \in DOMAIN entries : entries[i] = best
      /\ AddressOf[r] \in Covers[best.prefix]
      /\ \A i \in DOMAIN entries : AddressOf[r] \in Covers[entries[i].prefix] =>
           PrefixLength[entries[i].prefix] <= PrefixLength[best.prefix]
  <2> HIDE DEF entries
  <2> QED BY RdapConstants, <1>3, <1>4, ServiceForIsLongest
<1> HIDE DEF best
<1>6. best \in Range(Parse(d)) /\ Parse(d) # <<>>
  <2>1. \A i \in DOMAIN entries : entries # <<>>
    OBVIOUS
  <2> QED BY <1>5, <2>1 DEF Range
<1>7. PICK at \in Listed(d) :
        best = EntryAt(d, at) /\ FirstAcceptable(d[at[1]].urls, best.url)
  BY <1>6, EntriesAreListed
<1> DEFINE prefix(place) == d[place[1]].prefixes[place[2]]
<1>8. \A place : EntryAt(d, place).prefix = prefix(place)
  BY DEF EntryAt
<1>9. best.prefix = prefix(at)
  BY <1>7, <1>8
<1>10. ASSUME NEW place \in Listed(d), AddressOf[r] \in Covers[prefix(place)]
       PROVE  PrefixLength[prefix(place)] <= PrefixLength[prefix(at)]
  <2>1. EntryAt(d, place) \in Range(entries)
    BY <1>6, ListedAreEntries
  <2>2. PICK i \in DOMAIN entries : entries[i] = EntryAt(d, place)
    BY <2>1 DEF Range
  <2>3. entries[i].prefix = prefix(place)
    BY <1>8, <2>2
  <2> HIDE DEF entries, prefix
  <2> QED BY <1>5, <1>9, <1>10, <2>3
<1>11. AddressOf[r] \in Covers[prefix(at)] /\ FirstAcceptable(d[at[1]].urls, asked[r])
  BY <1>4, <1>5, <1>7, <1>9
<1> QED BY <1>2, <1>10, <1>11

(* Whatever the documents hold, a run asks the first acceptable URL at a   *)
(* covering place of greatest length in the document that was fetched,     *)
(* among the places within the limits.                                     *)
THEOREM ServicesAreMostSpecific == Spec => []MostSpecificService
<1>1. Init => RegistryInvariant
  BY RegistryInitially
<1>2. SharingInvariant /\ RegistryInvariant /\ [Next]_vars => RegistryInvariant'
  BY RegistryInductive
<1>3. RegistryInvariant => MostSpecificService
  BY AskedIsMostSpecific
<1> QED BY <1>1, <1>2, <1>3, SharingInvariance, PTL DEF Spec

-----------------------------------------------------------------------------
(* Types *)

LEMMA TypesInductive ==
  ASSUME SharingInvariant, RegistryInvariant, TypeOK, [Next]_vars
  PROVE  TypeOK'
<1>1. /\ SharingInvariant' /\ RegistryInvariant'
  BY SharingInductive, RegistryInductive
<1>2. \A r \in Runs : FamilyOf[r] \in Families
  BY RdapConstants DEF RdapConstants
<1>3. cells' \in [Families -> Seq(Entry) \cup {None}]
  <2>1. cells' = [f \in Families |-> cells'[f]]
    BY <1>1 DEF SharingInvariant, Shape
  <2>2. \A d \in Documents : Parse(d) \in Seq(Entry)
    BY RdapConstants, ParseProperties
  <2>3. ASSUME NEW f \in Families
        PROVE  cells'[f] \in Seq(Entry) \cup {None}
    BY <1>1, <2>2 DEF RegistryInvariant, CellsAreParsed
  <2>4. QED
    BY <2>1, <2>3
<1>4. /\ holder' \in [Families -> Runs \cup {None}]
      /\ used' \in [Cases -> 0..MaxRequests]
  BY <1>1 DEF SharingInvariant, Shape
<1>5. state' \in [Runs -> {"unborn", "waiting", "fetching", "ready",
                           "querying", "over"}]
  <2>1. CASE UNCHANGED vars
    BY <2>1 DEF vars, TypeOK
  <2>2. ASSUME NEW r \in Runs, Apart(r) \/ Took(r) \/ Gave(r)
        PROVE  \E s \in {"waiting", "fetching", "ready", "querying", "over"} :
                 state' = [state EXCEPT ![r] = s]
    BY <2>2 DEF Apart, Took, Gave
  <2>3. QED
    BY <2>1, <2>2, StepsOfRun DEF TypeOK, Next, Over
<1>6. result' \in [Runs -> {"none", "ok", "failed", "budget", "cancelled"}]
  <2>1. CASE UNCHANGED vars
    BY <2>1 DEF vars, TypeOK
  <2>2. ASSUME NEW r \in Runs, Spent(r)
        PROVE  result' \in [Runs -> {"none", "ok", "failed", "budget", "cancelled"}]
    BY <2>2 DEF Spent, TypeOK
  <2>3. QED
    BY <2>1, <2>2, StepsOfRun DEF Next, Over
<1>7. asked' \in [Runs -> URLs \cup {None}]
  <2>1. asked' = [r \in Runs |-> asked'[r]]
    BY <1>1 DEF RegistryInvariant, AskedByTheCell
  <2>2. ASSUME NEW r \in Runs, asked'[r] # None
        PROVE  asked'[r] \in URLs
    <3>1. AsksByTheCell(r)'
      BY <1>1, <2>2 DEF RegistryInvariant, AskedByTheCell
    <3>2. cells'[FamilyOf[r]] \in Seq(Entry)
      BY <1>2, <1>3, <3>1 DEF AsksByTheCell, Cell
    <3>3. /\ ServiceFor(cells'[FamilyOf[r]], AddressOf[r]) # None
          /\ asked'[r] = ServiceFor(cells'[FamilyOf[r]], AddressOf[r]).url
      BY <3>1 DEF AsksByTheCell, Cell
    <3>4. \E i \in DOMAIN cells'[FamilyOf[r]] :
            cells'[FamilyOf[r]][i] = ServiceFor(cells'[FamilyOf[r]], AddressOf[r])
      BY RdapConstants, <3>2, <3>3, ServiceForIsLongest
    <3>5. ServiceFor(cells'[FamilyOf[r]], AddressOf[r]) \in Entry
      BY <3>2, <3>4, LenProperties
    <3>6. QED
      BY <3>3, <3>5 DEF Entry
  <2>3. QED
    BY <2>1, <2>2
<1>8. QED
  BY <1>3, <1>4, <1>5, <1>6, <1>7 DEF TypeOK

(* The types, whatever the documents hold and however runs are cut off; in *)
(* particular no investigation makes more requests than its budget allows, *)
(* and what is kept in a cell is a registry that can be searched.          *)
THEOREM TypesHold == Spec => []TypeOK
<1>1. Init => TypeOK
  BY RdapConstants DEF RdapConstants, Init, TypeOK
<1>2. Init => RegistryInvariant
  BY RegistryInitially
<1>3. SharingInvariant /\ RegistryInvariant /\ [Next]_vars => RegistryInvariant'
  BY RegistryInductive
<1>4. SharingInvariant /\ RegistryInvariant /\ TypeOK /\ [Next]_vars => TypeOK'
  BY TypesInductive
<1>5. QED
  BY <1>1, <1>2, <1>3, <1>4, SharingInvariance, PTL DEF Spec
=============================================================================
