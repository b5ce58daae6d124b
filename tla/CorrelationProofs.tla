-------------------------- MODULE CorrelationProofs --------------------------
(***************************************************************************)
(* Proofs about the correlation: that the disagreements it reports are     *)
(* those there are, that it leaves nothing out without a word, and that    *)
(* its report does not depend on the order in which the sources complete,  *)
(* whatever they report.                                                   *)
(***************************************************************************)
EXTENDS Correlation, FoldLemmas

-----------------------------------------------------------------------------
(* Sequences *)

LEMMA ItemsAre ==
  ASSUME NEW S, NEW s \in Seq(S)
  PROVE  /\ Items(s) \subseteq S /\ IsFiniteSet(Items(s))
         /\ s \in Seq(Items(s))
         /\ \A i \in DOMAIN s : s[i] \in Items(s)
         /\ \A x \in Items(s) : \E i \in DOMAIN s : s[i] = x
<1>1. /\ Len(s) \in Nat /\ DOMAIN s = 1..Len(s) /\ s \in [1..Len(s) -> S]
      /\ \A i \in 1..Len(s) : s[i] \in S
  BY LenProperties, ElementOfSeq
<1>2. /\ Items(s) \subseteq S
      /\ \A i \in DOMAIN s : s[i] \in Items(s)
      /\ \A x \in Items(s) : \E i \in DOMAIN s : s[i] = x
  BY <1>1 DEF Items
<1>3. s \in [1..Len(s) -> Items(s)]
  BY <1>1, <1>2
<1>4. IsFiniteSet(1..Len(s))
  BY <1>1, FS_Interval
<1>5. s \in Surjection(1..Len(s), Items(s))
  <2> DEFINE I == Items(s)
             n == Len(s)
  <2>1. s \in [1..n -> I] /\ \A x \in I : \E i \in 1..n : s[i] = x
    BY <1>1, <1>2, <1>3
  <2> HIDE DEF I, n
  <2>2. s \in Surjection(1..n, I)
    BY <2>1 DEF Surjection
  <2> QED BY <2>2 DEF I, n
<1>6. IsFiniteSet(Items(s))
  BY <1>4, <1>5, FS_Surjection
<1>7. s \in Seq(Items(s))
  BY <1>1, <1>3, SeqDef
<1> QED BY <1>2, <1>6, <1>7

LEMMA ItemsOfAppend ==
  ASSUME NEW S, NEW s \in Seq(S), NEW x \in S
  PROVE  /\ Append(s, x) \in Seq(S) /\ Append(s, x) # <<>>
         /\ Items(Append(s, x)) = Items(s) \cup {x}
<1>1. /\ Append(s, x) \in Seq(S) /\ Len(Append(s, x)) = Len(s) + 1
      /\ \A i \in 1..Len(s) : Append(s, x)[i] = s[i]
      /\ Append(s, x)[Len(s) + 1] = x
  BY AppendProperties
<1>2. /\ Len(s) \in Nat /\ DOMAIN s = 1..Len(s)
      /\ DOMAIN Append(s, x) = 1..(Len(s) + 1)
  BY <1>1, LenProperties
<1>3. 1..(Len(s) + 1) = 1..Len(s) \cup {Len(s) + 1}
  BY <1>2
<1>4. Items(Append(s, x)) = {Append(s, x)[i] : i \in 1..Len(s)} \cup {x}
  BY <1>1, <1>2, <1>3 DEF Items
<1>5. {Append(s, x)[i] : i \in 1..Len(s)} = Items(s)
  BY <1>1, <1>2 DEF Items
<1>6. Append(s, x) # <<>>
  <2>1. Len(Append(s, x)) > 0
    BY <1>1, <1>2
  <2> QED BY <2>1
<1> QED BY <1>1, <1>4, <1>5, <1>6

LEMMA ItemsOfConcat ==
  ASSUME NEW S, NEW s \in Seq(S), NEW t \in Seq(S)
  PROVE  s \o t \in Seq(S) /\ Items(s \o t) = Items(s) \cup Items(t)
<1> DEFINE n == Len(s)
           m == Len(t)
<1>1. /\ s \o t \in Seq(S) /\ Len(s \o t) = n + m
      /\ \A i \in 1..(n + m) : (s \o t)[i] = IF i <= n THEN s[i] ELSE t[i - n]
  BY ConcatProperties
<1>2. /\ n \in Nat /\ m \in Nat /\ DOMAIN s = 1..n /\ DOMAIN t = 1..m
      /\ DOMAIN (s \o t) = 1..(n + m)
  BY <1>1, LenProperties
<1> DEFINE whole == s \o t
<1> HIDE DEF n, m, whole
<1>3. ASSUME NEW i \in 1..(n + m) PROVE whole[i] \in Items(s) \cup Items(t)
  <2>1. CASE i <= n
    <3>1. i \in 1..n /\ whole[i] = s[i]
      BY <1>1, <1>2, <2>1 DEF whole
    <3> QED BY <1>2, <3>1 DEF Items
  <2>2. CASE i > n
    <3>1. i - n \in 1..m /\ whole[i] = t[i - n]
      BY <1>1, <1>2, <2>2 DEF whole
    <3> QED BY <1>2, <3>1 DEF Items
  <2> QED BY <1>2, <2>1, <2>2
<1>4. ASSUME NEW i \in 1..n PROVE \E j \in 1..(n + m) : whole[j] = s[i]
  <2>1. i \in 1..(n + m) /\ whole[i] = s[i]
    BY <1>1, <1>2 DEF whole
  <2> QED BY <2>1
<1>5. ASSUME NEW i \in 1..m PROVE \E j \in 1..(n + m) : whole[j] = t[i]
  <2>1. /\ n + i \in 1..(n + m) /\ ~ (n + i <= n) /\ (n + i) - n = i
    BY <1>2
  <2>2. whole[n + i] = t[i]
    BY <1>1, <2>1 DEF whole
  <2> QED BY <2>1, <2>2
<1>6. DOMAIN whole = 1..(n + m)
  BY <1>2 DEF whole
<1>7. Items(whole) \subseteq Items(s) \cup Items(t)
  BY <1>3, <1>6 DEF Items
<1>8. Items(s) \subseteq Items(whole)
  BY <1>2, <1>4, <1>6 DEF Items
<1>9. Items(t) \subseteq Items(whole)
  BY <1>2, <1>5, <1>6 DEF Items
<1> QED BY <1>1, <1>7, <1>8, <1>9 DEF whole

-----------------------------------------------------------------------------
(* What is recorded *)

(* The edges between some entities that cite some evidence.                *)
EdgesOf(E, K) ==
  {r \in [kind : DOMAIN Allows, source : E, target : E, evidence : Seq(K) \ {<<>>}] :
     /\ IsEntity(r.source) /\ IsEntity(r.target)
     /\ <<r.source[1], r.target[1]>> = Allows[r.kind]}

(* No two relationships are the same edge.                                 *)
EdgeLists(E, K) ==
  {edges \in Seq(EdgesOf(E, K)) :
     \A i, j \in DOMAIN edges : SameEdge(edges[i], edges[j]) => i = j}

(* What is recorded is a list of observations, and a list of different     *)
(* edges, each of which cites some of them.                                *)
IsInvestigation(inv) ==
  /\ inv \in [observations : Seq(Items(inv.observations)),
              relationships : {inv.relationships}, sources : Seq(Items(inv.sources))]
  /\ \E E : inv.relationships \in EdgeLists(E, IDsIn(inv.observations))

LEMMA SequencesGrow ==
  ASSUME NEW S, NEW T, S \subseteq T, NEW s \in Seq(S)
  PROVE  s \in Seq(T)
<1>1. s \in [1..Len(s) -> S] /\ Len(s) \in Nat
  BY LenProperties
<1>2. s \in [1..Len(s) -> T]
  BY <1>1
<1> QED BY <1>1, <1>2, SeqDef

LEMMA EdgesGrow ==
  ASSUME NEW E, NEW F, NEW K, NEW L, E \subseteq F, K \subseteq L
  PROVE  EdgesOf(E, K) \subseteq EdgesOf(F, L) /\ EdgeLists(E, K) \subseteq EdgeLists(F, L)
<1>1. ASSUME NEW r \in EdgesOf(E, K) PROVE r \in EdgesOf(F, L)
  <2>1. r.evidence \in Seq(K) /\ r.evidence # <<>>
    BY DEF EdgesOf
  <2>2. r.evidence \in Seq(L) \ {<<>>}
    BY <2>1, SequencesGrow
  <2>3. r \in [kind : DOMAIN Allows, source : F, target : F, evidence : Seq(L) \ {<<>>}]
    BY <2>2 DEF EdgesOf
  <2> QED BY <2>3 DEF EdgesOf
<1>2. ASSUME NEW edges \in EdgeLists(E, K) PROVE edges \in EdgeLists(F, L)
  <2>1. edges \in Seq(EdgesOf(E, K))
    BY DEF EdgeLists
  <2>2. edges \in Seq(EdgesOf(F, L))
    <3>1. EdgesOf(E, K) \subseteq EdgesOf(F, L)
      BY <1>1
    <3> QED BY <2>1, <3>1, SequencesGrow
  <2> QED BY <2>2 DEF EdgeLists
<1> QED BY <1>1, <1>2

(* Evidence is added item by item. *)
AddsEvidence(g, K, evidence, more) ==
  /\ g \in [0..Len(more) -> Seq(K)] /\ g[0] = evidence
  /\ \A i \in 1..Len(more) : g[i] = AddEvidence(g[i - 1], more[i])
  /\ MergeEvidence(evidence, more) = g[Len(more)]

LEMMA EvidenceSteps ==
  ASSUME NEW K, NEW evidence \in Seq(K), NEW more \in Seq(K)
  PROVE  \E g : AddsEvidence(g, K, evidence, more)
<1> DEFINE n == Len(more)
           V == Seq(K)
           base == evidence
           step == [i \in 1..n |-> [kept \in V |-> AddEvidence(kept, more[i])]]
           IsFold(f) ==
             f = [s \in SUBSET (1..n) |->
                    IF s = {} THEN base
                    ELSE AddEvidence(f[s \ {Max(s)}], more[Max(s)])]
<1>1. n \in Nat /\ DOMAIN more = 1..n /\ \A i \in 1..n : more[i] \in K
  BY LenProperties, ElementOfSeq
<1> HIDE DEF n
<1>2. ASSUME NEW i \in 1..n, NEW kept \in V
      PROVE  AddEvidence(kept, more[i]) \in V
  BY <1>1, ItemsOfAppend DEF AddEvidence
<1>3. base \in V
  OBVIOUS
<1> HIDE DEF V, base
<1>4. PICK f \in [SUBSET (1..n) -> V] : IsFolded(f, n, V, base, step)
  <2>1. step \in [1..n -> [V -> V]]
    BY <1>2
  <2> HIDE DEF step
  <2> QED BY <1>1, <1>3, <2>1, FoldExists
<1>5. IsFold(f)
  <2>1. ASSUME NEW s \in SUBSET (1..n), s # {}
        PROVE  f[s] = AddEvidence(f[s \ {Max(s)}], more[Max(s)])
    BY <1>4, <2>1 DEF IsFolded
  <2> QED BY <1>4, <2>1 DEF IsFolded
<1> DEFINE iter == CHOOSE h : IsFold(h)
<1>6. IsFold(iter)
  <2> HIDE DEF IsFold
  <2> QED BY <1>5
<1>7. MergeEvidence(evidence, more) = iter[1..n]
  BY <1>1 DEF MergeEvidence, FoldLeft, MapThenFoldSet, base
<1> HIDE DEF iter
<1> DEFINE g == [i \in 0..n |-> iter[1..i]]
<1>8. ASSUME NEW i \in 1..n
      PROVE  g[i] = AddEvidence(g[i - 1], more[i])
  <2>1. /\ 1..i \in SUBSET (1..n) /\ 1..i # {}
        /\ Max(1..i) = i /\ (1..i) \ {i} = 1..(i - 1)
    BY <1>1, InitialSegments
  <2> DEFINE s == 1..i
  <2>2. iter[s] = AddEvidence(iter[s \ {Max(s)}], more[Max(s)])
    <3>1. s \in SUBSET (1..n) /\ s # {}
      BY <2>1
    <3> HIDE DEF s
    <3> QED BY <1>6, <3>1
  <2>3. i \in 0..n /\ i - 1 \in 0..n
    BY <1>1
  <2> QED BY <2>1, <2>2, <2>3
<1>9. 0 \in 0..n /\ n \in 0..n /\ g[0] = base /\ g[n] = iter[1..n]
  <2>1. 0 \in 0..n /\ n \in 0..n
    BY <1>1
  <2>2. iter[{}] = base
    BY <1>6
  <2> QED BY <1>1, <2>1, <2>2, InitialSegments
<1> DEFINE T == {i \in 0..n : g[i] \in V}
<1> HIDE DEF g
<1>10. \A i \in 0..n : i \in T
  <2>1. 0 \in T
    BY <1>3, <1>9
  <2>2. ASSUME NEW i \in 1..n, i - 1 \in T PROVE i \in T
    <3>1. i \in 0..n
      BY <1>1
    <3> QED BY <1>2, <1>8, <2>2, <3>1
  <2> HIDE DEF T
  <2> QED BY <1>1, <2>1, <2>2, UpTo
<1>11. g \in [0..n -> V]
  <2>1. \A i \in 0..n : g[i] \in V
    BY <1>10
  <2> QED BY <2>1 DEF g
<1>12. g[0] = base /\ MergeEvidence(evidence, more) = g[n]
  BY <1>7, <1>9
<1>13. \A i \in 1..n : g[i] = AddEvidence(g[i - 1], more[i])
  BY <1>8
<1> HIDE DEF g
<1>14. AddsEvidence(g, K, evidence, more)
  BY <1>11, <1>12, <1>13 DEF n, V, base, AddsEvidence
<1> QED BY <1>14

LEMMA MergeEvidenceIs ==
  ASSUME NEW K, NEW evidence \in Seq(K), evidence # <<>>, NEW more \in Seq(K)
  PROVE  MergeEvidence(evidence, more) \in Seq(K) \ {<<>>}
<1> DEFINE n == Len(more)
<1>1. n \in Nat /\ \A i \in 1..n : more[i] \in K
  BY LenProperties, ElementOfSeq
<1>2. PICK g : AddsEvidence(g, K, evidence, more)
  BY EvidenceSteps
<1>3. /\ g \in [0..n -> Seq(K)] /\ g[0] = evidence
      /\ \A i \in 1..n : g[i] = AddEvidence(g[i - 1], more[i])
      /\ MergeEvidence(evidence, more) = g[n]
  BY <1>2 DEF AddsEvidence
<1> HIDE DEF n
<1> DEFINE T == {i \in 0..n : g[i] # <<>>}
<1>4. 0 \in T
  BY <1>1, <1>3
<1>5. ASSUME NEW i \in 1..n, i - 1 \in T PROVE i \in T
  <2>1. g[i - 1] \in Seq(K) /\ more[i] \in K /\ g[i - 1] # <<>> /\ i \in 0..n
    BY <1>1, <1>3, <1>5
  <2>2. AddEvidence(g[i - 1], more[i]) # <<>>
    BY <2>1, ItemsOfAppend DEF AddEvidence
  <2> QED BY <1>3, <2>1, <2>2
<1>6. n \in T
  <2> HIDE DEF T
  <2>1. \A i \in 0..n : i \in T
    BY <1>1, <1>4, <1>5, UpTo
  <2> QED BY <1>1, <2>1
<1>7. n \in 0..n
  BY <1>1
<1> QED BY <1>3, <1>6, <1>7

LEMMA EdgeIs ==
  ASSUME NEW E, NEW K, NEW r \in EdgesOf(E, K)
  PROVE  /\ r.kind \in DOMAIN Allows /\ r.source \in E /\ r.target \in E
         /\ r.evidence \in Seq(K) /\ r.evidence # <<>>
         /\ IsEntity(r.source) /\ IsEntity(r.target)
         /\ r.source[1] = Allows[r.kind][1] /\ r.target[1] = Allows[r.kind][2]
         /\ \A evidence \in Seq(K) \ {<<>>} :
              LET new == [r EXCEPT !.evidence = evidence]
              IN new \in EdgesOf(E, K) /\ SameEdge(new, r)
<1>1. r \in [kind : DOMAIN Allows, source : E, target : E, evidence : Seq(K) \ {<<>>}]
      /\ IsEntity(r.source) /\ IsEntity(r.target)
      /\ <<r.source[1], r.target[1]>> = Allows[r.kind]
  BY DEF EdgesOf
<1>2. r.source[1] = Allows[r.kind][1] /\ r.target[1] = Allows[r.kind][2]
  <2>1. \A a, b, c : <<a, b>> = c => a = c[1] /\ b = c[2]
    OBVIOUS
  <2> QED BY <1>1, <2>1
<1>3. ASSUME NEW evidence \in Seq(K) \ {<<>>}
      PROVE  LET new == [r EXCEPT !.evidence = evidence]
             IN new \in EdgesOf(E, K) /\ SameEdge(new, r)
  <2> DEFINE new == [r EXCEPT !.evidence = evidence]
  <2>1. new \in [kind : DOMAIN Allows, source : E, target : E, evidence : Seq(K) \ {<<>>}]
        /\ new.kind = r.kind /\ new.source = r.source /\ new.target = r.target
    BY <1>1
  <2> HIDE DEF new
  <2>2. new \in EdgesOf(E, K)
    BY <1>1, <2>1 DEF EdgesOf
  <2>3. SameEdge(new, r)
    BY <2>1 DEF SameEdge
  <2> QED BY <2>2, <2>3 DEF new
<1> QED BY <1>1, <1>2, <1>3

LEMMA AddRelationshipIs ==
  ASSUME NEW E, NEW K, NEW edges \in EdgeLists(E, K), NEW r \in EdgesOf(E, K)
  PROVE  AddRelationship(edges, r) \in EdgeLists(E, K)
<1> DEFINE same == {i \in DOMAIN edges : SameEdge(edges[i], r)}
           D == EdgesOf(E, K)
<1>1. /\ edges \in Seq(D) /\ \A i, j \in DOMAIN edges : SameEdge(edges[i], edges[j]) => i = j
      /\ same = {i \in DOMAIN edges : SameEdge(edges[i], r)}
  BY DEF EdgeLists, SameEdge
<1>2. /\ Len(edges) \in Nat /\ DOMAIN edges = 1..Len(edges)
      /\ \A i \in DOMAIN edges : edges[i] \in D
  BY <1>1, LenProperties, ElementOfSeq
<1>3. AddRelationship(edges, r) =
        IF same = {} THEN Append(edges, r)
        ELSE [edges EXCEPT ![CHOOSE i \in same : TRUE].evidence =
                MergeEvidence(@, r.evidence)]
  BY DEF AddRelationship
<1> HIDE DEF same, D
<1>4. ASSUME same = {} PROVE AddRelationship(edges, r) \in EdgeLists(E, K)
  <2> DEFINE all == Append(edges, r)
  <2>1. /\ all \in Seq(D) /\ Len(all) = Len(edges) + 1
        /\ \A i \in 1..Len(edges) : all[i] = edges[i]
        /\ all[Len(edges) + 1] = r
    BY <1>1, AppendProperties DEF D
  <2>2. DOMAIN all = 1..(Len(edges) + 1)
    BY <2>1, LenProperties
  <2> HIDE DEF all
  <2>3. \A i \in DOMAIN edges : ~SameEdge(edges[i], r) /\ ~SameEdge(r, edges[i])
    BY <1>1, <1>4 DEF SameEdge
  <2>4. ASSUME NEW i \in DOMAIN all, NEW j \in DOMAIN all, SameEdge(all[i], all[j])
        PROVE  i = j
    <3>1. (i \in DOMAIN edges \/ i = Len(edges) + 1)
          /\ (j \in DOMAIN edges \/ j = Len(edges) + 1)
      BY <1>2, <2>2
    <3>2. CASE i \in DOMAIN edges /\ j \in DOMAIN edges
      BY <1>1, <1>2, <2>1, <2>4, <3>2
    <3>3. CASE i \in DOMAIN edges /\ j = Len(edges) + 1
      BY <1>2, <2>1, <2>3, <2>4, <3>3
    <3>4. CASE i = Len(edges) + 1 /\ j \in DOMAIN edges
      BY <1>2, <2>1, <2>3, <2>4, <3>4
    <3> QED BY <3>1, <3>2, <3>3, <3>4
  <2>5. all \in EdgeLists(E, K)
    BY <2>1, <2>4 DEF D, EdgeLists
  <2> QED BY <1>3, <1>4, <2>5 DEF all
<1>5. ASSUME same # {} PROVE AddRelationship(edges, r) \in EdgeLists(E, K)
  <2> DEFINE place == CHOOSE i \in same : TRUE
             old == edges[place]
             new == [old EXCEPT !.evidence = MergeEvidence(@, r.evidence)]
             all == [edges EXCEPT ![place] = new]
  <2>1. place \in DOMAIN edges
    BY <1>1, <1>5
  <2>2. AddRelationship(edges, r) = all
    BY <1>3, <1>5, <2>1
  <2> HIDE DEF place
  <2>3. new \in D /\ SameEdge(new, old)
    <3>1. old \in EdgesOf(E, K)
      BY <1>2, <2>1 DEF D
    <3>2. old.evidence \in Seq(K) /\ old.evidence # <<>> /\ r.evidence \in Seq(K)
      BY <3>1, EdgeIs
    <3> HIDE DEF old
    <3>3. MergeEvidence(old.evidence, r.evidence) \in Seq(K) \ {<<>>}
      BY <3>2, MergeEvidenceIs
    <3> QED BY <3>1, <3>3, EdgeIs DEF D
  <2> HIDE DEF new
  <2>4. all \in Seq(D) /\ DOMAIN all = DOMAIN edges
        /\ \A i \in DOMAIN edges : SameEdge(all[i], edges[i])
    <3>1. all \in Seq(D) /\ DOMAIN all = DOMAIN edges
      BY <1>1, <2>1, <2>3, ExceptSeq
    <3>2. ASSUME NEW i \in DOMAIN edges PROVE SameEdge(all[i], edges[i])
      <4>1. CASE i = place
        BY <2>1, <2>3, <4>1
      <4>2. CASE i # place
        BY <2>1, <4>2 DEF SameEdge
      <4> QED BY <4>1, <4>2
    <3> QED BY <3>1, <3>2
  <2> HIDE DEF all, old
  <2>5. ASSUME NEW i \in DOMAIN all, NEW j \in DOMAIN all, SameEdge(all[i], all[j])
        PROVE  i = j
    <3>1. SameEdge(edges[i], edges[j])
      BY <2>4, <2>5 DEF SameEdge
    <3> QED BY <1>1, <2>4, <3>1
  <2> QED BY <2>2, <2>4, <2>5 DEF D, EdgeLists
<1> QED BY <1>4, <1>5

Together(edges, more) == FoldLeft(AddRelationship, edges, more)

(* Relationships are added one by one. *)
AddsEdges(g, E, K, edges, more) ==
  /\ g \in [0..Len(more) -> EdgeLists(E, K)] /\ g[0] = edges
  /\ \A i \in 1..Len(more) : g[i] = AddRelationship(g[i - 1], more[i])
  /\ Together(edges, more) = g[Len(more)]

LEMMA EdgeSteps ==
  ASSUME NEW E, NEW K, NEW edges \in EdgeLists(E, K), NEW more \in Seq(EdgesOf(E, K))
  PROVE  \E g : AddsEdges(g, E, K, edges, more)
<1> DEFINE n == Len(more)
           V == EdgeLists(E, K)
           base == edges
           step == [i \in 1..n |-> [kept \in V |-> AddRelationship(kept, more[i])]]
           IsFold(f) ==
             f = [s \in SUBSET (1..n) |->
                    IF s = {} THEN base
                    ELSE AddRelationship(f[s \ {Max(s)}], more[Max(s)])]
<1>1. n \in Nat /\ DOMAIN more = 1..n /\ \A i \in 1..n : more[i] \in EdgesOf(E, K)
  BY LenProperties, ElementOfSeq
<1> HIDE DEF n
<1>2. ASSUME NEW i \in 1..n, NEW kept \in V
      PROVE  AddRelationship(kept, more[i]) \in V
  BY <1>1, AddRelationshipIs
<1>3. base \in V
  OBVIOUS
<1> HIDE DEF V, base
<1>4. PICK f \in [SUBSET (1..n) -> V] : IsFolded(f, n, V, base, step)
  <2>1. step \in [1..n -> [V -> V]]
    BY <1>2
  <2> HIDE DEF step
  <2> QED BY <1>1, <1>3, <2>1, FoldExists
<1>5. IsFold(f)
  <2>1. ASSUME NEW s \in SUBSET (1..n), s # {}
        PROVE  f[s] = AddRelationship(f[s \ {Max(s)}], more[Max(s)])
    BY <1>4, <2>1 DEF IsFolded
  <2> QED BY <1>4, <2>1 DEF IsFolded
<1> DEFINE iter == CHOOSE h : IsFold(h)
<1>6. IsFold(iter)
  <2> HIDE DEF IsFold
  <2> QED BY <1>5
<1>7. Together(edges, more) = iter[1..n]
  BY <1>1 DEF Together, FoldLeft, MapThenFoldSet, base
<1> HIDE DEF iter
<1> DEFINE g == [i \in 0..n |-> iter[1..i]]
<1>8. ASSUME NEW i \in 1..n
      PROVE  g[i] = AddRelationship(g[i - 1], more[i])
  <2>1. /\ 1..i \in SUBSET (1..n) /\ 1..i # {}
        /\ Max(1..i) = i /\ (1..i) \ {i} = 1..(i - 1)
    BY <1>1, InitialSegments
  <2> DEFINE s == 1..i
  <2>2. iter[s] = AddRelationship(iter[s \ {Max(s)}], more[Max(s)])
    <3>1. s \in SUBSET (1..n) /\ s # {}
      BY <2>1
    <3> HIDE DEF s
    <3> QED BY <1>6, <3>1
  <2>3. i \in 0..n /\ i - 1 \in 0..n
    BY <1>1
  <2> QED BY <2>1, <2>2, <2>3
<1>9. 0 \in 0..n /\ n \in 0..n /\ g[0] = base /\ g[n] = iter[1..n]
  <2>1. 0 \in 0..n /\ n \in 0..n
    BY <1>1
  <2>2. iter[{}] = base
    BY <1>6
  <2> QED BY <1>1, <2>1, <2>2, InitialSegments
<1> DEFINE T == {i \in 0..n : g[i] \in V}
<1> HIDE DEF g
<1>10. \A i \in 0..n : i \in T
  <2>1. 0 \in T
    BY <1>3, <1>9
  <2>2. ASSUME NEW i \in 1..n, i - 1 \in T PROVE i \in T
    <3>1. i \in 0..n
      BY <1>1
    <3> QED BY <1>2, <1>8, <2>2, <3>1
  <2> HIDE DEF T
  <2> QED BY <1>1, <2>1, <2>2, UpTo
<1>11. g \in [0..n -> V]
  <2>1. \A i \in 0..n : g[i] \in V
    BY <1>10
  <2> QED BY <2>1 DEF g
<1>12. g[0] = base /\ Together(edges, more) = g[n]
  BY <1>7, <1>9
<1>13. \A i \in 1..n : g[i] = AddRelationship(g[i - 1], more[i])
  BY <1>8
<1> HIDE DEF g
<1>14. AddsEdges(g, E, K, edges, more)
  BY <1>11, <1>12, <1>13 DEF n, V, base, AddsEdges
<1> QED BY <1>14

LEMMA TogetherIs ==
  ASSUME NEW E, NEW K, NEW edges \in EdgeLists(E, K), NEW more \in Seq(EdgesOf(E, K))
  PROVE  Together(edges, more) \in EdgeLists(E, K)
<1>1. PICK g : AddsEdges(g, E, K, edges, more)
  BY EdgeSteps
<1>2. Len(more) \in 0..Len(more)
  BY LenProperties
<1> QED BY <1>1, <1>2 DEF AddsEdges

LEMMA NothingTogether ==
  ASSUME NEW E, NEW K, NEW edges \in EdgeLists(E, K)
  PROVE  Together(edges, <<>>) = edges
<1> DEFINE none == <<>>
<1>1. none \in Seq(EdgesOf(E, K)) /\ Len(none) = 0
  OBVIOUS
<1> HIDE DEF none
<1>2. PICK g : AddsEdges(g, E, K, edges, none)
  BY <1>1, EdgeSteps
<1>3. Together(edges, none) = g[Len(none)] /\ g[0] = edges
  BY <1>2 DEF AddsEdges
<1> QED BY <1>1, <1>3 DEF none

(* What adding a relationship changes: it is added, or the one that is the *)
(* same edge has its evidence too.                                         *)
WithEvidence(x, r) == [x EXCEPT !.evidence = MergeEvidence(@, r.evidence)]

LEMMA AddedIs ==
  ASSUME NEW E, NEW K, NEW edges \in EdgeLists(E, K), NEW r \in EdgesOf(E, K)
  PROVE  /\ (\A x \in Items(edges) : ~SameEdge(x, r)) =>
              Items(AddRelationship(edges, r)) = Items(edges) \cup {r}
         /\ \A x \in Items(edges) : SameEdge(x, r) =>
              Items(AddRelationship(edges, r))
                = (Items(edges) \ {x}) \cup {WithEvidence(x, r)}
         /\ \A x \in Items(edges) : SameEdge(WithEvidence(x, r), x)
<1> DEFINE same == {i \in DOMAIN edges : SameEdge(edges[i], r)}
           D == EdgesOf(E, K)
<1>1. /\ edges \in Seq(D) /\ \A i, j \in DOMAIN edges : SameEdge(edges[i], edges[j]) => i = j
  BY DEF EdgeLists
<1>2. /\ Len(edges) \in Nat /\ DOMAIN edges = 1..Len(edges)
      /\ \A i \in DOMAIN edges : edges[i] \in D
  BY <1>1, LenProperties, ElementOfSeq
<1>3. AddRelationship(edges, r) =
        IF same = {} THEN Append(edges, r)
        ELSE [edges EXCEPT ![CHOOSE i \in same : TRUE].evidence =
                MergeEvidence(@, r.evidence)]
  BY DEF AddRelationship
<1>4. \A i \in DOMAIN edges : i \in same <=> SameEdge(edges[i], r)
  OBVIOUS
<1> HIDE DEF same
<1>5. ASSUME \A x \in Items(edges) : ~SameEdge(x, r)
      PROVE  Items(AddRelationship(edges, r)) = Items(edges) \cup {r}
  <2>1. \A i \in DOMAIN edges : ~SameEdge(edges[i], r)
    BY <1>5 DEF Items
  <2>2. same = {}
    BY <2>1 DEF same
  <2>3. AddRelationship(edges, r) = Append(edges, r)
    BY <1>3, <2>2
  <2>4. Items(Append(edges, r)) = Items(edges) \cup {r}
    BY <1>1, ItemsOfAppend
  <2> QED BY <2>3, <2>4
<1>6. ASSUME NEW x \in Items(edges) PROVE SameEdge(WithEvidence(x, r), x)
  <2>1. x \in D
    BY <1>2, <1>6 DEF Items
  <2>2. DOMAIN x = {"kind", "source", "target", "evidence"}
    BY <2>1 DEF EdgesOf
  <2> QED BY <2>2 DEF SameEdge, WithEvidence
<1>7. ASSUME NEW x \in Items(edges), SameEdge(x, r)
      PROVE  Items(AddRelationship(edges, r))
               = (Items(edges) \ {x}) \cup {WithEvidence(x, r)}
  <2>1. PICK place \in DOMAIN edges : edges[place] = x
    BY DEF Items
  <2>2. place \in same
    BY <1>4, <1>7, <2>1
  <2>3. ASSUME NEW i \in DOMAIN edges, i \in same PROVE i = place
    <3>1. SameEdge(edges[i], r) /\ SameEdge(edges[place], r)
      BY <1>4, <1>7, <2>1, <2>3
    <3>2. SameEdge(edges[i], edges[place])
      BY <3>1 DEF SameEdge
    <3> QED BY <1>1, <2>1, <3>2
  <2>4. (CHOOSE i \in same : TRUE) = place
    <3>1. same \subseteq DOMAIN edges
      BY DEF same
    <3> QED BY <2>2, <2>3, <3>1
  <2>5. AddRelationship(edges, r) = [edges EXCEPT ![place] = WithEvidence(x, r)]
    <3>1. AddRelationship(edges, r) =
            [edges EXCEPT ![place].evidence = MergeEvidence(@, r.evidence)]
      BY <1>3, <2>2, <2>4
    <3> QED BY <2>1, <3>1 DEF WithEvidence
  <2> DEFINE all == [edges EXCEPT ![place] = WithEvidence(x, r)]
             new == WithEvidence(x, r)
  <2>6. \A i \in DOMAIN edges : i # place => edges[i] # x
    <3>1. \A i \in DOMAIN edges : edges[i] = x => i \in same
      BY <1>4, <1>7
    <3> QED BY <2>3, <3>1
  <2>7. DOMAIN all = DOMAIN edges /\ all[place] = new
        /\ \A i \in DOMAIN edges : i # place => all[i] = edges[i]
    BY <1>1, <2>1
  <2> HIDE DEF all, new
  <2>8. Items(all) = (Items(edges) \ {x}) \cup {new}
    BY <2>1, <2>6, <2>7 DEF Items
  <2> QED BY <2>5, <2>8 DEF all, new
<1> QED BY <1>5, <1>6, <1>7

(* Edges that are of none of those recorded are added as if there were     *)
(* none.                                                                   *)
Clear(some, others) == \A x \in some, y \in others : ~SameEdge(x, y)

LEMMA AddsApart ==
  ASSUME NEW E, NEW K, NEW whole \in EdgeLists(E, K), NEW own \in EdgeLists(E, K),
         NEW old, Items(whole) = old \cup Items(own), NEW r \in EdgesOf(E, K),
         Clear(old, Items(own)), Clear(old, {r})
  PROVE  /\ Items(AddRelationship(whole, r)) = old \cup Items(AddRelationship(own, r))
         /\ Clear(old, Items(AddRelationship(own, r)))
<1>1. CASE \A x \in Items(own) : ~SameEdge(x, r)
  <2>1. \A x \in Items(whole) : ~SameEdge(x, r)
    BY <1>1 DEF Clear
  <2>2. Items(AddRelationship(own, r)) = Items(own) \cup {r}
    BY <1>1, AddedIs
  <2>3. Items(AddRelationship(whole, r)) = Items(whole) \cup {r}
    BY <2>1, AddedIs
  <2> QED BY <2>2, <2>3 DEF Clear
<1>2. CASE \E x \in Items(own) : SameEdge(x, r)
  <2>1. PICK x \in Items(own) : SameEdge(x, r)
    BY <1>2
  <2>2. x \in Items(whole)
    OBVIOUS
  <2>3. Items(AddRelationship(own, r)) = (Items(own) \ {x}) \cup {WithEvidence(x, r)}
    BY <2>1, AddedIs
  <2>4. Items(AddRelationship(whole, r)) = (Items(whole) \ {x}) \cup {WithEvidence(x, r)}
    BY <2>1, <2>2, AddedIs
  <2>5. x \notin old
    BY <2>1 DEF Clear, SameEdge
  <2>6. SameEdge(WithEvidence(x, r), x)
    BY <2>1, AddedIs
  <2>7. \A y \in old : ~SameEdge(y, WithEvidence(x, r))
    BY <2>1, <2>6 DEF Clear, SameEdge
  <2> QED BY <2>3, <2>4, <2>5, <2>7 DEF Clear
<1> QED BY <1>1, <1>2

NoEdges == <<>>

LEMMA NoEdgesAre ==
  ASSUME NEW E, NEW K
  PROVE  NoEdges \in EdgeLists(E, K) /\ Items(NoEdges) = {}
<1>1. \A S : <<>> \in Seq(S)
  OBVIOUS
<1> QED BY <1>1 DEF NoEdges, EdgeLists, Items

(* What a run has found, each edge once.                                   *)
Own(run) == Together(NoEdges, run.relationships)

LEMMA TogetherApart ==
  ASSUME NEW E, NEW K, NEW edges \in EdgeLists(E, K), NEW more \in Seq(EdgesOf(E, K)),
         Clear(Items(edges), Items(more))
  PROVE  Items(Together(edges, more)) = Items(edges) \cup Items(Together(NoEdges, more))
<1> DEFINE n == Len(more)
           old == Items(edges)
<1>1. n \in Nat /\ DOMAIN more = 1..n
      /\ \A i \in 1..n : more[i] \in EdgesOf(E, K) /\ more[i] \in Items(more)
  BY LenProperties, ElementOfSeq, ItemsAre
<1>2. PICK g : AddsEdges(g, E, K, edges, more)
  BY EdgeSteps
<1>3. PICK h : AddsEdges(h, E, K, NoEdges, more)
  BY EdgeSteps, NoEdgesAre
<1>4. /\ g \in [0..n -> EdgeLists(E, K)] /\ g[0] = edges
      /\ \A i \in 1..n : g[i] = AddRelationship(g[i - 1], more[i])
      /\ Together(edges, more) = g[n]
  BY <1>2 DEF AddsEdges
<1>5. /\ h \in [0..n -> EdgeLists(E, K)] /\ h[0] = NoEdges
      /\ \A i \in 1..n : h[i] = AddRelationship(h[i - 1], more[i])
      /\ Together(NoEdges, more) = h[n]
  BY <1>3 DEF AddsEdges
<1> HIDE DEF n, old
<1> DEFINE Together2(i) == Items(g[i]) = old \cup Items(h[i]) /\ Clear(old, Items(h[i]))
           T == {i \in 0..n : Together2(i)}
<1>6. 0 \in T
  <2>1. Items(h[0]) = {}
    BY <1>5, NoEdgesAre
  <2> QED BY <1>1, <1>4, <2>1 DEF old, Clear
<1>7. ASSUME NEW i \in 1..n, i - 1 \in T PROVE i \in T
  <2>1. i - 1 \in 0..n /\ i \in 0..n /\ Together2(i - 1)
    BY <1>1, <1>7
  <2> DEFINE was == g[i - 1]
             own == h[i - 1]
             r == more[i]
  <2>2. was \in EdgeLists(E, K) /\ own \in EdgeLists(E, K)
    BY <1>4, <1>5, <2>1
  <2>3. r \in EdgesOf(E, K) /\ Clear(old, {r})
    BY <1>1 DEF Clear, old
  <2>4. g[i] = AddRelationship(was, r) /\ h[i] = AddRelationship(own, r)
    BY <1>4, <1>5
  <2>5. Items(was) = old \cup Items(own) /\ Clear(old, Items(own))
    BY <2>1
  <2> HIDE DEF was, own, r
  <2>6. /\ Items(AddRelationship(was, r)) = old \cup Items(AddRelationship(own, r))
        /\ Clear(old, Items(AddRelationship(own, r)))
    BY <2>2, <2>3, <2>5, AddsApart
  <2> QED BY <2>1, <2>4, <2>6
<1>8. n \in T
  <2> HIDE DEF T
  <2>1. \A i \in 0..n : i \in T
    BY <1>1, <1>6, <1>7, UpTo
  <2> QED BY <1>1, <2>1
<1> QED BY <1>4, <1>5, <1>8 DEF old

(* Each edge that comes of adding some is one of those added.              *)
Known(some, others) == \A x \in some : \E y \in others : SameEdge(x, y)

LEMMA TogetherKnown ==
  ASSUME NEW E, NEW K, NEW more \in Seq(EdgesOf(E, K))
  PROVE  Known(Items(Together(NoEdges, more)), Items(more))
<1> DEFINE n == Len(more)
<1>1. n \in Nat /\ DOMAIN more = 1..n
      /\ \A i \in 1..n : more[i] \in EdgesOf(E, K) /\ more[i] \in Items(more)
  BY LenProperties, ElementOfSeq, ItemsAre
<1>2. PICK h : AddsEdges(h, E, K, NoEdges, more)
  BY EdgeSteps, NoEdgesAre
<1>3. /\ h \in [0..n -> EdgeLists(E, K)] /\ h[0] = NoEdges
      /\ \A i \in 1..n : h[i] = AddRelationship(h[i - 1], more[i])
      /\ Together(NoEdges, more) = h[n]
  BY <1>2 DEF AddsEdges
<1> HIDE DEF n
<1> DEFINE T == {i \in 0..n : Known(Items(h[i]), Items(more))}
<1>4. 0 \in T
  <2>1. Items(h[0]) = {}
    BY <1>3, NoEdgesAre
  <2> QED BY <1>1, <2>1 DEF Known
<1>5. ASSUME NEW i \in 1..n, i - 1 \in T PROVE i \in T
  <2>1. i - 1 \in 0..n /\ i \in 0..n /\ Known(Items(h[i - 1]), Items(more))
    BY <1>1, <1>5
  <2> DEFINE own == h[i - 1]
             r == more[i]
  <2>2. own \in EdgeLists(E, K) /\ r \in EdgesOf(E, K) /\ r \in Items(more)
    BY <1>1, <1>3, <2>1
  <2>3. h[i] = AddRelationship(own, r) /\ Known(Items(own), Items(more))
    BY <1>3, <2>1
  <2> HIDE DEF own, r
  <2>4. CASE \A x \in Items(own) : ~SameEdge(x, r)
    <3>1. Items(AddRelationship(own, r)) = Items(own) \cup {r}
      BY <2>2, <2>4, AddedIs
    <3> QED BY <2>1, <2>2, <2>3, <3>1 DEF Known, SameEdge
  <2>5. CASE \E x \in Items(own) : SameEdge(x, r)
    <3>1. PICK x \in Items(own) : SameEdge(x, r)
      BY <2>5
    <3>2. /\ Items(AddRelationship(own, r)) = (Items(own) \ {x}) \cup {WithEvidence(x, r)}
          /\ SameEdge(WithEvidence(x, r), x)
      BY <2>2, <3>1, AddedIs
    <3>3. SameEdge(WithEvidence(x, r), r)
      BY <3>1, <3>2 DEF SameEdge
    <3> QED BY <2>1, <2>2, <2>3, <3>2, <3>3 DEF Known
  <2> QED BY <2>4, <2>5
<1>6. n \in T
  <2> HIDE DEF T
  <2>1. \A i \in 0..n : i \in T
    BY <1>1, <1>4, <1>5, UpTo
  <2> QED BY <1>1, <2>1
<1> QED BY <1>3, <1>6

(* And each of those added has its edge.                                   *)
LEMMA TogetherHas ==
  ASSUME NEW E, NEW K, NEW more \in Seq(EdgesOf(E, K))
  PROVE  Known(Items(more), Items(Together(NoEdges, more)))
<1> DEFINE n == Len(more)
<1>1. n \in Nat /\ DOMAIN more = 1..n
      /\ \A i \in 1..n : more[i] \in EdgesOf(E, K)
  BY LenProperties, ElementOfSeq
<1>2. PICK h : AddsEdges(h, E, K, NoEdges, more)
  BY EdgeSteps, NoEdgesAre
<1>3. /\ h \in [0..n -> EdgeLists(E, K)] /\ h[0] = NoEdges
      /\ \A i \in 1..n : h[i] = AddRelationship(h[i - 1], more[i])
      /\ Together(NoEdges, more) = h[n]
  BY <1>2 DEF AddsEdges
<1> HIDE DEF n
<1> DEFINE T == {i \in 0..n : Known({more[j] : j \in 1..i}, Items(h[i]))}
<1>4. 0 \in T
  BY <1>1 DEF Known
<1>5. ASSUME NEW i \in 1..n, i - 1 \in T PROVE i \in T
  <2> DEFINE own == h[i - 1]
             r == more[i]
             past == {more[j] : j \in 1..(i - 1)}
  <2>1. i - 1 \in 0..n /\ i \in 0..n /\ Known(past, Items(own))
    BY <1>1, <1>5
  <2>2. own \in EdgeLists(E, K) /\ r \in EdgesOf(E, K) /\ h[i] = AddRelationship(own, r)
    BY <1>1, <1>3, <2>1
  <2>3. {more[j] : j \in 1..i} = past \cup {r}
    <3>1. 1..i = 1..(i - 1) \cup {i}
      BY <1>1
    <3> QED BY <3>1
  <2> HIDE DEF own, r, past
  <2>4. Known(past \cup {r}, Items(AddRelationship(own, r)))
    <3>1. CASE \A x \in Items(own) : ~SameEdge(x, r)
      <4>1. Items(AddRelationship(own, r)) = Items(own) \cup {r}
        BY <2>2, <3>1, AddedIs
      <4> QED BY <2>1, <4>1 DEF Known, SameEdge
    <3>2. CASE \E x \in Items(own) : SameEdge(x, r)
      <4>1. PICK x \in Items(own) : SameEdge(x, r)
        BY <3>2
      <4>2. /\ Items(AddRelationship(own, r)) = (Items(own) \ {x}) \cup {WithEvidence(x, r)}
            /\ SameEdge(WithEvidence(x, r), x)
        BY <2>2, <4>1, AddedIs
      <4>3. /\ SameEdge(r, WithEvidence(x, r))
            /\ \A y : SameEdge(y, x) => SameEdge(y, WithEvidence(x, r))
        BY <4>1, <4>2 DEF SameEdge
      <4> QED BY <2>1, <4>2, <4>3 DEF Known
    <3> QED BY <3>1, <3>2
  <2> QED BY <2>1, <2>2, <2>3, <2>4
<1>6. n \in T
  <2> HIDE DEF T
  <2>1. \A i \in 0..n : i \in T
    BY <1>1, <1>4, <1>5, UpTo
  <2> QED BY <1>1, <2>1
<1>7. Items(more) = {more[j] : j \in 1..n}
  BY <1>1 DEF Items
<1> QED BY <1>3, <1>6, <1>7

Ends(run) ==
  {r.source : r \in Items(run.relationships)} \cup {r.target : r \in Items(run.relationships)}

Said(run) == [source |-> run.source, about |-> run.about, outcome |-> run.outcome]
Quiet(run) == run.observations = <<>> /\ run.relationships = <<>>

LEMMA RunIs ==
  ASSUME NEW run, IsRun(run)
  PROVE  /\ run.observations \in Seq(Items(run.observations))
         /\ run.relationships \in Seq(EdgesOf(Ends(run), IDsIn(run.observations)))
         /\ Quiet(TimedOut(run))
<1> DEFINE R == Items(run.relationships)
           E == Ends(run)
           K == IDsIn(run.observations)
<1>1. /\ run \in [source : {run.source}, about : {run.about}, outcome : {run.outcome},
                  observations : Seq(Items(run.observations)), relationships : Seq(R)]
      /\ \A r \in R : IsRelationship(r) /\ Items(r.evidence) \subseteq K
  BY DEF IsRun, IDsIn
<1>2. run.observations \in Seq(Items(run.observations)) /\ run.relationships \in Seq(R)
      /\ TimedOut(run).observations = <<>> /\ TimedOut(run).relationships = <<>>
  BY <1>1 DEF TimedOut
<1> HIDE DEF K
<1>3. ASSUME NEW r \in R PROVE r \in EdgesOf(E, K)
  <2>1. /\ r \in [kind : DOMAIN Allows, source : {r.source}, target : {r.target},
                  evidence : Seq(Items(r.evidence)) \ {<<>>}]
        /\ IsEntity(r.source) /\ IsEntity(r.target)
        /\ <<r.source[1], r.target[1]>> = Allows[r.kind]
        /\ Items(r.evidence) \subseteq K
    BY <1>1 DEF IsRelationship
  <2>2. r.evidence \in Seq(K) \ {<<>>}
    BY <2>1, SequencesGrow
  <2>3. r.source \in E /\ r.target \in E
    BY DEF Ends
  <2> HIDE DEF E
  <2>4. r \in [kind : DOMAIN Allows, source : E, target : E, evidence : Seq(K) \ {<<>>}]
    BY <2>1, <2>2, <2>3
  <2> QED BY <2>1, <2>4 DEF EdgesOf
<1> HIDE DEF E, R
<1>4. R \subseteq EdgesOf(E, K)
  BY <1>3
<1>5. run.relationships \in Seq(EdgesOf(E, K))
  BY <1>2, <1>4, SequencesGrow
<1> QED BY <1>2, <1>5 DEF K, E, Quiet

LEMMA RecordedIs ==
  ASSUME NEW inv, IsInvestigation(inv), NEW run, IsRun(run)
  PROVE  IsInvestigation(Recorded(inv, run))
<1> DEFINE new == Recorded(inv, run)
           K == IDsIn(inv.observations)
           L == IDsIn(run.observations)
           O == Items(inv.observations) \cup Items(run.observations)
           said == [source |-> run.source, about |-> run.about, outcome |-> run.outcome]
<1>1. new = [observations |-> inv.observations \o run.observations,
             relationships |-> Together(inv.relationships, run.relationships),
             sources |-> Append(inv.sources, said)]
  BY DEF Recorded, Together
<1>2. inv.observations \in Seq(O) /\ run.observations \in Seq(O)
  <2>1. inv.observations \in Seq(Items(inv.observations))
    BY DEF IsInvestigation
  <2>2. run.observations \in Seq(Items(run.observations))
    BY RunIs
  <2> QED BY <2>1, <2>2, SequencesGrow
<1>3. new.observations \in Seq(Items(new.observations)) /\ IDsIn(new.observations) = K \cup L
  <2> HIDE DEF new, O
  <2>1. new.observations = inv.observations \o run.observations
    BY <1>1
  <2>2. new.observations \in Seq(O)
        /\ Items(new.observations) = Items(inv.observations) \cup Items(run.observations)
    BY <1>2, <2>1, ItemsOfConcat
  <2>3. IDsIn(new.observations) = K \cup L
    BY <2>2 DEF IDsIn
  <2> QED BY <2>2, <2>3, ItemsAre
<1>4. new.sources \in Seq(Items(new.sources))
  <2> DEFINE S == Items(inv.sources) \cup {said}
  <2>1. new.sources = Append(inv.sources, said)
    BY <1>1
  <2>2. inv.sources \in Seq(Items(inv.sources)) /\ said \in S
    BY DEF IsInvestigation
  <2>3. inv.sources \in Seq(S)
    BY <2>2, SequencesGrow
  <2> HIDE DEF new, S, said
  <2>4. new.sources \in Seq(S)
    BY <2>1, <2>2, <2>3, ItemsOfAppend
  <2> QED BY <2>4, ItemsAre
<1>5. \E E : new.relationships \in EdgeLists(E, K \cup L)
  <2>1. PICK E1 : inv.relationships \in EdgeLists(E1, K)
    BY DEF IsInvestigation
  <2> DEFINE E2 == Ends(run)
  <2>2. run.relationships \in Seq(EdgesOf(E2, L))
    BY RunIs
  <2>3. new.relationships = Together(inv.relationships, run.relationships)
    BY <1>1
  <2> HIDE DEF new, K, L, E2
  <2>4. inv.relationships \in EdgeLists(E1 \cup E2, K \cup L)
    <3>1. EdgeLists(E1, K) \subseteq EdgeLists(E1 \cup E2, K \cup L)
      BY EdgesGrow
    <3> QED BY <2>1, <3>1
  <2>5. run.relationships \in Seq(EdgesOf(E1 \cup E2, K \cup L))
    <3>1. EdgesOf(E2, L) \subseteq EdgesOf(E1 \cup E2, K \cup L)
      BY EdgesGrow
    <3> QED BY <2>2, <3>1, SequencesGrow
  <2>6. new.relationships \in EdgeLists(E1 \cup E2, K \cup L)
    BY <2>3, <2>4, <2>5, TogetherIs
  <2> QED BY <2>6
<1>6. new \in [observations : {new.observations}, relationships : {new.relationships},
               sources : {new.sources}]
  BY <1>1
<1> HIDE DEF new, K, L
<1>7. new \in [observations : Seq(Items(new.observations)),
               relationships : {new.relationships}, sources : Seq(Items(new.sources))]
  BY <1>3, <1>4, <1>6
<1>8. IsInvestigation(new)
  BY <1>3, <1>5, <1>7 DEF IsInvestigation
<1> QED BY <1>8 DEF new

(* What is recorded of some runs: all they observed, each edge they found, *)
(* and what they said.                                                     *)
IsRecordOf(inv, runs) ==
  /\ HasIDs(inv.observations)
  /\ Items(inv.observations) = UNION {Items(run.observations) : run \in runs}
  /\ Items(inv.relationships) = UNION {Items(Own(run)) : run \in runs}
  /\ Items(inv.sources) = {Said(run) : run \in runs}

LEMMA ConcatHasIDs ==
  ASSUME NEW S, NEW s \in Seq(S), NEW t \in Seq(S), HasIDs(s), HasIDs(t),
         IDsIn(s) \cap IDsIn(t) = {}
  PROVE  HasIDs(s \o t)
<1> DEFINE n == Len(s)
           m == Len(t)
           whole == s \o t
<1>1. /\ \A i \in 1..(n + m) : whole[i] = IF i <= n THEN s[i] ELSE t[i - n]
      /\ whole \in Seq(S) /\ Len(whole) = n + m
  BY ConcatProperties
<1>2. /\ n \in Nat /\ m \in Nat /\ DOMAIN s = 1..n /\ DOMAIN t = 1..m
      /\ DOMAIN whole = 1..(n + m)
  BY <1>1, LenProperties
<1> HIDE DEF n, m, whole
<1>0. /\ \A i \in 1..n : s[i].id \in IDsIn(s)
      /\ \A i \in 1..m : t[i].id \in IDsIn(t)
  <2>1. /\ \A i \in 1..n : s[i] \in Items(s)
        /\ \A i \in 1..m : t[i] \in Items(t)
    BY <1>2, ItemsAre
  <2> QED BY <2>1 DEF IDsIn
<1>3. \A i \in 1..n : whole[i] = s[i] /\ s[i].id \in IDsIn(s)
  <2>1. ASSUME NEW i \in 1..n PROVE i \in 1..(n + m) /\ i <= n
    BY <1>2
  <2> QED BY <1>0, <1>1, <2>1
<1>4. \A i \in 1..(n + m) : i > n =>
        i - n \in 1..m /\ whole[i] = t[i - n] /\ t[i - n].id \in IDsIn(t)
  <2>1. ASSUME NEW i \in 1..(n + m), i > n PROVE i - n \in 1..m /\ ~(i <= n)
    BY <1>2, <2>1
  <2> QED BY <1>0, <1>1, <2>1
<1>5. ASSUME NEW i \in 1..(n + m), NEW j \in 1..(n + m), whole[i].id = whole[j].id
      PROVE  i = j
  <2>1. CASE i <= n /\ j <= n
    <3>1. i \in 1..n /\ j \in 1..n /\ s[i].id = s[j].id
      BY <1>2, <1>3, <1>5, <2>1
    <3> QED BY <1>2, <3>1 DEF HasIDs
  <2>2. CASE i > n /\ j > n
    <3>1. i - n \in 1..m /\ j - n \in 1..m /\ t[i - n].id = t[j - n].id
      BY <1>2, <1>4, <1>5, <2>2
    <3>2. i - n = j - n
      BY <1>2, <3>1 DEF HasIDs
    <3> QED BY <1>2, <3>2
  <2>3. CASE i <= n /\ j > n
    BY <1>2, <1>3, <1>4, <1>5, <2>3
  <2>4. CASE i > n /\ j <= n
    BY <1>2, <1>3, <1>4, <1>5, <2>4
  <2> QED BY <1>2, <2>1, <2>2, <2>3, <2>4
<1> QED BY <1>2, <1>5 DEF HasIDs, whole

LEMMA RecordedOf ==
  ASSUME NEW inv, IsInvestigation(inv), NEW runs, \A one \in runs : IsRun(one),
         IsRecordOf(inv, runs), NEW run, IsRun(run), \A one \in runs : Apart(one, run)
  PROVE  IsRecordOf(Recorded(inv, run), runs \cup {run})
<1> DEFINE new == Recorded(inv, run)
           more == run.relationships
<1>1. new = [observations |-> inv.observations \o run.observations,
             relationships |-> Together(inv.relationships, more),
             sources |-> Append(inv.sources, Said(run))]
  BY DEF Recorded, Together, Said
<1>2. /\ new.observations = inv.observations \o run.observations
      /\ new.relationships = Together(inv.relationships, more)
      /\ new.sources = Append(inv.sources, Said(run))
  <2> HIDE DEF new
  <2> QED BY <1>1
<1> HIDE DEF new
<1>3. /\ HasIDs(new.observations)
      /\ Items(new.observations) = Items(inv.observations) \cup Items(run.observations)
  <2> DEFINE O == Items(inv.observations) \cup Items(run.observations)
  <2>1. inv.observations \in Seq(O) /\ run.observations \in Seq(O)
    <3>1. inv.observations \in Seq(Items(inv.observations))
      BY DEF IsInvestigation
    <3>2. run.observations \in Seq(Items(run.observations))
      BY RunIs
    <3> QED BY <3>1, <3>2, SequencesGrow
  <2>2. HasIDs(inv.observations) /\ HasIDs(run.observations)
    BY DEF IsRecordOf, IsRun
  <2>3. IDsIn(inv.observations) \cap IDsIn(run.observations) = {}
    <3>1. \A o \in Items(inv.observations) : \E one \in runs : o \in Items(one.observations)
      BY DEF IsRecordOf
    <3>2. \A one \in runs : IDsIn(one.observations) \cap IDsIn(run.observations) = {}
      BY DEF Apart
    <3> QED BY <3>1, <3>2 DEF IDsIn
  <2> HIDE DEF O
  <2>4. HasIDs(inv.observations \o run.observations)
    BY <2>1, <2>2, <2>3, ConcatHasIDs
  <2>5. Items(inv.observations \o run.observations)
          = Items(inv.observations) \cup Items(run.observations)
    BY <2>1, ItemsOfConcat
  <2> QED BY <1>2, <2>4, <2>5
<1>4. Items(new.sources) = Items(inv.sources) \cup {Said(run)}
  <2> DEFINE S == Items(inv.sources) \cup {Said(run)}
  <2>1. inv.sources \in Seq(Items(inv.sources)) /\ Said(run) \in S
    BY DEF IsInvestigation
  <2>2. inv.sources \in Seq(S)
    BY <2>1, SequencesGrow
  <2> HIDE DEF S
  <2> QED BY <1>2, <2>1, <2>2, ItemsOfAppend
<1>5. Items(new.relationships) = Items(inv.relationships) \cup Items(Own(run))
  <2> DEFINE K == IDsIn(inv.observations)
             L == IDsIn(run.observations)
             F == Ends(run)
  <2>1. PICK E : inv.relationships \in EdgeLists(E, K)
    BY DEF IsInvestigation
  <2>2. more \in Seq(EdgesOf(F, L))
    BY RunIs
  <2> HIDE DEF K, L, F
  <2>3. inv.relationships \in EdgeLists(E \cup F, K \cup L)
    <3>1. EdgeLists(E, K) \subseteq EdgeLists(E \cup F, K \cup L)
      BY EdgesGrow
    <3> QED BY <2>1, <3>1
  <2>4. more \in Seq(EdgesOf(E \cup F, K \cup L))
    <3>1. EdgesOf(F, L) \subseteq EdgesOf(E \cup F, K \cup L)
      BY EdgesGrow
    <3> QED BY <2>2, <3>1, SequencesGrow
  <2>5. ASSUME NEW one \in runs PROVE Known(Items(Own(one)), Items(one.relationships))
    <3>1. one.relationships \in Seq(EdgesOf(Ends(one), IDsIn(one.observations)))
      BY RunIs
    <3> QED BY <3>1, TogetherKnown DEF Own
  <2>6. Clear(Items(inv.relationships), Items(more))
    <3> SUFFICES ASSUME NEW x \in Items(inv.relationships), NEW y \in Items(more)
                 PROVE  ~SameEdge(x, y)
      BY DEF Clear
    <3>1. PICK one \in runs : x \in Items(Own(one))
      BY DEF IsRecordOf
    <3>2. PICK r \in Items(one.relationships) : SameEdge(x, r)
      BY <2>5, <3>1 DEF Known
    <3>3. ~SameEdge(r, y)
      BY <3>1, <3>2 DEF Apart
    <3> QED BY <3>2, <3>3 DEF SameEdge
  <2> HIDE DEF more
  <2>7. Items(Together(inv.relationships, more))
          = Items(inv.relationships) \cup Items(Together(NoEdges, more))
    BY <2>3, <2>4, <2>6, TogetherApart
  <2> QED BY <1>2, <2>7 DEF Own, more
<1>6. /\ UNION {Items(one.observations) : one \in runs \cup {run}}
           = Items(inv.observations) \cup Items(run.observations)
      /\ UNION {Items(Own(one)) : one \in runs \cup {run}}
           = Items(inv.relationships) \cup Items(Own(run))
      /\ {Said(one) : one \in runs \cup {run}} = Items(inv.sources) \cup {Said(run)}
  <2>1. UNION {Items(one.observations) : one \in runs \cup {run}}
          = Items(inv.observations) \cup Items(run.observations)
    BY DEF IsRecordOf
  <2>2. UNION {Items(Own(one)) : one \in runs \cup {run}}
          = Items(inv.relationships) \cup Items(Own(run))
    BY DEF IsRecordOf
  <2>3. {Said(one) : one \in runs \cup {run}} = Items(inv.sources) \cup {Said(run)}
    BY DEF IsRecordOf
  <2> QED BY <2>1, <2>2, <2>3
<1>7. IsRecordOf(new, runs \cup {run})
  BY <1>3, <1>4, <1>5, <1>6 DEF IsRecordOf
<1> QED BY <1>7 DEF new

(* Runs are recorded one by one.                                           *)
Ledger(O, E, K, S) ==
  [observations : Seq(O), relationships : EdgeLists(E, K), sources : Seq(S)]

Fits(run, O, E, K, S) ==
  /\ run.observations \in Seq(O) /\ run.relationships \in Seq(EdgesOf(E, K))
  /\ Said(run) \in S

InTurn(inv, runs) == FoldLeft(Recorded, inv, runs)

RecordsInTurn(g, V, inv, runs) ==
  /\ g \in [0..Len(runs) -> V] /\ g[0] = inv
  /\ \A i \in 1..Len(runs) : g[i] = Recorded(g[i - 1], runs[i])
  /\ InTurn(inv, runs) = g[Len(runs)]

LEMMA RecordedFits ==
  ASSUME NEW O, NEW E, NEW K, NEW S, NEW kept \in Ledger(O, E, K, S),
         NEW run, Fits(run, O, E, K, S)
  PROVE  Recorded(kept, run) \in Ledger(O, E, K, S)
<1>1. Recorded(kept, run) =
        [observations |-> kept.observations \o run.observations,
         relationships |-> Together(kept.relationships, run.relationships),
         sources |-> Append(kept.sources, Said(run))]
  BY DEF Recorded, Together, Said
<1>2. /\ kept.observations \in Seq(O) /\ kept.relationships \in EdgeLists(E, K)
      /\ kept.sources \in Seq(S)
  BY DEF Ledger
<1>3. kept.observations \o run.observations \in Seq(O)
  BY <1>2, ItemsOfConcat DEF Fits
<1>4. Together(kept.relationships, run.relationships) \in EdgeLists(E, K)
  BY <1>2, TogetherIs DEF Fits
<1>5. Append(kept.sources, Said(run)) \in Seq(S)
  BY <1>2, ItemsOfAppend DEF Fits
<1> QED BY <1>1, <1>3, <1>4, <1>5 DEF Ledger

LEMMA RecordingSteps ==
  ASSUME NEW O, NEW E, NEW K, NEW S, NEW inv \in Ledger(O, E, K, S),
         NEW R, \A run \in R : Fits(run, O, E, K, S), NEW runs \in Seq(R)
  PROVE  \E g : RecordsInTurn(g, Ledger(O, E, K, S), inv, runs)
<1> DEFINE n == Len(runs)
           V == Ledger(O, E, K, S)
           base == inv
           step == [i \in 1..n |-> [kept \in V |-> Recorded(kept, runs[i])]]
           IsFold(f) ==
             f = [s \in SUBSET (1..n) |->
                    IF s = {} THEN base
                    ELSE Recorded(f[s \ {Max(s)}], runs[Max(s)])]
<1>1. n \in Nat /\ DOMAIN runs = 1..n /\ \A i \in 1..n : runs[i] \in R
  BY LenProperties, ElementOfSeq
<1> HIDE DEF n
<1>2. ASSUME NEW i \in 1..n, NEW kept \in V
      PROVE  Recorded(kept, runs[i]) \in V
  BY <1>1, RecordedFits
<1>3. base \in V
  OBVIOUS
<1> HIDE DEF V, base
<1>4. PICK f \in [SUBSET (1..n) -> V] : IsFolded(f, n, V, base, step)
  <2>1. step \in [1..n -> [V -> V]]
    BY <1>2
  <2> HIDE DEF step
  <2> QED BY <1>1, <1>3, <2>1, FoldExists
<1>5. IsFold(f)
  <2>1. ASSUME NEW s \in SUBSET (1..n), s # {}
        PROVE  f[s] = Recorded(f[s \ {Max(s)}], runs[Max(s)])
    BY <1>4, <2>1 DEF IsFolded
  <2> QED BY <1>4, <2>1 DEF IsFolded
<1> DEFINE iter == CHOOSE h : IsFold(h)
<1>6. IsFold(iter)
  <2> HIDE DEF IsFold
  <2> QED BY <1>5
<1>7. InTurn(inv, runs) = iter[1..n]
  BY <1>1 DEF InTurn, FoldLeft, MapThenFoldSet, base
<1> HIDE DEF iter
<1> DEFINE g == [i \in 0..n |-> iter[1..i]]
<1>8. ASSUME NEW i \in 1..n
      PROVE  g[i] = Recorded(g[i - 1], runs[i])
  <2>1. /\ 1..i \in SUBSET (1..n) /\ 1..i # {}
        /\ Max(1..i) = i /\ (1..i) \ {i} = 1..(i - 1)
    BY <1>1, InitialSegments
  <2> DEFINE s == 1..i
  <2>2. iter[s] = Recorded(iter[s \ {Max(s)}], runs[Max(s)])
    <3>1. s \in SUBSET (1..n) /\ s # {}
      BY <2>1
    <3> HIDE DEF s
    <3> QED BY <1>6, <3>1
  <2>3. i \in 0..n /\ i - 1 \in 0..n
    BY <1>1
  <2> QED BY <2>1, <2>2, <2>3
<1>9. 0 \in 0..n /\ n \in 0..n /\ g[0] = base /\ g[n] = iter[1..n]
  <2>1. 0 \in 0..n /\ n \in 0..n
    BY <1>1
  <2>2. iter[{}] = base
    BY <1>6
  <2> QED BY <1>1, <2>1, <2>2, InitialSegments
<1> DEFINE T == {i \in 0..n : g[i] \in V}
<1> HIDE DEF g
<1>10. \A i \in 0..n : i \in T
  <2>1. 0 \in T
    BY <1>3, <1>9
  <2>2. ASSUME NEW i \in 1..n, i - 1 \in T PROVE i \in T
    <3>1. i \in 0..n
      BY <1>1
    <3> QED BY <1>2, <1>8, <2>2, <3>1
  <2> HIDE DEF T
  <2> QED BY <1>1, <2>1, <2>2, UpTo
<1>11. g \in [0..n -> V]
  <2>1. \A i \in 0..n : g[i] \in V
    BY <1>10
  <2> QED BY <2>1 DEF g
<1>12. g[0] = base /\ InTurn(inv, runs) = g[n]
  BY <1>7, <1>9
<1>13. \A i \in 1..n : g[i] = Recorded(g[i - 1], runs[i])
  BY <1>8
<1> HIDE DEF g
<1>14. RecordsInTurn(g, V, inv, runs)
  BY <1>11, <1>12, <1>13 DEF n, base, RecordsInTurn
<1> QED BY <1>14 DEF V

(* An order of a finite set has each of its items once. *)
LEMMA OrdersAre ==
  ASSUME NEW S, IsFiniteSet(S), NEW s \in SetToSeqs(S)
  PROVE  /\ s \in Seq(S) /\ Items(s) = S
         /\ \A i, j \in DOMAIN s : s[i] = s[j] => i = j
<1> DEFINE n == Cardinality(S)
<1>1. n \in Nat
  BY FS_CardinalityType
<1>2. s \in [1..n -> S] /\ \A i, j \in 1..n : i # j => s[i] # s[j]
  BY DEF SetToSeqs
<1>3. s \in Injection(1..n, S)
  BY <1>2 DEF Injection, IsInjective
<1>4. Cardinality(1..n) = n
  BY <1>1, FS_Interval
<1> HIDE DEF n
<1>5. s \in Surjection(1..n, S)
  BY <1>3, <1>4, FS_Injection DEF n
<1>6. Items(s) = S
  BY <1>2, <1>5 DEF Surjection, Items
<1> QED BY <1>1, <1>2, <1>6, SeqDef

LEMMA SetToSeqIs ==
  ASSUME NEW S, IsFiniteSet(S)
  PROVE  SetToSeq(S) \in Seq(S) /\ Items(SetToSeq(S)) = S
<1> DEFINE n == Cardinality(S)
           s == SetToSeq(S)
           Is(f) == f \in [1..n -> S] /\ IsInjective(f)
<1>1. n \in Nat /\ ExistsBijection(1..n, S)
  BY FS_CardinalityType
<1>2. PICK f : f \in Bijection(1..n, S)
  BY <1>1 DEF ExistsBijection
<1>3. Is(f)
  BY <1>2 DEF Bijection, Injection, IsInjective
<1>4. s = CHOOSE g \in [1..n -> S] : IsInjective(g)
  BY DEF SetToSeq
<1>5. s \in [1..n -> S] /\ IsInjective(s)
  BY <1>3, <1>4
<1> HIDE DEF s
<1>6. s \in SetToSeqs(S)
  BY <1>5 DEF IsInjective, SetToSeqs
<1> QED BY <1>6, OrdersAre DEF s

LEMMA RunsFit ==
  ASSUME NEW inv, IsInvestigation(inv), NEW runs, \A run \in runs : IsRun(run)
  PROVE  \E O, E, K, S : /\ inv \in Ledger(O, E, K, S)
                         /\ \A run \in runs : Fits(run, O, E, K, S)
<1> DEFINE O == Items(inv.observations) \cup UNION {Items(run.observations) : run \in runs}
           K == IDsIn(inv.observations) \cup UNION {IDsIn(run.observations) : run \in runs}
           F == UNION {Ends(run) : run \in runs}
           S == Items(inv.sources) \cup {Said(run) : run \in runs}
<1>1. PICK E1 : inv.relationships \in EdgeLists(E1, IDsIn(inv.observations))
  BY DEF IsInvestigation
<1> DEFINE E == E1 \cup F
<1>2. inv \in Ledger(O, E, K, S)
  <2>1. inv \in [observations : Seq(Items(inv.observations)),
                 relationships : {inv.relationships}, sources : Seq(Items(inv.sources))]
    BY DEF IsInvestigation
  <2>2. inv.observations \in Seq(O) /\ inv.sources \in Seq(S)
    <3>1. Items(inv.observations) \subseteq O /\ Items(inv.sources) \subseteq S
      OBVIOUS
    <3> HIDE DEF O, S
    <3> QED BY <2>1, <3>1, SequencesGrow
  <2>3. inv.relationships \in EdgeLists(E, K)
    <3>1. E1 \subseteq E /\ IDsIn(inv.observations) \subseteq K
      OBVIOUS
    <3> HIDE DEF E, K
    <3> QED BY <1>1, <3>1, EdgesGrow
  <2> HIDE DEF O, E, K, S
  <2> QED BY <2>1, <2>2, <2>3 DEF Ledger
<1>3. ASSUME NEW run \in runs PROVE Fits(run, O, E, K, S)
  <2>1. /\ run.observations \in Seq(Items(run.observations))
        /\ run.relationships \in Seq(EdgesOf(Ends(run), IDsIn(run.observations)))
    BY <1>3, RunIs
  <2>2. /\ Items(run.observations) \subseteq O /\ IDsIn(run.observations) \subseteq K
        /\ Ends(run) \subseteq E /\ Said(run) \in S
    BY <1>3
  <2> HIDE DEF O, E, K, S
  <2>3. EdgesOf(Ends(run), IDsIn(run.observations)) \subseteq EdgesOf(E, K)
    BY <2>2, EdgesGrow
  <2> QED BY <2>1, <2>2, <2>3, SequencesGrow DEF Fits
<1> HIDE DEF O, E, K, S
<1> QED BY <1>2, <1>3

LEMMA RecordedAllOf ==
  ASSUME NEW inv, IsInvestigation(inv), NEW done, \A one \in done : IsRun(one),
         IsRecordOf(inv, done),
         NEW runs, IsFiniteSet(runs), \A run \in runs : IsRun(run),
         \A one \in done, run \in runs : Apart(one, run),
         \A one, other \in runs : one = other \/ Apart(one, other),
         NEW list \in SetToSeqs(runs)
  PROVE  /\ IsInvestigation(RecordedAll(inv, list))
         /\ IsRecordOf(RecordedAll(inv, list), done \cup runs)
<1> DEFINE n == Len(list)
           new == RecordedAll(inv, list)
           before(i) == done \cup {list[j] : j \in 1..i}
<1>1. /\ list \in Seq(runs) /\ Items(list) = runs
      /\ \A i, j \in DOMAIN list : list[i] = list[j] => i = j
  BY OrdersAre
<1>2. n \in Nat /\ DOMAIN list = 1..n /\ \A i \in 1..n : list[i] \in runs
  BY <1>1, LenProperties, ElementOfSeq
<1>3. new = InTurn(inv, list)
  BY DEF RecordedAll, InTurn
<1> HIDE DEF n, new
<1>4. PICK O, E, K, S : /\ inv \in Ledger(O, E, K, S)
                        /\ \A run \in runs : Fits(run, O, E, K, S)
  BY RunsFit
<1>5. PICK g : RecordsInTurn(g, Ledger(O, E, K, S), inv, list)
  BY <1>1, <1>4, RecordingSteps
<1>6. /\ g[0] = inv /\ InTurn(inv, list) = g[n]
      /\ \A i \in 1..n : g[i] = Recorded(g[i - 1], list[i])
  BY <1>5 DEF RecordsInTurn, n
<1> DEFINE T == {i \in 0..n : IsInvestigation(g[i]) /\ IsRecordOf(g[i], before(i))}
<1>7. 0 \in T
  <2>1. before(0) = done
    OBVIOUS
  <2> HIDE DEF before
  <2> QED BY <1>2, <1>6, <2>1
<1>8. ASSUME NEW i \in 1..n, i - 1 \in T PROVE i \in T
  <2> DEFINE was == g[i - 1]
             known == before(i - 1)
             run == list[i]
  <2>1. IsInvestigation(was) /\ IsRecordOf(was, known) /\ i \in 0..n
    BY <1>2, <1>8
  <2>2. run \in runs /\ IsRun(run)
    BY <1>2
  <2>3. ASSUME NEW one \in known PROVE IsRun(one) /\ Apart(one, run)
    <3>1. CASE one \in done
      BY <2>2, <3>1
    <3>2. CASE one \in {list[j] : j \in 1..(i - 1)}
      <4>1. PICK j \in 1..(i - 1) : one = list[j]
        BY <3>2
      <4>2. j \in 1..n /\ j # i
        BY <1>2
      <4>3. one \in runs /\ one # run
        BY <1>1, <1>2, <4>1, <4>2
      <4> QED BY <2>2, <4>3
    <3> QED BY <2>3, <3>1, <3>2
  <2>4. before(i) = known \cup {run}
    <3>1. 1..i = 1..(i - 1) \cup {i}
      BY <1>2
    <3> QED BY <3>1
  <2>5. g[i] = Recorded(was, run)
    BY <1>6
  <2> HIDE DEF was, known, run, before
  <2>6. IsInvestigation(Recorded(was, run))
    BY <2>1, <2>2, RecordedIs
  <2>7. IsRecordOf(Recorded(was, run), known \cup {run})
    BY <2>1, <2>2, <2>3, RecordedOf
  <2> QED BY <2>1, <2>4, <2>5, <2>6, <2>7
<1>9. n \in T
  <2> HIDE DEF T
  <2>1. \A i \in 0..n : i \in T
    BY <1>2, <1>7, <1>8, UpTo
  <2> QED BY <1>2, <2>1
<1>10. before(n) = done \cup runs
  BY <1>1, <1>2 DEF Items
<1> HIDE DEF before
<1>11. IsInvestigation(new) /\ IsRecordOf(new, done \cup runs)
  BY <1>3, <1>6, <1>9, <1>10
<1> QED BY <1>11 DEF new

-----------------------------------------------------------------------------
(* What holds at any time: what is recorded is what the completed runs     *)
(* have found, and a report is that of what is recorded.                   *)
CorrelationInvariant ==
  /\ IsFiniteSet(running) /\ IsFiniteSet(completed) /\ running \cap completed = {}
  /\ \A run \in running \cup completed : IsRun(run)
  /\ \A one, other \in running \cup completed : one = other \/ Apart(one, other)
  /\ IsInvestigation(investigation) /\ IsRecordOf(investigation, completed)
  /\ Done => running = {} /\ report = Correlate(Index)

LEMMA NewInvestigationIs ==
  IsInvestigation(NewInvestigation) /\ IsRecordOf(NewInvestigation, {})
<1> DEFINE none == <<>>
           inv == NewInvestigation
<1>1. inv = [observations |-> none, relationships |-> none, sources |-> none]
  BY DEF NewInvestigation
<1>2. /\ \A S : none \in Seq(S)
      /\ Items(none) = {} /\ HasIDs(none)
      /\ none \in EdgeLists({}, IDsIn(none))
  <2>1. \A S : none \in Seq(S)
    OBVIOUS
  <2>2. DOMAIN none = {}
    OBVIOUS
  <2>3. Items(none) = {} /\ HasIDs(none)
    BY <2>2 DEF Items, HasIDs
  <2> HIDE DEF none
  <2> QED BY <2>1, <2>2, <2>3 DEF EdgeLists
<1> HIDE DEF none, inv
<1>3. inv.observations = none /\ inv.relationships = none /\ inv.sources = none
  BY <1>1
<1>4. IsInvestigation(inv)
  BY <1>1, <1>2, <1>3 DEF IsInvestigation
<1>5. IsRecordOf(inv, {})
  BY <1>2, <1>3 DEF IsRecordOf
<1> QED BY <1>4, <1>5 DEF inv

LEMMA QuietIsApart ==
  ASSUME NEW one, NEW other, Quiet(one) \/ Quiet(other)
  PROVE  Apart(one, other)
<1> DEFINE none == <<>>
<1>1. Items(none) = {} /\ IDsIn(none) = {}
  <2>1. DOMAIN none = {}
    OBVIOUS
  <2> HIDE DEF none
  <2> QED BY <2>1 DEF Items, IDsIn
<1>2. Quiet(one) => one.observations = none /\ one.relationships = none
  BY DEF Quiet
<1>3. Quiet(other) => other.observations = none /\ other.relationships = none
  BY DEF Quiet
<1> HIDE DEF none
<1> QED BY <1>1, <1>2, <1>3 DEF Apart

LEMMA TimedOutIs ==
  ASSUME NEW run, IsRun(run)
  PROVE  IsRun(TimedOut(run)) /\ Quiet(TimedOut(run))
<1> DEFINE none == <<>>
           late == TimedOut(run)
<1>1. Quiet(late)
  BY RunIs
<1>2. late.observations = none /\ late.relationships = none
  BY <1>1 DEF Quiet
<1>3. late = [source |-> run.source, about |-> run.about, outcome |-> "timed_out",
              observations |-> none, relationships |-> none]
  <2>1. run \in [source : {run.source}, about : {run.about}, outcome : {run.outcome},
                 observations : {run.observations}, relationships : {run.relationships}]
    BY DEF IsRun
  <2>2. late \in [source : {run.source}, about : {run.about}, outcome : {"timed_out"},
                  observations : {none}, relationships : {none}]
    <3>1. TimedOut(run) = [run EXCEPT !.observations = none, !.relationships = none,
                                      !.outcome = "timed_out"]
      BY DEF TimedOut
    <3> HIDE DEF none, late
    <3> DEFINE first == [run EXCEPT !.observations = none]
               second == [first EXCEPT !.relationships = none]
               third == [second EXCEPT !.outcome = "timed_out"]
    <3>2. first \in [source : {run.source}, about : {run.about}, outcome : {run.outcome},
                     observations : {none}, relationships : {run.relationships}]
      BY <2>1
    <3>3. late = third
      BY <3>1 DEF late
    <3> HIDE DEF first
    <3>4. second \in [source : {run.source}, about : {run.about}, outcome : {run.outcome},
                      observations : {none}, relationships : {none}]
      BY <3>2
    <3> HIDE DEF second
    <3>5. third \in [source : {run.source}, about : {run.about}, outcome : {"timed_out"},
                     observations : {none}, relationships : {none}]
      BY <3>4
    <3> HIDE DEF third
    <3> QED BY <3>3, <3>5
  <2> HIDE DEF late, none
  <2> QED BY <2>2
<1>4. (\A S : none \in Seq(S)) /\ DOMAIN none = {}
  OBVIOUS
<1> HIDE DEF none, late
<1>5. Items(none) = {} /\ HasIDs(none)
  BY <1>4 DEF Items, HasIDs
<1>6. late \in [source : {late.source}, about : {late.about}, outcome : {late.outcome},
                observations : Seq(Items(late.observations)),
                relationships : Seq(Items(late.relationships))]
  BY <1>2, <1>3, <1>4
<1>7. IsRun(late)
  BY <1>2, <1>5, <1>6 DEF IsRun
<1> QED BY <1>1, <1>7 DEF late

LEMMA CorrelationInit == Init => CorrelationInvariant
<1> SUFFICES ASSUME Init PROVE CorrelationInvariant
  OBVIOUS
<1>1. /\ running \in Scenarios /\ completed = {} /\ investigation = NewInvestigation
      /\ report = NoReport
  BY DEF Init
<1>2. /\ IsFiniteSet(running) /\ \A run \in running : IsRun(run)
      /\ \A one, other \in running : one = other \/ Apart(one, other)
  BY <1>1, CorrelationConstants DEF CorrelationConstants
<1>3. IsFiniteSet(completed)
  BY <1>1, FS_EmptySet
<1>4. IsInvestigation(investigation) /\ IsRecordOf(investigation, completed)
  BY <1>1, NewInvestigationIs
<1> QED BY <1>1, <1>2, <1>3, <1>4 DEF Done, CorrelationInvariant

LEMMA CorrelationStep ==
  CorrelationInvariant /\ [Next]_vars => CorrelationInvariant'
<1> SUFFICES ASSUME CorrelationInvariant, [Next]_vars PROVE CorrelationInvariant'
  OBVIOUS
<1> DEFINE runs == running \cup completed
<1>1. /\ IsFiniteSet(running) /\ IsFiniteSet(completed) /\ running \cap completed = {}
      /\ \A run \in runs : IsRun(run)
      /\ \A one, other \in runs : one = other \/ Apart(one, other)
      /\ IsInvestigation(investigation) /\ IsRecordOf(investigation, completed)
      /\ Done => running = {} /\ report = Correlate(Index)
  BY DEF CorrelationInvariant
<1>2. CASE Complete
  <2>1. PICK run \in running :
          /\ running' = running \ {run}
          /\ completed' = completed \cup {run}
          /\ investigation' = Recorded(investigation, run)
          /\ report' = report
    BY <1>2 DEF Complete
  <2>2. running' \cup completed' = runs /\ running' \cap completed' = {}
    BY <1>1, <2>1
  <2>3. IsFiniteSet(running') /\ IsFiniteSet(completed')
    BY <1>1, <2>1, FS_Subset, FS_AddElement
  <2>4. \A one \in completed : IsRun(one) /\ Apart(one, run)
    BY <1>1, <2>1
  <2>5. IsRun(run)
    BY <1>1, <2>1
  <2>6. IsInvestigation(investigation') /\ IsRecordOf(investigation', completed')
    BY <1>1, <2>1, <2>4, <2>5, RecordedIs, RecordedOf
  <2>7. ~Done' /\ (\A one \in running' \cup completed' : IsRun(one))
    BY <1>1, <2>1, <2>2 DEF Done
  <2>8. \A one, other \in running' \cup completed' : one = other \/ Apart(one, other)
    BY <1>1, <2>2
  <2> QED BY <2>2, <2>3, <2>6, <2>7, <2>8 DEF CorrelationInvariant
<1>3. CASE CutOff
  <2> DEFINE late == {TimedOut(run) : run \in running}
  <2>1. /\ running # {} /\ running' = {} /\ report' = report
        /\ completed' = completed \cup late
        /\ \E order \in SetToSeqs(late) : investigation' = RecordedAll(investigation, order)
    BY <1>3 DEF CutOff
  <2>2. \A run \in late : IsRun(run) /\ Quiet(run)
    BY <1>1, TimedOutIs
  <2>3. IsFiniteSet(late)
    <3> DEFINE f == [run \in running |-> TimedOut(run)]
    <3>1. f \in Surjection(running, late)
      BY DEF Surjection
    <3> QED BY <1>1, <3>1, FS_Surjection
  <2> HIDE DEF late
  <2>4. IsFiniteSet(running') /\ IsFiniteSet(completed') /\ running' \cap completed' = {}
    BY <1>1, <2>1, <2>3, FS_EmptySet, FS_Union
  <2>5. \A one \in running' \cup completed' : IsRun(one)
    BY <1>1, <2>1, <2>2
  <2>6. \A one, other \in running' \cup completed' : one = other \/ Apart(one, other)
    <3> SUFFICES ASSUME NEW one \in completed \cup late, NEW other \in completed \cup late
                 PROVE  one = other \/ Apart(one, other)
      BY <2>1
    <3>1. CASE one \in late \/ other \in late
      BY <2>2, <3>1, QuietIsApart
    <3>2. CASE one \in completed /\ other \in completed
      BY <1>1, <3>2
    <3> QED BY <3>1, <3>2
  <2>7. IsInvestigation(investigation') /\ IsRecordOf(investigation', completed')
    <3>1. \A one \in completed, run \in late : Apart(one, run)
      BY <2>2, QuietIsApart
    <3>2. \A one, other \in late : one = other \/ Apart(one, other)
      BY <2>2, QuietIsApart
    <3>3. \A one \in completed : IsRun(one)
      BY <1>1
    <3>4. PICK order \in SetToSeqs(late) : investigation' = RecordedAll(investigation, order)
      BY <2>1
    <3>5. /\ IsInvestigation(RecordedAll(investigation, order))
          /\ IsRecordOf(RecordedAll(investigation, order), completed \cup late)
      BY <1>1, <2>2, <2>3, <3>1, <3>2, <3>3, RecordedAllOf
    <3> QED BY <2>1, <3>4, <3>5
  <2>8. ~Done'
    BY <1>1, <2>1 DEF Done
  <2> QED BY <2>1, <2>4, <2>5, <2>6, <2>7, <2>8 DEF CorrelationInvariant
<1>4. CASE Finish
  <2>1. /\ running = {} /\ running' = running /\ completed' = completed
        /\ investigation' = investigation
        /\ report' = Correlate(EvidenceIndex(investigation))
    BY <1>4 DEF Finish
  <2>2. report' = Correlate(Index') /\ running' = {}
    BY <2>1 DEF Index
  <2> QED BY <1>1, <2>1, <2>2 DEF CorrelationInvariant
<1>5. CASE Over \/ UNCHANGED vars
  <2>1. /\ running' = running /\ completed' = completed
        /\ investigation' = investigation /\ report' = report
    BY <1>5 DEF Over, vars
  <2> QED BY <1>1, <2>1 DEF CorrelationInvariant, Done, Index
<1> QED BY <1>2, <1>3, <1>4, <1>5 DEF Next

-----------------------------------------------------------------------------
(* What the rules may rely on *)

IsSound(index, r) ==
  /\ r.kind \in DOMAIN Allows /\ IsEntity(r.source) /\ IsEntity(r.target)
  /\ r.source[1] = Allows[r.kind][1] /\ r.target[1] = Allows[r.kind][2]
  /\ r.evidence[1] \in Items(r.evidence)
  /\ IsFiniteSet(Items(r.evidence)) /\ Items(r.evidence) \subseteq IDs(index)

Sound(index) ==
  /\ IsFiniteSet(Edges(index)) /\ IsFiniteSet(Observed(index))
  /\ \A r \in Edges(index) : IsSound(index, r)
  /\ \A one, other \in Edges(index) : SameEdge(one, other) => one = other

(* Each ID is that of the first observation that has it.                   *)
LEMMA ObservedAre ==
  ASSUME NEW inv, inv.observations \in Seq(Items(inv.observations))
  PROVE  /\ EvidenceIndex(inv).observations \subseteq Items(inv.observations)
         /\ IDs(EvidenceIndex(inv)) = IDsIn(inv.observations)
<1> DEFINE s == inv.observations
           O == Items(s)
<1>1. s \in Seq(O) /\ DOMAIN s = 1..Len(s) /\ Len(s) \in Nat
  BY LenProperties
<1>2. \A i \in DOMAIN s : s[i] \in O
  BY DEF Items
<1>3. EvidenceIndex(inv).observations = {s[i] : i \in {j \in DOMAIN s : \A k \in 1..(j - 1) : s[k].id # s[j].id}}
  BY DEF EvidenceIndex
<1>4. EvidenceIndex(inv).observations \subseteq O
  BY <1>2, <1>3
<1>5. ASSUME NEW o \in O PROVE \E p \in EvidenceIndex(inv).observations : p.id = o.id
  <2> DEFINE T == {i \in DOMAIN s : s[i].id = o.id}
  <2>1. T \in SUBSET Nat /\ T # {}
    BY <1>1 DEF Items
  <2>2. PICK j \in T : \A k \in T : j <= k
    BY <2>1, LeastNumber
  <2>3. \A k \in 1..(j - 1) : s[k].id # s[j].id
    BY <1>1, <2>2
  <2>4. s[j] \in EvidenceIndex(inv).observations /\ s[j].id = o.id
    BY <1>3, <2>3
  <2> QED BY <2>4
<1> QED BY <1>4, <1>5 DEF IDs, Observed, IDsIn

(* No edge is dropped where each is recorded once.                         *)
LEMMA EdgesAreKept ==
  ASSUME NEW inv, NEW D, inv.relationships \in Seq(D),
         \A i, j \in DOMAIN inv.relationships :
           SameEdge(inv.relationships[i], inv.relationships[j]) => i = j
  PROVE  EvidenceIndex(inv).relationships = Items(inv.relationships)
<1> DEFINE edges == inv.relationships
           one == {j \in DOMAIN edges :
                     \A k \in 1..(j - 1) : ~SameEdge(edges[k], edges[j])}
<1>1. EvidenceIndex(inv).relationships = {edges[j] : j \in one}
  BY DEF EvidenceIndex
<1>2. DOMAIN edges = 1..Len(edges) /\ Len(edges) \in Nat
  BY LenProperties
<1>3. ASSUME NEW j \in DOMAIN edges, NEW k \in 1..(j - 1)
      PROVE  ~SameEdge(edges[k], edges[j])
  <2>1. k \in DOMAIN edges /\ k # j
    BY <1>2
  <2> QED BY <2>1
<1>4. one = DOMAIN edges
  BY <1>3
<1> HIDE DEF one
<1> QED BY <1>1, <1>4 DEF Items

LEMMA InvestigationIsSound ==
  ASSUME NEW inv, IsInvestigation(inv)
  PROVE  Sound(EvidenceIndex(inv))
<1> DEFINE K == IDsIn(inv.observations)
           edges == inv.relationships
           index == EvidenceIndex(inv)
<1>1. PICK E : edges \in EdgeLists(E, K)
  BY DEF IsInvestigation
<1>2. inv.observations \in Seq(Items(inv.observations))
  BY DEF IsInvestigation
<1>3. Observed(index) \subseteq Items(inv.observations) /\ IDs(index) = K
  BY <1>2, ObservedAre DEF Observed
<1>4. IsFiniteSet(Observed(index))
  BY <1>2, <1>3, ItemsAre, FS_Subset
<1> HIDE DEF K
<1>5. /\ edges \in Seq(EdgesOf(E, K))
      /\ \A i, j \in DOMAIN edges : SameEdge(edges[i], edges[j]) => i = j
  BY <1>1 DEF EdgeLists
<1>6. Edges(index) = Items(edges)
  BY <1>5, EdgesAreKept DEF Edges
<1> HIDE DEF edges, index
<1>7. /\ Items(edges) \subseteq EdgesOf(E, K) /\ IsFiniteSet(Items(edges))
      /\ \A x \in Items(edges) : \E i \in DOMAIN edges : edges[i] = x
  BY <1>5, ItemsAre
<1>8. ASSUME NEW r \in Items(edges) PROVE IsSound(index, r)
  <2>1. r \in EdgesOf(E, K)
    BY <1>7
  <2>2. /\ r.kind \in DOMAIN Allows /\ IsEntity(r.source) /\ IsEntity(r.target)
        /\ r.source[1] = Allows[r.kind][1] /\ r.target[1] = Allows[r.kind][2]
        /\ r.evidence \in Seq(K) /\ r.evidence # <<>>
    BY <2>1, EdgeIs
  <2>3. Items(r.evidence) \subseteq K /\ IsFiniteSet(Items(r.evidence))
        /\ \A i \in DOMAIN r.evidence : r.evidence[i] \in Items(r.evidence)
    BY <2>2, ItemsAre
  <2>4. 1 \in DOMAIN r.evidence
    BY <2>2, LenProperties, EmptySeq
  <2> QED BY <1>3, <2>2, <2>3, <2>4 DEF IsSound
<1>9. \A one, other \in Items(edges) : SameEdge(one, other) => one = other
  BY <1>5, <1>7
<1> QED BY <1>4, <1>6, <1>7, <1>8, <1>9 DEF Sound, index

(* With IDs of their own, all observations count, in any order.            *)
LEMMA IndexIs ==
  ASSUME NEW inv, NEW O, inv.observations \in Seq(O), HasIDs(inv.observations),
         NEW D, inv.relationships \in Seq(D),
         \A i, j \in DOMAIN inv.relationships :
           SameEdge(inv.relationships[i], inv.relationships[j]) => i = j
  PROVE  EvidenceIndex(inv) =
           [observations |-> Items(inv.observations),
            relationships |-> Items(inv.relationships),
            sources |-> inv.sources, duplicates |-> FALSE]
<1> DEFINE obs == inv.observations
           n == Len(obs)
           first == {j \in DOMAIN obs : \A k \in 1..(j - 1) : obs[k].id # obs[j].id}
<1>1. n \in Nat /\ DOMAIN obs = 1..n
  BY LenProperties
<1>2. EvidenceIndex(inv) =
        [observations |-> {obs[j] : j \in first},
         relationships |-> EvidenceIndex(inv).relationships,
         sources |-> inv.sources, duplicates |-> n > Cardinality(first)]
  BY DEF EvidenceIndex
<1>7. EvidenceIndex(inv).relationships = Items(inv.relationships)
  BY EdgesAreKept
<1>3. first = 1..n
  <2>1. ASSUME NEW j \in 1..n, NEW k \in 1..(j - 1) PROVE obs[k].id # obs[j].id
    <3>1. k \in 1..n /\ k # j
      BY <1>1
    <3> QED BY <1>1, <3>1 DEF HasIDs
  <2> QED BY <1>1, <2>1
<1>4. {obs[j] : j \in first} = Items(obs)
  BY <1>1, <1>3 DEF Items
<1> HIDE DEF first, n, obs
<1>5. Cardinality(first) = n
  <2>1. Cardinality(1..n) = IF 1 > n THEN 0 ELSE (n - 1) + 1
    BY <1>1, FS_Interval
  <2> QED BY <1>1, <1>3, <2>1
<1>6. (n > Cardinality(first)) = FALSE
  BY <1>1, <1>5
<1> QED BY <1>2, <1>4, <1>6, <1>7 DEF obs

LEMMA RecordIndexIs ==
  ASSUME NEW inv, IsInvestigation(inv), HasIDs(inv.observations)
  PROVE  EvidenceIndex(inv) =
           [observations |-> Items(inv.observations),
            relationships |-> Items(inv.relationships),
            sources |-> inv.sources, duplicates |-> FALSE]
<1>1. inv.observations \in Seq(Items(inv.observations))
  BY DEF IsInvestigation
<1>2. PICK E : inv.relationships \in EdgeLists(E, IDsIn(inv.observations))
  BY DEF IsInvestigation
<1>3. /\ inv.relationships \in Seq(EdgesOf(E, IDsIn(inv.observations)))
      /\ \A i, j \in DOMAIN inv.relationships :
           SameEdge(inv.relationships[i], inv.relationships[j]) => i = j
  BY <1>2 DEF EdgeLists
<1> QED BY <1>1, <1>3, IndexIs

(* All that the completed runs observed and related is in the index, and   *)
(* what they said.                                                         *)
LEMMA EverythingIsIndexed ==
  ASSUME CorrelationInvariant
  PROVE  /\ Index = [observations |-> Observations,
                     relationships |-> UNION {Items(Own(run)) : run \in completed},
                     sources |-> investigation.sources, duplicates |-> FALSE]
         /\ investigation.sources \in Seq(Items(investigation.sources))
         /\ Items(investigation.sources) = {Said(run) : run \in completed}
         /\ Observed(Index) = Observations
         /\ \A o \in Observations : o.counts \in [DOMAIN o.counts -> Nat]
<1>1. /\ IsInvestigation(investigation) /\ IsRecordOf(investigation, completed)
      /\ \A run \in completed : IsRun(run)
  BY DEF CorrelationInvariant
<1>2. EvidenceIndex(investigation) =
        [observations |-> Items(investigation.observations),
         relationships |-> Items(investigation.relationships),
         sources |-> investigation.sources, duplicates |-> FALSE]
  BY <1>1, RecordIndexIs DEF IsRecordOf
<1>3. /\ Items(investigation.observations) = Observations
      /\ Items(investigation.relationships) = UNION {Items(Own(run)) : run \in completed}
      /\ Items(investigation.sources) = {Said(run) : run \in completed}
  BY <1>1 DEF IsRecordOf, Observations
<1>4. Index = [observations |-> Observations,
               relationships |-> UNION {Items(Own(run)) : run \in completed},
               sources |-> investigation.sources, duplicates |-> FALSE]
  BY <1>2, <1>3 DEF Index
<1>5. Observed(Index) = Observations
  BY <1>4 DEF Observed
<1>6. \A o \in Observations : o.counts \in [DOMAIN o.counts -> Nat]
  BY <1>1 DEF IsRun, Observations
<1>7. investigation.sources \in Seq(Items(investigation.sources))
  BY <1>1 DEF IsInvestigation
<1> QED BY <1>3, <1>4, <1>5, <1>6, <1>7

(* An entity has an edge of a kind just when a completed run related it.   *)
LEMMA EdgesAreRelated ==
  ASSUME CorrelationInvariant, NEW kind, NEW entity
  PROVE  From(Index, kind, entity) # {} <=>
           \E run \in completed : \E r \in Items(run.relationships) :
             r.kind = kind /\ r.source = entity
<1>1. Edges(Index) = UNION {Items(Own(run)) : run \in completed}
  BY EverythingIsIndexed DEF Edges
<1>2. ASSUME NEW run \in completed
      PROVE  /\ Known(Items(Own(run)), Items(run.relationships))
             /\ Known(Items(run.relationships), Items(Own(run)))
  <2>1. run.relationships \in Seq(EdgesOf(Ends(run), IDsIn(run.observations)))
    BY RunIs DEF CorrelationInvariant
  <2> QED BY <2>1, TogetherKnown, TogetherHas DEF Own
<1>3. From(Index, kind, entity) = {r \in Edges(Index) : r.kind = kind /\ r.source = entity}
  BY DEF From, OfKind
<1>4. ASSUME NEW x \in Edges(Index), x.kind = kind, x.source = entity
      PROVE  \E run \in completed : \E r \in Items(run.relationships) :
               r.kind = kind /\ r.source = entity
  <2>1. PICK run \in completed : x \in Items(Own(run))
    BY <1>1
  <2>2. PICK r \in Items(run.relationships) : SameEdge(x, r)
    BY <1>2, <2>1 DEF Known
  <2> QED BY <1>4, <2>2 DEF SameEdge
<1>5. ASSUME NEW run \in completed, NEW r \in Items(run.relationships),
             r.kind = kind, r.source = entity
      PROVE  \E x \in Edges(Index) : x.kind = kind /\ x.source = entity
  <2>1. PICK x \in Items(Own(run)) : SameEdge(r, x)
    BY <1>2 DEF Known
  <2> QED BY <1>1, <1>5, <2>1 DEF SameEdge
<1> QED BY <1>3, <1>4, <1>5

-----------------------------------------------------------------------------
(* Drafts, and the correlations that are built from them *)

Fields == {"subjects", "links", "claims", "supporting", "conflicts", "gaps", "limitations"}

LEMMA KindsAre ==
  ASSUME NEW index, NEW d \in Drafts(index)
  PROVE  /\ d = <<d[1], d[2]>>
         /\ \/ /\ d[1] = "domain_ip_infrastructure"
               /\ \E r \in OfKind(index, "resolves_to") :
                    HasContext(index, r) /\ d[2] = Infrastructure(index, r)
            \/ /\ d[1] = "domain_certificate" /\ d[2] = DomainCertificate(index)
               /\ CoversOf(index, Target) # {}
            \/ /\ d[1] = "ct_dns_names" /\ d[2] = CtDnsNames(index)
               /\ \E name \in CtNames(index) : InDns(index, name)
            \/ /\ d[1] = "multiple_sources"
               /\ \E e \in Subjects(index) : /\ Cardinality(Providers(ClaimsAbout(index, e))) >= 2
                                           /\ d[2] = MultipleSources(index, e)
            \/ /\ d[1] = "source_disagreement"
               /\ \E e \in Subjects(index) : /\ ProviderConflicts(ClaimsAbout(index, e)) # {}
                                           /\ d[2] = SourceDisagreement(index, e)
            \/ d[1] = "shared_infrastructure" /\ d[2] \in SharedDrafts(index)
<1>1. CASE d \in {<<"domain_ip_infrastructure", draft>> : draft \in InfrastructureDrafts(index)}
  BY <1>1 DEF InfrastructureDrafts
<1>2. CASE d \in CertificateDrafts(index)
  <2>1. CASE d = <<"domain_certificate", DomainCertificate(index)>> /\ CoversOf(index, Target) # {}
    BY <2>1
  <2>2. CASE d = <<"ct_dns_names", CtDnsNames(index)>> /\ \E name \in CtNames(index) : InDns(index, name)
    BY <2>2
  <2> QED BY <1>2, <2>1, <2>2 DEF CertificateDrafts, When
<1>3. CASE d \in ProviderDrafts(index)
  <2>1. CASE d \in {<<"multiple_sources", MultipleSources(index, e)>> :
                      e \in {f \in Subjects(index) :
                               Cardinality(Providers(ClaimsAbout(index, f))) >= 2}}
    BY <2>1
  <2>2. CASE d \in {<<"source_disagreement", SourceDisagreement(index, e)>> :
                      e \in {f \in Subjects(index) : ProviderConflicts(ClaimsAbout(index, f)) # {}}}
    BY <2>2
  <2> QED BY <1>3, <2>1, <2>2 DEF ProviderDrafts
<1>4. CASE d \in {<<"shared_infrastructure", draft>> : draft \in SharedDrafts(index)}
  BY <1>4
<1> QED BY <1>1, <1>2, <1>3, <1>4 DEF Drafts

LEMMA DomainsAre ==
  ASSUME NEW index
  PROVE  /\ \A r : DOMAIN Infrastructure(index, r) = Fields
         /\ DOMAIN DomainCertificate(index) = Fields /\ DOMAIN CtDnsNames(index) = Fields
         /\ \A e : /\ DOMAIN MultipleSources(index, e) = Fields
                   /\ DOMAIN SourceDisagreement(index, e) = Fields
         /\ \A s, members, links : DOMAIN Group(s, members, links) = Fields
<1>1. DOMAIN Draft = Fields
  BY DEF Draft, Fields
<1> QED BY <1>1 DEF Infrastructure, DomainCertificate, CtDnsNames, MultipleSources,
                    SourceDisagreement, Group

LEMMA DraftsAre ==
  ASSUME NEW index, NEW d \in Drafts(index)
  PROVE  DOMAIN d[2] = Fields
<1>1. ASSUME d[2] \in SharedDrafts(index) PROVE DOMAIN d[2] = Fields
  <2>1. \E s, members, links : d[2] = Group(s, members, links)
    <3>1. ASSUME NEW kind, d[2] \in TargetGroups(index, kind)
          PROVE  \E s, members, links : d[2] = Group(s, members, links)
      BY <3>1 DEF TargetGroups
    <3>2. ASSUME d[2] \in CertificateGroups(index)
          PROVE  \E s, members, links : d[2] = Group(s, members, links)
      BY <3>2 DEF CertificateGroups
    <3>3. d[2] \in CertificateGroups(index) \/ \E kind : d[2] \in TargetGroups(index, kind)
      BY <1>1 DEF SharedDrafts
    <3> QED BY <3>1, <3>2, <3>3
  <2> QED BY <2>1, DomainsAre
<1>2. ASSUME ~ (d[2] \in SharedDrafts(index)) PROVE DOMAIN d[2] = Fields
  BY <1>2, KindsAre, DomainsAre
<1> QED BY <1>1, <1>2

IdentifierOf(d) == <<d[1], d[2].subjects, EvidenceOf(d[2])>>

(* It says what its draft says, and perhaps that the times differ. *)
LimitationsOf(c, d) ==
  /\ d[2].limitations \subseteq c.content.limitations
  /\ c.content.limitations \subseteq d[2].limitations \cup {"not simultaneous"}

(* The correlation c is built from the draft d. *)
IsBuiltFrom(c, d) ==
  /\ c.id = IdentifierOf(d)
  /\ \A field \in Fields \ {"limitations"} : c.content[field] = d[2][field]
  /\ LimitationsOf(c, d)

Backed(index) == {d \in Drafts(index) : IsBacked(index, d[2])}

LEMMA BuiltIs ==
  ASSUME NEW index, NEW d \in Drafts(index)
  PROVE  IsBuiltFrom(Build(index, d[1], d[2]), d)
<1> DEFINE draft == d[2]
           c == Build(index, d[1], draft)
           times == {o.at : o \in {p \in Observed(index) : p.id \in EvidenceOf(draft)}}
<1>1. DOMAIN draft = Fields
  BY DraftsAre
<1>2. /\ c.id = <<d[1], draft.subjects, EvidenceOf(draft)>>
      /\ c.content = [draft EXCEPT !.limitations =
                        @ \cup When(Cardinality(times) > 1, {"not simultaneous"})]
  BY DEF Build
<1> HIDE DEF draft, c, times
<1>3. ASSUME NEW field \in Fields \ {"limitations"} PROVE c.content[field] = draft[field]
  BY <1>1, <1>2
<1>4. c.content.limitations =
        draft.limitations \cup When(Cardinality(times) > 1, {"not simultaneous"})
  BY <1>1, <1>2 DEF Fields
<1>5. IsBuiltFrom(c, d)
  BY <1>2, <1>3, <1>4 DEF IsBuiltFrom, LimitationsOf, When, IdentifierOf, draft
<1> QED BY <1>5 DEF c, draft

(* Each correlation is that of a draft, and each draft that is backed has  *)
(* one with its identifier.                                                *)
LEMMA CorrelationsAre ==
  ASSUME NEW index
  PROVE  LET all == Correlate(index).correlations IN
         /\ \A c \in all : \E d \in Backed(index) : IsBuiltFrom(c, d)
         /\ \A d \in Backed(index) : \E c \in all : c.id = IdentifierOf(d)
         /\ \A b, c \in all : b.id = c.id => b = c
<1> DEFINE built == {Build(index, d[1], d[2]) : d \in Backed(index)}
           one(id) == CHOOSE c \in built : c.id = id
           all == {one(id) : id \in {c.id : c \in built}}
<1>1. Correlate(index).correlations = all
  BY DEF Correlate, Backed
<1>2. \A c \in built : \E d \in Backed(index) : IsBuiltFrom(c, d)
  BY BuiltIs DEF Backed
<1>3. \A d \in Backed(index) : \E c \in built : c.id = IdentifierOf(d)
  BY BuiltIs DEF Backed, IsBuiltFrom
<1> HIDE DEF built
<1>4. \A c \in built : one(c.id) \in built /\ one(c.id).id = c.id
  OBVIOUS
<1>5. \A c \in all : c \in built /\ c = one(c.id)
  BY <1>4
<1>6. \A d \in Backed(index) : \E c \in all : c.id = IdentifierOf(d)
  <2> SUFFICES ASSUME NEW d \in Backed(index) PROVE \E c \in all : c.id = IdentifierOf(d)
    OBVIOUS
  <2>1. PICK b \in built : b.id = IdentifierOf(d)
    BY <1>3
  <2>2. one(b.id) \in all
    OBVIOUS
  <2> HIDE DEF all, one
  <2> QED BY <1>4, <2>1, <2>2
<1> HIDE DEF one
<1> QED BY <1>1, <1>2, <1>5, <1>6

-----------------------------------------------------------------------------
(* Providers that disagree *)

Stances == {"flags", "does_not_flag", "no_record", "unclear"}

LEMMA ClaimsAre ==
  ASSUME NEW index, NEW entity
  PROVE  \A claim \in ClaimsAbout(index, entity) :
           /\ claim.stance \in Stances
           /\ claim.observation \in IDs(index)
           /\ \E o \in About(index, entity) : claim = Claim(o)
<1> SUFFICES ASSUME NEW o \in About(index, entity)
             PROVE  Claim(o).stance \in Stances /\ Claim(o).observation \in IDs(index)
  BY DEF ClaimsAbout
<1>1. Stance(o) \in Stances
  BY DEF Stance, IPReputation, ProviderReputation, Stances
<1>2. o \in Observed(index)
  BY DEF About
<1> QED BY <1>1, <1>2 DEF Claim, IDs

(* What is read in the counts of an answer is what it says.                *)
LEMMA StanceIs ==
  ASSUME NEW o, IsClaim(o), o.counts \in [DOMAIN o.counts -> Nat]
  PROVE  /\ Stance(o) = "flags" <=> SaysBad(o)
         /\ Stance(o) = "does_not_flag" <=> SaysNotBad(o)
         /\ Stance(o) = "no_record" <=> HasNoRecord(o)
<1> DEFINE c == o.counts
           D == DOMAIN c
           bad == \E name \in {"malicious", "suspicious"} \cap D : c[name] > 0
           any == \E name \in Engines \cap D : c[name] > 0
<1>1. \A name \in D : c[name] \in Nat
  OBVIOUS
<1>2. \A name : Metric(o, name) = IF name \in D THEN c[name] ELSE 0
  BY DEF Metric
<1> HIDE DEF c, D
<1>3. Metric(o, "malicious") + Metric(o, "suspicious") > 0 <=> bad
  BY <1>1, <1>2
<1>4. (\E name \in Engines : Metric(o, name) > 0) <=> any
  BY <1>1, <1>2
<1>5. CASE o.data = "ip reputation"
  <2>1. Stance(o) = IPReputation(o)
    BY <1>5 DEF Stance
  <2>2. IPReputation(o) = IF "total_reports" \notin D THEN "unclear"
                          ELSE IF c["total_reports"] = 0 THEN "does_not_flag" ELSE "flags"
    BY DEF IPReputation, c, D
  <2>3. SaysBad(o) <=> "total_reports" \in D /\ c["total_reports"] > 0
    BY <1>5 DEF SaysBad, CountsAny, c, D
  <2>4. SaysNotBad(o) <=> ~SaysBad(o) /\ "total_reports" \in D
    BY <1>5 DEF SaysNotBad, c, D
  <2>5. ~HasNoRecord(o)
    BY <1>5 DEF HasNoRecord
  <2> QED BY <1>1, <2>1, <2>2, <2>3, <2>4, <2>5
<1>6. CASE o.data = "provider reputation"
  <2>1. Stance(o) = ProviderReputation(o)
    BY <1>6 DEF Stance
  <2>2. ProviderReputation(o) = IF bad THEN "flags"
                                ELSE IF Engines \subseteq D /\ any THEN "does_not_flag"
                                ELSE "unclear"
    BY <1>3, <1>4 DEF ProviderReputation, c, D
  <2>3. SaysBad(o) <=> bad
    BY <1>6 DEF SaysBad, CountsAny, c, D
  <2>4. SaysNotBad(o) <=> ~SaysBad(o) /\ Engines \subseteq D /\ any
    BY <1>6 DEF SaysNotBad, CountsAny, c, D
  <2>5. ~HasNoRecord(o)
    BY <1>6 DEF HasNoRecord
  <2> HIDE DEF bad, any
  <2> QED BY <2>1, <2>2, <2>3, <2>4, <2>5
<1>7. CASE o.data \in {"listing", "no record"}
  BY <1>7 DEF Stance, SaysBad, SaysNotBad, HasNoRecord
<1> QED BY <1>5, <1>6, <1>7 DEF IsClaim

LEMMA OthersSayNothing ==
  ASSUME NEW o, ~IsClaim(o)
  PROVE  ~SaysBad(o) /\ ~SaysNotBad(o) /\ ~HasNoRecord(o)
BY DEF IsClaim, SaysBad, SaysNotBad, HasNoRecord

(* Two claims that are on different sides.                                 *)
Opposed(one, other) ==
  /\ one.stance # "unclear" /\ other.stance # "unclear"
  /\ one.stance # other.stance
  /\ one.provider # other.provider => one.stance = "flags" \/ other.stance = "flags"

LEMMA OpposedAre ==
  ASSUME NEW o, NEW p, IsClaim(o), IsClaim(p),
         o.counts \in [DOMAIN o.counts -> Nat], p.counts \in [DOMAIN p.counts -> Nat]
  PROVE  Opposed(Claim(o), Claim(p)) <=> Contradict(o, p) \/ Contradict(p, o)
<1>1. /\ Claim(o).stance = Stance(o) /\ Claim(o).provider = o.source
      /\ Claim(p).stance = Stance(p) /\ Claim(p).provider = p.source
  BY DEF Claim
<1>2. Stance(o) \in Stances /\ Stance(p) \in Stances
  BY DEF Stance, IPReputation, ProviderReputation, Stances
<1> DEFINE a == Stance(o)
           b == Stance(p)
<1>3. /\ a = "flags" <=> SaysBad(o)
      /\ a = "does_not_flag" <=> SaysNotBad(o)
      /\ a = "no_record" <=> HasNoRecord(o)
      /\ b = "flags" <=> SaysBad(p)
      /\ b = "does_not_flag" <=> SaysNotBad(p)
      /\ b = "no_record" <=> HasNoRecord(p)
  BY StanceIs
<1> HIDE DEF a, b
<1>4. Opposed(Claim(o), Claim(p)) <=>
        /\ a # "unclear" /\ b # "unclear" /\ a # b
        /\ o.source # p.source => a = "flags" \/ b = "flags"
  BY <1>1 DEF Opposed, a, b
<1>5. (Contradict(o, p) \/ Contradict(p, o)) <=>
        \/ a = "flags" /\ b \in {"does_not_flag", "no_record"}
        \/ b = "flags" /\ a \in {"does_not_flag", "no_record"}
        \/ o.source = p.source /\ {a, b} = {"does_not_flag", "no_record"}
  BY <1>3 DEF Contradict
<1>6. {a, b} = {"does_not_flag", "no_record"} <=>
        \/ a = "does_not_flag" /\ b = "no_record"
        \/ b = "does_not_flag" /\ a = "no_record"
  OBVIOUS
<1> QED BY <1>2, <1>4, <1>5, <1>6 DEF a, b, Stances

(* A finite set of more than one item has two.                             *)
LEMMA Several ==
  ASSUME NEW S, IsFiniteSet(S)
  PROVE  Cardinality(S) > 1 <=> \E x, y \in S : x # y
<1>1. Cardinality(S) \in Nat
  BY FS_CardinalityType
<1>2. Cardinality(S) = 0 <=> S = {}
  BY FS_EmptySet
<1>3. Cardinality(S) = 1 <=> \E x : S = {x}
  BY FS_Singleton
<1>4. ASSUME Cardinality(S) > 1 PROVE \E x, y \in S : x # y
  <2>0. Cardinality(S) # 0 /\ Cardinality(S) # 1
    BY <1>1, <1>4
  <2>1. S # {} /\ ~ \E x : S = {x}
    BY ONLY <1>2, <1>3, <2>0, Zenon
  <2>2. PICK x : x \in S
    BY <2>1
  <2>3. S # {x}
    BY <2>1
  <2> QED BY <2>2, <2>3
<1>5. ASSUME NEW x \in S, NEW y \in S, x # y PROVE Cardinality(S) > 1
  <2>1. S # {}
    BY <1>5
  <2>2. ASSUME NEW z, S = {z} PROVE FALSE
    <3>1. x = z /\ y = z
      BY <2>2
    <3> QED BY <1>5, <3>1
  <2> QED BY <1>1, <1>2, <1>3, <2>1, <2>2
<1> QED BY <1>4, <1>5

StancesOf(claims, p) ==
  {claim.stance : claim \in {c \in claims : c.provider = p}} \ {"unclear"}

IsAcross(claims, conflict) ==
  /\ \E f \in Flagging(claims), u \in Unflagged(claims) :
       u.provider \notin Providers(Flagging(claims))
  /\ conflict = Conflict(<<"across", {}>>,
       {claim.observation : claim \in Flagging(claims) \cup
          {c \in Unflagged(claims) : c.provider \notin Providers(Flagging(claims))}})

IsWithin(claims, conflict) ==
  \E p \in Providers(claims) :
    /\ \E s, t \in StancesOf(claims, p) : s # t
    /\ conflict = Conflict(<<"within", {p}>>,
         {claim.observation : claim \in {c \in claims : c.provider = p}})

LEMMA ConflictsAre ==
  ASSUME NEW claims, \A claim \in claims : claim.stance \in Stances
  PROVE  \A conflict : conflict \in ProviderConflicts(claims) <=>
                         IsAcross(claims, conflict) \/ IsWithin(claims, conflict)
<1> DEFINE flags == Flagging(claims)
           across == {c \in Unflagged(claims) : c.provider \notin Providers(flags)}
           of(p) == {c \in claims : c.provider = p}
           stances(p) == {claim.stance : claim \in of(p)} \ {"unclear"}
           cited(some) == {claim.observation : claim \in some}
           first == When(flags # {} /\ across # {},
                         {Conflict(<<"across", {}>>, cited(flags \cup across))})
           second == {Conflict(<<"within", {p}>>, cited(of(p))) :
                        p \in {q \in Providers(claims) : Cardinality(stances(q)) > 1}}
<1>1. ProviderConflicts(claims) = first \cup second
  BY DEF ProviderConflicts
<1>2. \A conflict : conflict \in first <=>
        /\ \E f \in flags, u \in Unflagged(claims) : u.provider \notin Providers(flags)
        /\ conflict = Conflict(<<"across", {}>>, cited(flags \cup across))
  BY DEF When
<1>3. ASSUME NEW p PROVE Cardinality(stances(p)) > 1 <=> \E s, t \in stances(p) : s # t
  <2>1. stances(p) \subseteq Stances
    OBVIOUS
  <2>2. IsFiniteSet(Stances)
    <3>1. IsFiniteSet({}) /\ \A S, x : IsFiniteSet(S) => IsFiniteSet(S \cup {x})
      BY FS_EmptySet, FS_AddElement
    <3>2. Stances = ((({} \cup {"flags"}) \cup {"does_not_flag"}) \cup {"no_record"})
                      \cup {"unclear"}
      BY DEF Stances
    <3> QED BY <3>1, <3>2
  <2>3. IsFiniteSet(stances(p))
    BY <2>1, <2>2, FS_Subset
  <2> HIDE DEF stances
  <2> QED BY <2>3, Several
<1>4. \A conflict : conflict \in second <=>
        \E p \in Providers(claims) : /\ \E s, t \in stances(p) : s # t
                                     /\ conflict = Conflict(<<"within", {p}>>, cited(of(p)))
  <2> HIDE DEF stances, of, cited
  <2> QED BY <1>3
<1> HIDE DEF first, second
<1> QED BY <1>1, <1>2, <1>4 DEF StancesOf, IsAcross, IsWithin

LEMMA ConflictsAreContradictions ==
  ASSUME NEW claims, \A claim \in claims : claim.stance \in Stances,
         NEW conflict \in ProviderConflicts(claims)
  PROVE  /\ conflict.evidence \subseteq {claim.observation : claim \in claims}
         /\ \E one, other \in claims :
              /\ {one.observation, other.observation} \subseteq conflict.evidence
              /\ Opposed(one, other)
<1> DEFINE flags == Flagging(claims)
           across == {c \in Unflagged(claims) : c.provider \notin Providers(flags)}
<1>0. /\ flags \subseteq claims /\ across \subseteq claims
      /\ \A c \in flags : c.stance = "flags"
      /\ \A c \in Unflagged(claims) : c.stance \in {"does_not_flag", "no_record"}
  BY DEF Flagging, Unflagged
<1>1. ASSUME NEW one \in flags, NEW other \in across,
             conflict = Conflict(<<"across", {}>>,
                          {claim.observation : claim \in flags \cup across})
      PROVE  /\ conflict.evidence \subseteq {claim.observation : claim \in claims}
             /\ {one.observation, other.observation} \subseteq conflict.evidence
             /\ Opposed(one, other)
  <2>1. one.provider # other.provider
    BY DEF Providers
  <2>2. Opposed(one, other)
    BY <1>0, <2>1 DEF Opposed
  <2>3. conflict.evidence = {claim.observation : claim \in flags \cup across}
    BY <1>1 DEF Conflict
  <2> HIDE DEF flags
  <2> QED BY <1>0, <2>2, <2>3
<1>2. ASSUME NEW p, NEW s \in StancesOf(claims, p), NEW t \in StancesOf(claims, p), s # t,
             conflict = Conflict(<<"within", {p}>>,
                          {claim.observation : claim \in {c \in claims : c.provider = p}})
      PROVE  /\ conflict.evidence \subseteq {claim.observation : claim \in claims}
             /\ \E one, other \in claims :
                  /\ {one.observation, other.observation} \subseteq conflict.evidence
                  /\ Opposed(one, other)
  <2>1. PICK one \in claims, other \in claims :
          /\ one.provider = p /\ other.provider = p
          /\ one.stance = s /\ other.stance = t /\ s # "unclear" /\ t # "unclear"
    BY DEF StancesOf
  <2>2. Opposed(one, other)
    BY <1>2, <2>1 DEF Opposed
  <2>3. conflict.evidence = {claim.observation : claim \in {c \in claims : c.provider = p}}
    BY <1>2 DEF Conflict
  <2> QED BY <2>1, <2>2, <2>3
<1> HIDE DEF flags, across
<1>3. CASE /\ \E f \in flags, u \in Unflagged(claims) : u.provider \notin Providers(flags)
           /\ conflict = Conflict(<<"across", {}>>,
                           {claim.observation : claim \in flags \cup across})
  <2>1. PICK f \in flags, u \in across : TRUE
    BY <1>3 DEF across
  <2>2. f \in claims /\ u \in claims
    BY <1>0, <2>1
  <2>3. /\ conflict.evidence \subseteq {claim.observation : claim \in claims}
        /\ {f.observation, u.observation} \subseteq conflict.evidence
        /\ Opposed(f, u)
    <3>1. conflict = Conflict(<<"across", {}>>,
                       {claim.observation : claim \in flags \cup across})
      BY <1>3
    <3> QED BY ONLY <1>1, <2>1, <3>1
  <2> QED BY <2>2, <2>3
<1>4. CASE \E p \in Providers(claims) :
             /\ \E s, t \in StancesOf(claims, p) : s # t
             /\ conflict = Conflict(<<"within", {p}>>,
                  {claim.observation : claim \in {c \in claims : c.provider = p}})
  BY <1>2, <1>4
<1>5. IsAcross(claims, conflict) => 
           /\ \E f \in flags, u \in Unflagged(claims) : u.provider \notin Providers(flags)
           /\ conflict = Conflict(<<"across", {}>>,
                           {claim.observation : claim \in flags \cup across})
  BY DEF IsAcross, flags, across
<1>6. IsAcross(claims, conflict) \/ IsWithin(claims, conflict)
  BY ConflictsAre
<1>7. CASE IsWithin(claims, conflict)
  BY <1>4, <1>7 DEF IsWithin
<1> QED BY ONLY <1>3, <1>5, <1>6, <1>7

LEMMA ContradictionsAreConflicts ==
  ASSUME NEW claims, \A claim \in claims : claim.stance \in Stances,
         NEW one \in claims, NEW other \in claims, Opposed(one, other)
  PROVE  ProviderConflicts(claims) # {}
<1>1. ASSUME NEW b \in claims, NEW c \in claims, b.provider = c.provider,
             b.stance # c.stance, b.stance # "unclear", c.stance # "unclear"
      PROVE  ProviderConflicts(claims) # {}
  <2>1. b.provider \in Providers(claims)
        /\ b.stance \in StancesOf(claims, b.provider)
        /\ c.stance \in StancesOf(claims, b.provider)
    BY <1>1 DEF Providers, StancesOf
  <2> DEFINE w == Conflict(<<"within", {b.provider}>>,
                    {claim.observation : claim \in {d \in claims : d.provider = b.provider}})
  <2>2. \E p \in Providers(claims) :
          /\ \E s, t \in StancesOf(claims, p) : s # t
          /\ w = Conflict(<<"within", {p}>>,
                 {claim.observation : claim \in {d \in claims : d.provider = p}})
    BY <1>1, <2>1
  <2> HIDE DEF w
  <2>3. w \in ProviderConflicts(claims)
    BY <2>2, ConflictsAre DEF IsWithin
  <2> QED BY <2>3
<1>2. ASSUME NEW f \in claims, NEW u \in claims, f.provider # u.provider,
             f.stance = "flags", u.stance # "flags", u.stance # "unclear"
      PROVE  ProviderConflicts(claims) # {}
  <2>1. f \in Flagging(claims) /\ u \in Unflagged(claims)
    BY <1>2 DEF Flagging, Unflagged, Stances
  <2>2. CASE u.provider \notin Providers(Flagging(claims))
    <3> DEFINE w == Conflict(<<"across", {}>>,
            {claim.observation : claim \in Flagging(claims) \cup
               {c \in Unflagged(claims) : c.provider \notin Providers(Flagging(claims))}})
    <3>1. IsAcross(claims, w)
      BY <2>1, <2>2 DEF IsAcross
    <3> HIDE DEF w
    <3> QED BY <3>1, ConflictsAre
  <2>3. CASE u.provider \in Providers(Flagging(claims))
    <3>1. PICK c \in claims : c.stance = "flags" /\ c.provider = u.provider
      BY <2>3 DEF Providers, Flagging
    <3> QED BY <1>1, <1>2, <3>1
  <2> QED BY <2>2, <2>3
<1>3. /\ one.stance # "unclear" /\ other.stance # "unclear"
      /\ one.stance # other.stance
      /\ one.provider # other.provider => one.stance = "flags" \/ other.stance = "flags"
  BY DEF Opposed
<1> QED BY <1>1, <1>2, <1>3

LEMMA SourceDisagreementIs ==
  ASSUME NEW index, NEW entity
  PROVE  LET draft == SourceDisagreement(index, entity)
             claims == ClaimsAbout(index, entity)
         IN /\ draft.subjects = {entity} /\ draft.links = {} /\ draft.supporting = {}
            /\ draft.conflicts = ProviderConflicts(claims)
            /\ draft.claims = {claim \in claims : claim.observation \in
                                 UNION {c.evidence : c \in ProviderConflicts(claims)}}
<1>1. DOMAIN Draft = Fields /\ Draft.links = {} /\ Draft.supporting = {}
  BY DEF Draft, Fields
<1>2. {"subjects", "claims", "conflicts", "limitations"} \subseteq Fields
  BY DEF Fields
<1> QED BY <1>1, <1>2 DEF SourceDisagreement

LEMMA DisagreementIsBacked ==
  ASSUME NEW index, NEW entity \in Subjects(index),
         ProviderConflicts(ClaimsAbout(index, entity)) # {}
  PROVE  <<"source_disagreement", SourceDisagreement(index, entity)>> \in Backed(index)
<1> DEFINE draft == SourceDisagreement(index, entity)
           claims == ClaimsAbout(index, entity)
           d == <<"source_disagreement", draft>>
<1>1. \A claim \in claims : claim.stance \in Stances /\ claim.observation \in IDs(index)
  BY ClaimsAre
<1>2. draft.subjects = {entity} /\ draft.links = {} /\ draft.supporting = {}
      /\ draft.conflicts = ProviderConflicts(claims) /\ draft.claims \subseteq claims
  BY SourceDisagreementIs
<1>3. d \in Drafts(index)
  BY DEF Drafts, ProviderDrafts
<1> HIDE DEF draft, claims
<1>4. \A c \in draft.conflicts : c.evidence # {} /\ c.evidence \subseteq IDs(index)
  <2> SUFFICES ASSUME NEW c \in draft.conflicts
               PROVE  c.evidence # {} /\ c.evidence \subseteq IDs(index)
    OBVIOUS
  <2>1. /\ c.evidence \subseteq {claim.observation : claim \in claims}
        /\ \E one, other \in claims : {one.observation, other.observation} \subseteq c.evidence
    BY <1>1, <1>2, ConflictsAreContradictions
  <2> QED BY <1>1, <2>1
<1>5. EvidenceOf(draft) = {claim.observation : claim \in draft.claims}
                            \cup (UNION {c.evidence : c \in draft.conflicts})
  <2>1. CitedBy(draft.links) = {}
    BY <1>2 DEF CitedBy
  <2>2. draft.supporting = {}
    BY <1>2
  <2> QED BY ONLY <2>1, <2>2 DEF EvidenceOf
<1>6. EvidenceOf(draft) # {} /\ EvidenceOf(draft) \subseteq IDs(index)
  <2>1. draft.conflicts # {}
    BY <1>2 DEF claims
  <2>2. EvidenceOf(draft) # {}
    BY <1>4, <1>5, <2>1
  <2>3. \A claim \in draft.claims : claim.observation \in IDs(index)
    BY <1>1, <1>2
  <2>4. EvidenceOf(draft) \subseteq IDs(index)
    BY <1>4, <1>5, <2>3
  <2> QED BY <2>2, <2>4
<1>7. draft.subjects \subseteq KnownEntities(index)
  BY <1>2 DEF KnownEntities, Subjects
<1>8. IsBacked(index, draft)
  BY <1>4, <1>6, <1>7 DEF IsBacked
<1>9. d \in Backed(index)
  BY <1>3, <1>8 DEF Backed
<1> QED BY <1>9 DEF draft

LEMMA DisagreementsAre ==
  ASSUME NEW index, NEW d \in Drafts(index), d[1] = "source_disagreement"
  PROVE  \E e \in Subjects(index) : /\ ProviderConflicts(ClaimsAbout(index, e)) # {}
                                  /\ d[2] = SourceDisagreement(index, e)
BY KindsAre

LEMMA ProvidersDisagreeHolds ==
  ASSUME CorrelationInvariant, Done
  PROVE  ProvidersDisagree
<1> DEFINE index == Index
<1>1. report = Correlate(index)
  BY DEF CorrelationInvariant
<1>0. /\ Observed(index) = Observations
      /\ \A o \in Observations : o.counts \in [DOMAIN o.counts -> Nat]
  BY EverythingIsIndexed
<1> HIDE DEF index
<1>2. /\ \A c \in report.correlations : \E d \in Backed(index) : IsBuiltFrom(c, d)
      /\ \A d \in Backed(index) : \E c \in report.correlations : c.id = IdentifierOf(d)
  BY <1>1, CorrelationsAre
<1> DEFINE Listed(o, some) ==
             \E claim \in some : /\ claim.observation = o.id
                                 /\ claim.stance = "flags" <=> SaysBad(o)
                                 /\ claim.stance = "does_not_flag" <=> SaysNotBad(o)
                                 /\ claim.stance = "no_record" <=> HasNoRecord(o)
<1> SUFFICES ASSUME NEW entity \in Subjects(index)
             PROVE  LET answers == {o \in Observations : o.about = entity}
                        reported == {c \in OfType("source_disagreement") :
                                       entity \in c.content.subjects}
                    IN /\ reported # {} <=> \E one, other \in answers : Contradict(one, other)
                       /\ \A c \in reported : \A conflict \in c.content.conflicts :
                            /\ \E one, other \in answers :
                                 /\ Contradict(one, other)
                                 /\ {one.id, other.id} \subseteq conflict.evidence
                            /\ \A id \in conflict.evidence :
                                 \E o \in answers : o.id = id /\ Listed(o, c.content.claims)
  BY <1>0 DEF ProvidersDisagree, Subjects
<1> DEFINE claims == ClaimsAbout(index, entity)
           reported == {c \in OfType("source_disagreement") : entity \in c.content.subjects}
           answers == {o \in Observations : o.about = entity}
<1>10. /\ \A o \in answers : IsClaim(o) => Claim(o) \in claims /\ Claim(o).observation = o.id
       /\ \A claim \in claims : \E o \in answers : IsClaim(o) /\ claim = Claim(o)
  BY <1>0 DEF ClaimsAbout, About, Claim
<1>11. \A one, other \in answers :
         Contradict(one, other) => /\ IsClaim(one) /\ IsClaim(other)
                                   /\ Opposed(Claim(one), Claim(other))
  <2> SUFFICES ASSUME NEW one \in answers, NEW other \in answers, Contradict(one, other)
               PROVE  /\ IsClaim(one) /\ IsClaim(other)
                      /\ Opposed(Claim(one), Claim(other))
    OBVIOUS
  <2>1. IsClaim(one) /\ IsClaim(other)
    BY OthersSayNothing DEF Contradict
  <2> QED BY <1>0, <2>1, OpposedAre
<1>12. \A b, c \in claims : Opposed(b, c) =>
         \E one, other \in answers : /\ Contradict(one, other)
                                     /\ {one.id, other.id} = {b.observation, c.observation}
  <2> SUFFICES ASSUME NEW b \in claims, NEW c \in claims, Opposed(b, c)
               PROVE  \E one, other \in answers :
                        /\ Contradict(one, other)
                        /\ {one.id, other.id} = {b.observation, c.observation}
    OBVIOUS
  <2>1. PICK o \in answers, p \in answers :
          IsClaim(o) /\ b = Claim(o) /\ IsClaim(p) /\ c = Claim(p)
    BY <1>10
  <2>2. Contradict(o, p) \/ Contradict(p, o)
    BY <1>0, <2>1, OpposedAre
  <2>3. b.observation = o.id /\ c.observation = p.id
    BY <1>10, <2>1
  <2>4. {o.id, p.id} = {p.id, o.id}
    OBVIOUS
  <2> QED BY <2>2, <2>3, <2>4
<1>13. \A claim \in claims : \A some : claim \in some =>
         \E o \in answers : o.id = claim.observation /\ Listed(o, some)
  <2> SUFFICES ASSUME NEW claim \in claims, NEW some, claim \in some
               PROVE  \E o \in answers : o.id = claim.observation /\ Listed(o, some)
    OBVIOUS
  <2>1. PICK o \in answers : IsClaim(o) /\ claim = Claim(o)
    BY <1>10
  <2>2. claim.observation = o.id /\ claim.stance = Stance(o)
    BY <2>1 DEF Claim
  <2>3. /\ Stance(o) = "flags" <=> SaysBad(o)
        /\ Stance(o) = "does_not_flag" <=> SaysNotBad(o)
        /\ Stance(o) = "no_record" <=> HasNoRecord(o)
    BY <1>0, <2>1, StanceIs
  <2> QED BY <2>2, <2>3
<1>3. \A claim \in claims : claim.stance \in Stances /\ claim.observation \in IDs(index)
  BY ClaimsAre
<1>4. \A field \in {"subjects", "claims", "conflicts"} : field \in Fields \ {"limitations"}
  BY DEF Fields
<1>5. ASSUME NEW c \in report.correlations, NEW d \in Backed(index), IsBuiltFrom(c, d),
             c.id[1] = "source_disagreement"
      PROVE  \E e \in Subjects(index) :
               /\ ProviderConflicts(ClaimsAbout(index, e)) # {}
               /\ c.content.subjects = {e}
               /\ c.content.conflicts = ProviderConflicts(ClaimsAbout(index, e))
               /\ c.content.claims =
                    {claim \in ClaimsAbout(index, e) : claim.observation \in
                       UNION {x.evidence : x \in ProviderConflicts(ClaimsAbout(index, e))}}
  <2>1. d \in Drafts(index) /\ d[1] = "source_disagreement"
    BY <1>5 DEF IsBuiltFrom, IdentifierOf, Backed
  <2>2. PICK e \in Subjects(index) : /\ ProviderConflicts(ClaimsAbout(index, e)) # {}
                                   /\ d[2] = SourceDisagreement(index, e)
    BY <2>1, DisagreementsAre
  <2>3. c.content.subjects = d[2].subjects /\ c.content.conflicts = d[2].conflicts
        /\ c.content.claims = d[2].claims
    BY <1>4, <1>5 DEF IsBuiltFrom
  <2>4. /\ d[2].subjects = {e} /\ d[2].conflicts = ProviderConflicts(ClaimsAbout(index, e))
        /\ d[2].claims =
             {claim \in ClaimsAbout(index, e) : claim.observation \in
                UNION {x.evidence : x \in ProviderConflicts(ClaimsAbout(index, e))}}
    BY <2>2, SourceDisagreementIs
  <2> QED BY <2>2, <2>3, <2>4
<1>6. ASSUME NEW c \in reported
      PROVE  /\ ProviderConflicts(claims) # {}
             /\ c.content.conflicts = ProviderConflicts(claims)
             /\ c.content.claims =
                  {claim \in claims : claim.observation \in
                     UNION {x.evidence : x \in ProviderConflicts(claims)}}
  <2>1. c \in report.correlations /\ c.id[1] = "source_disagreement"
        /\ entity \in c.content.subjects
    BY DEF OfType
  <2>2. PICK d \in Backed(index) : IsBuiltFrom(c, d)
    BY <1>2, <2>1
  <2>3. PICK e \in Subjects(index) :
          /\ ProviderConflicts(ClaimsAbout(index, e)) # {}
          /\ c.content.subjects = {e}
          /\ c.content.conflicts = ProviderConflicts(ClaimsAbout(index, e))
          /\ c.content.claims =
               {claim \in ClaimsAbout(index, e) : claim.observation \in
                  UNION {x.evidence : x \in ProviderConflicts(ClaimsAbout(index, e))}}
    BY <1>5, <2>1, <2>2
  <2>4. e = entity
    BY <2>1, <2>3
  <2> QED BY <2>3, <2>4
<1>7. ASSUME ProviderConflicts(claims) # {} PROVE reported # {}
  <2> DEFINE d == <<"source_disagreement", SourceDisagreement(index, entity)>>
  <2>1. d \in Backed(index)
    BY <1>7, DisagreementIsBacked
  <2>2. d[1] = "source_disagreement" /\ d[2].subjects = {entity}
    BY SourceDisagreementIs
  <2> HIDE DEF d
  <2>3. PICK c \in report.correlations : c.id = IdentifierOf(d)
    BY <1>2, <2>1
  <2>4. c.id[1] = "source_disagreement" /\ c.id[2] = {entity}
    BY <2>2, <2>3 DEF IdentifierOf
  <2>5. PICK b \in Backed(index) : IsBuiltFrom(c, b)
    BY <1>2
  <2>6. c.content.subjects = {entity}
    BY <1>4, <2>4, <2>5 DEF IsBuiltFrom, IdentifierOf
  <2>7. c \in reported
    BY <2>4, <2>6 DEF OfType
  <2> QED BY <2>7
<1> HIDE DEF claims, reported, answers, Listed
<1>8. reported # {} <=> \E one, other \in answers : Contradict(one, other)
  <2>1. ASSUME reported # {} PROVE \E one, other \in answers : Contradict(one, other)
    <3>1. PICK conflict : conflict \in ProviderConflicts(claims)
      BY <1>6, <2>1
    <3>2. \E b, c \in claims : Opposed(b, c)
      BY <1>3, <3>1, ConflictsAreContradictions
    <3> QED BY <1>12, <3>2
  <2>2. ASSUME NEW one \in answers, NEW other \in answers, Contradict(one, other)
        PROVE  reported # {}
    <3>1. Claim(one) \in claims /\ Claim(other) \in claims /\ Opposed(Claim(one), Claim(other))
      BY <1>10, <1>11, <2>2
    <3>2. ProviderConflicts(claims) # {}
      BY <1>3, <3>1, ContradictionsAreConflicts
    <3> QED BY <1>7, <3>2
  <2> QED BY <2>1, <2>2
<1>9. ASSUME NEW c \in reported, NEW conflict \in c.content.conflicts
      PROVE  /\ \E one, other \in answers : /\ Contradict(one, other)
                                            /\ {one.id, other.id} \subseteq conflict.evidence
             /\ \A id \in conflict.evidence :
                  \E o \in answers : o.id = id /\ Listed(o, c.content.claims)
  <2> DEFINE involved == UNION {x.evidence : x \in ProviderConflicts(claims)}
  <2>1. /\ conflict \in ProviderConflicts(claims)
        /\ c.content.claims = {claim \in claims : claim.observation \in involved}
    BY <1>6, <1>9
  <2>2. /\ conflict.evidence \subseteq {claim.observation : claim \in claims}
        /\ \E b, d \in claims : /\ {b.observation, d.observation} \subseteq conflict.evidence
                               /\ Opposed(b, d)
    BY <1>3, <2>1, ConflictsAreContradictions
  <2>3. conflict.evidence \subseteq involved
    BY <2>1
  <2> HIDE DEF involved
  <2>4. \E one, other \in answers : /\ Contradict(one, other)
                                    /\ {one.id, other.id} \subseteq conflict.evidence
    BY <1>12, <2>2
  <2>5. ASSUME NEW id \in conflict.evidence
        PROVE  \E o \in answers : o.id = id /\ Listed(o, c.content.claims)
    <3>1. PICK claim \in claims : claim.observation = id
      BY <2>2
    <3>2. claim \in c.content.claims
      BY <2>1, <2>3, <3>1
    <3> QED BY <1>13, <3>1, <3>2
  <2> QED BY <2>4, <2>5
<1> QED BY <1>8, <1>9 DEF claims, reported, answers

-----------------------------------------------------------------------------
(* The origins of an address *)

LEMMA RangeIsFinite ==
  ASSUME NEW S, IsFiniteSet(S), NEW f, f = [x \in S |-> f[x]]
  PROVE  IsFiniteSet({f[x] : x \in S})
<1> DEFINE R == {f[x] : x \in S}
<1>1. f \in [S -> R] /\ \A y \in R : \E x \in S : f[x] = y
  OBVIOUS
<1> HIDE DEF R
<1>2. f \in Surjection(S, R)
  BY <1>1 DEF Surjection
<1>3. IsFiniteSet(R)
  BY <1>2, FS_Surjection
<1> QED BY <1>3 DEF R

(* Links to different entities of one kind disagree when one observation   *)
(* has a link that another has not.                                        *)
LEMMA DisagreeingIs ==
  ASSUME NEW index, Sound(index), NEW kind, NEW ip
  PROVE  LET links == From(index, kind, ip) IN
         Disagreeing(links) # {} <=>
           \E link \in links : \E id \in CitedBy(links) : id \notin Items(link.evidence)
<1> DEFINE links == From(index, kind, ip)
           cited == CitedBy(links)
           named(id) == {link.target : link \in {l \in links : id \in Items(l.evidence)}}
           sides == {named(id) : id \in cited}
<1>1. /\ links \subseteq Edges(index)
      /\ \A l \in links : l.kind = kind /\ l.source = ip
  BY DEF From, OfKind
<1>2. /\ IsFiniteSet(links)
      /\ \A l \in links : IsFiniteSet(Items(l.evidence)) /\ l.evidence[1] \in Items(l.evidence)
  BY <1>1, FS_Subset DEF Sound, IsSound
<1>3. cited = UNION {Items(l.evidence) : l \in links}
  BY DEF CitedBy
<1>4. \A one, other \in links : one.target = other.target => one = other
  BY <1>1 DEF Sound, SameEdge
<1>5. PerObservation(links) = [id \in cited |-> named(id)]
  BY DEF PerObservation
<1>6. Disagreeing(links) = When(Cardinality(sides) > 1, {cited})
  <2> DEFINE f == PerObservation(links)
  <2>1. Disagreeing(links) = When(Cardinality({f[id] : id \in DOMAIN f}) > 1, {DOMAIN f})
    BY DEF Disagreeing
  <2>2. DOMAIN f = cited /\ \A id \in cited : f[id] = named(id)
    BY <1>5
  <2> HIDE DEF f, named, cited, links
  <2>3. {f[id] : id \in DOMAIN f} = sides
    BY <2>2
  <2> HIDE DEF sides
  <2> QED BY <2>1, <2>2, <2>3
<1>7. \A id, target : target \in named(id) <=>
        \E l \in links : id \in Items(l.evidence) /\ l.target = target
  OBVIOUS
<1> HIDE DEF links, cited, named
<1>8. Disagreeing(links) # {} <=> Cardinality(sides) > 1
  BY <1>6 DEF When
<1>9. IsFiniteSet(cited)
  <2>1. IsFiniteSet({Items(l.evidence) : l \in links})
    <3> DEFINE f == [l \in links |-> Items(l.evidence)]
    <3>1. f = [l \in links |-> f[l]] /\ \A l \in links : f[l] = Items(l.evidence)
      OBVIOUS
    <3> HIDE DEF f
    <3>2. IsFiniteSet({f[l] : l \in links})
      BY <1>2, <3>1, RangeIsFinite
    <3>3. {f[l] : l \in links} = {Items(l.evidence) : l \in links}
      BY <3>1
    <3> QED BY <3>2, <3>3
  <2>2. \A S \in {Items(l.evidence) : l \in links} : IsFiniteSet(S)
    BY <1>2
  <2> QED BY <1>3, <2>1, <2>2, FS_UNION
<1>10. IsFiniteSet(sides)
  <2> DEFINE f == [id \in cited |-> named(id)]
  <2>1. f = [id \in cited |-> f[id]] /\ \A id \in cited : f[id] = named(id)
    OBVIOUS
  <2> HIDE DEF f
  <2>2. IsFiniteSet({f[id] : id \in cited})
    BY <1>9, <2>1, RangeIsFinite
  <2>3. {f[id] : id \in cited} = sides
    BY <2>1
  <2> QED BY <2>2, <2>3
<1>11. (\E a, b \in sides : a # b) <=> \E one, other \in cited : named(one) # named(other)
  OBVIOUS
<1>12. ASSUME NEW one \in cited, NEW other \in cited, named(one) # named(other)
       PROVE  \E link \in links : \E id \in cited : id \notin Items(link.evidence)
  <2>1. PICK target : ~ (target \in named(one) <=> target \in named(other))
    BY <1>7, <1>12
  <2>2. CASE target \in named(one) /\ target \notin named(other)
    BY <1>7, <2>2
  <2>3. CASE target \in named(other) /\ target \notin named(one)
    BY <1>7, <2>3
  <2> QED BY <2>1, <2>2, <2>3
<1>13. ASSUME NEW link \in links, NEW id \in cited, id \notin Items(link.evidence)
       PROVE  \E one, other \in cited : named(one) # named(other)
  <2>1. link.evidence[1] \in cited /\ link.target \in named(link.evidence[1])
    BY <1>2, <1>3, <1>7
  <2>2. link.target \notin named(id)
    BY <1>4, <1>7, <1>13
  <2> QED BY <2>1, <2>2
<1>14. Cardinality(sides) > 1 <=> \E a, b \in sides : a # b
  BY ONLY <1>10, Several
<1> QED BY <1>8, <1>11, <1>12, <1>13, <1>14 DEF links, cited

LEMMA InfrastructureIs ==
  ASSUME NEW index, NEW r \in OfKind(index, "resolves_to")
  PROVE  LET ip == r.target
             draft == Infrastructure(index, r)
             announced == From(index, "announced_by", ip)
             registered == From(index, "registered_in", ip)
         IN /\ draft.links = {r} \cup announced \cup registered
            /\ draft.subjects = {r.source} \cup {link.target : link \in draft.links}
            /\ draft.conflicts =
                 ({Conflict(<<"origins", {ip[2]}>>, ids) : ids \in Disagreeing(announced)}
                    \cup {Conflict(<<"networks", {ip[2]}>>, ids) : ids \in Disagreeing(registered)})
                   \cup Contained(index, ip, announced, registered)
            /\ draft.gaps =
                 When(announced = {}, {<<"announced_by", ip, Unsuccessful(index, ip)>>})
                   \cup When(registered = {}, {<<"registered_in", ip, Unsuccessful(index, ip)>>})
            /\ draft.claims = {} /\ draft.supporting = {}
            /\ {link \in draft.links : link.kind = "announced_by"} = announced
<1> DEFINE ip == r.target
           draft == Infrastructure(index, r)
           announced == From(index, "announced_by", ip)
           registered == From(index, "registered_in", ip)
           links == {r} \cup announced \cup registered
           conflicts == ({Conflict(<<"origins", {ip[2]}>>, ids) : ids \in Disagreeing(announced)}
                    \cup {Conflict(<<"networks", {ip[2]}>>, ids) : ids \in Disagreeing(registered)})
                   \cup Contained(index, ip, announced, registered)
           gaps == When(announced = {}, {<<"announced_by", ip, Unsuccessful(index, ip)>>})
                   \cup When(registered = {}, {<<"registered_in", ip, Unsuccessful(index, ip)>>})
           subjects == {r.source} \cup {link.target : link \in links}
<1>1. \E more : draft = [Draft EXCEPT !.subjects = subjects, !.links = links,
                           !.conflicts = conflicts, !.gaps = gaps, !.limitations = more]
  BY Zenon DEF Infrastructure
<1>2. /\ r.kind = "resolves_to"
      /\ \A link \in announced : link.kind = "announced_by"
      /\ \A link \in registered : link.kind = "registered_in"
  BY DEF From, OfKind
<1> HIDE DEF draft, subjects, links, conflicts, gaps
<1>3. /\ draft.links = links /\ draft.subjects = subjects /\ draft.conflicts = conflicts
      /\ draft.gaps = gaps /\ draft.claims = {} /\ draft.supporting = {}
  <2>1. PICK more : draft = [Draft EXCEPT !.subjects = subjects, !.links = links,
                               !.conflicts = conflicts, !.gaps = gaps, !.limitations = more]
    BY <1>1
  <2> QED BY ONLY <2>1, SMTT(30) DEF Draft
<1> HIDE DEF announced, registered
<1>4. {link \in links : link.kind = "announced_by"} = announced
  BY <1>2 DEF links
<1>5. draft.subjects = {r.source} \cup {link.target : link \in draft.links}
  BY <1>3 DEF subjects
<1>6. draft.conflicts = conflicts /\ draft.gaps = gaps /\ draft.links = {r} \cup announced \cup registered
  BY <1>3 DEF links
<1> QED BY <1>3, <1>4, <1>5, <1>6 DEF draft, conflicts, gaps, announced, registered

LEMMA OriginConflicts ==
  ASSUME NEW index, NEW r \in OfKind(index, "resolves_to")
  PROVE  (\E conflict \in Infrastructure(index, r).conflicts : conflict.about[1] = "origins")
           <=> Disagreeing(From(index, "announced_by", r.target)) # {}
<1> DEFINE ip == r.target
           announced == From(index, "announced_by", ip)
           registered == From(index, "registered_in", ip)
           origins == {Conflict(<<"origins", {ip[2]}>>, ids) : ids \in Disagreeing(announced)}
           networks == {Conflict(<<"networks", {ip[2]}>>, ids) : ids \in Disagreeing(registered)}
           rest == Contained(index, ip, announced, registered)
           all == (origins \cup networks) \cup rest
<1>1. Infrastructure(index, r).conflicts = all
  BY InfrastructureIs
<1>2. \A about, ids : Conflict(about, ids).about = about
  BY DEF Conflict
<1>3. \A conflict \in networks : conflict.about[1] = "networks"
  BY <1>2
<1>4. \A conflict \in rest : conflict.about[1] \in {"prefix", "range", "overlap"}
  <2> DEFINE Told == {"prefix", "range", "overlap"}
  <2> SUFFICES ASSUME NEW conflict \in rest PROVE conflict.about[1] \in Told
    OBVIOUS
  <2>1. \E what \in Told : \E value, ids : conflict = Conflict(<<what, value>>, ids)
    BY DEF Contained
  <2> HIDE DEF rest
  <2>2. PICK what \in Told : \E value, ids : conflict = Conflict(<<what, value>>, ids)
    BY <2>1
  <2>3. PICK value, ids : conflict = Conflict(<<what, value>>, ids)
    BY <2>2
  <2>4. conflict.about = <<what, value>>
    BY ONLY <2>3, <1>2
  <2> HIDE DEF Told
  <2>5. <<what, value>>[1] = what
    OBVIOUS
  <2>6. conflict.about[1] = what
    BY ONLY <2>4, <2>5
  <2> QED BY <2>2, <2>6
<1>5. /\ \A conflict \in origins : conflict.about[1] = "origins"
      /\ origins # {} <=> Disagreeing(announced) # {}
  BY <1>2
<1> HIDE DEF origins, networks, rest
<1>6. (\E conflict \in all : conflict.about[1] = "origins") <=> origins # {}
  BY <1>3, <1>4, <1>5
<1> HIDE DEF all
<1> QED BY <1>1, <1>5, <1>6

LEMMA OriginsDisagreeHolds ==
  ASSUME CorrelationInvariant, Done
  PROVE  OriginsDisagree
<1> DEFINE index == Index
<1>1. report = Correlate(index) /\ Sound(index)
  BY InvestigationIsSound DEF CorrelationInvariant, Index
<1> HIDE DEF index
<1>2. \A c \in report.correlations : \E d \in Backed(index) : IsBuiltFrom(c, d)
  BY <1>1, CorrelationsAre
<1> SUFFICES ASSUME NEW c \in OfType("domain_ip_infrastructure")
             PROVE  LET announced == {link \in c.content.links : link.kind = "announced_by"}
                        ids == CitedBy(announced)
                    IN (\E conflict \in c.content.conflicts : conflict.about[1] = "origins")
                       <=> \E link \in announced : \E id \in ids : id \notin Items(link.evidence)
  BY DEF OriginsDisagree
<1>3. c \in report.correlations /\ c.id[1] = "domain_ip_infrastructure"
  BY DEF OfType
<1>4. PICK d \in Backed(index) : IsBuiltFrom(c, d)
  BY <1>2, <1>3
<1>5. d \in Drafts(index) /\ d[1] = "domain_ip_infrastructure"
  BY <1>3, <1>4 DEF IsBuiltFrom, IdentifierOf, Backed
<1>6. PICK r \in OfKind(index, "resolves_to") : d[2] = Infrastructure(index, r)
  BY <1>5, KindsAre
<1>7. c.content.links = d[2].links /\ c.content.conflicts = d[2].conflicts
  BY <1>4 DEF IsBuiltFrom, Fields
<1> DEFINE announced == From(index, "announced_by", r.target)
<1>8. {link \in c.content.links : link.kind = "announced_by"} = announced
  <2>1. {link \in Infrastructure(index, r).links : link.kind = "announced_by"} = announced
    BY InfrastructureIs
  <2> QED BY <1>6, <1>7, <2>1
<1>9. (\E conflict \in c.content.conflicts : conflict.about[1] = "origins")
        <=> Disagreeing(announced) # {}
  BY <1>6, <1>7, OriginConflicts
<1>10. Disagreeing(announced) # {} <=>
         \E link \in announced : \E id \in CitedBy(announced) : id \notin Items(link.evidence)
  BY <1>1, DisagreeingIs
<1> HIDE DEF announced
<1> QED BY <1>8, <1>9, <1>10

(* A finished report tells of a disagreement exactly when there is one:    *)
(* between providers, between two answers of one provider, and between the *)
(* observations that name the origin of an address, whatever the sources   *)
(* found and in whatever order they completed or were cut off.             *)
THEOREM DisagreementsHold == Spec => []DisagreementsAreReal
<1>1. CorrelationInvariant => DisagreementsAreReal
  BY ProvidersDisagreeHolds, OriginsDisagreeHolds DEF DisagreementsAreReal
<1> QED BY <1>1, CorrelationInit, CorrelationStep, PTL DEF Spec

-----------------------------------------------------------------------------
(* The orders in which edges and groups are taken *)

(* Distinct triples of numbers are in a strict order. *)
LEMMA Lexicographic ==
  ASSUME NEW S, IsFiniteSet(S), NEW below \in [S -> SUBSET S],
         NEW one \in [S -> Int], NEW two \in [S -> Int], NEW three \in [S -> Int],
         \A x, y \in S : y \in below[x] <=>
           \/ one[y] < one[x]
           \/ one[y] = one[x] /\ two[y] < two[x]
           \/ one[y] = one[x] /\ two[y] = two[x] /\ three[y] < three[x],
         \A x, y \in S : one[x] = one[y] /\ two[x] = two[y] /\ three[x] = three[y] => x = y
  PROVE  StrictOrder(S, below)
<1>1. ASSUME NEW x \in S PROVE x \notin below[x]
  BY one[x] \in Int, two[x] \in Int, three[x] \in Int
<1>2. ASSUME NEW x \in S, NEW y \in below[x], NEW z \in below[y] PROVE z \in below[x]
  <2>1. y \in S /\ z \in S
    OBVIOUS
  <2>2. /\ {one[x], two[x], three[x]} \subseteq Int
        /\ {one[y], two[y], three[y]} \subseteq Int
        /\ {one[z], two[z], three[z]} \subseteq Int
    BY <2>1
  <2> QED BY <2>1, <2>2
<1>3. ASSUME NEW x \in S, NEW y \in S, x # y PROVE x \in below[y] \/ y \in below[x]
  <2>1. /\ {one[x], two[x], three[x]} \subseteq Int
        /\ {one[y], two[y], three[y]} \subseteq Int
    OBVIOUS
  <2> QED BY <1>3, <2>1
<1> QED BY <1>1, <1>2, <1>3 DEF StrictOrder

LEMMA EdgesAre ==
  ASSUME NEW index, Sound(index), NEW kind, NEW r \in OfKind(index, kind)
  PROVE  /\ r \in Edges(index) /\ r.kind = kind /\ kind \in DOMAIN Allows
         /\ r.source[1] = Allows[kind][1] /\ r.target[1] = Allows[kind][2]
         /\ IsEntity(r.source) /\ IsEntity(r.target)
<1>1. r \in Edges(index) /\ r.kind = kind
  BY DEF OfKind
<1> QED BY <1>1 DEF Sound, IsSound

(* Certificates are ordered by number and names by rank. *)
LEMMA CoversAre ==
  ASSUME NEW index, Sound(index), NEW kind \in Covering, NEW r \in OfKind(index, kind)
  PROVE  /\ r \in Edges(index) /\ r.kind = kind
         /\ r.source = <<"cert", r.source[2]>> /\ r.source[2] \in Int
         /\ r.target = <<"domain", r.target[2]>> /\ r.target[2] \in DOMAIN Rank
         /\ Rank[r.target[2]] \in Int
<1>1. Allows[kind] = <<"cert", "domain">>
  BY DEF Covering, Allows
<1>2. /\ r \in Edges(index) /\ r.kind = kind
      /\ r.source[1] = "cert" /\ r.target[1] = "domain"
      /\ IsEntity(r.source) /\ IsEntity(r.target)
  BY <1>1, EdgesAre
<1> QED BY <1>2, CorrelationConstants DEF IsEntity, CorrelationConstants

LEMMA RanksDiffer ==
  ASSUME NEW index, Sound(index), NEW a \in Edges(index), NEW b \in Edges(index),
         a.kind \in Covering, b.kind \in Covering, a.kind = b.kind,
         a.source[2] = b.source[2], Rank[a.target[2]] = Rank[b.target[2]]
  PROVE  a = b
<1>1. a \in OfKind(index, a.kind) /\ b \in OfKind(index, b.kind)
  BY DEF OfKind
<1>2. /\ a.source = <<"cert", a.source[2]>> /\ a.target = <<"domain", a.target[2]>>
      /\ a.target[2] \in DOMAIN Rank
  BY <1>1, CoversAre
<1>3. /\ b.source = <<"cert", b.source[2]>> /\ b.target = <<"domain", b.target[2]>>
      /\ b.target[2] \in DOMAIN Rank
  BY <1>1, CoversAre
<1>4. a.target[2] = b.target[2]
  BY <1>2, <1>3, CorrelationConstants DEF CorrelationConstants
<1>5. a.source = b.source /\ a.target = b.target
  BY <1>2, <1>3, <1>4
<1> QED BY <1>5 DEF Sound, SameEdge

KindNumber(r) == IF r.kind = "covers_name" THEN 0 ELSE 1

CoveringSet(index) == UNION {OfKind(index, kind) : kind \in Covering}

LEMMA CoveringSetIs ==
  ASSUME NEW index, Sound(index)
  PROVE  /\ IsFiniteSet(CoveringSet(index)) /\ CoveringSet(index) \subseteq Edges(index)
         /\ \A r \in CoveringSet(index) :
              /\ r \in Edges(index) /\ r.kind \in Covering
              /\ r.source = <<"cert", r.source[2]>> /\ r.source[2] \in Int
              /\ r.target = <<"domain", r.target[2]>> /\ Rank[r.target[2]] \in Int
<1>1. CoveringSet(index) \subseteq Edges(index)
  BY DEF CoveringSet, OfKind
<1>2. IsFiniteSet(CoveringSet(index))
  BY <1>1, FS_Subset DEF Sound
<1>3. ASSUME NEW r \in CoveringSet(index)
      PROVE  /\ r \in Edges(index) /\ r.kind \in Covering
             /\ r.source = <<"cert", r.source[2]>> /\ r.source[2] \in Int
             /\ r.target = <<"domain", r.target[2]>> /\ Rank[r.target[2]] \in Int
  <2>1. PICK kind \in Covering : r \in OfKind(index, kind)
    BY DEF CoveringSet
  <2> QED BY <2>1, CoversAre
<1> QED BY <1>1, <1>2, <1>3

LEMMA CoveringEdgesAre ==
  ASSUME NEW index, Sound(index)
  PROVE  /\ DOMAIN CoveringEdges(index) = 1..Cardinality(CoveringSet(index))
         /\ \A k \in DOMAIN CoveringEdges(index) : CoveringEdges(index)[k] \in CoveringSet(index)
<1> DEFINE S == CoveringSet(index)
           before(a, b) == \/ a.kind = "covers_name" /\ b.kind = "covers_wildcard"
                           \/ a.kind = b.kind /\ a.source[2] < b.source[2]
                           \/ a.kind = b.kind /\ a.source = b.source /\ a.target # b.target
                                /\ Rank[a.target[2]] < Rank[b.target[2]]
           below == [x \in S |-> {y \in S : before(y, x)}]
           order == [i \in 1..Cardinality(S) |->
                       CHOOSE x \in S : Cardinality(below[x]) = i - 1]
           one == [r \in S |-> KindNumber(r)]
           two == [r \in S |-> r.source[2]]
           three == [r \in S |-> Rank[r.target[2]]]
<1>1. CoveringEdges(index) = order
  BY DEF CoveringEdges, CoveringSet, Sorted
<1>2. /\ IsFiniteSet(S)
      /\ \A r \in S : /\ r \in Edges(index) /\ r.kind \in Covering
                      /\ r.source = <<"cert", r.source[2]>> /\ r.source[2] \in Int
                      /\ r.target = <<"domain", r.target[2]>> /\ Rank[r.target[2]] \in Int
  BY CoveringSetIs
<1>3. below \in [S -> SUBSET S] /\ \A x, y \in S : y \in below[x] <=> before(y, x)
  OBVIOUS
<1>4. /\ one \in [S -> Int] /\ \A r \in S : one[r] = KindNumber(r)
      /\ two \in [S -> Int] /\ \A r \in S : two[r] = r.source[2]
      /\ three \in [S -> Int] /\ \A r \in S : three[r] = Rank[r.target[2]]
  BY <1>2 DEF KindNumber
<1>5. \A r \in S : /\ one[r] = 0 <=> r.kind = "covers_name"
                   /\ one[r] = 1 <=> r.kind = "covers_wildcard"
                   /\ one[r] \in {0, 1}
  BY <1>2, <1>4 DEF KindNumber, Covering
<1>6. \A x, y \in S : one[x] = one[y] /\ two[x] = two[y] /\ three[x] = three[y] => x = y
  <2> SUFFICES ASSUME NEW x \in S, NEW y \in S,
                      one[x] = one[y], two[x] = two[y], three[x] = three[y]
               PROVE  x = y
    OBVIOUS
  <2>1. x.kind = y.kind
    BY <1>5
  <2>2. x.source[2] = y.source[2] /\ Rank[x.target[2]] = Rank[y.target[2]]
    BY <1>4
  <2> QED BY <1>2, <2>1, <2>2, RanksDiffer
<1>7. \A x, y \in S : y \in below[x] <=>
           \/ one[y] < one[x]
           \/ one[y] = one[x] /\ two[y] < two[x]
           \/ one[y] = one[x] /\ two[y] = two[x] /\ three[y] < three[x]
  <2> SUFFICES ASSUME NEW x \in S, NEW y \in S
               PROVE  before(y, x) <=>
                        \/ one[y] < one[x]
                        \/ one[y] = one[x] /\ two[y] < two[x]
                        \/ one[y] = one[x] /\ two[y] = two[x] /\ three[y] < three[x]
    BY <1>3
  <2>1. one[y] < one[x] <=> y.kind = "covers_name" /\ x.kind = "covers_wildcard"
    BY <1>5
  <2>2. one[y] = one[x] <=> y.kind = x.kind
    BY <1>5
  <2>3. two[y] < two[x] <=> y.source[2] < x.source[2]
    BY <1>4
  <2>4. two[y] = two[x] <=> y.source = x.source
    BY <1>2, <1>4
  <2>5. three[y] < three[x] <=> y.target # x.target /\ Rank[y.target[2]] < Rank[x.target[2]]
    BY <1>2, <1>4
  <2> HIDE DEF one, two, three, S
  <2> QED BY <2>1, <2>2, <2>3, <2>4, <2>5
<1> HIDE DEF S, below, one, two, three, before
<1>8. StrictOrder(S, below)
  BY <1>2, <1>3, <1>4, <1>6, <1>7, Lexicographic
<1>9. InOrder(order, S, below)
  BY ONLY <1>8, ByRank
<1>10. DOMAIN order = 1..Cardinality(S)
  OBVIOUS
<1>11. \A k \in DOMAIN order : order[k] \in S
  BY <1>9, <1>10 DEF InOrder
<1> HIDE DEF order
<1> QED BY <1>1, <1>10, <1>11 DEF S

LEMMA CoversOfAre ==
  ASSUME NEW index, Sound(index), NEW name
  PROVE  /\ CoversOf(index, name) \subseteq CoveringSet(index)
         /\ \A r \in CoveringSet(index) : r \in CoversOf(index, name) <=> r.target = name
BY DEF CoversOf, CoveringSet, To

LEMMA LimitsAre ==
  MaxLinks \in Nat \ {0} /\ LinksPerName \in Nat \ {0} /\ MaxGroups \in Nat \ {0}
BY CorrelationConstants DEF CorrelationConstants

(* The first certificates for the domain are some of those there are.      *)
LEMMA DomainCertificateIs ==
  ASSUME NEW index, Sound(index), CoversOf(index, Target) # {}
  PROVE  LET draft == DomainCertificate(index) IN
         /\ draft.links \subseteq CoversOf(index, Target) /\ draft.links # {}
         /\ draft.subjects = {Target} \cup {link.source : link \in draft.links}
         /\ draft.supporting \subseteq IDs(index)
         /\ draft.claims = {} /\ draft.conflicts = {} /\ draft.gaps = {}
         /\ "links" \notin draft.limitations <=> CoversOf(index, Target) \subseteq draft.links
<1> DEFINE S == CoversOf(index, Target)
           before(a, b) == \/ a.source[2] < b.source[2]
                           \/ a.source = b.source /\ a.kind # b.kind
                                /\ a.kind = "covers_name"
           below == [x \in S |-> {y \in S : before(y, x)}]
           order == [i \in 1..Cardinality(S) |->
                       CHOOSE x \in S : Cardinality(below[x]) = i - 1]
           listed == {order[i] : i \in {j \in DOMAIN order : j <= MaxLinks}}
           supporting == {o.id : o \in About(index, Target) \cap Addresses(index, Target)}
           subjects == {Target} \cup {link.source : link \in listed}
           limitations == {"certificate"} \cup When(S # listed, {"links"})
           one == [r \in S |-> r.source[2]]
           two == [r \in S |-> KindNumber(r)]
           three == [r \in S |-> 0]
           draft == DomainCertificate(index)
<1>1. draft = [Draft EXCEPT !.subjects = subjects, !.links = listed,
                 !.supporting = supporting, !.limitations = limitations]
  BY Zenon DEF DomainCertificate, Sorted
<1>2. /\ IsFiniteSet(S)
      /\ \A r \in S : /\ r \in Edges(index) /\ r.kind \in Covering
                      /\ r.source = <<"cert", r.source[2]>> /\ r.source[2] \in Int
                      /\ r.target = Target
  <2>1. S \subseteq CoveringSet(index) /\ \A r \in S : r.target = Target
    BY CoversOfAre
  <2>2. IsFiniteSet(S)
    BY <2>1, CoveringSetIs, FS_Subset
  <2> QED BY <2>1, <2>2, CoveringSetIs
<1>3. supporting \subseteq IDs(index)
  BY DEF About, IDs
<1>4. below \in [S -> SUBSET S] /\ \A x, y \in S : y \in below[x] <=> before(y, x)
  OBVIOUS
<1>5. /\ one \in [S -> Int] /\ \A r \in S : one[r] = r.source[2]
      /\ two \in [S -> Int] /\ \A r \in S : two[r] = KindNumber(r)
      /\ three \in [S -> Int] /\ \A r \in S : three[r] = 0
  BY <1>2 DEF KindNumber
<1>6. \A r \in S : /\ two[r] = 0 <=> r.kind = "covers_name"
                   /\ two[r] = 1 <=> r.kind = "covers_wildcard"
                   /\ two[r] \in {0, 1}
  BY <1>2, <1>5 DEF KindNumber, Covering
<1>7. \A x, y \in S : one[x] = one[y] /\ two[x] = two[y] /\ three[x] = three[y] => x = y
  <2> SUFFICES ASSUME NEW x \in S, NEW y \in S, one[x] = one[y], two[x] = two[y]
               PROVE  x = y
    OBVIOUS
  <2>1. x.kind = y.kind
    BY <1>6
  <2>2. x.source = y.source
    BY <1>2, <1>5
  <2> QED BY <1>2, <2>1, <2>2 DEF Sound, SameEdge
<1>8. \A x, y \in S : y \in below[x] <=>
           \/ one[y] < one[x]
           \/ one[y] = one[x] /\ two[y] < two[x]
           \/ one[y] = one[x] /\ two[y] = two[x] /\ three[y] < three[x]
  <2> SUFFICES ASSUME NEW x \in S, NEW y \in S
               PROVE  before(y, x) <=>
                        \/ one[y] < one[x]
                        \/ one[y] = one[x] /\ two[y] < two[x]
                        \/ one[y] = one[x] /\ two[y] = two[x] /\ three[y] < three[x]
    BY <1>4
  <2>1. two[y] < two[x] <=> y.kind # x.kind /\ y.kind = "covers_name"
    BY <1>6
  <2>2. one[y] < one[x] <=> y.source[2] < x.source[2]
    BY <1>5
  <2>3. one[y] = one[x] <=> y.source = x.source
    BY <1>2, <1>5
  <2>4. ~ (three[y] < three[x])
    BY <1>5
  <2> HIDE DEF one, two, three, S
  <2> QED BY <2>1, <2>2, <2>3, <2>4
<1>9. S # {}
  OBVIOUS
<1> HIDE DEF S, below, one, two, three, before
<1>10. StrictOrder(S, below)
  <2>1. /\ IsFiniteSet(S) /\ below \in [S -> SUBSET S]
        /\ one \in [S -> Int] /\ two \in [S -> Int] /\ three \in [S -> Int]
    BY <1>2, <1>4, <1>5
  <2> QED BY ONLY <2>1, <1>7, <1>8, Lexicographic
<1>11. InOrder(order, S, below)
  BY ONLY <1>10, ByRank
<1>12. DOMAIN order = 1..Cardinality(S)
  OBVIOUS
<1>13. \A k \in DOMAIN order : order[k] \in S
  BY <1>11, <1>12 DEF InOrder
<1>14. 1 \in DOMAIN order /\ 1 <= MaxLinks
  <2>1. Cardinality(S) \in Nat /\ Cardinality(S) # 0
    BY <1>2, <1>9, FS_CardinalityType, FS_EmptySet
  <2>2. MaxLinks \in Nat \ {0}
    BY ONLY LimitsAre
  <2> QED BY <1>12, <2>1, <2>2
<1> HIDE DEF order
<1>15. listed \subseteq S /\ listed # {}
  BY <1>13, <1>14
<1> HIDE DEF listed, supporting
<1>16. "links" \notin limitations <=> S \subseteq listed
  BY <1>15 DEF When
<1> HIDE DEF draft, limitations
<1>17. /\ draft.subjects = subjects /\ draft.links = listed /\ draft.supporting = supporting
       /\ draft.limitations = limitations
       /\ draft.claims = {} /\ draft.conflicts = {} /\ draft.gaps = {}
  BY <1>1 DEF Draft
<1> QED BY <1>3, <1>15, <1>16, <1>17 DEF draft, S

LEMMA FirstLinksAre ==
  ASSUME NEW index, Sound(index), NEW name
  PROVE  /\ FirstLinks(index, name) \subseteq Edges(index)
         /\ FirstLinks(index, name) \subseteq CoversOf(index, name)
<1> DEFINE edges == CoveringEdges(index)
<1>1. \A k \in DOMAIN edges : edges[k] \in CoveringSet(index)
  BY CoveringEdgesAre
<1>2. \A r \in FirstLinks(index, name) :
        \E k \in DOMAIN edges : r = edges[k] /\ edges[k].target = name
  BY DEF FirstLinks
<1> HIDE DEF edges
<1>3. \A r \in FirstLinks(index, name) : r \in CoveringSet(index) /\ r.target = name
  BY <1>1, <1>2
<1> QED BY <1>3, CoveringSetIs, CoversOfAre

(* The names of the log that the DNS knows have their records as evidence, *)
(* and every certificate for them, unless the draft says otherwise, and it *)
(* says so only then.                                                      *)
LEMMA CtDnsNamesIs ==
  ASSUME NEW index, Sound(index), \E name \in CtNames(index) : InDns(index, name)
  PROVE  LET draft == CtDnsNames(index) IN
         /\ draft.links \subseteq Edges(index) /\ draft.supporting \subseteq IDs(index)
         /\ draft.links # {} \/ draft.supporting # {}
         /\ draft.subjects \subseteq CtNames(index)
         /\ draft.claims = {} /\ draft.conflicts = {}
         /\ "links" \notin draft.limitations
              <=> \A name \in draft.subjects : CoversOf(index, name) \subseteq draft.links
<1> DEFINE names == CtNames(index)
           shared == {name \in names : InDns(index, name)}
           sampled == {name \in shared : FirstLinks(index, name) # CoversOf(index, name)}
           dns(name) == UNION {From(index, kind, name) \cup To(index, kind, name) :
                                 kind \in NameKinds}
           links == UNION {FirstLinks(index, name) \cup dns(name) : name \in shared}
           supporting == {o.id : o \in UNION {RecordsOf(index, name) : name \in shared}}
           limitations == {"certificate", "not resolved"} \cup When(sampled # {}, {"links"})
           gaps == When(names # shared, {<<"not resolved", Target, <<>>>>})
           draft == CtDnsNames(index)
<1>1. draft = [Draft EXCEPT !.subjects = shared, !.links = links,
                 !.supporting = supporting, !.gaps = gaps, !.limitations = limitations]
  BY Zenon DEF CtDnsNames
<1>2. \A name : /\ dns(name) \subseteq Edges(index)
                /\ \A link \in dns(name) : link.kind \in NameKinds
                /\ FirstLinks(index, name) \subseteq Edges(index)
                /\ FirstLinks(index, name) \subseteq CoversOf(index, name)
  BY FirstLinksAre DEF From, To, OfKind
<1>3. \A name : RecordsOf(index, name) \subseteq Observed(index)
  BY DEF RecordsOf
<1>4. ASSUME NEW name, InDns(index, name) PROVE RecordsOf(index, name) # {} \/ dns(name) # {}
  BY <1>4 DEF InDns
<1>5. shared # {} /\ shared \subseteq names /\ \A name \in shared : InDns(index, name)
  OBVIOUS
<1> HIDE DEF dns, shared
<1>6. links \subseteq Edges(index)
  BY <1>2
<1>7. supporting \subseteq IDs(index)
  BY <1>3 DEF IDs
<1>8. links # {} \/ supporting # {}
  <2>1. PICK name \in shared : RecordsOf(index, name) # {} \/ dns(name) # {}
    BY <1>4, <1>5
  <2>2. CASE dns(name) # {}
    BY <2>2
  <2>3. CASE RecordsOf(index, name) # {}
    <3>1. PICK o : o \in RecordsOf(index, name)
      BY <2>3
    <3> QED BY <3>1
  <2> QED BY <2>1, <2>2, <2>3
<1>9. ASSUME NEW name \in shared, CoversOf(index, name) \subseteq links
      PROVE  FirstLinks(index, name) = CoversOf(index, name)
  <2> SUFFICES ASSUME NEW link \in CoversOf(index, name) PROVE link \in FirstLinks(index, name)
    BY <1>2
  <2>1. link.kind \notin NameKinds /\ link.target = name
    BY CoversOfAre, CoveringSetIs DEF Covering, NameKinds
  <2>2. PICK other \in shared : link \in FirstLinks(index, other) \cup dns(other)
    BY <1>9
  <2>3. link \in FirstLinks(index, other)
    BY <1>2, <2>1, <2>2
  <2>4. link \in CoveringSet(index) /\ link \in CoversOf(index, other)
    BY <1>2, <2>3, CoversOfAre
  <2>5. other = name
    BY <2>1, <2>4, CoversOfAre
  <2> QED BY <2>3, <2>5
<1>10. "links" \notin limitations <=> \A name \in shared : CoversOf(index, name) \subseteq links
  <2>1. \A name \in shared : FirstLinks(index, name) \subseteq links
    OBVIOUS
  <2>2. "links" \notin limitations <=> sampled = {}
    BY DEF When
  <2>3. sampled = {} <=> \A name \in shared : FirstLinks(index, name) = CoversOf(index, name)
    OBVIOUS
  <2> QED BY <1>9, <2>1, <2>2, <2>3
<1> HIDE DEF links, supporting, limitations, gaps, draft
<1>11. /\ draft.subjects = shared /\ draft.links = links /\ draft.supporting = supporting
       /\ draft.limitations = limitations /\ draft.claims = {} /\ draft.conflicts = {}
  BY <1>1 DEF Draft
<1> HIDE DEF names
<1> QED BY <1>5, <1>6, <1>7, <1>8, <1>10, <1>11 DEF draft, names

(* The groups of certificates that are kept. *)
KeptIn(index) ==
  LET order == Sorted(ListingSeveral(index), LAMBDA a, b : ListsMore(index, a, b))
  IN {order[i] : i \in {j \in DOMAIN order : j <= MaxGroups}}

Size(index, c) == Cardinality(NamesIn(index, c))

LEMMA ListingsAre ==
  ASSUME NEW index, Sound(index)
  PROVE  /\ \A c : /\ Listing(index, c) \subseteq CoveringSet(index)
                   /\ IsFiniteSet(NamesIn(index, c)) /\ Size(index, c) \in Nat
         /\ IsFiniteSet(ListingSeveral(index))
         /\ \A c \in ListingSeveral(index) :
              /\ c = <<"cert", c[2]>> /\ c[2] \in Int /\ Size(index, c) >= 2
              /\ NamesIn(index, c) # {} /\ Listing(index, c) # {}
<1>1. \A c : Listing(index, c) \subseteq CoveringSet(index)
  BY DEF Listing, CoveringSet, From
<1>2. ASSUME NEW c
      PROVE  IsFiniteSet(NamesIn(index, c)) /\ Size(index, c) \in Nat
  <2> DEFINE L == Listing(index, c)
             f == [l \in L |-> l.target]
  <2>1. IsFiniteSet(L)
    BY <1>1, CoveringSetIs, FS_Subset
  <2>2. f = [l \in L |-> f[l]] /\ \A l \in L : f[l] = l.target
    OBVIOUS
  <2> HIDE DEF f, L
  <2>3. IsFiniteSet({f[l] : l \in L})
    BY <2>1, <2>2, RangeIsFinite
  <2>4. NamesIn(index, c) = {f[l] : l \in L}
    BY <2>2 DEF NamesIn, L
  <2> QED BY <2>3, <2>4, FS_CardinalityType DEF Size
<1>3. /\ \A c \in ListingSeveral(index) : Size(index, c) >= 2
      /\ ListingSeveral(index) \subseteq {l.source : l \in CoveringSet(index)}
  BY DEF ListingSeveral, Size, CoveringSet
<1>4. IsFiniteSet(ListingSeveral(index))
  <2> DEFINE S == CoveringSet(index)
             f == [l \in S |-> l.source]
  <2>1. f = [l \in S |-> f[l]] /\ \A l \in S : f[l] = l.source
    OBVIOUS
  <2>2. IsFiniteSet(S)
    BY CoveringSetIs
  <2> HIDE DEF f, S
  <2>3. IsFiniteSet({f[l] : l \in S})
    BY <2>1, <2>2, RangeIsFinite
  <2>4. ListingSeveral(index) \subseteq {f[l] : l \in S}
    BY <1>3, <2>1 DEF S
  <2> QED BY <2>3, <2>4, FS_Subset
<1>5. ASSUME NEW c \in ListingSeveral(index)
      PROVE  /\ c = <<"cert", c[2]>> /\ c[2] \in Int
             /\ NamesIn(index, c) # {} /\ Listing(index, c) # {}
  <2>1. PICK l \in CoveringSet(index) : c = l.source
    BY <1>3
  <2>2. c = <<"cert", c[2]>> /\ c[2] \in Int
    BY <2>1, CoveringSetIs
  <2>3. l \in Listing(index, c)
    BY <2>1 DEF Listing, CoveringSet, From
  <2> QED BY <2>2, <2>3 DEF NamesIn
<1> QED BY <1>1, <1>2, <1>3, <1>4, <1>5

(* Groups are left out only beyond the limit, and never a larger one.      *)
LEMMA KeptAre ==
  ASSUME NEW index, Sound(index)
  PROVE  /\ CertificateGroups(index) =
              {Group(c, NamesIn(index, c), Listing(index, c)) : c \in KeptIn(index)}
         /\ KeptIn(index) \subseteq ListingSeveral(index)
         /\ \A c \in ListingSeveral(index) \ KeptIn(index) :
              /\ Cardinality(ListingSeveral(index)) > MaxGroups
              /\ \A other \in KeptIn(index) : Size(index, other) >= Size(index, c)
<1> DEFINE S == ListingSeveral(index)
           below == [x \in S |-> {y \in S : ListsMore(index, y, x)}]
           order == [i \in 1..Cardinality(S) |->
                       CHOOSE x \in S : Cardinality(below[x]) = i - 1]
           kept == {order[i] : i \in {j \in DOMAIN order : j <= MaxGroups}}
           one == [c \in S |-> - Size(index, c)]
           two == [c \in S |-> c[2]]
           three == [c \in S |-> 0]
<1>1. KeptIn(index) = kept
  BY DEF KeptIn, Sorted
<1>2. CertificateGroups(index) = {Group(c, NamesIn(index, c), Listing(index, c)) : c \in KeptIn(index)}
  BY DEF CertificateGroups, KeptIn
<1>3. /\ IsFiniteSet(S)
      /\ \A c \in S : c = <<"cert", c[2]>> /\ c[2] \in Int /\ Size(index, c) \in Nat
  BY ListingsAre
<1>4. /\ below \in [S -> SUBSET S]
      /\ \A x, y \in S : y \in below[x] <=> ListsMore(index, y, x)
  OBVIOUS
<1>5. \A x, y : ListsMore(index, y, x) <=>
        \/ Size(index, y) > Size(index, x)
        \/ Size(index, y) = Size(index, x) /\ y[2] < x[2]
  BY DEF ListsMore, Size
<1> HIDE DEF S
<1>6. /\ one \in [S -> Int] /\ \A c \in S : one[c] = - Size(index, c)
      /\ two \in [S -> Int] /\ \A c \in S : two[c] = c[2]
      /\ three \in [S -> Int] /\ \A c \in S : three[c] = 0
  BY <1>3
<1> HIDE DEF below, one, two, three
<1>7. \A x, y \in S : one[x] = one[y] /\ two[x] = two[y] /\ three[x] = three[y] => x = y
  BY <1>3, <1>6
<1>8. \A x, y \in S : y \in below[x] <=>
           \/ one[y] < one[x]
           \/ one[y] = one[x] /\ two[y] < two[x]
           \/ one[y] = one[x] /\ two[y] = two[x] /\ three[y] < three[x]
  <2> SUFFICES ASSUME NEW x \in S, NEW y \in S
               PROVE  ListsMore(index, y, x) <=>
                        \/ one[y] < one[x]
                        \/ one[y] = one[x] /\ two[y] < two[x]
                        \/ one[y] = one[x] /\ two[y] = two[x] /\ three[y] < three[x]
    BY <1>4
  <2>0. /\ one[x] = - Size(index, x) /\ Size(index, x) \in Nat
        /\ one[y] = - Size(index, y) /\ Size(index, y) \in Nat
    BY ONLY <1>3, <1>6
  <2>1. one[y] < one[x] <=> Size(index, y) > Size(index, x)
    BY ONLY <2>0
  <2>2. one[y] = one[x] <=> Size(index, y) = Size(index, x)
    BY ONLY <2>0
  <2>3. ~ (three[y] < three[x]) /\ two[y] = y[2] /\ two[x] = x[2]
    BY <1>6
  <2> QED BY <1>5, <2>1, <2>2, <2>3
<1>9. StrictOrder(S, below)
  <2>1. /\ IsFiniteSet(S) /\ below \in [S -> SUBSET S]
        /\ one \in [S -> Int] /\ two \in [S -> Int] /\ three \in [S -> Int]
    BY ONLY <1>3, <1>4, <1>6
  <2> QED BY ONLY <2>1, <1>7, <1>8, Lexicographic
<1>10. InOrder(order, S, below)
  BY ONLY <1>9, ByRank
<1>11. DOMAIN order = 1..Cardinality(S)
  OBVIOUS
<1>12. Cardinality(S) \in Nat
  BY <1>3, FS_CardinalityType
<1> HIDE DEF order
<1>13. /\ \A k \in DOMAIN order : order[k] \in S
       /\ \A x \in S : \E k \in DOMAIN order : order[k] = x
       /\ \A j, k \in DOMAIN order : j < k => order[j] \in below[order[k]]
  BY <1>10, <1>11 DEF InOrder
<1>14. kept \subseteq S
  BY <1>13
<1>15. ASSUME NEW c \in S \ kept
       PROVE  Cardinality(S) > MaxGroups /\ \A other \in kept : Size(index, other) >= Size(index, c)
  <2>1. PICK k \in DOMAIN order : order[k] = c
    BY <1>13
  <2>2. ~ (k <= MaxGroups)
    BY <1>15, <2>1
  <2>3. k \in 1..Cardinality(S) /\ MaxGroups \in Nat
    BY <1>11, LimitsAre
  <2>4. Cardinality(S) > MaxGroups
    BY <1>12, <2>2, <2>3
  <2>5. ASSUME NEW other \in kept PROVE Size(index, other) >= Size(index, c)
    <3>1. PICK j \in DOMAIN order : j <= MaxGroups /\ order[j] = other
      OBVIOUS
    <3>2. j < k
      BY <1>11, <1>12, <2>2, <2>3, <3>1
    <3>3. other \in below[c] /\ other \in S
      BY <1>13, <2>1, <3>1, <3>2
    <3>4. ListsMore(index, other, c)
      BY <1>4, <3>3
    <3> QED BY <1>3, <1>5, <3>3, <3>4
  <2> QED BY <2>4, <2>5
<1> HIDE DEF kept
<1> QED BY <1>1, <1>2, <1>14, <1>15 DEF S

(* What a group is of, and what shares it. *)
IsGroup(index, draft) ==
  \E kind \in DOMAIN Allows : \E s, members, links :
    /\ draft = Group(s, members, links)
    /\ links \subseteq Edges(index) /\ links # {}
    /\ members # {}
    /\ \/ /\ kind \in {"announced_by", "registered_in", "resolves_to"}
          /\ links = To(index, kind, s) /\ members = {l.source : l \in links}
          /\ s[1] = Allows[kind][2] /\ \A m \in members : m[1] = Allows[kind][1]
       \/ /\ kind = "covers_name" /\ s \in KeptIn(index)
          /\ links = Listing(index, s) /\ members = {l.target : l \in links}
          /\ s[1] = "cert" /\ \A m \in members : m[1] = "domain"

LEMMA SharedAre ==
  ASSUME NEW index, Sound(index)
  PROVE  /\ \A draft \in SharedDrafts(index) : IsGroup(index, draft)
         /\ \A c \in KeptIn(index) :
              Group(c, NamesIn(index, c), Listing(index, c)) \in SharedDrafts(index)
<1> DEFINE Kinds == {"announced_by", "registered_in", "resolves_to"}
<1>1. ASSUME NEW kind \in Kinds, NEW draft \in TargetGroups(index, kind)
      PROVE  IsGroup(index, draft)
  <2> DEFINE links(s) == To(index, kind, s)
             members(s) == {link.source : link \in links(s)}
  <2>1. PICK first \in OfKind(index, kind) :
          draft = Group(first.target, members(first.target), links(first.target))
    BY DEF TargetGroups
  <2> DEFINE s == first.target
             L == links(s)
             M == members(s)
  <2>2. first \in L /\ \A l \in L : l \in OfKind(index, kind) /\ l.target = s
    BY DEF To
  <2>3. L \subseteq Edges(index) /\ L # {} /\ M # {}
    BY <2>2 DEF OfKind
  <2>4. s[1] = Allows[kind][2] /\ kind \in DOMAIN Allows
    BY EdgesAre
  <2>5. \A l \in L : l.source[1] = Allows[kind][1]
    BY <2>2, EdgesAre
  <2>6. draft = Group(s, M, L) /\ L = To(index, kind, s) /\ M = {l.source : l \in L}
    BY <2>1
  <2> HIDE DEF s, L, M, links, members
  <2>7. \A m \in M : m[1] = Allows[kind][1]
    BY <2>5, <2>6
  <2> QED BY <2>3, <2>4, <2>6, <2>7 DEF IsGroup
<1>2. ASSUME NEW draft \in CertificateGroups(index)
      PROVE  IsGroup(index, draft)
  <2>1. PICK c \in KeptIn(index) : draft = Group(c, NamesIn(index, c), Listing(index, c))
    BY KeptAre
  <2> DEFINE L == Listing(index, c)
             M == NamesIn(index, c)
  <2>2. c \in ListingSeveral(index)
    BY KeptAre
  <2>3. c = <<"cert", c[2]>> /\ L # {} /\ M # {} /\ L \subseteq CoveringSet(index)
    BY <2>2, ListingsAre
  <2>4. L \subseteq Edges(index) /\ \A l \in L : l.target = <<"domain", l.target[2]>>
    BY <2>3, CoveringSetIs
  <2>5. M = {l.target : l \in L}
    BY DEF NamesIn
  <2>6. "covers_name" \in DOMAIN Allows /\ c[1] = "cert"
    BY <2>3 DEF Allows
  <2> HIDE DEF L, M
  <2>7. \A m \in M : m[1] = "domain"
    BY <2>4, <2>5
  <2> QED BY <2>1, <2>3, <2>4, <2>5, <2>6, <2>7 DEF IsGroup, L, M
<1>3. ASSUME NEW draft \in SharedDrafts(index) PROVE IsGroup(index, draft)
  BY <1>1, <1>2 DEF SharedDrafts
<1>4. ASSUME NEW c \in KeptIn(index)
      PROVE  Group(c, NamesIn(index, c), Listing(index, c)) \in SharedDrafts(index)
  <2>1. Group(c, NamesIn(index, c), Listing(index, c)) \in CertificateGroups(index)
    BY KeptAre
  <2> QED BY <2>1 DEF SharedDrafts
<1> QED BY <1>3, <1>4

LEMMA GroupIs ==
  ASSUME NEW s, NEW members, NEW links
  PROVE  LET draft == Group(s, members, links) IN
         /\ draft.subjects = {s} \cup members /\ draft.links = links
         /\ draft.supporting = {} /\ draft.claims = {} /\ draft.conflicts = {}
BY DEF Group, Draft

-----------------------------------------------------------------------------
(* No draft is rejected *)

LEMMA LinksAreBacked ==
  ASSUME NEW index, Sound(index), NEW links, links \subseteq Edges(index)
  PROVE  /\ CitedBy(links) \subseteq IDs(index)
         /\ links # {} => CitedBy(links) # {}
         /\ \A l \in links : /\ l.source \in KnownEntities(index)
                             /\ l.target \in KnownEntities(index)
                             /\ l.evidence[1] \in IDs(index)
<1>1. \A l \in links : /\ l.evidence[1] \in Items(l.evidence)
                       /\ Items(l.evidence) \subseteq IDs(index)
  BY DEF Sound, IsSound
<1>2. \A l \in links : l.source \in KnownEntities(index) /\ l.target \in KnownEntities(index)
  BY DEF KnownEntities
<1> QED BY <1>1, <1>2 DEF CitedBy

LEMMA BackedIf ==
  ASSUME NEW index, Sound(index), NEW draft,
         draft.links \subseteq Edges(index), draft.supporting \subseteq IDs(index),
         \A claim \in draft.claims : claim.observation \in IDs(index),
         \A c \in draft.conflicts : c.evidence # {} /\ c.evidence \subseteq IDs(index),
         draft.links # {} \/ draft.supporting # {} \/ draft.claims # {},
         draft.subjects \subseteq KnownEntities(index)
  PROVE  IsBacked(index, draft)
<1>1. CitedBy(draft.links) \subseteq IDs(index) /\ (draft.links # {} => CitedBy(draft.links) # {})
  BY LinksAreBacked
<1>2. EvidenceOf(draft) \subseteq IDs(index)
  <2>1. \A id \in EvidenceOf(draft) :
          \/ id \in CitedBy(draft.links)
          \/ \E claim \in draft.claims : id = claim.observation
          \/ id \in draft.supporting
          \/ \E c \in draft.conflicts : id \in c.evidence
    BY DEF EvidenceOf
  <2> QED BY <1>1, <2>1
<1>3. EvidenceOf(draft) # {}
  <2>1. CASE draft.claims # {}
    <3>1. PICK claim : claim \in draft.claims
      BY <2>1
    <3>2. claim.observation \in EvidenceOf(draft)
      BY <3>1 DEF EvidenceOf
    <3> QED BY <3>2
  <2>2. CASE draft.claims = {}
    BY <1>1, <2>2 DEF EvidenceOf
  <2> QED BY <2>1, <2>2
<1> QED BY <1>2, <1>3 DEF IsBacked

LEMMA ContainedAreBacked ==
  ASSUME NEW index, Sound(index), NEW ip, NEW announced, NEW registered,
         registered \subseteq Edges(index)
  PROVE  \A c \in Contained(index, ip, announced, registered) :
           c.evidence # {} /\ c.evidence \subseteq IDs(index)
<1> DEFINE firsts == {link.evidence[1] : link \in registered}
<1>1. firsts \subseteq IDs(index)
  BY LinksAreBacked
<1>2. \A o \in Observed(index) : o.id \in IDs(index)
  BY DEF IDs
<1>3. ASSUME NEW c \in Contained(index, ip, announced, registered)
      PROVE  \E o \in Observed(index) : \E about :
               c = Conflict(about, {o.id}) \/ c = Conflict(about, {o.id} \cup firsts)
  <2> DEFINE prefixes == PrefixesOf(index, announced)
             inside == {o \in prefixes : ip[2] \in o.value}
             ranges == {o \in Observed(index) : /\ o.id \in CitedBy(registered)
                                              /\ o.data = "network" /\ o.value # {}
                                              /\ ip[2] \notin o.value}
             networks == {link.target[2] : link \in registered}
             apart == {o \in inside : /\ networks # {}
                                      /\ \A net \in networks : ~Overlaps(o.value, net)}
             one == {Conflict(<<"prefix", o.value>>, {o.id}) : o \in prefixes \ inside}
             two == {Conflict(<<"range", o.value>>, {o.id}) : o \in ranges}
             three == {Conflict(<<"overlap", o.value>>, {o.id} \cup firsts) : o \in apart}
  <2>1. c \in one \/ c \in two \/ c \in three
    BY DEF Contained
  <2>2. prefixes \subseteq Observed(index) /\ ranges \subseteq Observed(index)
        /\ apart \subseteq Observed(index) /\ prefixes \ inside \subseteq Observed(index)
    BY DEF PrefixesOf
  <2> HIDE DEF apart, ranges, inside, prefixes, firsts
  <2>3. CASE c \in one
    BY <2>2, <2>3
  <2>4. CASE c \in two
    BY <2>2, <2>4
  <2>5. CASE c \in three
    BY <2>2, <2>5
  <2> QED BY <2>1, <2>3, <2>4, <2>5
<1> HIDE DEF firsts
<1>4. \A about, ids : Conflict(about, ids).evidence = ids
  BY DEF Conflict
<1> SUFFICES ASSUME NEW c \in Contained(index, ip, announced, registered)
             PROVE  c.evidence # {} /\ c.evidence \subseteq IDs(index)
  OBVIOUS
<1>5. PICK o \in Observed(index) : \E about :
        c = Conflict(about, {o.id}) \/ c = Conflict(about, {o.id} \cup firsts)
  BY <1>3
<1>6. c.evidence = {o.id} \/ c.evidence = {o.id} \cup firsts
  BY ONLY <1>4, <1>5
<1> QED BY <1>1, <1>2, <1>6

LEMMA DisagreeingAreBacked ==
  ASSUME NEW index, Sound(index), NEW kind, NEW ip
  PROVE  \A ids \in Disagreeing(From(index, kind, ip)) : ids # {} /\ ids \subseteq IDs(index)
<1> DEFINE links == From(index, kind, ip)
<1>1. links \subseteq Edges(index)
  BY DEF From, OfKind
<1>2. Disagreeing(links) # {} => links # {}
  BY DisagreeingIs
<1>3. \A ids \in Disagreeing(links) : ids = CitedBy(links)
  BY DEF Disagreeing, PerObservation, When
<1> HIDE DEF links
<1>4. CitedBy(links) \subseteq IDs(index) /\ (links # {} => CitedBy(links) # {})
  BY <1>1, LinksAreBacked
<1> QED BY <1>2, <1>3, <1>4 DEF links

LEMMA InfrastructureIsBacked ==
  ASSUME NEW index, Sound(index), NEW r \in OfKind(index, "resolves_to")
  PROVE  IsBacked(index, Infrastructure(index, r))
<1> DEFINE ip == r.target
           draft == Infrastructure(index, r)
           announced == From(index, "announced_by", ip)
           registered == From(index, "registered_in", ip)
           origins == {Conflict(<<"origins", {ip[2]}>>, ids) : ids \in Disagreeing(announced)}
           networks == {Conflict(<<"networks", {ip[2]}>>, ids) : ids \in Disagreeing(registered)}
           rest == Contained(index, ip, announced, registered)
<1>1. /\ draft.links = {r} \cup announced \cup registered
      /\ draft.subjects = {r.source} \cup {link.target : link \in draft.links}
      /\ draft.conflicts = (origins \cup networks) \cup rest
      /\ draft.claims = {} /\ draft.supporting = {}
  BY InfrastructureIs
<1>2. r \in Edges(index) /\ announced \subseteq Edges(index) /\ registered \subseteq Edges(index)
  BY DEF From, OfKind
<1>3. \A c \in rest : c.evidence # {} /\ c.evidence \subseteq IDs(index)
  BY <1>2, ContainedAreBacked
<1>4. \A c \in origins : c.evidence # {} /\ c.evidence \subseteq IDs(index)
  BY DisagreeingAreBacked DEF Conflict
<1>5. \A c \in networks : c.evidence # {} /\ c.evidence \subseteq IDs(index)
  BY DisagreeingAreBacked DEF Conflict
<1> HIDE DEF draft, announced, registered, origins, networks, rest
<1>6. draft.links \subseteq Edges(index) /\ draft.links # {}
  BY <1>1, <1>2
<1>7. \A l \in draft.links : l.target \in KnownEntities(index)
  BY <1>6, LinksAreBacked
<1>8. r.source \in KnownEntities(index)
  BY <1>2, LinksAreBacked
<1>9. draft.subjects \subseteq KnownEntities(index)
  BY <1>1, <1>7, <1>8
<1>10. \A c \in draft.conflicts : c.evidence # {} /\ c.evidence \subseteq IDs(index)
  BY <1>1, <1>3, <1>4, <1>5
<1>11. IsBacked(index, draft)
  <2>1. draft.supporting \subseteq IDs(index) /\ \A claim \in draft.claims : claim.observation \in IDs(index)
    BY <1>1
  <2> QED BY <1>6, <1>9, <1>10, <2>1, BackedIf
<1> QED BY <1>11 DEF draft

LEMMA CertificatesAreBacked ==
  ASSUME NEW index, Sound(index)
  PROVE  /\ CoversOf(index, Target) # {} => IsBacked(index, DomainCertificate(index))
         /\ (\E name \in CtNames(index) : InDns(index, name)) => IsBacked(index, CtDnsNames(index))
<1>1. ASSUME CoversOf(index, Target) # {} PROVE IsBacked(index, DomainCertificate(index))
  <2> DEFINE draft == DomainCertificate(index)
  <2>1. /\ draft.links \subseteq CoversOf(index, Target) /\ draft.links # {}
        /\ draft.subjects = {Target} \cup {link.source : link \in draft.links}
        /\ draft.supporting \subseteq IDs(index)
        /\ draft.claims = {} /\ draft.conflicts = {}
    BY <1>1, DomainCertificateIs
  <2> HIDE DEF draft
  <2>2. draft.links \subseteq Edges(index)
    BY <2>1, CoversOfAre, CoveringSetIs
  <2>3. Target \in KnownEntities(index) /\ \A l \in draft.links : l.source \in KnownEntities(index)
    BY <2>2, LinksAreBacked DEF KnownEntities
  <2>4. draft.subjects \subseteq KnownEntities(index)
    BY <2>1, <2>3
  <2>5. IsBacked(index, draft)
    BY <2>1, <2>2, <2>4, BackedIf
  <2> QED BY <2>5 DEF draft
<1>2. ASSUME \E name \in CtNames(index) : InDns(index, name)
      PROVE  IsBacked(index, CtDnsNames(index))
  <2> DEFINE draft == CtDnsNames(index)
  <2>1. /\ draft.links \subseteq Edges(index) /\ draft.supporting \subseteq IDs(index)
        /\ draft.links # {} \/ draft.supporting # {}
        /\ draft.subjects \subseteq CtNames(index)
        /\ draft.claims = {} /\ draft.conflicts = {}
    BY <1>2, CtDnsNamesIs
  <2> HIDE DEF draft
  <2>2. CtNames(index) \subseteq KnownEntities(index)
    BY DEF CtNames, OfKind, KnownEntities
  <2>3. IsBacked(index, draft)
    BY <2>1, <2>2, BackedIf
  <2> QED BY <2>3 DEF draft
<1> QED BY <1>1, <1>2

LEMMA MultipleSourcesIs ==
  ASSUME NEW index, NEW e
  PROVE  LET draft == MultipleSources(index, e) IN
         /\ draft.subjects = {e} /\ draft.claims = ClaimsAbout(index, e)
         /\ draft.links = {} /\ draft.supporting = {} /\ draft.conflicts = {}
BY DEF MultipleSources, Draft

LEMMA MultipleSourcesAreBacked ==
  ASSUME NEW index, Sound(index), NEW e \in Subjects(index),
         Cardinality(Providers(ClaimsAbout(index, e))) >= 2
  PROVE  IsBacked(index, MultipleSources(index, e))
<1> DEFINE draft == MultipleSources(index, e)
<1>1. /\ draft.subjects = {e} /\ draft.claims = ClaimsAbout(index, e)
      /\ draft.links = {} /\ draft.supporting = {} /\ draft.conflicts = {}
  BY MultipleSourcesIs
<1>2. \A claim \in draft.claims : claim.observation \in IDs(index)
  BY <1>1, ClaimsAre
<1>3. draft.claims # {}
  <2>1. Providers(ClaimsAbout(index, e)) # {}
    BY FS_EmptySet
  <2> QED BY <1>1, <2>1 DEF Providers
<1>4. e \in KnownEntities(index)
  BY DEF KnownEntities, Subjects
<1> HIDE DEF draft
<1>5. IsBacked(index, draft)
  BY <1>1, <1>2, <1>3, <1>4, BackedIf
<1> QED BY <1>5 DEF draft

LEMMA GroupsAreBacked ==
  ASSUME NEW index, Sound(index), NEW draft, IsGroup(index, draft)
  PROVE  IsBacked(index, draft)
<1>0. IsGroup(index, draft)
  OBVIOUS
<1>1. PICK kind, s, members, links :
        /\ draft = Group(s, members, links) /\ links \subseteq Edges(index) /\ links # {}
        /\ \/ links = To(index, kind, s) /\ members = {l.source : l \in links}
           \/ /\ s \in KeptIn(index) /\ links = Listing(index, s)
              /\ members = {l.target : l \in links}
  BY ONLY <1>0, ZenonT(40) DEF IsGroup
<1>2. /\ draft.subjects = {s} \cup members /\ draft.links = links
      /\ draft.supporting = {} /\ draft.claims = {} /\ draft.conflicts = {}
  BY <1>1, GroupIs
<1>3. \A l \in links : l.source \in KnownEntities(index) /\ l.target \in KnownEntities(index)
  BY <1>1, LinksAreBacked
<1>4. members \subseteq KnownEntities(index)
  BY <1>1, <1>3
<1>5. s \in KnownEntities(index)
  <2>1. PICK l : l \in links
    BY <1>1
  <2>2. links = To(index, kind, s) => l.target = s
    BY <2>1 DEF To
  <2>3. links = Listing(index, s) => l.source = s
    BY <2>1 DEF Listing, From
  <2> QED BY <1>1, <1>3, <2>1, <2>2, <2>3
<1> QED BY <1>1, <1>2, <1>4, <1>5, BackedIf

LEMMA AllAreBacked ==
  ASSUME NEW index, Sound(index)
  PROVE  Backed(index) = Drafts(index)
<1> SUFFICES ASSUME NEW d \in Drafts(index) PROVE IsBacked(index, d[2])
  BY DEF Backed
<1>1. ASSUME NEW e \in Subjects(index), ProviderConflicts(ClaimsAbout(index, e)) # {},
             d[2] = SourceDisagreement(index, e)
      PROVE  IsBacked(index, d[2])
  <2>1. <<"source_disagreement", SourceDisagreement(index, e)>> \in Backed(index)
    BY <1>1, DisagreementIsBacked
  <2> QED BY <1>1, <2>1 DEF Backed
<1>2. d[2] \in SharedDrafts(index) => IsBacked(index, d[2])
  BY SharedAre, GroupsAreBacked
<1>3. (\E r \in OfKind(index, "resolves_to") : HasContext(index, r) /\ d[2] = Infrastructure(index, r))
        => IsBacked(index, d[2])
  BY InfrastructureIsBacked
<1>4. (\E e \in Subjects(index) : /\ Cardinality(Providers(ClaimsAbout(index, e))) >= 2
                                /\ d[2] = MultipleSources(index, e))
        => IsBacked(index, d[2])
  BY MultipleSourcesAreBacked
<1>5. \/ d[2] = DomainCertificate(index) /\ CoversOf(index, Target) # {}
      \/ d[2] = CtDnsNames(index) /\ \E name \in CtNames(index) : InDns(index, name)
      => IsBacked(index, d[2])
  BY CertificatesAreBacked
<1> QED BY ONLY <1>1, <1>2, <1>3, <1>4, <1>5, KindsAre, d \in Drafts(index)

-----------------------------------------------------------------------------
(* No draft is taken for another *)

(* A name, its address, and what the address is announced by and registered in. *)
LEMMA InfrastructureSubjects ==
  ASSUME NEW index, Sound(index), NEW r \in OfKind(index, "resolves_to")
  PROVE  LET subjects == Infrastructure(index, r).subjects IN
         /\ r.source \in subjects /\ r.source[1] = "domain"
         /\ r.target \in subjects /\ r.target[1] = "ip"
         /\ \A e \in subjects : /\ e[1] = "domain" => e = r.source
                                /\ e[1] = "ip" => e = r.target
<1> DEFINE ip == r.target
           announced == From(index, "announced_by", ip)
           registered == From(index, "registered_in", ip)
           subjects == Infrastructure(index, r).subjects
           links == Infrastructure(index, r).links
<1>1. links = {r} \cup announced \cup registered
      /\ subjects = {r.source} \cup {link.target : link \in links}
  BY InfrastructureIs
<1>2. \A l \in announced : l.target[1] = "as"
  <2>1. announced \subseteq OfKind(index, "announced_by") /\ Allows["announced_by"][2] = "as"
    BY DEF From, Allows
  <2> QED BY <2>1, EdgesAre
<1>3. \A l \in registered : l.target[1] = "network"
  <2>1. registered \subseteq OfKind(index, "registered_in") /\ Allows["registered_in"][2] = "network"
    BY DEF From, Allows
  <2> QED BY <2>1, EdgesAre
<1>4. r.source[1] = "domain" /\ r.target[1] = "ip"
  <2>1. Allows["resolves_to"] = <<"domain", "ip">>
    BY DEF Allows
  <2> QED BY <2>1, EdgesAre
<1> HIDE DEF announced, registered, links, subjects
<1>5. \A e \in subjects : e = r.source \/ e = r.target \/ e[1] = "as" \/ e[1] = "network"
  BY <1>1, <1>2, <1>3
<1>6. r.source \in subjects /\ r.target \in subjects
  BY <1>1
<1>7. \A e \in subjects : (e[1] = "domain" => e = r.source) /\ (e[1] = "ip" => e = r.target)
  BY <1>4, <1>5
<1> QED BY <1>4, <1>6, <1>7 DEF subjects

(* What is shared is told from what shares it by its type. *)
LEMMA GroupsDiffer ==
  ASSUME NEW index, NEW one, IsGroup(index, one), NEW other, IsGroup(index, other),
         one.subjects = other.subjects
  PROVE  one = other
<1> DEFINE ByTarget == {"announced_by", "registered_in", "resolves_to"}
           Is(draft, kind, s, members, links) ==
             /\ draft = Group(s, members, links) /\ members # {}
             /\ draft.subjects = {s} \cup members
             /\ s[1] = Allows[kind][IF kind \in ByTarget THEN 2 ELSE 1]
             /\ \A m \in members : m[1] = Allows[kind][IF kind \in ByTarget THEN 1 ELSE 2]
             /\ \/ /\ kind \in ByTarget
                   /\ links = To(index, kind, s) /\ members = {l.source : l \in links}
                \/ /\ kind = "covers_name"
                   /\ links = Listing(index, s) /\ members = {l.target : l \in links}
<1>1. ASSUME NEW draft, IsGroup(index, draft)
      PROVE  \E kind, s, members, links : Is(draft, kind, s, members, links)
  <2>1. PICK kind, s, members, links :
          /\ draft = Group(s, members, links)
          /\ members # {}
          /\ \/ /\ kind \in ByTarget
                /\ links = To(index, kind, s) /\ members = {l.source : l \in links}
                /\ s[1] = Allows[kind][2] /\ \A m \in members : m[1] = Allows[kind][1]
             \/ /\ kind = "covers_name"
                /\ links = Listing(index, s) /\ members = {l.target : l \in links}
                /\ s[1] = "cert" /\ \A m \in members : m[1] = "domain"
    BY <1>1 DEF IsGroup
  <2>2. draft.subjects = {s} \cup members
    BY <2>1, GroupIs
  <2>3. Allows["covers_name"] = <<"cert", "domain">>
    BY DEF Allows
  <2>4. ASSUME kind \in ByTarget PROVE Is(draft, kind, s, members, links)
    <3>1. kind # "covers_name"
      BY <2>4
    <3>2. (IF kind \in ByTarget THEN 2 ELSE 1) = 2 /\ (IF kind \in ByTarget THEN 1 ELSE 2) = 1
      BY <2>4
    <3> QED BY ONLY <2>1, <2>2, <2>4, <3>1, <3>2
  <2>5. ASSUME kind = "covers_name" PROVE Is(draft, kind, s, members, links)
    <3>1. kind \notin ByTarget
      BY <2>5
    <3>2. (IF kind \in ByTarget THEN 2 ELSE 1) = 1 /\ (IF kind \in ByTarget THEN 1 ELSE 2) = 2
      BY <3>1
    <3>3. s[1] = Allows[kind][1] /\ \A m \in members : m[1] = Allows[kind][2]
      BY <2>1, <2>3, <2>5, <3>1
    <3> HIDE DEF ByTarget
    <3> QED BY ONLY <2>1, <2>2, <2>5, <3>1, <3>2, <3>3
  <2>6. Is(draft, kind, s, members, links)
    <3>1. kind \in ByTarget \/ kind = "covers_name"
      BY <2>1
    <3> HIDE DEF ByTarget, Is
    <3> QED BY ONLY <2>4, <2>5, <3>1
  <2> HIDE DEF Is
  <2> QED BY <2>6
<1>2. PICK kind, s, members, links : Is(one, kind, s, members, links)
  BY <1>1
<1>3. PICK kind2, s2, members2, links2 : Is(other, kind2, s2, members2, links2)
  BY <1>1
<1>4. /\ Allows["announced_by"] = <<"ip", "as">> /\ Allows["registered_in"] = <<"ip", "network">>
      /\ Allows["resolves_to"] = <<"domain", "ip">> /\ Allows["covers_name"] = <<"cert", "domain">>
  BY DEF Allows
<1> DEFINE shared(k) == Allows[k][IF k \in ByTarget THEN 2 ELSE 1]
           member(k) == Allows[k][IF k \in ByTarget THEN 1 ELSE 2]
           All == {"announced_by", "registered_in", "resolves_to", "covers_name"}
<1>5. /\ shared("announced_by") = "as" /\ member("announced_by") = "ip"
      /\ shared("registered_in") = "network" /\ member("registered_in") = "ip"
      /\ shared("resolves_to") = "ip" /\ member("resolves_to") = "domain"
      /\ shared("covers_name") = "cert" /\ member("covers_name") = "domain"
  BY <1>4
<1>6. /\ kind \in All /\ s[1] = shared(kind) /\ members # {}
      /\ \A m \in members : m[1] = member(kind)
      /\ kind2 \in All /\ s2[1] = shared(kind2) /\ members2 # {}
      /\ \A m \in members2 : m[1] = member(kind2)
      /\ {s} \cup members = {s2} \cup members2
  BY <1>2, <1>3
<1> HIDE DEF shared, member
<1>7. kind = kind2
  <2>1. PICK m \in members : m \in {s2} \cup members2
    BY <1>6
  <2>2. PICK m2 \in members2 : m2 \in {s} \cup members
    BY <1>6
  <2>3. m[1] = member(kind) /\ m[1] \in {shared(kind2), member(kind2)}
    BY <1>6, <2>1
  <2>4. m2[1] = member(kind2) /\ m2[1] \in {shared(kind), member(kind)}
    BY <1>6, <2>2
  <2>5. shared(kind) \in {shared(kind2), member(kind2)}
    BY <1>6
  <2>6. shared(kind2) \in {shared(kind), member(kind)}
    BY <1>6
  <2> QED BY <1>5, <1>6, <2>3, <2>4, <2>5, <2>6
<1>8. shared(kind) # member(kind)
  BY <1>5, <1>6
<1>9. s = s2
  <2>1. s \in {s2} \cup members2
    BY <1>6
  <2> QED BY <1>6, <1>7, <1>8, <2>1
<1>10. links = links2 /\ members = members2
  <2>1. kind \in ByTarget /\ kind = "covers_name" => FALSE
    OBVIOUS
  <2> QED BY <1>2, <1>3, <1>7, <1>9, <2>1
<1> QED BY <1>2, <1>3, <1>9, <1>10

LEMMA IdentifiersDiffer ==
  ASSUME NEW index, Sound(index), NEW d \in Drafts(index), NEW e \in Drafts(index),
         IdentifierOf(d) = IdentifierOf(e)
  PROVE  d = e
<1>1. d[1] = e[1] /\ d[2].subjects = e[2].subjects
  BY DEF IdentifierOf
<1>2. d = <<d[1], d[2]>> /\ e = <<e[1], e[2]>>
  BY KindsAre
<1> SUFFICES d[2] = e[2]
  BY <1>1, <1>2
<1>3. CASE d[1] = "domain_ip_infrastructure"
  <2>1. PICK r \in OfKind(index, "resolves_to") : d[2] = Infrastructure(index, r)
    BY <1>3, KindsAre
  <2>2. PICK s \in OfKind(index, "resolves_to") : e[2] = Infrastructure(index, s)
    BY <1>1, <1>3, KindsAre
  <2>3. r.source = s.source /\ r.target = s.target
    <3>1. /\ r.source \in d[2].subjects /\ r.source[1] = "domain"
          /\ r.target \in d[2].subjects /\ r.target[1] = "ip"
      BY <2>1, InfrastructureSubjects
    <3>2. \A f \in e[2].subjects : /\ f[1] = "domain" => f = s.source
                                   /\ f[1] = "ip" => f = s.target
      BY <2>2, InfrastructureSubjects
    <3> QED BY <1>1, <3>1, <3>2
  <2>4. r = s
    BY <2>3 DEF OfKind, Sound, SameEdge
  <2> QED BY <2>1, <2>2, <2>4
<1>4. CASE d[1] = "multiple_sources"
  <2>1. PICK f : d[2] = MultipleSources(index, f)
    <3>1. \E f \in Subjects(index) : d[2] = MultipleSources(index, f)
      BY <1>4, KindsAre
    <3> QED BY <3>1
  <2>2. PICK g : e[2] = MultipleSources(index, g)
    <3>1. \E g \in Subjects(index) : e[2] = MultipleSources(index, g)
      BY <1>1, <1>4, KindsAre
    <3> QED BY <3>1
  <2>3. f = g
    <3>1. MultipleSources(index, f).subjects = {f} /\ MultipleSources(index, g).subjects = {g}
      BY MultipleSourcesIs
    <3>2. {f} = {g}
      BY ONLY <1>1, <2>1, <2>2, <3>1
    <3> QED BY ONLY <3>2
  <2> QED BY <2>1, <2>2, <2>3
<1>5. CASE d[1] = "source_disagreement"
  <2>1. PICK f : d[2] = SourceDisagreement(index, f)
    <3>1. \E f \in Subjects(index) : d[2] = SourceDisagreement(index, f)
      BY <1>5, KindsAre
    <3> QED BY <3>1
  <2>2. PICK g : e[2] = SourceDisagreement(index, g)
    <3>1. \E g \in Subjects(index) : e[2] = SourceDisagreement(index, g)
      BY <1>1, <1>5, KindsAre
    <3> QED BY <3>1
  <2>3. f = g
    <3>1. SourceDisagreement(index, f).subjects = {f} /\ SourceDisagreement(index, g).subjects = {g}
      BY SourceDisagreementIs
    <3>2. {f} = {g}
      BY ONLY <1>1, <2>1, <2>2, <3>1
    <3> QED BY ONLY <3>2
  <2> QED BY <2>1, <2>2, <2>3
<1>6. CASE d[1] = "shared_infrastructure"
  <2>1. d[2] \in SharedDrafts(index) /\ e[2] \in SharedDrafts(index)
    BY <1>1, <1>6, KindsAre
  <2> QED BY <1>1, <2>1, SharedAre, GroupsDiffer
<1>7. CASE d[1] = "domain_certificate"
  BY <1>1, <1>7, KindsAre
<1>8. CASE d[1] = "ct_dns_names"
  BY <1>1, <1>8, KindsAre
<1> QED BY <1>3, <1>4, <1>5, <1>6, <1>7, <1>8, KindsAre

LEMMA DraftsAreFinite ==
  ASSUME NEW index, Sound(index)
  PROVE  IsFiniteSet(Drafts(index))
<1> DEFINE R == OfKind(index, "resolves_to")
           E == Edges(index)
           C == KeptIn(index)
           S == Subjects(index)
           mem(l) == {m.source : m \in To(index, l.kind, l.target)}
           f1 == [r \in R |-> <<"domain_ip_infrastructure", Infrastructure(index, r)>>]
           f2 == [e \in S |-> <<"multiple_sources", MultipleSources(index, e)>>]
           f3 == [e \in S |-> <<"source_disagreement", SourceDisagreement(index, e)>>]
           f4 == [l \in E |-> <<"shared_infrastructure",
                                Group(l.target, mem(l), To(index, l.kind, l.target))>>]
           f5 == [c \in C |-> <<"shared_infrastructure",
                                Group(c, NamesIn(index, c), Listing(index, c))>>]
           two == {<<"domain_certificate", DomainCertificate(index)>>,
                   <<"ct_dns_names", CtDnsNames(index)>>}
<1>1. IsFiniteSet(E) /\ IsFiniteSet(R) /\ IsFiniteSet(C) /\ IsFiniteSet(S)
  <2>1. IsFiniteSet(E) /\ R \subseteq E
    BY DEF Sound, OfKind
  <2>2. IsFiniteSet(R)
    BY <2>1, FS_Subset
  <2>3. IsFiniteSet(C)
    BY KeptAre, ListingsAre, FS_Subset
  <2>4. IsFiniteSet(S)
    <3> DEFINE O == Observed(index)
               f == [o \in O |-> o.about]
    <3>1. f = [o \in O |-> f[o]] /\ \A o \in O : f[o] = o.about
      OBVIOUS
    <3>2. IsFiniteSet(O)
      BY DEF Sound
    <3> HIDE DEF f, O
    <3>3. IsFiniteSet({f[o] : o \in O})
      BY <3>1, <3>2, RangeIsFinite
    <3>4. S = {f[o] : o \in O}
      BY <3>1 DEF Subjects, O
    <3> QED BY <3>3, <3>4
  <2> QED BY <2>1, <2>2, <2>3, <2>4
<1>2. f1 = [r \in R |-> f1[r]] /\ f2 = [e \in S |-> f2[e]] /\ f3 = [e \in S |-> f3[e]]
      /\ f4 = [l \in E |-> f4[l]] /\ f5 = [c \in C |-> f5[c]]
  OBVIOUS
<1>3. ASSUME NEW d \in Drafts(index)
      PROVE  \/ \E r \in R : d = f1[r]
             \/ \E e \in S : d = f2[e] \/ d = f3[e]
             \/ \E l \in E : d = f4[l]
             \/ \E c \in C : d = f5[c]
             \/ d \in two
  <2>1. d = <<d[1], d[2]>>
    BY KindsAre
  <2>2. CASE d[1] = "shared_infrastructure" /\ d[2] \in SharedDrafts(index)
    <3>1. PICK kind, s, members, links :
            /\ d[2] = Group(s, members, links) /\ links # {} /\ links \subseteq E
            /\ \/ links = To(index, kind, s) /\ members = {l.source : l \in links}
               \/ /\ s \in C /\ links = Listing(index, s) /\ members = {l.target : l \in links}
      <4>1. IsGroup(index, d[2])
        BY <2>2, SharedAre
      <4> HIDE DEF f1, f2, f3, f4, f5, two
      <4> QED BY ONLY <4>1, ZenonT(40) DEF IsGroup
    <3>2. CASE links = To(index, kind, s) /\ members = {l.source : l \in links}
      <4>1. PICK l : l \in links
        BY <3>1
      <4>2. l \in E /\ l.kind = kind /\ l.target = s
        BY <3>1, <3>2, <4>1 DEF To, OfKind
      <4>3. members = mem(l) /\ links = To(index, l.kind, l.target)
        BY <3>2, <4>2
      <4>4. d = f4[l]
        BY <2>1, <2>2, <3>1, <4>2, <4>3
      <4> QED BY <4>2, <4>4
    <3>3. CASE s \in C /\ links = Listing(index, s) /\ members = {l.target : l \in links}
      <4>1. members = NamesIn(index, s)
        BY <3>3 DEF NamesIn
      <4>2. d = f5[s]
        BY <2>1, <2>2, <3>1, <3>3, <4>1
      <4> QED BY <3>3, <4>2
    <3> QED BY <3>1, <3>2, <3>3
  <2>3. CASE /\ d[1] = "domain_ip_infrastructure"
             /\ \E r \in R : HasContext(index, r) /\ d[2] = Infrastructure(index, r)
    <3>1. PICK r \in R : d[2] = Infrastructure(index, r)
      BY <2>3
    <3>2. d = f1[r]
      BY <2>1, <2>3, <3>1
    <3> QED BY <3>2
  <2>4. CASE d[1] = "multiple_sources" /\ \E e \in S : d[2] = MultipleSources(index, e)
    <3>1. PICK e \in S : d[2] = MultipleSources(index, e)
      BY <2>4
    <3>2. d = f2[e]
      BY <2>1, <2>4, <3>1
    <3> QED BY <3>2
  <2>5. CASE d[1] = "source_disagreement" /\ \E e \in S : d[2] = SourceDisagreement(index, e)
    <3>1. PICK e \in S : d[2] = SourceDisagreement(index, e)
      BY <2>5
    <3>2. d = f3[e]
      BY <2>1, <2>5, <3>1
    <3> QED BY <3>2
  <2>6. CASE \/ d[1] = "domain_certificate" /\ d[2] = DomainCertificate(index)
             \/ d[1] = "ct_dns_names" /\ d[2] = CtDnsNames(index)
    <3>1. d \in two
      BY <2>1, <2>6
    <3> QED BY <3>1
  <2> HIDE DEF f1, f2, f3, f4, f5, two, R, S, E, C
  <2>7. \/ d[1] = "shared_infrastructure" /\ d[2] \in SharedDrafts(index)
        \/ /\ d[1] = "domain_ip_infrastructure"
           /\ \E r \in R : HasContext(index, r) /\ d[2] = Infrastructure(index, r)
        \/ d[1] = "multiple_sources" /\ \E e \in S : d[2] = MultipleSources(index, e)
        \/ d[1] = "source_disagreement" /\ \E e \in S : d[2] = SourceDisagreement(index, e)
        \/ d[1] = "domain_certificate" /\ d[2] = DomainCertificate(index)
        \/ d[1] = "ct_dns_names" /\ d[2] = CtDnsNames(index)
    BY KindsAre DEF R, S
  <2> QED BY ONLY <2>2, <2>3, <2>4, <2>5, <2>6, <2>7
<1> DEFINE r1 == {f1[r] : r \in R}
           r2 == {f2[e] : e \in S}
           r3 == {f3[e] : e \in S}
           r4 == {f4[l] : l \in E}
           r5 == {f5[c] : c \in C}
<1> HIDE DEF f1, f2, f3, f4, f5, R, S, E, C
<1>4. /\ IsFiniteSet(r1) /\ IsFiniteSet(r2) /\ IsFiniteSet(r3)
      /\ IsFiniteSet(r4) /\ IsFiniteSet(r5)
  BY <1>1, <1>2, RangeIsFinite
<1>5. IsFiniteSet(two)
  <2> DEFINE a == <<"domain_certificate", DomainCertificate(index)>>
             b == <<"ct_dns_names", CtDnsNames(index)>>
  <2> HIDE DEF a, b
  <2>1. IsFiniteSet({a}) /\ IsFiniteSet({b})
    BY FS_Singleton
  <2>2. IsFiniteSet({a} \cup {b}) /\ two = {a} \cup {b}
    BY <2>1, FS_Union DEF a, b
  <2> QED BY <2>2
<1>6. Drafts(index) \subseteq r1 \cup r2 \cup r3 \cup r4 \cup r5 \cup two
  <2> HIDE DEF two
  <2> QED BY <1>3
<1> HIDE DEF r1, r2, r3, r4, r5, two
<1>7. IsFiniteSet(r1 \cup r2 \cup r3 \cup r4 \cup r5 \cup two)
  <2>1. IsFiniteSet(r1 \cup r2)
    BY <1>4, FS_Union
  <2>2. IsFiniteSet((r1 \cup r2) \cup r3)
    BY <1>4, <2>1, FS_Union
  <2>3. IsFiniteSet(((r1 \cup r2) \cup r3) \cup r4)
    BY <1>4, <2>2, FS_Union
  <2>4. IsFiniteSet((((r1 \cup r2) \cup r3) \cup r4) \cup r5)
    BY <1>4, <2>3, FS_Union
  <2>5. IsFiniteSet(((((r1 \cup r2) \cup r3) \cup r4) \cup r5) \cup two)
    BY <1>5, <2>4, FS_Union
  <2> QED BY <2>5
<1> QED BY <1>6, <1>7, FS_Subset

(* Each draft has a correlation of its own. *)
LEMMA NoneIsTakenForAnother ==
  ASSUME NEW index, Sound(index)
  PROVE  Cardinality(Correlate(index).correlations) = Cardinality(Drafts(index))
<1> DEFINE all == Correlate(index).correlations
           D == Drafts(index)
           f == [d \in D |-> CHOOSE c \in all : c.id = IdentifierOf(d)]
<1>1. /\ \A c \in all : \E d \in D : c.id = IdentifierOf(d)
      /\ \A d \in D : \E c \in all : c.id = IdentifierOf(d)
      /\ \A b, c \in all : b.id = c.id => b = c
  BY CorrelationsAre, AllAreBacked DEF IsBuiltFrom
<1>2. \A d, e \in D : IdentifierOf(d) = IdentifierOf(e) => d = e
  BY IdentifiersDiffer
<1>3. IsFiniteSet(D)
  BY DraftsAreFinite
<1> HIDE DEF all, D
<1>4. \A d \in D : f[d] \in all /\ f[d].id = IdentifierOf(d)
  BY <1>1
<1>5. f \in [D -> all]
  BY <1>4
<1> HIDE DEF f
<1>6. f \in Surjection(D, all)
  <2>1. \A c \in all : \E d \in D : f[d] = c
    BY <1>1, <1>4
  <2> QED BY <1>5, <2>1 DEF Surjection
<1>7. f \in Injection(D, all)
  <2>1. \A d, e \in D : f[d] = f[e] => d = e
    BY <1>2, <1>4
  <2> QED BY <1>5, <2>1 DEF Injection, IsInjective
<1>8. Cardinality(all) = Cardinality(D)
  BY <1>3, <1>6, <1>7, FS_Surjection
<1> QED BY <1>8 DEF all, D

-----------------------------------------------------------------------------
(* What the report says *)

LEMMA LimitationsAre ==
  ASSUME NEW index, Sound(index)
  PROVE  /\ "rejected" \notin Correlate(index).limitations
         /\ Cardinality(ListingSeveral(index)) > MaxGroups
              => "groups" \in Correlate(index).limitations
<1> DEFINE groups == When(Cardinality(ListingSeveral(index)) > MaxGroups, {"groups"})
           duplicates == When(index.duplicates, {"duplicates"})
           rejected == When(Backed(index) # Drafts(index), {"rejected"})
<1>1. Correlate(index).limitations = groups \cup duplicates \cup rejected
  BY DEF Correlate, Backed
<1>2. rejected = {}
  BY AllAreBacked DEF When
<1>3. groups \subseteq {"groups"} /\ duplicates \subseteq {"duplicates"}
  BY DEF When
<1>4. Cardinality(ListingSeveral(index)) > MaxGroups => groups = {"groups"}
  BY DEF When
<1> HIDE DEF groups, duplicates, rejected
<1> QED BY <1>1, <1>2, <1>3, <1>4

(* Each correlation is built from a draft, and each draft is built.        *)
LEMMA ReportIs ==
  ASSUME CorrelationInvariant, Done
  PROVE  /\ Sound(Index) /\ report = Correlate(Index)
         /\ \A c \in report.correlations : \E d \in Drafts(Index) :
              /\ IsBuiltFrom(c, d) /\ c.id[1] = d[1]
              /\ c.content.subjects = d[2].subjects /\ c.content.links = d[2].links
              /\ c.content.gaps = d[2].gaps
              /\ "links" \in c.content.limitations <=> "links" \in d[2].limitations
         /\ \A d \in Drafts(Index) : \E c \in report.correlations :
              c.id[1] = d[1] /\ c.content.subjects = d[2].subjects
<1>1. Sound(Index) /\ report = Correlate(Index)
  BY InvestigationIsSound DEF CorrelationInvariant, Index
<1>2. Backed(Index) = Drafts(Index)
  BY <1>1, AllAreBacked
<1>3. /\ \A c \in report.correlations : \E d \in Drafts(Index) : IsBuiltFrom(c, d)
      /\ \A d \in Drafts(Index) : \E c \in report.correlations : c.id = IdentifierOf(d)
  BY <1>1, <1>2, CorrelationsAre
<1>4. ASSUME NEW c, NEW d, IsBuiltFrom(c, d)
      PROVE  /\ c.id[1] = d[1] /\ c.id[2] = d[2].subjects
             /\ c.content.subjects = d[2].subjects /\ c.content.links = d[2].links
             /\ c.content.gaps = d[2].gaps
             /\ "links" \in c.content.limitations <=> "links" \in d[2].limitations
  <2>1. c.id = <<d[1], d[2].subjects, EvidenceOf(d[2])>>
    BY <1>4 DEF IsBuiltFrom, IdentifierOf
  <2>2. {"subjects", "links", "gaps"} \subseteq Fields \ {"limitations"}
    BY DEF Fields
  <2>3. \A field \in Fields \ {"limitations"} : c.content[field] = d[2][field]
    BY <1>4 DEF IsBuiltFrom
  <2>4. "links" \in c.content.limitations <=> "links" \in d[2].limitations
    BY <1>4 DEF IsBuiltFrom, LimitationsOf
  <2> QED BY <2>1, <2>2, <2>3, <2>4
<1>5. ASSUME NEW d \in Drafts(Index)
      PROVE  \E c \in report.correlations :
               c.id[1] = d[1] /\ c.content.subjects = d[2].subjects
  <2>1. PICK c \in report.correlations : c.id = IdentifierOf(d)
    BY <1>3
  <2>2. c.id[1] = d[1] /\ c.id[2] = d[2].subjects
    BY <2>1 DEF IdentifierOf
  <2>3. PICK b : IsBuiltFrom(c, b)
    BY <1>3
  <2> QED BY <1>4, <2>2, <2>3
<1>6. ASSUME NEW c \in report.correlations
      PROVE  \E d \in Drafts(Index) :
               /\ IsBuiltFrom(c, d) /\ c.id[1] = d[1]
               /\ c.content.subjects = d[2].subjects /\ c.content.links = d[2].links
               /\ c.content.gaps = d[2].gaps
               /\ "links" \in c.content.limitations <=> "links" \in d[2].limitations
  <2>1. PICK d \in Drafts(Index) : IsBuiltFrom(c, d)
    BY <1>3
  <2> QED BY <1>4, <2>1
<1> QED BY <1>1, <1>5, <1>6

LEMMA GroupsAreLargestHolds ==
  ASSUME CorrelationInvariant, Done
  PROVE  GroupsAreLargest
<1> DEFINE index == Index
           groups == OfType("shared_infrastructure")
           about(c) == {g \in groups : c \in g.content.subjects}
<1>1. /\ Sound(index) /\ report = Correlate(index)
      /\ \A c \in report.correlations : \E d \in Drafts(index) :
           c.id[1] = d[1] /\ c.content.subjects = d[2].subjects
      /\ \A d \in Drafts(index) : \E c \in report.correlations :
           c.id[1] = d[1] /\ c.content.subjects = d[2].subjects
  BY ReportIs
<1> HIDE DEF index
<1>2. ASSUME NEW c \in KeptIn(index) PROVE about(c) # {}
  <2> DEFINE draft == Group(c, NamesIn(index, c), Listing(index, c))
             d == <<"shared_infrastructure", draft>>
  <2>1. d \in Drafts(index)
    BY <1>1, SharedAre DEF Drafts
  <2>2. c \in draft.subjects
    BY GroupIs
  <2>3. d[1] = "shared_infrastructure" /\ d[2] = draft
    OBVIOUS
  <2> HIDE DEF d, draft
  <2>4. PICK g \in report.correlations : g.id[1] = d[1] /\ g.content.subjects = d[2].subjects
    BY <1>1, <2>1
  <2>5. g \in about(c)
    BY <2>2, <2>3, <2>4 DEF OfType
  <2> QED BY <2>5
<1>3. ASSUME NEW c \in ListingSeveral(index), about(c) # {} PROVE c \in KeptIn(index)
  <2>1. PICK g \in report.correlations : /\ g.id[1] = "shared_infrastructure"
                                         /\ c \in g.content.subjects
    BY <1>3 DEF OfType
  <2>2. PICK d \in Drafts(index) : d[1] = "shared_infrastructure" /\ c \in d[2].subjects
    BY <1>1, <2>1
  <2>3. d[2] \in SharedDrafts(index)
    BY <2>2, KindsAre
  <2>4. IsGroup(index, d[2])
    BY <1>1, <2>3, SharedAre
  <2>5. c[1] = "cert"
    BY <1>1, ListingsAre
  <2>6. PICK kind, s, members, links :
          /\ d[2] = Group(s, members, links)
          /\ \/ /\ kind \in {"announced_by", "registered_in", "resolves_to"}
                /\ s[1] = Allows[kind][2] /\ \A m \in members : m[1] = Allows[kind][1]
             \/ s \in KeptIn(index) /\ \A m \in members : m[1] = "domain"
    BY ONLY <2>4, ZenonT(40) DEF IsGroup
  <2>7. d[2].subjects = {s} \cup members
    BY <2>6, GroupIs
  <2>8. \A k \in {"announced_by", "registered_in", "resolves_to"} :
          Allows[k][1] # "cert" /\ Allows[k][2] # "cert"
    BY DEF Allows
  <2> QED BY <2>2, <2>5, <2>6, <2>7, <2>8
<1> SUFFICES ASSUME NEW c \in ListingSeveral(index), about(c) = {}
             PROVE  /\ "groups" \in report.limitations
                    /\ \A other \in ListingSeveral(index) : about(other) # {} =>
                         Cardinality(NamesIn(index, other)) >= Cardinality(NamesIn(index, c))
  BY DEF GroupsAreLargest, index
<1>4. c \in ListingSeveral(index) \ KeptIn(index)
  BY <1>2
<1>5. "groups" \in report.limitations
  BY <1>1, <1>4, KeptAre, LimitationsAre
<1>6. ASSUME NEW other \in ListingSeveral(index), about(other) # {}
      PROVE  Cardinality(NamesIn(index, other)) >= Cardinality(NamesIn(index, c))
  <2>1. other \in KeptIn(index)
    BY <1>3, <1>6
  <2>2. Size(index, other) >= Size(index, c)
    BY <1>1, <1>4, <2>1, KeptAre
  <2> QED BY <2>2 DEF Size
<1> QED BY <1>5, <1>6

(* A correlation of certificates has all those of its names just when it   *)
(* does not say that some are left out.                                    *)
LEMMA LinksAreToldHolds ==
  ASSUME CorrelationInvariant, Done
  PROVE  LinksAreTold
<1> DEFINE index == Index
<1>1. /\ Sound(index)
      /\ \A c \in report.correlations : \E d \in Drafts(index) :
           /\ c.id[1] = d[1]
           /\ c.content.subjects = d[2].subjects /\ c.content.links = d[2].links
           /\ "links" \in c.content.limitations <=> "links" \in d[2].limitations
  BY ReportIs
<1> HIDE DEF index
<1>2. ASSUME NEW c \in OfType("domain_certificate")
      PROVE  "links" \notin c.content.limitations
               <=> CoversOf(index, Target) \subseteq c.content.links
  <2>1. c \in report.correlations /\ c.id[1] = "domain_certificate"
    BY DEF OfType
  <2>2. PICK d \in Drafts(index) :
          /\ c.id[1] = d[1] /\ c.content.links = d[2].links
          /\ "links" \in c.content.limitations <=> "links" \in d[2].limitations
    BY <1>1, <2>1
  <2>3. d[2] = DomainCertificate(index) /\ CoversOf(index, Target) # {}
    BY <2>1, <2>2, KindsAre
  <2>4. "links" \notin d[2].limitations <=> CoversOf(index, Target) \subseteq d[2].links
    BY <1>1, <2>3, DomainCertificateIs
  <2> QED BY <2>2, <2>4
<1>3. ASSUME NEW c \in OfType("ct_dns_names")
      PROVE  "links" \notin c.content.limitations
               <=> \A name \in c.content.subjects : CoversOf(index, name) \subseteq c.content.links
  <2>1. c \in report.correlations /\ c.id[1] = "ct_dns_names"
    BY DEF OfType
  <2>2. PICK d \in Drafts(index) :
          /\ c.id[1] = d[1]
          /\ c.content.subjects = d[2].subjects /\ c.content.links = d[2].links
          /\ "links" \in c.content.limitations <=> "links" \in d[2].limitations
    BY <1>1, <2>1
  <2>3. d[2] = CtDnsNames(index) /\ \E name \in CtNames(index) : InDns(index, name)
    BY <2>1, <2>2, KindsAre
  <2>4. "links" \notin d[2].limitations
          <=> \A name \in d[2].subjects : CoversOf(index, name) \subseteq d[2].links
    BY <1>1, <2>3, CtDnsNamesIs
  <2> QED BY <2>2, <2>4
<1> QED BY <1>2, <1>3 DEF LinksAreTold, index

(* The sources that did not succeed are those that are recorded so.        *)
Failed(s, entity) == s.about = entity /\ s.outcome # "succeeded"

LEMMA UnsuccessfulIs ==
  ASSUME NEW index, NEW S, index.sources \in Seq(S), NEW entity
  PROVE  Items(Unsuccessful(index, entity)) =
           {<<s.source, s.outcome>> : s \in {x \in Items(index.sources) : Failed(x, entity)}}
<1> DEFINE list == index.sources
           n == Len(list)
           V == Seq({<<s.source, s.outcome>> : s \in S})
           Put(said, s) == IF s.about = entity /\ s.outcome # "succeeded"
                           THEN Append(said, <<s.source, s.outcome>>) ELSE said
           step == [i \in 1..n |-> [said \in V |-> Put(said, list[i])]]
           IsFold(f) ==
             f = [s \in SUBSET (1..n) |->
                    IF s = {} THEN <<>> ELSE Put(f[s \ {Max(s)}], list[Max(s)])]
<1>1. n \in Nat /\ DOMAIN list = 1..n /\ \A i \in 1..n : list[i] \in S
  BY LenProperties, ElementOfSeq
<1>2. ASSUME NEW i \in 1..n, NEW said \in V
      PROVE  /\ Put(said, list[i]) \in V
             /\ Items(Put(said, list[i])) =
                  Items(said) \cup {<<s.source, s.outcome>> :
                                     s \in {x \in {list[i]} : Failed(x, entity)}}
  <2> DEFINE s == list[i]
             pair == <<s.source, s.outcome>>
  <2>1. pair \in {<<x.source, x.outcome>> : x \in S}
    BY <1>1
  <2> DEFINE P == {<<x.source, x.outcome>> : x \in S}
  <2>2. Append(said, pair) \in V /\ Items(Append(said, pair)) = Items(said) \cup {pair}
    <3>1. pair \in P /\ said \in Seq(P)
      BY <2>1
    <3> HIDE DEF P, pair
    <3> QED BY <3>1, ItemsOfAppend DEF P
  <2>3. {<<x.source, x.outcome>> : x \in {y \in {s} : Failed(y, entity)}}
          = IF Failed(s, entity) THEN {pair} ELSE {}
    OBVIOUS
  <2> HIDE DEF s, pair, V
  <2> QED BY <2>2, <2>3 DEF Failed, s, pair
<1>3. step \in [1..n -> [V -> V]] /\ <<>> \in V
  <2>1. <<>> \in V
    OBVIOUS
  <2> HIDE DEF Put, V, n
  <2> QED BY <1>2, <2>1
<1> HIDE DEF n, V, list
<1>4. PICK f \in [SUBSET (1..n) -> V] : IsFolded(f, n, V, <<>>, step)
  <2> HIDE DEF step
  <2> QED BY <1>1, <1>3, FoldExists
<1>5. IsFold(f)
  <2>1. ASSUME NEW s \in SUBSET (1..n), s # {}
        PROVE  f[s] = Put(f[s \ {Max(s)}], list[Max(s)])
    <3> HIDE DEF Put
    <3> QED BY <1>4, <2>1 DEF IsFolded
  <2> HIDE DEF Put
  <2> QED BY <1>4, <2>1 DEF IsFolded
<1> DEFINE iter == CHOOSE h : IsFold(h)
<1>6. IsFold(iter)
  <2> HIDE DEF IsFold
  <2> QED BY <1>5
<1>7. Unsuccessful(index, entity) = iter[1..n]
  BY <1>1 DEF Unsuccessful, FoldLeft, MapThenFoldSet, list
<1> HIDE DEF iter
<1>8. iter[{}] = <<>>
      /\ \A i \in 1..n : iter[1..i] = Put(iter[1..(i - 1)], list[i])
  <2> HIDE DEF Put
  <2>1. iter[{}] = <<>>
    BY <1>6
  <2>2. ASSUME NEW i \in 1..n
        PROVE  iter[1..i] = Put(iter[1..(i - 1)], list[i])
    <3>1. /\ 1..i \in SUBSET (1..n) /\ 1..i # {}
          /\ Max(1..i) = i /\ (1..i) \ {i} = 1..(i - 1)
      BY <1>1, InitialSegments
    <3> DEFINE s == 1..i
    <3>2. iter[s] = Put(iter[s \ {Max(s)}], list[Max(s)])
      <4>1. s \in SUBSET (1..n) /\ s # {}
        BY <3>1
      <4> HIDE DEF s
      <4> QED BY <1>6, <4>1
    <3> QED BY <3>1, <3>2
  <2> QED BY <2>1, <2>2
<1> DEFINE past(i) == {list[k] : k \in 1..i}
           pairs(some) == {<<s.source, s.outcome>> : s \in {x \in some : Failed(x, entity)}}
           T == {i \in 0..n : iter[1..i] \in V /\ Items(iter[1..i]) = pairs(past(i))}
<1>9. 0 \in T
  <2>1. past(0) = {} /\ Items(<<>>) = {} /\ 0 \in 0..n
    BY <1>1 DEF Items
  <2> QED BY <1>3, <1>8, <2>1, InitialSegments
<1>10. ASSUME NEW i \in 1..n, i - 1 \in T PROVE i \in T
  <2> DEFINE was == iter[1..(i - 1)]
  <2>1. was \in V /\ Items(was) = pairs(past(i - 1)) /\ i \in 0..n
    BY <1>1, <1>10
  <2>2. past(i) = past(i - 1) \cup {list[i]}
    <3>1. 1..i = 1..(i - 1) \cup {i}
      BY <1>1
    <3> QED BY <3>1
  <2>3. iter[1..i] = Put(was, list[i])
    BY <1>8
  <2> HIDE DEF past, was, Put
  <2>4. iter[1..i] \in V /\ Items(iter[1..i]) = Items(was) \cup pairs({list[i]})
    BY <1>2, <2>1, <2>3
  <2>5. pairs(past(i)) = pairs(past(i - 1)) \cup pairs({list[i]})
    BY <2>2
  <2> HIDE DEF pairs
  <2> QED BY <2>1, <2>4, <2>5
<1>11. n \in T
  <2> HIDE DEF T
  <2>1. \A i \in 0..n : i \in T
    BY <1>1, <1>9, <1>10, UpTo
  <2> QED BY <1>1, <2>1
<1>12. past(n) = Items(list)
  BY <1>1 DEF Items
<1> HIDE DEF past
<1> QED BY <1>7, <1>11, <1>12 DEF list


(* An address of a finished report has a gap for each kind of context that *)
(* no completed run has related, with the reasons of those that failed.    *)
LEMMA GapsAreExplainedHolds ==
  ASSUME CorrelationInvariant, Done
  PROVE  GapsAreExplained
<1> DEFINE index == Index
           Kinds == {"announced_by", "registered_in"}
           Related(kind, ip) ==
             \E run \in completed : \E r \in Items(run.relationships) :
               r.kind = kind /\ r.source = ip
           Reasons(ip) ==
             {<<run.source, run.outcome>> :
                run \in {one \in completed : one.about = ip /\ one.outcome # "succeeded"}}
<1>1. /\ Sound(index)
      /\ \A c \in report.correlations : \E d \in Drafts(index) :
           /\ c.id[1] = d[1]
           /\ c.content.subjects = d[2].subjects /\ c.content.gaps = d[2].gaps
  BY ReportIs
<1>2. \A ip : Items(Unsuccessful(index, ip)) = Reasons(ip)
  <2> SUFFICES ASSUME NEW ip PROVE Items(Unsuccessful(index, ip)) = Reasons(ip)
    OBVIOUS
  <2>1. /\ index.sources = investigation.sources
        /\ investigation.sources \in Seq(Items(investigation.sources))
        /\ Items(investigation.sources) = {Said(run) : run \in completed}
    BY EverythingIsIndexed
  <2> HIDE DEF index
  <2>2. Items(Unsuccessful(index, ip)) =
          {<<s.source, s.outcome>> : s \in {x \in {Said(run) : run \in completed} : Failed(x, ip)}}
    BY <2>1, UnsuccessfulIs
  <2>3. \A run : /\ Failed(Said(run), ip) <=> run.about = ip /\ run.outcome # "succeeded"
                 /\ Said(run).source = run.source /\ Said(run).outcome = run.outcome
    BY DEF Said, Failed
  <2> QED BY <2>2, <2>3
<1>3. \A kind, ip : From(index, kind, ip) # {} <=> Related(kind, ip)
  BY EdgesAreRelated
<1> HIDE DEF index, Related, Reasons
<1> SUFFICES ASSUME NEW c \in OfType("domain_ip_infrastructure"),
                    NEW ip \in {e \in c.content.subjects : e[1] = "ip"}
             PROVE  PlainGaps(c) =
                      {<<kind, ip, Reasons(ip)>> : kind \in {k \in Kinds : ~Related(k, ip)}}
  BY DEF GapsAreExplained, Related, Reasons
<1>4. c \in report.correlations /\ c.id[1] = "domain_ip_infrastructure"
  BY DEF OfType
<1>5. PICK d \in Drafts(index) : /\ c.id[1] = d[1]
                                 /\ c.content.subjects = d[2].subjects
                                 /\ c.content.gaps = d[2].gaps
  BY <1>1, <1>4
<1>6. PICK r \in OfKind(index, "resolves_to") : d[2] = Infrastructure(index, r)
  <2>1. d[1] = "domain_ip_infrastructure"
    BY <1>4, <1>5
  <2> QED BY <2>1, KindsAre
<1>7. r.target = ip
  BY <1>1, <1>5, <1>6, InfrastructureSubjects
<1> DEFINE said == Unsuccessful(index, ip)
           none(kind) == When(From(index, kind, ip) = {}, {<<kind, ip, said>>})
<1>8. c.content.gaps = none("announced_by") \cup none("registered_in")
  <2>1. Infrastructure(index, r).gaps = none("announced_by") \cup none("registered_in")
    <3>1. LET where == r.target IN
          Infrastructure(index, r).gaps =
            When(From(index, "announced_by", where) = {},
                 {<<"announced_by", where, Unsuccessful(index, where)>>})
              \cup When(From(index, "registered_in", where) = {},
                       {<<"registered_in", where, Unsuccessful(index, where)>>})
      BY InfrastructureIs
    <3> QED BY <1>7, <3>1, Zenon
  <2> QED BY <1>5, <1>6, <2>1
<1> HIDE DEF said
<1>9. \A gap : gap \in c.content.gaps <=>
        \E kind \in Kinds : ~Related(kind, ip) /\ gap = <<kind, ip, said>>
  BY <1>3, <1>8 DEF When
<1>10. \A kind : /\ <<kind, ip, said>>[1] = kind /\ <<kind, ip, said>>[2] = ip
                 /\ <<kind, ip, said>>[3] = said
  OBVIOUS
<1>11. PlainGaps(c) = {<<gap[1], gap[2], Items(gap[3])>> : gap \in c.content.gaps}
  BY DEF PlainGaps
<1>12. Items(said) = Reasons(ip)
  BY <1>2 DEF said
<1> DEFINE plain == {<<gap[1], gap[2], Items(gap[3])>> : gap \in c.content.gaps}
           told == {<<kind, ip, Reasons(ip)>> : kind \in {k \in Kinds : ~Related(k, ip)}}
<1> HIDE DEF Kinds, none
<1>13. plain \subseteq told
  <2> SUFFICES ASSUME NEW gap \in c.content.gaps
               PROVE  <<gap[1], gap[2], Items(gap[3])>> \in told
    OBVIOUS
  <2>1. PICK kind \in Kinds : ~Related(kind, ip) /\ gap = <<kind, ip, said>>
    BY <1>9
  <2>2. gap[1] = kind /\ gap[2] = ip /\ gap[3] = said
    BY <1>10, <2>1
  <2> QED BY <1>12, <2>1, <2>2
<1>14. told \subseteq plain
  <2> SUFFICES ASSUME NEW kind \in Kinds, ~Related(kind, ip)
               PROVE  <<kind, ip, Reasons(ip)>> \in plain
    OBVIOUS
  <2> DEFINE gap == <<kind, ip, said>>
  <2>1. gap \in c.content.gaps
    BY <1>9
  <2>2. gap[1] = kind /\ gap[2] = ip /\ Items(gap[3]) = Reasons(ip)
    BY <1>10, <1>12
  <2> HIDE DEF gap
  <2> QED BY <2>1, <2>2
<1> QED BY <1>11, <1>13, <1>14

(* A finished report leaves nothing out without a word: no draft is        *)
(* rejected or taken for another, it says when certificates of a name or   *)
(* groups are cut off, and groups that are left out are no larger than     *)
(* those that are kept; and an address has a gap just for the context that *)
(* no completed run has related, with the reasons of those that failed.    *)
THEOREM NothingIsLost == Spec => []NothingIsLostUnsaid
<1>1. ASSUME CorrelationInvariant, Done
      PROVE  /\ "rejected" \notin report.limitations
             /\ Cardinality(report.correlations) = Cardinality(Drafts(Index))
  <2>1. Sound(Index) /\ report = Correlate(Index)
    BY <1>1, ReportIs
  <2> QED BY <2>1, LimitationsAre, NoneIsTakenForAnother
<1>2. CorrelationInvariant => NothingIsLostUnsaid
  BY <1>1, GroupsAreLargestHolds, LinksAreToldHolds, GapsAreExplainedHolds
     DEF NothingIsLostUnsaid
<1> QED BY <1>2, CorrelationInit, CorrelationStep, PTL DEF Spec

-----------------------------------------------------------------------------
(* The order of what is recorded *)

(* Two indexes that differ at most in the order of what the sources said.  *)
Alike(i, j) ==
  /\ Observed(i) = Observed(j) /\ Edges(i) = Edges(j) /\ i.duplicates = j.duplicates
  /\ \A e : Items(Unsuccessful(i, e)) = Items(Unsuccessful(j, e))

LEMMA AlikeSelections ==
  ASSUME NEW i, NEW j, Alike(i, j)
  PROVE  /\ IDs(i) = IDs(j) /\ Subjects(i) = Subjects(j)
         /\ \A e : About(i, e) = About(j, e) /\ RecordsOf(i, e) = RecordsOf(j, e)
                   /\ Addresses(i, e) = Addresses(j, e)
         /\ \A k : OfKind(i, k) = OfKind(j, k)
         /\ \A k, e : From(i, k, e) = From(j, k, e) /\ To(i, k, e) = To(j, k, e)
<1>1. Observed(i) = Observed(j) /\ Edges(i) = Edges(j)
  BY DEF Alike
<1>2. IDs(i) = IDs(j) /\ Subjects(i) = Subjects(j)
  BY <1>1 DEF IDs, Subjects
<1>3. \A e : About(i, e) = About(j, e)
  BY <1>1 DEF About
<1>4. \A e : RecordsOf(i, e) = RecordsOf(j, e)
  BY <1>1 DEF RecordsOf
<1>5. \A e : Addresses(i, e) = Addresses(j, e)
  BY <1>4 DEF Addresses
<1>6. \A k : OfKind(i, k) = OfKind(j, k)
  BY <1>1 DEF OfKind
<1>7. \A k, e : From(i, k, e) = From(j, k, e)
  BY <1>6 DEF From
<1>8. \A k, e : To(i, k, e) = To(j, k, e)
  BY <1>6 DEF To
<1> QED BY <1>2, <1>3, <1>4, <1>5, <1>6, <1>7, <1>8

LEMMA AlikeClaims ==
  ASSUME NEW i, NEW j, Alike(i, j)
  PROVE  ProviderDrafts(i) = ProviderDrafts(j)
<1>1. Subjects(i) = Subjects(j) /\ \A e : About(i, e) = About(j, e)
  BY AlikeSelections
<1>2. \A e : ClaimsAbout(i, e) = ClaimsAbout(j, e)
  BY <1>1 DEF ClaimsAbout
<1>3. ASSUME NEW e PROVE MultipleSources(i, e) = MultipleSources(j, e)
  <2>1. ClaimsAbout(i, e) = ClaimsAbout(j, e)
    BY <1>2
  <2> QED BY <2>1 DEF MultipleSources
<1>4. ASSUME NEW e PROVE SourceDisagreement(i, e) = SourceDisagreement(j, e)
  <2>1. ClaimsAbout(i, e) = ClaimsAbout(j, e)
    BY <1>2
  <2> DEFINE F(claims) ==
        [Draft EXCEPT
          !.subjects = {e},
          !.claims = {claim \in claims :
                        claim.observation \in UNION {c.evidence : c \in ProviderConflicts(claims)}},
          !.conflicts = ProviderConflicts(claims),
          !.limitations = {"own classifications", "not resolved"}]
  <2>2. \A index : SourceDisagreement(index, e) = F(ClaimsAbout(index, e))
    BY DEF SourceDisagreement
  <2> HIDE DEF F
  <2> QED BY <2>1, <2>2
<1> DEFINE Several2(index) == {f \in Subjects(index) : Cardinality(Providers(ClaimsAbout(index, f))) >= 2}
           Disagree(index) == {f \in Subjects(index) : ProviderConflicts(ClaimsAbout(index, f)) # {}}
           Multiple(index) == {<<"multiple_sources", MultipleSources(index, e)>> : e \in Several2(index)}
           Opposite(index) == {<<"source_disagreement", SourceDisagreement(index, e)>> : e \in Disagree(index)}
<1>5. Several2(i) = Several2(j)
  BY <1>1, <1>2
<1>6. Disagree(i) = Disagree(j)
  BY <1>1, <1>2
<1>7. \A index : ProviderDrafts(index) = Multiple(index) \cup Opposite(index)
  BY DEF ProviderDrafts
<1> HIDE DEF Several2, Disagree
<1>8. Multiple(i) = Multiple(j) /\ Opposite(i) = Opposite(j)
  BY <1>3, <1>4, <1>5, <1>6
<1> HIDE DEF Multiple, Opposite
<1> QED BY <1>7, <1>8

LEMMA AlikeNames ==
  ASSUME NEW i, NEW j, Alike(i, j)
  PROVE  /\ \A e : CoversOf(i, e) = CoversOf(j, e) /\ FirstLinks(i, e) = FirstLinks(j, e)
                   /\ (InDns(i, e) <=> InDns(j, e))
         /\ CtNames(i) = CtNames(j)
<1>1. /\ \A k : OfKind(i, k) = OfKind(j, k)
      /\ \A k, e : From(i, k, e) = From(j, k, e) /\ To(i, k, e) = To(j, k, e)
      /\ \A e : RecordsOf(i, e) = RecordsOf(j, e)
  BY AlikeSelections
<1>2. \A e : CoversOf(i, e) = CoversOf(j, e)
  BY <1>1 DEF CoversOf
<1>3. UNION {OfKind(i, kind) : kind \in Covering} = UNION {OfKind(j, kind) : kind \in Covering}
  BY <1>1
<1>4. CtNames(i) = CtNames(j)
  BY <1>3 DEF CtNames
<1>5. CoveringEdges(i) = CoveringEdges(j)
  <2> DEFINE before(a, b) == \/ a.kind = "covers_name" /\ b.kind = "covers_wildcard"
                             \/ a.kind = b.kind /\ a.source[2] < b.source[2]
                             \/ a.kind = b.kind /\ a.source = b.source /\ a.target # b.target
                                  /\ Rank[a.target[2]] < Rank[b.target[2]]
             below(S) == [x \in S |-> {y \in S : before(y, x)}]
             order(S) == [k \in 1..Cardinality(S) |->
                            CHOOSE x \in S : Cardinality(below(S)[x]) = k - 1]
  <2>1. \A index : CoveringEdges(index) = order(UNION {OfKind(index, kind) : kind \in Covering})
    BY DEF CoveringEdges, Sorted
  <2> HIDE DEF order
  <2> QED BY <1>3, <2>1
<1>6. ASSUME NEW e PROVE FirstLinks(i, e) = FirstLinks(j, e)
  <2> DEFINE F(edges) ==
        {edges[k] : k \in {l \in DOMAIN edges :
                             /\ edges[l].target = e
                             /\ Cardinality({m \in 1..l : edges[m].target = e}) <= LinksPerName}}
  <2>1. \A index : FirstLinks(index, e) = F(CoveringEdges(index))
    BY DEF FirstLinks
  <2> HIDE DEF F
  <2> QED BY <1>5, <2>1
<1>7. \A e : InDns(i, e) <=> InDns(j, e)
  BY <1>1 DEF InDns
<1> QED BY <1>2, <1>4, <1>6, <1>7

LEMMA AlikeCertificates ==
  ASSUME NEW i, NEW j, Alike(i, j)
  PROVE  CertificateDrafts(i) = CertificateDrafts(j)
<1>1. /\ \A e : /\ CoversOf(i, e) = CoversOf(j, e) /\ FirstLinks(i, e) = FirstLinks(j, e)
                /\ InDns(i, e) <=> InDns(j, e)
      /\ CtNames(i) = CtNames(j)
  BY AlikeNames
<1>2. /\ \A e : /\ About(i, e) = About(j, e) /\ RecordsOf(i, e) = RecordsOf(j, e)
                /\ Addresses(i, e) = Addresses(j, e)
      /\ \A k, e : From(i, k, e) = From(j, k, e) /\ To(i, k, e) = To(j, k, e)
  BY AlikeSelections
<1>3. DomainCertificate(i) = DomainCertificate(j)
  <2> DEFINE before(a, b) == \/ a.source[2] < b.source[2]
                             \/ a.source = b.source /\ a.kind # b.kind
                                  /\ a.kind = "covers_name"
             below(S) == [x \in S |-> {y \in S : before(y, x)}]
             order(S) == [k \in 1..Cardinality(S) |->
                            CHOOSE x \in S : Cardinality(below(S)[x]) = k - 1]
             listed(S) == {order(S)[k] : k \in {l \in DOMAIN order(S) : l <= MaxLinks}}
             F(S, about) ==
               [Draft EXCEPT
                  !.subjects = {Target} \cup {link.source : link \in listed(S)},
                  !.links = listed(S), !.supporting = {o.id : o \in about},
                  !.limitations = {"certificate"} \cup When(S # listed(S), {"links"})]
  <2>1. \A index : DomainCertificate(index) =
          F(CoversOf(index, Target), About(index, Target) \cap Addresses(index, Target))
    BY Zenon DEF DomainCertificate, Sorted
  <2> HIDE DEF F
  <2> QED BY <1>1, <1>2, <2>1
<1>4. CtDnsNames(i) = CtDnsNames(j)
  <2> DEFINE shared(index) == {name \in CtNames(index) : InDns(index, name)}
             sampled(index) == {name \in shared(index) : FirstLinks(index, name) # CoversOf(index, name)}
             dns(index, name) == UNION {From(index, kind, name) \cup To(index, kind, name) :
                                          kind \in NameKinds}
             links(index) == UNION {FirstLinks(index, name) \cup dns(index, name) :
                                      name \in shared(index)}
             supporting(index) == {o.id : o \in UNION {RecordsOf(index, name) : name \in shared(index)}}
             F(names, some, part, edges, more) ==
               [Draft EXCEPT
                  !.subjects = some, !.links = edges, !.supporting = more,
                  !.gaps = When(names # some, {<<"not resolved", Target, <<>>>>}),
                  !.limitations = {"certificate", "not resolved"} \cup When(part # {}, {"links"})]
  <2>1. \A index : CtDnsNames(index) =
          F(CtNames(index), shared(index), sampled(index), links(index), supporting(index))
    BY Zenon DEF CtDnsNames
  <2>2. shared(i) = shared(j)
    BY <1>1
  <2>3. \A name : dns(i, name) = dns(j, name)
    BY <1>2
  <2> HIDE DEF shared, dns, F
  <2>4. sampled(i) = sampled(j)
    BY <1>1, <2>2
  <2>5. links(i) = links(j)
    BY <1>1, <2>2, <2>3
  <2>6. supporting(i) = supporting(j)
    BY <1>2, <2>2
  <2> HIDE DEF sampled, links, supporting
  <2> QED BY <1>1, <2>1, <2>2, <2>4, <2>5, <2>6
<1>5. (\E name \in CtNames(i) : InDns(i, name)) <=> \E name \in CtNames(j) : InDns(j, name)
  BY <1>1
<1>6. CoversOf(i, Target) = CoversOf(j, Target)
  BY <1>1
<1> QED BY <1>3, <1>4, <1>5, <1>6 DEF CertificateDrafts, When

LEMMA AlikeGroups ==
  ASSUME NEW i, NEW j, Alike(i, j)
  PROVE  /\ SharedDrafts(i) = SharedDrafts(j)
         /\ ListingSeveral(i) = ListingSeveral(j)
<1>1. /\ \A k : OfKind(i, k) = OfKind(j, k)
      /\ \A k, e : From(i, k, e) = From(j, k, e) /\ To(i, k, e) = To(j, k, e)
  BY AlikeSelections
<1>2. ASSUME NEW kind PROVE TargetGroups(i, kind) = TargetGroups(j, kind)
  <2> DEFINE members(index, s) == {link.source : link \in To(index, kind, s)}
             group(index, s) == Group(s, members(index, s), To(index, kind, s))
             shared(index) == {link.target : link \in OfKind(index, kind)}
             several(index) == {s \in shared(index) : Cardinality(members(index, s)) >= 2}
  <2>1. \A index : TargetGroups(index, kind) = {group(index, s) : s \in several(index)}
    BY Zenon DEF TargetGroups
  <2>2. \A s : members(i, s) = members(j, s)
    BY <1>1
  <2>3. shared(i) = shared(j)
    BY <1>1
  <2> HIDE DEF members, shared
  <2>4. \A s : group(i, s) = group(j, s)
    BY <1>1, <2>2
  <2>5. several(i) = several(j)
    BY <2>2, <2>3
  <2> HIDE DEF group, several
  <2> QED BY <2>1, <2>4, <2>5
<1>3. \A c : Listing(i, c) = Listing(j, c)
  BY <1>1 DEF Listing
<1>4. \A c : NamesIn(i, c) = NamesIn(j, c)
  BY <1>3 DEF NamesIn
<1>5. ListingSeveral(i) = ListingSeveral(j)
  <2> DEFINE all(index) == {link.source : link \in UNION {OfKind(index, kind) : kind \in Covering}}
  <2>1. \A index : ListingSeveral(index) = {c \in all(index) : Cardinality(NamesIn(index, c)) >= 2}
    BY DEF ListingSeveral
  <2>2. all(i) = all(j)
    BY <1>1
  <2> HIDE DEF all
  <2> QED BY <1>4, <2>1, <2>2
<1>6. \A a, b : ListsMore(i, a, b) <=> ListsMore(j, a, b)
  <2> SUFFICES ASSUME NEW a, NEW b PROVE ListsMore(i, a, b) <=> ListsMore(j, a, b)
    OBVIOUS
  <2>1. NamesIn(i, a) = NamesIn(j, a) /\ NamesIn(i, b) = NamesIn(j, b)
    BY <1>4
  <2> QED BY <2>1 DEF ListsMore
<1>7. CertificateGroups(i) = CertificateGroups(j)
  <2> DEFINE below(index) == [x \in ListingSeveral(index) |->
                                {y \in ListingSeveral(index) : ListsMore(index, y, x)}]
             order(S, under) == [k \in 1..Cardinality(S) |->
                                   CHOOSE x \in S : Cardinality(under[x]) = k - 1]
             kept(list) == {list[k] : k \in {l \in DOMAIN list : l <= MaxGroups}}
             group(index, c) == Group(c, NamesIn(index, c), Listing(index, c))
  <2>1. \A index : CertificateGroups(index) =
          {group(index, c) : c \in kept(order(ListingSeveral(index), below(index)))}
    BY Zenon DEF CertificateGroups, Sorted
  <2>2. below(i) = below(j)
    BY <1>5, <1>6
  <2>3. \A c : group(i, c) = group(j, c)
    BY <1>3, <1>4
  <2> HIDE DEF below, order, kept, group
  <2>4. kept(order(ListingSeveral(i), below(i))) = kept(order(ListingSeveral(j), below(j)))
    BY <1>5, <2>2
  <2> QED BY <2>1, <2>3, <2>4
<1> QED BY <1>2, <1>5, <1>7 DEF SharedDrafts

(* The context of an address differs only in the order of the reasons that *)
(* its gaps give.                                                          *)
PlainOf(gaps) == {<<gap[1], gap[2], Items(gap[3])>> : gap \in gaps}

LEMMA AlikeContexts ==
  ASSUME NEW i, NEW j, Alike(i, j), NEW r
  PROVE  /\ HasContext(i, r) <=> HasContext(j, r)
         /\ \E gaps : /\ Infrastructure(j, r) = [Infrastructure(i, r) EXCEPT !.gaps = gaps]
                      /\ PlainOf(gaps) = PlainOf(Infrastructure(i, r).gaps)
<1> DEFINE ip == r.target
           announced == From(i, "announced_by", ip)
           registered == From(i, "registered_in", ip)
           links == {r} \cup announced \cup registered
           none(kind, edges, said) == When(edges = {}, {<<kind, ip, said>>})
           gaps(said) == none("announced_by", announced, said)
                           \cup none("registered_in", registered, said)
           subjects == {r.source} \cup {link.target : link \in links}
           conflicts(inside) ==
             {Conflict(<<"origins", {ip[2]}>>, ids) : ids \in Disagreeing(announced)}
               \cup {Conflict(<<"networks", {ip[2]}>>, ids) : ids \in Disagreeing(registered)}
               \cup inside
           limitations == {"routing"} \cup
             When(\E id \in CitedBy(announced) : Cardinality(PerObservation(announced)[id]) > 1,
                  {"several origins"})
           F(inside, said) ==
             [Draft EXCEPT !.subjects = subjects, !.links = links,
                           !.conflicts = conflicts(inside), !.gaps = gaps(said),
                           !.limitations = limitations]
<1>1. /\ Observed(i) = Observed(j)
      /\ announced = From(j, "announced_by", ip) /\ registered = From(j, "registered_in", ip)
  BY AlikeSelections DEF Alike
<1>2. Contained(i, ip, announced, registered) = Contained(j, ip, announced, registered)
  <2> HIDE DEF announced, registered
  <2>1. PrefixesOf(i, announced) = PrefixesOf(j, announced)
    BY <1>1 DEF PrefixesOf
  <2> DEFINE G(prefixes, all) ==
        LET inside == {o \in prefixes : ip[2] \in o.value}
            ranges == {o \in all : /\ o.id \in CitedBy(registered)
                                   /\ o.data = "network" /\ o.value # {}
                                   /\ ip[2] \notin o.value}
            networks == {link.target[2] : link \in registered}
            firsts == {link.evidence[1] : link \in registered}
            apart == {o \in inside : /\ networks # {}
                                     /\ \A net \in networks : ~Overlaps(o.value, net)}
        IN {Conflict(<<"prefix", o.value>>, {o.id}) : o \in prefixes \ inside}
             \cup {Conflict(<<"range", o.value>>, {o.id}) : o \in ranges}
             \cup {Conflict(<<"overlap", o.value>>, {o.id} \cup firsts) : o \in apart}
  <2>2. \A index : Contained(index, ip, announced, registered)
                     = G(PrefixesOf(index, announced), Observed(index))
    BY Zenon DEF Contained
  <2> HIDE DEF G
  <2> QED BY <1>1, <2>1, <2>2
<1>3. Infrastructure(i, r) = F(Contained(i, ip, announced, registered), Unsuccessful(i, ip))
  BY Zenon DEF Infrastructure
<1>4. Infrastructure(j, r) = F(Contained(i, ip, announced, registered), Unsuccessful(j, ip))
  <2> DEFINE H(some, others, inside, said) ==
        LET all == {r} \cup some \cup others
            gap(kind, edges) == When(edges = {}, {<<kind, ip, said>>})
            several == \E id \in CitedBy(some) : Cardinality(PerObservation(some)[id]) > 1
        IN [Draft EXCEPT
              !.subjects = {r.source} \cup {link.target : link \in all},
              !.links = all,
              !.conflicts =
                {Conflict(<<"origins", {ip[2]}>>, ids) : ids \in Disagreeing(some)}
                  \cup {Conflict(<<"networks", {ip[2]}>>, ids) : ids \in Disagreeing(others)}
                  \cup inside,
              !.gaps = gap("announced_by", some) \cup gap("registered_in", others),
              !.limitations = {"routing"} \cup When(several, {"several origins"})]
  <2>1. Infrastructure(j, r) =
          H(From(j, "announced_by", ip), From(j, "registered_in", ip),
            Contained(j, ip, From(j, "announced_by", ip), From(j, "registered_in", ip)),
            Unsuccessful(j, ip))
    BY Zenon DEF Infrastructure
  <2>2. H(announced, registered, Contained(i, ip, announced, registered), Unsuccessful(j, ip))
          = F(Contained(i, ip, announced, registered), Unsuccessful(j, ip))
    BY Zenon
  <2> HIDE DEF H, F, announced, registered
  <2> QED BY <1>1, <1>2, <2>1, <2>2
<1>5. HasContext(i, r) <=> HasContext(j, r)
  <2> HIDE DEF announced, registered
  <2>1. /\ HasContext(i, r) <=> r.target[1] = "ip" /\ announced \cup registered # {}
        /\ HasContext(j, r) <=> r.target[1] = "ip" /\ announced \cup registered # {}
    BY <1>1 DEF HasContext, announced, registered
  <2> QED BY <2>1
<1> DEFINE inside == Contained(i, ip, announced, registered)
           said == Unsuccessful(i, ip)
           other == Unsuccessful(j, ip)
<1>6. Items(said) = Items(other)
  BY DEF Alike
<1> DEFINE reason(kind, edges, why) == When(edges = {}, {<<kind, ip, why>>})
           told(why) == reason("announced_by", announced, why)
                          \cup reason("registered_in", registered, why)
<1>7. \A list : PlainOf(gaps(list)) = told(Items(list))
  <2> SUFFICES ASSUME NEW list PROVE PlainOf(gaps(list)) = told(Items(list))
    OBVIOUS
  <2> HIDE DEF ip, announced, registered
  <2>1. ASSUME NEW kind, NEW edges
        PROVE  PlainOf(none(kind, edges, list)) = reason(kind, edges, Items(list))
    <3> DEFINE gap == <<kind, ip, list>>
    <3>1. <<gap[1], gap[2], Items(gap[3])>> = <<kind, ip, Items(list)>>
      OBVIOUS
    <3> HIDE DEF gap
    <3>2. PlainOf({gap}) = {<<gap[1], gap[2], Items(gap[3])>>} /\ PlainOf({}) = {}
      BY DEF PlainOf
    <3>3. none(kind, edges, list) = IF edges = {} THEN {gap} ELSE {}
      BY DEF When, gap
    <3>4. reason(kind, edges, Items(list)) = IF edges = {} THEN {<<kind, ip, Items(list)>>} ELSE {}
      BY DEF When
    <3> QED BY <3>1, <3>2, <3>3, <3>4
  <2>2. \A one, more : PlainOf(one \cup more) = PlainOf(one) \cup PlainOf(more)
    BY DEF PlainOf
  <2>3. PlainOf(none("announced_by", announced, list)) = reason("announced_by", announced, Items(list))
    BY <2>1
  <2>4. PlainOf(none("registered_in", registered, list)) = reason("registered_in", registered, Items(list))
    BY <2>1
  <2> HIDE DEF none, reason
  <2> QED BY <2>2, <2>3, <2>4
<1>8. PlainOf(gaps(said)) = PlainOf(gaps(other))
  <2> HIDE DEF gaps, told, said, other
  <2>1. PlainOf(gaps(said)) = told(Items(said)) /\ PlainOf(gaps(other)) = told(Items(other))
    BY <1>7
  <2> QED BY <1>6, <2>1
<1> HIDE DEF gaps, subjects, links, conflicts, limitations, inside, said, other
<1>9. /\ F(inside, said).gaps = gaps(said)
      /\ F(inside, other) = [F(inside, said) EXCEPT !.gaps = gaps(other)]
  BY DEF Draft
<1> QED BY <1>3, <1>4, <1>5, <1>8, <1>9 DEF inside, said, other

(* A report gives what each draft is built into.                           *)
LEMMA AllAreBuilt ==
  ASSUME NEW index, Sound(index)
  PROVE  Correlate(index).correlations = {Build(index, d[1], d[2]) : d \in Drafts(index)}
<1> DEFINE built == {Build(index, d[1], d[2]) : d \in Drafts(index)}
           one(id) == CHOOSE c \in built : c.id = id
<1>1. Backed(index) = Drafts(index)
  BY AllAreBacked
<1>2. Correlate(index).correlations = {one(id) : id \in {c.id : c \in built}}
  <2> DEFINE some == {Build(index, d[1], d[2]) : d \in Backed(index)}
             first(id) == CHOOSE c \in some : c.id = id
  <2>1. Correlate(index).correlations = {first(id) : id \in {c.id : c \in some}}
    BY DEF Correlate, Backed
  <2> QED BY <1>1, <2>1
<1>3. \A b, c \in built : b.id = c.id => b = c
  <2> SUFFICES ASSUME NEW d \in Drafts(index), NEW e \in Drafts(index),
                      Build(index, d[1], d[2]).id = Build(index, e[1], e[2]).id
               PROVE  Build(index, d[1], d[2]) = Build(index, e[1], e[2])
    OBVIOUS
  <2>1. IdentifierOf(d) = IdentifierOf(e)
    BY BuiltIs DEF IsBuiltFrom
  <2> QED BY <2>1, IdentifiersDiffer
<1> HIDE DEF built
<1>4. \A c \in built : one(c.id) = c
  <2> SUFFICES ASSUME NEW c \in built PROVE one(c.id) = c
    OBVIOUS
  <2>1. one(c.id) \in built /\ one(c.id).id = c.id
    OBVIOUS
  <2> HIDE DEF one
  <2> QED BY <1>3, <2>1
<1> HIDE DEF one
<1> QED BY <1>2, <1>4 DEF built

PlainOne(c) == [c EXCEPT !.content.gaps = PlainGaps(c)]

(* What is built from a draft does not depend on the order of reasons.     *)
LEMMA AlikeBuilds ==
  ASSUME NEW i, NEW kind, NEW draft, DOMAIN draft = Fields,
         NEW gaps, PlainOf(gaps) = PlainOf(draft.gaps)
  PROVE  PlainOne(Build(i, kind, [draft EXCEPT !.gaps = gaps]))
           = PlainOne(Build(i, kind, draft))
<1> DEFINE other == [draft EXCEPT !.gaps = gaps]
<1>1. /\ other.subjects = draft.subjects /\ other.links = draft.links
      /\ other.claims = draft.claims /\ other.supporting = draft.supporting
      /\ other.conflicts = draft.conflicts /\ other.limitations = draft.limitations
      /\ other.gaps = gaps /\ DOMAIN other = Fields
  BY DEF Fields
<1>2. EvidenceOf(other) = EvidenceOf(draft)
  <2> HIDE DEF other
  <2> QED BY <1>1 DEF EvidenceOf
<1> DEFINE cited == {o \in Observed(i) : o.id \in EvidenceOf(draft)}
           apart == When(Cardinality({o.at : o \in cited}) > 1, {"not simultaneous"})
           content(d) == [d EXCEPT !.limitations = @ \cup apart]
           id == <<kind, draft.subjects, EvidenceOf(draft)>>
           from == Min({o.at : o \in cited})
           to == Max({o.at : o \in cited})
           level == Min({o.confidence : o \in cited})
           record(c) == [id |-> id, content |-> c, first |-> from, last |-> to,
                         confidence |-> level]
           plain == PlainOf(draft.gaps)
<1>3. Build(i, kind, draft) = record(content(draft))
  BY Zenon DEF Build
<1>4. Build(i, kind, other) = record(content(other))
  <2> DEFINE F(subjects, evidence) ==
        LET few == {o \in Observed(i) : o.id \in evidence}
            times == {o.at : o \in few}
        IN [id |-> <<kind, subjects, evidence>>,
            content |-> [other EXCEPT !.limitations =
              @ \cup When(Cardinality(times) > 1, {"not simultaneous"})],
            first |-> Min(times), last |-> Max(times),
            confidence |-> Min({o.confidence : o \in few})]
  <2>1. Build(i, kind, other) = F(other.subjects, EvidenceOf(other))
    BY Zenon DEF Build
  <2>2. F(draft.subjects, EvidenceOf(draft)) = record(content(other))
    BY Zenon
  <2> HIDE DEF F, other
  <2> QED BY <1>1, <1>2, <2>1, <2>2
<1> HIDE DEF cited, apart, id, from, to, level
<1>5. ASSUME NEW d, PlainOf(d.gaps) = plain, DOMAIN d = Fields
      PROVE  PlainOne(record(content(d))) = record([content(d) EXCEPT !.gaps = plain])
  <2>1. content(d).gaps = d.gaps
    BY <1>5 DEF Fields
  <2> DEFINE c == record(content(d))
  <2>2. c.content = content(d)
    OBVIOUS
  <2>3. PlainGaps(c) = plain
    BY <1>5, <2>1, <2>2 DEF PlainGaps, PlainOf
  <2>4. \A gs : [c EXCEPT !.content.gaps = gs] = record([content(d) EXCEPT !.gaps = gs])
    <3>1. \A one, new : [record(one) EXCEPT !.content = new] = record(new)
      OBVIOUS
    <3> HIDE DEF record
    <3> QED BY <2>2, <3>1
  <2> HIDE DEF c, record
  <2>5. PlainOne(c) = record([content(d) EXCEPT !.gaps = plain])
    BY <2>3, <2>4 DEF PlainOne
  <2> QED BY <2>5 DEF c
<1>6. [content(other) EXCEPT !.gaps = plain] = [content(draft) EXCEPT !.gaps = plain]
  BY DEF Fields
<1>7. PlainOne(Build(i, kind, other)) = PlainOne(Build(i, kind, draft))
  <2> HIDE DEF record, content, other
  <2> QED BY <1>1, <1>3, <1>4, <1>5, <1>6
<1> QED BY <1>7

LEMMA AlikeDrafts ==
  ASSUME NEW i, NEW j, Alike(i, j), NEW d \in Drafts(i)
  PROVE  \E e \in Drafts(j) :
           PlainOne(Build(i, d[1], d[2])) = PlainOne(Build(j, e[1], e[2]))
<1>1. CASE d \in {<<"domain_ip_infrastructure", draft>> : draft \in InfrastructureDrafts(i)}
  <2>1. PICK r \in OfKind(i, "resolves_to") :
          HasContext(i, r) /\ d = <<"domain_ip_infrastructure", Infrastructure(i, r)>>
    BY <1>1 DEF InfrastructureDrafts
  <2> DEFINE draft == Infrastructure(i, r)
             other == Infrastructure(j, r)
             e == <<"domain_ip_infrastructure", other>>
  <2>2. r \in OfKind(j, "resolves_to") /\ HasContext(j, r)
    BY <2>1, AlikeSelections, AlikeContexts
  <2>3. other \in InfrastructureDrafts(j)
    BY <2>2 DEF InfrastructureDrafts
  <2>4. PICK gaps : other = [draft EXCEPT !.gaps = gaps] /\ PlainOf(gaps) = PlainOf(draft.gaps)
    BY AlikeContexts
  <2>5. DOMAIN draft = Fields /\ DOMAIN other = Fields
    BY DomainsAre
  <2> HIDE DEF draft, other
  <2>6. e \in Drafts(j)
    BY <2>3 DEF Drafts
  <2>7. PlainOne(Build(i, d[1], other)) = PlainOne(Build(i, d[1], draft))
    BY <2>4, <2>5, AlikeBuilds
  <2>8. Build(i, d[1], other) = Build(j, d[1], other)
    BY Zenon DEF Build, Alike
  <2>9. d[1] = e[1] /\ d[2] = draft /\ e[2] = other
    BY <2>1 DEF draft
  <2> QED BY <2>6, <2>7, <2>8, <2>9
<1>2. CASE d \in CertificateDrafts(i) \cup ProviderDrafts(i)
                   \cup {<<"shared_infrastructure", draft>> : draft \in SharedDrafts(i)}
  <2>1. d \in Drafts(j)
    BY <1>2, AlikeCertificates, AlikeClaims, AlikeGroups DEF Drafts
  <2>2. Build(i, d[1], d[2]) = Build(j, d[1], d[2])
    BY Zenon DEF Build, Alike
  <2> QED BY <2>1, <2>2
<1> QED BY <1>1, <1>2 DEF Drafts

LEMMA AlikeReports ==
  ASSUME NEW i, NEW j, Alike(i, j), Sound(i), Sound(j)
  PROVE  Plain(Correlate(i)) = Plain(Correlate(j))
<1> DEFINE plain(index) == {PlainOne(c) : c \in Correlate(index).correlations}
<1>1. ASSUME NEW one, NEW other, Alike(one, other), Sound(one), Sound(other)
      PROVE  plain(one) \subseteq plain(other)
  <2>1. /\ Correlate(one).correlations = {Build(one, d[1], d[2]) : d \in Drafts(one)}
        /\ Correlate(other).correlations = {Build(other, d[1], d[2]) : d \in Drafts(other)}
    BY <1>1, AllAreBuilt
  <2>2. \A d \in Drafts(one) : \E e \in Drafts(other) :
          PlainOne(Build(one, d[1], d[2])) = PlainOne(Build(other, e[1], e[2]))
    BY <1>1, AlikeDrafts
  <2> QED BY <2>1, <2>2
<1>2. Alike(j, i)
  BY DEF Alike
<1>3. plain(i) = plain(j)
  <2>1. plain(i) \subseteq plain(j) /\ plain(j) \subseteq plain(i)
    BY <1>1, <1>2
  <2> HIDE DEF plain
  <2> QED BY <2>1
<1> DEFINE limitations(index) ==
      When(Cardinality(ListingSeveral(index)) > MaxGroups, {"groups"})
        \cup When(index.duplicates, {"duplicates"})
<1>4. ASSUME NEW index, Sound(index)
      PROVE  Correlate(index).limitations = limitations(index)
  <2> DEFINE rejected == When(Backed(index) # Drafts(index), {"rejected"})
  <2>1. Correlate(index).limitations = limitations(index) \cup rejected
    BY DEF Correlate, Backed
  <2>2. rejected = {}
    BY <1>4, AllAreBacked DEF When
  <2> HIDE DEF limitations, rejected
  <2> QED BY <2>1, <2>2
<1>5. limitations(i) = limitations(j)
  <2>1. i.duplicates = j.duplicates /\ ListingSeveral(i) = ListingSeveral(j)
    BY AlikeGroups DEF Alike
  <2> QED BY <2>1
<1>6. Correlate(i).limitations = Correlate(j).limitations
  <2> HIDE DEF limitations
  <2> QED BY <1>4, <1>5
<1>7. \A index : Plain(Correlate(index)) =
        [correlations |-> plain(index), limitations |-> Correlate(index).limitations]
  BY Zenon DEF Plain, PlainOne
<1> HIDE DEF plain
<1> QED BY <1>3, <1>6, <1>7

(* What is recorded is, but for the order of what the sources said, all    *)
(* that the completed runs have.                                           *)
LEMMA EverythingIsRecorded ==
  ASSUME CorrelationInvariant
  PROVE  Alike(Index, Everything(completed))
<1> DEFINE all == Everything(completed)
           said == {Said(run) : run \in completed}
           edges == UNION {Items(Own(run)) : run \in completed}
<1>1. all = [observations |-> Observations, relationships |-> edges,
             sources |-> SetToSeq(said), duplicates |-> FALSE]
  <2> DEFINE found(run) == Items(Recorded(NewInvestigation, run).relationships)
  <2>1. all = [observations |-> Observations,
               relationships |-> UNION {found(run) : run \in completed},
               sources |-> SetToSeq(said), duplicates |-> FALSE]
    BY Zenon DEF Everything, Observations, Said
  <2>2. \A run : found(run) = Items(Own(run))
    BY DEF Recorded, NewInvestigation, Own, Together, NoEdges
  <2> HIDE DEF found
  <2> QED BY <2>1, <2>2
<1>2. IsFiniteSet(said)
  <2> DEFINE f == [run \in completed |-> Said(run)]
  <2>1. f = [run \in completed |-> f[run]] /\ \A run \in completed : f[run] = Said(run)
    OBVIOUS
  <2> HIDE DEF f
  <2>2. IsFiniteSet({f[run] : run \in completed})
    BY <2>1, RangeIsFinite DEF CorrelationInvariant
  <2>3. {f[run] : run \in completed} = said
    BY <2>1
  <2> QED BY <2>2, <2>3
<1> HIDE DEF said, edges
<1>3. SetToSeq(said) \in Seq(said) /\ Items(SetToSeq(said)) = said
  BY <1>2, SetToSeqIs
<1>4. /\ Index = [observations |-> Observations, relationships |-> edges,
                  sources |-> investigation.sources, duplicates |-> FALSE]
      /\ investigation.sources \in Seq(Items(investigation.sources))
      /\ Items(investigation.sources) = said
  BY EverythingIsIndexed DEF said, edges
<1> DEFINE index == Index
<1> HIDE DEF all, index
<1>5. /\ index.sources \in Seq(said) /\ Items(index.sources) = said
      /\ all.sources \in Seq(said) /\ Items(all.sources) = said
  BY <1>1, <1>3, <1>4 DEF all, index
<1>6. \A e : Items(Unsuccessful(index, e)) = Items(Unsuccessful(all, e))
  <2> SUFFICES ASSUME NEW e PROVE Items(Unsuccessful(index, e)) = Items(Unsuccessful(all, e))
    OBVIOUS
  <2>1. /\ Items(Unsuccessful(index, e)) =
             {<<s.source, s.outcome>> : s \in {x \in said : Failed(x, e)}}
        /\ Items(Unsuccessful(all, e)) =
             {<<s.source, s.outcome>> : s \in {x \in said : Failed(x, e)}}
    BY <1>5, UnsuccessfulIs
  <2> QED BY <2>1
<1>7. /\ Observed(index) = Observed(all) /\ Edges(index) = Edges(all)
      /\ index.duplicates = all.duplicates
  BY <1>1, <1>4 DEF Observed, Edges, all, index
<1> QED BY <1>6, <1>7 DEF Alike, all, index

(* But for the order in which a gap gives the sources that failed, a       *)
(* finished report is that of all the completed runs together, whatever    *)
(* they found and in whatever order they completed or were cut off.        *)
THEOREM OrderHolds == Spec => []OrderIsIrrelevant
<1>1. ASSUME CorrelationInvariant, Done
      PROVE  Plain(report) = Plain(Correlate(Everything(completed)))
  <2> DEFINE all == Everything(completed)
  <2>1. Sound(Index) /\ report = Correlate(Index) /\ Alike(Index, all)
    BY <1>1, InvestigationIsSound, EverythingIsRecorded DEF CorrelationInvariant, Index
  <2> HIDE DEF all
  <2>2. IDs(Index) = IDs(all) /\ Edges(Index) = Edges(all) /\ Observed(Index) = Observed(all)
    BY <2>1, AlikeSelections DEF Alike
  <2>3. Sound(all)
    BY <2>1, <2>2 DEF Sound, IsSound
  <2>4. Plain(Correlate(Index)) = Plain(Correlate(all))
    BY <2>1, <2>3, AlikeReports
  <2> QED BY <2>1, <2>4 DEF all
<1>2. CorrelationInvariant => OrderIsIrrelevant
  BY <1>1 DEF OrderIsIrrelevant
<1> QED BY <1>2, CorrelationInit, CorrelationStep, PTL DEF Spec
=============================================================================
