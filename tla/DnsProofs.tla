------------------------------ MODULE DnsProofs ------------------------------
(***************************************************************************)
(* Proofs about Dns, for plans of any length, any answers, any budget and  *)
(* any interleaving of the lookups.                                        *)
(***************************************************************************)
EXTENDS Dns, TLAPS

Unanswered == Bare("none")

(* Each query's task, reply and outcome belong together.                   *)
InPlace(i) ==
  /\ i >= next => tasks[i] = "unborn"
  /\ tasks[i] = "unborn" => replies[i] = Unanswered
  /\ tasks[i] = "unborn" /\ i < next => outcomes[i] = Bare("budget")
  /\ tasks[i] \in {"done", "joined"} => replies[i] \in RepliesTo(i)
  /\ tasks[i] = "joined" => outcomes[i] = OutcomeOf(replies[i])

Shape ==
  /\ next \in 1..(Len(Plan) + 1)
  /\ tasks \in [Indices -> {"unborn", "asking", "done", "joined", "aborted"}]
  /\ replies = [i \in Indices |-> replies[i]]
  /\ outcomes = [i \in Indices |-> outcomes[i]]

Settled == \A i \in Indices : i < next /\ tasks[i] \in {"unborn", "joined"}

(* The inductive invariant: a collection is built when all is settled, and *)
(* nothing changes after that.                                             *)
CollectInvariant ==
  /\ Shape
  /\ \A i \in Indices : InPlace(i)
  /\ phase # "issuing" => \A i \in Indices : i < next
  /\ returned # Nothing => phase = "returned"
  /\ phase = "returned" => Settled /\ returned = Build

-----------------------------------------------------------------------------
LEMMA IndicesAreNumbers == Indices = 1..Len(Plan) /\ Len(Plan) \in Nat
  BY DnsConstants DEF DnsConstants, Indices

(* What a task came to decides whether its query has failed.               *)
LEMMA OutcomeOfReply ==
  ASSUME NEW i \in Indices, NEW reply \in RepliesTo(i)
  PROVE  /\ OutcomeOf(reply).what \in Failures
              <=> reply.what \notin {"records"} \cup Negatives
         /\ OutcomeOf(reply).what \in Negatives
              => reply.what \in {"records"} \cup Negatives
<1>1. CASE \E records \in Answers[Plan[i]] : reply = Outcome("records", records)
  <2>1. PICK records \in Answers[Plan[i]] : reply = Outcome("records", records)
    BY <1>1
  <2>2. reply.what = "records" /\ reply.records = records
    BY <2>1 DEF Outcome
  <2>3. OutcomeOf(reply).what \in {"records", "nodata"}
    BY <2>2 DEF OutcomeOf, Bare, Outcome
  <2>4. QED
    BY <2>2, <2>3 DEF Failures, Negatives
<1>2. CASE \E what \in {"nxdomain", "nodata", "timeout", "failure", "panic"} :
             reply = Bare(what)
  <2>1. PICK what \in {"nxdomain", "nodata", "timeout", "failure", "panic"} :
          reply = Bare(what)
    BY <1>2
  <2>2. reply.what = what
    BY <2>1 DEF Bare, Outcome
  <2>3. what # "panic" => OutcomeOf(reply) = reply
    BY <2>1, <2>2 DEF OutcomeOf
  <2>4. what = "panic" => OutcomeOf(reply).what = "incomplete"
    BY <2>1, <2>2 DEF OutcomeOf, Bare, Outcome
  <2>5. QED
    BY <2>2, <2>3, <2>4 DEF Failures, Negatives
<1>3. QED
  BY <1>1, <1>2 DEF RepliesTo

(* What is returned depends on the outcomes alone.                         *)
LEMMA BuildStable ==
  ASSUME outcomes' = outcomes
  PROVE  Build' = Build
<1>1. \A i : /\ Entries(i)' = Entries(i)
             /\ Examined(i)' = Examined(i)
             /\ HasFailed(i)' = HasFailed(i)
             /\ WasLimited(i)' = WasLimited(i)
  BY DEF Entries, Examined, HasFailed, WasLimited
<1>2. \A i, kind : OfKind(i, kind)' = OfKind(i, kind)
  BY <1>1 DEF OfKind
<1>3. \A i : Evidence(i)' = Evidence(i)
  BY <1>1 DEF Evidence
<1>4. \A q : Query(q)' = Query(q)
  BY <1>1 DEF Query
<1>5. AddressFindings' = AddressFindings /\ Pivots' = Pivots
  BY <1>2, <1>4 DEF AddressFindings, Pivots
<1>6. NullMxFindings' = NullMxFindings
  BY <1>1, <1>2, <1>3, <1>4 DEF NullMxFindings
<1>7. PolicyFindings' = PolicyFindings
  <2>1. \A i, kind : PolicyOf(i, kind)' = PolicyOf(i, kind)
    BY <1>2, <1>3 DEF PolicyOf
  <2>2. QED
    BY <1>4, <2>1 DEF PolicyFindings
<1>8. CaaFindings' = CaaFindings
  <2>1. \A i : CaaOf(i)' = CaaOf(i)
    BY <1>2, <1>3 DEF CaaOf
  <2>2. QED
    BY <1>4, <2>1 DEF CaaFindings
<1>9. NxDomainFindings' = NxDomainFindings
  BY <1>3 DEF NxDomainFindings
<1>10. Analyze' = Analyze
  BY <1>5, <1>6, <1>7, <1>8, <1>9 DEF Analyze
<1>11. Observed' = Observed /\ Failed' = Failed
  BY <1>1, <1>3 DEF Observed, Failed
<1>12. LimitFindings' = LimitFindings
  BY <1>1, <1>3 DEF LimitFindings
<1>13. FirstFailure' = FirstFailure
  BY <1>11 DEF FirstFailure
<1>14. QED
  BY <1>5, <1>10, <1>11, <1>12, <1>13 DEF Build

LEMMA Initially ==
  ASSUME Init
  PROVE  CollectInvariant
<1>. USE IndicesAreNumbers
<1>1. Shape
  BY DEF Init, Shape
<1>2. \A i \in Indices : InPlace(i)
  BY DEF Init, InPlace, Unanswered
<1>3. QED
  BY <1>1, <1>2 DEF Init, CollectInvariant

(* A step before the return keeps what is true of each query.              *)
LEMMA IssueInductive ==
  ASSUME CollectInvariant, Issue \/ IssueDenied
  PROVE  CollectInvariant'
<1>. USE IndicesAreNumbers
<1>1. Shape'
  BY DEF CollectInvariant, Shape, Issue, IssueDenied
<1>2. ASSUME NEW i \in Indices
      PROVE  InPlace(i)'
  <2>1. InPlace(i) /\ Shape /\ next \in Indices /\ next \in Nat
    BY DEF CollectInvariant, Issue, IssueDenied
  <2>2. tasks[next] = "unborn"
    BY <2>1 DEF CollectInvariant, InPlace
  <2>3. replies' = replies /\ next' = next + 1
    BY DEF Issue, IssueDenied
  <2>4. CASE i = next
    <3>1. CASE Issue
      <4>1. tasks'[i] = "asking"
        BY <2>1, <2>4, <3>1 DEF Issue, Shape
      <4>2. QED
        BY <2>1, <2>3, <2>4, <4>1 DEF InPlace
    <3>2. CASE IssueDenied
      <4>1. tasks'[i] = "unborn" /\ outcomes'[i] = Bare("budget")
        BY <2>1, <2>2, <2>4, <3>2 DEF IssueDenied, Shape
      <4>2. QED
        BY <2>1, <2>2, <2>3, <2>4, <4>1 DEF InPlace
    <3>3. QED
      BY <3>1, <3>2
  <2>5. CASE i # next
    <3>1. tasks'[i] = tasks[i] /\ outcomes'[i] = outcomes[i]
      BY <2>1, <2>5 DEF Issue, IssueDenied, Shape
    <3>2. (i < next' <=> i < next) /\ (i >= next' => i >= next)
      BY <2>1, <2>3, <2>5
    <3>3. RepliesTo(i)' = RepliesTo(i)
      BY DEF RepliesTo
    <3>4. QED
      BY <2>1, <2>3, <3>1, <3>2, <3>3 DEF InPlace
  <2>6. QED
    BY <2>4, <2>5
<1>3. phase' = "issuing" /\ returned' = returned /\ returned = Nothing
  BY DEF CollectInvariant, Issue, IssueDenied
<1>4. QED
  BY <1>1, <1>2, <1>3 DEF CollectInvariant

(* So does a task that ends or is joined, or the drop of them all.         *)
LEMMA TasksInductive ==
  ASSUME CollectInvariant,
         Drop \/ \E i \in Indices : Finish(i) \/ Join(i)
  PROVE  CollectInvariant'
<1>. USE IndicesAreNumbers
<1>1. /\ Shape' /\ next' = next /\ returned' = returned
      /\ phase # "returned" /\ phase' # "returned"
      /\ phase' # "issuing" => phase # "issuing"
  <2>1. CASE Drop
    BY <2>1 DEF CollectInvariant, Shape, Drop
  <2>2. CASE \E i \in Indices : Join(i)
    BY <2>2 DEF CollectInvariant, Shape, Join
  <2>3. CASE \E i \in Indices : Finish(i)
    <3>1. PICK i \in Indices : Finish(i)
      BY <2>3
    <3>2. phase # "returned"
      BY <3>1 DEF Finish, CollectInvariant, Settled
    <3>3. QED
      BY <3>1, <3>2 DEF CollectInvariant, Shape, Finish
  <2>4. QED
    BY <2>1, <2>2, <2>3
<1>2. ASSUME NEW i \in Indices
      PROVE  InPlace(i)'
  <2>1. InPlace(i) /\ Shape /\ RepliesTo(i)' = RepliesTo(i)
    BY DEF CollectInvariant, RepliesTo
  <2>2. CASE Drop
    BY <1>1, <2>1, <2>2 DEF Drop, InPlace, Shape
  <2>3. CASE Finish(i)
    <3>1. /\ tasks[i] = "asking" /\ tasks'[i] = "done"
          /\ replies'[i] \in RepliesTo(i)
      BY <2>1, <2>3 DEF Finish, Shape
    <3>2. QED
      BY <1>1, <2>1, <3>1 DEF InPlace
  <2>4. CASE Join(i)
    <3>1. /\ tasks[i] = "done" /\ tasks'[i] = "joined" /\ replies' = replies
          /\ outcomes'[i] = OutcomeOf(replies[i])
      BY <2>1, <2>4 DEF Join, Shape
    <3>2. OutcomeOf(replies[i])' = OutcomeOf(replies[i])
      BY <3>1
    <3>3. QED
      BY <1>1, <2>1, <3>1, <3>2 DEF InPlace
  <2>5. CASE \E j \in Indices \ {i} : Finish(j) \/ Join(j)
    <3>1. /\ tasks'[i] = tasks[i] /\ replies'[i] = replies[i]
          /\ outcomes'[i] = outcomes[i]
      BY <2>1, <2>5 DEF Finish, Join, Shape
    <3>2. QED
      BY <1>1, <2>1, <3>1 DEF InPlace
  <2>6. QED
    BY <2>2, <2>3, <2>4, <2>5
<1>3. QED
  BY <1>1, <1>2 DEF CollectInvariant

LEMMA ReturnInductive ==
  ASSUME CollectInvariant, Return
  PROVE  CollectInvariant'
<1>1. /\ UNCHANGED <<next, tasks, replies, outcomes>>
      /\ phase' = "returned" /\ returned' = Build
      /\ \A i \in Indices : i < next
  BY DEF Return, CollectInvariant
<1>2. Shape' /\ \A i \in Indices : InPlace(i)'
  BY <1>1 DEF CollectInvariant, Shape, InPlace
<1>3. Settled'
  BY <1>1 DEF Return, Settled
<1>4. Build' = Build
  BY <1>1, BuildStable
<1>5. QED
  BY <1>1, <1>2, <1>3, <1>4 DEF CollectInvariant

(* Steps that leave the queries alone. *)
LEMMA OthersInductive ==
  ASSUME CollectInvariant, AllIssued \/ OtherRequest \/ UNCHANGED vars
  PROVE  CollectInvariant'
<1>1. /\ UNCHANGED <<next, tasks, replies, outcomes, returned>>
      /\ phase' = phase \/ AllIssued
  BY DEF AllIssued, OtherRequest, vars
<1>2. Shape' /\ \A i \in Indices : InPlace(i)'
  BY <1>1 DEF CollectInvariant, Shape, InPlace
<1>3. Settled' <=> Settled
  BY <1>1 DEF Settled
<1>4. Build' = Build
  BY <1>1, BuildStable
<1>5. CASE AllIssued
  <2>1. \A i \in Indices : i < next
    BY <1>5, IndicesAreNumbers DEF AllIssued, CollectInvariant, Shape
  <2>2. QED
    BY <1>1, <1>2, <1>5, <2>1 DEF CollectInvariant, AllIssued
<1>6. CASE phase' = phase
  BY <1>1, <1>2, <1>3, <1>4, <1>6 DEF CollectInvariant
<1>7. QED
  BY <1>1, <1>5, <1>6

(* Nothing is returned but by Return. *)
LEMMA Inductive ==
  ASSUME CollectInvariant, [Next]_vars
  PROVE  CollectInvariant'
BY IssueInductive, TasksInductive, ReturnInductive, OthersInductive
   DEF Next, Collect, Over

LEMMA Invariance == Spec => []CollectInvariant
<1>1. Init => CollectInvariant
  BY Initially
<1>2. CollectInvariant /\ [Next]_vars => CollectInvariant'
  BY Inductive
<1>3. QED
  BY <1>1, <1>2, PTL DEF Spec

-----------------------------------------------------------------------------
(* What a built collection says *)

(* A query that is settled has failed if and only if it was not answered.  *)
LEMMA FailedIffUnanswered ==
  ASSUME CollectInvariant, Settled, NEW i \in Indices
  PROVE  /\ HasFailed(i) <=> ~Answered(i)
         /\ outcomes[i].what \in Negatives => Answered(i)
<1>1. InPlace(i) /\ i < next /\ tasks[i] \in {"unborn", "joined"}
  BY DEF CollectInvariant, Settled
<1>2. CASE tasks[i] = "unborn"
  <2>1. replies[i].what = "none" /\ outcomes[i].what = "budget"
    BY <1>1, <1>2 DEF InPlace, Unanswered, Bare, Outcome
  <2>2. QED
    BY <2>1 DEF HasFailed, Answered, Failures, Negatives
<1>3. CASE tasks[i] = "joined"
  <2>1. replies[i] \in RepliesTo(i) /\ outcomes[i] = OutcomeOf(replies[i])
    BY <1>1, <1>3 DEF InPlace
  <2>2. QED
    BY <2>1, OutcomeOfReply DEF HasFailed, Answered
<1>4. QED
  BY <1>1, <1>2, <1>3

(* A failed query has no records. *)
LEMMA NoEvidenceOfFailure ==
  ASSUME CollectInvariant, Settled, NEW i \in Indices, HasFailed(i)
  PROVE  Evidence(i) = {}
<1>1. InPlace(i) /\ tasks[i] \in {"unborn", "joined"} /\ i < next
  BY DEF CollectInvariant, Settled
<1>2. outcomes[i].records = <<>>
  <2>1. CASE tasks[i] = "unborn"
    BY <1>1, <2>1 DEF InPlace, Bare, Outcome
  <2>2. CASE tasks[i] = "joined"
    <3>1. replies[i] \in RepliesTo(i) /\ outcomes[i] = OutcomeOf(replies[i])
      BY <1>1, <2>2 DEF InPlace
    <3>2. replies[i].what \notin {"records"} \cup Negatives
      BY <3>1, OutcomeOfReply DEF HasFailed
    <3>3. PICK what \in {"timeout", "failure", "panic"} :
            replies[i] = Bare(what)
      BY <3>1, <3>2 DEF RepliesTo, Negatives, Outcome, Bare
    <3>4. OutcomeOf(replies[i]) \in {Bare(what), Bare("incomplete")}
      BY <3>3 DEF OutcomeOf, Bare, Outcome
    <3>5. QED
      BY <3>1, <3>4 DEF Bare, Outcome
  <2>3. QED
    BY <1>1, <2>1, <2>2
<1>3. Entries(i) = {}
  BY <1>2 DEF Entries, Examined
<1>4. outcomes[i].what \notin Negatives
  BY DEF HasFailed, Failures, Negatives
<1>5. QED
  BY <1>3, <1>4 DEF Evidence

LEMMA ReturnedIsBuilt ==
  ASSUME CollectInvariant, Succeeded
  PROVE  /\ Settled
         /\ returned.observed = Observed
         /\ returned.notes = Failed
         /\ returned.findings = Analyze \cup LimitFindings
<1>1. returned # Nothing
  BY DEF Succeeded, Nothing
<1>2. Settled /\ returned = Build
  BY <1>1 DEF CollectInvariant
<1>3. ~(Observed = {} /\ Failed # {})
  BY <1>2 DEF Build, Succeeded, Err, Nothing
<1>4. QED
  BY <1>2, <1>3 DEF Build

LEMMA CitedIsObserved ==
  ASSUME NEW finding \in Analyze \cup LimitFindings
  PROVE  finding.evidence \subseteq Observed
<1>1. \A i \in Indices : Evidence(i) \subseteq Observed
  BY DEF Observed
<1>2. \A i, kind : OfKind(i, kind) \subseteq Evidence(i)
  BY DEF OfKind, Evidence
<1>3. \A q : Query(q) \subseteq Indices
  BY DEF Query
<1>4. CASE finding \in AddressFindings
  <2>1. finding.evidence = UNION {OfKind(i, "private") : i \in Query("A")}
    BY <1>4 DEF AddressFindings, Finding
  <2>2. QED
    BY <1>1, <1>2, <1>3, <2>1
<1>5. CASE finding \in NullMxFindings
  <2>1. PICK i \in Query("MX") : finding.evidence = Evidence(i)
    BY <1>5 DEF NullMxFindings, Finding
  <2>2. QED
    BY <1>1, <1>3, <2>1
<1>6. CASE finding \in PolicyFindings
  <2>1. PICK i \in Indices, kind \in {"spf", "dmarc"} :
          finding = PolicyOf(i, kind)
    BY <1>3, <1>6 DEF PolicyFindings
  <2>2. finding.evidence \in {Evidence(i), OfKind(i, kind)}
    BY <2>1 DEF PolicyOf, Finding
  <2>3. QED
    BY <1>1, <1>2, <2>2
<1>7. CASE finding \in CaaFindings
  <2>1. PICK i \in Indices : finding \in CaaOf(i)
    BY <1>3, <1>7 DEF CaaFindings
  <2>2. finding.evidence \in {Evidence(i), OfKind(i, "issue"),
                              OfKind(i, "iodef")}
    BY <2>1 DEF CaaOf, Finding
  <2>3. QED
    BY <1>1, <1>2, <2>2
<1>8. CASE finding \in NxDomainFindings
  <2>1. PICK i \in Apex : finding.evidence = Evidence(i)
    BY <1>8 DEF NxDomainFindings, Finding
  <2>2. QED
    BY <1>1, <2>1 DEF Apex
<1>9. CASE finding \in LimitFindings
  <2>1. finding.evidence = UNION {Evidence(i) :
                                    i \in {j \in Indices : WasLimited(j)}}
    BY <1>9 DEF LimitFindings, Finding
  <2>2. QED
    BY <1>1, <2>1
<1>10. QED
  BY <1>4, <1>5, <1>6, <1>7, <1>8, <1>9 DEF Analyze

(* An error has no findings. *)
LEMMA FindingsAreOfCollections ==
  ASSUME CollectInvariant, returned.findings # {}
  PROVE  Succeeded
<1>1. returned = Nothing \/ returned = Build
  BY DEF CollectInvariant
<1>2. \A what : Err(what).findings = {}
  BY DEF Err, Nothing
<1>3. Nothing.findings = {}
  BY DEF Nothing
<1>4. CASE returned = Build
  <2>1. \/ Build = Err(outcomes[FirstFailure].what)
        \/ Build.kind = "collection"
    BY DEF Build
  <2>2. QED
    BY <1>2, <1>4, <2>1 DEF Succeeded
<1>5. QED
  BY <1>1, <1>3, <1>4

(* What a finding is about tells which queries it is concluded from.       *)
LEMMA ConcludedFrom ==
  ASSUME NEW finding \in Analyze \cup LimitFindings
  PROVE  /\ finding.about = "spf" => Query("TXT") # {}
         /\ finding.about = "dmarc" => Query("DMARC") # {}
         /\ finding.about = "caa" => Query("CAA") # {}
         /\ finding.about = "mx" => Query("MX") # {}
         /\ finding.about = "domain" =>
              \E i \in Apex : outcomes[i].what = "nxdomain"
<1>1. CASE finding \in AddressFindings
  <2>1. finding.about = "address"
    BY <1>1 DEF AddressFindings, Finding
  <2>2. QED
    BY <2>1
<1>2. CASE finding \in NullMxFindings
  <2>1. finding.about = "mx" /\ Query("MX") # {}
    BY <1>2 DEF NullMxFindings, Finding
  <2>2. QED
    BY <2>1
<1>3. CASE finding \in PolicyFindings
  <2>1. \A i, kind : PolicyOf(i, kind).about = kind
    BY DEF PolicyOf, Finding
  <2>2. \/ \E i \in Query("TXT") : finding = PolicyOf(i, "spf")
        \/ \E i \in Query("DMARC") : finding = PolicyOf(i, "dmarc")
    BY <1>3 DEF PolicyFindings
  <2>3. \/ finding.about = "spf" /\ Query("TXT") # {}
        \/ finding.about = "dmarc" /\ Query("DMARC") # {}
    BY <2>1, <2>2
  <2>4. QED
    BY <2>3
<1>4. CASE finding \in CaaFindings
  <2>1. PICK i \in Query("CAA") : finding \in CaaOf(i)
    BY <1>4 DEF CaaFindings
  <2>2. finding.about = "caa"
    BY <2>1 DEF CaaOf, Finding
  <2>3. QED
    BY <2>1, <2>2
<1>5. CASE finding \in NxDomainFindings
  <2>1. /\ finding.about = "domain"
        /\ \E i \in Apex : outcomes[i].what = "nxdomain"
    BY <1>5 DEF NxDomainFindings, Finding
  <2>2. QED
    BY <2>1
<1>6. CASE finding \in LimitFindings
  <2>1. finding.about = "records"
    BY <1>6 DEF LimitFindings, Finding
  <2>2. QED
    BY <2>1
<1>7. QED
  BY <1>1, <1>2, <1>3, <1>4, <1>5, <1>6 DEF Analyze

(* Only an answer that says so is an NXDOMAIN outcome. *)
LEMMA NxDomainIsAnswered ==
  ASSUME CollectInvariant, Settled, NEW i \in Indices,
         outcomes[i].what = "nxdomain"
  PROVE  replies[i].what = "nxdomain"
<1>1. InPlace(i) /\ i < next /\ tasks[i] \in {"unborn", "joined"}
  BY DEF CollectInvariant, Settled
<1>2. tasks[i] # "unborn"
  BY <1>1 DEF InPlace, Bare, Outcome
<1>3. replies[i] \in RepliesTo(i) /\ outcomes[i] = OutcomeOf(replies[i])
  BY <1>1, <1>2 DEF InPlace
<1>4. /\ Bare("nodata").what # "nxdomain"
      /\ Bare("incomplete").what # "nxdomain"
  BY DEF Bare, Outcome
<1>5. outcomes[i] = replies[i]
  BY <1>3, <1>4 DEF OutcomeOf
<1>6. QED
  BY <1>5

-----------------------------------------------------------------------------
(* Types *)

LEMMA OutcomeType ==
  ASSUME NEW i \in Indices, NEW reply \in RepliesTo(i)
  PROVE  OutcomeOf(reply) \in RepliesTo(i) \cup {Bare("incomplete")}
<1>1. Bare("nodata") \in RepliesTo(i)
  BY DEF RepliesTo
<1>2. QED
  BY <1>1 DEF OutcomeOf

LEMMA TypesInductive ==
  ASSUME CollectInvariant, TypeOK, [Next]_vars
  PROVE  TypeOK'
<1>1. Shape /\ Shape'
  BY Inductive DEF CollectInvariant
<1>2. phase' \in {"issuing", "joining", "returned", "dropped"}
  BY DEF TypeOK, Next, Collect, Issue, IssueDenied, AllIssued, Return, Join,
         Finish, Drop, OtherRequest, Over, vars
<1>3. ASSUME NEW i \in Indices
      PROVE  replies'[i] \in RepliesTo(i) \cup {Bare("none")}
  <2>1. replies[i] \in RepliesTo(i) \cup {Bare("none")}
    BY DEF TypeOK
  <2>2. replies' = replies \/ \E j \in Indices : Finish(j)
    BY DEF Next, Collect, Issue, IssueDenied, AllIssued, Return, Join, Drop,
           OtherRequest, Over, vars
  <2>3. ASSUME NEW j \in Indices, Finish(j)
        PROVE  replies'[i] = replies[i] \/ replies'[i] \in RepliesTo(i)
    BY <1>1, <2>3 DEF Finish, Shape
  <2>4. QED
    BY <2>1, <2>2, <2>3
<1>4. ASSUME NEW i \in Indices
      PROVE  outcomes'[i] \in RepliesTo(i)
                                \cup {Bare("budget"), Bare("incomplete")}
  <2>1. outcomes[i] \in RepliesTo(i) \cup {Bare("budget"), Bare("incomplete")}
    BY DEF TypeOK
  <2>2. outcomes' = outcomes \/ IssueDenied \/ \E j \in Indices : Join(j)
    BY DEF Next, Collect, Issue, AllIssued, Return, Finish, Drop, OtherRequest,
           Over, vars
  <2>3. CASE IssueDenied
    <3>1. outcomes'[i] \in {outcomes[i], Bare("budget")}
      BY <1>1, <2>3 DEF IssueDenied, Shape
    <3>2. QED
      BY <2>1, <3>1
  <2>4. ASSUME NEW j \in Indices, Join(j)
        PROVE  outcomes'[i] = outcomes[i]
                 \/ outcomes'[i] \in RepliesTo(i) \cup {Bare("incomplete")}
    <3>1. replies[j] \in RepliesTo(j)
      BY <2>4 DEF Join, CollectInvariant, InPlace
    <3>2. CASE i = j
      <4>1. outcomes'[i] = OutcomeOf(replies[j])
        BY <1>1, <2>4, <3>2 DEF Join, Shape
      <4>2. QED
        BY <3>1, <3>2, <4>1, OutcomeType
    <3>3. CASE i # j
      BY <1>1, <2>4, <3>3 DEF Join, Shape
    <3>4. QED
      BY <3>2, <3>3
  <2>5. QED
    BY <2>1, <2>2, <2>3, <2>4
<1>5. used' \in 0..MaxRequests
  BY DnsConstants
     DEF DnsConstants, TypeOK, Next, Collect, Issue, IssueDenied, AllIssued,
         Return, Join, Finish, Drop, OtherRequest, BudgetLeft, Over, vars
<1>6. returned'.kind \in {"nothing", "error", "collection"}
  <2>1. Build.kind \in {"error", "collection"}
    BY DEF Build, Err, Nothing
  <2>2. returned' = returned \/ returned' = Build
    BY DEF Next, Collect, Issue, IssueDenied, AllIssued, Return, Join, Finish,
           Drop, OtherRequest, Over, vars
  <2>3. QED
    BY <2>1, <2>2 DEF TypeOK
<1>7. \A i \in Indices : RepliesTo(i)' = RepliesTo(i)
  BY DEF RepliesTo
<1>8. QED
  BY <1>1, <1>2, <1>3, <1>4, <1>5, <1>6, <1>7 DEF TypeOK, Shape

-----------------------------------------------------------------------------
(* Theorems *)

(* In whatever order lookups end, each query without an answer has a note  *)
(* and no observation, and no other query has a note.                      *)
THEOREM FailuresHaveNotes == Spec => []FailuresAreNoted
<1>1. CollectInvariant => FailuresAreNoted
  <2>1. SUFFICES ASSUME CollectInvariant, Succeeded
                 PROVE  /\ returned.notes = {i \in Indices : ~Answered(i)}
                        /\ \A id \in returned.observed : Answered(id[1])
    BY DEF FailuresAreNoted
  <2>2. /\ Settled
        /\ returned.observed = Observed
        /\ returned.notes = Failed
    BY <2>1, ReturnedIsBuilt
  <2>3. \A i \in Indices : HasFailed(i) <=> ~Answered(i)
    BY <2>1, <2>2, FailedIffUnanswered
  <2>4. ASSUME NEW id \in returned.observed
        PROVE  Answered(id[1])
    <3>1. PICK i \in Indices : id \in Evidence(i)
      BY <2>2 DEF Observed
    <3>2. id[1] = i
      BY <3>1 DEF Evidence
    <3>3. ~HasFailed(i)
      BY <2>1, <2>2, <3>1, NoEvidenceOfFailure
    <3>4. QED
      BY <2>3, <3>2, <3>3
  <2>5. QED
    BY <2>2, <2>3, <2>4 DEF Failed
<1>2. QED
  BY <1>1, Invariance, PTL

(* What a collection cites is in the collection, whatever the answers.     *)
THEOREM EvidenceHolds == Spec => []EvidenceIsObserved
<1>1. CollectInvariant => EvidenceIsObserved
  <2>1. SUFFICES ASSUME CollectInvariant, NEW finding \in returned.findings
                 PROVE  finding.evidence \subseteq returned.observed
    BY DEF EvidenceIsObserved
  <2>2. Succeeded
    BY <2>1, FindingsAreOfCollections
  <2>3. QED
    BY <2>1, <2>2, ReturnedIsBuilt, CitedIsObserved
<1>2. QED
  BY <1>1, Invariance, PTL

(* That something is missing is only concluded when the query for it was   *)
(* answered, and that the domain does not exist only when a query for the  *)
(* domain itself was answered so: never from a timeout, a failure, a spent *)
(* budget or a task that panicked, in whatever order lookups end.          *)
THEOREM UnknownHolds == Spec => []UnknownIsNotAbsent
<1>1. CollectInvariant => UnknownIsNotAbsent
  <2> DEFINE Concluded(finding, about, q) ==
        finding.about = about => \E i \in Indices : Plan[i] = q /\ Answered(i)
  <2>1. SUFFICES ASSUME CollectInvariant, NEW finding \in returned.findings
                 PROVE  /\ Concluded(finding, "spf", "TXT")
                        /\ Concluded(finding, "dmarc", "DMARC")
                        /\ Concluded(finding, "caa", "CAA")
                        /\ Concluded(finding, "mx", "MX")
                        /\ finding.about = "domain" =>
                             \E i \in Indices : /\ Plan[i] # "DMARC"
                                                /\ replies[i].what = "nxdomain"
    BY DEF UnknownIsNotAbsent
  <2>2. Settled /\ finding \in Analyze \cup LimitFindings
    BY <2>1, FindingsAreOfCollections, ReturnedIsBuilt
  <2>3. \A q : Query(q) # {} => \E i \in Indices : Plan[i] = q /\ Answered(i)
    BY <2>1, <2>2, FailedIffUnanswered DEF Query
  <2>4. \A i \in Apex : outcomes[i].what = "nxdomain" =>
          /\ i \in Indices /\ Plan[i] # "DMARC"
          /\ replies[i].what = "nxdomain"
    BY <2>1, <2>2, NxDomainIsAnswered DEF Apex
  <2>5. QED
    BY <2>2, <2>3, <2>4, ConcludedFrom
<1>2. QED
  BY <1>1, Invariance, PTL

(* The types; in particular the collector and the others it shares the     *)
(* budget with never make more requests than the budget allows, and every  *)
(* outcome is that of one of the ways in which its query can end.          *)
THEOREM TypesHold == Spec => []TypeOK
<1>1. Init => TypeOK
  <2>1. Nothing.kind = "nothing"
    BY DEF Nothing
  <2>2. QED
    BY <2>1, IndicesAreNumbers, DnsConstants DEF Init, TypeOK, DnsConstants
<1>2. CollectInvariant /\ TypeOK /\ [Next]_vars => TypeOK'
  BY TypesInductive
<1>3. QED
  BY <1>1, <1>2, Invariance, PTL DEF Spec
=============================================================================
