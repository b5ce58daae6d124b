-------------------------------- MODULE Dns --------------------------------
(***************************************************************************)
(* The DNS collector (crates/collectors/src/sources/dns.rs) and what the   *)
(* analyzers (crates/collectors/src/analysis) conclude from its answers:   *)
(* one collect future issues the queries of a fixed plan, each charged to  *)
(* the budget it shares with other collectors, joins their tasks in any    *)
(* order and builds a collection from their outcomes.                      *)
(*                                                                         *)
(* A record is what the analyzers tell apart: its kind, and whether it is  *)
(* longer than the limit of its type.  The policies inside one SPF, DMARC  *)
(* or CAA record are left out.                                             *)
(***************************************************************************)
EXTENDS Integers, Sequences, FiniteSets

CONSTANTS
  Plan,        \* plan(domain): the queries, "DMARC" for TXT at _dmarc.<domain>
  Answers,     \* Answers[q]: the record sequences query q may be answered by
  MaxRequests, \* the request budget of the investigation
  MaxRecords   \* MAX_RECORDS_PER_QUERY

Kinds == {"address", "private", "null_mx", "mx", "spf", "dmarc", "text",
          "issue", "iodef"}
Record == [kind : Kinds, big : BOOLEAN]
Texts == {"TXT", "DMARC"}

Indices == DOMAIN Plan

ASSUME DnsConstants ==
  /\ Plan \in Seq({"A", "MX", "TXT", "CAA", "DMARC"})
  /\ \A i, j \in Indices : Plan[i] = Plan[j] => i = j
  /\ \A i \in Indices : Answers[Plan[i]] \subseteq Seq(Record)
  /\ MaxRequests \in Nat /\ MaxRecords \in Nat

VARIABLES
  phase,    \* where collect is: "issuing", "joining", "returned", "dropped"
  next,     \* the index of the query that is issued next
  tasks,    \* the task of each query
  replies,  \* what each task has ended with
  outcomes, \* resolve_all's outcomes
  used,     \* RequestBudget.used
  returned  \* what collect returns

vars == <<phase, next, tasks, replies, outcomes, used, returned>>

-----------------------------------------------------------------------------
(* Replies, outcomes and results *)

Outcome(what, records) == [what |-> what, records |-> records]
Bare(what) == Outcome(what, <<>>)

(* How a task can end; "timeout" includes the QUERY_TIMEOUT of the task.   *)
RepliesTo(i) ==
  {Outcome("records", records) : records \in Answers[Plan[i]]}
    \cup {Bare(what) : what \in {"nxdomain", "nodata", "timeout", "failure",
                                 "panic"}}

OutcomeOf(reply) ==
  CASE reply.what = "records" /\ reply.records = <<>> -> Bare("nodata")
    [] reply.what = "panic" -> Bare("incomplete")
    [] OTHER -> reply

Negatives == {"nxdomain", "nodata"}
Failures == {"timeout", "failure", "budget", "incomplete"}

Examined(i) ==
  {k \in DOMAIN outcomes[i].records : k <= MaxRecords}

(* apply_limits: the places of the records that are kept.  Longer texts    *)
(* are truncated, other long records are dropped.                          *)
Entries(i) ==
  {k \in Examined(i) : outcomes[i].records[k].big => Plan[i] \in Texts}

WasLimited(i) ==
  \/ Len(outcomes[i].records) > MaxRecords
  \/ \E k \in Examined(i) : outcomes[i].records[k].big

HasFailed(i) == outcomes[i].what \in Failures

(* An observation is known by its query and its place in the answer; an    *)
(* observed absence has place 0.                                           *)
Evidence(i) ==
  {<<i, k>> : k \in Entries(i)}
    \cup (IF outcomes[i].what \in Negatives THEN {<<i, 0>>} ELSE {})

OfKind(i, kind) ==
  {<<i, k>> : k \in {l \in Entries(i) : outcomes[i].records[l].kind = kind}}

-----------------------------------------------------------------------------
(* analysis::analyze *)

Finding(about, says, evidence) ==
  [about |-> about, says |-> says, evidence |-> evidence]

(* Bug: _dmarc.<domain> is taken for the domain. *)
ApexOrDmarc == Indices

Apex == {i \in Indices : Plan[i] # "DMARC"}

Query(q) == {i \in Indices : Plan[i] = q /\ ~HasFailed(i)}

AddressFindings ==
  LET private == UNION {OfKind(i, "private") : i \in Query("A")} IN
  {Finding("address", "non_public", private) : e \in private}

NullMxFindings ==
  {Finding("mx", "null", Evidence(i)) :
     i \in {j \in Query("MX") : /\ Cardinality(Entries(j)) = 1
                                /\ OfKind(j, "null_mx") # {}}}

(* spf::analyze and dmarc::analyze: none, one, or several such texts. *)
PolicyOf(i, kind) ==
  LET found == OfKind(i, kind) IN
  CASE Cardinality(found) = 0 -> Finding(kind, "missing", Evidence(i))
    [] Cardinality(found) = 1 -> Finding(kind, "policy", found)
    [] OTHER -> Finding(kind, "multiple", found)

PolicyFindings ==
  {PolicyOf(i, "spf") : i \in Query("TXT")}
    \cup {PolicyOf(i, "dmarc") : i \in Query("DMARC")}

CaaOf(i) ==
  IF outcomes[i].what \in Negatives
  THEN {Finding("caa", "missing", Evidence(i))}
  ELSE {IF OfKind(i, "issue") = {}
        THEN Finding("caa", "no_issue_restriction", Evidence(i))
        ELSE Finding("caa", "issue", OfKind(i, "issue"))}
       \cup {Finding("caa", "iodef", OfKind(i, "iodef")) :
               e \in OfKind(i, "iodef")}

CaaFindings == UNION {CaaOf(i) : i \in Query("CAA")}

(* The first apex query that says NXDOMAIN, in the order of types: for the *)
(* types of Plan here, that of the plan.                                   *)
NxDomainFindings ==
  LET nonexistent == {i \in Apex : outcomes[i].what = "nxdomain"} IN
  {Finding("domain", "nxdomain", Evidence(i)) :
     i \in {j \in nonexistent : \A l \in nonexistent : j <= l}}

Analyze ==
  IF NxDomainFindings # {} THEN NxDomainFindings
  ELSE AddressFindings \cup NullMxFindings \cup PolicyFindings \cup CaaFindings

-----------------------------------------------------------------------------
(* build_collection *)

Observed == UNION {Evidence(i) : i \in Indices}
Failed == {i \in Indices : HasFailed(i)}

FirstFailure == CHOOSE i \in Failed : \A j \in Failed : i <= j

(* Bug: the evidence is that of the answer, not of what was kept. *)
LimitFindingsOfAnswer ==
  LET limited == {i \in Indices : WasLimited(i)} IN
  {Finding("records", "limit_exceeded",
           UNION {{<<i, k>> : k \in Examined(i)} : i \in limited}) :
     e \in limited}

LimitFindings ==
  LET limited == {i \in Indices : WasLimited(i)} IN
  {Finding("records", "limit_exceeded",
           UNION {Evidence(i) : i \in limited}) : e \in limited}

(* add_relationships: what is offered as a pivot. *)
Pivots ==
  UNION {OfKind(i, kind) :
           i \in Query("A"), kind \in {"address", "private"}}

(* A collection, or an error; either is there in every record.             *)
Nothing == [kind |-> "nothing", error |-> "none", observed |-> {},
            notes |-> {}, findings |-> {}, pivots |-> {}]
Err(what) == [Nothing EXCEPT !.kind = "error", !.error = what]

Build ==
  IF Observed = {} /\ Failed # {} THEN Err(outcomes[FirstFailure].what)
  ELSE [kind |-> "collection", error |-> "none",
        observed |-> Observed, notes |-> Failed,
        findings |-> Analyze \cup LimitFindings, pivots |-> Pivots]

-----------------------------------------------------------------------------
Init ==
  /\ phase = "issuing"
  /\ next = 1
  /\ tasks = [i \in Indices |-> "unborn"]
  /\ replies = [i \in Indices |-> Bare("none")]
  /\ outcomes = [i \in Indices |-> Bare("incomplete")]
  /\ used = 0
  /\ returned = Nothing

BudgetLeft == used < MaxRequests

(* One round of resolve_all's loop: acquire_request, then spawn.           *)
Issue ==
  /\ phase = "issuing" /\ next \in Indices
  /\ BudgetLeft
  /\ used' = used + 1
  /\ tasks' = [tasks EXCEPT ![next] = "asking"]
  /\ next' = next + 1
  /\ UNCHANGED <<phase, replies, outcomes, returned>>

IssueDenied ==
  /\ phase = "issuing" /\ next \in Indices
  /\ ~BudgetLeft
  /\ outcomes' = [outcomes EXCEPT ![next] = Bare("budget")]
  /\ next' = next + 1
  /\ UNCHANGED <<phase, tasks, replies, used, returned>>

AllIssued ==
  /\ phase = "issuing" /\ next \notin Indices
  /\ phase' = "joining"
  /\ UNCHANGED <<next, tasks, replies, outcomes, used, returned>>

(* A task ends: answered, out of time, failed, or by a panic.              *)
Finish(i) ==
  /\ tasks[i] = "asking"
  /\ \E reply \in RepliesTo(i) : replies' = [replies EXCEPT ![i] = reply]
  /\ tasks' = [tasks EXCEPT ![i] = "done"]
  /\ UNCHANGED <<phase, next, outcomes, used, returned>>

(* Bug: outcomes are listed in the order of completion. *)
JoinInOrder(i) ==
  /\ phase = "joining" /\ tasks[i] = "done"
  /\ LET place == 1 + Cardinality({j \in Indices : tasks[j] = "joined"}) IN
     outcomes' = [outcomes EXCEPT ![place] = OutcomeOf(replies[i])]
  /\ tasks' = [tasks EXCEPT ![i] = "joined"]
  /\ UNCHANGED <<phase, next, replies, used, returned>>

(* Bug: a task that panicked is never taken from the set. *)
JoinAnswered(i) ==
  /\ phase = "joining" /\ tasks[i] = "done"
  /\ replies[i].what # "panic"
  /\ outcomes' = [outcomes EXCEPT ![i] = OutcomeOf(replies[i])]
  /\ tasks' = [tasks EXCEPT ![i] = "joined"]
  /\ UNCHANGED <<phase, next, replies, used, returned>>

(* join_next yields a task; that of a panic leaves its outcome as it was.  *)
Join(i) ==
  /\ phase = "joining" /\ tasks[i] = "done"
  /\ outcomes' = [outcomes EXCEPT ![i] = OutcomeOf(replies[i])]
  /\ tasks' = [tasks EXCEPT ![i] = "joined"]
  /\ UNCHANGED <<phase, next, replies, used, returned>>

Return ==
  /\ phase = "joining"
  /\ \A i \in Indices : tasks[i] \in {"unborn", "joined"}
  /\ phase' = "returned"
  /\ returned' = Build
  /\ UNCHANGED <<next, tasks, replies, outcomes, used>>

(* The engine drops the future, at an await; the JoinSet aborts its tasks. *)
Drop ==
  /\ phase = "joining"
  /\ \E i \in Indices : tasks[i] \in {"asking", "done"}
  /\ phase' = "dropped"
  /\ tasks' = [i \in Indices |-> IF tasks[i] = "asking" THEN "aborted"
                                 ELSE tasks[i]]
  /\ UNCHANGED <<next, replies, outcomes, used, returned>>

(* Another collector of the investigation makes a request.                 *)
OtherRequest ==
  /\ BudgetLeft
  /\ used' = used + 1
  /\ UNCHANGED <<phase, next, tasks, replies, outcomes, returned>>

Over == phase \in {"returned", "dropped"} /\ UNCHANGED vars

Collect == Issue \/ IssueDenied \/ AllIssued \/ Return
              \/ \E i \in Indices : Join(i)

Next ==
  \/ Collect
  \/ \E i \in Indices : Finish(i)
  \/ Drop
  \/ OtherRequest
  \/ Over

Spec == Init /\ [][Next]_vars

(* The executor polls the collector, and every lookup ends: it has a timer *)
(* of its own.                                                             *)
FairSpec ==
  /\ Spec
  /\ WF_vars(Collect)
  /\ \A i \in Indices : WF_vars(Finish(i))

-----------------------------------------------------------------------------
(* Properties *)

(* The type invariant. *)
TypeOK ==
  /\ phase \in {"issuing", "joining", "returned", "dropped"}
  /\ next \in 1..(Len(Plan) + 1)
  /\ tasks \in [Indices -> {"unborn", "asking", "done", "joined", "aborted"}]
  /\ \A i \in Indices :
       replies[i] \in RepliesTo(i) \cup {Bare("none")}
  /\ \A i \in Indices :
       outcomes[i] \in RepliesTo(i)
                         \cup {Bare("budget"), Bare("incomplete")}
  /\ used \in 0..MaxRequests
  /\ returned.kind \in {"nothing", "error", "collection"}

Succeeded == returned.kind = "collection"

Answered(i) == replies[i].what \in {"records"} \cup Negatives

(* "A failed query yields a partial-failure note, not an observation": in  *)
(* whatever order the tasks end, each query that got no answer has a note  *)
(* and no observation, and no other query has a note.                      *)
FailuresAreNoted ==
  Succeeded =>
    /\ returned.notes = {i \in Indices : ~Answered(i)}
    /\ \A id \in returned.observed : Answered(id[1])

(* "Unknown is not absent": that something is missing is only concluded    *)
(* when the query for it was answered, and that the domain does not exist  *)
(* only from a query for the domain itself.                                *)
UnknownIsNotAbsent ==
  \A finding \in returned.findings :
    LET concluded(about, q) ==
          finding.about = about =>
            \E i \in Indices : Plan[i] = q /\ Answered(i)
    IN /\ concluded("spf", "TXT")
       /\ concluded("dmarc", "DMARC")
       /\ concluded("caa", "CAA")
       /\ concluded("mx", "MX")
       /\ finding.about = "domain" =>
            \E i \in Indices : /\ Plan[i] # "DMARC"
                               /\ replies[i].what = "nxdomain"

(* What a collection cites is in the collection: the engine would discard  *)
(* a finding that cites anything else.                                     *)
EvidenceIsObserved ==
  \A finding \in returned.findings : finding.evidence \subseteq returned.observed

(* collect ends, whatever the lookups do. *)
CollectEnds == <>(phase \in {"returned", "dropped"})

(* docs/FINDINGS.md on dns.spf.missing: "No TXT record starting with       *)
(* `v=spf1`."                                                              *)
SpfMissingMeansNone ==
  \A finding \in returned.findings :
    finding.about = "spf" /\ finding.says = "missing" =>
      \A i \in Indices : Plan[i] = "TXT" =>
        \A k \in DOMAIN replies[i].records : replies[i].records[k].kind # "spf"
=============================================================================
