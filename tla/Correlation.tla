----------------------------- MODULE Correlation -----------------------------
(***************************************************************************)
(* The correlation of a finished investigation (crates/correlation).       *)
(* Sources complete in any order, and the deadline may cut the rest off;   *)
(* then the rules are run over what was recorded.                          *)
(*                                                                         *)
(* An entity is a pair of its type and its value: a name, the number of an *)
(* address, an AS or a certificate, or a network, which is the set of its  *)
(* addresses.  An observation has an ID, a source, the entity it is about, *)
(* a kind of data, the name of a DNS record or else a value (the addresses *)
(* of a network), the counts that a provider gave, a time and a confidence. *)
(***************************************************************************)
EXTENDS Integers, Sequences, FiniteSets, SequencesExt, FiniteSetsExt

CONSTANTS
  Target,        \* the domain that is investigated
  Under,         \* the names under it
  Rank,          \* the order of names: a number for each
  Scenarios,     \* the sets of source runs that may complete
  MaxLinks,      \* rules/mod.rs, MAX_LINKS
  LinksPerName,  \* CT_LINKS_PER_NAME
  MaxGroups      \* MAX_CERTIFICATE_GROUPS

Items(sequence) == {sequence[i] : i \in DOMAIN sequence}

IDsIn(observations) == {o.id : o \in Items(observations)}

(* ObservationId::new_random *)
HasIDs(observations) ==
  \A i, j \in DOMAIN observations : observations[i].id = observations[j].id => i = j

IsEntity(e) ==
  /\ e = <<e[1], e[2]>>
  /\ e[1] = "domain" => e[2] \in DOMAIN Rank
  /\ e[1] = "cert" => e[2] \in Int

(* RelationKind::allows *)
Allows ==
  [resolves_to |-> <<"domain", "ip">>, alias_of |-> <<"domain", "domain">>,
   has_mail_exchanger |-> <<"domain", "domain">>,
   has_nameserver |-> <<"domain", "domain">>,
   announced_by |-> <<"ip", "as">>, registered_in |-> <<"ip", "network">>,
   covers_name |-> <<"cert", "domain">>, covers_wildcard |-> <<"cert", "domain">>]

(* Relationship::new: there is evidence for it. *)
IsRelationship(r) ==
  /\ r \in [kind : DOMAIN Allows, source : {r.source}, target : {r.target},
            evidence : Seq(Items(r.evidence)) \ {<<>>}]
  /\ IsEntity(r.source) /\ IsEntity(r.target)
  /\ <<r.source[1], r.target[1]>> = Allows[r.kind]

(* The collection of a run: its relationships cite its observations, each  *)
(* of which has an ID of its own.  Counts are far below 2^64.              *)
IsRun(run) ==
  /\ run \in [source : {run.source}, about : {run.about}, outcome : {run.outcome},
              observations : Seq(Items(run.observations)),
              relationships : Seq(Items(run.relationships))]
  /\ HasIDs(run.observations)
  /\ \A o \in Items(run.observations) : o.counts \in [DOMAIN o.counts -> Nat]
  /\ \A r \in Items(run.relationships) :
       /\ IsRelationship(r) /\ Items(r.evidence) \subseteq IDsIn(run.observations)

(* Relationship::is_same_edge *)
SameEdge(one, other) ==
  one.kind = other.kind /\ one.source = other.source /\ one.target = other.target

(* IDs are random, and what a run relates is the indicator it is about, or *)
(* certificates that only one source knows.                                *)
Apart(one, other) ==
  /\ IDsIn(one.observations) \cap IDsIn(other.observations) = {}
  /\ \A r \in Items(one.relationships), s \in Items(other.relationships) :
       ~SameEdge(r, s)

ASSUME CorrelationConstants ==
  /\ {MaxLinks, LinksPerName, MaxGroups} \subseteq Nat \ {0}
  /\ \A name \in DOMAIN Rank : Rank[name] \in Int
  /\ \A one, other \in DOMAIN Rank : Rank[one] = Rank[other] => one = other
  /\ \A scenario \in Scenarios :
       /\ IsFiniteSet(scenario) /\ \A run \in scenario : IsRun(run)
       /\ \A one, other \in scenario : one = other \/ Apart(one, other)

VARIABLES
  running,       \* the runs that have not completed
  completed,     \* those that have, as they are recorded
  investigation, \* what is recorded, in the order of completion
  report         \* CorrelationReport

vars == <<running, completed, investigation, report>>

-----------------------------------------------------------------------------
(* EvidenceIndex *)

(* The items of a set in a strict order. *)
Sorted(items, Before(_, _)) ==
  LET below == [x \in items |-> {y \in items : Before(y, x)}]
  IN [i \in 1..Cardinality(items) |->
        CHOOSE x \in items : Cardinality(below[x]) = i - 1]

When(condition, values) == IF condition THEN values ELSE {}

(* Bug: a limit is applied before the edges are sorted.                    *)
FirstRecorded(inv) ==
  [observations |-> Items(inv.observations),
   relationships |-> {inv.relationships[i] :
                        i \in {j \in DOMAIN inv.relationships : j <= MaxLinks}},
   sources |-> inv.sources, duplicates |-> FALSE]

(* EvidenceIndex::new: the first observation with an ID counts, and one of *)
(* each edge.                                                              *)
EvidenceIndex(inv) ==
  LET first == {j \in DOMAIN inv.observations :
                  \A k \in 1..(j - 1) : inv.observations[k].id # inv.observations[j].id}
      one == {j \in DOMAIN inv.relationships :
                \A k \in 1..(j - 1) :
                  ~SameEdge(inv.relationships[k], inv.relationships[j])}
  IN [observations |-> {inv.observations[j] : j \in first},
      relationships |-> {inv.relationships[j] : j \in one},
      sources |-> inv.sources,
      duplicates |-> Len(inv.observations) > Cardinality(first)]

Observed(index) == index.observations

IDs(index) == {o.id : o \in Observed(index)}

Edges(index) == index.relationships

OfKind(index, kind) == {r \in Edges(index) : r.kind = kind}
From(index, kind, entity) == {r \in OfKind(index, kind) : r.source = entity}
To(index, kind, entity) == {r \in OfKind(index, kind) : r.target = entity}

About(index, entity) == {o \in Observed(index) : o.about = entity}

KnownEntities(index) ==
  (UNION {{r.source, r.target} : r \in Edges(index)})
    \cup {o.about : o \in Observed(index)} \cup {Target}

(* unsuccessful_sources, in the order in which they are recorded.          *)
Unsuccessful(index, entity) ==
  FoldLeft(LAMBDA said, s : IF s.about = entity /\ s.outcome # "succeeded"
                            THEN Append(said, <<s.source, s.outcome>>) ELSE said,
           <<>>, index.sources)

CitedBy(links) == UNION {Items(link.evidence) : link \in links}

-----------------------------------------------------------------------------
(* Draft::build *)

Conflict(about, evidence) == [about |-> about, evidence |-> evidence]

Draft == [subjects |-> {}, links |-> {}, claims |-> {}, supporting |-> {},
          conflicts |-> {}, gaps |-> {}, limitations |-> {}]

EvidenceOf(draft) ==
  CitedBy(draft.links) \cup {claim.observation : claim \in draft.claims}
    \cup draft.supporting \cup UNION {c.evidence : c \in draft.conflicts}

IsBacked(index, draft) ==
  /\ \A c \in draft.conflicts : c.evidence # {}
  /\ EvidenceOf(draft) # {}
  /\ EvidenceOf(draft) \subseteq IDs(index)
  /\ draft.subjects \subseteq KnownEntities(index)

(* The identifier is derived from the kind, the subjects and the evidence. *)
Build(index, kind, draft) ==
  LET cited == {o \in Observed(index) : o.id \in EvidenceOf(draft)}
      times == {o.at : o \in cited}
  IN [id |-> <<kind, draft.subjects, EvidenceOf(draft)>>,
      content |-> [draft EXCEPT !.limitations =
        @ \cup When(Cardinality(times) > 1, {"not simultaneous"})],
      first |-> Min(times), last |-> Max(times),
      confidence |-> Min({o.confidence : o \in cited})]

-----------------------------------------------------------------------------
(* rules/infrastructure.rs: a name, its address, and the address's context *)

(* What each observation names, of the targets of some links.              *)
PerObservation(links) ==
  [id \in CitedBy(links) |->
     {link.target : link \in {l \in links : id \in Items(l.evidence)}}]

Disagreeing(links) ==
  LET named == PerObservation(links)
      sides == {named[id] : id \in DOMAIN named}
  IN When(Cardinality(sides) > 1, {DOMAIN named})

PrefixesOf(index, links) ==
  {o \in Observed(index) : /\ o.id \in CitedBy(links)
                         /\ o.data = "origin" /\ o.value # {}}

Overlaps(one, other) == Min(other) \in one \/ Min(one) \in other

(* containment *)
Contained(index, ip, announced, registered) ==
  LET prefixes == PrefixesOf(index, announced)
      inside == {o \in prefixes : ip[2] \in o.value}
      ranges == {o \in Observed(index) : /\ o.id \in CitedBy(registered)
                                       /\ o.data = "network" /\ o.value # {}
                                       /\ ip[2] \notin o.value}
      networks == {link.target[2] : link \in registered}
      firsts == {link.evidence[1] : link \in registered}
      apart == {o \in inside : /\ networks # {}
                               /\ \A net \in networks : ~Overlaps(o.value, net)}
  IN {Conflict(<<"prefix", o.value>>, {o.id}) : o \in prefixes \ inside}
       \cup {Conflict(<<"range", o.value>>, {o.id}) : o \in ranges}
       \cup {Conflict(<<"overlap", o.value>>, {o.id} \cup firsts) : o \in apart}

Infrastructure(index, resolves) ==
  LET ip == resolves.target
      announced == From(index, "announced_by", ip)
      registered == From(index, "registered_in", ip)
      links == {resolves} \cup announced \cup registered
      gap(kind, edges) == When(edges = {}, {<<kind, ip, Unsuccessful(index, ip)>>})
      several == \E id \in CitedBy(announced) :
                   Cardinality(PerObservation(announced)[id]) > 1
  IN [Draft EXCEPT
        !.subjects = {resolves.source} \cup {link.target : link \in links},
        !.links = links,
        !.conflicts =
          {Conflict(<<"origins", {ip[2]}>>, ids) : ids \in Disagreeing(announced)}
            \cup {Conflict(<<"networks", {ip[2]}>>, ids) : ids \in Disagreeing(registered)}
            \cup Contained(index, ip, announced, registered),
        !.gaps = gap("announced_by", announced) \cup gap("registered_in", registered),
        !.limitations = {"routing"} \cup When(several, {"several origins"})]

HasContext(index, resolves) ==
  /\ resolves.target[1] = "ip"
  /\ From(index, "announced_by", resolves.target)
       \cup From(index, "registered_in", resolves.target) # {}

InfrastructureDrafts(index) ==
  {Infrastructure(index, r) :
     r \in {s \in OfKind(index, "resolves_to") : HasContext(index, s)}}

-----------------------------------------------------------------------------
(* rules/certificates.rs *)

Covering == {"covers_name", "covers_wildcard"}

CoversOf(index, name) == UNION {To(index, kind, name) : kind \in Covering}

(* The index sorts edges by kind, source and target.                       *)
CoveringEdges(index) ==
  LET edges == UNION {OfKind(index, kind) : kind \in Covering}
      before(a, b) == \/ a.kind = "covers_name" /\ b.kind = "covers_wildcard"
                      \/ a.kind = b.kind /\ a.source[2] < b.source[2]
                      \/ a.kind = b.kind /\ a.source = b.source /\ a.target # b.target
                           /\ Rank[a.target[2]] < Rank[b.target[2]]
  IN Sorted(edges, before)

FirstLinks(index, name) ==
  LET edges == CoveringEdges(index)
      upTo(i) == {j \in 1..i : edges[j].target = name}
  IN {edges[i] : i \in {j \in DOMAIN edges : /\ edges[j].target = name
                                            /\ Cardinality(upTo(j)) <= LinksPerName}}

(* The records a name owns. *)
RecordsOf(index, name) ==
  {o \in Observed(index) : o.data \in {"address", "record"} /\ o.name = name[2]}

Addresses(index, name) == {o \in RecordsOf(index, name) : o.data = "address"}

DomainCertificate(index) ==
  LET links == CoversOf(index, Target)
      before(a, b) == \/ a.source[2] < b.source[2]
                      \/ a.source = b.source /\ a.kind # b.kind
                           /\ a.kind = "covers_name"
      order == Sorted(links, before)
      listed == {order[i] : i \in {j \in DOMAIN order : j <= MaxLinks}}
  IN [Draft EXCEPT
        !.subjects = {Target} \cup {link.source : link \in listed},
        !.links = listed,
        !.supporting = {o.id : o \in About(index, Target) \cap Addresses(index, Target)},
        !.limitations = {"certificate"} \cup When(links # listed, {"links"})]

NameKinds == {"resolves_to", "alias_of", "has_mail_exchanger", "has_nameserver"}

(* dns_names *)
InDns(index, name) ==
  \/ RecordsOf(index, name) # {}
  \/ \E kind \in NameKinds : From(index, kind, name) \cup To(index, kind, name) # {}

CtNames(index) ==
  {link.target : link \in {l \in UNION {OfKind(index, kind) : kind \in Covering} :
                             l.target \in Under}}

CtDnsNames(index) ==
  LET names == CtNames(index)
      shared == {name \in names : InDns(index, name)}
      sampled == {name \in shared : FirstLinks(index, name) # CoversOf(index, name)}
      dns(name) == UNION {From(index, kind, name) \cup To(index, kind, name) :
                            kind \in NameKinds}
  IN [Draft EXCEPT
        !.subjects = shared,
        !.links = UNION {FirstLinks(index, name) \cup dns(name) : name \in shared},
        !.supporting = {o.id : o \in UNION {RecordsOf(index, name) : name \in shared}},
        !.gaps = When(names # shared, {<<"not resolved", Target, <<>>>>}),
        !.limitations = {"certificate", "not resolved"}
                          \cup When(sampled # {}, {"links"})]

CertificateDrafts(index) ==
  When(CoversOf(index, Target) # {}, {<<"domain_certificate", DomainCertificate(index)>>})
    \cup When(\E name \in CtNames(index) : InDns(index, name),
              {<<"ct_dns_names", CtDnsNames(index)>>})

-----------------------------------------------------------------------------
(* rules/providers.rs *)

(* ProviderReputation::metric(..).unwrap_or(0) *)
Metric(o, name) == IF name \in DOMAIN o.counts THEN o.counts[name] ELSE 0

(* ENGINE_COUNTERS *)
Engines == {"malicious", "suspicious", "undetected", "harmless", "timeout"}

IPReputation(o) ==
  IF "total_reports" \notin DOMAIN o.counts THEN "unclear"
  ELSE IF o.counts["total_reports"] = 0 THEN "does_not_flag" ELSE "flags"

(* Bug: a counter that is missing counts as none. *)
ReputationOfKnown(o) ==
  IF Metric(o, "malicious") + Metric(o, "suspicious") > 0 THEN "flags"
  ELSE IF \E name \in Engines : Metric(o, name) > 0 THEN "does_not_flag"
  ELSE "unclear"

(* The counts have a sum of more than none if one of them is.              *)
ProviderReputation(o) ==
  IF Metric(o, "malicious") + Metric(o, "suspicious") > 0 THEN "flags"
  ELSE IF Engines \subseteq DOMAIN o.counts /\ \E name \in Engines : Metric(o, name) > 0
       THEN "does_not_flag"
  ELSE "unclear"

(* claim *)
Stance(o) ==
  CASE o.data = "ip reputation" -> IPReputation(o)
    [] o.data = "provider reputation" -> ProviderReputation(o)
    [] o.data = "listing" -> "flags"
    [] OTHER -> "no_record"

IsClaim(o) ==
  o.data \in {"ip reputation", "provider reputation", "listing", "no record"}

Claim(o) == [provider |-> o.source, observation |-> o.id, stance |-> Stance(o),
             at |-> o.at]

ClaimsAbout(index, entity) ==
  {Claim(o) : o \in {p \in About(index, entity) : IsClaim(p)}}

Providers(claims) == {claim.provider : claim \in claims}

MultipleSources(index, entity) ==
  [Draft EXCEPT !.subjects = {entity}, !.claims = ClaimsAbout(index, entity),
                !.limitations = {"own classifications"}]

Unflagged(claims) ==
  {claim \in claims : claim.stance \in {"does_not_flag", "no_record"}}

Flagging(claims) == {claim \in claims : claim.stance = "flags"}

ProviderConflicts(claims) ==
  LET flags == Flagging(claims)
      across == {claim \in Unflagged(claims) : claim.provider \notin Providers(flags)}
      of(provider) == {claim \in claims : claim.provider = provider}
      stances(provider) == {claim.stance : claim \in of(provider)} \ {"unclear"}
      cited(some) == {claim.observation : claim \in some}
  IN When(flags # {} /\ across # {}, {Conflict(<<"across", {}>>, cited(flags \cup across))})
       \cup {Conflict(<<"within", {p}>>, cited(of(p))) :
               p \in {q \in Providers(claims) : Cardinality(stances(q)) > 1}}

SourceDisagreement(index, entity) ==
  LET claims == ClaimsAbout(index, entity)
      conflicts == ProviderConflicts(claims)
      involved == UNION {c.evidence : c \in conflicts}
  IN [Draft EXCEPT
        !.subjects = {entity},
        !.claims = {claim \in claims : claim.observation \in involved},
        !.conflicts = conflicts,
        !.limitations = {"own classifications", "not resolved"}]

Subjects(index) == {o.about : o \in Observed(index)}

ProviderDrafts(index) ==
  {<<"multiple_sources", MultipleSources(index, e)>> :
      e \in {f \in Subjects(index) : Cardinality(Providers(ClaimsAbout(index, f))) >= 2}}
    \cup {<<"source_disagreement", SourceDisagreement(index, e)>> :
            e \in {f \in Subjects(index) : ProviderConflicts(ClaimsAbout(index, f)) # {}}}

-----------------------------------------------------------------------------
(* rules/shared.rs *)

Group(shared, members, links) ==
  [Draft EXCEPT !.subjects = {shared} \cup members, !.links = links,
                !.limitations = {"sharing"}]

TargetGroups(index, kind) ==
  LET links(shared) == To(index, kind, shared)
      members(shared) == {link.source : link \in links(shared)}
      shared == {link.target : link \in OfKind(index, kind)}
  IN {Group(s, members(s), links(s)) : s \in {t \in shared : Cardinality(members(t)) >= 2}}

Listing(index, certificate) ==
  UNION {From(index, kind, certificate) : kind \in Covering}

NamesIn(index, certificate) == {link.target : link \in Listing(index, certificate)}

ListingSeveral(index) ==
  {c \in {link.source : link \in UNION {OfKind(index, kind) : kind \in Covering}} :
     Cardinality(NamesIn(index, c)) >= 2}

(* Bug: the groups are taken as they come. *)
FirstListed(index, one, other) == one[2] < other[2]

(* Most names first; ties by certificate. *)
ListsMore(index, one, other) ==
  LET size(c) == Cardinality(NamesIn(index, c)) IN
  size(one) > size(other) \/ (size(one) = size(other) /\ one[2] < other[2])

CertificateGroups(index) ==
  LET order == Sorted(ListingSeveral(index), LAMBDA a, b : ListsMore(index, a, b))
      kept == {order[i] : i \in {j \in DOMAIN order : j <= MaxGroups}}
  IN {Group(c, NamesIn(index, c), Listing(index, c)) : c \in kept}

SharedDrafts(index) ==
  (UNION {TargetGroups(index, kind) :
            kind \in {"announced_by", "registered_in", "resolves_to"}})
    \cup CertificateGroups(index)

-----------------------------------------------------------------------------
(* correlate *)

Drafts(index) ==
  {<<"domain_ip_infrastructure", draft>> : draft \in InfrastructureDrafts(index)}
    \cup CertificateDrafts(index) \cup ProviderDrafts(index)
    \cup {<<"shared_infrastructure", draft>> : draft \in SharedDrafts(index)}

(* Of correlations with one identifier, one is kept; each has a finding.   *)
Correlate(index) ==
  LET backed == {d \in Drafts(index) : IsBacked(index, d[2])}
      built == {Build(index, d[1], d[2]) : d \in backed}
      one(id) == CHOOSE c \in built : c.id = id
  IN [correlations |-> {one(id) : id \in {c.id : c \in built}},
      limitations |->
        When(Cardinality(ListingSeveral(index)) > MaxGroups, {"groups"})
          \cup When(index.duplicates, {"duplicates"})
          \cup When(backed # Drafts(index), {"rejected"})]

-----------------------------------------------------------------------------
(* The investigation *)

NewInvestigation == [observations |-> <<>>, relationships |-> <<>>, sources |-> <<>>]

NoReport == [correlations |-> {}, limitations |-> {"none"}]

Init ==
  /\ running \in Scenarios
  /\ completed = {}
  /\ investigation = NewInvestigation
  /\ report = NoReport

(* Relationship::merge_evidence *)
AddEvidence(evidence, id) ==
  IF id \in Items(evidence) THEN evidence ELSE Append(evidence, id)

MergeEvidence(evidence, more) == FoldLeft(AddEvidence, evidence, more)

(* Investigation::add_relationship *)
AddRelationship(relationships, new) ==
  LET same == {i \in DOMAIN relationships : SameEdge(relationships[i], new)}
  IN IF same = {} THEN Append(relationships, new)
     ELSE [relationships EXCEPT ![CHOOSE i \in same : TRUE].evidence =
             MergeEvidence(@, new.evidence)]

Recorded(inv, run) ==
  [observations |-> inv.observations \o run.observations,
   relationships |-> FoldLeft(AddRelationship, inv.relationships, run.relationships),
   sources |-> Append(inv.sources, [source |-> run.source, about |-> run.about,
                                    outcome |-> run.outcome])]

RecordedAll(inv, runs) == FoldLeft(Recorded, inv, runs)

Complete ==
  \E run \in running :
    /\ running' = running \ {run}
    /\ completed' = completed \cup {run}
    /\ investigation' = Recorded(investigation, run)
    /\ UNCHANGED report

(* The deadline: the rest have timed out, and observed nothing; they are   *)
(* recorded in the order of a HashMap, which is any.                       *)
TimedOut(run) ==
  [run EXCEPT !.observations = <<>>, !.relationships = <<>>, !.outcome = "timed_out"]

CutOff ==
  LET late == {TimedOut(run) : run \in running} IN
  /\ running # {}
  /\ running' = {}
  /\ completed' = completed \cup late
  /\ \E order \in SetToSeqs(late) : investigation' = RecordedAll(investigation, order)
  /\ UNCHANGED report

Finish ==
  /\ running = {} /\ report = NoReport
  /\ report' = Correlate(EvidenceIndex(investigation))
  /\ UNCHANGED <<running, completed, investigation>>

Over == report # NoReport /\ UNCHANGED vars

Next == Complete \/ CutOff \/ Finish \/ Over

Spec == Init /\ [][Next]_vars

-----------------------------------------------------------------------------
(* Properties *)

Done == report # NoReport

Index == EvidenceIndex(investigation)

(* All that some runs observed and related; the statuses in any order.     *)
Everything(runs) ==
  LET edges(run) == Items(Recorded(NewInvestigation, run).relationships)
      status(run) == [source |-> run.source, about |-> run.about, outcome |-> run.outcome]
  IN [observations |-> UNION {Items(run.observations) : run \in runs},
      relationships |-> UNION {edges(run) : run \in runs},
      sources |-> SetToSeq({status(run) : run \in runs}), duplicates |-> FALSE]

PlainGaps(c) == {<<gap[1], gap[2], Items(gap[3])>> : gap \in c.content.gaps}

(* A report but for the order in which a gap gives the sources.            *)
Plain(r) ==
  [correlations |-> {[c EXCEPT !.content.gaps = PlainGaps(c)] : c \in r.correlations},
   limitations |-> r.limitations]

(* But for the order in which a gap gives the sources, a report depends    *)
(* only on which runs completed and on the sets of what they observed and  *)
(* related: not on the order of completion, or in which a run lists it.    *)
OrderIsIrrelevant ==
  Done => Plain(report) = Plain(Correlate(Everything(completed)))

(* The same statuses, inserted in reverse order, make the same report:     *)
(* lib.rs has "Deterministic. Ordered indexes, sorted output" and tests.rs *)
(* an insertion_order_does_not_change_the_result, which records no status. *)
StatusOrderIsIrrelevant ==
  Done => report =
    Correlate(EvidenceIndex([investigation EXCEPT !.sources = Reverse(@)]))

OfType(kind) == {c \in report.correlations : c.id[1] = kind}

Observations == UNION {Items(run.observations) : run \in completed}

(* What a provider says, by the table of docs/CORRELATION.md.              *)
CountsAny(o, names) == \E name \in names \cap DOMAIN o.counts : o.counts[name] > 0

SaysBad(o) ==
  \/ o.data = "listing"
  \/ o.data = "ip reputation" /\ CountsAny(o, {"total_reports"})
  \/ o.data = "provider reputation" /\ CountsAny(o, {"malicious", "suspicious"})

SaysNotBad(o) ==
  /\ ~SaysBad(o)
  /\ \/ o.data = "ip reputation" /\ "total_reports" \in DOMAIN o.counts
     \/ o.data = "provider reputation" /\ Engines \subseteq DOMAIN o.counts
                                       /\ CountsAny(o, Engines)

HasNoRecord(o) == o.data = "no record"

(* Two answers that cannot both describe the entity, or that one provider  *)
(* gave of it.                                                             *)
Contradict(one, other) ==
  \/ SaysBad(one) /\ (SaysNotBad(other) \/ HasNoRecord(other))
  \/ one.source = other.source /\ SaysNotBad(one) /\ HasNoRecord(other)

(* A disagreement is reported exactly when there is one in what the        *)
(* providers answered: a conflict cites two answers that contradict each   *)
(* other, and every answer it cites is listed as what it says.             *)
ProvidersDisagree ==
  \A entity \in {o.about : o \in Observations} :
    LET answers == {o \in Observations : o.about = entity}
        reported == {c \in OfType("source_disagreement") : entity \in c.content.subjects}
        listed(o, claims) ==
          \E claim \in claims : /\ claim.observation = o.id
                                /\ claim.stance = "flags" <=> SaysBad(o)
                                /\ claim.stance = "does_not_flag" <=> SaysNotBad(o)
                                /\ claim.stance = "no_record" <=> HasNoRecord(o)
    IN /\ reported # {} <=> \E one, other \in answers : Contradict(one, other)
       /\ \A c \in reported : \A conflict \in c.content.conflicts :
            /\ \E one, other \in answers : /\ Contradict(one, other)
                                          /\ {one.id, other.id} \subseteq conflict.evidence
            /\ \A id \in conflict.evidence :
                 \E o \in answers : o.id = id /\ listed(o, c.content.claims)

(* Origins conflict when one observation has one that another has not: not *)
(* when a single one lists several.                                        *)
OriginsDisagree ==
  \A c \in OfType("domain_ip_infrastructure") :
    LET announced == {link \in c.content.links : link.kind = "announced_by"}
        ids == CitedBy(announced)
    IN (\E conflict \in c.content.conflicts : conflict.about[1] = "origins")
         <=> \E link \in announced : \E id \in ids : id \notin Items(link.evidence)

DisagreementsAreReal == Done => ProvidersDisagree /\ OriginsDisagree

(* Names that one certificate lists are reported as sharing it, unless the *)
(* report says that groups were left out, and then those that are reported *)
(* list no fewer names than those that are not.                            *)
GroupsAreLargest ==
  LET groups == OfType("shared_infrastructure")
      about(c) == {g \in groups : c \in g.content.subjects}
  IN \A c \in ListingSeveral(Index) :
       about(c) = {} =>
         /\ "groups" \in report.limitations
         /\ \A other \in ListingSeveral(Index) :
              about(other) # {} =>
                Cardinality(NamesIn(Index, other))
                  >= Cardinality(NamesIn(Index, c))

(* Certificates of a name are left out of a correlation of its exactly     *)
(* when its limitations say so.                                            *)
LinksAreTold ==
  /\ \A c \in OfType("domain_certificate") :
       "links" \notin c.content.limitations
         <=> CoversOf(Index, Target) \subseteq c.content.links
  /\ \A c \in OfType("ct_dns_names") :
       "links" \notin c.content.limitations
         <=> \A name \in c.content.subjects : CoversOf(Index, name) \subseteq c.content.links

(* An address whose origin or registration no completed run has related    *)
(* has a gap for it, and no other has; it gives the outcomes of those runs *)
(* about the address that did not succeed.                                 *)
GapsAreExplained ==
  \A c \in OfType("domain_ip_infrastructure") :
    \A ip \in {e \in c.content.subjects : e[1] = "ip"} :
      LET related(kind) == \E run \in completed : \E r \in Items(run.relationships) :
                             r.kind = kind /\ r.source = ip
          failed == {run \in completed : run.about = ip /\ run.outcome # "succeeded"}
          reasons == {<<run.source, run.outcome>> : run \in failed}
      IN PlainGaps(c) =
           {<<kind, ip, reasons>> :
              kind \in {k \in {"announced_by", "registered_in"} : ~related(k)}}

(* Nothing that connects two entities is missing from the report without a *)
(* word: no draft is rejected or taken for another, certificates and groups *)
(* that are cut off are told of, and an address with some of its context   *)
(* has a gap, with the reasons, for what it lacks.                         *)
NothingIsLostUnsaid ==
  Done => /\ "rejected" \notin report.limitations
          /\ Cardinality(report.correlations) = Cardinality(Drafts(Index))
          /\ GroupsAreLargest
          /\ LinksAreTold
          /\ GapsAreExplained
=============================================================================
