------------------------------ MODULE Policies ------------------------------
(***************************************************************************)
(* What the analyzers read in one SPF record, one DMARC record or the CAA  *)
(* records of a domain (crates/collectors/src/analysis).  Module Dns has   *)
(* what becomes of queries that fail and of several or no such records.    *)
(***************************************************************************)
EXTENDS Integers, Sequences, FiniteSets

CONSTANTS
  MaxTerms,    \* spf.rs, MAX_TERMS
  MaxLookups,  \* MAX_DNS_LOOKUPS
  MaxTags      \* dmarc.rs, MAX_TAGS

ASSUME PoliciesConstants ==
  {MaxTerms, MaxLookups, MaxTags} \subseteq Nat

Earliest(places) == {i \in places : \A j \in places : i <= j}

(* A finding for each of some things, if there are any.                    *)
If(condition, finding) == IF condition THEN {finding} ELSE {}

-----------------------------------------------------------------------------
(* SPF: a term has a sign (or none), a name in lower case, what follows    *)
(* the name ("" for the end of the term), and an argument.                 *)

Term(sign, name, follows, argument) ==
  [sign |-> sign, name |-> name, follows |-> follows, argument |-> argument]

Mechanism(term) ==
  CASE term.name = "all" -> term.follows = ""
    [] term.name \in {"include", "exists", "ip4", "ip6"} ->
         term.follows = ":" /\ term.argument = "good"
    [] term.name \in {"a", "mx"} ->
         \/ term.follows \in {"", "/"}
         \/ term.follows = ":" /\ term.argument = "good"
    [] term.name = "ptr" ->
         term.follows = "" \/ (term.follows = ":" /\ term.argument = "good")
    [] OTHER -> FALSE

(* A modifier takes no sign; what it says is only looked at for redirect.  *)
Modifier(term) ==
  /\ term.follows = "=" /\ term.sign = "" /\ term.name # "bad"
  /\ term.name = "redirect" => term.argument = "good"

IsValidTerm(term) == Mechanism(term) \/ Modifier(term)

AsksDNS(term) ==
  \/ Mechanism(term) /\ term.name \in {"include", "exists", "a", "mx", "ptr"}
  \/ Modifier(term) /\ term.name = "redirect"

TermsOf(record, name) ==
  {i \in DOMAIN record :
     i <= MaxTerms /\ record[i].name = name /\ IsValidTerm(record[i])}

Qualifier(term) ==
  CASE term.sign = "-" -> "hardfail"
    [] term.sign = "~" -> "softfail"
    [] term.sign = "?" -> "neutral_all"
    [] OTHER -> "permissive_all"

(* "all=" is a modifier that is not known. *)
AllTerms(record) == {i \in TermsOf(record, "all") : record[i].follows = ""}

Redirects(record) == {i \in TermsOf(record, "redirect") : Modifier(record[i])}

(* Bug: the last mechanism of all counts. *)
LastAll(record) ==
  {Qualifier(record[i]) :
     i \in {j \in AllTerms(record) : \A k \in AllTerms(record) : k <= j}}

FirstAll(record) == {Qualifier(record[i]) : i \in Earliest(AllTerms(record))}

SpfPolicy(record) ==
  CASE AllTerms(record) # {} -> FirstAll(record)
    [] AllTerms(record) = {} /\ Redirects(record) # {} -> {"redirect"}
    [] OTHER -> {"no_all"}

Examined(record) == {i \in DOMAIN record : i <= MaxTerms}

SpfFindings(record) ==
  LET lookups == {i \in Examined(record) : AsksDNS(record[i])}
      includes == {i \in TermsOf(record, "include") : Mechanism(record[i])}
      pointers == {i \in TermsOf(record, "ptr") : Mechanism(record[i])}
  IN SpfPolicy(record)
       \cup If(includes # {}, "includes")
       \cup If(Cardinality(lookups) > MaxLookups, "too_many_lookups")
       \cup If(pointers # {}, "ptr_mechanism")
       \cup If(\/ \E i \in Examined(record) : ~IsValidTerm(record[i])
               \/ DOMAIN record # Examined(record), "malformed")

-----------------------------------------------------------------------------
(* DMARC: a tag has a name and a value; the name of one without "=" is "". *)
(* A percentage is "full", "partial" or none, a list of addresses may be "".*)

Tag(name, value) == [name |-> name, value |-> value]

(* The tags that count: the first of each name.                            *)
Effective(record) ==
  {i \in DOMAIN record :
     /\ i <= MaxTags /\ record[i].name # ""
     /\ \A j \in 1..(i - 1) : record[j].name # record[i].name}

ValuesOf(record, name) ==
  {record[i].value : i \in {j \in Effective(record) : record[j].name = name}}

ValidValues(name) ==
  CASE name \in {"p", "sp"} -> {"none", "quarantine", "reject"}
    [] name \in {"adkim", "aspf"} -> {"r", "s"}
    [] name = "pct" -> {"partial", "full"}

Accepted(record, name) == ValuesOf(record, name) \cap ValidValues(name)

Reports(record, name) == ValuesOf(record, name) \ {""} # {}

DmarcIssues(record) ==
  LET examined == {i \in DOMAIN record : i <= MaxTags} IN
  If(\E i \in examined : record[i].name = "", "no value")
    \cup If(\E i \in examined \ Effective(record) : record[i].name # "", "twice")
    \cup {name \in {"p", "sp", "pct", "adkim", "aspf"} :
            ValuesOf(record, name) \ ValidValues(name) # {}}
    \cup If(DOMAIN record # examined, "too many tags")
    \cup If(ValuesOf(record, "p") = {}, "p")

DmarcReporting(record) ==
  If(~Reports(record, "rua"), <<"no_aggregate_reporting", "">>)
    \cup If(Reports(record, "rua"), <<"aggregate_reporting", "">>)
    \cup If(Reports(record, "ruf"), <<"failure_reporting", "">>)
    \cup If("s" \in Accepted(record, "adkim") \cup Accepted(record, "aspf"),
            <<"strict_alignment", "">>)

DmarcFindings(record) ==
  If(DmarcIssues(record) # {}, <<"malformed", "">>)
    \cup {<<"policy", policy>> : policy \in Accepted(record, "p")}
    \cup {<<"subdomain_policy", policy>> : policy \in Accepted(record, "sp")}
    \cup If("partial" \in Accepted(record, "pct"), <<"pct_partial", "">>)
    \cup DmarcReporting(record)

-----------------------------------------------------------------------------
(* CAA: a record has a flag, a tag in lower case and a value, for issuing  *)
(* "" (nobody), "bad" (no domain name) or an issuer.                       *)

CaaRecord(critical, tag, value) ==
  [critical |-> critical, tag |-> tag, value |-> value]

KnownTags == {"issue", "issuewild", "iodef", "contactemail", "contactphone",
              "issuemail", "issuevmc"}

Tagged(records, tag) == {i \in DOMAIN records : records[i].tag = tag}

Issuers(records, tag) ==
  {records[i].value : i \in Tagged(records, tag)} \ {"", "bad"}

(* issuance_findings *)
Issuance(records, tag) ==
  LET forbids == \E i \in Tagged(records, tag) : records[i].value = "" IN
  CASE Issuers(records, tag) # {} -> {<<tag, "restricted">>}
    [] Issuers(records, tag) = {} /\ forbids -> {<<tag, "forbidden">>}
    [] OTHER -> {}

(* The first of identical records is not a duplicate.                      *)
Duplicates(records) ==
  {i \in DOMAIN records : \E j \in 1..(i - 1) : records[j] = records[i]}

CaaFindings(records) ==
  LET issuing == Tagged(records, "issue") \cup Tagged(records, "issuewild") IN
  Issuance(records, "issue") \cup Issuance(records, "issuewild")
    \cup If(issuing = {}, <<"no_issue_restriction", "">>)
    \cup If(Tagged(records, "iodef") # {}, <<"iodef", "">>)
    \cup If(\E i \in DOMAIN records :
              records[i].critical /\ records[i].tag \notin KnownTags,
            <<"unknown_critical_tag", "">>)
    \cup If(\E i \in issuing : records[i].value = "bad", <<"malformed", "">>)
    \cup If(Duplicates(records) # {}, <<"duplicate_records", "">>)
=============================================================================
