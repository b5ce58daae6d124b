-------------------------------- MODULE Asn --------------------------------
(***************************************************************************)
(* How the Cymru collector reads the TXT records that say which autonomous *)
(* systems announce an address, and what one of them is called             *)
(* (crates/collectors/src/sources/cymru.rs).                               *)
(*                                                                         *)
(* A record says whether it has the five fields, and what its fields are:  *)
(* AS numbers (0 for one that is not valid), a prefix, and the fields of   *)
(* both kinds of record, each "" when it is not there.                     *)
(***************************************************************************)
EXTENDS Integers, Sequences, FiniteSets

CONSTANTS
  MaxOrigins,      \* MAX_ORIGIN_RECORDS
  MaxASNs,         \* MAX_ASNS
  MaxDescriptions  \* MAX_DESCRIPTIONS

ASSUME AsnConstants ==
  /\ MaxOrigins \in Nat /\ MaxASNs \in Nat /\ MaxDescriptions \in Nat

(* country, registry and date *)
FieldIssues(text) ==
  {<<field, "not valid">> : field \in {f \in {"country", "registry", "allocated"} :
                                         text[f] = "bad"}}
    \cup {<<"answer", "not five fields">> : n \in {text.fields} \ {5}}

(* parse_origin *)
PrefixIssues(text) ==
  {<<"prefix", "not a CIDR of this family">> : p \in {text.prefix} \cap {"bad"}}

ParseOrigin(text) ==
  LET examined == {i \in DOMAIN text.asns : i <= MaxASNs}
      numbers == {text.asns[i] : i \in examined}
  IN [asns |-> numbers \ {0},
      prefix |-> IF text.prefix = "bad" THEN "" ELSE text.prefix,
      issues |-> FieldIssues(text) \cup PrefixIssues(text)
        \cup {<<"asns", "not valid">> : n \in numbers \cap {0}}
        \cup {<<"asns", "too many">> : i \in DOMAIN text.asns \ examined}
        \cup {<<"asns", "none">> : n \in {Len(text.asns)} \cap {0}}]

(* parse_description: one for another AS number is only noted.             *)
ParseDescription(asn, text) ==
  [asn |-> asn, name |-> text.name,
   issues |-> FieldIssues(text)
     \cup {<<"asn", "different">> : n \in {text.asn} \ {asn}}
     \cup {<<"name", "truncated">> : n \in {text.name} \cap {"long"}}]

(* confidence_for *)
ConfidenceFor(issues) == IF issues = {} THEN 85 ELSE 50

Smallest(confidences) == CHOOSE c \in confidences : \A d \in confidences : c <= d

-----------------------------------------------------------------------------
(* findings: an origin is known by its place, a description by its number. *)

AsnFinding(code, origins, described, confidence) ==
  [code |-> code, origins |-> origins, described |-> described,
   confidence |-> confidence]

(* Those whose numbers the origin has. *)
Describing(origin, descriptions) ==
  {d \in descriptions : d.asn \in origin.asns}

OriginFinding(i, origin, descriptions) ==
  LET cited == Describing(origin, descriptions) IN
  AsnFinding("origin", {i}, {d.asn : d \in cited},
             Smallest({ConfidenceFor(d.issues) : d \in cited \cup {origin}}))

FindingsOfOrigin(i, origin, descriptions) ==
  LET own(code) == AsnFinding(code, {i}, {}, ConfidenceFor(origin.issues)) IN
  {OriginFinding(i, origin, descriptions) : asn \in origin.asns}
    \cup {own("multiple_origins") : n \in {m \in {Cardinality(origin.asns)} : m > 1}}
    \cup {own("prefix_mismatch") : p \in {origin.prefix} \cap {"elsewhere"}}

MalformedFinding(origins, descriptions) ==
  LET flawed == {i \in DOMAIN origins : origins[i].issues # {}}
      described == {d.asn : d \in {e \in descriptions : e.issues # {}}}
  IN IF flawed = {} /\ described = {} THEN {}
     ELSE {AsnFinding("malformed", flawed, described, 50)}

AsnFindings(origins, descriptions) ==
  (UNION {FindingsOfOrigin(i, origins[i], descriptions) : i \in DOMAIN origins})
    \cup MalformedFinding(origins, descriptions)
=============================================================================
