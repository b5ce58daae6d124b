---------------------------- MODULE Certificates ----------------------------
(***************************************************************************)
(* What the certificate transparency collector makes of an answer          *)
(* (crates/collectors/src/sources/ct): entries are read, those of one      *)
(* certificate merged, certificates sorted and bounded.                    *)
(*                                                                         *)
(* A name in a certificate is a sequence of labels with a form: "plain",   *)
(* "dotted" (a final dot), "control" (with a control character) or         *)
(* "email".  "*" and "bad" (not a valid label) are labels.                 *)
(***************************************************************************)
EXTENDS Fields, SequencesExt

CONSTANTS
  Target,           \* the labels of the domain that is queried
  MaxEntries,       \* MAX_ENTRIES
  MaxNameLines,     \* MAX_NAME_LINES
  MaxNames,         \* MAX_NAMES_PER_CERTIFICATE
  MaxCertificates,  \* MAX_CERTIFICATES
  MaxRelationships, \* MAX_RELATIONSHIPS
  MaxValidity,      \* MAX_PLAUSIBLE_VALIDITY_DAYS
  Now               \* the time of collection

ASSUME CertificatesConstants ==
  /\ Target # <<>>
  /\ {MaxEntries, MaxNameLines, MaxNames, MaxCertificates, MaxRelationships,
      MaxValidity, Now} \subseteq Nat

Name(labels, form) == [labels |-> labels, form |-> form]

-----------------------------------------------------------------------------
(* parse_entry *)

EntryText(object, key) == Words(Of(object, key), key)

(* One that is too long is dropped, not truncated. *)
Serial(object) ==
  LET text == EntryText(object, "serial_number") IN
  IF text.kept \cap {"long", "markup"} = {} THEN text
  ELSE Read({}, text.issues \cup {<<"serial_number", "not hexadecimal">>})

LogId(object) ==
  LET id == Of(object, "id") IN
  CASE Absent(id) -> Skip
    [] Is(id, "num") /\ id[2] >= 0 -> Keep(id[2])
    [] OTHER -> Drop("id", "not a non-negative integer")

NameLines(object) ==
  LET names == Of(object, "name_value") IN
  CASE Absent(names) -> Read(<<>>, {<<"name_value", "missing">>})
    [] Is(names, "list") ->
         Read(First(names[2], MaxNameLines),
              {<<"names", "too many">> : i \in 1..Cut(names[2], MaxNameLines)})
    [] OTHER -> Read(<<>>, {<<"name_value", "unexpected type">>})

EntryTime(object, key) == Timestamp(Of(object, key), key, TRUE)

Validity(from, until) ==
  {<<"not_after", "before not_before">> : t \in {u \in until : \E f \in from : u < f}}
    \cup {<<"validity", "implausibly long">> :
            t \in {u \in until : \E f \in from : u - f > MaxValidity}}

Entry(object) ==
  LET fields == [id |-> LogId(object),
                 issuer |-> EntryText(object, "issuer_name"),
                 common_name |-> EntryText(object, "common_name"),
                 serial |-> Serial(object),
                 from |-> EntryTime(object, "not_before"),
                 until |-> EntryTime(object, "not_after"),
                 names |-> NameLines(object)]
  IN [field \in DOMAIN fields \cup {"issues"} |->
        IF field = "issues"
        THEN Issues(fields) \cup Validity(fields.from.kept, fields.until.kept)
        ELSE fields[field].kept]

-----------------------------------------------------------------------------
(* build_certificates *)

IsSubdomain(labels, domain) ==
  /\ Len(labels) > Len(domain)
  /\ SubSeq(labels, Len(labels) - Len(domain) + 1, Len(labels)) = domain

(* classify_certificate_name *)
Classified(name) ==
  LET wildcard == Len(name.labels) > 1 /\ name.labels[1] = "*"
      rest == IF wildcard THEN Tail(name.labels) ELSE name.labels
      invalid == name.form = "control" \/ {"*", "bad"} \cap Distinct(rest) # {}
      relation == IF invalid THEN "invalid"
                  ELSE CASE rest = Target -> IF wildcard THEN "wildcard" ELSE "exact"
                         [] IsSubdomain(rest, Target) -> "subdomain"
                         [] OTHER -> "unrelated"
  IN [raw |-> name, relation |-> relation, wildcard |-> wildcard /\ ~invalid,
      domain |-> IF invalid THEN <<>> ELSE rest]

IsRelated(name) == name.relation \in {"exact", "wildcard", "subdomain"}

AddName(kept, raw) ==
  LET name == Classified(raw) IN
  IF raw.form = "email" THEN [kept EXCEPT !.emails = @ + 1]
  ELSE IF name \in Distinct(kept.names) THEN kept
  ELSE IF Len(kept.names) >= MaxNames THEN [kept EXCEPT !.dropped = @ + 1]
  ELSE [kept EXCEPT !.names = Append(@, name)]

(* classify_names *)
ClassifiedNames(raws) ==
  FoldLeft(AddName, [names |-> <<>>, emails |-> 0, dropped |-> 0], raws)

(* An entry and a final certificate of one issuer and serial are one.      *)
Key(entry) ==
  IF entry.issuer # {} /\ entry.serial # {} THEN <<entry.issuer, entry.serial>>
  ELSE <<entry.id>>

SameKey(one, other) == Key(one) = Key(other) /\ Key(one) # <<{}>>

(* Bug: the names of a further entry are not read. *)
MergeNothing(kept, name) == kept

(* Names of a further entry: when there is no room, one that is there      *)
(* already counts as dropped, too.                                         *)
MergeName(kept, name) ==
  IF Len(kept.names) >= MaxNames THEN [kept EXCEPT !.dropped = @ + 1]
  ELSE IF name \in Distinct(kept.names) THEN kept
  ELSE [kept EXCEPT !.names = Append(@, name)]

Certificate(entry, read) ==
  [entry |-> entry, names |-> read.names, emails |-> read.emails,
   source_entries |-> 1,
   issues |-> entry.issues
     \cup {<<"names", "too many">> : i \in 1..read.dropped}
     \cup {<<"names", "not valid">> :
             n \in {m \in Distinct(read.names) : m.relation = "invalid"}}]

(* One entry more. *)
AddEntry(built, entry) ==
  LET read == ClassifiedNames(entry.names)
      same == {i \in DOMAIN built.certificates :
                 SameKey(built.certificates[i].entry, entry)}
      place == CHOOSE i \in same : TRUE
      merged == FoldLeft(MergeName,
                         [names |-> built.certificates[place].names, dropped |-> 0],
                         read.names)
  IN IF same = {}
     THEN [certificates |-> Append(built.certificates, Certificate(entry, read)),
           dropped |-> built.dropped + read.dropped]
     ELSE [certificates |->
             [built.certificates EXCEPT ![place].source_entries = @ + 1,
                                        ![place].names = merged.names],
           dropped |-> built.dropped + read.dropped + merged.dropped]

Merged(entries) ==
  FoldLeft(AddEntry, [certificates |-> <<>>, dropped |-> 0], entries)

(* The time a certificate is sorted by; those without one come last.       *)
From(certificate) ==
  IF certificate.entry.from = {} THEN 0
  ELSE CHOOSE t \in certificate.entry.from : TRUE

IsBefore(certificates, i, j) ==
  \/ From(certificates[i]) > From(certificates[j])
  \/ From(certificates[i]) = From(certificates[j]) /\ i < j

NewestFirst(certificates) ==
  LET before(j) == {i \in DOMAIN certificates : IsBefore(certificates, i, j)} IN
  [k \in DOMAIN certificates |->
     certificates[CHOOSE j \in DOMAIN certificates : Cardinality(before(j)) = k - 1]]

-----------------------------------------------------------------------------
(* add_relationships *)

(* The names that make an edge, by certificate. *)
Covers(certificates) ==
  LET of(i) == [n \in DOMAIN certificates[i].names |->
                  <<i, certificates[i].names[n]>>]
      related(i) == SelectSeq(of(i), LAMBDA edge : IsRelated(edge[2]))
  IN FoldLeft(LAMBDA edges, i :
                IF certificates[i].entry.id = {} THEN edges ELSE edges \o related(i),
              <<>>, [i \in DOMAIN certificates |-> i])

-----------------------------------------------------------------------------
(* findings *)

CTFinding(code, evidence) == [code |-> code, evidence |-> evidence]

(* A finding that cites the certificates it is about, if there are any.    *)
AboutThose(code, ids) == {CTFinding(code, ids) : i \in ids}

Listing(certificates, names) ==
  {i \in DOMAIN certificates : Distinct(certificates[i].names) \cap names # {}}

NameFindings(certificates) ==
  LET names == UNION {Distinct(certificates[i].names) : i \in DOMAIN certificates}
      additional == {n \in names : n.relation = "subdomain" /\ ~n.wildcard}
      wildcard == {n \in names : n.wildcard /\ IsRelated(n)}
      unrelated == {n \in names : n.relation = "unrelated"}
  IN AboutThose("additional_names", Listing(certificates, additional))
       \cup AboutThose("wildcard_names", Listing(certificates, wildcard))
       \cup AboutThose("unrelated_names", Listing(certificates, unrelated))

TimeFindings(certificates) ==
  AboutThose("expired", {i \in DOMAIN certificates :
                           \E t \in certificates[i].entry.until : t < Now})
    \cup AboutThose("not_yet_valid", {i \in DOMAIN certificates :
                           \E t \in certificates[i].entry.from : t > Now})

InvalidFindings(certificates, invalid) ==
  LET flawed == {i \in DOMAIN certificates : certificates[i].issues # {}} IN
  IF flawed = {} /\ invalid = 0 THEN {}
  ELSE {CTFinding("invalid_records", flawed)}

ObservedFindings(certificates) ==
  {CTFinding(IF certificates = <<>> THEN "no_certificates"
             ELSE "certificates_observed", DOMAIN certificates)}

TruncatedFindings(certificates, cut) ==
  {CTFinding("truncated", DOMAIN certificates) : n \in {c \in cut : c > 0}}

-----------------------------------------------------------------------------
(* What collect returns: an error, or the certificates, each observed with *)
(* a confidence of its own, the edges, and the findings.                   *)
NoCertificates(why) ==
  [error |-> why, certificates |-> <<>>, covers |-> <<>>, findings |-> {}]

Objects(items) ==
  FoldLeft(LAMBDA kept, item : IF Is(item, "object") THEN Append(kept, item) ELSE kept,
           <<>>, items)

(* parse_response *)
LogEntries(items) ==
  LET objects == Objects(First(items, MaxEntries)) IN
  [i \in DOMAIN objects |-> Entry(objects[i][2])]

Bounded(items) ==
  LET built == Merged(LogEntries(items))
      sorted == NewestFirst(built.certificates)
      kept == First(sorted, MaxCertificates)
      covers == Covers(kept)
      examined == First(items, MaxEntries)
      cut == {Cut(items, MaxEntries), Cut(sorted, MaxCertificates),
              built.dropped, Cut(covers, MaxRelationships)}
  IN [error |-> "none", certificates |-> kept,
      covers |-> First(covers, MaxRelationships),
      findings |-> ObservedFindings(kept) \cup NameFindings(kept)
        \cup TimeFindings(kept)
        \cup InvalidFindings(kept, Len(examined) - Len(Objects(examined)))
        \cup TruncatedFindings(kept, cut)]

(* In an answer lists are sequences, and times are numbers.                *)
IsLog(body) ==
  /\ IsSequence(body)
  /\ Is(body, "list") => \A i \in DOMAIN body[2] :
       LET object == Inner(body[2][i])
           from == Of(object, "not_before")
       IN /\ IsSequence(Of(object, "name_value"))
          /\ Is(from, "time") => from[2] \in Int

CTSupports(indicator) == indicator.type = "domain"

CertificateTransparency(response) ==
  IF response.status # 200 THEN NoCertificates("unexpected status")
  ELSE IF Is(response.body, "list") THEN Bounded(response.body[2])
  ELSE NoCertificates("invalid response")
=============================================================================
