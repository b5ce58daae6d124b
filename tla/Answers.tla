------------------------------- MODULE Answers -------------------------------
(***************************************************************************)
(* One run of a collector that asks a source and reads its answer          *)
(* (crates/collectors/src/sources), and the analyzers of the policies that *)
(* the DNS collector hands records to (crates/collectors/src/analysis).    *)
(*                                                                         *)
(* The budget is shared: other runs of the investigation spend it at any   *)
(* moment.  Module Engine has the run's place in the investigation, module *)
(* HttpClient the request.                                                 *)
(***************************************************************************)
EXTENDS Listings, Registration, Certificates, Asn, Policies

CONSTANTS
  Indicators,  \* what may be asked for: a type, and whether it is public
  Replies,     \* Replies[source]: what the source may answer
  Names,       \* what Team Cymru may answer for an AS number
  MaxRequests  \* RequestBudget.limit

Keyed == {"virustotal", "abuseipdb", "urlhaus", "malwarebazaar"}
Analyzers == {"spf", "dmarc", "caa"}
Sources == Keyed \cup {"rdap", "ct", "cymru"} \cup Analyzers

ASSUME AnswersConstants ==
  /\ \A i \in Indicators : i.public \in BOOLEAN
  /\ Sources \subseteq DOMAIN Replies
  /\ \A s \in {"cymru"} \cup Analyzers : \A records \in Replies[s] :
       records \in Seq(Distinct(records))
  \* "stranger" is an authority that no record names, see CaaIsEnforced.
  /\ \A records \in Replies["caa"] : "stranger" \notin {r.value : r \in Distinct(records)}
  /\ \A answer \in Replies["rdap"] : WellFormed(answer.body)
  /\ \A answer \in Replies["ct"] : IsLog(answer.body)
  /\ MaxRequests \in Nat

VARIABLES
  source,    \* the collector or analyzer
  indicator, \* what it is run on
  hasKey,    \* is its API key configured?
  phase,     \* "called", "sent", "describing" or "returned"
  used,      \* RequestBudget.used
  reply,     \* the answer: what was received of the request
  result,    \* what collect returned
  origins,   \* Cymru: the origins that were observed
  todo,      \* the AS numbers to look up
  described, \* the descriptions that were observed
  absent,    \* the AS numbers that have no description
  notes      \* Collection.note_failure

cymru == <<origins, todo, described, absent, notes>>
run == <<source, indicator, hasKey>>
vars == <<run, phase, used, reply, result, cymru>>

Pending == [error |-> "pending"]

(* An answer of the DNS is one whose body is the records, if it has any.   *)
Nothing == Response(0, <<>>)
DnsAnswer(records) == Response(200, records)
NegativeAnswer == Response(404, <<>>)

-----------------------------------------------------------------------------
(* collect *)

(* Collector::supports *)
Supported ==
  CASE source = "virustotal" -> VTSupports(indicator)
    [] source \in {"abuseipdb", "cymru", "rdap"} -> IPSupports(indicator)
    [] source = "urlhaus" -> URLhausSupports(indicator)
    [] source = "malwarebazaar" -> BazaarSupports(indicator)
    [] OTHER -> CTSupports(indicator)

Init ==
  /\ source \in Sources
  /\ indicator \in Indicators
  /\ source \in Analyzers => CTSupports(indicator)
  /\ hasKey \in IF source \in Keyed THEN BOOLEAN ELSE {TRUE}
  /\ phase = "called"
  /\ used = 0
  /\ reply = Nothing
  /\ result = Pending
  /\ origins = <<>> /\ todo = {} /\ described = {} /\ absent = {} /\ notes = {}

Return(answer, outcome) ==
  /\ phase' = "returned"
  /\ reply' = answer
  /\ result' = outcome
  /\ UNCHANGED <<run, used, cymru>>

Called == phase = "called" /\ source \notin Analyzers

(* RefusedTarget *)
Refuse ==
  /\ Called
  /\ ~Supported \/ ~indicator.public
  /\ Return(Nothing, Error("refused target"))

NotConfigured ==
  /\ Called /\ Supported /\ indicator.public
  /\ source \in Keyed /\ ~hasKey
  /\ Return(Nothing, Error("not configured"))

Asking ==
  /\ Called /\ Supported /\ indicator.public
  /\ source \in Keyed => hasKey

BudgetLeft == used < MaxRequests

(* CollectContext::acquire_request *)
Denied ==
  /\ Asking /\ ~BudgetLeft
  /\ Return(Nothing, Error("budget exhausted"))

Send ==
  /\ Asking /\ BudgetLeft
  /\ phase' = "sent"
  /\ used' = used + 1
  /\ UNCHANGED <<run, reply, result, cymru>>

(* Any other run of the investigation makes a request.                     *)
OtherRequest ==
  /\ phase # "returned" /\ BudgetLeft
  /\ used' = used + 1
  /\ UNCHANGED <<run, phase, reply, result, cymru>>

(* Every failure of the HTTP client or the resolver.                       *)
NoAnswer ==
  /\ phase = "sent"
  /\ Return(Nothing, Error("no answer"))

(* What the collectors that make one request return for its response.  The *)
(* RDAP collector makes another before it, to find the registry.           *)
Outcome(answer) ==
  CASE source = "virustotal" -> VirusTotal(answer, indicator)
    [] source = "abuseipdb" -> AbuseIPDB(answer)
    [] source = "urlhaus" -> URLhaus(answer, indicator)
    [] source = "malwarebazaar" -> MalwareBazaar(answer, indicator)
    [] source = "rdap" -> RegistryAnswer(answer)
    [] OTHER -> CertificateTransparency(answer)

Receive ==
  /\ phase = "sent" /\ source # "cymru"
  /\ \E answer \in Replies[source] : Return(answer, Outcome(answer))

-----------------------------------------------------------------------------
(* The analyzers: the records were looked up before. *)

Policy(records) ==
  CASE source = "spf" -> SpfFindings(records)
    [] source = "dmarc" -> DmarcFindings(records)
    [] OTHER -> CaaFindings(records)

Analyze ==
  /\ phase = "called" /\ source \in Analyzers
  /\ \E records \in Replies[source] :
       Return(DnsAnswer(records), [error |-> "none", findings |-> Policy(records)])

-----------------------------------------------------------------------------
(* Team Cymru: one lookup for the origins of the address, then one for     *)
(* each AS number, in ascending order.                                     *)

(* not_announced *)
ReceiveNegative ==
  /\ phase = "sent" /\ source = "cymru"
  /\ Return(NegativeAnswer, [error |-> "none", findings |->
                             {AsnFinding("not_announced", {}, {}, 85)}])

FirstNumbers(asns, n) ==
  {a \in asns : Cardinality({b \in asns : b < a}) < n}

(* Each TXT record of the answer is observed. *)
ReceiveOrigins ==
  /\ phase = "sent" /\ source = "cymru"
  /\ \E texts \in Replies["cymru"] :
       LET read == [i \in 1..Len(First(texts, MaxOrigins)) |-> ParseOrigin(texts[i])]
           asns == UNION {read[i].asns : i \in DOMAIN read}
       IN /\ reply' = DnsAnswer(texts)
          /\ origins' = read
          /\ todo' = FirstNumbers(asns, MaxDescriptions)
          /\ notes' = {<<"origins", 0>> : n \in 1..Cut(texts, MaxOrigins)}
                        \cup {<<"descriptions", 0>> : a \in asns \ todo'}
  /\ phase' = "describing"
  /\ UNCHANGED <<run, used, result, described, absent>>

NextNumber == CHOOSE asn \in todo : \A other \in todo : asn <= other

ToDescribe == phase = "describing" /\ todo # {}

Describe ==
  /\ ToDescribe /\ BudgetLeft
  /\ \E text \in Names : described' = described \cup {ParseDescription(NextNumber, text)}
  /\ used' = used + 1
  /\ todo' = todo \ {NextNumber}
  /\ UNCHANGED <<run, phase, reply, result, origins, absent, notes>>

(* There is no description, or the answer has no record. *)
DescribeNegative ==
  /\ ToDescribe /\ BudgetLeft
  /\ used' = used + 1
  /\ todo' = todo \ {NextNumber}
  /\ absent' = absent \cup {NextNumber}
  /\ UNCHANGED <<run, phase, reply, result, origins, described, notes>>

(* Bug: after a failed lookup no other is made. *)
GiveUp(asns, asn) == {}

Others(asns, asn) == asns \ {asn}

(* The lookup is denied, for lack of budget, or fails.                     *)
DescribeFails ==
  /\ ToDescribe
  /\ used' \in IF BudgetLeft THEN {used + 1} ELSE {used}
  /\ todo' = Others(todo, NextNumber)
  /\ notes' = notes \cup {<<"description", NextNumber>>}
  /\ UNCHANGED <<run, phase, reply, result, origins, described, absent>>

ReturnOrigins ==
  /\ phase = "describing" /\ todo = {}
  /\ Return(reply, [error |-> "none", findings |-> AsnFindings(origins, described)])

-----------------------------------------------------------------------------
(* The collector has returned. *)
Over == phase = "returned" /\ UNCHANGED vars

Next ==
  \/ Refuse \/ NotConfigured \/ Denied \/ Send \/ OtherRequest
  \/ NoAnswer \/ Receive \/ Analyze
  \/ ReceiveNegative \/ ReceiveOrigins
  \/ Describe \/ DescribeNegative \/ DescribeFails \/ ReturnOrigins
  \/ Over

Spec == Init /\ [][Next]_vars
-----------------------------------------------------------------------------
(* Properties *)

Finished(s) == phase = "returned" /\ source = s /\ result.error = "none"

(* What an answer says for the fields of a report, wherever it says it.    *)
Data(body) == Inner(Of(Inner(body), "data"))

SaidIn(object, keys) == [key \in keys |-> Of(object, key)]

SaidByVirusTotal(body) ==
  LET attributes == Inner(Of(Data(body), "attributes"))
      stats == Inner(Of(attributes, "last_analysis_stats"))
      votes == Inner(Of(attributes, "total_votes"))
  IN [key \in Required \cup FileStats \cup Votes
                 \cup {"reputation", "last_analysis_date", "tags"} |->
        CASE key \in Required \cup FileStats -> Of(stats, key)
          [] key \in Votes -> Of(votes, key)
          [] OTHER -> Of(attributes, key)]

SaidByURLhaus(body) ==
  LET data == Inner(body)
      renamed == [entry_id |-> "id", returned_payloads |-> "payloads",
                  returned_urls |-> "urls"]
      plain == {"url_status", "threat", "larted", "date_added", "last_online",
                "takedown_time_seconds", "firstseen", "url_count"}
                 \cup (IF indicator.type = "url" THEN {"tags"} ELSE {})
  IN [field \in DOMAIN renamed \cup plain \cup Blacklists |->
        CASE field \in DOMAIN renamed -> Of(data, renamed[field])
          [] field \in Blacklists -> Of(Inner(Of(data, "blacklists")), field)
          [] OTHER -> Of(data, field)]

Said(body) ==
  CASE source = "virustotal" -> SaidByVirusTotal(body)
    [] source = "abuseipdb" ->
         SaidIn(Data(body),
                {"ipAddress", "abuseConfidenceScore", "totalReports",
                 "numDistinctUsers", "lastReportedAt", "isWhitelisted", "isTor",
                 "usageType", "isp", "domain", "countryCode", "hostnames"})
    [] source = "urlhaus" -> SaidByURLhaus(body)
    [] source = "rdap" ->
         SaidIn(Inner(body),
                {"handle", "name", "type", "parentHandle", "country", "ipVersion",
                 "startAddress", "endAddress", "cidr0_cidrs", "status"})
    [] OTHER ->
         SaidIn(Inner(Of(Inner(body), "data")[2][1]),
                {"signature", "file_type", "file_type_mime", "delivery_method",
                 "file_size", "first_seen", "last_seen", "tags"})

IsBlank(value) == Is(value, "text") /\ value[2] = "blank"

SaysNothing(value) ==
  \/ Absent(value) \/ value \in {Text("blank"), Text("same")}
  \/ Is(value, "list") /\ \A i \in DOMAIN value[2] : IsBlank(value[2][i])

(* What a source said in one of the fields of Said, and the collector did  *)
(* not keep, is never passed over: an issue names the field, the           *)
(* confidence is lowered and the "incomplete" finding is there, whatever   *)
(* else was found.  Of a registration that is ten fields: its events,      *)
(* entities and cards are not among them, and the code does pass over      *)
(* surplus events and cards of a wrong type in silence.                    *)
NothingVanishes ==
  \A s \in Keyed \cup {"rdap"} :
    Finished(s) /\ result.report # <<>> =>
      LET said == Said(reply.body) IN
      \A field \in DOMAIN said \cap DOMAIN result.report :
        ~SaysNothing(said[field]) /\ Kept(result.report, field) = {} =>
          /\ result.report[field].issues # {}
          /\ result.confidence \in {60, 70}
          /\ "incomplete" \in result.findings

-----------------------------------------------------------------------------

(* A number the provider gave in good form. *)
Says(said, key, numbers) ==
  Is(Of(said, key), "num") /\ said[key][2] \in numbers

(* "no detections" is only said when every engine verdict was counted, and *)
(* none was bad; "detections" when one was.                                *)
VerdictIsCounted ==
  Finished("virustotal") =>
    LET said == Said(reply.body)
        all == {"malicious", "suspicious", "undetected", "harmless", "timeout"}
        bad == {"malicious", "suspicious"}
    IN /\ "no_detections" \in result.findings =>
            /\ \A key \in bad : Says(said, key, {0})
            /\ \A key \in all : Says(said, key, 0..MaxEngines)
            /\ \E key \in all : ~Says(said, key, {0})
       /\ "detections" \in result.findings <=>
            reply.status = 200 /\ \E key \in bad : Says(said, key, 1..MaxEngines)
       /\ "not_found" \in result.findings => reply.status = 404

ReportsAreCounted ==
  Finished("abuseipdb") =>
    LET said == Said(reply.body) IN
    /\ "no_reports" \in result.findings <=> Says(said, "totalReports", {0})
    /\ "high_abuse_confidence" \in result.findings
         <=> Says(said, "abuseConfidenceScore", 75..100)

(* Something is only listed if the one thing in the answer is the object   *)
(* that was asked for; no record is only what the answer says itself.      *)
ListingIsOfTheObject ==
  /\ Finished("urlhaus") =>
       LET said == Inner(reply.body) IN
       IF result.observed = "listing"
       THEN /\ Identity(said, indicator) = Text("same")
            /\ Text("no_results") \notin {Of(said, "query_status")}
       ELSE Text("no_results") \in {Of(said, "query_status"), Of(said, "query_staus")}
  /\ Finished("malwarebazaar") /\ result.observed = "listing" =>
       LET samples == Of(Inner(reply.body), "data")[2] IN
       \A i \in DOMAIN samples :
         /\ i = 1
         /\ Of(samples[i][2], IdentityField(indicator)) = Text("same")

(* A report about another object is refused, or noted as a problem.        *)
ReportIsOfTheObject ==
  /\ Finished("virustotal") /\ result.observed = "reputation" =>
       \/ Of(Data(reply.body), "id") = Text("same")
       \/ indicator.type = "url"
  /\ Finished("abuseipdb") =>
       \/ Of(Data(reply.body), "ipAddress") = Text("same")
       \/ result.confidence = 60 /\ "incomplete" \in result.findings

(* An address is said to be registered in the smallest network given that  *)
(* has it, and to be outside its range only when it is.  An organization   *)
(* or a mailbox is in a card of an entity with the role; if that card says *)
(* anywhere that it is an individual's, then it said another kind before,  *)
(* or says so beyond the properties that are read: in that case the code   *)
(* does report the individual.                                             *)
SaidBySome(values, role, name, entities) ==
  \A value \in values : \E e \in entities :
    LET card == Of(Inner(e), "vcardArray")[2]
        says(i, what) == Is(card[i], "property") /\ card[i][2] = what
    IN /\ Is(Of(Inner(e), "vcardArray"), "list")
       /\ \E i \in DOMAIN card :
            says(i, name) /\ card[i][3] = value /\ i <= MaxProperties
       /\ \A i \in DOMAIN card : says(i, "kind") /\ card[i][3] = "individual" =>
            \/ i > MaxProperties
            \/ \E j \in DOMAIN card : j < i /\ says(j, "kind")
       /\ Text(role) \in Distinct(Of(Inner(e), "roles")[2])

RegistrationIsOfTheNetwork ==
  Finished("rdap") =>
    LET said == Inner(reply.body)
        in(n, length) == n \div Size(length) = Queried \div Size(length)
        start == Of(said, "startAddress")
        end == Of(said, "endAddress")
        entities == Tree(reply.body)[MaxDepth]
    IN /\ \A b \in result.registered_in : in(b.network, b.length)
       /\ \A b \in Kept(result.report, "cidr0_cidrs") : in(b.network, b.length) =>
            \E c \in result.registered_in : b.length <= c.length
       /\ Cardinality(result.registered_in) <= 1
       /\ "range_mismatch" \in result.findings <=>
            /\ Is(start, "ip") /\ Is(end, "ip") /\ start[2] <= end[2]
            /\ Queried < start[2] \/ end[2] < Queried
       /\ SaidBySome(Kept(result.report, "organization"), "registrant", "fn", entities)
       /\ SaidBySome(Kept(result.report, "abuse_email"), "abuse", "email", entities)

(* "No certificates" is found when none is reported, and only of a list    *)
(* that the log did send.  If that list is not empty, then it has no       *)
(* object and "invalid_records" says so, or "truncated" says that not all  *)
(* of it was kept.                                                         *)
EmptyLogIsExplained ==
  Finished("ct") =>
    LET found(code) == \E f \in result.findings : f.code = code IN
    /\ found("no_certificates") <=> result.certificates = <<>>
    /\ found("no_certificates") =>
         /\ reply.status = 200 /\ Is(reply.body, "list")
         /\ \/ reply.body[2] = <<>>
            \/ LogEntries(reply.body[2]) = <<>> /\ found("invalid_records")
            \/ found("truncated")

(* An address is "not announced" when the DNS says that there is no        *)
(* record, never because records are malformed; several origins and a      *)
(* prefix elsewhere are found only of a record that says so.               *)
AnnouncementIsSaid ==
  Finished("cymru") =>
    \A f \in result.findings :
      /\ f.code = "not_announced" <=> reply = NegativeAnswer
      /\ f.code = "multiple_origins" =>
           \E i \in f.origins : \E one, other \in Distinct(reply.body[i].asns) :
             one # other /\ one # 0 /\ other # 0
      /\ f.code = "prefix_mismatch" =>
           \E i \in f.origins : reply.body[i].prefix = "elsewhere"

(* What a collector concludes, an absence least of all, never rests on     *)
(* what is missing, malformed, an error, or about another object, but for  *)
(* the two cases above: a log without an object, which "invalid_records"   *)
(* tells, and a card whose kind is beyond the properties that are read.    *)
ClaimsAreEarned ==
  /\ VerdictIsCounted
  /\ ReportsAreCounted
  /\ ListingIsOfTheObject
  /\ ReportIsOfTheObject
  /\ RegistrationIsOfTheNetwork
  /\ EmptyLogIsExplained
  /\ AnnouncementIsSaid
-----------------------------------------------------------------------------
(* What the log said: its entries that are objects, among those examined,  *)
(* and all the lines of their names.                                       *)
LoggedObjects == Objects(First(reply.body[2], MaxEntries))
LoggedEntries == LogEntries(reply.body[2])

LoggedLines(i) ==
  LET names == Of(LoggedObjects[i][2], "name_value") IN
  IF Is(names, "list") THEN names[2] ELSE <<>>

FirstOf(entry) ==
  LET same == {i \in DOMAIN LoggedEntries : SameKey(LoggedEntries[i], entry)} IN
  IF same = {} THEN entry
  ELSE LoggedEntries[CHOOSE i \in same : \A j \in same : i <= j]

Truncated == \E f \in result.findings : f.code = "truncated"

(* The first lines of an entry's names are in the certificate it is one    *)
(* of, and a certificate that is left out is not newer than one that is    *)
(* kept, or "truncated" is found.  The lines beyond the limit are not told *)
(* by "truncated" but by "invalid_records", which cites the certificate;   *)
(* of a further entry of a certificate nothing tells them.                 *)
LogIsAccounted ==
  Finished("ct") =>
    \A i \in DOMAIN LoggedEntries :
      LET entry == LoggedEntries[i]
          time(e) == IF e.from = {} THEN {0} ELSE e.from
          kept == {k \in DOMAIN result.certificates :
                     LET c == result.certificates[k].entry IN
                     SameKey(c, entry) \/ c = entry}
      IN IF kept = {}
         THEN /\ Truncated
              /\ \A k \in DOMAIN result.certificates :
                   \A t \in time(FirstOf(entry)) :
                     \A u \in time(result.certificates[k].entry) : t <= u
         ELSE /\ \/ Truncated
                 \/ \A line \in DOMAIN LoggedLines(i) \cap 1..MaxNameLines :
                      LET name == LoggedLines(i)[line] IN
                      \/ name.form = "email"
                      \/ \E k \in kept :
                           \E n \in Distinct(result.certificates[k].names) : n.raw = name
              /\ Len(LoggedLines(i)) > MaxNameLines /\ FirstOf(entry) = entry =>
                   \A k \in kept : \E f \in result.findings :
                     /\ <<"names", "too many">> \in result.certificates[k].issues
                     /\ f.code = "invalid_records" /\ k \in f.evidence

-----------------------------------------------------------------------------

(* An address's autonomous systems are reported whatever becomes of the    *)
(* lookups of their names, and every AS number without a name was looked   *)
(* up in vain, or a note says why it was not.                              *)
OriginsAreExplained ==
  Finished("cymru") =>
    IF reply = NegativeAnswer THEN origins = <<>>
    ELSE
      /\ Len(origins) < Len(reply.body) => <<"origins", 0>> \in notes
      /\ \A i \in DOMAIN origins : \A asn \in origins[i].asns :
           /\ \/ asn \in absent \cup {d.asn : d \in described}
              \/ <<"description", asn>> \in notes
              \/ <<"descriptions", 0>> \in notes
           /\ \E f \in result.findings :
                /\ f.code = "origin" /\ i \in f.origins
                /\ f.described = origins[i].asns \cap {d.asn : d \in described}

-----------------------------------------------------------------------------

MatchesAll(term) == term.name = "all" /\ term.follows = ""

(* A receiver reads the mechanisms from left to right until one matches;   *)
(* what it does with a sender that none but "all" matches.                 *)
SpfResult(record) ==
  LET read[i \in 0..Len(record)] ==
        CASE i = 0 -> "unmatched"
          [] i # 0 /\ read[i - 1] = "unmatched" /\ MatchesAll(record[i]) ->
               Qualifier(record[i])
          [] OTHER -> read[i - 1]
      verdict == read[Len(record)]
      redirects == {i \in DOMAIN record : record[i].name = "redirect"}
  IN CASE verdict # "unmatched" -> verdict
       [] verdict = "unmatched" /\ redirects # {} -> "redirect"
       [] OTHER -> "no_all"

SpfIsEvaluated ==
  Finished("spf") /\ "malformed" \notin result.findings =>
    SpfPolicy(reply.body) = {SpfResult(reply.body)}

(* Without "malformed", each tag of the record is there once and valid.    *)
DmarcIsUnambiguous ==
  Finished("dmarc") /\ <<"malformed", "">> \notin result.findings =>
    /\ \A i, j \in DOMAIN reply.body : reply.body[i].name = reply.body[j].name => i = j
    /\ \A i \in DOMAIN reply.body :
         /\ reply.body[i].name = "p" => <<"policy", reply.body[i].value>> \in result.findings
         /\ reply.body[i].name = "sp" =>
              <<"subdomain_policy", reply.body[i].value>> \in result.findings
    /\ \E i \in DOMAIN reply.body : reply.body[i].name = "p"

(* An authority may issue when no record is about it, or one names it;     *)
(* for wildcards, the records for them alone count when there are any.     *)
MayIssue(authority, records, wildcard) ==
  LET tag == IF wildcard /\ Tagged(records, "issuewild") # {} THEN "issuewild"
             ELSE "issue"
  IN \/ Tagged(records, tag) = {}
     \/ \E i \in Tagged(records, tag) : records[i].value = authority

CaaIsEnforced ==
  Finished("caa") =>
    LET named == {reply.body[i].value : i \in DOMAIN reply.body} \cup {"stranger"}
        authorities == named \ {"", "bad"}
        issuing(wildcard) == {a \in authorities : MayIssue(a, reply.body, wildcard)}
        found == result.findings
    IN /\ <<"issue", "forbidden">> \in found => issuing(FALSE) = {}
       /\ <<"issuewild", "forbidden">> \in found => issuing(TRUE) = {}
       /\ <<"issue", "restricted">> \in found =>
            issuing(FALSE) \notin {{}, authorities}
       /\ <<"no_issue_restriction", "">> \in found =>
            issuing(FALSE) = authorities /\ issuing(TRUE) = authorities
       /\ issuing(FALSE) = {} =>
            found \cap {<<"issue", "forbidden">>, <<"malformed", "">>} # {}

(* What is reported of a policy is what those it addresses do with it.     *)
PolicyIsWhatReceiversApply ==
  SpfIsEvaluated /\ DmarcIsUnambiguous /\ CaaIsEnforced
=============================================================================
