----------------------------- MODULE Reputation -----------------------------
(***************************************************************************)
(* What the VirusTotal and AbuseIPDB collectors make of an answer          *)
(* (crates/collectors/src/sources/virustotal and abuseipdb).  An answer    *)
(* identifies its object as "same" or "other" than the one queried, or by  *)
(* a text that identifies none.                                            *)
(***************************************************************************)
EXTENDS Fields

CONSTANTS
  MaxEngines,    \* MAX_PLAUSIBLE_ENGINES
  MaxVotes,      \* MAX_PLAUSIBLE_VOTES
  MaxReputation, \* MAX_ABS_REPUTATION
  Width,         \* an i64 is -Width..(Width - 1)
  MaxReports,    \* AbuseIPDB's MAX_PLAUSIBLE_REPORTS
  MaxItems       \* the tags or hostnames that are kept

ASSUME ReputationConstants ==
  /\ MaxEngines \in Nat /\ MaxVotes \in Nat /\ MaxReputation \in Nat
  /\ Width \in Nat \ {0} /\ MaxReports \in Nat /\ MaxItems \in Nat

Confident(report) == IF Issues(report) = {} THEN 90 ELSE 60

(* Bug: problems are not told when something was found. *)
CollectedOrIncomplete(observed, findings, report) ==
  [error |-> "none", observed |-> observed, report |-> report,
   confidence |-> Confident(report),
   findings |-> IF findings = {} THEN {"incomplete" : issue \in Issues(report)}
                ELSE findings]

Collected(observed, findings, report) ==
  [error |-> "none", observed |-> observed, report |-> report,
   confidence |-> Confident(report),
   findings |-> findings \cup {"incomplete" : issue \in Issues(report)}]

Statuses == {400, 401, 403, 404, 429}

(* status_error: all of them are failures. *)
StatusError(status) ==
  Error(IF status \in Statuses \cup 500..599 THEN "provider status"
        ELSE "unexpected status")

-----------------------------------------------------------------------------
(* VirusTotal *)

Required == {"malicious", "suspicious", "undetected", "harmless", "timeout"}
FileStats == {"confirmed-timeout", "failure", "type-unsupported"}
Votes == {"votes.harmless", "votes.malicious"}

ObjectType(indicator) ==
  CASE indicator.type \in {"ipv4", "ipv6"} -> "ip_address"
    [] indicator.type = "sha256" -> "file"
    [] OTHER -> indicator.type

IsNotFoundError(body) ==
  /\ Is(body, "object")
  /\ Of(Inner(Of(body[2], "error")), "code") = Text("NotFoundError")

VTCount(fields, key, required, max) ==
  Count(Of(fields, key), key, required, max, FALSE)

Stats(stats, isFile) ==
  [key \in Required \cup (IF isFile THEN FileStats ELSE {}) |->
     IF Is(stats, "object") THEN VTCount(stats[2], key, key \in Required, MaxEngines)
     ELSE Read({}, InnerIssues(stats, "last_analysis_stats"))]

VoteCounts(votes) ==
  [key \in Votes |->
     IF Is(votes, "object") THEN VTCount(votes[2], key, TRUE, MaxVotes)
     ELSE Read({}, InnerIssues(votes, "total_votes"))]

(* i64::abs, in a release build: that of the smallest value is itself.     *)
Abs(n) == IF n >= 0 \/ n = -Width THEN n ELSE -n

Score(value) ==
  LET integer == Is(value, "num") /\ value[2] \in -Width..(Width - 1) IN
  IF Absent(value) THEN Drop("reputation", "missing")
  ELSE IF ~integer THEN Drop("reputation", "not an integer")
  ELSE IF Abs(value[2]) <= MaxReputation THEN Keep(value[2])
  ELSE Drop("reputation", "out of range")

VTTags(value) == Texts(value, "tags", MaxItems, FALSE)

VTReport(data, isFile) ==
  LET attributes == Inner(Of(data, "attributes"))
      stats == Of(attributes, "last_analysis_stats")
      votes == Of(attributes, "total_votes")
      others ==
        [attributes |-> Read({}, InnerIssues(Of(data, "attributes"), "attributes")),
         reputation |-> Score(Of(attributes, "reputation")),
         last_analysis_date |-> Seconds(Of(attributes, "last_analysis_date"),
                                        "last_analysis_date"),
         tags |-> VTTags(Of(attributes, "tags"))]
      counts == Stats(stats, isFile)
      voted == VoteCounts(votes)
  IN [field \in DOMAIN others \cup DOMAIN counts \cup Votes |->
        CASE field \in DOMAIN others -> others[field]
          [] field \in Votes -> voted[field]
          [] OTHER -> counts[field]]

(* Bug: a counter that is missing counts as none. *)
VTFindingsOfAny(report) ==
  LET engines == UNION {Kept(report, key) : key \in Required}
      flagged == (Kept(report, "malicious") \cup Kept(report, "suspicious")) \ {0}
  IN {"observed"}
       \cup (CASE flagged # {} -> {"detections"}
               [] flagged = {} /\ engines \ {0} # {} -> {"no_detections"}
               [] OTHER -> {})

VTFindings(report) ==
  LET complete == \A key \in Required : Kept(report, key) # {}
      engines == UNION {Kept(report, key) : key \in Required}
      flagged == (Kept(report, "malicious") \cup Kept(report, "suspicious")) \ {0}
  IN {"observed"}
       \cup (CASE flagged # {} -> {"detections"}
               [] flagged = {} /\ complete /\ engines \ {0} # {} -> {"no_detections"}
               [] OTHER -> {})

(* parse_object, and what run makes of it. *)
VTObject(body, indicator) ==
  LET data == Of(Inner(body), "data")
      id == Of(Inner(data), "id")
      report == Redacted(VTReport(Inner(data), indicator.type = "sha256"), {"tags"})
      same == id = Text("same") \/ (indicator.type = "url" /\ id = Text("other"))
  IN IF \/ ~Is(data, "object")
        \/ Of(data[2], "type") # Text(ObjectType(indicator))
        \/ ~same
     THEN Error("invalid response")
     ELSE Collected("reputation", VTFindings(report), report)

VTNotFound == Collected("no record", {"not_found"}, <<>>)

VTSupports(indicator) == indicator.type # "sha1" /\ indicator.type # "md5"

VirusTotal(response, indicator) ==
  CASE response.status = 200 -> VTObject(response.body, indicator)
    [] response.status = 404 /\ IsNotFoundError(response.body) -> VTNotFound
    [] OTHER -> StatusError(response.status)

-----------------------------------------------------------------------------
(* AbuseIPDB *)

(* An answer for another address is only noted. *)
Address(value) ==
  IF value = Text("same") THEN Skip
  ELSE IF value = Text("other") THEN Drop("ipAddress", "a different address")
  ELSE Drop("ipAddress", IF Is(value, "text") THEN "not a valid address"
                         ELSE "missing")

ReportCount(data, key, max) == Count(Of(data, key), key, TRUE, max, FALSE)

DistinctUsers(data) ==
  LET users == ReportCount(data, "numDistinctUsers", MaxReports)
      total == ReportCount(data, "totalReports", MaxReports)
  IN IF \E n \in users.kept, t \in total.kept : n > t
     THEN Read(users.kept, {<<"numDistinctUsers", "exceeds totalReports">>})
     ELSE users

LastReported(data) ==
  Timestamp(Of(data, "lastReportedAt"), "lastReportedAt", FALSE)

IPFlag(data, key) == Boolean(Of(data, key), key)

IPText(data, key) == Words(Of(data, key), key)

Hostnames(data) == Texts(Of(data, "hostnames"), "hostnames", MaxItems, TRUE)

IPReport(data) ==
  [ipAddress |-> Address(Of(data, "ipAddress")),
   abuseConfidenceScore |-> ReportCount(data, "abuseConfidenceScore", 100),
   totalReports |-> ReportCount(data, "totalReports", MaxReports),
   numDistinctUsers |-> DistinctUsers(data),
   lastReportedAt |-> LastReported(data),
   isWhitelisted |-> IPFlag(data, "isWhitelisted"),
   isTor |-> IPFlag(data, "isTor"),
   usageType |-> IPText(data, "usageType"),
   isp |-> IPText(data, "isp"),
   domain |-> IPText(data, "domain"),
   countryCode |-> CountryCode(Of(data, "countryCode"), "countryCode"),
   hostnames |-> Hostnames(data)]

IPFindings(report) ==
  {"observed"}
    \cup {IF total = 0 THEN "no_reports" ELSE "abuse_reports" :
            total \in Kept(report, "totalReports")}
    \cup {"high_abuse_confidence" :
            score \in {s \in Kept(report, "abuseConfidenceScore") : s >= 75}}
    \cup {"allowlisted" : flag \in Kept(report, "isWhitelisted") \cap {TRUE}}
    \cup {"tor" : flag \in Kept(report, "isTor") \cap {TRUE}}

Checked(body) ==
  LET data == Of(Inner(body), "data")
      report == Redacted(IPReport(Inner(data)),
                         {"usageType", "isp", "domain", "countryCode", "hostnames"})
  IN IF ~Is(data, "object") THEN Error("invalid response")
     ELSE Collected("ip reputation", IPFindings(report), report)

IPSupports(indicator) == indicator.type \in {"ipv4", "ipv6"}

AbuseIPDB(response) ==
  IF response.status = 200 THEN Checked(response.body)
  ELSE Error("unexpected status")
=============================================================================
