------------------------------ MODULE Listings ------------------------------
(***************************************************************************)
(* What the URLhaus and MalwareBazaar collectors make of an answer         *)
(* (crates/collectors/src/sources/urlhaus, malwarebazaar and abusech.rs).  *)
(* Both answer by a query status; what is listed identifies itself as      *)
(* "same" or "other" than what was queried.                                *)
(***************************************************************************)
EXTENDS Reputation

CONSTANTS
  MaxCount,      \* abuse.ch's MAX_PLAUSIBLE_COUNT
  MaxSignatures  \* the payload signatures that are kept

ASSUME ListingsConstants == MaxCount \in Nat /\ MaxSignatures \in Nat

Latest(times) == {t \in times : \A u \in times : u <= t}

(* Counts are documented as texts of digits. *)
ListedCount(fields, key, required) ==
  Count(Of(fields, key), key, required, MaxCount, TRUE)

Tags(fields, key) == Texts(Of(fields, key), "tags", MaxItems, FALSE)

-----------------------------------------------------------------------------
(* URLhaus *)

(* entry_id *)
EntryId(fields, key) ==
  LET id == Of(fields, "id") IN
  CASE Absent(id) -> Drop(key, "missing")
    [] (Is(id, "num") \/ Is(id, "digits")) /\ id[2] >= 0 -> Keep(id[2])
    [] OTHER -> Drop(key, "not a numeric identifier")

Blacklist(data, name) ==
  LET lists == Of(data, "blacklists") IN
  CASE Is(lists, "object") -> Token(Of(lists[2], name), name, FALSE)
    [] Absent(lists) -> Skip
    [] OTHER -> Drop("blacklists", "unexpected type")

Blacklists == {"spamhaus_dbl", "surbl"}

(* The payloads of a URL: hashes that repeat are counted once.             *)
Payloads(data) ==
  LET value == Of(data, "payloads")
      items == IF Is(value, "list") THEN value[2] ELSE <<>>
      payloads == {i \in DOMAIN items : Is(items[i], "object")}
      hash(i) == Of(items[i][2], "response_sha256")
      hashed == {i \in payloads : Is(hash(i), "digits")}
      repeated == {i \in hashed : \E j \in hashed : j < i /\ hash(j) = hash(i)}
      signature(i) == Of(items[i][2], "signature")
      signed == {i \in payloads : Is(signature(i), "text") /\ IsToken(signature(i))}
      signatures == {signature(i)[2] : i \in signed}
      kept == CHOOSE s \in SUBSET signatures :
                Cardinality(s) = IF Cardinality(signatures) <= MaxSignatures
                                 THEN Cardinality(signatures) ELSE MaxSignatures
      issues ==
        {<<"payloads", "an entry has an unexpected type">> :
           i \in DOMAIN items \ payloads}
          \cup {<<"payloads", "no valid response_sha256">> : i \in payloads \ hashed}
          \cup {<<"payloads", "duplicates were counted once">> : i \in repeated}
          \cup {<<"payloads", "a signature is not a short token">> :
                  i \in {j \in payloads \ signed : ~Absent(signature(j))}}
          \cup {<<"payloads", "too many signatures">> : s \in signatures \ kept}
  IN [returned_payloads |->
        CASE Absent(value) -> Skip
          [] Is(value, "list") -> Read({Cardinality({hash(i) : i \in hashed})}, issues)
          [] OTHER -> Drop("payloads", "unexpected type"),
      signatures |-> Read(kept, {})]

URLEntry(data) ==
  LET payloads == Payloads(data)
      attribute(key) == Token(Of(data, key), key, TRUE)
  IN [entry_id |-> EntryId(data, "id"),
      url_status |-> attribute("url_status"),
      threat |-> attribute("threat"),
      larted |-> attribute("larted"),
      date_added |-> Timestamp(Of(data, "date_added"), "date_added", TRUE),
      last_online |-> Timestamp(Of(data, "last_online"), "last_online", FALSE),
      takedown_time_seconds |-> ListedCount(data, "takedown_time_seconds", FALSE),
      tags |-> Tags(data, "tags"),
      returned_payloads |-> payloads.returned_payloads,
      signatures |-> payloads.signatures,
      spamhaus_dbl |-> Blacklist(data, "spamhaus_dbl"),
      surbl |-> Blacklist(data, "surbl")]

(* The entries of a host that are counted: the first with each identifier. *)
DistinctEntries(items, entries) ==
  {i \in entries : \A j \in entries : j < i =>
     EntryId(items[j][2], "urls").kept # EntryId(items[i][2], "urls").kept}

(* The URLs of a host. *)
Entries(value) ==
  LET items == IF Is(value, "list") THEN value[2] ELSE <<>>
      objects == {i \in DOMAIN items : Is(items[i], "object")}
      id(i) == EntryId(items[i][2], "urls")
      entries == {i \in objects : id(i).kept # {}}
      counted == DistinctEntries(items, entries)
      added(i) == Timestamp(Of(items[i][2], "date_added"), "urls", TRUE)
      tagged(i) == Tags(items[i][2], "tags")
      tags == UNION {tagged(i).kept : i \in counted}
      kept == CHOOSE s \in SUBSET tags :
                Cardinality(s) = IF Cardinality(tags) <= MaxItems
                                 THEN Cardinality(tags) ELSE MaxItems
      issues ==
        {<<"urls", "an entry has an unexpected type">> : i \in DOMAIN items \ objects}
          \cup (UNION {id(i).issues : i \in objects})
          \cup {<<"urls", "duplicates were counted once">> : i \in entries \ counted}
          \cup (UNION {added(i).issues \cup tagged(i).issues : i \in counted})
          \cup {<<"tags", "too many entries">> : tag \in tags \ kept}
      online == {i \in counted : Of(items[i][2], "url_status") = Text("online")}
      read(values) == IF Is(value, "list") THEN Read(values, {}) ELSE Skip
  IN [returned_urls |->
        CASE Absent(value) -> Drop("urls", "missing")
          [] Is(value, "list") -> Read({Cardinality(counted)}, issues)
          [] OTHER -> Drop("urls", "unexpected type"),
      online |-> read({Cardinality(online)}),
      latest_date_added |-> read(Latest(UNION {added(i).kept : i \in counted})),
      tags |-> read(kept)]

HostEntry(data) ==
  LET entries == Entries(Of(data, "urls")) IN
  [firstseen |-> Timestamp(Of(data, "firstseen"), "firstseen", TRUE),
   url_count |-> ListedCount(data, "url_count", Of(data, "url_count") = None),
   returned_urls |-> entries.returned_urls,
   online |-> entries.online,
   latest_date_added |-> entries.latest_date_added,
   tags |-> entries.tags,
   spamhaus_dbl |-> Blacklist(data, "spamhaus_dbl"),
   surbl |-> Blacklist(data, "surbl")]

URLhausFindings(indicator, report) ==
  {IF indicator.type = "url" THEN "url_listed" ELSE "host_listed"}
    \cup {"url_online" : status \in
            {s \in IF indicator.type = "url" THEN Kept(report, "url_status")
                   ELSE {} : s = "online"}}
    \cup {"blocklist_status" :
            status \in UNION {Kept(report, name) : name \in Blacklists}
                         \ {"not listed"}}

(* redact_echoed_key in attributes, tags and the identifier, which is      *)
(* digits here.                                                            *)
URLhausReport(data, indicator) ==
  IF indicator.type = "url"
  THEN Redacted(URLEntry(data),
                {"url_status", "threat", "larted", "signatures", "tags"}
                  \cup Blacklists)
  ELSE Redacted(HostEntry(data), {"tags"} \cup Blacklists)

(* query_status is looked for under its misspelling, too.                  *)
QueryStatus(data) ==
  IF Of(data, "query_status") # None THEN Of(data, "query_status")
  ELSE Of(data, "query_staus")

Identity(data, indicator) ==
  Of(data, IF indicator.type = "url" THEN "url" ELSE "host")

NoRecord(finding) == Collected("no record", {finding}, <<>>)

Lookup(body, indicator) ==
  LET data == Inner(body)
      report == URLhausReport(data, indicator)
  IN CASE QueryStatus(data) = Text("no_results") -> NoRecord("no_results")
       [] QueryStatus(data) = Text("ok") /\ Identity(data, indicator) = Text("same") ->
            Collected("listing", URLhausFindings(indicator, report), report)
       [] OTHER -> Error("invalid response")

URLhausSupports(indicator) == indicator.type \in {"url", "domain", "ipv4"}

URLhaus(response, indicator) ==
  IF response.status = 200 THEN Lookup(response.body, indicator)
  ELSE StatusError(response.status)

-----------------------------------------------------------------------------
(* MalwareBazaar *)

(* The hash the sample must carry. *)
IdentityField(indicator) ==
  IF indicator.type = "sha256" THEN "sha256_hash" ELSE "sha1_hash"

SampleReport(sample) ==
  LET time(key, required) ==
        IF Absent(Of(sample, key)) THEN Missing(key, required)
        ELSE Timestamp(Of(sample, key), key, TRUE)
  IN [signature |-> Token(Of(sample, "signature"), "signature", FALSE),
      file_type |-> Token(Of(sample, "file_type"), "file_type", TRUE),
      file_type_mime |-> Token(Of(sample, "file_type_mime"), "file_type_mime", TRUE),
      delivery_method |-> Token(Of(sample, "delivery_method"), "delivery_method", FALSE),
      file_size |-> ListedCount(sample, "file_size", TRUE),
      first_seen |-> time("first_seen", TRUE),
      last_seen |-> time("last_seen", FALSE),
      tags |-> Tags(sample, "tags")]

(* The sample, if there is exactly one. *)
Sample(data) ==
  IF Is(data, "list") /\ DOMAIN data[2] = {1} /\ Is(data[2][1], "object")
  THEN {data[2][1][2]} ELSE {}

(* What a sample that carries the queried hash is reported as.             *)
Listed(sample) ==
  LET report == Redacted(SampleReport(sample),
                         {"signature", "file_type", "file_type_mime",
                          "delivery_method", "tags"})
  IN Collected("listing", {"sample_listed"}, report)

GetInfo(body, indicator) ==
  LET data == Inner(body)
      samples == {s \in Sample(Of(data, "data")) :
                    Of(s, IdentityField(indicator)) = Text("same")}
  IN CASE Of(data, "query_status") = Text("hash_not_found") -> NoRecord("not_found")
       [] Of(data, "query_status") = Text("ok") /\ samples # {} ->
            Listed(CHOOSE s \in samples : TRUE)
       [] OTHER -> Error("invalid response")

BazaarSupports(indicator) == indicator.type \in {"sha256", "sha1"}

MalwareBazaar(response, indicator) ==
  IF response.status = 200 THEN GetInfo(response.body, indicator)
  ELSE StatusError(response.status)
=============================================================================
