------------------------------ MODULE MCAnswers ------------------------------
(***************************************************************************)
(* Instances of Answers for TLC: for each source a good answer, and all    *)
(* that differ from it in one or two places, each in every way its parser  *)
(* tells apart.                                                            *)
(***************************************************************************)
EXTENDS Answers

(* A document with one field changed, or two. *)
Altered(document, choices) ==
  {document} \cup UNION {{[document EXCEPT ![key] = value] : value \in choices[key]} :
                           key \in DOMAIN choices}

Altered2(document, choices) ==
  UNION {Altered(other, choices) : other \in Altered(document, choices)}

OK(bodies) == {Response(200, body) : body \in bodies}

Counts == {Num(0), Num(1), Num(9), Num(-1), Digits(1), None, Null}
Words1 == {None, Text("blank"), Text("long"), Text("key"), Junk}
Times == {None, Junk, Time(1, TRUE), Time(0, TRUE), Time(2, FALSE)}
Lists == {None, Junk, List(<<Text("blank")>>), List(<<Text("key"), Junk>>),
          List(<<Text("a"), Text("b"), Text("c")>>)}

-----------------------------------------------------------------------------
EngineStats == {"malicious", "suspicious", "undetected", "harmless", "timeout"}

VTStats ==
  Altered2([key \in EngineStats |-> IF key = "harmless" THEN Num(2) ELSE Num(0)],
           [key \in EngineStats |-> IF key \in {"malicious", "harmless"} THEN Counts
                                    ELSE {Num(1), Num(9), None}])

VTVotes == [key \in {"votes.harmless", "votes.malicious"} |-> Num(1)]

VTGood(stats) ==
  [last_analysis_stats |-> Object(stats), total_votes |-> Object(VTVotes),
   reputation |-> Num(1), last_analysis_date |-> Num(1), tags |-> List(<<Text("a")>>)]

GoodStats == [key \in EngineStats |-> IF key = "harmless" THEN Num(2) ELSE Num(0)]

VTAttributes ==
  {VTGood(stats) : stats \in VTStats}
    \cup Altered2(VTGood(GoodStats),
           [last_analysis_stats |-> {None, Junk},
            total_votes |-> {None, Object([VTVotes EXCEPT !["votes.harmless"] = Num(9)])},
            reputation |-> {None, Junk, Num(-4), Num(-2), Num(3), Num(7)},
            last_analysis_date |-> {None, Junk, Num(0)},
            tags |-> Lists])

VTData(attributes) ==
  [type |-> Text("ip_address"), id |-> Text("same"), attributes |-> Object(attributes)]

VTBodies ==
  {Object([data |-> Object(VTData(attributes))]) : attributes \in VTAttributes}
    \cup {Object([data |-> Object(data)]) : data \in
            Altered2(VTData(VTGood(GoodStats)),
                     [type |-> {Text("url"), Text("file"), None},
                      id |-> {Text("other"), None}, attributes |-> {None, Junk}])}
    \cup {Junk, Object([data |-> Junk])}

NotFoundError(code) == Object([error |-> Object([code |-> Text(code)])])

VTReplies ==
  OK(VTBodies)
    \cup {Response(404, NotFoundError(code)) : code \in {"NotFoundError", "markup"}}
    \cup {Response(status, Junk) : status \in {301, 401, 404, 429, 503}}

-----------------------------------------------------------------------------
IPGood ==
  [ipAddress |-> Text("same"), abuseConfidenceScore |-> Num(80),
   totalReports |-> Num(2), numDistinctUsers |-> Num(1),
   lastReportedAt |-> Time(1, TRUE), isWhitelisted |-> Flag(FALSE),
   isTor |-> Flag(TRUE), isp |-> Text("a"), countryCode |-> Text("cc"),
   hostnames |-> List(<<Text("a")>>)]

IPBodies ==
  {Object([data |-> Object(data)]) : data \in
     Altered2(IPGood,
       [ipAddress |-> {Text("other"), Text("markup"), None},
        abuseConfidenceScore |-> {None, Num(74), Num(101), Num(0)},
        totalReports |-> {Num(0), None, Digits(0), Num(1), Num(9)},
        numDistinctUsers |-> {Num(3), None},
        lastReportedAt |-> Times,
        isWhitelisted |-> {None, Flag(TRUE), Junk},
        isTor |-> {None, Junk},
        isp |-> Words1,
        countryCode |-> Words1 \cup {Text("usa")},
        hostnames |-> Lists])}
    \cup {Junk, Object([data |-> List(<<>>)])}

IPReplies == OK(IPBodies) \cup {Response(status, Junk) : status \in {404, 422, 500}}

-----------------------------------------------------------------------------
Payload(hash, signature) ==
  Object([response_sha256 |-> hash, signature |-> signature])

URLGood ==
  [query_status |-> Text("ok"), query_staus |-> None, url |-> Text("same"),
   host |-> Text("same"), id |-> Digits(1), url_status |-> Text("online"),
   threat |-> Text("a"), larted |-> Flag(TRUE), date_added |-> Time(1, FALSE),
   last_online |-> Time(1, TRUE), tags |-> List(<<Text("a")>>),
   payloads |-> List(<<Payload(Digits(1), Text("a"))>>),
   blacklists |-> Object([spamhaus_dbl |-> Text("not listed"), surbl |-> Text("a")]),
   takedown_time_seconds |-> None, firstseen |-> Time(1, FALSE),
   url_count |-> Digits(1),
   urls |-> List(<<Object([id |-> Digits(1), url_status |-> Text("online"),
                           date_added |-> Time(2, FALSE)])>>)]

URLItem(id) == Object([id |-> id, date_added |-> Time(1, FALSE)])

URLBodies ==
  {Object(body) : body \in
     Altered2(URLGood,
       [query_status |-> {Text("no_results"), Text("markup"), None},
        query_staus |-> {Text("no_results")},
        url |-> {Text("other"), None}, host |-> {Text("other")},
        id |-> {None, Num(1), Text("a")}, url_status |-> {Text("a"), None, Text("key")},
        larted |-> {Junk, Text("markup")}, date_added |-> {Time(0, TRUE), Junk},
        last_online |-> {Time(1, FALSE), Null}, tags |-> Lists,
        payloads |-> {None, Junk, List(<<Payload(Digits(1), None), Junk,
                                         Payload(Digits(1), Text("markup"))>>),
                      List(<<Payload(Junk, Text("b")), Payload(Digits(2), Text("c")),
                             Payload(Digits(3), Text("d"))>>)},
        blacklists |-> {None, Junk, Object([surbl |-> Junk])},
        takedown_time_seconds |-> {Num(1), Digits(9)},
        url_count |-> {Null, None, Num(9)},
        urls |-> {None, Junk, List(<<URLItem(Num(1)), URLItem(Num(1)), Junk>>),
                  List(<<URLItem(None), URLItem(Num(2))>>)}])}
    \cup {Junk}

URLReplies == OK(URLBodies) \cup {Response(status, Junk) : status \in {404, 418}}

-----------------------------------------------------------------------------
SampleGood ==
  [sha256_hash |-> Text("same"), sha1_hash |-> Text("same"), signature |-> Text("a"),
   file_type |-> Text("a"), file_type_mime |-> Text("a"), delivery_method |-> Null,
   file_size |-> Num(1), first_seen |-> Time(1, FALSE), last_seen |-> Null,
   tags |-> List(<<Text("a")>>)]

Samples ==
  Altered2(SampleGood,
    [sha256_hash |-> {Text("other"), None}, sha1_hash |-> {Text("other")},
     signature |-> {Null, Text("markup"), Text("key")}, file_type |-> {None, Junk},
     delivery_method |-> {Text("long")}, file_size |-> {Num(9), Digits(1), None},
     first_seen |-> {None, Junk}, last_seen |-> {Time(0, TRUE), Junk},
     tags |-> Lists])

BazaarBody(status, data) == Object([query_status |-> Text(status), data |-> data])

BazaarBodies ==
  {BazaarBody("ok", List(<<Object(sample)>>)) : sample \in Samples}
    \cup {BazaarBody(status, data) : status \in {"ok", "hash_not_found", "markup"},
            data \in {None, Junk, List(<<>>), List(<<Junk>>),
                      List(<<Object(SampleGood),
                             Object([SampleGood EXCEPT !.sha256_hash = Text("other")])>>)}}

BazaarReplies == OK(BazaarBodies) \cup {Response(502, Junk)}

-----------------------------------------------------------------------------
(* The tree of entities: an individual, an organization below or beside    *)
(* it, a mailbox that is none, a card that is cut off.                     *)
Card(kind, name, email) ==
  List(<<Property("kind", kind), Property("fn", name), Property("email", email), Junk>>)

Party(roles, card, entities) ==
  Object([roles |-> List(roles), vcardArray |-> card, entities |-> entities])

Registrant == Text("registrant")
Abuse == Text("abuse")
Org(name) == Party(<<Registrant>>, Card("org", name, "mail"), None)
Jane(below) == Party(<<Registrant, Abuse>>, Card("individual", "jane", "mail"), below)
Desk(email) == Party(<<Abuse>>, Card("group", "desk", email), None)
NoCard(below) == Party(<<Registrant>>, Junk, below)

EntityLists ==
  {None, Junk, List(<<Junk, Org("a")>>), List(<<Org("blank"), Org("long")>>),
   List(<<Org("a"), Org("b"), Desk("mail")>>), List(<<Desk("markup"), Desk("mail")>>),
   List(<<Jane(List(<<Org("a")>>)), Desk("mail")>>),
   List(<<Jane(List(<<Desk("markup")>>)), Org("a")>>),
   List(<<NoCard(List(<<NoCard(List(<<Org("a")>>)), Desk("mail")>>)), Org("b")>>),
   List(<<Jane(None), Jane(None), Jane(None), Org("a")>>),
   List(<<Party(<<Registrant>>, List(<<Property("kind", "org"), Property("fn", "a"),
                                        Property("kind", "individual")>>), None)>>),
   List(<<Party(<<Registrant>>, List(<<Property("fn", "a"), Property("fn", "b"),
                                        Property("email", "mail"), Property("kind", "individual")>>),
                List(<<Junk>>))>>)}

CIDR(n, length) == Object([prefix |-> IP(n), length |-> Num(length)])

RegistrationGood ==
  [objectClassName |-> Text("ip network"), handle |-> Text("a"), name |-> Text("a"),
   country |-> Text("cc"), ipVersion |-> Text("queried family"),
   startAddress |-> IP(4), endAddress |-> IP(7), cidr0_cidrs |-> List(<<CIDR(4, 1)>>),
   status |-> List(<<Text("active")>>),
   events |-> List(<<Object([eventAction |-> Text("registration"),
                             eventDate |-> Time(1, TRUE)])>>),
   entities |-> List(<<Org("a"), Desk("mail")>>)]

Event(action, date) == Object([eventAction |-> Text(action), eventDate |-> date])

RegistrationBodies ==
  {Object(body) : body \in
     Altered2(RegistrationGood,
       [objectClassName |-> {None, Text("domain")},
        handle |-> Words1, name |-> Words1, country |-> Words1 \cup {Text("usa")},
        ipVersion |-> {None, Text("other family"), Junk},
        startAddress |-> {None, IP(5), IP(6), Text("other family"), Junk},
        endAddress |-> {None, Null, IP(4), IP(5), Text("markup")},
        cidr0_cidrs |->
          {None, Null, List(<<CIDR(4, 1), CIDR(4, 2)>>), List(<<CIDR(5, 3), CIDR(4, 1)>>),
           List(<<CIDR(6, 2), CIDR(5, 2)>>), List(<<CIDR(0, 4), Junk>>),
           List(<<CIDR(0, 0), CIDR(4, 2), CIDR(5, 3)>>)},
        status |-> Lists \cup {Null},
        events |-> {None, Null, List(<<Event("registration", Junk), Junk,
                                       Event("registration", Time(2, TRUE))>>),
                    List(<<Event("last changed", Time(1, FALSE)),
                           Event("last changed", Time(1, TRUE))>>)},
        entities |-> EntityLists])}
    \cup {Junk, List(<<>>)}

RegistrationReplies == OK(RegistrationBodies) \cup {Response(404, Junk)}

-----------------------------------------------------------------------------
(* Entries of the log: a certificate logged three times (its names differ, *)
(* and once there are too many), one without a serial, one that is older,  *)
(* one with bad dates.                                                     *)
Exact == Name(<<"example", "com">>, "plain")
Wildcard == Name(<<"*", "example", "com">>, "plain")
Sub == Name(<<"www", "example", "com">>, "plain")
Foreign == Name(<<"example", "net">>, "plain")
Bad == Name(<<"bad", "com">>, "plain")
Mail == Name(<<"example", "com">>, "email")

LogItem(id, serial, from, until, names) ==
  Object([id |-> id, issuer_name |-> Text("a"), common_name |-> Text("a"),
          serial_number |-> serial, not_before |-> Time(from, FALSE),
          not_after |-> Time(until, FALSE), name_value |-> List(names)])

LogItems ==
  {LogItem(Num(1), Text("s1"), 2, 6, <<Exact, Wildcard>>),
   LogItem(Num(2), Text("s1"), 2, 6, <<Sub, Exact>>),
   LogItem(Num(5), Text("s1"), 2, 6, <<Exact, Mail, Wildcard, Foreign>>),
   LogItem(Num(3), None, 1, 3, <<Foreign, Bad, Mail, Sub>>),
   LogItem(Num(4), Text("markup"), 6, 5, <<Exact>>),
   LogItem(None, Text("long"), 3, 9, <<Sub>>),
   Junk}

LogReplies ==
  OK({List(items) : items \in UNION {[1..n -> LogItems] : n \in 0..3}})
    \cup OK({Junk, List(<<LogItem(Num(1), Text("s1"), 1, 2, <<Exact>>), Junk, Junk, Junk,
                          LogItem(Num(2), Text("s2"), 1, 2, <<Exact>>)>>)})
    \cup {Response(404, List(<<>>))}

-----------------------------------------------------------------------------
(* TXT records of Team Cymru. *)
OriginText(asns, prefix, fields) ==
  [asns |-> asns, prefix |-> prefix, fields |-> fields,
   country |-> "cc", registry |-> "a", allocated |-> "a"]

OriginTexts ==
  {OriginText(asns, prefix, 5) : asns \in {<<>>, <<1>>, <<2, 1>>, <<0, 3>>, <<3, 1, 2>>},
                                 prefix \in {"of it", "elsewhere", "bad"}}
    \cup {OriginText(<<2>>, "of it", 3)}

CymruReplies == UNION {[1..n -> OriginTexts] : n \in 0..2}
                  \cup {[i \in 1..3 |-> OriginText(<<i>>, "of it", 5)]}

NameTexts ==
  {[asn |-> asn, name |-> name, fields |-> 5, country |-> country, registry |-> "a",
    allocated |-> "a"] : asn \in {1, 2}, name \in {"a"}, country \in {"cc", "bad"}}

-----------------------------------------------------------------------------
Terms ==
  {Term(sign, "all", follows, "") : sign \in {"", "-", "~"}, follows \in {"", "="}}
    \cup {Term("", name, follows, "good") : name \in {"include", "a", "redirect"},
                                            follows \in {":", "="}}
    \cup {Term("", "ip4", ":", "bad"), Term("", "ptr", "", "")}

SpfReplies == UNION {[1..n -> Terms] : n \in 0..3}

DmarcTags ==
  {Tag("p", "none"), Tag("p", "reject"), Tag("sp", "none"), Tag("sp", "markup"),
   Tag("pct", "partial"), Tag("adkim", "s"), Tag("rua", ""), Tag("rua", "some"), Tag("fo", "1"),
   Tag("", "none")}

DmarcReplies == UNION {[1..n -> DmarcTags] : n \in 0..3}

CaaRecords ==
  {CaaRecord(FALSE, tag, value) : tag \in {"issue", "issuewild"},
                                  value \in {"", "bad", "ca", "another"}}
    \cup {CaaRecord(TRUE, "unknown", ""), CaaRecord(FALSE, "iodef", "a")}

CaaReplies == UNION {[1..n -> CaaRecords] : n \in 1..3}

-----------------------------------------------------------------------------
AllReplies ==
  [virustotal |-> VTReplies, abuseipdb |-> IPReplies, urlhaus |-> URLReplies,
   malwarebazaar |-> BazaarReplies, rdap |-> RegistrationReplies, ct |-> LogReplies, cymru |-> CymruReplies,
   spf |-> SpfReplies, dmarc |-> DmarcReplies, caa |-> CaaReplies]

AllIndicators ==
  {[type |-> type, public |-> TRUE] : type \in {"ipv4", "url", "domain", "sha256",
                                                "sha1", "md5", "ipv6"}}
    \cup {[type |-> "ipv4", public |-> FALSE]}

Example == <<"example", "com">>
=============================================================================
