---------------------------- MODULE MCCorrelation ----------------------------
(***************************************************************************)
(* Instances of Correlation for TLC: what the sources report of a domain   *)
(* with two addresses.                                                     *)
(***************************************************************************)
EXTENDS Correlation

Domain(name) == <<"domain", name>>
IP(n) == <<"ip", n>>
AS(n) == <<"as", n>>
Net(addresses) == <<"network", addresses>>
Cert(n) == <<"cert", n>>

Example == Domain("example")
Www == Domain("www")
Mail == Domain("mail")
Subdomains == {Www, Mail}
NameRank == [name \in {"example", "mail", "www", "elsewhere"} |->
               CASE name = "example" -> 1 [] name = "mail" -> 2
                 [] name = "www" -> 3 [] OTHER -> 4]

NoCounts == [name \in {} |-> 0]

Observation(id, source, about, data, name, value, at) ==
  [id |-> id, source |-> source, about |-> about, data |-> data, name |-> name,
   value |-> value, counts |-> NoCounts, at |-> at, confidence |-> 90 - id]

Counted(id, source, about, data, counts, at) ==
  [Observation(id, source, about, data, "", {}, at) EXCEPT !.counts = counts]

Edge(kind, source, target, evidence) ==
  [kind |-> kind, source |-> source, target |-> target, evidence |-> evidence]

Run(source, about, outcome, observations, relationships) ==
  [source |-> source, about |-> about, outcome |-> outcome,
   observations |-> observations, relationships |-> relationships]

Failure(source, about) == Run(source, about, "failed", <<>>, <<>>)

-----------------------------------------------------------------------------
Record(id, name, data) == Observation(id, "dns", Example, data, name, {}, 1)

DnsRun ==
  Run("dns", Example, "succeeded",
      <<Record(1, "example", "address"), Record(2, "example", "address"),
        Record(3, "example", "record"), Record(4, "mail", "address")>>,
      <<Edge("resolves_to", Example, IP(1), <<1>>), Edge("resolves_to", Example, IP(2), <<2>>),
        Edge("has_mail_exchanger", Example, Mail, <<3>>),
        Edge("resolves_to", Mail, IP(1), <<4>>)>>)

Origin(id, n, prefix) == Observation(id, "cymru", IP(n), "origin", "", prefix, 2)

(* One record; two that agree, differ, or list several; one prefix that is *)
(* of another address, and none.                                           *)
CymruRuns(n) ==
  LET id == 10 * n
      announced(asn, ids) == Edge("announced_by", IP(n), AS(asn), ids)
  IN {Run("cymru", IP(n), "succeeded", <<Origin(id, n, {1, 2})>>, <<announced(7, <<id>>)>>),
      Run("cymru", IP(n), "succeeded",
          <<Origin(id, n, {n}), Origin(id + 1, n, {1, 2})>>,
          <<announced(7, <<id, id + 1>>), announced(8, <<id, id + 1>>)>>),
      Run("cymru", IP(n), "partial",
          <<Origin(id, n, {3}), Origin(id + 1, n, {})>>,
          <<announced(7, <<id>>), announced(8, <<id + 1>>)>>),
      Failure("cymru", IP(n))}

Network(id, n, range) == Observation(id, "rdap", IP(n), "network", "", range, 3)

RdapRuns(n) ==
  LET id == 10 * n + 5 IN
  {Run("rdap", IP(n), "succeeded", <<Network(id, n, range)>>,
       <<Edge("registered_in", IP(n), Net(range), <<id>>)>>) : range \in {{1, 2}, {3, 4}}}
    \cup {Run("rdap", IP(n), "succeeded", <<Network(id, n, {})>>,
              <<Edge("registered_in", IP(n), Net({1, 2}), <<id>>)>>),
          Failure("rdap", IP(n))}

InfrastructureScenarios ==
  {{DnsRun, c1, c2, r1} : c1 \in CymruRuns(1), r1 \in RdapRuns(1),
                          c2 \in {c \in CymruRuns(2) : Len(c.observations) < 2}}
    \cup {{DnsRun, c1, r1, Failure("ct", Example)} : c1 \in CymruRuns(1), r1 \in RdapRuns(1)}

-----------------------------------------------------------------------------
Answered(source, about, observations) ==
  Run(source, about, "succeeded", observations, <<>>)

(* What five counters are, in the order of ENGINE_COUNTERS.                *)
Stats(malicious, suspicious, undetected, harmless, timeout) ==
  [malicious |-> malicious, suspicious |-> suspicious, undetected |-> undetected,
   harmless |-> harmless, timeout |-> timeout]

Without(counts, name) == [key \in DOMAIN counts \ {name} |-> counts[key]]

VirusTotal(id, counts) ==
  Counted(id, "virustotal", IP(1), "provider reputation", counts, 4)

(* All known and none of them bad, some bad, none at all; one that is      *)
(* missing, which may be one of the bad.                                   *)
EngineCounts ==
  {Stats(0, 0, 3, 2, 1), Stats(1, 0, 3, 2, 1), Stats(0, 0, 0, 0, 0),
   Without(Stats(0, 2, 3, 2, 1), "timeout"), Without(Stats(0, 0, 3, 2, 1), "suspicious")}

NoRecord(id, source) == Observation(id, source, IP(1), "no record", "", {}, 4)

(* Two answers of one source: the rules take any investigation.            *)
VirusTotalRuns ==
  {Answered("virustotal", IP(1), <<VirusTotal(40, counts)>>) : counts \in EngineCounts}
    \cup {Answered("virustotal", IP(1), <<NoRecord(40, "virustotal")>>),
          Answered("virustotal", IP(1), <<VirusTotal(40, Stats(1, 0, 3, 2, 1)),
                                            VirusTotal(41, Stats(0, 0, 3, 2, 1))>>),
          Answered("virustotal", IP(1), <<VirusTotal(40, NoCounts),
                                            VirusTotal(41, Stats(0, 0, 3, 2, 1))>>),
          Answered("virustotal", IP(1), <<VirusTotal(40, Stats(0, 0, 3, 2, 1)),
                                            NoRecord(41, "virustotal")>>)}

UrlhausRuns ==
  {Answered("urlhaus", IP(1),
            <<Observation(50, "urlhaus", IP(1), "listing", "", {}, 4)>>),
   Answered("urlhaus", IP(1), <<NoRecord(50, "urlhaus")>>),
   Failure("urlhaus", IP(1))}

AbuseRuns ==
  {Answered("abuseipdb", about, <<Counted(60, "abuseipdb", about, "ip reputation", counts, 4)>>) :
     about \in {IP(1), IP(2)},
     counts \in {[total_reports |-> 0], [total_reports |-> 2], NoCounts}}

ClaimScenarios == {{v, u, a} : v \in VirusTotalRuns, u \in UrlhausRuns, a \in AbuseRuns}

-----------------------------------------------------------------------------
Certificate(id, n) ==
  Observation(id, "ct", Example, "certificate", "", {n}, 6)

Covers(kind, n, name, id) == Edge(kind, Cert(n), name, <<id>>)

CtRuns ==
  LET certificates == <<Certificate(72, 2), Certificate(71, 1), Certificate(73, 3)>>
      edges == {<<Covers("covers_name", 2, Example, 72), Covers("covers_name", 2, Www, 72)>>,
                <<Covers("covers_wildcard", 2, Mail, 72), Covers("covers_name", 2, Mail, 72)>>,
                <<Covers("covers_name", 2, Domain("elsewhere"), 72)>>}
      first == {<<Covers("covers_name", 1, Mail, 71)>>,
                <<Covers("covers_name", 1, Example, 71),
                  Covers("covers_wildcard", 1, Example, 71), Covers("covers_name", 1, Mail, 71)>>,
                <<Covers("covers_name", 1, Example, 71), Covers("covers_name", 1, Www, 71),
                  Covers("covers_name", 1, Mail, 71)>>}
      third == {<<>>, <<Covers("covers_name", 3, Www, 73), Covers("covers_name", 3, Mail, 73),
                        Covers("covers_name", 3, Example, 73)>>}
  IN UNION {{Run("ct", Example, "succeeded", certificates, e \o f \o t),
              Run("ct", Example, "succeeded", Reverse(certificates), t \o f \o e)} :
               e \in edges, f \in first, t \in third}

CertificateScenarios == {{DnsRun, ct} : ct \in CtRuns} \cup {{ct} : ct \in CtRuns}

AllScenarios == InfrastructureScenarios \cup ClaimScenarios \cup CertificateScenarios
=============================================================================
