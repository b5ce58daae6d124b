---------------------------- MODULE AnswersProofs ----------------------------
(***************************************************************************)
(* Machine-checked proofs about Answers, for every answer that a source    *)
(* may give.  In this order: what Team Cymru's collector reports of the    *)
(* origins of an address, whatever becomes of the lookups of their names;  *)
(* that the findings about SPF, DMARC and CAA say what a reader of those   *)
(* records comes to; that the readers of single answers keep or report     *)
(* what was said, and conclude no more than was said; and how the entries  *)
(* of the log of certificates are accounted for.                           *)
(***************************************************************************)
EXTENDS Answers, FoldLemmas, FiniteSetTheorems, SequenceTheorems, TLAPS

Described == {d.asn : d \in described}

(* An AS number is still to be looked up, was looked up, or a note says    *)
(* why it was not.                                                         *)
AccountedFor(asn) ==
  \/ asn \in todo
  \/ asn \in absent
  \/ asn \in Described
  \/ <<"description", asn>> \in notes
  \/ <<"descriptions", 0>> \in notes

(* Each origin is what its record says. *)
OriginsAreRead ==
  \A i \in DOMAIN origins :
    i \in DOMAIN reply.body /\ origins[i] = ParseOrigin(reply.body[i])

OriginsAccountedFor ==
  /\ OriginsAreRead
  /\ Len(origins) < Len(reply.body) => <<"origins", 0>> \in notes
  /\ \A i \in DOMAIN origins : \A asn \in origins[i].asns : AccountedFor(asn)

CymruReturned ==
  IF reply = NegativeAnswer
  THEN /\ origins = <<>>
       /\ result.findings = {AsnFinding("not_announced", {}, {}, 85)}
  ELSE /\ OriginsAccountedFor
       /\ todo = {}
       /\ result.findings = AsnFindings(origins, described)

(* What holds of a run of Team Cymru's collector in each of its phases.    *)
CymruInvariant ==
  /\ phase \in {"called", "sent", "describing", "returned"}
  /\ phase \in {"called", "sent"} => origins = <<>>
  /\ phase = "describing" => /\ source = "cymru"
                             /\ reply.status = 200
                             /\ OriginsAccountedFor
  /\ Finished("cymru") => CymruReturned

-----------------------------------------------------------------------------
(* The answers are of different kinds, and so are errors and results.      *)
LEMMA NegativeIsNoRecords ==
  /\ NegativeAnswer.status = 404
  /\ \A records : /\ DnsAnswer(records).status = 200
                  /\ DnsAnswer(records).body = records
  BY DEF NegativeAnswer, DnsAnswer, Response

LEMMA ErrorsAreErrors == \A why : Error(why).error = why
  BY DEF Error

(* The first items of a sequence; the others are counted.                  *)
LEMMA FirstItems ==
  ASSUME NEW S, NEW items \in Seq(S), NEW n \in Nat
  PROVE  /\ First(items, n) \in Seq(S)
         /\ Len(First(items, n)) \in Nat
         /\ Len(First(items, n)) <= Len(items)
         /\ Len(First(items, n)) < Len(items) =>
              1 \in 1..Cut(items, n)
<1> DEFINE k == IF Len(items) < n THEN Len(items) ELSE n
<1>1. Len(items) \in Nat
  BY LenProperties
<1>2. k \in 0..Len(items)
  BY <1>1
<1>3. /\ SubSeq(items, 1, k) \in Seq(S)
      /\ Len(SubSeq(items, 1, k)) = k
  <2>1. \A i \in 1..k : i \in 1..Len(items)
    BY <1>1, <1>2
  <2> HIDE DEF k
  <2>2. SubSeq(items, 1, k) \in Seq(S)
    BY <1>1, <1>2, <2>1, SubSeqProperties
  <2>3. Len(SubSeq(items, 1, k)) = k
    BY <1>1, <1>2, <2>1, SubSeqProperties
  <2> QED BY <2>2, <2>3
<1>4. First(items, n) = SubSeq(items, 1, k)
  BY DEF First
<1>5. Cut(items, n) = Len(items) - k
  BY <1>3, <1>4 DEF Cut
<1> HIDE DEF k
<1> QED BY <1>1, <1>2, <1>3, <1>4, <1>5

-----------------------------------------------------------------------------
(* What the lookup of the origins observes is accounted for from the start.*)
LEMMA OriginsObserved ==
  ASSUME AnswersConstants, AsnConstants, ReceiveOrigins
  PROVE  OriginsAccountedFor' /\ reply'.status = 200
<1>1. PICK texts \in Replies["cymru"] :
        LET read == [i \in 1..Len(First(texts, MaxOrigins)) |-> ParseOrigin(texts[i])]
            asns == UNION {read[i].asns : i \in DOMAIN read}
        IN /\ reply' = DnsAnswer(texts)
           /\ origins' = read
           /\ todo' = FirstNumbers(asns, MaxDescriptions)
           /\ notes' = {<<"origins", 0>> : n \in 1..Cut(texts, MaxOrigins)}
                         \cup {<<"descriptions", 0>> : a \in asns \ todo'}
  BY DEF ReceiveOrigins
<1> DEFINE n == Len(First(texts, MaxOrigins))
           read == [i \in 1..n |-> ParseOrigin(texts[i])]
           asns == UNION {read[i].asns : i \in DOMAIN read}
<1>2. /\ reply' = DnsAnswer(texts)
      /\ origins' = read
      /\ notes' = {<<"origins", 0>> : k \in 1..Cut(texts, MaxOrigins)}
                    \cup {<<"descriptions", 0>> : a \in asns \ todo'}
  BY <1>1
<1>3. reply'.status = 200 /\ reply'.body = texts
  BY <1>2, NegativeIsNoRecords
<1>4. texts \in Seq(Distinct(texts)) /\ MaxOrigins \in Nat
  BY DEF AnswersConstants, AsnConstants
<1>5. /\ n \in Nat
      /\ n < Len(texts) => 1 \in 1..Cut(texts, MaxOrigins)
  BY <1>4, FirstItems
<1>6. Len(read) = n
  <2> HIDE DEF n
  <2>1. read \in Seq({read[i] : i \in 1..n})
    BY <1>5
  <2>2. DOMAIN read = 1..n
    OBVIOUS
  <2> QED BY <1>5, <2>1, <2>2, LenProperties
<1>7. Len(origins') < Len(reply'.body) => <<"origins", 0>> \in notes'
  BY <1>2, <1>3, <1>5, <1>6
<1>8. ASSUME NEW i \in DOMAIN origins', NEW asn \in origins'[i].asns
      PROVE  asn \in todo' \/ <<"descriptions", 0>> \in notes'
  BY <1>2
<1>9. OriginsAreRead'
  <2>1. DOMAIN texts = 1..Len(texts) /\ Len(texts) \in Nat /\ n <= Len(texts)
    BY <1>4, FirstItems, LenProperties
  <2>2. \A i \in 1..n : i \in DOMAIN texts
    BY <1>5, <2>1
  <2> HIDE DEF n
  <2>3. ASSUME NEW i \in DOMAIN origins'
        PROVE  i \in DOMAIN reply'.body /\ origins'[i] = ParseOrigin(reply'.body[i])
    BY <1>2, <1>3, <2>2
  <2> QED BY <2>3 DEF OriginsAreRead
<1> QED BY <1>3, <1>7, <1>8, <1>9 DEF OriginsAccountedFor, AccountedFor

(* No lookup of a name loses a number: it is described, has no             *)
(* description, or is noted.                                               *)
LEMMA LookupsAreAccounted ==
  ASSUME OriginsAccountedFor, Describe \/ DescribeNegative \/ DescribeFails
  PROVE  OriginsAccountedFor'
<1> DEFINE next == NextNumber
<1>1. /\ origins' = origins /\ reply' = reply
      /\ notes \subseteq notes' /\ absent \subseteq absent'
      /\ described \subseteq described'
  BY DEF Describe, DescribeNegative, DescribeFails
<1>2. todo' = todo \ {next}
  BY DEF Describe, DescribeNegative, DescribeFails, Others
<1>3. \/ next \in Described'
      \/ next \in absent'
      \/ <<"description", next>> \in notes'
  <2>1. CASE Describe
    <3>1. PICK text \in Names :
            described' = described \cup {ParseDescription(next, text)}
      BY <2>1 DEF Describe
    <3>2. ParseDescription(next, text).asn = next
      BY DEF ParseDescription
    <3> QED BY <3>1, <3>2 DEF Described
  <2>2. CASE DescribeNegative
    BY <2>2 DEF DescribeNegative
  <2>3. CASE DescribeFails
    BY <2>3 DEF DescribeFails
  <2> QED BY <2>1, <2>2, <2>3
<1> HIDE DEF next
<1>4. Described \subseteq Described'
  BY <1>1 DEF Described
<1>5. ASSUME NEW asn, AccountedFor(asn)
      PROVE  AccountedFor(asn)'
  BY <1>1, <1>2, <1>3, <1>4, <1>5 DEF AccountedFor
<1>6. ASSUME NEW i \in DOMAIN origins', NEW asn \in origins'[i].asns
      PROVE  AccountedFor(asn)'
  BY <1>1, <1>5 DEF OriginsAccountedFor
<1>7. OriginsAreRead'
  BY <1>1 DEF OriginsAccountedFor, OriginsAreRead
<1> QED BY <1>1, <1>6, <1>7 DEF OriginsAccountedFor

-----------------------------------------------------------------------------
LEMMA CymruInit == Init => CymruInvariant
  BY DEF Init, CymruInvariant, Finished

LEMMA CymruStep ==
  ASSUME AnswersConstants, AsnConstants, CymruInvariant, [Next]_vars
  PROVE  CymruInvariant'
<1> USE DEF run, cymru
(* Before the answer, and for the other sources, a run returns an error or *)
(* what is not Team Cymru's.                                               *)
<1>1. CASE \/ Refuse \/ NotConfigured \/ Denied \/ NoAnswer
  <2>1. /\ phase' = "returned"
        /\ result' \in {Error("refused target"), Error("not configured"),
                        Error("budget exhausted"), Error("no answer")}
    BY <1>1 DEF Refuse, NotConfigured, Denied, NoAnswer, Return
  <2>2. result'.error # "none"
    BY <2>1, ErrorsAreErrors
  <2> QED BY <2>1, <2>2 DEF CymruInvariant, Finished
<1>2. CASE Receive \/ Analyze
  <2>1. phase' = "returned" /\ source' = source /\ source # "cymru"
    BY <1>2 DEF Receive, Analyze, Return, Analyzers
  <2> QED BY <2>1 DEF CymruInvariant, Finished
<1>3. CASE Send
  <2>1. phase = "called" /\ phase' = "sent" /\ origins' = origins
    BY <1>3 DEF Send, Asking, Called
  <2> QED BY <2>1 DEF CymruInvariant, Finished
<1>4. CASE OtherRequest \/ Over \/ UNCHANGED vars
  <2>1. UNCHANGED <<source, phase, reply, result, origins, todo, described,
                    absent, notes>>
    <3>1. CASE OtherRequest
      BY <3>1 DEF OtherRequest
    <3>2. CASE Over \/ UNCHANGED vars
      BY <3>2 DEF Over, vars
    <3> QED BY <1>4, <3>1, <3>2
  <2>2. OriginsAccountedFor' <=> OriginsAccountedFor
    BY <2>1 DEF OriginsAccountedFor, OriginsAreRead, AccountedFor, Described
  <2>3. AsnFindings(origins, described)' = AsnFindings(origins, described)
    BY <2>1
  <2>4. NegativeAnswer' = NegativeAnswer
    BY DEF NegativeAnswer, Response
  <2>5. CymruReturned' <=> CymruReturned
    BY <2>1, <2>2, <2>3, <2>4 DEF CymruReturned
  <2>6. Finished("cymru")' <=> Finished("cymru")
    BY <2>1 DEF Finished
  <2> QED BY <2>1, <2>2, <2>5, <2>6 DEF CymruInvariant
<1>5. CASE ReceiveNegative
  <2>1. /\ phase = "sent" /\ phase' = "returned"
        /\ reply' = NegativeAnswer /\ origins' = origins
        /\ result'.findings = {AsnFinding("not_announced", {}, {}, 85)}
    BY <1>5 DEF ReceiveNegative, Return
  <2>2. origins' = <<>>
    BY <2>1 DEF CymruInvariant
  <2>3. NegativeAnswer' = NegativeAnswer
    BY DEF NegativeAnswer, Response
  <2> QED BY <2>1, <2>2, <2>3 DEF CymruInvariant, CymruReturned
<1>6. CASE ReceiveOrigins
  <2>1. phase' = "describing" /\ source' = source /\ source = "cymru"
    BY <1>6 DEF ReceiveOrigins
  <2>2. OriginsAccountedFor' /\ reply'.status = 200
    BY <1>6, OriginsObserved
  <2> QED BY <2>1, <2>2 DEF CymruInvariant, Finished
<1>7. CASE Describe \/ DescribeNegative \/ DescribeFails
  <2>1. /\ phase = "describing" /\ phase' = phase
        /\ source' = source /\ reply' = reply
    BY <1>7 DEF Describe, DescribeNegative, DescribeFails, ToDescribe
  <2>2. OriginsAccountedFor
    BY <2>1 DEF CymruInvariant
  <2>3. OriginsAccountedFor'
    BY <1>7, <2>2, LookupsAreAccounted
  <2> QED BY <2>1, <2>3 DEF CymruInvariant, Finished
<1>8. CASE ReturnOrigins
  <2>1. /\ phase = "describing" /\ phase' = "returned" /\ todo = {}
        /\ UNCHANGED <<source, reply, origins, todo, described, absent, notes>>
        /\ result' = [error |-> "none", findings |-> AsnFindings(origins, described)]
    BY <1>8 DEF ReturnOrigins, Return
  <2>2. reply.status = 200 /\ OriginsAccountedFor
    BY <2>1 DEF CymruInvariant
  <2>3. OriginsAccountedFor'
    BY <2>1, <2>2 DEF OriginsAccountedFor, OriginsAreRead, AccountedFor, Described
  <2>4. reply # NegativeAnswer
    BY <2>2, NegativeIsNoRecords
  <2>5. result'.findings = AsnFindings(origins, described)
    BY <2>1
  <2>6. AsnFindings(origins, described)' = AsnFindings(origins, described)
    BY <2>1
  <2>7. NegativeAnswer' = NegativeAnswer
    BY DEF NegativeAnswer, Response
  <2> QED BY <2>1, <2>3, <2>4, <2>5, <2>6, <2>7 DEF CymruInvariant, CymruReturned
<1> QED BY <1>1, <1>2, <1>3, <1>4, <1>5, <1>6, <1>7, <1>8 DEF Next

-----------------------------------------------------------------------------
(* An origin with an AS number is reported, with the numbers of it that    *)
(* were described.                                                         *)
LEMMA OriginIsReported ==
  ASSUME NEW observed, NEW descriptions, NEW i \in DOMAIN observed,
         NEW asn \in observed[i].asns
  PROVE  \E f \in AsnFindings(observed, descriptions) :
           /\ f.code = "origin" /\ i \in f.origins
           /\ f.described = observed[i].asns \cap {d.asn : d \in descriptions}
<1> DEFINE f == OriginFinding(i, observed[i], descriptions)
<1>1. f \in FindingsOfOrigin(i, observed[i], descriptions)
  BY DEF FindingsOfOrigin
<1>2. f \in AsnFindings(observed, descriptions)
  BY <1>1 DEF AsnFindings
<1>3. f.code = "origin" /\ f.origins = {i}
  BY DEF OriginFinding, AsnFinding
<1>4. f.described = {d.asn : d \in Describing(observed[i], descriptions)}
  BY DEF OriginFinding, AsnFinding
<1>5. {d.asn : d \in Describing(observed[i], descriptions)}
        = observed[i].asns \cap {d.asn : d \in descriptions}
  BY DEF Describing
<1> HIDE DEF f
<1> QED BY <1>2, <1>3, <1>4, <1>5

LEMMA CymruImplies == CymruInvariant => OriginsAreExplained
<1> SUFFICES ASSUME CymruInvariant, Finished("cymru"), reply # NegativeAnswer
             PROVE  /\ Len(origins) < Len(reply.body) => <<"origins", 0>> \in notes
                    /\ \A i \in DOMAIN origins : \A asn \in origins[i].asns :
                         /\ \/ asn \in absent \cup {d.asn : d \in described}
                            \/ <<"description", asn>> \in notes
                            \/ <<"descriptions", 0>> \in notes
                         /\ \E f \in result.findings :
                              /\ f.code = "origin" /\ i \in f.origins
                              /\ f.described
                                   = origins[i].asns \cap {d.asn : d \in described}
  BY DEF CymruInvariant, CymruReturned, OriginsAreExplained
<1>1. /\ OriginsAccountedFor /\ todo = {}
      /\ result.findings = AsnFindings(origins, described)
  BY DEF CymruInvariant, CymruReturned
<1>2. Len(origins) < Len(reply.body) => <<"origins", 0>> \in notes
  BY <1>1 DEF OriginsAccountedFor
<1>3. ASSUME NEW i \in DOMAIN origins, NEW asn \in origins[i].asns
      PROVE  /\ \/ asn \in absent \cup {d.asn : d \in described}
                \/ <<"description", asn>> \in notes
                \/ <<"descriptions", 0>> \in notes
             /\ \E f \in result.findings :
                  /\ f.code = "origin" /\ i \in f.origins
                  /\ f.described = origins[i].asns \cap {d.asn : d \in described}
  <2>1. AccountedFor(asn)
    BY <1>1 DEF OriginsAccountedFor
  <2>2. \E f \in AsnFindings(origins, described) :
          /\ f.code = "origin" /\ i \in f.origins
          /\ f.described = origins[i].asns \cap {d.asn : d \in described}
    BY OriginIsReported
  <2> QED BY <1>1, <2>1, <2>2 DEF AccountedFor, Described
<1> QED BY <1>2, <1>3

(* What is found of an origin, and of those that are malformed.            *)
LEMMA AsnFindingsAre ==
  ASSUME NEW observed, NEW descriptions, NEW f \in AsnFindings(observed, descriptions)
  PROVE  /\ f.code \in {"origin", "multiple_origins", "prefix_mismatch", "malformed"}
         /\ f.code = "multiple_origins" =>
              \E i \in DOMAIN observed :
                f.origins = {i} /\ Cardinality(observed[i].asns) > 1
         /\ f.code = "prefix_mismatch" =>
              \E i \in DOMAIN observed :
                f.origins = {i} /\ observed[i].prefix = "elsewhere"
<1> DEFINE own(i, code) == AsnFinding(code, {i}, {}, ConfidenceFor(observed[i].issues))
<1>1. \A code, places, numbers, confidence :
        LET g == AsnFinding(code, places, numbers, confidence) IN
        g.code = code /\ g.origins = places
  BY DEF AsnFinding
<1>2. \/ \E i \in DOMAIN observed : f \in FindingsOfOrigin(i, observed[i], descriptions)
      \/ f \in MalformedFinding(observed, descriptions)
  BY DEF AsnFindings
<1>3. CASE f \in MalformedFinding(observed, descriptions)
  <2>1. f.code = "malformed"
    BY <1>1, <1>3 DEF MalformedFinding
  <2> QED BY <2>1
<1>4. ASSUME NEW i \in DOMAIN observed,
             f \in FindingsOfOrigin(i, observed[i], descriptions)
      PROVE  \/ f.code = "origin"
             \/ f = own(i, "multiple_origins") /\ Cardinality(observed[i].asns) > 1
             \/ f = own(i, "prefix_mismatch") /\ observed[i].prefix = "elsewhere"
  <2>1. OriginFinding(i, observed[i], descriptions).code = "origin"
    BY <1>1 DEF OriginFinding
  <2> QED BY <1>4, <2>1 DEF FindingsOfOrigin
<1>5. \A i, code : own(i, code).code = code /\ own(i, code).origins = {i}
  BY <1>1
<1> HIDE DEF own
<1> QED BY <1>2, <1>3, <1>4, <1>5

LEMMA TwoAreMany ==
  ASSUME NEW S, Cardinality(S) > 1
  PROVE  \E one, other \in S : one # other
<1> SUFFICES ASSUME \A one, other \in S : one = other PROVE FALSE
  OBVIOUS
<1>1. CASE S = {}
  BY <1>1, FS_EmptySet
<1>2. CASE S # {}
  <2>1. PICK one \in S : S = {one}
    BY <1>2
  <2>2. Cardinality(S) = 1
    BY <2>1, FS_Singleton
  <2> QED BY <2>2
<1> QED BY <1>1, <1>2

LEMMA OriginSaid ==
  ASSUME NEW text
  PROVE  /\ ParseOrigin(text).asns \subseteq Distinct(text.asns) \ {0}
         /\ ParseOrigin(text).prefix = "elsewhere" => text.prefix = "elsewhere"
<1> DEFINE examined == {i \in DOMAIN text.asns : i <= MaxASNs}
           numbers == {text.asns[i] : i \in examined}
<1>1. ParseOrigin(text).asns = numbers \ {0}
  BY DEF ParseOrigin
<1>2. ParseOrigin(text).prefix = IF text.prefix = "bad" THEN "" ELSE text.prefix
  BY DEF ParseOrigin
<1>3. numbers \subseteq Distinct(text.asns)
  BY DEF Distinct
<1> HIDE DEF numbers
<1> QED BY <1>1, <1>2, <1>3

LEMMA AnnouncementHolds == CymruInvariant => AnnouncementIsSaid
<1> SUFFICES ASSUME CymruInvariant, Finished("cymru"), NEW f \in result.findings
             PROVE  /\ f.code = "not_announced" <=> reply = NegativeAnswer
                    /\ f.code = "multiple_origins" =>
                         \E i \in f.origins : \E one, other \in Distinct(reply.body[i].asns) :
                           one # other /\ one # 0 /\ other # 0
                    /\ f.code = "prefix_mismatch" =>
                         \E i \in f.origins : reply.body[i].prefix = "elsewhere"
  BY DEF AnnouncementIsSaid
<1>1. CymruReturned
  BY DEF CymruInvariant
<1>2. CASE reply = NegativeAnswer
  <2>1. f.code = "not_announced"
    BY <1>1, <1>2 DEF CymruReturned, AsnFinding
  <2> QED BY <1>2, <2>1
<1>3. CASE reply # NegativeAnswer
  <2>1. OriginsAreRead /\ f \in AsnFindings(origins, described)
    BY <1>1, <1>3 DEF CymruReturned, OriginsAccountedFor
  <2>2. f.code \in {"origin", "multiple_origins", "prefix_mismatch", "malformed"}
    BY <2>1, AsnFindingsAre
  <2>3. ASSUME NEW i \in DOMAIN origins, f.origins = {i}, Cardinality(origins[i].asns) > 1
        PROVE  \E one, other \in Distinct(reply.body[i].asns) :
                 one # other /\ one # 0 /\ other # 0
    <3>1. origins[i].asns \subseteq Distinct(reply.body[i].asns) \ {0}
      <4>1. origins[i] = ParseOrigin(reply.body[i])
        BY <2>1 DEF OriginsAreRead
      <4> QED BY <4>1, OriginSaid
    <3>2. PICK one, other \in origins[i].asns : one # other
      BY <2>3, TwoAreMany
    <3> QED BY <3>1, <3>2
  <2>4. ASSUME NEW i \in DOMAIN origins, origins[i].prefix = "elsewhere"
        PROVE  reply.body[i].prefix = "elsewhere"
    <3>1. origins[i] = ParseOrigin(reply.body[i])
      BY <2>1 DEF OriginsAreRead
    <3> QED BY <2>4, <3>1, OriginSaid
  <2>5. f.code = "multiple_origins" =>
          \E i \in DOMAIN origins : f.origins = {i} /\ Cardinality(origins[i].asns) > 1
    BY <2>1, AsnFindingsAre
  <2>6. f.code = "prefix_mismatch" =>
          \E i \in DOMAIN origins : f.origins = {i} /\ origins[i].prefix = "elsewhere"
    BY <2>1, AsnFindingsAre
  <2> QED BY <1>3, <2>2, <2>3, <2>4, <2>5, <2>6
<1> QED BY <1>2, <1>3

(* Whatever becomes of the lookups of their names, for want of budget or   *)
(* for a failure, the origins of an address are reported, and an AS number *)
(* without a name was looked up in vain or is noted.                       *)
THEOREM OriginsHold == Spec => []OriginsAreExplained
<1>1. CymruInvariant /\ [Next]_vars => CymruInvariant'
  BY CymruStep, AnswersConstants, AsnConstants
<1> QED BY CymruInit, <1>1, CymruImplies, PTL DEF Spec
-----------------------------------------------------------------------------
(* The analyzers of policies.                                              *)

(* What an analyzer returns is made from the records that it was handed.   *)
AnalyzerInvariant ==
  source \in Analyzers =>
    /\ phase \in {"called", "returned"}
    /\ phase = "returned" =>
         /\ result.findings = Policy(reply.body)
         /\ reply.body \in Replies[source]

LEMMA AnalyzerInit == Init => AnalyzerInvariant
  BY DEF Init, AnalyzerInvariant

LEMMA AnalyzerStep == AnalyzerInvariant /\ [Next]_vars => AnalyzerInvariant'
<1> SUFFICES ASSUME AnalyzerInvariant, [Next]_vars PROVE AnalyzerInvariant'
  OBVIOUS
<1> USE DEF run, cymru
<1>1. source' = source
  BY DEF Next, vars, Refuse, NotConfigured, Denied, NoAnswer, Send, OtherRequest,
         Receive, Analyze, ReceiveNegative, ReceiveOrigins, Describe,
         DescribeNegative, DescribeFails, ReturnOrigins, Over, Return
<1> SUFFICES ASSUME source \in Analyzers PROVE AnalyzerInvariant'
  BY <1>1 DEF AnalyzerInvariant
<1>2. phase \in {"called", "returned"}
  BY DEF AnalyzerInvariant
<1>3. CASE Analyze
  <2>1. PICK records \in Replies[source] :
          Return(DnsAnswer(records),
                 [error |-> "none", findings |-> Policy(records)])
    BY <1>3 DEF Analyze
  <2>2. /\ phase' = "returned" /\ reply'.body = records
        /\ result'.findings = Policy(records)
    BY <2>1, NegativeIsNoRecords DEF Return
  <2>3. Policy(records)' = Policy(records)
    BY <1>1 DEF Policy
  <2>4. Policy(reply.body)' = Policy(records)
    BY <1>1, <2>2 DEF Policy
  <2> QED BY <1>1, <2>1, <2>2, <2>4 DEF AnalyzerInvariant
<1>4. CASE ~Analyze
  <2>1. ~(\/ Refuse \/ NotConfigured \/ Denied \/ Send \/ NoAnswer \/ Receive
          \/ ReceiveNegative \/ ReceiveOrigins
          \/ Describe \/ DescribeNegative \/ DescribeFails \/ ReturnOrigins)
    BY <1>2 DEF Refuse, NotConfigured, Denied, Asking, Send, NoAnswer, Receive,
                ReceiveNegative, ReceiveOrigins, Describe, DescribeNegative,
                DescribeFails, ToDescribe, ReturnOrigins, Called
  <2>2. UNCHANGED <<phase, reply, result>>
    BY <1>4, <2>1 DEF Next, OtherRequest, Over, vars
  <2>3. Policy(reply.body)' = Policy(reply.body)
    BY <1>1, <2>2 DEF Policy
  <2> QED BY <1>1, <2>2, <2>3 DEF AnalyzerInvariant
<1> QED BY <1>3, <1>4

-----------------------------------------------------------------------------
(* SPF: what a receiver that reads from left to right comes to is what the *)
(* first "all" says.                                                       *)

Verdicts == {"unmatched", "hardfail", "softfail", "neutral_all", "permissive_all"}

LEMMA QualifierIsVerdict ==
  \A term : Qualifier(term) \in Verdicts /\ Qualifier(term) # "unmatched"
BY DEF Qualifier, Verdicts

Reads(verdict, term) ==
  IF verdict = "unmatched" /\ MatchesAll(term) THEN Qualifier(term) ELSE verdict

LEMMA SpfSteps ==
  ASSUME NEW n \in Nat, NEW record, Len(record) = n
  PROVE  \E g \in [0..n -> Verdicts] :
           /\ g[0] = "unmatched"
           /\ \A i \in 1..n : g[i] = Reads(g[i - 1], record[i])
           /\ LET redirects == {i \in DOMAIN record : record[i].name = "redirect"} IN
              SpfResult(record) = CASE g[n] # "unmatched" -> g[n]
                                    [] g[n] = "unmatched" /\ redirects # {} -> "redirect"
                                    [] OTHER -> "no_all"
<1> DEFINE step == [i \in 1..n |-> [v \in Verdicts |-> Reads(v, record[i])]]
           IsRead(f) ==
             f = [i \in 0..n |->
                    CASE i = 0 -> "unmatched"
                      [] i # 0 /\ f[i - 1] = "unmatched" /\ MatchesAll(record[i]) ->
                           Qualifier(record[i])
                      [] OTHER -> f[i - 1]]
           read == CHOOSE f : IsRead(f)
<1>1. step \in [1..n -> [Verdicts -> Verdicts]]
  BY QualifierIsVerdict DEF Reads
<1>2. "unmatched" \in Verdicts
  BY DEF Verdicts
<1>3. PICK h \in [0..n -> Verdicts] : Recursive(h, n, "unmatched", step)
  <2> HIDE DEF step
  <2> QED BY <1>1, <1>2, RecursionOnNumbers
<1>4. /\ h[0] = "unmatched"
      /\ \A i \in 1..n : h[i] = Reads(h[i - 1], record[i])
  <2>1. ASSUME NEW i \in 1..n PROVE h[i] = Reads(h[i - 1], record[i])
    <3>1. h[i - 1] \in Verdicts
      OBVIOUS
    <3> QED BY <1>3, <3>1 DEF Recursive
  <2> QED BY <1>3, <2>1 DEF Recursive
<1>5. IsRead(h)
  <2>1. ASSUME NEW i \in 0..n
        PROVE  h[i] = CASE i = 0 -> "unmatched"
                      [] i # 0 /\ h[i - 1] = "unmatched" /\ MatchesAll(record[i]) ->
                           Qualifier(record[i])
                      [] OTHER -> h[i - 1]
    <3>1. CASE i = 0
      BY <1>4, <3>1
    <3>2. CASE i # 0
      <4>1. i \in 1..n
        BY <3>2
      <4> QED BY <1>4, <3>2, <4>1 DEF Reads
    <3> QED BY <3>1, <3>2
  <2> QED BY <2>1
<1>6. IsRead(read)
  <2> HIDE DEF IsRead
  <2> QED BY <1>5
<1>7. SpfResult(record)
        = LET redirects == {i \in DOMAIN record : record[i].name = "redirect"} IN
          CASE read[n] # "unmatched" -> read[n]
            [] read[n] = "unmatched" /\ redirects # {} -> "redirect"
            [] OTHER -> "no_all"
  BY DEF SpfResult
<1> HIDE DEF read
<1>8. read[0] = "unmatched"
  BY <1>6
<1>9. ASSUME NEW i \in 1..n PROVE read[i] = Reads(read[i - 1], record[i])
  <2>1. i \in 0..n /\ i # 0
    OBVIOUS
  <2> QED BY <1>6, <2>1 DEF Reads
<1>10. read \in [0..n -> Verdicts]
  <2> DEFINE T == {i \in 0..n : read[i] \in Verdicts}
  <2>1. 0 \in T
    BY <1>2, <1>8
  <2>2. ASSUME NEW i \in 1..n, i - 1 \in T PROVE i \in T
    BY <1>9, <2>2, QualifierIsVerdict DEF Reads
  <2> HIDE DEF T
  <2>3. \A i \in 0..n : i \in T
    BY <2>1, <2>2, UpTo
  <2>4. \A i \in 0..n : read[i] \in Verdicts
    BY <2>3 DEF T
  <2> QED BY <1>6, <2>4
<1> QED BY <1>7, <1>8, <1>9, <1>10

LEMMA SpfVerdict ==
  ASSUME NEW n \in Nat, NEW record, DOMAIN record = 1..n, Len(record) = n
  PROVE  LET alls == {i \in 1..n : MatchesAll(record[i])}
             redirects == {i \in 1..n : record[i].name = "redirect"}
         IN /\ alls # {} =>
                 \E i \in alls : /\ \A j \in alls : i <= j
                                 /\ SpfResult(record) = Qualifier(record[i])
            /\ alls = {} /\ redirects # {} => SpfResult(record) = "redirect"
            /\ alls = {} /\ redirects = {} => SpfResult(record) = "no_all"
<1> DEFINE matches(i) == MatchesAll(record[i])
           redirects == {i \in 1..n : record[i].name = "redirect"}
<1>1. PICK g \in [0..n -> Verdicts] :
        /\ g[0] = "unmatched"
        /\ \A i \in 1..n : g[i] = Reads(g[i - 1], record[i])
        /\ SpfResult(record) = CASE g[n] # "unmatched" -> g[n]
                                 [] g[n] = "unmatched" /\ redirects # {} -> "redirect"
                                 [] OTHER -> "no_all"
  BY SpfSteps
<1> HIDE DEF redirects
<1> DEFINE FirstOne(i, j) ==
             /\ j \in 1..i /\ matches(j)
             /\ \A k \in 1..(j - 1) : ~matches(k)
           IsVerdict(i) ==
             IF g[i] = "unmatched" THEN \A k \in 1..i : ~matches(k)
             ELSE \E j \in 1..i : FirstOne(i, j) /\ g[i] = Qualifier(record[j])
           T == {i \in 0..n : IsVerdict(i)}
<1>2. 0 \in T
  BY <1>1
<1>3. ASSUME NEW i \in 1..n, i - 1 \in T
      PROVE  i \in T
  <2>1. /\ i \in 0..n /\ i - 1 \in 0..n /\ i \in 1..i
        /\ \A k \in 1..i : k = i \/ k \in 1..(i - 1)
        /\ \A k \in 1..(i - 1) : k \in 1..i
    OBVIOUS
  <2>2. IsVerdict(i - 1)
    BY <1>3
  <2>3. g[i] = Reads(g[i - 1], record[i])
    BY <1>1
  <2>4. CASE g[i - 1] # "unmatched"
    <3>1. PICK j \in 1..(i - 1) : FirstOne(i - 1, j) /\ g[i - 1] = Qualifier(record[j])
      BY <2>2, <2>4
    <3>2. g[i] = g[i - 1]
      BY <2>3, <2>4 DEF Reads
    <3>3. FirstOne(i, j) /\ g[i] = Qualifier(record[j])
      BY <2>1, <3>1, <3>2
    <3> HIDE DEF FirstOne
    <3> QED BY <2>1, <2>4, <3>2, <3>3
  <2>5. CASE g[i - 1] = "unmatched" /\ matches(i)
    <3>1. g[i] = Qualifier(record[i])
      BY <2>3, <2>5 DEF Reads
    <3>2. g[i] # "unmatched"
      BY <3>1, QualifierIsVerdict
    <3>3. FirstOne(i, i)
      BY <2>1, <2>2, <2>5
    <3> HIDE DEF FirstOne
    <3> QED BY <2>1, <3>1, <3>2, <3>3
  <2>6. CASE g[i - 1] = "unmatched" /\ ~matches(i)
    <3>1. g[i] = "unmatched"
      BY <2>3, <2>6 DEF Reads
    <3>2. \A k \in 1..i : ~matches(k)
      BY <2>1, <2>2, <2>6
    <3> HIDE DEF FirstOne, matches
    <3> QED BY <2>1, <3>1, <3>2
  <2> QED BY <2>4, <2>5, <2>6
<1>4. IsVerdict(n)
  <2>1. \A i \in 1..n : i - 1 \in T => i \in T
    BY <1>3
  <2> HIDE DEF T
  <2>2. \A i \in 0..n : i \in T
    BY <1>2, <2>1, UpTo
  <2>3. n \in T
    BY <2>2
  <2> QED BY <2>3 DEF T
<1> DEFINE alls == {i \in 1..n : matches(i)}
<1>5. CASE alls # {}
  <2>1. g[n] # "unmatched"
    BY <1>4, <1>5
  <2>2. PICK i \in 1..n : FirstOne(n, i) /\ g[n] = Qualifier(record[i])
    BY <1>4, <2>1
  <2>3. i \in alls /\ \A j \in alls : i <= j
    BY <2>2
  <2>4. SpfResult(record) = Qualifier(record[i])
    BY <1>1, <2>1, <2>2
  <2> QED BY <1>5, <2>3, <2>4
<1>6. CASE alls = {}
  <2>1. g[n] = "unmatched"
    BY <1>4, <1>6
  <2>2. redirects # {} => SpfResult(record) = "redirect"
    BY <1>1, <2>1
  <2>3. redirects = {} => SpfResult(record) = "no_all"
    BY <1>1, <2>1
  <2> QED BY <1>6, <2>2, <2>3 DEF redirects
<1> QED BY <1>5, <1>6

LEMMA SpfHolds ==
  ASSUME NEW n \in Nat, NEW record, DOMAIN record = 1..n, Len(record) = n,
         "malformed" \notin SpfFindings(record)
  PROVE  SpfPolicy(record) = {SpfResult(record)}
<1> DEFINE alls == {i \in 1..n : MatchesAll(record[i])}
           redirects == {i \in 1..n : record[i].name = "redirect"}
<1>1. /\ \A i \in Examined(record) : IsValidTerm(record[i])
      /\ DOMAIN record = Examined(record)
  BY DEF SpfFindings, If
<1>2. \A name : TermsOf(record, name) = {i \in 1..n : record[i].name = name}
  BY <1>1 DEF TermsOf, Examined
<1>3. AllTerms(record) = alls
  BY <1>2 DEF AllTerms, MatchesAll
<1>4. Redirects(record) = redirects
  <2>1. ASSUME NEW i \in redirects PROVE Modifier(record[i])
    <3>1. ~Mechanism(record[i])
      BY DEF Mechanism
    <3> QED BY <1>1, <3>1 DEF IsValidTerm
  <2> QED BY <1>2, <2>1 DEF Redirects
<1>5. /\ alls # {} =>
           \E i \in alls : /\ \A j \in alls : i <= j
                           /\ SpfResult(record) = Qualifier(record[i])
      /\ alls = {} /\ redirects # {} => SpfResult(record) = "redirect"
      /\ alls = {} /\ redirects = {} => SpfResult(record) = "no_all"
  BY SpfVerdict
<1> HIDE DEF redirects
<1>6. CASE alls # {}
  <2>1. PICK i \in alls : /\ \A j \in alls : i <= j
                          /\ SpfResult(record) = Qualifier(record[i])
    BY <1>5, <1>6
  <2>2. Earliest(alls) = {i}
    BY <2>1 DEF Earliest
  <2>3. SpfPolicy(record) = FirstAll(record)
    BY <1>3, <1>6 DEF SpfPolicy
  <2> HIDE DEF alls
  <2> QED BY <1>3, <2>1, <2>2, <2>3 DEF FirstAll
<1> HIDE DEF alls
<1>7. CASE alls = {} /\ redirects # {}
  BY <1>3, <1>4, <1>5, <1>7 DEF SpfPolicy
<1>8. CASE alls = {} /\ redirects = {}
  BY <1>3, <1>4, <1>5, <1>8 DEF SpfPolicy
<1> QED BY <1>6, <1>7, <1>8

-----------------------------------------------------------------------------
(* DMARC and CAA                                                           *)

LEMMA DmarcHolds ==
  ASSUME NEW n \in Nat, NEW record, DOMAIN record = 1..n,
         <<"malformed", "">> \notin DmarcFindings(record)
  PROVE  /\ \A i, j \in 1..n : record[i].name = record[j].name => i = j
         /\ \A i \in 1..n :
              /\ record[i].name = "p" =>
                   <<"policy", record[i].value>> \in DmarcFindings(record)
              /\ record[i].name = "sp" =>
                   <<"subdomain_policy", record[i].value>> \in DmarcFindings(record)
         /\ \E i \in 1..n : record[i].name = "p"
<1> DEFINE examined == {i \in DOMAIN record : i <= MaxTags}
           checked == {"p", "sp", "pct", "adkim", "aspf"}
           invalid == {name \in checked : ValuesOf(record, name) \ ValidValues(name) # {}}
<1>1. DmarcIssues(record) = {}
  BY DEF DmarcFindings, If
<1>2. /\ ~\E i \in examined : record[i].name = ""
      /\ ~\E i \in examined \ Effective(record) : record[i].name # ""
      /\ invalid = {}
      /\ ~(DOMAIN record # examined)
      /\ ~(ValuesOf(record, "p") = {})
  BY <1>1 DEF DmarcIssues, If
<1>3. \A i \in 1..n : i \in Effective(record)
  <2>1. ASSUME NEW i \in 1..n PROVE i \in Effective(record)
    <3>1. i \in examined
      <4> HIDE DEF examined
      <4> QED BY <1>2
    <3> HIDE DEF examined
    <3> QED BY <1>2, <3>1
  <2> QED BY <2>1
<1>4. ASSUME NEW i \in 1..n, NEW j \in 1..n, record[i].name = record[j].name, i < j
      PROVE  FALSE
  <2>1. i \in 1..(j - 1)
    BY ONLY <1>4, n \in Nat, i \in 1..n, j \in 1..n
  <2> QED BY <1>3, <1>4, <2>1 DEF Effective
<1>5. ASSUME NEW i \in 1..n, NEW j \in 1..n, record[i].name = record[j].name
      PROVE  i = j
  <2>1. i < j \/ j < i \/ i = j
    BY ONLY n \in Nat, i \in 1..n, j \in 1..n
  <2> QED BY <1>4, <1>5, <2>1
<1>6. ASSUME NEW name \in {"p", "sp"}, NEW i \in 1..n, record[i].name = name
      PROVE  record[i].value \in Accepted(record, name)
  <2>1. record[i].value \in ValuesOf(record, name)
    BY <1>3, <1>6 DEF ValuesOf
  <2>2. name \in checked
    OBVIOUS
  <2>3. ValuesOf(record, name) \ ValidValues(name) = {}
    BY <1>2, <2>2
  <2> QED BY <2>1, <2>3 DEF Accepted
<1>7. /\ \A policy \in Accepted(record, "p") :
           <<"policy", policy>> \in DmarcFindings(record)
      /\ \A policy \in Accepted(record, "sp") :
           <<"subdomain_policy", policy>> \in DmarcFindings(record)
  BY DEF DmarcFindings
<1>8. \E i \in 1..n : record[i].name = "p"
  BY <1>2 DEF ValuesOf, Effective
<1> QED BY <1>5, <1>6, <1>7, <1>8

(* The findings about who may issue are told apart by their names.         *)
LEMMA CaaFindingsAre ==
  ASSUME NEW records
  PROVE  LET found == CaaFindings(records)
             forbids(tag) == \E i \in Tagged(records, tag) : records[i].value = ""
             issuing == Tagged(records, "issue") \cup Tagged(records, "issuewild")
         IN /\ \A tag \in {"issue", "issuewild"} :
                 /\ <<tag, "restricted">> \in found => Issuers(records, tag) # {}
                 /\ <<tag, "forbidden">> \in found
                      <=> Issuers(records, tag) = {} /\ forbids(tag)
            /\ <<"no_issue_restriction", "">> \in found => issuing = {}
            /\ (\E i \in issuing : records[i].value = "bad") =>
                 <<"malformed", "">> \in found
<1> DEFINE forbids(tag) == \E i \in Tagged(records, tag) : records[i].value = ""
           issuing == Tagged(records, "issue") \cup Tagged(records, "issuewild")
           other == {<<"no_issue_restriction", "">>, <<"iodef", "">>,
                     <<"unknown_critical_tag", "">>, <<"malformed", "">>,
                     <<"duplicate_records", "">>}
<1>1. ASSUME NEW tag \in {"issue", "issuewild"}
      PROVE  Issuance(records, tag) =
               CASE Issuers(records, tag) # {} -> {<<tag, "restricted">>}
                 [] Issuers(records, tag) = {} /\ forbids(tag) -> {<<tag, "forbidden">>}
                 [] OTHER -> {}
  BY DEF Issuance
<1>2. \A finding \in CaaFindings(records) :
        finding \in Issuance(records, "issue") \cup Issuance(records, "issuewild") \cup other
  BY DEF CaaFindings, If
<1>3. /\ Issuance(records, "issue") \subseteq CaaFindings(records)
      /\ Issuance(records, "issuewild") \subseteq CaaFindings(records)
  BY DEF CaaFindings
<1>4. (\E i \in issuing : records[i].value = "bad") =>
        <<"malformed", "">> \in CaaFindings(records)
  BY DEF CaaFindings, If
<1>5. <<"no_issue_restriction", "">> \in CaaFindings(records) => issuing = {}
  <2>1. \A tag \in {"issue", "issuewild"} :
          <<"no_issue_restriction", "">> \notin Issuance(records, tag)
    BY <1>1
  <2> QED BY <2>1 DEF CaaFindings, If
<1> HIDE DEF forbids, issuing
<1>6. ASSUME NEW tag \in {"issue", "issuewild"}
      PROVE  /\ <<tag, "restricted">> \in CaaFindings(records) =>
                  Issuers(records, tag) # {}
             /\ <<tag, "forbidden">> \in CaaFindings(records)
                  <=> Issuers(records, tag) = {} /\ forbids(tag)
  <2>1. <<tag, "restricted">> \notin other /\ <<tag, "forbidden">> \notin other
    OBVIOUS
  <2> HIDE DEF other
  <2>2. \A kind \in {"restricted", "forbidden"} :
          <<tag, kind>> \in CaaFindings(records) => <<tag, kind>> \in Issuance(records, tag)
    <3>1. ASSUME NEW kind \in {"restricted", "forbidden"},
                 NEW t \in {"issue", "issuewild"}, t # tag
          PROVE  <<tag, kind>> \notin Issuance(records, t)
      BY <1>1, <3>1
    <3> QED BY <1>2, <2>1, <3>1
  <2>3. Issuance(records, tag) \subseteq CaaFindings(records)
    BY <1>3
  <2>4. /\ <<tag, "restricted">> \in Issuance(records, tag) => Issuers(records, tag) # {}
        /\ <<tag, "forbidden">> \in Issuance(records, tag)
             <=> Issuers(records, tag) = {} /\ forbids(tag)
    BY <1>1
  <2> QED BY <2>2, <2>3, <2>4
<1> QED BY <1>4, <1>5, <1>6 DEF forbids, issuing

LEMMA CaaHolds ==
  ASSUME NEW records, \A i \in DOMAIN records : records[i].value # "stranger"
  PROVE  LET named == {records[i].value : i \in DOMAIN records} \cup {"stranger"}
             authorities == named \ {"", "bad"}
             issuing(wildcard) == {a \in authorities : MayIssue(a, records, wildcard)}
             found == CaaFindings(records)
         IN /\ <<"issue", "forbidden">> \in found => issuing(FALSE) = {}
            /\ <<"issuewild", "forbidden">> \in found => issuing(TRUE) = {}
            /\ <<"issue", "restricted">> \in found =>
                 issuing(FALSE) \notin {{}, authorities}
            /\ <<"no_issue_restriction", "">> \in found =>
                 issuing(FALSE) = authorities /\ issuing(TRUE) = authorities
            /\ issuing(FALSE) = {} =>
                 found \cap {<<"issue", "forbidden">>, <<"malformed", "">>} # {}
<1> DEFINE named == {records[i].value : i \in DOMAIN records} \cup {"stranger"}
           authorities == named \ {"", "bad"}
           issuing(wildcard) == {a \in authorities : MayIssue(a, records, wildcard)}
           found == CaaFindings(records)
           forbids(tag) == \E i \in Tagged(records, tag) : records[i].value = ""
           names(a, tag) == \E i \in Tagged(records, tag) : records[i].value = a
<1>1. /\ \A tag \in {"issue", "issuewild"} :
           /\ <<tag, "restricted">> \in found => Issuers(records, tag) # {}
           /\ <<tag, "forbidden">> \in found
                <=> Issuers(records, tag) = {} /\ forbids(tag)
      /\ <<"no_issue_restriction", "">> \in found =>
           Tagged(records, "issue") = {} /\ Tagged(records, "issuewild") = {}
      /\ (\E i \in Tagged(records, "issue") : records[i].value = "bad") =>
           <<"malformed", "">> \in found
  BY CaaFindingsAre
<1>2. /\ \A tag : \A a \in Issuers(records, tag) : a \in authorities /\ names(a, tag)
      /\ \A tag : \A a \in authorities : names(a, tag) => a \in Issuers(records, tag)
      /\ \A tag : ~names("stranger", tag)
      /\ \A tag : forbids(tag) => Tagged(records, tag) # {}
      /\ \A tag : Issuers(records, tag) # {} => Tagged(records, tag) # {}
      /\ "stranger" \in authorities
  BY DEF Issuers, Tagged
<1>3. \A a : MayIssue(a, records, FALSE)
               <=> Tagged(records, "issue") = {} \/ names(a, "issue")
  BY DEF MayIssue
<1>4. /\ Tagged(records, "issuewild") # {} =>
           \A a : MayIssue(a, records, TRUE) <=> names(a, "issuewild")
      /\ Tagged(records, "issuewild") = {} =>
           \A a : MayIssue(a, records, TRUE)
                    <=> Tagged(records, "issue") = {} \/ names(a, "issue")
  BY DEF MayIssue
<1>5. ASSUME issuing(FALSE) = {}
      PROVE  found \cap {<<"issue", "forbidden">>, <<"malformed", "">>} # {}
  <2>1. Tagged(records, "issue") # {} /\ Issuers(records, "issue") = {}
    BY <1>2, <1>3, <1>5
  <2>2. \A i \in Tagged(records, "issue") : records[i].value \in {"", "bad"}
    BY <2>1 DEF Issuers
  <2>3. forbids("issue") \/ \E i \in Tagged(records, "issue") : records[i].value = "bad"
    BY <2>1, <2>2
  <2> HIDE DEF found
  <2> QED BY <1>1, <2>1, <2>3
<1> HIDE DEF named, authorities, found, forbids, names
<1>6. <<"issue", "forbidden">> \in found => issuing(FALSE) = {}
  BY <1>1, <1>2, <1>3
<1>7. <<"issuewild", "forbidden">> \in found => issuing(TRUE) = {}
  BY <1>1, <1>2, <1>4
<1>8. <<"issue", "restricted">> \in found => issuing(FALSE) \notin {{}, authorities}
  <2> SUFFICES ASSUME <<"issue", "restricted">> \in found
      PROVE  issuing(FALSE) \notin {{}, authorities}
    OBVIOUS
  <2>1. Issuers(records, "issue") # {} /\ Tagged(records, "issue") # {}
    BY <1>1, <1>2
  <2>2. PICK a : a \in Issuers(records, "issue")
    BY <2>1
  <2>3. a \in issuing(FALSE)
    BY <1>2, <1>3, <2>2
  <2>4. "stranger" \in authorities /\ "stranger" \notin issuing(FALSE)
    BY <1>2, <1>3, <2>1
  <2> QED BY <2>3, <2>4
<1>9. <<"no_issue_restriction", "">> \in found =>
        issuing(FALSE) = authorities /\ issuing(TRUE) = authorities
  BY <1>1, <1>3, <1>4
<1> QED BY <1>5, <1>6, <1>7, <1>8, <1>9 DEF named, authorities, found

-----------------------------------------------------------------------------
LEMMA AnalyzerImplies ==
  ASSUME AnswersConstants, AnalyzerInvariant
  PROVE  PolicyIsWhatReceiversApply
<1>1. ASSUME NEW s \in Analyzers, Finished(s)
      PROVE  /\ result.findings = Policy(reply.body)
             /\ Len(reply.body) \in Nat
             /\ DOMAIN reply.body = 1..Len(reply.body)
             /\ source = s /\ reply.body \in Replies[s]
  <2>1. /\ source = s /\ result.findings = Policy(reply.body)
        /\ reply.body \in Replies[s]
    BY <1>1 DEF AnalyzerInvariant, Finished
  <2>2. reply.body \in Seq(Distinct(reply.body))
    BY <2>1 DEF AnswersConstants
  <2> QED BY <2>1, <2>2, LenProperties
<1>2. {"spf", "dmarc", "caa"} = Analyzers
  BY DEF Analyzers
<1>3. SpfIsEvaluated
  <2> SUFFICES ASSUME Finished("spf"), "malformed" \notin result.findings
      PROVE  SpfPolicy(reply.body) = {SpfResult(reply.body)}
    BY DEF SpfIsEvaluated
  <2>1. result.findings = SpfFindings(reply.body)
    BY <1>1, <1>2 DEF Policy
  <2> QED BY <1>1, <1>2, <2>1, SpfHolds
<1>4. DmarcIsUnambiguous
  <2> SUFFICES ASSUME Finished("dmarc"), <<"malformed", "">> \notin result.findings
      PROVE  DmarcIsUnambiguous
    BY DEF DmarcIsUnambiguous
  <2>1. result.findings = DmarcFindings(reply.body)
    BY <1>1, <1>2 DEF Policy
  <2>2. Len(reply.body) \in Nat /\ DOMAIN reply.body = 1..Len(reply.body)
    BY <1>1, <1>2
  <2> DEFINE record == reply.body
             n == Len(record)
  <2>3. <<"malformed", "">> \notin DmarcFindings(record)
    BY <2>1
  <2> HIDE DEF n, record
  <2>4. /\ \A i, j \in 1..n : record[i].name = record[j].name => i = j
        /\ \A i \in 1..n :
             /\ record[i].name = "p" =>
                  <<"policy", record[i].value>> \in DmarcFindings(record)
             /\ record[i].name = "sp" =>
                  <<"subdomain_policy", record[i].value>> \in DmarcFindings(record)
        /\ \E i \in 1..n : record[i].name = "p"
    BY <2>2, <2>3, DmarcHolds DEF n, record
  <2>5. DOMAIN record = 1..n /\ result.findings = DmarcFindings(record)
    BY <2>1, <2>2 DEF n, record
  <2>6. /\ \A i, j \in DOMAIN record : record[i].name = record[j].name => i = j
        /\ \A i \in DOMAIN record :
             /\ record[i].name = "p" => <<"policy", record[i].value>> \in result.findings
             /\ record[i].name = "sp" =>
                  <<"subdomain_policy", record[i].value>> \in result.findings
        /\ \E i \in DOMAIN record : record[i].name = "p"
    BY ONLY <2>4, <2>5
  <2> QED BY <2>6 DEF DmarcIsUnambiguous, record
<1>5. CaaIsEnforced
  <2> SUFFICES ASSUME Finished("caa") PROVE CaaIsEnforced
    BY DEF CaaIsEnforced
  <2>1. result.findings = CaaFindings(reply.body)
    BY <1>1, <1>2 DEF Policy
  <2>2. \A i \in DOMAIN reply.body : reply.body[i].value # "stranger"
    <3>1. reply.body \in Replies["caa"]
      BY <1>1, <1>2
    <3> QED BY <3>1 DEF AnswersConstants, Distinct
  <2> QED BY <2>1, <2>2, CaaHolds DEF CaaIsEnforced
<1> QED BY <1>3, <1>4, <1>5 DEF PolicyIsWhatReceiversApply

(* Whatever the records are: what an SPF policy without "malformed" is     *)
(* said to do is what a receiver that reads it from left to right comes    *)
(* to; a DMARC policy without it has each tag once and its policies are    *)
(* those found; and who may issue by the CAA records is what is found.     *)
THEOREM PoliciesHold == Spec => []PolicyIsWhatReceiversApply
<1>1. AnalyzerInvariant => PolicyIsWhatReceiversApply
  BY AnalyzerImplies, AnswersConstants
<1> QED BY AnalyzerInit, AnalyzerStep, <1>1, PTL DEF Spec

-----------------------------------------------------------------------------
(* The collectors that make one request and read the answer.               *)

(* What they return without an error is what they make of an answer.       *)
ReaderInvariant ==
  source \notin Analyzers \cup {"cymru"} =>
    /\ phase \in {"called", "sent", "returned"}
    /\ phase = "returned" /\ result.error = "none" =>
         reply \in Replies[source] /\ result = Outcome(reply)

LEMMA ReaderInit == Init => ReaderInvariant
  BY DEF Init, ReaderInvariant

LEMMA ReaderStep == ReaderInvariant /\ [Next]_vars => ReaderInvariant'
<1> SUFFICES ASSUME ReaderInvariant, [Next]_vars PROVE ReaderInvariant'
  OBVIOUS
<1> USE DEF run, cymru
<1>1. source' = source /\ indicator' = indicator
  BY DEF Next, vars, Refuse, NotConfigured, Denied, NoAnswer, Send, OtherRequest,
         Receive, Analyze, ReceiveNegative, ReceiveOrigins, Describe,
         DescribeNegative, DescribeFails, ReturnOrigins, Over, Return
<1> SUFFICES ASSUME source \notin Analyzers \cup {"cymru"} PROVE ReaderInvariant'
  BY <1>1 DEF ReaderInvariant
<1>2. phase \in {"called", "sent", "returned"}
  BY DEF ReaderInvariant
<1>3. ASSUME NEW answer PROVE Outcome(answer)' = Outcome(answer')
  BY <1>1 DEF Outcome
<1>4. CASE Refuse \/ NotConfigured \/ Denied \/ NoAnswer
  <2>1. /\ phase' = "returned"
        /\ result' \in {Error("refused target"), Error("not configured"),
                        Error("budget exhausted"), Error("no answer")}
    BY <1>4 DEF Refuse, NotConfigured, Denied, NoAnswer, Return
  <2>2. result'.error # "none"
    BY <2>1, ErrorsAreErrors
  <2> QED BY <2>1, <2>2 DEF ReaderInvariant
<1>5. CASE Receive
  <2>1. phase' = "returned" /\ reply' \in Replies[source] /\ result' = Outcome(reply')
    BY <1>5 DEF Receive, Return
  <2> QED BY <1>1, <2>1 DEF ReaderInvariant, Outcome
<1>6. CASE Send
  BY <1>6 DEF Send, ReaderInvariant
<1>7. CASE OtherRequest \/ Over \/ UNCHANGED vars
  <2>1. UNCHANGED <<phase, reply, result>>
    BY <1>7 DEF OtherRequest, Over, vars
  <2> QED BY <1>1, <2>1 DEF ReaderInvariant, Outcome
<1>8. ~(\/ Analyze \/ ReceiveNegative \/ ReceiveOrigins
        \/ Describe \/ DescribeNegative \/ DescribeFails \/ ReturnOrigins)
  BY <1>2 DEF Analyze, ReceiveNegative, ReceiveOrigins, Describe,
              DescribeNegative, DescribeFails, ToDescribe, ReturnOrigins
<1> QED BY <1>4, <1>5, <1>6, <1>7, <1>8 DEF Next

-----------------------------------------------------------------------------
(* What is read of a value is kept, or noted as an issue.                  *)
IsNoted(value, reading) ==
  ~SaysNothing(value) /\ reading.kept = {} => reading.issues # {}

LEMMA ReadingsAre ==
  \A kept, issues : Read(kept, issues).kept = kept /\ Read(kept, issues).issues = issues
BY DEF Read

LEMMA KeepAndDrop ==
  /\ \A value, kept : IsNoted(value, Keep(kept))
  /\ \A value, key, why : IsNoted(value, Drop(key, why))
  /\ \A value : SaysNothing(value) => IsNoted(value, Skip)
BY DEF IsNoted, Keep, Drop, Skip, Read

LEMMA AbsentSaysNothing ==
  \A value : Absent(value) => SaysNothing(value)
BY DEF SaysNothing

LEMMA MissingIsNoted ==
  \A value, key, required : Absent(value) => IsNoted(value, Missing(key, required))
BY KeepAndDrop, AbsentSaysNothing DEF Missing

LEMMA CountIsNoted ==
  \A value, key, required, max, digits :
    IsNoted(value, Count(value, key, required, max, digits))
BY KeepAndDrop, MissingIsNoted DEF Count

LEMMA SecondsIsNoted == \A value, key : IsNoted(value, Seconds(value, key))
BY KeepAndDrop, AbsentSaysNothing DEF Seconds

LEMMA TimestampIsNoted ==
  \A value, key, documented : IsNoted(value, Timestamp(value, key, documented))
BY KeepAndDrop, AbsentSaysNothing DEF Timestamp

LEMMA BooleanIsNoted == \A value, key : IsNoted(value, Boolean(value, key))
BY KeepAndDrop, AbsentSaysNothing DEF Boolean

LEMMA TokenIsNoted ==
  \A value, key, required : IsNoted(value, Token(value, key, required))
BY KeepAndDrop, MissingIsNoted DEF Token

LEMMA WordsIsNoted == \A value, key : IsNoted(value, Words(value, key))
<1> SUFFICES ASSUME NEW value, NEW key PROVE IsNoted(value, Words(value, key))
  OBVIOUS
<1>1. CASE Absent(value) \/ value = Text("blank")
  <2>1. SaysNothing(value)
    BY <1>1, AbsentSaysNothing DEF SaysNothing
  <2>2. Words(value, key) = Skip
    BY <1>1 DEF Words
  <2> QED BY <2>1, <2>2, KeepAndDrop
<1>2. CASE ~(Absent(value) \/ value = Text("blank"))
  <2>1. CASE Is(value, "text")
    <3> DEFINE issues == IF value = Text("long") THEN {<<key, "truncated">>} ELSE {}
    <3>1. Words(value, key) = Read({value[2]}, issues)
      BY <1>2, <2>1 DEF Words
    <3> QED BY <3>1, ReadingsAre DEF IsNoted
  <2>2. CASE ~Is(value, "text")
    <3>1. Words(value, key) = Drop(key, "unexpected type")
      BY <1>2, <2>2 DEF Words
    <3> QED BY <3>1, KeepAndDrop
  <2> QED BY <2>1, <2>2
<1> QED BY <1>1, <1>2

LEMMA CountryCodeIsNoted == \A value, key : IsNoted(value, CountryCode(value, key))
<1> SUFFICES ASSUME NEW value, NEW key PROVE IsNoted(value, CountryCode(value, key))
  OBVIOUS
<1> DEFINE text == Words(value, key)
<1>1. CASE text.kept \subseteq {"cc"}
  BY <1>1, WordsIsNoted DEF CountryCode
<1>2. CASE ~(text.kept \subseteq {"cc"})
  BY <1>2, ReadingsAre DEF CountryCode, IsNoted
<1> QED BY <1>1, <1>2

LEMMA TextsIsNoted ==
  \A value, key, max, blankIsIssue :
    IsNoted(value, Texts(value, key, max, blankIsIssue))
<1> SUFFICES ASSUME NEW value, NEW key, NEW max, NEW blankIsIssue
             PROVE  IsNoted(value, Texts(value, key, max, blankIsIssue))
  OBVIOUS
<1>1. CASE Absent(value)
  BY <1>1, KeepAndDrop, AbsentSaysNothing DEF Texts
<1>2. CASE ~Absent(value) /\ ~Is(value, "list")
  BY <1>2, KeepAndDrop DEF Texts
<1>3. CASE ~Absent(value) /\ Is(value, "list")
  <2> DEFINE examined == {i \in DOMAIN value[2] : i <= max}
             items == {value[2][i] : i \in examined}
             texts == {item \in items : Is(item, "text")}
             blank == {item \in texts : item[2] = "blank"}
             kept == {item[2] : item \in texts \ blank}
             cut == {<<key, "too many entries">> : i \in DOMAIN value[2] \ examined}
             odd == {<<key, "unexpected type">> :
                       item \in (items \ texts)
                                  \cup (IF blankIsIssue THEN blank ELSE {})}
             issues == cut
                         \cup {<<key, "truncated">> : item \in {Text("long")} \cap texts}
                         \cup odd
  <2>1. Texts(value, key, max, blankIsIssue) = Read(kept, issues)
    BY <1>3 DEF Texts
  <2>2. SUFFICES ASSUME ~SaysNothing(value), kept = {} PROVE issues # {}
    <3> HIDE DEF kept, issues
    <3> QED BY <2>1, <2>2, ReadingsAre DEF IsNoted
  <2>3. PICK i \in DOMAIN value[2] : ~IsBlank(value[2][i])
    BY <1>3, <2>2 DEF SaysNothing
  <2>4. CASE i \notin examined
    <3>1. <<key, "too many entries">> \in cut
      BY <2>4
    <3> QED BY <3>1
  <2>5. CASE i \in examined
    <3>1. value[2][i] \in items
      BY <2>5
    <3> HIDE DEF items
    <3>2. value[2][i] \notin texts \ blank
      BY <2>2
    <3>3. value[2][i] \notin blank
      BY <2>3 DEF IsBlank
    <3>4. value[2][i] \in items \ texts
      BY <3>1, <3>2, <3>3
    <3> HIDE DEF texts, blank, cut
    <3>5. <<key, "unexpected type">> \in odd
      BY <3>4
    <3> QED BY <3>5
  <2> QED BY <2>4, <2>5
<1> QED BY <1>1, <1>2, <1>3

LEMMA RedactedIsNoted ==
  ASSUME NEW report, NEW fields, NEW field \in DOMAIN report, NEW value,
         IsNoted(value, report[field])
  PROVE  /\ field \in DOMAIN Redacted(report, fields)
         /\ IsNoted(value, Redacted(report, fields)[field])
<1>1. DOMAIN Redacted(report, fields) = DOMAIN report
  BY DEF Redacted
<1> DEFINE new == Read((report[field].kept \ {"key"}) \cup {"REDACTED"},
                       report[field].issues \cup {EchoIssue})
<1>2. Redacted(report, fields)[field] \in {report[field], new}
  BY DEF Redacted
<1>3. IsNoted(value, new)
  BY ReadingsAre DEF IsNoted
<1> HIDE DEF new
<1> QED BY <1>1, <1>2, <1>3

-----------------------------------------------------------------------------
(* What is said in each field of an answer is kept or noted in the report. *)
AllIsNoted(said, report) ==
  \A field \in DOMAIN said \cap DOMAIN report : IsNoted(said[field], report[field])

LEMMA RedactedKeepsNotes ==
  ASSUME NEW said, NEW report, NEW fields, AllIsNoted(said, report)
  PROVE  AllIsNoted(said, Redacted(report, fields))
<1>1. DOMAIN Redacted(report, fields) = DOMAIN report
  BY DEF Redacted
<1> SUFFICES ASSUME NEW field \in DOMAIN said \cap DOMAIN report
             PROVE  IsNoted(said[field], Redacted(report, fields)[field])
  BY <1>1 DEF AllIsNoted
<1>2. IsNoted(said[field], report[field])
  BY DEF AllIsNoted
<1> QED BY <1>2, RedactedIsNoted

(* A field of an object that is not there says nothing.                    *)
LEMMA InnerIsNoted ==
  ASSUME NEW object, NEW key, NEW reading, NEW other,
         IsNoted(Of(Inner(object), key), reading)
  PROVE  IsNoted(Of(Inner(object), key), IF Is(object, "object") THEN reading ELSE other)
<1>1. CASE Is(object, "object")
  BY <1>1
<1>2. CASE ~Is(object, "object")
  <2>1. key \notin DOMAIN <<>>
    OBVIOUS
  <2>2. Of(Inner(object), key) = None
    BY <1>2, <2>1 DEF Inner, Of
  <2>3. SaysNothing(Of(Inner(object), key))
    BY <2>2, AbsentSaysNothing DEF Absent
  <2> QED BY <2>3 DEF IsNoted
<1> QED BY <1>1, <1>2

-----------------------------------------------------------------------------
LEMMA VTReportNotes ==
  ASSUME NEW body, NEW isFile
  PROVE  AllIsNoted(SaidByVirusTotal(body), VTReport(Data(body), isFile))
<1> DEFINE attributes == Inner(Of(Data(body), "attributes"))
           stats == Of(attributes, "last_analysis_stats")
           votes == Of(attributes, "total_votes")
           counts == Stats(stats, isFile)
           voted == VoteCounts(votes)
           others ==
             [attributes |-> Read({}, InnerIssues(Of(Data(body), "attributes"), "attributes")),
              reputation |-> Score(Of(attributes, "reputation")),
              last_analysis_date |-> Seconds(Of(attributes, "last_analysis_date"),
                                             "last_analysis_date"),
              tags |-> VTTags(Of(attributes, "tags"))]
           said == SaidByVirusTotal(body)
           report == VTReport(Data(body), isFile)
           direct == {"reputation", "last_analysis_date", "tags"}
<1>1. report = [field \in DOMAIN others \cup DOMAIN counts \cup Votes |->
                  CASE field \in DOMAIN others -> others[field]
                    [] field \in Votes -> voted[field]
                    [] OTHER -> counts[field]]
  BY DEF VTReport
<1>2. said = [key \in Required \cup FileStats \cup Votes \cup direct |->
                CASE key \in Required \cup FileStats -> Of(Inner(stats), key)
                  [] key \in Votes -> Of(Inner(votes), key)
                  [] OTHER -> Of(attributes, key)]
  BY DEF SaidByVirusTotal
<1>3. /\ DOMAIN others = direct \cup {"attributes"}
      /\ DOMAIN counts \subseteq Required \cup FileStats
  BY DEF Stats
<1>4. /\ (Required \cup FileStats) \cap (Votes \cup direct \cup {"attributes"}) = {}
      /\ Votes \cap (direct \cup {"attributes"}) = {}
      /\ "attributes" \notin direct
  <2>1. (Required \cup FileStats) \cap (Votes \cup direct \cup {"attributes"}) = {}
    BY ONLY DEF Required, FileStats, Votes
  <2>2. Votes \cap (direct \cup {"attributes"}) = {}
    BY ONLY DEF Votes
  <2> QED BY <2>1, <2>2
<1>5. ASSUME NEW key \in direct PROVE IsNoted(Of(attributes, key), others[key])
  <2>1. IsNoted(Of(attributes, "reputation"), Score(Of(attributes, "reputation")))
    BY KeepAndDrop DEF Score
  <2>2. IsNoted(Of(attributes, "last_analysis_date"), others["last_analysis_date"])
    BY SecondsIsNoted
  <2>3. IsNoted(Of(attributes, "tags"), others["tags"])
    BY TextsIsNoted DEF VTTags
  <2> QED BY <2>1, <2>2, <2>3
<1>6. ASSUME NEW key \in Votes PROVE IsNoted(Of(Inner(votes), key), voted[key])
  <2> DEFINE counted == VTCount(votes[2], key, TRUE, MaxVotes)
  <2>1. voted[key] = IF Is(votes, "object") THEN counted
                     ELSE Read({}, InnerIssues(votes, "total_votes"))
    BY DEF VoteCounts
  <2>2. CASE Is(votes, "object")
    <3>1. Inner(votes) = votes[2] /\ voted[key] = counted
      BY <2>1, <2>2 DEF Inner
    <3> QED BY <3>1, CountIsNoted DEF VTCount
  <2>3. CASE ~Is(votes, "object")
    <3>1. IsNoted(Of(Inner(votes), key), Keep(0))
      BY KeepAndDrop
    <3> HIDE DEF votes, voted
    <3>3. IsNoted(Of(Inner(votes), key),
                  IF Is(votes, "object") THEN Keep(0)
                  ELSE Read({}, InnerIssues(votes, "total_votes")))
      BY <3>1, InnerIsNoted
    <3> QED BY <2>1, <2>3, <3>3
  <2> QED BY <2>2, <2>3
<1>7. ASSUME NEW key \in DOMAIN counts PROVE IsNoted(Of(Inner(stats), key), counts[key])
  <2> DEFINE counted == VTCount(stats[2], key, key \in Required, MaxEngines)
  <2>1. counts[key] = IF Is(stats, "object") THEN counted
                      ELSE Read({}, InnerIssues(stats, "last_analysis_stats"))
    BY DEF Stats
  <2>2. CASE Is(stats, "object")
    <3>1. Inner(stats) = stats[2] /\ counts[key] = counted
      BY <2>1, <2>2 DEF Inner
    <3> QED BY <3>1, CountIsNoted DEF VTCount
  <2>3. CASE ~Is(stats, "object")
    <3>1. IsNoted(Of(Inner(stats), key), Keep(0))
      BY KeepAndDrop
    <3> HIDE DEF stats, counts
    <3>3. IsNoted(Of(Inner(stats), key),
                  IF Is(stats, "object") THEN Keep(0)
                  ELSE Read({}, InnerIssues(stats, "last_analysis_stats")))
      BY <3>1, InnerIsNoted
    <3> QED BY <2>1, <2>3, <3>3
  <2> QED BY <2>2, <2>3
<1> HIDE DEF others, counts, voted, stats, votes, attributes, direct
<1> SUFFICES ASSUME NEW field \in DOMAIN said \cap DOMAIN report
             PROVE  IsNoted(said[field], report[field])
  BY DEF AllIsNoted
<1>8. CASE field \in direct
  BY <1>1, <1>2, <1>3, <1>4, <1>5, <1>8
<1>9. CASE field \in Votes
  <2>1. said[field] = Of(Inner(votes), field)
    BY <1>2, <1>4, <1>9
  <2>2. report[field] = voted[field]
    BY <1>1, <1>3, <1>4, <1>9
  <2> QED BY <1>6, <1>9, <2>1, <2>2
<1>10. CASE field \notin direct \cup Votes
  <2>1. field \in Required \cup FileStats
    BY <1>2, <1>10
  <2>2. said[field] = Of(Inner(stats), field)
    BY <1>2, <1>4, <2>1
  <2>3. field \in DOMAIN counts /\ report[field] = counts[field]
    BY <1>1, <1>3, <1>4, <2>1
  <2> QED BY <1>7, <2>2, <2>3
<1> QED BY <1>8, <1>9, <1>10

LEMMA IPReportNotes ==
  ASSUME NEW data, NEW keys
  PROVE  AllIsNoted(SaidIn(data, keys), IPReport(data))
<1> DEFINE report == IPReport(data)
<1>1. DOMAIN SaidIn(data, keys) = keys /\ \A k \in keys : SaidIn(data, keys)[k] = Of(data, k)
  BY DEF SaidIn
<1>2. DOMAIN report = {"ipAddress", "abuseConfidenceScore", "totalReports",
                       "numDistinctUsers", "lastReportedAt", "isWhitelisted", "isTor",
                       "usageType", "isp", "domain", "countryCode", "hostnames"}
  BY DEF IPReport
<1>3. IsNoted(Of(data, "ipAddress"), report.ipAddress)
  <2>1. report.ipAddress = Address(Of(data, "ipAddress"))
    BY DEF IPReport
  <2>2. \A value : IsNoted(value, Address(value))
    BY KeepAndDrop DEF Address, SaysNothing
  <2> QED BY <2>1, <2>2
<1>4. \A key, max : IsNoted(Of(data, key), ReportCount(data, key, max))
  BY CountIsNoted DEF ReportCount
<1>5. /\ report.abuseConfidenceScore = ReportCount(data, "abuseConfidenceScore", 100)
      /\ report.totalReports = ReportCount(data, "totalReports", MaxReports)
      /\ report.numDistinctUsers = DistinctUsers(data)
  BY DEF IPReport
<1>6. IsNoted(Of(data, "numDistinctUsers"), report.numDistinctUsers)
  <2> DEFINE users == ReportCount(data, "numDistinctUsers", MaxReports)
             exceeds == Read(users.kept, {<<"numDistinctUsers", "exceeds totalReports">>})
  <2>1. DistinctUsers(data) = users \/ DistinctUsers(data) = exceeds
    BY DEF DistinctUsers
  <2>2. IsNoted(Of(data, "numDistinctUsers"), exceeds)
    <3>1. exceeds.issues = {<<"numDistinctUsers", "exceeds totalReports">>}
      BY ReadingsAre
    <3> HIDE DEF exceeds
    <3> QED BY <3>1 DEF IsNoted
  <2>3. IsNoted(Of(data, "numDistinctUsers"), users)
    BY <1>4
  <2> HIDE DEF users, exceeds
  <2> QED BY <1>5, <2>1, <2>2, <2>3
<1>7. IsNoted(Of(data, "lastReportedAt"), report.lastReportedAt)
  BY TimestampIsNoted DEF IPReport, LastReported
<1>8. /\ IsNoted(Of(data, "isWhitelisted"), report.isWhitelisted)
      /\ IsNoted(Of(data, "isTor"), report.isTor)
  BY BooleanIsNoted DEF IPReport, IPFlag
<1>9. /\ IsNoted(Of(data, "usageType"), report.usageType)
      /\ IsNoted(Of(data, "isp"), report.isp)
      /\ IsNoted(Of(data, "domain"), report.domain)
  BY WordsIsNoted DEF IPReport, IPText
<1>10. IsNoted(Of(data, "countryCode"), report.countryCode)
  BY CountryCodeIsNoted DEF IPReport
<1>11. IsNoted(Of(data, "hostnames"), report.hostnames)
  BY TextsIsNoted DEF IPReport, Hostnames
<1>12. /\ IsNoted(Of(data, "abuseConfidenceScore"), report.abuseConfidenceScore)
       /\ IsNoted(Of(data, "totalReports"), report.totalReports)
  BY <1>4, <1>5
<1> HIDE DEF report
<1> SUFFICES ASSUME NEW field \in DOMAIN report
             PROVE  IsNoted(Of(data, field), report[field])
  BY <1>1 DEF AllIsNoted, report
<1> QED BY <1>2, <1>3, <1>6, <1>7, <1>8, <1>9, <1>10, <1>11, <1>12

-----------------------------------------------------------------------------
LEMMA SampleReportNotes ==
  ASSUME NEW sample, NEW keys
  PROVE  AllIsNoted(SaidIn(sample, keys), SampleReport(sample))
<1> DEFINE report == SampleReport(sample)
           time(key, required) ==
             IF Absent(Of(sample, key)) THEN Missing(key, required)
             ELSE Timestamp(Of(sample, key), key, TRUE)
<1>1. DOMAIN SaidIn(sample, keys) = keys
      /\ \A k \in keys : SaidIn(sample, keys)[k] = Of(sample, k)
  BY DEF SaidIn
<1>2. DOMAIN report = {"signature", "file_type", "file_type_mime", "delivery_method",
                       "file_size", "first_seen", "last_seen", "tags"}
  BY DEF SampleReport
<1>3. /\ IsNoted(Of(sample, "signature"), report.signature)
      /\ IsNoted(Of(sample, "file_type"), report.file_type)
      /\ IsNoted(Of(sample, "file_type_mime"), report.file_type_mime)
      /\ IsNoted(Of(sample, "delivery_method"), report.delivery_method)
  BY TokenIsNoted DEF SampleReport
<1>4. IsNoted(Of(sample, "file_size"), report.file_size)
  BY CountIsNoted DEF SampleReport, ListedCount
<1>5. \A key, required : IsNoted(Of(sample, key), time(key, required))
  BY TimestampIsNoted, MissingIsNoted
<1>6. report.first_seen = time("first_seen", TRUE) /\ report.last_seen = time("last_seen", FALSE)
  BY DEF SampleReport
<1>7. IsNoted(Of(sample, "tags"), report.tags)
  BY TextsIsNoted DEF SampleReport, Tags
<1> HIDE DEF report, time
<1>8. /\ IsNoted(Of(sample, "first_seen"), report.first_seen)
      /\ IsNoted(Of(sample, "last_seen"), report.last_seen)
  BY <1>5, <1>6
<1> SUFFICES ASSUME NEW field \in DOMAIN report
             PROVE  IsNoted(Of(sample, field), report[field])
  BY <1>1 DEF AllIsNoted, report
<1> QED BY <1>2, <1>3, <1>4, <1>7, <1>8

-----------------------------------------------------------------------------
LEMMA EntryIdIsNoted ==
  \A fields, key : IsNoted(Of(fields, "id"), EntryId(fields, key))
BY KeepAndDrop DEF EntryId

LEMMA BlacklistIsNoted ==
  \A data, name :
    IsNoted(Of(Inner(Of(data, "blacklists")), name), Blacklist(data, name))
<1> SUFFICES ASSUME NEW data, NEW name
             PROVE  IsNoted(Of(Inner(Of(data, "blacklists")), name), Blacklist(data, name))
  OBVIOUS
<1> DEFINE lists == Of(data, "blacklists")
<1>1. CASE Is(lists, "object")
  <2>1. Inner(lists) = lists[2] /\ ~Absent(lists)
    BY <1>1 DEF Inner, Absent, Is, None, Null
  <2>2. Blacklist(data, name) = Token(Of(lists[2], name), name, FALSE)
    BY <1>1, <2>1 DEF Blacklist
  <2> QED BY <2>1, <2>2, TokenIsNoted
<1>2. CASE ~Is(lists, "object")
  <2>1. name \notin DOMAIN <<>>
    OBVIOUS
  <2>2. Of(Inner(lists), name) = None
    BY <1>2, <2>1 DEF Inner, Of
  <2>3. SaysNothing(Of(Inner(lists), name))
    BY <2>2, AbsentSaysNothing DEF Absent
  <2> QED BY <2>3 DEF IsNoted
<1> QED BY <1>1, <1>2

LEMMA PayloadsIsNoted ==
  \A data : IsNoted(Of(data, "payloads"), Payloads(data).returned_payloads)
<1> SUFFICES ASSUME NEW data
             PROVE  IsNoted(Of(data, "payloads"), Payloads(data).returned_payloads)
  OBVIOUS
<1> DEFINE value == Of(data, "payloads")
<1>1. \/ Absent(value) /\ Payloads(data).returned_payloads = Skip
      \/ \E n, issues : Payloads(data).returned_payloads = Read({n}, issues)
      \/ \E key, why : Payloads(data).returned_payloads = Drop(key, why)
  <2>1. Absent(value) => ~Is(value, "list")
    BY DEF Absent, Is, None, Null
  <2> QED BY <2>1 DEF Payloads
<1>2. \A n, issues : IsNoted(value, Read({n}, issues))
  <2> SUFFICES ASSUME NEW n, NEW issues PROVE Read({n}, issues).kept # {}
    BY DEF IsNoted
  <2> QED BY ReadingsAre
<1>3. Absent(value) => IsNoted(value, Skip)
  BY KeepAndDrop, AbsentSaysNothing
<1>4. \A key, why : IsNoted(value, Drop(key, why))
  BY KeepAndDrop
<1> QED BY <1>1, <1>2, <1>3, <1>4

LEMMA EntriesIsNoted ==
  \A value : IsNoted(value, Entries(value).returned_urls)
<1> SUFFICES ASSUME NEW value PROVE IsNoted(value, Entries(value).returned_urls)
  OBVIOUS
<1>1. \/ \E n, issues : Entries(value).returned_urls = Read({n}, issues)
      \/ \E key, why : Entries(value).returned_urls = Drop(key, why)
  <2>1. Absent(value) => ~Is(value, "list")
    BY DEF Absent, Is, None, Null
  <2> QED BY <2>1 DEF Entries
<1>2. \A n, issues : IsNoted(value, Read({n}, issues))
  BY ReadingsAre DEF IsNoted
<1> QED BY <1>1, <1>2, KeepAndDrop

LEMMA URLhausReportNotes ==
  ASSUME NEW body
  PROVE  AllIsNoted(SaidByURLhaus(body),
                    IF indicator.type = "url" THEN URLEntry(Inner(body))
                    ELSE HostEntry(Inner(body)))
<1> DEFINE data == Inner(body)
           isURL == indicator.type = "url"
           report == IF isURL THEN URLEntry(data) ELSE HostEntry(data)
           renamed == [entry_id |-> "id", returned_payloads |-> "payloads",
                       returned_urls |-> "urls"]
           plain == {"url_status", "threat", "larted", "date_added", "last_online",
                     "takedown_time_seconds", "firstseen", "url_count"}
                      \cup (IF isURL THEN {"tags"} ELSE {})
           said == SaidByURLhaus(body)
<1>1. said = [field \in DOMAIN renamed \cup plain \cup Blacklists |->
                CASE field \in DOMAIN renamed -> Of(data, renamed[field])
                  [] field \in Blacklists -> Of(Inner(Of(data, "blacklists")), field)
                  [] OTHER -> Of(data, field)]
  BY DEF SaidByURLhaus
<1>2. DOMAIN renamed = {"entry_id", "returned_payloads", "returned_urls"}
  OBVIOUS
<1>3. /\ DOMAIN renamed \cap plain = {}
      /\ Blacklists \cap (DOMAIN renamed \cup plain) = {}
  BY <1>2 DEF Blacklists
<1>4. /\ said.entry_id = Of(data, "id")
      /\ said.returned_payloads = Of(data, "payloads")
      /\ said.returned_urls = Of(data, "urls")
  BY <1>1, <1>2, <1>3
<1>5. \A name \in Blacklists : said[name] = Of(Inner(Of(data, "blacklists")), name)
  BY <1>1, <1>3
<1>6. \A key \in plain : said[key] = Of(data, key)
  BY <1>1, <1>3
<1> HIDE DEF renamed, said
<1> SUFFICES AllIsNoted(said, report)
  BY DEF said
<1>7. DOMAIN said = DOMAIN renamed \cup plain \cup Blacklists
  BY <1>1
<1>8. CASE isURL
  <2> DEFINE entry == URLEntry(data)
  <2>1. DOMAIN entry \cap DOMAIN said \subseteq
          {"entry_id", "url_status", "threat", "larted", "date_added", "last_online",
           "takedown_time_seconds", "tags", "returned_payloads", "spamhaus_dbl", "surbl"}
    BY <1>2, <1>7 DEF URLEntry, Blacklists
  <2>2. IsNoted(said.entry_id, entry.entry_id)
    BY <1>4, EntryIdIsNoted DEF URLEntry
  <2>3. /\ IsNoted(said.url_status, entry.url_status)
        /\ IsNoted(said.threat, entry.threat)
        /\ IsNoted(said.larted, entry.larted)
    BY <1>6, TokenIsNoted DEF URLEntry
  <2>4. /\ IsNoted(said.date_added, entry.date_added)
        /\ IsNoted(said.last_online, entry.last_online)
    BY <1>6, TimestampIsNoted DEF URLEntry
  <2>5. IsNoted(said.takedown_time_seconds, entry.takedown_time_seconds)
    BY <1>6, CountIsNoted DEF URLEntry, ListedCount
  <2>6. IsNoted(said.tags, entry.tags)
    BY <1>6, <1>8, TextsIsNoted DEF URLEntry, Tags
  <2>7. IsNoted(said.returned_payloads, entry.returned_payloads)
    BY <1>4, PayloadsIsNoted DEF URLEntry
  <2>8. /\ IsNoted(said.spamhaus_dbl, entry.spamhaus_dbl)
        /\ IsNoted(said.surbl, entry.surbl)
    BY <1>5, BlacklistIsNoted DEF URLEntry, Blacklists
  <2>9. report = entry
    BY <1>8
  <2> HIDE DEF entry, plain
  <2> SUFFICES ASSUME NEW field \in DOMAIN entry \cap DOMAIN said
               PROVE  IsNoted(said[field], entry[field])
    BY <2>9 DEF AllIsNoted
  <2> QED BY <2>1, <2>2, <2>3, <2>4, <2>5, <2>6, <2>7, <2>8
<1>9. CASE ~isURL
  <2> DEFINE entry == HostEntry(data)
  <2>1. DOMAIN entry \cap DOMAIN said \subseteq
          {"firstseen", "url_count", "returned_urls", "spamhaus_dbl", "surbl"}
    BY <1>2, <1>7, <1>9 DEF HostEntry, Blacklists
  <2>2. IsNoted(said.firstseen, entry.firstseen)
    BY <1>6, TimestampIsNoted DEF HostEntry
  <2>3. IsNoted(said.url_count, entry.url_count)
    BY <1>6, CountIsNoted DEF HostEntry, ListedCount
  <2>4. IsNoted(said.returned_urls, entry.returned_urls)
    BY <1>4, EntriesIsNoted DEF HostEntry
  <2>5. /\ IsNoted(said.spamhaus_dbl, entry.spamhaus_dbl)
        /\ IsNoted(said.surbl, entry.surbl)
    BY <1>5, BlacklistIsNoted DEF HostEntry, Blacklists
  <2>6. report = entry
    BY <1>9
  <2> HIDE DEF entry, plain
  <2> SUFFICES ASSUME NEW field \in DOMAIN entry \cap DOMAIN said
               PROVE  IsNoted(said[field], entry[field])
    BY <2>6 DEF AllIsNoted
  <2> QED BY <2>1, <2>2, <2>3, <2>4, <2>5
<1> QED BY <1>8, <1>9

-----------------------------------------------------------------------------
LEMMA CIDRsIsNoted == \A value : IsNoted(value, CIDRs(value))
<1> SUFFICES ASSUME NEW value PROVE IsNoted(value, CIDRs(value))
  OBVIOUS
<1>1. CASE value = None
  BY <1>1, KeepAndDrop, AbsentSaysNothing DEF CIDRs, Absent, Is, None
<1>2. CASE value # None /\ ~Is(value, "list")
  BY <1>2, KeepAndDrop DEF CIDRs
<1>3. CASE value # None /\ Is(value, "list")
  <2> DEFINE examined == {i \in DOMAIN value[2] : i <= MaxPrefixes}
             entries == {value[2][i] : i \in examined}
             kept == UNION {BlocksOf(entry) : entry \in entries}
             odd == {<<"cidr0_cidrs", "not a valid CIDR">> :
                       entry \in {e \in entries : BlocksOf(e) = {}}}
             cut == {<<"cidr0_cidrs", "too many">> : i \in DOMAIN value[2] \ examined}
             issues == odd \cup cut
  <2>1. CIDRs(value) = Read(kept, issues)
    BY <1>3 DEF CIDRs
  <2>2. SUFFICES ASSUME ~SaysNothing(value), kept = {} PROVE issues # {}
    <3> HIDE DEF kept, issues
    <3> QED BY <2>1, <2>2, ReadingsAre DEF IsNoted
  <2>3. PICK i \in DOMAIN value[2] : ~IsBlank(value[2][i])
    BY <1>3, <2>2 DEF SaysNothing
  <2>4. CASE i \notin examined
    BY <2>4
  <2>5. CASE i \in examined
    <3>1. value[2][i] \in entries
      BY <2>5
    <3> HIDE DEF entries, cut
    <3>2. BlocksOf(value[2][i]) \subseteq kept
      BY <3>1
    <3>3. BlocksOf(value[2][i]) = {}
      BY <2>2, <3>2
    <3> QED BY <3>1, <3>3
  <2> QED BY <2>4, <2>5
<1> QED BY <1>1, <1>2, <1>3

LEMMA NetworkNotes ==
  ASSUME NEW object
  PROVE  AllIsNoted(SaidIn(object, {"handle", "name", "type", "parentHandle", "country",
                                    "ipVersion", "startAddress", "endAddress",
                                    "cidr0_cidrs", "status"}),
                    Network(object))
<1> DEFINE report == Network(object)
           keys == {"handle", "name", "type", "parentHandle", "country", "ipVersion",
                    "startAddress", "endAddress", "cidr0_cidrs", "status"}
<1>1. DOMAIN SaidIn(object, keys) = keys
      /\ \A k \in keys : SaidIn(object, keys)[k] = Of(object, k)
  BY DEF SaidIn
<1>2. /\ IsNoted(Of(object, "handle"), report.handle)
      /\ IsNoted(Of(object, "name"), report.name)
      /\ IsNoted(Of(object, "type"), report.type)
      /\ IsNoted(Of(object, "parentHandle"), report.parentHandle)
  BY WordsIsNoted DEF Network
<1>3. IsNoted(Of(object, "country"), report.country)
  BY CountryCodeIsNoted DEF Network
<1>4. IsNoted(Of(object, "ipVersion"), report.ipVersion)
  <2> DEFINE value == Of(object, "ipVersion")
  <2>1. report.ipVersion = Version(value)
    BY DEF Network
  <2>2. \A v : IsNoted(v, Version(v))
    <3> SUFFICES ASSUME NEW v PROVE IsNoted(v, Version(v))
      OBVIOUS
    <3>1. CASE Absent(v)
      <4>1. v # Text("queried family") /\ v # Text("other family")
        <5>1. v[1] # "text"
          BY <3>1 DEF Absent, None, Null
        <5>2. \A text : Text(text)[1] = "text"
          BY DEF Text
        <5> QED BY <5>1, <5>2
      <4>2. Version(v) = Skip
        BY <3>1, <4>1 DEF Version
      <4> QED BY <3>1, <4>2, KeepAndDrop, AbsentSaysNothing
    <3>2. CASE v = Text("queried family")
      BY <3>2, KeepAndDrop DEF Version, Absent, None, Null, Text
    <3>3. CASE v = Text("other family")
      <4>1. Version(v) = Read({v[2]}, {<<"ipVersion", "not that of the queried address">>})
        BY <3>3 DEF Version, Absent, None, Null, Text
      <4>2. Version(v).kept = {v[2]}
        BY <4>1, ReadingsAre
      <4> QED BY <4>2 DEF IsNoted
    <3>4. CASE ~Absent(v) /\ v \notin {Text("queried family"), Text("other family")}
      BY <3>4, KeepAndDrop DEF Version
    <3> QED BY <3>1, <3>2, <3>3, <3>4
  <2> QED BY <2>1, <2>2
<1>5. /\ IsNoted(Of(object, "startAddress"), report.startAddress)
      /\ IsNoted(Of(object, "endAddress"), report.endAddress)
  <2>1. \A key : IsNoted(Of(object, key), RangeAddress(object, key))
    BY KeepAndDrop, AbsentSaysNothing DEF RangeAddress
  <2> DEFINE unordered == Drop("startAddress", "after endAddress")
  <2>2. /\ report.startAddress \in {RangeAddress(object, "startAddress"), unordered}
        /\ report.endAddress \in {RangeAddress(object, "endAddress"), unordered}
    BY DEF Network, RangeAddresses
  <2> HIDE DEF report
  <2> QED BY <2>1, <2>2, KeepAndDrop
<1>6. IsNoted(Of(object, "cidr0_cidrs"), report.cidr0_cidrs)
  BY CIDRsIsNoted DEF Network
<1>7. IsNoted(Of(object, "status"), report.status)
  BY KeepAndDrop, TextsIsNoted DEF Network, Status
<1> HIDE DEF report
<1> SUFFICES ASSUME NEW field \in keys
             PROVE  IsNoted(Of(object, field), report[field])
  BY <1>1 DEF AllIsNoted, report
<1> QED BY <1>2, <1>3, <1>4, <1>5, <1>6, <1>7

-----------------------------------------------------------------------------
(* The provider was told of, and what was not kept is told as well.        *)
Told(said) ==
  \A field \in DOMAIN said \cap DOMAIN result.report :
    ~SaysNothing(said[field]) /\ Kept(result.report, field) = {} =>
      /\ result.report[field].issues # {}
      /\ result.confidence \in {60, 70}
      /\ "incomplete" \in result.findings

LEMMA CollectedTells ==
  ASSUME NEW said, NEW report, AllIsNoted(said, report),
         result.report = report,
         Issues(report) # {} => /\ result.confidence \in {60, 70}
                                /\ "incomplete" \in result.findings
  PROVE  Told(said)
<1> SUFFICES ASSUME NEW field \in DOMAIN said \cap DOMAIN report,
                    ~SaysNothing(said[field]), Kept(report, field) = {}
             PROVE  report[field].issues # {} /\ Issues(report) # {}
  BY DEF Told
<1>1. report[field].issues # {}
  BY DEF AllIsNoted, IsNoted, Kept
<1>2. report[field].issues \subseteq Issues(report)
  BY DEF Issues
<1> QED BY <1>1, <1>2

LEMMA CollectedIs ==
  ASSUME NEW observed, NEW findings, NEW report,
         result = Collected(observed, findings, report)
  PROVE  /\ result.report = report
         /\ Issues(report) # {} => /\ result.confidence \in {60, 70}
                                   /\ "incomplete" \in result.findings
<1>1. /\ result.report = report
      /\ result.confidence = Confident(report)
      /\ result.findings = findings \cup {"incomplete" : issue \in Issues(report)}
  BY DEF Collected
<1>2. Issues(report) # {} => Confident(report) = 60
  BY DEF Confident
<1>3. Issues(report) # {} => "incomplete" \in {"incomplete" : issue \in Issues(report)}
  OBVIOUS
<1> QED BY <1>1, <1>2, <1>3

LEMMA NoRecordSaysNothing ==
  ASSUME NEW finding, result = Collected("no record", {finding}, <<>>)
  PROVE  result.report = <<>>
BY DEF Collected

LEMMA FailuresAreErrors ==
  ASSUME result.error = "none"
  PROVE  /\ result \notin {Error("unexpected status"), Error("invalid response")}
         /\ \A status : result # StatusError(status)
<1>1. Error("unexpected status").error = "unexpected status"
  BY DEF Error
<1>2. Error("invalid response").error = "invalid response"
  BY DEF Error
<1>3. Error("provider status").error = "provider status"
  BY DEF Error
<1>4. \A status : \/ StatusError(status) = Error("provider status")
                  \/ StatusError(status) = Error("unexpected status")
  BY DEF StatusError
<1> QED BY <1>1, <1>2, <1>3, <1>4

LEMMA VirusTotalTells ==
  ASSUME result = VirusTotal(reply, indicator), result.error = "none", result.report # <<>>
  PROVE  Told(SaidByVirusTotal(reply.body))
<1> DEFINE body == reply.body
           report == Redacted(VTReport(Data(body), indicator.type = "sha256"), {"tags"})
<1>1. \E findings : result = Collected("reputation", findings, report)
  <2>1. result # VTNotFound
    BY NoRecordSaysNothing DEF VTNotFound
  <2>2. \A status : result # StatusError(status) /\ result # Error("invalid response")
    BY FailuresAreErrors
  <2>3. reply.status = 200
    <3> SUFFICES ASSUME reply.status # 200 PROVE FALSE
      OBVIOUS
    <3> QED BY <2>1, <2>2 DEF VirusTotal
  <2>4. result = VTObject(body, indicator)
    BY <2>3 DEF VirusTotal
  <2> QED BY <2>2, <2>4 DEF VTObject, Data
<1>2. AllIsNoted(SaidByVirusTotal(body), report)
  BY VTReportNotes, RedactedKeepsNotes
<1> HIDE DEF report
<1> QED BY <1>1, <1>2, CollectedIs, CollectedTells

LEMMA AbuseIPDBTells ==
  ASSUME result = AbuseIPDB(reply), result.error = "none", NEW keys
  PROVE  Told(SaidIn(Data(reply.body), keys))
<1> DEFINE body == reply.body
           report == Redacted(IPReport(Data(body)),
                              {"usageType", "isp", "domain", "countryCode", "hostnames"})
<1>1. \E findings : result = Collected("ip reputation", findings, report)
  <2>1. result \notin {Error("unexpected status"), Error("invalid response")}
    BY FailuresAreErrors
  <2> QED BY <2>1 DEF AbuseIPDB, Checked, Data
<1>2. AllIsNoted(SaidIn(Data(body), keys), report)
  BY IPReportNotes, RedactedKeepsNotes
<1> HIDE DEF report
<1>3. /\ result.report = report
      /\ Issues(report) # {} => /\ result.confidence \in {60, 70}
                                /\ "incomplete" \in result.findings
  BY <1>1, CollectedIs
<1> QED BY <1>2, <1>3, CollectedTells

LEMMA URLhausTells ==
  ASSUME result = URLhaus(reply, indicator), result.error = "none", result.report # <<>>
  PROVE  Told(SaidByURLhaus(reply.body))
<1> DEFINE body == reply.body
           data == Inner(body)
           report == URLhausReport(data, indicator)
<1>1. \E findings : result = Collected("listing", findings, report)
  <2>1. \A finding : result # NoRecord(finding)
    BY NoRecordSaysNothing DEF NoRecord
  <2>2. \A status : result # StatusError(status) /\ result # Error("invalid response")
    BY FailuresAreErrors
  <2>3. result = Lookup(body, indicator)
    BY <2>2 DEF URLhaus
  <2> QED BY <2>1, <2>2, <2>3 DEF Lookup
<1>2. AllIsNoted(SaidByURLhaus(body), report)
  BY URLhausReportNotes, RedactedKeepsNotes DEF URLhausReport
<1> HIDE DEF report
<1> QED BY <1>1, <1>2, CollectedIs, CollectedTells

LEMMA MalwareBazaarTells ==
  ASSUME result = MalwareBazaar(reply, indicator), result.error = "none",
         result.report # <<>>, NEW keys
  PROVE  Told(SaidIn(Inner(Of(Inner(reply.body), "data")[2][1]), keys))
<1> DEFINE data == Of(Inner(reply.body), "data")
           samples == {s \in Sample(data) : Of(s, IdentityField(indicator)) = Text("same")}
           sample == Inner(data[2][1])
           report == Redacted(SampleReport(sample),
                              {"signature", "file_type", "file_type_mime",
                               "delivery_method", "tags"})
<1>1. samples # {} /\ result = Listed(CHOOSE s \in samples : TRUE)
  <2>1. \A finding : result # NoRecord(finding)
    BY NoRecordSaysNothing DEF NoRecord
  <2>2. \A status : result # StatusError(status) /\ result # Error("invalid response")
    BY FailuresAreErrors
  <2>3. result = GetInfo(reply.body, indicator)
    BY <2>2 DEF MalwareBazaar
  <2> QED BY <2>1, <2>2, <2>3 DEF GetInfo
<1>2. \A s \in samples : s = sample
  BY DEF Sample, Inner
<1> HIDE DEF samples, sample
<1>3. (CHOOSE s \in samples : TRUE) = sample
  BY <1>1, <1>2
<1>4. result = Collected("listing", {"sample_listed"}, report)
  BY <1>1, <1>3 DEF Listed
<1>5. AllIsNoted(SaidIn(sample, keys), report)
  BY SampleReportNotes, RedactedKeepsNotes
<1> HIDE DEF report
<1> QED BY <1>4, <1>5, CollectedIs, CollectedTells DEF sample

LEMMA RegistryTells ==
  ASSUME result = RegistryAnswer(reply), result.error = "none"
  PROVE  Told(SaidIn(Inner(reply.body), {"handle", "name", "type", "parentHandle", "country",
                                         "ipVersion", "startAddress", "endAddress",
                                         "cidr0_cidrs", "status"}))
<1> DEFINE report == Network(Inner(reply.body))
<1>1. result = Registered(Network(reply.body[2])) /\ Is(reply.body, "object")
  <2>1. result \notin {Error("unexpected status"), Error("invalid response")}
    BY FailuresAreErrors
  <2>2. /\ result = Registered(Network(reply.body[2]))
        /\ Of(Inner(reply.body), "objectClassName") = Text("ip network")
    BY <2>1 DEF RegistryAnswer
  <2>3. "objectClassName" \notin DOMAIN <<>>
    OBVIOUS
  <2>4. None # Text("ip network")
    <3>1. None[1] = "none" /\ Text("ip network")[1] = "text"
      BY DEF None, Text
    <3> QED BY <3>1
  <2> QED BY <2>2, <2>3, <2>4 DEF Inner, Of
<1>2. result = Registered(report)
  BY <1>1 DEF Inner
<1> HIDE DEF report
<1>3. /\ result.report = report
      /\ result.confidence = IF Issues(report) = {} THEN 95 ELSE 70
      /\ result.findings = RegistrationFindings(report)
  BY <1>2 DEF Registered
<1>4. Issues(report) # {} => "incomplete" \in result.findings
  <2>1. {"incomplete" : issue \in Issues(report)} \subseteq RegistrationFindings(report)
    BY DEF RegistrationFindings
  <2> QED BY <1>3, <2>1
<1> QED BY <1>3, <1>4, NetworkNotes, CollectedTells DEF report

LEMMA ReaderTells ==
  ASSUME ReaderInvariant
  PROVE  NothingVanishes
<1> SUFFICES ASSUME NEW s \in Keyed \cup {"rdap"}, Finished(s), result.report # <<>>
             PROVE  Told(Said(reply.body))
  BY DEF NothingVanishes, Told
<1>1. s \in {"virustotal", "abuseipdb", "urlhaus", "malwarebazaar", "rdap"}
  BY DEF Keyed
<1>2. result = Outcome(reply) /\ source = s /\ result.error = "none"
  BY <1>1 DEF ReaderInvariant, Finished, Analyzers
<1>3. CASE s = "virustotal"
  BY <1>2, <1>3, VirusTotalTells DEF Outcome, Said
<1>4. CASE s = "abuseipdb"
  BY <1>2, <1>4, AbuseIPDBTells DEF Outcome, Said
<1>5. CASE s = "urlhaus"
  BY <1>2, <1>5, URLhausTells DEF Outcome, Said
<1>6. CASE s = "malwarebazaar"
  BY <1>2, <1>6, MalwareBazaarTells DEF Outcome, Said
<1>7. CASE s = "rdap"
  BY <1>2, <1>7, RegistryTells DEF Outcome, Said
<1> QED BY <1>1, <1>3, <1>4, <1>5, <1>6, <1>7

(* Whatever a source answers: what it said in one of the fields of Said    *)
(* that is reported, and the collector did not keep, has an issue, lowers  *)
(* the confidence and is found as "incomplete".  Of a registration these   *)
(* are ten fields, and neither its events nor its entities.                *)
THEOREM NothingIsLost == Spec => []NothingVanishes
<1>1. ReaderInvariant => NothingVanishes
  BY ReaderTells
<1> QED BY ReaderInit, ReaderStep, <1>1, PTL DEF Spec

-----------------------------------------------------------------------------
(* A count is read as it is said, or not at all.                           *)
NumberSaid(said, key, max) == {n \in 0..max : Says(said, key, {n})}

LEMMA TypesAreDistinct ==
  \A value : Absent(value) => /\ ~Is(value, "num") /\ ~Is(value, "ip")
                              /\ ~Is(value, "list") /\ ~Is(value, "object")
                              /\ ~Is(value, "text")
BY DEF Absent, Is, None, Null

LEMMA WhatIsKept ==
  /\ \A value : Keep(value).kept = {value}
  /\ \A name, why : Drop(name, why).kept = {}
  /\ Skip.kept = {}
BY DEF Keep, Drop, Skip, Read

LEMMA CountKept ==
  ASSUME NEW said, NEW key \in DOMAIN said, NEW name, NEW required, NEW max \in Nat
  PROVE  Count(said[key], name, required, max, FALSE).kept = NumberSaid(said, key, max)
<1> DEFINE value == said[key]
           count == Count(value, name, required, max, FALSE)
<1>1. NumberSaid(said, key, max) = {n \in 0..max : Is(value, "num") /\ value[2] = n}
  BY DEF NumberSaid, Says, Of
<1>2. CASE Is(value, "num") /\ value[2] \in 0..max
  <2>1. count = Keep(value[2])
    BY <1>2, TypesAreDistinct DEF Count
  <2> HIDE DEF count
  <2>2. count.kept = {value[2]}
    BY <2>1, WhatIsKept
  <2>3. NumberSaid(said, key, max) = {value[2]}
    BY <1>1, <1>2
  <2> QED BY <2>2, <2>3 DEF count
<1>3. CASE ~(Is(value, "num") /\ value[2] \in 0..max)
  <2>1. \/ count = Skip
        \/ \E why : count = Drop(name, why)
    BY <1>3 DEF Count, Missing
  <2> HIDE DEF count
  <2>2. count.kept = {}
    BY <2>1, WhatIsKept
  <2>3. NumberSaid(said, key, max) = {}
    BY <1>1, <1>3
  <2> QED BY <2>2, <2>3 DEF count
<1> QED BY <1>2, <1>3

LEMMA StatsKept ==
  ASSUME NEW body, NEW isFile, NEW fields, fields = {"tags"}, NEW key \in Required
  PROVE  Kept(Redacted(VTReport(Data(body), isFile), fields), key)
           = NumberSaid(SaidByVirusTotal(body), key, MaxEngines)
<1> DEFINE attributes == Inner(Of(Data(body), "attributes"))
           stats == Of(attributes, "last_analysis_stats")
           counts == Stats(stats, isFile)
           said == SaidByVirusTotal(body)
           report == VTReport(Data(body), isFile)
<1>1. /\ key \notin {"attributes", "reputation", "last_analysis_date", "tags"}
      /\ key \notin Votes
  BY DEF Required, Votes
<1>2. key \in DOMAIN counts
  BY DEF Stats
<1>3. key \in DOMAIN report /\ report[key] = counts[key]
  BY <1>1, <1>2 DEF VTReport
<1>4. key \in DOMAIN said /\ said[key] = Of(Inner(stats), key)
  <2>1. said = [k \in Required \cup FileStats \cup Votes
                        \cup {"reputation", "last_analysis_date", "tags"} |->
                  CASE k \in Required \cup FileStats -> Of(Inner(stats), k)
                    [] k \in Votes -> Of(Inner(Of(attributes, "total_votes")), k)
                    [] OTHER -> Of(attributes, k)]
    BY DEF SaidByVirusTotal
  <2> HIDE DEF said, stats, attributes
  <2> QED BY <1>1, <2>1
<1>5. counts[key].kept = NumberSaid(said, key, MaxEngines)
  <2> DEFINE counted == VTCount(stats[2], key, key \in Required, MaxEngines)
  <2>1. counts[key] = IF Is(stats, "object") THEN counted
                      ELSE Read({}, InnerIssues(stats, "last_analysis_stats"))
    BY DEF Stats
  <2>2. CASE Is(stats, "object")
    <3>1. Inner(stats) = stats[2] /\ counts[key] = counted
      BY <2>1, <2>2 DEF Inner
    <3>2. counted = Count(said[key], key, key \in Required, MaxEngines, FALSE)
      BY <1>4, <3>1 DEF VTCount
    <3>3. MaxEngines \in Nat
      BY ReputationConstants
    <3> HIDE DEF said, counts, counted
    <3>4. Count(said[key], key, key \in Required, MaxEngines, FALSE).kept
            = NumberSaid(said, key, MaxEngines)
      BY <1>4, <3>3, CountKept
    <3> QED BY <3>1, <3>2, <3>4
  <2>3. CASE ~Is(stats, "object")
    <3>1. counts[key].kept = {}
      BY <2>1, <2>3, ReadingsAre
    <3>2. key \notin DOMAIN <<>>
      OBVIOUS
    <3>3. said[key] = None
      BY <1>4, <2>3, <3>2 DEF Inner, Of
    <3>4. ~Is(said[key], "num")
      BY <3>3, TypesAreDistinct DEF Absent
    <3>5. NumberSaid(said, key, MaxEngines) = {}
      BY <1>4, <3>4 DEF NumberSaid, Says, Of
    <3> QED BY <3>1, <3>5
  <2> QED BY <2>2, <2>3
<1>6. Redacted(report, fields)[key] = report[key]
  BY <1>1, <1>3 DEF Redacted
<1> QED BY <1>3, <1>5, <1>6 DEF Kept

LEMMA VerdictHolds ==
  ASSUME Finished("virustotal") => result = VirusTotal(reply, indicator)
  PROVE  VerdictIsCounted
<1> SUFFICES ASSUME Finished("virustotal") PROVE VerdictIsCounted
  BY DEF VerdictIsCounted
<1> DEFINE body == reply.body
           said == SaidByVirusTotal(body)
           bad == {"malicious", "suspicious"}
           report == Redacted(VTReport(Data(body), indicator.type = "sha256"), {"tags"})
<1>1. Said(body) = said
  BY DEF Said, Finished
<1>2. result = VirusTotal(reply, indicator) /\ result.error = "none"
  BY DEF Finished
<1>3. CASE reply.status # 200
  <2>1. \A status : result # StatusError(status)
    BY <1>2, FailuresAreErrors
  <2>2. reply.status = 404 /\ result = VTNotFound
    <3>1. CASE reply.status = 404 /\ IsNotFoundError(reply.body)
      BY <1>2, <3>1 DEF VirusTotal
    <3>2. CASE ~(reply.status = 404 /\ IsNotFoundError(reply.body))
      <4>1. result = StatusError(reply.status)
        BY <1>2, <1>3, <3>2 DEF VirusTotal
      <4> QED BY <2>1, <4>1
    <3> QED BY <3>1, <3>2
  <2>3. result.findings \subseteq {"not_found", "incomplete"}
    <3>1. result.findings = {"not_found"} \cup {"incomplete" : issue \in Issues(<<>>)}
      BY <2>2 DEF VTNotFound, Collected
    <3> QED BY <3>1
  <2>4. "no_detections" \notin result.findings /\ "detections" \notin result.findings
    BY <2>3
  <2> HIDE DEF said
  <2> QED BY <1>1, <1>3, <2>2, <2>4 DEF VerdictIsCounted
<1>4. CASE reply.status = 200
  <2>1. result = VTObject(body, indicator)
    BY <1>2, <1>4 DEF VirusTotal
  <2>2. result # Error("invalid response")
    BY <1>2, FailuresAreErrors
  <2>3. result = Collected("reputation", VTFindings(report), report)
    BY <2>1, <2>2 DEF VTObject, Data
  <2>4. \A key \in Required : Kept(report, key) = NumberSaid(said, key, MaxEngines)
    BY StatsKept
  <2> DEFINE complete == \A key \in Required : Kept(report, key) # {}
             engines == UNION {Kept(report, key) : key \in Required}
             flagged == (Kept(report, "malicious") \cup Kept(report, "suspicious")) \ {0}
             found == VTFindings(report)
  <2>5. /\ "detections" \in found <=> flagged # {}
        /\ "no_detections" \in found <=> flagged = {} /\ complete /\ engines \ {0} # {}
        /\ "not_found" \notin found
    <3> HIDE DEF complete, engines, flagged
    <3>1. found = {"observed"}
            \cup (CASE flagged # {} -> {"detections"}
                    [] flagged = {} /\ complete /\ engines \ {0} # {} -> {"no_detections"}
                    [] OTHER -> {})
      BY DEF VTFindings, complete, engines, flagged
    <3> HIDE DEF found
    <3>2. CASE flagged # {}
      <4>1. found = {"observed", "detections"}
        BY <3>1, <3>2
      <4> QED BY <3>2, <4>1
    <3>3. CASE flagged = {} /\ complete /\ engines \ {0} # {}
      <4>1. found = {"observed", "no_detections"}
        BY <3>1, <3>3
      <4> QED BY <3>3, <4>1
    <3>4. CASE flagged = {} /\ ~(complete /\ engines \ {0} # {})
      <4>1. found = {"observed"}
        BY <3>1, <3>4
      <4> QED BY <3>4, <4>1
    <3> QED BY <3>2, <3>3, <3>4
  <2>6. \A f \in {"detections", "no_detections", "not_found"} :
          f \in result.findings <=> f \in found
    <3>1. result.findings = found \cup {"incomplete" : issue \in Issues(report)}
      BY <2>3 DEF Collected
    <3> HIDE DEF found
    <3> QED BY <3>1
  <2>7. \A key \in Required : \A n : n \in Kept(report, key) <=>
          n \in 0..MaxEngines /\ Says(said, key, {n})
    BY <2>4 DEF NumberSaid
  <2>8. \A key, numbers : Says(said, key, numbers) <=>
          \E n \in numbers : Says(said, key, {n})
    BY DEF Says
  <2>9. \A key, n, m : Says(said, key, {n}) /\ Says(said, key, {m}) => n = m
    BY DEF Says
  <2>10. Required = {"malicious", "suspicious", "undetected", "harmless", "timeout"}
    BY DEF Required
  <2>11. MaxEngines \in Nat
    BY ReputationConstants
  <2> HIDE DEF said, report, found
  <2>12. flagged # {} <=> \E key \in bad : Says(said, key, 1..MaxEngines)
    <3>1. \A n : n \in flagged <=>
            n # 0 /\ n \in 0..MaxEngines /\ \E key \in bad : Says(said, key, {n})
      BY <2>7, <2>10
    <3>2. \A n : n # 0 /\ n \in 0..MaxEngines <=> n \in 1..MaxEngines
      BY <2>11
    <3> HIDE DEF flagged
    <3>3. flagged # {} <=> \E n \in 1..MaxEngines : \E key \in bad : Says(said, key, {n})
      BY <3>1, <3>2
    <3> QED BY <2>8, <3>3
  <2>13. ASSUME flagged = {}, complete, engines \ {0} # {}
         PROVE  /\ \A key \in bad : Says(said, key, {0})
                /\ \A key \in Required : Says(said, key, 0..MaxEngines)
                /\ \E key \in Required : ~Says(said, key, {0})
    <3>1. \A key \in Required : \E n \in 0..MaxEngines : Says(said, key, {n})
      BY <2>7, <2>13
    <3>2. \A key \in Required : Says(said, key, 0..MaxEngines)
      BY <2>8, <3>1
    <3>3. ASSUME NEW key \in bad PROVE Says(said, key, {0})
      <4>1. PICK n \in 0..MaxEngines : Says(said, key, {n})
        BY <2>10, <3>1
      <4>2. n \in Kept(report, key)
        BY <2>7, <2>10, <4>1
      <4>3. n = 0
        BY <2>13, <4>2
      <4> QED BY <4>1, <4>3
    <3>4. PICK key \in Required : \E n \in Kept(report, key) : n # 0
      BY <2>13
    <3>5. ~Says(said, key, {0})
      BY <2>7, <2>9, <3>4
    <3> QED BY <3>2, <3>3, <3>5
  <2> HIDE DEF flagged, complete, engines
  <2> QED BY <1>1, <1>4, <2>5, <2>6, <2>10, <2>12, <2>13 DEF VerdictIsCounted
<1> QED BY <1>3, <1>4

-----------------------------------------------------------------------------
LEMMA ReportsHold ==
  ASSUME Finished("abuseipdb") => result = AbuseIPDB(reply)
  PROVE  /\ ReportsAreCounted
         /\ Finished("abuseipdb") =>
              \/ Of(Data(reply.body), "ipAddress") = Text("same")
              \/ result.confidence = 60 /\ "incomplete" \in result.findings
<1> SUFFICES ASSUME Finished("abuseipdb")
             PROVE  /\ ReportsAreCounted
                    /\ \/ Of(Data(reply.body), "ipAddress") = Text("same")
                       \/ result.confidence = 60 /\ "incomplete" \in result.findings
  BY DEF ReportsAreCounted
<1> DEFINE data == Data(reply.body)
           said == Said(reply.body)
           read == IPReport(data)
           report == Redacted(read, {"usageType", "isp", "domain", "countryCode",
                                     "hostnames"})
<1>1. result = Collected("ip reputation", IPFindings(report), report)
  <2>1. result = AbuseIPDB(reply) /\ result.error = "none"
    BY DEF Finished
  <2>2. result \notin {Error("unexpected status"), Error("invalid response")}
    BY <2>1, FailuresAreErrors
  <2> QED BY <2>1, <2>2 DEF AbuseIPDB, Checked, Data
<1>2. \A key \in {"totalReports", "abuseConfidenceScore"} :
        key \in DOMAIN said /\ said[key] = Of(data, key)
  <2>1. said = SaidIn(data, {"ipAddress", "abuseConfidenceScore", "totalReports",
                 "numDistinctUsers", "lastReportedAt", "isWhitelisted", "isTor",
                 "usageType", "isp", "domain", "countryCode", "hostnames"})
    BY DEF Said, Finished
  <2> QED BY <2>1 DEF SaidIn
<1>3. /\ read.totalReports = ReportCount(data, "totalReports", MaxReports)
      /\ read.abuseConfidenceScore = ReportCount(data, "abuseConfidenceScore", 100)
      /\ read.ipAddress = Address(Of(data, "ipAddress"))
      /\ {"totalReports", "abuseConfidenceScore", "ipAddress"} \subseteq DOMAIN read
  BY DEF IPReport
<1> HIDE DEF read, data, said
<1>4. /\ report.totalReports = read.totalReports
      /\ report.abuseConfidenceScore = read.abuseConfidenceScore
      /\ report.ipAddress = read.ipAddress
      /\ "ipAddress" \in DOMAIN report
  BY <1>3 DEF Redacted
<1> HIDE DEF report
<1>5. Kept(report, "totalReports") = NumberSaid(said, "totalReports", MaxReports)
  <2>1. MaxReports \in Nat
    BY ReputationConstants
  <2>2. Count(said["totalReports"], "totalReports", TRUE, MaxReports, FALSE).kept
          = NumberSaid(said, "totalReports", MaxReports)
    BY <1>2, <2>1, CountKept
  <2> QED BY <1>2, <1>3, <1>4, <2>2 DEF Kept, ReportCount
<1>6. Kept(report, "abuseConfidenceScore") = NumberSaid(said, "abuseConfidenceScore", 100)
  <2> DEFINE best == 100
             key == "abuseConfidenceScore"
  <2>1. best \in Nat /\ key \in DOMAIN said /\ said[key] = Of(data, key)
    BY <1>2
  <2>2. Kept(report, "abuseConfidenceScore") = ReportCount(data, key, best).kept
    BY <1>3, <1>4 DEF Kept
  <2> HIDE DEF best, key
  <2>3. Count(said[key], key, TRUE, best, FALSE).kept = NumberSaid(said, key, best)
    BY <2>1, CountKept
  <2>4. ReportCount(data, key, best).kept = NumberSaid(said, key, best)
    BY <2>1, <2>3 DEF ReportCount
  <2> QED BY <2>2, <2>4 DEF best, key
<1> DEFINE counted == {IF total = 0 THEN "no_reports" ELSE "abuse_reports" :
                         total \in Kept(report, "totalReports")}
           high == {"high_abuse_confidence" :
                      score \in {s \in Kept(report, "abuseConfidenceScore") : s >= 75}}
           listed == {"allowlisted" : flag \in Kept(report, "isWhitelisted") \cap {TRUE}}
           relays == {"tor" : flag \in Kept(report, "isTor") \cap {TRUE}}
           problems == {"incomplete" : issue \in Issues(report)}
<1>7. result.findings = {"observed"} \cup counted \cup high \cup listed \cup relays
                          \cup problems
  BY <1>1 DEF Collected, IPFindings
<1>8. /\ counted \subseteq {"no_reports", "abuse_reports"}
      /\ high \subseteq {"high_abuse_confidence"}
      /\ listed \subseteq {"allowlisted"}
      /\ relays \subseteq {"tor"}
      /\ problems \subseteq {"incomplete"}
  OBVIOUS
<1>9. /\ "no_reports" \in counted <=> 0 \in Kept(report, "totalReports")
      /\ "high_abuse_confidence" \in high <=>
           \E score \in Kept(report, "abuseConfidenceScore") : score >= 75
  OBVIOUS
<1> HIDE DEF counted, high, listed, relays, problems
<1>10. /\ "no_reports" \in result.findings <=> 0 \in Kept(report, "totalReports")
       /\ "high_abuse_confidence" \in result.findings <=>
            \E score \in Kept(report, "abuseConfidenceScore") : score >= 75
  BY <1>7, <1>8, <1>9
<1>11. 0 \in Kept(report, "totalReports") <=> Says(said, "totalReports", {0})
  <2>1. 0 \in 0..MaxReports
    BY ReputationConstants
  <2> QED BY <1>5, <2>1 DEF NumberSaid
<1>12. (\E score \in Kept(report, "abuseConfidenceScore") : score >= 75)
         <=> Says(said, "abuseConfidenceScore", 75..100)
  <2>1. \A n : n \in Kept(report, "abuseConfidenceScore") /\ n >= 75
                <=> n \in 75..100 /\ Says(said, "abuseConfidenceScore", {n})
    BY <1>6 DEF NumberSaid
  <2>2. Says(said, "abuseConfidenceScore", 75..100) <=>
          \E n \in 75..100 : Says(said, "abuseConfidenceScore", {n})
    BY DEF Says
  <2> QED BY <2>1, <2>2
<1>13. ReportsAreCounted
  BY <1>10, <1>11, <1>12 DEF ReportsAreCounted, said
<1>14. ASSUME Of(data, "ipAddress") # Text("same")
       PROVE  result.confidence = 60 /\ "incomplete" \in result.findings
  <2>1. \E why : Address(Of(data, "ipAddress")) = Drop("ipAddress", why)
    BY <1>14 DEF Address
  <2>2. read.ipAddress.issues # {}
    <3>1. \A name, why : Drop(name, why).issues = {<<name, why>>}
      BY DEF Drop, Read
    <3>2. PICK why : read.ipAddress = Drop("ipAddress", why)
      BY <1>3, <2>1
    <3> QED BY <3>1, <3>2
  <2>3. Issues(report) # {}
    BY <1>4, <2>2 DEF Issues
  <2>4. result.confidence = 60
    BY <1>1, <2>3 DEF Collected, Confident
  <2> QED BY <1>1, <2>3, <2>4, CollectedIs
<1> QED BY <1>13, <1>14 DEF data

-----------------------------------------------------------------------------
LEMMA NoRecordIs == \A finding : NoRecord(finding).observed = "no record"
BY DEF NoRecord, Collected

LEMMA URLhausListingHolds ==
  ASSUME result = URLhaus(reply, indicator), result.error = "none"
  PROVE  LET said == Inner(reply.body) IN
         IF result.observed = "listing"
         THEN /\ Identity(said, indicator) = Text("same")
              /\ Text("no_results") \notin {Of(said, "query_status")}
         ELSE Text("no_results") \in {Of(said, "query_status"), Of(said, "query_staus")}
<1> DEFINE data == Inner(reply.body)
           report == URLhausReport(data, indicator)
<1>1. \A status : result # StatusError(status) /\ result # Error("invalid response")
  BY FailuresAreErrors
<1>2. result = Lookup(reply.body, indicator)
  BY <1>1 DEF URLhaus
<1>3. None # Text("no_results") /\ Text("ok") # Text("no_results")
  <2>1. None[1] = "none" /\ Text("no_results")[1] = "text"
    BY DEF None, Text
  <2>2. Text("ok")[2] = "ok" /\ Text("no_results")[2] = "no_results"
    BY DEF Text
  <2> QED BY <2>1, <2>2
<1>4. CASE QueryStatus(data) = Text("no_results")
  <2>1. result = NoRecord("no_results")
    BY <1>2, <1>3, <1>4 DEF Lookup
  <2>2. result.observed = "no record"
    BY <2>1, NoRecordIs
  <2>3. Text("no_results") \in {Of(data, "query_status"), Of(data, "query_staus")}
    BY <1>4 DEF QueryStatus
  <2> QED BY <2>2, <2>3
<1>5. CASE QueryStatus(data) # Text("no_results")
  <2>1. /\ QueryStatus(data) = Text("ok") /\ Identity(data, indicator) = Text("same")
        /\ result = Collected("listing", URLhausFindings(indicator, report), report)
    BY <1>1, <1>2, <1>5 DEF Lookup
  <2>2. result.observed = "listing"
    BY <2>1 DEF Collected
  <2>3. Of(data, "query_status") # Text("no_results")
    BY <1>3, <2>1 DEF QueryStatus
  <2> QED BY <2>1, <2>2, <2>3
<1> QED BY <1>4, <1>5

LEMMA SampleListingHolds ==
  ASSUME result = MalwareBazaar(reply, indicator), result.error = "none",
         result.observed = "listing"
  PROVE  LET samples == Of(Inner(reply.body), "data")[2] IN
         \A i \in DOMAIN samples :
           /\ i = 1
           /\ Of(samples[i][2], IdentityField(indicator)) = Text("same")
<1> DEFINE data == Of(Inner(reply.body), "data")
           samples == {s \in Sample(data) : Of(s, IdentityField(indicator)) = Text("same")}
<1>1. \A finding : result # NoRecord(finding)
  BY NoRecordIs
<1>2. \A status : result # StatusError(status) /\ result # Error("invalid response")
  BY FailuresAreErrors
<1>3. result = GetInfo(reply.body, indicator)
  BY <1>2 DEF MalwareBazaar
<1>4. samples # {}
  BY <1>1, <1>2, <1>3 DEF GetInfo
<1>5. PICK s \in Sample(data) : Of(s, IdentityField(indicator)) = Text("same")
  BY <1>4
<1> HIDE DEF data
<1>6. DOMAIN data[2] = {1} /\ s = data[2][1][2]
  BY <1>5 DEF Sample
<1> QED BY <1>5, <1>6 DEF data

LEMMA ObjectHolds ==
  ASSUME result = VirusTotal(reply, indicator), result.error = "none",
         result.observed = "reputation"
  PROVE  Of(Data(reply.body), "id") = Text("same") \/ indicator.type = "url"
<1>1. \A status : result # StatusError(status) /\ result # Error("invalid response")
  BY FailuresAreErrors
<1>2. result # VTNotFound
  <2>1. VTNotFound.observed = "no record"
    BY DEF VTNotFound, Collected
  <2> QED BY <2>1
<1>3. reply.status = 200
  <2> SUFFICES ASSUME reply.status # 200 PROVE FALSE
    OBVIOUS
  <2> QED BY <1>1, <1>2 DEF VirusTotal
<1>4. result = VTObject(reply.body, indicator)
  BY <1>3 DEF VirusTotal
<1> QED BY <1>1, <1>4 DEF VTObject, Data

-----------------------------------------------------------------------------
(* The registration of an address: the networks that are reported.         *)

LEMMA DivMod ==
  ASSUME NEW n \in Nat, NEW m \in Nat \ {0}
  PROVE  /\ n \div m \in Nat /\ n % m \in 0..(m - 1)
         /\ n = m * (n \div m) + (n % m)
BY SMT

LEMMA DivUnique ==
  ASSUME NEW k \in Nat, NEW m \in Nat \ {0}
  PROVE  (m * k) \div m = k
BY SMT

LEMMA NetworkOf ==
  ASSUME NEW n \in Nat, NEW m \in Nat \ {0}
  PROVE  (n - (n % m)) \div m = n \div m
<1>1. n - (n % m) = m * (n \div m)
  BY DivMod
<1>2. n \div m \in Nat
  BY DivMod
<1> QED BY <1>1, <1>2, DivUnique

LEMMA SameBlock ==
  ASSUME NEW n \in Nat, NEW q \in Nat, NEW m \in Nat \ {0}, n % m = 0, n \div m = q \div m
  PROVE  n = q - (q % m)
<1>1. n = m * (n \div m) + 0
  BY DivMod
<1>2. q = m * (q \div m) + (q % m)
  BY DivMod
<1>3. n \div m \in Nat /\ q % m \in Nat
  BY DivMod
<1> DEFINE p == m * (n \div m)
           rest == q % m
<1>4. p \in Int
  BY <1>3
<1>5. n = p + 0 /\ q = p + rest /\ rest \in Nat
  BY <1>1, <1>2, <1>3
<1> HIDE DEF p, rest
<1>6. n = q - rest
  BY <1>4, <1>5
<1> QED BY <1>6 DEF rest

LEMMA PowersArePositive == \A n \in 0..Bits : Powers[n] \in Nat \ {0}
<1> DEFINE V == Nat \ {0}
           step == [i \in 1..Bits |-> [p \in V |-> 2 * p]]
           ArePowers(f) == f = [n \in 0..Bits |-> IF n = 0 THEN 1 ELSE 2 * f[n - 1]]
<1>1. Bits \in Nat
  BY RegistrationConstants
<1>2. step \in [1..Bits -> [V -> V]] /\ 1 \in V
  OBVIOUS
<1>3. PICK h \in [0..Bits -> V] : Recursive(h, Bits, 1, step)
  <2> HIDE DEF V, step
  <2> QED BY <1>1, <1>2, RecursionOnNumbers
<1>4. ArePowers(h)
  <2>1. ASSUME NEW n \in 0..Bits, n # 0 PROVE h[n] = 2 * h[n - 1]
    <3>1. n \in 1..Bits /\ n - 1 \in 0..Bits
      BY <1>1, <2>1
    <3>2. h[n - 1] \in V
      BY <3>1
    <3> QED BY <1>3, <3>1, <3>2 DEF Recursive
  <2> QED BY <1>3, <2>1 DEF Recursive
<1>5. Powers = CHOOSE f : ArePowers(f)
  BY DEF Powers
<1>6. ArePowers(Powers)
  <2> HIDE DEF ArePowers
  <2> QED BY <1>4, <1>5
<1> DEFINE T == {n \in 0..Bits : Powers[n] \in V}
<1>7. 0 \in T
  BY <1>1, <1>6
<1>8. ASSUME NEW n \in 1..Bits, n - 1 \in T PROVE n \in T
  BY <1>1, <1>6, <1>8
<1> HIDE DEF T
<1>9. \A n \in 0..Bits : n \in T
  BY <1>1, <1>7, <1>8, UpTo
<1> QED BY <1>9 DEF T

LEMMA SizeIsPositive == \A length \in 0..Bits : Size(length) \in Nat \ {0}
<1>1. \A length \in 0..Bits : Bits - length \in 0..Bits
  BY RegistrationConstants
<1> QED BY <1>1, PowersArePositive DEF Size

LEMMA BlocksAre ==
  ASSUME NEW entry, IsNumber(Of(Inner(entry), "prefix")), NEW b \in BlocksOf(entry)
  PROVE  /\ b.length \in 0..Bits /\ b.network \in Nat
         /\ b = Block(b.network, b.length)
         /\ b.network % Size(b.length) = 0
<1> DEFINE network == Of(Inner(entry), "prefix")
<1>1. PICK l \in 0..Bits : /\ b = Block(network[2], l) /\ Is(network, "ip")
                           /\ network[2] % Size(l) = 0
  BY DEF BlocksOf
<1>2. b.network = network[2] /\ b.length = l
  BY <1>1 DEF Block
<1>3. network[2] \in 0..(Size(0) - 1)
  BY <1>1 DEF IsNumber
<1>4. Size(0) \in Nat
  <2>1. 0 \in 0..Bits
    BY RegistrationConstants
  <2> QED BY <2>1, SizeIsPositive
<1>5. network[2] \in Nat
  BY <1>3, <1>4
<1> QED BY <1>1, <1>2, <1>5

LEMMA QueriedIsNat == Queried \in Nat
<1>1. 0 \in 0..Bits
  BY RegistrationConstants
<1>2. Size(0) \in Nat
  BY <1>1, SizeIsPositive
<1> QED BY <1>2, RegistrationConstants

(* Among the networks that were kept, the smallest that has the address.   *)
LEMMA NetworksHold ==
  ASSUME NEW blocks,
         \A b \in blocks : /\ b.length \in 0..Bits /\ b.network \in Nat
                           /\ b = Block(b.network, b.length)
                           /\ b.network % Size(b.length) = 0,
         NEW smallest,
         smallest = LET holding == {b \in blocks : Holds(b, Queried)} IN
                    {b \in holding : \A other \in holding : other.length <= b.length}
  PROVE  LET in(n, length) == n \div Size(length) = Queried \div Size(length) IN
         /\ \A b \in smallest : in(b.network, b.length)
         /\ \A b \in blocks : in(b.network, b.length) =>
              \E c \in smallest : b.length <= c.length
         /\ Cardinality(smallest) <= 1
<1> DEFINE holding == {b \in blocks : Holds(b, Queried)}
           in(n, length) == n \div Size(length) = Queried \div Size(length)
<1>1. smallest = {b \in holding : \A other \in holding : other.length <= b.length}
  OBVIOUS
<1>2. ASSUME NEW b \in blocks PROVE Holds(b, Queried) <=> in(b.network, b.length)
  <2>1. Size(b.length) \in Nat \ {0} /\ Queried \in Nat /\ b.network \in Nat
    BY SizeIsPositive, QueriedIsNat
  <2>2. Holds(b, Queried) <=> b.network = Queried - (Queried % Size(b.length))
    BY DEF Holds
  <2>3. ASSUME b.network = Queried - (Queried % Size(b.length))
        PROVE  in(b.network, b.length)
    BY <2>1, <2>3, NetworkOf
  <2>4. ASSUME in(b.network, b.length)
        PROVE  b.network = Queried - (Queried % Size(b.length))
    <3> DEFINE n == b.network
               m == Size(b.length)
    <3>1. n % m = 0 /\ n \div m = Queried \div m
      BY <2>4
    <3> HIDE DEF n, m
    <3>2. n \in Nat /\ m \in Nat \ {0} /\ Queried \in Nat
      BY <2>1 DEF n, m
    <3>3. n = Queried - (Queried % m)
      BY <3>1, <3>2, SameBlock
    <3> QED BY <3>3 DEF n, m
  <2> QED BY <2>2, <2>3, <2>4
<1>3. ASSUME NEW b \in holding PROVE \E c \in smallest : b.length <= c.length
  <2> DEFINE lengths == {c.length + 1 : c \in holding}
  <2>1. lengths \in SUBSET (1..(Bits + 1)) /\ lengths # {} /\ Bits + 1 \in Nat
    <3>1. ASSUME NEW c \in holding PROVE c.length + 1 \in 1..(Bits + 1)
      <4>1. c.length \in 0..Bits /\ Bits \in Nat
        BY RegistrationConstants
      <4> QED BY <4>1
    <3> HIDE DEF holding
    <3> QED BY <1>3, <3>1, RegistrationConstants
  <2>2. PICK most \in lengths : IsGreatest(most, lengths)
    <3> HIDE DEF lengths
    <3> QED BY <2>1, Greatest
  <2>3. PICK c \in holding : most = c.length + 1
    BY <2>2
  <2>4. ASSUME NEW other \in holding PROVE other.length <= c.length
    <3>1. other.length + 1 \in lengths
      OBVIOUS
    <3>2. c.length + 1 >= other.length + 1
      BY <2>2, <2>3, <3>1 DEF IsGreatest
    <3>3. c.length \in Int /\ other.length \in Int
      <4>1. c.length \in 0..Bits /\ other.length \in 0..Bits
        OBVIOUS
      <4> QED BY <4>1
    <3> QED BY <3>2, <3>3
  <2> QED BY <1>1, <2>4
<1>4. ASSUME NEW b \in smallest, NEW c \in smallest PROVE b = c
  <2>1. b \in holding /\ c \in holding /\ b.length <= c.length /\ c.length <= b.length
    BY <1>1
  <2>2. b.length \in 0..Bits /\ c.length \in 0..Bits
    BY <2>1
  <2>3. b.length = c.length
    BY <2>1, <2>2
  <2>4. b.network = c.network
    BY <2>1, <2>3 DEF Holds
  <2> QED BY <2>1, <2>3, <2>4
<1>5. Cardinality(smallest) <= 1
  <2>1. CASE smallest = {}
    BY <2>1, FS_EmptySet
  <2>2. CASE smallest # {}
    <3>1. PICK b \in smallest : TRUE
      BY <2>2
    <3>2. smallest = {b}
      BY <1>4, <3>1
    <3>3. Cardinality({b}) = 1
      BY FS_Singleton
    <3> QED BY <3>2, <3>3
  <2> QED BY <2>1, <2>2
<1>6. \A b \in smallest : in(b.network, b.length)
  BY <1>1, <1>2
<1>7. \A b \in blocks : in(b.network, b.length) => \E c \in smallest : b.length <= c.length
  BY <1>2, <1>3
<1> QED BY <1>5, <1>6, <1>7

(* An address is outside the range when both ends are read, and do not     *)
(* have it between them.                                                   *)
LEMMA RangeHolds ==
  ASSUME NEW object,
         IsNumber(Of(object, "startAddress")), IsNumber(Of(object, "endAddress")),
         NEW network, network = Network(object)
  PROVE  LET start == Of(object, "startAddress")
             end == Of(object, "endAddress")
         IN (\E b \in Kept(network, "startAddress") \X Kept(network, "endAddress") :
               Queried \notin b[1]..b[2])
            <=> /\ Is(start, "ip") /\ Is(end, "ip") /\ start[2] <= end[2]
                /\ Queried < start[2] \/ end[2] < Queried
<1> DEFINE start == Of(object, "startAddress")
           end == Of(object, "endAddress")
           first == RangeAddress(object, "startAddress")
           last == RangeAddress(object, "endAddress")
           reversed == \E s \in first.kept, e \in last.kept : s > e
           unordered == Drop("startAddress", "after endAddress")
<1>1. /\ Kept(network, "startAddress") = IF reversed THEN {} ELSE first.kept
      /\ Kept(network, "endAddress") = IF reversed THEN {} ELSE last.kept
  <2>1. /\ network.startAddress = IF reversed THEN unordered ELSE first
        /\ network.endAddress = IF reversed THEN unordered ELSE last
    BY DEF Network, RangeAddresses
  <2>2. unordered.kept = {}
    BY WhatIsKept
  <2> HIDE DEF first, last, unordered, reversed
  <2> QED BY <2>1, <2>2 DEF Kept
<1>2. \A key : RangeAddress(object, key).kept
                 = IF Is(Of(object, key), "ip") THEN {Of(object, key)[2]} ELSE {}
  <2> SUFFICES ASSUME NEW key
               PROVE  RangeAddress(object, key).kept
                        = IF Is(Of(object, key), "ip") THEN {Of(object, key)[2]} ELSE {}
    OBVIOUS
  <2> DEFINE value == Of(object, key)
             read == RangeAddress(object, key)
  <2>1. CASE Is(value, "ip")
    <3>1. read = Keep(value[2])
      <4>1. ~Absent(value) /\ ~Is(value, "text")
        BY <2>1, TypesAreDistinct DEF Is
      <4> QED BY <2>1, <4>1 DEF RangeAddress
    <3> HIDE DEF read
    <3>2. read.kept = {value[2]}
      BY <3>1, WhatIsKept
    <3> QED BY <2>1, <3>2 DEF read
  <2>2. CASE ~Is(value, "ip")
    <3>1. read = Skip \/ \E why : read = Drop(key, why)
      <4>1. CASE Absent(value)
        BY <4>1, <2>2, TypesAreDistinct DEF RangeAddress
      <4>2. CASE ~Absent(value) /\ Is(value, "text")
        BY <4>2, <2>2 DEF RangeAddress
      <4>3. CASE ~Absent(value) /\ ~Is(value, "text")
        BY <4>3, <2>2 DEF RangeAddress
      <4> QED BY <4>1, <4>2, <4>3
    <3> HIDE DEF read
    <3>2. read.kept = {}
      BY <3>1, WhatIsKept
    <3> QED BY <2>2, <3>2 DEF read
  <2> QED BY <2>1, <2>2
<1>3. /\ first.kept = IF Is(start, "ip") THEN {start[2]} ELSE {}
      /\ last.kept = IF Is(end, "ip") THEN {end[2]} ELSE {}
  BY <1>2
<1>4. Size(0) \in Nat /\ Queried \in Nat
  <2>1. 0 \in 0..Bits
    BY RegistrationConstants
  <2> QED BY <2>1, SizeIsPositive, QueriedIsNat
<1>5. /\ Is(start, "ip") => start[2] \in Nat
      /\ Is(end, "ip") => end[2] \in Nat
  BY <1>4 DEF IsNumber
<1> HIDE DEF first, last, start, end
<1> DEFINE startKept == Kept(network, "startAddress")
           endKept == Kept(network, "endAddress")
<1>6. CASE Is(start, "ip") /\ Is(end, "ip") /\ start[2] <= end[2]
  <2>1. startKept = {start[2]} /\ endKept = {end[2]}
    BY <1>1, <1>3, <1>5, <1>6
  <2>2. (\E b \in startKept \X endKept : Queried \notin b[1]..b[2])
          <=> Queried \notin start[2]..end[2]
    <3> DEFINE s == start[2]
               e == end[2]
    <3>1. startKept \X endKept = {<<s, e>>}
      BY <2>1
    <3> HIDE DEF startKept, endKept, s, e
    <3>2. <<s, e>>[1] = s /\ <<s, e>>[2] = e
      OBVIOUS
    <3>3. (\E b \in startKept \X endKept : Queried \notin b[1]..b[2])
            <=> Queried \notin s..e
      BY <3>1, <3>2
    <3> QED BY <3>3 DEF s, e
  <2> HIDE DEF startKept, endKept
  <2>3. Queried \notin start[2]..end[2] <=> Queried < start[2] \/ end[2] < Queried
    BY <1>4, <1>5, <1>6
  <2> QED BY <1>6, <2>2, <2>3 DEF startKept, endKept, start, end
<1>7. CASE ~(Is(start, "ip") /\ Is(end, "ip") /\ start[2] <= end[2])
  <2>1. startKept = {} \/ endKept = {}
    BY <1>1, <1>3, <1>5, <1>7
  <2>2. startKept \X endKept = {}
    BY <2>1
  <2> QED BY <1>7, <2>2 DEF start, end
<1> QED BY <1>6, <1>7

-----------------------------------------------------------------------------
(* The entities of a registration. *)

LEMMA TreeIs ==
  ASSUME NEW object
  PROVE  /\ DOMAIN Tree(object) = 0..MaxDepth
         /\ Tree(object)[0] = {object}
         /\ \A n \in 1..MaxDepth :
              Tree(object)[n] = Tree(object)[n - 1] \cup Nested(Tree(object)[n - 1])
<1> DEFINE Grows(f, k) == /\ f[0] = {object}
                          /\ \A n \in 1..k : f[n] = f[n - 1] \cup Nested(f[n - 1])
           T == {k \in 0..MaxDepth : \E f : DOMAIN f = 0..k /\ Grows(f, k)}
           IsTree(f) == f = [n \in 0..MaxDepth |->
                               IF n = 0 THEN {object}
                               ELSE LET above == f[n - 1] IN above \cup Nested(above)]
<1>1. MaxDepth \in Nat
  BY RegistrationConstants
<1>2. 0 \in T
  <2> DEFINE f == [n \in 0..0 |-> {object}]
  <2>1. DOMAIN f = 0..0 /\ f[0] = {object} /\ 1..0 = {}
    OBVIOUS
  <2> HIDE DEF f
  <2>2. Grows(f, 0)
    BY <2>1
  <2> HIDE DEF Grows
  <2> QED BY <1>1, <2>1, <2>2
<1>3. ASSUME NEW k \in 1..MaxDepth, k - 1 \in T PROVE k \in T
  <2>1. PICK f : DOMAIN f = 0..(k - 1) /\ Grows(f, k - 1)
    BY <1>3
  <2> DEFINE g == [n \in 0..k |-> IF n = k THEN f[k - 1] \cup Nested(f[k - 1]) ELSE f[n]]
  <2>2. k \in Nat \ {0}
    BY <1>1
  <2>3. DOMAIN g = 0..k /\ g[0] = {object} /\ g[k - 1] = f[k - 1]
        /\ g[k] = f[k - 1] \cup Nested(f[k - 1])
    BY <2>1, <2>2
  <2>4. ASSUME NEW n \in 1..k PROVE g[n] = g[n - 1] \cup Nested(g[n - 1])
    <3>1. CASE n = k
      <4> HIDE DEF g
      <4> QED BY <2>3, <3>1
    <3>2. CASE n # k
      <4>1. n \in 1..(k - 1) /\ g[n] = f[n] /\ g[n - 1] = f[n - 1]
        BY <2>2, <3>2
      <4> HIDE DEF g
      <4> QED BY <2>1, <4>1
    <3> QED BY <3>1, <3>2
  <2> HIDE DEF g
  <2>5. Grows(g, k)
    BY <2>3, <2>4
  <2> HIDE DEF Grows
  <2>6. k \in 0..MaxDepth
    BY <1>1
  <2> QED BY <2>3, <2>5, <2>6
<1>4. MaxDepth \in T
  <2> HIDE DEF T
  <2>1. \A k \in 0..MaxDepth : k \in T
    BY <1>1, <1>2, <1>3, UpTo
  <2>2. MaxDepth \in 0..MaxDepth
    BY <1>1
  <2> QED BY <2>1, <2>2
<1>5. PICK f : DOMAIN f = 0..MaxDepth /\ Grows(f, MaxDepth)
  BY <1>4
<1> DEFINE g == [n \in 0..MaxDepth |-> f[n]]
<1>6. IsTree(g)
  <2>1. ASSUME NEW n \in 0..MaxDepth
        PROVE  g[n] = IF n = 0 THEN {object}
                      ELSE LET above == g[n - 1] IN above \cup Nested(above)
    <3>1. CASE n = 0
      BY <1>5, <3>1
    <3>2. CASE n # 0
      <4>1. n \in 1..MaxDepth /\ n - 1 \in 0..MaxDepth
        BY <1>1, <3>2
      <4>2. g[n] = f[n] /\ g[n - 1] = f[n - 1]
        BY <4>1
      <4> HIDE DEF g
      <4> QED BY <1>5, <3>2, <4>1, <4>2
    <3> QED BY <3>1, <3>2
  <2> QED BY <2>1
<1> DEFINE tree == CHOOSE h : IsTree(h)
<1>7. IsTree(tree)
  <2> HIDE DEF IsTree, g
  <2> QED BY <1>6
<1>8. Tree(object) = tree
  BY DEF Tree
<1> HIDE DEF tree
<1>9. ASSUME NEW n \in 1..MaxDepth
      PROVE  tree[n] = tree[n - 1] \cup Nested(tree[n - 1])
  <2>1. n \in 0..MaxDepth /\ n # 0
    BY <1>1
  <2> QED BY <1>7, <2>1
<1>10. DOMAIN tree = 0..MaxDepth /\ tree[0] = {object}
  BY <1>1, <1>7
<1> QED BY <1>8, <1>9, <1>10

(* What is in the tree at a depth is in it at the greatest.                *)
LEMMA TreeGrows ==
  ASSUME NEW object, NEW d \in 0..MaxDepth
  PROVE  Tree(object)[d] \subseteq Tree(object)[MaxDepth]
<1> DEFINE T == {k \in 0..(MaxDepth - d) : Tree(object)[d] \subseteq Tree(object)[d + k]}
<1>1. MaxDepth \in Nat /\ d \in Nat /\ MaxDepth - d \in Nat /\ d + 0 = d
      /\ d + (MaxDepth - d) = MaxDepth
  BY RegistrationConstants
<1>2. 0 \in T
  BY <1>1
<1>3. ASSUME NEW k \in 1..(MaxDepth - d), k - 1 \in T PROVE k \in T
  <2>1. d + k \in 1..MaxDepth /\ (d + k) - 1 = d + (k - 1) /\ k \in 0..(MaxDepth - d)
    BY <1>1
  <2>2. Tree(object)[d + (k - 1)] \subseteq Tree(object)[d + k]
    <3>1. Tree(object)[d + k]
            = Tree(object)[(d + k) - 1] \cup Nested(Tree(object)[(d + k) - 1])
      BY <2>1, TreeIs
    <3> QED BY <2>1, <3>1
  <2> QED BY <1>3, <2>1, <2>2
<1> HIDE DEF T
<1>4. \A k \in 0..(MaxDepth - d) : k \in T
  BY <1>1, <1>2, <1>3, UpTo
<1>5. MaxDepth - d \in T
  BY <1>1, <1>4
<1> QED BY <1>1, <1>5 DEF T

(* The first items of a list. *)
LEMMA ItemsAre ==
  ASSUME NEW value, IsSequence(value), NEW max \in Nat
  PROVE  /\ ~Is(value, "list") => Items(value, max) = <<>>
         /\ Is(value, "list") =>
              /\ DOMAIN value[2] \subseteq Nat
              /\ DOMAIN Items(value, max) = {i \in DOMAIN value[2] : i <= max}
              /\ \A i \in DOMAIN Items(value, max) : Items(value, max)[i] = value[2][i]
              /\ Items(value, max) \in Seq(Distinct(value[2]))
<1>1. ~Is(value, "list") => Items(value, max) = <<>>
  BY DEF Items
<1>2. ASSUME Is(value, "list")
      PROVE  /\ DOMAIN value[2] \subseteq Nat
             /\ DOMAIN Items(value, max) = {i \in DOMAIN value[2] : i <= max}
             /\ \A i \in DOMAIN Items(value, max) : Items(value, max)[i] = value[2][i]
             /\ Items(value, max) \in Seq(Distinct(value[2]))
  <2> DEFINE list == value[2]
             S == Distinct(list)
             n == Len(list)
             k == IF n < max THEN n ELSE max
             items == Items(value, max)
  <2>1. list \in Seq(S)
    BY <1>2 DEF IsSequence
  <2>2. items = SubSeq(list, 1, k)
    BY <1>2 DEF Items, First
  <2> HIDE DEF list, S, items
  <2>3. n \in Nat /\ DOMAIN list = 1..n
    BY <2>1, LenProperties
  <2> HIDE DEF n
  <2>4. k \in 0..n
    BY <2>3
  <2>5. {i \in 1..n : i <= max} = 1..k
    BY <2>3
  <2> HIDE DEF k
  <2>6. /\ SubSeq(list, 1, k) \in Seq(S)
        /\ DOMAIN SubSeq(list, 1, k) = 1..k
        /\ \A i \in 1..k : SubSeq(list, 1, k)[i] = list[i]
    BY <2>1, <2>4, Beginning DEF n
  <2>7. 1..n \subseteq Nat
    OBVIOUS
  <2>8. /\ DOMAIN list \subseteq Nat
        /\ DOMAIN items = {i \in DOMAIN list : i <= max}
        /\ \A i \in DOMAIN items : items[i] = list[i]
        /\ items \in Seq(S)
    BY ONLY <2>2, <2>3, <2>5, <2>6, <2>7
  <2> QED BY <2>8 DEF list, items, S
<1> QED BY <1>1, <1>2

(* What is said in a role by some entity, a name by its card.              *)
Claimed(role, name, entities) ==
  {value \in UNION {{Of(Inner(e), "vcardArray")[2][i][3] :
                       i \in DOMAIN Of(Inner(e), "vcardArray")[2]} : e \in entities} :
     SaidBySome({value}, role, name, entities)}

LEMMA SaysAsHolds ==
  ASSUME NEW entities, NEW e \in entities, Is(e, "object"), NEW role, NEW name,
         IsSequence(Of(Inner(e), "vcardArray")), IsSequence(Of(Inner(e), "roles")),
         NEW value \in SaysAs(e[2], role, name)
  PROVE  value \in Claimed(role, name, entities)
<1> DEFINE fields == e[2]
           cards == Of(fields, "vcardArray")
           card == cards[2]
           items == Items(cards, MaxProperties)
           roles == Of(fields, "roles")
           says(i, what) == Is(card[i], "property") /\ card[i][2] = what
           Named(what) ==
             {i \in DOMAIN items : Is(items[i], "property") /\ items[i][2] = what}
           least(places) == {j \in places : \A k \in places : j <= k}
<1>1. Inner(e) = fields
  BY DEF Inner
<1>2. MaxProperties \in Nat /\ 16 \in Nat
  BY RegistrationConstants
<1>3. /\ Slot(cards, "kind") # {"individual"}
      /\ Text(role) \in Distinct(Items(roles, 16))
      /\ value \in Slot(cards, name)
  BY DEF SaysAs, IsModelled
<1>4. \A what : Slot(cards, what) = {items[i][3] : i \in least(Named(what))}
  BY DEF Slot
<1>5. Is(cards, "list")
  <2>1. ASSUME ~Is(cards, "list") PROVE FALSE
    <3>1. items = <<>>
      BY <1>1, <1>2, <2>1, ItemsAre
    <3>2. DOMAIN items = {}
      BY <3>1
    <3> HIDE DEF items
    <3>3. Named(name) = {}
      BY <3>2
    <3>4. Slot(cards, name) = {}
      BY <1>4, <3>3
    <3> QED BY <1>3, <3>4
  <2> QED BY <2>1
<1>6. /\ DOMAIN card \subseteq Nat
      /\ DOMAIN items = {i \in DOMAIN card : i <= MaxProperties}
      /\ \A i \in DOMAIN items : items[i] = card[i]
  BY <1>1, <1>2, <1>5, ItemsAre
<1>7. Text(role) \in Distinct(roles[2])
  <2> DEFINE read == Items(roles, 16)
  <2>1. PICK i \in DOMAIN read : read[i] = Text(role)
    BY <1>3 DEF Distinct
  <2>2. Is(roles, "list")
    <3>1. ASSUME ~Is(roles, "list") PROVE FALSE
      <4>1. read = <<>>
        BY <1>1, <1>2, <3>1, ItemsAre
      <4> HIDE DEF read
      <4> QED BY <2>1, <4>1
    <3> QED BY <3>1
  <2> HIDE DEF read
  <2>3. /\ DOMAIN read = {j \in DOMAIN roles[2] : j <= 16}
        /\ \A j \in DOMAIN read : read[j] = roles[2][j]
    <3>1. IsSequence(roles)
      BY <1>1
    <3> QED BY <1>2, <2>2, <3>1, ItemsAre DEF read
  <2> QED BY <2>1, <2>3 DEF Distinct
<1> HIDE DEF items
<1>8. \A what : Named(what) =
        {i \in DOMAIN card : i <= MaxProperties /\ says(i, what)}
  BY <1>6
<1>9. PICK i \in Named(name) : items[i][3] = value
  BY <1>3, <1>4
<1>10. i \in DOMAIN card /\ says(i, name) /\ card[i][3] = value /\ i <= MaxProperties
  BY <1>6, <1>8, <1>9
<1>11. ASSUME NEW k \in DOMAIN card, says(k, "kind"), card[k][3] = "individual",
              ~(k > MaxProperties)
       PROVE  \E j \in DOMAIN card : j < k /\ says(j, "kind")
  <2>1. SUFFICES ASSUME \A j \in DOMAIN card : ~(j < k /\ says(j, "kind")) PROVE FALSE
    OBVIOUS
  <2>2. k \in Named("kind")
    <3>1. k \in Nat /\ k <= MaxProperties
      BY <1>2, <1>6, <1>11
    <3> QED BY <1>8, <1>11, <3>1
  <2>3. \A j \in Named("kind") : j \in Nat /\ k <= j
    BY <1>6, <1>8, <2>1
  <2> HIDE DEF Named
  <2>4. least(Named("kind")) = {k}
    BY <2>2, <2>3
  <2>5. items[k] = card[k]
    BY <1>6, <2>2 DEF Named
  <2>6. Slot(cards, "kind") = {items[k][3]}
    BY <1>4, <2>4 DEF Named
  <2> QED BY <1>3, <1>11, <2>5, <2>6
<1>12. SaidBySome({value}, role, name, entities)
  <2> SUFFICES /\ Is(cards, "list")
               /\ \E j \in DOMAIN card :
                    says(j, name) /\ card[j][3] = value /\ j <= MaxProperties
               /\ \A k \in DOMAIN card : says(k, "kind") /\ card[k][3] = "individual" =>
                    \/ k > MaxProperties
                    \/ \E j \in DOMAIN card : j < k /\ says(j, "kind")
               /\ Text(role) \in Distinct(roles[2])
    BY <1>1 DEF SaidBySome
  <2> QED BY <1>5, <1>7, <1>10, <1>11
<1>13. value \in UNION {{Of(Inner(f), "vcardArray")[2][j][3] :
                          j \in DOMAIN Of(Inner(f), "vcardArray")[2]} : f \in entities}
  BY <1>1, <1>10
<1> QED BY <1>12, <1>13 DEF Claimed

-----------------------------------------------------------------------------
(* What is pending in the walk of a registration is in its tree, and what  *)
(* was found is claimed there.                                             *)
EntityIssues ==
  {<<"entities", "too many">>, <<"entities", "unexpected type">>,
   <<"organization", "truncated">>, <<"abuse_email", "not a mailbox">>}

Places(object) ==
  UNION {{[entity |-> e, depth |-> d] : e \in Tree(object)[d]} : d \in 1..MaxDepth}

Walks(object) ==
  LET entities == Tree(object)[MaxDepth] IN
  [pending : Seq(Places(object)),
   organization : SUBSET Claimed("registrant", "fn", entities),
   abuse_email : SUBSET Claimed("abuse", "email", entities),
   issues : SUBSET EntityIssues]

LEMMA ChildrenAre ==
  ASSUME NEW object, WellFormed(object),
         NEW d \in 1..MaxDepth, NEW e \in Tree(object)[d - 1], Is(e, "object")
  PROVE  /\ At(d, Children(e[2]).kept) \in Seq(Places(object))
         /\ Children(e[2]).issues \in SUBSET EntityIssues
<1> DEFINE list == Of(e[2], "entities")
           kept == Items(list, MaxEntities)
           children == Children(e[2])
<1>1. Inner(e) = e[2]
  BY DEF Inner
<1>2. MaxDepth \in Nat /\ MaxEntities \in Nat
  BY RegistrationConstants
<1>3. d - 1 \in 0..MaxDepth
  BY <1>2
<1>4. IsSequence(list)
  <2>1. e \in Tree(object)[MaxDepth]
    BY <1>3, TreeGrows
  <2> QED BY <1>1, <2>1 DEF WellFormed
<1>5. children.kept = kept /\ children.issues \in SUBSET EntityIssues
  <2> DEFINE issues == {<<"entities", "too many">> :
                          i \in {j \in {MaxEntities + 1} :
                                   Is(list, "list") /\ j <= Len(list[2])}}
  <2>1. children = Read(kept, issues)
    BY DEF Children
  <2>2. issues \in SUBSET EntityIssues
    BY DEF EntityIssues
  <2> HIDE DEF issues, kept, children
  <2> QED BY <2>1, <2>2, ReadingsAre
<1>6. \E n \in Nat : DOMAIN kept = 1..n
  <2>1. CASE Is(list, "list")
    <3>1. kept \in Seq(Distinct(list[2]))
      BY <1>2, <1>4, <2>1, ItemsAre
    <3> HIDE DEF kept
    <3> QED BY <3>1, LenProperties
  <2>2. CASE ~Is(list, "list")
    <3>1. kept = <<>>
      BY <1>2, <1>4, <2>2, ItemsAre
    <3> HIDE DEF kept
    <3>2. DOMAIN kept = 1..0
      BY <3>1
    <3> QED BY <3>2
  <2> QED BY <2>1, <2>2
<1>7. ASSUME NEW i \in DOMAIN kept PROVE kept[i] \in Tree(object)[d]
  <2>1. CASE Is(list, "list")
    <3>1. kept[i] \in Distinct(list[2])
      <4>1. i \in DOMAIN list[2] /\ kept[i] = list[2][i]
        BY <1>2, <1>4, <2>1, ItemsAre
      <4> QED BY <4>1 DEF Distinct
    <3> HIDE DEF kept
    <3>2. kept[i] \in Nested(Tree(object)[d - 1])
      BY <1>1, <2>1, <3>1 DEF Nested
    <3> QED BY <3>2, TreeIs
  <2>2. CASE ~Is(list, "list")
    <3>1. kept = <<>>
      BY <1>2, <1>4, <2>2, ItemsAre
    <3> HIDE DEF kept
    <3> QED BY <3>1
  <2> QED BY <2>1, <2>2
<1> HIDE DEF kept, children
<1>8. At(d, kept) \in Seq(Places(object))
  <2>1. PICK n \in Nat : DOMAIN kept = 1..n
    BY <1>6
  <2>2. At(d, kept) = [i \in 1..n |-> [entity |-> kept[i], depth |-> d]]
    BY <2>1 DEF At
  <2>3. \A i \in 1..n : [entity |-> kept[i], depth |-> d] \in Places(object)
    BY <1>7, <2>1 DEF Places
  <2>4. At(d, kept) \in [1..n -> Places(object)]
    BY <2>2, <2>3
  <2> QED BY <2>4, FunctionIsSeq
<1> QED BY <1>5, <1>8 DEF children

LEMMA ExamineStep ==
  ASSUME NEW object, WellFormed(object), NEW walk \in Walks(object),
         Tail(walk.pending) \in Seq(Places(object)),
         NEW d \in 1..MaxDepth, NEW e \in Tree(object)[d], Is(e, "object")
  PROVE  ExamineEntity(walk, e[2], d) \in Walks(object)
<1> DEFINE entity == e[2]
           entities == Tree(object)[MaxDepth]
           nested == IF d < MaxDepth THEN Children(entity) ELSE Read(<<>>, {})
           fn == SaysAs(entity, "registrant", "fn")
           named == fn \ {"blank"}
           mailbox == SaysAs(entity, "abuse", "email")
           issue(missing, values, why) == {why : v \in IF missing = {} THEN values ELSE {}}
           pending == At(d + 1, nested.kept) \o Tail(walk.pending)
           organization == IF walk.organization = {} THEN named ELSE walk.organization
           email == IF walk.abuse_email = {} THEN mailbox \cap {"mail"} ELSE walk.abuse_email
           cut == issue(walk.organization, named \cap {"long"}, <<"organization", "truncated">>)
           odd == issue(walk.abuse_email, mailbox \ {"mail"}, <<"abuse_email", "not a mailbox">>)
           Orgs == Claimed("registrant", "fn", entities)
           Mails == Claimed("abuse", "email", entities)
<1>1. ExamineEntity(walk, entity, d)
        = [pending |-> pending, organization |-> organization, abuse_email |-> email,
           issues |-> walk.issues \cup nested.issues \cup cut \cup odd]
  BY DEF ExamineEntity
<1>2. MaxDepth \in Nat /\ d \in 0..MaxDepth
  BY RegistrationConstants
<1>3. e \in entities
  BY <1>2, TreeGrows
<1>4. Inner(e) = entity /\ IsSequence(Of(entity, "vcardArray")) /\ IsSequence(Of(entity, "roles"))
  BY <1>3 DEF Inner, WellFormed
<1>5. fn \subseteq Orgs /\ mailbox \subseteq Mails
  BY <1>3, <1>4, SaysAsHolds
<1>6. /\ At(d + 1, nested.kept) \in Seq(Places(object))
      /\ nested.issues \in SUBSET EntityIssues
  <2>1. CASE d < MaxDepth
    <3>1. d + 1 \in 1..MaxDepth /\ (d + 1) - 1 = d
      BY <1>2, <2>1
    <3>2. nested = Children(entity)
      BY <2>1
    <3> QED BY <3>1, <3>2, ChildrenAre
  <2>2. CASE ~(d < MaxDepth)
    <3>1. nested = Read(<<>>, {})
      BY <2>2
    <3> HIDE DEF nested
    <3>2. nested.kept = <<>> /\ nested.issues = {}
      BY <3>1, ReadingsAre
    <3>3. At(d + 1, nested.kept) = [i \in 1..0 |-> [entity |-> nested.kept[i], depth |-> d + 1]]
      <4>1. DOMAIN nested.kept = 1..0
        BY <3>2
      <4> HIDE DEF nested
      <4> QED BY <4>1 DEF At
    <3>4. At(d + 1, nested.kept) \in [1..0 -> Places(object)]
      <4>1. \A i \in 1..0 : FALSE
        OBVIOUS
      <4> DEFINE place(i) == [entity |-> nested.kept[i], depth |-> d + 1]
      <4>2. \A i \in 1..0 : place(i) \in Places(object)
        BY <4>1
      <4> HIDE DEF place
      <4>3. [i \in 1..0 |-> place(i)] \in [1..0 -> Places(object)]
        BY <4>2
      <4> QED BY <3>3, <4>3 DEF place
    <3>5. At(d + 1, nested.kept) \in Seq(Places(object))
      BY <3>4, FunctionIsSeq
    <3> QED BY <3>2, <3>5
  <2> QED BY <2>1, <2>2
<1> HIDE DEF nested, fn, mailbox, Orgs, Mails
<1>7. /\ walk.organization \in SUBSET Orgs
      /\ walk.abuse_email \in SUBSET Mails
      /\ walk.issues \in SUBSET EntityIssues
  BY DEF Walks, Orgs, Mails
<1>8. organization \in SUBSET Orgs /\ email \in SUBSET Mails
  BY <1>5, <1>7
<1>9. cut \in SUBSET EntityIssues /\ odd \in SUBSET EntityIssues
  <2>1. cut \subseteq {<<"organization", "truncated">>}
        /\ odd \subseteq {<<"abuse_email", "not a mailbox">>}
    OBVIOUS
  <2> HIDE DEF cut, odd
  <2> QED BY <2>1 DEF EntityIssues
<1>10. pending \in Seq(Places(object))
  BY <1>6, ConcatProperties
<1> HIDE DEF pending, organization, email, cut, odd
<1>11. walk.issues \cup nested.issues \cup cut \cup odd \in SUBSET EntityIssues
  BY <1>6, <1>7, <1>9
<1> QED BY <1>1, <1>8, <1>10, <1>11 DEF Walks, Orgs, Mails

LEMMA VisitStep ==
  ASSUME NEW object, WellFormed(object), NEW walk \in Walks(object), NEW n \in Nat
  PROVE  Visit(walk, n) \in Walks(object)
<1> DEFINE next == Head(walk.pending)
           noting(why) == walk.issues \cup {<<"entities", why>>}
           P == Places(object)
<1>1. /\ walk.pending \in Seq(P) /\ walk.issues \in SUBSET EntityIssues
      /\ noting("too many") \in SUBSET EntityIssues
      /\ noting("unexpected type") \in SUBSET EntityIssues
  BY DEF Walks, EntityIssues
<1>2. \A pending \in Seq(P), issues \in SUBSET EntityIssues :
        [walk EXCEPT !.pending = pending, !.issues = issues] \in Walks(object)
  BY DEF Walks
<1>3. CASE walk.pending = <<>>
  <2>1. Visit(walk, n) = walk
    BY <1>3 DEF Visit
  <2> QED BY <2>1
<1>4. CASE walk.pending # <<>>
  <2>1. next \in P /\ Tail(walk.pending) \in Seq(P)
    BY <1>1, <1>4, HeadTailProperties
  <2>2. PICK d \in 1..MaxDepth : \E e \in Tree(object)[d] : next = [entity |-> e, depth |-> d]
    BY <2>1 DEF Places
  <2>3. PICK e \in Tree(object)[d] : next = [entity |-> e, depth |-> d]
    BY <2>2
  <2>4. next.entity = e /\ next.depth = d
    BY <2>3
  <2> HIDE DEF next, P
  <2> MaxEntities \in Nat
    BY RegistrationConstants
  <2>5. CASE n > MaxEntities
    <3>1. ~(n <= MaxEntities)
      BY <2>5
    <3>3. Visit(walk, n) = [walk EXCEPT !.pending = <<>>, !.issues = noting("too many")]
      BY ONLY <1>4, <2>5, <3>1 DEF Visit
    <3>2. <<>> \in Seq(P)
      BY EmptySeq
    <3> HIDE DEF noting
    <3> QED BY <1>1, <1>2, <3>2, <3>3
  <2>6. CASE ~(n > MaxEntities) /\ ~Is(e, "object")
    <3>1. n <= MaxEntities
      BY <2>6
    <3>2. Visit(walk, n) = [walk EXCEPT !.pending = Tail(walk.pending),
                                        !.issues = noting("unexpected type")]
      BY ONLY <1>4, <2>4, <2>6, <3>1 DEF Visit, next
    <3> HIDE DEF noting
    <3> QED BY <1>1, <1>2, <2>1, <3>2 DEF P
  <2>7. CASE ~(n > MaxEntities) /\ Is(e, "object")
    <3>1. n <= MaxEntities
      BY <2>7
    <3>2. Visit(walk, n) = ExamineEntity(walk, e[2], d)
      BY ONLY <1>4, <2>4, <2>7, <3>1 DEF Visit, next
    <3> QED BY <2>1, <2>7, <3>2, ExamineStep DEF P
  <2> QED BY <2>5, <2>6, <2>7
<1> QED BY <1>3, <1>4

(* However the entities are nested: an organization or a mailbox that is   *)
(* found is claimed by one of them.                                        *)
LEMMA EntitiesHold ==
  ASSUME NEW object, WellFormed(object), Is(object, "object")
  PROVE  /\ Entities(object[2]).organization.kept
              \in SUBSET Claimed("registrant", "fn", Tree(object)[MaxDepth])
         /\ Entities(object[2]).abuse_email.kept
              \in SUBSET Claimed("abuse", "email", Tree(object)[MaxDepth])
<1> DEFINE V == Walks(object)
           N == MaxEntities + 1
           top == Children(object[2])
           start == [pending |-> At(1, top.kept), organization |-> {},
                     abuse_email |-> {}, issues |-> top.issues]
           step == [n \in 1..N |-> [walk \in V |-> Visit(walk, n)]]
           IsVisited(f) ==
             f = [n \in 0..N |-> IF n = 0 THEN start ELSE Visit(f[n - 1], n)]
           visited == CHOOSE f : IsVisited(f)
           walk == visited[N]
<1>1. N \in Nat /\ MaxDepth \in Nat /\ 1 \in 1..MaxDepth /\ 1 - 1 = 0
  BY RegistrationConstants
<1>2. start \in V
  <2>1. object \in Tree(object)[1 - 1]
    BY <1>1, TreeIs
  <2>2. At(1, top.kept) \in Seq(Places(object)) /\ top.issues \in SUBSET EntityIssues
    BY <1>1, <2>1, ChildrenAre
  <2> HIDE DEF top
  <2> QED BY <2>2 DEF Walks
<1>3. step \in [1..N -> [V -> V]]
  <2>1. \A n \in 1..N : \A w \in V : Visit(w, n) \in V
    <3>1. 1..N \subseteq Nat
      BY <1>1
    <3> QED BY <3>1, VisitStep
  <2> HIDE DEF V, N
  <2> QED BY <2>1
<1>4. PICK h \in [0..N -> V] : Recursive(h, N, start, step)
  <2> HIDE DEF V, N, start, step
  <2> QED BY <1>1, <1>2, <1>3, RecursionOnNumbers
<1>5. IsVisited(h)
  <2>1. ASSUME NEW n \in 0..N, n # 0 PROVE h[n] = Visit(h[n - 1], n)
    <3>1. n \in 1..N /\ n - 1 \in 0..N
      BY <1>1, <2>1
    <3>2. h[n - 1] \in V
      BY <3>1
    <3> HIDE DEF V, N, start
    <3> QED BY <1>4, <3>1, <3>2 DEF Recursive
  <2> HIDE DEF V, N, start, step
  <2>2. h[0] = start
    BY <1>4 DEF Recursive
  <2> QED BY <2>1, <2>2
<1>6. IsVisited(visited)
  <2> HIDE DEF IsVisited
  <2> QED BY <1>5
<1> HIDE DEF visited
<1>7. walk \in V
  <2> DEFINE T == {n \in 0..N : visited[n] \in V}
  <2>1. 0 \in T
    <3> HIDE DEF V, start, N
    <3> QED BY <1>1, <1>2, <1>6
  <2>2. ASSUME NEW n \in 1..N, n - 1 \in T PROVE n \in T
    <3>1. n \in 0..N /\ n # 0 /\ n \in Nat
      BY <1>1
    <3> HIDE DEF V, start, N
    <3>2. visited[n] = Visit(visited[n - 1], n)
      BY <1>6, <3>1
    <3>3. Visit(visited[n - 1], n) \in V
      BY <2>2, <3>1, VisitStep DEF V
    <3> QED BY <3>1, <3>2, <3>3
  <2> HIDE DEF T
  <2>3. \A n \in 0..N : n \in T
    <3> HIDE DEF N
    <3> QED BY <1>1, <2>1, <2>2, UpTo
  <2>4. N \in T
    BY <1>1, <2>3
  <2> QED BY <2>4 DEF T
<1>8. Entities(object[2]) = [organization |-> Read(walk.organization, {}),
                             abuse_email |-> Read(walk.abuse_email, {}),
                             entity_issues |-> Read({}, walk.issues)]
  BY DEF Entities, visited
<1> HIDE DEF walk
<1>9. /\ Entities(object[2]).organization.kept = walk.organization
      /\ Entities(object[2]).abuse_email.kept = walk.abuse_email
  BY <1>8, ReadingsAre
<1> QED BY <1>7, <1>9 DEF Walks

-----------------------------------------------------------------------------
LEMMA RegistrationHolds ==
  ASSUME Finished("rdap") => reply \in Replies["rdap"] /\ result = RegistryAnswer(reply)
  PROVE  RegistrationIsOfTheNetwork
<1> SUFFICES ASSUME Finished("rdap") PROVE RegistrationIsOfTheNetwork
  BY DEF RegistrationIsOfTheNetwork
<1> DEFINE object == reply.body
           said == Inner(object)
           network == Network(said)
           blocks == Kept(network, "cidr0_cidrs")
           smallest == RegisteredIn(network)
           entities == Tree(object)[MaxDepth]
<1>1. result = RegistryAnswer(reply) /\ result.error = "none" /\ WellFormed(object)
  BY AnswersConstants DEF Finished
<1>2. result = Registered(network) /\ Is(object, "object") /\ said = object[2]
  <2>1. result \notin {Error("unexpected status"), Error("invalid response")}
    BY <1>1, FailuresAreErrors
  <2>2. /\ result = Registered(Network(object[2]))
        /\ Of(said, "objectClassName") = Text("ip network")
    BY <1>1, <2>1 DEF RegistryAnswer
  <2>3. "objectClassName" \notin DOMAIN <<>>
    OBVIOUS
  <2>4. None # Text("ip network")
    <3>1. None[1] = "none" /\ Text("ip network")[1] = "text"
      BY DEF None, Text
    <3> QED BY <3>1
  <2> QED BY <2>2, <2>3, <2>4 DEF Inner, Of
<1>3. /\ result.report = network /\ result.registered_in = smallest
      /\ result.findings = RegistrationFindings(network)
  <2> HIDE DEF network
  <2> QED BY <1>2 DEF Registered
<1>4. \A b \in blocks : /\ b.length \in 0..Bits /\ b.network \in Nat
                        /\ b = Block(b.network, b.length)
                        /\ b.network % Size(b.length) = 0
  <2> SUFFICES ASSUME NEW b \in blocks
               PROVE  /\ b.length \in 0..Bits /\ b.network \in Nat
                      /\ b = Block(b.network, b.length)
                      /\ b.network % Size(b.length) = 0
    OBVIOUS
  <2> DEFINE value == Of(said, "cidr0_cidrs")
             read == CIDRs(value)
  <2>1. b \in read.kept
    <3>1. network.cidr0_cidrs = read
      BY DEF Network
    <3> QED BY <3>1 DEF Kept
  <2>2. value # None /\ Is(value, "list")
    <3>1. ASSUME read = Skip \/ \E why : read = Drop("cidr0_cidrs", why) PROVE FALSE
      <4> HIDE DEF read
      <4> QED BY <2>1, <3>1, WhatIsKept
    <3>2. CASE value = None
      <4>1. ~Is(value, "list")
        BY <3>2 DEF None, Is
      <4> HIDE DEF value
      <4>2. CIDRs(value) = Skip
        BY <3>2, <4>1 DEF CIDRs
      <4> QED BY <3>1, <4>2
    <3>3. CASE value # None /\ ~Is(value, "list")
      <4>1. read = Drop("cidr0_cidrs", "unexpected type")
        BY <3>3 DEF CIDRs
      <4> QED BY <3>1, <4>1
    <3> QED BY <3>2, <3>3
  <2> DEFINE examined == {i \in DOMAIN value[2] : i <= MaxPrefixes}
             entries == {value[2][i] : i \in examined}
             issues == {<<"cidr0_cidrs", "not a valid CIDR">> :
                          entry \in {e \in entries : BlocksOf(e) = {}}}
                         \cup {<<"cidr0_cidrs", "too many">> :
                                 i \in DOMAIN value[2] \ examined}
  <2>3. read = Read(UNION {BlocksOf(entry) : entry \in entries}, issues)
    BY <2>2 DEF CIDRs
  <2>4. PICK entry \in entries : b \in BlocksOf(entry)
    <3> HIDE DEF entries, issues, read
    <3> QED BY <2>1, <2>3, ReadingsAre
  <2>5. PICK i \in DOMAIN value[2] : entry = value[2][i]
    OBVIOUS
  <2>6. IsNumber(Of(Inner(entry), "prefix"))
    BY <1>1, <2>2, <2>5 DEF WellFormed
  <2> QED BY <2>4, <2>6, BlocksAre
<1>5. smallest = LET holding == {b \in blocks : Holds(b, Queried)} IN
                 {b \in holding : \A other \in holding : other.length <= b.length}
  BY DEF RegisteredIn
<1> DEFINE in(n, length) == n \div Size(length) = Queried \div Size(length)
<1>6. /\ \A b \in smallest : in(b.network, b.length)
      /\ \A b \in blocks : in(b.network, b.length) =>
           \E c \in smallest : b.length <= c.length
      /\ Cardinality(smallest) <= 1
  <2> HIDE DEF blocks, smallest
  <2> QED BY <1>4, <1>5, NetworksHold
<1> DEFINE start == Of(said, "startAddress")
           end == Of(said, "endAddress")
           outside == \E b \in Kept(network, "startAddress") \X Kept(network, "endAddress") :
                        Queried \notin b[1]..b[2]
<1>7. outside <=> /\ Is(start, "ip") /\ Is(end, "ip") /\ start[2] <= end[2]
                  /\ Queried < start[2] \/ end[2] < Queried
  <2>1. IsNumber(start) /\ IsNumber(end)
    BY <1>1 DEF WellFormed
  <2> QED BY <2>1, RangeHolds
<1>8. "range_mismatch" \in result.findings <=> outside
  <2> HIDE DEF network
  <2>1. "range_mismatch" \notin {"network"} \cup {"incomplete" : issue \in Issues(network)}
    OBVIOUS
  <2> QED BY <1>3, <2>1 DEF RegistrationFindings
<1>9. /\ Kept(network, "organization") = Entities(said).organization.kept
      /\ Kept(network, "abuse_email") = Entities(said).abuse_email.kept
  BY DEF Network, Kept
<1>10. /\ SaidBySome(Kept(network, "organization"), "registrant", "fn", entities)
       /\ SaidBySome(Kept(network, "abuse_email"), "abuse", "email", entities)
  <2>1. \A role, name : \A values \in SUBSET Claimed(role, name, entities) :
          SaidBySome(values, role, name, entities)
    <3>1. \A role, name, value : value \in Claimed(role, name, entities) =>
            SaidBySome({value}, role, name, entities)
      BY DEF Claimed
    <3> QED BY <3>1 DEF SaidBySome
  <2> HIDE DEF entities, network, said
  <2> QED BY <1>1, <1>2, <1>9, <2>1, EntitiesHold DEF entities
<1> HIDE DEF network, blocks, smallest, outside, in
<1> QED BY <1>3, <1>6, <1>7, <1>8, <1>10 DEF RegistrationIsOfTheNetwork, blocks, smallest, in

-----------------------------------------------------------------------------
(* The log of certificates. *)

(* The objects of a list are a sequence of its items. *)
LEMMA ObjectsAre ==
  ASSUME NEW S, NEW items \in Seq(S)
  PROVE  /\ Objects(items) \in Seq({item \in S : Is(item, "object")})
<1> DEFINE n == Len(items)
           V == Seq({item \in S : Is(item, "object")})
           Put(kept, item) == IF Is(item, "object") THEN Append(kept, item) ELSE kept
           step == [i \in 1..n |-> [kept \in V |-> Put(kept, items[i])]]
           IsFold(f) ==
             f = [s \in SUBSET (1..n) |->
                    IF s = {} THEN <<>> ELSE Put(f[s \ {Max(s)}], items[Max(s)])]
<1>1. n \in Nat /\ DOMAIN items = 1..n /\ \A i \in 1..n : items[i] \in S
  BY LenProperties, ElementOfSeq
<1>2. ASSUME NEW i \in 1..n, NEW kept \in V
      PROVE  Put(kept, items[i]) \in V
  BY <1>1, AppendProperties
<1>3. step \in [1..n -> [V -> V]] /\ <<>> \in V
  <2>1. <<>> \in V
    OBVIOUS
  <2> HIDE DEF Put, V, n
  <2> QED BY <1>2, <2>1
<1> HIDE DEF n, V
<1>4. PICK f \in [SUBSET (1..n) -> V] : IsFolded(f, n, V, <<>>, step)
  <2> HIDE DEF step
  <2> QED BY <1>1, <1>3, FoldExists
<1>5. IsFold(f)
  <2>1. ASSUME NEW s \in SUBSET (1..n), s # {}
        PROVE  f[s] = Put(f[s \ {Max(s)}], items[Max(s)])
    <3> HIDE DEF Put
    <3> QED BY <1>4, <2>1 DEF IsFolded
  <2> HIDE DEF Put
  <2> QED BY <1>4, <2>1 DEF IsFolded
<1> DEFINE iter == CHOOSE h : IsFold(h)
<1>6. IsFold(iter)
  <2> HIDE DEF IsFold
  <2> QED BY <1>5
<1>7. Objects(items) = iter[1..n]
  BY <1>1 DEF Objects, FoldLeft, MapThenFoldSet
<1> HIDE DEF iter
<1>8. iter[{}] = <<>>
      /\ \A i \in 1..n : iter[1..i] = Put(iter[1..(i - 1)], items[i])
  <2> HIDE DEF Put
  <2>1. iter[{}] = <<>>
    BY <1>6
  <2>2. ASSUME NEW i \in 1..n
        PROVE  iter[1..i] = Put(iter[1..(i - 1)], items[i])
    <3>1. /\ 1..i \in SUBSET (1..n) /\ 1..i # {}
          /\ Max(1..i) = i /\ (1..i) \ {i} = 1..(i - 1)
      BY <1>1, InitialSegments
    <3> DEFINE s == 1..i
    <3>2. iter[s] = Put(iter[s \ {Max(s)}], items[Max(s)])
      <4>1. s \in SUBSET (1..n) /\ s # {}
        BY <3>1
      <4> HIDE DEF s
      <4> QED BY <1>6, <4>1
    <3> QED BY <3>1, <3>2
  <2> QED BY <2>1, <2>2
<1> DEFINE T == {i \in 0..n : iter[1..i] \in V}
<1>9. 0 \in T
  BY <1>1, <1>3, <1>8, InitialSegments
<1>10. ASSUME NEW i \in 1..n, i - 1 \in T PROVE i \in T
  <2> HIDE DEF Put
  <2> QED BY <1>1, <1>2, <1>8, <1>10
<1>11. n \in T
  <2> HIDE DEF T
  <2>1. \A i \in 0..n : i \in T
    BY <1>1, <1>9, <1>10, UpTo
  <2> QED BY <1>1, <2>1
<1> QED BY <1>7, <1>11 DEF V

-----------------------------------------------------------------------------
(* The names of an entry, and of the further entries of its certificate.   *)
NamesOf(R) == {Classified(raw) : raw \in R}
NamesRead(R) == [names : Seq(NamesOf(R)), emails : Nat, dropped : Nat]
NamesMerged(N) == [names : Seq(N), dropped : Nat]
NoNames == [names |-> <<>>, emails |-> 0, dropped |-> 0]
MergedNames(first, names) == FoldLeft(MergeName, first, names)

LEMMA Appended ==
  ASSUME NEW S, NEW seq \in Seq(S), NEW x \in S
  PROVE  /\ Append(seq, x) \in Seq(S)
         /\ Distinct(Append(seq, x)) = Distinct(seq) \cup {x}
<1>1. /\ Append(seq, x) \in Seq(S) /\ Len(Append(seq, x)) = Len(seq) + 1
      /\ \A i \in 1..Len(seq) : Append(seq, x)[i] = seq[i]
      /\ Append(seq, x)[Len(seq) + 1] = x
  BY AppendProperties
<1>2. Len(seq) \in Nat /\ DOMAIN seq = 1..Len(seq)
      /\ DOMAIN Append(seq, x) = 1..(Len(seq) + 1)
  BY <1>1, LenProperties
<1>3. 1..(Len(seq) + 1) = 1..Len(seq) \cup {Len(seq) + 1}
  BY <1>2
<1> QED BY <1>1, <1>2, <1>3 DEF Distinct

(* A name is there, an address of mail, or dropped. *)
LEMMA AddNameIs ==
  ASSUME MaxNames \in Nat, NEW R, NEW raw \in R, NEW kept \in NamesRead(R)
  PROVE  LET more == AddName(kept, raw) IN
         /\ more \in NamesRead(R)
         /\ Distinct(kept.names) \subseteq Distinct(more.names)
         /\ more.dropped = 0 => kept.dropped = 0
         /\ more.dropped = 0 /\ raw.form # "email" =>
              Classified(raw) \in Distinct(more.names)
<1> DEFINE name == Classified(raw)
           more == AddName(kept, raw)
<1>1. name \in NamesOf(R)
  BY DEF NamesOf
<1>2. /\ kept.names \in Seq(NamesOf(R)) /\ kept.emails \in Nat /\ kept.dropped \in Nat
  BY DEF NamesRead
<1>3. more = IF raw.form = "email" THEN [kept EXCEPT !.emails = @ + 1]
             ELSE IF name \in Distinct(kept.names) THEN kept
             ELSE IF Len(kept.names) >= MaxNames THEN [kept EXCEPT !.dropped = @ + 1]
             ELSE [kept EXCEPT !.names = Append(@, name)]
  BY DEF AddName
<1>4. /\ Append(kept.names, name) \in Seq(NamesOf(R))
      /\ Distinct(Append(kept.names, name)) = Distinct(kept.names) \cup {name}
  BY <1>1, <1>2, Appended
<1> HIDE DEF name, more
<1>5. CASE raw.form = "email"
  <2>1. more = [kept EXCEPT !.emails = @ + 1]
    BY <1>3, <1>5
  <2>2. more \in NamesRead(R) /\ more.names = kept.names /\ more.dropped = kept.dropped
    BY <1>2, <2>1 DEF NamesRead
  <2> QED BY <1>5, <2>2 DEF more
<1>6. CASE raw.form # "email" /\ name \in Distinct(kept.names)
  <2>1. more = kept
    BY <1>3, <1>6
  <2> QED BY <1>6, <2>1 DEF more, name
<1>7. CASE /\ raw.form # "email" /\ name \notin Distinct(kept.names)
           /\ Len(kept.names) >= MaxNames
  <2>1. more = [kept EXCEPT !.dropped = @ + 1]
    BY <1>3, <1>7
  <2>2. more \in NamesRead(R) /\ more.names = kept.names /\ more.dropped = kept.dropped + 1
    BY <1>2, <2>1 DEF NamesRead
  <2>3. more.dropped # 0
    BY <1>2, <2>2
  <2> QED BY <2>2, <2>3 DEF more
<1>8. CASE /\ raw.form # "email" /\ name \notin Distinct(kept.names)
           /\ ~(Len(kept.names) >= MaxNames)
  <2>1. more = [kept EXCEPT !.names = Append(@, name)]
    BY <1>3, <1>8
  <2>2. /\ more \in NamesRead(R) /\ more.names = Append(kept.names, name)
        /\ more.dropped = kept.dropped
    BY <1>2, <1>4, <2>1 DEF NamesRead
  <2> QED BY <1>4, <2>2 DEF more, name
<1> QED BY <1>5, <1>6, <1>7, <1>8

LEMMA MergeNameIs ==
  ASSUME MaxNames \in Nat, NEW N, NEW name \in N, NEW kept \in NamesMerged(N)
  PROVE  LET more == MergeName(kept, name) IN
         /\ more \in NamesMerged(N)
         /\ Distinct(kept.names) \subseteq Distinct(more.names)
         /\ more.dropped = 0 => kept.dropped = 0 /\ name \in Distinct(more.names)
<1> DEFINE more == MergeName(kept, name)
<1>1. kept.names \in Seq(N) /\ kept.dropped \in Nat
  BY DEF NamesMerged
<1>2. more = IF Len(kept.names) >= MaxNames THEN [kept EXCEPT !.dropped = @ + 1]
             ELSE IF name \in Distinct(kept.names) THEN kept
             ELSE [kept EXCEPT !.names = Append(@, name)]
  BY DEF MergeName
<1>3. /\ Append(kept.names, name) \in Seq(N)
      /\ Distinct(Append(kept.names, name)) = Distinct(kept.names) \cup {name}
  BY <1>1, Appended
<1> HIDE DEF more
<1>4. CASE Len(kept.names) >= MaxNames
  <2>1. more = [kept EXCEPT !.dropped = @ + 1]
    BY <1>2, <1>4
  <2>2. more \in NamesMerged(N) /\ more.names = kept.names /\ more.dropped = kept.dropped + 1
    BY <1>1, <2>1 DEF NamesMerged
  <2>3. more.dropped # 0
    BY <1>1, <2>2
  <2> QED BY <2>2, <2>3 DEF more
<1>5. CASE ~(Len(kept.names) >= MaxNames) /\ name \in Distinct(kept.names)
  <2>1. more = kept
    BY <1>2, <1>5
  <2> QED BY <1>5, <2>1 DEF more
<1>6. CASE ~(Len(kept.names) >= MaxNames) /\ name \notin Distinct(kept.names)
  <2>1. more = [kept EXCEPT !.names = Append(@, name)]
    BY <1>2, <1>6
  <2>2. /\ more \in NamesMerged(N) /\ more.names = Append(kept.names, name)
        /\ more.dropped = kept.dropped
    BY <1>1, <1>3, <2>1 DEF NamesMerged
  <2> QED BY <1>3, <2>2 DEF more
<1> QED BY <1>4, <1>5, <1>6

(* The names are added one by one.                                          *)
LEMMA NamesSteps ==
  ASSUME MaxNames \in Nat, NEW R, NEW raws \in Seq(R)
  PROVE  \E g \in [0..Len(raws) -> NamesRead(R)] :
           /\ g[0] = NoNames
           /\ \A i \in 1..Len(raws) : g[i] = AddName(g[i - 1], raws[i])
           /\ ClassifiedNames(raws) = g[Len(raws)]
<1> DEFINE n == Len(raws)
           V == NamesRead(R)
           base == NoNames
           step == [i \in 1..n |-> [kept \in V |-> AddName(kept, raws[i])]]
           IsFold(f) ==
             f = [s \in SUBSET (1..n) |->
                    IF s = {} THEN base
                    ELSE AddName(f[s \ {Max(s)}], raws[Max(s)])]
<1>1. n \in Nat /\ DOMAIN raws = 1..n /\ \A i \in 1..n : raws[i] \in R
  BY LenProperties, ElementOfSeq
<1> HIDE DEF n
<1>2. ASSUME NEW i \in 1..n, NEW kept \in V
      PROVE  AddName(kept, raws[i]) \in V
  BY <1>1, AddNameIs
<1>3. base \in V
  BY DEF NamesRead, NoNames
<1> HIDE DEF V, base
<1>4. PICK f \in [SUBSET (1..n) -> V] : IsFolded(f, n, V, base, step)
  <2>1. step \in [1..n -> [V -> V]]
    BY <1>2
  <2> HIDE DEF step
  <2> QED BY <1>1, <1>3, <2>1, FoldExists
<1>5. IsFold(f)
  <2>1. ASSUME NEW s \in SUBSET (1..n), s # {}
        PROVE  f[s] = AddName(f[s \ {Max(s)}], raws[Max(s)])
    BY <1>4, <2>1 DEF IsFolded
  <2> QED BY <1>4, <2>1 DEF IsFolded
<1> DEFINE iter == CHOOSE h : IsFold(h)
<1>6. IsFold(iter)
  <2> HIDE DEF IsFold
  <2> QED BY <1>5
<1>7. ClassifiedNames(raws) = iter[1..n]
  BY <1>1 DEF ClassifiedNames, NoNames, FoldLeft, MapThenFoldSet, base
<1> HIDE DEF iter
<1> DEFINE g == [i \in 0..n |-> iter[1..i]]
<1>8. ASSUME NEW i \in 1..n
      PROVE  g[i] = AddName(g[i - 1], raws[i])
  <2>1. /\ 1..i \in SUBSET (1..n) /\ 1..i # {}
        /\ Max(1..i) = i /\ (1..i) \ {i} = 1..(i - 1)
    BY <1>1, InitialSegments
  <2> DEFINE s == 1..i
  <2>2. iter[s] = AddName(iter[s \ {Max(s)}], raws[Max(s)])
    <3>1. s \in SUBSET (1..n) /\ s # {}
      BY <2>1
    <3> HIDE DEF s
    <3> QED BY <1>6, <3>1
  <2>3. i \in 0..n /\ i - 1 \in 0..n
    BY <1>1
  <2> QED BY <2>1, <2>2, <2>3
<1>9. 0 \in 0..n /\ n \in 0..n /\ g[0] = base /\ g[n] = iter[1..n]
  <2>1. 0 \in 0..n /\ n \in 0..n
    BY <1>1
  <2>2. iter[{}] = base
    BY <1>6
  <2> QED BY <1>1, <2>1, <2>2, InitialSegments
<1> DEFINE T == {i \in 0..n : g[i] \in V}
<1> HIDE DEF g
<1>10. \A i \in 0..n : i \in T
  <2>1. 0 \in T
    BY <1>3, <1>9
  <2>2. ASSUME NEW i \in 1..n, i - 1 \in T PROVE i \in T
    <3>1. i \in 0..n
      BY <1>1
    <3> QED BY <1>2, <1>8, <2>2, <3>1
  <2> HIDE DEF T
  <2> QED BY <1>1, <2>1, <2>2, UpTo
<1>11. g \in [0..n -> V]
  <2>1. \A i \in 0..n : g[i] \in V
    BY <1>10
  <2> QED BY <2>1 DEF g
<1>12. g[0] = base /\ ClassifiedNames(raws) = g[n]
  BY <1>7, <1>9
<1>13. \A i \in 1..n : g[i] = AddName(g[i - 1], raws[i])
  BY <1>8
<1> QED BY <1>11, <1>12, <1>13 DEF n, V, base

(* Those of a further entry, too.                                           *)
LEMMA MergeSteps ==
  ASSUME MaxNames \in Nat, NEW N, NEW first \in NamesMerged(N), NEW names \in Seq(N)
  PROVE  \E g \in [0..Len(names) -> NamesMerged(N)] :
           /\ g[0] = first
           /\ \A i \in 1..Len(names) : g[i] = MergeName(g[i - 1], names[i])
           /\ MergedNames(first, names) = g[Len(names)]
<1> DEFINE n == Len(names)
           V == NamesMerged(N)
           base == first
           step == [i \in 1..n |-> [kept \in V |-> MergeName(kept, names[i])]]
           IsFold(f) ==
             f = [s \in SUBSET (1..n) |->
                    IF s = {} THEN base
                    ELSE MergeName(f[s \ {Max(s)}], names[Max(s)])]
<1>1. n \in Nat /\ DOMAIN names = 1..n /\ \A i \in 1..n : names[i] \in N
  BY LenProperties, ElementOfSeq
<1> HIDE DEF n
<1>2. ASSUME NEW i \in 1..n, NEW kept \in V
      PROVE  MergeName(kept, names[i]) \in V
  BY <1>1, MergeNameIs
<1>3. base \in V
  OBVIOUS
<1> HIDE DEF V, base
<1>4. PICK f \in [SUBSET (1..n) -> V] : IsFolded(f, n, V, base, step)
  <2>1. step \in [1..n -> [V -> V]]
    BY <1>2
  <2> HIDE DEF step
  <2> QED BY <1>1, <1>3, <2>1, FoldExists
<1>5. IsFold(f)
  <2>1. ASSUME NEW s \in SUBSET (1..n), s # {}
        PROVE  f[s] = MergeName(f[s \ {Max(s)}], names[Max(s)])
    BY <1>4, <2>1 DEF IsFolded
  <2> QED BY <1>4, <2>1 DEF IsFolded
<1> DEFINE iter == CHOOSE h : IsFold(h)
<1>6. IsFold(iter)
  <2> HIDE DEF IsFold
  <2> QED BY <1>5
<1>7. MergedNames(first, names) = iter[1..n]
  BY <1>1 DEF MergedNames, FoldLeft, MapThenFoldSet, base
<1> HIDE DEF iter
<1> DEFINE g == [i \in 0..n |-> iter[1..i]]
<1>8. ASSUME NEW i \in 1..n
      PROVE  g[i] = MergeName(g[i - 1], names[i])
  <2>1. /\ 1..i \in SUBSET (1..n) /\ 1..i # {}
        /\ Max(1..i) = i /\ (1..i) \ {i} = 1..(i - 1)
    BY <1>1, InitialSegments
  <2> DEFINE s == 1..i
  <2>2. iter[s] = MergeName(iter[s \ {Max(s)}], names[Max(s)])
    <3>1. s \in SUBSET (1..n) /\ s # {}
      BY <2>1
    <3> HIDE DEF s
    <3> QED BY <1>6, <3>1
  <2>3. i \in 0..n /\ i - 1 \in 0..n
    BY <1>1
  <2> QED BY <2>1, <2>2, <2>3
<1>9. 0 \in 0..n /\ n \in 0..n /\ g[0] = base /\ g[n] = iter[1..n]
  <2>1. 0 \in 0..n /\ n \in 0..n
    BY <1>1
  <2>2. iter[{}] = base
    BY <1>6
  <2> QED BY <1>1, <2>1, <2>2, InitialSegments
<1> DEFINE T == {i \in 0..n : g[i] \in V}
<1> HIDE DEF g
<1>10. \A i \in 0..n : i \in T
  <2>1. 0 \in T
    BY <1>3, <1>9
  <2>2. ASSUME NEW i \in 1..n, i - 1 \in T PROVE i \in T
    <3>1. i \in 0..n
      BY <1>1
    <3> QED BY <1>2, <1>8, <2>2, <3>1
  <2> HIDE DEF T
  <2> QED BY <1>1, <2>1, <2>2, UpTo
<1>11. g \in [0..n -> V]
  <2>1. \A i \in 0..n : g[i] \in V
    BY <1>10
  <2> QED BY <2>1 DEF g
<1>12. g[0] = base /\ MergedNames(first, names) = g[n]
  BY <1>7, <1>9
<1>13. \A i \in 1..n : g[i] = MergeName(g[i - 1], names[i])
  BY <1>8
<1> QED BY <1>11, <1>12, <1>13 DEF n, V, base

(* What is not dropped is there. *)
LEMMA NamesAre ==
  ASSUME MaxNames \in Nat, NEW R, NEW raws \in Seq(R)
  PROVE  LET read == ClassifiedNames(raws) IN
         /\ read \in NamesRead(R)
         /\ read.dropped = 0 => \A raw \in Distinct(raws) :
              raw.form # "email" => Classified(raw) \in Distinct(read.names)
<1> DEFINE n == Len(raws)
<1>1. n \in Nat /\ DOMAIN raws = 1..n /\ \A i \in 1..n : raws[i] \in R
  BY LenProperties, ElementOfSeq
<1>2. PICK g \in [0..n -> NamesRead(R)] :
        /\ g[0] = NoNames
        /\ \A i \in 1..n : g[i] = AddName(g[i - 1], raws[i])
        /\ ClassifiedNames(raws) = g[n]
  BY NamesSteps
<1> HIDE DEF n
<1> DEFINE There(i) == \A j \in 1..i : raws[j].form # "email" =>
                          Classified(raws[j]) \in Distinct(g[i].names)
           T == {i \in 0..n : g[i].dropped = 0 => There(i)}
<1>3. 0 \in T
  BY <1>1
<1>4. ASSUME NEW i \in 1..n, i - 1 \in T PROVE i \in T
  <2>1. i \in 0..n /\ i - 1 \in 0..n /\ raws[i] \in R /\ g[i - 1] \in NamesRead(R)
    BY <1>1, <1>2
  <2>2. /\ Distinct(g[i - 1].names) \subseteq Distinct(g[i].names)
        /\ g[i].dropped = 0 => g[i - 1].dropped = 0
        /\ g[i].dropped = 0 /\ raws[i].form # "email" =>
             Classified(raws[i]) \in Distinct(g[i].names)
    BY <1>2, <2>1, AddNameIs, ZenonT(40)
  <2>3. ASSUME g[i].dropped = 0 PROVE There(i)
    <3>1. There(i - 1)
      BY <1>4, <2>2, <2>3
    <3>2. \A j \in 1..i : j = i \/ j \in 1..(i - 1)
      BY <1>1
    <3> QED BY <2>2, <2>3, <3>1, <3>2
  <2> QED BY <2>1, <2>3
<1>5. n \in T
  <2> HIDE DEF T
  <2>1. \A i \in 0..n : i \in T
    BY <1>1, <1>3, <1>4, UpTo
  <2> QED BY <1>1, <2>1
<1>6. n \in 0..n
  BY <1>1
<1> QED BY <1>1, <1>2, <1>5, <1>6 DEF Distinct

LEMMA MergedNamesAre ==
  ASSUME MaxNames \in Nat, NEW N, NEW first \in NamesMerged(N), NEW names \in Seq(N)
  PROVE  LET merged == MergedNames(first, names) IN
         /\ merged \in NamesMerged(N)
         /\ Distinct(first.names) \subseteq Distinct(merged.names)
         /\ merged.dropped = 0 => Distinct(names) \subseteq Distinct(merged.names)
<1> DEFINE n == Len(names)
<1>1. n \in Nat /\ DOMAIN names = 1..n /\ \A i \in 1..n : names[i] \in N
  BY LenProperties, ElementOfSeq
<1>2. PICK g \in [0..n -> NamesMerged(N)] :
        /\ g[0] = first
        /\ \A i \in 1..n : g[i] = MergeName(g[i - 1], names[i])
        /\ MergedNames(first, names) = g[n]
  BY MergeSteps
<1> HIDE DEF n
<1> DEFINE There(i) ==
             /\ Distinct(first.names) \subseteq Distinct(g[i].names)
             /\ g[i].dropped = 0 => \A j \in 1..i : names[j] \in Distinct(g[i].names)
           T == {i \in 0..n : There(i)}
<1>3. 0 \in T
  BY <1>1, <1>2
<1>4. ASSUME NEW i \in 1..n, i - 1 \in T PROVE i \in T
  <2>1. i \in 0..n /\ i - 1 \in 0..n /\ names[i] \in N /\ g[i - 1] \in NamesMerged(N)
    BY <1>1, <1>2
  <2>2. /\ Distinct(g[i - 1].names) \subseteq Distinct(g[i].names)
        /\ g[i].dropped = 0 =>
             g[i - 1].dropped = 0 /\ names[i] \in Distinct(g[i].names)
    BY <1>2, <2>1, MergeNameIs, ZenonT(40)
  <2>3. \A j \in 1..i : j = i \/ j \in 1..(i - 1)
    BY <1>1
  <2> QED BY <1>4, <2>1, <2>2, <2>3
<1>5. n \in T
  <2> HIDE DEF T
  <2>1. \A i \in 0..n : i \in T
    BY <1>1, <1>3, <1>4, UpTo
  <2> QED BY <1>1, <2>1
<1>6. n \in 0..n /\ There(n)
  BY <1>1, <1>5
<1>7. /\ g[n].dropped = 0 => Distinct(names) \subseteq Distinct(g[n].names)
      /\ Distinct(first.names) \subseteq Distinct(g[n].names)
  <2>1. Distinct(names) = {names[j] : j \in 1..n}
    BY <1>1 DEF Distinct
  <2> QED BY <1>6, <2>1
<1>8. g[n] \in NamesMerged(N)
  BY <1>2, <1>6
<1> QED BY <1>2, <1>7, <1>8

-----------------------------------------------------------------------------
(* The certificates of the entries E, whose names are among R.             *)
IssuesOf(E) ==
  (UNION {entry.issues : entry \in E})
    \cup {<<"names", "too many">>, <<"names", "not valid">>}

CertificatesOf(E, R) ==
  {certificate \in [entry : E, names : Seq(NamesOf(R)), emails : Nat,
                    source_entries : Nat, issues : SUBSET IssuesOf(E)] :
     certificate.entry.issues \subseteq certificate.issues}

Building(E, R) == [certificates : Seq(CertificatesOf(E, R)), dropped : Nat]

(* The names of an entry are in a certificate. *)
ListedIn(entry, certificate) ==
  \A raw \in Distinct(entry.names) :
    raw.form # "email" => Classified(raw) \in Distinct(certificate.names)

SameIn(built, entry) ==
  {i \in DOMAIN built.certificates : SameKey(built.certificates[i].entry, entry)}

(* What was built stays, and an entry is added to one of its certificates, *)
(* or is the first of a new one.                                           *)
Grown(built, more, entry) ==
  /\ more.dropped = 0 => built.dropped = 0
  /\ \A p \in DOMAIN built.certificates :
       /\ p \in DOMAIN more.certificates
       /\ more.certificates[p].entry = built.certificates[p].entry
       /\ Distinct(built.certificates[p].names) \subseteq Distinct(more.certificates[p].names)
  /\ \A p \in DOMAIN more.certificates :
       \/ p \in DOMAIN built.certificates
       \/ SameIn(built, entry) = {} /\ more.certificates[p].entry = entry
  /\ \E p \in DOMAIN more.certificates :
       /\ more.dropped = 0 => ListedIn(entry, more.certificates[p])
       /\ IF SameIn(built, entry) = {} THEN more.certificates[p].entry = entry
          ELSE p \in SameIn(built, entry)

LEMMA AddEntryIs ==
  ASSUME MaxNames \in Nat, NEW R, NEW E, NEW entry \in E, entry.names \in Seq(R),
         NEW built \in Building(E, R)
  PROVE  /\ AddEntry(built, entry) \in Building(E, R)
         /\ Grown(built, AddEntry(built, entry), entry)
<1> DEFINE read == ClassifiedNames(entry.names)
           same == SameIn(built, entry)
           place == CHOOSE i \in same : TRUE
           old == built.certificates[place]
           first == [names |-> old.names, dropped |-> 0]
           merged == MergedNames(first, read.names)
           certificate == Certificate(entry, read)
           more == AddEntry(built, entry)
           C == CertificatesOf(E, R)
<1>1. /\ read \in NamesRead(R)
      /\ read.names \in Seq(NamesOf(R)) /\ read.emails \in Nat /\ read.dropped \in Nat
      /\ read.dropped = 0 => \A raw \in Distinct(entry.names) :
           raw.form # "email" => Classified(raw) \in Distinct(read.names)
  BY NamesAre DEF NamesRead
<1>2. built.certificates \in Seq(C) /\ built.dropped \in Nat
  BY DEF Building
<1>3. more = IF same = {}
             THEN [certificates |-> Append(built.certificates, certificate),
                   dropped |-> built.dropped + read.dropped]
             ELSE [certificates |->
                     [built.certificates EXCEPT ![place].source_entries = @ + 1,
                                                ![place].names = merged.names],
                   dropped |-> built.dropped + read.dropped + merged.dropped]
  BY DEF AddEntry, SameIn, MergedNames
<1> HIDE DEF read, more
<1>4. CASE same = {}
  <2>1. /\ more.certificates = Append(built.certificates, certificate)
        /\ more.dropped = built.dropped + read.dropped
        /\ more = [certificates |-> more.certificates, dropped |-> more.dropped]
    BY <1>3, <1>4
  <2>2. certificate \in C /\ certificate.entry = entry /\ certificate.names = read.names
    <3>1. certificate.issues \subseteq IssuesOf(E)
      <4>1. entry.issues \subseteq UNION {e.issues : e \in E}
        OBVIOUS
      <4> DEFINE a == {<<"names", "too many">> : i \in 1..read.dropped}
                 b == {<<"names", "not valid">> :
                         n \in {m \in Distinct(read.names) : m.relation = "invalid"}}
      <4>2. a \subseteq {<<"names", "too many">>} /\ b \subseteq {<<"names", "not valid">>}
        OBVIOUS
      <4>3. certificate.issues = entry.issues \cup a \cup b
        BY DEF Certificate
      <4> HIDE DEF a, b, certificate
      <4>4. IssuesOf(E) = (UNION {e.issues : e \in E})
                            \cup {<<"names", "too many">>} \cup {<<"names", "not valid">>}
        BY DEF IssuesOf
      <4> HIDE DEF IssuesOf
      <4> QED BY <4>1, <4>2, <4>3, <4>4
    <3> QED BY <1>1, <3>1 DEF Certificate, CertificatesOf
  <2> HIDE DEF certificate, C
  <2>3. /\ more.certificates \in Seq(C)
        /\ Len(more.certificates) = Len(built.certificates) + 1
        /\ \A p \in 1..Len(built.certificates) :
             more.certificates[p] = built.certificates[p]
        /\ more.certificates[Len(built.certificates) + 1] = certificate
    BY <1>2, <2>1, <2>2, AppendProperties
  <2> DEFINE last == Len(built.certificates) + 1
  <2>4. /\ DOMAIN built.certificates = 1..Len(built.certificates)
        /\ DOMAIN more.certificates = 1..last
        /\ Len(built.certificates) \in Nat
    BY <1>2, <2>3, LenProperties
  <2>5. /\ last \in 1..last
        /\ \A p \in 1..Len(built.certificates) : p \in 1..last
        /\ \A p \in 1..last : p \in 1..Len(built.certificates) \/ p = last
    BY <2>4
  <2>6. more \in Building(E, R)
    <3>1. more.dropped \in Nat
      BY <1>1, <1>2, <2>1
    <3> QED BY <2>1, <2>3, <3>1 DEF Building, C
  <2>7. more.dropped = 0 => built.dropped = 0 /\ read.dropped = 0
    BY <1>1, <1>2, <2>1
  <2>8. more.dropped = 0 => ListedIn(entry, certificate)
    BY <1>1, <2>2, <2>7 DEF ListedIn
  <2>9. Grown(built, more, entry)
    <3>1. \A p \in DOMAIN built.certificates :
            /\ p \in DOMAIN more.certificates
            /\ more.certificates[p].entry = built.certificates[p].entry
            /\ Distinct(built.certificates[p].names) \subseteq Distinct(more.certificates[p].names)
      BY <2>3, <2>4, <2>5
    <3>2. \A p \in DOMAIN more.certificates :
            \/ p \in DOMAIN built.certificates
            \/ SameIn(built, entry) = {} /\ more.certificates[p].entry = entry
      BY <1>4, <2>2, <2>3, <2>4, <2>5
    <3>3. /\ last \in DOMAIN more.certificates
          /\ more.dropped = 0 => ListedIn(entry, more.certificates[last])
          /\ more.certificates[last].entry = entry
      BY <2>2, <2>3, <2>4, <2>5, <2>8
    <3> HIDE DEF last
    <3> QED BY <1>4, <2>7, <3>1, <3>2, <3>3 DEF Grown
  <2> QED BY <2>6, <2>9 DEF more
<1>5. CASE same # {}
  <2>1. place \in same /\ place \in DOMAIN built.certificates
    BY <1>5 DEF SameIn
  <2>2. old \in C
    BY <1>2, <2>1, LenProperties, ElementOfSeq
  <2>3. /\ old.names \in Seq(NamesOf(R)) /\ old.source_entries \in Nat
        /\ DOMAIN old = {"entry", "names", "emails", "source_entries", "issues"}
        /\ old.entry \in E /\ old.emails \in Nat /\ old.issues \in SUBSET IssuesOf(E)
    BY <2>2 DEF CertificatesOf
  <2>4. first \in NamesMerged(NamesOf(R)) /\ first.names = old.names
    BY <2>3 DEF NamesMerged
  <2> HIDE DEF first
  <2>5. /\ merged \in NamesMerged(NamesOf(R))
        /\ Distinct(old.names) \subseteq Distinct(merged.names)
        /\ merged.dropped = 0 => Distinct(read.names) \subseteq Distinct(merged.names)
    BY <1>1, <2>4, MergedNamesAre
  <2>6. merged.names \in Seq(NamesOf(R)) /\ merged.dropped \in Nat
    BY <2>5 DEF NamesMerged
  <2>7. /\ more.certificates =
             [built.certificates EXCEPT ![place].source_entries = @ + 1,
                                        ![place].names = merged.names]
        /\ more.dropped = built.dropped + read.dropped + merged.dropped
        /\ more = [certificates |-> more.certificates, dropped |-> more.dropped]
    BY <1>3, <1>5
  <2> HIDE DEF merged, place
  <2> DEFINE new == [old EXCEPT !.source_entries = @ + 1, !.names = merged.names]
  <2>8. more.certificates = [built.certificates EXCEPT ![place] = new]
    BY <2>1, <2>7
  <2>9. new \in C /\ new.entry = old.entry /\ new.names = merged.names
    <3> DEFINE counted == [old EXCEPT !.source_entries = @ + 1]
    <3>1. counted \in C /\ counted.entry = old.entry
      <4> HIDE DEF old
      <4> QED BY <2>2, <2>3, SMTT(30) DEF CertificatesOf
    <3>2. new = [counted EXCEPT !.names = merged.names]
      OBVIOUS
    <3> HIDE DEF counted, new
    <3>3. new \in C /\ new.entry = counted.entry /\ new.names = merged.names
      BY <2>6, <3>1, <3>2 DEF CertificatesOf
    <3> QED BY <3>1, <3>3
  <2> HIDE DEF new, C, old
  <2>10. /\ more.certificates \in Seq(C)
         /\ DOMAIN more.certificates = DOMAIN built.certificates
         /\ more.certificates[place] = new
         /\ \A p \in DOMAIN built.certificates : p # place =>
              more.certificates[p] = built.certificates[p]
    BY <1>2, <2>1, <2>8, <2>9, ExceptSeq
  <2>11. more \in Building(E, R)
    <3>1. more.dropped \in Nat
      BY <1>1, <1>2, <2>6, <2>7
    <3> QED BY <2>7, <2>10, <3>1 DEF Building, C
  <2>12. more.dropped = 0 => built.dropped = 0 /\ read.dropped = 0 /\ merged.dropped = 0
    BY <1>1, <1>2, <2>6, <2>7
  <2>13. more.dropped = 0 => ListedIn(entry, new)
    BY <1>1, <2>5, <2>9, <2>12 DEF ListedIn
  <2>14. Grown(built, more, entry)
    <3>1. ASSUME NEW p \in DOMAIN built.certificates
          PROVE  /\ p \in DOMAIN more.certificates
                 /\ more.certificates[p].entry = built.certificates[p].entry
                 /\ Distinct(built.certificates[p].names)
                      \subseteq Distinct(more.certificates[p].names)
      BY <2>5, <2>9, <2>10 DEF old
    <3> QED BY <1>5, <2>1, <2>10, <2>12, <2>13, <3>1 DEF Grown
  <2> QED BY <2>11, <2>14 DEF more
<1> QED BY <1>4, <1>5

(* The entries are added one by one.                                        *)
LEMMA EntriesSteps ==
  ASSUME MaxNames \in Nat, NEW R, NEW E, \A e \in E : e.names \in Seq(R),
         NEW entries \in Seq(E)
  PROVE  \E g \in [0..Len(entries) -> Building(E, R)] :
           /\ g[0] = [certificates |-> <<>>, dropped |-> 0]
           /\ \A i \in 1..Len(entries) : g[i] = AddEntry(g[i - 1], entries[i])
           /\ Merged(entries) = g[Len(entries)]
<1> DEFINE n == Len(entries)
           V == Building(E, R)
           base == [certificates |-> <<>>, dropped |-> 0]
           step == [i \in 1..n |-> [kept \in V |-> AddEntry(kept, entries[i])]]
           IsFold(f) ==
             f = [s \in SUBSET (1..n) |->
                    IF s = {} THEN base
                    ELSE AddEntry(f[s \ {Max(s)}], entries[Max(s)])]
<1>1. n \in Nat /\ DOMAIN entries = 1..n /\ \A i \in 1..n : entries[i] \in E
  BY LenProperties, ElementOfSeq
<1> HIDE DEF n
<1>2. ASSUME NEW i \in 1..n, NEW kept \in V
      PROVE  AddEntry(kept, entries[i]) \in V
  BY <1>1, AddEntryIs
<1>3. base \in V
  BY DEF Building
<1> HIDE DEF V, base
<1>4. PICK f \in [SUBSET (1..n) -> V] : IsFolded(f, n, V, base, step)
  <2>1. step \in [1..n -> [V -> V]]
    BY <1>2
  <2> HIDE DEF step
  <2> QED BY <1>1, <1>3, <2>1, FoldExists
<1>5. IsFold(f)
  <2>1. ASSUME NEW s \in SUBSET (1..n), s # {}
        PROVE  f[s] = AddEntry(f[s \ {Max(s)}], entries[Max(s)])
    BY <1>4, <2>1 DEF IsFolded
  <2> QED BY <1>4, <2>1 DEF IsFolded
<1> DEFINE iter == CHOOSE h : IsFold(h)
<1>6. IsFold(iter)
  <2> HIDE DEF IsFold
  <2> QED BY <1>5
<1>7. Merged(entries) = iter[1..n]
  BY <1>1 DEF Merged, FoldLeft, MapThenFoldSet, base
<1> HIDE DEF iter
<1> DEFINE g == [i \in 0..n |-> iter[1..i]]
<1>8. ASSUME NEW i \in 1..n
      PROVE  g[i] = AddEntry(g[i - 1], entries[i])
  <2>1. /\ 1..i \in SUBSET (1..n) /\ 1..i # {}
        /\ Max(1..i) = i /\ (1..i) \ {i} = 1..(i - 1)
    BY <1>1, InitialSegments
  <2> DEFINE s == 1..i
  <2>2. iter[s] = AddEntry(iter[s \ {Max(s)}], entries[Max(s)])
    <3>1. s \in SUBSET (1..n) /\ s # {}
      BY <2>1
    <3> HIDE DEF s
    <3> QED BY <1>6, <3>1
  <2>3. i \in 0..n /\ i - 1 \in 0..n
    BY <1>1
  <2> QED BY <2>1, <2>2, <2>3
<1>9. 0 \in 0..n /\ n \in 0..n /\ g[0] = base /\ g[n] = iter[1..n]
  <2>1. 0 \in 0..n /\ n \in 0..n
    BY <1>1
  <2>2. iter[{}] = base
    BY <1>6
  <2> QED BY <1>1, <2>1, <2>2, InitialSegments
<1> DEFINE T == {i \in 0..n : g[i] \in V}
<1> HIDE DEF g
<1>10. \A i \in 0..n : i \in T
  <2>1. 0 \in T
    BY <1>3, <1>9
  <2>2. ASSUME NEW i \in 1..n, i - 1 \in T PROVE i \in T
    <3>1. i \in 0..n
      BY <1>1
    <3> QED BY <1>2, <1>8, <2>2, <3>1
  <2> HIDE DEF T
  <2> QED BY <1>1, <2>1, <2>2, UpTo
<1>11. g \in [0..n -> V]
  <2>1. \A i \in 0..n : g[i] \in V
    BY <1>10
  <2> QED BY <2>1 DEF g
<1>12. g[0] = base /\ Merged(entries) = g[n]
  BY <1>7, <1>9
<1>13. \A i \in 1..n : g[i] = AddEntry(g[i - 1], entries[i])
  BY <1>8
<1> QED BY <1>11, <1>12, <1>13 DEF n, V, base

-----------------------------------------------------------------------------
(* The first of the entries that are one certificate with the one at i.    *)
Same(entries, i) == {j \in DOMAIN entries : SameKey(entries[j], entries[i])}

FirstAt(entries, i) ==
  IF Same(entries, i) = {} THEN entries[i]
  ELSE entries[CHOOSE j \in Same(entries, i) : \A k \in Same(entries, i) : j <= k]

LEMMA SameKeyIs ==
  /\ \A e, f : SameKey(e, f) => SameKey(f, e) /\ SameKey(e, e) /\ SameKey(f, f)
  /\ \A e, f, g : SameKey(e, f) /\ SameKey(f, g) => SameKey(e, g)
BY DEF SameKey

LEMMA FirstIs ==
  ASSUME NEW E, NEW entries \in Seq(E), NEW i \in DOMAIN entries
  PROVE  \E j \in 1..i :
           /\ FirstAt(entries, i) = entries[j]
           /\ SameKey(entries[j], entries[i]) \/ entries[j] = entries[i]
           /\ FirstAt(entries, j) = entries[j]
           /\ \A k \in 1..Len(entries) : SameKey(entries[k], entries[i]) => j <= k
<1>1. DOMAIN entries = 1..Len(entries) /\ Len(entries) \in Nat
  BY LenProperties
<1>2. CASE Same(entries, i) = {}
  <2>1. FirstAt(entries, i) = entries[i]
    BY <1>2 DEF FirstAt
  <2>2. \A k \in 1..Len(entries) : ~SameKey(entries[k], entries[i])
    BY <1>1, <1>2 DEF Same
  <2> QED BY <1>1, <2>1, <2>2
<1>3. CASE Same(entries, i) # {}
  <2> DEFINE same == Same(entries, i)
             j == CHOOSE x \in same : \A k \in same : x <= k
  <2>1. same \in SUBSET Nat /\ same # {}
    BY <1>1, <1>3 DEF Same
  <2>2. j \in same /\ \A k \in same : j <= k
    <3>1. \E x \in same : \A k \in same : x <= k
      <4> HIDE DEF same
      <4> QED BY <2>1, LeastNumber
    <3> HIDE DEF same
    <3> QED BY <3>1
  <2>3. FirstAt(entries, i) = entries[j]
    BY <1>3 DEF FirstAt
  <2> HIDE DEF j
  <2>4. j \in 1..Len(entries) /\ SameKey(entries[j], entries[i])
    BY <1>1, <2>2 DEF Same
  <2>5. SameKey(entries[i], entries[i])
    BY <2>4, SameKeyIs
  <2>6. i \in same
    BY <2>5 DEF Same
  <2>7. j \in 1..i
    BY <1>1, <2>2, <2>4, <2>6
  <2>8. Same(entries, j) = same
    BY <2>4, SameKeyIs DEF Same
  <2>9. FirstAt(entries, j) = entries[j]
    BY <1>3, <2>3, <2>8 DEF FirstAt
  <2>10. \A k \in 1..Len(entries) : SameKey(entries[k], entries[i]) => j <= k
    BY <1>1, <2>2 DEF Same
  <2> QED BY <2>3, <2>4, <2>7, <2>9, <2>10
<1> QED BY <1>2, <1>3

(* Each certificate has the first of its entries, and each entry is in a   *)
(* certificate, with its names unless some are dropped.                    *)
Accounted(entries, built, i) ==
  /\ \A p \in DOMAIN built.certificates : \E j \in 1..i :
       /\ built.certificates[p].entry = entries[j]
       /\ FirstAt(entries, j) = entries[j]
  /\ \A j \in 1..i : \E p \in DOMAIN built.certificates :
       /\ built.certificates[p].entry = FirstAt(entries, j)
       /\ built.dropped = 0 => ListedIn(entries[j], built.certificates[p])

LEMMA AccountedStep ==
  ASSUME NEW E, NEW entries \in Seq(E), NEW i \in 1..Len(entries),
         NEW built, NEW more,
         Accounted(entries, built, i - 1), Grown(built, more, entries[i])
  PROVE  Accounted(entries, more, i)
<1> DEFINE entry == entries[i]
           n == Len(entries)
<1>1. DOMAIN entries = 1..n /\ n \in Nat /\ i \in 1..n
  BY LenProperties
<1> HIDE DEF n
<1>2. PICK first \in 1..i :
        /\ FirstAt(entries, i) = entries[first]
        /\ SameKey(entries[first], entry) \/ entries[first] = entry
        /\ FirstAt(entries, first) = entries[first]
        /\ \A k \in 1..n : SameKey(entries[k], entry) => first <= k
  BY <1>1, FirstIs DEF n
<1>3. ASSUME SameIn(built, entry) = {} PROVE FirstAt(entries, i) = entry
  <2>1. SUFFICES ASSUME first # i, entries[first] # entry PROVE FALSE
    BY <1>2
  <2>2. first \in 1..(i - 1)
    BY <1>1, <2>1
  <2>3. PICK p \in DOMAIN built.certificates :
          built.certificates[p].entry = FirstAt(entries, first)
    BY <2>2 DEF Accounted
  <2>4. SameKey(entries[first], entry)
    BY <1>2, <2>1
  <2> QED BY <1>2, <1>3, <2>3, <2>4 DEF SameIn
<1>4. ASSUME NEW p \in SameIn(built, entry)
      PROVE  built.certificates[p].entry = FirstAt(entries, i)
  <2>1. p \in DOMAIN built.certificates /\ SameKey(built.certificates[p].entry, entry)
    BY DEF SameIn
  <2>2. PICK j \in 1..(i - 1) :
          /\ built.certificates[p].entry = entries[j]
          /\ FirstAt(entries, j) = entries[j]
    BY <2>1 DEF Accounted
  <2>3. SameKey(entries[j], entry)
    BY <2>1, <2>2
  <2>4. Same(entries, j) = Same(entries, i)
    BY <2>3, SameKeyIs DEF Same
  <2>5. j \in Same(entries, i)
    BY <1>1, <2>2, <2>3 DEF Same
  <2>6. FirstAt(entries, j) = FirstAt(entries, i)
    BY <2>4, <2>5 DEF FirstAt
  <2> QED BY <2>2, <2>6
<1>5. \A j \in 1..i : j \in 1..(i - 1) \/ j = i
  BY <1>1
<1>6. \A j \in 1..(i - 1) : j \in 1..i
  BY <1>1
<1>7. ASSUME NEW p \in DOMAIN more.certificates
      PROVE  \E j \in 1..i : /\ more.certificates[p].entry = entries[j]
                            /\ FirstAt(entries, j) = entries[j]
  <2>1. CASE p \in DOMAIN built.certificates
    <3>1. more.certificates[p].entry = built.certificates[p].entry
      BY <2>1 DEF Grown
    <3>2. PICK j \in 1..(i - 1) : /\ built.certificates[p].entry = entries[j]
                                 /\ FirstAt(entries, j) = entries[j]
      BY <2>1 DEF Accounted
    <3> QED BY <1>6, <3>1, <3>2
  <2>2. CASE SameIn(built, entry) = {} /\ more.certificates[p].entry = entry
    <3>1. i \in 1..i
      BY <1>1
    <3> QED BY <1>3, <2>2, <3>1
  <2> QED BY <1>7, <2>1, <2>2 DEF Grown
<1>8. ASSUME NEW j \in 1..(i - 1)
      PROVE  \E p \in DOMAIN more.certificates :
               /\ more.certificates[p].entry = FirstAt(entries, j)
               /\ more.dropped = 0 => ListedIn(entries[j], more.certificates[p])
  <2>1. PICK p \in DOMAIN built.certificates :
               /\ built.certificates[p].entry = FirstAt(entries, j)
               /\ built.dropped = 0 => ListedIn(entries[j], built.certificates[p])
    BY DEF Accounted
  <2>2. /\ p \in DOMAIN more.certificates
        /\ more.certificates[p].entry = built.certificates[p].entry
        /\ Distinct(built.certificates[p].names) \subseteq Distinct(more.certificates[p].names)
        /\ more.dropped = 0 => built.dropped = 0
    BY DEF Grown
  <2>3. ListedIn(entries[j], built.certificates[p]) => ListedIn(entries[j], more.certificates[p])
    BY <2>2 DEF ListedIn
  <2> QED BY <2>1, <2>2, <2>3
<1>9. \E p \in DOMAIN more.certificates :
        /\ more.certificates[p].entry = FirstAt(entries, i)
        /\ more.dropped = 0 => ListedIn(entry, more.certificates[p])
  <2>1. PICK p \in DOMAIN more.certificates :
          /\ more.dropped = 0 => ListedIn(entry, more.certificates[p])
          /\ IF SameIn(built, entry) = {} THEN more.certificates[p].entry = entry
             ELSE p \in SameIn(built, entry)
    BY DEF Grown
  <2>2. CASE SameIn(built, entry) = {}
    BY <1>3, <2>1, <2>2
  <2>3. CASE SameIn(built, entry) # {}
    <3>1. p \in SameIn(built, entry) /\ p \in DOMAIN built.certificates
      BY <2>1, <2>3 DEF SameIn
    <3>2. more.certificates[p].entry = built.certificates[p].entry
      BY <3>1 DEF Grown
    <3> QED BY <1>4, <2>1, <3>1, <3>2
  <2> QED BY <2>2, <2>3
<1>10. ASSUME NEW j \in 1..i
       PROVE  \E p \in DOMAIN more.certificates :
               /\ more.certificates[p].entry = FirstAt(entries, j)
               /\ more.dropped = 0 => ListedIn(entries[j], more.certificates[p])
  BY <1>5, <1>8, <1>9
<1> QED BY <1>7, <1>10 DEF Accounted

LEMMA MergedAre ==
  ASSUME MaxNames \in Nat, NEW R, NEW E, \A e \in E : e.names \in Seq(R),
         NEW entries \in Seq(E)
  PROVE  /\ Merged(entries) \in Building(E, R)
         /\ Accounted(entries, Merged(entries), Len(entries))
<1> DEFINE n == Len(entries)
           none == [certificates |-> <<>>, dropped |-> 0]
<1>1. n \in Nat /\ DOMAIN entries = 1..n /\ \A i \in 1..n : entries[i] \in E
  BY LenProperties, ElementOfSeq
<1>2. PICK g \in [0..n -> Building(E, R)] :
        /\ g[0] = none
        /\ \A i \in 1..n : g[i] = AddEntry(g[i - 1], entries[i])
        /\ Merged(entries) = g[n]
  BY EntriesSteps
<1> DEFINE T == {i \in 0..n : Accounted(entries, g[i], i)}
<1>3. Accounted(entries, g[0], 0)
  <2>1. g[0].certificates = <<>> /\ DOMAIN g[0].certificates = {} /\ 1..0 = {}
    BY <1>2
  <2> QED BY ONLY <2>1 DEF Accounted
<1>4. ASSUME NEW i \in 1..n, i - 1 \in T PROVE i \in T
  <2>1. i \in 0..n /\ i - 1 \in 0..n /\ entries[i] \in E /\ g[i - 1] \in Building(E, R)
    BY <1>1, <1>2
  <2>2. Grown(g[i - 1], g[i], entries[i])
    BY <1>2, <2>1, AddEntryIs
  <2>3. Accounted(entries, g[i], i)
    BY <1>4, <2>2, AccountedStep
  <2> QED BY <2>1, <2>3
<1> HIDE DEF n
<1>5. n \in T
  <2>1. 0 \in T
    BY <1>1, <1>3
  <2> HIDE DEF T
  <2>2. \A i \in 0..n : i \in T
    BY <1>1, <1>4, <2>1, UpTo
  <2> QED BY <1>1, <2>2
<1>6. n \in 0..n
  BY <1>1
<1> QED BY <1>2, <1>5, <1>6 DEF n

-----------------------------------------------------------------------------
(* The entries that were read. *)
IsRead(entry) ==
  /\ entry.from = {} \/ \E time \in Int : entry.from = {time}
  /\ entry.names \in Seq(Distinct(entry.names))

LEMMA OwnItems ==
  ASSUME NEW S, NEW seq \in Seq(S)
  PROVE  seq \in Seq(Distinct(seq))
<1>1. Len(seq) \in Nat /\ DOMAIN seq = 1..Len(seq)
  BY LenProperties
<1>2. seq \in [1..Len(seq) -> Distinct(seq)]
  BY <1>1 DEF Distinct
<1> QED BY <1>1, <1>2, FunctionIsSeq

LEMMA EntryIs ==
  ASSUME MaxNameLines \in Nat, NEW object,
         IsSequence(Of(object, "name_value")),
         Is(Of(object, "not_before"), "time") => Of(object, "not_before")[2] \in Int
  PROVE  IsRead(Entry(object))
<1> DEFINE from == Of(object, "not_before")
           lines == Of(object, "name_value")
<1>1. /\ Entry(object).from = EntryTime(object, "not_before").kept
      /\ Entry(object).names = NameLines(object).kept
  BY DEF Entry
<1>2. \/ EntryTime(object, "not_before").kept = {}
      \/ /\ Is(from, "time")
         /\ EntryTime(object, "not_before").kept = {from[2]}
  BY WhatIsKept DEF EntryTime, Timestamp
<1>3. NameLines(object).kept \in Seq(Distinct(NameLines(object).kept))
  <2> DEFINE none == <<>>
  <2>1. \/ NameLines(object).kept = none
        \/ /\ Is(lines, "list")
           /\ NameLines(object).kept = First(lines[2], MaxNameLines)
    BY TypesAreDistinct, ReadingsAre DEF NameLines
  <2>2. none \in Seq(Distinct(none))
    OBVIOUS
  <2> HIDE DEF none
  <2>3. ASSUME Is(lines, "list")
        PROVE  First(lines[2], MaxNameLines) \in Seq(Distinct(First(lines[2], MaxNameLines)))
    <3>1. lines[2] \in Seq(Distinct(lines[2]))
      BY <2>3 DEF IsSequence
    <3>2. First(lines[2], MaxNameLines) \in Seq(Distinct(lines[2]))
      BY <3>1, FirstItems
    <3> QED BY <3>2, OwnItems
  <2> QED BY <2>1, <2>2, <2>3
<1> QED BY <1>1, <1>2, <1>3 DEF IsRead

LEMMA LogEntriesAre ==
  ASSUME CertificatesConstants, NEW body, Is(body, "list"), IsLog(body)
  PROVE  LET objects == Objects(First(body[2], MaxEntries))
             entries == LogEntries(body[2])
         IN /\ entries \in Seq(Distinct(entries))
            /\ \A entry \in Distinct(entries) : IsRead(entry)
            /\ Len(objects) \in Nat /\ DOMAIN entries = 1..Len(objects)
            /\ \A i \in DOMAIN entries :
                 /\ entries[i] = Entry(objects[i][2])
                 /\ IsSequence(Of(objects[i][2], "name_value"))
<1> DEFINE items == body[2]
           examined == First(items, MaxEntries)
           S == Distinct(items)
           O == {item \in S : Is(item, "object")}
           objects == Objects(examined)
           entries == LogEntries(items)
<1>1. items \in Seq(S) /\ MaxEntries \in Nat /\ MaxNameLines \in Nat
  BY DEF IsLog, IsSequence, CertificatesConstants
<1>2. examined \in Seq(S)
  BY <1>1, FirstItems
<1> HIDE DEF S
<1>3. objects \in Seq(O)
  BY <1>2, ObjectsAre
<1>4. Len(objects) \in Nat /\ DOMAIN objects = 1..Len(objects)
      /\ \A i \in DOMAIN objects : objects[i] \in O
  <2> HIDE DEF objects, O
  <2> QED BY <1>3, LenProperties, ElementOfSeq
<1>5. entries = [i \in DOMAIN objects |-> Entry(objects[i][2])]
  BY DEF LogEntries
<1>6. ASSUME NEW i \in DOMAIN objects
      PROVE  /\ IsRead(Entry(objects[i][2]))
             /\ IsSequence(Of(objects[i][2], "name_value"))
  <2>1. objects[i] \in S /\ Is(objects[i], "object")
    BY <1>4
  <2>2. PICK k \in DOMAIN items : objects[i] = items[k]
    BY <2>1 DEF S, Distinct
  <2>3. Inner(items[k]) = objects[i][2]
    BY <2>1, <2>2 DEF Inner
  <2>4. LET object == Inner(items[k]) IN
        /\ IsSequence(Of(object, "name_value"))
        /\ Is(Of(object, "not_before"), "time") => Of(object, "not_before")[2] \in Int
    BY <2>2 DEF IsLog
  <2> QED BY <1>1, <2>3, <2>4, EntryIs
<1> HIDE DEF objects, entries
<1>7. entries \in Seq(Distinct(entries))
  <2>1. entries \in [1..Len(objects) -> Distinct(entries)]
    BY <1>4, <1>5 DEF Distinct
  <2> QED BY <1>4, <2>1, FunctionIsSeq
<1>8. \A entry \in Distinct(entries) : IsRead(entry)
  BY <1>5, <1>6 DEF Distinct
<1>9. /\ DOMAIN entries = 1..Len(objects)
      /\ \A i \in DOMAIN entries : /\ entries[i] = Entry(objects[i][2])
                                   /\ IsSequence(Of(objects[i][2], "name_value"))
  BY <1>4, <1>5, <1>6
<1> QED BY <1>4, <1>7, <1>8, <1>9 DEF entries, objects, examined

-----------------------------------------------------------------------------
(* The certificates, the newest first, are all that were built.            *)
LEMMA NewestFirstIs ==
  ASSUME NEW C, NEW certificates \in Seq(C), \A c \in C : From(c) \in Int
  PROVE  LET sorted == NewestFirst(certificates) IN
         /\ sorted \in Seq(C) /\ Len(sorted) = Len(certificates)
         /\ \A p \in DOMAIN certificates : \E k \in DOMAIN sorted :
              sorted[k] = certificates[p]
         /\ \A j, k \in DOMAIN sorted : j < k => From(sorted[j]) >= From(sorted[k])
<1> DEFINE n == Len(certificates)
           S == DOMAIN certificates
           below == [j \in S |-> {i \in S : IsBefore(certificates, i, j)}]
           sorted == NewestFirst(certificates)
           order == [k \in 1..Cardinality(S) |->
                       CHOOSE j \in S : Cardinality(below[j]) = k - 1]
           from(j) == From(certificates[j])
<1>1. n \in Nat /\ S = 1..n /\ \A j \in S : certificates[j] \in C
  BY LenProperties, ElementOfSeq
<1>2. \A j \in S : from(j) \in Int /\ j \in Int
  BY <1>1
<1>3. IsFiniteSet(S) /\ Cardinality(S) = n
  BY <1>1, FS_Interval
<1> HIDE DEF n, S
<1>4. \A i, j \in S :
        i \in below[j] <=> \/ from(i) > from(j)
                           \/ from(i) = from(j) /\ i < j
  BY DEF IsBefore
<1>5. below \in [S -> SUBSET S]
  OBVIOUS
<1> HIDE DEF below, from
<1>6. \A j \in S : j \notin below[j]
  BY <1>2, <1>4
<1>7. \A j \in S : \A i \in below[j] : below[i] \subseteq below[j]
  <2> SUFFICES ASSUME NEW j \in S, NEW i \in below[j], NEW h \in below[i]
               PROVE  h \in below[j]
    OBVIOUS
  <2>1. i \in S /\ h \in S
    BY <1>5
  <2>2. /\ from(i) > from(j) \/ (from(i) = from(j) /\ i < j)
        /\ from(h) > from(i) \/ (from(h) = from(i) /\ h < i)
    BY <1>4, <2>1
  <2>3. from(h) > from(j) \/ (from(h) = from(j) /\ h < j)
    BY <1>2, <2>1, <2>2
  <2> QED BY <1>4, <2>1, <2>3
<1>8. \A i, j \in S : i # j => i \in below[j] \/ j \in below[i]
  <2> SUFFICES ASSUME NEW i \in S, NEW j \in S, i # j
               PROVE  i \in below[j] \/ j \in below[i]
    OBVIOUS
  <2>1. \/ from(i) > from(j) \/ (from(i) = from(j) /\ i < j)
        \/ from(j) > from(i) \/ (from(j) = from(i) /\ j < i)
    BY <1>2
  <2> QED BY <1>4, <2>1
<1>9. InOrder(order, S, below)
  <2>1. StrictOrder(S, below)
    BY <1>3, <1>5, <1>6, <1>7, <1>8 DEF StrictOrder
  <2> QED BY <2>1, ByRank
<1>10. sorted = [k \in S |-> certificates[order[k]]]
  <2>1. sorted = [k \in S |-> certificates[CHOOSE j \in S :
                   Cardinality({i \in S : IsBefore(certificates, i, j)}) = k - 1]]
    BY DEF NewestFirst, S
  <2>2. ASSUME NEW k \in S
        PROVE  order[k] = CHOOSE j \in S :
                   Cardinality({i \in S : IsBefore(certificates, i, j)}) = k - 1
    <3>1. k \in 1..Cardinality(S)
      BY <1>1, <1>3
    <3>2. \A j \in S : below[j] = {i \in S : IsBefore(certificates, i, j)}
      BY DEF below
    <3> QED BY <3>1, <3>2
  <2> HIDE DEF order
  <2> QED BY <2>1, <2>2
<1> HIDE DEF order, sorted
<1>a. /\ \A k \in 1..Cardinality(S) : order[k] \in S
      /\ \A j \in S : \E k \in 1..Cardinality(S) : order[k] = j
      /\ \A j, k \in 1..Cardinality(S) : j < k => order[j] \in below[order[k]]
  BY <1>9 DEF InOrder
<1>11. sorted \in [1..n -> C]
  BY <1>1, <1>3, <1>a, <1>10
<1>12. sorted \in Seq(C) /\ Len(sorted) = n /\ DOMAIN sorted = 1..n
  <2>1. sorted \in Seq(C)
    BY <1>1, <1>11, FunctionIsSeq
  <2>2. DOMAIN sorted = 1..n
    BY <1>11
  <2> QED BY <1>1, <2>1, <2>2, LenProperties
<1>13. \A p \in S : \E k \in DOMAIN sorted : sorted[k] = certificates[p]
  BY <1>1, <1>3, <1>a, <1>10, <1>12
<1>14. \A j, k \in DOMAIN sorted : j < k => From(sorted[j]) >= From(sorted[k])
  <2> SUFFICES ASSUME NEW j \in 1..n, NEW k \in 1..n, j < k
               PROVE  From(sorted[j]) >= From(sorted[k])
    BY <1>12
  <2>1. order[j] \in S /\ order[k] \in S /\ order[j] \in below[order[k]]
    BY <1>3, <1>a
  <2>2. from(order[j]) >= from(order[k])
    BY <1>2, <1>4, <2>1
  <2> QED BY <1>1, <1>10, <2>2 DEF from
<1> QED BY <1>12, <1>13, <1>14 DEF n, S, sorted

-----------------------------------------------------------------------------
(* What is left after the bounds, and what is found of what is not.        *)
LEMMA SequencesGrow ==
  ASSUME NEW S, NEW T, S \subseteq T, NEW seq \in Seq(S)
  PROVE  seq \in Seq(T)
<1>1. Len(seq) \in Nat /\ DOMAIN seq = 1..Len(seq) /\ seq \in [1..Len(seq) -> S]
  BY LenProperties
<1>2. seq \in [1..Len(seq) -> T]
  BY <1>1
<1> QED BY <1>1, <1>2, FunctionIsSeq

LEMMA FirstItemsAre ==
  ASSUME NEW S, NEW items \in Seq(S), NEW n \in Nat
  PROVE  LET first == First(items, n) IN
         /\ DOMAIN first \subseteq DOMAIN items
         /\ \A i \in DOMAIN first : first[i] = items[i]
         /\ \A i \in DOMAIN items \ DOMAIN first :
              Cut(items, n) > 0 /\ \A j \in DOMAIN first : j < i
<1> DEFINE k == IF Len(items) < n THEN Len(items) ELSE n
           first == First(items, n)
<1>1. Len(items) \in Nat /\ DOMAIN items = 1..Len(items)
  BY LenProperties
<1>2. k \in 0..Len(items)
  BY <1>1
<1>3. first = SubSeq(items, 1, k)
  BY DEF First
<1> HIDE DEF k, first
<1>4. /\ DOMAIN first = 1..k /\ Len(first) = k
      /\ \A i \in 1..k : first[i] = items[i]
  BY <1>2, <1>3, Beginning
<1>5. Cut(items, n) = Len(items) - k
  BY <1>4 DEF Cut, first
<1>6. DOMAIN first \subseteq DOMAIN items
  BY <1>1, <1>2, <1>4
<1>7. \A i \in DOMAIN items \ DOMAIN first :
        Cut(items, n) > 0 /\ \A j \in DOMAIN first : j < i
  BY <1>1, <1>2, <1>4, <1>5
<1> QED BY <1>4, <1>6, <1>7 DEF first

LEMMA FirstLength ==
  ASSUME NEW S, NEW items \in Seq(S), NEW n \in Nat
  PROVE  LET first == First(items, n) IN
         /\ Len(first) = IF Len(items) < n THEN Len(items) ELSE n
         /\ DOMAIN first = 1..(IF Len(items) < n THEN Len(items) ELSE n)
         /\ \A i \in DOMAIN first : first[i] = items[i]
<1> DEFINE k == IF Len(items) < n THEN Len(items) ELSE n
<1>1. Len(items) \in Nat
  BY LenProperties
<1>2. k \in 0..Len(items)
  BY <1>1
<1>3. First(items, n) = SubSeq(items, 1, k)
  BY DEF First
<1> HIDE DEF k
<1>4. /\ Len(First(items, n)) = k
      /\ DOMAIN First(items, n) = 1..k
      /\ \A i \in 1..k : First(items, n)[i] = items[i]
  BY <1>2, <1>3, Beginning
<1> QED BY <1>4 DEF k

LEMMA TimeOfEntry ==
  ASSUME NEW certificate, IsRead(certificate.entry)
  PROVE  /\ From(certificate) \in Int
         /\ (IF certificate.entry.from = {} THEN {0} ELSE certificate.entry.from)
              = {From(certificate)}
<1>1. CASE certificate.entry.from = {}
  BY <1>1 DEF From
<1>2. CASE certificate.entry.from # {}
  <2>1. PICK time \in Int : certificate.entry.from = {time}
    BY <1>2 DEF IsRead
  <2>2. (CHOOSE t \in {time} : TRUE) = time
    OBVIOUS
  <2>3. From(certificate) = time
    BY <1>2, <2>1, <2>2 DEF From
  <2> QED BY <1>2, <2>1, <2>3
<1> QED BY <1>1, <1>2

(* What the collector reports is what it makes of a list that was sent.    *)
LEMMA LogAnswer ==
  ASSUME ReaderInvariant, Finished("ct")
  PROVE  /\ reply.status = 200 /\ Is(reply.body, "list") /\ IsLog(reply.body)
         /\ result = Bounded(reply.body[2])
<1>1. reply \in Replies["ct"] /\ result = CertificateTransparency(reply)
      /\ result.error = "none"
  BY DEF ReaderInvariant, Finished, Analyzers, Outcome
<1>2. \A why : NoCertificates(why).error = why
  BY DEF NoCertificates
<1>3. IsLog(reply.body)
  BY <1>1, AnswersConstants DEF AnswersConstants
<1>4. NoCertificates("unexpected status").error # "none"
      /\ NoCertificates("invalid response").error # "none"
  BY DEF NoCertificates
<1>5. CASE reply.status # 200
  BY ONLY <1>1, <1>4, <1>5 DEF CertificateTransparency
<1>6. CASE reply.status = 200 /\ ~Is(reply.body, "list")
  BY ONLY <1>1, <1>4, <1>6 DEF CertificateTransparency
<1>7. CASE reply.status = 200 /\ Is(reply.body, "list")
  BY ONLY <1>1, <1>3, <1>7 DEF CertificateTransparency
<1> QED BY ONLY <1>5, <1>6, <1>7

(* Lines beyond the limit are an issue of the entry.                       *)
LEMMA CutLinesAreNoted ==
  ASSUME MaxNameLines \in Nat, NEW object,
         Is(Of(object, "name_value"), "list"), IsSequence(Of(object, "name_value"))
  PROVE  LET lines == Of(object, "name_value")[2]
             entry == Entry(object)
         IN /\ \A n \in DOMAIN lines \cap 1..MaxNameLines :
                 lines[n] \in Distinct(entry.names)
            /\ Len(lines) > MaxNameLines => <<"names", "too many">> \in entry.issues
<1> DEFINE value == Of(object, "name_value")
           lines == value[2]
           first == First(lines, MaxNameLines)
           entry == Entry(object)
           cut == {<<"names", "too many">> : i \in 1..Cut(lines, MaxNameLines)}
<1>1. lines \in Seq(Distinct(lines)) /\ MaxNameLines \in Nat
  BY DEF IsSequence
<1>2. NameLines(object) = Read(first, cut)
  BY TypesAreDistinct DEF NameLines
<1> HIDE DEF first, cut
<1>3. NameLines(object).kept = first /\ NameLines(object).issues = cut
  BY <1>2, ReadingsAre
<1>4. entry.names = first /\ cut \subseteq entry.issues
  <2> DEFINE fields == [id |-> LogId(object),
                        issuer |-> EntryText(object, "issuer_name"),
                        common_name |-> EntryText(object, "common_name"),
                        serial |-> Serial(object),
                        from |-> EntryTime(object, "not_before"),
                        until |-> EntryTime(object, "not_after"),
                        names |-> NameLines(object)]
  <2>1. /\ entry.names = fields["names"].kept
        /\ entry.issues = Issues(fields) \cup Validity(fields.from.kept, fields.until.kept)
    BY DEF Entry
  <2>2. "names" \in DOMAIN fields /\ fields["names"] = NameLines(object)
    OBVIOUS
  <2> HIDE DEF fields, entry
  <2>3. cut \subseteq Issues(fields)
    BY <1>3, <2>2 DEF Issues
  <2> QED BY <1>3, <2>1, <2>2, <2>3
<1> HIDE DEF entry
<1>5. ASSUME NEW n \in DOMAIN lines \cap 1..MaxNameLines
      PROVE  lines[n] \in Distinct(entry.names)
  <2>1. n \in DOMAIN first /\ first[n] = lines[n]
    <3>1. /\ DOMAIN lines = 1..Len(lines) /\ Len(lines) \in Nat
      BY <1>1, LenProperties
    <3>2. /\ \A i \in DOMAIN first : first[i] = lines[i]
          /\ DOMAIN first = 1..(IF Len(lines) < MaxNameLines THEN Len(lines) ELSE MaxNameLines)
      BY <1>1, <3>1, FirstLength DEF first
    <3> HIDE DEF lines
    <3> QED BY <3>1, <3>2
  <2> QED BY <1>4, <2>1 DEF Distinct
<1>6. ASSUME Len(lines) > MaxNameLines PROVE <<"names", "too many">> \in entry.issues
  <2>1. 1 \in 1..Cut(lines, MaxNameLines)
    <3>1. /\ Len(lines) \in Nat /\ Len(first) <= MaxNameLines /\ Len(first) \in Nat
      BY <1>1, <1>6, LenProperties, FirstLength DEF first
    <3> HIDE DEF lines
    <3> QED BY <1>1, <1>6, <3>1 DEF Cut, first
  <2> QED BY <1>4, <2>1 DEF cut
<1> HIDE DEF lines
<1> QED BY <1>5, <1>6 DEF entry, lines

LEMMA LogHolds ==
  ASSUME ReaderInvariant
  PROVE  LogIsAccounted
<1> DEFINE items == reply.body[2]
           entries == LogEntries(items)
           E == Distinct(entries)
           R == UNION {Distinct(e.names) : e \in E}
           built == Merged(entries)
           sorted == NewestFirst(built.certificates)
           certificates == First(sorted, MaxCertificates)
           C == CertificatesOf(E, R)
           B == Distinct(built.certificates)
           time(e) == IF e.from = {} THEN {0} ELSE e.from
           keptOf(entry) == {k \in DOMAIN result.certificates :
                               LET c == result.certificates[k].entry IN
                               SameKey(c, entry) \/ c = entry}
           ListsAll(i, k) ==
             \A line \in DOMAIN LoggedLines(i) \cap 1..MaxNameLines :
               \/ LoggedLines(i)[line].form = "email"
               \/ \E n \in Distinct(result.certificates[k].names) :
                    n.raw = LoggedLines(i)[line]
           IsTold(k) ==
             \E f \in result.findings :
               /\ <<"names", "too many">> \in result.certificates[k].issues
               /\ f.code = "invalid_records" /\ k \in f.evidence
<1> SUFFICES ASSUME Finished("ct"), NEW i \in DOMAIN LoggedEntries
             PROVE  IF keptOf(LoggedEntries[i]) = {}
                    THEN /\ Truncated
                         /\ \A k \in DOMAIN result.certificates :
                              \A t \in time(FirstOf(LoggedEntries[i])) :
                                \A u \in time(result.certificates[k].entry) : t <= u
                    ELSE /\ \/ Truncated
                            \/ \E k \in keptOf(LoggedEntries[i]) : ListsAll(i, k)
                         /\ /\ Len(LoggedLines(i)) > MaxNameLines
                            /\ FirstOf(LoggedEntries[i]) = LoggedEntries[i]
                            => \A k \in keptOf(LoggedEntries[i]) : IsTold(k)
  BY DEF LogIsAccounted
<1> DEFINE entry == entries[i]
<1>1. /\ Is(reply.body, "list") /\ IsLog(reply.body)
      /\ result = Bounded(items)
  BY LogAnswer
<1>2. LoggedEntries = entries
  BY DEF LoggedEntries
<1>3. /\ entries \in Seq(E) /\ \A e \in E : IsRead(e)
      /\ MaxNames \in Nat /\ MaxCertificates \in Nat /\ MaxNameLines \in Nat
      /\ entry = Entry(LoggedObjects[i][2])
      /\ IsSequence(Of(LoggedObjects[i][2], "name_value"))
  BY <1>1, <1>2, LogEntriesAre, CertificatesConstants DEF CertificatesConstants, LoggedObjects
<1>4. \A e \in E : e.names \in Seq(R)
  <2> SUFFICES ASSUME NEW e \in E PROVE e.names \in Seq(R)
    OBVIOUS
  <2>1. e.names \in Seq(Distinct(e.names)) /\ Distinct(e.names) \subseteq R
    BY <1>3 DEF IsRead
  <2> HIDE DEF R
  <2> QED BY <2>1, SequencesGrow
<1>5. DOMAIN entries = 1..Len(entries) /\ Len(entries) \in Nat /\ i \in 1..Len(entries)
  <2> HIDE DEF entries, E
  <2> QED BY <1>2, <1>3, LenProperties
<1>6. built \in Building(E, R) /\ Accounted(entries, built, Len(entries))
  <2> HIDE DEF entries, E, R
  <2> QED BY <1>3, <1>4, MergedAre
<1>7. built.certificates \in Seq(C)
  <2> HIDE DEF built, E, R
  <2> QED BY <1>6 DEF Building
<1>8. /\ \A c \in C : IsRead(c.entry) /\ c.entry.issues \subseteq c.issues
      /\ B \subseteq C /\ built.certificates \in Seq(B)
  <2>1. \A c \in C : IsRead(c.entry) /\ c.entry.issues \subseteq c.issues
    <3> HIDE DEF E, R
    <3> QED BY <1>3 DEF CertificatesOf
  <2> HIDE DEF C, built
  <2> QED BY <1>7, <2>1, OwnItems, LenProperties, ElementOfSeq DEF Distinct
<1>9. /\ result.certificates = certificates
      /\ \A n \in {Cut(sorted, MaxCertificates), built.dropped} : n > 0 => Truncated
      /\ \A k \in DOMAIN certificates : certificates[k].issues # {} =>
           \E f \in result.findings : f.code = "invalid_records" /\ k \in f.evidence
  <2> DEFINE cut == {Cut(items, MaxEntries), Cut(sorted, MaxCertificates),
                     built.dropped, Cut(Covers(certificates), MaxRelationships)}
             examined == First(items, MaxEntries)
             invalid == Len(examined) - Len(Objects(examined))
  <2>1. /\ result.certificates = certificates
        /\ TruncatedFindings(certificates, cut) \subseteq result.findings
        /\ InvalidFindings(certificates, invalid) \subseteq result.findings
    BY <1>1 DEF Bounded
  <2> HIDE DEF sorted, built, certificates, invalid
  <2>2. {Cut(sorted, MaxCertificates), built.dropped} \subseteq cut
    OBVIOUS
  <2> HIDE DEF cut
  <2>3. ASSUME NEW n \in cut, n > 0 PROVE Truncated
    <3>1. CTFinding("truncated", DOMAIN certificates) \in result.findings
      BY <2>1, <2>3 DEF TruncatedFindings
    <3>2. CTFinding("truncated", DOMAIN certificates).code = "truncated"
      BY DEF CTFinding
    <3> QED BY <3>1, <3>2 DEF Truncated
  <2>4. ASSUME NEW k \in DOMAIN certificates, certificates[k].issues # {}
        PROVE  \E f \in result.findings : f.code = "invalid_records" /\ k \in f.evidence
    <3> DEFINE flawed == {j \in DOMAIN certificates : certificates[j].issues # {}}
    <3>1. k \in flawed
      BY <2>4
    <3>2. CTFinding("invalid_records", flawed) \in InvalidFindings(certificates, invalid)
      BY <3>1 DEF InvalidFindings
    <3> HIDE DEF flawed
    <3>3. CTFinding("invalid_records", flawed).code = "invalid_records"
          /\ CTFinding("invalid_records", flawed).evidence = flawed
      BY DEF CTFinding
    <3> QED BY <2>1, <3>1, <3>2, <3>3
  <2> QED BY <2>1, <2>2, <2>3, <2>4
<1> HIDE DEF entries, E, R, C, B, built, sorted, certificates, items, keptOf, ListsAll, IsTold, time
<1>10. /\ sorted \in Seq(B)
       /\ \A p \in DOMAIN built.certificates : \E k \in DOMAIN sorted :
            sorted[k] = built.certificates[p]
       /\ \A j, k \in DOMAIN sorted : j < k => From(sorted[j]) >= From(sorted[k])
  <2>1. \A c \in B : From(c) \in Int
    BY <1>8, TimeOfEntry
  <2> QED BY <1>8, <2>1, NewestFirstIs DEF sorted
<1>11. \A k \in DOMAIN sorted : sorted[k] \in B /\ IsRead(sorted[k].entry)
  BY <1>8, <1>10, LenProperties, ElementOfSeq
<1>12. /\ DOMAIN certificates \subseteq DOMAIN sorted
       /\ \A k \in DOMAIN certificates : certificates[k] = sorted[k]
       /\ \A k \in DOMAIN sorted \ DOMAIN certificates :
            /\ Cut(sorted, MaxCertificates) > 0
            /\ \A j \in DOMAIN certificates : j < k
  BY <1>3, <1>10, FirstItemsAre DEF certificates
<1>13. PICK p \in DOMAIN built.certificates :
         /\ built.certificates[p].entry = FirstAt(entries, i)
         /\ built.dropped = 0 => ListedIn(entry, built.certificates[p])
  BY <1>5, <1>6 DEF Accounted
<1>14. PICK q \in DOMAIN sorted : sorted[q] = built.certificates[p]
  BY <1>10
<1>15. FirstOf(entry) = FirstAt(entries, i)
  BY <1>2 DEF FirstOf, FirstAt, Same
<1>16. SameKey(FirstAt(entries, i), entry) \/ FirstAt(entries, i) = entry
  BY <1>3, <1>5, FirstIs
<1>17. ASSUME NEW line \in DOMAIN LoggedLines(i) \cap 1..MaxNameLines
       PROVE  LoggedLines(i)[line] \in Distinct(entry.names)
  <2>1. Is(Of(LoggedObjects[i][2], "name_value"), "list")
        /\ LoggedLines(i) = Of(LoggedObjects[i][2], "name_value")[2]
    BY DEF LoggedLines
  <2> QED BY <1>3, <2>1, CutLinesAreNoted
<1>18. Len(LoggedLines(i)) > MaxNameLines => <<"names", "too many">> \in entry.issues
  <2>1. CASE Is(Of(LoggedObjects[i][2], "name_value"), "list")
    BY <1>3, <2>1, CutLinesAreNoted DEF LoggedLines
  <2>2. CASE ~Is(Of(LoggedObjects[i][2], "name_value"), "list")
    <3>1. LoggedLines(i) = <<>>
      BY <2>2 DEF LoggedLines
    <3>2. Len(LoggedLines(i)) = 0
      BY <3>1
    <3>3. MaxNameLines \in Nat
      BY <1>3
    <3>4. ~(Len(LoggedLines(i)) > MaxNameLines)
      <4> DEFINE len == Len(LoggedLines(i))
      <4>1. len = 0
        BY <3>2
      <4> HIDE DEF len
      <4>2. ~(len > MaxNameLines)
        BY <3>3, <4>1
      <4> QED BY <4>2 DEF len
    <3> QED BY <3>4
  <2> QED BY <2>1, <2>2
(* A kept certificate of the entry has the first of its entries.           *)
<1>19. ASSUME NEW k \in keptOf(entry), FirstOf(entry) = entry
       PROVE  certificates[k].entry = entry
  <2>1. /\ k \in DOMAIN certificates
        /\ SameKey(certificates[k].entry, entry) \/ certificates[k].entry = entry
    BY <1>9 DEF keptOf
  <2>2. PICK r \in DOMAIN built.certificates : certificates[k] = built.certificates[r]
    BY <1>11, <1>12, <2>1 DEF B, Distinct
  <2>3. PICK j \in 1..Len(entries) :
          /\ certificates[k].entry = entries[j]
          /\ FirstAt(entries, j) = entries[j]
    BY <1>6, <2>2 DEF Accounted
  <2>4. ASSUME SameKey(entries[j], entry) PROVE entries[j] = entry
    <3>1. Same(entries, j) = Same(entries, i)
      BY <2>4, SameKeyIs DEF Same
    <3>2. j \in Same(entries, i)
      BY <1>5, <2>3, <2>4 DEF Same
    <3>3. FirstAt(entries, j) = FirstAt(entries, i)
      BY <3>1, <3>2 DEF FirstAt
    <3> QED BY <1>15, <1>19, <2>3, <3>3
  <2> QED BY <2>1, <2>3, <2>4
<1>20. ASSUME NEW k \in keptOf(entry), FirstOf(entry) = entry,
              Len(LoggedLines(i)) > MaxNameLines
       PROVE  IsTold(k)
  <2>1. k \in DOMAIN certificates /\ certificates[k] \in C
    BY <1>8, <1>9, <1>11, <1>12 DEF keptOf
  <2>2. <<"names", "too many">> \in certificates[k].issues
    BY <1>8, <1>18, <1>19, <1>20, <2>1
  <2> QED BY <1>9, <2>1, <2>2 DEF IsTold
<1>21. CASE q \in DOMAIN certificates
  <2>1. /\ certificates[q] = sorted[q] /\ q \in keptOf(entry)
    BY <1>9, <1>12, <1>13, <1>14, <1>16, <1>21 DEF keptOf
  <2>2. built.dropped = 0 \/ Truncated
    <3>1. built.dropped \in Nat
      BY <1>6 DEF Building
    <3> QED BY <1>9, <3>1
  <2>3. ASSUME ~Truncated, NEW name \in Distinct(entry.names), name.form # "email"
        PROVE  \E n \in Distinct(certificates[q].names) : n.raw = name
    <3>1. Classified(name) \in Distinct(certificates[q].names)
      BY <1>13, <1>14, <2>1, <2>2, <2>3 DEF ListedIn
    <3>2. Classified(name).raw = name
      BY DEF Classified
    <3> QED BY <3>1, <3>2
  <2>4. Truncated \/ ListsAll(i, q)
    BY <1>9, <1>17, <2>3 DEF ListsAll
  <2> QED BY <1>2, <1>20, <2>1, <2>4
<1>22. CASE q \notin DOMAIN certificates
  <2>1. Truncated
    BY <1>9, <1>12, <1>14, <1>22
  <2>2. ASSUME NEW k \in DOMAIN certificates,
               NEW t \in time(FirstOf(entry)), NEW u \in time(certificates[k].entry)
        PROVE  t <= u
    <3>1. k < q /\ k \in DOMAIN sorted /\ certificates[k] = sorted[k]
      BY <1>12, <1>14, <1>22
    <3>2. FirstOf(entry) = sorted[q].entry
      BY <1>13, <1>14, <1>15
    <3>3. time(sorted[q].entry) = {From(sorted[q])} /\ From(sorted[q]) \in Int
          /\ time(sorted[k].entry) = {From(sorted[k])} /\ From(sorted[k]) \in Int
      BY <1>11, <3>1, TimeOfEntry DEF time
    <3>4. From(sorted[k]) >= From(sorted[q])
      BY <1>10, <3>1
    <3>5. t = From(sorted[q]) /\ u = From(sorted[k])
      BY <2>2, <3>1, <3>2, <3>3
    <3> QED BY <3>3, <3>4, <3>5
  <2> QED BY <1>2, <1>9, <1>20, <2>1, <2>2
<1> QED BY <1>21, <1>22

(* Whatever the log of certificates answers: an entry that is not in a     *)
(* certificate that is reported, or not with all of its first lines of     *)
(* names, shows as "truncated"; a certificate that is left out is not      *)
(* newer than one that is kept; and of a certificate whose first entry has *)
(* lines beyond the limit "invalid_records" says that it has too many.     *)
THEOREM NothingLoggedIsLost == Spec => []LogIsAccounted
<1>1. ReaderInvariant => LogIsAccounted
  BY LogHolds
<1> QED BY ReaderInit, ReaderStep, <1>1, PTL DEF Spec

-----------------------------------------------------------------------------
(* What "no certificates" is found of.                                     *)
LEMMA EmptyLogHolds ==
  ASSUME ReaderInvariant
  PROVE  EmptyLogIsExplained
<1> DEFINE items == reply.body[2]
           examined == First(items, MaxEntries)
           objects == Objects(examined)
           entries == LogEntries(items)
           E == Distinct(entries)
           R == UNION {Distinct(e.names) : e \in E}
           built == Merged(entries)
           sorted == NewestFirst(built.certificates)
           certificates == First(sorted, MaxCertificates)
           cut == {Cut(items, MaxEntries), Cut(sorted, MaxCertificates),
                   built.dropped, Cut(Covers(certificates), MaxRelationships)}
           invalid == Len(examined) - Len(objects)
           C == CertificatesOf(E, R)
           found(code) == \E f \in result.findings : f.code = code
<1> SUFFICES ASSUME Finished("ct")
             PROVE  /\ found("no_certificates") <=> result.certificates = <<>>
                    /\ result.certificates = <<>> =>
                         /\ reply.status = 200 /\ Is(reply.body, "list")
                         /\ \/ items = <<>>
                            \/ entries = <<>> /\ found("invalid_records")
                            \/ found("truncated")
  BY DEF EmptyLogIsExplained
<1>1. /\ reply.status = 200 /\ Is(reply.body, "list") /\ IsLog(reply.body)
      /\ result = Bounded(items)
  BY LogAnswer
<1>2. /\ result.certificates = certificates
      /\ result.findings =
           ObservedFindings(certificates) \cup NameFindings(certificates)
             \cup TimeFindings(certificates) \cup InvalidFindings(certificates, invalid)
             \cup TruncatedFindings(certificates, cut)
  BY <1>1 DEF Bounded
<1> HIDE DEF certificates, cut, invalid
<1>3. \A code, evidence : CTFinding(code, evidence).code = code
  BY DEF CTFinding
<1>4. \A f \in NameFindings(certificates) :
        f.code \in {"additional_names", "wildcard_names", "unrelated_names"}
  BY <1>3 DEF NameFindings, AboutThose
<1>5. \A f \in TimeFindings(certificates) : f.code \in {"expired", "not_yet_valid"}
  BY <1>3 DEF TimeFindings, AboutThose
<1>6. /\ \A f \in InvalidFindings(certificates, invalid) : f.code = "invalid_records"
      /\ \A f \in TruncatedFindings(certificates, cut) : f.code = "truncated"
  BY <1>3 DEF InvalidFindings, TruncatedFindings
<1>7. /\ certificates = <<>> => found("no_certificates")
      /\ certificates # <<>> => \A f \in ObservedFindings(certificates) :
                                 f.code = "certificates_observed"
  <2>1. ObservedFindings(certificates) =
          {CTFinding(IF certificates = <<>> THEN "no_certificates"
                     ELSE "certificates_observed", DOMAIN certificates)}
    BY DEF ObservedFindings
  <2> QED BY <1>2, <1>3, <2>1
<1>8. found("no_certificates") <=> result.certificates = <<>>
  BY <1>2, <1>4, <1>5, <1>6, <1>7
<1>9. ASSUME NEW n \in cut, n > 0 PROVE found("truncated")
  <2>1. CTFinding("truncated", DOMAIN certificates) \in result.findings
    BY <1>2, <1>9 DEF TruncatedFindings
  <2> QED BY <1>3, <2>1
<1>10. ASSUME invalid # 0 PROVE found("invalid_records")
  <2> DEFINE flawed == {j \in DOMAIN certificates : certificates[j].issues # {}}
  <2>1. CTFinding("invalid_records", flawed) \in InvalidFindings(certificates, invalid)
    BY <1>10 DEF InvalidFindings
  <2> QED BY <1>2, <1>3, <2>1
<1>11. /\ Cut(items, MaxEntries) \in cut /\ Cut(sorted, MaxCertificates) \in cut
  BY DEF cut
<1>12. /\ MaxEntries \in Nat /\ MaxNames \in Nat /\ MaxCertificates \in Nat
       /\ entries \in Seq(E) /\ \A e \in E : IsRead(e)
       /\ Len(objects) \in Nat /\ DOMAIN entries = 1..Len(objects)
       /\ items \in Seq(Distinct(items))
  BY <1>1, LogEntriesAre, CertificatesConstants DEF CertificatesConstants, IsLog, IsSequence
<1>13. \A e \in E : e.names \in Seq(R)
  <2> SUFFICES ASSUME NEW e \in E PROVE e.names \in Seq(R)
    OBVIOUS
  <2>1. e.names \in Seq(Distinct(e.names)) /\ Distinct(e.names) \subseteq R
    BY <1>12 DEF IsRead
  <2> HIDE DEF R
  <2> QED BY <2>1, SequencesGrow
<1>14. built \in Building(E, R) /\ Accounted(entries, built, Len(entries))
  <2> HIDE DEF entries, E, R
  <2> QED BY <1>12, <1>13, MergedAre
<1>15. built.certificates \in Seq(C) /\ \A c \in C : IsRead(c.entry)
  <2> HIDE DEF built, E, R
  <2> QED BY <1>12, <1>14 DEF Building, CertificatesOf
<1> HIDE DEF items, examined, objects, entries, E, R, C, built, sorted, found
<1>16. sorted \in Seq(C) /\ Len(sorted) = Len(built.certificates)
  <2>1. \A c \in C : From(c) \in Int
    BY <1>15, TimeOfEntry
  <2> QED BY <1>15, <2>1, NewestFirstIs DEF sorted
<1>17. ASSUME certificates = <<>>, sorted # <<>> PROVE found("truncated")
  <2>1. Len(sorted) \in Nat /\ Len(sorted) # 0
    BY <1>16, <1>17, LenProperties, EmptySeq
  <2>2. Len(certificates) = 0
    BY <1>17
  <2>3. Cut(sorted, MaxCertificates) = Len(sorted)
    BY <2>1, <2>2 DEF Cut, certificates
  <2> QED BY <1>9, <1>11, <2>1, <2>3
<1>18. ASSUME sorted = <<>> PROVE entries = <<>> /\ Len(objects) = 0
  <2>1. Len(sorted) = 0
    BY <1>18
  <2>2. DOMAIN built.certificates = {}
    <3>1. DOMAIN built.certificates = 1..Len(built.certificates)
      BY <1>15, LenProperties
    <3>2. Len(built.certificates) = 0
      BY <1>16, <2>1
    <3> QED BY <3>1, <3>2
  <2>3. \A j \in 1..Len(entries) : FALSE
    BY <1>14, <2>2 DEF Accounted
  <2>4. Len(entries) \in Nat /\ DOMAIN entries = 1..Len(entries)
    BY <1>12, LenProperties
  <2>5. Len(entries) = 0
    BY <2>3, <2>4
  <2>6. DOMAIN entries = {}
    BY <2>4, <2>5
  <2>7. Len(objects) = 0
    <3>1. 1..Len(objects) = {}
      BY <1>12, <2>6
    <3>2. Len(objects) \in Nat
      BY <1>12
    <3>3. Len(objects) > 0 => 1 \in 1..Len(objects)
      BY <3>2
    <3>4. ~(Len(objects) > 0)
      BY <3>1, <3>3
    <3> QED BY ONLY <3>2, <3>4
  <2> QED BY <1>12, <2>5, <2>7, EmptySeq
<1>19. ASSUME certificates = <<>>
       PROVE  \/ items = <<>>
              \/ entries = <<>> /\ found("invalid_records")
              \/ found("truncated")
  <2>1. CASE sorted # <<>>
    BY <1>17, <1>19, <2>1
  <2>2. CASE sorted = <<>>
    <3>1. Len(examined) \in Nat /\ Len(items) \in Nat
      BY <1>12, FirstItems, LenProperties DEF examined
    <3>2. CASE Len(examined) # 0
      <4>1. invalid # 0
        BY <1>18, <2>2, <3>1, <3>2 DEF invalid
      <4> QED BY <1>10, <1>18, <2>2, <4>1
    <3>3. CASE Len(examined) = 0
      <4>1. Cut(items, MaxEntries) = Len(items)
        BY <3>1, <3>3 DEF Cut, examined
      <4>2. CASE Len(items) = 0
        BY <1>12, <4>2, EmptySeq
      <4>3. CASE Len(items) # 0
        BY <1>9, <1>11, <3>1, <4>1, <4>3
      <4> QED BY <4>2, <4>3
    <3> QED BY <3>2, <3>3
  <2> QED BY <2>1, <2>2
<1> QED BY <1>1, <1>2, <1>8, <1>19

LEMMA ReaderClaims ==
  ASSUME ReaderInvariant, CymruInvariant
  PROVE  ClaimsAreEarned
<1>1. ASSUME NEW s \in Keyed \cup {"rdap"}, Finished(s)
      PROVE  /\ source = s /\ result.error = "none"
             /\ reply \in Replies[s] /\ result = Outcome(reply)
  <2>1. s \in {"virustotal", "abuseipdb", "urlhaus", "malwarebazaar", "rdap"}
    BY DEF Keyed
  <2> QED BY <1>1, <2>1 DEF ReaderInvariant, Finished, Analyzers
<1>2. /\ Finished("virustotal") => result = VirusTotal(reply, indicator)
      /\ Finished("abuseipdb") => result = AbuseIPDB(reply)
      /\ Finished("urlhaus") => result = URLhaus(reply, indicator)
      /\ Finished("malwarebazaar") => result = MalwareBazaar(reply, indicator)
      /\ Finished("rdap") => reply \in Replies["rdap"] /\ result = RegistryAnswer(reply)
  BY <1>1 DEF Keyed, Outcome
<1>3. VerdictIsCounted
  BY <1>2, VerdictHolds
<1>4. /\ ReportsAreCounted
      /\ Finished("abuseipdb") =>
           \/ Of(Data(reply.body), "ipAddress") = Text("same")
           \/ result.confidence = 60 /\ "incomplete" \in result.findings
  BY <1>2, ReportsHold
<1>5. ListingIsOfTheObject
  BY <1>2, URLhausListingHolds, SampleListingHolds DEF ListingIsOfTheObject, Finished
<1>6. ReportIsOfTheObject
  BY <1>2, <1>4, ObjectHolds DEF ReportIsOfTheObject, Finished
<1>7. RegistrationIsOfTheNetwork
  BY <1>2, RegistrationHolds
<1> QED BY <1>3, <1>4, <1>5, <1>6, <1>7, EmptyLogHolds, AnnouncementHolds
        DEF ClaimsAreEarned

(* Whatever a source answers: "no detections" is only found when every     *)
(* verdict was counted and none is bad, "no reports" when the count is     *)
(* zero, a listing when the answer is about what was asked; an address is  *)
(* registered in the smallest network that has it, to organizations that   *)
(* some entity names, in no card that says it is an individual's among the *)
(* properties that are read; "no certificates" is found of an empty list,  *)
(* of one without an object with "invalid_records", or with "truncated";   *)
(* and "not announced" only when the DNS has no record.                    *)
THEOREM ClaimsHold == Spec => []ClaimsAreEarned
<1>1. ReaderInvariant /\ CymruInvariant => ClaimsAreEarned
  BY ReaderClaims
<1>2. CymruInvariant /\ [Next]_vars => CymruInvariant'
  BY CymruStep, AnswersConstants, AsnConstants
<1> QED BY ReaderInit, ReaderStep, CymruInit, <1>1, <1>2, PTL DEF Spec

=============================================================================
