-------------------------- MODULE CommandProofs ---------------------------
(***************************************************************************)
(* Machine-checked proofs about Command, for any number of invocations at  *)
(* once, called with whatever arguments, variables and targets: how a run  *)
(* ends, what it overwrites, which key goes where, and that the arms of    *)
(* classify_v4, classify_v6 and the list of special suffixes agree with    *)
(* the registries on every address and every name.                         *)
(***************************************************************************)
EXTENDS Command, FoldLemmas, SequenceTheorems, TLAPS

(* Every table has an entry for each run. *)
Tables ==
  /\ DOMAIN invocation = Runs /\ DOMAIN phase = Runs /\ DOMAIN target = Runs
  /\ DOMAIN credentials = Runs /\ DOMAIN config = Runs /\ DOMAIN asked = Runs
  /\ DOMAIN report = Runs /\ DOMAIN exit = Runs /\ DOMAIN stdout = Runs

-----------------------------------------------------------------------------
(* The operators the model is built from *)

LEMMA RecordsAreSomething ==
  /\ \A a, b : [report |-> a, parts |-> b] # None
  /\ \A a, b : [kind |-> a, value |-> b] # None
  /\ \A a, b, c : [by |-> a, format |-> b, correlated |-> c] # None
<1>1. DOMAIN None = {}
  BY DEF None
<1>2. ASSUME NEW a, NEW b PROVE [report |-> a, parts |-> b] # None
  <2>1. "report" \in DOMAIN [report |-> a, parts |-> b]
    OBVIOUS
  <2>2. QED
    BY <1>1, <2>1
<1>3. ASSUME NEW a, NEW b PROVE [kind |-> a, value |-> b] # None
  <2>1. "kind" \in DOMAIN [kind |-> a, value |-> b]
    OBVIOUS
  <2>2. QED
    BY <1>1, <2>1
<1>4. ASSUME NEW a, NEW b, NEW c
      PROVE  [by |-> a, format |-> b, correlated |-> c] # None
  <2>1. "by" \in DOMAIN [by |-> a, format |-> b, correlated |-> c]
    OBVIOUS
  <2>2. QED
    BY <1>1, <2>1
<1>5. QED
  BY <1>2, <1>3, <1>4

(* A part of a report is written after those before it. *)
PartsSoFar == {<<>>, <<"first">>, Parts}

LEMMA AppendToOne ==
  ASSUME NEW S, NEW s \in Seq(S), Len(s) = 1, NEW w \in S
  PROVE  /\ Append(s, w) \in Seq(S) /\ Len(Append(s, w)) = 2
         /\ Append(s, w)[1] = s[1] /\ Append(s, w)[2] = w
<1>1. Append(s, w) \in Seq(S)
  BY AppendProperties
<1>2. Len(Append(s, w)) = Len(s) + 1
  BY AppendProperties
<1>3. Append(s, w)[1] = s[1]
  BY ONLY s \in Seq(S), Len(s) = 1, w \in S, SMTT(30)
<1>4. Append(s, w)[Len(s) + 1] = w
  BY AppendProperties
<1>5. Len(s) + 1 = 2
  OBVIOUS
<1>6. QED
  BY <1>1, <1>2, <1>3, <1>4, <1>5

LEMMA NextPart ==
  ASSUME NEW parts \in PartsSoFar, parts # Parts
  PROVE  LET more == Append(parts, Parts[Len(parts) + 1])
         IN /\ more \in PartsSoFar
            /\ Len(parts) <= Len(more)
            /\ SubSeq(more, 1, Len(parts)) = parts
<1>1. CASE parts = <<>>
  BY <1>1 DEF PartsSoFar, Parts
<1>2. CASE parts = <<"first">>
  <2>1. Len(parts) = 1 /\ Parts[2] = "second"
    BY <1>2 DEF Parts
  <2> DEFINE Words == {"first", "second"}
  <2>2. /\ parts \in Seq(Words) /\ Parts \in Seq(Words)
        /\ Len(Parts) = 2 /\ Parts[1] = parts[1]
    <3>1. parts \in Seq(Words) /\ Len(Parts) = 2
      BY <1>2 DEF Parts
    <3>2. Parts \in Seq(Words)
      BY DEF Parts
    <3>3. Parts[1] = parts[1]
      BY <1>2 DEF Parts
    <3>4. QED
      BY <3>1, <3>2, <3>3
  <2>3. Append(parts, "second") = Parts
    <3>1. /\ Append(parts, "second") \in Seq(Words)
          /\ Len(Append(parts, "second")) = 2
          /\ Append(parts, "second")[1] = parts[1]
          /\ Append(parts, "second")[2] = "second"
      BY <2>1, <2>2, AppendToOne
    <3>2. QED
      BY <2>1, <2>2, <3>1, SeqEqual
  <2>4. SubSeq(Parts, 1, 1) = parts
    <3>1. /\ SubSeq(Parts, 1, 1) \in Seq(Words)
          /\ Len(SubSeq(Parts, 1, 1)) = 1
          /\ SubSeq(Parts, 1, 1)[1] = Parts[1]
      BY <2>2, SubSeqProperties
    <3>2. QED
      BY <2>1, <2>2, <3>1, SeqEqual
  <2> HIDE DEF Parts
  <2>5. QED
    BY <2>1, <2>2, <2>3, <2>4 DEF PartsSoFar
<1>3. QED
  BY <1>1, <1>2 DEF PartsSoFar

LEMMA OutcomesDiffer ==
  /\ \A why : Failed(Failure(why))
  /\ \A indicator : ~Failed(Success(indicator))
  BY DEF Failed, Failure, Success

(* A parser that does not fail gives an indicator, of some kind. *)
IsIndicator(indicator) ==
  \E kind, value : indicator = [kind |-> kind, value |-> value]

Gives(outcome) ==
  Failed(outcome) \/ \E i : IsIndicator(i) /\ outcome = Success(i)

LEMMA ParsersGive ==
  /\ \A text : Gives(ParseName(text))
  /\ \A text : Gives(ParseAddress(text))
  /\ \A text : Gives(ParseDigest(text))
  BY OutcomesDiffer, Zenon
     DEF Gives, IsIndicator, ParseName, ParseAddress, OfAddress, ParseDigest

LEMMA ParsedGives ==
  ASSUME NEW raw, NEW kind
  PROVE  Gives(Parsed(raw, kind))
<1>1. CASE Failed(Prepare(raw))
  BY <1>1 DEF Parsed, Gives
<1>2. CASE ~Failed(Prepare(raw)) /\ Prepare(raw).indicator.defanged
  BY <1>2, OutcomesDiffer DEF Parsed, Gives
<1>3. CASE ~Failed(Prepare(raw)) /\ ~Prepare(raw).indicator.defanged
  BY <1>3, ParsersGive DEF Parsed
<1>4. QED
  BY <1>1, <1>2, <1>3

LEMMA AcceptedTarget ==
  ASSUME NEW call, Accepted(call)
  PROVE  /\ ParseTarget(call).indicator # None
         /\ IsInvestigable(ParseTarget(call).indicator)
         /\ ParseTarget(call) = ParseSyntax(call) /\ ~Failed(ParseSyntax(call))
<1>1. Gives(ParseSyntax(call))
  BY ParsedGives, OutcomesDiffer DEF ParseSyntax, Gives
<1>2. /\ ParseTarget(call) = ParseSyntax(call)
      /\ ~Failed(ParseSyntax(call))
      /\ IsInvestigable(ParseSyntax(call).indicator)
  BY OutcomesDiffer DEF Accepted, ParseTarget
<1>3. PICK i : IsIndicator(i) /\ ParseSyntax(call) = Success(i)
  BY <1>1, <1>2 DEF Gives
<1>4. Success(i).indicator = i
  BY DEF Success
<1>5. QED
  BY <1>2, <1>3, <1>4, RecordsAreSomething DEF IsIndicator

-----------------------------------------------------------------------------
(* Which addresses are public: the arms of the match in net.rs and the     *)
(* longest prefixes of the registries come to the same.                    *)

V4s == [1..4 -> Octet]
V6s == [1..8 -> Segment]

LEMMA SegmentIs ==
   \A n : n \in Segment <=> n \in Nat /\ n < 65536
<1> DEFINE m == 2 ^ 16
<1>0. m \in Nat
  OBVIOUS
<1>1. m = 65536
  OBVIOUS
<1> HIDE DEF m
<1>2. \A n : n \in 0..(m - 1) <=> n \in Nat /\ n < m
  BY ONLY <1>0
<1>3. Segment = 0..(m - 1)
  BY DEF Segment, m
<1>4. \A n : n \in Segment <=> n \in Nat /\ n < m
  BY <1>2, <1>3
<1> QED BY ONLY <1>1, <1>4

(* A number with its last bits cleared. *)
Multiple(n, m) == n - (n % m)
Cleared(n, bits) == Multiple(n, 2 ^ bits)

LEMMA DivisionIs ==
  ASSUME NEW n \in Nat, NEW m \in Nat \ {0}
  PROVE  /\ n \div m \in Nat /\ n % m \in 0..(m - 1)
         /\ n = m * (n \div m) + (n % m)
BY SMT

LEMMA InBlock ==
  ASSUME NEW n \in Nat, NEW m \in Nat \ {0}, NEW k \in Nat
  PROVE  Multiple(n, m) = m * k <=> m * k <= n /\ n < m * k + m
<1> DEFINE q == n \div m
           r == n % m
<1>1. q \in Nat /\ r \in 0..(m - 1) /\ n = m * q + r
  BY DivisionIs
<1> HIDE DEF q, r
<1>2. n - r = m * q /\ m * q \in Int /\ m * k \in Int
  BY <1>1
<1>3. ASSUME q < k PROVE ~(m * k <= n)
  <2>1. q + 1 <= k
    BY <1>1, <1>3
  <2>2. m * (q + 1) <= m * k
    BY <1>1, <2>1
  <2>3. m * (q + 1) = m * q + m
    BY <1>1
  <2> QED BY <1>1, <1>2, <2>2, <2>3
<1>4. ASSUME k < q PROVE ~(n < m * k + m)
  <2>1. k + 1 <= q
    BY <1>1, <1>4
  <2>2. m * (k + 1) <= m * q
    BY <1>1, <2>1
  <2>3. m * (k + 1) = m * k + m
    BY <1>1
  <2> QED BY <1>1, <1>2, <2>2, <2>3
<1>5. ASSUME q = k PROVE n - r = m * k /\ m * k <= n /\ n < m * k + m
  BY <1>1, <1>2, <1>5
<1>6. ASSUME n - r = m * k PROVE m * k <= n /\ n < m * k + m
  BY <1>1, <1>2, <1>6
<1>7. q < k \/ k < q \/ q = k
  BY <1>1
<1> QED BY <1>3, <1>4, <1>5, <1>6, <1>7 DEF r, Multiple

(* The numbers that are a given one once their last bits are cleared.      *)
LEMMA BlockIs ==
  ASSUME NEW n \in Nat, NEW m \in Nat \ {0}, NEW low \in Nat,
         \E k \in Nat : low = m * k
  PROVE  Multiple(n, m) = low <=> low <= n /\ n < low + m
<1> PICK k \in Nat : low = m * k
  OBVIOUS
<1> QED BY InBlock

(* The bits that the prefixes of the registries leave of an octet or a     *)
(* segment.                                                                *)
LEMMA Octets ==
  ASSUME NEW n \in Octet
  PROVE  /\ Cleared(n, 0) = n /\ Cleared(n, 8) = 0
         /\ Cleared(n, 1) = 18 <=> n \in 18..19
         /\ Cleared(n, 4) = 16 <=> n \in 16..31
         /\ Cleared(n, 4) = 224 <=> n \in 224..239
         /\ Cleared(n, 4) = 240 <=> n \in 240..255
         /\ Cleared(n, 6) = 64 <=> n \in 64..127
<1>2. n \in Nat /\ n < 256
  BY DEF Octet
<1>3. Cleared(n, 0) = n
  <2>1. 2 ^ 0 = 1 /\ n = 1 * n
    BY <1>2
  <2>2. Multiple(n, 1) = n <=> n <= n /\ n < n + 1
    BY <1>2, <2>1, BlockIs
  <2>3. Cleared(n, 0) = Multiple(n, 1)
    BY <2>1 DEF Cleared
  <2> QED BY <1>2, <2>2, <2>3
<1>4. Cleared(n, 8) = 0
  <2>1. 2 ^ 8 = 256 /\ 0 = 256 * 0
    BY <1>2
  <2>2. Multiple(n, 256) = 0 <=> 0 <= n /\ n < 0 + 256
    BY <1>2, <2>1, BlockIs
  <2>3. Cleared(n, 8) = Multiple(n, 256)
    BY <2>1 DEF Cleared
  <2> QED BY <1>2, <2>2, <2>3
<1>5. Cleared(n, 1) = 18 <=> n \in 18..19
  <2>1. 2 ^ 1 = 2 /\ 18 = 2 * 9
    BY <1>2
  <2>2. Multiple(n, 2) = 18 <=> 18 <= n /\ n < 18 + 2
    BY <1>2, <2>1, BlockIs
  <2>3. Cleared(n, 1) = Multiple(n, 2)
    BY <2>1 DEF Cleared
  <2> QED BY <1>2, <2>2, <2>3
<1>6. Cleared(n, 4) = 16 <=> n \in 16..31
  <2>1. 2 ^ 4 = 16 /\ 16 = 16 * 1
    BY <1>2
  <2>2. Multiple(n, 16) = 16 <=> 16 <= n /\ n < 16 + 16
    BY <1>2, <2>1, BlockIs
  <2>3. Cleared(n, 4) = Multiple(n, 16)
    BY <2>1 DEF Cleared
  <2> QED BY <1>2, <2>2, <2>3
<1>7. Cleared(n, 4) = 224 <=> n \in 224..239
  <2>1. 2 ^ 4 = 16 /\ 224 = 16 * 14
    BY <1>2
  <2>2. Multiple(n, 16) = 224 <=> 224 <= n /\ n < 224 + 16
    BY <1>2, <2>1, BlockIs
  <2>3. Cleared(n, 4) = Multiple(n, 16)
    BY <2>1 DEF Cleared
  <2> QED BY <1>2, <2>2, <2>3
<1>8. Cleared(n, 4) = 240 <=> n \in 240..255
  <2>1. 2 ^ 4 = 16 /\ 240 = 16 * 15
    BY <1>2
  <2>2. Multiple(n, 16) = 240 <=> 240 <= n /\ n < 240 + 16
    BY <1>2, <2>1, BlockIs
  <2>3. Cleared(n, 4) = Multiple(n, 16)
    BY <2>1 DEF Cleared
  <2> QED BY <1>2, <2>2, <2>3
<1>9. Cleared(n, 6) = 64 <=> n \in 64..127
  <2>1. 2 ^ 6 = 64 /\ 64 = 64 * 1
    BY <1>2
  <2>2. Multiple(n, 64) = 64 <=> 64 <= n /\ n < 64 + 64
    BY <1>2, <2>1, BlockIs
  <2>3. Cleared(n, 6) = Multiple(n, 64)
    BY <2>1 DEF Cleared
  <2> QED BY <1>2, <2>2, <2>3
<1> QED BY <1>3, <1>4, <1>5, <1>6, <1>7, <1>8, <1>9

LEMMA Segments ==
  ASSUME NEW n \in Segment
  PROVE  /\ Cleared(n, 0) = n /\ Cleared(n, 16) = 0
         /\ Cleared(n, 13) = 8192 <=> 8192 <= n /\ n <= 16383
         /\ Cleared(n, 12) = 0 <=> n < 4096
         /\ Cleared(n, 9) = 0 <=> n < 512
         /\ Cleared(n, 9) = 64512 <=> 64512 <= n /\ n <= 65023
         /\ Cleared(n, 6) = 65152 <=> 65152 <= n /\ n <= 65215
         /\ Cleared(n, 8) = 65280 <=> 65280 <= n /\ n <= 65535
<1>2. n \in Nat /\ n < 65536
  BY SegmentIs
<1>3. Cleared(n, 0) = n
  <2>1. 2 ^ 0 = 1 /\ n = 1 * n
    BY <1>2
  <2>2. Multiple(n, 1) = n <=> n <= n /\ n < n + 1
    BY <1>2, <2>1, BlockIs
  <2>3. Cleared(n, 0) = Multiple(n, 1)
    BY <2>1 DEF Cleared
  <2> QED BY <1>2, <2>2, <2>3
<1>5. Cleared(n, 16) = 0
  <2>1. 2 ^ 16 = 65536 /\ 0 = 65536 * 0
    BY <1>2
  <2>2. Multiple(n, 65536) = 0 <=> 0 <= n /\ n < 0 + 65536
    BY <1>2, <2>1, BlockIs
  <2>3. Cleared(n, 16) = Multiple(n, 65536)
    BY <2>1 DEF Cleared
  <2> QED BY <1>2, <2>2, <2>3
<1>6. Cleared(n, 13) = 8192 <=> 8192 <= n /\ n <= 16383
  <2>1. 2 ^ 13 = 8192 /\ 8192 = 8192 * 1
    BY <1>2
  <2>2. Multiple(n, 8192) = 8192 <=> 8192 <= n /\ n < 8192 + 8192
    BY <1>2, <2>1, BlockIs
  <2>3. Cleared(n, 13) = Multiple(n, 8192)
    BY <2>1 DEF Cleared
  <2> QED BY <1>2, <2>2, <2>3
<1>7. Cleared(n, 12) = 0 <=> n < 4096
  <2>1. 2 ^ 12 = 4096 /\ 0 = 4096 * 0
    BY <1>2
  <2>2. Multiple(n, 4096) = 0 <=> 0 <= n /\ n < 0 + 4096
    BY <1>2, <2>1, BlockIs
  <2>3. Cleared(n, 12) = Multiple(n, 4096)
    BY <2>1 DEF Cleared
  <2> QED BY <1>2, <2>2, <2>3
<1>8. Cleared(n, 9) = 0 <=> n < 512
  <2>1. 2 ^ 9 = 512 /\ 0 = 512 * 0
    BY <1>2
  <2>2. Multiple(n, 512) = 0 <=> 0 <= n /\ n < 0 + 512
    BY <1>2, <2>1, BlockIs
  <2>3. Cleared(n, 9) = Multiple(n, 512)
    BY <2>1 DEF Cleared
  <2> QED BY <1>2, <2>2, <2>3
<1>9. Cleared(n, 9) = 64512 <=> 64512 <= n /\ n <= 65023
  <2>1. 2 ^ 9 = 512 /\ 64512 = 512 * 126
    BY <1>2
  <2>2. Multiple(n, 512) = 64512 <=> 64512 <= n /\ n < 64512 + 512
    BY <1>2, <2>1, BlockIs
  <2>3. Cleared(n, 9) = Multiple(n, 512)
    BY <2>1 DEF Cleared
  <2> QED BY <1>2, <2>2, <2>3
<1>10. Cleared(n, 6) = 65152 <=> 65152 <= n /\ n <= 65215
  <2>1. 2 ^ 6 = 64 /\ 65152 = 64 * 1018
    BY <1>2
  <2>2. Multiple(n, 64) = 65152 <=> 65152 <= n /\ n < 65152 + 64
    BY <1>2, <2>1, BlockIs
  <2>3. Cleared(n, 6) = Multiple(n, 64)
    BY <2>1 DEF Cleared
  <2> QED BY <1>2, <2>2, <2>3
<1>11. Cleared(n, 8) = 65280 <=> 65280 <= n /\ n <= 65535
  <2>1. 2 ^ 8 = 256 /\ 65280 = 256 * 255
    BY <1>2
  <2>2. Multiple(n, 256) = 65280 <=> 65280 <= n /\ n < 65280 + 256
    BY <1>2, <2>1, BlockIs
  <2>3. Cleared(n, 8) = Multiple(n, 256)
    BY <2>1 DEF Cleared
  <2> QED BY <1>2, <2>2, <2>3
<1> QED BY <1>3, <1>5, <1>6, <1>7, <1>8, <1>9, <1>10, <1>11

(* The bits of a unit that a prefix leaves. *)
Left(length, before, bits) == bits - Between(0, length - before, bits)

LEMMA CoversV4 ==
  ASSUME NEW ip \in V4s, NEW a, NEW b, NEW c, NEW d, NEW length \in Nat
  PROVE  Covers(Prefix(<<a, b, c, d>>, length), ip) <=>
           /\ Cleared(ip[1], Left(length, 0, 8)) = a
           /\ Cleared(ip[2], Left(length, 8, 8)) = b
           /\ Cleared(ip[3], Left(length, 16, 8)) = c
           /\ Cleared(ip[4], Left(length, 24, 8)) = d
<1> DEFINE net == <<a, b, c, d>>
           F == [i \in 1..4 |-> Cleared(ip[i], Left(length, (i - 1) * 8, 8))]
<1>1. Len(ip) = 4 /\ Len(net) = 4 /\ UnitBits(ip) = 8
  BY DEF UnitBits, V4s
<1>2. Mask(ip, length) = F
  <2>1. Mask(ip, length)
          = [i \in 1..Len(ip) |-> ip[i] - (ip[i] % 2 ^ (UnitBits(ip)
               - Between(0, length - (i - 1) * UnitBits(ip), UnitBits(ip))))]
    BY DEF Mask
  <2> QED BY <1>1, <2>1 DEF Cleared, Multiple, Left
<1>3. Prefix(net, length).network = net /\ Prefix(net, length).length = length
  BY DEF Prefix
<1>4. /\ F[1] = Cleared(ip[1], Left(length, 0, 8))
      /\ F[2] = Cleared(ip[2], Left(length, 8, 8))
      /\ F[3] = Cleared(ip[3], Left(length, 16, 8))
      /\ F[4] = Cleared(ip[4], Left(length, 24, 8))
  OBVIOUS
<1>5. F = net <=> F[1] = a /\ F[2] = b /\ F[3] = c /\ F[4] = d
  <2>1. F = [i \in 1..4 |-> F[i]]
    OBVIOUS
  <2> HIDE DEF F
  <2>2. net = [i \in 1..4 |-> net[i]]
    OBVIOUS
  <2>3. (\A i \in 1..4 : F[i] = net[i]) => F = net
    BY <2>1, <2>2
  <2> QED BY <2>3
<1> DEFINE prefix == Prefix(net, length)
<1> HIDE DEF net, F, prefix
<1>6. Covers(prefix, ip) <=> F = net
  BY <1>1, <1>2, <1>3 DEF Covers, prefix
<1> QED BY <1>4, <1>5, <1>6 DEF net, prefix

LEMMA ShapeV4 ==
  ASSUME NEW ip \in V4s
  PROVE  ip \in Seq(Octet) /\ Len(ip) = 4 /\ DOMAIN ip = 1..4 /\ UnitBits(ip) = 8
<1>1. ip \in Seq(Octet) /\ DOMAIN ip = 1..4
  BY FunctionIsSeq DEF V4s
<1>2. Len(ip) = 4
  BY <1>1, LenProperties
<1> QED BY <1>1, <1>2 DEF UnitBits

LEMMA ShapeV6 ==
  ASSUME NEW ip \in V6s
  PROVE  ip \in Seq(Segment) /\ Len(ip) = 8 /\ DOMAIN ip = 1..8 /\ UnitBits(ip) = 16
<1>1. ip \in Seq(Segment) /\ DOMAIN ip = 1..8
  BY FunctionIsSeq DEF V6s
<1>2. Len(ip) = 8
  BY <1>1, LenProperties
<1> QED BY <1>1, <1>2 DEF UnitBits

LEMMA CoversV6 ==
  ASSUME NEW ip \in V6s, NEW length \in Nat, NEW net, DOMAIN net = 1..8, Len(net) = 8,
         net = [i \in 1..8 |-> net[i]]
  PROVE  Covers(Prefix(net, length), ip) <=>
           /\ Cleared(ip[1], Left(length, 0, 16)) = net[1]
           /\ Cleared(ip[2], Left(length, 16, 16)) = net[2]
           /\ Cleared(ip[3], Left(length, 32, 16)) = net[3]
           /\ Cleared(ip[4], Left(length, 48, 16)) = net[4]
           /\ Cleared(ip[5], Left(length, 64, 16)) = net[5]
           /\ Cleared(ip[6], Left(length, 80, 16)) = net[6]
           /\ Cleared(ip[7], Left(length, 96, 16)) = net[7]
           /\ Cleared(ip[8], Left(length, 112, 16)) = net[8]
<1> DEFINE F == [i \in 1..8 |-> Cleared(ip[i], Left(length, (i - 1) * 16, 16))]
<1>1. Len(ip) = 8 /\ UnitBits(ip) = 16
  BY ShapeV6
<1>2. Mask(ip, length) = F
  <2>1. Mask(ip, length)
          = [i \in 1..Len(ip) |-> ip[i] - (ip[i] % 2 ^ (UnitBits(ip)
               - Between(0, length - (i - 1) * UnitBits(ip), UnitBits(ip))))]
    BY DEF Mask
  <2> QED BY <1>1, <2>1 DEF Cleared, Multiple, Left
<1>3. Prefix(net, length).network = net /\ Prefix(net, length).length = length
  BY DEF Prefix
<1>4. /\ F[1] = Cleared(ip[1], Left(length, 0, 16))
      /\ F[2] = Cleared(ip[2], Left(length, 16, 16))
      /\ F[3] = Cleared(ip[3], Left(length, 32, 16))
      /\ F[4] = Cleared(ip[4], Left(length, 48, 16))
      /\ F[5] = Cleared(ip[5], Left(length, 64, 16))
      /\ F[6] = Cleared(ip[6], Left(length, 80, 16))
      /\ F[7] = Cleared(ip[7], Left(length, 96, 16))
      /\ F[8] = Cleared(ip[8], Left(length, 112, 16))
  OBVIOUS
<1>5. F = net <=> \A i \in 1..8 : F[i] = net[i]
  <2>1. F = [i \in 1..8 |-> F[i]]
    OBVIOUS
  <2> HIDE DEF F
  <2> QED BY <2>1
<1> HIDE DEF F
<1>6. (\A i \in 1..8 : F[i] = net[i]) <=>
        /\ F[1] = net[1] /\ F[2] = net[2] /\ F[3] = net[3] /\ F[4] = net[4]
        /\ F[5] = net[5] /\ F[6] = net[6] /\ F[7] = net[7] /\ F[8] = net[8]
  <2>1. 1..8 = {1, 2, 3, 4, 5, 6, 7, 8}
    OBVIOUS
  <2> QED BY <2>1
<1> QED BY <1>1, <1>2, <1>3, <1>4, <1>5, <1>6 DEF Covers

(* What each prefix of the registry covers, octet by octet. *)
LEMMA RangesV4 ==
  ASSUME NEW ip \in V4s
  PROVE
    /\ Covers(Prefix(<<0, 0, 0, 0>>, 0), ip) <=> (TRUE)
    /\ Covers(Prefix(<<0, 0, 0, 0>>, 8), ip) <=> (ip[1] = 0)
    /\ Covers(Prefix(<<0, 0, 0, 0>>, 32), ip) <=> (ip[1] = 0 /\ ip[2] = 0 /\ ip[3] = 0 /\ ip[4] = 0)
    /\ Covers(Prefix(<<10, 0, 0, 0>>, 8), ip) <=> (ip[1] = 10)
    /\ Covers(Prefix(<<172, 16, 0, 0>>, 12), ip) <=> (ip[1] = 172 /\ ip[2] \in 16..31)
    /\ Covers(Prefix(<<192, 168, 0, 0>>, 16), ip) <=> (ip[1] = 192 /\ ip[2] = 168)
    /\ Covers(Prefix(<<100, 64, 0, 0>>, 10), ip) <=> (ip[1] = 100 /\ ip[2] \in 64..127)
    /\ Covers(Prefix(<<127, 0, 0, 0>>, 8), ip) <=> (ip[1] = 127)
    /\ Covers(Prefix(<<169, 254, 0, 0>>, 16), ip) <=> (ip[1] = 169 /\ ip[2] = 254)
    /\ Covers(Prefix(<<192, 0, 0, 0>>, 24), ip) <=> (ip[1] = 192 /\ ip[2] = 0 /\ ip[3] = 0)
    /\ Covers(Prefix(<<192, 88, 99, 0>>, 24), ip) <=> (ip[1] = 192 /\ ip[2] = 88 /\ ip[3] = 99)
    /\ Covers(Prefix(<<192, 0, 2, 0>>, 24), ip) <=> (ip[1] = 192 /\ ip[2] = 0 /\ ip[3] = 2)
    /\ Covers(Prefix(<<198, 51, 100, 0>>, 24), ip) <=> (ip[1] = 198 /\ ip[2] = 51 /\ ip[3] = 100)
    /\ Covers(Prefix(<<203, 0, 113, 0>>, 24), ip) <=> (ip[1] = 203 /\ ip[2] = 0 /\ ip[3] = 113)
    /\ Covers(Prefix(<<198, 18, 0, 0>>, 15), ip) <=> (ip[1] = 198 /\ ip[2] \in 18..19)
    /\ Covers(Prefix(<<224, 0, 0, 0>>, 4), ip) <=> (ip[1] \in 224..239)
    /\ Covers(Prefix(<<240, 0, 0, 0>>, 4), ip) <=> (ip[1] \in 240..255)
    /\ Covers(Prefix(<<255, 255, 255, 255>>, 32), ip) <=> (ip[1] = 255 /\ ip[2] = 255 /\ ip[3] = 255 /\ ip[4] = 255)
<1>0. ip[1] \in Octet /\ ip[2] \in Octet /\ ip[3] \in Octet /\ ip[4] \in Octet
  BY DEF V4s
<1>1. Covers(Prefix(<<0, 0, 0, 0>>, 0), ip) <=> (TRUE)
  <2>1. Left(0, 0, 8) = 8 /\ Left(0, 8, 8) = 8 /\ Left(0, 16, 8) = 8 /\ Left(0, 24, 8) = 8
    BY DEF Left, Between
  <2>2. 0 \in Nat
    OBVIOUS
  <2> QED BY <1>0, <2>1, <2>2, CoversV4, Octets
<1>2. Covers(Prefix(<<0, 0, 0, 0>>, 8), ip) <=> (ip[1] = 0)
  <2>1. Left(8, 0, 8) = 0 /\ Left(8, 8, 8) = 8 /\ Left(8, 16, 8) = 8 /\ Left(8, 24, 8) = 8
    BY DEF Left, Between
  <2>2. 8 \in Nat
    OBVIOUS
  <2> QED BY <1>0, <2>1, <2>2, CoversV4, Octets
<1>3. Covers(Prefix(<<0, 0, 0, 0>>, 32), ip) <=> (ip[1] = 0 /\ ip[2] = 0 /\ ip[3] = 0 /\ ip[4] = 0)
  <2>1. Left(32, 0, 8) = 0 /\ Left(32, 8, 8) = 0 /\ Left(32, 16, 8) = 0 /\ Left(32, 24, 8) = 0
    BY DEF Left, Between
  <2>2. 32 \in Nat
    OBVIOUS
  <2> QED BY <1>0, <2>1, <2>2, CoversV4, Octets
<1>4. Covers(Prefix(<<10, 0, 0, 0>>, 8), ip) <=> (ip[1] = 10)
  <2>1. Left(8, 0, 8) = 0 /\ Left(8, 8, 8) = 8 /\ Left(8, 16, 8) = 8 /\ Left(8, 24, 8) = 8
    BY DEF Left, Between
  <2>2. 8 \in Nat
    OBVIOUS
  <2> QED BY <1>0, <2>1, <2>2, CoversV4, Octets
<1>5. Covers(Prefix(<<172, 16, 0, 0>>, 12), ip) <=> (ip[1] = 172 /\ ip[2] \in 16..31)
  <2>1. Left(12, 0, 8) = 0 /\ Left(12, 8, 8) = 4 /\ Left(12, 16, 8) = 8 /\ Left(12, 24, 8) = 8
    BY DEF Left, Between
  <2>2. 12 \in Nat
    OBVIOUS
  <2> QED BY <1>0, <2>1, <2>2, CoversV4, Octets
<1>6. Covers(Prefix(<<192, 168, 0, 0>>, 16), ip) <=> (ip[1] = 192 /\ ip[2] = 168)
  <2>1. Left(16, 0, 8) = 0 /\ Left(16, 8, 8) = 0 /\ Left(16, 16, 8) = 8 /\ Left(16, 24, 8) = 8
    BY DEF Left, Between
  <2>2. 16 \in Nat
    OBVIOUS
  <2> QED BY <1>0, <2>1, <2>2, CoversV4, Octets
<1>7. Covers(Prefix(<<100, 64, 0, 0>>, 10), ip) <=> (ip[1] = 100 /\ ip[2] \in 64..127)
  <2>1. Left(10, 0, 8) = 0 /\ Left(10, 8, 8) = 6 /\ Left(10, 16, 8) = 8 /\ Left(10, 24, 8) = 8
    BY DEF Left, Between
  <2>2. 10 \in Nat
    OBVIOUS
  <2> QED BY <1>0, <2>1, <2>2, CoversV4, Octets
<1>8. Covers(Prefix(<<127, 0, 0, 0>>, 8), ip) <=> (ip[1] = 127)
  <2>1. Left(8, 0, 8) = 0 /\ Left(8, 8, 8) = 8 /\ Left(8, 16, 8) = 8 /\ Left(8, 24, 8) = 8
    BY DEF Left, Between
  <2>2. 8 \in Nat
    OBVIOUS
  <2> QED BY <1>0, <2>1, <2>2, CoversV4, Octets
<1>9. Covers(Prefix(<<169, 254, 0, 0>>, 16), ip) <=> (ip[1] = 169 /\ ip[2] = 254)
  <2>1. Left(16, 0, 8) = 0 /\ Left(16, 8, 8) = 0 /\ Left(16, 16, 8) = 8 /\ Left(16, 24, 8) = 8
    BY DEF Left, Between
  <2>2. 16 \in Nat
    OBVIOUS
  <2> QED BY <1>0, <2>1, <2>2, CoversV4, Octets
<1>10. Covers(Prefix(<<192, 0, 0, 0>>, 24), ip) <=> (ip[1] = 192 /\ ip[2] = 0 /\ ip[3] = 0)
  <2>1. Left(24, 0, 8) = 0 /\ Left(24, 8, 8) = 0 /\ Left(24, 16, 8) = 0 /\ Left(24, 24, 8) = 8
    BY DEF Left, Between
  <2>2. 24 \in Nat
    OBVIOUS
  <2> QED BY <1>0, <2>1, <2>2, CoversV4, Octets
<1>11. Covers(Prefix(<<192, 88, 99, 0>>, 24), ip) <=> (ip[1] = 192 /\ ip[2] = 88 /\ ip[3] = 99)
  <2>1. Left(24, 0, 8) = 0 /\ Left(24, 8, 8) = 0 /\ Left(24, 16, 8) = 0 /\ Left(24, 24, 8) = 8
    BY DEF Left, Between
  <2>2. 24 \in Nat
    OBVIOUS
  <2> QED BY <1>0, <2>1, <2>2, CoversV4, Octets
<1>12. Covers(Prefix(<<192, 0, 2, 0>>, 24), ip) <=> (ip[1] = 192 /\ ip[2] = 0 /\ ip[3] = 2)
  <2>1. Left(24, 0, 8) = 0 /\ Left(24, 8, 8) = 0 /\ Left(24, 16, 8) = 0 /\ Left(24, 24, 8) = 8
    BY DEF Left, Between
  <2>2. 24 \in Nat
    OBVIOUS
  <2> QED BY <1>0, <2>1, <2>2, CoversV4, Octets
<1>13. Covers(Prefix(<<198, 51, 100, 0>>, 24), ip) <=> (ip[1] = 198 /\ ip[2] = 51 /\ ip[3] = 100)
  <2>1. Left(24, 0, 8) = 0 /\ Left(24, 8, 8) = 0 /\ Left(24, 16, 8) = 0 /\ Left(24, 24, 8) = 8
    BY DEF Left, Between
  <2>2. 24 \in Nat
    OBVIOUS
  <2> QED BY <1>0, <2>1, <2>2, CoversV4, Octets
<1>14. Covers(Prefix(<<203, 0, 113, 0>>, 24), ip) <=> (ip[1] = 203 /\ ip[2] = 0 /\ ip[3] = 113)
  <2>1. Left(24, 0, 8) = 0 /\ Left(24, 8, 8) = 0 /\ Left(24, 16, 8) = 0 /\ Left(24, 24, 8) = 8
    BY DEF Left, Between
  <2>2. 24 \in Nat
    OBVIOUS
  <2> QED BY <1>0, <2>1, <2>2, CoversV4, Octets
<1>15. Covers(Prefix(<<198, 18, 0, 0>>, 15), ip) <=> (ip[1] = 198 /\ ip[2] \in 18..19)
  <2>1. Left(15, 0, 8) = 0 /\ Left(15, 8, 8) = 1 /\ Left(15, 16, 8) = 8 /\ Left(15, 24, 8) = 8
    BY DEF Left, Between
  <2>2. 15 \in Nat
    OBVIOUS
  <2> QED BY <1>0, <2>1, <2>2, CoversV4, Octets
<1>16. Covers(Prefix(<<224, 0, 0, 0>>, 4), ip) <=> (ip[1] \in 224..239)
  <2>1. Left(4, 0, 8) = 4 /\ Left(4, 8, 8) = 8 /\ Left(4, 16, 8) = 8 /\ Left(4, 24, 8) = 8
    BY DEF Left, Between
  <2>2. 4 \in Nat
    OBVIOUS
  <2> QED BY <1>0, <2>1, <2>2, CoversV4, Octets
<1>17. Covers(Prefix(<<240, 0, 0, 0>>, 4), ip) <=> (ip[1] \in 240..255)
  <2>1. Left(4, 0, 8) = 4 /\ Left(4, 8, 8) = 8 /\ Left(4, 16, 8) = 8 /\ Left(4, 24, 8) = 8
    BY DEF Left, Between
  <2>2. 4 \in Nat
    OBVIOUS
  <2> QED BY <1>0, <2>1, <2>2, CoversV4, Octets
<1>18. Covers(Prefix(<<255, 255, 255, 255>>, 32), ip) <=> (ip[1] = 255 /\ ip[2] = 255 /\ ip[3] = 255 /\ ip[4] = 255)
  <2>1. Left(32, 0, 8) = 0 /\ Left(32, 8, 8) = 0 /\ Left(32, 16, 8) = 0 /\ Left(32, 24, 8) = 0
    BY DEF Left, Between
  <2>2. 32 \in Nat
    OBVIOUS
  <2> QED BY <1>0, <2>1, <2>2, CoversV4, Octets
<1> QED BY ONLY <1>1, <1>2, <1>3, <1>4, <1>5, <1>6, <1>7, <1>8, <1>9, <1>10, <1>11, <1>12, <1>13, <1>14, <1>15, <1>16, <1>17, <1>18

(* The first arm that matches decides. *)
LEMMA FirstArmIs ==
  ASSUME NEW n \in Nat, NEW arms, DOMAIN arms = 1..n, NEW k \in 1..n, arms[k][1],
         \A i \in 1..(k - 1) : ~arms[i][1]
  PROVE  FirstArm(arms) = arms[k][2]
<1> DEFINE matches == {i \in DOMAIN arms : arms[i][1]}
           first == CHOOSE i \in matches : \A j \in matches : i <= j
<1>1. k \in matches
  OBVIOUS
<1>2. \A j \in matches : j \in 1..n /\ k <= j
  OBVIOUS
<1>3. FirstArm(arms) = arms[first][2]
  BY DEF FirstArm
<1> HIDE DEF matches
<1>4. \E i \in matches : \A j \in matches : i <= j
  BY <1>1, <1>2
<1>5. first \in matches /\ \A j \in matches : first <= j
  BY <1>4
<1>6. first = k
  <2>1. first <= k /\ k <= first /\ first \in 1..n
    BY <1>1, <1>2, <1>5
  <2> HIDE DEF first
  <2> QED BY <2>1
<1> QED BY <1>3, <1>6

(* Where the last arm always matches, and gives what no other gives, it is *)
(* what decides exactly if no other matches.                               *)
LEMMA LastArmIs ==
  ASSUME NEW n \in Nat \ {0}, NEW arms, DOMAIN arms = 1..n, arms[n][1],
         \A i \in 1..(n - 1) : arms[i][2] # arms[n][2]
  PROVE  FirstArm(arms) = arms[n][2] <=> \A i \in 1..(n - 1) : ~arms[i][1]
<1>1. ASSUME NEW i \in 1..(n - 1), arms[i][1] PROVE FirstArm(arms) # arms[n][2]
  <2> DEFINE matches == {j \in 1..n : arms[j][1]}
  <2>1. matches \in SUBSET Nat /\ i \in matches
    BY <1>1
  <2>2. PICK k \in matches : \A j \in matches : k <= j
    BY <2>1, LeastNumber
  <2>3. k <= i /\ k \in 1..n /\ arms[k][1]
    BY <2>1, <2>2
  <2>4. \A j \in 1..(k - 1) : ~arms[j][1]
    BY <2>2, <2>3
  <2>5. FirstArm(arms) = arms[k][2]
    BY <2>3, <2>4, FirstArmIs
  <2>6. k \in 1..(n - 1)
    BY <2>3
  <2> QED BY <2>5, <2>6
<1>2. n \in Nat /\ n \in 1..n
  OBVIOUS
<1> QED BY <1>1, <1>2, FirstArmIs

IsLength(n) == n \in Nat /\ n < 129

(* A longest prefix that covers an address decides. *)
LEMMA LongestIs ==
  ASSUME NEW registry, NEW ip, \A entry \in registry : IsLength(entry[1].length),
         NEW best \in registry, Covers(best[1], ip),
         \A entry \in registry :
           Covers(entry[1], ip) /\ entry # best => entry[1].length < best[1].length
  PROVE  Assigned(registry, ip) = best[2]
<1> DEFINE covering == {entry \in registry : Covers(entry[1], ip)}
           chosen == CHOOSE entry \in covering :
                       \A other \in covering : other[1].length <= entry[1].length
<1>1. best \in covering
  OBVIOUS
<1>2. \A other \in covering : other[1].length <= best[1].length
  <2>1. ASSUME NEW other \in covering PROVE other[1].length <= best[1].length
    <3>1. CASE other = best
      BY <3>1 DEF IsLength
    <3>2. CASE other # best
      BY <3>2 DEF IsLength
    <3> QED BY <3>1, <3>2
  <2> QED BY <2>1
<1>3. ASSUME NEW entry \in covering, best[1].length <= entry[1].length
      PROVE  entry = best
  <2>1. SUFFICES ASSUME entry # best PROVE FALSE
    OBVIOUS
  <2>2. entry[1].length < best[1].length
    BY <2>1
  <2>3. entry[1].length \in Nat /\ best[1].length \in Nat
    BY DEF IsLength
  <2> QED BY <1>3, <2>2, <2>3
<1>4. Assigned(registry, ip) = chosen[2]
  BY DEF Assigned
<1> HIDE DEF covering
<1>5. chosen \in covering /\ \A other \in covering : other[1].length <= chosen[1].length
  BY <1>1, <1>2
<1>6. chosen = best
  <2> HIDE DEF chosen
  <2> QED BY <1>1, <1>3, <1>5
<1> QED BY <1>4, <1>6

LEMMA LongestCovers ==
  ASSUME NEW registry, NEW ip, \A entry \in registry : IsLength(entry[1].length),
         NEW best \in registry, Covers(best[1], ip)
  PROVE  \E entry \in registry :
           /\ Covers(entry[1], ip) /\ best[1].length <= entry[1].length
           /\ Assigned(registry, ip) = entry[2]
<1> DEFINE covering == {entry \in registry : Covers(entry[1], ip)}
           chosen == CHOOSE entry \in covering :
                       \A other \in covering : other[1].length <= entry[1].length
           lengths == {entry[1].length + 1 : entry \in covering}
<1>1. best \in covering /\ covering \subseteq registry
  OBVIOUS
<1>2. Assigned(registry, ip) = chosen[2]
  BY DEF Assigned
<1> HIDE DEF covering
<1>3. lengths \in SUBSET (1..129) /\ lengths # {}
  <2>1. ASSUME NEW entry \in covering PROVE entry[1].length + 1 \in 1..129
    <3>1. IsLength(entry[1].length)
      BY <1>1
    <3> QED BY <3>1 DEF IsLength
  <2> QED BY <1>1, <2>1
<1>4. PICK x \in lengths : IsGreatest(x, lengths)
  BY <1>3, Greatest
<1>5. PICK entry \in covering : x = entry[1].length + 1
  OBVIOUS
<1>6. \A other \in covering : other[1].length <= entry[1].length
  <2>1. ASSUME NEW other \in covering PROVE other[1].length <= entry[1].length
    <3>1. other[1].length \in Nat /\ entry[1].length \in Nat
      BY <1>1 DEF IsLength
    <3>2. other[1].length + 1 \in lengths
      OBVIOUS
    <3> HIDE DEF lengths
    <3>3. x >= other[1].length + 1
      BY <1>4, <3>2 DEF IsGreatest
    <3>4. entry[1].length + 1 >= other[1].length + 1
      BY ONLY <1>5, <3>3
    <3> QED BY ONLY <3>1, <3>4
  <2> QED BY <2>1
<1>7. chosen \in covering /\ \A other \in covering : other[1].length <= chosen[1].length
  BY <1>6
<1> HIDE DEF chosen
<1>8. best[1].length <= chosen[1].length /\ chosen \in registry
  BY <1>1, <1>7
<1>9. Covers(chosen[1], ip)
  BY <1>7 DEF covering
<1> QED BY <1>2, <1>8, <1>9

(* An address starts with some units. *)
LEMMA StartsIs ==
  ASSUME NEW S, NEW ip \in Seq(S), NEW n \in 1..Len(ip), NEW T, NEW units \in [1..n -> T]
  PROVE  Starts(ip, units) <=> \A i \in 1..n : ip[i] = units[i]
<1>1. Len(ip) \in Nat /\ n \in Nat
  BY LenProperties
<1>2. units \in Seq(T) /\ Len(units) = n /\ DOMAIN units = 1..n
  <2>1. units \in Seq(T)
    BY <1>1, FunctionIsSeq
  <2> QED BY <1>1, <2>1, LenProperties
<1> DEFINE part == SubSeq(ip, 1, n)
<1>3. part \in Seq(S) /\ Len(part) = n /\ \A i \in 1..n : part[i] = ip[i]
  BY <1>1, Beginning
<1>4. Starts(ip, units) <=> part = units
  BY <1>2 DEF Starts
<1> HIDE DEF part
<1>5. ASSUME \A i \in 1..n : part[i] = units[i] PROVE part = units
  <2>1. part \in Seq(S \cup T) /\ units \in Seq(S \cup T)
    BY <1>2, <1>3
  <2> QED BY <1>2, <1>3, <1>5, <2>1, SeqEqual
<1> QED BY <1>3, <1>4, <1>5

LEMMA StartsWithOne ==
  ASSUME NEW ip \in V4s, NEW a \in Octet
  PROVE  Starts(ip, <<a>>) <=> ip[1] = a
<1>1. ip \in Seq(Octet) /\ Len(ip) = 4
  BY ShapeV4
<1>2. <<a>> \in [1..1 -> Octet] /\ 1 \in 1..Len(ip) /\ <<a>>[1] = a
  BY <1>1
<1>3. Starts(ip, <<a>>) <=> \A i \in 1..1 : ip[i] = <<a>>[i]
  BY <1>1, <1>2, StartsIs
<1> QED BY <1>2, <1>3

LEMMA StartsWithTwo ==
  ASSUME NEW ip \in V4s, NEW a \in Octet, NEW b \in Octet
  PROVE  Starts(ip, <<a, b>>) <=> ip[1] = a /\ ip[2] = b
<1> DEFINE units == <<a, b>>
<1>1. ip \in Seq(Octet) /\ Len(ip) = 4
  BY ShapeV4
<1>2. units \in [1..2 -> Octet] /\ 2 \in 1..Len(ip) /\ units[1] = a /\ units[2] = b
  BY <1>1
<1> HIDE DEF units
<1>3. Starts(ip, units) <=> \A i \in 1..2 : ip[i] = units[i]
  BY <1>1, <1>2, StartsIs
<1>4. Starts(ip, units) <=> ip[1] = a /\ ip[2] = b
  BY <1>2, <1>3
<1> QED BY <1>4 DEF units

LEMMA StartsWithThree ==
  ASSUME NEW ip \in V4s, NEW a \in Octet, NEW b \in Octet, NEW c \in Octet
  PROVE  Starts(ip, <<a, b, c>>) <=> ip[1] = a /\ ip[2] = b /\ ip[3] = c
<1> DEFINE units == <<a, b, c>>
<1>1. ip \in Seq(Octet) /\ Len(ip) = 4
  BY ShapeV4
<1>2. /\ units \in [1..3 -> Octet] /\ 3 \in 1..Len(ip)
      /\ units[1] = a /\ units[2] = b /\ units[3] = c
  BY <1>1
<1> HIDE DEF units
<1>3. Starts(ip, units) <=> \A i \in 1..3 : ip[i] = units[i]
  BY <1>1, <1>2, StartsIs
<1>4. Starts(ip, units) <=> ip[1] = a /\ ip[2] = b /\ ip[3] = c
  BY <1>2, <1>3
<1> QED BY <1>4 DEF units

(* The IPv4 addresses that are not global. *)
SpecialV4(ip) ==
  \/ ip[1] \in {0, 10, 127} \/ ip[1] \in 224..255
  \/ ip[1] = 172 /\ ip[2] \in 16..31
  \/ ip[1] = 192 /\ ip[2] = 168
  \/ ip[1] = 100 /\ ip[2] \in 64..127
  \/ ip[1] = 169 /\ ip[2] = 254
  \/ ip[1] = 192 /\ ip[2] = 0 /\ ip[3] \in {0, 2}
  \/ ip[1] = 192 /\ ip[2] = 88 /\ ip[3] = 99
  \/ ip[1] = 198 /\ ip[2] = 51 /\ ip[3] = 100
  \/ ip[1] = 203 /\ ip[2] = 0 /\ ip[3] = 113
  \/ ip[1] = 198 /\ ip[2] \in 18..19

LEMMA ClassesV4 ==
  ASSUME NEW ip \in V4s
  PROVE  ClassifyV4(ip) = "global" <=> ~SpecialV4(ip)
<1> DEFINE b == ip[2]
           arms == <<
       <<ip = <<0, 0, 0, 0>>, "unspecified">>,
       <<ip = <<255, 255, 255, 255>>, "broadcast">>,
       <<\E units \in {<<0>>, <<192, 0, 0>>, <<192, 88, 99>>} : Starts(ip, units), "reserved">>,
       <<ip[1] = 10 \/ Starts(ip, <<192, 168>>), "private">>,
       <<ip[1] = 172 /\ b \in 16..31, "private">>,
       <<ip[1] = 100 /\ b \in 64..127, "shared">>,
       <<ip[1] = 127, "loopback">>,
       <<Starts(ip, <<169, 254>>), "link local">>,
       <<\E units \in {<<192, 0, 2>>, <<198, 51, 100>>, <<203, 0, 113>>} : Starts(ip, units),
         "documentation">>,
       <<ip[1] = 198 /\ b \in {18, 19}, "benchmarking">>,
       <<ip[1] \in 224..239, "multicast">>,
       <<ip[1] \in 240..255, "reserved">>,
       <<TRUE, "global">> >>
<1>0. ip[1] \in Octet /\ ip[2] \in Octet /\ ip[3] \in Octet /\ ip[4] \in Octet
  BY DEF V4s
<1>1. ClassifyV4(ip) = FirstArm(arms)
  BY DEF ClassifyV4
<1>2. DOMAIN arms = 1..13 /\ arms[13][1] /\ arms[13][2] = "global"
  OBVIOUS
<1>3. \A i \in 1..12 : arms[i][2] # "global"
  <2>1. /\ arms[1][2] # "global" /\ arms[2][2] # "global" /\ arms[3][2] # "global"
        /\ arms[4][2] # "global" /\ arms[5][2] # "global" /\ arms[6][2] # "global"
        /\ arms[7][2] # "global" /\ arms[8][2] # "global" /\ arms[9][2] # "global"
        /\ arms[10][2] # "global" /\ arms[11][2] # "global" /\ arms[12][2] # "global"
    OBVIOUS
  <2> HIDE DEF arms
  <2>2. 1..12 = {1, 2, 3, 4, 5, 6, 7, 8, 9, 10, 11, 12}
    OBVIOUS
  <2> QED BY ONLY <2>1, <2>2
<1>4. /\ arms[1][1] <=> (ip = <<0, 0, 0, 0>>)
      /\ arms[2][1] <=> (ip = <<255, 255, 255, 255>>)
      /\ arms[3][1] <=> (\E units \in {<<0>>, <<192, 0, 0>>, <<192, 88, 99>>} : Starts(ip, units))
      /\ arms[4][1] <=> (ip[1] = 10 \/ Starts(ip, <<192, 168>>))
      /\ arms[5][1] <=> (ip[1] = 172 /\ b \in 16..31)
      /\ arms[6][1] <=> (ip[1] = 100 /\ b \in 64..127)
      /\ arms[7][1] <=> (ip[1] = 127)
      /\ arms[8][1] <=> Starts(ip, <<169, 254>>)
      /\ arms[9][1] <=> (\E units \in {<<192, 0, 2>>, <<198, 51, 100>>, <<203, 0, 113>>} :
                         Starts(ip, units))
      /\ arms[10][1] <=> (ip[1] = 198 /\ b \in {18, 19})
      /\ arms[11][1] <=> (ip[1] \in 224..239)
      /\ arms[12][1] <=> (ip[1] \in 240..255)
  OBVIOUS
<1> HIDE DEF arms
<1>5. FirstArm(arms) = "global" <=> \A i \in 1..12 : ~arms[i][1]
  <2>1. 13 \in Nat \ {0} /\ 13 - 1 = 12
    OBVIOUS
  <2>2. FirstArm(arms) = arms[13][2] <=> \A i \in 1..(13 - 1) : ~arms[i][1]
    BY <1>2, <1>3, <2>1, LastArmIs
  <2> QED BY <1>2, <2>1, <2>2
<1>6. (\A i \in 1..12 : ~arms[i][1]) <=>
        /\ ~arms[1][1] /\ ~arms[2][1] /\ ~arms[3][1] /\ ~arms[4][1] /\ ~arms[5][1]
        /\ ~arms[6][1] /\ ~arms[7][1] /\ ~arms[8][1] /\ ~arms[9][1] /\ ~arms[10][1]
        /\ ~arms[11][1] /\ ~arms[12][1]
  <2>1. 1..12 = {1, 2, 3, 4, 5, 6, 7, 8, 9, 10, 11, 12}
    OBVIOUS
  <2> QED BY ONLY <2>1
<1>7. /\ Starts(ip, <<0>>) <=> ip[1] = 0
      /\ Starts(ip, <<192, 168>>) <=> ip[1] = 192 /\ ip[2] = 168
      /\ Starts(ip, <<169, 254>>) <=> ip[1] = 169 /\ ip[2] = 254
      /\ Starts(ip, <<192, 0, 0>>) <=> ip[1] = 192 /\ ip[2] = 0 /\ ip[3] = 0
      /\ Starts(ip, <<192, 88, 99>>) <=> ip[1] = 192 /\ ip[2] = 88 /\ ip[3] = 99
      /\ Starts(ip, <<192, 0, 2>>) <=> ip[1] = 192 /\ ip[2] = 0 /\ ip[3] = 2
      /\ Starts(ip, <<198, 51, 100>>) <=> ip[1] = 198 /\ ip[2] = 51 /\ ip[3] = 100
      /\ Starts(ip, <<203, 0, 113>>) <=> ip[1] = 203 /\ ip[2] = 0 /\ ip[3] = 113
  <2>1. {0, 192, 168, 169, 254, 88, 99, 2, 198, 51, 100, 203, 113} \subseteq Octet
    BY DEF Octet
  <2>2. 0 \in Octet /\ 192 \in Octet /\ 168 \in Octet /\ 169 \in Octet /\ 254 \in Octet
        /\ 88 \in Octet /\ 99 \in Octet /\ 2 \in Octet /\ 198 \in Octet /\ 51 \in Octet
        /\ 100 \in Octet /\ 203 \in Octet /\ 113 \in Octet
    BY <2>1
  <2>3. Starts(ip, <<0>>) <=> ip[1] = 0
    BY <2>2, StartsWithOne, StartsWithTwo, StartsWithThree
  <2>4. Starts(ip, <<192, 168>>) <=> ip[1] = 192 /\ ip[2] = 168
    BY <2>2, StartsWithOne, StartsWithTwo, StartsWithThree
  <2>5. Starts(ip, <<169, 254>>) <=> ip[1] = 169 /\ ip[2] = 254
    BY <2>2, StartsWithOne, StartsWithTwo, StartsWithThree
  <2>6. Starts(ip, <<192, 0, 0>>) <=> ip[1] = 192 /\ ip[2] = 0 /\ ip[3] = 0
    BY <2>2, StartsWithOne, StartsWithTwo, StartsWithThree
  <2>7. Starts(ip, <<192, 88, 99>>) <=> ip[1] = 192 /\ ip[2] = 88 /\ ip[3] = 99
    BY <2>2, StartsWithOne, StartsWithTwo, StartsWithThree
  <2>8. Starts(ip, <<192, 0, 2>>) <=> ip[1] = 192 /\ ip[2] = 0 /\ ip[3] = 2
    BY <2>2, StartsWithOne, StartsWithTwo, StartsWithThree
  <2>9. Starts(ip, <<198, 51, 100>>) <=> ip[1] = 198 /\ ip[2] = 51 /\ ip[3] = 100
    BY <2>2, StartsWithOne, StartsWithTwo, StartsWithThree
  <2>10. Starts(ip, <<203, 0, 113>>) <=> ip[1] = 203 /\ ip[2] = 0 /\ ip[3] = 113
    BY <2>2, StartsWithOne, StartsWithTwo, StartsWithThree
  <2> QED BY ONLY <2>3, <2>4, <2>5, <2>6, <2>7, <2>8, <2>9, <2>10
<1>8. /\ arms[3][1] <=> \/ Starts(ip, <<0>>) \/ Starts(ip, <<192, 0, 0>>)
                        \/ Starts(ip, <<192, 88, 99>>)
      /\ arms[9][1] <=> \/ Starts(ip, <<192, 0, 2>>) \/ Starts(ip, <<198, 51, 100>>)
                        \/ Starts(ip, <<203, 0, 113>>)
  BY <1>4
<1>9. /\ arms[1][1] => ip[1] = 0
      /\ arms[2][1] => ip[1] = 255
  <2>1. <<0, 0, 0, 0>>[1] = 0 /\ <<255, 255, 255, 255>>[1] = 255
    OBVIOUS
  <2>2. arms[1][1] => ip = <<0, 0, 0, 0>>
    BY <1>4
  <2>3. arms[2][1] => ip = <<255, 255, 255, 255>>
    BY <1>4
  <2> QED BY ONLY <2>1, <2>2, <2>3
<1>10. /\ ip[1] \in 224..239 \/ ip[1] \in 240..255 <=> ip[1] \in 224..255
       /\ 255 \in 224..255
       /\ b \in {18, 19} <=> b \in 18..19
  BY <1>0 DEF Octet
<1>11. arms[4][1] <=> ip[1] = 10 \/ (ip[1] = 192 /\ ip[2] = 168)
  BY <1>4, <1>7
<1>12. arms[8][1] <=> ip[1] = 169 /\ ip[2] = 254
  BY <1>4, <1>7
<1>13. arms[10][1] <=> ip[1] = 198 /\ b \in 18..19
  BY <1>4, <1>10
<1>14. arms[11][1] \/ arms[12][1] <=> ip[1] \in 224..255
  BY <1>4, <1>10
<1>15. /\ arms[5][1] <=> ip[1] = 172 /\ b \in 16..31
       /\ arms[6][1] <=> ip[1] = 100 /\ b \in 64..127
       /\ arms[7][1] <=> ip[1] = 127
  BY <1>4
<1>16. SpecialV4(ip) <=>
        \/ arms[1][1] \/ arms[2][1] \/ arms[3][1] \/ arms[4][1] \/ arms[5][1] \/ arms[6][1]
        \/ arms[7][1] \/ arms[8][1] \/ arms[9][1] \/ arms[10][1] \/ arms[11][1] \/ arms[12][1]
  BY ONLY <1>7, <1>8, <1>9, <1>10, <1>11, <1>12, <1>13, <1>14, <1>15 DEF SpecialV4, b
<1> QED BY ONLY <1>1, <1>5, <1>6, <1>16

LEMMA PrefixHas ==
  \A network, length : /\ Prefix(network, length).network = network
                       /\ Prefix(network, length).length = length
BY DEF Prefix

(* The lengths of the prefixes in the registries, but for the roots and    *)
(* the global unicast addresses.                                           *)
Lengths == {4, 7, 8, 10, 12, 15, 16, 20, 23, 24, 32, 48, 64, 96, 128}

IsSpecial(entry) == entry[1].length \in Lengths /\ entry[2] # "global"

LEMMA EntryIs ==
  ASSUME NEW network, NEW length \in Lengths, NEW scope, scope # "global"
  PROVE  IsSpecial(<<Prefix(network, length), scope>>)
BY PrefixHas DEF IsSpecial

LEMMA LengthIs == \A n \in Lengths : IsLength(n) /\ n > 3
BY DEF IsLength, Lengths

RootV4 == <<Prefix(<<0, 0, 0, 0>>, 0), "global">>

LEMMA EntriesV4 ==
  ASSUME NEW entry \in IPv4Registry, entry # RootV4
  PROVE  IsSpecial(entry)
<1>1. 4 \in Lengths /\ 8 \in Lengths /\ 10 \in Lengths /\ 12 \in Lengths
      /\ 15 \in Lengths /\ 16 \in Lengths /\ 24 \in Lengths /\ 32 \in Lengths
  BY DEF Lengths
<1>2. CASE entry = <<Prefix(<<0, 0, 0, 0>>, 8), "reserved">>
  BY <1>1, <1>2, EntryIs
<1>3. CASE entry = <<Prefix(<<0, 0, 0, 0>>, 32), "unspecified">>
  BY <1>1, <1>3, EntryIs
<1>4. CASE entry = <<Prefix(<<10, 0, 0, 0>>, 8), "private">>
  BY <1>1, <1>4, EntryIs
<1>5. CASE entry = <<Prefix(<<172, 16, 0, 0>>, 12), "private">>
  BY <1>1, <1>5, EntryIs
<1>6. CASE entry = <<Prefix(<<192, 168, 0, 0>>, 16), "private">>
  BY <1>1, <1>6, EntryIs
<1>7. CASE entry = <<Prefix(<<100, 64, 0, 0>>, 10), "shared">>
  BY <1>1, <1>7, EntryIs
<1>8. CASE entry = <<Prefix(<<127, 0, 0, 0>>, 8), "loopback">>
  BY <1>1, <1>8, EntryIs
<1>9. CASE entry = <<Prefix(<<169, 254, 0, 0>>, 16), "link local">>
  BY <1>1, <1>9, EntryIs
<1>10. CASE entry = <<Prefix(<<192, 0, 0, 0>>, 24), "reserved">>
  BY <1>1, <1>10, EntryIs
<1>11. CASE entry = <<Prefix(<<192, 88, 99, 0>>, 24), "reserved">>
  BY <1>1, <1>11, EntryIs
<1>12. CASE entry = <<Prefix(<<192, 0, 2, 0>>, 24), "documentation">>
  BY <1>1, <1>12, EntryIs
<1>13. CASE entry = <<Prefix(<<198, 51, 100, 0>>, 24), "documentation">>
  BY <1>1, <1>13, EntryIs
<1>14. CASE entry = <<Prefix(<<203, 0, 113, 0>>, 24), "documentation">>
  BY <1>1, <1>14, EntryIs
<1>15. CASE entry = <<Prefix(<<198, 18, 0, 0>>, 15), "benchmarking">>
  BY <1>1, <1>15, EntryIs
<1>16. CASE entry = <<Prefix(<<224, 0, 0, 0>>, 4), "multicast">>
  BY <1>1, <1>16, EntryIs
<1>17. CASE entry = <<Prefix(<<240, 0, 0, 0>>, 4), "reserved">>
  BY <1>1, <1>17, EntryIs
<1>18. CASE entry = <<Prefix(<<255, 255, 255, 255>>, 32), "broadcast">>
  BY <1>1, <1>18, EntryIs
<1>19. \/ entry = <<Prefix(<<0, 0, 0, 0>>, 8), "reserved">>
       \/ entry = <<Prefix(<<0, 0, 0, 0>>, 32), "unspecified">>
       \/ entry = <<Prefix(<<10, 0, 0, 0>>, 8), "private">>
       \/ entry = <<Prefix(<<172, 16, 0, 0>>, 12), "private">>
       \/ entry = <<Prefix(<<192, 168, 0, 0>>, 16), "private">>
       \/ entry = <<Prefix(<<100, 64, 0, 0>>, 10), "shared">>
       \/ entry = <<Prefix(<<127, 0, 0, 0>>, 8), "loopback">>
       \/ entry = <<Prefix(<<169, 254, 0, 0>>, 16), "link local">>
       \/ entry = <<Prefix(<<192, 0, 0, 0>>, 24), "reserved">>
       \/ entry = <<Prefix(<<192, 88, 99, 0>>, 24), "reserved">>
       \/ entry = <<Prefix(<<192, 0, 2, 0>>, 24), "documentation">>
       \/ entry = <<Prefix(<<198, 51, 100, 0>>, 24), "documentation">>
       \/ entry = <<Prefix(<<203, 0, 113, 0>>, 24), "documentation">>
       \/ entry = <<Prefix(<<198, 18, 0, 0>>, 15), "benchmarking">>
       \/ entry = <<Prefix(<<224, 0, 0, 0>>, 4), "multicast">>
       \/ entry = <<Prefix(<<240, 0, 0, 0>>, 4), "reserved">>
       \/ entry = <<Prefix(<<255, 255, 255, 255>>, 32), "broadcast">>
  BY Zenon DEF IPv4Registry, RootV4
<1> QED BY ONLY <1>2, <1>3, <1>4, <1>5, <1>6, <1>7, <1>8, <1>9, <1>10, <1>11, <1>12, <1>13, <1>14, <1>15, <1>16, <1>17, <1>18, <1>19

(* The arms of the match in net.rs and the registry say the same of every  *)
(* IPv4 address.                                                           *)
LEMMA ScopesV4 ==
  ASSUME NEW ip \in V4s
  PROVE  ClassifyV4(ip) = "global" <=> Assigned(IPv4Registry, ip) = "global"
<1> DEFINE root == RootV4
<1>0. ip[1] \in Octet /\ ip[2] \in Octet /\ ip[3] \in Octet /\ ip[4] \in Octet
  BY DEF V4s
<1>2. root \in IPv4Registry
  BY Zenon DEF IPv4Registry, RootV4
<1>3. root[1].length = 0 /\ root[2] = "global" /\ Covers(root[1], ip)
  BY PrefixHas, RangesV4 DEF RootV4
<1>a. ASSUME NEW entry \in IPv4Registry, entry # root
      PROVE  entry[2] # "global" /\ entry[1].length > 0 /\ IsLength(entry[1].length)
  <2>1. IsSpecial(entry)
    BY <1>a, EntriesV4
  <2>2. IsLength(entry[1].length) /\ entry[1].length > 3
    BY <2>1, LengthIs DEF IsSpecial
  <2> QED BY <2>1, <2>2 DEF IsSpecial, IsLength
<1>1. \A entry \in IPv4Registry : IsLength(entry[1].length)
  <2>1. IsLength(0)
    BY DEF IsLength
  <2> QED BY <1>3, <1>a, <2>1
<1>4. (\E entry \in IPv4Registry : entry # root /\ Covers(entry[1], ip)) <=> SpecialV4(ip)
  <2>1. (\E entry \in IPv4Registry : entry # root /\ Covers(entry[1], ip)) <=>
          \/ Covers(Prefix(<<0, 0, 0, 0>>, 8), ip)
          \/ Covers(Prefix(<<0, 0, 0, 0>>, 32), ip)
          \/ Covers(Prefix(<<10, 0, 0, 0>>, 8), ip)
          \/ Covers(Prefix(<<172, 16, 0, 0>>, 12), ip)
          \/ Covers(Prefix(<<192, 168, 0, 0>>, 16), ip)
          \/ Covers(Prefix(<<100, 64, 0, 0>>, 10), ip)
          \/ Covers(Prefix(<<127, 0, 0, 0>>, 8), ip)
          \/ Covers(Prefix(<<169, 254, 0, 0>>, 16), ip)
          \/ Covers(Prefix(<<192, 0, 0, 0>>, 24), ip)
          \/ Covers(Prefix(<<192, 88, 99, 0>>, 24), ip)
          \/ Covers(Prefix(<<192, 0, 2, 0>>, 24), ip)
          \/ Covers(Prefix(<<198, 51, 100, 0>>, 24), ip)
          \/ Covers(Prefix(<<203, 0, 113, 0>>, 24), ip)
          \/ Covers(Prefix(<<198, 18, 0, 0>>, 15), ip)
          \/ Covers(Prefix(<<224, 0, 0, 0>>, 4), ip)
          \/ Covers(Prefix(<<240, 0, 0, 0>>, 4), ip)
          \/ Covers(Prefix(<<255, 255, 255, 255>>, 32), ip)
    BY DEF IPv4Registry, RootV4
  <2> QED BY ONLY <1>0, <2>1, RangesV4, ip \in V4s DEF SpecialV4, Octet
<1> HIDE DEF root
<1>5. ASSUME NEW entry \in IPv4Registry, entry # root, Covers(entry[1], ip)
      PROVE  Assigned(IPv4Registry, ip) # "global"
  <2>1. PICK chosen \in IPv4Registry :
          entry[1].length <= chosen[1].length /\ Assigned(IPv4Registry, ip) = chosen[2]
    BY <1>1, <1>5, LongestCovers
  <2>2. IsLength(entry[1].length) /\ entry[1].length > 0
    BY <1>a, <1>5
  <2>3. chosen # root
    BY <1>3, <2>1, <2>2 DEF IsLength
  <2> QED BY <1>a, <2>1, <2>3
<1>6. ASSUME \A entry \in IPv4Registry : entry # root => ~Covers(entry[1], ip)
      PROVE  Assigned(IPv4Registry, ip) = "global"
  <2>1. Assigned(IPv4Registry, ip) = root[2]
    BY <1>1, <1>2, <1>3, <1>a, <1>6, LongestIs
  <2> QED BY <1>3, <2>1
<1> QED BY <1>4, <1>5, <1>6, ClassesV4

(* The networks of the registry, segment by segment. *)
IsNet(net, a, b, c, d, e, f, g, h) ==
  /\ net \in Seq(Nat) /\ Len(net) = 8
  /\ net[1] = a /\ net[2] = b /\ net[3] = c /\ net[4] = d
  /\ net[5] = e /\ net[6] = f /\ net[7] = g /\ net[8] = h

LEMMA Padded ==
  ASSUME NEW n \in Nat, NEW units \in Seq(Nat), Len(units) = n, NEW k \in Nat
  PROVE  /\ units \o Zeros(k) \in Seq(Nat) /\ Len(units \o Zeros(k)) = n + k
         /\ \A i \in 1..n : (units \o Zeros(k))[i] = units[i]
         /\ \A i \in (n + 1)..(n + k) : (units \o Zeros(k))[i] = 0
<1>1. Zeros(k) \in Seq(Nat) /\ Len(Zeros(k)) = k /\ \A i \in 1..k : Zeros(k)[i] = 0
  <2>1. Zeros(k) \in [1..k -> Nat]
    BY DEF Zeros
  <2>2. Zeros(k) \in Seq(Nat)
    BY <2>1, FunctionIsSeq
  <2>3. Len(Zeros(k)) = k
    BY <2>1, <2>2, LenProperties
  <2> QED BY <2>2, <2>3 DEF Zeros
<1> DEFINE z == Zeros(k)
<1> HIDE DEF z
<1>2. units \o z \in Seq(Nat) /\ Len(units \o z) = n + k
  BY <1>1, ConcatProperties DEF z
<1>3. \A i \in 1..(n + k) : (units \o z)[i] = IF i <= n THEN units[i] ELSE z[i - n]
  BY <1>1, ConcatProperties DEF z
<1>4. \A i \in (n + 1)..(n + k) : z[i - n] = 0 /\ i \in 1..(n + k) /\ ~(i <= n)
  BY <1>1 DEF z
<1>5. \A i \in 1..n : i \in 1..(n + k) /\ i <= n
  OBVIOUS
<1> QED BY <1>2, <1>3, <1>4, <1>5 DEF z

LEMMA Joined ==
  ASSUME NEW s \in Seq(Nat), NEW t \in Seq(Nat), NEW k \in Nat, NEW n \in Nat,
         Len(s) = k, Len(t) = n
  PROVE  /\ s \o t \in Seq(Nat) /\ Len(s \o t) = k + n
         /\ \A i \in 1..k : (s \o t)[i] = s[i]
         /\ \A i \in 1..n : (s \o t)[k + i] = t[i]
<1>1. s \o t \in Seq(Nat) /\ Len(s \o t) = k + n
  BY ConcatProperties
<1>2. \A i \in 1..(k + n) : (s \o t)[i] = IF i <= k THEN s[i] ELSE t[i - k]
  BY ConcatProperties
<1>3. ASSUME NEW i \in 1..k PROVE (s \o t)[i] = s[i]
  BY <1>2
<1>4. ASSUME NEW i \in 1..n PROVE (s \o t)[k + i] = t[i]
  <2>1. k + i \in 1..(k + n) /\ ~(k + i <= k) /\ k + i - k = i
    OBVIOUS
  <2> QED BY <1>2, <2>1
<1> QED BY <1>1, <1>3, <1>4

LEMMA ZerosThen ==
  ASSUME NEW k \in Nat, NEW x \in Nat
  PROVE  /\ Zeros(k) \o <<x>> \in Seq(Nat) /\ Len(Zeros(k) \o <<x>>) = k + 1
         /\ \A i \in 1..k : (Zeros(k) \o <<x>>)[i] = 0
         /\ (Zeros(k) \o <<x>>)[k + 1] = x
<1>1. Zeros(k) \in Seq(Nat) /\ Len(Zeros(k)) = k /\ \A i \in 1..k : Zeros(k)[i] = 0
  <2>1. Zeros(k) \in [1..k -> Nat]
    BY DEF Zeros
  <2>2. Zeros(k) \in Seq(Nat)
    BY <2>1, FunctionIsSeq
  <2>3. Len(Zeros(k)) = k
    BY <2>1, <2>2, LenProperties
  <2> QED BY <2>2, <2>3 DEF Zeros
<1>2. <<x>> \in Seq(Nat) /\ Len(<<x>>) = 1 /\ <<x>>[1] = x /\ 1 \in Nat /\ 1 \in 1..1
  OBVIOUS
<1> QED BY <1>1, <1>2, Joined

LEMMA CoversNet ==
  ASSUME NEW ip \in V6s, NEW length \in Nat, NEW net,
         NEW a, NEW b, NEW c, NEW d, NEW e, NEW f, NEW g, NEW h,
         IsNet(net, a, b, c, d, e, f, g, h)
  PROVE  Covers(Prefix(net, length), ip) <=>
           /\ Cleared(ip[1], Left(length, 0, 16)) = a
           /\ Cleared(ip[2], Left(length, 16, 16)) = b
           /\ Cleared(ip[3], Left(length, 32, 16)) = c
           /\ Cleared(ip[4], Left(length, 48, 16)) = d
           /\ Cleared(ip[5], Left(length, 64, 16)) = e
           /\ Cleared(ip[6], Left(length, 80, 16)) = f
           /\ Cleared(ip[7], Left(length, 96, 16)) = g
           /\ Cleared(ip[8], Left(length, 112, 16)) = h
<1>1. net \in Seq(Nat) /\ Len(net) = 8
  BY DEF IsNet
<1>2. DOMAIN net = 1..8
  BY <1>1, LenProperties
<1>3. net \in [1..8 -> Nat]
  <2>1. net \in [1..Len(net) -> Nat]
    BY <1>1, LenProperties
  <2> QED BY <1>1, <2>1
<1>4. net = [i \in 1..8 |-> net[i]]
  BY <1>3
<1> QED BY <1>1, <1>2, <1>4, CoversV6 DEF IsNet

LEMMA NetOf ==
  ASSUME NEW units \in Seq(Nat), NEW n \in 0..8, Len(units) = n
  PROVE  /\ V6(units) \in Seq(Nat) /\ Len(V6(units)) = 8
         /\ \A i \in 1..n : V6(units)[i] = units[i]
         /\ \A i \in (n + 1)..8 : V6(units)[i] = 0
<1>1. n \in Nat /\ 8 - n \in Nat /\ n + (8 - n) = 8
  OBVIOUS
<1>2. V6(units) = units \o Zeros(8 - n)
  BY DEF V6
<1> DEFINE k == 8 - n
<1>3. k \in Nat /\ n + k = 8
  BY <1>1
<1> HIDE DEF k
<1>4. /\ units \o Zeros(k) \in Seq(Nat) /\ Len(units \o Zeros(k)) = 8
      /\ \A i \in 1..n : (units \o Zeros(k))[i] = units[i]
      /\ \A i \in (n + 1)..8 : (units \o Zeros(k))[i] = 0
  <2>1. /\ units \o Zeros(k) \in Seq(Nat) /\ Len(units \o Zeros(k)) = n + k
        /\ \A i \in 1..n : (units \o Zeros(k))[i] = units[i]
        /\ \A i \in (n + 1)..(n + k) : (units \o Zeros(k))[i] = 0
    BY <1>1, <1>3, Padded
  <2> QED BY <1>3, <2>1
<1> QED BY <1>2, <1>4 DEF k

LEMMA Nets ==
  /\ IsNet(V6(<<>>), 0, 0, 0, 0, 0, 0, 0, 0)
  /\ \A a \in Nat : IsNet(V6(<<a>>), a, 0, 0, 0, 0, 0, 0, 0)
  /\ \A a, b \in Nat : IsNet(V6(<<a, b>>), a, b, 0, 0, 0, 0, 0, 0)
  /\ \A a, b, c \in Nat : IsNet(V6(<<a, b, c>>), a, b, c, 0, 0, 0, 0, 0)
  /\ \A a \in Nat : IsNet(V6(Zeros(5) \o <<a>>), 0, 0, 0, 0, 0, a, 0, 0)
  /\ IsNet(Zeros(7) \o <<1>>, 0, 0, 0, 0, 0, 0, 0, 1)
<1>1. IsNet(V6(<<>>), 0, 0, 0, 0, 0, 0, 0, 0)
  <2> DEFINE units == <<>>
  <2>1. units \in Seq(Nat) /\ Len(units) = 0
    OBVIOUS
  <2> HIDE DEF units
  <2>2. /\ V6(units) \in Seq(Nat) /\ Len(V6(units)) = 8
        /\ \A i \in (0 + 1)..8 : V6(units)[i] = 0
    <3>1. 0 \in 0..8
      OBVIOUS
    <3> QED BY <2>1, <3>1, NetOf
  <2>3. IsNet(V6(units), 0, 0, 0, 0, 0, 0, 0, 0)
    BY <2>2 DEF IsNet
  <2> QED BY <2>3 DEF units
<1>2. ASSUME NEW a \in Nat PROVE IsNet(V6(<<a>>), a, 0, 0, 0, 0, 0, 0, 0)
  <2> DEFINE units == <<a>>
  <2>1. units \in Seq(Nat) /\ Len(units) = 1 /\ units[1] = a
    OBVIOUS
  <2> HIDE DEF units
  <2>2. /\ V6(units) \in Seq(Nat) /\ Len(V6(units)) = 8
        /\ \A i \in 1..1 : V6(units)[i] = units[i]
        /\ \A i \in (1 + 1)..8 : V6(units)[i] = 0
    BY <2>1, NetOf
  <2>3. IsNet(V6(units), a, 0, 0, 0, 0, 0, 0, 0)
    BY <2>1, <2>2 DEF IsNet
  <2> QED BY <2>3 DEF units
<1>3. ASSUME NEW a \in Nat, NEW b \in Nat
      PROVE  IsNet(V6(<<a, b>>), a, b, 0, 0, 0, 0, 0, 0)
  <2> DEFINE units == <<a, b>>
  <2>1. units \in Seq(Nat) /\ Len(units) = 2 /\ units[1] = a /\ units[2] = b
    OBVIOUS
  <2> HIDE DEF units
  <2>2. /\ V6(units) \in Seq(Nat) /\ Len(V6(units)) = 8
        /\ \A i \in 1..2 : V6(units)[i] = units[i]
        /\ \A i \in (2 + 1)..8 : V6(units)[i] = 0
    BY <2>1, NetOf
  <2>3. IsNet(V6(units), a, b, 0, 0, 0, 0, 0, 0)
    BY <2>1, <2>2 DEF IsNet
  <2> QED BY <2>3 DEF units
<1>4. ASSUME NEW a \in Nat, NEW b \in Nat, NEW c \in Nat
      PROVE  IsNet(V6(<<a, b, c>>), a, b, c, 0, 0, 0, 0, 0)
  <2> DEFINE units == <<a, b, c>>
  <2>1. /\ units \in Seq(Nat) /\ Len(units) = 3
        /\ units[1] = a /\ units[2] = b /\ units[3] = c
    OBVIOUS
  <2> HIDE DEF units
  <2>2. /\ V6(units) \in Seq(Nat) /\ Len(V6(units)) = 8
        /\ \A i \in 1..3 : V6(units)[i] = units[i]
        /\ \A i \in (3 + 1)..8 : V6(units)[i] = 0
    BY <2>1, NetOf
  <2>3. IsNet(V6(units), a, b, c, 0, 0, 0, 0, 0)
    BY <2>1, <2>2 DEF IsNet
  <2> QED BY <2>3 DEF units
<1>5. ASSUME NEW a \in Nat PROVE IsNet(V6(Zeros(5) \o <<a>>), 0, 0, 0, 0, 0, a, 0, 0)
  <2> DEFINE units == Zeros(5) \o <<a>>
  <2>1. /\ units \in Seq(Nat) /\ Len(units) = 5 + 1
        /\ \A i \in 1..5 : units[i] = 0
        /\ units[5 + 1] = a
    BY ZerosThen
  <2> HIDE DEF units
  <2>2. /\ V6(units) \in Seq(Nat) /\ Len(V6(units)) = 8
        /\ \A i \in 1..6 : V6(units)[i] = units[i]
        /\ \A i \in (6 + 1)..8 : V6(units)[i] = 0
    BY <2>1, NetOf
  <2>3. IsNet(V6(units), 0, 0, 0, 0, 0, a, 0, 0)
    BY <2>1, <2>2 DEF IsNet
  <2> QED BY <2>3 DEF units
<1>6. IsNet(Zeros(7) \o <<1>>, 0, 0, 0, 0, 0, 0, 0, 1)
  <2> DEFINE units == Zeros(7) \o <<1>>
  <2>1. /\ units \in Seq(Nat) /\ Len(units) = 7 + 1
        /\ \A i \in 1..7 : units[i] = 0
        /\ units[7 + 1] = 1
    BY ZerosThen
  <2> HIDE DEF units
  <2>3. IsNet(units, 0, 0, 0, 0, 0, 0, 0, 1)
    BY <2>1 DEF IsNet
  <2> QED BY <2>3 DEF units
<1> QED BY <1>1, <1>2, <1>3, <1>4, <1>5, <1>6

(* The entries of the registry, by name. *)
RootV6 == <<Prefix(V6(<<>>), 0), "reserved">>
GlobalV6 == <<Prefix(V6(<<\h2000>>), 3), "global">>
UnspecifiedV6 == <<Prefix(V6(<<>>), 128), "unspecified">>
LoopbackV6 == <<Prefix(Zeros(7) \o <<1>>, 128), "loopback">>
CompatibleNet == <<Prefix(V6(<<>>), 96), "reserved">>
MappedNet == <<Prefix(V6(Zeros(5) \o <<\hffff>>), 96), "embeds 7">>
TranslatedNet == <<Prefix(V6(<<\h64, \hff9b>>), 96), "embeds 7">>
TunnelledNet == <<Prefix(V6(<<\h2002>>), 16), "embeds 2">>
DocumentationNet == <<Prefix(V6(<<\h2001, \hdb8>>), 32), "documentation">>
SecondDocumentationNet == <<Prefix(V6(<<\h3fff>>), 20), "documentation">>
BenchmarkingNet == <<Prefix(V6(<<\h2001, 2>>), 48), "benchmarking">>
ProtocolNet == <<Prefix(V6(<<\h2001>>), 23), "reserved">>
LocalTranslationNet == <<Prefix(V6(<<\h64, \hff9b, 1>>), 48), "reserved">>
DiscardNet == <<Prefix(V6(<<\h100>>), 64), "reserved">>
UniqueLocalNet == <<Prefix(V6(<<\hfc00>>), 7), "unique local">>
LinkLocalNet == <<Prefix(V6(<<\hfe80>>), 10), "link local">>
MulticastNet == <<Prefix(V6(<<\hff00>>), 8), "multicast">>

LEMMA RegistryV6 ==
  IPv6Registry =
    {RootV6, GlobalV6, UnspecifiedV6, LoopbackV6, CompatibleNet,
     MappedNet, TranslatedNet, TunnelledNet, DocumentationNet,
     SecondDocumentationNet, BenchmarkingNet, ProtocolNet, LocalTranslationNet,
     DiscardNet, UniqueLocalNet, LinkLocalNet, MulticastNet}
BY DEF IPv6Registry, RootV6, GlobalV6, UnspecifiedV6, LoopbackV6, CompatibleNet, MappedNet,
       TranslatedNet, TunnelledNet, DocumentationNet, SecondDocumentationNet, BenchmarkingNet, ProtocolNet,
       LocalTranslationNet, DiscardNet, UniqueLocalNet, LinkLocalNet, MulticastNet

(* What each of them covers, segment by segment. *)
LEMMA RangesV6 ==
  ASSUME NEW ip \in V6s
  PROVE
    /\ Covers(RootV6[1], ip)
    /\ Covers(GlobalV6[1], ip) <=> (\h2000 <= ip[1] /\ ip[1] <= \h3fff)
    /\ Covers(UnspecifiedV6[1], ip) <=> (ip[1] = 0 /\ ip[2] = 0 /\ ip[3] = 0 /\ ip[4] = 0 /\ ip[5] = 0 /\ ip[6] = 0 /\ ip[7] = 0 /\ ip[8] = 0)
    /\ Covers(LoopbackV6[1], ip) <=> (ip[1] = 0 /\ ip[2] = 0 /\ ip[3] = 0 /\ ip[4] = 0 /\ ip[5] = 0 /\ ip[6] = 0 /\ ip[7] = 0 /\ ip[8] = 1)
    /\ Covers(CompatibleNet[1], ip) <=> (ip[1] = 0 /\ ip[2] = 0 /\ ip[3] = 0 /\ ip[4] = 0 /\ ip[5] = 0 /\ ip[6] = 0)
    /\ Covers(MappedNet[1], ip) <=> (ip[1] = 0 /\ ip[2] = 0 /\ ip[3] = 0 /\ ip[4] = 0 /\ ip[5] = 0 /\ ip[6] = \hffff)
    /\ Covers(TranslatedNet[1], ip) <=> (ip[1] = \h64 /\ ip[2] = \hff9b /\ ip[3] = 0 /\ ip[4] = 0 /\ ip[5] = 0 /\ ip[6] = 0)
    /\ Covers(TunnelledNet[1], ip) <=> (ip[1] = \h2002)
    /\ Covers(DocumentationNet[1], ip) <=> (ip[1] = \h2001 /\ ip[2] = \hdb8)
    /\ Covers(SecondDocumentationNet[1], ip) <=> (ip[1] = \h3fff /\ ip[2] < \h1000)
    /\ Covers(BenchmarkingNet[1], ip) <=> (ip[1] = \h2001 /\ ip[2] = 2 /\ ip[3] = 0)
    /\ Covers(ProtocolNet[1], ip) <=> (ip[1] = \h2001 /\ ip[2] < \h200)
    /\ Covers(LocalTranslationNet[1], ip) <=> (ip[1] = \h64 /\ ip[2] = \hff9b /\ ip[3] = 1)
    /\ Covers(DiscardNet[1], ip) <=> (ip[1] = \h100 /\ ip[2] = 0 /\ ip[3] = 0 /\ ip[4] = 0)
    /\ Covers(UniqueLocalNet[1], ip) <=> (\hfc00 <= ip[1] /\ ip[1] <= \hfdff)
    /\ Covers(LinkLocalNet[1], ip) <=> (\hfe80 <= ip[1] /\ ip[1] <= \hfebf)
    /\ Covers(MulticastNet[1], ip) <=> (\hff00 <= ip[1] /\ ip[1] <= \hffff)
<1>0. /\ ip[1] \in Segment /\ ip[2] \in Segment /\ ip[3] \in Segment /\ ip[4] \in Segment
      /\ ip[5] \in Segment /\ ip[6] \in Segment /\ ip[7] \in Segment /\ ip[8] \in Segment
  BY DEF V6s
<1>1. Covers(RootV6[1], ip)
  <2> DEFINE net == V6(<<>>)
  <2>1. /\ Left(0, 0, 16) = 16 /\ Left(0, 16, 16) = 16 /\ Left(0, 32, 16) = 16 /\ Left(0, 48, 16) = 16
        /\ Left(0, 64, 16) = 16 /\ Left(0, 80, 16) = 16 /\ Left(0, 96, 16) = 16 /\ Left(0, 112, 16) = 16
    BY DEF Left, Between
  <2>2. 0 \in Nat /\ IsNet(net, 0, 0, 0, 0, 0, 0, 0, 0)
    BY Nets
  <2>0. RootV6[1] = Prefix(net, 0)
    BY DEF RootV6
  <2> HIDE DEF net
  <2>3. Covers(Prefix(net, 0), ip) <=>
          /\ Cleared(ip[1], 16) = 0
          /\ Cleared(ip[2], 16) = 0
          /\ Cleared(ip[3], 16) = 0
          /\ Cleared(ip[4], 16) = 0
          /\ Cleared(ip[5], 16) = 0
          /\ Cleared(ip[6], 16) = 0
          /\ Cleared(ip[7], 16) = 0
          /\ Cleared(ip[8], 16) = 0
    BY <2>1, <2>2, CoversNet
  <2> QED BY <1>0, <2>0, <2>3, Segments
<1>2. Covers(GlobalV6[1], ip) <=> (\h2000 <= ip[1] /\ ip[1] <= \h3fff)
  <2> DEFINE net == V6(<<\h2000>>)
  <2>1. /\ Left(3, 0, 16) = 13 /\ Left(3, 16, 16) = 16 /\ Left(3, 32, 16) = 16 /\ Left(3, 48, 16) = 16
        /\ Left(3, 64, 16) = 16 /\ Left(3, 80, 16) = 16 /\ Left(3, 96, 16) = 16 /\ Left(3, 112, 16) = 16
    BY DEF Left, Between
  <2>2. 3 \in Nat /\ IsNet(net, \h2000, 0, 0, 0, 0, 0, 0, 0)
    BY Nets
  <2>0. GlobalV6[1] = Prefix(net, 3)
    BY DEF GlobalV6
  <2> HIDE DEF net
  <2>3. Covers(Prefix(net, 3), ip) <=>
          /\ Cleared(ip[1], 13) = \h2000
          /\ Cleared(ip[2], 16) = 0
          /\ Cleared(ip[3], 16) = 0
          /\ Cleared(ip[4], 16) = 0
          /\ Cleared(ip[5], 16) = 0
          /\ Cleared(ip[6], 16) = 0
          /\ Cleared(ip[7], 16) = 0
          /\ Cleared(ip[8], 16) = 0
    BY <2>1, <2>2, CoversNet
  <2> QED BY <1>0, <2>0, <2>3, Segments
<1>3. Covers(UnspecifiedV6[1], ip) <=> (ip[1] = 0 /\ ip[2] = 0 /\ ip[3] = 0 /\ ip[4] = 0 /\ ip[5] = 0 /\ ip[6] = 0 /\ ip[7] = 0 /\ ip[8] = 0)
  <2> DEFINE net == V6(<<>>)
  <2>1. /\ Left(128, 0, 16) = 0 /\ Left(128, 16, 16) = 0 /\ Left(128, 32, 16) = 0 /\ Left(128, 48, 16) = 0
        /\ Left(128, 64, 16) = 0 /\ Left(128, 80, 16) = 0 /\ Left(128, 96, 16) = 0 /\ Left(128, 112, 16) = 0
    BY DEF Left, Between
  <2>2. 128 \in Nat /\ IsNet(net, 0, 0, 0, 0, 0, 0, 0, 0)
    BY Nets
  <2>0. UnspecifiedV6[1] = Prefix(net, 128)
    BY DEF UnspecifiedV6
  <2> HIDE DEF net
  <2>3. Covers(Prefix(net, 128), ip) <=>
          /\ Cleared(ip[1], 0) = 0
          /\ Cleared(ip[2], 0) = 0
          /\ Cleared(ip[3], 0) = 0
          /\ Cleared(ip[4], 0) = 0
          /\ Cleared(ip[5], 0) = 0
          /\ Cleared(ip[6], 0) = 0
          /\ Cleared(ip[7], 0) = 0
          /\ Cleared(ip[8], 0) = 0
    BY <2>1, <2>2, CoversNet
  <2>4. \A n \in Segment : Cleared(n, 0) = n /\ Cleared(n, 16) = 0
    BY Segments
  <2> QED BY ONLY <1>0, <2>0, <2>3, <2>4
<1>4. Covers(LoopbackV6[1], ip) <=> (ip[1] = 0 /\ ip[2] = 0 /\ ip[3] = 0 /\ ip[4] = 0 /\ ip[5] = 0 /\ ip[6] = 0 /\ ip[7] = 0 /\ ip[8] = 1)
  <2> DEFINE net == Zeros(7) \o <<1>>
  <2>1. /\ Left(128, 0, 16) = 0 /\ Left(128, 16, 16) = 0 /\ Left(128, 32, 16) = 0 /\ Left(128, 48, 16) = 0
        /\ Left(128, 64, 16) = 0 /\ Left(128, 80, 16) = 0 /\ Left(128, 96, 16) = 0 /\ Left(128, 112, 16) = 0
    BY DEF Left, Between
  <2>2. 128 \in Nat /\ IsNet(net, 0, 0, 0, 0, 0, 0, 0, 1)
    BY Nets
  <2>0. LoopbackV6[1] = Prefix(net, 128)
    BY DEF LoopbackV6
  <2> HIDE DEF net
  <2>3. Covers(Prefix(net, 128), ip) <=>
          /\ Cleared(ip[1], 0) = 0
          /\ Cleared(ip[2], 0) = 0
          /\ Cleared(ip[3], 0) = 0
          /\ Cleared(ip[4], 0) = 0
          /\ Cleared(ip[5], 0) = 0
          /\ Cleared(ip[6], 0) = 0
          /\ Cleared(ip[7], 0) = 0
          /\ Cleared(ip[8], 0) = 1
    BY <2>1, <2>2, CoversNet
  <2> QED BY <1>0, <2>0, <2>3, Segments
<1>5. Covers(CompatibleNet[1], ip) <=> (ip[1] = 0 /\ ip[2] = 0 /\ ip[3] = 0 /\ ip[4] = 0 /\ ip[5] = 0 /\ ip[6] = 0)
  <2> DEFINE net == V6(<<>>)
  <2>1. /\ Left(96, 0, 16) = 0 /\ Left(96, 16, 16) = 0 /\ Left(96, 32, 16) = 0 /\ Left(96, 48, 16) = 0
        /\ Left(96, 64, 16) = 0 /\ Left(96, 80, 16) = 0 /\ Left(96, 96, 16) = 16 /\ Left(96, 112, 16) = 16
    BY DEF Left, Between
  <2>2. 96 \in Nat /\ IsNet(net, 0, 0, 0, 0, 0, 0, 0, 0)
    BY Nets
  <2>0. CompatibleNet[1] = Prefix(net, 96)
    BY DEF CompatibleNet
  <2> HIDE DEF net
  <2>3. Covers(Prefix(net, 96), ip) <=>
          /\ Cleared(ip[1], 0) = 0
          /\ Cleared(ip[2], 0) = 0
          /\ Cleared(ip[3], 0) = 0
          /\ Cleared(ip[4], 0) = 0
          /\ Cleared(ip[5], 0) = 0
          /\ Cleared(ip[6], 0) = 0
          /\ Cleared(ip[7], 16) = 0
          /\ Cleared(ip[8], 16) = 0
    BY <2>1, <2>2, CoversNet
  <2>4. \A n \in Segment : Cleared(n, 0) = n /\ Cleared(n, 16) = 0
    BY Segments
  <2> QED BY ONLY <1>0, <2>0, <2>3, <2>4
<1>6. Covers(MappedNet[1], ip) <=> (ip[1] = 0 /\ ip[2] = 0 /\ ip[3] = 0 /\ ip[4] = 0 /\ ip[5] = 0 /\ ip[6] = \hffff)
  <2> DEFINE net == V6(Zeros(5) \o <<\hffff>>)
  <2>1. /\ Left(96, 0, 16) = 0 /\ Left(96, 16, 16) = 0 /\ Left(96, 32, 16) = 0 /\ Left(96, 48, 16) = 0
        /\ Left(96, 64, 16) = 0 /\ Left(96, 80, 16) = 0 /\ Left(96, 96, 16) = 16 /\ Left(96, 112, 16) = 16
    BY DEF Left, Between
  <2>2. 96 \in Nat /\ IsNet(net, 0, 0, 0, 0, 0, \hffff, 0, 0)
    BY Nets
  <2>0. MappedNet[1] = Prefix(net, 96)
    BY DEF MappedNet
  <2> HIDE DEF net
  <2>3. Covers(Prefix(net, 96), ip) <=>
          /\ Cleared(ip[1], 0) = 0
          /\ Cleared(ip[2], 0) = 0
          /\ Cleared(ip[3], 0) = 0
          /\ Cleared(ip[4], 0) = 0
          /\ Cleared(ip[5], 0) = 0
          /\ Cleared(ip[6], 0) = \hffff
          /\ Cleared(ip[7], 16) = 0
          /\ Cleared(ip[8], 16) = 0
    BY <2>1, <2>2, CoversNet
  <2> QED BY <1>0, <2>0, <2>3, Segments
<1>7. Covers(TranslatedNet[1], ip) <=> (ip[1] = \h64 /\ ip[2] = \hff9b /\ ip[3] = 0 /\ ip[4] = 0 /\ ip[5] = 0 /\ ip[6] = 0)
  <2> DEFINE net == V6(<<\h64, \hff9b>>)
  <2>1. /\ Left(96, 0, 16) = 0 /\ Left(96, 16, 16) = 0 /\ Left(96, 32, 16) = 0 /\ Left(96, 48, 16) = 0
        /\ Left(96, 64, 16) = 0 /\ Left(96, 80, 16) = 0 /\ Left(96, 96, 16) = 16 /\ Left(96, 112, 16) = 16
    BY DEF Left, Between
  <2>2. 96 \in Nat /\ IsNet(net, \h64, \hff9b, 0, 0, 0, 0, 0, 0)
    BY Nets
  <2>0. TranslatedNet[1] = Prefix(net, 96)
    BY DEF TranslatedNet
  <2> HIDE DEF net
  <2>3. Covers(Prefix(net, 96), ip) <=>
          /\ Cleared(ip[1], 0) = \h64
          /\ Cleared(ip[2], 0) = \hff9b
          /\ Cleared(ip[3], 0) = 0
          /\ Cleared(ip[4], 0) = 0
          /\ Cleared(ip[5], 0) = 0
          /\ Cleared(ip[6], 0) = 0
          /\ Cleared(ip[7], 16) = 0
          /\ Cleared(ip[8], 16) = 0
    BY <2>1, <2>2, CoversNet
  <2> QED BY <1>0, <2>0, <2>3, Segments
<1>8. Covers(TunnelledNet[1], ip) <=> (ip[1] = \h2002)
  <2> DEFINE net == V6(<<\h2002>>)
  <2>1. /\ Left(16, 0, 16) = 0 /\ Left(16, 16, 16) = 16 /\ Left(16, 32, 16) = 16 /\ Left(16, 48, 16) = 16
        /\ Left(16, 64, 16) = 16 /\ Left(16, 80, 16) = 16 /\ Left(16, 96, 16) = 16 /\ Left(16, 112, 16) = 16
    BY DEF Left, Between
  <2>2. 16 \in Nat /\ IsNet(net, \h2002, 0, 0, 0, 0, 0, 0, 0)
    BY Nets
  <2>0. TunnelledNet[1] = Prefix(net, 16)
    BY DEF TunnelledNet
  <2> HIDE DEF net
  <2>3. Covers(Prefix(net, 16), ip) <=>
          /\ Cleared(ip[1], 0) = \h2002
          /\ Cleared(ip[2], 16) = 0
          /\ Cleared(ip[3], 16) = 0
          /\ Cleared(ip[4], 16) = 0
          /\ Cleared(ip[5], 16) = 0
          /\ Cleared(ip[6], 16) = 0
          /\ Cleared(ip[7], 16) = 0
          /\ Cleared(ip[8], 16) = 0
    BY <2>1, <2>2, CoversNet
  <2> QED BY <1>0, <2>0, <2>3, Segments
<1>9. Covers(DocumentationNet[1], ip) <=> (ip[1] = \h2001 /\ ip[2] = \hdb8)
  <2> DEFINE net == V6(<<\h2001, \hdb8>>)
  <2>1. /\ Left(32, 0, 16) = 0 /\ Left(32, 16, 16) = 0 /\ Left(32, 32, 16) = 16 /\ Left(32, 48, 16) = 16
        /\ Left(32, 64, 16) = 16 /\ Left(32, 80, 16) = 16 /\ Left(32, 96, 16) = 16 /\ Left(32, 112, 16) = 16
    BY DEF Left, Between
  <2>2. 32 \in Nat /\ IsNet(net, \h2001, \hdb8, 0, 0, 0, 0, 0, 0)
    BY Nets
  <2>0. DocumentationNet[1] = Prefix(net, 32)
    BY DEF DocumentationNet
  <2> HIDE DEF net
  <2>3. Covers(Prefix(net, 32), ip) <=>
          /\ Cleared(ip[1], 0) = \h2001
          /\ Cleared(ip[2], 0) = \hdb8
          /\ Cleared(ip[3], 16) = 0
          /\ Cleared(ip[4], 16) = 0
          /\ Cleared(ip[5], 16) = 0
          /\ Cleared(ip[6], 16) = 0
          /\ Cleared(ip[7], 16) = 0
          /\ Cleared(ip[8], 16) = 0
    BY <2>1, <2>2, CoversNet
  <2> QED BY <1>0, <2>0, <2>3, Segments
<1>10. Covers(SecondDocumentationNet[1], ip) <=> (ip[1] = \h3fff /\ ip[2] < \h1000)
  <2> DEFINE net == V6(<<\h3fff>>)
  <2>1. /\ Left(20, 0, 16) = 0 /\ Left(20, 16, 16) = 12 /\ Left(20, 32, 16) = 16 /\ Left(20, 48, 16) = 16
        /\ Left(20, 64, 16) = 16 /\ Left(20, 80, 16) = 16 /\ Left(20, 96, 16) = 16 /\ Left(20, 112, 16) = 16
    BY DEF Left, Between
  <2>2. 20 \in Nat /\ IsNet(net, \h3fff, 0, 0, 0, 0, 0, 0, 0)
    BY Nets
  <2>0. SecondDocumentationNet[1] = Prefix(net, 20)
    BY DEF SecondDocumentationNet
  <2> HIDE DEF net
  <2>3. Covers(Prefix(net, 20), ip) <=>
          /\ Cleared(ip[1], 0) = \h3fff
          /\ Cleared(ip[2], 12) = 0
          /\ Cleared(ip[3], 16) = 0
          /\ Cleared(ip[4], 16) = 0
          /\ Cleared(ip[5], 16) = 0
          /\ Cleared(ip[6], 16) = 0
          /\ Cleared(ip[7], 16) = 0
          /\ Cleared(ip[8], 16) = 0
    BY <2>1, <2>2, CoversNet
  <2> QED BY <1>0, <2>0, <2>3, Segments
<1>11. Covers(BenchmarkingNet[1], ip) <=> (ip[1] = \h2001 /\ ip[2] = 2 /\ ip[3] = 0)
  <2> DEFINE net == V6(<<\h2001, 2>>)
  <2>1. /\ Left(48, 0, 16) = 0 /\ Left(48, 16, 16) = 0 /\ Left(48, 32, 16) = 0 /\ Left(48, 48, 16) = 16
        /\ Left(48, 64, 16) = 16 /\ Left(48, 80, 16) = 16 /\ Left(48, 96, 16) = 16 /\ Left(48, 112, 16) = 16
    BY DEF Left, Between
  <2>2. 48 \in Nat /\ IsNet(net, \h2001, 2, 0, 0, 0, 0, 0, 0)
    BY Nets
  <2>0. BenchmarkingNet[1] = Prefix(net, 48)
    BY DEF BenchmarkingNet
  <2> HIDE DEF net
  <2>3. Covers(Prefix(net, 48), ip) <=>
          /\ Cleared(ip[1], 0) = \h2001
          /\ Cleared(ip[2], 0) = 2
          /\ Cleared(ip[3], 0) = 0
          /\ Cleared(ip[4], 16) = 0
          /\ Cleared(ip[5], 16) = 0
          /\ Cleared(ip[6], 16) = 0
          /\ Cleared(ip[7], 16) = 0
          /\ Cleared(ip[8], 16) = 0
    BY <2>1, <2>2, CoversNet
  <2> QED BY <1>0, <2>0, <2>3, Segments
<1>12. Covers(ProtocolNet[1], ip) <=> (ip[1] = \h2001 /\ ip[2] < \h200)
  <2> DEFINE net == V6(<<\h2001>>)
  <2>1. /\ Left(23, 0, 16) = 0 /\ Left(23, 16, 16) = 9 /\ Left(23, 32, 16) = 16 /\ Left(23, 48, 16) = 16
        /\ Left(23, 64, 16) = 16 /\ Left(23, 80, 16) = 16 /\ Left(23, 96, 16) = 16 /\ Left(23, 112, 16) = 16
    BY DEF Left, Between
  <2>2. 23 \in Nat /\ IsNet(net, \h2001, 0, 0, 0, 0, 0, 0, 0)
    BY Nets
  <2>0. ProtocolNet[1] = Prefix(net, 23)
    BY DEF ProtocolNet
  <2> HIDE DEF net
  <2>3. Covers(Prefix(net, 23), ip) <=>
          /\ Cleared(ip[1], 0) = \h2001
          /\ Cleared(ip[2], 9) = 0
          /\ Cleared(ip[3], 16) = 0
          /\ Cleared(ip[4], 16) = 0
          /\ Cleared(ip[5], 16) = 0
          /\ Cleared(ip[6], 16) = 0
          /\ Cleared(ip[7], 16) = 0
          /\ Cleared(ip[8], 16) = 0
    BY <2>1, <2>2, CoversNet
  <2> QED BY <1>0, <2>0, <2>3, Segments
<1>13. Covers(LocalTranslationNet[1], ip) <=> (ip[1] = \h64 /\ ip[2] = \hff9b /\ ip[3] = 1)
  <2> DEFINE net == V6(<<\h64, \hff9b, 1>>)
  <2>1. /\ Left(48, 0, 16) = 0 /\ Left(48, 16, 16) = 0 /\ Left(48, 32, 16) = 0 /\ Left(48, 48, 16) = 16
        /\ Left(48, 64, 16) = 16 /\ Left(48, 80, 16) = 16 /\ Left(48, 96, 16) = 16 /\ Left(48, 112, 16) = 16
    BY DEF Left, Between
  <2>2. 48 \in Nat /\ IsNet(net, \h64, \hff9b, 1, 0, 0, 0, 0, 0)
    BY Nets
  <2>0. LocalTranslationNet[1] = Prefix(net, 48)
    BY DEF LocalTranslationNet
  <2> HIDE DEF net
  <2>3. Covers(Prefix(net, 48), ip) <=>
          /\ Cleared(ip[1], 0) = \h64
          /\ Cleared(ip[2], 0) = \hff9b
          /\ Cleared(ip[3], 0) = 1
          /\ Cleared(ip[4], 16) = 0
          /\ Cleared(ip[5], 16) = 0
          /\ Cleared(ip[6], 16) = 0
          /\ Cleared(ip[7], 16) = 0
          /\ Cleared(ip[8], 16) = 0
    BY <2>1, <2>2, CoversNet
  <2> QED BY <1>0, <2>0, <2>3, Segments
<1>14. Covers(DiscardNet[1], ip) <=> (ip[1] = \h100 /\ ip[2] = 0 /\ ip[3] = 0 /\ ip[4] = 0)
  <2> DEFINE net == V6(<<\h100>>)
  <2>1. /\ Left(64, 0, 16) = 0 /\ Left(64, 16, 16) = 0 /\ Left(64, 32, 16) = 0 /\ Left(64, 48, 16) = 0
        /\ Left(64, 64, 16) = 16 /\ Left(64, 80, 16) = 16 /\ Left(64, 96, 16) = 16 /\ Left(64, 112, 16) = 16
    BY DEF Left, Between
  <2>2. 64 \in Nat /\ IsNet(net, \h100, 0, 0, 0, 0, 0, 0, 0)
    BY Nets
  <2>0. DiscardNet[1] = Prefix(net, 64)
    BY DEF DiscardNet
  <2> HIDE DEF net
  <2>3. Covers(Prefix(net, 64), ip) <=>
          /\ Cleared(ip[1], 0) = \h100
          /\ Cleared(ip[2], 0) = 0
          /\ Cleared(ip[3], 0) = 0
          /\ Cleared(ip[4], 0) = 0
          /\ Cleared(ip[5], 16) = 0
          /\ Cleared(ip[6], 16) = 0
          /\ Cleared(ip[7], 16) = 0
          /\ Cleared(ip[8], 16) = 0
    BY <2>1, <2>2, CoversNet
  <2> QED BY <1>0, <2>0, <2>3, Segments
<1>15. Covers(UniqueLocalNet[1], ip) <=> (\hfc00 <= ip[1] /\ ip[1] <= \hfdff)
  <2> DEFINE net == V6(<<\hfc00>>)
  <2>1. /\ Left(7, 0, 16) = 9 /\ Left(7, 16, 16) = 16 /\ Left(7, 32, 16) = 16 /\ Left(7, 48, 16) = 16
        /\ Left(7, 64, 16) = 16 /\ Left(7, 80, 16) = 16 /\ Left(7, 96, 16) = 16 /\ Left(7, 112, 16) = 16
    BY DEF Left, Between
  <2>2. 7 \in Nat /\ IsNet(net, \hfc00, 0, 0, 0, 0, 0, 0, 0)
    BY Nets
  <2>0. UniqueLocalNet[1] = Prefix(net, 7)
    BY DEF UniqueLocalNet
  <2> HIDE DEF net
  <2>3. Covers(Prefix(net, 7), ip) <=>
          /\ Cleared(ip[1], 9) = \hfc00
          /\ Cleared(ip[2], 16) = 0
          /\ Cleared(ip[3], 16) = 0
          /\ Cleared(ip[4], 16) = 0
          /\ Cleared(ip[5], 16) = 0
          /\ Cleared(ip[6], 16) = 0
          /\ Cleared(ip[7], 16) = 0
          /\ Cleared(ip[8], 16) = 0
    BY <2>1, <2>2, CoversNet
  <2> QED BY <1>0, <2>0, <2>3, Segments
<1>16. Covers(LinkLocalNet[1], ip) <=> (\hfe80 <= ip[1] /\ ip[1] <= \hfebf)
  <2> DEFINE net == V6(<<\hfe80>>)
  <2>1. /\ Left(10, 0, 16) = 6 /\ Left(10, 16, 16) = 16 /\ Left(10, 32, 16) = 16 /\ Left(10, 48, 16) = 16
        /\ Left(10, 64, 16) = 16 /\ Left(10, 80, 16) = 16 /\ Left(10, 96, 16) = 16 /\ Left(10, 112, 16) = 16
    BY DEF Left, Between
  <2>2. 10 \in Nat /\ IsNet(net, \hfe80, 0, 0, 0, 0, 0, 0, 0)
    BY Nets
  <2>0. LinkLocalNet[1] = Prefix(net, 10)
    BY DEF LinkLocalNet
  <2> HIDE DEF net
  <2>3. Covers(Prefix(net, 10), ip) <=>
          /\ Cleared(ip[1], 6) = \hfe80
          /\ Cleared(ip[2], 16) = 0
          /\ Cleared(ip[3], 16) = 0
          /\ Cleared(ip[4], 16) = 0
          /\ Cleared(ip[5], 16) = 0
          /\ Cleared(ip[6], 16) = 0
          /\ Cleared(ip[7], 16) = 0
          /\ Cleared(ip[8], 16) = 0
    BY <2>1, <2>2, CoversNet
  <2> QED BY <1>0, <2>0, <2>3, Segments
<1>17. Covers(MulticastNet[1], ip) <=> (\hff00 <= ip[1] /\ ip[1] <= \hffff)
  <2> DEFINE net == V6(<<\hff00>>)
  <2>1. /\ Left(8, 0, 16) = 8 /\ Left(8, 16, 16) = 16 /\ Left(8, 32, 16) = 16 /\ Left(8, 48, 16) = 16
        /\ Left(8, 64, 16) = 16 /\ Left(8, 80, 16) = 16 /\ Left(8, 96, 16) = 16 /\ Left(8, 112, 16) = 16
    BY DEF Left, Between
  <2>2. 8 \in Nat /\ IsNet(net, \hff00, 0, 0, 0, 0, 0, 0, 0)
    BY Nets
  <2>0. MulticastNet[1] = Prefix(net, 8)
    BY DEF MulticastNet
  <2> HIDE DEF net
  <2>3. Covers(Prefix(net, 8), ip) <=>
          /\ Cleared(ip[1], 8) = \hff00
          /\ Cleared(ip[2], 16) = 0
          /\ Cleared(ip[3], 16) = 0
          /\ Cleared(ip[4], 16) = 0
          /\ Cleared(ip[5], 16) = 0
          /\ Cleared(ip[6], 16) = 0
          /\ Cleared(ip[7], 16) = 0
          /\ Cleared(ip[8], 16) = 0
    BY <2>1, <2>2, CoversNet
  <2> QED BY <1>0, <2>0, <2>3, Segments
<1> QED BY ONLY <1>1, <1>2, <1>3, <1>4, <1>5, <1>6, <1>7, <1>8, <1>9, <1>10, <1>11, <1>12, <1>13, <1>14, <1>15, <1>16, <1>17

LEMMA StartsV6 ==
  ASSUME NEW ip \in V6s, NEW n \in 1..8, NEW units \in [1..n -> Nat]
  PROVE  Starts(ip, units) <=> \A i \in 1..n : ip[i] = units[i]
<1>1. ip \in Seq(Segment) /\ n \in 1..Len(ip)
  BY ShapeV6
<1> QED BY <1>1, StartsIs

LEMMA BeginsWithTwo ==
  ASSUME NEW ip \in V6s, NEW a \in Nat, NEW b \in Nat
  PROVE  Starts(ip, <<a, b>>) <=>
           (ip[1] = a /\ ip[2] = b)
<1> DEFINE units == <<a, b>>
<1>1. units \in [1..2 -> Nat] /\ 2 \in 1..8
  OBVIOUS
<1>2. units[1] = a /\ units[2] = b
  OBVIOUS
<1> HIDE DEF units
<1>3. Starts(ip, units) <=> \A i \in 1..2 : ip[i] = units[i]
  BY <1>1, StartsV6
<1>4. 1..2 = {1, 2}
  OBVIOUS
<1>5. Starts(ip, units) <=> (ip[1] = a /\ ip[2] = b)
  BY ONLY <1>2, <1>3, <1>4
<1> QED BY <1>5 DEF units

LEMMA BeginsWithThree ==
  ASSUME NEW ip \in V6s, NEW a \in Nat, NEW b \in Nat, NEW c \in Nat
  PROVE  Starts(ip, <<a, b, c>>) <=>
           (ip[1] = a /\ ip[2] = b /\ ip[3] = c)
<1> DEFINE units == <<a, b, c>>
<1>1. units \in [1..3 -> Nat] /\ 3 \in 1..8
  OBVIOUS
<1>2. units[1] = a /\ units[2] = b /\ units[3] = c
  OBVIOUS
<1> HIDE DEF units
<1>3. Starts(ip, units) <=> \A i \in 1..3 : ip[i] = units[i]
  BY <1>1, StartsV6
<1>4. 1..3 = {1, 2, 3}
  OBVIOUS
<1>5. Starts(ip, units) <=> (ip[1] = a /\ ip[2] = b /\ ip[3] = c)
  BY ONLY <1>2, <1>3, <1>4
<1> QED BY <1>5 DEF units

LEMMA BeginsWithFour ==
  ASSUME NEW ip \in V6s, NEW a \in Nat, NEW b \in Nat, NEW c \in Nat, NEW d \in Nat
  PROVE  Starts(ip, <<a, b, c, d>>) <=>
           (ip[1] = a /\ ip[2] = b /\ ip[3] = c /\ ip[4] = d)
<1> DEFINE units == <<a, b, c, d>>
<1>1. units \in [1..4 -> Nat] /\ 4 \in 1..8
  OBVIOUS
<1>2. units[1] = a /\ units[2] = b /\ units[3] = c /\ units[4] = d
  OBVIOUS
<1> HIDE DEF units
<1>3. Starts(ip, units) <=> \A i \in 1..4 : ip[i] = units[i]
  BY <1>1, StartsV6
<1>4. 1..4 = {1, 2, 3, 4}
  OBVIOUS
<1>5. Starts(ip, units) <=> (ip[1] = a /\ ip[2] = b /\ ip[3] = c /\ ip[4] = d)
  BY ONLY <1>2, <1>3, <1>4
<1> QED BY <1>5 DEF units

LEMMA BeginsTranslated ==
  ASSUME NEW ip \in V6s, NEW a \in Nat, NEW b \in Nat
  PROVE  Starts(ip, <<a, b, 0, 0, 0, 0>>) <=>
           (ip[1] = a /\ ip[2] = b /\ ip[3] = 0 /\ ip[4] = 0 /\ ip[5] = 0 /\ ip[6] = 0)
<1> DEFINE units == <<a, b, 0, 0, 0, 0>>
<1>1. units \in [1..6 -> Nat] /\ 6 \in 1..8
  OBVIOUS
<1>2. units[1] = a /\ units[2] = b /\ units[3] = 0 /\ units[4] = 0 /\ units[5] = 0 /\ units[6] = 0
  OBVIOUS
<1> HIDE DEF units
<1>3. Starts(ip, units) <=> \A i \in 1..6 : ip[i] = units[i]
  BY <1>1, StartsV6
<1>4. 1..6 = {1, 2, 3, 4, 5, 6}
  OBVIOUS
<1>5. Starts(ip, units) <=> (ip[1] = a /\ ip[2] = b /\ ip[3] = 0 /\ ip[4] = 0 /\ ip[5] = 0 /\ ip[6] = 0)
  BY ONLY <1>2, <1>3, <1>4
<1> QED BY <1>5 DEF units

LEMMA BeginsWithZeros ==
  ASSUME NEW ip \in V6s
  PROVE  Starts(ip, Zeros(6)) <=>
           (ip[1] = 0 /\ ip[2] = 0 /\ ip[3] = 0 /\ ip[4] = 0 /\ ip[5] = 0 /\ ip[6] = 0)
<1> DEFINE units == Zeros(6)
<1>4. 1..6 = {1, 2, 3, 4, 5, 6} /\ 6 \in 1..8
  OBVIOUS
<1>1. units \in [1..6 -> Nat]
  BY DEF Zeros
<1>2. units[1] = 0 /\ units[2] = 0 /\ units[3] = 0 /\ units[4] = 0 /\ units[5] = 0 /\ units[6] = 0
  BY <1>4 DEF Zeros
<1> HIDE DEF units
<1>3. Starts(ip, units) <=> \A i \in 1..6 : ip[i] = units[i]
  BY <1>1, <1>4, StartsV6
<1>5. Starts(ip, units) <=> (ip[1] = 0 /\ ip[2] = 0 /\ ip[3] = 0 /\ ip[4] = 0 /\ ip[5] = 0 /\ ip[6] = 0)
  BY ONLY <1>2, <1>3, <1>4
<1> QED BY <1>5 DEF units

LEMMA BeginsWithLast ==
  ASSUME NEW ip \in V6s, NEW a \in Nat
  PROVE  Starts(ip, Zeros(5) \o <<a>>) <=>
           (ip[1] = 0 /\ ip[2] = 0 /\ ip[3] = 0 /\ ip[4] = 0 /\ ip[5] = 0 /\ ip[6] = a)
<1> DEFINE units == Zeros(5) \o <<a>>
<1>4. 1..6 = {1, 2, 3, 4, 5, 6} /\ 6 \in 1..8
  OBVIOUS
<1>a. /\ units \in Seq(Nat) /\ Len(units) = 5 + 1
      /\ \A i \in 1..5 : units[i] = 0
      /\ units[5 + 1] = a
  BY ZerosThen
<1> HIDE DEF units
<1>b. Len(units) = 6 /\ units \in [1..Len(units) -> Nat]
  BY <1>a, LenProperties
<1>1. units \in [1..6 -> Nat]
  BY <1>b
<1>2. units[1] = 0 /\ units[2] = 0 /\ units[3] = 0 /\ units[4] = 0 /\ units[5] = 0 /\ units[6] = a
  BY <1>a
<1> HIDE DEF units
<1>3. Starts(ip, units) <=> \A i \in 1..6 : ip[i] = units[i]
  BY <1>1, <1>4, StartsV6
<1>5. Starts(ip, units) <=> (ip[1] = 0 /\ ip[2] = 0 /\ ip[3] = 0 /\ ip[4] = 0 /\ ip[5] = 0 /\ ip[6] = a)
  BY ONLY <1>2, <1>3, <1>4
<1> QED BY <1>5 DEF units

(* Two addresses of eight segments that agree in all are the same. *)
LEMMA SameV6 ==
  ASSUME NEW ip \in V6s, NEW net, NEW a, NEW b, NEW c, NEW d, NEW e, NEW f, NEW g, NEW h,
         IsNet(net, a, b, c, d, e, f, g, h)
  PROVE  ip = net <=> /\ ip[1] = a /\ ip[2] = b /\ ip[3] = c /\ ip[4] = d
                      /\ ip[5] = e /\ ip[6] = f /\ ip[7] = g /\ ip[8] = h
<1>1. net \in Seq(Nat) /\ Len(net) = 8
  BY DEF IsNet
<1>2. ip \in Seq(Segment) /\ Len(ip) = 8
  BY ShapeV6
<1>3. ip \in Seq(Segment \cup Nat) /\ net \in Seq(Segment \cup Nat)
  BY <1>1, <1>2
<1>4. (\A i \in 1..8 : ip[i] = net[i]) => ip = net
  BY <1>1, <1>2, <1>3, SeqEqual
<1>5. 1..8 = {1, 2, 3, 4, 5, 6, 7, 8}
  OBVIOUS
<1> QED BY <1>4, <1>5 DEF IsNet

(* The kinds of IPv6 addresses that matter: those that embed an IPv4       *)
(* address, global unicast, and what is carved out of it.                  *)
MappedV6(ip) ==
  /\ ip[1] = 0 /\ ip[2] = 0 /\ ip[3] = 0 /\ ip[4] = 0 /\ ip[5] = 0 /\ ip[6] = \hffff
TranslatedV6(ip) ==
  /\ ip[1] = \h64 /\ ip[2] = \hff9b /\ ip[3] = 0 /\ ip[4] = 0 /\ ip[5] = 0 /\ ip[6] = 0
TunnelledV6(ip) == ip[1] = \h2002
UnicastV6(ip) == \h2000 <= ip[1] /\ ip[1] <= \h3fff

SpecialV6(ip) ==
  \/ ip[1] = 0 /\ ip[2] = 0 /\ ip[3] = 0 /\ ip[4] = 0 /\ ip[5] = 0 /\ ip[6] = 0 /\ ip[7] = 0 /\ ip[8] = 0
  \/ ip[1] = 0 /\ ip[2] = 0 /\ ip[3] = 0 /\ ip[4] = 0 /\ ip[5] = 0 /\ ip[6] = 0 /\ ip[7] = 0 /\ ip[8] = 1
  \/ ip[1] = 0 /\ ip[2] = 0 /\ ip[3] = 0 /\ ip[4] = 0 /\ ip[5] = 0 /\ ip[6] = 0
  \/ ip[1] = \h2001 /\ ip[2] = \hdb8
  \/ ip[1] = \h3fff /\ ip[2] < \h1000
  \/ ip[1] = \h2001 /\ ip[2] = 2 /\ ip[3] = 0
  \/ ip[1] = \h2001 /\ ip[2] < \h200
  \/ \hfc00 <= ip[1] /\ ip[1] <= \hfdff
  \/ \hfe80 <= ip[1] /\ ip[1] <= \hfebf
  \/ \hff00 <= ip[1] /\ ip[1] <= \hffff
  \/ ip[1] = \h64 /\ ip[2] = \hff9b /\ ip[3] = 1
  \/ ip[1] = \h100 /\ ip[2] = 0 /\ ip[3] = 0 /\ ip[4] = 0

LEMMA ClassesV6 ==
  ASSUME NEW ip \in V6s
  PROVE  /\ MappedV6(ip) => ClassifyV6(ip) = ClassifyV4(Embedded(ip[7], ip[8]))
         /\ TranslatedV6(ip) => ClassifyV6(ip) = ClassifyV4(Embedded(ip[7], ip[8]))
         /\ TunnelledV6(ip) => ClassifyV6(ip) = ClassifyV4(Embedded(ip[2], ip[3]))
         /\ ~MappedV6(ip) /\ ~TranslatedV6(ip) /\ ~TunnelledV6(ip) =>
              (ClassifyV6(ip) = "global" <=> UnicastV6(ip) /\ ~SpecialV6(ip))
<1> DEFINE a == ip[1]
           b == ip[2]
           c1 == ip = Zeros(8)
           c2 == ip = Zeros(7) \o <<1>>
           c3 == Starts(ip, Zeros(5) \o <<\hffff>>)
           c4 == Starts(ip, Zeros(6))
           c5 == Starts(ip, <<\h64, \hff9b, 0, 0, 0, 0>>)
           c6 == a = \h2002
           c7 == Starts(ip, <<\h2001, \hdb8>>)
           c8 == a = \h3fff /\ b < \h1000
           c9 == Starts(ip, <<\h2001, 2, 0>>)
           c10 == Starts(ip, <<\h64, \hff9b, 1>>) \/ Starts(ip, <<\h100, 0, 0, 0>>)
           c11 == a = \h2001 /\ b < \h200
           c12 == \hfc00 <= a /\ a <= \hfdff
           c13 == \hfe80 <= a /\ a <= \hfebf
           c14 == \hff00 <= a /\ a <= \hffff
           c15 == \h2000 <= a /\ a <= \h3fff
           arms ==
             <<<<c1, "unspecified">>,
               <<c2, "loopback">>,
               <<c3, ClassifyV4(Embedded(ip[7], ip[8]))>>,
               <<c4, "reserved">>,
               <<c5, ClassifyV4(Embedded(ip[7], ip[8]))>>,
               <<c6, ClassifyV4(Embedded(b, ip[3]))>>,
               <<c7, "documentation">>,
               <<c8, "documentation">>,
               <<c9, "benchmarking">>,
               <<c10, "reserved">>,
               <<c11, "reserved">>,
               <<c12, "unique local">>,
               <<c13, "link local">>,
               <<c14, "multicast">>,
               <<c15, "global">>,
               <<TRUE, "reserved">>>>
<1>1. ClassifyV6(ip) = FirstArm(arms)
  BY DEF ClassifyV6
<1>0. /\ ip[1] \in Segment /\ ip[2] \in Segment /\ ip[3] \in Segment /\ ip[4] \in Segment
      /\ ip[5] \in Segment /\ ip[6] \in Segment /\ ip[7] \in Segment /\ ip[8] \in Segment
  BY DEF V6s
<1>5. IsNet(Zeros(8), 0, 0, 0, 0, 0, 0, 0, 0)
  <2>1. Zeros(8) \in [1..8 -> Nat] /\ 8 \in Nat
    BY DEF Zeros
  <2>2. Zeros(8) \in Seq(Nat)
    BY <2>1, FunctionIsSeq
  <2>3. DOMAIN Zeros(8) = 1..8 /\ Len(Zeros(8)) \in Nat /\ DOMAIN Zeros(8) = 1..Len(Zeros(8))
    BY <2>1, <2>2, LenProperties
  <2>4. Len(Zeros(8)) = 8
    BY <2>3
  <2> QED BY <2>2, <2>4 DEF IsNet, Zeros
<1>6. IsNet(Zeros(7) \o <<1>>, 0, 0, 0, 0, 0, 0, 0, 1)
  BY Nets
<1> HIDE DEF arms
<1>7. c1 <=> ip[1] = 0 /\ ip[2] = 0 /\ ip[3] = 0 /\ ip[4] = 0 /\ ip[5] = 0 /\ ip[6] = 0 /\ ip[7] = 0 /\ ip[8] = 0
  BY <1>5, SameV6
<1>8. c2 <=> ip[1] = 0 /\ ip[2] = 0 /\ ip[3] = 0 /\ ip[4] = 0 /\ ip[5] = 0 /\ ip[6] = 0 /\ ip[7] = 0 /\ ip[8] = 1
  <2>1. \A net : IsNet(net, 0, 0, 0, 0, 0, 0, 0, 1) =>
                  (ip = net <=> /\ ip[1] = 0 /\ ip[2] = 0 /\ ip[3] = 0 /\ ip[4] = 0
                                /\ ip[5] = 0 /\ ip[6] = 0 /\ ip[7] = 0 /\ ip[8] = 1)
    BY SameV6
  <2> QED BY ONLY <1>6, <2>1, Zenon
<1>9. c3 <=> MappedV6(ip)
  BY BeginsWithLast DEF MappedV6
<1>10. c4 <=> ip[1] = 0 /\ ip[2] = 0 /\ ip[3] = 0 /\ ip[4] = 0 /\ ip[5] = 0 /\ ip[6] = 0
  BY BeginsWithZeros
<1>11. c5 <=> TranslatedV6(ip)
  <2>1. \h64 \in Nat /\ \hff9b \in Nat /\ 0 \in Nat
    OBVIOUS
  <2>2. Starts(ip, <<\h64, \hff9b, 0, 0, 0, 0>>) <=>
          (ip[1] = \h64 /\ ip[2] = \hff9b /\ ip[3] = 0 /\ ip[4] = 0 /\ ip[5] = 0 /\ ip[6] = 0)
    BY ONLY ip \in V6s, <2>1, BeginsTranslated
  <2> QED BY ONLY <2>2 DEF TranslatedV6, c5
<1>12. c6 <=> TunnelledV6(ip)
  BY DEF TunnelledV6
<1>13. c7 <=> ip[1] = \h2001 /\ ip[2] = \hdb8
  BY BeginsWithTwo
<1>14. c8 <=> ip[1] = \h3fff /\ ip[2] < \h1000
  OBVIOUS
<1>15. c9 <=> ip[1] = \h2001 /\ ip[2] = 2 /\ ip[3] = 0
  BY BeginsWithThree
<1>16. c10 <=>
         \/ ip[1] = \h64 /\ ip[2] = \hff9b /\ ip[3] = 1
         \/ ip[1] = \h100 /\ ip[2] = 0 /\ ip[3] = 0 /\ ip[4] = 0
  <2>1. \h64 \in Nat /\ \hff9b \in Nat /\ \h100 \in Nat /\ 0 \in Nat /\ 1 \in Nat
    OBVIOUS
  <2>2. Starts(ip, <<\h64, \hff9b, 1>>) <=> (ip[1] = \h64 /\ ip[2] = \hff9b /\ ip[3] = 1)
    BY ONLY ip \in V6s, <2>1, BeginsWithThree
  <2>3. Starts(ip, <<\h100, 0, 0, 0>>) <=>
          (ip[1] = \h100 /\ ip[2] = 0 /\ ip[3] = 0 /\ ip[4] = 0)
    BY ONLY ip \in V6s, <2>1, BeginsWithFour
  <2> QED BY ONLY <2>2, <2>3 DEF c10
<1>17. c11 <=> ip[1] = \h2001 /\ ip[2] < \h200
  OBVIOUS
<1>18. c12 <=> \hfc00 <= ip[1] /\ ip[1] <= \hfdff
  OBVIOUS
<1>19. c13 <=> \hfe80 <= ip[1] /\ ip[1] <= \hfebf
  OBVIOUS
<1>20. c14 <=> \hff00 <= ip[1] /\ ip[1] <= \hffff
  OBVIOUS
<1>21. c15 <=> UnicastV6(ip)
  BY DEF UnicastV6
<1> HIDE DEF c1, c2, c3, c4, c5, c6, c7, c8, c9, c10, c11, c12, c13, c14, c15
<1>2. DOMAIN arms = 1..16
  BY ONLY TRUE DEF arms
<1>3. /\ arms[1][2] = "unspecified"
      /\ arms[2][2] = "loopback"
      /\ arms[3][2] = ClassifyV4(Embedded(ip[7], ip[8]))
      /\ arms[4][2] = "reserved"
      /\ arms[5][2] = ClassifyV4(Embedded(ip[7], ip[8]))
      /\ arms[6][2] = ClassifyV4(Embedded(b, ip[3]))
      /\ arms[7][2] = "documentation"
      /\ arms[8][2] = "documentation"
      /\ arms[9][2] = "benchmarking"
      /\ arms[10][2] = "reserved"
      /\ arms[11][2] = "reserved"
      /\ arms[12][2] = "unique local"
      /\ arms[13][2] = "link local"
      /\ arms[14][2] = "multicast"
      /\ arms[15][2] = "global"
      /\ arms[16][2] = "reserved"
  BY ONLY TRUE DEF arms
<1>4. /\ arms[1][1] <=> c1
      /\ arms[2][1] <=> c2
      /\ arms[3][1] <=> c3
      /\ arms[4][1] <=> c4
      /\ arms[5][1] <=> c5
      /\ arms[6][1] <=> c6
      /\ arms[7][1] <=> c7
      /\ arms[8][1] <=> c8
      /\ arms[9][1] <=> c9
      /\ arms[10][1] <=> c10
      /\ arms[11][1] <=> c11
      /\ arms[12][1] <=> c12
      /\ arms[13][1] <=> c13
      /\ arms[14][1] <=> c14
      /\ arms[15][1] <=> c15
      /\ arms[16][1]
  BY ONLY TRUE DEF arms
<1>30. ASSUME MappedV6(ip) PROVE ClassifyV6(ip) = ClassifyV4(Embedded(ip[7], ip[8]))
  <2>1. ~arms[1][1] /\ ~arms[2][1] /\ arms[3][1]
    BY <1>4, <1>7, <1>8, <1>9, <1>30 DEF MappedV6
  <2>2. \A i \in 1..(3 - 1) : ~arms[i][1]
    BY <2>1
  <2>3. 3 \in 1..16 /\ 16 \in Nat
    OBVIOUS
  <2>4. FirstArm(arms) = arms[3][2]
    BY <1>2, <2>1, <2>2, <2>3, FirstArmIs
  <2> QED BY <1>1, <1>3, <2>4
<1>31. ASSUME TranslatedV6(ip) PROVE ClassifyV6(ip) = ClassifyV4(Embedded(ip[7], ip[8]))
  <2>1. ~arms[1][1] /\ ~arms[2][1] /\ ~arms[3][1] /\ ~arms[4][1] /\ arms[5][1]
    BY <1>4, <1>7, <1>8, <1>9, <1>10, <1>11, <1>31 DEF MappedV6, TranslatedV6
  <2>2. \A i \in 1..(5 - 1) : ~arms[i][1]
    BY <2>1
  <2>3. 5 \in 1..16 /\ 16 \in Nat
    OBVIOUS
  <2>4. FirstArm(arms) = arms[5][2]
    BY <1>2, <2>1, <2>2, <2>3, FirstArmIs
  <2> QED BY <1>1, <1>3, <2>4
<1>32. ASSUME TunnelledV6(ip) PROVE ClassifyV6(ip) = ClassifyV4(Embedded(ip[2], ip[3]))
  <2>1. ~arms[1][1] /\ ~arms[2][1] /\ ~arms[3][1] /\ ~arms[4][1] /\ ~arms[5][1] /\ arms[6][1]
    BY <1>4, <1>7, <1>8, <1>9, <1>10, <1>11, <1>12, <1>32
       DEF MappedV6, TranslatedV6, TunnelledV6
  <2>2. \A i \in 1..(6 - 1) : ~arms[i][1]
    BY <2>1
  <2>3. 6 \in 1..16 /\ 16 \in Nat
    OBVIOUS
  <2>4. FirstArm(arms) = arms[6][2]
    BY <1>2, <2>1, <2>2, <2>3, FirstArmIs
  <2> QED BY <1>1, <1>3, <2>4
<1>33. ASSUME ~MappedV6(ip), ~TranslatedV6(ip), ~TunnelledV6(ip)
       PROVE  ClassifyV6(ip) = "global" <=> UnicastV6(ip) /\ ~SpecialV6(ip)
  <2>1. ~arms[3][1] /\ ~arms[5][1] /\ ~arms[6][1]
    BY <1>4, <1>9, <1>11, <1>12, <1>33
  <2>2. SpecialV6(ip) <=>
          \/ arms[1][1] \/ arms[2][1] \/ arms[4][1] \/ arms[7][1] \/ arms[8][1] \/ arms[9][1]
          \/ arms[10][1] \/ arms[11][1] \/ arms[12][1] \/ arms[13][1] \/ arms[14][1]
    BY ONLY <1>4, <1>7, <1>8, <1>10, <1>13, <1>14, <1>15, <1>16, <1>17, <1>18, <1>19, <1>20
       DEF SpecialV6
  <2>a. 15 \in 1..16 /\ 16 \in Nat /\ 15 - 1 = 14
    OBVIOUS
  <2>b. 1..14 = {1, 2, 3, 4, 5, 6, 7, 8, 9, 10, 11, 12, 13, 14}
    OBVIOUS
  <2>3. ASSUME UnicastV6(ip), ~SpecialV6(ip) PROVE ClassifyV6(ip) = "global"
    <3>1. arms[15][1]
      BY <1>4, <1>21, <2>3
    <3>2. \A i \in 1..(15 - 1) : ~arms[i][1]
      BY ONLY <2>1, <2>2, <2>3, <2>a, <2>b
    <3>3. FirstArm(arms) = arms[15][2]
      BY <1>2, <2>a, <3>1, <3>2, FirstArmIs
    <3> QED BY <1>1, <1>3, <3>3
  <2>4. ASSUME ClassifyV6(ip) = "global" PROVE UnicastV6(ip) /\ ~SpecialV6(ip)
    <3> DEFINE matches == {i \in 1..16 : arms[i][1]}
    <3>1. matches \in SUBSET Nat /\ 16 \in matches
      BY <1>4
    <3>2. PICK k \in matches : \A i \in matches : k <= i
      BY <3>1, LeastNumber
    <3>3. k \in 1..16 /\ arms[k][1] /\ \A i \in 1..(k - 1) : ~arms[i][1]
      BY <3>2
    <3>4. FirstArm(arms) = arms[k][2]
      BY <1>2, <2>a, <3>3, FirstArmIs
    <3>5. arms[k][2] = "global" /\ k # 3 /\ k # 5 /\ k # 6
      BY <1>1, <2>1, <2>4, <3>3, <3>4
    <3> HIDE DEF matches
    <3>6. 1..16 = {1, 2, 3, 4, 5, 6, 7, 8, 9, 10, 11, 12, 13, 14, 15, 16}
      OBVIOUS
    <3>7. k = 15
      BY <1>3, <3>3, <3>5, <3>6
    <3>8. \A i \in 1..14 : ~arms[i][1]
      BY <2>a, <3>3, <3>7
    <3>9. arms[15][1]
      BY <3>3, <3>7
    <3> QED BY <1>4, <1>21, <2>2, <2>b, <3>8, <3>9
  <2> QED BY <2>3, <2>4
<1> QED BY <1>30, <1>31, <1>32, <1>33

(* The other entries carve something out of the global unicast addresses,  *)
(* or of what embeds one.                                                  *)
IsCarved(entry) == IsSpecial(entry) /\ entry[2] \notin {"embeds 7", "embeds 2"}

LEMMA CarvedIs ==
  ASSUME NEW network, NEW length \in Lengths, NEW scope,
         scope \notin {"global", "embeds 7", "embeds 2"}
  PROVE  IsCarved(<<Prefix(network, length), scope>>)
<1>1. IsSpecial(<<Prefix(network, length), scope>>)
  BY EntryIs
<1> QED BY <1>1 DEF IsCarved

LEMMA NamedEntries ==
  /\ RootV6[1].length = 0 /\ RootV6[2] = "reserved"
  /\ GlobalV6[1].length = 3 /\ GlobalV6[2] = "global"
  /\ MappedNet[1].length = 96 /\ MappedNet[2] = "embeds 7"
  /\ TranslatedNet[1].length = 96 /\ TranslatedNet[2] = "embeds 7"
  /\ TunnelledNet[1].length = 16 /\ TunnelledNet[2] = "embeds 2"
BY PrefixHas DEF RootV6, GlobalV6, MappedNet, TranslatedNet, TunnelledNet

CarvedV6 ==
  {UnspecifiedV6, LoopbackV6, CompatibleNet, DocumentationNet,
   SecondDocumentationNet, BenchmarkingNet, ProtocolNet, LocalTranslationNet,
   DiscardNet, UniqueLocalNet, LinkLocalNet, MulticastNet}

LEMMA CarvedEntries ==
  ASSUME NEW entry \in CarvedV6
  PROVE  IsCarved(entry)
<1>3. IsCarved(UnspecifiedV6)
  <2> DEFINE net == V6(<<>>)
  <2>1. UnspecifiedV6 = <<Prefix(net, 128), "unspecified">>
    BY DEF UnspecifiedV6
  <2> HIDE DEF net
  <2>2. 128 \in Lengths
    BY DEF Lengths
  <2> QED BY <2>1, <2>2, CarvedIs
<1>4. IsCarved(LoopbackV6)
  <2> DEFINE net == Zeros(7) \o <<1>>
  <2>1. LoopbackV6 = <<Prefix(net, 128), "loopback">>
    BY DEF LoopbackV6
  <2> HIDE DEF net
  <2>2. 128 \in Lengths
    BY DEF Lengths
  <2> QED BY <2>1, <2>2, CarvedIs
<1>5. IsCarved(CompatibleNet)
  <2> DEFINE net == V6(<<>>)
  <2>1. CompatibleNet = <<Prefix(net, 96), "reserved">>
    BY DEF CompatibleNet
  <2> HIDE DEF net
  <2>2. 96 \in Lengths
    BY DEF Lengths
  <2> QED BY <2>1, <2>2, CarvedIs
<1>9. IsCarved(DocumentationNet)
  <2> DEFINE net == V6(<<\h2001, \hdb8>>)
  <2>1. DocumentationNet = <<Prefix(net, 32), "documentation">>
    BY DEF DocumentationNet
  <2> HIDE DEF net
  <2>2. 32 \in Lengths
    BY DEF Lengths
  <2> QED BY <2>1, <2>2, CarvedIs
<1>10. IsCarved(SecondDocumentationNet)
  <2> DEFINE net == V6(<<\h3fff>>)
  <2>1. SecondDocumentationNet = <<Prefix(net, 20), "documentation">>
    BY DEF SecondDocumentationNet
  <2> HIDE DEF net
  <2>2. 20 \in Lengths
    BY DEF Lengths
  <2> QED BY <2>1, <2>2, CarvedIs
<1>11. IsCarved(BenchmarkingNet)
  <2> DEFINE net == V6(<<\h2001, 2>>)
  <2>1. BenchmarkingNet = <<Prefix(net, 48), "benchmarking">>
    BY DEF BenchmarkingNet
  <2> HIDE DEF net
  <2>2. 48 \in Lengths
    BY DEF Lengths
  <2> QED BY <2>1, <2>2, CarvedIs
<1>12. IsCarved(ProtocolNet)
  <2> DEFINE net == V6(<<\h2001>>)
  <2>1. ProtocolNet = <<Prefix(net, 23), "reserved">>
    BY DEF ProtocolNet
  <2> HIDE DEF net
  <2>2. 23 \in Lengths
    BY DEF Lengths
  <2> QED BY <2>1, <2>2, CarvedIs
<1>13. IsCarved(LocalTranslationNet)
  <2> DEFINE net == V6(<<\h64, \hff9b, 1>>)
  <2>1. LocalTranslationNet = <<Prefix(net, 48), "reserved">>
    BY DEF LocalTranslationNet
  <2> HIDE DEF net
  <2>2. 48 \in Lengths
    BY DEF Lengths
  <2> QED BY <2>1, <2>2, CarvedIs
<1>14. IsCarved(DiscardNet)
  <2> DEFINE net == V6(<<\h100>>)
  <2>1. DiscardNet = <<Prefix(net, 64), "reserved">>
    BY DEF DiscardNet
  <2> HIDE DEF net
  <2>2. 64 \in Lengths
    BY DEF Lengths
  <2> QED BY <2>1, <2>2, CarvedIs
<1>15. IsCarved(UniqueLocalNet)
  <2> DEFINE net == V6(<<\hfc00>>)
  <2>1. UniqueLocalNet = <<Prefix(net, 7), "unique local">>
    BY DEF UniqueLocalNet
  <2> HIDE DEF net
  <2>2. 7 \in Lengths
    BY DEF Lengths
  <2> QED BY <2>1, <2>2, CarvedIs
<1>16. IsCarved(LinkLocalNet)
  <2> DEFINE net == V6(<<\hfe80>>)
  <2>1. LinkLocalNet = <<Prefix(net, 10), "link local">>
    BY DEF LinkLocalNet
  <2> HIDE DEF net
  <2>2. 10 \in Lengths
    BY DEF Lengths
  <2> QED BY <2>1, <2>2, CarvedIs
<1>17. IsCarved(MulticastNet)
  <2> DEFINE net == V6(<<\hff00>>)
  <2>1. MulticastNet = <<Prefix(net, 8), "multicast">>
    BY DEF MulticastNet
  <2> HIDE DEF net
  <2>2. 8 \in Lengths
    BY DEF Lengths
  <2> QED BY <2>1, <2>2, CarvedIs
<1> QED BY <1>3, <1>4, <1>5, <1>9, <1>10, <1>11, <1>12, <1>13, <1>14, <1>15, <1>16, <1>17 DEF CarvedV6

LEMMA EntriesV6 ==
  IPv6Registry = {RootV6, GlobalV6, MappedNet, TranslatedNet, TunnelledNet} \cup CarvedV6
BY RegistryV6 DEF CarvedV6

(* An entry that covers an address says so of it. *)
LEMMA CoveringV6 ==
  ASSUME NEW ip \in V6s, NEW entry \in IPv6Registry, Covers(entry[1], ip)
  PROVE  \/ entry = RootV6
         \/ entry = GlobalV6 /\ UnicastV6(ip)
         \/ entry = MappedNet /\ MappedV6(ip)
         \/ entry = TranslatedNet /\ TranslatedV6(ip)
         \/ entry = TunnelledNet /\ TunnelledV6(ip)
         \/ IsCarved(entry) /\ SpecialV6(ip)
<1>1. \/ entry \in {RootV6, GlobalV6, MappedNet, TranslatedNet, TunnelledNet}
      \/ entry \in CarvedV6
  BY EntriesV6
<1>2. /\ Covers(GlobalV6[1], ip) => UnicastV6(ip)
      /\ Covers(MappedNet[1], ip) => MappedV6(ip)
      /\ Covers(TranslatedNet[1], ip) => TranslatedV6(ip)
      /\ Covers(TunnelledNet[1], ip) => TunnelledV6(ip)
  BY RangesV6 DEF UnicastV6, MappedV6, TranslatedV6, TunnelledV6
<1>3. ASSUME entry \in CarvedV6 PROVE SpecialV6(ip)
  BY <1>3, RangesV6 DEF SpecialV6, CarvedV6
<1> QED BY <1>1, <1>2, <1>3, CarvedEntries

LEMMA CarvedCovers ==
  ASSUME NEW ip \in V6s, SpecialV6(ip)
  PROVE  \E entry \in IPv6Registry : IsCarved(entry) /\ Covers(entry[1], ip)
<1>1. \E entry \in CarvedV6 : Covers(entry[1], ip)
  BY RangesV6 DEF SpecialV6, CarvedV6
<1> QED BY <1>1, EntriesV6, CarvedEntries

(* What is global unicast and what embeds an address is not carved out.    *)
LEMMA KindsApart ==
  ASSUME NEW ip
  PROVE  /\ MappedV6(ip) => /\ ~UnicastV6(ip) /\ ~TranslatedV6(ip) /\ ~TunnelledV6(ip)
                            /\ ~SpecialV6(ip)
         /\ TranslatedV6(ip) => /\ ~UnicastV6(ip) /\ ~MappedV6(ip) /\ ~TunnelledV6(ip)
                                /\ ~SpecialV6(ip)
         /\ TunnelledV6(ip) => ~MappedV6(ip) /\ ~TranslatedV6(ip) /\ ~SpecialV6(ip)
BY DEF MappedV6, TranslatedV6, TunnelledV6, UnicastV6, SpecialV6

LEMMA LengthsV6 ==
  ASSUME NEW entry \in IPv6Registry
  PROVE  IsLength(entry[1].length)
<1>1. IsLength(0) /\ IsLength(3) /\ IsLength(96) /\ IsLength(16)
  BY DEF IsLength
<1>2. \A other \in CarvedV6 : IsLength(other[1].length)
  BY CarvedEntries, LengthIs DEF IsCarved, IsSpecial
<1> QED BY <1>1, <1>2, EntriesV6, NamedEntries

LEMMA EmbeddedIs ==
  ASSUME NEW high \in Segment, NEW low \in Segment
  PROVE  Embedded(high, low) \in V4s
<1>1. ASSUME NEW n \in Segment PROVE n \div 256 \in Octet /\ n % 256 \in Octet
  <2>1. n \in Nat /\ n < 65536
    BY SegmentIs
  <2>2. n \div 256 \in Nat /\ n % 256 \in 0..(256 - 1) /\ n = 256 * (n \div 256) + (n % 256)
    <3>1. 256 \in Nat \ {0}
      OBVIOUS
    <3> QED BY <2>1, <3>1, DivisionIs
  <2> DEFINE q == n \div 256
             r == n % 256
  <2>3. q \in Nat /\ r \in 0..(256 - 1) /\ n = 256 * q + r
    BY <2>2
  <2> HIDE DEF q, r
  <2>4. q \in Octet /\ r \in Octet
    BY ONLY <2>1, <2>3 DEF Octet
  <2> QED BY <2>4 DEF q, r
<1>2. /\ high \div 256 \in Octet /\ high % 256 \in Octet
      /\ low \div 256 \in Octet /\ low % 256 \in Octet
  BY <1>1
<1> DEFINE a == high \div 256
           b == high % 256
           c == low \div 256
           d == low % 256
<1>3. a \in Octet /\ b \in Octet /\ c \in Octet /\ d \in Octet
  BY <1>2
<1> HIDE DEF a, b, c, d
<1>4. <<a, b, c, d>> \in V4s
  BY <1>3 DEF V4s
<1> QED BY <1>4 DEF Embedded, a, b, c, d

LEMMA ScopesV6 ==
  ASSUME NEW ip \in V6s
  PROVE  ClassifyV6(ip) = "global" <=> Scope(ip) = "global"
<1> DEFINE assigned == Assigned(IPv6Registry, ip)
<1>0. Len(ip) = 8
  BY ShapeV6
<1>1. Scope(ip) = CASE assigned = "embeds 7" -> Assigned(IPv4Registry, Embedded(ip[7], ip[8]))
                    [] assigned = "embeds 2" -> Assigned(IPv4Registry, Embedded(ip[2], ip[3]))
                    [] OTHER -> assigned
  BY <1>0 DEF Scope
<1> HIDE DEF assigned
<1>2. assigned = "embeds 7" => Scope(ip) = Assigned(IPv4Registry, Embedded(ip[7], ip[8]))
  BY <1>1
<1>3. assigned = "embeds 2" => Scope(ip) = Assigned(IPv4Registry, Embedded(ip[2], ip[3]))
  BY <1>1
<1>4. assigned \notin {"embeds 7", "embeds 2"} => Scope(ip) = assigned
  BY <1>1
<1>5. ip[7] \in Segment /\ ip[8] \in Segment /\ ip[2] \in Segment /\ ip[3] \in Segment
  BY DEF V6s
<1>6. /\ ClassifyV4(Embedded(ip[7], ip[8])) = "global"
           <=> Assigned(IPv4Registry, Embedded(ip[7], ip[8])) = "global"
      /\ ClassifyV4(Embedded(ip[2], ip[3])) = "global"
           <=> Assigned(IPv4Registry, Embedded(ip[2], ip[3])) = "global"
  BY <1>5, EmbeddedIs, ScopesV4
<1>7. /\ RootV6 \in IPv6Registry /\ GlobalV6 \in IPv6Registry /\ MappedNet \in IPv6Registry
      /\ TranslatedNet \in IPv6Registry /\ TunnelledNet \in IPv6Registry
  BY EntriesV6
<1>8. \A entry \in IPv6Registry : IsLength(entry[1].length)
  BY LengthsV6
<1>9. CASE MappedV6(ip)
  <2>1. Covers(MappedNet[1], ip)
    BY <1>9, RangesV6 DEF MappedV6
  <2>2. \A entry \in IPv6Registry :
          Covers(entry[1], ip) /\ entry # MappedNet => entry = RootV6
    BY <1>9, CoveringV6, KindsApart
  <2>3. Assigned(IPv6Registry, ip) = MappedNet[2]
    <3>1. RootV6[1].length < MappedNet[1].length
      <4>1. RootV6[1].length = 0 /\ MappedNet[1].length = 96
        BY NamedEntries
      <4> QED BY ONLY <4>1
    <3>2. \A entry \in IPv6Registry :
            Covers(entry[1], ip) /\ entry # MappedNet => entry[1].length < MappedNet[1].length
      BY <2>2, <3>1, Zenon
    <3> QED BY <1>7, <1>8, <2>1, <3>2, LongestIs
  <2> QED BY <1>2, <1>6, <1>9, <2>3, NamedEntries, ClassesV6 DEF assigned
<1>10. CASE TranslatedV6(ip)
  <2>1. Covers(TranslatedNet[1], ip)
    BY <1>10, RangesV6 DEF TranslatedV6
  <2>2. \A entry \in IPv6Registry :
          Covers(entry[1], ip) /\ entry # TranslatedNet => entry = RootV6
    BY <1>10, CoveringV6, KindsApart
  <2>3. Assigned(IPv6Registry, ip) = TranslatedNet[2]
    <3>1. RootV6[1].length < TranslatedNet[1].length
      <4>1. RootV6[1].length = 0 /\ TranslatedNet[1].length = 96
        BY NamedEntries
      <4> QED BY ONLY <4>1
    <3>2. \A entry \in IPv6Registry :
            Covers(entry[1], ip) /\ entry # TranslatedNet => entry[1].length < TranslatedNet[1].length
      BY <2>2, <3>1, Zenon
    <3> QED BY <1>7, <1>8, <2>1, <3>2, LongestIs
  <2> QED BY <1>2, <1>6, <1>10, <2>3, NamedEntries, ClassesV6 DEF assigned
<1>11. CASE TunnelledV6(ip)
  <2>1. Covers(TunnelledNet[1], ip)
    BY <1>11, RangesV6 DEF TunnelledV6
  <2>2. \A entry \in IPv6Registry :
          Covers(entry[1], ip) /\ entry # TunnelledNet => entry \in {RootV6, GlobalV6}
    BY <1>11, CoveringV6, KindsApart
  <2>3. Assigned(IPv6Registry, ip) = TunnelledNet[2]
    <3>1. RootV6[1].length < TunnelledNet[1].length /\ GlobalV6[1].length < TunnelledNet[1].length
      <4>1. RootV6[1].length = 0 /\ TunnelledNet[1].length = 16 /\ GlobalV6[1].length = 3
        BY NamedEntries
      <4> QED BY ONLY <4>1
    <3>2. \A entry \in IPv6Registry :
            Covers(entry[1], ip) /\ entry # TunnelledNet => entry[1].length < TunnelledNet[1].length
      BY <2>2, <3>1, Zenon
    <3> QED BY <1>7, <1>8, <2>1, <3>2, LongestIs
  <2> QED BY <1>3, <1>6, <1>11, <2>3, NamedEntries, ClassesV6 DEF assigned
<1>12. CASE ~MappedV6(ip) /\ ~TranslatedV6(ip) /\ ~TunnelledV6(ip)
  <2>1. ClassifyV6(ip) = "global" <=> UnicastV6(ip) /\ ~SpecialV6(ip)
    BY <1>12, ClassesV6
  <2>2. ASSUME SpecialV6(ip) PROVE Scope(ip) # "global"
    <3>1. PICK entry \in IPv6Registry : IsCarved(entry) /\ Covers(entry[1], ip)
      BY <2>2, CarvedCovers
    <3>2. IsLength(entry[1].length) /\ entry[1].length > 3
      BY <3>1, LengthIs DEF IsCarved, IsSpecial
    <3>3. PICK chosen \in IPv6Registry :
            /\ Covers(chosen[1], ip) /\ entry[1].length <= chosen[1].length
            /\ Assigned(IPv6Registry, ip) = chosen[2]
      BY <1>8, <3>1, LongestCovers
    <3>4. chosen # RootV6 /\ chosen # GlobalV6
      <4>1. IsLength(entry[1].length) /\ entry[1].length > 3 /\ entry[1].length <= chosen[1].length
        BY <3>2, <3>3
      <4>2. RootV6[1].length = 0 /\ GlobalV6[1].length = 3
        BY NamedEntries
      <4>3. chosen[1].length # 0 /\ chosen[1].length # 3
        BY ONLY <4>1 DEF IsLength
      <4> QED BY ONLY <4>2, <4>3
    <3>5. IsCarved(chosen)
      BY <1>12, <3>3, <3>4, CoveringV6
    <3>6. assigned \notin {"global", "embeds 7", "embeds 2"}
      BY <3>3, <3>5 DEF assigned, IsCarved, IsSpecial
    <3> QED BY <1>4, <3>6
  <2>3. ASSUME ~SpecialV6(ip), UnicastV6(ip) PROVE Scope(ip) = "global"
    <3>1. Covers(GlobalV6[1], ip)
      BY <2>3, RangesV6 DEF UnicastV6
    <3>2. \A entry \in IPv6Registry :
            Covers(entry[1], ip) /\ entry # GlobalV6 => entry = RootV6
      BY <1>12, <2>3, CoveringV6
    <3>3. Assigned(IPv6Registry, ip) = GlobalV6[2]
      <4>1. RootV6[1].length < GlobalV6[1].length
        <5>1. RootV6[1].length = 0 /\ GlobalV6[1].length = 3
          BY NamedEntries
        <5> QED BY ONLY <5>1
      <4>2. \A entry \in IPv6Registry :
              Covers(entry[1], ip) /\ entry # GlobalV6 => entry[1].length < GlobalV6[1].length
        BY <3>2, <4>1, Zenon
      <4> QED BY <1>7, <1>8, <3>1, <4>2, LongestIs
    <3> QED BY <1>4, <3>3, NamedEntries DEF assigned
  <2>4. ASSUME ~SpecialV6(ip), ~UnicastV6(ip) PROVE Scope(ip) # "global"
    <3>1. Covers(RootV6[1], ip)
      BY RangesV6
    <3>2. \A entry \in IPv6Registry : Covers(entry[1], ip) => entry = RootV6
      BY <1>12, <2>4, CoveringV6
    <3>3. Assigned(IPv6Registry, ip) = RootV6[2]
      BY <1>7, <1>8, <3>1, <3>2, LongestIs
    <3> QED BY <1>4, <3>3, NamedEntries DEF assigned
  <2> QED BY <2>1, <2>2, <2>3, <2>4
<1> QED BY <1>9, <1>10, <1>11, <1>12

(* A suffix is a label or two. *)
LEMMA SuffixIs ==
  ASSUME NEW suffix \in SpecialUseSuffixes
  PROVE  Len(suffix) \in Nat /\ Len(suffix) >= 1
<1>1. \/ \E top : suffix = <<top>>
      \/ suffix = <<"home", "arpa">>
  BY DEF SpecialUseSuffixes
<1>2. \A top : Len(<<top>>) = 1
  OBVIOUS
<1>3. Len(<<"home", "arpa">>) = 2
  OBVIOUS
<1> QED BY <1>1, <1>2, <1>3

(* A name is under a special one iff one of its ends is special. *)
LEMMA SpecialIs ==
  ASSUME NEW S, NEW name \in Seq(S)
  PROVE  IsSpecialUse(name) <=>
           \E i \in DOMAIN name : SubSeq(name, i, Len(name)) \in SpecialUseSuffixes
<1>1. Len(name) \in Nat /\ DOMAIN name = 1..Len(name)
  BY LenProperties
<1>2. ASSUME NEW suffix \in SpecialUseSuffixes, IsUnder(suffix, name)
      PROVE  \E i \in DOMAIN name : SubSeq(name, i, Len(name)) \in SpecialUseSuffixes
  <2> DEFINE first == Len(name) - Len(suffix) + 1
  <2>1. Len(suffix) <= Len(name) /\ SubSeq(name, first, Len(name)) = suffix
    BY <1>2 DEF IsUnder
  <2>2. Len(suffix) \in Nat /\ Len(suffix) >= 1
    BY SuffixIs
  <2>3. first \in 1..Len(name)
    BY ONLY <1>1, <2>1, <2>2
  <2> HIDE DEF first
  <2> QED BY <1>1, <2>1, <2>3
<1>3. ASSUME NEW i \in DOMAIN name, SubSeq(name, i, Len(name)) \in SpecialUseSuffixes
      PROVE  IsSpecialUse(name)
  <2> DEFINE suffix == SubSeq(name, i, Len(name))
  <2>1. i \in Nat /\ 1 <= i /\ i <= Len(name)
    BY <1>1
  <2>2. Len(suffix) = Len(name) - i + 1
    <3>1. Len(name) <= Len(name) /\ Len(name) \in 0..Len(name)
      BY <1>1
    <3>2. i \in 1..(Len(name) + 1)
      BY <1>1, <2>1
    <3>3. Len(SubSeq(name, i, Len(name))) = IF i <= Len(name) THEN Len(name) - i + 1 ELSE 0
      BY <2>1, <3>1, <3>2, SubSeqProperties
    <3> QED BY <2>1, <3>3
  <2> HIDE DEF suffix
  <2>3. Len(suffix) <= Len(name) /\ Len(name) - Len(suffix) + 1 = i
    BY ONLY <1>1, <2>1, <2>2
  <2>4. IsUnder(suffix, name)
    BY <2>3 DEF IsUnder, suffix
  <2>5. suffix \in SpecialUseSuffixes
    BY <1>3 DEF suffix
  <2> QED BY <2>4, <2>5 DEF IsSpecialUse
<1> QED BY <1>2, <1>3 DEF IsSpecialUse

(* The indicators that a target can be read as. *)
IsTarget(indicator) ==
  \/ /\ indicator.kind \in {"ipv4", "ipv6"}
     /\ indicator.value \in V4s \cup V6s
  \/ /\ indicator.kind = "domain"
     /\ \E S : indicator.value \in Seq(S)
  \/ indicator.kind = "hash"

LEMMA TargetIs ==
  ASSUME NEW raw, IsRaw(raw), NEW kind, ~Failed(Parsed(raw, kind))
  PROVE  IsTarget(Parsed(raw, kind).indicator)
<1> DEFINE prepared == Prepare(raw)
           text == raw.text
<1>1. ~Failed(prepared)
  BY DEF Parsed
<1>2. prepared.indicator.text = text
  <2>1. prepared = Success([raw EXCEPT !.defanged = FALSE])
    BY <1>1, OutcomesDiffer DEF Prepare
  <2>2. prepared.indicator = [raw EXCEPT !.defanged = FALSE]
    BY <2>1 DEF Success
  <2> QED BY <2>2 DEF IsRaw
<1>3. ~prepared.indicator.defanged
  BY <1>1, OutcomesDiffer DEF Parsed
<1>4. Parsed(raw, kind) = CASE kind = "domain" -> ParseName(text)
                            [] kind = "ip" -> ParseAddress(text)
                            [] OTHER -> ParseDigest(text)
  BY <1>1, <1>2, <1>3 DEF Parsed
<1> HIDE DEF prepared, text
<1>5. ASSUME Parsed(raw, kind) = ParseName(text)
      PROVE  IsTarget(Parsed(raw, kind).indicator)
  <2>1. /\ text[1] = "name"
        /\ Parsed(raw, kind) = Success([kind |-> "domain", value |-> Texts(text[2])])
    BY <1>5, OutcomesDiffer, Zenon DEF ParseName
  <2> DEFINE labels == text[2]
             S == {labels[i].text : i \in DOMAIN labels}
  <2>2. labels \in Seq({labels[i] : i \in DOMAIN labels})
    BY <2>1 DEF IsRaw, text
  <2>3. DOMAIN labels = 1..Len(labels) /\ Len(labels) \in Nat
    BY <2>2, LenProperties
  <2>4. Texts(labels) \in [1..Len(labels) -> S]
    BY <2>3 DEF Texts
  <2>5. Texts(labels) \in Seq(S)
    <3> HIDE DEF S, labels
    <3> QED BY <2>3, <2>4, FunctionIsSeq
  <2> HIDE DEF S
  <2> QED BY <2>1, <2>5 DEF IsTarget, Success
<1>6. ASSUME Parsed(raw, kind) = ParseAddress(text)
      PROVE  IsTarget(Parsed(raw, kind).indicator)
  <2>1. text[1] \in {"address", "brackets"} /\ Parsed(raw, kind) = OfAddress(text[2])
    BY <1>6, OutcomesDiffer DEF ParseAddress
  <2>2. text[2] \in V4s \cup V6s
    BY <2>1 DEF IsRaw, IsAddress, V4s, V6s, text
  <2> QED BY <2>1, <2>2 DEF IsTarget, OfAddress, Success
<1>7. ASSUME Parsed(raw, kind) = ParseDigest(text)
      PROVE  IsTarget(Parsed(raw, kind).indicator)
  <2>1. Parsed(raw, kind) = Success([kind |-> "hash", value |-> Algorithm(text[2])])
    BY <1>7, OutcomesDiffer DEF ParseDigest
  <2> QED BY <2>1 DEF IsTarget, Success
<1> QED BY <1>4, <1>5, <1>6, <1>7

(* The program's rules and the registries agree on every target. *)
LEMMA RulesAgree ==
  ASSUME NEW indicator, IsTarget(indicator)
  PROVE  IsPublic(indicator) <=> IsInvestigable(indicator)
<1> DEFINE value == indicator.value
<1>1. CASE indicator.kind \in {"ipv4", "ipv6"} /\ value \in V4s
  <2>1. Len(value) = 4
    BY <1>1, ShapeV4
  <2>2. Classify(value) = ClassifyV4(value) /\ Scope(value) = Assigned(IPv4Registry, value)
    BY <2>1 DEF Classify, Scope
  <2>3. Classify(value) = "global" <=> Scope(value) = "global"
    BY <1>1, <2>2, ScopesV4
  <2> QED BY <1>1, <2>3 DEF IsPublic, IsInvestigable
<1>2. CASE indicator.kind \in {"ipv4", "ipv6"} /\ value \in V6s
  <2>1. Len(value) = 8
    BY <1>2, ShapeV6
  <2>2. Classify(value) = ClassifyV6(value)
    BY <2>1 DEF Classify
  <2>3. Classify(value) = "global" <=> Scope(value) = "global"
    BY <1>2, <2>2, ScopesV6
  <2> QED BY <1>2, <2>3 DEF IsPublic, IsInvestigable
<1>3. CASE indicator.kind = "domain" /\ \E S : value \in Seq(S)
  <2>1. PICK S : value \in Seq(S)
    BY <1>3
  <2>2. IsSpecialUse(value) <=>
          \E i \in DOMAIN value : SubSeq(value, i, Len(value)) \in SpecialUseSuffixes
    BY <2>1, SpecialIs
  <2> QED BY <1>3, <2>2 DEF IsPublic, IsInvestigable
<1>4. CASE indicator.kind = "hash"
  BY <1>4 DEF IsPublic, IsInvestigable
<1> QED BY <1>1, <1>2, <1>3, <1>4 DEF IsTarget

LEMMA CallsAgree ==
  ASSUME NEW r \in Runs, NEW call \in Invocations[r], ~Failed(ParseSyntax(call))
  PROVE  IsPublic(ParseSyntax(call).indicator) <=> IsInvestigable(ParseSyntax(call).indicator)
<1>1. ASSUME NEW kind \in DOMAIN call.targets PROVE IsRaw(call.targets[kind])
  BY CommandConstants
<1>2. PICK kind \in DOMAIN call.targets : ParseSyntax(call) = Parsed(call.targets[kind], kind)
  <2> DEFINE given == DOMAIN call.targets
  <2>1. CASE "domain" \in given
    BY <2>1 DEF ParseSyntax
  <2>2. CASE "domain" \notin given /\ "ip" \in given
    BY <2>2 DEF ParseSyntax
  <2>3. CASE "domain" \notin given /\ "ip" \notin given /\ given = {"hash"}
    BY <2>3 DEF ParseSyntax
  <2>4. CASE "domain" \notin given /\ "ip" \notin given /\ given # {"hash"}
    BY <2>4, OutcomesDiffer DEF ParseSyntax
  <2> QED BY <2>1, <2>2, <2>3, <2>4
<1>3. IsTarget(ParseSyntax(call).indicator)
  BY <1>1, <1>2, TargetIs
<1> QED BY <1>3, RulesAgree

-----------------------------------------------------------------------------
(* What a step does to the other runs and to the file *)

Unmoved(s) ==
  /\ invocation'[s] = invocation[s] /\ phase'[s] = phase[s]
  /\ target'[s] = target[s] /\ credentials'[s] = credentials[s]
  /\ config'[s] = config[s] /\ asked'[s] = asked[s]
  /\ report'[s] = report[s] /\ exit'[s] = exit[s]
  /\ stdout'[s] = stdout[s]

LEMMA StepFrame ==
  ASSUME Tables, NEW r \in Runs, Step(r)
  PROVE  Tables' /\ \A s \in Runs \ {r} : Unmoved(s)
<1>1. CASE Call(r)
  BY <1>1 DEF Tables, Unmoved, Call, Go
<1>2. CASE Refuse(r)
  BY <1>2 DEF Tables, Unmoved, Refuse, Exit, Go
<1>3. CASE Accept(r)
  BY <1>3 DEF Tables, Unmoved, Accept, Go
<1>4. CASE ReadCredentials(r)
  BY <1>4 DEF Tables, Unmoved, ReadCredentials, Go
<1>5. CASE BuildEngine(r)
  BY <1>5 DEF Tables, Unmoved, BuildEngine, Go
<1>6. CASE Investigate(r)
  BY <1>6 DEF Tables, Unmoved, Investigate, Go
<1>7. CASE Render(r)
  BY <1>7 DEF Tables, Unmoved, Render, Go
<1>8. CASE WriteStdout(r)
  BY <1>8 DEF Tables, Unmoved, WriteStdout
<1>9. CASE FlushStdout(r)
  BY <1>9 DEF Tables, Unmoved, FlushStdout, Exit, Go
<1>10. CASE Create(r)
  BY <1>10 DEF Tables, Unmoved, Create, Go
<1>11. CASE Write(r)
  BY <1>11 DEF Tables, Unmoved, Write
<1>12. CASE Sync(r)
  BY <1>12 DEF Tables, Unmoved, Sync, Exit, Go
<1>13. CASE \E from : Fatal(r, from)
  BY <1>13 DEF Tables, Unmoved, Fatal, Exit, Go
<1>14. QED
  BY <1>1, <1>2, <1>3, <1>4, <1>5, <1>6, <1>7, <1>8, <1>9, <1>10, <1>11,
     <1>12, <1>13
     DEF Step, SetupFails, RenderFails, StdoutFails, CreateFails, WriteFails

(* What is asked for of a report: the format and the correlation of the    *)
(* call.                                                                   *)
AsAsked(r) ==
  [by |-> r, format |-> invocation[r].format,
   correlated |-> invocation[r].correlate]

(* The file has the parts of a report that are written so far. *)
FileOK ==
  file # None =>
    /\ file = [report |-> file.report, parts |-> file.parts]
    /\ file.parts \in PartsSoFar

Created(r) ==
  /\ phase[r] = "rendered" /\ ~ToStdout(r) /\ file = None
  /\ file' = [report |-> report[r], parts |-> <<>>]
  /\ phase'[r] = "writing"

Grown(r) ==
  /\ phase[r] = "writing" /\ file # None
  /\ file'.report = file.report
  /\ file' = [report |-> file.report, parts |-> file'.parts]
  /\ Len(file.parts) <= Len(file'.parts)
  /\ SubSeq(file'.parts, 1, Len(file.parts)) = file.parts
  /\ file'.parts \in PartsSoFar
  /\ phase'[r] = "writing"

LEMMA FileEffect ==
  ASSUME Tables, FileOK, NEW r \in Runs, Step(r),
         phase[r] = "writing" => file # None
  PROVE  Created(r) \/ Grown(r) \/ file' = file
<1>1. CASE Create(r)
  BY <1>1 DEF Create, MayCreate, Written, Go, Tables, Created
<1>2. CASE Write(r)
  <2>1. /\ phase[r] = "writing" /\ file # None /\ phase' = phase
        /\ file = [report |-> file.report, parts |-> file.parts]
        /\ file.parts \in PartsSoFar /\ file.parts # Parts
    BY <1>2 DEF Write, FileOK
  <2> DEFINE more == Append(file.parts, Parts[Len(file.parts) + 1])
  <2>2. file' = [file EXCEPT !.parts = more]
    BY <1>2 DEF Write
  <2>3. /\ more \in PartsSoFar /\ Len(file.parts) <= Len(more)
        /\ SubSeq(more, 1, Len(file.parts)) = file.parts
    BY <2>1, NextPart
  <2> HIDE DEF more
  <2>4. file' = [report |-> file.report, parts |-> more]
    BY <2>1, <2>2
  <2>5. file'.report = file.report /\ file'.parts = more
    BY <2>4
  <2>6. QED
    BY <2>1, <2>3, <2>4, <2>5 DEF Grown
<1>3. CASE ~Create(r) /\ ~Write(r)
  BY <1>3
     DEF Step, Call, Refuse, Accept, ReadCredentials, BuildEngine, SetupFails,
         Investigate, Render, RenderFails, WriteStdout, FlushStdout,
         StdoutFails, CreateFails, Sync, WriteFails, Fatal
<1>4. QED
  BY <1>1, <1>2, <1>3

LEMMA FileStays ==
  ASSUME FileOK, NEW r \in Runs,
         Created(r) \/ Grown(r) \/ file' = file
  PROVE  FileOK'
<1>1. CASE Created(r)
  <2>1. file'.parts = <<>> /\ file'.report = report[r]
    BY <1>1 DEF Created
  <2>2. QED
    BY <1>1, <2>1 DEF Created, FileOK, PartsSoFar
<1>2. CASE Grown(r)
  BY <1>2 DEF Grown, FileOK, PartsSoFar, Parts
<1>3. CASE file' = file
  BY <1>3 DEF FileOK, PartsSoFar, Parts
<1>4. QED
  BY <1>1, <1>2, <1>3
-----------------------------------------------------------------------------
(* Exit codes *)

Early == {"not called", "called"}
BeforeSources == Early \cup {"accepted", "configured", "built"}

(* What an exit code of a run that is over says. *)
ExitIsTrue(r) ==
  /\ exit[r] = <<0>> => Delivered(r)
  /\ exit[r] = <<2>> => Untouched(r)
  /\ exit[r] = <<2>> <=> target[r] = None

(* What a run has done by each phase: it has a target once it is accepted, *)
(* asks nothing before the sources, prints nothing before its report is    *)
(* rendered, and the file is its own exactly while it writes it.           *)
RunOK(r) ==
  /\ phase[r] \in BeforeSources
       \cup {"investigated", "rendered", "writing", "over"}
  /\ phase[r] \in Early => target[r] = None
  /\ phase[r] \notin Early \cup {"over"} => target[r] # None
  /\ phase[r] \in BeforeSources => asked[r] = {}
  /\ phase[r] \in BeforeSources \cup {"investigated"} => stdout[r] = <<>>
  /\ phase[r] = "rendered" => stdout[r] \in PartsSoFar
  /\ phase[r] \in {"rendered", "writing"} => report[r] = AsAsked(r)
  /\ phase[r] \notin {"writing", "over"} /\ file # None => file.report.by # r
  /\ phase[r] = "writing" =>
       file # None /\ file.report = AsAsked(r) /\ ~ToStdout(r)
  /\ phase[r] = "over" => ExitIsTrue(r)

ExitInvariant == Tables /\ FileOK /\ \A r \in Runs : RunOK(r)

LEMMA ExitInit == Init => ExitInvariant
  BY DEF Init, ExitInvariant, Tables, FileOK, RunOK, Early, BeforeSources

LEMMA DeliveredIs ==
  ASSUME NEW r
  PROVE  Delivered(r) <=>
           IF ToStdout(r) THEN report[r] = AsAsked(r) /\ stdout[r] = Parts
           ELSE file # None /\ file.report = AsAsked(r) /\ file.parts = Parts
  BY DEF Delivered, AsAsked

LEMMA AsAskedBy == \A r : AsAsked(r).by = r
  BY DEF AsAsked

(* The others: a run that steps writes to no file but its own.             *)
LEMMA OtherRunOK ==
  ASSUME Tables, FileOK, NEW r \in Runs, RunOK(r), Step(r),
         NEW s \in Runs \ {r}, RunOK(s)
  PROVE  RunOK(s)'
<1>1. Unmoved(s) /\ (Created(r) \/ Grown(r) \/ file' = file)
  BY StepFrame, FileEffect DEF RunOK
<1>2. AsAsked(s)' = AsAsked(s) /\ (ToStdout(s)' <=> ToStdout(s))
  BY <1>1 DEF Unmoved, AsAsked, ToStdout
<1>3. CASE file' = file
  <2>1. Delivered(s)' <=> Delivered(s)
    BY <1>1, <1>2, <1>3 DEF Delivered, Unmoved, AsAsked
  <2>2. Untouched(s)' <=> Untouched(s)
    BY <1>1, <1>3 DEF Untouched, Unmoved
  <2>3. QED
    BY <1>1, <1>2, <1>3, <2>1, <2>2
       DEF RunOK, Unmoved, ExitIsTrue, Early, BeforeSources, PartsSoFar, Parts
<1>4. CASE Created(r)
  <2>1. file = None /\ file'.report.by = r
    BY <1>4, AsAskedBy DEF Created, RunOK
  <2>2. Delivered(s) => Delivered(s)'
    BY <1>1, <1>2, <2>1 DEF Delivered, Unmoved
  <2>3. Untouched(s) => Untouched(s)'
    BY <1>1, <2>1 DEF Untouched, Unmoved
  <2>4. QED
    BY <1>1, <1>2, <2>1, <2>2, <2>3
       DEF RunOK, Unmoved, ExitIsTrue, Early, BeforeSources, PartsSoFar, Parts
<1>5. CASE Grown(r)
  <2>1. /\ file # None /\ file.report.by = r
        /\ file'.report = file.report
    BY <1>5, AsAskedBy DEF Grown, RunOK
  <2>2. Delivered(s) => Delivered(s)'
    BY <1>1, <1>2, <2>1, AsAskedBy, DeliveredIs DEF Delivered, Unmoved
  <2>3. Untouched(s) => Untouched(s)'
    BY <1>1, <2>1 DEF Untouched, Unmoved
  <2>4. QED
    BY <1>1, <1>2, <2>1, <2>2, <2>3, AsAskedBy
       DEF RunOK, Unmoved, ExitIsTrue, Early, BeforeSources, PartsSoFar, Parts
<1>6. QED
  BY <1>1, <1>3, <1>4, <1>5

(* A run that fails had been accepted. *)
LEMMA FatalIsTrue ==
  ASSUME Tables, NEW r \in Runs, RunOK(r), NEW from, Fatal(r, from),
         from \notin Early \cup {"over"}
  PROVE  RunOK(r)'
<1>1. /\ phase'[r] = "over" /\ exit'[r] = <<1>> /\ target'[r] = target[r]
      /\ target[r] # None
  BY DEF Fatal, Exit, Go, Tables, RunOK
<1>2. <<1>> # <<0>> /\ <<1>> # <<2>>
  OBVIOUS
<1>3. QED
  BY <1>1, <1>2 DEF RunOK, ExitIsTrue, Early, BeforeSources

LEMMA OwnRunOK ==
  ASSUME Tables, FileOK, NEW r \in Runs, RunOK(r), Step(r)
  PROVE  RunOK(r)'
<1>1. CASE Call(r)
  <2>1. /\ phase[r] = "not called" /\ phase'[r] = "called"
        /\ target' = target /\ asked' = asked /\ stdout' = stdout
        /\ file' = file
    BY <1>1 DEF Call, Go, Tables
  <2>2. QED
    BY <2>1 DEF RunOK, Early, BeforeSources
<1>2. CASE Refuse(r)
  <2>1. /\ phase[r] = "called" /\ phase'[r] = "over" /\ exit'[r] = <<2>>
        /\ target' = target /\ asked' = asked /\ stdout' = stdout
        /\ file' = file
    BY <1>2 DEF Refuse, Exit, Go, Tables
  <2>2. Untouched(r)'
    BY <2>1 DEF Untouched, RunOK, Early, BeforeSources
  <2>3. <<2>> # <<0>>
    OBVIOUS
  <2>4. QED
    BY <2>1, <2>2, <2>3 DEF RunOK, ExitIsTrue, Early, BeforeSources
<1>3. CASE Accept(r)
  <2>1. /\ phase[r] = "called" /\ phase'[r] = "accepted"
        /\ target'[r] # None /\ asked' = asked /\ stdout' = stdout
        /\ file' = file
    BY <1>3, AcceptedTarget DEF Accept, Go, Tables
  <2>2. QED
    BY <2>1 DEF RunOK, Early, BeforeSources
<1>4. CASE ReadCredentials(r) \/ BuildEngine(r)
  <2>1. /\ phase[r] \in {"accepted", "configured"}
        /\ phase'[r] \in {"configured", "built"}
        /\ target' = target /\ asked' = asked /\ stdout' = stdout
        /\ file' = file
    BY <1>4 DEF ReadCredentials, BuildEngine, Go, Tables
  <2>2. QED
    BY <2>1 DEF RunOK, Early, BeforeSources
<1>5. CASE Investigate(r)
  <2>1. /\ phase[r] = "built" /\ phase'[r] = "investigated"
        /\ target' = target /\ stdout' = stdout /\ file' = file
    BY <1>5 DEF Investigate, Go, Tables
  <2>2. QED
    BY <2>1 DEF RunOK, Early, BeforeSources
<1>6. CASE Render(r)
  <2>1. /\ phase[r] = "investigated" /\ phase'[r] = "rendered"
        /\ target' = target /\ stdout' = stdout /\ file' = file
        /\ report'[r] = AsAsked(r)' /\ stdout[r] \in PartsSoFar
    BY <1>6 DEF Render, Go, Tables, AsAsked, RunOK, PartsSoFar
  <2>2. QED
    BY <2>1 DEF RunOK, Early, BeforeSources, PartsSoFar, Parts
<1>7. CASE WriteStdout(r)
  <2>1. /\ phase[r] = "rendered" /\ phase' = phase /\ target' = target
        /\ report' = report /\ invocation' = invocation /\ file' = file
        /\ stdout[r] \in PartsSoFar /\ stdout[r] # Parts
        /\ stdout'[r] = Append(stdout[r], Parts[Len(stdout[r]) + 1])
    BY <1>7 DEF WriteStdout, Tables, RunOK
  <2>2. stdout'[r] \in PartsSoFar
    BY <2>1, NextPart
  <2>3. QED
    BY <2>1, <2>2
       DEF RunOK, AsAsked, Early, BeforeSources, PartsSoFar, Parts
<1>8. CASE FlushStdout(r)
  <2>1. /\ phase[r] = "rendered" /\ phase'[r] = "over" /\ exit'[r] = <<0>>
        /\ target' = target /\ report' = report /\ invocation' = invocation
        /\ stdout' = stdout /\ file' = file /\ ToStdout(r)
        /\ stdout[r] \in PartsSoFar /\ Len(stdout[r]) = Len(Parts)
    BY <1>8 DEF FlushStdout, Exit, Go, Tables, RunOK
  <2>2. stdout[r] = Parts
    BY <2>1 DEF PartsSoFar, Parts
  <2>3. Delivered(r)'
    BY <2>1, <2>2 DEF Delivered, RunOK, AsAsked, ToStdout, Parts
  <2>4. <<0>> # <<2>>
    OBVIOUS
  <2>5. QED
    BY <2>1, <2>3, <2>4 DEF RunOK, ExitIsTrue, Early, BeforeSources
<1>9. CASE Create(r)
  <2>1. /\ phase[r] = "rendered" /\ phase'[r] = "writing" /\ ~ToStdout(r)
        /\ target' = target /\ report' = report /\ invocation' = invocation
        /\ file' = [report |-> report[r], parts |-> <<>>]
    BY <1>9 DEF Create, Written, Go, Tables
  <2>2. file' # None /\ file'.report = report[r]
    BY <2>1, RecordsAreSomething
  <2>3. QED
    BY <2>1, <2>2
       DEF RunOK, AsAsked, ToStdout, Early, BeforeSources
<1>10. CASE Write(r)
  <2>1. /\ phase' = phase /\ phase[r] = "writing" /\ target' = target
        /\ report' = report /\ invocation' = invocation
    BY <1>10 DEF Write
  <2>2. file' # None /\ file'.report = file.report
    <3>1. file.parts # Parts /\ file.parts \in PartsSoFar
             /\ file = [report |-> file.report, parts |-> file.parts]
      BY <1>10 DEF Write, FileOK, RunOK
    <3> DEFINE more == Append(file.parts, Parts[Len(file.parts) + 1])
    <3>2. file' = [file EXCEPT !.parts = more]
      BY <1>10 DEF Write
    <3> HIDE DEF more
    <3>3. file' = [report |-> file.report, parts |-> more]
      BY <3>1, <3>2
    <3>4. QED
      BY <3>3, RecordsAreSomething
  <2>3. QED
    BY <2>1, <2>2
       DEF RunOK, AsAsked, ToStdout, Early, BeforeSources
<1>11. CASE Sync(r)
  <2>1. /\ phase[r] = "writing" /\ phase'[r] = "over" /\ exit'[r] = <<0>>
        /\ target' = target /\ invocation' = invocation
        /\ file' = file /\ file.parts = Parts
    BY <1>11 DEF Sync, IsWritten, Exit, Go, Tables
  <2>2. Delivered(r)'
    BY <2>1 DEF Delivered, RunOK, AsAsked, ToStdout, Parts
  <2>3. <<0>> # <<2>>
    OBVIOUS
  <2>4. QED
    BY <2>1, <2>2, <2>3 DEF RunOK, ExitIsTrue, Early, BeforeSources
<1>12. CASE \E from \in {"accepted", "configured", "investigated", "rendered",
                         "writing"} : Fatal(r, from)
  BY <1>12, FatalIsTrue DEF Early
<1>13. QED
  BY <1>1, <1>2, <1>3, <1>4, <1>5, <1>6, <1>7, <1>8, <1>9, <1>10, <1>11,
     <1>12
     DEF Step, SetupFails, RenderFails, StdoutFails, CreateFails, WriteFails

LEMMA ExitOfOthers ==
  ASSUME ExitInvariant, OthersCreate
  PROVE  ExitInvariant'
<1>1. /\ file = None /\ file' = [report |-> [by |-> "others"], parts |-> Parts]
      /\ invocation' = invocation /\ phase' = phase /\ target' = target
      /\ credentials' = credentials /\ config' = config /\ asked' = asked
      /\ report' = report /\ exit' = exit /\ stdout' = stdout
  BY DEF OthersCreate, Theirs
<1>2. /\ file'.report.by = "others" /\ file'.parts = Parts
      /\ file' = [report |-> file'.report, parts |-> file'.parts]
  BY <1>1
<1>3. Tables' /\ FileOK'
  BY <1>1, <1>2 DEF ExitInvariant, Tables, FileOK, PartsSoFar
<1>4. ASSUME NEW s \in Runs PROVE RunOK(s)'
  <2>1. s # "others" /\ RunOK(s)
    BY CommandConstants DEF ExitInvariant
  <2>2. Delivered(s) => Delivered(s)'
    BY <1>1 DEF Delivered, ToStdout
  <2>3. Untouched(s) => Untouched(s)'
    BY <1>1, <1>2, <2>1 DEF Untouched
  <2>4. AsAsked(s)' = AsAsked(s)
    BY <1>1 DEF AsAsked
  <2>5. QED
    BY <1>1, <1>2, <2>1, <2>2, <2>3, <2>4
       DEF RunOK, ExitIsTrue, Early, BeforeSources, PartsSoFar, Parts
<1>5. QED
  BY <1>3, <1>4 DEF ExitInvariant

LEMMA ExitStep ==
  ASSUME ExitInvariant, [Next]_vars
  PROVE  ExitInvariant'
<1>1. ASSUME NEW r \in Runs, Step(r) PROVE ExitInvariant'
  <2>1. Created(r) \/ Grown(r) \/ file' = file
    BY <1>1, FileEffect DEF ExitInvariant, RunOK
  <2>2. Tables' /\ FileOK'
    BY <1>1, <2>1, StepFrame, FileStays DEF ExitInvariant
  <2>3. \A s \in Runs : RunOK(s)'
    BY <1>1, OwnRunOK, OtherRunOK DEF ExitInvariant
  <2>4. QED
    BY <2>2, <2>3 DEF ExitInvariant
<1>2. CASE UNCHANGED vars
  <2>1. /\ invocation' = invocation /\ phase' = phase /\ target' = target
        /\ credentials' = credentials /\ config' = config /\ asked' = asked
        /\ report' = report /\ exit' = exit /\ stdout' = stdout
        /\ file' = file
    BY <1>2 DEF vars
  <2>2. Tables' /\ FileOK'
    BY <2>1 DEF ExitInvariant, Tables, FileOK, PartsSoFar, Parts
  <2>3. ASSUME NEW r \in Runs PROVE RunOK(r)'
    <3>1. AsAsked(r)' = AsAsked(r) /\ (Delivered(r)' <=> Delivered(r))
             /\ (Untouched(r)' <=> Untouched(r))
             /\ (ToStdout(r)' <=> ToStdout(r))
      BY <2>1 DEF AsAsked, Delivered, Untouched, ToStdout, Parts
    <3>2. QED
      BY <2>1, <3>1 DEF ExitInvariant, RunOK, ExitIsTrue, Early, BeforeSources,
                        PartsSoFar, Parts
  <2>4. QED
    BY <2>2, <2>3 DEF ExitInvariant
<1>3. QED
  BY <1>1, <1>2, ExitOfOthers DEF Next, Over

LEMMA ExitHolds == Spec => []ExitInvariant
<1>1. Init => ExitInvariant
  BY ExitInit
<1>2. ExitInvariant /\ [Next]_vars => ExitInvariant'
  BY ExitStep
<1>3. QED
  BY <1>1, <1>2, PTL DEF Spec

(* An exit code of 0 means that the whole report is where it was asked     *)
(* for, 2 that nothing was sent or written, whatever other runs and        *)
(* programs do to the same path meanwhile.                                 *)
THEOREM ExitCodesHold == Spec => []ExitCodesAreTrue
<1>1. ExitInvariant => ExitCodesAreTrue
  BY DEF ExitInvariant, RunOK, ExitIsTrue, ExitCodesAreTrue
<1>2. QED
  BY <1>1, ExitHolds, PTL

(* A file that exists only grows, by the run that created it.              *)
THEOREM FilesAreNotOverwritten == Spec => NothingIsOverwritten
<1> DEFINE Keeps ==
      file # None =>
        /\ file'.report = file.report
        /\ Len(file.parts) <= Len(file'.parts)
        /\ SubSeq(file'.parts, 1, Len(file.parts)) = file.parts
<1>1. ASSUME ExitInvariant, [Next]_vars PROVE [Keeps]_file
  <2>1. ASSUME NEW r \in Runs, Step(r) PROVE [Keeps]_file
    <3>1. Created(r) \/ Grown(r) \/ file' = file
      BY <1>1, <2>1, FileEffect DEF ExitInvariant, RunOK
    <3>2. QED
      BY <3>1 DEF Created, Grown
  <2>2. CASE OthersCreate
    BY <2>2 DEF OthersCreate
  <2>3. CASE UNCHANGED vars
    BY <2>3 DEF vars
  <2>4. QED
    BY <1>1, <2>1, <2>2, <2>3 DEF Next, Over
<1>2. QED
  BY <1>1, ExitHolds, PTL DEF Spec, NothingIsOverwritten
-----------------------------------------------------------------------------
(* Keys and targets *)

Configured == {"configured", "built"}
AfterCall == {"called", "accepted"} \cup Configured
               \cup {"investigated", "rendered", "writing", "over"}

MayGoOut(indicator) == IsInvestigable(indicator) /\ IsPublic(indicator)

(* A request sends the accepted target, which is public, with the key of   *)
(* its source only.                                                        *)
RequestIsDue(r, request) ==
  LET source == request[1]
      own == Variable(invocation[r], VariableOf[source])
  IN /\ source \in Keyed =>
          \/ request[3] = own
          \/ /\ source = "malwarebazaar" /\ own = None
             /\ request[3] = Variable(invocation[r], "SENTINEL_ABUSECH_KEY")
     /\ MayGoOut(request[2])

Refused(r) == phase[r] = "over" /\ exit[r] = <<2>>

KeysOK(r) ==
  /\ phase[r] \in {"not called"} \cup AfterCall
  /\ phase[r] \in AfterCall => invocation[r] \in Invocations[r]
  /\ phase[r] \in {"not called", "called", "accepted"} \cup Configured =>
       asked[r] = {}
  /\ phase[r] \in {"accepted"} \cup Configured => MayGoOut(target[r])
  /\ phase[r] \in Configured => credentials[r] = FromLookup(invocation[r])
  /\ phase[r] = "built" =>
       \A c \in config[r].ready \cap Keyed : IsUsable(credentials[r][c])
  /\ \A request \in asked[r] : RequestIsDue(r, request)
  /\ Refused(r) => ~Accepted(invocation[r])

KeysInvariant == Tables /\ \A r \in Runs : KeysOK(r)

(* A secret that can be used is the variable itself, and a secret is       *)
(* absent only if its variable is.                                         *)
LEMMA SecretIsVariable ==
  ASSUME NEW r \in Runs, NEW call \in Invocations[r], NEW name
  PROVE  /\ IsUsable(Secret(call, name)) =>
              Secret(call, name) = Variable(call, name)
         /\ Secret(call, name) = None => Variable(call, name) = None
<1> DEFINE value == Variable(call, name)
<1>1. CASE value = None \/ value.form # "not utf8"
  BY <1>1 DEF Secret
<1>2. CASE value # None /\ value.form = "not utf8"
  <2>1. name \in DOMAIN call.env /\ value = call.env[name]
    BY <1>2 DEF Variable
  <2>2. {"size", "form"} \subseteq DOMAIN value
    BY <2>1, CommandConstants
  <2> DEFINE read == [value EXCEPT !.size = 0, !.form = "plain"]
  <2>3. Secret(call, name) = read
    BY <1>2 DEF Secret
  <2>4. DOMAIN read = DOMAIN value /\ read.size = 0
    BY <2>2
  <2>5. DOMAIN None = {}
    BY DEF None
  <2>6. read # None
    BY <2>2, <2>4, <2>5
  <2>7. ~IsUsable(read)
    BY <2>4 DEF IsUsable
  <2>8. QED
    BY <2>3, <2>6, <2>7
<1>3. QED
  BY <1>1, <1>2

LEMMA KeyIsDue ==
  ASSUME NEW r \in Runs, NEW call \in Invocations[r], NEW c \in Keyed,
         IsUsable(FromLookup(call)[c])
  PROVE  \/ FromLookup(call)[c] = Variable(call, VariableOf[c])
         \/ /\ c = "malwarebazaar" /\ Variable(call, VariableOf[c]) = None
            /\ FromLookup(call)[c] = Variable(call, "SENTINEL_ABUSECH_KEY")
<1>1. FromLookup(call)[c] =
        IF c = "malwarebazaar" /\ Secret(call, VariableOf[c]) = None
        THEN Secret(call, VariableOf["urlhaus"])
        ELSE Secret(call, VariableOf[c])
  BY DEF FromLookup
<1>2. VariableOf["urlhaus"] = "SENTINEL_ABUSECH_KEY"
  BY DEF VariableOf
<1> HIDE DEF VariableOf
<1>3. QED
  BY <1>1, <1>2, SecretIsVariable

(* A step sets what it sets for its own run, as the source says. *)
LEMMA OwnKeysOK ==
  ASSUME Tables, NEW r \in Runs, KeysOK(r), Step(r)
  PROVE  KeysOK(r)'
<1>1. CASE Call(r)
  <2>1. /\ phase[r] = "not called" /\ phase'[r] = "called"
        /\ invocation'[r] \in Invocations[r] /\ asked' = asked
    BY <1>1 DEF Call, Go, Tables
  <2>2. QED
    BY <2>1 DEF KeysOK, Refused, AfterCall, Configured
<1>2. CASE Accept(r)
  <2>1. /\ phase[r] = "called" /\ phase'[r] = "accepted"
        /\ Accepted(invocation[r])
        /\ target'[r] = ParseTarget(invocation[r]).indicator
        /\ asked' = asked /\ invocation' = invocation
    BY <1>2 DEF Accept, Go, Tables
  <2>a. invocation[r] \in Invocations[r]
    BY <2>1 DEF KeysOK, Refused, AfterCall
  <2>b. MayGoOut(target'[r])
    BY <2>1, <2>a, AcceptedTarget, CallsAgree DEF MayGoOut
  <2>2. QED
    BY <2>1, <2>b DEF KeysOK, Refused, AfterCall, Configured
<1>3. CASE ReadCredentials(r)
  <2>1. /\ phase[r] = "accepted" /\ phase'[r] = "configured"
        /\ credentials'[r] = FromLookup(invocation[r]) /\ asked' = asked
        /\ invocation' = invocation /\ target' = target
    BY <1>3 DEF ReadCredentials, Go, Tables
  <2>2. QED
    BY <2>1 DEF KeysOK, Refused, AfterCall, Configured
<1>4. CASE BuildEngine(r)
  <2>1. /\ phase[r] = "configured" /\ phase'[r] = "built"
        /\ \A c \in config'[r].ready \cap Keyed : IsUsable(credentials[r][c])
        /\ asked' = asked /\ invocation' = invocation /\ target' = target
        /\ credentials' = credentials
    BY <1>4 DEF BuildEngine, Go, Tables
  <2>2. QED
    BY <2>1 DEF KeysOK, Refused, AfterCall, Configured, IsUsable
<1>5. CASE Investigate(r)
  <2>1. /\ phase[r] = "built" /\ phase'[r] = "investigated"
        /\ invocation' = invocation
    BY <1>5 DEF Investigate, Go, Tables
  <2>2. ASSUME NEW request \in asked'[r] PROVE RequestIsDue(r, request)
    <3>1. PICK c \in config[r].ready :
            request = <<c, target[r],
                        IF c \in Keyed THEN credentials[r][c] ELSE None>>
      BY <1>5, <2>2 DEF Investigate, Tables
    <3>2. request[1] = c /\ request[2] = target[r]
          /\ (c \in Keyed => request[3] = credentials[r][c])
      BY <3>1
    <3>3. /\ invocation[r] \in Invocations[r]
          /\ credentials[r] = FromLookup(invocation[r])
          /\ MayGoOut(target[r])
          /\ c \in Keyed => IsUsable(credentials[r][c])
      BY <2>1, <3>1 DEF KeysOK, Refused, AfterCall, Configured
    <3>4. QED
      BY <3>2, <3>3, KeyIsDue DEF RequestIsDue
  <2>3. QED
    BY <2>1, <2>2 DEF KeysOK, Refused, AfterCall, Configured, RequestIsDue
<1>6. CASE \/ Render(r) \/ WriteStdout(r) \/ FlushStdout(r)
           \/ Create(r) \/ Write(r) \/ Sync(r)
           \/ \E from \in {"accepted", "configured", "investigated",
                           "rendered", "writing"} : Fatal(r, from)
  <2>1. /\ phase[r] \in AfterCall
        /\ phase'[r] \in {"rendered", "writing", "over"}
        /\ invocation' = invocation /\ asked' = asked
        /\ phase'[r] = "over" => exit'[r] \in {<<0>>, <<1>>}
    BY <1>6
       DEF Render, WriteStdout, FlushStdout, Create, Write, Sync,
           Fatal, Exit, Go, Tables, AfterCall, Configured
  <2>2. <<0>> # <<2>> /\ <<1>> # <<2>>
    OBVIOUS
  <2>3. QED
    BY <2>1, <2>2 DEF KeysOK, Refused, AfterCall, Configured, RequestIsDue
<1>7. CASE Refuse(r)
  <2>1. /\ phase[r] = "called" /\ phase'[r] = "over" /\ ~Accepted(invocation[r])
        /\ invocation' = invocation /\ asked' = asked
    BY <1>7 DEF Refuse, Exit, Go, Tables
  <2>2. QED
    BY <2>1 DEF KeysOK, Refused, AfterCall, Configured, RequestIsDue
<1>8. QED
  BY <1>1, <1>2, <1>3, <1>4, <1>5, <1>6, <1>7
     DEF Step, SetupFails, RenderFails, StdoutFails, CreateFails, WriteFails

LEMMA KeysStep ==
  ASSUME KeysInvariant, [Next]_vars
  PROVE  KeysInvariant'
<1>1. ASSUME NEW r \in Runs, Step(r) PROVE KeysInvariant'
  <2>1. ASSUME NEW s \in Runs PROVE KeysOK(s)'
    <3>1. CASE s = r
      BY <1>1, <3>1, OwnKeysOK DEF KeysInvariant
    <3>2. CASE s # r
      <4>1. Unmoved(s)
        BY <1>1, <3>2, StepFrame DEF KeysInvariant
      <4>2. QED
        BY <4>1 DEF KeysInvariant, KeysOK, Refused, RequestIsDue, Unmoved
    <3>3. QED
      BY <3>1, <3>2
  <2>2. QED
    BY <1>1, <2>1, StepFrame DEF KeysInvariant
<1>2. CASE OthersCreate \/ UNCHANGED vars
  <2>1. /\ invocation' = invocation /\ phase' = phase /\ target' = target
        /\ credentials' = credentials /\ config' = config /\ asked' = asked
        /\ report' = report /\ exit' = exit /\ stdout' = stdout
    BY <1>2 DEF OthersCreate, vars
  <2>2. Tables'
    BY <2>1 DEF KeysInvariant, Tables
  <2>3. QED
    BY <2>1, <2>2 DEF KeysInvariant, KeysOK, Refused, RequestIsDue
<1>3. QED
  BY <1>1, <1>2 DEF Next, Over

LEMMA KeysHold == Spec => []KeysInvariant
<1>1. Init => KeysInvariant
  BY DEF Init, KeysInvariant, Tables, KeysOK, Refused, AfterCall, Configured
<1>2. KeysInvariant /\ [Next]_vars => KeysInvariant'
  BY KeysStep
<1>3. QED
  BY <1>1, <1>2, PTL DEF Spec

(* A key goes to the provider it was set for only, whole and readable;     *)
(* that of abuse.ch serves MalwareBazaar where it has none of its own, and *)
(* no other key stands in for one that was set but cannot be used.         *)
THEOREM KeysStayWithTheirProviders == Spec => []KeysGoToTheirProviders
<1>1. KeysInvariant => KeysGoToTheirProviders
  BY DEF KeysInvariant, KeysOK, RequestIsDue, KeysGoToTheirProviders
<1>2. QED
  BY <1>1, KeysHold, PTL

OnlyInvestigableIsSent ==
  \A r \in Runs : \A request \in asked[r] : IsInvestigable(request[2])

(* Whatever a run sends to a source has passed ensure_investigable: no     *)
(* order of steps leads around the gate.                                   *)
THEOREM TheGateHolds == Spec => []OnlyInvestigableIsSent
<1>1. KeysInvariant => OnlyInvestigableIsSent
  BY DEF KeysInvariant, KeysOK, RequestIsDue, MayGoOut, OnlyInvestigableIsSent
<1>2. QED
  BY <1>1, KeysHold, PTL

(* What leaves the machine is public by the registries of the RFCs: on     *)
(* every IPv4 and IPv6 address and every name, the arms of classify_v4 and *)
(* classify_v6 and the list of special suffixes say what the registries    *)
(* say, and no order of steps leads around the gate.  Conversely, a single *)
(* well-formed target that is public is not refused.                       *)
THEOREM OnlyPublicTargetsLeave == Spec => []OnlyPublicTargetsAreSent
<1>1. ASSUME KeysInvariant PROVE OnlyPublicTargetsAreSent
  <2>1. ASSUME NEW r \in Runs, NEW request \in asked[r] PROVE IsPublic(request[2])
    BY <1>1, <2>1 DEF KeysInvariant, KeysOK, RequestIsDue, MayGoOut
  <2>2. ASSUME NEW r \in Runs, Refused(r),
               ArgsAreValid(invocation[r]), ~Failed(ParseSyntax(invocation[r]))
        PROVE  ~IsPublic(ParseSyntax(invocation[r]).indicator)
    <3>1. invocation[r] \in Invocations[r] /\ ~Accepted(invocation[r])
      BY <1>1, <2>2 DEF KeysInvariant, KeysOK, Refused, AfterCall
    <3>2. Failed(ParseTarget(invocation[r]))
      BY <2>2, <3>1 DEF Accepted
    <3>3. ~IsInvestigable(ParseSyntax(invocation[r]).indicator)
      BY <2>2, <3>2 DEF ParseTarget
    <3>4. QED
      BY <2>2, <3>1, <3>3, CallsAgree
  <2>3. QED
    BY <2>1, <2>2 DEF OnlyPublicTargetsAreSent, Refused
<1>2. QED
  BY <1>1, KeysHold, PTL
=============================================================================
