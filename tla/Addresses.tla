----------------------------- MODULE Addresses -----------------------------
(***************************************************************************)
(* Routing scopes and networks of IP addresses.  An address is the         *)
(* sequence of its four octets or of its eight 16-bit segments.            *)
(***************************************************************************)
EXTENDS Integers, Sequences

Octet == 0..255
Segment == 0..(2 ^ 16 - 1)

IsAddress(address) == address \in [1..4 -> Octet] \cup [1..8 -> Segment]

UnitBits(address) == IF Len(address) = 4 THEN 8 ELSE 16

Between(low, n, high) == IF n < low THEN low ELSE IF n > high THEN high ELSE n

(* Every bit after the first length bits is cleared.                       *)
Mask(address, length) ==
  LET bits == UnitBits(address)
      Dropped(i) == 2 ^ (bits - Between(0, length - (i - 1) * bits, bits))
  IN [i \in 1..Len(address) |-> address[i] - (address[i] % Dropped(i))]

Prefix(network, length) == [network |-> network, length |-> length]

Covers(prefix, address) ==
  /\ Len(prefix.network) = Len(address)
  /\ Mask(address, prefix.length) = prefix.network

(* The arms of a match, tried in order. *)
FirstArm(arms) ==
  LET matches == {i \in DOMAIN arms : arms[i][1]}
  IN arms[CHOOSE i \in matches : \A j \in matches : i <= j][2]

Starts(address, units) == SubSeq(address, 1, Len(units)) = units

ClassifyV4(ip) ==
  LET b == ip[2]
  IN FirstArm(<<
       <<ip = <<0, 0, 0, 0>>, "unspecified">>,
       <<ip = <<255, 255, 255, 255>>, "broadcast">>,
       <<\E units \in {<<0>>, <<192, 0, 0>>, <<192, 88, 99>>} : Starts(ip, units), "reserved">>,
       <<ip[1] = 10 \/ Starts(ip, <<192, 168>>), "private">>,
       <<ip[1] = 172 /\ b \in 16..31, "private">>,
       <<ip[1] = 100 /\ b \in 64..127, "shared">>,
       <<ip[1] = 127, "loopback">>,
       <<Starts(ip, <<169, 254>>), "link local">>,
       <<\E units \in {<<192, 0, 2>>, <<198, 51, 100>>, <<203, 0, 113>>} : Starts(ip, units),
         "documentation">>,
       <<ip[1] = 198 /\ b \in {18, 19}, "benchmarking">>,
       <<ip[1] \in 224..239, "multicast">>,
       <<ip[1] \in 240..255, "reserved">>,
       <<TRUE, "global">> >>)

(* The address embedded in two segments. *)
Embedded(high, low) == <<high \div 256, high % 256, low \div 256, low % 256>>

Zeros(n) == [i \in 1..n |-> 0]

ClassifyV6(ip) ==
  LET a == ip[1]
      b == ip[2]
  IN FirstArm(<<
       <<ip = Zeros(8), "unspecified">>,
       <<ip = Zeros(7) \o <<1>>, "loopback">>,
       <<Starts(ip, Zeros(5) \o <<\hffff>>), ClassifyV4(Embedded(ip[7], ip[8]))>>,
       <<Starts(ip, Zeros(6)), "reserved">>,
       <<Starts(ip, <<\h64, \hff9b, 0, 0, 0, 0>>), ClassifyV4(Embedded(ip[7], ip[8]))>>,
       <<a = \h2002, ClassifyV4(Embedded(b, ip[3]))>>,
       <<Starts(ip, <<\h2001, \hdb8>>), "documentation">>,
       <<a = \h3fff /\ b < \h1000, "documentation">>,
       <<Starts(ip, <<\h2001, 2, 0>>), "benchmarking">>,
       <<Starts(ip, <<\h64, \hff9b, 1>>) \/ Starts(ip, <<\h100, 0, 0, 0>>), "reserved">>,
       <<a = \h2001 /\ b < \h200, "reserved">>,
       <<\hfc00 <= a /\ a <= \hfdff, "unique local">>,
       <<\hfe80 <= a /\ a <= \hfebf, "link local">>,
       <<\hff00 <= a /\ a <= \hffff, "multicast">>,
       <<\h2000 <= a /\ a <= \h3fff, "global">>,
       <<TRUE, "reserved">> >>)

Classify(ip) == IF Len(ip) = 4 THEN ClassifyV4(ip) ELSE ClassifyV6(ip)
=============================================================================
