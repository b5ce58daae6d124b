------------------------------- MODULE MCRdap -------------------------------
(***************************************************************************)
(* Instances of Rdap for TLC: two investigations, three runs for one       *)
(* family and one for the other.                                           *)
(***************************************************************************)
EXTENDS Rdap

CONSTANTS
  r1, r2, r3, r4,       \* runs
  v4, v6,               \* families
  a1, a2, b1,           \* addresses
  c1, c2,               \* investigations
  wide, narrow, six,    \* prefixes
  good, other, insecure \* URLs

AllRuns == {r1, r2, r3, r4}

Family == [r \in Runs |-> IF r = r4 THEN v6 ELSE v4]
Address == [r \in Runs |-> CASE r = r4 -> b1 [] r = r3 -> a2 [] OTHER -> a1]
Investigation == [r \in Runs |-> IF r \in {r1, r4} THEN c1 ELSE c2]

Containment ==
  [p \in Blocks |->
     {AddressOf[r] : r \in Runs} \cap
       CASE p = wide -> {a1, a2} [] p = narrow -> {a1} [] OTHER -> {b1}]
Lengths == [p \in Blocks |-> IF p = wide THEN 8 ELSE 16]

Of(prefixes, urls) == [prefixes |-> prefixes, urls |-> urls]

(* The specific service last and behind a URL to be skipped; first, twice  *)
(* and with more prefixes and services than are kept; and no usable one.   *)
AllDocuments ==
  {<<Of(<<wide, six>>, <<good>>), Of(<<narrow>>, <<insecure, other>>)>>,
   <<Of(<<narrow, narrow, wide>>, <<other>>), Of(<<wide>>, <<good>>),
     Of(<<six>>, <<good>>)>>,
   <<Of(<<narrow>>, <<insecure>>)>>}
=============================================================================
