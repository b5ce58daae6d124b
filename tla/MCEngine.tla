------------------------------ MODULE MCEngine ------------------------------
(***************************************************************************)
(* Instances of Engine for TLC.  The sources are stand-ins for the shapes  *)
(* of the registered collectors (cli/src/app.rs, default_collectors):      *)
(* `dns` reads the target's addresses and suggests them as pivots, `ipinfo`*)
(* (Team Cymru, RDAP) runs on addresses, pivots included, `feed` (keyed    *)
(* reputation APIs) runs on the target only, `nokey` has no API key.       *)
(***************************************************************************)
EXTENDS Engine

CONSTANTS
  dns, ipinfo, feed, nokey, \* sources
  dom, ip1, ip2, ip3, lan,  \* indicators; `lan` is a private address
  o1, o2, o3, o4,           \* observation IDs
  resolves, hosts,          \* edges
  weak                      \* a finding

AllSources == {dns, ipinfo, feed, nokey}
AllIndicators == {dom, ip1, ip2, ip3, lan}
PublicIndicators == AllIndicators \ {lan}
AllObservations == {o1, o2, o3, o4}
AllEdges == {resolves, hosts}
AllFindings == {weak}

PerType == [s \in AllSources |->
              CASE s = dns -> {dom}
                [] s = ipinfo -> AllIndicators \ {dom}
                [] OTHER -> AllIndicators]
NoRequests == [s \in AllSources |-> 0]
Lookups == [s \in AllSources |-> IF s = ipinfo THEN 2 ELSE 1]

Answer(obs, pivs, fails) ==
  [observations |-> obs, relationships |-> {}, findings |-> {},
   pivots |-> pivs, failures |-> fails]

Empty == Answer({}, <<>>, 0)
(* Interleavings: one pivot, reported once or twice, a partial answer. *)
CoreCollections ==
  [r \in Runs |->
     CASE r = <<dns, dom>> -> {Answer({o1}, <<ip1>>, 0),
                               Answer({}, <<ip1, ip1>>, 1)}
       [] r = <<feed, dom>> -> {Answer({o2}, <<>>, 0)}
       [] r = <<ipinfo, ip1>> -> {Answer({o3}, <<>>, 1)}
       [] OTHER -> {Empty}]

Edge(e, obs) == [edge |-> e, evidence |-> obs]
Weak(obs) == [finding |-> weak, evidence |-> obs]

(* Pivoting: cycles, private and repeated candidates, more candidates than *)
(* are examined, and two sources that report the same pivots.  Evidence:   *)
(* the same edge from two runs, claims on foreign evidence.                *)
PivotCollections ==
  [r \in Runs |->
     CASE r = <<dns, dom>> ->
            {[observations |-> {o1, o2}, pivots |-> <<ip1, ip2>>, failures |-> 0,
              relationships |-> {Edge(resolves, {o1}), Edge(resolves, {o2})},
              findings |-> {Weak({o1})}],
             [observations |-> {o1}, pivots |-> <<lan, ip1, ip1, ip2>>, failures |-> 0,
              relationships |-> {Edge(resolves, {o2})},
              findings |-> {Weak({o2}), Weak({o1})}]}
       [] r = <<feed, dom>> ->
            {Empty,
             [observations |-> {o3}, pivots |-> <<ip2, dom, ip3>>, failures |-> 1,
              relationships |-> {Edge(resolves, {o3}), Edge(hosts, {o1, o3})},
              findings |-> {Weak({o1, o3})}]}
       [] r = <<ipinfo, ip1>> ->
            {[observations |-> {o4}, pivots |-> <<dom, ip2, lan>>, failures |-> 1,
              relationships |-> {Edge(hosts, {o4}), Edge(hosts, {o3})},
              findings |-> {}]}
       [] r = <<ipinfo, ip2>> -> {Answer({}, <<ip1>>, 0)}
       [] OTHER -> {Empty}]

Registration == {<<dns, ipinfo, feed>>}
Registrations == {<<dns, ipinfo, feed>>, <<feed, ipinfo, nokey, dns>>, <<dns, nokey, ipinfo, feed>>,
                  <<feed, nokey>>, <<dns, ipinfo, dns>>, <<>>}
=============================================================================
