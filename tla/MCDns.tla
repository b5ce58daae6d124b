------------------------------- MODULE MCDns -------------------------------
(***************************************************************************)
(* Instances of Dns for TLC: four queries, whose answers have records of   *)
(* every kind, more records than are kept, and records too long to keep.   *)
(***************************************************************************)
EXTENDS Dns

R(kind) == [kind |-> kind, big |-> FALSE]
Big(kind) == [kind |-> kind, big |-> TRUE]

MailPlan == <<"A", "TXT", "DMARC">>
CertificatePlan == <<"MX", "TXT", "CAA">>
MainPlan == <<"A", "TXT", "CAA", "DMARC">>

AllAnswers ==
  [q \in {"A", "MX", "TXT", "CAA", "DMARC"} |->
     CASE q = "A" -> {<<R("address"), R("private")>>}
       [] q = "MX" -> {<<R("null_mx")>>, <<R("null_mx"), R("mx")>>}
       [] q = "TXT" -> {<<>>, <<R("text")>>, <<Big("spf"), R("spf")>>,
                        <<R("text"), R("text"), R("spf")>>}
       [] q = "CAA" -> {<<R("issue"), R("iodef")>>, <<Big("issue")>>,
                        <<R("iodef"), Big("issue")>>}
       [] q = "DMARC" -> {<<R("dmarc")>>, <<R("text")>>}]
=============================================================================
