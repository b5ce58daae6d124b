------------------------------ MODULE Command ------------------------------
(***************************************************************************)
(* The command line: several invocations run at once and may be told to    *)
(* write the same file, which other programs may create as well.  An       *)
(* invocation checks its arguments and its target, loads what it needs,    *)
(* lets the engine ask the sources, renders the report and writes it.      *)
(*                                                                         *)
(* What the engine and the sources do is modelled elsewhere; here it       *)
(* matters which sources may be sent the target, with which key.           *)
(***************************************************************************)
EXTENDS Indicators, FiniteSets

CONSTANTS
  Runs,             \* the invocations that run at once
  Invocations,      \* what each of them may be called with
  MaxTimeout, MaxSourceTimeout, MaxKey

(* No run goes by the name of the other programs, a variable that is set   *)
(* has a size and a form, and a target a text that reads as one of those   *)
(* that module Indicators tells apart.                                     *)
IsRaw(raw) ==
  /\ "text" \in DOMAIN raw
  /\ raw.text[1] \in {"address", "brackets"} => IsAddress(raw.text[2])
  /\ raw.text[1] = "name" =>
       raw.text[2] \in Seq({raw.text[2][i] : i \in DOMAIN raw.text[2]})

ASSUME CommandConstants ==
  /\ "others" \notin Runs
  /\ \A r \in Runs : \A call \in Invocations[r] :
       /\ \A name \in DOMAIN call.env : {"size", "form"} \subseteq DOMAIN call.env[name]
       /\ \A kind \in DOMAIN call.targets : IsRaw(call.targets[kind])

VARIABLES invocation, phase, target, credentials, config, asked, report, exit, stdout, file

vars == <<invocation, phase, target, credentials, config, asked, report, exit, stdout, file>>

None == <<>>

Keyed == {"abuseipdb", "virustotal", "urlhaus", "malwarebazaar"}
Collectors == Keyed \cup {"dns", "ct", "cymru", "rdap"}

Init ==
  /\ invocation = [r \in Runs |-> None]
  /\ phase = [r \in Runs |-> "not called"]
  /\ target = [r \in Runs |-> None]
  /\ credentials = [r \in Runs |-> None]
  /\ config = [r \in Runs |-> None]
  /\ asked = [r \in Runs |-> {}]
  /\ report = [r \in Runs |-> None]
  /\ exit = [r \in Runs |-> None]
  /\ stdout = [r \in Runs |-> <<>>]
  /\ file = None

Go(r, next) == phase' = [phase EXCEPT ![r] = next]

Exit(r, code) ==
  /\ Go(r, "over")
  /\ exit' = [exit EXCEPT ![r] = <<code>>]

Fatal(r, from) ==
  /\ phase[r] = from
  /\ Exit(r, 1)
  /\ UNCHANGED <<invocation, target, credentials, config, asked, report, stdout, file>>

Call(r) ==
  /\ phase[r] = "not called"
  /\ \E call \in Invocations[r] : invocation' = [invocation EXCEPT ![r] = call]
  /\ Go(r, "called")
  /\ UNCHANGED <<target, credentials, config, asked, report, exit, stdout, file>>

(* The rules of clap: one target, an accepted timeout.                     *)
ArgsAreValid(call) ==
  /\ Cardinality(DOMAIN call.targets) = 1
  /\ call.timeout \in 1..MaxTimeout

(* parse_target: a domain goes before an address, an address before a hash. *)
ParseSyntax(call) ==
  LET given == DOMAIN call.targets
  IN CASE "domain" \in given -> Parsed(call.targets["domain"], "domain")
       [] "domain" \notin given /\ "ip" \in given -> Parsed(call.targets["ip"], "ip")
       [] given = {"hash"} -> Parsed(call.targets["hash"], "hash")
       [] OTHER -> Failure("empty")

ParseTarget(call) ==
  LET syntax == ParseSyntax(call)
  IN IF Failed(syntax) \/ IsInvestigable(syntax.indicator) THEN syntax ELSE Failure("not public")

Accepted(call) == ArgsAreValid(call) /\ ~Failed(ParseTarget(call))

Refuse(r) ==
  /\ phase[r] = "called"
  /\ ~Accepted(invocation[r])
  /\ Exit(r, 2)
  /\ UNCHANGED <<invocation, target, credentials, config, asked, report, stdout, file>>

Accept(r) ==
  /\ phase[r] = "called"
  /\ Accepted(invocation[r])
  /\ target' = [target EXCEPT ![r] = ParseTarget(invocation[r]).indicator]
  /\ Go(r, "accepted")
  /\ UNCHANGED <<invocation, credentials, config, asked, report, exit, stdout, file>>

(* Credentials::from_lookup: a variable is unset, or a text of some size   *)
(* that is plain, odd (not printable ASCII) or not UTF-8, which is read as *)
(* the empty text.                                                         *)
Variable(call, name) == IF name \in DOMAIN call.env THEN call.env[name] ELSE None

Secret(call, name) ==
  LET value == Variable(call, name)
  IN IF value = None \/ value.form # "not utf8" THEN value
     ELSE [value EXCEPT !.size = 0, !.form = "plain"]

VariableOf ==
  [abuseipdb |-> "SENTINEL_ABUSEIPDB_KEY", virustotal |-> "SENTINEL_VIRUSTOTAL_KEY",
   urlhaus |-> "SENTINEL_ABUSECH_KEY", malwarebazaar |-> "SENTINEL_MALWAREBAZAAR_KEY"]

FromLookup(call) ==
  [s \in Keyed |->
     IF s = "malwarebazaar" /\ Secret(call, VariableOf[s]) = None
     THEN Secret(call, VariableOf["urlhaus"])
     ELSE Secret(call, VariableOf[s])]

(* Bug: whatever is set is used. *)
IsSet(key) == key # None

(* ApiKey::new *)
IsUsable(key) == key # None /\ key.size \in 1..MaxKey /\ key.form = "plain"

ReadCredentials(r) ==
  /\ phase[r] = "accepted"
  /\ credentials' = [credentials EXCEPT ![r] = FromLookup(invocation[r])]
  /\ Go(r, "configured")
  /\ UNCHANGED <<invocation, target, config, asked, report, exit, stdout, file>>

(* build_engine, with the resolver of the system loaded.                   *)
SourceTimeout(timeout) == IF timeout < MaxSourceTimeout THEN timeout ELSE MaxSourceTimeout

BuildEngine(r) ==
  /\ phase[r] = "configured"
  /\ LET timeout == invocation[r].timeout
     IN config' = [config EXCEPT ![r] =
          [investigation |-> timeout, source |-> SourceTimeout(timeout),
           ready |-> {c \in Collectors : c \in Keyed => IsUsable(credentials[r][c])}]]
  /\ Go(r, "built")
  /\ UNCHANGED <<invocation, target, credentials, asked, report, exit, stdout, file>>

(* Collector::supports *)
Supports(collector, indicator) ==
  CASE collector \in {"cymru", "rdap", "abuseipdb"} -> indicator.kind \in {"ipv4", "ipv6"}
    [] collector \in {"dns", "ct"} -> indicator.kind = "domain"
    [] collector = "urlhaus" -> indicator.kind \in {"domain", "ipv4"}
    [] collector = "malwarebazaar" ->
         indicator.kind = "hash" /\ indicator.value \in {"sha1", "sha256"}
    [] OTHER -> indicator.kind = "hash" => indicator.value = "sha256"

(* The engine ends by its deadline, however many of them were asked.  It   *)
(* checks the target again, which an accepted one passes.                  *)
Investigate(r) ==
  /\ phase[r] = "built"
  /\ \E sources \in SUBSET {c \in config[r].ready : Supports(c, target[r])} :
       asked' = [asked EXCEPT ![r] =
         {<<c, target[r], IF c \in Keyed THEN credentials[r][c] ELSE None>> : c \in sources}]
  /\ Go(r, "investigated")
  /\ UNCHANGED <<invocation, target, credentials, config, report, exit, stdout, file>>

(* Correlation and rendering; only JSON may fail.                          *)
Render(r) ==
  /\ phase[r] = "investigated"
  /\ report' = [report EXCEPT ![r] =
       [by |-> r, format |-> invocation[r].format, correlated |-> invocation[r].correlate]]
  /\ Go(r, "rendered")
  /\ UNCHANGED <<invocation, target, credentials, config, asked, exit, stdout, file>>

RenderFails(r) == Fatal(r, "investigated") /\ invocation[r].format = "json"

(* A report is written in two parts, each of which may fail.               *)
Parts == <<"first", "second">>
Written(r, parts) == [report |-> report[r], parts |-> parts]

ToStdout(r) == invocation[r].output = "stdout"

WriteStdout(r) ==
  /\ phase[r] = "rendered" /\ ToStdout(r)
  /\ Len(stdout[r]) < Len(Parts)
  /\ stdout' = [stdout EXCEPT ![r] = Append(@, Parts[Len(@) + 1])]
  /\ UNCHANGED <<invocation, phase, target, credentials, config, asked, report, exit, file>>

FlushStdout(r) ==
  /\ phase[r] = "rendered" /\ ToStdout(r)
  /\ Len(stdout[r]) = Len(Parts)
  /\ Exit(r, 0)
  /\ UNCHANGED <<invocation, target, credentials, config, asked, report, stdout, file>>

StdoutFails(r) == Fatal(r, "rendered") /\ ToStdout(r)

(* Bug: a file that exists is truncated. *)
MayTruncate == TRUE

MayCreate == file = None

Create(r) ==
  /\ phase[r] = "rendered" /\ ~ToStdout(r)
  /\ MayCreate
  /\ file' = Written(r, <<>>)
  /\ Go(r, "writing")
  /\ UNCHANGED <<invocation, target, credentials, config, asked, report, exit, stdout>>

(* The path exists, or the file cannot be created for another reason.      *)
CreateFails(r) == Fatal(r, "rendered") /\ ~ToStdout(r)

Write(r) ==
  /\ phase[r] = "writing"
  /\ file.parts # Parts
  /\ file' = [file EXCEPT !.parts = Append(@, Parts[Len(@) + 1])]
  /\ UNCHANGED <<invocation, phase, target, credentials, config, asked, report, exit, stdout>>

(* Bug: writing stops after the first part. *)
IsBegun == Len(file.parts) >= 1

IsWritten == file.parts = Parts

Sync(r) ==
  /\ phase[r] = "writing"
  /\ IsWritten
  /\ Exit(r, 0)
  /\ UNCHANGED <<invocation, target, credentials, config, asked, report, stdout, file>>

WriteFails(r) == Fatal(r, "writing")

(* The runtime, the resolver and the HTTP client may not come up. *)
SetupFails(r) == \E from \in {"accepted", "configured"} : Fatal(r, from)

(* Another program takes the path. *)
Theirs == [report |-> [by |-> "others"], parts |-> Parts]

OthersCreate ==
  /\ file = None
  /\ file' = Theirs
  /\ UNCHANGED <<invocation, phase, target, credentials, config, asked, report, exit, stdout>>

Over ==
  /\ \A r \in Runs : phase[r] = "over"
  /\ UNCHANGED vars

Step(r) ==
  \/ Call(r) \/ Refuse(r) \/ Accept(r) \/ ReadCredentials(r) \/ BuildEngine(r) \/ SetupFails(r)
  \/ Investigate(r) \/ Render(r) \/ RenderFails(r)
  \/ WriteStdout(r) \/ FlushStdout(r) \/ StdoutFails(r)
  \/ Create(r) \/ CreateFails(r) \/ Write(r) \/ Sync(r) \/ WriteFails(r)

Next == (\E r \in Runs : Step(r)) \/ OthersCreate \/ Over

Spec == Init /\ [][Next]_vars

----------------------------------------------------------------------------
(* The scripts that call the program go by its exit code: 0 means that the *)
(* whole report, rendered as asked, is where it was asked for, and 2 that  *)
(* the call was at fault and nothing was sent or written.  Whatever else   *)
(* happens, to the file as to the setup, ends in 1.                        *)
Delivered(r) ==
  LET asAsked == [by |-> r, format |-> invocation[r].format, correlated |-> invocation[r].correlate]
  IN IF ToStdout(r) THEN report[r] = asAsked /\ stdout[r] = Parts
     ELSE file # None /\ file.report = asAsked /\ file.parts = Parts

Untouched(r) ==
  /\ asked[r] = {} /\ stdout[r] = <<>>
  /\ file # None => file.report.by # r

ExitCodesAreTrue ==
  \A r \in Runs : phase[r] = "over" =>
    /\ exit[r] = <<0>> => Delivered(r)
    /\ exit[r] = <<2>> => Untouched(r)
    /\ exit[r] = <<2>> <=> target[r] = None

(* A path that exists is never written by a run that did not create it:    *)
(* not when another run or program created it while the sources were       *)
(* asked, and not when that run failed and left a part of its report.      *)
NothingIsOverwritten ==
  [][file # None =>
       /\ file'.report = file.report
       /\ Len(file.parts) <= Len(file'.parts)
       /\ SubSeq(file'.parts, 1, Len(file.parts)) = file.parts]_file

(* What leaves the machine is public by the registries of the RFCs, which  *)
(* assign scopes to ranges of which the longest that covers an address     *)
(* decides, and which embed IPv4 addresses in IPv6 ranges.  Conversely, a  *)
(* single well-formed target that is public is not refused.                *)
IPv4Registry ==
  {<<Prefix(<<0, 0, 0, 0>>, 0), "global">>,
   <<Prefix(<<0, 0, 0, 0>>, 8), "reserved">>, <<Prefix(<<0, 0, 0, 0>>, 32), "unspecified">>,
   <<Prefix(<<10, 0, 0, 0>>, 8), "private">>, <<Prefix(<<172, 16, 0, 0>>, 12), "private">>,
   <<Prefix(<<192, 168, 0, 0>>, 16), "private">>, <<Prefix(<<100, 64, 0, 0>>, 10), "shared">>,
   <<Prefix(<<127, 0, 0, 0>>, 8), "loopback">>, <<Prefix(<<169, 254, 0, 0>>, 16), "link local">>,
   <<Prefix(<<192, 0, 0, 0>>, 24), "reserved">>, <<Prefix(<<192, 88, 99, 0>>, 24), "reserved">>,
   <<Prefix(<<192, 0, 2, 0>>, 24), "documentation">>,
   <<Prefix(<<198, 51, 100, 0>>, 24), "documentation">>,
   <<Prefix(<<203, 0, 113, 0>>, 24), "documentation">>,
   <<Prefix(<<198, 18, 0, 0>>, 15), "benchmarking">>,
   <<Prefix(<<224, 0, 0, 0>>, 4), "multicast">>, <<Prefix(<<240, 0, 0, 0>>, 4), "reserved">>,
   <<Prefix(<<255, 255, 255, 255>>, 32), "broadcast">>}

V6(units) == units \o Zeros(8 - Len(units))

IPv6Registry ==
  {<<Prefix(V6(<<>>), 0), "reserved">>, <<Prefix(V6(<<\h2000>>), 3), "global">>,
   <<Prefix(V6(<<>>), 128), "unspecified">>, <<Prefix(Zeros(7) \o <<1>>, 128), "loopback">>,
   <<Prefix(V6(<<>>), 96), "reserved">>,
   <<Prefix(V6(Zeros(5) \o <<\hffff>>), 96), "embeds 7">>,
   <<Prefix(V6(<<\h64, \hff9b>>), 96), "embeds 7">>, <<Prefix(V6(<<\h2002>>), 16), "embeds 2">>,
   <<Prefix(V6(<<\h2001, \hdb8>>), 32), "documentation">>,
   <<Prefix(V6(<<\h3fff>>), 20), "documentation">>,
   <<Prefix(V6(<<\h2001, 2>>), 48), "benchmarking">>, <<Prefix(V6(<<\h2001>>), 23), "reserved">>,
   <<Prefix(V6(<<\h64, \hff9b, 1>>), 48), "reserved">>, <<Prefix(V6(<<\h100>>), 64), "reserved">>,
   <<Prefix(V6(<<\hfc00>>), 7), "unique local">>, <<Prefix(V6(<<\hfe80>>), 10), "link local">>,
   <<Prefix(V6(<<\hff00>>), 8), "multicast">>}

Assigned(registry, ip) ==
  LET covering == {entry \in registry : Covers(entry[1], ip)}
  IN (CHOOSE entry \in covering :
        \A other \in covering : other[1].length <= entry[1].length)[2]

Scope(ip) ==
  IF Len(ip) = 4 THEN Assigned(IPv4Registry, ip)
  ELSE LET assigned == Assigned(IPv6Registry, ip)
       IN CASE assigned = "embeds 7" -> Assigned(IPv4Registry, Embedded(ip[7], ip[8]))
            [] assigned = "embeds 2" -> Assigned(IPv4Registry, Embedded(ip[2], ip[3]))
            [] OTHER -> assigned

IsPublic(indicator) ==
  CASE indicator.kind \in {"ipv4", "ipv6"} -> Scope(indicator.value) = "global"
    [] indicator.kind = "domain" ->
         \A i \in DOMAIN indicator.value :
           SubSeq(indicator.value, i, Len(indicator.value)) \notin SpecialUseSuffixes
    [] OTHER -> TRUE

OnlyPublicTargetsAreSent ==
  \A r \in Runs :
    /\ \A request \in asked[r] : IsPublic(request[2])
    /\ /\ phase[r] = "over" /\ exit[r] = <<2>> /\ ArgsAreValid(invocation[r])
       /\ ~Failed(ParseSyntax(invocation[r]))
       => ~IsPublic(ParseSyntax(invocation[r]).indicator)

(* A key goes to the provider it was set for only, whole and readable; one *)
(* that was set but cannot be used is not replaced by another's.           *)
KeysGoToTheirProviders ==
  \A r \in Runs : \A request \in asked[r] :
    LET source == request[1]
        own == Variable(invocation[r], VariableOf[source])
    IN source \in Keyed =>
         \/ request[3] = own
         \/ /\ source = "malwarebazaar" /\ own = None
            /\ request[3] = Variable(invocation[r], "SENTINEL_ABUSECH_KEY")
=============================================================================
