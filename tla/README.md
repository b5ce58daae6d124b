# TLA+ models of Sentinel OSINT

Sentinel OSINT answers one question about a domain, an IP address or a file hash:
what do public sources say about it, and which observation backs each statement. An
*engine* runs *collectors* concurrently under two kinds of timer, a request budget and
pivot limits; collectors ask the network through a hardened HTTP client or a DNS
resolver and return observations, relationships, findings and pivots; the engine merges
them into an *investigation*, which is correlated and rendered.

This directory holds TLA+ models of the parts where the order of events, failures and
limits decide whether the report is right, the TLC configurations that check them, and
proofs for every size of the instance, checked by TLAPS. All paths below are relative
to `src/`.

    tlc -config EngineCore.cfg MCEngine      # one run; the others are listed below
    tlapm EngineProofs.tla                   # the proofs of one module

## 1. Inventory

| Component | State | Operations | Hard behaviour | What makes it correct |
|---|---|---|---|---|
| Engine (`collectors/src/engine/mod.rs`) | JoinSet, `pending`, semaphore, `visited`, `dropped`, `considered`, overflow, statistics, the investigation | `register`, `investigate`, `schedule`, `spawn`, `complete`, `crashed`, `merge`, `consider_pivots`, `cancel_remaining`, `record_unsupported` | completions in any order spawn more runs; panics; a source timer and an investigation deadline; abort while tasks still run | one status per run, no repeated run, evidence = what answered, limits, termination |
| Collector interface (`collectors/src/collector.rs`) | `RequestBudget.used` | `acquire_request`, `send`, `observe`, `relate`, `find`, `pivot`, `note_failure` | collectors share one atomic counter | the budget is never exceeded, no unit is given twice |
| Investigation (`core/src/investigation.rs`) | observations, relationships, findings, source statuses | `add_observation`, `add_relationship`, `add_finding`, `record_source` | same-edge merging, evidence that is not there (yet) | every claim cites observations of the investigation |
| HTTP client (`collectors/src/http/`) | permits, one redirect chain and one body per call | `send`, redirect policy, resolver, `map_error` | waiting and cancelled callers, chains that leave the origin at the last hop, bodies of unknown length | nothing forbidden is contacted, secrets stay on their origin, caps hold, permits are conserved |
| DNS collector (`collectors/src/sources/dns.rs`, `dns/`) | the query plan, a JoinSet of lookups, one outcome per query | `resolve_all`, `build_collection`, `apply_limits` | lookups end in any order, time out, panic; the budget ends in mid-plan | each outcome belongs to its query, no record is lost or invented |
| DNS analysis (`collectors/src/analysis/`) | none | SPF, DMARC, CAA and record analyzers | unknown versus absent | nothing is called missing that was not answered |
| RDAP collector (`collectors/src/sources/rdap/`) | a bootstrap cell per address family, shared by all investigations of the process | `bootstrap`, `service_for`, `run` | the run that fetches may fail or be aborted while others wait | one fetch at a time, nobody waits for ever, the most specific service is asked |
| Cymru collector (`sources/cymru.rs`) | none across calls | one origin lookup, then up to four lookups of AS names | the budget ends or a lookup fails in the middle; several origins per record | origins survive failed names; what was not looked up is noted |
| Certificate transparency (`sources/ct/`) | none across calls | fetch, parse, merge, sort, bound | two entries of one certificate, surplus entries and names, malformed entries | the newest certificates are kept with all their names, or "truncated" is found |
| Keyed reputation APIs (`sources/virustotal`, `abuseipdb`, `urlhaus`, `malwarebazaar`, `api_key.rs`) | an API key each | one request; reading each field; observation, findings, confidence | fields missing, of the wrong type, out of range, contradictory, of another object | no verdict and no absence is concluded from a failure or from what was not said |
| Correlation (`correlation/`) | none: a function of the report | evidence index, seven kinds of correlation in four rule modules, identifiers, merging | runs complete in any order; samples and caps; drafts that share an identifier | independent of the order, but for the order of the sources in the text of a gap; disagreement reported exactly when the answers contradict each other; nothing cut without a word |
| Indicators, address classes (`core/src/indicator`, `net.rs`) | none | parsing, normalisation, classification | the order of overlapping ranges, embedded IPv4 addresses, limits in bytes before and after conversion to ASCII | what is sent is public; what is well formed and public is accepted |
| Command line (`cli/`) | arguments, credentials, configuration, output | `parse_target`, `build_engine`, `investigate`, render, write | another process creates the path while sources are asked; a write fails half-way; one key is lent to another provider | exit codes are true, nothing is overwritten, keys go where they were meant to |
| Report (`report/`) | none | table and JSON rendering | layout | out of scope |

How they interact: the command line registers eight collectors with one engine and
calls `investigate`. The engine spawns one tokio task per applicable collector and
indicator; a task waits for a permit of the engine's semaphore, then runs
`collect` under the source timeout. Collectors share the HTTP client (whose permits are
a second semaphore), the DNS resolver and the investigation's request budget; the RDAP
collector also shares its bootstrap cells. A task's result comes back through the JoinSet
only, and is handled one at a time by the engine's future, which merges it, follows
its pivots by spawning further tasks, and records its status. When the deadline fires
the engine aborts the JoinSet, waits for every aborted task and reports the remaining
runs as cut off. Correlation and rendering read the finished investigation.

## 2. Modules

| Module | Models | Role |
|---|---|---|
| `Engine.tla` | engine, budget, investigation | the core: detailed specification |
| `SourceLedger.tla` | what `sources` of a report promises | abstract specification that `Engine` implements (`Ledger`) |
| `HttpClient.tla` | `send`, network policy, redirects, resolver, body caps | detailed specification |
| `Rdap.tla` | bootstrap cells, registry parsing, choice of the service | detailed specification |
| `Dns.tla` | query plan, concurrent lookups, limits, analysis, result | detailed specification |
| `Answers.tla` | one run of a collector that reads an answer, and of an analyzer of policies | detailed specification; composes the seven modules below |
| `Fields.tla` | reading one field: kept, dropped, or an issue | operators |
| `Reputation.tla` | VirusTotal and AbuseIPDB | operators |
| `Listings.tla` | URLhaus and MalwareBazaar | operators |
| `Registration.tla` | the registry's answer to an RDAP query | operators |
| `Certificates.tla` | the CT log's answer | operators |
| `Asn.tla` | Team Cymru's records and the findings about origins | operators |
| `Policies.tla` | the SPF, DMARC and CAA analyzers | operators |
| `Correlation.tla` | recording runs in any order, the rules, the report | detailed specification |
| `Addresses.tla`, `Indicators.tla` | address classes; what a text is taken for | operators of `Command` |
| `Command.tla` | invocations of the program that share a path | detailed specification |
| `MC*.tla` with `*.cfg` | instances for TLC | sets of answers, URLs, documents, scenarios, invocations |
| `EngineProofs`, `HttpClientProofs`, `RdapProofs`, `DnsProofs`, `AnswersProofs`, `CorrelationProofs`, `CommandProofs` | theorems about the module of that name | see section 5 |
| `FoldLemmas` | induction, folds and recursive functions | lemmas of the proofs |

In every module an operator whose comment starts with "Bug:" is a wrong variant of the
definition that follows it. It is not part of the specification; it shows that a
property notices that mistake.

### Engine

`pc` is where the engine's own future is: `register`, `schedule` (the loop of
`Run::schedule`, at `cursor`), `join` (`execute` awaits `join_next`), `pivot` (the loop
of `consider_pivots`, at `current`), `cancel`, `report`, and the ends `done` and
`rejected`. One step is one iteration of the loop in question: between two awaits the engine
is sequential code, but the tasks already spawned run on other worker threads, so
they may step between iterations. `tasks` holds one record per spawned task, including
joined ones, so that a property can relate a report to what a task did; no guard
reads what the code does not know at that point.

| Code | Actions |
|---|---|
| `register`, `investigate`, `Investigation::new` | `Register`, `RefuseDuplicate`, `Investigate`, `RefuseTarget` |
| `schedule`, `spawn` | `SkipCollector`, `MarkUnavailable`, `Spawn`, `EndSchedule` |
| a collector task | `Acquire`, `Request`, `RequestDenied`, `Return`, `Fail`, `FailOnBudget`, `SourceTimeout`, `Panic` |
| `complete`, `merge`, `crashed` | `CompleteOk`, `CompleteError`, `Crashed`; a success goes through `consider_pivots` before `RecordAnswer` gives it its status, as in the code |
| `consider_pivots` | `SkipPivot`, `DropPivot`, `FollowPivot` |
| the deadline, `cancel_remaining` | `DeadlinePasses`, `Elapse`, `Reap`, `DrainPending` |
| `join_next` is `None`, `record_unsupported` | `AllJoined`, `Report` |

`DeadlinePasses` is the timer; `Elapse` is the moment the engine notices it, which is only at
an await, so a completion in hand is always finished first. `Reap` is one round of the loop
that awaits aborted tasks. A task that is aborted may run to its end first.

Abstracted: what an observation, relationship or finding says (IDs and evidence
only), which error a collector returned beyond the classes `complete` tells apart,
times, texts. A collector is any sequence of requests followed by any of the collections
in `Collections`, an error, a panic, or nothing at all.

### HttpClient

One record per call of `send`: `state`, the request, the `chain` of URLs requested so
far, the addresses connected to (`peers`), the body's true `size`, the bytes buffered
(`body`) and the `result`. URLs keep what the policy and the same-origin rule read:
scheme, credentials, host (a name, an address literal or none) and port. The
resolver answers with any set of addresses the constants give a name, and another one
at each hop. The request timer runs from the first connection, not while the call waits for
a permit, as in the code. Left out: headers, hashing, which reqwest error is mapped to which
variant.

### Rdap

`cells` and `holder` are tokio's `OnceCell`s and their internal semaphore, one per family
and shared by runs of *several* investigations (`CaseOf`), each of which pays from its
own budget. `get_or_try_init` is `UseRegistry` (it is there), `Fetch` / `FetchDenied` (this
run initialises it), `Fetched` / `FetchFailed`, and `Cancel`, which drops the future with the
cell's permit. `Parse` and `ServiceFor` translate the registry reader and the longest-prefix
choice, with their limits. A second fetch may see another document. What the run makes of the
registry's answer is in `Registration`.

### Dns

`phase`, `next`, `tasks`, `outcomes` and `returned` are the locals of `resolve_all` and
the result of `collect`; `used` is the shared budget, which `OtherRequest` charges on behalf of
other collectors. `replies` records what each task came to, for the properties only.
`Build` is `build_collection`: it applies the record limits, makes observations or notes,
runs the analyzers (`Analyze`) and turns into an error when nothing was learned. A
record is its kind (`spf`, `issue`, `private`, ...) and whether it is too long. What is
inside one SPF, DMARC or CAA record is in `Policies`. Left out: relationships beyond pivots.

### Answers and the modules it composes

One behaviour is one run: a `source` is asked about an `indicator`, with or without its key.
Control is in `Answers`, what a source says and what is made of it in the other modules.

| Code | Actions |
|---|---|
| the checks at the start of each `collect` | `Refuse`, `NotConfigured`, `Denied` |
| the request | `Send`, `NoAnswer`; other runs spend the budget with `OtherRequest` |
| status, parsing and result of one answer | `Receive`, whose `Outcome` is the source's own operator |
| Cymru's loop over AS numbers | `ReceiveNegative`, `ReceiveOrigins`, `Describe`, `DescribeNegative`, `DescribeFails`, `ReturnOrigins` |
| `spf.rs`, `dmarc.rs`, `caa.rs` | `Analyze` |

A JSON value is `None` (absent or null), a number, a text of a class that the reader tells
apart (the same as the indicator, blank, of a wrong form, ...), a list or an object; an
error of the whole body is a status and a class. `Fields!Read` gives what each field reader of
the code gives: the set kept (empty or one value) and the issues. So the model has, field by
field, which values are kept, dropped, clipped or reported, in which order conditions are
tried, and which findings and confidence follow. It does not have the words of an issue
beyond its field and reason, nor the rules for text within one field (control characters,
lengths), which are "good", "too long" or "bad". Numbers are small, with the code's limits
scaled by constants; `Width` is where `i64` ends.

- `Reputation`: the VirusTotal object, its statistics and votes, `not_found`, and
  AbuseIPDB's check, with the confidence that follows from them.
- `Listings`: URLhaus host and payload lookups with the misspelt `query_staus`, MalwareBazaar's
  samples; identity of the listed object.
- `Registration`: range, CIDR prefixes, status, events, and the walk over nested entities that
  is bounded in number and depth and leaves out individuals; the network an address is said
  to be registered in. Addresses have `Bits` bits.
- `Certificates`: `parse`, `merge`, names and their classes, the newest `MaxCertificates`, the
  relationships within `MaxRelationships`.
- `Asn`: origin and description records, several origins per prefix, two findings.
- `Policies`: a record is the list of its terms or tags; the findings of each analyzer.

### Correlation

`Scenarios` are sets of completed runs (a source, what it is about, its outcome, its
observations and edges). `Complete` records one of those that are still running with the
merging of `Investigation::add_relationship`, `CutOff` is the engine's deadline, and `Finish` computes
`Correlate` of the index that `EvidenceIndex` builds: observations by ID, each edge once. What is assumed of
scenarios (`CorrelationConstants`) is what the constructors of relationships and the collectors ensure,
see section 5. The operators `InfrastructureDrafts`, `CertificateDrafts`, `ProviderDrafts` and
`SharedDrafts` are the rule modules; `Build` is `Draft::build` with its identifier, which the code
hashes from what is a tuple here. A network is the set of its addresses, so overlap and
containment are those of ranges; a registration without a range is the empty set and contradicts
nothing. A reputation has the counts that its provider gave, by name, and `Stance` decides as
`rules/providers.rs` does: `IPReputation` by the number of reports, `ProviderReputation` by the five
engine counters, of which any may be missing. A gap keeps the statuses in the order in which they are
recorded; `CutOff` records the runs that are cut off in every order. Left out: texts, and times beyond an order.

### Command

Each of `Runs` is one process: `Call`, `Refuse` or `Accept` (clap, then `parse_target` and
`ensure_investigable`), `ReadCredentials` (`Credentials::from_lookup` with the key that
MalwareBazaar borrows from URLhaus), `BuildEngine`, `Investigate`, `Render`, and then `WriteStdout` /
`FlushStdout` or `Create` / `Write` / `Sync`; each has its failure. `file` is the one path that they
share; `OthersCreate` is any other program. `Investigate` asks any set of the ready sources that support
the target, since which of them are reached before the deadline is the engine's matter.
`Addresses` has the tables of `net.rs` at their full width (octets and 16-bit segments);
`Indicators` has the preparation, the three parsers and their limits over tokenised text.

## 3. Runs

All states are explored in every run; numbers are distinct states.

| Run | Checks | Instance |
|---|---|---|
| `EngineCore` | `TypeOK`, `OneStatusPerRun`, `PermitsConserved`, `EvidenceMatchesStatuses`, `DeadlineVerdict`, `Termination` | three collectors, one pivot, two permits, a budget of three requests for runs that want up to four; 26,417 |
| `EnginePivots` | `NoRepeatedRun`, `PivotLimits`, `PivotsAreReported`, `EveryApplicableRuns`, `EverySourceAccounted`, `ClaimsAreBacked`, `OwnClaimsAreKept`, `ImplementsLedger` | depth two, two entities for five candidates, six lists of registrations (one with a duplicate, one empty), a source without a key, a private target, edges and evidence shared by runs, `max_concurrent_sources` 0 (one permit); 95,021 |
| `HttpOneCall` | `DestinationsAllowed`, `SecretsStayOnOrigin`, `BodiesWithinLimit`, `RefusalsAreJustified` | one call, every kind of URL at every hop, three redirects, bodies of 0 to 4 under caps of 1, 2 and 3; 16,044 |
| `HttpPermits` | `PermitsConserved`, `EveryCallEnds` | three calls, two permits; 164,647 |
| `Rdap` | `OneFetchAtATime`, `DenialsAreOwn`, `MostSpecificService`, `EveryRunEnds` | four runs, two investigations with two requests each, two families, three documents; 28,836 |
| `Dns` | `FailuresAreNoted`, `UnknownIsNotAbsent`, `EvidenceIsObserved`, `CollectEnds` | four queries, four requests of which others take any number, two records kept; 142,228 |
| `Answers` | `NothingVanishes`, `ClaimsAreEarned`, `LogIsAccounted`, `OriginsAreExplained`, `PolicyIsWhatReceiversApply` | ten sources and analyzers, answers that are good but for one or two places, three requests; 83,760 |
| `Correlation` | `OrderIsIrrelevant`, `DisagreementsAreReal`, `NothingIsLostUnsaid` | a domain with two addresses; every order of two to four runs, cut off at any point; 11,120 |
| `Command` | `ExitCodesAreTrue`, `OnlyPublicTargetsAreSent`, `KeysGoToTheirProviders`, `NothingIsOverwritten` | two runs and another program at one path; both ends and both neighbours of every assigned range; 77,559 |
| `EngineBudgetDoc`, `DnsSpfDoc`, `CorrelationOrderDoc` | statements of the documentation that the code does not keep | see section 6 |

What the new families of properties say:

- `NothingVanishes`: what a provider said in one of the fields of `Said` and the collector did not keep is
  named by an issue, and the answer is then marked incomplete with a lower confidence. `Said`
  lists the fields for each source; of a registration they are ten, without its events,
  entities and cards, of which the code passes over some in silence (section 6).
- `ClaimsAreEarned` compares each conclusion ("no detections", "no reports", "listed", "registered in", "no
  certificates", "not announced", "several origins") with the answer itself and not with what was
  parsed of it. Its two exceptions are what the code does and are written into the formula: a log whose list has no
  readable object is found to have no certificates, and then invalid records are told with it; and an
  individual whose card gives its kind after the properties that are read is reported.
- `LogIsAccounted` relates every entry of the log, with the lines of its names as they were sent, to the kept
  certificates through merging, sorting and all caps. A certificate that is left out is told by "truncated" and is not
  newer than a kept one; a name among the first lines is kept or told by "truncated"; lines beyond the cap
  are told by an "invalid record" that cites the certificate. For a further entry of the same certificate the code
  tells nothing of such lines, and the property says so.
- `OriginsAreExplained` relates the end of Cymru's loop to each of its steps.
- `PolicyIsWhatReceiversApply` evaluates SPF from left to right, DMARC tags as unique, and CAA per
  authority, and compares the findings with that reference.
- `OrderIsIrrelevant` recomputes the report from the *sets* of what the completed runs observed and related,
  in no order, and compares all of it but the order of the sources inside one gap;
  `StatusOrderIsIrrelevant`, with that order, is violated (section 6).
- `DisagreementsAreReal` is an equivalence over what the providers *answered*: a disagreement is reported where, and
  only where, two answers contradict each other by the table of `docs/CORRELATION.md`, read from the counts
  (`SaysBad`, `SaysNotBad`, `HasNoRecord`) and not from the model's `Stance`; each answer that a conflict cites
  is listed as what it says.
- `NothingIsLostUnsaid`: no draft is rejected or taken for another; certificates are missing from a correlation exactly when
  its limitations say so, for the target's certificates as for those of other names; the largest groups are the
  ones kept; and an address has a gap exactly for what no run related, with the outcomes
  of the runs that failed.
- `OnlyPublicTargetsAreSent` compares the ordered `match` of `net.rs` with the registries read by
  longest prefix; `NothingIsOverwritten` is about every step of two runs and of others.

Every property comment says in words what it states and what it is about.

Why the bounds are enough. The engine's decisions compare two runs at a time: a second run for
an order, a third so that one waits for a permit, a pivot so that a completion spawns, a
second level so that a pivot's pivot meets the depth limit and a cycle closes. Budgets and
entity limits are set below what the runs want, so that they bite in the middle. The HTTP
policy looks at one hop and the origin of the first: URLs differ from the request's in one thing
each, and three redirects reach the hop limit. Bodies are counted in units on both sides of
each cap. In `Rdap` three runs compete for one cell, one fetching and two waiting; in `Dns` the
analysis of a query never looks at more than the kinds of its kept records, and two
kept records separate one policy from several and the kept from the surplus.

In `Answers` a reader looks at one field, and a conclusion at two (a count and a total, a
range's two ends, an identity and a status), so answers are a good one changed in one or two
places, with every class of value at each; lists are one longer than their cap, so that the cap cuts.
Logs have up to three entries, of which any may be the same certificate, and one log has more than are
examined; two certificates are kept. A
budget of three requests, of which others take any number, ends Cymru's loop before, in and after
its two lookups. In `Correlation` three origins and prefixes, three claims by two or three providers
and three certificates are enough for each conflict to be there, absent, or between a pair of
which one is unclear, with VirusTotal's counters complete, one missing, or all nothing; caps are two links, two links per name and one group. In `Command` a
boundary of a range has an address on each side; two writers and a third
that only takes the path cover every order of creating and failing. Model
bounds that the code does not have: `DepthCap` (3 for 255), the sets of answers, and that
`RequestsOf` limits the requests of one run.
In `Command` a report is written in two parts.

## 4. Fairness

- `Engine.FairSpec`: the engine's future advances whenever it can (`Sequential`), and
  receives tasks that have ended (`Join`, `Reap`): tokio polls a woken future. No collector
  need ever return. `Termination` then relies on either kind of timer *alone*:
  the source timers, with the tasks that wait for a permit of tokio's fair semaphore
  (`SourceTimers`), or the investigation's deadline. So neither a deadline that never comes nor a
  collector that is never timed out keeps an investigation from ending.
- `HttpClient.FairSpec`: the fair semaphore hands out permits, and each call's request timer
  (reqwest's `timeout`) fires. No server need answer.
- `Rdap.FairSpec`: a run advances when it can, and the request it has made ends, as
  `EveryCallEnds` of the HTTP client says. No run need be cancelled.
- `Dns.FairSpec`: the collector is polled, and each lookup ends, because `QUERY_TIMEOUT` wraps
  each of them.

`Answers`, `Correlation` and `Command` state no fairness and no liveness: that a request ends and that
a run ends is said by `HttpClient` and `Engine`, and what happens in between is sequential.

All are weak fairness. The timers bound code that awaits: a collector that spun without an await
could not be timed out, in the model's terms it would not be a task of this system.

## 5. Proofs

`tlapm` checks these for every value of the constants that satisfies the modules'
assumptions, so for any number of runs, calls, sources, answers and limits. Every safety property
and every action property of the passing runs is stated by one of them.

| Theorem | States |
|---|---|
| `EngineProofs!Invariance` | `RunInvariant`, the inductive invariant of the bookkeeping |
| `EngineProofs!TypeCorrect` | `TypeOK`; in particular the request budget is never exceeded |
| `EngineProofs!EveryRunHasOneStatus`, `NoRunIsRepeated` | `OneStatusPerRun`, `NoRepeatedRun` |
| `EngineProofs!LedgerInvariance`, `TasksAreTracked` | `LedgerInvariant`, `TrackedIffUnjoined` |
| `EngineProofs!LedgerRefinement` | `ImplementsLedger`: the engine implements `SourceLedger` |
| `EngineProofs!PermitsAreConserved` | `PermitsConserved` |
| `EngineProofs!EvidenceIsOfAnswers`, `ClaimsAlwaysBacked`, `OwnClaimsAlwaysKept` | `EvidenceMatchesStatuses`, `ClaimsAreBacked`, `OwnClaimsAreKept` |
| `EngineProofs!PivotsWithinLimits`, `PivotsAlwaysReported` | `PivotLimits`, `PivotsAreReported` |
| `EngineProofs!EveryApplicableSourceRuns`, `SourcesAreAccounted` | `EveryApplicableRuns`, `EverySourceAccounted` |
| `EngineProofs!DeadlineFlagIsTrue` | `DeadlineVerdict` |
| `HttpClientProofs!PolicyHolds`, `SecretsHold`, `DestinationsHold` | `PolicyInvariant`, `SecretsStayOnOrigin`, `DestinationsAllowed` |
| `HttpClientProofs!BodiesHold`, `RefusalsHold` | `BodiesWithinLimit`, `RefusalsAreJustified` |
| `HttpClientProofs!PermitsHold`, `TypesHold` | `PermitsConserved`, `TypeOK` |
| `RdapProofs!SharingHolds`, `DenialsHold`, `RegistryHolds` | `OneFetchAtATime`, `DenialsAreOwn`, `RegistryIsFinal` |
| `RdapProofs!ServicesAreMostSpecific`, `TypesHold` | `MostSpecificService`, `TypeOK` |
| `DnsProofs!FailuresHaveNotes`, `EvidenceHolds`, `UnknownHolds`, `TypesHold` | `FailuresAreNoted`, `EvidenceIsObserved`, `UnknownIsNotAbsent`, `TypeOK` |
| `AnswersProofs!OriginsHold`, `PoliciesHold` | `OriginsAreExplained`, `PolicyIsWhatReceiversApply` |
| `AnswersProofs!NothingIsLost`, `ClaimsHold`, `NothingLoggedIsLost` | `NothingVanishes`, `ClaimsAreEarned`, `LogIsAccounted` |
| `CorrelationProofs!DisagreementsHold`, `NothingIsLost`, `OrderHolds` | `DisagreementsAreReal`, `NothingIsLostUnsaid`, `OrderIsIrrelevant` |
| `CommandProofs!ExitCodesHold`, `FilesAreNotOverwritten` | `ExitCodesAreTrue`, `NothingIsOverwritten` |
| `CommandProofs!KeysStayWithTheirProviders`, `TheGateHolds`, `OnlyPublicTargetsLeave` | `KeysGoToTheirProviders`, `OnlyInvestigableIsSent`, `OnlyPublicTargetsAreSent` |

`TrackedIffUnjoined`, `RegistryIsFinal`, `OnlyInvestigableIsSent` and the type invariants of the
client, RDAP and DNS are proved and in no configuration.

### What is assumed

Each module names the assumptions on its constants. Those of `Engine`, `HttpClient`, `Rdap` and `Dns`
say what kind of thing a constant is. The others say in addition:

- `CommandConstants`: a variable that is set has a size and a form, a target is raw text that is one
  of the classes of `Indicators` with an address where it is one.
- `AnswersConstants`: an analyzer is handed a sequence of records; `"stranger"` is an authority no record
  names; `WellFormed` and `IsLog` say that what the model writes as a list or a number of a JSON
  document is one. They restrict no answer that a provider could give: what is of another JSON type is
  another value, and the properties are about these too.
- `RegistrationConstants`: the nesting limit is not 0 (it is 4 in the code).
- `CorrelationConstants`: what a run has found is a collection, that is, its relationships are typed
  as `RelationKind::allows` says, cite something (`Relationship::new`), and cite observations of that
  run, as every registered collector does (`HasIDs`, `IsRun`); two runs share no observation ID, which
  are random, and no edge (`Apart`): each kind of relationship is issued by one collector, about the
  indicator of its run or about certificates of the target. If two runs did record one edge, the order of
  its evidence would follow the order of completion. Names have distinct ranks, as strings have an order.

### The arguments

*Engine.* `OneStatusPerRun` is not inductive: a completion appends a status to a run, which
is right only if no other task has the same run. That no task is repeated needs that an
indicator is scheduled once (it enters `visited` first) and that, while it is scheduled,
only collectors *before* the cursor have a task for it (`CursorAhead`), which in turn
needs that registered sources are distinct (`RegistryDistinct`). Statuses without a
task come from unready sources or the end (`StatusesAreJustified`). Together with
`ControlOK` (a completion is in hand exactly while its handler is on the stack) these
are `RunInvariant`; everything else about the engine is proved relative to it:

- *Refinement.* A run is `open` in the ledger while its task is pending or in hand; the ledger's
  verdicts are the engine's statuses; it is closed at `done`. `Spawn` maps to `Open`, a
  completion or crash to `Decide`, `MarkUnavailable` to `Refuse`, `DrainPending` to `CutAll`,
  `Report` to `Close`, every other step to a stutter. It needs that no run is open at the
  report and that a source with a status was considered.
- *Permits.* Each step is classed by its effect on the set of running tasks and on the counter.
- *Evidence.* `EvidenceInvariant` adds that a task that was not joined is pending
  (`UnjoinedArePending`): so a merged collection is that of a run which gets the status "answered"
  and of no other, and a later merge only adds to the evidence of an edge.
- *Pivots.* `LimitsInvariant` adds that the target is visited from the start and that a schedule in
  progress is within the depth. `PivotInvariant` adds that the candidates being examined, and the
  one being scheduled, were named by the run in hand (`CandidatesAreReported`).
- *Sources.* `SpawnedSoFar`: while an indicator is scheduled, the ready sources before the cursor that
  apply have a task. `OneUnavailable` and `ConsideredRan` say what is recorded of a source that is
  not ready, and of one that was considered.
- *Deadline.* `DeadlineInvariant`: what is still pending when the deadline is noticed is cut off there,
  and before that no run has that status.

*HttpClient.* Each step touches one call, so the policy is proved call by call (`CallByCall`, `CallOK`):
the chain starts with the admitted URL and grows only by followable ones, and an address is
connected to only when it was resolved and allowed. `BodyOK` says of each call that it has no
result before its end, that nothing is buffered before a response, and what a delivered or refused body
is. For permits, every step is classed by its effect on the holders and on the counter.

*Rdap.* Every step leaves the cells alone, takes a free one or gives it back; a request is
charged to the run's own investigation (`SharingInvariant`). `RegistryInvariant` says that what is in a
cell is a parsed document, that a run which is ready has a full cell, and that what a run asks
is by that cell; as a registry is never replaced, that stays true. That `ServiceFor` gives the last of
the longest covering entries, and `Parse` the entries of the places that count, is by induction over their folds.

*Dns.* `CollectInvariant` says where each query is (unissued, asking, joined or denied) and that
its outcome is the one of its reply; once `collect` has returned nothing in `Build`
changes (`BuildStable`). What a finding is about tells which query it is concluded from (`ConcludedFrom`),
and a query that is concluded from has not failed.

*Answers.* `CymruInvariant`: each AS number of an origin is to be looked up, looked up, absent or
noted (`OriginsAccountedFor`). `AnalyzerInvariant` and `ReaderInvariant` say that what is returned is
made from the answer by the source's own operator; the rest is about these operators.

- Policies: a receiver's evaluation of an SPF record, a recursion over its terms, stops where the
  analyzer finds its policy; DMARC is compared tag by tag, CAA authority by authority.
- Readers: an issue is a field, its reason and where it is, and each reader gives either a value or an issue for
  what is there, so what is missing from the result of a whole answer is among its issues, through
  the lists with their caps and the walk over nested entities. In the proof it turned out that an
  individual's card is recognised only as far as the card is read, so this is an exception in
  `ClaimsAreEarned`.
- Conclusions: "no certificates" follows from an answer that is a list, and from an empty one, one without an object or
  one that was cut; "not announced" from the negative answer only, as `CymruInvariant` keeps with
  each origin the place in the answer that it was read from.
- The log: the fold that merges entries keeps that each certificate has the first of its entries
  and that each entry is in one with the names of its first lines unless names were dropped; sorting by
  rank gives a permutation in order; a bound that cuts leaves a "truncated" behind, and a bound on lines that
  cuts a first entry an issue of its certificate.

*Correlation.* `CorrelationInvariant`: the runs are collections and apart, and what is recorded is exactly
what the completed runs have found: their observations, their edges and one entry per run
(`IsRecordOf`, `IsInvestigation`); a report is that of the index. From there:

- `DisagreementsHold`: the stance of a claim is what the answer says by its counts, so a draft about
  providers is made exactly when two answers contradict each other, and one about origins when an observation lacks one;
  it reaches the report because every draft is backed by recorded observations.
- `NothingIsLost`: the identifier of a draft determines it, as it has its kind, its entities by type
  and its evidence; each order of drafts and groups is strict, so `Sorted` is a permutation, and what a cap
  leaves out is not greater than what it keeps, and counted. The links that a draft lists
  are the covers of its names, or a limitation is set; the gaps are computed from the same edges that the runs related.
- `OrderHolds`: the index of a record of runs, and that of the sets of what they found, have the same
  observations and the same edges once each, and the same failed statuses as a set; no rule reads more of the index
  than that, except the order in which a gap gives its statuses.

*Command.* `ExitInvariant` says for each phase what was decided before it, and whose the file is; the file
grows only at the hand of the run whose report it has. `KeysInvariant` says which keys are at hand in
each phase and that a target has passed the gate before anything is configured. For `OnlyPublicTargetsLeave`
the arms of `classify_v4` and `classify_v6` are taken in order: the first that
matches agrees with the longest prefix of the registries that holds the address, entry by entry.

### Folds

The provers cannot instantiate the library's induction theorems, whose parameter is an operator.
`FoldLemmas` therefore derives induction from the well-foundedness of `<`, with a property of numbers
as the set of those that have it and a step of a recursion as a function, and concludes that recursive
functions, and with them the folds of the community modules, are what their definitions say. So the
statements about parsed documents, merged certificates, recorded edges and the rest hold for lists of any
length.

### Only model-checked

Liveness: `Termination`, `EveryCallEnds`, `EveryRunEnds` and `CollectEnds` need the fairness of section 4 and
`ENABLED`, which the prover does not handle. That the three documentation runs are violated is
TLC's counterexample.

## 6. Where the code and its documentation disagree

- `EngineBudgetDoc`: a run is reported `budget_exhausted`, documented as "did not run", when it
  has in fact made a request (RDAP: the bootstrap registry, then the query is denied).
- `DnsSpfDoc`: `dns.spf.missing` is documented as "No TXT record starting with `v=spf1`", and
  is reported when the SPF record lies beyond the 32 records that are kept.
- `CorrelationOrderDoc`: correlation is documented as "Deterministic. Ordered indexes, sorted output"
  (`correlation/src/lib.rs:22`, `docs/CORRELATION.md:86`). The text of a gap joins the sources that failed in the
  order in which their statuses were recorded (`index.rs:159`, `rules/mod.rs:93`), which is that of completion and,
  for runs that are cut off, of a `HashMap`. The test `insertion_order_does_not_change_the_result` records
  no status.

Others, met while modelling, that no run shows:

- `pivots_dropped` counts candidates beyond `MAX_PIVOT_CANDIDATES` per mention, not per
  distinct indicator (`engine/mod.rs:502`), and a `TargetOnly` source is reported
  `unsupported` although a pivot it supports was enriched (`engine/mod.rs:304`). No registered
  collector can bring about either today.
- DNS: findings are documented to cite observations (`docs/FINDINGS.md:35`); when every record of an
  answer is dropped for its length, `dns.records.limit_exceeded` and others cite none (`sources/dns.rs:398`).
- CT: when two entries of one certificate are merged, the issues of the second are lost, whereas
  `docs/FINDINGS.md:147` says malformed entries are reported; a log of entries of which none is an
  object gives `ct.no_certificates`, documented for "an empty list" (`docs/FINDINGS.md:141`), beside `ct.invalid_records`.
- CT: `docs/DATA-SOURCES.md:103` says of the limits, 200 name lines per entry among them, that "Every cut is reported by
  `ct.results_truncated`", and `docs/FINDINGS.md:148` lists what is cut there. Lines that are cut (`ct/parse.rs:113`) are reported
  by `ct.invalid_records`, and not at all for a further entry of a certificate (`ct/mod.rs:235`).
- AbuseIPDB: "incomplete" is explained as fields "left empty", and is also found for an answer about
  a different address, whose fields are kept
  (`sources/abuseipdb/mod.rs:324`).
- Cymru: a description with another AS number keeps its name and is only noted, although invalid
  fields are said to be left empty (`docs/FINDINGS.md:118`).
- VirusTotal: the reputation is bounded through `abs()`, which has no value for the least `i64`
  (`virustotal/parse.rs:285`).
- RDAP: the header of `rdap/parse.rs` says that what has the wrong type or is in excess is recorded as an
  issue; `entities` or `vcardArray` of another type, events beyond the cap and entities
  below the depth limit are passed over. Individuals are documented as not collected
  (`docs/DATA-SOURCES.md:60`); one whose card has its `kind` after the properties that are
  examined (`rdap/parse.rs:321`) is reported.
- Command line: an `--output` that fails half-way leaves the file, so the same command is then
  refused because the path exists; a MalwareBazaar key that is set but unusable does not fall back to
  the shared one, which `KeysGoToTheirProviders` states as intended.
- `Engine::investigate` checks the target again; after `parse_target` this never refuses.

## 7. Not modelled

- Rendering (`report/`): layout of a table and serialisation to JSON, without state or decisions
  that the properties here could be about. That rendering to JSON may fail is an action of `Command`.
- Characters: the rules of URL indicators, refanging, IDNA, the text rules within one field, and
  hickory's conversion of DNS records are classes of values in the models, not computations.
- Timestamps, identifiers, digests and serialisation of the investigation: an identifier is the
  tuple it is derived from.
- Headers and the mapping of reqwest's errors to variants in the HTTP client.
- The composition of the engine with each collector's own steps: a collector in `Engine` is any
  sequence of requests followed by any result, which is more than any of them does.

## 8. Plan

Done: every module of section 2, and a theorem for every safety and action property that a run checks.

What would come next is the engine with the DNS and RDAP collectors on one budget and one HTTP client, so
that a source timeout is the `Drop` and `Cancel` of the collector modules, which would show that their
environment assumptions are what the engine does; and the rendering of a report, if it comes to
decide anything.
