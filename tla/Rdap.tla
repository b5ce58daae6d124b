-------------------------------- MODULE Rdap --------------------------------
(***************************************************************************)
(* The RDAP collector (crates/collectors/src/sources/rdap): concurrent     *)
(* runs, of one investigation or of several, share one bootstrap registry  *)
(* per address family.  It sits in a tokio OnceCell: the run that holds    *)
(* the cell's semaphore fetches the registry, at its own investigation's   *)
(* expense; when it fails or is cancelled the next run in line tries.      *)
(*                                                                         *)
(* A registry document is a sequence of services; how JSON is read, and    *)
(* what is read from the answer of a registry, is left out.                *)
(***************************************************************************)
EXTENDS Integers, Sequences, FiniteSets, SequencesExt

CONSTANTS
  Runs,         \* collect futures
  Families,     \* address families, one registry file each
  FamilyOf,     \* FamilyOf[r]: the family of the address of run r
  AddressOf,    \* AddressOf[r]: the address itself
  CaseOf,       \* CaseOf[r]: the investigation that run r belongs to
  Cases,        \* investigations
  Blocks,       \* address prefixes
  Covers,       \* Covers[p]: the addresses in prefix p
  PrefixLength, \* PrefixLength[p]
  URLs,         \* base URLs of services
  Acceptable,   \* the ones that is_acceptable_base accepts
  Documents,    \* the registry documents the server may return
  MaxRequests,  \* the request budget of each investigation
  MaxServices,  \* MAX_SERVICES
  MaxPrefixes,  \* MAX_PREFIXES_PER_SERVICE
  MaxURLs,      \* MAX_URLS_PER_SERVICE
  None          \* Option::None

Service == [prefixes : Seq(Blocks), urls : Seq(URLs)]
Entry == [prefix : Blocks, url : URLs]

ASSUME RdapConstants ==
  /\ FamilyOf \in [Runs -> Families]
  /\ CaseOf \in [Runs -> Cases]
  /\ Covers \in [Blocks -> SUBSET {AddressOf[r] : r \in Runs}]
  /\ PrefixLength \in [Blocks -> Nat]
  /\ Acceptable \subseteq URLs
  /\ Documents \subseteq Seq(Service)
  /\ MaxRequests \in Nat /\ MaxServices \in Nat
  /\ MaxPrefixes \in Nat /\ MaxURLs \in Nat
  /\ None \notin Runs \cup URLs \cup Entry \cup Seq(Entry)

VARIABLES
  cells,  \* RdapCollector.ipv4 and .ipv6: the parsed registry, or None
  holder, \* the run that has each cell's semaphore, or None
  used,   \* RequestBudget.used of each investigation
  state,  \* where each run is
  result, \* what each run has come to
  asked   \* the service each run asks, or None

vars == <<cells, holder, used, state, result, asked>>

-----------------------------------------------------------------------------
(* Bootstrap::parse and Bootstrap::service_for *)

Take(s, n) == SubSeq(s, 1, IF Len(s) < n THEN Len(s) ELSE n)

(* The provers know folds, but not SelectSeq. *)
AcceptableOf(urls) ==
  FoldLeft(LAMBDA kept, url : IF url \in Acceptable THEN Append(kept, url) ELSE kept,
           <<>>, urls)

KeptURLs(service) == Take(AcceptableOf(service.urls), MaxURLs)

(* Of the URLs of an entry only the first is ever used. *)
EntriesOf(service) ==
  IF KeptURLs(service) = <<>> THEN <<>>
  ELSE LET kept == Take(service.prefixes, MaxPrefixes) IN
       [k \in DOMAIN kept |->
          [prefix |-> kept[k], url |-> KeptURLs(service)[1]]]

Parse(document) ==
  LET services == Take(document, MaxServices) IN
  FlattenSeq([k \in DOMAIN services |-> EntriesOf(services[k])])

(* Bug: the first covering entry wins. *)
FirstService(entries, address) ==
  FoldLeft(LAMBDA best, e :
             IF address \in Covers[e.prefix] /\ best = None THEN e ELSE best,
           None, entries)

(* max_by_key over the covering entries: the last of the longest. *)
ServiceFor(entries, address) ==
  FoldLeft(LAMBDA best, e :
             IF /\ address \in Covers[e.prefix]
                /\ \/ best = None
                   \/ PrefixLength[best.prefix] <= PrefixLength[e.prefix]
             THEN e ELSE best,
           None, entries)

-----------------------------------------------------------------------------
Cell(r) == cells[FamilyOf[r]]
Holder(r) == holder[FamilyOf[r]]

Init ==
  /\ cells = [f \in Families |-> None]
  /\ holder = [f \in Families |-> None]
  /\ used = [c \in Cases |-> 0]
  /\ state = [r \in Runs |-> "unborn"]
  /\ result = [r \in Runs |-> "none"]
  /\ asked = [r \in Runs |-> None]

BudgetLeft(r) == used[CaseOf[r]] < MaxRequests
Charge(r) == used' = [used EXCEPT ![CaseOf[r]] = @ + 1]

Goto(r, s) == state' = [state EXCEPT ![r] = s]

End(r, what) == Goto(r, "over") /\ result' = [result EXCEPT ![r] = what]

Release(r) == holder' = [holder EXCEPT ![FamilyOf[r]] = None]

(* collect begins; get_or_try_init is called. *)
Start(r) ==
  /\ state[r] = "unborn"
  /\ Goto(r, "waiting")
  /\ UNCHANGED <<cells, holder, used, result, asked>>

(* The cell is full: at once, or when the wait for its semaphore ends.     *)
UseRegistry(r) ==
  /\ state[r] = "waiting"
  /\ Cell(r) # None
  /\ Goto(r, "ready")
  /\ UNCHANGED <<cells, holder, used, result, asked>>

(* Bug: the cell is checked, and its semaphore not awaited. *)
FetchAtOnce(r) ==
  /\ state[r] = "waiting"
  /\ Cell(r) = None
  /\ BudgetLeft(r)
  /\ Charge(r)
  /\ holder' = [holder EXCEPT ![FamilyOf[r]] = r]
  /\ Goto(r, "fetching")
  /\ UNCHANGED <<cells, result, asked>>

(* The cell is empty and this run is the next to try: ctx.send.            *)
Fetch(r) ==
  /\ state[r] = "waiting"
  /\ Cell(r) = None
  /\ Holder(r) = None
  /\ BudgetLeft(r)
  /\ Charge(r)
  /\ holder' = [holder EXCEPT ![FamilyOf[r]] = r]
  /\ Goto(r, "fetching")
  /\ UNCHANGED <<cells, result, asked>>

(* Bug: the failure is shared with the runs that wait for the cell. *)
DeniedForAll(r) ==
  /\ state[r] = "waiting"
  /\ Cell(r) = None
  /\ Holder(r) = None
  /\ ~BudgetLeft(r)
  /\ LET denied == {q \in Runs : /\ state[q] = "waiting"
                                 /\ FamilyOf[q] = FamilyOf[r]}
     IN /\ state' = [q \in Runs |-> IF q \in denied THEN "over" ELSE state[q]]
        /\ result' = [q \in Runs |-> IF q \in denied THEN "budget"
                                     ELSE result[q]]
  /\ UNCHANGED <<cells, holder, used, asked>>

FetchDenied(r) ==
  /\ state[r] = "waiting"
  /\ Cell(r) = None
  /\ Holder(r) = None
  /\ ~BudgetLeft(r)
  /\ End(r, "budget")
  /\ UNCHANGED <<cells, holder, used, asked>>

Fetched(r) ==
  /\ state[r] = "fetching"
  /\ \E document \in Documents :
       /\ Parse(document) # <<>>
       /\ cells' = [cells EXCEPT ![FamilyOf[r]] = Parse(document)]
  /\ Release(r)
  /\ Goto(r, "ready")
  /\ UNCHANGED <<used, result, asked>>

(* An HTTP error, another status, or a document without a usable entry.    *)
FetchFailed(r) ==
  /\ state[r] = "fetching"
  /\ Release(r)
  /\ End(r, "failed")
  /\ UNCHANGED <<cells, used, asked>>

NoService(r) ==
  /\ state[r] = "ready"
  /\ ServiceFor(Cell(r), AddressOf[r]) = None
  /\ End(r, "failed")
  /\ UNCHANGED <<cells, holder, used, asked>>

Query(r) ==
  /\ state[r] = "ready"
  /\ LET entry == ServiceFor(Cell(r), AddressOf[r]) IN
       /\ entry # None
       /\ asked' = [asked EXCEPT ![r] = entry.url]
  /\ BudgetLeft(r)
  /\ Charge(r)
  /\ Goto(r, "querying")
  /\ UNCHANGED <<cells, holder, result>>

QueryDenied(r) ==
  /\ state[r] = "ready"
  /\ ServiceFor(Cell(r), AddressOf[r]) # None
  /\ ~BudgetLeft(r)
  /\ End(r, "budget")
  /\ UNCHANGED <<cells, holder, used, asked>>

(* The registry answers 200 and the answer can be read, or not. *)
Answered(r) ==
  /\ state[r] = "querying"
  /\ \E what \in {"ok", "failed"} : End(r, what)
  /\ UNCHANGED <<cells, holder, used, asked>>

(* Bug: the semaphore of the cell is not given back. *)
CancelAndHold(r) ==
  /\ state[r] \notin {"unborn", "over"}
  /\ End(r, "cancelled")
  /\ UNCHANGED <<cells, used, asked, holder>>

(* A source timeout, or an abort, drops the future wherever it is: with it *)
(* the permit of the cell's semaphore.                                     *)
Cancel(r) ==
  /\ state[r] \notin {"unborn", "over"}
  /\ End(r, "cancelled")
  /\ IF Holder(r) = r THEN Release(r) ELSE UNCHANGED holder
  /\ UNCHANGED <<cells, used, asked>>

Over == (\A r \in Runs : state[r] = "over") /\ UNCHANGED vars

Advance(r) ==
  \/ UseRegistry(r)
  \/ Fetch(r)
  \/ FetchDenied(r)
  \/ NoService(r)
  \/ Query(r)
  \/ QueryDenied(r)

Network(r) == Fetched(r) \/ FetchFailed(r) \/ Answered(r)

Next ==
  \/ \E r \in Runs : Start(r) \/ Advance(r) \/ Network(r) \/ Cancel(r)
  \/ Over

Spec == Init /\ [][Next]_vars

(* A run advances when it can, and the HTTP client ends every request; no  *)
(* run need be cancelled.                                                  *)
FairSpec ==
  Spec /\ \A r \in Runs : WF_vars(Advance(r)) /\ WF_vars(Network(r))

-----------------------------------------------------------------------------
(* Properties *)

(* The type invariant. *)
TypeOK ==
  /\ cells \in [Families -> Seq(Entry) \cup {None}]
  /\ holder \in [Families -> Runs \cup {None}]
  /\ used \in [Cases -> 0..MaxRequests]
  /\ state \in [Runs -> {"unborn", "waiting", "fetching", "ready",
                         "querying", "over"}]
  /\ result \in [Runs -> {"none", "ok", "failed", "budget", "cancelled"}]
  /\ asked \in [Runs -> URLs \cup {None}]

(* "Concurrent investigations wait for one fetch": a family's registry is  *)
(* fetched by one run at a time, the one that holds the cell, and never    *)
(* once the cell is full.                                                  *)
OneFetchAtATime ==
  \A r \in Runs :
    /\ state[r] = "fetching" <=> Holder(r) = r
    /\ Holder(r) = r => Cell(r) = None

(* A run is told that the budget is used up only if its own investigation  *)
(* has used it up, whichever investigation paid for a registry it awaited. *)
DenialsAreOwn ==
  \A r \in Runs :
    result[r] = "budget" => used[CaseOf[r]] = MaxRequests

(* The places of document d that count: within the limits, and of a        *)
(* service with an acceptable URL.                                         *)
Listed(d) ==
  {place \in (1..MaxServices) \X (1..MaxPrefixes) :
     /\ place[1] \in DOMAIN d
     /\ place[2] \in DOMAIN d[place[1]].prefixes
     /\ ToSet(d[place[1]].urls) \cap Acceptable # {}}

FirstAcceptable(urls, url) ==
  \E u \in DOMAIN urls :
    /\ urls[u] = url /\ url \in Acceptable
    /\ \A v \in 1..(u - 1) : urls[v] \notin Acceptable

(* "The most specific HTTPS service covering the IP", where documents list *)
(* the prefixes in any order and with unusable URLs: what a run asks is    *)
(* the first acceptable URL at a covering place of greatest length.        *)
MostSpecificService ==
  \A r \in Runs : asked[r] # None =>
    \E d \in Documents :
      /\ Parse(d) = Cell(r)
      /\ \E at \in Listed(d) :
           LET prefix(place) == d[place[1]].prefixes[place[2]]
               covering(place) == AddressOf[r] \in Covers[prefix(place)]
           IN /\ covering(at)
              /\ FirstAcceptable(d[at[1]].urls, asked[r])
              /\ \A place \in Listed(d) : covering(place) =>
                   PrefixLength[prefix(place)] <= PrefixLength[prefix(at)]

(* "Fetched at most once": a registry that was fetched is never replaced,  *)
(* so that all runs of the process ask by the same one.                    *)
RegistryIsFinal ==
  [][\A f \in Families : cells[f] # None => cells'[f] = cells[f]]_vars

(* No run waits for ever, even if the one it waits for is cancelled.       *)
EveryRunEnds ==
  \A r \in Runs : state[r] = "waiting" ~> state[r] = "over"
=============================================================================
