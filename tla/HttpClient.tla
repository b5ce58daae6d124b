---------------------------- MODULE HttpClient ----------------------------
(***************************************************************************)
(* The shared HTTP client (crates/collectors/src/http): concurrent calls   *)
(* of HttpClient::send, the permits they share, the network policy at its  *)
(* three points (before sending, on redirects, at name resolution), the    *)
(* cap on the body and the ways a call can end, cancellation by its caller *)
(* included.  What the servers, the name server and reqwest may do is      *)
(* nondeterministic.                                                       *)
(*                                                                         *)
(* A URL is reduced to what the policy looks at.  Which rule of the policy *)
(* a URL breaks first is not modelled: every one gives HttpError::Blocked. *)
(***************************************************************************)
EXTENDS Integers, Sequences, FiniteSets

CONSTANTS
  Calls,         \* calls of HttpClient::send
  Names,         \* host names
  Addresses,     \* IP addresses
  Public,        \* the globally routable ones among them
  None,          \* Option::None: no host, no cap, no request yet
  URLs,          \* the URLs that requests and redirects name
  Requests,      \* the requests collectors may send
  Resolutions,   \* Resolutions[n]: the answers the name server may give for n
  Sizes,         \* sizes a body may have
  MaxConcurrent, \* HttpConfig.max_concurrent_requests
  MaxRedirects,  \* MAX_REDIRECTS
  DefaultCap,    \* HttpConfig.max_body_bytes
  Ceiling        \* HttpConfig::MAX_BODY_BYTES_CEILING

URL == [scheme : {"https", "http"}, credentials : BOOLEAN,
        host : Names \cup Addresses \cup {None}, port : Nat]

(* `cap` is max_body_bytes. *)
Request == [url : URL, secret : BOOLEAN, cap : Nat \cup {None}]

ASSUME HttpConstants ==
  /\ IsFiniteSet(Calls)
  /\ Names \cap Addresses = {}
  /\ None \notin Names \cup Addresses \cup Nat \cup Request
  /\ Public \subseteq Addresses
  /\ URLs \subseteq URL
  /\ Requests \subseteq Request
  /\ Resolutions \in [Names -> SUBSET (SUBSET Addresses)]
  /\ Sizes \subseteq Nat
  /\ MaxConcurrent \in Nat
  /\ MaxRedirects \in Nat
  /\ DefaultCap \in Nat
  /\ Ceiling \in Nat

VARIABLES
  permits, \* available permits of HttpClient.permits
  calls    \* what has become of each call

vars == <<permits, calls>>

-----------------------------------------------------------------------------
Capacity == IF MaxConcurrent = 0 THEN 1 ELSE MaxConcurrent

(* NetworkPolicy::check_url; names are checked when they are resolved. *)
Admissible(u) ==
  /\ ~u.credentials
  /\ u.host # None
  /\ u.host \in Addresses => u.host \in Public
  /\ u.scheme = "https"

SameOrigin(u, v) ==
  /\ u.scheme = v.scheme
  /\ u.host = v.host
  /\ u.port = v.port

Asked(c) == calls[c].request

Limit(c) ==
  LET cap == IF Asked(c).cap = None THEN DefaultCap ELSE Asked(c).cap
  IN IF cap < Ceiling THEN cap ELSE Ceiling

(* The URL that is being requested, after those of attempt.previous(). *)
Current(c) == calls[c].chain[Len(calls[c].chain)]

InFlight == {"connecting", "requested", "reading"}
Holders == {c \in Calls : calls[c].state \in InFlight}

NoCall == [state |-> "unborn", request |-> None, chain |-> <<>>, peers |-> {},
           size |-> 0, body |-> 0, result |-> "none"]

Init ==
  /\ permits = Capacity
  /\ calls = [c \in Calls |-> NoCall]

(* The call is in another state; the others are as they were. *)
Become(c, call) == calls' = [calls EXCEPT ![c] = call]

(* The call ends, and with it its permit. *)
End(c, result) ==
  /\ calls[c].state \in InFlight
  /\ Become(c, [calls[c] EXCEPT !.state = "over", !.result = result])
  /\ permits' = permits + 1

(* The beginning of send: the first check of the policy. *)
Send(c) ==
  /\ calls[c].state = "unborn"
  /\ \E r \in Requests :
       /\ Admissible(r.url)
       /\ Become(c, [calls[c] EXCEPT !.state = "waiting", !.request = r,
                                     !.chain = <<r.url>>])
  /\ UNCHANGED permits

RefuseURL(c) ==
  /\ calls[c].state = "unborn"
  /\ \E r \in Requests :
       /\ ~Admissible(r.url)
       /\ Become(c, [calls[c] EXCEPT !.state = "over", !.request = r,
                                     !.result = "blocked"])
  /\ UNCHANGED permits

Acquire(c) ==
  /\ calls[c].state = "waiting"
  /\ permits > 0
  /\ permits' = permits - 1
  /\ Become(c, [calls[c] EXCEPT !.state = "connecting"])

(* PublicOnlyResolver and the connector; a literal is not resolved. *)
Usable(host, answer) ==
  IF host \in Addresses THEN {host} ELSE answer \cap Public

Answers(host) ==
  IF host \in Names THEN Resolutions[host] ELSE {{}}

Connect(c) ==
  /\ calls[c].state = "connecting"
  /\ \E answer \in Answers(Current(c).host) :
       \E a \in Usable(Current(c).host, answer) :
         Become(c, [calls[c] EXCEPT !.state = "requested",
                                    !.peers = @ \cup {a}])
  /\ UNCHANGED permits

NoPublicAddress(c) ==
  /\ calls[c].state = "connecting"
  /\ \E answer \in Answers(Current(c).host) :
       Usable(Current(c).host, answer) = {}
  /\ End(c, "blocked")

Exhausted(c) == Len(calls[c].chain) > MaxRedirects

(* Bug: the scheme and the port do not count. *)
KeepsSecretOnHost(c, u) ==
  Asked(c).secret => calls[c].chain[1].host = u.host

(* RedirectScope::SameOrigin, the scope of requests with a secret header.  *)
KeepsSecret(c, u) == Asked(c).secret => SameOrigin(calls[c].chain[1], u)

(* Bug: only the first request is checked against the network policy. *)
FollowableAnywhere(c, u) == ~Exhausted(c) /\ KeepsSecret(c, u)

(* redirect_policy: attempt.previous() is the chain of URLs requested. *)
Followable(c, u) ==
  /\ ~Exhausted(c)
  /\ KeepsSecret(c, u)
  /\ Admissible(u)

Redirect(c) ==
  /\ calls[c].state = "requested"
  /\ \E u \in URLs :
       /\ Followable(c, u)
       /\ Become(c, [calls[c] EXCEPT !.state = "connecting",
                                     !.chain = Append(@, u)])
  /\ UNCHANGED permits

RefuseRedirect(c) ==
  /\ calls[c].state = "requested"
  /\ \E u \in URLs : ~Followable(c, u)
  /\ End(c, "blocked")

(* A final response: its Content-Length may be absent or wrong. *)
Respond(c) ==
  /\ calls[c].state = "requested"
  /\ \E size \in Sizes :
       Become(c, [calls[c] EXCEPT !.state = "reading", !.size = size])
  /\ UNCHANGED permits

(* Bug: a body that fills the limit is refused. *)
FillsLimit(c, n) == n >= Limit(c)

(* Bug: a chunk is added before the limit is looked at. *)
ExceedsLate(c, n) == n > Limit(c) + 1

Exceeds(c, n) == n > Limit(c)

RefuseLength(c) ==
  /\ calls[c].state = "requested"
  /\ \E size \in Sizes, declared \in Sizes :
       /\ Exceeds(c, declared)
       /\ Become(c, [calls[c] EXCEPT !.size = size, !.state = "over",
                                     !.result = "announced_too_large"])
  /\ permits' = permits + 1

Chunk(c) ==
  /\ calls[c].state = "reading"
  /\ \E n \in 1..(calls[c].size - calls[c].body) :
       /\ ~Exceeds(c, calls[c].body + n)
       /\ Become(c, [calls[c] EXCEPT !.body = @ + n])
  /\ UNCHANGED permits

RefuseChunk(c) ==
  /\ calls[c].state = "reading"
  /\ \E n \in 1..(calls[c].size - calls[c].body) :
       Exceeds(c, calls[c].body + n)
  /\ End(c, "too_large")

(* chunk() returns None. *)
Finish(c) ==
  /\ calls[c].body = calls[c].size
  /\ calls[c].state = "reading"
  /\ End(c, "response")

(* reqwest gives up connecting, or the connection breaks. *)
Break(c) == End(c, "failed")

(* Bug: the timer stops when the response begins. *)
TimeoutOfHeaders(c) == calls[c].state # "reading" /\ End(c, "timeout")

(* The request timeout: from the first connection to the last chunk. *)
Timeout(c) == End(c, "timeout")

(* Bug: a call that is cancelled while it waits gives back a permit, too. *)
AbandonWithPermit(c) ==
  /\ calls[c].state = "waiting"
  /\ Become(c, [calls[c] EXCEPT !.state = "over", !.result = "cancelled"])
  /\ permits' = permits + 1

(* The caller drops the future, for a source timeout or an abort, while it *)
(* waits for a permit ...                                                  *)
AbandonWait(c) ==
  /\ calls[c].state = "waiting"
  /\ Become(c, [calls[c] EXCEPT !.state = "over", !.result = "cancelled"])
  /\ UNCHANGED permits

(* ... or after it has got one.                                            *)
Cancel(c) == End(c, "cancelled")

Over == (\A c \in Calls : calls[c].state = "over") /\ UNCHANGED vars

Step(c) ==
  \/ Send(c)
  \/ RefuseURL(c)
  \/ Acquire(c)
  \/ Connect(c)
  \/ NoPublicAddress(c)
  \/ Redirect(c)
  \/ RefuseRedirect(c)
  \/ Respond(c)
  \/ RefuseLength(c)
  \/ Chunk(c)
  \/ RefuseChunk(c)
  \/ Finish(c)
  \/ Break(c)
  \/ Timeout(c)
  \/ AbandonWait(c)
  \/ Cancel(c)

Next == (\E c \in Calls : Step(c)) \/ Over

Spec == Init /\ [][Next]_vars

(* Only the timers and the fair semaphore are sure to move: no server need *)
(* answer, and no caller need give up.                                     *)
FairSpec ==
  /\ Spec
  /\ WF_vars(\E c \in Calls : Acquire(c))
  /\ \A c \in Calls : WF_vars(Timeout(c))

-----------------------------------------------------------------------------
(* Properties *)

CallState == [state : {"unborn", "waiting", "over"} \cup InFlight,
              request : Requests \cup {None}, chain : Seq(URL),
              peers : SUBSET Addresses, size : Nat, body : Nat,
              result : {"none", "blocked", "announced_too_large", "too_large",
                        "response", "failed", "timeout", "cancelled"}]

(* The type invariant. *)
TypeOK ==
  /\ permits \in 0..Capacity
  /\ calls \in [Calls -> CallState]

(* "A limit on concurrent in-flight requests": the permits available and   *)
(* the calls in flight add up, whichever way a call ends.                  *)
PermitsConserved == permits + Cardinality(Holders) = Capacity

(* "HTTPS only, public addresses only, checked before the request, on      *)
(* every redirect, and at DNS resolution": no hop of any call is made to   *)
(* a URL the policy forbids or connects to an address it forbids.          *)
DestinationsAllowed ==
  \A c \in Calls :
    /\ \A k \in DOMAIN calls[c].chain : Admissible(calls[c].chain[k])
    /\ calls[c].peers \subseteq Public

(* "At most MAX_REDIRECTS redirects". *)
RedirectsBounded == \A c \in Calls : Len(calls[c].chain) <= MaxRedirects + 1

(* "Same-origin only for requests that carry secret headers": every hop of *)
(* the chain has the origin the collector asked for.                       *)
SecretsStayOnOrigin ==
  \A c \in Calls :
    calls[c].chain # <<>> /\ Asked(c).secret =>
      \A k \in DOMAIN calls[c].chain :
        SameOrigin(Asked(c).url, calls[c].chain[k])

(* What the three above rest on: the chain begins with the URL that was    *)
(* asked for, and a call that goes on has been admitted.                   *)
ChainsStart ==
  \A c \in Calls :
    /\ calls[c].state = "unborn" => calls[c].chain = <<>>
    /\ calls[c].state \in {"waiting"} \cup InFlight => calls[c].chain # <<>>
    /\ calls[c].chain # <<>> =>
         Asked(c) \in Requests /\ calls[c].chain[1] = Asked(c).url

PolicyInvariant ==
  /\ ChainsStart
  /\ DestinationsAllowed
  /\ RedirectsBounded
  /\ SecretsStayOnOrigin

(* A response is complete and within the cap of its request, and no call   *)
(* ever buffers more than that, whatever length was announced.             *)
BodiesWithinLimit ==
  \A c \in Calls :
    /\ calls[c].body > 0 => calls[c].body <= Limit(c) /\ Limit(c) <= Ceiling
    /\ calls[c].result = "response" => calls[c].body = calls[c].size

(* A body is refused while it streams only if it does exceed the cap: one  *)
(* of exactly the size of the cap is delivered.                            *)
RefusalsAreJustified ==
  \A c \in Calls :
    calls[c].result = "too_large" => calls[c].size > Limit(c)

(* Every call that was made ends, even if servers hang and all permits are *)
(* taken when it is made.                                                  *)
EveryCallEnds ==
  \A c \in Calls : calls[c].state = "waiting" ~> calls[c].state = "over"
=============================================================================
