------------------------- MODULE HttpClientProofs -------------------------
(***************************************************************************)
(* Machine-checked proofs about HttpClient, for every value of its         *)
(* constants: any number of calls and permits, any URLs, redirects and     *)
(* answers of the name server.                                             *)
(***************************************************************************)
EXTENDS HttpClient, TLAPS, SequenceTheorems, FiniteSetTheorems

(* The types alone; the bound on `permits` follows from the conservation.  *)
Typed == permits \in Int /\ calls \in [Calls -> CallState]

USE DEF InFlight

-----------------------------------------------------------------------------
(* What a step does to the table of calls *)

Results == {"none", "blocked", "announced_too_large", "too_large", "response",
            "failed", "timeout", "cancelled"}

(* A call that becomes another well-typed one leaves the others alone. *)
LEMMA BecomeFrame ==
  ASSUME Typed, NEW c \in Calls, NEW call \in CallState,
         Become(c, call), permits' \in Int
  PROVE  /\ Typed'
         /\ calls'[c] = call
         /\ \A d \in Calls \ {c} : calls'[d] = calls[d]
  BY DEF Typed, Become

(* The end of a call changes its state and its result only. *)
LEMMA EndFrame ==
  ASSUME Typed, NEW c \in Calls, NEW result \in Results, End(c, result)
  PROVE  /\ Typed'
         /\ calls'[c] = [calls[c] EXCEPT !.state = "over", !.result = result]
         /\ \A d \in Calls \ {c} : calls'[d] = calls[d]
<1>1. calls[c] \in CallState /\ permits' \in Int
  BY DEF Typed, End
<1>2. [calls[c] EXCEPT !.state = "over", !.result = result] \in CallState
  BY <1>1 DEF CallState, Results
<1>3. QED
  BY <1>1, <1>2, BecomeFrame DEF End

(* The disjuncts of a step, by what becomes of the chain of URLs. *)
Kept(c) ==
  /\ calls'[c].chain = calls[c].chain
  /\ calls'[c].request = calls[c].request
  /\ calls'[c].state \in {"waiting"} \cup InFlight =>
       calls[c].state \in {"waiting"} \cup InFlight
  /\ calls'[c].state # "unborn"

Began(c) ==
  \E r \in Requests : /\ Admissible(r.url)
                      /\ calls[c].state = "unborn"
                      /\ calls'[c].request = r
                      /\ calls'[c].chain = <<r.url>>
                      /\ calls'[c].peers = calls[c].peers
                      /\ calls'[c].state = "waiting"

WasRefused(c) ==
  /\ calls[c].state = "unborn"
  /\ calls'[c].chain = calls[c].chain
  /\ calls'[c].peers = calls[c].peers
  /\ calls'[c].state = "over"

WasRedirected(c) ==
  \E u \in URLs : /\ Followable(c, u)
                  /\ calls[c].state \in InFlight
                  /\ calls'[c].request = calls[c].request
                  /\ calls'[c].chain = Append(calls[c].chain, u)
                  /\ calls'[c].peers = calls[c].peers
                  /\ calls'[c].state \in InFlight

Connected(c) ==
  /\ Kept(c)
  /\ calls[c].state \in InFlight
  /\ \E answer \in SUBSET Addresses :
       \E a \in Usable(Current(c).host, answer) :
         calls'[c].peers = calls[c].peers \cup {a}

WentOn(c) == Kept(c) /\ calls'[c].peers = calls[c].peers

LEMMA EndEffect ==
  ASSUME Typed, NEW c \in Calls, NEW result \in Results, End(c, result)
  PROVE  WentOn(c)
<1> DEFINE new == [calls[c] EXCEPT !.state = "over", !.result = result]
<1>1. calls[c] \in CallState /\ calls'[c] = new
  BY EndFrame DEF Typed
<1>2. /\ new.chain = calls[c].chain /\ new.request = calls[c].request
      /\ new.peers = calls[c].peers /\ new.state = "over"
  BY <1>1 DEF CallState
<1>3. QED
  BY <1>1, <1>2 DEF WentOn, Kept

(* A step changes one call, keeps the types, and is one of these.          *)
LEMMA StepEffect ==
  ASSUME Typed, NEW c \in Calls, Step(c)
  PROVE  /\ Typed'
         /\ \A d \in Calls \ {c} : calls'[d] = calls[d]
         /\ \/ Began(c)
            \/ WasRefused(c)
            \/ WasRedirected(c)
            \/ Connected(c)
            \/ WentOn(c)
<1>0. calls[c] \in CallState /\ permits \in Int
  BY DEF Typed
<1> DEFINE Frame == Typed' /\ \A d \in Calls \ {c} : calls'[d] = calls[d]
<1>1. CASE Send(c)
  <2>1. PICK r \in Requests :
          /\ Admissible(r.url)
          /\ Become(c, [calls[c] EXCEPT !.state = "waiting", !.request = r,
                                        !.chain = <<r.url>>])
    BY <1>1 DEF Send
  <2>2. <<r.url>> \in Seq(URL)
    BY HttpConstants DEF Request
  <2> DEFINE new == [calls[c] EXCEPT !.state = "waiting", !.request = r,
                              !.chain = <<r.url>>]
  <2>3. permits' \in Int
    BY <1>0, <1>1 DEF Send
  <2>4. new \in CallState
    BY <1>0, <2>2 DEF CallState
  <2>5. Become(c, new)
    BY <1>1, <2>1, <2>2 DEF Send
  <2>6. Frame /\ calls'[c] = new
    BY <2>3, <2>4, <2>5, BecomeFrame
  <2>7. /\ new.request = r /\ new.chain = <<r.url>>
        /\ new.peers = calls[c].peers /\ new.state = "waiting"
    BY <1>0 DEF CallState
  <2>8. QED
    BY <1>1, <2>1, <2>2, <2>6, <2>7 DEF Send, Began
<1>2. CASE RefuseURL(c)
  <2>1. PICK r \in Requests :
          Become(c, [calls[c] EXCEPT !.state = "over", !.request = r,
                                     !.result = "blocked"])
    BY <1>2 DEF RefuseURL
  <2> DEFINE new == [calls[c] EXCEPT !.state = "over", !.request = r,
                              !.result = "blocked"]
  <2>2. permits' \in Int
    BY <1>0, <1>2 DEF RefuseURL
  <2>3. new \in CallState
    BY <1>0, <2>1 DEF CallState
  <2>4. Become(c, new)
    BY <1>2, <2>1 DEF RefuseURL
  <2>5. Frame /\ calls'[c] = new
    BY <2>2, <2>3, <2>4, BecomeFrame
  <2>6. /\ new.chain = calls[c].chain /\ new.peers = calls[c].peers
        /\ new.state = "over"
    BY <1>0 DEF CallState
  <2>7. QED
    BY <1>2, <2>1, <2>5, <2>6 DEF RefuseURL, WasRefused
<1>3. CASE Acquire(c)
  <2> DEFINE new == [calls[c] EXCEPT !.state = "connecting"]
  <2>1. permits' \in Int
    BY <1>0, <1>3 DEF Acquire
  <2>2. new \in CallState
    BY <1>0 DEF CallState
  <2>3. Become(c, new)
    BY <1>3 DEF Acquire
  <2>4. Frame /\ calls'[c] = new
    BY <2>1, <2>2, <2>3, BecomeFrame
  <2>5. /\ new.chain = calls[c].chain /\ new.request = calls[c].request
        /\ new.peers = calls[c].peers /\ new.state = "connecting"
    BY <1>0 DEF CallState
  <2>6. QED
    BY <1>3, <2>4, <2>5 DEF Acquire, WentOn, Kept
<1>4. CASE Connect(c)
  <2>1. PICK answer \in Answers(Current(c).host) :
          \E a \in Usable(Current(c).host, answer) :
            Become(c, [calls[c] EXCEPT !.state = "requested",
                                       !.peers = @ \cup {a}])
    BY <1>4 DEF Connect
  <2>2. PICK a \in Usable(Current(c).host, answer) :
          Become(c, [calls[c] EXCEPT !.state = "requested",
                                     !.peers = @ \cup {a}])
    BY <2>1
  <2>3. answer \in SUBSET Addresses
    BY HttpConstants DEF Answers
  <2>4. a \in Addresses
    BY <2>3, HttpConstants DEF Usable
  <2> DEFINE new == [calls[c] EXCEPT !.state = "requested",
                              !.peers = @ \cup {a}]
  <2>5. permits' \in Int
    BY <1>0, <1>4 DEF Connect
  <2>6. new \in CallState
    BY <1>0, <2>1, <2>2, <2>3, <2>4 DEF CallState
  <2>7. Become(c, new)
    BY <1>4, <2>1, <2>2, <2>3, <2>4 DEF Connect
  <2>8. Frame /\ calls'[c] = new
    BY <2>5, <2>6, <2>7, BecomeFrame
  <2>9. /\ new.chain = calls[c].chain /\ new.request = calls[c].request
        /\ new.peers = calls[c].peers \cup {a} /\ new.state = "requested"
    BY <1>0 DEF CallState
  <2>10. QED
    BY <1>4, <2>1, <2>2, <2>3, <2>4, <2>8, <2>9 DEF Connect, Connected, Kept
<1>5. CASE Redirect(c)
  <2>1. PICK u \in URLs :
          /\ Followable(c, u)
          /\ Become(c, [calls[c] EXCEPT !.state = "connecting",
                                        !.chain = Append(@, u)])
    BY <1>5 DEF Redirect
  <2>2. u \in URL
    BY HttpConstants
  <2> DEFINE new == [calls[c] EXCEPT !.state = "connecting",
                              !.chain = Append(@, u)]
  <2>3. permits' \in Int
    BY <1>0, <1>5 DEF Redirect
  <2>4. new \in CallState
    BY <1>0, <2>1, <2>2, AppendProperties DEF CallState
  <2>5. Become(c, new)
    BY <1>5, <2>1, <2>2 DEF Redirect
  <2>6. Frame /\ calls'[c] = new
    BY <2>3, <2>4, <2>5, BecomeFrame
  <2>7. /\ new.chain = Append(calls[c].chain, u)
        /\ new.request = calls[c].request
        /\ new.peers = calls[c].peers /\ new.state = "connecting"
    BY <1>0 DEF CallState
  <2>8. QED
    BY <1>5, <2>1, <2>2, <2>6, <2>7 DEF Redirect, WasRedirected
<1>6. CASE Respond(c)
  <2>1. PICK size \in Sizes :
          Become(c, [calls[c] EXCEPT !.state = "reading", !.size = size])
    BY <1>6 DEF Respond
  <2> DEFINE new == [calls[c] EXCEPT !.state = "reading", !.size = size]
  <2>2. permits' \in Int
    BY <1>0, <1>6 DEF Respond
  <2>3. new \in CallState
    BY <1>0, <2>1, HttpConstants DEF CallState
  <2>4. Become(c, new)
    BY <1>6, <2>1 DEF Respond
  <2>5. Frame /\ calls'[c] = new
    BY <2>2, <2>3, <2>4, BecomeFrame
  <2>6. /\ new.chain = calls[c].chain /\ new.request = calls[c].request
        /\ new.peers = calls[c].peers /\ new.state = "reading"
    BY <1>0 DEF CallState
  <2>7. QED
    BY <1>6, <2>1, <2>5, <2>6 DEF Respond, WentOn, Kept
<1>7. CASE RefuseLength(c)
  <2>1. PICK size \in Sizes :
          Become(c, [calls[c] EXCEPT !.size = size, !.state = "over",
                                     !.result = "announced_too_large"])
    BY <1>7 DEF RefuseLength
  <2>2. size \in Nat
    BY HttpConstants
  <2> DEFINE new == [calls[c] EXCEPT !.size = size, !.state = "over",
                              !.result = "announced_too_large"]
  <2>3. permits' \in Int
    BY <1>0, <1>7 DEF RefuseLength
  <2>4. new \in CallState
    BY <1>0, <2>2 DEF CallState
  <2>5. Become(c, new)
    BY <1>7, <2>1, <2>2 DEF RefuseLength
  <2>6. Frame /\ calls'[c] = new
    BY <2>3, <2>4, <2>5, BecomeFrame
  <2>7. /\ new.chain = calls[c].chain /\ new.request = calls[c].request
        /\ new.peers = calls[c].peers /\ new.state = "over"
    BY <1>0 DEF CallState
  <2>8. QED
    BY <1>7, <2>1, <2>2, <2>6, <2>7 DEF RefuseLength, WentOn, Kept
<1>8. CASE Chunk(c)
  <2>1. PICK n \in 1..(calls[c].size - calls[c].body) :
          Become(c, [calls[c] EXCEPT !.body = @ + n])
    BY <1>8 DEF Chunk
  <2>2. calls[c].body + n \in Nat
    BY <1>0, <2>1 DEF CallState
  <2> DEFINE new == [calls[c] EXCEPT !.body = @ + n]
  <2>3. permits' \in Int
    BY <1>0, <1>8 DEF Chunk
  <2>4. new \in CallState
    BY <1>0, <2>2 DEF CallState
  <2>5. Become(c, new)
    BY <1>8, <2>1, <2>2 DEF Chunk
  <2>6. Frame /\ calls'[c] = new
    BY <2>3, <2>4, <2>5, BecomeFrame
  <2>7. /\ new.chain = calls[c].chain /\ new.request = calls[c].request
        /\ new.peers = calls[c].peers /\ new.state = calls[c].state
    BY <1>0 DEF CallState
  <2>8. QED
    BY <1>8, <2>1, <2>2, <2>6, <2>7 DEF Chunk, WentOn, Kept
<1>9. CASE \E result \in Results : End(c, result)
  BY <1>9, EndFrame, EndEffect
<1>10. CASE AbandonWait(c)
  <2> DEFINE new == [calls[c] EXCEPT !.state = "over", !.result = "cancelled"]
  <2>1. permits' \in Int
    BY <1>0, <1>10 DEF AbandonWait
  <2>2. new \in CallState
    BY <1>0 DEF CallState
  <2>3. Become(c, new)
    BY <1>10 DEF AbandonWait
  <2>4. Frame /\ calls'[c] = new
    BY <2>1, <2>2, <2>3, BecomeFrame
  <2>5. /\ new.chain = calls[c].chain /\ new.request = calls[c].request
        /\ new.peers = calls[c].peers /\ new.state = "over"
    BY <1>0 DEF CallState
  <2>6. QED
    BY <1>10, <2>4, <2>5 DEF AbandonWait, WentOn, Kept
<1>11. Step(c) => \/ Send(c) \/ RefuseURL(c) \/ Acquire(c) \/ Connect(c)
                 \/ Redirect(c) \/ Respond(c) \/ RefuseLength(c) \/ Chunk(c)
                 \/ AbandonWait(c)
                 \/ \E result \in Results : End(c, result)
  BY DEF Step, NoPublicAddress, RefuseRedirect, RefuseChunk, Finish, Break,
         Timeout, Cancel, Results
<1>12. QED
  BY <1>1, <1>2, <1>3, <1>4, <1>5, <1>6, <1>7, <1>8, <1>9, <1>10, <1>11

-----------------------------------------------------------------------------
(* The invariants *)

(* PolicyInvariant, call by call. *)
CallOK(c) ==
  /\ calls[c].state = "unborn" => calls[c].chain = <<>>
  /\ calls[c].state \in {"waiting"} \cup InFlight => calls[c].chain # <<>>
  /\ calls[c].chain # <<>> =>
       Asked(c) \in Requests /\ calls[c].chain[1] = Asked(c).url
  /\ \A k \in DOMAIN calls[c].chain : Admissible(calls[c].chain[k])
  /\ calls[c].peers \subseteq Public
  /\ Len(calls[c].chain) <= MaxRedirects + 1
  /\ calls[c].chain # <<>> /\ Asked(c).secret =>
       \A k \in DOMAIN calls[c].chain :
         SameOrigin(Asked(c).url, calls[c].chain[k])

LEMMA CallByCall == PolicyInvariant <=> \A c \in Calls : CallOK(c)
  BY DEF PolicyInvariant, CallOK, ChainsStart, DestinationsAllowed,
         RedirectsBounded, SecretsStayOnOrigin

LEMMA CallOKInit ==
  ASSUME Init, NEW c \in Calls
  PROVE  CallOK(c)
<1>1. calls[c] = NoCall
  BY DEF Init
<1>2. /\ calls[c].state = "unborn" /\ calls[c].chain = <<>>
      /\ calls[c].peers = {}
  BY <1>1 DEF NoCall
<1>3. QED
  BY <1>2, HttpConstants DEF CallOK

LEMMA CallOKStep ==
  ASSUME Typed, NEW c \in Calls, Step(c), CallOK(c)
  PROVE  CallOK(c)'
<1>0. /\ calls[c].chain \in Seq(URL) /\ calls'[c].chain \in Seq(URL)
      /\ Len(calls[c].chain) \in Nat
  BY StepEffect DEF Typed, CallState
<1>1. CASE Began(c)
  <2>1. PICK r \in Requests : /\ Admissible(r.url)
                             /\ calls'[c].request = r
                             /\ calls'[c].chain = <<r.url>>
                             /\ calls'[c].peers = calls[c].peers
                             /\ calls'[c].state = "waiting"
    BY <1>1 DEF Began
  <2>2. /\ DOMAIN calls'[c].chain = {1} /\ calls'[c].chain[1] = r.url
        /\ Len(calls'[c].chain) = 1 /\ calls'[c].chain # <<>>
    BY <2>1
  <2>3. SameOrigin(r.url, r.url)
    BY DEF SameOrigin
  <2>4. QED
    BY <2>1, <2>2, <2>3, HttpConstants DEF CallOK, Asked, Admissible, SameOrigin
<1>2. CASE WasRefused(c)
  BY <1>2 DEF WasRefused, CallOK, Asked
<1>3. CASE WasRedirected(c)
  <2>1. PICK u \in URLs : /\ Followable(c, u)
                         /\ calls[c].state \in InFlight
                         /\ calls'[c].request = calls[c].request
                         /\ calls'[c].chain = Append(calls[c].chain, u)
                         /\ calls'[c].peers = calls[c].peers
                         /\ calls'[c].state \in InFlight
    BY <1>3 DEF WasRedirected
  <2>2. /\ u \in URL /\ Len(calls[c].chain) >= 1
        /\ DOMAIN calls[c].chain = 1..Len(calls[c].chain)
    BY <1>0, <2>1, HttpConstants, EmptySeq, LenProperties DEF CallOK
  <2>3. /\ Len(calls'[c].chain) = Len(calls[c].chain) + 1
        /\ DOMAIN calls'[c].chain = 1..(Len(calls[c].chain) + 1)
        /\ \A k \in 1..Len(calls[c].chain) :
             calls'[c].chain[k] = calls[c].chain[k]
        /\ calls'[c].chain[Len(calls[c].chain) + 1] = u
    BY <1>0, <2>1, <2>2, AppendProperties, LenProperties
  <2>4. calls'[c].chain # <<>> /\ calls'[c].chain[1] = calls[c].chain[1]
    BY <1>0, <2>2, <2>3, EmptySeq
  <2>5. \A k \in DOMAIN calls'[c].chain :
          Admissible(calls'[c].chain[k])
    BY <1>0, <2>1, <2>2, <2>3 DEF CallOK, Followable
  <2>6. Len(calls'[c].chain) <= MaxRedirects + 1
    BY <1>0, <2>1, <2>3, HttpConstants DEF Followable, Exhausted
  <2>7. Asked(c).secret =>
          \A k \in DOMAIN calls'[c].chain :
            SameOrigin(Asked(c).url, calls'[c].chain[k])
    BY <1>0, <2>1, <2>2, <2>3 DEF CallOK, Followable, KeepsSecret, Asked
  <2>8. Asked(c)' = Asked(c) /\ Asked(c) \in Requests
           /\ calls[c].chain[1] = Asked(c).url
    BY <2>1 DEF Asked, CallOK
  <2>9. QED
    BY <2>1, <2>4, <2>5, <2>6, <2>7, <2>8 DEF CallOK, Admissible, SameOrigin
<1>4. CASE Connected(c)
  <2>1. PICK answer \in SUBSET Addresses :
          \E a \in Usable(Current(c).host, answer) :
            calls'[c].peers = calls[c].peers \cup {a}
    BY <1>4 DEF Connected
  <2>2. Admissible(Current(c))
    <3>1. Len(calls[c].chain) \in DOMAIN calls[c].chain
      BY <1>0, <1>4, EmptySeq, LenProperties DEF Connected, CallOK
    <3>2. QED
      BY <3>1 DEF CallOK, Current
  <2>3. Usable(Current(c).host, answer) \subseteq Public
    BY <2>2 DEF Usable, Admissible
  <2>4. calls'[c].peers \subseteq Public
    BY <2>1, <2>3 DEF CallOK
  <2>5. QED
    BY <1>4, <2>4 DEF Connected, Kept, CallOK, Asked, Admissible, SameOrigin
<1>5. CASE WentOn(c)
  BY <1>5 DEF WentOn, Kept, CallOK, Asked, Admissible, SameOrigin
<1>6. QED
  BY <1>1, <1>2, <1>3, <1>4, <1>5, StepEffect

LEMMA PolicyStep ==
  ASSUME Typed, PolicyInvariant, [Next]_vars
  PROVE  Typed' /\ PolicyInvariant'
<1>1. ASSUME NEW c \in Calls, Step(c)
      PROVE  Typed' /\ PolicyInvariant'
  <2>1. ASSUME NEW d \in Calls PROVE CallOK(d)'
    <3>1. CASE d = c
      BY <1>1, <3>1, CallOKStep, CallByCall
    <3>2. CASE d # c
      <4>1. calls'[d] = calls[d]
        BY <1>1, <3>2, StepEffect
      <4>2. QED
        BY <4>1, CallByCall DEF CallOK, Asked, Admissible, SameOrigin
    <3>3. QED
      BY <3>1, <3>2
  <2>2. PolicyInvariant'
    BY <2>1 DEF PolicyInvariant, CallOK, ChainsStart, DestinationsAllowed,
                RedirectsBounded, SecretsStayOnOrigin
  <2>3. QED
    BY <1>1, <2>2, StepEffect
<1>2. CASE UNCHANGED vars
  BY <1>2 DEF vars, Typed, PolicyInvariant, ChainsStart, DestinationsAllowed,
              RedirectsBounded, SecretsStayOnOrigin, Asked, Admissible,
              SameOrigin, CallState
<1>3. QED
  BY <1>1, <1>2 DEF Next, Over

LEMMA TypedInit == Init => Typed
  BY HttpConstants, EmptySeq DEF Init, Typed, Capacity, NoCall, CallState

(* Requests, redirects and connections stay within the network policy,     *)
(* and secrets on their origin, whatever servers and name servers answer.  *)
THEOREM PolicyHolds == Spec => []PolicyInvariant
<1>1. Init => Typed
  BY TypedInit
<1>2. Init => PolicyInvariant
  BY CallOKInit, CallByCall
<1>3. Typed /\ PolicyInvariant /\ [Next]_vars => (Typed /\ PolicyInvariant)'
  BY PolicyStep
<1>4. QED
  BY <1>1, <1>2, <1>3, PTL DEF Spec

(* A request with a secret header reaches no origin but the one that its   *)
(* collector asked for.                                                    *)
THEOREM SecretsHold == Spec => []SecretsStayOnOrigin
  BY PolicyHolds, PTL DEF PolicyInvariant

(* No hop of any call goes to a URL or to an address the policy forbids,   *)
(* on whatever redirect or resolution it is met.                           *)
THEOREM DestinationsHold == Spec => []DestinationsAllowed
  BY PolicyHolds, PTL DEF PolicyInvariant

-----------------------------------------------------------------------------
(* The permits *)

Held(c) == calls[c].state \in InFlight

(* A step takes a permit with its call's slot, gives it back, or neither.  *)
LEMMA PermitEffect ==
  ASSUME Typed, NEW c \in Calls, Step(c)
  PROVE  \/ ~Held(c) /\ Held(c)' /\ permits > 0 /\ permits' = permits - 1
         \/ Held(c) /\ ~Held(c)' /\ permits' = permits + 1
         \/ (Held(c) <=> Held(c)') /\ permits' = permits
<1>0. /\ \A r \in [Calls -> CallState] : r[c] \in CallState
      /\ calls \in [Calls -> CallState] /\ calls[c] \in CallState
  BY DEF Typed
<1>1. \A call : Become(c, call) => calls'[c] = call
  BY <1>0 DEF Become
<1>2. \A s : /\ [calls[c] EXCEPT !.state = s].state = s
  BY <1>0 DEF CallState
<1>3. CASE Send(c)
  <2>1. calls'[c].state = "waiting"
    BY <1>0, <1>1, <1>3 DEF Send, CallState
  <2>2. QED
    BY <2>1, <1>3 DEF Send, Held
<1>4. CASE RefuseURL(c)
  <2>1. calls'[c].state = "over"
    BY <1>0, <1>1, <1>4 DEF RefuseURL, CallState
  <2>2. QED
    BY <2>1, <1>4 DEF RefuseURL, Held
<1>5. CASE Acquire(c)
  BY <1>1, <1>2, <1>5 DEF Acquire, Held
<1>6. CASE Connect(c)
  <2>1. calls'[c].state = "requested"
    BY <1>0, <1>1, <1>6 DEF Connect, CallState
  <2>2. QED
    BY <2>1, <1>6 DEF Connect, Held
<1>7. CASE Redirect(c)
  <2>1. calls'[c].state = "connecting"
    BY <1>0, <1>1, <1>7 DEF Redirect, CallState
  <2>2. QED
    BY <2>1, <1>7 DEF Redirect, Held
<1>8. CASE Respond(c)
  <2>1. calls'[c].state = "reading"
    BY <1>0, <1>1, <1>8 DEF Respond, CallState
  <2>2. QED
    BY <2>1, <1>8 DEF Respond, Held
<1>9. CASE RefuseLength(c)
  <2>1. calls'[c].state = "over"
    BY <1>0, <1>1, <1>9 DEF RefuseLength, CallState
  <2>2. QED
    BY <2>1, <1>9 DEF RefuseLength, Held
<1>10. CASE Chunk(c)
  <2>1. calls'[c].state = "reading"
    BY <1>0, <1>1, <1>10 DEF Chunk, CallState
  <2>2. QED
    BY <2>1, <1>10 DEF Chunk, Held
<1>11. CASE AbandonWait(c)
  <2>1. calls'[c].state = "over"
    BY <1>0, <1>1, <1>11 DEF AbandonWait, CallState
  <2>2. QED
    BY <2>1, <1>11 DEF AbandonWait, Held
<1>12. CASE \E result \in Results : End(c, result)
  <2>1. calls'[c].state = "over"
    BY <1>0, <1>1, <1>12 DEF End, CallState
  <2>2. QED
    BY <2>1, <1>12 DEF End, Held
<1>13. QED
  BY <1>3, <1>4, <1>5, <1>6, <1>7, <1>8, <1>9, <1>10, <1>11, <1>12
     DEF Step, NoPublicAddress, RefuseRedirect, RefuseChunk, Finish, Break,
         Timeout, Cancel, Results

LEMMA HoldersFinite == IsFiniteSet(Holders) /\ Cardinality(Holders) \in Nat
  BY HttpConstants, FS_Subset, FS_CardinalityType DEF Holders

LEMMA PermitStep ==
  ASSUME Typed, permits >= 0, PermitsConserved, NEW c \in Calls, Step(c)
  PROVE  permits' >= 0 /\ PermitsConserved'
<1>0. /\ permits \in Int /\ Capacity \in Nat
      /\ \A d \in Calls \ {c} : Held(d)' <=> Held(d)
  BY HttpConstants, StepEffect DEF Typed, Capacity, Held
<1>1. CASE ~Held(c) /\ Held(c)' /\ permits > 0 /\ permits' = permits - 1
  <2>1. Holders' = Holders \cup {c} /\ c \notin Holders
    BY <1>0, <1>1 DEF Holders, Held
  <2>2. Cardinality(Holders') = Cardinality(Holders) + 1
    BY <2>1, HoldersFinite, FS_AddElement
  <2>3. QED
    BY <1>0, <1>1, <2>2, HoldersFinite DEF PermitsConserved, Capacity
<1>2. CASE Held(c) /\ ~Held(c)' /\ permits' = permits + 1
  <2>1. Holders' = Holders \ {c} /\ c \in Holders
    BY <1>0, <1>2 DEF Holders, Held
  <2>2. Cardinality(Holders') = Cardinality(Holders) - 1
    BY <2>1, HoldersFinite, FS_RemoveElement
  <2>3. QED
    BY <1>0, <1>2, <2>2, HoldersFinite DEF PermitsConserved, Capacity
<1>3. CASE (Held(c) <=> Held(c)') /\ permits' = permits
  <2>1. Holders' = Holders
    BY <1>0, <1>3 DEF Holders, Held
  <2>2. QED
    BY <1>3, <2>1 DEF PermitsConserved, Capacity
<1>4. QED
  BY <1>1, <1>2, <1>3, PermitEffect

LEMMA PermitInvariantHolds ==
  Spec => [](Typed /\ permits >= 0 /\ PermitsConserved)
<1> DEFINE Inv == Typed /\ permits >= 0 /\ PermitsConserved
<1>1. ASSUME Init PROVE Inv
  <2>1. Typed
    BY <1>1, TypedInit
  <2>2. permits = Capacity /\ Capacity \in Nat
    BY <1>1, HttpConstants DEF Init, Capacity
  <2>3. Holders = {}
    BY <1>1 DEF Init, Holders, NoCall
  <2>4. Cardinality(Holders) = 0
    BY <2>3, FS_EmptySet
  <2>5. QED
    BY <2>1, <2>2, <2>4 DEF PermitsConserved
<1>2. ASSUME Inv, [Next]_vars PROVE Inv'
  <2>1. CASE \E c \in Calls : Step(c)
    BY <1>2, <2>1, StepEffect, PermitStep
  <2>2. CASE UNCHANGED vars
    <3>1. permits' = permits /\ calls' = calls
      BY <2>2 DEF vars
    <3>2. Typed' /\ Holders' = Holders
      BY <1>2, <3>1 DEF Typed, Holders
    <3>3. QED
      BY <1>2, <3>1, <3>2 DEF PermitsConserved
  <2>3. QED
    BY <1>2, <2>1, <2>2 DEF Next, Over
<1>3. QED
  BY <1>1, <1>2, PTL DEF Spec

(* The limit on requests in flight holds however calls end: a permit is    *)
(* neither lost nor given back twice.                                      *)
THEOREM PermitsHold == Spec => []PermitsConserved
  BY PermitInvariantHolds, PTL

(* The type invariant: there are never more permits than the client began  *)
(* with, nor fewer than none.                                              *)
THEOREM TypesHold == Spec => []TypeOK
<1>1. Typed /\ permits >= 0 /\ PermitsConserved => TypeOK
  BY HoldersFinite, HttpConstants
     DEF Typed, TypeOK, PermitsConserved, Capacity
<1>2. QED
  BY <1>1, PermitInvariantHolds, PTL

-----------------------------------------------------------------------------
(* The bodies *)

BeforeBody == {"unborn", "waiting", "connecting", "requested"}

(* The disjuncts of a step, by what becomes of the body. *)
Made(c) ==
  /\ calls[c].state = "unborn"
  /\ calls'[c].request \in Requests
  /\ calls'[c].body = calls[c].body
  /\ \/ calls'[c].state = "waiting" /\ calls'[c].result = calls[c].result
     \/ calls'[c].state = "over" /\ calls'[c].result = "blocked"

Advanced(c) ==
  /\ calls[c].state \in {"waiting", "connecting", "requested"}
  /\ calls'[c].state \in InFlight
  /\ calls'[c].request = calls[c].request
  /\ calls'[c].body = calls[c].body
  /\ calls'[c].result = calls[c].result

Received(c) ==
  /\ calls[c].state = "reading"
  /\ calls'[c].state = "reading"
  /\ calls'[c].request = calls[c].request
  /\ calls'[c].result = calls[c].result
  /\ calls'[c].body <= Limit(c)

Ended(c) ==
  /\ calls[c].state \in {"waiting"} \cup InFlight
  /\ calls'[c].state = "over"
  /\ calls'[c].request = calls[c].request
  /\ calls'[c].body = calls[c].body
  /\ calls'[c].result = "response" => calls'[c].body = calls'[c].size
  /\ calls'[c].result = "too_large" => calls'[c].size > Limit(c)

(* The limit of a request the collectors may send is a number, and no      *)
(* greater than the ceiling.                                               *)
LEMMA LimitOfRequest ==
  ASSUME NEW c \in Calls, Asked(c) \in Requests
  PROVE  Limit(c) \in Nat /\ Limit(c) <= Ceiling
<1>1. Asked(c).cap \in Nat \cup {None}
  BY HttpConstants DEF Request
<1>2. QED
  BY <1>1, HttpConstants DEF Limit

LEMMA BodyOfEnd ==
  ASSUME Typed, NEW c \in Calls, NEW result \in Results, End(c, result),
         result = "response" => calls[c].body = calls[c].size,
         result = "too_large" => calls[c].size > Limit(c)
  PROVE  Ended(c)
<1> DEFINE new == [calls[c] EXCEPT !.state = "over", !.result = result]
<1>1. calls[c] \in CallState /\ calls'[c] = new
  BY EndFrame DEF Typed
<1>2. /\ new.body = calls[c].body /\ new.size = calls[c].size
      /\ new.request = calls[c].request
      /\ new.state = "over" /\ new.result = result
  BY <1>1 DEF CallState
<1> HIDE DEF new
<1>3. QED
  BY <1>1, <1>2 DEF Ended, End

LEMMA BodyEffect ==
  ASSUME Typed, NEW c \in Calls, Step(c),
         calls[c].state # "unborn" => Asked(c) \in Requests
  PROVE  Made(c) \/ Advanced(c) \/ Received(c) \/ Ended(c)
<1>0. /\ calls \in [Calls -> CallState] /\ calls[c] \in CallState
  BY DEF Typed
<1>1. \A call : Become(c, call) => calls'[c] = call
  BY <1>0 DEF Become
<1>2. CASE Send(c)
  <2>1. PICK r \in Requests :
          calls'[c] = [calls[c] EXCEPT !.state = "waiting", !.request = r,
                                       !.chain = <<r.url>>]
    BY <1>1, <1>2 DEF Send
  <2>2. /\ calls'[c].request = r /\ calls'[c].body = calls[c].body
        /\ calls'[c].state = "waiting" /\ calls'[c].result = calls[c].result
    BY <1>0, <2>1 DEF CallState
  <2>3. QED
    BY <1>2, <2>2 DEF Send, Made
<1>3. CASE RefuseURL(c)
  <2>1. PICK r \in Requests :
          calls'[c] = [calls[c] EXCEPT !.state = "over", !.request = r,
                                       !.result = "blocked"]
    BY <1>1, <1>3 DEF RefuseURL
  <2>2. /\ calls'[c].request = r /\ calls'[c].body = calls[c].body
        /\ calls'[c].state = "over" /\ calls'[c].result = "blocked"
    BY <1>0, <2>1 DEF CallState
  <2>3. QED
    BY <1>3, <2>2 DEF RefuseURL, Made
<1>4. CASE Acquire(c)
  <2>1. calls'[c] = [calls[c] EXCEPT !.state = "connecting"]
    BY <1>1, <1>4 DEF Acquire
  <2>2. /\ calls'[c].request = calls[c].request
        /\ calls'[c].body = calls[c].body
        /\ calls'[c].state = "connecting"
        /\ calls'[c].result = calls[c].result
    BY <1>0, <2>1 DEF CallState
  <2>3. QED
    BY <1>4, <2>2 DEF Acquire, Advanced
<1>5. CASE Connect(c)
  <2>1. PICK p : calls'[c] = [calls[c] EXCEPT !.state = "requested",
                                              !.peers = p]
    BY <1>0, <1>1, <1>5 DEF Connect
  <2>2. /\ calls'[c].request = calls[c].request
        /\ calls'[c].body = calls[c].body
        /\ calls'[c].state = "requested"
        /\ calls'[c].result = calls[c].result
    BY <1>0, <2>1 DEF CallState
  <2>3. QED
    BY <1>5, <2>2 DEF Connect, Advanced
<1>6. CASE Redirect(c)
  <2>1. PICK s : calls'[c] = [calls[c] EXCEPT !.state = "connecting",
                                              !.chain = s]
    BY <1>0, <1>1, <1>6 DEF Redirect
  <2>2. /\ calls'[c].request = calls[c].request
        /\ calls'[c].body = calls[c].body
        /\ calls'[c].state = "connecting"
        /\ calls'[c].result = calls[c].result
    BY <1>0, <2>1 DEF CallState
  <2>3. QED
    BY <1>6, <2>2 DEF Redirect, Advanced
<1>7. CASE Respond(c)
  <2>1. PICK size \in Sizes :
          calls'[c] = [calls[c] EXCEPT !.state = "reading", !.size = size]
    BY <1>1, <1>7 DEF Respond
  <2>2. /\ calls'[c].request = calls[c].request
        /\ calls'[c].body = calls[c].body
        /\ calls'[c].state = "reading"
        /\ calls'[c].result = calls[c].result
    BY <1>0, <2>1 DEF CallState
  <2>3. QED
    BY <1>7, <2>2 DEF Respond, Advanced
<1>8. CASE RefuseLength(c)
  <2>1. PICK size \in Sizes :
          calls'[c] = [calls[c] EXCEPT !.size = size, !.state = "over",
                                       !.result = "announced_too_large"]
    BY <1>1, <1>8 DEF RefuseLength
  <2>2. /\ calls'[c].request = calls[c].request
        /\ calls'[c].body = calls[c].body
        /\ calls'[c].state = "over"
        /\ calls'[c].result = "announced_too_large"
    BY <1>0, <2>1 DEF CallState
  <2>3. QED
    BY <1>8, <2>2 DEF RefuseLength, Ended
<1>9. CASE Chunk(c)
  <2>1. PICK n \in 1..(calls[c].size - calls[c].body) :
          /\ ~Exceeds(c, calls[c].body + n)
          /\ calls'[c] = [calls[c] EXCEPT !.body = @ + n]
    BY <1>1, <1>9 DEF Chunk
  <2>2. /\ calls'[c].request = calls[c].request
        /\ calls'[c].body = calls[c].body + n
        /\ calls'[c].state = calls[c].state
        /\ calls'[c].result = calls[c].result
    BY <1>0, <2>1 DEF CallState
  <2>3. Limit(c) \in Nat /\ calls[c].body + n \in Nat
    BY <1>0, <1>9, <2>1, LimitOfRequest DEF CallState, Chunk
  <2>4. QED
    BY <1>9, <2>1, <2>2, <2>3 DEF Chunk, Received, Exceeds
<1>10. CASE AbandonWait(c)
  <2>1. calls'[c] = [calls[c] EXCEPT !.state = "over", !.result = "cancelled"]
    BY <1>1, <1>10 DEF AbandonWait
  <2>2. /\ calls'[c].request = calls[c].request
        /\ calls'[c].body = calls[c].body
        /\ calls'[c].state = "over" /\ calls'[c].result = "cancelled"
    BY <1>0, <2>1 DEF CallState
  <2>3. QED
    BY <1>10, <2>2 DEF AbandonWait, Ended
<1>11. CASE RefuseChunk(c)
  <2>1. PICK n \in 1..(calls[c].size - calls[c].body) :
          Exceeds(c, calls[c].body + n)
    BY <1>11 DEF RefuseChunk
  <2>2. Limit(c) \in Nat
    BY <1>11, LimitOfRequest DEF RefuseChunk
  <2>3. calls[c].size > Limit(c)
    BY <1>0, <2>1, <2>2 DEF Exceeds, CallState
  <2>4. QED
    BY <1>11, <2>3, BodyOfEnd DEF RefuseChunk, Results
<1>12. CASE Finish(c)
  BY <1>12, BodyOfEnd DEF Finish, Results
<1>13. CASE \E result \in {"blocked", "failed", "timeout", "cancelled"} :
              End(c, result)
  BY <1>13, BodyOfEnd DEF Results
<1>14. QED
  BY <1>2, <1>3, <1>4, <1>5, <1>6, <1>7, <1>8, <1>9, <1>10, <1>11, <1>12,
     <1>13
     DEF Step, NoPublicAddress, RefuseRedirect, Break, Timeout, Cancel

(* What is buffered of a call and how the call ended fit each other: a     *)
(* call that has not ended has no result, and nothing is buffered before a *)
(* response begins.                                                        *)
BodyOK(c) ==
  /\ calls[c].state # "unborn" => Asked(c) \in Requests
  /\ calls[c].state # "over" => calls[c].result = "none"
  /\ calls[c].state \in BeforeBody => calls[c].body = 0
  /\ calls[c].body > 0 => calls[c].body <= Limit(c)
  /\ calls[c].result = "response" => calls[c].body = calls[c].size
  /\ calls[c].result = "too_large" => calls[c].size > Limit(c)

BodyInvariant == \A c \in Calls : BodyOK(c)

LEMMA BodyInit == Init => BodyInvariant
  BY DEF Init, NoCall, BodyInvariant, BodyOK

LEMMA BodyOKStep ==
  ASSUME Typed, NEW c \in Calls, Step(c), BodyOK(c)
  PROVE  BodyOK(c)'
<1>0. calls[c] \in CallState /\ calls'[c] \in CallState
  BY StepEffect DEF Typed
<1>1. calls'[c].body \in Nat /\ calls[c].body \in Nat
  BY <1>0 DEF CallState
<1>2. calls'[c].request = calls[c].request => Limit(c)' = Limit(c)
  BY DEF Limit, Asked
<1>3. CASE Made(c)
  BY <1>1, <1>3 DEF Made, BodyOK, BeforeBody, Asked
<1>4. CASE Advanced(c)
  BY <1>1, <1>2, <1>4 DEF Advanced, BodyOK, BeforeBody, Asked
<1>5. CASE Received(c)
  BY <1>1, <1>2, <1>5 DEF Received, BodyOK, BeforeBody, Asked
<1>6. CASE Ended(c)
  BY <1>1, <1>2, <1>6 DEF Ended, BodyOK, BeforeBody, Asked
<1>7. QED
  BY <1>3, <1>4, <1>5, <1>6, BodyEffect DEF BodyOK

LEMMA BodyStep ==
  ASSUME Typed, BodyInvariant, [Next]_vars
  PROVE  Typed' /\ BodyInvariant'
<1>1. ASSUME NEW c \in Calls, Step(c)
      PROVE  Typed' /\ BodyInvariant'
  <2>1. ASSUME NEW d \in Calls PROVE BodyOK(d)'
    <3>1. CASE d = c
      BY <1>1, <3>1, BodyOKStep DEF BodyInvariant
    <3>2. CASE d # c
      <4>1. calls'[d] = calls[d]
        BY <1>1, <3>2, StepEffect
      <4>2. QED
        BY <4>1 DEF BodyInvariant, BodyOK, Asked, Limit
    <3>3. QED
      BY <3>1, <3>2
  <2>2. QED
    BY <1>1, <2>1, StepEffect DEF BodyInvariant
<1>2. CASE UNCHANGED vars
  BY <1>2 DEF vars, Typed, BodyInvariant, BodyOK, Asked, Limit
<1>3. QED
  BY <1>1, <1>2 DEF Next, Over

LEMMA BodyHolds == Spec => [](Typed /\ BodyInvariant)
<1>1. Init => Typed /\ BodyInvariant
  BY TypedInit, BodyInit
<1>2. Typed /\ BodyInvariant /\ [Next]_vars => (Typed /\ BodyInvariant)'
  BY BodyStep
<1>3. QED
  BY <1>1, <1>2, PTL DEF Spec

(* No call buffers more than the cap of its request, nor that cap more     *)
(* than the ceiling, however a body is cut into chunks and whatever length *)
(* was announced; and a response that is delivered is whole.               *)
THEOREM BodiesHold == Spec => []BodiesWithinLimit
<1>1. Typed /\ BodyInvariant => BodiesWithinLimit
  <2>1. ASSUME Typed, BodyInvariant, NEW c \in Calls, calls[c].body > 0
        PROVE  Limit(c) <= Ceiling
    BY <2>1, LimitOfRequest DEF BodyInvariant, BodyOK, BeforeBody
  <2>2. QED
    BY <2>1 DEF BodyInvariant, BodyOK, BodiesWithinLimit
<1>2. QED
  BY <1>1, BodyHolds, PTL

(* A body refused while it streams is greater than the cap of its request. *)
THEOREM RefusalsHold == Spec => []RefusalsAreJustified
<1>1. BodyInvariant => RefusalsAreJustified
  BY DEF BodyInvariant, BodyOK, RefusalsAreJustified
<1>2. QED
  BY <1>1, BodyHolds, PTL
=============================================================================
