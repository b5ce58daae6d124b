--------------------------- MODULE MCHttpClient ---------------------------
(***************************************************************************)
(* Instances of HttpClient for TLC: URLs that differ from the request's in *)
(* one thing the policy looks at each, and answers of the name server with *)
(* public addresses, private ones, both or none.                           *)
(***************************************************************************)
EXTENDS HttpClient

CONSTANTS
  c1, c2, c3,          \* calls
  api, cdn, pub, priv  \* hosts

Https(host) ==
  [scheme |-> "https", credentials |-> FALSE, host |-> host, port |-> 443]

Api == Https(api)

AllURLs ==
  {Api, [Api EXCEPT !.port = 8443], [Api EXCEPT !.scheme = "http"],
   [Api EXCEPT !.credentials = TRUE], Https(cdn), Https(pub), Https(priv),
   Https(None)}
OneURL == {Api}

Ask(url, secret, cap) == [url |-> url, secret |-> secret, cap |-> cap]

(* Plain, with a secret, and ones that are refused before they are sent. *)
PolicyRequests ==
  {Ask(Api, FALSE, None), Ask(Api, TRUE, None), Ask(Https(priv), TRUE, None),
   Ask(Https(pub), FALSE, None)}

(* The default cap, a lower one, and one above the ceiling. *)
SizedRequests == {Ask(Api, FALSE, None), Ask(Api, FALSE, 1),
                  Ask(Api, TRUE, 9)}
AllRequests == PolicyRequests \cup SizedRequests

PlainRequests == {Ask(Api, FALSE, None)}

Lookups ==
  [n \in Names |-> IF n = api THEN {{pub}, {pub, priv}, {priv}}
                   ELSE {{priv}, {pub}}]
=============================================================================
