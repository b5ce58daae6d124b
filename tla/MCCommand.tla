----------------------------- MODULE MCCommand -----------------------------
(* The addresses at every edge of every assigned range, names and hashes   *)
(* around the limits, keys of every kind, and two runs that are told to    *)
(* write the same file.                                                    *)
EXTENDS Command
LOCAL INSTANCE TLC

(* The next address, and the one before, wrapping around.                  *)
Carry(ip, step) ==
  LET size == 2 ^ UnitBits(ip)
      edge == IF step = 1 THEN size - 1 ELSE 0
      carried(i) == \A j \in (i + 1)..Len(ip) : ip[j] = edge
  IN [i \in DOMAIN ip |-> IF carried(i) THEN (ip[i] + step + size) % size ELSE ip[i]]

LastOf(prefix) ==
  LET bits == UnitBits(prefix.network)
      Free(i) == 2 ^ (bits - Between(0, prefix.length - (i - 1) * bits, bits))
  IN [i \in DOMAIN prefix.network |-> prefix.network[i] + Free(i) - 1]

Edges(registry) ==
  UNION {{entry[1].network, LastOf(entry[1]),
          Carry(entry[1].network, -1), Carry(LastOf(entry[1]), 1)} : entry \in registry}

Inside == {<<8, 8, 8, 8>>, <<10, 0, 0, 1>>, <<169, 254, 169, 254>>, <<172, 31, 255, 255>>}

Embedding ==
  UNION {LET high == ip[1] * 256 + ip[2]
             low == ip[3] * 256 + ip[4]
         IN {Zeros(5) \o <<\hffff, high, low>>, <<\h64, \hff9b, 0, 0, 0, 0, high, low>>,
             <<\h2002, high, low, 0, 0, 0, 0, 1>>, Zeros(6) \o <<high, low>>} : ip \in Inside}

Addresses46 == Edges(IPv4Registry) \cup Edges(IPv6Registry) \cup Inside \cup Embedding

Raw(text) == [size |-> 20, defanged |-> FALSE, text |-> text]

Label(text, typed, ascii, form) == [text |-> text, typed |-> typed, ascii |-> ascii, form |-> form]
Plain(text) == Label(text, 3, 3, "plain")

Com == Plain("com")
Long == Label("long", 5, 5, "plain")
Labels ==
  {<<Plain("example"), Com>>, <<Com>>, <<Plain("example")>>, <<Com, Plain("example")>>,
   <<Plain("local"), Com>>, <<Com, Plain("local")>>, <<Com, Plain("home"), Plain("arpa")>>,
   <<Com, Plain("arpa")>>, <<Plain("home"), Com>>,
   <<Label("", 0, 0, "plain"), Com>>, <<Label("x", 3, 3, "hyphen"), Com>>,
   <<Label("x", 3, 3, "odd"), Com>>, <<Label("x", 3, 0, "unmapped"), Com>>,
   <<Com, Label("1", 1, 1, "digits")>>, <<Label("1", 1, 1, "digits"), Com>>,
   <<Label("wide", 2, 5, "plain"), Long, Com>>, <<Label("wide", 2, 6, "plain"), Com>>,
   <<Label("six", 6, 6, "plain"), Com>>, <<Long, Long, Com>>, <<Long, Long, Long>>}

Targets ==
  {("ip" :> Raw(Address(ip))) : ip \in Addresses46}
    \cup {("domain" :> Raw(Name(labels, dots))) : labels \in Labels, dots \in 0..2}
    \cup {("hash" :> Raw(Digest(n))) : n \in {31, 32, 40, 64}}
    \cup {(option :> raw) : option \in {"domain", "ip", "hash"},
            raw \in {Raw(Blank), Raw(Junk), Raw(Link), Raw(Bracketed(V6(<<\h2600>>))),
                     Raw(Address(<<8, 8, 8, 8>>)), Raw(Name(<<Long, Com>>, 0)), Raw(Digest(40)),
                     [size |-> 21, defanged |-> FALSE, text |-> Digest(64)],
                     [size |-> 15, defanged |-> TRUE, text |-> Name(<<Long, Com>>, 0)],
                     [size |-> 15, defanged |-> TRUE, text |-> Address(<<8, 8, 8, 8>>)]}}
    \cup {<<>>, ("ip" :> Raw(Address(<<8, 8, 8, 8>>))) @@ ("hash" :> Raw(Digest(64)))}

Called(targets, timeout, env, output, format) ==
  [targets |-> targets, timeout |-> timeout, env |-> env, output |-> output,
   format |-> format, correlate |-> format = "json"]

Hash(n) == "hash" :> Raw(Digest(n))

Key(size, form, by) == [size |-> size, form |-> form, by |-> by]
Own == {Key(2, "plain", "own"), Key(0, "plain", "own"), Key(3, "plain", "own"),
        Key(1, "odd", "own"), Key(2, "not utf8", "own")}
Shared == {Key(2, "plain", "shared"), Key(2, "not utf8", "shared")}

Environments ==
  {<<>>} \cup {("SENTINEL_MALWAREBAZAAR_KEY" :> own) : own \in Own}
    \cup {("SENTINEL_ABUSECH_KEY" :> shared) : shared \in Shared}
    \cup {("SENTINEL_MALWAREBAZAAR_KEY" :> own) @@ ("SENTINEL_ABUSECH_KEY" :> shared) :
            own \in Own, shared \in Shared}
    \cup {("SENTINEL_VIRUSTOTAL_KEY" :> own) : own \in Own}

AllInvocations ==
  [first |->
     {Called(targets, 2, <<>>, "stdout", "table") : targets \in Targets}
       \cup {Called(Hash(64), 2, env, "stdout", "table") : env \in Environments}
       \cup {Called(Hash(64), timeout, <<>>, output, format) :
               timeout \in 0..4, output \in {"stdout", "file"}, format \in {"table", "json"}},
   second |-> {Called(Hash(64), 3, <<>>, "file", "table")}]
=============================================================================
