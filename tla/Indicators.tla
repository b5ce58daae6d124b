---------------------------- MODULE Indicators -----------------------------
(***************************************************************************)
(* What a user's text is taken for, and whether it may be investigated.    *)
(*                                                                         *)
(* A raw text has a size in bytes, may be defanged, and reads as nothing,  *)
(* an address (perhaps in brackets), the labels of a name and the dots     *)
(* after them, a link, a hexadecimal digest of some length, or as none of  *)
(* these.  A label has the size it was typed with and the size it has in   *)
(* ASCII, and is plain, all digits, edged with a hyphen, odd (characters   *)
(* no name may have) or has no ASCII form at all.                          *)
(***************************************************************************)
EXTENDS Addresses
LOCAL INSTANCE SequencesExt

CONSTANTS MaxInput, MaxName, MaxLabel    \* in bytes

Blank == <<"blank">>
Address(units) == <<"address", units>>
Bracketed(units) == <<"brackets", units>>
Name(labels, dots) == <<"name", labels, dots>>
Link == <<"link">>
Digest(length) == <<"digest", length>>
Junk == <<"junk">>

Failure(why) == [error |-> why]
Success(indicator) == [indicator |-> indicator]
Failed(outcome) == "error" \in DOMAIN outcome

(* prepare: the limit is on the text as given; a defanged one is refanged. *)
Prepare(raw) ==
  IF raw.size > MaxInput THEN Failure("too long")
  ELSE IF raw.text = Blank THEN Failure("empty")
  ELSE Success([raw EXCEPT !.defanged = FALSE])

OfAddress(units) ==
  Success([kind |-> IF Len(units) = 4 THEN "ipv4" ELSE "ipv6", value |-> units])

(* Indicator::parse_ip: only IPv6 is written in brackets, and both parse. *)
ParseAddress(text) ==
  IF text[1] \in {"address", "brackets"} THEN OfAddress(text[2]) ELSE Failure("invalid")

(* The size of a name, with its dots, as typed or in ASCII. *)
NameSize(labels, form) ==
  FoldSeq(LAMBDA label, sum : label[form] + sum, Len(labels) - 1, labels)

(* validate_ascii *)
ValidLabel(label) ==
  /\ label.ascii \in 1..MaxLabel
  /\ label.form \in {"plain", "digits"}

ValidName(labels) ==
  /\ NameSize(labels, "ascii") <= MaxName
  /\ \A label \in ToSet(labels) : ValidLabel(label)
  /\ Len(labels) >= 2
  /\ Last(labels).form # "digits"

Texts(labels) == [i \in DOMAIN labels |-> labels[i].text]

(* DomainName::parse: one dot at the end is dropped, of any more the text  *)
(* ends in an empty label.  The first limit leaves room for that dot.      *)
ParseName(text) ==
  IF text[1] \in {"address", "brackets"} THEN Failure("address")
  ELSE IF text[1] = "link" THEN Failure("link")
  ELSE IF /\ text[1] = "name" /\ text[3] <= 1
          /\ NameSize(text[2], "typed") + text[3] <= MaxName + 1
          /\ ValidName(text[2])
       THEN Success([kind |-> "domain", value |-> Texts(text[2])])
  ELSE Failure("invalid")

Algorithm(length) ==
  CASE length = 32 -> "md5" [] length = 40 -> "sha1" [] length = 64 -> "sha256" [] OTHER -> "none"

ParseDigest(text) ==
  IF text[1] = "digest" /\ Algorithm(text[2]) # "none"
  THEN Success([kind |-> "hash", value |-> Algorithm(text[2])])
  ELSE Failure("invalid")

(* What a raw text is taken for by the parser of one kind of target.       *)
Parsed(raw, kind) ==
  LET prepared == Prepare(raw)
      text == prepared.indicator.text
  IN CASE Failed(prepared) -> prepared
       [] ~Failed(prepared) /\ prepared.indicator.defanged -> Failure("invalid")
       [] OTHER -> CASE kind = "domain" -> ParseName(text)
                     [] kind = "ip" -> ParseAddress(text)
                     [] OTHER -> ParseDigest(text)

SpecialUseSuffixes ==
  {<<suffix>> : suffix \in {"localhost", "local", "internal", "invalid", "test", "example",
                            "onion", "alt", "lan", "arpa"}} \cup {<<"home", "arpa">>}

(* Bug: the special name itself only, not the names under it. *)
IsSpecialName(name) == name \in SpecialUseSuffixes

IsUnder(suffix, name) ==
  /\ Len(suffix) <= Len(name)
  /\ SubSeq(name, Len(name) - Len(suffix) + 1, Len(name)) = suffix

(* DomainName::is_special_use *)
IsSpecialUse(name) == \E suffix \in SpecialUseSuffixes : IsUnder(suffix, name)

(* Indicator::ensure_investigable *)
IsInvestigable(indicator) ==
  CASE indicator.kind = "domain" -> ~IsSpecialUse(indicator.value)
    [] indicator.kind \in {"ipv4", "ipv6"} -> Classify(indicator.value) = "global"
    [] OTHER -> TRUE
=============================================================================
