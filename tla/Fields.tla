------------------------------- MODULE Fields -------------------------------
(***************************************************************************)
(* How the parsers of the sources read one field of an untrusted JSON      *)
(* answer: what they keep of it, and which issues they record.             *)
(*                                                                         *)
(* A JSON value is tagged with its type.  A text is one of the classes the *)
(* parsers tell apart: "blank", "long" (beyond the limit), "markup" (not a *)
(* short token), "key" (contains the API key), or any other, which is a    *)
(* token.  A timestamp is a text with a time of its own.                   *)
(***************************************************************************)
EXTENDS Integers, Sequences, FiniteSets

None == <<"none">>        \* the object has no such field
Null == <<"null">>
Junk == <<"junk">>        \* a type that is never expected
Num(n) == <<"num", n>>
Digits(n) == <<"digits", n>>
Flag(b) == <<"flag", b>>
Text(s) == <<"text", s>>
Time(n, zoned) == <<"time", n, zoned>>
List(items) == <<"list", items>>
Object(fields) == <<"object", fields>>

Is(value, type) == value[1] = type
Absent(value) == value \in {None, Null}
Of(fields, key) == IF key \in DOMAIN fields THEN fields[key] ELSE None

(* What is read of a field: the values that are kept, none or one unless   *)
(* the field is a list, and the issues, each naming the field.             *)
Read(kept, issues) == [kept |-> kept, issues |-> issues]
Keep(value) == Read({value}, {})
Drop(key, why) == Read({}, {<<key, why>>})
Skip == Read({}, {})

(* What is read of an object: a reading for each field.                    *)
Issues(report) == UNION {report[field].issues : field \in DOMAIN report}
Kept(report, field) == report[field].kept

Missing(key, required) == IF required THEN Drop(key, "missing") ELSE Skip

(* An object inside the answer; an answer without it has no fields.        *)
Inner(value) == IF Is(value, "object") THEN value[2] ELSE <<>>

InnerIssues(value, key) ==
  CASE Is(value, "object") -> {}
    [] Absent(value) -> {<<key, "missing">>}
    [] OTHER -> {<<key, "unexpected type">>}

First(items, n) == SubSeq(items, 1, IF Len(items) < n THEN Len(items) ELSE n)

Cut(items, n) == Len(items) - Len(First(items, n))

Distinct(items) == {items[i] : i \in DOMAIN items}

IsSequence(value) == Is(value, "list") => value[2] \in Seq(Distinct(value[2]))

(* A response is a status and a body: "not json" or an object.             *)
Response(status, body) == [status |-> status, body |-> body]

(* What collect returns: an error, or a collection with one observation    *)
(* of the given kind that every finding cites.                             *)
Error(why) == [error |-> why, observed |-> "nothing", findings |-> {},
               confidence |-> 0, report |-> <<>>]

-----------------------------------------------------------------------------
(* Values *)

(* A non-negative integer; some fields are documented as digits.           *)
Count(value, key, required, max, digits) ==
  LET number == Is(value, "num") \/ (digits /\ Is(value, "digits")) IN
  IF Absent(value) THEN Missing(key, required)
  ELSE IF ~number THEN Drop(key, "not a non-negative integer")
  ELSE IF value[2] \in 0..max THEN Keep(value[2])
  ELSE Drop(key, IF value[2] > max THEN "out of range"
                 ELSE "not a non-negative integer")

(* 1990..9999 *)
Plausible(time) == time > 0

(* Unix seconds. *)
Seconds(value, key) ==
  IF Absent(value) THEN Skip
  ELSE IF ~Is(value, "num") THEN Drop(key, "not an integer UTC timestamp")
  ELSE IF Plausible(value[2]) THEN Keep(value[2])
  ELSE Drop(key, "outside the plausible date range")

(* A text with a time zone, or one whose zone is documented.               *)
Timestamp(value, key, documented) ==
  IF Absent(value) THEN Skip
  ELSE IF ~Is(value, "time") THEN Drop(key, "not a timestamp")
  ELSE IF ~documented /\ ~value[3] THEN Drop(key, "no time zone")
  ELSE IF Plausible(value[2]) THEN Keep(value[2])
  ELSE Drop(key, "outside the plausible date range")

Boolean(value, key) ==
  CASE Absent(value) -> Skip
    [] Is(value, "flag") -> Keep(value[2])
    [] OTHER -> Drop(key, "unexpected type")

IsToken(value) ==
  Is(value, "text") /\ value[2] \notin {"blank", "long", "markup"}

Token(value, key, required) ==
  IF Absent(value) THEN Missing(key, required)
  ELSE IF IsToken(value) THEN Keep(value[2])
  ELSE IF Is(value, "flag") THEN Keep(IF value[2] THEN "true" ELSE "false")
  ELSE Drop(key, IF Is(value, "text") THEN "not a short token" ELSE "unexpected type")

(* A text of any kind, truncated when it is too long.                      *)
Words(value, key) ==
  IF Absent(value) \/ value = Text("blank") THEN Skip
  ELSE IF ~Is(value, "text") THEN Drop(key, "unexpected type")
  ELSE Read({value[2]},
            IF value = Text("long") THEN {<<key, "truncated">>} ELSE {})

(* A country is a text of two letters. *)
CountryCode(value, key) ==
  LET text == Words(value, key) IN
  IF text.kept \subseteq {"cc"} THEN text
  ELSE Read({}, text.issues \cup {<<key, "not a two-letter code">>})

(* The first texts of a list. *)
Texts(value, key, max, blankIsIssue) ==
  IF Absent(value) THEN Skip
  ELSE IF ~Is(value, "list") THEN Drop(key, "unexpected type")
  ELSE
    LET examined == {i \in DOMAIN value[2] : i <= max}
        items == {value[2][i] : i \in examined}
        texts == {item \in items : Is(item, "text")}
        blank == {item \in texts : item[2] = "blank"}
    IN Read({item[2] : item \in texts \ blank},
            {<<key, "too many entries">> : i \in DOMAIN value[2] \ examined}
              \cup {<<key, "truncated">> : item \in {Text("long")} \cap texts}
              \cup {<<key, "unexpected type">> :
                      item \in (items \ texts)
                                 \cup (IF blankIsIssue THEN blank ELSE {})})

(* redact_echoed_key, in the given fields; they hold texts.                *)
EchoIssue == <<"response", "contained the API key; it was redacted">>

Redacted(report, fields) ==
  [field \in DOMAIN report |->
     IF field \in fields /\ "key" \in report[field].kept
     THEN Read((report[field].kept \ {"key"}) \cup {"REDACTED"},
               report[field].issues \cup {EchoIssue})
     ELSE report[field]]
=============================================================================
