---------------------------- MODULE Registration ----------------------------
(***************************************************************************)
(* What the RDAP collector makes of the answer of a registry               *)
(* (crates/collectors/src/sources/rdap).  Module Rdap has how the registry *)
(* is found.                                                               *)
(*                                                                         *)
(* A text that is an address of the queried family is <<"ip", n>>; n is a  *)
(* number of a few bits.  An empty status is "blank", a plausible mailbox  *)
(* "mail".  A card is the list of its properties, each <<"property", name, *)
(* text>>.                                                                 *)
(***************************************************************************)
EXTENDS Fields

CONSTANTS
  Queried,       \* the address that is queried
  Bits,          \* of an address
  MaxPrefixes,   \* MAX_CIDRS
  MaxStatuses,   \* MAX_STATUS_ITEMS
  MaxEvents,     \* MAX_EVENTS
  MaxEntities,   \* MAX_ENTITIES, of one list and of all
  MaxDepth,      \* MAX_ENTITY_DEPTH
  MaxProperties  \* MAX_VCARD_PROPERTIES

(* The addresses of a block of a length: 2 ^ (Bits - length).              *)
Powers[n \in 0..Bits] == IF n = 0 THEN 1 ELSE 2 * Powers[n - 1]
Size(length) == Powers[Bits - length]

ASSUME RegistrationConstants ==
  /\ {Bits, MaxPrefixes, MaxStatuses, MaxEvents, MaxEntities, MaxDepth,
      MaxProperties} \subseteq Nat
  /\ MaxDepth # 0
  /\ Queried \in 0..(Size(0) - 1)

IP(n) == <<"ip", n>>
Property(name, text) == <<"property", name, text>>

Items(value, max) == IF Is(value, "list") THEN First(value[2], max) ELSE <<>>

-----------------------------------------------------------------------------
(* The fields of the network *)

Version(value) ==
  CASE Absent(value) -> Skip
    [] value = Text("queried family") -> Keep(value[2])
    [] value = Text("other family") ->
         Read({value[2]}, {<<"ipVersion", "not that of the queried address">>})
    [] OTHER -> Drop("ipVersion", "not v4 or v6")

RangeAddress(object, key) ==
  LET value == Of(object, key) IN
  CASE Absent(value) -> Skip
    [] Is(value, "ip") -> Keep(value[2])
    [] Is(value, "text") -> Drop(key, "not an address of the queried family")
    [] OTHER -> Drop(key, "unexpected type")

(* Both ends are dropped when they are in the wrong order.                 *)
RangeAddresses(object) ==
  LET start == RangeAddress(object, "startAddress")
      end == RangeAddress(object, "endAddress")
      reversed == \E s \in start.kept, e \in end.kept : s > e
      unordered == Drop("startAddress", "after endAddress")
  IN [startAddress |-> IF reversed THEN unordered ELSE start,
      endAddress |-> IF reversed THEN unordered ELSE end]

Block(network, length) == [network |-> network, length |-> length]

Holds(block, n) == block.network = n - (n % Size(block.length))

(* A network of a length with no host bits set.                            *)
BlocksOf(entry) ==
  LET network == Of(Inner(entry), "prefix")
      length == Of(Inner(entry), "length")
  IN {Block(network[2], n) : n \in
        {l \in 0..Bits : Is(network, "ip") /\ length = Num(l)
                           /\ network[2] % Size(l) = 0}}

(* Unlike other fields, one that is null is of an unexpected type.         *)
CIDRs(value) ==
  LET examined == {i \in DOMAIN value[2] : i <= MaxPrefixes}
      entries == {value[2][i] : i \in examined}
  IN
  CASE value = None -> Skip
    [] Is(value, "list") ->
         Read(UNION {BlocksOf(entry) : entry \in entries},
              {<<"cidr0_cidrs", "not a valid CIDR">> :
                 entry \in {e \in entries : BlocksOf(e) = {}}}
                \cup {<<"cidr0_cidrs", "too many">> : i \in DOMAIN value[2] \ examined})
    [] OTHER -> Drop("cidr0_cidrs", "unexpected type")

Status(value) ==
  IF value = Null THEN Drop("status", "unexpected type")
  ELSE Texts(value, "status", MaxStatuses, TRUE)

(* The first date of the events of a kind; those beyond the limit are not  *)
(* looked at.                                                              *)
EventDate(value, action) ==
  LET events == SelectSeq(Items(value, MaxEvents),
                  LAMBDA e : Of(Inner(e), "eventAction") = Text(action))
      date(event) == Of(event[2], "eventDate")
      dated == SelectSeq(events, LAMBDA e : Is(date(e), "time") /\ date(e)[3])
  IN Read({date(dated[i])[2] : i \in {1} \cap DOMAIN dated},
          {<<"events", "not an RFC 3339 date">> :
             event \in Distinct(events) \ Distinct(dated)}
            \cup {<<"events", "unexpected type">> :
                    v \in {w \in {value} : w # None /\ ~Is(w, "list")}})

-----------------------------------------------------------------------------
(* entities: a walk of the tree, in the order of the document, that is     *)
(* bounded in depth and in number.                                         *)

Children(object) ==
  LET list == Of(object, "entities") IN
  Read(Items(list, MaxEntities),
       {<<"entities", "too many">> : i \in {j \in {MaxEntities + 1} :
                                              Is(list, "list") /\ j <= Len(list[2])}})

(* What the first property of a name says.                                 *)
Slot(card, name) ==
  LET items == Items(card, MaxProperties)
      named == {i \in DOMAIN items : Is(items[i], "property") /\ items[i][2] = name}
  IN {items[i][3] : i \in {j \in named : \A k \in named : j <= k}}

(* A card that says it is an individual's is not read further.             *)
IsModelled(entity) == Slot(Of(entity, "vcardArray"), "kind") # {"individual"}

(* What an entity says in a role. *)
SaysAs(entity, role, name) ==
  IF IsModelled(entity) /\ Text(role) \in Distinct(Items(Of(entity, "roles"), 16))
  THEN Slot(Of(entity, "vcardArray"), name) ELSE {}

At(depth, entities) ==
  [i \in DOMAIN entities |-> [entity |-> entities[i], depth |-> depth]]

ExamineEntity(walk, entity, depth) ==
  LET nested == IF depth < MaxDepth THEN Children(entity) ELSE Read(<<>>, {})
      named == SaysAs(entity, "registrant", "fn") \ {"blank"}
      mailbox == SaysAs(entity, "abuse", "email")
      issue(missing, values, why) == {why : v \in IF missing = {} THEN values ELSE {}}
  IN [pending |-> At(depth + 1, nested.kept) \o Tail(walk.pending),
      organization |-> IF walk.organization = {} THEN named ELSE walk.organization,
      abuse_email |-> IF walk.abuse_email = {} THEN mailbox \cap {"mail"}
                      ELSE walk.abuse_email,
      issues |-> walk.issues \cup nested.issues
        \cup issue(walk.organization, named \cap {"long"}, <<"organization", "truncated">>)
        \cup issue(walk.abuse_email, mailbox \ {"mail"}, <<"abuse_email", "not a mailbox">>)]

(* The n-th entity. *)
Visit(walk, n) ==
  LET next == Head(walk.pending)
      noting(why) == walk.issues \cup {<<"entities", why>>}
  IN CASE walk.pending = <<>> -> walk
       [] walk.pending # <<>> /\ n > MaxEntities ->
            [walk EXCEPT !.pending = <<>>, !.issues = noting("too many")]
       [] walk.pending # <<>> /\ n <= MaxEntities /\ ~Is(next.entity, "object") ->
            [walk EXCEPT !.pending = Tail(@), !.issues = noting("unexpected type")]
       [] OTHER -> ExamineEntity(walk, next.entity[2], next.depth)

Entities(object) ==
  LET top == Children(object)
      start == [pending |-> At(1, top.kept), organization |-> {},
                abuse_email |-> {}, issues |-> top.issues]
      visited[n \in 0..(MaxEntities + 1)] ==
        IF n = 0 THEN start ELSE Visit(visited[n - 1], n)
      walk == visited[MaxEntities + 1]
  IN [organization |-> Read(walk.organization, {}),
      abuse_email |-> Read(walk.abuse_email, {}),
      entity_issues |-> Read({}, walk.issues)]

(* Every entity of an object, and the object, down to each depth.          *)
Nested(entities) ==
  UNION {Distinct(Of(Inner(e), "entities")[2]) :
           e \in {f \in entities : Is(Of(Inner(f), "entities"), "list")}}

Tree(object) ==
  LET tree[n \in 0..MaxDepth] ==
        IF n = 0 THEN {object}
        ELSE LET above == tree[n - 1] IN above \cup Nested(above)
  IN tree

(* Lists are sequences, and addresses numbers of the queried family.       *)
IsNumber(value) == Is(value, "ip") => value[2] \in 0..(Size(0) - 1)

WellFormed(object) ==
  LET blocks == Of(Inner(object), "cidr0_cidrs") IN
  /\ \A entity \in Tree(object)[MaxDepth] :
       \A key \in {"entities", "roles", "vcardArray"} :
         IsSequence(Of(Inner(entity), key))
  /\ \A key \in {"startAddress", "endAddress"} : IsNumber(Of(Inner(object), key))
  /\ Is(blocks, "list") =>
       \A i \in DOMAIN blocks[2] : IsNumber(Of(Inner(blocks[2][i]), "prefix"))

-----------------------------------------------------------------------------
(* parse_network *)
Network(object) ==
  LET text(key) == Words(Of(object, key), key)
      range == RangeAddresses(object)
      entities == Entities(object)
  IN [handle |-> text("handle"), name |-> text("name"), type |-> text("type"),
      parentHandle |-> text("parentHandle"),
      country |-> CountryCode(Of(object, "country"), "country"),
      ipVersion |-> Version(Of(object, "ipVersion")),
      startAddress |-> range.startAddress, endAddress |-> range.endAddress,
      cidr0_cidrs |-> CIDRs(Of(object, "cidr0_cidrs")),
      status |-> Status(Of(object, "status")),
      registered_at |-> EventDate(Of(object, "events"), "registration"),
      last_changed_at |-> EventDate(Of(object, "events"), "last changed"),
      organization |-> entities.organization, abuse_email |-> entities.abuse_email,
      entity_issues |-> entities.entity_issues]

(* The most specific of the networks that hold the address.                *)
RegisteredIn(network) ==
  LET holding == {b \in Kept(network, "cidr0_cidrs") : Holds(b, Queried)} IN
  {b \in holding : \A other \in holding : other.length <= b.length}

RegistrationFindings(network) ==
  {"network"}
    \cup {"range_mismatch" :
            bounds \in {b \in Kept(network, "startAddress") \X Kept(network, "endAddress") :
                          Queried \notin b[1]..b[2]}}
    \cup {"incomplete" : issue \in Issues(network)}

(* What collect returns: one observation, and the edge to a network.       *)
Registered(network) ==
  [error |-> "none", observed |-> "registration", report |-> network,
   confidence |-> IF Issues(network) = {} THEN 95 ELSE 70,
   registered_in |-> RegisteredIn(network), findings |-> RegistrationFindings(network)]

RegistryAnswer(response) ==
  CASE response.status # 200 -> Error("unexpected status")
    [] response.status = 200
         /\ Of(Inner(response.body), "objectClassName") = Text("ip network") ->
         Registered(Network(response.body[2]))
    [] OTHER -> Error("invalid response")
=============================================================================
