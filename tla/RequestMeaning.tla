----------------------------- MODULE RequestMeaning -----------------------------
(***************************************************************************)
(* What a makeCredential, getAssertion or clientPIN request says, defined  *)
(* from its entries and not from the bytes: the reference for the parsers  *)
(* of CtapRequests, and the requests they are checked on.                  *)
(*                                                                         *)
(* An entry is a key, the items of its value, and what it means: the       *)
(* fields of the parsed request that it determines.  The requests are a    *)
(* usual one with at most two of its entries replaced or left out, each in *)
(* the orders that put every entry first, last, before and after any       *)
(* other.                                                                  *)
(***************************************************************************)
EXTENDS CtapRequests

Entry(k, items, means) == [key |-> k, items |-> items, means |-> means]
NoEntry == Entry(0, <<>>, <<>>)

\* A map from text keys to values, each the items of one.
TextMap(pairs) ==
  <<Map(Len(pairs))>> \o
    FlattenSeq([k \in 1 .. Len(pairs) |-> <<Text(pairs[k][1], 1)>> \o pairs[k][2]])

Numbered(pairs) ==
  <<Map(Len(pairs))>> \o
    FlattenSeq([k \in 1 .. Len(pairs) |-> <<Number(pairs[k][1])>> \o pairs[k][2]])

List(elements) == <<Array(Len(elements))>> \o FlattenSeq(elements)

\* What the parsers do not know: a map of a list and a map, as a value.
Nested == TextMap(<< <<"a", List(<< <<Null>>, <<Number(2)>> >>)>>, <<"b", TextMap(<<>>)>> >>)

Str(s, n)  == [data |-> s, length |-> n]
AText(s)   == <<Text(s, 8)>>
ABytes(s)  == <<Bytes(s, 16)>>
Hash       == Str("hash", HashSize)
Param      == Str("param", 16)

Credential(id) == TextMap(<< <<"type", AText("public-key")>>, <<"id", ABytes(id)>> >>)
Named(id)      == TextMap(<< <<"id", ABytes(id)>>, <<"transports", List(<<AText("usb")>>)>> >>)

Algorithm(type, alg) == TextMap(<< <<"alg", <<Number(alg)>> >>, <<"type", AText(type)>> >>)

--------------------------------------------------------------------------------
(* The entries; the first choice of each key is the usual one.               *)

HashEntry(k)     == Entry(k, <<Bytes("hash", HashSize)>>, [hash |-> Hash])
ParamEntry(k)    == Entry(k, <<Bytes("param", 16)>>, [param |-> Param])
ProtocolEntry(k) == Entry(k, <<Number(1)>>, [protocol |-> 1])
UnknownEntry     == Entry(77, Nested, <<>>)

RpEntry(pairs)   == Entry(2, TextMap(pairs), [rp |-> Str("rp", 8)])
UserEntry(pairs, name) ==
  Entry(3, TextMap(pairs), [user |-> Str("user", 16), name |-> name])
ParamsEntry(list, yes)  == Entry(4, List(list), [es256 |-> yes])
ExcludeEntry(list, yes) == Entry(5, List(list), [excluded |-> yes])
OptionsEntry(k, pairs, rk, uv) == Entry(k, TextMap(pairs), [rk |-> rk, uv |-> uv])

Id(key, value) == <<key, value>>
True  == <<Bool(TRUE)>>
False == <<Bool(FALSE)>>

MakeChoices ==
  << <<HashEntry(1), NoEntry>>,
     <<RpEntry(<< <<"id", AText("rp")>>, <<"name", AText("name")>> >>),
       RpEntry(<< <<"icon", Nested>>, <<"id", AText("rp")>> >>), NoEntry>>,
     <<UserEntry(<< <<"id", ABytes("user")>>, <<"name", AText("name")>> >>, Str("name", 8)),
       UserEntry(<< <<"icon", Nested>>, <<"id", ABytes("user")>> >>, None), NoEntry>>,
     <<ParamsEntry(<<Algorithm("public-key", ES256)>>, TRUE),
       ParamsEntry(<<Algorithm("public-key", -257), Algorithm("public-key", ES256)>>, TRUE),
       ParamsEntry(<<Algorithm("public-key", ES256), Algorithm("password", -8)>>, TRUE),
       ParamsEntry(<<Algorithm("password", ES256), Algorithm("public-key", -8)>>, FALSE),
       ParamsEntry(<<>>, FALSE), NoEntry>>,
     <<NoEntry, ExcludeEntry(<<Credential("lost"), Named("stored")>>, TRUE),
       ExcludeEntry(<<Named("stored"), Credential("lost")>>, TRUE),
       ExcludeEntry(<<Named("lost")>>, FALSE)>>,
     <<NoEntry, Entry(6, TextMap(<< <<"credProtect", <<Number(2)>> >>, <<"hmac-secret", True>> >>),
                      [hmacSecret |-> TRUE])>>,
     <<OptionsEntry(7, << <<"rk", True>>, <<"uv", False>> >>, TRUE, FALSE),
       OptionsEntry(7, << <<"up", True>>, <<"uv", True>> >>, FALSE, TRUE), NoEntry>>,
     <<ParamEntry(8), NoEntry>>,
     <<ProtocolEntry(9), Entry(9, <<Number(2)>>, [protocol |-> 2]), NoEntry>>,
     <<NoEntry, UnknownEntry>> >>

Agreement == Numbered(<< <<1, <<Number(2)>> >>, <<-3, <<Bytes("y", 32)>> >>, <<-2, <<Bytes("x", 32)>> >> >>)
Point     == [data |-> <<"x", "y">>, length |-> 65]

SecretEntry(pairs, means) ==
  Entry(4, TextMap(<< <<"hmac-secret", Numbered(pairs)>>, <<"minPinLength", False>> >>),
        [f \in DOMAIN means \cup {"hmacSecret"} |-> IF f = "hmacSecret" THEN TRUE ELSE means[f]])

SaltEnc  == <<3, <<Bytes("salts", 64)>> >>
SaltAuth == <<4, <<Bytes("auth", 16)>> >>

AllowEntry(list, id) == Entry(3, List(list), [allow |-> Str(id, 16)])
ShortLists ==
  <<AllowEntry(<<Credential("stored")>>, "stored"), AllowEntry(<<Named("lost")>>, "lost"),
    Entry(3, List(<<>>), <<>>), NoEntry>>
LongLists ==
  <<AllowEntry(<<Credential("stored"), Credential("lost")>>, "stored"),
    AllowEntry(<<Named("lost"), Named("stored")>>, "lost")>>

GetChoices ==
  << <<Entry(1, <<Text("rp", 8)>>, [rpId |-> Str("rp", 8)]), NoEntry>>,
     <<HashEntry(2), NoEntry>>,
     ShortLists \o LongLists,
     <<SecretEntry(<< <<1, <<Number(1)>> >>, <<2, Agreement>>, SaltEnc, SaltAuth>>,
         [hmacProtocol |-> 1, agreement |-> Point, saltEnc |-> Str("salts", 64),
          saltAuth |-> Str("auth", 16)]),
       SecretEntry(<<SaltAuth, <<9, Nested>>, <<2, Agreement>> >>,
         [agreement |-> Point, saltAuth |-> Str("auth", 16)]),
       NoEntry>>,
     <<OptionsEntry(5, << <<"uv", True>> >>, FALSE, TRUE),
       OptionsEntry(5, << <<"up", True>>, <<"uv", False>> >>, FALSE, FALSE), NoEntry>>,
     <<ParamEntry(6), NoEntry>>,
     <<ProtocolEntry(7), NoEntry>>,
     <<NoEntry, UnknownEntry>> >>

\* Subcommands that change nothing, with what else a clientPIN request may carry.
PinChoices ==
  << <<ProtocolEntry(1), Entry(1, <<Number(2)>>, [protocol |-> 2]), NoEntry>>,
     <<Entry(2, <<Number(1)>>, [subcommand |-> 1]), Entry(2, <<Number(9)>>, [subcommand |-> 9]),
       Entry(2, <<Number(6)>>, [subcommand |-> 6]), NoEntry>>,
     <<Entry(3, Agreement, [agreement |-> Point]), NoEntry>>,
     <<ParamEntry(4), NoEntry>>,
     <<Entry(5, <<Bytes("new", 64)>>, [newPin |-> Str("new", 64)]), NoEntry>>,
     <<Entry(6, <<Bytes("old", 16)>>, [pinHash |-> Str("old", 16)]), NoEntry>>,
     <<NoEntry, Entry(9, <<Number(3)>>, [permitted |-> TRUE])>>,
     <<NoEntry, UnknownEntry>> >>

--------------------------------------------------------------------------------
(* The requests and their meaning                                            *)

\* A choice for each key: the usual one for all but two.
Picks(choices) ==
  LET Keys == DOMAIN choices
  IN  {[k \in Keys |-> IF k = q[1] THEN q[3] ELSE IF k = q[2] THEN q[4] ELSE 1] :
         q \in {c \in Keys \X Keys \X (1 .. 6) \X (1 .. 6) :
                  c[3] <= Len(choices[c[1]]) /\ c[4] <= Len(choices[c[2]])}}

\* The entries of a pick, each as its place and its choice, in the order of their keys.
Sorted(choices, pick) ==
  SelectSeq([k \in DOMAIN choices |-> <<k, pick[k]>>], LAMBDA q : choices[q[1]][q[2]].key # 0)

\* The rotations of a request and of its reverse.
Turns(o) ==
  {SubSeq(s, k, Len(s)) \o SubSeq(s, 1, k - 1) : k \in 1 .. Len(o), s \in {o, Reverse(o)}}

Orders(choices) == UNION {Turns(Sorted(choices, pick)) : pick \in Picks(choices)}
Usual(choices)  == Turns(Sorted(choices, [k \in DOMAIN choices |-> 1]))

\* The entries that an order stands for.
Of(choices, o) == [k \in DOMAIN o |-> choices[o[k][1]][o[k][2]]]

Encode(es) == Numbered([k \in 1 .. Len(es) |-> <<es[k].key, es[k].items>>])

Present(es) == {es[k].key : k \in 1 .. Len(es)}

\* The parsed request in which every entry has put what it means.
Says(es, blank) ==
  [f \in DOMAIN blank |->
     IF \E k \in 1 .. Len(es) : f \in DOMAIN es[k].means
     THEN LET k == CHOOSE k \in 1 .. Len(es) : f \in DOMAIN es[k].means IN es[k].means[f]
     ELSE blank[f]]

MakeDeserves(es, pinSet) ==
  LET said == Says(es, BlankMake)
  IN  IF ~ {1, 2, 3} \subseteq Present(es) THEN "missing parameter"
      ELSE IF ~ said.es256 THEN "unsupported algorithm"
      ELSE IF said.uv /\ ~ pinSet THEN "pin not set" ELSE "ok"

GetDeserves(es, pinSet) ==
  LET said == Says(es, BlankGet)
  IN  IF ~ {1, 2} \subseteq Present(es) THEN "missing parameter"
      ELSE IF said.uv /\ ~ pinSet THEN "pin not set"
      ELSE IF said.hmacSecret /\ said.saltEnc = Absent THEN "missing parameter" ELSE "ok"

PinDeserves(es) ==
  LET said == Says(es, BlankPin)
  IN  IF ~ {1, 2} \subseteq Present(es) THEN "invalid cbor"
      ELSE IF said.protocol # 1 \/ said.subcommand = 6 THEN "unsupported option"
      ELSE IF said.subcommand = 1 THEN "ok"
      ELSE IF said.permitted THEN "unsupported option" ELSE "missing parameter"

--------------------------------------------------------------------------------
(* The messages: of a kind, with the entries of an order, and whole, or cut  *)
(* after some items, or with one item that cannot be read.                   *)

Kinds == {"make", "get", "pin"}

ChoicesOf(kind) ==
  CASE kind = "make" -> MakeChoices [] kind = "get" -> GetChoices [] kind = "pin" -> PinChoices

Message(kind, order, defect, k) == [kind |-> kind, order |-> order, defect |-> defect, at |-> k]

EntriesOf(m) == Of(ChoicesOf(m.kind), m.order)

Spoil(whole, m) ==
  CASE m.defect = "none" -> whole
    [] m.defect = "cut" -> SubSeq(whole, 1, m.at - 1)
    [] m.defect = "unreadable" -> [whole EXCEPT ![m.at] = Tag]

ItemsOf(m) == Spoil(Encode(EntriesOf(m)), m)

\* A list of several credentials that ends the request, or none.
ShortOrLast(o) == \A k \in 1 .. Len(o) - 1 : o[k][1] = 3 => o[k][2] <= Len(ShortLists)

Whole(kind) == {Message(kind, o, "none", 0) : o \in Orders(ChoicesOf(kind))}

Defective(kind) ==
  UNION {{Message(kind, o, d, k) :
            d \in {"cut", "unreadable"}, k \in 1 .. Len(Encode(Of(ChoicesOf(kind), o)))} :
         o \in Usual(ChoicesOf(kind))}

\* What the parser should make of a message of these entries.
MeaningOf(es, kind, pinSet) ==
  CASE kind = "make" -> [status |-> MakeDeserves(es, pinSet), request |-> Says(es, BlankMake)]
    [] kind = "get" -> [status |-> GetDeserves(es, pinSet), request |-> Says(es, BlankGet)]
    [] kind = "pin" -> [status |-> PinDeserves(es), request |-> Says(es, BlankPin)]

Meaning(m, pinSet) == MeaningOf(EntriesOf(m), m.kind, pinSet)
================================================================================
