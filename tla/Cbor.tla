---------------------------------- MODULE Cbor ----------------------------------
(***************************************************************************)
(* The CBOR reader, src/src/cbor.c, on messages that are sequences of data *)
(* items: a header with its argument, and the string that belongs to it.   *)
(*                                                                         *)
(* A reader is a record: `ok` until a read has failed, `rest` the items it *)
(* has still to read, `got` what the caller has taken from those it read.  *)
(* A read that fails is never followed by another one: every caller        *)
(* returns.                                                                *)
(*                                                                         *)
(* Abstractions.  The bytes of a header are one item, so that a message    *)
(* can be cut between items only, and the sizes that no message of the     *)
(* transport can have, above 2^31, do not occur.                           *)
(***************************************************************************)
EXTENDS Integers, Sequences, SequencesExt

Map(n)      == [kind |-> "map", value |-> n]
Array(n)    == [kind |-> "array", value |-> n]
Number(n)   == [kind |-> "int", value |-> n]
Bool(b)     == [kind |-> "bool", value |-> b]
Null        == [kind |-> "simple", value |-> 0]
Text(s, n)  == [kind |-> "text", value |-> [data |-> s, length |-> n]]
Bytes(s, n) == [kind |-> "bytes", value |-> [data |-> s, length |-> n]]
Tag         == [kind |-> "unreadable", value |-> 0]  \* also an argument of 64 bits

\* meowkey_cbor_reader_init, with what the caller starts from.
Reader(items, blank) == [ok |-> TRUE, rest |-> items, got |-> blank]

Fail(r) == [r EXCEPT !.ok = FALSE]

\* cbor_read_initial and the test of the major type
At(r, kind) == r.ok /\ r.rest # <<>> /\ Head(r.rest).kind = kind

Past(r) == [r EXCEPT !.rest = Tail(@)]

\* meowkey_cbor_read_int, _bool, _bytes and _text: the caller refuses a value that it
\* does not accept and copies one that it does.
Read(r, kind, Accepts(_), Copy(_, _)) ==
  IF At(r, kind) /\ Accepts(Head(r.rest).value)
  THEN [Past(r) EXCEPT !.got = Copy(r.got, Head(r.rest).value)]
  ELSE Fail(r)

\* Mutant: a map counts as many items as entries.
AnnouncedOnce(item) == IF item.kind \in {"map", "array"} THEN item.value ELSE 0

\* The items that the header of an item announces.
Announced(item) ==
  CASE item.kind = "map"   -> 2 * item.value
    [] item.kind = "array" -> item.value
    [] OTHER               -> 0

\* meowkey_cbor_skip and cbor_skip_items, which call each other: the shortest run of
\* items in which every item announced has come.
Skip(r) ==
  LET owed[k \in 0 .. Len(r.rest)] ==
        IF k = 0 THEN 1 ELSE owed[k - 1] - 1 + Announced(r.rest[k])
      ends == {k \in 1 .. Len(r.rest) : owed[k] = 0}
  IN  IF r.ok /\ ends # {} /\ \A k \in 1 .. Min(ends) : r.rest[k].kind # "unreadable"
      THEN [r EXCEPT !.rest = SubSeq(@, Min(ends) + 1, Len(@))]
      ELSE Fail(r)

\* The loops of the parsers over what a map or an array announced.
Repeat(r, n, Step(_)) ==
  FoldLeft(LAMBDA s, k : IF s.ok THEN Step(s) ELSE s, r, [k \in 1 .. n |-> k])

\* meowkey_cbor_read_map_start, and for each entry its key and what Entry does next.
ReadMap(r, keys, Entry(_, _)) ==
  IF At(r, "map")
  THEN Repeat(Past(r), Head(r.rest).value,
              LAMBDA s : IF At(s, keys) THEN Entry(Past(s), Head(s.rest).value) ELSE Fail(s))
  ELSE Fail(r)

\* meowkey_cbor_read_array_start, and each element.
ReadArray(r, Element(_)) ==
  IF At(r, "array") THEN Repeat(Past(r), Head(r.rest).value, Element) ELSE Fail(r)
================================================================================
