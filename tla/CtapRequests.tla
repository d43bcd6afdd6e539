------------------------------ MODULE CtapRequests ------------------------------
(***************************************************************************)
(* What the device reads in the parameters of authenticatorMakeCredential, *)
(* authenticatorGetAssertion and authenticatorClientPIN:                   *)
(* parse_make_credential_request and parse_get_assertion_request of        *)
(* src/src/webauthn.c, up to the checks that need the PIN, which module    *)
(* Authenticator has, and parse_client_pin_request of client_pin.c.        *)
(*                                                                         *)
(* A parser threads a reader of Cbor through the entries of the request in *)
(* the order they come in; the reader's `got` is the structure that the    *)
(* entries fill in.  A string keeps its length, which the structure may    *)
(* have no room for.                                                       *)
(***************************************************************************)
EXTENDS Cbor

CONSTANT StoredIds   \* the credential ids that meowkey_store_find_by_credential_id finds

ES256         == -7
HashSize      == 32
RpIdSize      == 64
UserIdSize    == 64
NameSize      == 64
DisplaySize   == 96
CredentialIdSize == 32
ParamSize     == 32
SaltSize      == 64
NewPinSize    == 80
PinHashSize   == 32

None   == [data |-> "none", length |-> 0]
Absent == [data |-> "absent", length |-> -1]  \* no pinUvAuthParam, or no hash

BlankMake ==
  [hash |-> Absent, rp |-> None, user |-> None, name |-> None, display |-> None,
   es256 |-> FALSE, excluded |-> FALSE,
   hmacSecret |-> FALSE, rk |-> FALSE, uv |-> FALSE, param |-> Absent, protocol |-> 0]

BlankGet ==
  [rpId |-> Absent, hash |-> Absent, allow |-> Absent, rk |-> FALSE, uv |-> FALSE,
   hmacSecret |-> FALSE, hmacProtocol |-> 1, agreement |-> None, saltEnc |-> Absent,
   saltAuth |-> Absent, param |-> Absent, protocol |-> 0]

\* Protocol and subcommand are -1 until they have come.
BlankPin ==
  [protocol |-> -1, subcommand |-> -1, agreement |-> None, param |-> Absent,
   newPin |-> Absent, pinHash |-> Absent, permitted |-> FALSE]

--------------------------------------------------------------------------------
(* The values of the entries                                                 *)

Whatever(v) == TRUE

\* copy_view_to_string leaves room for a final zero, copy_view_to_bytes does not.
ReadString(r, size, Copy(_, _)) == Read(r, "text", LAMBDA v : v.length < size, Copy)
ReadBytes(r, size, Copy(_, _))  == Read(r, "bytes", LAMBDA v : v.length <= size, Copy)

ReadHash(r) ==
  Read(r, "bytes", LAMBDA v : v.length = HashSize, LAMBDA g, v : [g EXCEPT !.hash = v])

ReadParam(r) == ReadBytes(r, ParamSize, LAMBDA g, v : [g EXCEPT !.param = v])

\* The protocol is kept in eight bits.
ReadProtocol(r) == Read(r, "int", Whatever, LAMBDA g, v : [g EXCEPT !.protocol = v % 256])

\* The end of a parser that asks for something in the whole of what it has read.
Demand(end, Test(_)) == IF end.ok /\ Test(end.got) THEN end ELSE Fail(end)

\* parse_rp_entity
RpField(s, key) ==
  IF key.data = "id" THEN ReadString(s, RpIdSize, LAMBDA g, v : [g EXCEPT !.rp = v]) ELSE Skip(s)

ReadRp(r) == Demand(ReadMap(r, "text", RpField), LAMBDA g : g.rp.length > 0)

\* parse_user_entity
UserField(s, key) ==
  CASE key.data = "id" -> ReadBytes(s, UserIdSize, LAMBDA g, v : [g EXCEPT !.user = v])
    [] key.data = "name" -> ReadString(s, NameSize, LAMBDA g, v : [g EXCEPT !.name = v])
    [] key.data = "displayName" ->
         ReadString(s, DisplaySize, LAMBDA g, v : [g EXCEPT !.display = v])
    [] OTHER -> Skip(s)

ReadUser(r) == Demand(ReadMap(r, "text", UserField), LAMBDA g : g.user.length > 0)

\* parse_pub_key_cred_params: `alg` and `public` are those of the element being read.
ParamsField(s, key) ==
  CASE key.data = "alg" ->
         Read(s, "int", Whatever, LAMBDA g, v : [g EXCEPT !.alg = v])
    [] key.data = "type" ->
         Read(s, "text", Whatever, LAMBDA g, v : [g EXCEPT !.public = (v.data = "public-key")])
    [] OTHER -> Skip(s)

Supports(s, one) ==
  [one EXCEPT !.got =
     [s.got EXCEPT !.es256 = @ \/ (one.got.public /\ one.got.alg = ES256)]]

ReadParams(r) ==
  LET Element(s) ==
        Supports(s, ReadMap([s EXCEPT !.got = [alg |-> 0, public |-> FALSE]], "text", ParamsField))
  IN  ReadArray(r, Element)

\* parse_exclude_list
ReadExclude(r) ==
  LET Entry(s, key) ==
        IF key.data = "id"
        THEN Read(s, "bytes", Whatever,
                  LAMBDA g, v : [g EXCEPT !.excluded = @ \/ v.data \in StoredIds])
        ELSE Skip(s)
  IN  ReadArray(r, LAMBDA s : ReadMap(s, "text", Entry))

\* parse_options_map
ReadOptions(r) ==
  LET Entry(s, key) ==
        CASE key.data = "rk" -> Read(s, "bool", Whatever, LAMBDA g, v : [g EXCEPT !.rk = v])
          [] key.data = "uv" -> Read(s, "bool", Whatever, LAMBDA g, v : [g EXCEPT !.uv = v])
          [] OTHER -> Skip(s)
  IN  ReadMap(r, "text", Entry)

\* parse_make_credential_extensions
ReadMakeExtensions(r) ==
  LET Entry(s, key) ==
        IF key.data = "hmac-secret"
        THEN Read(s, "bool", Whatever, LAMBDA g, v : [g EXCEPT !.hmacSecret = v])
        ELSE Skip(s)
  IN  ReadMap(r, "text", Entry)

\* parse_allow_list: the first element with an id is the last one that is read.
AllowField(s, key) ==
  IF key.data = "id"
  THEN ReadBytes(s, CredentialIdSize, LAMBDA g, v : [g EXCEPT !.req.allow = v])
  ELSE Skip(s)

Noted(s) == [s EXCEPT !.got.found = (s.got.req.allow # Absent)]

ReadAllow(r) ==
  LET Element(s) == IF s.got.found THEN s ELSE Noted(ReadMap(s, "text", AllowField))
      whole == ReadArray([r EXCEPT !.got = [req |-> r.got, found |-> FALSE]], Element)
  IN  [whole EXCEPT !.got = @.req]

\* The point of a key agreement, if both its coordinates have 32 bytes.
AgreementField(s, key) ==
  CASE key = -2 -> Read(s, "bytes", Whatever, LAMBDA g, v : [g EXCEPT !.x = v])
    [] key = -3 -> Read(s, "bytes", Whatever, LAMBDA g, v : [g EXCEPT !.y = v])
    [] OTHER -> Skip(s)

Agreed(r, end) ==
  [end EXCEPT !.got = [r.got EXCEPT !.agreement =
     [data |-> <<end.got.x.data, end.got.y.data>>, length |-> 65]]]

\* parse_hmac_secret_key_agreement, and parse_key_agreement_map of client_pin.c
ReadAgreement(r) ==
  Agreed(r, Demand(ReadMap([r EXCEPT !.got = [x |-> None, y |-> None]], "int", AgreementField),
                   LAMBDA g : g.x.length = 32 /\ g.y.length = 32))

\* parse_get_assertion_hmac_secret
ReadHmacSecret(r) ==
  LET Entry(s, key) ==
        CASE key = 1 -> Read(s, "int", Whatever, LAMBDA g, v : [g EXCEPT !.hmacProtocol = v % 256])
          [] key = 2 -> ReadAgreement(s)
          [] key = 3 -> ReadBytes(s, SaltSize, LAMBDA g, v : [g EXCEPT !.saltEnc = v])
          [] key = 4 -> ReadBytes(s, ParamSize, LAMBDA g, v : [g EXCEPT !.saltAuth = v])
          [] OTHER -> Skip(s)
  IN  ReadMap([r EXCEPT !.got.hmacSecret = TRUE], "int", Entry)

\* parse_get_assertion_extensions
ReadGetExtensions(r) ==
  LET Entry(s, key) == IF key.data = "hmac-secret" THEN ReadHmacSecret(s) ELSE Skip(s)
  IN  ReadMap(r, "text", Entry)

--------------------------------------------------------------------------------
(* The requests                                                              *)

\* One entry of a makeCredential request.
MakeEntry(s, key) ==
  CASE key = 1 -> ReadHash(s)
    [] key = 2 -> ReadRp(s)
    [] key = 3 -> ReadUser(s)
    [] key = 4 -> ReadParams(s)
    [] key = 5 -> ReadExclude(s)
    [] key = 6 -> ReadMakeExtensions(s)
    [] key = 7 -> ReadOptions(s)
    [] key = 8 -> ReadParam(s)
    [] key = 9 -> ReadProtocol(s)
    [] OTHER -> Skip(s)

\* parse_make_credential_request, up to the verification of the pinUvAuthParam: what it
\* answers when the entries are read.
MakeStatus(ok, g, pinSet) ==
  LET complete == g.hash # Absent /\ g.rp # None /\ g.user # None
  IN  CASE ~ ok -> "invalid cbor"
        [] ok /\ ~ complete -> "missing parameter"
        [] ok /\ complete /\ ~ g.es256 -> "unsupported algorithm"
        [] OTHER -> IF g.uv /\ ~ pinSet THEN "pin not set" ELSE "ok"

MakeRead(end, pinSet) == [request |-> end.got, status |-> MakeStatus(end.ok, end.got, pinSet)]

MakeEnd(items) == ReadMap(Reader(items, BlankMake), "int", MakeEntry)

ParseMake(items, pinSet) == MakeRead(MakeEnd(items), pinSet)

\* One entry of a getAssertion request.
GetEntry(s, key) ==
  CASE key = 1 -> ReadString(s, RpIdSize, LAMBDA g, v : [g EXCEPT !.rpId = v])
    [] key = 2 -> ReadHash(s)
    [] key = 3 -> ReadAllow(s)
    [] key = 4 -> ReadGetExtensions(s)
    [] key = 5 -> ReadOptions(s)
    [] key = 6 -> ReadParam(s)
    [] key = 7 -> ReadProtocol(s)
    [] OTHER -> Skip(s)

\* hmac_secret_have_...: what the extension must come with.
SecretIncomplete(g) ==
  g.hmacSecret /\ (g.agreement = None \/ g.saltEnc = Absent \/ g.saltAuth = Absent)

\* parse_get_assertion_request; whether a PIN is set is checked before the extension.
GetStatus(ok, g, pinSet) ==
  LET complete == g.rpId # Absent /\ g.hash # Absent
  IN  CASE ~ ok -> "invalid cbor"
        [] ok /\ ~ complete -> "missing parameter"
        [] ok /\ complete /\ g.uv /\ ~ pinSet -> "pin not set"
        [] OTHER -> IF SecretIncomplete(g) THEN "missing parameter" ELSE "ok"

GetRead(end, pinSet) == [request |-> end.got, status |-> GetStatus(end.ok, end.got, pinSet)]

GetEnd(items) == ReadMap(Reader(items, BlankGet), "int", GetEntry)

ParseGet(items, pinSet) == GetRead(GetEnd(items), pinSet)

\* One entry of a clientPIN request.
PinEntry(s, key) ==
  CASE key = 1 -> ReadProtocol(s)
    [] key = 2 -> Read(s, "int", Whatever, LAMBDA g, v : [g EXCEPT !.subcommand = v % 256])
    [] key = 3 -> ReadAgreement(s)
    [] key = 4 -> ReadParam(s)
    [] key = 5 -> ReadBytes(s, NewPinSize, LAMBDA g, v : [g EXCEPT !.newPin = v])
    [] key = 6 -> ReadBytes(s, PinHashSize, LAMBDA g, v : [g EXCEPT !.pinHash = v])
    [] key = 9 -> Read(s, "int", Whatever, LAMBDA g, v : [g EXCEPT !.permitted = TRUE])
    [] OTHER -> Skip(s)

\* parse_client_pin_request, and what meowkey_client_pin_handle refuses before it comes to
\* a subcommand; 1 to 5 are those it has, 9 is the one with permissions.
PinStatus(ok, g) ==
  LET readable == ok /\ g.protocol # -1 /\ g.subcommand # -1
  IN  CASE ~ readable -> "invalid cbor"
        [] readable /\ g.protocol = 1 /\ g.subcommand \in 1 .. 5 -> "ok"
        [] readable /\ g.protocol = 1 /\ g.subcommand = 9 /\ ~ g.permitted -> "missing parameter"
        [] OTHER -> "unsupported option"

PinRead(end) == [request |-> end.got, status |-> PinStatus(end.ok, end.got)]

PinEnd(items) == ReadMap(Reader(items, BlankPin), "int", PinEntry)

ParsePin(items) == PinRead(PinEnd(items))
================================================================================
