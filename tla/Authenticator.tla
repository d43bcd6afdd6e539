----------------------------- MODULE Authenticator ------------------------------
(***************************************************************************)
(* User verification across the commands: ctap2_handle_cbor of             *)
(* src/src/ctap2.c, with authenticatorClientPIN as module ClientPin has it *)
(* and the parts of authenticatorMakeCredential, authenticatorGetAssertion *)
(* and authenticatorGetNextAssertion that decide whether an operation is   *)
(* verified: the parsers of CtapRequests, the pinUvAuthParam, and the      *)
(* user_verified flag that the operation keeps until it has answered.      *)
(*                                                                         *)
(* A command runs to its end in the main loop, in one step, or in two when *)
(* it waits for the user: only the clock moves meanwhile, or the power     *)
(* goes.                                                                   *)
(*                                                                         *)
(* Abstractions.  Credentials and the time a pending assertion lasts are   *)
(* those of module WebAuthn: here an operation finds its credentials or    *)
(* fails, and a pending assertion may have expired.  An operation that     *)
(* does not wait, as user presence is off or an earlier confirmation still *)
(* serves, is one whose wait ends at once.                                 *)
(***************************************************************************)
EXTENDS ClientPin, RequestMeaning

CONSTANT AllMessages   \* bound: whether messages of every form come, or the usual ones

VARIABLES
  waiting,   \* the operation that waits for the user, or Nothing
  pending,   \* s_pending_assertion.request, or Nothing
  answer     \* the operation just answered, Nothing for an error or another command

authVars == <<vars, waiting, pending, answer>>

Nothing == [kind |-> "none"]

\* user_verified of an operation, and, as history, whether it asked to be verified and
\* whether the token it showed was the one in force.
Operation(kind, verified, asked, earned) ==
  [kind |-> kind, verified |-> verified, asked |-> asked, earned |-> earned]

AuthInit == Init /\ waiting = Nothing /\ pending = Nothing /\ answer = Nothing

--------------------------------------------------------------------------------
(* The messages that come: in every form as the first command of a power-up  *)
(* without a PIN and with one just set, elsewhere the usual ones.            *)

Fresh ==
  /\ AllMessages
  /\ answer = Nothing /\ waiting = Nothing /\ pending = Nothing
  /\ now = 0 /\ crashes = 0 /\ faults = 0 /\ guesses = 0 /\ issued = 0
  /\ last \in {"none", "setPIN"} /\ status \in {"none", "ok"}

ParseItems(kind, items, pinSet) ==
  CASE kind = "make" -> ParseMake(items, pinSet)
    [] kind = "get"  -> ParseGet(items, pinSet)
    [] kind = "pin"  -> ParsePin(items)

Parse(m, pinSet) == ParseItems(m.kind, ItemsOf(m), pinSet)

\* The usual entries of these choices, with another choice in the place of a few of them.
Changed(choices, changes) ==
  Sorted(choices, [k \in DOMAIN choices |-> IF k \in DOMAIN changes THEN changes[k] ELSE 1])

Simple(kind, changes) == Message(kind, Changed(ChoicesOf(kind), changes), "none", 0)

\* With uv, with a pinUvAuthParam, both, neither; without a protocol; excluded; cut.
SimpleMessages ==
  {Simple("make", c) : c \in {<<>>, 7 :> 2, 7 :> 2 @@ 8 :> 2, 8 :> 2, 9 :> 3, 5 :> 2}}
    \cup {Simple("get", c) : c \in {<<>>, 5 :> 2, 6 :> 2, 5 :> 2 @@ 6 :> 2, 2 :> 2}}

\* A message, and what the device reads in it when it has no PIN and when it has one.
Readings == {[message |-> m, read |-> [pinSet \in BOOLEAN |-> Parse(m, pinSet)]] :
               m \in SimpleMessages}

Shows(m) == m.read[TRUE].request.param # Absent

OddMessages == UNION {Whole(kind) \cup Defective(kind) : kind \in Kinds}

--------------------------------------------------------------------------------
(* The commands                                                              *)

\* Mutant: a request is verified when a PIN is set.
VerifiedByPin(g) == Configured

\* The end of both parsers: user_verified.
UserVerified(g) == Configured /\ g.param # Absent

\* The token in the host's hands is the one in force, for the PIN in force, in its time.
InForce(made) ==
  /\ Configured /\ token # 0 /\ made = issued
  /\ faults = 0 => tokenPin = pin.hash
  /\ tokenAge <= Lifetime \/ tokenAge = ClockPeriod

\* meowkey_client_pin_verify_auth, when the request asks for it.
Authorize(p, made) ==
  IF p.status = "ok" /\ (p.request.uv \/ p.request.param # Absent)
  THEN VerifyAuth(IF p.request.param = Absent THEN -1 ELSE made, p.request.protocol)
  ELSE powered /\ UNCHANGED vars

\* Whether the request has survived its verification, and makes no excluded credential.
Accepted(p) ==
  /\ p.status = "ok"
  /\ p.request.uv \/ p.request.param # Absent => status' \in {"ok", "verified"}
  /\ "excluded" \in DOMAIN p.request => ~ p.request.excluded

\* The end of an operation: it answers, or fails for want of credentials, in an
\* extension, in the store; a getAssertion may leave more to fetch.  Adding a credential
\* commits the store and the PIN record with it, a signature counter does so at times.
Ended(op) ==
  /\ \/ /\ answer' = op
        /\ pending' \in IF op.kind = "get" THEN {Nothing, op} ELSE {Nothing}
        /\ saved' \in IF op.kind = "get" THEN {saved, pin} ELSE {pin}
     \/ /\ answer' = Nothing
        /\ pending' = Nothing
        /\ saved' \in {saved, pin}
  /\ UNCHANGED <<pin, ram, now, last, status, history, bounds>>

\* meowkey_webauthn_make_credential and meowkey_webauthn_get_assertion, up to the wait.
\* A getAssertion that is refused drops what was pending, a makeCredential does not.
Begin(m, made) ==
  LET p == m.read[Configured]
      kind == m.message.kind
      op == Operation(kind, UserVerified(p.request),
                      p.request.uv \/ p.request.param # Absent,
                      p.request.param # Absent /\ p.request.protocol = 1 /\ InForce(made))
  IN  /\ waiting = Nothing
      /\ Authorize(p, made)
      /\ IF ~ Accepted(p)
         THEN /\ answer' = Nothing
              /\ pending' = IF kind = "get" THEN Nothing ELSE pending
              /\ UNCHANGED waiting
         ELSE waiting' = op /\ pending' = Nothing /\ answer' = Nothing

\* The same, of a message of any form, read as p: what was read is kept to look at.
BeginRead(m, p) ==
  /\ CASE m.kind # "pin" -> Authorize(p, 0)
       [] m.kind = "pin" /\ p.status = "ok" -> GetRetries
       [] OTHER -> Refuse("unsupported", p.status)
  /\ answer' = [message |-> m, read |-> p, pinSet |-> Configured]
  /\ UNCHANGED <<waiting, pending>>

BeginOdd(m) == BeginRead(m, Parse(m, Configured))

\* meowkey_user_presence_wait_for_confirmation has returned.
Confirmed ==
  /\ waiting # Nothing /\ waiting' = Nothing
  /\ Ended(waiting)

TimedOut ==
  /\ waiting # Nothing /\ waiting' = Nothing
  /\ answer' = Nothing
  /\ UNCHANGED <<vars, pending>>

\* meowkey_webauthn_get_next_assertion: with the request that is pending, as it was
\* parsed; a token that has expired since, or a PIN that has changed, is not asked for.
GetNext ==
  /\ powered /\ waiting = Nothing
  /\ \/ pending # Nothing /\ Ended(pending)
     \/ /\ pending = Nothing /\ answer' = Nothing
        /\ UNCHANGED <<vars, pending>>
  /\ UNCHANGED waiting

\* What does not concern the operations, unless the power goes with it.
Bystander ==
  /\ waiting' = IF powered' THEN waiting ELSE Nothing
  /\ pending' = IF powered' THEN pending ELSE Nothing
  /\ answer' = Nothing

AuthNext ==
  \/ (Tick \/ PowerLoss \/ PowerUp) /\ Bystander
  \/ waiting = Nothing /\ (OtherCommit \/ Command) /\ Bystander
  \/ \E m \in Readings : \E made \in IF Shows(m) THEN 0 .. issued ELSE {0} : Begin(m, made)
  \/ Fresh /\ \E m \in OddMessages : BeginOdd(m)
  \/ Confirmed
  \/ TimedOut
  \/ GetNext

AuthSpec == AuthInit /\ [][AuthNext]_authVars

--------------------------------------------------------------------------------
(* Correctness *)

\* Whatever the order of its entries, and whatever it carries that the device does not
\* know, a request is read as what it says, with the status that its lacks deserve; and a
\* message that ends early or cannot be read is refused whole.
RequestsMeanWhatTheySay ==
  "message" \in DOMAIN answer =>
    IF answer.message.defect # "none" THEN answer.read.status = "invalid cbor"
    ELSE ShortOrLast(answer.message.order) =>
           answer.read = Meaning(answer.message, answer.pinSet)

\* The pinUvAuthParam of a getAssertion request is read, wherever in the request it comes
\* ("a valid `pinUvAuthParam` marks the operation as verified").
AuthParamIsRead ==
  "message" \in DOMAIN answer =>
    LET m == answer.message
    IN  m.kind = "get" /\ m.defect = "none" /\ 6 \in Present(EntriesOf(m))
          => answer.read.request.param = Param

\* A credential or an assertion is marked as verified exactly when its request showed the
\* token then in force, and one that asked to be verified never comes without the mark:
\* through waits, failed commits, power losses, and getNextAssertion long after.
VerifiedIsEarned ==
  "verified" \in DOMAIN answer =>
    /\ answer.verified <=> answer.earned
    /\ answer.asked => answer.verified
================================================================================
