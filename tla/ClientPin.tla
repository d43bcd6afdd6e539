------------------------------- MODULE ClientPin -------------------------------
(***************************************************************************)
(* The authenticatorClientPIN command and the PIN/UV auth token,           *)
(* src/src/client_pin.c.                                                   *)
(*                                                                         *)
(* The PIN record is in flash, with a copy in RAM; the key-agreement key   *)
(* and the token are in RAM only and a power loss ends them.  A handler    *)
(* writes the record at most once.  That write is the store's whole-image  *)
(* commit, and what CredentialStore shows of it is used here: it stores    *)
(* the record, or fails and leaves flash alone (the RAM copy is changed    *)
(* either way), or power is lost meanwhile and flash has the old record    *)
(* or the new one.                                                         *)
(*                                                                         *)
(* Abstractions.  A PIN stands for its hash.  Encryption under the shared  *)
(* secret is modelled by what the device can recover: with the current     *)
(* key, what the host sent; with another key, noise that is no PIN's hash. *)
(* A request is parsed into the fields the handlers test.                  *)
(***************************************************************************)
EXTENDS Integers

CONSTANTS
  Hashes,          \* PINs
  NoHash,          \* no PIN; as a new PIN, one that breaks the length policy
  RetriesDefault,  \* CLIENT_PIN_RETRIES_DEFAULT
  Lifetime,        \* CLIENT_PIN_TOKEN_LIFETIME_MS, in ticks of the model's clock
  ClockPeriod,     \* board_millis is a uint32_t: 2^32, in the same ticks
  MaxTokens,       \* bound: tokens issued in a behaviour
  MaxCrashes,      \* bound: power losses
  MaxFaults        \* bound: commits that fail

ASSUME ConstantsOK ==
  /\ NoHash \notin Hashes
  /\ RetriesDefault \in Nat \ {0}
  /\ Lifetime \in Nat /\ ClockPeriod \in Nat /\ Lifetime < ClockPeriod
  /\ MaxTokens \in Nat /\ MaxCrashes \in Nat /\ MaxFaults \in Nat

VARIABLES
  saved,      \* the PIN record in flash
  pin,        \* the PIN record in RAM, meowkey_store_get_pin_state
  powered,    \* whether the device is on
  keyReady,   \* s_key_agreement_ready
  token,      \* s_runtime_pin_token, 0 when not s_runtime_pin_token_ready
  issuedAt,   \* s_runtime_pin_token_issued_at_ms
  now,        \* board_millis
  last,       \* the last command answered, and
  status,     \*   what it answered
  \* History, which no action of the device reads.
  guesses,    \* wrong PINs answered since the retries were last restored
  issued,     \* tokens issued so far
  tokenPin,   \* the PIN that the token was issued for
  tokenAge,   \* ticks since then, at most ClockPeriod
  crashes, faults

ram     == <<powered, keyReady, token, issuedAt>>
history == <<guesses, issued, tokenPin, tokenAge>>
bounds  == <<crashes, faults>>
vars    == <<saved, pin, ram, now, last, status, history, bounds>>

Records  == [hash: Hashes \cup {NoHash}, retries: 0 .. RetriesDefault]
Unset    == [hash |-> NoHash, retries |-> RetriesDefault]
Statuses == {"none", "ok", "verified", "invalid cbor", "missing parameter", "pin invalid",
             "pin blocked", "pin auth invalid", "pin not set", "pin required",
             "pin policy violation", "pin token expired", "unsupported option"}

\* A clientPIN request.  `key` is the key agreement it was made with, "absent" when a
\* mandatory field is missing; `auth` says whether its pinUvAuthParam matches its
\* contents under that key; `old` is the PIN and `new` the new PIN it carries, which no
\* key but the current one brings to light.  Nothing reads the new PIN of a request whose
\* pinUvAuthParam does not match.
Requests ==
  [key: {"current"}, auth: {TRUE}, old: Hashes, new: Hashes \cup {NoHash}]
    \cup [key: {"current"}, auth: {FALSE}, old: Hashes, new: {NoHash}]
    \cup [key: {"other", "not a point", "absent"}, auth: {FALSE}, old: {NoHash}, new: {NoHash}]

Configured == pin.hash # NoHash

--------------------------------------------------------------------------------
Init ==
  /\ saved = Unset /\ pin = Unset
  /\ powered = TRUE /\ keyReady = FALSE /\ token = 0 /\ issuedAt = 0
  /\ now \in {0, ClockPeriod - 1}
  /\ last = "none" /\ status = "none"
  /\ guesses = 0 /\ issued = 0 /\ tokenPin = NoHash /\ tokenAge = 0
  /\ crashes = 0 /\ faults = 0

Tick ==
  /\ now' = (now + 1) % ClockPeriod
  /\ tokenAge' = IF tokenAge < ClockPeriod THEN tokenAge + 1 ELSE tokenAge
  /\ UNCHANGED <<saved, pin, ram, last, status, guesses, issued, tokenPin, bounds>>

\* Power is lost and everything in RAM with it.
LosePower ==
  /\ powered' = FALSE /\ keyReady' = FALSE /\ token' = 0 /\ issuedAt' = 0
  /\ pin' = Unset
  /\ last' = "none" /\ status' = "none"
  /\ tokenPin' = NoHash /\ tokenAge' = 0
  /\ crashes' = crashes + 1
  /\ UNCHANGED <<now, issued, faults>>

PowerLoss ==
  /\ powered /\ crashes < MaxCrashes
  /\ LosePower
  /\ UNCHANGED <<saved, guesses>>

PowerUp ==
  /\ ~ powered /\ powered' = TRUE
  /\ pin' = saved
  /\ now' = 0
  /\ UNCHANGED <<saved, keyReady, token, issuedAt, last, status, history, bounds>>

\* Another operation of the store commits the RAM image, the PIN record with it.
OtherCommit ==
  /\ powered
  /\ saved' = pin
  /\ UNCHANGED <<pin, ram, now, last, status, history, bounds>>

--------------------------------------------------------------------------------
(* meowkey_store_set_pin_state, in the three ways it can end.                *)

Stored(record) ==
  /\ pin' = record /\ saved' = record /\ UNCHANGED bounds

NotStored(record) ==
  /\ faults < MaxFaults
  /\ pin' = record /\ UNCHANGED <<saved, crashes>> /\ faults' = faults + 1

CutShort(record) ==
  /\ crashes < MaxCrashes
  /\ saved' = record /\ LosePower

Answer(command, s) == last' = command /\ status' = s

\* A command that changes nothing but the answer.
Refuse(command, s) ==
  /\ powered /\ Answer(command, s)
  /\ UNCHANGED <<saved, pin, ram, now, history, bounds>>

KeepToken  == UNCHANGED <<ram, now, issued, tokenPin, tokenAge>>

\* clear_runtime_pin_token
ClearToken ==
  /\ token' = 0 /\ issuedAt' = 0 /\ tokenPin' = NoHash /\ tokenAge' = 0
  /\ UNCHANGED <<powered, keyReady, now, issued>>

\* rotate_runtime_pin_token: a random token, so one never issued before.
RotateToken ==
  /\ issued < MaxTokens
  /\ issued' = issued + 1 /\ token' = issued + 1 /\ issuedAt' = now
  /\ tokenPin' = pin.hash /\ tokenAge' = 0
  /\ UNCHANGED <<powered, keyReady, now>>

\* derive_shared_secret
Derives(r) == keyReady /\ r.key \in {"current", "other"}

\* validate_shared_secret_hmac
Authentic(r) == r.key = "current" /\ r.auth

\* The stored hash equals the one decrypted from pinHashEnc.
Matches(r) == r.key = "current" /\ r.old = pin.hash

\* Mutant: the failed attempt is counted in RAM only.
CountedInRam(command) ==
  LET left == [pin EXCEPT !.retries = pin.retries - 1]
  IN  /\ pin' = left /\ UNCHANGED <<saved, bounds>> /\ KeepToken
      /\ guesses' = guesses + 1
      /\ Answer(command, IF left.retries = 0 THEN "pin blocked" ELSE "pin invalid")

\* verify_pin_hash_or_consume_retry when the hash does not match.  Both callers have
\* checked that retries are left.
ConsumeRetry(command) ==
  LET left == [pin EXCEPT !.retries = pin.retries - 1]
  IN  \/ /\ Stored(left) \/ NotStored(left)
         /\ KeepToken
         /\ guesses' = guesses + 1
         /\ Answer(command, IF left.retries = 0 THEN "pin blocked" ELSE "pin invalid")
      \/ CutShort(left) /\ UNCHANGED guesses

--------------------------------------------------------------------------------
(* The subcommands of meowkey_client_pin_handle                              *)

GetRetries == Refuse("getRetries", "ok")

\* getPinUvAuthTokenUsingPinWithPermissions, unknown subcommands and protocols, requests
\* that cannot be read
Unsupported ==
  \E s \in {"unsupported option", "missing parameter", "invalid cbor"} : Refuse("unsupported", s)

\* build_key_agreement_response; the key is made once per power-up.
GetKeyAgreement ==
  /\ powered /\ keyReady' = TRUE
  /\ Answer("getKeyAgreement", "ok")
  /\ UNCHANGED <<saved, pin, powered, token, issuedAt, now, history, bounds>>

\* What handle_set_pin answers before it writes anything, "ok" when it goes on.
SetPinCheck(r) ==
  CASE Configured       -> "unsupported option"
    [] ~ Configured /\ r.key = "absent" -> "missing parameter"
    [] ~ Configured /\ r.key # "absent" /\ ~ Derives(r) -> "invalid cbor"
    [] ~ Configured /\ Derives(r) /\ ~ Authentic(r) -> "pin auth invalid"
    [] ~ Configured /\ Derives(r) /\ Authentic(r) /\ r.new = NoHash -> "pin policy violation"
    [] OTHER -> "ok"

\* Mutant: the result of the write is ignored.
ReplacePinRegardless(command, h) ==
  LET record == [hash |-> h, retries |-> RetriesDefault]
  IN  /\ guesses' = 0
      /\ \/ (Stored(record) \/ NotStored(record)) /\ ClearToken /\ Answer(command, "ok")
         \/ CutShort(record)

\* Mutant: the token outlives the PIN it was issued for.
ReplacePinOnly(command, h) ==
  LET record == [hash |-> h, retries |-> RetriesDefault]
  IN  /\ guesses' = 0
      /\ \/ Stored(record) /\ KeepToken /\ Answer(command, "ok")
         \/ NotStored(record) /\ KeepToken /\ Answer(command, "invalid cbor")
         \/ CutShort(record)

\* The end of handle_set_pin and handle_change_pin: the new PIN with all its retries.
ReplacePin(command, h) ==
  LET record == [hash |-> h, retries |-> RetriesDefault]
  IN  /\ guesses' = 0
      /\ \/ Stored(record) /\ ClearToken /\ Answer(command, "ok")
         \/ NotStored(record) /\ KeepToken /\ Answer(command, "invalid cbor")
         \/ CutShort(record)

SetPin(r) ==
  /\ powered
  /\ \/ SetPinCheck(r) # "ok" /\ Refuse("setPIN", SetPinCheck(r))
     \/ SetPinCheck(r) = "ok" /\ ReplacePin("setPIN", r.new)

\* Mutant: nothing checks that retries are left, and the last of them is taken twice.
PinCheckUnblocked(r) ==
  CASE ~ Configured -> "pin not set"
    [] Configured /\ r.key = "absent" -> "missing parameter"
    [] Configured /\ r.key # "absent" /\ ~ Derives(r) -> "invalid cbor"
    [] OTHER -> "ok"

\* The checks handle_change_pin and handle_get_pin_token begin with.
PinCheck(r) ==
  CASE ~ Configured -> "pin not set"
    [] Configured /\ pin.retries = 0 -> "pin blocked"
    [] Configured /\ pin.retries > 0 /\ r.key = "absent" -> "missing parameter"
    [] Configured /\ pin.retries > 0 /\ r.key # "absent" /\ ~ Derives(r) -> "invalid cbor"
    [] OTHER -> "ok"

\* handle_change_pin: a new PIN that breaks the policy is refused only after the old
\* one was verified, and without restoring the retries.
ChangePin(r) ==
  /\ powered
  /\ \/ PinCheck(r) # "ok" /\ Refuse("changePIN", PinCheck(r))
     \/ PinCheck(r) = "ok" /\ ~ Authentic(r) /\ Refuse("changePIN", "pin auth invalid")
     \/ PinCheck(r) = "ok" /\ Authentic(r) /\ ~ Matches(r) /\ ConsumeRetry("changePIN")
     \/ /\ PinCheck(r) = "ok" /\ Authentic(r) /\ Matches(r) /\ r.new = NoHash
        /\ Refuse("changePIN", "pin policy violation")
     \/ /\ PinCheck(r) = "ok" /\ Authentic(r) /\ Matches(r) /\ r.new # NoHash
        /\ ReplacePin("changePIN", r.new)

\* Mutant: the retries are not restored.
Unrestored(record) == record

RestoreRetries(record) == [record EXCEPT !.retries = RetriesDefault]

\* handle_get_pin_token: there is no pinUvAuthParam to check, so a request under
\* another key is a wrong PIN; a failure to store the restored retries is ignored.
GetPinToken(r) ==
  /\ powered
  /\ \/ PinCheck(r) # "ok" /\ Refuse("getPINToken", PinCheck(r))
     \/ PinCheck(r) = "ok" /\ ~ Matches(r) /\ ConsumeRetry("getPINToken")
     \/ /\ PinCheck(r) = "ok" /\ Matches(r)
        /\ guesses' = 0
        /\ \/ /\ Stored(RestoreRetries(pin)) \/ NotStored(RestoreRetries(pin))
              /\ RotateToken
              /\ Answer("getPINToken", "ok")
           \/ CutShort(RestoreRetries(pin))

--------------------------------------------------------------------------------
(* meowkey_client_pin_verify_auth, called by makeCredential and getAssertion *)

\* Mutant: a token never expires.
Unexpiring == token # 0

\* runtime_pin_token_is_usable; the subtraction is that of uint32_t.
TokenUsable == token # 0 /\ (now - issuedAt) % ClockPeriod <= Lifetime

\* What it answers.  `made` is the token the host computed its pinUvAuthParam with: one it
\* was given at some time, 0 for none of them, and -1 for a request without a parameter.
AuthStatus(made, protocol) ==
  CASE ~ Configured -> IF made = -1 THEN "ok" ELSE "pin not set"
    [] Configured /\ (made = -1 \/ protocol # 1) -> "pin required"
    [] Configured /\ made # -1 /\ protocol = 1 /\ ~ TokenUsable -> "pin token expired"
    [] OTHER -> IF made = token THEN "verified" ELSE "pin auth invalid"

\* A token found expired is forgotten.
VerifyAuth(made, protocol) ==
  /\ powered
  /\ Answer("auth", AuthStatus(made, protocol))
  /\ IF AuthStatus(made, protocol) = "pin token expired" THEN ClearToken ELSE KeepToken
  /\ UNCHANGED <<saved, pin, guesses, bounds>>

\* authenticatorClientPIN
Command ==
  \/ GetRetries
  \/ Unsupported
  \/ GetKeyAgreement
  \/ \E r \in Requests : SetPin(r) \/ ChangePin(r) \/ GetPinToken(r)

Next ==
  \/ Tick
  \/ PowerLoss
  \/ PowerUp
  \/ OtherCommit
  \/ Command
  \/ \E made \in -1 .. issued, protocol \in 0 .. 255 : VerifyAuth(made, protocol)

Spec == Init /\ [][Next]_vars

--------------------------------------------------------------------------------
(* Correctness *)

\* Every variable has its type, and RAM is cleared while the power is off.
TypeOK ==
  /\ saved \in Records /\ pin \in Records
  /\ powered \in BOOLEAN /\ keyReady \in BOOLEAN
  /\ token \in 0 .. issued /\ issued \in Nat
  /\ issuedAt \in 0 .. ClockPeriod - 1 /\ now \in 0 .. ClockPeriod - 1
  /\ last \in {"none", "getRetries", "unsupported", "getKeyAgreement", "setPIN", "changePIN",
               "getPINToken", "auth"}
  /\ status \in Statuses
  /\ guesses \in Nat /\ tokenPin \in Hashes \cup {NoHash} /\ tokenAge \in 0 .. ClockPeriod
  /\ crashes \in Nat /\ faults \in Nat
  /\ ~ powered => token = 0 /\ ~ keyReady

\* However requests, power losses and other commits are arranged, the wrong PINs
\* answered and the retries left add up to at most the limit: switching the device off
\* gives no guess back.  Only a commit that failed may have lost one.
GuessesAreBounded == guesses + saved.retries <= RetriesDefault + faults

\* No retry disappears either: one is missing only for a wrong PIN that was answered,
\* or that was being answered when power was lost.
NoRetryIsWasted ==
  faults = 0 => RetriesDefault - saved.retries <= guesses + crashes

\* The token in force was issued for the PIN in force ("setPin / changePin clears prior
\* runtime token state"), unless a PIN change failed to be stored.
TokenIsForThisPin == token # 0 /\ faults = 0 => tokenPin = pin.hash

\* An operation counts as verified only with the token issued last, and within its
\* lifetime ("token expires after 30000ms").  The 32-bit clock leaves one exception: a
\* token that no request has met for a whole period of the clock.
VerifiedMeansFresh ==
  [][\A made \in -1 .. issued :
       status' = "verified" /\ VerifyAuth(made, 1)
         => made = issued /\ (tokenAge <= Lifetime \/ tokenAge = ClockPeriod)]_vars

\* A PIN whose setting or change was acknowledged is the one in flash, until another
\* operation: a power loss does not bring the old PIN back.
AckedPinIsDurable ==
  last \in {"setPIN", "changePIN"} /\ status = "ok" => saved = pin
================================================================================
