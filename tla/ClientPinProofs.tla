----------------------------- MODULE ClientPinProofs -----------------------------
(***************************************************************************)
(* Theorems about ClientPin, for every number of retries, every lifetime   *)
(* of a token, and any number of requests, crashes and failed commits.     *)
(***************************************************************************)
EXTENDS ClientPin, TLAPS

--------------------------------------------------------------------------------
(* Type correctness                                                          *)

\* The record of a device without a PIN, and the first reading of the clock.
LEMMA UnsetType == Unset \in Records /\ 0 \in 0 .. ClockPeriod - 1 /\ ClockPeriod \in Nat \ {0}
<1>1. RetriesDefault \in Nat /\ Lifetime \in Nat /\ ClockPeriod \in Nat /\ Lifetime < ClockPeriod
  BY ConstantsOK
<1>2. QED
  BY <1>1 DEF Records, Unset

LEMMA InitTypeOK == Init => TypeOK
<1> SUFFICES ASSUME Init PROVE TypeOK
  OBVIOUS
<1>1. saved \in Records /\ pin \in Records
  BY UnsetType DEF Init
<1>2. powered \in BOOLEAN /\ keyReady \in BOOLEAN /\ powered
  BY DEF Init
<1>3. /\ token \in 0 .. issued /\ issued \in Nat
      /\ issuedAt \in 0 .. ClockPeriod - 1 /\ now \in 0 .. ClockPeriod - 1
      /\ guesses \in Nat /\ tokenPin \in Hashes \cup {NoHash} /\ tokenAge \in 0 .. ClockPeriod
      /\ crashes \in Nat /\ faults \in Nat
  BY UnsetType DEF Init
<1>4. last = "none" /\ status \in Statuses
  BY DEF Init, Statuses
<1>5. QED
  BY <1>1, <1>2, <1>3, <1>4 DEF TypeOK

\* Types of what a power loss leaves.
LEMMA LosePowerTypeOK ==
  ASSUME TypeOK, LosePower, saved' \in Records, guesses' \in Nat
  PROVE  TypeOK'
<1>1. saved' \in Records /\ pin' \in Records
  BY UnsetType DEF LosePower
<1>2. powered' \in BOOLEAN /\ keyReady' \in BOOLEAN /\ token' = 0 /\ ~ keyReady'
  BY DEF LosePower
<1>3. /\ token' \in 0 .. issued' /\ issued' \in Nat
      /\ issuedAt' \in 0 .. ClockPeriod - 1 /\ now' \in 0 .. ClockPeriod - 1
      /\ tokenPin' \in Hashes \cup {NoHash} /\ tokenAge' \in 0 .. ClockPeriod
      /\ crashes' \in Nat /\ faults' \in Nat
  BY UnsetType DEF LosePower, TypeOK
<1>4. last' = "none" /\ status' \in Statuses
  BY DEF LosePower, Statuses
<1>5. QED
  BY <1>1, <1>2, <1>3, <1>4 DEF TypeOK

\* Types of what a handler leaves that kept its power.
LEMMA HandlerTypeOK ==
  ASSUME TypeOK, powered, powered' = powered,
         saved' \in Records, pin' \in Records, keyReady' \in BOOLEAN, now' = now,
         guesses' \in Nat, crashes' = crashes, faults' \in {faults, faults + 1},
         KeepToken \/ ClearToken \/ RotateToken,
         last' \in {"setPIN", "changePIN", "getPINToken", "auth"}, status' \in Statuses
  PROVE  TypeOK'
<1>1. token' \in 0 .. issued' /\ issued' \in Nat /\ issuedAt' \in 0 .. ClockPeriod - 1
      /\ tokenPin' \in Hashes \cup {NoHash} /\ tokenAge' \in 0 .. ClockPeriod
  BY ConstantsOK DEF TypeOK, KeepToken, ClearToken, RotateToken, ram, Records
<1>2. QED
  BY <1>1 DEF TypeOK

LEMMA RefuseTypeOK ==
  ASSUME TypeOK, NEW command, NEW s \in Statuses, Refuse(command, s),
         command \in {"getRetries", "unsupported", "setPIN", "changePIN", "getPINToken"}
  PROVE  TypeOK'
BY DEF TypeOK, Refuse, Answer, ram, history, bounds

\* A request that goes past the first checks of changePIN and getPINToken finds a PIN
\* and a retry left.
LEMMA PinCheckOk ==
  ASSUME TypeOK, NEW r \in Requests
  PROVE  /\ PinCheck(r) = "ok" => Configured /\ pin.retries \in 1 .. RetriesDefault
         /\ PinCheck(r) \in Statuses
<1>1. pin.retries \in 0 .. RetriesDefault /\ RetriesDefault \in Nat
  BY ConstantsOK DEF TypeOK, Records
<1>2. PinCheck(r) \in {"pin not set", "pin blocked", "missing parameter", "invalid cbor", "ok"}
  BY DEF PinCheck
<1>3. ASSUME PinCheck(r) = "ok" PROVE Configured /\ pin.retries # 0
  BY <1>3 DEF PinCheck
<1>4. PinCheck(r) \in Statuses
  BY <1>2 DEF Statuses
<1>5. ASSUME PinCheck(r) = "ok" PROVE pin.retries \in 1 .. RetriesDefault
  BY <1>1, <1>3, <1>5
<1>6. QED
  BY <1>3, <1>4, <1>5

LEMMA SetPinCheckType == \A r \in Requests : SetPinCheck(r) \in Statuses
<1>1. ASSUME NEW r \in Requests
      PROVE  SetPinCheck(r) \in {"unsupported option", "missing parameter", "invalid cbor",
                                 "pin auth invalid", "pin policy violation", "ok"}
  BY DEF SetPinCheck
<1>2. QED
  BY <1>1 DEF Statuses

\* The record with one retry less, and the types that a wrong PIN leaves.
LEMMA ConsumeRetryTypeOK ==
  ASSUME TypeOK, powered, pin.retries \in 1 .. RetriesDefault,
         NEW command \in {"changePIN", "getPINToken"}, ConsumeRetry(command)
  PROVE  TypeOK'
<1> DEFINE left == [pin EXCEPT !.retries = pin.retries - 1]
<1>1. left \in Records /\ RetriesDefault \in Nat
  BY ConstantsOK DEF TypeOK, Records
<1> HIDE DEF left
<1>2. CASE /\ Stored(left) \/ NotStored(left)
           /\ KeepToken
           /\ guesses' = guesses + 1
           /\ Answer(command, IF left.retries = 0 THEN "pin blocked" ELSE "pin invalid")
  <2>1. saved' \in Records /\ pin' \in Records /\ crashes' = crashes /\ faults' \in {faults, faults + 1}
    BY <1>1, <1>2 DEF Stored, NotStored, bounds, TypeOK
  <2>2. last' = command /\ status' \in Statuses
    BY <1>2 DEF Answer, Statuses
  <2>3. guesses' \in Nat
    <3>1. guesses \in Nat /\ guesses' = guesses + 1
      BY <1>2 DEF TypeOK
    <3>2. QED
      BY <3>1
  <2>4. KeepToken /\ powered' = powered /\ keyReady' \in BOOLEAN /\ now' = now
    BY <1>2 DEF KeepToken, ram, TypeOK
  <2>5. QED
    BY <2>1, <2>2, <2>3, <2>4, HandlerTypeOK
<1>3. CASE CutShort(left) /\ UNCHANGED guesses
  BY <1>1, <1>3, LosePowerTypeOK DEF CutShort, TypeOK
<1>4. QED
  BY <1>2, <1>3 DEF ConsumeRetry, left

LEMMA ReplacePinTypeOK ==
  ASSUME TypeOK, powered, NEW h \in Hashes \cup {NoHash},
         NEW command \in {"setPIN", "changePIN"}, ReplacePin(command, h)
  PROVE  TypeOK'
<1> DEFINE record == [hash |-> h, retries |-> RetriesDefault]
<1>1. record \in Records
  BY ConstantsOK DEF Records
<1> HIDE DEF record
<1>2. guesses' = 0 /\ guesses' \in Nat
  BY DEF ReplacePin
<1>3. ASSUME Stored(record) \/ NotStored(record), KeepToken \/ ClearToken,
             \E s \in {"ok", "invalid cbor"} : Answer(command, s)
      PROVE  TypeOK'
  <2>1. saved' \in Records /\ pin' \in Records /\ crashes' = crashes /\ faults' \in {faults, faults + 1}
    BY <1>1, <1>3 DEF Stored, NotStored, bounds, TypeOK
  <2>2. last' = command /\ status' \in Statuses
    BY <1>3 DEF Answer, Statuses
  <2>3. powered' = powered /\ keyReady' \in BOOLEAN /\ now' = now
    BY <1>3 DEF KeepToken, ClearToken, ram, TypeOK
  <2>4. QED
    BY <1>2, <1>3, <2>1, <2>2, <2>3, HandlerTypeOK
<1>4. CASE CutShort(record)
  BY <1>1, <1>2, <1>4, LosePowerTypeOK DEF CutShort
<1>5. QED
  BY <1>3, <1>4 DEF ReplacePin, record

LEMMA ClientPinTypeOK ==
  ASSUME TypeOK, NEW r \in Requests, SetPin(r) \/ ChangePin(r) \/ GetPinToken(r)
  PROVE  TypeOK'
<1>1. powered
  BY DEF SetPin, ChangePin, GetPinToken
<1>2. r.new \in Hashes \cup {NoHash}
  BY DEF Requests
<1>3. PinCheck(r) \in Statuses /\ SetPinCheck(r) \in Statuses
  BY PinCheckOk, SetPinCheckType
<1>4. "pin auth invalid" \in Statuses /\ "pin policy violation" \in Statuses
  BY DEF Statuses
<1>5. CASE SetPin(r)
  BY <1>1, <1>2, <1>3, <1>5, RefuseTypeOK, ReplacePinTypeOK DEF SetPin
<1>6. CASE ChangePin(r)
  BY <1>1, <1>2, <1>3, <1>4, <1>6, PinCheckOk, RefuseTypeOK, ReplacePinTypeOK, ConsumeRetryTypeOK
     DEF ChangePin
<1>7. CASE GetPinToken(r)
  <2>1. CASE PinCheck(r) # "ok" /\ Refuse("getPINToken", PinCheck(r))
    BY <1>3, <2>1, RefuseTypeOK
  <2>2. CASE PinCheck(r) = "ok" /\ ~ Matches(r) /\ ConsumeRetry("getPINToken")
    BY <1>1, <2>2, PinCheckOk, ConsumeRetryTypeOK
  <2>3. CASE /\ guesses' = 0
             /\ Stored(RestoreRetries(pin)) \/ NotStored(RestoreRetries(pin))
             /\ RotateToken
             /\ Answer("getPINToken", "ok")
    <3>1. RestoreRetries(pin) \in Records
      BY ConstantsOK DEF RestoreRetries, Records, TypeOK
    <3>2. saved' \in Records /\ pin' \in Records /\ crashes' = crashes
            /\ faults' \in {faults, faults + 1}
      BY <2>3, <3>1 DEF Stored, NotStored, bounds, TypeOK
    <3>3. last' = "getPINToken" /\ status' \in Statuses
      BY <2>3 DEF Answer, Statuses
    <3>4. powered' = powered /\ keyReady' \in BOOLEAN /\ now' = now
      BY <2>3 DEF RotateToken, TypeOK
    <3>5. guesses' \in Nat
      BY <2>3
    <3>6. QED
      BY <1>1, <2>3, <3>2, <3>3, <3>4, <3>5, HandlerTypeOK
  <2>4. CASE guesses' = 0 /\ CutShort(RestoreRetries(pin))
    <3>1. RestoreRetries(pin) \in Records
      BY ConstantsOK DEF RestoreRetries, Records, TypeOK
    <3>2. QED
      BY <2>4, <3>1, LosePowerTypeOK DEF CutShort
  <2>5. QED
    BY <1>7, <2>1, <2>2, <2>3, <2>4 DEF GetPinToken
<1>8. QED
  BY <1>5, <1>6, <1>7

\* A tick of the clock, a request for the key, and the verification of a token.
LEMMA TickTypeOK == TypeOK /\ Tick => TypeOK'
<1> SUFFICES ASSUME TypeOK, Tick PROVE TypeOK'
  OBVIOUS
<1>1. /\ saved' \in Records /\ pin' \in Records /\ powered' \in BOOLEAN /\ keyReady' \in BOOLEAN
      /\ last' = last /\ status' \in Statuses /\ tokenPin' \in Hashes \cup {NoHash}
      /\ (~ powered' => token' = 0 /\ ~ keyReady')
  BY DEF TypeOK, Tick, ram
<1>2. /\ now \in 0 .. ClockPeriod - 1 /\ tokenAge \in 0 .. ClockPeriod
      /\ now' = (now + 1) % ClockPeriod
      /\ tokenAge' = IF tokenAge < ClockPeriod THEN tokenAge + 1 ELSE tokenAge
  BY DEF TypeOK, Tick
<1>3. now' \in 0 .. ClockPeriod - 1 /\ tokenAge' \in 0 .. ClockPeriod
  BY <1>2, UnsetType
<1>4. /\ token' \in 0 .. issued' /\ issued' \in Nat /\ issuedAt' \in 0 .. ClockPeriod - 1
      /\ guesses' \in Nat /\ crashes' \in Nat /\ faults' \in Nat
  BY DEF TypeOK, Tick, ram, bounds
<1>5. last' \in {"none", "getRetries", "unsupported", "getKeyAgreement", "setPIN", "changePIN",
                 "getPINToken", "auth"}
  BY <1>1 DEF TypeOK
<1>6. QED
  BY <1>1, <1>3, <1>4, <1>5 DEF TypeOK

LEMMA VerifyTypeOK ==
  ASSUME TypeOK, NEW made, NEW protocol, VerifyAuth(made, protocol)
  PROVE  TypeOK'
<1>1. AuthStatus(made, protocol) \in {"ok", "pin not set", "pin required", "pin token expired",
                                     "verified", "pin auth invalid"}
  BY DEF AuthStatus
<1>2. last' = "auth" /\ status' \in Statuses
  BY <1>1 DEF VerifyAuth, Answer, Statuses
<1>3. KeepToken \/ ClearToken
  BY DEF VerifyAuth
<1>4. powered /\ powered' = powered /\ keyReady' \in BOOLEAN /\ now' = now
  BY <1>3 DEF VerifyAuth, KeepToken, ClearToken, ram, TypeOK
<1>5. /\ saved' \in Records /\ pin' \in Records /\ guesses' \in Nat
      /\ crashes' = crashes /\ faults' = faults
  BY DEF VerifyAuth, bounds, TypeOK
<1>6. QED
  BY <1>2, <1>3, <1>4, <1>5, HandlerTypeOK

\* Every step keeps the types.
LEMMA NextTypeOK == TypeOK /\ [Next]_vars => TypeOK'
<1> SUFFICES ASSUME TypeOK, [Next]_vars PROVE TypeOK'
  OBVIOUS
<1>1. CASE Tick
  BY <1>1, TickTypeOK
<1>2. CASE PowerLoss
  BY <1>2, LosePowerTypeOK DEF PowerLoss, TypeOK
<1>3. CASE PowerUp
  BY <1>3, UnsetType DEF PowerUp, TypeOK, history, bounds
<1>4. CASE OtherCommit
  BY <1>4 DEF OtherCommit, TypeOK, ram, history, bounds
<1>5. CASE GetRetries
  BY <1>5, RefuseTypeOK DEF GetRetries, Statuses
<1>6. CASE Unsupported
  <2>1. PICK s \in {"unsupported option", "missing parameter", "invalid cbor"} :
          Refuse("unsupported", s)
    BY <1>6 DEF Unsupported
  <2>2. s \in Statuses
    BY DEF Statuses
  <2>3. QED
    BY <2>1, <2>2, RefuseTypeOK
<1>7. CASE GetKeyAgreement
  <2>1. "ok" \in Statuses
    BY DEF Statuses
  <2>2. QED
    BY <1>7, <2>1 DEF GetKeyAgreement, Answer, TypeOK, history, bounds
<1>8. CASE \E r \in Requests : SetPin(r) \/ ChangePin(r) \/ GetPinToken(r)
  BY <1>8, ClientPinTypeOK
<1>9. CASE \E made \in -1 .. issued, protocol \in 0 .. 255 : VerifyAuth(made, protocol)
  BY <1>9, VerifyTypeOK
<1>10. CASE UNCHANGED vars
  BY <1>10 DEF vars, ram, history, bounds, TypeOK
<1>11. QED
  BY <1>1, <1>2, <1>3, <1>4, <1>5, <1>6, <1>7, <1>8, <1>9, <1>10 DEF Next, Command

\* Every variable always has its type, and RAM is cleared while the power is off.
THEOREM PinTypeCorrect == Spec => []TypeOK
<1>1. QED
  BY InitTypeOK, NextTypeOK, PTL DEF Spec

--------------------------------------------------------------------------------
(* Guesses                                                                   *)

\* A wrong PIN, and a right or a new one, as far as the record is concerned.
LosesRetry ==
  /\ powered /\ pin.retries \in 1 .. RetriesDefault
  /\ LET left == [pin EXCEPT !.retries = pin.retries - 1]
     IN  \/ Stored(left) /\ powered' /\ guesses' = guesses + 1
         \/ NotStored(left) /\ powered' /\ guesses' = guesses + 1
         \/ CutShort(left) /\ guesses' = guesses

RestoresRetries ==
  /\ powered /\ guesses' = 0
  /\ \E record \in Records :
       /\ record.retries = RetriesDefault
       /\ Stored(record) \/ NotStored(record) \/ CutShort(record)

\* What each step may do to the record and the counts.
LEMMA StepsOnRecord ==
  ASSUME TypeOK, [Next]_vars
  PROVE  \/ UNCHANGED <<saved, pin, powered, guesses, bounds>>
         \/ PowerLoss \/ PowerUp \/ OtherCommit
         \/ LosesRetry
         \/ RestoresRetries
<1>1. CASE Tick \/ GetRetries \/ Unsupported \/ GetKeyAgreement \/ UNCHANGED vars
  BY <1>1 DEF Tick, GetRetries, Unsupported, GetKeyAgreement, Refuse, vars, ram, history
<1>2. CASE \E made \in -1 .. issued, protocol \in 0 .. 255 : VerifyAuth(made, protocol)
  BY <1>2 DEF VerifyAuth, KeepToken, ClearToken, ram
<1>3. ASSUME NEW command, NEW s, Refuse(command, s)
      PROVE  UNCHANGED <<saved, pin, powered, guesses, bounds>>
  BY <1>3 DEF Refuse, ram, history
<1>4. ASSUME NEW r \in Requests, NEW command, powered, PinCheck(r) = "ok", ConsumeRetry(command)
      PROVE  LosesRetry
  <2> DEFINE left == [pin EXCEPT !.retries = pin.retries - 1]
  <2>1. pin.retries \in 1 .. RetriesDefault
    BY <1>4, PinCheckOk
  <2>2. \/ Stored(left) /\ powered' /\ guesses' = guesses + 1
        \/ NotStored(left) /\ powered' /\ guesses' = guesses + 1
        \/ CutShort(left) /\ guesses' = guesses
    BY <1>4 DEF ConsumeRetry, KeepToken, ram
  <2>3. QED
    BY <1>4, <2>1, <2>2 DEF LosesRetry
<1>5. ASSUME NEW h \in Hashes \cup {NoHash}, NEW command, powered, ReplacePin(command, h)
      PROVE  RestoresRetries
  <2> DEFINE record == [hash |-> h, retries |-> RetriesDefault]
  <2>1. record \in Records /\ record.retries = RetriesDefault
    BY ConstantsOK DEF Records
  <2>2. guesses' = 0 /\ (Stored(record) \/ NotStored(record) \/ CutShort(record))
    BY <1>5 DEF ReplacePin
  <2>3. QED
    BY <1>5, <2>1, <2>2 DEF RestoresRetries
<1>6. CASE \E r \in Requests : SetPin(r) \/ ChangePin(r) \/ GetPinToken(r)
  <2>1. PICK r \in Requests : SetPin(r) \/ ChangePin(r) \/ GetPinToken(r)
    BY <1>6
  <2>2. powered /\ r.new \in Hashes \cup {NoHash}
    BY <2>1 DEF SetPin, ChangePin, GetPinToken, Requests
  <2>3. CASE SetPin(r)
    BY <1>3, <1>5, <2>2, <2>3 DEF SetPin
  <2>4. CASE ChangePin(r)
    BY <1>3, <1>4, <1>5, <2>2, <2>4 DEF ChangePin
  <2>5. CASE GetPinToken(r) /\ PinCheck(r) = "ok" /\ Matches(r)
    <3>1. RestoreRetries(pin) \in Records /\ RestoreRetries(pin).retries = RetriesDefault
      BY ConstantsOK DEF RestoreRetries, Records, TypeOK
    <3>2. /\ guesses' = 0
          /\ \/ Stored(RestoreRetries(pin)) \/ NotStored(RestoreRetries(pin))
             \/ CutShort(RestoreRetries(pin))
      BY <1>3, <2>5 DEF GetPinToken
    <3>3. QED
      BY <2>2, <3>1, <3>2 DEF RestoresRetries
  <2>6. CASE GetPinToken(r) /\ ~ (PinCheck(r) = "ok" /\ Matches(r))
    BY <1>3, <1>4, <2>2, <2>6 DEF GetPinToken
  <2>7. QED
    BY <2>1, <2>3, <2>4, <2>5, <2>6
<1>7. QED
  BY <1>1, <1>2, <1>6 DEF Next, Command

\* The inductive form of GuessesAreBounded and NoRetryIsWasted.  A commit of another
\* operation, and the next power-up, carry retries between flash and RAM, so the copy in
\* RAM has to keep to the same bounds; while the device is off it is blank.
Bounded(record) == guesses + record.retries <= RetriesDefault + faults
Spared(record)  == faults = 0 => RetriesDefault - record.retries <= guesses + crashes

GuessInv ==
  /\ Bounded(saved) /\ Spared(saved)
  /\ powered => Bounded(pin) /\ Spared(pin)

LEMMA GuessInvInductive ==
  ASSUME TypeOK, GuessInv, [Next]_vars
  PROVE  GuessInv'
<1>1. /\ RetriesDefault \in Nat /\ guesses \in Nat /\ crashes \in Nat /\ faults \in Nat
      /\ saved.retries \in 0 .. RetriesDefault /\ pin.retries \in 0 .. RetriesDefault
  BY ConstantsOK DEF TypeOK, Records
<1>2. CASE UNCHANGED <<saved, pin, powered, guesses, bounds>>
  BY <1>2 DEF GuessInv, Bounded, Spared, bounds
<1>3. CASE PowerLoss
  <2>1. ~ powered' /\ UNCHANGED <<saved, guesses, faults>> /\ crashes' = crashes + 1
    BY <1>3 DEF PowerLoss, LosePower
  <2>2. Bounded(saved)' /\ Spared(saved)'
    <3>1. Bounded(saved) /\ Spared(saved)
      BY DEF GuessInv
    <3>2. QED
      BY <1>1, <2>1, <3>1 DEF Bounded, Spared
  <2>3. QED
    BY <2>1, <2>2 DEF GuessInv
<1>4. CASE PowerUp
  BY <1>4 DEF PowerUp, GuessInv, Bounded, Spared, history, bounds
<1>5. CASE OtherCommit
  BY <1>5 DEF OtherCommit, GuessInv, Bounded, Spared, history, bounds, ram
<1>6. CASE LosesRetry
  <2> DEFINE left == [pin EXCEPT !.retries = pin.retries - 1]
  <2>1. powered /\ pin.retries \in 1 .. RetriesDefault
    BY <1>6 DEF LosesRetry
  <2>2. left.retries = pin.retries - 1
    BY DEF TypeOK, Records
  <2>3. Bounded(pin) /\ Spared(pin) /\ Bounded(saved) /\ Spared(saved)
    BY <2>1 DEF GuessInv
  <2>4. \/ Stored(left) /\ powered' /\ guesses' = guesses + 1
        \/ NotStored(left) /\ powered' /\ guesses' = guesses + 1
        \/ CutShort(left) /\ guesses' = guesses
    BY <1>6 DEF LosesRetry
  <2> HIDE DEF left
  <2>5. CASE Stored(left) /\ powered' /\ guesses' = guesses + 1
    <3>1. /\ saved' = left /\ pin' = left /\ faults' = faults /\ crashes' = crashes
          /\ guesses' = guesses + 1
      BY <2>5 DEF Stored, bounds
    <3>2. Bounded(saved)' /\ Spared(saved)' /\ Bounded(pin)' /\ Spared(pin)'
      BY <1>1, <2>1, <2>2, <2>3, <3>1 DEF Bounded, Spared
    <3>3. QED
      BY <3>2 DEF GuessInv
  <2>6. CASE NotStored(left) /\ powered' /\ guesses' = guesses + 1
    <3>1. /\ saved' = saved /\ pin' = left /\ faults' = faults + 1 /\ crashes' = crashes
          /\ guesses' = guesses + 1
      BY <2>6 DEF NotStored
    <3>2. Bounded(saved)' /\ Spared(saved)' /\ Bounded(pin)' /\ Spared(pin)'
      BY <1>1, <2>1, <2>2, <2>3, <3>1 DEF Bounded, Spared
    <3>3. QED
      BY <3>2 DEF GuessInv
  <2>7. CASE CutShort(left) /\ guesses' = guesses
    <3>1. /\ saved' = left /\ faults' = faults /\ crashes' = crashes + 1 /\ guesses' = guesses
      BY <2>7 DEF CutShort, LosePower
    <3>2. Bounded(saved)' /\ Spared(saved)' /\ ~ powered'
      <4>1. ~ powered'
        BY <2>7 DEF CutShort, LosePower
      <4>2. Bounded(saved)' /\ Spared(saved)'
        BY <1>1, <2>1, <2>2, <2>3, <3>1 DEF Bounded, Spared
      <4>3. QED
        BY <4>1, <4>2
    <3>3. QED
      BY <3>2 DEF GuessInv
  <2>8. QED
    BY <2>4, <2>5, <2>6, <2>7
<1>7. CASE RestoresRetries
  <2>1. PICK record \in Records :
          /\ record.retries = RetriesDefault
          /\ Stored(record) \/ NotStored(record) \/ CutShort(record)
    BY <1>7 DEF RestoresRetries
  <2>2. /\ guesses' = 0 /\ saved' \in {saved, record}
        /\ pin' = record \/ ~ powered'
        /\ faults' \in Nat /\ crashes' \in Nat
        /\ saved' = saved => faults' > 0 \/ saved = record
    <3>1. CASE Stored(record)
      BY <1>1, <1>7, <2>1, <3>1 DEF RestoresRetries, Stored, bounds
    <3>2. CASE NotStored(record)
      <4>1. saved' = saved /\ pin' = record /\ faults' = faults + 1 /\ crashes' = crashes /\ guesses' = 0
        BY <1>7, <3>2 DEF RestoresRetries, NotStored
      <4>2. faults' > 0 /\ faults' \in Nat
        BY <1>1, <4>1
      <4>3. QED
        BY <1>1, <4>1, <4>2
    <3>3. CASE CutShort(record)
      <4>1. saved' = record /\ faults' = faults /\ crashes' = crashes + 1 /\ guesses' = 0 /\ ~ powered'
        BY <1>7, <3>3 DEF RestoresRetries, CutShort, LosePower
      <4>2. crashes' \in Nat
        BY <1>1, <4>1
      <4>3. QED
        BY <1>1, <4>1, <4>2
    <3>4. QED
      BY <2>1, <3>1, <3>2, <3>3
  <2>3. Bounded(saved)' /\ Spared(saved)'
    BY <1>1, <2>1, <2>2 DEF Bounded, Spared
  <2>4. pin' = record => Bounded(pin)' /\ Spared(pin)'
    BY <1>1, <2>1, <2>2 DEF Bounded, Spared
  <2>5. QED
    BY <2>2, <2>3, <2>4 DEF GuessInv
<1>8. QED
  BY <1>2, <1>3, <1>4, <1>5, <1>6, <1>7, StepsOnRecord

\* No number of requests, power losses and commits of other operations, in any order,
\* buys more wrong PINs than the limit and the failed commits account for.
THEOREM GuessesCorrect == Spec => []GuessesAreBounded
<1>1. Init => GuessInv
  BY ConstantsOK DEF Init, GuessInv, Bounded, Spared, Unset
<1>2. GuessInv => GuessesAreBounded
  BY DEF GuessInv, Bounded, GuessesAreBounded
<1>3. QED
  BY <1>1, <1>2, GuessInvInductive, PinTypeCorrect, PTL DEF Spec

\* And none is lost but to a wrong PIN, or to a power loss while one was being counted.
THEOREM RetriesCorrect == Spec => []NoRetryIsWasted
<1>1. Init => GuessInv
  BY ConstantsOK DEF Init, GuessInv, Bounded, Spared, Unset
<1>2. GuessInv => NoRetryIsWasted
  BY DEF GuessInv, Spared, NoRetryIsWasted
<1>3. QED
  BY <1>1, <1>2, GuessInvInductive, PinTypeCorrect, PTL DEF Spec

--------------------------------------------------------------------------------
(* The token                                                                 *)

\* The token in force is the one issued last; it was issued for the PIN in force unless a
\* commit has failed, and the clock tells its age until it has gone all the way round.
TokenInv ==
  token # 0 =>
    /\ token = issued
    /\ faults = 0 => tokenPin = pin.hash
    /\ tokenAge < ClockPeriod =>
         now = issuedAt + tokenAge \/ now = issuedAt + tokenAge - ClockPeriod

\* What each step may do to the token.
LEMMA StepsOnToken ==
  ASSUME TypeOK, [Next]_vars
  PROVE  \/ Tick
         \/ token' = 0
         \/ RotateToken /\ pin'.hash = pin.hash
         \/ /\ UNCHANGED <<token, issuedAt, now, issued, tokenPin, tokenAge>>
            /\ faults' \in {faults, faults + 1}
            /\ pin'.hash = pin.hash \/ faults' = faults + 1
<1> DEFINE Keeps == /\ UNCHANGED <<token, issuedAt, now, issued, tokenPin, tokenAge>>
                    /\ faults' \in {faults, faults + 1}
                    /\ pin'.hash = pin.hash \/ faults' = faults + 1
<1>1. CASE GetRetries \/ Unsupported \/ GetKeyAgreement \/ OtherCommit \/ UNCHANGED vars
  BY <1>1 DEF GetRetries, Unsupported, GetKeyAgreement, OtherCommit, Refuse, vars, ram, history,
              bounds
<1>2. CASE PowerLoss \/ PowerUp
  BY <1>2 DEF PowerLoss, LosePower, PowerUp, TypeOK
<1>3. CASE \E made \in -1 .. issued, protocol \in 0 .. 255 : VerifyAuth(made, protocol)
  BY <1>3 DEF VerifyAuth, KeepToken, ClearToken, ram, bounds
<1>4. ASSUME NEW command, NEW s, Refuse(command, s)
      PROVE  Keeps
  BY <1>4 DEF Refuse, ram, history, bounds
<1>5. ASSUME NEW command, ConsumeRetry(command)
      PROVE  Keeps \/ token' = 0
  <2> DEFINE left == [pin EXCEPT !.retries = pin.retries - 1]
  <2>1. left.hash = pin.hash
    BY DEF TypeOK, Records
  <2>2. \/ (Stored(left) \/ NotStored(left)) /\ KeepToken
        \/ CutShort(left)
    BY <1>5 DEF ConsumeRetry
  <2> HIDE DEF left
  <2>3. QED
    BY <2>1, <2>2 DEF Stored, NotStored, CutShort, LosePower, KeepToken, ram, bounds
<1>6. ASSUME NEW h, NEW command, ReplacePin(command, h)
      PROVE  Keeps \/ token' = 0
  <2> DEFINE record == [hash |-> h, retries |-> RetriesDefault]
  <2>1. \/ Stored(record) /\ ClearToken
        \/ NotStored(record) /\ KeepToken
        \/ CutShort(record)
    BY <1>6 DEF ReplacePin
  <2> HIDE DEF record
  <2>2. QED
    BY <2>1 DEF Stored, NotStored, CutShort, LosePower, KeepToken, ClearToken, ram, bounds
<1>7. CASE \E r \in Requests : SetPin(r) \/ ChangePin(r) \/ GetPinToken(r)
  <2>1. PICK r \in Requests : SetPin(r) \/ ChangePin(r) \/ GetPinToken(r)
    BY <1>7
  <2>2. CASE SetPin(r)
    BY <1>4, <1>6, <2>2 DEF SetPin
  <2>3. CASE ChangePin(r)
    BY <1>4, <1>5, <1>6, <2>3 DEF ChangePin
  <2>4. CASE GetPinToken(r)
    <3>1. CASE /\ Stored(RestoreRetries(pin)) \/ NotStored(RestoreRetries(pin))
               /\ RotateToken
      <4>1. pin' = RestoreRetries(pin)
        BY <3>1 DEF Stored, NotStored
      <4>2. pin'.hash = pin.hash
        BY <4>1 DEF RestoreRetries, TypeOK, Records
      <4>3. QED
        BY <3>1, <4>2
    <3>2. CASE CutShort(RestoreRetries(pin))
      BY <3>2 DEF CutShort, LosePower
    <3>3. QED
      BY <1>4, <1>5, <2>4, <3>1, <3>2 DEF GetPinToken
  <2>5. QED
    BY <2>1, <2>2, <2>3, <2>4
<1>8. QED
  BY <1>1, <1>2, <1>3, <1>7 DEF Next, Command

LEMMA TokenInvInductive ==
  ASSUME TypeOK, TokenInv, [Next]_vars
  PROVE  TokenInv'
<1>1. /\ token \in 0 .. issued /\ issued \in Nat /\ ClockPeriod \in Nat \ {0}
      /\ issuedAt \in 0 .. ClockPeriod - 1 /\ now \in 0 .. ClockPeriod - 1
      /\ tokenAge \in 0 .. ClockPeriod /\ faults \in Nat
  BY UnsetType DEF TypeOK
<1>2. CASE Tick
  <2>1. /\ now' = (now + 1) % ClockPeriod
        /\ tokenAge' = IF tokenAge < ClockPeriod THEN tokenAge + 1 ELSE tokenAge
        /\ UNCHANGED <<token, issuedAt, issued, tokenPin, faults, pin>>
    BY <1>2 DEF Tick, ram, bounds
  <2>2. now' = IF now + 1 = ClockPeriod THEN 0 ELSE now + 1
    BY <1>1, <2>1
  <2>3. QED
    BY <1>1, <2>1, <2>2 DEF TokenInv
<1>3. CASE token' = 0
  BY <1>3 DEF TokenInv
<1>4. CASE RotateToken /\ pin'.hash = pin.hash
  <2>1. token' = issued' /\ issuedAt' = now /\ now' = now /\ tokenAge' = 0 /\ tokenPin' = pin.hash
    BY <1>4 DEF RotateToken
  <2>2. QED
    BY <1>1, <1>4, <2>1 DEF TokenInv
<1>5. CASE /\ UNCHANGED <<token, issuedAt, now, issued, tokenPin, tokenAge>>
           /\ faults' \in {faults, faults + 1}
           /\ pin'.hash = pin.hash \/ faults' = faults + 1
  <2>1. faults' = 0 => faults = 0 /\ pin'.hash = pin.hash
    BY <1>1, <1>5
  <2>2. QED
    BY <1>5, <2>1 DEF TokenInv
<1>6. QED
  BY <1>2, <1>3, <1>4, <1>5, StepsOnToken

\* The token in force was issued for the PIN in force, unless a commit has failed.
THEOREM TokenCorrect == Spec => []TokenIsForThisPin
<1>1. Init => TokenInv
  BY DEF Init, TokenInv
<1>2. TokenInv => TokenIsForThisPin
  BY DEF TokenInv, TokenIsForThisPin
<1>3. QED
  BY <1>1, <1>2, TokenInvInductive, PinTypeCorrect, PTL DEF Spec

\* A token that passes is the one in force, and its age as the 32-bit clock tells it is
\* within the lifetime.
LEMMA UsableIsFresh ==
  ASSUME TypeOK, TokenInv, TokenUsable
  PROVE  token = issued /\ (tokenAge <= Lifetime \/ tokenAge = ClockPeriod)
<1>1. /\ token # 0 /\ (now - issuedAt) % ClockPeriod <= Lifetime
      /\ ClockPeriod \in Nat \ {0} /\ Lifetime \in Nat
      /\ issuedAt \in 0 .. ClockPeriod - 1 /\ now \in 0 .. ClockPeriod - 1
      /\ tokenAge \in 0 .. ClockPeriod
  BY UnsetType, ConstantsOK DEF TypeOK, TokenUsable
<1>2. ASSUME tokenAge < ClockPeriod PROVE (now - issuedAt) % ClockPeriod = tokenAge
  <2>1. CASE now = issuedAt + tokenAge
    <3>1. now - issuedAt = tokenAge
      BY <1>1, <2>1
    <3>2. tokenAge % ClockPeriod = tokenAge
      BY <1>1, <1>2
    <3>3. QED
      BY <3>1, <3>2
  <2>2. CASE now = issuedAt + tokenAge - ClockPeriod
    <3>1. now - issuedAt = tokenAge - ClockPeriod
      BY <1>1, <2>2
    <3>2. (tokenAge - ClockPeriod) % ClockPeriod = tokenAge
      BY <1>1, <1>2
    <3>3. QED
      BY <3>1, <3>2
  <2>3. QED
    BY <1>1, <1>2, <2>1, <2>2 DEF TokenInv
<1>3. QED
  BY <1>1, <1>2 DEF TokenInv

\* What an operation that counts as verified has shown.
LEMMA VerifiedShows ==
  ASSUME TypeOK, TokenInv, NEW made, NEW protocol, AuthStatus(made, protocol) = "verified"
  PROVE  /\ Configured /\ made # -1 /\ protocol = 1 /\ token # 0 /\ made = issued
         /\ faults = 0 => tokenPin = pin.hash
         /\ tokenAge <= Lifetime \/ tokenAge = ClockPeriod
<1>1. Configured /\ made # -1 /\ protocol = 1 /\ TokenUsable /\ made = token
  BY DEF AuthStatus
<1>2. token # 0
  BY <1>1 DEF TokenUsable
<1>3. QED
  BY <1>1, <1>2, UsableIsFresh DEF TokenInv

\* Only the token issued last verifies an operation, and only within its lifetime, but for
\* the token that no request has met for a whole period of the clock.
THEOREM VerifiedCorrect == Spec => VerifiedMeansFresh
<1>1. Init => TokenInv
  BY DEF Init, TokenInv
<1>2. ASSUME TypeOK, TokenInv, NEW made \in -1 .. issued, status' = "verified",
             VerifyAuth(made, 1)
      PROVE  made = issued /\ (tokenAge <= Lifetime \/ tokenAge = ClockPeriod)
  <2>1. AuthStatus(made, 1) = "verified"
    BY <1>2 DEF VerifyAuth, Answer
  <2>2. QED
    BY <1>2, <2>1, VerifiedShows
<1>3. TypeOK /\ TokenInv =>
        \A made \in -1 .. issued :
          status' = "verified" /\ VerifyAuth(made, 1)
            => made = issued /\ (tokenAge <= Lifetime \/ tokenAge = ClockPeriod)
  BY <1>2
<1>4. QED
  BY <1>1, <1>3, TokenInvInductive, PinTypeCorrect, PTL DEF Spec, VerifiedMeansFresh

--------------------------------------------------------------------------------
(* Acknowledged changes of the PIN                                           *)

\* An acknowledged PIN is in flash, whatever happens before the next command.
THEOREM AckedPinCorrect == Spec => []AckedPinIsDurable
<1>1. Init => AckedPinIsDurable
  BY DEF Init, AckedPinIsDurable
<1>2. ASSUME TypeOK, AckedPinIsDurable, [Next]_vars
      PROVE  AckedPinIsDurable'
  <2>1. CASE Tick \/ PowerUp \/ OtherCommit \/ UNCHANGED vars
    BY <1>2, <2>1 DEF Tick, PowerUp, OtherCommit, AckedPinIsDurable, vars
  <2>2. CASE PowerLoss
    BY <2>2 DEF PowerLoss, LosePower, AckedPinIsDurable
  <2>3. CASE GetRetries \/ Unsupported \/ GetKeyAgreement
    BY <2>3 DEF GetRetries, Unsupported, GetKeyAgreement, Refuse, Answer, AckedPinIsDurable
  <2>4. CASE \E made \in -1 .. issued, protocol \in 0 .. 255 : VerifyAuth(made, protocol)
    BY <2>4 DEF VerifyAuth, Answer, AckedPinIsDurable
  <2>5. ASSUME NEW command, NEW s, Refuse(command, s), s # "ok"
        PROVE  AckedPinIsDurable'
    BY <2>5 DEF Refuse, Answer, AckedPinIsDurable
  <2>6. ASSUME NEW command, ConsumeRetry(command)
        PROVE  AckedPinIsDurable'
    BY <2>6 DEF ConsumeRetry, Answer, CutShort, LosePower, AckedPinIsDurable
  <2>7. ASSUME NEW command, NEW h, ReplacePin(command, h)
        PROVE  AckedPinIsDurable'
    BY <2>7 DEF ReplacePin, Stored, Answer, CutShort, LosePower, AckedPinIsDurable
  <2>8. ASSUME NEW r \in Requests, SetPin(r) \/ ChangePin(r) \/ GetPinToken(r)
        PROVE  AckedPinIsDurable'
    <3>1. CASE SetPin(r)
      BY <2>5, <2>7, <3>1 DEF SetPin
    <3>2. CASE ChangePin(r)
      BY <2>5, <2>6, <2>7, <3>2 DEF ChangePin
    <3>3. CASE GetPinToken(r)
      <4>1. CASE Answer("getPINToken", "ok") \/ CutShort(RestoreRetries(pin))
        BY <4>1 DEF Answer, CutShort, LosePower, AckedPinIsDurable
      <4>2. QED
        BY <2>5, <2>6, <3>3, <4>1 DEF GetPinToken
    <3>4. QED
      BY <2>8, <3>1, <3>2, <3>3
  <2>9. QED
    BY <1>2, <2>1, <2>2, <2>3, <2>4, <2>8 DEF Next, Command
<1>3. QED
  BY <1>1, <1>2, PinTypeCorrect, PTL DEF Spec

================================================================================
