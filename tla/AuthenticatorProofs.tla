--------------------------- MODULE AuthenticatorProofs ---------------------------
(***************************************************************************)
(* The commands together leave authenticatorClientPIN its guarantees, and  *)
(* an operation is marked as verified when it has earned it: for every     *)
(* number of retries, every lifetime of a token, and any number of         *)
(* requests, crashes and failed commits.                                   *)
(***************************************************************************)
EXTENDS Authenticator, ClientPinProofs

--------------------------------------------------------------------------------
(* Every step of the commands is one of ClientPin, or leaves it alone        *)

\* Nothing waits and nothing is pending in a device that is off.
OffIsIdle == ~ powered => waiting = Nothing /\ pending = Nothing

\* The number of the protocol matters only in being 1.
LEMMA VerifyIsStep ==
  ASSUME NEW made \in -1 .. issued, NEW protocol, VerifyAuth(made, protocol)
  PROVE  Next
<1> DEFINE p == IF protocol = 1 THEN 1 ELSE 0
<1>1. p \in 0 .. 255
  OBVIOUS
<1>2. AuthStatus(made, p) = AuthStatus(made, protocol)
  BY DEF AuthStatus
<1> HIDE DEF p
<1>3. VerifyAuth(made, p)
  BY <1>2 DEF VerifyAuth
<1>4. QED
  BY <1>1, <1>3 DEF Next

LEMMA AuthorizeIsStep ==
  ASSUME NEW p, NEW made \in -1 .. issued, Authorize(p, made), TypeOK
  PROVE  [Next]_vars
<1>1. -1 \in -1 .. issued
  BY DEF TypeOK
<1>2. QED
  BY <1>1, VerifyIsStep DEF Authorize

\* The commit that an operation ends with is one of another operation of the store.
LEMMA EndedIsStep ==
  ASSUME NEW op, powered, Ended(op)
  PROVE  [Next]_vars
<1>1. saved' = saved \/ saved' = pin
  BY DEF Ended
<1>2. UNCHANGED <<pin, ram, now, last, status, history, bounds>>
  BY DEF Ended
<1>3. CASE saved' = saved
  BY <1>2, <1>3 DEF vars
<1>4. CASE saved' = pin
  BY <1>2, <1>4 DEF Next, OtherCommit
<1>5. QED
  BY <1>1, <1>3, <1>4

\* What a clientPIN request is answered that cannot be read or asks for what there is not.
LEMMA PinReadStatus ==
  \A items : ParsePin(items).status \in
               {"ok", "unsupported option", "missing parameter", "invalid cbor"}
BY DEF ParsePin, PinRead, PinStatus

LEMMA OddIsStep ==
  ASSUME TypeOK, NEW m, BeginOdd(m)
  PROVE  [Next]_vars
<1> DEFINE p == Parse(m, Configured)
<1>1. CASE m.kind # "pin"
  <2>1. Authorize(p, 0)
    BY <1>1 DEF BeginOdd, BeginRead
  <2>2. 0 \in -1 .. issued
    BY DEF TypeOK
  <2>3. QED
    BY <2>1, <2>2, AuthorizeIsStep
<1>2. CASE m.kind = "pin"
  <2>1. p = ParsePin(ItemsOf(m))
    BY <1>2 DEF Parse, ParseItems
  <2>2. p.status \in {"ok", "unsupported option", "missing parameter", "invalid cbor"}
    BY <2>1, PinReadStatus
  <2>3. CASE p.status = "ok"
    BY <1>2, <2>3 DEF BeginOdd, BeginRead, Next, Command
  <2>4. CASE p.status # "ok"
    <3>1. Refuse("unsupported", p.status)
      BY <1>2, <2>4 DEF BeginOdd, BeginRead
    <3>2. Unsupported
      BY <2>2, <2>4, <3>1 DEF Unsupported
    <3>3. QED
      BY <3>2 DEF Next, Command
  <2>5. QED
    BY <2>3, <2>4
<1>3. QED
  BY <1>1, <1>2

LEMMA BeginIsStep ==
  ASSUME TypeOK, NEW m, NEW made \in 0 .. issued, Begin(m, made)
  PROVE  [Next]_vars
<1>1. Authorize(m.read[Configured], made)
  BY DEF Begin
<1>2. made \in -1 .. issued
  BY DEF TypeOK
<1>3. QED
  BY <1>1, <1>2, AuthorizeIsStep

\* Every step of the commands is one that ClientPin allows.
LEMMA AuthStep ==
  ASSUME TypeOK, OffIsIdle, [AuthNext]_authVars
  PROVE  [Next]_vars
<1>1. CASE (Tick \/ PowerLoss \/ PowerUp) /\ Bystander
  BY <1>1 DEF Next
<1>2. CASE waiting = Nothing /\ (OtherCommit \/ Command) /\ Bystander
  BY <1>2 DEF Next
<1>3. ASSUME NEW m \in Readings, NEW made \in IF Shows(m) THEN 0 .. issued ELSE {0},
             Begin(m, made)
      PROVE  [Next]_vars
  <2>1. made \in 0 .. issued
    BY <1>3 DEF TypeOK
  <2>2. QED
    BY <1>3, <2>1, BeginIsStep
<1>4. ASSUME NEW m \in OddMessages, BeginOdd(m)
      PROVE  [Next]_vars
  BY <1>4, OddIsStep
<1>5. CASE Confirmed
  BY <1>5, EndedIsStep DEF Confirmed, OffIsIdle
<1>6. CASE TimedOut
  BY <1>6 DEF TimedOut
<1>7. CASE GetNext
  BY <1>7, EndedIsStep DEF GetNext
<1>8. CASE UNCHANGED authVars
  BY <1>8 DEF authVars
<1>9. QED
  BY <1>1, <1>2, <1>3, <1>4, <1>5, <1>6, <1>7, <1>8 DEF AuthNext

\* What is verified, refused or left alone keeps its power.
LEMMA AuthorizeKeepsPower ==
  ASSUME NEW p, NEW made, Authorize(p, made)
  PROVE  powered /\ powered' = powered
BY DEF Authorize, VerifyAuth, KeepToken, ClearToken, vars, ram

LEMMA OddKeepsPower ==
  ASSUME NEW m, BeginOdd(m)
  PROVE  powered /\ powered' = powered
<1> DEFINE p == Parse(m, Configured)
<1>1. Authorize(p, 0) \/ GetRetries \/ Refuse("unsupported", p.status)
  <2>1. CASE m.kind # "pin"
    BY <2>1 DEF BeginOdd, BeginRead
  <2>2. CASE m.kind = "pin" /\ p.status = "ok"
    BY <2>2 DEF BeginOdd, BeginRead
  <2>3. CASE m.kind = "pin" /\ p.status # "ok"
    BY <2>3 DEF BeginOdd, BeginRead
  <2>4. QED
    BY <2>1, <2>2, <2>3
<1> HIDE DEF p
<1>2. QED
  BY <1>1, AuthorizeKeepsPower DEF GetRetries, Refuse, ram

LEMMA OffIsIdleInductive ==
  ASSUME OffIsIdle, [AuthNext]_authVars
  PROVE  OffIsIdle'
<1>1. CASE Bystander
  BY <1>1 DEF Bystander, OffIsIdle
<1>2. ASSUME NEW m, NEW made, Begin(m, made)
      PROVE  OffIsIdle'
  <2>1. Authorize(m.read[Configured], made)
    BY <1>2 DEF Begin
  <2>2. QED
    BY <2>1, AuthorizeKeepsPower DEF OffIsIdle
<1>3. ASSUME NEW m, BeginOdd(m)
      PROVE  OffIsIdle'
  BY <1>3, OddKeepsPower DEF OffIsIdle
<1>4. CASE Confirmed
  BY <1>4 DEF Confirmed, Ended, OffIsIdle, ram
<1>5. CASE TimedOut
  BY <1>5 DEF TimedOut, OffIsIdle, vars, ram
<1>6. CASE GetNext
  BY <1>6 DEF GetNext, Ended, OffIsIdle, vars, ram
<1>7. CASE UNCHANGED authVars
  BY <1>7 DEF authVars, vars, ram, OffIsIdle
<1>8. QED
  BY <1>1, <1>2, <1>3, <1>4, <1>5, <1>6, <1>7 DEF AuthNext

\* The commands together implement authenticatorClientPIN as ClientPin has it: no other
\* command gives a guess back, keeps a token alive or loses a PIN.
THEOREM AuthIsClientPin == AuthSpec => Spec
<1>1. AuthInit => Init /\ TypeOK /\ OffIsIdle
  BY InitTypeOK DEF AuthInit, OffIsIdle
<1>2. TypeOK /\ OffIsIdle /\ [AuthNext]_authVars => TypeOK' /\ OffIsIdle'
  BY AuthStep, NextTypeOK, OffIsIdleInductive
<1>3. TypeOK /\ OffIsIdle /\ [AuthNext]_authVars => [Next]_vars
  BY AuthStep
<1>4. QED
  BY <1>1, <1>2, <1>3, PTL DEF AuthSpec, Spec

\* So what holds of authenticatorClientPIN holds of the whole.
THEOREM AuthKeepsGuarantees ==
  AuthSpec => [](/\ GuessesAreBounded /\ NoRetryIsWasted
                 /\ TokenIsForThisPin /\ AckedPinIsDurable)
BY AuthIsClientPin, GuessesCorrect, RetriesCorrect, TokenCorrect, AckedPinCorrect, PTL

--------------------------------------------------------------------------------
(* Verified operations                                                       *)

Earned(op) ==
  "verified" \in DOMAIN op =>
    /\ op.verified <=> op.earned
    /\ op.asked => op.verified

\* Every operation that waits, is pending or is answered has earned its mark.
EarnedInv == Earned(waiting) /\ Earned(pending) /\ Earned(answer)

LEMMA NothingIsEarned == Earned(Nothing)
BY DEF Earned, Nothing

LEMMA StatusNeedsPin ==
  ASSUME NEW ok, NEW g, NEW pinSet \in BOOLEAN, g.uv, ~ pinSet
  PROVE  MakeStatus(ok, g, pinSet) # "ok" /\ GetStatus(ok, g, pinSet) # "ok"
<1>1. MakeStatus(ok, g, pinSet) # "ok"
  <2> DEFINE complete == g.hash # Absent /\ g.rp # None /\ g.user # None
  <2>1. MakeStatus(ok, g, pinSet) =
          CASE ~ ok -> "invalid cbor"
            [] ok /\ ~ complete -> "missing parameter"
            [] ok /\ complete /\ ~ g.es256 -> "unsupported algorithm"
            [] OTHER -> IF g.uv /\ ~ pinSet THEN "pin not set" ELSE "ok"
    BY DEF MakeStatus
  <2> HIDE DEF complete
  <2>2. QED
    BY <2>1
<1>2. GetStatus(ok, g, pinSet) # "ok"
  <2> DEFINE complete == g.rpId # Absent /\ g.hash # Absent
  <2>1. GetStatus(ok, g, pinSet) =
          CASE ~ ok -> "invalid cbor"
            [] ok /\ ~ complete -> "missing parameter"
            [] ok /\ complete /\ g.uv /\ ~ pinSet -> "pin not set"
            [] OTHER -> IF SecretIncomplete(g) THEN "missing parameter" ELSE "ok"
    BY DEF GetStatus
  <2> HIDE DEF complete
  <2>2. QED
    BY <2>1
<1>3. QED
  BY <1>1, <1>2

\* A request that asks to be verified by a device without a PIN is not well-formed.
LEMMA UvNeedsPin ==
  ASSUME NEW m \in Readings, m.read[Configured].status = "ok", m.read[Configured].request.uv
  PROVE  Configured
<1>1. PICK s \in SimpleMessages :
        m = [message |-> s, read |-> [pinSet \in BOOLEAN |-> Parse(s, pinSet)]]
  BY DEF Readings
<1>2. s.kind \in {"make", "get"}
  BY DEF SimpleMessages, Simple, Message
<1>3. Configured \in BOOLEAN
  BY DEF Configured
<1>4. m.read[Configured] = Parse(s, Configured)
  BY <1>1, <1>3
<1> DEFINE items == ItemsOf(s)
<1>5. CASE s.kind = "make"
  <2>1. m.read[Configured] = MakeRead(MakeEnd(items), Configured)
    BY <1>4, <1>5 DEF Parse, ParseItems, ParseMake
  <2> HIDE DEF items
  <2>2. QED
    BY <1>3, <2>1, StatusNeedsPin DEF MakeRead
<1>6. CASE s.kind = "get"
  <2>1. m.read[Configured] = GetRead(GetEnd(items), Configured)
    BY <1>4, <1>6 DEF Parse, ParseItems, ParseGet
  <2> HIDE DEF items
  <2>2. QED
    BY <1>3, <2>1, StatusNeedsPin DEF GetRead
<1>7. QED
  BY <1>2, <1>5, <1>6

\* An operation that begins has earned its mark.
LEMMA BeginEarns ==
  ASSUME TypeOK, TokenInv, EarnedInv, NEW m \in Readings, NEW made \in 0 .. issued,
         Begin(m, made)
  PROVE  EarnedInv'
<1> DEFINE p == m.read[Configured]
           g == p.request
           kind == m.message.kind
           asked == g.uv \/ g.param # Absent
           op == Operation(kind, UserVerified(g), asked,
                           g.param # Absent /\ g.protocol = 1 /\ InForce(made))
<1>1. Authorize(p, made) /\ answer' = Nothing
  BY DEF Begin
<1>2. CASE ~ Accepted(p)
  <2>1. waiting' = waiting /\ pending' \in {Nothing, pending}
    BY <1>2 DEF Begin
  <2>2. QED
    BY <1>1, <2>1, NothingIsEarned DEF EarnedInv
<1>3. CASE Accepted(p)
  <2>1. waiting' = op /\ pending' = Nothing
    BY <1>3 DEF Begin
  <2>2. p.status = "ok" /\ (asked => status' \in {"ok", "verified"})
    BY <1>3 DEF Accepted
  <2>3. CASE ~ asked
    <3>1. ~ UserVerified(g) /\ g.param = Absent
      BY <2>3 DEF UserVerified
    <3>2. Earned(op)
      BY <2>3, <3>1 DEF Earned, Operation
    <3>3. QED
      BY <1>1, <2>1, <3>2, NothingIsEarned DEF EarnedInv
  <2>4. CASE asked
    <3> DEFINE shown == IF g.param = Absent THEN -1 ELSE made
    <3>1. status' = AuthStatus(shown, g.protocol)
      BY <1>1, <2>2, <2>4 DEF Authorize, VerifyAuth, Answer
    <3>2. AuthStatus(shown, g.protocol) # "ok"
      <4>1. Configured \/ shown # -1
        <5>1. CASE g.param = Absent
          BY <2>2, <2>4, <5>1, UvNeedsPin
        <5>2. CASE g.param # Absent
          BY <5>2 DEF TypeOK
        <5>3. QED
          BY <5>1, <5>2
      <4> HIDE DEF shown
      <4>2. QED
        BY <4>1 DEF AuthStatus
    <3>3. AuthStatus(shown, g.protocol) = "verified"
      BY <2>2, <2>4, <3>1, <3>2
    <3>4. /\ Configured /\ shown # -1 /\ g.protocol = 1 /\ token # 0 /\ shown = issued
          /\ faults = 0 => tokenPin = pin.hash
          /\ tokenAge <= Lifetime \/ tokenAge = ClockPeriod
      <4> HIDE DEF shown, g
      <4>1. QED
        BY <3>3, VerifiedShows
    <3>5. g.param # Absent /\ made = issued
      BY <3>4
    <3>6. UserVerified(g) /\ InForce(made)
      BY <3>4, <3>5 DEF UserVerified, InForce
    <3>7. Earned(op)
      BY <3>4, <3>5, <3>6 DEF Earned, Operation
    <3>8. QED
      BY <1>1, <2>1, <3>7, NothingIsEarned DEF EarnedInv
  <2>5. QED
    BY <2>3, <2>4
<1>4. QED
  BY <1>2, <1>3

LEMMA EarnedInductive ==
  ASSUME TypeOK, TokenInv, EarnedInv, [AuthNext]_authVars
  PROVE  EarnedInv'
<1>1. CASE Bystander
  BY <1>1, NothingIsEarned DEF Bystander, EarnedInv
<1>2. ASSUME NEW m \in Readings, NEW made \in IF Shows(m) THEN 0 .. issued ELSE {0},
             Begin(m, made)
      PROVE  EarnedInv'
  <2>1. made \in 0 .. issued
    BY <1>2 DEF TypeOK
  <2>2. QED
    BY <1>2, <2>1, BeginEarns
<1>3. ASSUME NEW m, BeginOdd(m)
      PROVE  EarnedInv'
  <2>1. /\ answer' = [message |-> m, read |-> Parse(m, Configured), pinSet |-> Configured]
        /\ UNCHANGED <<waiting, pending>>
    BY <1>3 DEF BeginOdd, BeginRead
  <2>2. Earned(answer')
    BY <2>1 DEF Earned
  <2>3. QED
    BY <2>1, <2>2 DEF EarnedInv
<1>4. ASSUME NEW op, Earned(op), Ended(op)
      PROVE  Earned(answer') /\ Earned(pending')
  BY <1>4, NothingIsEarned DEF Ended
<1>5. CASE Confirmed
  BY <1>4, <1>5, NothingIsEarned DEF Confirmed, EarnedInv
<1>6. CASE TimedOut
  BY <1>6, NothingIsEarned DEF TimedOut, EarnedInv
<1>7. CASE GetNext
  BY <1>4, <1>7, NothingIsEarned DEF GetNext, EarnedInv
<1>8. CASE UNCHANGED authVars
  BY <1>8 DEF authVars, EarnedInv
<1>9. QED
  BY <1>1, <1>2, <1>3, <1>5, <1>6, <1>7, <1>8 DEF AuthNext

\* A credential or an assertion carries the mark exactly when its request showed the token
\* then in force, however long it waited and whatever failed or lost power meanwhile.
THEOREM VerifiedIsEarnedCorrect == AuthSpec => []VerifiedIsEarned
<1>1. AuthInit => TypeOK /\ OffIsIdle /\ TokenInv /\ EarnedInv
  BY InitTypeOK, NothingIsEarned DEF AuthInit, Init, OffIsIdle, TokenInv, EarnedInv
<1>2. TypeOK /\ OffIsIdle /\ TokenInv /\ EarnedInv /\ [AuthNext]_authVars
        => TypeOK' /\ OffIsIdle' /\ TokenInv' /\ EarnedInv'
  BY AuthStep, NextTypeOK, OffIsIdleInductive, TokenInvInductive, EarnedInductive
<1>3. EarnedInv => VerifiedIsEarned
  BY DEF EarnedInv, Earned, VerifiedIsEarned
<1>4. QED
  BY <1>1, <1>2, <1>3, PTL DEF AuthSpec
================================================================================
