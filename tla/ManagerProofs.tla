------------------------------ MODULE ManagerProofs ------------------------------
(***************************************************************************)
(* What the device promises of its management channel to any host, and     *)
(* that the native manager is one.                                         *)
(***************************************************************************)
EXTENDS ManagerHost, FiniteSetTheorems, SequenceTheorems, TLAPS

\* A token is the one of the last confirmation; its age, counted by a clock that wraps,
\* is the confirmation's as long as that is younger than the clock.
AuthIsGrant ==
  \/ auth = NoAuth
  \/ /\ auth.active
     /\ auth.token = grant.token /\ auth.perms = grant.perms /\ grant.token # 0
     /\ auth.since \in 0 .. ClockPeriod - 1 /\ grant.age \in 0 .. ClockPeriod
     /\ grant.age = auth.since \/ grant.age = ClockPeriod

\* The records are records, and the pipe holds a sequence.
Shape ==
  /\ issued \in Nat /\ IsResponses(inp) /\ slots = [s \in Slots |-> slots[s]]
  /\ auth = [active |-> auth.active, token |-> auth.token, perms |-> auth.perms,
             since |-> auth.since]
  /\ grant = [token |-> grant.token, perms |-> grant.perms, age |-> grant.age]

GrantInv == Shape /\ AuthIsGrant

\* A response at the end of the pipe leaves it a sequence, with that response last.
LEMMA Appending ==
  ASSUME NEW s, IsResponses(s), NEW r
  PROVE  /\ IsResponses(Append(s, r))
         /\ Len(Append(s, r)) = Len(s) + 1 /\ Last(Append(s, r)) = r
<1> DEFINE S == {s[n] : n \in 1 .. Len(s)}
           T == S \cup {r}
           a == Append(s, r)
<1>1. s \in Seq(S)
  BY DEF IsResponses
<1>2. s \in Seq(T)
  BY <1>1
<1>3. a \in Seq(T) /\ Len(a) = Len(s) + 1 /\ Len(s) \in Nat /\ a[Len(s) + 1] = r
  BY <1>2
<1>4. a \in Seq({a[n] : n \in 1 .. Len(a)})
  BY <1>3
<1>5. QED
  BY <1>3, <1>4 DEF IsResponses, Last
\* A response that a step of the device adds is the last in the pipe, or there is no room.
LEMMA Responding ==
  ASSUME NEW cmd, NEW status, NEW body, IsResponses(inp), Respond(cmd, status, body)
  PROVE  /\ IsResponses(inp')
         /\ Len(inp') > Len(inp) =>
              Last(inp').cmd = cmd /\ Last(inp').status = status /\ Last(inp').body = body
<1>1. CASE inp' = inp
  <2>1. Len(inp) \in Nat
    BY DEF IsResponses
  <2>2. QED
    BY <1>1, <2>1
<1>2. CASE inp' # inp
  <2> DEFINE r(cut) == [cmd |-> cmd, status |-> status, body |-> body, cut |-> cut]
  <2>1. PICK cut \in BOOLEAN : inp' = Append(inp, r(cut))
    BY <1>2 DEF Respond
  <2>2. IsResponses(inp') /\ Last(inp') = r(cut)
    BY <2>1, Appending
  <2>3. QED
    BY <2>2
<1>3. QED
  BY <1>1, <1>2

\* What a check of the token leaves is the token or none.
LEMMA Checking == GrantInv /\ auth' = Checked /\ UNCHANGED grant => AuthIsGrant'
  BY DEF GrantInv, AuthIsGrant, Checked, NoAuth

\* A token that is accepted is the last one granted, for that permission and young enough.
LEMMA Verifying ==
  ASSUME GrantInv, NEW token, NEW p, Verify(token, p)
  PROVE  /\ token = grant.token /\ p \in grant.perms
         /\ grant.age <= TTL \/ grant.age = ClockPeriod
  BY DEF GrantInv, AuthIsGrant, Verify, IsActive, NoAuth

ChannelNext == DeviceStep \/ Unplug \/ ChannelTick \/ AnyHost

LEMMA GrantInit == ChannelInit => GrantInv
<1> SUFFICES ASSUME ChannelInit PROVE GrantInv
  OBVIOUS
<1>1. IsResponses(inp)
  BY DEF ChannelInit, IsResponses
<1>2. QED
  BY <1>1 DEF ChannelInit, GrantInv, Shape, AuthIsGrant, NoAuth, NoGrant

\* Every step keeps the token the last confirmation's.
LEMMA GrantInductive == GrantInv /\ [ChannelNext]_device => GrantInv'
<1> SUFFICES ASSUME GrantInv, [ChannelNext]_device PROVE GrantInv'
  OBVIOUS
<1> USE DEF GrantInv
<1>1. CASE HandleQuery
  <2>1. PICK cmd \in {"snapshot", "ping", "security"} : \E status, body : Respond(cmd, status, body)
    BY <1>1 DEF HandleQuery
  <2>2. IsResponses(inp')
    BY <2>1, Responding DEF Shape
  <2>3. QED
    BY <1>1, <2>2 DEF HandleQuery, Shape, AuthIsGrant
<1>2. CASE HandleSummaries
  <2>1. IsResponses(inp')
    BY <1>2, Responding DEF HandleSummaries, Shape
  <2>2. AuthIsGrant'
    BY <1>2, Checking DEF HandleSummaries, AuthIsGrant
  <2>3. QED
    BY <1>2, <2>1, <2>2 DEF HandleSummaries, Shape, Checked, NoAuth
<1>3. CASE HandleAuthorize
  BY <1>3 DEF HandleAuthorize, Shape, AuthIsGrant
<1>4. CASE Confirmed
  <2>1. IsResponses(inp')
    BY <1>4, Responding DEF Confirmed, Shape
  <2>2. QED
    BY <1>4, <2>1, ChannelConstantsOK DEF Confirmed, Shape, AuthIsGrant
<1>5. CASE Unconfirmed
  <2>1. IsResponses(inp')
    BY <1>5, Responding DEF Unconfirmed, Shape
  <2>2. QED
    BY <1>5, <2>1 DEF Unconfirmed, Shape, AuthIsGrant
<1>6. CASE HandleDelete
  <2>1. IsResponses(inp')
    BY <1>6, Responding DEF HandleDelete, Shape
  <2>2. AuthIsGrant'
    BY <1>6, Checking DEF HandleDelete
  <2>3. QED
    BY <1>6, <2>1, <2>2 DEF HandleDelete, Shape, Checked, NoAuth
<1>7. CASE HandleWriteUp
  <2>1. IsResponses(inp')
    BY <1>7, Responding DEF HandleWriteUp, Shape
  <2>2. AuthIsGrant'
    BY <1>7, Checking DEF HandleWriteUp
  <2>3. QED
    BY <1>7, <2>1, <2>2 DEF HandleWriteUp, Shape, Checked, NoAuth
<1>8. CASE CtapBegin \/ CtapEnd \/ DebugClear
  BY <1>8 DEF CtapBegin, CtapEnd, DebugClear, Shape, AuthIsGrant
<1>9. CASE Unplug
  <2>1. IsResponses(inp')
    BY <1>9 DEF Unplug, IsResponses
  <2>2. QED
    BY <1>9, <2>1 DEF Unplug, Shape, AuthIsGrant, NoAuth, NoGrant
<1>10. CASE ChannelTick
  <2>1. /\ auth'  = IF auth.active THEN [auth EXCEPT !.since = (@ + 1) % ClockPeriod] ELSE auth
        /\ grant' = IF grant.token # 0 /\ grant.age < ClockPeriod
                    THEN [grant EXCEPT !.age = @ + 1] ELSE grant
        /\ inp' = inp /\ issued' = issued /\ slots' = slots
    BY <1>10 DEF ChannelTick
  <2>2. Shape'
    BY <2>1 DEF Shape, IsResponses
  <2>3. CASE auth = NoAuth
    BY <2>1, <2>2, <2>3 DEF AuthIsGrant, NoAuth
  <2>4. CASE auth # NoAuth
    <3> DEFINE a == auth.since
    <3>1. /\ auth.active /\ grant.token # 0 /\ grant.age \in 0 .. ClockPeriod
          /\ a \in 0 .. ClockPeriod - 1 /\ ClockPeriod \in Nat \ {0}
          /\ grant.age = a \/ grant.age = ClockPeriod
      BY <2>4, ChannelConstantsOK DEF AuthIsGrant
    <3>2. /\ auth'.active /\ auth'.token = auth.token /\ auth'.perms = auth.perms
          /\ auth'.since = (a + 1) % ClockPeriod
      BY <2>1, <3>1 DEF Shape
    <3>3. /\ grant'.token = grant.token /\ grant'.perms = grant.perms
          /\ grant'.age = IF grant.age < ClockPeriod THEN grant.age + 1 ELSE grant.age
      BY <2>1, <3>1 DEF Shape
    <3> HIDE DEF a
    <3>4. (a + 1) % ClockPeriod = IF a + 1 = ClockPeriod THEN 0 ELSE a + 1
      BY <3>1
    <3>5. QED
      BY <2>2, <2>4, <3>1, <3>2, <3>3, <3>4 DEF AuthIsGrant
  <2>5. QED
    BY <2>2, <2>3, <2>4
<1>11. CASE AnyHost
  BY <1>11 DEF AnyHost, Shape, AuthIsGrant
<1>12. CASE UNCHANGED device
  BY <1>12 DEF device, Shape, AuthIsGrant
<1>13. CASE Refuse
  <2>1. IsResponses(inp')
    BY <1>13, Responding DEF Refuse, Shape
  <2>2. QED
    BY <1>13, <2>1 DEF Refuse, Shape, AuthIsGrant
<1>14. QED
  BY <1>1, <1>2, <1>3, <1>4, <1>5, <1>6, <1>7, <1>8, <1>9, <1>10, <1>11, <1>12, <1>13
     DEF ChannelNext, DeviceStep
\* A response with status ok to a command that needs a permission comes with the grant.
LEMMA GrantUsed ==
  ASSUME GrantInv, [ChannelNext]_device, Len(inp') > Len(inp),
         Last(inp').status = "ok", Needs(Last(inp').cmd) # "nothing",
         Last(inp').cmd = "summaries" => build.guarded
  PROVE  Granted(Needs(Last(inp').cmd))
<1> DEFINE r == Last(inp')
<1>0. IsResponses(inp) /\ Len(inp) \in Nat
  BY DEF GrantInv, Shape, IsResponses
<1>1. CASE HandleQuery
  <2>1. PICK cmd \in {"snapshot", "ping", "security"} : \E status, body : Respond(cmd, status, body)
    BY <1>1 DEF HandleQuery
  <2>2. r.cmd = cmd
    BY <1>0, <2>1, Responding
  <2>3. QED
    BY <2>2 DEF Needs
<1>2. CASE HandleSummaries
  <2>1. r.cmd = "summaries"
    <3>1. \E status, body : Respond("summaries", status, body)
      BY <1>2 DEF HandleSummaries
    <3>2. PICK status, body : Respond("summaries", status, body)
      BY <3>1
    <3>3. r.cmd = "summaries" /\ r.status = status
      BY <1>0, <3>2, Responding
    <3>4. QED
      BY <3>3
  <2>2. Verify(out.token, "credential_read")
    <3> SUFFICES ASSUME ~ Verify(out.token, "credential_read") PROVE FALSE
      OBVIOUS
    <3>1. \E body : Respond("summaries", "auth_required", body)
      BY <1>2, <2>1 DEF HandleSummaries
    <3>2. PICK body : Respond("summaries", "auth_required", body)
      BY <3>1
    <3>3. r.cmd = "summaries" /\ r.status = "auth_required"
      BY <1>0, <3>2, Responding
    <3>4. QED
      BY <3>3
  <2>3. QED
    BY <2>1, <2>2, Verifying DEF Needs, Granted
<1>3. CASE Confirmed
  <2>1. r.cmd = "authorize"
    BY <1>0, <1>3, Responding DEF Confirmed
  <2>2. QED
    BY <2>1 DEF Needs
<1>4. CASE Unconfirmed
  <2>1. PICK body : Respond("authorize", "confirmation_required", body)
    BY <1>4 DEF Unconfirmed
  <2>2. r.cmd = "authorize" /\ r.status = "confirmation_required"
    BY <1>0, <2>1, Responding
  <2>3. QED
    BY <2>2
<1>5. CASE HandleDelete
  <2>1. r.cmd = "delete"
    <3>1. \E status, body : Respond("delete", status, body)
      BY <1>5 DEF HandleDelete
    <3>2. PICK status, body : Respond("delete", status, body)
      BY <3>1
    <3>3. r.cmd = "delete" /\ r.status = status
      BY <1>0, <3>2, Responding
    <3>4. QED
      BY <3>3
  <2>2. Verify(out.token, "credential_write")
    <3> SUFFICES ASSUME ~ Verify(out.token, "credential_write") PROVE FALSE
      OBVIOUS
    <3>1. \E body : Respond("delete", "auth_required", body)
      BY <1>5 DEF HandleDelete
    <3>2. PICK body : Respond("delete", "auth_required", body)
      BY <3>1
    <3>3. r.cmd = "delete" /\ r.status = "auth_required"
      BY <1>0, <3>2, Responding
    <3>4. QED
      BY <3>3
  <2>3. QED
    BY <2>1, <2>2, Verifying DEF Needs, Granted
<1>6. CASE HandleWriteUp
  <2>1. r.cmd = "write_up"
    <3>1. \E status, body : Respond("write_up", status, body)
      BY <1>6 DEF HandleWriteUp
    <3>2. PICK status, body : Respond("write_up", status, body)
      BY <3>1
    <3>3. r.cmd = "write_up" /\ r.status = status
      BY <1>0, <3>2, Responding
    <3>4. QED
      BY <3>3
  <2>2. Verify(out.token, "user_presence_write")
    <3> SUFFICES ASSUME ~ Verify(out.token, "user_presence_write") PROVE FALSE
      OBVIOUS
    <3>1. \E body : Respond("write_up", "auth_required", body)
      BY <1>6 DEF HandleWriteUp
    <3>2. PICK body : Respond("write_up", "auth_required", body)
      BY <3>1
    <3>3. r.cmd = "write_up" /\ r.status = "auth_required"
      BY <1>0, <3>2, Responding
    <3>4. QED
      BY <3>3
  <2>3. QED
    BY <2>1, <2>2, Verifying DEF Needs, Granted
<1>7. CASE HandleAuthorize \/ CtapBegin \/ CtapEnd \/ DebugClear \/ ChannelTick
  <2>1. inp' = inp
    BY <1>7 DEF HandleAuthorize, CtapBegin, CtapEnd, DebugClear, ChannelTick
  <2>2. QED
    BY <1>0, <2>1
<1>8. CASE Unplug
  <2>1. inp' = <<>>
    BY <1>8 DEF Unplug
  <2>2. QED
    BY <1>0, <2>1
<1>9. CASE AnyHost
  <2>1. Len(inp') <= Len(inp) /\ Len(inp') \in Nat
    BY <1>9 DEF AnyHost, IsResponses
  <2>2. QED
    BY <1>0, <2>1
<1>10. CASE UNCHANGED device
  <2>1. inp' = inp
    BY <1>10 DEF device
  <2>2. QED
    BY <1>0, <2>1
<1>11. CASE Refuse
  <2>1. PICK status \in {"unsupported_command", "invalid_request"} :
          Respond(out.cmd, status, <<>>)
    BY <1>11 DEF Refuse
  <2>2. r.status = status
    BY <1>0, <2>1, Responding
  <2>3. QED
    BY <2>2
<1>12. QED
  BY <1>1, <1>2, <1>3, <1>4, <1>5, <1>6, <1>7, <1>8, <1>9, <1>10, <1>11 DEF ChannelNext, DeviceStep

\* A credential that goes from a build without Debug HID goes with the grant.
LEMMA DeletionGranted ==
  ASSUME GrantInv, [ChannelNext]_device, ~ build.debugHid, ~ (Stored \subseteq Stored')
  PROVE  Granted("credential_write")
<1>1. slots' # slots
  BY DEF Stored, Occupied
<1>2. CASE HandleDelete
  <2>1. Verify(out.token, "credential_write")
    BY <1>1, <1>2 DEF HandleDelete
  <2>2. QED
    BY <2>1, Verifying DEF Granted
<1>3. CASE CtapEnd
  <2>1. PICK s, c : s \in Slots /\ IsFirstFree(s) /\ slots' = [slots EXCEPT ![s] = c]
    BY <1>1, <1>3 DEF CtapEnd
  <2>2. \A t \in Occupied : slots'[t] = slots[t] /\ t \in Occupied'
    BY <2>1 DEF GrantInv, Shape, IsFirstFree, Occupied
  <2>3. QED
    BY <2>2 DEF Stored
<1>4. CASE DebugClear
  BY <1>4 DEF DebugClear
<1>5. CASE UNCHANGED device
  BY <1>1, <1>5 DEF device
<1>6. CASE \/ Refuse \/ HandleQuery \/ HandleSummaries \/ HandleAuthorize \/ HandleWriteUp
           \/ Confirmed \/ Unconfirmed \/ CtapBegin \/ Unplug \/ ChannelTick \/ AnyHost
  BY <1>1, <1>6 DEF Refuse, HandleQuery, HandleSummaries, HandleAuthorize, HandleWriteUp, Confirmed,
                    Unconfirmed, CtapBegin, Unplug, ChannelTick, AnyHost
<1>7. QED
  BY <1>2, <1>3, <1>4, <1>5, <1>6 DEF ChannelNext, DeviceStep

LEMMA GrantedStep ==
  GrantInv /\ [ChannelNext]_device => [AnswerIsGranted /\ DeletionIsGranted]_device
<1>1. GrantInv /\ [ChannelNext]_device => AnswerIsGranted
  BY GrantUsed DEF AnswerIsGranted
<1>2. GrantInv /\ [ChannelNext]_device => DeletionIsGranted
  BY DeletionGranted DEF DeletionIsGranted
<1>3. QED
  BY <1>1, <1>2

\* Whatever program is on the other end of the pipe, and whatever it sends: a command
\* that needs a permission succeeds only by the user's last confirmation.
THEOREM AnyHostIsGranted == ChannelSpec => PrivilegesAreGranted
<1>1. ChannelInit => GrantInv
  BY GrantInit
<1>2. GrantInv /\ [ChannelNext]_device => GrantInv'
  BY GrantInductive
<1>3. QED
  BY <1>1, <1>2, GrantedStep, PTL DEF ChannelSpec, ChannelNext, PrivilegesAreGranted

--------------------------------------------------------------------------------
(* The native manager is such a host                                         *)

\* A step of the manager writes a request that no answer is being made to, or takes
\* responses.
LEMMA ManagerStep ==
  ASSUME IsResponses(inp), HostStep
  PROVE  AnyHost \/ UNCHANGED device
<1>1. CASE Write \/ Stranger
  BY <1>1 DEF Write, Stranger, CanWrite, AnyHost, IsResponses
<1>2. CASE Read
  <2> DEFINE S == {inp[n] : n \in 1 .. Len(inp)} \cup {Garbage}
  <2>1. inp \in Seq(S) /\ inp # <<>>
    BY <1>2 DEF Read, IsResponses
  <2>2. Tail(inp) \in Seq(S) /\ Len(Tail(inp)) = Len(inp) - 1 /\ Len(inp) \in Nat
    BY <2>1
  <2>3. inp' \in Seq(S) /\ Len(inp') <= Len(inp)
    <3>1. CASE inp' = Tail(inp)
      BY <2>2, <3>1
    <3>2. CASE Len(inp) > 1 /\ inp' = Tail(Tail(inp))
      <4>1. Tail(inp) # <<>>
        <5>1. Len(Tail(inp)) # 0
          BY <2>2, <3>2
        <5>2. Len(<<>>) = 0
          OBVIOUS
        <5>3. QED
          BY <5>1, <5>2
      <4>2. QED
        BY <2>2, <3>2, <4>1
    <3>3. CASE Len(inp) > 1 /\ inp' = <<Garbage>> \o Tail(Tail(inp))
      <4>1. Tail(inp) # <<>>
        <5>1. Len(Tail(inp)) # 0
          BY <2>2, <3>3
        <5>2. Len(<<>>) = 0
          OBVIOUS
        <5>3. QED
          BY <5>1, <5>2
      <4>2. Tail(Tail(inp)) \in Seq(S) /\ Len(Tail(Tail(inp))) = Len(inp) - 2
        BY <2>2, <4>1
      <4>3. <<Garbage>> \in Seq(S) /\ Len(<<Garbage>>) = 1
        OBVIOUS
      <4>4. QED
        BY <2>2, <3>3, <4>2, <4>3
    <3>4. QED
      BY <1>2, <3>1, <3>2, <3>3 DEF Read, Rest
  <2>4. IsResponses(inp')
    BY <2>3 DEF IsResponses
  <2>5. QED
    BY <1>2, <2>3, <2>4 DEF Read, AnyHost
<1>3. CASE ReadPart \/ ReadJoined
  <2> DEFINE S == {inp[n] : n \in 1 .. Len(inp)} \cup {Garbage}
  <2>1. inp \in Seq(S) /\ inp # <<>>
    BY <1>3 DEF ReadPart, ReadJoined, IsResponses
  <2>2. Tail(inp) \in Seq(S) /\ Len(Tail(inp)) = Len(inp) - 1 /\ Len(inp) \in Nat
    BY <2>1
  <2>3. <<Garbage>> \in Seq(S) /\ Len(<<Garbage>>) = 1
    OBVIOUS
  <2>4. inp' \in Seq(S) /\ Len(inp') <= Len(inp)
    <3>1. CASE inp' = Tail(inp)
      BY <2>2, <3>1
    <3>2. CASE inp' = <<Garbage>> \o Tail(inp)
      BY <2>2, <2>3, <3>2
    <3>3. QED
      BY <1>3, <3>1, <3>2 DEF ReadPart, ReadJoined
  <2>5. IsResponses(inp')
    BY <2>4 DEF IsResponses
  <2>6. QED
    BY <1>3, <2>4, <2>5 DEF ReadPart, ReadJoined, AnyHost
<1>4. CASE GiveUp \/ Disconnect
  BY <1>4 DEF GiveUp, Disconnect
<1>5. CASE Connect \/ FetchCatalog \/ FetchSecurity \/ RequestAuthorization \/ DeleteSlot \/ WriteUserPresence
  BY <1>5 DEF Connect, FetchCatalog, FetchSecurity, RequestAuthorization, DeleteSlot,
              WriteUserPresence, Begin
<1>6. QED
  BY <1>1, <1>2, <1>3, <1>4, <1>5 DEF HostStep

\* The manager and the device together are the device with a host: what the device
\* promises to any host it keeps here.
LEMMA SystemStep ==
  ASSUME IsResponses(inp), [Next]_vars
  PROVE  [ChannelNext]_device
<1>1. CASE DeviceAlone
  BY <1>1 DEF DeviceAlone, ChannelNext
<1>2. CASE HostStep
  BY <1>2, ManagerStep DEF ChannelNext
<1>3. CASE Gone
  BY <1>3 DEF Gone, ChannelNext
<1>4. CASE Tick
  BY <1>4 DEF Tick, ChannelNext
<1>5. CASE UNCHANGED vars
  BY <1>5 DEF vars
<1>6. QED
  BY <1>1, <1>2, <1>3, <1>4, <1>5 DEF Next

\* The system of device and manager implements the device with any host.
THEOREM ManagerIsAHost == Spec => ChannelSpec
<1>1. Init => ChannelInit /\ GrantInv
  BY GrantInit DEF Init
<1>2. GrantInv /\ [Next]_vars => GrantInv' /\ [ChannelNext]_device
  BY SystemStep, GrantInductive DEF GrantInv, Shape
<1>3. QED
  BY <1>1, <1>2, PTL DEF Spec, ChannelSpec, ChannelNext

\* What the manager is given it is given by the user's last confirmation.
THEOREM ManagerIsGranted == Spec => PrivilegesAreGranted
  BY ManagerIsAHost, AnyHostIsGranted, PTL

--------------------------------------------------------------------------------
(* The types                                                                 *)

Ops     == {"connect", "catalog", "security", "authorize", "delete", "write_up"}
AuthOps == {"catalog", "authorize", "delete", "write_up"}

TaskShape(t) ==
  t \in [op: Ops, step: {"command", "authorize"}, request: {t.request}, cursor: {t.cursor},
         items: {t.items}, slot: {t.slot}, again: {t.again}]

\* An operation in progress, which waits for the answer to a command of the device.
IsTask(t) ==
  /\ TaskShape(t)
  /\ t.step = "authorize" => t.op \in AuthOps
  /\ t.request.cmd \in Commands

DeviceTypes ==
  /\ build \in Builds /\ slots \in [Slots -> 0 .. Capacity + MaxAdds] /\ added \in 0 .. MaxAdds
  /\ auth.token \in 0 .. issued /\ auth.perms \subseteq Permissions
  /\ waiting \in [for: {"nothing", "authorize", "ctap"}, age: 0 .. UpTimeout]
  /\ waiting.for = "authorize" => out.cmd = "authorize" /\ out.perms \subseteq Permissions
  /\ Len(inp) <= PipeDepth

TaskTypes ==
  \/ task = NoTask /\ link = NoLink
  \/ /\ IsTask(task)
     /\ link \in [phase: {"writing", "reading", "joining"}, age: 0 .. TransferTimeout]

HostTypes ==
  /\ session \in {"none", "open", "dead"} /\ (session = "dead" => task = NoTask)
  /\ cached = [token |-> cached.token, perms |-> cached.perms, left |-> cached.left]
  /\ cached.left \in 0 .. TTL
  /\ TaskTypes

\* A response takes no more room than there is.
LEMMA RespondFits ==
  ASSUME NEW cmd, NEW status, NEW body, IsResponses(inp), Len(inp) <= PipeDepth,
         Respond(cmd, status, body)
  PROVE  Len(inp') <= PipeDepth
<1> DEFINE r(cut) == [cmd |-> cmd, status |-> status, body |-> body, cut |-> cut]
<1>1. PipeDepth \in Nat
  BY ChannelConstantsOK
<1>2. Len(inp) \in Nat
  BY DEF IsResponses
<1>3. CASE inp' = inp
  BY <1>3
<1>4. CASE inp' # inp
  <2>1. PICK cut \in BOOLEAN : Len(inp) < PipeDepth /\ inp' = Append(inp, r(cut))
    BY <1>4 DEF Respond
  <2>2. Len(inp') = Len(inp) + 1
    BY <2>1, Appending
  <2>3. QED
    BY <1>1, <1>2, <2>1, <2>2
<1>5. QED
  BY <1>3, <1>4

LEMMA DeviceInit == ChannelInit => DeviceTypes
<1> SUFFICES ASSUME ChannelInit PROVE DeviceTypes
  OBVIOUS
<1>1. Capacity \in Nat /\ MaxAdds \in Nat /\ PipeDepth \in Nat /\ UpTimeout \in Nat
  BY ChannelConstantsOK
<1>2. slots \in [Slots -> 0 .. Capacity + MaxAdds] /\ added \in 0 .. MaxAdds
  <2>1. PICK held \in Held : slots = [s \in Slots |-> IF s \in held THEN s + 1 ELSE Free]
    BY DEF ChannelInit
  <2>2. \A s \in Slots : s + 1 \in 0 .. Capacity + MaxAdds /\ Free \in 0 .. Capacity + MaxAdds
    BY <1>1 DEF Slots, Free
  <2>3. QED
    BY <1>1, <2>1, <2>2 DEF ChannelInit
<1>3. Len(inp) <= PipeDepth
  BY <1>1 DEF ChannelInit
<1>4. waiting \in [for: {"nothing", "authorize", "ctap"}, age: 0 .. UpTimeout]
        /\ waiting.for # "authorize"
  BY <1>1 DEF ChannelInit, NoWait
<1>5. QED
  BY <1>2, <1>3, <1>4 DEF ChannelInit, DeviceTypes, NoAuth

\* Every step of the device, whatever the host does, keeps its types.
LEMMA DeviceTypesInductive ==
  ASSUME GrantInv, DeviceTypes, DeviceStep \/ Unplug \/ ChannelTick
  PROVE  DeviceTypes'
<1>1. /\ Capacity \in Nat /\ MaxAdds \in Nat /\ UpTimeout \in Nat \ {0} /\ PipeDepth \in Nat
      /\ issued \in Nat /\ IsResponses(inp)
  BY ChannelConstantsOK DEF GrantInv, Shape
<1>2. NoWait \in [for: {"nothing", "authorize", "ctap"}, age: 0 .. UpTimeout]
        /\ NoWait.for # "authorize"
  BY <1>1 DEF NoWait
<1>3. Checked.token \in 0 .. issued /\ Checked.perms \subseteq Permissions
  BY <1>1 DEF DeviceTypes, Checked, NoAuth
<1>4. ASSUME NEW cmd, NEW status, NEW body, Respond(cmd, status, body)
      PROVE  Len(inp') <= PipeDepth
  BY <1>1, <1>4, RespondFits DEF DeviceTypes
<1>5. CASE Refuse \/ HandleQuery \/ HandleSummaries \/ HandleWriteUp
  <2>1. Len(inp') <= PipeDepth
    BY <1>4, <1>5 DEF Refuse, HandleQuery, HandleSummaries, HandleWriteUp
  <2>2. /\ UNCHANGED <<build, slots, waiting, added, issued>> /\ waiting = NoWait
        /\ auth' = auth \/ auth' = Checked
    BY <1>5 DEF Refuse, HandleQuery, HandleSummaries, HandleWriteUp, Handle, Idle
  <2>3. QED
    BY <1>2, <1>3, <2>1, <2>2 DEF DeviceTypes
<1>6. CASE HandleAuthorize
  <2>1. out.perms \subseteq Permissions /\ out.cmd = "authorize"
    BY <1>6 DEF HandleAuthorize, Parses
  <2>2. waiting' \in [for: {"nothing", "authorize", "ctap"}, age: 0 .. UpTimeout]
    BY <1>1, <1>6 DEF HandleAuthorize
  <2>3. QED
    BY <1>6, <2>1, <2>2 DEF HandleAuthorize, DeviceTypes
<1>7. CASE Confirmed
  <2>1. Len(inp') <= PipeDepth
    BY <1>4, <1>7 DEF Confirmed
  <2>2. /\ UNCHANGED <<build, slots, added>> /\ waiting' = NoWait
        /\ auth'.token = issued' /\ auth'.perms = out.perms /\ issued' = issued + 1
    BY <1>7 DEF Confirmed
  <2>3. out.perms \subseteq Permissions /\ issued' \in 0 .. issued'
    BY <1>1, <1>7, <2>2 DEF Confirmed, DeviceTypes
  <2>4. QED
    BY <1>2, <2>1, <2>2, <2>3 DEF DeviceTypes
<1>8. CASE Unconfirmed
  <2>1. Len(inp') <= PipeDepth
    BY <1>4, <1>8 DEF Unconfirmed
  <2>2. UNCHANGED <<build, slots, auth, added, issued>> /\ waiting' = NoWait
    BY <1>8 DEF Unconfirmed
  <2>3. QED
    BY <1>2, <2>1, <2>2 DEF DeviceTypes
<1>9. CASE HandleDelete
  <2>1. Len(inp') <= PipeDepth
    BY <1>4, <1>9 DEF HandleDelete
  <2>2. slots' \in [Slots -> 0 .. Capacity + MaxAdds]
    <3>1. slots' = slots \/ slots' = [slots EXCEPT ![out.slot] = Free]
      BY <1>9 DEF HandleDelete
    <3>2. Free \in 0 .. Capacity + MaxAdds
      BY <1>1 DEF Free
    <3>3. QED
      BY <3>1, <3>2 DEF DeviceTypes
  <2>3. UNCHANGED <<build, waiting, added, issued>> /\ waiting = NoWait /\ auth' = Checked
    BY <1>9 DEF HandleDelete, Handle, Idle
  <2>4. QED
    BY <1>2, <1>3, <2>1, <2>2, <2>3 DEF DeviceTypes
<1>10. CASE CtapBegin
  <2>1. waiting' \in [for: {"nothing", "authorize", "ctap"}, age: 0 .. UpTimeout]
          /\ waiting'.for # "authorize"
    BY <1>1, <1>10 DEF CtapBegin
  <2>2. QED
    BY <1>10, <2>1 DEF CtapBegin, DeviceTypes
<1>11. CASE CtapEnd
  <2>1. slots' \in [Slots -> 0 .. Capacity + MaxAdds] /\ added' \in 0 .. MaxAdds
    <3>1. CASE UNCHANGED <<slots, added>>
      BY <3>1 DEF DeviceTypes
    <3>2. CASE ~ UNCHANGED <<slots, added>>
      <4>1. PICK s \in Slots : /\ added < MaxAdds /\ added' = added + 1
                               /\ slots' = [slots EXCEPT ![s] = Capacity + added']
        BY <1>11, <3>2 DEF CtapEnd
      <4>2. added' \in 0 .. MaxAdds /\ Capacity + added' \in 0 .. Capacity + MaxAdds
        <5>1. added \in 0 .. MaxAdds
          BY DEF DeviceTypes
        <5>2. added < MaxAdds /\ added' = added + 1
          BY <4>1
        <5> HIDE <4>1
        <5>3. QED
          BY <1>1, <5>1, <5>2
      <4>3. QED
        BY <4>1, <4>2 DEF DeviceTypes
    <3>3. QED
      BY <3>1, <3>2
  <2>2. QED
    BY <1>2, <1>11, <2>1 DEF CtapEnd, DeviceTypes
<1>12. CASE DebugClear
  <2>1. slots' \in [Slots -> 0 .. Capacity + MaxAdds]
    BY <1>1, <1>12 DEF DebugClear, Free
  <2>2. QED
    BY <1>12, <2>1 DEF DebugClear, DeviceTypes
<1>13. CASE Unplug
  <2>1. Len(inp') <= PipeDepth
    BY <1>1, <1>13 DEF Unplug
  <2>2. 0 \in 0 .. issued
    BY <1>1
  <2>3. QED
    BY <1>2, <1>13, <2>1, <2>2 DEF Unplug, DeviceTypes, NoAuth
<1>14. CASE ChannelTick
  <2>1. auth'.token = auth.token /\ auth'.perms = auth.perms
    BY <1>14 DEF ChannelTick, GrantInv, Shape
  <2>2. waiting' \in [for: {"nothing", "authorize", "ctap"}, age: 0 .. UpTimeout]
          /\ waiting'.for = waiting.for
    <3> DEFINE a == waiting.age
    <3>1. a \in 0 .. UpTimeout /\ a < UpTimeout
      BY <1>14 DEF ChannelTick, DeviceTypes
    <3>2. a + 1 \in 0 .. UpTimeout
      BY <1>1, <3>1
    <3>3. CASE Idle
      BY <1>14, <3>3 DEF ChannelTick, DeviceTypes
    <3>4. CASE ~ Idle
      <4>1. waiting' = [waiting EXCEPT !.age = a + 1]
        BY <1>14, <3>4 DEF ChannelTick
      <4> HIDE DEF a
      <4>2. QED
        BY <3>2, <4>1 DEF DeviceTypes
    <3>5. QED
      BY <3>3, <3>4
  <2>3. QED
    BY <1>14, <2>1, <2>2 DEF ChannelTick, DeviceTypes
<1>15. QED
  BY <1>5, <1>6, <1>7, <1>8, <1>9, <1>10, <1>11, <1>12, <1>13, <1>14 DEF DeviceStep

\* A host, whatever it does, leaves the types of the device.
LEMMA AnyHostTypes ==
  ASSUME GrantInv, DeviceTypes, AnyHost \/ UNCHANGED device
  PROVE  DeviceTypes'
<1>1. Len(inp') <= PipeDepth
  <2>1. PipeDepth \in Nat /\ Len(inp) \in Nat /\ Len(inp) <= PipeDepth
    BY ChannelConstantsOK DEF GrantInv, Shape, IsResponses, DeviceTypes
  <2>2. CASE AnyHost
    <3>1. Len(inp') \in Nat /\ Len(inp') <= Len(inp)
      BY <2>2 DEF AnyHost, IsResponses
    <3>2. QED
      BY <2>1, <3>1
  <2>3. CASE inp' = inp
    BY <2>1, <2>3
  <2>4. QED
    BY <2>2, <2>3 DEF device
<1>2. /\ UNCHANGED <<build, slots, auth, waiting, added, issued>>
      /\ waiting.for = "authorize" => out' = out
  BY DEF AnyHost, device
<1>3. QED
  BY <1>1, <1>2 DEF DeviceTypes

--------------------------------------------------------------------------------
(* The operation in progress                                                 *)

\* The manager sends the next command of an operation, or has no operation any more.
Sends == \E t : IsTask(t) /\ Send(t)

\* What a step of the manager does to its operation.
TaskMove == Sends \/ Stop

\* The requests that the manager makes are commands of the device.
LEMMA Requesting ==
  /\ \A cmd \in Commands : \A token, cursor, slot, perms :
       Request(cmd, token, cursor, slot, perms).cmd \in Commands
  /\ {"snapshot", "summaries", "security", "authorize", "delete", "write_up"} \subseteq Commands
BY DEF Request, Commands

\* An operation with its next command, as it stands when it is sent.
LEMMA NextCommand ==
  ASSUME NEW t, TaskShape(t), NEW q, q.cmd \in Commands,
         NEW step \in {"command", "authorize"}, step = "authorize" => t.op \in AuthOps
  PROVE  /\ t.step = step => IsTask([t EXCEPT !.request = q])
         /\ IsTask([t EXCEPT !.step = step, !.request = q])
         /\ \A again : IsTask([t EXCEPT !.step = step, !.again = again, !.request = q])
<1>1. ASSUME NEW u,
             u \in [op: Ops, step: {"command", "authorize"}, request: {q}, cursor: {t.cursor},
                    items: {t.items}, slot: {t.slot}, again: {u.again}],
             u.op = t.op, u.step = step
      PROVE  IsTask(u)
  BY <1>1 DEF IsTask, TaskShape
<1>2. ASSUME t.step = step PROVE IsTask([t EXCEPT !.request = q])
  <2> DEFINE u == [t EXCEPT !.request = q]
  <2>1. u \in [op: Ops, step: {"command", "authorize"}, request: {q}, cursor: {t.cursor},
               items: {t.items}, slot: {t.slot}, again: {t.again}] /\ u.op = t.op /\ u.step = step
    BY <1>2 DEF TaskShape
  <2> HIDE DEF u
  <2>2. IsTask(u)
    BY <1>1, <2>1
  <2>3. QED
    BY <2>2 DEF u
<1>3. IsTask([t EXCEPT !.step = step, !.request = q])
  <2> DEFINE u == [t EXCEPT !.step = step, !.request = q]
  <2>1. u \in [op: Ops, step: {"command", "authorize"}, request: {q}, cursor: {t.cursor},
               items: {t.items}, slot: {t.slot}, again: {t.again}] /\ u.op = t.op /\ u.step = step
    BY DEF TaskShape
  <2> HIDE DEF u
  <2>2. IsTask(u)
    BY <1>1, <2>1
  <2>3. QED
    BY <2>2 DEF u
<1>4. ASSUME NEW again PROVE IsTask([t EXCEPT !.step = step, !.again = again, !.request = q])
  <2> DEFINE u == [t EXCEPT !.step = step, !.again = again, !.request = q]
  <2>1. u \in [op: Ops, step: {"command", "authorize"}, request: {q}, cursor: {t.cursor},
               items: {t.items}, slot: {t.slot}, again: {again}] /\ u.op = t.op /\ u.step = step /\ u.again = again
    BY DEF TaskShape
  <2> HIDE DEF u
  <2>2. IsTask(u)
    BY <1>1, <2>1
  <2>3. QED
    BY <2>2 DEF u
<1>5. QED
  BY <1>2, <1>3, <1>4

\* A new operation.
LEMMA Tasks ==
  ASSUME NEW op \in Ops, NEW s, NEW q, q.cmd \in Commands
  PROVE  LET t1 == Task(op)
             t2 == [Task(op) EXCEPT !.slot = s]
         IN  /\ IsTask([t1 EXCEPT !.request = q])
             /\ \A step \in {"command", "authorize"} : (step = "authorize" => op \in AuthOps) =>
                  /\ IsTask([t1 EXCEPT !.step = step, !.request = q])
                  /\ IsTask([t2 EXCEPT !.step = step, !.request = q])
<1> DEFINE t1 == Task(op)
           t2 == [Task(op) EXCEPT !.slot = s]
<1>1. TaskShape(t1) /\ t1.op = op /\ t1.step = "command"
  BY DEF Task, TaskShape
<1> HIDE DEF t1
<1>2. TaskShape(t2) /\ t2.op = op
  BY <1>1 DEF t1, TaskShape
<1> HIDE DEF t2
<1>3. IsTask([t1 EXCEPT !.request = q])
  BY <1>1, NextCommand
<1>4. ASSUME NEW step \in {"command", "authorize"}, step = "authorize" => op \in AuthOps
      PROVE  /\ IsTask([t1 EXCEPT !.step = step, !.request = q])
             /\ IsTask([t2 EXCEPT !.step = step, !.request = q])
  <2>1. IsTask([t1 EXCEPT !.step = step, !.request = q])
    BY <1>1, <1>4, NextCommand
  <2>2. IsTask([t2 EXCEPT !.step = step, !.request = q])
    BY <1>2, <1>4, NextCommand
  <2>3. QED
    BY <2>1, <2>2
<1>5. QED
  BY <1>3, <1>4 DEF t1, t2

LEMMA Authorizing ==
  ASSUME NEW op \in AuthOps, NEW s, NEW p, NEW q, q.cmd \in Commands \/ ~ Usable(p),
         \/ Authorized(Task(op), p, q)
         \/ Authorized([Task(op) EXCEPT !.slot = s], p, q)
  PROVE  Sends
<1> DEFINE t1 == Task(op)
           t2 == [Task(op) EXCEPT !.slot = s]
           ask == Request("authorize", 0, 0, 0, {p})
<1>1. ask.cmd \in Commands
  BY Requesting
<1> HIDE DEF ask
<1>2. ASSUME NEW r, r.cmd \in Commands, NEW step \in {"command", "authorize"}
      PROVE  /\ IsTask([t1 EXCEPT !.step = step, !.request = r])
             /\ IsTask([t2 EXCEPT !.step = step, !.request = r])
  <2>1. op \in Ops
    BY DEF Ops, AuthOps
  <2>2. QED
    BY <1>2, <2>1, Tasks
<1>3. \E t \in {t1, t2} : Authorized(t, p, q)
  OBVIOUS
<1>4. PICK t \in {t1, t2} : Authorized(t, p, q)
  BY <1>3
<1>5. CASE Usable(p)
  <2>1. Send([t EXCEPT !.step = "command", !.request = q])
    BY <1>4, <1>5 DEF Authorized
  <2>2. IsTask([t EXCEPT !.step = "command", !.request = q])
    <3> HIDE DEF t1, t2
    <3>1. QED
      BY <1>2, <1>4, <1>5
  <2>3. QED
    BY <2>1, <2>2 DEF Sends
<1>6. CASE ~ Usable(p)
  <2>1. Send([t EXCEPT !.step = "authorize", !.request = ask])
    BY <1>4, <1>6 DEF Authorized, ask
  <2>2. IsTask([t EXCEPT !.step = "authorize", !.request = ask])
    <3> HIDE DEF t1, t2
    <3>1. QED
      BY <1>1, <1>2, <1>4
  <2>3. QED
    BY <2>1, <2>2 DEF Sends
<1>7. QED
  BY <1>5, <1>6

LEMMA Fetching == FetchWith => Sends
<1>1. PageRequest(0).cmd \in Commands
  BY Requesting DEF PageRequest
<1>2. IsTask([Task("catalog") EXCEPT !.request = PageRequest(0)])
  BY <1>1, Tasks DEF Ops
<1>3. QED
  BY <1>2 DEF FetchWith, Sends

\* The steps with which an operation begins.
Begins ==
  Connect \/ FetchCatalog \/ FetchSecurity \/ RequestAuthorization \/ DeleteSlot \/ WriteUserPresence

LEMMA Beginning == Begins => Sends /\ task = NoTask /\ UNCHANGED <<device, session, listed, lost>>
<1>1. Connect => Sends
  <2> DEFINE q == Request("snapshot", 0, 0, 0, {})
  <2>1. q.cmd \in Commands
    BY Requesting
  <2> HIDE DEF q
  <2>2. IsTask([Task("connect") EXCEPT !.request = q])
    BY <2>1, Tasks DEF Ops
  <2>3. QED
    BY <2>2 DEF Connect, Sends, q
<1>2. FetchSecurity => Sends
  <2> DEFINE q == Request("security", 0, 0, 0, {})
  <2>1. q.cmd \in Commands
    BY Requesting
  <2> HIDE DEF q
  <2>2. IsTask([Task("security") EXCEPT !.request = q])
    BY <2>1, Tasks DEF Ops
  <2>3. QED
    BY <2>2 DEF FetchSecurity, Sends, q
<1>3. FetchCatalog => Sends
  BY Fetching DEF FetchCatalog
<1>4. RequestAuthorization => Sends
  BY Authorizing DEF RequestAuthorization, AuthOps
<1>5. DeleteSlot => Sends
  <2>1. \A token, s : DeleteRequest(token, s).cmd \in Commands
    BY Requesting DEF DeleteRequest
  <2>2. QED
    BY <2>1, Authorizing DEF DeleteSlot, AuthOps
<1>6. WriteUserPresence => Sends
  <2>1. \A token : WriteUpRequest(token).cmd \in Commands
    BY Requesting DEF WriteUpRequest
  <2>2. QED
    BY <2>1, Authorizing DEF WriteUserPresence, AuthOps
<1>7. Begins => task = NoTask /\ UNCHANGED <<device, session, listed, lost>>
  BY DEF Begins, Connect, FetchCatalog, FetchSecurity, RequestAuthorization, DeleteSlot,
         WriteUserPresence, Begin, Ready
<1>8. QED
  BY <1>1, <1>2, <1>3, <1>4, <1>5, <1>6, <1>7 DEF Begins

\* The operation goes on to its command with the token.
LEMMA GoingOn ==
  ASSUME IsTask(task), task.op \in AuthOps, NEW token, GoOn(token)
  PROVE  TaskMove
<1>1. ASSUME NEW q, q.cmd \in Commands
      PROVE  /\ IsTask([task EXCEPT !.step = "command", !.request = q])
             /\ IsTask([task EXCEPT !.step = "command", !.again = TRUE, !.request = q])
  <2>1. \A st \in {"command", "authorize"} : (st = "authorize" => task.op \in AuthOps) =>
          /\ IsTask([task EXCEPT !.step = st, !.request = q])
          /\ \A again : IsTask([task EXCEPT !.step = st, !.again = again, !.request = q])
    BY <1>1, NextCommand DEF IsTask, TaskShape
  <2>2. QED
    BY <2>1
<1>2. CASE task.op = "authorize"
  BY <1>2 DEF GoOn, TaskMove
<1>3. CASE task.op = "catalog"
  <2> DEFINE q == Request("summaries", token, task.cursor, 0, {})
  <2>1. q.cmd \in Commands
    BY Requesting
  <2> HIDE DEF q
  <2>2. QED
    BY <1>1, <1>3, <2>1 DEF GoOn, TaskMove, Sends, q
<1>4. CASE task.op = "delete"
  <2>1. DeleteRequest(token, task.slot).cmd \in Commands
    BY Requesting DEF DeleteRequest
  <2>2. QED
    BY <1>1, <1>4, <2>1 DEF GoOn, TaskMove, Sends
<1>5. CASE task.op = "write_up"
  <2>1. WriteUpRequest(token).cmd \in Commands
    BY Requesting DEF WriteUpRequest
  <2>2. QED
    BY <1>1, <1>5, <2>1 DEF GoOn, TaskMove, Sends
<1>6. QED
  BY <1>2, <1>3, <1>4, <1>5 DEF AuthOps

\* What the manager makes of an answer.
LEMMA Hearing ==
  ASSUME IsTask(task), NEW r,
         HearAuthorization(r) \/ HearRefusal(r) \/ HearPage(r) \/ HearOther(r) \/ Mismatch
  PROVE  TaskMove
<1>1. CASE HearAuthorization(r)
  <2>1. task.op \in AuthOps
    BY <1>1 DEF HearAuthorization, IsTask, TaskShape
  <2>2. Stop \/ GoOn(cached'.token)
    BY <1>1 DEF HearAuthorization
  <2>3. QED
    BY <2>1, <2>2, GoingOn DEF TaskMove
<1>2. CASE HearRefusal(r)
  <2> DEFINE q == Request("authorize", 0, 0, 0, {"credential_read"})
  <2>1. task.op \in AuthOps
    BY <1>2 DEF HearRefusal, AuthOps
  <2>2. q.cmd \in Commands
    BY Requesting
  <2> HIDE DEF q
  <2>3. IsTask([task EXCEPT !.step = "authorize", !.request = q])
    BY <2>1, <2>2, NextCommand DEF IsTask, TaskShape
  <2>4. Stop \/ GoOn(cached.token) \/ Send([task EXCEPT !.step = "authorize", !.request = q])
    BY <1>2 DEF HearRefusal, q
  <2>5. QED
    BY <2>1, <2>3, <2>4, GoingOn DEF TaskMove, Sends
<1>3. CASE HearPage(r)
  <2> DEFINE items == task.items \cup r.body.items
             n == r.body.next
             q == PageRequest(n)
             t == [task EXCEPT !.cursor = n, !.items = items, !.again = FALSE, !.request = q]
  <2>1. q.cmd \in Commands
    BY Requesting DEF PageRequest
  <2>2. Stop \/ Send(t)
    BY <1>3 DEF HearPage
  <2> HIDE DEF q, n, items
  <2>3. /\ t \in [op: Ops, step: {"command", "authorize"}, request: {q}, cursor: {n},
                  items: {items}, slot: {task.slot}, again: {FALSE}]
        /\ t.op = task.op /\ t.step = task.step
    BY DEF IsTask, TaskShape
  <2> HIDE DEF t
  <2>4. IsTask(t)
    BY <2>1, <2>3 DEF IsTask, TaskShape
  <2>5. QED
    BY <2>2, <2>4 DEF TaskMove, Sends
<1>4. CASE HearOther(r)
  <2> DEFINE q == Request("security", 0, 0, 0, {})
  <2>1. q.cmd \in Commands
    BY Requesting
  <2> HIDE DEF q
  <2>2. IsTask([Task("security") EXCEPT !.request = q])
    BY <2>1, Tasks DEF Ops
  <2>3. FetchWith \/ Send([Task("security") EXCEPT !.request = q]) \/ Stop
    BY <1>4, Zenon DEF HearOther, q
  <2>4. QED
    BY <2>2, <2>3, Fetching DEF TaskMove, Sends
<1>5. CASE Mismatch
  BY <1>5 DEF Mismatch, TaskMove
<1>6. QED
  BY <1>1, <1>2, <1>3, <1>4, <1>5

\* Each step of the manager and its operation.
LEMMA TaskSteps ==
  ASSUME HostTypes, [Next]_vars
  PROVE  \/ /\ UNCHANGED <<task, session>>
            /\ \/ link' = link
               \/ Write /\ link' = [phase |-> "reading", age |-> 0]
               \/ ReadPart /\ link' = [phase |-> "joining", age |-> 0]
               \/ Tick /\ link' = [link EXCEPT !.age = @ + 1]
         \/ Disconnect
         \/ Begins /\ Sends /\ task = NoTask /\ session' = session
         \/ Gone /\ Stop
         \/ Read /\ TaskMove
         \/ ReadJoined /\ Stop
         \/ GiveUp /\ Stop
<1>1. CASE Read
  <2>2. IsTask(task)
    BY <1>1 DEF Read, HostTypes, TaskTypes, NoLink
  <2>3. PICK r : HearAuthorization(r) \/ HearRefusal(r) \/ HearPage(r) \/ HearOther(r) \/ Mismatch
    BY <1>1 DEF Read
  <2>4. QED
    BY <1>1, <2>2, <2>3, Hearing
<1>2. CASE Begins
  BY <1>2, Beginning
<1>3. CASE Write \/ ReadPart \/ Stranger \/ DeviceAlone \/ UNCHANGED vars
  BY <1>3 DEF Write, ReadPart, Stranger, DeviceAlone, vars, host
<1>4. CASE Disconnect \/ GiveUp \/ ReadJoined \/ Gone
  BY <1>4 DEF GiveUp, ReadJoined, Mismatch, Gone
<1>5. CASE Tick
  BY <1>5 DEF Tick
<1>6. QED
  BY <1>1, <1>2, <1>3, <1>4, <1>5 DEF Next, HostStep, Begins

\* The authorization that the manager keeps is dropped, aged, or a new one.
LEMMA CachedSteps ==
  ASSUME [Next]_vars
  PROVE  \/ cached' \in {cached, NoToken}
         \/ \E token, perms : cached' = [token |-> token, perms |-> perms, left |-> TTL]
         \/ cached.left > 0 /\ cached' = [cached EXCEPT !.left = cached.left - 1]
<1>1. \A p : Resolve(p) \in {cached, NoToken}
  BY DEF Resolve
<1>2. CASE Read
  <2>1. PICK r : HearAuthorization(r) \/ HearRefusal(r) \/ HearPage(r) \/ HearOther(r) \/ Mismatch
    BY <1>2 DEF Read
  <2>2. CASE HearAuthorization(r)
    BY <2>2 DEF HearAuthorization, Kept
  <2>3. CASE HearRefusal(r) \/ HearPage(r) \/ Mismatch
    BY <1>1, <2>3 DEF HearRefusal, HearPage, Mismatch
  <2>4. CASE HearOther(r)
    <3>1. FetchWith \/ cached' = cached
      BY <2>4, Zenon DEF HearOther
    <3>2. QED
      BY <1>1, <3>1 DEF FetchWith
  <2>5. QED
    BY <2>1, <2>2, <2>3, <2>4
<1>3. CASE Begins
  BY <1>1, <1>3 DEF Begins, Connect, FetchCatalog, FetchWith, FetchSecurity, RequestAuthorization,
                    DeleteSlot, WriteUserPresence, Authorized
<1>4. CASE Tick
  BY <1>4 DEF Tick
<1>5. CASE \/ Write \/ ReadPart \/ ReadJoined \/ GiveUp \/ Stranger \/ Disconnect \/ DeviceAlone
           \/ Gone \/ UNCHANGED vars
  BY <1>5 DEF Write, ReadPart, ReadJoined, Mismatch, GiveUp, Stranger, Disconnect, DeviceAlone,
              Gone, vars, host
<1>6. QED
  BY <1>2, <1>3, <1>4, <1>5 DEF Next, HostStep, Begins

LEMMA HostInitTypes == HostInit => HostTypes
<1>1. TTL \in Nat
  BY ChannelConstantsOK
<1>2. QED
  BY <1>1 DEF HostInit, HostTypes, TaskTypes, NoToken

LEMMA HostTypesInductive ==
  ASSUME HostTypes, [Next]_vars
  PROVE  HostTypes'
<1>1. TTL \in Nat /\ TransferTimeout \in Nat
  BY ChannelConstantsOK, HostConstantsOK
<1>2. /\ cached' = [token |-> cached'.token, perms |-> cached'.perms, left |-> cached'.left]
      /\ cached'.left \in 0 .. TTL
  <2>1. CASE cached' \in {cached, NoToken}
    BY <1>1, <2>1 DEF HostTypes, NoToken
  <2>2. CASE \E token, perms : cached' = [token |-> token, perms |-> perms, left |-> TTL]
    BY <1>1, <2>2
  <2>3. CASE cached.left > 0 /\ cached' = [cached EXCEPT !.left = cached.left - 1]
    <3>1. cached.left - 1 \in 0 .. TTL
      BY <1>1, <2>3 DEF HostTypes
    <3>2. QED
      BY <2>3, <3>1 DEF HostTypes
  <2>4. QED
    BY <2>1, <2>2, <2>3, CachedSteps
<1>3. TaskMove => TaskTypes'
  <2>1. CASE Sends
    <3>1. PICK t : IsTask(t) /\ Send(t)
      BY <2>1 DEF Sends
    <3>2. IsTask(task') /\ link' = [phase |-> "writing", age |-> 0]
      BY <3>1 DEF Send
    <3>3. IsTask(task)' /\ link' \in [phase: {"writing", "reading", "joining"},
                                      age: 0 .. TransferTimeout]
      BY <1>1, <3>2 DEF IsTask, TaskShape
    <3>4. QED
      BY <3>3 DEF TaskTypes
  <2>2. CASE Stop
    BY <2>2 DEF Stop, TaskTypes
  <2>3. QED
    BY <2>1, <2>2 DEF TaskMove
<1>4. TaskTypes'
  <2>1. ASSUME task' = task, IsTask(task),
               link' \in [phase: {"writing", "reading", "joining"}, age: 0 .. TransferTimeout]
        PROVE  TaskTypes'
    BY <2>1 DEF TaskTypes, IsTask, TaskShape
  <2>2. CASE UNCHANGED <<task, link>>
    BY <2>2 DEF HostTypes, TaskTypes, IsTask, TaskShape
  <2>3. CASE Write /\ task' = task /\ link' = [phase |-> "reading", age |-> 0]
    <3>1. IsTask(task)
      BY <2>3 DEF Write, HostTypes, TaskTypes, NoLink
    <3>2. QED
      BY <1>1, <2>1, <2>3, <3>1
  <2>4. CASE ReadPart /\ task' = task /\ link' = [phase |-> "joining", age |-> 0]
    <3>1. IsTask(task)
      BY <2>4 DEF ReadPart, HostTypes, TaskTypes, NoLink
    <3>2. QED
      BY <1>1, <2>1, <2>4, <3>1
  <2>5. CASE Tick /\ task' = task
    <3>1. CASE link.phase = "idle"
      BY <2>2, <2>5, <3>1 DEF Tick
    <3>2. CASE link.phase # "idle"
      <4>1. IsTask(task) /\ link \in [phase: {"writing", "reading", "joining"},
                                      age: 0 .. TransferTimeout]
        BY <3>2 DEF HostTypes, TaskTypes, NoLink
      <4>2. link.age \in 0 .. TransferTimeout /\ link.age # TransferTimeout
        BY <2>5, <3>2, <4>1 DEF Tick, TimesOut
      <4>3. link.age + 1 \in 0 .. TransferTimeout
        BY <1>1, <4>2
      <4>4. link' = [link EXCEPT !.age = link.age + 1]
        BY <2>5, <3>2 DEF Tick
      <4>5. link' \in [phase: {"writing", "reading", "joining"}, age: 0 .. TransferTimeout]
        BY <4>1, <4>3, <4>4
      <4>6. QED
        BY <2>1, <2>5, <4>1, <4>5
    <3>3. QED
      BY <3>1, <3>2
  <2>6. CASE Disconnect
    BY <2>2, <2>6 DEF Disconnect
  <2>7. CASE Sends \/ Stop
    BY <1>3, <2>7 DEF TaskMove
  <2>8. QED
    BY <2>2, <2>3, <2>4, <2>5, <2>6, <2>7, TaskSteps DEF TaskMove
<1>5. session' \in {"none", "open", "dead"} /\ (session' = "dead" => task' = NoTask)
  <2>1. CASE UNCHANGED <<task, session>>
    BY <2>1 DEF HostTypes
  <2>2. CASE Disconnect
    BY <2>2 DEF Disconnect
  <2>3. CASE Begins /\ session' = session
    <3>1. session # "dead"
      BY <2>3 DEF Begins, Connect, FetchCatalog, FetchSecurity, RequestAuthorization, DeleteSlot,
                  WriteUserPresence, Ready
    <3>2. QED
      BY <2>3, <3>1 DEF HostTypes
  <2>4. CASE Gone /\ Stop
    BY <2>4 DEF Gone, Stop
  <2>5. CASE Read \/ ReadJoined \/ GiveUp
    <3>1. session # "dead"
      BY <2>5 DEF Read, ReadJoined, GiveUp, TimesOut, HostTypes, TaskTypes, NoLink, IsTask,
                  TaskShape, Ops, NoTask
    <3>2. session' \in {session, "open", "none"}
      <4>1. CASE Read
        <5>1. PICK r : HearAuthorization(r) \/ HearRefusal(r) \/ HearPage(r) \/ HearOther(r)
                         \/ Mismatch
          BY <4>1 DEF Read
        <5>2. QED
          BY <5>1, Zenon DEF HearAuthorization, HearRefusal, HearPage, HearOther, Mismatch
      <4>2. CASE ReadJoined \/ GiveUp
        BY <4>2 DEF ReadJoined, GiveUp, Mismatch
      <4>3. QED
        BY <2>5, <4>1, <4>2
    <3>3. QED
      BY <3>1, <3>2 DEF HostTypes
  <2>6. QED
    BY <2>1, <2>2, <2>3, <2>4, <2>5, TaskSteps
<1>6. QED
  BY <1>2, <1>4, <1>5 DEF HostTypes

LEMMA ManagerInit == Init => GrantInv /\ DeviceTypes /\ HostTypes
BY GrantInit, DeviceInit, HostInitTypes DEF Init

LEMMA ManagerInductive ==
  ASSUME GrantInv, DeviceTypes, HostTypes, [Next]_vars
  PROVE  GrantInv' /\ DeviceTypes' /\ HostTypes'
<1>1. GrantInv'
  BY SystemStep, GrantInductive DEF GrantInv, Shape
<1>2. ASSUME HostStep PROVE DeviceTypes'
  BY <1>2, ManagerStep, AnyHostTypes DEF GrantInv, Shape
<1>3. ASSUME DeviceAlone \/ Gone \/ Tick PROVE DeviceTypes'
  BY <1>3, DeviceTypesInductive DEF DeviceAlone, Gone, Tick
<1>4. ASSUME UNCHANGED vars PROVE DeviceTypes'
  BY <1>4, AnyHostTypes DEF vars
<1>5. QED
  BY <1>1, <1>2, <1>3, <1>4, HostTypesInductive DEF Next

\* The types of the device, the manager and what is between them, for any capacity, any
\* number of registrations, and any sizes of pipes and lengths of timeouts.
THEOREM ManagerTypeCorrect == Spec => []TypeOK
<1>1. ASSUME DeviceTypes, HostTypes PROVE TypeOK
  <2>1. \/ task = NoTask /\ link = NoLink
        \/ task # NoTask /\ link \in [phase: {"writing", "reading", "joining"},
                                      age: 0 .. TransferTimeout]
    BY <1>1 DEF HostTypes, TaskTypes, IsTask, TaskShape, Ops, NoTask
  <2>2. TransferTimeout \in Nat
    BY HostConstantsOK
  <2>3. /\ task # NoTask <=> link.phase \in {"writing", "reading", "joining"}
        /\ link.age \in 0 .. TransferTimeout
    BY <2>1, <2>2 DEF NoLink
  <2>4. QED
    BY <1>1, <2>3 DEF TypeOK, DeviceTypes, HostTypes
<1>2. QED
  BY <1>1, ManagerInit, ManagerInductive, PTL DEF Spec

--------------------------------------------------------------------------------
(* Whole answers                                                             *)

\* As long as nothing is lost there is nothing in the pipes but the request of the transfer
\* in progress, which nobody has answered yet, or its answer, which nobody has read yet.
AnswersInv ==
  ~ lost =>
    /\ link.phase # "joining"
    /\ out # NoRequest => link.phase = "reading" /\ inp = <<>> /\ out = task.request
    /\ inp # <<>> => /\ link.phase = "reading" /\ Len(inp) = 1 /\ out = NoRequest
                     /\ Head(inp).cmd = task.request.cmd /\ ~ Head(inp).cut

\* A step of the device answers the request that there is, or leaves the pipes alone.
LEMMA DeviceAnswers ==
  ASSUME DeviceTypes, DeviceStep
  PROVE  \/ UNCHANGED <<out, inp>>
         \/ /\ out # NoRequest /\ out' = NoRequest
            /\ \E status, body : Respond(out.cmd, status, body)
<1>1. \A cmd \in Commands : Handle(cmd) => out # NoRequest /\ out' = NoRequest /\ out.cmd = cmd
  BY DEF Handle, Commands, NoRequest
<1>2. CASE Refuse
  BY <1>2 DEF Refuse
<1>3. CASE HandleQuery
  BY <1>1, <1>3 DEF HandleQuery, Commands
<1>4. CASE HandleSummaries
  <2>1. \E status, body : Respond("summaries", status, body)
    BY <1>4 DEF HandleSummaries
  <2>2. QED
    BY <1>1, <1>4, <2>1 DEF HandleSummaries, Commands
<1>5. CASE HandleDelete
  <2>1. \E status, body : Respond("delete", status, body)
    BY <1>5 DEF HandleDelete
  <2>2. QED
    BY <1>1, <1>5, <2>1 DEF HandleDelete, Commands
<1>6. CASE HandleWriteUp
  <2>1. \E status, body : Respond("write_up", status, body)
    BY <1>6 DEF HandleWriteUp
  <2>2. QED
    BY <1>1, <1>6, <2>1 DEF HandleWriteUp, Commands
<1>7. CASE Confirmed \/ Unconfirmed
  <2>1. out.cmd = "authorize" /\ out # NoRequest
    BY <1>7 DEF Confirmed, Unconfirmed, DeviceTypes, NoRequest
  <2>2. \E status, body : Respond("authorize", status, body)
    BY <1>7 DEF Confirmed, Unconfirmed
  <2>3. QED
    BY <1>7, <2>1, <2>2 DEF Confirmed, Unconfirmed
<1>8. CASE HandleAuthorize \/ CtapBegin \/ CtapEnd \/ DebugClear
  BY <1>8 DEF HandleAuthorize, CtapBegin, CtapEnd, DebugClear
<1>9. QED
  BY <1>2, <1>3, <1>4, <1>5, <1>6, <1>7, <1>8 DEF DeviceStep

LEMMA AnswersInductive ==
  ASSUME GrantInv, DeviceTypes, HostTypes, AnswersInv, [Next]_vars
  PROVE  AnswersInv'
<1> SUFFICES ASSUME ~ lost' PROVE AnswersInv'
  BY DEF AnswersInv
<1>1. ASSUME task = NoTask PROVE link.phase = "idle"
  BY <1>1 DEF HostTypes, TaskTypes, IsTask, TaskShape, Ops, NoTask, NoLink
<1>2. TaskMove => link'.phase \in {"writing", "idle"}
  BY DEF TaskMove, Sends, Send, Stop, NoLink
<1>3. CASE DeviceAlone
  <2>1. UNCHANGED <<task, link, lost>> /\ DeviceStep
    BY <1>3 DEF DeviceAlone
  <2>2. CASE UNCHANGED <<out, inp>>
    BY <2>1, <2>2 DEF AnswersInv
  <2>3. CASE ~ UNCHANGED <<out, inp>>
    <3>1. /\ out # NoRequest /\ out' = NoRequest
          /\ \E status, body : Respond(out.cmd, status, body)
      BY <2>1, <2>3, DeviceAnswers
    <3>2. link.phase = "reading" /\ inp = <<>> /\ out = task.request
      BY <2>1, <3>1 DEF AnswersInv
    <3>3. PICK r : inp' = Append(inp, r) /\ r.cmd = out.cmd /\ ~ r.cut
      BY <3>1, <3>2 DEF Respond
    <3>4. inp' = <<r>>
      BY <3>2, <3>3
    <3>5. Len(inp') = 1 /\ Head(inp') = r
      BY <3>4
    <3>6. QED
      BY <2>1, <3>1, <3>2, <3>3, <3>5 DEF AnswersInv
  <2>4. QED
    BY <2>2, <2>3
<1>4. CASE Write
  <2>1. /\ out' = task.request /\ link' = [phase |-> "reading", age |-> 0]
        /\ UNCHANGED <<task, inp, lost>> /\ link.phase = "writing"
    BY <1>4 DEF Write
  <2>2. inp = <<>>
    BY <2>1 DEF AnswersInv
  <2>3. QED
    BY <2>1, <2>2 DEF AnswersInv
<1>5. CASE Read
  <2>1. link.phase = "reading" /\ inp # <<>> /\ UNCHANGED <<out, lost>> /\ inp' \in Rest
    BY <1>5 DEF Read
  <2>2. Len(inp) = 1 /\ out = NoRequest
    BY <2>1 DEF AnswersInv
  <2>3. inp' = Tail(inp)
    BY <2>1, <2>2 DEF Rest
  <2>4. inp' = <<>>
    <3>1. inp \in Seq({inp[n] : n \in 1 .. Len(inp)})
      BY DEF GrantInv, Shape, IsResponses
    <3>2. QED
      BY <2>1, <2>2, <2>3, <3>1
  <2>5. link'.phase \in {"writing", "idle"}
    <3>1. TaskMove
      <4>1. IsTask(task)
        BY <2>1 DEF HostTypes, TaskTypes, NoLink
      <4>2. PICK r : HearAuthorization(r) \/ HearRefusal(r) \/ HearPage(r) \/ HearOther(r)
                       \/ Mismatch
        BY <1>5 DEF Read
      <4>3. QED
        BY <4>1, <4>2, Hearing
    <3>2. QED
      BY <1>2, <3>1
  <2>6. QED
    BY <2>1, <2>2, <2>4, <2>5 DEF AnswersInv
<1>6. CASE ReadPart
  <2>1. inp # <<>> /\ lost' = lost
        /\ (link.phase = "reading" => Head(inp).cut \/ Head(inp) = Garbage)
    BY <1>6 DEF ReadPart
  <2>2. link.phase = "reading" /\ Head(inp).cmd = task.request.cmd /\ ~ Head(inp).cut
    BY <2>1 DEF AnswersInv
  <2>3. task.request.cmd \in Commands
    BY <2>2 DEF HostTypes, TaskTypes, NoLink, IsTask
  <2>4. QED
    BY <2>1, <2>2, <2>3 DEF Garbage, Commands
<1>7. CASE ReadJoined
  BY <1>7 DEF ReadJoined, AnswersInv
<1>8. CASE GiveUp \/ Stranger
  BY <1>8 DEF GiveUp, Stranger
<1>9. CASE Begins
  <2>1. task = NoTask /\ UNCHANGED <<out, inp, lost>> /\ Sends
    BY <1>9, Beginning DEF device
  <2>2. inp = <<>> /\ out = NoRequest
    BY <1>1, <2>1 DEF AnswersInv
  <2>3. link'.phase \in {"writing", "idle"}
    BY <1>2, <2>1 DEF TaskMove
  <2>4. QED
    BY <2>1, <2>2, <2>3 DEF AnswersInv
<1>10. CASE Disconnect \/ UNCHANGED vars
  BY <1>10 DEF Disconnect, AnswersInv, vars, device, host
<1>11. CASE Gone
  BY <1>11 DEF Gone, Unplug, Stop, NoLink, AnswersInv
<1>12. CASE Tick
  <2>1. UNCHANGED <<out, inp, task, lost>>
    BY <1>12 DEF Tick, ChannelTick
  <2>2. link'.phase = link.phase
    <3>1. CASE link.phase = "idle"
      BY <1>12, <3>1 DEF Tick
    <3>2. CASE link.phase # "idle"
      <4>1. link \in [phase: {"writing", "reading", "joining"}, age: 0 .. TransferTimeout]
        BY <3>2 DEF HostTypes, TaskTypes, NoLink
      <4>2. QED
        BY <1>12, <3>2, <4>1 DEF Tick
    <3>3. QED
      BY <3>1, <3>2
  <2>3. QED
    BY <2>1, <2>2 DEF AnswersInv
<1>13. QED
  BY <1>3, <1>4, <1>5, <1>6, <1>7, <1>8, <1>9, <1>10, <1>11, <1>12 DEF Next, HostStep, Begins

\* As long as no transfer has timed out and no other program has been there, what is in the
\* pipe is the whole answer to the manager's request, and nothing else.
THEOREM AnswersCorrect == Spec => []AnswersAreWhole
<1>1. Init => AnswersInv
  BY DEF Init, ChannelInit, HostInit, NoLink, AnswersInv
<1>2. AnswersInv => AnswersAreWhole
  BY DEF AnswersInv, AnswersAreWhole
<1>3. QED
  BY <1>1, <1>2, ManagerInit, ManagerInductive, AnswersInductive, PTL DEF Spec

--------------------------------------------------------------------------------
(* Operations, pages and slots                                               *)

Contents(s) == {s[n] : n \in 1 .. Len(s)}

\* The responses that are a page of the catalog
Pages(s) == {r \in Contents(s) : r.cmd = "summaries" /\ r.status = "ok"}

IsPage(p) == p.next \in Nat /\ p.more \in BOOLEAN /\ (p.more => p.next <= Capacity)

\* The command of an operation, after its authorization; one asks for no more than that.
CommandOf(op) ==
  CASE op = "connect"  -> "snapshot"
    [] op = "catalog"  -> "summaries"
    [] op = "security" -> "security"
    [] op = "authorize" -> "none"
    [] op = "delete"   -> "delete"
    [] op = "write_up" -> "write_up"

Consistent(t) ==
  /\ t.request.cmd = IF t.step = "authorize" THEN "authorize" ELSE CommandOf(t.op)
  /\ t.request.cmd = "summaries" => t.request.cursor = t.cursor
  /\ t.again \in BOOLEAN
  /\ t.cursor \in 0 .. Capacity /\ (t.op # "catalog" => t.cursor = 0)

\* The operation in progress sends what it is for, and the pages under way are pages.
PageInv ==
  /\ task # NoTask => Consistent(task)
  /\ out.cmd = "summaries" => out.cursor \in Nat
  /\ \A r \in Pages(inp) : IsPage(r.body)

\* A credential has one slot, and the next one has a number of its own.
SlotsInv ==
  /\ \A s \in Slots : slots[s] <= Capacity + added
  /\ \A s, t \in Occupied : slots[s] = slots[t] => s = t

\* Of a transfer that was given up, one answer at most is still to come, and it comes
\* before the one that the manager reads for.
PipeInv ==
  /\ Len(inp) + (IF out = NoRequest THEN 0 ELSE 1) <= IF link.phase = "reading" THEN 2 ELSE 1
  /\ link.phase = "reading" =>
       /\ out # NoRequest => out = task.request
       /\ Len(inp) = 2 => inp[2].cmd = task.request.cmd

\* What the store has, as the catalog shows it.
Entries == {Item(s) : s \in Occupied}

Holds(items) == items \subseteq Entries

\* The catalog on the screen, the pages fetched and those under way are true until a
\* credential is deleted; only a deletion that the manager waits for overtakes a page.
TruthInv ==
  /\ removed \in [listed: BOOLEAN, fetch: BOOLEAN]
  /\ ~ build.debugHid =>
       /\ ~ removed.listed => Holds(listed)
       /\ task # NoTask /\ ~ removed.fetch => Holds(task.items)
       /\ \A r \in Pages(inp) :
            Holds(r.body.items) \/ (link.phase = "reading" /\ task.request.cmd = "delete")

\* Of what was in the store all the while, the items have what comes before the cursor.
Covers(cursor, items) ==
  \A s \in Occupied : slots[s] \in present /\ Ordinal(s) < cursor => Item(s) \in items

CoversAll(items) == \A s \in Occupied : slots[s] \in present => Item(s) \in items

CoverInv ==
  /\ present \subseteq Stored
  /\ ~ lost /\ task # NoTask /\ task.op = "catalog" =>
       /\ Covers(task.cursor, task.items)
       /\ \A r \in Pages(inp) : LET items == task.items \cup r.body.items
                                IN  /\ Covers(r.body.next, items)
                                    /\ ~ r.body.more => CoversAll(items)

LEMMA ContentsAppended ==
  ASSUME NEW s, IsResponses(s), NEW r
  PROVE  Contents(Append(s, r)) = Contents(s) \cup {r}
<1> DEFINE S == {s[n] : n \in 1 .. Len(s)}
           T == S \cup {r}
           a == Append(s, r)
<1>1. s \in Seq(S) /\ Len(s) \in Nat
  BY DEF IsResponses
<1>2. s \in Seq(T)
  BY <1>1
<1>3. /\ Len(a) = Len(s) + 1 /\ a[Len(s) + 1] = r
      /\ \A n \in 1 .. Len(s) : a[n] = s[n]
  BY <1>2
<1> HIDE DEF a
<1>4. {a[n] : n \in 1 .. Len(a)} = S \cup {r}
  BY <1>1, <1>3
<1>5. QED
  BY <1>4 DEF Contents, a

\* What is left once the first response has been taken.
LEMMA ContentsTaken ==
  ASSUME NEW s, IsResponses(s), s # <<>>
  PROVE  /\ Len(s) \in Nat \ {0} /\ Head(s) = s[1] /\ Head(s) \in Contents(s)
         /\ IsResponses(Tail(s)) /\ Len(Tail(s)) = Len(s) - 1
         /\ Contents(Tail(s)) \subseteq Contents(s)
         /\ Len(s) = 1 => Tail(s) = <<>>
         /\ Len(s) = 2 => Contents(Tail(s)) = {s[2]}
<1> DEFINE S == {s[n] : n \in 1 .. Len(s)}
           t == Tail(s)
<1>1. s \in Seq(S) /\ Len(s) \in Nat \ {0} /\ Head(s) = s[1]
  BY DEF IsResponses
<1>2. /\ t \in Seq(S) /\ Len(t) = Len(s) - 1
      /\ \A n \in 1 .. Len(t) : t[n] = s[n + 1]
  BY <1>1
<1> HIDE DEF t
<1>3. Len(s) = 1 => t = <<>>
  BY <1>1, <1>2, EmptySeq
<1>4. {t[n] : n \in 1 .. Len(t)} \subseteq S
  <2>1. \A n \in 1 .. Len(t) : n + 1 \in 1 .. Len(s) /\ t[n] = s[n + 1]
    BY <1>1, <1>2
  <2>2. QED
    BY <2>1
<1>5. t \in Seq({t[n] : n \in 1 .. Len(t)})
  BY <1>2
<1>6. Len(s) = 2 => {t[n] : n \in 1 .. Len(t)} = {s[2]}
  <2> SUFFICES ASSUME Len(s) = 2 PROVE {t[n] : n \in 1 .. Len(t)} = {s[2]}
    OBVIOUS
  <2>1. Len(t) = 1 /\ t[1] = s[2]
    BY <1>2
  <2>2. QED
    BY <2>1
<1>7. s[1] \in S
  BY <1>1
<1>8. QED
  BY <1>1, <1>2, <1>3, <1>4, <1>5, <1>6, <1>7 DEF Contents, IsResponses, t

LEMMA ContentsEmpty == Contents(<<>>) = {} /\ Len(<<>>) = 0 /\ IsResponses(<<>>)
BY DEF Contents, IsResponses

\* Something in the place of the first response.
LEMMA ContentsReplaced ==
  ASSUME NEW s, IsResponses(s), NEW r
  PROVE  /\ Len(<<r>> \o s) = Len(s) + 1
         /\ Contents(<<r>> \o s) = Contents(s) \cup {r}
<1> DEFINE S == {s[n] : n \in 1 .. Len(s)}
           T == S \cup {r}
           a == <<r>> \o s
<1>1. s \in Seq(S) /\ Len(s) \in Nat
  BY DEF IsResponses
<1>2. s \in Seq(T) /\ <<r>> \in Seq(T) /\ Len(<<r>>) = 1 /\ <<r>>[1] = r
  BY <1>1
<1>3. /\ Len(a) = Len(s) + 1 /\ a[1] = r
      /\ \A n \in 1 .. Len(s) : a[n + 1] = s[n]
  BY <1>1, <1>2
<1> HIDE DEF a
<1>4. \A n \in 1 .. Len(a) : a[n] = r \/ (n - 1 \in 1 .. Len(s) /\ a[n] = s[n - 1])
  <2> TAKE n \in 1 .. Len(a)
  <2>1. CASE n = 1
    BY <1>3, <2>1
  <2>2. CASE n # 1
    <3>1. n - 1 \in 1 .. Len(s) /\ n = (n - 1) + 1
      BY <1>1, <1>3, <2>2
    <3>2. QED
      BY <1>3, <3>1
  <2>3. QED
    BY <2>1, <2>2
<1>5. \A n \in 1 .. Len(s) : n + 1 \in 1 .. Len(a)
  BY <1>1, <1>3
<1>6. 1 \in 1 .. Len(a)
  BY <1>1, <1>3
<1>7. {a[n] : n \in 1 .. Len(a)} = S \cup {r}
  BY <1>3, <1>4, <1>5, <1>6
<1>8. QED
  BY <1>3, <1>7 DEF Contents, a

\* What a transfer leaves in the pipe was there before, or is no response.
LEMMA Leaving ==
  ASSUME IsResponses(inp), inp # <<>>,
         inp' \in Rest \cup {Tail(inp), <<Garbage>> \o Tail(inp)}
  PROVE  /\ Contents(inp') \subseteq Contents(inp) \cup {Garbage}
         /\ Len(inp') \in Nat /\ Len(inp') <= Len(inp)
         /\ inp' \in Rest => /\ Len(inp') < Len(inp)
                             /\ Len(inp) = 2 => Contents(inp') \subseteq {inp[2], Garbage}
<1> DEFINE t == Tail(inp)
           u == Tail(t)
<1>1. /\ Len(inp) \in Nat \ {0} /\ IsResponses(t) /\ Len(t) = Len(inp) - 1
      /\ Contents(t) \subseteq Contents(inp)
      /\ Len(inp) = 2 => Contents(t) = {inp[2]}
  BY ContentsTaken
<1>2. Len(inp) > 1 => /\ IsResponses(u) /\ Len(u) = Len(inp) - 2
                      /\ Contents(u) \subseteq Contents(t)
                      /\ Len(inp) = 2 => u = <<>>
  <2> SUFFICES ASSUME Len(inp) > 1
               PROVE  /\ IsResponses(u) /\ Len(u) = Len(inp) - 2
                      /\ Contents(u) \subseteq Contents(t)
                      /\ Len(inp) = 2 => u = <<>>
    OBVIOUS
  <2> HIDE DEF t
  <2>1. Len(t) \in Nat \ {0} /\ t # <<>>
    BY <1>1, ContentsEmpty
  <2>2. /\ IsResponses(u) /\ Len(u) = Len(t) - 1 /\ Contents(u) \subseteq Contents(t)
        /\ Len(t) = 1 => u = <<>>
    BY <1>1, <2>1, ContentsTaken
  <2> HIDE DEF u
  <2>3. QED
    BY <1>1, <2>1, <2>2
<1>3. inp' \in {t, <<Garbage>> \o t} \/ (Len(inp) > 1 /\ inp' \in {u, <<Garbage>> \o u})
  BY DEF Rest
<1> HIDE DEF t, u
<1>4. CASE inp' = t
  BY <1>1, <1>4
<1>5. CASE inp' = <<Garbage>> \o t /\ inp' \notin Rest
  BY <1>1, <1>5, ContentsReplaced
<1>6. CASE Len(inp) > 1 /\ inp' = u
  <2>1. Len(inp) = 2 => Contents(inp') = {}
    BY <1>2, <1>6, ContentsEmpty
  <2>2. QED
    BY <1>1, <1>2, <1>6, <2>1
<1>7. CASE Len(inp) > 1 /\ inp' = <<Garbage>> \o u
  <2>1. Len(inp) = 2 => Contents(u) = {}
    BY <1>2, ContentsEmpty
  <2>2. Len(inp') = Len(u) + 1 /\ Contents(inp') = Contents(u) \cup {Garbage}
    BY <1>2, <1>7, ContentsReplaced
  <2>3. QED
    BY <1>1, <1>2, <1>7, <2>1, <2>2
<1>8. CASE inp' = <<Garbage>> \o t /\ inp' \in Rest
  <2>1. inp' \in {t} \/ (Len(inp) > 1 /\ inp' \in {u, <<Garbage>> \o u})
    BY <1>8 DEF Rest, t, u
  <2>2. QED
    BY <1>4, <1>6, <1>7, <2>1
<1>9. QED
  BY <1>3, <1>4, <1>5, <1>6, <1>7, <1>8

\* The occupied slots are numbered in order, from 0 on.
LEMMA Ordinals ==
  /\ IsFiniteSet(Occupied) /\ Cardinality(Occupied) \in 0 .. Capacity
  /\ \A s \in Occupied : Ordinal(s) \in Nat /\ Ordinal(s) < Cardinality(Occupied)
  /\ \A s, t \in Occupied : Ordinal(s) = Ordinal(t) => s = t
<1> DEFINE Below(x) == {y \in Occupied : y < x}
<1>1. Capacity \in Nat \ {0} /\ Occupied \subseteq Slots /\ Slots \subseteq Nat
  BY ChannelConstantsOK DEF Occupied, Slots
<1>2. /\ IsFiniteSet(Occupied) /\ Cardinality(Occupied) \in 0 .. Capacity
  <2>1. IsFiniteSet(Slots) /\ Cardinality(Slots) = Capacity
    <3>1. 0 \in Int /\ Capacity - 1 \in Int /\ ~ (0 > Capacity - 1) /\ Capacity - 1 - 0 + 1 = Capacity
      BY <1>1
    <3>2. QED
      BY <3>1, FS_Interval DEF Slots
  <2>2. IsFiniteSet(Occupied) /\ Cardinality(Occupied) <= Cardinality(Slots)
    BY <1>1, <2>1, FS_Subset
  <2>3. Cardinality(Occupied) \in Nat
    BY <2>2, FS_CardinalityType
  <2>4. QED
    BY <1>1, <2>1, <2>2, <2>3
<1>3. ASSUME NEW x \in Occupied
      PROVE  /\ IsFiniteSet(Below(x)) /\ Cardinality(Below(x)) \in Nat
             /\ Cardinality(Below(x)) < Cardinality(Occupied)
  <2>1. Below(x) \in SUBSET Occupied /\ x \notin Below(x)
    BY <1>1
  <2>2. /\ IsFiniteSet(Below(x)) /\ Cardinality(Below(x)) <= Cardinality(Occupied)
        /\ Cardinality(Below(x)) # Cardinality(Occupied)
    BY <1>2, <2>1, FS_Subset
  <2>3. Cardinality(Below(x)) \in Nat
    BY <2>2, FS_CardinalityType
  <2> HIDE DEF Below
  <2>4. QED
    BY <1>2, <2>2, <2>3
<1>4. ASSUME NEW x \in Occupied, NEW y \in Occupied, x < y
      PROVE  Cardinality(Below(x)) # Cardinality(Below(y))
  <2>1. \A z \in Occupied : z < x => z < y
    BY <1>1, <1>4
  <2>2. Below(x) \in SUBSET Below(y) /\ x \in Below(y)
    BY <1>4, <2>1
  <2>3. x \notin Below(x)
    BY <1>1
  <2> HIDE DEF Below
  <2>4. QED
    BY <1>3, <2>2, <2>3, FS_Subset
<1>5. ASSUME NEW x \in Occupied, NEW y \in Occupied, x # y
      PROVE  Cardinality(Below(x)) # Cardinality(Below(y))
  <2>1. x < y \/ y < x
    BY <1>1, <1>5
  <2> HIDE DEF Below
  <2>2. QED
    BY <1>4, <2>1
<1>6. \A s \in Occupied : Ordinal(s) = Cardinality(Below(s))
  BY DEF Ordinal
<1> HIDE DEF Below
<1>7. QED
  BY <1>2, <1>3, <1>5, <1>6

\* A page shows true entries, those whose numbers it stands for, and knows if it is the last.
LEMMA PageShows ==
  ASSUME NEW cursor \in Nat, NEW fits \in Nat \ {0}
  PROVE  LET p == Page(cursor, fits)
         IN  /\ IsPage(p) /\ Holds(p.items)
             /\ \A s \in Occupied :
                  cursor <= Ordinal(s) /\ (Ordinal(s) < p.next \/ ~ p.more) => Item(s) \in p.items
<1> DEFINE shown == {s \in Occupied : cursor <= Ordinal(s) /\ Ordinal(s) < cursor + fits}
           n == Cardinality(shown)
           p == Page(cursor, fits)
           total == Cardinality(Occupied)
<1>1. /\ Capacity \in Nat /\ IsFiniteSet(Occupied) /\ total \in 0 .. Capacity
      /\ \A s \in Occupied : Ordinal(s) \in Nat /\ Ordinal(s) < total
      /\ \A s, t \in Occupied : Ordinal(s) = Ordinal(t) => s = t
  BY Ordinals, ChannelConstantsOK
<1>2. n \in Nat /\ n <= fits
  <2> DEFINE places == cursor .. cursor + fits - 1
             f == [s \in shown |-> Ordinal(s)]
  <2>1. IsFiniteSet(places) /\ Cardinality(places) = fits
    <3>1. /\ cursor \in Int /\ cursor + fits - 1 \in Int
          /\ ~ (cursor > cursor + fits - 1) /\ (cursor + fits - 1) - cursor + 1 = fits
      OBVIOUS
    <3>2. QED
      BY <3>1, FS_Interval
  <2>2. \A s \in shown : Ordinal(s) \in places
    BY <1>1
  <2>3. \A s, t \in shown : Ordinal(s) = Ordinal(t) => s = t
    BY <1>1
  <2> HIDE DEF shown, places
  <2>4. f \in [shown -> places] /\ \A s, t \in shown : f[s] = f[t] => s = t
    BY <2>2, <2>3
  <2> HIDE DEF f
  <2>5. f \in Injection(shown, places)
    BY <2>4 DEF Injection, IsInjective
  <2>6. IsFiniteSet(shown) /\ Cardinality(shown) <= fits
    BY <2>1, <2>5, FS_Injection
  <2>7. QED
    BY <2>6, FS_CardinalityType
<1>3. /\ p.items = {Item(s) : s \in shown} /\ p.next = cursor + n
      /\ p.more = HasMore(cursor, n)
  BY DEF Page
<1>more. p.more \in BOOLEAN /\ (p.more <=> cursor + n < total)
  <2>1. HasMore(cursor, n) \in BOOLEAN
    BY DEF HasMore
  <2>2. HasMore(cursor, n) <=> cursor + n < total
    BY DEF HasMore
  <2> HIDE DEF p, n, total
  <2>3. QED
    BY <1>3, <2>1, <2>2, Zenon
<1>4. ASSUME NEW s \in Occupied, cursor <= Ordinal(s), Ordinal(s) < cursor + n \/ ~ (cursor + n < total)
      PROVE  s \in shown
  <2> HIDE DEF n, total
  <2>1. Ordinal(s) < cursor + fits
    BY <1>1, <1>2, <1>4
  <2>2. QED
    BY <1>4, <2>1
<1> HIDE DEF n, p, total
<1>5. IsPage(p)
  <2>1. p.more => p.next <= Capacity
    BY <1>1, <1>2, <1>3, <1>more
  <2>2. p.next \in Nat
    BY <1>2, <1>3
  <2>3. QED
    BY <1>more, <2>1, <2>2 DEF IsPage
<1>6. Holds(p.items)
  BY <1>3 DEF Holds, Entries
<1>7. ASSUME NEW s \in Occupied, cursor <= Ordinal(s), Ordinal(s) < p.next \/ ~ p.more
      PROVE  Item(s) \in p.items
  <2>1. s \in shown
    BY <1>3, <1>4, <1>7, <1>more
  <2> HIDE DEF shown
  <2>2. QED
    BY <1>3, <2>1
<1>8. QED
  BY <1>5, <1>6, <1>7 DEF p

\* What the device puts into the pipe, and a page is of the slots as they are.
LEMMA DeviceAnswer ==
  ASSUME DeviceTypes, DeviceStep
  PROVE  \/ UNCHANGED <<out, inp>>
         \/ /\ out # NoRequest /\ out' = NoRequest
            /\ \/ inp' = inp
               \/ \E r : /\ inp' = Append(inp, r) /\ r.cmd = out.cmd
                         /\ r.cmd = "summaries" /\ r.status = "ok" =>
                              /\ slots' = slots
                              /\ \E fits \in Nat \ {0} : r.body = Page(out.cursor, fits)
<1> DEFINE New(r) == /\ inp' = Append(inp, r) /\ r.cmd = out.cmd
                     /\ r.cmd = "summaries" /\ r.status = "ok" =>
                          /\ slots' = slots
                          /\ \E fits \in Nat \ {0} : r.body = Page(out.cursor, fits)
           Goal == \/ UNCHANGED <<out, inp>>
                   \/ /\ out # NoRequest /\ out' = NoRequest
                      /\ inp' = inp \/ \E r : New(r)
<1>1. ASSUME NEW status, NEW body, Respond(out.cmd, status, body),
             out.cmd # "summaries" \/ status # "ok"
      PROVE  inp' = inp \/ \E r : New(r)
  <2>1. CASE inp' = inp
    BY <2>1
  <2>2. CASE inp' # inp
    <3>1. PICK cut \in BOOLEAN : inp' = Append(inp, [cmd |-> out.cmd, status |-> status,
                                                     body |-> body, cut |-> cut])
      BY <1>1, <2>2 DEF Respond
    <3> DEFINE r == [cmd |-> out.cmd, status |-> status, body |-> body, cut |-> cut]
    <3>2. r.cmd = out.cmd /\ r.status = status /\ inp' = Append(inp, r)
      BY <3>1
    <3> HIDE DEF r
    <3>3. New(r)
      BY <1>1, <3>2
    <3>4. QED
      BY <3>3
  <2>3. QED
    BY <2>1, <2>2
<1>2. CASE UNCHANGED <<out, inp>>
  BY <1>2
<1>3. CASE ~ UNCHANGED <<out, inp>>
  <2>1. /\ out # NoRequest /\ out' = NoRequest
        /\ \E status, body : Respond(out.cmd, status, body)
    BY <1>3, DeviceAnswers
  <2>2. CASE HandleSummaries
    <3>1. out.cmd = "summaries" /\ slots' = slots /\ PageLimit \in Nat
      BY <2>2, ChannelConstantsOK DEF HandleSummaries, Handle
    <3>2. CASE Respond("summaries", "auth_required", <<>>)
      BY <1>1, <2>1, <3>1, <3>2
    <3>3. CASE \E fits \in 1 .. PageLimit : Respond("summaries", "ok", Page(out.cursor, fits))
      <4>1. PICK fits \in 1 .. PageLimit : Respond("summaries", "ok", Page(out.cursor, fits))
        BY <3>3
      <4>2. CASE inp' = inp
        BY <2>1, <4>2
      <4>3. CASE inp' # inp
        <5> DEFINE b == Page(out.cursor, fits)
        <5> HIDE DEF b
        <5>1. PICK cut \in BOOLEAN : inp' = Append(inp, [cmd |-> "summaries", status |-> "ok",
                                                         body |-> b, cut |-> cut])
          BY <4>1, <4>3 DEF Respond, b
        <5> DEFINE r == [cmd |-> "summaries", status |-> "ok", body |-> b, cut |-> cut]
        <5>2. r.cmd = "summaries" /\ r.body = b /\ inp' = Append(inp, r)
          BY <5>1
        <5> HIDE DEF r
        <5>3. fits \in Nat \ {0}
          BY <3>1
        <5>4. \E f \in Nat \ {0} : r.body = Page(out.cursor, f)
          BY <5>2, <5>3 DEF b
        <5>5. New(r)
          BY <3>1, <5>2, <5>4
        <5>6. QED
          BY <2>1, <5>5
      <4>4. QED
        BY <4>2, <4>3
    <3>4. QED
      BY <2>2, <3>2, <3>3 DEF HandleSummaries
  <2>3. CASE Refuse
    <3>1. \E status \in {"unsupported_command", "invalid_request"} : Respond(out.cmd, status, <<>>)
      BY <2>3 DEF Refuse
    <3>2. QED
      BY <1>1, <2>1, <3>1
  <2>4. CASE HandleQuery \/ HandleDelete \/ HandleWriteUp \/ Confirmed \/ Unconfirmed
    <3>1. out.cmd # "summaries"
      BY <2>4 DEF HandleQuery, HandleDelete, HandleWriteUp, Handle, Confirmed, Unconfirmed,
                  DeviceTypes
    <3>2. QED
      BY <1>1, <2>1, <3>1
  <2>5. CASE HandleAuthorize \/ CtapBegin \/ CtapEnd \/ DebugClear
    BY <1>3, <2>5 DEF HandleAuthorize, CtapBegin, CtapEnd, DebugClear
  <2>6. QED
    BY <2>2, <2>3, <2>4, <2>5 DEF DeviceStep
<1>4. QED
  BY <1>2, <1>3

\* A new operation.
Starts(t, op, step, q) ==
  t.op = op /\ t.step = step /\ t.request = q /\ t.cursor = 0 /\ t.items = {} /\ t.again = FALSE

LEMMA Starting ==
  ASSUME NEW op, NEW s, NEW q, NEW step
  PROVE  LET t1 == Task(op)
             t2 == [Task(op) EXCEPT !.slot = s]
         IN  /\ Starts([t1 EXCEPT !.request = q], op, "command", q)
             /\ Starts([t1 EXCEPT !.step = step, !.request = q], op, step, q)
             /\ Starts([t2 EXCEPT !.step = step, !.request = q], op, step, q)
BY DEF Task, Starts

LEMMA StartsConsistent ==
  ASSUME NEW t, NEW op \in Ops, NEW step \in {"command", "authorize"}, NEW q, Starts(t, op, step, q),
         q.cmd = IF step = "authorize" THEN "authorize" ELSE CommandOf(op),
         q.cmd = "summaries" => q.cursor = 0
  PROVE  Consistent(t)
<1>1. 0 \in 0 .. Capacity
  BY ChannelConstantsOK
<1>2. QED
  BY <1>1 DEF Starts, Consistent

LEMMA Requests ==
  /\ \A cmd, token, cursor, slot, perms :
       LET q == Request(cmd, token, cursor, slot, perms) IN q.cmd = cmd /\ q.cursor = cursor
  /\ \A cursor : PageRequest(cursor).cmd = "summaries" /\ PageRequest(cursor).cursor = cursor
  /\ \A token, s : DeleteRequest(token, s).cmd = "delete"
  /\ \A token : WriteUpRequest(token).cmd = "write_up"
BY DEF Request, PageRequest, DeleteRequest, WriteUpRequest

LEMMA FetchStarts ==
  FetchWith => /\ link' = [phase |-> "writing", age |-> 0]
               /\ Starts(task', "catalog", "command", PageRequest(0)) /\ Consistent(task')
<1> DEFINE q == PageRequest(0)
<1>1. q.cmd = "summaries" /\ q.cursor = 0
  BY Requests
<1> HIDE DEF q
<1>2. Starts([Task("catalog") EXCEPT !.request = q], "catalog", "command", q)
  BY Starting
<1>3. FetchWith => Starts(task', "catalog", "command", q) /\ link' = [phase |-> "writing", age |-> 0]
  BY <1>2 DEF FetchWith, Send, q
<1>4. Starts(task', "catalog", "command", q) => Consistent(task')
  BY <1>1, StartsConsistent DEF Ops, CommandOf
<1>5. QED
  BY <1>3, <1>4 DEF q

\* An operation that begins with its authorization, if it needs one.
LEMMA AuthorizedStarts ==
  ASSUME NEW op \in AuthOps, NEW s, NEW p, NEW q, q.cmd = CommandOf(op) \/ ~ Usable(p),
         op # "catalog",
         \/ Authorized(Task(op), p, q)
         \/ Authorized([Task(op) EXCEPT !.slot = s], p, q)
  PROVE  Consistent(task') /\ task'.items = {} /\ task'.op = op
<1> DEFINE t1 == Task(op)
           t2 == [Task(op) EXCEPT !.slot = s]
           ask == Request("authorize", 0, 0, 0, {p})
<1>1. ask.cmd = "authorize" /\ op \in Ops
  BY Requests DEF AuthOps, Ops
<1> HIDE DEF ask
<1>2. \E step \in {"command", "authorize"}, r \in {ask, q} :
        /\ \E t \in {t1, t2} : task' = [t EXCEPT !.step = step, !.request = r]
        /\ IF step = "authorize" THEN r = ask ELSE r = q /\ Usable(p)
  <2>1. CASE Usable(p)
    BY <2>1 DEF Authorized, Send
  <2>2. CASE ~ Usable(p)
    BY <2>2 DEF Authorized, Send, ask
  <2>3. QED
    BY <2>1, <2>2
<1>3. PICK step \in {"command", "authorize"}, r \in {ask, q} :
        /\ \E t \in {t1, t2} : task' = [t EXCEPT !.step = step, !.request = r]
        /\ IF step = "authorize" THEN r = ask ELSE r = q /\ Usable(p)
  BY <1>2
<1>4. Starts(task', op, step, r)
  <2>1. /\ Starts([t1 EXCEPT !.step = step, !.request = r], op, step, r)
        /\ Starts([t2 EXCEPT !.step = step, !.request = r], op, step, r)
    BY Starting
  <2> HIDE DEF t1, t2
  <2>2. QED
    BY <1>3, <2>1
<1>5. r.cmd = IF step = "authorize" THEN "authorize" ELSE CommandOf(op)
  BY <1>1, <1>3
<1>6. r.cmd # "summaries"
  BY <1>5 DEF AuthOps, CommandOf
<1>7. Consistent(task')
  BY <1>1, <1>4, <1>5, <1>6, StartsConsistent
<1>8. QED
  BY <1>4, <1>7 DEF Starts

LEMMA BeginsConsistent ==
  Begins => /\ Consistent(task') /\ task'.items = {}
            /\ task'.op = "catalog" => FetchCatalog
<1>1. ASSUME Connect \/ FetchSecurity
      PROVE  Consistent(task') /\ task'.items = {} /\ task'.op # "catalog"
  <2> DEFINE q1 == Request("snapshot", 0, 0, 0, {})
             q2 == Request("security", 0, 0, 0, {})
  <2>1. q1.cmd = "snapshot" /\ q2.cmd = "security"
    BY Requests
  <2> HIDE DEF q1, q2
  <2>2. /\ Starts([Task("connect") EXCEPT !.request = q1], "connect", "command", q1)
        /\ Starts([Task("security") EXCEPT !.request = q2], "security", "command", q2)
    BY Starting
  <2>3. \/ Starts(task', "connect", "command", q1)
        \/ Starts(task', "security", "command", q2)
    BY <1>1, <2>2 DEF Connect, FetchSecurity, Send, q1, q2
  <2>4. Consistent(task')
    BY <2>1, <2>3, StartsConsistent DEF Ops, CommandOf
  <2>5. QED
    BY <2>3, <2>4 DEF Starts
<1>2. FetchCatalog => Consistent(task') /\ task'.items = {}
  BY FetchStarts DEF FetchCatalog, Starts
<1>3. RequestAuthorization => Consistent(task') /\ task'.items = {} /\ task'.op # "catalog"
  BY AuthorizedStarts DEF RequestAuthorization, AuthOps
<1>4. DeleteSlot => Consistent(task') /\ task'.items = {} /\ task'.op # "catalog"
  <2>1. "delete" \in AuthOps /\ CommandOf("delete") = "delete"
    BY DEF AuthOps, CommandOf
  <2>2. \A token, s : DeleteRequest(token, s).cmd = "delete"
    BY Requests
  <2>3. QED
    BY <2>1, <2>2, AuthorizedStarts DEF DeleteSlot
<1>5. WriteUserPresence => Consistent(task') /\ task'.items = {} /\ task'.op # "catalog"
  <2>1. "write_up" \in AuthOps /\ CommandOf("write_up") = "write_up"
    BY DEF AuthOps, CommandOf
  <2>2. \A token : WriteUpRequest(token).cmd = "write_up"
    BY Requests
  <2>3. QED
    BY <2>1, <2>2, AuthorizedStarts DEF WriteUserPresence
<1>6. QED
  BY <1>1, <1>2, <1>3, <1>4, <1>5, Zenon DEF Begins

\* The operation goes on with another command.
Continues(t, u, step, again, q) ==
  /\ u.op = t.op /\ u.cursor = t.cursor /\ u.items = t.items /\ u.slot = t.slot
  /\ u.step = step /\ u.again = again /\ u.request = q

LEMMA Continuing ==
  ASSUME NEW t, TaskShape(t), NEW step, NEW q
  PROVE  /\ Continues(t, [t EXCEPT !.step = step, !.request = q], step, t.again, q)
         /\ \A again : Continues(t, [t EXCEPT !.step = step, !.again = again, !.request = q],
                                 step, again, q)
BY DEF TaskShape, Continues

\* With the authorization, the operation goes on to its command.
LEMMA GoesOn ==
  ASSUME IsTask(task), task.op \in AuthOps, NEW token, GoOn(token)
  PROVE  \/ task.op = "authorize" /\ Stop
         \/ /\ task.op # "authorize" /\ link' = [phase |-> "writing", age |-> 0]
            /\ \E again, q :
                 /\ Continues(task, task', "command", again, q)
                 /\ again = IF task.op = "catalog" THEN TRUE ELSE task.again
                 /\ q.cmd = CommandOf(task.op)
                 /\ q.cmd = "summaries" => q.cursor = task.cursor
<1>1. TaskShape(task)
  BY DEF IsTask
<1>2. CASE task.op = "authorize"
  BY <1>2 DEF GoOn
<1>3. CASE task.op = "catalog"
  <2> DEFINE q == Request("summaries", token, task.cursor, 0, {})
  <2>1. q.cmd = "summaries" /\ q.cursor = task.cursor
    BY Requests
  <2>2. Send([task EXCEPT !.step = "command", !.again = TRUE, !.request = q])
    BY <1>3 DEF GoOn
  <2> HIDE DEF q
  <2>3. Continues(task, task', "command", TRUE, q)
    BY <1>1, <2>2, Continuing DEF Send
  <2>4. QED
    BY <1>3, <2>1, <2>2, <2>3 DEF Send, CommandOf
<1>4. CASE task.op = "delete"
  <2> DEFINE q == DeleteRequest(token, task.slot)
  <2>1. q.cmd = "delete"
    BY Requests
  <2>2. Send([task EXCEPT !.step = "command", !.request = q])
    BY <1>4 DEF GoOn
  <2> HIDE DEF q
  <2>3. Continues(task, task', "command", task.again, q)
    BY <1>1, <2>2, Continuing DEF Send
  <2>4. QED
    BY <1>4, <2>1, <2>2, <2>3 DEF Send, CommandOf
<1>5. CASE task.op = "write_up"
  <2> DEFINE q == WriteUpRequest(token)
  <2>1. q.cmd = "write_up"
    BY Requests
  <2>2. Send([task EXCEPT !.step = "command", !.request = q])
    BY <1>5 DEF GoOn
  <2> HIDE DEF q
  <2>3. Continues(task, task', "command", task.again, q)
    BY <1>1, <2>2, Continuing DEF Send
  <2>4. QED
    BY <1>5, <2>1, <2>2, <2>3 DEF Send, CommandOf
<1>6. QED
  BY <1>2, <1>3, <1>4, <1>5 DEF AuthOps

\* What an answer makes of the operation: it ends, goes on with the same page or the next
\* one, or the reading that follows a write begins.
LEMMA Heard ==
  ASSUME IsTask(task), Consistent(task), NEW r, r.cmd = task.request.cmd,
         r.cmd = "summaries" /\ r.status = "ok" => IsPage(r.body),
         HearAuthorization(r) \/ HearRefusal(r) \/ HearPage(r) \/ HearOther(r)
  PROVE  \/ Stop
         \/ /\ link' = [phase |-> "writing", age |-> 0]
            /\ Consistent(task') /\ Rank(task') > Rank(task)
<1>1. TaskShape(task) /\ Capacity \in Nat /\ task.cursor \in 0 .. Capacity
  BY ChannelConstantsOK DEF IsTask, Consistent
<1>2. ASSUME NEW step \in {"command", "authorize"}, NEW again \in BOOLEAN, NEW q,
             Continues(task, task', step, again, q), task.op \in AuthOps,
             q.cmd = IF step = "authorize" THEN "authorize" ELSE CommandOf(task.op),
             q.cmd = "summaries" => q.cursor = task.cursor
      PROVE  Consistent(task')
  BY <1>1, <1>2 DEF Continues, Consistent
<1>3. ASSUME task.op \in AuthOps \ {"authorize"}, NEW token, GoOn(token),
             task.step = "authorize" \/ (task.op = "catalog" /\ ~ task.again)
      PROVE  /\ link' = [phase |-> "writing", age |-> 0]
             /\ Consistent(task') /\ Rank(task') > Rank(task)
  <2>1. PICK again, q :
          /\ link' = [phase |-> "writing", age |-> 0]
          /\ Continues(task, task', "command", again, q)
          /\ again = IF task.op = "catalog" THEN TRUE ELSE task.again
          /\ q.cmd = CommandOf(task.op)
          /\ q.cmd = "summaries" => q.cursor = task.cursor
    BY <1>3, GoesOn
  <2>2. again \in BOOLEAN
    BY <2>1 DEF Consistent
  <2>3. Consistent(task')
    BY <1>2, <1>3, <2>1, <2>2
  <2>4. Rank(task') > Rank(task)
    <3>1. /\ task'.op = task.op /\ task'.cursor = task.cursor /\ task'.step = "command"
          /\ task.op = "catalog" => task'.again
      BY <2>1 DEF Continues
    <3> DEFINE base == (IF task.op \in {"delete", "write_up"} THEN 0 ELSE 3) + 3 * task.cursor
    <3>2. base \in Int
      BY <1>1
    <3>3. Rank(task') = base + 2
      BY <3>1 DEF Rank
    <3>4. Rank(task) = base + (IF task.step = "authorize" THEN 1 ELSE 0)
      BY <1>3 DEF Rank
    <3> HIDE DEF base
    <3>5. QED
      BY <3>2, <3>3, <3>4
  <2>5. QED
    BY <2>1, <2>3, <2>4
<1>4. CASE HearAuthorization(r)
  <2>1. task.step = "authorize" /\ task.op \in AuthOps /\ (Stop \/ GoOn(cached'.token))
    BY <1>4 DEF HearAuthorization, IsTask
  <2>2. CASE task.op = "authorize"
    BY <2>1, <2>2 DEF GoOn
  <2>3. QED
    BY <1>3, <2>1, <2>2
<1>5. CASE HearRefusal(r)
  <2> DEFINE q == Request("authorize", 0, 0, 0, {"credential_read"})
  <2>1. /\ task.op = "catalog" /\ task.step = "command"
        /\ \/ Stop
           \/ ~ task.again /\ GoOn(cached.token)
           \/ ~ task.again /\ Send([task EXCEPT !.step = "authorize", !.request = q])
    BY <1>5 DEF HearRefusal, MayRetry
  <2>2. task.op \in AuthOps \ {"authorize"} /\ q.cmd = "authorize"
    BY <2>1, Requests DEF AuthOps
  <2>3. CASE ~ task.again /\ GoOn(cached.token)
    BY <1>3, <2>1, <2>2, <2>3
  <2>4. CASE ~ task.again /\ Send([task EXCEPT !.step = "authorize", !.request = q])
    <3> HIDE DEF q
    <3>1. Continues(task, task', "authorize", task.again, q)
      BY <1>1, <2>4, Continuing DEF Send
    <3>2. Consistent(task')
      <4>1. task.again \in BOOLEAN
        BY DEF Consistent
      <4>2. QED
        BY <1>2, <2>2, <3>1, <4>1
    <3>3. Rank(task') > Rank(task)
      <4>1. /\ task'.op = task.op /\ task'.cursor = task.cursor /\ task'.step = "authorize"
        BY <3>1 DEF Continues
      <4> DEFINE base == 3 + 3 * task.cursor
      <4>2. base \in Int
        BY <1>1
      <4>3. Rank(task') = base + 1 /\ Rank(task) = base + 0
        BY <2>1, <2>4, <4>1 DEF Rank
      <4> HIDE DEF base
      <4>4. QED
        BY <4>2, <4>3
    <3>4. QED
      BY <2>4, <3>2, <3>3 DEF Send
  <2>5. QED
    BY <2>1, <2>3, <2>4
<1>6. CASE HearPage(r)
  <2> DEFINE n == r.body.next
             items == task.items \cup r.body.items
             q == PageRequest(n)
             t == [task EXCEPT !.cursor = n, !.items = items, !.again = FALSE, !.request = q]
  <2>1. /\ task.op = "catalog" /\ task.step = "command" /\ r.status = "ok"
        /\ Stop \/ (r.body.more /\ ~ (n <= task.cursor) /\ Send(t))
    BY <1>6 DEF HearPage
  <2>2. r.cmd = "summaries" /\ IsPage(r.body)
    BY <2>1 DEF Consistent, CommandOf
  <2>3. q.cmd = "summaries" /\ q.cursor = n
    BY Requests
  <2> HIDE DEF q, items
  <2>4. ASSUME r.body.more, ~ (n <= task.cursor), Send(t)
        PROVE  /\ link' = [phase |-> "writing", age |-> 0]
               /\ Consistent(task') /\ Rank(task') > Rank(task)
    <3>1. n \in Nat /\ n <= Capacity /\ n > task.cursor
      BY <1>1, <2>2, <2>4 DEF IsPage
    <3> HIDE DEF n
    <3>2. /\ task'.op = "catalog" /\ task'.step = "command" /\ task'.cursor = n
          /\ task'.again = FALSE /\ task'.request = q
      BY <1>1, <2>1, <2>4 DEF Send, TaskShape
    <3>3. Consistent(task')
      <4>1. /\ task'.request.cmd = "summaries" /\ task'.request.cursor = n
            /\ CommandOf(task'.op) = "summaries"
        BY <2>3, <3>2 DEF CommandOf
      <4>2. n \in 0 .. Capacity
        BY <1>1, <3>1
      <4>3. QED
        BY <3>2, <4>1, <4>2 DEF Consistent
    <3>4. Rank(task') > Rank(task)
      <4>1. Rank(task') = 3 + 3 * n + 0
        BY <3>2 DEF Rank
      <4>2. Rank(task) = 3 + 3 * task.cursor + (IF task.again THEN 2 ELSE 0)
        BY <2>1 DEF Rank
      <4>3. QED
        BY <1>1, <3>1, <4>1, <4>2
    <3>5. QED
      BY <2>4, <3>3, <3>4 DEF Send
  <2>5. QED
    BY <2>1, <2>4
<1>7. CASE HearOther(r)
  <2> DEFINE q == Request("security", 0, 0, 0, {})
  <2>1. q.cmd = "security"
    BY Requests
  <2> HIDE DEF q
  <2>2. /\ task.op # "catalog" /\ task.step = "command"
        /\ \/ Stop
           \/ task.op \in {"delete", "write_up"} /\ FetchWith
           \/ task.op \in {"delete", "write_up"} /\ Send([Task("security") EXCEPT !.request = q])
    BY <1>7, Zenon DEF HearOther, q
  <2>3. ASSUME task.op \in {"delete", "write_up"} PROVE Rank(task) = 2
    <3>1. task.cursor = 0
      BY <2>2 DEF Consistent
    <3>2. QED
      BY <2>2, <2>3, <3>1 DEF Rank
  <2>4. ASSUME NEW op \in {"catalog", "security"}, NEW p, Starts(task', op, "command", p)
        PROVE  Rank(task') >= 3
    <3>1. Rank(task') = 3 + 3 * 0 + (IF op = "security" THEN 2 ELSE 0)
      BY <2>4 DEF Rank, Starts
    <3>2. QED
      BY <3>1
  <2>5. CASE task.op \in {"delete", "write_up"} /\ FetchWith
    <3>1. Rank(task') >= 3
      BY <2>4, <2>5, FetchStarts
    <3>2. Rank(task') \in Int
      BY <2>5, FetchStarts DEF Starts, Rank
    <3>3. QED
      BY <2>3, <2>5, <3>1, <3>2, FetchStarts
  <2>6. CASE task.op \in {"delete", "write_up"} /\ Send([Task("security") EXCEPT !.request = q])
    <3>1. Starts(task', "security", "command", q)
      BY <2>6, Starting DEF Send
    <3>2. Consistent(task')
      BY <2>1, <3>1, StartsConsistent DEF Ops, CommandOf
    <3>3. Rank(task') >= 3 /\ Rank(task') \in Int
      BY <2>4, <3>1 DEF Starts, Rank
    <3>4. QED
      BY <2>3, <2>6, <3>2, <3>3 DEF Send
  <2>7. QED
    BY <2>2, <2>5, <2>6
<1>8. QED
  BY <1>4, <1>5, <1>6, <1>7

\* Each step and the pipes.
LEMMA PipeSteps ==
  ASSUME [Next]_vars
  PROVE  \/ DeviceAlone
         \/ Write /\ out' = task.request /\ inp' = inp
         \/ Stranger /\ inp' = inp
         \/ Gone /\ inp' = <<>> /\ out' = NoRequest
         \/ /\ Read \/ ReadPart
            /\ out' = out /\ inp # <<>> /\ inp' \in Rest
         \/ /\ ReadJoined
            /\ out' = out /\ inp # <<>> /\ inp' \in {Tail(inp), <<Garbage>> \o Tail(inp)}
         \/ /\ Begins \/ Disconnect \/ GiveUp \/ Tick \/ UNCHANGED vars
            /\ UNCHANGED <<out, inp>>
<1>1. CASE Write \/ Stranger
  BY <1>1 DEF Write, Stranger
<1>2. CASE Gone
  BY <1>2 DEF Gone, Unplug
<1>3. CASE Read \/ ReadPart \/ ReadJoined
  BY <1>3 DEF Read, ReadPart, ReadJoined, Rest
<1>4. CASE Begins
  BY <1>4, Beginning DEF device
<1>5. CASE Disconnect \/ GiveUp \/ Tick \/ UNCHANGED vars
  BY <1>5 DEF Disconnect, GiveUp, Tick, ChannelTick, vars, device
<1>6. QED
  BY <1>1, <1>2, <1>3, <1>4, <1>5 DEF Next, HostStep, Begins

LEMMA PageInit == Init => PageInv
BY ContentsEmpty DEF Init, ChannelInit, HostInit, PageInv, Pages, NoRequest

\* An operation in progress is no longer none.
LEMMA InProgress ==
  ASSUME HostTypes
  PROVE  /\ task = NoTask => link.phase = "idle"
         /\ task # NoTask => IsTask(task) /\ link.phase \in {"writing", "reading", "joining"}
BY DEF HostTypes, TaskTypes, IsTask, TaskShape, Ops, NoTask, NoLink

LEMMA PageInductive ==
  ASSUME GrantInv, DeviceTypes, HostTypes, PageInv, [Next]_vars
  PROVE  PageInv'
<1>1. Capacity \in Nat /\ IsResponses(inp)
  BY ChannelConstantsOK DEF GrantInv, Shape
<1>2. task' # NoTask => Consistent(task')
  <2>1. CASE UNCHANGED task \/ Stop \/ Disconnect
    BY <2>1 DEF PageInv, Stop, Disconnect
  <2>2. CASE Begins
    BY <2>2, BeginsConsistent
  <2>3. CASE Read
    <3> DEFINE r == Head(inp)
    <3>1. r \in Contents(inp) /\ task # NoTask
      BY <1>1, <2>3, ContentsTaken, InProgress DEF Read
    <3>2. IsTask(task) /\ Consistent(task)
      BY <3>1, InProgress DEF PageInv
    <3>3. r.cmd = "summaries" /\ r.status = "ok" => IsPage(r.body)
      BY <3>1 DEF PageInv, Pages
    <3>4. \/ Mismatch
          \/ /\ r.cmd = task.request.cmd
             /\ HearAuthorization(r) \/ HearRefusal(r) \/ HearPage(r) \/ HearOther(r)
      BY <2>3 DEF Read, IsAnswer
    <3> HIDE DEF r
    <3>5. QED
      BY <3>2, <3>3, <3>4, Heard DEF Mismatch, Stop
  <2>4. QED
    BY <2>1, <2>2, <2>3, TaskSteps
<1>3. out'.cmd = "summaries" => out'.cursor \in Nat
  <2>1. CASE DeviceAlone
    <3>1. out' = out \/ out' = NoRequest
      BY <2>1, DeviceAnswers DEF DeviceAlone
    <3>2. QED
      BY <3>1 DEF PageInv, NoRequest
  <2>2. CASE Write /\ out' = task.request
    <3>1. Consistent(task)
      BY <2>2, InProgress DEF Write, PageInv
    <3>2. QED
      BY <1>1, <2>2, <3>1 DEF Consistent
  <2>3. CASE Stranger
    <3>1. out' \in StrangeRequests
      BY <2>3 DEF Stranger
    <3>2. out'.cmd \in {"authorize", "delete", "unknown", "ping"}
      BY <3>1 DEF StrangeRequests, Request
    <3>3. QED
      BY <3>2
  <2>4. CASE out' = out \/ out' = NoRequest
    BY <2>4 DEF PageInv, NoRequest
  <2>5. QED
    BY <2>1, <2>2, <2>3, <2>4, PipeSteps
<1>4. \A r \in Pages(inp') : IsPage(r.body)
  <2>1. CASE Pages(inp') \subseteq Pages(inp)
    BY <2>1 DEF PageInv
  <2>2. CASE DeviceAlone
    <3>1. CASE inp' = inp
      BY <2>1, <3>1
    <3>2. CASE inp' # inp
      <4>1. PICK r : /\ inp' = Append(inp, r) /\ r.cmd = out.cmd
                     /\ r.cmd = "summaries" /\ r.status = "ok" =>
                          \E fits \in Nat \ {0} : r.body = Page(out.cursor, fits)
        BY <2>2, <3>2, DeviceAnswer DEF DeviceAlone
      <4>2. Contents(inp') = Contents(inp) \cup {r}
        BY <1>1, <4>1, ContentsAppended
      <4>3. r.cmd = "summaries" /\ r.status = "ok" => IsPage(r.body)
        BY <4>1, PageShows DEF PageInv
      <4>4. QED
        BY <4>2, <4>3 DEF Pages, PageInv
    <3>3. QED
      BY <3>1, <3>2
  <2>3. CASE inp # <<>> /\ inp' \in Rest \cup {Tail(inp), <<Garbage>> \o Tail(inp)}
    <3>1. Contents(inp') \subseteq Contents(inp) \cup {Garbage}
      BY <1>1, <2>3, Leaving
    <3>2. QED
      BY <2>1, <3>1 DEF Pages, Garbage
  <2>4. CASE inp' = <<>>
    BY <2>4, ContentsEmpty DEF Pages
  <2>5. CASE inp' = inp
    BY <2>1, <2>5
  <2>6. QED
    BY <2>2, <2>3, <2>4, <2>5, PipeSteps
<1>5. QED
  BY <1>2, <1>3, <1>4 DEF PageInv

\* No operation goes round in circles, whatever the device answers, for any number of
\* slots: a listing asks for each page at most twice, and for a further one each time.
THEOREM AdvanceCorrect == Spec => OperationsAdvance
<1> DEFINE Step == task # NoTask /\ link.phase = "reading" /\ link'.phase = "writing"
                     => Rank(task') > Rank(task) /\ task'.cursor <= Capacity
<1>1. ASSUME GrantInv, HostTypes, PageInv, PageInv', [Next]_vars
      PROVE  Step
  <2> SUFFICES ASSUME task # NoTask, link.phase = "reading", link'.phase = "writing"
               PROVE  Rank(task') > Rank(task) /\ task'.cursor <= Capacity
    OBVIOUS
  <2>1. ~ Stop
    BY DEF Stop, NoLink
  <2>2. Read
    <3>1. ~ Disconnect
      BY DEF Disconnect
    <3>2. ~ (link' = link) /\ link' # [phase |-> "reading", age |-> 0]
            /\ link' # [phase |-> "joining", age |-> 0]
      OBVIOUS
    <3>3. ~ (Tick /\ link' = [link EXCEPT !.age = @ + 1])
      <4>1. link \in [phase: {"writing", "reading", "joining"}, age: 0 .. TransferTimeout]
        BY <1>1 DEF HostTypes, TaskTypes, NoTask
      <4>2. QED
        BY <4>1
    <3>4. QED
      BY <1>1, <2>1, <3>1, <3>2, <3>3, TaskSteps
  <2> DEFINE r == Head(inp)
  <2>3. IsTask(task) /\ Consistent(task)
    BY <1>1, InProgress DEF PageInv
  <2>4. r.cmd = "summaries" /\ r.status = "ok" => IsPage(r.body)
    <3>1. r \in Contents(inp)
      BY <1>1, <2>2, ContentsTaken DEF Read, GrantInv, Shape
    <3>2. QED
      BY <1>1, <3>1 DEF PageInv, Pages
  <2>5. /\ r.cmd = task.request.cmd
        /\ HearAuthorization(r) \/ HearRefusal(r) \/ HearPage(r) \/ HearOther(r)
    BY <2>1, <2>2 DEF Read, IsAnswer, Mismatch
  <2> HIDE DEF r
  <2>6. Rank(task') > Rank(task) /\ Consistent(task')
    BY <2>1, <2>3, <2>4, <2>5, Heard
  <2>7. QED
    BY <2>6, ChannelConstantsOK DEF Consistent
<1>2. ASSUME GrantInv, HostTypes, PageInv, PageInv', [Next]_vars
      PROVE  [Step]_vars
  BY <1>1, <1>2
<1> HIDE DEF Step
<1>3. Spec => [][Step]_vars
  BY <1>2, ManagerInit, ManagerInductive, PageInit, PageInductive, PTL DEF Spec
<1>4. QED
  BY <1>3, Zenon DEF Step, OperationsAdvance

--------------------------------------------------------------------------------
(* Deletions                                                                 *)

\* What happens to the slots: nothing, a new credential, a deletion, or all go.
Adds    == /\ added' = added + 1
           /\ \E s \in Slots \ Occupied : slots' = [slots EXCEPT ![s] = Capacity + added']
Deletes == /\ out.cmd = "delete" /\ out # NoRequest /\ added' = added
           /\ \E s \in Occupied : slots' = [slots EXCEPT ![s] = Free]
Clears  == build.debugHid /\ added' = added /\ slots' = [s \in Slots |-> Free]

LEMMA SlotSteps ==
  ASSUME [Next]_vars
  PROVE  /\ build' = build
         /\ \/ UNCHANGED <<slots, added>>
            \/ DeviceAlone /\ (Adds \/ Deletes \/ Clears)
<1>1. ASSUME DeviceStep
      PROVE  build' = build /\ (UNCHANGED <<slots, added>> \/ Adds \/ Deletes \/ Clears)
  <2>1. CASE \/ Refuse \/ HandleQuery \/ HandleSummaries \/ HandleAuthorize \/ HandleWriteUp
             \/ Confirmed \/ Unconfirmed \/ CtapBegin
    BY <2>1 DEF Refuse, HandleQuery, HandleSummaries, HandleAuthorize, HandleWriteUp, Confirmed,
                Unconfirmed, CtapBegin
  <2>2. CASE HandleDelete
    <3>1. out.cmd = "delete" /\ out # NoRequest
      BY <2>2 DEF HandleDelete, Handle, NoRequest
    <3>2. slots' = slots \/ \E s \in Occupied : slots' = [slots EXCEPT ![s] = Free]
      BY <2>2 DEF HandleDelete
    <3>3. added' = added /\ build' = build
      BY <2>2 DEF HandleDelete
    <3>4. QED
      BY <3>1, <3>2, <3>3 DEF Deletes
  <2>3. CASE CtapEnd
    <3>1. \A s : IsFirstFree(s) => s \in Slots \ Occupied
      BY DEF IsFirstFree
    <3>2. QED
      BY <2>3, <3>1 DEF CtapEnd, Adds
  <2>4. CASE DebugClear
    BY <2>4 DEF DebugClear, Clears
  <2>5. QED
    BY <1>1, <2>1, <2>2, <2>3, <2>4 DEF DeviceStep
<1>2. CASE DeviceAlone
  BY <1>1, <1>2 DEF DeviceAlone
<1>3. CASE Begins
  BY <1>3, Beginning DEF device
<1>4. CASE \/ Write \/ Read \/ ReadPart \/ ReadJoined \/ GiveUp \/ Stranger \/ Disconnect
           \/ Gone \/ Tick \/ UNCHANGED vars
  BY <1>4 DEF Write, Read, ReadPart, ReadJoined, GiveUp, Stranger, Disconnect, Gone, Unplug,
              Tick, ChannelTick, vars, device
<1>5. QED
  BY <1>2, <1>3, <1>4 DEF Next, HostStep, Begins

LEMMA SlotsInit == Init => SlotsInv
<1> SUFFICES ASSUME Init PROVE SlotsInv
  OBVIOUS
<1>1. PICK held : slots = [s \in Slots |-> IF s \in held THEN s + 1 ELSE Free]
  BY DEF Init, ChannelInit
<1>2. Capacity \in Nat /\ added = 0
  BY ChannelConstantsOK DEF Init, ChannelInit
<1>3. \A s \in Slots : s \in Nat /\ s + 1 <= Capacity
  BY <1>2 DEF Slots
<1>4. \A s \in Slots : slots[s] = (IF s \in held THEN s + 1 ELSE 0)
  BY <1>1 DEF Free
<1>5. \A s \in Slots : slots[s] <= Capacity + added
  BY <1>2, <1>3, <1>4
<1>6. \A s, t \in Occupied : slots[s] = slots[t] => s = t
  <2>1. \A s \in Occupied : s \in Slots /\ slots[s] = s + 1
    BY <1>4 DEF Occupied, Free
  <2>2. QED
    BY <1>3, <2>1
<1>7. QED
  BY <1>5, <1>6 DEF SlotsInv

\* A registration leaves what the store has, and gives it something new.
LEMMA Adding ==
  ASSUME DeviceTypes, SlotsInv, Adds
  PROVE  /\ SlotsInv' /\ Entries \subseteq Entries' /\ Stored \subseteq Stored'
         /\ \A s \in Occupied' : \/ s \in Occupied /\ slots'[s] = slots[s]
                                 \/ slots'[s] \notin Stored
         /\ Occupied \subseteq Occupied'
<1>1. PICK s \in Slots \ Occupied : slots' = [slots EXCEPT ![s] = Capacity + added']
  BY DEF Adds
<1>2. /\ Capacity \in Nat /\ added \in Nat /\ added' = added + 1
      /\ slots \in [Slots -> Int] /\ slots[s] = Free
  BY <1>1, ChannelConstantsOK DEF DeviceTypes, Adds, Occupied
<1>3. /\ slots'[s] = Capacity + added + 1 /\ slots'[s] \in Nat /\ slots'[s] # Free
      /\ \A t \in Slots : t # s => slots'[t] = slots[t]
      /\ \A t \in Slots : slots[t] # slots'[s] /\ slots[t] <= Capacity + added
  <2>1. slots'[s] = Capacity + added + 1 /\ \A t \in Slots : t # s => slots'[t] = slots[t]
    BY <1>1, <1>2
  <2>2. \A t \in Slots : slots[t] \in Int /\ slots[t] <= Capacity + added
    BY <1>2 DEF SlotsInv
  <2>3. QED
    BY <1>2, <2>1, <2>2 DEF Free
<1>4. Occupied' = Occupied \cup {s} /\ \A t \in Occupied : t \in Slots /\ t # s
  BY <1>1, <1>3 DEF Occupied
<1>5. SlotsInv'
  <2>1. \A t \in Slots : slots'[t] <= Capacity + added'
    <3> TAKE t \in Slots
    <3>1. slots[t] \in Int /\ slots[t] <= Capacity + added
      BY <1>2, <1>3
    <3>2. slots'[t] = slots[t] \/ slots'[t] = Capacity + added + 1
      BY <1>3
    <3>3. QED
      BY <1>2, <3>1, <3>2
  <2>2. \A t, u \in Occupied' : slots'[t] = slots'[u] => t = u
    BY <1>3, <1>4 DEF SlotsInv
  <2>3. QED
    BY <2>1, <2>2 DEF SlotsInv
<1>6. Entries \subseteq Entries'
  BY <1>3, <1>4 DEF Entries, Item
<1>7. Stored \subseteq Stored'
  BY <1>3, <1>4 DEF Stored
<1>8. slots'[s] \notin Stored
  BY <1>3, <1>4 DEF Stored
<1>9. QED
  BY <1>3, <1>4, <1>5, <1>6, <1>7, <1>8

\* A deletion is seen from the credentials that are stored.
LEMMA Deleting ==
  ASSUME DeviceTypes, SlotsInv, Deletes
  PROVE  SlotsInv' /\ ~ (Stored \subseteq Stored')
<1>1. PICK s \in Occupied : slots' = [slots EXCEPT ![s] = Free]
  BY DEF Deletes
<1>2. /\ Capacity \in Nat /\ added \in Nat /\ added' = added
      /\ slots \in [Slots -> Int] /\ s \in Slots /\ Free = 0
  BY <1>1, ChannelConstantsOK DEF DeviceTypes, Deletes, Occupied, Free
<1>3. slots'[s] = Free /\ \A t \in Slots : t # s => slots'[t] = slots[t]
  BY <1>1, <1>2
<1>4. Occupied' = Occupied \ {s}
  BY <1>2, <1>3 DEF Occupied
<1>5. slots[s] \in Stored /\ slots[s] \notin Stored'
  <2>1. \A t \in Occupied' : t \in Occupied /\ t # s /\ slots'[t] = slots[t]
    BY <1>3, <1>4 DEF Occupied
  <2>2. \A t \in Occupied' : slots'[t] # slots[s]
    BY <1>1, <2>1 DEF SlotsInv
  <2>3. QED
    BY <1>1, <2>2 DEF Stored
<1>6. SlotsInv'
  <2>1. \A t \in Slots : slots'[t] <= Capacity + added'
    <3> TAKE t \in Slots
    <3>1. slots[t] <= Capacity + added /\ (slots'[t] = slots[t] \/ slots'[t] = 0)
      BY <1>2, <1>3 DEF SlotsInv
    <3>2. QED
      BY <1>2, <3>1
  <2>2. \A t \in Occupied' : t \in Occupied /\ slots'[t] = slots[t]
    BY <1>3, <1>4 DEF Occupied
  <2>3. QED
    BY <2>1, <2>2 DEF SlotsInv
<1>7. QED
  BY <1>5, <1>6

LEMMA SlotsInductive ==
  ASSUME DeviceTypes, SlotsInv, [Next]_vars
  PROVE  SlotsInv'
<1>1. CASE UNCHANGED <<slots, added>>
  BY <1>1 DEF SlotsInv, Occupied
<1>2. CASE Adds \/ Deletes
  BY <1>2, Adding, Deleting
<1>3. CASE Clears
  <2>1. Capacity + added' \in Nat /\ \A s \in Slots : slots'[s] = 0
    BY <1>3, ChannelConstantsOK DEF Clears, Free, DeviceTypes
  <2>2. Occupied' = {}
    BY <2>1 DEF Occupied, Free
  <2>3. QED
    BY <2>1, <2>2 DEF SlotsInv
<1>4. QED
  BY <1>1, <1>2, <1>3, SlotSteps

\* How many requests and answers are in the pipes.
Outstanding == Len(inp) + (IF out = NoRequest THEN 0 ELSE 1)

LEMMA PipeInductive ==
  ASSUME GrantInv, DeviceTypes, HostTypes, AnswersInv, PipeInv, [Next]_vars
  PROVE  PipeInv'
<1>1. /\ IsResponses(inp) /\ Len(inp) \in Nat
      /\ task = NoTask => link.phase = "idle"
      /\ link.phase = "reading" => Outstanding <= 2
      /\ link.phase # "reading" => Outstanding <= 1
  BY InProgress DEF GrantInv, Shape, IsResponses, PipeInv, Outstanding
<1>2. ASSUME link'.phase # "reading", Outstanding' <= 1
      PROVE  PipeInv'
  BY <1>2 DEF PipeInv, Outstanding
<1>3. CASE DeviceAlone
  <2>1. UNCHANGED <<link, task>>
    BY <1>3 DEF DeviceAlone
  <2>2. CASE UNCHANGED <<out, inp>>
    BY <2>1, <2>2 DEF PipeInv
  <2>3. CASE ~ UNCHANGED <<out, inp>>
    <3>1. /\ out # NoRequest /\ out' = NoRequest
          /\ inp' = inp \/ \E r : inp' = Append(inp, r) /\ r.cmd = out.cmd
      BY <1>3, <2>3, DeviceAnswer DEF DeviceAlone
    <3>2. CASE inp' = inp
      BY <1>1, <2>1, <3>1, <3>2 DEF PipeInv
    <3>3. CASE inp' # inp
      <4>1. PICK r : inp' = Append(inp, r) /\ r.cmd = out.cmd
        BY <3>1, <3>3
      <4>2. Len(inp') = Len(inp) + 1 /\ inp'[Len(inp')] = r
        BY <1>1, <4>1, Appending DEF Last
      <4>3. Len(inp') = 2 => inp'[2] = r
        BY <4>2
      <4>4. QED
        BY <1>1, <2>1, <3>1, <4>1, <4>2, <4>3 DEF PipeInv
    <3>4. QED
      BY <3>2, <3>3
  <2>4. QED
    BY <2>2, <2>3
<1>4. CASE Write /\ out' = task.request /\ inp' = inp
  <2>1. link.phase = "writing" /\ out = NoRequest /\ link'.phase = "reading" /\ task' = task
    BY <1>4 DEF Write, CanWrite
  <2>2. Len(inp) <= 1
    BY <1>1, <2>1 DEF Outstanding
  <2>3. QED
    BY <1>1, <1>4, <2>1, <2>2 DEF PipeInv
<1>5. CASE Stranger /\ inp' = inp
  <2>1. task = NoTask /\ ~ lost /\ link' = link
    BY <1>5 DEF Stranger
  <2>2. link'.phase = "idle" /\ inp = <<>>
    BY <1>1, <2>1 DEF AnswersInv
  <2>3. Outstanding' <= 1
    BY <1>5, <2>2 DEF Outstanding
  <2>4. QED
    BY <1>2, <2>2, <2>3
<1>6. CASE Gone /\ inp' = <<>> /\ out' = NoRequest
  BY <1>2, <1>6 DEF Gone, Stop, NoLink, Outstanding
<1>7. CASE (Read \/ ReadPart) /\ out' = out /\ inp # <<>> /\ inp' \in Rest
  <2>1. Len(inp') \in Nat /\ Len(inp') < Len(inp)
    BY <1>1, <1>7, Leaving
  <2>2. Outstanding' <= 1
    BY <1>1, <1>7, <2>1 DEF Outstanding
  <2>3. link'.phase # "reading"
    <3>1. Read => TaskMove
      <4>1. ASSUME Read PROVE IsTask(task)
        BY <4>1, InProgress DEF Read
      <4>2. Read => \E r : HearAuthorization(r) \/ HearRefusal(r) \/ HearPage(r)
                             \/ HearOther(r) \/ Mismatch
        BY DEF Read
      <4>3. QED
        BY <4>1, <4>2, Hearing
    <3>2. QED
      BY <1>7, <3>1 DEF TaskMove, Sends, Send, Stop, NoLink, ReadPart
  <2>4. QED
    BY <1>2, <2>2, <2>3
<1>8. CASE ReadJoined /\ out' = out /\ inp # <<>> /\ inp' \in {Tail(inp), <<Garbage>> \o Tail(inp)}
  <2>1. Len(inp') \in Nat /\ Len(inp') <= Len(inp)
    BY <1>1, <1>8, Leaving
  <2>2. link.phase = "joining" /\ link' = NoLink
    BY <1>8 DEF ReadJoined, Mismatch, Stop
  <2>3. Outstanding' <= 1
    BY <1>1, <1>8, <2>1, <2>2 DEF Outstanding
  <2>4. QED
    BY <1>2, <2>2, <2>3 DEF NoLink
<1>9. CASE /\ Begins \/ Disconnect \/ GiveUp \/ Tick \/ UNCHANGED vars
           /\ UNCHANGED <<out, inp>>
  <2>1. Outstanding' = Outstanding
    BY <1>9 DEF Outstanding
  <2>2. CASE Begins
    <3>1. link.phase = "idle" /\ link'.phase = "writing"
      BY <1>1, <2>2, Beginning DEF Sends, Send
    <3>2. QED
      BY <1>1, <1>2, <2>1, <3>1
  <2>3. CASE Disconnect \/ UNCHANGED vars
    BY <1>9, <2>3 DEF Disconnect, vars, host, PipeInv
  <2>4. CASE GiveUp
    <3>1. link' = NoLink /\ ~ CanGoOn
      BY <2>4 DEF GiveUp, Stop
    <3>2. link.phase = "reading" => inp = <<>>
      BY <3>1 DEF CanGoOn
    <3>3. Outstanding <= 1
      BY <1>1, <3>2 DEF Outstanding
    <3>4. QED
      BY <1>2, <2>1, <3>1, <3>3 DEF NoLink
  <2>5. CASE Tick
    <3>1. link'.phase = link.phase /\ task' = task
      <4>1. task' = task /\ link' = IF link.phase = "idle" THEN link ELSE [link EXCEPT !.age = @ + 1]
        BY <2>5 DEF Tick
      <4>2. link.phase # "idle" =>
              link \in [phase: {"writing", "reading", "joining"}, age: 0 .. TransferTimeout]
        BY DEF HostTypes, TaskTypes, NoLink
      <4>3. QED
        BY <4>1, <4>2
    <3>2. QED
      BY <1>9, <3>1 DEF PipeInv
  <2>6. QED
    BY <1>9, <2>2, <2>3, <2>4, <2>5
<1>10. QED
  BY <1>3, <1>4, <1>5, <1>6, <1>7, <1>8, <1>9, PipeSteps

\* What an answer makes of the catalog: nothing, or it is fetched anew, or a page is put
\* to the others, or shown with them if it is the last.
LEMMA HeardItems ==
  ASSUME IsTask(task), NEW r,
         HearAuthorization(r) \/ HearRefusal(r) \/ HearPage(r) \/ HearOther(r) \/ Mismatch
  PROVE  \/ /\ UNCHANGED <<listed, removed>>
            /\ \/ task' = NoTask
               \/ task'.items = task.items /\ task'.op = task.op /\ task'.cursor = task.cursor
               \/ task'.items = {} /\ task'.op # "catalog"
         \/ /\ UNCHANGED listed /\ removed' = [removed EXCEPT !.fetch = FALSE]
            /\ FetchWith /\ task.op = "delete" /\ task.step = "command"
         \/ /\ HearPage(r) /\ task.op = "catalog" /\ task.step = "command" /\ r.status = "ok"
            /\ \/ /\ UNCHANGED <<listed, removed>> /\ r.body.more
                  /\ \/ task' = NoTask
                     \/ /\ task'.items = task.items \cup r.body.items /\ task'.op = "catalog"
                        /\ task'.cursor = r.body.next
               \/ /\ task' = NoTask /\ listed' = task.items \cup r.body.items /\ ~ r.body.more
                  /\ removed' = [removed EXCEPT !.listed = removed.fetch]
<1>1. TaskShape(task)
  BY DEF IsTask
<1>2. ASSUME NEW token, GoOn(token), task.op \in AuthOps
      PROVE  \/ task' = NoTask
             \/ task'.items = task.items /\ task'.op = task.op /\ task'.cursor = task.cursor
  BY <1>2, GoesOn DEF Continues, Stop
<1>3. CASE HearAuthorization(r)
  <2>1. task.op \in AuthOps /\ UNCHANGED <<listed, removed>> /\ (Stop \/ GoOn(cached'.token))
    BY <1>3 DEF HearAuthorization, IsTask
  <2>2. QED
    BY <1>2, <2>1 DEF Stop
<1>4. CASE HearRefusal(r)
  <2> DEFINE q == Request("authorize", 0, 0, 0, {"credential_read"})
  <2>1. /\ task.op = "catalog" /\ UNCHANGED <<listed, removed>>
        /\ Stop \/ GoOn(cached.token) \/ Send([task EXCEPT !.step = "authorize", !.request = q])
    BY <1>4 DEF HearRefusal
  <2> HIDE DEF q
  <2>2. Send([task EXCEPT !.step = "authorize", !.request = q])
          => task'.items = task.items /\ task'.op = task.op /\ task'.cursor = task.cursor
    BY <1>1, Continuing DEF Continues, Send
  <2>3. QED
    BY <1>2, <2>1, <2>2 DEF AuthOps, Stop
<1>5. CASE HearPage(r)
  <2> DEFINE n == r.body.next
             items == task.items \cup r.body.items
             q == PageRequest(n)
             t == [task EXCEPT !.cursor = n, !.items = items, !.again = FALSE, !.request = q]
  <2>1. /\ task.op = "catalog" /\ task.step = "command" /\ r.status = "ok"
        /\ \/ /\ UNCHANGED <<listed, removed>> /\ r.body.more
              /\ Stop \/ Send(t)
           \/ /\ Stop /\ listed' = items /\ ~ r.body.more
              /\ removed' = [removed EXCEPT !.listed = removed.fetch]
    BY <1>5 DEF HearPage
  <2> HIDE DEF q, items, n
  <2>2. Send(t) => task'.items = items /\ task'.op = task.op /\ task'.cursor = n
    BY <1>1 DEF TaskShape, Send
  <2>3. QED
    BY <1>5, <2>1, <2>2 DEF Stop, items, n
<1>6. CASE HearOther(r)
  <2> DEFINE q == Request("security", 0, 0, 0, {})
  <2>1. /\ UNCHANGED listed /\ task.step = "command"
        /\ \/ task.op = "delete" /\ FetchWith
           \/ Send([Task("security") EXCEPT !.request = q]) /\ UNCHANGED removed
           \/ Stop /\ UNCHANGED removed
    BY <1>6, Zenon DEF HearOther, q
  <2> HIDE DEF q
  <2>2. Send([Task("security") EXCEPT !.request = q])
          => Starts(task', "security", "command", q)
    BY Starting DEF Send
  <2>3. QED
    BY <2>1, <2>2 DEF Stop, FetchWith, Starts
<1>7. CASE Mismatch
  BY <1>7 DEF Mismatch, Stop
<1>8. QED
  BY <1>3, <1>4, <1>5, <1>6, <1>7

LEMMA TruthInit == Init => TruthInv
BY ContentsEmpty DEF Init, ChannelInit, HostInit, TruthInv, Pages, Holds

\* A page that a deletion has overtaken is the first of the pipe, and goes with the answer
\* that is read.
LEMMA NoneOvertaken ==
  ASSUME GrantInv, PipeInv, link.phase = "reading", task.request.cmd = "delete",
         inp # <<>>, inp' \in Rest
  PROVE  Pages(inp') = {}
<1>1. IsResponses(inp) /\ Len(inp) \in Nat \ {0} /\ Len(inp) <= 2
  BY ContentsTaken DEF GrantInv, Shape, PipeInv
<1>2. CASE Len(inp) = 2
  <2>1. inp[2].cmd = "delete"
    BY <1>2 DEF PipeInv
  <2>2. Contents(inp') \subseteq {inp[2], Garbage}
    BY <1>1, <1>2, Leaving
  <2>3. QED
    BY <2>1, <2>2 DEF Pages, Garbage
<1>3. CASE Len(inp) = 1
  <2>1. Len(inp') = 0
    BY <1>1, <1>3, Leaving
  <2>2. Contents(inp') = {}
    BY <2>1 DEF Contents
  <2>3. QED
    BY <2>2 DEF Pages
<1>4. Len(inp) = 1 \/ Len(inp) = 2
  <2>1. \A n \in Nat \ {0} : n <= 2 => n = 1 \/ n = 2
    OBVIOUS
  <2>2. QED
    BY <1>1, <2>1
<1>5. QED
  BY <1>2, <1>3, <1>4

\* The pages in the pipe stay true, or are overtaken.
Overtaken == link.phase = "reading" /\ task.request.cmd = "delete"

LEMMA TruePages ==
  ASSUME GrantInv, DeviceTypes, HostTypes, PageInv, SlotsInv, PipeInv, TruthInv, [Next]_vars,
         ~ build.debugHid
  PROVE  \A r \in Pages(inp') : Holds(r.body.items)' \/ Overtaken'
<1>1. IsResponses(inp) /\ \A r \in Pages(inp) : Holds(r.body.items) \/ Overtaken
  BY DEF GrantInv, Shape, TruthInv, Overtaken
<1>2. CASE DeviceAlone
  <2>1. UNCHANGED <<link, task>> /\ DeviceStep
    BY <1>2 DEF DeviceAlone
  <2>2. CASE UNCHANGED <<slots, added>> \/ Adds
    <3>1. Entries \subseteq Entries'
      BY <2>2, Adding DEF Entries, Item, Occupied
    <3>2. \A r \in Pages(inp) : Holds(r.body.items)' \/ Overtaken'
      BY <1>1, <2>1, <3>1 DEF Holds, Overtaken
    <3>3. CASE inp' = inp
      BY <3>2, <3>3
    <3>4. CASE inp' # inp
      <4>1. PICK r : /\ inp' = Append(inp, r) /\ r.cmd = out.cmd
                     /\ r.cmd = "summaries" /\ r.status = "ok" =>
                          /\ slots' = slots
                          /\ \E fits \in Nat \ {0} : r.body = Page(out.cursor, fits)
        BY <2>1, <3>4, DeviceAnswer
      <4>2. Contents(inp') = Contents(inp) \cup {r}
        BY <1>1, <4>1, ContentsAppended
      <4>3. r.cmd = "summaries" /\ r.status = "ok" => Holds(r.body.items)
        BY <4>1, PageShows DEF PageInv
      <4>4. r.cmd = "summaries" /\ r.status = "ok" => Holds(r.body.items)'
        BY <3>1, <4>3 DEF Holds
      <4>5. QED
        BY <3>2, <4>2, <4>4 DEF Pages
    <3>5. QED
      BY <3>3, <3>4
  <2>3. CASE Deletes
    <3>1. out # NoRequest /\ out.cmd = "delete"
      BY <2>3 DEF Deletes
    <3>2. Pages(inp') \subseteq Pages(inp)
      <4>1. CASE inp' = inp
        BY <4>1
      <4>2. CASE inp' # inp
        <5>1. PICK r : inp' = Append(inp, r) /\ r.cmd = out.cmd
          BY <2>1, <4>2, DeviceAnswer
        <5>2. Contents(inp') = Contents(inp) \cup {r}
          BY <1>1, <5>1, ContentsAppended
        <5>3. QED
          BY <3>1, <5>1, <5>2 DEF Pages
      <4>3. QED
        BY <4>1, <4>2
    <3>3. Pages(inp) # {} => Overtaken'
      <4> SUFFICES ASSUME Pages(inp) # {} PROVE Overtaken'
        OBVIOUS
      <4>1. inp # <<>>
        BY ContentsEmpty DEF Pages
      <4>2. Len(inp) \in Nat \ {0}
        BY <1>1, <4>1, ContentsTaken
      <4>3. link.phase = "reading"
        BY <3>1, <4>2 DEF PipeInv
      <4>4. QED
        BY <2>1, <3>1, <4>3 DEF PipeInv, Overtaken
    <3>4. QED
      BY <3>2, <3>3
  <2>4. ~ Clears
    BY DEF Clears
  <2>5. QED
    BY <2>2, <2>3, <2>4, SlotSteps
<1>3. ASSUME ~ DeviceAlone PROVE Entries' = Entries
  BY <1>3, SlotSteps DEF Entries, Item, Occupied
<1>4. ASSUME ~ DeviceAlone, Pages(inp') \subseteq Pages(inp), Overtaken => Overtaken' \/ Pages(inp') = {}
      PROVE  \A r \in Pages(inp') : Holds(r.body.items)' \/ Overtaken'
  BY <1>1, <1>3, <1>4 DEF Holds
<1>5. CASE inp' = <<>>
  BY <1>5, ContentsEmpty DEF Pages
<1>6. CASE (Write \/ Stranger) /\ inp' = inp /\ ~ DeviceAlone
  BY <1>4, <1>6 DEF Write, Stranger, Overtaken
<1>7. CASE (Read \/ ReadPart) /\ inp # <<>> /\ inp' \in Rest /\ ~ DeviceAlone
  <2>1. Contents(inp') \subseteq Contents(inp) \cup {Garbage}
    BY <1>1, <1>7, Leaving
  <2>2. Pages(inp') \subseteq Pages(inp)
    BY <2>1 DEF Pages, Garbage
  <2>3. Overtaken => Pages(inp') = {}
    BY <1>7, NoneOvertaken DEF Overtaken
  <2>4. QED
    BY <1>4, <1>7, <2>2, <2>3
<1>8. CASE ReadJoined /\ inp # <<>> /\ inp' \in {Tail(inp), <<Garbage>> \o Tail(inp)} /\ ~ DeviceAlone
  <2>1. Contents(inp') \subseteq Contents(inp) \cup {Garbage}
    BY <1>1, <1>8, Leaving
  <2>2. Pages(inp') \subseteq Pages(inp)
    BY <2>1 DEF Pages, Garbage
  <2>3. ~ Overtaken
    BY <1>8 DEF ReadJoined, Overtaken
  <2>4. QED
    BY <1>4, <1>8, <2>2, <2>3
<1>9. CASE (Begins \/ Disconnect \/ GiveUp \/ Tick \/ UNCHANGED vars) /\ inp' = inp /\ ~ DeviceAlone
  <2>1. CASE Begins
    <3>1. ~ Overtaken
      BY <2>1, Beginning, InProgress DEF Overtaken
    <3>2. QED
      BY <1>4, <1>9, <3>1
  <2>2. CASE Disconnect \/ UNCHANGED vars
    BY <1>4, <1>9, <2>2 DEF Disconnect, vars, host, Overtaken
  <2>3. CASE GiveUp
    <3>1. Overtaken => inp = <<>>
      BY <2>3 DEF GiveUp, CanGoOn, Overtaken
    <3>2. Overtaken => Pages(inp') = {}
      BY <1>9, <3>1, ContentsEmpty DEF Pages
    <3>3. QED
      BY <1>4, <1>9, <3>2
  <2>4. CASE Tick
    <3>1. task' = task /\ link' = IF link.phase = "idle" THEN link ELSE [link EXCEPT !.age = @ + 1]
      BY <2>4 DEF Tick
    <3>2. link.phase # "idle" =>
            link \in [phase: {"writing", "reading", "joining"}, age: 0 .. TransferTimeout]
      BY DEF HostTypes, TaskTypes, NoLink
    <3>3. Overtaken => Overtaken'
      BY <3>1, <3>2 DEF Overtaken
    <3>4. QED
      BY <1>4, <1>9, <3>3
  <2>5. QED
    BY <1>9, <2>1, <2>2, <2>3, <2>4
<1>10. QED
  BY <1>2, <1>5, <1>6, <1>7, <1>8, <1>9, PipeSteps

LEMMA TruthInductive ==
  ASSUME GrantInv, DeviceTypes, HostTypes, PageInv, SlotsInv, PipeInv, TruthInv, [Next]_vars
  PROVE  TruthInv'
<1> DEFINE Type == removed \in [listed: BOOLEAN, fetch: BOOLEAN]
           Items == task # NoTask /\ ~ removed.fetch => Holds(task.items)
           Screen == ~ removed.listed => Holds(listed)
<1>1. Type /\ (~ build.debugHid => Items /\ Screen)
  BY DEF TruthInv
<1>2. build' = build
  BY SlotSteps
<1>3. ASSUME Type', ~ build.debugHid => Items' /\ Screen'
      PROVE  TruthInv'
  <2>1. ~ build.debugHid => \A r \in Pages(inp') : Holds(r.body.items)' \/ Overtaken'
    BY TruePages
  <2>2. QED
    BY <1>2, <1>3, <2>1 DEF TruthInv, Overtaken
<1>4. CASE DeviceAlone
  <2>1. /\ UNCHANGED <<task, listed>>
        /\ removed' = IF Stored \subseteq Stored' THEN removed ELSE [listed |-> TRUE, fetch |-> TRUE]
    BY <1>4 DEF DeviceAlone
  <2>2. Type'
    BY <1>1, <2>1
  <2>3. CASE UNCHANGED <<slots, added>> \/ Adds
    <3>1. Entries \subseteq Entries'
      BY <2>3, Adding DEF Entries, Item, Occupied
    <3>2. Stored \subseteq Stored'
      BY <2>3, Adding DEF Stored, Occupied
    <3>3. QED
      BY <1>1, <1>3, <2>1, <2>2, <3>1, <3>2 DEF Holds
  <2>4. CASE Deletes
    <3>1. removed' = [listed |-> TRUE, fetch |-> TRUE]
      BY <2>1, <2>4, Deleting
    <3>2. QED
      BY <1>3, <2>2, <3>1
  <2>5. CASE Clears
    BY <1>3, <2>2, <2>5 DEF Clears
  <2>6. QED
    BY <2>3, <2>4, <2>5, SlotSteps
<1>5. ASSUME ~ DeviceAlone PROVE Entries' = Entries
  BY <1>5, SlotSteps DEF Entries, Item, Occupied
<1>6. ASSUME ~ DeviceAlone, UNCHANGED <<task, listed, removed>>
      PROVE  TruthInv'
  BY <1>1, <1>3, <1>5, <1>6 DEF Holds
<1>7. ASSUME ~ DeviceAlone, Type', removed'.listed = removed.listed,
             listed' = listed \/ listed' = {}, task' = NoTask \/ task'.items = {}
      PROVE  TruthInv'
  BY <1>1, <1>3, <1>5, <1>7 DEF Holds
<1>8. ASSUME ~ DeviceAlone, UNCHANGED <<listed, removed>>, Stop
      PROVE  TruthInv'
  BY <1>1, <1>7, <1>8 DEF Stop
<1>9. CASE Read /\ ~ DeviceAlone
  <2> DEFINE r == Head(inp)
             items == task.items \cup r.body.items
  <2>1. task # NoTask /\ IsTask(task) /\ Consistent(task) /\ r \in Contents(inp)
    BY <1>9, InProgress, ContentsTaken DEF Read, PageInv, GrantInv, Shape
  <2>2. \/ Mismatch
        \/ /\ r.cmd = task.request.cmd
           /\ HearAuthorization(r) \/ HearRefusal(r) \/ HearPage(r) \/ HearOther(r)
    BY <1>9 DEF Read, IsAnswer
  <2>3. ASSUME HearPage(r), r.cmd = task.request.cmd, ~ build.debugHid, ~ removed.fetch
        PROVE  items \subseteq Entries
    <3>1. r.cmd = "summaries" /\ r.status = "ok"
      BY <2>1, <2>3 DEF HearPage, Consistent, CommandOf
    <3>2. r \in Pages(inp)
      BY <2>1, <3>1 DEF Pages
    <3> HIDE DEF r
    <3>3. Holds(r.body.items)
      BY <2>3, <3>1, <3>2 DEF TruthInv
    <3>4. QED
      BY <1>1, <2>1, <2>3, <3>3 DEF Holds
  <2> HIDE DEF r, items
  <2>4. CASE Mismatch
    BY <1>8, <1>9, <2>4 DEF Mismatch
  <2>5. CASE UNCHANGED <<listed, removed>> /\ task' = NoTask
    BY <1>1, <1>7, <1>9, <2>5
  <2>6. CASE UNCHANGED <<listed, removed>> /\ task'.items = task.items
    BY <1>1, <1>3, <1>5, <1>9, <2>1, <2>6 DEF Holds
  <2>7. CASE UNCHANGED <<listed, removed>> /\ task'.items = {}
    BY <1>1, <1>7, <1>9, <2>7
  <2>8. CASE UNCHANGED listed /\ removed' = [removed EXCEPT !.fetch = FALSE] /\ FetchWith
    <3>1. task'.items = {}
      BY <2>8, FetchStarts DEF Starts
    <3>2. Type' /\ removed'.listed = removed.listed
      BY <1>1, <2>8
    <3>3. QED
      BY <1>7, <1>9, <2>8, <3>1, <3>2
  <2>9. CASE /\ HearPage(r) /\ r.cmd = task.request.cmd
             /\ UNCHANGED <<listed, removed>> /\ task'.items = items
    BY <1>1, <1>3, <1>5, <1>9, <2>3, <2>9 DEF Holds
  <2>10. CASE /\ HearPage(r) /\ r.cmd = task.request.cmd /\ task' = NoTask
              /\ listed' = items /\ removed' = [removed EXCEPT !.listed = removed.fetch]
    <3>1. Type' /\ removed'.listed = removed.fetch
      BY <1>1, <2>10
    <3>2. QED
      BY <1>3, <1>5, <1>9, <2>3, <2>10, <3>1 DEF Holds
  <2>11. QED
    BY <2>1, <2>2, <2>4, <2>5, <2>6, <2>7, <2>8, <2>9, <2>10, HeardItems, Zenon DEF items
<1>10. CASE Begins /\ ~ DeviceAlone
  <2>1. listed' = listed /\ task'.items = {}
    BY <1>10, Beginning, BeginsConsistent
  <2>2. removed' = removed \/ removed' = [removed EXCEPT !.fetch = FALSE]
    BY <1>10 DEF Begins, Connect, FetchCatalog, FetchWith, FetchSecurity, RequestAuthorization,
                 DeleteSlot, WriteUserPresence
  <2>3. Type' /\ removed'.listed = removed.listed
    BY <1>1, <2>2
  <2>4. QED
    BY <1>7, <1>10, <2>1, <2>3
<1>11. CASE Disconnect /\ ~ DeviceAlone
  BY <1>1, <1>7, <1>11 DEF Disconnect
<1>12. CASE (GiveUp \/ ReadJoined \/ Gone) /\ ~ DeviceAlone
  BY <1>8, <1>12 DEF GiveUp, ReadJoined, Mismatch, Gone
<1>13. CASE (Write \/ ReadPart \/ Stranger \/ Tick \/ UNCHANGED vars) /\ ~ DeviceAlone
  BY <1>6, <1>13 DEF Write, ReadPart, Stranger, Tick, vars, host
<1>14. QED
  BY <1>4, <1>9, <1>10, <1>11, <1>12, <1>13 DEF Next, HostStep, Begins

\* All of it together.
ManagerInv ==
  /\ GrantInv /\ DeviceTypes /\ HostTypes /\ AnswersInv
  /\ PageInv /\ SlotsInv /\ PipeInv /\ TruthInv

LEMMA ManagerInvariant == Spec => []ManagerInv
<1>1. Init => ManagerInv
  <2>1. Init => AnswersInv
    BY DEF Init, ChannelInit, HostInit, NoLink, AnswersInv
  <2>2. Init => PipeInv
    BY ContentsEmpty DEF Init, ChannelInit, HostInit, NoLink, PipeInv
  <2>3. QED
    BY <2>1, <2>2, ManagerInit, PageInit, SlotsInit, TruthInit DEF ManagerInv
<1>2. ManagerInv /\ [Next]_vars => ManagerInv'
  BY ManagerInductive, AnswersInductive, PageInductive, SlotsInductive, PipeInductive,
     TruthInductive DEF ManagerInv
<1>3. QED
  BY <1>1, <1>2, PTL DEF Spec

\* Deleting by slot deletes what the catalog shows there, for any number of slots, however
\* late answers come, and whatever another program has asked for.
THEOREM DeletesCorrect == Spec => DeletesWhatIsListed
<1>1. ASSUME DeviceTypes, SlotsInv, TruthInv
      PROVE  \A s \in Slots, c \in Stored :
               /\ ~ build.debugHid /\ ~ removed.listed
               /\ slots[s] = c /\ slots'[s] = Free /\ s \in {entry[1] : entry \in listed}
               => <<s, c>> \in listed
  <2> SUFFICES ASSUME NEW s \in Slots, NEW c \in Stored,
                      ~ build.debugHid, ~ removed.listed, slots[s] = c,
                      s \in {entry[1] : entry \in listed}
               PROVE  <<s, c>> \in listed
    OBVIOUS
  <2>1. PICK entry \in listed : entry[1] = s
    OBVIOUS
  <2>2. PICK t \in Occupied : entry = <<t, slots[t]>>
    BY <1>1 DEF TruthInv, Holds, Entries, Item
  <2>3. t = s
    BY <2>1, <2>2
  <2>4. QED
    BY <2>1, <2>2, <2>3
<1>2. QED
  BY <1>1, ManagerInvariant, PTL DEF Spec, DeletesWhatIsListed, ManagerInv

--------------------------------------------------------------------------------
(* Listings                                                                  *)

\* What a step makes of the credentials that have been there all the while: each stays in
\* its slot, and its number in the catalog does not fall.
InPlace ==
  \A s \in Occupied' : slots'[s] \in present' =>
    /\ s \in Occupied /\ slots'[s] = slots[s] /\ slots[s] \in present
    /\ Ordinal(s) <= Ordinal(s)'

OrdinalsOK == IsFiniteSet(Occupied) /\ \A s \in Occupied : Ordinal(s) \in Nat

LEMMA OrdinalTypes == OrdinalsOK /\ OrdinalsOK'
<1>1. OrdinalsOK
  BY Ordinals DEF OrdinalsOK
<1>2. QED
  BY <1>1, PTL

LEMMA InPlaceCovers ==
  ASSUME InPlace, NEW cursor \in Nat, NEW items
  PROVE  /\ Covers(cursor, items) =>
              \A s \in Occupied' : slots'[s] \in present' /\ Ordinal(s)' < cursor => Item(s)' \in items
         /\ CoversAll(items) => \A s \in Occupied' : slots'[s] \in present' => Item(s)' \in items
<1> SUFFICES ASSUME NEW s \in Occupied', slots'[s] \in present'
             PROVE  /\ Covers(cursor, items) /\ Ordinal(s)' < cursor => Item(s)' \in items
                    /\ CoversAll(items) => Item(s)' \in items
  OBVIOUS
<1>1. /\ s \in Occupied /\ slots'[s] = slots[s] /\ slots[s] \in present
      /\ Ordinal(s) <= Ordinal(s)'
  BY DEF InPlace
<1>2. Ordinal(s)' < cursor => Ordinal(s) < cursor
  BY <1>1, OrdinalTypes DEF OrdinalsOK
<1>3. Item(s)' = Item(s)
  BY <1>1 DEF Item
<1>4. QED
  BY <1>1, <1>2, <1>3 DEF Covers, CoversAll

\* A step that only drops credentials from the history, and the steps of the device.
LEMMA StepsKeep ==
  ASSUME DeviceTypes, SlotsInv, CoverInv, [Next]_vars, ~ Deletes, DeviceAlone \/ ~ FetchWith
  PROVE  InPlace /\ present' \subseteq present /\ present' \subseteq Stored'
<1>1. ASSUME UNCHANGED slots, present' \subseteq present
      PROVE  InPlace /\ present' \subseteq Stored'
  <2>1. Occupied' = Occupied /\ Stored' = Stored /\ \A s : Ordinal(s)' = Ordinal(s)
    BY <1>1 DEF Occupied, Stored, Ordinal
  <2>2. present' \subseteq Stored'
    BY <1>1, <2>1 DEF CoverInv
  <2>3. InPlace
    BY <1>1, <2>1, OrdinalTypes DEF OrdinalsOK, InPlace
  <2>4. QED
    BY <2>2, <2>3
<1>2. CASE DeviceAlone
  <2>1. present' = present \cap Stored'
    BY <1>2 DEF DeviceAlone
  <2>2. CASE UNCHANGED <<slots, added>>
    BY <1>1, <2>1, <2>2
  <2>3. CASE Adds
    <3>1. /\ Occupied \subseteq Occupied'
          /\ \A s \in Occupied' : \/ s \in Occupied /\ slots'[s] = slots[s]
                                  \/ slots'[s] \notin Stored
      BY <2>3, Adding
    <3>2. \A s \in Occupied' : slots'[s] \in present' =>
             s \in Occupied /\ slots'[s] = slots[s] /\ slots[s] \in present
      BY <2>1, <3>1 DEF CoverInv
    <3>3. ASSUME NEW s \in Occupied PROVE Ordinal(s) <= Ordinal(s)'
      <4> DEFINE Below == {t \in Occupied : t < s}
      <4>1. IsFiniteSet(Occupied')
        BY OrdinalTypes DEF OrdinalsOK
      <4>2. Below' \in SUBSET Occupied' /\ Below \in SUBSET Below'
        BY <3>1
      <4>3. Cardinality(Below) <= Cardinality(Below')
        BY <4>1, <4>2, FS_Subset
      <4>4. QED
        BY <4>3 DEF Ordinal
    <3>4. QED
      BY <2>1, <3>2, <3>3 DEF InPlace
  <2>4. CASE Clears
    <3>1. Occupied' = {}
      BY <2>4 DEF Clears, Occupied
    <3>2. QED
      BY <2>1, <3>1 DEF InPlace
  <2>5. QED
    BY <2>2, <2>3, <2>4, SlotSteps
<1>3. CASE ~ DeviceAlone
  <2>1. slots' = slots
    BY <1>3, SlotSteps
  <2>2. present' \subseteq present
    <3>1. CASE Read
      <4>1. PICK r : HearAuthorization(r) \/ HearRefusal(r) \/ HearPage(r) \/ HearOther(r) \/ Mismatch
        BY <3>1 DEF Read
      <4>2. CASE HearAuthorization(r) \/ HearRefusal(r) \/ HearPage(r) \/ Mismatch
        <5>1. Watch \/ present' = present
          BY <4>2, Zenon DEF HearAuthorization, HearRefusal, HearPage, Mismatch
        <5>2. QED
          BY <5>1 DEF Watch
      <4>3. CASE HearOther(r)
        BY <1>3, <4>3 DEF HearOther, Watch
      <4>4. QED
        BY <4>1, <4>2, <4>3
    <3>2. CASE Begins
      BY <1>3, <3>2 DEF Begins, Connect, FetchCatalog, FetchSecurity, RequestAuthorization,
                        DeleteSlot, WriteUserPresence
    <3>3. CASE GiveUp \/ ReadJoined \/ Gone
      BY <3>3 DEF GiveUp, ReadJoined, Mismatch, Gone, Watch
    <3>4. CASE Write \/ ReadPart \/ Stranger \/ Disconnect \/ Tick \/ UNCHANGED vars
      BY <3>4 DEF Write, ReadPart, Stranger, Disconnect, Tick, vars, host
    <3>5. QED
      BY <1>3, <3>1, <3>2, <3>3, <3>4 DEF Next, HostStep, Begins
  <2>3. QED
    BY <1>1, <2>1, <2>2
<1>4. QED
  BY <1>2, <1>3

LEMMA CoverInit == Init => CoverInv
BY DEF Init, ChannelInit, HostInit, CoverInv

\* A page that is answered covers the credentials of its numbers.
LEMMA PageCovers ==
  ASSUME NEW cursor \in Nat, NEW fits \in Nat \ {0}, NEW items, Covers(cursor, items)
  PROVE  LET p == Page(cursor, fits)
         IN  /\ Covers(p.next, items \cup p.items)
             /\ ~ p.more => CoversAll(items \cup p.items)
<1> DEFINE p == Page(cursor, fits)
<1>1. \A s \in Occupied :
        cursor <= Ordinal(s) /\ (Ordinal(s) < p.next \/ ~ p.more) => Item(s) \in p.items
  BY PageShows
<1> HIDE DEF p
<1>2. \A s \in Occupied : Ordinal(s) < cursor \/ cursor <= Ordinal(s)
  BY OrdinalTypes DEF OrdinalsOK
<1>3. QED
  BY <1>1, <1>2 DEF Covers, CoversAll, p

LEMMA CoverInductive ==
  ASSUME ManagerInv, ManagerInv', CoverInv, [Next]_vars
  PROVE  CoverInv'
<1> DEFINE Catalog == ~ lost /\ task # NoTask /\ task.op = "catalog"
           Under(r) == LET items == task.items \cup r.body.items
                       IN  /\ Covers(r.body.next, items)
                           /\ ~ r.body.more => CoversAll(items)
           Fetched == Covers(task.cursor, task.items)
<1>1. /\ DeviceTypes /\ HostTypes /\ PageInv /\ SlotsInv /\ AnswersInv /\ IsResponses(inp)
      /\ AnswersInv' /\ Capacity \in Nat
  BY ChannelConstantsOK DEF ManagerInv, GrantInv, Shape
<1>2. Catalog => Fetched /\ \A r \in Pages(inp) : Under(r)
  BY DEF CoverInv
<1>3. ASSUME present' \subseteq Stored', Catalog' => Fetched' /\ \A r \in Pages(inp') : Under(r)'
      PROVE  CoverInv'
  BY <1>3 DEF CoverInv
<1>4. link'.phase # "reading" /\ ~ lost' => Pages(inp') = {}
  BY <1>1, ContentsEmpty DEF AnswersInv, Pages
<1>5. CASE FetchWith /\ ~ DeviceAlone
  <2>1. /\ task'.cursor = 0 /\ link'.phase = "writing"
    BY <1>5, FetchStarts DEF Starts
  <2>2. Stored' = Stored /\ present' = Stored
    BY <1>5, SlotSteps DEF FetchWith, Stored, Occupied
  <2>3. Fetched'
    BY <2>1, OrdinalTypes DEF Covers, OrdinalsOK
  <2>4. ~ lost' => Pages(inp') = {}
    BY <1>4, <2>1
  <2>5. QED
    BY <1>3, <2>2, <2>3, <2>4
<1>6. CASE Deletes
  <2>1. DeviceAlone
    <3>1. ~ UNCHANGED slots
      BY <1>1, <1>6, Deleting DEF Stored, Occupied
    <3>2. QED
      BY <3>1, SlotSteps
  <2>2. present' \subseteq Stored' /\ UNCHANGED <<task, lost>>
    BY <2>1 DEF DeviceAlone
  <2>3. ~ Catalog
    <3> SUFFICES ASSUME Catalog PROVE FALSE
      OBVIOUS
    <3>1. out = task.request /\ out.cmd = "delete"
      BY <1>1, <1>6 DEF Deletes, AnswersInv
    <3>2. Consistent(task) /\ task.op = "catalog"
      BY <1>1 DEF PageInv
    <3>3. QED
      BY <3>1, <3>2 DEF Consistent, CommandOf
  <2>4. QED
    BY <1>3, <2>2, <2>3
<1>7. CASE ~ Deletes /\ (DeviceAlone \/ ~ FetchWith)
  <2>1. InPlace /\ present' \subseteq Stored'
    BY <1>1, <1>7, StepsKeep
  <2>2. SUFFICES ASSUME Catalog' PROVE Fetched' /\ \A r \in Pages(inp') : Under(r)'
    BY <1>3, <2>1
  <2>3. ASSUME NEW cursor \in Nat, NEW items
        PROVE  /\ Covers(cursor, items) =>
                    \A s \in Occupied' : slots'[s] \in present' /\ Ordinal(s)' < cursor
                                           => Item(s)' \in items
               /\ CoversAll(items) => \A s \in Occupied' : slots'[s] \in present' => Item(s)' \in items
    BY <2>1, InPlaceCovers
  <2>4. ASSUME Consistent(task), UNCHANGED task, Fetched PROVE Fetched'
    <3>1. task.cursor \in Nat
      BY <1>1, <2>4 DEF Consistent
    <3>2. QED
      BY <2>3, <2>4, <3>1 DEF Covers
  <2>5. ASSUME UNCHANGED task, NEW r, IsPage(r.body), Under(r) PROVE Under(r)'
    <3>1. r.body.next \in Nat
      BY <2>5 DEF IsPage
    <3> DEFINE items == task.items \cup r.body.items
    <3>2. items' = items
      BY <2>5
    <3> HIDE DEF items
    <3>3. Covers(r.body.next, items) => Covers(r.body.next, items)'
      BY <2>3, <3>1, <3>2 DEF Covers
    <3>4. CoversAll(items) => CoversAll(items)'
      BY <2>3, <3>1, <3>2 DEF CoversAll
    <3>5. QED
      BY <2>5, <3>3, <3>4 DEF items
  <2>6. task # NoTask => Consistent(task)
    BY <1>1 DEF PageInv
  <2>7. ASSUME UNCHANGED <<task, lost>>, Pages(inp') \subseteq Pages(inp)
        PROVE  Fetched' /\ \A r \in Pages(inp') : Under(r)'
    <3>1. Catalog /\ Consistent(task)
      BY <2>2, <2>6, <2>7
    <3>2. \A r \in Pages(inp) : IsPage(r.body)
      BY <1>1 DEF PageInv
    <3> HIDE DEF Catalog, Under, Fetched
    <3>3. QED
      BY <1>2, <2>4, <2>5, <2>7, <3>1, <3>2
  <2>8. CASE DeviceAlone
    <3>1. UNCHANGED <<task, lost>> /\ DeviceStep
      BY <2>8 DEF DeviceAlone
    <3>2. CASE inp' = inp
      BY <2>7, <3>1, <3>2
    <3>3. CASE inp' # inp
      <4>1. PICK r : /\ out # NoRequest /\ inp' = Append(inp, r) /\ r.cmd = out.cmd
                     /\ r.cmd = "summaries" /\ r.status = "ok" =>
                          \E fits \in Nat \ {0} : r.body = Page(out.cursor, fits)
        BY <1>1, <3>1, <3>3, DeviceAnswer
      <4>2. Contents(inp') = Contents(inp) \cup {r}
        BY <1>1, <4>1, ContentsAppended
      <4>3. Catalog /\ Consistent(task)
        BY <2>2, <2>6, <3>1
      <4>4. out = task.request /\ inp = <<>> /\ task.cursor \in Nat
        BY <1>1, <4>1, <4>3 DEF AnswersInv, Consistent
      <4>5. Pages(inp') \subseteq {r}
        BY <4>2, <4>4, ContentsEmpty DEF Pages
      <4>6. ASSUME r.cmd = "summaries", r.status = "ok" PROVE Under(r)'
        <5>1. PICK fits \in Nat \ {0} : r.body = Page(task.cursor, fits)
          BY <4>1, <4>3, <4>4, <4>6 DEF Consistent
        <5>2. Under(r)
          BY <1>2, <4>3, <4>4, <5>1, PageCovers
        <5>3. IsPage(r.body)
          BY <4>4, <5>1, PageShows
        <5> HIDE DEF Under
        <5>4. QED
          BY <2>5, <3>1, <5>2, <5>3
      <4>7. Fetched'
        BY <1>2, <2>4, <3>1, <4>3
      <4> HIDE DEF Under, Fetched
      <4>8. QED
        BY <4>5, <4>6, <4>7 DEF Pages
    <3>4. QED
      BY <3>2, <3>3
  <2>9. CASE Read /\ ~ DeviceAlone
    <3> DEFINE r == Head(inp)
               items == task.items \cup r.body.items
    <3>1. task # NoTask /\ IsTask(task) /\ Consistent(task) /\ r \in Contents(inp) /\ lost' = lost
      BY <1>1, <2>6, <2>9, InProgress, ContentsTaken DEF Read
    <3>2. \/ Mismatch
          \/ /\ r.cmd = task.request.cmd
             /\ HearAuthorization(r) \/ HearRefusal(r) \/ HearPage(r) \/ HearOther(r)
      BY <2>9 DEF Read, IsAnswer
    <3>3. Pages(inp') = {}
      <4>1. TaskMove
        BY <3>1, <3>2, Hearing
      <4>2. QED
        BY <1>4, <2>2, <4>1 DEF TaskMove, Sends, Send, Stop, NoLink
    <3>4. ASSUME HearPage(r), r.cmd = task.request.cmd, task.op = "catalog", r.status = "ok"
          PROVE  Covers(r.body.next, items) /\ r.body.next \in Nat
      <4>1. r.cmd = "summaries"
        BY <3>1, <3>4 DEF HearPage, Consistent, CommandOf
      <4>2. r \in Pages(inp)
        BY <3>1, <3>4, <4>1 DEF Pages
      <4> HIDE DEF r
      <4>3. Under(r) /\ IsPage(r.body)
        BY <1>1, <1>2, <2>2, <3>1, <3>4, <4>2 DEF PageInv
      <4>4. QED
        BY <4>3 DEF IsPage
    <3> HIDE DEF r, items
    <3>5. task' # NoTask /\ task'.op = "catalog"
      BY <2>2
    <3>6. CASE task'.items = task.items /\ task'.op = task.op /\ task'.cursor = task.cursor
      <4>1. Covers(task.cursor, task.items) /\ task.cursor \in Nat
        BY <1>1, <1>2, <2>2, <3>1, <3>6 DEF Consistent
      <4>2. Fetched'
        BY <2>3, <3>6, <4>1 DEF Covers
      <4>3. QED
        BY <3>3, <4>2
    <3>7. CASE /\ HearPage(r) /\ r.cmd = task.request.cmd /\ task.op = "catalog" /\ r.status = "ok"
               /\ task'.items = items /\ task'.cursor = r.body.next
      <4>1. Covers(r.body.next, items) /\ r.body.next \in Nat
        BY <3>4, <3>7
      <4>2. Fetched'
        BY <2>3, <3>7, <4>1 DEF Covers
      <4>3. QED
        BY <3>3, <4>2
    <3>8. QED
      BY <1>7, <2>9, <3>1, <3>2, <3>5, <3>6, <3>7, HeardItems, Zenon DEF Mismatch, Stop, items
  <2>10. CASE Begins /\ ~ DeviceAlone
    <3>1. ~ FetchCatalog
      BY <1>7, <2>10 DEF FetchCatalog
    <3>2. QED
      BY <2>2, <2>10, <3>1, BeginsConsistent
  <2>11. CASE GiveUp \/ ReadJoined \/ Gone
    BY <2>2, <2>11 DEF GiveUp, ReadJoined, Mismatch, Gone, Stop
  <2>12. CASE ReadPart \/ Stranger
    BY <1>1, <2>2, <2>12 DEF ReadPart, Stranger, AnswersInv
  <2>13. CASE Write \/ Disconnect \/ Tick \/ UNCHANGED vars
    BY <2>7, <2>13 DEF Write, Disconnect, Tick, ChannelTick, vars, host, device
  <2>14. QED
    BY <2>8, <2>9, <2>10, <2>11, <2>12, <2>13 DEF Next, HostStep, Begins
<1>8. QED
  BY <1>5, <1>6, <1>7

\* A listing shows every credential that was there from its beginning to its end, for any
\* number of slots and any sizes of pages, whatever is registered between them.
THEOREM CatalogCorrect == Spec => CatalogIsComplete
<1> DEFINE Step == task.op = "catalog" /\ task' = NoTask /\ inp' # inp /\ session' = "open"
                     /\ Head(inp).cmd = "summaries" /\ Head(inp).status = "ok"
                     /\ ~ Head(inp).body.more /\ ~ lost
                     => present \subseteq {entry[2] : entry \in listed'}
<1>1. ASSUME ManagerInv, CoverInv, [Next]_vars PROVE Step
  <2> DEFINE r == Head(inp)
             items == task.items \cup r.body.items
  <2> SUFFICES ASSUME task.op = "catalog", task' = NoTask, inp' # inp, session' = "open",
                      r.cmd = "summaries", r.status = "ok", ~ r.body.more, ~ lost
               PROVE  present \subseteq {entry[2] : entry \in listed'}
    OBVIOUS
  <2>1. /\ HostTypes /\ AnswersInv /\ PageInv /\ IsResponses(inp)
        /\ task # NoTask
    BY <1>1 DEF ManagerInv, GrantInv, Shape, NoTask
  <2>2. IsTask(task) /\ Consistent(task)
    BY <2>1, InProgress DEF PageInv
  <2>3. Read
    <3>1. ~ DeviceAlone /\ ~ Stranger /\ ~ Gone /\ ~ ReadJoined
      BY <2>1 DEF DeviceAlone, Stranger, Gone, ReadJoined, AnswersInv
    <3>2. ~ ReadPart
      BY <2>1 DEF ReadPart
    <3>3. QED
      BY <1>1, <3>1, <3>2, PipeSteps
  <2>4. inp # <<>> /\ r \in Contents(inp) /\ r.cmd = task.request.cmd
    BY <2>1, <2>3, ContentsTaken DEF Read, AnswersInv
  <2>5. HearPage(r)
    <3>1. HearAuthorization(r) \/ HearRefusal(r) \/ HearPage(r) \/ HearOther(r)
      BY <2>3, <2>4 DEF Read, IsAnswer
    <3>2. task.step # "authorize"
      BY <2>2, <2>4 DEF Consistent
    <3>3. QED
      BY <3>1, <3>2 DEF HearAuthorization, HearRefusal, HearOther
  <2>6. listed' = items
    BY <2>5 DEF HearPage
  <2>7. CoversAll(items) /\ present \subseteq Stored
    <3>1. r \in Pages(inp)
      BY <2>4 DEF Pages
    <3> HIDE DEF r
    <3>2. QED
      BY <1>1, <2>1, <3>1 DEF CoverInv
  <2> HIDE DEF items, r
  <2>8. ASSUME NEW c \in present PROVE \E entry \in items : entry[2] = c
    <3>1. PICK s \in Occupied : slots[s] = c
      BY <2>7 DEF Stored
    <3>2. <<s, c>> \in items
      BY <2>7, <3>1 DEF CoversAll, Item
    <3>3. QED
      BY <3>2
  <2>9. QED
    BY <2>6, <2>8
<1>2. ManagerInv /\ CoverInv /\ [Next]_vars => [Step]_vars
  BY <1>1
<1>3. QED
  BY <1>2, ManagerInvariant, CoverInit, CoverInductive, PTL DEF Spec, CatalogIsComplete

================================================================================
