-------------------------------- MODULE WebAuthn --------------------------------
(***************************************************************************)
(* authenticatorMakeCredential, authenticatorGetAssertion and              *)
(* authenticatorGetNextAssertion: src/src/webauthn.c, with the slots of    *)
(* the credential store they work on and the manager that deletes          *)
(* credentials between two commands.                                       *)
(*                                                                         *)
(* A command runs to its end in the main loop, in one step, or in two when *)
(* it waits for the user: nothing but the clock moves meanwhile.           *)
(*                                                                         *)
(* Abstractions.  A request is what its fields tell apart: the relying     *)
(* party, the client data and the first entry of the allow list, and the   *)
(* retry key, a hash of the parsed request, is the request itself.  A      *)
(* request that does not parse or whose PIN token is refused is rejected   *)
(* at will; the keys, the signature and the extensions either succeed or   *)
(* fail.  A change that the store refuses is undone.  A power-up finds the *)
(* credentials that the store has acknowledged, but it may find any of     *)
(* their counters behind the last that was acknowledged: CredentialStore   *)
(* says when, and here it may happen at any power-up.                      *)
(***************************************************************************)
EXTENDS Integers, Sequences, FiniteSets, SequencesExt

CONSTANTS
  Rps,            \* relying parties
  Hashes,         \* client data hashes
  Capacity,       \* MEOWKEY_STORE_MAX_CREDENTIALS
  PendingMax,     \* MEOWKEY_PENDING_ASSERTION_MAX_CREDENTIALS
  PendingTimeout, \* MEOWKEY_PENDING_ASSERTION_TIMEOUT_MS, in ticks
  ReuseWindow,    \* MEOWKEY_ASSERTION_UP_REUSE_WINDOW_MS, in ticks
  ClockPeriod,    \* board_millis is a uint32_t: 2^32 ms, in ticks
  PresenceOn,     \* FALSE when the user-presence source is NONE
  MaxMade,        \* bound: credentials made
  MaxCount        \* bound: the signature counters

ASSUME ConstantsOK ==
  /\ Capacity \in Nat \ {0} /\ PendingMax \in Nat \ {0}
  /\ PendingTimeout \in Nat /\ ReuseWindow \in Nat
  /\ ClockPeriod \in Nat /\ PendingTimeout < ClockPeriod /\ ReuseWindow < ClockPeriod
  /\ PresenceOn \in BOOLEAN /\ MaxMade \in Nat \ {0} /\ MaxCount \in Nat

VARIABLES
  slots,     \* the credential slots of the store
  pending,   \* s_pending_assertion
  recent,    \* s_recent_assertion_up
  waiting,   \* the command that waits for the user, or Nothing
  now,       \* board_millis
  made,      \* credentials made so far; the next one has the number made + 1
  \* history
  listed,    \* of the last getAssertion: the credentials announced and those delivered
  grant,     \* the confirmation that `recent` stems from: its request, age and uses
  signed,    \* how many assertions each credential has given, since a power-up last put its
             \* counter back
  released   \* the counter of the last of them

code    == <<slots, pending, recent, waiting, made>>
history == <<listed, grant, signed, released>>
vars    == <<code, now, history>>

Nothing   == [op |-> "none"]
Free      == [id |-> 0, rp |-> "none", discoverable |-> FALSE, count |-> 0]
Slots     == 0 .. Capacity - 1
Ids       == 1 .. MaxMade
Requests  == [rp : Rps, hash : Hashes, allow : 0 .. MaxMade]  \* allow 0: no allow list
NoPending == [active |-> FALSE, req |-> Nothing, list |-> <<>>, next |-> 0, usedAt |-> 0]
NoRecent  == [active |-> FALSE, key |-> Nothing, at |-> 0]
NoList    == [announced |-> <<>>, delivered |-> <<>>]
NoGrant   == [key |-> Nothing, age |-> 0, uses |-> 0]

Since(t)  == (now - t) % ClockPeriod

--------------------------------------------------------------------------------
\* A credential that an older firmware made need not be discoverable.
Init ==
  /\ \E old \in {{}} \cup {{[id |-> 1, rp |-> r, discoverable |-> FALSE, count |-> 0]} : r \in Rps} :
       /\ slots = [s \in Slots |-> IF s = 0 /\ old # {} THEN CHOOSE c \in old : TRUE ELSE Free]
       /\ made = Cardinality(old)
  /\ pending = NoPending /\ recent = NoRecent /\ waiting = Nothing
  /\ now \in {0, ClockPeriod - 1}
  /\ listed = NoList /\ grant = NoGrant
  /\ signed = [i \in Ids |-> 0] /\ released = [i \in Ids |-> 0]

\* What touches neither the assertions nor their history.
NoAssertion == UNCHANGED history

Tick ==
  /\ now' = (now + 1) % ClockPeriod
  /\ grant' = [grant EXCEPT !.age = IF @ < ClockPeriod THEN @ + 1 ELSE @]
  /\ UNCHANGED <<code, listed, signed, released>>

--------------------------------------------------------------------------------
(* authenticatorMakeCredential                                               *)

\* meowkey_store_add_credential, in the first slot that is free; the commit may fail.
Store(rp) ==
  /\ made < MaxMade
  /\ made' = made + 1
  /\ \/ \E s \in Slots :
          /\ slots[s] = Free /\ \A t \in Slots : t < s => slots[t] # Free
          /\ slots' = [slots EXCEPT ![s] =
               [id |-> made', rp |-> rp, discoverable |-> TRUE, count |-> 0]]
     \/ UNCHANGED slots

\* Mutant: the assertions still to be fetched are kept.
MakeKeepingPending(rp) ==
  /\ waiting = Nothing
  /\ recent' = NoRecent /\ UNCHANGED pending
  /\ IF PresenceOn
     THEN waiting' = [op |-> "make", rp |-> rp] /\ UNCHANGED <<slots, made>>
     ELSE Store(rp) /\ UNCHANGED waiting
  /\ NoAssertion /\ UNCHANGED now

\* An accepted request; one that is rejected changes nothing.
MakeCredential(rp) ==
  /\ waiting = Nothing
  /\ recent' = NoRecent /\ pending' = NoPending
  /\ IF PresenceOn
     THEN waiting' = [op |-> "make", rp |-> rp] /\ UNCHANGED <<slots, made>>
     ELSE Store(rp) /\ UNCHANGED waiting
  /\ NoAssertion /\ UNCHANGED now

MakeConfirmed ==
  /\ waiting.op = "make"
  /\ Store(waiting.rp) /\ waiting' = Nothing
  /\ NoAssertion /\ UNCHANGED <<pending, recent, now>>

--------------------------------------------------------------------------------
(* authenticatorGetAssertion                                                 *)

\* The slots of S in the order in which a loop over the slots comes to them.
InOrder(S) ==
  LET places == 1 .. Cardinality(S)
  IN  CHOOSE q \in [places -> S] : \A i, j \in places : i < j => q[i] < q[j]

\* collect_matching_slots
Matching(req) ==
  LET all == InOrder({s \in Slots : /\ slots[s] # Free /\ slots[s].discoverable
                                    /\ slots[s].rp = req.rp})
  IN  SubSeq(all, 1, IF Len(all) < PendingMax THEN Len(all) ELSE PendingMax)

\* The slots the request is about: the one of the allow list, or all that match.
Candidates(req) ==
  IF req.allow = 0 THEN Matching(req)
  ELSE InOrder({s \in Slots : /\ slots[s] # Free /\ slots[s].id = req.allow
                              /\ slots[s].rp = req.rp})

\* Mutant: the assertion is signed with a counter that is not written back.
RespondUnsaved(s) ==
  /\ slots[s] # Free /\ slots[s].count < MaxCount
  /\ UNCHANGED slots
  /\ signed' = [signed EXCEPT ![slots[s].id] = @ + 1]
  /\ released' = [released EXCEPT ![slots[s].id] = slots[s].count + 1]

\* respond_with_assertion, when it answers with an assertion.
Respond(s) ==
  /\ slots[s] # Free /\ slots[s].count < MaxCount
  /\ slots' = [slots EXCEPT ![s].count = @ + 1]
  /\ signed' = [signed EXCEPT ![slots[s].id] = @ + 1]
  /\ released' = [released EXCEPT ![slots[s].id] = slots[s].count + 1]

\* ... and when it does not: the slot is free, an extension, the signature or the store
\* fails, or the response does not fit, when the counter is already written.
RespondFails(s) ==
  /\ \/ UNCHANGED slots
     \/ /\ slots[s] # Free /\ slots[s].count < MaxCount
        /\ slots' = [slots EXCEPT ![s].count = @ + 1]
  /\ UNCHANGED <<signed, released>>

\* Mutant: a reused confirmation can be reused again.
ArmAlways(req, reused) == recent' = [active |-> TRUE, key |-> req, at |-> now]

\* consume_recent_assertion_up_if_matching has cleared the one that is reused, and only
\* a fresh confirmation arms another.
Arm(req, reused) ==
  recent' = IF reused THEN NoRecent ELSE [active |-> TRUE, key |-> req, at |-> now]

Pend(req, list) ==
  pending' = IF req.allow = 0 /\ Len(list) > 1
             THEN [active |-> TRUE, req |-> req, list |-> list, next |-> 1, usedAt |-> now]
             ELSE NoPending

\* The rest of meowkey_webauthn_get_assertion once the user has confirmed, or once an
\* earlier confirmation has been found to serve.
Answer(req, list, reused) ==
  /\ \/ /\ Respond(list[1])
        /\ Arm(req, reused) /\ Pend(req, list)
        /\ listed' = [announced |-> [k \in 1 .. Len(list) |-> slots[list[k]].id],
                      delivered |-> <<slots[list[1]].id>>]
        /\ grant' = IF reused THEN [grant EXCEPT !.uses = @ + 1, !.key = req]
                    ELSE [key |-> req, age |-> 0, uses |-> 1]
     \/ /\ RespondFails(list[1])
        /\ recent' = IF reused THEN NoRecent ELSE recent
        /\ pending' = NoPending
        /\ UNCHANGED <<listed, grant>>
  /\ UNCHANGED made

\* recent_assertion_up_is_current, and the match of the retry key.
Reusable(req) == recent.active /\ Since(recent.at) <= ReuseWindow /\ recent.key = req

GetRejected ==
  /\ waiting = Nothing
  /\ pending' = NoPending
  /\ NoAssertion /\ UNCHANGED <<slots, recent, waiting, made, now>>

GetReusing(req) ==
  /\ waiting = Nothing /\ Candidates(req) # <<>> /\ Reusable(req)
  /\ Answer(req, Candidates(req), TRUE)
  /\ UNCHANGED <<waiting, now>>

\* Without a confirmation to reuse, one that is too old is forgotten.
GetAsking(req) ==
  /\ waiting = Nothing /\ Candidates(req) # <<>> /\ ~ Reusable(req)
  /\ IF PresenceOn
     THEN /\ waiting' = [op |-> "get", req |-> req, list |-> Candidates(req)]
          /\ recent' = IF recent.active /\ Since(recent.at) > ReuseWindow THEN NoRecent ELSE recent
          /\ pending' = NoPending
          /\ NoAssertion /\ UNCHANGED <<slots, made>>
     ELSE Answer(req, Candidates(req), FALSE) /\ UNCHANGED waiting
  /\ UNCHANGED now

GetConfirmed ==
  /\ waiting.op = "get"
  /\ Answer(waiting.req, waiting.list, FALSE)
  /\ waiting' = Nothing
  /\ UNCHANGED now

\* CTAP2_ERR_USER_ACTION_TIMEOUT, of either command.
PresenceTimeout ==
  /\ waiting # Nothing /\ waiting' = Nothing
  /\ NoAssertion /\ UNCHANGED <<slots, pending, recent, made, now>>

--------------------------------------------------------------------------------
(* authenticatorGetNextAssertion                                             *)

\* Mutant: the place in the list is not advanced.
AdvanceNot == pending' = [pending EXCEPT !.usedAt = now]

\* Mutant: the list stays pending when it is exhausted.
AdvancePast == pending' = [pending EXCEPT !.next = @ + 1, !.usedAt = now]

Advance ==
  pending' = IF pending.next + 1 >= Len(pending.list) THEN NoPending
             ELSE [pending EXCEPT !.next = @ + 1, !.usedAt = now]

\* pending_assertion_is_current, and a credential is left.
PendingCurrent ==
  /\ pending.active /\ Since(pending.usedAt) <= PendingTimeout
  /\ pending.next < Len(pending.list)

GetNext ==
  /\ waiting = Nothing
  /\ \/ /\ ~ PendingCurrent
        /\ pending' = NoPending /\ NoAssertion /\ UNCHANGED slots
     \/ /\ PendingCurrent
        /\ LET s == pending.list[pending.next + 1]
           IN  \/ /\ Respond(s) /\ Advance
                  /\ listed' = [listed EXCEPT !.delivered = Append(@, slots[s].id)]
                  /\ UNCHANGED grant
               \/ /\ RespondFails(s)
                  /\ pending' = NoPending /\ UNCHANGED <<listed, grant>>
  /\ UNCHANGED <<recent, waiting, made, now>>

--------------------------------------------------------------------------------
(* What else reaches the slots, between two commands                         *)

\* meowkey_store_delete_credential_by_slot, for the manager.
Delete(s) ==
  /\ waiting = Nothing /\ slots[s] # Free
  /\ slots' = [slots EXCEPT ![s] = Free]
  /\ NoAssertion /\ UNCHANGED <<pending, recent, waiting, made, now>>

\* meowkey_store_clear_credentials, for a diagnostic of the Debug HID interface.
Clear ==
  /\ waiting = Nothing
  /\ slots' = [s \in Slots |-> Free]
  /\ NoAssertion /\ UNCHANGED <<pending, recent, waiting, made, now>>

\* A power-up that does not find the sign-count journal bound to the image in flash takes
\* the counters of the image, which are older, and binds the journal anew.  One counter at
\* a time: a power-up that puts back several is as many in a row.
CountersPutBack ==
  \E s \in Slots, older \in 0 .. MaxCount :
    /\ older < slots[s].count
    /\ slots' = [slots EXCEPT ![s].count = older]
    /\ signed' = [signed EXCEPT ![slots[s].id] = 0]
    /\ released' = [released EXCEPT ![slots[s].id] = 0]

PowerCycle ==
  /\ pending' = NoPending /\ recent' = NoRecent /\ waiting' = Nothing /\ now' = 0
  /\ CountersPutBack \/ UNCHANGED <<slots, signed, released>>
  /\ listed' = NoList /\ grant' = NoGrant
  /\ UNCHANGED made

Next ==
  \/ \E rp \in Rps : MakeCredential(rp)
  \/ MakeConfirmed
  \/ \E req \in Requests : GetReusing(req) \/ GetAsking(req)
  \/ GetRejected \/ GetConfirmed \/ PresenceTimeout
  \/ GetNext
  \/ \E s \in Slots : Delete(s)
  \/ Clear
  \/ PowerCycle
  \/ Tick

Spec == Init /\ [][Next]_vars

--------------------------------------------------------------------------------
(* Properties                                                                *)

Records == [id : Ids, rp : Rps, discoverable : BOOLEAN, count : 0 .. MaxCount] \cup {Free}

\* The types of the variables, and what s_pending_assertion keeps to while it is
\* active: two credentials or more, and one of them still to be fetched.
TypeOK ==
  /\ slots \in [Slots -> Records]
  /\ pending = NoPending
       \/ /\ pending.active /\ pending.req \in Requests /\ pending.usedAt \in 0 .. ClockPeriod - 1
          /\ pending.list \in Seq(Slots) /\ Len(pending.list) <= PendingMax
          /\ pending.next \in 1 .. Len(pending.list) - 1
  /\ recent = NoRecent \/ recent \in [active : {TRUE}, key : Requests, at : 0 .. ClockPeriod - 1]
  /\ now \in 0 .. ClockPeriod - 1 /\ made \in 0 .. MaxMade
  /\ signed \in [Ids -> Nat] /\ released \in [Ids -> 0 .. MaxCount]

\* A slot that getNextAssertion has still to use holds the credential it held when the
\* request was answered first, or none at all: another credential never slips in.
PendingIsCollected ==
  pending.active =>
    \A k \in pending.next + 1 .. Len(pending.list) :
      LET s == pending.list[k]
      IN  slots[s] = Free \/ slots[s].id = listed.announced[k]

\* getAssertion and the getNextAssertions that follow it deliver the credentials they
\* announced, in order, none of them twice; they can be fetched as long as some are left.
AssertionsEnumerate ==
  /\ IsPrefix(listed.delivered, listed.announced)
  /\ IsInjective(listed.announced)
  /\ pending.active => pending.next = Len(listed.delivered)

\* A confirmation of the user serves one getAssertion and one retry of the very same
\* request within the reuse window; a clock that has gone all the way round since is
\* not told from a young one.
PresenceIsFresh ==
  [][grant'.uses > grant.uses /\ grant'.uses > 1
       => /\ grant'.uses = 2 /\ grant'.key = grant.key
          /\ grant.age <= ReuseWindow \/ grant.age = ClockPeriod]_vars

\* Every assertion of a credential carries a counter above that of the one before it,
\* across answers that fail, deletions, new credentials in old slots and power cycles,
\* unless a power-up in between has put the counter itself back.
CountsIncrease ==
  [][\A i \in Ids : signed'[i] > signed[i] => released'[i] > released[i]]_vars
================================================================================
