---------------------------- MODULE CredentialStore ----------------------------
(***************************************************************************)
(* The flash credential store, src/src/credential_store.c.                 *)
(*                                                                         *)
(* The store keeps one RAM image of everything it persists (`store`) and   *)
(* two places where it persists it: two flash slots written in turn, each  *)
(* a whole image with a generation, and a sign-count journal bound to the  *)
(* image it updates.  The firmware is single-threaded, so operations do    *)
(* not interleave; what interrupts them is the loss of power, which may    *)
(* fall between any two flash operations or inside one.  Every flash       *)
(* operation is therefore a step of its own, and Crash may come before     *)
(* each.                                                                   *)
(*                                                                         *)
(* Abstractions.  A credential is one value of Creds (its random id, key   *)
(* and names); the PIN record is one value of Pins.  CRCs, the wrap tag    *)
(* and the random salt are modelled by what they tell apart: a slot whose  *)
(* header page is not completely programmed does not validate, and the     *)
(* CRC of an encrypted image differs from that of every other image and    *)
(* of every plain payload.  The 32-bit generation and the entry sequence   *)
(* number, which nothing compares, do not wrap in the life of the flash.   *)
(***************************************************************************)
EXTENDS Integers, Sequences, FiniteSets, FiniteSetsExt

CONSTANTS
  MaxCredentials,   \* MEOWKEY_STORE_MAX_CREDENTIALS
  Creds,            \* credentials webauthn.c may generate
  NoCred,           \* the contents of a slot that is not in use
  Pins, NoPin,      \* PIN records; the record of an unset PIN
  UPConfigs,        \* user-presence configurations that pass validation
  DefaultUP,        \* store_default_user_presence_config
  Builds,           \* firmware builds that may be flashed: "hardened", "debug"
  JournalCapacity,  \* MEOWKEY_SIGN_COUNT_JOURNAL_ENTRY_CAPACITY
  Factory,          \* what the flash may hold before the first boot
  MaxGeneration,    \* bound: no host commit starts beyond this generation
  MaxSignCount,     \* bound: no assertion counts beyond this
  MaxCrashes,       \* bound: power losses in a behaviour
  MaxFaults         \* bound: flash verifications that fail in a behaviour

ASSUME ConstantsOK ==
  /\ MaxCredentials \in Nat \ {0}
  /\ JournalCapacity \in Nat \ {0}
  /\ NoCred \notin Creds
  /\ NoPin \in Pins
  /\ DefaultUP \in UPConfigs
  /\ Builds \subseteq {"hardened", "debug"}
  /\ Factory \subseteq {"blank", "unwrapped", "legacy apart", "legacy tail", "legacy in place"}
  /\ MaxGeneration \in Nat /\ MaxSignCount \in Nat
  /\ MaxCrashes \in Nat /\ MaxFaults \in Nat

VARIABLES
  \* Flash: survives a crash.
  slot,        \* the A/B slots; generation 0 stands for "does not validate"
  journal,     \* the sign-count journal: header and programmed entries
  legacy,      \* an image of format version 1 to 5, until it is erased: "in place" in slot 0,
               \* in the "tail" that slot 1 and the journal share, or "apart" from them all
  build,       \* the firmware build in flash
  \* RAM: lost in a crash.
  store,       \* s_store
  generation,  \* s_store_generation
  crc,         \* s_store_payload_crc32
  active,      \* s_active_slot_index, -1 when there is none
  ready,       \* s_sign_count_journal.ready
  next,        \* s_sign_count_journal.next_entry_index
  \* Control: where the operation in progress stands.
  pc,          \* the next flash step of the operation, "idle" or "off"
  op,          \* the operation, or the last one when idle
  target,      \* the credential slot a count update is for
  undo,        \* the RAM image an operation falls back to when it fails
  reply,       \* what the last finished operation returned
  \* Bookkeeping of the bounds.
  crashes, faults

flash   == <<slot, journal, legacy, build>>
ram     == <<store, generation, crc, active, ready, next>>
control == <<pc, op, target, undo, reply>>
vars    == <<flash, ram, control, crashes, faults>>

--------------------------------------------------------------------------------
(* Values *)

Slots == 0 .. MaxCredentials - 1
None  == -1

Payloads ==
  [creds: [Slots -> Creds \cup {NoCred}], counts: [Slots -> Nat],
   credential_count: Nat, pin: Pins, up: UPConfigs,
   provenance: {"unknown", "hardened", "debug"}]

Images  == [generation: Nat, payload: Payloads, wrapped: BOOLEAN]
Crcs    == [of: {"none"}] \cup [of: {"image"}, generation: Nat]
             \cup [of: {"payload"}, payload: Payloads]
Headers == [generation: Nat, crc: Crcs]
Entries == [whole: BOOLEAN, slot: Slots, count: Nat]

\* store_reset_image: the payload of a device that holds nothing.
ResetPayload(b) ==
  [creds |-> [s \in Slots |-> NoCred], counts |-> [s \in Slots |-> 0],
   credential_count |-> 0, pin |-> NoPin, up |-> DefaultUP, provenance |-> b]

EmptyPayload == ResetPayload("unknown")
NoImage  == [generation |-> 0, payload |-> EmptyPayload, wrapped |-> FALSE]
NoHeader == [generation |-> 0, crc |-> [of |-> "none"]]

\* The CRC of the bytes of a slot in flash.  An encrypted image has a CRC of
\* its own; an image that predates encryption has that of its payload.
ImageCrc(image) ==
  IF image.wrapped
  THEN [of |-> "image", generation |-> image.generation]
  ELSE [of |-> "payload", payload |-> image.payload]

\* The CRC of s_store as it stands decrypted in RAM.
PayloadCrc(p) == [of |-> "payload", payload |-> p]

InUse(p) == {s \in Slots : p.creds[s] # NoCred}
Free(p)  == Slots \ InUse(p)

PutCredential(p, s, c) ==
  [p EXCEPT !.creds[s] = c, !.counts[s] = 0,
            !.credential_count = p.credential_count + 1]

WipeSlot(p, s) ==
  [p EXCEPT !.creds[s] = NoCred, !.counts[s] = 0,
            !.credential_count =
              IF p.credential_count > 0 THEN p.credential_count - 1 ELSE p.credential_count]

--------------------------------------------------------------------------------
(* Reading the flash: what a boot finds *)

Holds(i) == slot[i].generation > 0

\* Mutant: the first slot that validates, whatever its generation.
FirstSlot == IF Holds(0) THEN 0 ELSE IF Holds(1) THEN 1 ELSE None

\* Mutant: the oldest slot that validates.
OldestSlot ==
  IF Holds(1) /\ (Holds(0) => slot[1].generation < slot[0].generation) THEN 1
  ELSE IF Holds(0) THEN 0 ELSE None

\* The newest slot that validates; slot 0 on a tie.
BestSlot ==
  IF ~ Holds(0) /\ ~ Holds(1) THEN None
  ELSE IF slot[1].generation > slot[0].generation THEN 1 ELSE 0

\* The payload before the journal is applied.
BasePayload(b) ==
  CASE BestSlot # None                         -> slot[BestSlot].payload
    [] BestSlot = None /\ legacy.place # "none" -> [legacy.payload EXCEPT !.provenance = b]
    [] OTHER                                   -> ResetPayload(b)

\* Mutant: only a configuration of unknown origin is distrusted.
SanitizeUnknownUP(p, b) ==
  IF b = "hardened" /\ p.provenance = "unknown"
  THEN [p EXCEPT !.up = DefaultUP, !.provenance = b]
  ELSE p

\* store_sanitize_user_presence_config: a hardened build does not trust a
\* configuration unless a hardened build wrote it.
SanitizeUP(p, b) ==
  IF b = "hardened" /\ p.provenance # "hardened"
  THEN [p EXCEPT !.up = DefaultUP, !.provenance = b]
  ELSE p

JournalBound ==
  /\ BestSlot # None
  /\ journal.header = [generation |-> slot[BestSlot].generation,
                       crc |-> ImageCrc(slot[BestSlot])]

\* The entries before the first one that is blank or does not validate.
WholePrefix(entries) ==
  CHOOSE n \in 0 .. Len(entries) :
    /\ \A i \in 1 .. n : entries[i].whole
    /\ n < Len(entries) => ~ entries[n + 1].whole

ReplayLength == WholePrefix(journal.entries)

\* Where the next entry goes after a boot.
\* Mutant: at the start, over the entries that are there.
ResumeAtStart == 0

ResumeIndex == IF JournalBound THEN ReplayLength ELSE 0

\* Mutant: the first entry for a slot decides.
FirstEntry(entries, s, n) ==
  LET hits == {i \in 1 .. n : entries[i].slot = s}
  IN  IF hits = {} THEN 0 ELSE Min(hits)

\* The last of the first n entries for slot s, 0 when there is none.
LastEntry(entries, s, n) == Max({0} \cup {i \in 1 .. n : entries[i].slot = s})

ReplayJournal(p) ==
  LET last(s) == LastEntry(journal.entries, s, IF JournalBound THEN ReplayLength ELSE 0)
  IN  [p EXCEPT !.counts = [s \in Slots |->
         IF p.creds[s] # NoCred /\ last(s) > 0
         THEN journal.entries[last(s)].count ELSE p.counts[s]]]

\* What the device would hold if it were switched off and on again.
Durable(b) == ReplayJournal(SanitizeUP(BasePayload(b), b))

--------------------------------------------------------------------------------
(* Initial states: the flash as it left the factory or an older firmware, the *)
(* device off.                                                                *)

\* What firmware before format 6, or before encryption, may have stored.
OldPayload(c, n, p) ==
  [ResetPayload("unknown") EXCEPT !.creds[0] = c, !.credential_count = 1,
                                  !.counts[0] = n, !.pin = p]

PowerOffRam ==
  /\ store = EmptyPayload /\ generation = 0 /\ crc = [of |-> "none"]
  /\ active = None /\ ready = FALSE /\ next = 0
  /\ pc = "off" /\ op = "none" /\ target = 0 /\ undo = EmptyPayload /\ reply = "none"

Init ==
  /\ \E f \in Factory, c \in Creds, n \in 0 .. 1, p \in Pins :
     LET old == OldPayload(c, n, p) IN
       /\ slot = [i \in 0 .. 1 |->
                    IF f = "unwrapped" /\ i = 0
                    THEN [generation |-> 1, payload |-> old, wrapped |-> FALSE]
                    ELSE NoImage]
       /\ legacy = [place   |-> CASE f = "legacy apart"    -> "apart"
                                  [] f = "legacy tail"     -> "tail"
                                  [] f = "legacy in place" -> "in place"
                                  [] OTHER                 -> "none",
                    payload |-> IF f \in {"legacy apart", "legacy tail", "legacy in place"}
                                THEN old ELSE EmptyPayload]
  /\ journal = [header |-> NoHeader, entries |-> <<>>]
  /\ build \in Builds
  /\ PowerOffRam
  /\ crashes = 0 /\ faults = 0

--------------------------------------------------------------------------------
(* Power *)

\* store_load_if_needed at the first call after power-up, possibly with a
\* newly flashed build.  The image is written back when it came from an older
\* format or was sanitized.
Boot(b) ==
  /\ pc = "off"
  /\ build' = b
  /\ store' = Durable(b)
  /\ generation' = IF BestSlot = None THEN 0 ELSE slot[BestSlot].generation
  /\ active' = BestSlot
  /\ ready' = JournalBound
  /\ next' = ResumeIndex
  /\ crc' = PayloadCrc(IF BestSlot = None THEN ResetPayload(b) ELSE Durable(b))
  /\ LET imported == BestSlot = None /\ legacy.place # "none"
         changed  == BestSlot # None /\ \/ ~ slot[BestSlot].wrapped
                                        \/ SanitizeUP(BasePayload(b), b) # BasePayload(b)
     IN  pc' = IF imported \/ changed THEN "program" ELSE "idle"
  /\ op' = "boot" /\ undo' = Durable(b) /\ reply' = "none"
  /\ UNCHANGED <<slot, journal, legacy, target, crashes, faults>>

LoseRam ==
  /\ store' = EmptyPayload /\ generation' = 0 /\ crc' = [of |-> "none"]
  /\ active' = None /\ ready' = FALSE /\ next' = 0
  /\ pc' = "off" /\ op' = "none" /\ target' = 0 /\ undo' = EmptyPayload /\ reply' = "none"
  /\ crashes' = crashes + 1
  /\ UNCHANGED <<build, faults>>

\* Power is lost between two flash operations.
Crash ==
  /\ pc # "off" /\ crashes < MaxCrashes
  /\ LoseRam
  /\ UNCHANGED <<slot, journal, legacy>>

\* The index of the entry to program: without an active slot the journal cannot be
\* initialised, and its state is reset instead.
AppendIndex == IF ready THEN next ELSE 0

\* Power is lost while an entry is being programmed.  Programming only clears
\* bits, so what a torn entry holds of the count is never below it, and the
\* complemented slot index betrays any other slot.
CrashInAppend ==
  /\ pc = "append" /\ AppendIndex = Len(journal.entries) /\ crashes < MaxCrashes
  /\ \E w \in BOOLEAN, n \in store.counts[target] .. MaxSignCount :
       journal' = [journal EXCEPT !.entries =
                     Append(@, [whole |-> w, slot |-> target, count |-> n])]
  /\ LoseRam
  /\ UNCHANGED <<slot, legacy>>

--------------------------------------------------------------------------------
(* Requests: each changes the RAM image and starts writing it.               *)

MayCommit == generation < MaxGeneration

Request(kind, new, fallback, first) ==
  /\ store' = new /\ undo' = fallback
  /\ pc' = first /\ op' = kind /\ reply' = "none"
  /\ UNCHANGED <<flash, generation, crc, active, ready, next, crashes, faults>>

\* meowkey_store_add_credential, of a credential whose random id neither RAM nor flash
\* has: on failure the slot is wiped again and the count taken down.
Add(c) ==
  /\ pc = "idle" /\ MayCommit
  /\ \A s \in Slots : c \notin {store.creds[s], BasePayload(build).creds[s]}
  /\ Free(store) # {}
  /\ LET s   == Min(Free(store))
         new == PutCredential(store, s, c)
     IN  Request("commit", new, WipeSlot(new, s), "program")
  /\ UNCHANGED target

\* Mutant: the count is not put back with the slot.
RestoreSlotOnly(p, s, earlier) ==
  [p EXCEPT !.creds[s] = earlier.creds[s], !.counts[s] = earlier.counts[s]]

\* p with the slot and the count that an earlier image had.
RestoreSlot(p, s, earlier) ==
  [p EXCEPT !.creds[s] = earlier.creds[s], !.counts[s] = earlier.counts[s],
            !.credential_count = earlier.credential_count]

\* meowkey_store_delete_credential_by_slot: on failure the slot and the count are put back.
Delete(s) ==
  /\ pc = "idle" /\ MayCommit
  /\ s \in InUse(store)
  /\ LET new == WipeSlot(store, s)
     IN  Request("commit", new, RestoreSlot(new, s, store), "program")
  /\ UNCHANGED target

\* meowkey_store_clear_credentials; this and the two setters below keep their
\* change in RAM even when the write fails.
Clear ==
  /\ pc = "idle" /\ MayCommit
  /\ LET new == [store EXCEPT !.creds = EmptyPayload.creds, !.counts = EmptyPayload.counts,
                              !.credential_count = 0]
     IN  Request("commit", new, new, "program")
  /\ UNCHANGED target

\* meowkey_store_set_pin_state
SetPin(p) ==
  /\ pc = "idle" /\ MayCommit
  /\ LET new == [store EXCEPT !.pin = p] IN Request("commit", new, new, "program")
  /\ UNCHANGED target

\* meowkey_store_set_user_presence_config
SetUP(u) ==
  /\ pc = "idle" /\ MayCommit
  /\ LET new == [store EXCEPT !.up = u, !.provenance = build]
     IN  Request("commit", new, new, "program")
  /\ UNCHANGED target

\* Mutant: a full journal is started anew without a new image.
AppendFromErasing ==
  CASE ~ ready /\ active # None            -> "erase"
    [] ~ ready /\ active = None            -> "append"
    [] ready /\ next < JournalCapacity     -> "append"
    [] ready /\ next >= JournalCapacity    -> "erase"

\* Where sign_count_journal_append starts: the journal is initialised when it is
\* not ready, and compacted into a new image when it is full.
AppendFrom ==
  CASE ~ ready /\ active # None            -> "erase"
    [] ~ ready /\ active = None            -> "append"
    [] ready /\ next < JournalCapacity     -> "append"
    [] ready /\ next >= JournalCapacity    -> "program"

\* meowkey_store_update_sign_count, called with the count plus one.
UpdateSignCount(s) ==
  /\ pc = "idle"
  /\ s \in InUse(store) /\ store.counts[s] < MaxSignCount
  /\ AppendFrom = "program" => MayCommit
  /\ Request("count", [store EXCEPT !.counts[s] = store.counts[s] + 1], store, AppendFrom)
  /\ target' = s

\* A call refused before it touches anything: the store is full, the slot is not
\* in use, the configuration is not valid.
Reject ==
  /\ pc = "idle"
  /\ op' = "reject" /\ reply' = "fail"
  /\ UNCHANGED <<flash, ram, pc, target, undo, crashes, faults>>

--------------------------------------------------------------------------------
(* The flash steps of the operation in progress *)

Done ==
  /\ pc' = "idle" /\ reply' = "ok"

Fail ==
  /\ faults < MaxFaults /\ faults' = faults + 1
  /\ pc' = "idle" /\ reply' = "fail" /\ store' = undo
  /\ UNCHANGED <<generation, crc, active, ready, next>>

\* Mutant: the two slots swapped.
ActiveSlotFirst == IF active = 1 THEN 1 ELSE 0

\* Mutant: the other slot, even when there is no active one.
OtherSlot == 1 - active

TargetSlot == IF active = 0 THEN 1 ELSE 0

\* What an erasure leaves of an old image, when it reaches images that lie at this place.
LegacyAfter(place) ==
  IF legacy.place = place THEN [place |-> "none", payload |-> EmptyPayload] ELSE legacy

\* store_program_slot up to its first verification: the target slot is erased,
\* and with it an old image that lies there, and all pages but the header's
\* are programmed.
ProgramBody ==
  /\ pc = "program"
  /\ slot' = [slot EXCEPT ![TargetSlot] = NoImage]
  /\ legacy' = LegacyAfter(IF TargetSlot = 0 THEN "in place" ELSE "tail")
  /\ \/ pc' = "header" /\ UNCHANGED <<ram, reply, faults>>
     \/ Fail
  /\ UNCHANGED <<journal, build, op, target, undo, crashes>>

\* The header page, its verification and the rest of store_commit_payload.
ProgramHeader ==
  /\ pc = "header"
  /\ \/ LET image == [generation |-> generation + 1, payload |-> store, wrapped |-> TRUE]
        IN  /\ slot' = [slot EXCEPT ![TargetSlot] = image]
            /\ active' = TargetSlot
            /\ generation' = generation + 1
            /\ crc' = ImageCrc(image)
            /\ pc' = "erase"
            /\ UNCHANGED <<store, ready, next, reply, faults>>
     \/ Fail /\ UNCHANGED slot
  /\ UNCHANGED <<journal, legacy, build, op, target, undo, crashes>>

\* sign_count_journal_erase_and_initialize: the erasure.
EraseJournal ==
  /\ pc = "erase"
  /\ journal' = [header |-> NoHeader, entries |-> <<>>]
  /\ legacy' = LegacyAfter("tail")
  /\ pc' = "bind"
  /\ UNCHANGED <<slot, build, ram, op, target, undo, reply, crashes, faults>>

\* sign_count_journal_erase_and_initialize: the header, bound to the image.
BindJournal ==
  /\ pc = "bind"
  /\ journal' = [journal EXCEPT !.header = [generation |-> generation, crc |-> crc]]
  /\ ready' = TRUE /\ next' = 0
  /\ IF op = "count" THEN pc' = "append" /\ UNCHANGED reply ELSE Done
  /\ UNCHANGED <<slot, legacy, build, store, generation, crc, active, op, target, undo,
                 crashes, faults>>

\* sign_count_journal_append: the entry, or a refusal when the flash at its
\* place is not blank.
AppendEntry ==
  /\ pc = "append"
  /\ \/ /\ AppendIndex = Len(journal.entries)
        /\ journal' = [journal EXCEPT !.entries =
             Append(@, [whole |-> TRUE, slot |-> target, count |-> store.counts[target]])]
        /\ next' = AppendIndex + 1
        /\ Done
        /\ UNCHANGED store
     \/ /\ AppendIndex < Len(journal.entries)
        /\ store' = undo /\ pc' = "idle" /\ reply' = "fail"
        /\ next' = AppendIndex
        /\ UNCHANGED journal
  /\ UNCHANGED <<slot, legacy, build, generation, crc, active, ready, op, target, undo,
                 crashes, faults>>

FlashStep == ProgramBody \/ ProgramHeader \/ EraseJournal \/ BindJournal \/ AppendEntry

Next ==
  \/ \E b \in Builds : Boot(b)
  \/ Crash
  \/ CrashInAppend
  \/ \E c \in Creds : Add(c)
  \/ \E s \in Slots : Delete(s)
  \/ Clear
  \/ \E p \in Pins : SetPin(p)
  \/ \E u \in UPConfigs : SetUP(u)
  \/ \E s \in Slots : UpdateSignCount(s)
  \/ Reject
  \/ FlashStep

Spec == Init /\ [][Next]_vars

--------------------------------------------------------------------------------
(* Correctness *)

\* Every variable has its type, and RAM is cleared while the power is off.
TypeOK ==
  /\ slot \in [0 .. 1 -> Images]
  /\ journal \in [header: Headers, entries: Seq(Entries)]
  /\ legacy \in [place: {"none", "apart", "tail", "in place"}, payload: Payloads]
  /\ build \in Builds
  /\ store \in Payloads /\ undo \in Payloads
  /\ generation \in Nat /\ crc \in Crcs
  /\ active \in {None, 0, 1} /\ ready \in BOOLEAN /\ next \in Nat
  /\ pc \in {"off", "idle", "program", "header", "erase", "bind", "append"}
  /\ op \in {"none", "boot", "commit", "count", "reject"}
  /\ target \in Slots /\ reply \in {"none", "ok", "fail"}
  /\ crashes \in Nat /\ faults \in Nat
  /\ pc = "off" => PowerOffRam

\* The slot RAM takes for active holds the image of RAM's generation, and a boot
\* at this very moment would choose it: writing the other slot, at any point and
\* whatever fails, never leaves the device with an older image or none.
ActiveImageIsBest ==
  pc # "off" =>
    /\ BestSlot = active
    /\ generation = IF active = None THEN 0 ELSE slot[active].generation

\* store.credential_count, which every commit writes and getInfo reports, is the
\* number of slots in use, through every roll-back and replay.
CountIsExact == pc # "off" => store.credential_count = Cardinality(InUse(store))

\* Once an add, delete, clear, PIN or configuration write has returned true, a
\* power-up finds exactly the RAM image: credentials, PIN, configuration and all
\* sign counts, with no journal entry left that could change one of them.
AckedCommitIsDurable ==
  pc = "idle" /\ op = "commit" /\ reply = "ok" => Durable(build) = store

\* While the journal in use is bound to the active image, what a power-up finds
\* for a credential's sign count is what RAM has: no update is lost, none is
\* applied twice, and no entry of an earlier credential in that slot shows.
BoundCountsAreDurable ==
  pc = "idle" /\ active # None /\ (ready => JournalBound) =>
    \A s \in InUse(store) :
      BasePayload(build).creds[s] = store.creds[s]
        => Durable(build).counts[s] = store.counts[s]

\* The sign count that a power-up finds for a credential never falls: no erasure, header,
\* entry, failed write or loss of power, wherever it comes in a commit, an update or a
\* compaction, leaves the flash with an older count than it had.
DurableCountsGrow ==
  [][\A s \in Slots :
       LET before == Durable(build)
           after  == Durable(build)'
       IN  before.creds[s] # NoCred /\ after.creds[s] = before.creds[s]
             => after.counts[s] >= before.counts[s]]_vars

\* What sign_count_journal_append programs is always the next blank entry, so an
\* update is refused only if a write failed or an earlier one was torn.
RefusalMeansDamage ==
  pc = "idle" /\ op = "count" /\ reply = "fail" =>
    \/ faults > 0
    \/ ReplayLength < Len(journal.entries)

\* A hardened build never acts on a configuration that a debug build, or an
\* unknown one, has written, whatever builds ran before it.
HardenedDistrustsDebug ==
  pc # "off" /\ build = "hardened" => store.provenance = "hardened"

\* An update of a sign count that returned true is found by the next power-up
\* ("sign-count journal bound to the active store image").
AckedSignCountIsDurable ==
  pc = "idle" /\ op = "count" /\ reply = "ok"
    => Durable(build).counts[target] = store.counts[target]

\* A device that came with credentials has an image to load at every power-up
\* ("migrates several historical formats up to the current version 6").
SomeImageSurvives ==
  pc = "off" /\ "blank" \notin Factory => BestSlot # None \/ legacy.place # "none"

Facts(p) == [creds |-> p.creds, pin |-> p.pin, up |-> p.up]

\* What the flash holds of them, which the build that reads it does not change.
Held == Facts(BasePayload("hardened"))

Phase ==
  CASE pc = "off" -> "off" [] pc = "idle" -> "idle"
    [] pc \notin {"off", "idle"} /\ op = "count" -> "counting"
    [] OTHER -> "busy"

Transactional == INSTANCE TransactionalStore WITH
  durable <- Held, working <- Facts(store), fallback <- Facts(undo), phase <- Phase

\* The store implements TransactionalStore: every crash and failed write leaves
\* the old value or the new one, and success means durable.
IsTransactional == Transactional!TSpec
================================================================================
