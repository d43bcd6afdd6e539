------------------------- MODULE CredentialStoreProofs -------------------------
(***************************************************************************)
(* Theorems about CredentialStore, for every number of credentials, every  *)
(* journal capacity, every mix of builds and old images, and any number of *)
(* crashes and failed writes: its types, that it implements                *)
(* TransactionalStore, that an image survives, and that the credentials    *)
(* and their sign counts are kept as they should be.                       *)
(***************************************************************************)
EXTENDS CredentialStore, WellFoundedInduction, FiniteSetTheorems, TLAPS

--------------------------------------------------------------------------------
(* Facts about the helpers *)

\* A nonempty set of naturals has a least element, which Min returns.
LEMMA MinProperty ==
  ASSUME NEW S \in SUBSET Nat, S # {}
  PROVE  /\ Min(S) \in S
         /\ \A k \in S : Min(S) <= k
<1> DEFINE R == {ss \in Nat \X Nat : ss[1] < ss[2]}
<1>1. IsWellFoundedOn(R, Nat)
  BY NatLessThanWellFounded DEF OpToRel
<1> HIDE DEF R
<1>2. PICK m \in S : \A k \in S : ~ (<<k, m>> \in R)
  BY <1>1, WFMin
<1>3. ASSUME NEW k \in S PROVE m <= k
  <2>1. m \in Nat /\ k \in Nat /\ ~ (<<k, m>> \in R)
    BY <1>2
  <2>2. ~ (k < m)
    BY <2>1 DEF R
  <2>3. QED
    BY <2>1, <2>2
<1>4. QED
  BY <1>3 DEF Min

\* A nonempty set of naturals up to n has a greatest element, which Max returns.
LEMMA MaxProperty ==
  ASSUME NEW n \in Nat, NEW S \in SUBSET (0 .. n), S # {}
  PROVE  /\ Max(S) \in S
         /\ \A k \in S : k <= Max(S)
<1> DEFINE T == {n - k : k \in S}
<1>1. T \in SUBSET Nat /\ T # {}
  <2>1. \A k \in S : k \in Nat /\ n - k \in Nat
    OBVIOUS
  <2>2. QED
    BY <2>1
<1>2. PICK k \in S : Min(T) = n - k
  BY <1>1, MinProperty
<1>3. \A j \in S : n - k <= n - j
  BY <1>1, <1>2, MinProperty
<1>4. k \in S /\ \A j \in S : j <= k
  BY <1>3
<1>5. QED
  BY <1>4 DEF Max

\* WholePrefix counts the leading whole entries, all of them or up to the first
\* torn one.
LEMMA WholePrefixProperty ==
  ASSUME NEW entries \in Seq(Entries)
  PROVE  /\ WholePrefix(entries) \in 0 .. Len(entries)
         /\ \A i \in 1 .. WholePrefix(entries) : entries[i].whole
         /\ WholePrefix(entries) < Len(entries)
              => ~ entries[WholePrefix(entries) + 1].whole
<1> DEFINE len == Len(entries)
           torn == {i \in 1 .. len : ~ entries[i].whole}
           P(n) == /\ \A i \in 1 .. n : entries[i].whole
                   /\ n < len => ~ entries[n + 1].whole
<1>1. len \in Nat
  OBVIOUS
<1>2. \E n \in 0 .. len : P(n)
  <2>1. CASE torn = {}
    <3>1. P(len)
      BY <1>1, <2>1
    <3>2. len \in 0 .. len
      BY <1>1
    <3>3. QED
      BY <3>1, <3>2
  <2>2. CASE torn # {}
    <3>1. torn \in SUBSET Nat
      BY <1>1
    <3>2. Min(torn) \in torn /\ \A k \in torn : Min(torn) <= k
      BY <3>1, <2>2, MinProperty
    <3> DEFINE m == Min(torn)
    <3>3. m \in 1 .. len /\ ~ entries[m].whole
      BY <3>2
    <3> HIDE DEF m
    <3>4. \A i \in 1 .. m - 1 : entries[i].whole
      BY <3>2, <3>3, <1>1 DEF m
    <3>5. m - 1 \in 0 .. len /\ m - 1 + 1 = m
      BY <3>3, <1>1
    <3>6. P(m - 1)
      BY <3>3, <3>4, <3>5
    <3>7. QED
      BY <3>5, <3>6
  <2>3. QED
    BY <2>1, <2>2
<1>3. QED
  BY <1>2 DEF WholePrefix

LEMMA ReplayLengthProperty ==
  ASSUME journal.entries \in Seq(Entries)
  PROVE  /\ ReplayLength \in 0 .. Len(journal.entries)
         /\ \A i \in 1 .. ReplayLength : journal.entries[i].whole
         /\ ReplayLength < Len(journal.entries)
              => ~ journal.entries[ReplayLength + 1].whole
BY WholePrefixProperty DEF ReplayLength

\* LastEntry is an index among the first n entries, or 0.
LEMMA LastEntryProperty ==
  ASSUME NEW entries, NEW s, NEW n \in Nat
  PROVE  LastEntry(entries, s, n) \in 0 .. n
<1> DEFINE S == {0} \cup {i \in 1 .. n : entries[i].slot = s}
<1>1. S \in SUBSET (0 .. n) /\ S # {}
  OBVIOUS
<1>2. Max(S) \in S
  BY <1>1, MaxProperty
<1>3. QED
  BY <1>1, <1>2 DEF LastEntry

--------------------------------------------------------------------------------
(* Payloads *)

\* There is a first credential slot.
LEMMA SlotZero == 0 \in Slots
<1>1. MaxCredentials \in Nat \ {0}
  BY ConstantsOK
<1>2. QED
  BY <1>1 DEF Slots

\* The payload of an empty device is a payload, whichever build makes it.
LEMMA ResetPayloadType ==
  ASSUME NEW b \in {"unknown", "hardened", "debug"}
  PROVE  ResetPayload(b) \in Payloads
BY ConstantsOK DEF ResetPayload, Payloads, Slots

\* Adding and removing a credential yields a payload.
LEMMA SlotUpdateType ==
  ASSUME NEW p \in Payloads, NEW s \in Slots
  PROVE  /\ \A c \in Creds : PutCredential(p, s, c) \in Payloads
         /\ WipeSlot(p, s) \in Payloads
<1>1. p.creds \in [Slots -> Creds \cup {NoCred}] /\ p.counts \in [Slots -> Nat]
        /\ p.credential_count \in Nat
  BY DEF Payloads
<1>2. ASSUME NEW d \in Creds \cup {NoCred}, NEW n \in Nat
      PROVE  [p EXCEPT !.creds[s] = d, !.counts[s] = 0, !.credential_count = n] \in Payloads
  <2>1. [p.creds EXCEPT ![s] = d] \in [Slots -> Creds \cup {NoCred}]
    BY <1>1
  <2>2. [p.counts EXCEPT ![s] = 0] \in [Slots -> Nat]
    BY <1>1
  <2>3. QED
    BY <2>1, <2>2 DEF Payloads
<1>3. ASSUME NEW c \in Creds
      PROVE  PutCredential(p, s, c) \in Payloads
  <2>1. p.credential_count + 1 \in Nat
    BY <1>1
  <2>2. [p EXCEPT !.creds[s] = c, !.counts[s] = 0,
                  !.credential_count = p.credential_count + 1] \in Payloads
    BY <1>2, <2>1
  <2>3. QED
    BY <2>2 DEF PutCredential
<1>4. WipeSlot(p, s) \in Payloads
  <2> DEFINE n == IF p.credential_count > 0 THEN p.credential_count - 1
                  ELSE p.credential_count
  <2>1. n \in Nat
    BY <1>1
  <2>2. [p EXCEPT !.creds[s] = NoCred, !.counts[s] = 0, !.credential_count = n] \in Payloads
    <3> HIDE DEF n
    <3>1. QED
      BY <1>2, <2>1
  <2>3. QED
    BY <2>2 DEF WipeSlot
<1>5. QED
  BY <1>3, <1>4

\* A credential that is added goes to a free slot.
LEMMA FreeSlot ==
  ASSUME NEW p, Free(p) # {}
  PROVE  Min(Free(p)) \in Free(p) /\ Min(Free(p)) \in Slots
<1>1. Free(p) \in SUBSET Nat /\ Free(p) \subseteq Slots
  <2>1. MaxCredentials \in Nat \ {0}
    BY ConstantsOK
  <2>2. QED
    BY <2>1 DEF Free, Slots
<1>2. QED
  BY <1>1, MinProperty

\* What a failed add falls back to: all that was there, but for what the free slot held
\* besides its credential.
LEMMA AddUndone ==
  ASSUME NEW p \in Payloads, NEW s \in Slots, s \in Free(p), NEW c \in Creds
  PROVE  LET q == WipeSlot(PutCredential(p, s, c), s)
         IN  /\ q \in Payloads
             /\ q.creds = p.creds /\ q.credential_count = p.credential_count
             /\ q.pin = p.pin /\ q.up = p.up /\ q.provenance = p.provenance
             /\ \A t \in InUse(p) : q.counts[t] = p.counts[t]
<1> DEFINE added == PutCredential(p, s, c)
           q == WipeSlot(added, s)
<1>1. added \in Payloads /\ q \in Payloads
  BY SlotUpdateType
<1>2. /\ added.creds = [p.creds EXCEPT ![s] = c] /\ added.counts = [p.counts EXCEPT ![s] = 0]
      /\ added.credential_count = p.credential_count + 1
      /\ added.pin = p.pin /\ added.up = p.up /\ added.provenance = p.provenance
  BY DEF PutCredential, Payloads
<1> HIDE DEF added
<1>3. /\ q.creds = [added.creds EXCEPT ![s] = NoCred]
      /\ q.counts = [added.counts EXCEPT ![s] = 0]
      /\ q.credential_count = IF added.credential_count > 0 THEN added.credential_count - 1
                              ELSE added.credential_count
      /\ q.pin = added.pin /\ q.up = added.up /\ q.provenance = added.provenance
  BY <1>1 DEF WipeSlot, Payloads
<1> HIDE DEF q
<1>4. /\ p.creds \in [Slots -> Creds \cup {NoCred}] /\ p.counts \in [Slots -> Nat]
      /\ p.credential_count \in Nat /\ p.creds[s] = NoCred
  BY DEF Payloads, Free, InUse
<1>5. q.creds = p.creds
  BY <1>2, <1>3, <1>4
<1>6. q.credential_count = p.credential_count
  BY <1>2, <1>3, <1>4
<1>7. ASSUME NEW t \in InUse(p) PROVE q.counts[t] = p.counts[t]
  <2>1. t \in Slots /\ t # s
    BY <1>4 DEF InUse
  <2>2. QED
    BY <1>2, <1>3, <1>4, <2>1
<1>8. QED
  BY <1>1, <1>2, <1>3, <1>5, <1>6, <1>7 DEF q, added

\* What a failed deletion falls back to: the image as it was, put together again.
LEMMA DeleteUndone ==
  ASSUME NEW p \in Payloads, NEW s \in Slots
  PROVE  RestoreSlot(WipeSlot(p, s), s, p) = p
<1> DEFINE wiped == WipeSlot(p, s)
           n == wiped.credential_count
<1>1. /\ p.creds \in [Slots -> Creds \cup {NoCred}] /\ p.counts \in [Slots -> Nat]
      /\ p.credential_count \in Nat
  BY DEF Payloads
<1>2. wiped = [p EXCEPT !.creds = [p.creds EXCEPT ![s] = NoCred],
                        !.counts = [p.counts EXCEPT ![s] = 0], !.credential_count = n]
  BY DEF WipeSlot, Payloads
<1> HIDE DEF wiped, n
<1>3. wiped.creds = [p.creds EXCEPT ![s] = NoCred] /\ wiped.counts = [p.counts EXCEPT ![s] = 0]
  BY <1>2 DEF Payloads
<1>4. /\ [wiped.creds EXCEPT ![s] = p.creds[s]] = p.creds
      /\ [wiped.counts EXCEPT ![s] = p.counts[s]] = p.counts
  BY <1>1, <1>3
<1>5. RestoreSlot(wiped, s, p) = [wiped EXCEPT !.creds = p.creds, !.counts = p.counts,
                                              !.credential_count = p.credential_count]
  BY <1>2, <1>4 DEF RestoreSlot, Payloads
<1>6. QED
  BY <1>2, <1>5 DEF wiped, Payloads

\* What is left of an old image is a payload, and it does not move.
LEMMA LegacyAfterType ==
  ASSUME NEW place,
         legacy \in [place: {"none", "apart", "tail", "in place"}, payload: Payloads]
  PROVE  /\ LegacyAfter(place) \in [place: {"none", "apart", "tail", "in place"},
                                    payload: Payloads]
         /\ LegacyAfter(place).place \in {legacy.place, "none"}
         /\ LegacyAfter(place).payload \in {legacy.payload, EmptyPayload}
         /\ legacy.place # place => LegacyAfter(place) = legacy
<1>1. EmptyPayload \in Payloads
  BY ResetPayloadType DEF EmptyPayload
<1>2. QED
  BY <1>1 DEF LegacyAfter

\* What a boot finds is a payload.
LEMMA DurableType ==
  ASSUME TypeOK, NEW b \in Builds
  PROVE  /\ BasePayload(b) \in Payloads
         /\ SanitizeUP(BasePayload(b), b) \in Payloads
         /\ Durable(b) \in Payloads
         /\ BestSlot \in {None, 0, 1}
<1>1. b \in {"hardened", "debug"}
  BY ConstantsOK
<1>2. BestSlot \in {None, 0, 1}
  BY DEF BestSlot
<1>3. BasePayload(b) \in Payloads
  <2>1. CASE BestSlot # None
    <3>1. slot[BestSlot] \in Images
      <4>1. BestSlot \in 0 .. 1
        BY <1>2, <2>1 DEF None
      <4>2. slot \in [0 .. 1 -> Images]
        BY DEF TypeOK
      <4>3. QED
        BY <4>1, <4>2
    <3>2. QED
      BY <2>1, <3>1 DEF BasePayload, Images
  <2>2. CASE BestSlot = None /\ legacy.place # "none"
    <3>1. [legacy.payload EXCEPT !.provenance = b] \in Payloads
      BY <1>1 DEF TypeOK, Payloads
    <3>2. QED
      BY <2>2, <3>1 DEF BasePayload
  <2>3. CASE BestSlot = None /\ legacy.place = "none"
    BY <1>1, <2>3, ResetPayloadType DEF BasePayload
  <2>4. QED
    BY <2>1, <2>2, <2>3
<1>4. ASSUME NEW p \in Payloads
      PROVE  SanitizeUP(p, b) \in Payloads
  BY <1>1, ConstantsOK DEF SanitizeUP, Payloads
<1>5. ASSUME NEW p \in Payloads
      PROVE  ReplayJournal(p) \in Payloads
  <2> DEFINE n == IF JournalBound THEN ReplayLength ELSE 0
             counts == [s \in Slots |->
                          IF p.creds[s] # NoCred /\ LastEntry(journal.entries, s, n) > 0
                          THEN journal.entries[LastEntry(journal.entries, s, n)].count
                          ELSE p.counts[s]]
  <2>1. journal.entries \in Seq(Entries)
    BY DEF TypeOK
  <2>2. n \in 0 .. Len(journal.entries)
    BY <2>1, ReplayLengthProperty
  <2> HIDE DEF n
  <2>3. ASSUME NEW s \in Slots
        PROVE  counts[s] \in Nat
    <3>1. LastEntry(journal.entries, s, n) \in 0 .. n
      BY <2>1, <2>2, LastEntryProperty
    <3>2. p.counts[s] \in Nat
      BY DEF Payloads
    <3>3. CASE LastEntry(journal.entries, s, n) > 0
      <4>1. LastEntry(journal.entries, s, n) \in 1 .. Len(journal.entries)
        BY <2>1, <2>2, <3>1, <3>3
      <4>2. journal.entries[LastEntry(journal.entries, s, n)] \in Entries
        BY <2>1, <4>1
      <4>3. QED
        BY <3>2, <4>2 DEF Entries
    <3>4. QED
      BY <3>1, <3>2, <3>3
  <2> HIDE DEF counts
  <2>4. counts \in [Slots -> Nat]
    BY <2>3 DEF counts
  <2>5. ReplayJournal(p) = [p EXCEPT !.counts = counts]
    BY DEF ReplayJournal, counts, n
  <2>6. QED
    BY <2>4, <2>5 DEF Payloads
<1>6. QED
  BY <1>2, <1>3, <1>4, <1>5 DEF Durable

--------------------------------------------------------------------------------
(* Type correctness *)

RamTypeOK ==
  /\ store \in Payloads /\ undo \in Payloads
  /\ generation \in Nat /\ crc \in Crcs
  /\ active \in {None, 0, 1} /\ ready \in BOOLEAN /\ next \in Nat

FlashTypeOK ==
  /\ slot \in [0 .. 1 -> Images]
  /\ journal \in [header: Headers, entries: Seq(Entries)]
  /\ legacy \in [place: {"none", "apart", "tail", "in place"}, payload: Payloads]
  /\ build \in Builds

ControlTypeOK ==
  /\ pc \in {"off", "idle", "program", "header", "erase", "bind", "append"}
  /\ op \in {"none", "boot", "commit", "count", "reject"}
  /\ target \in Slots /\ reply \in {"none", "ok", "fail"}
  /\ crashes \in Nat /\ faults \in Nat

\* TypeOK in three parts, and the part about a device that is off.
LEMMA TypeOKParts ==
  TypeOK <=> /\ RamTypeOK /\ FlashTypeOK /\ ControlTypeOK
             /\ pc = "off" => PowerOffRam
BY DEF TypeOK, RamTypeOK, FlashTypeOK, ControlTypeOK

\* The empty values have their types.
LEMMA EmptyTypes ==
  /\ EmptyPayload \in Payloads /\ NoImage \in Images
  /\ NoHeader \in Headers /\ [of |-> "none"] \in Crcs
<1>1. EmptyPayload \in Payloads
  BY ResetPayloadType DEF EmptyPayload
<1>2. QED
  BY <1>1 DEF NoImage, Images, NoHeader, Headers, Crcs

\* The CRC of an image and that of a payload are CRCs.
LEMMA CrcTypes ==
  /\ \A image \in Images : ImageCrc(image) \in Crcs
  /\ \A p \in Payloads : PayloadCrc(p) \in Crcs
BY DEF Images, Crcs, ImageCrc, PayloadCrc

LEMMA InitTypeOK == Init => TypeOK
<1> SUFFICES ASSUME Init PROVE TypeOK
  OBVIOUS
<1>1. PowerOffRam /\ crashes = 0 /\ faults = 0 /\ build \in Builds
  BY DEF Init
<1>2. 0 \in Slots
  BY SlotZero
<1>3. RamTypeOK /\ ControlTypeOK
  BY <1>1, <1>2, EmptyTypes DEF PowerOffRam, RamTypeOK, ControlTypeOK
<1>4. PICK f \in Factory, c \in Creds, n \in 0 .. 1, p \in Pins :
       LET old == OldPayload(c, n, p) IN
        /\ slot = [i \in 0 .. 1 |->
                     IF f = "unwrapped" /\ i = 0
                     THEN [generation |-> 1, payload |-> old, wrapped |-> FALSE]
                     ELSE NoImage]
        /\ legacy = [place   |-> CASE f = "legacy apart"    -> "apart"
                                   [] f = "legacy tail"     -> "tail"
                                   [] f = "legacy in place" -> "in place"
                                   [] OTHER                 -> "none",
                     payload |-> IF f \in {"legacy apart", "legacy tail", "legacy in place"}
                                 THEN old ELSE EmptyPayload]
  BY DEF Init
<1> DEFINE old == OldPayload(c, n, p)
<1>5. old \in Payloads
  <2> DEFINE r == ResetPayload("unknown")
  <2>1. r \in Payloads
    BY ResetPayloadType
  <2> HIDE DEF r
  <2>2. r.creds \in [Slots -> Creds \cup {NoCred}] /\ r.counts \in [Slots -> Nat]
    BY <2>1 DEF Payloads
  <2>3. [r.creds EXCEPT ![0] = c] \in [Slots -> Creds \cup {NoCred}]
    BY <1>2, <2>2
  <2>4. [r.counts EXCEPT ![0] = n] \in [Slots -> Nat]
    BY <1>2, <2>2
  <2>5. [r EXCEPT !.creds[0] = c, !.credential_count = 1, !.counts[0] = n, !.pin = p]
          \in Payloads
    BY <2>1, <2>3, <2>4 DEF Payloads
  <2>6. QED
    BY <2>5 DEF r, OldPayload
<1> HIDE DEF old
<1>6. FlashTypeOK
  <2>1. slot \in [0 .. 1 -> Images]
    BY <1>4, <1>5, EmptyTypes DEF Images, old
  <2>2. legacy \in [place: {"none", "apart", "tail", "in place"}, payload: Payloads]
    BY <1>4, <1>5, EmptyTypes DEF old
  <2>3. journal \in [header: Headers, entries: Seq(Entries)]
    <3>1. journal = [header |-> NoHeader, entries |-> <<>>]
      BY DEF Init
    <3>2. QED
      BY <3>1, EmptyTypes
  <2>4. QED
    BY <1>1, <2>1, <2>2, <2>3 DEF FlashTypeOK
<1>7. QED
  BY <1>1, <1>3, <1>6, TypeOKParts

\* A request leaves every type in place if the payloads it names have theirs.
LEMMA RequestTypeOK ==
  ASSUME TypeOK, NEW new \in Payloads, NEW fallback \in Payloads,
         NEW kind \in {"commit", "count"}, NEW first \in {"program", "erase", "append"},
         Request(kind, new, fallback, first), target' \in Slots
  PROVE  TypeOK'
<1>1. RamTypeOK'
  BY TypeOKParts DEF Request, RamTypeOK
<1>2. FlashTypeOK'
  BY TypeOKParts DEF Request, FlashTypeOK, flash
<1>3. ControlTypeOK'
  BY TypeOKParts DEF Request, ControlTypeOK
<1>4. pc' # "off"
  BY DEF Request
<1>5. QED
  BY <1>1, <1>2, <1>3, <1>4 DEF TypeOK, RamTypeOK, FlashTypeOK, ControlTypeOK

\* A step that loses power ends with the device off and its RAM cleared.
LEMMA LoseRamTypeOK ==
  ASSUME TypeOK, LoseRam,
         slot' \in [0 .. 1 -> Images], legacy' = legacy,
         journal' \in [header: Headers, entries: Seq(Entries)]
  PROVE  TypeOK'
<1>1. PowerOffRam'
  BY DEF LoseRam, PowerOffRam, EmptyPayload, ResetPayload, None, Slots
<1>2. RamTypeOK'
  BY EmptyTypes DEF LoseRam, RamTypeOK
<1>3. FlashTypeOK'
  BY TypeOKParts DEF LoseRam, FlashTypeOK
<1>4. ControlTypeOK'
  BY SlotZero, TypeOKParts DEF LoseRam, ControlTypeOK
<1>5. QED
  BY <1>1, <1>2, <1>3, <1>4 DEF TypeOK, RamTypeOK, FlashTypeOK, ControlTypeOK

LEMMA BootTypeOK ==
  ASSUME TypeOK, NEW b \in Builds, Boot(b)
  PROVE  TypeOK'
<1>1. b \in {"hardened", "debug"}
  BY ConstantsOK
<1>2. /\ Durable(b) \in Payloads /\ ResetPayload(b) \in Payloads
      /\ BestSlot \in {None, 0, 1}
  BY <1>1, DurableType, ResetPayloadType
<1>3. generation' \in Nat
  <2>1. CASE BestSlot = None
    BY <2>1 DEF Boot
  <2>2. CASE BestSlot # None
    <3>1. slot[BestSlot] \in Images
      <4>1. BestSlot \in 0 .. 1
        BY <1>2, <2>2 DEF None
      <4>2. slot \in [0 .. 1 -> Images]
        BY DEF TypeOK
      <4>3. QED
        BY <4>1, <4>2
    <3>2. QED
      BY <2>2, <3>1 DEF Boot, Images
  <2>3. QED
    BY <2>1, <2>2
<1>4. ready' \in BOOLEAN /\ next' \in Nat
  <2>1. journal.entries \in Seq(Entries)
    BY DEF TypeOK
  <2>2. ReplayLength \in Nat
    BY <2>1, ReplayLengthProperty
  <2>3. QED
    BY <2>2 DEF Boot, ResumeIndex, JournalBound
<1>5. crc' \in Crcs
  BY <1>2, CrcTypes DEF Boot
<1>6. RamTypeOK'
  BY <1>2, <1>3, <1>4, <1>5 DEF Boot, RamTypeOK
<1>7. FlashTypeOK'
  BY TypeOKParts DEF Boot, FlashTypeOK
<1>8. ControlTypeOK' /\ pc' # "off"
  <2>1. pc' \in {"program", "idle"}
    BY DEF Boot
  <2>2. QED
    BY <2>1, TypeOKParts DEF Boot, ControlTypeOK
<1>9. QED
  BY <1>6, <1>7, <1>8 DEF TypeOK, RamTypeOK, FlashTypeOK, ControlTypeOK

\* Each request keeps the types.
LEMMA RequestsTypeOK ==
  ASSUME TypeOK,
         \/ \E c \in Creds : Add(c)
         \/ \E s \in Slots : Delete(s)
         \/ Clear
         \/ \E p \in Pins : SetPin(p)
         \/ \E u \in UPConfigs : SetUP(u)
         \/ \E s \in Slots : UpdateSignCount(s)
  PROVE  TypeOK'
<1>1. store \in Payloads /\ target \in Slots /\ build \in {"hardened", "debug"}
  BY ConstantsOK DEF TypeOK
<1>2. ASSUME NEW c \in Creds, Add(c) PROVE TypeOK'
  <2> DEFINE s == Min(Free(store))
             new == PutCredential(store, s, c)
             fallback == WipeSlot(new, s)
  <2>1. s \in Slots
    BY <1>2, FreeSlot DEF Add
  <2>2. new \in Payloads /\ fallback \in Payloads
    <3> HIDE DEF s
    <3>1. QED
      BY <1>1, <2>1, SlotUpdateType
  <2>3. Request("commit", new, fallback, "program") /\ target' = target
    BY <1>2 DEF Add
  <2> HIDE DEF new, fallback
  <2>4. QED
    BY <1>1, <2>2, <2>3, RequestTypeOK
<1>3. ASSUME NEW s \in Slots, Delete(s) PROVE TypeOK'
  <2>1. WipeSlot(store, s) \in Payloads
    BY <1>1, SlotUpdateType
  <2>2. Request("commit", WipeSlot(store, s), store, "program") /\ target' = target
    BY <1>1, <1>3, DeleteUndone DEF Delete
  <2>3. QED
    BY <1>1, <2>1, <2>2, RequestTypeOK
<1>4. ASSUME Clear PROVE TypeOK'
  <2> DEFINE new == [store EXCEPT !.creds = EmptyPayload.creds, !.counts = EmptyPayload.counts,
                                  !.credential_count = 0]
  <2>1. new \in Payloads
    BY <1>1, EmptyTypes DEF Payloads
  <2>2. Request("commit", new, new, "program") /\ target' = target
    BY <1>4 DEF Clear
  <2> HIDE DEF new
  <2>3. QED
    BY <1>1, <2>1, <2>2, RequestTypeOK
<1>5. ASSUME NEW p \in Pins, SetPin(p) PROVE TypeOK'
  <2> DEFINE new == [store EXCEPT !.pin = p]
  <2>1. new \in Payloads
    BY <1>1 DEF Payloads
  <2>2. Request("commit", new, new, "program") /\ target' = target
    BY <1>5 DEF SetPin
  <2> HIDE DEF new
  <2>3. QED
    BY <1>1, <2>1, <2>2, RequestTypeOK
<1>6. ASSUME NEW u \in UPConfigs, SetUP(u) PROVE TypeOK'
  <2> DEFINE new == [store EXCEPT !.up = u, !.provenance = build]
  <2>1. new \in Payloads
    BY <1>1 DEF Payloads
  <2>2. Request("commit", new, new, "program") /\ target' = target
    BY <1>6 DEF SetUP
  <2> HIDE DEF new
  <2>3. QED
    BY <1>1, <2>1, <2>2, RequestTypeOK
<1>7. ASSUME NEW s \in Slots, UpdateSignCount(s) PROVE TypeOK'
  <2> DEFINE new == [store EXCEPT !.counts[s] = store.counts[s] + 1]
  <2>1. new \in Payloads
    <3>1. store.counts \in [Slots -> Nat]
      BY <1>1 DEF Payloads
    <3>2. [store.counts EXCEPT ![s] = store.counts[s] + 1] \in [Slots -> Nat]
      BY <3>1
    <3>3. QED
      BY <1>1, <3>2 DEF Payloads
  <2>2. Request("count", new, store, AppendFrom) /\ target' = s
    BY <1>7 DEF UpdateSignCount
  <2> HIDE DEF new
  <2>3. AppendFrom \in {"program", "erase", "append"}
    <3>1. ready \in BOOLEAN /\ next \in Nat /\ JournalCapacity \in Nat
      BY ConstantsOK DEF TypeOK
    <3>2. QED
      BY <3>1 DEF AppendFrom
  <2>4. QED
    BY <1>1, <2>1, <2>2, <2>3, RequestTypeOK
<1>8. QED
  BY <1>2, <1>3, <1>4, <1>5, <1>6, <1>7

\* Each flash step keeps the types.
LEMMA FlashStepTypeOK ==
  ASSUME TypeOK, FlashStep
  PROVE  TypeOK'
<1>1. RamTypeOK /\ FlashTypeOK /\ ControlTypeOK
  BY TypeOKParts
<1>2. TargetSlot \in 0 .. 1
  BY DEF TargetSlot
<1>3. ASSUME Fail, UNCHANGED <<op, target, undo, crashes>>
      PROVE  RamTypeOK' /\ ControlTypeOK' /\ pc' # "off"
  BY <1>1, <1>3 DEF Fail, RamTypeOK, ControlTypeOK
<1>4. CASE ProgramBody
  <2>1. slot' \in [0 .. 1 -> Images] /\ legacy' \in [place: {"none", "apart", "tail", "in place"},
                                                   payload: Payloads]
    BY <1>1, <1>2, <1>4, EmptyTypes, LegacyAfterType DEF ProgramBody, FlashTypeOK
  <2>2. FlashTypeOK'
    BY <1>1, <1>4, <2>1 DEF ProgramBody, FlashTypeOK
  <2>3. RamTypeOK' /\ ControlTypeOK' /\ pc' # "off"
    <3>1. CASE pc' = "header" /\ UNCHANGED <<ram, reply, faults>>
      BY <1>1, <1>4, <3>1 DEF ProgramBody, RamTypeOK, ControlTypeOK, ram
    <3>2. CASE Fail
      BY <1>3, <1>4, <3>2 DEF ProgramBody
    <3>3. QED
      BY <1>4, <3>1, <3>2 DEF ProgramBody
  <2>4. QED
    BY <2>2, <2>3 DEF TypeOK, RamTypeOK, FlashTypeOK, ControlTypeOK
<1>5. CASE ProgramHeader
  <2> DEFINE image == [generation |-> generation + 1, payload |-> store, wrapped |-> TRUE]
  <2>1. image \in Images /\ ImageCrc(image) \in Crcs
    <3>1. image \in Images
      BY <1>1 DEF RamTypeOK, Images
    <3>2. QED
      BY <3>1, CrcTypes
  <2>2. CASE /\ slot' = [slot EXCEPT ![TargetSlot] = image]
             /\ active' = TargetSlot
             /\ generation' = generation + 1
             /\ crc' = ImageCrc(image)
             /\ pc' = "erase"
             /\ UNCHANGED <<store, ready, next, reply, faults>>
    <3> HIDE DEF image
    <3>1. FlashTypeOK'
      BY <1>1, <1>2, <1>5, <2>1, <2>2 DEF ProgramHeader, FlashTypeOK
    <3>2. RamTypeOK'
      BY <1>1, <1>2, <1>5, <2>1, <2>2 DEF ProgramHeader, RamTypeOK
    <3>3. ControlTypeOK' /\ pc' # "off"
      BY <1>1, <1>5, <2>2 DEF ProgramHeader, ControlTypeOK
    <3>4. QED
      BY <3>1, <3>2, <3>3 DEF TypeOK, RamTypeOK, FlashTypeOK, ControlTypeOK
  <2>3. CASE Fail /\ UNCHANGED slot
    <3>1. FlashTypeOK'
      BY <1>1, <1>5, <2>3 DEF ProgramHeader, FlashTypeOK
    <3>2. RamTypeOK' /\ ControlTypeOK' /\ pc' # "off"
      BY <1>3, <1>5, <2>3 DEF ProgramHeader
    <3>3. QED
      BY <3>1, <3>2 DEF TypeOK, RamTypeOK, FlashTypeOK, ControlTypeOK
  <2>4. QED
    BY <1>5, <2>2, <2>3 DEF ProgramHeader
<1>6. CASE EraseJournal
  <2>1. FlashTypeOK'
    <3>1. journal' = [header |-> NoHeader, entries |-> <<>>]
      BY <1>6 DEF EraseJournal
    <3>2. journal' \in [header: Headers, entries: Seq(Entries)]
      BY <3>1, EmptyTypes
    <3>3. QED
      BY <1>1, <1>6, <3>2, LegacyAfterType DEF EraseJournal, FlashTypeOK
  <2>2. RamTypeOK' /\ ControlTypeOK' /\ pc' # "off"
    BY <1>1, <1>6 DEF EraseJournal, RamTypeOK, ControlTypeOK, ram
  <2>3. QED
    BY <2>1, <2>2 DEF TypeOK, RamTypeOK, FlashTypeOK, ControlTypeOK
<1>7. CASE BindJournal
  <2>1. FlashTypeOK'
    <3>1. [generation |-> generation, crc |-> crc] \in Headers
      BY <1>1 DEF RamTypeOK, Headers
    <3>2. QED
      BY <1>1, <1>7, <3>1 DEF BindJournal, FlashTypeOK
  <2>2. RamTypeOK' /\ ControlTypeOK' /\ pc' # "off"
    BY <1>1, <1>7 DEF BindJournal, Done, RamTypeOK, ControlTypeOK
  <2>3. QED
    BY <2>1, <2>2 DEF TypeOK, RamTypeOK, FlashTypeOK, ControlTypeOK
<1>8. CASE AppendEntry
  <2>0. AppendIndex \in Nat
    BY <1>1 DEF RamTypeOK, AppendIndex
  <2>1. CASE AppendIndex = Len(journal.entries)
    <3> DEFINE entry == [whole |-> TRUE, slot |-> target, count |-> store.counts[target]]
    <3>1. entry \in Entries
      <4>1. store.counts \in [Slots -> Nat] /\ target \in Slots
        BY <1>1 DEF RamTypeOK, ControlTypeOK, Payloads
      <4>2. QED
        BY <4>1 DEF Entries
    <3>2. /\ journal' = [journal EXCEPT !.entries = Append(@, entry)]
          /\ next' = AppendIndex + 1 /\ Done /\ UNCHANGED store
      BY <1>8, <2>0, <2>1 DEF AppendEntry
    <3> HIDE DEF entry
    <3>3. FlashTypeOK'
      <4>1. /\ journal.entries \in Seq(Entries) /\ journal.header \in Headers
            /\ journal = [header |-> journal.header, entries |-> journal.entries]
        BY <1>1 DEF FlashTypeOK
      <4>2. journal' = [header |-> journal.header, entries |-> Append(journal.entries, entry)]
        BY <3>2, <4>1
      <4>3. Append(journal.entries, entry) \in Seq(Entries)
        BY <3>1, <4>1
      <4>4. journal' \in [header: Headers, entries: Seq(Entries)]
        BY <4>1, <4>2, <4>3
      <4>5. QED
        BY <1>1, <1>8, <4>4 DEF AppendEntry, FlashTypeOK
    <3>4. RamTypeOK' /\ ControlTypeOK' /\ pc' # "off"
      BY <1>1, <1>8, <2>0, <3>2 DEF AppendEntry, Done, RamTypeOK, ControlTypeOK
    <3>5. QED
      BY <3>3, <3>4 DEF TypeOK, RamTypeOK, FlashTypeOK, ControlTypeOK
  <2>2. CASE /\ store' = undo /\ pc' = "idle" /\ reply' = "fail"
             /\ next' = AppendIndex /\ UNCHANGED journal
    <3>1. FlashTypeOK'
      BY <1>1, <1>8, <2>2 DEF AppendEntry, FlashTypeOK
    <3>2. RamTypeOK' /\ ControlTypeOK' /\ pc' # "off"
      BY <1>1, <1>8, <2>0, <2>2 DEF AppendEntry, RamTypeOK, ControlTypeOK
    <3>3. QED
      BY <3>1, <3>2 DEF TypeOK, RamTypeOK, FlashTypeOK, ControlTypeOK
  <2>3. QED
    BY <1>8, <2>1, <2>2 DEF AppendEntry
<1>9. QED
  BY <1>4, <1>5, <1>6, <1>7, <1>8 DEF FlashStep

\* Every step keeps the types.
LEMMA NextTypeOK == TypeOK /\ [Next]_vars => TypeOK'
<1> SUFFICES ASSUME TypeOK, [Next]_vars PROVE TypeOK'
  OBVIOUS
<1>1. CASE \E b \in Builds : Boot(b)
  BY <1>1, BootTypeOK
<1>2. CASE Crash
  BY <1>2, LoseRamTypeOK DEF Crash, TypeOK
<1>3. CASE CrashInAppend
  <2>1. /\ journal.entries \in Seq(Entries) /\ journal.header \in Headers
        /\ journal = [header |-> journal.header, entries |-> journal.entries]
        /\ target \in Slots /\ store.counts[target] \in Nat
    BY DEF TypeOK, Payloads
  <2>2. PICK w \in BOOLEAN, n \in store.counts[target] .. MaxSignCount :
          journal' = [journal EXCEPT !.entries =
                        Append(@, [whole |-> w, slot |-> target, count |-> n])]
    BY <1>3 DEF CrashInAppend
  <2> DEFINE entry == [whole |-> w, slot |-> target, count |-> n]
  <2>3. entry \in Entries
    <3> DEFINE least == store.counts[target]
    <3>0. least \in Nat /\ n \in least .. MaxSignCount /\ MaxSignCount \in Nat
      BY <2>1, ConstantsOK
    <3>1. n \in Nat
      <4> HIDE DEF least
      <4>1. QED
        BY <3>0
    <3>2. QED
      BY <2>1, <3>1 DEF Entries
  <2>4. journal' = [journal EXCEPT !.entries = Append(@, entry)]
    BY <2>2
  <2> HIDE DEF entry
  <2>5. Append(journal.entries, entry) \in Seq(Entries)
    BY <2>1, <2>3
  <2>6. journal' \in [header: Headers, entries: Seq(Entries)]
    BY <2>1, <2>4, <2>5
  <2>7. LoseRam /\ slot' = slot /\ legacy' = legacy /\ slot \in [0 .. 1 -> Images]
    BY <1>3 DEF CrashInAppend, TypeOK
  <2>8. QED
    BY <2>6, <2>7, LoseRamTypeOK
<1>4. CASE \/ \E c \in Creds : Add(c)
           \/ \E s \in Slots : Delete(s)
           \/ Clear
           \/ \E p \in Pins : SetPin(p)
           \/ \E u \in UPConfigs : SetUP(u)
           \/ \E s \in Slots : UpdateSignCount(s)
  BY <1>4, RequestsTypeOK
<1>5. CASE Reject
  <2>1. RamTypeOK' /\ FlashTypeOK' /\ ControlTypeOK' /\ pc' # "off"
    <3>1. RamTypeOK'
      BY <1>5, TypeOKParts DEF Reject, RamTypeOK, ram
    <3>2. FlashTypeOK'
      BY <1>5, TypeOKParts DEF Reject, FlashTypeOK, flash
    <3>3. ControlTypeOK' /\ pc' # "off"
      BY <1>5, TypeOKParts DEF Reject, ControlTypeOK
    <3>4. QED
      BY <3>1, <3>2, <3>3
  <2>2. QED
    BY <2>1, Zenon DEF TypeOK, RamTypeOK, FlashTypeOK, ControlTypeOK
<1>6. CASE FlashStep
  BY <1>6, FlashStepTypeOK
<1>7. CASE UNCHANGED vars
  <2>1. /\ UNCHANGED <<slot, journal, legacy, build>>
        /\ UNCHANGED <<store, generation, crc, active, ready, next>>
        /\ UNCHANGED <<pc, op, target, undo, reply, crashes, faults>>
    BY <1>7 DEF vars, flash, ram, control
  <2>2. RamTypeOK' /\ FlashTypeOK'
    BY <2>1, TypeOKParts DEF RamTypeOK, FlashTypeOK
  <2>3. ControlTypeOK' /\ (pc' = "off" => PowerOffRam')
    BY <2>1, TypeOKParts DEF ControlTypeOK, PowerOffRam
  <2>4. QED
    BY <2>2, <2>3, Zenon DEF TypeOK, RamTypeOK, FlashTypeOK, ControlTypeOK
<1>8. QED
  BY <1>1, <1>2, <1>3, <1>4, <1>5, <1>6, <1>7 DEF Next

\* Every variable always has its type, and RAM is cleared while the power is off.
THEOREM TypeCorrect == Spec => []TypeOK
<1>1. QED
  BY InitTypeOK, NextTypeOK, PTL DEF Spec

--------------------------------------------------------------------------------
(* The active slot *)

\* A step that keeps the slots, the active one and the generation, and does not
\* switch the device on, keeps ActiveImageIsBest.
LEMMA SameSlotsBest ==
  ASSUME ActiveImageIsBest, pc = "off" => pc' = "off",
         UNCHANGED <<slot, active, generation>>
  PROVE  ActiveImageIsBest'
BY DEF ActiveImageIsBest, BestSlot, Holds

LEMMA ProgramBest ==
  ASSUME TypeOK, ActiveImageIsBest, ProgramBody \/ ProgramHeader
  PROVE  ActiveImageIsBest'
<1>1. /\ slot \in [0 .. 1 -> Images] /\ slot[0].generation \in Nat
      /\ slot[1].generation \in Nat /\ generation \in Nat
  <2>1. slot \in [0 .. 1 -> Images] /\ generation \in Nat
    BY DEF TypeOK
  <2>2. slot[0] \in Images /\ slot[1] \in Images
    BY <2>1
  <2>3. QED
    BY <2>1, <2>2 DEF Images
<1>2. /\ pc # "off" /\ BestSlot = active /\ active \in {None, 0, 1}
      /\ generation = IF active = None THEN 0 ELSE slot[active].generation
  BY DEF ActiveImageIsBest, TypeOK, ProgramBody, ProgramHeader
<1>3. CASE ProgramBody
  <2>1. /\ slot' = [slot EXCEPT ![TargetSlot] = NoImage] /\ UNCHANGED <<active, generation>>
    BY <1>3 DEF ProgramBody, Fail, ram
  <2>2. NoImage.generation = 0
    BY DEF NoImage
  <2>3. slot'[TargetSlot].generation = 0 /\ \A i \in 0 .. 1 : i # TargetSlot => slot'[i] = slot[i]
    BY <1>1, <2>1, <2>2 DEF TargetSlot
  <2>4. CASE active = None
    <3>1. TargetSlot = 0 /\ ~ Holds(0) /\ ~ Holds(1)
      BY <1>1, <1>2, <2>4 DEF BestSlot, TargetSlot, None
    <3>2. ~ Holds(0)' /\ ~ Holds(1)'
      BY <1>1, <2>3, <3>1 DEF Holds
    <3>3. QED
      BY <1>2, <2>1, <2>4, <3>2 DEF ActiveImageIsBest, BestSlot
  <2>5. CASE active = 0
    <3>1. TargetSlot = 1 /\ Holds(0)
      BY <1>1, <1>2, <2>5 DEF BestSlot, TargetSlot, Holds, None
    <3>2. slot'[0] = slot[0] /\ slot'[1].generation = 0
      BY <2>3, <3>1
    <3>3. QED
      BY <1>1, <1>2, <2>1, <2>5, <3>1, <3>2 DEF ActiveImageIsBest, BestSlot, Holds, None
  <2>6. CASE active = 1
    <3>1. TargetSlot = 0 /\ Holds(1)
      BY <1>1, <1>2, <2>6 DEF BestSlot, TargetSlot, Holds, None
    <3>2. slot'[1] = slot[1] /\ slot'[0].generation = 0
      BY <2>3, <3>1
    <3>3. QED
      BY <1>1, <1>2, <2>1, <2>6, <3>1, <3>2 DEF ActiveImageIsBest, BestSlot, Holds, None
  <2>7. QED
    BY <1>2, <2>4, <2>5, <2>6
<1>4. CASE ProgramHeader
  <2>1. CASE Fail /\ UNCHANGED slot
    BY <1>2, <2>1, SameSlotsBest DEF Fail
  <2>2. CASE ~ (Fail /\ UNCHANGED slot)
    <3> DEFINE image == [generation |-> generation + 1, payload |-> store, wrapped |-> TRUE]
    <3>1. /\ slot' = [slot EXCEPT ![TargetSlot] = image]
          /\ active' = TargetSlot /\ generation' = generation + 1 /\ pc' = "erase"
      BY <1>4, <2>2 DEF ProgramHeader
    <3>2. image.generation = generation + 1
      OBVIOUS
    <3> HIDE DEF image
    <3>3. /\ slot'[TargetSlot].generation = generation + 1
          /\ \A i \in 0 .. 1 : i # TargetSlot => slot'[i] = slot[i]
      BY <1>1, <3>1, <3>2 DEF TargetSlot
    <3>4. CASE active = None
      <4>1. TargetSlot = 0 /\ slot[1].generation = 0 /\ generation = 0
        BY <1>1, <1>2, <3>4 DEF BestSlot, TargetSlot, Holds, None
      <4>2. slot'[0].generation = 1 /\ slot'[1].generation = 0
        BY <3>3, <4>1
      <4>3. QED
        BY <3>1, <4>1, <4>2 DEF ActiveImageIsBest, BestSlot, Holds, None
    <3>5. CASE active = 0
      <4>1. TargetSlot = 1 /\ generation = slot[0].generation
        BY <1>2, <3>5 DEF TargetSlot, None
      <4>2. slot'[0] = slot[0] /\ slot'[1].generation = generation + 1
        BY <3>3, <4>1
      <4>3. QED
        BY <1>1, <3>1, <4>1, <4>2 DEF ActiveImageIsBest, BestSlot, Holds, None
    <3>6. CASE active = 1
      <4>1. TargetSlot = 0 /\ generation = slot[1].generation
        BY <1>2, <3>6 DEF TargetSlot, None
      <4>2. slot'[1] = slot[1] /\ slot'[0].generation = generation + 1
        BY <3>3, <4>1
      <4>3. QED
        BY <1>1, <3>1, <4>1, <4>2 DEF ActiveImageIsBest, BestSlot, Holds, None
    <3>7. QED
      BY <1>2, <3>4, <3>5, <3>6
  <2>3. QED
    BY <2>1, <2>2
<1>5. QED
  BY <1>3, <1>4

\* What each step may do to the slots and to what RAM knows of them.
LEMMA StepsOnSlots ==
  ASSUME Next
  PROVE  \/ \E b \in Builds : Boot(b)
         \/ pc' = "off" /\ (Crash \/ CrashInAppend)
         \/ ProgramBody \/ ProgramHeader
         \/ pc # "off" /\ UNCHANGED <<slot, active, generation>>
BY DEF Next, Add, Delete, Clear, SetPin, SetUP, UpdateSignCount, Request, Reject, Crash,
       CrashInAppend, LoseRam, FlashStep, EraseJournal, BindJournal, AppendEntry, flash, ram

\* The slot that RAM takes for active is the one a boot would choose.
THEOREM ActiveBestCorrect == Spec => []ActiveImageIsBest
<1>1. Init => ActiveImageIsBest
  BY DEF Init, PowerOffRam, ActiveImageIsBest
<1>2. ASSUME TypeOK, ActiveImageIsBest, [Next]_vars
      PROVE  ActiveImageIsBest'
  <2>1. CASE \E b \in Builds : Boot(b)
    <3>1. PICK b \in Builds : Boot(b)
      BY <2>1
    <3>2. /\ UNCHANGED slot /\ active' = BestSlot
          /\ generation' = IF BestSlot = None THEN 0 ELSE slot[BestSlot].generation
      BY <3>1 DEF Boot
    <3>3. BestSlot' = BestSlot
      BY <3>2 DEF BestSlot, Holds
    <3>4. QED
      BY <3>2, <3>3 DEF ActiveImageIsBest
  <2>2. CASE pc' = "off"
    BY <2>2 DEF ActiveImageIsBest
  <2>3. CASE ProgramBody \/ ProgramHeader
    BY <1>2, <2>3, ProgramBest
  <2>4. CASE pc # "off" /\ UNCHANGED <<slot, active, generation>>
    BY <1>2, <2>4, SameSlotsBest
  <2>5. CASE UNCHANGED vars
    BY <1>2, <2>5, SameSlotsBest DEF vars, flash, ram, control
  <2>6. QED
    BY <1>2, <2>1, <2>2, <2>3, <2>4, <2>5, StepsOnSlots
<1>3. QED
  BY <1>1, <1>2, TypeCorrect, PTL DEF Spec

--------------------------------------------------------------------------------
(* The origin of the user-presence configuration *)

\* The inductive form of HardenedDistrustsDebug: a failing operation may fall back to
\* the image it started from.
ProvenanceInv ==
  pc # "off" /\ build = "hardened" =>
    store.provenance = "hardened" /\ undo.provenance = "hardened"

\* What a hardened build loads is of hardened origin.
LEMMA DurableProvenance ==
  ASSUME TypeOK, "hardened" \in Builds
  PROVE  Durable("hardened").provenance = "hardened"
<1> DEFINE p == SanitizeUP(BasePayload("hardened"), "hardened")
<1>1. p \in Payloads /\ BasePayload("hardened") \in Payloads
  BY DurableType
<1>2. p.provenance = "hardened"
  BY <1>1 DEF SanitizeUP, Payloads
<1> HIDE DEF p
<1>3. ReplayJournal(p).provenance = p.provenance
  BY <1>1 DEF ReplayJournal, Payloads
<1>4. QED
  BY <1>2, <1>3 DEF Durable, p

\* A hardened build never acts on a configuration that it did not write itself.
THEOREM HardenedCorrect == Spec => []HardenedDistrustsDebug
<1>1. Init => ProvenanceInv
  BY DEF Init, PowerOffRam, ProvenanceInv
<1>2. ASSUME TypeOK, ProvenanceInv, [Next]_vars
      PROVE  ProvenanceInv'
  <2>1. CASE \E b \in Builds : Boot(b)
    <3>1. PICK b \in Builds : Boot(b)
      BY <2>1
    <3>2. build' = b /\ store' = Durable(b) /\ undo' = Durable(b)
      BY <3>1 DEF Boot
    <3>3. QED
      BY <1>2, <3>2, DurableProvenance DEF ProvenanceInv
  <2>2. CASE Crash \/ CrashInAppend
    BY <2>2 DEF Crash, CrashInAppend, LoseRam, ProvenanceInv
  <2>3. ASSUME NEW kind, NEW new, NEW fallback, NEW first, pc = "idle",
               Request(kind, new, fallback, first),
               build = "hardened" /\ store.provenance = "hardened"
                 => new.provenance = "hardened" /\ fallback.provenance = "hardened"
        PROVE  ProvenanceInv'
    BY <1>2, <2>3 DEF Request, ProvenanceInv, flash
  <2>4. store \in Payloads
    BY <1>2 DEF TypeOK
  <2>5. ASSUME NEW c \in Creds, Add(c) PROVE ProvenanceInv'
    <3> DEFINE t == Min(Free(store))
               new == PutCredential(store, t, c)
               fallback == WipeSlot(new, t)
    <3>1. t \in Slots /\ t \in Free(store)
      BY <2>5, FreeSlot DEF Add
    <3>2. new.provenance = store.provenance
      BY <2>4 DEF PutCredential, Payloads
    <3>3. fallback.provenance = store.provenance
      <4> HIDE DEF t
      <4>1. QED
        BY <2>4, <3>1, AddUndone
    <3>4. Request("commit", new, fallback, "program") /\ pc = "idle"
      BY <2>5 DEF Add
    <3> HIDE DEF new, fallback
    <3>5. QED
      BY <2>3, <3>2, <3>3, <3>4
  <2>6. ASSUME NEW s \in Slots, Delete(s) PROVE ProvenanceInv'
    <3>1. WipeSlot(store, s).provenance = store.provenance
      BY <2>4 DEF WipeSlot, Payloads
    <3>2. Request("commit", WipeSlot(store, s), store, "program") /\ pc = "idle"
      BY <2>4, <2>6, DeleteUndone DEF Delete
    <3>3. QED
      BY <2>3, <3>1, <3>2
  <2>7. CASE Clear
    <3> DEFINE new == [store EXCEPT !.creds = EmptyPayload.creds,
                                    !.counts = EmptyPayload.counts, !.credential_count = 0]
    <3>1. new.provenance = store.provenance
      BY <2>4 DEF Payloads
    <3>2. Request("commit", new, new, "program") /\ pc = "idle"
      BY <2>7 DEF Clear
    <3> HIDE DEF new
    <3>3. QED
      BY <2>3, <3>1, <3>2
  <2>8. ASSUME NEW p \in Pins, SetPin(p) PROVE ProvenanceInv'
    <3> DEFINE new == [store EXCEPT !.pin = p]
    <3>1. new.provenance = store.provenance
      BY <2>4 DEF Payloads
    <3>2. Request("commit", new, new, "program") /\ pc = "idle"
      BY <2>8 DEF SetPin
    <3> HIDE DEF new
    <3>3. QED
      BY <2>3, <3>1, <3>2
  <2>9. ASSUME NEW u \in UPConfigs, SetUP(u) PROVE ProvenanceInv'
    <3> DEFINE new == [store EXCEPT !.up = u, !.provenance = build]
    <3>1. new.provenance = build
      BY <2>4 DEF Payloads
    <3>2. Request("commit", new, new, "program") /\ pc = "idle"
      BY <2>9 DEF SetUP
    <3> HIDE DEF new
    <3>3. QED
      BY <2>3, <3>1, <3>2
  <2>10. ASSUME NEW s \in Slots, UpdateSignCount(s) PROVE ProvenanceInv'
    <3> DEFINE new == [store EXCEPT !.counts[s] = store.counts[s] + 1]
    <3>1. new.provenance = store.provenance
      BY <2>4 DEF Payloads
    <3>2. Request("count", new, store, AppendFrom) /\ pc = "idle"
      BY <2>10 DEF UpdateSignCount
    <3> HIDE DEF new
    <3>3. QED
      BY <2>3, <3>1, <3>2
  <2>11. CASE Reject
    BY <1>2, <2>11 DEF Reject, ProvenanceInv, flash, ram
  <2>12. CASE FlashStep
    <3>1. /\ build' = build /\ undo' = undo /\ pc # "off"
          /\ store' = store \/ store' = undo
      BY <2>12 DEF FlashStep, ProgramBody, ProgramHeader, EraseJournal, BindJournal,
                   AppendEntry, Fail, ram
    <3>2. QED
      BY <1>2, <3>1 DEF ProvenanceInv
  <2>13. CASE UNCHANGED vars
    BY <1>2, <2>13 DEF vars, flash, ram, control, ProvenanceInv
  <2>14. QED
    BY <1>2, <2>1, <2>2, <2>5, <2>6, <2>7, <2>8, <2>9, <2>10, <2>11, <2>12, <2>13 DEF Next
<1>3. ProvenanceInv => HardenedDistrustsDebug
  BY DEF ProvenanceInv, HardenedDistrustsDebug
<1>4. QED
  BY <1>1, <1>2, <1>3, TypeCorrect, PTL DEF Spec

--------------------------------------------------------------------------------
(* Acknowledged commits *)

\* The active slot holds the RAM image.
ImageIsStore == active # None /\ slot[active].payload = store

\* The inductive form of AckedCommitIsDurable: once its header page is written a
\* commit has its image, and before its answer it has emptied the journal.
CommitInv ==
  /\ pc = "append" => op = "count"
  /\ pc = "bind" => journal.entries = <<>>
  /\ pc \in {"erase", "bind"} /\ op = "commit" => ImageIsStore
  /\ pc = "idle" /\ op = "commit" /\ reply = "ok"
       => ImageIsStore /\ journal.entries = <<>>

\* With no entries to replay, a boot finds the image of the newest slot.
LEMMA NothingToReplay ==
  ASSUME TypeOK, journal.entries = <<>>, NEW p \in Payloads
  PROVE  ReplayJournal(p) = p
<1> DEFINE n == IF JournalBound THEN ReplayLength ELSE 0
<1>1. n = 0
  <2>1. journal.entries \in Seq(Entries)
    BY DEF TypeOK
  <2>2. ReplayLength \in 0 .. Len(journal.entries)
    BY <2>1, ReplayLengthProperty
  <2>3. Len(journal.entries) = 0
    OBVIOUS
  <2>4. QED
    BY <2>2, <2>3
<1> HIDE DEF n
<1>2. ASSUME NEW s \in Slots
      PROVE  LastEntry(journal.entries, s, n) = 0
  <2>1. LastEntry(journal.entries, s, n) \in 0 .. n
    BY <1>1, LastEntryProperty
  <2>2. QED
    BY <1>1, <2>1
<1>3. [s \in Slots |-> IF p.creds[s] # NoCred /\ LastEntry(journal.entries, s, n) > 0
                       THEN journal.entries[LastEntry(journal.entries, s, n)].count
                       ELSE p.counts[s]]
        = p.counts
  <2>1. p.counts \in [Slots -> Nat]
    BY DEF Payloads
  <2>2. QED
    BY <1>2, <2>1
<1>4. [p EXCEPT !.counts = p.counts] = p
  BY DEF Payloads
<1>5. QED
  BY <1>3, <1>4 DEF ReplayJournal, n

LEMMA CommitInvInductive ==
  ASSUME TypeOK, CommitInv, [Next]_vars
  PROVE  CommitInv'
<1>1. CASE \E b \in Builds : Boot(b)
  BY <1>1 DEF Boot, CommitInv
<1>2. CASE Crash \/ CrashInAppend
  BY <1>2 DEF Crash, CrashInAppend, LoseRam, CommitInv
<1>3. ASSUME NEW new, NEW fallback, Request("commit", new, fallback, "program")
      PROVE  CommitInv'
  BY <1>3 DEF Request, CommitInv
<1>4. CASE (\E c \in Creds : Add(c)) \/ (\E s \in Slots : Delete(s)) \/ Clear
  BY <1>3, <1>4 DEF Add, Delete, Clear
<1>5. CASE (\E p \in Pins : SetPin(p)) \/ (\E u \in UPConfigs : SetUP(u))
  BY <1>3, <1>5 DEF SetPin, SetUP
<1>6. ASSUME NEW s \in Slots, UpdateSignCount(s)
      PROVE  CommitInv'
  <2>1. op' = "count" /\ pc' = AppendFrom
    BY <1>6 DEF UpdateSignCount, Request
  <2>2. AppendFrom \in {"program", "erase", "append"}
    <3>1. ready \in BOOLEAN /\ next \in Nat /\ JournalCapacity \in Nat
      BY ConstantsOK DEF TypeOK
    <3>2. QED
      BY <3>1 DEF AppendFrom
  <2>3. QED
    BY <2>1, <2>2 DEF CommitInv
<1>7. CASE Reject
  BY <1>7 DEF Reject, CommitInv, flash, ram
<1>8. CASE ProgramBody
  BY <1>8 DEF ProgramBody, Fail, CommitInv
<1>9. CASE ProgramHeader
  <2>1. CASE Fail
    BY <1>9, <2>1 DEF ProgramHeader, Fail, CommitInv
  <2>2. CASE ~ Fail
    <3> DEFINE image == [generation |-> generation + 1, payload |-> store, wrapped |-> TRUE]
    <3>1. /\ slot' = [slot EXCEPT ![TargetSlot] = image] /\ active' = TargetSlot
          /\ pc' = "erase" /\ store' = store
      BY <1>9, <2>2 DEF ProgramHeader
    <3>2. TargetSlot \in 0 .. 1 /\ TargetSlot # None /\ slot \in [0 .. 1 -> Images]
      <4>1. slot \in [0 .. 1 -> Images]
        BY DEF TypeOK
      <4>2. QED
        BY <4>1 DEF TargetSlot, None
    <3>3. slot'[TargetSlot] = image /\ image.payload = store
      BY <3>1, <3>2
    <3>4. ImageIsStore'
      BY <3>1, <3>2, <3>3 DEF ImageIsStore, None
    <3>5. QED
      BY <3>1, <3>4 DEF CommitInv
  <2>3. QED
    BY <2>1, <2>2
<1>10. CASE EraseJournal
  BY <1>10 DEF EraseJournal, CommitInv, ImageIsStore, ram
<1>11. CASE BindJournal
  <2>1. journal'.entries = journal.entries
    BY <1>11 DEF BindJournal, TypeOK
  <2>2. QED
    BY <1>11, <2>1 DEF BindJournal, Done, CommitInv, ImageIsStore
<1>12. CASE AppendEntry
  BY <1>12 DEF AppendEntry, Done, CommitInv
<1>13. CASE UNCHANGED vars
  BY <1>13 DEF vars, flash, ram, control, CommitInv, ImageIsStore
<1>14. QED
  BY <1>1, <1>2, <1>4, <1>5, <1>6, <1>7, <1>8, <1>9, <1>10, <1>11, <1>12, <1>13
     DEF Next, FlashStep

\* Once a whole-image commit has returned true, a power-up at any later moment up to
\* the next call finds exactly the image in RAM.
THEOREM AckedCommitCorrect == Spec => []AckedCommitIsDurable
<1>1. Init => CommitInv
  BY DEF Init, PowerOffRam, CommitInv
<1>2. ASSUME TypeOK, CommitInv, ActiveImageIsBest, HardenedDistrustsDebug
      PROVE  AckedCommitIsDurable
  <2> SUFFICES ASSUME pc = "idle", op = "commit", reply = "ok"
               PROVE  Durable(build) = store
    BY DEF AckedCommitIsDurable
  <2>1. ImageIsStore /\ journal.entries = <<>> /\ BestSlot = active
    BY <1>2 DEF CommitInv, ActiveImageIsBest
  <2>2. BasePayload(build) = store
    BY <2>1 DEF BasePayload, ImageIsStore
  <2>3. SanitizeUP(store, build) = store
    BY <1>2 DEF SanitizeUP, HardenedDistrustsDebug
  <2>4. ReplayJournal(store) = store
    <3>1. store \in Payloads
      BY <1>2 DEF TypeOK
    <3>2. QED
      BY <1>2, <2>1, <3>1, NothingToReplay
  <2>5. QED
    BY <2>2, <2>3, <2>4 DEF Durable
<1>3. QED
  BY <1>1, <1>2, CommitInvInductive, TypeCorrect, ActiveBestCorrect, HardenedCorrect, PTL
     DEF Spec

--------------------------------------------------------------------------------
(* The flash as a power-up finds it                                          *)

\* Once its header page is written a commit, or a boot that writes back, has its image, and
\* the journal is begun only for an image.
HeldInv ==
  /\ pc = "append" => op = "count"
  /\ pc \in {"erase", "bind"} => op = "count" \/ ImageIsStore
  /\ pc \in {"erase", "bind"} => active # None

\* A migrated image does not lie where the first new one is written.
MigratesApart == legacy.place # "in place"

LEMMA MigratesApartInductive ==
  ASSUME MigratesApart, [Next]_vars
  PROVE  MigratesApart'
<1>1. CASE ProgramBody
  BY <1>1 DEF ProgramBody, LegacyAfter, MigratesApart
<1>2. CASE legacy' = legacy
  BY <1>2 DEF MigratesApart
<1>3. CASE EraseJournal
  <2>1. legacy'.place \in {legacy.place, "none"}
    BY <1>3 DEF EraseJournal, LegacyAfter
  <2>2. QED
    BY <2>1 DEF MigratesApart
<1>4. legacy' = legacy \/ ProgramBody \/ EraseJournal
  BY DEF Next, Boot, Crash, CrashInAppend, Add, Delete, Clear, SetPin, SetUP, UpdateSignCount,
         Request, Reject, FlashStep, ProgramHeader, BindJournal, AppendEntry, flash, vars
<1>5. QED
  BY <1>1, <1>2, <1>3, <1>4

LEMMA InitMigratesApart ==
  ASSUME Init, "legacy in place" \notin Factory
  PROVE  MigratesApart
<1>1. PICK f \in Factory, c \in Creds, n \in 0 .. 1, p \in Pins :
       LET old == OldPayload(c, n, p) IN
        /\ slot = [i \in 0 .. 1 |->
                     IF f = "unwrapped" /\ i = 0
                     THEN [generation |-> 1, payload |-> old, wrapped |-> FALSE]
                     ELSE NoImage]
        /\ legacy = [place   |-> CASE f = "legacy apart"    -> "apart"
                                   [] f = "legacy tail"     -> "tail"
                                   [] f = "legacy in place" -> "in place"
                                   [] OTHER                 -> "none",
                     payload |-> IF f \in {"legacy apart", "legacy tail", "legacy in place"}
                                 THEN old ELSE EmptyPayload]
  BY DEF Init
<1>2. legacy.place = CASE f = "legacy apart"    -> "apart"
                       [] f = "legacy tail"     -> "tail"
                       [] f = "legacy in place" -> "in place"
                       [] OTHER                 -> "none"
  BY <1>1
<1>3. f # "legacy in place"
  OBVIOUS
<1>4. QED
  BY <1>2, <1>3 DEF MigratesApart

\* Erasing the slot that is not active leaves the image that a boot chooses as it was.
LEMMA ProgramBodyKeepsSlot ==
  ASSUME TypeOK, ActiveImageIsBest, ProgramBody
  PROVE  /\ BestSlot' = BestSlot
         /\ BestSlot # None => slot'[BestSlot] = slot[BestSlot]
<1>1. /\ slot \in [0 .. 1 -> Images] /\ slot[0].generation \in Nat
      /\ slot[1].generation \in Nat
  <2>1. slot \in [0 .. 1 -> Images]
    BY DEF TypeOK
  <2>2. slot[0] \in Images /\ slot[1] \in Images
    BY <2>1
  <2>3. QED
    BY <2>1, <2>2 DEF Images
<1>2. pc # "off" /\ BestSlot = active /\ active \in {None, 0, 1}
  BY DEF ActiveImageIsBest, TypeOK, ProgramBody
<1>3. /\ slot' = [slot EXCEPT ![TargetSlot] = NoImage] /\ active' = active
      /\ pc' # "off"
  BY DEF ProgramBody, Fail, ram
<1>4. ActiveImageIsBest'
  BY ProgramBest
<1>5. BestSlot' = BestSlot
  BY <1>2, <1>3, <1>4 DEF ActiveImageIsBest
<1>6. ASSUME BestSlot # None PROVE slot'[BestSlot] = slot[BestSlot]
  <2>1. active \in 0 .. 1 /\ TargetSlot # active
    BY <1>2, <1>6 DEF TargetSlot, None
  <2>2. QED
    BY <1>1, <1>2, <1>3, <2>1
<1>7. QED
  BY <1>5, <1>6

\* With no old image in its way, it leaves all that a boot reads as it was.
LEMMA ProgramBodyKeepsBest ==
  ASSUME TypeOK, ActiveImageIsBest, MigratesApart, ProgramBody
  PROVE  /\ BestSlot' = BestSlot
         /\ BestSlot = None => legacy' = legacy
         /\ BestSlot # None => slot'[BestSlot] = slot[BestSlot]
<1>1. ASSUME BestSlot = None PROVE legacy' = legacy
  <2>1. active = None
    BY <1>1 DEF ProgramBody, ActiveImageIsBest
  <2>2. TargetSlot = 0
    BY <2>1 DEF TargetSlot, None
  <2>3. QED
    BY <2>2 DEF ProgramBody, LegacyAfter, MigratesApart
<1>2. QED
  BY <1>1, ProgramBodyKeepsSlot

\* Nor does the erasure of the journal, which comes after an image.
LEMMA EraseKeepsBest ==
  ASSUME ActiveImageIsBest, HeldInv, EraseJournal
  PROVE  BestSlot # None /\ BestSlot' = BestSlot /\ slot' = slot
<1>1. BestSlot = active /\ active # None
  BY DEF ActiveImageIsBest, HeldInv, EraseJournal
<1>2. slot' = slot
  BY DEF EraseJournal
<1>3. BestSlot' = BestSlot
  BY <1>2 DEF BestSlot, Holds
<1>4. QED
  BY <1>1, <1>2, <1>3

--------------------------------------------------------------------------------
(* The refinement of TransactionalStore                                      *)

LEMMA FactsType == \A p \in Payloads : Facts(p) \in Transactional!Facts
BY DEF Facts, Payloads, Transactional!Facts

\* What is held is a fact of the flash, whichever build reads it.
LEMMA HeldProperty ==
  ASSUME TypeOK
  PROVE  /\ Held \in Transactional!Facts
         /\ \A b \in Builds : Facts(BasePayload(b)) = Held
<1>1. BestSlot \in {None, 0, 1}
  BY DEF BestSlot
<1>2. legacy.payload \in Payloads
  BY DEF TypeOK
<1>3. CASE BestSlot # None
  <2>1. slot[BestSlot].payload \in Payloads
    <3>1. BestSlot \in 0 .. 1
      BY <1>1, <1>3 DEF None
    <3>2. slot[BestSlot] \in Images
      BY <3>1 DEF TypeOK
    <3>3. QED
      BY <3>2 DEF Images
  <2>2. \A b : BasePayload(b) = slot[BestSlot].payload
    BY <1>3 DEF BasePayload
  <2>3. QED
    BY <2>1, <2>2, FactsType DEF Held
<1>4. CASE BestSlot = None /\ legacy.place # "none"
  <2>1. \A b : BasePayload(b) = [legacy.payload EXCEPT !.provenance = b]
    BY <1>4 DEF BasePayload
  <2>2. \A b : Facts([legacy.payload EXCEPT !.provenance = b]) = Facts(legacy.payload)
    BY <1>2 DEF Facts, Payloads
  <2>3. QED
    BY <1>2, <2>1, <2>2, FactsType DEF Held
<1>5. CASE BestSlot = None /\ legacy.place = "none"
  <2>1. \A b : BasePayload(b) = ResetPayload(b)
    BY <1>5 DEF BasePayload
  <2>2. \A b : Facts(ResetPayload(b)) = Facts(EmptyPayload)
    BY DEF Facts, ResetPayload, EmptyPayload
  <2>3. QED
    BY <2>1, <2>2, FactsType, EmptyTypes DEF Held
<1>6. QED
  BY <1>3, <1>4, <1>5

\* A boot loads what is held, or distrusts its configuration.
LEMMA DurableFacts ==
  ASSUME TypeOK, NEW b \in Builds
  PROVE  Facts(Durable(b)) \in {Held, [Held EXCEPT !.up = DefaultUP]}
<1> DEFINE base == BasePayload(b)
           clean == SanitizeUP(base, b)
<1>1. base \in Payloads /\ clean \in Payloads /\ Facts(base) = Held
  BY DurableType, HeldProperty
<1>2. clean = base \/ clean = [base EXCEPT !.up = DefaultUP, !.provenance = b]
  BY DEF SanitizeUP
<1> HIDE DEF base, clean
<1>3. Facts(clean) \in {Held, [Held EXCEPT !.up = DefaultUP]}
  <2>1. CASE clean = base
    BY <1>1, <2>1
  <2>2. CASE clean = [base EXCEPT !.up = DefaultUP, !.provenance = b]
    <3>1. Held = [creds |-> base.creds, pin |-> base.pin, up |-> base.up]
      BY <1>1 DEF Facts
    <3>2. Facts(clean) = [creds |-> base.creds, pin |-> base.pin, up |-> DefaultUP]
      BY <1>1, <2>2 DEF Facts, Payloads
    <3>3. Facts(clean) = [Held EXCEPT !.up = DefaultUP]
      BY <3>1, <3>2
    <3>4. QED
      BY <3>3
  <2>3. QED
    BY <1>2, <2>1, <2>2
<1>4. Facts(ReplayJournal(clean)) = Facts(clean)
  BY <1>1 DEF Facts, ReplayJournal, Payloads
<1>5. QED
  BY <1>3, <1>4 DEF Durable, clean, base

\* What is held depends on the slots and the old image only.
LEMMA HeldUnchanged ==
  ASSUME BestSlot' = BestSlot, BestSlot = None => legacy' = legacy,
         BestSlot # None => slot'[BestSlot] = slot[BestSlot]
  PROVE  Held' = Held
BY DEF Held, BasePayload

LEMMA SlotsUnchanged ==
  ASSUME UNCHANGED <<slot, legacy>>
  PROVE  Held' = Held
<1>1. BestSlot' = BestSlot
  BY DEF BestSlot, Holds
<1>2. QED
  BY <1>1, HeldUnchanged

LEMMA HeldInvInductive ==
  ASSUME TypeOK, HeldInv, [Next]_vars
  PROVE  HeldInv'
<1>1. CASE \E b \in Builds : Boot(b)
  BY <1>1 DEF Boot, HeldInv
<1>2. CASE Crash \/ CrashInAppend
  BY <1>2 DEF Crash, CrashInAppend, LoseRam, HeldInv
<1>3. CASE \/ (\E c \in Creds : Add(c)) \/ (\E s \in Slots : Delete(s)) \/ Clear
           \/ (\E p \in Pins : SetPin(p)) \/ (\E u \in UPConfigs : SetUP(u))
  BY <1>3 DEF Add, Delete, Clear, SetPin, SetUP, Request, HeldInv
<1>4. CASE \E s \in Slots : UpdateSignCount(s)
  <2>1. AppendFrom = "erase" => active # None
    <3>1. ready \in BOOLEAN /\ next \in Nat /\ JournalCapacity \in Nat
      BY ConstantsOK DEF TypeOK
    <3>2. (next < JournalCapacity) \/ (next >= JournalCapacity)
      BY <3>1
    <3>3. QED
      BY <3>1, <3>2 DEF AppendFrom
  <2>2. AppendFrom # "bind"
    <3>1. ready \in BOOLEAN /\ next \in Nat /\ JournalCapacity \in Nat
      BY ConstantsOK DEF TypeOK
    <3>2. QED
      BY <3>1 DEF AppendFrom
  <2>3. pc' = AppendFrom /\ op' = "count" /\ active' = active
    BY <1>4 DEF UpdateSignCount, Request
  <2>4. QED
    BY <2>1, <2>2, <2>3 DEF HeldInv
<1>5. CASE Reject
  BY <1>5 DEF Reject, HeldInv
<1>6. CASE ProgramBody
  BY <1>6 DEF ProgramBody, Fail, HeldInv
<1>7. CASE ProgramHeader
  <2>1. CASE Fail
    BY <2>1 DEF Fail, HeldInv
  <2>2. CASE ~ Fail
    <3> DEFINE image == [generation |-> generation + 1, payload |-> store, wrapped |-> TRUE]
    <3>1. /\ slot' = [slot EXCEPT ![TargetSlot] = image] /\ active' = TargetSlot
          /\ pc' = "erase" /\ store' = store
      BY <1>7, <2>2 DEF ProgramHeader
    <3>2. TargetSlot \in 0 .. 1 /\ TargetSlot # None
      BY DEF TargetSlot, None
    <3>3. slot'[TargetSlot] = image /\ image.payload = store
      BY <3>1, <3>2 DEF TypeOK
    <3>4. ImageIsStore'
      BY <3>1, <3>2, <3>3 DEF ImageIsStore, None
    <3>5. QED
      BY <3>1, <3>2, <3>4 DEF HeldInv
  <2>3. QED
    BY <2>1, <2>2
<1>8. CASE EraseJournal
  BY <1>8 DEF EraseJournal, HeldInv, ImageIsStore, ram
<1>9. CASE BindJournal
  BY <1>9 DEF BindJournal, Done, HeldInv
<1>10. CASE AppendEntry
  BY <1>10 DEF AppendEntry, Done, HeldInv
<1>11. CASE UNCHANGED vars
  BY <1>11 DEF vars, flash, ram, control, HeldInv, ImageIsStore
<1>12. QED
  BY <1>1, <1>2, <1>3, <1>4, <1>5, <1>6, <1>7, <1>8, <1>9, <1>10, <1>11 DEF Next, FlashStep

\* The phase, before and after a step.
PhaseIs ==
  /\ pc = "off" => Phase = "off"
  /\ pc = "idle" => Phase = "idle"
  /\ pc \notin {"off", "idle"} /\ op = "count" => Phase = "counting"
  /\ pc \notin {"off", "idle"} /\ op # "count" => Phase = "busy"

LEMMA PhaseProperty == PhaseIs /\ PhaseIs'
BY DEF PhaseIs, Phase

\* An operation that fails falls back.
LEMMA FailAborts ==
  ASSUME pc \notin {"off", "idle"}, pc' = "idle", store' = undo, undo' = undo, Held' = Held
  PROVE  Transactional!Abort
<1>1. Phase \in {"busy", "counting"} /\ Phase' = "idle"
  BY PhaseProperty DEF PhaseIs
<1>2. Facts(store)' = Facts(undo) /\ Facts(undo)' = Facts(undo)
  BY DEF Facts
<1>3. QED
  BY <1>1, <1>2 DEF Transactional!Abort

LEMMA BootPowersUp ==
  ASSUME TypeOK, NEW b \in Builds, Boot(b)
  PROVE  Transactional!PowerUp
<1>1. Phase = "off" /\ Phase' \in {"idle", "busy"}
  BY PhaseProperty DEF PhaseIs, Boot
<1>2. Held' = Held
  BY SlotsUnchanged DEF Boot
<1>3. Facts(store)' = Facts(Durable(b)) /\ Facts(undo)' = Facts(Durable(b))
  BY DEF Boot, Facts
<1>4. QED
  BY <1>1, <1>2, <1>3, DurableFacts DEF Transactional!PowerUp

LEMMA CrashLosesPower ==
  ASSUME Crash \/ CrashInAppend
  PROVE  Transactional!PowerLoss
<1>1. Phase # "off" /\ Phase' = "off"
  <2>1. pc # "off" /\ pc' = "off"
    BY DEF Crash, CrashInAppend, LoseRam
  <2>2. QED
    BY <2>1, PhaseProperty DEF PhaseIs
<1>2. Held' = Held
  BY SlotsUnchanged DEF Crash, CrashInAppend
<1>3. Facts(store)' = Facts(EmptyPayload) /\ Facts(undo)' = Facts(EmptyPayload)
  BY DEF Crash, CrashInAppend, LoseRam, Facts
<1>4. Facts(EmptyPayload) \in Transactional!Facts
  BY EmptyTypes, FactsType
<1>5. QED
  BY <1>1, <1>2, <1>3, <1>4 DEF Transactional!PowerLoss

\* A commit begins with one change of what the device works on.
LEMMA CommitBegins ==
  ASSUME NEW new, NEW fallback, Facts(fallback) \in {Facts(store), Facts(new)}, pc = "idle",
         Request("commit", new, fallback, "program"),
         Facts(new) \in Transactional!Changes(Facts(store))
  PROVE  Transactional!Begin
<1>1. Phase = "idle" /\ Phase' = "busy"
  BY PhaseProperty DEF PhaseIs, Request
<1>2. Held' = Held
  BY SlotsUnchanged DEF Request, flash
<1>3. Facts(store)' = Facts(new) /\ Facts(undo)' = Facts(fallback)
  BY DEF Request, Facts
<1>4. QED
  BY <1>1, <1>2, <1>3 DEF Transactional!Begin

LEMMA RequestsBegin ==
  ASSUME TypeOK,
         \/ \E c \in Creds : Add(c)
         \/ \E s \in Slots : Delete(s)
         \/ Clear
         \/ \E p \in Pins : SetPin(p)
         \/ \E u \in UPConfigs : SetUP(u)
  PROVE  Transactional!Begin
<1> DEFINE f == Facts(store)
<1>1. /\ store \in Payloads
      /\ f = [creds |-> store.creds, pin |-> store.pin, up |-> store.up]
  BY DEF TypeOK, Facts
<1>2. ASSUME NEW s \in Slots, NEW c \in Creds \cup {NoCred}, NEW new,
             new.creds = [store.creds EXCEPT ![s] = c], new.pin = store.pin, new.up = store.up
      PROVE  Facts(new) \in Transactional!Changes(f)
  <2>1. Facts(new) = [f EXCEPT !.creds[s] = c]
    BY <1>1, <1>2 DEF Facts
  <2> HIDE DEF f
  <2>2. Facts(new) \in {[f EXCEPT !.creds[t] = d] : t \in Slots, d \in Creds \cup {NoCred}}
    <3>1. \E t \in Slots, d \in Creds \cup {NoCred} : Facts(new) = [f EXCEPT !.creds[t] = d]
      <4>1. s \in Slots /\ c \in Creds \cup {NoCred}
        OBVIOUS
      <4>2. WITNESS s \in Slots, c \in Creds \cup {NoCred}
      <4>3. QED
        BY <2>1
    <3>2. QED
      BY <3>1
  <2>3. QED
    BY <2>2 DEF Transactional!Changes
<1>3. ASSUME NEW c \in Creds, Add(c)
      PROVE  Transactional!Begin
  <2> DEFINE s == Min(Free(store))
             new == PutCredential(store, s, c)
             fallback == WipeSlot(new, s)
  <2>1. s \in Slots /\ s \in Free(store)
    BY <1>3, FreeSlot DEF Add
  <2>2. pc = "idle" /\ Request("commit", new, fallback, "program")
    BY <1>3 DEF Add
  <2> HIDE DEF s
  <2>6. Facts(fallback) = Facts(store)
    <3>1. fallback.creds = store.creds /\ fallback.pin = store.pin /\ fallback.up = store.up
      BY <1>1, <2>1, AddUndone
    <3> HIDE DEF fallback
    <3>2. QED
      BY <3>1 DEF Facts
  <2>3. /\ new.creds = [store.creds EXCEPT ![s] = c]
        /\ new.pin = store.pin /\ new.up = store.up
    BY <1>1 DEF PutCredential, Payloads
  <2> HIDE DEF new, fallback, f
  <2>4. Facts(new) \in Transactional!Changes(f)
    BY <1>2, <2>1, <2>3
  <2>5. QED
    BY <2>2, <2>4, <2>6, CommitBegins DEF f
<1>4. ASSUME NEW s \in Slots, Delete(s)
      PROVE  Transactional!Begin
  <2> DEFINE new == WipeSlot(store, s)
  <2>1. pc = "idle" /\ Request("commit", new, store, "program")
    BY <1>1, <1>4, DeleteUndone DEF Delete
  <2>2. /\ new.creds = [store.creds EXCEPT ![s] = NoCred]
        /\ new.pin = store.pin /\ new.up = store.up
    BY <1>1 DEF WipeSlot, Payloads
  <2> HIDE DEF new, f
  <2>3. Facts(new) \in Transactional!Changes(f)
    BY <1>2, <2>2
  <2>4. QED
    BY <2>1, <2>3, CommitBegins DEF f
<1>5. CASE Clear
  <2> DEFINE new == [store EXCEPT !.creds = EmptyPayload.creds, !.counts = EmptyPayload.counts,
                                  !.credential_count = 0]
  <2>1. pc = "idle" /\ Request("commit", new, new, "program")
    BY <1>5 DEF Clear
  <2>2. EmptyPayload.creds = [s \in Slots |-> NoCred]
    BY DEF EmptyPayload, ResetPayload
  <2>3. Facts(new) = [f EXCEPT !.creds = [s \in Slots |-> NoCred]]
    BY <1>1, <2>2 DEF Facts, Payloads
  <2> HIDE DEF new, f
  <2>4. Facts(new) \in Transactional!Changes(f)
    BY <2>3 DEF Transactional!Changes
  <2>5. QED
    BY <2>1, <2>4, CommitBegins DEF f
<1>6. ASSUME NEW p \in Pins, SetPin(p)
      PROVE  Transactional!Begin
  <2> DEFINE new == [store EXCEPT !.pin = p]
  <2>1. pc = "idle" /\ Request("commit", new, new, "program")
    BY <1>6 DEF SetPin
  <2>2. Facts(new) = [f EXCEPT !.pin = p]
    BY <1>1 DEF Facts, Payloads
  <2> HIDE DEF new, f
  <2>3. Facts(new) \in Transactional!Changes(f)
    BY <2>2 DEF Transactional!Changes
  <2>4. QED
    BY <2>1, <2>3, CommitBegins DEF f
<1>7. ASSUME NEW u \in UPConfigs, SetUP(u)
      PROVE  Transactional!Begin
  <2> DEFINE new == [store EXCEPT !.up = u, !.provenance = build]
  <2>1. pc = "idle" /\ Request("commit", new, new, "program")
    BY <1>7 DEF SetUP
  <2>2. Facts(new) = [f EXCEPT !.up = u]
    BY <1>1 DEF Facts, Payloads
  <2> HIDE DEF new, f
  <2>3. Facts(new) \in Transactional!Changes(f)
    BY <2>2 DEF Transactional!Changes
  <2>4. QED
    BY <2>1, <2>3, CommitBegins DEF f
<1>8. QED
  BY <1>3, <1>4, <1>5, <1>6, <1>7

LEMMA CountBegins ==
  ASSUME TypeOK, NEW s \in Slots, UpdateSignCount(s)
  PROVE  Transactional!BeginCount
<1> DEFINE new == [store EXCEPT !.counts[s] = store.counts[s] + 1]
<1>1. pc = "idle" /\ Request("count", new, store, AppendFrom)
  BY DEF UpdateSignCount
<1>2. Facts(new) = Facts(store)
  BY DEF Facts, TypeOK, Payloads
<1> HIDE DEF new
<1>3. AppendFrom \in {"program", "erase", "append"}
  <2>1. ready \in BOOLEAN /\ next \in Nat /\ JournalCapacity \in Nat
    BY ConstantsOK DEF TypeOK
  <2>2. QED
    BY <2>1 DEF AppendFrom
<1>4. Phase = "idle" /\ Phase' = "counting"
  BY <1>1, <1>3, PhaseProperty DEF PhaseIs, Request
<1>5. Held' = Held
  BY <1>1, SlotsUnchanged DEF Request, flash
<1>6. Facts(store)' = Facts(new) /\ Facts(undo)' = Facts(store)
  BY <1>1 DEF Request, Facts
<1>7. QED
  BY <1>2, <1>4, <1>5, <1>6 DEF Transactional!BeginCount

\* The header page of an image is its commit.
LEMMA HeaderCommits ==
  ASSUME TypeOK, ActiveImageIsBest, ProgramHeader
  PROVE  Transactional!Commit \/ Transactional!Abort
<1>1. CASE Fail /\ UNCHANGED slot
  <2>1. Held' = Held
    BY <1>1, SlotsUnchanged DEF ProgramHeader
  <2>2. QED
    BY <1>1, <2>1, FailAborts DEF Fail, ProgramHeader
<1>2. CASE ~ (Fail /\ UNCHANGED slot)
  <2> DEFINE image == [generation |-> generation + 1, payload |-> store, wrapped |-> TRUE]
  <2>1. /\ slot' = [slot EXCEPT ![TargetSlot] = image]
        /\ active' = TargetSlot /\ pc' = "erase" /\ store' = store
    BY <1>2 DEF ProgramHeader
  <2>2. TargetSlot \in 0 .. 1 /\ TargetSlot # None
    BY DEF TargetSlot, None
  <2>3. slot'[TargetSlot].payload = store
    BY <2>1, <2>2 DEF TypeOK
  <2>4. ActiveImageIsBest'
    BY ProgramBest
  <2>5. BestSlot' = TargetSlot
    BY <2>1, <2>4 DEF ActiveImageIsBest
  <2>6. BasePayload("hardened")' = store
    BY <2>2, <2>3, <2>5 DEF BasePayload
  <2>7. Held' = Facts(store) /\ Facts(store)' = Facts(store) /\ Facts(undo)' = Facts(undo)
    BY <2>1, <2>6 DEF Held, Facts, ProgramHeader
  <2>8. Phase \in {"busy", "counting"} /\ Phase' = Phase
    BY <2>1, PhaseProperty DEF PhaseIs, ProgramHeader
  <2>9. QED
    BY <2>7, <2>8 DEF Transactional!Commit
<1>3. QED
  BY <1>1, <1>2

\* With the header of the journal, or with its entry, an operation succeeds.
LEMMA JournalSucceeds ==
  ASSUME TypeOK, ActiveImageIsBest, HeldInv, BindJournal \/ AppendEntry
  PROVE  \/ Transactional!Succeed \/ Transactional!Abort
         \/ UNCHANGED Transactional!tvars
<1>1. Held' = Held /\ undo' = undo /\ op' = op /\ pc \in {"bind", "append"}
  BY SlotsUnchanged DEF BindJournal, AppendEntry
<1>2. ASSUME store' = store PROVE Facts(store)' = Facts(store) /\ Facts(undo)' = Facts(undo)
  BY <1>1, <1>2 DEF Facts
<1>3. Phase \in {"busy", "counting"}
  BY <1>1, PhaseProperty DEF PhaseIs
<1>4. CASE BindJournal /\ op = "count"
  <2>1. pc' = "append" /\ store' = store
    BY <1>4 DEF BindJournal
  <2>2. Phase' = Phase
    BY <1>1, <1>4, <2>1, PhaseProperty DEF PhaseIs
  <2>3. QED
    BY <1>1, <1>2, <2>1, <2>2 DEF Transactional!tvars
<1>5. CASE BindJournal /\ op # "count"
  <2>1. pc' = "idle" /\ store' = store
    BY <1>5 DEF BindJournal, Done
  <2>2. Phase' = "idle"
    BY <2>1, PhaseProperty DEF PhaseIs
  <2>3. ImageIsStore /\ BestSlot = active
    BY <1>5 DEF HeldInv, BindJournal, ActiveImageIsBest
  <2>4. Held = Facts(store)
    BY <2>3 DEF Held, BasePayload, ImageIsStore
  <2>5. QED
    BY <1>1, <1>2, <1>3, <2>1, <2>2, <2>4 DEF Transactional!Succeed
<1>6. CASE AppendEntry
  <2>1. pc = "append" /\ pc' = "idle" /\ (store' = store \/ store' = undo)
    BY <1>6 DEF AppendEntry, Done
  <2>2. Phase' = "idle" /\ Phase = "counting"
    BY <2>1, PhaseProperty DEF PhaseIs, HeldInv
  <2>3. CASE store' = store
    BY <1>1, <1>2, <2>2, <2>3 DEF Transactional!Succeed
  <2>4. CASE store' = undo
    BY <1>1, <2>1, <2>4, FailAborts
  <2>5. QED
    BY <2>1, <2>3, <2>4
<1>7. QED
  BY <1>4, <1>5, <1>6

\* The steps that TransactionalStore does not see.
LEMMA SilentSteps ==
  ASSUME TypeOK, ActiveImageIsBest, MigratesApart, HeldInv,
         Reject \/ EraseJournal \/ UNCHANGED vars \/ (ProgramBody /\ ~ Fail)
  PROVE  UNCHANGED Transactional!tvars
<1>1. Held' = Held
  <2>1. CASE ProgramBody
    BY <2>1, ProgramBodyKeepsBest, HeldUnchanged
  <2>2. CASE Reject \/ UNCHANGED vars
    BY <2>2, SlotsUnchanged DEF Reject, vars, flash
  <2>3. CASE EraseJournal
    BY <2>3, EraseKeepsBest, HeldUnchanged
  <2>4. QED
    BY <2>1, <2>2, <2>3
<1>2. store' = store /\ undo' = undo
  BY DEF Reject, EraseJournal, ProgramBody, vars, ram, control
<1>3. Phase' = Phase
  <2>1. CASE Reject
    BY <2>1, PhaseProperty DEF PhaseIs, Reject
  <2>2. CASE EraseJournal
    BY <2>2, PhaseProperty DEF PhaseIs, EraseJournal
  <2>3. CASE UNCHANGED vars
    BY <2>3 DEF Phase, vars, control
  <2>4. CASE ProgramBody /\ ~ Fail
    <3>1. pc = "program" /\ pc' = "header" /\ op' = op
      BY <2>4 DEF ProgramBody
    <3>2. QED
      BY <3>1, PhaseProperty DEF PhaseIs
  <2>5. QED
    BY <2>1, <2>2, <2>3, <2>4
<1>4. QED
  BY <1>1, <1>2, <1>3 DEF Transactional!tvars, Facts

\* Every step of the store is one of TransactionalStore, or leaves it as it was.
LEMMA StepRefines ==
  ASSUME TypeOK, ActiveImageIsBest, MigratesApart, HeldInv, [Next]_vars
  PROVE  [Transactional!TNext]_Transactional!tvars
<1>1. CASE \E b \in Builds : Boot(b)
  BY <1>1, BootPowersUp DEF Transactional!TNext
<1>2. CASE Crash \/ CrashInAppend
  BY <1>2, CrashLosesPower DEF Transactional!TNext
<1>3. CASE \/ (\E c \in Creds : Add(c)) \/ (\E s \in Slots : Delete(s)) \/ Clear
           \/ (\E p \in Pins : SetPin(p)) \/ (\E u \in UPConfigs : SetUP(u))
  BY <1>3, RequestsBegin DEF Transactional!TNext
<1>4. CASE \E s \in Slots : UpdateSignCount(s)
  BY <1>4, CountBegins DEF Transactional!TNext
<1>5. CASE Reject \/ EraseJournal \/ UNCHANGED vars \/ (ProgramBody /\ ~ Fail)
  BY <1>5, SilentSteps
<1>6. CASE ProgramBody /\ Fail
  <2>1. Held' = Held
    BY <1>6, ProgramBodyKeepsBest, HeldUnchanged
  <2>2. Transactional!Abort
    BY <1>6, <2>1, FailAborts DEF ProgramBody, Fail
  <2>3. QED
    BY <2>2 DEF Transactional!TNext
<1>7. CASE ProgramHeader
  BY <1>7, HeaderCommits DEF Transactional!TNext
<1>8. CASE BindJournal \/ AppendEntry
  BY <1>8, JournalSucceeds DEF Transactional!TNext
<1>9. QED
  BY <1>1, <1>2, <1>3, <1>4, <1>5, <1>6, <1>7, <1>8 DEF Next, FlashStep

\* The store implements TransactionalStore: whatever is interrupted, and whatever write
\* fails, the flash has the old value or the new one, and success means the new one. An old
\* image that lies in the slot written first is the exception, which a run shows.
THEOREM StoreIsTransactional ==
  ASSUME "legacy in place" \notin Factory
  PROVE  Spec => IsTransactional
<1>1. Init => Transactional!TInit
  <2> SUFFICES ASSUME Init PROVE Transactional!TInit
    OBVIOUS
  <2>1. TypeOK /\ pc = "off"
    BY InitTypeOK DEF Init, PowerOffRam
  <2>2. Phase = "off" /\ store \in Payloads /\ undo \in Payloads
    BY <2>1, PhaseProperty DEF PhaseIs, TypeOK
  <2>3. QED
    BY <2>1, <2>2, FactsType, HeldProperty DEF Transactional!TInit
<1>2. Init => MigratesApart /\ HeldInv
  BY InitMigratesApart DEF Init, PowerOffRam, HeldInv
<1>3. TypeOK /\ MigratesApart /\ HeldInv /\ [Next]_vars => MigratesApart' /\ HeldInv'
  BY MigratesApartInductive, HeldInvInductive
<1>4. TypeOK /\ ActiveImageIsBest /\ MigratesApart /\ HeldInv /\ [Next]_vars
        => [Transactional!TNext]_Transactional!tvars
  BY StepRefines
<1>5. QED
  BY <1>1, <1>2, <1>3, <1>4, TypeCorrect, ActiveBestCorrect, PTL
     DEF Spec, IsTransactional, Transactional!TSpec

\* A device that came with credentials has an image to load at any moment.
ImageToLoad == "blank" \notin Factory => BestSlot # None \/ legacy.place # "none"

LEMMA ImageToLoadInductive ==
  ASSUME TypeOK, ActiveImageIsBest, MigratesApart, HeldInv, ImageToLoad, [Next]_vars
  PROVE  ImageToLoad'
<1>1. CASE ProgramBody
  BY <1>1, ProgramBodyKeepsBest DEF ImageToLoad
<1>2. CASE ProgramHeader
  <2>1. CASE Fail /\ UNCHANGED slot
    BY <1>2, <2>1 DEF ProgramHeader, ImageToLoad, BestSlot, Holds
  <2>2. CASE ~ (Fail /\ UNCHANGED slot)
    <3>1. active' = TargetSlot /\ pc' = "erase" /\ TargetSlot # None
      BY <1>2, <2>2 DEF ProgramHeader, TargetSlot, None
    <3>2. BestSlot' = active'
      BY <1>2, <3>1, ProgramBest DEF ActiveImageIsBest
    <3>3. QED
      BY <3>1, <3>2 DEF ImageToLoad
  <2>3. QED
    BY <2>1, <2>2
<1>3. CASE UNCHANGED <<slot, legacy>>
  BY <1>3 DEF ImageToLoad, BestSlot, Holds
<1>4. CASE EraseJournal
  BY <1>4, EraseKeepsBest DEF ImageToLoad
<1>5. UNCHANGED <<slot, legacy>> \/ ProgramBody \/ ProgramHeader \/ EraseJournal
  BY DEF Next, Boot, Crash, CrashInAppend, Add, Delete, Clear, SetPin, SetUP, UpdateSignCount,
         Request, Reject, FlashStep, BindJournal, AppendEntry, flash, vars
<1>6. QED
  BY <1>1, <1>2, <1>3, <1>4, <1>5

LEMMA InitImageToLoad ==
  ASSUME Init
  PROVE  ImageToLoad
<1>1. PICK f \in Factory, c \in Creds, n \in 0 .. 1, p \in Pins :
       LET old == OldPayload(c, n, p) IN
        /\ slot = [i \in 0 .. 1 |->
                     IF f = "unwrapped" /\ i = 0
                     THEN [generation |-> 1, payload |-> old, wrapped |-> FALSE]
                     ELSE NoImage]
        /\ legacy = [place   |-> CASE f = "legacy apart"    -> "apart"
                                   [] f = "legacy tail"     -> "tail"
                                   [] f = "legacy in place" -> "in place"
                                   [] OTHER                 -> "none",
                     payload |-> IF f \in {"legacy apart", "legacy tail", "legacy in place"}
                                 THEN old ELSE EmptyPayload]
  BY DEF Init
<1>2. f \in {"blank", "unwrapped", "legacy apart", "legacy tail", "legacy in place"}
  BY ConstantsOK
<1>3. CASE f = "unwrapped"
  <2> DEFINE image == [generation |-> 1, payload |-> OldPayload(c, n, p), wrapped |-> FALSE]
  <2>1. slot = [i \in 0 .. 1 |-> IF i = 0 THEN image ELSE NoImage]
    BY <1>1, <1>3
  <2>2. image.generation = 1
    OBVIOUS
  <2> HIDE DEF image
  <2>3. slot[0] = image
    BY <2>1
  <2>4. slot \in [0 .. 1 -> Images]
    BY InitTypeOK DEF TypeOK
  <2>5. slot[0] \in Images /\ slot[1] \in Images
    BY <2>4
  <2>6. slot[0].generation = 1 /\ slot[1].generation \in Nat
    BY <2>2, <2>3, <2>5 DEF Images
  <2>7. BestSlot # None
    BY <2>6 DEF BestSlot, Holds, None
  <2>8. QED
    BY <2>7 DEF ImageToLoad
<1>4. CASE f \in {"legacy apart", "legacy tail", "legacy in place"}
  <2>1. legacy.place = CASE f = "legacy apart"    -> "apart"
                         [] f = "legacy tail"     -> "tail"
                         [] f = "legacy in place" -> "in place"
                         [] OTHER                 -> "none"
    BY <1>1
  <2>2. legacy.place # "none"
    BY <1>4, <2>1
  <2>3. QED
    BY <2>2 DEF ImageToLoad
<1>5. QED
  BY <1>2, <1>3, <1>4 DEF ImageToLoad

\* Neither a migration nor anything later leaves the device without an image, wherever it
\* is interrupted, if the old image does not lie in the slot written first.
THEOREM ImageSurvives ==
  ASSUME "legacy in place" \notin Factory
  PROVE  Spec => []SomeImageSurvives
<1>1. Init => ImageToLoad
  BY InitImageToLoad
<1>2. Init => MigratesApart /\ HeldInv
  BY InitMigratesApart DEF Init, PowerOffRam, HeldInv
<1>3. TypeOK /\ ActiveImageIsBest /\ MigratesApart /\ HeldInv /\ ImageToLoad /\ [Next]_vars
        => MigratesApart' /\ HeldInv' /\ ImageToLoad'
  BY MigratesApartInductive, HeldInvInductive, ImageToLoadInductive
<1>4. ImageToLoad => SomeImageSurvives
  BY DEF ImageToLoad, SomeImageSurvives
<1>5. QED
  BY <1>1, <1>2, <1>3, <1>4, TypeCorrect, ActiveBestCorrect, PTL DEF Spec

--------------------------------------------------------------------------------
(* The number of credentials                                                 *)

Exact(p) == p.credential_count = Cardinality(InUse(p))

\* Every image, in RAM and in flash, has its number right: an operation may fall back to
\* `undo`, and a power-up loads any of the others.
CountInv ==
  /\ Exact(store) /\ Exact(undo) /\ Exact(legacy.payload)
  /\ \A i \in 0 .. 1 : Exact(slot[i].payload)

LEMMA InUseFinite == \A p : IsFiniteSet(InUse(p)) /\ Cardinality(InUse(p)) \in Nat
<1>1. IsFiniteSet(Slots)
  <2>1. MaxCredentials \in Nat \ {0}
    BY ConstantsOK
  <2>2. MaxCredentials - 1 \in Int
    BY <2>1
  <2>3. QED
    BY <2>2, FS_Interval DEF Slots
<1>2. QED
  BY <1>1, FS_Subset, FS_CardinalityType DEF InUse

LEMMA ExactCopy ==
  ASSUME NEW p, NEW q, Exact(p), q.creds = p.creds, q.credential_count = p.credential_count
  PROVE  Exact(q)
BY DEF Exact, InUse

LEMMA ExactEmpty ==
  ASSUME NEW p, p.creds = [s \in Slots |-> NoCred], p.credential_count = 0
  PROVE  Exact(p)
<1>1. InUse(p) = {}
  BY DEF InUse
<1>2. QED
  BY <1>1, FS_EmptySet DEF Exact

LEMMA ExactPut ==
  ASSUME NEW p \in Payloads, Exact(p), NEW s \in Free(p), NEW c \in Creds
  PROVE  Exact(PutCredential(p, s, c))
<1> DEFINE q == PutCredential(p, s, c)
<1>1. /\ q.creds = [p.creds EXCEPT ![s] = c] /\ q.credential_count = p.credential_count + 1
      /\ p.creds \in [Slots -> Creds \cup {NoCred}]
  BY DEF PutCredential, Payloads
<1>2. InUse(q) = InUse(p) \cup {s} /\ s \notin InUse(p)
  <2> HIDE DEF q
  <2>1. QED
    BY <1>1, ConstantsOK DEF InUse, Free
<1>3. Cardinality(InUse(q)) = Cardinality(InUse(p)) + 1
  BY <1>2, InUseFinite, FS_AddElement
<1>4. QED
  BY <1>1, <1>3 DEF Exact

LEMMA ExactWipe ==
  ASSUME NEW p \in Payloads, Exact(p), NEW s \in InUse(p)
  PROVE  Exact(WipeSlot(p, s))
<1> DEFINE q == WipeSlot(p, s)
<1>1. /\ q.creds = [p.creds EXCEPT ![s] = NoCred]
      /\ q.credential_count = IF p.credential_count > 0 THEN p.credential_count - 1
                              ELSE p.credential_count
      /\ p.creds \in [Slots -> Creds \cup {NoCred}]
  BY DEF WipeSlot, Payloads
<1>2. InUse(q) = InUse(p) \ {s}
  <2> HIDE DEF q
  <2>1. QED
    BY <1>1 DEF InUse
<1>3. Cardinality(InUse(q)) = Cardinality(InUse(p)) - 1 /\ Cardinality(InUse(q)) \in Nat
  BY <1>2, InUseFinite, FS_RemoveElement
<1>4. Cardinality(InUse(p)) \in Nat
  BY InUseFinite
<1>5. QED
  BY <1>1, <1>3, <1>4 DEF Exact

\* A boot loads an image with its number right.
LEMMA ExactDurable ==
  ASSUME TypeOK, CountInv, NEW b \in Builds
  PROVE  Exact(Durable(b))
<1> DEFINE base == BasePayload(b)
           clean == SanitizeUP(base, b)
<1>1. /\ base \in Payloads /\ clean \in Payloads /\ BestSlot \in {None, 0, 1}
      /\ legacy.payload \in Payloads
  BY DurableType DEF TypeOK
<1>2. Exact(base)
  <2>1. CASE BestSlot # None
    <3>1. BestSlot \in 0 .. 1
      BY <1>1, <2>1 DEF None
    <3>2. QED
      BY <2>1, <3>1 DEF BasePayload, CountInv
  <2>2. CASE BestSlot = None /\ legacy.place # "none"
    <3>1. base = [legacy.payload EXCEPT !.provenance = b]
      BY <2>2 DEF BasePayload
    <3>2. base.creds = legacy.payload.creds
            /\ base.credential_count = legacy.payload.credential_count
      BY <1>1, <3>1 DEF Payloads
    <3> HIDE DEF base
    <3>3. QED
      BY <3>2, ExactCopy DEF CountInv
  <2>3. CASE BestSlot = None /\ legacy.place = "none"
    <3>1. base = ResetPayload(b)
      BY <2>3 DEF BasePayload
    <3>2. base.creds = [s \in Slots |-> NoCred] /\ base.credential_count = 0
      BY <3>1 DEF ResetPayload
    <3> HIDE DEF base
    <3>3. QED
      BY <3>2, ExactEmpty
  <2>4. QED
    BY <2>1, <2>2, <2>3
<1>3. Exact(clean)
  <2>1. clean.creds = base.creds /\ clean.credential_count = base.credential_count
    BY <1>1 DEF SanitizeUP, Payloads
  <2> HIDE DEF clean, base
  <2>2. QED
    BY <1>2, <2>1, ExactCopy
<1>4. Exact(ReplayJournal(clean))
  <2> DEFINE played == ReplayJournal(clean)
  <2>1. played.creds = clean.creds /\ played.credential_count = clean.credential_count
    BY <1>1 DEF ReplayJournal, Payloads
  <2> HIDE DEF clean, played
  <2>2. QED
    BY <1>3, <2>1, ExactCopy DEF played
<1>5. QED
  BY <1>4 DEF Durable

LEMMA ExactNothing == Exact(EmptyPayload) /\ Exact(NoImage.payload)
<1>1. EmptyPayload.creds = [s \in Slots |-> NoCred] /\ EmptyPayload.credential_count = 0
  BY DEF EmptyPayload, ResetPayload
<1>2. Exact(EmptyPayload)
  BY <1>1, ExactEmpty
<1>3. QED
  BY <1>2 DEF NoImage

LEMMA InitCountInv == Init => CountInv
<1> SUFFICES ASSUME Init PROVE CountInv
  OBVIOUS
<1>1. PICK f \in Factory, c \in Creds, n \in 0 .. 1, p \in Pins :
       LET old == OldPayload(c, n, p) IN
        /\ slot = [i \in 0 .. 1 |->
                     IF f = "unwrapped" /\ i = 0
                     THEN [generation |-> 1, payload |-> old, wrapped |-> FALSE]
                     ELSE NoImage]
        /\ legacy = [place   |-> CASE f = "legacy apart"    -> "apart"
                                   [] f = "legacy tail"     -> "tail"
                                   [] f = "legacy in place" -> "in place"
                                   [] OTHER                 -> "none",
                     payload |-> IF f \in {"legacy apart", "legacy tail", "legacy in place"}
                                 THEN old ELSE EmptyPayload]
  BY DEF Init
<1> DEFINE old == OldPayload(c, n, p)
<1>2. Exact(old)
  <2>1. old.creds = [s \in Slots |-> IF s = 0 THEN c ELSE NoCred] /\ old.credential_count = 1
    BY SlotZero DEF OldPayload, ResetPayload
  <2> HIDE DEF old
  <2>2. InUse(old) = {0}
    BY <2>1, SlotZero, ConstantsOK DEF InUse
  <2>3. QED
    BY <2>1, <2>2, FS_Singleton DEF Exact
<1> HIDE DEF old
<1>3. \A i \in 0 .. 1 : slot[i].payload \in {old, NoImage.payload}
  BY <1>1 DEF old
<1>4. legacy.payload \in {old, EmptyPayload}
  BY <1>1 DEF old
<1>5. store = EmptyPayload /\ undo = EmptyPayload
  BY DEF Init, PowerOffRam
<1>6. QED
  BY <1>2, <1>3, <1>4, <1>5, ExactNothing DEF CountInv

LEMMA RequestCount ==
  ASSUME CountInv, NEW kind, NEW new, NEW fallback, NEW first,
         Request(kind, new, fallback, first), Exact(new), Exact(fallback)
  PROVE  CountInv'
BY DEF Request, CountInv, flash, Exact, InUse

LEMMA CountInvInductive ==
  ASSUME TypeOK, CountInv, [Next]_vars
  PROVE  CountInv'
<1>1. store \in Payloads /\ Exact(store) /\ Exact(undo)
  BY DEF TypeOK, CountInv
<1>2. ASSUME NEW b \in Builds, Boot(b) PROVE CountInv'
  <2>1. UNCHANGED <<slot, legacy>> /\ store' = Durable(b) /\ undo' = Durable(b)
    BY <1>2 DEF Boot
  <2>2. Exact(Durable(b))
    BY <1>2, ExactDurable
  <2>3. QED
    BY <2>1, <2>2 DEF CountInv, Exact, InUse
<1>3. CASE Crash \/ CrashInAppend
  <2>1. UNCHANGED <<slot, legacy>> /\ store' = EmptyPayload /\ undo' = EmptyPayload
    BY <1>3 DEF Crash, CrashInAppend, LoseRam
  <2>2. QED
    BY <2>1, ExactNothing DEF CountInv, Exact, InUse
<1>4. ASSUME NEW c \in Creds, Add(c) PROVE CountInv'
  <2> DEFINE s == Min(Free(store))
             new == PutCredential(store, s, c)
             fallback == WipeSlot(new, s)
  <2>1. s \in Free(store) /\ s \in Slots
    BY <1>4, FreeSlot DEF Add
  <2>2. Request("commit", new, fallback, "program")
    BY <1>4 DEF Add
  <2> HIDE DEF s
  <2>3. Exact(new)
    BY <1>1, <2>1, ExactPut
  <2>4. fallback.creds = store.creds /\ fallback.credential_count = store.credential_count
    BY <1>1, <2>1, AddUndone
  <2> HIDE DEF new, fallback
  <2>5. Exact(fallback)
    BY <1>1, <2>4, ExactCopy
  <2>6. QED
    BY <2>2, <2>3, <2>5, RequestCount
<1>5. ASSUME NEW s \in Slots, Delete(s) PROVE CountInv'
  <2>1. Request("commit", WipeSlot(store, s), store, "program") /\ s \in InUse(store)
    BY <1>1, <1>5, DeleteUndone DEF Delete
  <2>2. Exact(WipeSlot(store, s))
    BY <1>1, <2>1, ExactWipe
  <2>3. QED
    BY <1>1, <2>1, <2>2, RequestCount
<1>6. CASE Clear
  <2> DEFINE new == [store EXCEPT !.creds = EmptyPayload.creds, !.counts = EmptyPayload.counts,
                                  !.credential_count = 0]
  <2>1. new.creds = [s \in Slots |-> NoCred] /\ new.credential_count = 0
    BY <1>1 DEF Payloads, EmptyPayload, ResetPayload
  <2>2. Request("commit", new, new, "program")
    BY <1>6 DEF Clear
  <2> HIDE DEF new
  <2>3. QED
    BY <2>1, <2>2, ExactEmpty, RequestCount
<1>7. ASSUME NEW kind, NEW new, NEW fallback \in {store, new}, NEW first,
             Request(kind, new, fallback, first),
             new.creds = store.creds, new.credential_count = store.credential_count
      PROVE  CountInv'
  <2>1. Exact(new)
    BY <1>1, <1>7, ExactCopy
  <2>2. QED
    BY <1>1, <1>7, <2>1, RequestCount
<1>8. ASSUME NEW p \in Pins, SetPin(p) PROVE CountInv'
  <2> DEFINE new == [store EXCEPT !.pin = p]
  <2>1. new.creds = store.creds /\ new.credential_count = store.credential_count
    BY <1>1 DEF Payloads
  <2>2. Request("commit", new, new, "program")
    BY <1>8 DEF SetPin
  <2> HIDE DEF new
  <2>3. QED
    BY <1>7, <2>1, <2>2
<1>9. ASSUME NEW u \in UPConfigs, SetUP(u) PROVE CountInv'
  <2> DEFINE new == [store EXCEPT !.up = u, !.provenance = build]
  <2>1. new.creds = store.creds /\ new.credential_count = store.credential_count
    BY <1>1 DEF Payloads
  <2>2. Request("commit", new, new, "program")
    BY <1>9 DEF SetUP
  <2> HIDE DEF new
  <2>3. QED
    BY <1>7, <2>1, <2>2
<1>10. ASSUME NEW s \in Slots, UpdateSignCount(s) PROVE CountInv'
  <2> DEFINE new == [store EXCEPT !.counts[s] = store.counts[s] + 1]
  <2>1. new.creds = store.creds /\ new.credential_count = store.credential_count
    BY <1>1 DEF Payloads
  <2>2. Request("count", new, store, AppendFrom)
    BY <1>10 DEF UpdateSignCount
  <2> HIDE DEF new
  <2>3. QED
    BY <1>7, <2>1, <2>2
<1>11. ASSUME UNCHANGED <<slot, legacy, undo>>, store' \in {store, undo} PROVE CountInv'
  BY <1>1, <1>11 DEF CountInv, Exact, InUse
<1>12. CASE Reject \/ BindJournal \/ AppendEntry \/ UNCHANGED vars
  BY <1>11, <1>12 DEF Reject, BindJournal, AppendEntry, vars, flash, ram, control
<1>13. CASE EraseJournal
  <2>1. UNCHANGED <<slot, store, undo>> /\ legacy'.payload \in {legacy.payload, EmptyPayload}
    BY <1>13, LegacyAfterType DEF EraseJournal, ram, TypeOK
  <2>2. Exact(legacy'.payload)
    BY <2>1, ExactNothing DEF CountInv
  <2>3. QED
    BY <2>1, <2>2 DEF CountInv, Exact, InUse
<1>14. CASE ProgramBody
  <2>1. /\ slot' = [slot EXCEPT ![TargetSlot] = NoImage]
        /\ undo' = undo /\ store' \in {store, undo}
        /\ legacy'.payload \in {legacy.payload, EmptyPayload}
    BY <1>14, LegacyAfterType DEF ProgramBody, Fail, ram, TypeOK
  <2>2. \A i \in 0 .. 1 : slot'[i].payload \in {slot[i].payload, NoImage.payload}
    BY <2>1 DEF TypeOK
  <2>3. Exact(store') /\ Exact(undo') /\ Exact(legacy'.payload)
    BY <1>1, <2>1, ExactNothing DEF CountInv
  <2>4. \A i \in 0 .. 1 : Exact(slot'[i].payload)
    BY <2>2, ExactNothing DEF CountInv
  <2>5. QED
    BY <2>3, <2>4 DEF CountInv, Exact, InUse
<1>15. CASE ProgramHeader
  <2>1. CASE Fail /\ UNCHANGED slot
    BY <1>11, <1>15, <2>1 DEF ProgramHeader, Fail
  <2>2. CASE ~ (Fail /\ UNCHANGED slot)
    <3> DEFINE image == [generation |-> generation + 1, payload |-> store, wrapped |-> TRUE]
    <3>1. slot' = [slot EXCEPT ![TargetSlot] = image] /\ UNCHANGED <<store, undo, legacy>>
      BY <1>15, <2>2 DEF ProgramHeader
    <3>2. image.payload = store
      OBVIOUS
    <3> HIDE DEF image
    <3>3. \A i \in 0 .. 1 : slot'[i].payload \in {slot[i].payload, store}
      BY <3>1, <3>2 DEF TypeOK
    <3>4. \A i \in 0 .. 1 : Exact(slot'[i].payload)
      BY <1>1, <3>3 DEF CountInv
    <3>5. QED
      BY <3>1, <3>4 DEF CountInv, Exact, InUse
  <2>3. QED
    BY <2>1, <2>2
<1>16. QED
  BY <1>2, <1>3, <1>4, <1>5, <1>6, <1>8, <1>9, <1>10, <1>12, <1>13, <1>14, <1>15
     DEF Next, FlashStep

\* credential_count is the number of slots in use, for every capacity, through every
\* roll-back, replay and migration.
THEOREM CountCorrect == Spec => []CountIsExact
<1>1. CountInv => CountIsExact
  BY DEF CountInv, Exact, CountIsExact
<1>2. QED
  BY <1>1, InitCountInv, CountInvInductive, TypeCorrect, PTL DEF Spec
--------------------------------------------------------------------------------
(* The journal                                                               *)

\* A number of leading whole entries that no larger one has is the one that is replayed.
LEMMA WholePrefixUnique ==
  ASSUME NEW entries \in Seq(Entries), NEW n \in 0 .. Len(entries),
         \A i \in 1 .. n : entries[i].whole,
         n < Len(entries) => ~ entries[n + 1].whole
  PROVE  n = WholePrefix(entries)
<1> DEFINE m == WholePrefix(entries)
<1>1. /\ m \in 0 .. Len(entries)
      /\ \A i \in 1 .. m : entries[i].whole
      /\ m < Len(entries) => ~ entries[m + 1].whole
  BY WholePrefixProperty
<1> HIDE DEF m
<1>2. Len(entries) \in Nat
  OBVIOUS
<1>3. ~ (n < m)
  <2> SUFFICES ASSUME n < m PROVE FALSE
    OBVIOUS
  <2>1. n + 1 \in 1 .. m /\ n < Len(entries)
    BY <1>1, <1>2
  <2>2. QED
    BY <1>1, <2>1
<1>4. ~ (m < n)
  <2> SUFFICES ASSUME m < n PROVE FALSE
    OBVIOUS
  <2>1. m + 1 \in 1 .. n /\ m < Len(entries)
    BY <1>1, <1>2
  <2>2. QED
    BY <1>1, <2>1
<1>5. n = m
  BY <1>1, <1>2, <1>3, <1>4
<1>6. QED
  BY <1>5 DEF m

\* A journal that is replayed whole still is with one entry more.
LEMMA WholePrefixAppend ==
  ASSUME NEW entries \in Seq(Entries), NEW entry \in Entries, entry.whole,
         WholePrefix(entries) = Len(entries)
  PROVE  WholePrefix(Append(entries, entry)) = Len(entries) + 1
<1> DEFINE more == Append(entries, entry)
           n == Len(entries) + 1
<1>1. more \in Seq(Entries) /\ Len(more) = n /\ n \in 0 .. Len(more)
  OBVIOUS
<1>2. \A i \in 1 .. Len(entries) : entries[i].whole
  BY WholePrefixProperty
<1>3. ASSUME NEW i \in 1 .. n PROVE more[i].whole
  <2>1. CASE i = n
    <3>1. more[i] = entry
      BY <2>1
    <3>2. QED
      BY <3>1
  <2>2. CASE i # n
    <3>1. i \in 1 .. Len(entries) /\ more[i] = entries[i]
      BY <2>2
    <3>2. QED
      BY <1>2, <3>1
  <2>3. QED
    BY <2>1, <2>2
<1>4. ~ (n < Len(more))
  BY <1>1
<1> HIDE DEF more, n
<1>5. n = WholePrefix(more)
  BY <1>1, <1>3, <1>4, WholePrefixUnique
<1>6. QED
  BY <1>5 DEF more, n

LEMMA WholePrefixEmpty == WholePrefix(<<>>) = 0
<1>1. <<>> \in Seq(Entries) /\ Len(<<>>) = 0
  OBVIOUS
<1>2. WholePrefix(<<>>) \in 0 .. 0
  BY <1>1, WholePrefixProperty
<1>3. QED
  BY <1>2

\* RAM knows where the next entry goes, and without damage there is always a journal to
\* write it to.
JournalInv ==
  /\ ready => active # None
  /\ pc \in {"erase", "bind"} => active # None
  /\ pc = "bind" => journal.entries = <<>>
  /\ pc \notin {"off", "bind"} /\ ready => next = ReplayLength
  /\ pc = "append" => op = "count"
  /\ faults = 0 /\ pc = "append" => ready
  /\ faults = 0 /\ pc = "idle" /\ active = None => InUse(store) = {}
  /\ RefusalMeansDamage

\* A request leaves the journal and what RAM knows of it alone.
LEMMA RequestJournal ==
  ASSUME JournalInv, pc = "idle", NEW kind, NEW new, NEW fallback, NEW first,
         Request(kind, new, fallback, first),
         first \in {"program", "erase", "append"},
         first = "erase" => active # None,
         first = "append" => kind = "count" /\ (faults = 0 => ready)
  PROVE  JournalInv'
<1>1. /\ UNCHANGED <<journal, active, ready, next, faults>> /\ pc' = first /\ op' = kind
      /\ reply' = "none"
  BY DEF Request, flash
<1>2. ReplayLength' = ReplayLength
  BY <1>1 DEF ReplayLength
<1>3. RefusalMeansDamage'
  BY <1>1 DEF RefusalMeansDamage
<1>4. QED
  BY <1>1, <1>2, <1>3 DEF JournalInv

\* What a boot that finds nothing loads holds no credential.
LEMMA NothingFound ==
  ASSUME TypeOK, NEW b \in Builds, BestSlot = None, legacy.place = "none"
  PROVE  InUse(Durable(b)) = {}
<1> DEFINE base == BasePayload(b)
           clean == SanitizeUP(base, b)
           played == ReplayJournal(clean)
<1>1. base \in Payloads /\ clean \in Payloads
  BY DurableType
<1>2. base.creds = [s \in Slots |-> NoCred]
  BY DEF BasePayload, ResetPayload
<1>3. clean.creds = base.creds
  BY <1>1 DEF SanitizeUP, Payloads
<1>4. played.creds = clean.creds
  BY <1>1 DEF ReplayJournal, Payloads
<1>5. played.creds = [s \in Slots |-> NoCred]
  BY <1>2, <1>3, <1>4
<1> HIDE DEF played
<1>6. InUse(played) = {}
  BY <1>5 DEF InUse
<1>7. QED
  BY <1>6 DEF Durable, played

LEMMA BootJournal ==
  ASSUME TypeOK, NEW b \in Builds, Boot(b)
  PROVE  JournalInv'
<1>1. /\ active' = BestSlot /\ ready' = JournalBound /\ next' = ResumeIndex
      /\ journal' = journal /\ store' = Durable(b) /\ op' = "boot"
      /\ pc' \in {"program", "idle"}
  BY DEF Boot
<1>2. ReplayLength' = ReplayLength
  BY <1>1 DEF ReplayLength
<1>3. ready' => active' # None /\ next' = ReplayLength'
  BY <1>1, <1>2 DEF JournalBound, ResumeIndex
<1>4. ASSUME pc' = "idle", active' = None PROVE InUse(store)' = {}
  <2>1. BestSlot = None /\ legacy.place = "none"
    BY <1>1, <1>4 DEF Boot
  <2>2. InUse(Durable(b)) = {}
    BY <2>1, NothingFound
  <2>3. QED
    BY <1>1, <2>2 DEF InUse
<1>5. RefusalMeansDamage'
  BY <1>1 DEF RefusalMeansDamage
<1>6. QED
  BY <1>1, <1>3, <1>4, <1>5 DEF JournalInv

\* A write that fails leaves damage behind.
LEMMA FailJournal ==
  ASSUME TypeOK, JournalInv, pc \in {"program", "header"}, Fail, journal' = journal
  PROVE  JournalInv'
<1>1. faults' # 0
  <2>1. faults \in Nat /\ faults' = faults + 1
    BY DEF Fail, TypeOK
  <2>2. QED
    BY <2>1
<1>2. UNCHANGED <<active, ready, next>> /\ pc' = "idle"
  BY DEF Fail
<1>3. ReplayLength' = ReplayLength
  BY DEF ReplayLength
<1>4. RefusalMeansDamage'
  <2>1. faults' > 0
    <3>1. faults \in Nat /\ faults' = faults + 1
      BY DEF Fail, TypeOK
    <3>2. QED
      BY <3>1
  <2>2. QED
    BY <2>1 DEF RefusalMeansDamage
<1>5. QED
  BY <1>1, <1>2, <1>3, <1>4 DEF JournalInv

LEMMA AppendJournal ==
  ASSUME TypeOK, JournalInv, AppendEntry
  PROVE  JournalInv'
<1>1. /\ pc = "append" /\ pc' = "idle" /\ op = "count" /\ op' = "count"
      /\ UNCHANGED <<active, ready, faults>>
  BY DEF AppendEntry, Done, JournalInv
<1>2. /\ journal.entries \in Seq(Entries) /\ next \in Nat /\ faults \in Nat
      /\ ready => next = ReplayLength
  BY <1>1 DEF TypeOK, JournalInv
<1>3. ASSUME faults = 0 PROVE ready /\ active # None
  BY <1>1, <1>3 DEF JournalInv
<1>4. faults' = 0 /\ pc' = "idle" /\ active' = None => InUse(store)' = {}
  BY <1>1, <1>3
<1>5. CASE AppendIndex = Len(journal.entries)
  <2> DEFINE entry == [whole |-> TRUE, slot |-> target, count |-> store.counts[target]]
  <2>1. entry \in Entries
    <3>1. store.counts \in [Slots -> Nat] /\ target \in Slots
      BY DEF TypeOK, Payloads
    <3>2. QED
      BY <3>1 DEF Entries
  <2>2. entry.whole
    OBVIOUS
  <2>3. ~ (AppendIndex < Len(journal.entries))
    BY <1>2, <1>5
  <2>4. /\ journal' = [journal EXCEPT !.entries = Append(@, entry)]
        /\ next' = AppendIndex + 1 /\ reply' = "ok"
    BY <2>3 DEF AppendEntry, Done
  <2> HIDE DEF entry
  <2>5. journal'.entries = Append(journal.entries, entry)
    BY <2>4 DEF TypeOK
  <2>6. ASSUME ready PROVE next' = ReplayLength'
    <3>1. WholePrefix(journal.entries) = Len(journal.entries) /\ AppendIndex = next
      BY <1>2, <1>5, <2>6 DEF ReplayLength, AppendIndex
    <3>2. WholePrefix(journal'.entries) = Len(journal.entries) + 1
      BY <1>2, <2>1, <2>2, <2>5, <3>1, WholePrefixAppend
    <3>3. QED
      BY <1>5, <2>4, <3>2 DEF ReplayLength
  <2>7. RefusalMeansDamage'
    BY <2>4 DEF RefusalMeansDamage
  <2>8. QED
    BY <1>1, <1>4, <2>6, <2>7 DEF JournalInv
<1>6. CASE AppendIndex # Len(journal.entries)
  <2>1. /\ AppendIndex < Len(journal.entries) /\ next' = AppendIndex /\ journal' = journal
    BY <1>6 DEF AppendEntry
  <2>2. ReplayLength' = ReplayLength
    BY <2>1 DEF ReplayLength
  <2>3. ready => next' = ReplayLength'
    BY <1>2, <2>1, <2>2 DEF AppendIndex
  <2>4. faults > 0 \/ ReplayLength < Len(journal.entries)
    <3>1. CASE faults = 0
      BY <1>2, <1>3, <2>1, <3>1 DEF AppendIndex
    <3>2. CASE faults # 0
      BY <1>2, <3>2
    <3>3. QED
      BY <3>1, <3>2
  <2>5. RefusalMeansDamage'
    BY <1>1, <2>1, <2>2, <2>4 DEF RefusalMeansDamage
  <2>6. QED
    BY <1>1, <1>4, <2>3, <2>5 DEF JournalInv
<1>7. QED
  BY <1>5, <1>6

LEMMA JournalInvInductive ==
  ASSUME TypeOK, JournalInv, [Next]_vars
  PROVE  JournalInv'
<1>1. CASE \E b \in Builds : Boot(b)
  BY <1>1, BootJournal
<1>2. CASE Crash \/ CrashInAppend
  BY <1>2 DEF Crash, CrashInAppend, LoseRam, JournalInv, RefusalMeansDamage
<1>3. CASE \/ (\E c \in Creds : Add(c)) \/ (\E s \in Slots : Delete(s)) \/ Clear
           \/ (\E p \in Pins : SetPin(p)) \/ (\E u \in UPConfigs : SetUP(u))
  <2>1. ASSUME NEW new, NEW fallback, pc = "idle", Request("commit", new, fallback, "program")
        PROVE  JournalInv'
    BY <2>1, RequestJournal
  <2>2. QED
    BY <1>3, <2>1 DEF Add, Delete, Clear, SetPin, SetUP
<1>4. ASSUME NEW s \in Slots, UpdateSignCount(s)
      PROVE  JournalInv'
  <2> DEFINE new == [store EXCEPT !.counts[s] = store.counts[s] + 1]
  <2>1. pc = "idle" /\ Request("count", new, store, AppendFrom) /\ s \in InUse(store)
    BY <1>4 DEF UpdateSignCount
  <2> HIDE DEF new
  <2>2. /\ AppendFrom \in {"program", "erase", "append"}
        /\ AppendFrom = "erase" => active # None
        /\ AppendFrom = "append" => ready \/ active = None
    <3>1. ready \in BOOLEAN /\ next \in Nat /\ JournalCapacity \in Nat
      BY ConstantsOK DEF TypeOK
    <3>2. (next < JournalCapacity) \/ (next >= JournalCapacity)
      BY <3>1
    <3>3. QED
      BY <3>1, <3>2 DEF AppendFrom
  <2>3. faults = 0 => active # None
    BY <2>1 DEF JournalInv
  <2>4. QED
    BY <2>1, <2>2, <2>3, RequestJournal
<1>5. CASE Reject
  <2>1. UNCHANGED <<journal, active, ready, next, faults, pc, store>> /\ op' = "reject" /\ pc = "idle"
    BY <1>5 DEF Reject, flash, ram
  <2>2. ReplayLength' = ReplayLength /\ InUse(store)' = InUse(store)
    BY <2>1 DEF ReplayLength, InUse
  <2>3. QED
    BY <2>1, <2>2 DEF JournalInv, RefusalMeansDamage
<1>6. CASE ProgramBody
  <2>1. CASE Fail
    BY <1>6, <2>1, FailJournal DEF ProgramBody
  <2>2. CASE ~ Fail
    <3>1. UNCHANGED <<journal, active, ready, next, faults>> /\ pc = "program" /\ pc' = "header"
      BY <1>6, <2>2 DEF ProgramBody, ram
    <3>2. ReplayLength' = ReplayLength
      BY <3>1 DEF ReplayLength
    <3>3. QED
      BY <3>1, <3>2 DEF JournalInv, RefusalMeansDamage
  <2>3. QED
    BY <2>1, <2>2
<1>7. CASE ProgramHeader
  <2>1. CASE Fail
    BY <1>7, <2>1, FailJournal DEF ProgramHeader
  <2>2. CASE ~ Fail
    <3>1. /\ UNCHANGED <<journal, ready, next, faults>> /\ pc = "header" /\ pc' = "erase"
          /\ active' = TargetSlot
      BY <1>7, <2>2 DEF ProgramHeader
    <3>2. TargetSlot # None
      BY DEF TargetSlot, None
    <3>3. ReplayLength' = ReplayLength
      BY <3>1 DEF ReplayLength
    <3>4. QED
      BY <3>1, <3>2, <3>3 DEF JournalInv, RefusalMeansDamage
  <2>3. QED
    BY <2>1, <2>2
<1>8. CASE EraseJournal
  BY <1>8 DEF EraseJournal, JournalInv, RefusalMeansDamage, ram
<1>9. CASE BindJournal
  <2>1. journal'.entries = journal.entries /\ journal.entries = <<>>
    BY <1>9 DEF BindJournal, TypeOK, JournalInv
  <2>2. ReplayLength' = 0
    BY <2>1, WholePrefixEmpty DEF ReplayLength
  <2>3. /\ next' = 0 /\ ready' = TRUE /\ active' = active /\ active # None /\ op' = op
        /\ (op = "count" /\ pc' = "append") \/ (pc' = "idle" /\ reply' = "ok")
    BY <1>9 DEF BindJournal, Done, JournalInv
  <2>4. QED
    BY <2>2, <2>3 DEF JournalInv, RefusalMeansDamage
<1>10. CASE AppendEntry
  BY <1>10, AppendJournal
<1>11. CASE UNCHANGED vars
  <2>1. UNCHANGED <<journal, active, ready, next, faults, pc, op, reply, store>>
    BY <1>11 DEF vars, flash, ram, control
  <2>2. ReplayLength' = ReplayLength /\ InUse(store)' = InUse(store)
    BY <2>1 DEF ReplayLength, InUse
  <2>3. RefusalMeansDamage' = RefusalMeansDamage
    BY <2>1, <2>2 DEF RefusalMeansDamage
  <2>4. QED
    BY <2>1, <2>2, <2>3 DEF JournalInv
<1>12. QED
  BY <1>1, <1>2, <1>3, <1>4, <1>5, <1>6, <1>7, <1>8, <1>9, <1>10, <1>11 DEF Next, FlashStep

LEMMA InitJournalInv == Init => JournalInv
BY DEF Init, PowerOffRam, JournalInv, RefusalMeansDamage

\* An update of a sign count is refused only when a write has failed or an earlier update
\* was torn: what is programmed is always the next blank entry.
THEOREM RefusalCorrect == Spec => []RefusalMeansDamage
<1>1. JournalInv => RefusalMeansDamage
  BY DEF JournalInv
<1>2. QED
  BY <1>1, InitJournalInv, JournalInvInductive, TypeCorrect, PTL DEF Spec

--------------------------------------------------------------------------------
(* Sign counts                                                               *)

\* The image that a power-up finds, when there is one.
Image == slot[BestSlot].payload

\* The count that a power-up finds for slot s.
Found(s) ==
  LET last == LastEntry(journal.entries, s, IF JournalBound THEN ReplayLength ELSE 0)
  IN  IF Image.creds[s] # NoCred /\ last > 0 THEN journal.entries[last].count
      ELSE Image.counts[s]

\* A power-up finds the counts of p, but for the slots in T and those whose credential the
\* active image does not hold.
AgreesBut(p, T) ==
  \A s \in InUse(p) \ T : Image.creds[s] = p.creds[s] => Found(s) = p.counts[s]

ImageAgrees(p) ==
  \A s \in InUse(p) : Image.creds[s] = p.creds[s] => Image.counts[s] = p.counts[s]

\* An update of a sign count changes one count of the image it falls back to.
UpdateInv ==
  pc \notin {"off", "idle"} /\ op = "count" =>
    /\ store.creds = undo.creds
    /\ \A s \in Slots \ {target} : store.counts[s] = undo.counts[s]

\* RAM never takes a journal that a boot would replay for one that it would not, and
\* the journal is emptied only when the image has all that was in it.
ReadyInv ==
  /\ pc = "append" => ready
  /\ ~ ready /\ pc \in {"idle", "program", "header"} => ~ JournalBound
  /\ pc \in {"erase", "bind"} => ImageIsStore \/ (op = "count" /\ ImageAgrees(undo))

\* While an operation is in progress a power-up finds the counts it falls back to.
AgreeInv ==
  (ready => JournalBound) =>
    /\ pc = "idle" => AgreesBut(store, {})
    /\ pc \in {"program", "header"} => AgreesBut(undo, {})
    /\ pc = "append" => /\ AgreesBut(store, {target})
                        /\ AgreesBut(undo, {}) \/ journal.entries = <<>>

\* The inductive form of BoundCountsAreDurable.
CountsInv ==
  /\ UpdateInv
  /\ active # None => ReadyInv /\ AgreeInv

\* What a boot loads when there is an active image.
LEMMA FoundProperty ==
  ASSUME TypeOK, NEW b \in Builds, BestSlot # None, NEW s \in Slots
  PROVE  /\ BasePayload(b) = Image
         /\ Durable(b).creds = Image.creds
         /\ Durable(b).counts[s] = Found(s)
<1> DEFINE clean == SanitizeUP(BasePayload(b), b)
           last(t) == LastEntry(journal.entries, t, IF JournalBound THEN ReplayLength ELSE 0)
           counts == [t \in Slots |-> IF clean.creds[t] # NoCred /\ last(t) > 0
                                      THEN journal.entries[last(t)].count ELSE clean.counts[t]]
<1>1. BasePayload(b) = Image
  BY DEF BasePayload, Image
<1>2. clean \in Payloads /\ BasePayload(b) \in Payloads
  BY DurableType
<1>3. clean.creds = Image.creds /\ clean.counts = Image.counts
  BY <1>1, <1>2 DEF SanitizeUP, Payloads
<1>4. Durable(b) = [clean EXCEPT !.counts = counts]
  BY DEF Durable, ReplayJournal
<1>5. counts[s] = Found(s)
  BY <1>3 DEF Found
<1> HIDE DEF clean, counts
<1>6. Durable(b).creds = clean.creds /\ Durable(b).counts = counts
  BY <1>2, <1>4 DEF Payloads
<1>7. QED
  BY <1>1, <1>3, <1>5, <1>6

\* A step that leaves the active image and the journal alone changes nothing that a boot
\* would find.
LEMMA SteadyFlash ==
  ASSUME UNCHANGED <<journal, BestSlot>>, slot'[BestSlot] = slot[BestSlot]
  PROVE  /\ Image' = Image /\ (JournalBound' <=> JournalBound)
         /\ \A s : Found(s)' = Found(s)
<1>1. Image' = Image /\ (JournalBound' <=> JournalBound)
  BY DEF Image, JournalBound
<1>2. ReplayLength' = ReplayLength
  BY DEF ReplayLength
<1>3. QED
  BY <1>1, <1>2 DEF Found

\* Nothing is found but the image itself while the journal is not bound or has no entry.
LEMMA FoundInImage ==
  ASSUME TypeOK, ~ JournalBound \/ journal.entries = <<>>, NEW s
  PROVE  Found(s) = Image.counts[s]
<1> DEFINE n == IF JournalBound THEN ReplayLength ELSE 0
<1>1. n = 0
  <2>1. CASE ~ JournalBound
    BY <2>1
  <2>2. CASE journal.entries = <<>>
    BY <2>2, WholePrefixEmpty DEF ReplayLength
  <2>3. QED
    BY <2>1, <2>2
<1> HIDE DEF n
<1>2. LastEntry(journal.entries, s, n) = 0
  <2>1. LastEntry(journal.entries, s, n) \in 0 .. n
    BY <1>1, LastEntryProperty
  <2>2. QED
    BY <1>1, <2>1
<1>3. QED
  BY <1>2 DEF Found, n

\* The last entry for a slot, when one more is programmed.
LEMMA LastEntryAppend ==
  ASSUME NEW entries \in Seq(Entries), NEW entry \in Entries, NEW s
  PROVE  LET n == Len(entries)
             more == Append(entries, entry)
         IN  /\ entry.slot = s => LastEntry(more, s, n + 1) = n + 1
             /\ entry.slot # s => LastEntry(more, s, n + 1) = LastEntry(entries, s, n)
<1> DEFINE n == Len(entries)
           more == Append(entries, entry)
           S == {0} \cup {i \in 1 .. n : entries[i].slot = s}
           T == {0} \cup {i \in 1 .. n + 1 : more[i].slot = s}
<1>1. n \in Nat /\ n + 1 \in Nat /\ more[n + 1] = entry /\ \A i \in 1 .. n : more[i] = entries[i]
  OBVIOUS
<1> HIDE DEF n, more
<1>2. ASSUME entry.slot = s PROVE LastEntry(more, s, n + 1) = n + 1
  <2>1. T \in SUBSET (0 .. n + 1) /\ T # {} /\ n + 1 \in T
    BY <1>1, <1>2
  <2>2. Max(T) \in T /\ \A k \in T : k <= Max(T)
    <3> HIDE DEF T
    <3>1. QED
      BY <1>1, <2>1, MaxProperty
  <2>3. Max(T) \in 0 .. n + 1 /\ n + 1 <= Max(T)
    BY <2>1, <2>2
  <2>4. Max(T) = n + 1
    BY <1>1, <2>3
  <2>5. QED
    BY <2>4 DEF LastEntry
<1>3. ASSUME entry.slot # s PROVE LastEntry(more, s, n + 1) = LastEntry(entries, s, n)
  <2>1. \A i \in 1 .. n + 1 : i \in 1 .. n \/ i = n + 1
    BY <1>1
  <2>2. T = S
    BY <1>1, <1>3, <2>1
  <2>3. QED
    BY <2>2 DEF LastEntry
<1>4. QED
  BY <1>2, <1>3 DEF n, more

LEMMA InitCountsInv == Init => CountsInv
BY DEF Init, PowerOffRam, CountsInv, UpdateInv

\* A request that leaves the counts it falls back to as they were, or that starts an update.
LEMMA RequestCounts ==
  ASSUME ActiveImageIsBest, CountsInv, pc = "idle", NEW new, NEW fallback,
         Request("commit", new, fallback, "program"),
         \A s \in InUse(fallback) : fallback.creds[s] = store.creds[s] /\ fallback.counts[s] = store.counts[s]
  PROVE  CountsInv'
<1>1. /\ UNCHANGED <<slot, journal, active, ready>> /\ pc' = "program" /\ op' = "commit"
      /\ undo' = fallback
  BY DEF Request, flash
<1>2. UpdateInv'
  BY <1>1 DEF UpdateInv
<1>3. ASSUME active # None PROVE ReadyInv' /\ AgreeInv'
  <2>1. BestSlot' = BestSlot
    BY <1>1 DEF BestSlot, Holds
  <2>3. Image' = Image /\ (JournalBound' <=> JournalBound) /\ \A s : Found(s)' = Found(s)
    BY <1>1, <2>1, SteadyFlash
  <2>4. ReadyInv'
    BY <1>1, <1>3, <2>3 DEF CountsInv, ReadyInv
  <2>5. ASSUME ready => JournalBound PROVE AgreesBut(undo, {})'
    <3>1. AgreesBut(store, {})
      BY <1>3, <2>5 DEF CountsInv, AgreeInv
    <3>2. QED
      BY <1>1, <2>3, <3>1 DEF AgreesBut, InUse
  <2>6. QED
    BY <1>1, <2>3, <2>4, <2>5 DEF AgreeInv
<1>4. QED
  BY <1>1, <1>2, <1>3 DEF CountsInv

LEMMA UpdateCounts ==
  ASSUME TypeOK, ActiveImageIsBest, CountsInv, NEW t \in Slots, UpdateSignCount(t)
  PROVE  CountsInv'
<1> DEFINE new == [store EXCEPT !.counts[t] = store.counts[t] + 1]
<1>1. new.creds = store.creds /\ \A s \in Slots \ {t} : new.counts[s] = store.counts[s]
  BY DEF TypeOK, Payloads
<1>2. pc = "idle" /\ Request("count", new, store, AppendFrom) /\ target' = t
  BY DEF UpdateSignCount
<1> HIDE DEF new
<1>3. /\ UNCHANGED <<slot, journal, active, ready>> /\ pc' = AppendFrom /\ op' = "count"
      /\ store' = new /\ undo' = store
  BY <1>2 DEF Request, flash
<1>4. UpdateInv'
  BY <1>1, <1>2, <1>3 DEF UpdateInv
<1>5. ASSUME active # None PROVE ReadyInv' /\ AgreeInv'
  <2>2. BestSlot' = BestSlot
    BY <1>3 DEF BestSlot, Holds
  <2>3. Image' = Image /\ (JournalBound' <=> JournalBound) /\ \A s : Found(s)' = Found(s)
    BY <1>3, <2>2, SteadyFlash
  <2>4. \/ ~ ready /\ pc' = "erase"
        \/ ready /\ pc' \in {"append", "program"}
    <3>1. ready \in BOOLEAN /\ next \in Nat /\ JournalCapacity \in Nat
      BY ConstantsOK DEF TypeOK
    <3>2. (next < JournalCapacity) \/ (next >= JournalCapacity)
      BY <3>1
    <3>3. QED
      BY <1>3, <1>5, <3>1, <3>2 DEF AppendFrom
  <2>5. ASSUME ready => JournalBound PROVE AgreesBut(store, {})
    BY <1>2, <1>5, <2>5 DEF CountsInv, AgreeInv
  <2>6. ASSUME ~ ready PROVE ImageAgrees(undo)'
    <3>1. ~ JournalBound
      BY <1>2, <1>5, <2>6 DEF CountsInv, ReadyInv
    <3>2. \A s : Found(s) = Image.counts[s]
      BY <3>1, FoundInImage
    <3>3. QED
      BY <1>3, <2>3, <2>5, <2>6, <3>2 DEF AgreesBut, ImageAgrees, InUse
  <2>7. ReadyInv'
    BY <1>3, <2>4, <2>6 DEF ReadyInv
  <2>8. ASSUME (ready => JournalBound)' PROVE AgreesBut(undo, {})' /\ AgreesBut(store, {target})'
    <3>1. AgreesBut(store, {})
      BY <1>3, <2>3, <2>5, <2>8
    <3>2. AgreesBut(undo, {})'
      BY <1>3, <2>3, <3>1 DEF AgreesBut, InUse
    <3>3. AgreesBut(store, {target})'
      BY <1>1, <1>2, <1>3, <2>3, <3>1 DEF AgreesBut, InUse
    <3>4. QED
      BY <3>2, <3>3
  <2>9. QED
    BY <2>4, <2>7, <2>8 DEF AgreeInv
<1>6. QED
  BY <1>3, <1>4, <1>5 DEF CountsInv

LEMMA BootCounts ==
  ASSUME TypeOK, NEW b \in Builds, Boot(b)
  PROVE  CountsInv'
<1>1. /\ active' = BestSlot /\ ready' = JournalBound /\ op' = "boot" /\ pc' \in {"program", "idle"}
      /\ store' = Durable(b) /\ undo' = Durable(b) /\ UNCHANGED <<slot, journal, legacy>>
  BY DEF Boot
<1>2. UpdateInv'
  BY <1>1 DEF UpdateInv
<1>3. ASSUME active' # None PROVE ReadyInv' /\ AgreeInv'
  <2>1. BestSlot' = BestSlot
    BY <1>1 DEF BestSlot, Holds
  <2>2. Image' = Image /\ (JournalBound' <=> JournalBound) /\ \A s : Found(s)' = Found(s)
    BY <1>1, <2>1, SteadyFlash
  <2>3. ReadyInv'
    <3>1. ready' => JournalBound'
      BY <1>1, <2>2
    <3>2. JournalBound' => ready'
      BY <1>1, <2>2
    <3>3. QED
      BY <1>1, <3>2 DEF ReadyInv
  <2>4. \A s \in Slots : Durable(b).counts[s] = Found(s)
    BY <1>1, <1>3, FoundProperty DEF None
  <2>5. AgreesBut(store, {})' /\ AgreesBut(undo, {})'
    BY <1>1, <2>2, <2>4 DEF AgreesBut, InUse
  <2>6. QED
    BY <1>1, <2>3, <2>5 DEF AgreeInv
<1>4. QED
  BY <1>2, <1>3 DEF CountsInv

\* A write that fails falls back to counts that a power-up finds.
LEMMA FailCounts ==
  ASSUME CountsInv, pc \in {"program", "header"}, Fail, journal' = journal,
         BestSlot' = BestSlot, BestSlot = active,
         BestSlot # None => slot'[BestSlot] = slot[BestSlot]
  PROVE  CountsInv'
<1>1. UNCHANGED <<active, ready>> /\ pc' = "idle" /\ store' = undo
  BY DEF Fail
<1>2. UpdateInv'
  BY <1>1 DEF UpdateInv
<1>3. ASSUME active # None PROVE ReadyInv' /\ AgreeInv'
  <2>1. Image' = Image /\ (JournalBound' <=> JournalBound) /\ \A s : Found(s)' = Found(s)
    BY <1>3, SteadyFlash
  <2>2. ReadyInv'
    BY <1>1, <1>3, <2>1 DEF CountsInv, ReadyInv
  <2>3. ASSUME ready => JournalBound PROVE AgreesBut(store, {})'
    <3>1. AgreesBut(undo, {})
      BY <1>3, <2>3 DEF CountsInv, AgreeInv
    <3>2. QED
      BY <1>1, <2>1, <3>1 DEF AgreesBut, InUse
  <2>4. QED
    BY <1>1, <2>1, <2>2, <2>3 DEF AgreeInv
<1>4. QED
  BY <1>1, <1>2, <1>3 DEF CountsInv

LEMMA BodyCounts ==
  ASSUME TypeOK, ActiveImageIsBest, CountsInv, ProgramBody
  PROVE  CountsInv'
<1>1. /\ BestSlot' = BestSlot /\ BestSlot = active /\ journal' = journal /\ pc = "program"
      /\ BestSlot # None => slot'[BestSlot] = slot[BestSlot]
  BY ProgramBodyKeepsSlot DEF ProgramBody, ActiveImageIsBest
<1>2. CASE Fail
  BY <1>1, <1>2, FailCounts
<1>3. CASE ~ Fail
  <2>1. UNCHANGED <<store, undo, active, ready, op, target>> /\ pc' = "header"
    BY <1>3 DEF ProgramBody, ram
  <2>2. UpdateInv'
    BY <1>1, <2>1 DEF CountsInv, UpdateInv
  <2>3. ASSUME active # None PROVE ReadyInv' /\ AgreeInv'
    <3>1. Image' = Image /\ (JournalBound' <=> JournalBound) /\ \A s : Found(s)' = Found(s)
      BY <1>1, <2>3, SteadyFlash
    <3>2. ReadyInv'
      BY <1>1, <2>1, <2>3, <3>1 DEF CountsInv, ReadyInv
    <3>3. ASSUME ready => JournalBound PROVE AgreesBut(undo, {})'
      <4>1. AgreesBut(undo, {})
        BY <1>1, <2>3, <3>3 DEF CountsInv, AgreeInv
      <4>2. QED
        BY <2>1, <3>1, <4>1 DEF AgreesBut, InUse
    <3>4. QED
      BY <2>1, <3>1, <3>2, <3>3 DEF AgreeInv
  <2>4. QED
    BY <2>1, <2>2, <2>3 DEF CountsInv
<1>4. QED
  BY <1>2, <1>3

LEMMA HeaderCounts ==
  ASSUME TypeOK, ActiveImageIsBest, CountsInv, ProgramHeader
  PROVE  CountsInv'
<1>1. BestSlot = active /\ journal' = journal /\ pc = "header"
  BY DEF ProgramHeader, ActiveImageIsBest
<1>2. CASE Fail /\ UNCHANGED slot
  <2>1. BestSlot' = BestSlot
    BY <1>2 DEF BestSlot, Holds
  <2>2. QED
    BY <1>1, <1>2, <2>1, FailCounts
<1>3. CASE ~ (Fail /\ UNCHANGED slot)
  <2> DEFINE image == [generation |-> generation + 1, payload |-> store, wrapped |-> TRUE]
  <2>1. /\ slot' = [slot EXCEPT ![TargetSlot] = image] /\ active' = TargetSlot /\ pc' = "erase"
        /\ UNCHANGED <<store, undo, op, target>>
    BY <1>3 DEF ProgramHeader
  <2>2. TargetSlot \in 0 .. 1 /\ TargetSlot # None /\ slot \in [0 .. 1 -> Images]
    <3>1. slot \in [0 .. 1 -> Images]
      BY DEF TypeOK
    <3>2. QED
      BY <3>1 DEF TargetSlot, None
  <2>3. slot'[TargetSlot] = image /\ image.payload = store
    BY <2>1, <2>2
  <2>4. ImageIsStore'
    BY <2>1, <2>2, <2>3 DEF ImageIsStore, None
  <2>5. UpdateInv'
    BY <1>1, <2>1 DEF CountsInv, UpdateInv
  <2>6. QED
    BY <2>1, <2>4, <2>5 DEF CountsInv, ReadyInv, AgreeInv
<1>4. QED
  BY <1>2, <1>3

\* The journal is emptied once nothing in it is needed.
LEMMA EraseCounts ==
  ASSUME CountsInv, EraseJournal
  PROVE  CountsInv'
<1>1. UNCHANGED <<slot, store, undo, active, op, target>> /\ pc = "erase" /\ pc' = "bind"
  BY DEF EraseJournal, ram
<1>2. Image' = Image /\ ImageIsStore' = ImageIsStore
  BY <1>1 DEF Image, BestSlot, Holds, ImageIsStore
<1>3. ImageAgrees(undo)' = ImageAgrees(undo)
  BY <1>1, <1>2 DEF ImageAgrees, InUse
<1>4. UpdateInv'
  BY <1>1 DEF CountsInv, UpdateInv
<1>5. QED
  BY <1>1, <1>2, <1>3, <1>4 DEF CountsInv, ReadyInv, AgreeInv

LEMMA BindCounts ==
  ASSUME TypeOK, ActiveImageIsBest, JournalInv, CountsInv, BindJournal
  PROVE  CountsInv'
<1>1. /\ UNCHANGED <<slot, store, undo, active, op, target>> /\ pc = "bind" /\ ready' = TRUE
      /\ active # None /\ BestSlot = active /\ journal.entries = <<>>
      /\ journal'.entries = <<>>
      /\ (op = "count" /\ pc' = "append") \/ (op # "count" /\ pc' = "idle")
  <2>1. UNCHANGED <<slot, store, undo, active, op, target>> /\ pc = "bind" /\ ready' = TRUE
    BY DEF BindJournal
  <2>2. active # None /\ BestSlot = active /\ journal.entries = <<>>
    BY <2>1 DEF JournalInv, ActiveImageIsBest
  <2>3. journal'.entries = journal.entries
    BY DEF BindJournal, TypeOK
  <2>4. (op = "count" /\ pc' = "append") \/ (op # "count" /\ pc' = "idle")
    BY DEF BindJournal, Done
  <2>5. QED
    BY <2>1, <2>2, <2>3, <2>4
<1>2. Image' = Image
  BY <1>1 DEF Image, BestSlot, Holds
<1>3. \A s : Found(s)' = Image'.counts[s]
  <2>1. ReplayLength' = 0
    BY <1>1, WholePrefixEmpty DEF ReplayLength
  <2>2. ASSUME NEW s, NEW n, n = 0 PROVE LastEntry(journal'.entries, s, n) = 0
    <3>1. LastEntry(journal'.entries, s, n) \in 0 .. n
      BY <2>2, LastEntryProperty
    <3>2. QED
      BY <2>2, <3>1
  <2>3. QED
    BY <2>1, <2>2 DEF Found
<1>4. UpdateInv'
  BY <1>1 DEF CountsInv, UpdateInv
<1>5. ReadyInv'
  BY <1>1 DEF ReadyInv
<1>6. CASE ImageIsStore
  <2>1. Image = store
    BY <1>1, <1>6 DEF ImageIsStore, Image
  <2>2. AgreesBut(store, {})' /\ AgreesBut(store, {target})'
    BY <1>1, <1>2, <1>3, <2>1 DEF AgreesBut, InUse
  <2>3. QED
    BY <1>1, <1>4, <1>5, <2>2 DEF CountsInv, AgreeInv
<1>7. CASE op = "count" /\ ImageAgrees(undo)
  <2>1. store.creds = undo.creds /\ \A s \in Slots \ {target} : store.counts[s] = undo.counts[s]
    BY <1>1, <1>7 DEF CountsInv, UpdateInv
  <2>2. AgreesBut(store, {target})'
    BY <1>1, <1>2, <1>3, <1>7, <2>1 DEF AgreesBut, ImageAgrees, InUse
  <2>3. QED
    BY <1>1, <1>4, <1>5, <1>7, <2>2 DEF CountsInv, AgreeInv
<1>8. QED
  BY <1>1, <1>6, <1>7 DEF CountsInv, ReadyInv

\* The entry that is programmed is the one that a boot replays last, and only for its slot.
LEMMA AppendCounts ==
  ASSUME TypeOK, ActiveImageIsBest, JournalInv, CountsInv, AppendEntry
  PROVE  CountsInv'
<1>1. /\ UNCHANGED <<slot, active, ready, op, target>> /\ pc = "append" /\ pc' = "idle"
      /\ BestSlot = active /\ journal.entries \in Seq(Entries) /\ target \in Slots
  BY DEF AppendEntry, Done, TypeOK, ActiveImageIsBest
<1>2. Image' = Image /\ BestSlot' = BestSlot
  BY <1>1 DEF Image, BestSlot, Holds
<1>3. UpdateInv'
  BY <1>1 DEF UpdateInv
<1>4. ASSUME active # None PROVE ReadyInv' /\ AgreeInv'
  <2>1. ready /\ next = ReplayLength /\ AppendIndex = ReplayLength
    <3>1. ready
      BY <1>1, <1>4 DEF CountsInv, ReadyInv
    <3>2. QED
      BY <1>1, <3>1 DEF JournalInv, AppendIndex
  <2>2. ReadyInv'
    BY <1>1, <2>1 DEF ReadyInv
  <2>3. CASE AppendIndex = Len(journal.entries)
    <3> DEFINE entry == [whole |-> TRUE, slot |-> target, count |-> store.counts[target]]
               n == Len(journal.entries)
    <3>1. entry \in Entries /\ entry.whole /\ entry.slot = target
          /\ entry.count = store.counts[target]
      <4>1. store.counts \in [Slots -> Nat]
        BY DEF TypeOK, Payloads
      <4>2. QED
        BY <1>1, <4>1 DEF Entries
    <3>2. /\ journal' = [journal EXCEPT !.entries = Append(@, entry)]
          /\ store' = store
      <4>1. ~ (AppendIndex < Len(journal.entries))
        BY <1>1, <2>3
      <4>2. QED
        BY <4>1 DEF AppendEntry
    <3> HIDE DEF entry
    <3>3. journal'.header = journal.header /\ journal'.entries = Append(journal.entries, entry)
      BY <3>2 DEF TypeOK
    <3>4. /\ n \in Nat /\ journal'.entries[n + 1] = entry
          /\ \A i \in 1 .. n : journal'.entries[i] = journal.entries[i]
      BY <1>1, <3>1, <3>3
    <3>5. ReplayLength = n /\ ReplayLength' = n + 1
      <4>1. WholePrefix(Append(journal.entries, entry)) = n + 1
        BY <1>1, <2>1, <2>3, <3>1, WholePrefixAppend DEF ReplayLength
      <4>2. QED
        BY <2>1, <2>3, <3>3, <4>1 DEF ReplayLength
    <3>6. JournalBound' <=> JournalBound
      BY <1>1, <1>2, <3>3 DEF JournalBound
    <3>7. ASSUME JournalBound PROVE AgreesBut(store, {})'
      <4>1. AgreesBut(store, {target})
        BY <1>1, <1>4, <3>7 DEF CountsInv, AgreeInv
      <4>2. LastEntry(journal'.entries, target, n + 1) = n + 1
        <5>1. \A s : entry.slot = s => LastEntry(Append(journal.entries, entry), s, n + 1) = n + 1
          BY <1>1, <3>1, LastEntryAppend
        <5>2. QED
          BY <3>1, <3>3, <5>1
      <4>3. ASSUME Image.creds[target] # NoCred PROVE Found(target)' = store.counts[target]
        <5> DEFINE last == LastEntry(journal'.entries, target, n + 1)
        <5>1. last > 0 /\ journal'.entries[last].count = store.counts[target]
          BY <3>1, <3>4, <4>2
        <5>2. Found(target)' = IF Image'.creds[target] # NoCred /\ last > 0
                               THEN journal'.entries[last].count ELSE Image'.counts[target]
          BY <1>1, <3>5, <3>6, <3>7 DEF Found
        <5> HIDE DEF last
        <5>3. QED
          BY <1>2, <4>3, <5>1, <5>2
      <4>4. ASSUME NEW s, s # target PROVE Found(s)' = Found(s)
        <5> DEFINE last == LastEntry(journal.entries, s, n)
        <5>1. LastEntry(journal'.entries, s, n + 1) = last
          BY <1>1, <3>1, <3>3, <4>4, LastEntryAppend
        <5>2. last \in 0 .. n
          BY <3>4, LastEntryProperty
        <5> HIDE DEF last
        <5>3. last > 0 => journal'.entries[last] = journal.entries[last]
          BY <3>4, <5>2
        <5>4. Found(s) = IF Image.creds[s] # NoCred /\ last > 0 THEN journal.entries[last].count
                         ELSE Image.counts[s]
          BY <3>5, <3>7 DEF Found, last
        <5>5. Found(s)' = IF Image'.creds[s] # NoCred /\ last > 0
                          THEN journal'.entries[last].count ELSE Image'.counts[s]
          BY <3>5, <3>6, <3>7, <5>1 DEF Found
        <5>6. QED
          BY <1>2, <5>3, <5>4, <5>5
      <4>5. ASSUME NEW s \in InUse(store), Image.creds[s] = store.creds[s]
            PROVE  Found(s)' = store.counts[s]
        <5>1. CASE s = target
          BY <1>1, <4>3, <4>5, <5>1 DEF InUse
        <5>2. CASE s # target
          <6>1. Found(s) = store.counts[s]
            BY <4>1, <4>5, <5>2 DEF AgreesBut
          <6>2. QED
            BY <4>4, <5>2, <6>1
        <5>3. QED
          BY <5>1, <5>2
      <4>6. QED
        BY <1>2, <3>2, <4>5 DEF AgreesBut, InUse
    <3>8. QED
      BY <1>1, <2>1, <2>2, <3>6, <3>7 DEF AgreeInv
  <2>4. CASE AppendIndex # Len(journal.entries)
    <3>1. AppendIndex < Len(journal.entries) /\ journal' = journal /\ store' = undo
      BY <2>4 DEF AppendEntry
    <3>2. (JournalBound' <=> JournalBound) /\ \A s : Found(s)' = Found(s)
      <4>1. BestSlot # None => slot'[BestSlot] = slot[BestSlot]
        BY <1>1
      <4>2. QED
        BY <1>1, <1>2, <3>1, SteadyFlash
    <3>3. journal.entries # <<>>
      <4>1. ReplayLength \in 0 .. Len(journal.entries)
        BY <1>1, ReplayLengthProperty
      <4>2. Len(journal.entries) # 0
        BY <1>1, <2>1, <3>1, <4>1
      <4>3. QED
        BY <4>2
    <3>4. ASSUME JournalBound PROVE AgreesBut(store, {})'
      <4>1. AgreesBut(undo, {})
        BY <1>1, <1>4, <3>3, <3>4 DEF CountsInv, AgreeInv
      <4>2. QED
        BY <1>2, <3>1, <3>2, <4>1 DEF AgreesBut, InUse
    <3>5. QED
      BY <1>1, <2>1, <2>2, <3>2, <3>4 DEF AgreeInv
  <2>5. QED
    BY <2>3, <2>4
<1>5. QED
  BY <1>1, <1>3, <1>4 DEF CountsInv

LEMMA CountsInvInductive ==
  ASSUME TypeOK, ActiveImageIsBest, JournalInv, CountsInv, [Next]_vars
  PROVE  CountsInv'
<1>1. store \in Payloads
  BY DEF TypeOK
<1>2. CASE \E b \in Builds : Boot(b)
  BY <1>2, BootCounts
<1>3. CASE Crash \/ CrashInAppend
  BY <1>3 DEF Crash, CrashInAppend, LoseRam, CountsInv, UpdateInv
<1>4. CASE (\E c \in Creds : Add(c)) \/ (\E s \in Slots : Delete(s))
  <2>1. ASSUME NEW c \in Creds, Add(c) PROVE CountsInv'
    <3> DEFINE s == Min(Free(store))
               new == PutCredential(store, s, c)
               fallback == WipeSlot(new, s)
    <3>1. s \in Free(store) /\ s \in Slots
      BY <2>1, FreeSlot DEF Add
    <3>2. pc = "idle" /\ Request("commit", new, fallback, "program")
      BY <2>1 DEF Add
    <3> HIDE DEF s
    <3>3. /\ fallback.creds = store.creds
          /\ \A t \in InUse(store) : fallback.counts[t] = store.counts[t]
      BY <1>1, <3>1, AddUndone
    <3> HIDE DEF new, fallback
    <3>4. InUse(fallback) = InUse(store)
      BY <3>3 DEF InUse
    <3>5. QED
      BY <3>2, <3>3, <3>4, RequestCounts
  <2>2. ASSUME NEW s \in Slots, Delete(s) PROVE CountsInv'
    <3>1. pc = "idle" /\ Request("commit", WipeSlot(store, s), store, "program")
      BY <1>1, <2>2, DeleteUndone DEF Delete
    <3>2. QED
      BY <3>1, RequestCounts
  <2>3. QED
    BY <1>4, <2>1, <2>2
<1>5. CASE Clear
  <2> DEFINE new == [store EXCEPT !.creds = EmptyPayload.creds, !.counts = EmptyPayload.counts,
                                  !.credential_count = 0]
  <2>1. InUse(new) = {}
    BY <1>1 DEF Payloads, InUse, EmptyPayload, ResetPayload
  <2>2. pc = "idle" /\ Request("commit", new, new, "program")
    BY <1>5 DEF Clear
  <2> HIDE DEF new
  <2>3. QED
    BY <2>1, <2>2, RequestCounts
<1>6. ASSUME NEW new, pc = "idle", Request("commit", new, new, "program"),
             new.creds = store.creds, new.counts = store.counts
      PROVE  CountsInv'
  BY <1>6, RequestCounts
<1>7. ASSUME NEW p \in Pins, SetPin(p) PROVE CountsInv'
  <2> DEFINE new == [store EXCEPT !.pin = p]
  <2>1. new.creds = store.creds /\ new.counts = store.counts
    BY <1>1 DEF Payloads
  <2>2. pc = "idle" /\ Request("commit", new, new, "program")
    BY <1>7 DEF SetPin
  <2> HIDE DEF new
  <2>3. QED
    BY <1>6, <2>1, <2>2
<1>8. ASSUME NEW u \in UPConfigs, SetUP(u) PROVE CountsInv'
  <2> DEFINE new == [store EXCEPT !.up = u, !.provenance = build]
  <2>1. new.creds = store.creds /\ new.counts = store.counts
    BY <1>1 DEF Payloads
  <2>2. pc = "idle" /\ Request("commit", new, new, "program")
    BY <1>8 DEF SetUP
  <2> HIDE DEF new
  <2>3. QED
    BY <1>6, <2>1, <2>2
<1>9. CASE \E s \in Slots : UpdateSignCount(s)
  BY <1>9, UpdateCounts
<1>10. CASE Reject \/ UNCHANGED vars
  <2>1. /\ UNCHANGED <<slot, journal, store, undo, active, ready, pc, target>>
        /\ op' = op \/ pc = "idle"
    BY <1>10 DEF Reject, vars, flash, ram, control
  <2>2. Image' = Image /\ BestSlot' = BestSlot
    BY <2>1 DEF Image, BestSlot, Holds
  <2>3. UpdateInv'
    BY <2>1 DEF CountsInv, UpdateInv
  <2>4. (JournalBound' <=> JournalBound) /\ \A s : Found(s)' = Found(s)
    BY <2>1, <2>2, SteadyFlash
  <2>5. ASSUME active # None PROVE ReadyInv'
    <3>1. ImageIsStore' = ImageIsStore /\ ImageAgrees(undo)' = ImageAgrees(undo)
      BY <2>1, <2>2 DEF ImageIsStore, ImageAgrees, InUse
    <3>2. QED
      BY <2>1, <2>4, <2>5, <3>1 DEF CountsInv, ReadyInv
  <2>6. ASSUME active # None PROVE AgreeInv'
    <3>1. /\ AgreesBut(store, {})' <=> AgreesBut(store, {})
          /\ AgreesBut(store, {target})' <=> AgreesBut(store, {target})
          /\ AgreesBut(undo, {})' <=> AgreesBut(undo, {})
      BY <2>1, <2>2, <2>4 DEF AgreesBut, InUse
    <3>2. QED
      BY <2>1, <2>4, <2>6, <3>1 DEF CountsInv, AgreeInv
  <2>7. QED
    BY <2>1, <2>3, <2>5, <2>6 DEF CountsInv
<1>11. CASE FlashStep
  BY <1>11, BodyCounts, HeaderCounts, EraseCounts, BindCounts, AppendCounts DEF FlashStep
<1>12. QED
  BY <1>2, <1>3, <1>4, <1>5, <1>7, <1>8, <1>9, <1>10, <1>11 DEF Next

\* While the journal in use is bound to the active image, a power-up finds the sign counts
\* that RAM has, for every number of slots, updates, compactions and crashes.
THEOREM BoundCountsCorrect == Spec => []BoundCountsAreDurable
<1>1. ASSUME TypeOK, ActiveImageIsBest, CountsInv PROVE BoundCountsAreDurable
  <2> SUFFICES ASSUME pc = "idle", active # None, ready => JournalBound,
                      NEW s \in InUse(store), BasePayload(build).creds[s] = store.creds[s]
               PROVE  Durable(build).counts[s] = store.counts[s]
    BY DEF BoundCountsAreDurable
  <2>1. BestSlot # None /\ build \in Builds /\ s \in Slots
    BY <1>1 DEF ActiveImageIsBest, TypeOK, InUse
  <2>2. Durable(build).counts[s] = Found(s) /\ BasePayload(build) = Image
    BY <1>1, <2>1, FoundProperty
  <2>3. AgreesBut(store, {})
    BY <1>1 DEF CountsInv, AgreeInv
  <2>4. QED
    BY <2>2, <2>3 DEF AgreesBut
<1>2. QED
  BY <1>1, InitJournalInv, JournalInvInductive, InitCountsInv, CountsInvInductive, TypeCorrect,
     ActiveBestCorrect, PTL DEF Spec

--------------------------------------------------------------------------------
(* What a power-up finds never falls                                         *)

\* The image of an older firmware, when there is one.
Old == IF legacy.place # "none" THEN legacy.payload ELSE EmptyPayload

\* The credential and the count that a power-up finds in slot s.
FoundCred(s)  == IF BestSlot # None THEN Image.creds[s] ELSE Old.creds[s]
FoundCount(s) == IF BestSlot # None THEN Found(s) ELSE Old.counts[s]

DurableIsFound ==
  \A s \in Slots : /\ Durable(build).creds[s] = FoundCred(s)
                   /\ Durable(build).counts[s] = FoundCount(s)
                   /\ FoundCount(s) \in Nat

\* A payload has no count behind the one found for the same credential.
Covers(p) ==
  \A s \in Slots : p.creds[s] # NoCred /\ FoundCred(s) = p.creds[s]
    => p.counts[s] >= FoundCount(s)

\* The active image has the credentials of a payload.
CredsHeld(p) ==
  BestSlot # None => \A s \in InUse(p) : Image.creds[s] = p.creds[s]

\* The journal was never bound to an image newer than the best one.
HeaderInv ==
  journal.header.generation <= IF BestSlot = None THEN 0 ELSE slot[BestSlot].generation

\* RAM's counts, and those an operation may fall back to, are never behind the flash.
GrowInv ==
  /\ HeaderInv
  /\ pc # "off" => Covers(store)
  /\ pc \in {"program", "header"} => Covers(undo)
  /\ pc = "append" => Covers(undo) \/ (ready /\ next = 0 /\ journal.entries = <<>>)
  /\ pc \in {"idle", "erase", "bind", "append"} => CredsHeld(store)
  /\ pc \in {"program", "header"} => CredsHeld(undo)
  /\ pc = "erase" => ImageIsStore \/ ~ JournalBound
  /\ pc \notin {"off", "idle"} /\ op = "count" => target \in InUse(store)

\* What a step may do to what a power-up finds.
Grows ==
  \A s \in Slots : FoundCred(s) # NoCred /\ FoundCred(s)' = FoundCred(s)
    => FoundCount(s)' >= FoundCount(s)

LEMMA DurableFound ==
  ASSUME TypeOK, NEW b \in Builds, NEW s \in Slots
  PROVE  /\ Durable(b).creds[s] = FoundCred(s)
         /\ Durable(b).counts[s] = FoundCount(s)
         /\ FoundCount(s) \in Nat
<1> DEFINE base == BasePayload(b)
           clean == SanitizeUP(base, b)
<1>1. base \in Payloads /\ clean \in Payloads /\ Durable(b) \in Payloads
  BY DurableType
<1>2. Durable(b).counts[s] \in Nat
  BY <1>1 DEF Payloads
<1>3. CASE BestSlot # None
  BY <1>2, <1>3, FoundProperty DEF FoundCred, FoundCount
<1>4. CASE BestSlot = None
  <2>1. base.creds = Old.creds /\ base.counts = Old.counts
    <3>1. CASE legacy.place # "none"
      <4>1. base = [legacy.payload EXCEPT !.provenance = b]
        BY <1>4, <3>1 DEF BasePayload
      <4>2. legacy.payload \in Payloads
        BY DEF TypeOK
      <4>3. QED
        BY <3>1, <4>1, <4>2 DEF Old, Payloads
    <3>2. CASE legacy.place = "none"
      <4>1. base = ResetPayload(b)
        BY <1>4, <3>2 DEF BasePayload
      <4>2. QED
        BY <3>2, <4>1 DEF Old, EmptyPayload, ResetPayload
    <3>3. QED
      BY <3>1, <3>2
  <2>2. clean.creds = base.creds /\ clean.counts = base.counts
    BY <1>1 DEF SanitizeUP, Payloads
  <2>3. ReplayJournal(clean).creds = clean.creds
    BY <1>1 DEF ReplayJournal, Payloads
  <2>4. ReplayJournal(clean).counts[s] = clean.counts[s]
    <3> DEFINE last(t) == LastEntry(journal.entries, t, IF JournalBound THEN ReplayLength ELSE 0)
               counts == [t \in Slots |-> IF clean.creds[t] # NoCred /\ last(t) > 0
                                          THEN journal.entries[last(t)].count
                                          ELSE clean.counts[t]]
    <3>1. ReplayJournal(clean) = [clean EXCEPT !.counts = counts]
      BY DEF ReplayJournal
    <3>2. last(s) \in 0 .. 0
      <4>1. ~ JournalBound
        BY <1>4 DEF JournalBound
      <4>2. QED
        BY <4>1, LastEntryProperty
    <3>3. counts[s] = clean.counts[s]
      BY <3>2
    <3> HIDE DEF counts, clean
    <3>4. QED
      BY <1>1, <3>1, <3>3 DEF Payloads
  <2>5. Durable(b) = ReplayJournal(clean)
    BY DEF Durable
  <2> HIDE DEF base, clean
  <2>6. QED
    BY <1>2, <1>4, <2>1, <2>2, <2>3, <2>4, <2>5 DEF FoundCred, FoundCount
<1>5. QED
  BY <1>3, <1>4

\* A step that leaves the flash alone changes nothing that a power-up finds.
LEMMA SameFlash ==
  ASSUME UNCHANGED <<slot, journal, legacy>>
  PROVE  /\ BestSlot' = BestSlot /\ Image' = Image /\ (JournalBound' <=> JournalBound)
         /\ \A s : FoundCred(s)' = FoundCred(s) /\ FoundCount(s)' = FoundCount(s)
         /\ HeaderInv' <=> HeaderInv
<1>1. BestSlot' = BestSlot
  BY DEF BestSlot, Holds
<1>2. /\ Image' = Image /\ (JournalBound' <=> JournalBound)
      /\ \A s : Found(s)' = Found(s)
  BY <1>1, SteadyFlash
<1>3. Old' = Old
  BY DEF Old
<1>4. HeaderInv' <=> HeaderInv
  BY <1>1 DEF HeaderInv
<1>5. QED
  BY <1>1, <1>2, <1>3, <1>4 DEF FoundCred, FoundCount

\* Nothing falls that stays as it is.
LEMMA SameGrows ==
  ASSUME TypeOK, \A s \in Slots : FoundCount(s)' = FoundCount(s)
  PROVE  Grows
<1>1. build \in Builds
  BY DEF TypeOK
<1>2. \A s \in Slots : FoundCount(s) \in Nat
  BY <1>1, DurableFound
<1>3. QED
  BY <1>2 DEF Grows

LEMMA BootGrows ==
  ASSUME TypeOK, GrowInv, NEW b \in Builds, Boot(b)
  PROVE  Grows /\ GrowInv'
<1>1. /\ UNCHANGED <<slot, journal, legacy>> /\ store' = Durable(b) /\ undo' = Durable(b)
      /\ pc' \in {"program", "idle"} /\ op' = "boot"
  BY DEF Boot
<1>2. /\ BestSlot' = BestSlot /\ Image' = Image
      /\ \A s : FoundCred(s)' = FoundCred(s) /\ FoundCount(s)' = FoundCount(s)
      /\ HeaderInv' <=> HeaderInv
  BY <1>1, SameFlash
<1>3. \A s \in Slots : /\ Durable(b).creds[s] = FoundCred(s)
                       /\ Durable(b).counts[s] = FoundCount(s)
                       /\ FoundCount(s) \in Nat
  BY DurableFound
<1>4. Covers(store)' /\ Covers(undo)'
  BY <1>1, <1>2, <1>3 DEF Covers
<1>5. CredsHeld(store)' /\ CredsHeld(undo)'
  BY <1>1, <1>2, <1>3 DEF CredsHeld, FoundCred, InUse
<1>6. QED
  BY <1>1, <1>2, <1>4, <1>5, SameGrows DEF GrowInv

\* A request for a commit takes nothing from a count but with its credential.
LEMMA RequestGrows ==
  ASSUME TypeOK, GrowInv, pc = "idle", NEW new, NEW fallback,
         Request("commit", new, fallback, "program"),
         \A s \in InUse(new) : \/ new.creds[s] # FoundCred(s)
                               \/ new.creds[s] = store.creds[s] /\ new.counts[s] = store.counts[s],
         \A s \in InUse(fallback) :
           fallback.creds[s] = store.creds[s] /\ fallback.counts[s] = store.counts[s]
  PROVE  Grows /\ GrowInv'
<1>1. /\ UNCHANGED <<slot, journal, legacy>> /\ store' = new /\ undo' = fallback
      /\ pc' = "program" /\ op' = "commit"
  BY DEF Request, flash
<1>2. /\ BestSlot' = BestSlot /\ Image' = Image
      /\ \A s : FoundCred(s)' = FoundCred(s) /\ FoundCount(s)' = FoundCount(s)
      /\ HeaderInv' <=> HeaderInv
  BY <1>1, SameFlash
<1>3. Covers(store) /\ CredsHeld(store)
  BY DEF GrowInv
<1>4. Covers(store)' /\ Covers(undo)'
  BY <1>1, <1>2, <1>3 DEF Covers, InUse
<1>5. CredsHeld(undo)'
  BY <1>1, <1>2, <1>3 DEF CredsHeld, InUse
<1>6. QED
  BY <1>1, <1>2, <1>4, <1>5, SameGrows DEF GrowInv

\* Each request for a commit is such a one: the id of a new credential is in no image.
LEMMA CommitsGrow ==
  ASSUME TypeOK, GrowInv,
         \/ \E c \in Creds : Add(c)
         \/ \E s \in Slots : Delete(s)
         \/ Clear
         \/ \E p \in Pins : SetPin(p)
         \/ \E u \in UPConfigs : SetUP(u)
  PROVE  Grows /\ GrowInv'
<1>1. store \in Payloads /\ build \in Builds
  BY DEF TypeOK
<1>2. ASSUME NEW c \in Creds, Add(c) PROVE Grows /\ GrowInv'
  <2> DEFINE s == Min(Free(store))
             new == PutCredential(store, s, c)
             fallback == WipeSlot(new, s)
  <2>1. s \in Free(store) /\ s \in Slots
    BY <1>2, FreeSlot DEF Add
  <2>2. pc = "idle" /\ Request("commit", new, fallback, "program")
    BY <1>2 DEF Add
  <2>3. c # BasePayload(build).creds[s]
    <3> HIDE DEF s
    <3>1. QED
      BY <1>2, <2>1 DEF Add
  <2> HIDE DEF s
  <2>4. c # FoundCred(s)
    <3>1. Durable(build).creds[s] = FoundCred(s)
      BY <1>1, <2>1, DurableFound
    <3>2. Durable(build).creds = BasePayload(build).creds
      <4>1. /\ BasePayload(build) \in Payloads
            /\ SanitizeUP(BasePayload(build), build) \in Payloads
        BY <1>1, DurableType
      <4>2. SanitizeUP(BasePayload(build), build).creds = BasePayload(build).creds
        BY <4>1 DEF SanitizeUP, Payloads
      <4>3. Durable(build).creds = SanitizeUP(BasePayload(build), build).creds
        BY <4>1 DEF Durable, ReplayJournal, Payloads
      <4>4. QED
        BY <4>2, <4>3
    <3>3. QED
      BY <2>3, <3>1, <3>2
  <2>5. /\ fallback.creds = store.creds
        /\ \A t \in InUse(store) : fallback.counts[t] = store.counts[t]
    BY <1>1, <2>1, AddUndone
  <2>6. /\ new.creds = [store.creds EXCEPT ![s] = c]
        /\ new.counts = [store.counts EXCEPT ![s] = 0]
        /\ store.creds \in [Slots -> Creds \cup {NoCred}] /\ store.counts \in [Slots -> Nat]
    BY <1>1 DEF PutCredential, Payloads
  <2> HIDE DEF new, fallback
  <2>7. \A t \in InUse(new) :
          \/ new.creds[t] # FoundCred(t)
          \/ new.creds[t] = store.creds[t] /\ new.counts[t] = store.counts[t]
    <3> SUFFICES ASSUME NEW t \in InUse(new)
                 PROVE  \/ new.creds[t] # FoundCred(t)
                        \/ new.creds[t] = store.creds[t] /\ new.counts[t] = store.counts[t]
      OBVIOUS
    <3>1. t \in Slots
      BY DEF InUse
    <3>2. CASE t = s
      BY <2>1, <2>4, <2>6, <3>2
    <3>3. CASE t # s
      BY <2>1, <2>6, <3>1, <3>3
    <3>4. QED
      BY <3>2, <3>3
  <2>8. InUse(fallback) = InUse(store)
    BY <2>5 DEF InUse
  <2>9. QED
    BY <2>2, <2>5, <2>7, <2>8, RequestGrows
<1>3. ASSUME NEW s \in Slots, Delete(s) PROVE Grows /\ GrowInv'
  <2> DEFINE new == WipeSlot(store, s)
  <2>1. pc = "idle" /\ Request("commit", new, store, "program")
    BY <1>1, <1>3, DeleteUndone DEF Delete
  <2>2. /\ new.creds = [store.creds EXCEPT ![s] = NoCred]
        /\ new.counts = [store.counts EXCEPT ![s] = 0]
        /\ store.creds \in [Slots -> Creds \cup {NoCred}] /\ store.counts \in [Slots -> Nat]
    BY <1>1 DEF WipeSlot, Payloads
  <2> HIDE DEF new
  <2>3. \A t \in InUse(new) : new.creds[t] = store.creds[t] /\ new.counts[t] = store.counts[t]
    BY <2>2 DEF InUse
  <2>4. QED
    BY <2>1, <2>3, RequestGrows
<1>4. CASE Clear
  <2> DEFINE new == [store EXCEPT !.creds = EmptyPayload.creds, !.counts = EmptyPayload.counts,
                                  !.credential_count = 0]
  <2>1. InUse(new) = {}
    BY <1>1 DEF Payloads, InUse, EmptyPayload, ResetPayload
  <2>2. pc = "idle" /\ Request("commit", new, new, "program")
    BY <1>4 DEF Clear
  <2> HIDE DEF new
  <2>3. QED
    BY <2>1, <2>2, RequestGrows
<1>5. ASSUME NEW new, pc = "idle", Request("commit", new, new, "program"),
             new.creds = store.creds, new.counts = store.counts
      PROVE  Grows /\ GrowInv'
  BY <1>5, RequestGrows
<1>6. ASSUME NEW p \in Pins, SetPin(p) PROVE Grows /\ GrowInv'
  <2> DEFINE new == [store EXCEPT !.pin = p]
  <2>1. new.creds = store.creds /\ new.counts = store.counts
    BY <1>1 DEF Payloads
  <2>2. pc = "idle" /\ Request("commit", new, new, "program")
    BY <1>6 DEF SetPin
  <2> HIDE DEF new
  <2>3. QED
    BY <1>5, <2>1, <2>2
<1>7. ASSUME NEW u \in UPConfigs, SetUP(u) PROVE Grows /\ GrowInv'
  <2> DEFINE new == [store EXCEPT !.up = u, !.provenance = build]
  <2>1. new.creds = store.creds /\ new.counts = store.counts
    BY <1>1 DEF Payloads
  <2>2. pc = "idle" /\ Request("commit", new, new, "program")
    BY <1>7 DEF SetUP
  <2> HIDE DEF new
  <2>3. QED
    BY <1>5, <2>1, <2>2
<1>8. QED
  BY <1>2, <1>3, <1>4, <1>6, <1>7

LEMMA UpdateGrows ==
  ASSUME TypeOK, ActiveImageIsBest, CountsInv, GrowInv, NEW t \in Slots, UpdateSignCount(t)
  PROVE  Grows /\ GrowInv'
<1> DEFINE new == [store EXCEPT !.counts[t] = store.counts[t] + 1]
<1>1. /\ new.creds = store.creds /\ store.counts \in [Slots -> Nat]
      /\ \A s \in Slots : new.counts[s] = IF s = t THEN store.counts[s] + 1 ELSE store.counts[s]
  BY DEF TypeOK, Payloads
<1>2. /\ pc = "idle" /\ Request("count", new, store, AppendFrom) /\ target' = t
      /\ t \in InUse(store)
  BY DEF UpdateSignCount
<1> HIDE DEF new
<1>3. /\ UNCHANGED <<slot, journal, legacy, active, ready>> /\ pc' = AppendFrom
      /\ op' = "count" /\ store' = new /\ undo' = store
  BY <1>2 DEF Request, flash
<1>4. /\ BestSlot' = BestSlot /\ Image' = Image /\ (JournalBound' <=> JournalBound)
      /\ \A s : FoundCred(s)' = FoundCred(s) /\ FoundCount(s)' = FoundCount(s)
      /\ HeaderInv' <=> HeaderInv
  BY <1>3, SameFlash
<1>5. AppendFrom \in {"program", "erase", "append"} /\ (AppendFrom = "erase" => ~ JournalBound)
  <2>1. ready \in BOOLEAN /\ next \in Nat /\ JournalCapacity \in Nat
    BY ConstantsOK DEF TypeOK
  <2>2. (next < JournalCapacity) \/ (next >= JournalCapacity)
    BY <2>1
  <2>3. ~ ready /\ active # None => ~ JournalBound
    BY <1>2 DEF CountsInv, ReadyInv
  <2>4. QED
    BY <2>1, <2>2, <2>3 DEF AppendFrom
<1>6. Covers(store) /\ CredsHeld(store)
  BY <1>2 DEF GrowInv
<1>7. \A s \in Slots : FoundCount(s) \in Nat
  <2>1. build \in Builds
    BY DEF TypeOK
  <2>2. QED
    BY <2>1, DurableFound
<1>8. Covers(store)' /\ Covers(undo)'
  <2>1. Covers(undo)'
    BY <1>3, <1>4, <1>6 DEF Covers
  <2>2. ASSUME NEW s \in Slots, new.creds[s] # NoCred, FoundCred(s) = new.creds[s]
        PROVE  new.counts[s] >= FoundCount(s)
    <3>1. store.counts[s] >= FoundCount(s)
      BY <1>1, <1>6, <2>2 DEF Covers
    <3>2. store.counts[s] \in Nat /\ FoundCount(s) \in Nat
      BY <1>1, <1>7
    <3>3. QED
      BY <1>1, <3>1, <3>2
  <2>3. Covers(store)'
    BY <1>3, <1>4, <2>2 DEF Covers
  <2>4. QED
    BY <2>1, <2>3
<1>9. CredsHeld(store)' /\ CredsHeld(undo)'
  BY <1>1, <1>3, <1>4, <1>6 DEF CredsHeld, InUse
<1>10. target' \in InUse(store)'
  BY <1>1, <1>2, <1>3 DEF InUse
<1>11. QED
  BY <1>2, <1>3, <1>4, <1>5, <1>8, <1>9, <1>10, SameGrows DEF GrowInv

\* The erasure of the target slot leaves the newest image, and without one at most takes
\* an old image away.
LEMMA BodyGrows ==
  ASSUME TypeOK, ActiveImageIsBest, GrowInv, ProgramBody
  PROVE  Grows /\ GrowInv'
<1>1. /\ BestSlot' = BestSlot
      /\ BestSlot # None => slot'[BestSlot] = slot[BestSlot]
  BY ProgramBodyKeepsSlot
<1>2. /\ journal' = journal /\ undo' = undo /\ op' = op /\ target' = target /\ pc = "program"
      /\ \/ pc' = "header" /\ store' = store
         \/ pc' = "idle" /\ store' = undo
  BY DEF ProgramBody, Fail, ram
<1>3. BestSlot # None => Image' = Image /\ \A s : Found(s)' = Found(s)
  BY <1>1, <1>2, SteadyFlash
<1>4. Old' = Old \/ Old' = EmptyPayload
  BY DEF ProgramBody, LegacyAfter, Old
<1>5. \A s \in Slots : EmptyPayload.creds[s] = NoCred
  BY DEF EmptyPayload, ResetPayload
<1>6. \A s \in Slots : \/ FoundCred(s)' = FoundCred(s) /\ FoundCount(s)' = FoundCount(s)
                       \/ FoundCred(s)' = NoCred
  BY <1>1, <1>3, <1>4, <1>5 DEF FoundCred, FoundCount
<1>7. \A s \in Slots : FoundCount(s) \in Nat
  <2>1. build \in Builds
    BY DEF TypeOK
  <2>2. QED
    BY <2>1, DurableFound
<1>8. Grows
  BY <1>6, <1>7 DEF Grows
<1>9. Covers(store) /\ Covers(undo) /\ CredsHeld(undo)
  BY <1>2 DEF GrowInv
<1>10. Covers(store)' /\ Covers(undo)'
  BY <1>2, <1>6, <1>9 DEF Covers
<1>11. CredsHeld(undo)' /\ (pc' = "idle" => CredsHeld(store)')
  BY <1>1, <1>2, <1>3, <1>9 DEF CredsHeld, InUse
<1>12. HeaderInv'
  BY <1>1, <1>2 DEF GrowInv, HeaderInv
<1>13. (pc' = "header" /\ op = "count") => target' \in InUse(store)'
  BY <1>2 DEF GrowInv, InUse
<1>14. QED
  BY <1>2, <1>8, <1>10, <1>11, <1>12, <1>13 DEF GrowInv

\* A new image has RAM's counts, and no journal is bound to it yet.
LEMMA HeaderGrows ==
  ASSUME TypeOK, ActiveImageIsBest, GrowInv, ProgramHeader
  PROVE  Grows /\ GrowInv'
<1>1. /\ pc = "header" /\ UNCHANGED <<journal, legacy, op, target, undo>>
  BY DEF ProgramHeader
<1>2. Covers(store) /\ Covers(undo) /\ CredsHeld(undo) /\ HeaderInv
  BY <1>1 DEF GrowInv
<1>3. CASE Fail /\ UNCHANGED slot
  <2>1. pc' = "idle" /\ store' = undo
    BY <1>3 DEF Fail
  <2>2. /\ BestSlot' = BestSlot /\ Image' = Image
        /\ \A s : FoundCred(s)' = FoundCred(s) /\ FoundCount(s)' = FoundCount(s)
        /\ HeaderInv' <=> HeaderInv
    BY <1>1, <1>3, SameFlash
  <2>3. Covers(store)' /\ CredsHeld(store)'
    BY <1>2, <2>1, <2>2 DEF Covers, CredsHeld, InUse
  <2>4. QED
    BY <1>2, <2>1, <2>2, <2>3, SameGrows DEF GrowInv
<1>4. CASE ~ (Fail /\ UNCHANGED slot)
  <2> DEFINE image == [generation |-> generation + 1, payload |-> store, wrapped |-> TRUE]
  <2>1. /\ slot' = [slot EXCEPT ![TargetSlot] = image] /\ active' = TargetSlot
        /\ pc' = "erase" /\ store' = store
    BY <1>4 DEF ProgramHeader
  <2>2. TargetSlot \in 0 .. 1 /\ TargetSlot # None /\ slot \in [0 .. 1 -> Images]
    <3>1. slot \in [0 .. 1 -> Images]
      BY DEF TypeOK
    <3>2. QED
      BY <3>1 DEF TargetSlot, None
  <2>3. slot'[TargetSlot] = image /\ image.payload = store /\ image.generation = generation + 1
    BY <2>1, <2>2
  <2>4. BestSlot' = TargetSlot
    <3>1. ActiveImageIsBest'
      BY ProgramBest
    <3>2. QED
      BY <2>1, <3>1 DEF ActiveImageIsBest
  <2>5. Image' = store /\ ImageIsStore'
    BY <2>1, <2>2, <2>3, <2>4 DEF Image, ImageIsStore, None
  <2> HIDE DEF image
  <2>6. journal.header.generation \in Nat /\ generation \in Nat
    BY DEF TypeOK, Headers
  <2>7. journal.header.generation <= generation
    BY <1>1, <1>2 DEF HeaderInv, ActiveImageIsBest
  <2>8. HeaderInv' /\ ~ JournalBound'
    <3>1. slot'[BestSlot'].generation = generation + 1 /\ BestSlot' # None
      BY <2>2, <2>3, <2>4
    <3>2. journal'.header.generation # slot'[BestSlot'].generation
      BY <1>1, <2>6, <2>7, <3>1
    <3>3. ~ JournalBound'
      BY <3>2 DEF JournalBound
    <3>4. HeaderInv'
      BY <1>1, <2>6, <2>7, <3>1 DEF HeaderInv
    <3>5. QED
      BY <3>3, <3>4
  <2>9. \A s \in Slots : FoundCred(s)' = store.creds[s] /\ FoundCount(s)' = store.counts[s]
    <3>1. ASSUME NEW s \in Slots PROVE Found(s)' = Image'.counts[s]
      <4> DEFINE n == IF JournalBound' THEN ReplayLength' ELSE 0
      <4>1. n = 0
        BY <2>8
      <4> HIDE DEF n
      <4>2. LastEntry(journal'.entries, s, n) \in 0 .. 0
        BY <4>1, LastEntryProperty
      <4>3. QED
        BY <4>2 DEF Found, n
    <3>2. QED
      BY <2>2, <2>4, <2>5, <3>1 DEF FoundCred, FoundCount
  <2>10. store.counts \in [Slots -> Nat]
    BY DEF TypeOK, Payloads
  <2>11. Grows
    BY <1>2, <2>9 DEF Covers, Grows
  <2>12. Covers(store)' /\ CredsHeld(store)'
    BY <2>1, <2>5, <2>9, <2>10 DEF Covers, CredsHeld, InUse
  <2>13. op' = "count" => target' \in InUse(store)'
    BY <1>1, <2>1 DEF GrowInv, InUse
  <2>14. QED
    BY <2>1, <2>5, <2>8, <2>11, <2>12, <2>13 DEF GrowInv
<1>5. QED
  BY <1>3, <1>4

\* The journal is erased when no boot would replay it, or when the image has RAM's counts.
LEMMA EraseGrows ==
  ASSUME TypeOK, ActiveImageIsBest, JournalInv, GrowInv, EraseJournal
  PROVE  Grows /\ GrowInv'
<1>1. /\ UNCHANGED <<slot, store, undo, op, target>> /\ pc = "erase" /\ pc' = "bind"
      /\ journal' = [header |-> NoHeader, entries |-> <<>>]
      /\ active # None /\ BestSlot = active
  BY DEF EraseJournal, ram, JournalInv, ActiveImageIsBest
<1>2. BestSlot' = BestSlot /\ Image' = Image
  BY <1>1 DEF BestSlot, Holds, Image
<1>3. \A s : Found(s)' = Image.counts[s]
  <2>1. journal'.entries = <<>> /\ ReplayLength' = 0
    BY <1>1, WholePrefixEmpty DEF ReplayLength
  <2>2. ASSUME NEW s, NEW n, n = 0 PROVE LastEntry(journal'.entries, s, n) = 0
    <3>1. LastEntry(journal'.entries, s, n) \in 0 .. n
      BY <2>2, LastEntryProperty
    <3>2. QED
      BY <2>2, <3>1
  <2>3. QED
    BY <1>2, <2>1, <2>2 DEF Found
<1>4. \A s \in Slots : FoundCred(s)' = FoundCred(s) /\ FoundCred(s) = Image.creds[s]
  BY <1>1, <1>2 DEF FoundCred
<1>5. Covers(store) /\ CredsHeld(store)
  BY <1>1 DEF GrowInv
<1>6. store.counts \in [Slots -> Nat] /\ \A s \in Slots : FoundCount(s) \in Nat
  <2>1. build \in Builds
    BY DEF TypeOK
  <2>2. QED
    BY <2>1, DurableFound DEF TypeOK, Payloads
<1>7. Grows /\ Covers(store)'
  <2>1. CASE ImageIsStore
    <3>1. Image = store
      BY <1>1, <2>1 DEF ImageIsStore, Image
    <3>2. \A s \in Slots : FoundCount(s)' = store.counts[s]
      BY <1>1, <1>2, <1>3, <3>1 DEF FoundCount
    <3>3. QED
      BY <1>1, <1>4, <1>5, <1>6, <3>1, <3>2 DEF Grows, Covers
  <2>2. CASE ~ JournalBound
    <3>1. \A s : Found(s) = Image.counts[s]
      BY <2>2, FoundInImage
    <3>2. \A s \in Slots : FoundCount(s)' = FoundCount(s)
      BY <1>1, <1>2, <1>3, <3>1 DEF FoundCount
    <3>3. QED
      BY <1>1, <1>4, <1>5, <3>2, SameGrows DEF Covers
  <2>3. QED
    BY <1>1, <2>1, <2>2 DEF GrowInv
<1>8. CredsHeld(store)'
  BY <1>1, <1>2, <1>5 DEF CredsHeld, InUse
<1>9. HeaderInv'
  <2>1. journal'.header.generation = 0
    BY <1>1 DEF NoHeader
  <2>2. slot[BestSlot].generation \in Nat
    <3>1. BestSlot \in 0 .. 1
      <4>1. active \in {None, 0, 1}
        BY DEF TypeOK
      <4>2. QED
        BY <1>1, <4>1 DEF None
    <3>2. slot[BestSlot] \in Images
      BY <3>1 DEF TypeOK
    <3>3. QED
      BY <3>2 DEF Images
  <2>3. QED
    BY <1>1, <1>2, <2>1, <2>2 DEF HeaderInv
<1>10. op' = "count" => target' \in InUse(store)'
  BY <1>1 DEF GrowInv, InUse
<1>11. QED
  BY <1>1, <1>7, <1>8, <1>9, <1>10 DEF GrowInv

\* The header of an empty journal adds nothing to the image that it is bound to.
LEMMA BindGrows ==
  ASSUME TypeOK, ActiveImageIsBest, JournalInv, GrowInv, BindJournal
  PROVE  Grows /\ GrowInv'
<1>1. /\ UNCHANGED <<slot, store, undo, op, target>> /\ pc = "bind" /\ ready' = TRUE /\ next' = 0
      /\ journal'.header.generation = generation
      /\ journal.entries = <<>> /\ journal'.entries = <<>>
      /\ active # None /\ BestSlot = active
      /\ (op = "count" /\ pc' = "append") \/ pc' = "idle"
  <2>1. journal' = [journal EXCEPT !.header = [generation |-> generation, crc |-> crc]]
    BY DEF BindJournal
  <2>2. journal'.entries = journal.entries /\ journal'.header.generation = generation
    BY <2>1 DEF TypeOK
  <2>3. /\ UNCHANGED <<slot, store, undo, op, target>> /\ pc = "bind" /\ ready' = TRUE
        /\ next' = 0
    BY DEF BindJournal
  <2>4. active # None /\ BestSlot = active /\ journal.entries = <<>>
    BY <2>3 DEF JournalInv, ActiveImageIsBest
  <2>5. (op = "count" /\ pc' = "append") \/ pc' = "idle"
    BY DEF BindJournal, Done
  <2>6. QED
    BY <2>2, <2>3, <2>4, <2>5
<1>2. BestSlot' = BestSlot /\ Image' = Image
  BY <1>1 DEF BestSlot, Holds, Image
<1>3. \A s : Found(s)' = Image.counts[s]
  <2>1. ReplayLength' = 0
    BY <1>1, WholePrefixEmpty DEF ReplayLength
  <2>2. ASSUME NEW s, NEW n, n = 0 PROVE LastEntry(journal'.entries, s, n) = 0
    <3>1. LastEntry(journal'.entries, s, n) \in 0 .. n
      BY <2>2, LastEntryProperty
    <3>2. QED
      BY <2>2, <3>1
  <2>3. QED
    BY <1>2, <2>1, <2>2 DEF Found
<1>4. \A s : Found(s) = Image.counts[s]
  BY <1>1, FoundInImage
<1>5. \A s : FoundCred(s)' = FoundCred(s) /\ FoundCount(s)' = FoundCount(s)
  BY <1>1, <1>2, <1>3, <1>4 DEF FoundCred, FoundCount
<1>6. Covers(store)' /\ CredsHeld(store)'
  BY <1>1, <1>2, <1>5 DEF GrowInv, Covers, CredsHeld, InUse
<1>7. HeaderInv'
  <2>1. generation = slot[BestSlot].generation /\ generation \in Nat
    BY <1>1 DEF ActiveImageIsBest, TypeOK
  <2>2. QED
    BY <1>1, <1>2, <2>1 DEF HeaderInv
<1>8. pc' = "append" => target' \in InUse(store)'
  BY <1>1 DEF GrowInv, InUse
<1>9. Grows
  BY <1>5, SameGrows
<1>10. QED
  BY <1>1, <1>6, <1>7, <1>8, <1>9 DEF GrowInv

\* A torn entry ends the replay where it is.
LEMMA WholePrefixTorn ==
  ASSUME NEW entries \in Seq(Entries), NEW entry \in Entries, ~ entry.whole,
         WholePrefix(entries) = Len(entries)
  PROVE  WholePrefix(Append(entries, entry)) = Len(entries)
<1> DEFINE more == Append(entries, entry)
           n == Len(entries)
<1>1. /\ more \in Seq(Entries) /\ Len(more) = n + 1 /\ n \in 0 .. Len(more)
      /\ more[n + 1] = entry /\ \A i \in 1 .. n : more[i] = entries[i]
  OBVIOUS
<1>2. \A i \in 1 .. n : entries[i].whole
  BY WholePrefixProperty
<1>3. (\A i \in 1 .. n : more[i].whole) /\ ~ more[n + 1].whole
  BY <1>1, <1>2
<1> HIDE DEF more, n
<1>4. n = WholePrefix(more)
  BY <1>1, <1>3, WholePrefixUnique
<1>5. QED
  BY <1>4 DEF more, n

\* One entry more, whole or torn, changes what is found for its own slot at most.
LEMMA EntryFound ==
  ASSUME TypeOK, BestSlot # None, slot' = slot, ReplayLength = Len(journal.entries),
         NEW entry \in Entries,
         journal' = [journal EXCEPT !.entries = Append(@, entry)], NEW s
  PROVE  /\ BestSlot' = BestSlot /\ Image' = Image /\ journal'.header = journal.header
         /\ \/ Found(s)' = Found(s)
            \/ s = entry.slot /\ Image.creds[s] # NoCred /\ Found(s)' = entry.count
<1> DEFINE n == Len(journal.entries)
<1>1. /\ journal.entries \in Seq(Entries) /\ n \in Nat
      /\ journal'.header = journal.header /\ journal'.entries = Append(journal.entries, entry)
  <2>1. journal \in [header: Headers, entries: Seq(Entries)]
    BY DEF TypeOK
  <2>2. journal.entries \in Seq(Entries) /\ Len(journal.entries) \in Nat
    BY <2>1
  <2>3. journal'.header = journal.header /\ journal'.entries = Append(journal.entries, entry)
    BY <2>1
  <2>4. QED
    BY <2>2, <2>3
<1>2. BestSlot' = BestSlot /\ Image' = Image
  BY DEF BestSlot, Holds, Image
<1>3. JournalBound' <=> JournalBound
  BY <1>1, <1>2 DEF JournalBound
<1>4. /\ journal'.entries[n + 1] = entry
      /\ \A i \in 1 .. n : journal'.entries[i] = journal.entries[i]
  BY <1>1
<1>5. ReplayLength' = IF entry.whole THEN n + 1 ELSE n
  BY <1>1, WholePrefixAppend, WholePrefixTorn DEF ReplayLength
<1> DEFINE last == LastEntry(journal.entries, s, IF JournalBound THEN n ELSE 0)
           later == LastEntry(journal'.entries, s, IF JournalBound' THEN ReplayLength' ELSE 0)
<1>6. /\ Found(s) = IF Image.creds[s] # NoCred /\ last > 0 THEN journal.entries[last].count
                    ELSE Image.counts[s]
      /\ Found(s)' = IF Image.creds[s] # NoCred /\ later > 0 THEN journal'.entries[later].count
                     ELSE Image.counts[s]
  BY <1>2 DEF Found
<1>7. last \in 0 .. n
  <2>1. (IF JournalBound THEN n ELSE 0) \in 0 .. n
    BY <1>1
  <2>2. last \in 0 .. (IF JournalBound THEN n ELSE 0)
    BY <2>1, LastEntryProperty
  <2>3. QED
    BY <2>1, <2>2
<1>8. last > 0 => journal'.entries[last] = journal.entries[last]
  BY <1>1, <1>4, <1>7
<1>9. later = last \/ (later = n + 1 /\ entry.slot = s)
  <2>1. CASE ~ JournalBound
    <3>1. /\ LastEntry(journal.entries, s, 0) \in 0 .. 0
          /\ LastEntry(journal'.entries, s, 0) \in 0 .. 0
      BY LastEntryProperty
    <3>2. QED
      BY <1>3, <2>1, <3>1
  <2>2. CASE JournalBound /\ entry.whole
    <3>1. later = LastEntry(Append(journal.entries, entry), s, n + 1)
      BY <1>1, <1>3, <1>5, <2>2
    <3>2. last = LastEntry(journal.entries, s, n)
      BY <2>2
    <3>3. QED
      BY <1>1, <3>1, <3>2, LastEntryAppend
  <2>3. CASE JournalBound /\ ~ entry.whole
    <3>1. \A i \in 1 .. n : journal'.entries[i].slot = s <=> journal.entries[i].slot = s
      BY <1>4
    <3>2. {i \in 1 .. n : journal'.entries[i].slot = s}
            = {i \in 1 .. n : journal.entries[i].slot = s}
      BY <3>1
    <3>3. LastEntry(journal'.entries, s, n) = LastEntry(journal.entries, s, n)
      BY <3>2 DEF LastEntry
    <3>4. QED
      BY <1>3, <1>5, <2>3, <3>3
  <2>4. QED
    BY <2>1, <2>2, <2>3
<1> HIDE DEF last, later
<1>10. CASE later = last
  BY <1>1, <1>2, <1>6, <1>8, <1>10
<1>11. CASE later = n + 1 /\ entry.slot = s
  <2>1. later > 0 /\ journal'.entries[later] = entry
    BY <1>1, <1>4, <1>11
  <2>2. Image.creds[s] = NoCred => Found(s)' = Found(s)
    BY <1>6
  <2>3. Image.creds[s] # NoCred => Found(s)' = entry.count
    BY <1>6, <2>1
  <2>4. QED
    BY <1>1, <1>2, <1>11, <2>2, <2>3
<1>12. QED
  BY <1>9, <1>10, <1>11

\* An entry for the target that counts no less than RAM takes nothing from what is found.
LEMMA EntryGrows ==
  ASSUME TypeOK, ActiveImageIsBest, JournalInv, CountsInv, GrowInv, pc = "append",
         UNCHANGED <<slot, legacy>>, AppendIndex = Len(journal.entries),
         NEW w \in BOOLEAN, NEW n \in Nat, n >= store.counts[target],
         journal' = [journal EXCEPT !.entries =
                       Append(@, [whole |-> w, slot |-> target, count |-> n])]
  PROVE  /\ Grows /\ HeaderInv' /\ BestSlot' = BestSlot /\ Image' = Image
         /\ \A s \in Slots :
              /\ FoundCred(s)' = FoundCred(s)
              /\ \/ FoundCount(s)' = FoundCount(s)
                 \/ s = target /\ FoundCount(s)' = n
<1> DEFINE entry == [whole |-> w, slot |-> target, count |-> n]
<1>1. /\ target \in Slots /\ store.counts[target] \in Nat /\ build \in Builds
      /\ store.creds \in [Slots -> Creds \cup {NoCred}]
  BY DEF TypeOK, Payloads
<1>2. entry \in Entries /\ entry.slot = target /\ entry.count = n
  BY <1>1 DEF Entries
<1>3. /\ journal' = [journal EXCEPT !.entries = Append(@, entry)]
  OBVIOUS
<1> HIDE DEF entry
<1>4. BestSlot = active /\ BestSlot' = BestSlot /\ Image' = Image
  BY DEF ActiveImageIsBest, BestSlot, Holds, Image
<1>5. journal'.header = journal.header
  BY <1>3 DEF TypeOK
<1>6. HeaderInv'
  BY <1>4, <1>5 DEF GrowInv, HeaderInv
<1>7. \A s \in Slots : FoundCount(s) \in Nat
  BY <1>1, DurableFound
<1>8. \A s : FoundCred(s)' = FoundCred(s)
  BY <1>4 DEF FoundCred, Old
<1>9. CASE BestSlot = None
  <2>1. \A s : FoundCount(s)' = FoundCount(s)
    BY <1>4, <1>9 DEF FoundCount, Old
  <2>2. QED
    BY <1>4, <1>6, <1>8, <2>1, SameGrows
<1>10. CASE BestSlot # None
  <2>1. ReplayLength = Len(journal.entries)
    <3>1. ready
      BY <1>4, <1>10 DEF CountsInv, ReadyInv
    <3>2. QED
      BY <3>1 DEF JournalInv, AppendIndex
  <2>2. \A s : \/ Found(s)' = Found(s)
               \/ s = target /\ Image.creds[s] # NoCred /\ Found(s)' = n
    BY <1>2, <1>3, <1>10, <2>1, EntryFound
  <2>3. \A s : \/ FoundCount(s)' = FoundCount(s)
               \/ s = target /\ FoundCount(s)' = n
    BY <1>4, <1>10, <2>2 DEF FoundCount
  <2>4. store.counts[target] >= FoundCount(target)
    <3>1. target \in InUse(store) /\ CredsHeld(store) /\ Covers(store)
      BY DEF GrowInv, JournalInv
    <3>2. FoundCred(target) = store.creds[target] /\ store.creds[target] # NoCred
      BY <1>10, <3>1 DEF CredsHeld, FoundCred, InUse
    <3>3. QED
      BY <1>1, <3>1, <3>2 DEF Covers
  <2>5. n >= FoundCount(target)
    BY <1>1, <1>7, <2>4
  <2>6. Grows
    BY <1>7, <2>3, <2>5 DEF Grows
  <2>7. QED
    BY <1>4, <1>6, <1>8, <2>3, <2>6
<1>11. QED
  BY <1>9, <1>10

LEMMA AppendGrows ==
  ASSUME TypeOK, ActiveImageIsBest, JournalInv, CountsInv, GrowInv, AppendEntry
  PROVE  Grows /\ GrowInv'
<1>1. /\ UNCHANGED <<slot, legacy>> /\ pc = "append" /\ pc' = "idle" /\ op = "count"
      /\ journal.entries \in Seq(Entries) /\ target \in Slots /\ next \in Nat
  BY DEF AppendEntry, Done, TypeOK, JournalInv
<1>2. /\ Covers(store) /\ CredsHeld(store) /\ store.creds = undo.creds
      /\ Covers(undo) \/ (ready /\ next = 0 /\ journal.entries = <<>>)
  BY <1>1 DEF GrowInv, CountsInv, UpdateInv
<1>3. CASE AppendIndex = Len(journal.entries)
  <2> DEFINE n == store.counts[target]
  <2>1. n \in Nat
    BY <1>1 DEF TypeOK, Payloads
  <2>2. /\ journal' = [journal EXCEPT !.entries =
                         Append(@, [whole |-> TRUE, slot |-> target, count |-> n])]
        /\ store' = store
    <3>1. ~ (AppendIndex < Len(journal.entries))
      BY <1>1, <1>3
    <3>2. QED
      BY <3>1 DEF AppendEntry
  <2>3. n >= n
    BY <2>1
  <2>4. /\ Grows /\ HeaderInv' /\ BestSlot' = BestSlot /\ Image' = Image
        /\ \A s \in Slots :
             /\ FoundCred(s)' = FoundCred(s)
             /\ \/ FoundCount(s)' = FoundCount(s)
                \/ s = target /\ FoundCount(s)' = n
    BY <1>1, <1>3, <2>1, <2>2, <2>3, EntryGrows
  <2>5. Covers(store)' /\ CredsHeld(store)'
    BY <1>2, <2>1, <2>2, <2>4 DEF Covers, CredsHeld, InUse
  <2>6. QED
    BY <1>1, <2>4, <2>5 DEF GrowInv
<1>4. CASE AppendIndex # Len(journal.entries)
  <2>1. AppendIndex < Len(journal.entries) /\ journal' = journal /\ store' = undo
    BY <1>4 DEF AppendEntry
  <2>2. Covers(undo)
    <3>1. ASSUME ready, next = 0, journal.entries = <<>> PROVE FALSE
      <4>1. AppendIndex = 0 /\ Len(journal.entries) = 0
        BY <3>1 DEF AppendIndex
      <4>2. QED
        BY <1>4, <4>1
    <3>2. QED
      BY <1>2, <3>1
  <2>3. /\ BestSlot' = BestSlot /\ Image' = Image
        /\ \A s : FoundCred(s)' = FoundCred(s) /\ FoundCount(s)' = FoundCount(s)
        /\ HeaderInv' <=> HeaderInv
    BY <1>1, <2>1, SameFlash
  <2>4. Covers(store)' /\ CredsHeld(store)'
    BY <1>2, <2>1, <2>2, <2>3 DEF Covers, CredsHeld, InUse
  <2>5. HeaderInv'
    BY <2>3 DEF GrowInv
  <2>6. Grows
    BY <2>3, SameGrows
  <2>7. QED
    BY <1>1, <2>4, <2>5, <2>6 DEF GrowInv
<1>5. QED
  BY <1>3, <1>4

LEMMA CrashGrows ==
  ASSUME TypeOK, ActiveImageIsBest, JournalInv, CountsInv, GrowInv, Crash \/ CrashInAppend
  PROVE  Grows /\ GrowInv'
<1>1. pc' = "off"
  BY DEF Crash, CrashInAppend, LoseRam
<1>2. Grows /\ HeaderInv'
  <2>1. CASE Crash
    <3>1. \A s : FoundCount(s)' = FoundCount(s)
      BY <2>1, SameFlash DEF Crash
    <3>2. HeaderInv'
      BY <2>1, SameFlash DEF Crash, GrowInv
    <3>3. QED
      BY <3>1, <3>2, SameGrows
  <2>2. CASE CrashInAppend
    <3> DEFINE least == store.counts[target]
    <3>1. least \in Nat /\ MaxSignCount \in Nat
      BY ConstantsOK DEF TypeOK, Payloads
    <3>2. PICK w \in BOOLEAN, n \in least .. MaxSignCount :
            journal' = [journal EXCEPT !.entries =
                          Append(@, [whole |-> w, slot |-> target, count |-> n])]
      BY <2>2 DEF CrashInAppend
    <3> HIDE DEF least
    <3>3. n \in Nat /\ n >= least
      BY <3>1, <3>2
    <3>4. /\ pc = "append" /\ UNCHANGED <<slot, legacy>>
          /\ AppendIndex = Len(journal.entries)
      BY <2>2 DEF CrashInAppend
    <3>5. QED
      BY <3>2, <3>3, <3>4, EntryGrows DEF least
  <2>3. QED
    BY <2>1, <2>2
<1>3. QED
  BY <1>1, <1>2 DEF GrowInv

LEMMA StepGrows ==
  ASSUME TypeOK, ActiveImageIsBest, JournalInv, CountsInv, GrowInv, [Next]_vars
  PROVE  Grows /\ GrowInv'
<1>1. CASE \E b \in Builds : Boot(b)
  BY <1>1, BootGrows
<1>2. CASE Crash \/ CrashInAppend
  BY <1>2, CrashGrows
<1>3. CASE \/ (\E c \in Creds : Add(c)) \/ (\E s \in Slots : Delete(s)) \/ Clear
           \/ (\E p \in Pins : SetPin(p)) \/ (\E u \in UPConfigs : SetUP(u))
  BY <1>3, CommitsGrow
<1>4. CASE \E s \in Slots : UpdateSignCount(s)
  BY <1>4, UpdateGrows
<1>5. CASE Reject \/ UNCHANGED vars
  <2>1. /\ UNCHANGED <<slot, journal, legacy, store, undo, active, ready, next, pc, target>>
        /\ op' = op \/ pc = "idle"
    BY <1>5 DEF Reject, vars, flash, ram, control
  <2>2. /\ BestSlot' = BestSlot /\ Image' = Image /\ (JournalBound' <=> JournalBound)
        /\ \A s : FoundCred(s)' = FoundCred(s) /\ FoundCount(s)' = FoundCount(s)
        /\ HeaderInv' <=> HeaderInv
    BY <2>1, SameFlash
  <2>3. /\ Covers(store)' <=> Covers(store)
        /\ Covers(undo)' <=> Covers(undo)
    BY <2>1, <2>2 DEF Covers
  <2>4. /\ CredsHeld(store)' <=> CredsHeld(store)
        /\ CredsHeld(undo)' <=> CredsHeld(undo)
        /\ InUse(store)' = InUse(store)
    BY <2>1, <2>2 DEF CredsHeld, InUse
  <2>5. ImageIsStore' <=> ImageIsStore
    BY <2>1 DEF ImageIsStore
  <2>6. GrowInv'
    BY <2>1, <2>2, <2>3, <2>4, <2>5 DEF GrowInv
  <2>7. QED
    BY <2>2, <2>6, SameGrows
<1>6. CASE FlashStep
  BY <1>6, BodyGrows, HeaderGrows, EraseGrows, BindGrows, AppendGrows DEF FlashStep
<1>7. QED
  BY <1>1, <1>2, <1>3, <1>4, <1>5, <1>6 DEF Next

LEMMA InitGrowInv == Init => GrowInv
<1> SUFFICES ASSUME Init PROVE GrowInv
  OBVIOUS
<1>1. TypeOK /\ pc = "off" /\ journal.header.generation = 0
  BY InitTypeOK DEF Init, PowerOffRam, NoHeader
<1>2. HeaderInv
  <2>1. ASSUME BestSlot # None PROVE slot[BestSlot].generation \in Nat
    <3>1. BestSlot \in 0 .. 1
      BY <2>1 DEF BestSlot
    <3>2. slot[BestSlot] \in Images
      BY <1>1, <3>1 DEF TypeOK
    <3>3. QED
      BY <3>2 DEF Images
  <2>2. QED
    BY <1>1, <2>1 DEF HeaderInv
<1>3. QED
  BY <1>1, <1>2 DEF GrowInv

\* The sign count that a power-up finds for a credential never falls, whatever is erased,
\* programmed, torn, interrupted or refused: RAM is never behind the flash, so neither a new
\* image nor an entry is, and the journal is erased only when its entries are no longer
\* replayed or are in the image.
THEOREM DurableCountsCorrect == Spec => DurableCountsGrow
<1>1. TypeOK => DurableIsFound
  <2>1. TypeOK => build \in Builds
    BY DEF TypeOK
  <2>2. QED
    BY <2>1, DurableFound DEF DurableIsFound
<1>2. DurableIsFound /\ DurableIsFound' /\ Grows
        => \A s \in Slots :
             LET before == Durable(build)
                 after  == Durable(build)'
             IN  before.creds[s] # NoCred /\ after.creds[s] = before.creds[s]
                   => after.counts[s] >= before.counts[s]
  BY DEF DurableIsFound, Grows
<1>3. TypeOK /\ ActiveImageIsBest /\ JournalInv /\ CountsInv /\ GrowInv /\ [Next]_vars
        => Grows /\ GrowInv'
  BY StepGrows
<1>4. Spec => [](TypeOK /\ ActiveImageIsBest /\ JournalInv /\ CountsInv)
  BY InitJournalInv, JournalInvInductive, InitCountsInv, CountsInvInductive, TypeCorrect,
     ActiveBestCorrect, PTL DEF Spec
<1>5. QED
  BY <1>1, <1>2, <1>3, <1>4, InitGrowInv, PTL DEF Spec, DurableCountsGrow

================================================================================
