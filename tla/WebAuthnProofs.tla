----------------------------- MODULE WebAuthnProofs -----------------------------
(***************************************************************************)
(* Theorems about WebAuthn, for every number of slots and relying parties, *)
(* every timeout and every period of the clock.                            *)
(***************************************************************************)
EXTENDS WebAuthn, FiniteSetTheorems, SequenceTheorems, TLAPS

--------------------------------------------------------------------------------
(* The lists of slots                                                        *)

\* A set of slots has an order.  Its n-th slot is the one with n - 1 slots of the set
\* below it: as many slots as there are places, no two of them in the same place.
LEMMA InOrderProperty ==
  ASSUME NEW S \in SUBSET Slots
  PROVE  /\ Cardinality(S) \in Nat
         /\ InOrder(S) \in [1 .. Cardinality(S) -> S]
         /\ \A i, j \in 1 .. Cardinality(S) : i < j => InOrder(S)[i] < InOrder(S)[j]
<1> DEFINE n        == Cardinality(S)
           places   == 1 .. n
           Below(x) == {y \in S : y < x}
           rank     == [x \in S |-> Cardinality(Below(x)) + 1]
<1>1. S \subseteq Nat /\ IsFiniteSet(S) /\ n \in Nat
  <2>1. Capacity - 1 \in Int /\ S \subseteq Nat
    BY ConstantsOK DEF Slots
  <2>2. IsFiniteSet(Slots)
    BY <2>1, FS_Interval, 0 \in Int DEF Slots
  <2>3. QED
    BY <2>1, <2>2, FS_Subset, FS_CardinalityType
<1>2. \A x \in S : /\ IsFiniteSet(Below(x)) /\ Cardinality(Below(x)) \in Nat
                   /\ Cardinality(Below(x)) < n
  <2> TAKE x \in S
  <2>1. Below(x) \in SUBSET S /\ x \notin Below(x)
    BY <1>1
  <2>2. IsFiniteSet(Below(x)) /\ Cardinality(Below(x)) <= n /\ Cardinality(Below(x)) # n
    BY <1>1, <2>1, FS_Subset
  <2>3. Cardinality(Below(x)) \in Nat
    BY <2>2, FS_CardinalityType
  <2> HIDE DEF Below, n
  <2>4. QED
    BY <1>1, <2>2, <2>3
<1>3. \A x, y \in S : x < y => rank[x] < rank[y]
  <2> SUFFICES ASSUME NEW x \in S, NEW y \in S, x < y PROVE rank[x] < rank[y]
    OBVIOUS
  <2>1. Below(x) \in SUBSET Below(y) /\ x \in Below(y) /\ x \notin Below(x)
    <3>1. \A z \in S : z \in Nat
      BY <1>1
    <3>2. \A z \in S : z < x => z < y
      <4>1. \A z \in Nat : x \in Nat /\ y \in Nat /\ z < x => z < y
        OBVIOUS
      <4>2. QED
        BY <3>1, <4>1
    <3>3. ~ (x < x)
      BY <3>1
    <3>4. QED
      BY <3>2, <3>3
  <2>2. /\ Cardinality(Below(x)) <= Cardinality(Below(y))
        /\ Cardinality(Below(x)) # Cardinality(Below(y))
    BY <1>2, <2>1, FS_Subset
  <2>3. rank[x] = Cardinality(Below(x)) + 1 /\ rank[y] = Cardinality(Below(y)) + 1
    OBVIOUS
  <2>4. Cardinality(Below(x)) \in Nat /\ Cardinality(Below(y)) \in Nat
    BY <1>2
  <2> HIDE DEF Below, rank
  <2>5. QED
    BY <2>2, <2>3, <2>4
<1>4. rank \in [S -> places]
  <2>1. \A x \in S : Cardinality(Below(x)) + 1 \in places
    <3> HIDE DEF Below
    <3>1. QED
      BY <1>1, <1>2
  <2>2. QED
    BY <2>1
<1> HIDE DEF rank, Below
<1>5. rank \in Injection(S, places)
  <2>1. \A x, y \in S : rank[x] = rank[y] => x = y
    <3> SUFFICES ASSUME NEW x \in S, NEW y \in S, rank[x] = rank[y], x # y PROVE FALSE
      OBVIOUS
    <3>1. x < y \/ y < x
      BY <1>1
    <3>2. rank[x] \in Nat /\ rank[y] \in Nat
      BY <1>1, <1>4
    <3>3. QED
      BY <1>3, <3>1, <3>2
  <2>2. QED
    BY <1>4, <2>1 DEF Injection, IsInjective
<1>6. rank \in Surjection(S, places)
  <2>1. IsFiniteSet(places) /\ Cardinality(places) = n
    BY <1>1, FS_Interval, 1 \in Int
  <2>2. QED
    BY <1>5, <2>1, FS_Injection
<1> DEFINE q == [i \in places |-> CHOOSE x \in S : rank[x] = i]
<1>7. \A i \in places : q[i] \in S /\ rank[q[i]] = i
  BY <1>6 DEF Surjection
<1>8. q \in [places -> S]
  BY <1>7
<1> HIDE DEF q
<1>9. \A i, j \in places : i < j => q[i] < q[j]
  <2> SUFFICES ASSUME NEW i \in places, NEW j \in places, i < j, ~ (q[i] < q[j])
               PROVE  FALSE
    OBVIOUS
  <2>1. q[i] \in S /\ q[j] \in S /\ rank[q[i]] = i /\ rank[q[j]] = j
    BY <1>7
  <2>2. q[i] \in Nat /\ q[j] \in Nat
    BY <1>1, <2>1
  <2>3. q[i] = q[j] \/ q[j] < q[i]
    BY <2>2
  <2>4. i = j \/ j < i
    BY <1>3, <2>1, <2>3
  <2>5. i \in Nat /\ j \in Nat
    BY <1>1
  <2>6. QED
    BY <2>4, <2>5
<1>10. QED
  BY <1>1, <1>8, <1>9 DEF InOrder

\* A list that a command works on: slots, none of them twice, none of them free.
Proper(list) ==
  /\ list \in Seq(Slots)
  /\ \A i, j \in 1 .. Len(list) : list[i] = list[j] => i = j
  /\ \A k \in 1 .. Len(list) : slots[list[k]] # Free

LEMMA InOrderProper ==
  ASSUME NEW S \in SUBSET Slots, \A s \in S : slots[s] # Free
  PROVE  Proper(InOrder(S))
<1> DEFINE n == Cardinality(S)
           q == InOrder(S)
<1>1. n \in Nat /\ q \in [1 .. n -> S] /\ \A i, j \in 1 .. n : i < j => q[i] < q[j]
  BY InOrderProperty
<1>2. S \subseteq Int
  BY ConstantsOK DEF Slots
<1> HIDE DEF q, n
<1>3. q \in Seq(Slots) /\ Len(q) = n
  BY <1>1
<1>4. ASSUME NEW i \in 1 .. n, NEW j \in 1 .. n, q[i] = q[j], i # j PROVE FALSE
  <2>1. q[i] \in Int /\ q[j] \in Int
    BY <1>1, <1>2
  <2>2. i < j \/ j < i
    BY <1>1, <1>4
  <2>3. q[i] < q[j] \/ q[j] < q[i]
    BY <1>1, <2>2
  <2>4. QED
    BY <1>4, <2>1, <2>3
<1>5. \A k \in 1 .. n : slots[q[k]] # Free
  BY <1>1
<1>6. QED
  BY <1>3, <1>4, <1>5 DEF Proper, q

\* The list of a request is proper; without an allow list it has at most PendingMax slots.
LEMMA CandidatesProper ==
  ASSUME NEW req \in Requests
  PROVE  /\ Proper(Candidates(req))
         /\ req.allow = 0 => Len(Candidates(req)) <= PendingMax
<1>1. CASE req.allow = 0
  <2> DEFINE hits == {s \in Slots : /\ slots[s] # Free /\ slots[s].discoverable
                                    /\ slots[s].rp = req.rp}
             all  == InOrder(hits)
             m    == IF Len(all) < PendingMax THEN Len(all) ELSE PendingMax
  <2>1. Proper(all)
    BY InOrderProper
  <2>2. Candidates(req) = SubSeq(all, 1, m)
    BY <1>1 DEF Candidates, Matching
  <2> HIDE DEF hits, all
  <2>3. Len(all) \in Nat /\ PendingMax \in Nat \ {0}
    BY <2>1, ConstantsOK, LenProperties DEF Proper
  <2>4. m \in Nat /\ m <= Len(all) /\ m <= PendingMax
    BY <2>3
  <2> HIDE DEF m
  <2>5. \A i \in 1 .. m : all[i] \in Slots
    BY <2>1, <2>3, <2>4, ElementOfSeq DEF Proper
  <2> DEFINE l == SubSeq(all, 1, m)
  <2>6. l \in Seq(Slots) /\ Len(l) = m /\ \A i \in 1 .. m : l[i] = all[i]
    BY <2>4, <2>5
  <2> HIDE DEF l
  <2>7. \A i, j \in 1 .. m : l[i] = l[j] => i = j
    BY <2>1, <2>3, <2>4, <2>6 DEF Proper
  <2>8. \A k \in 1 .. m : slots[l[k]] # Free
    BY <2>1, <2>3, <2>4, <2>6 DEF Proper
  <2>9. Proper(l) /\ Len(l) <= PendingMax
    BY <2>4, <2>6, <2>7, <2>8 DEF Proper
  <2>10. QED
    BY <2>2, <2>9 DEF l
<1>2. CASE req.allow # 0
  BY <1>2, InOrderProper DEF Candidates
<1>3. QED
  BY <1>1, <1>2

--------------------------------------------------------------------------------
(* The slots, their numbers and their counters                               *)

\* A credential: what a slot holds that is not free.
Credentials == [id : Ids, rp : Rps, discoverable : BOOLEAN, count : 0 .. MaxCount]

\* No two slots hold the same credential, and none has a number that is still to be
\* given; a counter in flash is not behind the one that was released last.
SlotsInv ==
  /\ slots \in [Slots -> Records]
  /\ made \in 0 .. MaxMade
  /\ signed \in [Ids -> Nat] /\ released \in [Ids -> 0 .. MaxCount]
  /\ \A s \in Slots : slots[s].id <= made
  /\ \A s, t \in Slots : slots[s] # Free /\ slots[s].id = slots[t].id => s = t
  /\ \A s \in Slots : slots[s] # Free => released[slots[s].id] <= slots[s].count
  /\ \A i \in Ids : i > made => released[i] = 0

LEMMA RecordsProperty ==
  /\ Free \in Records /\ Free.id = 0
  /\ \A r \in Records : r # Free => r \in Credentials /\ r.id \in Ids /\ r.count \in 0 .. MaxCount
  /\ \A r \in Credentials : r \in Records /\ r # Free
<1>1. \A r \in Credentials : r.id \in Ids /\ r.id # 0
  BY ConstantsOK DEF Credentials, Ids
<1>2. Free.id = 0
  BY DEF Free
<1>3. \A r \in Credentials : r # Free
  BY <1>1, <1>2
<1>4. Records = Credentials \cup {Free}
  BY DEF Records, Credentials
<1>5. \A r \in Credentials : r.count \in 0 .. MaxCount
  BY DEF Credentials
<1>6. QED
  BY <1>1, <1>2, <1>3, <1>4, <1>5

\* What CountsIncrease says of a step.
CountsUp == \A i \in Ids : signed'[i] > signed[i] => released'[i] > released[i]

\* A step that gives no assertion.
LEMMA NoneSigned ==
  ASSUME SlotsInv, signed' = signed
  PROVE  CountsUp
<1>1. \A i \in Ids : signed[i] \in Nat /\ signed'[i] = signed[i]
  BY DEF SlotsInv
<1>2. QED
  BY <1>1 DEF CountsUp

\* The counter of one slot is raised; what the slots hold is otherwise the same.
Counted(s) ==
  /\ slots[s] # Free /\ slots[s].count < MaxCount
  /\ slots' = [slots EXCEPT ![s].count = @ + 1]

LEMMA CountedSlots ==
  ASSUME SlotsInv, NEW s \in Slots, Counted(s)
  PROVE  /\ slots' \in [Slots -> Records]
         /\ \A t \in Slots : slots'[t].id = slots[t].id /\ (slots'[t] = Free <=> slots[t] = Free)
         /\ \A t \in Slots : t # s => slots'[t] = slots[t]
         /\ slots'[s].count = slots[s].count + 1
<1> DEFINE r == slots[s]
           u == [r EXCEPT !.count = r.count + 1]
<1>1. r \in Credentials /\ r.count \in Nat /\ r.count + 1 \in 0 .. MaxCount
  BY RecordsProperty, ConstantsOK DEF SlotsInv, Counted
<1>2. u \in Credentials /\ u.id = r.id /\ u.count = r.count + 1
  BY <1>1 DEF Credentials
<1>3. slots' = [slots EXCEPT ![s] = u] /\ slots \in [Slots -> Records]
  BY DEF Counted, SlotsInv
<1> HIDE DEF u
<1>4. slots'[s] = u /\ \A t \in Slots : t # s => slots'[t] = slots[t]
  BY <1>3
<1>5. u \in Records /\ u # Free /\ r # Free
  BY <1>2, RecordsProperty DEF Counted
<1>6. slots' \in [Slots -> Records]
  BY <1>3, <1>5
<1>7. \A t \in Slots : slots'[t].id = slots[t].id /\ (slots'[t] = Free <=> slots[t] = Free)
  BY <1>2, <1>4, <1>5
<1>8. QED
  BY <1>2, <1>4, <1>6, <1>7

\* An answer that succeeds.
LEMMA RespondSlots ==
  ASSUME SlotsInv, NEW s \in Slots, Respond(s), made' = made
  PROVE  SlotsInv' /\ Counted(s) /\ CountsUp
<1>1. Counted(s)
  BY DEF Respond, Counted
<1> DEFINE i == slots[s].id
           c == slots[s].count
<1>2. i \in Ids /\ c \in Nat /\ c + 1 \in 0 .. MaxCount
  BY RecordsProperty, ConstantsOK DEF SlotsInv, Respond
<1>3. /\ signed' = [signed EXCEPT ![i] = @ + 1] /\ released' = [released EXCEPT ![i] = c + 1]
  BY DEF Respond
<1>4. /\ slots' \in [Slots -> Records]
      /\ \A t \in Slots : slots'[t].id = slots[t].id /\ (slots'[t] = Free <=> slots[t] = Free)
      /\ \A t \in Slots : t # s => slots'[t] = slots[t]
      /\ slots'[s].count = c + 1
  BY <1>1, CountedSlots
<1>5. signed' \in [Ids -> Nat] /\ released' \in [Ids -> 0 .. MaxCount]
  <2>1. signed \in [Ids -> Nat] /\ released \in [Ids -> 0 .. MaxCount]
    BY DEF SlotsInv
  <2> HIDE DEF i, c
  <2>2. QED
    BY <1>2, <1>3, <2>1
<1>6. /\ \A t \in Slots : slots'[t].id <= made'
      /\ \A t, w \in Slots : slots'[t] # Free /\ slots'[t].id = slots'[w].id => t = w
  BY <1>4 DEF SlotsInv
<1>7. /\ released'[i] = c + 1 /\ c + 1 > released[i]
      /\ \A j \in Ids : j # i => released'[j] = released[j] /\ signed'[j] = signed[j]
  <2>1. signed \in [Ids -> Nat] /\ released \in [Ids -> 0 .. MaxCount]
        /\ released[i] <= c
    BY DEF SlotsInv, Respond
  <2> HIDE DEF i, c
  <2>2. released[i] \in Nat
    BY <1>2, <2>1
  <2>3. QED
    BY <1>2, <1>3, <2>1, <2>2
<1>8. \A t \in Slots : slots'[t] # Free => released'[slots'[t].id] <= slots'[t].count
  <2> SUFFICES ASSUME NEW t \in Slots, slots'[t] # Free
               PROVE  released'[slots'[t].id] <= slots'[t].count
    OBVIOUS
  <2>1. CASE t = s
    BY <1>2, <1>4, <1>7, <2>1
  <2>2. CASE t # s
    <3>1. slots'[t] = slots[t] /\ slots[t] # Free /\ slots[t].id # i
      BY <1>4, <2>2 DEF SlotsInv, Respond
    <3>2. slots[t].id \in Ids
      BY <3>1, RecordsProperty DEF SlotsInv
    <3>3. released[slots[t].id] <= slots[t].count
      BY <3>1, <3>2 DEF SlotsInv
    <3>4. QED
      BY <1>7, <3>1, <3>2, <3>3
  <2>3. QED
    BY <2>1, <2>2
<1>9. \A j \in Ids : j > made' => released'[j] = 0
  <2>1. i <= made /\ made \in Nat
    BY DEF SlotsInv
  <2>2. \A j \in Ids : j > made => j # i /\ released[j] = 0
    BY <1>2, <2>1 DEF SlotsInv, Ids
  <2>3. QED
    BY <1>7, <2>2
<1>10. SlotsInv'
  BY <1>3, <1>4, <1>5, <1>6, <1>8, <1>9 DEF SlotsInv
<1>11. CountsUp
  <2> HIDE DEF i, c
  <2>1. ASSUME NEW j \in Ids, signed'[j] > signed[j] PROVE released'[j] > released[j]
    <3>1. CASE j = i
      <4>1. c + 1 > released[i] /\ released'[i] = c + 1
        BY <1>7
      <4>2. QED
        BY <3>1, <4>1
    <3>2. CASE j # i
      <4>1. signed'[j] = signed[j] /\ signed[j] \in Nat
        BY <1>7, <3>2 DEF SlotsInv
      <4>2. QED
        BY <2>1, <4>1
    <3>3. QED
      BY <3>1, <3>2
  <2>2. QED
    BY <2>1 DEF CountsUp
<1>12. QED
  BY <1>1, <1>10, <1>11

\* An answer that fails.
LEMMA RespondFailsSlots ==
  ASSUME SlotsInv, NEW s \in Slots, RespondFails(s), made' = made
  PROVE  SlotsInv' /\ (slots' = slots \/ Counted(s)) /\ UNCHANGED <<signed, released>>
<1>1. UNCHANGED <<signed, released>>
  BY DEF RespondFails
<1>2. CASE slots' = slots
  BY <1>1, <1>2 DEF SlotsInv
<1>3. CASE Counted(s)
  <2>1. /\ slots' \in [Slots -> Records]
        /\ \A t \in Slots : slots'[t].id = slots[t].id /\ (slots'[t] = Free <=> slots[t] = Free)
        /\ \A t \in Slots : t # s => slots'[t] = slots[t]
        /\ slots'[s].count = slots[s].count + 1
    BY <1>3, CountedSlots
  <2>2. \A t \in Slots : slots'[t] # Free => released'[slots'[t].id] <= slots'[t].count
    <3> SUFFICES ASSUME NEW t \in Slots, slots'[t] # Free
                 PROVE  released[slots[t].id] <= slots'[t].count
      BY <1>1, <2>1
    <3>1. /\ released[slots[t].id] <= slots[t].count
          /\ released[slots[t].id] \in Nat /\ slots[t].count \in Nat
      <4>1. slots[t] # Free /\ slots[t] \in Records
        BY <2>1 DEF SlotsInv
      <4>2. slots[t].id \in Ids /\ slots[t].count \in Nat
        BY <4>1, RecordsProperty
      <4>3. released \in [Ids -> 0 .. MaxCount]
        BY DEF SlotsInv
      <4>4. QED
        BY <4>1, <4>2, <4>3 DEF SlotsInv
    <3>2. slots'[t].count \in {slots[t].count, slots[t].count + 1}
      BY <2>1
    <3>3. QED
      BY <3>1, <3>2
  <2>3. /\ \A t \in Slots : slots'[t].id <= made'
        /\ \A t, w \in Slots : slots'[t] # Free /\ slots'[t].id = slots'[w].id => t = w
    BY <2>1 DEF SlotsInv
  <2>4. QED
    BY <1>1, <1>3, <2>1, <2>2, <2>3 DEF SlotsInv
<1>4. QED
  BY <1>1, <1>2, <1>3 DEF RespondFails, Counted

\* A credential made, with the next number.
LEMMA StoreSlots ==
  ASSUME SlotsInv, NEW rp \in Rps, Store(rp), UNCHANGED <<signed, released>>
  PROVE  SlotsInv'
<1>1. made' = made + 1 /\ made' \in 0 .. MaxMade /\ made \in Nat /\ made' \in Ids
  BY ConstantsOK DEF Store, SlotsInv, Ids
<1>2. CASE slots' = slots
  <2>1. \A s \in Slots : slots'[s].id <= made'
    <3>1. \A s \in Slots : slots[s].id <= made /\ slots[s].id \in Int
      BY RecordsProperty DEF SlotsInv, Ids
    <3>2. QED
      BY <1>1, <1>2, <3>1
  <2>2. \A i \in Ids : i > made' => released'[i] = 0
    BY <1>1 DEF SlotsInv, Ids
  <2>3. QED
    BY <1>1, <1>2, <2>1, <2>2 DEF SlotsInv
<1>3. ASSUME NEW s \in Slots, slots[s] = Free,
             slots' = [slots EXCEPT ![s] =
               [id |-> made', rp |-> rp, discoverable |-> TRUE, count |-> 0]]
      PROVE  SlotsInv'
  <2> DEFINE c == [id |-> made', rp |-> rp, discoverable |-> TRUE, count |-> 0]
  <2>1. c \in Credentials /\ c.id = made' /\ c.count = 0
    BY <1>1, ConstantsOK DEF Credentials
  <2>2. c \in Records /\ c # Free
    BY <2>1, RecordsProperty
  <2>3. slots \in [Slots -> Records] /\ slots' = [slots EXCEPT ![s] = c]
    BY <1>3 DEF SlotsInv
  <2> HIDE DEF c
  <2>4. /\ slots' \in [Slots -> Records] /\ slots'[s] = c
        /\ \A t \in Slots : t # s => slots'[t] = slots[t]
    BY <2>2, <2>3
  <2>5. \A t \in Slots : slots[t].id <= made /\ slots[t].id \in Int
    BY RecordsProperty DEF SlotsInv, Ids
  <2>6. \A t \in Slots : slots'[t].id <= made'
    BY <1>1, <2>1, <2>4, <2>5
  <2>7. \A t \in Slots : t # s => slots'[t].id # made'
    BY <1>1, <2>4, <2>5
  <2>8. ASSUME NEW t \in Slots, NEW w \in Slots, slots'[t] # Free, slots'[t].id = slots'[w].id
        PROVE  t = w
    <3>1. CASE t = s \/ w = s
      BY <2>1, <2>4, <2>7, <2>8, <3>1
    <3>2. CASE t # s /\ w # s
      BY <2>4, <2>8, <3>2 DEF SlotsInv
    <3>3. QED
      BY <3>1, <3>2
  <2>9. ASSUME NEW t \in Slots, slots'[t] # Free
        PROVE  released'[slots'[t].id] <= slots'[t].count
    <3>1. CASE t = s
      <4>1. released[made'] = 0
        BY <1>1 DEF SlotsInv
      <4>2. QED
        BY <2>1, <2>4, <3>1, <4>1
    <3>2. CASE t # s
      BY <2>4, <2>9, <3>2 DEF SlotsInv
    <3>3. QED
      BY <3>1, <3>2
  <2>10. \A i \in Ids : i > made' => released'[i] = 0
    BY <1>1 DEF SlotsInv, Ids
  <2>11. QED
    BY <1>1, <2>4, <2>6, <2>8, <2>9, <2>10 DEF SlotsInv
<1>4. QED
  BY <1>2, <1>3 DEF Store

\* Slots are freed.
LEMMA FreedSlots ==
  ASSUME SlotsInv, UNCHANGED <<made, signed, released>>,
         slots' \in [Slots -> Records],
         \A s \in Slots : slots'[s] = Free \/ slots'[s] = slots[s]
  PROVE  SlotsInv'
<1>1. \A s \in Slots : slots'[s].id <= made'
  <2>1. Free.id <= made
    BY RecordsProperty DEF SlotsInv
  <2>2. QED
    BY <2>1 DEF SlotsInv
<1>2. ASSUME NEW s \in Slots, NEW t \in Slots, slots'[s] # Free, slots'[s].id = slots'[t].id
      PROVE  s = t
  <2>1. slots'[s] = slots[s] /\ slots[s].id \in Ids /\ slots[s].id # 0
    BY <1>2, RecordsProperty DEF SlotsInv, Ids
  <2>2. slots'[t] = slots[t]
    BY <1>2, <2>1, RecordsProperty
  <2>3. QED
    BY <1>2, <2>1, <2>2 DEF SlotsInv
<1>3. \A s \in Slots : slots'[s] # Free => released'[slots'[s].id] <= slots'[s].count
  BY DEF SlotsInv
<1>4. QED
  BY <1>1, <1>2, <1>3 DEF SlotsInv

\* The counter of one credential is put back, and its history starts anew.
LEMMA PutBackSlots ==
  ASSUME SlotsInv, CountersPutBack, made' = made
  PROVE  SlotsInv' /\ CountsUp
<1>1. PICK s \in Slots, older \in 0 .. MaxCount :
        /\ older < slots[s].count
        /\ slots' = [slots EXCEPT ![s].count = older]
        /\ signed' = [signed EXCEPT ![slots[s].id] = 0]
        /\ released' = [released EXCEPT ![slots[s].id] = 0]
  BY DEF CountersPutBack
<1> DEFINE r == slots[s]
           i == slots[s].id
           u == [r EXCEPT !.count = older]
<1>2. r \in Credentials /\ i \in Ids
  <2>1. r # Free
    BY <1>1 DEF Free
  <2>2. QED
    BY <2>1, RecordsProperty DEF SlotsInv
<1>3. u \in Records /\ u # Free /\ u.id = i /\ u.count = older
  <2>1. u \in Credentials /\ u.id = i /\ u.count = older
    BY <1>1, <1>2 DEF Credentials
  <2> HIDE DEF u
  <2>2. QED
    BY <2>1, RecordsProperty
<1>4. /\ slots \in [Slots -> Records] /\ slots' = [slots EXCEPT ![s] = u]
      /\ signed \in [Ids -> Nat] /\ released \in [Ids -> 0 .. MaxCount]
      /\ MaxCount \in Nat
  BY <1>1, ConstantsOK DEF SlotsInv
<1> HIDE DEF u
<1>5. /\ slots' \in [Slots -> Records] /\ slots'[s] = u
      /\ \A t \in Slots : t # s => slots'[t] = slots[t]
  BY <1>3, <1>4
<1>6. /\ signed' = [signed EXCEPT ![i] = 0] /\ released' = [released EXCEPT ![i] = 0]
  BY <1>1
<1> HIDE DEF i
<1>7. /\ signed' \in [Ids -> Nat] /\ released' \in [Ids -> 0 .. MaxCount]
      /\ signed'[i] = 0 /\ released'[i] = 0
      /\ \A j \in Ids : j # i => signed'[j] = signed[j] /\ released'[j] = released[j]
  BY <1>2, <1>4, <1>6
<1>8. \A t \in Slots : slots'[t].id = slots[t].id /\ (slots'[t] = Free <=> slots[t] = Free)
  <2>1. slots[s] # Free /\ slots[s].id = i
    BY <1>2, RecordsProperty DEF i
  <2>2. QED
    BY <1>3, <1>5, <2>1
<1>9. ASSUME NEW t \in Slots, slots'[t] # Free
      PROVE  released'[slots'[t].id] <= slots'[t].count
  <2>1. CASE t = s
    BY <1>1, <1>3, <1>5, <1>7, <2>1
  <2>2. CASE t # s
    <3>1. slots'[t] = slots[t] /\ slots[t] # Free /\ slots[t].id # i
      BY <1>5, <1>9, <2>2 DEF SlotsInv, i
    <3>2. slots[t].id \in Ids /\ released[slots[t].id] <= slots[t].count
      BY <3>1, RecordsProperty DEF SlotsInv
    <3>3. QED
      BY <1>7, <3>1, <3>2
  <2>3. QED
    BY <2>1, <2>2
<1>10. SlotsInv'
  <2>1. /\ \A t \in Slots : slots'[t].id <= made'
        /\ \A t, w \in Slots : slots'[t] # Free /\ slots'[t].id = slots'[w].id => t = w
    BY <1>8 DEF SlotsInv
  <2>2. \A j \in Ids : j > made' => released'[j] = 0
    BY <1>7 DEF SlotsInv
  <2>3. QED
    BY <1>5, <1>7, <1>9, <2>1, <2>2 DEF SlotsInv
<1>11. CountsUp
  <2>1. ASSUME NEW j \in Ids PROVE ~ (signed'[j] > signed[j])
    <3>1. signed[j] \in Nat /\ signed'[j] \in {0, signed[j]}
      BY <1>4, <1>7
    <3>2. QED
      BY <3>1
  <2>2. QED
    BY <2>1 DEF CountsUp
<1>12. QED
  BY <1>10, <1>11

--------------------------------------------------------------------------------
(* The commands                                                              *)

\* What is kept for the getNextAssertions to come.
Pendings == [active : {TRUE}, req : Requests, list : Seq(Slots), next : Nat,
             usedAt : 0 .. ClockPeriod - 1]

PendingOK ==
  \/ pending = NoPending
  \/ /\ pending \in Pendings
     /\ Len(pending.list) <= PendingMax
     /\ pending.next \in 1 .. Len(pending.list) - 1

RecentOK == recent = NoRecent \/ recent \in [active : {TRUE}, key : Requests, at : 0 .. ClockPeriod - 1]

\* A command that waits for the user has dropped what was pending, and it goes on with the
\* list that its request would have now.
WaitingOK ==
  \/ waiting = Nothing
  \/ /\ pending = NoPending
     /\ \/ \E rp \in Rps : waiting = [op |-> "make", rp |-> rp]
        \/ \E req \in Requests :
             /\ Candidates(req) # <<>>
             /\ waiting = [op |-> "get", req |-> req, list |-> Candidates(req)]

CommandInv == PendingOK /\ RecentOK /\ now \in 0 .. ClockPeriod - 1 /\ WaitingOK

LEMMA SameCandidates ==
  ASSUME slots' = slots, NEW req
  PROVE  Candidates(req)' = Candidates(req)
BY DEF Candidates, Matching

LEMMA ActivePending ==
  ASSUME PendingOK, pending.active
  PROVE  /\ pending \in Pendings
         /\ pending.list \in Seq(Slots) /\ Len(pending.list) <= PendingMax
         /\ pending.next \in 1 .. Len(pending.list) - 1
<1>1. pending # NoPending
  <2>1. NoPending.active = FALSE
    BY DEF NoPending
  <2>2. QED
    BY <2>1
<1>2. pending \in Pendings /\ Len(pending.list) <= PendingMax
      /\ pending.next \in 1 .. Len(pending.list) - 1
  BY <1>1, Zenon DEF PendingOK
<1>3. pending.list \in Seq(Slots)
  BY <1>2 DEF Pendings
<1>4. QED
  BY <1>2, <1>3

\* What a command that waits waits for.
LEMMA WaitingProperty ==
  ASSUME WaitingOK
  PROVE  /\ waiting.op = "make" => waiting.rp \in Rps
         /\ waiting.op = "get" => /\ waiting.req \in Requests
                                  /\ waiting.list = Candidates(waiting.req)
                                  /\ waiting.list # <<>>
         /\ waiting # Nothing => pending = NoPending
BY DEF WaitingOK, Nothing

\* A list that is not empty has a first slot.
LEMMA FirstOfList ==
  ASSUME NEW list, Proper(list), list # <<>>
  PROVE  list[1] \in Slots /\ slots[list[1]] # Free /\ Len(list) \in Nat \ {0}
<1>1. Len(list) \in Nat \ {0}
  BY EmptySeq DEF Proper
<1>2. 1 \in 1 .. Len(list)
  BY <1>1
<1>3. QED
  BY <1>1, <1>2, ElementOfSeq DEF Proper

\* An answer to a getAssertion.
LEMMA AnswerStep ==
  ASSUME SlotsInv, CommandInv, NEW req \in Requests, Candidates(req) # <<>>,
         NEW reused, Answer(req, Candidates(req), reused), now' = now
  PROVE  SlotsInv' /\ CountsUp /\ PendingOK' /\ RecentOK'
<1> DEFINE list == Candidates(req)
<1>1. Proper(list) /\ (req.allow = 0 => Len(list) <= PendingMax)
  BY CandidatesProper
<1>2. list[1] \in Slots /\ Len(list) \in Nat \ {0} /\ list \in Seq(Slots)
  BY <1>1, FirstOfList DEF Proper
<1> HIDE DEF list
<1>3. SlotsInv' /\ CountsUp
  <2>1. made' = made
    BY DEF Answer
  <2>2. Respond(list[1]) \/ RespondFails(list[1])
    BY DEF Answer, list
  <2>3. CASE Respond(list[1])
    BY <1>2, <2>1, <2>3, RespondSlots
  <2>4. CASE RespondFails(list[1])
    BY <1>2, <2>1, <2>4, RespondFailsSlots, NoneSigned
  <2>5. QED
    BY <2>2, <2>3, <2>4
<1>4. PendingOK'
  <2>1. Pend(req, list) \/ pending' = NoPending
    BY DEF Answer, list
  <2>2. CASE pending' = NoPending
    BY <2>2 DEF PendingOK
  <2>3. CASE req.allow = 0 /\ Len(list) > 1 /\ Pend(req, list)
    <3> DEFINE p == [active |-> TRUE, req |-> req, list |-> list, next |-> 1, usedAt |-> now]
    <3>1. pending' = p
      BY <2>3 DEF Pend
    <3>2. /\ p.list = list /\ p.next = 1
          /\ p \in Pendings
      BY <1>2 DEF CommandInv, Pendings
    <3>3. 1 \in 1 .. Len(list) - 1
      BY <1>2, <2>3
    <3> HIDE DEF p
    <3>4. QED
      BY <1>1, <2>3, <3>1, <3>2, <3>3 DEF PendingOK
  <2>4. QED
    BY <2>1, <2>2, <2>3 DEF Pend
<1>5. RecentOK'
  <2>1. Arm(req, reused) \/ recent' = NoRecent \/ recent' = recent
    BY DEF Answer
  <2>2. recent' \in {NoRecent, recent, [active |-> TRUE, key |-> req, at |-> now]}
    BY <2>1 DEF Arm
  <2>3. [active |-> TRUE, key |-> req, at |-> now]
          \in [active : {TRUE}, key : Requests, at : 0 .. ClockPeriod - 1]
    BY DEF CommandInv
  <2>4. QED
    BY <2>2, <2>3, Zenon DEF RecentOK, CommandInv
<1>6. QED
  BY <1>3, <1>4, <1>5

\* The first reading of the clock, and the next.
LEMMA ClockProperty ==
  /\ ClockPeriod \in Nat \ {0} /\ 0 \in 0 .. ClockPeriod - 1 /\ ClockPeriod - 1 \in 0 .. ClockPeriod - 1
  /\ \A t \in 0 .. ClockPeriod - 1 : (t + 1) % ClockPeriod \in 0 .. ClockPeriod - 1
BY ConstantsOK

\* A command that does not wait leaves no command waiting.
LEMMA NobodyWaits ==
  ASSUME waiting' = Nothing
  PROVE  WaitingOK'
BY DEF WaitingOK, Nothing

LEMMA CodeInit == Init => SlotsInv /\ CommandInv
<1> SUFFICES ASSUME Init PROVE SlotsInv /\ CommandInv
  OBVIOUS
<1>1. MaxMade \in Nat \ {0} /\ MaxCount \in Nat /\ 1 \in Ids /\ 0 \in Slots
  BY ConstantsOK DEF Ids, Slots
<1>2. signed = [i \in Ids |-> 0] /\ released = [i \in Ids |-> 0]
  BY DEF Init
<1>3. SlotsInv
  <2>1. CASE slots = [s \in Slots |-> Free] /\ made = 0
    BY <1>1, <1>2, <2>1, RecordsProperty DEF SlotsInv
  <2>2. ASSUME NEW c \in Credentials, c.id = 1, c.count = 0, made = 1,
               slots = [s \in Slots |-> IF s = 0 THEN c ELSE Free]
        PROVE  SlotsInv
    <3>1. c \in Records /\ c # Free /\ Free \in Records /\ Free.id = 0
      BY RecordsProperty
    <3>2. slots[0] = c /\ \A s \in Slots : s # 0 => slots[s] = Free
      BY <1>1, <2>2
    <3>3. slots \in [Slots -> Records] /\ made \in 0 .. MaxMade
      BY <1>1, <2>2, <3>1
    <3>4. signed \in [Ids -> Nat] /\ released \in [Ids -> 0 .. MaxCount]
      BY <1>1, <1>2
    <3>5. \A s \in Slots : slots[s].id <= made
      BY <2>2, <3>1, <3>2
    <3>6. \A s, t \in Slots : slots[s] # Free /\ slots[s].id = slots[t].id => s = t
      BY <2>2, <3>1, <3>2
    <3>7. \A s \in Slots : slots[s] # Free => released[slots[s].id] <= slots[s].count
      BY <1>1, <1>2, <2>2, <3>2
    <3>8. QED
      BY <1>2, <3>3, <3>4, <3>5, <3>6, <3>7 DEF SlotsInv
  <2>3. PICK old \in {{}} \cup {{[id |-> 1, rp |-> r, discoverable |-> FALSE, count |-> 0]} : r \in Rps} :
          /\ slots = [s \in Slots |-> IF s = 0 /\ old # {} THEN CHOOSE c \in old : TRUE ELSE Free]
          /\ made = Cardinality(old)
    BY DEF Init
  <2>4. CASE old = {}
    BY <2>1, <2>3, <2>4, FS_EmptySet
  <2>5. CASE old # {}
    <3>1. PICK r \in Rps : old = {[id |-> 1, rp |-> r, discoverable |-> FALSE, count |-> 0]}
      BY <2>5
    <3> DEFINE c == [id |-> 1, rp |-> r, discoverable |-> FALSE, count |-> 0]
    <3>2. made = 1
      BY <2>3, <3>1, FS_Singleton
    <3>3. (CHOOSE d \in old : TRUE) = c
      BY <3>1
    <3>4. slots = [s \in Slots |-> IF s = 0 THEN c ELSE Free]
      BY <2>3, <2>5, <3>3, Zenon
    <3>5. c \in Credentials /\ c.id = 1 /\ c.count = 0
      BY <1>1 DEF Credentials
    <3> HIDE DEF c
    <3>6. QED
      BY <2>2, <3>2, <3>4, <3>5
  <2>6. QED
    BY <2>4, <2>5
<1>4. CommandInv
  BY ClockProperty DEF Init, CommandInv, PendingOK, RecentOK, WaitingOK
<1>5. QED
  BY <1>3, <1>4

\* A step keeps the slots and the commands' variables in order, and the counters go up.
LEMMA CodeStep ==
  ASSUME SlotsInv, CommandInv, [Next]_vars
  PROVE  SlotsInv' /\ CountsUp /\ CommandInv'
<1> USE DEF CommandInv
<1>1. ASSUME NEW rp \in Rps, MakeCredential(rp) PROVE SlotsInv' /\ CountsUp /\ CommandInv'
  <2>1. pending' = NoPending /\ recent' = NoRecent /\ now' = now
        /\ UNCHANGED <<signed, released>>
    BY <1>1 DEF MakeCredential, NoAssertion, history
  <2>2. SlotsInv'
    <3>1. CASE PresenceOn
      BY <1>1, <2>1, <3>1 DEF MakeCredential, SlotsInv
    <3>2. CASE ~ PresenceOn
      BY <1>1, <2>1, <3>2, StoreSlots DEF MakeCredential
    <3>3. QED
      BY <3>1, <3>2
  <2>3. WaitingOK'
    <3>1. waiting' = Nothing \/ waiting' = [op |-> "make", rp |-> rp]
      BY <1>1 DEF MakeCredential
    <3>2. QED
      BY <2>1, <3>1 DEF WaitingOK, NoPending, Nothing
  <2>4. QED
    BY <2>1, <2>2, <2>3, NoneSigned DEF PendingOK, RecentOK
<1>2. CASE MakeConfirmed
  <2>1. waiting.rp \in Rps
    BY <1>2, WaitingProperty DEF MakeConfirmed
  <2>2. /\ UNCHANGED <<pending, recent, now, signed, released>> /\ waiting' = Nothing
    BY <1>2 DEF MakeConfirmed, NoAssertion, history
  <2>3. SlotsInv'
    BY <1>2, <2>1, <2>2, StoreSlots DEF MakeConfirmed
  <2>4. QED
    BY <2>2, <2>3, NobodyWaits, NoneSigned DEF PendingOK, RecentOK
<1>3. ASSUME NEW req \in Requests, GetReusing(req) PROVE SlotsInv' /\ CountsUp /\ CommandInv'
  <2>1. /\ Candidates(req) # <<>> /\ Answer(req, Candidates(req), TRUE)
        /\ waiting' = Nothing /\ now' = now
    BY <1>3 DEF GetReusing
  <2>2. QED
    BY <2>1, AnswerStep, NobodyWaits
<1>4. ASSUME NEW req \in Requests, GetAsking(req) PROVE SlotsInv' /\ CountsUp /\ CommandInv'
  <2>1. CASE PresenceOn
    <3>1. /\ waiting' = [op |-> "get", req |-> req, list |-> Candidates(req)]
          /\ Candidates(req) # <<>>
          /\ recent' = NoRecent \/ recent' = recent
          /\ pending' = NoPending
          /\ UNCHANGED <<slots, made, now, signed, released>>
      BY <1>4, <2>1 DEF GetAsking, NoAssertion, history
    <3>2. SlotsInv' /\ CountsUp
      BY <3>1, NoneSigned DEF SlotsInv
    <3>3. Candidates(req)' = Candidates(req)
      BY <3>1, SameCandidates
    <3>4. WaitingOK'
      BY <3>1, <3>3 DEF WaitingOK, NoPending, Nothing
    <3>5. QED
      BY <3>1, <3>2, <3>4 DEF PendingOK, RecentOK
  <2>2. CASE ~ PresenceOn
    <3>1. /\ Candidates(req) # <<>> /\ Answer(req, Candidates(req), FALSE)
          /\ waiting' = Nothing /\ now' = now
      BY <1>4, <2>2 DEF GetAsking
    <3>2. QED
      BY <3>1, AnswerStep, NobodyWaits
  <2>3. QED
    BY <2>1, <2>2
<1>5. CASE GetRejected
  <2>1. /\ pending' = NoPending /\ waiting' = Nothing
        /\ UNCHANGED <<slots, recent, made, now, signed, released>>
    BY <1>5 DEF GetRejected, NoAssertion, history
  <2>2. QED
    BY <2>1, NobodyWaits, NoneSigned DEF SlotsInv, PendingOK, RecentOK
<1>6. CASE GetConfirmed
  <2>1. waiting.req \in Requests /\ waiting.list = Candidates(waiting.req) /\ waiting.list # <<>>
    BY <1>6, WaitingProperty DEF GetConfirmed
  <2>2. /\ Answer(waiting.req, waiting.list, FALSE) /\ waiting' = Nothing /\ now' = now
    BY <1>6 DEF GetConfirmed
  <2>3. QED
    BY <2>1, <2>2, AnswerStep, NobodyWaits
<1>7. CASE PresenceTimeout
  <2>1. waiting' = Nothing /\ UNCHANGED <<slots, pending, recent, made, now, signed, released>>
    BY <1>7 DEF PresenceTimeout, NoAssertion, history
  <2>2. QED
    BY <2>1, NobodyWaits, NoneSigned DEF SlotsInv, PendingOK, RecentOK
<1>8. CASE GetNext
  <2>1. waiting' = Nothing /\ UNCHANGED <<recent, made, now>>
    BY <1>8 DEF GetNext
  <2>2. CASE ~ PendingCurrent
    <3>1. pending' = NoPending /\ UNCHANGED <<slots, signed, released>>
      BY <1>8, <2>2 DEF GetNext, NoAssertion, history
    <3>2. QED
      BY <2>1, <3>1, NobodyWaits, NoneSigned DEF SlotsInv, PendingOK, RecentOK
  <2>3. CASE PendingCurrent
    <3> DEFINE s == pending.list[pending.next + 1]
    <3>1. /\ pending \in Pendings
          /\ pending.list \in Seq(Slots) /\ Len(pending.list) <= PendingMax
          /\ pending.next \in 1 .. Len(pending.list) - 1
      BY <2>3, ActivePending DEF PendingCurrent
    <3>2. pending.next + 1 \in 1 .. Len(pending.list)
      BY <3>1
    <3>3. s \in Slots
      BY <3>1, <3>2, ElementOfSeq
    <3>4. \/ Respond(s) /\ Advance
          \/ RespondFails(s) /\ pending' = NoPending
      BY <1>8, <2>3 DEF GetNext
    <3> HIDE DEF s
    <3>5. SlotsInv' /\ CountsUp
      <4>1. CASE Respond(s)
        BY <2>1, <3>3, <4>1, RespondSlots
      <4>2. CASE RespondFails(s)
        BY <2>1, <3>3, <4>2, RespondFailsSlots, NoneSigned
      <4>3. QED
        BY <3>4, <4>1, <4>2
    <3>6. PendingOK'
      <4>1. CASE pending' = NoPending
        BY <4>1 DEF PendingOK
      <4>2. CASE pending.next + 1 < Len(pending.list) /\ Advance
        <5>1. pending' = [pending EXCEPT !.next = pending.next + 1, !.usedAt = now]
          BY <3>1, <4>2 DEF Advance
        <5>2. pending.next + 1 \in 1 .. Len(pending.list) - 1 /\ pending.next + 1 \in Nat
          BY <3>1, <4>2
        <5>3. /\ pending' \in Pendings
              /\ pending'.list = pending.list /\ pending'.next = pending.next + 1
          BY <3>1, <5>1, <5>2 DEF Pendings
        <5>4. QED
          BY <3>1, <5>2, <5>3 DEF PendingOK
      <4>3. QED
        BY <3>1, <3>4, <4>1, <4>2 DEF Advance
    <3>7. QED
      BY <2>1, <3>5, <3>6, NobodyWaits DEF RecentOK
  <2>4. QED
    BY <2>2, <2>3
<1>9. ASSUME NEW s \in Slots, Delete(s) PROVE SlotsInv' /\ CountsUp /\ CommandInv'
  <2>1. /\ slots' = [slots EXCEPT ![s] = Free] /\ waiting' = Nothing
        /\ UNCHANGED <<pending, recent, made, now, signed, released>>
    BY <1>9 DEF Delete, NoAssertion, history
  <2>2. slots \in [Slots -> Records] /\ Free \in Records
    BY RecordsProperty DEF SlotsInv
  <2>3. /\ slots' \in [Slots -> Records]
        /\ \A t \in Slots : slots'[t] = Free \/ slots'[t] = slots[t]
    BY <2>1, <2>2
  <2>4. SlotsInv'
    BY <2>1, <2>3, FreedSlots
  <2>5. QED
    BY <2>1, <2>4, NobodyWaits, NoneSigned DEF PendingOK, RecentOK
<1>10. CASE Clear
  <2>1. /\ slots' = [s \in Slots |-> Free] /\ waiting' = Nothing
        /\ UNCHANGED <<pending, recent, made, now, signed, released>>
    BY <1>10 DEF Clear, NoAssertion, history
  <2>2. /\ slots' \in [Slots -> Records] /\ \A s \in Slots : slots'[s] = Free
    BY <2>1, RecordsProperty
  <2>3. SlotsInv'
    BY <2>1, <2>2, FreedSlots
  <2>4. QED
    BY <2>1, <2>3, NobodyWaits, NoneSigned DEF PendingOK, RecentOK
<1>11. CASE PowerCycle
  <2>1. /\ pending' = NoPending /\ recent' = NoRecent /\ waiting' = Nothing /\ now' = 0
        /\ made' = made
    BY <1>11 DEF PowerCycle
  <2>2. SlotsInv' /\ CountsUp
    <3>1. CASE CountersPutBack
      BY <2>1, <3>1, PutBackSlots
    <3>2. CASE UNCHANGED <<slots, signed, released>>
      BY <2>1, <3>2, NoneSigned DEF SlotsInv
    <3>3. QED
      BY <1>11, <3>1, <3>2 DEF PowerCycle
  <2>3. QED
    BY <2>1, <2>2, NobodyWaits, ClockProperty DEF PendingOK, RecentOK
<1>12. CASE Tick
  <2>1. /\ now' = (now + 1) % ClockPeriod
        /\ UNCHANGED <<slots, pending, recent, waiting, made, signed, released>>
    BY <1>12 DEF Tick, code
  <2>2. now' \in 0 .. ClockPeriod - 1
    BY <2>1, ClockProperty
  <2>3. WaitingOK'
    <3>1. \A req \in Requests : Candidates(req)' = Candidates(req)
      BY <2>1, SameCandidates
    <3>2. QED
      BY <2>1, <3>1 DEF WaitingOK, NoPending, Nothing
  <2>4. QED
    BY <2>1, <2>2, <2>3, NoneSigned DEF SlotsInv, PendingOK, RecentOK
<1>13. CASE UNCHANGED vars
  <2>1. UNCHANGED <<slots, pending, recent, waiting, made, now, signed, released>>
    BY <1>13 DEF vars, code, history
  <2>2. WaitingOK'
    <3>1. \A req \in Requests : Candidates(req)' = Candidates(req)
      BY <2>1, SameCandidates
    <3>2. QED
      BY <2>1, <3>1 DEF WaitingOK, NoPending, Nothing
  <2>3. QED
    BY <2>1, <2>2, NoneSigned DEF SlotsInv, PendingOK, RecentOK
<1>14. QED
  BY <1>1, <1>2, <1>3, <1>4, <1>5, <1>6, <1>7, <1>8, <1>9, <1>10, <1>11, <1>12, <1>13 DEF Next

\* The variables have their types, and what is pending is a list of two or more of which
\* one is left, whatever the order of commands, timeouts, deletions and power cycles.
THEOREM WebAuthnTypeCorrect == Spec => []TypeOK
<1>1. Init => SlotsInv /\ CommandInv
  BY CodeInit
<1>2. (SlotsInv /\ CommandInv) /\ [Next]_vars => (SlotsInv /\ CommandInv)'
  BY CodeStep
<1>3. SlotsInv /\ CommandInv => TypeOK
  <2> SUFFICES ASSUME SlotsInv, CommandInv PROVE TypeOK
    OBVIOUS
  <2>1. pending = NoPending
          \/ /\ pending.active /\ pending.req \in Requests
             /\ pending.usedAt \in 0 .. ClockPeriod - 1
             /\ pending.list \in Seq(Slots) /\ Len(pending.list) <= PendingMax
             /\ pending.next \in 1 .. Len(pending.list) - 1
    <3>1. CASE pending = NoPending
      BY <3>1
    <3>2. CASE pending # NoPending
      <4>1. /\ pending \in Pendings /\ Len(pending.list) <= PendingMax
            /\ pending.next \in 1 .. Len(pending.list) - 1
        BY <3>2, Zenon DEF CommandInv, PendingOK
      <4>2. pending.active /\ pending.req \in Requests /\ pending.usedAt \in 0 .. ClockPeriod - 1
            /\ pending.list \in Seq(Slots)
        BY <4>1 DEF Pendings
      <4>3. QED
        BY <4>1, <4>2
    <3>3. QED
      BY <3>1, <3>2
  <2> HIDE DEF NoPending
  <2>2. recent = NoRecent \/ recent \in [active : {TRUE}, key : Requests, at : 0 .. ClockPeriod - 1]
    BY DEF CommandInv, RecentOK
  <2>3. /\ slots \in [Slots -> Records] /\ now \in 0 .. ClockPeriod - 1 /\ made \in 0 .. MaxMade
        /\ signed \in [Ids -> Nat] /\ released \in [Ids -> 0 .. MaxCount]
    BY DEF SlotsInv, CommandInv
  <2>4. QED
    BY <2>1, <2>2, <2>3, Zenon DEF TypeOK
<1>4. QED
  BY <1>1, <1>2, <1>3, PTL DEF Spec

\* The counters that a relying party sees of a credential go up with every assertion: the
\* counter of a slot is never behind the one released, and the number of a deleted
\* credential is not given again.  A power-up that puts the counter of the credential back
\* is the exception, and from then on it goes up again.
THEOREM CountsCorrect == Spec => CountsIncrease
<1>1. Init => SlotsInv /\ CommandInv
  BY CodeInit
<1>2. (SlotsInv /\ CommandInv) /\ [Next]_vars => (SlotsInv /\ CommandInv)'
  BY CodeStep
<1>3. (SlotsInv /\ CommandInv) /\ [Next]_vars =>
        [\A i \in Ids : signed'[i] > signed[i] => released'[i] > released[i]]_vars
  BY CodeStep DEF CountsUp
<1>4. QED
  BY <1>1, <1>2, <1>3, PTL DEF Spec, CountsIncrease

--------------------------------------------------------------------------------
(* What an enumeration delivers                                              *)

\* What getAssertion announced has no number twice; what was delivered is the beginning
\* of it.  While some of it is pending, the place in the list is the number delivered,
\* and the slots to come hold what was announced, or nothing.
ListInv ==
  /\ listed \in [announced : Seq(Ids), delivered : Seq(Ids)]
  /\ \A i, j \in 1 .. Len(listed.announced) : listed.announced[i] = listed.announced[j] => i = j
  /\ Len(listed.delivered) <= Len(listed.announced)
  /\ \A k \in 1 .. Len(listed.delivered) : listed.delivered[k] = listed.announced[k]
  /\ pending.active =>
       /\ Len(listed.announced) = Len(pending.list)
       /\ pending.next = Len(listed.delivered)
       /\ PendingIsCollected

LEMMA NoPendingActive == NoPending.active = FALSE
BY DEF NoPending

\* Nothing is announced or delivered, and nothing is pending any more.
LEMMA ListDropped ==
  ASSUME ListInv, listed' = listed, pending' = NoPending
  PROVE  ListInv'
BY NoPendingActive DEF ListInv

\* A power-up: nothing is announced, delivered or pending.
LEMMA ListForgotten ==
  ASSUME listed' = NoList, pending' = NoPending
  PROVE  ListInv'
<1>1. listed'.announced = <<>> /\ listed'.delivered = <<>>
  BY DEF NoList
<1>2. listed' \in [announced : Seq(Ids), delivered : Seq(Ids)] /\ Len(<<>>) = 0
  BY DEF NoList
<1>3. QED
  BY <1>1, <1>2, NoPendingActive DEF ListInv

\* Nothing is announced or delivered, and slots are freed at most.
LEMMA ListKept ==
  ASSUME ListInv, CommandInv, listed' = listed, pending' = pending,
         \A s \in Slots : slots'[s] = Free \/ slots'[s] = slots[s]
  PROVE  ListInv'
<1>1. pending.active => PendingIsCollected'
  <2> SUFFICES ASSUME pending.active, NEW k \in pending.next + 1 .. Len(pending.list)
               PROVE  \/ slots'[pending.list[k]] = Free
                      \/ slots'[pending.list[k]].id = listed.announced[k]
    BY DEF PendingIsCollected
  <2>1. pending.list \in Seq(Slots) /\ pending.next \in 1 .. Len(pending.list) - 1
    BY ActivePending DEF CommandInv
  <2>2. k \in 1 .. Len(pending.list)
    BY <2>1
  <2>3. pending.list[k] \in Slots
    BY <2>1, <2>2, ElementOfSeq
  <2>4. \/ slots[pending.list[k]] = Free
        \/ slots[pending.list[k]].id = listed.announced[k]
    BY DEF ListInv, PendingIsCollected
  <2>5. QED
    BY <2>3, <2>4
<1>2. QED
  BY <1>1 DEF ListInv

\* A getAssertion announces what it found, and delivers the first.
LEMMA ListAnnounced ==
  ASSUME ListInv, SlotsInv, CommandInv, NEW req \in Requests, Candidates(req) # <<>>,
         NEW reused, Answer(req, Candidates(req), reused), now' = now
  PROVE  ListInv'
<1> DEFINE list      == Candidates(req)
           first     == list[1]
           announced == [k \in 1 .. Len(list) |-> slots[list[k]].id]
<1>1. Proper(list)
  BY CandidatesProper
<1>2. first \in Slots /\ Len(list) \in Nat \ {0} /\ list \in Seq(Slots)
  BY <1>1, FirstOfList DEF Proper
<1> HIDE DEF list
<1>3. CASE pending' = NoPending /\ listed' = listed
  BY <1>3, ListDropped
<1>4. CASE /\ Respond(first) /\ Pend(req, list)
           /\ listed' = [announced |-> announced, delivered |-> <<slots[first].id>>]
  <2>1. \A k \in 1 .. Len(list) : /\ list[k] \in Slots /\ slots[list[k]] # Free
                                  /\ slots[list[k]].id \in Ids
    <3>1. \A k \in 1 .. Len(list) : list[k] \in Slots /\ slots[list[k]] # Free
      BY <1>1, <1>2, ElementOfSeq DEF Proper
    <3>2. QED
      BY <3>1, RecordsProperty DEF SlotsInv
  <2>2. announced \in Seq(Ids) /\ Len(announced) = Len(list)
    <3>1. announced \in [1 .. Len(list) -> Ids]
      BY <2>1
    <3> HIDE DEF announced
    <3>2. QED
      BY <1>2, <3>1
  <2>3. \A i, j \in 1 .. Len(list) : announced[i] = announced[j] => i = j
    <3> SUFFICES ASSUME NEW i \in 1 .. Len(list), NEW j \in 1 .. Len(list),
                        slots[list[i]].id = slots[list[j]].id
                 PROVE  i = j
      OBVIOUS
    <3>1. list[i] = list[j]
      BY <2>1 DEF SlotsInv
    <3>2. QED
      BY <1>1, <3>1 DEF Proper
  <2>4. 1 \in 1 .. Len(list) /\ announced[1] = slots[first].id /\ slots[first].id \in Ids
    <3>1. 1 \in 1 .. Len(list)
      BY <1>2
    <3>2. QED
      BY <2>1, <3>1
  <2> DEFINE delivered == <<slots[first].id>>
  <2>5. /\ delivered \in Seq(Ids) /\ Len(delivered) = 1 /\ delivered[1] = announced[1]
    <3> HIDE DEF announced, first
    <3>1. QED
      BY <2>4
  <2>6. listed'.announced = announced /\ listed'.delivered = delivered
    BY <1>4
  <2>7. listed' \in [announced : Seq(Ids), delivered : Seq(Ids)]
    BY <1>4, <2>2, <2>5
  <2>8. ASSUME pending'.active
        PROVE  /\ pending'.list = list /\ pending'.next = 1
               /\ PendingIsCollected'
    <3>1. pending' = [active |-> TRUE, req |-> req, list |-> list, next |-> 1, usedAt |-> now]
      BY <1>4, <2>8, NoPendingActive DEF Pend
    <3>2. pending'.list = list /\ pending'.next = 1
      BY <3>1
    <3>3. \A s \in Slots : slots'[s].id = slots[s].id
      BY <1>2, <1>4, RespondSlots, CountedSlots DEF Answer
    <3>4. ASSUME NEW k \in 2 .. Len(list)
          PROVE  slots'[list[k]].id = listed'.announced[k]
      <4>1. k \in 1 .. Len(list)
        BY <1>2
      <4>2. QED
        BY <2>1, <2>6, <3>3, <4>1
    <3>5. QED
      BY <3>2, <3>4 DEF PendingIsCollected
  <2> HIDE DEF announced, delivered, first
  <2>9. \A i, j \in 1 .. Len(listed'.announced) :
          listed'.announced[i] = listed'.announced[j] => i = j
    BY <2>2, <2>3, <2>6
  <2>10. /\ Len(listed'.delivered) <= Len(listed'.announced)
         /\ \A k \in 1 .. Len(listed'.delivered) : listed'.delivered[k] = listed'.announced[k]
    <3>1. \A k \in 1 .. 1 : k = 1
      OBVIOUS
    <3>2. \A k \in 1 .. Len(delivered) : delivered[k] = announced[k]
      BY <2>5, <3>1
    <3>3. Len(delivered) <= Len(announced)
      BY <1>2, <2>2, <2>5
    <3>4. QED
      BY <2>6, <3>2, <3>3
  <2>11. pending'.active => /\ Len(listed'.announced) = Len(pending'.list)
                            /\ pending'.next = Len(listed'.delivered)
                            /\ PendingIsCollected'
    BY <2>2, <2>5, <2>6, <2>8
  <2>12. QED
    BY <2>7, <2>9, <2>10, <2>11 DEF ListInv
<1>5. QED
  BY <1>3, <1>4 DEF Answer, list

\* A getNextAssertion delivers the next one announced.
LEMMA ListDelivered ==
  ASSUME ListInv, SlotsInv, CommandInv, PendingCurrent, made' = made,
         Respond(pending.list[pending.next + 1]), Advance,
         listed' = [listed EXCEPT !.delivered =
                      Append(@, slots[pending.list[pending.next + 1]].id)]
  PROVE  ListInv'
<1> DEFINE n  == pending.next + 1
           s  == pending.list[n]
           id == slots[s].id
           announced == listed.announced
           delivered == listed.delivered
<1>1. pending.active /\ pending \in Pendings
      /\ pending.list \in Seq(Slots) /\ pending.next \in 1 .. Len(pending.list) - 1
  BY ActivePending DEF PendingCurrent, CommandInv
<1>2. n \in 1 .. Len(pending.list) /\ n \in pending.next + 1 .. Len(pending.list)
  BY <1>1
<1>3. s \in Slots
  BY <1>1, <1>2, ElementOfSeq
<1>4. announced \in Seq(Ids) /\ delivered \in Seq(Ids)
      /\ Len(announced) = Len(pending.list) /\ pending.next = Len(delivered)
  BY <1>1 DEF ListInv
<1>5. slots[s] # Free /\ id \in Ids /\ id = announced[n]
  <2>1. slots[s] # Free
    BY DEF Respond
  <2>2. slots[s] = Free \/ slots[s].id = announced[n]
    BY <1>1, <1>2 DEF ListInv, PendingIsCollected
  <2>3. QED
    BY <1>3, <2>1, <2>2, RecordsProperty DEF SlotsInv
<1> HIDE DEF id, s
<1>6. /\ listed'.announced = announced /\ listed'.delivered = Append(delivered, id)
      /\ listed' \in [announced : Seq(Ids), delivered : Seq(Ids)]
  <2>1. listed \in [announced : Seq(Ids), delivered : Seq(Ids)]
    BY DEF ListInv
  <2>2. listed' = [listed EXCEPT !.delivered = Append(listed.delivered, id)]
    BY DEF s, id
  <2>3. Append(delivered, id) \in Seq(Ids)
    BY <1>4, <1>5
  <2>4. QED
    BY <2>1, <2>2, <2>3
<1> HIDE DEF announced, delivered
<1>7. /\ Len(listed'.delivered) = n /\ Len(listed'.delivered) <= Len(listed'.announced)
      /\ \A k \in 1 .. Len(listed'.delivered) : listed'.delivered[k] = listed'.announced[k]
  <2>1. \A k \in 1 .. Len(delivered) : delivered[k] = announced[k]
    BY DEF ListInv, delivered, announced
  <2>2. /\ Len(Append(delivered, id)) = Len(delivered) + 1
        /\ \A k \in 1 .. Len(delivered) : Append(delivered, id)[k] = delivered[k]
        /\ Append(delivered, id)[Len(delivered) + 1] = id
    BY <1>4, <1>5
  <2>3. Len(delivered) \in Nat /\ n = Len(delivered) + 1
    BY <1>4
  <2>4. \A k \in 1 .. n : k \in 1 .. Len(delivered) \/ k = n
    BY <2>3
  <2>5. \A k \in 1 .. n : Append(delivered, id)[k] = announced[k]
    BY <1>5, <2>1, <2>2, <2>3, <2>4
  <2>6. QED
    BY <1>2, <1>4, <1>6, <2>2, <2>3, <2>5
<1>8. ASSUME pending'.active
      PROVE  /\ pending'.list = pending.list /\ pending'.next = n
             /\ PendingIsCollected'
  <2>1. pending' = [pending EXCEPT !.next = @ + 1, !.usedAt = now]
    BY <1>8, NoPendingActive DEF Advance
  <2>2. pending'.list = pending.list /\ pending'.next = n
    BY <1>1, <2>1 DEF Pendings
  <2>3. \A t \in Slots : slots'[t].id = slots[t].id /\ (slots'[t] = Free <=> slots[t] = Free)
    BY <1>3, RespondSlots, CountedSlots DEF s
  <2>4. ASSUME NEW k \in n + 1 .. Len(pending.list)
        PROVE  slots'[pending.list[k]] = Free \/ slots'[pending.list[k]].id = announced[k]
    <3>1. k \in pending.next + 1 .. Len(pending.list) /\ k \in 1 .. Len(pending.list)
      BY <1>1
    <3>2. pending.list[k] \in Slots
      BY <1>1, <3>1, ElementOfSeq
    <3>3. slots[pending.list[k]] = Free \/ slots[pending.list[k]].id = announced[k]
      BY <1>1, <3>1 DEF ListInv, PendingIsCollected, announced
    <3>4. QED
      BY <2>3, <3>2, <3>3
  <2>5. QED
    BY <1>6, <2>2, <2>4 DEF PendingIsCollected
<1>9. \A i, j \in 1 .. Len(listed'.announced) :
        listed'.announced[i] = listed'.announced[j] => i = j
  BY <1>6 DEF ListInv, announced
<1>10. pending'.active => /\ Len(listed'.announced) = Len(pending'.list)
                          /\ pending'.next = Len(listed'.delivered)
                          /\ PendingIsCollected'
  BY <1>4, <1>6, <1>7, <1>8
<1>11. QED
  BY <1>6, <1>7, <1>9, <1>10 DEF ListInv

LEMMA ListInit == Init => ListInv
<1> SUFFICES ASSUME Init PROVE ListInv
  OBVIOUS
<1>1. listed = NoList /\ pending = NoPending
  BY DEF Init
<1>2. listed.announced = <<>> /\ listed.delivered = <<>>
  BY <1>1 DEF NoList
<1>3. listed \in [announced : Seq(Ids), delivered : Seq(Ids)] /\ Len(<<>>) = 0
  BY <1>1 DEF NoList
<1>4. QED
  BY <1>1, <1>2, <1>3, NoPendingActive DEF ListInv

LEMMA ListStep ==
  ASSUME ListInv, SlotsInv, CommandInv, [Next]_vars
  PROVE  ListInv'
<1> USE DEF CommandInv
<1>1. ASSUME NEW rp \in Rps, MakeCredential(rp) PROVE ListInv'
  BY <1>1, ListDropped DEF MakeCredential, NoAssertion, history
<1>2. CASE MakeConfirmed
  <2>1. pending' = NoPending /\ listed' = listed
    BY <1>2, WaitingProperty DEF MakeConfirmed, NoAssertion, history, Nothing
  <2>2. QED
    BY <2>1, ListDropped
<1>3. ASSUME NEW req \in Requests, GetReusing(req) PROVE ListInv'
  BY <1>3, ListAnnounced DEF GetReusing
<1>4. ASSUME NEW req \in Requests, GetAsking(req) PROVE ListInv'
  <2>1. CASE PresenceOn
    BY <1>4, <2>1, ListDropped DEF GetAsking, NoAssertion, history
  <2>2. CASE ~ PresenceOn
    BY <1>4, <2>2, ListAnnounced DEF GetAsking
  <2>3. QED
    BY <2>1, <2>2
<1>5. CASE GetRejected
  BY <1>5, ListDropped DEF GetRejected, NoAssertion, history
<1>6. CASE GetConfirmed
  <2>1. waiting.req \in Requests /\ waiting.list = Candidates(waiting.req) /\ waiting.list # <<>>
    BY <1>6, WaitingProperty DEF GetConfirmed
  <2>2. QED
    BY <1>6, <2>1, ListAnnounced DEF GetConfirmed
<1>7. CASE PresenceTimeout
  BY <1>7, ListKept DEF PresenceTimeout, NoAssertion, history
<1>8. CASE GetNext
  <2>1. \/ pending' = NoPending /\ listed' = listed
        \/ /\ PendingCurrent /\ made' = made
           /\ Respond(pending.list[pending.next + 1]) /\ Advance
           /\ listed' = [listed EXCEPT !.delivered =
                           Append(@, slots[pending.list[pending.next + 1]].id)]
    BY <1>8 DEF GetNext, NoAssertion, history
  <2>2. QED
    BY <2>1, ListDropped, ListDelivered
<1>9. ASSUME NEW s \in Slots, Delete(s) PROVE ListInv'
  <2>1. \A t \in Slots : slots'[t] = Free \/ slots'[t] = slots[t]
    BY <1>9 DEF Delete, SlotsInv
  <2>2. QED
    BY <1>9, <2>1, ListKept DEF Delete, NoAssertion, history
<1>10. CASE Clear
  BY <1>10, ListKept DEF Clear, NoAssertion, history
<1>11. CASE PowerCycle
  BY <1>11, ListForgotten DEF PowerCycle
<1>12. CASE Tick
  BY <1>12, ListKept DEF Tick, code
<1>13. CASE UNCHANGED vars
  BY <1>13, ListKept DEF vars, code, history
<1>14. QED
  BY <1>1, <1>2, <1>3, <1>4, <1>5, <1>6, <1>7, <1>8, <1>9, <1>10, <1>11, <1>12, <1>13 DEF Next

\* All of the state of an enumeration.
LEMMA EnumerationInvariant == Spec => [](SlotsInv /\ CommandInv /\ ListInv)
<1>1. Init => SlotsInv /\ CommandInv /\ ListInv
  BY CodeInit, ListInit
<1>2. (SlotsInv /\ CommandInv /\ ListInv) /\ [Next]_vars => (SlotsInv /\ CommandInv /\ ListInv)'
  BY CodeStep, ListStep
<1>3. QED
  BY <1>1, <1>2, PTL DEF Spec

\* Between getAssertion and getNextAssertion slots are deleted, cleared and used; the ones
\* still to be visited never come to hold another credential than the one announced.
THEOREM PendingCorrect == Spec => []PendingIsCollected
<1>1. ListInv => PendingIsCollected
  BY DEF ListInv, PendingIsCollected
<1>2. QED
  BY <1>1, EnumerationInvariant, PTL

\* The assertions of an enumeration are those announced, in their order and each once.
THEOREM EnumerationCorrect == Spec => []AssertionsEnumerate
<1>1. ListInv => AssertionsEnumerate
  <2> SUFFICES ASSUME ListInv PROVE AssertionsEnumerate
    OBVIOUS
  <2> DEFINE a == listed.announced
             d == listed.delivered
  <2>1. a \in Seq(Ids) /\ d \in Seq(Ids)
    BY DEF ListInv
  <2>2. Len(d) \in Nat /\ Len(a) \in Nat /\ Len(d) <= Len(a) /\ DOMAIN a = 1 .. Len(a)
    BY <2>1 DEF ListInv
  <2>3. IsInjective(a)
    BY <2>2 DEF ListInv, IsInjective
  <2>4. \A k \in 1 .. Len(d) : d[k] = a[k]
    BY DEF ListInv
  <2> HIDE DEF a, d
  <2>5. SubSeq(d, 1, Len(d)) = SubSeq(a, 1, Len(d))
    BY <2>1, <2>2, <2>4
  <2>6. IsPrefix(d, a)
    BY <2>2, <2>5 DEF IsPrefix
  <2>7. pending.active => pending.next = Len(d)
    BY DEF ListInv, d
  <2>8. QED
    BY <2>3, <2>6, <2>7 DEF AssertionsEnumerate, a, d
<1>2. QED
  BY <1>1, EnumerationInvariant, PTL

--------------------------------------------------------------------------------
(* Confirmations                                                             *)

\* The confirmation that is armed has served once, for the request that it is armed for,
\* and it is as old as the clock says, until the clock has gone all the way round.
GrantInv ==
  /\ grant \in [key : Requests \cup {Nothing}, age : 0 .. ClockPeriod, uses : Nat]
  /\ recent.active =>
       /\ recent.key = grant.key /\ grant.uses = 1
       /\ grant.age < ClockPeriod =>
            now \in {recent.at + grant.age, recent.at + grant.age - ClockPeriod}

\* A time that has passed on a clock that has not gone all the way round.
LEMMA SinceProperty ==
  ASSUME CommandInv, GrantInv, recent.active, grant.age < ClockPeriod
  PROVE  Since(recent.at) = grant.age
<1>1. /\ now \in Int /\ recent.at \in Int /\ grant.age \in 0 .. ClockPeriod - 1
      /\ ClockPeriod \in Nat \ {0}
  <2>1. recent # NoRecent
    BY DEF NoRecent
  <2>2. recent \in [active : {TRUE}, key : Requests, at : 0 .. ClockPeriod - 1]
    BY <2>1, Zenon DEF CommandInv, RecentOK
  <2>3. grant.age \in 0 .. ClockPeriod /\ now \in 0 .. ClockPeriod - 1
    BY DEF GrantInv, CommandInv
  <2>4. QED
    BY <2>2, <2>3, ClockProperty
<1>2. now - recent.at \in {grant.age, grant.age - ClockPeriod}
  BY <1>1 DEF GrantInv
<1>3. \A p \in Nat \ {0} : \A a \in 0 .. p - 1 : a % p = a /\ (a - p) % p = a
  OBVIOUS
<1>4. QED
  BY <1>1, <1>2, <1>3 DEF Since

\* What PresenceIsFresh says of a step.
ServesRetry ==
  grant'.uses > grant.uses /\ grant'.uses > 1
    => /\ grant'.uses = 2 /\ grant'.key = grant.key
       /\ grant.age <= ReuseWindow \/ grant.age = ClockPeriod

LEMMA NoRecentActive == NoRecent.active = FALSE
BY DEF NoRecent

\* A step that grants nothing, and that forgets what is armed or takes no time.
LEMMA GrantKept ==
  ASSUME GrantInv, grant' = grant,
         recent' = NoRecent \/ (recent' = recent /\ now' = now)
  PROVE  GrantInv' /\ ServesRetry
<1>1. grant.uses \in Nat
  BY DEF GrantInv
<1>2. ServesRetry
  BY <1>1 DEF ServesRetry
<1>3. GrantInv'
  BY NoRecentActive DEF GrantInv
<1>4. QED
  BY <1>2, <1>3

\* A power-up: nothing is granted or armed.
LEMMA GrantForgotten ==
  ASSUME GrantInv, grant' = NoGrant, recent' = NoRecent
  PROVE  GrantInv' /\ ServesRetry
<1>1. /\ NoGrant \in [key : Requests \cup {Nothing}, age : 0 .. ClockPeriod, uses : Nat]
      /\ NoGrant.uses = 0
  BY ClockProperty DEF NoGrant
<1>2. QED
  BY <1>1, NoRecentActive DEF GrantInv, ServesRetry

\* A confirmation that has just been given.
LEMMA GrantFresh ==
  ASSUME CommandInv, GrantInv, NEW req \in Requests, NEW list, now' = now,
         Answer(req, list, FALSE)
  PROVE  GrantInv' /\ ServesRetry
<1>1. CASE grant' = grant /\ recent' = recent
  BY <1>1, GrantKept
<1>2. CASE /\ recent' = [active |-> TRUE, key |-> req, at |-> now]
           /\ grant' = [key |-> req, age |-> 0, uses |-> 1]
  <2>1. /\ recent'.key = req /\ recent'.at = now
        /\ grant'.key = req /\ grant'.age = 0 /\ grant'.uses = 1
    BY <1>2
  <2>2. grant' \in [key : Requests \cup {Nothing}, age : 0 .. ClockPeriod, uses : Nat]
    BY <1>2, ClockProperty
  <2>3. now \in Int /\ now = now + 0
    BY ClockProperty DEF CommandInv
  <2>4. ServesRetry
    BY <2>1 DEF ServesRetry
  <2>5. GrantInv'
    BY <2>1, <2>2, <2>3 DEF GrantInv
  <2>6. QED
    BY <2>4, <2>5
<1>3. QED
  BY <1>1, <1>2 DEF Answer, Arm

\* An earlier confirmation that serves again.
LEMMA GrantReused ==
  ASSUME CommandInv, GrantInv, NEW req \in Requests, NEW list, Reusable(req),
         Answer(req, list, TRUE)
  PROVE  GrantInv' /\ ServesRetry
<1>1. recent' = NoRecent
  BY DEF Answer, Arm
<1>2. CASE grant' = grant
  BY <1>1, <1>2, GrantKept
<1>3. CASE grant' = [grant EXCEPT !.uses = @ + 1, !.key = req]
  <2>1. /\ grant \in [key : Requests \cup {Nothing}, age : 0 .. ClockPeriod, uses : Nat]
        /\ recent.active /\ Since(recent.at) <= ReuseWindow /\ recent.key = req
        /\ recent.key = grant.key /\ grant.uses = 1
    BY DEF GrantInv, Reusable
  <2>2. /\ grant' \in [key : Requests \cup {Nothing}, age : 0 .. ClockPeriod, uses : Nat]
        /\ grant'.uses = 2 /\ grant'.key = req
    <3> DEFINE keys == Requests \cup {Nothing}
    <3>1. req \in keys /\ grant \in [key : keys, age : 0 .. ClockPeriod, uses : Nat]
      BY <2>1
    <3>2. grant' = [grant EXCEPT !.uses = 2, !.key = req]
      BY <1>3, <2>1
    <3> HIDE DEF keys
    <3>3. grant' \in [key : keys, age : 0 .. ClockPeriod, uses : Nat]
          /\ grant'.uses = 2 /\ grant'.key = req
      BY <3>1, <3>2
    <3>4. QED
      BY <3>3 DEF keys
  <2>3. grant.age <= ReuseWindow \/ grant.age = ClockPeriod
    <3>1. grant.age < ClockPeriod => Since(recent.at) = grant.age
      BY <2>1, SinceProperty
    <3>2. grant.age \in 0 .. ClockPeriod /\ ClockPeriod \in Nat
      BY <2>1, ClockProperty
    <3>3. QED
      BY <2>1, <3>1, <3>2
  <2>4. ServesRetry
    BY <2>1, <2>2, <2>3 DEF ServesRetry
  <2>5. GrantInv'
    BY <1>1, <2>2, NoRecentActive DEF GrantInv
  <2>6. QED
    BY <2>4, <2>5
<1>4. QED
  BY <1>2, <1>3 DEF Answer

\* Time goes by.
LEMMA GrantAges ==
  ASSUME CommandInv, GrantInv, Tick
  PROVE  GrantInv' /\ ServesRetry
<1> DEFINE age == grant.age
           older == IF age < ClockPeriod THEN age + 1 ELSE age
<1>1. /\ grant \in [key : Requests \cup {Nothing}, age : 0 .. ClockPeriod, uses : Nat]
      /\ ClockPeriod \in Nat \ {0} /\ now \in 0 .. ClockPeriod - 1
  BY ClockProperty DEF GrantInv, CommandInv
<1>2. /\ grant' = [grant EXCEPT !.age = older]
      /\ recent' = recent /\ now' = (now + 1) % ClockPeriod
  BY DEF Tick, code
<1>3. older \in 0 .. ClockPeriod
  BY <1>1
<1> HIDE DEF older
<1>4. /\ grant' \in [key : Requests \cup {Nothing}, age : 0 .. ClockPeriod, uses : Nat]
      /\ grant'.age = older /\ grant'.key = grant.key /\ grant'.uses = grant.uses
  BY <1>1, <1>2, <1>3
<1>5. ServesRetry
  BY <1>1, <1>4 DEF ServesRetry
<1>6. ASSUME recent.active, older < ClockPeriod
      PROVE  now' \in {recent.at + older, recent.at + older - ClockPeriod}
  <2>1. age \in 0 .. ClockPeriod /\ recent.at \in 0 .. ClockPeriod - 1
    <3>1. recent # NoRecent
      BY <1>6, NoRecentActive
    <3>2. recent \in [active : {TRUE}, key : Requests, at : 0 .. ClockPeriod - 1]
      BY <3>1, Zenon DEF CommandInv, RecentOK
    <3>3. QED
      BY <1>1, <3>2
  <2>2. age < ClockPeriod /\ older = age + 1
    BY <1>1, <1>6, <2>1 DEF older
  <2>3. now = recent.at + age \/ now = recent.at + age - ClockPeriod
    BY <1>6, <2>2 DEF GrantInv
  <2>4. (now + 1) % ClockPeriod = IF now + 1 = ClockPeriod THEN 0 ELSE now + 1
    <3>1. \A p \in Nat \ {0} : \A t \in 0 .. p - 1 : (t + 1) % p = IF t + 1 = p THEN 0 ELSE t + 1
      OBVIOUS
    <3>2. QED
      BY <1>1, <3>1
  <2> HIDE DEF age
  <2>5. QED
    BY <1>1, <1>2, <1>6, <2>1, <2>2, <2>3, <2>4
<1>7. GrantInv'
  BY <1>2, <1>4, <1>6 DEF GrantInv
<1>8. QED
  BY <1>5, <1>7

LEMMA GrantStep ==
  ASSUME GrantInv, CommandInv, [Next]_vars
  PROVE  GrantInv' /\ ServesRetry
<1>1. ASSUME NEW rp \in Rps, MakeCredential(rp) PROVE GrantInv' /\ ServesRetry
  BY <1>1, GrantKept DEF MakeCredential, NoAssertion, history
<1>2. CASE MakeConfirmed
  BY <1>2, GrantKept DEF MakeConfirmed, NoAssertion, history
<1>3. ASSUME NEW req \in Requests, GetReusing(req) PROVE GrantInv' /\ ServesRetry
  BY <1>3, GrantReused DEF GetReusing
<1>4. ASSUME NEW req \in Requests, GetAsking(req) PROVE GrantInv' /\ ServesRetry
  <2>1. CASE PresenceOn
    <3>1. grant' = grant /\ now' = now /\ (recent' = NoRecent \/ recent' = recent)
      BY <1>4, <2>1 DEF GetAsking, NoAssertion, history
    <3>2. QED
      BY <3>1, GrantKept
  <2>2. CASE ~ PresenceOn
    BY <1>4, <2>2, GrantFresh DEF GetAsking
  <2>3. QED
    BY <2>1, <2>2
<1>5. CASE GetRejected
  BY <1>5, GrantKept DEF GetRejected, NoAssertion, history
<1>6. CASE GetConfirmed
  <2>1. waiting.req \in Requests
    BY <1>6, WaitingProperty DEF GetConfirmed, CommandInv
  <2>2. QED
    BY <1>6, <2>1, GrantFresh DEF GetConfirmed
<1>7. CASE PresenceTimeout
  BY <1>7, GrantKept DEF PresenceTimeout, NoAssertion, history
<1>8. CASE GetNext
  <2>1. grant' = grant /\ recent' = recent /\ now' = now
    BY <1>8 DEF GetNext, NoAssertion, history
  <2>2. QED
    BY <2>1, GrantKept
<1>9. ASSUME NEW s \in Slots, Delete(s) PROVE GrantInv' /\ ServesRetry
  BY <1>9, GrantKept DEF Delete, NoAssertion, history
<1>10. CASE Clear
  BY <1>10, GrantKept DEF Clear, NoAssertion, history
<1>11. CASE PowerCycle
  BY <1>11, GrantForgotten DEF PowerCycle
<1>12. CASE Tick
  BY <1>12, GrantAges
<1>13. CASE UNCHANGED vars
  BY <1>13, GrantKept DEF vars, code, history
<1>14. QED
  BY <1>1, <1>2, <1>3, <1>4, <1>5, <1>6, <1>7, <1>8, <1>9, <1>10, <1>11, <1>12, <1>13 DEF Next

\* A confirmation serves a second time only as a retry of the request that it was given
\* for, once, and within the reuse window as long as the clock can tell.
THEOREM PresenceCorrect == Spec => PresenceIsFresh
<1>1. Init => SlotsInv /\ CommandInv /\ GrantInv
  <2>1. Init => GrantInv
    BY ClockProperty, NoRecentActive DEF Init, GrantInv, NoGrant
  <2>2. QED
    BY <2>1, CodeInit
<1>2. (SlotsInv /\ CommandInv /\ GrantInv) /\ [Next]_vars
        => (SlotsInv /\ CommandInv /\ GrantInv)'
  BY CodeStep, GrantStep
<1>3. (SlotsInv /\ CommandInv /\ GrantInv) /\ [Next]_vars =>
        [grant'.uses > grant.uses /\ grant'.uses > 1
           => /\ grant'.uses = 2 /\ grant'.key = grant.key
              /\ grant.age <= ReuseWindow \/ grant.age = ClockPeriod]_vars
  BY GrantStep DEF ServesRetry
<1>4. QED
  BY <1>1, <1>2, <1>3, PTL DEF Spec, PresenceIsFresh

================================================================================
