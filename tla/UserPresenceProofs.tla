--------------------------- MODULE UserPresenceProofs ---------------------------
(***************************************************************************)
(* Theorems about UserPresence, for every set of configurations, every     *)
(* period of the clock and every delay between two polls.                  *)
(***************************************************************************)
EXTENDS UserPresence, SequenceTheorems, TLAPS

--------------------------------------------------------------------------------
(* The configuration                                                         *)

\* What the build and the store may name, and what may be in force.
ValidConfigs == {c \in Configs : c.valid}

LEMMA ConfigProperty ==
  /\ DefaultConfig \in ValidConfigs
  /\ \A c \in Configs : OrDefault(c) \in ValidConfigs
  /\ \A c \in ValidConfigs : c # NoConfig /\ OrDefault(c) = c
<1>1. DefaultConfig \in ValidConfigs
  BY ConstantsOK DEF ValidConfigs
<1>2. \A c \in Configs : OrDefault(c) \in ValidConfigs
  BY <1>1 DEF ValidConfigs, OrDefault
<1>3. \A c \in ValidConfigs : c # NoConfig
  <2>1. \A c \in ValidConfigs : c.source \in {"none", "bootsel", "gpio"}
    BY ConstantsOK, Zenon DEF ValidConfigs
  <2>2. NoConfig.source = "absent"
    BY DEF NoConfig
  <2>3. QED
    BY <2>1, <2>2
<1>4. \A c \in ValidConfigs : OrDefault(c) = c
  BY DEF ValidConfigs, OrDefault
<1>5. QED
  BY <1>1, <1>2, <1>3, <1>4

\* Where the store has refused nothing, its RAM image is the one in flash.
ConfigInv ==
  /\ flash \in Configs /\ storeRam \in Configs
  /\ persisted \in ValidConfigs /\ session \in ValidConfigs \cup {NoConfig}
  /\ refused \in BOOLEAN
  /\ cached = IF session = NoConfig THEN persisted ELSE session
  /\ pulled = IF cached.source = "gpio" THEN cached.pin ELSE NoPin
  /\ ~ refused => storeRam = flash /\ persisted = OrDefault(flash)

LEMMA ConfigInit == Init => ConfigInv
BY ConfigProperty DEF Init, ConfigInv

LEMMA ConfigStep ==
  ASSUME ConfigInv, [Next]_vars
  PROVE  ConfigInv'
<1>1. CASE Reload
  BY <1>1, ConfigProperty DEF Reload, Apply, Quiet, ConfigInv
<1>2. CASE Reboot
  BY <1>2, ConfigProperty DEF Reboot, Apply, ConfigInv
<1>3. CASE OtherCommit
  BY <1>3 DEF OtherCommit, ConfigInv
<1>4. CASE ClearSession
  BY <1>4 DEF ClearSession, Apply, ConfigInv
<1>5. ASSUME NEW c \in Configs, SetConfig(c) PROVE ConfigInv'
  <2>1. c \in ValidConfigs /\ OrDefault(c) = c
    BY <1>5, ConfigProperty DEF SetConfig, ValidConfigs
  <2>2. storeRam' = c /\ session' = session
    BY <1>5 DEF SetConfig
  <2>3. CASE refused' = TRUE /\ UNCHANGED <<flash, persisted, cached, pulled>>
    BY <2>2, <2>3 DEF ConfigInv
  <2>4. CASE flash' = c /\ persisted' = c /\ refused' = FALSE /\ Apply(session, c)
    BY <2>1, <2>2, <2>4, Zenon DEF Apply, ConfigInv
  <2>5. QED
    BY <1>5, <2>3, <2>4 DEF SetConfig
<1>6. ASSUME NEW c \in Configs, SetSession(c) PROVE ConfigInv'
  <2>1. c \in ValidConfigs /\ c # NoConfig
    BY <1>6, ConfigProperty DEF SetSession, ValidConfigs
  <2>2. QED
    BY <1>6, <2>1 DEF SetSession, Apply, ConfigInv
<1>7. CASE UNCHANGED <<config, refused>>
  BY <1>7 DEF config, ConfigInv
<1>8. QED
  BY <1>1, <1>2, <1>3, <1>4, <1>5, <1>6, <1>7 DEF Next, vars, BeginWait, Timeout, Poll

LEMMA ConfigInvariant == Spec => []ConfigInv
BY ConfigInit, ConfigStep, PTL DEF Spec

\* Whatever the order of reloads, commits that fail, overrides and power cycles, the
\* configuration in force is a valid one, it is the session's or else the persisted one,
\* and the pin that is pulled is the one it names.
THEOREM InForceCorrect == Spec => []InForce
<1>1. ConfigInv => InForce
  BY DEF ConfigInv, InForce, ValidConfigs
<1>2. QED
  BY <1>1, ConfigInvariant, PTL

\* What is reported as persisted is what a power cycle would find, as long as the store has
\* not refused a configuration since it was read.
THEOREM PersistedCorrect == Spec => []PersistedIsStored
<1>1. ConfigInv => PersistedIsStored
  BY DEF ConfigInv, PersistedIsStored
<1>2. QED
  BY <1>1, ConfigInvariant, PTL

--------------------------------------------------------------------------------
(* The wait                                                                  *)

Outcomes == {"none", "bypassed", "ok", "timeout"}

Waits == [on : BOOLEAN, start : 0 .. ClockPeriod - 1, last : BOOLEAN, armed : BOOLEAN,
          taps : Nat, first : 0 .. ClockPeriod - 1]
Views == [lapse : Nat, sample : BOOLEAN, presses : Seq(Nat), outcome : Outcomes]

\* The clock reads t when d ticks have passed since it read s.
After(s, d, t) == t = s + d \/ t = s + d - ClockPeriod

\* The time that has passed is what the clock says; taps_seen counts the last presses,
\* and first_tap is when the earliest of them was.  With two taps to make, a press that
\* does not count any more is too old for the next one.
PollInv ==
  /\ wait \in Waits /\ seen \in Views /\ now \in 0 .. ClockPeriod - 1
  /\ wait.on =>
       /\ seen.outcome = "none"
       /\ wait.last = seen.sample
       /\ ~ wait.armed => wait.last
       /\ seen.lapse < cached.timeout + MaxLag /\ After(wait.start, seen.lapse, now)
       /\ \A i \in 1 .. Len(seen.presses) : seen.presses[i] <= seen.lapse
       /\ wait.taps < cached.taps /\ wait.taps <= Len(seen.presses)
       /\ wait.taps > 0 =>
            After(wait.start, seen.presses[Len(seen.presses) - wait.taps + 1], wait.first)
       /\ cached.taps = 1 => seen.presses = <<>>
       /\ cached.taps = 2 =>
            /\ wait.taps = 0 /\ seen.presses # <<>>
                 => seen.lapse - seen.presses[Len(seen.presses)] > cached.window
            /\ Len(seen.presses) > 1
                 => seen.presses[Len(seen.presses)] - seen.presses[Len(seen.presses) - 1]
                      > cached.window

\* The numbers of the configuration in force.
LEMMA CachedProperty ==
  ASSUME ConfigInv
  PROVE  /\ cached \in Configs /\ cached.timeout \in Nat /\ cached.window \in Nat
         /\ cached.taps \in Nat \ {0} /\ cached.timeout + MaxLag < ClockPeriod
         /\ ClockPeriod \in Nat \ {0} /\ MaxLag \in Nat \ {0}
<1>1. cached \in ValidConfigs
  BY DEF ConfigInv
<1>2. QED
  BY <1>1, ConstantsOK, Zenon DEF ValidConfigs

\* Time that passes on a clock that wraps around.
LEMMA AfterProperty ==
  ASSUME ClockPeriod \in Nat \ {0},
         NEW s \in 0 .. ClockPeriod - 1, NEW t \in 0 .. ClockPeriod - 1,
         NEW u \in 0 .. ClockPeriod - 1,
         NEW d \in Nat, NEW e \in Nat, d < ClockPeriod, e <= d,
         After(s, d, t), After(s, e, u)
  PROVE  (t - u) % ClockPeriod = d - e
<1>1. t - u \in {d - e, d - e - ClockPeriod, d - e + ClockPeriod}
  BY DEF After
<1>2. \A p \in Nat \ {0} : \A a \in 0 .. p - 1 :
        a % p = a /\ (a - p) % p = a /\ (a + p) % p = a
  OBVIOUS
<1>3. d - e \in 0 .. ClockPeriod - 1
  OBVIOUS
<1>4. QED
  BY <1>1, <1>2, <1>3

LEMMA AfterNone == \A t \in Int : After(t, 0, t)
BY DEF After

LEMMA AfterLag ==
  ASSUME ClockPeriod \in Nat \ {0},
         NEW s \in 0 .. ClockPeriod - 1, NEW t \in 0 .. ClockPeriod - 1,
         NEW d \in Nat, NEW lag \in Nat, d + lag < ClockPeriod, After(s, d, t)
  PROVE  /\ (t + lag) % ClockPeriod \in 0 .. ClockPeriod - 1
         /\ After(s, d + lag, (t + lag) % ClockPeriod)
<1>1. \A p \in Nat \ {0} : \A a \in 0 .. p - 1 : a % p = a /\ (a + p) % p = a
  OBVIOUS
<1>2. (t + lag) % ClockPeriod = IF t + lag < ClockPeriod THEN t + lag ELSE t + lag - ClockPeriod
  <2>1. CASE t + lag < ClockPeriod
    <3> DEFINE a == t + lag
    <3>1. a \in 0 .. ClockPeriod - 1
      BY <2>1
    <3> HIDE DEF a
    <3>2. a % ClockPeriod = a
      BY <1>1, <3>1
    <3>3. QED
      BY <2>1, <3>2 DEF a
  <2>2. CASE ~ (t + lag < ClockPeriod)
    <3> DEFINE a == t + lag - ClockPeriod
    <3>1. a \in 0 .. ClockPeriod - 1 /\ a + ClockPeriod = t + lag
      BY <2>2
    <3> HIDE DEF a
    <3>2. (a + ClockPeriod) % ClockPeriod = a
      BY <1>1, <3>1
    <3>3. (t + lag) % ClockPeriod = a
      BY <3>1, <3>2
    <3>4. QED
      BY <2>2, <3>3 DEF a
  <2>3. QED
    BY <2>1, <2>2
<1>3. QED
  BY <1>2 DEF After

\* The first press that counts.
FirstPress == seen.presses[Len(seen.presses) - wait.taps + 1]

\* What the loop knows at its head.
LEMMA PollFacts ==
  ASSUME ConfigInv, PollInv, wait.on
  PROVE  /\ seen.lapse \in Nat /\ Since(wait.start) = seen.lapse
         /\ seen.lapse < ClockPeriod
         /\ seen.presses \in Seq(Nat) /\ Len(seen.presses) \in Nat
         /\ wait.taps \in 0 .. Len(seen.presses)
         /\ wait.taps > 0 => /\ FirstPress \in Nat
                             /\ Late <=> seen.lapse - FirstPress > cached.window
<1>1. /\ wait.start \in 0 .. ClockPeriod - 1 /\ wait.first \in 0 .. ClockPeriod - 1
      /\ wait.taps \in Nat
  BY DEF PollInv, Waits
<1>2. seen.lapse \in Nat /\ seen.presses \in Seq(Nat)
  BY DEF PollInv, Views
<1>3. /\ now \in 0 .. ClockPeriod - 1 /\ seen.lapse < cached.timeout + MaxLag
      /\ After(wait.start, seen.lapse, now) /\ wait.taps <= Len(seen.presses)
  BY DEF PollInv
<1>4. Len(seen.presses) \in Nat /\ wait.taps \in 0 .. Len(seen.presses)
  BY <1>1, <1>2, <1>3
<1>5. /\ cached.timeout \in Nat /\ cached.timeout + MaxLag < ClockPeriod
      /\ ClockPeriod \in Nat \ {0} /\ MaxLag \in Nat
  BY CachedProperty
<1>6. seen.lapse < ClockPeriod
  BY <1>2, <1>3, <1>5
<1>7. Since(wait.start) = seen.lapse
  <2>1. After(wait.start, 0, wait.start)
    BY <1>1, <1>5, AfterNone
  <2> DEFINE s == wait.start
             d == seen.lapse
  <2>2. /\ ClockPeriod \in Nat \ {0} /\ s \in 0 .. ClockPeriod - 1 /\ now \in 0 .. ClockPeriod - 1
        /\ d \in Nat /\ d < ClockPeriod /\ After(s, d, now) /\ After(s, 0, s)
    BY <1>1, <1>2, <1>3, <1>5, <1>6, <2>1
  <2> HIDE DEF s, d
  <2>3. 0 \in Nat /\ 0 <= d /\ d - 0 = d
    BY <2>2
  <2>4. (now - s) % ClockPeriod = d - 0
    BY <2>2, <2>3, AfterProperty
  <2>5. QED
    BY <2>3, <2>4 DEF Since, s, d
<1>8. ASSUME wait.taps > 0
      PROVE  FirstPress \in Nat /\ (Late <=> seen.lapse - FirstPress > cached.window)
  <2>1. Len(seen.presses) - wait.taps + 1 \in 1 .. Len(seen.presses)
    BY <1>4, <1>8
  <2>2. FirstPress \in Nat
    BY <1>2, <2>1, ElementOfSeq DEF FirstPress
  <2>3. FirstPress <= seen.lapse /\ After(wait.start, FirstPress, wait.first)
    BY <1>8, <2>1 DEF PollInv, FirstPress
  <2>4. Since(wait.first) = seen.lapse - FirstPress
    <3> DEFINE s == wait.start
               t == now
               u == wait.first
               d == seen.lapse
               e == FirstPress
    <3>1. /\ ClockPeriod \in Nat \ {0} /\ s \in 0 .. ClockPeriod - 1 /\ t \in 0 .. ClockPeriod - 1
          /\ u \in 0 .. ClockPeriod - 1 /\ d \in Nat /\ e \in Nat /\ d < ClockPeriod /\ e <= d
          /\ After(s, d, t) /\ After(s, e, u)
      BY <1>1, <1>2, <1>3, <1>5, <1>6, <2>2, <2>3
    <3>2. Since(wait.first) = (t - u) % ClockPeriod /\ seen.lapse - FirstPress = d - e
      BY DEF Since
    <3> HIDE DEF s, t, u, d, e
    <3>3. (t - u) % ClockPeriod = d - e
      BY <3>1, AfterProperty
    <3>4. QED
      BY <3>2, <3>3
  <2>5. QED
    BY <2>2, <2>4 DEF Late
<1>9. QED
  BY <1>2, <1>4, <1>6, <1>7, <1>8

\* A press is an edge: the loop samples what the observer samples.
LEMMA EdgeProperty ==
  ASSUME PollInv, wait.on, NEW down \in BOOLEAN
  PROVE  Edge(down) <=> down /\ ~ seen.sample
BY DEF PollInv, Edge

\* A poll that sees no press, or that sees one and waits for more.
PollOn(down, lag) ==
  /\ wait' = Continue(down)
  /\ now' = (now + lag) % ClockPeriod
  /\ seen' = [seen EXCEPT !.presses = IF Edge(down) THEN Append(@, seen.lapse) ELSE @,
                          !.sample = down, !.lapse = seen.lapse + lag]

\* What every poll keeps up that goes on.
LEMMA PollOnBasics ==
  ASSUME ConfigInv, PollInv, wait.on, InTime, NEW down \in BOOLEAN, NEW lag \in 1 .. MaxLag,
         PollOn(down, lag), UNCHANGED config, Taps(down) \in Nat
  PROVE  /\ wait' \in Waits /\ seen' \in Views /\ now' \in 0 .. ClockPeriod - 1
         /\ wait'.on /\ wait'.start = wait.start /\ wait'.taps = Taps(down)
         /\ seen'.outcome = "none" /\ wait'.last = seen'.sample /\ (~ wait'.armed => wait'.last)
         /\ seen'.lapse = seen.lapse + lag /\ seen'.lapse < cached.timeout + MaxLag
         /\ After(wait.start, seen'.lapse, now')
         /\ seen'.presses = IF Edge(down) THEN Append(seen.presses, seen.lapse) ELSE seen.presses
         /\ wait'.first = IF Edge(down) /\ Taps(down) = 1 THEN now ELSE wait.first
<1>1. /\ seen.lapse \in Nat /\ seen.lapse < cached.timeout /\ seen.presses \in Seq(Nat)
  BY PollFacts DEF InTime
<1>2. /\ wait \in Waits /\ seen \in Views /\ now \in 0 .. ClockPeriod - 1
      /\ seen.outcome = "none" /\ After(wait.start, seen.lapse, now)
  BY DEF PollInv
<1>3. /\ cached.timeout \in Nat /\ cached.timeout + MaxLag < ClockPeriod
      /\ ClockPeriod \in Nat \ {0} /\ MaxLag \in Nat \ {0}
  BY CachedProperty
<1>4. /\ lag \in Nat /\ seen.lapse + lag \in Nat /\ seen.lapse + lag < cached.timeout + MaxLag
      /\ seen.lapse + lag < ClockPeriod
  BY <1>1, <1>3
<1>5. now' \in 0 .. ClockPeriod - 1 /\ After(wait.start, seen.lapse + lag, now')
  <2>1. wait.start \in 0 .. ClockPeriod - 1
    BY <1>2 DEF Waits
  <2>2. QED
    BY <1>1, <1>2, <1>3, <1>4, <2>1, AfterLag DEF PollOn
<1> DEFINE presses == IF Edge(down) THEN Append(seen.presses, seen.lapse) ELSE seen.presses
           first   == IF Edge(down) /\ Taps(down) = 1 THEN now ELSE wait.first
           armed   == wait.armed \/ ~ down
           lapse   == seen.lapse + lag
<1>6. presses \in Seq(Nat)
  <2>1. Append(seen.presses, seen.lapse) \in Seq(Nat)
    BY <1>1
  <2>2. QED
    BY <1>1, <2>1, Zenon
<1>7. first \in 0 .. ClockPeriod - 1 /\ wait.start \in 0 .. ClockPeriod - 1 /\ armed \in BOOLEAN
  BY <1>2, Zenon DEF Waits
<1>8. /\ seen' = [seen EXCEPT !.presses = presses, !.sample = down, !.lapse = lapse]
      /\ wait' = [on |-> TRUE, start |-> wait.start, last |-> down, armed |-> armed,
                  taps |-> Taps(down), first |-> first]
  BY Zenon DEF PollOn, Continue
<1> HIDE DEF presses, first, armed, lapse
<1>9. /\ seen' \in Views /\ seen'.outcome = "none" /\ seen'.sample = down
      /\ seen'.lapse = lapse /\ seen'.presses = presses
  <2>1. lapse \in Nat
    BY <1>4 DEF lapse
  <2>2. QED
    BY <1>2, <1>6, <1>8, <2>1 DEF Views
<1>10. /\ wait' \in Waits /\ wait'.on /\ wait'.start = wait.start /\ wait'.last = down
       /\ wait'.armed = armed /\ wait'.taps = Taps(down) /\ wait'.first = first
  BY <1>7, <1>8 DEF Waits
<1>11. ~ wait'.armed => wait'.last
  BY <1>10 DEF armed
<1>12. lapse = seen.lapse + lag
  BY DEF lapse
<1>13. /\ seen'.lapse = seen.lapse + lag /\ seen'.lapse < cached.timeout + MaxLag
       /\ After(wait.start, seen'.lapse, now')
  BY <1>4, <1>5, <1>9, <1>12
<1>14. QED
  BY <1>5, <1>9, <1>10, <1>11, <1>13, Zenon DEF presses, first

\* The rest of what a poll keeps up, by what it has sampled.
LEMMA PollOnIdle ==
  ASSUME ConfigInv, PollInv, wait.on, InTime, NEW down \in BOOLEAN, NEW lag \in 1 .. MaxLag,
         PollOn(down, lag), UNCHANGED config, ~ Edge(down)
  PROVE  PollInv'
<1> DEFINE taps    == wait.taps
           presses == seen.presses
           n       == Len(seen.presses)
<1>1. /\ seen.lapse \in Nat /\ presses \in Seq(Nat) /\ n \in Nat /\ taps \in 0 .. n
      /\ taps > 0 => FirstPress \in Nat /\ (Late <=> seen.lapse - FirstPress > cached.window)
  BY PollFacts
<1>2. Taps(down) = IF Late THEN 0 ELSE taps
  BY DEF Taps
<1>3. Taps(down) \in Nat /\ Taps(down) \in {0, taps} /\ (Taps(down) = 0 => taps = 0 \/ Late)
  BY <1>1, <1>2
<1>4. /\ wait' \in Waits /\ seen' \in Views /\ now' \in 0 .. ClockPeriod - 1
      /\ wait'.on /\ wait'.start = wait.start /\ wait'.taps = Taps(down)
      /\ seen'.outcome = "none" /\ wait'.last = seen'.sample /\ (~ wait'.armed => wait'.last)
      /\ seen'.lapse = seen.lapse + lag /\ seen'.lapse < cached.timeout + MaxLag
      /\ After(wait.start, seen'.lapse, now')
      /\ seen'.presses = presses /\ wait'.first = wait.first
  BY <1>3, PollOnBasics, Zenon
<1>5. cached' = cached /\ cached.taps \in Nat \ {0} /\ cached.window \in Nat /\ lag \in Nat \ {0}
  BY CachedProperty DEF config
<1>6. /\ \A i \in 1 .. n : presses[i] <= seen.lapse
      /\ taps < cached.taps
      /\ taps > 0 => After(wait.start, presses[n - taps + 1], wait.first)
      /\ cached.taps = 1 => presses = <<>>
      /\ cached.taps = 2 => /\ taps = 0 /\ presses # <<>> => seen.lapse - presses[n] > cached.window
                            /\ n > 1 => presses[n] - presses[n - 1] > cached.window
  BY DEF PollInv
<1> HIDE DEF taps, presses, n
<1>7. \A i \in 1 .. n : presses[i] <= seen'.lapse
  <2>1. \A i \in 1 .. n : presses[i] \in Nat
    BY <1>1, ElementOfSeq DEF n, presses
  <2>2. QED
    BY <1>1, <1>4, <1>5, <1>6, <2>1
<1>8. /\ wait'.taps < cached.taps /\ wait'.taps <= n
      /\ wait'.taps > 0 => After(wait.start, presses[n - wait'.taps + 1], wait'.first)
  <2>1. CASE wait'.taps = 0
    BY <1>1, <1>5, <2>1
  <2>2. CASE wait'.taps = taps
    BY <1>1, <1>4, <1>6, <2>2
  <2>3. QED
    BY <1>3, <1>4, <2>1, <2>2
<1>9. ASSUME cached.taps = 2, wait'.taps = 0, presses # <<>>
      PROVE  seen'.lapse - presses[n] > cached.window
  <2>1. n \in 1 .. n /\ presses[n] \in Nat
    BY <1>1, <1>9, EmptySeq, ElementOfSeq DEF n, presses
  <2>2. CASE taps = 0
    BY <1>1, <1>4, <1>5, <1>6, <1>9, <2>1, <2>2
  <2>3. CASE taps > 0
    <3>1. taps = 1 /\ Late
      BY <1>1, <1>3, <1>4, <1>6, <1>9, <2>3
    <3>2. FirstPress = presses[n]
      BY <1>1, <3>1 DEF FirstPress, n, presses, taps
    <3>3. QED
      BY <1>1, <1>4, <1>5, <2>1, <2>3, <3>1, <3>2
  <2>4. QED
    BY <1>1, <2>2, <2>3
<1>10. QED
  BY <1>4, <1>5, <1>6, <1>7, <1>8, <1>9 DEF PollInv, n, presses

\* A press counts as the first when there is none to count from, or when it comes too
\* late for it.
LEMMA EdgeTaps ==
  ASSUME ConfigInv, PollInv, wait.on, NEW down \in BOOLEAN, Edge(down)
  PROVE  /\ Taps(down) \in 1 .. Len(seen.presses) + 1
         /\ \/ Taps(down) = 1 /\ (wait.taps = 0 \/ Late)
            \/ Taps(down) = wait.taps + 1 /\ wait.taps > 0 /\ ~ Late
<1>1. Len(seen.presses) \in Nat /\ wait.taps \in 0 .. Len(seen.presses)
  BY PollFacts
<1>2. \/ Taps(down) = 1 /\ (wait.taps = 0 \/ Late)
      \/ Taps(down) = wait.taps + 1 /\ wait.taps # 0 /\ ~ Late
  BY DEF Taps
<1>3. QED
  BY <1>1, <1>2

LEMMA PollOnEdge ==
  ASSUME ConfigInv, PollInv, wait.on, InTime, NEW down \in BOOLEAN, NEW lag \in 1 .. MaxLag,
         PollOn(down, lag), UNCHANGED config, Edge(down), Taps(down) < cached.taps
  PROVE  PollInv'
<1> DEFINE taps    == wait.taps
           presses == seen.presses
           n       == Len(seen.presses)
           lapse   == seen.lapse
           longer  == Append(seen.presses, seen.lapse)
<1>1. /\ lapse \in Nat /\ presses \in Seq(Nat) /\ n \in Nat /\ taps \in 0 .. n
      /\ taps > 0 => FirstPress \in Nat /\ (Late <=> lapse - FirstPress > cached.window)
  BY PollFacts
<1>2. /\ Taps(down) \in 1 .. n + 1
      /\ \/ Taps(down) = 1 /\ (taps = 0 \/ Late)
         \/ Taps(down) = taps + 1 /\ taps > 0 /\ ~ Late
  BY EdgeTaps
<1>3. /\ wait' \in Waits /\ seen' \in Views /\ now' \in 0 .. ClockPeriod - 1
      /\ wait'.on /\ wait'.start = wait.start /\ wait'.taps = Taps(down)
      /\ seen'.outcome = "none" /\ wait'.last = seen'.sample /\ (~ wait'.armed => wait'.last)
      /\ seen'.lapse = lapse + lag /\ seen'.lapse < cached.timeout + MaxLag
      /\ After(wait.start, seen'.lapse, now')
      /\ seen'.presses = longer
      /\ wait'.first = IF Taps(down) = 1 THEN now ELSE wait.first
  <2>1. Taps(down) \in Nat
    BY <1>1, <1>2
  <2>2. QED
    BY <2>1, PollOnBasics, Zenon
<1>4. cached' = cached /\ cached.taps \in Nat \ {0} /\ cached.window \in Nat /\ lag \in Nat \ {0}
  BY CachedProperty DEF config
<1>5. /\ \A i \in 1 .. n : presses[i] <= lapse
      /\ taps < cached.taps /\ After(wait.start, lapse, now)
      /\ taps > 0 => After(wait.start, presses[n - taps + 1], wait.first)
      /\ cached.taps = 2 => (taps = 0 /\ presses # <<>> => lapse - presses[n] > cached.window)
  BY DEF PollInv
<1>6. /\ longer \in Seq(Nat) /\ Len(longer) = n + 1 /\ longer[n + 1] = lapse
      /\ \A i \in 1 .. n : longer[i] = presses[i] /\ presses[i] \in Nat
  <2>1. \A i \in 1 .. n : presses[i] \in Nat
    BY <1>1, ElementOfSeq
  <2>2. QED
    BY <1>1, <2>1
<1>7. FirstPress = presses[n - taps + 1]
  BY DEF FirstPress
<1> HIDE DEF taps, presses, n, lapse, longer
<1>8. \A i \in 1 .. n + 1 : longer[i] <= seen'.lapse
  <2> SUFFICES ASSUME NEW i \in 1 .. n + 1 PROVE longer[i] <= lapse + lag
    BY <1>3
  <2>1. longer[i] \in Nat /\ longer[i] <= lapse
    <3>1. CASE i = n + 1
      BY <1>1, <1>6, <3>1
    <3>2. CASE i \in 1 .. n
      BY <1>5, <1>6, <3>2
    <3>3. QED
      BY <1>1, <3>1, <3>2
  <2>2. QED
    BY <1>1, <1>4, <2>1
<1>9. /\ wait'.taps < cached.taps /\ wait'.taps <= n + 1
      /\ After(wait.start, longer[n + 1 - wait'.taps + 1], wait'.first)
  <2>1. CASE Taps(down) = 1
    <3>1. wait'.first = now /\ longer[n + 1 - wait'.taps + 1] = lapse
      <4>1. n + 1 - 1 + 1 = n + 1
        BY <1>1
      <4>2. QED
        BY <1>3, <1>6, <2>1, <4>1
    <3>2. QED
      BY <1>1, <1>2, <1>3, <1>5, <2>1, <3>1
  <2>2. CASE Taps(down) # 1
    <3>1. Taps(down) = taps + 1 /\ taps > 0 /\ wait'.first = wait.first
      BY <1>2, <1>3, <2>2
    <3>2. n + 1 - wait'.taps + 1 = n - taps + 1 /\ n - taps + 1 \in 1 .. n
      BY <1>1, <1>3, <3>1
    <3>3. QED
      BY <1>1, <1>2, <1>3, <1>5, <1>6, <3>1, <3>2
  <2>3. QED
    BY <2>1, <2>2
<1>10. cached.taps # 1 /\ wait'.taps # 0
  BY <1>1, <1>2, <1>3, <1>4
<1>11. ASSUME cached.taps = 2, n + 1 > 1
       PROVE  longer[n + 1] - longer[n] > cached.window
  <2>1. n \in 1 .. n /\ longer[n] = presses[n] /\ presses[n] \in Nat /\ longer[n + 1] = lapse
    BY <1>1, <1>6, <1>11
  <2>2. presses # <<>>
    BY <1>1, <1>11, EmptySeq DEF n, presses
  <2>3. CASE taps = 0
    BY <1>5, <1>11, <2>1, <2>2, <2>3
  <2>4. CASE taps > 0
    <3>1. taps = 1 /\ Late
      BY <1>1, <1>2, <1>5, <1>11, <2>4
    <3>2. FirstPress = presses[n]
      BY <1>1, <1>7, <3>1
    <3>3. QED
      BY <1>1, <2>1, <3>1, <3>2
  <2>5. QED
    BY <1>1, <2>3, <2>4
<1>12. QED
  <2>1. n + 1 - 1 = n /\ Len(seen'.presses) = n + 1 /\ seen'.presses = longer
    BY <1>1, <1>3, <1>6
  <2>2. wait'.taps <= Len(seen'.presses) /\ wait'.taps < cached.taps
    BY <1>9, <2>1
  <2>3. After(wait'.start, seen'.presses[Len(seen'.presses) - wait'.taps + 1], wait'.first)
    <3>1. wait'.start = wait.start /\ After(wait.start, longer[n + 1 - wait'.taps + 1], wait'.first)
      BY <1>3, <1>9
    <3>2. Len(seen'.presses) = n + 1 /\ seen'.presses = longer
      BY <2>1
    <3> DEFINE p == seen'.presses
    <3>3. p = longer /\ Len(p) = n + 1
      BY <3>2
    <3> HIDE DEF p
    <3> DEFINE u == wait'.taps
               f == wait'.first
               s == wait'.start
    <3>4. s = wait.start /\ After(wait.start, longer[n + 1 - u + 1], f)
      BY <3>1
    <3>5. u \in Int
      <4>1. wait'.taps = Taps(down)
        BY <1>3
      <4>2. QED
        BY <1>2, <4>1
    <3> HIDE DEF u, f, s
    <3>6. Len(p) - u + 1 = n + 1 - u + 1
      BY <1>1, <3>3, <3>5
    <3>7. After(s, p[Len(p) - u + 1], f)
      BY <3>3, <3>4, <3>6, Zenon
    <3>8. QED
      BY <3>7 DEF p, u, f, s
  <2>4. \A i \in 1 .. Len(seen'.presses) : seen'.presses[i] <= seen'.lapse
    BY <1>8, <2>1
  <2>5. cached.taps = 2 /\ Len(seen'.presses) > 1
          => seen'.presses[Len(seen'.presses)] - seen'.presses[Len(seen'.presses) - 1] > cached.window
    <3> DEFINE p == seen'.presses
    <3>1. p = longer /\ Len(p) = n + 1 /\ n \in Nat
      BY <1>1, <2>1
    <3> HIDE DEF p
    <3>2. Len(p) - 1 = n
      BY <3>1
    <3>3. cached.taps = 2 /\ Len(p) > 1 => p[Len(p)] - p[Len(p) - 1] > cached.window
      BY <1>11, <3>1, <3>2, Zenon
    <3>4. QED
      BY <3>3 DEF p
  <2>6. QED
    BY <1>3, <1>4, <1>10, <2>2, <2>3, <2>4, <2>5, Zenon DEF PollInv

\* The press that confirms the request, as the observer sees it: the presses that the
\* loop has counted are the last ones, and the first of them is not too old.
LEMMA PressConfirms ==
  ASSUME ConfigInv, PollInv, wait.on, NEW down \in BOOLEAN, Edge(down),
         Taps(down) >= cached.taps, UNCHANGED config,
         seen' = [seen EXCEPT !.presses = Append(seen.presses, seen.lapse),
                              !.sample = down, !.outcome = "ok"]
  PROVE  seen' \in Views /\ Gesture(cached.taps)'
<1> DEFINE taps    == wait.taps
           presses == seen.presses
           n       == Len(seen.presses)
           lapse   == seen.lapse
           longer  == Append(seen.presses, seen.lapse)
<1>1. /\ lapse \in Nat /\ presses \in Seq(Nat) /\ n \in Nat /\ taps \in 0 .. n
      /\ taps > 0 => FirstPress \in Nat /\ (Late <=> lapse - FirstPress > cached.window)
  BY PollFacts
<1>2. \/ Taps(down) = 1 /\ (taps = 0 \/ Late)
      \/ Taps(down) = taps + 1 /\ taps > 0 /\ ~ Late
  BY EdgeTaps
<1>3. cached' = cached /\ cached.taps \in Nat \ {0} /\ cached.window \in Nat /\ taps < cached.taps
  BY CachedProperty DEF config, PollInv
<1>4. /\ longer \in Seq(Nat) /\ Len(longer) = n + 1 /\ longer[n + 1] = lapse
      /\ \A i \in 1 .. n : longer[i] = presses[i]
  BY <1>1
<1>5. FirstPress = presses[n - taps + 1] /\ seen \in Views
  BY DEF FirstPress, PollInv
<1> HIDE DEF taps, presses, n, lapse, longer
<1>6. seen' \in Views /\ seen'.presses = longer
  <2>1. seen' = [seen EXCEPT !.presses = longer, !.sample = down, !.outcome = "ok"]
    BY DEF longer
  <2>2. QED
    BY <1>4, <1>5, <2>1 DEF Views, Outcomes
<1>7. n + 1 >= cached.taps /\ longer[n + 1] - longer[n + 1 - cached.taps + 1] <= cached.window
  <2>1. CASE Taps(down) = 1 /\ (taps = 0 \/ Late)
    <3>1. cached.taps = 1
      BY <1>3, <2>1
    <3>2. n + 1 - cached.taps + 1 = n + 1
      BY <1>1, <3>1
    <3>3. QED
      BY <1>1, <1>3, <1>4, <3>1, <3>2
  <2>2. CASE Taps(down) = taps + 1 /\ taps > 0 /\ ~ Late
    <3>1. cached.taps = taps + 1
      BY <1>1, <1>3, <2>2
    <3>2. n + 1 - cached.taps + 1 = n - taps + 1 /\ n - taps + 1 \in 1 .. n
      BY <1>1, <2>2, <3>1
    <3>3. longer[n + 1 - cached.taps + 1] = FirstPress
      BY <1>4, <1>5, <3>2
    <3>4. lapse - FirstPress <= cached.window
      BY <1>1, <1>3, <2>2
    <3>5. QED
      BY <1>1, <1>4, <3>1, <3>3, <3>4
  <2>3. QED
    BY <1>2, <2>1, <2>2
<1>8. QED
  <2> DEFINE p == seen'.presses
  <2>1. p = longer /\ Len(p) = n + 1
    BY <1>4, <1>6
  <2> HIDE DEF p
  <2>2. Len(p) >= cached.taps /\ p[Len(p)] - p[Len(p) - cached.taps + 1] <= cached.window
    <3>1. Len(p) - cached.taps + 1 = n + 1 - cached.taps + 1
      BY <1>1, <1>3, <2>1
    <3>2. QED
      BY <1>7, <2>1, <3>1, Zenon
  <2>3. QED
    BY <1>3, <1>6, <2>2 DEF Gesture, p

\* A poll ends the wait with a gesture, or keeps the account of the presses.
LEMMA PollStep ==
  ASSUME ConfigInv, PollInv, Poll
  PROVE  PollInv' /\ (wait'.on \/ Gesture(cached.taps)')
<1>1. wait.on /\ InTime /\ UNCHANGED config
  BY DEF Poll
<1>2. PICK down \in BOOLEAN, lag \in 1 .. MaxLag :
        LET presses == IF down /\ ~ seen.sample THEN Append(seen.presses, seen.lapse)
                       ELSE seen.presses
        IN  IF Edge(down) /\ Taps(down) >= cached.taps
            THEN /\ wait' = NoWait /\ UNCHANGED now
                 /\ seen' = [seen EXCEPT !.presses = presses, !.sample = down, !.outcome = "ok"]
            ELSE /\ wait' = Continue(down)
                 /\ now' = (now + lag) % ClockPeriod
                 /\ seen' = [seen EXCEPT !.presses = presses, !.sample = down,
                                         !.lapse = Capped(@ + lag)]
  BY DEF Poll
<1> DEFINE presses == IF down /\ ~ seen.sample THEN Append(seen.presses, seen.lapse)
                      ELSE seen.presses
<1>3. presses = IF Edge(down) THEN Append(seen.presses, seen.lapse) ELSE seen.presses
  BY <1>1, EdgeProperty, Zenon
<1>4. Capped(seen.lapse + lag) = seen.lapse + lag
  <2>1. /\ seen.lapse \in Nat /\ seen.lapse < cached.timeout /\ cached.timeout \in Nat
        /\ cached.timeout + MaxLag < ClockPeriod /\ MaxLag \in Nat \ {0} /\ ClockPeriod \in Nat
    BY <1>1, PollFacts, CachedProperty DEF InTime
  <2>2. QED
    BY <2>1 DEF Capped
<1>5. CASE Edge(down) /\ Taps(down) >= cached.taps
  <2>1. /\ wait' = NoWait /\ now' = now
        /\ seen' = [seen EXCEPT !.presses = Append(seen.presses, seen.lapse),
                                !.sample = down, !.outcome = "ok"]
    BY <1>2, <1>3, <1>5, Zenon
  <2>2. seen' \in Views /\ Gesture(cached.taps)'
    BY <1>1, <1>5, <2>1, PressConfirms
  <2>3. NoWait \in Waits /\ NoWait.on = FALSE
    BY CachedProperty DEF NoWait, Waits
  <2>4. now' \in 0 .. ClockPeriod - 1 /\ wait' \in Waits /\ ~ wait'.on
    BY <2>1, <2>3 DEF PollInv
  <2>5. PollInv'
    BY <2>2, <2>4 DEF PollInv
  <2>6. QED
    BY <2>2, <2>5
<1>6. CASE ~ (Edge(down) /\ Taps(down) >= cached.taps)
  <2>1. PollOn(down, lag)
    BY <1>2, <1>3, <1>4, <1>6, Zenon DEF PollOn
  <2>2. wait'.on
    BY <2>1 DEF PollOn, Continue
  <2>3. CASE ~ Edge(down)
    BY <1>1, <2>1, <2>2, <2>3, PollOnIdle
  <2>4. CASE Edge(down) /\ ~ (Taps(down) >= cached.taps)
    <3>1. Taps(down) < cached.taps
      <4>1. Taps(down) \in 1 .. Len(seen.presses) + 1 /\ Len(seen.presses) \in Nat
        BY <1>1, <2>4, EdgeTaps, PollFacts
      <4>2. cached.taps \in Nat
        BY CachedProperty
      <4>3. QED
        BY <2>4, <4>1, <4>2
    <3>2. QED
      BY <1>1, <2>1, <2>2, <2>4, <3>1, PollOnEdge
  <2>5. QED
    BY <1>6, <2>3, <2>4
<1>7. QED
  BY <1>5, <1>6

LEMMA NoWaitProperty == NoWait \in Waits /\ NoWait.on = FALSE
BY ConstantsOK DEF NoWait, Waits

\* Outside of a wait the account of its presses is closed.
LEMMA NoWaitKeeps ==
  ASSUME wait' \in Waits, ~ wait'.on, seen' \in Views, now' \in 0 .. ClockPeriod - 1
  PROVE  PollInv'
BY DEF PollInv

LEMMA WaitInit == Init => PollInv
<1> SUFFICES ASSUME Init PROVE PollInv
  OBVIOUS
<1>1. wait \in Waits /\ ~ wait.on
  BY NoWaitProperty DEF Init
<1>2. seen \in Views
  BY DEF Init, Views, Outcomes
<1>3. now \in 0 .. ClockPeriod - 1
  BY ConstantsOK DEF Init
<1>4. QED
  BY <1>1, <1>2, <1>3 DEF PollInv

LEMMA BeginWaitStep ==
  ASSUME ConfigInv, PollInv, BeginWait
  PROVE  PollInv'
<1>1. now' \in 0 .. ClockPeriod - 1 /\ ~ wait.on /\ cached' = cached
  BY ConstantsOK DEF BeginWait, config
<1>2. CASE cached.source = "none"
  <2>1. /\ wait' = wait
        /\ seen' = [lapse |-> 0, sample |-> FALSE, presses |-> <<>>, outcome |-> "bypassed"]
    BY <1>2 DEF BeginWait
  <2>2. seen' \in Views
    BY <2>1 DEF Views, Outcomes
  <2>3. QED
    BY <1>1, <2>1, <2>2, NoWaitKeeps DEF PollInv
<1>3. ASSUME NEW down \in BOOLEAN, wait' = Entered(down),
             seen' = [lapse |-> 0, sample |-> down, presses |-> <<>>, outcome |-> "none"]
      PROVE  PollInv'
  <2>1. /\ wait' \in Waits /\ wait'.start = now' /\ wait'.last = down
        /\ wait'.armed = ~ down /\ wait'.taps = 0
    <3>1. wait' = [on |-> TRUE, start |-> now', last |-> down, armed |-> ~ down,
                   taps |-> 0, first |-> 0]
      BY <1>3 DEF Entered
    <3>2. 0 \in 0 .. ClockPeriod - 1
      BY CachedProperty
    <3>3. QED
      BY <1>1, <3>1, <3>2 DEF Waits
  <2>2. /\ seen' \in Views /\ seen'.lapse = 0 /\ seen'.sample = down
        /\ seen'.presses = <<>> /\ seen'.outcome = "none" /\ Len(<<>>) = 0
    BY <1>3 DEF Views, Outcomes
  <2>3. 0 < cached.timeout + MaxLag /\ 0 < cached.taps /\ 0 <= 0
    BY CachedProperty
  <2>4. After(now', 0, now')
    <3>1. now' \in Int
      BY <1>1, CachedProperty
    <3>2. QED
      BY <3>1, AfterNone
  <2>5. \A i \in 1 .. 0 : <<>>[i] <= 0
    OBVIOUS
  <2>6. ~ (0 > 0) /\ ~ (0 > 1) /\ 0 <= 0
    OBVIOUS
  <2>7. QED
    BY <1>1, <2>1, <2>2, <2>3, <2>4, <2>5, <2>6, Zenon DEF PollInv
<1>4. QED
  BY <1>2, <1>3 DEF BeginWait

LEMMA TimeoutStep ==
  ASSUME PollInv, Timeout
  PROVE  PollInv' /\ seen'.outcome = "timeout"
<1>1. seen \in Views /\ seen' = [seen EXCEPT !.outcome = "timeout"]
  BY DEF Timeout, PollInv
<1>2. seen' \in Views /\ seen'.outcome = "timeout"
  BY <1>1 DEF Views, Outcomes
<1>3. wait' \in Waits /\ ~ wait'.on /\ now' \in 0 .. ClockPeriod - 1
  BY NoWaitProperty DEF Timeout, PollInv
<1>4. QED
  BY <1>2, <1>3, NoWaitKeeps

\* A step keeps the account, and one that confirms a request does so for a gesture.
LEMMA WaitStep ==
  ASSUME ConfigInv, PollInv, [Next]_vars
  PROVE  /\ PollInv'
         /\ wait.on /\ ~ wait'.on /\ seen'.outcome = "ok" => Gesture(cached.taps)'
<1>1. CASE Quiet /\ ~ wait.on
  BY <1>1, NoWaitKeeps DEF Quiet, PollInv
<1>2. CASE Reload \/ OtherCommit \/ ClearSession
  BY <1>1, <1>2 DEF Reload, OtherCommit, ClearSession
<1>3. ASSUME NEW c \in Configs, SetConfig(c) \/ SetSession(c)
      PROVE  Quiet /\ ~ wait.on
  BY <1>3 DEF SetConfig, SetSession
<1>4. CASE Reboot
  <2>1. wait' = NoWait /\ seen' = seen /\ now' = now
    BY <1>4 DEF Reboot
  <2>2. wait' \in Waits /\ ~ wait'.on /\ seen' \in Views /\ now' \in 0 .. ClockPeriod - 1
    BY <2>1, NoWaitProperty DEF PollInv
  <2>3. wait.on => seen'.outcome = "none"
    BY <2>1 DEF PollInv
  <2>4. QED
    BY <2>2, <2>3, NoWaitKeeps
<1>5. CASE BeginWait
  BY <1>5, BeginWaitStep DEF BeginWait
<1>6. CASE Timeout
  BY <1>6, TimeoutStep
<1>7. CASE Poll
  BY <1>7, PollStep
<1>8. CASE UNCHANGED vars
  BY <1>8 DEF vars, config, PollInv
<1>9. QED
  BY <1>1, <1>2, <1>3, <1>4, <1>5, <1>6, <1>7, <1>8 DEF Next

LEMMA WaitInvariant == Spec => [](ConfigInv /\ PollInv)
<1>1. Init => ConfigInv /\ PollInv
  BY ConfigInit, WaitInit
<1>2. (ConfigInv /\ PollInv) /\ [Next]_vars => (ConfigInv /\ PollInv)'
  BY ConfigStep, WaitStep
<1>3. QED
  BY <1>1, <1>2, PTL DEF Spec

\* The types; and a wait lasts no longer than the timeout and one poll, with fewer taps
\* than the request needs, even on a clock that wraps around.
THEOREM PresenceTypeCorrect == Spec => []TypeOK
<1>1. ConfigInv /\ PollInv => TypeOK
  <2> SUFFICES ASSUME ConfigInv, PollInv PROVE TypeOK
    OBVIOUS
  <2>1. {flash, storeRam, persisted, cached} \subseteq Configs
    BY CachedProperty DEF ConfigInv, ValidConfigs
  <2>2. session \in Configs \cup {NoConfig} /\ refused \in BOOLEAN
    BY DEF ConfigInv, ValidConfigs
  <2>3. now \in 0 .. ClockPeriod - 1
    BY DEF PollInv
  <2>4. seen.outcome \in {"none", "bypassed", "ok", "timeout"}
    BY DEF PollInv, Views, Outcomes
  <2>5. ASSUME wait.on
        PROVE  wait.taps \in 0 .. cached.taps - 1 /\ seen.lapse < cached.timeout + MaxLag
    <3>1. /\ wait.taps \in Nat /\ wait.taps < cached.taps
          /\ seen.lapse < cached.timeout + MaxLag
      BY <2>5 DEF PollInv, Waits
    <3>2. cached.taps \in Nat
      BY CachedProperty
    <3>3. QED
      BY <3>1, <3>2
  <2>6. QED
    BY <2>1, <2>2, <2>3, <2>4, <2>5, Zenon DEF TypeOK
<1>2. QED
  BY <1>1, WaitInvariant, PTL

\* What confirms a request is the configured gesture, made while the request waited.
THEOREM ConfirmedCorrect == Spec => ConfirmedByGesture
<1>1. (ConfigInv /\ PollInv) /\ [Next]_vars =>
        [wait.on /\ ~ wait'.on /\ seen'.outcome = "ok" => Gesture(cached.taps)']_vars
  BY WaitStep
<1>2. QED
  BY <1>1, WaitInvariant, PTL DEF Spec, ConfirmedByGesture

\* With one tap or two to make, a request does not go on waiting once the gesture is made.
THEOREM GestureSeenCorrect == Spec => []GestureIsSeen
<1>1. ConfigInv /\ PollInv => GestureIsSeen
  <2> SUFFICES ASSUME ConfigInv, PollInv, wait.on, cached.taps <= 2, Gesture(cached.taps)
               PROVE  FALSE
    BY DEF GestureIsSeen
  <2> DEFINE p == seen.presses
             n == Len(seen.presses)
  <2>1. p \in Seq(Nat) /\ n \in Nat /\ cached.taps \in {1, 2} /\ cached.window \in Nat
    BY PollFacts, CachedProperty
  <2>2. n >= cached.taps /\ p[n] - p[n - cached.taps + 1] <= cached.window
    BY DEF Gesture
  <2>3. CASE cached.taps = 1
    <3>1. p = <<>>
      BY <2>3 DEF PollInv
    <3>2. n = 0
      BY <3>1
    <3> HIDE DEF n, p
    <3>3. QED
      BY <2>2, <2>3, <3>2
  <2>4. CASE cached.taps = 2
    <3>1. n > 1 => p[n] - p[n - 1] > cached.window
      BY <2>4 DEF PollInv
    <3> HIDE DEF n, p
    <3>2. n > 1 /\ n - cached.taps + 1 = n - 1 /\ n \in 1 .. n /\ n - 1 \in 1 .. n
      BY <2>1, <2>2, <2>4
    <3>3. p[n] \in Nat /\ p[n - 1] \in Nat
      BY <2>1, <3>2, ElementOfSeq DEF n, p
    <3>4. QED
      BY <2>1, <2>2, <3>1, <3>2, <3>3
  <2>5. QED
    BY <2>1, <2>3, <2>4
<1>2. QED
  BY <1>1, WaitInvariant, PTL

================================================================================
