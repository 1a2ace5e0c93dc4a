------------------------- MODULE BokerChainLockProof ------------------------
(***************************************************************************)
(* Proofs about BokerChainLock, for every set of accounts and of grants:    *)
(* lazy release follows the schedule of the grant, and a call that spends   *)
(* leaves nothing of the spender's that is due.                             *)
(***************************************************************************)
EXTENDS BokerChainLock, TLAPS

LockedToken ==
    [total : Nat, duration : Nat, periods : Nat,
     balance : Nat, unlockLast : Nat, since : Nat]

TypeInv ==
    /\ now \in Nat
    /\ locked \in [User -> Seq(LockedToken)]

\* The divisions _checkUnlock makes for an entry that still holds tokens.
Divisible(l) == l.periods > 0 /\ UnlockUnit(l) > 0 /\ PeriodDuration(l) > 0

\* The last release of an entry is k whole periods after the grant, and the
\* entry has released what the schedule says for k periods.
ReleasedAt(l, k) ==
    /\ l.unlockLast = l.since + k * PeriodDuration(l)
    /\ l.balance = l.total - Schedule(l, k)

LockOnTime(l, t) ==
    /\ l.unlockLast <= t
    /\ Divisible(l) => \E k \in Nat : ReleasedAt(l, k)

LocksOnTime ==
    \A u \in User : \A i \in DOMAIN locked[u] : LockOnTime(locked[u][i], now)

\* Only an account with an index has entries: a grant adds the index.
LocksKnown == \A u \in User \ known : locked[u] = <<>>

LockInv == TypeInv /\ LocksOnTime /\ LocksKnown

-----------------------------------------------------------------------------
(* The arithmetic of the release, on whole numbers.                         *)

\* A product divided by one of its factors is the other factor.
LEMMA DivOfProduct ==
    ASSUME NEW k \in Nat, NEW d \in Nat \ {0}
    PROVE  (k * d) \div d = k
OBVIOUS

\* Whole parts of a positive size never exceed what is divided.
LEMMA PartsFit ==
    ASSUME NEW a \in Nat, NEW d \in Nat \ {0}
    PROVE  /\ a \div d \in Nat
           /\ (a \div d) * d <= a
           /\ a < (a \div d) * d + d
OBVIOUS

\* A product grows with its first factor.
LEMMA ProductGrows ==
    ASSUME NEW j \in Nat, NEW k \in Nat, NEW d \in Nat \ {0}, j < k
    PROVE  j * d < k * d /\ j * d \in Nat /\ k * d \in Nat
OBVIOUS

\* The sums of periods that a release adds distribute over their length.
LEMMA Distributes ==
    ASSUME NEW j \in Nat, NEW k \in Nat, NEW d \in Nat
    PROVE  (j + k) * d = j * d + k * d /\ d * k = k * d
OBVIOUS

-----------------------------------------------------------------------------
(* One entry under _checkUnlock.                                            *)

\* The periods since the last release are whole, reach no further than now,
\* and leave less than a period.
LEMMA PeriodsReach ==
    ASSUME now \in Nat, NEW l \in LockedToken, l.unlockLast <= now, Divisible(l)
    PROVE  /\ PeriodDuration(l) \in Nat \ {0}
           /\ PeriodsToUnlock(l) \in Nat
           /\ l.unlockLast + PeriodDuration(l) * PeriodsToUnlock(l) <= now
           /\ now - (l.unlockLast + PeriodDuration(l) * PeriodsToUnlock(l)) < PeriodDuration(l)
<1> DEFINE a == now - l.unlockLast
           d == PeriodDuration(l)
<1>1. l.unlockLast \in Nat /\ l.duration \in Nat /\ l.periods \in Nat \ {0}
  BY DEF LockedToken, Divisible
<1>2. a \in Nat
  BY <1>1
<1>3. d \in Nat \ {0}
  BY <1>1, PartsFit DEF Divisible, PeriodDuration
<1>4. PeriodsToUnlock(l) = a \div d
  BY DEF PeriodsToUnlock
<1> HIDE DEF a, d
<1>5. a \div d \in Nat /\ (a \div d) * d <= a /\ a < (a \div d) * d + d
  BY <1>2, <1>3, PartsFit
<1>6. d * (a \div d) = (a \div d) * d /\ (a \div d) * d \in Nat
  BY <1>3, <1>5
<1>7. a = now - l.unlockLast
  BY DEF a
<1>8. QED
  BY <1>1, <1>2, <1>3, <1>4, <1>5, <1>6, <1>7 DEF d

\* An entry that has released k periods' worth and has more to release gets
\* to k + q periods' worth, q the periods since the last release: whether they
\* are counted one by one or together, and whether or not the last is among
\* them.
LEMMA ReleaseAdds ==
    ASSUME now \in Nat, NEW l \in LockedToken, l.unlockLast <= now, Divisible(l),
           l.balance > 0, NEW k \in Nat, ReleasedAt(l, k)
    PROVE  /\ l.balance - TokenToUnlock(l) \in Nat
           /\ l.balance - TokenToUnlock(l) = l.total - Schedule(l, k + PeriodsToUnlock(l))
<1> DEFINE q == PeriodsToUnlock(l)
           t == UnlockUnit(l)
           p == l.periods
<1>1. l.total \in Nat /\ l.balance \in Nat /\ p \in Nat \ {0}
  BY DEF LockedToken, Divisible
<1>2. t \in Nat \ {0} /\ p * t <= l.total
  BY <1>1, PartsFit DEF Divisible, UnlockUnit
<1>3. q \in Nat
  BY PeriodsReach
<1>4. k < p /\ l.total - l.balance = k * t
  <2>1. k < p
    BY <1>1 DEF ReleasedAt, Schedule
  <2>2. k * t \in Nat
    BY <1>2
  <2>3. QED
    BY <1>1, <2>1, <2>2 DEF ReleasedAt, Schedule
<1>5. (l.total - l.balance) \div t = k
  BY <1>2, <1>4, DivOfProduct
<1>6. TokenToUnlock(l) = LET amount == IF k + q >= p THEN l.balance ELSE t * q
                         IN  IF amount >= l.balance THEN l.balance ELSE amount
  BY <1>5 DEF TokenToUnlock
<1>7. Schedule(l, k + q) = IF k + q >= p THEN l.total ELSE (k + q) * t
  BY DEF Schedule
<1> HIDE DEF q, t, p
<1>8. CASE k + q >= p
  BY <1>1, <1>6, <1>7, <1>8 DEF q
<1>9. CASE ~(k + q >= p)
  <2>1. k + q < p
    BY <1>1, <1>3, <1>9
  <2>2. (k + q) * t < p * t /\ (k + q) * t \in Nat
    BY <1>1, <1>2, <1>3, <2>1, ProductGrows
  <2>3. (k + q) * t = k * t + q * t /\ t * q = q * t /\ q * t \in Nat /\ k * t \in Nat
    BY <1>2, <1>3, Distributes
  <2>4. p * t \in Nat
    BY <1>1, <1>2
  <2>5. t * q < l.balance
    BY <1>1, <1>2, <1>4, <2>2, <2>3, <2>4
  <2>6. TokenToUnlock(l) = t * q
    BY <1>1, <1>6, <1>9, <2>3, <2>5
  <2>7. Schedule(l, k + q) = (k + q) * t
    BY <1>7, <1>9
  <2>8. QED
    BY <1>1, <1>4, <2>3, <2>5, <2>6, <2>7 DEF q
<1>10. QED
  BY <1>8, <1>9

\* What _checkUnlock makes of one entry: still an entry on its schedule, and
\* either empty or less than a period behind.
LEMMA UnlockedOnTime ==
    ASSUME now \in Nat, NEW l \in LockedToken, LockOnTime(l, now), Divides(l)
    PROVE  /\ Unlocked(l) \in LockedToken
           /\ LockOnTime(Unlocked(l), now)
           /\ \/ Unlocked(l).balance = 0
              \/ now - Unlocked(l).unlockLast < PeriodDuration(Unlocked(l))
<1>1. CASE l.balance = 0
  BY <1>1 DEF Unlocked
<1>2. CASE l.balance # 0
  <2>1. l.balance > 0 /\ Divisible(l)
    BY <1>2 DEF LockedToken, Divides, Divisible
  <2>2. l.unlockLast <= now
    BY DEF LockOnTime
  <2> DEFINE q == PeriodsToUnlock(l)
             d == PeriodDuration(l)
             r == l.balance - TokenToUnlock(l)
  <2>3. /\ d \in Nat \ {0} /\ q \in Nat
        /\ l.unlockLast + d * q <= now
        /\ now - (l.unlockLast + d * q) < d
    BY <2>1, <2>2, PeriodsReach
  <2>4. CASE q = 0
    <3>1. now - l.unlockLast < d
      BY <2>3, <2>4 DEF LockedToken
    <3>2. QED
      BY <2>4, <3>1 DEF Unlocked
  <2>5. CASE q # 0
    <3>1. PICK k \in Nat : ReleasedAt(l, k)
      BY <2>1 DEF LockOnTime
    <3>2. r \in Nat /\ r = l.total - Schedule(l, k + q)
      BY <2>1, <2>2, <3>1, ReleaseAdds
    <3>3. Unlocked(l) = [l EXCEPT !.balance = r, !.unlockLast = l.unlockLast + d * q]
      BY <1>2, <2>5 DEF Unlocked
    <3>4. d * q \in Nat /\ l.unlockLast + d * q \in Nat
      BY <2>3 DEF LockedToken
    <3> HIDE DEF q, d, r
    <3> DEFINE m == Unlocked(l)
    <3>5. /\ m \in LockedToken
          /\ m.total = l.total /\ m.periods = l.periods /\ m.duration = l.duration
          /\ m.since = l.since /\ m.balance = r /\ m.unlockLast = l.unlockLast + d * q
      <4> DEFINE e == l.unlockLast + d * q
      <4>1. e \in Nat /\ m = [l EXCEPT !.balance = r, !.unlockLast = e]
        BY <3>3, <3>4
      <4> HIDE DEF e, m
      <4>2. /\ m \in LockedToken
            /\ m.total = l.total /\ m.periods = l.periods /\ m.duration = l.duration
            /\ m.since = l.since /\ m.balance = r /\ m.unlockLast = e
        BY <3>2, <4>1 DEF LockedToken
      <4>3. QED
        BY <4>2 DEF e
    <3> HIDE DEF m
    <3>6. /\ UnlockUnit(m) = UnlockUnit(l)
          /\ PeriodDuration(m) = PeriodDuration(l)
          /\ Schedule(m, k + q) = Schedule(l, k + q)
      BY <3>5 DEF UnlockUnit, PeriodDuration, Schedule
    <3>7. l.unlockLast = l.since + k * d /\ l.since \in Nat
      BY <3>1 DEF ReleasedAt, d, LockedToken
    <3>8. m.unlockLast = m.since + (k + q) * d
      <4>1. (k + q) * d = k * d + q * d /\ d * q = q * d /\ k * d \in Nat
        BY <2>3, Distributes
      <4>2. QED
        BY <3>4, <3>5, <3>7, <4>1
    <3>9. ReleasedAt(m, k + q)
      BY <3>2, <3>5, <3>6, <3>8 DEF ReleasedAt, d
    <3>10. LockOnTime(m, now)
      BY <2>3, <3>5, <3>9 DEF LockOnTime
    <3>11. now - m.unlockLast < PeriodDuration(m)
      BY <2>3, <3>5, <3>6 DEF d
    <3>12. QED
      BY <3>5, <3>10, <3>11 DEF m
  <2>6. QED
    BY <2>4, <2>5
<1>3. QED
  BY <1>1, <1>2

-----------------------------------------------------------------------------
(* The steps.                                                               *)

\* _checkUnlock goes through every entry of the account.
LEMMA CheckedOnTime ==
    ASSUME LockInv, NEW u \in User, CanCheck(u)
    PROVE  /\ CheckedLocks(u) \in Seq(LockedToken)
           /\ \A i \in DOMAIN CheckedLocks(u) :
                LET l == CheckedLocks(u)[i]
                IN  /\ LockOnTime(l, now)
                    /\ l.balance = 0 \/ now - l.unlockLast < PeriodDuration(l)
<1>1. locked[u] \in Seq(LockedToken) /\ now \in Nat
  BY DEF LockInv, TypeInv
<1>2. CASE u \notin known
  <2>1. CheckedLocks(u) = <<>>
    BY <1>2 DEF CheckedLocks, LockInv, LocksKnown
  <2>2. QED
    BY <2>1
<1>3. CASE u \in known
  <2>1. CheckedLocks(u) = [i \in DOMAIN locked[u] |-> Unlocked(locked[u][i])]
    BY <1>3 DEF CheckedLocks
  <2>2. ASSUME NEW i \in DOMAIN locked[u]
        PROVE  LET l == Unlocked(locked[u][i])
               IN  /\ l \in LockedToken
                   /\ LockOnTime(l, now)
                   /\ l.balance = 0 \/ now - l.unlockLast < PeriodDuration(l)
    <3>1. locked[u][i] \in LockedToken
      BY <1>1
    <3>2. LockOnTime(locked[u][i], now) /\ Divides(locked[u][i])
      BY <1>3 DEF LockInv, LocksOnTime, CanCheck
    <3>3. QED
      BY <1>1, <3>1, <3>2, UnlockedOnTime
  <2>3. DOMAIN locked[u] = 1 .. Len(locked[u]) /\ Len(locked[u]) \in Nat
    BY <1>1
  <2>4. CheckedLocks(u) \in Seq(LockedToken)
    BY <2>1, <2>2, <2>3
  <2>5. QED
    BY <2>1, <2>2, <2>4
<1>4. QED
  BY <1>2, <1>3

\* An entry on its schedule stays there while time passes.
LEMMA OnTimeLater ==
    ASSUME NEW l \in LockedToken, NEW s \in Nat, NEW t \in Nat, s <= t, LockOnTime(l, s)
    PROVE  LockOnTime(l, t)
BY DEF LockOnTime, LockedToken

\* The entry a grant adds starts its schedule.
LEMMA NewOnTime ==
    ASSUME now \in Nat, NEW g \in Grant
    PROVE  NewLock(g) \in LockedToken /\ LockOnTime(NewLock(g), now)
<1>1. g.value \in Nat /\ g.duration \in Nat /\ g.periods \in Nat /\ Month \in Nat
  BY QuantityAssumption
<1>2. g.duration * Month \in Nat
  BY <1>1
<1> DEFINE l == NewLock(g)
           e == g.duration * Month
<1>3. l = [total |-> g.value, duration |-> e, periods |-> g.periods,
           balance |-> g.value, unlockLast |-> now, since |-> now]
  BY DEF NewLock
<1>4. e \in Nat
  BY <1>2
<1> HIDE DEF l, e
<1>5. l \in LockedToken
  BY <1>1, <1>3, <1>4 DEF LockedToken
<1>6. ASSUME Divisible(l) PROVE ReleasedAt(l, 0)
  <2>1. PeriodDuration(l) \in Nat /\ UnlockUnit(l) \in Nat /\ l.periods > 0
    BY <1>5, <1>6, PartsFit DEF Divisible, PeriodDuration, UnlockUnit, LockedToken
  <2>2. 0 * PeriodDuration(l) = 0 /\ 0 * UnlockUnit(l) = 0
    BY <2>1
  <2>3. Schedule(l, 0) = 0
    BY <1>5, <2>1, <2>2 DEF Schedule, LockedToken
  <2>4. l.balance = l.total /\ l.unlockLast = l.since /\ l.total \in Nat /\ l.since \in Nat
    BY <1>1, <1>3
  <2>5. QED
    BY <2>2, <2>3, <2>4 DEF ReleasedAt
<1>7. l.unlockLast <= now
  BY <1>3
<1>8. QED
  BY <1>5, <1>6, <1>7 DEF LockOnTime, l

\* A step that replaces the entries of one account by those _checkUnlock
\* leaves and may append one new entry to another keeps every entry on time.
LEMMA SpendKeeps ==
    ASSUME LockInv, NEW from \in User, NEW to \in User, from # to, CanCheck(from),
           now' = now, known' = known \union {to},
           \/ locked' = [locked EXCEPT ![from] = CheckedLocks(from)]
           \/ \E g \in Grant : locked' = [locked EXCEPT ![from] = CheckedLocks(from),
                                                        ![to] = Append(@, NewLock(g))]
    PROVE  LockInv'
<1>1. locked \in [User -> Seq(LockedToken)] /\ now \in Nat
  BY DEF LockInv, TypeInv
<1>2. /\ CheckedLocks(from) \in Seq(LockedToken)
      /\ \A i \in DOMAIN CheckedLocks(from) : LockOnTime(CheckedLocks(from)[i], now)
  BY CheckedOnTime
<1>3. ASSUME NEW u \in User
      PROVE  /\ locked'[u] \in Seq(LockedToken)
             /\ \A i \in DOMAIN locked'[u] : LockOnTime(locked'[u][i], now)
  <2>1. /\ locked[u] \in Seq(LockedToken)
        /\ \A i \in DOMAIN locked[u] : LockOnTime(locked[u][i], now)
    BY <1>1 DEF LockInv, LocksOnTime
  <2>2. CASE u = from
    <3>1. locked'[u] = CheckedLocks(from)
      BY <1>1, <2>2
    <3>2. QED
      BY <1>2, <3>1
  <2>3. CASE u # from /\ locked'[u] = locked[u]
    BY <2>1, <2>3
  <2>4. CASE u # from /\ locked'[u] # locked[u]
    <3>1. PICK g \in Grant : locked'[u] = Append(locked[u], NewLock(g))
      BY <1>1, <2>4
    <3> DEFINE n == NewLock(g)
               s == locked[u]
    <3>2. n \in LockedToken /\ LockOnTime(n, now)
      BY <1>1, NewOnTime
    <3> HIDE DEF n, s
    <3>3. s \in Seq(LockedToken) /\ \A i \in DOMAIN s : LockOnTime(s[i], now)
      BY <2>1 DEF s
    <3>4. /\ Append(s, n) \in Seq(LockedToken)
          /\ \A i \in DOMAIN Append(s, n) : LockOnTime(Append(s, n)[i], now)
      BY <3>2, <3>3
    <3>5. QED
      BY <3>1, <3>4 DEF n, s
  <2>5. QED
    BY <2>2, <2>3, <2>4
<1>4. TypeInv'
  <2>1. locked' = [u \in User |-> locked'[u]]
    BY <1>1
  <2>2. QED
    BY <1>1, <1>3, <2>1 DEF TypeInv
<1>5. LocksOnTime'
  BY <1>3 DEF LocksOnTime
<1>6. LocksKnown'
  <2>1. SUFFICES ASSUME NEW u \in User, u \notin known, u # to PROVE locked'[u] = <<>>
    BY DEF LocksKnown
  <2>2. locked[u] = <<>>
    BY <2>1 DEF LockInv, LocksKnown
  <2>3. u = from => CheckedLocks(u) = <<>>
    BY <2>1, <2>2 DEF CheckedLocks
  <2>4. QED
    BY <1>1, <2>1, <2>2, <2>3
<1>7. QED
  BY <1>4, <1>5, <1>6 DEF LockInv

\* Every call, a pause and the passing of time keep the invariant.
LEMMA LockStep == LockInv /\ [Next]_vars => LockInv'
<1> SUFFICES ASSUME LockInv, [Next]_vars PROVE LockInv'
  OBVIOUS
<1>1. ASSUME NEW from \in User, NEW to \in User, NEW v \in Amount, Transfer(from, to, v)
      PROVE  LockInv'
  BY <1>1, SpendKeeps DEF Transfer
<1>2. ASSUME NEW from \in User, NEW to \in User, NEW g \in Grant, DoGrant(from, to, g)
      PROVE  LockInv'
  <2>1. /\ from # to /\ CanCheck(from) /\ now' = now /\ known' = known \union {to}
        /\ locked' = [locked EXCEPT ![from] = CheckedLocks(from), ![to] = Append(@, NewLock(g))]
    BY <1>2 DEF DoGrant
  <2>2. QED
    BY <2>1, SpendKeeps
<1>3. CASE SetPaused \/ UNCHANGED vars
  BY <1>3 DEF SetPaused, vars, LockInv, TypeInv, LocksOnTime, LocksKnown
<1>4. CASE Tick
  <2>1. now \in Nat /\ now' = now + 1 /\ locked' = locked /\ known' = known
    BY <1>4 DEF Tick, LockInv, TypeInv
  <2>2. ASSUME NEW u \in User, NEW i \in DOMAIN locked[u]
        PROVE  LockOnTime(locked[u][i], now + 1)
    <3>1. locked[u][i] \in LockedToken
      BY DEF LockInv, TypeInv
    <3>2. LockOnTime(locked[u][i], now)
      BY DEF LockInv, LocksOnTime
    <3>3. QED
      BY <2>1, <3>1, <3>2, OnTimeLater
  <2>3. LocksOnTime'
    BY <2>1, <2>2 DEF LocksOnTime
  <2>4. QED
    BY <2>1, <2>3 DEF LockInv, TypeInv, LocksKnown
<1>5. QED
  BY <1>1, <1>2, <1>3, <1>4 DEF Next

\* The inductive invariant of the locked entries holds in every reachable
\* state.
THEOREM LocksCorrect == Spec => []LockInv
<1>1. Init => LockInv
  BY DEF Init, LockInv, TypeInv, LocksOnTime, LocksKnown
<1>2. QED
  BY <1>1, LockStep, PTL DEF Spec

\* However often and whenever _checkUnlock runs for a grant, what it has
\* released is what the schedule says for the time of its last release.
THEOREM AlwaysOnSchedule == Spec => []OnSchedule
<1>1. ASSUME LockInv, NEW u \in User, NEW i \in DOMAIN locked[u],
             Divides([locked[u][i] EXCEPT !.balance = 1])
      PROVE  LET l == locked[u][i]
             IN  l.total - l.balance = Schedule(l, (l.unlockLast - l.since) \div PeriodDuration(l))
  <2> DEFINE l == locked[u][i]
  <2>1. l \in LockedToken /\ LockOnTime(l, now)
    BY <1>1 DEF LockInv, TypeInv, LocksOnTime
  <2>2. Divides([l EXCEPT !.balance = 1])
    BY <1>1
  <2> HIDE DEF l
  <2>3. Divisible(l)
    BY <2>1, <2>2 DEF Divides, Divisible, UnlockUnit, PeriodDuration, LockedToken
  <2>4. PICK k \in Nat : ReleasedAt(l, k)
    BY <2>1, <2>3 DEF LockOnTime
  <2>5. PeriodDuration(l) \in Nat \ {0} /\ UnlockUnit(l) \in Nat
    BY <2>1, <2>3, PartsFit DEF Divisible, PeriodDuration, UnlockUnit, LockedToken
  <2>6. k * PeriodDuration(l) \in Nat /\ k * UnlockUnit(l) \in Nat
    BY <2>5
  <2>7. l.unlockLast - l.since = k * PeriodDuration(l)
    BY <2>1, <2>4, <2>6 DEF ReleasedAt, LockedToken
  <2>8. (l.unlockLast - l.since) \div PeriodDuration(l) = k
    BY <2>5, <2>7, DivOfProduct
  <2>9. Schedule(l, k) \in Int /\ l.total \in Nat
    BY <2>1, <2>6 DEF Schedule, LockedToken
  <2>10. l.total - l.balance = Schedule(l, k)
    BY <2>4, <2>9 DEF ReleasedAt
  <2>11. QED
    BY <2>8, <2>10 DEF l
<1>2. LockInv => OnSchedule
  BY <1>1 DEF OnSchedule
<1>3. QED
  BY <1>2, LocksCorrect, PTL

\* A transfer or a grant first releases everything that is due to the spender:
\* afterwards each of their grants is empty or less than a period behind.
THEOREM AlwaysReleased == Spec => ReleasedWhenSpent
<1> DEFINE Spends(from, to) ==
             (\E v \in Amount : Transfer(from, to, v)) \/ (\E g \in Grant : DoGrant(from, to, g))
           Released == \A from, to \in User : Spends(from, to) =>
             \A i \in DOMAIN locked'[from] :
               LET l == locked'[from][i]
               IN  l.balance = 0 \/ now - l.unlockLast < PeriodDuration(l)
<1>1. LockInv => Released
  <2>1. SUFFICES ASSUME LockInv, NEW from \in User, NEW to \in User, Spends(from, to),
                        NEW i \in DOMAIN locked'[from]
                 PROVE  LET l == locked'[from][i]
                        IN  l.balance = 0 \/ now - l.unlockLast < PeriodDuration(l)
    OBVIOUS
  <2>2. from # to /\ CanCheck(from)
    BY <2>1 DEF Transfer, DoGrant
  <2>3. locked'[from] = CheckedLocks(from)
    BY <2>1, <2>2 DEF Transfer, DoGrant, LockInv, TypeInv
  <2>4. QED
    BY <2>1, <2>2, <2>3, CheckedOnTime
<1>2. []LockInv => [][Released]_vars
  BY <1>1, PTL
<1>3. QED
  BY <1>2, LocksCorrect DEF ReleasedWhenSpent
=============================================================================
