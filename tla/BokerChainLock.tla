--------------------------- MODULE BokerChainLock ---------------------------
(***************************************************************************)
(* The ERC20 token with grants that unlock in periods                       *)
(* (contracts/src/erc20/BokerChainLock.sol).  A granted amount stays locked *)
(* and is released lazily: whenever its owner transfers or grants, the      *)
(* periods that have passed since the last release are released first.      *)
(***************************************************************************)
EXTENDS Integers, Sequences, FiniteSetsExt

CONSTANTS
    User,        \* the accounts
    Cfo,         \* the account that gets the supply
    Supply,      \* _totalSupply
    Month,       \* 30 days
    Amount,      \* the values transfers move
    Grant,       \* the grants that are made: value, duration (in months), periods
    MaxGrants,   \* bound: grants per account
    MaxTime      \* bound: the time

ASSUME CfoAssumption == Cfo \in User

ASSUME QuantityAssumption ==
    /\ Supply \in Nat /\ Month \in Nat \ {0}
    /\ Amount \subseteq Nat
    /\ \A g \in Grant : {g.value, g.duration, g.periods} \subseteq Nat

VARIABLES
    now,
    paused,
    known,       \* accounts with an index (_userArray)
    tokens,      \* UserToken.tokens
    locked       \* UserToken.lockedTokens

vars == <<now, paused, known, tokens, locked>>

-----------------------------------------------------------------------------
UnlockUnit(l) == l.total \div l.periods

PeriodDuration(l) == l.duration \div l.periods

\* The divisions of _checkUnlock revert the whole call when a divisor is zero.
Divides(l) ==
    l.balance > 0 =>
        l.periods > 0 /\ UnlockUnit(l) > 0 /\ PeriodDuration(l) > 0

PeriodsToUnlock(l) == (now - l.unlockLast) \div PeriodDuration(l)

\* The amount one locked entry releases now.
TokenToUnlock(l) ==
    LET unlockedPeriods == (l.total - l.balance) \div UnlockUnit(l)
        amount == IF unlockedPeriods + PeriodsToUnlock(l) >= l.periods
                  THEN l.balance
                  ELSE UnlockUnit(l) * PeriodsToUnlock(l)
    IN  IF amount >= l.balance THEN l.balance ELSE amount

\* Mutant of Unlocked: the release is dated now, not at the period's end.
UnlockedNow(l) ==
    IF l.balance = 0 \/ PeriodsToUnlock(l) = 0
    THEN l
    ELSE [l EXCEPT !.balance = @ - TokenToUnlock(l), !.unlockLast = now]

\* Mutant of Unlocked: one period is released, however many have passed.
UnlockedOne(l) ==
    IF l.balance = 0 \/ PeriodsToUnlock(l) = 0
    THEN l
    ELSE [l EXCEPT !.balance = IF @ < 2 * UnlockUnit(l) THEN 0 ELSE @ - UnlockUnit(l),
                   !.unlockLast = @ + PeriodDuration(l)]

\* One locked entry after _checkUnlock.
Unlocked(l) ==
    IF l.balance = 0 \/ PeriodsToUnlock(l) = 0
    THEN l
    ELSE [l EXCEPT !.balance = @ - TokenToUnlock(l),
                   !.unlockLast = @ + PeriodDuration(l) * PeriodsToUnlock(l)]

\* What _checkUnlock adds to the owner's free tokens for one locked entry.
Credit(l) == IF l.balance = 0 \/ PeriodsToUnlock(l) = 0 THEN 0 ELSE TokenToUnlock(l)

\* _checkUnlock: the entries and the free tokens of an account afterwards.
CheckedLocks(u) == IF u \in known THEN [i \in DOMAIN locked[u] |-> Unlocked(locked[u][i])] ELSE locked[u]

CheckedTokens(u) ==
    IF u \in known
    THEN tokens[u] + MapThenSumSet(LAMBDA i : Credit(locked[u][i]), DOMAIN locked[u])
    ELSE tokens[u]

CanCheck(u) == u \in known => \A i \in DOMAIN locked[u] : Divides(locked[u][i])

-----------------------------------------------------------------------------
\* transfer(_to, _value)
Transfer(from, to, value) ==
    /\ ~paused
    /\ from # to
    /\ CanCheck(from)
    /\ CheckedTokens(from) >= value
    /\ tokens' = [tokens EXCEPT ![from] = CheckedTokens(from) - value, ![to] = @ + value]
    /\ locked' = [locked EXCEPT ![from] = CheckedLocks(from)]
    /\ known' = known \union {to}
    /\ UNCHANGED <<now, paused>>

\* The entry a grant adds.  "since" is the time of the grant, which the
\* contract does not keep; only the properties read it.
NewLock(g) ==
    [total |-> g.value, duration |-> g.duration * Month, periods |-> g.periods,
     balance |-> g.value, unlockLast |-> now, since |-> now]

\* grant(_to, _value, _duration, _periods)
DoGrant(from, to, g) ==
    /\ ~paused
    /\ from # to
    /\ CanCheck(from)
    /\ CheckedTokens(from) >= g.value
    /\ Len(locked[to]) < MaxGrants
    /\ tokens' = [tokens EXCEPT ![from] = CheckedTokens(from) - g.value]
    /\ locked' = [locked EXCEPT ![from] = CheckedLocks(from), ![to] = Append(@, NewLock(g))]
    /\ known' = known \union {to}
    /\ UNCHANGED <<now, paused>>

\* pause, unpause
SetPaused ==
    /\ paused' = ~paused
    /\ UNCHANGED <<now, known, tokens, locked>>

Tick ==
    /\ now < MaxTime
    /\ now' = now + 1
    /\ UNCHANGED <<paused, known, tokens, locked>>

Init ==
    /\ now = 0
    /\ paused = FALSE
    /\ known = {Cfo}
    /\ tokens = [u \in User |-> IF u = Cfo THEN Supply ELSE 0]
    /\ locked = [u \in User |-> <<>>]

Next ==
    \/ \E from, to \in User :
         \/ \E v \in Amount : Transfer(from, to, v)
         \/ \E g \in Grant : DoGrant(from, to, g)
    \/ SetPaused
    \/ Tick

Spec == Init /\ [][Next]_vars

-----------------------------------------------------------------------------
\* What a grant has released k periods after it was made.
Schedule(l, k) == IF k >= l.periods THEN l.total ELSE k * UnlockUnit(l)

\* However often and whenever its owner's calls release a grant, what is
\* released is what the schedule of the grant says for the time of the last
\* release: releasing lazily, in several steps or at once makes no difference,
\* and the remainder of an uneven division comes out with the last period.
OnSchedule ==
    \A u \in User : \A i \in DOMAIN locked[u] :
        LET l == locked[u][i]
        IN  Divides([l EXCEPT !.balance = 1]) =>
              l.total - l.balance = Schedule(l, (l.unlockLast - l.since) \div PeriodDuration(l))

\* A call that spends releases first everything that is due: afterwards every
\* grant of the spender is either empty or less than a period behind.
ReleasedWhenSpent ==
    [][\A from, to \in User :
         ((\E v \in Amount : Transfer(from, to, v)) \/ (\E g \in Grant : DoGrant(from, to, g)))
            => \A i \in DOMAIN locked'[from] :
                 LET l == locked'[from][i]
                 IN  l.balance = 0 \/ now - l.unlockLast < PeriodDuration(l)]_vars

=============================================================================
