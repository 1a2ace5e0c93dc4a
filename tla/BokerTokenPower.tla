-------------------------- MODULE BokerTokenPower --------------------------
(***************************************************************************)
(* Users' power and the assignment of tokens: BokerTokenPower, BokerUser,   *)
(* BokerUserData, BokerFile and BokerFileData (contracts/src).  User events *)
(* raise a user's longterm power once or add to what they watched and       *)
(* uploaded in the current cycle; at the end of a cycle assignToken turns   *)
(* the latter into shortterm power, shares tokens out by power and clears   *)
(* what belonged to the cycle.  A call that reverts is not a step.          *)
(***************************************************************************)
EXTENDS PowerTables, FiniteSets, FiniteSetsExt

CONSTANTS
    User,              \* the accounts that events name
    Files,             \* the files that events name
    Zero,              \* address(0), the owner fileOwnerGet names for an unknown file
    Finance,           \* the contract BokerFinance
    WatchTime,         \* the watch times events carry
    RegisterPowerAdd, InvitedPowerAdd, LoginDailyPowerAdd, CertificationPowerAdd,
    BindPower,         \* bindWalletGetPower of the application in use
    AssignTokenPerCycle, PowerWatchOwnerRatio, AssignTokenLongtermRatio,
    Day, TimeZone,     \* the length of a day, and where it begins
    Budget,            \* the tokens of BokerFinance
    MaxEvents,         \* bound: user events
    MaxTime            \* bound: the time

ASSUME PowerAssumption ==
    /\ Zero \notin User /\ Finance \notin User \union {Zero}
    /\ {RegisterPowerAdd, InvitedPowerAdd, LoginDailyPowerAdd, CertificationPowerAdd,
        BindPower, AssignTokenPerCycle, Budget} \subseteq Nat
    /\ Day \in Nat \ {0} /\ TimeZone \in 0 .. Day - 1
    /\ {PowerWatchOwnerRatio, AssignTokenLongtermRatio} \subseteq 0 .. 100
    /\ WatchTime \subseteq Nat

VARIABLES
    now,
    known,             \* userArray; no step depends on its order
    user,              \* BokerUserData.users
    file,              \* BokerFileData.mapId2File: whether its fileId is set, and the owner
    balance,           \* of the accounts, in granted tokens, and of BokerFinance
    assignCycleBegin,
    history,           \* what only the properties read: days with a login, being
                       \* invited, and the time watched in this cycle
    events

vars == <<now, known, user, file, balance, assignCycleBegin, history, events>>

Account == User \union {Zero}

\* A user without a record.
NoUser == [registered |-> FALSE, certified |-> FALSE, bound |-> FALSE, lastLogin |-> 0,
           friends |-> 0, longterm |-> 0, shortterm |-> 0,
           watchFiles |-> <<>>, watchTime |-> [f \in Files |-> 0], uploads |-> 0]

NoHistory == [logins |-> {}, invited |-> FALSE, watched |-> 0]

\* An event takes no time and moves no tokens.
Event ==
    /\ events < MaxEvents
    /\ events' = events + 1
    /\ UNCHANGED <<now, balance, assignCycleBegin>>

-----------------------------------------------------------------------------
\* Mutant of InvitorPowerAdd: every friend brings the same.
InvitorPowerAddFlat(friends) == 2

\* The invitor gets two more than for the friend before.
InvitorPowerAdd(friends) == 2 * (friends + 1)

\* _onUserEventRegister: the invitor counts if there is one and it is someone
\* else, registered or not.
Register(u, invitor) ==
    /\ Event
    /\ ~user[u].registered
    /\ LET invites == invitor \notin {Zero, u}
           own == RegisterPowerAdd + (IF invites THEN InvitedPowerAdd ELSE 0)
           registered == [user EXCEPT ![u].registered = TRUE, ![u].longterm = @ + own]
       IN  /\ user' = IF invites
                      THEN [registered EXCEPT
                              ![invitor].longterm = @ + InvitorPowerAdd(user[invitor].friends),
                              ![invitor].friends = @ + 1]
                      ELSE registered
           /\ known' = known \union {u} \union (IF invites THEN {invitor} ELSE {})
           /\ history' = [history EXCEPT ![u].invited = invites]
    /\ UNCHANGED file

\* An event that changes the record of u and nothing else.
SetUser(u, record) ==
    /\ user' = [user EXCEPT ![u] = record]
    /\ known' = known \union {u}
    /\ UNCHANGED file

DayOf(t) == (t + TimeZone) \div Day

\* _onUserEventLoginDaily
LoginDaily(u) ==
    /\ Event
    /\ DayOf(now) # DayOf(user[u].lastLogin)
    /\ SetUser(u, [user[u] EXCEPT !.longterm = @ + LoginDailyPowerAdd, !.lastLogin = now])
    /\ history' = [history EXCEPT ![u].logins = @ \union {DayOf(now)}]

\* _onUserEventBindWallet
BindWallet(u) ==
    /\ Event
    /\ ~user[u].bound
    /\ SetUser(u, [user[u] EXCEPT !.longterm = @ + BindPower, !.bound = TRUE])
    /\ UNCHANGED history

\* _onUserEventCertification
Certification(u) ==
    /\ Event
    /\ ~user[u].certified
    /\ SetUser(u, [user[u] EXCEPT !.longterm = @ + CertificationPowerAdd, !.certified = TRUE])
    /\ UNCHANGED history

\* _onUserEventUpload
Upload(u) ==
    /\ Event
    /\ SetUser(u, [user[u] EXCEPT !.uploads = @ + 1])
    /\ UNCHANGED history

\* addFile: the first owner stays, also for a file that was watched before;
\* nothing checks that the owner is not address(0).
AddFile(owner, f) ==
    /\ Event
    /\ ~file[f].added
    /\ file' = [file EXCEPT ![f] = [added |-> TRUE, owner |-> owner]]
    /\ UNCHANGED <<known, user, history>>

\* fileOwnerGet
FileOwner(f) == IF file[f].added THEN file[f].owner ELSE Zero

\* addUserWatchTime: the file is listed while its stored time is still zero.
AddUserWatchTime(r, f, t) ==
    [r EXCEPT !.watchFiles = IF r.watchTime[f] = 0 THEN Append(@, f) ELSE @,
              !.watchTime[f] = @ + t]

\* _onUserEventWatch
Watch(u, f, t) ==
    /\ Event
    /\ SetUser(u, AddUserWatchTime(user[u], f, t))
    /\ history' = [history EXCEPT ![u].watched = @ + t]

-----------------------------------------------------------------------------
(* assignToken *)

SumOver(S, f(_)) == MapThenSumSet(f, S)

AssignCycleIsEnd == assignCycleBegin + AssignPeriod <= now

\* getUserWatchTime: the sum over the listed files, as often as they are listed.
WatchTotal(u) ==
    SumOver(DOMAIN user[u].watchFiles, LAMBDA i : user[u].watchTime[user[u].watchFiles[i]])


\* _calculateWatchPower: the part of one listed file ...
PowerFile(u, i) ==
    (user[u].watchTime[user[u].watchFiles[i]] * WatchGetPower(WatchTotal(u))) \div WatchTotal(u)

\* ... and of that the part of the file's owner.
PowerOwner(u, i) == (PowerFile(u, i) * PowerWatchOwnerRatio) \div 100

\* The places of u's list with a file of a.
Owned(u, a) == {i \in DOMAIN user[u].watchFiles : FileOwner(user[u].watchFiles[i]) = a}

PowerWatcher(u) ==
    SumOver(DOMAIN user[u].watchFiles, LAMBDA i : PowerFile(u, i) - PowerOwner(u, i))

\* _calculateUserPower over the users known before it: what increaseUserShorttermPower
\* adds to an account, as owner, watcher and uploader.
PowerAdded(a) ==
    SumOver(known, LAMBDA u : SumOver(Owned(u, a), LAMBDA i : PowerOwner(u, i)))
      + (IF a \in known THEN PowerWatcher(a) + UploadGetPower(user[a].uploads) ELSE 0)

\* The records and the users it leaves: an owner who gains power becomes known.
Calculated ==
    LET added == [a \in Account |-> PowerAdded(a)]
    IN  [users |-> [a \in Account |-> [user[a] EXCEPT !.shortterm = @ + added[a]]],
         known |-> known \union {a \in Account : added[a] > 0}]

\* Mutant of TokensToAssign: the balance of BokerFinance is not looked at.
TokensToAssignAll == AssignTokenPerCycle

\* _assignTokensGet
TokensToAssign == Least(balance[Finance], AssignTokenPerCycle)

LongtermTokens == (TokensToAssign * AssignTokenLongtermRatio) \div 100

Part(tokens, power, total) == IF total > 0 THEN (tokens * power) \div total ELSE 0

\* The tokens that _assignToken gives a user, by the totals of _userPowerGet.
TokensAssigned(calc) ==
    LET longTotal == SumOver(calc.known, LAMBDA a : calc.users[a].longterm)
        shortTotal == SumOver(calc.known, LAMBDA a : calc.users[a].shortterm)
    IN  [a \in calc.known |->
           Part(LongtermTokens, calc.users[a].longterm, longTotal)
             + Part(TokensToAssign - LongtermTokens, calc.users[a].shortterm, shortTotal)]

\* grantTokenTo: a transfer out of BokerFinance.
GrantTokenTo(b, a, amount) == [b EXCEPT ![Finance] = @ - amount, ![a] = @ + amount]

\* All grants of an assignment.
AfterGrants(assigned) ==
    FoldSet(LAMBDA a, b : GrantTokenTo(b, a, assigned[a]), balance, DOMAIN assigned)

\* Each of two things reverts the whole call: the division by the total, for a
\* user who has only watched for no time, and a transfer that BokerFinance
\* cannot pay.
DividesByZero == \E u \in known : user[u].watchFiles # <<>> /\ WatchTotal(u) = 0

Paid(b) == b[Finance] >= 0

\* clearUserShorttermPower, clearUserWatchTime, clearUserUploadCount
ClearedUser(r) ==
    [r EXCEPT !.shortterm = 0, !.watchFiles = <<>>, !.watchTime = [f \in Files |-> 0],
              !.uploads = 0]

\* Mutant of Cleared: the users are those known before the calculation.
ClearedOld(calc) ==
    [a \in Account |-> IF a \in known THEN ClearedUser(calc.users[a]) ELSE calc.users[a]]

\* The loop of _assignToken over the users known after the calculation.
Cleared(calc) ==
    [a \in Account |-> IF a \in calc.known THEN ClearedUser(calc.users[a]) ELSE calc.users[a]]

\* The whole cycles that have passed, at once.
NextCycleBegin ==
    assignCycleBegin + ((now - assignCycleBegin) \div AssignPeriod) * AssignPeriod

AssignToken ==
    /\ AssignCycleIsEnd
    /\ ~DividesByZero
    /\ \E calc \in {Calculated} : \E granted \in {AfterGrants(TokensAssigned(calc))} :
           /\ Paid(granted)
           /\ balance' = granted
           /\ known' = calc.known
           /\ user' = Cleared(calc)
    /\ assignCycleBegin' = NextCycleBegin
    /\ history' = [u \in User |-> [history[u] EXCEPT !.watched = 0]]
    /\ UNCHANGED <<now, file, events>>

Tick ==
    /\ now < MaxTime
    /\ now' = now + 1
    /\ UNCHANGED <<known, user, file, balance, assignCycleBegin, history, events>>

Init ==
    /\ now = Day
    /\ known = {}
    /\ user = [a \in Account |-> NoUser]
    /\ file = [f \in Files |-> [added |-> FALSE, owner |-> Zero]]
    /\ balance = [a \in Account \union {Finance} |-> IF a = Finance THEN Budget ELSE 0]
    /\ assignCycleBegin = now
    /\ history = [u \in User |-> NoHistory]
    /\ events = 0

Next ==
    \/ \E u \in User :
         \/ \E i \in Account : Register(u, i)
         \/ LoginDaily(u) \/ BindWallet(u) \/ Certification(u) \/ Upload(u)
         \/ \E f \in Files, t \in WatchTime : Watch(u, f, t)
    \/ \E f \in Files, owner \in Account : AddFile(owner, f)
    \/ AssignToken
    \/ Tick

Spec == Init /\ [][Next]_vars

-----------------------------------------------------------------------------
\* Whenever a cycle has ended, assignToken can be executed: the shares never
\* add up to more than BokerFinance has, and the only division by zero is that
\* of _calculateWatchPower for a user whose watch events of the cycle all have
\* the time zero, so that files are listed and their total is zero.
AssignPossible ==
    AssignCycleIsEnd =>
        IF DividesByZero
        THEN \E u \in User : user[u].watchFiles # <<>> /\ history[u].watched = 0
        ELSE Paid(AfterGrants(TokensAssigned(Calculated)))

\* The longterm power of a user is what their history justifies: every bonus
\* once, one per day of login, and for n invited friends 2 + 4 + ... + 2n,
\* whatever the order of the events (_onUserEventRegister, LoginDaily,
\* BindWallet, Certification).
LongtermExplained ==
    \A u \in User :
        LET r == user[u]
            once(happened, power) == IF happened THEN power ELSE 0
        IN  r.longterm = once(r.registered, RegisterPowerAdd)
                         + once(history[u].invited, InvitedPowerAdd)
                         + once(r.bound, BindPower)
                         + once(r.certified, CertificationPowerAdd)
                         + LoginDailyPowerAdd * Cardinality(history[u].logins)
                         + r.friends * (r.friends + 1)


\* An assignment takes no more than AssignTokenPerCycle, leaves nothing of the
\* ended cycle with any account, and ends in the cycle that contains the
\* present.  An owner who becomes a user while the power is calculated is
\* among the accounts: _assignToken reads the list of users after that, and
\* so clears the shortterm power that was stored for them.
AssignSettles ==
    [][assignCycleBegin' # assignCycleBegin =>
          /\ balance[Finance] - balance'[Finance] <= AssignTokenPerCycle
          /\ \A a \in Account :
                /\ user'[a].shortterm = 0 /\ user'[a].uploads = 0
                /\ user'[a].watchFiles = <<>>
          /\ ~AssignCycleIsEnd']_vars
=============================================================================
