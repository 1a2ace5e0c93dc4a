----------------------------- MODULE BokerNode -----------------------------
(***************************************************************************)
(* Candidates, votes and deposits: contracts/src/BokerNode.sol with its    *)
(* storage BokerNodeData.sol, the deposits held by BokerFinance.sol, and   *)
(* the entry points of BokerInterface.sol and BokerInterfaceBase.sol.      *)
(*                                                                         *)
(* A call that reverts changes nothing, so a require is a conjunct of the  *)
(* action. Amounts stay far below 2^256 and SafeMath's asserts hold.       *)
(***************************************************************************)
EXTENDS Integers, Sequences, FiniteSets, Functions

CONSTANTS
    Voter, Candidate,
    Tokens,               \* amounts a voter may send
    Purse,                \* what every voter's account holds at the start
    VoteLockup, VoteUnlockPrecision, VoteCyclePeriod,
    MaxPauses,            \* how often the owner pauses or unpauses
    Funds,                \* tokens that reach BokerFinance by other ways
    MaxDelay,             \* how late the chain may call rotateVote
    MaxTime, MaxVotes     \* bounds

ASSUME AmountAssumption == Tokens \subseteq Nat \ {0} /\ Purse \in Nat /\ Funds \in Nat
ASSUME PeriodAssumption ==
    /\ VoteCyclePeriod \in Nat \ {0} /\ VoteLockup \in Nat
    /\ VoteUnlockPrecision \in Nat /\ MaxDelay \in Nat
(* BokerManager's configuration: a lock-up is three days, a cycle one.        *)
ASSUME LockupAssumption ==
    VoteLockup >= VoteCyclePeriod /\ VoteLockup % VoteCyclePeriod = 0
ASSUME VoterAssumption == IsFiniteSet(Voter)

VARIABLES
    now,
    pauses,       \* how often BokerManager was paused or unpaused
    tickets,      \* candidates: registered candidate -> tickets
    voter,        \* voters: see Stranger
    cycleBegin, cycleRound,
    finance,      \* balance of BokerFinance
    wallet,       \* balances of the voters' accounts
    drawn,        \* history: tokens assignToken or withdraw took out
    lastVote      \* history: when a voter last voted

vars == <<now, pauses, tickets, voter, cycleBegin, cycleRound, finance, wallet,
          drawn, lastVote>>

(* A voter without a record. array is Voter.candidateArray without its        *)
(* placeholder; a candidate has one entry for every vote cast for it.         *)
Stranger == [known |-> FALSE, deposit |-> 0, unlockTime |-> 0,
             votes |-> [c \in Candidate |-> 0], array |-> <<>>]

Registered == DOMAIN tickets

(* BokerManager.paused *)
Paused == pauses % 2 = 1

(* The sum of f over the voters in S: the size of a set with f[v] units of v. *)
SumOf(f, S) == Cardinality(UNION {{v} \X (1 .. f[v]) : v \in S})

(* What cancelling takes from candidate c: getVoteInfo lists c once per entry *)
(* of the array, each time with the whole recorded vote.                      *)
Withdrawn(w, c) == w.votes[c] * Cardinality({i \in DOMAIN w.array : w.array[i] = c})

(* Mutant of Cleared: the deposit stays on the books. *)
ClearedVotesOnly(w) == [w EXCEPT !.votes = [c \in Candidate |-> 0]]

(* Mutant of Cleared: the votes stay on the books. *)
ClearedDepositOnly(w) == [w EXCEPT !.deposit = 0]

(* clearVoterVote for every entry, and setVoterDeposit(0). *)
Cleared(w) == [w EXCEPT !.votes = [c \in Candidate |-> 0], !.deposit = 0]

-----------------------------------------------------------------------------
RegisterCandidate(c) ==
    /\ ~Paused
    /\ tickets' = [d \in Registered \cup {c} |->
                      IF d \in Registered THEN tickets[d] ELSE 0]
    /\ UNCHANGED <<now, pauses, voter, cycleBegin, cycleRound, finance, wallet,
                   drawn, lastVote>>

(* Mutant of RecordVote: the unlock time of the first vote is kept. *)
RecordVoteKeepUnlock(w, c, t) ==
    [w EXCEPT !.known = TRUE, !.deposit = @ + t, !.votes[c] = t,
              !.array = Append(@, c),
              !.unlockTime = IF w.known THEN @ ELSE cycleBegin + VoteLockup]

(* increaseVoterDeposit, increaseVoterVote (whose _findAddVote resets the    *)
(* vote and appends the candidate each time) and updateVoterUnlockTime.      *)
RecordVote(w, c, t) ==
    [w EXCEPT !.known = TRUE, !.deposit = @ + t, !.votes[c] = t,
              !.array = Append(@, c), !.unlockTime = cycleBegin + VoteLockup]

VoteCandidate(v, c, t) ==
    /\ ~Paused
    /\ c \in Registered
    /\ t <= wallet[v]
    /\ Len(voter[v].array) < MaxVotes
    /\ wallet' = [wallet EXCEPT ![v] = @ - t]
    /\ finance' = finance + t
    /\ voter' = [voter EXCEPT ![v] = RecordVote(voter[v], c, t)]
    /\ tickets' = [tickets EXCEPT ![c] = @ + t]
    /\ lastVote' = [lastVote EXCEPT ![v] = now]
    /\ UNCHANGED <<now, pauses, cycleBegin, cycleRound, drawn>>

(* _cancelAllVotes and grantTokenTo for a set of voters: reverts when a       *)
(* candidate has fewer tickets than are taken back or Finance cannot pay.     *)
Total(S) == SumOf([v \in Voter |-> voter[v].deposit], S)
TakenBack(S, c) == SumOf([v \in Voter |-> Withdrawn(voter[v], c)], S)

CanRelease(S) ==
    /\ \A c \in Registered : TakenBack(S, c) <= tickets[c]
    /\ Total(S) <= finance

Release(S) ==
    /\ CanRelease(S)
    /\ tickets' = [c \in Registered |-> tickets[c] - TakenBack(S, c)]
    /\ voter' = [v \in Voter |-> IF v \in S THEN Cleared(voter[v]) ELSE voter[v]]
    /\ finance' = finance - Total(S)
    /\ wallet' = [v \in Voter |-> IF v \in S THEN wallet[v] + voter[v].deposit ELSE wallet[v]]

CancelAllVotes(v) ==
    /\ ~Paused
    /\ Release({v})
    /\ UNCHANGED <<now, pauses, cycleBegin, cycleRound, drawn, lastVote>>

-----------------------------------------------------------------------------
VoteCycleIsEnd == cycleBegin + VoteCyclePeriod <= now

Diff(a, b) == IF a > b THEN a - b ELSE b - a

(* Mutant of Unlocking: the end of the window is excluded. *)
UnlockingStrict ==
    {v \in Voter : /\ voter[v].deposit > 0
                   /\ Diff(voter[v].unlockTime, now) < VoteUnlockPrecision}

(* _checkUnlockDeposit: the voters with a deposit that unlocks about now.    *)
Unlocking ==
    {v \in Voter : /\ voter[v].deposit > 0
                   /\ Diff(voter[v].unlockTime, now) <= VoteUnlockPrecision}

(* Mutant of RotateTickCycle: one cycle per call. *)
RotateOneCycle ==
    /\ cycleBegin' = cycleBegin + VoteCyclePeriod
    /\ cycleRound' = cycleRound + 1

(* _rotateTickCycle: skips the cycles that were missed. *)
RotateTickCycle ==
    LET roundAdd == (now - cycleBegin) \div VoteCyclePeriod
    IN  /\ cycleBegin' = cycleBegin + roundAdd * VoteCyclePeriod
        /\ cycleRound' = cycleRound + roundAdd

(* rotateVote does nothing while the cycle is not over. *)
RotateVote ==
    /\ ~Paused
    /\ VoteCycleIsEnd
    /\ Release(Unlocking)
    /\ RotateTickCycle
    /\ UNCHANGED <<now, pauses, drawn, lastVote>>

-----------------------------------------------------------------------------
(* BokerFinance: the fallback and receiveTokenFrom bring tokens in,           *)
(* assignToken grants some to users and withdraw empties it.                  *)
ReceiveToken ==
    /\ finance + drawn - Total(Voter) < Funds
    /\ finance' = finance + 1
    /\ UNCHANGED <<now, pauses, tickets, voter, cycleBegin, cycleRound, wallet,
                   drawn, lastVote>>

TakeToken(amount) ==
    /\ finance' = finance - amount
    /\ drawn' = drawn + amount
    /\ UNCHANGED <<now, pauses, tickets, voter, cycleBegin, cycleRound, wallet, lastVote>>

GrantToken == Funds > 0 /\ finance > 0 /\ TakeToken(1)

Withdraw == Funds > 0 /\ TakeToken(finance)

SetPaused ==
    /\ pauses < MaxPauses
    /\ pauses' = pauses + 1
    /\ UNCHANGED <<now, tickets, voter, cycleBegin, cycleRound, finance, wallet,
                   drawn, lastVote>>

(* Time passes; the chain's call of rotateVote succeeds at most MaxDelay      *)
(* after a cycle's end, unless the contracts are paused.                     *)
Tick ==
    /\ now < MaxTime
    /\ Paused \/ now < cycleBegin + VoteCyclePeriod + MaxDelay
    /\ now' = now + 1
    /\ UNCHANGED <<pauses, tickets, voter, cycleBegin, cycleRound, finance, wallet,
                   drawn, lastVote>>

Init ==
    /\ now = 0 /\ pauses = 0
    /\ tickets = [c \in {} |-> 0]
    /\ voter = [v \in Voter |-> Stranger]
    /\ cycleBegin = 0 /\ cycleRound = 0
    /\ finance = 0 /\ wallet = [v \in Voter |-> Purse]
    /\ drawn = 0 /\ lastVote = [v \in Voter |-> 0]

Next ==
    \/ \E c \in Candidate : RegisterCandidate(c)
    \/ \E v \in Voter, c \in Candidate, t \in Tokens : VoteCandidate(v, c, t)
    \/ \E v \in Voter : CancelAllVotes(v)
    \/ RotateVote
    \/ ReceiveToken \/ GrantToken \/ Withdraw \/ SetPaused \/ Tick

Spec == Init /\ [][Next]_vars

-----------------------------------------------------------------------------
(* Properties. *)

VoterRecord == [known : BOOLEAN, deposit : Nat, unlockTime : Nat,
                votes : [Candidate -> Nat], array : Seq(Candidate)]

(* Amounts and times are natural numbers (the subtractions of the contracts  *)
(* never go below zero), and only registered candidates have tickets.        *)
TypeOK ==
    /\ {now, pauses, cycleBegin, cycleRound, finance, drawn} \subseteq Nat
    /\ Registered \subseteq Candidate /\ \A c \in Registered : tickets[c] \in Nat
    /\ \A v \in Voter : voter[v] \in VoterRecord /\ {wallet[v], lastVote[v]} \subseteq Nat

(* No voter gains or loses a token by voting, cancelling, being unlocked by   *)
(* rotateVote or by a call that reverts: account and deposit always add up.  *)
NoTokenLost == \A v \in Voter : wallet[v] + voter[v].deposit = Purse

(* rotateVote leaves no ended cycle behind, however many were missed, and     *)
(* never begins a cycle in the future.                                       *)
RotateCatchesUp ==
    [][cycleBegin' # cycleBegin => ~VoteCycleIsEnd' /\ cycleBegin' <= now']_vars

(* Without pauses a rotation never releases a deposit earlier than            *)
(* VoteLockup, less one period, the precision and the delay of rotateVote,   *)
(* after the voter's last vote.                                              *)
LockHeld ==
    [][pauses = 0 /\ cycleRound' # cycleRound =>
          \A v \in Voter : voter'[v].deposit < voter[v].deposit =>
             now - lastVote[v] >= VoteLockup - VoteCyclePeriod - VoteUnlockPrecision - MaxDelay
      ]_vars

(* No voter has voted twice for the same candidate. (The entries of the array *)
(* outlive a cancellation.)                                                  *)
VotedOnce == \A v \in Voter : IsInjective(voter[v].array)

(* As long as nobody votes twice for the same candidate, a candidate's        *)
(* tickets are the votes recorded for it, whoever cancels or is unlocked.    *)
TicketsExact ==
    VotedOnce => \A c \in Registered :
       tickets[c] = SumOf([v \in Voter |-> voter[v].votes[c]], Voter)

(* As long as nobody votes twice for the same candidate, cancelAllVotes pays  *)
(* a deposit back unless BokerFinance holds less than the deposit; and then   *)
(* the tokens missing are ones that assignToken or withdraw took out: no      *)
(* voting, cancelling or unlocking of other voters uses them up.              *)
CancelPossible ==
    VotedOnce => \A v \in Voter :
       \/ CanRelease({v})
       \/ finance < voter[v].deposit /\ Total(Voter) <= finance + drawn

(* Without pauses, and with rotateVote no later than the precision, a deposit *)
(* is not left behind: when its time to unlock is past it has been returned. *)
UnlockedInTime ==
    pauses = 0 /\ MaxDelay <= VoteUnlockPrecision =>
        \A v \in Voter : voter[v].deposit > 0 =>
            now <= voter[v].unlockTime + VoteUnlockPrecision
=============================================================================
