-------------------------- MODULE BokerNodeProof --------------------------
(***************************************************************************)
(* Proofs about BokerNode for any voters, candidates, amounts and periods. *)
(***************************************************************************)
EXTENDS BokerNode, FiniteSetTheorems, TLAPS

(* What a voter's record is after a vote or a release. *)
LEMMA RecordVoteAll ==
    ASSUME NEW w \in VoterRecord, NEW c \in Candidate, NEW t \in Nat, cycleBegin \in Nat
    PROVE  /\ RecordVote(w, c, t) \in VoterRecord
           /\ RecordVote(w, c, t).deposit = w.deposit + t
           /\ RecordVote(w, c, t).unlockTime = cycleBegin + VoteLockup
           /\ RecordVote(w, c, t).votes = [w.votes EXCEPT ![c] = t]
           /\ RecordVote(w, c, t).array = Append(w.array, c)
<1> DEFINE f == [w.votes EXCEPT ![c] = t]
           a == Append(w.array, c)
           d == w.deposit + t
           u == cycleBegin + VoteLockup
<1>1. f \in [Candidate -> Nat] /\ a \in Seq(Candidate) /\ d \in Nat /\ u \in Nat
  BY PeriodAssumption DEF VoterRecord
<1> HIDE DEF f, a, d, u
<1>3. PICK w1 \in VoterRecord : w1 = [w EXCEPT !.known = TRUE]
  BY Zenon DEF VoterRecord
<1>4. PICK w2 \in VoterRecord : w2 = [w1 EXCEPT !.deposit = d]
  BY <1>1, Zenon DEF VoterRecord
<1>5. PICK w3 \in VoterRecord : w3 = [w2 EXCEPT !.votes = f]
  BY <1>1, Zenon DEF VoterRecord
<1>6. PICK w4 \in VoterRecord : w4 = [w3 EXCEPT !.array = a]
  BY <1>1, Zenon DEF VoterRecord
<1>7. PICK w5 \in VoterRecord : w5 = [w4 EXCEPT !.unlockTime = u]
  BY <1>1, Zenon DEF VoterRecord
<1>8. RecordVote(w, c, t) = w5
  BY <1>3, <1>4, <1>5, <1>6, <1>7 DEF RecordVote, VoterRecord, f, a, d, u
<1>9. w5.deposit = d /\ w5.unlockTime = u /\ w5.votes = f /\ w5.array = a
  BY <1>3, <1>4, <1>5, <1>6, <1>7 DEF VoterRecord
<1> QED
  BY <1>8, <1>9 DEF d, u, f, a

(* The deposit and the unlock time of a voter's record after a vote. *)
LEMMA RecordVoteFacts ==
    ASSUME NEW w \in VoterRecord, NEW c \in Candidate, NEW t \in Nat, cycleBegin \in Nat
    PROVE  /\ RecordVote(w, c, t) \in VoterRecord
           /\ RecordVote(w, c, t).deposit = w.deposit + t
           /\ RecordVote(w, c, t).unlockTime = cycleBegin + VoteLockup
BY RecordVoteAll, ZenonT(30)

(* A released voter keeps its record, with no deposit and no votes left. *)
LEMMA ClearedFacts ==
    ASSUME NEW w \in VoterRecord
    PROVE  /\ Cleared(w) \in VoterRecord
           /\ Cleared(w).deposit = 0 /\ Cleared(w).unlockTime = w.unlockTime
           /\ Cleared(w).votes = [c \in Candidate |-> 0] /\ Cleared(w).array = w.array
<1> DEFINE z == [c \in Candidate |-> 0]
<1>1. z \in [Candidate -> Nat]
  OBVIOUS
<1> HIDE DEF z
<1>2. PICK w1 \in VoterRecord : w1 = [w EXCEPT !.votes = z]
  BY <1>1, Zenon DEF VoterRecord
<1>3. PICK w2 \in VoterRecord : w2 = [w1 EXCEPT !.deposit = 0]
  BY Zenon DEF VoterRecord
<1>4. Cleared(w) = w2
  BY <1>2, <1>3 DEF Cleared, VoterRecord, z
<1>5. w2.deposit = 0 /\ w2.unlockTime = w.unlockTime /\ w2.votes = z /\ w2.array = w.array
  BY <1>2, <1>3 DEF VoterRecord
<1> QED
  BY <1>4, <1>5 DEF z

-----------------------------------------------------------------------------
(* The accounts: types of what the accounts depend on, and the sums.         *)
AInv ==
    /\ now \in Nat /\ cycleBegin \in Nat /\ cycleRound \in Nat
    /\ cycleBegin <= now
    /\ wallet \in [Voter -> Nat]
    /\ voter \in [Voter -> VoterRecord]
    /\ NoTokenLost

(* At deployment nobody has voted and the books are even. *)
LEMMA AInvInit == Init => AInv
<1> SUFFICES ASSUME Init PROVE AInv
  OBVIOUS
<1>1. Stranger \in VoterRecord /\ Stranger.deposit = 0
  <2>1. <<>> \in Seq(Candidate)
    OBVIOUS
  <2> QED
    BY <2>1 DEF Stranger, VoterRecord
<1> QED
  BY <1>1, AmountAssumption DEF Init, AInv, NoTokenLost

(* Paying deposits back (Release) moves tokens within each voter's books. *)
LEMMA ReleaseKeeps ==
    ASSUME NEW S \in SUBSET Voter, wallet \in [Voter -> Nat],
           voter \in [Voter -> VoterRecord], NoTokenLost, Release(S)
    PROVE  /\ wallet' \in [Voter -> Nat] /\ voter' \in [Voter -> VoterRecord]
           /\ NoTokenLost'
<1>1. \A v \in Voter : voter[v] \in VoterRecord /\ voter[v].deposit \in Nat /\ wallet[v] \in Nat
  BY DEF VoterRecord
<1>2. /\ voter' = [v \in Voter |-> IF v \in S THEN Cleared(voter[v]) ELSE voter[v]]
      /\ wallet' = [v \in Voter |-> IF v \in S THEN wallet[v] + voter[v].deposit ELSE wallet[v]]
  BY DEF Release
<1>3. voter' \in [Voter -> VoterRecord]
  BY <1>1, <1>2, ClearedFacts
<1>4. wallet' \in [Voter -> Nat]
  BY <1>1, <1>2
<1>5. ASSUME NEW v \in Voter PROVE wallet'[v] + voter'[v].deposit = Purse
  <2>1. wallet[v] + voter[v].deposit = Purse
    BY DEF NoTokenLost
  <2>2. CASE v \in S
    <3>1. voter'[v].deposit = 0 /\ wallet'[v] = wallet[v] + voter[v].deposit
      BY <1>1, <1>2, <2>2, ClearedFacts
    <3> QED
      BY <1>1, <2>1, <3>1
  <2>3. CASE v \notin S
    BY <1>2, <2>1, <2>3
  <2> QED
    BY <2>2, <2>3
<1> QED
  BY <1>3, <1>4, <1>5 DEF NoTokenLost

(* The begin of the cycle moves by whole periods to the last one not after now. *)
LEMMA DivisionFacts ==
    ASSUME NEW a \in Nat, NEW p \in Nat \ {0}
    PROVE  /\ a \div p \in Nat
           /\ (a \div p) * p \in Nat /\ (a \div p) * p <= a
           /\ a < (a \div p) * p + p
BY SMTT(30)

(* rotateVote's catch-up (_rotateTickCycle) ends in the cycle of the present. *)
LEMMA RotateFacts ==
    ASSUME now \in Nat, cycleBegin \in Nat, cycleRound \in Nat, cycleBegin <= now, RotateTickCycle
    PROVE  /\ cycleBegin' \in Nat /\ cycleRound' \in Nat
           /\ cycleBegin <= cycleBegin' /\ cycleBegin' <= now
           /\ now < cycleBegin' + VoteCyclePeriod
<1> DEFINE a == now - cycleBegin
           q == a \div VoteCyclePeriod
           m == q * VoteCyclePeriod
<1>1. a \in Nat
  OBVIOUS
<1>2. q \in Nat /\ m \in Nat /\ m <= a /\ a < m + VoteCyclePeriod
  BY <1>1, DivisionFacts, PeriodAssumption
<1>3. cycleBegin' = cycleBegin + m /\ cycleRound' = cycleRound + q
  BY DEF RotateTickCycle
<1> HIDE DEF m, q
<1> QED
  BY <1>2, <1>3, PeriodAssumption

(* Every call, transfer and tick keeps the voters' books. *)
LEMMA AInvNext == AInv /\ [Next]_vars => AInv'
<1> SUFFICES ASSUME AInv, [Next]_vars PROVE AInv'
  OBVIOUS
<1>0. /\ now \in Nat /\ cycleBegin \in Nat /\ cycleRound \in Nat /\ cycleBegin <= now
      /\ wallet \in [Voter -> Nat] /\ voter \in [Voter -> VoterRecord] /\ NoTokenLost
  BY DEF AInv
<1>1. ASSUME UNCHANGED <<now, cycleBegin, cycleRound, wallet, voter>> PROVE AInv'
  BY <1>0, <1>1 DEF AInv, NoTokenLost
<1>2. ASSUME NEW v \in Voter, NEW c \in Candidate, NEW t \in Tokens, VoteCandidate(v, c, t)
      PROVE  AInv'
  <2>1. PICK w : w = RecordVote(voter[v], c, t)
    OBVIOUS
  <2>2. t \in Nat /\ t <= wallet[v] /\ voter[v].deposit \in Nat /\ wallet[v] \in Nat
    BY <1>0, <1>2, AmountAssumption DEF VoteCandidate, VoterRecord
  <2>3. w \in VoterRecord /\ w.deposit = voter[v].deposit + t
    BY <1>0, <2>1, <2>2, RecordVoteFacts, Zenon
  <2>4. /\ wallet' = [wallet EXCEPT ![v] = @ - t] /\ voter' = [voter EXCEPT ![v] = w]
        /\ UNCHANGED <<now, cycleBegin, cycleRound>>
    BY <1>2, <2>1 DEF VoteCandidate
  <2>5. wallet' \in [Voter -> Nat] /\ voter' \in [Voter -> VoterRecord]
    BY <1>0, <2>2, <2>3, <2>4
  <2>6. ASSUME NEW x \in Voter PROVE wallet'[x] + voter'[x].deposit = Purse
    <3>1. wallet[x] + voter[x].deposit = Purse
      BY <1>0 DEF NoTokenLost
    <3>2. CASE x = v
      <4>1. wallet'[x] = wallet[v] - t /\ voter'[x] = w
        BY <1>0, <2>4, <3>2
      <4> QED
        BY <2>2, <2>3, <3>1, <3>2, <4>1
    <3>3. CASE x # v
      BY <1>0, <2>4, <3>1, <3>3
    <3> QED
      BY <3>2, <3>3
  <2> QED
    BY <1>0, <2>4, <2>5, <2>6 DEF AInv, NoTokenLost
<1>3. ASSUME NEW v \in Voter, CancelAllVotes(v) PROVE AInv'
  <2>1. /\ wallet' \in [Voter -> Nat] /\ voter' \in [Voter -> VoterRecord] /\ NoTokenLost'
    BY <1>0, <1>3, ReleaseKeeps DEF CancelAllVotes
  <2> QED
    BY <1>0, <1>3, <2>1 DEF AInv, CancelAllVotes
<1>4. CASE RotateVote
  <2>1. Unlocking \in SUBSET Voter
    BY DEF Unlocking
  <2>2. /\ wallet' \in [Voter -> Nat] /\ voter' \in [Voter -> VoterRecord] /\ NoTokenLost'
    BY <1>0, <1>4, <2>1, ReleaseKeeps DEF RotateVote
  <2>3. cycleBegin' \in Nat /\ cycleRound' \in Nat /\ cycleBegin' <= now
    BY <1>0, <1>4, RotateFacts DEF RotateVote
  <2> QED
    BY <1>0, <1>4, <2>2, <2>3 DEF AInv, RotateVote
<1>5. CASE Tick
  <2>1. now' = now + 1 /\ UNCHANGED <<cycleBegin, cycleRound, wallet, voter>>
    BY <1>5 DEF Tick
  <2>2. now' \in Nat /\ cycleBegin' <= now'
    BY <1>0, <2>1
  <2> QED
    BY <1>0, <2>1, <2>2 DEF AInv, NoTokenLost
<1>6. CASE UNCHANGED vars
  BY <1>1, <1>6 DEF vars
<1>7. ASSUME NEW c \in Candidate, RegisterCandidate(c) PROVE AInv'
  BY <1>1, <1>7 DEF RegisterCandidate
<1>8. CASE ReceiveToken \/ GrantToken \/ Withdraw \/ SetPaused
  BY <1>1, <1>8 DEF ReceiveToken, GrantToken, Withdraw, TakeToken, SetPaused
<1> QED
  BY <1>2, <1>3, <1>4, <1>5, <1>6, <1>7, <1>8 DEF Next

(* The books hold in every reachable state. *)
THEOREM AInvAlways == Spec => []AInv
BY AInvInit, AInvNext, PTL DEF Spec

(* Account and deposit of every voter add up to what the voter started with, *)
(* through any votes, cancellations and rotations.                           *)
THEOREM NoTokenLostAlways == Spec => []NoTokenLost
BY AInvAlways, PTL DEF AInv

(* rotateVote always catches up with the clock.                              *)
THEOREM RotateCatchesUpAlways == Spec => RotateCatchesUp
<1>1. AInv /\ [Next]_vars =>
        [cycleBegin' # cycleBegin => ~VoteCycleIsEnd' /\ cycleBegin' <= now']_vars
  <2> SUFFICES ASSUME AInv, Next, cycleBegin' # cycleBegin
               PROVE  ~VoteCycleIsEnd' /\ cycleBegin' <= now'
    BY DEF vars
  <2>1. RotateVote
    BY Zenon DEF Next, RegisterCandidate, VoteCandidate, CancelAllVotes, ReceiveToken,
           GrantToken, Withdraw, TakeToken, SetPaused, Tick
  <2>2. /\ cycleBegin' \in Nat /\ cycleBegin' <= now /\ now < cycleBegin' + VoteCyclePeriod
        /\ now' = now /\ now \in Nat
    BY <2>1, RotateFacts DEF RotateVote, AInv
  <2>3. VoteCyclePeriod \in Nat
    BY PeriodAssumption
  <2>4. VoteCycleIsEnd' <=> cycleBegin' + VoteCyclePeriod <= now'
    BY DEF VoteCycleIsEnd
  <2>5. now' \in Nat /\ cycleBegin' <= now' /\ now' < cycleBegin' + VoteCyclePeriod
    BY <2>2, Zenon
  <2>6. ~(cycleBegin' + VoteCyclePeriod <= now')
    <3>1. \A a, b, c \in Nat : a < b + c => ~(b + c <= a)
      OBVIOUS
    <3> QED
      BY <2>2, <2>3, <2>5, <3>1, Zenon
  <2> QED
    BY <2>4, <2>5, <2>6
<1> QED
  BY <1>1, AInvAlways, PTL DEF Spec, RotateCatchesUp

-----------------------------------------------------------------------------
(* The lock. Without pauses the clock never runs further than one period and *)
(* the delay past the begin of the cycle, so the unlock time a vote records  *)
(* is never far behind the vote.                                             *)
LInv ==
    /\ pauses = 0 /\ now <= cycleBegin + VoteCyclePeriod + MaxDelay
    /\ lastVote \in [Voter -> Nat]
    /\ \A v \in Voter : voter[v].deposit > 0 =>
          voter[v].unlockTime >= lastVote[v] + VoteLockup - VoteCyclePeriod - MaxDelay

(* At deployment there is no deposit to unlock. *)
LEMMA LInvInit == Init => LInv
<1> SUFFICES ASSUME Init PROVE LInv
  OBVIOUS
<1>1. \A v \in Voter : voter[v].deposit = 0
  BY DEF Init, Stranger
<1> QED
  BY <1>1, PeriodAssumption DEF Init, LInv

(* A deposit that survives a release belongs to an untouched record. *)
LEMMA ReleaseLock ==
    ASSUME NEW S \in SUBSET Voter, voter \in [Voter -> VoterRecord], Release(S), NEW v \in Voter
    PROVE  voter'[v].deposit > 0 => voter'[v] = voter[v]
<1>1. voter' = [x \in Voter |-> IF x \in S THEN Cleared(voter[x]) ELSE voter[x]]
  BY DEF Release
<1>2. v \in S => voter'[v].deposit = 0
  BY <1>1, ClearedFacts
<1>3. v \notin S => voter'[v] = voter[v]
  BY <1>1
<1> QED
  BY <1>2, <1>3

(* Every step keeps recorded unlock times close to the last vote. *)
LEMMA LInvNext == AInv /\ LInv /\ [Next]_vars /\ pauses' = 0 => LInv'
<1> SUFFICES ASSUME AInv, LInv, [Next]_vars, pauses' = 0 PROVE LInv'
  OBVIOUS
<1>0. /\ now \in Nat /\ cycleBegin \in Nat /\ cycleRound \in Nat /\ cycleBegin <= now
      /\ voter \in [Voter -> VoterRecord] /\ wallet \in [Voter -> Nat]
      /\ pauses = 0 /\ now <= cycleBegin + VoteCyclePeriod + MaxDelay
      /\ lastVote \in [Voter -> Nat]
  BY DEF AInv, LInv
<1>00. \A v \in Voter : voter[v].deposit > 0 =>
          voter[v].unlockTime >= lastVote[v] + VoteLockup - VoteCyclePeriod - MaxDelay
  BY DEF LInv
<1>1. ASSUME UNCHANGED <<pauses, now, cycleBegin, lastVote, voter>> PROVE LInv'
  BY <1>1 DEF LInv
<1>2. ASSUME NEW v \in Voter, NEW c \in Candidate, NEW t \in Tokens, VoteCandidate(v, c, t)
      PROVE  LInv'
  <2>1. PICK w : w = RecordVote(voter[v], c, t)
    OBVIOUS
  <2>2. t \in Nat
    BY AmountAssumption
  <2>3. w \in VoterRecord /\ w.unlockTime = cycleBegin + VoteLockup
    BY <1>0, <2>1, <2>2, RecordVoteFacts, Zenon
  <2>4. /\ voter' = [voter EXCEPT ![v] = w] /\ lastVote' = [lastVote EXCEPT ![v] = now]
        /\ UNCHANGED <<pauses, now, cycleBegin>>
    BY <1>2, <2>1 DEF VoteCandidate
  <2>5. ASSUME NEW x \in Voter, voter'[x].deposit > 0
        PROVE  voter'[x].unlockTime >= lastVote'[x] + VoteLockup - VoteCyclePeriod - MaxDelay
    <3>1. CASE x = v
      <4>1. voter'[x].unlockTime = cycleBegin + VoteLockup /\ lastVote'[x] = now
        BY <1>0, <2>3, <2>4, <3>1
      <4> QED
        BY <1>0, <4>1, PeriodAssumption
    <3>2. CASE x # v
      BY <1>0, <1>00, <2>4, <2>5, <3>2
    <3> QED
      BY <3>1, <3>2
  <2>6. lastVote' \in [Voter -> Nat]
    BY <1>0, <2>4
  <2> QED
    BY <1>0, <2>4, <2>5, <2>6 DEF LInv
<1>3. ASSUME NEW v \in Voter, CancelAllVotes(v) PROVE LInv'
  <2>1. \A x \in Voter : voter'[x].deposit > 0 => voter'[x] = voter[x]
    BY <1>0, <1>3, ReleaseLock DEF CancelAllVotes
  <2> QED
    BY <1>0, <1>00, <1>3, <2>1 DEF LInv, CancelAllVotes
<1>4. CASE RotateVote
  <2>1. Unlocking \in SUBSET Voter
    BY DEF Unlocking
  <2>2. \A x \in Voter : voter'[x].deposit > 0 => voter'[x] = voter[x]
    BY <1>0, <1>4, <2>1, ReleaseLock DEF RotateVote
  <2>3. cycleBegin' \in Nat /\ cycleBegin <= cycleBegin'
    BY <1>0, <1>4, RotateFacts DEF RotateVote
  <2>4. UNCHANGED <<pauses, now, lastVote>>
    BY <1>4 DEF RotateVote
  <2>5. now' <= cycleBegin' + VoteCyclePeriod + MaxDelay
    <3>1. VoteCyclePeriod \in Nat /\ MaxDelay \in Nat
      BY PeriodAssumption
    <3>2. now <= cycleBegin' + VoteCyclePeriod + MaxDelay
      <4>1. \A a, b, c, p, d \in Nat : a <= b + p + d /\ b <= c => a <= c + p + d
        OBVIOUS
      <4> QED
        BY <1>0, <2>3, <3>1, <4>1, Zenon
    <3> QED
      BY <2>4, <3>2, Zenon
  <2> QED
    BY <1>0, <1>00, <2>2, <2>4, <2>5 DEF LInv
<1>5. CASE Tick
  <2>1. /\ now' = now + 1 /\ now < cycleBegin + VoteCyclePeriod + MaxDelay
        /\ UNCHANGED <<pauses, cycleBegin, lastVote, voter>>
    BY <1>0, <1>5 DEF Tick, Paused
  <2>2. now' <= cycleBegin' + VoteCyclePeriod + MaxDelay
    <3>1. VoteCyclePeriod \in Nat /\ MaxDelay \in Nat
      BY PeriodAssumption
    <3> QED
      BY <1>0, <2>1, <3>1
  <2> QED
    BY <1>0, <1>00, <2>1, <2>2 DEF LInv
<1>6. CASE UNCHANGED vars
  BY <1>1, <1>6 DEF vars
<1>7. ASSUME NEW c \in Candidate, RegisterCandidate(c) PROVE LInv'
  BY <1>1, <1>7 DEF RegisterCandidate
<1>8. CASE ReceiveToken \/ GrantToken \/ Withdraw
  BY <1>1, <1>8 DEF ReceiveToken, GrantToken, Withdraw, TakeToken
<1>9. ~SetPaused
  BY <1>0 DEF SetPaused
<1> QED
  BY <1>2, <1>3, <1>4, <1>5, <1>6, <1>7, <1>8, <1>9 DEF Next

(* As long as the owner has not paused, the lock invariant holds. *)
UnpausedInv == pauses \in Nat /\ (pauses = 0 => LInv)

LEMMA UnpausedAlways == Spec => []UnpausedInv
<1>1. Init => UnpausedInv
  BY LInvInit DEF Init, UnpausedInv
<1>2. AInv /\ UnpausedInv /\ [Next]_vars => UnpausedInv'
  <2> SUFFICES ASSUME AInv, UnpausedInv, [Next]_vars PROVE UnpausedInv'
    OBVIOUS
  <2>1. pauses' = pauses \/ pauses' = pauses + 1
    BY Zenon DEF Next, vars, RegisterCandidate, VoteCandidate, CancelAllVotes, RotateVote,
           ReceiveToken, GrantToken, Withdraw, TakeToken, SetPaused, Tick
  <2>2. pauses' \in Nat /\ (pauses' = 0 => pauses = 0)
    BY <2>1 DEF UnpausedInv
  <2> QED
    BY <2>2, LInvNext DEF UnpausedInv
<1> QED
  BY <1>1, <1>2, AInvAlways, PTL DEF Spec

(* As long as nobody paused and rotateVote is at most MaxDelay late,          *)
(* no rotation releases a deposit before its lock-up, up to a period, the    *)
(* delay and the precision.                                                  *)
THEOREM LockHeldAlways == Spec => LockHeld
<1>1. AInv /\ UnpausedInv /\ [Next]_vars =>
        [pauses = 0 /\ cycleRound' # cycleRound =>
          \A v \in Voter : voter'[v].deposit < voter[v].deposit =>
             now - lastVote[v] >= VoteLockup - VoteCyclePeriod - VoteUnlockPrecision - MaxDelay]_vars
  <2> SUFFICES ASSUME AInv, UnpausedInv, Next, pauses = 0, cycleRound' # cycleRound,
                      NEW v \in Voter, voter'[v].deposit < voter[v].deposit
               PROVE  now - lastVote[v] >= VoteLockup - VoteCyclePeriod - VoteUnlockPrecision - MaxDelay
    BY DEF vars
  <2>0. LInv
    BY DEF UnpausedInv
  <2>1. RotateVote
    BY Zenon DEF Next, RegisterCandidate, VoteCandidate, CancelAllVotes, ReceiveToken,
           GrantToken, Withdraw, TakeToken, SetPaused, Tick
  <2>2. voter' = [x \in Voter |-> IF x \in Unlocking THEN Cleared(voter[x]) ELSE voter[x]]
    BY <2>1 DEF RotateVote, Release
  <2>3. voter[v].deposit \in Nat /\ voter[v].unlockTime \in Nat /\ now \in Nat /\ lastVote[v] \in Nat
    BY <2>0 DEF AInv, LInv, VoterRecord
  <2>4. v \in Unlocking
    BY <2>2, <2>3
  <2>5. voter[v].deposit > 0 /\ Diff(voter[v].unlockTime, now) <= VoteUnlockPrecision
    BY <2>4 DEF Unlocking
  <2>6. voter[v].unlockTime >= lastVote[v] + VoteLockup - VoteCyclePeriod - MaxDelay
    BY <2>0, <2>5 DEF LInv
  <2> QED
    BY <2>3, <2>5, <2>6, PeriodAssumption DEF Diff
<1> QED
  BY <1>1, AInvAlways, UnpausedAlways, PTL DEF Spec, LockHeld

-----------------------------------------------------------------------------
(* The unlocking. Cycles begin, and deposits unlock, at multiples of the      *)
(* period; so a rotation that is no later than the precision either finds a   *)
(* deposit in the window of _checkUnlockDeposit or leaves it a whole period.  *)
Multiple(x) == \E n \in Nat : x = n * VoteCyclePeriod

UInv ==
    /\ Multiple(cycleBegin)
    /\ \A v \in Voter : voter[v].deposit > 0 =>
          /\ Multiple(voter[v].unlockTime)
          /\ cycleBegin + VoteCyclePeriod <= voter[v].unlockTime

(* Sums of multiples are multiples, and different multiples are a period apart. *)
LEMMA MultipleFacts ==
    /\ Multiple(0) /\ Multiple(VoteLockup)
    /\ \A x \in Nat, n \in Nat : Multiple(x) => Multiple(x + n * VoteCyclePeriod)
    /\ \A x, y \in Nat : Multiple(x) /\ Multiple(y) => Multiple(x + y)
    /\ \A x, y \in Nat : Multiple(x) /\ Multiple(y) /\ x < y => x + VoteCyclePeriod <= y
<1> DEFINE P == VoteCyclePeriod
<1>0. P \in Nat \ {0} /\ VoteLockup \in Nat
  BY PeriodAssumption
<1>1. 0 = 0 * P
  BY <1>0
<1>2. VoteLockup = (VoteLockup \div P) * P /\ VoteLockup \div P \in Nat
  <2>1. VoteLockup % P = 0
    BY LockupAssumption
  <2>2. \A a \in Nat, p \in Nat \ {0} : a % p = 0 => a = (a \div p) * p /\ a \div p \in Nat
    BY SMTT(30)
  <2> QED BY <1>0, <2>1, <2>2
<1>3. \A m, n \in Nat : m + n \in Nat /\ m * P + n * P = (m + n) * P
  BY <1>0
<1>4. ASSUME NEW m \in Nat, NEW n \in Nat, m * P < n * P PROVE m * P + P <= n * P
  <2>1. m < n
    <3>1. ~(n <= m)
      <4>1. ASSUME n <= m PROVE FALSE
        <5>1. PICK d \in Nat : m = n + d
          <6>1. m - n \in Nat /\ m = n + (m - n)
            BY <4>1
          <6> QED BY <6>1
        <5>2. m * P = n * P + d * P /\ d * P \in Nat /\ n * P \in Nat
          BY <1>0, <5>1
        <5> QED BY <1>4, <5>2
      <4> QED BY <4>1
    <3> QED BY <3>1
  <2>2. PICK d \in Nat : n = m + 1 + d
    <3>1. n - m - 1 \in Nat /\ n = m + 1 + (n - m - 1)
      BY <2>1
    <3> QED BY <3>1
  <2>3. n * P = m * P + P + d * P /\ d * P \in Nat /\ m * P \in Nat
    BY <1>0, <2>2
  <2> QED BY <1>0, <2>3
<1> HIDE DEF P
<1>5. \A x : Multiple(x) <=> \E n \in Nat : x = n * P
  BY DEF Multiple, P
<1>6. Multiple(0) /\ Multiple(VoteLockup)
  BY <1>1, <1>2, <1>5
<1>7. ASSUME NEW x \in Nat, NEW n \in Nat, Multiple(x) PROVE Multiple(x + n * P)
  <2>1. PICK m \in Nat : x = m * P
    BY <1>5, <1>7
  <2> QED BY <1>3, <1>5, <2>1, ZenonT(30)
<1>8. ASSUME NEW x \in Nat, NEW y \in Nat, Multiple(x), Multiple(y)
      PROVE  Multiple(x + y) /\ (x < y => x + P <= y)
  <2>1. PICK m \in Nat : x = m * P
    BY <1>5, <1>8
  <2>2. PICK n \in Nat : y = n * P
    BY <1>5, <1>8
  <2>3. x + y = (m + n) * P /\ m + n \in Nat
    BY <1>3, <2>1, <2>2
  <2>4. Multiple(x + y)
    BY <1>5, <2>3, Zenon
  <2>5. x < y => x + P <= y
    BY <1>4, <2>1, <2>2, Zenon
  <2> QED BY <2>4, <2>5
<1> QED BY <1>6, <1>7, <1>8 DEF P

(* At deployment there is no deposit. *)
LEMMA UInvInit == Init => UInv
<1> SUFFICES ASSUME Init PROVE UInv
  OBVIOUS
<1>1. \A v \in Voter : voter[v].deposit = 0
  BY DEF Init, Stranger
<1> QED
  BY <1>1, MultipleFacts DEF Init, UInv

(* Every step keeps the remaining deposits at least a period from unlocking:  *)
(* a rotation returns those that are nearer.                                  *)
LEMMA UInvNext ==
    ASSUME AInv, LInv, UInv, [Next]_vars, MaxDelay <= VoteUnlockPrecision
    PROVE  UInv'
<1>0. /\ now \in Nat /\ cycleBegin \in Nat /\ cycleRound \in Nat /\ cycleBegin <= now
      /\ voter \in [Voter -> VoterRecord] /\ wallet \in [Voter -> Nat]
      /\ now <= cycleBegin + VoteCyclePeriod + MaxDelay
      /\ Multiple(cycleBegin)
  BY DEF AInv, LInv, UInv
<1>00. \A v \in Voter : voter[v].deposit > 0 =>
          Multiple(voter[v].unlockTime) /\ cycleBegin + VoteCyclePeriod <= voter[v].unlockTime
  BY DEF UInv
<1>000. VoteCyclePeriod \in Nat /\ VoteLockup \in Nat /\ MaxDelay \in Nat /\ VoteUnlockPrecision \in Nat
  BY PeriodAssumption
<1>1. ASSUME cycleBegin' = cycleBegin,
             \A x \in Voter : voter'[x].deposit > 0 => voter'[x] = voter[x]
      PROVE  UInv'
  BY <1>0, <1>00, <1>1, Zenon DEF UInv, Multiple
<1>2. ASSUME NEW v \in Voter, NEW c \in Candidate, NEW t \in Tokens, VoteCandidate(v, c, t)
      PROVE  UInv'
  <2>1. PICK w : w = RecordVote(voter[v], c, t)
    OBVIOUS
  <2>2. t \in Nat
    BY AmountAssumption
  <2>3. w \in VoterRecord /\ w.unlockTime = cycleBegin + VoteLockup
    BY <1>0, <2>1, <2>2, RecordVoteFacts
  <2>4. voter' = [voter EXCEPT ![v] = w] /\ cycleBegin' = cycleBegin
    BY <1>2, <2>1 DEF VoteCandidate
  <2>5. Multiple(w.unlockTime) /\ cycleBegin + VoteCyclePeriod <= w.unlockTime
    <3>1. Multiple(cycleBegin + VoteLockup)
      BY <1>0, <1>000, MultipleFacts
    <3>2. cycleBegin + VoteCyclePeriod <= cycleBegin + VoteLockup
      BY <1>0, <1>000, LockupAssumption
    <3> QED BY <2>3, <3>1, <3>2, Zenon
  <2>6. voter'[v] = w /\ \A x \in Voter : x # v => voter'[x] = voter[x]
    BY <1>0, <2>4
  <2>7. ASSUME NEW x \in Voter, voter'[x].deposit > 0
        PROVE  Multiple(voter'[x].unlockTime) /\ cycleBegin + VoteCyclePeriod <= voter'[x].unlockTime
    BY <1>00, <2>5, <2>6, <2>7, Zenon
  <2> QED BY <1>0, <2>4, <2>7, Zenon DEF UInv, Multiple
<1>3. ASSUME NEW v \in Voter, CancelAllVotes(v) PROVE UInv'
  <2>1. \A x \in Voter : voter'[x].deposit > 0 => voter'[x] = voter[x]
    BY <1>0, <1>3, ReleaseLock DEF CancelAllVotes
  <2> QED BY <1>1, <1>3, <2>1 DEF CancelAllVotes
<1>4. CASE RotateVote
  <2>1. Unlocking \in SUBSET Voter
    BY DEF Unlocking
  <2>2. \A x \in Voter : voter'[x].deposit > 0 => voter'[x] = voter[x]
    BY <1>0, <1>4, <2>1, ReleaseLock DEF RotateVote
  <2>3. cycleBegin' \in Nat /\ cycleBegin' <= now
    BY <1>0, <1>4, RotateFacts DEF RotateVote
  <2>4. Multiple(cycleBegin')
    <3>1. now - cycleBegin \in Nat
      BY <1>0
    <3>2. PICK q \in Nat : q = (now - cycleBegin) \div VoteCyclePeriod
      BY <3>1, DivisionFacts, PeriodAssumption
    <3>3. cycleBegin' = cycleBegin + q * VoteCyclePeriod
      BY <1>4, <3>2 DEF RotateVote, RotateTickCycle
    <3> QED BY <1>0, <3>3, MultipleFacts
  <2>5. ASSUME NEW x \in Voter, voter'[x].deposit > 0
        PROVE  Multiple(voter'[x].unlockTime) /\ cycleBegin' + VoteCyclePeriod <= voter'[x].unlockTime
    <3> DEFINE u == voter[x].unlockTime
    <3>1. /\ voter'[x] = voter[x] /\ voter[x].deposit > 0 /\ u \in Nat
          /\ Multiple(u) /\ cycleBegin + VoteCyclePeriod <= u
      BY <1>0, <1>00, <2>2, <2>5 DEF VoterRecord
    <3>2. x \notin Unlocking
      <4>1. voter' = [y \in Voter |-> IF y \in Unlocking THEN Cleared(voter[y]) ELSE voter[y]]
        BY <1>4 DEF RotateVote, Release
      <4>2. x \in Unlocking => voter'[x].deposit = 0
        BY <1>0, <4>1, ClearedFacts
      <4> QED BY <2>5, <4>2
    <3>3. ~(Diff(u, now) <= VoteUnlockPrecision)
      BY <3>1, <3>2 DEF Unlocking
    <3>4. now < u
      BY <1>0, <1>000, <3>1, <3>3 DEF Diff
    <3>5. cycleBegin' < u
      BY <1>0, <2>3, <3>1, <3>4
    <3> QED BY <2>3, <2>4, <3>1, <3>5, MultipleFacts
  <2> QED BY <2>4, <2>5, Zenon DEF UInv, Multiple
<1>5. CASE Tick
  BY <1>1, <1>5 DEF Tick
<1>6. CASE UNCHANGED vars
  BY <1>1, <1>6 DEF vars
<1>7. ASSUME NEW c \in Candidate, RegisterCandidate(c) PROVE UInv'
  BY <1>1, <1>7 DEF RegisterCandidate
<1>8. CASE ReceiveToken \/ GrantToken \/ Withdraw \/ SetPaused
  BY <1>1, <1>8 DEF ReceiveToken, GrantToken, Withdraw, TakeToken, SetPaused
<1> QED
  BY <1>2, <1>3, <1>4, <1>5, <1>6, <1>7, <1>8 DEF Next

(* As long as the owner has not paused and rotateVote is never later than the *)
(* precision, the unlocking invariant holds.                                  *)
PunctualInv == pauses = 0 /\ MaxDelay <= VoteUnlockPrecision => UInv

LEMMA PunctualAlways == Spec => []PunctualInv
<1>1. Init => PunctualInv
  BY UInvInit DEF PunctualInv
<1>2. AInv /\ UnpausedInv /\ PunctualInv /\ [Next]_vars => PunctualInv'
  <2> SUFFICES ASSUME AInv, UnpausedInv, PunctualInv, [Next]_vars,
                      pauses' = 0, MaxDelay <= VoteUnlockPrecision
               PROVE  UInv'
    BY DEF PunctualInv
  <2>1. pauses' = pauses \/ pauses' = pauses + 1
    BY Zenon DEF Next, vars, RegisterCandidate, VoteCandidate, CancelAllVotes, RotateVote,
           ReceiveToken, GrantToken, Withdraw, TakeToken, SetPaused, Tick
  <2>2. pauses = 0
    BY <2>1 DEF UnpausedInv
  <2>3. LInv /\ UInv
    BY <2>2 DEF UnpausedInv, PunctualInv
  <2> QED
    BY <2>3, UInvNext
<1> QED
  BY <1>1, <1>2, AInvAlways, UnpausedAlways, PTL DEF Spec

(* Without pauses, and with rotateVote no later than the precision, no        *)
(* deposit stays locked past its unlock time: _checkUnlockDeposit's window    *)
(* around the present, although it is open only when a cycle ends, misses     *)
(* none, because unlock times are ends of cycles.                             *)
THEOREM UnlockedInTimeAlways == Spec => []UnlockedInTime
<1>1. AInv /\ UnpausedInv /\ PunctualInv => UnlockedInTime
  <2> SUFFICES ASSUME AInv, UnpausedInv, PunctualInv, pauses = 0, MaxDelay <= VoteUnlockPrecision,
                      NEW v \in Voter, voter[v].deposit > 0
               PROVE  now <= voter[v].unlockTime + VoteUnlockPrecision
    BY DEF UnlockedInTime
  <2>1. cycleBegin + VoteCyclePeriod <= voter[v].unlockTime
    BY DEF PunctualInv, UInv
  <2>2. now <= cycleBegin + VoteCyclePeriod + MaxDelay
    BY DEF UnpausedInv, LInv
  <2>3. voter[v].unlockTime \in Nat /\ now \in Nat /\ cycleBegin \in Nat
    BY DEF AInv, VoterRecord
  <2> QED
    BY <2>1, <2>2, <2>3, PeriodAssumption
<1> QED
  BY <1>1, AInvAlways, UnpausedAlways, PunctualAlways, PTL

-----------------------------------------------------------------------------
(* Sums over the voters (SumOf), as sizes of finite sets of units.            *)
Units(f, S) == UNION {{v} \X (1 .. f[v]) : v \in S}

(* A unit of the sum is a voter with a number up to the voter's amount. *)
LEMMA UnitsMember ==
    ASSUME NEW f, NEW S, NEW p, p \in Units(f, S)
    PROVE  \E v \in S : \E i \in 1 .. f[v] : p = <<v, i>>
BY DEF Units

(* The units of finitely many voters are finitely many. *)
LEMMA SumType ==
    ASSUME NEW f \in [Voter -> Nat], NEW S \in SUBSET Voter
    PROVE  /\ IsFiniteSet(Units(f, S))
           /\ SumOf(f, S) = Cardinality(Units(f, S)) /\ SumOf(f, S) \in Nat
<1> DEFINE T == {{v} \X (1 .. f[v]) : v \in S}
           F == [v \in S |-> {v} \X (1 .. f[v])]
<1>1. IsFiniteSet(S)
  BY VoterAssumption, FS_Subset
<1>2. F \in Surjection(S, T)
  BY Zenon DEF Surjection
<1>3. IsFiniteSet(T)
  <2> HIDE DEF T, F
  <2> QED BY <1>1, <1>2, FS_Surjection
<1>4. ASSUME NEW v \in S PROVE IsFiniteSet({v} \X (1 .. f[v]))
  <2>1. f[v] \in Int
    OBVIOUS
  <2>2. IsFiniteSet(1 .. f[v])
    BY <2>1, FS_Interval
  <2>3. IsFiniteSet({v})
    BY FS_Singleton, Zenon
  <2> QED BY <2>2, <2>3, FS_Product
<1>5. \A U \in T : IsFiniteSet(U)
  BY <1>4
<1>6. IsFiniteSet(UNION T)
  <2> HIDE DEF T
  <2> QED BY <1>3, <1>5, FS_UNION
<1>7. IsFiniteSet(Units(f, S)) /\ SumOf(f, S) = Cardinality(Units(f, S))
  BY <1>6 DEF Units, SumOf
<1> QED BY <1>7, FS_CardinalityType

(* The sum over one voter is the voter's amount. *)
LEMMA SumOne ==
    ASSUME NEW f \in [Voter -> Nat], NEW v \in Voter
    PROVE  SumOf(f, {v}) = f[v]
<1>1. Units(f, {v}) = {v} \X (1 .. f[v])
  BY DEF Units
<1>2. f[v] \in Nat /\ 1 \in Int /\ f[v] \in Int
  OBVIOUS
<1>3. IsFiniteSet(1 .. f[v]) /\ Cardinality(1 .. f[v]) = f[v]
  <2>1. Cardinality(1 .. f[v]) = IF 1 > f[v] THEN 0 ELSE f[v] - 1 + 1
    BY <1>2, FS_Interval
  <2>2. IsFiniteSet(1 .. f[v])
    BY <1>2, FS_Interval
  <2> QED BY <1>2, <2>1, <2>2
<1>4. IsFiniteSet({v}) /\ Cardinality({v}) = 1
  BY FS_Singleton, Zenon
<1>5. Cardinality({v} \X (1 .. f[v])) = 1 * f[v]
  BY <1>3, <1>4, FS_Product
<1>6. SumOf(f, {v}) = Cardinality(Units(f, {v}))
  BY SumType
<1> QED BY <1>1, <1>2, <1>5, <1>6

(* The sum over two groups of voters is the sum of their sums. *)
LEMMA SumSplit ==
    ASSUME NEW f \in [Voter -> Nat], NEW S \in SUBSET Voter, NEW T \in SUBSET Voter, S \cap T = {}
    PROVE  SumOf(f, S \cup T) = SumOf(f, S) + SumOf(f, T)
<1>1. Units(f, S \cup T) = Units(f, S) \cup Units(f, T)
  BY DEF Units
<1>2. Units(f, S) \cap Units(f, T) = {}
  <2>1. ASSUME NEW p, p \in Units(f, S), p \in Units(f, T) PROVE FALSE
    <3>1. PICK v \in S : \E i \in 1 .. f[v] : p = <<v, i>>
      BY <2>1, UnitsMember
    <3>2. PICK w \in T : \E i \in 1 .. f[w] : p = <<w, i>>
      BY <2>1, UnitsMember
    <3>3. v = w
      BY <3>1, <3>2
    <3> QED BY <3>3
  <2> QED BY <2>1
<1>3. /\ IsFiniteSet(Units(f, S)) /\ SumOf(f, S) = Cardinality(Units(f, S)) /\ SumOf(f, S) \in Nat
      /\ IsFiniteSet(Units(f, T)) /\ SumOf(f, T) = Cardinality(Units(f, T)) /\ SumOf(f, T) \in Nat
      /\ SumOf(f, S \cup T) = Cardinality(Units(f, S \cup T))
  BY SumType
<1>4. Cardinality(Units(f, S) \cup Units(f, T)) =
        Cardinality(Units(f, S)) + Cardinality(Units(f, T)) - Cardinality(Units(f, S) \cap Units(f, T))
  BY <1>3, FS_Union, Zenon
<1>5. Cardinality(Units(f, S) \cap Units(f, T)) = 0
  BY <1>2, FS_EmptySet, Zenon
<1>6. SumOf(f, S \cup T) = SumOf(f, S) + SumOf(f, T) - 0
  BY <1>1, <1>3, <1>4, <1>5, Zenon
<1> QED BY <1>3, <1>6

(* The sum depends on the amounts of the group only. *)
LEMMA SumSame ==
    ASSUME NEW f, NEW g, NEW S, \A v \in S : f[v] = g[v]
    PROVE  SumOf(f, S) = SumOf(g, S)
<1>1. {{v} \X (1 .. f[v]) : v \in S} = {{v} \X (1 .. g[v]) : v \in S}
  OBVIOUS
<1> QED BY <1>1, Zenon DEF SumOf

(* Without amounts the sum is zero. *)
LEMMA SumZero ==
    ASSUME NEW f, NEW S, \A v \in S : f[v] = 0
    PROVE  SumOf(f, S) = 0
<1>1. \A p : p \notin Units(f, S)
  <2>1. \A v \in S : 1 .. f[v] = {}
    OBVIOUS
  <2> QED BY <2>1, UnitsMember
<1>2. Units(f, S) = {}
  BY <1>1
<1> QED BY <1>2, FS_EmptySet DEF SumOf, Units

(* Changing one voter's amount changes the sum by as much. *)
LEMMA SumChange ==
    ASSUME NEW f \in [Voter -> Nat], NEW g \in [Voter -> Nat], NEW v \in Voter,
           \A x \in Voter \ {v} : g[x] = f[x]
    PROVE  /\ SumOf(g, Voter) = SumOf(f, Voter) - f[v] + g[v]
           /\ f[v] <= SumOf(f, Voter)
<1> DEFINE R == Voter \ {v}
<1>1. Voter = R \cup {v} /\ R \cap {v} = {} /\ R \in SUBSET Voter /\ {v} \in SUBSET Voter
  OBVIOUS
<1>2. SumOf(f, R \cup {v}) = SumOf(f, R) + SumOf(f, {v})
  BY <1>1, SumSplit
<1>3. SumOf(g, R \cup {v}) = SumOf(g, R) + SumOf(g, {v})
  BY <1>1, SumSplit
<1>4. SumOf(f, {v}) = f[v] /\ SumOf(g, {v}) = g[v]
  BY SumOne
<1>5. SumOf(f, R) = SumOf(g, R)
  <2>1. \A x \in R : f[x] = g[x]
    OBVIOUS
  <2> QED BY <2>1, SumSame
<1>6. SumOf(f, R) \in Nat /\ f[v] \in Nat /\ g[v] \in Nat
  BY <1>1, SumType
<1> HIDE DEF R
<1> QED BY <1>1, <1>2, <1>3, <1>4, <1>5, <1>6

(* Clearing the amounts of a group takes their sum from the whole. *)
LEMMA SumCleared ==
    ASSUME NEW f \in [Voter -> Nat], NEW g \in [Voter -> Nat], NEW S \in SUBSET Voter,
           \A x \in S : g[x] = 0, \A x \in Voter \ S : g[x] = f[x]
    PROVE  /\ SumOf(g, Voter) = SumOf(f, Voter) - SumOf(f, S)
           /\ SumOf(f, S) \in Nat /\ SumOf(f, Voter) \in Nat
<1> DEFINE R == Voter \ S
<1>1. Voter = R \cup S /\ R \cap S = {} /\ R \in SUBSET Voter
  OBVIOUS
<1>2. SumOf(f, R \cup S) = SumOf(f, R) + SumOf(f, S)
  BY <1>1, SumSplit
<1>3. SumOf(g, R \cup S) = SumOf(g, R) + SumOf(g, S)
  BY <1>1, SumSplit
<1>4. SumOf(g, S) = 0
  BY SumZero
<1>5. SumOf(f, R) = SumOf(g, R)
  <2>1. \A x \in R : f[x] = g[x]
    OBVIOUS
  <2> QED BY <2>1, SumSame
<1>6. SumOf(f, R) \in Nat /\ SumOf(f, S) \in Nat /\ SumOf(f, Voter) \in Nat
  BY <1>1, SumType
<1> HIDE DEF R
<1> QED BY <1>1, <1>2, <1>3, <1>4, <1>5, <1>6

-----------------------------------------------------------------------------
(* The tickets. A recorded vote is for a registered candidate that the       *)
(* voter's array lists; while no array lists a candidate twice, cancelling    *)
(* takes back exactly the recorded votes. BokerFinance has received every     *)
(* deposit it has not paid back.                                             *)
VotesFor(vt, c) == [v \in Voter |-> vt[v].votes[c]]
Deposits(vt) == [v \in Voter |-> vt[v].deposit]
Listed(w, c) == \E i \in DOMAIN w.array : w.array[i] = c

TInv ==
    /\ Registered \subseteq Candidate /\ \A c \in Registered : tickets[c] \in Nat
    /\ finance \in Nat /\ drawn \in Nat
    /\ SumOf(Deposits(voter), Voter) <= finance + drawn
    /\ \A v \in Voter, c \in Candidate :
          voter[v].votes[c] # 0 => c \in Registered /\ Listed(voter[v], c)
    /\ VotedOnce => \A c \in Registered : tickets[c] = SumOf(VotesFor(voter, c), Voter)

(* Amounts of records are natural numbers. *)
LEMMA SumFunctions ==
    ASSUME NEW vt \in [Voter -> VoterRecord], NEW c \in Candidate
    PROVE  VotesFor(vt, c) \in [Voter -> Nat] /\ Deposits(vt) \in [Voter -> Nat]
<1>1. \A v \in Voter : vt[v] \in VoterRecord
  OBVIOUS
<1>2. \A w \in VoterRecord : w.votes[c] \in Nat /\ w.deposit \in Nat
  BY DEF VoterRecord
<1> QED BY <1>1, <1>2 DEF VotesFor, Deposits

LEMMA DepositsFunction ==
    ASSUME NEW vt \in [Voter -> VoterRecord]
    PROVE  Deposits(vt) \in [Voter -> Nat]
BY DEF Deposits, VoterRecord

(* What cancelling takes back from a candidate that is listed at most once. *)
LEMMA WithdrawnFacts ==
    ASSUME NEW w \in VoterRecord, NEW c \in Candidate
    PROVE  /\ Withdrawn(w, c) \in Nat
           /\ IsInjective(w.array) /\ (w.votes[c] # 0 => Listed(w, c)) =>
                 Withdrawn(w, c) = w.votes[c]
<1> DEFINE I == {i \in DOMAIN w.array : w.array[i] = c}
<1>1. w.votes[c] \in Nat /\ w.array \in Seq(Candidate)
  BY DEF VoterRecord
<1>2. DOMAIN w.array = 1 .. Len(w.array) /\ Len(w.array) \in Nat
  BY <1>1
<1>3. IsFiniteSet(DOMAIN w.array)
  BY <1>2, FS_Interval
<1>4. IsFiniteSet(I)
  <2>1. I \in SUBSET DOMAIN w.array
    OBVIOUS
  <2> QED BY <1>3, <2>1, FS_Subset
<1>5. Cardinality(I) \in Nat
  <2> HIDE DEF I
  <2> QED BY <1>4, FS_CardinalityType
<1>6. Withdrawn(w, c) = w.votes[c] * Cardinality(I)
  BY DEF Withdrawn
<1>7. ASSUME IsInjective(w.array), Listed(w, c) PROVE Cardinality(I) = 1
  <2>1. PICK i \in DOMAIN w.array : w.array[i] = c
    BY <1>7 DEF Listed
  <2>2. I = {i}
    BY <1>7, <2>1 DEF IsInjective
  <2> QED BY <2>2, FS_Singleton
<1> HIDE DEF I
<1>8. Withdrawn(w, c) \in Nat
  BY <1>1, <1>5, <1>6
<1>9. ASSUME IsInjective(w.array), w.votes[c] # 0 => Listed(w, c)
      PROVE  Withdrawn(w, c) = w.votes[c]
  <2>1. CASE w.votes[c] = 0
    BY <1>5, <1>6, <2>1
  <2>2. CASE w.votes[c] # 0
    BY <1>1, <1>6, <1>7, <1>9, <2>2
  <2> QED BY <2>1, <2>2
<1> QED BY <1>8, <1>9

(* A list that gets one more candidate. *)
LEMMA AppendFacts ==
    ASSUME NEW a \in Seq(Candidate), NEW c \in Candidate, NEW w, w.array = Append(a, c)
    PROVE  /\ Listed(w, c)
           /\ \A i \in DOMAIN a : Listed(w, a[i])
           /\ IsInjective(w.array) => IsInjective(a) /\ \A i \in DOMAIN a : a[i] # c
<1> DEFINE b == Append(a, c)
           n == Len(a)
<1>1. n \in Nat /\ DOMAIN a = 1 .. n
  OBVIOUS
<1>2. DOMAIN b = 1 .. n + 1 /\ b[n + 1] = c /\ \A i \in 1 .. n : b[i] = a[i]
  OBVIOUS
<1> HIDE DEF b, n
<1>3. w.array = b
  BY DEF b
<1>4. n + 1 \in DOMAIN b /\ \A i \in DOMAIN a : i \in DOMAIN b /\ b[i] = a[i] /\ i # n + 1
  BY <1>1, <1>2
<1>5. Listed(w, c) /\ \A i \in DOMAIN a : Listed(w, a[i])
  BY <1>2, <1>3, <1>4, Zenon DEF Listed
<1>6. ASSUME IsInjective(b) PROVE IsInjective(a) /\ \A i \in DOMAIN a : a[i] # c
  <2>1. \A i \in DOMAIN a : a[i] # c
    BY <1>2, <1>4, <1>6, Zenon DEF IsInjective
  <2>2. IsInjective(a)
    BY <1>4, <1>6, Zenon DEF IsInjective
  <2> QED BY <2>1, <2>2
<1> QED BY <1>3, <1>5, <1>6

(* At deployment there are neither candidates nor votes. *)
LEMMA TInvInit == Init => TInv
<1> SUFFICES ASSUME Init PROVE TInv
  OBVIOUS
<1>1. /\ Registered = {} /\ finance = 0 /\ drawn = 0
      /\ \A v \in Voter : voter[v] = Stranger
  BY DEF Init, Registered
<1>2. Stranger.deposit = 0 /\ \A c \in Candidate : Stranger.votes[c] = 0
  BY DEF Stranger
<1>3. SumOf(Deposits(voter), Voter) = 0
  <2>1. \A v \in Voter : Deposits(voter)[v] = 0
    BY <1>1, <1>2 DEF Deposits
  <2> QED BY <2>1, SumZero
<1>4. \A v \in Voter, c \in Candidate : voter[v].votes[c] = 0
  BY <1>1, <1>2
<1> QED BY <1>1, <1>3, <1>4 DEF TInv

(* registerCandidate gives a new candidate no tickets, and nobody has voted   *)
(* for it yet.                                                               *)
LEMMA RegisterTickets ==
    ASSUME TInv, voter \in [Voter -> VoterRecord], NEW c \in Candidate, RegisterCandidate(c)
    PROVE  TInv'
<1>1. /\ tickets' = [d \in Registered \cup {c} |-> IF d \in Registered THEN tickets[d] ELSE 0]
      /\ UNCHANGED <<voter, finance, drawn>>
  BY DEF RegisterCandidate
<1>2. Registered' = Registered \cup {c}
  BY <1>1 DEF Registered
<1>3. \A d \in Registered' : tickets'[d] = IF d \in Registered THEN tickets[d] ELSE 0
  BY <1>1, <1>2
<1>4. c \notin Registered => SumOf(VotesFor(voter, c), Voter) = 0
  <2>1. ASSUME c \notin Registered, NEW v \in Voter PROVE VotesFor(voter, c)[v] = 0
    BY <2>1 DEF TInv, VotesFor
  <2> QED BY <2>1, SumZero
<1>5. ASSUME VotedOnce', NEW d \in Registered' PROVE tickets'[d] = SumOf(VotesFor(voter', d), Voter)
  <2>1. VotedOnce
    BY <1>1, <1>5 DEF VotedOnce
  <2>2. CASE d \in Registered
    BY <1>1, <1>3, <1>5, <2>1, <2>2, Zenon DEF TInv
  <2>3. CASE d \notin Registered
    BY <1>1, <1>2, <1>3, <1>4, <1>5, <2>3
  <2> QED BY <2>2, <2>3
<1>6. /\ Registered' \subseteq Candidate /\ \A d \in Registered' : tickets'[d] \in Nat
      /\ finance' \in Nat /\ drawn' \in Nat
      /\ SumOf(Deposits(voter'), Voter) <= finance' + drawn'
  BY <1>1, <1>2, <1>3, Zenon DEF TInv
<1>7. \A v \in Voter, d \in Candidate :
         voter'[v].votes[d] # 0 => d \in Registered' /\ Listed(voter'[v], d)
  BY <1>1, <1>2 DEF TInv
<1> QED BY <1>5, <1>6, <1>7 DEF TInv

(* voteCandidate adds the sent tokens to the candidate's tickets and to the   *)
(* voter's recorded vote, which was zero if the array stays free of repeats.  *)
LEMMA VoteTickets ==
    ASSUME TInv, voter \in [Voter -> VoterRecord], cycleBegin \in Nat,
           NEW v \in Voter, NEW c \in Candidate, NEW t \in Tokens, VoteCandidate(v, c, t)
    PROVE  TInv'
<1>0. /\ Registered \subseteq Candidate /\ \A d \in Registered : tickets[d] \in Nat
      /\ finance \in Nat /\ drawn \in Nat
      /\ SumOf(Deposits(voter), Voter) <= finance + drawn
  BY DEF TInv
<1>00. \A x \in Voter, d \in Candidate :
          voter[x].votes[d] # 0 => d \in Registered /\ Listed(voter[x], d)
  BY DEF TInv
<1>1. PICK w : w = RecordVote(voter[v], c, t)
  OBVIOUS
<1>2. t \in Nat /\ voter[v] \in VoterRecord
  BY AmountAssumption
<1>3. /\ w \in VoterRecord /\ w.deposit = voter[v].deposit + t
      /\ w.votes = [voter[v].votes EXCEPT ![c] = t] /\ w.array = Append(voter[v].array, c)
  <2>1. PICK z \in VoterRecord : z = voter[v]
    BY <1>2
  <2>2. /\ RecordVote(z, c, t) \in VoterRecord /\ RecordVote(z, c, t).deposit = z.deposit + t
        /\ RecordVote(z, c, t).votes = [z.votes EXCEPT ![c] = t]
        /\ RecordVote(z, c, t).array = Append(z.array, c)
    BY <1>2, RecordVoteAll
  <2> QED BY <1>1, <2>1, <2>2
<1>4. /\ c \in Registered /\ finance' = finance + t /\ drawn' = drawn
      /\ voter' = [voter EXCEPT ![v] = w] /\ tickets' = [tickets EXCEPT ![c] = @ + t]
  BY <1>1 DEF VoteCandidate
<1>5. /\ voter'[v] = w /\ \A x \in Voter \ {v} : voter'[x] = voter[x]
      /\ voter' \in [Voter -> VoterRecord]
  BY <1>3, <1>4
<1>6. /\ Registered' = Registered /\ tickets'[c] = tickets[c] + t
      /\ \A d \in Registered \ {c} : tickets'[d] = tickets[d]
  BY <1>4 DEF Registered
<1>7. /\ voter[v].votes \in [Candidate -> Nat] /\ voter[v].array \in Seq(Candidate)
      /\ voter[v].deposit \in Nat
  BY <1>2 DEF VoterRecord
<1>8. w.votes[c] = t /\ \A d \in Candidate \ {c} : w.votes[d] = voter[v].votes[d]
  BY <1>3, <1>7
<1>9. /\ Listed(w, c) /\ \A i \in DOMAIN voter[v].array : Listed(w, voter[v].array[i])
      /\ IsInjective(w.array) =>
            IsInjective(voter[v].array) /\ \A i \in DOMAIN voter[v].array : voter[v].array[i] # c
  BY <1>3, <1>7, AppendFacts, Zenon
<1>10. SumOf(Deposits(voter'), Voter) <= finance' + drawn'
  <2>1. Deposits(voter) \in [Voter -> Nat] /\ Deposits(voter') \in [Voter -> Nat]
    BY <1>5, DepositsFunction
  <2>2. /\ Deposits(voter')[v] = Deposits(voter)[v] + t /\ Deposits(voter)[v] \in Nat
        /\ \A x \in Voter \ {v} : Deposits(voter')[x] = Deposits(voter)[x]
    BY <1>3, <1>5, <1>7 DEF Deposits
  <2>3. SumOf(Deposits(voter'), Voter) =
           SumOf(Deposits(voter), Voter) - Deposits(voter)[v] + Deposits(voter')[v]
    BY <2>1, <2>2, SumChange, Zenon
  <2>4. SumOf(Deposits(voter), Voter) \in Nat
    BY <2>1, SumType
  <2> QED BY <1>0, <1>2, <1>4, <2>2, <2>3, <2>4
<1>11. ASSUME NEW x \in Voter, NEW d \in Candidate, voter'[x].votes[d] # 0
       PROVE  d \in Registered' /\ Listed(voter'[x], d)
  <2>1. CASE x # v
    BY <1>00, <1>5, <1>6, <1>11, <2>1
  <2>2. CASE x = v /\ d = c
    BY <1>4, <1>5, <1>6, <1>9, <2>2
  <2>3. CASE x = v /\ d # c
    <3>1. voter[v].votes[d] # 0
      BY <1>5, <1>8, <1>11, <2>3
    <3>2. d \in Registered /\ Listed(voter[v], d)
      BY <1>00, <3>1
    <3>3. Listed(w, d)
      BY <1>9, <3>2, Zenon DEF Listed
    <3> QED BY <1>5, <1>6, <2>3, <3>2, <3>3, Zenon
  <2> QED BY <2>1, <2>2, <2>3
<1>12. ASSUME VotedOnce', NEW d \in Registered'
       PROVE  tickets'[d] = SumOf(VotesFor(voter', d), Voter)
  <2> DEFINE f == VotesFor(voter, d)
             g == VotesFor(voter', d)
  <2>1. IsInjective(w.array) /\ \A x \in Voter \ {v} : IsInjective(voter[x].array)
    BY <1>5, <1>12 DEF VotedOnce
  <2>2. VotedOnce
    BY <1>9, <2>1 DEF VotedOnce
  <2>3. tickets[d] = SumOf(f, Voter) /\ d \in Candidate /\ d \in Registered
    BY <1>0, <1>6, <1>12, <2>2 DEF TInv
  <2>4. f \in [Voter -> Nat] /\ g \in [Voter -> Nat]
    BY <1>5, <2>3, SumFunctions
  <2>5. /\ f[v] = voter[v].votes[d] /\ g[v] = w.votes[d] /\ f[v] \in Nat
        /\ \A x \in Voter \ {v} : g[x] = f[x]
    BY <1>5, <1>7, <2>3 DEF VotesFor
  <2>6. SumOf(g, Voter) = SumOf(f, Voter) - f[v] + g[v] /\ SumOf(f, Voter) \in Nat
    <3> HIDE DEF f, g
    <3>1. SumOf(g, Voter) = SumOf(f, Voter) - f[v] + g[v]
      BY <2>4, <2>5, SumChange, Zenon
    <3>2. SumOf(f, Voter) \in Nat
      BY <2>4, SumType
    <3> QED BY <3>1, <3>2
  <2> HIDE DEF f, g
  <2>7. CASE d = c
    <3>1. voter[v].votes[c] = 0
      BY <1>00, <1>9, <2>1, Zenon DEF Listed
    <3> QED BY <1>2, <1>6, <1>8, <2>3, <2>5, <2>6, <2>7, <3>1, SMTT(90) DEF g
  <2>8. CASE d # c
    BY <1>6, <1>8, <2>3, <2>5, <2>6, <2>8, SMTT(30) DEF g
  <2> QED BY <2>7, <2>8
<1>13. /\ Registered' \subseteq Candidate /\ \A d \in Registered' : tickets'[d] \in Nat
       /\ finance' \in Nat /\ drawn' \in Nat
  BY <1>0, <1>2, <1>4, <1>6
<1> QED BY <1>10, <1>11, <1>12, <1>13, Zenon DEF TInv

(* _cancelAllVotes takes from every candidate what the released voters have   *)
(* recorded for it, and BokerFinance pays their deposits.                    *)
LEMMA ReleaseTickets ==
    ASSUME TInv, voter \in [Voter -> VoterRecord], NEW S \in SUBSET Voter, Release(S),
           drawn' = drawn
    PROVE  TInv'
<1>0. /\ Registered \subseteq Candidate /\ \A c \in Registered : tickets[c] \in Nat
      /\ finance \in Nat /\ drawn \in Nat
      /\ SumOf(Deposits(voter), Voter) <= finance + drawn
  BY Zenon DEF TInv
<1>00. \A x \in Voter, c \in Candidate :
          voter[x].votes[c] # 0 => c \in Registered /\ Listed(voter[x], c)
  BY DEF TInv
<1>1. /\ \A c \in Registered : TakenBack(S, c) <= tickets[c]
      /\ Total(S) <= finance /\ finance' = finance - Total(S)
      /\ tickets' = [c \in Registered |-> tickets[c] - TakenBack(S, c)]
      /\ voter' = [v \in Voter |-> IF v \in S THEN Cleared(voter[v]) ELSE voter[v]]
  BY DEF Release, CanRelease
<1>2. /\ \A v \in Voter \ S : voter'[v] = voter[v]
      /\ \A v \in S : voter'[v] = Cleared(voter[v]) /\ voter[v] \in VoterRecord
  BY <1>1
<1>3. \A v \in S : /\ voter'[v] \in VoterRecord /\ voter'[v].deposit = 0
                   /\ voter'[v].votes = [c \in Candidate |-> 0]
                   /\ voter'[v].array = voter[v].array
  BY <1>2, ClearedFacts
<1>4. /\ voter' \in [Voter -> VoterRecord]
      /\ \A v \in S : \A c \in Candidate : voter'[v].votes[c] = 0
      /\ \A v \in Voter : voter'[v].array = voter[v].array
  <2>1. voter' \in [Voter -> VoterRecord]
    BY <1>1, <1>2, <1>3
  <2>2. \A v \in S : \A c \in Candidate : voter'[v].votes[c] = 0
    BY <1>3
  <2>3. \A v \in Voter : voter'[v].array = voter[v].array
    BY <1>2, <1>3
  <2> QED BY <2>1, <2>2, <2>3
<1>5. Registered' = Registered /\ \A c \in Registered : tickets'[c] = tickets[c] - TakenBack(S, c)
  BY <1>1 DEF Registered
<1>6. /\ SumOf(Deposits(voter'), Voter) = SumOf(Deposits(voter), Voter) - Total(S)
      /\ Total(S) \in Nat /\ SumOf(Deposits(voter), Voter) \in Nat
  <2> DEFINE f == Deposits(voter)
             g == Deposits(voter')
  <2>1. f \in [Voter -> Nat] /\ g \in [Voter -> Nat]
    BY <1>4, DepositsFunction
  <2>2. (\A x \in S : g[x] = 0) /\ (\A x \in Voter \ S : g[x] = f[x])
    BY <1>2, <1>3 DEF Deposits
  <2>3. Total(S) = SumOf(f, S)
    BY DEF Total, Deposits
  <2> HIDE DEF f, g
  <2>4. SumOf(g, Voter) = SumOf(f, Voter) - SumOf(f, S) /\ SumOf(f, S) \in Nat /\ SumOf(f, Voter) \in Nat
    BY <2>1, <2>2, SumCleared, Zenon
  <2> QED BY <2>3, <2>4 DEF f, g
<1>7. finance' \in Nat /\ SumOf(Deposits(voter'), Voter) <= finance' + drawn'
  BY <1>0, <1>1, <1>6
<1>8. ASSUME NEW c \in Candidate
      PROVE  /\ TakenBack(S, c) \in Nat
             /\ VotedOnce => TakenBack(S, c) = SumOf(VotesFor(voter, c), S)
  <2> DEFINE h == [v \in Voter |-> Withdrawn(voter[v], c)]
  <2>1. \A v \in Voter : h[v] \in Nat
    BY WithdrawnFacts
  <2>2. h \in [Voter -> Nat]
    BY <2>1
  <2>3. TakenBack(S, c) = SumOf(h, S)
    BY DEF TakenBack
  <2>4. ASSUME VotedOnce, NEW v \in S PROVE h[v] = VotesFor(voter, c)[v]
    <3>1. v \in Voter /\ voter[v] \in VoterRecord /\ IsInjective(voter[v].array)
      BY <2>4 DEF VotedOnce
    <3>2. Withdrawn(voter[v], c) = voter[v].votes[c]
      BY <1>00, <3>1, WithdrawnFacts, Zenon
    <3> QED BY <3>1, <3>2 DEF VotesFor
  <2> HIDE DEF h
  <2>5. SumOf(h, S) \in Nat
    BY <2>2, SumType
  <2>6. VotedOnce => SumOf(h, S) = SumOf(VotesFor(voter, c), S)
    BY <2>4, SumSame
  <2> QED BY <2>3, <2>5, <2>6
<1>9. \A c \in Registered' : tickets'[c] \in Nat
  BY <1>0, <1>1, <1>5, <1>8
<1>10. ASSUME NEW x \in Voter, NEW c \in Candidate, voter'[x].votes[c] # 0
       PROVE  c \in Registered' /\ Listed(voter'[x], c)
  BY <1>00, <1>2, <1>4, <1>5, <1>10
<1>11. ASSUME VotedOnce', NEW c \in Registered'
       PROVE  tickets'[c] = SumOf(VotesFor(voter', c), Voter)
  <2> DEFINE f == VotesFor(voter, c)
             g == VotesFor(voter', c)
  <2>1. VotedOnce
    BY <1>4, <1>11, Zenon DEF VotedOnce
  <2>2. c \in Registered /\ c \in Candidate /\ tickets[c] = SumOf(f, Voter)
    BY <1>0, <1>5, <1>11, <2>1 DEF TInv
  <2>3. f \in [Voter -> Nat] /\ g \in [Voter -> Nat]
    BY <1>4, <2>2, SumFunctions, Zenon
  <2>4. (\A x \in S : g[x] = 0) /\ (\A x \in Voter \ S : g[x] = f[x])
    BY <1>2, <1>4, <2>2 DEF VotesFor
  <2>5. tickets'[c] = tickets[c] - SumOf(f, S)
    BY <1>5, <1>8, <2>1, <2>2
  <2> HIDE DEF f, g
  <2>6. SumOf(g, Voter) = SumOf(f, Voter) - SumOf(f, S)
    BY <2>3, <2>4, SumCleared, Zenon
  <2> QED BY <2>2, <2>5, <2>6, Zenon DEF g
<1> QED BY <1>0, <1>5, <1>7, <1>9, <1>10, <1>11, Zenon DEF TInv

(* Every call, transfer and tick keeps the tickets. *)
LEMMA TInvNext == AInv /\ TInv /\ [Next]_vars => TInv'
<1> SUFFICES ASSUME AInv, TInv, [Next]_vars PROVE TInv'
  OBVIOUS
<1>0. voter \in [Voter -> VoterRecord] /\ cycleBegin \in Nat
  BY DEF AInv
<1>1. ASSUME UNCHANGED <<tickets, voter>>, finance' \in Nat, drawn' \in Nat,
             finance' + drawn' >= finance + drawn
      PROVE  TInv'
  <2>1. SumOf(Deposits(voter), Voter) \in Nat /\ finance \in Nat /\ drawn \in Nat
    <3>1. Deposits(voter) \in [Voter -> Nat]
      BY <1>0, DepositsFunction
    <3> QED BY <3>1, SumType, Zenon DEF TInv
  <2>2. SumOf(Deposits(voter'), Voter) <= finance' + drawn'
    <3>1. SumOf(Deposits(voter'), Voter) = SumOf(Deposits(voter), Voter)
      BY <1>1, Zenon DEF Deposits
    <3>2. SumOf(Deposits(voter), Voter) <= finance + drawn
      BY DEF TInv
    <3>3. \A a, b, c, d, e \in Nat : a <= b + c /\ d + e >= b + c => a <= d + e
      OBVIOUS
    <3>4. SumOf(Deposits(voter), Voter) <= finance' + drawn'
      BY <1>1, <2>1, <3>2, <3>3, Zenon
    <3> QED BY <3>1, <3>4, Zenon
  <2>3. Registered' = Registered /\ (VotedOnce' <=> VotedOnce)
    BY <1>1 DEF Registered, VotedOnce
  <2> QED BY <1>1, <2>2, <2>3 DEF TInv
<1>2. finance \in Nat /\ drawn \in Nat
  BY DEF TInv
<1>3. ASSUME NEW c \in Candidate, RegisterCandidate(c) PROVE TInv'
  BY <1>0, <1>3, RegisterTickets
<1>4. ASSUME NEW v \in Voter, NEW c \in Candidate, NEW t \in Tokens, VoteCandidate(v, c, t)
      PROVE  TInv'
  BY <1>0, <1>4, VoteTickets
<1>5. ASSUME NEW v \in Voter, CancelAllVotes(v) PROVE TInv'
  BY <1>0, <1>5, ReleaseTickets DEF CancelAllVotes
<1>6. CASE RotateVote
  <2>1. Unlocking \in SUBSET Voter
    BY DEF Unlocking
  <2> QED BY <1>0, <1>6, <2>1, ReleaseTickets DEF RotateVote
<1>7. CASE ReceiveToken \/ SetPaused \/ Tick \/ UNCHANGED vars
  BY <1>1, <1>2, <1>7 DEF ReceiveToken, SetPaused, Tick, vars
<1>8. CASE GrantToken \/ Withdraw
  <2>1. PICK a \in 0 .. finance : TakeToken(a)
    BY <1>2, <1>8 DEF GrantToken, Withdraw
  <2>2. finance' \in Nat /\ drawn' \in Nat /\ finance' + drawn' >= finance + drawn
    BY <1>2, <2>1 DEF TakeToken
  <2> QED BY <1>1, <2>1, <2>2 DEF TakeToken
<1> QED
  BY <1>3, <1>4, <1>5, <1>6, <1>7, <1>8 DEF Next

(* The ticket invariant holds in every reachable state. *)
THEOREM TInvAlways == Spec => []TInv
BY TInvInit, TInvNext, AInvAlways, PTL DEF Spec

(* As long as no voter votes twice for the same candidate, a candidate's      *)
(* tickets are the sum of the votes recorded for it, through any votes,       *)
(* cancellations, unlockings and calls that revert.                          *)
THEOREM TicketsExactAlways == Spec => []TicketsExact
<1>1. TInv => TicketsExact
  BY DEF TInv, TicketsExact, VotesFor
<1> QED BY <1>1, TInvAlways, PTL

(* As long as no voter votes twice for the same candidate, cancelAllVotes     *)
(* cannot revert for lack of tickets, and for lack of tokens only when        *)
(* assignToken or withdraw took them out of BokerFinance.                    *)
THEOREM CancelPossibleAlways == Spec => []CancelPossible
<1>1. AInv /\ TInv => CancelPossible
  <2> SUFFICES ASSUME AInv, TInv, VotedOnce, NEW v \in Voter
               PROVE  \/ CanRelease({v})
                      \/ finance < voter[v].deposit /\ Total(Voter) <= finance + drawn
    BY DEF CancelPossible
  <2>1. voter \in [Voter -> VoterRecord] /\ voter[v] \in VoterRecord
    BY DEF AInv
  <2>2. ASSUME NEW c \in Registered PROVE TakenBack({v}, c) <= tickets[c]
    <3> DEFINE f == VotesFor(voter, c)
               h == [x \in Voter |-> Withdrawn(voter[x], c)]
    <3>1. c \in Candidate /\ tickets[c] = SumOf(f, Voter)
      BY DEF TInv
    <3>2. h \in [Voter -> Nat]
      BY <2>1, <3>1, WithdrawnFacts
    <3>3. f \in [Voter -> Nat]
      BY <2>1, <3>1, SumFunctions
    <3>4. h[v] = f[v]
      <4>1. IsInjective(voter[v].array) /\ (voter[v].votes[c] # 0 => Listed(voter[v], c))
        BY <3>1, Zenon DEF VotedOnce, TInv
      <4>2. Withdrawn(voter[v], c) = voter[v].votes[c]
        BY <2>1, <3>1, <4>1, WithdrawnFacts, Zenon
      <4> QED BY <4>2 DEF VotesFor
    <3>5. TakenBack({v}, c) = SumOf(h, {v})
      BY DEF TakenBack
    <3> HIDE DEF f, h
    <3>6. SumOf(h, {v}) = h[v]
      BY <3>2, SumOne
    <3>7. f[v] <= SumOf(f, Voter)
      BY <3>3, SumChange
    <3> QED BY <3>1, <3>4, <3>5, <3>6, <3>7
  <2>3. /\ voter[v].deposit \in Nat /\ finance \in Nat
        /\ Total({v}) = voter[v].deposit /\ Total(Voter) <= finance + drawn
    <3> DEFINE f == Deposits(voter)
    <3>1. f \in [Voter -> Nat]
      BY <2>1, DepositsFunction
    <3>2. Total({v}) = SumOf(f, {v}) /\ Total(Voter) = SumOf(f, Voter)
      BY DEF Total, Deposits
    <3>3. SumOf(f, Voter) <= finance + drawn /\ finance \in Nat
      BY DEF TInv
    <3>4. f[v] = voter[v].deposit
      BY DEF Deposits
    <3> HIDE DEF f
    <3>5. SumOf(f, {v}) = f[v] /\ f[v] \in Nat
      BY <3>1, SumOne
    <3> QED BY <3>2, <3>3, <3>4, <3>5, Zenon
  <2>4. CASE voter[v].deposit <= finance
    <3>1. Total({v}) <= finance
      BY <2>3, <2>4, Zenon
    <3> QED BY <2>2, <3>1, Zenon DEF CanRelease
  <2>5. CASE ~(voter[v].deposit <= finance)
    <3>1. finance < voter[v].deposit
      BY <2>3, <2>5
    <3> QED BY <2>3, <3>1, Zenon
  <2> QED BY <2>4, <2>5, Zenon
<1> QED BY <1>1, AInvAlways, TInvAlways, PTL
=============================================================================
