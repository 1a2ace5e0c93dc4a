------------------------- MODULE BokerServiceProof -------------------------
(***************************************************************************)
(* Proofs about BokerService, for any number of nodes, any validator list   *)
(* and any intervals: a second sees one assignToken transaction at most,    *)
(* and a node is at the contract's vote round if and only if it missed none. *)
(***************************************************************************)
EXTENDS BokerService, TLAPS

TypeInv ==
    /\ assigner \in [Node -> BOOLEAN]
    /\ submitted \in [Node -> Nat]
    /\ lastTx \in [Node -> BOOLEAN]
    /\ round \in Nat
    /\ currentEpoch \in [Node -> Nat]
    /\ seen \subseteq Node
    /\ missed \subseteq Node
    /\ restarts \in Nat

\* A node that sent a transaction in this second remembers it in lastTxTime,
\* and it is the token node of a second that is a multiple of the interval.
SentOnTurn ==
    \A n \in Node : submitted[n] > 0 =>
        /\ submitted[n] = 1
        /\ lastTx[n]
        /\ n \in TokenNoder
        /\ now % TokenNoderInterval = 0

\* A node that missed a round is two rounds behind at least, where vote() never
\* installs again; any other node is at the contract's round when it knows of
\* it and one round behind until it does.
RoundGap ==
    \A n \in Node :
        /\ n \in missed => round >= currentEpoch[n] + 2
        /\ n \notin missed => IF n \in seen THEN round = currentEpoch[n]
                                             ELSE round = currentEpoch[n] + 1

ServiceInv == TypeInv /\ SentOnTurn /\ RoundGap

\* The type invariant is inductive: every step of the two goroutines, of the
\* clock and of the contract keeps the variables in their sets.
LEMMA TypeStep == TypeInv /\ [Next]_vars => TypeInv'
<1> SUFFICES ASSUME TypeInv, [Next]_vars PROVE TypeInv'
  OBVIOUS
<1> USE DEF TypeInv
<1>1. ASSUME NEW n \in Node, AssignToken(n) PROVE TypeInv'
  <2>1. CASE AssignIdle(n)
    BY <2>1 DEF AssignIdle, voteVars
  <2>2. CASE AssignReturn(n)
    BY <2>2 DEF AssignReturn, voteVars
  <2>3. CASE AssignSubmit(n)
    BY <2>3 DEF AssignSubmit, voteVars
  <2>4. CASE AssignFail(n)
    BY <2>4 DEF AssignFail, voteVars
  <2>5. QED
    BY <1>1, <2>1, <2>2, <2>3, <2>4 DEF AssignToken
<1>2. ASSUME NEW n \in Node, Vote(n) \/ VoteFails(n) PROVE TypeInv'
  <2>1. PolledEpoch(n) \in Nat
    BY DEF PolledEpoch
  <2>2. QED
    BY <1>2, <2>1 DEF Vote, VoteFails, vars, assignVars
<1>3. ASSUME NEW n \in Node, Restart(n) PROVE TypeInv'
  BY <1>3 DEF Restart
<1>4. CASE Tick
  BY <1>4 DEF Tick, voteVars
<1>5. CASE RotateVote
  BY <1>5, RoundAddAssumption DEF RotateVote, assignVars
<1>6. CASE UNCHANGED vars
  BY <1>6 DEF vars
<1>7. QED
  BY <1>1, <1>2, <1>3, <1>4, <1>5, <1>6 DEF Next

\* There is one token node at most: GetCurrentTokenNoder returns one address.
LEMMA OneTokenNoder ==
    ASSUME NEW m, NEW n, m \in TokenNoder, n \in TokenNoder
    PROVE  m = n
BY DEF TokenNoder

\* What a second's transactions rest on is preserved: a node submits only on
\* its turn and with no transaction of this second behind it, nothing else
\* touches the count or lastTxTime, and a new second clears both.
LEMMA SentStep == TypeInv /\ SentOnTurn /\ [Next]_vars => SentOnTurn'
<1> SUFFICES ASSUME TypeInv, SentOnTurn, [Next]_vars PROVE SentOnTurn'
  OBVIOUS
<1>1. ASSUME UNCHANGED <<now, submitted, lastTx>> PROVE SentOnTurn'
  BY <1>1 DEF SentOnTurn, TokenNoder
<1>2. ASSUME NEW n \in Node, AssignSubmit(n) PROVE SentOnTurn'
  <2>1. ~lastTx[n] /\ now % TokenNoderInterval = 0 /\ n \in TokenNoder
    BY <1>2 DEF AssignSubmit, AssignTurn
  <2>2. submitted[n] = 0
    BY <2>1 DEF SentOnTurn, TypeInv
  <2>3. /\ submitted' = [submitted EXCEPT ![n] = @ + 1]
        /\ lastTx' = [lastTx EXCEPT ![n] = TRUE]
        /\ now' = now
    BY <1>2 DEF AssignSubmit
  <2>4. TokenNoder' = TokenNoder
    BY <2>3 DEF TokenNoder
  <2>5. SUFFICES ASSUME NEW m \in Node, submitted'[m] > 0
                 PROVE  /\ submitted'[m] = 1
                        /\ lastTx'[m]
                        /\ m \in TokenNoder
                        /\ now % TokenNoderInterval = 0
    BY <2>3, <2>4 DEF SentOnTurn
  <2>6. CASE m = n
    BY <2>1, <2>2, <2>3, <2>6 DEF TypeInv
  <2>7. CASE m # n
    BY <2>3, <2>5, <2>7 DEF TypeInv, SentOnTurn
  <2>8. QED
    BY <2>6, <2>7
<1>3. CASE Tick
  BY <1>3 DEF Tick, SentOnTurn
<1>4. ASSUME NEW n \in Node, AssignToken(n) PROVE SentOnTurn'
  <2>1. CASE AssignSubmit(n)
    BY <1>2, <2>1
  <2>2. CASE AssignIdle(n) \/ AssignReturn(n) \/ AssignFail(n)
    BY <1>1, <2>2 DEF AssignIdle, AssignReturn, AssignFail
  <2>3. QED
    BY <1>4, <2>1, <2>2 DEF AssignToken
<1>5. ASSUME NEW n \in Node, Vote(n) \/ VoteFails(n) \/ Restart(n) PROVE SentOnTurn'
  BY <1>1, <1>5 DEF Vote, VoteFails, Restart, assignVars, vars
<1>6. CASE RotateVote \/ UNCHANGED vars
  BY <1>1, <1>6 DEF RotateVote, assignVars, vars
<1>7. QED
  BY <1>3, <1>4, <1>5, <1>6 DEF Next

\* The gap is preserved: a poll installs the contract's round when it is the
\* next one and nothing otherwise, a rotation by one round leaves those behind
\* that knew of the round before, and a restart puts the node at round 0.
LEMMA GapStep == TypeInv /\ RoundGap /\ [Next]_vars => RoundGap'
<1> SUFFICES ASSUME TypeInv, RoundGap, [Next]_vars PROVE RoundGap'
  OBVIOUS
<1>1. ASSUME UNCHANGED voteVars PROVE RoundGap'
  BY <1>1 DEF RoundGap, voteVars
<1>2. ASSUME NEW n \in Node, Vote(n) PROVE RoundGap'
  <2>1. /\ currentEpoch' = [currentEpoch EXCEPT ![n] = PolledEpoch(n)]
        /\ seen' = seen \union {n}
        /\ round' = round /\ missed' = missed
    BY <1>2 DEF Vote
  <2>2. PolledEpoch(n) = IF n \in missed THEN currentEpoch[n] ELSE round
    BY DEF PolledEpoch, RoundGap, TypeInv
  <2>3. QED
    BY <2>1, <2>2 DEF TypeInv, RoundGap
<1>3. ASSUME NEW n \in Node, Restart(n) PROVE RoundGap'
  <2>1. /\ currentEpoch' = [currentEpoch EXCEPT ![n] = 0]
        /\ seen' = IF round = 0 THEN seen \union {n} ELSE seen \ {n}
        /\ missed' = IF round > 1 THEN missed \union {n} ELSE missed \ {n}
        /\ round' = round
    BY <1>3 DEF Restart
  <2>2. SUFFICES ASSUME NEW m \in Node
                 PROVE  /\ m \in missed' => round >= currentEpoch'[m] + 2
                        /\ m \notin missed' => IF m \in seen' THEN round = currentEpoch'[m]
                                               ELSE round = currentEpoch'[m] + 1
    BY <2>1 DEF RoundGap
  <2>3. CASE m = n
    BY <2>1, <2>3 DEF TypeInv
  <2>4. CASE m # n
    BY <2>1, <2>4 DEF TypeInv, RoundGap
  <2>5. QED
    BY <2>3, <2>4
<1>4. CASE RotateVote
  <2>1. PICK roundAdd \in RoundAdd :
          /\ round' = round + roundAdd
          /\ missed' = IF roundAdd = 1 THEN missed \union (Node \ seen) ELSE Node
    BY <1>4 DEF RotateVote
  <2>2. seen' = {} /\ currentEpoch' = currentEpoch /\ roundAdd \in Nat /\ roundAdd >= 1
    BY <1>4, RoundAddAssumption DEF RotateVote
  <2>3. QED
    BY <2>1, <2>2 DEF TypeInv, RoundGap
<1>5. ASSUME NEW n \in Node, AssignToken(n) PROVE RoundGap'
  BY <1>1, <1>5 DEF AssignToken, AssignIdle, AssignReturn, AssignSubmit, AssignFail
<1>6. ASSUME NEW n \in Node, VoteFails(n) PROVE RoundGap'
  BY <1>1, <1>6 DEF VoteFails, vars, voteVars
<1>7. CASE Tick \/ UNCHANGED vars
  BY <1>1, <1>7 DEF Tick, vars, voteVars
<1>8. QED
  BY <1>2, <1>3, <1>4, <1>5, <1>6, <1>7 DEF Next

\* The inductive invariant of the service holds in every reachable state.
THEOREM ServiceCorrect == Spec => []ServiceInv
<1>1. Init => ServiceInv
  BY DEF Init, ServiceInv, TypeInv, SentOnTurn, RoundGap
<1>2. ServiceInv /\ [Next]_vars => ServiceInv'
  BY TypeStep, SentStep, GapStep DEF ServiceInv
<1>3. QED
  BY <1>1, <1>2, PTL DEF Spec

\* In every second at most one assignToken transaction is submitted by all
\* nodes together, and only in a second that is a multiple of the interval:
\* two token nodes or two turns of one loop never both submit.
THEOREM AssignedOnce == Spec => []AssignOnce
<1>1. ServiceInv => AssignOnce
  BY OneTokenNoder DEF ServiceInv, SentOnTurn, AssignOnce
<1>2. QED
  BY <1>1, ServiceCorrect, PTL

\* For any rounds, failed polls and restarts: a node that has polled is at the
\* contract's round exactly if it missed no round, since vote() installs only
\* the round after its own.
THEOREM RoundAlwaysTracked == Spec => []RoundTracked
<1>1. ServiceInv => RoundTracked
  BY DEF ServiceInv, TypeInv, RoundGap, RoundTracked
<1>2. QED
  BY <1>1, ServiceCorrect, PTL
=============================================================================
