---------------------------- MODULE BokerService ----------------------------
(***************************************************************************)
(* The service every node runs for the system contract                      *)
(* (chain/contracts/boker_interface): one goroutine polls the contract's    *)
(* vote round and installs the candidates of a new round, another submits   *)
(* the assignToken transaction when it is this node's turn.  The clock is   *)
(* the number of seconds since genesis, modulo EpochInterval: the code only *)
(* uses it so.                                                              *)
(***************************************************************************)
EXTENDS Integers, Sequences, FiniteSets

CONSTANTS
    Node,                \* the nodes that run the service
    Validators,          \* the validator list of the current block
    EpochInterval,       \* protocol.EpochInterval
    TokenNoderInterval,  \* protocol.TokenNoderInterval
    RoundAdd,            \* by how many rounds a rotation moves the contract
    MaxRound,            \* bound: vote rounds of the contract
    MaxFailures,         \* bound: assignToken submissions that fail
    MaxRestarts          \* bound: restarts of the process, over all nodes

ASSUME IntervalAssumption ==
    /\ TokenNoderInterval \in Nat \ {0}
    /\ EpochInterval \in Nat \ {0}

ASSUME RoundAddAssumption == RoundAdd \subseteq Nat \ {0}

ASSUME ValidatorsAssumption == Validators \in Seq(Node)

VARIABLES
    now,         \* seconds since genesis, modulo EpochInterval
    assigner,    \* whether the assignToken goroutine of a node still runs
    polled,      \* nodes whose assignToken loop ran during this second
    submitted,   \* how many assignToken transactions a node sent this second
    lastTx,      \* whether lastTxTime is this second
    failures,
    round,       \* getVoteRound() of the contract
    currentEpoch,\* the round the getEpoch goroutine of a node has installed
    seen,        \* nodes that know of the round: started or polled in it
    missed,      \* history: nodes that have not known of every single round
    restarts

vars == <<now, assigner, polled, submitted, lastTx, failures,
          round, currentEpoch, seen, missed, restarts>>

assignVars == <<now, assigner, polled, submitted, lastTx, failures>>
voteVars == <<round, currentEpoch, seen, missed>>

\* GetCurrentTokenNoder: whose turn it is; none while the list is empty.
TokenNoder ==
    IF Validators = <<>>
    THEN {}
    ELSE {Validators[((now \div TokenNoderInterval) % Len(Validators)) + 1]}

\* Mutant of AssignTurn: a transaction sent in this second is not remembered.
AssignTurnAgain(n) == now % TokenNoderInterval = 0

(***************************************************************************)
(* One turn of the assignToken loop.  It does nothing when a transaction    *)
(* was sent in this second or this second is not a multiple of the          *)
(* interval.  Otherwise the goroutine ENDS if this node is not the token    *)
(* node, or if the submission fails.                                        *)
(***************************************************************************)
AssignTurn(n) == ~lastTx[n] /\ now % TokenNoderInterval = 0

\* The loop goes on; nothing is sent.
AssignIdle(n) ==
    /\ assigner[n]
    /\ ~AssignTurn(n)
    /\ polled' = polled \union {n}
    /\ UNCHANGED <<now, assigner, submitted, lastTx, failures, voteVars, restarts>>

\* Not this node's turn: the goroutine returns.
AssignReturn(n) ==
    /\ assigner[n]
    /\ AssignTurn(n)
    /\ n \notin TokenNoder
    /\ assigner' = [assigner EXCEPT ![n] = FALSE]
    /\ UNCHANGED <<now, polled, submitted, lastTx, failures, voteVars, restarts>>

\* The transaction is submitted.
AssignSubmit(n) ==
    /\ assigner[n]
    /\ AssignTurn(n)
    /\ n \in TokenNoder
    /\ submitted[n] < 2
    /\ submitted' = [submitted EXCEPT ![n] = @ + 1]
    /\ lastTx' = [lastTx EXCEPT ![n] = TRUE]
    /\ polled' = polled \union {n}
    /\ UNCHANGED <<now, assigner, failures, voteVars, restarts>>

\* The submission fails (a locked account, a node that is not ready): the
\* goroutine returns.
AssignFail(n) ==
    /\ assigner[n]
    /\ AssignTurn(n)
    /\ n \in TokenNoder
    /\ failures < MaxFailures
    /\ failures' = failures + 1
    /\ assigner' = [assigner EXCEPT ![n] = FALSE]
    /\ UNCHANGED <<now, polled, submitted, lastTx, voteVars, restarts>>

\* A second passes; the loop sleeps half a second, so every running loop had
\* its turn.
Tick ==
    /\ \A n \in Node : assigner[n] => n \in polled
    /\ now' = (now + 1) % EpochInterval
    /\ polled' = {}
    /\ submitted' = [n \in Node |-> 0]
    /\ lastTx' = [n \in Node |-> FALSE]
    /\ UNCHANGED <<assigner, failures, voteVars, restarts>>

(***************************************************************************)
(* The vote round.  A rotation that tickVotes submits moves the contract by *)
(* roundAdd rounds (_rotateTickCycle of BokerNode.sol): one, or several     *)
(* when the rotations before it failed or nobody submitted them.  It does   *)
(* not wait for the nodes, whose polls may fail or come late.               *)
(***************************************************************************)
RotateVote ==
    /\ \E roundAdd \in RoundAdd :
         /\ round + roundAdd <= MaxRound
         /\ round' = round + roundAdd
         /\ missed' = IF roundAdd = 1 THEN missed \union (Node \ seen) ELSE Node
    /\ seen' = {}
    /\ UNCHANGED <<assignVars, currentEpoch, restarts>>

\* Mutant of PolledEpoch: the comparison is off by one.
PolledEpochLate(n) == IF round = currentEpoch[n] + 2 THEN currentEpoch[n] + 1 ELSE currentEpoch[n]

\* The round that is installed after a poll: the next one, if it is the next.
PolledEpoch(n) == IF round = currentEpoch[n] + 1 THEN currentEpoch[n] + 1 ELSE currentEpoch[n]

\* vote(): the poll, the candidates of a new round, and SetValidatorVotes.
Vote(n) ==
    /\ currentEpoch' = [currentEpoch EXCEPT ![n] = PolledEpoch(n)]
    /\ seen' = seen \union {n}
    /\ UNCHANGED <<assignVars, round, missed, restarts>>

\* One of vote()'s calls fails, or the lists of candidates and tickets differ
\* in length: it returns, and the timer tries again.
VoteFails(n) == UNCHANGED vars

\* NewBokerInterfaceService and Start after the process restarted, which takes
\* longer than the rest of a second in which a transaction was sent.  The
\* service starts with round 0 again.
Restart(n) ==
    /\ restarts < MaxRestarts
    /\ restarts' = restarts + 1
    /\ assigner' = [assigner EXCEPT ![n] = TRUE]
    /\ currentEpoch' = [currentEpoch EXCEPT ![n] = 0]
    /\ seen' = IF round = 0 THEN seen \union {n} ELSE seen \ {n}
    /\ missed' = IF round > 1 THEN missed \union {n} ELSE missed \ {n}
    /\ UNCHANGED <<now, polled, submitted, lastTx, failures, round>>

Init ==
    /\ now \in 0 .. EpochInterval - 1
    /\ assigner = [n \in Node |-> TRUE]
    /\ polled = {}
    /\ submitted = [n \in Node |-> 0]
    /\ lastTx = [n \in Node |-> FALSE]
    /\ failures = 0
    /\ round = 0
    /\ currentEpoch = [n \in Node |-> 0]
    /\ seen = Node
    /\ missed = {}
    /\ restarts = 0

AssignToken(n) == AssignIdle(n) \/ AssignReturn(n) \/ AssignSubmit(n) \/ AssignFail(n)

Next ==
    \/ \E n \in Node : AssignToken(n) \/ Vote(n) \/ VoteFails(n) \/ Restart(n)
    \/ Tick
    \/ RotateVote

Spec == Init /\ [][Next]_vars

\* Time passes and the loop of every node keeps being scheduled; nothing is
\* assumed about submissions that fail, restarts or rotations.
FairSpec ==
    /\ Spec
    /\ WF_vars(Tick)
    /\ \A n \in Node :
         WF_vars(AssignIdle(n) \/ AssignReturn(n) \/ AssignSubmit(n))

-----------------------------------------------------------------------------
\* In any second at most one assignToken transaction is submitted by all nodes
\* together, and only in a second that is a multiple of the interval: the loop
\* runs twice a second on every node, and lastTxTime and the token node's turn
\* must keep the submissions apart.
AssignOnce ==
    /\ \A m, n \in Node : submitted[m] > 0 /\ submitted[n] > 0 => m = n
    /\ \A n \in Node : submitted[n] > 0 => submitted[n] = 1 /\ now % TokenNoderInterval = 0

\* Tokens go on being assigned: assignToken is submitted again and again
\* (protocol.TokenNoderInterval is the interval between two assignments).
AssignRecurs == []<>(\E n \in Node : submitted[n] > 0)

\* vote() installs only the round after its own ("if the rounds differ, fetch
\* the data again" is its comment).  So a node that has polled is at the
\* contract's round exactly if it knew of every round one by one: failed or
\* late polls within a round do no harm, but a rotation that moves by several
\* rounds, a round without a poll, or a restart after the first round leaves
\* the node behind, for good.
RoundTracked ==
    \A n \in seen : currentEpoch[n] = round <=> n \notin missed
=============================================================================
