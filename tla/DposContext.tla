---------------------------- MODULE DposContext ----------------------------
(***************************************************************************)
(* The DPoS context that every block header commits to, and the slot       *)
(* arithmetic of the consensus engine (core/types/dpos_context.go and the  *)
(* stateless helpers of consensus/dpos/dpos.go).                           *)
(*                                                                         *)
(* A context is the content of its three tries:                            *)
(*   validators  the RLP list under ValidatorsKey of the epoch trie        *)
(*   trie        the addresses that have a record in the validator trie    *)
(*   cnt         the block-count trie, <<epoch, validator>> -> count       *)
(* Times are seconds.                                                      *)
(***************************************************************************)
EXTENDS Integers, Sequences, FiniteSets

CONSTANTS
    Node,                    \* addresses; a node signs with its own address
    ProducerInterval,        \* seconds per slot
    EpochInterval,           \* seconds per epoch
    MaxValidatorSize,        \* capacity of the validator list
    ErrInvalidProducerTime,  \* GetProducer: the time is not a slot
    ErrInvalidProducer       \* GetProducer: the validator list is empty

ASSUME IntervalAssumption ==
    /\ ProducerInterval \in Nat \ {0}
    /\ EpochInterval \in Nat \ {0}
    /\ EpochInterval % ProducerInterval = 0

ASSUME SizeAssumption == MaxValidatorSize \in Nat \ {0}

ASSUME ErrorAssumption ==
    /\ ErrInvalidProducerTime \notin Node
    /\ ErrInvalidProducer \notin Node
    /\ ErrInvalidProducerTime # ErrInvalidProducer

-----------------------------------------------------------------------------
(* Go's integer division truncates towards zero. *)
TruncDiv(a, b) == IF a >= 0 THEN a \div b ELSE -((-a) \div b)

PrevSlot(t) == TruncDiv(t - 1, ProducerInterval) * ProducerInterval

NextSlot(t) == TruncDiv(t + ProducerInterval - 1, ProducerInterval) * ProducerInterval

Epoch(t) == t \div EpochInterval

-----------------------------------------------------------------------------
EmptyContext == [validators |-> <<>>, trie |-> {}, cnt |-> [k \in {} |-> 0]]

Listed(ctx) == {ctx.validators[i] : i \in DOMAIN ctx.validators}

(* GetProducer(now, firstTimer): the validator whose slot now is, counted    *)
(* from firstTimer.                                                          *)
GetProducer(ctx, now, firstTimer) ==
    LET offset == (now - firstTimer) % EpochInterval
        size   == Len(ctx.validators)
    IN  IF offset % ProducerInterval # 0 THEN ErrInvalidProducerTime
        ELSE IF size = 0 THEN ErrInvalidProducer
        ELSE ctx.validators[((offset \div ProducerInterval) % size) + 1]

(* Mutant of Clean: the records stay in the validator trie. *)
CleanListOnly(ctx) == [ctx EXCEPT !.validators = <<>>]

(* Clean: drop the record of every listed validator and empty the list. *)
Clean(ctx) ==
    [ctx EXCEPT !.trie = @ \ Listed(ctx), !.validators = <<>>]

(* InsertValidator: refused when the list is full. *)
InsertValidator(ctx, v) ==
    IF Len(ctx.validators) >= MaxValidatorSize THEN ctx
    ELSE [ctx EXCEPT !.trie = @ \cup {v}, !.validators = Append(@, v)]

(* Mutant of UpdateMintCnt: goes on counting from the validator's last epoch. *)
UpdateMintCntNoReset(ctx, parentTime, time, v) ==
    LET key == <<Epoch(time), v>>
        old == <<Epoch(parentTime), v>>
        n   == IF old \in DOMAIN ctx.cnt THEN ctx.cnt[old] + 1 ELSE 1
    IN  [ctx EXCEPT !.cnt = [k \in DOMAIN ctx.cnt \cup {key} |->
                                IF k = key THEN n ELSE ctx.cnt[k]]]

(* updateMintCnt: one more block of this validator in the block's epoch; the *)
(* count restarts at one when the parent is in another epoch.                *)
UpdateMintCnt(ctx, parentTime, time, v) ==
    LET key == <<Epoch(time), v>>
        n   == IF Epoch(parentTime) = Epoch(time) /\ key \in DOMAIN ctx.cnt
               THEN ctx.cnt[key] + 1
               ELSE 1
    IN  [ctx EXCEPT !.cnt = [k \in DOMAIN ctx.cnt \cup {key} |->
                                IF k = key THEN n ELSE ctx.cnt[k]]]
=============================================================================
