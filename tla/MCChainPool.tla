---------------------------- MODULE MCChainPool -----------------------------
EXTENDS ChainPool

CONSTANTS g, a1, b1, b2, alice, bob

\* Two forks of the genesis block.
MCParent == [b \in {g, a1, b1, b2} |-> IF b = b2 THEN b1 ELSE g]

MCNumber == [b \in {g, a1, b1, b2} |->
                CASE b = g -> 0 [] b = b2 -> 2 [] OTHER -> 1]

Trx(from, nonce, price, cost, base) ==
    [from |-> from, nonce |-> nonce, price |-> price, cost |-> cost, base |-> base]

\* The second transaction of alice may be replaced by one that cannot be paid
\* after the first; bob's is one of a base contract.
A0 == Trx(alice, 0, 20, 1, FALSE)
A1 == Trx(alice, 1, 30, 1, FALSE)
A1Dear == Trx(alice, 1, 40, 2, FALSE)
B0 == Trx(bob, 0, 10, 1, TRUE)

MCTx == {A0, A1, A1Dear, B0}

MCTxsOf == [b \in {g, a1, b1, b2} |->
               CASE b = g -> <<>> [] b = a1 -> <<A0, A1>>
                 [] b = b1 -> <<B0>> [] b = b2 -> <<A0>>]

MCFunds == [a \in {alice, bob} |-> 2]
=============================================================================
