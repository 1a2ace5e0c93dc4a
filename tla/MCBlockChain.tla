---------------------------- MODULE MCBlockChain ----------------------------
EXTENDS BlockChain

CONSTANTS g, a1, a2, a3, b1, b2, b3, x, y, z

\* Two forks of the genesis block.  This node mines a2, and a3 is invalid.
MCParent == [b \in {g, a1, a2, a3, b1, b2, b3} |->
                CASE b \in {g, a1, b1} -> g [] b = a2 -> a1 [] b = a3 -> a2
                  [] b = b2 -> b1 [] b = b3 -> b2]

MCNumber == [b \in {g, a1, a2, a3, b1, b2, b3} |->
                CASE b = g -> 0 [] b \in {a1, b1} -> 1 [] b \in {a2, b2} -> 2
                  [] b \in {a3, b3} -> 3]

\* Transaction x is on both forks, y and z on one each.
MCTxsOf == [b \in {g, a1, a2, a3, b1, b2, b3} |->
               CASE b = a1 -> <<x>> [] b = a2 -> <<y>>
                 [] b = b1 -> <<z>> [] b = b2 -> <<x>> [] OTHER -> <<>>]
=============================================================================
