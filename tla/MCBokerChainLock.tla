-------------------------- MODULE MCBokerChainLock --------------------------
EXTENDS BokerChainLock

\* Grants that divide evenly and unevenly into their periods, and one that
\* _checkUnlock cannot divide.
AllGrants ==
    {[value |-> 5, duration |-> 6, periods |-> 3],
     [value |-> 4, duration |-> 2, periods |-> 2],
     [value |-> 1, duration |-> 2, periods |-> 2]}
=============================================================================
