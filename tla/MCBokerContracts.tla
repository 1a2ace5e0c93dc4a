-------------------------- MODULE MCBokerContracts --------------------------
EXTENDS BokerContracts, TLC

\* Every transaction type of the registry.
AllTypes == {"SetPersonal", "CancelPersonal", "SetSystem", "CancelSystem"}

\* Addresses are interchangeable.
Interchangeable == Permutations(Address)
=============================================================================
