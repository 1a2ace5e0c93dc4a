--------------------------- MODULE MCBokerService ---------------------------
EXTENDS BokerService
CONSTANTS n1, n2

\* The validator list of the shipped MaxValidatorSize, and one of two.
OneValidator == <<n1>>
TwoValidators == <<n1, n2>>
=============================================================================
