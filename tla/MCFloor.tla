------------------------------ MODULE MCFloor ------------------------------
EXTENDS Floor, TLC

Interchangeable ==
  Permutations(Workers) \union Permutations(Tables) \union Permutations(Sessions) \union Permutations(Orders)
=============================================================================
