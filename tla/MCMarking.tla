----------------------------- MODULE MCMarking -----------------------------
EXTENDS Marking, TLC

CONSTANTS bread, tobacco, barcode

MCProductOf(c) == IF c = barcode THEN bread ELSE tobacco
MCPrice(p)     == 3

Interchangeable == Permutations(Workers) \union Permutations(Orders) \union Permutations(Codes \ {barcode})
=============================================================================
