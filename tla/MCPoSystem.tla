---------------------------- MODULE MCPoSystem ----------------------------
EXTENDS PoSystem, TLC

CONSTANT MaxLines   \* a bound on the lines an order gets

FewLines == Len(notes) <= MaxLines

\* Sessions are interchangeable, and so are actions.
Symmetric == Permutations(Sessions) \cup Permutations(Actions)
===========================================================================
