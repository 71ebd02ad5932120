-------------------------- MODULE MCAmbientWatcher --------------------------
EXTENDS AmbientWatcher, TLC

\* Authors are interchangeable.
Symmetry == Permutations(Humans)
=============================================================================
