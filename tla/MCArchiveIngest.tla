-------------------------- MODULE MCArchiveIngest --------------------------
EXTENDS ArchiveIngest

CONSTANTS ann, c1

Text(a) == [in |-> c1, by |-> a, command |-> FALSE, chars |-> 1]

\* Two of the long ones do not fit into one chunk, nor does a short one with one.
TwoSizes == {Text(ann), [Text(ann) EXCEPT !.chars = ChunkMaxChars]}
=============================================================================
