----------------------------- MODULE MCBackfill -----------------------------
EXTENDS Backfill

CONSTANTS rick, ann, c1, c2

Text(c, a) == [in |-> c, by |-> a, command |-> FALSE]

\* A channel with a full page of which the filter drops everything and a full
\* page of which it keeps everything, and a channel with a short page.
TwoChannels ==
  {<<Text(c1, ann), Text(c2, ann), Text(c1, ann), Text(c1, rick),
     [Text(c1, ann) EXCEPT !.command = TRUE]>>}
=============================================================================
