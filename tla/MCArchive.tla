------------------------------ MODULE MCArchive ------------------------------
EXTENDS Archive

CONSTANTS rick, bot, ann, c1

Text(a) == [in |-> c1, by |-> a, command |-> FALSE, chars |-> 1]

OneVoice == {Text(ann)}
\* A human, Rick and another bot.
AllKinds == {Text(ann), Text(rick), Text(bot)}
=============================================================================
