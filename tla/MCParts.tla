------------------------------ MODULE MCParts ------------------------------
(***************************************************************************)
(* The parts that share no state with each other, in one run: a behaviour  *)
(* takes one of them as its focus, and the others stay as they are.        *)
(***************************************************************************)
EXTENDS AmbientWatcher, People, Affinity, Typing, Shutdown, Tracer,
        ChannelCuts, Recalls, FileEdits, Logs

CONSTANTS h1, h2, m1, m2, m3, word

VARIABLE focus

MCAuthorOf == <<1, 1, 2>>
MCChannelOf == <<1, 1, 2>>
MCJudged == {-3, -1, 0, 2}
MCBaseline == -1
MCWhere == (m1 :> 1) @@ (m2 :> 1) @@ (m3 :> 2)
MCSymmetry == Permutations(Humans)

-----------------------------------------------------------------------------
MCTokens == {word, Blank, LineEnd}
MCTexts == BoundedSeq(MCTokens, 4)
MCOlds == BoundedSeq(MCTokens, 3)
MCNews == {<<>>, <<word>>, <<Blank, LineEnd>>}
MCNewLines == {<<>>, <<word>>, <<Blank>>}
MCLines == -1..4

MCArchived ==
  (1 :> [authors |-> {1}, from |-> 0, to |-> 1])
  @@ (3 :> [authors |-> {1, 2}, from |-> 1, to |-> 2])
  @@ (4 :> [authors |-> {2}, from |-> 3, to |-> 3])

Scores == {<<>>, <<2, 9000, 2>>, <<4000, 4000, 9000>>}
Query(rankings, scores, filter) ==
  [vec |-> rankings[1], lex |-> rankings[2],
   scores |-> IF scores = <<>> THEN <<>>
              ELSE (1 :> scores[1]) @@ (3 :> scores[2]) @@ (4 :> scores[3]),
   author |-> filter[1], since |-> filter[2], until |-> filter[3],
   blank |-> rankings[1] = <<>>]
Anybody == <<{}, NoDate, NoDate>>
Nothing == Query(<<<<>>, <<>>>>, <<>>, Anybody)
MCRequests == {Query(<<<<3, 1, 4>>, <<>>>>, scores, Anybody) : scores \in Scores} \cup {Nothing}
Filters == {<<{2}, NoDate, 0>>, <<{1, 2}, 0, 0>>, <<{}, 1, NoDate>>}
MCQueries ==
  {Query(rankings, scores, Anybody) :
     rankings \in {<<<<4, 1>>, <<>>>>, <<<<3, 1, 4>>, <<3, 4>>>>}, scores \in Scores}
  \cup {Query(<<<<3, 1, 4>>, <<3, 4>>>>, scores, filter) :
           scores \in {<<>>, <<4000, 4000, 9000>>}, filter \in Filters}
  \cup {Nothing}

PartsInit ==
  /\ focus \in {"ambient", "people", "affinity", "typing", "shutdown", "tracer",
               "cuts", "recall", "edits", "logs"}
  /\ Init /\ PeopleInit /\ AffinityInit /\ TypingInit /\ ShutdownInit /\ TracerInit
  /\ LogsInit /\ CutsInit /\ EditsInit /\ RecallInit
  /\ focus # "people" => public = Channels
  /\ focus # "shutdown" => ~Running("profiler")
  /\ focus # "edits" => content = <<>>
  /\ (focus = "recall") = (message # Nothing)

ambientVars == vars

PartsNext ==
  /\ UNCHANGED focus
  /\ \/ /\ focus = "ambient" /\ Next
        /\ UNCHANGED <<peopleVars, affinityVars, typingVars, shutdownVars,
                       tracerVars, logsVars, posted, editVars, recallVars>>
     \/ /\ focus = "people" /\ PeopleNext
        /\ UNCHANGED <<ambientVars, affinityVars, typingVars, shutdownVars,
                       tracerVars, logsVars, posted, editVars, recallVars>>
     \/ /\ focus = "affinity" /\ AffinityNext
        /\ UNCHANGED <<ambientVars, peopleVars, typingVars, shutdownVars,
                       tracerVars, logsVars, posted, editVars, recallVars>>
     \/ /\ focus = "typing" /\ TypingNext
        /\ UNCHANGED <<ambientVars, peopleVars, affinityVars, shutdownVars,
                       tracerVars, logsVars, posted, editVars, recallVars>>
     \/ /\ focus = "shutdown" /\ ShutdownNext
        /\ UNCHANGED <<ambientVars, peopleVars, affinityVars, typingVars,
                       tracerVars, logsVars, posted, editVars, recallVars>>
     \/ /\ focus = "tracer" /\ TracerNext
        /\ UNCHANGED <<ambientVars, peopleVars, affinityVars, typingVars,
                       shutdownVars, logsVars, posted, editVars, recallVars>>
     \/ /\ focus = "logs" /\ LogsNext
        /\ UNCHANGED <<ambientVars, peopleVars, affinityVars, typingVars,
                       shutdownVars, tracerVars, posted, editVars, recallVars>>
     \/ /\ focus = "cuts" /\ NextMessage
        /\ UNCHANGED <<ambientVars, peopleVars, affinityVars, typingVars,
                       shutdownVars, tracerVars, logsVars, editVars, recallVars>>
     \/ /\ focus = "recall" /\ NextItem
        /\ UNCHANGED <<ambientVars, peopleVars, affinityVars, typingVars,
                       shutdownVars, tracerVars, logsVars, posted, editVars>>
     \/ /\ focus = "edits" /\ EditsNext
        /\ UNCHANGED <<ambientVars, peopleVars, affinityVars, typingVars,
                       shutdownVars, tracerVars, logsVars, posted, recallVars>>

PartsSpec ==
  PartsInit /\ [][PartsNext]_<<focus, recallVars, ambientVars, peopleVars,
                             affinityVars, typingVars, shutdownVars, tracerVars,
                             logsVars, posted, editVars>>

=============================================================================
