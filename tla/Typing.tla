------------------------------- MODULE Typing -------------------------------
(***************************************************************************)
(* The typing indicator: the first turn in a channel starts a goroutine    *)
(* that types until that turn is over; a second turn there starts none.    *)
(***************************************************************************)

CONSTANTS
  Mentions,     \* turns
  Where         \* the channel of each

VARIABLES
  channels,     \* typist.channels: where somebody is typing
  turn,         \* "idle", "busy", "over"; a turn that is over ends its context
  theatre,      \* the typing sequence of each turn: "none", "playing", "done"
  typing        \* its goroutine: "none", "waiting" for the theatre, "keeping"

typingVars == <<channels, turn, theatre, typing>>

TypingInit ==
  /\ channels = {}
  /\ turn = [m \in Mentions |-> "idle"]
  /\ theatre = [m \in Mentions |-> "none"]
  /\ typing = [m \in Mentions |-> "none"]

\* Mutant: the channel is marked, and nobody looks whether it was before.
StartAnyway(m) ==
  /\ turn[m] = "idle"
  /\ turn' = [turn EXCEPT ![m] = "busy"]
  /\ channels' = channels \cup {Where[m]}
  /\ typing' = [typing EXCEPT ![m] = "keeping"]
  /\ UNCHANGED theatre

\* start: LoadOrStore decides who types; the theatre fires or does not.
StartTyping(m) ==
  /\ turn[m] = "idle"
  /\ turn' = [turn EXCEPT ![m] = "busy"]
  /\ channels' = channels \cup {Where[m]}
  /\ \/ /\ Where[m] \in channels
        /\ UNCHANGED <<theatre, typing>>
     \/ /\ Where[m] \notin channels
        /\ typing' = [typing EXCEPT ![m] = "keeping"]
        /\ UNCHANGED theatre
     \/ /\ Where[m] \notin channels
        /\ theatre' = [theatre EXCEPT ![m] = "playing"]
        /\ typing' = [typing EXCEPT ![m] = "waiting"]

\* runTypingTheatre: the sequence is over, or the turn is.
TheatreEnds(m) ==
  /\ theatre[m] = "playing"
  /\ theatre' = [theatre EXCEPT ![m] = "done"]
  /\ UNCHANGED <<channels, turn, typing>>

KeepTyping(m) ==
  /\ typing[m] = "waiting" /\ theatre[m] = "done"
  /\ typing' = [typing EXCEPT ![m] = "keeping"]
  /\ UNCHANGED <<channels, turn, theatre>>

\* The turn ends in whatever way.
TurnOver(m) ==
  /\ turn[m] = "busy"
  /\ turn' = [turn EXCEPT ![m] = "over"]
  /\ UNCHANGED <<channels, theatre, typing>>

\* keepTyping returns, and the channel is free.
StopTyping(m) ==
  /\ typing[m] = "keeping" /\ turn[m] = "over"
  /\ typing' = [typing EXCEPT ![m] = "none"]
  /\ channels' = channels \ {Where[m]}
  /\ UNCHANGED <<turn, theatre>>

TypingNext ==
  \E m \in Mentions :
    \/ StartTyping(m) \/ TheatreEnds(m) \/ KeepTyping(m)
    \/ TurnOver(m) \/ StopTyping(m)

TypingSpec == TypingInit /\ [][TypingNext]_typingVars

-----------------------------------------------------------------------------
\* In a channel that is marked exactly one goroutine types, and in another
\* none: no mark is left behind, and no turn's goroutine takes away the mark of
\* another's (typist.start, typing.go).
OneTyper ==
  \A c \in {Where[m] : m \in Mentions} :
    LET typers == {m \in Mentions : Where[m] = c /\ typing[m] # "none"}
    IN  IF c \in channels THEN \E m \in typers : typers = {m} ELSE typers = {}
=============================================================================
