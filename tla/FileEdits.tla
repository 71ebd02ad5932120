----------------------------- MODULE FileEdits -----------------------------
(***************************************************************************)
(* A file of Rick's checkout that code_edit (internal/agent/tools_code.go) *)
(* changes, one command after the other: each reads the file, edits it and *)
(* writes it back while it holds the repository.                           *)
(***************************************************************************)
EXTENDS CodeEdit

CONSTANTS
  Tokens,
  Texts,           \* of the file, before Rick edits it
  Olds, News,      \* old_str; file_text, and new_str of str_replace
  NewLines, Lines, \* new_str of insert, "the line to insert"; insert_line
  MaxText          \* bound: of the file that is left

ASSUME FileEditsAssumption ==
  /\ {Blank, LineEnd} \subseteq Tokens
  /\ Texts \cup Olds \cup News \subseteq Seq(Tokens)
  /\ NewLines \subseteq Seq(Tokens \ {LineEnd}) /\ Lines \subseteq Int

VARIABLES
  content,         \* of the file
  edit             \* the command that code_edit was called with

editVars == <<content, edit>>

None == [command |-> "none"]

Commands ==
  [command : {"write"}, new : News]
  \cup [command : {"str_replace"}, old : Olds, new : News]
  \cup [command : {"insert"}, line : Lines, new : NewLines]

EditsInit == content \in Texts /\ edit = None

AskEdit == edit = None /\ edit' \in Commands /\ UNCHANGED content

\* What the editor makes of the file.
Outcome ==
  CASE edit.command = "write"       -> edit.new
    [] edit.command = "str_replace" -> ReplaceIn(content, edit.old, edit.new)
    [] edit.command = "insert"      -> InsertIn(content, edit.line, edit.new)

Perform ==
  /\ edit # None
  /\ content' = IF Outcome = Error THEN content ELSE Outcome
  /\ Len(content') <= MaxText
  /\ edit' = None

EditsNext == AskEdit \/ Perform
EditsSpec == EditsInit /\ [][EditsNext]_editVars

-----------------------------------------------------------------------------
\* Whatever Rick has made of a file, his next edit is the one he asked for
\* (Replace, Insert).
EditsAreRight ==
  /\ edit.command = "str_replace" => OnePlaceChanges(content, edit.old, edit.new)
  /\ edit.command = "insert" => InsertReadsBack(content, edit.line, edit.new)
=============================================================================
