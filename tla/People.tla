------------------------------- MODULE People -------------------------------
(***************************************************************************)
(* What is kept of people: the profiles an updater goroutine writes from   *)
(* the messages of public channels, and the command that forgets an author *)
(* while the updater is running.                                           *)
(*                                                                         *)
(* A message is its snowflake, a number; a profile is the set of messages  *)
(* it was made from, and its watermark.                                    *)
(***************************************************************************)
EXTENDS Integers, FiniteSets

CONSTANTS
  Ids,          \* messages that may come to be stored
  AuthorOf, ChannelOf,
  Changing,     \* channels whose visibility changes
  MinNew,       \* MinNewMessages
  MaxPerRun,    \* MaxMessagesPerRun
  MaxAuthors    \* MaxAuthorsPerRun

People   == {AuthorOf[m] : m \in Ids}
Channels == {ChannelOf[m] : m \in Ids}

ASSUME PeopleAssumption ==
  /\ Ids \subseteq Nat \ {0} /\ IsFiniteSet(Ids)
  /\ {MinNew, MaxPerRun, MaxAuthors} \subseteq Nat \ {0}
  /\ 0 \notin People

VARIABLES
  stored,       \* messages in the archive
  profiles,     \* person_profiles: person -> from, mark
  forgotten,    \* forgotten_authors
  quoted,       \* people with quotes
  public,       \* channels @everyone can view
  cached,       \* PublicChannels.ids
  fresh,        \* they are younger than publicChannelsTTL
  updater,      \* the goroutine: step, channels, candidates, and the author
                \* it is at with what was read of them
  forgetting,   \* where the command is with each person
  newest,       \* history: the newest message of each person ever stored
  late,         \* history: messages stored after a newer one of their author
  overtaken     \* history: people forgotten while an update listed them

peopleVars == <<stored, profiles, forgotten, quoted, public, cached, fresh,
                updater, forgetting, newest, late, overtaken>>

Asleep == [step |-> "sleep", channels |-> {}, todo |-> {},
           at |-> [author |-> 0, mark |-> 0], read |-> {}, known |-> {}]

PeopleInit ==
  /\ stored = {} /\ profiles = [p \in {} |-> 0]
  /\ forgotten = {} /\ quoted = People
  /\ public \in SUBSET Channels
  /\ cached = {} /\ fresh = FALSE
  /\ updater = Asleep
  /\ forgetting = [p \in People |-> "no"]
  /\ newest = [p \in People |-> 0] /\ late = {} /\ overtaken = {}

Has(p) == p \in DOMAIN profiles
MarkOf(p) == IF Has(p) THEN profiles[p].mark ELSE 0

-----------------------------------------------------------------------------
(* The archive and the guild.                                              *)

\* RecordLive or the backfill stores a message of someone not forgotten.
StoreMessage(m) ==
  /\ m \notin stored /\ AuthorOf[m] \notin forgotten
  /\ stored' = stored \cup {m}
  /\ late' = IF m < newest[AuthorOf[m]] THEN late \cup {m} ELSE late
  /\ newest' = [newest EXCEPT ![AuthorOf[m]] = IF m > @ THEN m ELSE @]
  /\ UNCHANGED <<profiles, forgotten, quoted, public, cached, fresh, updater,
                 forgetting, overtaken>>

\* A moderator changes who can view a channel.
ChangeChannel(c) ==
  /\ \/ c \in public /\ public' = public \ {c}
     \/ c \notin public /\ public' = public \cup {c}
  /\ UNCHANGED <<stored, profiles, forgotten, quoted, cached, fresh, updater,
                 forgetting, newest, late, overtaken>>

CacheExpires ==
  /\ fresh /\ fresh' = FALSE
  /\ UNCHANGED <<stored, profiles, forgotten, quoted, public, cached, updater,
                 forgetting, newest, late, overtaken>>

-----------------------------------------------------------------------------
(* The updater.                                                            *)

Update(changes) ==
  /\ updater' = changes
  /\ UNCHANGED <<stored, forgotten, quoted, public, forgetting, newest, late,
                 overtaken>>

\* A run starts with the public channels, from the cache while it is fresh.
\* No answer and no channel end the run.
StartRun ==
  /\ updater.step = "sleep"
  /\ \/ fresh /\ UNCHANGED <<cached, fresh>>
     \/ ~fresh /\ cached' = public /\ fresh' = TRUE
  /\ cached' # {}
  /\ Update([updater EXCEPT !.step = "list", !.channels = cached'])
  /\ UNCHANGED profiles

\* What a profile of p would be made from next.
Unread(p, mark, channels) ==
  {m \in stored : AuthorOf[m] = p /\ ChannelOf[m] \in channels /\ m > mark}

\* Mutant: authors who asked to be forgotten are listed like all others.
AnyoneReady ==
  {p \in People : Cardinality(Unread(p, MarkOf(p), updater.channels)) >= MinNew}

Ready ==
  {p \in People \ forgotten :
     Cardinality(Unread(p, MarkOf(p), updater.channels)) >= MinNew}

\* GetProfileCandidates: those with most to read, with their watermarks.
ListCandidates ==
  /\ updater.step = "list"
  /\ LET new(p) == Cardinality(Unread(p, MarkOf(p), updater.channels))
     IN  \E picked \in SUBSET Ready :
           /\ Cardinality(picked) = IF Cardinality(Ready) < MaxAuthors
                                    THEN Cardinality(Ready) ELSE MaxAuthors
           /\ \A p \in picked, q \in Ready \ picked : new(p) >= new(q)
           /\ Update([updater EXCEPT !.step = "next",
                        !.todo = {[author |-> p, mark |-> MarkOf(p)] : p \in picked}])
  /\ UNCHANGED <<profiles, cached, fresh>>

\* Mutant: the newest messages are read, not the oldest.
NewestFirst(ids) ==
  {m \in ids : Cardinality({n \in ids : n > m}) < MaxPerRun}

\* ORDER BY id LIMIT MaxPerRun.
FirstOf(ids) ==
  {m \in ids : Cardinality({n \in ids : n < m}) < MaxPerRun}

\* The next candidate's messages; none when they were deleted meanwhile.
ReadMessages ==
  /\ updater.step = "next"
  /\ \E cand \in updater.todo :
       LET read == FirstOf(Unread(cand.author, cand.mark, updater.channels))
       IN  Update([updater EXCEPT !.todo = @ \ {cand},
                     !.step = IF read = {} THEN "next" ELSE "known",
                     !.at = IF read = {} THEN @ ELSE cand, !.read = read])
  /\ UNCHANGED <<profiles, cached, fresh>>

ReadProfile ==
  /\ updater.step = "known"
  /\ Update([updater EXCEPT !.step = "save",
               !.known = IF Has(updater.at.author)
                         THEN profiles[updater.at.author].from ELSE {}])
  /\ UNCHANGED <<profiles, cached, fresh>>

NextAuthor ==
  Update([updater EXCEPT !.step = "next", !.at = Asleep.at, !.read = {},
                         !.known = {}])

\* The model has answered, and the profile is inserted or replaced; its
\* watermark is the last message read.
SaveProfile ==
  /\ updater.step = "save"
  /\ \E last \in updater.read :
       /\ \A m \in updater.read : m <= last
       /\ LET p   == updater.at.author
              new == [from |-> updater.known \cup updater.read, mark |-> last]
          IN  profiles' = [q \in DOMAIN profiles \cup {p} |->
                             IF q = p THEN new ELSE profiles[q]]
  /\ NextAuthor
  /\ UNCHANGED <<cached, fresh>>

\* The model or the store fails one author: the run goes on with the next.
UpdateFails ==
  /\ updater.step \in {"known", "save"}
  /\ NextAuthor
  /\ UNCHANGED <<profiles, cached, fresh>>

\* The run is over, the store could not list, or the process was restarted.
EndRun ==
  /\ \/ updater.step = "next" /\ updater.todo = {} /\ UNCHANGED fresh
     \/ updater.step = "list" /\ UNCHANGED fresh
     \/ updater.step # "sleep" /\ fresh' = FALSE
  /\ Update(Asleep)
  /\ UNCHANGED <<profiles, cached>>

-----------------------------------------------------------------------------
(* doofus-rick forget, in a process of its own.                            *)

ForgetMessage(m) ==
  /\ m \in stored
  /\ stored' = stored \ {m}
  /\ UNCHANGED <<profiles, forgotten, quoted, public, cached, fresh, updater,
                 forgetting, newest, late, overtaken>>

ForgetStep(p, to) == forgetting' = [forgetting EXCEPT ![p] = to]

\* ForgetAuthor inserts a row: a second time that is an error, and the command
\* ends before it deletes anything.
ForgetAuthor(p) ==
  /\ forgetting[p] \in {"no", "failed"}
  /\ \/ /\ p \notin forgotten
        /\ forgotten' = forgotten \cup {p}
        /\ ForgetStep(p, "profile")
     \/ /\ UNCHANGED forgotten
        /\ ForgetStep(p, "failed")
  /\ UNCHANGED <<stored, profiles, quoted, public, cached, fresh, updater,
                 newest, late, overtaken>>

Listed(p) ==
  updater.at.author = p \/ \E cand \in updater.todo : cand.author = p

DeleteProfile(p) ==
  /\ forgetting[p] = "profile"
  /\ \/ /\ profiles' = [q \in DOMAIN profiles \ {p} |-> profiles[q]]
        /\ \E to \in {"quotes", "done"} : ForgetStep(p, to)
        /\ overtaken' = IF Listed(p) THEN overtaken \cup {p} ELSE overtaken
     \/ /\ ForgetStep(p, "failed")
        /\ UNCHANGED <<profiles, overtaken>>
  /\ UNCHANGED <<stored, forgotten, quoted, public, cached, fresh, updater,
                 newest, late>>

DeleteQuotes(p) ==
  /\ forgetting[p] = "quotes"
  /\ \/ quoted' = quoted \ {p} /\ ForgetStep(p, "done")
     \/ UNCHANGED quoted /\ ForgetStep(p, "failed")
  /\ UNCHANGED <<stored, profiles, forgotten, public, cached, fresh, updater,
                 newest, late, overtaken>>

-----------------------------------------------------------------------------
PeopleNext ==
  \/ \E m \in Ids : StoreMessage(m) \/ ForgetMessage(m)
  \/ \E c \in Changing : ChangeChannel(c)
  \/ CacheExpires
  \/ StartRun \/ ListCandidates \/ ReadMessages \/ ReadProfile \/ SaveProfile
  \/ UpdateFails \/ EndRun
  \/ \E p \in People : ForgetAuthor(p) \/ DeleteProfile(p) \/ DeleteQuotes(p)

PeopleSpec == PeopleInit /\ [][PeopleNext]_peopleVars

-----------------------------------------------------------------------------
\* Once the command has said that a profile is deleted it stays deleted, unless
\* an update had listed the author when the command came (forget, main.go;
\* runOnce, updater.go).
DeletedStaysDeleted ==
  \A p \in People :
    forgetting[p] \in {"quotes", "done"} /\ Has(p) => p \in overtaken

\* Below the watermark everything has been read: a message of a channel that
\* stays public is in its author's profile, but for one stored after a newer
\* one of the author; a message of a channel that stays private never is
\* (GetAuthorMessagesAfter, SavePersonProfile, PublicChannelIDs).
WatermarkIsTrue ==
  \A p \in DOMAIN profiles \ forgotten, m \in stored :
    AuthorOf[m] = p /\ ChannelOf[m] \notin Changing =>
      IF ChannelOf[m] \in public
      THEN m <= profiles[p].mark => m \in profiles[p].from \cup late
      ELSE m \notin profiles[p].from
=============================================================================
