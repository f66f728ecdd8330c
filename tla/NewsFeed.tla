------------------------------ MODULE NewsFeed ------------------------------
(***************************************************************************)
(* The news screen: NewsViewController asks for the feed in viewDidLoad;   *)
(* NewsViewModel turns the answer into sections on a global queue, reloads *)
(* the table from that queue too, and answers the table's questions about  *)
(* postModels on the main thread.  Nothing orders the two threads.         *)
(***************************************************************************)
EXTENDS Integers, SequencesExt

CONSTANTS
  Nil,   \* a post without a source_id
  Feed   \* the answers: who wrote each post, and the groups and profiles sent along

ASSUME FeedAssumption ==
  \A feed \in Feed :
    /\ feed.posts \in Seq(Int \cup {Nil})
    /\ feed.groups \in Seq(Nat) /\ feed.profiles \in Seq(Nat)

VARIABLES
  alive,    \* the process runs
  request,  \* the request of viewDidLoad
  feed,     \* its answer, once there is one
  job,      \* the block of setUpAsync
  next,     \* the post its loop has come to
  sections, \* postModels: the creator of each section's post
  needed,   \* the table has to lay itself out
  told,     \* numberOfSections as the table last read it
  asking    \* the section whose rows the table asks for, or 0

vars == <<alive, request, feed, job, next, sections, needed, told, asking>>

table == <<needed, told, asking>>

NoFeed == [posts |-> <<>>, groups |-> <<>>, profiles |-> <<>>]

\* A creator is the group or profile at an index of the answer.
Creator == [of : {"groups", "profiles"}, at : Nat \ {0}]

TypeOK ==
  /\ alive \in BOOLEAN
  /\ request \in {"inflight", "failed", "answered"}
  /\ feed \in Feed \cup {NoFeed}
  /\ job \in {"none", "loop", "appending", "reload", "done"}
  /\ next \in 1..(Len(feed.posts) + 1)
  /\ sections \in Seq(Creator) /\ Len(sections) < next
  /\ needed \in BOOLEAN
  /\ told \in 0..Len(feed.posts)
  /\ asking \in 0..told

Init ==
  /\ alive = TRUE
  /\ request = "inflight"
  /\ feed = NoFeed
  /\ job = "none" /\ next = 1 /\ sections = <<>>
  /\ needed = TRUE /\ told = 0 /\ asking = 0
-----------------------------------------------------------------------------
\* The network: an answer, decoded, queues the block of setUpAsync; a failure
\* is printed.
Respond(answer) ==
  /\ alive /\ request = "inflight"
  /\ request' = "answered"
  /\ feed' = answer
  /\ job' = "loop"
  /\ UNCHANGED <<alive, next, sections, table>>

Fail ==
  /\ alive /\ request = "inflight"
  /\ request' = "failed"
  /\ UNCHANGED <<alive, feed, job, next, sections, table>>
-----------------------------------------------------------------------------
(***************************************************************************)
(* setUp on the global queue, and the reload after it.                     *)
(***************************************************************************)
\* A slip: a community's negative source_id is looked up as it stands.
KeepsSign(source) == source

\* Communities are identified by negative source_ids.
IdOf(source) == IF source < 0 THEN -source ELSE source

\* getCreator: the first group or profile with the id, or an error.
IndexOf(source) ==
  IF source = Nil THEN 0
  ELSE IF source < 0
       THEN SelectInSeq(feed.groups, LAMBDA id : id = IdOf(source))
       ELSE SelectInSeq(feed.profiles, LAMBDA id : id = IdOf(source))

\* A slip: getCreator throws only for a post without a source_id.
IsNotNil(source) == source # Nil

HasCreator(source) == IndexOf(source) # 0

GetCreator(source) ==
  [of |-> IF source < 0 THEN "groups" ELSE "profiles", at |-> IndexOf(source)]

InLoop == alive /\ job = "loop" /\ next <= Len(feed.posts)

\* A slip: an undefined creator ends the loop.
UnknownEndsLoop ==
  /\ InLoop /\ ~HasCreator(feed.posts[next])
  /\ job' = "reload"
  /\ UNCHANGED <<alive, request, feed, next, sections, table>>

\* A post without a known creator is printed and skipped.
SkipPost ==
  /\ InLoop /\ ~HasCreator(feed.posts[next])
  /\ next' = next + 1
  /\ UNCHANGED <<alive, request, feed, job, sections, table>>

\* postModels.append is not atomic: between its begin and its end another
\* thread may find the array before, after or in the middle of the change.
AppendBegin ==
  /\ InLoop /\ HasCreator(feed.posts[next])
  /\ job' = "appending"
  /\ UNCHANGED <<alive, request, feed, next, sections, table>>

\* A slip: the array is set to the new section alone.
AppendReplaces ==
  /\ alive /\ job = "appending"
  /\ sections' = <<GetCreator(feed.posts[next])>>
  /\ next' = next + 1
  /\ job' = "loop"
  /\ UNCHANGED <<alive, request, feed, table>>

AppendEnd ==
  /\ alive /\ job = "appending"
  /\ sections' = Append(sections, GetCreator(feed.posts[next]))
  /\ next' = next + 1
  /\ job' = "loop"
  /\ UNCHANGED <<alive, request, feed, table>>

\* The loop is over.
EndLoop ==
  /\ alive /\ job = "loop" /\ next > Len(feed.posts)
  /\ job' = "reload"
  /\ UNCHANGED <<alive, request, feed, next, sections, table>>

\* reloadData from the global queue: the table lays itself out anew.  UIKit
\* promises nothing when the main thread is in a layout at that moment.
Reload ==
  /\ alive /\ job = "reload"
  /\ \/ needed' = TRUE /\ job' = "done" /\ UNCHANGED alive
     \/ asking # 0 /\ alive' = FALSE /\ UNCHANGED <<needed, job>>
  /\ UNCHANGED <<request, feed, next, sections, told, asking>>
-----------------------------------------------------------------------------
(***************************************************************************)
(* The table's layout on the main thread.                                  *)
(***************************************************************************)
\* What a read of postModels.count may return: during an append, either count.
Counts == Len(sections) .. (Len(sections) + (IF job = "appending" THEN 1 ELSE 0))

\* numberOfSections.
LayoutBegin ==
  /\ alive /\ needed /\ asking = 0
  /\ needed' = FALSE
  /\ told' \in Counts
  /\ asking' = IF told' = 0 THEN 0 ELSE 1
  /\ UNCHANGED <<alive, request, feed, job, next, sections>>

\* numberOfRowsInSection reads postModels[asking].  No section has rows: the
\* initialiser of SectionModel leaves postCells empty.
LayoutRows ==
  /\ alive /\ asking # 0
  /\ asking' = IF asking = told THEN 0 ELSE asking + 1
  /\ UNCHANGED <<alive, request, feed, job, next, sections, needed, told>>

\* A read in the middle of an append: the buffer may just have been freed.
ReadTorn ==
  /\ alive /\ job = "appending"
  /\ needed \/ asking # 0
  /\ alive' = FALSE
  /\ UNCHANGED <<request, feed, job, next, sections, table>>
-----------------------------------------------------------------------------
Network == (\E answer \in Feed : Respond(answer)) \/ Fail
Global  == SkipPost \/ AppendBegin \/ AppendEnd \/ EndLoop \/ Reload
Main    == LayoutBegin \/ LayoutRows \/ ReadTorn

Next == Network \/ Global \/ Main

\* Requests settle (they time out), threads run on.
Spec ==
  /\ Init /\ [][Next]_vars
  /\ WF_vars(Network) /\ WF_vars(Global) /\ WF_vars(Main)
-----------------------------------------------------------------------------
(***************************************************************************)
(* What must be true.                                                      *)
(***************************************************************************)
\* Who wrote a post: someone sent along with it, a community by its id and a
\* user by theirs.
Wrote(creator, source) ==
  IF creator.of = "groups" THEN feed.groups[creator.at] = -source
  ELSE feed.profiles[creator.at] = source

Known(source) ==
  source # Nil /\ (\/ \E i \in DOMAIN feed.groups : source < 0 /\ feed.groups[i] = -source
                   \/ \E i \in DOMAIN feed.profiles : feed.profiles[i] = source)

\* The posts up to a place in the feed whose author was sent along.
KnownUpTo(n) == {i \in 1..n : Known(feed.posts[i])}

\* The sections are the posts read so far whose author is known, in the order
\* of the feed, each with its author: a post of an unknown author is left out
\* and takes none of the posts behind it along (setUp's continue).
SectionsFollowFeed ==
  /\ Len(sections) = Cardinality(KnownUpTo(next - 1))
  /\ \A i \in KnownUpTo(next - 1) :
       Wrote(sections[Cardinality(KnownUpTo(i))], feed.posts[i])

\* postModels[section] is in bounds whenever the table asks for the rows of a
\* section, though it read the count earlier and the array changed since; only
\* in the middle of an append may the section be the one being added.
LayoutStaysInBounds == asking <= Len(sections) \/ asking \in Counts

\* An answered feed ends with the table having one section for each post whose
\* author is known, or with the death of the process in the race.
FeedIsShown ==
  (request = "answered") ~>
    (told = Cardinality(KnownUpTo(Len(feed.posts))) \/ ~alive)
=============================================================================
