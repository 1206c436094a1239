----------------------------- MODULE Scoreboard -----------------------------
(***************************************************************************)
(* The scoreboard of a contest, over the facts Submissions provides:       *)
(* reads are served from snapshots that are built on demand and kept under *)
(* the version of the facts.                                               *)
(*                                                                         *)
(* A read is ScoreboardViewService.read in some replica.  It takes the     *)
(* time, then the contest row with the version, then looks for a snapshot, *)
(* replays the facts, and stores what it built: five steps, with facts,    *)
(* revisions, the freeze, the end and other reads in between.  Reads of    *)
(* one replica that want the same build share it (ScoreboardBuildCoordina- *)
(* tor); here they are reads that take the same steps.                     *)
(***************************************************************************)
EXTENDS ScoreFacts

CONSTANTS
  Readers,
  Views,      \* the views that are read, public or internal
  FreezeAt    \* contests.scoreboard_freeze_at; no freeze is one at EndAt

ASSUME ScoreboardAssumption ==
  /\ Views \subseteq {"public", "internal"}
  /\ FreezeAt \in Nat /\ FreezeAt <= EndAt

VARIABLES
  snapshots,  \* scoreboard_snapshots of the overall scope
  readers     \* reads under way

boardVars == <<snapshots, readers>>
scoreboardVars == <<factVars, boardVars>>

-----------------------------------------------------------------------------

\* What a board is made of: scores, ranks and first solves are functions of
\* these facts and the ranked teams.
Boards == [solves : SUBSET Solves, adjustments : SUBSET Adjustments,
           ranked : SUBSET Participations]

Snapshots == [view : Views, version : Nat, board : Boards]

EmptyBoard == [solves |-> {}, adjustments |-> {}, ranked |-> {}]

Reads == [phase : {"idle", "opened", "loaded", "missed", "built", "failing",
                   "served", "failed"},
          view : Views \cup {"public"},
          at : Times,           \* until the contest row is loaded
          state : {"live", "frozen", "settled"},
          archived : BOOLEAN,   \* the contest row it loaded was archived
          version : Nat,        \* loaded, then that of the board it shows
          stale : BOOLEAN,
          floor : Nat,          \* history: the version when it was opened
          board : Boards]
NoRead == [phase |-> "idle", view |-> "public", at |-> 0, state |-> "live",
           archived |-> FALSE, version |-> 0, stale |-> FALSE, floor |-> 0,
           board |-> EmptyBoard]

\* Types, those of the facts included.
ScoreboardTypeOK ==
  /\ FactsTypeOK
  /\ snapshots \subseteq Snapshots
  /\ readers \in [Readers -> Reads]

ScoreboardInit ==
  /\ FactsInit
  /\ snapshots = {}
  /\ readers = [r \in Readers |-> NoRead]

-----------------------------------------------------------------------------
(* The replay *)

\* The committed facts of before a cutoff, read in one repeatable read.
NoCutoff == MaxTime + 1

BoardBefore(cutoff) ==
  [solves |-> {s \in solves : s.at < cutoff},
   adjustments |-> {a \in adjustments : a.at < cutoff},
   ranked |-> ranked]

\* The replay throws unless the solves of every challenge are numbered
\* without a gap.  Its other checks compare solves with submissions of the
\* same time and hold whatever the cutoff (FactsReplayable of Submissions).
Contiguous(S) ==
  \A c \in Challenges :
    {s.order : s \in SolvesOf(S, c)} = 1..Cardinality(SolvesOf(S, c))

\* factVersion
Facts(board) == Cardinality(board.solves) + Cardinality(board.adjustments)

-----------------------------------------------------------------------------
(* A read *)

Step(r, read) == readers' = [readers EXCEPT ![r] = read]

Public(v) == {s \in snapshots : s.view = v}
LatestOf(S) == CHOOSE s \in S : \A u \in S : u.version <= s.version

\* The answer is given, from a board of this version.  Of the answer only the
\* facts are kept.
Serve(r, board, v, stale) ==
  Step(r, [readers[r] EXCEPT !.phase = "served", !.version = v, !.stale = stale,
                             !.board = [EmptyBoard EXCEPT !.solves = board.solves,
                                                          !.adjustments = board.adjustments]])

Open(r, view) ==
  /\ readers[r].phase = "idle"
  /\ Step(r, [NoRead EXCEPT !.phase = "opened", !.view = view, !.at = now, !.floor = version])
  /\ UNCHANGED <<factVars, snapshots>>

StateOf(read) ==
  IF read.view = "internal" THEN "live"
  ELSE IF archived \/ EndAt <= read.at THEN "settled"
  ELSE IF FreezeAt <= read.at THEN "frozen"
  ELSE "live"

Load(r) ==
  /\ readers[r].phase = "opened"
  /\ Step(r, [readers[r] EXCEPT !.phase = "loaded", !.state = StateOf(readers[r]),
                                !.archived = archived, !.version = version,
                                !.at = 0])
  /\ UNCHANGED <<factVars, snapshots>>

\* Mutant of Answering: the latest snapshot will do.
AnsweringAny(read) ==
  {s \in snapshots : read.view = "public" /\ s.view = "public"}

\* The snapshots that answer a public read: of its exact version, or any
\* public one once the board is frozen.  Internal reads always build.
Answering(read) ==
  {s \in snapshots : /\ read.view = "public" /\ s.view = "public"
                     /\ read.state # "frozen" => s.version = read.version}

ServeStored(r) ==
  /\ readers[r].phase = "loaded"
  /\ Answering(readers[r]) # {}
  /\ LET s == LatestOf(Answering(readers[r])) IN Serve(r, s.board, s.version, FALSE)
  /\ UNCHANGED <<factVars, snapshots>>

Miss(r) ==
  /\ readers[r].phase = "loaded"
  /\ Answering(readers[r]) = {}
  /\ Step(r, [readers[r] EXCEPT !.phase = "missed"])
  /\ UNCHANGED <<factVars, snapshots>>

\* Mutant of Cutoff: the end does not lift the freeze.
CutoffUntilArchived(read) == IF read.state # "live" THEN FreezeAt ELSE NoCutoff

Cutoff(read) == IF read.state = "frozen" THEN FreezeAt ELSE NoCutoff

\* Mutant of Rebuildable: the facts may be those of another version.
RebuildableAnyVersion(read) == Contiguous(BoardBefore(Cutoff(read)).solves)

\* Facts of a version other than the one loaded are a conflict.
Rebuildable(read) ==
  /\ Contiguous(BoardBefore(Cutoff(read)).solves)
  /\ read.state # "frozen" => Facts(BoardBefore(NoCutoff)) = read.version

\* A frozen board takes the version of its facts.
VersionOf(read, board) == IF read.state = "frozen" THEN Facts(board) ELSE read.version

Build(r) ==
  /\ readers[r].phase = "missed"
  /\ Rebuildable(readers[r])
  /\ LET board == BoardBefore(Cutoff(readers[r]))
     IN Step(r, [readers[r] EXCEPT !.phase = "built", !.board = board,
                                   !.version = VersionOf(readers[r], board)])
  /\ UNCHANGED <<factVars, snapshots>>

\* The facts conflict, or the database fails.
BuildFails(r) ==
  /\ readers[r].phase = "missed"
  /\ Step(r, [readers[r] EXCEPT !.phase = "failing"])
  /\ UNCHANGED <<factVars, snapshots>>

\* Mutant of SnapshotOf: stored under the state instead of the view.
SnapshotUnderState(read) ==
  [view |-> read.state, version |-> read.version, board |-> read.board]

SnapshotOf(read) == [view |-> read.view, version |-> read.version, board |-> read.board]

\* INSERT ... ON CONFLICT DO NOTHING, then the stored board must be the same.
Stored(read) == {s \in snapshots : s.view = read.view /\ s.version = read.version}
Converges(read) == \A s \in Stored(read) : s.board = read.board

Store(r) ==
  /\ readers[r].phase = "built"
  /\ Converges(readers[r])
  /\ snapshots' = snapshots \cup {SnapshotOf(readers[r])}
  /\ Serve(r, readers[r].board, readers[r].version, FALSE)
  /\ UNCHANGED factVars

\* The stored board is another, or the insert fails, or it is made and its
\* answer is lost.
StoreFails(r) ==
  /\ readers[r].phase = "built"
  /\ \/ UNCHANGED snapshots
     \/ Stored(readers[r]) = {} /\ snapshots' = snapshots \cup {SnapshotOf(readers[r])}
  /\ Step(r, [readers[r] EXCEPT !.phase = "failing", !.board = EmptyBoard])
  /\ UNCHANGED factVars

\* A public read that is live or settled falls back to an earlier snapshot.
Earlier(read) ==
  {s \in snapshots : /\ read.view = "public" /\ s.view = "public"
                     /\ read.state # "frozen"}

HasFallback(read) ==
  Earlier(read) # {} /\ LatestOf(Earlier(read)).version < read.version

ServeStale(r) ==
  /\ readers[r].phase = "failing"
  /\ HasFallback(readers[r])
  /\ LET s == LatestOf(Earlier(readers[r])) IN Serve(r, s.board, s.version, TRUE)
  /\ UNCHANGED <<factVars, snapshots>>

Fail(r) ==
  /\ readers[r].phase = "failing"
  /\ ~HasFallback(readers[r])
  /\ Step(r, [NoRead EXCEPT !.phase = "failed"])
  /\ UNCHANGED <<factVars, snapshots>>

\* The answer is sent, or the replica crashes.
Close(r) ==
  /\ readers[r].phase # "idle"
  /\ Step(r, NoRead)
  /\ UNCHANGED <<factVars, snapshots>>

\* OperationsService.execute, result_recalculate: the operator clears the
\* snapshots; the reads it makes then are reads like any other.
ClearSnapshots ==
  /\ snapshots # {}
  /\ snapshots' = {}
  /\ UNCHANGED <<factVars, readers>>

-----------------------------------------------------------------------------

ReadStep ==
  \/ \E r \in Readers :
       \/ \E view \in Views : Open(r, view)
       \/ Load(r) \/ ServeStored(r) \/ Miss(r) \/ Build(r) \/ BuildFails(r)
       \/ Store(r) \/ StoreFails(r) \/ ServeStale(r) \/ Fail(r) \/ Close(r)
  \/ ClearSnapshots

ScoreboardNext == (FactsNext /\ UNCHANGED boardVars) \/ ReadStep

ScoreboardSpec == ScoreboardInit /\ [][ScoreboardNext]_scoreboardVars

-----------------------------------------------------------------------------
(* Properties *)

Served(r) == readers[r].phase = "served"

FactsOf(board) == [solves |-> board.solves, adjustments |-> board.adjustments]

\* A snapshot holds exactly as many facts as its version says, all of them
\* committed, and a complete replayable score: a build never mixes the
\* version of one moment with the facts of another.
SnapshotsAreExact ==
  \A s \in snapshots :
    /\ s.version = Facts(s.board)
    /\ s.board.solves \subseteq solves
    /\ s.board.adjustments \subseteq adjustments
    /\ Contiguous(s.board.solves)

\* A public read of a live or settled board shows at least the facts that
\* were committed when it was opened, or says it is stale, whatever replica
\* answers and however its steps fall between commits and other builds.
PublicReadsAreFresh ==
  \A r \in Readers :
    (Served(r) /\ readers[r].view = "public" /\ ~readers[r].stale
      /\ readers[r].state # "frozen") => readers[r].floor <= readers[r].version

\* Once the contest is archived, a public read that finds it so can rebuild the
\* board at once, and what it is given without a mark has every fact of the
\* contest.  A marked answer is exempt: whatever fails between the build and its
\* stored snapshot has the read answered from an earlier one.
ArchivedReadsAreComplete ==
  \A r \in Readers :
    (readers[r].archived /\ readers[r].view = "public") =>
      /\ readers[r].phase = "missed" => Rebuildable(readers[r])
      /\ Served(r) /\ ~readers[r].stale
           => FactsOf(readers[r].board) = FactsOf(BoardBefore(NoCutoff))

\* A frozen board shows nothing submitted after the freeze.
FrozenShowsNothingLater ==
  \A r \in Readers :
    (Served(r) /\ readers[r].state = "frozen") =>
      \A s \in readers[r].board.solves : s.at < FreezeAt

=============================================================================
