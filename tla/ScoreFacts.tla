----------------------------- MODULE ScoreFacts -----------------------------
(***************************************************************************)
(* What the submissions of a contest promise to whoever reads its score:   *)
(* official solves and score adjustments are only ever added, one at a     *)
(* time; each addition moves the scoreboard version by one; a solve takes  *)
(* the next order of its challenge; nothing is added to an archived        *)
(* contest.  A fact carries the time its request was made, which may be    *)
(* earlier than that of a fact that was stored before it.                  *)
(*                                                                         *)
(* Submissions implements this; Scoreboard reads it.                       *)
(***************************************************************************)
EXTENDS Integers, FiniteSets

CONSTANTS
  Participations,
  Challenges,
  EndAt,
  MaxTime,        \* bound: the clock stops here
  MaxLag,         \* bound: ticks an adjustment or acceptance waits
  MaxFacts        \* bound: solves and adjustments together

ASSUME ScoreFactsAssumption ==
  /\ IsFiniteSet(Participations)
  /\ EndAt \in Nat
  /\ MaxTime \in Nat /\ MaxLag \in Nat /\ MaxFacts \in Nat

VARIABLES
  now,
  archived,
  ranked,       \* the accepted participations
  solves,       \* the official solves
  adjustments,
  version       \* scoreboard_versions.version, 0 without a row

factVars == <<now, archived, ranked, solves, adjustments, version>>

-----------------------------------------------------------------------------

Times == 0..MaxTime

Solves == [participation : Participations, challenge : Challenges,
           order : Nat, at : Times]
\* Whose score is adjusted, and by how much, makes no difference here.
Adjustments == [number : Nat, at : Times]

FactsTypeOK ==
  /\ now \in Times
  /\ archived \in BOOLEAN
  /\ ranked \subseteq Participations
  /\ solves \subseteq Solves
  /\ adjustments \subseteq Adjustments
  /\ version \in Nat

FactsInit ==
  /\ now = 0
  /\ archived = FALSE
  /\ ranked = {}
  /\ solves = {}
  /\ adjustments = {}
  /\ version = 0

SolvesOf(S, c) == {s \in S : s.challenge = c}

AddSolve(p, c, at) ==
  /\ version < MaxFacts
  /\ ~archived
  /\ p \in ranked
  /\ at <= now /\ at < EndAt
  /\ \A s \in SolvesOf(solves, c) : s.participation # p
  /\ solves' = solves \cup {[participation |-> p, challenge |-> c, at |-> at,
                             order |-> Cardinality(SolvesOf(solves, c)) + 1]}
  /\ version' = version + 1
  /\ UNCHANGED <<now, archived, ranked, adjustments>>

AddAdjustment(at) ==
  /\ version < MaxFacts
  /\ ~archived
  /\ at <= now /\ now <= at + MaxLag
  /\ adjustments' = adjustments \cup
       {[number |-> Cardinality(adjustments) + 1, at |-> at]}
  /\ version' = version + 1
  /\ UNCHANGED <<now, archived, ranked, solves>>

\* Accepting a participation changes the board and leaves the version as it
\* is.  So do assigning a division and revising a scoring policy, which a
\* reader cannot tell from it.  Whether the contest has ended is judged by the
\* time at which the acceptance began.
Accept(p, at) ==
  /\ ~archived
  /\ at <= now /\ now <= at + MaxLag /\ at < EndAt
  /\ p \notin ranked
  /\ ranked' = ranked \cup {p}
  /\ UNCHANGED <<now, archived, solves, adjustments, version>>

Archive ==
  /\ ~archived /\ EndAt <= now
  /\ archived' = TRUE
  /\ UNCHANGED <<now, ranked, solves, adjustments, version>>

Tick ==
  /\ now < MaxTime
  /\ now' = now + 1
  /\ UNCHANGED <<archived, ranked, solves, adjustments, version>>

FactsNext ==
  \/ \E p \in Participations, c \in Challenges, at \in Times : AddSolve(p, c, at)
  \/ \E at \in Times : AddAdjustment(at)
  \/ \E p \in Participations, at \in Times : Accept(p, at)
  \/ Archive
  \/ Tick

FactsSpec == FactsInit /\ [][FactsNext]_factVars

=============================================================================
