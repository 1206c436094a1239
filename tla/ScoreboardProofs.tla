-------------------------- MODULE ScoreboardProofs --------------------------
(***************************************************************************)
(* Theorems about Scoreboard for every value of its constants.             *)
(***************************************************************************)
EXTENDS Scoreboard, FiniteSetTheorems, WellFoundedInduction, TLAPS

-----------------------------------------------------------------------------
(* Greatest elements *)

LEMMA LessThanOnNat == IsWellFoundedOn({p \in Nat \X Nat : p[1] < p[2]}, Nat)
  BY NatLessThanWellFounded DEF OpToRel

\* A set of naturals that has a bound has a greatest element.
LEMMA GreatestOfBounded ==
  ASSUME NEW S \in SUBSET Nat, NEW n \in Nat, S # {}, \A s \in S : s <= n
  PROVE  \E m \in S : \A s \in S : s <= m
  <1> DEFINE R == {p \in Nat \X Nat : p[1] < p[2]}
             T == {n - s : s \in S}
  <1>1. \A s \in S : n - s \in Nat
    BY \A s \in S : s \in Nat
  <1>2. T \subseteq Nat /\ T # {} /\ \A t \in T : t \in Nat
    BY <1>1
  <1>3. IsWellFoundedOn(R, Nat)
    BY LessThanOnNat
  <1>4. \A y, x \in Nat : y < x => <<y, x>> \in R
    OBVIOUS
  <1> HIDE DEF R, T
  <1>5. PICK x \in T : \A y \in T : <<y, x>> \notin R
    BY <1>2, <1>3, WFMin
  <1>6. ASSUME NEW y \in T
        PROVE  x <= y
    <2>1. x \in Nat /\ y \in Nat /\ ~(y < x)
      BY <1>2, <1>4, <1>5
    <2> QED
      BY <2>1
  <1>7. PICK m \in S : x = n - m
    BY DEF T
  <1>8. ASSUME NEW s \in S
        PROVE  s <= m
    <2>1. n - s \in T
      BY DEF T
    <2>2. n - m <= n - s
      BY <1>6, <1>7, <2>1
    <2>3. n \in Nat /\ s \in Nat /\ m \in Nat
      OBVIOUS
    <2> QED
      BY <2>2, <2>3
  <1> QED
    BY <1>8

-----------------------------------------------------------------------------
(* The facts *)

\* The version counts the facts, which are finitely many, and the solves of every
\* challenge are numbered without a gap.
FactsInv ==
  /\ FactsTypeOK
  /\ IsFiniteSet(solves) /\ IsFiniteSet(adjustments)
  /\ version = Cardinality(solves) + Cardinality(adjustments)
  /\ Contiguous(solves)
  /\ \A a \in adjustments : a.number <= Cardinality(adjustments)

\* What a step may do to the facts as a reader sees them: they grow, and an
\* archived contest stays as it is.
FactsGrow ==
  /\ solves \subseteq solves' /\ adjustments \subseteq adjustments'
  /\ version <= version'
  /\ archived => archived' /\ UNCHANGED <<solves, adjustments, version>>

LEMMA FactsFields ==
  ASSUME FactsInv
  PROVE  /\ now \in Nat /\ now <= MaxTime /\ MaxTime \in Nat /\ EndAt \in Nat
         /\ archived \in BOOLEAN /\ version \in Nat
         /\ solves \subseteq Solves /\ adjustments \subseteq Adjustments
         /\ \A s \in solves : s.at \in Nat /\ s.at <= MaxTime
         /\ \A a \in adjustments : a.at \in Nat /\ a.at <= MaxTime
         /\ IsFiniteSet(solves) /\ IsFiniteSet(adjustments)
         /\ Cardinality(solves) \in Nat /\ Cardinality(adjustments) \in Nat
         /\ version = Cardinality(solves) + Cardinality(adjustments)
  BY ScoreFactsAssumption, FS_CardinalityType
  DEF FactsInv, FactsTypeOK, Times, Solves, Adjustments

LEMMA AddSolveKeeps ==
  ASSUME FactsInv, NEW p \in Participations, NEW c \in Challenges, NEW at \in Times,
         AddSolve(p, c, at)
  PROVE  FactsInv' /\ FactsGrow
  <1> DEFINE n == Cardinality(SolvesOf(solves, c))
             new == [participation |-> p, challenge |-> c, at |-> at, order |-> n + 1]
  <1>1. /\ ~archived /\ solves' = solves \cup {new} /\ version' = version + 1
        /\ UNCHANGED <<now, archived, ranked, adjustments>>
        /\ \A s \in SolvesOf(solves, c) : s.participation # p
    BY DEF AddSolve
  <1>2. IsFiniteSet(SolvesOf(solves, c)) /\ n \in Nat
    BY FactsFields, FS_Subset, FS_CardinalityType DEF SolvesOf
  <1>3. /\ new \in Solves /\ new.challenge = c /\ new.order = n + 1 /\ new.participation = p
    BY <1>2 DEF Solves
  <1>4. n = Cardinality(SolvesOf(solves, c))
    OBVIOUS
  <1> HIDE DEF new, n
  <1>5. new \notin solves
    BY <1>1, <1>3 DEF SolvesOf
  <1>6. /\ IsFiniteSet(solves') /\ Cardinality(solves') = Cardinality(solves) + 1
    BY <1>1, <1>5, FactsFields, FS_AddElement
  <1>7. FactsTypeOK'
    BY <1>1, <1>3, FactsFields DEF FactsInv, FactsTypeOK
  <1>8. Contiguous(solves')
    <2> SUFFICES ASSUME NEW d \in Challenges
                 PROVE  {s.order : s \in SolvesOf(solves', d)} =
                          1..Cardinality(SolvesOf(solves', d))
      BY DEF Contiguous
    <2>1. CASE d # c
      <3>1. SolvesOf(solves', d) = SolvesOf(solves, d)
        BY <1>1, <1>3, <2>1 DEF SolvesOf
      <3> QED
        BY <3>1 DEF FactsInv, Contiguous
    <2>2. CASE d = c
      <3>1. SolvesOf(solves', c) = SolvesOf(solves, c) \cup {new}
        BY <1>1, <1>3 DEF SolvesOf
      <3>2. new \notin SolvesOf(solves, c)
        BY <1>5 DEF SolvesOf
      <3>3. Cardinality(SolvesOf(solves', c)) = n + 1
        BY <1>2, <1>4, <3>1, <3>2, FS_AddElement
      <3>4. {s.order : s \in SolvesOf(solves, c)} = 1..n
        BY <1>4 DEF FactsInv, Contiguous
      <3>5. {s.order : s \in SolvesOf(solves', c)} = (1..n) \cup {n + 1}
        BY <1>3, <3>1, <3>4
      <3>6. (1..n) \cup {n + 1} = 1..(n + 1)
        BY <1>2
      <3> QED
        BY <2>2, <3>3, <3>5, <3>6
    <2> QED
      BY <2>1, <2>2
  <1>9. FactsInv'
    BY <1>1, <1>6, <1>7, <1>8, FactsFields DEF FactsInv, Contiguous, SolvesOf
  <1> QED
    BY <1>1, <1>9, FactsFields DEF FactsGrow

LEMMA AddAdjustmentKeeps ==
  ASSUME FactsInv, NEW at \in Times, AddAdjustment(at)
  PROVE  FactsInv' /\ FactsGrow
  <1> DEFINE n == Cardinality(adjustments)
             new == [number |-> n + 1, at |-> at]
  <1>1. /\ ~archived /\ adjustments' = adjustments \cup {new} /\ version' = version + 1
        /\ UNCHANGED <<now, archived, ranked, solves>>
    BY DEF AddAdjustment
  <1>2. n \in Nat /\ n = Cardinality(adjustments) /\ \A a \in adjustments : a.number <= n
    BY FactsFields DEF FactsInv
  <1>3. new \in Adjustments /\ new.number = n + 1
    BY <1>2 DEF Adjustments
  <1> HIDE DEF new, n
  <1>4. new \notin adjustments
    BY <1>2, <1>3
  <1>5. IsFiniteSet(adjustments') /\ Cardinality(adjustments') = n + 1
    BY <1>1, <1>2, <1>4, FactsFields, FS_AddElement
  <1>6. FactsTypeOK'
    BY <1>1, <1>3, FactsFields DEF FactsInv, FactsTypeOK
  <1>7. \A a \in adjustments' : a.number <= n + 1
    <2> TAKE a \in adjustments'
    <2>1. CASE a = new
      BY <1>2, <1>3, <2>1
    <2>2. CASE a \in adjustments
      <3>1. a.number \in Nat /\ a.number <= n
        BY <1>2, <2>2, FactsFields DEF Adjustments
      <3> QED
        BY <1>2, <3>1
    <2> QED
      BY <1>1, <2>1, <2>2
  <1>8. FactsInv'
    <2>1. version' = Cardinality(solves') + Cardinality(adjustments')
      BY <1>1, <1>2, <1>5, FactsFields
    <2>2. Contiguous(solves)'
      BY <1>1 DEF FactsInv, Contiguous, SolvesOf
    <2>3. \A a \in adjustments' : a.number <= Cardinality(adjustments')
      BY <1>5, <1>7
    <2> QED
      BY <1>1, <1>5, <1>6, <2>1, <2>2, <2>3, FactsFields DEF FactsInv
  <1> QED
    BY <1>1, <1>8, FactsFields DEF FactsGrow

LEMMA FactsKeep ==
  ASSUME FactsInv, [FactsNext]_factVars
  PROVE  FactsInv' /\ FactsGrow
  <1>1. ASSUME UNCHANGED <<solves, adjustments, version>>, FactsTypeOK', archived => archived'
        PROVE  FactsInv' /\ FactsGrow
    BY <1>1, FactsFields DEF FactsInv, FactsGrow, Contiguous, SolvesOf
  <1>2. CASE UNCHANGED factVars
    BY <1>1, <1>2 DEF factVars, FactsInv, FactsTypeOK
  <1>3. ASSUME NEW p \in Participations, NEW at \in Times, Accept(p, at)
        PROVE  FactsInv' /\ FactsGrow
    BY <1>1, <1>3 DEF Accept, FactsInv, FactsTypeOK
  <1>4. CASE Archive
    BY <1>1, <1>4 DEF Archive, FactsInv, FactsTypeOK
  <1>5. CASE Tick
    <2>1. now' \in Times
      BY <1>5, FactsFields DEF Tick, Times
    <2> QED
      BY <1>1, <1>5, <2>1 DEF Tick, FactsInv, FactsTypeOK
  <1> QED
    BY <1>2, <1>3, <1>4, <1>5, AddSolveKeeps, AddAdjustmentKeeps DEF FactsNext

-----------------------------------------------------------------------------
(* Boards and reads *)

\* A board of version v is made of committed facts, counts them, and can be replayed.
Exact(board, v, S, A) ==
  /\ v = Facts(board) /\ board.solves \subseteq S /\ board.adjustments \subseteq A
  /\ Contiguous(board.solves)

\* What a read may rely on, with S, A, v and over the solves, the adjustments, the
\* version and whether the contest is archived, as they are now.
Holds(read, S, A, v, over) ==
  /\ read.phase \notin {"idle", "failed"} => read.view \in Views
  /\ read.archived => over
  /\ read.phase = "opened" => read.floor <= v
  /\ read.phase \in {"loaded", "missed"} => read.floor <= read.version
  /\ read.phase = "built" =>
       /\ Exact(read.board, read.version, S, A)
       /\ read.state # "frozen" => read.floor <= read.version
  /\ (read.phase \in {"loaded", "missed", "built"} /\ read.archived /\ read.view = "public")
       => read.state = "settled" /\ read.version = v
  /\ (read.phase = "served" /\ read.view = "public" /\ ~read.stale) =>
       /\ read.state # "frozen" => read.floor <= read.version
       /\ read.archived => read.board.solves = S /\ read.board.adjustments = A

BoardInv ==
  /\ FactsInv /\ ScoreboardTypeOK /\ SnapshotsAreExact
  /\ \A r \in Readers : Holds(readers[r], solves, adjustments, version, archived)

LEMMA HoldsGrows ==
  ASSUME NEW read \in Reads, NEW S, NEW A, NEW v \in Nat, NEW over,
         NEW S2, NEW A2, NEW v2 \in Nat, NEW over2,
         Holds(read, S, A, v, over),
         S \subseteq S2, A \subseteq A2, v <= v2,
         over => over2 /\ S2 = S /\ A2 = A /\ v2 = v
  PROVE  Holds(read, S2, A2, v2, over2)
  <1>1. read.floor \in Nat /\ read.version \in Nat
    BY DEF Reads
  <1> QED
    BY <1>1 DEF Holds, Exact

LEMMA ReadFields ==
  ASSUME BoardInv, NEW r \in Readers
  PROVE  /\ readers[r] \in Reads
         /\ readers[r].view \in Views \cup {"public"} /\ readers[r].at \in Times
         /\ readers[r].state \in {"live", "frozen", "settled"}
         /\ readers[r].archived \in BOOLEAN /\ readers[r].stale \in BOOLEAN
         /\ readers[r].version \in Nat /\ readers[r].floor \in Nat
         /\ readers[r].board \in Boards
         /\ Holds(readers[r], solves, adjustments, version, archived)
  BY DEF BoardInv, ScoreboardTypeOK, Reads

\* A committed board has no more facts than there are, and as many only if it has
\* them all.
LEMMA BoardIsCounted ==
  ASSUME FactsInv, NEW board, board.solves \subseteq solves, board.adjustments \subseteq adjustments
  PROVE  /\ Facts(board) \in Nat /\ Facts(board) <= version
         /\ Facts(board) = version => board.solves = solves /\ board.adjustments = adjustments
  <1> DEFINE S == board.solves
             A == board.adjustments
  <1>1. /\ IsFiniteSet(S) /\ Cardinality(S) \in Nat /\ Cardinality(S) <= Cardinality(solves)
        /\ Cardinality(S) = Cardinality(solves) => S = solves
    BY FactsFields, FS_Subset, FS_CardinalityType
  <1>2. /\ IsFiniteSet(A) /\ Cardinality(A) \in Nat /\ Cardinality(A) <= Cardinality(adjustments)
        /\ Cardinality(A) = Cardinality(adjustments) => A = adjustments
    BY FactsFields, FS_Subset, FS_CardinalityType
  <1>3. /\ Cardinality(solves) \in Nat /\ Cardinality(adjustments) \in Nat
        /\ version = Cardinality(solves) + Cardinality(adjustments)
    BY FactsFields
  <1>4. Facts(board) = Cardinality(S) + Cardinality(A)
    BY DEF Facts
  <1> HIDE DEF S, A
  <1>5. /\ Facts(board) \in Nat /\ Facts(board) <= version
        /\ Facts(board) = version => Cardinality(S) = Cardinality(solves)
                                     /\ Cardinality(A) = Cardinality(adjustments)
    BY <1>1, <1>2, <1>3, <1>4
  <1> QED
    BY <1>1, <1>2, <1>5 DEF S, A

LEMMA SnapshotFields ==
  ASSUME BoardInv, NEW s \in snapshots
  PROVE  /\ s.view \in Views /\ s.version \in Nat /\ s.board \in Boards
         /\ Exact(s.board, s.version, solves, adjustments)
         /\ s.version <= version
         /\ s.version = version => s.board.solves = solves /\ s.board.adjustments = adjustments
  <1>1. s \in Snapshots /\ Exact(s.board, s.version, solves, adjustments) /\ FactsInv
    BY DEF BoardInv, ScoreboardTypeOK, SnapshotsAreExact, Exact
  <1> QED
    BY <1>1, BoardIsCounted DEF Exact, Snapshots

\* There is a latest snapshot among any.
LEMMA LatestIsOne ==
  ASSUME BoardInv, NEW T \in SUBSET snapshots, T # {}
  PROVE  LatestOf(T) \in T
  <1> DEFINE V == {s.version : s \in T}
  <1>1. V \in SUBSET Nat /\ V # {} /\ \A v \in V : v <= version
    BY SnapshotFields
  <1>2. version \in Nat
    BY FactsFields DEF BoardInv
  <1> HIDE DEF V
  <1>3. PICK m \in V : \A v \in V : v <= m
    BY <1>1, <1>2, GreatestOfBounded
  <1>4. PICK s \in T : s.version = m
    BY <1>3 DEF V
  <1>5. \A u \in T : u.version <= s.version
    BY <1>3, <1>4 DEF V
  <1> QED
    BY <1>5 DEF LatestOf

-----------------------------------------------------------------------------
(* Steps *)

\* Facts are added while reads are under way.
LEMMA FactsStepKeeps ==
  ASSUME BoardInv, [FactsNext]_factVars, UNCHANGED boardVars
  PROVE  BoardInv'
  <1>1. FactsInv' /\ FactsGrow
    BY FactsKeep DEF BoardInv
  <1>2. UNCHANGED <<snapshots, readers>>
    BY DEF boardVars
  <1>3. ScoreboardTypeOK'
    BY <1>1, <1>2 DEF BoardInv, ScoreboardTypeOK, FactsInv
  <1>4. SnapshotsAreExact'
    BY <1>1, <1>2 DEF BoardInv, SnapshotsAreExact, FactsGrow
  <1>5. version \in Nat /\ version' \in Nat
    BY <1>1 DEF BoardInv, FactsInv, FactsTypeOK
  <1>6. \A r \in Readers : Holds(readers'[r], solves', adjustments', version', archived')
    <2> TAKE r \in Readers
    <2>1. readers[r] \in Reads /\ Holds(readers[r], solves, adjustments, version, archived)
      BY ReadFields
    <2>2. Holds(readers[r], solves', adjustments', version', archived')
      BY <1>1, <1>5, <2>1, HoldsGrows DEF FactsGrow
    <2> QED
      BY <1>2, <2>2
  <1> QED
    BY <1>1, <1>3, <1>4, <1>6 DEF BoardInv

\* A read takes a step, and may store a board that is exact.
LEMMA ReadStepKeeps ==
  ASSUME BoardInv, NEW r \in Readers, NEW read \in Reads, Step(r, read), UNCHANGED factVars,
         Holds(read, solves, adjustments, version, archived),
         \A s \in snapshots' : \/ s \in snapshots
                               \/ s \in Snapshots /\ Exact(s.board, s.version, solves, adjustments)
  PROVE  BoardInv'
  <1>1. UNCHANGED <<now, archived, ranked, solves, adjustments, version>>
    BY DEF factVars
  <1>2. /\ readers' \in [Readers -> Reads] /\ readers'[r] = read
        /\ \A q \in Readers \ {r} : readers'[q] = readers[q]
    BY DEF Step, BoardInv, ScoreboardTypeOK
  <1>3. FactsInv' /\ FactsTypeOK'
    BY <1>1 DEF BoardInv, FactsInv, FactsTypeOK, Contiguous, SolvesOf
  <1>4. ScoreboardTypeOK'
    BY <1>2, <1>3 DEF BoardInv, ScoreboardTypeOK
  <1>5. SnapshotsAreExact'
    BY <1>1, SnapshotFields DEF SnapshotsAreExact, Exact
  <1>6. \A q \in Readers : Holds(readers'[q], solves', adjustments', version', archived')
    BY <1>1, <1>2 DEF BoardInv
  <1> QED
    BY <1>3, <1>4, <1>5, <1>6 DEF BoardInv

LEMMA NoReadIsARead ==
  ASSUME BoardInv
  PROVE  /\ NoRead \in Reads /\ NoRead.phase = "idle" /\ NoRead.view = "public"
         /\ NoRead.archived = FALSE
         /\ EmptyBoard \in Boards
         /\ Holds(NoRead, solves, adjustments, version, archived)
  <1>1. EmptyBoard \in Boards
    BY DEF EmptyBoard, Boards
  <1>2. 0 \in Times
    BY ScoreFactsAssumption DEF Times
  <1>3. NoRead \in Reads /\ NoRead.phase = "idle" /\ NoRead.view = "public"
        /\ NoRead.archived = FALSE
    BY <1>1, <1>2 DEF NoRead, Reads
  <1> QED
    BY <1>1, <1>3 DEF Holds

LEMMA OpenKeeps ==
  ASSUME BoardInv, NEW r \in Readers, NEW view \in Views, Open(r, view)
  PROVE  BoardInv'
  <1> DEFINE read == [NoRead EXCEPT !.phase = "opened", !.view = view, !.at = now,
                                    !.floor = version]
  <1>1. now \in Times /\ version \in Nat
    BY DEF BoardInv, FactsInv, FactsTypeOK
  <1>2. /\ read \in Reads /\ read.phase = "opened" /\ read.view = view
        /\ read.archived = FALSE /\ read.floor = version
    BY <1>1, NoReadIsARead DEF NoRead, Reads
  <1>3. Step(r, read) /\ UNCHANGED <<factVars, snapshots>>
    BY DEF Open
  <1> HIDE DEF read
  <1>4. Holds(read, solves, adjustments, version, archived)
    BY <1>1, <1>2 DEF Holds
  <1> QED
    BY <1>2, <1>3, <1>4, ReadStepKeeps

LEMMA LoadKeeps ==
  ASSUME BoardInv, NEW r \in Readers, Load(r)
  PROVE  BoardInv'
  <1> DEFINE old == readers[r]
             read == [old EXCEPT !.phase = "loaded", !.state = StateOf(old),
                                 !.archived = archived, !.version = version, !.at = 0]
  <1>1. /\ 0 \in Times /\ archived \in BOOLEAN /\ version \in Nat
        /\ StateOf(old) \in {"live", "frozen", "settled"}
    BY ScoreFactsAssumption DEF BoardInv, FactsInv, FactsTypeOK, Times, StateOf
  <1>2. /\ read \in Reads /\ read.phase = "loaded" /\ read.state = StateOf(old)
        /\ read.archived = archived /\ read.version = version
        /\ read.view = old.view /\ read.floor = old.floor
    BY <1>1, ReadFields DEF Reads
  <1>3. /\ Step(r, read) /\ UNCHANGED <<factVars, snapshots>> /\ old.phase = "opened"
    BY DEF Load
  <1>4. old.view = "public" /\ archived => StateOf(old) = "settled"
    BY DEF StateOf
  <1>5. old.view \in Views /\ old.floor <= version
    BY <1>3, ReadFields DEF Holds
  <1> HIDE DEF old, read
  <1>6. Holds(read, solves, adjustments, version, archived)
    BY <1>2, <1>4, <1>5 DEF Holds
  <1> QED
    BY <1>2, <1>3, <1>6, ReadStepKeeps

\* An answer keeps the facts of the board it is given.
LEMMA ServeKeeps ==
  ASSUME BoardInv, NEW r \in Readers, NEW board \in Boards, NEW v \in Nat, NEW stale \in BOOLEAN,
         Serve(r, board, v, stale), UNCHANGED factVars,
         readers[r].phase \notin {"idle", "failed"},
         (readers[r].view = "public" /\ ~stale) =>
           /\ readers[r].state # "frozen" => readers[r].floor <= v
           /\ readers[r].archived => board.solves = solves /\ board.adjustments = adjustments,
         \A s \in snapshots' : \/ s \in snapshots
                               \/ s \in Snapshots /\ Exact(s.board, s.version, solves, adjustments)
  PROVE  BoardInv'
  <1> DEFINE old == readers[r]
             kept == [EmptyBoard EXCEPT !.solves = board.solves,
                                        !.adjustments = board.adjustments]
             read == [old EXCEPT !.phase = "served", !.version = v, !.stale = stale,
                                 !.board = kept]
  <1>1. /\ kept \in Boards /\ kept.solves = board.solves
        /\ kept.adjustments = board.adjustments
    BY DEF EmptyBoard, Boards
  <1>2. Step(r, read)
    BY DEF Serve
  <1> HIDE DEF kept
  <1>3. /\ read \in Reads /\ read.phase = "served" /\ read.version = v /\ read.stale = stale
        /\ read.board = kept /\ read.view = old.view /\ read.state = old.state
        /\ read.floor = old.floor /\ read.archived = old.archived
    BY <1>1, ReadFields DEF Reads
  <1>4. /\ old.view \in Views
        /\ old.archived => archived
    BY ReadFields DEF Holds
  <1> HIDE DEF read
  <1>5. Holds(read, solves, adjustments, version, archived)
    BY <1>1, <1>3, <1>4 DEF Holds
  <1> QED
    BY <1>2, <1>3, <1>5, ReadStepKeeps

LEMMA ServeStoredKeeps ==
  ASSUME BoardInv, NEW r \in Readers, ServeStored(r)
  PROVE  BoardInv'
  <1> DEFINE old == readers[r]
             T == Answering(old)
             s == LatestOf(T)
  <1>1. /\ old.phase = "loaded" /\ T # {} /\ Serve(r, s.board, s.version, FALSE)
        /\ UNCHANGED <<factVars, snapshots>>
    BY DEF ServeStored
  <1>2. T \in SUBSET snapshots
    BY DEF Answering
  <1>3. s \in T
    BY <1>1, <1>2, LatestIsOne
  <1>4. s \in snapshots /\ (old.state # "frozen" => s.version = old.version)
    BY <1>3 DEF Answering
  <1> HIDE DEF s, T
  <1>5. /\ s.board \in Boards /\ s.version \in Nat
        /\ s.version = version => s.board.solves = solves /\ s.board.adjustments = adjustments
    BY <1>4, SnapshotFields
  <1>6. /\ old.floor <= old.version
        /\ old.view = "public" /\ old.archived => old.state = "settled" /\ old.version = version
    BY <1>1, ReadFields DEF Holds
  <1>7. (old.view = "public" /\ ~FALSE) =>
          /\ old.state # "frozen" => old.floor <= s.version
          /\ old.archived => s.board.solves = solves /\ s.board.adjustments = adjustments
    BY <1>4, <1>5, <1>6
  <1> QED
    BY <1>1, <1>5, <1>7, ServeKeeps

LEMMA MissKeeps ==
  ASSUME BoardInv, NEW r \in Readers, Miss(r)
  PROVE  BoardInv'
  <1> DEFINE old == readers[r]
             read == [old EXCEPT !.phase = "missed"]
  <1>1. old.phase = "loaded" /\ Step(r, read) /\ UNCHANGED <<factVars, snapshots>>
    BY DEF Miss
  <1>2. /\ read \in Reads /\ read.phase = "missed" /\ read.version = old.version
        /\ read.view = old.view /\ read.state = old.state
        /\ read.floor = old.floor /\ read.archived = old.archived
    BY ReadFields DEF Reads
  <1> HIDE DEF read
  <1>3. Holds(read, solves, adjustments, version, archived)
    BY <1>1, <1>2, ReadFields DEF Holds
  <1> QED
    BY <1>1, <1>2, <1>3, ReadStepKeeps

\* What is read before a cutoff is committed.
LEMMA BoardBeforeIsCommitted ==
  ASSUME FactsInv, NEW cutoff
  PROVE  /\ BoardBefore(cutoff) \in Boards
         /\ BoardBefore(cutoff).solves \subseteq solves
         /\ BoardBefore(cutoff).adjustments \subseteq adjustments
  BY DEF BoardBefore, Boards, FactsInv, FactsTypeOK

\* Without a cutoff it is everything, and can always be replayed.
LEMMA BoardIsComplete ==
  ASSUME FactsInv
  PROVE  /\ BoardBefore(NoCutoff).solves = solves
         /\ BoardBefore(NoCutoff).adjustments = adjustments
         /\ Facts(BoardBefore(NoCutoff)) = version
         /\ Contiguous(BoardBefore(NoCutoff).solves)
  <1>1. /\ \A s \in solves : s.at < NoCutoff
        /\ \A a \in adjustments : a.at < NoCutoff
    BY FactsFields DEF NoCutoff
  <1>2. /\ BoardBefore(NoCutoff).solves = solves
        /\ BoardBefore(NoCutoff).adjustments = adjustments
    BY <1>1 DEF BoardBefore
  <1> QED
    BY <1>2 DEF Facts, FactsInv

LEMMA BuildKeeps ==
  ASSUME BoardInv, NEW r \in Readers, Build(r)
  PROVE  BoardInv'
  <1> DEFINE old == readers[r]
             board == BoardBefore(Cutoff(old))
             v == VersionOf(old, board)
             read == [old EXCEPT !.phase = "built", !.board = board, !.version = v]
  <1>1. /\ old.phase = "missed" /\ Rebuildable(old) /\ Step(r, read)
        /\ UNCHANGED <<factVars, snapshots>>
    BY DEF Build
  <1>2. /\ board \in Boards /\ board.solves \subseteq solves
        /\ board.adjustments \subseteq adjustments /\ Contiguous(board.solves)
    BY <1>1, BoardBeforeIsCommitted DEF BoardInv, Rebuildable
  <1>3. v = Facts(board) /\ (old.state # "frozen" => v = old.version)
    BY <1>1 DEF VersionOf, Rebuildable, Cutoff
  <1> HIDE DEF board, v
  <1>4. v \in Nat
    BY <1>2, <1>3, BoardIsCounted DEF BoardInv
  <1>5. /\ read \in Reads /\ read.phase = "built" /\ read.version = v /\ read.board = board
        /\ read.view = old.view /\ read.state = old.state
        /\ read.floor = old.floor /\ read.archived = old.archived
    BY <1>2, <1>4, ReadFields DEF Reads
  <1> HIDE DEF read
  <1>6. Holds(read, solves, adjustments, version, archived)
    BY <1>1, <1>2, <1>3, <1>5, ReadFields DEF Holds, Exact
  <1> QED
    BY <1>1, <1>5, <1>6, ReadStepKeeps

\* A board that is built may be stored.
LEMMA BuiltIsExact ==
  ASSUME BoardInv, NEW r \in Readers, readers[r].phase = "built"
  PROVE  LET s == SnapshotOf(readers[r])
         IN s \in Snapshots /\ Exact(s.board, s.version, solves, adjustments)
  <1>1. /\ readers[r].board \in Boards /\ readers[r].version \in Nat /\ readers[r].view \in Views
        /\ Exact(readers[r].board, readers[r].version, solves, adjustments)
    BY ReadFields DEF Holds
  <1> QED
    BY <1>1 DEF SnapshotOf, Snapshots

LEMMA FailingKeeps ==
  ASSUME BoardInv, NEW r \in Readers, BuildFails(r) \/ StoreFails(r)
  PROVE  BoardInv'
  <1> DEFINE old == readers[r]
  <1>1. old.phase \in {"missed", "built"}
    BY DEF BuildFails, StoreFails
  <1>2. PICK board \in {old.board, EmptyBoard} :
          /\ Step(r, [old EXCEPT !.phase = "failing", !.board = board])
          /\ UNCHANGED factVars
          /\ \/ snapshots' = snapshots
             \/ old.phase = "built" /\ snapshots' = snapshots \cup {SnapshotOf(old)}
    <2>1. CASE BuildFails(r)
      <3>1. [old EXCEPT !.phase = "failing"] = [old EXCEPT !.phase = "failing", !.board = old.board]
        BY ReadFields DEF Reads
      <3> QED
        BY <2>1, <3>1 DEF BuildFails
    <2>2. CASE StoreFails(r)
      BY <2>2 DEF StoreFails
    <2> QED
      BY <2>1, <2>2
  <1> DEFINE read == [old EXCEPT !.phase = "failing", !.board = board]
  <1>3. board \in Boards
    BY ReadFields, NoReadIsARead
  <1>4. /\ read \in Reads /\ read.phase = "failing" /\ read.view = old.view
        /\ read.archived = old.archived
    BY <1>3, ReadFields DEF Reads
  <1>5. Step(r, read)
    BY <1>2
  <1> HIDE DEF read
  <1>6. Holds(read, solves, adjustments, version, archived)
    BY <1>1, <1>4, ReadFields DEF Holds
  <1>7. \A s \in snapshots' : \/ s \in snapshots
                              \/ s \in Snapshots /\ Exact(s.board, s.version, solves, adjustments)
    BY <1>2, BuiltIsExact
  <1> QED
    BY <1>2, <1>4, <1>5, <1>6, <1>7, ReadStepKeeps

LEMMA StoreKeeps ==
  ASSUME BoardInv, NEW r \in Readers, Store(r)
  PROVE  BoardInv'
  <1> DEFINE old == readers[r]
             s == SnapshotOf(old)
  <1>1. /\ old.phase = "built" /\ snapshots' = snapshots \cup {s}
        /\ Serve(r, old.board, old.version, FALSE) /\ UNCHANGED factVars
    BY DEF Store
  <1>2. /\ old.board \in Boards /\ old.version \in Nat /\ old.view \in Views
        /\ Exact(old.board, old.version, solves, adjustments)
        /\ old.state # "frozen" => old.floor <= old.version
        /\ old.archived /\ old.view = "public" => old.version = version
    BY <1>1, ReadFields DEF Holds
  <1>3. /\ s \in Snapshots /\ s.board = old.board /\ s.version = old.version
    BY <1>2 DEF SnapshotOf, Snapshots
  <1>4. old.version = version => old.board.solves = solves /\ old.board.adjustments = adjustments
    BY <1>2, BoardIsCounted DEF Exact, BoardInv
  <1> HIDE DEF s
  <1> QED
    BY <1>1, <1>2, <1>3, <1>4, ServeKeeps

LEMMA ServeStaleKeeps ==
  ASSUME BoardInv, NEW r \in Readers, ServeStale(r)
  PROVE  BoardInv'
  <1> DEFINE T == Earlier(readers[r])
             s == LatestOf(T)
  <1>1. /\ readers[r].phase = "failing" /\ T # {} /\ Serve(r, s.board, s.version, TRUE)
        /\ UNCHANGED <<factVars, snapshots>>
    BY DEF ServeStale, HasFallback
  <1>2. T \in SUBSET snapshots
    BY DEF Earlier
  <1>3. s \in snapshots
    BY <1>1, <1>2, LatestIsOne
  <1> HIDE DEF s, T
  <1>4. s.board \in Boards /\ s.version \in Nat
    BY <1>3, SnapshotFields
  <1> QED
    BY <1>1, <1>4, ServeKeeps

LEMMA EndKeeps ==
  ASSUME BoardInv, NEW r \in Readers, Fail(r) \/ Close(r)
  PROVE  BoardInv'
  <1>1. CASE Fail(r)
    <2> DEFINE read == [NoRead EXCEPT !.phase = "failed"]
    <2>1. Step(r, read) /\ UNCHANGED <<factVars, snapshots>>
      BY <1>1 DEF Fail
    <2>2. read \in Reads /\ read.phase = "failed" /\ read.archived = FALSE
      BY NoReadIsARead DEF Reads, NoRead
    <2> HIDE DEF read
    <2>3. Holds(read, solves, adjustments, version, archived)
      BY <2>2 DEF Holds
    <2> QED
      BY <2>1, <2>2, <2>3, ReadStepKeeps
  <1>2. CASE Close(r)
    BY <1>2, NoReadIsARead, ReadStepKeeps DEF Close
  <1> QED
    BY <1>1, <1>2

LEMMA ClearKeeps ==
  ASSUME BoardInv, ClearSnapshots
  PROVE  BoardInv'
  <1>1. UNCHANGED <<now, archived, ranked, solves, adjustments, version, readers>> /\ snapshots' = {}
    BY DEF ClearSnapshots, factVars
  <1>2. FactsInv' /\ FactsTypeOK'
    BY <1>1 DEF BoardInv, FactsInv, FactsTypeOK, Contiguous, SolvesOf
  <1>3. ScoreboardTypeOK' /\ SnapshotsAreExact'
    BY <1>1, <1>2 DEF BoardInv, ScoreboardTypeOK, SnapshotsAreExact
  <1> QED
    BY <1>1, <1>2, <1>3 DEF BoardInv

-----------------------------------------------------------------------------
(* The specification *)

LEMMA BoardStepKeeps ==
  ASSUME BoardInv, [ScoreboardNext]_scoreboardVars
  PROVE  BoardInv'
  <1>1. CASE UNCHANGED scoreboardVars \/ (FactsNext /\ UNCHANGED boardVars)
    BY <1>1, FactsStepKeeps DEF scoreboardVars
  <1>2. ASSUME NEW r \in Readers,
               \/ \E view \in Views : Open(r, view)
               \/ Load(r) \/ ServeStored(r) \/ Miss(r) \/ Build(r) \/ BuildFails(r)
               \/ Store(r) \/ StoreFails(r) \/ ServeStale(r) \/ Fail(r) \/ Close(r)
        PROVE  BoardInv'
    BY <1>2, OpenKeeps, LoadKeeps, ServeStoredKeeps, MissKeeps, BuildKeeps, FailingKeeps,
       StoreKeeps, ServeStaleKeeps, EndKeeps
  <1> QED
    BY <1>1, <1>2, ClearKeeps DEF ScoreboardNext, ReadStep

LEMMA BoardInitKeeps == ScoreboardInit => BoardInv
  <1> SUFFICES ASSUME ScoreboardInit
               PROVE  BoardInv
    OBVIOUS
  <1>1. /\ now = 0 /\ archived = FALSE /\ ranked = {} /\ solves = {} /\ adjustments = {}
        /\ version = 0 /\ snapshots = {} /\ readers = [r \in Readers |-> NoRead]
    BY DEF ScoreboardInit, FactsInit
  <1>2. IsFiniteSet({}) /\ Cardinality({}) = 0
    BY FS_EmptySet
  <1>3. FactsTypeOK
    <2>1. 0 \in Times /\ FALSE \in BOOLEAN /\ 0 \in Nat
      BY ScoreFactsAssumption DEF Times
    <2>2. now \in Times /\ archived \in BOOLEAN /\ version \in Nat
      BY <1>1, <2>1
    <2> QED
      BY <1>1, <2>2 DEF FactsTypeOK
  <1>4. Contiguous(solves)
    <2> SUFFICES ASSUME NEW c \in Challenges
                 PROVE  {s.order : s \in SolvesOf(solves, c)} = 1..Cardinality(SolvesOf(solves, c))
      BY DEF Contiguous
    <2>1. SolvesOf(solves, c) = {}
      BY <1>1 DEF SolvesOf
    <2> QED
      BY <1>2, <2>1
  <1>5. FactsInv
    BY <1>1, <1>2, <1>3, <1>4 DEF FactsInv
  <1>6. EmptyBoard \in Boards /\ 0 \in Times
    BY ScoreFactsAssumption DEF EmptyBoard, Boards, Times
  <1>7. NoRead \in Reads /\ NoRead.phase = "idle" /\ NoRead.archived = FALSE
    BY <1>6 DEF NoRead, Reads
  <1>8. ScoreboardTypeOK /\ SnapshotsAreExact
    BY <1>1, <1>3, <1>7 DEF ScoreboardTypeOK, SnapshotsAreExact
  <1>9. \A r \in Readers : Holds(readers[r], solves, adjustments, version, archived)
    BY <1>1, <1>7 DEF Holds
  <1> QED
    BY <1>5, <1>8, <1>9 DEF BoardInv

LEMMA BoardInvariant == ScoreboardSpec => []BoardInv
  BY BoardInitKeeps, BoardStepKeeps, PTL DEF ScoreboardSpec

\* Facts, snapshots and reads keep their types, for any teams, challenges and
\* readers and wherever the freeze and the end lie.
THEOREM ScoreboardTyped == ScoreboardSpec => []ScoreboardTypeOK
  BY BoardInvariant, PTL DEF BoardInv

\* However many reads build and store boards while facts are added, each snapshot
\* has exactly the committed facts its version counts: a version pins its facts
\* down, because it counts facts that are only ever added.
THEOREM SnapshotsStayExact == ScoreboardSpec => []SnapshotsAreExact
  BY BoardInvariant, PTL DEF BoardInv

\* A public read that does not say it is stale shows at least the facts there were
\* when it was opened, if the board is live or settled, whatever replica answers.
THEOREM FreshReads == ScoreboardSpec => []PublicReadsAreFresh
  <1>1. BoardInv => PublicReadsAreFresh
    BY DEF BoardInv, Holds, PublicReadsAreFresh, Served
  <1> QED
    BY <1>1, BoardInvariant, PTL

\* Once the contest is archived, its board can always be rebuilt at the version
\* that was loaded, and an answer that does not say it is stale is complete.
THEOREM CompleteArchivedReads == ScoreboardSpec => []ArchivedReadsAreComplete
  <1>1. ASSUME BoardInv, NEW r \in Readers, readers[r].archived, readers[r].view = "public"
        PROVE  /\ readers[r].phase = "missed" => Rebuildable(readers[r])
               /\ Served(r) /\ ~readers[r].stale
                    => FactsOf(readers[r].board) = FactsOf(BoardBefore(NoCutoff))
    <2>1. /\ BoardBefore(NoCutoff).solves = solves
          /\ BoardBefore(NoCutoff).adjustments = adjustments
          /\ Facts(BoardBefore(NoCutoff)) = version
          /\ Contiguous(BoardBefore(NoCutoff).solves)
      BY <1>1, BoardIsComplete DEF BoardInv
    <2>2. Holds(readers[r], solves, adjustments, version, archived)
      BY <1>1 DEF BoardInv
    <2>3. ASSUME readers[r].phase = "missed"
          PROVE  Rebuildable(readers[r])
      <3>1. readers[r].state = "settled" /\ readers[r].version = version
        BY <1>1, <2>2, <2>3 DEF Holds
      <3>2. Cutoff(readers[r]) = NoCutoff
        BY <3>1 DEF Cutoff
      <3> QED
        BY <2>1, <3>1, <3>2 DEF Rebuildable
    <2>4. ASSUME Served(r), ~readers[r].stale
          PROVE  FactsOf(readers[r].board) = FactsOf(BoardBefore(NoCutoff))
      <3>1. readers[r].board.solves = solves /\ readers[r].board.adjustments = adjustments
        BY <1>1, <2>2, <2>4 DEF Holds, Served
      <3> QED
        BY <2>1, <3>1 DEF FactsOf
    <2> QED
      BY <2>3, <2>4
  <1>2. BoardInv => ArchivedReadsAreComplete
    BY <1>1 DEF ArchivedReadsAreComplete
  <1> QED
    BY <1>2, BoardInvariant, PTL

=============================================================================
