---------------------------- MODULE Submissions ----------------------------
(***************************************************************************)
(* One published contest of the control plane: who takes part, which       *)
(* challenges are open, and the facts its score is made of - submissions,  *)
(* solves, score adjustments, the scoreboard version, first solve events   *)
(* and anti-cheat clues.                                                   *)
(*                                                                         *)
(* A verified flag becomes a fact in one transaction of                    *)
(* PostgresSubmissionRepository.append.  Its time is taken before the      *)
(* transaction is opened; it then waits for the contest, the participation *)
(* and the challenge row, reads, and commits, and transactions of other    *)
(* teams on other challenges run meanwhile.                                *)
(***************************************************************************)
EXTENDS Integers, FiniteSets

CONSTANTS
  Participations, \* the teams' rows in this contest
  Challenges,
  Answers,        \* what teams enter: flags of either kind, and guesses
  Requests,       \* request ids the clients choose, bounded for TLC
  Rows,           \* the settings a challenge can be revised to
  FirstRows,      \* the settings the challenges are published with
  AutoAccept,     \* contests.registration_strategy = 'auto_accept'
  PracticeEnabled,
  StartAt,
  EndAt,
  MaxTime,        \* bound: the clock stops here
  MaxCalls,       \* bound: verified flags waiting for their transaction
  MaxAdjustments, \* bound: score adjustments
  MaxReviewed,    \* bound: clues a judge has looked at
  MaxLag,         \* bound: ticks a registration, review or adjustment waits
  RepeatThreshold,    \* 3 in the code
  FrequencyThreshold, \* 10 in the code
  FrequencyWindow     \* 60 seconds in the code

\* accepts and derived stand for the flag policy: the answers it takes for
\* each team's flag, and whether its type is team-derived.  The scoring policy is
\* revised with the rest, but of what an append stores only awarded_score
\* is made of it, and nothing reads that.
Settings == [enabled : BOOLEAN, publishAt : Nat, closeAt : Nat, limit : Nat,
             derived : BOOLEAN, accepts : [Participations -> SUBSET Answers]]

ASSUME SubmissionsAssumption ==
  /\ Rows \subseteq Settings /\ FirstRows \in [Challenges -> Rows]
  /\ AutoAccept \in BOOLEAN /\ PracticeEnabled \in BOOLEAN
  /\ StartAt \in Nat /\ EndAt \in Nat /\ StartAt < EndAt
  /\ MaxTime \in Nat /\ MaxCalls \in Nat /\ MaxAdjustments \in Nat
  /\ MaxReviewed \in Nat /\ MaxLag \in Nat
  /\ RepeatThreshold \in Nat \ {0} /\ FrequencyThreshold \in Nat \ {0}
  /\ FrequencyWindow \in Nat \ {0}
  /\ IsFiniteSet(Requests)

VARIABLES
  now,
  status,       \* contests.publication_status
  enrolment,    \* participations.status
  challenge,    \* the contest_challenges rows
  calls,        \* verified flags, not yet in a transaction
  transactions, \* open append transactions, with what they have read
  submissions,
  solves,
  adjustments,
  version,      \* scoreboard_versions.version, 0 without a row
  events,       \* contest_events, first_solve
  clues         \* cheat_clues.status by clue_key

contestVars == <<status, enrolment, challenge>>
factVars == <<submissions, solves, adjustments, version, events, clues>>
submissionVars == <<now, contestVars, calls, transactions, factVars>>

-----------------------------------------------------------------------------

Modes == {"official", "practice"}
Results == {"incorrect", "correct", "already_solved"}
Times == 0..MaxTime

\* FlagVerifier.verify, with the policy read at the first admission.
Correct(p, c, a) == a \in challenge[c].accepts[p]

\* correct: the verdict, which the append takes over.
Calls == [participation : Participations, challenge : Challenges,
          answer : Answers, correct : BOOLEAN, request : Requests, since : Times]
\* derived: history, the flag policy its own append read.
Submissions == [participation : Participations, challenge : Challenges,
                answer : Answers, request : Requests, at : Times,
                mode : Modes, result : Results, derived : BOOLEAN]
Transactions == [submission : Submissions, order : Nat]
Solves == [participation : Participations, challenge : Challenges,
           mode : Modes, order : Nat, at : Times, request : Requests]
\* Whose score is adjusted, and by how much, makes no difference here.
Adjustments == [number : Nat, at : Times]
Events == [challenge : Challenges, participation : Participations, at : Times]

ClueKeys ==
  [kind : {"repeat", "shared"}, challenge : Challenges,
   participation : Participations, answer : Answers]
  \cup [kind : {"frequency"}, challenge : Challenges,
        participation : Participations, window : Nat]
  \cup [kind : {"foreign"}, submission : Requests, owner : Participations]
ClueStatuses == {"open", "reviewing", "dismissed", "confirmed"}

TypeOK ==
  /\ now \in Times
  /\ status \in {"published", "archived"}
  /\ enrolment \in [Participations ->
                      {"absent", "pending", "accepted", "rejected", "withdrawn"}]
  /\ challenge \in [Challenges -> Rows]
  /\ calls \subseteq Calls
  /\ transactions \subseteq Transactions
  /\ submissions \subseteq Submissions
  /\ solves \subseteq Solves
  /\ adjustments \subseteq Adjustments
  /\ version \in Nat
  /\ events \subseteq Events
  /\ DOMAIN clues \subseteq ClueKeys
  /\ \A k \in DOMAIN clues : clues[k] \in ClueStatuses

SubmissionsInit ==
  /\ now = 0
  /\ status = "published"
  /\ enrolment = [p \in Participations |-> "absent"]
  /\ challenge = FirstRows
  /\ calls = {}
  /\ transactions = {}
  /\ submissions = {}
  /\ solves = {}
  /\ adjustments = {}
  /\ version = 0
  /\ events = {}
  /\ clues = <<>>

-----------------------------------------------------------------------------
(* What an admission reads *)

Official(S) == {s \in S : s.mode = "official"}

ModeAt(at) == IF at < EndAt THEN "official" ELSE "practice"

\* The submissions or solves counted together with one of this kind.
Alike(S, p, c, mode) ==
  {s \in S : s.participation = p /\ s.challenge = c /\ s.mode = mode}

Running(at) ==
  /\ status = "published"
  /\ StartAt <= at
  /\ at < EndAt \/ PracticeEnabled

Available(c, at) ==
  /\ challenge[c].enabled
  /\ challenge[c].publishAt <= at
  /\ ModeAt(at) = "official" => at < challenge[c].closeAt

BelowLimit(p, c, at) ==
  Cardinality(Alike(submissions, p, c, ModeAt(at))) < challenge[c].limit

Admissible(p, c, at) ==
  /\ Running(at)
  /\ enrolment[p] = "accepted"
  /\ Available(c, at)
  /\ BelowLimit(p, c, at)

\* Mutant of RowsFree: the rows are read without a lock.
RowsUnlocked(p, c) == TRUE

\* The participation and the challenge are read FOR UPDATE: a transaction
\* waits for those that hold either.
RowsFree(p, c) ==
  \A t \in transactions : /\ t.submission.participation # p
                          /\ t.submission.challenge # c

\* Mutant of ContestFree: the contest is read without a lock.
ContestUnlocked == TRUE

\* An append reads the contest FOR SHARE; whoever reads it FOR UPDATE waits.
ContestFree == transactions = {}

Known(r) == \E s \in submissions : s.request = r

-----------------------------------------------------------------------------
(* Submitting a flag *)

\* SubmissionService.verifyFlag: the flag of an admitted team is verified.
\* A client may send the same request again, in any circumstances.
Verify(p, c, a, r) ==
  /\ Cardinality(calls) < MaxCalls
  /\ Admissible(p, c, now)
  /\ calls' = calls \cup {[participation |-> p, challenge |-> c, answer |-> a,
                           correct |-> Correct(p, c, a), request |-> r, since |-> now]}
  /\ UNCHANGED <<now, contestVars, transactions, factVars>>

\* The call ends with no fact: the replay of a known request, a refusal of
\* the second admission, a full team window, or a crash of the replica.
Dismiss(k) ==
  /\ calls' = calls \ {k}
  /\ UNCHANGED <<now, contestVars, transactions, factVars>>

ResultOf(k, mode) ==
  IF ~k.correct THEN "incorrect"
  ELSE IF Alike(solves, k.participation, k.challenge, mode) # {} THEN "already_solved"
  ELSE "correct"

\* Mutant of NextOrder: the solves of every challenge count.
NextOrderOfContest(c, mode) == Cardinality({s \in solves : s.mode = mode}) + 1

NextOrder(c, mode) ==
  Cardinality({s \in solves : s.challenge = c /\ s.mode = mode}) + 1

\* The transaction has its rows and reads.  Its time was taken at some
\* moment since the flag was verified.
Begin(k, at) ==
  /\ ~Known(k.request)
  /\ RowsFree(k.participation, k.challenge)
  /\ Admissible(k.participation, k.challenge, at)
  /\ calls' = calls \ {k}
  /\ transactions' = transactions \cup
       {[submission |-> [participation |-> k.participation, challenge |-> k.challenge,
                         answer |-> k.answer, request |-> k.request, at |-> at,
                         mode |-> ModeAt(at), result |-> ResultOf(k, ModeAt(at)),
                         derived |-> challenge[k.challenge].derived],
         order |-> NextOrder(k.challenge, ModeAt(at))]}
  /\ UNCHANGED <<now, contestVars, factVars>>

SolveOf(t) ==
  [participation |-> t.submission.participation, challenge |-> t.submission.challenge,
   mode |-> t.submission.mode, order |-> t.order, at |-> t.submission.at,
   request |-> t.submission.request]

\* Mutant of KeysFree: no unique index on the request id of a submission.
SolveKeysFree(t) ==
  t.submission.result = "correct" =>
    \A s \in solves :
      (s.challenge = t.submission.challenge /\ s.mode = t.submission.mode) =>
        s.participation # t.submission.participation /\ s.order # t.order

\* The unique indexes of submissions and solves.
KeysFree(t) ==
  /\ ~Known(t.submission.request)
  /\ t.submission.result = "correct" =>
       \A s \in solves :
         (s.challenge = t.submission.challenge /\ s.mode = t.submission.mode) =>
           s.participation # t.submission.participation /\ s.order # t.order

-----------------------------------------------------------------------------
(* Anti-cheat clues, with S the submissions after the insert of s *)

SameAnswer(S, s) ==
  {u \in Official(S) : u.challenge = s.challenge /\ u.answer = s.answer}

\* Mutant of RepeatClues: the key of the clue leaves the challenge out.
RepeatCluesOfTeam(S, s) ==
  LET repeats == {u \in SameAnswer(S, s) : /\ u.participation = s.participation
                                           /\ u.result = "incorrect"}
  IN IF Cardinality(repeats) < RepeatThreshold THEN {}
     ELSE {[kind |-> "repeat", participation |-> s.participation, answer |-> s.answer]}

RepeatClues(S, s) ==
  LET repeats == {u \in SameAnswer(S, s) : /\ u.participation = s.participation
                                           /\ u.result = "incorrect"}
  IN IF Cardinality(repeats) < RepeatThreshold THEN {}
     ELSE {[kind |-> "repeat", challenge |-> s.challenge,
            participation |-> s.participation, answer |-> s.answer]}

SharedClues(S, s) ==
  LET subjects == {u.participation : u \in {v \in SameAnswer(S, s) :
                                              v.result = "incorrect"}}
  IN IF Cardinality(subjects) < 2 THEN {}
     ELSE {[kind |-> "shared", challenge |-> s.challenge,
            participation |-> p, answer |-> s.answer] : p \in subjects}

FrequentAt(S, p, c, at) ==
  Cardinality({u \in Alike(S, p, c, "official") :
                 at - FrequencyWindow < u.at /\ u.at <= at}) >= FrequencyThreshold

FrequencyClues(S, s) ==
  IF ~FrequentAt(S, s.participation, s.challenge, s.at) THEN {}
  ELSE {[kind |-> "frequency", challenge |-> s.challenge,
         participation |-> s.participation, window |-> s.at \div FrequencyWindow]}

\* Mutant of ForeignClues: only a stolen flag that follows its owner's.
ForeignCluesAfterOwner(S, s) ==
  IF s.result # "incorrect" THEN {}
  ELSE {[kind |-> "foreign", submission |-> s.request, owner |-> u.participation] :
          u \in {v \in SameAnswer(S, s) : /\ v.result # "incorrect"
                                          /\ v.participation # s.participation}}

\* Whichever of the owner's and the offender's submission comes second.
ForeignClues(S, s) ==
  IF s.result = "incorrect"
  THEN {[kind |-> "foreign", submission |-> s.request, owner |-> u.participation] :
          u \in {v \in SameAnswer(S, s) : /\ v.result # "incorrect"
                                          /\ v.participation # s.participation}}
  ELSE {[kind |-> "foreign", submission |-> u.request, owner |-> s.participation] :
          u \in {v \in SameAnswer(S, s) : /\ v.result = "incorrect"
                                          /\ v.participation # s.participation}}

CluesFrom(S, s) ==
  (IF s.result = "incorrect" THEN RepeatClues(S, s) \cup SharedClues(S, s) ELSE {})
  \cup FrequencyClues(S, s)
  \cup (IF s.derived THEN ForeignClues(S, s) ELSE {})

\* Mutant of WithClues: ON CONFLICT DO UPDATE SET status = 'open'.
WithCluesReopened(keys) ==
  [k \in DOMAIN clues \cup keys |-> IF k \in keys THEN "open" ELSE clues[k]]

\* ON CONFLICT (clue_key) DO NOTHING: a clue that is there keeps its status.
WithClues(keys) ==
  [k \in DOMAIN clues \cup keys |-> IF k \in DOMAIN clues THEN clues[k] ELSE "open"]

-----------------------------------------------------------------------------

\* Mutant of Scores: a practice solve moves the version.
ScoresInAnyMode(s) == s.result = "correct"

Scores(s) == s.result = "correct" /\ s.mode = "official"

\* Mutant of FirstSolve: practice is announced.
FirstSolveInAnyMode(t) == t.submission.result = "correct" /\ t.order = 1

FirstSolve(t) == Scores(t.submission) /\ t.order = 1

Commit(t) ==
  LET s == t.submission
  IN /\ KeysFree(t)
     /\ transactions' = transactions \ {t}
     /\ submissions' = submissions \cup {s}
     /\ solves' = IF s.result = "correct" THEN solves \cup {SolveOf(t)} ELSE solves
     /\ version' = IF Scores(s) THEN version + 1 ELSE version
     /\ events' = IF FirstSolve(t)
                  THEN events \cup {[challenge |-> s.challenge,
                                     participation |-> s.participation, at |-> s.at]}
                  ELSE events
     /\ clues' = IF s.mode = "official"
                 THEN WithClues(CluesFrom(submissions \cup {s}, s))
                 ELSE clues
     /\ UNCHANGED <<now, contestVars, calls, adjustments>>

\* A crash, or a key another transaction has taken.
Rollback(t) ==
  /\ transactions' = transactions \ {t}
  /\ UNCHANGED <<now, contestVars, calls, factVars>>

-----------------------------------------------------------------------------
(* The judges: score adjustments and clue reviews *)

\* Adjustments are numbered by their request id; a replay changes nothing.
Adjust(p, at) ==
  /\ Cardinality(adjustments) < MaxAdjustments
  /\ ContestFree
  /\ status # "archived"
  /\ enrolment[p] # "absent"
  /\ adjustments' = adjustments \cup
       {[number |-> Cardinality(adjustments) + 1, at |-> at]}
  /\ version' = version + 1
  /\ UNCHANGED <<now, contestVars, calls, transactions, submissions, solves,
                 events, clues>>

ReviewOf(s) == IF s = "open" THEN {"reviewing", "dismissed", "confirmed"}
               ELSE IF s = "reviewing" THEN {"dismissed", "confirmed"}
               ELSE {}

ReviewClue(k, s) ==
  /\ Cardinality({j \in DOMAIN clues \ {k} : clues[j] # "open"}) < MaxReviewed
  /\ s \in ReviewOf(clues[k])
  /\ clues' = [clues EXCEPT ![k] = s]
  /\ UNCHANGED <<now, contestVars, calls, transactions, submissions, solves,
                 adjustments, version, events>>

-----------------------------------------------------------------------------
(* Participations, challenges and the contest *)

\* A command whose transaction began then may have its locks now.
BegunAt(at) == at <= now /\ now <= at + MaxLag

\* The status is read under the lock, but the phase is that of CURRENT_TIMESTAMP,
\* the time the transaction began: it may end after the contest has.
RegistrationOpen(at) == status = "published" /\ at < EndAt

Register(p, at) ==
  /\ ContestFree
  /\ RegistrationOpen(at)
  /\ enrolment[p] \in {"absent", "withdrawn"}
  /\ enrolment' = [enrolment EXCEPT ![p] = IF AutoAccept THEN "accepted" ELSE "pending"]
  /\ UNCHANGED <<now, status, challenge, calls, transactions, factVars>>

Withdraw(p) ==
  /\ ContestFree
  /\ enrolment[p] \in {"pending", "rejected"}
  /\ enrolment' = [enrolment EXCEPT ![p] = "withdrawn"]
  /\ UNCHANGED <<now, status, challenge, calls, transactions, factVars>>

Review(p, decision, at) ==
  /\ ContestFree
  /\ enrolment[p] = "pending"
  /\ decision = "accepted" => RegistrationOpen(at)
  /\ enrolment' = [enrolment EXCEPT ![p] = decision]
  /\ UNCHANGED <<now, status, challenge, calls, transactions, factVars>>

Revise(c, row) ==
  /\ ContestFree
  /\ status = "published"
  /\ row # challenge[c]
  /\ challenge' = [challenge EXCEPT ![c] = row]
  /\ UNCHANGED <<now, status, enrolment, calls, transactions, factVars>>

Archive ==
  /\ ContestFree
  /\ status = "published"
  /\ EndAt <= now
  /\ status' = "archived"
  /\ UNCHANGED <<now, enrolment, challenge, calls, transactions, factVars>>

Tick ==
  /\ now < MaxTime
  /\ now' = now + 1
  /\ UNCHANGED <<contestVars, calls, transactions, factVars>>

-----------------------------------------------------------------------------

SubmitStep ==
  \/ \E p \in Participations, c \in Challenges, r \in Requests :
       \E a \in Answers : Verify(p, c, a, r)
  \/ \E k \in calls : Dismiss(k) \/ \E at \in k.since..now : Begin(k, at)
  \/ \E t \in transactions : Commit(t) \/ Rollback(t)

JudgeStep ==
  \/ \E p \in Participations, at \in Times : BegunAt(at) /\ Adjust(p, at)
  \/ \E k \in DOMAIN clues, s \in ClueStatuses : ReviewClue(k, s)

ContestStep ==
  \/ \E p \in Participations : Withdraw(p)
  \/ \E p \in Participations, at \in Times :
       BegunAt(at) /\ (Register(p, at)
                        \/ \E d \in {"accepted", "rejected"} : Review(p, d, at))
  \/ \E c \in Challenges, row \in Rows : Revise(c, row)
  \/ Archive
  \/ Tick

SubmissionsNext == SubmitStep \/ JudgeStep \/ ContestStep

SubmissionsSpec == SubmissionsInit /\ [][SubmissionsNext]_submissionVars

-----------------------------------------------------------------------------
(* Properties *)

\* What replayContestScoring demands of the facts F and the submissions S:
\* the official solves of a challenge are numbered 1, 2, 3..., no team has two
\* of them, and they correspond one to one to the correct official
\* submissions, made by the same team at the same time.
Replayable(F, S) ==
  /\ \A c \in Challenges :
       {s.order : s \in {u \in F : u.challenge = c}}
         = 1..Cardinality({u \in F : u.challenge = c})
  /\ \A s, u \in F : (s.participation = u.participation /\ s.challenge = u.challenge) => s = u
  /\ {[participation |-> s.participation, challenge |-> s.challenge,
       request |-> s.request, at |-> s.at] : s \in F}
       = {[participation |-> u.participation, challenge |-> u.challenge,
           request |-> u.request, at |-> u.at] :
            u \in {v \in Official(S) : v.result = "correct"}}

\* The score can always be rebuilt from what is stored: at any moment, with
\* transactions of other teams half way, the committed facts satisfy every
\* check of the replay.
FactsReplayable == Replayable(Official(solves), submissions)

\* What is published about the facts counts them exactly.  The scoreboard
\* version moves with every official solve and adjustment, never for practice
\* or a second solve, so a replay of all facts has exactly this version; and the
\* first solve events are those of the official solves with order 1, one for every
\* challenge solved in the contest.
FactsAreCounted ==
  /\ version = Cardinality(Official(solves)) + Cardinality(adjustments)
  /\ events = {[challenge |-> s.challenge, participation |-> s.participation,
                at |-> s.at] : s \in {u \in Official(solves) : u.order = 1}}

\* A request id makes at most one submission, however often and for whomever
\* it is sent again while an earlier attempt is under way.
RequestsAreIdempotent ==
  \A s, u \in submissions : s.request = u.request => s = u

\* The submissions of one team to one challenge and mode never exceed the
\* limit in force when the last of them was stored, although the limit is
\* checked by every replica on its own and may be revised in between.
LimitHolds ==
  [][\A s \in submissions' \ submissions :
       Cardinality(Alike(submissions', s.participation, s.challenge, s.mode))
         <= challenge[s.challenge].limit]_submissionVars

\* The clues are those the official submissions deserve, whichever came
\* first and whatever was revised in between: an answer repeated, and an answer
\* shared by teams.  The flag of another team is always found between two
\* submissions stored under a team-derived policy, and a clue of it is about two
\* of which at least one was.  A frequency clue has the submissions of one
\* window behind it.
CluesMatchSubmissions ==
  LET deserved == UNION {CluesFrom(submissions, s) : s \in Official(submissions)}
      teamFlags == {s \in submissions : s.derived}
      found(kind) == {k \in DOMAIN clues : k.kind = kind}
  IN /\ \A kind \in {"repeat", "shared"} :
          found(kind) = {k \in deserved : k.kind = kind}
     /\ UNION {ForeignClues(teamFlags, s) : s \in Official(teamFlags)} \subseteq found("foreign")
     /\ found("foreign") \subseteq deserved
     /\ \A k \in found("frequency") :
          \E at \in Times : /\ at \div FrequencyWindow = k.window
                            /\ FrequentAt(submissions, k.participation, k.challenge, at)

\* A clue a judge has dismissed or confirmed is never reopened, whatever is
\* submitted later.
ReviewedCluesStay ==
  [][\A k \in DOMAIN clues :
       /\ k \in DOMAIN clues'
       /\ clues[k] \in {"dismissed", "confirmed"} => clues'[k] = clues[k]]_submissionVars

\* For whoever reads the score, a contest is its official solves, its
\* adjustments and the ranked teams: every step of submitting,
\* reviewing, revising and archiving is one of ScoreFacts or changes nothing
\* of these.  In particular no fact is added without the version moving, and
\* none once the contest is archived, even by a transaction under way then.
ScoredFacts ==
  INSTANCE ScoreFacts WITH
    MaxFacts <- Cardinality(Requests) + MaxAdjustments,
    archived <- status = "archived",
    ranked <- {p \in Participations : enrolment[p] = "accepted"},
    solves <- {[participation |-> s.participation, challenge |-> s.challenge,
                order |-> s.order, at |-> s.at] : s \in Official(solves)}

ImplementsScoreFacts == ScoredFacts!FactsSpec

=============================================================================
