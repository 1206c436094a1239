------------------------- MODULE SubmissionsProofs -------------------------
(***************************************************************************)
(* Theorems about Submissions for every value of its constants.            *)
(***************************************************************************)
EXTENDS Submissions, FiniteSetTheorems, TLAPS

-----------------------------------------------------------------------------
(* The inductive invariant *)

\* Facts are finitely many, and adjustments are numbered as they come.
FactsAreFinite ==
  /\ IsFiniteSet(submissions) /\ IsFiniteSet(solves) /\ IsFiniteSet(adjustments)
  /\ \A a \in adjustments : a.number <= Cardinality(adjustments)
  /\ Cardinality(adjustments) <= MaxAdjustments

\* Transactions under way have different teams and different challenges.
TransactionsAreApart ==
  \A t, u \in transactions : t # u =>
    /\ t.submission.participation # u.submission.participation
    /\ t.submission.challenge # u.submission.challenge

\* What a transaction has read and decided is still true: nobody else moves its
\* team, its challenge or the contest before it ends.
Current(t) ==
  LET s == t.submission
  IN /\ t.order = NextOrder(s.challenge, s.mode)
     /\ s.mode = ModeAt(s.at) /\ s.at <= now
     /\ status = "published" /\ enrolment[s.participation] = "accepted"
     /\ Cardinality(Alike(submissions, s.participation, s.challenge, s.mode))
          < challenge[s.challenge].limit

TransactionsAreCurrent == \A t \in transactions : Current(t)

SubInv ==
  /\ TypeOK /\ FactsAreFinite
  /\ FactsReplayable /\ FactsAreCounted /\ RequestsAreIdempotent /\ CluesMatchSubmissions
  /\ TransactionsAreApart /\ TransactionsAreCurrent

-----------------------------------------------------------------------------
(* Types *)

LEMMA SubmissionFields ==
  ASSUME NEW s \in Submissions
  PROVE  /\ s.participation \in Participations /\ s.challenge \in Challenges
         /\ s.answer \in Answers /\ s.request \in Requests /\ s.at \in Times
         /\ s.mode \in Modes /\ s.result \in Results
         /\ s.at \in Nat
  BY SubmissionsAssumption DEF Submissions, Times

LEMMA TransactionFields ==
  ASSUME SubInv, NEW t \in transactions
  PROVE  /\ t \in Transactions /\ t.submission \in Submissions /\ t.order \in Nat
         /\ t.submission.challenge \in Challenges
         /\ t.submission.participation \in Participations
         /\ t.submission.mode \in Modes /\ t.submission.at \in Times
         /\ t.submission.request \in Requests
         /\ Current(t)
  BY SubmissionFields DEF SubInv, TypeOK, Transactions, TransactionsAreCurrent

LEMMA SolveFields ==
  ASSUME SubInv, NEW s \in solves
  PROVE  /\ s.participation \in Participations /\ s.challenge \in Challenges
         /\ s.mode \in Modes /\ s.order \in Nat /\ s.at \in Times /\ s.request \in Requests
  BY DEF SubInv, TypeOK, Solves

LEMMA SettingFields ==
  ASSUME SubInv, NEW c \in Challenges
  PROVE  challenge[c] \in Rows /\ challenge[c] \in Settings /\ challenge[c].limit \in Nat
  BY SubmissionsAssumption DEF SubInv, TypeOK, Settings

\* The submissions or solves of a kind are finitely many.
LEMMA AlikeIsFinite ==
  ASSUME NEW S, IsFiniteSet(S), NEW p, NEW c, NEW mode
  PROVE  /\ Alike(S, p, c, mode) \subseteq S /\ IsFiniteSet(Alike(S, p, c, mode))
         /\ Cardinality(Alike(S, p, c, mode)) \in Nat
  <1>1. Alike(S, p, c, mode) \subseteq S
    BY DEF Alike
  <1> QED
    BY <1>1, FS_Subset, FS_CardinalityType

SolvesOf(c, mode) == {s \in solves : s.challenge = c /\ s.mode = mode}

LEMMA SolvesOfAreFinite ==
  ASSUME SubInv, NEW c, NEW mode
  PROVE  /\ IsFiniteSet(SolvesOf(c, mode)) /\ Cardinality(SolvesOf(c, mode)) \in Nat
         /\ NextOrder(c, mode) = Cardinality(SolvesOf(c, mode)) + 1
         /\ NextOrder(c, mode) \in Nat
  <1>1. SolvesOf(c, mode) \subseteq solves /\ IsFiniteSet(solves)
    BY DEF SolvesOf, SubInv, FactsAreFinite
  <1>2. IsFiniteSet(SolvesOf(c, mode)) /\ Cardinality(SolvesOf(c, mode)) \in Nat
    BY <1>1, FS_Subset, FS_CardinalityType
  <1> QED
    BY <1>2 DEF NextOrder, SolvesOf

LEMMA NowFields ==
  ASSUME SubInv
  PROVE  /\ now \in Nat /\ now <= MaxTime /\ MaxTime \in Nat /\ EndAt \in Nat /\ now \in Times
         /\ status \in {"published", "archived"}
  BY SubmissionsAssumption DEF SubInv, TypeOK, Times

-----------------------------------------------------------------------------
(* Clues, with S the submissions and C the keys of the clues *)

Deserved(S) == UNION {CluesFrom(S, s) : s \in Official(S)}

UnderTeamFlags(S) == {s \in S : s.derived}
Stolen(S) == UNION {ForeignClues(UnderTeamFlags(S), s) : s \in Official(UnderTeamFlags(S))}

CluesMatch(S, C) ==
  /\ \A kind \in {"repeat", "shared"} :
       {k \in C : k.kind = kind} = {k \in Deserved(S) : k.kind = kind}
  /\ Stolen(S) \subseteq {k \in C : k.kind = "foreign"}
  /\ {k \in C : k.kind = "foreign"} \subseteq Deserved(S)
  /\ \A k \in C : k.kind = "frequency" =>
       \E at \in Times : /\ at \div FrequencyWindow = k.window
                         /\ FrequentAt(S, k.participation, k.challenge, at)

LEMMA CluesMatchIsMeant == CluesMatchSubmissions <=> CluesMatch(submissions, DOMAIN clues)
  BY DEF CluesMatchSubmissions, CluesMatch, Deserved, Stolen, UnderTeamFlags

-----------------------------------------------------------------------------
(* Steps that add no fact *)

\* The facts' own invariants hold on as long as the facts do.
LEMMA FactsStay ==
  ASSUME SubInv, UNCHANGED factVars
  PROVE  /\ FactsAreFinite' /\ FactsReplayable' /\ FactsAreCounted'
         /\ RequestsAreIdempotent' /\ CluesMatchSubmissions'
  <1>1. UNCHANGED <<submissions, solves, adjustments, version, events, clues>>
    BY DEF factVars
  <1>2. FactsAreFinite' /\ RequestsAreIdempotent'
    BY <1>1 DEF SubInv, FactsAreFinite, RequestsAreIdempotent
  <1>3. FactsReplayable' /\ FactsAreCounted'
    BY <1>1 DEF SubInv, FactsReplayable, FactsAreCounted, Replayable, Official
  <1>4. CluesMatchSubmissions'
    <2>1. CluesMatch(submissions, DOMAIN clues)
      BY CluesMatchIsMeant DEF SubInv
    <2>2. CluesMatch(submissions', DOMAIN clues')
      BY <1>1, <2>1
    <2>3. CluesMatchSubmissions' <=> CluesMatch(submissions', DOMAIN clues')
      BY DEF CluesMatchSubmissions, CluesMatch, Deserved, Stolen, UnderTeamFlags
    <2> QED
      BY <2>2, <2>3
  <1> QED
    BY <1>2, <1>3, <1>4

\* No transaction is added, and if one is under way the contest stays as it is.
LEMMA QuietKeeps ==
  ASSUME SubInv, TypeOK', UNCHANGED factVars, transactions' \subseteq transactions,
         now <= now', now' \in Nat,
         transactions' = {} \/ UNCHANGED <<status, enrolment, challenge>>
  PROVE  SubInv'
  <1>1. TransactionsAreApart'
    BY DEF SubInv, TransactionsAreApart
  <1>2. TransactionsAreCurrent'
    <2> SUFFICES ASSUME NEW t \in transactions'
                 PROVE  Current(t)'
      BY DEF TransactionsAreCurrent
    <2>1. Current(t) /\ t.submission.at \in Times
      BY TransactionFields
    <2>2. UNCHANGED <<submissions, solves, status, enrolment, challenge>>
      BY DEF factVars
    <2>3. t.submission.at <= now'
      BY <2>1, NowFields DEF Current, Times
    <2> QED
      BY <2>1, <2>2, <2>3 DEF Current, NextOrder, Alike
  <1> QED
    BY <1>1, <1>2, FactsStay DEF SubInv

LEMMA ContestKeeps ==
  ASSUME SubInv, ContestStep
  PROVE  SubInv'
  <1>1. ASSUME UNCHANGED <<now, calls, transactions, factVars>>, ContestFree,
               status' \in {"published", "archived"},
               enrolment' \in [Participations ->
                      {"absent", "pending", "accepted", "rejected", "withdrawn"}],
               challenge' \in [Challenges -> Rows]
        PROVE  SubInv'
    <2>1. TypeOK'
      BY <1>1 DEF SubInv, TypeOK, factVars
    <2>2. now' \in Nat /\ now <= now' /\ transactions' = {} /\ transactions' \subseteq transactions
      BY <1>1, NowFields DEF ContestFree
    <2> QED
      BY <1>1, <2>1, <2>2, QuietKeeps
  <1>2. ASSUME NEW p \in Participations, NEW at \in Times,
               Register(p, at) \/ Withdraw(p) \/ \E d \in {"accepted", "rejected"} : Review(p, d, at)
        PROVE  SubInv'
    <2>1. UNCHANGED <<now, calls, transactions, factVars, status, challenge>> /\ ContestFree
      BY <1>2 DEF Register, Withdraw, Review
    <2>2. enrolment' \in [Participations ->
                      {"absent", "pending", "accepted", "rejected", "withdrawn"}]
      BY <1>2 DEF Register, Withdraw, Review, SubInv, TypeOK
    <2>3. challenge' \in [Challenges -> Rows] /\ status' \in {"published", "archived"}
      BY <2>1 DEF SubInv, TypeOK
    <2> QED
      BY <1>1, <2>1, <2>2, <2>3
  <1>3. ASSUME NEW c \in Challenges, NEW row \in Rows, Revise(c, row)
        PROVE  SubInv'
    <2>1. UNCHANGED <<now, calls, transactions, factVars, status, enrolment>> /\ ContestFree
      BY <1>3 DEF Revise
    <2>2. challenge' \in [Challenges -> Rows]
      BY <1>3 DEF Revise, SubInv, TypeOK
    <2> QED
      BY <1>1, <2>1, <2>2 DEF SubInv, TypeOK
  <1>4. CASE Archive
    <2>1. UNCHANGED <<now, calls, transactions, factVars, challenge, enrolment>> /\ ContestFree
          /\ status' = "archived"
      BY <1>4 DEF Archive
    <2> QED
      BY <1>1, <2>1 DEF SubInv, TypeOK
  <1>5. CASE Tick
    <2>1. now' \in Nat /\ now <= now' /\ now' \in Times
      BY <1>5, NowFields DEF Tick, Times
    <2>2. UNCHANGED <<status, enrolment, challenge, calls, transactions, factVars>>
      BY <1>5 DEF Tick, contestVars
    <2>3. TypeOK'
      BY <2>1, <2>2 DEF SubInv, TypeOK, factVars
    <2> QED
      BY <2>1, <2>2, <2>3, QuietKeeps
  <1>6. 0 \in Times
    BY SubmissionsAssumption DEF Times
  <1> QED
    BY <1>2, <1>3, <1>4, <1>5, <1>6 DEF ContestStep

LEMMA VerifyKeeps ==
  ASSUME SubInv, NEW p \in Participations, NEW c \in Challenges, NEW r \in Requests,
         NEW a \in Answers, Verify(p, c, a, r)
  PROVE  SubInv'
  <1> DEFINE k == [participation |-> p, challenge |-> c, answer |-> a,
                   correct |-> Correct(p, c, a), request |-> r, since |-> now]
  <1>1. Correct(p, c, a) \in BOOLEAN
    BY DEF Correct
  <1>2. k \in Calls
    BY <1>1, NowFields DEF Calls
  <1>3. calls' = calls \cup {k} /\ UNCHANGED <<now, contestVars, transactions, factVars>>
    BY DEF Verify
  <1> HIDE DEF k
  <1>4. TypeOK'
    BY <1>2, <1>3 DEF SubInv, TypeOK, contestVars, factVars
  <1> QED
    BY <1>3, <1>4, NowFields, QuietKeeps DEF contestVars

LEMMA EndsKeep ==
  ASSUME SubInv, (\E k \in calls : Dismiss(k)) \/ (\E t \in transactions : Rollback(t))
  PROVE  SubInv'
  <1>1. /\ calls' \subseteq calls /\ transactions' \subseteq transactions
        /\ UNCHANGED <<now, contestVars, factVars>>
    BY DEF Dismiss, Rollback
  <1>2. TypeOK'
    BY <1>1 DEF SubInv, TypeOK, contestVars, factVars
  <1> QED
    BY <1>1, <1>2, NowFields, QuietKeeps DEF contestVars

LEMMA BeginKeeps ==
  ASSUME SubInv, NEW k \in calls, NEW at \in k.since..now, Begin(k, at)
  PROVE  SubInv'
  <1> DEFINE p == k.participation
             c == k.challenge
             mode == ModeAt(at)
             s == [participation |-> p, challenge |-> c, answer |-> k.answer,
                   request |-> k.request, at |-> at, mode |-> mode, result |-> ResultOf(k, mode),
                   derived |-> challenge[c].derived]
             t == [submission |-> s, order |-> NextOrder(c, mode)]
  <1>1. /\ k \in Calls /\ p \in Participations /\ c \in Challenges
        /\ k.answer \in Answers /\ k.request \in Requests /\ k.since \in Times
    BY DEF SubInv, TypeOK, Calls
  <1>2. at \in Times /\ at <= now
    BY <1>1, NowFields DEF Times
  <1>3. mode \in Modes /\ ResultOf(k, mode) \in Results
    BY DEF ModeAt, Modes, ResultOf, Results
  <1>4. NextOrder(c, mode) \in Nat
    BY SolvesOfAreFinite
  <1>5. /\ RowsFree(p, c) /\ Running(at) /\ enrolment[p] = "accepted" /\ BelowLimit(p, c, at)
        /\ calls' \subseteq calls /\ transactions' = transactions \cup {t}
        /\ UNCHANGED <<now, contestVars, factVars>>
    BY DEF Begin, Admissible
  <1>a. challenge[c].derived \in BOOLEAN
    BY <1>1, SettingFields DEF Settings
  <1>6. /\ s \in Submissions /\ s.participation = p /\ s.challenge = c /\ s.at = at
        /\ s.mode = mode
    BY <1>1, <1>2, <1>3, <1>a DEF Submissions
  <1>7. mode = ModeAt(at)
    OBVIOUS
  <1> HIDE DEF s, mode
  <1>8. t \in Transactions /\ t.submission = s /\ t.order = NextOrder(c, mode)
    BY <1>4, <1>6 DEF Transactions
  <1> HIDE DEF t, p, c
  <1>9. UNCHANGED <<status, enrolment, challenge, submissions, solves>>
    BY <1>5 DEF contestVars, factVars
  <1>10. TypeOK'
    BY <1>5, <1>8 DEF SubInv, TypeOK, contestVars, factVars
  <1>11. TransactionsAreApart'
    BY <1>5, <1>6, <1>8 DEF SubInv, TransactionsAreApart, RowsFree
  <1>12. TransactionsAreCurrent'
    <2>1. status = "published"
      BY <1>5 DEF Running
    <2>2. Cardinality(Alike(submissions, p, c, mode)) < challenge[c].limit
      BY <1>5, <1>7 DEF BelowLimit
    <2>3. Current(t)
      BY <1>2, <1>5, <1>6, <1>7, <1>8, <2>1, <2>2 DEF Current
    <2>4. \A u \in transactions' : Current(u)
      BY <1>5, <2>3 DEF SubInv, TransactionsAreCurrent
    <2> QED
      BY <1>5, <1>9, <2>4 DEF TransactionsAreCurrent, Current, NextOrder, Alike
  <1> QED
    BY <1>5, <1>10, <1>11, <1>12, FactsStay DEF SubInv

-----------------------------------------------------------------------------
(* A submission is committed *)

\* What a commit does to the facts.
LEMMA CommitStep ==
  ASSUME SubInv, NEW t \in transactions, Commit(t)
  PROVE  /\ submissions' = submissions \cup {t.submission} /\ t.submission \in Submissions
         /\ t.submission \notin submissions /\ ~Known(t.submission.request)
         /\ transactions' = transactions \ {t}
         /\ UNCHANGED <<now, contestVars, calls, adjustments>>
         /\ SolveOf(t) \in Solves
         /\ SolveOf(t).participation = t.submission.participation
         /\ SolveOf(t).challenge = t.submission.challenge
         /\ SolveOf(t).at = t.submission.at
         /\ SolveOf(t).request = t.submission.request
         /\ SolveOf(t).order = t.order
         /\ SolveOf(t).mode = t.submission.mode
         /\ t.submission.result = "correct" =>
              /\ solves' = solves \cup {SolveOf(t)} /\ SolveOf(t) \notin solves
              /\ \A u \in solves : (u.challenge = t.submission.challenge /\ u.mode = t.submission.mode)
                   => u.participation # t.submission.participation
         /\ t.submission.result # "correct" => solves' = solves
         /\ Scores(t.submission) => version' = version + 1
         /\ ~Scores(t.submission) => version' = version
  <1> DEFINE s == t.submission
             v == SolveOf(t)
  <1>1. /\ s \in Submissions /\ t.order \in Nat
        /\ s.participation \in Participations /\ s.challenge \in Challenges
        /\ s.mode \in Modes /\ s.at \in Times /\ s.request \in Requests
    BY TransactionFields
  <1>2. /\ v \in Solves /\ v.participation = s.participation /\ v.challenge = s.challenge
        /\ v.at = s.at /\ v.request = s.request /\ v.order = t.order /\ v.mode = s.mode
    BY <1>1 DEF SolveOf, Solves
  <1>3. /\ KeysFree(t) /\ submissions' = submissions \cup {s}
        /\ transactions' = transactions \ {t}
        /\ solves' = IF s.result = "correct" THEN solves \cup {v} ELSE solves
        /\ version' = IF Scores(s) THEN version + 1 ELSE version
        /\ UNCHANGED <<now, contestVars, calls, adjustments>>
    BY DEF Commit
  <1>4. /\ ~Known(s.request)
        /\ s.result = "correct" =>
             \A u \in solves : (u.challenge = s.challenge /\ u.mode = s.mode)
               => u.participation # s.participation
    BY <1>3 DEF KeysFree
  <1>5. s \notin submissions
    BY <1>4 DEF Known
  <1>6. s.result = "correct" => v \notin solves
    BY <1>2, <1>4
  <1> HIDE DEF s, v
  <1>7. /\ s.result = "correct" => solves' = solves \cup {v}
        /\ s.result # "correct" => solves' = solves
        /\ Scores(s) => version' = version + 1
        /\ ~Scores(s) => version' = version
    BY <1>3
  <1> QED
    BY <1>1, <1>2, <1>3, <1>4, <1>5, <1>6, <1>7 DEF s, v

LEMMA CommitFinite ==
  ASSUME SubInv, NEW t \in transactions, Commit(t)
  PROVE  FactsAreFinite'
  <1>1. /\ IsFiniteSet(submissions) /\ IsFiniteSet(solves)
    BY DEF SubInv, FactsAreFinite
  <1>2. IsFiniteSet(submissions') /\ IsFiniteSet(solves')
    BY <1>1, CommitStep, FS_AddElement
  <1>3. UNCHANGED adjustments
    BY CommitStep
  <1> QED
    BY <1>2, <1>3 DEF SubInv, FactsAreFinite

LEMMA CommitIdempotent ==
  ASSUME SubInv, NEW t \in transactions, Commit(t)
  PROVE  RequestsAreIdempotent'
  BY CommitStep DEF SubInv, RequestsAreIdempotent, Known

\* The official solves grow by one if the submission scores, and not otherwise.
LEMMA CommitOfficial ==
  ASSUME SubInv, NEW t \in transactions, Commit(t)
  PROVE  /\ Scores(t.submission) =>
              /\ Official(solves') = Official(solves) \cup {SolveOf(t)}
              /\ SolveOf(t) \notin Official(solves)
              /\ \A u \in Official(solves) : u.challenge = t.submission.challenge
                   => u.participation # t.submission.participation
         /\ ~Scores(t.submission) => Official(solves') = Official(solves)
  BY CommitStep DEF Official, Scores

LEMMA CommitReplayable ==
  ASSUME SubInv, NEW t \in transactions, Commit(t)
  PROVE  FactsReplayable'
  <1> DEFINE s == t.submission
             v == SolveOf(t)
             F == Official(solves)
             key(u) == [participation |-> u.participation, challenge |-> u.challenge,
                        request |-> u.request, at |-> u.at]
             correct(S) == {u \in Official(S) : u.result = "correct"}
  <1>1. /\ \A c \in Challenges :
             {u.order : u \in {w \in F : w.challenge = c}}
               = 1..Cardinality({w \in F : w.challenge = c})
        /\ \A u, w \in F : (u.participation = w.participation /\ u.challenge = w.challenge) => u = w
        /\ {key(u) : u \in F} = {key(u) : u \in correct(submissions)}
    BY DEF SubInv, FactsReplayable, Replayable
  <1>2. CASE ~Scores(s)
    <2>1. Official(solves') = F
      BY <1>2, CommitOfficial
    <2>2. correct(submissions') = correct(submissions)
      BY <1>2, CommitStep DEF Scores, Official
    <2> QED
      BY <1>1, <2>1, <2>2 DEF FactsReplayable, Replayable
  <1>3. CASE Scores(s)
    <2>1. /\ Official(solves') = F \cup {v} /\ v \notin F
          /\ \A u \in F : u.challenge = v.challenge => u.participation # v.participation
          /\ v.challenge = s.challenge /\ v.challenge \in Challenges /\ v.order = t.order
      BY <1>3, CommitOfficial, CommitStep, TransactionFields
    <2>2. correct(submissions') = correct(submissions) \cup {s}
      BY <1>3, CommitStep DEF Scores, Official
    <2>3. key(v) = key(s)
      BY CommitStep
    <2>4. t.order = Cardinality({w \in F : w.challenge = v.challenge}) + 1
      <3>1. t.order = NextOrder(s.challenge, s.mode) /\ s.mode = "official"
        BY <1>3, TransactionFields DEF Current, Scores
      <3>2. {w \in F : w.challenge = v.challenge} = SolvesOf(s.challenge, s.mode)
        BY <2>1, <3>1 DEF SolvesOf, Official
      <3> QED
        BY <3>1, <3>2, SolvesOfAreFinite
    <2>5. \A c \in Challenges : IsFiniteSet({w \in F : w.challenge = c})
                                /\ Cardinality({w \in F : w.challenge = c}) \in Nat
      <3> TAKE c \in Challenges
      <3>1. {w \in F : w.challenge = c} = SolvesOf(c, "official")
        BY DEF SolvesOf, Official
      <3> QED
        BY <3>1, SolvesOfAreFinite
    <2> HIDE DEF F, v, s, key, correct
    <2>6. ASSUME NEW c \in Challenges
          PROVE  {u.order : u \in {w \in F \cup {v} : w.challenge = c}}
                   = 1..Cardinality({w \in F \cup {v} : w.challenge = c})
      <3> DEFINE W == {w \in F : w.challenge = c}
                 W2 == {w \in F \cup {v} : w.challenge = c}
                 n == Cardinality(W)
      <3>1. IsFiniteSet(W) /\ n \in Nat /\ {u.order : u \in W} = 1..n
        BY <1>1, <2>5
      <3>2. CASE c # v.challenge
        <4>1. W2 = W
          BY <3>2
        <4> QED
          BY <3>1, <4>1
      <3>3. CASE c = v.challenge
        <4>1. W2 = W \cup {v} /\ v \notin W /\ v.order = n + 1
          BY <2>1, <2>4, <3>3
        <4>2. Cardinality(W2) = n + 1
          BY <3>1, <4>1, FS_AddElement
        <4> HIDE DEF W, W2, n
        <4>3. {u.order : u \in W2} = (1..n) \cup {n + 1}
          BY <3>1, <4>1
        <4>4. (1..n) \cup {n + 1} = 1..(n + 1)
          BY <3>1
        <4>5. {u.order : u \in W2} = 1..Cardinality(W2)
          BY <4>2, <4>3, <4>4
        <4> QED
          BY <4>5 DEF W2
      <3> QED
        BY <3>2, <3>3
    <2>7. \A u, w \in F \cup {v} :
            (u.participation = w.participation /\ u.challenge = w.challenge) => u = w
      BY <1>1, <2>1
    <2>8. {key(u) : u \in F \cup {v}} = {key(u) : u \in correct(submissions')}
      BY <1>1, <2>2, <2>3
    <2> QED
      BY <2>1, <2>6, <2>7, <2>8 DEF FactsReplayable, Replayable, key, correct
  <1> QED
    BY <1>2, <1>3

LEMMA CommitCounted ==
  ASSUME SubInv, NEW t \in transactions, Commit(t)
  PROVE  FactsAreCounted'
  <1> DEFINE s == t.submission
             v == SolveOf(t)
             F == Official(solves)
             announced(S) == {[challenge |-> u.challenge, participation |-> u.participation,
                               at |-> u.at] : u \in {w \in S : w.order = 1}}
             event == [challenge |-> s.challenge, participation |-> s.participation, at |-> s.at]
  <1>1. version = Cardinality(F) + Cardinality(adjustments) /\ events = announced(F)
    BY DEF SubInv, FactsAreCounted
  <1>2. /\ IsFiniteSet(F) /\ Cardinality(F) \in Nat /\ Cardinality(adjustments) \in Nat
    <2>1. F \subseteq solves /\ IsFiniteSet(solves) /\ IsFiniteSet(adjustments)
      BY DEF Official, SubInv, FactsAreFinite
    <2> QED
      BY <2>1, FS_Subset, FS_CardinalityType
  <1>3. UNCHANGED adjustments
    BY CommitStep
  <1>4. CASE ~Scores(s)
    <2>1. Official(solves') = F /\ version' = version /\ events' = events
      BY <1>4, CommitStep, CommitOfficial DEF Commit, FirstSolve
    <2> QED
      BY <1>1, <1>3, <2>1 DEF FactsAreCounted
  <1>5. CASE Scores(s)
    <2>1. Official(solves') = F \cup {v} /\ v \notin F /\ version' = version + 1
      BY <1>5, CommitStep, CommitOfficial
    <2>2. Cardinality(F \cup {v}) = Cardinality(F) + 1
      BY <1>2, <2>1, FS_AddElement
    <2>3. version' = Cardinality(Official(solves')) + Cardinality(adjustments')
      BY <1>1, <1>2, <1>3, <2>1, <2>2
    <2>4. /\ v.order = t.order
          /\ event = [challenge |-> v.challenge, participation |-> v.participation, at |-> v.at]
      BY CommitStep
    <2>5. events' = IF t.order = 1 THEN events \cup {event} ELSE events
      BY <1>5 DEF Commit, FirstSolve
    <2> HIDE DEF event, v, F
    <2>6. events' = announced(F \cup {v})
      <3>1. CASE t.order = 1
        <4>1. {w \in F \cup {v} : w.order = 1} = {w \in F : w.order = 1} \cup {v}
          BY <2>4, <3>1
        <4> QED
          BY <1>1, <2>4, <2>5, <3>1, <4>1
      <3>2. CASE t.order # 1
        <4>1. {w \in F \cup {v} : w.order = 1} = {w \in F : w.order = 1}
          BY <2>4, <3>2
        <4> QED
          BY <1>1, <2>5, <3>2, <4>1
      <3> QED
        BY <3>1, <3>2
    <2> QED
      BY <2>1, <2>3, <2>6 DEF FactsAreCounted
  <1> QED
    BY <1>4, <1>5

\* Transactions of other teams on other challenges are not disturbed.
LEMMA CommitTransactions ==
  ASSUME SubInv, NEW t \in transactions, Commit(t)
  PROVE  TransactionsAreApart' /\ TransactionsAreCurrent'
  <1> DEFINE s == t.submission
  <1>1. TransactionsAreApart'
    BY CommitStep DEF SubInv, TransactionsAreApart
  <1>2. ASSUME NEW u \in transactions'
        PROVE  Current(u)'
    <2> DEFINE o == u.submission
    <2>1. /\ u \in transactions /\ u # t /\ Current(u)
      BY <1>2, CommitStep, TransactionFields
    <2>2. o.participation # s.participation /\ o.challenge # s.challenge
      BY <2>1 DEF SubInv, TransactionsAreApart
    <2>3. Alike(submissions', o.participation, o.challenge, o.mode)
            = Alike(submissions, o.participation, o.challenge, o.mode)
      BY <2>2, CommitStep DEF Alike
    <2>4. {v \in solves' : v.challenge = o.challenge /\ v.mode = o.mode}
            = {v \in solves : v.challenge = o.challenge /\ v.mode = o.mode}
      BY <2>2, CommitStep
    <2>5. UNCHANGED <<now, status, enrolment, challenge>>
      BY CommitStep DEF contestVars
    <2> QED
      BY <2>1, <2>3, <2>4, <2>5 DEF Current, NextOrder
  <1> QED
    BY <1>1, <1>2 DEF TransactionsAreCurrent

-----------------------------------------------------------------------------
(* Clues grow with the submissions *)

Repeats(S, s) == {u \in SameAnswer(S, s) : /\ u.participation = s.participation
                                           /\ u.result = "incorrect"}
Subjects(S, s) == {u.participation : u \in {v \in SameAnswer(S, s) : v.result = "incorrect"}}
RepeatKey(s) == [kind |-> "repeat", challenge |-> s.challenge,
                 participation |-> s.participation, answer |-> s.answer]
SharedKey(s, p) == [kind |-> "shared", challenge |-> s.challenge,
                    participation |-> p, answer |-> s.answer]
FrequencyKey(s) == [kind |-> "frequency", challenge |-> s.challenge,
                    participation |-> s.participation, window |-> s.at \div FrequencyWindow]
ForeignKey(offence, owner) == [kind |-> "foreign", submission |-> offence.request,
                               owner |-> owner.participation]

\* Which clues a submission gives, kind by kind.
LEMMA CluesByKind ==
  ASSUME NEW S, NEW s, NEW k
  PROVE  /\ k \in CluesFrom(S, s) <=>
              \/ s.result = "incorrect" /\ k \in RepeatClues(S, s)
              \/ s.result = "incorrect" /\ k \in SharedClues(S, s)
              \/ k \in FrequencyClues(S, s)
              \/ s.derived /\ k \in ForeignClues(S, s)
         /\ k \in RepeatClues(S, s) <=>
              ~(Cardinality(Repeats(S, s)) < RepeatThreshold) /\ k = RepeatKey(s)
         /\ k \in SharedClues(S, s) <=>
              ~(Cardinality(Subjects(S, s)) < 2) /\ \E p \in Subjects(S, s) : k = SharedKey(s, p)
         /\ k \in FrequencyClues(S, s) <=>
              FrequentAt(S, s.participation, s.challenge, s.at) /\ k = FrequencyKey(s)
         /\ k \in ForeignClues(S, s) <=>
              \E u \in SameAnswer(S, s) :
                /\ u.participation # s.participation
                /\ \/ s.result = "incorrect" /\ u.result # "incorrect" /\ k = ForeignKey(s, u)
                   \/ s.result # "incorrect" /\ u.result = "incorrect" /\ k = ForeignKey(u, s)
  <1>1. k \in CluesFrom(S, s) <=>
              \/ s.result = "incorrect" /\ k \in RepeatClues(S, s)
              \/ s.result = "incorrect" /\ k \in SharedClues(S, s)
              \/ k \in FrequencyClues(S, s)
              \/ s.derived /\ k \in ForeignClues(S, s)
    BY DEF CluesFrom
  <1>2. k \in RepeatClues(S, s) <=>
              ~(Cardinality(Repeats(S, s)) < RepeatThreshold) /\ k = RepeatKey(s)
    BY DEF RepeatClues, Repeats, RepeatKey
  <1>3. k \in SharedClues(S, s) <=>
              ~(Cardinality(Subjects(S, s)) < 2) /\ \E p \in Subjects(S, s) : k = SharedKey(s, p)
    BY DEF SharedClues, Subjects, SharedKey
  <1>4. k \in FrequencyClues(S, s) <=>
              FrequentAt(S, s.participation, s.challenge, s.at) /\ k = FrequencyKey(s)
    BY DEF FrequencyClues, FrequencyKey
  <1>5. k \in ForeignClues(S, s) <=>
              \E u \in SameAnswer(S, s) :
                /\ u.participation # s.participation
                /\ \/ s.result = "incorrect" /\ u.result # "incorrect" /\ k = ForeignKey(s, u)
                   \/ s.result # "incorrect" /\ u.result = "incorrect" /\ k = ForeignKey(u, s)
    BY DEF ForeignClues, ForeignKey
  <1> QED
    BY <1>1, <1>2, <1>3, <1>4, <1>5

LEMMA KindsOfKeys ==
  /\ \A s : RepeatKey(s).kind = "repeat" /\ FrequencyKey(s).kind = "frequency"
  /\ \A s, p : SharedKey(s, p).kind = "shared" /\ ForeignKey(s, p).kind = "foreign"
  BY DEF RepeatKey, FrequencyKey, SharedKey, ForeignKey

LEMMA CluesAreTyped ==
  ASSUME NEW S \in SUBSET Submissions, NEW s \in Submissions
  PROVE  CluesFrom(S, s) \subseteq ClueKeys
  <1> SUFFICES ASSUME NEW k \in CluesFrom(S, s)
               PROVE  k \in ClueKeys
    OBVIOUS
  <1>1. \A u \in SameAnswer(S, s) : u \in Submissions
    BY DEF SameAnswer, Official
  <1>2. CASE k \in RepeatClues(S, s)
    BY <1>2, CluesByKind, SubmissionFields DEF RepeatKey, ClueKeys
  <1>3. CASE k \in SharedClues(S, s)
    <2>1. PICK p \in Subjects(S, s) : k = SharedKey(s, p)
      BY <1>3, CluesByKind
    <2>2. p \in Participations
      BY <1>1, SubmissionFields DEF Subjects
    <2> QED
      BY <2>1, <2>2, SubmissionFields DEF SharedKey, ClueKeys
  <1>4. CASE k \in FrequencyClues(S, s)
    <2>1. s.at \in Nat /\ FrequencyWindow \in Nat \ {0}
      BY SubmissionFields, SubmissionsAssumption
    <2>2. s.at \div FrequencyWindow \in Nat
      BY <2>1
    <2> QED
      BY <1>4, <2>2, CluesByKind, SubmissionFields DEF FrequencyKey, ClueKeys
  <1>5. CASE k \in ForeignClues(S, s)
    BY <1>1, <1>5, CluesByKind, SubmissionFields DEF ForeignKey, ClueKeys
  <1> QED
    BY <1>2, <1>3, <1>4, <1>5, CluesByKind

\* The parts the clues are counted from, when s is added to S.
LEMMA PartsGrow ==
  ASSUME NEW S, IsFiniteSet(S), NEW s, NEW o
  PROVE  /\ SameAnswer(S, o) \subseteq SameAnswer(S \cup {s}, o)
         /\ \A u \in SameAnswer(S \cup {s}, o) : u \in SameAnswer(S, o) \/ u = s
         /\ Cardinality(Repeats(S, o)) \in Nat /\ Cardinality(Repeats(S \cup {s}, o)) \in Nat
         /\ Cardinality(Repeats(S, o)) <= Cardinality(Repeats(S \cup {s}, o))
         /\ Subjects(S, o) \subseteq Subjects(S \cup {s}, o)
         /\ Cardinality(Subjects(S, o)) \in Nat /\ Cardinality(Subjects(S \cup {s}, o)) \in Nat
         /\ Cardinality(Subjects(S, o)) <= Cardinality(Subjects(S \cup {s}, o))
  <1> DEFINE T == S \cup {s}
  <1>1. S \subseteq T /\ IsFiniteSet(T)
    BY FS_AddElement
  <1>2. /\ SameAnswer(S, o) \subseteq SameAnswer(T, o) /\ SameAnswer(T, o) \subseteq T
        /\ \A u \in SameAnswer(T, o) : u \in SameAnswer(S, o) \/ u = s
    BY DEF SameAnswer, Official
  <1> HIDE DEF T
  <1>3. Repeats(S, o) \subseteq Repeats(T, o) /\ Repeats(T, o) \subseteq T
    BY <1>2 DEF Repeats
  <1>4. /\ Cardinality(Repeats(S, o)) \in Nat /\ Cardinality(Repeats(T, o)) \in Nat
        /\ Cardinality(Repeats(S, o)) <= Cardinality(Repeats(T, o))
    BY <1>1, <1>3, FS_Subset, FS_CardinalityType
  <1>5. Subjects(S, o) \subseteq Subjects(T, o)
    BY <1>2 DEF Subjects
  <1>6. IsFiniteSet(Subjects(T, o))
    <2> DEFINE V == {v \in SameAnswer(T, o) : v.result = "incorrect"}
               f == [v \in V |-> v.participation]
    <2>1. V \subseteq T /\ IsFiniteSet(V)
      BY <1>1, <1>2, FS_Subset
    <2>2. f \in Surjection(V, Subjects(T, o))
      BY DEF Surjection, Subjects
    <2> QED
      BY <2>1, <2>2, FS_Surjection
  <1>7. /\ Cardinality(Subjects(S, o)) \in Nat /\ Cardinality(Subjects(T, o)) \in Nat
        /\ Cardinality(Subjects(S, o)) <= Cardinality(Subjects(T, o))
    BY <1>5, <1>6, FS_Subset, FS_CardinalityType
  <1> QED
    BY <1>2, <1>4, <1>5, <1>7 DEF T

LEMMA FrequencyGrows ==
  ASSUME NEW S, IsFiniteSet(S), NEW s, NEW p, NEW c, NEW at, FrequentAt(S, p, c, at)
  PROVE  FrequentAt(S \cup {s}, p, c, at)
  <1> DEFINE W(X) == {u \in Alike(X, p, c, "official") :
                        at - FrequencyWindow < u.at /\ u.at <= at}
  <1>1. W(S) \subseteq W(S \cup {s}) /\ W(S \cup {s}) \subseteq S \cup {s}
    BY DEF Alike
  <1>2. IsFiniteSet(S \cup {s})
    BY FS_AddElement
  <1>3. /\ Cardinality(W(S)) \in Nat /\ Cardinality(W(S \cup {s})) \in Nat
        /\ Cardinality(W(S)) <= Cardinality(W(S \cup {s}))
    BY <1>1, <1>2, FS_Subset, FS_CardinalityType
  <1>4. Cardinality(W(S)) >= FrequencyThreshold /\ FrequencyThreshold \in Nat
    BY SubmissionsAssumption DEF FrequentAt
  <1> HIDE DEF W
  <1>5. Cardinality(W(S \cup {s})) >= FrequencyThreshold
    BY <1>3, <1>4
  <1> QED
    BY <1>5 DEF FrequentAt, W

\* What was deserved stays deserved.
LEMMA DeservedGrows ==
  ASSUME NEW S, IsFiniteSet(S), NEW s, NEW o
  PROVE  CluesFrom(S, o) \subseteq CluesFrom(S \cup {s}, o)
  <1> SUFFICES ASSUME NEW k \in CluesFrom(S, o)
               PROVE  k \in CluesFrom(S \cup {s}, o)
    OBVIOUS
  <1> DEFINE T == S \cup {s}
  <1>1. RepeatThreshold \in Nat
    BY SubmissionsAssumption
  <1>a. /\ Cardinality(Repeats(S, o)) \in Nat /\ Cardinality(Repeats(T, o)) \in Nat
        /\ Cardinality(Repeats(S, o)) <= Cardinality(Repeats(T, o))
    BY PartsGrow
  <1>b. /\ Subjects(S, o) \subseteq Subjects(T, o)
        /\ Cardinality(Subjects(S, o)) \in Nat /\ Cardinality(Subjects(T, o)) \in Nat
        /\ Cardinality(Subjects(S, o)) <= Cardinality(Subjects(T, o))
    BY PartsGrow
  <1>c. SameAnswer(S, o) \subseteq SameAnswer(T, o)
    BY PartsGrow
  <1>d. FrequentAt(S, o.participation, o.challenge, o.at)
          => FrequentAt(T, o.participation, o.challenge, o.at)
    BY FrequencyGrows
  <1> HIDE DEF T
  <1>2. CASE o.result = "incorrect" /\ k \in RepeatClues(S, o)
    <2>1. ~(Cardinality(Repeats(S, o)) < RepeatThreshold) /\ k = RepeatKey(o)
      BY <1>2, CluesByKind
    <2>2. ~(Cardinality(Repeats(T, o)) < RepeatThreshold)
      BY <1>1, <1>a, <2>1
    <2>3. k \in RepeatClues(T, o)
      BY <2>1, <2>2, CluesByKind
    <2> QED
      BY <1>2, <2>3, CluesByKind DEF T
  <1>3. CASE o.result = "incorrect" /\ k \in SharedClues(S, o)
    <2>1. ~(Cardinality(Subjects(S, o)) < 2) /\ \E p \in Subjects(S, o) : k = SharedKey(o, p)
      BY <1>3, CluesByKind
    <2>2. ~(Cardinality(Subjects(T, o)) < 2)
      BY <1>b, <2>1
    <2>3. k \in SharedClues(T, o)
      BY <1>b, <2>1, <2>2, CluesByKind
    <2> QED
      BY <1>3, <2>3, CluesByKind DEF T
  <1>4. CASE k \in FrequencyClues(S, o)
    <2>1. k \in FrequencyClues(T, o)
      BY <1>4, <1>d, CluesByKind
    <2> QED
      BY <2>1, CluesByKind DEF T
  <1>5. CASE o.derived /\ k \in ForeignClues(S, o)
    <2>1. k \in ForeignClues(T, o)
      BY <1>5, <1>c, CluesByKind
    <2> QED
      BY <1>5, <2>1, CluesByKind DEF T
  <1> QED
    BY <1>2, <1>3, <1>4, <1>5, CluesByKind

\* What an earlier submission comes to deserve by a new one, the new one deserves.
LEMMA DeservedByTheNew ==
  ASSUME NEW S, IsFiniteSet(S), NEW s, s.mode = "official", NEW o \in Official(S),
         NEW k \in CluesFrom(S \cup {s}, o), k.kind \in {"repeat", "shared"}
  PROVE  k \in CluesFrom(S, o) \cup CluesFrom(S \cup {s}, s)
  <1> DEFINE T == S \cup {s}
  <1>1. ASSUME s \in SameAnswer(T, o)
        PROVE  /\ SameAnswer(T, s) = SameAnswer(T, o)
               /\ s.challenge = o.challenge /\ s.answer = o.answer
    BY <1>1 DEF SameAnswer
  <1>2. o \in SameAnswer(T, s) <=> s \in SameAnswer(T, o)
    BY DEF SameAnswer, Official
  <1>3. /\ \A u \in SameAnswer(T, o) : u \in SameAnswer(S, o) \/ u = s
        /\ SameAnswer(S, o) \subseteq SameAnswer(T, o)
    BY PartsGrow
  <1> HIDE DEF T
  <1>4. CASE o.result = "incorrect" /\ k \in RepeatClues(T, o)
    <2>1. CASE s \in Repeats(T, o)
      <3>1. Repeats(T, s) = Repeats(T, o) /\ RepeatKey(s) = RepeatKey(o) /\ s.result = "incorrect"
        BY <1>1, <2>1 DEF Repeats, RepeatKey
      <3>2. k \in RepeatClues(T, s)
        BY <1>4, <3>1, CluesByKind
      <3> QED
        BY <3>1, <3>2, CluesByKind DEF T
    <2>2. CASE s \notin Repeats(T, o)
      <3>1. Repeats(T, o) = Repeats(S, o)
        BY <1>3, <2>2 DEF Repeats
      <3>2. k \in RepeatClues(S, o)
        BY <1>4, <3>1, CluesByKind
      <3> QED
        BY <1>4, <3>2, CluesByKind
    <2> QED
      BY <2>1, <2>2
  <1>5. CASE o.result = "incorrect" /\ k \in SharedClues(T, o)
    <2>1. CASE s \in SameAnswer(T, o) /\ s.result = "incorrect"
      <3>1. Subjects(T, s) = Subjects(T, o) /\ \A p : SharedKey(s, p) = SharedKey(o, p)
        BY <1>1, <2>1 DEF Subjects, SharedKey
      <3>2. k \in SharedClues(T, s)
        BY <1>5, <3>1, CluesByKind
      <3> QED
        BY <2>1, <3>2, CluesByKind DEF T
    <2>2. CASE ~(s \in SameAnswer(T, o) /\ s.result = "incorrect")
      <3>1. {v \in SameAnswer(T, o) : v.result = "incorrect"}
              = {v \in SameAnswer(S, o) : v.result = "incorrect"}
        BY <1>3, <2>2
      <3>2. Subjects(T, o) = Subjects(S, o)
        BY <3>1 DEF Subjects
      <3>3. k \in SharedClues(S, o)
        BY <1>5, <3>2, CluesByKind
      <3> QED
        BY <1>5, <3>3, CluesByKind
    <2> QED
      BY <2>1, <2>2
  <1>6. k \notin FrequencyClues(T, o) /\ k \notin ForeignClues(T, o)
    BY CluesByKind, KindsOfKeys
  <1> QED
    BY <1>4, <1>5, <1>6, CluesByKind DEF T

\* The flag of another team is found by whichever of the two submissions is stored
\* second, if the policy was team-derived for both.
LEMMA StolenIsFound ==
  ASSUME NEW S, NEW s, s.mode = "official", NEW k \in Stolen(S \cup {s})
  PROVE  /\ k.kind = "foreign"
         /\ k \in Stolen(S) \cup CluesFrom(S \cup {s}, s)
  <1> DEFINE T == S \cup {s}
             D == UnderTeamFlags(T)
  <1>1. PICK o \in Official(D) : k \in ForeignClues(D, o)
    BY DEF Stolen
  <1>2. PICK u \in SameAnswer(D, o) :
          /\ u.participation # o.participation
          /\ \/ o.result = "incorrect" /\ u.result # "incorrect" /\ k = ForeignKey(o, u)
             \/ o.result # "incorrect" /\ u.result = "incorrect" /\ k = ForeignKey(u, o)
    BY <1>1, CluesByKind
  <1>3. /\ o \in T /\ o.derived /\ o.mode = "official"
        /\ u \in T /\ u.derived /\ u.mode = "official"
        /\ u.challenge = o.challenge /\ u.answer = o.answer
    BY <1>1, <1>2 DEF SameAnswer, Official, UnderTeamFlags
  <1>4. k.kind = "foreign"
    BY <1>2, KindsOfKeys
  <1>5. CASE u = s
    <2>1. o \in SameAnswer(T, s)
      BY <1>3, <1>5 DEF SameAnswer, Official
    <2>2. k \in ForeignClues(T, s)
      BY <1>2, <1>5, <2>1, CluesByKind
    <2> QED
      BY <1>3, <1>4, <1>5, <2>2, CluesByKind
  <1>6. CASE o = s
    <2>1. u \in SameAnswer(T, s)
      BY <1>3, <1>6 DEF SameAnswer, Official
    <2>2. k \in ForeignClues(T, s)
      BY <1>2, <1>6, <2>1, CluesByKind
    <2> QED
      BY <1>3, <1>4, <1>6, <2>2, CluesByKind
  <1>7. CASE u \in S /\ o \in S
    <2>1. o \in Official(UnderTeamFlags(S)) /\ u \in SameAnswer(UnderTeamFlags(S), o)
      BY <1>3, <1>7 DEF SameAnswer, Official, UnderTeamFlags
    <2>2. k \in ForeignClues(UnderTeamFlags(S), o)
      BY <1>2, <2>1, CluesByKind
    <2> QED
      BY <1>4, <2>1, <2>2 DEF Stolen
  <1> QED
    BY <1>3, <1>5, <1>6, <1>7

\* A practice submission deserves nothing and changes nothing.
LEMMA PracticeChangesNothing ==
  ASSUME NEW S, NEW s, s.mode # "official"
  PROVE  /\ Official(S \cup {s}) = Official(S)
         /\ \A o : SameAnswer(S \cup {s}, o) = SameAnswer(S, o)
         /\ \A p, c, at : FrequentAt(S \cup {s}, p, c, at) <=> FrequentAt(S, p, c, at)
         /\ Deserved(S \cup {s}) = Deserved(S)
         /\ Stolen(S \cup {s}) = Stolen(S)
  <1>1. Official(S \cup {s}) = Official(S)
    BY DEF Official
  <1>2. \A o : SameAnswer(S \cup {s}, o) = SameAnswer(S, o)
    BY <1>1 DEF SameAnswer
  <1>3. \A p, c, at : FrequentAt(S \cup {s}, p, c, at) <=> FrequentAt(S, p, c, at)
    <2>1. \A p, c : Alike(S \cup {s}, p, c, "official") = Alike(S, p, c, "official")
      BY DEF Alike
    <2> QED
      BY <2>1 DEF FrequentAt
  <1>4. \A o : /\ Repeats(S \cup {s}, o) = Repeats(S, o)
               /\ Subjects(S \cup {s}, o) = Subjects(S, o)
    BY <1>2 DEF Repeats, Subjects
  <1>5. \A o : CluesFrom(S \cup {s}, o) = CluesFrom(S, o)
    <2> SUFFICES ASSUME NEW o, NEW k
                 PROVE  k \in CluesFrom(S \cup {s}, o) <=> k \in CluesFrom(S, o)
      OBVIOUS
    <2> DEFINE T == S \cup {s}
    <2>a. /\ Repeats(T, o) = Repeats(S, o) /\ Subjects(T, o) = Subjects(S, o)
          /\ SameAnswer(T, o) = SameAnswer(S, o)
          /\ FrequentAt(T, o.participation, o.challenge, o.at)
               <=> FrequentAt(S, o.participation, o.challenge, o.at)
      BY <1>2, <1>3, <1>4
    <2> HIDE DEF T
    <2>1. k \in RepeatClues(T, o) <=> k \in RepeatClues(S, o)
      BY <2>a, CluesByKind
    <2>2. k \in SharedClues(T, o) <=> k \in SharedClues(S, o)
      <3>1. k \in SharedClues(T, o) <=>
              ~(Cardinality(Subjects(T, o)) < 2) /\ \E p \in Subjects(T, o) : k = SharedKey(o, p)
        BY CluesByKind
      <3>2. k \in SharedClues(S, o) <=>
              ~(Cardinality(Subjects(S, o)) < 2) /\ \E p \in Subjects(S, o) : k = SharedKey(o, p)
        BY CluesByKind
      <3> QED
        BY <2>a, <3>1, <3>2
    <2>3. k \in FrequencyClues(T, o) <=> k \in FrequencyClues(S, o)
      BY <2>a, CluesByKind
    <2>4. k \in ForeignClues(T, o) <=> k \in ForeignClues(S, o)
      BY <2>a DEF ForeignClues
    <2> QED
      BY <2>1, <2>2, <2>3, <2>4, CluesByKind DEF T
  <1>6. Stolen(S \cup {s}) = Stolen(S)
    <2> DEFINE D == UnderTeamFlags(S)
               E == UnderTeamFlags(S \cup {s})
    <2>1. Official(E) = Official(D)
      BY DEF Official, UnderTeamFlags
    <2>2. \A o : SameAnswer(E, o) = SameAnswer(D, o)
      BY <2>1 DEF SameAnswer
    <2>3. \A o : ForeignClues(E, o) = ForeignClues(D, o)
      BY <2>2 DEF ForeignClues
    <2> QED
      BY <2>1, <2>3 DEF Stolen
  <1> QED
    BY <1>1, <1>2, <1>3, <1>5, <1>6 DEF Deserved

\* Keeping the clues a new submission deserves is enough, whichever came first.
LEMMA CluesKeepMatching ==
  ASSUME NEW S \in SUBSET Submissions, IsFiniteSet(S), NEW s \in Submissions, NEW C,
         CluesMatch(S, C)
  PROVE  CluesMatch(S \cup {s}, IF s.mode = "official" THEN C \cup CluesFrom(S \cup {s}, s) ELSE C)
  <1> DEFINE T == S \cup {s}
             new == CluesFrom(T, s)
  <1>1. CASE s.mode # "official"
    BY <1>1, PracticeChangesNothing DEF CluesMatch
  <1>2. CASE s.mode = "official"
    <2>1. Official(T) = Official(S) \cup {s}
      BY <1>2 DEF Official
    <2>2. Deserved(S) \cup new \subseteq Deserved(T)
      <3>1. new \subseteq Deserved(T)
        BY <2>1 DEF Deserved
      <3>2. ASSUME NEW k \in Deserved(S)
            PROVE  k \in Deserved(T)
        <4>1. PICK o \in Official(S) : k \in CluesFrom(S, o)
          BY <3>2 DEF Deserved
        <4>2. k \in CluesFrom(T, o) /\ o \in Official(T)
          BY <2>1, <4>1, DeservedGrows
        <4> QED
          BY <4>2 DEF Deserved
      <3> QED
        BY <3>1, <3>2
    <2>3. \A k \in Deserved(T) : k.kind \in {"repeat", "shared"}
                                  => k \in Deserved(S) \cup new
      <3> TAKE k \in Deserved(T)
      <3> HAVE k.kind \in {"repeat", "shared"}
      <3>1. PICK o \in Official(T) : k \in CluesFrom(T, o)
        BY DEF Deserved
      <3>2. CASE o = s
        BY <3>1, <3>2
      <3>3. CASE o \in Official(S)
        <4>1. k \in CluesFrom(S, o) \cup CluesFrom(S \cup {s}, s)
          BY <1>2, <3>1, <3>3, DeservedByTheNew
        <4> QED
          BY <3>3, <4>1 DEF Deserved
      <3> QED
        BY <2>1, <3>2, <3>3
    <2>4. /\ \A kind \in {"repeat", "shared"} :
               {k \in C : k.kind = kind} = {k \in Deserved(S) : k.kind = kind}
          /\ Stolen(S) \subseteq {k \in C : k.kind = "foreign"}
          /\ {k \in C : k.kind = "foreign"} \subseteq Deserved(S)
      BY DEF CluesMatch
    <2>a. \A k \in Stolen(T) : k.kind = "foreign" /\ k \in Stolen(S) \cup new
      BY <1>2, StolenIsFound
    <2>5. \A k \in C \cup new : k.kind = "frequency" =>
            \E at \in Times : /\ at \div FrequencyWindow = k.window
                              /\ FrequentAt(T, k.participation, k.challenge, at)
      <3> TAKE k \in C \cup new
      <3> HAVE k.kind = "frequency"
      <3>1. CASE k \in C
        <4>1. PICK at \in Times : /\ at \div FrequencyWindow = k.window
                                  /\ FrequentAt(S, k.participation, k.challenge, at)
          BY <3>1 DEF CluesMatch
        <4>2. FrequentAt(T, k.participation, k.challenge, at)
          BY <4>1, FrequencyGrows
        <4> QED
          BY <4>1, <4>2
      <3>2. CASE k \in new
        <4>1. FrequentAt(T, s.participation, s.challenge, s.at) /\ k = FrequencyKey(s)
          BY <3>2, CluesByKind, KindsOfKeys
        <4>2. /\ s.at \in Times /\ s.at \div FrequencyWindow = k.window
              /\ k.participation = s.participation /\ k.challenge = s.challenge
          BY <4>1, SubmissionFields DEF FrequencyKey
        <4> QED
          BY <4>1, <4>2
      <3> QED
        BY <3>1, <3>2
    <2> HIDE DEF T, new
    <2>6. \A kind \in {"repeat", "shared"} :
            {k \in C \cup new : k.kind = kind} = {k \in Deserved(T) : k.kind = kind}
      <3> TAKE kind \in {"repeat", "shared"}
      <3>1. \A k : k \in C /\ k.kind = kind <=> k \in Deserved(S) /\ k.kind = kind
        BY <2>4
      <3> QED
        BY <2>2, <2>3, <3>1
    <2>b. /\ Stolen(T) \subseteq {k \in C \cup new : k.kind = "foreign"}
          /\ {k \in C \cup new : k.kind = "foreign"} \subseteq Deserved(T)
      BY <2>2, <2>4, <2>a
    <2>7. CluesMatch(T, C \cup new)
      BY <2>5, <2>6, <2>b DEF CluesMatch
    <2> QED
      BY <1>2, <2>7 DEF T, new
  <1> QED
    BY <1>1, <1>2

-----------------------------------------------------------------------------
(* Every step keeps the invariant *)

LEMMA CommitClues ==
  ASSUME SubInv, NEW t \in transactions, Commit(t)
  PROVE  /\ CluesMatchSubmissions'
         /\ DOMAIN clues \subseteq DOMAIN clues' /\ DOMAIN clues' \subseteq ClueKeys
         /\ \A k \in DOMAIN clues : clues'[k] = clues[k]
         /\ \A k \in DOMAIN clues' : clues'[k] \in ClueStatuses
  <1> DEFINE s == t.submission
             new == CluesFrom(submissions \cup {s}, s)
  <1>1. /\ submissions \in SUBSET Submissions /\ IsFiniteSet(submissions)
        /\ DOMAIN clues \subseteq ClueKeys /\ \A k \in DOMAIN clues : clues[k] \in ClueStatuses
        /\ CluesMatch(submissions, DOMAIN clues)
    BY CluesMatchIsMeant DEF SubInv, TypeOK, FactsAreFinite
  <1>2. s \in Submissions /\ submissions' = submissions \cup {s}
    BY CommitStep
  <1>3. new \subseteq ClueKeys
    <2>1. submissions \cup {s} \in SUBSET Submissions
      BY <1>1, <1>2
    <2> QED
      BY <1>2, <2>1, CluesAreTyped
  <1>4. clues' = IF s.mode = "official"
                 THEN [k \in DOMAIN clues \cup new |-> IF k \in DOMAIN clues THEN clues[k] ELSE "open"]
                 ELSE clues
    BY DEF Commit, WithClues
  <1>5. CluesMatch(submissions', IF s.mode = "official" THEN DOMAIN clues \cup new ELSE DOMAIN clues)
    BY <1>1, <1>2, CluesKeepMatching
  <1> HIDE DEF new, s
  <1>6. DOMAIN clues' = IF s.mode = "official" THEN DOMAIN clues \cup new ELSE DOMAIN clues
    BY <1>4
  <1>7. /\ \A k \in DOMAIN clues : clues'[k] = clues[k]
        /\ \A k \in DOMAIN clues' : clues'[k] \in ClueStatuses
    BY <1>1, <1>4 DEF ClueStatuses
  <1>8. CluesMatchSubmissions' <=> CluesMatch(submissions', DOMAIN clues')
    BY DEF CluesMatchSubmissions, CluesMatch, Deserved, Stolen, UnderTeamFlags
  <1>9. CluesMatchSubmissions'
    BY <1>5, <1>6, <1>8
  <1>10. DOMAIN clues \subseteq DOMAIN clues' /\ DOMAIN clues' \subseteq ClueKeys
    BY <1>1, <1>3, <1>6
  <1> QED
    BY <1>7, <1>9, <1>10

LEMMA CommitKeeps ==
  ASSUME SubInv, NEW t \in transactions, Commit(t)
  PROVE  SubInv'
  <1> DEFINE s == t.submission
             event == [challenge |-> s.challenge, participation |-> s.participation, at |-> s.at]
  <1>1. event \in Events
    BY TransactionFields DEF Events
  <1>2. events' = IF FirstSolve(t) THEN events \cup {event} ELSE events
    BY DEF Commit
  <1> HIDE DEF event
  <1>3. events' \subseteq Events
    BY <1>1, <1>2 DEF SubInv, TypeOK
  <1>4. submissions' \subseteq Submissions /\ transactions' \subseteq Transactions
    BY CommitStep DEF SubInv, TypeOK
  <1>5. solves' \subseteq Solves /\ version' \in Nat
    BY CommitStep DEF SubInv, TypeOK
  <1>6. UNCHANGED <<now, status, enrolment, challenge, calls, adjustments>>
    BY CommitStep DEF contestVars
  <1>7. TypeOK'
    BY <1>3, <1>4, <1>5, <1>6, CommitClues DEF SubInv, TypeOK
  <1> QED
    BY <1>7, CommitFinite, CommitReplayable, CommitCounted, CommitIdempotent, CommitClues,
       CommitTransactions DEF SubInv

LEMMA AdjustKeeps ==
  ASSUME SubInv, NEW p \in Participations, NEW at \in Times, Adjust(p, at)
  PROVE  SubInv'
  <1> DEFINE n == Cardinality(adjustments)
             a == [number |-> n + 1, at |-> at]
  <1>1. /\ IsFiniteSet(adjustments) /\ n \in Nat /\ \A b \in adjustments : b.number <= n
        /\ adjustments \subseteq Adjustments /\ n < MaxAdjustments /\ MaxAdjustments \in Nat
    BY FS_CardinalityType, SubmissionsAssumption
       DEF SubInv, TypeOK, FactsAreFinite, Adjust
  <1>2. /\ transactions = {} /\ adjustments' = adjustments \cup {a} /\ version' = version + 1
        /\ UNCHANGED <<now, contestVars, calls, transactions, submissions, solves, events, clues>>
    BY DEF Adjust, ContestFree
  <1>3. a \in Adjustments /\ a.number = n + 1
    BY <1>1 DEF Adjustments
  <1>4. \A b \in adjustments : b.number \in Nat
    BY <1>1 DEF Adjustments
  <1> HIDE DEF a, n
  <1>5. a \notin adjustments
    BY <1>1, <1>3, <1>4
  <1>6. IsFiniteSet(adjustments') /\ Cardinality(adjustments') = n + 1
    BY <1>1, <1>2, <1>5, FS_AddElement DEF n
  <1>7. FactsAreFinite'
    <2>1. \A b \in adjustments' : b.number <= n + 1
      BY <1>1, <1>2, <1>3, <1>4
    <2>2. n + 1 <= MaxAdjustments
      BY <1>1
    <2>3. IsFiniteSet(submissions') /\ IsFiniteSet(solves')
      BY <1>2 DEF SubInv, FactsAreFinite
    <2> QED
      BY <1>6, <2>1, <2>2, <2>3 DEF FactsAreFinite
  <1>8. TypeOK'
    BY <1>2, <1>3 DEF SubInv, TypeOK, contestVars
  <1>9. FactsAreCounted'
    <2>1. Cardinality(Official(solves)) \in Nat
      <3>1. Official(solves) \subseteq solves /\ IsFiniteSet(solves)
        BY DEF Official, SubInv, FactsAreFinite
      <3> QED
        BY <3>1, FS_Subset, FS_CardinalityType
    <2>2. version = Cardinality(Official(solves)) + n
      BY DEF SubInv, FactsAreCounted, n
    <2>3. version' = Cardinality(Official(solves)) + (n + 1)
      BY <1>1, <1>2, <2>1, <2>2
    <2>4. version' = Cardinality(Official(solves')) + Cardinality(adjustments')
      BY <1>2, <1>6, <2>3
    <2> QED
      BY <1>2, <2>4 DEF SubInv, FactsAreCounted
  <1>10. FactsReplayable' /\ RequestsAreIdempotent'
    BY <1>2 DEF SubInv, FactsReplayable, Replayable, Official, RequestsAreIdempotent
  <1>11. CluesMatchSubmissions'
    <2>1. CluesMatch(submissions', DOMAIN clues')
      BY <1>2, CluesMatchIsMeant DEF SubInv
    <2> QED
      BY <2>1 DEF CluesMatchSubmissions, CluesMatch, Deserved, Stolen, UnderTeamFlags
  <1>12. TransactionsAreApart' /\ TransactionsAreCurrent'
    BY <1>2 DEF TransactionsAreApart, TransactionsAreCurrent
  <1> QED
    BY <1>7, <1>8, <1>9, <1>10, <1>11, <1>12 DEF SubInv

LEMMA ReviewClueStep ==
  ASSUME SubInv, NEW k \in DOMAIN clues, NEW s \in ClueStatuses, ReviewClue(k, s)
  PROVE  /\ DOMAIN clues' = DOMAIN clues
         /\ clues[k] \in {"open", "reviewing"} /\ clues'[k] = s
         /\ \A j \in DOMAIN clues \ {k} : clues'[j] = clues[j]
         /\ UNCHANGED <<now, contestVars, calls, transactions, submissions, solves,
                        adjustments, version, events>>
  <1>1. clues' = [clues EXCEPT ![k] = s] /\ s \in ReviewOf(clues[k])
    BY DEF ReviewClue
  <1>2. clues[k] \in {"open", "reviewing"}
    BY <1>1 DEF ReviewOf
  <1>3. clues' = [j \in DOMAIN clues |-> IF j = k THEN s ELSE clues[j]]
    BY <1>1
  <1> QED
    BY <1>2, <1>3 DEF ReviewClue

LEMMA ReviewClueKeeps ==
  ASSUME SubInv, NEW k \in DOMAIN clues, NEW s \in ClueStatuses, ReviewClue(k, s)
  PROVE  SubInv'
  <1>1. /\ DOMAIN clues' = DOMAIN clues /\ \A j \in DOMAIN clues' : clues'[j] \in ClueStatuses
        /\ UNCHANGED <<now, contestVars, calls, transactions, submissions, solves,
                       adjustments, version, events>>
    BY ReviewClueStep DEF SubInv, TypeOK
  <1>2. TypeOK'
    BY <1>1 DEF SubInv, TypeOK, contestVars
  <1>3. FactsAreFinite' /\ RequestsAreIdempotent'
    BY <1>1 DEF SubInv, FactsAreFinite, RequestsAreIdempotent
  <1>4. FactsReplayable' /\ FactsAreCounted'
    BY <1>1 DEF SubInv, FactsReplayable, FactsAreCounted, Replayable, Official
  <1>5. CluesMatchSubmissions'
    <2>1. CluesMatch(submissions', DOMAIN clues')
      BY <1>1, CluesMatchIsMeant DEF SubInv
    <2> QED
      BY <2>1 DEF CluesMatchSubmissions, CluesMatch, Deserved, Stolen, UnderTeamFlags
  <1>6. TransactionsAreApart' /\ TransactionsAreCurrent'
    BY <1>1 DEF SubInv, TransactionsAreApart, TransactionsAreCurrent, Current, NextOrder, Alike,
                contestVars
  <1> QED
    BY <1>2, <1>3, <1>4, <1>5, <1>6 DEF SubInv

LEMMA StepKeeps ==
  ASSUME SubInv, [SubmissionsNext]_submissionVars
  PROVE  SubInv'
  <1>1. CASE SubmitStep
    <2>1. ASSUME NEW k \in calls, NEW at \in k.since..now, Begin(k, at)
          PROVE  SubInv'
      BY <2>1, BeginKeeps
    <2>2. ASSUME NEW p \in Participations, NEW c \in Challenges, NEW r \in Requests,
                 NEW a \in Answers, Verify(p, c, a, r)
          PROVE  SubInv'
      BY <2>2, VerifyKeeps
    <2> QED
      BY <1>1, <2>1, <2>2, EndsKeep, CommitKeeps DEF SubmitStep
  <1>2. CASE JudgeStep
    BY <1>2, AdjustKeeps, ReviewClueKeeps DEF JudgeStep
  <1>3. CASE ContestStep
    BY <1>3, ContestKeeps
  <1>4. CASE UNCHANGED submissionVars
    <2>1. UNCHANGED <<now, status, enrolment, challenge, calls, transactions, factVars>>
      BY <1>4 DEF submissionVars, contestVars
    <2>2. TypeOK'
      BY <2>1 DEF SubInv, TypeOK, factVars
    <2> QED
      BY <2>1, <2>2, NowFields, QuietKeeps
  <1> QED
    BY <1>1, <1>2, <1>3, <1>4 DEF SubmissionsNext

LEMMA InitKeeps ==
  ASSUME SubmissionsInit
  PROVE  SubInv
  <1>1. /\ Official({}) = {} /\ Cardinality({}) = 0 /\ IsFiniteSet({}) /\ DOMAIN clues = {}
    BY FS_EmptySet DEF Official, SubmissionsInit
  <1>2. TypeOK
    BY <1>1, SubmissionsAssumption DEF SubmissionsInit, TypeOK, Times
  <1>3. FactsAreFinite
    BY <1>1, SubmissionsAssumption DEF SubmissionsInit, FactsAreFinite
  <1>4. FactsReplayable
    <2>1. \A c : {u \in {} : u.challenge = c} = {} /\ {s.order : s \in {}} = {} /\ 1..0 = {}
      OBVIOUS
    <2>2. \A c \in Challenges : {s.order : s \in {u \in {} : u.challenge = c}}
            = 1..Cardinality({u \in {} : u.challenge = c})
      BY <1>1, <2>1
    <2>3. {u \in {} : u.result = "correct"} = {}
      OBVIOUS
    <2> QED
      BY <1>1, <2>2, <2>3 DEF SubmissionsInit, FactsReplayable, Replayable
  <1>5. FactsAreCounted
    <2>1. {u \in Official(solves) : u.order = 1} = {}
      BY <1>1 DEF SubmissionsInit
    <2>2. {[challenge |-> s.challenge, participation |-> s.participation, at |-> s.at] :
             s \in {u \in Official(solves) : u.order = 1}} = {}
      BY <2>1
    <2>3. /\ version = 0 /\ events = {}
          /\ Cardinality(Official(solves)) = 0 /\ Cardinality(adjustments) = 0
      BY <1>1 DEF SubmissionsInit
    <2> QED
      BY <2>2, <2>3 DEF FactsAreCounted
  <1>6. CluesMatchSubmissions
    BY <1>1 DEF SubmissionsInit, CluesMatchSubmissions
  <1>7. RequestsAreIdempotent /\ TransactionsAreApart /\ TransactionsAreCurrent
    BY DEF SubmissionsInit, RequestsAreIdempotent, TransactionsAreApart, TransactionsAreCurrent
  <1> QED
    BY <1>2, <1>3, <1>4, <1>5, <1>6, <1>7 DEF SubInv

-----------------------------------------------------------------------------
(* Theorems *)

LEMMA Invariance == SubmissionsSpec => []SubInv
  <1>1. SubmissionsInit => SubInv
    BY InitKeeps
  <1>2. SubInv /\ [SubmissionsNext]_submissionVars => SubInv'
    BY StepKeeps
  <1> QED
    BY <1>1, <1>2, PTL DEF SubmissionsSpec

\* The rows are always of their types: a status, a mode or a clue outside the
\* ones the schema names is never written.
THEOREM SubmissionsTyped == SubmissionsSpec => []TypeOK
  BY Invariance, PTL DEF SubInv

\* Whatever transactions are half way, the committed facts pass every check of
\* the replay: the score can always be rebuilt.
THEOREM ScoreIsAlwaysReplayable == SubmissionsSpec => []FactsReplayable
  BY Invariance, PTL DEF SubInv

\* The scoreboard version and the first solve events count the facts exactly.
THEOREM FactsStayCounted == SubmissionsSpec => []FactsAreCounted
  BY Invariance, PTL DEF SubInv

\* A request id makes at most one submission.
THEOREM RequestsStayIdempotent == SubmissionsSpec => []RequestsAreIdempotent
  BY Invariance, PTL DEF SubInv

\* The clues are those the official submissions deserve, in whatever order the
\* submissions of the teams involved were stored and whatever policies were in force.
THEOREM CluesStayMatched == SubmissionsSpec => []CluesMatchSubmissions
  BY Invariance, PTL DEF SubInv

\* The limit on a team's submissions holds when the last of them is stored,
\* whoever checked it and whatever was revised in between.
THEOREM LimitAlwaysHolds == SubmissionsSpec => LimitHolds
  <1> DEFINE Within == \A s \in submissions' \ submissions :
                         Cardinality(Alike(submissions', s.participation, s.challenge, s.mode))
                           <= challenge[s.challenge].limit
  <1>1. ASSUME SubInv, SubmissionsNext
        PROVE  Within
    <2>1. CASE UNCHANGED submissions
      BY <2>1
    <2>2. ASSUME NEW t \in transactions, Commit(t)
          PROVE  Within
      <3> DEFINE s == t.submission
                 A(S) == Alike(S, s.participation, s.challenge, s.mode)
      <3>1. submissions' = submissions \cup {s} /\ s \notin submissions
        BY <1>1, <2>2, CommitStep
      <3>2. A(submissions') = A(submissions) \cup {s} /\ s \notin A(submissions)
        BY <3>1 DEF Alike
      <3>3. IsFiniteSet(A(submissions)) /\ Cardinality(A(submissions)) \in Nat
        BY <1>1, AlikeIsFinite DEF SubInv, FactsAreFinite
      <3>4. /\ Cardinality(A(submissions)) < challenge[s.challenge].limit
            /\ challenge[s.challenge].limit \in Nat
        BY <1>1, <2>2, TransactionFields, SettingFields DEF Current
      <3> HIDE DEF A
      <3>5. Cardinality(A(submissions')) = Cardinality(A(submissions)) + 1
        BY <3>2, <3>3, FS_AddElement
      <3>6. Cardinality(A(submissions')) <= challenge[s.challenge].limit
        BY <3>3, <3>4, <3>5
      <3>7. \A u \in submissions' \ submissions : u = s
        BY <3>1
      <3> QED
        BY <3>6, <3>7 DEF A
    <2>3. UNCHANGED submissions \/ \E t \in transactions : Commit(t)
      BY <1>1 DEF SubmissionsNext, SubmitStep, JudgeStep, ContestStep, Verify, Dismiss, Begin,
                  Rollback, Adjust, ReviewClue, Register, Withdraw, Review, Revise, Archive, Tick,
                  factVars
    <2> QED
      BY <2>1, <2>2, <2>3
  <1>2. SubInv /\ [SubmissionsNext]_submissionVars => [Within]_submissionVars
    BY <1>1
  <1> QED
    BY <1>2, Invariance, PTL DEF SubmissionsSpec, LimitHolds

\* No later submission reopens a clue a judge has settled.
THEOREM SettledCluesStay == SubmissionsSpec => ReviewedCluesStay
  <1> DEFINE Stays == \A k \in DOMAIN clues :
                        /\ k \in DOMAIN clues'
                        /\ clues[k] \in {"dismissed", "confirmed"} => clues'[k] = clues[k]
  <1>1. ASSUME SubInv, SubmissionsNext
        PROVE  Stays
    <2>1. CASE UNCHANGED clues
      BY <2>1
    <2>2. ASSUME NEW t \in transactions, Commit(t)
          PROVE  Stays
      BY <1>1, <2>2, CommitClues
    <2>3. ASSUME NEW k \in DOMAIN clues, NEW s \in ClueStatuses, ReviewClue(k, s)
          PROVE  Stays
      BY <1>1, <2>3, ReviewClueStep
    <2>4. \/ UNCHANGED clues \/ (\E t \in transactions : Commit(t))
          \/ \E k \in DOMAIN clues, s \in ClueStatuses : ReviewClue(k, s)
      BY <1>1 DEF SubmissionsNext, SubmitStep, JudgeStep, ContestStep, Verify, Dismiss, Begin,
                  Rollback, Adjust, Register, Withdraw, Review, Revise, Archive, Tick, factVars
    <2> QED
      BY <2>1, <2>2, <2>3, <2>4
  <1>2. SubInv /\ [SubmissionsNext]_submissionVars => [Stays]_submissionVars
    BY <1>1
  <1> QED
    BY <1>2, Invariance, PTL DEF SubmissionsSpec, ReviewedCluesStay

-----------------------------------------------------------------------------
(* The score facts are implemented *)

\* A solve as whoever reads the score sees it.
Face(s) == [participation |-> s.participation, challenge |-> s.challenge,
            order |-> s.order, at |-> s.at]
Faces == {[participation |-> s.participation, challenge |-> s.challenge,
           order |-> s.order, at |-> s.at] : s \in Official(solves)}
Ranked == {p \in Participations : enrolment[p] = "accepted"}
MaxFacts == Cardinality(Requests) + MaxAdjustments

\* The instance brings its own copy of FiniteSets, with the same definition.
LEMMA SameCardinality == \A S : ScoredFacts!Cardinality(S) = Cardinality(S)
  BY DEF ScoredFacts!Cardinality, Cardinality

\* What a reader knows of the contest is as it was.
LEMMA ContestSeenUnchanged ==
  ASSUME UNCHANGED <<status, enrolment>>
  PROVE  /\ (status' = "archived") = (status = "archived")
         /\ {p \in Participations : enrolment'[p] = "accepted"} = Ranked
  BY DEF Ranked

LEMMA OfficialSolves ==
  ASSUME SubInv
  PROVE  /\ Official(solves) \subseteq solves /\ IsFiniteSet(Official(solves))
         /\ Cardinality(Official(solves)) \in Nat
         /\ \A s, u \in Official(solves) :
              (s.participation = u.participation /\ s.challenge = u.challenge) => s = u
  <1>1. Official(solves) \subseteq solves /\ IsFiniteSet(solves)
    BY DEF Official, SubInv, FactsAreFinite
  <1>2. IsFiniteSet(Official(solves)) /\ Cardinality(Official(solves)) \in Nat
    BY <1>1, FS_Subset, FS_CardinalityType
  <1> QED
    BY <1>1, <1>2 DEF SubInv, FactsReplayable, Replayable

\* A reader counts as many solves of a challenge as are stored.
LEMMA FacesAreCounted ==
  ASSUME SubInv, NEW c \in Challenges
  PROVE  Cardinality({f \in Faces : f.challenge = c}) + 1 = NextOrder(c, "official")
  <1> DEFINE W == {s \in Official(solves) : s.challenge = c}
             V == {f \in Faces : f.challenge = c}
             face == [s \in W |-> Face(s)]
  <1>1. \A s \in Official(solves) :
          Face(s) \in Faces /\ Face(s).challenge = s.challenge
          /\ Face(s).participation = s.participation
    BY DEF Face, Faces
  <1>2. \A f \in Faces : \E s \in Official(solves) : f = Face(s)
    BY DEF Face, Faces
  <1>3. \A s, u \in W : Face(s) = Face(u) => s = u
    BY <1>1, OfficialSolves
  <1>4. face \in Surjection(W, V)
    <2>1. face \in [W -> V]
      BY <1>1
    <2>2. \A f \in V : \E s \in W : face[s] = f
      BY <1>1, <1>2
    <2> QED
      BY <2>1, <2>2 DEF Surjection
  <1>5. face \in Injection(W, V)
    BY <1>3, <1>4 DEF Injection, IsInjective, Surjection
  <1>6. IsFiniteSet(W) /\ W = SolvesOf(c, "official")
    BY OfficialSolves, FS_Subset DEF Official, SolvesOf
  <1>7. Cardinality(V) = Cardinality(SolvesOf(c, "official"))
    BY <1>4, <1>5, <1>6, FS_Surjection
  <1> QED
    BY <1>7, SolvesOfAreFinite

\* Distinct official solves have distinct requests, all of them known.
LEMMA SolvesHaveRequests ==
  ASSUME SubInv, NEW R \in SUBSET Requests,
         \A r \in Requests : Known(r) => r \in R
  PROVE  Cardinality(Official(solves)) <= Cardinality(R) /\ Cardinality(R) \in Nat
  <1> DEFINE F == Official(solves)
             key(s) == [participation |-> s.participation, challenge |-> s.challenge,
                        request |-> s.request, at |-> s.at]
             request == [s \in F |-> s.request]
  <1>1. ASSUME NEW s \in F
        PROVE  \E u \in submissions : key(s) = key(u)
    <2>1. {key(u) : u \in F} = {key(u) : u \in {v \in Official(submissions) : v.result = "correct"}}
      BY DEF SubInv, FactsReplayable, Replayable
    <2>2. Official(submissions) \subseteq submissions
      BY DEF Official
    <2> HIDE DEF F, key
    <2> QED
      BY <1>1, <2>1, <2>2
  <1>2. \A s, u : key(s) = key(u) => /\ s.participation = u.participation
                                     /\ s.challenge = u.challenge /\ s.request = u.request
    OBVIOUS
  <1> HIDE DEF key
  <1>3. ASSUME NEW s \in F
        PROVE  s.request \in R
    <2>1. PICK u \in submissions : key(s) = key(u)
      BY <1>1
    <2>2. s.request = u.request /\ s.request \in Requests
      BY <1>2, <2>1, SolveFields, OfficialSolves
    <2> QED
      BY <2>2 DEF Known
  <1>4. ASSUME NEW s \in F, NEW u \in F, s.request = u.request
        PROVE  s = u
    <2>1. PICK v \in submissions : key(s) = key(v)
      BY <1>1
    <2>2. PICK w \in submissions : key(u) = key(w)
      BY <1>1
    <2>3. v.request = w.request
      BY <1>2, <1>4, <2>1, <2>2
    <2>4. v = w
      BY <2>3 DEF SubInv, RequestsAreIdempotent
    <2>5. s.participation = u.participation /\ s.challenge = u.challenge
      BY <1>2, <2>1, <2>2, <2>4
    <2> QED
      BY <2>5, OfficialSolves
  <1>5. request \in Injection(F, R)
    BY <1>3, <1>4 DEF Injection, IsInjective
  <1>6. IsFiniteSet(R)
    BY SubmissionsAssumption, FS_Subset
  <1> QED
    BY <1>5, <1>6, FS_Injection, FS_CardinalityType

LEMMA VersionIsBounded ==
  ASSUME SubInv
  PROVE  /\ Cardinality(adjustments) < MaxAdjustments => version < MaxFacts
         /\ (\E r \in Requests : ~Known(r)) => version < MaxFacts
  <1>1. /\ version = Cardinality(Official(solves)) + Cardinality(adjustments)
        /\ Cardinality(Official(solves)) \in Nat /\ Cardinality(adjustments) \in Nat
        /\ Cardinality(adjustments) <= MaxAdjustments /\ MaxAdjustments \in Nat
    BY OfficialSolves, FS_CardinalityType, SubmissionsAssumption
       DEF SubInv, FactsAreCounted, FactsAreFinite
  <1>2. Cardinality(Official(solves)) <= Cardinality(Requests) /\ Cardinality(Requests) \in Nat
    BY SolvesHaveRequests
  <1>3. ASSUME NEW r \in Requests, ~Known(r)
        PROVE  Cardinality(Official(solves)) < Cardinality(Requests)
    <2>1. Cardinality(Official(solves)) <= Cardinality(Requests \ {r})
      BY <1>3, SolvesHaveRequests
    <2>2. Cardinality(Requests \ {r}) = Cardinality(Requests) - 1
      BY SubmissionsAssumption, FS_RemoveElement
    <2> QED
      BY <1>1, <1>2, <2>1, <2>2
  <1> QED
    BY <1>1, <1>2, <1>3 DEF MaxFacts

LEMMA CommitImplements ==
  ASSUME SubInv, NEW t \in transactions, Commit(t)
  PROVE  ScoredFacts!FactsNext \/ UNCHANGED ScoredFacts!factVars
  <1> DEFINE s == t.submission
             p == s.participation
             c == s.challenge
  <1>1. /\ p \in Participations /\ c \in Challenges /\ s.at \in Times /\ s.request \in Requests
        /\ Current(t)
    BY TransactionFields
  <1>2. UNCHANGED <<now, status, enrolment, adjustments>>
    BY CommitStep DEF contestVars
  <1>3. CASE ~Scores(s)
    <2>1. Official(solves') = Official(solves) /\ version' = version
      BY <1>3, CommitStep, CommitOfficial
    <2> QED
      BY <1>2, <2>1 DEF ScoredFacts!factVars
  <1>4. CASE Scores(s)
    <2>1. /\ Official(solves') = Official(solves) \cup {SolveOf(t)} /\ version' = version + 1
          /\ \A u \in Official(solves) : u.challenge = c => u.participation # p
      BY <1>4, CommitStep, CommitOfficial
    <2>2. Faces' = Faces \cup {Face(SolveOf(t))}
      BY <2>1 DEF Faces, Face
    <2>3. Face(SolveOf(t)) = [participation |-> p, challenge |-> c, at |-> s.at,
                              order |-> Cardinality({f \in Faces : f.challenge = c}) + 1]
      <3>1. t.order = NextOrder(c, "official")
        BY <1>1, <1>4 DEF Current, Scores
      <3>2. t.order = Cardinality({f \in Faces : f.challenge = c}) + 1
        BY <1>1, <3>1, FacesAreCounted
      <3> QED
        BY <3>2, CommitStep DEF Face
    <2>4. \A f \in {g \in Faces : g.challenge = c} : f.participation # p
      BY <2>1 DEF Faces
    <2>5. version < MaxFacts
      BY <1>1, CommitStep, VersionIsBounded
    <2>6. status = "published" /\ p \in Ranked /\ s.at <= now /\ s.at < EndAt
      <3>1. s.mode = "official" /\ s.mode = ModeAt(s.at)
        BY <1>1, <1>4 DEF Current, Scores
      <3> QED
        BY <1>1, <3>1 DEF Current, ModeAt, Ranked
    <2>7. ScoredFacts!AddSolve(p, c, s.at)
      BY <1>2, <2>1, <2>2, <2>3, <2>4, <2>5, <2>6, SameCardinality, ContestSeenUnchanged
         DEF ScoredFacts!AddSolve, ScoredFacts!SolvesOf, Faces, Ranked, MaxFacts
    <2> QED
      BY <1>1, <2>7 DEF ScoredFacts!FactsNext, ScoredFacts!Times, Times
  <1> QED
    BY <1>3, <1>4

LEMMA AdjustImplements ==
  ASSUME SubInv, NEW p \in Participations, NEW at \in Times, at <= now, now <= at + MaxLag,
         Adjust(p, at)
  PROVE  ScoredFacts!FactsNext
  <1>1. version < MaxFacts
    BY VersionIsBounded DEF Adjust
  <1>2. UNCHANGED <<now, status, enrolment, solves>> /\ status # "archived"
    BY DEF Adjust, contestVars
  <1>3. ScoredFacts!AddAdjustment(at)
    BY <1>1, <1>2, SameCardinality, ContestSeenUnchanged
       DEF Adjust, MaxFacts, Ranked, Official, ScoredFacts!AddAdjustment
  <1> QED
    BY <1>3 DEF ScoredFacts!FactsNext, ScoredFacts!Times, Times

LEMMA RegisterImplements ==
  ASSUME SubInv, NEW p \in Participations, NEW at \in Times, BegunAt(at),
         Register(p, at) \/ \E d \in {"accepted", "rejected"} : Review(p, d, at)
  PROVE  ScoredFacts!FactsNext \/ UNCHANGED ScoredFacts!factVars
  <1>1. /\ UNCHANGED <<now, status, solves, adjustments, version>>
        /\ enrolment \in [Participations ->
                      {"absent", "pending", "accepted", "rejected", "withdrawn"}]
        /\ enrolment[p] # "accepted"
    BY DEF Register, Review, factVars, SubInv, TypeOK
  <1>2. \A q \in Participations \ {p} : enrolment'[q] = enrolment[q]
    BY <1>1 DEF Register, Review
  <1>3. CASE enrolment'[p] # "accepted"
    <2>1. {q \in Participations : enrolment'[q] = "accepted"} = Ranked
      BY <1>1, <1>2, <1>3 DEF Ranked
    <2> QED
      BY <1>1, <2>1 DEF Ranked, ScoredFacts!factVars
  <1>4. CASE enrolment'[p] = "accepted"
    <2>1. RegistrationOpen(at) /\ at <= now /\ now <= at + MaxLag
      BY <1>1, <1>4 DEF Register, Review, BegunAt
    <2>2. {q \in Participations : enrolment'[q] = "accepted"} = Ranked \cup {p} /\ p \notin Ranked
      BY <1>1, <1>2, <1>4 DEF Ranked
    <2>3. ScoredFacts!Accept(p, at)
      BY <1>1, <2>1, <2>2 DEF Ranked, RegistrationOpen, ScoredFacts!Accept
    <2> QED
      BY <2>3 DEF ScoredFacts!FactsNext, ScoredFacts!Times, Times
  <1> QED
    BY <1>3, <1>4

LEMMA WithdrawImplements ==
  ASSUME SubInv, NEW p \in Participations, Withdraw(p)
  PROVE  UNCHANGED ScoredFacts!factVars
  <1>1. /\ UNCHANGED <<now, status, solves, adjustments, version>>
        /\ enrolment \in [Participations ->
                      {"absent", "pending", "accepted", "rejected", "withdrawn"}]
        /\ enrolment[p] # "accepted" /\ enrolment' = [enrolment EXCEPT ![p] = "withdrawn"]
    BY DEF Withdraw, factVars, SubInv, TypeOK
  <1>2. {q \in Participations : enrolment'[q] = "accepted"} = Ranked
    BY <1>1 DEF Ranked
  <1> QED
    BY <1>1, <1>2 DEF Ranked, ScoredFacts!factVars

\* Every step of submitting, judging, reviewing, revising and archiving is a step
\* of the score facts or leaves them alone.
THEOREM ScoreFactsAreImplemented == SubmissionsSpec => ImplementsScoreFacts
  <1>1. SubmissionsInit => ScoredFacts!FactsInit
    BY DEF SubmissionsInit, ScoredFacts!FactsInit, Official
  <1>2. ASSUME SubInv, SubmissionsNext
        PROVE  [ScoredFacts!FactsNext]_(ScoredFacts!factVars)
    <2>1. ASSUME UNCHANGED <<now, status, enrolment, solves, adjustments, version>>
          PROVE  UNCHANGED ScoredFacts!factVars
      BY <2>1 DEF ScoredFacts!factVars
    <2>2. CASE SubmitStep
      <3>1. \/ UNCHANGED <<now, status, enrolment, solves, adjustments, version>>
            \/ \E t \in transactions : Commit(t)
        BY <2>2 DEF SubmitStep, Verify, Dismiss, Begin, Rollback, contestVars, factVars
      <3> QED
        BY <1>2, <2>1, <3>1, CommitImplements
    <2>3. CASE JudgeStep
      <3>1. \/ UNCHANGED <<now, status, enrolment, solves, adjustments, version>>
            \/ \E p \in Participations, at \in Times :
                 BegunAt(at) /\ Adjust(p, at)
        BY <2>3 DEF JudgeStep, ReviewClue, contestVars
      <3> QED
        BY <1>2, <2>1, <3>1, AdjustImplements DEF BegunAt
    <2>4. CASE ContestStep
      <3>1. CASE \E p \in Participations, at \in Times :
                   BegunAt(at) /\ (Register(p, at)
                                    \/ \E d \in {"accepted", "rejected"} : Review(p, d, at))
        BY <1>2, <3>1, RegisterImplements
      <3>a. CASE \E p \in Participations : Withdraw(p)
        BY <1>2, <3>a, WithdrawImplements
      <3>2. CASE \E c \in Challenges, row \in Rows : Revise(c, row)
        <4>1. UNCHANGED <<now, status, enrolment, solves, adjustments, version>>
          BY <3>2 DEF Revise, factVars
        <4> QED
          BY <2>1, <4>1
      <3>3. CASE Archive
        <4>1. ScoredFacts!Archive
          BY <3>3 DEF Archive, factVars, ScoredFacts!Archive
        <4> QED
          BY <4>1 DEF ScoredFacts!FactsNext
      <3>4. CASE Tick
        <4>1. ScoredFacts!Tick
          BY <3>4 DEF Tick, contestVars, factVars, ScoredFacts!Tick
        <4> QED
          BY <4>1 DEF ScoredFacts!FactsNext
      <3> QED
        BY <2>4, <3>1, <3>a, <3>2, <3>3, <3>4 DEF ContestStep
    <2> QED
      BY <1>2, <2>2, <2>3, <2>4 DEF SubmissionsNext
  <1>3. UNCHANGED submissionVars => UNCHANGED ScoredFacts!factVars
    BY DEF submissionVars, contestVars, factVars, ScoredFacts!factVars
  <1>4. SubInv /\ [SubmissionsNext]_submissionVars
          => [ScoredFacts!FactsNext]_(ScoredFacts!factVars)
    BY <1>2, <1>3
  <1> QED
    BY <1>1, <1>4, Invariance, PTL
       DEF SubmissionsSpec, ImplementsScoreFacts, ScoredFacts!FactsSpec

=============================================================================
