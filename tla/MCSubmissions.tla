--------------------------- MODULE MCSubmissions ---------------------------
(***************************************************************************)
(* Instances of Submissions for TLC.                                       *)
(***************************************************************************)
EXTENDS Submissions, TLC

CONSTANT StaticFlag

\* The flag derived for a team has the team's name.
TeamFlags == Participations
Entered == Participations \cup {StaticFlag}

\* Flags are derived for the teams, or one is everybody's; a revision may also lower
\* the limit of two and close the challenge before the contest ends, practice
\* excepted.  A null closing time is one past MaxTime.
Published == [enabled |-> TRUE, publishAt |-> 0, closeAt |-> 9, limit |-> 2,
              derived |-> TRUE, accepts |-> [p \in Participations |-> {p}]]
Shared == [Published EXCEPT !.derived = FALSE,
                            !.accepts = [p \in Participations |-> {StaticFlag}]]
Tightened == [Published EXCEPT !.limit = 1, !.closeAt = 0]
AllPublished == [c \in Challenges |-> Published]

TightenedRows == {Published, Tightened}
SharedRows == {Published, Shared}

SubmissionSymmetry ==
  Permutations(Participations) \cup Permutations(Requests) \cup Permutations(Challenges)

=============================================================================
