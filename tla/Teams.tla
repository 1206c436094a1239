------------------------------- MODULE Teams -------------------------------
(***************************************************************************)
(* Teams, their captains and invitations, and their participation in       *)
(* contests.                                                               *)
(*                                                                         *)
(* Commands find their team by an unlocked read, then lock its row, look   *)
(* again and act: between the two the user may have moved, the captain may *)
(* have changed, the invitation may be revoked and the team locked by an   *)
(* accepted participation.  A contest's phase is judged by the time at     *)
(* which the transaction began.                                            *)
(***************************************************************************)
EXTENDS Integers, FiniteSets

CONSTANTS
  Users,
  TeamIds,
  Contests,
  NoUser,
  MinSize,       \* contests.min_team_size
  MaxSize,       \* contests.max_team_size
  MaxInvitation, \* bound: invitations of one team
  MaxCalls       \* bound: commands between their first read and their lock

ASSUME TeamsAssumption ==
  /\ MinSize \in [Contests -> Nat] /\ MaxSize \in [Contests -> Nat]
  /\ MaxInvitation \in Nat \ {0} /\ MaxCalls \in Nat
  /\ NoUser \notin Users
  /\ IsFiniteSet(Users)

VARIABLES
  members,     \* team_members by team
  captains,    \* those with role = 'captain'
  invitation,  \* the current generation of team_invites, 0 before the team is created
  enrolment,   \* participations.status by team and contest
  contest,     \* contests.publication_status, registration_strategy = 'auto_accept',
               \* and whether end_at has passed
  eligible,    \* users that are active, verified and keep no initial password
  calls,       \* commands that have found their team
  rosters      \* history: members and captains when a participation was accepted,
               \* with the corrections of an administrator since

teamVars == <<members, captains, invitation>>
participationVars == <<enrolment, rosters>>
settingVars == <<contest, eligible>>
teamsVars == <<teamVars, participationVars, settingVars, calls>>

-----------------------------------------------------------------------------

Enrolments == {"absent", "pending", "accepted", "rejected", "withdrawn"}
Commands == {"join", "leave", "remove", "rotate", "transfer", "register", "withdraw"}

\* ended: the contests that were over when the transaction began.
Calls == [command : Commands, actor : Users, team : TeamIds,
          target : Users \cup {NoUser}, invitation : Nat,
          contests : SUBSET Contests, ended : SUBSET Contests]

Roster == [members : SUBSET Users, captains : SUBSET Users]
NoRoster == [members |-> {}, captains |-> {}]

\* Tables, commands under way and recorded rosters are of their types; who takes
\* part is a team that has been created, in a contest that has been published.
TeamsTypeOK ==
  /\ members \in [TeamIds -> SUBSET Users]
  /\ captains \in [TeamIds -> SUBSET Users]
  /\ invitation \in [TeamIds -> 0..MaxInvitation]
  /\ enrolment \in [TeamIds \X Contests -> Enrolments]
  /\ contest \in [Contests -> [status : {"draft", "published", "archived"},
                               autoAccept : BOOLEAN, ended : BOOLEAN]]
  /\ eligible \in [Users -> BOOLEAN]
  /\ calls \subseteq Calls
  /\ rosters \in [TeamIds \X Contests -> Roster]
  /\ \A t \in TeamIds, c \in Contests :
       enrolment[<<t, c>>] # "absent" => invitation[t] > 0 /\ contest[c].status # "draft"

TeamsInit ==
  /\ members = [t \in TeamIds |-> {}]
  /\ captains = [t \in TeamIds |-> {}]
  /\ invitation = [t \in TeamIds |-> 0]
  /\ enrolment = [e \in TeamIds \X Contests |-> "absent"]
  /\ contest \in [Contests -> [status : {"draft"}, autoAccept : BOOLEAN, ended : {FALSE}]]
  /\ eligible = [u \in Users |-> TRUE]
  /\ calls = {}
  /\ rosters = [e \in TeamIds \X Contests |-> NoRoster]

Ended == {c \in Contests : contest[c].ended}
InNoTeam(u) == \A t \in TeamIds : u \notin members[t]

-----------------------------------------------------------------------------
(***************************************************************************)
(* The first read of a command                                             *)
(***************************************************************************)

Targets(command) == IF command \in {"remove", "transfer"} THEN Users ELSE {NoUser}
About(command) == IF command \in {"register", "withdraw"} THEN {{c} : c \in Contests} ELSE {{}}

\* The commands that could begin now: the session's user may act, and the team is
\* the user's, or the one a current invitation is for.
Found ==
  UNION {{[command |-> command, actor |-> u, team |-> t, target |-> target,
           invitation |-> IF command = "join" THEN invitation[t] ELSE 0,
           contests |-> C, ended |-> Ended]
            : target \in Targets(command), C \in About(command)}
          : command \in Commands, u \in Users, t \in TeamIds}

CanBegin(k) ==
  /\ eligible[k.actor]
  /\ IF k.command = "join" THEN invitation[k.team] > 0 ELSE k.actor \in members[k.team]

Begin(k) ==
  /\ CanBegin(k) /\ Cardinality(calls) < MaxCalls
  /\ calls' = calls \cup {k}
  /\ UNCHANGED <<teamVars, participationVars, settingVars>>

\* The command is refused, or its transaction is aborted.
Abort(k) ==
  /\ k \in calls
  /\ calls' = calls \ {k}
  /\ UNCHANGED <<teamVars, participationVars, settingVars>>

\* A command takes the lock of its team: at once, or after others.
Locks(k) ==
  /\ k \in calls \/ CanBegin(k)
  /\ calls' = calls \ {k}
  /\ UNCHANGED settingVars

-----------------------------------------------------------------------------
(***************************************************************************)
(* Teams                                                                   *)
(***************************************************************************)

\* readLocks: accepted participations in contests not over, seen under the lock.
Unlocked(t, ended) ==
  \A c \in Contests : enrolment[<<t, c>>] = "accepted" => c \in ended

\* requireCaptain, under the lock.
ActsAsCaptain(k) == k.actor \in members[k.team] \cap captains[k.team]

Create(u, t) ==
  /\ eligible[u] /\ invitation[t] = 0
  /\ InNoTeam(u)
  /\ members' = [members EXCEPT ![t] = {u}]
  /\ captains' = [captains EXCEPT ![t] = {u}]
  /\ invitation' = [invitation EXCEPT ![t] = 1]
  /\ UNCHANGED <<participationVars, settingVars, calls>>

JoinByOldInvitation(k) ==
  /\ k.command = "join" /\ Locks(k)
  /\ Unlocked(k.team, k.ended)
  /\ InNoTeam(k.actor)
  /\ members' = [members EXCEPT ![k.team] = @ \cup {k.actor}]
  /\ UNCHANGED <<captains, invitation, participationVars>>

\* team_members_user_unique refuses a second team.
Join(k) ==
  /\ k.command = "join" /\ Locks(k)
  /\ Unlocked(k.team, k.ended)
  /\ k.invitation = invitation[k.team]
  /\ InNoTeam(k.actor)
  /\ members' = [members EXCEPT ![k.team] = @ \cup {k.actor}]
  /\ UNCHANGED <<captains, invitation, participationVars>>

LeaveLockedTeam(k) ==
  /\ k.command = "leave" /\ Locks(k)
  /\ k.actor \in members[k.team] \ captains[k.team]
  /\ members' = [members EXCEPT ![k.team] = @ \ {k.actor}]
  /\ UNCHANGED <<captains, invitation, participationVars>>

Leave(k) ==
  /\ k.command = "leave" /\ Locks(k)
  /\ Unlocked(k.team, k.ended)
  /\ k.actor \in members[k.team] \ captains[k.team]
  /\ members' = [members EXCEPT ![k.team] = @ \ {k.actor}]
  /\ UNCHANGED <<captains, invitation, participationVars>>

RemoveMember(k) ==
  /\ k.command = "remove" /\ Locks(k)
  /\ Unlocked(k.team, k.ended)
  /\ ActsAsCaptain(k)
  /\ k.target \in members[k.team] \ captains[k.team]
  /\ members' = [members EXCEPT ![k.team] = @ \ {k.target}]
  /\ UNCHANGED <<captains, invitation, participationVars>>

\* The only command of a captain that a locked team allows.
RotateInvite(k) ==
  /\ k.command = "rotate" /\ Locks(k)
  /\ ActsAsCaptain(k)
  /\ invitation[k.team] < MaxInvitation
  /\ invitation' = [invitation EXCEPT ![k.team] = @ + 1]
  /\ UNCHANGED <<members, captains, participationVars>>

TransferWithoutLooking(k) ==
  /\ k.command = "transfer" /\ Locks(k)
  /\ Unlocked(k.team, k.ended)
  /\ ActsAsCaptain(k)
  /\ k.target # k.actor
  /\ captains' = [captains EXCEPT ![k.team] = {k.target} \cap members[k.team]]
  /\ UNCHANGED <<members, invitation, participationVars>>

TransferCaptain(k) ==
  /\ k.command = "transfer" /\ Locks(k)
  /\ Unlocked(k.team, k.ended)
  /\ ActsAsCaptain(k)
  /\ k.target # k.actor /\ k.target \in members[k.team]
  /\ captains' = [captains EXCEPT ![k.team] = {k.target}]
  /\ UNCHANGED <<members, invitation, participationVars>>

\* correctMembership: an administrator, whatever locks the team.
Corrected(t) ==
  rosters' = [e \in TeamIds \X Contests |->
    IF e[1] = t /\ enrolment[e] = "accepted" /\ ~contest[e[2]].ended
    THEN [members |-> members'[t], captains |-> captains'[t]] ELSE rosters[e]]

AddMember(t, u) ==
  /\ invitation[t] > 0 /\ eligible[u] /\ InNoTeam(u)
  /\ members' = [members EXCEPT ![t] = @ \cup {u}]
  /\ UNCHANGED <<captains, invitation, enrolment, settingVars, calls>>
  /\ Corrected(t)

DropMember(t, u) ==
  /\ u \in members[t] \ captains[t]
  /\ members' = [members EXCEPT ![t] = @ \ {u}]
  /\ UNCHANGED <<captains, invitation, enrolment, settingVars, calls>>
  /\ Corrected(t)

AssignCaptain(t, u) ==
  /\ u \in members[t] \ captains[t]
  /\ captains' = [captains EXCEPT ![t] = {u}]
  /\ UNCHANGED <<members, invitation, enrolment, settingVars, calls>>
  /\ Corrected(t)

-----------------------------------------------------------------------------
(***************************************************************************)
(* Participations                                                          *)
(***************************************************************************)

\* validateTeamEligibility
Fits(t, c) ==
  /\ Cardinality(members[t]) \in MinSize[c]..MaxSize[c]
  /\ \A u \in members[t] : eligible[u]

OpenUntilTheEnd(c, ended) == c \notin ended

RegistrationOpen(c, ended) == contest[c].status = "published" /\ c \notin ended

SetEnrolment(t, c, status) ==
  /\ enrolment' = [enrolment EXCEPT ![<<t, c>>] = status]
  /\ rosters' = IF status = "accepted" /\ ~contest[c].ended
                THEN [rosters EXCEPT ![<<t, c>>] =
                        [members |-> members[t], captains |-> captains[t]]]
                ELSE rosters
  /\ UNCHANGED teamVars

Register(k) ==
  \E c \in k.contests :
    /\ k.command = "register" /\ Locks(k)
    /\ k.actor \in members[k.team]
    /\ RegistrationOpen(c, k.ended) /\ Fits(k.team, c)
    /\ enrolment[<<k.team, c>>] \in {"absent", "withdrawn"}
    /\ SetEnrolment(k.team, c, IF contest[c].autoAccept THEN "accepted" ELSE "pending")

Withdraw(k) ==
  \E c \in k.contests :
    /\ k.command = "withdraw" /\ Locks(k)
    /\ k.actor \in members[k.team]
    /\ enrolment[<<k.team, c>>] \in {"pending", "rejected"}
    /\ SetEnrolment(k.team, c, "withdrawn")

AcceptAsRegistered(t, c, decision, ended) ==
  /\ enrolment[<<t, c>>] = "pending"
  /\ decision = "accepted" => RegistrationOpen(c, ended)
  /\ SetEnrolment(t, c, decision)
  /\ UNCHANGED <<settingVars, calls>>

\* A review may have begun before the contest ended.
Review(t, c, decision, ended) ==
  /\ enrolment[<<t, c>>] = "pending"
  /\ decision = "accepted" => RegistrationOpen(c, ended) /\ Fits(t, c)
  /\ SetEnrolment(t, c, decision)
  /\ UNCHANGED <<settingVars, calls>>

\* publish, archive, and the end of the contest.  The settings of a published
\* contest do not change.  A roster is kept until the end.
ContestMoves(c) ==
  /\ \/ contest[c].status = "draft" /\ contest' = [contest EXCEPT ![c].status = "published"]
     \/ /\ contest[c].status = "published" /\ contest[c].ended
        /\ contest' = [contest EXCEPT ![c].status = "archived"]
     \/ /\ contest[c].status # "draft" /\ ~contest[c].ended
        /\ contest' = [contest EXCEPT ![c].ended = TRUE]
  /\ rosters' = [e \in TeamIds \X Contests |->
                   IF e[2] = c /\ contest'[c].ended THEN NoRoster ELSE rosters[e]]
  /\ UNCHANGED <<teamVars, enrolment, eligible, calls>>

\* A user is banned or reinstated, changes or verifies the address, or is made to
\* change the password; no team is locked for that.
UserChanges(u) ==
  /\ eligible' = [eligible EXCEPT ![u] = ~@]
  /\ UNCHANGED <<teamVars, participationVars, contest, calls>>

-----------------------------------------------------------------------------

TeamsNext ==
  \/ \E k \in Found :
       Begin(k)
  \/ \E k \in calls : Abort(k)
  \/ \E k \in calls \cup Found :
       \/ Join(k) \/ Leave(k) \/ RemoveMember(k) \/ RotateInvite(k) \/ TransferCaptain(k)
       \/ Register(k) \/ Withdraw(k)
  \/ \E t \in TeamIds, u \in Users :
       Create(u, t) \/ AddMember(t, u) \/ DropMember(t, u) \/ AssignCaptain(t, u)
  \/ \E t \in TeamIds, c \in Contests, d \in {"accepted", "rejected"} :
       Review(t, c, d, Ended) \/ Review(t, c, d, {})
  \/ \E c \in Contests : ContestMoves(c)
  \/ \E u \in Users : UserChanges(u)

TeamsSpec == TeamsInit /\ [][TeamsNext]_teamsVars

-----------------------------------------------------------------------------
(***************************************************************************)
(* Properties                                                              *)
(***************************************************************************)

\* While a contest it was accepted to is not over, a team keeps the members and
\* the captain it was accepted with, unless an administrator corrects them: no
\* command that found the team before the acceptance gets through after it.
RosterHolds ==
  \A e \in TeamIds \X Contests :
    enrolment[e] = "accepted" /\ ~contest[e[2]].ended
      => rosters[e] = [members |-> members[e[1]], captains |-> captains[e[1]]]

\* Every team has exactly one captain, who is a member, and nobody is in two
\* teams, although joining, leaving, removing, transferring and correcting may
\* all have found the team as it was before the others.  The deferred trigger of
\* the table never has to object.
TeamsAreSound ==
  \A t \in TeamIds :
    /\ invitation[t] > 0 => Cardinality(captains[t]) = 1
    /\ captains[t] \subseteq members[t]
    /\ \A s \in TeamIds \ {t} : members[s] \cap members[t] = {}

\* A team is accepted as it stands at that moment, not as it was when it
\* registered: the size fits and every member is eligible.
AcceptancesFit ==
  \A e \in TeamIds \X Contests :
    enrolment[e] # "accepted" /\ enrolment'[e] = "accepted"
      => Fits(e[1], e[2]) /\ contest[e[2]].status = "published"

\* Who joins after waiting for the team's lock holds the invitation that is
\* current then, not one that was revoked meanwhile.
EntrancesAreInvited ==
  \A k \in calls \ calls' :
    k.command = "join" /\ k.actor \in members'[k.team] \ members[k.team]
      => k.invitation = invitation[k.team]

\* What a command found before it waited decides nothing: acceptances and
\* entrances are judged by the team and the invitation of the moment.
OldNewsDecidesNothing == [][AcceptancesFit /\ EntrancesAreInvited]_teamsVars

=============================================================================
