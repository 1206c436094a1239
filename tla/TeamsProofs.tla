---------------------------- MODULE TeamsProofs ----------------------------
(***************************************************************************)
(* Theorems about Teams for every value of its constants.                  *)
(***************************************************************************)
EXTENDS Teams, FiniteSetTheorems, TLAPS

-----------------------------------------------------------------------------
(* The inductive invariant *)

\* Nobody is in a team that has not been created.
MembersAreOfTeams == \A t \in TeamIds : members[t] # {} => invitation[t] > 0

\* What a command under way found is behind what is: a contest that was over is
\* over, and the team it is to join has been created.
CallsAreBehind ==
  \A k \in calls : /\ k.ended \subseteq Ended
                   /\ k.command = "join" => invitation[k.team] > 0

TeamInv ==
  /\ TeamsTypeOK /\ TeamsAreSound /\ RosterHolds
  /\ MembersAreOfTeams /\ CallsAreBehind

LEMMA CallFields ==
  ASSUME NEW k \in Calls
  PROVE  /\ k.command \in Commands /\ k.actor \in Users /\ k.team \in TeamIds
         /\ k.target \in Users \cup {NoUser} /\ k.invitation \in Nat
         /\ k.contests \subseteq Contests /\ k.ended \subseteq Contests
  BY DEF Calls

LEMMA FoundIsACall ==
  ASSUME TeamInv, NEW k \in Found
  PROVE  /\ k \in Calls /\ k.ended = Ended
         /\ k.command = "join" => k.invitation = invitation[k.team]
  <1>1. PICK command \in Commands, u \in Users, t \in TeamIds :
          \E target \in Targets(command), C \in About(command) :
            k = [command |-> command, actor |-> u, team |-> t, target |-> target,
                 invitation |-> IF command = "join" THEN invitation[t] ELSE 0,
                 contests |-> C, ended |-> Ended]
    BY DEF Found
  <1>2. PICK target \in Targets(command), C \in About(command) :
          k = [command |-> command, actor |-> u, team |-> t, target |-> target,
               invitation |-> IF command = "join" THEN invitation[t] ELSE 0,
               contests |-> C, ended |-> Ended]
    BY <1>1
  <1>3. target \in Users \cup {NoUser} /\ C \in SUBSET Contests /\ Ended \in SUBSET Contests
    BY DEF Targets, About, Ended
  <1>4. invitation[t] \in Nat
    BY TeamsAssumption DEF TeamInv, TeamsTypeOK
  <1> QED
    BY <1>2, <1>4, <1>3 DEF Calls

LEMMA LockedCall ==
  ASSUME TeamInv, NEW k \in calls \cup Found, Locks(k)
  PROVE  /\ k \in Calls /\ k.ended \subseteq Ended
         /\ k.command = "join" => invitation[k.team] > 0
         /\ calls' = calls \ {k} /\ UNCHANGED settingVars
  <1>1. CASE k \in calls
    BY <1>1 DEF Locks, TeamInv, TeamsTypeOK, CallsAreBehind
  <1>2. CASE k \in Found /\ CanBegin(k)
    BY <1>2, FoundIsACall DEF Locks, CanBegin
  <1> QED
    BY <1>1, <1>2 DEF Locks

\* Under the lock, a team that no accepted participation locks is bound by no roster.
LEMMA UnlockedIsFree ==
  ASSUME TeamInv, NEW t \in TeamIds, NEW ended, ended \subseteq Ended, Unlocked(t, ended),
         NEW c \in Contests, enrolment[<<t, c>>] = "accepted"
  PROVE  contest[c].ended
  BY DEF Unlocked, Ended

-----------------------------------------------------------------------------
(* Teams *)

\* The members and the captain of one team change: what has to hold for the team
\* to be sound, and either nothing binds it or its rosters are corrected.
LEMMA MembershipKeeps ==
  ASSUME TeamInv, NEW t \in TeamIds, NEW M \in SUBSET Users, NEW C \in SUBSET M,
         members' = [members EXCEPT ![t] = M], captains' = [captains EXCEPT ![t] = C],
         Cardinality(C) = 1,
         \A s \in TeamIds \ {t} : members[s] \cap M = {},
         invitation' \in [TeamIds -> 0..MaxInvitation], invitation'[t] > 0,
         \A s \in TeamIds \ {t} : invitation'[s] = invitation[s],
         calls' \subseteq calls, UNCHANGED <<enrolment, settingVars>>,
         \/ /\ UNCHANGED rosters
            /\ \A c \in Contests : enrolment[<<t, c>>] = "accepted" => contest[c].ended
         \/ Corrected(t)
  PROVE  TeamInv'
  <1> USE DEF settingVars
  <1>1. /\ members' \in [TeamIds -> SUBSET Users] /\ captains' \in [TeamIds -> SUBSET Users]
        /\ members'[t] = M /\ captains'[t] = C
        /\ \A s \in TeamIds \ {t} : members'[s] = members[s] /\ captains'[s] = captains[s]
    BY DEF TeamInv, TeamsTypeOK
  <1>2. rosters' \in [TeamIds \X Contests -> Roster]
    <2>1. [members |-> M, captains |-> C] \in Roster
      BY DEF Roster
    <2>2. CASE Corrected(t)
      BY <1>1, <2>1, <2>2 DEF Corrected, TeamInv, TeamsTypeOK
    <2>3. CASE UNCHANGED rosters
      BY <2>3 DEF TeamInv, TeamsTypeOK
    <2> QED
      BY <2>2, <2>3
  <1>3. TeamsTypeOK'
    BY <1>1, <1>2 DEF TeamInv, TeamsTypeOK
  <1>4. TeamsAreSound'
    BY <1>1 DEF TeamInv, TeamsAreSound
  <1>5. MembersAreOfTeams'
    BY <1>1 DEF TeamInv, MembersAreOfTeams
  <1>6. CallsAreBehind'
    BY CallFields DEF TeamInv, TeamsTypeOK, CallsAreBehind, Ended
  <1>7. RosterHolds'
    <2> SUFFICES ASSUME NEW e \in TeamIds \X Contests, enrolment[e] = "accepted",
                        ~contest[e[2]].ended
                 PROVE  rosters'[e] = [members |-> members'[e[1]], captains |-> captains'[e[1]]]
      BY DEF RosterHolds
    <2>1. rosters[e] = [members |-> members[e[1]], captains |-> captains[e[1]]]
      BY DEF TeamInv, RosterHolds
    <2>2. CASE Corrected(t)
      <3>1. CASE e[1] = t
        BY <2>2, <3>1 DEF Corrected
      <3>2. CASE e[1] # t
        BY <1>1, <2>1, <2>2, <3>2 DEF Corrected
      <3> QED
        BY <3>1, <3>2
    <2>3. CASE e[1] # t /\ UNCHANGED rosters
      BY <1>1, <2>1, <2>3
    <2>4. CASE e[1] = t /\ UNCHANGED rosters /\ ~Corrected(t)
      BY <2>4
    <2> QED
      BY <2>2, <2>3, <2>4
  <1> QED
    BY <1>3, <1>4, <1>5, <1>6, <1>7 DEF TeamInv

LEMMA TeamFacts ==
  ASSUME TeamInv, NEW t \in TeamIds
  PROVE  /\ members[t] \in SUBSET Users /\ captains[t] \in SUBSET members[t]
         /\ members = [members EXCEPT ![t] = members[t]]
         /\ captains = [captains EXCEPT ![t] = captains[t]]
         /\ invitation \in [TeamIds -> 0..MaxInvitation] /\ invitation[t] \in Nat
         /\ members[t] # {} => invitation[t] > 0
         /\ invitation[t] > 0 => Cardinality(captains[t]) = 1
         /\ \A s \in TeamIds \ {t} : members[s] \cap members[t] = {}
  BY TeamsAssumption DEF TeamInv, TeamsTypeOK, TeamsAreSound, MembersAreOfTeams

LEMMA EntryKeeps ==
  ASSUME TeamInv, NEW t \in TeamIds, NEW u \in Users, InNoTeam(u), invitation[t] > 0,
         members' = [members EXCEPT ![t] = @ \cup {u}],
         calls' \subseteq calls, UNCHANGED <<captains, invitation, enrolment, settingVars>>,
         \/ /\ UNCHANGED rosters
            /\ \A c \in Contests : enrolment[<<t, c>>] = "accepted" => contest[c].ended
         \/ Corrected(t)
  PROVE  TeamInv'
  <1> DEFINE M == members[t] \cup {u}
  <1>1. /\ M \in SUBSET Users /\ captains[t] \in SUBSET M
        /\ \A s \in TeamIds \ {t} : members[s] \cap M = {}
    <2>1. /\ members[t] \in SUBSET Users /\ captains[t] \in SUBSET members[t]
          /\ \A s \in TeamIds \ {t} : members[s] \cap members[t] = {}
      BY TeamFacts
    <2>2. \A s \in TeamIds : u \notin members[s]
      BY DEF InNoTeam
    <2> QED
      BY <2>1, <2>2
  <1>2. /\ members' = [members EXCEPT ![t] = M]
        /\ captains' = [captains EXCEPT ![t] = captains[t]]
        /\ Cardinality(captains[t]) = 1
        /\ invitation' \in [TeamIds -> 0..MaxInvitation] /\ invitation'[t] > 0
        /\ \A s \in TeamIds \ {t} : invitation'[s] = invitation[s]
    BY TeamFacts
  <1> HIDE DEF M
  <1> QED
    BY <1>1, <1>2, MembershipKeeps

LEMMA ExitKeeps ==
  ASSUME TeamInv, NEW t \in TeamIds, NEW u \in members[t] \ captains[t],
         members' = [members EXCEPT ![t] = @ \ {u}],
         calls' \subseteq calls, UNCHANGED <<captains, invitation, enrolment, settingVars>>,
         \/ /\ UNCHANGED rosters
            /\ \A c \in Contests : enrolment[<<t, c>>] = "accepted" => contest[c].ended
         \/ Corrected(t)
  PROVE  TeamInv'
  <1> DEFINE M == members[t] \ {u}
  <1>1. /\ M \in SUBSET Users /\ captains[t] \in SUBSET M
        /\ \A s \in TeamIds \ {t} : members[s] \cap M = {}
    BY TeamFacts
  <1>2. /\ members' = [members EXCEPT ![t] = M]
        /\ captains' = [captains EXCEPT ![t] = captains[t]]
        /\ Cardinality(captains[t]) = 1
        /\ invitation' \in [TeamIds -> 0..MaxInvitation] /\ invitation'[t] > 0
        /\ \A s \in TeamIds \ {t} : invitation'[s] = invitation[s]
    BY TeamFacts
  <1> HIDE DEF M
  <1> QED
    BY <1>1, <1>2, MembershipKeeps

LEMMA CaptainKeeps ==
  ASSUME TeamInv, NEW t \in TeamIds, NEW u \in members[t],
         captains' = [captains EXCEPT ![t] = {u}],
         calls' \subseteq calls, UNCHANGED <<members, invitation, enrolment, settingVars>>,
         \/ /\ UNCHANGED rosters
            /\ \A c \in Contests : enrolment[<<t, c>>] = "accepted" => contest[c].ended
         \/ Corrected(t)
  PROVE  TeamInv'
  <1> DEFINE C == {u}
  <1>1. C \in SUBSET members[t] /\ Cardinality(C) = 1
    BY FS_Singleton
  <1>2. /\ members[t] \in SUBSET Users /\ members' = [members EXCEPT ![t] = members[t]]
        /\ captains' = [captains EXCEPT ![t] = C]
        /\ \A s \in TeamIds \ {t} : members[s] \cap members[t] = {}
        /\ invitation' \in [TeamIds -> 0..MaxInvitation] /\ invitation'[t] > 0
        /\ \A s \in TeamIds \ {t} : invitation'[s] = invitation[s]
    BY TeamFacts
  <1> HIDE DEF C
  <1> QED
    BY <1>1, <1>2, MembershipKeeps

LEMMA CreateKeeps ==
  ASSUME TeamInv, NEW t \in TeamIds, NEW u \in Users, Create(u, t)
  PROVE  TeamInv'
  <1> DEFINE M == {u}
  <1>1. M \in SUBSET Users /\ M \in SUBSET M /\ Cardinality(M) = 1
    BY FS_Singleton
  <1>2. /\ members' = [members EXCEPT ![t] = M] /\ captains' = [captains EXCEPT ![t] = M]
        /\ \A s \in TeamIds \ {t} : members[s] \cap M = {}
        /\ UNCHANGED <<enrolment, settingVars, rosters>> /\ calls' \subseteq calls
    BY DEF Create, InNoTeam, participationVars
  <1>3. /\ invitation' \in [TeamIds -> 0..MaxInvitation] /\ invitation'[t] > 0
        /\ \A s \in TeamIds \ {t} : invitation'[s] = invitation[s]
    <2>1. /\ invitation \in [TeamIds -> 0..MaxInvitation] /\ MaxInvitation \in Nat \ {0}
          /\ invitation' = [invitation EXCEPT ![t] = 1]
      BY TeamFacts, TeamsAssumption DEF Create
    <2> QED
      BY <2>1
  <1>4. \A c \in Contests : enrolment[<<t, c>>] # "accepted"
    <2>1. invitation[t] = 0
      BY DEF Create
    <2>2. \A c \in Contests : enrolment[<<t, c>>] # "absent" => invitation[t] > 0
      BY DEF TeamInv, TeamsTypeOK
    <2> QED
      BY <2>1, <2>2
  <1> HIDE DEF M
  <1> QED
    BY <1>1, <1>2, <1>3, <1>4, MembershipKeeps

LEMMA RotateKeeps ==
  ASSUME TeamInv, NEW k \in calls \cup Found, RotateInvite(k)
  PROVE  TeamInv'
  <1>1. /\ k \in Calls /\ k.team \in TeamIds /\ calls' \subseteq calls
        /\ invitation' = [invitation EXCEPT ![k.team] = @ + 1]
        /\ invitation[k.team] < MaxInvitation /\ invitation[k.team] > 0
        /\ UNCHANGED <<members, captains, participationVars, settingVars>>
    BY LockedCall, CallFields, TeamFacts DEF RotateInvite, ActsAsCaptain
  <1>2. /\ invitation' \in [TeamIds -> 0..MaxInvitation]
        /\ \A t \in TeamIds : invitation'[t] > 0 <=> invitation[t] > 0
    BY <1>1, TeamsAssumption DEF TeamInv, TeamsTypeOK
  <1>3. TeamsTypeOK'
    BY <1>1, <1>2 DEF TeamInv, TeamsTypeOK, participationVars, settingVars
  <1>4. TeamsAreSound' /\ RosterHolds' /\ MembersAreOfTeams'
    BY <1>1, <1>2
    DEF TeamInv, TeamsAreSound, RosterHolds, MembersAreOfTeams, participationVars, settingVars
  <1>5. CallsAreBehind'
    BY <1>1, <1>2, CallFields DEF TeamInv, TeamsTypeOK, CallsAreBehind, Ended, settingVars
  <1> QED
    BY <1>3, <1>4, <1>5 DEF TeamInv

LEMMA MembershipCommandKeeps ==
  ASSUME TeamInv, NEW k \in calls \cup Found,
         Join(k) \/ Leave(k) \/ RemoveMember(k) \/ TransferCaptain(k)
  PROVE  TeamInv'
  <1>1. /\ k \in Calls /\ k.team \in TeamIds /\ k.actor \in Users /\ calls' \subseteq calls
        /\ k.command = "join" => invitation[k.team] > 0
        /\ UNCHANGED <<participationVars, settingVars, invitation>>
        /\ k.ended \subseteq Ended /\ Unlocked(k.team, k.ended)
    BY LockedCall, CallFields DEF Join, Leave, RemoveMember, TransferCaptain
  <1>2. /\ UNCHANGED <<rosters, enrolment, invitation, settingVars>>
        /\ \A c \in Contests : enrolment[<<k.team, c>>] = "accepted" => contest[c].ended
    BY <1>1, UnlockedIsFree DEF participationVars
  <1>3. CASE Join(k)
    BY <1>1, <1>2, <1>3, EntryKeeps DEF Join
  <1>4. CASE Leave(k)
    BY <1>1, <1>2, <1>4, ExitKeeps DEF Leave
  <1>5. CASE RemoveMember(k)
    BY <1>1, <1>2, <1>5, ExitKeeps DEF RemoveMember
  <1>6. CASE TransferCaptain(k)
    BY <1>1, <1>2, <1>6, CaptainKeeps DEF TransferCaptain
  <1> QED
    BY <1>3, <1>4, <1>5, <1>6

LEMMA CorrectionKeeps ==
  ASSUME TeamInv, NEW t \in TeamIds, NEW u \in Users,
         AddMember(t, u) \/ DropMember(t, u) \/ AssignCaptain(t, u)
  PROVE  TeamInv'
  <1>1. CASE AddMember(t, u)
    BY <1>1, EntryKeeps DEF AddMember
  <1>2. CASE DropMember(t, u)
    BY <1>2, ExitKeeps DEF DropMember
  <1>3. CASE AssignCaptain(t, u)
    BY <1>3, CaptainKeeps DEF AssignCaptain
  <1> QED
    BY <1>1, <1>2, <1>3

-----------------------------------------------------------------------------
(* Participations *)

\* A participation takes a status: an accepted one records the roster it binds.
LEMMA EnrolmentKeeps ==
  ASSUME TeamInv, NEW t \in TeamIds, NEW c \in Contests, NEW status \in Enrolments,
         invitation[t] > 0, contest[c].status # "draft",
         SetEnrolment(t, c, status), calls' \subseteq calls, UNCHANGED settingVars
  PROVE  TeamInv'
  <1> DEFINE e == <<t, c>>
             now == [members |-> members[t], captains |-> captains[t]]
  <1>1. /\ e \in TeamIds \X Contests /\ e[1] = t /\ e[2] = c
        /\ enrolment \in [TeamIds \X Contests -> Enrolments]
        /\ rosters \in [TeamIds \X Contests -> Roster]
    BY DEF TeamInv, TeamsTypeOK
  <1>2. now \in Roster
    BY TeamFacts DEF Roster
  <1>3. /\ enrolment' = [enrolment EXCEPT ![e] = status]
        /\ rosters' = IF status = "accepted" /\ ~contest[c].ended
                      THEN [rosters EXCEPT ![e] = now] ELSE rosters
        /\ UNCHANGED <<members, captains, invitation, contest, eligible>>
    BY DEF SetEnrolment, teamVars, settingVars
  <1>4. now = [members |-> members[e[1]], captains |-> captains[e[1]]]
    BY <1>1
  <1> HIDE DEF now, e
  <1>5. /\ enrolment' \in [TeamIds \X Contests -> Enrolments]
        /\ rosters' \in [TeamIds \X Contests -> Roster]
        /\ enrolment'[e] = status
        /\ status = "accepted" /\ ~contest[c].ended => rosters'[e] = now
        /\ \A d \in TeamIds \X Contests :
             d # e => enrolment'[d] = enrolment[d] /\ rosters'[d] = rosters[d]
    BY <1>1, <1>2, <1>3
  <1>6. TeamsTypeOK'
    <2>1. \A s \in TeamIds, d \in Contests :
            enrolment'[<<s, d>>] # "absent" => invitation[s] > 0 /\ contest[d].status # "draft"
      <3> SUFFICES ASSUME NEW s \in TeamIds, NEW d \in Contests, enrolment'[<<s, d>>] # "absent"
                   PROVE  invitation[s] > 0 /\ contest[d].status # "draft"
        OBVIOUS
      <3>1. CASE s = t /\ d = c
        BY <3>1
      <3>2. CASE <<s, d>> # e
        <4>1. enrolment[<<s, d>>] # "absent"
          BY <1>5, <3>2
        <4> QED
          BY <4>1 DEF TeamInv, TeamsTypeOK
      <3> QED
        BY <3>1, <3>2 DEF e
    <2> QED
      BY <1>3, <1>5, <2>1 DEF TeamInv, TeamsTypeOK
  <1>7. TeamsAreSound' /\ MembersAreOfTeams'
    BY <1>3 DEF TeamInv, TeamsAreSound, MembersAreOfTeams
  <1>8. CallsAreBehind'
    BY <1>3 DEF TeamInv, CallsAreBehind, Ended
  <1>9. RosterHolds'
    <2> SUFFICES ASSUME NEW d \in TeamIds \X Contests, enrolment'[d] = "accepted",
                        ~contest[d[2]].ended
                 PROVE  rosters'[d] = [members |-> members[d[1]], captains |-> captains[d[1]]]
      BY <1>3 DEF RosterHolds
    <2>1. CASE d = e
      BY <1>1, <1>4, <1>5, <2>1
    <2>2. CASE d # e
      BY <1>5, <2>2 DEF TeamInv, RosterHolds
    <2> QED
      BY <2>1, <2>2
  <1> QED
    BY <1>6, <1>7, <1>8, <1>9 DEF TeamInv

LEMMA ParticipationCommandKeeps ==
  ASSUME TeamInv, NEW k \in calls \cup Found, Register(k) \/ Withdraw(k)
  PROVE  TeamInv'
  <1>1. /\ k \in Calls /\ k.team \in TeamIds /\ k.contests \subseteq Contests
        /\ calls' \subseteq calls /\ UNCHANGED settingVars
        /\ invitation[k.team] > 0
    BY LockedCall, CallFields, TeamFacts DEF Register, Withdraw
  <1>2. CASE Register(k)
    <2>1. PICK c \in k.contests :
            /\ contest[c].status = "published"
            /\ SetEnrolment(k.team, c, IF contest[c].autoAccept THEN "accepted" ELSE "pending")
      BY <1>2 DEF Register, RegistrationOpen
    <2>2. contest[c].status # "draft" /\ c \in Contests
          /\ (IF contest[c].autoAccept THEN "accepted" ELSE "pending") \in Enrolments
      BY <1>1, <2>1 DEF Enrolments
    <2> QED
      BY <1>1, <2>1, <2>2, EnrolmentKeeps
  <1>3. CASE Withdraw(k)
    <2>1. PICK c \in k.contests : /\ enrolment[<<k.team, c>>] \in {"pending", "rejected"}
                                  /\ SetEnrolment(k.team, c, "withdrawn")
      BY <1>3 DEF Withdraw
    <2>2. contest[c].status # "draft" /\ c \in Contests /\ "withdrawn" \in Enrolments
      BY <1>1, <2>1 DEF TeamInv, TeamsTypeOK, Enrolments
    <2> QED
      BY <1>1, <2>1, <2>2, EnrolmentKeeps
  <1> QED
    BY <1>2, <1>3

LEMMA ReviewKeeps ==
  ASSUME TeamInv, NEW t \in TeamIds, NEW c \in Contests, NEW d \in {"accepted", "rejected"},
         NEW ended, Review(t, c, d, ended)
  PROVE  TeamInv'
  <1>1. enrolment[<<t, c>>] = "pending" /\ SetEnrolment(t, c, d) /\ UNCHANGED <<settingVars, calls>>
    BY DEF Review
  <1>2. invitation[t] > 0 /\ contest[c].status # "draft"
    BY <1>1 DEF TeamInv, TeamsTypeOK
  <1>3. d \in Enrolments /\ calls' \subseteq calls
    BY <1>1 DEF Enrolments
  <1> QED
    BY <1>1, <1>2, <1>3, EnrolmentKeeps

-----------------------------------------------------------------------------
(* The others *)

LEMMA ContestMovesKeeps ==
  ASSUME TeamInv, NEW c \in Contests, ContestMoves(c)
  PROVE  TeamInv'
  <1> DEFINE S == [status : {"draft", "published", "archived"}, autoAccept : BOOLEAN,
                   ended : BOOLEAN]
  <1>1. contest \in [Contests -> S] /\ contest[c] \in S
    BY DEF TeamInv, TeamsTypeOK
  <1>2. PICK s \in S :
          /\ contest' = [contest EXCEPT ![c] = s]
          /\ s.status # "draft" /\ (contest[c].ended => s.ended)
    <2>1. CASE contest[c].status = "draft" /\ contest' = [contest EXCEPT ![c].status = "published"]
      BY <1>1, <2>1, [contest[c] EXCEPT !.status = "published"] \in S
    <2>2. CASE contest[c].status = "published" /\ contest' = [contest EXCEPT ![c].status = "archived"]
      BY <1>1, <2>2, [contest[c] EXCEPT !.status = "archived"] \in S
    <2>3. CASE contest[c].status # "draft" /\ contest' = [contest EXCEPT ![c].ended = TRUE]
      BY <1>1, <2>3, [contest[c] EXCEPT !.ended = TRUE] \in S
    <2> QED
      BY <2>1, <2>2, <2>3 DEF ContestMoves
  <1>3. /\ contest' \in [Contests -> S]
        /\ \A d \in Contests : /\ contest'[d].status = "draft" => contest[d].status = "draft"
                               /\ contest[d].ended => contest'[d].ended
                               /\ d # c => contest'[d] = contest[d]
    BY <1>1, <1>2
  <1>4. /\ rosters' = [e \in TeamIds \X Contests |->
                         IF e[2] = c /\ contest'[c].ended THEN NoRoster ELSE rosters[e]]
        /\ UNCHANGED <<members, captains, invitation, enrolment, eligible, calls>>
    BY DEF ContestMoves, teamVars
  <1>5. TeamsTypeOK'
    <2>1. NoRoster \in Roster
      BY DEF NoRoster, Roster
    <2>2. rosters' \in [TeamIds \X Contests -> Roster]
      BY <1>4, <2>1 DEF TeamInv, TeamsTypeOK
    <2> QED
      BY <1>3, <1>4, <2>2 DEF TeamInv, TeamsTypeOK
  <1>6. TeamsAreSound' /\ MembersAreOfTeams'
    BY <1>4 DEF TeamInv, TeamsAreSound, MembersAreOfTeams
  <1>7. CallsAreBehind'
    BY <1>3, <1>4 DEF TeamInv, CallsAreBehind, Ended
  <1>8. RosterHolds'
    <2> SUFFICES ASSUME NEW e \in TeamIds \X Contests, enrolment[e] = "accepted",
                        ~contest'[e[2]].ended
                 PROVE  rosters'[e] = [members |-> members[e[1]], captains |-> captains[e[1]]]
      BY <1>4 DEF RosterHolds
    <2>1. ~contest[e[2]].ended /\ rosters'[e] = rosters[e]
      BY <1>3, <1>4
    <2> QED
      BY <2>1 DEF TeamInv, RosterHolds
  <1> QED
    BY <1>5, <1>6, <1>7, <1>8 DEF TeamInv

LEMMA UserChangesKeeps ==
  ASSUME TeamInv, NEW u \in Users, UserChanges(u)
  PROVE  TeamInv'
  <1>1. UNCHANGED <<members, captains, invitation, enrolment, rosters, contest, calls>>
    BY DEF UserChanges, teamVars, participationVars
  <1>2. TeamsTypeOK'
    BY <1>1 DEF UserChanges, TeamInv, TeamsTypeOK
  <1> QED
    BY <1>1, <1>2 DEF TeamInv, TeamsAreSound, RosterHolds, MembersAreOfTeams, CallsAreBehind, Ended

LEMMA CallsKeep ==
  ASSUME TeamInv, (\E k \in Found : Begin(k)) \/ (\E k \in calls : Abort(k))
  PROVE  TeamInv'
  <1>1. UNCHANGED <<members, captains, invitation, enrolment, rosters, contest, eligible>>
    BY DEF Begin, Abort, teamVars, participationVars, settingVars
  <1>2. \A k \in calls' : /\ k \in Calls /\ k.ended \subseteq Ended
                          /\ k.command = "join" => invitation[k.team] > 0
    <2>1. ASSUME NEW b \in Found, Begin(b), NEW k \in calls'
          PROVE  /\ k \in Calls /\ k.ended \subseteq Ended
                 /\ k.command = "join" => invitation[k.team] > 0
      BY <2>1, FoundIsACall DEF Begin, CanBegin, TeamInv, TeamsTypeOK, CallsAreBehind
    <2>2. ASSUME NEW b \in calls, Abort(b), NEW k \in calls'
          PROVE  /\ k \in Calls /\ k.ended \subseteq Ended
                 /\ k.command = "join" => invitation[k.team] > 0
      BY <2>2 DEF Abort, TeamInv, TeamsTypeOK, CallsAreBehind
    <2> QED
      BY <2>1, <2>2
  <1>3. TeamsTypeOK'
    BY <1>1, <1>2 DEF TeamInv, TeamsTypeOK
  <1>4. CallsAreBehind'
    BY <1>1, <1>2 DEF CallsAreBehind, Ended
  <1> QED
    BY <1>1, <1>3, <1>4 DEF TeamInv, TeamsAreSound, RosterHolds, MembersAreOfTeams

-----------------------------------------------------------------------------
(* The specification *)

LEMMA TeamsStepKeeps ==
  ASSUME TeamInv, [TeamsNext]_teamsVars
  PROVE  TeamInv'
  <1>1. CASE UNCHANGED teamsVars
    BY <1>1 DEF teamsVars, teamVars, participationVars, settingVars, TeamInv, TeamsTypeOK,
                TeamsAreSound, RosterHolds, MembersAreOfTeams, CallsAreBehind, Ended
  <1>2. CASE (\E k \in Found : Begin(k)) \/ (\E k \in calls : Abort(k))
    BY <1>2, CallsKeep
  <1>3. ASSUME NEW k \in calls \cup Found,
               \/ Join(k) \/ Leave(k) \/ RemoveMember(k) \/ RotateInvite(k) \/ TransferCaptain(k)
               \/ Register(k) \/ Withdraw(k)
        PROVE  TeamInv'
    BY <1>3, MembershipCommandKeeps, RotateKeeps, ParticipationCommandKeeps
  <1>4. ASSUME NEW t \in TeamIds, NEW u \in Users,
               Create(u, t) \/ AddMember(t, u) \/ DropMember(t, u) \/ AssignCaptain(t, u)
        PROVE  TeamInv'
    BY <1>4, CreateKeeps, CorrectionKeeps
  <1>5. ASSUME NEW t \in TeamIds, NEW c \in Contests, NEW d \in {"accepted", "rejected"},
               Review(t, c, d, Ended) \/ Review(t, c, d, {})
        PROVE  TeamInv'
    BY <1>5, ReviewKeeps
  <1>6. ASSUME NEW c \in Contests, ContestMoves(c)
        PROVE  TeamInv'
    BY <1>6, ContestMovesKeeps
  <1>7. ASSUME NEW u \in Users, UserChanges(u)
        PROVE  TeamInv'
    BY <1>7, UserChangesKeeps
  <1> QED
    BY <1>1, <1>2, <1>3, <1>4, <1>5, <1>6, <1>7 DEF TeamsNext

LEMMA TeamsInitKeeps == TeamsInit => TeamInv
  <1> SUFFICES ASSUME TeamsInit
               PROVE  TeamInv
    OBVIOUS
  <1>1. NoRoster \in Roster /\ "absent" \in Enrolments
    BY DEF NoRoster, Roster, Enrolments
  <1>2. contest \in [Contests -> [status : {"draft", "published", "archived"},
                                  autoAccept : BOOLEAN, ended : BOOLEAN]]
    BY DEF TeamsInit
  <1>3. TeamsTypeOK
    BY <1>1, <1>2, TeamsAssumption DEF TeamsInit, TeamsTypeOK
  <1>4. TeamsAreSound /\ RosterHolds /\ MembersAreOfTeams /\ CallsAreBehind
    BY DEF TeamsInit, TeamsAreSound, RosterHolds, MembersAreOfTeams, CallsAreBehind
  <1> QED
    BY <1>3, <1>4 DEF TeamInv

LEMMA TeamInvariant == TeamsSpec => []TeamInv
  BY TeamsInitKeeps, TeamsStepKeeps, PTL DEF TeamsSpec

\* The tables keep their types, and only a team that has been created takes part,
\* in a contest that has been published, for any users, teams, contests and sizes.
THEOREM TeamsTyped == TeamsSpec => []TeamsTypeOK
  BY TeamInvariant, PTL DEF TeamInv

\* However many commands found the team as it was before the others, every team
\* keeps one captain, who is a member, and nobody comes to be in two teams.
THEOREM TeamsStaySound == TeamsSpec => []TeamsAreSound
  BY TeamInvariant, PTL DEF TeamInv

\* An accepted team keeps its members and captain until the contest is over, unless
\* an administrator corrects them: what a waiting command saw of the contest's end
\* was true then and is true now, so it cannot pass the lock the acceptance set.
THEOREM RostersStayAccepted == TeamsSpec => []RosterHolds
  BY TeamInvariant, PTL DEF TeamInv

LEMMA AcceptancesAreJudged ==
  ASSUME TeamInv, TeamsNext
  PROVE  AcceptancesFit
  <1> SUFFICES ASSUME NEW e \in TeamIds \X Contests, enrolment[e] # "accepted",
                      enrolment'[e] = "accepted"
               PROVE  Fits(e[1], e[2]) /\ contest[e[2]].status = "published"
    BY DEF AcceptancesFit
  <1>1. ASSUME NEW t \in TeamIds, NEW c \in Contests, NEW status, SetEnrolment(t, c, status)
        PROVE  e[1] = t /\ e[2] = c /\ status = "accepted"
    BY <1>1 DEF SetEnrolment, TeamInv, TeamsTypeOK
  <1>2. ASSUME NEW k \in calls \cup Found, Register(k)
        PROVE  Fits(e[1], e[2]) /\ contest[e[2]].status = "published"
    <2>1. k.team \in TeamIds /\ k.contests \subseteq Contests
      BY <1>2, LockedCall, CallFields DEF Register
    <2>2. PICK c \in k.contests :
            /\ contest[c].status = "published" /\ Fits(k.team, c)
            /\ SetEnrolment(k.team, c, IF contest[c].autoAccept THEN "accepted" ELSE "pending")
      BY <1>2 DEF Register, RegistrationOpen
    <2>3. e[1] = k.team /\ e[2] = c
      BY <1>1, <2>1, <2>2
    <2> QED
      BY <2>2, <2>3
  <1>3. ASSUME NEW k \in calls \cup Found, Withdraw(k)
        PROVE  FALSE
    <2>1. k.team \in TeamIds /\ k.contests \subseteq Contests
      BY <1>3, LockedCall, CallFields DEF Withdraw
    <2> QED
      BY <1>1, <1>3, <2>1 DEF Withdraw
  <1>4. ASSUME NEW t \in TeamIds, NEW c \in Contests, NEW d, NEW ended, Review(t, c, d, ended)
        PROVE  Fits(e[1], e[2]) /\ contest[e[2]].status = "published"
    BY <1>1, <1>4 DEF Review, RegistrationOpen
  <1>5. CASE UNCHANGED enrolment
    BY <1>5
  <1>6. \/ UNCHANGED enrolment
        \/ \E k \in calls \cup Found : Register(k) \/ Withdraw(k)
        \/ \E t \in TeamIds, c \in Contests, d \in {"accepted", "rejected"} :
             Review(t, c, d, Ended) \/ Review(t, c, d, {})
    BY DEF TeamsNext, Begin, Abort, Join, Leave, RemoveMember, RotateInvite, TransferCaptain,
           Create, AddMember, DropMember, AssignCaptain, ContestMoves, UserChanges,
           participationVars
  <1> QED
    BY <1>2, <1>3, <1>4, <1>5, <1>6

LEMMA EntrancesAreJudged ==
  ASSUME TeamInv, TeamsNext
  PROVE  EntrancesAreInvited
  <1> SUFFICES ASSUME NEW k \in calls, k \notin calls', k.command = "join",
                      k.actor \in members'[k.team] \ members[k.team]
               PROVE  k.invitation = invitation[k.team]
    BY DEF EntrancesAreInvited
  <1>1. ASSUME NEW j \in calls \cup Found, calls' = calls \ {j}
        PROVE  j = k
    BY <1>1
  <1>2. ASSUME NEW j \in calls \cup Found, Join(j)
        PROVE  k.invitation = invitation[k.team]
    BY <1>1, <1>2 DEF Join, Locks
  <1>3. ASSUME NEW j \in calls \cup Found,
               \/ Leave(j) \/ RemoveMember(j) \/ RotateInvite(j) \/ TransferCaptain(j)
               \/ Register(j) \/ Withdraw(j)
        PROVE  FALSE
    BY <1>1, <1>3
    DEF Leave, RemoveMember, RotateInvite, TransferCaptain, Register, Withdraw, Locks
  <1>4. ~UNCHANGED calls /\ ~UNCHANGED members
    OBVIOUS
  <1>5. \E j \in calls \cup Found :
          \/ Join(j) \/ Leave(j) \/ RemoveMember(j) \/ RotateInvite(j) \/ TransferCaptain(j)
          \/ Register(j) \/ Withdraw(j)
    BY <1>4 DEF TeamsNext, Begin, Abort, Create, AddMember, DropMember, AssignCaptain, Review,
                ContestMoves, UserChanges, teamVars
  <1> QED
    BY <1>2, <1>3, <1>5

\* Acceptances and entrances are judged by the team and the invitation of the
\* moment, whatever the command found before it waited for the lock.
THEOREM DecisionsAreCurrent == TeamsSpec => OldNewsDecidesNothing
  <1>1. TeamInv /\ [TeamsNext]_teamsVars => [AcceptancesFit /\ EntrancesAreInvited]_teamsVars
    BY AcceptancesAreJudged, EntrancesAreJudged
  <1> QED
    BY <1>1, TeamInvariant, PTL DEF TeamsSpec, OldNewsDecidesNothing

=============================================================================
