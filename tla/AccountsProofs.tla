----------------------------- MODULE AccountsProofs -----------------------------
(***************************************************************************)
(* Theorems about Accounts for every value of its constants.               *)
(***************************************************************************)
EXTENDS Accounts, TLAPS

-----------------------------------------------------------------------------
(* The inductive invariant *)

\* What a version and the password proved for it say together: no version is
\* ahead of the account, and the present one was obtained with the present
\* password.
Knows(version, password, late) ==
  /\ version <= user.version
  /\ version = user.version /\ ~late => password = hash.password

SessionsKnow == \A s \in sessions : Knows(s.version, s.password, s.late)

\* Requests carry what they read: a login the hash and the version, a change of
\* address its session.
RequestsKnow ==
  \A r \in requests :
    /\ r.kind = "login" => Knows(r.version, r.hash.password, FALSE)
    /\ r.kind = "email" => Knows(r.session.version, r.session.password, r.session.late)

Changing(r) == r.kind = "password" /\ r.marked

\* One change of password commits at a time, and the reset tokens it has not seen
\* were stored since it looked.
ChangesSee ==
  /\ \A q, r \in requests : Changing(q) /\ Changing(r) => q = r
  /\ \A r \in requests : Changing(r) =>
       \A k \in Live({"reset_password"}) \ r.seen :
         tokens[k].during /\ tokens[k].password = hash.password

AccountInv ==
  /\ AccountsTypeOK /\ SessionsKnow /\ RequestsKnow /\ ChangesSee
  /\ PasswordIsLastChosen /\ ResetTokensAreFresh /\ AddressIsProven

-----------------------------------------------------------------------------
(* Types *)

\* What a request of each kind carries.
LEMMA RequestFields ==
  ASSUME NEW r \in Requests
  PROVE  /\ r.kind = "login" => r.hash \in Hashes /\ r.version \in 0..MaxVersion
         /\ \A ks \in SUBSET TokenIds : r.kind \in {"password", "issue"} =>
              /\ [r EXCEPT !.marked = TRUE, !.seen = ks] \in Requests
              /\ [r EXCEPT !.marked = TRUE, !.seen = ks].kind = r.kind
              /\ [r EXCEPT !.marked = TRUE, !.seen = ks].seen = ks
         /\ r.kind = "email" => r.session \in Sessions /\ r.email \in Emails
         /\ r.kind = "issue" => r.purpose \in Purposes /\ r.target \in Emails
  BY DEF Requests

LEMMA SpentTyped ==
  ASSUME AccountsTypeOK, NEW ks
  PROVE  /\ Spent(ks) \in [TokenIds -> Tokens]
         /\ \A k \in TokenIds : Spent(ks)[k].state = "live" =>
              Spent(ks)[k] = tokens[k] /\ k \notin ks
  <1>1. tokens \in [TokenIds -> Tokens]
    BY DEF AccountsTypeOK
  <1>2. \A k \in TokenIds : /\ [tokens[k] EXCEPT !.state = "spent"] \in Tokens
                            /\ [tokens[k] EXCEPT !.state = "spent"].state = "spent"
    BY <1>1 DEF Tokens
  <1> QED
    BY <1>1, <1>2 DEF Spent

LEMMA Fields ==
  ASSUME AccountInv
  PROVE  /\ user.email \in Emails /\ user.version \in 0..MaxVersion
         /\ user.verified \in BOOLEAN /\ user.active \in BOOLEAN
         /\ hash.password \in 0..MaxPassword /\ hash.upgraded \in BOOLEAN
         /\ \A s \in sessions : /\ s \in Sessions /\ s.version \in 0..MaxVersion
                                /\ s.password \in 0..MaxPassword /\ s.late \in BOOLEAN
         /\ \A r \in requests : r \in Requests
         /\ \A k \in TokenIds : /\ tokens[k] \in Tokens /\ tokens[k].target \in Emails
  BY DEF AccountInv, AccountsTypeOK, Users, Hashes, Sessions, Tokens

-----------------------------------------------------------------------------
(* What is known stays known *)

\* Neither the version nor the password moved.
LEMMA KnowsKept ==
  ASSUME NEW v, NEW p, NEW late, Knows(v, p, late),
         user'.version = user.version, hash'.password = hash.password
  PROVE  Knows(v, p, late)'
  BY DEF Knows

\* The version moved: what was known before it says nothing of the new one.
LEMMA KnowsOutdated ==
  ASSUME NEW v \in Nat, NEW p, NEW late, Knows(v, p, late),
         user.version \in Nat, user'.version = user.version + 1
  PROVE  Knows(v, p, late)'
  BY DEF Knows

\* Sessions and requests that are there before and after a step.
LEMMA AllKnow ==
  ASSUME AccountInv,
         \/ user'.version = user.version /\ hash'.password = hash.password
         \/ user'.version = user.version + 1
  PROVE  /\ \A s \in sessions : Knows(s.version, s.password, s.late)'
         /\ \A r \in requests :
              /\ r.kind = "login" => Knows(r.version, r.hash.password, FALSE)'
              /\ r.kind = "email" =>
                   Knows(r.session.version, r.session.password, r.session.late)'
  <1>1. user.version \in Nat /\ \A s \in sessions : s.version \in Nat
    BY Fields, AccountsAssumption
  <1>2. ASSUME NEW r \in requests
        PROVE  /\ r.kind = "login" => r.version \in Nat
               /\ r.kind = "email" => r.session.version \in Nat
    <2>1. r \in Requests
      BY Fields
    <2>2. /\ r.kind = "login" => r.version \in 0..MaxVersion
          /\ r.kind = "email" => r.session \in Sessions
      BY <2>1, RequestFields
    <2>3. \A s \in Sessions : s.version \in 0..MaxVersion
      BY DEF Sessions
    <2> QED
      BY <2>2, <2>3, AccountsAssumption
  <1>3. \A s \in sessions : Knows(s.version, s.password, s.late)
    BY DEF AccountInv, SessionsKnow
  <1>4. ASSUME NEW r \in requests
        PROVE  /\ r.kind = "login" => Knows(r.version, r.hash.password, FALSE)
               /\ r.kind = "email" =>
                    Knows(r.session.version, r.session.password, r.session.late)
    BY DEF AccountInv, RequestsKnow
  <1>5. CASE user'.version = user.version /\ hash'.password = hash.password
    BY <1>3, <1>4, <1>5, KnowsKept
  <1>6. CASE user'.version = user.version + 1
    BY <1>1, <1>2, <1>3, <1>4, <1>6, KnowsOutdated
  <1> QED
    BY <1>5, <1>6

-----------------------------------------------------------------------------
(* What a change of password sees *)

LEMMA NoneChanges ==
  ASSUME \A r \in requests' : ~Changing(r)
  PROVE  ChangesSee'
  BY DEF ChangesSee, Changing

\* No change starts and the password stays; a reset token is one that was there, or
\* it is stored now.
LEMMA ChangesKeepSeeing ==
  ASSUME AccountInv, \A r \in requests' : Changing(r) => r \in requests,
         hash'.password = hash.password,
         \A k \in Live({"reset_password"})' :
           \/ k \in Live({"reset_password"}) /\ tokens'[k] = tokens[k]
           \/ tokens'[k].password = hash.password /\ tokens'[k].during = ChangeUnderWay
  PROVE  ChangesSee' /\ ResetTokensAreFresh'
  <1>1. \A q, r \in requests' : Changing(q) /\ Changing(r) => q = r
    BY DEF AccountInv, ChangesSee
  <1>2. ASSUME NEW r \in requests', Changing(r), NEW k \in Live({"reset_password"})',
               k \notin r.seen
        PROVE  tokens'[k].during /\ tokens'[k].password = hash'.password
    <2>1. r \in requests /\ ChangeUnderWay
      BY <1>2 DEF ChangeUnderWay, Changing
    <2> QED
      BY <1>2, <2>1 DEF AccountInv, ChangesSee
  <1>3. ResetTokensAreFresh'
    <2> SUFFICES ASSUME NEW k \in Live({"reset_password"})'
                 PROVE  hash'.password \in tokens'[k].password..
                          (tokens'[k].password + IF tokens'[k].during THEN 1 ELSE 0)
      BY DEF ResetTokensAreFresh
    <2>1. CASE k \in Live({"reset_password"}) /\ tokens'[k] = tokens[k]
      BY <2>1 DEF AccountInv, ResetTokensAreFresh
    <2>2. CASE tokens'[k].password = hash.password
      <3>1. hash.password \in Int
        BY Fields, AccountsAssumption
      <3> QED
        BY <2>2, <3>1
    <2> QED
      BY <2>1, <2>2
  <1> QED
    BY <1>1, <1>2, <1>3 DEF ChangesSee, Changing

\* In particular if tokens are used up.
LEMMA SpendingKeeps ==
  ASSUME AccountInv, NEW ks, tokens' = Spent(ks) \/ tokens' = tokens
  PROVE  \A purposes : \A k \in Live(purposes)' :
           k \in Live(purposes) /\ tokens'[k] = tokens[k] /\ (tokens' = Spent(ks) => k \notin ks)
  BY SpentTyped DEF AccountInv, Live

-----------------------------------------------------------------------------
(* Steps *)

\* A request is received and nothing else changes.
LEMMA ReceiveKeeps ==
  ASSUME AccountInv, NEW r \in Requests, Receive(r),
         ~Changing(r),
         r.kind = "login" => Knows(r.version, r.hash.password, FALSE),
         r.kind = "email" => Knows(r.session.version, r.session.password, r.session.late)
  PROVE  AccountInv'
  <1>1. UNCHANGED <<user, hash, tokens, sessions, chosen, proven>>
    BY DEF Receive
  <1>2. AccountsTypeOK' /\ PasswordIsLastChosen' /\ AddressIsProven'
    BY <1>1 DEF AccountInv, Receive, AccountsTypeOK, PasswordIsLastChosen, AddressIsProven
  <1>3. SessionsKnow' /\ RequestsKnow'
    BY <1>1 DEF AccountInv, Receive, SessionsKnow, RequestsKnow, Knows
  <1>4. ChangesSee' /\ ResetTokensAreFresh'
    BY <1>1, SpendingKeeps, ChangesKeepSeeing DEF Receive
  <1> QED
    BY <1>2, <1>3, <1>4 DEF AccountInv

LEMMA ReadsKeep ==
  ASSUME AccountInv,
         \/ ReadForLogin \/ ReadForPassword
         \/ \E s \in sessions, e \in Emails : ReadForEmail(s, e)
         \/ \E purpose \in Purposes : ReadForToken(purpose)
  PROVE  AccountInv'
  <1>1. user.email \in Emails /\ user.version \in 0..MaxVersion /\ hash \in Hashes
    BY Fields DEF AccountInv, AccountsTypeOK
  <1>2. CASE ReadForLogin
    <2> DEFINE r == [kind |-> "login", hash |-> hash, version |-> user.version]
    <2>1. r \in Requests
      BY <1>1 DEF Requests
    <2>2. Knows(r.version, r.hash.password, FALSE)
      BY <1>1, AccountsAssumption DEF Knows
    <2>3. Receive(r) /\ r.kind = "login"
      BY <1>2 DEF ReadForLogin
    <2> HIDE DEF r
    <2> QED
      BY <2>1, <2>2, <2>3, ReceiveKeeps DEF Changing
  <1>3. CASE ReadForPassword
    <2> DEFINE r == [kind |-> "password", hash |-> hash, marked |-> FALSE, seen |-> {}]
    <2>1. r \in Requests
      BY <1>1 DEF Requests
    <2>2. Receive(r) /\ r.kind = "password" /\ ~Changing(r)
      BY <1>3 DEF ReadForPassword, Changing
    <2> HIDE DEF r
    <2> QED
      BY <2>1, <2>2, ReceiveKeeps
  <1>4. ASSUME NEW s \in sessions, NEW e \in Emails, ReadForEmail(s, e)
        PROVE  AccountInv'
    <2> DEFINE r == [kind |-> "email", session |-> s, email |-> e]
    <2>1. r \in Requests
      BY Fields DEF Requests
    <2>2. Receive(r) /\ r.kind = "email" /\ r.session = s
      BY <1>4 DEF ReadForEmail
    <2>3. Knows(s.version, s.password, s.late)
      BY DEF AccountInv, SessionsKnow
    <2> HIDE DEF r
    <2> QED
      BY <2>1, <2>2, <2>3, ReceiveKeeps DEF Changing
  <1>5. ASSUME NEW purpose \in Purposes, ReadForToken(purpose)
        PROVE  AccountInv'
    <2> DEFINE r == [kind |-> "issue", purpose |-> purpose, target |-> user.email,
                     marked |-> FALSE, seen |-> {}]
    <2>1. r \in Requests
      BY <1>1 DEF Requests
    <2>2. Receive(r) /\ r.kind = "issue"
      BY <1>5 DEF ReadForToken
    <2> HIDE DEF r
    <2> QED
      BY <2>1, <2>2, ReceiveKeeps DEF Changing
  <1> QED
    BY <1>2, <1>3, <1>4, <1>5

\* Account, password and tokens after a new password was chosen and no change of
\* password is left.
LEMMA ChoosePasswordKeeps ==
  ASSUME AccountInv, NEW ks, ChoosePassword(ks), UNCHANGED proven,
         \A r \in requests' : ~Changing(r),
         \A k \in Live({"reset_password"}) \ ks :
           tokens[k].during /\ tokens[k].password = hash.password
  PROVE  /\ user' \in Users /\ user'.version = user.version + 1
         /\ hash' \in Hashes /\ hash'.password = chosen' /\ chosen' \in 0..MaxPassword
         /\ tokens' \in [TokenIds -> Tokens]
         /\ PasswordIsLastChosen' /\ ResetTokensAreFresh' /\ AddressIsProven' /\ ChangesSee'
  <1>1. /\ user \in Users /\ chosen \in 0..MaxPassword /\ chosen < MaxPassword
        /\ user.version < MaxVersion
        /\ user' = [user EXCEPT !.version = @ + 1]
        /\ hash' = [password |-> chosen + 1, upgraded |-> TRUE] /\ chosen' = chosen + 1
        /\ tokens' = Spent(ks)
    BY DEF ChoosePassword, NewVersion, AccountInv, AccountsTypeOK
  <1>2. chosen' \in 0..MaxPassword /\ hash' \in Hashes /\ hash'.password = chosen'
    BY <1>1, AccountsAssumption DEF Hashes
  <1>3. /\ user' \in Users /\ user'.version = user.version + 1
        /\ user'.verified = user.verified /\ user'.email = user.email
    BY <1>1, AccountsAssumption DEF Users
  <1>4. AddressIsProven'
    BY <1>3 DEF AccountInv, AddressIsProven
  <1>5. tokens' \in [TokenIds -> Tokens]
    BY <1>1, SpentTyped DEF AccountInv
  <1>6. ResetTokensAreFresh'
    <2> SUFFICES ASSUME NEW k \in Live({"reset_password"})'
                 PROVE  hash'.password \in tokens'[k].password..
                          (tokens'[k].password + IF tokens'[k].during THEN 1 ELSE 0)
      BY DEF ResetTokensAreFresh
    <2>1. k \in Live({"reset_password"}) \ ks /\ tokens'[k] = tokens[k]
      BY <1>1, SpendingKeeps
    <2>2. hash.password = chosen
      BY DEF AccountInv, PasswordIsLastChosen
    <2>3. tokens'[k].during /\ tokens'[k].password = chosen /\ hash'.password = chosen + 1
      BY <1>1, <2>1, <2>2
    <2> QED
      BY <1>1, <2>3, AccountsAssumption
  <1> QED
    BY <1>2, <1>3, <1>4, <1>5, <1>6, NoneChanges DEF PasswordIsLastChosen

\* Sessions and requests after a step that may end one request and hand out one
\* session.
LEMMA KnowsAfter ==
  ASSUME AccountInv, requests' \subseteq requests,
         \/ user'.version = user.version /\ hash'.password = hash.password
         \/ user'.version = user.version + 1,
         \/ sessions' = sessions
         \/ \E v, p, late :
              /\ sessions' = sessions \cup {[version |-> v, password |-> p, late |-> late]}
              /\ Knows(v, p, late)'
  PROVE  SessionsKnow' /\ RequestsKnow'
  <1>1. /\ \A s \in sessions : Knows(s.version, s.password, s.late)'
        /\ \A r \in requests :
              /\ r.kind = "login" => Knows(r.version, r.hash.password, FALSE)'
              /\ r.kind = "email" =>
                   Knows(r.session.version, r.session.password, r.session.late)'
    BY AllKnow
  <1>2. RequestsKnow'
    BY <1>1 DEF RequestsKnow
  <1>3. CASE sessions' = sessions
    BY <1>1, <1>2, <1>3 DEF SessionsKnow
  <1>4. ASSUME NEW v, NEW p, NEW late, Knows(v, p, late)',
               sessions' = sessions \cup {[version |-> v, password |-> p, late |-> late]}
        PROVE  SessionsKnow'
    <2> DEFINE new == [version |-> v, password |-> p, late |-> late]
    <2>1. new.version = v /\ new.password = p /\ new.late = late
      OBVIOUS
    <2>2. sessions' = sessions \cup {new}
      BY <1>4
    <2> HIDE DEF new
    <2> QED
      BY <1>1, <1>4, <2>1, <2>2 DEF SessionsKnow
  <1> QED
    BY <1>2, <1>3, <1>4

\* Their types after such a step.
LEMMA TypedAfter ==
  ASSUME AccountInv, requests' \subseteq requests, user' \in Users,
         user.version <= user'.version,
         \/ sessions' = sessions
         \/ \E v, p, late :
              /\ sessions' = sessions \cup {[version |-> v, password |-> p, late |-> late]}
              /\ v \in 0..MaxVersion /\ p \in 0..MaxPassword /\ late \in BOOLEAN
              /\ v <= user'.version,
         hash' \in Hashes, tokens' \in [TokenIds -> Tokens], chosen' \in 0..MaxPassword,
         proven' \subseteq Emails
  PROVE  AccountsTypeOK'
  <1>1. requests' \subseteq Requests
    BY DEF AccountInv, AccountsTypeOK
  <1>2. sessions' \subseteq Sessions
    BY DEF AccountInv, AccountsTypeOK, Sessions
  <1>3. user.version \in Int /\ user'.version \in Int /\ 0..MaxVersion \subseteq Int
    BY Fields, AccountsAssumption DEF Users
  <1>4. \A s \in sessions : s.version <= user.version /\ s.version \in Int
    BY <1>3, Fields DEF AccountInv, AccountsTypeOK
  <1>5. \A s \in sessions' : s.version <= user'.version
    <2>1. CASE sessions' = sessions
      BY <1>3, <1>4, <2>1
    <2>2. ASSUME NEW v, NEW p, NEW late, v <= user'.version,
                 sessions' = sessions \cup {[version |-> v, password |-> p, late |-> late]}
          PROVE  \A s \in sessions' : s.version <= user'.version
      BY <1>3, <1>4, <2>2
    <2> QED
      BY <2>1, <2>2
  <1> QED
    BY <1>1, <1>2, <1>5 DEF AccountsTypeOK

LEMMA LoginKeeps ==
  ASSUME AccountInv, NEW r \in requests, Login(r)
  PROVE  AccountInv'
  <1>1. /\ r.kind = "login" /\ r \in Requests
        /\ r.hash \in Hashes /\ r.version \in 0..MaxVersion
    BY Fields, RequestFields DEF Login
  <1>2. /\ requests' \subseteq requests
        /\ UNCHANGED <<user, tokens, chosen, proven>>
        /\ sessions' = sessions \cup {[version |-> r.version, password |-> r.hash.password,
                                       late |-> FALSE]}
    BY DEF Login, Finish
  <1>3. hash' \in Hashes /\ hash'.password = hash.password
    BY DEF Login, AccountInv, AccountsTypeOK, Hashes
  <1>4. Knows(r.version, r.hash.password, FALSE)
    BY <1>1 DEF AccountInv, RequestsKnow
  <1>5. r.hash.password \in 0..MaxPassword
    BY <1>1 DEF Hashes
  <1>6. r.version <= user.version /\ user.version <= user.version
    BY <1>4, Fields, AccountsAssumption DEF Knows
  <1>7. SessionsKnow' /\ RequestsKnow'
    BY <1>2, <1>3, <1>4, KnowsKept, KnowsAfter
  <1>8. AccountsTypeOK'
    BY <1>1, <1>2, <1>3, <1>5, <1>6, TypedAfter DEF AccountInv, AccountsTypeOK
  <1>9. ChangesSee' /\ ResetTokensAreFresh'
    BY <1>2, <1>3, SpendingKeeps, ChangesKeepSeeing
  <1> QED
    BY <1>2, <1>3, <1>7, <1>8, <1>9 DEF AccountInv, PasswordIsLastChosen, AddressIsProven

LEMMA ChangePasswordKeeps ==
  ASSUME AccountInv, NEW r \in requests, ChangePassword(r)
  PROVE  AccountInv'
  <1>1. /\ requests' = requests \ {r} /\ requests' \subseteq requests
        /\ ChoosePassword(r.seen) /\ UNCHANGED proven /\ Changing(r)
        /\ sessions' = sessions \cup {[version |-> user'.version, password |-> chosen',
                                       late |-> FALSE]}
    BY DEF ChangePassword, Finish, Changing
  <1>2. /\ \A q \in requests' : ~Changing(q)
        /\ \A k \in Live({"reset_password"}) \ r.seen :
             tokens[k].during /\ tokens[k].password = hash.password
    BY <1>1 DEF AccountInv, ChangesSee
  <1>3. /\ user' \in Users /\ user'.version = user.version + 1
        /\ hash' \in Hashes /\ hash'.password = chosen' /\ chosen' \in 0..MaxPassword
        /\ tokens' \in [TokenIds -> Tokens]
        /\ PasswordIsLastChosen' /\ ResetTokensAreFresh' /\ AddressIsProven' /\ ChangesSee'
    BY <1>2, <1>1, ChoosePasswordKeeps
  <1>4. user'.version \in 0..MaxVersion
    BY <1>3 DEF Users
  <1>5. user.version <= user'.version /\ user'.version <= user'.version
    BY <1>3, Fields, AccountsAssumption
  <1>6. Knows(user.version, chosen, FALSE)'
    BY <1>3, <1>5 DEF Knows
  <1>7. SessionsKnow' /\ RequestsKnow'
    BY <1>1, <1>3, <1>6, KnowsAfter
  <1>8. AccountsTypeOK'
    BY <1>1, <1>3, <1>4, <1>5, TypedAfter DEF AccountInv, AccountsTypeOK
  <1> QED
    BY <1>3, <1>7, <1>8 DEF AccountInv

LEMMA ResetPasswordKeeps ==
  ASSUME AccountInv, NEW k \in TokenIds, ResetPassword(k)
  PROVE  AccountInv'
  <1>1. /\ ChoosePassword(Live({"reset_password"})) /\ UNCHANGED <<requests, sessions, proven>>
        /\ \A r \in requests' : ~Changing(r)
    BY DEF ResetPassword, ChangeUnderWay, Changing
  <1>2. /\ user' \in Users /\ user'.version = user.version + 1
        /\ hash' \in Hashes /\ chosen' \in 0..MaxPassword
        /\ tokens' \in [TokenIds -> Tokens]
        /\ PasswordIsLastChosen' /\ ResetTokensAreFresh' /\ AddressIsProven' /\ ChangesSee'
    BY <1>1, ChoosePasswordKeeps
  <1>3. user.version <= user'.version
    BY <1>2, Fields, AccountsAssumption
  <1>4. SessionsKnow' /\ RequestsKnow'
    BY <1>1, <1>2, KnowsAfter
  <1>5. AccountsTypeOK'
    BY <1>1, <1>2, <1>3, TypedAfter DEF AccountInv, AccountsTypeOK
  <1> QED
    BY <1>2, <1>4, <1>5 DEF AccountInv

LEMMA NewVersionTyped ==
  ASSUME NEW u \in Users, NewVersion(u), u.version = user.version
  PROVE  /\ user' \in Users /\ user'.version = user.version + 1
         /\ user'.verified = u.verified /\ user'.email = u.email
         /\ user'.active = u.active
  BY AccountsAssumption DEF NewVersion, Users

\* A ban, a reinstatement or an invalidation.
LEMMA StatusKeeps ==
  ASSUME AccountInv, ChangeUserStatus \/ InvalidateSessions
  PROVE  AccountInv'
  <1>1. UNCHANGED <<hash, tokens, requests, sessions, chosen, proven>>
    BY DEF ChangeUserStatus, InvalidateSessions
  <1>2. /\ user' \in Users /\ user'.version = user.version + 1
        /\ user'.verified = user.verified /\ user'.email = user.email
    <2>1. CASE ChangeUserStatus
      <3> DEFINE u == [user EXCEPT !.active = ~@]
      <3>1. /\ u \in Users /\ u.version = user.version
            /\ u.verified = user.verified /\ u.email = user.email
        BY DEF AccountInv, AccountsTypeOK, Users
      <3>2. NewVersion(u)
        BY <2>1 DEF ChangeUserStatus
      <3> HIDE DEF u
      <3> QED
        BY <3>1, <3>2, NewVersionTyped
    <2>2. CASE InvalidateSessions
      BY <2>2, NewVersionTyped DEF InvalidateSessions, AccountInv, AccountsTypeOK
    <2> QED
      BY <2>1, <2>2
  <1>3. user.version <= user'.version
    BY <1>2, Fields, AccountsAssumption
  <1>4. SessionsKnow' /\ RequestsKnow'
    BY <1>1, <1>2, KnowsAfter
  <1>5. AccountsTypeOK'
    BY <1>1, <1>2, <1>3, TypedAfter DEF AccountInv, AccountsTypeOK
  <1>6. ChangesSee' /\ ResetTokensAreFresh'
    BY <1>1, SpendingKeeps, ChangesKeepSeeing
  <1> QED
    BY <1>1, <1>2, <1>4, <1>5, <1>6 DEF AccountInv, PasswordIsLastChosen, AddressIsProven

LEMMA ChangeEmailKeeps ==
  ASSUME AccountInv, NEW r \in requests, ChangeEmail(r)
  PROVE  AccountInv'
  <1> PICK late : late = (r.session.late \/ ~Valid(r.session))
    OBVIOUS
  <1>1. /\ r.kind = "email" /\ r.session \in Sessions /\ r.email \in Emails
        /\ Knows(r.session.version, r.session.password, r.session.late)
    BY Fields, RequestFields DEF ChangeEmail, AccountInv, RequestsKnow
  <1>2. /\ requests' \subseteq requests /\ tokens' = Spent(Live(Purposes))
        /\ UNCHANGED <<hash, chosen, proven>>
        /\ sessions' = sessions \cup {[version |-> user'.version,
                                       password |-> r.session.password, late |-> late]}
    BY DEF ChangeEmail, Finish
  <1>3. /\ user' \in Users /\ user'.version = user.version + 1 /\ user'.verified = FALSE
    <2> DEFINE u == [user EXCEPT !.email = r.email, !.verified = FALSE]
    <2>1. u \in Users /\ u.version = user.version /\ u.verified = FALSE
      BY <1>1 DEF AccountInv, AccountsTypeOK, Users
    <2>2. NewVersion(u)
      BY DEF ChangeEmail
    <2> HIDE DEF u
    <2> QED
      BY <2>1, <2>2, NewVersionTyped
  <1>4. /\ user'.version \in 0..MaxVersion /\ user.version <= user'.version
        /\ user'.version <= user'.version
    BY <1>3, Fields, AccountsAssumption DEF Users
  <1>5. r.session.password \in 0..MaxPassword /\ r.session.late \in BOOLEAN
    BY <1>1 DEF Sessions
  <1>6. late \in BOOLEAN /\ (~late => r.session.password = hash.password)
    BY <1>1, <1>5 DEF Knows, Valid
  <1>7. Knows(user.version, r.session.password, late)'
    BY <1>2, <1>4, <1>6 DEF Knows
  <1>8. SessionsKnow' /\ RequestsKnow'
    BY <1>2, <1>3, <1>7, KnowsAfter
  <1>9. tokens' \in [TokenIds -> Tokens] /\ ResetTokensAreFresh' /\ ChangesSee'
    BY <1>2, SpentTyped, SpendingKeeps, ChangesKeepSeeing DEF AccountInv
  <1>10. AccountsTypeOK'
    BY <1>2, <1>3, <1>4, <1>5, <1>6, <1>9, TypedAfter DEF AccountInv, AccountsTypeOK
  <1> QED
    BY <1>2, <1>3, <1>8, <1>9, <1>10 DEF AccountInv, PasswordIsLastChosen, AddressIsProven

\* A step that moves neither the account's version nor its password, nor hands out
\* a session.
LEMMA QuietKeeps ==
  ASSUME AccountInv, UNCHANGED <<hash, sessions, chosen>>, requests' \subseteq requests,
         user' \in Users, user'.version = user.version, proven' \subseteq Emails,
         tokens' \in [TokenIds -> Tokens], AddressIsProven',
         \A k \in Live({"reset_password"})' :
           \/ k \in Live({"reset_password"}) /\ tokens'[k] = tokens[k]
           \/ tokens'[k].password = hash.password /\ tokens'[k].during = ChangeUnderWay
  PROVE  AccountInv'
  <1>1. user.version <= user'.version
    BY Fields, AccountsAssumption
  <1>2. SessionsKnow' /\ RequestsKnow'
    BY KnowsAfter
  <1>3. AccountsTypeOK'
    BY <1>1, TypedAfter DEF AccountInv, AccountsTypeOK
  <1>4. ChangesSee' /\ ResetTokensAreFresh'
    BY ChangesKeepSeeing
  <1> QED
    BY <1>2, <1>3, <1>4 DEF AccountInv, PasswordIsLastChosen

\* A transaction has seen the live tokens of these purposes.
LEMMA MarkKeeps ==
  ASSUME AccountInv, NEW r \in requests, r.kind \in {"password", "issue"}, NEW purposes,
         requests' = (requests \ {r}) \cup
           {[r EXCEPT !.marked = TRUE, !.seen = Live(purposes)]},
         r.kind = "password" => ~ChangeUnderWay /\ purposes = {"reset_password"},
         UNCHANGED <<user, hash, tokens, sessions, chosen, proven>>
  PROVE  AccountInv'
  <1> DEFINE marked == [r EXCEPT !.marked = TRUE, !.seen = Live(purposes)]
  <1>1. Live(purposes) \in SUBSET TokenIds /\ r \in Requests
    BY Fields DEF Live
  <1>2. marked \in Requests /\ marked.kind = r.kind /\ marked.seen = Live(purposes)
    BY <1>1, RequestFields
  <1>3. requests' = (requests \ {r}) \cup {marked}
    OBVIOUS
  <1> HIDE DEF marked
  <1>4. SessionsKnow' /\ RequestsKnow'
    <2>1. SessionsKnow'
      BY DEF AccountInv, SessionsKnow, Knows
    <2>2. RequestsKnow'
      BY <1>2, <1>3 DEF AccountInv, RequestsKnow, Knows
    <2> QED
      BY <2>1, <2>2
  <1>5. AccountsTypeOK'
    BY <1>2, <1>3 DEF AccountInv, AccountsTypeOK
  <1>6. Live({"reset_password"})' = Live({"reset_password"})
    BY DEF Live
  <1>7. ChangesSee'
    <2>1. CASE r.kind = "issue"
      <3>1. \A q \in requests' : Changing(q) => q \in requests
        BY <1>2, <1>3, <2>1 DEF Changing
      <3> QED
        BY <3>1, SpendingKeeps, ChangesKeepSeeing
    <2>2. CASE r.kind = "password"
      <3>1. \A q \in requests' : Changing(q) => q = marked
        BY <1>3, <2>2 DEF ChangeUnderWay, Changing
      <3>2. Live({"reset_password"})' \ marked.seen = {}
        BY <1>2, <1>6, <2>2
      <3> QED
        BY <3>1, <3>2 DEF ChangesSee, Changing
    <2> QED
      BY <2>1, <2>2
  <1> QED
    BY <1>4, <1>5, <1>6, <1>7
    DEF AccountInv, PasswordIsLastChosen, ResetTokensAreFresh, AddressIsProven

LEMMA MarksKeep ==
  ASSUME AccountInv, NEW r \in requests, StartChange(r) \/ MarkTokens(r)
  PROVE  AccountInv'
  <1>1. CASE StartChange(r)
    BY <1>1, MarkKeeps DEF StartChange
  <1>2. CASE MarkTokens(r)
    BY <1>2, MarkKeeps DEF MarkTokens
  <1> QED
    BY <1>1, <1>2

LEMMA IssueTokenKeeps ==
  ASSUME AccountInv, NEW r \in requests, NEW k \in TokenIds, IssueToken(r, k)
  PROVE  AccountInv'
  <1> DEFINE new == [state |-> "live", purpose |-> r.purpose, target |-> r.target,
                     password |-> hash.password, during |-> ChangeUnderWay]
  <1>1. /\ requests' \subseteq requests /\ tokens' = [Spent(r.seen) EXCEPT ![k] = new]
        /\ UNCHANGED <<user, hash, sessions, chosen, proven>>
    BY DEF IssueToken, Finish
  <1>2. r.purpose \in Purposes /\ r.target \in Emails
    BY Fields, RequestFields DEF IssueToken
  <1>3. new \in Tokens /\ new.password = hash.password /\ new.during = ChangeUnderWay
    <2>1. ChangeUnderWay \in BOOLEAN
      BY DEF ChangeUnderWay
    <2> QED
      BY <1>2, <2>1, Fields DEF Tokens
  <1> HIDE DEF new
  <1>4. /\ tokens' \in [TokenIds -> Tokens]
        /\ \A j \in Live({"reset_password"})' :
             \/ j \in Live({"reset_password"}) /\ tokens'[j] = tokens[j]
             \/ tokens'[j] = new
    BY <1>1, <1>3, SpentTyped DEF AccountInv, Live
  <1>5. AddressIsProven'
    BY <1>1 DEF AccountInv, AddressIsProven
  <1> QED
    BY <1>1, <1>3, <1>4, <1>5, QuietKeeps DEF AccountInv, AccountsTypeOK

LEMMA VerifyEmailKeeps ==
  ASSUME AccountInv, NEW k \in TokenIds, VerifyEmail(k)
  PROVE  AccountInv'
  <1>1. /\ user' = [user EXCEPT !.verified = TRUE] /\ tokens' = Spent(Live({"verify_email"}))
        /\ proven' = proven \cup {tokens[k].target} /\ tokens[k].target = user.email
        /\ UNCHANGED <<hash, requests, sessions, chosen>>
    BY DEF VerifyEmail
  <1>2. user' \in Users /\ user'.version = user.version /\ user'.email = user.email
    BY <1>1 DEF AccountInv, AccountsTypeOK, Users
  <1>3. proven' \subseteq Emails /\ AddressIsProven'
    BY <1>1, <1>2, Fields DEF AccountInv, AccountsTypeOK, AddressIsProven
  <1>4. tokens' \in [TokenIds -> Tokens]
    BY <1>1, SpentTyped DEF AccountInv
  <1> QED
    BY <1>1, <1>2, <1>3, <1>4, SpendingKeeps, QuietKeeps

LEMMA ExpireKeeps ==
  ASSUME AccountInv, NEW k \in TokenIds, Expire(k)
  PROVE  AccountInv'
  <1>1. /\ tokens' = [tokens EXCEPT ![k].state = "spent"]
        /\ UNCHANGED <<user, hash, requests, sessions, chosen, proven>>
    BY DEF Expire
  <1>2. /\ tokens' \in [TokenIds -> Tokens]
        /\ \A j \in Live({"reset_password"})' :
             j \in Live({"reset_password"}) /\ tokens'[j] = tokens[j]
    BY <1>1 DEF AccountInv, AccountsTypeOK, Live, Tokens
  <1>3. AddressIsProven'
    BY <1>1 DEF AccountInv, AddressIsProven
  <1> QED
    BY <1>1, <1>2, <1>3, QuietKeeps DEF AccountInv, AccountsTypeOK

LEMMA FailKeeps ==
  ASSUME AccountInv, NEW r, Fail(r)
  PROVE  AccountInv'
  <1>1. /\ requests' \subseteq requests
        /\ UNCHANGED <<user, hash, tokens, sessions, chosen, proven>>
    BY DEF Fail, Finish
  <1>2. AddressIsProven'
    BY <1>1 DEF AccountInv, AddressIsProven
  <1> QED
    BY <1>1, <1>2, SpendingKeeps, QuietKeeps DEF AccountInv, AccountsTypeOK

LEMMA StepKeeps ==
  ASSUME AccountInv, [AccountsNext]_accountVars
  PROVE  AccountInv'
  <1>1. CASE UNCHANGED accountVars
    BY <1>1, FailKeeps
    DEF accountVars, AccountInv, AccountsTypeOK, SessionsKnow, RequestsKnow, Knows,
        ChangesSee, Changing, Live, PasswordIsLastChosen, ResetTokensAreFresh, AddressIsProven
  <1>2. ASSUME NEW r \in requests,
               \/ Fail(r) \/ Login(r) \/ StartChange(r) \/ ChangePassword(r)
               \/ ChangeEmail(r) \/ MarkTokens(r)
        PROVE  AccountInv'
    BY <1>2, FailKeeps, LoginKeeps, ChangePasswordKeeps, ChangeEmailKeeps, MarksKeep
  <1> QED
    BY <1>1, <1>2, ReadsKeep, StatusKeeps, IssueTokenKeeps, ResetPasswordKeeps,
       VerifyEmailKeeps, ExpireKeeps
    DEF AccountsNext

LEMMA InitKeeps == AccountsInit => AccountInv
  <1> SUFFICES ASSUME AccountsInit PROVE AccountInv
    OBVIOUS
  <1>1. PICK e \in Emails :
          /\ user = [email |-> e, verified |-> FALSE, active |-> TRUE, version |-> 0]
          /\ tokens = [k \in TokenIds |-> [state |-> "absent", purpose |-> "verify_email",
                                           target |-> e, password |-> 0,
                                           during |-> FALSE]]
    BY DEF AccountsInit
  <1>2. /\ hash \in [password : {0}, upgraded : BOOLEAN]
        /\ requests = {} /\ sessions = {} /\ chosen = 0 /\ proven = {}
    BY DEF AccountsInit
  <1>3. 0 \in 0..MaxVersion /\ 0 \in 0..MaxPassword
    BY AccountsAssumption
  <1>4. user \in Users /\ hash \in Hashes
    BY <1>1, <1>2, <1>3 DEF Users, Hashes
  <1>5. tokens \in [TokenIds -> Tokens]
    BY <1>1, <1>3 DEF Tokens, Purposes
  <1>6. AccountsTypeOK
    BY <1>2, <1>3, <1>4, <1>5 DEF AccountsTypeOK
  <1> QED
    BY <1>1, <1>2, <1>6
    DEF AccountInv, SessionsKnow, RequestsKnow, ChangesSee, Live, PasswordIsLastChosen,
        ResetTokensAreFresh, AddressIsProven

LEMMA AccountInvariant == AccountsSpec => []AccountInv
  <1>1. AccountInv /\ [AccountsNext]_accountVars => AccountInv'
    BY StepKeeps
  <1> QED
    BY <1>1, InitKeeps, PTL DEF AccountsSpec

-----------------------------------------------------------------------------
(* Theorems *)

\* Rows, requests and cookies are of their types, and no cookie is ahead of the
\* account (identity-repository.ts, session.ts).
THEOREM AccountsTyped == AccountsSpec => []AccountsTypeOK
  <1>1. AccountInv => AccountsTypeOK
    BY DEF AccountInv
  <1> QED
    BY <1>1, AccountInvariant, PTL

\* Password, reset tokens, verified address and good sessions all speak of the
\* account as it is now, although every request works from what it read earlier.
THEOREM ProofsStayCurrent == AccountsSpec => []ProofsAreCurrent
  <1>1. AccountInv => ProofsAreCurrent
    BY DEF AccountInv, SessionsKnow, Knows, ProofsAreCurrent, SessionsKnowThePassword, Valid
  <1> QED
    BY <1>1, AccountInvariant, PTL

\* The account is active with the same version only if it was before.
LEMMA StatusMovesVersion ==
  ASSUME AccountInv, [AccountsNext]_accountVars
  PROVE  \/ user'.version = user.version + 1
         \/ user'.version = user.version /\ user'.active = user.active
  <1>1. user \in Users /\ \A r \in requests : r \in Requests
    BY DEF AccountInv, AccountsTypeOK
  <1>2. ASSUME NEW u \in Users, NewVersion(u), u.version = user.version
        PROVE  user'.version = user.version + 1
    BY <1>2, NewVersionTyped
  <1>3. CASE ChangeUserStatus
    <2>1. [user EXCEPT !.active = ~@] \in Users
          /\ [user EXCEPT !.active = ~@].version = user.version
      BY <1>1 DEF Users
    <2> QED
      BY <1>2, <1>3, <2>1 DEF ChangeUserStatus
  <1>4. CASE InvalidateSessions
    BY <1>1, <1>2, <1>4 DEF InvalidateSessions
  <1>5. ASSUME NEW ks, ChoosePassword(ks)
        PROVE  user'.version = user.version + 1
    BY <1>1, <1>2, <1>5 DEF ChoosePassword
  <1>6. ASSUME NEW r \in requests, ChangeEmail(r)
        PROVE  user'.version = user.version + 1
    <2> DEFINE u == [user EXCEPT !.email = r.email, !.verified = FALSE]
    <2>1. u \in Users /\ u.version = user.version
      BY <1>1, <1>6, RequestFields DEF ChangeEmail, Users
    <2>2. NewVersion(u)
      BY <1>6 DEF ChangeEmail
    <2> HIDE DEF u
    <2> QED
      BY <1>2, <2>1, <2>2
  <1>7. ASSUME NEW k \in TokenIds, VerifyEmail(k)
        PROVE  user'.version = user.version /\ user'.active = user.active
    BY <1>1, <1>7 DEF VerifyEmail, Users
  <1> QED
    BY <1>3, <1>4, <1>5, <1>6, <1>7
    DEF AccountsNext, accountVars, ReadForLogin, ReadForPassword, ReadForEmail, ReadForToken,
        Receive, Fail, Login, StartChange, ChangePassword, MarkTokens, IssueToken,
        ResetPassword, Expire

\* A session that has ended does not come to life again, whatever is undone later:
\* every change of status moves the version.
THEOREM SessionsStayEnded == AccountsSpec => EndedSessionsStayEnded
  <1>1. AccountInv /\ [AccountsNext]_accountVars =>
          [\A s \in sessions : ~Valid(s) => ~Valid(s)']_accountVars
    <2> SUFFICES ASSUME AccountInv, [AccountsNext]_accountVars,
                        NEW s \in sessions, ~Valid(s)
                 PROVE  ~Valid(s)'
      OBVIOUS
    <2>1. s.version <= user.version /\ s.version \in Int /\ user.version \in Int
      BY Fields, AccountsAssumption DEF AccountInv, AccountsTypeOK
    <2>2. \/ user'.version = user.version + 1
          \/ user'.version = user.version /\ user'.active = user.active
      BY StatusMovesVersion
    <2> QED
      BY <2>1, <2>2 DEF Valid
  <1> QED
    BY <1>1, AccountInvariant, PTL DEF AccountsSpec, EndedSessionsStayEnded

=============================================================================
