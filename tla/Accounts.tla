------------------------------ MODULE Accounts ------------------------------
(***************************************************************************)
(* One account of the control plane: its password, its address, the tokens *)
(* mailed to it and the sessions browsers hold.                            *)
(*                                                                         *)
(* No request holds a lock while it hashes a password or waits for the     *)
(* database: a login, a change of password or of address, and the issue of *)
(* a token read first and write later, whatever happened in between.  Nor  *)
(* do the locks of a change of password keep a reset token from being      *)
(* stored between its last look at the tokens and its commit.              *)
(* Sessions are not stored; a cookie carries the session_version it was    *)
(* given and is good while that is the account's.                          *)
(***************************************************************************)
EXTENDS Integers, FiniteSets

CONSTANTS
  Emails,      \* addresses the account may have
  TokenIds,    \* digests of email_tokens
  MaxPassword, \* bound: passwords chosen after the first one
  MaxVersion,  \* bound: session_version
  MaxRequests  \* bound: requests under way together

ASSUME AccountsAssumption ==
  /\ MaxPassword \in Nat /\ MaxVersion \in Nat /\ MaxRequests \in Nat
  /\ Emails # {}

VARIABLES
  user,     \* the row of users
  hash,     \* credentials.password_hash
  tokens,   \* email_tokens by digest
  requests, \* requests that have read and not yet written
  sessions, \* the cookies handed out
  chosen,   \* history: how many passwords were chosen
  proven    \* history: addresses at which a verification mail was opened

accountVars == <<user, hash, tokens, requests, sessions, chosen, proven>>

-----------------------------------------------------------------------------

Purposes == {"verify_email", "reset_password"}

Users == [email : Emails, verified : BOOLEAN, active : BOOLEAN, version : 0..MaxVersion]

\* A hash of the password chosen n-th, with old or present parameters.  Salts make
\* any other hash different.
Hashes == [password : 0..MaxPassword, upgraded : BOOLEAN]

\* spent: used_at is set or expires_at has passed.  History of its storing:
\* password, the one that was valid; during, whether a change of password had
\* looked at the tokens and was not committed.
Tokens == [state : {"absent", "live", "spent"}, purpose : Purposes,
           target : Emails, password : 0..MaxPassword, during : BOOLEAN]

\* password: history, the one its holder has proved to know.  late: history, given
\* for a session that had ended while the request was under way.
Sessions == [version : 0..MaxVersion, password : 0..MaxPassword, late : BOOLEAN]

\* marked: the transaction has updated the live tokens it saw; they are used up when
\* it commits.
Requests ==
  [kind : {"login"}, hash : Hashes, version : 0..MaxVersion]
    \cup [kind : {"password"}, hash : Hashes, marked : BOOLEAN, seen : SUBSET TokenIds]
    \cup [kind : {"email"}, session : Sessions, email : Emails]
    \cup [kind : {"issue"}, purpose : Purposes, target : Emails, marked : BOOLEAN,
          seen : SUBSET TokenIds]

\* Rows, requests and cookies are of their types; no cookie is ahead of the account.
AccountsTypeOK ==
  /\ user \in Users
  /\ hash \in Hashes
  /\ tokens \in [TokenIds -> Tokens]
  /\ requests \subseteq Requests
  /\ sessions \subseteq Sessions
  /\ chosen \in 0..MaxPassword
  /\ proven \subseteq Emails
  /\ \A s \in sessions : s.version <= user.version

\* createIdentity, with a hash of this release or of an earlier one.
AccountsInit ==
  /\ \E e \in Emails :
       /\ user = [email |-> e, verified |-> FALSE, active |-> TRUE, version |-> 0]
       /\ tokens = [k \in TokenIds |-> [state |-> "absent", purpose |-> "verify_email",
                                        target |-> e, password |-> 0,
                                        during |-> FALSE]]
  /\ hash \in [password : {0}, upgraded : BOOLEAN]
  /\ requests = {} /\ sessions = {}
  /\ chosen = 0 /\ proven = {}

\* IdentitySessionService.validate
Valid(s) == user.active /\ s.version = user.version

Receive(r) ==
  /\ Cardinality(requests) < MaxRequests
  /\ requests' = requests \cup {r}
  /\ UNCHANGED <<user, hash, tokens, sessions, chosen, proven>>

Finish(r) == r \in requests /\ requests' = requests \ {r}

\* The request is refused, its transaction is rolled back, or its process dies.
Fail(r) == Finish(r) /\ UNCHANGED <<user, hash, tokens, sessions, chosen, proven>>

NewVersion(u) == user.version < MaxVersion /\ user' = [u EXCEPT !.version = @ + 1]

Live(purposes) ==
  {k \in TokenIds : tokens[k].state = "live" /\ tokens[k].purpose \in purposes}

\* They get a used_at.
Spent(ks) ==
  [k \in TokenIds |-> IF k \in ks THEN [tokens[k] EXCEPT !.state = "spent"] ELSE tokens[k]]

\* changePassword is about to commit.  It has locked the rows of credentials and of
\* users, which every other transaction that writes them waits for; the foreign key
\* of a token is content with the lock.
ChangeUnderWay == \E r \in requests : r.kind = "password" /\ r.marked

ChooseAndKeepTokens(ks) ==
  /\ chosen < MaxPassword
  /\ chosen' = chosen + 1
  /\ hash' = [password |-> chosen + 1, upgraded |-> TRUE]
  /\ NewVersion(user)
  /\ UNCHANGED tokens

\* A new hash, a new version, and these tokens used up.
ChoosePassword(ks) ==
  /\ chosen < MaxPassword
  /\ chosen' = chosen + 1
  /\ hash' = [password |-> chosen + 1, upgraded |-> TRUE]
  /\ NewVersion(user)
  /\ tokens' = Spent(ks)

-----------------------------------------------------------------------------
(***************************************************************************)
(* Passwords and sessions                                                  *)
(***************************************************************************)

\* findByLoginIdentifier reads hash and version together; then the password is
\* verified.
ReadForLogin ==
  /\ user.active
  /\ Receive([kind |-> "login", hash |-> hash, version |-> user.version])

LoginByStaleHash(r) ==
  /\ r.kind = "login" /\ Finish(r)
  /\ ChangeUnderWay => r.hash.upgraded
  /\ hash' = IF ~r.hash.upgraded THEN [r.hash EXCEPT !.upgraded = TRUE] ELSE hash
  /\ sessions' = sessions \cup
       {[version |-> r.version, password |-> r.hash.password, late |-> FALSE]}
  /\ UNCHANGED <<user, tokens, chosen, proven>>

LoginAtPresentVersion(r) ==
  /\ r.kind = "login" /\ Finish(r)
  /\ ChangeUnderWay => r.hash.upgraded
  /\ hash' = IF ~r.hash.upgraded /\ hash = r.hash THEN [hash EXCEPT !.upgraded = TRUE] ELSE hash
  /\ sessions' = sessions \cup
       {[version |-> user.version, password |-> r.hash.password, late |-> FALSE]}
  /\ UNCHANGED <<user, tokens, chosen, proven>>

\* The hash is brought up to date if it is still the one that was read, and the
\* browser gets the version that was read.
Login(r) ==
  /\ r.kind = "login" /\ Finish(r)
  /\ ChangeUnderWay => r.hash.upgraded
  /\ hash' = IF ~r.hash.upgraded /\ hash = r.hash THEN [hash EXCEPT !.upgraded = TRUE] ELSE hash
  /\ sessions' = sessions \cup
       {[version |-> r.version, password |-> r.hash.password, late |-> FALSE]}
  /\ UNCHANGED <<user, tokens, chosen, proven>>

\* findCredential; the present password is verified.  The session was looked at
\* before, and may have ended.
ReadForPassword ==
  /\ sessions # {}
  /\ Receive([kind |-> "password", hash |-> hash, marked |-> FALSE, seen |-> {}])

\* changePassword goes on if the hash is still the one that was verified, and uses up
\* the reset tokens it sees.
StartChange(r) ==
  /\ r \in requests /\ r.kind = "password" /\ ~r.marked
  /\ ~ChangeUnderWay
  /\ hash = r.hash
  /\ requests' = (requests \ {r}) \cup
       {[r EXCEPT !.marked = TRUE, !.seen = Live({"reset_password"})]}
  /\ UNCHANGED <<user, hash, tokens, sessions, chosen, proven>>

\* It commits.
ChangePassword(r) ==
  /\ r.kind = "password" /\ r.marked /\ Finish(r)
  /\ ChoosePassword(r.seen)
  /\ sessions' = sessions \cup
       {[version |-> user'.version, password |-> chosen', late |-> FALSE]}
  /\ UNCHANGED proven

\* resetPassword locks the account against tokens too; the browser's own session is
\* cleared.
ResetPassword(k) ==
  /\ ~ChangeUnderWay
  /\ k \in Live({"reset_password"})
  /\ tokens[k].target = user.email /\ user.active
  /\ ChoosePassword(Live({"reset_password"}))
  /\ UNCHANGED <<requests, sessions, proven>>

ChangeStatusToFirstVersion ==
  /\ ~ChangeUnderWay
  /\ user' = [user EXCEPT !.active = ~@, !.version = 0]
  /\ UNCHANGED <<hash, tokens, requests, sessions, chosen, proven>>

ChangeStatusOnly ==
  /\ ~ChangeUnderWay
  /\ user' = [user EXCEPT !.active = ~@]
  /\ UNCHANGED <<hash, tokens, requests, sessions, chosen, proven>>

\* An administrator bans or reinstates the account.
ChangeUserStatus ==
  /\ ~ChangeUnderWay
  /\ NewVersion([user EXCEPT !.active = ~@])
  /\ UNCHANGED <<hash, tokens, requests, sessions, chosen, proven>>

\* changeGlobalRole and the operator command session_invalidate leave nothing else
\* behind that is told apart here.
InvalidateSessions ==
  /\ ~ChangeUnderWay
  /\ NewVersion(user)
  /\ UNCHANGED <<hash, tokens, requests, sessions, chosen, proven>>

-----------------------------------------------------------------------------
(***************************************************************************)
(* Addresses and tokens                                                    *)
(***************************************************************************)

ReadForEmail(s, e) ==
  /\ Valid(s)
  /\ Receive([kind |-> "email", session |-> s, email |-> e])

\* changeEmail does not look at the session again: it is replaced by a good one
\* even if it has ended meanwhile.
ChangeEmail(r) ==
  /\ r.kind = "email" /\ Finish(r)
  /\ ~ChangeUnderWay
  /\ NewVersion([user EXCEPT !.email = r.email, !.verified = FALSE])
  /\ tokens' = Spent(Live(Purposes))
  /\ sessions' = sessions \cup
       {[version |-> user'.version, password |-> r.session.password,
         late |-> r.session.late \/ ~Valid(r.session)]}
  /\ UNCHANGED <<hash, chosen, proven>>

\* requestPasswordReset and requestEmailVerification read the address.
ReadForToken(purpose) ==
  /\ user.active
  /\ purpose = "verify_email" => \E s \in sessions : Valid(s)
  /\ Receive([kind |-> "issue", purpose |-> purpose, target |-> user.email,
              marked |-> FALSE, seen |-> {}])

\* issueEmailToken uses up the tokens it sees; one that another request is storing
\* is not among them.
MarkTokens(r) ==
  /\ r \in requests /\ r.kind = "issue" /\ ~r.marked
  /\ requests' = (requests \ {r}) \cup
       {[r EXCEPT !.marked = TRUE, !.seen = Live({r.purpose})]}
  /\ UNCHANGED <<user, hash, tokens, sessions, chosen, proven>>

\* The token is stored, those seen are used up and the mail is queued by one commit.
IssueToken(r, k) ==
  /\ r.kind = "issue" /\ r.marked /\ Finish(r)
  /\ tokens[k].state = "absent"
  /\ tokens' = [Spent(r.seen) EXCEPT ![k] =
       [state |-> "live", purpose |-> r.purpose, target |-> r.target,
        password |-> hash.password, during |-> ChangeUnderWay]]
  /\ UNCHANGED <<user, hash, sessions, chosen, proven>>

VerifyWhateverAddress(k) ==
  /\ ~ChangeUnderWay
  /\ k \in Live({"verify_email"})
  /\ user.active
  /\ user' = [user EXCEPT !.verified = TRUE]
  /\ tokens' = Spent(Live({"verify_email"}))
  /\ proven' = proven \cup {tokens[k].target}
  /\ UNCHANGED <<hash, requests, sessions, chosen>>

\* verifyEmail, by someone who has opened the mail sent to the token's target.
VerifyEmail(k) ==
  /\ ~ChangeUnderWay
  /\ k \in Live({"verify_email"})
  /\ tokens[k].target = user.email /\ user.active
  /\ user' = [user EXCEPT !.verified = TRUE]
  /\ tokens' = Spent(Live({"verify_email"}))
  /\ proven' = proven \cup {tokens[k].target}
  /\ UNCHANGED <<hash, requests, sessions, chosen>>

Expire(k) ==
  /\ tokens[k].state = "live"
  /\ tokens' = [tokens EXCEPT ![k].state = "spent"]
  /\ UNCHANGED <<user, hash, requests, sessions, chosen, proven>>

-----------------------------------------------------------------------------

AccountsNext ==
  \/ ReadForLogin \/ ReadForPassword \/ ChangeUserStatus \/ InvalidateSessions
  \/ \E s \in sessions, e \in Emails : ReadForEmail(s, e)
  \/ \E purpose \in Purposes : ReadForToken(purpose)
  \/ \E r \in requests :
       \/ Fail(r) \/ Login(r) \/ StartChange(r) \/ ChangePassword(r)
       \/ ChangeEmail(r) \/ MarkTokens(r)
       \/ \E k \in TokenIds : IssueToken(r, k)
  \/ \E k \in TokenIds : ResetPassword(k) \/ VerifyEmail(k) \/ Expire(k)

AccountsSpec == AccountsInit /\ [][AccountsNext]_accountVars

-----------------------------------------------------------------------------
(***************************************************************************)
(* Properties                                                              *)
(***************************************************************************)

\* The password is the last one that was chosen: a login that upgrades the hash it
\* has read does not bring an older one back, nor does a slow change of password.
PasswordIsLastChosen == hash.password = chosen

\* No token that could reset the password is older than the password.  The exception
\* is one that was stored while a change of password was about to commit, and it
\* outlives that change only.
ResetTokensAreFresh ==
  \A k \in Live({"reset_password"}) :
    hash.password \in tokens[k].password..(tokens[k].password + IF tokens[k].during THEN 1 ELSE 0)

\* A verified address is one at which a mail was opened, also when the address
\* changed between the request for the token and its use.
AddressIsProven == user.verified => user.email \in proven

\* Whoever holds a good session knows the present password: no login or change of
\* address that is slow survives a change of password.  The exception is a change
\* of address under way while its session ends.
SessionsKnowThePassword ==
  \A s \in sessions : Valid(s) /\ ~s.late => s.password = hash.password

\* Password, tokens, verification and sessions all speak of the account as it is
\* now, although every request works from what it read earlier.
ProofsAreCurrent ==
  /\ PasswordIsLastChosen /\ ResetTokensAreFresh
  /\ AddressIsProven /\ SessionsKnowThePassword

\* A session that has ended, by a ban, a change or an operator's command, does not
\* come to life again, whatever is undone later.
EndedSessionsStayEnded ==
  [][\A s \in sessions : ~Valid(s) => ~Valid(s)']_accountVars

=============================================================================
