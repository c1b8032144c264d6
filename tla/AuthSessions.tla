----------------------------- MODULE AuthSessions -----------------------------
(***************************************************************************)
(* The sessions of one account (apps/api/src/auth/auth.service.ts and      *)
(* apps/api/src/account/account.service.ts), and the one invite that it    *)
(* competes for with somebody who has no account yet.                      *)
(*                                                                         *)
(* The operations read a row without a lock, such as a refresh token, a    *)
(* one-time token or the password, and then lock the row of the user and   *)
(* act.  The first read is a step of its own: a request keeps what it read *)
(* while other requests run.  The rest of an operation is one step, because *)
(* it holds the row of the user, and that of the invite where it needs it. *)
(*                                                                         *)
(* Time: a refresh token or a one-time token may be found expired whenever *)
(* it is used, and the request is then refused.  Access tokens carry the   *)
(* generation of the user, which the guard compares; they have no state.   *)
(***************************************************************************)
EXTENDS Integers, Sequences, FiniteSets

CONSTANTS
  Requests,       \* requests of this account that may be in progress
  Passwords,
  RecoveryCodes,
  MaxRows,        \* bound: refresh tokens ever issued
  MaxTokens,      \* bound: one-time tokens ever issued
  MaxGeneration,  \* bound: authGeneration
  None

ASSUME AuthAssumption ==
  /\ MaxRows \in Nat /\ MaxTokens \in Nat /\ MaxGeneration \in Nat
  /\ None \notin Passwords
  /\ "totp" \notin RecoveryCodes

VARIABLES
  user,     \* users: the row of the account
  rows,     \* refresh_tokens of the account, in the order they were issued
  tokens,   \* user_tokens of the account, with the pending invite acceptance
  invite,   \* invites: an invite, and whether its expiresAt has passed
  members,  \* memberships made by the invite: the account's or the stranger's
  request

vars == <<user, rows, tokens, invite, members, request>>

Purposes == {"login_otp", "password_reset"}

\* secret: how totpSecret is stored, as it is or in the envelope of SecretCipher.
User == [generation: 0..MaxGeneration, password: Passwords,
         secret: {"none", "plain", "sealed"}, mfa: BOOLEAN, codes: SUBSET RecoveryCodes]

\* by is not a column: the password that alone opened the session, or None when a
\* second factor was asked for.
LiveRow == [revoked: {FALSE}, generation: 0..MaxGeneration, family: Nat,
            by: Passwords \cup {None}]

\* Nothing else is read of a row with revokedAt.
RevokedRow == [revoked |-> TRUE]
Row == LiveRow \cup {RevokedRow}

\* effects is not a column: how often the token had its effect.
Token == [purpose: Purposes, used: BOOLEAN, invite: BOOLEAN, effects: Nat]

Invite == [status: {"active", "used", "expired"}, late: BOOLEAN]

Idle == [op |-> "idle"]

Init ==
  /\ user \in [generation: {0}, password: Passwords, secret: {"none"},
               mfa: {FALSE}, codes: {{}}]
  /\ rows = <<>>
  /\ tokens = <<>>
  /\ invite = [status |-> "active", late |-> FALSE]
  /\ members = {}
  /\ request = [r \in Requests |-> Idle]

-----------------------------------------------------------------------------
(***************************************************************************)
(* Parts of operations, which hold the row of the user.                    *)
(***************************************************************************)
Begin(r, q) ==
  /\ request[r] = Idle
  /\ request' = [request EXCEPT ![r] = q]
  /\ UNCHANGED <<user, rows, tokens, invite, members>>

End(r) == request' = [request EXCEPT ![r] = Idle]

\* The transaction throws, or finds nothing to do.
Refused(r) == End(r) /\ UNCHANGED <<user, rows, tokens, invite, members>>

Live(n) == ~rows[n].revoked
AllRevoked == [n \in DOMAIN rows |-> RevokedRow]

\* Mutant of Revoked: only the row of the user changes.
NothingRevoked == rows

\* What the revocation of all sessions makes of the refresh tokens.
Revoked == AllRevoked

\* advanceAuthGenerationAndRevokeSessions, with the other columns of the user.
Advance(u) ==
  /\ user.generation < MaxGeneration
  /\ user' = [u EXCEPT !.generation = @ + 1]
  /\ rows' = Revoked

\* issueSessionInTransaction
Issue(assured, by) ==
  /\ Len(rows) < MaxRows
  /\ user.mfa => assured
  /\ rows' = Append(rows, [revoked |-> FALSE, generation |-> user.generation,
                           family |-> Len(rows) + 1, by |-> by])

\* A new one-time token replaces the unused ones of its purpose.
NewToken(purpose, forInvite) ==
  /\ Len(tokens) < MaxTokens
  /\ tokens' = Append([i \in DOMAIN tokens |->
                         IF tokens[i].purpose = purpose
                         THEN [tokens[i] EXCEPT !.used = TRUE] ELSE tokens[i]],
                      [purpose |-> purpose, used |-> FALSE, invite |-> forInvite,
                       effects |-> 0])

\* Mutant of Claimed: the request trusts the row that it read first.
ClaimedAsRead(i) == TRUE

\* The conditional update of a one-time token finds it unused.
Claimed(i) == ~tokens[i].used

Consume(i) ==
  tokens' = [tokens EXCEPT ![i].used = TRUE, ![i].effects = @ + 1]

\* verifyMfaCode, of a recovery code or a code of the current secret.  It takes the column
\* as base32, which an envelope is not.
Verifies(code) ==
  IF code = "totp" THEN user.secret = "plain" ELSE code \in user.codes

\* Mutant of Rechecked: the password is verified before the lock only.
RecheckedNever(p) == TRUE

\* The password is verified once more against the locked row.
Rechecked(p) == user.password = p

-----------------------------------------------------------------------------
(***************************************************************************)
(* login, completeLoginMfa, refresh, logout, revocation                    *)
(***************************************************************************)
StartLogin(r) == Begin(r, [op |-> "login", password |-> user.password])

FinishLogin(r) ==
  LET p == request[r].password IN
  /\ request[r].op = "login"
  /\ IF ~Rechecked(p)
     THEN Refused(r)
     ELSE /\ IF user.mfa
             THEN NewToken("login_otp", FALSE) /\ UNCHANGED rows
             ELSE Issue(FALSE, p) /\ UNCHANGED tokens
          /\ End(r)
          /\ UNCHANGED <<user, invite, members>>

\* refresh, the read: the request keeps the row.
StartRefresh(r, n) ==
  /\ n \in DOMAIN rows
  /\ Begin(r, [op |-> "refresh", n |-> n, row |-> rows[n]])

\* Mutant of Rotates: the update is not conditional on revokedAt.
RotatesAny(n) == TRUE

Rotates(n) == Live(n) /\ rows[n].generation = user.generation

FinishRefresh(r) ==
  LET n == request[r].n
      row == request[r].row
      current == row.generation = user.generation
  IN
  /\ request[r].op = "refresh"
  /\ IF row.revoked
     THEN Advance(user)                                  \* reuse
     ELSE /\ IF ~current
             THEN rows' = [rows EXCEPT ![n] = RevokedRow] \* invalid
             ELSE IF Rotates(n)
             THEN /\ Len(rows) < MaxRows
                  /\ rows' = Append([rows EXCEPT ![n] = RevokedRow],
                                    [row EXCEPT !.generation = user.generation])
             ELSE UNCHANGED rows                         \* rolled back
          /\ UNCHANGED user
  /\ End(r)
  /\ UNCHANGED <<tokens, invite, members>>

StartLogout(r, n) ==
  /\ n \in DOMAIN rows
  /\ Live(n)
  /\ Begin(r, [op |-> "logout"])

FinishLogout(r) ==
  /\ request[r].op = "logout"
  /\ Advance(user)
  /\ End(r)
  /\ UNCHANGED <<tokens, invite, members>>

\* revokeSession and revokeAllSessions, and a platform administrator who suspends a
\* tenant of this account.
RevokeSessions ==
  /\ Advance(user)
  /\ UNCHANGED <<tokens, invite, members, request>>

\* A token or an invite is found expired, or the transaction fails.
Fail(r) ==
  /\ request[r] # Idle
  /\ Refused(r)

-----------------------------------------------------------------------------
(***************************************************************************)
(* One-time tokens                                                         *)
(***************************************************************************)
\* completeLoginMfa and confirmPasswordReset, the read
StartToken(r, i, q) ==
  /\ i \in DOMAIN tokens
  /\ ~tokens[i].used
  /\ Begin(r, q)

StartMfa(r, i) ==
  /\ StartToken(r, i, [op |-> "mfa", i |-> i, late |-> invite.late])
  /\ tokens[i].purpose = "login_otp"

StartReset(r, i) ==
  /\ StartToken(r, i, [op |-> "reset", i |-> i])
  /\ tokens[i].purpose = "password_reset"

RequestReset ==
  /\ NewToken("password_reset", FALSE)
  /\ UNCHANGED <<user, rows, invite, members, request>>

FinishReset(r, p) ==
  LET i == request[r].i IN
  /\ request[r].op = "reset"
  /\ IF ~Claimed(i)
     THEN Refused(r)
     ELSE /\ Consume(i)
          /\ Advance([user EXCEPT !.password = p])
          /\ End(r)
          /\ UNCHANGED <<invite, members>>

-----------------------------------------------------------------------------
(***************************************************************************)
(* The invite                                                              *)
(***************************************************************************)
\* The time is compared at some moment of the transaction; late says whether the invite was
\* late when the transaction began.
Acceptable(late) == invite.status = "active" /\ ~late

\* createUnderWithInviteConsent and the consumption of the invite.
Join(who) ==
  /\ members' = members \cup {who}
  /\ invite' = [invite EXCEPT !.status = "used"]

\* Mutant of StillAcceptable: the invite was checked when it was first read.
StillAcceptableOnce(late) == TRUE

\* Both ways to accept check the invite under its lock, after whatever came before.
StillAcceptable(late) == Acceptable(late) /\ "account" \notin members

FinishMfa(r, code) ==
  LET i == request[r].i IN
  /\ request[r].op = "mfa"
  /\ IF ~Verifies(code) \/ ~Claimed(i) \/ (tokens[i].invite /\ ~StillAcceptable(request[r].late))
     THEN Refused(r)
     ELSE /\ Consume(i)
          /\ user' = [user EXCEPT !.codes = @ \ {code}]
          /\ IF tokens[i].invite THEN Join("account") ELSE UNCHANGED <<invite, members>>
          /\ Issue(TRUE, None)
          /\ End(r)

\* registerByInvite by the account: the reads before its locks.
StartRegister(r) ==
  Begin(r, IF invite.status = "active" /\ invite.late THEN [op |-> "expire"]
           ELSE [op |-> "register", password |-> user.password, late |-> invite.late])

\* The invite was found to be late, outside of any transaction.
FinishExpire(r) ==
  /\ request[r].op = "expire"
  /\ invite' = [invite EXCEPT !.status = "expired"]
  /\ End(r)
  /\ UNCHANGED <<user, rows, tokens, members>>

FinishRegister(r) ==
  LET p == request[r].password IN
  /\ request[r].op = "register"
  /\ IF ~Rechecked(p) \/ ~StillAcceptable(request[r].late)
     THEN Refused(r)
     ELSE /\ IF user.mfa
             THEN NewToken("login_otp", TRUE) /\ UNCHANGED <<rows, invite, members>>
             ELSE Join("account") /\ Issue(FALSE, p) /\ UNCHANGED tokens
          /\ End(r)
          /\ UNCHANGED user

\* registerByInvite by somebody who has no account: only the invite is locked.
RegisterStranger ==
  /\ Acceptable(invite.late)
  /\ Join("stranger")
  /\ UNCHANGED <<user, rows, tokens, request>>

\* Time passes expiresAt of an active invite; that of another is not read.
GetLate ==
  /\ invite.status = "active" /\ ~invite.late
  /\ invite' = [invite EXCEPT !.late = TRUE]
  /\ UNCHANGED <<user, rows, tokens, members, request>>

\* InvitesService.issue marks the late invites of the inviter.
MarkExpired ==
  /\ invite.status = "active" /\ invite.late
  /\ invite' = [invite EXCEPT !.status = "expired"]
  /\ UNCHANGED <<user, rows, tokens, members, request>>

-----------------------------------------------------------------------------
(***************************************************************************)
(* Second factor: auth/2fa (setupMfa, enableMfa, disableMfa), and the page *)
(* account/2fa, which takes no lock and revokes nothing.                   *)
(***************************************************************************)
StartSetup(r) == ~user.mfa /\ Begin(r, [op |-> "setup"])

\* auth/2fa leaves the rest of the row alone, account/2fa writes totpEnabledAt as well.
FinishSetup(r, account) ==
  /\ request[r].op = "setup"
  /\ user' = IF account THEN [user EXCEPT !.secret = "sealed", !.mfa = FALSE]
             ELSE [user EXCEPT !.secret = "plain"]
  /\ End(r)
  /\ UNCHANGED <<rows, tokens, invite, members>>

EnableMfa ==
  /\ Verifies("totp")
  /\ Advance([user EXCEPT !.mfa = TRUE, !.codes = RecoveryCodes])
  /\ UNCHANGED <<tokens, invite, members, request>>

DisableMfa ==
  /\ user.mfa
  /\ \E code \in {"totp"} \cup RecoveryCodes : Verifies(code)
  /\ Advance([user EXCEPT !.mfa = FALSE, !.secret = "none", !.codes = {}])
  /\ UNCHANGED <<tokens, invite, members, request>>

\* enable2fa and disable2fa read the row, and write it by id.
StartAccountMfa(r, on) ==
  /\ IF on THEN user.secret = "sealed" /\ ~user.mfa ELSE user.mfa
  /\ Begin(r, [op |-> "account", on |-> on])

FinishAccountMfa(r) ==
  /\ request[r].op = "account"
  /\ user' = IF request[r].on THEN [user EXCEPT !.mfa = TRUE, !.codes = RecoveryCodes]
             ELSE [user EXCEPT !.mfa = FALSE, !.secret = "none", !.codes = {}]
  /\ End(r)
  /\ UNCHANGED <<rows, tokens, invite, members>>

\* changePassword: the password is verified first, and not again.
StartChange(r) == Begin(r, [op |-> "change", password |-> user.password])

FinishChange(r, p) ==
  /\ request[r].op = "change"
  /\ p # request[r].password
  /\ user' = [user EXCEPT !.password = p]
  /\ rows' = Revoked
  /\ End(r)
  /\ UNCHANGED <<tokens, invite, members>>

\* account.revokeSession and revokeOtherSessions: those of some families.  They do not lock
\* the user; a rotation that commits while the update waits for its row escapes them, as if
\* its family had not been among those meant.
RevokeFamilies(families) ==
  /\ rows' = [n \in DOMAIN rows |->
                IF Live(n) /\ rows[n].family \in families THEN RevokedRow ELSE rows[n]]
  /\ UNCHANGED <<user, tokens, invite, members, request>>

Next ==
  \/ \E r \in Requests :
       \/ StartLogin(r) \/ FinishLogin(r)
       \/ FinishRefresh(r) \/ FinishLogout(r)
       \/ StartRegister(r) \/ FinishRegister(r) \/ FinishExpire(r)
       \/ StartSetup(r) \/ FinishAccountMfa(r) \/ StartChange(r) \/ Fail(r)
       \/ \E n \in 1..MaxRows : StartRefresh(r, n) \/ StartLogout(r, n)
       \/ \E i \in 1..MaxTokens : StartMfa(r, i) \/ StartReset(r, i)
       \/ \E code \in {"totp"} \cup RecoveryCodes : FinishMfa(r, code)
       \/ \E account \in BOOLEAN : FinishSetup(r, account)
       \/ \E on \in BOOLEAN : StartAccountMfa(r, on)
       \/ \E p \in Passwords : FinishReset(r, p) \/ FinishChange(r, p)
  \/ RevokeSessions \/ RequestReset \/ EnableMfa \/ DisableMfa
  \/ RegisterStranger \/ GetLate \/ MarkExpired
  \/ \E families \in SUBSET (1..MaxRows) : RevokeFamilies(families)

Spec == Init /\ [][Next]_vars

-----------------------------------------------------------------------------
(***************************************************************************)
(* Properties                                                              *)
(***************************************************************************)
TypeOK ==
  /\ user \in User
  /\ rows \in Seq(Row)
  /\ tokens \in Seq(Token)
  /\ invite \in Invite
  /\ members \subseteq {"account", "stranger"}

\* However refreshes, logins, resets and revocations interleave, a refresh token that
\* can still be rotated belongs to the current generation: the guard, which compares
\* generations, and the table of refresh tokens agree on which sessions have ended.
LiveSessionsAreCurrent ==
  \A n \in DOMAIN rows : Live(n) => rows[n].generation = user.generation

\* However often a refresh token is presented at once or again, its session has at most
\* one token that works: a rotation has one successor.
OneTokenPerSession ==
  \A m, n \in DOMAIN rows :
    Live(m) /\ Live(n) /\ rows[m].family = rows[n].family => m = n

\* A session that a password alone has opened does not survive the change of that
\* password, also when the login, a rotation or the change were under way at the time.
OldPasswordOpensNothing ==
  \A n \in DOMAIN rows : Live(n) /\ rows[n].by # None => rows[n].by = user.password

\* A challenge or a reset link has its effect once, whatever requests hold it.
OneTimeTokens == \A i \in DOMAIN tokens : tokens[i].effects <= 1

\* An invite makes one membership, whether it is accepted at once, after a challenge or by
\* two people, and does not become active again.
OneMemberPerInvite ==
  /\ Cardinality(members) <= 1
  /\ members # {} => invite.status # "active"
=============================================================================
