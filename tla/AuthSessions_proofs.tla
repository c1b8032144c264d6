-------------------------- MODULE AuthSessions_proofs --------------------------
(***************************************************************************)
(* Theorems about AuthSessions, for any number of requests, sessions,      *)
(* one-time tokens and generations.  Each operation is shown to do one of  *)
(* a few things to each table: refresh tokens end, one is issued, or one   *)
(* is rotated; a one-time token is added or consumed; the invite is used,  *)
(* runs out or stays.  What a request has read is then still true of the   *)
(* tables as far as its second step relies on it.                          *)
(***************************************************************************)
EXTENDS AuthSessions, FiniteSetTheorems, TLAPS

\* The families of live rows are positions in the table, so the next one is new.
FamiliesAreOld ==
  \A n \in DOMAIN rows : Live(n) => rows[n].family \in 1..Len(rows)

RowsInv ==
  /\ rows \in Seq(Row)
  /\ FamiliesAreOld
  /\ LiveSessionsAreCurrent
  /\ OneTokenPerSession
  /\ OldPasswordOpensNothing

TokensInv ==
  /\ tokens \in Seq(Token)
  /\ \A i \in DOMAIN tokens : ~tokens[i].used => tokens[i].effects = 0
  /\ OneTimeTokens

InviteInv ==
  /\ invite \in Invite
  /\ members \subseteq {"account", "stranger"}
  /\ OneMemberPerInvite

\* What a request has read, as far as it can still rely on it when the table of refresh
\* tokens is this one and there are k one-time tokens: a refresh token may only have ended.
ReadOK(q, table, k) ==
  /\ q.op \in {"login", "register"} => q.password \in Passwords
  /\ q.op = "refresh" =>
       /\ q.n \in DOMAIN table
       /\ q.row \in Row
       /\ ~table[q.n].revoked => q.row = table[q.n]
  /\ q.op \in {"mfa", "reset"} => q.i \in 1..k

RequestsInv ==
  /\ request = [r \in Requests |-> request[r]]
  /\ \A r \in Requests : ReadOK(request[r], rows, Len(tokens))

Inv == user \in User /\ RowsInv /\ TokensInv /\ InviteInv /\ RequestsInv

(***************************************************************************)
(* What happens to the tables.                                             *)
(***************************************************************************)

\* Rows and tokens keep their positions, and a row that changes has ended.
RowsGrow ==
  /\ Len(rows) <= Len(rows')
  /\ \A n \in DOMAIN rows : rows'[n] \in {rows[n], RevokedRow}

TablesGrow == RowsGrow /\ Len(tokens) <= Len(tokens')

RowsEnd ==
  /\ rows' \in Seq(Row)
  /\ Len(rows') = Len(rows)
  /\ \A n \in DOMAIN rows : rows'[n] \in {rows[n], RevokedRow}

SamePerson == user'.generation = user.generation /\ user'.password = user.password

\* A row that has not ended has all its columns.
LEMMA LiveRowType ==
  ASSUME rows \in Seq(Row), NEW n \in DOMAIN rows, Live(n)
  PROVE  rows[n] \in LiveRow
BY DEF Row, Live, RevokedRow

\* The row that a revocation leaves is a row, and revoked.
LEMMA RevokedType == RevokedRow \in Row /\ RevokedRow.revoked
BY DEF Row, RevokedRow

\* The revocation of all sessions ends them.
LEMMA RevokedEndsAll ==
  ASSUME rows \in Seq(Row), rows' = Revoked
  PROVE  RowsEnd /\ \A n \in DOMAIN rows' : ~Live(n)'
<1>1. rows' = [n \in 1..Len(rows) |-> RevokedRow] /\ Len(rows) \in Nat
  BY DEF Revoked, AllRevoked
<1>2. rows' \in Seq(Row) /\ Len(rows') = Len(rows)
  BY <1>1, RevokedType
<1> QED
  BY <1>1, <1>2, RevokedType DEF RowsEnd, Live

\* Ending all rows keeps the invariant whatever becomes of the user; ending some keeps it
\* if the user's generation and password stay.
LEMMA EndKeepsRows ==
  ASSUME RowsInv, RowsEnd,
         SamePerson \/ \A n \in DOMAIN rows' : ~Live(n)'
  PROVE  RowsInv' /\ RowsGrow
<1>1. rows \in Seq(Row) /\ rows' \in Seq(Row) /\ DOMAIN rows' = DOMAIN rows
  BY DEF RowsInv, RowsEnd
<1>2. \A n \in DOMAIN rows' : Live(n)' => Live(n) /\ rows'[n] = rows[n]
  BY <1>1, RevokedType DEF RowsEnd, Live
<1>3. Len(rows') = Len(rows)
  BY DEF RowsEnd
<1>4. FamiliesAreOld'
  BY <1>1, <1>2, <1>3 DEF FamiliesAreOld, RowsInv
<1>5. LiveSessionsAreCurrent'
  BY <1>1, <1>2 DEF LiveSessionsAreCurrent, RowsInv, SamePerson
<1>6. OneTokenPerSession'
  BY <1>1, <1>2 DEF OneTokenPerSession, RowsInv
<1>7. OldPasswordOpensNothing'
  BY <1>1, <1>2 DEF OldPasswordOpensNothing, RowsInv, SamePerson
<1> QED
  BY <1>1, <1>3, <1>4, <1>5, <1>6, <1>7 DEF RowsInv, RowsEnd, RowsGrow

\* A table in which some rows have ended and one has been added, which alone is live in
\* its family, belongs to the current generation and, if a password opened it, to the
\* current password.
LEMMA AddKeepsRows ==
  ASSUME RowsInv, SamePerson, NEW base \in Seq(Row), NEW x \in LiveRow,
         Len(base) = Len(rows),
         \A n \in DOMAIN rows : base[n] \in {rows[n], RevokedRow},
         rows' = Append(base, x),
         x.generation = user.generation,
         x.by # None => x.by = user.password,
         x.family \in 1..(Len(rows) + 1),
         \A n \in DOMAIN rows : base[n] = RevokedRow \/ ~Live(n) \/ rows[n].family # x.family
  PROVE  RowsInv' /\ RowsGrow
<1> DEFINE new == Len(rows) + 1
<1>1. /\ rows \in Seq(Row) /\ Len(rows) \in Nat
      /\ DOMAIN rows = 1..Len(rows)
  BY DEF RowsInv
<1>2. x \in Row /\ ~x.revoked
  BY DEF Row, LiveRow
<1>3. /\ rows' \in Seq(Row) /\ Len(rows') = new
      /\ DOMAIN rows' = 1..new
      /\ rows'[new] = x
      /\ \A n \in 1..Len(rows) : rows'[n] = base[n]
  BY <1>1, <1>2
<1>4. \A n \in DOMAIN rows' :
        n # new => n \in DOMAIN rows /\ rows'[n] \in {rows[n], RevokedRow}
  BY <1>1, <1>3
<1>5. \A n \in DOMAIN rows' :
        n # new /\ Live(n)' =>
          /\ n \in DOMAIN rows /\ Live(n) /\ rows'[n] = rows[n]
          /\ rows[n].family # x.family
  BY <1>1, <1>3, <1>4, RevokedType DEF Live
<1>6. FamiliesAreOld'
  BY <1>1, <1>3, <1>5 DEF FamiliesAreOld, RowsInv
<1>7. LiveSessionsAreCurrent'
  BY <1>3, <1>5 DEF LiveSessionsAreCurrent, RowsInv, SamePerson
<1>8. OneTokenPerSession'
  <2> SUFFICES ASSUME NEW m \in DOMAIN rows', NEW n \in DOMAIN rows',
                      Live(m)', Live(n)', rows'[m].family = rows'[n].family
               PROVE  m = n
    BY DEF OneTokenPerSession
  <2>1. CASE m # new /\ n # new
    BY <2>1, <1>5 DEF RowsInv, OneTokenPerSession
  <2>2. CASE m = new /\ n # new
    BY <2>2, <1>3, <1>5
  <2>3. CASE m # new /\ n = new
    BY <2>3, <1>3, <1>5
  <2> QED
    BY <2>1, <2>2, <2>3
<1>9. OldPasswordOpensNothing'
  BY <1>3, <1>5 DEF OldPasswordOpensNothing, RowsInv, SamePerson
<1> QED
  BY <1>1, <1>3, <1>4, <1>6, <1>7, <1>8, <1>9 DEF RowsInv, RowsGrow

\* issueSessionInTransaction
LEMMA IssueKeepsRows ==
  ASSUME RowsInv, user \in User, SamePerson, NEW assured, NEW by \in Passwords \cup {None},
         Issue(assured, by), by # None => by = user.password
  PROVE  RowsInv' /\ RowsGrow
<1> DEFINE x == [revoked |-> FALSE, generation |-> user.generation,
                 family |-> Len(rows) + 1, by |-> by]
<1>1. rows \in Seq(Row) /\ Len(rows) \in Nat /\ DOMAIN rows = 1..Len(rows)
  BY DEF RowsInv
<1>2. x \in LiveRow
  BY <1>1 DEF LiveRow, User
<1>3. rows' = Append(rows, x)
  BY DEF Issue
<1>4. \A n \in DOMAIN rows : ~Live(n) \/ rows[n].family # x.family
  BY <1>1 DEF RowsInv, FamiliesAreOld
<1>5. /\ x.generation = user.generation
      /\ x.by # None => x.by = user.password
      /\ x.family \in 1..(Len(rows) + 1)
  BY <1>1
<1> HIDE DEF x
<1> QED
  BY <1>1, <1>2, <1>3, <1>4, <1>5, AddKeepsRows

\* Tables that grow leave a request what it relies on.
LEMMA RequestStaysOK ==
  ASSUME RowsInv, TokensInv, TablesGrow, rows' \in Seq(Row), tokens' \in Seq(Token),
         NEW q, ReadOK(q, rows, Len(tokens))
  PROVE  ReadOK(q, rows', Len(tokens'))
<1>1. /\ Len(rows) \in Nat /\ DOMAIN rows = 1..Len(rows)
      /\ Len(rows') \in Nat /\ DOMAIN rows' = 1..Len(rows')
      /\ Len(tokens) \in Nat /\ DOMAIN tokens = 1..Len(tokens)
      /\ Len(tokens') \in Nat /\ DOMAIN tokens' = 1..Len(tokens')
  BY DEF RowsInv, TokensInv
<1>2. DOMAIN rows \subseteq DOMAIN rows' /\ DOMAIN tokens \subseteq DOMAIN tokens'
  BY <1>1 DEF TablesGrow, RowsGrow
<1>3. \A n \in DOMAIN rows : Live(n)' => Live(n) /\ rows'[n] = rows[n]
  BY RevokedType DEF TablesGrow, RowsGrow, Live
<1> QED
  BY <1>1, <1>2, <1>3 DEF ReadOK, Live, TablesGrow, RowsGrow

\* The requests after a step, of which one may have started or ended.
LEMMA RequestsKept ==
  ASSUME RowsInv, TokensInv, RequestsInv, TablesGrow,
         rows' \in Seq(Row), tokens' \in Seq(Token),
         request' = request \/ \E r \in Requests : End(r)
  PROVE  RequestsInv'
<1>1. ReadOK(Idle, rows', Len(tokens'))
  BY DEF ReadOK, Idle
<1>2. \A r \in Requests : ReadOK(request[r], rows', Len(tokens'))
  BY RequestStaysOK DEF RequestsInv
<1>3. \A r \in Requests : request'[r] \in {request[r], Idle}
  BY DEF RequestsInv, End
<1>4. request' = [r \in Requests |-> request'[r]]
  BY DEF RequestsInv, End
<1> QED
  BY <1>1, <1>2, <1>3, <1>4 DEF RequestsInv

\* The first step of a request changes nothing else.
LEMMA BeginStep ==
  ASSUME Inv, NEW r \in Requests, NEW q, Begin(r, q), ReadOK(q, rows, Len(tokens))
  PROVE  Inv'
<1>1. UNCHANGED <<user, rows, tokens, invite, members>>
  BY DEF Begin
<1>2. \A t \in Requests : ReadOK(request[t], rows, Len(tokens))
  BY DEF Inv, RequestsInv
<1>3. request' = [request EXCEPT ![r] = q]
  BY DEF Begin
<1>4. RequestsInv'
  BY <1>1, <1>2, <1>3 DEF Inv, RequestsInv
<1> QED
  BY <1>1, <1>4 DEF Inv, RowsInv, TokensInv, InviteInv, FamiliesAreOld, Live,
     LiveSessionsAreCurrent, OneTokenPerSession, OldPasswordOpensNothing, OneTimeTokens,
     OneMemberPerInvite

\* A new one-time token is unused and had no effect.
LEMMA NewTokenKeepsTokens ==
  ASSUME TokensInv, NEW purpose \in Purposes, NEW forInvite \in BOOLEAN,
         NewToken(purpose, forInvite)
  PROVE  TokensInv' /\ Len(tokens) <= Len(tokens')
<1> DEFINE old(i) == IF tokens[i].purpose = purpose
                     THEN [tokens[i] EXCEPT !.used = TRUE] ELSE tokens[i]
           base == [i \in DOMAIN tokens |-> old(i)]
           x == [purpose |-> purpose, used |-> FALSE, invite |-> forInvite, effects |-> 0]
<1>1. /\ tokens \in Seq(Token) /\ Len(tokens) \in Nat /\ DOMAIN tokens = 1..Len(tokens)
      /\ \A i \in DOMAIN tokens : tokens[i] \in Token
  BY DEF TokensInv
<1>2. x \in Token
  BY DEF Token
<1>3. \A i \in DOMAIN tokens : /\ old(i) \in Token
                               /\ old(i).effects = tokens[i].effects
                               /\ ~old(i).used => ~tokens[i].used
  BY <1>1 DEF Token
<1>4. tokens' = Append(base, x)
  BY DEF NewToken
<1>5. /\ base \in Seq(Token) /\ Len(base) = Len(tokens)
      /\ \A i \in DOMAIN tokens : base[i] = old(i)
  <2> HIDE DEF old
  <2> QED
    BY <1>1, <1>3
<1> HIDE DEF base, x
<1>6. /\ tokens' \in Seq(Token)
      /\ Len(tokens') = Len(tokens) + 1
      /\ \A i \in DOMAIN tokens' : \/ tokens'[i] = x
                                   \/ i \in DOMAIN tokens /\ tokens'[i] = old(i)
  <2> HIDE DEF old
  <2> QED
    BY <1>1, <1>2, <1>4, <1>5
<1> USE DEF x
<1> HIDE DEF old
<1>7. \A i \in DOMAIN tokens' : ~tokens'[i].used => tokens'[i].effects = 0
  BY <1>3, <1>6 DEF TokensInv
<1>8. \A i \in DOMAIN tokens' : tokens'[i].effects <= 1
  BY <1>3, <1>6 DEF TokensInv, OneTimeTokens
<1> QED
  BY <1>1, <1>6, <1>7, <1>8 DEF TokensInv, OneTimeTokens

\* The columns of a token that is consumed.
LEMMA ConsumedToken ==
  ASSUME NEW t \in Token, t.effects = 0
  PROVE  /\ [t EXCEPT !.used = TRUE, !.effects = @ + 1] \in Token
         /\ [t EXCEPT !.used = TRUE, !.effects = @ + 1].used = TRUE
         /\ [t EXCEPT !.used = TRUE, !.effects = @ + 1].effects = 1
<1>1. [t EXCEPT !.used = TRUE, !.effects = @ + 1] \in Token
  <2> DEFINE y == [t EXCEPT !.used = TRUE]
  <2>1. y \in Token
    BY DEF Token
  <2> HIDE DEF y
  <2>2. [y EXCEPT !.effects = t.effects + 1] \in Token
    BY <2>1 DEF Token
  <2> QED
    BY <2>2 DEF y
<1>2. [t EXCEPT !.used = TRUE, !.effects = @ + 1].used = TRUE
  BY DEF Token
<1>3. [t EXCEPT !.used = TRUE, !.effects = @ + 1].effects = 1
  BY DEF Token
<1> QED
  BY <1>1, <1>2, <1>3

\* A token that is consumed was unused, so this is its first effect.
LEMMA ConsumeKeepsTokens ==
  ASSUME TokensInv, NEW i \in DOMAIN tokens, Claimed(i), Consume(i)
  PROVE  TokensInv' /\ Len(tokens) <= Len(tokens')
<1>1. /\ tokens \in Seq(Token) /\ Len(tokens) \in Nat /\ DOMAIN tokens = 1..Len(tokens)
      /\ tokens[i] \in Token
      /\ tokens[i].effects = 0
  BY DEF TokensInv, Claimed
<1> DEFINE x == [tokens[i] EXCEPT !.used = TRUE, !.effects = @ + 1]
<1>2. x \in Token /\ x.used = TRUE /\ x.effects = 1
  BY <1>1, ConsumedToken
<1>3. tokens' = [tokens EXCEPT ![i] = x]
  BY <1>1 DEF Consume
<1> HIDE DEF x
<1>4. /\ tokens' \in Seq(Token) /\ Len(tokens') = Len(tokens)
      /\ DOMAIN tokens' = DOMAIN tokens
      /\ \A j \in DOMAIN tokens : tokens'[j] = IF j = i THEN x ELSE tokens[j]
  BY <1>1, <1>2, <1>3
<1> QED
  BY <1>1, <1>2, <1>4 DEF TokensInv, OneTimeTokens

\* Whoever joins finds nobody there, and uses the invite up.
LEMMA JoinKeepsInvite ==
  ASSUME InviteInv, NEW who \in {"account", "stranger"}, invite.status = "active", Join(who)
  PROVE  InviteInv'
<1>1. members = {}
  BY DEF InviteInv, OneMemberPerInvite
<1>2. members' = {who} /\ Cardinality({who}) = 1
  BY <1>1, FS_Singleton DEF Join
<1>3. invite' \in Invite /\ invite'.status # "active"
  BY DEF InviteInv, Invite, Join
<1> QED
  BY <1>2, <1>3 DEF InviteInv, OneMemberPerInvite

\* The invite changes and admits nobody.
LEMMA InviteRunsOut ==
  ASSUME InviteInv, invite' \in Invite, members' = members,
         invite.status # "active" => invite'.status # "active"
  PROVE  InviteInv'
BY DEF InviteInv, OneMemberPerInvite

\* A step that does to each table one of the things above keeps the invariant.
LEMMA Combine ==
  ASSUME Inv, user' \in User, RowsInv', TokensInv', InviteInv', TablesGrow,
         request' = request \/ \E r \in Requests : End(r)
  PROVE  Inv'
<1>1. rows' \in Seq(Row) /\ tokens' \in Seq(Token)
  BY DEF RowsInv, TokensInv
<1>2. RequestsInv'
  BY <1>1, RequestsKept DEF Inv
<1> QED
  BY <1>2 DEF Inv

\* Refresh tokens that a step leaves alone.
LEMMA RowsStay ==
  ASSUME RowsInv, rows' = rows, SamePerson
  PROVE  RowsInv' /\ RowsGrow
<1>1. RowsEnd
  BY DEF RowsInv, RowsEnd
<1> QED
  BY <1>1, EndKeepsRows

\* Ending every session keeps the table in order.
LEMMA AllRowsEnd ==
  ASSUME RowsInv, rows' = Revoked
  PROVE  RowsInv' /\ RowsGrow
<1>1. RowsEnd /\ \A n \in DOMAIN rows' : ~Live(n)'
  BY RevokedEndsAll DEF RowsInv
<1> QED
  BY <1>1, EndKeepsRows

\* One-time tokens that a step leaves alone.
LEMMA TokensStay ==
  ASSUME TokensInv, tokens' = tokens
  PROVE  TokensInv' /\ Len(tokens) <= Len(tokens')
BY DEF TokensInv, OneTimeTokens

\* An invite that a step leaves alone.
LEMMA InviteStays ==
  ASSUME InviteInv, UNCHANGED <<invite, members>>
  PROVE  InviteInv'
BY DEF InviteInv, OneMemberPerInvite

(***************************************************************************)
(* The steps.                                                              *)
(***************************************************************************)

\* A refusal and a stuttering step change no table.
LEMMA StayStep ==
  ASSUME Inv, UNCHANGED <<user, rows, tokens, invite, members>>,
         request' = request \/ \E r \in Requests : End(r)
  PROVE  Inv'
<1>1. user' \in User /\ SamePerson
  BY DEF Inv, SamePerson
<1>2. RowsInv' /\ RowsGrow /\ TokensInv' /\ Len(tokens) <= Len(tokens') /\ InviteInv'
  BY <1>1, RowsStay, TokensStay, InviteStays DEF Inv
<1> QED
  BY <1>1, <1>2, Combine DEF TablesGrow

\* A refused request preserves the invariant.
LEMMA RefusedStep ==
  ASSUME Inv, NEW r \in Requests, Refused(r)
  PROVE  Inv'
BY StayStep DEF Refused

\* The first steps.
LEMMA StartStep ==
  ASSUME Inv, NEW r \in Requests,
         \/ StartLogin(r) \/ StartRegister(r) \/ StartSetup(r) \/ StartChange(r)
         \/ \E n \in 1..MaxRows : StartRefresh(r, n) \/ StartLogout(r, n)
         \/ \E i \in 1..MaxTokens : StartMfa(r, i) \/ StartReset(r, i)
         \/ \E on \in BOOLEAN : StartAccountMfa(r, on)
  PROVE  Inv'
<1> USE DEF ReadOK
<1>1. user.password \in Passwords
  BY DEF Inv, User
<1>2. CASE StartLogin(r)
  BY <1>1, <1>2, BeginStep DEF StartLogin
<1>3. CASE StartRegister(r)
  BY <1>1, <1>3, BeginStep DEF StartRegister
<1>4. CASE StartSetup(r)
  BY <1>4, BeginStep DEF StartSetup
<1>5. CASE StartChange(r)
  BY <1>5, BeginStep DEF StartChange
<1>6. ASSUME NEW n \in 1..MaxRows, StartRefresh(r, n)
      PROVE  Inv'
  <2>1. rows[n] \in Row /\ n \in DOMAIN rows
    BY <1>6 DEF Inv, RowsInv, StartRefresh
  <2> QED
    BY <1>6, <2>1, BeginStep DEF StartRefresh
<1>7. ASSUME NEW n \in 1..MaxRows, StartLogout(r, n)
      PROVE  Inv'
  BY <1>7, BeginStep DEF StartLogout
<1>8. ASSUME NEW i \in 1..MaxTokens, StartMfa(r, i) \/ StartReset(r, i)
      PROVE  Inv'
  <2>1. i \in 1..Len(tokens)
    BY <1>8 DEF Inv, TokensInv, StartMfa, StartReset, StartToken
  <2> QED
    BY <1>8, <2>1, BeginStep DEF StartMfa, StartReset, StartToken
<1>9. ASSUME NEW on \in BOOLEAN, StartAccountMfa(r, on)
      PROVE  Inv'
  BY <1>9, BeginStep DEF StartAccountMfa
<1> QED
  BY <1>2, <1>3, <1>4, <1>5, <1>6, <1>7, <1>8, <1>9
\* Advancing the generation ends all sessions.
LEMMA AdvanceEndsAll ==
  ASSUME Inv, NEW u \in User, u.generation = user.generation, Advance(u)
  PROVE  user' \in User /\ RowsInv' /\ RowsGrow
<1>1. u.generation \in Nat /\ u.generation < MaxGeneration /\ MaxGeneration \in Nat
  BY AuthAssumption DEF Inv, User, Advance
<1>2. u.generation + 1 \in 0..MaxGeneration
  BY <1>1
<1>3. user' = [u EXCEPT !.generation = u.generation + 1]
  BY DEF Advance
<1>4. user' \in User
  BY <1>2, <1>3 DEF User
<1> QED
  BY <1>4, AllRowsEnd DEF Inv, Advance

\* The locked step of a login preserves the invariant.
LEMMA LoginStep ==
  ASSUME Inv, NEW r \in Requests, FinishLogin(r)
  PROVE  Inv'
<1> DEFINE p == request[r].password
<1>1. p \in Passwords
  BY DEF Inv, RequestsInv, ReadOK, FinishLogin
<1>2. CASE ~Rechecked(p)
  BY <1>2, RefusedStep DEF FinishLogin
<1>3. CASE Rechecked(p)
  <2>1. /\ UNCHANGED <<user, invite, members>> /\ End(r)
        /\ user' \in User /\ SamePerson /\ InviteInv'
    BY <1>3, InviteStays DEF FinishLogin, Inv, SamePerson
  <2>2. CASE user.mfa
    <3>1. NewToken("login_otp", FALSE) /\ rows' = rows
      BY <1>3, <2>2 DEF FinishLogin
    <3>2. TokensInv' /\ Len(tokens) <= Len(tokens')
      BY <3>1, NewTokenKeepsTokens DEF Inv, Purposes
    <3> QED
      BY <2>1, <3>1, <3>2, RowsStay, Combine DEF Inv, TablesGrow
  <2>3. CASE ~user.mfa
    <3>1. Issue(FALSE, p) /\ tokens' = tokens
      BY <1>3, <2>3 DEF FinishLogin
    <3>2. RowsInv' /\ RowsGrow
      BY <1>1, <1>3, <2>1, <3>1, IssueKeepsRows DEF Inv, Rechecked
    <3> QED
      BY <2>1, <3>1, <3>2, TokensStay, Combine DEF Inv, TablesGrow
  <2> QED
    BY <2>2, <2>3
<1> QED
  BY <1>2, <1>3

\* A rotation ends its token and issues one of the same session, whose other tokens have
\* all ended before.
LEMMA RotationKeepsRows ==
  ASSUME Inv, SamePerson, NEW n \in DOMAIN rows, NEW row \in Row, ~row.revoked, row = rows[n],
         Rotates(n),
         rows' = Append([rows EXCEPT ![n] = RevokedRow],
                        [row EXCEPT !.generation = user.generation])
  PROVE  RowsInv' /\ RowsGrow
<1> DEFINE base == [rows EXCEPT ![n] = RevokedRow]
           x == [row EXCEPT !.generation = user.generation]
<1>1. /\ RowsInv /\ rows \in Seq(Row) /\ Len(rows) \in Nat /\ DOMAIN rows = 1..Len(rows)
      /\ user.generation \in 0..MaxGeneration
  BY DEF Inv, RowsInv, User
<1>2. Live(n) /\ row \in LiveRow
  BY <1>1, LiveRowType DEF Rotates
<1>3. /\ x \in LiveRow
      /\ x.generation = user.generation /\ x.by = row.by /\ x.family = row.family
  BY <1>1, <1>2 DEF LiveRow
<1>4. /\ base \in Seq(Row) /\ Len(base) = Len(rows)
      /\ \A m \in DOMAIN rows : base[m] = IF m = n THEN RevokedRow ELSE rows[m]
  BY <1>1, RevokedType
<1>5. x.by # None => x.by = user.password
  BY <1>1, <1>2, <1>3 DEF RowsInv, OldPasswordOpensNothing
<1>6. x.family \in 1..(Len(rows) + 1)
  BY <1>1, <1>2, <1>3 DEF RowsInv, FamiliesAreOld
<1>7. \A m \in DOMAIN rows : base[m] = RevokedRow \/ ~Live(m) \/ rows[m].family # x.family
  BY <1>1, <1>2, <1>3, <1>4 DEF RowsInv, OneTokenPerSession
<1>8. rows' = Append(base, x)
  OBVIOUS
<1> HIDE DEF base, x
<1> QED
  BY <1>1, <1>3, <1>4, <1>5, <1>6, <1>7, <1>8, AddKeepsRows

\* The locked step of a refresh, a rotation or the answer to a reuse, preserves the invariant.
LEMMA RefreshStep ==
  ASSUME Inv, NEW r \in Requests, FinishRefresh(r)
  PROVE  Inv'
<1> DEFINE n == request[r].n
           row == request[r].row
<1>1. /\ n \in DOMAIN rows /\ row \in Row
      /\ Live(n) => row = rows[n]
  BY DEF Inv, RequestsInv, ReadOK, FinishRefresh, Live
<1>2. UNCHANGED <<tokens, invite, members>> /\ End(r)
  BY DEF FinishRefresh
<1>3. TokensInv' /\ Len(tokens) <= Len(tokens') /\ InviteInv'
  BY <1>2, TokensStay, InviteStays DEF Inv
<1>4. user' \in User /\ RowsInv' /\ RowsGrow
  <2>1. CASE row.revoked
    BY <2>1, AdvanceEndsAll DEF FinishRefresh, Inv
  <2>2. CASE ~row.revoked
    <3>1. user' = user /\ SamePerson
      BY <2>2 DEF FinishRefresh, SamePerson
    <3>2. CASE row.generation # user.generation
      <4>1. rows' = [rows EXCEPT ![n] = RevokedRow]
        BY <2>2, <3>2 DEF FinishRefresh
      <4>2. RowsEnd
        BY <1>1, <4>1, RevokedType DEF RowsEnd, Inv, RowsInv
      <4> QED
        BY <3>1, <4>2, EndKeepsRows DEF Inv
    <3>3. CASE row.generation = user.generation /\ Rotates(n)
      <4>1. rows' = Append([rows EXCEPT ![n] = RevokedRow],
                           [row EXCEPT !.generation = user.generation])
        BY <2>2, <3>3 DEF FinishRefresh
      <4>2. row = rows[n]
        BY <1>1, <3>3 DEF Rotates
      <4> HIDE DEF n, row
      <4> QED
        BY <1>1, <2>2, <3>1, <3>3, <4>1, <4>2, RotationKeepsRows DEF Inv
    <3>4. CASE row.generation = user.generation /\ ~Rotates(n)
      <4>1. rows' = rows
        BY <2>2, <3>4 DEF FinishRefresh
      <4> QED
        BY <3>1, <4>1, RowsStay DEF Inv
    <3> QED
      BY <3>2, <3>3, <3>4
  <2> QED
    BY <2>1, <2>2
<1> QED
  BY <1>2, <1>3, <1>4, Combine DEF TablesGrow
\* A logout and the revocations of all sessions; an authenticator that is enabled or
\* disabled under the lock of the user.
LEMMA AdvanceStep ==
  ASSUME Inv, NEW u \in User, u.generation = user.generation, Advance(u),
         UNCHANGED <<tokens, invite, members>>,
         request' = request \/ \E r \in Requests : End(r)
  PROVE  Inv'
<1>1. user' \in User /\ RowsInv' /\ RowsGrow
  BY AdvanceEndsAll
<1> QED
  BY <1>1, TokensStay, InviteStays, Combine DEF Inv, TablesGrow

\* The user's other columns change without a lock.
LEMMA FactorStep ==
  ASSUME Inv, user' \in User, SamePerson, UNCHANGED <<rows, tokens, invite, members>>,
         request' = request \/ \E r \in Requests : End(r)
  PROVE  Inv'
BY RowsStay, TokensStay, InviteStays, Combine DEF Inv, TablesGrow

\* Enabling and disabling second factors preserves the invariant.
LEMMA SecondFactorStep ==
  ASSUME Inv,
         \/ EnableMfa \/ DisableMfa
         \/ \E r \in Requests : FinishAccountMfa(r) \/ \E account \in BOOLEAN : FinishSetup(r, account)
  PROVE  Inv'
<1>1. user \in User
  BY DEF Inv
<1>2. CASE EnableMfa
  <2>1. [user EXCEPT !.mfa = TRUE, !.codes = RecoveryCodes] \in User
    BY <1>1 DEF User
  <2> QED
    BY <1>1, <1>2, <2>1, AdvanceStep DEF EnableMfa, User
<1>3. CASE DisableMfa
  <2>1. [user EXCEPT !.mfa = FALSE, !.secret = "none", !.codes = {}] \in User
    BY <1>1 DEF User
  <2> QED
    BY <1>1, <1>3, <2>1, AdvanceStep DEF DisableMfa, User
<1>4. ASSUME NEW r \in Requests, FinishAccountMfa(r)
      PROVE  Inv'
  <2>1. user' \in User /\ SamePerson
    BY <1>1, <1>4 DEF FinishAccountMfa, User, SamePerson
  <2> QED
    BY <1>4, <2>1, FactorStep DEF FinishAccountMfa
<1>5. ASSUME NEW r \in Requests, NEW account \in BOOLEAN, FinishSetup(r, account)
      PROVE  Inv'
  <2>1. user' \in User /\ SamePerson
    BY <1>1, <1>5 DEF FinishSetup, User, SamePerson
  <2> QED
    BY <1>5, <2>1, FactorStep DEF FinishSetup
<1> QED
  BY <1>2, <1>3, <1>4, <1>5

\* A reset consumes its token and ends all sessions; a change of the password ends them
\* too, though it locks nothing.
LEMMA ResetStep ==
  ASSUME Inv, NEW r \in Requests, NEW p \in Passwords, FinishReset(r, p)
  PROVE  Inv'
<1> DEFINE i == request[r].i
           u == [user EXCEPT !.password = p]
<1>1. i \in DOMAIN tokens
  BY DEF Inv, TokensInv, RequestsInv, ReadOK, FinishReset
<1>2. CASE ~Claimed(i)
  BY <1>2, RefusedStep DEF FinishReset
<1>3. CASE Claimed(i)
  <2>1. Consume(i) /\ Advance(u) /\ End(r) /\ UNCHANGED <<invite, members>>
    BY <1>3 DEF FinishReset
  <2>2. u \in User /\ u.generation = user.generation
    BY DEF Inv, User
  <2> HIDE DEF u, i
  <2>3. user' \in User /\ RowsInv' /\ RowsGrow
    BY <2>1, <2>2, AdvanceEndsAll
  <2>4. TokensInv' /\ Len(tokens) <= Len(tokens')
    BY <1>1, <1>3, <2>1, ConsumeKeepsTokens DEF Inv
  <2> QED
    BY <2>1, <2>3, <2>4, InviteStays, Combine DEF Inv, TablesGrow
<1> QED
  BY <1>2, <1>3

\* A change of the password preserves the invariant.
LEMMA ChangeStep ==
  ASSUME Inv, NEW r \in Requests, NEW p \in Passwords, FinishChange(r, p)
  PROVE  Inv'
<1>1. user' \in User
  BY DEF FinishChange, Inv, User
<1>2. RowsInv' /\ RowsGrow
  BY AllRowsEnd DEF FinishChange, Inv
<1> QED
  BY <1>1, <1>2, TokensStay, InviteStays, Combine DEF FinishChange, Inv, TablesGrow

\* Ending chosen sessions preserves the invariant.
LEMMA RevokeStep ==
  ASSUME Inv, NEW families, RevokeFamilies(families)
  PROVE  Inv'
<1>1. rows \in Seq(Row) /\ Len(rows) \in Nat /\ DOMAIN rows = 1..Len(rows)
  BY DEF Inv, RowsInv
<1>2. \A n \in DOMAIN rows : rows[n] \in Row
  BY <1>1
<1>3. \A n \in DOMAIN rows : rows'[n] \in {rows[n], RevokedRow}
  BY DEF RevokeFamilies
<1>4. rows' = [n \in 1..Len(rows) |-> rows'[n]]
  BY <1>1 DEF RevokeFamilies
<1>5. RowsEnd
  BY <1>1, <1>2, <1>3, <1>4, RevokedType DEF RowsEnd
<1>6. SamePerson /\ user' \in User
  BY DEF RevokeFamilies, SamePerson, Inv
<1> QED
  BY <1>5, <1>6, EndKeepsRows, TokensStay, InviteStays, Combine
     DEF RevokeFamilies, Inv, TablesGrow

(***************************************************************************)
(* Steps of the invite.                                                    *)
(***************************************************************************)
LEMMA MfaStep ==
  ASSUME Inv, NEW r \in Requests, NEW code, FinishMfa(r, code)
  PROVE  Inv'
<1> DEFINE i == request[r].i
           refused == \/ ~Verifies(code) \/ ~Claimed(i)
                      \/ (tokens[i].invite /\ ~StillAcceptable(request[r].late))
<1>1. i \in DOMAIN tokens
  BY DEF Inv, TokensInv, RequestsInv, ReadOK, FinishMfa
<1>2. CASE refused
  BY <1>2, RefusedStep DEF FinishMfa
<1>3. CASE ~refused
  <2>1. /\ Claimed(i) /\ Consume(i) /\ Issue(TRUE, None) /\ End(r)
        /\ user' = [user EXCEPT !.codes = @ \ {code}]
        /\ IF tokens[i].invite THEN Join("account") ELSE UNCHANGED <<invite, members>>
        /\ tokens[i].invite => StillAcceptable(request[r].late)
    BY <1>3 DEF FinishMfa
  <2> HIDE DEF i
  <2>2. user' \in User /\ SamePerson
    BY <2>1 DEF Inv, User, SamePerson
  <2>3. TokensInv' /\ Len(tokens) <= Len(tokens')
    BY <1>1, <2>1, ConsumeKeepsTokens DEF Inv
  <2>4. RowsInv' /\ RowsGrow
    BY <2>1, <2>2, IssueKeepsRows DEF Inv
  <2>5. InviteInv'
    BY <2>1, JoinKeepsInvite, InviteStays DEF Inv, StillAcceptable, Acceptable
  <2> QED
    BY <2>1, <2>2, <2>3, <2>4, <2>5, Combine DEF TablesGrow
<1> QED
  BY <1>2, <1>3

\* The locked step of an acceptance preserves the invariant.
LEMMA RegisterStep ==
  ASSUME Inv, NEW r \in Requests, FinishRegister(r)
  PROVE  Inv'
<1> DEFINE p == request[r].password
<1>1. p \in Passwords
  BY DEF Inv, RequestsInv, ReadOK, FinishRegister
<1>2. CASE ~Rechecked(p) \/ ~StillAcceptable(request[r].late)
  BY <1>2, RefusedStep DEF FinishRegister
<1>3. CASE Rechecked(p) /\ StillAcceptable(request[r].late)
  <2>1. user' = user /\ End(r) /\ user' \in User /\ SamePerson
    BY <1>3 DEF FinishRegister, Inv, SamePerson
  <2>2. CASE user.mfa
    <3>1. NewToken("login_otp", TRUE) /\ UNCHANGED <<rows, invite, members>>
      BY <1>3, <2>2 DEF FinishRegister
    <3>2. TokensInv' /\ Len(tokens) <= Len(tokens')
      BY <3>1, NewTokenKeepsTokens DEF Inv, Purposes
    <3> QED
      BY <2>1, <3>1, <3>2, RowsStay, InviteStays, Combine DEF Inv, TablesGrow
  <2>3. CASE ~user.mfa
    <3>1. Join("account") /\ Issue(FALSE, p) /\ tokens' = tokens
      BY <1>3, <2>3 DEF FinishRegister
    <3>2. RowsInv' /\ RowsGrow
      BY <1>1, <1>3, <2>1, <3>1, IssueKeepsRows DEF Inv, Rechecked
    <3>3. InviteInv'
      BY <1>3, <3>1, JoinKeepsInvite DEF Inv, StillAcceptable, Acceptable
    <3> QED
      BY <2>1, <3>1, <3>2, <3>3, TokensStay, Combine DEF Inv, TablesGrow
  <2> QED
    BY <2>2, <2>3
<1> QED
  BY <1>2, <1>3

\* The invite is accepted by somebody else, or runs out.
LEMMA InviteStep ==
  ASSUME Inv,
         RegisterStranger \/ GetLate \/ MarkExpired \/ \E r \in Requests : FinishExpire(r)
  PROVE  Inv'
<1>1. UNCHANGED <<user, rows, tokens>> /\ user' \in User /\ SamePerson
  BY DEF RegisterStranger, GetLate, MarkExpired, FinishExpire, Inv, SamePerson
<1>2. request' = request \/ \E r \in Requests : End(r)
  BY DEF RegisterStranger, GetLate, MarkExpired, FinishExpire
<1>3. InviteInv'
  <2>1. InviteInv /\ invite \in Invite
    BY DEF Inv, InviteInv
  <2>2. CASE RegisterStranger
    BY <2>1, <2>2, JoinKeepsInvite DEF RegisterStranger, Acceptable
  <2>3. CASE GetLate
    BY <2>1, <2>3, InviteRunsOut DEF GetLate, Invite
  <2>4. CASE MarkExpired
    BY <2>1, <2>4, InviteRunsOut DEF MarkExpired, Invite
  <2>5. ASSUME NEW r \in Requests, FinishExpire(r)
        PROVE  InviteInv'
    BY <2>1, <2>5, InviteRunsOut DEF FinishExpire, Invite
  <2> QED
    BY <2>2, <2>3, <2>4, <2>5
<1> QED
  BY <1>1, <1>2, <1>3, RowsStay, TokensStay, Combine DEF Inv, TablesGrow

(***************************************************************************)
(* The theorems.                                                           *)
(***************************************************************************)
LEMMA InvInitially == Init => Inv
<1> SUFFICES ASSUME Init
             PROVE  Inv
  OBVIOUS
<1>1. user \in User
  <2>1. 0 \in 0..MaxGeneration
    BY AuthAssumption
  <2>2. user \in [generation: {0}, password: Passwords, secret: {"none"}, mfa: {FALSE}, codes: {{}}]
    BY DEF Init
  <2>3. /\ user.generation \in 0..MaxGeneration /\ user.password \in Passwords
        /\ user.secret \in {"none", "plain", "sealed"}
        /\ user.mfa \in BOOLEAN /\ user.codes \in SUBSET RecoveryCodes
    BY <2>1, <2>2
  <2>4. user = [generation |-> user.generation, password |-> user.password,
                secret |-> user.secret, mfa |-> user.mfa, codes |-> user.codes]
    BY <2>2
  <2> QED
    BY <2>3, <2>4 DEF User
<1>2. RowsInv
  BY DEF Init, RowsInv, FamiliesAreOld, LiveSessionsAreCurrent, OneTokenPerSession,
     OldPasswordOpensNothing
<1>3. TokensInv
  BY DEF Init, TokensInv, OneTimeTokens
<1>4. InviteInv
  BY FS_EmptySet DEF Init, InviteInv, Invite, OneMemberPerInvite
<1>5. RequestsInv
  BY DEF Init, RequestsInv, ReadOK, Idle
<1> QED
  BY <1>1, <1>2, <1>3, <1>4, <1>5 DEF Inv

\* Every step preserves the invariant.
LEMMA InvIsInductive == Inv /\ [Next]_vars => Inv'
<1> SUFFICES ASSUME Inv, [Next]_vars
             PROVE  Inv'
  OBVIOUS
<1>1. ASSUME NEW r \in Requests,
             \/ StartLogin(r) \/ StartRegister(r) \/ StartSetup(r) \/ StartChange(r)
             \/ \E n \in 1..MaxRows : StartRefresh(r, n) \/ StartLogout(r, n)
             \/ \E i \in 1..MaxTokens : StartMfa(r, i) \/ StartReset(r, i)
             \/ \E on \in BOOLEAN : StartAccountMfa(r, on)
      PROVE  Inv'
  BY <1>1, StartStep
<1>2. ASSUME NEW r \in Requests, FinishLogin(r) \/ FinishRefresh(r)
      PROVE  Inv'
  BY <1>2, LoginStep, RefreshStep
<1>3. ASSUME NEW r \in Requests, FinishLogout(r)
      PROVE  Inv'
  BY <1>3, AdvanceStep DEF FinishLogout, Inv
<1>4. ASSUME NEW r \in Requests, FinishRegister(r)
      PROVE  Inv'
  BY <1>4, RegisterStep
<1>5. ASSUME NEW r \in Requests, FinishExpire(r)
      PROVE  Inv'
  BY <1>5, InviteStep
<1>6. ASSUME NEW r \in Requests,
             FinishAccountMfa(r) \/ \E account \in BOOLEAN : FinishSetup(r, account)
      PROVE  Inv'
  BY <1>6, SecondFactorStep
<1>7. ASSUME NEW r \in Requests, Fail(r)
      PROVE  Inv'
  BY <1>7, RefusedStep DEF Fail
<1>8. ASSUME NEW r \in Requests, NEW code \in {"totp"} \cup RecoveryCodes, FinishMfa(r, code)
      PROVE  Inv'
  BY <1>8, MfaStep
<1>9. ASSUME NEW r \in Requests, NEW p \in Passwords, FinishReset(r, p) \/ FinishChange(r, p)
      PROVE  Inv'
  BY <1>9, ResetStep, ChangeStep
<1>10. CASE RevokeSessions
  BY <1>10, AdvanceStep DEF RevokeSessions, Inv
<1>11. CASE RequestReset
  <2>1. NewToken("password_reset", FALSE) /\ UNCHANGED <<user, rows, invite, members, request>>
    BY <1>11 DEF RequestReset
  <2>2. TokensInv' /\ Len(tokens) <= Len(tokens')
    BY <2>1, NewTokenKeepsTokens DEF Inv, Purposes
  <2>3. user' \in User /\ SamePerson
    BY <2>1 DEF Inv, SamePerson
  <2> QED
    BY <2>1, <2>2, <2>3, RowsStay, InviteStays, Combine DEF Inv, TablesGrow
<1>12. CASE EnableMfa \/ DisableMfa
  BY <1>12, SecondFactorStep
<1>13. CASE RegisterStranger \/ GetLate \/ MarkExpired
  BY <1>13, InviteStep
<1>14. CASE \E families \in SUBSET (1..MaxRows) : RevokeFamilies(families)
  BY <1>14, RevokeStep
<1>15. CASE UNCHANGED vars
  BY <1>15, StayStep DEF vars
<1> QED
  BY <1>1, <1>2, <1>3, <1>4, <1>5, <1>6, <1>7, <1>8, <1>9, <1>10, <1>11, <1>12, <1>13,
     <1>14, <1>15 DEF Next

\* The invariant holds in every reachable state.
LEMMA InvAlways == Spec => []Inv
<1>1. Inv /\ [Next]_vars => Inv'
  BY InvIsInductive
<1> QED
  BY <1>1, InvInitially, PTL DEF Spec

\* However requests interleave, the user, the refresh tokens, the one-time tokens, the
\* invite and the memberships stay well typed.
THEOREM TypeCorrect == Spec => []TypeOK
<1>1. Inv => TypeOK
  BY DEF Inv, RowsInv, TokensInv, InviteInv, TypeOK
<1> QED
  BY <1>1, InvAlways, PTL

\* For any number of refreshes, logins, resets and revocations in progress, a refresh token
\* that can still be rotated is of the user's current generation.
THEOREM LiveSessionsAreCurrentHolds == Spec => []LiveSessionsAreCurrent
<1>1. Inv => LiveSessionsAreCurrent
  BY DEF Inv, RowsInv
<1> QED
  BY <1>1, InvAlways, PTL

\* However often a refresh token is presented, its session has one live token at most:
\* FinishRefresh rotates only what it finds unchanged.
THEOREM OneTokenPerSessionHolds == Spec => []OneTokenPerSession
<1>1. Inv => OneTokenPerSession
  BY DEF Inv, RowsInv
<1> QED
  BY <1>1, InvAlways, PTL

\* A session opened by a password alone ends when the password changes, also if its login
\* or a rotation was in progress.
THEOREM OldPasswordOpensNothingHolds == Spec => []OldPasswordOpensNothing
<1>1. Inv => OldPasswordOpensNothing
  BY DEF Inv, RowsInv
<1> QED
  BY <1>1, InvAlways, PTL

\* A login challenge or a reset link has its effect once, for any number of requests that
\* hold it (the conditional updates of completeLoginMfa and confirmPasswordReset).
THEOREM OneTimeTokensHold == Spec => []OneTimeTokens
<1>1. Inv => OneTimeTokens
  BY DEF Inv, TokensInv
<1> QED
  BY <1>1, InvAlways, PTL

\* An invite makes one membership, for any number of requests that try to accept it.
THEOREM OneMemberPerInviteHolds == Spec => []OneMemberPerInvite
<1>1. Inv => OneMemberPerInvite
  BY DEF Inv, InviteInv
<1> QED
  BY <1>1, InvAlways, PTL

================================================================================
