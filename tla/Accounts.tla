------------------------------- MODULE Accounts -------------------------------
(***************************************************************************)
(* Registration, log-in, rotation of refresh tokens and log-out            *)
(* (backend/internal/services/register.go, auth.go and their handlers), as *)
(* concurrent requests on the tables users and tokens.  Every database     *)
(* statement is a step of its own; the statements of a registration after  *)
(* its INSERT into users run in one transaction and become visible when it *)
(* commits.                                                                *)
(*                                                                         *)
(* Requests that are refused before they write (bad input, wrong password, *)
(* unknown or expired token) change nothing and are stuttering steps.  An  *)
(* access token is not stored anywhere and is left out, and so is the      *)
(* last_login_at a log-in saves: no decision reads it.  So is the          *)
(* administrator the migrations insert.  Accounts are never disabled or    *)
(* deleted: the handlers that would do so answer with an error before they *)
(* get there (README, section 6).                                          *)
(***************************************************************************)
EXTENDS Integers, Sequences, FiniteSets

CONSTANTS
    Requests,   \* concurrent requests
    Emails, Names,
    Lower,      \* Lower[e]: e in lower case
    NoOne,      \* not an e-mail address or a name
    MaxUsers,   \* bound on the number of accounts
    MaxTokens   \* bound on the number of refresh tokens

ASSUME AccountsConstants ==
    /\ Lower \in [Emails -> Emails]
    /\ NoOne \notin Emails \cup Names
    /\ MaxUsers \in Nat /\ MaxTokens \in Nat

VARIABLES
    users,    \* the committed rows of users, in the order of their commits
    token,    \* token[t]: row t of tokens
    pc,       \* pc[r]: the statement request r executes next
    form,     \* form[r]: what request r registers
    old, new, \* old[r], new[r]: the tokens request r replaces and has made
    held,     \* history: the tokens that were answered to a client
    root,     \* history: root[t], the token of the log-in t descends from
    forked,   \* history: roots with overlapping refreshes of one token
    ended,    \* history: roots logged out while no refresh was under way
    raced     \* history: names with overlapping registrations

registration == <<users, form, raced>>
session == <<token, old, new, held, root, forked, ended>>
accountsVars == <<registration, session, pc>>

Tokens == 1..MaxTokens
NoToken == 0
NoForm == [email |-> NoOne, name |-> NoOne]
Forms == [email : Emails, name : Names]

Registering == {"name", "insert", "commit"}
Refreshing == {"rotate", "delete"}

AccountsTypeOK ==
    /\ users \in Seq(Forms) /\ Len(users) <= MaxUsers
    /\ token \in [Tokens -> {"unused", "live", "dead"}]
    /\ pc \in [Requests -> {"idle", "login", "answer"} \cup Registering \cup Refreshing]
    /\ form \in [Requests -> Forms \cup {NoForm}]
    /\ old \in [Requests -> Tokens \cup {NoToken}]
    /\ new \in [Requests -> Tokens \cup {NoToken}]
    /\ held \subseteq Tokens
    /\ root \in [Tokens -> Tokens \cup {NoToken}]
    /\ forked \subseteq Tokens /\ ended \subseteq Tokens
    /\ raced \subseteq Names

AccountsInit ==
    /\ users = <<>>
    /\ token = [t \in Tokens |-> "unused"]
    /\ pc = [r \in Requests |-> "idle"]
    /\ form = [r \in Requests |-> NoForm]
    /\ old = [r \in Requests |-> NoToken]
    /\ new = [r \in Requests |-> NoToken]
    /\ held = {} /\ root = [t \in Tokens |-> NoToken]
    /\ forked = {} /\ ended = {} /\ raced = {}

Goto(r, place) == pc' = [pc EXCEPT ![r] = place]

\* The request is over.
End(r) ==
    /\ Goto(r, "idle")
    /\ form' = [form EXCEPT ![r] = NoForm]
    /\ old' = [old EXCEPT ![r] = NoToken]
    /\ new' = [new EXCEPT ![r] = NoToken]
-----------------------------------------------------------------------------
\* Registration.

HasEmail(e) == \E i \in DOMAIN users : users[i].email = e
HasName(n) == \E i \in DOMAIN users : users[i].name = n

\* The input is valid and the first SELECT finds nobody.
StartRegistration(r, f) ==
    /\ pc[r] = "idle"
    /\ ~HasEmail(f.email)
    /\ form' = [form EXCEPT ![r] = f]
    /\ Goto(r, "name")
    /\ UNCHANGED <<users, raced, session>>

\* Another request has passed the check of this name and not ended yet.
NameUnderWay(r) ==
    \E s \in Requests \ {r} :
        pc[s] \in {"insert", "commit"} /\ form[s].name = form[r].name

(* Mutant of NameFree: the second SELECT is forgotten. *)
NameUnchecked(r) == TRUE

NameFree(r) == ~HasName(form[r].name)

CheckName(r) ==
    /\ pc[r] = "name"
    /\ IF NameFree(r)
       THEN /\ Goto(r, "insert")
            /\ raced' = IF NameUnderWay(r) THEN raced \cup {form[r].name} ELSE raced
            /\ UNCHANGED <<users, form, session>>
       ELSE End(r) /\ UNCHANGED <<users, raced, token, held, root, forked, ended>>

\* users.email is UNIQUE (users.username is not).
EmailFree(r) == ~HasEmail(form[r].email)

\* An INSERT waits for a transaction that has inserted the same e-mail.
EmailPending(r) ==
    \E s \in Requests \ {r} : pc[s] = "commit" /\ form[s].email = form[r].email

InsertUser(r) ==
    /\ pc[r] = "insert"
    /\ \/ /\ EmailFree(r) /\ ~EmailPending(r)
          /\ Goto(r, "commit")
          /\ UNCHANGED <<form, old, new>>
       \/ ~EmailFree(r) /\ End(r)
    /\ UNCHANGED <<users, raced, token, held, root, forked, ended>>

Row(r) == form[r]

\* Role, attributes and COMMIT.  What comes after it only reads.
Commit(r) ==
    /\ pc[r] = "commit"
    /\ Len(users) < MaxUsers
    /\ users' = Append(users, Row(r))
    /\ End(r)
    /\ UNCHANGED <<raced, token, held, root, forked, ended>>

\* A statement fails, and the transaction, if there is one, is rolled back.
FailRegistration(r) ==
    /\ pc[r] \in Registering
    /\ End(r)
    /\ UNCHANGED <<users, raced, token, held, root, forked, ended>>
-----------------------------------------------------------------------------
\* Tokens.

\* AuthHandler.Token lowers the address; RegisterUser has stored it as it came.
LoginUser(e) == HasEmail(Lower[e])

StartLogin(r, e) ==
    /\ pc[r] = "idle"
    /\ LoginUser(e)
    /\ Goto(r, "login")
    /\ UNCHANGED <<registration, session>>

RefreshesOf(t) == {r \in Requests : pc[r] \in Refreshing /\ old[r] = t}

\* RefreshToken up to its SELECT: a client presents a token it was given.
StartRefresh(r, t) ==
    /\ pc[r] = "idle"
    /\ t \in held /\ token[t] = "live"
    /\ old' = [old EXCEPT ![r] = t]
    /\ Goto(r, "rotate")
    /\ forked' = IF RefreshesOf(t) = {} THEN forked ELSE forked \cup {root[t]}
    /\ UNCHANGED <<registration, token, new, held, root, ended>>

\* GenerateToken, called by a log-in or by a refresh.
GenerateToken(r) ==
    /\ pc[r] \in {"login", "rotate"}
    /\ \E t \in Tokens :
        /\ token[t] = "unused" /\ \A s \in 1..(t - 1) : token[s] # "unused"
        /\ token' = [token EXCEPT ![t] = "live"]
        /\ new' = [new EXCEPT ![r] = t]
        /\ root' = [root EXCEPT ![t] = IF pc[r] = "login" THEN t ELSE root[old[r]]]
    /\ Goto(r, IF pc[r] = "login" THEN "answer" ELSE "delete")
    /\ UNCHANGED <<registration, old, held, forked, ended>>

(* Mutant of AfterDeletion: the old token is never deleted. *)
AfterNoDeletion(r) == token

AfterDeletion(r) == [token EXCEPT ![old[r]] = "dead"]

\* The old row is soft-deleted; that it is so already is no error.
DeleteOldToken(r) ==
    /\ pc[r] = "delete"
    /\ token' = AfterDeletion(r)
    /\ Goto(r, "answer")
    /\ UNCHANGED <<registration, old, new, held, root, forked, ended>>

\* A statement of a log-in or a refresh fails: the client gets an error, and
\* a token made before stays in the table.
FailToken(r) ==
    /\ pc[r] \in {"login", "rotate", "delete"}
    /\ End(r)
    /\ UNCHANGED <<users, raced, token, held, root, forked, ended>>

\* The client gets the new token, unless it is gone.
Answer(r) ==
    /\ pc[r] = "answer"
    /\ held' \in {held, held \cup {new[r]}}
    /\ End(r)
    /\ UNCHANGED <<users, raced, token, root, forked, ended>>

(* Mutant of AfterLogout: only the token that was never rotated goes. *)
AfterLogoutOfRoot(t) == [token EXCEPT ![root[t]] = "dead"]

AfterLogout(t) == [token EXCEPT ![t] = "dead"]

\* LogoutHandler (which main.go does not route yet): RevokeToken is one
\* statement, and the answer does not say whether it worked.
Logout(t) ==
    /\ t \in held
    /\ token' = AfterLogout(t)
    /\ ended' = IF /\ token[t] = "live" /\ root[t] \notin forked
                   /\ \A r \in Requests : pc[r] \in Refreshing => root[old[r]] # root[t]
                THEN ended \cup {root[t]} ELSE ended
    /\ UNCHANGED <<registration, old, new, held, root, forked, pc>>

\* expires_at has passed.
Expire(t) ==
    /\ token[t] = "live"
    /\ token' = [token EXCEPT ![t] = "dead"]
    /\ UNCHANGED <<registration, old, new, held, root, forked, ended, pc>>

Register(r) ==
    \/ \E f \in Forms : StartRegistration(r, f)
    \/ CheckName(r) \/ InsertUser(r) \/ Commit(r) \/ FailRegistration(r)

Authenticate(r) ==
    \/ \E e \in Emails : StartLogin(r, e)
    \/ \E t \in Tokens : StartRefresh(r, t)
    \/ GenerateToken(r) \/ DeleteOldToken(r) \/ FailToken(r) \/ Answer(r)

AccountsNext ==
    \/ \E r \in Requests : Register(r) \/ Authenticate(r)
    \/ \E t \in Tokens : Logout(t) \/ Expire(t)

AccountsSpec == AccountsInit /\ [][AccountsNext]_accountsVars
-----------------------------------------------------------------------------
HeldLive(k) == {t \in held : token[t] = "live" /\ root[t] = k}

\* A log-in stays one session: however often its tokens are rotated, refreshes
\* fail half-way or answers are lost, the clients hold at most one refresh
\* token that works, unless two refreshes of one token overlapped.
\* (RefreshToken is a SELECT, an INSERT and a DELETE without a transaction.)
OneSessionPerLogin ==
    \A k \in Tokens \ forked : \A s, t \in HeldLive(k) : s = t

\* A log-out that no refresh of the session overlaps ends the session: no
\* token of it that a client holds ever works again.
LogoutEnds == \A k \in ended : HeldLive(k) = {}

\* Two accounts never share an e-mail address, whatever registrations race,
\* and they share a user name only when their registrations overlapped
\* (the check of the name is not repeated under the transaction).
AccountsDistinct ==
    \A i, j \in DOMAIN users : i # j =>
        /\ users[i].email # users[j].email
        /\ users[i].name = users[j].name => users[i].name \in raced

AccountsInv == AccountsTypeOK /\ AccountsDistinct
=============================================================================
