------------------------------ MODULE Accounts ------------------------------
(***************************************************************************)
(* Accounts and sessions (auth/routes.rs, auth/session.rs, rate.rs, and    *)
(* delete_stale_unconfirmed of purge.rs).  The rows are shared by every    *)
(* request; a request reads a row, hashes or verifies for a long time, and *)
(* then writes what it decided.  A session is a sealed cookie that names a *)
(* user and the generation of the user's row when it was issued; it is     *)
(* good while the row still has that generation.                           *)
(*                                                                         *)
(* A code or token is its index in the sequence of those issued.  A        *)
(* transaction is one step: the rows it touches are locked by it.  One of  *)
(* the two failure buckets of a login is modelled, the other is the same.  *)
(***************************************************************************)
EXTENDS Naturals, Sequences, FiniteSets

CONSTANTS
  Requests,    \* requests, and tasks spawned by one, that may be under way
  Starts,      \* pairs of the users there are at the start, and what is asked for
  Usernames, Emails, Passwords,
  None,        \* no name, no address, no password
  Capacity,    \* login_failures_per_username_per_minute
  MaxUsers, MaxCodes, MaxTokens, MaxGeneration   \* bounds

AllKinds == {"register", "login", "renew", "sign_out", "change", "delete", "reset"}

UserRows == [username : Usernames, email : Emails, password : Passwords,
             confirmed : BOOLEAN, generation : Nat, deleted : BOOLEAN]

ASSUME AccountsAssumption ==
  /\ \A s \in Starts :
       /\ s.asked \subseteq AllKinds
       /\ s.users \in Seq(UserRows)
       /\ \A u, v \in DOMAIN s.users :
            u # v /\ ~s.users[u].deleted /\ ~s.users[v].deleted =>
              s.users[u].username # s.users[v].username /\ s.users[u].email # s.users[v].email
  /\ IsFiniteSet(Requests) /\ Requests # {}
  /\ Capacity \in Nat \ {0}
  /\ MaxUsers \in Nat /\ MaxCodes \in Nat /\ MaxTokens \in Nat /\ MaxGeneration \in Nat
  /\ None \notin Usernames \cup Emails \cup Passwords

VARIABLES
  asked,      \* the kinds of requests that are made in this behaviour
  users,      \* the rows of users, by the order of their creation
  codes,      \* email_confirmations: user, used, age (0 valid, 1 expired, 2 a week ago)
  tokens,     \* password_reset_tokens: user, used
  cookies,    \* session cookies issued: user, generation, the password checked
              \* for it, and whether a sign-out everywhere issued it
  req,        \* per request, what its handler holds between two steps
  level,      \* the failure bucket's whole tokens
  since,      \* failures since the bucket was last refilled
  base        \* its level at that time

vars == <<asked, users, codes, tokens, cookies, req, level, since, base>>

Ids == 1 .. MaxUsers
NoUser == 0
Idle == [op |-> "idle", user |-> NoUser, generation |-> 0, password |-> None,
         new |-> None, username |-> None, email |-> None, ok |-> FALSE]

Init ==
  /\ \E s \in Starts : users = s.users /\ asked = s.asked
  /\ codes = << >> /\ tokens = << >> /\ cookies = {}
  /\ req = [r \in Requests |-> Idle]
  /\ level = Capacity /\ since = 0 /\ base = Capacity

Asks(r, op) == req[r].op = "idle" /\ op \in asked
Now(r, op) == req[r].op = op
Hold(r, h) == req' = [req EXCEPT ![r] = h]
bucket == <<level, since, base>>

Exists(u) == u \in DOMAIN users /\ ~users[u].deleted
Present == {u \in DOMAIN users : Exists(u)}
Gone(S) == [u \in DOMAIN users |-> [users[u] EXCEPT !.deleted = @ \/ u \in S]]

-----------------------------------------------------------------------------
(* Registration                                                            *)

Holds(u) == \E c \in DOMAIN codes : codes[c].user = u /\ codes[c].age = 0

UsernameTaken(name) ==
  \E u \in Present : users[u].username = name /\ (users[u].confirmed \/ Holds(u))

\* The fields are valid and the username is free; then the password is hashed.
BeginRegister(r, name, email, password) ==
  /\ Asks(r, "register")
  /\ ~UsernameTaken(name)
  /\ Hold(r, [Idle EXCEPT !.op = "register", !.username = name, !.email = email,
                          !.password = password])
  /\ UNCHANGED <<asked, users, codes, tokens, cookies, bucket>>

\* Mutant: an account with no valid code goes, confirmed or not.
LapsedAny(u) == ~Holds(u)

Lapsed(u) == ~users[u].confirmed /\ ~Holds(u)

\* The lapsed accounts that stand in the way of a username or an address.
InTheWay(name, email) ==
  {u \in Present : (users[u].username = name \/ users[u].email = email) /\ Lapsed(u)}

\* Mutant: only the check before the hash looks at the username.
NeverTaken(name, others) == FALSE

\* users_username_key
Violates(name, others) == \E u \in others : users[u].username = name

AddCode(u) == /\ Len(codes) < MaxCodes
              /\ codes' = Append(codes, [user |-> u, used |-> FALSE, age |-> 0])

\* A confirmed holder of the address is mailed a notice; an unconfirmed one a
\* fresh code; otherwise the user is created.  A violated key rolls the
\* deletion back too.
FinishRegister(r) ==
  /\ Now(r, "register")
  /\ LET name == req[r].username
         email == req[r].email
         way == InTheWay(name, email)
         others == Present \ way
         holders == {u \in others : users[u].email = email}
         u == Len(users) + 1
     IN \/ \E h \in holders : /\ users' = Gone(way)
                              /\ IF users[h].confirmed THEN UNCHANGED codes ELSE AddCode(h)
        \/ /\ holders = {} /\ Violates(name, others)
           /\ UNCHANGED <<users, codes>>
        \/ /\ holders = {} /\ ~Violates(name, others)
           /\ u <= MaxUsers
           /\ users' = Append(Gone(way),
                              [username |-> name, email |-> email, password |-> req[r].password,
                               confirmed |-> FALSE, generation |-> 0, deleted |-> FALSE])
           /\ AddCode(u)
  /\ Hold(r, Idle)
  /\ UNCHANGED <<asked, tokens, cookies, bucket>>

ConfirmEmail(c) ==
  /\ c \in DOMAIN codes /\ ~codes[c].used /\ codes[c].age = 0
  /\ Exists(codes[c].user)
  /\ codes' = [codes EXCEPT ![c].used = TRUE]
  /\ users' = [users EXCEPT ![codes[c].user].confirmed = TRUE]
  /\ UNCHANGED <<asked, tokens, cookies, req, bucket>>

\* Time passes; a code issued earlier lapses earlier.
Age(c) ==
  /\ c \in DOMAIN codes /\ codes[c].age < 2
  /\ \A d \in 1 .. c - 1 : codes[d].age > codes[c].age
  /\ codes' = [codes EXCEPT ![c].age = @ + 1]
  /\ UNCHANGED <<asked, users, tokens, cookies, req, bucket>>

\* Mutant: an account is abandoned only if it has no code at all.
NoCodes == {u \in Present : ~users[u].confirmed /\ \A c \in DOMAIN codes : codes[c].user # u}

Abandoned ==
  {u \in Present : ~users[u].confirmed /\ \A c \in DOMAIN codes : codes[c].user = u => codes[c].age = 2}

DeleteStaleUnconfirmed ==
  /\ Abandoned # {}
  /\ users' = Gone(Abandoned)
  /\ UNCHANGED <<asked, codes, tokens, cookies, req, bucket>>

-----------------------------------------------------------------------------
(* Login                                                                   *)

\* Mutant: the bucket is not looked at before the password is verified.
NeverEmpty == FALSE

Empty == level < 1

Admits(u) == users[u].confirmed

\* The bucket is looked at, and the row read; then the password is verified
\* against the hash that was read.
BeginLogin(r, name, password) ==
  /\ Asks(r, "login")
  /\ ~Empty
  /\ LET found == {u \in Present : users[u].username = name} IN
     \/ /\ found = {}
        /\ Hold(r, [Idle EXCEPT !.op = "login"])
     \/ \E u \in found :
          Hold(r, [Idle EXCEPT !.op = "login", !.user = u, !.generation = users[u].generation,
                               !.password = password, !.ok = users[u].password = password,
                               !.username = IF Admits(u) THEN name ELSE None])
  /\ UNCHANGED <<asked, users, codes, tokens, cookies, bucket>>

Issue(u, generation, password, out) ==
  cookies' = cookies \cup
    {[user |-> u, generation |-> generation, password |-> password, out |-> out]}

\* Mutant: the cookie carries the generation there is when it is issued.
PresentGeneration(r) == IF Exists(req[r].user) THEN users[req[r].user].generation ELSE 0

ReadGeneration(r) == req[r].generation

\* An unconfirmed user is refused without a token taken.
FinishLogin(r) ==
  /\ Now(r, "login")
  /\ IF ~req[r].ok
     THEN /\ level' = IF level > 0 THEN level - 1 ELSE 0
          /\ since' = since + 1
          /\ UNCHANGED <<cookies, base>>
     ELSE /\ IF req[r].username = None THEN UNCHANGED cookies
             ELSE Issue(req[r].user, ReadGeneration(r), req[r].password, FALSE)
          /\ UNCHANGED bucket
  /\ Hold(r, Idle)
  /\ UNCHANGED <<asked, users, codes, tokens>>

\* One token comes back.
Refill ==
  /\ level' = IF level < Capacity THEN level + 1 ELSE level
  /\ base' = level' /\ since' = 0
  /\ <<level', since', base'>> # bucket
  /\ UNCHANGED <<asked, users, codes, tokens, cookies, req>>

-----------------------------------------------------------------------------
(* Requests of a session                                                   *)

\* load_session
Live(c) == Exists(c.user) /\ users[c.user].generation = c.generation

Checked == [sign_out |-> "sign_out_checked",
            change |-> "change_checked", delete |-> "delete_checked"]

BeginSession(r, op, c, password, new) ==
  /\ Asks(r, op)
  /\ Live(c)
  /\ Hold(r, [Idle EXCEPT !.op = op, !.user = c.user, !.generation = c.generation,
                          !.password = IF op = "renew" THEN c.password ELSE password,
                          !.new = new, !.ok = c.out])
  /\ UNCHANGED <<asked, users, codes, tokens, cookies, bucket>>

\* A sync in the last days of a cookie's life issues a fresh one.
Renew(r) ==
  /\ Now(r, "renew")
  /\ Issue(req[r].user, ReadGeneration(r), req[r].password, req[r].ok)
  /\ Hold(r, Idle)
  /\ UNCHANGED <<asked, users, codes, tokens, bucket>>

\* check_password, then perhaps the hash of the new one.
CheckPassword(r) ==
  /\ req[r].op \in {"sign_out", "change", "delete"}
  /\ Hold(r, IF Exists(req[r].user) /\ users[req[r].user].password = req[r].password
             THEN [req[r] EXCEPT !.op = Checked[@]] ELSE Idle)
  /\ UNCHANGED <<asked, users, codes, tokens, cookies, bucket>>

\* The row is gone: the statement returns none.
Vanished(r) ==
  /\ req[r].op \in {"sign_out_checked", "change_checked", "delete_checked"}
  /\ ~Exists(req[r].user)
  /\ Hold(r, Idle)
  /\ UNCHANGED <<asked, users, codes, tokens, cookies, bucket>>

SignOutEverywhere(r) ==
  /\ Now(r, "sign_out_checked")
  /\ LET u == req[r].user IN
     /\ Exists(u) /\ users[u].generation < MaxGeneration
     /\ users' = [users EXCEPT ![u].generation = @ + 1]
     /\ Issue(u, users'[u].generation, req[r].password, TRUE)
  /\ Hold(r, Idle)
  /\ UNCHANGED <<asked, codes, tokens, bucket>>

ChangePassword(r) ==
  /\ Now(r, "change_checked")
  /\ LET u == req[r].user IN
     /\ Exists(u) /\ users[u].generation < MaxGeneration
     /\ users' = [users EXCEPT ![u].generation = @ + 1, ![u].password = req[r].new]
     /\ Issue(u, users'[u].generation, req[r].new, FALSE)
  /\ Hold(r, Idle)
  /\ UNCHANGED <<asked, codes, tokens, bucket>>

DeleteAccount(r) ==
  /\ Now(r, "delete_checked")
  /\ Exists(req[r].user)
  /\ users' = Gone({req[r].user})
  /\ Hold(r, Idle)
  /\ UNCHANGED <<asked, codes, tokens, cookies, bucket>>

\* Logout clears the cookie of its browser; a cookie lapses after its time.
Drop(c) ==
  /\ cookies' = cookies \ {c}
  /\ UNCHANGED <<asked, users, codes, tokens, req, bucket>>

-----------------------------------------------------------------------------
(* Password reset                                                          *)

\* The task looks the address up, and later stores a token and mails it.
BeginReset(r, email) ==
  /\ Asks(r, "reset")
  /\ \E u \in Present : /\ users[u].email = email /\ users[u].confirmed
                        /\ Hold(r, [Idle EXCEPT !.op = "reset", !.user = u])
  /\ UNCHANGED <<asked, users, codes, tokens, cookies, bucket>>

StoreToken(r) ==
  /\ Now(r, "reset")
  /\ IF Exists(req[r].user)
     THEN /\ Len(tokens) < MaxTokens
          /\ tokens' = Append(tokens, [user |-> req[r].user, used |-> FALSE])
     ELSE UNCHANGED tokens
  /\ Hold(r, Idle)
  /\ UNCHANGED <<asked, users, codes, cookies, bucket>>

\* Every token of the user.
Spends(t, s) == tokens[s].user = tokens[t].user

ResetPassword(t, password) ==
  /\ t \in DOMAIN tokens /\ ~tokens[t].used
  /\ Exists(tokens[t].user) /\ users[tokens[t].user].generation < MaxGeneration
  /\ tokens' = [s \in DOMAIN tokens |-> [tokens[s] EXCEPT !.used = @ \/ Spends(t, s)]]
  /\ users' = [users EXCEPT ![tokens[t].user].generation = @ + 1,
                            ![tokens[t].user].password = password]
  /\ UNCHANGED <<asked, codes, cookies, req, bucket>>

\* Half an hour passes.
TokenExpires(t) ==
  /\ t \in DOMAIN tokens /\ ~tokens[t].used
  /\ \A s \in 1 .. t - 1 : tokens[s].used
  /\ tokens' = [tokens EXCEPT ![t].used = TRUE]
  /\ UNCHANGED <<asked, users, codes, cookies, req, bucket>>

-----------------------------------------------------------------------------
Next ==
  \/ \E r \in Requests :
       \/ \E name \in Usernames, password \in Passwords :
            \/ BeginLogin(r, name, password)
            \/ \E email \in Emails : BeginRegister(r, name, email, password)
       \/ FinishRegister(r) \/ FinishLogin(r)
       \/ \E c \in cookies, password \in Passwords :
            \/ \E op \in {"renew", "sign_out", "delete"} : BeginSession(r, op, c, password, None)
            \/ \E new \in Passwords : BeginSession(r, "change", c, password, new)
       \/ Renew(r) \/ CheckPassword(r) \/ Vanished(r)
       \/ SignOutEverywhere(r) \/ ChangePassword(r) \/ DeleteAccount(r)
       \/ \E email \in Emails : BeginReset(r, email)
       \/ StoreToken(r)
  \/ \E c \in 1 .. MaxCodes : ConfirmEmail(c) \/ Age(c)
  \/ \E t \in 1 .. MaxTokens :
       (\E password \in Passwords : ResetPassword(t, password)) \/ TokenExpires(t)
  \/ \E c \in cookies : Drop(c)
  \/ Refill
  \/ DeleteStaleUnconfirmed

Spec == Init /\ [][Next]_vars

\* Time passes and the purge task runs; no request need ever be made or end.
Fairness == /\ \A c \in 1 .. MaxCodes : WF_vars(Age(c))
            /\ WF_vars(DeleteStaleUnconfirmed)

FairSpec == Spec /\ Fairness

-----------------------------------------------------------------------------
(* Properties                                                              *)

TypeOK ==
  /\ Len(users) <= MaxUsers /\ Len(codes) <= MaxCodes /\ Len(tokens) <= MaxTokens
  /\ \A u \in DOMAIN users :
       users[u] \in [username : Usernames, email : Emails, password : Passwords,
                     confirmed : BOOLEAN, generation : 0 .. MaxGeneration, deleted : BOOLEAN]
  /\ \A c \in DOMAIN codes :
       codes[c] \in [user : DOMAIN users, used : BOOLEAN, age : 0 .. 2]
  /\ \A t \in DOMAIN tokens : tokens[t] \in [user : DOMAIN users, used : BOOLEAN]
  /\ cookies \subseteq [user : DOMAIN users, generation : 0 .. MaxGeneration,
                        password : Passwords, out : BOOLEAN]
  /\ \A r \in Requests : req[r].user \in {NoUser} \cup DOMAIN users
  /\ level \in 0 .. Capacity /\ base \in 0 .. Capacity /\ since \in Nat
  \* Only an account whose address was proven has sessions and reset tokens.
  /\ \A c \in cookies : users[c.user].confirmed
  /\ \A t \in DOMAIN tokens : users[tokens[t].user].confirmed

\* A username and an address each belong to one account, whatever two
\* registrations that both found the name free, or an expired holder, do.
OneHolder ==
  \A u, v \in Present :
    u # v => users[u].username # users[v].username /\ users[u].email # users[v].email

\* A session that is accepted was opened with the account's present password,
\* although logins, renewals and changes overlap: a change or a reset that
\* completes in the middle leaves theirs refused.  A sign-out everywhere may
\* finish after one, and its own session then stays.
SessionsKnowThePassword ==
  \A c \in cookies : Live(c) => c.out \/ c.password = users[c.user].password

\* Logins under way when the bucket runs empty may still fail, but no others:
\* between two refills at most the tokens there were, and one failure for each
\* further request that had been let in (rate.rs).
FailuresAreBounded == since < base + Cardinality(Requests)

\* An account goes only at its owner's request, or if it was never confirmed
\* and none of its codes is valid: a code that was mailed holds the username
\* and the address for its day, whoever registers or cleans up.
AccountsStay ==
  [][\A u \in Present : ~Exists(u)' =>
       \/ ~users[u].confirmed /\ ~Holds(u)
       \/ \E r \in Requests : Now(r, "delete_checked") /\ req[r].user = u]_vars

\* An abandoned registration does not hold its name and address forever
\* (purge.rs): once nobody registers any more, only confirmed accounts remain.
AbandonedAreFreed == <>[](\A u \in Present : users[u].confirmed)
=============================================================================
