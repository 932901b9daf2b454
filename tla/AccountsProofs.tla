---------------------------- MODULE AccountsProofs ----------------------------
(***************************************************************************)
(* Theorems of Accounts: for any names, passwords, number of requests and  *)
(* size of the failure bucket, names have one holder, a session knows the  *)
(* present password, an account is not lost, and failures are bounded.     *)
(***************************************************************************)
EXTENDS Accounts, FiniteSetTheorems, SequenceTheorems, TLAPS

-----------------------------------------------------------------------------
(* The rows of users                                                       *)

RowsInv == users \in Seq(UserRows)

LEMMA Domain == ASSUME RowsInv PROVE DOMAIN users = 1 .. Len(users) /\ Len(users) \in Nat
BY DEF RowsInv

LEMMA RowIsRow == ASSUME RowsInv, NEW u \in DOMAIN users PROVE users[u] \in UserRows
BY DEF RowsInv

\* One row written.
LEMMA UpdateRow ==
  ASSUME NEW rows \in Seq(UserRows), NEW u \in DOMAIN rows, NEW row \in UserRows
  PROVE  LET s == [rows EXCEPT ![u] = row] IN
         /\ s \in Seq(UserRows) /\ DOMAIN s = DOMAIN rows
         /\ s[u] = row /\ \A v \in DOMAIN rows : v # u => s[v] = rows[v]
<1>1. rows \in [1 .. Len(rows) -> UserRows] /\ Len(rows) \in Nat
  OBVIOUS
<1>2. [rows EXCEPT ![u] = row] \in [1 .. Len(rows) -> UserRows]
  BY <1>1
<1> QED
  BY <1>1, <1>2, SeqDef

LEMMA BumpedRow ==
  ASSUME NEW row \in UserRows, NEW p \in Passwords
  PROVE  LET s == [row EXCEPT !.generation = @ + 1, !.password = p] IN
         /\ s \in UserRows
         /\ s.generation = row.generation + 1 /\ s.password = p
         /\ s.username = row.username /\ s.email = row.email
         /\ s.deleted = row.deleted
<1> DEFINE older == [row EXCEPT !.generation = @ + 1]
<1>1. /\ older \in UserRows
      /\ older.generation = row.generation + 1
      /\ older.username = row.username /\ older.email = row.email
      /\ older.deleted = row.deleted
  BY DEF UserRows
<1> HIDE DEF older
<1>2. LET s == [older EXCEPT !.password = p] IN
      /\ s \in UserRows /\ s.password = p /\ s.generation = older.generation
      /\ s.username = older.username /\ s.email = older.email
      /\ s.deleted = older.deleted
  BY <1>1 DEF UserRows
<1> QED
  BY <1>1, <1>2 DEF older

LEMMA OlderRow ==
  ASSUME NEW row \in UserRows
  PROVE  LET s == [row EXCEPT !.generation = @ + 1] IN
         /\ s \in UserRows
         /\ s.generation = row.generation + 1 /\ s.password = row.password
         /\ s.username = row.username /\ s.email = row.email
         /\ s.deleted = row.deleted
BY DEF UserRows

LEMMA ConfirmedRow ==
  ASSUME NEW row \in UserRows
  PROVE  LET s == [row EXCEPT !.confirmed = TRUE] IN
         /\ s \in UserRows
         /\ s.generation = row.generation /\ s.password = row.password
         /\ s.username = row.username /\ s.email = row.email
         /\ s.deleted = row.deleted
BY DEF UserRows

LEMMA DeletedRow ==
  ASSUME NEW row \in UserRows, NEW b \in BOOLEAN
  PROVE  LET s == [row EXCEPT !.deleted = b] IN
         /\ s \in UserRows
         /\ s.generation = row.generation /\ s.password = row.password
         /\ s.username = row.username /\ s.email = row.email
         /\ s.confirmed = row.confirmed /\ s.deleted = b
BY DEF UserRows

LEMMA GoneRows ==
  ASSUME RowsInv, NEW S
  PROVE  /\ Gone(S) \in Seq(UserRows) /\ DOMAIN Gone(S) = DOMAIN users
         /\ Len(Gone(S)) = Len(users)
         /\ \A u \in DOMAIN users :
              /\ Gone(S)[u].generation = users[u].generation
              /\ Gone(S)[u].password = users[u].password
              /\ Gone(S)[u].username = users[u].username
              /\ Gone(S)[u].email = users[u].email
              /\ Gone(S)[u].deleted = (users[u].deleted \/ u \in S)
<1>1. ASSUME NEW u \in DOMAIN users
      PROVE  /\ Gone(S)[u] \in UserRows
             /\ Gone(S)[u].generation = users[u].generation
             /\ Gone(S)[u].password = users[u].password
             /\ Gone(S)[u].username = users[u].username
             /\ Gone(S)[u].email = users[u].email
             /\ Gone(S)[u].deleted = (users[u].deleted \/ u \in S)
  <2> DEFINE row == users[u]
             b   == row.deleted \/ u \in S
  <2>1. row \in UserRows /\ b \in BOOLEAN
    BY RowIsRow
  <2>2. Gone(S)[u] = [row EXCEPT !.deleted = b]
    BY DEF Gone
  <2> HIDE DEF row, b
  <2>3. LET s == [row EXCEPT !.deleted = b] IN
         /\ s \in UserRows
         /\ s.generation = row.generation /\ s.password = row.password
         /\ s.username = row.username /\ s.email = row.email
         /\ s.confirmed = row.confirmed /\ s.deleted = b
    BY <2>1, DeletedRow
  <2> QED
    BY <2>2, <2>3 DEF row, b
<1>3. Gone(S) \in [1 .. Len(users) -> UserRows] /\ Len(users) \in Nat
  BY <1>1, Domain DEF Gone
<1>4. Gone(S) \in Seq(UserRows)
  BY <1>3, SeqDef
<1>5. Len(Gone(S)) = Len(users)
  BY <1>3, <1>4
<1>6. DOMAIN Gone(S) = DOMAIN users
  BY DEF Gone
<1> QED
  BY <1>1, <1>4, <1>5, <1>6

-----------------------------------------------------------------------------
(* What a step does to the rows                                            *)

\* No row changes its names or comes back, and a row whose password changes has
\* a new generation.
Moves ==
  \A u \in DOMAIN users :
    /\ u \in DOMAIN users'
    /\ users'[u].username = users[u].username /\ users'[u].email = users[u].email
    /\ users[u].deleted => users'[u].deleted
    /\ \/ users'[u].generation = users[u].generation /\ users'[u].password = users[u].password
       \/ users'[u].generation = users[u].generation + 1

SameRows == DOMAIN users' = DOMAIN users
Kept == RowsInv' /\ Moves /\ SameRows

\* No account goes.
Stays == \A u \in DOMAIN users : u \in DOMAIN users' /\ users'[u].deleted = users[u].deleted

LEMMA UnchangedKept == ASSUME RowsInv, UNCHANGED users PROVE Kept /\ Stays
BY DEF Kept, Moves, SameRows, RowsInv, Stays

LEMMA GoneKept ==
  ASSUME RowsInv, NEW S, users' = Gone(S)
  PROVE  Kept /\ \A u \in DOMAIN users : users'[u].deleted = (users[u].deleted \/ u \in S)
<1> DEFINE rows == Gone(S)
<1>1. /\ rows \in Seq(UserRows) /\ DOMAIN rows = DOMAIN users
      /\ \A u \in DOMAIN users :
           /\ rows[u].generation = users[u].generation
           /\ rows[u].password = users[u].password
           /\ rows[u].username = users[u].username
           /\ rows[u].email = users[u].email
           /\ rows[u].deleted = (users[u].deleted \/ u \in S)
  BY GoneRows
<1>2. users' = rows
  OBVIOUS
<1> HIDE DEF rows
<1> QED
  BY <1>1, <1>2 DEF Kept, Moves, SameRows, RowsInv

LEMMA OneRowKept ==
  ASSUME RowsInv, NEW u \in DOMAIN users, NEW row \in UserRows, users' = [users EXCEPT ![u] = row],
         row.username = users[u].username, row.email = users[u].email,
         row.deleted = users[u].deleted,
         \/ row.generation = users[u].generation /\ row.password = users[u].password
         \/ row.generation = users[u].generation + 1
  PROVE  Kept /\ Stays /\ users'[u] = row
<1>1. /\ users' \in Seq(UserRows) /\ DOMAIN users' = DOMAIN users
      /\ users'[u] = row /\ \A v \in DOMAIN users : v # u => users'[v] = users[v]
  BY UpdateRow DEF RowsInv
<1> QED
  BY <1>1 DEF Kept, Moves, SameRows, RowsInv, Stays

LEMMA ConfirmKept ==
  ASSUME RowsInv, NEW c, ConfirmEmail(c)
  PROVE  Kept /\ Stays
<1> DEFINE u == codes[c].user
           row == users[u]
           new == [row EXCEPT !.confirmed = TRUE]
<1>1. u \in DOMAIN users /\ users' = [users EXCEPT ![u] = new]
  BY DEF ConfirmEmail, Exists
<1>2. row \in UserRows
  BY <1>1, RowIsRow
<1> HIDE DEF row
<1>3. /\ new \in UserRows
      /\ new.generation = row.generation /\ new.password = row.password
      /\ new.username = row.username /\ new.email = row.email /\ new.deleted = row.deleted
  BY <1>2, ConfirmedRow
<1> HIDE DEF new, u
<1> QED
  BY <1>1, <1>3, OneRowKept DEF row

\* A new generation without a new password.
LEMMA OlderKept ==
  ASSUME RowsInv, NEW u \in DOMAIN users, users' = [users EXCEPT ![u].generation = @ + 1]
  PROVE  Kept /\ Stays /\ users'[u].generation = users[u].generation + 1
<1> DEFINE row == users[u]
           new == [row EXCEPT !.generation = @ + 1]
<1>1. users' = [users EXCEPT ![u] = new]
  OBVIOUS
<1>2. row \in UserRows
  BY RowIsRow
<1> HIDE DEF row
<1>3. /\ new \in UserRows
      /\ new.generation = row.generation + 1 /\ new.password = row.password
      /\ new.username = row.username /\ new.email = row.email /\ new.deleted = row.deleted
  BY <1>2, OlderRow
<1> HIDE DEF new
<1> QED
  BY <1>1, <1>3, OneRowKept DEF row

\* With one.
LEMMA BumpedKept ==
  ASSUME RowsInv, NEW u \in DOMAIN users, NEW p \in Passwords,
         users' = [users EXCEPT ![u].generation = @ + 1, ![u].password = p]
  PROVE  /\ Kept /\ Stays
         /\ users'[u].generation = users[u].generation + 1 /\ users'[u].password = p
<1> DEFINE row == users[u]
           new == [row EXCEPT !.generation = @ + 1, !.password = p]
<1>1. users' = [users EXCEPT ![u] = new]
  OBVIOUS
<1>2. row \in UserRows
  BY RowIsRow
<1> HIDE DEF row
<1>3. /\ new \in UserRows
      /\ new.generation = row.generation + 1 /\ new.password = p
      /\ new.username = row.username /\ new.email = row.email /\ new.deleted = row.deleted
  BY <1>2, BumpedRow
<1> HIDE DEF new
<1> QED
  BY <1>1, <1>3, OneRowKept DEF row

\* A user is created.
Created(way, row) == users' = Append(Gone(way), row)

LEMMA CreatedRows ==
  ASSUME RowsInv, NEW way, NEW row \in UserRows, Created(way, row)
  PROVE  /\ RowsInv' /\ Moves
         /\ DOMAIN users' = DOMAIN users \cup {Len(users) + 1}
         /\ Len(users) + 1 \notin DOMAIN users
         /\ users'[Len(users) + 1] = row
         /\ \A u \in DOMAIN users : users'[u].deleted = (users[u].deleted \/ u \in way)
<1> DEFINE rows == Gone(way)
<1>1. /\ rows \in Seq(UserRows) /\ Len(rows) = Len(users) /\ DOMAIN rows = DOMAIN users
      /\ \A u \in DOMAIN users :
           /\ rows[u].generation = users[u].generation
           /\ rows[u].password = users[u].password
           /\ rows[u].username = users[u].username
           /\ rows[u].email = users[u].email
           /\ rows[u].deleted = (users[u].deleted \/ u \in way)
  BY GoneRows
<1> HIDE DEF rows
<1>2. users' = Append(rows, row)
  BY DEF Created, rows
<1>3. /\ Append(rows, row) \in Seq(UserRows)
      /\ Len(Append(rows, row)) = Len(rows) + 1
      /\ \A i \in 1 .. Len(rows) : Append(rows, row)[i] = rows[i]
      /\ Append(rows, row)[Len(rows) + 1] = row
  BY <1>1, AppendProperties
<1>4. DOMAIN users = 1 .. Len(users) /\ Len(users) \in Nat
  BY Domain
<1>5. DOMAIN users' = 1 .. Len(users) + 1
  BY <1>1, <1>2, <1>3
<1>6. DOMAIN users' = DOMAIN users \cup {Len(users) + 1} /\ Len(users) + 1 \notin DOMAIN users
  BY <1>4, <1>5
<1>7. \A u \in DOMAIN users : users'[u] = rows[u]
  BY <1>1, <1>2, <1>3, <1>4
<1> QED
  BY <1>1, <1>2, <1>3, <1>6, <1>7 DEF RowsInv, Moves

-----------------------------------------------------------------------------
(* The other variables                                                     *)

Ops == AllKinds \cup {"idle", "sign_out_checked", "change_checked", "delete_checked"}

Handlers == [op : Ops, user : Nat, generation : Nat, password : Passwords \cup {None},
             new : Passwords \cup {None}, username : Usernames \cup {None},
             email : Emails \cup {None}, ok : BOOLEAN]

\* What a handler writes in the end has the type of a row.
Fits(h) ==
  /\ h.op = "register" => h.username \in Usernames /\ h.email \in Emails /\ h.password \in Passwords
  /\ h.op \in {"change", "change_checked"} => h.new \in Passwords
  /\ h.op \in {"renew", "sign_out", "sign_out_checked"} => h.password \in Passwords
  /\ h.op = "login" /\ h.ok => h.password \in Passwords

HandlersInv == req \in [Requests -> Handlers] /\ \A r \in Requests : Fits(req[r])

Cookies == [user : Nat, generation : Nat, password : Passwords, out : BOOLEAN]

\* A generation that is present was read with the password that is present.
Knows(u, generation, password, free) ==
  /\ u \in DOMAIN users
  /\ generation <= users[u].generation
  /\ generation = users[u].generation => free \/ password = users[u].password

CookiesInv == \A c \in cookies : c \in Cookies /\ Knows(c.user, c.generation, c.password, c.out)

Sees(h) ==
  /\ h.op = "login" /\ h.ok => Knows(h.user, h.generation, h.password, FALSE)
  /\ h.op = "renew" => Knows(h.user, h.generation, h.password, h.ok)

SeesInv == \A r \in Requests : Sees(req[r])

Logins == {r \in Requests : req[r].op = "login"}

\* Each token taken is a failure; with none left the logins that were let in
\* before are all that can still fail.
BucketInv ==
  /\ level \in Nat /\ since \in Nat /\ base \in Nat
  /\ level > 0 => since + level <= base
  /\ level = 0 => since + Cardinality(Logins) < base + Cardinality(Requests)

Inv == RowsInv /\ HandlersInv /\ CookiesInv /\ SeesInv /\ OneHolder /\ BucketInv

LEMMA HoldKept ==
  ASSUME HandlersInv, NEW r \in Requests, NEW h \in Handlers, Fits(h), Hold(r, h)
  PROVE  /\ HandlersInv' /\ req'[r] = h
         /\ \A s \in Requests : s # r => req'[s] = req[s]
BY DEF HandlersInv, Hold, Fits

LEMMA IdleFits == Idle \in Handlers /\ Fits(Idle) /\ Sees(Idle) /\ Idle.op = "idle"
BY DEF Idle, Handlers, Ops, AllKinds, Fits, Sees, NoUser

LEMMA KnowsKept ==
  ASSUME RowsInv, RowsInv', Moves, NEW u, NEW g \in Nat, NEW p, NEW free, Knows(u, g, p, free)
  PROVE  Knows(u, g, p, free)'
<1>1. u \in DOMAIN users /\ u \in DOMAIN users'
  BY DEF Knows, Moves
<1>2. users[u].generation \in Nat
  BY <1>1, RowIsRow DEF UserRows
<1> QED
  BY <1>1, <1>2 DEF Knows, Moves

LEMMA SeesKept ==
  ASSUME RowsInv, RowsInv', Moves, NEW h \in Handlers, Sees(h)
  PROVE  Sees(h)'
<1>1. h.generation \in Nat
  BY DEF Handlers
<1> QED
  BY <1>1, KnowsKept DEF Sees

LEMMA SeesInvKept ==
  ASSUME RowsInv, RowsInv', Moves, HandlersInv, SeesInv,
         NEW r \in Requests, NEW h \in Handlers, Fits(h), Hold(r, h), Sees(h)'
  PROVE  SeesInv'
<1> SUFFICES ASSUME NEW s \in Requests PROVE Sees(req[s])'
  BY DEF SeesInv
<1>1. CASE s = r
  BY <1>1, HoldKept DEF Sees, Knows
<1>2. CASE s # r
  <2> DEFINE k == req[s]
  <2>1. k \in Handlers /\ Sees(k)
    BY DEF HandlersInv, SeesInv
  <2>2. PICK g : g = k
    OBVIOUS
  <2>3. Sees(g)'
    BY <2>1, <2>2, SeesKept
  <2>4. req'[s] = g
    BY <1>2, <2>2, HoldKept
  <2> QED
    BY <2>3, <2>4 DEF Sees, Knows
<1> QED
  BY <1>1, <1>2

LEMMA CookiesKept ==
  ASSUME RowsInv, RowsInv', Moves, CookiesInv, cookies' \subseteq cookies
  PROVE  CookiesInv'
<1> SUFFICES ASSUME NEW c \in cookies'
             PROVE  c \in Cookies /\ Knows(c.user, c.generation, c.password, c.out)'
  BY DEF CookiesInv, Knows
<1>1. c \in Cookies /\ Knows(c.user, c.generation, c.password, c.out)
  BY DEF CookiesInv
<1>2. c.generation \in Nat
  BY <1>1 DEF Cookies
<1> QED
  BY <1>1, <1>2, KnowsKept

LEMMA IssueKept ==
  ASSUME RowsInv, RowsInv', Moves, CookiesInv,
         NEW u \in Nat, NEW g \in Nat, NEW p \in Passwords, NEW out \in BOOLEAN,
         Issue(u, g, p, out), Knows(u, g, p, out)'
  PROVE  CookiesInv'
<1> DEFINE new == [user |-> u, generation |-> g, password |-> p, out |-> out]
<1> SUFFICES ASSUME NEW c \in cookies'
             PROVE  c \in Cookies /\ Knows(c.user, c.generation, c.password, c.out)'
  BY DEF CookiesInv, Knows
<1>1. CASE c \in cookies
  <2>1. c \in Cookies /\ Knows(c.user, c.generation, c.password, c.out)
    BY <1>1 DEF CookiesInv
  <2>2. c.generation \in Nat
    BY <2>1 DEF Cookies
  <2> QED
    BY <2>1, <2>2, KnowsKept
<1>2. CASE c = new
  <2>1. /\ c \in Cookies
        /\ c.user = u /\ c.generation = g /\ c.password = p /\ c.out = out
    BY <1>2 DEF Cookies
  <2> QED
    BY <2>1
<1> QED
  BY <1>1, <1>2 DEF Issue

LEMMA OneHolderKept ==
  ASSUME RowsInv, Kept, OneHolder
  PROVE  OneHolder'
BY DEF Kept, Moves, SameRows, OneHolder, Present, Exists

LEMMA LoginsKept ==
  ASSUME HandlersInv, BucketInv, UNCHANGED bucket, Logins' \subseteq Logins \/ level > 0
  PROVE  BucketInv'
<1>1. IsFiniteSet(Logins)
  BY AccountsAssumption, FS_Subset DEF Logins
<1>2. CASE Logins' \subseteq Logins
  <2>1. Cardinality(Logins') <= Cardinality(Logins) /\ Cardinality(Logins') \in Nat
        /\ Cardinality(Logins) \in Nat
    BY <1>1, <1>2, FS_Subset, FS_CardinalityType
  <2>2. Cardinality(Requests) \in Nat
    BY AccountsAssumption, FS_CardinalityType
  <2> QED
    BY <2>1, <2>2 DEF BucketInv, bucket
<1>3. CASE level > 0
  BY <1>3 DEF BucketInv, bucket
<1> QED
  BY <1>2, <1>3

\* A step of a request that leaves the bucket alone.
LEMMA RequestStep ==
  ASSUME Inv, RowsInv', Moves, OneHolder', CookiesInv', UNCHANGED bucket,
         NEW r \in Requests, NEW h \in Handlers, Fits(h), Hold(r, h), Sees(h)',
         h.op = "login" => level > 0
  PROVE  Inv'
<1>1. HandlersInv' /\ SeesInv'
  BY HoldKept, SeesInvKept DEF Inv
<1>2. Logins' \subseteq Logins \/ level > 0
  BY HoldKept DEF Logins, Inv
<1>3. BucketInv'
  BY <1>2, LoginsKept DEF Inv
<1> QED
  BY <1>1, <1>3 DEF Inv

LEMMA EndStep ==
  ASSUME Inv, RowsInv', Moves, OneHolder', CookiesInv', UNCHANGED bucket,
         NEW r \in Requests, Hold(r, Idle)
  PROVE  Inv'
<1>1. Sees(Idle)'
  BY DEF Sees, Idle
<1> QED
  BY <1>1, IdleFits, RequestStep

\* A step of nobody's request.
LEMMA OtherStep ==
  ASSUME Inv, RowsInv', Moves, OneHolder', CookiesInv', UNCHANGED <<req, bucket>>
  PROVE  Inv'
<1>1. HandlersInv'
  BY DEF Inv, HandlersInv
<1>2. SeesInv'
  <2> SUFFICES ASSUME NEW s \in Requests PROVE Sees(req[s])'
    BY DEF SeesInv
  <2>1. PICK h : h = req[s]
    OBVIOUS
  <2>2. h \in Handlers /\ Sees(h)
    BY <2>1 DEF Inv, HandlersInv, SeesInv
  <2>3. Sees(h)' /\ req'[s] = h
    BY <2>1, <2>2, SeesKept DEF Inv
  <2> QED
    BY <2>3 DEF Sees, Knows
<1>3. BucketInv'
  <2>1. Logins' \subseteq Logins
    BY DEF Logins
  <2> QED
    BY <2>1, LoginsKept DEF Inv
<1> QED
  BY <1>1, <1>2, <1>3 DEF Inv

-----------------------------------------------------------------------------
(* The steps                                                               *)

LEMMA InitInv == Init => Inv
<1> SUFFICES ASSUME Init PROVE Inv
  OBVIOUS
<1>1. PICK s \in Starts : users = s.users
  BY DEF Init
<1>2. RowsInv /\ OneHolder
  BY <1>1, AccountsAssumption DEF RowsInv, OneHolder, Present, Exists
<1>3. HandlersInv /\ SeesInv
  BY IdleFits DEF Init, HandlersInv, SeesInv
<1>4. CookiesInv
  BY DEF Init, CookiesInv
<1>5. BucketInv
  BY AccountsAssumption DEF Init, BucketInv
<1> QED
  BY <1>2, <1>3, <1>4, <1>5 DEF Inv

LEMMA BeginLoginStep ==
  ASSUME Inv, NEW r \in Requests, NEW name \in Usernames, NEW password \in Passwords,
         BeginLogin(r, name, password)
  PROVE  Inv' /\ Stays
<1>1. Kept /\ Stays /\ OneHolder' /\ CookiesInv' /\ UNCHANGED bucket
  BY UnchangedKept, OneHolderKept, CookiesKept DEF Inv, BeginLogin, Kept
<1>2. level > 0
  <2>1. ~Empty /\ level \in Nat
    BY DEF BeginLogin, Inv, BucketInv
  <2> QED
    BY <2>1 DEF Empty
<1> DEFINE found == {u \in Present : users[u].username = name}
           none  == [Idle EXCEPT !.op = "login"]
<1>3. CASE Hold(r, none)
  <2>1. none \in Handlers /\ Fits(none) /\ ~none.ok /\ none.op = "login"
    BY DEF Idle, Handlers, Ops, AllKinds, Fits, NoUser
  <2> HIDE DEF none
  <2>2. Sees(none)'
    BY <2>1 DEF Sees
  <2> QED
    BY <1>1, <1>2, <1>3, <2>1, <2>2, RequestStep DEF Kept
<1>4. ASSUME NEW u \in found,
             Hold(r, [Idle EXCEPT !.op = "login", !.user = u, !.generation = users[u].generation,
                                  !.password = password, !.ok = users[u].password = password,
                                  !.username = IF Admits(u) THEN name ELSE None])
      PROVE  Inv'
  <2>1. PICK h : h = [Idle EXCEPT !.op = "login", !.user = u, !.generation = users[u].generation,
                                  !.password = password, !.ok = users[u].password = password,
                                  !.username = IF Admits(u) THEN name ELSE None]
    OBVIOUS
  <2>2. u \in DOMAIN users /\ u \in Nat /\ users[u] \in UserRows
    BY RowIsRow, Domain DEF Inv, Present
  <2>3. users[u].generation \in Nat /\ (users[u].password = password) \in BOOLEAN
    BY <2>2 DEF UserRows
  <2>4. /\ h.op = "login" /\ h.user = u /\ h.generation = users[u].generation
        /\ h.password = password /\ h.ok = (users[u].password = password)
        /\ h.new = None /\ h.email = None
        /\ h.username \in {name, None}
    BY <2>1 DEF Idle
  <2>5. h = [op |-> h.op, user |-> h.user, generation |-> h.generation, password |-> h.password,
             new |-> h.new, username |-> h.username, email |-> h.email, ok |-> h.ok]
    BY <2>1 DEF Idle
  <2>6. h \in Handlers /\ Fits(h)
    <3>1. h.op \in Ops /\ h.user \in Nat /\ h.generation \in Nat /\ h.ok \in BOOLEAN
      BY <2>2, <2>3, <2>4 DEF Ops, AllKinds
    <3>2. /\ h.password \in Passwords \cup {None} /\ h.new \in Passwords \cup {None}
          /\ h.username \in Usernames \cup {None} /\ h.email \in Emails \cup {None}
      BY <2>4
    <3>3. h \in Handlers
      BY <3>1, <3>2, <2>5 DEF Handlers
    <3>4. Fits(h)
      BY <2>4 DEF Fits
    <3> QED
      BY <3>3, <3>4
  <2>7. Sees(h)
    <3>1. h.ok => password = users[u].password
      BY <2>4
    <3>2. h.op = "login"
      BY <2>4
    <3>3. h.ok => Knows(u, users[u].generation, password, FALSE)
      BY <2>2, <2>3, <3>1 DEF Knows
    <3>4. h.ok => Knows(h.user, h.generation, h.password, FALSE)
      BY <2>4, <3>3
    <3> QED
      BY <3>2, <3>4 DEF Sees
  <2>8. Sees(h)'
    BY <1>1, <2>6, <2>7, SeesKept DEF Kept, Inv
  <2> QED
    BY <1>1, <1>2, <1>4, <2>1, <2>4, <2>6, <2>8, RequestStep DEF Kept
<1> QED
  BY <1>1, <1>3, <1>4 DEF BeginLogin

LEMMA BeginRegisterStep ==
  ASSUME Inv, NEW r \in Requests, NEW name \in Usernames, NEW email \in Emails,
         NEW password \in Passwords, BeginRegister(r, name, email, password)
  PROVE  Inv' /\ Stays
<1>1. Kept /\ Stays /\ OneHolder' /\ CookiesInv' /\ UNCHANGED bucket
  BY UnchangedKept, OneHolderKept, CookiesKept DEF Inv, BeginRegister, Kept
<1> DEFINE h == [Idle EXCEPT !.op = "register", !.username = name, !.email = email,
                             !.password = password]
<1>2. h \in Handlers /\ Fits(h) /\ h.op = "register"
  BY DEF Idle, Handlers, Ops, AllKinds, Fits, NoUser
<1>3. Hold(r, h)
  BY DEF BeginRegister
<1> HIDE DEF h
<1>4. Sees(h)'
  BY <1>2 DEF Sees
<1> QED
  BY <1>1, <1>2, <1>3, <1>4, RequestStep DEF Kept

LEMMA BeginSessionStep ==
  ASSUME Inv, NEW r \in Requests, NEW op \in {"renew", "sign_out", "delete", "change"},
         NEW c \in cookies, NEW password \in Passwords, NEW new \in Passwords \cup {None},
         op = "change" => new \in Passwords, BeginSession(r, op, c, password, new)
  PROVE  Inv' /\ Stays
<1>1. Kept /\ Stays /\ OneHolder' /\ CookiesInv' /\ UNCHANGED bucket
  BY UnchangedKept, OneHolderKept, CookiesKept DEF Inv, BeginSession, Kept
<1> DEFINE h == [Idle EXCEPT !.op = op, !.user = c.user, !.generation = c.generation,
                             !.password = IF op = "renew" THEN c.password ELSE password,
                             !.new = new, !.ok = c.out]
<1>2. c \in Cookies /\ Knows(c.user, c.generation, c.password, c.out)
  BY DEF Inv, CookiesInv
<1>3. c.user \in Nat /\ c.generation \in Nat /\ c.password \in Passwords /\ c.out \in BOOLEAN
  BY <1>2 DEF Cookies
<1>4. /\ h \in Handlers /\ h.op = op /\ h.user = c.user /\ h.generation = c.generation
      /\ op = "renew" => h.password = c.password
      /\ h.password \in Passwords /\ h.new = new /\ h.ok = c.out
  BY <1>3 DEF Idle, Handlers, Ops, AllKinds
<1>5. Hold(r, h)
  BY DEF BeginSession
<1> HIDE DEF h
<1>6. Fits(h)
  BY <1>4 DEF Fits
<1>7. Sees(h)
  BY <1>2, <1>4 DEF Sees
<1>8. Sees(h)'
  BY <1>1, <1>4, <1>7, SeesKept DEF Kept, Inv
<1> QED
  BY <1>1, <1>4, <1>5, <1>6, <1>8, RequestStep DEF Kept

\* Steps in which no row changes.
LEMMA SameUsers ==
  ASSUME Inv, UNCHANGED users
  PROVE  Kept /\ RowsInv' /\ Moves /\ Stays /\ OneHolder'
BY UnchangedKept, OneHolderKept DEF Inv, Kept

LEMMA FinishRegisterStep ==
  ASSUME Inv, NEW r \in Requests, FinishRegister(r)
  PROVE  Inv' /\ \A u \in Present : ~Exists(u)' => ~users[u].confirmed /\ ~Holds(u)
<1> DEFINE name == req[r].username
           email == req[r].email
           way == InTheWay(name, email)
           others == Present \ way
           holders == {u \in others : users[u].email = email}
           row == [username |-> name, email |-> email, password |-> req[r].password,
                   confirmed |-> FALSE, generation |-> 0, deleted |-> FALSE]
<1>1. row \in UserRows /\ row.username = name /\ row.email = email
  <2>1. name \in Usernames /\ email \in Emails /\ req[r].password \in Passwords
    BY DEF FinishRegister, Now, Inv, HandlersInv, Fits
  <2> QED
    BY <2>1 DEF UserRows
<1>2. \A u \in way : ~users[u].confirmed /\ ~Holds(u)
  BY DEF InTheWay, Lapsed
<1>3. Hold(r, Idle) /\ UNCHANGED <<cookies, bucket>>
  BY DEF FinishRegister
<1>4. \/ users' = Gone(way)
      \/ UNCHANGED users
      \/ holders = {} /\ ~Violates(name, others) /\ Created(way, row)
  BY DEF FinishRegister, Created
<1>5. CASE users' = Gone(way)
  <2> HIDE DEF way
  <2>1. Kept /\ \A u \in DOMAIN users : users'[u].deleted = (users[u].deleted \/ u \in way)
    BY <1>5, GoneKept DEF Inv
  <2>2. RowsInv' /\ Moves /\ OneHolder' /\ CookiesInv'
    BY <1>3, <2>1, OneHolderKept, CookiesKept DEF Inv, Kept
  <2>3. Inv'
    BY <1>3, <2>2, EndStep
  <2>4. \A u \in Present : ~Exists(u)' => u \in way
    BY <2>1 DEF Present, Exists, Kept, SameRows
  <2> QED
    BY <1>2, <2>3, <2>4
<1>6. CASE UNCHANGED users
  <2>1. RowsInv' /\ Moves /\ OneHolder' /\ CookiesInv'
    BY <1>3, <1>6, SameUsers, CookiesKept DEF Inv
  <2>2. Inv'
    BY <1>3, <2>1, EndStep
  <2> QED
    BY <1>6, <2>2 DEF Present, Exists
<1>7. CASE holders = {} /\ ~Violates(name, others) /\ Created(way, row)
  <2>1. \A u \in Present : u \notin way => users[u].username # name /\ users[u].email # email
    BY <1>7 DEF Violates
  <2> HIDE DEF way, row
  <2> DEFINE new == Len(users) + 1
  <2>2. /\ RowsInv' /\ Moves
        /\ DOMAIN users' = DOMAIN users \cup {new}
        /\ new \notin DOMAIN users
        /\ users'[new] = row
        /\ \A u \in DOMAIN users : users'[u].deleted = (users[u].deleted \/ u \in way)
    BY <1>1, <1>7, CreatedRows DEF Inv
  <2> HIDE DEF new, name, email
  <2>3. OneHolder'
    <3>1. ASSUME NEW u \in DOMAIN users, u \in Present'
          PROVE  u \in Present /\ users'[u].username # row.username /\ users'[u].email # row.email
      BY <1>1, <2>1, <2>2, <3>1 DEF Present, Exists, Moves
    <3>2. \A u, v \in DOMAIN users :
            u \in Present' /\ v \in Present' /\ u # v =>
              users'[u].username # users'[v].username /\ users'[u].email # users'[v].email
      BY <2>2, <3>1 DEF Inv, OneHolder, Moves
    <3>3. Present' \subseteq DOMAIN users \cup {new}
      BY <2>2 DEF Present
    <3> QED
      BY <2>2, <3>1, <3>2, <3>3 DEF OneHolder
  <2>4. CookiesInv'
    BY <1>3, <2>2, CookiesKept DEF Inv
  <2>5. Inv'
    BY <1>3, <2>2, <2>3, <2>4, EndStep
  <2>6. \A u \in Present : ~Exists(u)' => u \in way
    BY <2>2 DEF Present, Exists
  <2> QED
    BY <1>2, <2>5, <2>6
<1> QED
  BY <1>4, <1>5, <1>6, <1>7

LEMMA FinishLoginStep ==
  ASSUME Inv, NEW r \in Requests, FinishLogin(r)
  PROVE  Inv' /\ Stays
<1>1. RowsInv' /\ Moves /\ Stays /\ OneHolder'
  BY SameUsers DEF FinishLogin
<1>2. Hold(r, Idle) /\ req[r].op = "login"
  BY DEF FinishLogin, Now
<1>3. CASE req[r].ok
  <2>1. UNCHANGED bucket
    BY <1>3 DEF FinishLogin
  <2>2. PICK h : h = req[r]
    OBVIOUS
  <2>3. h \in Handlers /\ Fits(h) /\ Sees(h) /\ h.op = "login" /\ h.ok
    BY <1>2, <1>3, <2>2 DEF Inv, HandlersInv, SeesInv
  <2>4. h.user \in Nat /\ h.generation \in Nat /\ h.password \in Passwords
    BY <2>3 DEF Handlers, Fits
  <2>5. Knows(h.user, h.generation, h.password, FALSE)'
    BY <1>1, <2>3, <2>4, KnowsKept DEF Sees, Inv
  <2>6. \/ UNCHANGED cookies
        \/ Issue(h.user, h.generation, h.password, FALSE)
    BY <1>3, <2>2 DEF FinishLogin, ReadGeneration
  <2>7. CookiesInv'
    BY <1>1, <2>4, <2>5, <2>6, CookiesKept, IssueKept DEF Inv
  <2> QED
    BY <1>1, <1>2, <2>1, <2>7, EndStep
<1>4. CASE ~req[r].ok
  <2>1. /\ level' = IF level > 0 THEN level - 1 ELSE 0
        /\ since' = since + 1
        /\ UNCHANGED <<cookies, base>>
    BY <1>4 DEF FinishLogin
  <2>2. HandlersInv' /\ req'[r] = Idle /\ \A s \in Requests : s # r => req'[s] = req[s]
    BY <1>2, HoldKept, IdleFits DEF Inv
  <2>3. SeesInv'
    BY <1>1, <1>2, SeesInvKept, IdleFits DEF Inv, Sees, Idle
  <2>4. CookiesInv'
    BY <1>1, <2>1, CookiesKept DEF Inv
  <2>5. BucketInv'
    <3>1. r \in Logins /\ Logins' = Logins \ {r}
      BY <1>2, <2>2, IdleFits DEF Logins
    <3>2. IsFiniteSet(Logins) /\ Cardinality(Logins) \in Nat /\ Cardinality(Requests) \in Nat
          /\ Cardinality(Logins) <= Cardinality(Requests)
      BY AccountsAssumption, FS_Subset, FS_CardinalityType DEF Logins
    <3>3. Cardinality(Logins') = Cardinality(Logins) - 1
      BY <3>1, <3>2, FS_RemoveElement
    <3> HIDE DEF Logins
    <3> QED
      BY <2>1, <3>2, <3>3 DEF Inv, BucketInv
  <2> QED
    BY <1>1, <2>2, <2>3, <2>4, <2>5 DEF Inv
<1> QED
  BY <1>3, <1>4

LEMMA RefillStep ==
  ASSUME Inv, Refill
  PROVE  Inv' /\ Stays
<1>1. RowsInv' /\ Moves /\ Stays /\ OneHolder'
  BY SameUsers DEF Refill
<1>2. HandlersInv' /\ CookiesInv'
  BY <1>1, CookiesKept DEF Refill, Inv, HandlersInv
<1>3. SeesInv'
  BY DEF Refill, Inv, SeesInv, Sees, Knows
<1>4. BucketInv'
  BY AccountsAssumption DEF Refill, Inv, BucketInv
<1> QED
  BY <1>1, <1>2, <1>3, <1>4 DEF Inv

\* A session is issued for what a request holds, or nothing but its end is
\* recorded.
LEMMA RenewStep ==
  ASSUME Inv, NEW r \in Requests, Renew(r)
  PROVE  Inv' /\ Stays
<1>1. RowsInv' /\ Moves /\ Stays /\ OneHolder' /\ UNCHANGED bucket /\ Hold(r, Idle)
  BY SameUsers DEF Renew
<1>2. PICK h : h = req[r]
  OBVIOUS
<1>3. h \in Handlers /\ Fits(h) /\ Sees(h) /\ h.op = "renew"
  BY <1>2 DEF Inv, HandlersInv, SeesInv, Renew, Now
<1>4. h.user \in Nat /\ h.generation \in Nat /\ h.password \in Passwords /\ h.ok \in BOOLEAN
  BY <1>3 DEF Handlers, Fits
<1>5. Knows(h.user, h.generation, h.password, h.ok)'
  BY <1>1, <1>3, <1>4, KnowsKept DEF Sees, Inv
<1>6. Issue(h.user, h.generation, h.password, h.ok)
  BY <1>2 DEF Renew, ReadGeneration
<1>7. CookiesInv'
  BY <1>1, <1>4, <1>5, <1>6, IssueKept DEF Inv
<1> QED
  BY <1>1, <1>7, EndStep

LEMMA CheckPasswordStep ==
  ASSUME Inv, NEW r \in Requests, CheckPassword(r)
  PROVE  Inv' /\ Stays
<1>1. RowsInv' /\ Moves /\ Stays /\ OneHolder' /\ UNCHANGED bucket /\ CookiesInv'
  BY SameUsers, CookiesKept DEF CheckPassword, Inv
<1>2. CASE Hold(r, Idle)
  BY <1>1, <1>2, EndStep
<1>3. CASE Hold(r, [req[r] EXCEPT !.op = Checked[@]])
  <2>1. PICK k : k = req[r]
    OBVIOUS
  <2>2. k \in Handlers /\ Fits(k) /\ k.op \in {"sign_out", "change", "delete"}
    BY <2>1 DEF Inv, HandlersInv, CheckPassword
  <2> DEFINE h == [k EXCEPT !.op = Checked[@]]
  <2>3. Checked[k.op] \in {"sign_out_checked", "change_checked", "delete_checked"}
        /\ (Checked[k.op] = "change_checked" => k.op = "change")
        /\ (Checked[k.op] = "sign_out_checked" => k.op = "sign_out")
    BY <2>2 DEF Checked
  <2>4. h \in Handlers /\ h.op = Checked[k.op] /\ h.new = k.new /\ h.password = k.password
    BY <2>2, <2>3 DEF Handlers, Ops
  <2>5. Hold(r, h)
    BY <1>3, <2>1
  <2> HIDE DEF h
  <2>6. Fits(h) /\ Sees(h)' /\ h.op # "login"
    BY <2>2, <2>3, <2>4 DEF Fits, Sees
  <2> QED
    BY <1>1, <2>4, <2>5, <2>6, RequestStep
<1> QED
  BY <1>2, <1>3 DEF CheckPassword

LEMMA VanishedStep ==
  ASSUME Inv, NEW r \in Requests, Vanished(r)
  PROVE  Inv' /\ Stays
BY SameUsers, CookiesKept, EndStep DEF Vanished, Inv

LEMMA SignOutStep ==
  ASSUME Inv, NEW r \in Requests, SignOutEverywhere(r)
  PROVE  Inv' /\ Stays
<1>1. PICK h : h = req[r]
  OBVIOUS
<1>2. PICK u : u = h.user
  OBVIOUS
<1>3. /\ u \in DOMAIN users /\ u \in Nat /\ users[u].generation \in Nat
      /\ users' = [users EXCEPT ![u].generation = @ + 1]
      /\ Hold(r, Idle) /\ UNCHANGED bucket
  BY <1>1, <1>2, RowIsRow, Domain DEF SignOutEverywhere, Exists, Inv, UserRows
<1>4. Kept /\ Stays /\ users'[u].generation = users[u].generation + 1
  BY <1>3, OlderKept DEF Inv
<1>5. OneHolder'
  BY <1>4, OneHolderKept DEF Inv
<1>6. PICK g : g = users'[u].generation
  OBVIOUS
<1>7. PICK p : p = h.password
  OBVIOUS
<1>8. Issue(u, g, p, TRUE) /\ g \in Nat
  <2>1. g \in Nat
    BY <1>3, <1>4, <1>6
  <2>2. Issue(u, g, p, TRUE)
    BY <1>1, <1>2, <1>6, <1>7 DEF SignOutEverywhere, Issue
  <2> QED
    BY <2>1, <2>2
<1>9. Knows(u, g, p, TRUE)'
  BY <1>3, <1>4, <1>6, <1>8 DEF Knows, Kept, SameRows
<1>10. CookiesInv'
  <2>1. p \in Passwords
    BY <1>1, <1>7 DEF Inv, HandlersInv, Fits, SignOutEverywhere, Now
  <2> QED
    BY <1>3, <1>4, <1>8, <1>9, <2>1, IssueKept DEF Kept, Inv
<1> QED
  BY <1>3, <1>4, <1>5, <1>10, EndStep DEF Kept

LEMMA ChangePasswordStep ==
  ASSUME Inv, NEW r \in Requests, ChangePassword(r)
  PROVE  Inv' /\ Stays
<1>1. PICK h : h = req[r]
  OBVIOUS
<1>2. PICK u : u = h.user
  OBVIOUS
<1>3. PICK p : p = h.new
  OBVIOUS
<1>4. p \in Passwords
  BY <1>1, <1>3 DEF Inv, HandlersInv, Fits, ChangePassword, Now
<1>5. /\ u \in DOMAIN users /\ u \in Nat /\ users[u].generation \in Nat
      /\ users' = [users EXCEPT ![u].generation = @ + 1, ![u].password = p]
      /\ Hold(r, Idle) /\ UNCHANGED bucket
  BY <1>1, <1>2, <1>3, RowIsRow, Domain DEF ChangePassword, Exists, Inv, UserRows
<1>6. /\ Kept /\ Stays
      /\ users'[u].generation = users[u].generation + 1 /\ users'[u].password = p
  BY <1>4, <1>5, BumpedKept DEF Inv
<1>7. OneHolder'
  BY <1>6, OneHolderKept DEF Inv
<1>8. PICK g : g = users'[u].generation
  OBVIOUS
<1>9. Issue(u, g, p, FALSE) /\ g \in Nat
  <2>1. g \in Nat
    BY <1>5, <1>6, <1>8
  <2>2. Issue(u, g, p, FALSE)
    BY <1>1, <1>2, <1>3, <1>8 DEF ChangePassword, Issue
  <2> QED
    BY <2>1, <2>2
<1>10. Knows(u, g, p, FALSE)'
  BY <1>5, <1>6, <1>8, <1>9 DEF Knows, Kept, SameRows
<1>11. CookiesInv'
  BY <1>4, <1>5, <1>6, <1>9, <1>10, IssueKept DEF Kept, Inv
<1> QED
  BY <1>5, <1>6, <1>7, <1>11, EndStep DEF Kept

LEMMA DeleteAccountStep ==
  ASSUME Inv, NEW r \in Requests, DeleteAccount(r)
  PROVE  Inv' /\ \A u \in Present : ~Exists(u)' => Now(r, "delete_checked") /\ req[r].user = u
<1>1. PICK S : S = {req[r].user}
  OBVIOUS
<1>2. /\ users' = Gone(S) /\ Hold(r, Idle) /\ UNCHANGED <<cookies, bucket>>
      /\ Now(r, "delete_checked")
  BY <1>1 DEF DeleteAccount
<1>3. Kept /\ \A u \in DOMAIN users : users'[u].deleted = (users[u].deleted \/ u \in S)
  BY <1>2, GoneKept DEF Inv
<1>4. RowsInv' /\ Moves /\ OneHolder' /\ CookiesInv'
  BY <1>2, <1>3, OneHolderKept, CookiesKept DEF Inv, Kept
<1>5. Inv'
  BY <1>2, <1>4, EndStep
<1>6. \A u \in Present : ~Exists(u)' => u \in S
  BY <1>3 DEF Present, Exists, Kept, SameRows
<1> QED
  BY <1>1, <1>2, <1>5, <1>6

LEMMA BeginResetStep ==
  ASSUME Inv, NEW r \in Requests, NEW email \in Emails, BeginReset(r, email)
  PROVE  Inv' /\ Stays
<1>1. RowsInv' /\ Moves /\ Stays /\ OneHolder' /\ UNCHANGED bucket /\ CookiesInv'
  BY SameUsers, CookiesKept DEF BeginReset, Inv
<1>2. PICK u \in Present : Hold(r, [Idle EXCEPT !.op = "reset", !.user = u])
  BY DEF BeginReset
<1> DEFINE h == [Idle EXCEPT !.op = "reset", !.user = u]
<1>3. u \in Nat
  BY <1>2, Domain DEF Present, Inv
<1>4. h \in Handlers /\ Fits(h) /\ h.op = "reset"
  BY <1>3 DEF Idle, Handlers, Ops, AllKinds, Fits
<1> HIDE DEF h
<1>5. Sees(h)'
  BY <1>4 DEF Sees
<1> QED
  BY <1>1, <1>2, <1>4, <1>5, RequestStep DEF h

LEMMA StoreTokenStep ==
  ASSUME Inv, NEW r \in Requests, StoreToken(r)
  PROVE  Inv' /\ Stays
BY SameUsers, CookiesKept, EndStep DEF StoreToken, Inv

LEMMA ConfirmEmailStep ==
  ASSUME Inv, NEW c, ConfirmEmail(c)
  PROVE  Inv' /\ Stays
<1>1. Kept /\ Stays
  BY ConfirmKept DEF Inv
<1> QED
  BY <1>1, OneHolderKept, CookiesKept, OtherStep DEF ConfirmEmail, Inv, Kept

LEMMA ResetPasswordStep ==
  ASSUME Inv, NEW t, NEW p \in Passwords, ResetPassword(t, p)
  PROVE  Inv' /\ Stays
<1>1. PICK u : u = tokens[t].user
  OBVIOUS
<1>2. u \in DOMAIN users /\ users' = [users EXCEPT ![u].generation = @ + 1, ![u].password = p]
  BY <1>1 DEF ResetPassword, Exists
<1>3. Kept /\ Stays
  BY <1>2, BumpedKept DEF Inv
<1> QED
  BY <1>3, OneHolderKept, CookiesKept, OtherStep DEF ResetPassword, Inv, Kept

\* The clock, and the cookies of a browser.
LEMMA QuietStep ==
  ASSUME Inv, UNCHANGED <<users, req, bucket>>, cookies' \subseteq cookies
  PROVE  Inv' /\ Stays
BY SameUsers, CookiesKept, OtherStep DEF Inv

LEMMA DeleteStaleStep ==
  ASSUME Inv, DeleteStaleUnconfirmed
  PROVE  Inv' /\ \A u \in Present : ~Exists(u)' => ~users[u].confirmed /\ ~Holds(u)
<1>1. PICK S : S = Abandoned
  OBVIOUS
<1>2. users' = Gone(S) /\ UNCHANGED <<req, cookies, bucket>>
  BY <1>1 DEF DeleteStaleUnconfirmed
<1>3. Kept /\ \A u \in DOMAIN users : users'[u].deleted = (users[u].deleted \/ u \in S)
  BY <1>2, GoneKept DEF Inv
<1>4. RowsInv' /\ Moves /\ OneHolder' /\ CookiesInv'
  BY <1>2, <1>3, OneHolderKept, CookiesKept DEF Inv, Kept
<1>5. Inv'
  BY <1>2, <1>4, OtherStep
<1>6. \A u \in Present : ~Exists(u)' => u \in S
  BY <1>3 DEF Present, Exists, Kept, SameRows
<1>7. \A u \in S : ~users[u].confirmed /\ ~Holds(u)
  BY <1>1 DEF Abandoned, Holds
<1> QED
  BY <1>5, <1>6, <1>7

-----------------------------------------------------------------------------
(* Theorems                                                                *)

\* An account goes in a step only where AccountsStay lets it.
MayGo(u) == \/ ~users[u].confirmed /\ ~Holds(u)
            \/ \E r \in Requests : Now(r, "delete_checked") /\ req[r].user = u

OnlyMayGo == \A u \in Present : ~Exists(u)' => MayGo(u)

LEMMA NobodyGoes == Stays => OnlyMayGo
BY DEF Stays, OnlyMayGo, Present, Exists

LEMMA NextInv ==
  ASSUME Inv, [Next]_vars
  PROVE  Inv' /\ OnlyMayGo
<1>1. CASE UNCHANGED vars
  <2>1. UNCHANGED <<users, req, bucket>> /\ cookies' \subseteq cookies
    BY <1>1 DEF vars, bucket
  <2> QED
    BY <2>1, QuietStep, NobodyGoes
<1>2. ASSUME NEW r \in Requests, NEW name \in Usernames, NEW password \in Passwords,
             \/ BeginLogin(r, name, password)
             \/ \E email \in Emails : BeginRegister(r, name, email, password)
      PROVE  Inv' /\ Stays
  BY <1>2, BeginLoginStep, BeginRegisterStep
<1>3. ASSUME NEW r \in Requests, FinishRegister(r) PROVE Inv' /\ OnlyMayGo
  BY <1>3, FinishRegisterStep DEF OnlyMayGo, MayGo
<1>4. ASSUME NEW r \in Requests, NEW c \in cookies, NEW password \in Passwords,
             \/ \E op \in {"renew", "sign_out", "delete"} : BeginSession(r, op, c, password, None)
             \/ \E new \in Passwords : BeginSession(r, "change", c, password, new)
      PROVE  Inv' /\ Stays
  BY <1>4, BeginSessionStep
<1>5. ASSUME NEW r \in Requests,
             \/ FinishLogin(r) \/ Renew(r) \/ CheckPassword(r) \/ Vanished(r)
             \/ SignOutEverywhere(r) \/ ChangePassword(r) \/ StoreToken(r)
             \/ \E email \in Emails : BeginReset(r, email)
      PROVE  Inv' /\ Stays
  BY <1>5, FinishLoginStep, RenewStep, CheckPasswordStep, VanishedStep, SignOutStep,
     ChangePasswordStep, StoreTokenStep, BeginResetStep
<1>6. ASSUME NEW r \in Requests, DeleteAccount(r) PROVE Inv' /\ OnlyMayGo
  BY <1>6, DeleteAccountStep DEF OnlyMayGo, MayGo
<1>7. ASSUME NEW c, ConfirmEmail(c) \/ Age(c) PROVE Inv' /\ Stays
  BY <1>7, ConfirmEmailStep, QuietStep DEF Age
<1>8. ASSUME NEW t, (\E password \in Passwords : ResetPassword(t, password)) \/ TokenExpires(t)
      PROVE  Inv' /\ Stays
  BY <1>8, ResetPasswordStep, QuietStep DEF TokenExpires
<1>9. ASSUME NEW c \in cookies, Drop(c) PROVE Inv' /\ Stays
  BY <1>9, QuietStep DEF Drop
<1>10. CASE Refill
  BY <1>10, RefillStep, NobodyGoes
<1>11. CASE DeleteStaleUnconfirmed
  BY <1>11, DeleteStaleStep DEF OnlyMayGo, MayGo
<1> QED
  BY <1>1, <1>2, <1>3, <1>4, <1>5, <1>6, <1>7, <1>8, <1>9, <1>10, <1>11, NobodyGoes DEF Next

LEMMA AlwaysInv == Spec => []Inv
<1>1. Inv /\ [Next]_vars => Inv'
  BY NextInv
<1> QED
  BY <1>1, InitInv, PTL DEF Spec

\* However registrations, deletions and lapses overlap, a username and an
\* address each belong to one account.
THEOREM HoldersAreUnique == Spec => []OneHolder
<1>1. Inv => OneHolder
  BY DEF Inv
<1> QED
  BY <1>1, AlwaysInv, PTL

\* However logins, renewals, changes and resets overlap, a session that is
\* accepted was opened with the present password.
THEOREM SessionsKnow == Spec => []SessionsKnowThePassword
<1>1. Inv => SessionsKnowThePassword
  BY DEF Inv, CookiesInv, Knows, SessionsKnowThePassword, Live
<1> QED
  BY <1>1, AlwaysInv, PTL

\* For any bucket and any number of requests at once, the failures between two
\* refills are at most the tokens there were and the requests let in before.
THEOREM FailuresBounded == Spec => []FailuresAreBounded
<1>1. ASSUME Inv PROVE FailuresAreBounded
  <2>1. Cardinality(Requests) \in Nat \ {0}
    BY AccountsAssumption, FS_CardinalityType, FS_EmptySet
  <2>2. Cardinality(Logins) \in Nat
    BY AccountsAssumption, FS_Subset, FS_CardinalityType DEF Logins
  <2>3. CASE level > 0
    BY <1>1, <2>1, <2>3 DEF Inv, BucketInv, FailuresAreBounded
  <2>4. CASE level = 0
    BY <1>1, <2>1, <2>2, <2>4 DEF Inv, BucketInv, FailuresAreBounded
  <2> QED
    BY <1>1, <2>3, <2>4 DEF Inv, BucketInv
<1> QED
  BY <1>1, AlwaysInv, PTL

\* Whatever registrations, clean-ups and requests overlap, an account goes only
\* at its owner's request or unconfirmed with no code that is valid.
THEOREM AccountsAreKept == Spec => AccountsStay
<1>1. Inv /\ [Next]_vars => OnlyMayGo
  BY NextInv
<1>2. OnlyMayGo => [\A u \in Present : ~Exists(u)' =>
                      \/ ~users[u].confirmed /\ ~Holds(u)
                      \/ \E r \in Requests : Now(r, "delete_checked") /\ req[r].user = u]_vars
  BY DEF OnlyMayGo, MayGo
<1> QED
  BY <1>1, <1>2, AlwaysInv, PTL DEF Spec, AccountsStay
=============================================================================
