--------------------------- MODULE AccountsProofs ---------------------------
(***************************************************************************)
(* One reset link works at a time, an account of Google's has no password, *)
(* and requests that come one at a time are counted right: for any number  *)
(* of requests, tokens and passwords.                                      *)
(***************************************************************************)
EXTENDS Accounts, TLAPS

TokenRows == [state : {"none", "unused", "expired", "used", "gone"}, sent : BOOLEAN,
              links : SUBSET Tables]
Books == [kept : BOOLEAN, uses : [Tokens -> Nat], welcomes : Nat,
          word : Secrets \cup {None}, lone : BOOLEAN]

\* The parts of the type invariant.
TypedUsers == user \in [Tables -> Rows]
TypedTokens ==
    /\ token \in [Tokens -> TokenRows]
    /\ \A t \in Tokens : token[t].state \in {"unused", "expired", "used"} =>
            token[t].links # {} /\ \A w \in token[t].links : Live(w)
TypedJobs ==
    /\ job \in [Handlers -> Jobs]
    /\ \A h \in Handlers : job[h].at \in {"invalidate", "create"} => job[h].links # {}
TypedRest ==
    /\ crossed \subseteq Handlers
    /\ settled \in BOOLEAN
    /\ book \in Books
    /\ faults \in 0 .. MaxFaults

Typed == TypedUsers /\ TypedTokens /\ TypedJobs /\ TypedRest

\* The token that a request resets the password with has been created.
HeldTokens ==
    \A h \in Handlers : job[h].at \in {"write", "mark"} /\ job[h].t \in Tokens =>
        token[job[h].t].state # "none"

LEMMA TypedIsTypeOK == Typed => TypeOK
BY DEF Typed, TypedUsers, TypedTokens, TypedJobs, TypedRest, TypeOK, TokenRows, Books

-----------------------------------------------------------------------------
(* What the steps write. *)

LEMMA QuietIsJob == Quiet \in Jobs
BY DEF Quiet, Jobs, Tables

LEMMA NewRowIsRow ==
    ASSUME NEW p \in Secrets, NEW v \in BOOLEAN, NEW f \in {"LOCAL", "GOOGLE"}
    PROVE  NewRow(p, v, f) \in Rows
BY DEF NewRow, Rows

LEMMA AbsentIsRow ==
    ASSUME NEW s \in {"absent", "deleted"}
    PROVE  Absent(s) \in Rows /\ Absent(s).state = s /\ Absent(s).provider = "LOCAL"
BY DEF Absent, Rows

\* A request that moves has a job of the kind, and the others keep theirs.
LEMMA StepTyped ==
    ASSUME TypedJobs, NEW h \in Handlers, NEW j \in Jobs, Step(h, j),
           j.at \in {"invalidate", "create"} => j.links # {}
    PROVE  /\ TypedJobs'
           /\ job'[h] = j
           /\ \A g \in Handlers : g # h => job'[g] = job[g]
BY DEF TypedJobs, Step

LEMMA EndTyped ==
    ASSUME TypedJobs, NEW h \in Handlers, Ends(h)
    PROVE  /\ TypedJobs'
           /\ job'[h] = Quiet
           /\ \A g \in Handlers : g # h => job'[g] = job[g]
<1>1. Quiet.at = "idle"
    BY DEF Quiet
<1> QED
    BY <1>1, QuietIsJob, StepTyped DEF Ends

LEMMA BookWritten ==
    ASSUME book \in Books, NEW b \in Books, Notes(b)
    PROVE  book' \in Books
BY DEF Notes

LEMMA EmptyIsBook == Empty \in Books /\ Closed \in Books
BY DEF Empty, Closed, Books

LEMMA BookArrives ==
    ASSUME book \in Books, Arrives \/ (\E w : Intervenes(w)) \/ UNCHANGED book
    PROVE  book' \in Books
<1>1. TakenBack(book) \in Books
    BY DEF TakenBack, Books
<1> QED
    BY <1>1, EmptyIsBook DEF Arrives, Intervenes

-----------------------------------------------------------------------------
(* Types. *)

LEMMA TypedInit == Init => Typed
<1> SUFFICES ASSUME Init PROVE Typed
    OBVIOUS
<1>1. TypedUsers
  <2>1. ASSUME NEW w \in Tables, NEW u \in Older(w) PROVE u \in Rows
    <3>1. PICK p \in Passwords, a \in BOOLEAN : u = OlderRow(w, p, a)
        BY <2>1 DEF Older
    <3>2. NewRow(p, FALSE, "LOCAL") \in Rows
        BY NewRowIsRow DEF Secrets
    <3> QED
        BY <3>1, <3>2 DEF OlderRow, Rows
  <2>2. Absent("absent") \in Rows
      BY AbsentIsRow
  <2> DEFINE All == (UNION {Older(w) : w \in Tables}) \cup {Absent("absent")}
  <2>3. ASSUME NEW u \in All PROVE u \in Rows
    <3>1. (\E w \in Tables : u \in Older(w)) \/ u = Absent("absent")
        OBVIOUS
    <3> QED
        BY <2>1, <2>2, <3>1
  <2>4. user \in [Tables -> All]
      BY DEF Init
  <2> HIDE DEF All
  <2> QED
      BY <2>3, <2>4 DEF TypedUsers
<1>2. TypedTokens
    BY DEF Init, TypedTokens, TokenRows, NoToken
<1>3. TypedJobs
    BY QuietIsJob DEF Init, TypedJobs, Quiet
<1>4. TypedRest
    BY EmptyIsBook, FaultsAssumption DEF Init, TypedRest
<1> QED
    BY <1>1, <1>2, <1>3, <1>4 DEF Typed

\* The actions that begin a request.
Arrival(h) ==
    \/ LoginRead(h) \/ GoogleRead(h) \/ SyncRead(h)
    \/ \E p \in Passwords : ChangeRead(h, p) \/ \E t \in Tokens : ResetRead(h, t, p)
    \/ \E t \in Tokens : ForgotRead(h, t)

\* What a request brings along when it begins.
Arrived(h, j) ==
    /\ j \in Jobs
    /\ Idle(h) /\ Step(h, j) /\ Arrives
    /\ \/ /\ j.at = "migrate" /\ Signer(j.w) /\ user[j.w].form = "plain"
          /\ j.new = user[j.w].secret
       \/ j.at = "google"
       \/ j.at = "verify" /\ Live("account") /\ j.was = user["account"].verified
       \/ j.at = "write" /\ j.t = None /\ j.w = "account" /\ user["account"].provider = "LOCAL"
          /\ Live("account")
       \/ /\ j.at = "write" /\ j.t \in Tokens /\ Fresh(j.t)
          /\ j.w = Target(token[j.t].links)
       \/ /\ j.at = "invalidate" /\ j.t \in Tokens /\ token[j.t].state = "none"
          /\ \A g \in Handlers : job[g].t # j.t
          /\ j.links = {w \in Tables : Live(w)} /\ j.links # {}
          /\ Live("account") => user["account"].provider # "GOOGLE"

LEMMA ArrivalBringsJob ==
    ASSUME Typed, NEW h \in Handlers, Arrival(h)
    PROVE  /\ \E j \in Jobs : Arrived(h, j)
           /\ UNCHANGED <<user, token, crossed, settled, faults>>
<1>1. UNCHANGED <<user, token, crossed, settled, faults>>
    BY DEF Arrival, LoginRead, GoogleRead, SyncRead, ChangeRead, ResetRead, ForgotRead, Links
<1>2. CASE LoginRead(h)
  <2>1. PICK w \in Tables : /\ Signer(w) /\ user[w].form = "plain"
            /\ Begins(h, [Quiet EXCEPT !.at = "migrate", !.w = w, !.new = user[w].secret])
      BY <1>2 DEF LoginRead
  <2> DEFINE j == [Quiet EXCEPT !.at = "migrate", !.w = w, !.new = user[w].secret]
  <2>2. user[w].secret \in Secrets \cup {None}
      BY DEF Typed, TypedUsers, Rows
  <2>3. j \in Jobs /\ j.at = "migrate" /\ j.w = w /\ j.new = user[w].secret
      BY <2>2, QuietIsJob DEF Jobs
  <2> QED
      BY <1>1, <2>1, <2>3 DEF Arrived, Begins
<1>3. CASE GoogleRead(h)
  <2> DEFINE j == [Quiet EXCEPT !.at = "google"]
  <2>1. j \in Jobs /\ j.at = "google"
      BY QuietIsJob DEF Jobs
  <2> QED
      BY <1>1, <1>3, <2>1 DEF Arrived, Begins, GoogleRead
<1>4. CASE SyncRead(h)
  <2> DEFINE j == [Quiet EXCEPT !.at = "verify", !.was = user["account"].verified]
  <2>1. user["account"].verified \in BOOLEAN
      BY DEF Typed, TypedUsers, Rows, Tables
  <2>2. j \in Jobs /\ j.at = "verify" /\ j.was = user["account"].verified
      BY <2>1, QuietIsJob DEF Jobs
  <2> QED
      BY <1>1, <1>4, <2>2 DEF Arrived, Begins, SyncRead
<1>5. ASSUME NEW p \in Passwords, ChangeRead(h, p)
      PROVE  \E j \in Jobs : Arrived(h, j)
  <2> DEFINE j == [Quiet EXCEPT !.at = "write", !.new = p]
  <2>1. j \in Jobs /\ j.at = "write"
      BY QuietIsJob DEF Jobs, Secrets
  <2>2. j.t = None /\ j.w = "account"
      BY DEF Quiet
  <2> QED
      BY <1>5, <2>1, <2>2 DEF Arrived, Begins, ChangeRead
<1>6. ASSUME NEW p \in Passwords, NEW t \in Tokens, ResetRead(h, t, p)
      PROVE  \E j \in Jobs : Arrived(h, j)
  <2> DEFINE j == [Quiet EXCEPT !.at = "write", !.t = t, !.new = p, !.w = Target(token[t].links)]
  <2>1. Target(token[t].links) \in Tables
      BY DEF Target, Tables
  <2>2. j \in Jobs /\ j.at = "write" /\ j.t = t /\ j.w = Target(token[t].links)
      BY <2>1, QuietIsJob DEF Jobs, Secrets
  <2> QED
      BY <1>6, <2>2 DEF Arrived, Begins, ResetRead
<1>7. ASSUME NEW t \in Tokens, ForgotRead(h, t)
      PROVE  \E j \in Jobs : Arrived(h, j)
  <2> DEFINE links == {w \in Tables : Live(w)}
             j == [Quiet EXCEPT !.at = "invalidate", !.t = t, !.links = links]
  <2>1. j \in Jobs /\ j.at = "invalidate" /\ j.t = t /\ j.links = links
      BY QuietIsJob DEF Jobs
  <2>2. links # {}
      BY <1>7 DEF ForgotRead
  <2> QED
      BY <1>7, <2>1, <2>2 DEF Arrived, Begins, ForgotRead
<1> QED
    BY <1>1, <1>2, <1>3, <1>4, <1>5, <1>6, <1>7 DEF Arrival

LEMMA TypedArrival ==
    ASSUME Typed, NEW h \in Handlers, Arrival(h)
    PROVE  Typed'
<1>1. PICK j \in Jobs : Arrived(h, j)
    BY ArrivalBringsJob
<1>2. UNCHANGED <<user, token, crossed, settled, faults>>
    BY ArrivalBringsJob
<1>3. TypedJobs'
    BY <1>1, StepTyped DEF Arrived, Typed
<1>4. book' \in Books
    BY <1>1, BookArrives DEF Arrived, Typed, TypedRest
<1> QED
    BY <1>2, <1>3, <1>4 DEF Typed, TypedUsers, TypedTokens, TypedRest, Live

\* A row is written where a row is, or the account is created.
LEMMA TypedUserStep ==
    ASSUME Typed, NEW w \in Tables, NEW u \in Rows, u.state = "live",
           user' = [user EXCEPT ![w] = u], UNCHANGED <<token, crossed, settled, faults>>,
           TypedJobs', book' \in Books
    PROVE  Typed'
<1>1. TypedUsers' /\ \A v \in Tables : Live(v) => Live(v)'
    BY DEF Typed, TypedUsers, Live
<1>2. TypedTokens'
    BY <1>1 DEF Typed, TypedTokens, TokenRows
<1> QED
    BY <1>1, <1>2 DEF Typed, TypedRest

\* What each statement on the two tables writes.
Writes(w, u) ==
    /\ user' = [user EXCEPT ![w] = u]
    /\ u.state = "live"
    /\ \/ Live(w) /\ u.provider = user[w].provider
       \/ w = "account" /\ user[w].state = "absent"
          /\ (u.provider = "GOOGLE" => u.secret = "random" /\ u.form = "hash")

LEMMA MigrateWrites ==
    ASSUME Typed, NEW h \in Handlers, LoginMigrate(h) \/ WritePassword(h)
    PROVE  \E u \in Rows : Writes(job[h].w, u)
<1>1. /\ Live(job[h].w)
      /\ user' = [user EXCEPT ![job[h].w].secret = job[h].new, ![job[h].w].form = "hash"]
    BY DEF LoginMigrate, WritePassword
<1>2. PICK w \in Tables : w = job[h].w
    BY DEF Typed, TypedJobs, Jobs
<1>3. user[w] \in Rows /\ job[h].new \in Secrets \cup {None}
    BY DEF Typed, TypedUsers, TypedJobs, Jobs
<1> DEFINE u == [user[w] EXCEPT !.secret = job[h].new, !.form = "hash"]
<1>4. u \in Rows /\ u.state = user[w].state /\ u.provider = user[w].provider
    BY <1>3 DEF Rows
<1>5. user' = [user EXCEPT ![w] = u]
    BY <1>1, <1>2 DEF Typed, TypedUsers
<1> QED
    BY <1>1, <1>2, <1>4, <1>5 DEF Writes, Live

LEMMA StaffWrites ==
    ASSUME Typed, NEW w \in Tables, NEW p \in Passwords \cup {None}, NEW active \in BOOLEAN,
           NEW admin \in BOOLEAN, StaffUpdate(w, p, active, admin)
    PROVE  \E u \in Rows : /\ Writes(w, u)
                           /\ user[w].form = "hash" => u.form = "hash"
                           /\ user[w].provider = "GOOGLE" => u.byStaff \/
                                (u.secret = user[w].secret /\ u.byStaff = user[w].byStaff)
<1> DEFINE s == IF p = None THEN user[w].secret ELSE p
           f == IF p = None THEN user[w].form ELSE "hash"
           b == user[w].byStaff \/ (p # None /\ user[w].provider = "GOOGLE")
           u == [user[w] EXCEPT !.active = active, !.admin = admin, !.secret = s, !.form = f, !.byStaff = b]
<1>1. Live(w) /\ user' = [user EXCEPT ![w] = u]
  <2>1. Live(w) /\ user' = [user EXCEPT ![w].active = active, ![w].admin = admin,
                            ![w].secret = IF p = None THEN @ ELSE p,
                            ![w].form = IF p = None THEN @ ELSE "hash",
                            ![w].byStaff = @ \/ (p # None /\ user[w].provider = "GOOGLE")]
      BY DEF StaffUpdate
  <2> QED
      BY <2>1 DEF Typed, TypedUsers, Rows
<1>2. user[w] \in Rows
    BY DEF Typed, TypedUsers
<1>3. s \in Secrets \cup {None} /\ f \in {"plain", "hash"}
    BY <1>2 DEF Rows, Secrets
<1>4. b \in BOOLEAN
    BY <1>2 DEF Rows
<1> HIDE DEF s, f, b
<1>5. PICK r : r = u
    OBVIOUS
<1>6. /\ r \in Rows /\ r.state = user[w].state /\ r.provider = user[w].provider
      /\ r.secret = s /\ r.form = f /\ r.byStaff = b
    BY <1>2, <1>3, <1>4, <1>5 DEF Rows
<1>7. Writes(w, r)
    BY <1>1, <1>5, <1>6 DEF Writes, Live
<1>8. user[w].form = "hash" => r.form = "hash"
    BY <1>6 DEF f
<1>9. ASSUME user[w].provider = "GOOGLE"
      PROVE  r.byStaff \/ (r.secret = user[w].secret /\ r.byStaff = user[w].byStaff)
  <2>1. CASE p = None
    <3>1. s = user[w].secret
        BY <2>1 DEF s
    <3>2. user[w].byStaff \in BOOLEAN
        BY <1>2 DEF Rows
    <3>3. b = user[w].byStaff
        BY <2>1, <3>2 DEF b
    <3> QED
        BY <1>6, <3>1, <3>3
  <2>2. CASE p # None
    <3>1. b
        BY <1>9, <2>2 DEF b
    <3> QED
        BY <1>6, <3>1
  <2> QED
      BY <2>1, <2>2
<1> QED
    BY <1>6, <1>7, <1>8, <1>9

LEMMA MoveTyped ==
    ASSUME TypedJobs, NEW h \in Handlers,
           NEW at \in {"acknowledge", "mark", "welcome", "create"}, Moves(h, at),
           at = "create" => job[h].at = "invalidate"
    PROVE  /\ TypedJobs'
           /\ job'[h] = [job[h] EXCEPT !.at = at]
           /\ job'[h].at = at /\ job'[h].t = job[h].t
           /\ \A g \in Handlers : g # h => job'[g] = job[g]
<1> DEFINE j == [job[h] EXCEPT !.at = at]
<1>1. j \in Jobs /\ j.at = at /\ j.links = job[h].links /\ j.t = job[h].t
    BY DEF TypedJobs, Jobs
<1>2. at = "create" => job[h].links # {}
    BY DEF TypedJobs
<1> QED
    BY <1>1, <1>2, StepTyped DEF Moves

LEMMA TypedUserSteps ==
    ASSUME Typed,
           \/ \E h \in Handlers : LoginMigrate(h) \/ GoogleCreate(h) \/ SyncWrite(h) \/ WritePassword(h)
           \/ \E p \in Passwords, active, admin \in BOOLEAN : Register(p, active, admin)
           \/ \E w \in Tables, p \in Passwords \cup {None}, active, admin \in BOOLEAN :
                  StaffUpdate(w, p, active, admin)
    PROVE  Typed'
<1>1. ASSUME NEW h \in Handlers, LoginMigrate(h) PROVE Typed'
  <2>1. PICK u \in Rows : Writes(job[h].w, u)
      BY <1>1, MigrateWrites
  <2>2. job[h].w \in Tables
      BY DEF Typed, TypedJobs, Jobs
  <2>3. TypedJobs' /\ book' \in Books /\ UNCHANGED <<token, crossed, settled, faults>>
      BY <1>1, EndTyped DEF LoginMigrate, Typed, TypedRest, Links
  <2> QED
      BY <2>1, <2>2, <2>3, TypedUserStep DEF Writes
<1>2. ASSUME NEW h \in Handlers, WritePassword(h) PROVE Typed'
  <2>1. PICK u \in Rows : Writes(job[h].w, u)
      BY <1>2, MigrateWrites
  <2>2. job[h].w \in Tables
      BY DEF Typed, TypedJobs, Jobs
  <2>3. TypedJobs' /\ UNCHANGED <<token, crossed, settled, faults>>
      BY <1>2, MoveTyped DEF WritePassword, Typed, Links
  <2>4. book' \in Books
    <3> DEFINE uses == [t \in Tokens |-> IF t = job[h].t THEN book.uses[t] + 1 ELSE book.uses[t]]
               b == [TakenBack(book) EXCEPT !.uses = uses]
    <3>1. book.uses \in [Tokens -> Nat]
        BY DEF Typed, TypedRest, Books
    <3>2. uses \in [Tokens -> Nat]
        BY <3>1
    <3> HIDE DEF uses
    <3>3. b \in Books
        BY <3>2 DEF Typed, TypedRest, TakenBack, Books
    <3>4. Notes(b)
      <4>1. TakenBack(book).uses = book.uses
          BY DEF TakenBack, Typed, TypedRest, Books
      <4> QED
          BY <1>2, <4>1 DEF WritePassword, uses
    <3> QED
        BY <3>3, <3>4, BookWritten DEF Typed, TypedRest
  <2> QED
      BY <2>1, <2>2, <2>3, <2>4, TypedUserStep DEF Writes
<1>3. ASSUME NEW h \in Handlers, GoogleCreate(h) PROVE Typed'
  <2> DEFINE u == NewRow("random", TRUE, "GOOGLE")
  <2>1. u \in Rows /\ u.state = "live"
      BY NewRowIsRow DEF Secrets, NewRow
  <2>2. TypedJobs' /\ UNCHANGED <<token, crossed, settled, faults>>
      BY <1>3, MoveTyped DEF GoogleCreate, Typed, Links
  <2>3. book' \in Books
      BY <1>3, BookWritten DEF GoogleCreate, Typed, TypedRest
  <2> QED
      BY <1>3, <2>1, <2>2, <2>3, TypedUserStep DEF GoogleCreate, Tables
<1>4. ASSUME NEW h \in Handlers, SyncWrite(h) PROVE Typed'
  <2> DEFINE u == [user["account"] EXCEPT !.verified = TRUE]
  <2>1. user["account"] \in Rows
      BY DEF Typed, TypedUsers, Tables
  <2>2. u \in Rows /\ u.state = "live"
      BY <1>4, <2>1 DEF SyncWrite, Live, Rows
  <2>3. user' = [user EXCEPT !["account"] = u]
      BY <1>4 DEF SyncWrite, Typed, TypedUsers
  <2>4. TypedJobs'
      BY <1>4, EndTyped, MoveTyped DEF SyncWrite, Typed
  <2>5. book' \in Books /\ UNCHANGED <<token, crossed, settled, faults>>
      BY <1>4 DEF SyncWrite, Typed, TypedRest, Links
  <2> QED
      BY <2>2, <2>3, <2>4, <2>5, TypedUserStep DEF Tables
<1>5. ASSUME NEW p \in Passwords, NEW active \in BOOLEAN, NEW admin \in BOOLEAN,
             Register(p, active, admin)
      PROVE  Typed'
  <2> DEFINE u == [NewRow(p, FALSE, "LOCAL") EXCEPT !.active = active, !.admin = admin]
  <2>1. u \in Rows /\ u.state = "live"
      BY NewRowIsRow DEF Secrets, NewRow, Rows
  <2>2. /\ UNCHANGED <<token, crossed, settled, job, faults>> /\ \E w : Intervenes(w)
        /\ user' = [user EXCEPT !["account"] = u]
      BY <1>5 DEF Register, Links
  <2>3. TypedJobs' /\ book' \in Books
      BY <2>2, BookArrives DEF Typed, TypedJobs, TypedRest
  <2> QED
      BY <2>1, <2>2, <2>3, TypedUserStep DEF Tables
<1>6. ASSUME NEW w \in Tables, NEW p \in Passwords \cup {None}, NEW active \in BOOLEAN,
             NEW admin \in BOOLEAN, StaffUpdate(w, p, active, admin)
      PROVE  Typed'
  <2>1. PICK u \in Rows : Writes(w, u)
      BY <1>6, StaffWrites
  <2>2. UNCHANGED <<token, crossed, settled, job, faults>> /\ \E v : Intervenes(v)
      BY <1>6 DEF StaffUpdate, Links
  <2>3. TypedJobs' /\ book' \in Books
      BY <2>2, BookArrives DEF Typed, TypedJobs, TypedRest
  <2> QED
      BY <2>1, <2>2, <2>3, TypedUserStep DEF Writes
<1> QED
    BY <1>1, <1>2, <1>3, <1>4, <1>5, <1>6

\* What others than requests do: only deletions and the clock concern the links.
LEMMA OtherSteps ==
    ASSUME [Next]_vars
    PROVE  \/ \E h \in Handlers : Work(h)
           \/ DeleteAccount
           \/ \E t \in Tokens : Expire(t)
           \/ UNCHANGED <<token, crossed, settled, job, faults>>
<1>1. ASSUME NEW p \in Passwords, NEW active \in BOOLEAN, NEW admin \in BOOLEAN,
             Register(p, active, admin)
      PROVE  UNCHANGED <<token, crossed, settled, job, faults>>
    BY <1>1 DEF Register, Links
<1>2. ASSUME NEW w \in Tables, NEW p \in Passwords \cup {None}, NEW active \in BOOLEAN,
             NEW admin \in BOOLEAN, StaffUpdate(w, p, active, admin)
      PROVE  UNCHANGED <<token, crossed, settled, job, faults>>
    BY <1>2 DEF StaffUpdate, Links
<1>3. CASE UNCHANGED vars
    BY <1>3 DEF vars
<1> QED
    BY <1>1, <1>2, <1>3, Zenon DEF Next

LEMMA TypedDelete ==
    ASSUME Typed, DeleteAccount
    PROVE  Typed'
<1>1. /\ user' = [user EXCEPT !["account"] = Absent("deleted")]
      /\ token' = [t \in Tokens |-> IF "account" \in token[t].links
                                    THEN [NoToken EXCEPT !.state = "gone"] ELSE token[t]]
      /\ \E w : Intervenes(w)
      /\ UNCHANGED <<crossed, settled, job, faults>>
    BY DEF DeleteAccount
<1>2. TypedUsers' /\ \A w \in Tables : w # "account" => user'[w] = user[w]
    BY <1>1, AbsentIsRow DEF Typed, TypedUsers, Tables
<1> DEFINE gone == [NoToken EXCEPT !.state = "gone"]
<1>3. gone \in TokenRows /\ gone.state = "gone"
    BY DEF NoToken, TokenRows
<1>4. token' \in [Tokens -> TokenRows]
    BY <1>1, <1>3 DEF Typed, TypedTokens
<1>5. ASSUME NEW t \in Tokens, token'[t].state \in {"unused", "expired", "used"}
      PROVE  token'[t].links # {} /\ \A w \in token'[t].links : Live(w)'
  <2>1. "account" \notin token[t].links /\ token'[t] = token[t]
      BY <1>1, <1>3, <1>5
  <2>2. token[t].links # {} /\ \A w \in token[t].links : w \in Tables /\ Live(w)
      BY <1>5, <2>1 DEF Typed, TypedTokens, TokenRows
  <2> QED
      BY <1>2, <2>1, <2>2 DEF Live
<1>6. book' \in Books /\ TypedJobs'
    BY <1>1, BookArrives DEF Typed, TypedRest, TypedJobs
<1> QED
    BY <1>1, <1>2, <1>4, <1>5, <1>6 DEF Typed, TypedTokens, TypedRest

LEMMA TokenWritten ==
    ASSUME Typed, NEW t, NEW r, token' = [token EXCEPT ![t] = r], UNCHANGED user,
           t \in Tokens => /\ r \in TokenRows
                           /\ r.state \in {"unused", "expired", "used"} =>
                                r.links # {} /\ \A w \in r.links : Live(w)
    PROVE  TypedTokens'
<1>1. token' \in [Tokens -> TokenRows]
    BY DEF Typed, TypedTokens
<1>2. \A s \in Tokens : token'[s] = token[s] \/ (s = t /\ token'[s] = r)
    BY DEF Typed, TypedTokens
<1> QED
    BY <1>1, <1>2 DEF Typed, TypedTokens, Live

LEMMA TypedTokenSteps ==
    ASSUME Typed, HeldTokens,
           \/ \E h \in Handlers : Invalidate(h) \/ CreateToken(h) \/ SendLink(h) \/ MarkUsed(h)
           \/ \E t \in Tokens : Expire(t)
    PROVE  Typed'
<1>1. ASSUME NEW h \in Handlers, Invalidate(h) PROVE Typed'
  <2>1. token' = [t \in Tokens |-> IF token[t].state \in {"unused", "expired"}
                                   THEN [token[t] EXCEPT !.state = "used"] ELSE token[t]]
      BY <1>1 DEF Invalidate
  <2>2. ASSUME NEW t \in Tokens
        PROVE  /\ token'[t] \in TokenRows /\ token'[t].links = token[t].links
               /\ token'[t].state \in {"unused", "expired", "used"} =>
                    token[t].state \in {"unused", "expired", "used"}
      BY <2>1 DEF Typed, TypedTokens, TokenRows
  <2>3. UNCHANGED <<user, settled, book, faults>> /\ crossed' \subseteq Handlers
      BY <1>1 DEF Invalidate, Typed, TypedRest
  <2>4. TypedTokens'
    <3>1. token' \in [Tokens -> TokenRows]
        BY <2>1, <2>2
    <3> QED
        BY <2>2, <2>3, <3>1 DEF Typed, TypedTokens, Live
  <2>5. TypedJobs'
      BY <1>1, MoveTyped DEF Invalidate, Typed
  <2> QED
      BY <2>3, <2>4, <2>5 DEF Typed, TypedUsers, TypedRest
<1>2. ASSUME NEW h \in Handlers, CreateToken(h) PROVE Typed'
  <2> DEFINE r == [NoToken EXCEPT !.state = "unused", !.links = job[h].links]
             j == [job[h] EXCEPT !.at = "send", !.links = {}]
  <2>1. /\ token' = [token EXCEPT ![job[h].t] = r]
        /\ job[h].at = "create" /\ \A w \in job[h].links : Live(w)
        /\ Step(h, j) /\ UNCHANGED <<user, book, faults>>
      BY <1>2 DEF CreateToken
  <2>2. job[h].links \in SUBSET Tables /\ job[h].links # {}
      BY <2>1 DEF Typed, TypedJobs, Jobs
  <2>3. r \in TokenRows /\ r.links = job[h].links
      BY <2>2 DEF NoToken, TokenRows
  <2>4. TypedTokens'
      BY <2>1, <2>2, <2>3, TokenWritten
  <2>5. j \in Jobs /\ j.at = "send"
      BY DEF Typed, TypedJobs, Jobs
  <2>6. TypedJobs'
      BY <2>1, <2>5, StepTyped DEF Typed
  <2>7. settled' \in BOOLEAN /\ crossed' \subseteq Handlers
      BY <1>2 DEF CreateToken, Typed, TypedRest
  <2> QED
      BY <2>1, <2>4, <2>6, <2>7 DEF Typed, TypedUsers, TypedRest
<1>3. ASSUME NEW h \in Handlers, SendLink(h) PROVE Typed'
  <2>1. PICK sent \in BOOLEAN :
            token' = [token EXCEPT ![job[h].t].sent = sent /\ token[job[h].t].state # "gone"]
      BY <1>3 DEF SendLink
  <2> DEFINE r == [token[job[h].t] EXCEPT !.sent = sent /\ token[job[h].t].state # "gone"]
  <2>2. token' = [token EXCEPT ![job[h].t] = r]
      BY <2>1
  <2>3. job[h].t \in Tokens => /\ r \in TokenRows /\ r.links = token[job[h].t].links
                               /\ r.state = token[job[h].t].state
      BY DEF Typed, TypedTokens, TokenRows
  <2>4. UNCHANGED <<user, crossed, settled, book, faults>>
      BY <1>3 DEF SendLink
  <2>5. TypedTokens'
      BY <2>2, <2>3, <2>4, TokenWritten DEF Typed, TypedTokens
  <2>6. TypedJobs'
      BY <1>3, EndTyped DEF SendLink, Typed
  <2> QED
      BY <2>4, <2>5, <2>6 DEF Typed, TypedUsers, TypedRest
<1>4. ASSUME NEW h \in Handlers, MarkUsed(h) PROVE Typed'
  <2> DEFINE r == [token[job[h].t] EXCEPT !.state = "used"]
  <2>1. /\ token' = [token EXCEPT ![job[h].t] = r] /\ token[job[h].t].state # "gone"
        /\ job[h].at = "mark"
        /\ UNCHANGED <<user, crossed, settled, faults>>
      BY <1>4 DEF MarkUsed
  <2>2. job[h].t \in Tokens => r \in TokenRows /\ r.links = token[job[h].t].links
      BY DEF Typed, TypedTokens, TokenRows
  <2>3. job[h].t \in Tokens => token[job[h].t].state \in {"unused", "expired", "used"}
      BY <2>1 DEF HeldTokens, Typed, TypedTokens, TokenRows
  <2>8. TypedTokens'
      BY <2>1, <2>2, <2>3, TokenWritten DEF Typed, TypedTokens
  <2>4. TypedJobs'
      BY <1>4, EndTyped DEF MarkUsed, Typed
  <2>5. job[h].new \in Secrets \cup {None}
      BY DEF Typed, TypedJobs, Jobs
  <2>6. Acknowledged(h) \in Books
      BY <2>5 DEF Acknowledged, Typed, TypedRest, Books
  <2>7. book' \in Books
      BY <1>4, <2>6, BookWritten DEF MarkUsed, Typed, TypedRest
  <2> QED
      BY <2>1, <2>4, <2>7, <2>8 DEF Typed, TypedUsers, TypedRest
<1>5. ASSUME NEW t \in Tokens, Expire(t) PROVE Typed'
  <2> DEFINE r == [token[t] EXCEPT !.state = "expired"]
  <2>1. /\ token' = [token EXCEPT ![t] = r] /\ token[t].state = "unused"
        /\ UNCHANGED <<user, job, crossed, settled, book, faults>>
      BY <1>5 DEF Expire, Typed, TypedTokens
  <2>2. r \in TokenRows /\ r.links = token[t].links /\ r.state = "expired"
      BY DEF Typed, TypedTokens, TokenRows
  <2>3. TypedTokens'
      BY <2>1, <2>2, TokenWritten DEF Typed, TypedTokens
  <2> QED
      BY <2>1, <2>3 DEF Typed, TypedUsers, TypedJobs, TypedRest
<1> QED
    BY <1>1, <1>2, <1>3, <1>4, <1>5

\* Steps that only end a request.
LEMMA TypedEnds ==
    ASSUME Typed, NEW h \in Handlers, Welcome(h) \/ Acknowledge(h) \/ Fails(h) \/ Fault(h)
    PROVE  /\ Typed' /\ job'[h] = Quiet /\ \A g \in Handlers : g # h => job'[g] = job[g]
           /\ UNCHANGED <<user, token, settled>>
           /\ crossed' \subseteq crossed /\ crossed \subseteq crossed' \cup {h}
<1>1. /\ Ends(h) /\ UNCHANGED <<user, token, settled>>
      /\ crossed' \subseteq crossed /\ crossed \subseteq crossed' \cup {h}
    BY DEF Welcome, Acknowledge, Fails, Fault, Links
<1>2. TypedJobs' /\ job'[h] = Quiet /\ \A g \in Handlers : g # h => job'[g] = job[g]
    BY <1>1, EndTyped DEF Typed
<1>3. book' \in Books /\ faults' \in 0 .. MaxFaults
  <2>1. CASE Welcome(h)
    <3>1. PICK sent \in {0, 1} : Notes([book EXCEPT !.welcomes = @ + sent])
        BY <2>1 DEF Welcome
    <3>2. [book EXCEPT !.welcomes = @ + sent] \in Books
        BY DEF Typed, TypedRest, Books
    <3> QED
        BY <2>1, <3>1, <3>2, BookWritten DEF Welcome, Typed, TypedRest, Links
  <2>2. CASE Acknowledge(h)
    <3>1. [book EXCEPT !.word = job[h].new, !.lone = FALSE] \in Books
        BY DEF Typed, TypedRest, TypedJobs, Jobs, Books
    <3> QED
        BY <2>2, <3>1, BookWritten DEF Acknowledge, Typed, TypedRest, Links
  <2>3. CASE Fails(h)
      BY <2>3 DEF Fails, Typed, TypedRest
  <2>4. CASE Fault(h)
      BY <2>4, FaultsAssumption DEF Fault, Typed, TypedRest
  <2> QED
      BY <2>1, <2>2, <2>3, <2>4
<1>4. TypedUsers' /\ TypedTokens'
    BY <1>1 DEF Typed, TypedUsers, TypedTokens, Live
<1> QED
    BY <1>1, <1>2, <1>3, <1>4 DEF Typed, TypedRest

LEMMA TypedStep == Typed /\ HeldTokens /\ [Next]_vars => Typed'
<1> SUFFICES ASSUME Typed, HeldTokens, [Next]_vars PROVE Typed'
    OBVIOUS
<1>1. CASE UNCHANGED vars
    BY <1>1 DEF vars, Typed, TypedUsers, TypedTokens, TypedJobs, TypedRest, Live
<1>2. ASSUME NEW h \in Handlers, Work(h) PROVE Typed'
    BY <1>2, TypedArrival, TypedUserSteps, TypedTokenSteps, TypedEnds DEF Work, Arrival
<1> QED
    BY <1>1, <1>2, TypedUserSteps, TypedTokenSteps, TypedDelete DEF Next

-----------------------------------------------------------------------------
(* What every step leaves of the requests and tokens of others.             *)

\* A request goes on from where it was: the one that moves is another one, ends,
\* begins, or takes its next step.
Follows(h) ==
    \/ job'[h] = job[h]
    \/ job'[h].at = "idle"
    \/ Arrived(h, job'[h])
    \/ /\ job'[h].t = job[h].t
       /\ \/ job[h].at = "write" /\ job'[h].at \in {"acknowledge", "mark"}
          \/ job'[h].at = "welcome"
          \/ Invalidate(h)
          \/ CreateToken(h) /\ job'[h].at = "send"

LEMMA FollowsStep ==
    ASSUME Typed, NEW h \in Handlers, [Next]_vars
    PROVE  Follows(h)
<1>1. CASE UNCHANGED job
    BY <1>1 DEF Follows
<1>2. ASSUME NEW g \in Handlers, Arrival(g) PROVE Follows(h)
  <2>1. PICK j \in Jobs : Arrived(g, j)
      BY <1>2, ArrivalBringsJob
  <2>2. j.at \in {"invalidate", "create"} => j.links # {}
      BY <2>1 DEF Arrived
  <2>3. job'[g] = j /\ \A k \in Handlers : k # g => job'[k] = job[k]
      BY <2>1, <2>2, StepTyped DEF Arrived, Typed
  <2> QED
      BY <2>1, <2>3 DEF Follows
<1>3. ASSUME NEW g \in Handlers, Welcome(g) \/ Acknowledge(g) \/ Fails(g) \/ Fault(g)
      PROVE  Follows(h)
    BY <1>3, TypedEnds DEF Follows, Quiet
<1>4. ASSUME NEW g \in Handlers, LoginMigrate(g) \/ SendLink(g) \/ MarkUsed(g)
      PROVE  Follows(h)
  <2>1. Ends(g)
      BY <1>4 DEF LoginMigrate, SendLink, MarkUsed
  <2> QED
      BY <2>1, EndTyped DEF Follows, Quiet, Typed
<1>5. ASSUME NEW g \in Handlers, GoogleCreate(g) PROVE Follows(h)
  <2>1. Moves(g, "welcome")
      BY <1>5 DEF GoogleCreate
  <2> QED
      BY <2>1, MoveTyped DEF Follows, Typed
<1>6. ASSUME NEW g \in Handlers, SyncWrite(g) PROVE Follows(h)
  <2>1. CASE Ends(g)
      BY <2>1, EndTyped DEF Follows, Quiet, Typed
  <2>2. CASE Moves(g, "welcome")
      BY <2>2, MoveTyped DEF Follows, Typed
  <2> QED
      BY <1>6, <2>1, <2>2 DEF SyncWrite
<1>7. ASSUME NEW g \in Handlers, WritePassword(g) PROVE Follows(h)
  <2>1. PICK at \in {"acknowledge", "mark"} : Moves(g, at)
      BY <1>7 DEF WritePassword
  <2>2. job[g].at = "write"
      BY <1>7 DEF WritePassword
  <2> QED
      BY <2>1, <2>2, MoveTyped DEF Follows, Typed
<1>8. ASSUME NEW g \in Handlers, Invalidate(g) PROVE Follows(h)
  <2>1. job'[g].t = job[g].t /\ \A k \in Handlers : k # g => job'[k] = job[k]
      BY <1>8, MoveTyped DEF Invalidate, Typed
  <2> QED
      BY <1>8, <2>1 DEF Follows
<1>9. ASSUME NEW g \in Handlers, CreateToken(g) PROVE Follows(h)
  <2>1. Step(g, [job[g] EXCEPT !.at = "send", !.links = {}])
      BY <1>9 DEF CreateToken
  <2>2. /\ job'[g].t = job[g].t /\ job'[g].at = "send"
        /\ \A k \in Handlers : k # g => job'[k] = job[k]
      BY <2>1 DEF Step, Typed, TypedJobs, Jobs
  <2> QED
      BY <1>9, <2>2 DEF Follows
<1>10. ASSUME NEW g \in Handlers, Work(g) PROVE Follows(h)
    BY <1>10, <1>2, <1>3, <1>4, <1>5, <1>6, <1>7, <1>8, <1>9 DEF Work, Arrival
<1> QED
    BY <1>1, <1>10, OtherSteps DEF DeleteAccount, Expire

\* What becomes of a token in any step.
TokenStep(t) ==
    /\ token'[t].state = "none" => token[t].state = "none"
    /\ \/ Fresh(t)' => Fresh(t)
       \/ \E h \in Handlers : CreateToken(h) /\ job[h].t = t
    /\ \/ token'[t].links \subseteq token[t].links
       \/ \E h \in Handlers : CreateToken(h) /\ token'[t].links = job[h].links

LEMMA TokenSteps ==
    ASSUME Typed, NEW t \in Tokens, [Next]_vars
    PROVE  TokenStep(t)
<1>1. ASSUME token'[t] = token[t] PROVE TokenStep(t)
    BY <1>1 DEF Fresh, TokenStep
<1>2. ASSUME NEW h \in Handlers, Invalidate(h) PROVE TokenStep(t)
    BY <1>2 DEF Invalidate, Typed, TypedTokens, TokenRows, Fresh, TokenStep
<1>3. ASSUME NEW h \in Handlers, CreateToken(h) PROVE TokenStep(t)
  <2>1. PICK r : r = [NoToken EXCEPT !.state = "unused", !.links = job[h].links]
      OBVIOUS
  <2>2. token' = [token EXCEPT ![job[h].t] = r] /\ r.state = "unused" /\ r.links = job[h].links
      BY <1>3, <2>1 DEF CreateToken, NoToken
  <2>3. CASE job[h].t = t
    <3>1. token'[t] = r
        BY <2>2, <2>3 DEF Typed, TypedTokens
    <3> QED
        BY <1>3, <2>2, <2>3, <3>1 DEF TokenStep
  <2>4. CASE job[h].t # t
    <3>1. token'[t] = token[t]
        BY <2>2, <2>4 DEF Typed, TypedTokens
    <3> QED
        BY <1>1, <3>1
  <2> QED
      BY <2>3, <2>4
<1>4. ASSUME NEW h \in Handlers, SendLink(h) PROVE TokenStep(t)
  <2>1. PICK sent : token' = [token EXCEPT ![job[h].t].sent = sent]
      BY <1>4 DEF SendLink
  <2>2. \/ token'[t] = token[t]
        \/ token'[t] = [token[t] EXCEPT !.sent = sent]
      BY <2>1 DEF Typed, TypedTokens
  <2> QED
      BY <1>1, <2>2 DEF Typed, TypedTokens, TokenRows, Fresh, TokenStep
<1>5. ASSUME NEW h \in Handlers, MarkUsed(h) PROVE TokenStep(t)
  <2>1. \/ token'[t] = token[t]
        \/ token'[t] = [token[t] EXCEPT !.state = "used"]
      BY <1>5 DEF MarkUsed, Typed, TypedTokens
  <2> QED
      BY <1>1, <2>1 DEF Typed, TypedTokens, TokenRows, Fresh, TokenStep
<1>6. ASSUME NEW s \in Tokens, Expire(s) PROVE TokenStep(t)
    BY <1>6 DEF Expire, Typed, TypedTokens, TokenRows, Fresh, TokenStep
<1>7. CASE DeleteAccount
    BY <1>7 DEF DeleteAccount, NoToken, Fresh, Typed, TypedTokens, TokenStep
<1>8. ASSUME NEW h \in Handlers, Work(h) PROVE TokenStep(t)
  <2>1. CASE UNCHANGED token
      BY <2>1, <1>1
  <2>2. \/ UNCHANGED token
        \/ Invalidate(h) \/ CreateToken(h) \/ SendLink(h) \/ MarkUsed(h)
      BY <1>8 DEF Work, LoginRead, LoginMigrate, GoogleRead, GoogleCreate, SyncRead, SyncWrite,
         Welcome, ChangeRead, ResetRead, WritePassword, Acknowledge, ForgotRead, Fails, Fault, Links
  <2> QED
      BY <2>1, <2>2, <1>2, <1>3, <1>4, <1>5
<1> QED
    BY <1>1, <1>6, <1>7, <1>8, OtherSteps

LEMMA HeldStep == Typed /\ HeldTokens /\ [Next]_vars => HeldTokens'
<1> SUFFICES ASSUME Typed, HeldTokens, [Next]_vars, NEW h \in Handlers,
                    job'[h].at \in {"write", "mark"}, job'[h].t \in Tokens
             PROVE  token'[job'[h].t].state # "none"
    BY DEF HeldTokens
<1>1. PICK t \in Tokens : t = job'[h].t
    OBVIOUS
<1>2. token[t].state # "none"
  <2>1. CASE Arrived(h, job'[h])
    <3>1. Fresh(t)
        BY <1>1, <2>1, TokensAssumption DEF Arrived
    <3> QED
        BY <3>1 DEF Fresh
  <2>2. CASE ~Arrived(h, job'[h])
    <3>1. job[h].at \in {"write", "mark"} /\ job[h].t = t
      <4>1. ~Invalidate(h)
        <5>1. Invalidate(h) => job'[h].at = "create"
            BY MoveTyped DEF Invalidate, Typed
        <5> QED
            BY <5>1
      <4> QED
          BY <1>1, <2>2, <4>1, FollowsStep DEF Follows
    <3> QED
        BY <3>1 DEF HeldTokens
  <2> QED
      BY <2>1, <2>2
<1> QED
    BY <1>1, <1>2, TokenSteps DEF TokenStep

Inv == Typed /\ HeldTokens

LEMMA InvInit == Init => Inv
BY TypedInit DEF Inv, Init, HeldTokens, Quiet

LEMMA InvStep == Inv /\ [Next]_vars => Inv'
BY TypedStep, HeldStep DEF Inv

\* The type invariant, for every number of requests, tokens, passwords and faults:
\* a token that can be used belongs to an account or agency that is there.
THEOREM AccountsTypeCorrect == Spec => []TypeOK
<1>1. Inv => TypeOK
    BY TypedIsTypeOK DEF Inv
<1> QED
    BY <1>1, InvInit, InvStep, PTL DEF Spec

-----------------------------------------------------------------------------
(* One link at a time.                                                      *)

\* A request that is about to create its token, and that nobody has crossed since
\* it put the older ones out of use, finds none of them in use.
LinkInv ==
    /\ settled => \A t, s \in Tokens : Fresh(t) /\ Fresh(s) => t = s
    /\ \A h \in Handlers : job[h].at = "create" /\ h \notin crossed => \A t \in Tokens : ~Fresh(t)

LEMMA LinkInit == Init => LinkInv
BY DEF Init, LinkInv, Fresh, NoToken, Quiet

LinksStay ==
    /\ settled' = settled
    /\ \A h \in Handlers : job'[h].at = "create" =>
         job[h] = job'[h] /\ (h \in crossed' <=> h \in crossed)
    /\ \A t \in Tokens : Fresh(t)' => Fresh(t)

\* The two steps of forgotPassword aside, no link comes into use and nobody crosses
\* a request or is crossed.
LEMMA CrossedStays ==
    ASSUME Typed, [Next]_vars, \A h \in Handlers : ~Invalidate(h) /\ ~CreateToken(h)
    PROVE  LinksStay
<1>1. \A h \in Handlers : job'[h].at = "create" => job[h] = job'[h]
    BY FollowsStep DEF Follows, Arrived
<1>2. \A t \in Tokens : Fresh(t)' => Fresh(t)
    BY TokenSteps DEF TokenStep
<1>3. ASSUME UNCHANGED <<settled, crossed>> PROVE LinksStay
    BY <1>1, <1>2, <1>3 DEF LinksStay
<1>4. ASSUME NEW g \in Handlers, Fails(g) \/ Fault(g) PROVE LinksStay
    BY <1>1, <1>2, <1>4, TypedEnds DEF Quiet, LinksStay
<1>5. \/ UNCHANGED <<settled, crossed>>
      \/ \E g \in Handlers : Fails(g) \/ Fault(g)
    BY OtherSteps DEF Work, LoginRead, LoginMigrate, GoogleRead, GoogleCreate, SyncRead, SyncWrite,
       Welcome, ChangeRead, ResetRead, WritePassword, Acknowledge, ForgotRead, SendLink, MarkUsed,
       DeleteAccount, Expire, Links
<1> QED
    BY <1>3, <1>4, <1>5

LEMMA LinkInvalidate ==
    ASSUME Typed, LinkInv, NEW h \in Handlers, Invalidate(h)
    PROVE  LinkInv'
<1>1. ASSUME NEW t \in Tokens PROVE ~Fresh(t)'
    BY DEF Invalidate, Typed, TypedTokens, TokenRows, Fresh
<1> QED
    BY <1>1 DEF LinkInv

LEMMA LinkCreate ==
    ASSUME Typed, LinkInv, NEW h \in Handlers, CreateToken(h)
    PROVE  LinkInv'
<1>1. /\ job[h].at = "create"
      /\ settled' = (h \notin crossed)
      /\ crossed' = (crossed \ {h}) \cup {g \in Handlers \ {h} : job[g].at = "create"}
      /\ Step(h, [job[h] EXCEPT !.at = "send", !.links = {}])
    BY DEF CreateToken
<1>2. job'[h].at = "send" /\ \A g \in Handlers : g # h => job'[g] = job[g]
    BY <1>1 DEF Step, Typed, TypedJobs, Jobs
<1>3. \A g \in Handlers : job'[g].at = "create" => g \in crossed'
    BY <1>1, <1>2
<1>4. ASSUME settled', NEW t \in Tokens, NEW s \in Tokens, Fresh(t)', Fresh(s)'
      PROVE  t = s
  <2>1. \A u \in Tokens : ~Fresh(u)
      BY <1>1, <1>4 DEF LinkInv
  <2>2. ASSUME NEW u \in Tokens, u # job[h].t PROVE ~Fresh(u)'
    <3>1. token'[u] = token[u]
        BY <2>2 DEF CreateToken, Typed, TypedTokens
    <3> QED
        BY <2>1, <3>1 DEF Fresh
  <2> QED
      BY <1>4, <2>2
<1> QED
    BY <1>3, <1>4 DEF LinkInv

LEMMA LinkStep == Typed /\ LinkInv /\ [Next]_vars => LinkInv'
<1> SUFFICES ASSUME Typed, LinkInv, [Next]_vars PROVE LinkInv'
    OBVIOUS
<1>1. CASE \E h \in Handlers : Invalidate(h) \/ CreateToken(h)
    BY <1>1, LinkInvalidate, LinkCreate
<1>2. CASE ~ \E h \in Handlers : Invalidate(h) \/ CreateToken(h)
  <2>1. LinksStay
      BY <1>2, CrossedStays
  <2> QED
      BY <2>1 DEF LinksStay, LinkInv
<1> QED
    BY <1>1, <1>2

\* However many requests for a reset are under way, at most one link works after
\* one that no other has crossed.
THEOREM OneLiveTokenHolds == Spec => []OneLiveToken
<1>1. Init => Inv /\ LinkInv
    BY InvInit, LinkInit
<1>2. Inv /\ LinkInv /\ [Next]_vars => (Inv /\ LinkInv)'
    BY InvStep, LinkStep DEF Inv
<1>3. LinkInv => OneLiveToken
    BY DEF LinkInv, OneLiveToken
<1> QED
    BY <1>1, <1>2, <1>3, PTL DEF Spec

-----------------------------------------------------------------------------
(* Accounts of Google's.                                                    *)

\* An account that Google may sign in, or that may yet become one.
Googled == user["account"].state = "absent" \/ user["account"].provider = "GOOGLE"

GoogleRow ==
    user["account"].provider = "GOOGLE" =>
        /\ Live("account") /\ user["account"].form = "hash"
        /\ user["account"].byStaff \/ user["account"].secret = "random"

\* No request is about its password.
Spared(h) ==
    /\ job[h].at \in {"migrate", "write"} => job[h].w # "account"
    /\ job[h].at \in {"invalidate", "create"} => "account" \notin job[h].links

GoogleInv ==
    /\ GoogleRow
    /\ Googled => /\ \A h \in Handlers : Spared(h)
                  /\ \A t \in Tokens : "account" \notin token[t].links

LEMMA GoogleInit == Init => GoogleInv
<1> SUFFICES ASSUME Init PROVE GoogleInv
    OBVIOUS
<1>1. user["account"].provider = "LOCAL"
  <2>1. ASSUME NEW u \in Older("account") PROVE u.provider = "LOCAL"
    <3>1. PICK p \in Passwords, a \in BOOLEAN : u = OlderRow("account", p, a)
        BY <2>1 DEF Older
    <3> QED
        BY <3>1 DEF OlderRow, NewRow
  <2>2. user["account"] \in Older("account") \/ user["account"] = Absent("absent")
      BY DEF Init
  <2> QED
      BY <2>1, <2>2, AbsentIsRow
<1>2. \A h \in Handlers : job[h].at = "idle"
    BY DEF Init, Quiet
<1>3. \A t \in Tokens : token[t].links = {}
    BY DEF Init, NoToken
<1> QED
    BY <1>1, <1>2, <1>3 DEF GoogleInv, GoogleRow, Spared

LEMMA SparedStep ==
    ASSUME Typed, GoogleInv, Googled, NEW h \in Handlers, [Next]_vars
    PROVE  Spared(h)'
<1>1. Spared(h) /\ \A t \in Tokens : "account" \notin token[t].links
    BY DEF GoogleInv
<1>2. CASE job'[h] = job[h]
    BY <1>1, <1>2 DEF Spared
<1>3. CASE job'[h].at \in {"idle", "acknowledge", "mark", "welcome", "send"}
    BY <1>3 DEF Spared
<1>4. CASE Invalidate(h)
  <2>1. job[h].at = "invalidate" /\ job'[h] = [job[h] EXCEPT !.at = "create"]
      BY <1>4, MoveTyped DEF Invalidate, Typed
  <2>2. job'[h].at = "create" /\ job'[h].links = job[h].links
      BY <2>1 DEF Typed, TypedJobs, Jobs
  <2> QED
      BY <1>1, <2>1, <2>2 DEF Spared
<1>5. CASE Arrived(h, job'[h])
  <2>1. PICK j : j = job'[h]
      OBVIOUS
  <2>2. Arrived(h, j)
      BY <1>5, <2>1
  <2>3. Live("account") => user["account"].provider = "GOOGLE" /\ user["account"].form = "hash"
      BY DEF Googled, Live, GoogleInv, GoogleRow
  <2>4. user["account"].provider = "GOOGLE" => Live("account")
      BY DEF GoogleInv, GoogleRow
  <2>5. j.at = "migrate" => j.w # "account"
      BY <2>2, <2>3 DEF Arrived, Signer
  <2>6. j.at = "write" => j.w # "account"
      BY <1>1, <2>2, <2>3 DEF Arrived, Target
  <2>7. j.at \in {"invalidate", "create"} => "account" \notin j.links
      BY <2>2, <2>3 DEF Arrived
  <2> QED
      BY <2>1, <2>5, <2>6, <2>7 DEF Spared
<1> QED
    BY <1>2, <1>3, <1>4, <1>5, FollowsStep DEF Follows

LEMMA LinksSpared ==
    ASSUME Typed, GoogleInv, Googled, NEW t \in Tokens, [Next]_vars
    PROVE  "account" \notin token'[t].links
<1>1. CASE token'[t].links \subseteq token[t].links
    BY <1>1 DEF GoogleInv
<1>2. ASSUME NEW h \in Handlers, CreateToken(h), token'[t].links = job[h].links
      PROVE  "account" \notin token'[t].links
    BY <1>2 DEF GoogleInv, Spared, CreateToken
<1> QED
    BY <1>1, <1>2, TokenSteps DEF TokenStep

\* What the statements make of the account's row.
GoogleKept == GoogleRow' /\ (Googled' => Googled)

LEMMA RowStep ==
    ASSUME Typed, GoogleInv, [Next]_vars
    PROVE  GoogleKept
<1>1. "account" \in Tables /\ user["account"] \in Rows
    BY DEF Tables, Typed, TypedUsers
<1>2. ASSUME user'["account"] = user["account"] PROVE GoogleKept
    BY <1>2 DEF GoogleKept, GoogleInv, GoogleRow, Googled, Live
<1>3. ASSUME NEW h \in Handlers, LoginMigrate(h) \/ WritePassword(h) PROVE GoogleKept
  <2>1. PICK u \in Rows : Writes(job[h].w, u)
      BY <1>3, MigrateWrites
  <2>2. job[h].at \in {"migrate", "write"}
      BY <1>3 DEF LoginMigrate, WritePassword
  <2>3. CASE job[h].w # "account"
    <3>1. user'["account"] = user["account"]
        BY <2>1, <2>3, <1>1 DEF Writes, Typed, TypedUsers
    <3> QED
        BY <1>2, <3>1
  <2>4. CASE job[h].w = "account"
    <3>1. ~Googled
        BY <2>2, <2>4 DEF GoogleInv, Spared
    <3>2. user'["account"] = u
        BY <2>1, <2>4, <1>1 DEF Writes, Typed, TypedUsers
    <3>3. u.state = "live" /\ u.provider # "GOOGLE"
        BY <2>1, <2>4, <3>1 DEF Writes, Googled
    <3> QED
        BY <3>2, <3>3 DEF GoogleKept, GoogleRow, Googled
  <2> QED
      BY <2>3, <2>4
<1>4. ASSUME NEW h \in Handlers, GoogleCreate(h) PROVE GoogleKept
  <2>1. PICK u : u = NewRow("random", TRUE, "GOOGLE")
      OBVIOUS
  <2>2. user'["account"] = u /\ Googled
      BY <1>1, <1>4, <2>1 DEF GoogleCreate, Typed, TypedUsers, Googled
  <2>3. u.state = "live" /\ u.form = "hash" /\ u.secret = "random"
      BY <2>1 DEF NewRow
  <2> QED
      BY <2>2, <2>3 DEF GoogleKept, GoogleRow, Live
<1>5. ASSUME NEW h \in Handlers, SyncWrite(h) PROVE GoogleKept
  <2>1. user'["account"] = [user["account"] EXCEPT !.verified = TRUE]
      BY <1>1, <1>5 DEF SyncWrite, Typed, TypedUsers
  <2>2. PICK u : u = user'["account"]
      OBVIOUS
  <2>3. /\ u.state = user["account"].state /\ u.form = user["account"].form
        /\ u.provider = user["account"].provider /\ u.byStaff = user["account"].byStaff
        /\ u.secret = user["account"].secret
      BY <1>1, <2>1, <2>2 DEF Rows
  <2> QED
      BY <2>2, <2>3 DEF GoogleKept, GoogleInv, GoogleRow, Googled, Live
<1>6. ASSUME NEW p \in Passwords, NEW active \in BOOLEAN, NEW admin \in BOOLEAN,
             Register(p, active, admin)
      PROVE  GoogleKept
  <2>1. PICK u : u = [NewRow(p, FALSE, "LOCAL") EXCEPT !.active = active, !.admin = admin]
      OBVIOUS
  <2>2. user'["account"] = u
      BY <1>1, <1>6, <2>1 DEF Register, Typed, TypedUsers
  <2>3. u.state = "live" /\ u.provider = "LOCAL"
      BY <2>1 DEF NewRow
  <2> QED
      BY <2>2, <2>3 DEF GoogleKept, GoogleRow, Googled
<1>7. ASSUME NEW w \in Tables, NEW p \in Passwords \cup {None}, NEW active \in BOOLEAN,
             NEW admin \in BOOLEAN, StaffUpdate(w, p, active, admin)
      PROVE  GoogleKept
  <2>1. PICK u \in Rows : /\ Writes(w, u)
                          /\ user[w].form = "hash" => u.form = "hash"
                          /\ user[w].provider = "GOOGLE" => u.byStaff \/
                               (u.secret = user[w].secret /\ u.byStaff = user[w].byStaff)
      BY <1>7, StaffWrites
  <2>2. CASE w # "account"
    <3>1. user'["account"] = user["account"]
        BY <2>1, <2>2, <1>1 DEF Writes, Typed, TypedUsers
    <3> QED
        BY <1>2, <3>1
  <2>3. CASE w = "account"
    <3>1. user'["account"] = u /\ Live("account")
        BY <1>1, <1>7, <2>1, <2>3 DEF Writes, StaffUpdate, Typed, TypedUsers
    <3>2. u.state = "live" /\ u.provider = user["account"].provider
        BY <2>1, <2>3, <3>1 DEF Writes, Live
    <3>3. Googled' => Googled
        BY <3>1, <3>2 DEF Googled
    <3>4. ASSUME u.provider = "GOOGLE"
          PROVE  u.form = "hash" /\ (u.byStaff \/ u.secret = "random")
        BY <2>1, <2>3, <3>2, <3>4 DEF GoogleInv, GoogleRow
    <3> QED
        BY <3>1, <3>2, <3>3, <3>4 DEF GoogleKept, GoogleRow, Live
  <2> QED
      BY <2>2, <2>3
<1>8. CASE DeleteAccount
  <2>1. PICK u : u = Absent("deleted")
      OBVIOUS
  <2>2. user'["account"] = u
      BY <1>1, <1>8, <2>1 DEF DeleteAccount, Typed, TypedUsers
  <2>3. u.state = "deleted" /\ u.provider = "LOCAL"
      BY <2>1 DEF Absent
  <2> QED
      BY <2>2, <2>3 DEF GoogleKept, GoogleRow, Googled
<1>9. ASSUME NEW h \in Handlers, Work(h) PROVE GoogleKept
  <2>1. \/ UNCHANGED user
        \/ LoginMigrate(h) \/ WritePassword(h) \/ GoogleCreate(h) \/ SyncWrite(h)
      BY <1>9 DEF Work, LoginRead, GoogleRead, SyncRead, Welcome, ChangeRead, ResetRead,
         Acknowledge, ForgotRead, Invalidate, CreateToken, SendLink, MarkUsed, Fails, Fault
  <2> QED
      BY <2>1, <1>2, <1>3, <1>4, <1>5
<1>10. ASSUME UNCHANGED user PROVE GoogleKept
    BY <1>2, <1>10
<1> QED
    BY <1>6, <1>7, <1>8, <1>9, <1>10 DEF Next, vars, Expire

LEMMA GoogleStep == Typed /\ GoogleInv /\ [Next]_vars => GoogleInv'
BY SparedStep, LinksSpared, RowStep DEF GoogleInv, GoogleKept

\* No account that Google signs in ever gets a password of its own unless staff give
\* it one, whatever was in flight for its address when it was created.
THEOREM GoogleHasNoPasswordHolds == Spec => []GoogleHasNoPassword
<1>1. Init => Inv /\ GoogleInv
    BY InvInit, GoogleInit
<1>2. Inv /\ GoogleInv /\ [Next]_vars => (Inv /\ GoogleInv)'
    BY InvStep, GoogleStep DEF Inv
<1>3. GoogleInv => GoogleHasNoPassword
    BY DEF GoogleInv, GoogleRow, GoogleHasNoPassword
<1> QED
    BY <1>1, <1>2, <1>3, PTL DEF Spec
-----------------------------------------------------------------------------
(* What is counted while requests come one at a time.                       *)

Only(h) == \A g \in Handlers : g # h => Idle(g)

\* What a request without company may rely on.
Attends(h) ==
    /\ job[h].at = "migrate" => user[job[h].w].secret = job[h].new
    /\ job[h].at = "write" /\ job[h].t = None => job[h].w = "account"
    /\ job[h].at \in {"write", "mark"} /\ job[h].t \in Tokens => job[h].w = Target(token[job[h].t].links)
    /\ job[h].at = "write" /\ job[h].t \in Tokens => book.uses[job[h].t] <= faults
    /\ job[h].at = "acknowledge" => job[h].w = "account"
    /\ job[h].at = "mark" => job[h].t \in Tokens
    /\ job[h].at \in {"acknowledge", "mark"} => Live(job[h].w) /\ user[job[h].w].secret = job[h].new
    /\ job[h].at \in {"invalidate", "create"} => job[h].t \in Tokens /\ token[job[h].t].state = "none"
    /\ job[h].at = "welcome" => /\ book.welcomes = 0 /\ user["account"].state # "absent"
                                /\ Live("account") => user["account"].verified
    /\ job[h].at = "verify" /\ ~job[h].was => book.welcomes = 0

\* A link that still works has set no password that is not put down to a fault.
Counted ==
    \A t \in Tokens :
        /\ book.uses[t] <= 1 + faults
        /\ token[t].state \in {"none", "unused"}
           /\ (\A h \in Handlers : job[h].at = "mark" => job[h].t # t) => book.uses[t] <= faults

\* Nobody is welcomed before his address is verified.
Welcomed ==
    /\ book.welcomes <= 1
    /\ user["account"].state = "absent" => book.welcomes = 0
    /\ Live("account") /\ ~user["account"].verified => book.welcomes = 0

\* The password last acknowledged is the one its row holds.
Worded == book.word # None => Live(WordRow) /\ user[WordRow].secret = book.word

KeptInv ==
    book.kept => /\ \A h \in Handlers : ~Idle(h) => Only(h) /\ Attends(h)
                 /\ Counted /\ Welcomed /\ Worded

LEMMA KeptMeaning ==
    ASSUME Inv, KeptInv, book.kept, NEW h \in Handlers, ~Idle(h)
    PROVE  /\ Only(h) /\ Attends(h) /\ Counted /\ Welcomed /\ Worded
           /\ job[h] \in Jobs /\ user \in [Tables -> Rows] /\ token \in [Tokens -> TokenRows]
           /\ book \in Books /\ faults \in Nat /\ job \in [Handlers -> Jobs]
BY DEF KeptInv, Inv, Typed, TypedJobs, TypedUsers, TypedTokens, TypedRest

\* The one request takes a step.
LEMMA OnlyStep ==
    ASSUME Inv, NEW h \in Handlers, Only(h), NEW j \in Jobs, Step(h, j),
           j.at # "idle" => Attends(h)', Counted', Welcomed', Worded'
    PROVE  KeptInv'
<1>1. job'[h] = j /\ \A g \in Handlers : g # h => job'[g] = job[g]
    BY DEF Step, Inv, Typed, TypedJobs
<1>2. \A g \in Handlers : g # h => Idle(g)'
    BY <1>1 DEF Only, Idle
<1> QED
    BY <1>1, <1>2 DEF KeptInv, Only, Idle

LEMMA OnlyEnds ==
    ASSUME Inv, NEW h \in Handlers, Only(h), Ends(h), Counted', Welcomed', Worded'
    PROVE  KeptInv'
<1>1. Quiet.at = "idle"
    BY DEF Quiet
<1> QED
    BY <1>1, QuietIsJob, OnlyStep DEF Ends

\* What a request notes in the book.
LEMMA NotesWord ==
    ASSUME Inv, book.kept, NEW v, NEW l, Notes([book EXCEPT !.word = v, !.lone = l])
    PROVE  /\ book'.uses = book.uses /\ book'.welcomes = book.welcomes
           /\ book'.word = v /\ book'.lone = l
BY DEF Notes, Inv, Typed, TypedRest, Books

\* Who comes when nobody is there leaves the book as it is, the word aside.
LEMMA BookOfOne ==
    ASSUME Inv, NEW w, Arrives \/ Intervenes(w), book'.kept
    PROVE  /\ book.kept /\ Alone /\ book'.uses = book.uses /\ book'.welcomes = book.welcomes
           /\ book' = book \/ (w = WordRow /\ book'.word = None)
           /\ Arrives => book'.word = book.word /\ book'.lone = book.lone
           /\ Intervenes(w) /\ w = WordRow => book'.word = None
<1>1. ~Closed.kept
    BY DEF Closed, Empty
<1>2. /\ TakenBack(book).uses = book.uses /\ TakenBack(book).welcomes = book.welcomes
      /\ TakenBack(book).word = None /\ TakenBack(book).kept = book.kept
    BY DEF TakenBack, Inv, Typed, TypedRest, Books
<1> QED
    BY <1>1, <1>2 DEF Arrives, Intervenes

\* The parts that a step leaves alone.
LEMMA WelcomedStays ==
    ASSUME Welcomed, book'.welcomes = book.welcomes,
           user'["account"].state = user["account"].state,
           user["account"].verified => user'["account"].verified
    PROVE  Welcomed'
BY DEF Welcomed, Live

LEMMA WordedStays ==
    ASSUME Worded, book'.word = None \/ (book'.word = book.word /\ book'.lone = book.lone),
           \A w \in Tables : user'[w].state = user[w].state /\ user'[w].secret = user[w].secret
    PROVE  Worded'
<1>1. WordRow \in Tables
    BY DEF WordRow, Tables
<1>2. CASE book'.word = None
    BY <1>2 DEF Worded
<1>3. CASE book'.word = book.word /\ book'.lone = book.lone
  <2>1. WordRow' = WordRow
      BY <1>3 DEF WordRow
  <2> QED
      BY <1>1, <1>3, <2>1 DEF Worded, Live
<1> QED
    BY <1>2, <1>3

\* No request ends that was about to mark its link, and no link comes back.
LEMMA CountedStays ==
    ASSUME Counted, book'.uses = book.uses, faults' = faults,
           \A t \in Tokens : token'[t].state \in {"none", "unused"} => token[t].state \in {"none", "unused"},
           \A h \in Handlers : job[h].at = "mark" => job'[h] = job[h]
    PROVE  Counted'
BY DEF Counted

LEMMA SameUser ==
    ASSUME user' = user
    PROVE  /\ user'["account"].state = user["account"].state
           /\ user'["account"].verified = user["account"].verified
           /\ \A w \in Tables : /\ user'[w].state = user[w].state /\ user'[w].secret = user[w].secret
                                /\ user'[w].active = user[w].active
OBVIOUS

LEMMA KeptArrival ==
    ASSUME Inv, KeptInv, NEW h \in Handlers, Arrival(h)
    PROVE  KeptInv'
<1> SUFFICES ASSUME book'.kept PROVE KeptInv'
    BY DEF KeptInv
<1>1. PICK j \in Jobs : Arrived(h, j)
    BY ArrivalBringsJob DEF Inv
<1>2. UNCHANGED <<user, token, crossed, settled, faults>>
    BY ArrivalBringsJob DEF Inv
<1>3. /\ book.kept /\ Alone /\ book'.uses = book.uses /\ book'.welcomes = book.welcomes
      /\ book'.word = book.word /\ book'.lone = book.lone /\ Step(h, j)
    BY <1>1, BookOfOne DEF Arrived
<1>4. Only(h) /\ Counted /\ Welcomed /\ Worded /\ \A g \in Handlers : job[g].at = "idle"
    BY <1>3 DEF Alone, Only, KeptInv, Idle
<1>5. \A t \in Tokens : token[t].state \in {"none", "unused"} => book.uses[t] <= faults
    BY <1>4 DEF Counted
<1>6. Counted' /\ Welcomed' /\ Worded'
    BY <1>2, <1>3, <1>4, CountedStays, WelcomedStays, WordedStays, SameUser
<1>7. job'[h] = j
    BY <1>3 DEF Step, Inv, Typed, TypedJobs
<1>8. Attends(h)'
  <2>1. CASE j.at = "migrate" /\ j.new = user[j.w].secret
      BY <1>2, <1>7, <2>1 DEF Attends
  <2>2. CASE j.at = "google"
      BY <1>7, <2>2 DEF Attends
  <2>3. CASE j.at = "verify" /\ Live("account") /\ j.was = user["account"].verified
      BY <1>3, <1>4, <1>7, <2>3 DEF Attends, Welcomed
  <2>4. CASE j.at = "write" /\ j.t = None /\ j.w = "account"
      BY <1>7, <2>4, TokensAssumption DEF Attends
  <2>5. CASE j.at = "write" /\ j.t \in Tokens /\ Fresh(j.t) /\ j.w = Target(token[j.t].links)
    <3>1. PICK t \in Tokens : t = j.t
        BY <2>5
    <3>2. book'.uses[t] <= faults'
        BY <1>2, <1>3, <1>5, <2>5, <3>1 DEF Fresh
    <3> QED
        BY <1>2, <1>7, <2>5, <3>1, <3>2, TokensAssumption DEF Attends
  <2>6. CASE j.at = "invalidate" /\ j.t \in Tokens /\ token[j.t].state = "none"
      BY <1>2, <1>7, <2>6 DEF Attends
  <2> QED
      BY <1>1, <2>1, <2>2, <2>3, <2>4, <2>5, <2>6 DEF Arrived
<1> QED
    BY <1>3, <1>4, <1>6, <1>8, OnlyStep

\* The password that was stored as it is becomes a hash: it is the same password.
LEMMA KeptMigrate ==
    ASSUME Inv, KeptInv, NEW h \in Handlers, LoginMigrate(h)
    PROVE  KeptInv'
<1> SUFFICES ASSUME book.kept PROVE KeptInv'
    BY DEF KeptInv, LoginMigrate
<1>1. /\ job[h].at = "migrate" /\ Live(job[h].w) /\ Ends(h) /\ token' = token /\ faults' = faults
      /\ book' = book
      /\ user' = [user EXCEPT ![job[h].w].secret = job[h].new, ![job[h].w].form = "hash"]
    BY DEF LoginMigrate, Links
<1>2. /\ Only(h) /\ Attends(h) /\ Counted /\ Welcomed /\ Worded
      /\ job[h] \in Jobs /\ user \in [Tables -> Rows]
    BY <1>1, KeptMeaning DEF Idle
<1>3. PICK v \in Tables : v = job[h].w
    BY <1>2 DEF Jobs
<1>4. PICK s : s = job[h].new
    OBVIOUS
<1>5. user' = [user EXCEPT ![v].secret = s, ![v].form = "hash"] /\ user[v].secret = s
    BY <1>1, <1>2, <1>3, <1>4 DEF Attends
<1>6. ASSUME NEW w \in Tables
      PROVE  /\ user'[w].state = user[w].state /\ user'[w].secret = user[w].secret
             /\ user'[w].active = user[w].active /\ user'[w].verified = user[w].verified
    BY <1>2, <1>5 DEF Rows
<1>7. Worded' /\ Welcomed'
    BY <1>1, <1>2, <1>6, WordedStays, WelcomedStays DEF Tables
<1>8. Counted'
  <2>1. \A g \in Handlers : job[g].at # "mark"
      BY <1>1, <1>2 DEF Only, Idle
  <2> QED
      BY <1>1, <1>2, <2>1, CountedStays
<1> QED
    BY <1>1, <1>2, <1>7, <1>8, OnlyEnds

\* Nothing is noted, and the request ends: it did not mark, or was lost doing so.
LEMMA KeptOver ==
    ASSUME Inv, KeptInv, NEW h \in Handlers, SendLink(h) \/ Fails(h) \/ Fault(h)
    PROVE  KeptInv'
<1> SUFFICES ASSUME book.kept PROVE KeptInv'
    BY DEF KeptInv, SendLink, Fails, Fault
<1>1. /\ ~Idle(h) /\ Ends(h) /\ user' = user /\ book' = book
    BY DEF SendLink, Fails, Fault, Idle
<1>2. /\ Only(h) /\ Attends(h) /\ Counted /\ Welcomed /\ Worded
      /\ token \in [Tokens -> TokenRows] /\ faults \in Nat /\ book \in Books
    BY <1>1, KeptMeaning
<1>3. Welcomed' /\ Worded'
    BY <1>1, <1>2, SameUser, WelcomedStays, WordedStays
<1>4. Counted'
  <2>1. \A g \in Handlers : job[g].at = "mark" => g = h
      BY <1>2 DEF Only, Idle
  <2>2. CASE SendLink(h) \/ (Fails(h) /\ job[h].at # "mark")
    <3>1. job[h].at # "mark" /\ faults' = faults
        BY <2>2 DEF SendLink, Fails
    <3>2. \A t \in Tokens : token'[t].state = token[t].state
      <4>1. token' = token \/ \E t, s : token' = [token EXCEPT ![t].sent = s]
          BY <2>2 DEF SendLink, Fails
      <4> QED
          BY <1>2, <4>1 DEF TokenRows
    <3> QED
        BY <1>1, <1>2, <2>1, <3>1, <3>2, CountedStays
  <2>3. CASE Fails(h) /\ job[h].at = "mark"
    <3>1. token[job[h].t].state = "gone" /\ token' = token /\ faults' = faults
        BY <2>3 DEF Fails
    <3> QED
        BY <1>1, <1>2, <2>1, <3>1 DEF Counted
  <2>4. CASE Fault(h)
    <3>1. token' = token /\ faults' = faults + 1
        BY <2>4 DEF Fault
    <3>2. \A t \in Tokens : book.uses[t] \in Nat
        BY <1>2 DEF Books
    <3> QED
        BY <1>1, <1>2, <3>1, <3>2 DEF Counted
  <2> QED
      BY <2>2, <2>3, <2>4
<1> QED
    BY <1>1, <1>2, <1>3, <1>4, OnlyEnds

LEMMA KeptExpire ==
    ASSUME Inv, KeptInv, NEW t \in Tokens, Expire(t)
    PROVE  KeptInv'
<1>1. /\ token' = [token EXCEPT ![t].state = "expired"] /\ token[t].state = "unused"
      /\ UNCHANGED <<user, job, book, faults>>
      /\ token \in [Tokens -> TokenRows]
    BY DEF Expire, Inv, Typed, TypedTokens
<1>2. \A s \in Tokens :
          /\ token'[s].links = token[s].links
          /\ \/ token'[s].state = token[s].state
             \/ token[s].state = "unused" /\ token'[s].state = "expired"
    BY <1>1 DEF TokenRows
<1> SUFFICES ASSUME book.kept PROVE KeptInv'
    BY <1>1 DEF KeptInv
<1>3. Counted' /\ Welcomed' /\ Worded'
    BY <1>1, <1>2, SameUser, CountedStays, WelcomedStays, WordedStays DEF KeptInv
<1>4. ASSUME NEW h \in Handlers, ~Idle(h)'
      PROVE  Only(h)' /\ Attends(h)'
  <2>1. Only(h) /\ Attends(h)
      BY <1>1, <1>4 DEF KeptInv, Idle
  <2> QED
      BY <1>1, <1>2, <2>1 DEF Only, Attends, Idle, Live
<1> QED
    BY <1>3, <1>4 DEF KeptInv

\* An account comes about, verified, and is about to be welcomed for the first time.
LEMMA KeptGoogleCreate ==
    ASSUME Inv, KeptInv, NEW h \in Handlers, GoogleCreate(h)
    PROVE  KeptInv'
<1> SUFFICES ASSUME book.kept PROVE KeptInv'
    BY DEF KeptInv, GoogleCreate, Notes
<1>1. /\ job[h].at = "google" /\ user["account"].state = "absent" /\ token' = token /\ faults' = faults
      /\ Notes(book) /\ Moves(h, "welcome")
    BY DEF GoogleCreate, Links
<1>2. /\ Only(h) /\ Counted /\ Welcomed /\ Worded /\ job[h] \in Jobs /\ user \in [Tables -> Rows]
    BY <1>1, KeptMeaning DEF Idle
<1>3. book' = book
    BY <1>1 DEF Notes
<1>4. user'["account"].state = "live" /\ user'["account"].verified = TRUE
  <2>1. PICK u : u = NewRow("random", TRUE, "GOOGLE")
      OBVIOUS
  <2>2. u.state = "live" /\ u.verified = TRUE
      BY <2>1 DEF NewRow
  <2>3. user'["account"] = u
      BY <1>2, <2>1 DEF GoogleCreate, Tables
  <2> QED
      BY <2>2, <2>3
<1>5. book.welcomes = 0
    BY <1>1, <1>2 DEF Welcomed
<1>6. Welcomed' /\ Worded'
  <2>1. user'["agency"] = user["agency"]
      BY <1>2 DEF GoogleCreate, Tables
  <2>2. Worded'
      BY <1>1, <1>2, <1>3, <2>1 DEF Worded, WordRow, Live
  <2> QED
      BY <1>3, <1>4, <1>5, <2>2 DEF Welcomed
<1>7. Counted'
  <2>1. \A g \in Handlers : job[g].at # "mark"
      BY <1>1, <1>2 DEF Only, Idle
  <2> QED
      BY <1>1, <1>2, <1>3, <2>1, CountedStays
<1>8. PICK j : j = [job[h] EXCEPT !.at = "welcome"]
    OBVIOUS
<1>9. j \in Jobs /\ j.at = "welcome" /\ Step(h, j)
    BY <1>1, <1>2, <1>8 DEF Jobs, Moves
<1>10. Attends(h)'
  <2>1. job'[h].at = "welcome"
      BY <1>9 DEF Step, Inv, Typed, TypedJobs
  <2> QED
      BY <1>3, <1>4, <1>5, <2>1 DEF Attends
<1> QED
    BY <1>2, <1>6, <1>7, <1>9, <1>10, OnlyStep

LEMMA KeptSyncWrite ==
    ASSUME Inv, KeptInv, NEW h \in Handlers, SyncWrite(h)
    PROVE  KeptInv'
<1> SUFFICES ASSUME book.kept PROVE KeptInv'
    BY DEF KeptInv, SyncWrite
<1>1. /\ job[h].at = "verify" /\ Live("account") /\ token' = token /\ faults' = faults /\ book' = book
      /\ user' = [user EXCEPT !["account"].verified = TRUE]
      /\ IF job[h].was THEN Ends(h) ELSE Moves(h, "welcome")
    BY DEF SyncWrite, Links
<1>2. /\ Only(h) /\ Attends(h) /\ Counted /\ Welcomed /\ Worded /\ job[h] \in Jobs
      /\ user \in [Tables -> Rows]
    BY <1>1, KeptMeaning DEF Idle
<1>3. "account" \in Tables
    BY DEF Tables
<1>4. ASSUME NEW w \in Tables
      PROVE  /\ user'[w].state = user[w].state /\ user'[w].secret = user[w].secret
             /\ user'[w].active = user[w].active
             /\ w = "account" => user'[w].verified = TRUE
             /\ user[w].verified => user'[w].verified
    BY <1>1, <1>2 DEF Rows
<1>5. Welcomed' /\ Worded'
    BY <1>1, <1>2, <1>3, <1>4, WelcomedStays, WordedStays
<1>6. Counted'
  <2>1. \A g \in Handlers : job[g].at # "mark"
      BY <1>1, <1>2 DEF Only, Idle
  <2> QED
      BY <1>1, <1>2, <2>1, CountedStays
<1>7. CASE job[h].was
    BY <1>1, <1>2, <1>5, <1>6, <1>7, OnlyEnds
<1>8. CASE ~job[h].was
  <2>1. PICK j : j = [job[h] EXCEPT !.at = "welcome"]
      OBVIOUS
  <2>2. j \in Jobs /\ j.at = "welcome" /\ Step(h, j)
      BY <1>1, <1>2, <1>8, <2>1 DEF Jobs, Moves
  <2>3. job'[h].at = "welcome"
      BY <2>2 DEF Step, Inv, Typed, TypedJobs
  <2>4. book.welcomes = 0
      BY <1>1, <1>2, <1>8 DEF Attends
  <2>5. Attends(h)'
      BY <1>1, <1>3, <1>4, <2>3, <2>4 DEF Attends, Live
  <2> QED
      BY <1>2, <1>5, <1>6, <2>2, <2>5, OnlyStep
<1> QED
    BY <1>7, <1>8

\* The mail goes out or not, once.
LEMMA KeptWelcome ==
    ASSUME Inv, KeptInv, NEW h \in Handlers, Welcome(h)
    PROVE  KeptInv'
<1> SUFFICES ASSUME book.kept PROVE KeptInv'
    BY DEF KeptInv, Welcome, Notes
<1>1. PICK sent \in {0, 1} : Notes([book EXCEPT !.welcomes = @ + sent])
    BY DEF Welcome
<1>2. job[h].at = "welcome" /\ Ends(h) /\ token' = token /\ user' = user /\ faults' = faults
    BY DEF Welcome, Links
<1>3. /\ Only(h) /\ Attends(h) /\ Counted /\ Welcomed /\ Worded /\ book \in Books
    BY <1>2, KeptMeaning DEF Idle
<1>4. /\ book'.uses = book.uses /\ book'.welcomes = book.welcomes + sent
      /\ book'.word = book.word /\ book'.lone = book.lone
    BY <1>1, <1>3 DEF Notes, Books
<1>5. book.welcomes = 0 /\ user["account"].state # "absent" /\ (Live("account") => user["account"].verified)
    BY <1>2, <1>3 DEF Attends
<1>6. Welcomed'
    BY <1>2, <1>4, <1>5 DEF Welcomed, Live
<1>7. Worded'
    BY <1>2, <1>3, <1>4, SameUser, WordedStays
<1>8. Counted'
  <2>1. \A g \in Handlers : job[g].at # "mark"
      BY <1>2, <1>3 DEF Only, Idle
  <2> QED
      BY <1>2, <1>3, <1>4, <2>1, CountedStays
<1> QED
    BY <1>2, <1>3, <1>6, <1>7, <1>8, OnlyEnds

\* A link sets its password: one more than before.
LEMMA KeptWritePassword ==
    ASSUME Inv, KeptInv, NEW h \in Handlers, WritePassword(h)
    PROVE  KeptInv'
<1> SUFFICES ASSUME book.kept PROVE KeptInv'
    BY DEF KeptInv, WritePassword, Notes
<1>1. /\ job[h].at = "write" /\ Live(job[h].w) /\ token' = token /\ faults' = faults
      /\ user' = [user EXCEPT ![job[h].w].secret = job[h].new, ![job[h].w].form = "hash"]
      /\ Notes([TakenBack(book) EXCEPT
                    !.uses = [t \in Tokens |-> IF t = job[h].t THEN @[t] + 1 ELSE @[t]]])
      /\ Moves(h, IF job[h].t = None THEN "acknowledge" ELSE "mark")
    BY DEF WritePassword, Links
<1>2. /\ Only(h) /\ Attends(h) /\ Counted /\ Welcomed /\ job[h] \in Jobs /\ job \in [Handlers -> Jobs]
      /\ user \in [Tables -> Rows] /\ book \in Books /\ faults \in Nat
    BY <1>1, KeptMeaning DEF Idle
<1>3. PICK v \in Tables, s \in Secrets \cup {None}, k \in Tokens \cup {None} :
         v = job[h].w /\ s = job[h].new /\ k = job[h].t
    BY <1>2 DEF Jobs
<1>4. /\ book'.welcomes = book.welcomes /\ book'.word = None
      /\ \A t \in Tokens : book'.uses[t] = IF t = k THEN book.uses[t] + 1 ELSE book.uses[t]
  <2>1. PICK u : u = [t \in Tokens |-> IF t = k THEN book.uses[t] + 1 ELSE book.uses[t]]
      OBVIOUS
  <2>2. PICK b : b = TakenBack(book)
      OBVIOUS
  <2>3. b \in Books /\ b.uses = book.uses /\ b.welcomes = book.welcomes /\ b.word = None
      BY <1>2, <2>2 DEF TakenBack, Books
  <2>4. Notes([b EXCEPT !.uses = u])
      BY <1>1, <1>3, <2>1, <2>2, <2>3
  <2>5. book'.welcomes = book.welcomes /\ book'.word = None /\ book'.uses = u
      BY <2>3, <2>4 DEF Notes, Books
  <2> QED
      BY <2>1, <2>5
<1>5. user' = [user EXCEPT ![v].secret = s, ![v].form = "hash"] /\ Live(v)
    BY <1>1, <1>3
<1>6. ASSUME NEW w \in Tables
      PROVE  user'[w].state = user[w].state /\ user'[w].verified = user[w].verified
    BY <1>2, <1>5 DEF Rows
<1>7. user'[v].secret = s
    BY <1>2, <1>5 DEF Rows
<1>8. Welcomed' /\ Worded'
    BY <1>2, <1>4, <1>6, WelcomedStays DEF Worded, Tables
<1>9. PICK at \in {"acknowledge", "mark"} : at = IF k = None THEN "acknowledge" ELSE "mark"
    OBVIOUS
<1>10. PICK j : j = [job[h] EXCEPT !.at = at]
    OBVIOUS
<1>11. j \in Jobs /\ j.at = at /\ j.t = k /\ j.w = v /\ j.new = s /\ Step(h, j)
    BY <1>1, <1>2, <1>3, <1>9, <1>10 DEF Jobs, Moves
<1>12. job'[h] = j /\ \A g \in Handlers : g # h => job'[g] = job[g]
    BY <1>2, <1>11 DEF Step
<1>13. Counted'
  <2> SUFFICES ASSUME NEW t \in Tokens
               PROVE  /\ book'.uses[t] <= 1 + faults'
                      /\ token'[t].state \in {"none", "unused"}
                         /\ (\A g \in Handlers : job'[g].at = "mark" => job'[g].t # t) =>
                            book'.uses[t] <= faults'
      BY DEF Counted
  <2>1. CASE t = k
    <3>1. book.uses[t] <= faults /\ book.uses[t] \in Nat
        BY <1>1, <1>2, <1>3, <2>1 DEF Attends, Books
    <3>2. book'.uses[t] <= 1 + faults'
        BY <1>1, <1>2, <1>4, <2>1, <3>1
    <3>3. job'[h].at = "mark" /\ job'[h].t = t
        BY <1>9, <1>11, <1>12, <2>1, TokensAssumption
    <3> QED
        BY <3>2, <3>3
  <2>2. CASE t # k
    <3>1. \A g \in Handlers : job[g].at # "mark"
        BY <1>1, <1>2 DEF Only, Idle
    <3> QED
        BY <1>1, <1>2, <1>4, <2>2, <3>1 DEF Counted
  <2> QED
      BY <2>1, <2>2
<1>14. Attends(h)'
  <2>1. CASE k = None
      BY <1>1, <1>2, <1>3, <1>5, <1>6, <1>7, <1>9, <1>11, <1>12, <2>1, TokensAssumption DEF Attends, Live
  <2>2. CASE k # None
      BY <1>1, <1>2, <1>3, <1>5, <1>6, <1>7, <1>9, <1>11, <1>12, <2>2 DEF Attends, Live
  <2> QED
      BY <2>1, <2>2
<1> QED
    BY <1>2, <1>8, <1>11, <1>13, <1>14, OnlyStep

\* The account is there, with the password that is acknowledged: login takes it.
LEMMA KeptAcknowledge ==
    ASSUME Inv, KeptInv, NEW h \in Handlers, Acknowledge(h)
    PROVE  KeptInv'
<1> SUFFICES ASSUME book.kept PROVE KeptInv'
    BY DEF KeptInv, Acknowledge, Notes
<1>1. /\ job[h].at = "acknowledge" /\ Ends(h) /\ token' = token /\ user' = user /\ faults' = faults
      /\ Notes([book EXCEPT !.word = job[h].new, !.lone = FALSE])
    BY DEF Acknowledge, Links
<1>2. /\ Only(h) /\ Attends(h) /\ Counted /\ Welcomed
    BY <1>1, KeptMeaning DEF Idle
<1>3. PICK s : s = job[h].new
    OBVIOUS
<1>4. /\ book'.uses = book.uses /\ book'.welcomes = book.welcomes
      /\ book'.word = s /\ book'.lone = FALSE
    BY <1>1, <1>3, NotesWord
<1>5. Worded'
  <2>1. user["account"].state = "live" /\ user["account"].secret = s /\ "account" \in Tables
      BY <1>1, <1>2, <1>3 DEF Attends, Live, Tables
  <2> QED
      BY <1>1, <1>4, <2>1 DEF Worded, WordRow, Live
<1>6. Welcomed'
    BY <1>1, <1>2, <1>4, SameUser, WelcomedStays
<1>7. Counted'
  <2>1. \A g \in Handlers : job[g].at # "mark"
      BY <1>1, <1>2 DEF Only, Idle
  <2> QED
      BY <1>1, <1>2, <1>4, <2>1, CountedStays
<1> QED
    BY <1>1, <1>2, <1>5, <1>6, <1>7, OnlyEnds

\* The older links are put out of use; the one to come is not there yet.
LEMMA KeptInvalidate ==
    ASSUME Inv, KeptInv, NEW h \in Handlers, Invalidate(h)
    PROVE  KeptInv'
<1> SUFFICES ASSUME book.kept PROVE KeptInv'
    BY DEF KeptInv, Invalidate
<1>1. /\ job[h].at = "invalidate" /\ Moves(h, "create") /\ user' = user /\ book' = book /\ faults' = faults
      /\ token' = [t \in Tokens |-> IF token[t].state \in {"unused", "expired"}
                                    THEN [token[t] EXCEPT !.state = "used"] ELSE token[t]]
    BY DEF Invalidate
<1>2. /\ Only(h) /\ Attends(h) /\ Counted /\ Welcomed /\ Worded /\ job[h] \in Jobs
      /\ token \in [Tokens -> TokenRows]
    BY <1>1, KeptMeaning DEF Idle
<1>3. \A t \in Tokens : token'[t].state \in {"none", "unused"} => token'[t] = token[t]
    BY <1>1, <1>2 DEF TokenRows
<1>4. PICK j : j = [job[h] EXCEPT !.at = "create"]
    OBVIOUS
<1>5. j \in Jobs /\ j.at = "create" /\ j.t = job[h].t /\ Step(h, j)
    BY <1>1, <1>2, <1>4 DEF Jobs, Moves
<1>6. Counted' /\ Welcomed' /\ Worded'
  <2>1. \A g \in Handlers : job[g].at # "mark"
      BY <1>1, <1>2 DEF Only, Idle
  <2> QED
      BY <1>1, <1>2, <1>3, <2>1, SameUser, CountedStays, WelcomedStays, WordedStays
<1>7. Attends(h)'
  <2>1. PICK t \in Tokens : t = job[h].t /\ token[t].state = "none"
      BY <1>1, <1>2 DEF Attends
  <2>2. token'[t] = token[t]
      BY <1>1, <2>1
  <2>3. job'[h] = j
      BY <1>5 DEF Step, Inv, Typed, TypedJobs
  <2> QED
      BY <1>5, <2>1, <2>2, <2>3 DEF Attends
<1> QED
    BY <1>2, <1>5, <1>6, <1>7, OnlyStep

\* The new link has set no password yet.
LEMMA KeptCreateToken ==
    ASSUME Inv, KeptInv, NEW h \in Handlers, CreateToken(h)
    PROVE  KeptInv'
<1> SUFFICES ASSUME book.kept PROVE KeptInv'
    BY DEF KeptInv, CreateToken
<1>1. /\ job[h].at = "create" /\ user' = user /\ book' = book /\ faults' = faults
      /\ token' = [token EXCEPT ![job[h].t] = [NoToken EXCEPT !.state = "unused", !.links = job[h].links]]
      /\ Step(h, [job[h] EXCEPT !.at = "send", !.links = {}])
    BY DEF CreateToken
<1>2. /\ Only(h) /\ Attends(h) /\ Counted /\ Welcomed /\ Worded /\ job[h] \in Jobs
      /\ token \in [Tokens -> TokenRows]
    BY <1>1, KeptMeaning DEF Idle
<1>3. PICK k \in Tokens : k = job[h].t /\ token[k].state = "none"
    BY <1>1, <1>2 DEF Attends
<1>4. \A t \in Tokens : t # k => token'[t] = token[t]
    BY <1>1, <1>2, <1>3
<1>5. PICK j : j = [job[h] EXCEPT !.at = "send", !.links = {}]
    OBVIOUS
<1>6. j \in Jobs /\ j.at = "send" /\ Step(h, j)
    BY <1>1, <1>2, <1>5 DEF Jobs
<1>7. Counted' /\ Welcomed' /\ Worded'
  <2>1. \A g \in Handlers : job[g].at # "mark"
      BY <1>1, <1>2 DEF Only, Idle
  <2>2. \A t \in Tokens : token'[t].state \in {"none", "unused"} => token[t].state \in {"none", "unused"}
      BY <1>3, <1>4
  <2> QED
      BY <1>1, <1>2, <2>1, <2>2, SameUser, CountedStays, WelcomedStays, WordedStays
<1>8. Attends(h)'
  <2>1. job'[h].at = "send"
      BY <1>6 DEF Step, Inv, Typed, TypedJobs
  <2> QED
      BY <2>1 DEF Attends
<1> QED
    BY <1>2, <1>6, <1>7, <1>8, OnlyStep

\* The link no longer works, and the row it was for holds the password.
LEMMA KeptMarkUsed ==
    ASSUME Inv, KeptInv, NEW h \in Handlers, MarkUsed(h)
    PROVE  KeptInv'
<1> SUFFICES ASSUME book.kept PROVE KeptInv'
    BY DEF KeptInv, MarkUsed, Notes
<1>1. /\ job[h].at = "mark" /\ token[job[h].t].state # "gone" /\ Ends(h) /\ user' = user
      /\ faults' = faults
      /\ token' = [token EXCEPT ![job[h].t].state = "used"]
      /\ Notes(Acknowledged(h))
    BY DEF MarkUsed
<1>2. /\ Only(h) /\ Attends(h) /\ Counted /\ Welcomed
      /\ token \in [Tokens -> TokenRows]
    BY <1>1, KeptMeaning DEF Idle
<1>3. PICK k \in Tokens : k = job[h].t
    BY <1>1, <1>2 DEF Attends
<1>4. PICK s, l : s = job[h].new /\ l = (token[k].links = {"agency"})
    OBVIOUS
<1>5. /\ book'.uses = book.uses /\ book'.welcomes = book.welcomes
      /\ book'.word = s /\ book'.lone = l
    BY <1>1, <1>3, <1>4, NotesWord DEF Acknowledged
<1>6. Worded'
  <2>1. PICK w : w = job[h].w
      OBVIOUS
  <2>2. w = Target(token[k].links) /\ Live(w) /\ user[w].secret = s
      BY <1>1, <1>2, <1>3, <1>4, <2>1 DEF Attends
  <2>3. token[k].state \in {"unused", "expired", "used"}
      BY <1>1, <1>2, <1>3 DEF Inv, HeldTokens, TokenRows
  <2>4. token[k].links # {} /\ token[k].links \subseteq Tables
      BY <1>2, <2>3 DEF Inv, Typed, TypedTokens, TokenRows
  <2>5. WordRow' = w
    <3>1. CASE "account" \in token[k].links
      <4>1. token[k].links # {"agency"}
          BY <3>1
      <4> QED
          BY <1>4, <1>5, <2>2, <3>1, <4>1 DEF Target, WordRow
    <3>2. CASE "account" \notin token[k].links
      <4>1. token[k].links = {"agency"}
          BY <2>4, <3>2 DEF Tables
      <4> QED
          BY <1>4, <1>5, <2>2, <3>2, <4>1 DEF Target, WordRow
    <3> QED
        BY <3>1, <3>2
  <2> QED
      BY <1>1, <1>5, <2>2, <2>5 DEF Worded, Live
<1>7. Welcomed'
    BY <1>1, <1>2, <1>5, SameUser, WelcomedStays
<1>8. Counted'
  <2>1. \A g \in Handlers : job[g].at = "mark" => g = h
      BY <1>2 DEF Only, Idle
  <2>2. token'[k].state = "used" /\ \A t \in Tokens : t # k => token'[t] = token[t]
      BY <1>1, <1>2, <1>3 DEF TokenRows
  <2> QED
      BY <1>1, <1>2, <1>3, <1>5, <2>1, <2>2 DEF Counted
<1> QED
    BY <1>1, <1>2, <1>6, <1>7, <1>8, OnlyEnds

\* A statement of staff or of a visitor finds nobody at work, or closes the book.
LEMMA KeptAlone ==
    ASSUME Inv, NEW v, Intervenes(v), UNCHANGED <<job, faults>>, book'.kept => Welcomed' /\ Worded',
           \A t \in Tokens : token'[t].state \in {"none", "unused"} => token[t].state \in {"none", "unused"},
           KeptInv
    PROVE  KeptInv'
<1> SUFFICES ASSUME book'.kept PROVE KeptInv'
    BY DEF KeptInv
<1>1. book.kept /\ Alone /\ book'.uses = book.uses
    BY BookOfOne
<1>2. Counted'
    BY <1>1, CountedStays DEF KeptInv
<1>3. \A h \in Handlers : Idle(h)'
    BY <1>1 DEF Alone, Idle
<1> QED
    BY <1>2, <1>3 DEF KeptInv

\* It leaves the word true that it does not take back.
LEMMA WordStands ==
    ASSUME Inv, KeptInv, NEW v, Intervenes(v), book'.kept,
           v # WordRow /\ Live(WordRow) => /\ user'[WordRow].state = "live"
                                          /\ user'[WordRow].secret = user[WordRow].secret
    PROVE  Worded'
<1>1. book.kept /\ (book' = book \/ (v = WordRow /\ book'.word = None))
    BY BookOfOne
<1>2. Worded
    BY <1>1 DEF KeptInv
<1>3. CASE book'.word = None
    BY <1>3 DEF Worded
<1>4. CASE book' = book /\ v # WordRow
  <2>1. WordRow' = WordRow
      BY <1>4 DEF WordRow
  <2> QED
      BY <1>2, <1>4, <2>1 DEF Worded, Live
<1>5. CASE v = WordRow
  <2>1. book'.word = None
      BY <1>5, BookOfOne
  <2> QED
      BY <1>3, <2>1
<1> QED
    BY <1>1, <1>3, <1>4, <1>5

LEMMA KeptRegister ==
    ASSUME Inv, KeptInv, NEW p \in Passwords, NEW active \in BOOLEAN, NEW admin \in BOOLEAN,
           Register(p, active, admin)
    PROVE  KeptInv'
<1>1. /\ user["account"].state = "absent" /\ Intervenes(None) /\ UNCHANGED <<job, faults, token>>
      /\ user \in [Tables -> Rows]
      /\ \E u : user' = [user EXCEPT !["account"] = u]
    BY DEF Register, Links, Inv, Typed, TypedUsers
<1>2. ASSUME book'.kept PROVE Welcomed'
  <2>1. book.kept /\ book'.welcomes = book.welcomes
      BY <1>1, <1>2, BookOfOne
  <2>2. book.welcomes = 0
      BY <1>1, <2>1 DEF KeptInv, Welcomed
  <2> QED
      BY <2>1, <2>2 DEF Welcomed
<1>3. ASSUME book'.kept PROVE Worded'
  <2>1. user'["agency"] = user["agency"]
      BY <1>1 DEF Tables
  <2>2. Live(WordRow) => WordRow = "agency"
      BY <1>1 DEF WordRow, Live
  <2> QED
      BY <1>1, <1>3, <2>1, <2>2, WordStands DEF Live
<1> QED
    BY <1>1, <1>2, <1>3, KeptAlone

LEMMA KeptStaffUpdate ==
    ASSUME Inv, KeptInv, NEW w \in Tables, NEW p \in Passwords \cup {None}, NEW active \in BOOLEAN,
           NEW admin \in BOOLEAN, StaffUpdate(w, p, active, admin)
    PROVE  KeptInv'
<1>1. PICK v : v = IF p = None THEN None ELSE w
    OBVIOUS
<1>2. /\ Intervenes(v) /\ UNCHANGED <<job, faults, token>> /\ user \in [Tables -> Rows]
      /\ "account" \in Tables /\ WordRow \in Tables
    BY <1>1 DEF StaffUpdate, Links, Inv, Typed, TypedUsers, Tables, WordRow
<1>3. ASSUME NEW x \in Tables
      PROVE  /\ user'[x].state = user[x].state /\ user'[x].verified = user[x].verified
             /\ p = None \/ x # w => user'[x].secret = user[x].secret
    BY <1>2 DEF StaffUpdate, Rows
<1>4. ASSUME book'.kept PROVE Welcomed'
    BY <1>2, <1>3, <1>4, BookOfOne, WelcomedStays DEF KeptInv
<1>5. ASSUME book'.kept PROVE Worded'
  <2>1. v # WordRow => p = None \/ WordRow # w
      BY <1>1
  <2> QED
      BY <1>2, <1>3, <1>5, <2>1, WordStands DEF Live
<1> QED
    BY <1>2, <1>4, <1>5, KeptAlone

LEMMA KeptDelete ==
    ASSUME Inv, KeptInv, DeleteAccount
    PROVE  KeptInv'
<1>1. /\ Intervenes("account") /\ UNCHANGED <<job, faults>> /\ user \in [Tables -> Rows]
      /\ "account" \in Tables
      /\ user' = [user EXCEPT !["account"] = Absent("deleted")]
    BY DEF DeleteAccount, Inv, Typed, TypedUsers, Tables
<1>2. ASSUME book'.kept PROVE Welcomed'
  <2>1. user'["account"].state = "deleted"
    <3>1. PICK u : u = Absent("deleted")
        OBVIOUS
    <3>2. user'["account"] = u /\ u.state = "deleted"
        BY <1>1, <3>1, AbsentIsRow
    <3> QED
        BY <3>2
  <2>2. book.kept /\ book'.welcomes = book.welcomes
      BY <1>1, <1>2, BookOfOne
  <2> QED
      BY <2>1, <2>2 DEF KeptInv, Welcomed, Live
<1>3. ASSUME NEW t \in Tokens, token'[t].state \in {"none", "unused"}
      PROVE  token[t].state \in {"none", "unused"}
  <2>1. PICK g : g = [NoToken EXCEPT !.state = "gone"]
      OBVIOUS
  <2>2. g.state = "gone" /\ token'[t] \in {g, token[t]}
      BY <2>1 DEF DeleteAccount, NoToken
  <2> QED
      BY <1>3, <2>2
<1>4. ASSUME book'.kept PROVE Worded'
  <2>1. user'["agency"] = user["agency"]
      BY <1>1 DEF Tables
  <2> QED
      BY <1>1, <1>4, <2>1, WordStands DEF WordRow, Live
<1> QED
    BY <1>1, <1>2, <1>3, <1>4, KeptAlone

LEMMA KeptInit == Init => KeptInv
<1> SUFFICES ASSUME Init PROVE KeptInv
    OBVIOUS
<1>1. \A h \in Handlers : Idle(h)
    BY DEF Init, Quiet, Idle
<1>2. book.welcomes = 0 /\ book.word = None /\ (\A t \in Tokens : book.uses[t] = 0) /\ faults = 0
    BY DEF Init, Empty
<1> QED
    BY <1>1, <1>2 DEF KeptInv, Counted, Welcomed, Worded

LEMMA KeptStep == Inv /\ KeptInv /\ [Next]_vars => KeptInv'
<1> SUFFICES ASSUME Inv, KeptInv, [Next]_vars PROVE KeptInv'
    OBVIOUS
<1>1. ASSUME NEW h \in Handlers, Work(h) PROVE KeptInv'
  <2>1. \/ Arrival(h) \/ LoginMigrate(h) \/ GoogleCreate(h) \/ SyncWrite(h) \/ Welcome(h)
        \/ WritePassword(h) \/ Acknowledge(h) \/ MarkUsed(h)
        \/ Invalidate(h) \/ CreateToken(h) \/ SendLink(h) \/ Fails(h) \/ Fault(h)
      BY <1>1 DEF Work, Arrival
  <2> QED
      BY <2>1, KeptArrival, KeptMigrate, KeptGoogleCreate, KeptSyncWrite, KeptWelcome,
         KeptWritePassword, KeptAcknowledge, KeptMarkUsed, KeptInvalidate, KeptCreateToken, KeptOver
<1>2. CASE UNCHANGED vars
    BY <1>2 DEF vars, KeptInv, Only, Attends, Counted, Welcomed, Worded, WordRow, Live, Idle
<1> QED
    BY <1>1, <1>2, KeptRegister, KeptStaffUpdate, KeptDelete, KeptExpire DEF Next

LEMMA KeptHolds == Spec => []KeptInv
<1>1. Init => Inv /\ KeptInv
    BY InvInit, KeptInit
<1>2. Inv /\ KeptInv /\ [Next]_vars => (Inv /\ KeptInv)'
    BY InvStep, KeptStep
<1> QED
    BY <1>1, <1>2, PTL DEF Spec

\* With requests one at a time, however many links there are, each sets a password
\* once, and once more for each request that was lost before it marked its link.
THEOREM ResetOnceHolds == Spec => []ResetOnce
<1>1. KeptInv => ResetOnce
    BY DEF KeptInv, Counted, ResetOnce
<1> QED
    BY <1>1, KeptHolds, PTL

\* With requests one at a time, an account is welcomed at most once: by its first
\* sign-in with Google or when its verification is first synchronised.
THEOREM WelcomeOnceHolds == Spec => []WelcomeOnce
<1>1. KeptInv => WelcomeOnce
    BY DEF KeptInv, Welcomed, WelcomeOnce
<1> QED
    BY <1>1, KeptHolds, PTL

\* With requests one at a time, every password that a change or a reset has
\* acknowledged is the one its row holds until it is written again, and login takes
\* it, unless the row is an agency's that had no account: of that one the password
\* signs in exactly while the agency is active and still has no account.
THEOREM AcknowledgedSignsInHolds == Spec => []AcknowledgedSignsIn
<1>1. KeptInv => AcknowledgedSignsIn
  <2> SUFFICES ASSUME KeptInv, book.kept, book.word # None
               PROVE  \/ SignsIn(book.word)
                      \/ /\ book.lone /\ ~Signer("agency")
                         /\ user["agency"].secret = book.word
      BY DEF AcknowledgedSignsIn
  <2>1. Live(WordRow) /\ user[WordRow].secret = book.word /\ WordRow \in Tables
      BY DEF KeptInv, Worded, WordRow, Tables
  <2>2. CASE book.lone
      BY <2>1, <2>2 DEF WordRow, SignsIn, Tables
  <2>3. CASE ~book.lone
      BY <2>1, <2>3 DEF WordRow, SignsIn, Signer, Tables
  <2> QED
      BY <2>2, <2>3
<1> QED
    BY <1>1, KeptHolds, PTL
=============================================================================
