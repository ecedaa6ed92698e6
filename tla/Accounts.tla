------------------------------ MODULE Accounts ------------------------------
(***************************************************************************)
(* Signing in with one email address, for which there is an agency and may *)
(* be an account: AccountService's sign-in, registration, verification of  *)
(* the address, change and reset of the password.  The two tables do not   *)
(* know of each other; the account comes first wherever both are looked at.*)
(*                                                                         *)
(* A request is a chain of steps, one per await that reads or writes a     *)
(* table or sends a mail; hashing a password lies between two of them.     *)
(* A request that is turned down changes nothing and is not a step.  An    *)
(* account that is deleted is not registered anew here.                    *)
(***************************************************************************)
EXTENDS Naturals

CONSTANTS
    Passwords,   \* passwords that people choose
    Tokens,      \* password reset tokens
    Legacy,      \* the tables whose older rows hold the password itself
    Handlers,    \* requests in flight at once (bound)
    MaxFaults,   \* requests lost to a restart or a failed statement (bound)
    None

ASSUME PasswordsAssumption == "random" \notin Passwords /\ None \notin Passwords /\ None # "random"
ASSUME TokensAssumption == None \notin Tokens
ASSUME LegacyAssumption == Legacy \subseteq {"account", "agency"}
ASSUME FaultsAssumption == MaxFaults \in Nat

VARIABLES
    user,      \* the rows of the email address in the two tables
    token,     \* the table of reset tokens
    job,       \* the requests
    crossed,   \* forgotPassword requests that another's new token has crossed
    settled,   \* whether the newest token was created uncrossed
    book,      \* ghost: what is counted while requests come one at a time
    faults

vars == <<user, token, job, crossed, settled, book, faults>>

Tables == {"account", "agency"}
Secrets == Passwords \cup {"random"}   \* "random": what googleLogin makes up

Rows == [state : {"absent", "live", "deleted"},
         secret : Secrets \cup {None},
         form : {"plain", "hash"},     \* how the row stores it
         active : BOOLEAN, verified : BOOLEAN,
         provider : {"LOCAL", "GOOGLE"},
         admin : BOOLEAN,              \* whether its role is ADMIN
         byStaff : BOOLEAN]            \* ghost: staff gave a Google account a password

Live(w) == user[w].state = "live"
Absent(state) ==
    [state |-> state, secret |-> None, form |-> "hash", active |-> FALSE, verified |-> FALSE,
     provider |-> "LOCAL", admin |-> FALSE, byStaff |-> FALSE]
NewRow(secret, verified, provider) ==
    [state |-> "live", secret |-> secret, form |-> "hash", active |-> TRUE,
     verified |-> verified, provider |-> provider, admin |-> FALSE, byStaff |-> FALSE]
NoToken == [state |-> "none", sent |-> FALSE, links |-> {}]
Fresh(t) == token[t].state = "unused"

Empty == [kept |-> TRUE,
          uses |-> [t \in Tokens |-> 0],   \* passwords written with each token
          welcomes |-> 0,                  \* welcome mails sent
          word |-> None,    \* the password last acknowledged, if its row was not written since
          lone |-> FALSE]   \* whether it was an agency's, whose link knew of no account
Closed == [Empty EXCEPT !.kept = FALSE]

Quiet == [at |-> "idle", w |-> "account", new |-> None, t |-> None, was |-> FALSE, links |-> {}]
Jobs == [at : {"idle", "migrate", "write", "acknowledge", "mark", "invalidate", "create", "send",
               "verify", "welcome", "google"},
         w : Tables, new : Secrets \cup {None}, t : Tokens \cup {None},
         was : BOOLEAN, links : SUBSET Tables]

TypeOK ==
    /\ user \in [Tables -> Rows]
    /\ token \in [Tokens -> [state : {"none", "unused", "expired", "used", "gone"},
                             sent : BOOLEAN, links : SUBSET Tables]]
    /\ \A t \in Tokens : token[t].state \in {"unused", "expired", "used"} =>
            token[t].links # {} /\ \A w \in token[t].links : Live(w)
    /\ job \in [Handlers -> Jobs]
    /\ crossed \subseteq Handlers
    /\ settled \in BOOLEAN
    /\ book \in [kept : BOOLEAN, uses : [Tokens -> Nat], welcomes : Nat,
                word : Secrets \cup {None}, lone : BOOLEAN]
    /\ faults \in 0 .. MaxFaults

OlderRow(w, p, admin) ==
    [NewRow(p, FALSE, "LOCAL") EXCEPT !.form = IF w \in Legacy THEN "plain" ELSE "hash",
                                      !.admin = admin]
Older(w) == UNION {{OlderRow(w, p, FALSE), OlderRow(w, p, w = "account")} : p \in Passwords}

Init ==
    /\ user \in [Tables -> (UNION {Older(w) : w \in Tables}) \cup {Absent("absent")}]
    /\ user["agency"] \in Older("agency")
    /\ user["account"] \in Older("account") \cup {Absent("absent")}
    /\ token = [t \in Tokens |-> NoToken]
    /\ job = [h \in Handlers |-> Quiet]
    /\ crossed = {} /\ settled = TRUE
    /\ book = Empty /\ faults = 0

-----------------------------------------------------------------------------
Idle(h) == job[h].at = "idle"
Step(h, j) == job' = [job EXCEPT ![h] = j]
Moves(h, at) == Step(h, [job[h] EXCEPT !.at = at])
Ends(h) == Step(h, Quiet)
Alone == \A g \in Handlers : Idle(g)
Arrives == book' = IF Alone THEN book ELSE Closed
Notes(b) == book' = IF book.kept THEN b ELSE book
Begins(h, j) ==
    /\ Idle(h)
    /\ Step(h, j)
    /\ Arrives

Links == <<token, crossed, settled>>
\* A single statement of staff or of a visitor; one that writes the row of the
\* word, or deletes it, takes the word back.
TakenBack(b) == [b EXCEPT !.word = None, !.lone = FALSE]
WordRow == IF book.lone THEN "agency" ELSE "account"
Intervenes(w) ==
    book' = IF ~Alone THEN Closed
            ELSE IF w = WordRow THEN TakenBack(book)
            ELSE book

\* login looks at the account, and at the agency only if there is none.
Signer(w) ==
    \/ w = "account" /\ Live("account")
    \/ w = "agency" /\ ~Live("account") /\ Live("agency") /\ user["agency"].active
SignsIn(p) == \E w \in Tables : Signer(w) /\ user[w].secret = p

-----------------------------------------------------------------------------
(* create (POST /auth/register), and the accounts and agencies that staff  *)
(* update or delete.                                                       *)

Register(p, active, admin) ==
    /\ user["account"].state = "absent"
    /\ user' = [user EXCEPT !["account"] =
                    [NewRow(p, FALSE, "LOCAL") EXCEPT !.active = active, !.admin = admin]]
    /\ Intervenes(None)
    /\ UNCHANGED <<Links, job, faults>>

\* An agency has no role.
StaffUpdate(w, p, active, admin) ==
    /\ Live(w)
    /\ admin => w = "account"
    /\ user' = [user EXCEPT ![w].active = active,
                            ![w].admin = admin,
                            ![w].secret = IF p = None THEN @ ELSE p,
                            ![w].form = IF p = None THEN @ ELSE "hash",
                            ![w].byStaff = @ \/ (p # None /\ user[w].provider = "GOOGLE")]
    /\ Intervenes(IF p = None THEN None ELSE w)
    /\ UNCHANGED <<Links, job, faults>>

\* Mutant: the tokens of a deleted account stay.
DeleteAccountAlone ==
    /\ Live("account")
    /\ user' = [user EXCEPT !["account"] = Absent("deleted")]
    /\ Intervenes("account")
    /\ UNCHANGED <<Links, job, faults>>

\* remove: the tokens go with the account (onDelete: Cascade).
DeleteAccount ==
    /\ Live("account")
    /\ user' = [user EXCEPT !["account"] = Absent("deleted")]
    /\ token' = [t \in Tokens |-> IF "account" \in token[t].links
                                  THEN [NoToken EXCEPT !.state = "gone"] ELSE token[t]]
    /\ Intervenes("account")
    /\ UNCHANGED <<crossed, settled, job, faults>>

-----------------------------------------------------------------------------
(* login: a password that is stored as it is becomes a hash, in a later    *)
(* statement that does not look at the row again.  Any other attempt to    *)
(* sign in changes nothing.                                                *)

LoginRead(h) ==
    /\ \E w \in Tables :
        /\ Signer(w)
        /\ user[w].form = "plain"
        /\ Begins(h, [Quiet EXCEPT !.at = "migrate", !.w = w, !.new = user[w].secret])
    /\ UNCHANGED <<Links, user, faults>>

LoginMigrate(h) ==
    /\ job[h].at = "migrate"
    /\ Live(job[h].w)
    /\ user' = [user EXCEPT ![job[h].w].secret = job[h].new, ![job[h].w].form = "hash"]
    /\ Ends(h)
    /\ UNCHANGED <<Links, book, faults>>

\* googleLogin.
GoogleRead(h) ==
    /\ user["account"].state = "absent"
    /\ Begins(h, [Quiet EXCEPT !.at = "google"])
    /\ UNCHANGED <<Links, user, faults>>

\* The address is unique in its table.
GoogleCreate(h) ==
    /\ job[h].at = "google"
    /\ user["account"].state = "absent"
    /\ user' = [user EXCEPT !["account"] = NewRow("random", TRUE, "GOOGLE")]
    /\ Notes(book)
    /\ Moves(h, "welcome")
    /\ UNCHANGED <<Links, faults>>

\* Mutant: every synchronisation welcomes.
SyncReadAnew(h) ==
    /\ Live("account")
    /\ Begins(h, [Quiet EXCEPT !.at = "verify"])
    /\ UNCHANGED <<Links, user, faults>>

\* syncEmailVerification, once Firebase has verified the address.
SyncRead(h) ==
    /\ Live("account")
    /\ Begins(h, [Quiet EXCEPT !.at = "verify", !.was = user["account"].verified])
    /\ UNCHANGED <<Links, user, faults>>

SyncWrite(h) ==
    /\ job[h].at = "verify"
    /\ Live("account")
    /\ user' = [user EXCEPT !["account"].verified = TRUE]
    /\ IF job[h].was THEN Ends(h) ELSE Moves(h, "welcome")
    /\ UNCHANGED <<Links, book, faults>>

\* sendWelcomeEmail: a failure is logged and forgotten.
Welcome(h) ==
    /\ job[h].at = "welcome"
    /\ \E sent \in {0, 1} : Notes([book EXCEPT !.welcomes = @ + sent])
    /\ Ends(h)
    /\ UNCHANGED <<Links, user, faults>>

-----------------------------------------------------------------------------
(* changePassword. *)

ChangeRead(h, p) ==
    /\ Live("account")
    /\ LET a == user["account"] IN
        a.active /\ (a.verified \/ a.admin) /\ a.provider = "LOCAL" /\ a.secret # p
    /\ Begins(h, [Quiet EXCEPT !.at = "write", !.new = p])
    /\ UNCHANGED <<Links, user, faults>>

\* Mutant: the agency comes first.
TargetAgency(links) == IF "agency" \in links THEN "agency" ELSE "account"

\* Whose password a request with these links writes.
Target(links) == IF "account" \in links THEN "account" ELSE "agency"

\* The new password, of changePassword or of resetPassword with a token.
WritePassword(h) ==
    /\ job[h].at = "write"
    /\ Live(job[h].w)
    /\ user' = [user EXCEPT ![job[h].w].secret = job[h].new, ![job[h].w].form = "hash"]
    /\ Notes([TakenBack(book) EXCEPT
                  !.uses = [t \in Tokens |-> IF t = job[h].t THEN @[t] + 1 ELSE @[t]]])
    /\ Moves(h, IF job[h].t = None THEN "acknowledge" ELSE "mark")
    /\ UNCHANGED <<Links, faults>>

Acknowledge(h) ==
    /\ job[h].at = "acknowledge"
    /\ Notes([book EXCEPT !.word = job[h].new, !.lone = FALSE])
    /\ Ends(h)
    /\ UNCHANGED <<Links, user, faults>>

-----------------------------------------------------------------------------
(* forgotPassword: a new token replaces those that are not used yet. *)

\* Mutant: the provider is not asked for.
ForgotReadAny(h, t) ==
    /\ token[t].state = "none" /\ \A g \in Handlers : job[g].t # t
    /\ \E w \in Tables : Live(w) /\ user[w].active
    /\ Begins(h, [Quiet EXCEPT !.at = "invalidate", !.t = t, !.links = {w \in Tables : Live(w)}])
    /\ UNCHANGED <<Links, user, faults>>

\* The token t is one that nothing else is about to create.
ForgotRead(h, t) ==
    /\ token[t].state = "none" /\ \A g \in Handlers : job[g].t # t
    /\ \E w \in Tables : Live(w) /\ user[w].active
    /\ Live("account") => user["account"].provider # "GOOGLE"
    /\ Begins(h, [Quiet EXCEPT !.at = "invalidate", !.t = t, !.links = {w \in Tables : Live(w)}])
    /\ UNCHANGED <<Links, user, faults>>

\* Mutant: only the links that have expired are put out of use.
InvalidateExpired(h) ==
    /\ job[h].at = "invalidate"
    /\ token' = [t \in Tokens |-> IF token[t].state = "expired"
                                  THEN [token[t] EXCEPT !.state = "used"] ELSE token[t]]
    /\ crossed' = crossed \ {h}
    /\ Moves(h, "create")
    /\ UNCHANGED <<user, settled, book, faults>>

Invalidate(h) ==
    /\ job[h].at = "invalidate"
    /\ token' = [t \in Tokens |-> IF token[t].state \in {"unused", "expired"}
                                  THEN [token[t] EXCEPT !.state = "used"] ELSE token[t]]
    /\ crossed' = crossed \ {h}
    /\ Moves(h, "create")
    /\ UNCHANGED <<user, settled, book, faults>>

\* The insert fails if the account it refers to is gone.
CreateToken(h) ==
    /\ job[h].at = "create"
    /\ \A w \in job[h].links : Live(w)
    /\ token' = [token EXCEPT ![job[h].t] = [NoToken EXCEPT !.state = "unused", !.links = job[h].links]]
    /\ settled' = (h \notin crossed)
    /\ crossed' = (crossed \ {h}) \cup {g \in Handlers \ {h} : job[g].at = "create"}
    /\ Step(h, [job[h] EXCEPT !.at = "send", !.links = {}])
    /\ UNCHANGED <<user, book, faults>>

\* A mail that fails fails the request; the link is then known to nobody.
SendLink(h) ==
    /\ job[h].at = "send"
    /\ \E sent \in BOOLEAN : token' = [token EXCEPT ![job[h].t].sent = sent /\ token[job[h].t].state # "gone"]
    /\ Ends(h)
    /\ UNCHANGED <<user, crossed, settled, book, faults>>

\* An hour passes.
Expire(t) ==
    /\ token[t].state = "unused"
    /\ token' = [token EXCEPT ![t].state = "expired"]
    /\ UNCHANGED <<user, job, crossed, settled, book, faults>>

-----------------------------------------------------------------------------
(* resetPassword: the token is looked at, the password written, the token  *)
(* marked as used, one after the other.                                    *)

ResetRead(h, t, p) ==
    /\ token[t].sent
    /\ Fresh(t)
    /\ Begins(h, [Quiet EXCEPT !.at = "write", !.t = t, !.new = p, !.w = Target(token[t].links)])
    /\ UNCHANGED <<Links, user, faults>>

\* "Password updated successfully.", whatever became of the row's agency.
Acknowledged(h) ==
    [book EXCEPT !.word = job[h].new, !.lone = token[job[h].t].links = {"agency"}]

\* Mutant: the token is not marked.
ForgetMark(h) ==
    /\ job[h].at = "mark"
    /\ token[job[h].t].state # "gone"
    /\ Notes(Acknowledged(h))
    /\ Ends(h)
    /\ UNCHANGED <<Links, user, faults>>

MarkUsed(h) ==
    /\ job[h].at = "mark"
    /\ token[job[h].t].state # "gone"
    /\ token' = [token EXCEPT ![job[h].t].state = "used"]
    /\ Notes(Acknowledged(h))
    /\ Ends(h)
    /\ UNCHANGED <<user, crossed, settled, faults>>

\* A row that a request is about to write is gone, or there already.
Fails(h) ==
    /\ \/ job[h].at \in {"migrate", "write"} /\ ~Live(job[h].w)
       \/ job[h].at = "verify" /\ ~Live("account")
       \/ job[h].at = "google" /\ user["account"].state # "absent"
       \/ job[h].at = "create" /\ \E w \in job[h].links : ~Live(w)
       \/ job[h].at = "mark" /\ token[job[h].t].state = "gone"
    /\ Ends(h)
    /\ crossed' = crossed \ {h}
    /\ UNCHANGED <<user, token, settled, book, faults>>

Fault(h) ==
    /\ ~Idle(h)
    /\ faults < MaxFaults
    /\ faults' = faults + 1
    /\ Ends(h)
    /\ crossed' = crossed \ {h}
    /\ UNCHANGED <<user, token, settled, book>>

-----------------------------------------------------------------------------
Work(h) ==
    \/ LoginRead(h) \/ LoginMigrate(h) \/ GoogleRead(h) \/ GoogleCreate(h)
    \/ SyncRead(h) \/ SyncWrite(h) \/ Welcome(h)
    \/ \E p \in Passwords : ChangeRead(h, p) \/ \E t \in Tokens : ResetRead(h, t, p)
    \/ WritePassword(h) \/ Acknowledge(h) \/ MarkUsed(h)
    \/ \E t \in Tokens : ForgotRead(h, t)
    \/ Invalidate(h) \/ CreateToken(h) \/ SendLink(h)
    \/ Fails(h) \/ Fault(h)

Next ==
    \/ \E h \in Handlers : Work(h)
    \/ \E p \in Passwords, active, admin \in BOOLEAN : Register(p, active, admin)
    \/ \E w \in Tables, p \in Passwords \cup {None}, active, admin \in BOOLEAN :
            StaffUpdate(w, p, active, admin)
    \/ DeleteAccount
    \/ \E t \in Tokens : Expire(t)

Spec == Init /\ [][Next]_vars

-----------------------------------------------------------------------------
(* Properties. *)

\* At most one reset link works, unless two forgotPassword requests crossed
\* between putting the older tokens out of use and creating their own; the
\* next request that is not crossed repairs that.
OneLiveToken == settled => \A t, s \in Tokens : Fresh(t) /\ Fresh(s) => t = s

\* With requests one at a time, a link sets a password once, and once more for
\* each request lost between writing the password and marking the token.
ResetOnce == book.kept => \A t \in Tokens : book.uses[t] <= 1 + faults

\* With requests one at a time, an account is welcomed at most once, however
\* it came about and however often its verification is synchronised.
WelcomeOnce == book.kept => book.welcomes <= 1

\* An account that signs in with Google has no password of its own unless staff
\* gave it one, whatever its address had before and whatever is in flight.
GoogleHasNoPassword ==
    LET a == user["account"] IN
        (Live("account") /\ a.provider = "GOOGLE" /\ ~a.byStaff) => a.secret = "random"

\* With requests one at a time, every password that a change or a reset has
\* acknowledged signs in until its row is written again: reset and sign-in
\* choose the same row, of the account or of the agency.  Not so for the link of
\* an agency without an account, once an account is made with its address or the
\* agency is deactivated, be it before the reset or after: its password is kept,
\* and signs in again if the account is deleted or the agency activated.
AcknowledgedSignsIn ==
    book.kept /\ book.word # None =>
        \/ SignsIn(book.word)
        \/ /\ book.lone /\ ~Signer("agency")
           /\ user["agency"].secret = book.word
=============================================================================
