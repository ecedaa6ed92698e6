--------------------------- MODULE BookingProofs ---------------------------
(***************************************************************************)
(* Theorems of Booking, for any number of bookings, sessions, cards,       *)
(* handlers and stays, with staff writing any statuses.                    *)
(***************************************************************************)
EXTENDS Booking, TLAPS

-----------------------------------------------------------------------------
(* Type correctness. *)

LEMMA TypeInit == Init => TypeOK
BY BoundsAssumption DEF Init, TypeOK, Blank, Rows, Quiet, Jobs, Places, StripeStates, Statuts

LEMMA BlankIsRow ==
    ASSUME NEW statut \in Statuts \cup {"ABSENT", "DELETED"}
    PROVE  Blank(statut) \in Rows
BY DEF Blank, Rows

LEMMA QuietIsJob == Quiet \in Jobs
BY DEF Quiet, Jobs, Places

\* What the writes of the handlers and of staff make of a row is a row.
LEMMA CheckoutRowType ==
    ASSUME NEW r \in Rows, NEW t \in Tokens \cup {None}
    PROVE  [r EXCEPT !.stripeSessionId = t, !.paymentStatus = "CHECKOUT_PENDING",
                     !.superseded = IF r.paymentDate = "set" THEN "yes" ELSE @] \in Rows
BY DEF Rows

LEMMA CancelRowType ==
    ASSUME NEW r \in Rows
    PROVE  [r EXCEPT !.statut = "ANNULEE"] \in Rows
BY DEF Rows, Statuts

LEMMA StaffRowType ==
    ASSUME NEW r \in Rows, NEW s \in Stays \cup {None}, NEW statut \in Statuts
    PROVE  Patched(r, s, statut) \in Rows
BY DEF Patched, Rows

LEMMA SettledRowType ==
    ASSUME NEW r \in Rows, NEW t \in Tokens \cup {None}, NEW verdict
    PROVE  Settled(r, verdict, t) \in Rows
<1>1. CASE verdict = "confirm"
    BY <1>1 DEF Settled, Rows, Statuts
<1>2. CASE verdict # "confirm"
    BY <1>2 DEF Settled, Rows, Statuts
<1> QED
    BY <1>1, <1>2

\* The fields of a row after a payment, and after an edit by staff.
LEMMA SettledFields ==
    ASSUME NEW r \in Rows, NEW t, NEW verdict
    PROVE  /\ Settled(r, verdict, t).statut \in {"CONFIRMEE", "REFUSEE"}
           /\ Settled(r, verdict, t).stay = r.stay
           /\ Settled(r, verdict, t).editor = r.editor
           /\ Settled(r, verdict, t).superseded = r.superseded
           /\ Settled(r, verdict, t).paymentDate = "set"
           /\ Settled(r, verdict, t).stripePaymentIntentId = t
           /\ Settled(r, verdict, t).stripeSessionId = t
<1>1. CASE verdict = "confirm"
    BY <1>1 DEF Settled, Rows
<1>2. CASE verdict # "confirm"
    BY <1>2 DEF Settled, Rows
<1> QED
    BY <1>1, <1>2

LEMMA PatchedFields ==
    ASSUME NEW r \in Rows, NEW s, NEW statut
    PROVE  /\ Patched(r, s, statut).editor = "staff"
           /\ Patched(r, s, statut).statut = statut
           /\ Patched(r, s, statut).stay = s
           /\ Patched(r, s, statut).paymentDate = r.paymentDate
           /\ Patched(r, s, statut).stripePaymentIntentId = r.stripePaymentIntentId
BY DEF Patched, Rows

LEMMA BookedRowType ==
    ASSUME NEW s \in Stays \cup {None}, NEW pay \in {"PENDING", "PAY_AT_HOTEL"}
    PROVE  [Blank("EN_ATTENTE") EXCEPT !.stay = s, !.paymentStatus = pay] \in Rows
BY DEF Blank, Rows, Statuts

\* What the steps of a handler make of it is a handler.
LEMMA JobTypes ==
    ASSUME NEW b \in Bookings \cup {None}, NEW t \in Tokens \cup {None}, NEW at \in Places
    PROVE  [Quiet EXCEPT !.at = at, !.b = b, !.tok = t] \in Jobs
BY DEF Quiet, Jobs

LEMMA JobStepTypes ==
    ASSUME NEW j \in Jobs, NEW v \in Verdicts
    PROVE  /\ [j EXCEPT !.at = "commit", !.verdict = v] \in Jobs
           /\ [j EXCEPT !.at = "announce"] \in Jobs
           /\ [j EXCEPT !.at = "settle", !.verdict = "none", !.tries = 1] \in Jobs
<1>1. {"commit", "announce", "settle"} \subseteq Places
    BY DEF Places
<1>2. [j EXCEPT !.at = "commit", !.verdict = v] \in Jobs
    BY <1>1 DEF Jobs
<1>3. [j EXCEPT !.at = "announce"] \in Jobs
    BY <1>1 DEF Jobs
<1>4. [j EXCEPT !.at = "settle", !.verdict = "none", !.tries = 1] \in Jobs
    BY <1>1 DEF Jobs
<1> QED
    BY <1>2, <1>3, <1>4

LEMMA JobFields ==
    ASSUME NEW j \in Jobs
    PROVE  /\ j.b \in Bookings \cup {None}
           /\ j.tok \in Tokens \cup {None}
           /\ j.stay \in Stays \cup {None}
           /\ j.pay \in {"PENDING", "PAY_AT_HOTEL"}
BY DEF Jobs

LEMMA VerdictType ==
    ASSUME NEW b, NEW t
    PROVE  Verdict(b, t) \in Verdicts
BY DEF Verdict, Verdicts

\* Staff write one row with a status of the enumeration, given or already there.
LEMMA StaffWrites ==
    Staff => \E b \in Bookings :
        \/ \E s \in Stays, statut \in StaffStatuts : StaffCreate(b, s, statut)
        \/ \E s \in Stays, statut \in Statuts : StaffUpdate(b, s, statut)
        \/ StaffRemove(b)
BY StaffAssumption DEF Staff, StaffUpdate, Live

LEMMA TypeStep == TypeOK /\ [Next]_vars => TypeOK'
<1> SUFFICES ASSUME TypeOK, [Next]_vars PROVE TypeOK'
    OBVIOUS
<1>a. {"book", "checkout", "checkout_save", "charge", "settle", "remove", "cleanup", "cancel"}
         \subseteq Places
    BY DEF Places
<1>b. ASSUME NEW h \in Handlers, Ends(h) PROVE job' \in [Handlers -> Jobs]
    BY <1>b, QuietIsJob DEF Ends, TypeOK
<1>c. ASSUME NEW h \in Handlers, NEW at \in Places, NEW b \in Bookings \cup {None},
             NEW t \in Tokens \cup {None}, Becomes(h, at, b, t)
      PROVE  job' \in [Handlers -> Jobs]
  <2>1. [Quiet EXCEPT !.at = at, !.b = b, !.tok = t] \in Jobs
      BY JobTypes
  <2> QED
      BY <1>c, <2>1 DEF Becomes, TypeOK
<1>d. ASSUME NEW b, NEW row \in Rows, Write(b, row)
      PROVE  reservation' \in [Bookings -> Rows] /\ dirty' \subseteq Handlers
    BY <1>d DEF Write, Readers, TypeOK
<1>e. \A t \in Tokens : stripe[t].b \in Bookings \cup {None}
    BY DEF TypeOK
<1>f. \A h \in Handlers : job[h].b \in Bookings \cup {None} /\ job[h].tok \in Tokens \cup {None}
    BY JobFields DEF TypeOK
<1>1. ASSUME NEW h \in Handlers, NEW s \in Stays, NEW pay \in {"PENDING", "PAY_AT_HOTEL"},
             BookRead(h, s, pay)
      PROVE  TypeOK'
  <2>1. [Quiet EXCEPT !.at = "book", !.stay = s, !.pay = pay] \in Jobs
      BY <1>a DEF Quiet, Jobs
  <2> QED
      BY <1>1, <2>1 DEF BookRead, TypeOK
<1>2. ASSUME NEW h \in Handlers, BookWrite(h) PROVE TypeOK'
  <2>1. PICK b \in Bookings : reservation' = [reservation EXCEPT ![b] =
             [Blank("EN_ATTENTE") EXCEPT !.stay = job[h].stay, !.paymentStatus = job[h].pay]]
      BY <1>2 DEF BookWrite
  <2>2. [Blank("EN_ATTENTE") EXCEPT !.stay = job[h].stay, !.paymentStatus = job[h].pay] \in Rows
      BY BookedRowType, JobFields DEF TypeOK
  <2> QED
      BY <1>2, <2>1, <2>2, <1>b DEF BookWrite, TypeOK
<1>3. ASSUME NEW h \in Handlers, BookFails(h) PROVE TypeOK'
    BY <1>3, <1>b DEF BookFails, TypeOK
<1>4. ASSUME NEW h \in Handlers, NEW b \in Bookings, CheckoutRead(h, b) PROVE TypeOK'
    BY <1>4, <1>a, <1>c DEF CheckoutRead, TypeOK
<1>5. ASSUME NEW h \in Handlers, CheckoutCreate(h) PROVE TypeOK'
  <2>1. PICK t \in Sessions :
            /\ stripe' = [stripe EXCEPT ![t] = [state |-> "drafted", b |-> job[h].b]]
            /\ Becomes(h, "checkout_save", job[h].b, t)
      BY <1>5 DEF CheckoutCreate
  <2>2. job' \in [Handlers -> Jobs]
      BY <2>1, <1>a, <1>c, <1>f DEF Tokens
  <2>3. stripe' \in [Tokens -> [state : StripeStates, b : Bookings \cup {None}]]
      BY <2>1, <1>f DEF TypeOK, StripeStates
  <2> QED
      BY <1>5, <2>2, <2>3 DEF CheckoutCreate, TypeOK
<1>6. ASSUME NEW h \in Handlers, CheckoutSave(h) PROVE TypeOK'
  <2>1. job' \in [Handlers -> Jobs]
      BY <1>6, <1>b DEF CheckoutSave
  <2>2. stripe' \in [Tokens -> [state : StripeStates, b : Bookings \cup {None}]]
      BY <1>6 DEF CheckoutSave, TypeOK, StripeStates
  <2>3. reservation' \in [Bookings -> Rows] /\ dirty' \subseteq Handlers
    <3>1. CASE job[h].b \in Bookings
      <4>1. [reservation[job[h].b] EXCEPT !.stripeSessionId = job[h].tok,
                                          !.paymentStatus = "CHECKOUT_PENDING",
                                          !.superseded = IF Dated(job[h].b) THEN "yes" ELSE @] \in Rows
          BY <3>1, <1>f, CheckoutRowType DEF TypeOK, Dated
      <4> QED
          BY <1>6, <4>1, <1>d DEF CheckoutSave, TypeOK
    <3>2. CASE job[h].b \notin Bookings
        BY <1>6, <3>2 DEF CheckoutSave, Write, Readers, TypeOK
    <3> QED
        BY <3>1, <3>2
  <2> QED
      BY <1>6, <2>1, <2>2, <2>3 DEF CheckoutSave, TypeOK
<1>7. ASSUME NEW h \in Handlers, StripeFails(h) PROVE TypeOK'
    BY <1>7, <1>b DEF StripeFails, TypeOK
<1>8. ASSUME NEW h \in Handlers, NEW b \in Bookings, CardRead(h, b) PROVE TypeOK'
    BY <1>8, <1>a, <1>c DEF CardRead, TypeOK
<1>9. ASSUME NEW h \in Handlers, CardCharge(h) PROVE TypeOK'
  <2>1. PICK t \in Cards :
          \/ /\ stripe' = [stripe EXCEPT ![t] = [state |-> "captured", b |-> job[h].b]]
             /\ Becomes(h, "settle", job[h].b, t)
          \/ /\ stripe' = [stripe EXCEPT ![t] = [state |-> "declined", b |-> job[h].b]]
             /\ Ends(h)
      BY <1>9 DEF CardCharge
  <2>2. job' \in [Handlers -> Jobs]
      BY <2>1, <1>a, <1>b, <1>c, <1>f DEF Tokens
  <2>3. stripe' \in [Tokens -> [state : StripeStates, b : Bookings \cup {None}]]
      BY <2>1, <1>f DEF TypeOK, StripeStates
  <2> QED
      BY <1>9, <2>2, <2>3 DEF CardCharge, TypeOK
<1>10. ASSUME NEW h \in Handlers, NEW t \in Sessions, WebhookCompleted(h, t) PROVE TypeOK'
    BY <1>10, <1>a, <1>c, <1>e DEF WebhookCompleted, Tokens, TypeOK
<1>11. ASSUME NEW h \in Handlers, NEW t \in Sessions, SyncSummary(h, t) PROVE TypeOK'
    BY <1>11, <1>a, <1>c, <1>e DEF SyncSummary, Tokens, TypeOK
<1>12. ASSUME NEW h \in Handlers, SettleRead(h) PROVE TypeOK'
  <2>1. [job[h] EXCEPT !.at = "commit", !.verdict = Verdict(job[h].b, job[h].tok)] \in Jobs
      BY VerdictType, JobStepTypes DEF TypeOK
  <2> QED
      BY <1>12, <2>1 DEF SettleRead, TypeOK
<1>13. ASSUME NEW h \in Handlers, SettleNoChange(h) PROVE TypeOK'
    BY <1>13, <1>b DEF SettleNoChange, TypeOK
<1>14. ASSUME NEW h \in Handlers, SettleCommit(h) PROVE TypeOK'
  <2>1. ASSUME job[h].b \in Bookings
        PROVE  Settled(reservation[job[h].b], job[h].verdict, job[h].tok) \in Rows
      BY <2>1, <1>f, SettledRowType DEF TypeOK
  <2>2. reservation' \in [Bookings -> Rows]
      BY <1>14, <2>1 DEF SettleCommit, TypeOK
  <2>3. dirty' \subseteq Handlers
      BY <1>14 DEF SettleCommit, Rivals, TypeOK
  <2>4. [job[h] EXCEPT !.at = "announce"] \in Jobs
      BY JobStepTypes, VerdictType DEF TypeOK
  <2> QED
      BY <1>14, <2>2, <2>3, <2>4 DEF SettleCommit, TypeOK
<1>15. ASSUME NEW h \in Handlers, SettleAbort(h) PROVE TypeOK'
  <2>1. [job[h] EXCEPT !.at = "settle", !.verdict = "none", !.tries = 1] \in Jobs
      BY JobStepTypes, VerdictType DEF TypeOK
  <2>2. job' \in [Handlers -> Jobs]
      BY <1>15, <2>1, <1>b DEF SettleAbort, TypeOK
  <2> QED
      BY <1>15, <2>2 DEF SettleAbort, TypeOK
<1>16. ASSUME NEW h \in Handlers, Announce(h) PROVE TypeOK'
  <2>1. ASSUME NEW b \in Bookings, receipts[b] < MaxReceipts
        PROVE  receipts[b] + 1 \in 0 .. MaxReceipts
      BY <2>1, BoundsAssumption DEF TypeOK
  <2>2. receipts' \in [Bookings -> 0 .. MaxReceipts]
      BY <1>16, <2>1 DEF Announce, TypeOK
  <2> QED
      BY <1>16, <2>2, <1>b DEF Announce, TypeOK
<1>17. ASSUME NEW h \in Handlers, NEW b \in Bookings, RemoveRead(h, b) PROVE TypeOK'
    BY <1>17, <1>a, <1>c DEF RemoveRead, TypeOK
<1>18. ASSUME NEW h \in Handlers, NEW t \in Sessions, WebhookSessionFailed(h, t) PROVE TypeOK'
    BY <1>18, <1>a, <1>c, <1>e DEF WebhookSessionFailed, Tokens, TypeOK
<1>19. ASSUME NEW h \in Handlers, NEW t \in Cards, WebhookIntentFailed(h, t) PROVE TypeOK'
    BY <1>19, <1>a, <1>c, <1>e DEF WebhookIntentFailed, Tokens, TypeOK
<1>20. ASSUME NEW h \in Handlers, Delete(h) PROVE TypeOK'
    BY <1>20, <1>b, <1>d, BlankIsRow DEF Delete, TypeOK
<1>21. ASSUME NEW h \in Handlers, NEW b \in Bookings, CancelRead(h, b) PROVE TypeOK'
    BY <1>21, <1>a, <1>c DEF CancelRead, TypeOK
<1>22. ASSUME NEW h \in Handlers, CancelWrite(h) PROVE TypeOK'
  <2>1. reservation' \in [Bookings -> Rows] /\ dirty' \subseteq Handlers
    <3>1. CASE job[h].b \in Bookings
      <4>1. [reservation[job[h].b] EXCEPT !.statut = "ANNULEE"] \in Rows
          BY <3>1, CancelRowType DEF TypeOK
      <4> QED
          BY <1>22, <4>1, <1>d DEF CancelWrite, TypeOK
    <3>2. CASE job[h].b \notin Bookings
        BY <1>22, <3>2 DEF CancelWrite, Write, Readers, TypeOK
    <3> QED
        BY <3>1, <3>2
  <2> QED
      BY <1>22, <2>1, <1>b DEF CancelWrite, TypeOK
<1>23. ASSUME Staff PROVE TypeOK'
  <2>1. ASSUME NEW b \in Bookings, NEW s \in Stays, NEW statut \in StaffStatuts,
               StaffCreate(b, s, statut)
        PROVE  TypeOK'
    <3>1. Patched(Blank(statut), s, statut) \in Rows
        BY StaffAssumption, StaffRowType, BlankIsRow
    <3> QED
        BY <2>1, <3>1 DEF StaffCreate, TypeOK
  <2>2. ASSUME NEW b \in Bookings, NEW s \in Stays, NEW statut \in Statuts,
               StaffUpdate(b, s, statut)
        PROVE  TypeOK'
    <3>1. Patched(reservation[b], s, statut) \in Rows
        BY StaffAssumption, StaffRowType DEF TypeOK
    <3> QED
        BY <2>2, <3>1, <1>d DEF StaffUpdate, TypeOK
  <2>3. ASSUME NEW b \in Bookings, StaffRemove(b) PROVE TypeOK'
      BY <2>3, <1>d, BlankIsRow DEF StaffRemove, TypeOK
  <2> QED
      BY <1>23, <2>1, <2>2, <2>3, StaffWrites
<1>24. ASSUME NEW t \in Sessions, PayCheckout(t) PROVE TypeOK'
    BY <1>24 DEF PayCheckout, StripeStates, Tokens, TypeOK
<1>25. ASSUME NEW t \in Sessions, ResolveDelayed(t) PROVE TypeOK'
    BY <1>25 DEF ResolveDelayed, StripeStates, Tokens, TypeOK
<1>26. ASSUME NextDay PROVE TypeOK'
    BY <1>26, BoundsAssumption DEF NextDay, TypeOK
<1>27. ASSUME NEW h \in Handlers, Lose(h) PROVE TypeOK'
    BY <1>27, <1>b, BoundsAssumption DEF Lose, TypeOK
<1>28. ASSUME UNCHANGED vars PROVE TypeOK'
    BY <1>28 DEF vars, TypeOK
<1> QED
    BY <1>1, <1>2, <1>3, <1>4, <1>5, <1>6, <1>7, <1>8, <1>9, <1>10, <1>11, <1>12, <1>13,
       <1>14, <1>15, <1>16, <1>17, <1>18, <1>19, <1>20, <1>21, <1>22, <1>23, <1>24, <1>25,
       <1>26, <1>27, <1>28
    DEF Next, Customer, Webhook, Continue, Finalize

\* Every variable keeps the type TypeOK gives it.
THEOREM TypeCorrect == Spec => []TypeOK
<1>1. Init => TypeOK
    BY TypeInit
<1>2. TypeOK /\ [Next]_vars => TypeOK'
    BY TypeStep
<1> QED
    BY <1>1, <1>2, PTL DEF Spec

-----------------------------------------------------------------------------
(* What handlers hold on to.                                                *)

LEMMA BindingsInit == Init => Bindings
BY TokensAssumption DEF Init, Bindings, Quiet, Tokens

\* A handler that stops, or moves on without having made anything at Stripe.
LEMMA BindingsMove ==
    ASSUME TypeOK, Bindings, UNCHANGED stripe, NEW h \in Handlers,
           \A k \in Handlers \ {h} : job'[k] = job[k],
           job'[h].at # "checkout_save",
           job'[h].at \notin {"idle", "book"} => job'[h].b \in Bookings,
           job'[h].at \in {"settle", "commit", "announce"} =>
              /\ job'[h].tok \in Tokens
              /\ stripe[job'[h].tok].b = job'[h].b
              /\ stripe[job'[h].tok].state \in {"processing", "captured", "failed"}
    PROVE  Bindings'
BY DEF Bindings

LEMMA EndsMoves ==
    ASSUME TypeOK, NEW h \in Handlers, Ends(h)
    PROVE  /\ job'[h] = Quiet /\ job'[h].at = "idle"
           /\ \A k \in Handlers \ {h} : job'[k] = job[k]
BY DEF Ends, TypeOK, Quiet

LEMMA BecomesMoves ==
    ASSUME TypeOK, NEW h \in Handlers, NEW at, NEW b, NEW t, Becomes(h, at, b, t)
    PROVE  /\ job'[h].at = at /\ job'[h].b = b /\ job'[h].tok = t
           /\ \A k \in Handlers \ {h} : job'[k] = job[k]
BY DEF Becomes, TypeOK, Quiet

\* The Stripe object of a handler exists, and is a draft in one place only.
LEMMA BoundTokens ==
    ASSUME Bindings, NEW k \in Handlers,
           job[k].at \in {"settle", "commit", "announce", "checkout_save"}
    PROVE  /\ job[k].tok \in Tokens
           /\ stripe[job[k].tok].state # "none"
           /\ stripe[job[k].tok].state = "drafted" => job[k].at = "checkout_save"
<1>1. CASE job[k].at = "checkout_save"
  <2>1. job[k].tok \in Sessions /\ stripe[job[k].tok] = [state |-> "drafted", b |-> job[k].b]
      BY <1>1 DEF Bindings
  <2> QED
      BY <1>1, <2>1 DEF Tokens
<1>2. CASE job[k].at # "checkout_save"
  <2>1. /\ job[k].tok \in Tokens
        /\ stripe[job[k].tok].state \in {"processing", "captured", "failed"}
      BY <1>2 DEF Bindings
  <2> QED
      BY <2>1
<1> QED
    BY <1>1, <1>2

LEMMA BindingsStep == TypeOK /\ Bindings /\ [Next]_vars => Bindings'
<1> SUFFICES ASSUME TypeOK, Bindings, [Next]_vars PROVE Bindings'
    OBVIOUS
<1>a. ASSUME NEW h \in Handlers, Ends(h), UNCHANGED stripe PROVE Bindings'
    BY <1>a, EndsMoves, BindingsMove
<1>b. ASSUME NEW h \in Handlers, NEW at \in {"checkout", "charge", "remove", "cleanup", "cancel"},
             NEW b \in Bookings, NEW t, Becomes(h, at, b, t), UNCHANGED stripe
      PROVE  Bindings'
    BY <1>b, BecomesMoves, BindingsMove
<1>c. ASSUME NEW h \in Handlers, NEW t \in Tokens, Becomes(h, "settle", stripe[t].b, t),
             stripe[t].state \in {"processing", "captured", "failed"}, UNCHANGED stripe
      PROVE  Bindings'
  <2>1. stripe[t].b \in Bookings
      BY <1>c DEF Bindings
  <2> QED
      BY <1>c, <2>1, BecomesMoves, BindingsMove
<1>d. ASSUME NEW h \in Handlers, job[h].at = "commit" \/ job[h].at = "settle",
             job'[h].at \in {"settle", "commit", "announce"},
             job'[h].b = job[h].b, job'[h].tok = job[h].tok,
             \A k \in Handlers \ {h} : job'[k] = job[k], UNCHANGED stripe
      PROVE  Bindings'
  <2>1. /\ job[h].b \in Bookings
        /\ job[h].tok \in Tokens
        /\ stripe[job[h].tok].b = job[h].b
        /\ stripe[job[h].tok].state \in {"processing", "captured", "failed"}
      BY <1>d DEF Bindings
  <2> QED
      BY <1>d, <2>1, BindingsMove
<1>e. ASSUME UNCHANGED <<stripe, job>> PROVE Bindings'
    BY <1>e DEF Bindings
\* A step that only changes the state of t, which no handler is settling.
<1>f. ASSUME NEW t \in Tokens, NEW state, stripe[t].state \notin {"none", "captured", "failed", "drafted"},
             stripe' = [stripe EXCEPT ![t].state = state],
             state \in {"processing", "captured", "failed"},
             state \in {"processing", "failed"} => AsyncMethods, UNCHANGED job
      PROVE  Bindings'
  <2>1. /\ stripe'[t].state = state /\ stripe'[t].b = stripe[t].b
        /\ \A u \in Tokens \ {t} : stripe'[u] = stripe[u]
      BY <1>f DEF TypeOK
  <2> QED
      BY <1>f, <2>1 DEF Bindings
<1>1. ASSUME NEW h \in Handlers, NEW s \in Stays, NEW pay \in {"PENDING", "PAY_AT_HOTEL"},
             BookRead(h, s, pay)
      PROVE  Bindings'
  <2>1. job'[h].at = "book" /\ \A k \in Handlers \ {h} : job'[k] = job[k]
      BY <1>1 DEF BookRead, Quiet, TypeOK
  <2> QED
      BY <1>1, <2>1, BindingsMove DEF BookRead
<1>2. ASSUME NEW h \in Handlers, CheckoutCreate(h) PROVE Bindings'
  <2>1. PICK t \in Sessions :
            /\ stripe[t].state = "none"
            /\ stripe' = [stripe EXCEPT ![t] = [state |-> "drafted", b |-> job[h].b]]
            /\ Becomes(h, "checkout_save", job[h].b, t)
      BY <1>2 DEF CheckoutCreate
  <2>2. /\ t \in Tokens
        /\ stripe'[t] = [state |-> "drafted", b |-> job[h].b]
        /\ stripe'[t].state = "drafted" /\ stripe'[t].b = job[h].b
        /\ \A u \in Tokens \ {t} : stripe'[u] = stripe[u]
      BY <2>1 DEF TypeOK, Tokens
  <2>3. job[h].b \in Bookings
      BY <1>2 DEF CheckoutCreate, Bindings
  <2>4. /\ job'[h].at = "checkout_save" /\ job'[h].b = job[h].b /\ job'[h].tok = t
        /\ \A k \in Handlers \ {h} : job'[k] = job[k]
      BY <2>1, BecomesMoves
  <2>5. \A k \in Handlers \ {h} :
          job[k].at \in {"settle", "commit", "announce", "checkout_save"} =>
              job[k].tok \in Tokens \ {t}
      BY <2>1, BoundTokens
  <2> QED
      BY <2>1, <2>2, <2>3, <2>4, <2>5 DEF Bindings
<1>3. ASSUME NEW h \in Handlers, CheckoutSave(h) PROVE Bindings'
  <2> DEFINE t == job[h].tok
  <2>1. CASE Live(job[h].b)
    <3>1. t \in Sessions /\ t \in Tokens /\ stripe[t] = [state |-> "drafted", b |-> job[h].b]
          /\ job[h].b \in Bookings
        BY <1>3 DEF CheckoutSave, Bindings, Tokens
    <3>2. /\ stripe'[t].state = "open" /\ stripe'[t].b = job[h].b
          /\ \A u \in Tokens \ {t} : stripe'[u] = stripe[u]
        BY <1>3, <2>1, <3>1 DEF CheckoutSave, TypeOK
    <3>3. \A k \in Handlers \ {h} :
            job[k].at \in {"settle", "commit", "announce", "checkout_save"} =>
                job[k].tok \in Tokens \ {t}
      <4>1. ASSUME NEW k \in Handlers \ {h}, job[k].at = "checkout_save"
            PROVE  job[k].tok # t
          BY <1>3, <4>1 DEF CheckoutSave, Bindings
      <4> QED
          BY <3>1, <4>1, BoundTokens
    <3>4. job'[h].at = "idle" /\ \A k \in Handlers \ {h} : job'[k] = job[k]
        BY <1>3, EndsMoves DEF CheckoutSave
    <3> QED
        BY <3>1, <3>2, <3>3, <3>4 DEF Bindings
  <2>2. CASE ~Live(job[h].b)
      BY <1>3, <2>2, <1>a DEF CheckoutSave
  <2> QED
      BY <2>1, <2>2
<1>4. ASSUME NEW h \in Handlers, CardCharge(h) PROVE Bindings'
  <2>1. PICK t \in Cards :
          /\ stripe[t].state = "none"
          /\ \/ /\ stripe' = [stripe EXCEPT ![t] = [state |-> "captured", b |-> job[h].b]]
                /\ Becomes(h, "settle", job[h].b, t)
             \/ /\ stripe' = [stripe EXCEPT ![t] = [state |-> "declined", b |-> job[h].b]]
                /\ Ends(h)
      BY <1>4 DEF CardCharge
  <2>2. job[h].b \in Bookings /\ t \in Tokens
      BY <1>4 DEF CardCharge, Bindings, Tokens
  <2>3. \A k \in Handlers \ {h} :
          job[k].at \in {"settle", "commit", "announce", "checkout_save"} =>
              job[k].tok \in Tokens \ {t}
      BY <2>1, BoundTokens
  <2>4. CASE stripe' = [stripe EXCEPT ![t] = [state |-> "captured", b |-> job[h].b]]
             /\ Becomes(h, "settle", job[h].b, t)
    <3>1. /\ stripe'[t].state = "captured" /\ stripe'[t].b = job[h].b
          /\ \A u \in Tokens \ {t} : stripe'[u] = stripe[u]
        BY <2>2, <2>4 DEF TypeOK
    <3>2. /\ job'[h].at = "settle" /\ job'[h].b = job[h].b /\ job'[h].tok = t
          /\ \A k \in Handlers \ {h} : job'[k] = job[k]
        BY <2>4, BecomesMoves
    <3> QED
        BY <2>2, <2>3, <3>1, <3>2 DEF Bindings
  <2>5. CASE stripe' = [stripe EXCEPT ![t] = [state |-> "declined", b |-> job[h].b]]
             /\ Ends(h)
    <3>1. /\ stripe'[t].state = "declined" /\ stripe'[t].b = job[h].b
          /\ \A u \in Tokens \ {t} : stripe'[u] = stripe[u]
        BY <2>2, <2>5 DEF TypeOK
    <3>2. job'[h].at = "idle" /\ \A k \in Handlers \ {h} : job'[k] = job[k]
        BY <2>5, EndsMoves
    <3> QED
        BY <2>2, <2>3, <3>1, <3>2 DEF Bindings
  <2> QED
      BY <2>1, <2>4, <2>5
<1>5. ASSUME NEW h \in Handlers, NEW t \in Sessions,
             WebhookCompleted(h, t) \/ SyncSummary(h, t)
      PROVE  Bindings'
    BY <1>5, <1>c DEF WebhookCompleted, SyncSummary, Tokens
<1>6. ASSUME NEW h \in Handlers, NEW b \in Bookings,
             CheckoutRead(h, b) \/ CardRead(h, b) \/ RemoveRead(h, b) \/ CancelRead(h, b)
      PROVE  Bindings'
    BY <1>6, <1>b DEF CheckoutRead, CardRead, RemoveRead, CancelRead
<1>7. ASSUME NEW h \in Handlers, SettleRead(h) PROVE Bindings'
  <2>1. /\ job[h].at = "settle" /\ job'[h].at = "commit"
        /\ job'[h].b = job[h].b /\ job'[h].tok = job[h].tok
        /\ \A k \in Handlers \ {h} : job'[k] = job[k]
      BY <1>7 DEF SettleRead, TypeOK, Jobs
  <2> QED
      BY <1>7, <2>1, <1>d DEF SettleRead
<1>8. ASSUME NEW h \in Handlers, SettleCommit(h) PROVE Bindings'
  <2>1. /\ job[h].at = "commit" /\ job'[h].at = "announce"
        /\ job'[h].b = job[h].b /\ job'[h].tok = job[h].tok
        /\ \A k \in Handlers \ {h} : job'[k] = job[k]
      BY <1>8 DEF SettleCommit, TypeOK, Jobs
  <2> QED
      BY <1>8, <2>1, <1>d DEF SettleCommit
<1>9. ASSUME NEW h \in Handlers, SettleAbort(h) PROVE Bindings'
  <2>1. CASE job[h].tok \in Sessions /\ job[h].tries = 0
    <3>1. /\ job[h].at = "commit" /\ job'[h].at = "settle"
          /\ job'[h].b = job[h].b /\ job'[h].tok = job[h].tok
          /\ \A k \in Handlers \ {h} : job'[k] = job[k]
        BY <1>9, <2>1 DEF SettleAbort, TypeOK, Jobs
    <3> QED
        BY <1>9, <3>1, <1>d DEF SettleAbort
  <2>2. CASE ~(job[h].tok \in Sessions /\ job[h].tries = 0)
      BY <1>9, <2>2, <1>a DEF SettleAbort
  <2> QED
      BY <2>1, <2>2
<1>10. ASSUME NEW h \in Handlers,
              \/ BookWrite(h) \/ BookFails(h) \/ StripeFails(h) \/ SettleNoChange(h)
              \/ Announce(h) \/ Delete(h) \/ CancelWrite(h) \/ Lose(h)
       PROVE  Bindings'
    BY <1>10, <1>a
       DEF BookWrite, BookFails, StripeFails, SettleNoChange, Announce, Delete, CancelWrite, Lose
<1>11. ASSUME NEW h \in Handlers, NEW t \in Tokens,
              WebhookSessionFailed(h, t) \/ WebhookIntentFailed(h, t)
       PROVE  Bindings'
  <2>1. stripe[t].state # "none" /\ stripe[t].b \in Bookings
      BY <1>11 DEF WebhookSessionFailed, WebhookIntentFailed, Bindings
  <2> QED
      BY <1>11, <2>1, <1>b DEF WebhookSessionFailed, WebhookIntentFailed
<1>12. ASSUME NEW t \in Sessions, PayCheckout(t) PROVE Bindings'
  <2>1. PICK outcome \in {"captured"} \cup (IF AsyncMethods THEN {"processing"} ELSE {}) :
            stripe' = [stripe EXCEPT ![t].state = outcome]
      BY <1>12 DEF PayCheckout
  <2> QED
      BY <1>12, <2>1, <1>f DEF PayCheckout, Tokens
<1>13. ASSUME NEW t \in Sessions, ResolveDelayed(t) PROVE Bindings'
  <2>1. PICK outcome \in {"captured", "failed"} : stripe' = [stripe EXCEPT ![t].state = outcome]
      BY <1>13 DEF ResolveDelayed
  <2>2. AsyncMethods /\ t \in Tokens
      BY <1>13 DEF ResolveDelayed, Bindings, Tokens
  <2> QED
      BY <1>13, <2>1, <2>2, <1>f DEF ResolveDelayed
<1>14. ASSUME Staff \/ NextDay \/ UNCHANGED vars PROVE Bindings'
    BY <1>14, <1>e DEF Staff, StaffCreate, StaffUpdate, StaffRemove, NextDay, vars
<1> QED
    BY <1>1, <1>2, <1>3, <1>4, <1>5, <1>6, <1>7, <1>8, <1>9, <1>10, <1>11, <1>12, <1>13, <1>14
    DEF Next, Customer, Webhook, Continue, Finalize, Tokens

-----------------------------------------------------------------------------
(* No double booking.  The invariant alone is not inductive: what keeps it  *)
(* is what an unmarked open transaction may rely on (SnapshotHolds).        *)

Isolation == SnapshotHolds /\ NoDoubleBooking

\* Overlap is symmetric.
LEMMA ClashSymmetric == \A s, t : Clash(s, t) <=> Clash(t, s)
BY DEF Clash

\* A step that opens no transaction, holds no new booking, and marks the open
\* transactions whose row it writes, keeps Isolation.
LEMMA CalmStep ==
    ASSUME Bindings, Isolation,
           \A k \in Handlers : job'[k].at = "commit" =>
              /\ job'[k] = job[k]
              /\ k \notin dirty' => k \notin dirty
              /\ k \notin dirty' /\ Live(job[k].b) =>
                    reservation'[job[k].b] = reservation[job[k].b],
           \A c \in Bookings : Held(c)' =>
              Held(c) /\ reservation'[c].stay = reservation[c].stay
    PROVE  Isolation'
<1>1. NoDoubleBooking'
    BY DEF Isolation, NoDoubleBooking
<1>2. ASSUME NEW h \in Handlers, job'[h].at = "commit",
             job'[h].verdict \in {"confirm", "refuse"}, h \notin dirty'
      PROVE  LET b == job'[h].b
             IN  /\ reservation'[b].statut \in Statuts \ ClosedStatuses
                 /\ job'[h].verdict = "confirm" =>
                       \A c \in Bookings \ {b} :
                           Held(c)' => ~Clash(reservation'[b].stay, reservation'[c].stay)
  <2>1. job[h].at = "commit" /\ job'[h] = job[h] /\ h \notin dirty
      BY <1>2
  <2>2. reservation[job[h].b].statut \in Statuts \ ClosedStatuses
      BY <1>2, <2>1 DEF Isolation, SnapshotHolds
  <2>3. reservation'[job[h].b] = reservation[job[h].b]
      BY <1>2, <2>1, <2>2 DEF Live
  <2> QED
      BY <1>2, <2>1, <2>2, <2>3 DEF Isolation, SnapshotHolds
<1>3. SnapshotHolds'
    BY <1>2 DEF SnapshotHolds
<1> QED
    BY <1>1, <1>3 DEF Isolation

\* A step that writes no row and at most ends a transaction.
LEMMA NoWriteStep ==
    ASSUME Bindings, Isolation, UNCHANGED reservation,
           \A k \in Handlers : job'[k].at = "commit" =>
              job'[k] = job[k] /\ (k \in dirty => k \in dirty')
    PROVE  Isolation'
BY CalmStep DEF Held, ByStaff

\* A statement outside the transactions that confirms nothing.
LEMMA WriteStep ==
    ASSUME TypeOK, Bindings, Isolation, NEW b \in Bookings, NEW row \in Rows, Write(b, row),
           row.statut = "CONFIRMEE" /\ row.editor # "staff" => Held(b) /\ row.stay = reservation[b].stay,
           \A k \in Handlers : job'[k].at = "commit" => job'[k] = job[k]
    PROVE  Isolation'
<1>1. /\ reservation'[b] = row
      /\ \A c \in Bookings \ {b} : reservation'[c] = reservation[c]
    BY DEF Write, TypeOK
<1>2. ASSUME NEW k \in Handlers, job'[k].at = "commit", k \notin dirty'
      PROVE  k \notin dirty /\ job[k].b # b
    BY <1>2 DEF Write, Readers
<1>3. ASSUME NEW k \in Handlers, job'[k].at = "commit", k \notin dirty'
      PROVE  reservation'[job[k].b] = reservation[job[k].b]
    BY <1>1, <1>2, <1>3 DEF Bindings
<1>4. ASSUME NEW c \in Bookings, Held(c)'
      PROVE  Held(c) /\ reservation'[c].stay = reservation[c].stay
    BY <1>1, <1>4 DEF Held, ByStaff
<1> QED
    BY <1>2, <1>3, <1>4, CalmStep

\* A new row that is not confirmed by payment.
LEMMA InsertStep ==
    ASSUME TypeOK, Bindings, Isolation, NEW b \in Bookings, Absent(b), NEW row \in Rows,
           reservation' = [reservation EXCEPT ![b] = row],
           row.statut # "CONFIRMEE" \/ row.editor = "staff", UNCHANGED dirty,
           \A k \in Handlers : job'[k].at = "commit" => job'[k] = job[k]
    PROVE  Isolation'
<1>1. /\ reservation'[b] = row
      /\ \A c \in Bookings \ {b} : reservation'[c] = reservation[c]
    BY DEF TypeOK
<1>2. ASSUME NEW k \in Handlers, job'[k].at = "commit", Live(job[k].b)
      PROVE  reservation'[job[k].b] = reservation[job[k].b]
  <2>1. job[k].b # b
      BY <1>2 DEF Live, Absent, Statuts
  <2> QED
      BY <1>1, <1>2, <2>1 DEF Bindings
<1>3. ASSUME NEW c \in Bookings, Held(c)'
      PROVE  Held(c) /\ reservation'[c].stay = reservation[c].stay
    BY <1>1, <1>3 DEF Held, ByStaff
<1> QED
    BY <1>2, <1>3, CalmStep

\* The snapshot is taken and the verdict formed.
LEMMA SettleReadStep ==
    ASSUME TypeOK, Bindings, Isolation, NEW h \in Handlers, SettleRead(h)
    PROVE  Isolation'
<1> DEFINE b == job[h].b
           t == job[h].tok
<1>1. /\ job'[h].b = b /\ job'[h].at = "commit" /\ job'[h].verdict = Verdict(b, t)
      /\ \A k \in Handlers \ {h} : job'[k] = job[k]
      /\ UNCHANGED reservation
    BY DEF SettleRead, TypeOK, Jobs
<1>2. ASSUME Verdict(b, t) \in {"confirm", "refuse"}
      PROVE  reservation[b].statut \in Statuts \ ClosedStatuses
    BY <1>2 DEF Verdict, Live
<1>3. ASSUME Verdict(b, t) = "confirm"
      PROVE  ~Taken(reservation[b].stay, OccupyingStatuses, {b})
    BY <1>3 DEF Verdict
<1>4. ASSUME Verdict(b, t) = "confirm", NEW c \in Bookings \ {b}, Held(c)
      PROVE  ~Clash(reservation[b].stay, reservation[c].stay)
    BY <1>3, <1>4 DEF Taken, Held, ByStaff, OccupyingStatuses
<1>5. NoDoubleBooking'
    BY <1>1 DEF NoDoubleBooking, Held, ByStaff, Isolation
<1>6. \A k \in Handlers \ {h} : k \notin dirty' => k \notin dirty
    BY DEF SettleRead
<1>7. SnapshotHolds'
    BY <1>1, <1>2, <1>4, <1>6 DEF SnapshotHolds, Isolation, Held, ByStaff
<1> QED
    BY <1>5, <1>7 DEF Isolation

\* The commit: its own verdict still holds, and whoever read its row is marked.
LEMMA SettleCommitStep ==
    ASSUME TypeOK, Bindings, Isolation, NEW h \in Handlers, SettleCommit(h)
    PROVE  Isolation'
<1> DEFINE b == job[h].b
           row == Settled(reservation[b], job[h].verdict, job[h].tok)
<1>1. /\ b \in Bookings /\ reservation[b] \in Rows
      /\ job[h].verdict \in {"confirm", "refuse"}
      /\ reservation[b].statut \in Statuts \ ClosedStatuses
      /\ job[h].verdict = "confirm" =>
            \A c \in Bookings \ {b} :
                Held(c) => ~Clash(reservation[b].stay, reservation[c].stay)
    BY DEF SettleCommit, Bindings, Isolation, SnapshotHolds, TypeOK
<1>2. /\ row.stay = reservation[b].stay /\ row.editor = reservation[b].editor
      /\ row.statut = IF job[h].verdict = "confirm" THEN "CONFIRMEE" ELSE "REFUSEE"
    BY <1>1 DEF Settled, Rows
<1>3. /\ reservation'[b] = row
      /\ \A c \in Bookings \ {b} : reservation'[c] = reservation[c]
    BY <1>1 DEF SettleCommit, TypeOK
<1>4. /\ job'[h].at # "commit"
      /\ \A k \in Handlers \ {h} : job'[k] = job[k]
      /\ dirty \cup Rivals(h) \subseteq dirty'
    BY DEF SettleCommit, TypeOK, Jobs
<1>5. \A c \in Bookings : reservation'[c].stay = reservation[c].stay
    BY <1>2, <1>3
<1>6. NoDoubleBooking'
  <2> SUFFICES ASSUME NEW c \in Bookings, NEW d \in Bookings, c # d, Held(c)', Held(d)'
               PROVE  ~Clash(reservation[c].stay, reservation[d].stay)
      BY <1>5 DEF NoDoubleBooking
  <2>1. CASE c = b
    <3>1. job[h].verdict = "confirm" /\ Held(d)
        BY <2>1, <1>2, <1>3 DEF Held, ByStaff
    <3> QED
        BY <2>1, <3>1, <1>1
  <2>2. CASE d = b
    <3>1. job[h].verdict = "confirm" /\ Held(c)
        BY <2>2, <1>2, <1>3 DEF Held, ByStaff
    <3> QED
        BY <2>2, <3>1, <1>1, ClashSymmetric
  <2>3. CASE c # b /\ d # b
      BY <2>3, <1>3 DEF Held, ByStaff, Isolation, NoDoubleBooking
  <2> QED
      BY <2>1, <2>2, <2>3
<1>7. ASSUME NEW k \in Handlers, job'[k].at = "commit",
             job'[k].verdict \in {"confirm", "refuse"}, k \notin dirty'
      PROVE  /\ reservation'[job'[k].b].statut \in Statuts \ ClosedStatuses
             /\ job'[k].verdict = "confirm" =>
                   \A c \in Bookings \ {job'[k].b} :
                       Held(c)' => ~Clash(reservation'[job'[k].b].stay, reservation'[c].stay)
  <2> DEFINE d == job[k].b
  <2>1. /\ k # h /\ job'[k] = job[k] /\ job[k].at = "commit" /\ k \notin dirty
        /\ k \notin Rivals(h)
      BY <1>7, <1>4
  <2>2. d \in Bookings
      BY <2>1 DEF Bindings
  <2>3. /\ reservation[d].statut \in Statuts \ ClosedStatuses
        /\ job[k].verdict = "confirm" =>
              \A c \in Bookings \ {d} :
                  Held(c) => ~Clash(reservation[d].stay, reservation[c].stay)
      BY <1>7, <2>1 DEF Isolation, SnapshotHolds
  <2>4. d # b /\ ~Clash(reservation[d].stay, reservation[b].stay)
      BY <2>1, <2>3 DEF Rivals, Live
  <2>5. reservation'[d] = reservation[d]
      BY <2>2, <2>4, <1>3
  <2>6. ASSUME job[k].verdict = "confirm", NEW c \in Bookings \ {d}, Held(c)'
        PROVE  ~Clash(reservation'[d].stay, reservation'[c].stay)
    <3>1. CASE c = b
        BY <3>1, <2>4, <1>5, <2>2
    <3>2. CASE c # b
      <4>1. Held(c)
          BY <3>2, <2>6, <1>3 DEF Held, ByStaff
      <4> QED
          BY <4>1, <2>3, <2>6, <1>5, <2>2
    <3> QED
        BY <3>1, <3>2
  <2> QED
      BY <2>1, <2>3, <2>5, <2>6
<1>8. SnapshotHolds'
    BY <1>7 DEF SnapshotHolds
<1> QED
    BY <1>6, <1>8 DEF Isolation

LEMMA IsolationInit == Init => Isolation
BY DEF Init, Isolation, SnapshotHolds, NoDoubleBooking, Held, ByStaff, Blank, Quiet

LEMMA IsolationStep == TypeOK /\ Bindings /\ Isolation /\ [Next]_vars => Isolation'
<1> SUFFICES ASSUME TypeOK, Bindings, Isolation, [Next]_vars PROVE Isolation'
    OBVIOUS
<1>a. ASSUME NEW h \in Handlers, job'[h].at # "commit",
             \A k \in Handlers \ {h} : job'[k] = job[k],
             UNCHANGED reservation, dirty' = dirty \/ dirty' = dirty \ {h}
      PROVE  Isolation'
    BY <1>a, NoWriteStep
<1>b. ASSUME NEW h \in Handlers, Ends(h), UNCHANGED reservation,
             dirty' = dirty \/ dirty' = dirty \ {h}
      PROVE  Isolation'
    BY <1>b, <1>a, EndsMoves
<1>c. ASSUME NEW h \in Handlers, NEW at, NEW b, NEW t, at # "commit", Becomes(h, at, b, t),
             UNCHANGED <<reservation, dirty>>
      PROVE  Isolation'
    BY <1>c, <1>a, BecomesMoves
<1>d. ASSUME NEW h \in Handlers, Ends(h)
      PROVE  \A k \in Handlers : job'[k].at = "commit" => job'[k] = job[k]
    BY <1>d, EndsMoves
<1>1. ASSUME NEW h \in Handlers, NEW s \in Stays, NEW pay \in {"PENDING", "PAY_AT_HOTEL"},
             BookRead(h, s, pay)
      PROVE  Isolation'
  <2>1. job'[h].at = "book" /\ \A k \in Handlers \ {h} : job'[k] = job[k]
      BY <1>1 DEF BookRead, Quiet, TypeOK
  <2> QED
      BY <1>1, <2>1, <1>a DEF BookRead
<1>2. ASSUME NEW h \in Handlers, BookWrite(h) PROVE Isolation'
  <2> DEFINE row == [Blank("EN_ATTENTE") EXCEPT !.stay = job[h].stay, !.paymentStatus = job[h].pay]
  <2>1. PICK b \in Bookings : Absent(b) /\ reservation' = [reservation EXCEPT ![b] = row]
      BY <1>2 DEF BookWrite
  <2>2. row \in Rows /\ row.statut = "EN_ATTENTE"
    <3>1. row \in Rows
        BY BookedRowType, JobFields DEF TypeOK
    <3> QED
        BY <3>1 DEF Blank
  <2>3. row.statut # "CONFIRMEE" \/ row.editor = "staff"
      BY <2>2
  <2>4. Ends(h) /\ UNCHANGED dirty
      BY <1>2 DEF BookWrite
  <2> HIDE DEF row
  <2> QED
      BY <2>1, <2>2, <2>3, <2>4, <1>d, InsertStep
<1>3. ASSUME NEW h \in Handlers, BookFails(h) \/ StripeFails(h) \/ SettleNoChange(h)
                                 \/ Announce(h) \/ Lose(h)
      PROVE  Isolation'
    BY <1>3, <1>b DEF BookFails, StripeFails, SettleNoChange, Announce, Lose
<1>4. ASSUME NEW h \in Handlers, NEW b \in Bookings,
             CheckoutRead(h, b) \/ CardRead(h, b) \/ RemoveRead(h, b) \/ CancelRead(h, b)
      PROVE  Isolation'
    BY <1>4, <1>c DEF CheckoutRead, CardRead, RemoveRead, CancelRead
<1>5. ASSUME NEW h \in Handlers, CheckoutCreate(h) \/ CardCharge(h) PROVE Isolation'
    BY <1>5, <1>b, <1>c DEF CheckoutCreate, CardCharge
<1>6. ASSUME NEW h \in Handlers, CheckoutSave(h) PROVE Isolation'
  <2> DEFINE b == job[h].b
             row == [reservation[b] EXCEPT !.stripeSessionId = job[h].tok,
                                           !.paymentStatus = "CHECKOUT_PENDING",
                                           !.superseded = IF Dated(b) THEN "yes" ELSE @]
  <2>1. CASE Live(b)
    <3>1. b \in Bookings /\ reservation[b] \in Rows /\ job[h].tok \in Tokens \cup {None}
        BY <1>6, JobFields DEF CheckoutSave, Bindings, TypeOK
    <3>2. row \in Rows
        BY <3>1, CheckoutRowType DEF Dated
    <3>3. row.statut = reservation[b].statut /\ row.stay = reservation[b].stay
          /\ row.editor = reservation[b].editor
        BY <3>1 DEF Rows
    <3>4. Write(b, row) /\ Ends(h)
        BY <1>6, <2>1 DEF CheckoutSave
    <3>5. row.statut = "CONFIRMEE" /\ row.editor # "staff" => Held(b) /\ row.stay = reservation[b].stay
        BY <3>3 DEF Held, ByStaff
    <3> HIDE DEF row
    <3> QED
        BY <3>1, <3>2, <3>4, <3>5, <1>d, WriteStep
  <2>2. CASE ~Live(b)
      BY <1>6, <2>2, <1>b DEF CheckoutSave
  <2> QED
      BY <2>1, <2>2
<1>7. ASSUME NEW h \in Handlers, NEW t \in Tokens,
             \/ WebhookCompleted(h, t) \/ SyncSummary(h, t)
             \/ WebhookSessionFailed(h, t) \/ WebhookIntentFailed(h, t)
      PROVE  Isolation'
    BY <1>7, <1>c DEF WebhookCompleted, SyncSummary, WebhookSessionFailed, WebhookIntentFailed
<1>8. ASSUME NEW h \in Handlers, SettleRead(h) PROVE Isolation'
    BY <1>8, SettleReadStep
<1>9. ASSUME NEW h \in Handlers, SettleCommit(h) PROVE Isolation'
    BY <1>9, SettleCommitStep
<1>10. ASSUME NEW h \in Handlers, SettleAbort(h) PROVE Isolation'
  <2>1. CASE job[h].tok \in Sessions /\ job[h].tries = 0
    <3>1. job'[h].at = "settle" /\ \A k \in Handlers \ {h} : job'[k] = job[k]
        BY <1>10, <2>1 DEF SettleAbort, TypeOK, Jobs
    <3> QED
        BY <1>10, <3>1, <1>a DEF SettleAbort
  <2>2. CASE ~(job[h].tok \in Sessions /\ job[h].tries = 0)
      BY <1>10, <2>2, <1>b DEF SettleAbort
  <2> QED
      BY <2>1, <2>2
<1>11. ASSUME NEW h \in Handlers, Delete(h) PROVE Isolation'
  <2>1. CASE Live(job[h].b)
    <3>1. job[h].b \in Bookings /\ Write(job[h].b, Blank("DELETED")) /\ Ends(h)
        BY <1>11, <2>1 DEF Delete, Bindings
    <3>2. Blank("DELETED") \in Rows /\ Blank("DELETED").statut # "CONFIRMEE"
        BY BlankIsRow DEF Blank
    <3> QED
        BY <3>1, <3>2, <1>d, WriteStep
  <2>2. CASE ~Live(job[h].b)
      BY <1>11, <2>2, <1>b DEF Delete
  <2> QED
      BY <2>1, <2>2
<1>12. ASSUME NEW h \in Handlers, CancelWrite(h) PROVE Isolation'
  <2> DEFINE b == job[h].b
             row == [reservation[b] EXCEPT !.statut = "ANNULEE"]
  <2>1. CASE Live(b)
    <3>1. b \in Bookings /\ reservation[b] \in Rows
        BY <1>12 DEF CancelWrite, Bindings, TypeOK
    <3>2. row \in Rows /\ row.statut = "ANNULEE"
        BY <3>1, CancelRowType DEF Rows
    <3>3. Write(b, row) /\ Ends(h)
        BY <1>12, <2>1 DEF CancelWrite
    <3> HIDE DEF row
    <3> QED
        BY <3>1, <3>2, <3>3, <1>d, WriteStep
  <2>2. CASE ~Live(b)
      BY <1>12, <2>2, <1>b DEF CancelWrite
  <2> QED
      BY <2>1, <2>2
<1>13. ASSUME Staff PROVE Isolation'
  <2>1. ASSUME NEW b \in Bookings, NEW s \in Stays, NEW statut \in StaffStatuts,
               StaffCreate(b, s, statut)
        PROVE  Isolation'
    <3> DEFINE row == Patched(Blank(statut), s, statut)
    <3>1. row \in Rows
        BY StaffAssumption, StaffRowType, BlankIsRow
    <3>2. row.editor = "staff"
        BY BlankIsRow, PatchedFields, StaffAssumption
    <3>3. /\ Absent(b) /\ UNCHANGED <<job, dirty>>
          /\ reservation' = [reservation EXCEPT ![b] = row]
        BY <2>1 DEF StaffCreate
    <3> HIDE DEF row
    <3> QED
        BY <3>1, <3>2, <3>3, InsertStep
  <2>2. ASSUME NEW b \in Bookings, NEW s \in Stays, NEW statut \in Statuts,
               StaffUpdate(b, s, statut)
        PROVE  Isolation'
    <3> DEFINE row == Patched(reservation[b], s, statut)
    <3>1. row \in Rows
        BY StaffAssumption, StaffRowType DEF TypeOK
    <3>2. row.editor = "staff"
        BY PatchedFields DEF TypeOK
    <3>3. Write(b, row) /\ UNCHANGED job
        BY <2>2 DEF StaffUpdate
    <3> HIDE DEF row
    <3> QED
        BY <3>1, <3>2, <3>3, WriteStep
  <2>3. ASSUME NEW b \in Bookings, StaffRemove(b) PROVE Isolation'
    <3>1. Blank("DELETED") \in Rows /\ Blank("DELETED").statut # "CONFIRMEE"
        BY BlankIsRow DEF Blank
    <3> QED
        BY <2>3, <3>1, WriteStep DEF StaffRemove
  <2> QED
      BY <1>13, <2>1, <2>2, <2>3, StaffWrites
<1>14. ASSUME UNCHANGED <<reservation, job, dirty>> PROVE Isolation'
    BY <1>14, NoWriteStep
<1>15. ASSUME NEW t \in Sessions, PayCheckout(t) \/ ResolveDelayed(t) PROVE Isolation'
    BY <1>15, <1>14 DEF PayCheckout, ResolveDelayed
<1>16. ASSUME NextDay \/ UNCHANGED vars PROVE Isolation'
    BY <1>16, <1>14 DEF NextDay, vars
<1> QED
    BY <1>1, <1>2, <1>3, <1>4, <1>5, <1>6, <1>7, <1>8, <1>9, <1>10, <1>11, <1>12, <1>13,
       <1>15, <1>16
    DEF Next, Customer, Webhook, Continue, Finalize, Tokens

\* The inductive invariant of the core: types, what handlers hold on to, and
\* what open transactions may rely on.
THEOREM CoreInvariant == Spec => [](TypeOK /\ Bindings /\ Isolation)
<1>1. Init => TypeOK /\ Bindings /\ Isolation
    BY TypeInit, BindingsInit, IsolationInit
<1>2. TypeOK /\ Bindings /\ Isolation /\ [Next]_vars => (TypeOK /\ Bindings /\ Isolation)'
    BY TypeStep, BindingsStep, IsolationStep
<1> QED
    BY <1>1, <1>2, PTL DEF Spec

\* What a handler carries from one await to the next stays true of Stripe: the
\* payment it finalizes was made for its booking, and a session not yet handed out
\* belongs to it alone.
THEOREM BindingsHold == Spec => []Bindings
BY CoreInvariant, PTL

\* An open transaction that nothing has marked may rely on what it read, for every
\* number of handlers: its row is open, and the nights it confirms are free.
THEOREM SnapshotsHold == Spec => []SnapshotHolds
<1>1. Isolation => SnapshotHolds
    BY DEF Isolation
<1> QED
    BY <1>1, CoreInvariant, PTL

\* Two bookings confirmed by payment never share a night of a room, however many
\* webhooks, summary pages and saved-card payments are finalized at once and
\* whatever customers and staff do meanwhile.
THEOREM NoDoubleBookingHolds == Spec => []NoDoubleBooking
<1>1. TypeOK /\ Bindings /\ Isolation => NoDoubleBooking
    BY DEF Isolation
<1> QED
    BY <1>1, CoreInvariant, PTL

-----------------------------------------------------------------------------
(* Every row that exists asks for a stay, and so does every request.        *)

StaysKnown ==
    /\ \A b \in Bookings :
        /\ Live(b) => reservation[b].stay \in Stays
        /\ Absent(b) => ~ByStaff(b)
    /\ \A h \in Handlers : job[h].at = "book" => job[h].stay \in Stays

LEMMA StaysKnownInit == Init => StaysKnown
<1> SUFFICES ASSUME Init PROVE StaysKnown
    OBVIOUS
<1>1. ASSUME NEW b \in Bookings PROVE ~Live(b) /\ ~ByStaff(b)
    BY <1>1 DEF Init, Live, ByStaff, Blank, Statuts
<1>2. ASSUME NEW h \in Handlers PROVE job[h].at # "book"
    BY <1>2 DEF Init, Quiet
<1> QED
    BY <1>1, <1>2 DEF StaysKnown

\* Only createBooking's check brings a handler to its insert, with the stay asked for.
LEMMA RequestsKeepStay ==
    TypeOK /\ [Next]_vars =>
        \A k \in Handlers :
            job'[k].at = "book" => job'[k].stay \in Stays \/ job'[k] = job[k]
<1> DEFINE Good == \A k \in Handlers :
            job'[k].at = "book" => job'[k].stay \in Stays \/ job'[k] = job[k]
<1> SUFFICES ASSUME TypeOK, [Next]_vars PROVE Good
    OBVIOUS
<1>a. ASSUME NEW h \in Handlers, Ends(h) PROVE Good
    BY <1>a, EndsMoves
<1>b. ASSUME NEW h \in Handlers, NEW at, NEW b, NEW t, Becomes(h, at, b, t), at # "book"
      PROVE  Good
    BY <1>b, BecomesMoves
<1>c. ASSUME UNCHANGED job PROVE Good
    BY <1>c
<1>1. ASSUME NEW h \in Handlers, NEW s \in Stays, NEW pay, BookRead(h, s, pay) PROVE Good
  <2>1. job'[h].stay = s /\ \A k \in Handlers \ {h} : job'[k] = job[k]
      BY <1>1 DEF BookRead, Quiet, TypeOK
  <2> QED
      BY <2>1
<1>2. ASSUME NEW h \in Handlers, Continue(h) PROVE Good
  <2>1. ASSUME SettleRead(h) \/ SettleCommit(h) PROVE Good
    <3>1. job[h] \in Jobs
        BY DEF TypeOK
    <3>2. job'[h].at # "book" /\ \A k \in Handlers \ {h} : job'[k] = job[k]
        BY <2>1, <3>1 DEF SettleRead, SettleCommit, TypeOK, Jobs
    <3> QED
        BY <3>2
  <2>2. ASSUME SettleAbort(h) PROVE Good
    <3>1. CASE Ends(h)
        BY <3>1, <1>a
    <3>2. CASE job' = [job EXCEPT ![h].at = "settle", ![h].verdict = "none", ![h].tries = 1]
      <4>1. job[h] \in Jobs
          BY DEF TypeOK
      <4>2. job'[h].at # "book" /\ \A k \in Handlers \ {h} : job'[k] = job[k]
          BY <3>2, <4>1 DEF TypeOK, Jobs
      <4> QED
          BY <4>2
    <3> QED
        BY <2>2, <3>1, <3>2 DEF SettleAbort
  <2> QED
      BY <1>2, <2>1, <2>2, <1>a, <1>b
         DEF Continue, Finalize, BookWrite, BookFails, CheckoutCreate, CheckoutSave, StripeFails,
             CardCharge, SettleNoChange, Announce, Delete, CancelWrite
<1>3. ASSUME NEW h \in Handlers, Customer(h) \/ Webhook(h) PROVE Good
    BY <1>3, <1>1, <1>b
       DEF Customer, Webhook, CheckoutRead, CardRead, RemoveRead, CancelRead, SyncSummary,
           WebhookCompleted, WebhookSessionFailed, WebhookIntentFailed
<1>4. ASSUME Staff \/ NextDay \/ UNCHANGED vars \/ (\E t \in Sessions : PayCheckout(t) \/ ResolveDelayed(t))
      PROVE  Good
    BY <1>4, <1>c DEF Staff, StaffCreate, StaffUpdate, StaffRemove, NextDay, vars, PayCheckout,
                      ResolveDelayed
<1> QED
    BY <1>2, <1>3, <1>4, <1>a DEF Next, Lose

-----------------------------------------------------------------------------
(* What a step can do to a row.  Everything below follows from this.        *)

Created(b) ==
    /\ Absent(b)
    /\ reservation'[b].statut = "EN_ATTENTE"
    /\ reservation'[b].stay \in Stays
    /\ ~Dated(b)'
    /\ ~ByStaff(b)'

OpenedCheckout(b) ==
    /\ Live(b)
    /\ reservation'[b].stripeSessionId \in Tokens
    /\ stripe[reservation'[b].stripeSessionId].b = b
    /\ reservation'[b].statut = reservation[b].statut
    /\ reservation'[b].stay = reservation[b].stay
    /\ reservation'[b].editor = reservation[b].editor
    /\ reservation'[b].paymentDate = reservation[b].paymentDate
    /\ reservation'[b].stripePaymentIntentId = reservation[b].stripePaymentIntentId
    /\ reservation'[b].superseded = IF Dated(b) THEN "yes" ELSE reservation[b].superseded

PaidFor(b) ==
    /\ reservation[b].statut \in Statuts \ ClosedStatuses
    /\ reservation'[b].statut \in {"CONFIRMEE", "REFUSEE"}
    /\ reservation'[b].stay = reservation[b].stay
    /\ reservation'[b].editor = reservation[b].editor
    /\ reservation'[b].superseded = reservation[b].superseded
    /\ Dated(b)'
    /\ reservation'[b].stripePaymentIntentId \in Tokens
    /\ stripe[reservation'[b].stripePaymentIntentId].b = b
    /\ stripe[reservation'[b].stripePaymentIntentId].state \in {"processing", "captured", "failed"}
    /\ reservation'[b].stripeSessionId = reservation'[b].stripePaymentIntentId
    /\ \E h \in Handlers : SettleCommit(h) /\ job[h].b = b

Deleted(b) ==
    /\ reservation'[b].statut = "DELETED"
    /\ ~Dated(b)'
    /\ ~ByStaff(b)'

Cancelled(b) ==
    /\ Live(b)
    /\ reservation'[b].statut = "ANNULEE"
    /\ reservation'[b].stripeSessionId = reservation[b].stripeSessionId
    /\ reservation'[b].stay = reservation[b].stay
    /\ reservation'[b].editor = reservation[b].editor
    /\ reservation'[b].superseded = reservation[b].superseded
    /\ reservation'[b].paymentDate = reservation[b].paymentDate
    /\ reservation'[b].stripePaymentIntentId = reservation[b].stripePaymentIntentId

Edited(b) ==
    /\ ByStaff(b)'
    /\ reservation'[b].statut \in Statuts
    /\ reservation'[b].stay \in Stays
    /\ \/ ~Dated(b)'
       \/ /\ reservation'[b].paymentDate = reservation[b].paymentDate
          /\ reservation'[b].stripePaymentIntentId = reservation[b].stripePaymentIntentId

RowChange(b) ==
    \/ Created(b) \/ OpenedCheckout(b) \/ PaidFor(b) \/ Deleted(b) \/ Cancelled(b) \/ Edited(b)

OneRow ==
    \/ UNCHANGED reservation
    \/ \E b \in Bookings :
        /\ RowChange(b)
        /\ \A c \in Bookings \ {b} : reservation'[c] = reservation[c]

\* A step changes one row at most, in one of these ways.
LEMMA OneRowChanges == TypeOK /\ Bindings /\ Isolation /\ StaysKnown /\ [Next]_vars => OneRow
<1> SUFFICES ASSUME TypeOK, Bindings, Isolation, StaysKnown, [Next]_vars PROVE OneRow
    OBVIOUS
<1>a. ASSUME NEW b \in Bookings, NEW row, reservation' = [reservation EXCEPT ![b] = row]
      PROVE  /\ reservation'[b] = row
             /\ \A c \in Bookings \ {b} : reservation'[c] = reservation[c]
    BY <1>a DEF TypeOK
<1>1. ASSUME NEW h \in Handlers, BookWrite(h) PROVE OneRow
  <2>1. PICK b \in Bookings :
          /\ Absent(b)
          /\ reservation' = [reservation EXCEPT ![b] =
               [Blank("EN_ATTENTE") EXCEPT !.stay = job[h].stay, !.paymentStatus = job[h].pay]]
      BY <1>1 DEF BookWrite
  <2>2. Created(b)
    <3>1. reservation'[b] =
            [Blank("EN_ATTENTE") EXCEPT !.stay = job[h].stay, !.paymentStatus = job[h].pay]
        BY <2>1, <1>a
    <3>2. /\ reservation'[b].statut = "EN_ATTENTE"
          /\ reservation'[b].paymentDate = "unset"
          /\ reservation'[b].editor = "customer"
          /\ reservation'[b].stay = job[h].stay
        BY <3>1 DEF Blank
    <3>3. job[h].stay \in Stays
        BY <1>1 DEF BookWrite, StaysKnown
    <3> QED
        BY <2>1, <3>2, <3>3 DEF Created, Dated, ByStaff
  <2> QED
      BY <2>1, <2>2, <1>a DEF OneRow, RowChange
<1>2. ASSUME NEW h \in Handlers, CheckoutSave(h), Live(job[h].b) PROVE OneRow
  <2>0. PICK b \in Bookings : b = job[h].b
      BY <1>2 DEF Bindings, CheckoutSave
  <2>1. /\ reservation[b] \in Rows
        /\ reservation' = [reservation EXCEPT ![b] =
             [reservation[b] EXCEPT !.stripeSessionId = job[h].tok,
                                    !.paymentStatus = "CHECKOUT_PENDING",
                                    !.superseded = IF Dated(b) THEN "yes" ELSE @]]
      BY <1>2, <2>0 DEF CheckoutSave, Write, Bindings, TypeOK
  <2>2. OpenedCheckout(b)
    <3>1. job[h].tok \in Tokens /\ stripe[job[h].tok].b = b
      <4>1. job[h].tok \in Sessions /\ stripe[job[h].tok] = [state |-> "drafted", b |-> job[h].b]
          BY <1>2 DEF CheckoutSave, Bindings
      <4> QED
          BY <2>0, <4>1 DEF Tokens
    <3>2. PICK t : t = job[h].tok
        OBVIOUS
    <3>3. /\ reservation'[b].statut = reservation[b].statut
          /\ reservation'[b].stay = reservation[b].stay
          /\ reservation'[b].editor = reservation[b].editor
          /\ reservation'[b].paymentDate = reservation[b].paymentDate
          /\ reservation'[b].stripePaymentIntentId = reservation[b].stripePaymentIntentId
          /\ reservation'[b].stripeSessionId = t
          /\ reservation'[b].superseded = IF Dated(b) THEN "yes" ELSE reservation[b].superseded
      <4>0. PICK mark : mark = IF Dated(b) THEN "yes" ELSE reservation[b].superseded
          OBVIOUS
      <4>r. PICK r \in Rows : r = reservation[b]
          BY <2>1
      <4>1. PICK row : row = [r EXCEPT !.stripeSessionId = t,
                                       !.paymentStatus = "CHECKOUT_PENDING",
                                       !.superseded = mark]
          OBVIOUS
      <4>2. reservation' = [reservation EXCEPT ![b] = row]
          BY <2>1, <3>2, <4>0, <4>r, <4>1
      <4>3. reservation'[b] = row
          BY <4>2, <1>a
      <4> QED
        <5>1. /\ row.stripeSessionId = t
              /\ row.superseded = mark
              /\ row.statut = r.statut
              /\ row.stay = r.stay
              /\ row.editor = r.editor
              /\ row.paymentDate = r.paymentDate
              /\ row.stripePaymentIntentId = r.stripePaymentIntentId
            BY <4>1 DEF Rows
        <5> QED
            BY <4>0, <4>r, <4>3, <5>1
    <3> QED
        BY <1>2, <2>0, <3>1, <3>2, <3>3 DEF OpenedCheckout
  <2> QED
      BY <2>1, <2>2, <1>a DEF OneRow, RowChange
<1>3. ASSUME NEW h \in Handlers, SettleCommit(h) PROVE OneRow
  <2>0. PICK b \in Bookings : b = job[h].b
      BY <1>3 DEF Bindings, SettleCommit
  <2>1. /\ reservation[b] \in Rows
        /\ reservation' = [reservation EXCEPT ![b] =
             Settled(reservation[b], job[h].verdict, job[h].tok)]
      BY <1>3, <2>0 DEF SettleCommit, Bindings, TypeOK
  <2>2. /\ job[h].tok \in Tokens
        /\ stripe[job[h].tok].b = b
        /\ stripe[job[h].tok].state \in {"processing", "captured", "failed"}
        /\ reservation[b].statut \in Statuts \ ClosedStatuses
      BY <1>3, <2>0 DEF SettleCommit, Bindings, Isolation, SnapshotHolds
  <2>3. PaidFor(b)
    <3>0. reservation'[b] = Settled(reservation[b], job[h].verdict, job[h].tok)
        BY <2>1, <1>a
    <3>1. /\ reservation'[b].statut \in {"CONFIRMEE", "REFUSEE"}
          /\ reservation'[b].stay = reservation[b].stay
          /\ reservation'[b].editor = reservation[b].editor
          /\ reservation'[b].superseded = reservation[b].superseded
          /\ reservation'[b].paymentDate = "set"
          /\ reservation'[b].stripePaymentIntentId = job[h].tok
          /\ reservation'[b].stripeSessionId = job[h].tok
        BY <2>1, <3>0, SettledFields
    <3> QED
        BY <1>3, <2>0, <2>2, <3>1 DEF PaidFor, Dated
  <2> QED
      BY <2>1, <2>3, <1>a DEF OneRow, RowChange
<1>4. ASSUME NEW h \in Handlers, Delete(h), Live(job[h].b) PROVE OneRow
  <2>0. PICK b \in Bookings : b = job[h].b
      BY <1>4 DEF Bindings, Delete
  <2>1. reservation' = [reservation EXCEPT ![b] = Blank("DELETED")]
      BY <1>4, <2>0 DEF Delete, Write, Bindings
  <2>2. Deleted(b)
    <3>1. reservation'[b] = Blank("DELETED")
        BY <2>1, <1>a
    <3>2. /\ reservation'[b].statut = "DELETED"
          /\ reservation'[b].paymentDate = "unset"
          /\ reservation'[b].editor = "customer"
        BY <3>1 DEF Blank
    <3> QED
        BY <3>2 DEF Deleted, Dated, ByStaff
  <2> QED
      BY <2>1, <2>2, <1>a DEF OneRow, RowChange
<1>5. ASSUME NEW h \in Handlers, CancelWrite(h), Live(job[h].b) PROVE OneRow
  <2>0. PICK b \in Bookings : b = job[h].b
      BY <1>5 DEF Bindings, CancelWrite
  <2>1. /\ reservation[b] \in Rows
        /\ reservation' = [reservation EXCEPT ![b] =
             [reservation[b] EXCEPT !.statut = "ANNULEE"]]
      BY <1>5, <2>0 DEF CancelWrite, Write, Bindings, TypeOK
  <2>2. Cancelled(b)
    <3>1. reservation'[b] = [reservation[b] EXCEPT !.statut = "ANNULEE"]
        BY <2>1, <1>a
    <3> QED
        BY <1>5, <2>0, <2>1, <3>1 DEF Cancelled, Rows
  <2> QED
      BY <2>1, <2>2, <1>a DEF OneRow, RowChange
<1>6. ASSUME NEW b \in Bookings, NEW s \in Stays, NEW statut \in StaffStatuts,
             StaffCreate(b, s, statut)
      PROVE  OneRow
  <2>1. reservation' = [reservation EXCEPT ![b] =
             Patched(Blank(statut), s, statut)]
      BY <1>6 DEF StaffCreate
  <2>2. Edited(b)
    <3>1. reservation'[b] = Patched(Blank(statut), s, statut)
        BY <2>1, <1>a
    <3> QED
      <4>1. /\ reservation'[b].editor = "staff"
            /\ reservation'[b].statut = statut
            /\ reservation'[b].stay = s
            /\ reservation'[b].paymentDate = "unset"
          BY <3>1, BlankIsRow, StaffAssumption, PatchedFields DEF Blank
      <4> QED
          BY <4>1, StaffAssumption DEF Edited, Dated, ByStaff
  <2> QED
      BY <2>1, <2>2, <1>a DEF OneRow, RowChange
<1>7. ASSUME NEW b \in Bookings, NEW s \in Stays, NEW statut \in Statuts,
             StaffUpdate(b, s, statut)
      PROVE  OneRow
  <2>1. /\ reservation[b] \in Rows
        /\ reservation' = [reservation EXCEPT ![b] =
             Patched(reservation[b], s, statut)]
      BY <1>7 DEF StaffUpdate, Write, TypeOK
  <2>2. Edited(b)
    <3>1. reservation'[b] = Patched(reservation[b], s, statut)
        BY <2>1, <1>a
    <3> QED
      <4>1. /\ reservation'[b].editor = "staff"
            /\ reservation'[b].statut = statut
            /\ reservation'[b].stay = s
            /\ reservation'[b].paymentDate = reservation[b].paymentDate
            /\ reservation'[b].stripePaymentIntentId = reservation[b].stripePaymentIntentId
          BY <2>1, <3>1, PatchedFields
      <4> QED
          BY <4>1, StaffAssumption DEF Edited, Dated, ByStaff
  <2> QED
      BY <2>1, <2>2, <1>a DEF OneRow, RowChange
<1>8. ASSUME NEW b \in Bookings, StaffRemove(b) PROVE OneRow
  <2>1. reservation' = [reservation EXCEPT ![b] = Blank("DELETED")]
      BY <1>8 DEF StaffRemove, Write
  <2>2. Deleted(b)
    <3>1. reservation'[b] = Blank("DELETED")
        BY <2>1, <1>a
    <3>2. /\ reservation'[b].statut = "DELETED"
          /\ reservation'[b].paymentDate = "unset"
          /\ reservation'[b].editor = "customer"
        BY <3>1 DEF Blank
    <3> QED
        BY <3>2 DEF Deleted, Dated, ByStaff
  <2> QED
      BY <2>1, <2>2, <1>a DEF OneRow, RowChange
<1>9. ASSUME UNCHANGED reservation PROVE OneRow
    BY <1>9 DEF OneRow
<1>10. ASSUME NEW h \in Handlers, Customer(h) \/ Webhook(h) \/ Lose(h) PROVE UNCHANGED reservation
    BY <1>10 DEF Customer, Webhook, Lose, BookRead, CheckoutRead, CardRead, RemoveRead,
                 CancelRead, SyncSummary, WebhookCompleted, WebhookSessionFailed,
                 WebhookIntentFailed
<1>11. ASSUME NEW h \in Handlers, Continue(h) PROVE OneRow
    BY <1>11, <1>1, <1>2, <1>3, <1>4, <1>5, <1>9
       DEF Continue, Finalize, BookFails, CheckoutCreate, CheckoutSave, StripeFails, CardCharge,
           SettleRead, SettleNoChange, SettleAbort, Announce, Delete, CancelWrite
<1>12. ASSUME Staff PROVE OneRow
    BY <1>12, <1>6, <1>7, <1>8, StaffWrites
<1>13. ASSUME (\E t \in Sessions : PayCheckout(t) \/ ResolveDelayed(t)) \/ NextDay \/ UNCHANGED vars
       PROVE  UNCHANGED reservation
    BY <1>13 DEF PayCheckout, ResolveDelayed, NextDay, vars
<1> QED
    BY <1>9, <1>10, <1>11, <1>12, <1>13 DEF Next

-----------------------------------------------------------------------------
(* The core invariant with the stays, and what a row says of its payment.   *)

Core == TypeOK /\ Bindings /\ Isolation /\ StaysKnown

LEMMA StaysKnownStep ==
    TypeOK /\ Bindings /\ Isolation /\ StaysKnown /\ [Next]_vars => StaysKnown'
<1> SUFFICES ASSUME TypeOK, Bindings, Isolation, StaysKnown, [Next]_vars PROVE StaysKnown'
    OBVIOUS
<1>1. OneRow
    BY OneRowChanges
<1>2. ASSUME NEW k \in Handlers, job'[k].at = "book" PROVE job'[k].stay \in Stays
    BY <1>2, RequestsKeepStay DEF StaysKnown
<1>3. ASSUME NEW c \in Bookings, reservation'[c] = reservation[c]
      PROVE  /\ Live(c)' => reservation'[c].stay \in Stays
             /\ Absent(c)' => ~ByStaff(c)'
    BY <1>3 DEF StaysKnown, Live, Absent, ByStaff
<1>4. ASSUME NEW b \in Bookings, RowChange(b)
      PROVE  /\ Live(b)' => reservation'[b].stay \in Stays
             /\ Absent(b)' => ~ByStaff(b)'
  <2>1. CASE Created(b)
      BY <2>1 DEF Created, Absent
  <2>2. CASE OpenedCheckout(b)
      BY <2>2 DEF OpenedCheckout, StaysKnown, Live, Absent, ByStaff
  <2>3. CASE PaidFor(b)
      BY <2>3 DEF PaidFor, StaysKnown, Live, Absent, ByStaff
  <2>4. CASE Deleted(b)
      BY <2>4 DEF Deleted, Live, Absent, Statuts
  <2>5. CASE Cancelled(b)
      BY <2>5 DEF Cancelled, StaysKnown, Live, Absent
  <2>6. CASE Edited(b)
      BY <2>6 DEF Edited, Absent, Statuts
  <2> QED
      BY <1>4, <2>1, <2>2, <2>3, <2>4, <2>5, <2>6 DEF RowChange
<1> QED
    BY <1>1, <1>2, <1>3, <1>4 DEF StaysKnown, OneRow

LEMMA CoreInit == Init => Core
BY TypeInit, BindingsInit, IsolationInit, StaysKnownInit DEF Core

LEMMA CoreStep == Core /\ [Next]_vars => Core'
BY TypeStep, BindingsStep, IsolationStep, StaysKnownStep DEF Core

\* A payment that was made stays made, and stays the booking's.
LEMMA PaymentsStay ==
    ASSUME TypeOK, Bindings, [Next]_vars, NEW t \in Tokens,
           stripe[t].state \in {"processing", "captured", "failed"}
    PROVE  /\ stripe'[t].b = stripe[t].b
           /\ stripe'[t].state \in {"processing", "captured", "failed"}
<1>1. CASE UNCHANGED stripe
    BY <1>1
<1>2. ASSUME NEW u \in Tokens, NEW b, NEW state, stripe[u].state = "none",
             stripe' = [stripe EXCEPT ![u] = [state |-> state, b |-> b]]
      PROVE  stripe'[t] = stripe[t]
    BY <1>2 DEF TypeOK
<1>3. ASSUME NEW h \in Handlers, CheckoutCreate(h) \/ CardCharge(h)
      PROVE  stripe'[t] = stripe[t]
    BY <1>2, <1>3 DEF CheckoutCreate, CardCharge, Tokens
<1>4. ASSUME NEW h \in Handlers, CheckoutSave(h) PROVE stripe'[t] = stripe[t]
  <2>1. job[h].tok # t
    <3>1. stripe[job[h].tok] = [state |-> "drafted", b |-> job[h].b]
        BY <1>4 DEF CheckoutSave, Bindings
    <3>2. stripe[job[h].tok].state = "drafted"
        BY <3>1
    <3> QED
        BY <3>2
  <2>2. UNCHANGED stripe \/ stripe' = [stripe EXCEPT ![job[h].tok].state = "open"]
      BY <1>4 DEF CheckoutSave
  <2>3. \A state : [stripe EXCEPT ![job[h].tok].state = state][t] = stripe[t]
      BY <2>1 DEF TypeOK
  <2> QED
      BY <2>2, <2>3
<1>5. ASSUME NEW u \in Sessions, NEW state \in {"processing", "captured", "failed"},
             stripe' = [stripe EXCEPT ![u].state = state]
      PROVE  /\ stripe'[t].b = stripe[t].b
             /\ stripe'[t].state \in {"processing", "captured", "failed"}
  <2>1. CASE u = t
      BY <1>5, <2>1 DEF TypeOK
  <2>2. CASE u # t
      BY <1>5, <2>2 DEF TypeOK
  <2> QED
      BY <2>1, <2>2
<1>6. ASSUME NEW u \in Sessions, PayCheckout(u) \/ ResolveDelayed(u)
      PROVE  /\ stripe'[t].b = stripe[t].b
             /\ stripe'[t].state \in {"processing", "captured", "failed"}
    BY <1>5, <1>6 DEF PayCheckout, ResolveDelayed
<1>7. ASSUME NEW h \in Handlers, Customer(h) \/ Webhook(h) \/ Lose(h)
      PROVE  UNCHANGED stripe
    BY <1>7 DEF Customer, Webhook, Lose, BookRead, CheckoutRead, CardRead, RemoveRead,
                CancelRead, SyncSummary, WebhookCompleted, WebhookSessionFailed,
                WebhookIntentFailed
<1>8. ASSUME NEW h \in Handlers, Continue(h)
      PROVE  UNCHANGED stripe \/ CheckoutCreate(h) \/ CheckoutSave(h) \/ CardCharge(h)
    BY <1>8 DEF Continue, Finalize, BookWrite, BookFails, StripeFails,
                SettleRead, SettleNoChange, SettleCommit, SettleAbort, Announce, Delete,
                CancelWrite
<1>9. ASSUME Staff \/ NextDay \/ UNCHANGED vars PROVE UNCHANGED stripe
    BY <1>9 DEF Staff, StaffCreate, StaffUpdate, StaffRemove, NextDay, vars
<1> QED
    BY <1>1, <1>3, <1>4, <1>6, <1>7, <1>8, <1>9 DEF Next

\* A dated row names a payment that was made for it; what customers alone brought
\* to CONFIRMEE is dated; and a dated row that staff left alone is past EN_ATTENTE.
Paid ==
    \A b \in Bookings :
        /\ Dated(b) =>
              /\ reservation[b].stripePaymentIntentId \in Tokens
              /\ stripe[reservation[b].stripePaymentIntentId].b = b
              /\ stripe[reservation[b].stripePaymentIntentId].state
                    \in {"processing", "captured", "failed"}
        /\ Held(b) => Dated(b)
        /\ Dated(b) /\ ~ByStaff(b) => reservation[b].statut # "EN_ATTENTE"

LEMMA PaidInit == Init => Paid
BY DEF Init, Paid, Dated, Held, Blank

LEMMA PaidStep == Core /\ Paid /\ [Next]_vars => Paid'
<1> SUFFICES ASSUME Core, Paid, [Next]_vars, NEW b \in Bookings
             PROVE  /\ Dated(b)' =>
                          /\ reservation'[b].stripePaymentIntentId \in Tokens
                          /\ stripe'[reservation'[b].stripePaymentIntentId].b = b
                          /\ stripe'[reservation'[b].stripePaymentIntentId].state
                                \in {"processing", "captured", "failed"}
                    /\ Held(b)' => Dated(b)'
                    /\ Dated(b)' /\ ~ByStaff(b)' => reservation'[b].statut # "EN_ATTENTE"
    BY DEF Paid
<1>1. reservation'[b] = reservation[b] \/ RowChange(b)
    BY OneRowChanges DEF Core, OneRow
<1>2. ASSUME NEW t \in Tokens, stripe[t].state \in {"processing", "captured", "failed"}
      PROVE  /\ stripe'[t].b = stripe[t].b
             /\ stripe'[t].state \in {"processing", "captured", "failed"}
    BY <1>2, PaymentsStay DEF Core
<1>3. CASE reservation'[b] = reservation[b]
    BY <1>2, <1>3 DEF Paid, Dated, Held, ByStaff
<1>4. CASE Created(b)
    BY <1>4 DEF Created, Held
<1>5. CASE OpenedCheckout(b)
    BY <1>2, <1>5 DEF OpenedCheckout, Paid, Dated, Held, ByStaff
<1>6. CASE PaidFor(b)
    BY <1>2, <1>6 DEF PaidFor
<1>7. CASE Deleted(b)
    BY <1>7 DEF Deleted, Held
<1>8. CASE Cancelled(b)
    BY <1>2, <1>8 DEF Cancelled, Paid, Dated, Held
<1>9. CASE Edited(b)
    BY <1>2, <1>9 DEF Edited, Paid, Dated, Held, ByStaff
<1> QED
    BY <1>1, <1>3, <1>4, <1>5, <1>6, <1>7, <1>8, <1>9 DEF RowChange

LEMMA PaidInvariant == Spec => [](Core /\ Paid)
<1>1. Init => Core /\ Paid
    BY CoreInit, PaidInit
<1>2. Core /\ Paid /\ [Next]_vars => (Core /\ Paid)'
    BY CoreStep, PaidStep
<1> QED
    BY <1>1, <1>2, PTL DEF Spec

\* Every row with a payment date names a Stripe payment that was made for that
\* very booking, and no booking is confirmed without one unless staff did it.
THEOREM PaymentTraceableHolds == Spec => []PaymentTraceable
<1>1. Core /\ Paid => PaymentTraceable
  <2> SUFFICES ASSUME Core, Paid, NEW b \in Bookings
               PROVE  /\ Dated(b) =>
                            LET t == reservation[b].stripePaymentIntentId
                            IN  /\ t \in Tokens
                                /\ stripe[t].b = b
                                /\ stripe[t].state \in {"captured"} \cup
                                      (IF AsyncMethods THEN {"processing", "failed"} ELSE {})
                      /\ Held(b) => Dated(b)
      BY DEF PaymentTraceable
  <2>1. \A t \in Tokens : stripe[t].state \in {"processing", "failed"} => AsyncMethods
      BY DEF Core, Bindings
  <2> QED
      BY <2>1 DEF Paid
<1> QED
    BY <1>1, PaidInvariant, PTL

\* The guard of cancelUnpaidBooking and of the failed-payment cleanup never
\* passes on a row that was paid, unless staff have edited it.
THEOREM PaidIsNeverUnpaidHolds == Spec => []PaidIsNeverUnpaid
<1>1. Core /\ Paid => PaidIsNeverUnpaid
    BY DEF Paid, PaidIsNeverUnpaid, Unpaid
<1> QED
    BY <1>1, PaidInvariant, PTL

\* A booking that was refused, cancelled, finished or deleted never comes back
\* unless staff bring it back: not even by a payment already under way.
THEOREM ClosedNeverReopensHolds == Spec => ClosedNeverReopens
<1> DEFINE Closing == \A b \in Bookings :
        /\ ~ByStaff(b)'
        /\ reservation[b].statut \in ClosedStatuses \cup {"DELETED"}
        => reservation'[b].statut \in ClosedStatuses \cup {"DELETED"}
<1>1. Core /\ [Next]_vars => Closing
  <2> SUFFICES ASSUME Core, [Next]_vars, NEW b \in Bookings, ~ByStaff(b)',
                      reservation[b].statut \in ClosedStatuses \cup {"DELETED"}
               PROVE  reservation'[b].statut \in ClosedStatuses \cup {"DELETED"}
      OBVIOUS
  <2>1. reservation'[b] = reservation[b] \/ RowChange(b)
      BY OneRowChanges DEF Core, OneRow
  <2>2. "DELETED" \notin Statuts /\ "ABSENT" \notin ClosedStatuses /\ "ANNULEE" \in ClosedStatuses
      BY DEF Statuts, ClosedStatuses
  <2> QED
      BY <2>1, <2>2 DEF RowChange, Created, Absent, OpenedCheckout, PaidFor, Deleted, Cancelled, Edited
<1>2. Core /\ Paid /\ [Next]_vars => [Closing]_vars
    BY <1>1
<1> QED
    BY <1>2, PaidInvariant, PTL DEF Spec, ClosedNeverReopens
-----------------------------------------------------------------------------
(* The room calendar: every step of the core is a booking taking nights    *)
(* that are all free, a booking leaving for good, or nothing it sees.      *)

NightsOf(b) == IF Held(b) THEN RoomNights(reservation[b].stay) ELSE {}
AllNights == UNION {RoomNights(s) : s \in Stays}

\* Stays that do not clash share no night.
LEMMA NoClashNoSharedNight ==
    ASSUME NEW s \in Stays, NEW t \in Stays, ~Clash(s, t)
    PROVE  RoomNights(s) \cap RoomNights(t) = {}
<1> SUFFICES ASSUME NEW n, n \in RoomNights(s), n \in RoomNights(t) PROVE FALSE
    OBVIOUS
<1>1. /\ s.from \in Int /\ s.to \in Int
      /\ t.from \in Int /\ t.to \in Int
    BY StaysAssumption DEF IsStay
<1>2. PICK i \in s.from .. (s.to - 1) : n = <<s.room, i>>
    BY DEF RoomNights
<1>3. PICK j \in t.from .. (t.to - 1) : n = <<t.room, j>>
    BY DEF RoomNights
<1>4. s.room = t.room /\ i = j
    BY <1>2, <1>3
<1> QED
    BY <1>1, <1>2, <1>3, <1>4 DEF Clash

\* What a booking occupies after a step in which its payment was confirmed is
\* free of what every other booking occupies.
LEMMA FreeNights ==
    ASSUME Core', NEW b \in Bookings, NEW c \in Bookings, b # c
    PROVE  NightsOf(b)' \cap NightsOf(c)' = {}
<1>1. CASE ~Held(b)' \/ ~Held(c)'
    BY <1>1 DEF NightsOf
<1>2. CASE Held(b)' /\ Held(c)'
  <2>1. ~Clash(reservation'[b].stay, reservation'[c].stay)
      BY <1>2 DEF Core, Isolation, NoDoubleBooking
  <2>2. reservation'[b].stay \in Stays /\ reservation'[c].stay \in Stays
      BY <1>2 DEF Core, StaysKnown, Live, Held, Statuts
  <2> QED
      BY <1>2, <2>1, <2>2, NoClashNoSharedNight DEF NightsOf
<1> QED
    BY <1>1, <1>2

\* How a step that changes the row b moves it in the calendar.
LEMMA RowMoves ==
    ASSUME Core, Core', NEW b \in Bookings, RowChange(b)
    PROVE  \/ PhaseOf(b)' = PhaseOf(b) /\ NightsOf(b)' = NightsOf(b)
           \/ /\ PhaseOf(b) = "waiting" /\ PhaseOf(b)' = "staying"
              /\ NightsOf(b) = {} /\ NightsOf(b)' \in SUBSET AllNights
           \/ PhaseOf(b) # "left" /\ PhaseOf(b)' = "left" /\ NightsOf(b)' = {}
<1> DEFINE Closed == ClosedStatuses \cup {"DELETED"}
<1>1. "CONFIRMEE" \notin Closed /\ "EN_ATTENTE" \notin Closed /\ "ABSENT" \notin Closed
      /\ "ANNULEE" \in Closed /\ "REFUSEE" \in Closed /\ "DELETED" \in Closed /\ "DELETED" \notin Statuts
      /\ "CONFIRMEE" \in Statuts
    BY DEF ClosedStatuses, Statuts
<1> HIDE DEF Closed
<1>2. ASSUME PhaseOf(b)' = "left" PROVE NightsOf(b)' = {}
    BY <1>1, <1>2 DEF PhaseOf, NightsOf, Held, Closed
<1>3. ASSUME PhaseOf(b) = "left" PROVE NightsOf(b) = {}
    BY <1>1, <1>3 DEF PhaseOf, NightsOf, Held, Closed
<1>4. CASE Created(b)
  <2>1. PhaseOf(b) = "waiting" /\ PhaseOf(b)' = "waiting" /\ ~Held(b) /\ ~Held(b)'
      BY <1>1, <1>4 DEF Created, PhaseOf, Held, Absent, Closed, Core, StaysKnown
  <2> QED
      BY <2>1 DEF NightsOf
<1>5. CASE OpenedCheckout(b)
    BY <1>5 DEF OpenedCheckout, PhaseOf, NightsOf, Held, ByStaff
<1>6. CASE PaidFor(b)
  <2>1. CASE ByStaff(b)
      BY <1>2, <1>3, <1>6, <2>1 DEF PaidFor, PhaseOf, ByStaff
  <2>2. CASE ~ByStaff(b) /\ reservation'[b].statut = "REFUSEE"
    <3>1. PhaseOf(b) # "left"
        BY <1>1, <1>6, <2>2 DEF PaidFor, PhaseOf, Closed
    <3>2. PhaseOf(b)' = "left"
        BY <1>1, <2>2 DEF PhaseOf, Closed
    <3> QED
        BY <1>2, <3>1, <3>2
  <2>3. CASE ~ByStaff(b) /\ reservation'[b].statut = "CONFIRMEE"
    <3>1. Held(b)' /\ PhaseOf(b)' = "staying" /\ reservation'[b].stay = reservation[b].stay
        BY <1>1, <1>6, <2>3 DEF PaidFor, PhaseOf, Held, ByStaff, Closed
    <3>2. CASE Held(b)
      <4>1. PhaseOf(b) = "staying"
          BY <1>1, <2>3, <3>2 DEF PhaseOf, Held, Closed
      <4> QED
          BY <3>1, <3>2, <4>1 DEF NightsOf
    <3>3. CASE ~Held(b)
      <4>1. PhaseOf(b) = "waiting"
          BY <1>1, <1>6, <2>3, <3>3 DEF PaidFor, PhaseOf, Closed
      <4>2. reservation'[b].stay \in Stays
          BY <1>1, <2>3 DEF Core, StaysKnown, Live
      <4>3. RoomNights(reservation'[b].stay) \subseteq AllNights
          BY <4>2 DEF AllNights
      <4> QED
          BY <3>1, <3>3, <4>1, <4>3 DEF NightsOf
    <3> QED
        BY <3>2, <3>3
  <2> QED
      BY <1>6, <2>1, <2>2, <2>3 DEF PaidFor
<1>7. CASE Deleted(b) \/ Cancelled(b) \/ Edited(b)
  <2>1. PhaseOf(b)' = "left"
      BY <1>1, <1>7 DEF Deleted, Cancelled, Edited, PhaseOf, Closed
  <2> QED
      BY <1>2, <1>3, <2>1
<1> QED
    BY <1>4, <1>5, <1>6, <1>7 DEF RowChange

LEMMA CalendarStarts == Init => Calendar!CalendarInit
<1> SUFFICES ASSUME Init PROVE Calendar!CalendarInit
    OBVIOUS
<1>1. ASSUME NEW b \in Bookings PROVE PhaseOf(b) = "waiting" /\ ~Held(b)
    BY <1>1 DEF Init, PhaseOf, Held, ByStaff, Blank, ClosedStatuses
<1> QED
    BY <1>1 DEF Calendar!CalendarInit

LEMMA CalendarStep ==
    Core /\ Core' /\ [Next]_vars => [Calendar!CalendarNext]_(Calendar!cvars)
<1> SUFFICES ASSUME Core, Core', [Next]_vars
             PROVE  [Calendar!CalendarNext]_(Calendar!cvars)
    OBVIOUS
<1> DEFINE phase == [b \in Bookings |-> PhaseOf(b)]
           nights == [b \in Bookings |-> NightsOf(b)]
<1>a. /\ Calendar!cvars = <<phase, nights>>
      /\ Calendar!cvars' = <<phase', nights'>>
    BY DEF Calendar!cvars, NightsOf
<1>1. ASSUME NEW c \in Bookings, reservation'[c] = reservation[c]
      PROVE  PhaseOf(c)' = PhaseOf(c) /\ NightsOf(c)' = NightsOf(c)
    BY <1>1 DEF PhaseOf, NightsOf, Held, ByStaff
<1>2. CASE UNCHANGED reservation
  <2>1. phase' = phase /\ nights' = nights
      BY <1>1, <1>2
  <2> QED
      BY <1>a, <2>1
<1>3. ASSUME NEW b \in Bookings, RowChange(b),
             \A c \in Bookings \ {b} : reservation'[c] = reservation[c]
      PROVE  [Calendar!CalendarNext]_(Calendar!cvars)
  <2>1. \A c \in Bookings \ {b} : PhaseOf(c)' = PhaseOf(c) /\ NightsOf(c)' = NightsOf(c)
      BY <1>1, <1>3
  <2>2. phase' = [phase EXCEPT ![b] = PhaseOf(b)'] /\ nights' = [nights EXCEPT ![b] = NightsOf(b)']
      BY <2>1
  <2>3. CASE PhaseOf(b)' = PhaseOf(b) /\ NightsOf(b)' = NightsOf(b)
    <3>1. phase' = phase /\ nights' = nights
        BY <2>1, <2>3
    <3> QED
        BY <1>a, <3>1
  <2>4. CASE /\ PhaseOf(b) = "waiting" /\ PhaseOf(b)' = "staying"
             /\ NightsOf(b) = {} /\ NightsOf(b)' \in SUBSET AllNights
    <3>1. \A c \in Bookings : nights[c] \cap NightsOf(b)' = {}
        BY <2>1, <2>4, FreeNights
    <3>2. Calendar!Occupy(b, NightsOf(b)')
        BY <2>2, <2>4, <3>1 DEF Calendar!Occupy, NightsOf
    <3> QED
        BY <2>4, <3>2 DEF Calendar!CalendarNext, AllNights
  <2>5. CASE PhaseOf(b) # "left" /\ PhaseOf(b)' = "left" /\ NightsOf(b)' = {}
    <3>1. Calendar!Leave(b)
        BY <2>2, <2>5 DEF Calendar!Leave, NightsOf
    <3> QED
        BY <3>1 DEF Calendar!CalendarNext
  <2> QED
      BY <1>3, <2>3, <2>4, <2>5, RowMoves
<1> QED
    BY <1>2, <1>3, OneRowChanges DEF Core, OneRow

\* The handlers, transactions and webhooks of the booking core are one room
\* calendar to the outside: nights are taken only when free, and given up for good.
THEOREM CalendarImplemented == Spec => ImplementsRoomCalendar
<1>1. Init => Calendar!CalendarInit
    BY CalendarStarts
<1>2. Core /\ Core' /\ [Next]_vars => [Calendar!CalendarNext]_(Calendar!cvars)
    BY CalendarStep
<1>3. Spec => []Core
    BY PaidInvariant, PTL
<1> QED
    BY <1>1, <1>2, <1>3, PTL DEF Spec, ImplementsRoomCalendar, Calendar!CalendarSpec

\* A calendar in which a booking takes only nights that are all free never lets
\* two bookings have the same night of a room.
THEOREM CalendarKeepsNightsApart ==
    Calendar!CalendarSpec => []Calendar!OneGuestPerNight
<1> DEFINE phase == [b \in Bookings |-> PhaseOf(b)]
           nights == [b \in Bookings |-> NightsOf(b)]
<1>a. /\ Calendar!cvars = <<phase, nights>>
      /\ Calendar!cvars' = <<phase', nights'>>
    BY DEF Calendar!cvars, NightsOf
<1>b. /\ Calendar!OneGuestPerNight <=>
            \A g, c \in Bookings : g # c => nights[g] \cap nights[c] = {}
      /\ Calendar!OneGuestPerNight' <=>
            \A g, c \in Bookings : g # c => nights'[g] \cap nights'[c] = {}
    BY DEF Calendar!OneGuestPerNight, NightsOf
<1>1. Calendar!CalendarInit => Calendar!OneGuestPerNight
    BY DEF Calendar!CalendarInit, Calendar!OneGuestPerNight
<1>2. ASSUME Calendar!OneGuestPerNight, [Calendar!CalendarNext]_(Calendar!cvars)
      PROVE  Calendar!OneGuestPerNight'
  <2>1. CASE Calendar!cvars' = Calendar!cvars
      BY <1>a, <1>b, <1>2, <2>1
  <2>2. ASSUME NEW g \in Bookings, NEW N, Calendar!Occupy(g, N)
        PROVE  Calendar!OneGuestPerNight'
    <3>1. /\ nights' = [nights EXCEPT ![g] = N]
          /\ \A c \in Bookings : nights[c] \cap N = {}
        BY <2>2 DEF Calendar!Occupy, NightsOf
    <3>2. nights'[g] = N /\ \A c \in Bookings \ {g} : nights'[c] = nights[c]
        BY <3>1
    <3> HIDE DEF nights
    <3> QED
        BY <1>b, <1>2, <3>1, <3>2
  <2>3. ASSUME NEW g \in Bookings, Calendar!Leave(g)
        PROVE  Calendar!OneGuestPerNight'
    <3>1. nights' = [nights EXCEPT ![g] = {}]
        BY <2>3 DEF Calendar!Leave, NightsOf
    <3>2. nights'[g] = {} /\ \A c \in Bookings \ {g} : nights'[c] = nights[c]
        BY <3>1
    <3> HIDE DEF nights
    <3> QED
        BY <1>b, <1>2, <3>2
  <2> QED
      BY <1>2, <2>1, <2>2, <2>3 DEF Calendar!CalendarNext
<1> QED
    BY <1>1, <1>2, PTL DEF Calendar!CalendarSpec

-----------------------------------------------------------------------------
(* One payment, one receipt.  What keeps it: a booking that has been paid  *)
(* is known by its payment date and by the session it names, and every     *)
(* transaction that was open on it when it was paid has been marked.       *)

\* What Stripe has not made belongs to no booking.
Opened == \A t \in Tokens : stripe[t].state = "none" => stripe[t].b = None

\* Nobody works on a booking that does not exist yet.
Unborn ==
    \A b \in Bookings : Absent(b) =>
        /\ receipts[b] = 0
        /\ \A h \in Handlers : job[h].b # b
        /\ \A t \in Tokens : stripe[t].b # b

Announcing(h, b) == job[h].at = "announce" /\ job[h].b = b
Settling(h, b) ==
    job[h].at = "commit" /\ job[h].b = b /\ job[h].verdict \in {"confirm", "refuse"} /\ h \notin dirty
Trusted(b) == Live(b) /\ ~ByStaff(b) /\ OnePayment(b) /\ reservation[b].superseded = "no"

Once(b) ==
    /\ receipts[b] <= 1
    /\ receipts[b] # 0 => Dated(b)
    /\ \A h \in Handlers : Announcing(h, b) => receipts[b] = 0 /\ Dated(b)
    /\ \A h, k \in Handlers : Announcing(h, b) /\ Announcing(k, b) => h = k
    /\ Dated(b) /\ reservation[b].statut \notin ClosedStatuses =>
          /\ reservation[b].statut = "CONFIRMEE"
          /\ reservation[b].stripeSessionId \in Tokens
          /\ stripe[reservation[b].stripeSessionId].b = b
          /\ Completed(reservation[b].stripeSessionId)
    /\ \A h \in Handlers : Settling(h, b) => ~Dated(b)

ReceiptInv == Opened /\ Unborn /\ \A b \in Bookings : Trusted(b) => Once(b)

\* What Stripe has made for a booking stays the booking's, and what it makes is
\* for the booking of a handler at work.
LEMMA StripeGrows ==
    ASSUME TypeOK, Bindings, Opened, [Next]_vars
    PROVE  /\ Opened'
           /\ \A t \in Tokens : \/ stripe'[t].b = stripe[t].b
                                \/ /\ stripe[t].b = None
                                   /\ \E h \in Handlers : stripe'[t].b = job[h].b /\ job[h].b \in Bookings
<1> DEFINE Grown == \A t \in Tokens : \/ stripe'[t].b = stripe[t].b
                                      \/ /\ stripe[t].b = None
                                         /\ \E h \in Handlers : stripe'[t].b = job[h].b /\ job[h].b \in Bookings
<1>0. \A u \in Tokens : stripe[u] \in [state : StripeStates, b : Bookings \cup {None}]
    BY DEF TypeOK
<1>1. CASE UNCHANGED stripe
    BY <1>1 DEF Opened
<1>2. ASSUME NEW h \in Handlers, CheckoutCreate(h) \/ CardCharge(h)
      PROVE  Opened' /\ Grown
  <2>1. PICK u \in Tokens, state \in {"drafted", "captured", "declined"} :
          stripe[u].state = "none" /\ stripe' = [stripe EXCEPT ![u] = [state |-> state, b |-> job[h].b]]
      BY <1>2 DEF CheckoutCreate, CardCharge, Tokens
  <2>2. job[h].b \in Bookings
      BY <1>2 DEF CheckoutCreate, CardCharge, Bindings
  <2>3. stripe'[u].b = job[h].b /\ stripe'[u].state = state /\ \A t \in Tokens \ {u} : stripe'[t] = stripe[t]
      BY <2>1 DEF TypeOK
  <2>4. stripe[u].b = None
      BY <2>1 DEF Opened
  <2> QED
      BY <2>2, <2>3, <2>4 DEF Opened
<1>3. ASSUME NEW u \in Tokens, NEW state \in {"open", "processing", "captured", "failed"},
             stripe' = [stripe EXCEPT ![u].state = state]
      PROVE  Opened' /\ Grown
  <2>1. stripe'[u].b = stripe[u].b /\ stripe'[u].state = state /\ \A t \in Tokens \ {u} : stripe'[t] = stripe[t]
      BY <1>0, <1>3 DEF TypeOK
  <2> QED
      BY <2>1 DEF Opened
<1>4. ASSUME NEW h \in Handlers, CheckoutSave(h) PROVE Opened' /\ Grown
  <2>1. job[h].tok \in Tokens
      BY <1>4, BoundTokens DEF CheckoutSave
  <2> QED
      BY <1>1, <1>3, <1>4, <2>1 DEF CheckoutSave
<1>5. ASSUME NEW u \in Sessions, PayCheckout(u) \/ ResolveDelayed(u) PROVE Opened' /\ Grown
  <2>1. PICK state \in {"processing", "captured", "failed"} : stripe' = [stripe EXCEPT ![u].state = state]
      BY <1>5 DEF PayCheckout, ResolveDelayed
  <2> QED
      BY <1>3, <2>1 DEF Tokens
<1>7. ASSUME NEW h \in Handlers, Customer(h) \/ Webhook(h) \/ Lose(h)
      PROVE  UNCHANGED stripe
    BY <1>7 DEF Customer, Webhook, Lose, BookRead, CheckoutRead, CardRead, RemoveRead,
                CancelRead, SyncSummary, WebhookCompleted, WebhookSessionFailed,
                WebhookIntentFailed
<1>8. ASSUME NEW h \in Handlers, Continue(h)
      PROVE  UNCHANGED stripe \/ CheckoutCreate(h) \/ CheckoutSave(h) \/ CardCharge(h)
    BY <1>8 DEF Continue, Finalize, BookWrite, BookFails, StripeFails,
                SettleRead, SettleNoChange, SettleCommit, SettleAbort, Announce, Delete,
                CancelWrite
<1>9. ASSUME Staff \/ NextDay \/ UNCHANGED vars PROVE UNCHANGED stripe
    BY <1>9 DEF Staff, StaffCreate, StaffUpdate, StaffRemove, NextDay, vars
<1> QED
    BY <1>1, <1>2, <1>4, <1>5, <1>7, <1>8, <1>9 DEF Next

\* A step that begins no transaction, commits none and mails nothing.
Calm ==
    /\ UNCHANGED receipts
    /\ \A k \in Handlers : job'[k].at \in {"commit", "announce"} => job'[k] = job[k]
    /\ \A k \in Handlers : job'[k].at = "commit" /\ k \in dirty => k \in dirty'

\* What the booking of a handler may become.
Sited(k) ==
    \/ job'[k].b \in {job[k].b, None}
    \/ job'[k].b \in Bookings /\ ~Absent(job'[k].b)
    \/ \E t \in Tokens : job'[k].b = stripe[t].b

LEMMA MostStepsCalm ==
    ASSUME TypeOK, [Next]_vars
    PROVE  /\ Calm \/ \E h \in Handlers : SettleRead(h) \/ SettleCommit(h) \/ Announce(h)
           /\ \A k \in Handlers : Sited(k)
           /\ \A k \in Handlers : job'[k].at \in {"commit", "announce"} => job'[k].b = job[k].b
<1> DEFINE Kept == \A k \in Handlers : job'[k].at \in {"commit", "announce"} => job'[k].b = job[k].b
           Fine == Calm /\ (\A k \in Handlers : Sited(k)) /\ Kept
<1>0. \A k \in Handlers : job[k] \in Jobs
    BY DEF TypeOK
<1>a. ASSUME NEW h \in Handlers, Ends(h), UNCHANGED receipts,
             \A k \in Handlers \ {h} : k \in dirty => k \in dirty'
      PROVE  Fine
  <2>1. job'[h].at = "idle" /\ job'[h].b = None /\ \A k \in Handlers \ {h} : job'[k] = job[k]
      BY <1>a, EndsMoves DEF Quiet
  <2> QED
      BY <1>a, <2>1 DEF Calm, Sited
<1>b. ASSUME NEW h \in Handlers, NEW at \in Places \ {"commit", "announce"}, NEW b, NEW t, Becomes(h, at, b, t),
             b = job[h].b \/ (b \in Bookings /\ ~Absent(b)) \/ (\E u \in Tokens : b = stripe[u].b),
             UNCHANGED <<receipts, dirty>>
      PROVE  Fine
  <2>1. job'[h].at = at /\ job'[h].b = b /\ \A k \in Handlers \ {h} : job'[k] = job[k]
      BY <1>b, BecomesMoves
  <2>2. Sited(h)
      BY <1>b, <2>1 DEF Sited
  <2> QED
      BY <1>b, <2>1, <2>2 DEF Calm, Sited
<1>c. ASSUME UNCHANGED <<job, receipts>>, \A k \in Handlers : k \in dirty => k \in dirty'
      PROVE  Fine
    BY <1>c DEF Calm, Sited
<1>p. {"book", "checkout", "checkout_save", "charge", "settle", "remove", "cleanup", "cancel"}
         \subseteq Places \ {"commit", "announce"}
    BY DEF Places
<1>1. ASSUME NEW h \in Handlers, NEW s \in Stays, NEW pay, BookRead(h, s, pay) PROVE Fine
  <2>1. /\ job'[h].at = "book" /\ job'[h].b = None /\ \A k \in Handlers \ {h} : job'[k] = job[k]
        /\ UNCHANGED <<receipts, dirty>>
      BY <1>1 DEF BookRead, Quiet, TypeOK
  <2> QED
      BY <2>1 DEF Calm, Sited
<1>2. ASSUME NEW h \in Handlers, NEW b \in Bookings,
             CheckoutRead(h, b) \/ CardRead(h, b) \/ RemoveRead(h, b) \/ CancelRead(h, b)
      PROVE  Fine
  <2>1. ~Absent(b)
      BY <1>2 DEF CheckoutRead, CardRead, RemoveRead, CancelRead, Unpaid, CancellationAllowed, Absent, Statuts
  <2>2. PICK at \in {"checkout", "charge", "remove", "cancel"} : Becomes(h, at, b, None) /\ UNCHANGED <<receipts, dirty>>
      BY <1>2 DEF CheckoutRead, CardRead, RemoveRead, CancelRead
  <2> QED
      BY <1>b, <1>p, <2>1, <2>2
<1>3. ASSUME NEW h \in Handlers, NEW t \in Tokens,
             SyncSummary(h, t) \/ WebhookCompleted(h, t) \/ WebhookSessionFailed(h, t) \/ WebhookIntentFailed(h, t)
      PROVE  Fine
  <2>1. PICK at \in {"settle", "cleanup"}, u \in Tokens \cup {None} :
          Becomes(h, at, stripe[t].b, u) /\ UNCHANGED <<receipts, dirty>>
      BY <1>3 DEF SyncSummary, WebhookCompleted, WebhookSessionFailed, WebhookIntentFailed
  <2> QED
      BY <1>b, <1>p, <2>1
<1>4. ASSUME NEW h \in Handlers, BookWrite(h) \/ BookFails(h) \/ StripeFails(h)
      PROVE  Fine
    BY <1>4, <1>a DEF BookWrite, BookFails, StripeFails
<1>5. ASSUME NEW h \in Handlers, CheckoutCreate(h) PROVE Fine
    BY <1>5, <1>b, <1>p DEF CheckoutCreate
<1>6. ASSUME NEW h \in Handlers, CardCharge(h) PROVE Fine
    BY <1>6, <1>a, <1>b, <1>p DEF CardCharge
<1>7. ASSUME NEW h \in Handlers, CheckoutSave(h) \/ Delete(h) \/ CancelWrite(h) PROVE Fine
    BY <1>7, <1>a DEF CheckoutSave, Delete, CancelWrite, Write
<1>8. ASSUME NEW h \in Handlers, SettleNoChange(h) \/ Lose(h) PROVE Fine
    BY <1>8, <1>a DEF SettleNoChange, Lose
<1>9. ASSUME NEW h \in Handlers, SettleAbort(h) PROVE Fine
  <2>1. UNCHANGED receipts /\ \A k \in Handlers \ {h} : k \in dirty => k \in dirty'
      BY <1>9 DEF SettleAbort
  <2>2. CASE Ends(h)
      BY <1>a, <2>1, <2>2
  <2>3. CASE job' = [job EXCEPT ![h].at = "settle", ![h].verdict = "none", ![h].tries = 1]
    <3>1. job'[h].at = "settle" /\ job'[h].b = job[h].b /\ \A k \in Handlers \ {h} : job'[k] = job[k]
        BY <1>0, <2>3 DEF TypeOK, Jobs
    <3> QED
        BY <2>1, <3>1 DEF Calm, Sited
  <2> QED
      BY <1>9, <2>2, <2>3 DEF SettleAbort
<1>10. ASSUME NEW h \in Handlers, SettleRead(h) \/ SettleCommit(h) \/ Announce(h)
       PROVE  (\A k \in Handlers : Sited(k)) /\ Kept
  <2>1. (job'[h].b = job[h].b \/ (job'[h].b = None /\ job'[h].at = "idle"))
        /\ \A k \in Handlers \ {h} : job'[k] = job[k]
    <3>1. CASE Announce(h)
        BY <3>1, EndsMoves DEF Announce, Quiet
    <3>2. CASE SettleRead(h)
        BY <1>0, <3>2 DEF SettleRead, TypeOK, Jobs
    <3>3. CASE SettleCommit(h)
        BY <1>0, <3>3 DEF SettleCommit, TypeOK, Jobs
    <3> QED
        BY <1>10, <3>1, <3>2, <3>3
  <2> QED
      BY <2>1 DEF Sited
<1>11. ASSUME Staff PROVE Fine
  <2>1. UNCHANGED <<job, receipts>> /\ \A k \in Handlers : k \in dirty => k \in dirty'
      BY <1>11 DEF Staff, StaffCreate, StaffUpdate, StaffRemove, Write
  <2> QED
      BY <1>c, <2>1
<1>12. ASSUME NextDay \/ UNCHANGED vars \/ (\E t \in Sessions : PayCheckout(t) \/ ResolveDelayed(t))
       PROVE  Fine
    BY <1>12, <1>c DEF NextDay, vars, PayCheckout, ResolveDelayed
<1>13. ASSUME NEW h \in Handlers, Customer(h) \/ Webhook(h) PROVE Fine
    BY <1>13, <1>1, <1>2, <1>3 DEF Customer, Webhook, Tokens
<1>14. ASSUME NEW h \in Handlers, Continue(h)
       PROVE  Fine \/ SettleRead(h) \/ SettleCommit(h) \/ Announce(h)
    BY <1>14, <1>4, <1>5, <1>6, <1>7, <1>8, <1>9 DEF Continue, Finalize
<1>15. Fine \/ \E h \in Handlers : SettleRead(h) \/ SettleCommit(h) \/ Announce(h)
    BY <1>8, <1>11, <1>12, <1>13, <1>14 DEF Next
<1> HIDE DEF Kept
<1> QED
    BY <1>10, <1>15 DEF Kept

\* Receipts are mailed where a payment is announced, and nowhere else.
LEMMA ReceiptsOf ==
    ASSUME TypeOK, [Next]_vars, NEW b \in Bookings, \A h \in Handlers : job[h].b # b
    PROVE  receipts'[b] = receipts[b]
<1>1. CASE Calm
    BY <1>1 DEF Calm
<1>2. ASSUME NEW h \in Handlers, SettleRead(h) \/ SettleCommit(h) \/ Announce(h)
      PROVE  receipts'[b] = receipts[b]
    BY <1>2 DEF SettleRead, SettleCommit, Announce, TypeOK
<1> QED
    BY <1>1, <1>2, MostStepsCalm

LEMMA UnbornStep ==
    ASSUME Core, Opened, Unborn, [Next]_vars
    PROVE  Unborn'
<1> SUFFICES ASSUME NEW b \in Bookings, Absent(b)'
             PROVE  /\ receipts'[b] = 0
                    /\ \A h \in Handlers : job'[h].b # b
                    /\ \A t \in Tokens : stripe'[t].b # b
    BY DEF Unborn
<1>1. Absent(b)
  <2>1. reservation'[b] = reservation[b] \/ RowChange(b)
      BY OneRowChanges DEF Core, OneRow
  <2>2. "ABSENT" \notin Statuts
      BY DEF Statuts
  <2> QED
      BY <2>1, <2>2 DEF RowChange, Created, Absent, OpenedCheckout, PaidFor, Deleted, Cancelled, Edited
<1>2. receipts[b] = 0 /\ (\A h \in Handlers : job[h].b # b) /\ \A t \in Tokens : stripe[t].b # b
    BY <1>1 DEF Unborn
<1>3. receipts'[b] = 0
    BY <1>2, ReceiptsOf DEF Core
<1>4. \A h \in Handlers : job'[h].b # b
    BY <1>1, <1>2, NoneAssumption, MostStepsCalm DEF Core, Sited
<1>5. \A t \in Tokens : stripe'[t].b # b
    BY <1>2, StripeGrows DEF Core
<1> QED
    BY <1>3, <1>4, <1>5

\* What a payment for the booking was stays one.
LEMMA CompletedStays ==
    ASSUME TypeOK, Bindings, [Next]_vars, NEW b, NEW t \in Tokens, stripe[t].b = b, Completed(t)
    PROVE  stripe'[t].b = b /\ Completed(t)'
BY PaymentsStay DEF Completed

\* The session and the payment of a row that is not paid for, edited, deleted, or
\* given another session after it was paid.
LEMMA RowStays ==
    ASSUME NEW b \in Bookings, Trusted(b)',
           reservation'[b] = reservation[b] \/ OpenedCheckout(b) \/ Cancelled(b)
    PROVE  /\ Dated(b)' <=> Dated(b)
           /\ reservation'[b].statut \in ClosedStatuses \/ reservation'[b].statut = reservation[b].statut
           /\ Dated(b) => reservation'[b].stripeSessionId = reservation[b].stripeSessionId
BY DEF OpenedCheckout, Cancelled, Dated, ClosedStatuses, Trusted

\* A step that leaves the transactions, the announcements and the receipts of a
\* booking alone.
LEMMA OnceKept ==
    ASSUME TypeOK, Bindings, [Next]_vars, NEW b \in Bookings, Trusted(b)', Once(b),
           reservation'[b] = reservation[b] \/ OpenedCheckout(b) \/ Cancelled(b),
           receipts'[b] = receipts[b],
           \A k \in Handlers : Announcing(k, b)' => Announcing(k, b),
           \A k \in Handlers : Settling(k, b)' => Settling(k, b)
    PROVE  Once(b)'
<1>1. /\ Dated(b)' <=> Dated(b)
      /\ reservation'[b].statut \in ClosedStatuses \/ reservation'[b].statut = reservation[b].statut
      /\ Dated(b) => reservation'[b].stripeSessionId = reservation[b].stripeSessionId
    BY RowStays
<1>3. Dated(b)' /\ reservation'[b].statut \notin ClosedStatuses =>
        /\ reservation'[b].statut = "CONFIRMEE"
        /\ reservation'[b].stripeSessionId \in Tokens
        /\ stripe'[reservation'[b].stripeSessionId].b = b
        /\ Completed(reservation[b].stripeSessionId)'
  <2> SUFFICES ASSUME Dated(b)', reservation'[b].statut \notin ClosedStatuses
               PROVE  /\ reservation'[b].statut = "CONFIRMEE"
                      /\ reservation'[b].stripeSessionId \in Tokens
                      /\ stripe'[reservation'[b].stripeSessionId].b = b
                      /\ Completed(reservation[b].stripeSessionId)'
      OBVIOUS
  <2>1. PICK t : t = reservation[b].stripeSessionId
      OBVIOUS
  <2>2. reservation'[b].stripeSessionId = t /\ reservation'[b].statut = reservation[b].statut
      BY <1>1, <2>1
  <2>3. reservation[b].statut = "CONFIRMEE" /\ t \in Tokens /\ stripe[t].b = b /\ Completed(t)
      BY <1>1, <2>1, <2>2 DEF Once
  <2>4. stripe'[t].b = b /\ Completed(t)'
      BY <2>3, CompletedStays
  <2> QED
      BY <2>2, <2>3, <2>4 DEF Completed
<1>4. /\ receipts'[b] <= 1
      /\ receipts'[b] # 0 => Dated(b)'
    BY <1>1 DEF Once
<1>5. \A h \in Handlers : Announcing(h, b)' => receipts'[b] = 0 /\ Dated(b)'
    BY <1>1 DEF Once
<1>6. \A h, k \in Handlers : Announcing(h, b)' /\ Announcing(k, b)' => h = k
    BY DEF Once
<1>7. \A h \in Handlers : Settling(h, b)' => ~Dated(b)'
    BY <1>1 DEF Once
<1> QED
    BY <1>3, <1>4, <1>5, <1>6, <1>7 DEF Once

\* A booking that has just come to be: nobody has paid, announces or settles it.
LEMMA OnceBorn ==
    ASSUME TypeOK, Unborn, [Next]_vars, NEW b \in Bookings, Created(b)
    PROVE  Once(b)'
<1>1. receipts[b] = 0 /\ \A h \in Handlers : job[h].b # b
    BY DEF Unborn, Created
<1>2. receipts'[b] = 0
    BY <1>1, ReceiptsOf
<1>3. \A k \in Handlers : job'[k].at \in {"commit", "announce"} => job'[k].b # b
    BY <1>1, MostStepsCalm
<1>4. ~Dated(b)'
    BY DEF Created
<1>5. \A h \in Handlers : ~Announcing(h, b)' /\ ~Settling(h, b)'
    BY <1>3 DEF Announcing, Settling
<1> QED
    BY <1>2, <1>4, <1>5 DEF Once

\* A transaction that begins after the payment finds the booking paid for.
LEMMA OnceRead ==
    ASSUME Core, [Next]_vars, NEW b \in Bookings, Trusted(b), Trusted(b)', Once(b),
           NEW h \in Handlers, SettleRead(h)
    PROVE  Once(b)'
<1>1. job[h] \in Jobs
    BY DEF Core, TypeOK
<1>2. /\ job[h].at = "settle" /\ job'[h].at = "commit" /\ job'[h].b = job[h].b
      /\ job'[h].verdict = Verdict(job[h].b, job[h].tok)
      /\ \A k \in Handlers \ {h} : job'[k] = job[k]
      /\ dirty' = dirty \ {h} /\ UNCHANGED <<reservation, receipts>>
    BY <1>1 DEF SettleRead, Core, TypeOK, Jobs
<1>3. \A k \in Handlers : Announcing(k, b)' => Announcing(k, b)
    BY <1>2 DEF Announcing
<1>4. \A k \in Handlers \ {h} : Settling(k, b)' => Settling(k, b)
    BY <1>2 DEF Settling
<1>5. Settling(h, b)' => ~Dated(b)
  <2> SUFFICES ASSUME Settling(h, b)', Dated(b) PROVE FALSE
      OBVIOUS
  <2>1. PICK t : t = job[h].tok
      OBVIOUS
  <2>2. job[h].b = b /\ Verdict(b, t) \in {"confirm", "refuse"}
      BY <1>2, <2>1 DEF Settling
  <2>3. t \in Tokens /\ stripe[t].b = b /\ Completed(t)
      BY <1>2, <2>1, <2>2 DEF Core, Bindings, Completed
  <2>4. Live(b) /\ reservation[b].statut \notin ClosedStatuses
      BY <2>2 DEF Trusted, Verdict
  <2>5. /\ reservation[b].statut = "CONFIRMEE" /\ reservation[b].stripeSessionId \in Tokens
        /\ stripe[reservation[b].stripeSessionId].b = b
        /\ Completed(reservation[b].stripeSessionId)
      BY <2>4 DEF Once
  <2>6. reservation[b].stripeSessionId = t
      BY <2>3, <2>5 DEF Trusted, OnePayment
  <2>7. Verdict(b, t) = "unchanged"
      BY <2>4, <2>5, <2>6 DEF Verdict, Dated
  <2> QED
      BY <2>2, <2>7
<1>6. /\ Dated(b)' <=> Dated(b)
      /\ reservation'[b] = reservation[b] /\ receipts'[b] = receipts[b]
    BY <1>2 DEF Dated
<1>7. UNCHANGED stripe
    BY DEF SettleRead
<1>8. \A k \in Handlers : Settling(k, b)' => ~Dated(b)'
    BY <1>4, <1>5, <1>6 DEF Once
<1> QED
    BY <1>3, <1>6, <1>7, <1>8 DEF Once, Completed

\* A payment commits: it was the first, and every other transaction is marked.
LEMMA OnceCommit ==
    ASSUME Core, [Next]_vars, NEW b \in Bookings, Trusted(b)', Once(b),
           NEW h \in Handlers, SettleCommit(h)
    PROVE  Once(b)'
<1>1. job[h] \in Jobs /\ reservation[b] \in Rows
    BY DEF Core, TypeOK
<1>2. PICK c \in Bookings : c = job[h].b
    BY DEF SettleCommit, Core, Bindings
<1>3. /\ job[h].at = "commit" /\ job'[h].at = "announce" /\ job'[h].b = c
      /\ \A k \in Handlers \ {h} : job'[k] = job[k]
      /\ \A k \in Handlers : k \in dirty \/ k \in Rivals(h) => k \in dirty'
      /\ UNCHANGED <<stripe, receipts>>
      /\ reservation' = [reservation EXCEPT ![c] = Settled(reservation[c], job[h].verdict, job[h].tok)]
    BY <1>1, <1>2 DEF SettleCommit, Core, TypeOK, Jobs
<1>4. CASE b # c
  <2>1. reservation'[b] = reservation[b]
      BY <1>3, <1>4 DEF Core, TypeOK
  <2>2. \A k \in Handlers : Announcing(k, b)' => Announcing(k, b)
      BY <1>3, <1>4 DEF Announcing
  <2>3. \A k \in Handlers : Settling(k, b)' => Settling(k, b)
      BY <1>3 DEF Settling
  <2> QED
      BY <1>3, <2>1, <2>2, <2>3, OnceKept DEF Core
<1>5. CASE b = c
  <2>1. Settling(h, b)
      BY <1>2, <1>5 DEF SettleCommit, Settling
  <2>2. ~Dated(b) /\ receipts[b] = 0 /\ \A k \in Handlers : ~Announcing(k, b)
      BY <2>1 DEF Once
  <2>3. PICK t : t = job[h].tok
      OBVIOUS
  <2>4. t \in Tokens /\ stripe[t].b = b /\ stripe[t].state \in {"processing", "captured", "failed"}
      BY <1>2, <1>3, <1>5, <2>3 DEF Core, Bindings
  <2>5. reservation'[b] = Settled(reservation[b], job[h].verdict, t)
      BY <1>3, <1>5, <2>3 DEF Core, TypeOK
  <2>6. /\ reservation'[b].statut \in {"CONFIRMEE", "REFUSEE"} /\ reservation'[b].stripeSessionId = t
        /\ Dated(b)'
      BY <1>1, <2>5, SettledFields DEF Dated
  <2>7. \A k \in Handlers : Announcing(k, b)' => k = h
      BY <1>3, <2>2 DEF Announcing
  <2>8. \A k \in Handlers : ~Settling(k, b)'
    <3> SUFFICES ASSUME NEW k \in Handlers, Settling(k, b)' PROVE FALSE
        OBVIOUS
    <3>1. k # h /\ job'[k] = job[k] /\ k \notin dirty'
        BY <1>3 DEF Settling
    <3>2. job[k].at = "commit" /\ job[k].b = job[h].b
        BY <1>2, <1>5, <3>1 DEF Settling
    <3>3. k \in Rivals(h)
        BY <3>1, <3>2 DEF Rivals
    <3> QED
        BY <1>3, <3>1, <3>3
  <2>9. "REFUSEE" \in ClosedStatuses
      BY DEF ClosedStatuses
  <2> QED
      BY <1>3, <2>2, <2>4, <2>6, <2>7, <2>8, <2>9 DEF Once, Completed
<1> QED
    BY <1>4, <1>5

\* A payment is announced: no other announcement is under way, and no receipt was sent.
LEMMA OnceAnnounced ==
    ASSUME Core, [Next]_vars, NEW b \in Bookings, Trusted(b)', Once(b),
           NEW h \in Handlers, Announce(h)
    PROVE  Once(b)'
<1>1. /\ job[h].at = "announce" /\ job'[h].at = "idle" /\ \A k \in Handlers \ {h} : job'[k] = job[k]
      /\ UNCHANGED <<reservation, stripe, dirty>>
    BY EndsMoves DEF Announce, Core
<1>2. \A k \in Handlers : Settling(k, b)' => Settling(k, b)
    BY <1>1 DEF Settling
<1>3. \A k \in Handlers : Announcing(k, b)' => k # h /\ Announcing(k, b)
    BY <1>1 DEF Announcing
<1>4. CASE job[h].b # b
  <2>1. receipts'[b] = receipts[b]
      BY <1>4 DEF Announce, Core, TypeOK
  <2> QED
      BY <1>1, <1>2, <1>3, <2>1, OnceKept DEF Core
<1>5. CASE job[h].b = b
  <2>1. Announcing(h, b)
      BY <1>1, <1>5 DEF Announcing
  <2>2. receipts[b] = 0 /\ Dated(b) /\ \A k \in Handlers : ~Announcing(k, b)'
      BY <1>3, <2>1 DEF Once
  <2>3. receipts'[b] \in {0, 1}
      BY <1>5, <2>2 DEF Announce, Core, TypeOK
  <2>4. Dated(b)'
      BY <1>1, <2>2 DEF Dated
  <2> QED
      BY <1>1, <1>2, <2>2, <2>3, <2>4 DEF Once, Completed
<1> QED
    BY <1>4, <1>5

LEMMA OnceStep ==
    ASSUME Core, ReceiptInv, [Next]_vars, NEW b \in Bookings, Trusted(b)'
    PROVE  Once(b)'
<1>1. reservation'[b] = reservation[b] \/ RowChange(b)
    BY OneRowChanges DEF Core, OneRow
<1>2. TypeOK /\ Bindings /\ Opened /\ Unborn
    BY DEF Core, ReceiptInv
<1>3. CASE Created(b)
    BY <1>2, <1>3, OnceBorn
<1>4. CASE ~Created(b)
  <2>1. Live(b)' /\ ~ByStaff(b)' /\ OnePayment(b)' /\ reservation'[b].superseded = "no"
      BY DEF Trusted
  <2>2. ~Deleted(b) /\ ~Edited(b)
      BY <2>1 DEF Deleted, Edited, Live, Statuts
  <2>3. Live(b) /\ ~ByStaff(b)
      BY <1>1, <1>4, <2>1, <2>2 DEF RowChange, OpenedCheckout, PaidFor, Cancelled, Live, ByStaff
  <2>4. OnePayment(b)
    <3> SUFFICES ASSUME NEW t \in Tokens, NEW u \in Tokens, stripe[t].b = b, stripe[u].b = b,
                        Completed(t), Completed(u)
                 PROVE  t = u
        BY DEF OnePayment
    <3>1. stripe'[t].b = b /\ Completed(t)' /\ stripe'[u].b = b /\ Completed(u)'
        BY <1>2, CompletedStays
    <3> QED
        BY <2>1, <3>1 DEF OnePayment
  <2>a. reservation[b].superseded = "no"
      BY <1>1, <1>4, <2>1, <2>2 DEF RowChange, OpenedCheckout, PaidFor, Cancelled
  <2>5. Trusted(b) /\ Once(b)
      BY <2>3, <2>4, <2>a DEF Trusted, ReceiptInv
  <2>6. CASE Calm
    <3>1. ~PaidFor(b)
      <4> SUFFICES ASSUME NEW h \in Handlers, SettleCommit(h) PROVE FALSE
          BY DEF PaidFor
      <4>1. job[h] \in Jobs
          BY <1>2 DEF TypeOK
      <4>2. job[h].at = "commit" /\ job'[h].at = "announce"
          BY <1>2, <4>1 DEF SettleCommit, TypeOK, Jobs
      <4> QED
          BY <2>6, <4>2 DEF Calm
    <3>2. reservation'[b] = reservation[b] \/ OpenedCheckout(b) \/ Cancelled(b)
        BY <1>1, <1>4, <2>2, <3>1 DEF RowChange
    <3>3. \A k \in Handlers : Announcing(k, b)' => Announcing(k, b)
        BY <2>6 DEF Calm, Announcing
    <3>4. \A k \in Handlers : Settling(k, b)' => Settling(k, b)
        BY <2>6 DEF Calm, Settling
    <3>5. receipts'[b] = receipts[b]
        BY <2>6 DEF Calm
    <3> QED
        BY <1>2, <2>5, <3>2, <3>3, <3>4, <3>5, OnceKept
  <2> QED
      BY <1>2, <2>5, <2>6, MostStepsCalm, OnceRead, OnceCommit, OnceAnnounced
<1> QED
    BY <1>3, <1>4

LEMMA ReceiptInit == Init => ReceiptInv
<1> SUFFICES ASSUME Init PROVE ReceiptInv
    OBVIOUS
<1>1. Opened
    BY DEF Init, Opened
<1>2. Unborn
    BY NoneAssumption DEF Init, Unborn, Quiet
<1>3. \A b \in Bookings : ~Trusted(b)
    BY DEF Init, Trusted, Live, Blank, Statuts
<1> QED
    BY <1>1, <1>2, <1>3 DEF ReceiptInv

LEMMA ReceiptStep == Core /\ ReceiptInv /\ [Next]_vars => ReceiptInv'
<1> SUFFICES ASSUME Core, ReceiptInv, [Next]_vars PROVE ReceiptInv'
    OBVIOUS
<1>1. Opened' /\ Unborn'
    BY StripeGrows, UnbornStep DEF Core, ReceiptInv
<1>2. \A b \in Bookings : Trusted(b)' => Once(b)'
    BY OnceStep
<1> QED
    BY <1>1, <1>2 DEF ReceiptInv

\* A booking that was paid once, that staff left alone and to which no other
\* session was written once it was paid gets one receipt at most, whatever
\* deliveries of the payment's events, retries and requests finalize it and
\* whatever sessions and cards were tried beside it, for any number of them.
THEOREM SingleReceiptHolds == Spec => []SingleReceipt
<1>1. ReceiptInv => SingleReceipt
    BY DEF ReceiptInv, Trusted, Once, SingleReceipt
<1>2. Init => Core /\ ReceiptInv
    BY CoreInit, ReceiptInit
<1>3. Core /\ ReceiptInv /\ [Next]_vars => (Core /\ ReceiptInv)'
    BY CoreStep, ReceiptStep
<1> QED
    BY <1>1, <1>2, <1>3, PTL DEF Spec
=============================================================================
