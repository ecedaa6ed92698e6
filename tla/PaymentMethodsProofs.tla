------------------------ MODULE PaymentMethodsProofs ------------------------
(***************************************************************************)
(* One default card, and the customer's cards attached, for any number of  *)
(* cards and requests.                                                     *)
(***************************************************************************)
EXTENDS PaymentMethods, TLAPS

CardRows == [saved : BOOLEAN, isDefault : BOOLEAN, older : SUBSET Cards]
Stripes == [session : [Cards -> [state : StripeStates, cust : Customers \cup {None}, want : BOOLEAN]],
            holder : [Cards -> Customers \cup {"loose", "detached"}],
            customers : SUBSET Customers,
            default : [Customers -> Cards \cup {None}]]

\* The table: cards of any set of saved ones can be told apart by their age.
TypedRows ==
    /\ row \in [Cards -> CardRows]
    /\ \A c \in Cards : row[c].older \subseteq Rows /\ (Saved(c) \/ row[c] = NoRow)
    /\ \A T \in SUBSET Rows : T # {} => \E d \in T : row[d].older \cap T = {}

\* Stripe: a session has a customer.
TypedStripe ==
    /\ customer \in Customers \cup {None}
    /\ stripe \in Stripes
    /\ \A c \in Cards : stripe.session[c].state # "none" => stripe.session[c].cust \in Customers

\* A request is about a card and, once it has found it, of a customer.
Known(j) ==
    /\ j.at # "idle" => j.c \in Cards
    /\ j.at \in {"customer_save", "session", "method", "attach"} => j.cust \in Customers
    /\ j.at = "commit" /\ j.op = "remove" => j.next # j.c
TypedJobs == job \in [Handlers -> Jobs] /\ \A h \in Handlers : Known(job[h])

TypedRest ==
    /\ crossed \subseteq Handlers
    /\ ordered \in BOOLEAN /\ calm \in BOOLEAN
    /\ faults \in 0 .. MaxFaults

Typed == TypedRows /\ TypedStripe /\ TypedJobs /\ TypedRest

LEMMA TypedIsTypeOK == Typed /\ behind \in BOOLEAN => TypeOK
BY DEF Typed, TypedRows, TypedStripe, TypedJobs, TypedRest, TypeOK, CardRows, Stripes

-----------------------------------------------------------------------------
(* The table. *)

LEMMA RowsMeaning == \A c \in Cards : c \in Rows <=> row[c].saved
BY DEF Rows, Saved

LEMMA DefaultsMeaning == \A c \in Cards : c \in Defaults <=> row[c].saved /\ row[c].isDefault
BY DEF Defaults, Rows, Saved

LEMMA SameCard ==
    ASSUME NEW r \in CardRows, NEW s \in CardRows,
           r.saved = s.saved, r.isDefault = s.isDefault, r.older = s.older
    PROVE  r = s
BY DEF CardRows

LEMMA NoRowIsCard ==
    /\ NoRow \in CardRows
    /\ NoRow.saved = FALSE /\ NoRow.isDefault = FALSE /\ NoRow.older = {}
BY DEF NoRow, CardRows

\* Of any set of cards one was saved first.
LEMMA OldestExists ==
    ASSUME TypedRows, NEW c \in Cards, Rows \ {c} # {}
    PROVE  Oldest(c) # {}
<1>1. PICK d \in Rows \ {c} : row[d].older \cap (Rows \ {c}) = {}
    BY DEF TypedRows
<1>2. d \in Cards /\ row[d].older \subseteq Rows
    BY <1>1 DEF TypedRows, Rows
<1>3. row[d].older \subseteq {c}
    BY <1>1, <1>2
<1> QED
    BY <1>1, <1>3 DEF Oldest

\* A card is written: it is as old as it was, or the youngest.
LEMMA WriteRow ==
    ASSUME TypedRows, NEW c \in Cards, row' \in [Cards -> CardRows], row'[c].saved,
           row'[c].older = IF Saved(c) THEN row[c].older ELSE Rows,
           \A d \in Cards : d # c => row'[d].saved = row[d].saved /\ row'[d].older = row[d].older
                                     /\ (~Saved(d) => row'[d] = row[d])
    PROVE  TypedRows'
<1>1. Rows' = Rows \cup {c}
    BY RowsMeaning DEF Rows, Saved
<1>2. ASSUME NEW d \in Cards
      PROVE  row'[d].older \subseteq Rows' /\ (Saved(d)' \/ row'[d] = NoRow)
    BY <1>1 DEF TypedRows, Saved
<1>3. ASSUME NEW T \in SUBSET (Rows'), T # {}
      PROVE  \E d \in T : row'[d].older \cap T = {}
  <2>1. CASE Saved(c) \/ c \notin T
    <3>1. T \in SUBSET Rows
        BY <1>1, <2>1 DEF Rows
    <3>2. PICK d \in T : row[d].older \cap T = {}
        BY <1>3, <3>1 DEF TypedRows
    <3>3. d \in Cards /\ Saved(d)
        BY <3>1, <3>2 DEF Rows
    <3>4. row'[d].older = row[d].older
        BY <3>3, <2>1, <3>2
    <3> QED
        BY <3>2, <3>4
  <2>2. CASE ~Saved(c) /\ c \in T
    <3>1. c \notin Rows /\ row'[c].older = Rows
        BY <2>2 DEF Rows
    <3>2. CASE T = {c}
        BY <3>1, <3>2
    <3>3. CASE T # {c}
      <4>1. T \ {c} \in SUBSET Rows /\ T \ {c} # {}
          BY <1>1, <1>3, <2>2, <3>3
      <4>2. PICK d \in T \ {c} : row[d].older \cap (T \ {c}) = {}
          BY <4>1 DEF TypedRows
      <4>3. d \in Cards /\ row[d].older \subseteq Rows
          BY <4>1, <4>2 DEF TypedRows, Rows
      <4>4. row'[d].older = row[d].older
          BY <4>2, <4>3
      <4> QED
          BY <3>1, <4>2, <4>3, <4>4
    <3> QED
        BY <3>2, <3>3
  <2> QED
      BY <2>1, <2>2
<1> QED
    BY <1>2, <1>3 DEF TypedRows

LEMMA ClaimRow ==
    ASSUME TypedRows, NEW c \in Cards, NEW out, row' = Claimed(c, out)
    PROVE  /\ TypedRows' /\ Rows' = Rows \cup {c}
           /\ Defaults' = (Defaults \ out) \cup {c}
<1>1. ASSUME NEW d \in Cards
      PROVE  row'[d] = IF d = c THEN Written(c, TRUE)
                       ELSE IF d \in out THEN [row[d] EXCEPT !.isDefault = FALSE] ELSE row[d]
    BY DEF Claimed
<1>2. Written(c, TRUE) \in CardRows /\ Written(c, TRUE).saved /\ Written(c, TRUE).isDefault
      /\ Written(c, TRUE).older = IF Saved(c) THEN row[c].older ELSE Rows
  <2>1. (IF Saved(c) THEN row[c].older ELSE Rows) \in SUBSET Cards
      BY DEF TypedRows, CardRows, Rows
  <2> QED
      BY <2>1 DEF Written, CardRows
<1>3. ASSUME NEW d \in Cards, d # c
      PROVE  /\ row'[d] \in CardRows /\ row'[d].saved = row[d].saved /\ row'[d].older = row[d].older
             /\ row'[d].isDefault <=> row[d].isDefault /\ d \notin out
             /\ ~Saved(d) => row'[d] = row[d]
  <2>1. row[d] \in CardRows /\ (Saved(d) \/ row[d] = NoRow)
      BY DEF TypedRows
  <2>2. CASE d \in out
    <3>1. row'[d] = [row[d] EXCEPT !.isDefault = FALSE]
        BY <1>1, <1>3, <2>2
    <3>2. row[d] = NoRow => row'[d] = row[d]
      <4>1. [row[d] EXCEPT !.isDefault = FALSE] \in CardRows
          BY <2>1 DEF CardRows
      <4>2. /\ [row[d] EXCEPT !.isDefault = FALSE].saved = row[d].saved
            /\ [row[d] EXCEPT !.isDefault = FALSE].isDefault = FALSE
            /\ [row[d] EXCEPT !.isDefault = FALSE].older = row[d].older
          BY <2>1 DEF CardRows
      <4> QED
          BY <2>1, <3>1, <4>1, <4>2, NoRowIsCard, SameCard
    <3> QED
        BY <2>1, <2>2, <3>1, <3>2 DEF CardRows
  <2>3. CASE d \notin out
      BY <1>1, <1>3, <2>1, <2>3
  <2> QED
      BY <2>2, <2>3
<1>4. row'[c] = Written(c, TRUE)
    BY <1>1
<1>5. row' \in [Cards -> CardRows]
  <2>1. \A d \in Cards : row'[d] \in CardRows
      BY <1>2, <1>3, <1>4
  <2>2. row' = [d \in Cards |-> row'[d]]
      BY DEF Claimed
  <2> QED
      BY <2>1, <2>2
<1>6. TypedRows'
    BY <1>2, <1>3, <1>4, <1>5, WriteRow
<1>7. Rows' = Rows \cup {c}
  <2>1. \A d \in Cards : row'[d].saved <=> row[d].saved \/ d = c
      BY <1>2, <1>3, <1>4
  <2> QED
      BY <2>1 DEF Rows, Saved
<1>8. Defaults' = (Defaults \ out) \cup {c}
  <2>1. \A d \in Cards : (row'[d].saved /\ row'[d].isDefault)
                           <=> (row[d].saved /\ row[d].isDefault /\ d \notin out) \/ d = c
      BY <1>2, <1>3, <1>4
  <2>2. \A d : d \in Defaults' <=> d \in Cards /\ row'[d].saved /\ row'[d].isDefault
      BY DEF Defaults, Rows, Saved
  <2>3. \A d : d \in Defaults <=> d \in Cards /\ row[d].saved /\ row[d].isDefault
      BY DEF Defaults, Rows, Saved
  <2> QED
      BY <2>1, <2>2, <2>3
<1> QED
    BY <1>6, <1>7, <1>8
\* A card that is not the default is written as it was, or for the first time.
LEMMA RewriteRow ==
    ASSUME TypedRows, NEW c \in Cards, row' = [row EXCEPT ![c] = Written(c, FALSE)]
    PROVE  TypedRows' /\ Rows' = Rows \cup {c} /\ Defaults' = Defaults \ {c}
<1>1. (IF Saved(c) THEN row[c].older ELSE Rows) \in SUBSET Cards
    BY DEF TypedRows, CardRows, Rows
<1>2. PICK w : w = Written(c, FALSE)
    OBVIOUS
<1>3. w \in CardRows /\ w.saved = TRUE /\ w.isDefault = FALSE
      /\ w.older = IF Saved(c) THEN row[c].older ELSE Rows
    BY <1>1, <1>2 DEF Written, CardRows
<1>4. row' = [row EXCEPT ![c] = w] /\ row \in [Cards -> CardRows]
    BY <1>2 DEF TypedRows
<1>5. row' \in [Cards -> CardRows] /\ row'[c] = w /\ \A d \in Cards : d # c => row'[d] = row[d]
    BY <1>3, <1>4
<1>6. TypedRows'
    BY <1>3, <1>5, WriteRow
<1>7. Rows' = Rows \cup {c}
    BY <1>3, <1>5 DEF Rows, Saved
<1>8. Defaults' = Defaults \ {c}
    BY <1>3, <1>5 DEF Defaults, Rows, Saved
<1> QED
    BY <1>6, <1>7, <1>8

\* A card is deleted, and another may take its place as the default.
LEMMA RemoveRow ==
    ASSUME TypedRows, NEW c \in Cards, NEW f, f \in Rows \/ f \notin Cards, f # c,
           row' = Removed(c, f)
    PROVE  /\ TypedRows' /\ Rows' = Rows \ {c}
           /\ Defaults' = (Defaults \ {c}) \cup ({f} \cap Cards)
<1>1. row'[c] = NoRow /\ row' = [d \in Cards |-> row'[d]]
    BY DEF Removed
<1>2. ASSUME NEW d \in Cards, d # c
      PROVE  /\ row'[d] \in CardRows /\ row'[d].saved = row[d].saved /\ row'[d].older = row[d].older \ {c}
             /\ row'[d].isDefault <=> row[d].isDefault \/ d = f
             /\ ~Saved(d) => row'[d] = NoRow
  <2>1. row[d] \in CardRows /\ (Saved(d) \/ row[d] = NoRow)
      BY DEF TypedRows
  <2>2. row'[d] = [row[d] EXCEPT !.isDefault = @ \/ d = f, !.older = @ \ {c}]
      BY <1>2 DEF Removed
  <2>3. PICK b, o : b = (row[d].isDefault \/ d = f) /\ o = row[d].older \ {c}
      OBVIOUS
  <2>4. row'[d] = [row[d] EXCEPT !.isDefault = b, !.older = o]
      BY <2>2, <2>3
  <2>5. b \in BOOLEAN /\ o \in SUBSET Cards
      BY <2>1, <2>3 DEF CardRows
  <2>6. /\ row'[d] \in CardRows /\ row'[d].saved = row[d].saved
        /\ row'[d].isDefault = b /\ row'[d].older = o
      BY <2>1, <2>4, <2>5 DEF CardRows
  <2>7. ~Saved(d) => row'[d] = NoRow
    <3> SUFFICES ASSUME ~Saved(d) PROVE row'[d] = NoRow
        OBVIOUS
    <3>1. row[d] = NoRow /\ d # f
        BY <2>1 DEF Rows
    <3>2. b = FALSE /\ o = {}
        BY <2>3, <3>1, NoRowIsCard
    <3> QED
        BY <2>6, <3>1, <3>2, NoRowIsCard, SameCard
  <2> QED
      BY <2>3, <2>6, <2>7
<1>3. row' \in [Cards -> CardRows]
  <2>1. \A d \in Cards : row'[d] \in CardRows
      BY <1>1, <1>2, NoRowIsCard
  <2> QED
      BY <1>1, <2>1
<1>4. \A d \in Cards : row'[d].saved <=> row[d].saved /\ d # c
    BY <1>1, <1>2, NoRowIsCard
<1>5. Rows' = Rows \ {c}
    BY <1>4 DEF Rows, Saved
<1>6. Defaults' = (Defaults \ {c}) \cup ({f} \cap Cards)
  <2>1. \A d \in Cards : (row'[d].saved /\ row'[d].isDefault)
                           <=> (row[d].saved /\ row[d].isDefault /\ d # c) \/ d = f
      BY <1>1, <1>2, NoRowIsCard, RowsMeaning
  <2>2. \A d : d \in Defaults' <=> d \in Cards /\ row'[d].saved /\ row'[d].isDefault
      BY DEF Defaults, Rows, Saved
  <2>3. \A d : d \in Defaults <=> d \in Cards /\ row[d].saved /\ row[d].isDefault
      BY DEF Defaults, Rows, Saved
  <2> QED
      BY <2>1, <2>2, <2>3
<1>7. TypedRows'
  <2>1. ASSUME NEW d \in Cards
        PROVE  row'[d].older \subseteq Rows' /\ (Saved(d)' \/ row'[d] = NoRow)
    <3>1. CASE d = c
        BY <1>1, <3>1, NoRowIsCard
    <3>2. CASE d # c
        BY <1>2, <1>4, <1>5, <3>2 DEF TypedRows, Saved
    <3> QED
        BY <3>1, <3>2
  <2>2. ASSUME NEW T \in SUBSET (Rows'), T # {}
        PROVE  \E d \in T : row'[d].older \cap T = {}
    <3>1. T \in SUBSET Rows /\ c \notin T
        BY <1>5, <2>2
    <3>2. PICK d \in T : row[d].older \cap T = {}
        BY <2>2, <3>1 DEF TypedRows
    <3>3. d \in Cards /\ d # c
        BY <3>1, <3>2 DEF Rows
    <3>4. row'[d].older = row[d].older \ {c}
        BY <1>2, <3>3
    <3> QED
        BY <3>2, <3>4
  <2> QED
      BY <1>3, <2>1, <2>2 DEF TypedRows
<1> QED
    BY <1>5, <1>6, <1>7
-----------------------------------------------------------------------------
(* What a request carries with it. *)

\* The session a request is about is its own until it is made, and complete
\* when it is confirmed.
InSession(j) ==
    /\ j.at # "idle" /\ j.op = "setup" => stripe.session[j.c].state = "none"
    /\ j.at # "idle" /\ j.op = "confirm" => stripe.session[j.c].state = "complete"
    /\ j.at \notin {"idle", "commit", "sync"} /\ j.op = "confirm" => j.want = stripe.session[j.c].want

\* What a request that no commit has crossed still knows of the table.
Fresh(j) ==
    /\ j.at \in {"open", "commit"} /\ j.op = "remove" => j.was = row[j.c].isDefault
    /\ j.at = "commit" /\ j.op = "remove" =>
          /\ j.was /\ Rows \ {j.c} # {} => j.next \in Rows
          /\ ~(j.was /\ Rows \ {j.c} # {}) => j.next = None
    /\ j.at = "commit" /\ j.op = "confirm" =>
          /\ j.was = row[j.c].isDefault
          /\ j.want = (stripe.session[j.c].want \/ Rows = {})
          /\ j.out = IF stripe.session[j.c].want THEN Defaults ELSE {}
    /\ j.at = "commit" /\ j.op = "update" => j.out = Defaults \ {j.c}

Setup(j) == j.at # "idle" /\ j.op = "setup"

Informed ==
    /\ \A h \in Handlers : InSession(job[h]) /\ (h \notin crossed => Fresh(job[h]))
    /\ \A g, h \in Handlers : Setup(job[g]) /\ Setup(job[h]) /\ g # h => job[g].c # job[h].c

Inv == Typed /\ Informed

\* A step of one request that writes neither the table nor a session.
LEMMA HandlerStep ==
    ASSUME Inv, NEW h \in Handlers, NEW j \in Jobs, Step(h, j),
           Known(j), InSession(j), h \notin crossed' => Fresh(j),
           Setup(j) => \A g \in Handlers \ {h} : Setup(job[g]) => job[g].c # j.c,
           row' = row, stripe'.session = stripe.session,
           crossed \ {h} \subseteq crossed'
    PROVE  TypedJobs' /\ Informed'
<1>1. job \in [Handlers -> Jobs] /\ \A g \in Handlers : Known(job[g])
    BY DEF Inv, Typed, TypedJobs
<1>2. job' = [job EXCEPT ![h] = j] /\ job'[h] = j /\ \A g \in Handlers : g # h => job'[g] = job[g]
    BY <1>1 DEF Step
<1>3. Rows' = Rows /\ Defaults' = Defaults
    BY DEF Rows, Defaults, Saved
<1>4. TypedJobs'
  <2>1. job' \in [Handlers -> Jobs]
      BY <1>1, <1>2
  <2>2. \A g \in Handlers : Known(job'[g])
      BY <1>1, <1>2
  <2> QED
      BY <2>1, <2>2 DEF TypedJobs, Known
<1>5. ASSUME NEW g \in Handlers
      PROVE  InSession(job[g])' /\ (g \notin crossed' => Fresh(job[g])')
  <2>1. CASE g = h
      BY <1>2, <1>3, <2>1 DEF InSession, Fresh
  <2>2. CASE g # h
    <3>1. job'[g] = job[g] /\ InSession(job[g]) /\ (g \notin crossed => Fresh(job[g]))
        BY <1>2, <2>2 DEF Inv, Informed
    <3>2. g \notin crossed' => g \notin crossed
        BY <2>2
    <3> QED
        BY <1>3, <3>1, <3>2 DEF InSession, Fresh
  <2> QED
      BY <2>1, <2>2
<1>6. ASSUME NEW f \in Handlers, NEW g \in Handlers, Setup(job'[f]), Setup(job'[g]), f # g
      PROVE  job'[f].c # job'[g].c
    BY <1>2, <1>6 DEF Inv, Informed
<1> QED
    BY <1>4, <1>5, <1>6 DEF Informed, Setup

\* A commit: whatever else was read is crossed by it.
LEMMA CommitStep ==
    ASSUME Inv, NEW h \in Handlers, NEW j \in Jobs, Step(h, j),
           Known(j), InSession(j), j.at \notin {"open", "commit"}, ~Setup(j),
           stripe' = stripe, crossed' = (crossed \ {h}) \cup OtherReaders(h)
    PROVE  TypedJobs' /\ Informed'
<1>1. job \in [Handlers -> Jobs] /\ \A g \in Handlers : Known(job[g])
    BY DEF Inv, Typed, TypedJobs
<1>2. job' = [job EXCEPT ![h] = j] /\ job'[h] = j /\ \A g \in Handlers : g # h => job'[g] = job[g]
    BY <1>1 DEF Step
<1>3. TypedJobs'
  <2>1. job' \in [Handlers -> Jobs]
      BY <1>1, <1>2
  <2>2. \A g \in Handlers : Known(job'[g])
      BY <1>1, <1>2
  <2> QED
      BY <2>1, <2>2 DEF TypedJobs, Known
<1>4. ASSUME NEW g \in Handlers
      PROVE  InSession(job[g])' /\ (g \notin crossed' => Fresh(job[g])')
  <2>1. CASE g = h
      BY <1>2, <2>1 DEF InSession, Fresh
  <2>2. CASE g # h
    <3>1. job'[g] = job[g] /\ InSession(job[g])
        BY <1>2, <2>2 DEF Inv, Informed
    <3>2. g \notin crossed' => ~(job[g].at = "commit" \/ (job[g].at = "open" /\ job[g].op = "remove"))
        BY <2>2 DEF OtherReaders, At
    <3> QED
        BY <3>1, <3>2 DEF InSession, Fresh
  <2> QED
      BY <2>1, <2>2
<1>5. ASSUME NEW f \in Handlers, NEW g \in Handlers, Setup(job'[f]), Setup(job'[g]), f # g
      PROVE  job'[f].c # job'[g].c
    BY <1>2, <1>5 DEF Inv, Informed
<1> QED
    BY <1>3, <1>4, <1>5 DEF Informed, Setup

\* A request that ends knows nothing.
LEMMA QuietIsNothing ==
    Quiet \in Jobs /\ Known(Quiet) /\ InSession(Quiet) /\ Fresh(Quiet) /\ ~Setup(Quiet) /\ Quiet.at = "idle"
BY DEF Quiet, Jobs, Known, InSession, Fresh, Setup
-----------------------------------------------------------------------------
(* The steps of a request. *)

LEMMA TypedInit == Init => Inv
<1> SUFFICES ASSUME Init PROVE Inv
    OBVIOUS
<1>1. \A c \in Cards : row[c] = NoRow
    BY DEF Init
<1>2. Rows = {}
    BY <1>1, NoRowIsCard DEF Rows, Saved
<1>3. TypedRows
  <2>1. row \in [Cards -> CardRows]
      BY NoRowIsCard DEF Init
  <2> QED
      BY <1>1, <1>2, <2>1, NoRowIsCard DEF TypedRows
<1>4. TypedStripe
    BY DEF Init, TypedStripe, Stripes, StripeStates
<1>5. TypedJobs /\ Informed
  <2>1. \A h \in Handlers : job[h] = Quiet
      BY DEF Init
  <2>2. job \in [Handlers -> Jobs]
      BY QuietIsNothing DEF Init
  <2> QED
      BY <2>1, <2>2, QuietIsNothing DEF TypedJobs, Informed
<1>6. TypedRest
    BY BoundsAssumption DEF Init, TypedRest
<1> QED
    BY <1>3, <1>4, <1>5, <1>6 DEF Inv, Typed

LEMMA RowsStay ==
    ASSUME Inv, row' = row
    PROVE  TypedRows' /\ Rows' = Rows /\ Defaults' = Defaults
BY DEF Inv, Typed, TypedRows, Rows, Defaults, Saved

LEMMA StripeStays ==
    ASSUME Inv, UNCHANGED <<stripe, customer>>
    PROVE  TypedStripe'
BY DEF Inv, Typed, TypedStripe

\* A request goes on, without its transaction yet.
LEMMA Continue ==
    ASSUME Inv, NEW h \in Handlers, NEW j \in Jobs, Step(h, j),
           job[h].at \notin {"idle", "commit", "sync"}, j.at \notin {"idle", "commit"},
           j.op = job[h].op, j.c = job[h].c, j.want = job[h].want, j.at = "open" => j.op # "remove",
           j.at \in {"customer_save", "session", "method", "attach"} => j.cust \in Customers,
           row' = row, stripe'.session = stripe.session, crossed' = crossed
    PROVE  TypedJobs' /\ Informed'
<1>1. Known(job[h]) /\ InSession(job[h])
    BY DEF Inv, Typed, TypedJobs, Informed
<1>2. Known(j)
    BY <1>1 DEF Known
<1>3. InSession(j)
    BY <1>1 DEF InSession
<1>4. Fresh(j)
    BY DEF Fresh
<1>5. Setup(j) => \A g \in Handlers \ {h} : Setup(job[g]) => job[g].c # j.c
    BY DEF Inv, Informed, Setup
<1> QED
    BY <1>2, <1>3, <1>4, <1>5, HandlerStep

\* A request ends, or is given up.
LEMMA Over ==
    ASSUME Inv, NEW h \in Handlers, Ends(h),
           row' = row, stripe'.session = stripe.session, crossed \ {h} \subseteq crossed'
    PROVE  TypedJobs' /\ Informed'
<1>1. Step(h, Quiet)
    BY DEF Ends
<1> QED
    BY <1>1, QuietIsNothing, HandlerStep

LEMMA InvBeginSetup ==
    ASSUME Inv, NEW h \in Handlers, NEW c \in Cards, BeginSetup(h, c)
    PROVE  Inv'
<1>1. PICK asked \in {"yes", "no", "unsaid"} :
        Begins(h, [Quiet EXCEPT !.at = "customer", !.op = "setup", !.c = c,
                                !.want = ShouldBeDefault(asked)])
    BY DEF BeginSetup
<1>2. PICK w : w = ShouldBeDefault(asked)
    OBVIOUS
<1>3. w \in BOOLEAN
    BY <1>2 DEF ShouldBeDefault
<1>4. PICK j : j = [Quiet EXCEPT !.at = "customer", !.op = "setup", !.c = c, !.want = w]
    OBVIOUS
<1>5. j \in Jobs /\ j.at = "customer" /\ j.op = "setup" /\ j.c = c
    BY <1>3, <1>4, QuietIsNothing DEF Jobs
<1>6. Begins(h, j)
    BY <1>1, <1>2, <1>4
<1>7. TypedJobs' /\ Informed'
  <2>1. Known(j) /\ Fresh(j) /\ InSession(j)
      BY <1>5 DEF Known, Fresh, InSession, BeginSetup
  <2>2. \A g \in Handlers : job[g].c # c
      BY DEF BeginSetup
  <2> QED
      BY <1>5, <1>6, <2>1, <2>2, HandlerStep DEF Begins, BeginSetup, Tables
<1>8. TypedRest'
    BY <1>6 DEF Inv, Typed, TypedRest, BeginSetup, Begins, Tables
<1> QED
    BY <1>7, <1>8, RowsStay, StripeStays DEF Inv, Typed, BeginSetup, Tables

LEMMA InvBeginConfirm ==
    ASSUME Inv, NEW h \in Handlers, NEW c \in Cards, BeginConfirm(h, c)
    PROVE  Inv'
<1>1. stripe.session[c].want \in BOOLEAN
    BY DEF Inv, Typed, TypedStripe, Stripes
<1>2. PICK w : w = stripe.session[c].want
    OBVIOUS
<1>3. PICK j : j = [Quiet EXCEPT !.at = "customer", !.op = "confirm", !.c = c, !.want = w]
    OBVIOUS
<1>4. j \in Jobs /\ j.at = "customer" /\ j.op = "confirm" /\ j.c = c /\ j.want = w
    BY <1>1, <1>2, <1>3, QuietIsNothing DEF Jobs
<1>5. Begins(h, j)
    BY <1>2, <1>3 DEF BeginConfirm
<1>6. TypedJobs' /\ Informed'
  <2>1. Known(j) /\ Fresh(j) /\ InSession(j) /\ ~Setup(j)
      BY <1>2, <1>4 DEF Known, Fresh, InSession, BeginConfirm, Setup
  <2> QED
      BY <1>4, <1>5, <2>1, HandlerStep DEF Begins, BeginConfirm, Tables
<1>7. TypedRest'
    BY <1>5 DEF Inv, Typed, TypedRest, BeginConfirm, Begins, Tables
<1> QED
    BY <1>6, <1>7, RowsStay, StripeStays DEF Inv, Typed, BeginConfirm, Tables

LEMMA InvBeginUpdate ==
    ASSUME Inv, NEW h \in Handlers, NEW c \in Cards, BeginUpdate(h, c)
    PROVE  Inv'
<1>1. PICK j : j = [Quiet EXCEPT !.at = "open", !.op = "update", !.c = c]
    OBVIOUS
<1>2. j \in Jobs /\ j.at = "open" /\ j.op = "update" /\ j.c = c
    BY <1>1, QuietIsNothing DEF Jobs
<1>3. Begins(h, j)
    BY <1>1 DEF BeginUpdate
<1>4. TypedJobs' /\ Informed'
  <2>1. Known(j) /\ Fresh(j) /\ InSession(j) /\ ~Setup(j)
      BY <1>2 DEF Known, Fresh, InSession, Setup
  <2> QED
      BY <1>2, <1>3, <2>1, HandlerStep DEF Begins, BeginUpdate, Tables
<1>5. TypedRest'
    BY <1>3 DEF Inv, Typed, TypedRest, BeginUpdate, Begins, Tables
<1> QED
    BY <1>4, <1>5, RowsStay, StripeStays DEF Inv, Typed, BeginUpdate, Tables

LEMMA InvBeginRemove ==
    ASSUME Inv, NEW h \in Handlers, NEW c \in Cards, BeginRemove(h, c)
    PROVE  Inv'
<1>1. row[c].isDefault \in BOOLEAN
    BY DEF Inv, Typed, TypedRows, CardRows
<1>2. PICK w : w = row[c].isDefault
    OBVIOUS
<1>3. PICK j : j = [Quiet EXCEPT !.at = "open", !.op = "remove", !.c = c, !.was = w]
    OBVIOUS
<1>4. j \in Jobs /\ j.at = "open" /\ j.op = "remove" /\ j.c = c /\ j.was = w
    BY <1>1, <1>2, <1>3, QuietIsNothing DEF Jobs
<1>5. Begins(h, j) /\ crossed' = crossed \ {h}
    BY <1>2, <1>3 DEF BeginRemove, Reads
<1>6. TypedJobs' /\ Informed'
  <2>1. Known(j) /\ Fresh(j) /\ InSession(j) /\ ~Setup(j)
      BY <1>2, <1>4 DEF Known, Fresh, InSession, Setup
  <2> QED
      BY <1>4, <1>5, <2>1, HandlerStep DEF Begins, BeginRemove
<1>7. TypedRest'
    BY <1>5 DEF Inv, Typed, TypedRest, BeginRemove, Begins
<1> QED
    BY <1>6, <1>7, RowsStay, StripeStays DEF Inv, Typed, BeginRemove
\* A step that leaves everything but one request and the rest alone.
LEMMA InvJobs ==
    ASSUME Inv, TypedJobs', Informed', row' = row, TypedStripe',
           crossed' \subseteq Handlers, ordered' = ordered, calm' = calm, faults' \in 0 .. MaxFaults
    PROVE  Inv'
BY RowsStay DEF Inv, Typed, TypedRest

LEMMA InvFindCustomer ==
    ASSUME Inv, NEW h \in Handlers, FindCustomer(h)
    PROVE  Inv'
<1>1. job[h] \in Jobs /\ job[h].at = "customer" /\ customer \in Customers \cup {None}
    BY DEF Inv, Typed, TypedJobs, TypedStripe, FindCustomer
<1>2. CASE customer = None
  <2>1. PICK j : j = [job[h] EXCEPT !.at = "customer_create"]
      OBVIOUS
  <2>2. /\ j \in Jobs /\ j.at = "customer_create"
        /\ j.op = job[h].op /\ j.c = job[h].c /\ j.want = job[h].want
      BY <1>1, <2>1 DEF Jobs
  <2>3. Step(h, j)
      BY <1>2, <2>1 DEF FindCustomer
  <2> QED
      BY <1>1, <2>2, <2>3, Continue, InvJobs, StripeStays DEF FindCustomer, Tables, Inv, Typed, TypedRest
<1>3. CASE customer # None
  <2>1. PICK j : j = [job[h] EXCEPT !.at = AfterCustomer(h), !.cust = customer]
      OBVIOUS
  <2>2. PICK at \in {"session", "method"} : at = AfterCustomer(h)
      BY DEF AfterCustomer
  <2>3. PICK k \in Customers : k = customer
      BY <1>1, <1>3
  <2>4. j = [job[h] EXCEPT !.at = at, !.cust = k]
      BY <2>1, <2>2, <2>3
  <2>5. /\ j \in Jobs /\ j.at = at /\ j.cust \in Customers
        /\ j.op = job[h].op /\ j.c = job[h].c /\ j.want = job[h].want
      BY <1>1, <2>4 DEF Jobs
  <2>6. Step(h, j)
      BY <1>3, <2>1 DEF FindCustomer
  <2> QED
      BY <1>1, <2>5, <2>6, Continue, InvJobs, StripeStays DEF FindCustomer, Tables, Inv, Typed, TypedRest
<1> QED
    BY <1>2, <1>3

LEMMA InvCreateCustomer ==
    ASSUME Inv, NEW h \in Handlers, CreateCustomer(h)
    PROVE  Inv'
<1>1. job[h] \in Jobs /\ job[h].at = "customer_create"
    BY DEF Inv, Typed, TypedJobs, CreateCustomer
<1>2. PICK k \in Customers \ stripe.customers :
        /\ stripe' = [stripe EXCEPT !.customers = @ \cup {k}]
        /\ Step(h, [job[h] EXCEPT !.at = "customer_save", !.cust = k])
    BY DEF CreateCustomer
<1>3. PICK j : j = [job[h] EXCEPT !.at = "customer_save", !.cust = k]
    OBVIOUS
<1>4. /\ j \in Jobs /\ j.at = "customer_save" /\ j.cust \in Customers
      /\ j.op = job[h].op /\ j.c = job[h].c /\ j.want = job[h].want
    BY <1>1, <1>3 DEF Jobs
<1>5. TypedStripe' /\ stripe'.session = stripe.session
    BY <1>2 DEF Inv, Typed, TypedStripe, Stripes, CreateCustomer
<1>6. TypedJobs' /\ Informed'
    BY <1>1, <1>2, <1>3, <1>4, <1>5, Continue DEF CreateCustomer, Tables
<1> QED
    BY <1>5, <1>6, InvJobs DEF CreateCustomer, Tables, Inv, Typed, TypedRest

LEMMA InvSaveCustomer ==
    ASSUME Inv, NEW h \in Handlers, SaveCustomer(h)
    PROVE  Inv'
<1>1. job[h] \in Jobs /\ job[h].at = "customer_save" /\ job[h].cust \in Customers
    BY DEF Inv, Typed, TypedJobs, SaveCustomer, Known
<1>2. PICK at \in {"session", "method"} : at = AfterCustomer(h)
    BY DEF AfterCustomer
<1>3. PICK j : j = [job[h] EXCEPT !.at = at]
    OBVIOUS
<1>4. /\ j \in Jobs /\ j.at = at /\ j.cust \in Customers
      /\ j.op = job[h].op /\ j.c = job[h].c /\ j.want = job[h].want
    BY <1>1, <1>3 DEF Jobs
<1>5. Step(h, j)
    BY <1>2, <1>3 DEF SaveCustomer, Moves
<1>6. TypedStripe'
    BY <1>1 DEF Inv, Typed, TypedStripe, SaveCustomer
<1>7. TypedJobs' /\ Informed'
    BY <1>1, <1>4, <1>5, Continue DEF SaveCustomer, Tables
<1> QED
    BY <1>6, <1>7, InvJobs DEF SaveCustomer, Tables, Inv, Typed, TypedRest

\* A new session: no other request is about it.
LEMMA InvCreateSession ==
    ASSUME Inv, NEW h \in Handlers, CreateSession(h)
    PROVE  Inv'
<1>1. job \in [Handlers -> Jobs] /\ \A g \in Handlers : Known(job[g])
    BY DEF Inv, Typed, TypedJobs
<1>2. PICK c \in Cards : c = job[h].c
    BY <1>1 DEF CreateSession, At, Known
<1>3. PICK s : s = [state |-> "open", cust |-> job[h].cust, want |-> job[h].want]
    OBVIOUS
<1>4. job[h].at = "session" /\ job[h].op = "setup" /\ job[h].cust \in Customers /\ job[h].want \in BOOLEAN
    BY <1>1 DEF CreateSession, At, Known, Jobs
<1>5. /\ s \in [state : StripeStates, cust : Customers \cup {None}, want : BOOLEAN]
      /\ s.state = "open" /\ s.cust \in Customers
    BY <1>3, <1>4 DEF StripeStates
<1>6. stripe' = [stripe EXCEPT !.session[c] = s] /\ stripe \in Stripes
    BY <1>2, <1>3 DEF CreateSession, Inv, Typed, TypedStripe
<1>7. /\ stripe' \in Stripes /\ stripe'.session[c] = s
      /\ \A d \in Cards : d # c => stripe'.session[d] = stripe.session[d]
    BY <1>5, <1>6 DEF Stripes
<1>8. TypedStripe'
    BY <1>5, <1>7 DEF TypedStripe, Inv, Typed, CreateSession
<1>9. job' = [job EXCEPT ![h] = Quiet] /\ row' = row /\ crossed' = crossed
    BY DEF CreateSession, Ends, Step, Tables
<1>10. TypedJobs'
  <2>1. job' \in [Handlers -> Jobs] /\ \A g \in Handlers : Known(job'[g])
      BY <1>1, <1>9, QuietIsNothing
  <2> QED
      BY <2>1 DEF TypedJobs, Known
<1>11. stripe.session[c].state = "none"
    BY <1>2, <1>4 DEF Inv, Informed, InSession
<1>12. ASSUME NEW g \in Handlers, g # h
       PROVE  InSession(job[g])' /\ (g \notin crossed' => Fresh(job[g])')
  <2>1. job'[g] = job[g] /\ InSession(job[g]) /\ (g \notin crossed => Fresh(job[g]))
      BY <1>1, <1>9, <1>12 DEF Inv, Informed
  <2>2. job[g].at # "idle" => job[g].c \in Cards
      BY <1>1 DEF Known
  <2>3. job[g].at # "idle" /\ job[g].op \in {"setup", "confirm"} => job[g].c # c
      BY <1>2, <1>4, <1>11, <1>12, <2>1 DEF Inv, Informed, InSession, Setup
  <2>4. job[g].at # "idle" /\ job[g].op \in {"setup", "confirm"} =>
            stripe'.session[job[g].c] = stripe.session[job[g].c]
      BY <1>7, <2>2, <2>3
  <2>5. Rows' = Rows /\ Defaults' = Defaults
      BY <1>9, RowsStay
  <2> QED
      BY <1>9, <2>1, <2>4, <2>5 DEF InSession, Fresh
<1>13. Informed'
  <2>1. job'[h] = Quiet /\ \A g \in Handlers : g # h => job'[g] = job[g]
      BY <1>1, <1>9
  <2>2. InSession(job[h])' /\ Fresh(job[h])'
      BY <2>1, QuietIsNothing DEF InSession, Fresh
  <2>3. \A f, g \in Handlers : Setup(job'[f]) /\ Setup(job'[g]) /\ f # g => job'[f].c # job'[g].c
      BY <2>1, QuietIsNothing DEF Inv, Informed
  <2> QED
      BY <1>12, <2>2, <2>3 DEF Informed, Setup
<1> QED
    BY <1>8, <1>10, <1>13, InvJobs DEF CreateSession, Tables, Inv, Typed, TypedRest

\* The customer enters the card: nobody was waiting for that.
LEMMA InvCompleteSession ==
    ASSUME Inv, NEW c \in Cards, CompleteSession(c)
    PROVE  Inv'
<1>1. job \in [Handlers -> Jobs] /\ \A g \in Handlers : Known(job[g])
    BY DEF Inv, Typed, TypedJobs
<1>2. PICK k \in {"loose", stripe.session[c].cust} :
        stripe' = [stripe EXCEPT !.session[c].state = "complete", !.holder[c] = k]
    BY DEF CompleteSession
<1>3. /\ stripe \in Stripes /\ stripe.session[c].state = "open"
      /\ stripe.session[c].cust \in Customers
    BY DEF Inv, Typed, TypedStripe, CompleteSession
<1>4. PICK s : s = [stripe.session[c] EXCEPT !.state = "complete"]
    OBVIOUS
<1>5. /\ s \in [state : StripeStates, cust : Customers \cup {None}, want : BOOLEAN]
      /\ s.state = "complete" /\ s.cust = stripe.session[c].cust /\ s.want = stripe.session[c].want
    BY <1>3, <1>4 DEF Stripes, StripeStates
<1>6. stripe' = [stripe EXCEPT !.session[c] = s, !.holder[c] = k]
    BY <1>2, <1>3, <1>4 DEF Stripes
<1>7. /\ stripe' \in Stripes /\ stripe'.session[c] = s
      /\ \A d \in Cards : d # c => stripe'.session[d] = stripe.session[d]
  <2>1. k \in Customers \cup {"loose", "detached"}
      BY <1>2, <1>3
  <2>2. PICK S : S = [stripe.session EXCEPT ![c] = s]
      OBVIOUS
  <2>3. PICK H : H = [stripe.holder EXCEPT ![c] = k]
      OBVIOUS
  <2>4. /\ S \in [Cards -> [state : StripeStates, cust : Customers \cup {None}, want : BOOLEAN]]
        /\ S[c] = s /\ \A d \in Cards : d # c => S[d] = stripe.session[d]
      BY <1>3, <1>5, <2>2 DEF Stripes
  <2>5. H \in [Cards -> Customers \cup {"loose", "detached"}]
      BY <1>3, <2>1, <2>3 DEF Stripes
  <2>6. stripe' = [stripe EXCEPT !.session = S, !.holder = H]
      BY <1>6, <2>2, <2>3
  <2>7. stripe' \in Stripes /\ stripe'.session = S
      BY <1>3, <2>4, <2>5, <2>6 DEF Stripes
  <2> QED
      BY <2>4, <2>7
<1>8. TypedStripe'
    BY <1>3, <1>5, <1>7 DEF TypedStripe, Inv, Typed, CompleteSession
<1>9. job' = job /\ row' = row /\ crossed' = crossed
    BY DEF CompleteSession, Tables
<1>10. ASSUME NEW g \in Handlers
       PROVE  InSession(job[g])' /\ (g \notin crossed' => Fresh(job[g])')
  <2>1. job'[g] = job[g] /\ InSession(job[g]) /\ (g \notin crossed => Fresh(job[g]))
      BY <1>9 DEF Inv, Informed
  <2>2. job[g].at # "idle" => job[g].c \in Cards
      BY <1>1 DEF Known
  <2>3. job[g].at # "idle" /\ job[g].op \in {"setup", "confirm"} => job[g].c # c
      BY <1>3, <2>1 DEF InSession
  <2>4. job[g].at # "idle" /\ job[g].op \in {"setup", "confirm"} =>
            stripe'.session[job[g].c] = stripe.session[job[g].c]
      BY <1>7, <2>2, <2>3
  <2>5. Rows' = Rows /\ Defaults' = Defaults
      BY <1>9, RowsStay
  <2> QED
      BY <1>9, <2>1, <2>4, <2>5 DEF InSession, Fresh
<1>11. TypedJobs' /\ Informed'
    BY <1>9, <1>10 DEF Inv, Typed, TypedJobs, Known, Informed, Setup
<1> QED
    BY <1>8, <1>11, InvJobs DEF CompleteSession, Tables, Inv, Typed, TypedRest
\* Where every request stands, by what it does.
LEMMA JobMeaning ==
    ASSUME Inv, NEW h \in Handlers
    PROVE  /\ job[h] \in Jobs /\ Known(job[h]) /\ InSession(job[h])
           /\ h \notin crossed => Fresh(job[h])
           /\ crossed \subseteq Handlers
BY DEF Inv, Typed, TypedJobs, TypedRest, Informed

LEMMA InvOver ==
    ASSUME Inv, NEW h \in Handlers, Ends(h), row' = row, stripe'.session = stripe.session, TypedStripe',
           crossed \ {h} \subseteq crossed', crossed' \subseteq crossed,
           ordered' = ordered, calm' = calm, faults' \in 0 .. MaxFaults
    PROVE  Inv'
BY Over, InvJobs, JobMeaning

LEMMA InvContinue ==
    ASSUME Inv, NEW h \in Handlers, NEW at \in {"open", "attach"}, Moves(h, at),
           job[h].op = "confirm", job[h].at \in {"method", "attach"}, row' = row,
           stripe'.session = stripe.session, TypedStripe',
           crossed' = crossed, ordered' = ordered, calm' = calm, faults' = faults
    PROVE  Inv'
<1>1. PICK j : j = [job[h] EXCEPT !.at = at]
    OBVIOUS
<1>2. /\ j \in Jobs /\ j.at = at /\ j.cust = job[h].cust
      /\ j.op = job[h].op /\ j.c = job[h].c /\ j.want = job[h].want
    BY <1>1, JobMeaning DEF Jobs
<1>3. job[h].cust \in Customers
    BY JobMeaning DEF Known
<1>4. TypedJobs' /\ Informed'
    BY <1>1, <1>2, <1>3, Continue DEF Moves
<1> QED
    BY <1>4, InvJobs DEF Inv, Typed, TypedRest

LEMMA InvRetrieveMethod ==
    ASSUME Inv, NEW h \in Handlers, RetrieveMethod(h)
    PROVE  Inv'
<1>1. /\ job[h].op = "confirm" /\ job[h].at = "method"
      /\ row' = row /\ stripe' = stripe /\ customer' = customer /\ crossed' = crossed
      /\ ordered' = ordered /\ calm' = calm /\ faults' = faults /\ faults \in 0 .. MaxFaults
    BY DEF RetrieveMethod, At, Tables, Inv, Typed, TypedRest
<1>2. Moves(h, "open") \/ Moves(h, "attach") \/ Ends(h)
    BY DEF RetrieveMethod
<1> QED
    BY <1>1, <1>2, InvContinue, InvOver, StripeStays

LEMMA InvAttach ==
    ASSUME Inv, NEW h \in Handlers, Attach(h)
    PROVE  Inv'
<1>1. /\ job[h].op = "confirm" /\ job[h].at = "attach"
      /\ row' = row /\ customer' = customer /\ crossed' = crossed
      /\ ordered' = ordered /\ calm' = calm /\ faults' = faults /\ faults \in 0 .. MaxFaults
    BY DEF Attach, At, Tables, Inv, Typed, TypedRest
<1>2. job[h].c \in Cards /\ job[h].cust \in Customers
    BY <1>1, JobMeaning DEF Known
<1>3. CASE Moves(h, "open") /\ stripe' = [stripe EXCEPT !.holder[job[h].c] = job[h].cust]
  <2>1. TypedStripe' /\ stripe'.session = stripe.session
      BY <1>1, <1>2, <1>3 DEF Inv, Typed, TypedStripe, Stripes
  <2> QED
      BY <1>1, <1>3, <2>1, InvContinue
<1>4. CASE Ends(h) /\ stripe' = stripe
    BY <1>1, <1>4, InvOver, StripeStays
<1> QED
    BY <1>3, <1>4 DEF Attach

LEMMA InvOpenConfirm ==
    ASSUME Inv, NEW h \in Handlers, OpenConfirm(h)
    PROVE  Inv'
<1>1. /\ job[h].op = "confirm" /\ job[h].at = "open"
      /\ row' = row /\ stripe' = stripe /\ customer' = customer /\ crossed' = crossed \ {h}
      /\ ordered' = ordered /\ calm' = calm /\ faults' = faults /\ faults \in 0 .. MaxFaults
    BY DEF OpenConfirm, At, Reads, Inv, Typed, TypedRest
<1>2. PICK c \in Cards : c = job[h].c
    BY <1>1, JobMeaning DEF Known
<1>3. PICK n \in BOOLEAN, w \in BOOLEAN, g \in BOOLEAN, o \in SUBSET Cards :
        /\ n = ~Saved(c) /\ w = row[c].isDefault /\ g = (job[h].want \/ Rows = {})
        /\ o = IF job[h].want THEN Defaults ELSE {}
  <2>1. row[c].isDefault \in BOOLEAN /\ (~Saved(c)) \in BOOLEAN
      BY DEF Inv, Typed, TypedRows, CardRows, Saved
  <2>2. (IF job[h].want THEN Defaults ELSE {}) \in SUBSET Cards
      BY DEF Defaults, Rows
  <2> QED
      BY <2>1, <2>2
<1>4. PICK j : j = [job[h] EXCEPT !.at = "commit", !.new = n, !.was = w, !.want = g, !.out = o]
    OBVIOUS
<1>5. Step(h, j)
    BY <1>2, <1>3, <1>4 DEF OpenConfirm
<1>6. /\ j \in Jobs /\ j.at = "commit" /\ j.op = "confirm" /\ j.c = c
      /\ j.was = w /\ j.want = g /\ j.out = o
    BY <1>1, <1>2, <1>4, JobMeaning DEF Jobs
<1>7. Known(j) /\ InSession(j) /\ ~Setup(j)
    BY <1>1, <1>2, <1>6, JobMeaning DEF Known, InSession, Setup
<1>8. Fresh(j)
  <2>1. job[h].want = stripe.session[c].want
      BY <1>1, <1>2, JobMeaning DEF InSession
  <2> QED
      BY <1>3, <1>6, <2>1 DEF Fresh
<1>9. TypedJobs' /\ Informed'
    BY <1>1, <1>5, <1>6, <1>7, <1>8, HandlerStep
<1> QED
    BY <1>1, <1>9, InvJobs, StripeStays, JobMeaning

LEMMA InvOpenUpdate ==
    ASSUME Inv, NEW h \in Handlers, OpenUpdate(h)
    PROVE  Inv'
<1>1. /\ job[h].op = "update" /\ job[h].at = "open"
      /\ row' = row /\ stripe' = stripe /\ customer' = customer /\ crossed' = crossed \ {h}
      /\ ordered' = ordered /\ calm' = calm /\ faults' = faults /\ faults \in 0 .. MaxFaults
    BY DEF OpenUpdate, At, Reads, Inv, Typed, TypedRest
<1>2. PICK o \in SUBSET Cards : o = Defaults \ {job[h].c}
    BY DEF Defaults, Rows
<1>3. PICK j : j = [job[h] EXCEPT !.at = "commit", !.out = o]
    OBVIOUS
<1>4. Step(h, j)
    BY <1>2, <1>3 DEF OpenUpdate
<1>5. j \in Jobs /\ j.at = "commit" /\ j.op = "update" /\ j.c = job[h].c /\ j.out = o
    BY <1>1, <1>3, JobMeaning DEF Jobs
<1>6. Known(j) /\ InSession(j) /\ ~Setup(j) /\ Fresh(j)
    BY <1>1, <1>2, <1>5, JobMeaning DEF Known, InSession, Setup, Fresh
<1>7. TypedJobs' /\ Informed'
    BY <1>1, <1>4, <1>5, <1>6, HandlerStep
<1> QED
    BY <1>1, <1>7, InvJobs, StripeStays, JobMeaning

\* The next default is looked for among the others.
LEMMA InvOpenRemove ==
    ASSUME Inv, NEW h \in Handlers, OpenRemove(h)
    PROVE  Inv'
<1>1. /\ job[h].op = "remove" /\ job[h].at = "open"
      /\ row' = row /\ stripe' = stripe /\ customer' = customer /\ crossed' = crossed
      /\ ordered' = ordered /\ calm' = calm /\ faults' = faults /\ faults \in 0 .. MaxFaults
    BY DEF OpenRemove, At, Tables, Inv, Typed, TypedRest
<1>2. PICK c \in Cards : c = job[h].c
    BY <1>1, JobMeaning DEF Known
<1>3. PICK f \in IF job[h].was /\ Oldest(c) # {} THEN Oldest(c) ELSE {None} :
        Step(h, [job[h] EXCEPT !.at = "commit", !.next = f])
    BY <1>2 DEF OpenRemove
<1>4. Oldest(c) \subseteq Rows \ {c} /\ Rows \subseteq Cards
    BY DEF Oldest, Rows
<1>5. f \in Cards \cup {None} /\ f # c
    BY <1>3, <1>4, NoneAssumption
<1>6. /\ job[h].was /\ Rows \ {c} # {} => f \in Rows
      /\ ~(job[h].was /\ Rows \ {c} # {}) => f = None
  <2>1. CASE job[h].was /\ Rows \ {c} # {}
    <3>1. Oldest(c) # {}
        BY <2>1, OldestExists DEF Inv, Typed
    <3> QED
        BY <1>3, <1>4, <2>1, <3>1
  <2>2. CASE ~(job[h].was /\ Rows \ {c} # {})
      BY <1>3, <1>4, <2>2
  <2> QED
      BY <2>1, <2>2
<1>7. PICK j : j = [job[h] EXCEPT !.at = "commit", !.next = f]
    OBVIOUS
<1>8. /\ j \in Jobs /\ j.at = "commit" /\ j.op = "remove" /\ j.c = c
      /\ j.was = job[h].was /\ j.next = f
    BY <1>1, <1>2, <1>5, <1>7, JobMeaning DEF Jobs
<1>9. Known(j) /\ InSession(j) /\ ~Setup(j)
    BY <1>1, <1>5, <1>8, JobMeaning DEF Known, InSession, Setup
<1>10. h \notin crossed' => Fresh(j)
    BY <1>1, <1>2, <1>6, <1>8, JobMeaning DEF Fresh
<1>11. TypedJobs' /\ Informed'
    BY <1>1, <1>3, <1>7, <1>8, <1>9, <1>10, HandlerStep
<1> QED
    BY <1>1, <1>11, InvJobs, StripeStays, JobMeaning

LEMMA InvRollback ==
    ASSUME Inv, NEW h \in Handlers, Rollback(h) \/ Fault(h)
    PROVE  Inv'
<1>1. /\ Ends(h) /\ row' = row /\ stripe' = stripe /\ customer' = customer /\ crossed' = crossed \ {h}
      /\ ordered' = ordered /\ calm' = calm
    BY DEF Rollback, Fault, Reads
<1>2. faults' \in 0 .. MaxFaults
    BY BoundsAssumption DEF Rollback, Fault, Inv, Typed, TypedRest
<1> QED
    BY <1>1, <1>2, InvOver, StripeStays

LEMMA InvDetach ==
    ASSUME Inv, NEW h \in Handlers, Detach(h)
    PROVE  Inv'
<1>1. /\ job[h].at = "detach" /\ Ends(h) /\ row' = row /\ customer' = customer /\ crossed' = crossed
      /\ ordered' = ordered /\ calm' = calm /\ faults' = faults /\ faults \in 0 .. MaxFaults
      /\ stripe' = [stripe EXCEPT !.holder[job[h].c] = "detached"] \/ stripe' = stripe
    BY DEF Detach, At, Tables, Inv, Typed, TypedRest
<1>2. job[h].c \in Cards
    BY <1>1, JobMeaning DEF Known
<1>3. TypedStripe' /\ stripe'.session = stripe.session
    BY <1>1, <1>2 DEF Inv, Typed, TypedStripe, Stripes
<1> QED
    BY <1>1, <1>3, InvOver
LEMMA InvSync ==
    ASSUME Inv, NEW h \in Handlers, Sync(h)
    PROVE  Inv'
<1>1. /\ job[h].at = "sync" /\ row' = row /\ customer' = customer /\ crossed' = crossed
      /\ ordered' = ordered /\ calm' = calm /\ faults' = faults /\ faults \in 0 .. MaxFaults
    BY DEF Sync, Tables, Inv, Typed, TypedRest
<1>2. TypedStripe' /\ stripe'.session = stripe.session
  <2>1. CASE stripe' = stripe
      BY <1>1, <2>1, StripeStays
  <2>2. CASE stripe' = [stripe EXCEPT !.default[customer] = job[h].next]
    <3>1. stripe \in Stripes /\ job[h].next \in Cards \cup {None}
        BY JobMeaning DEF Inv, Typed, TypedStripe, Jobs
    <3>2. PICK D : D = [stripe.default EXCEPT ![customer] = job[h].next]
        OBVIOUS
    <3>3. D \in [Customers -> Cards \cup {None}]
        BY <3>1, <3>2 DEF Stripes
    <3>4. stripe' = [stripe EXCEPT !.default = D]
        BY <2>2, <3>2
    <3>5. stripe' \in Stripes /\ stripe'.session = stripe.session
        BY <3>1, <3>3, <3>4 DEF Stripes
    <3> QED
        BY <1>1, <3>5 DEF Inv, Typed, TypedStripe
  <2> QED
      BY <2>1, <2>2 DEF Sync
<1>3. CASE Ends(h)
    BY <1>1, <1>2, <1>3, InvOver
<1>4. CASE job[h].op = "remove" /\ Moves(h, "detach")
  <2>1. PICK j : j = [job[h] EXCEPT !.at = "detach"]
      OBVIOUS
  <2>2. j \in Jobs /\ j.at = "detach" /\ j.op = "remove" /\ j.c = job[h].c
      BY <1>4, <2>1, JobMeaning DEF Jobs
  <2>3. Step(h, j)
      BY <1>4, <2>1 DEF Moves
  <2>4. Known(j) /\ InSession(j) /\ ~Setup(j) /\ Fresh(j)
      BY <1>1, <1>4, <2>2, JobMeaning DEF Known, InSession, Setup, Fresh
  <2>5. TypedJobs' /\ Informed'
      BY <1>1, <1>2, <2>2, <2>3, <2>4, HandlerStep
  <2> QED
      BY <1>1, <1>2, <2>5, InvJobs, JobMeaning
<1> QED
    BY <1>3, <1>4 DEF Sync, AfterSync

\* A commit writes the table, and leaves it well typed.
LEMMA InvCommits ==
    ASSUME Inv, NEW h \in Handlers, NEW claims, Commits(h, claims), TypedRows', TypedJobs', Informed',
           UNCHANGED <<customer, stripe, calm, faults>>
    PROVE  Inv'
<1>1. crossed' \subseteq Handlers /\ ordered' \in BOOLEAN
    BY JobMeaning DEF Commits, OtherReaders
<1> QED
    BY <1>1, StripeStays DEF Inv, Typed, TypedRest

LEMMA InvCommitConfirm ==
    ASSUME Inv, NEW h \in Handlers, CommitConfirm(h)
    PROVE  Inv'
<1>1. /\ job[h].op = "confirm" /\ job[h].at = "commit" /\ Commits(h, stripe.session[job[h].c].want)
      /\ UNCHANGED <<customer, stripe, calm, faults>>
    BY DEF CommitConfirm, At
<1>2. PICK c \in Cards : c = job[h].c
    BY <1>1, JobMeaning DEF Known
<1>3. TypedRows'
  <2>1. row' = Claimed(c, job[h].out) \/ row' = [row EXCEPT ![c] = Written(c, FALSE)]
      BY <1>2 DEF CommitConfirm
  <2>2. TypedRows
      BY DEF Inv, Typed
  <2>3. CASE row' = Claimed(c, job[h].out)
      BY <2>2, <2>3, ClaimRow
  <2>4. CASE row' = [row EXCEPT ![c] = Written(c, FALSE)]
      BY <2>2, <2>4, RewriteRow
  <2> QED
      BY <2>1, <2>3, <2>4
<1>4. PICK j : j = [Quiet EXCEPT !.at = "sync", !.op = "confirm", !.c = c, !.next = c]
    OBVIOUS
<1>5. j \in Jobs /\ j.at = "sync" /\ j.op = "confirm" /\ j.c = c
    BY <1>4, QuietIsNothing DEF Jobs
<1>6. Known(j) /\ InSession(j) /\ ~Setup(j)
    BY <1>1, <1>2, <1>5, JobMeaning DEF Known, InSession, Setup
<1>7. Step(h, j) \/ Step(h, Quiet)
    BY <1>2, <1>4 DEF CommitConfirm, Ends
<1>8. TypedJobs' /\ Informed'
    BY <1>1, <1>5, <1>6, <1>7, QuietIsNothing, CommitStep DEF Commits
<1> QED
    BY <1>1, <1>3, <1>8, InvCommits

LEMMA InvCommitUpdate ==
    ASSUME Inv, NEW h \in Handlers, CommitUpdate(h)
    PROVE  Inv'
<1>1. /\ job[h].op = "update" /\ job[h].at = "commit" /\ Commits(h, TRUE)
      /\ UNCHANGED <<customer, stripe, calm, faults>>
    BY DEF CommitUpdate, At
<1>2. PICK c \in Cards : c = job[h].c
    BY <1>1, JobMeaning DEF Known
<1>3. TypedRows'
  <2>1. row' = Claimed(c, job[h].out)
      BY <1>2 DEF CommitUpdate
  <2> QED
      BY <2>1, ClaimRow DEF Inv, Typed
<1>4. PICK j : j = [Quiet EXCEPT !.at = "sync", !.op = "update", !.c = c, !.next = c]
    OBVIOUS
<1>5. j \in Jobs /\ j.at = "sync" /\ j.op = "update" /\ j.c = c
    BY <1>4, QuietIsNothing DEF Jobs
<1>6. Known(j) /\ InSession(j) /\ ~Setup(j)
    BY <1>5 DEF Known, InSession, Setup
<1>7. Step(h, j)
    BY <1>2, <1>4 DEF CommitUpdate
<1>8. TypedJobs' /\ Informed'
    BY <1>1, <1>5, <1>6, <1>7, CommitStep DEF Commits
<1> QED
    BY <1>1, <1>3, <1>8, InvCommits

LEMMA InvCommitRemove ==
    ASSUME Inv, NEW h \in Handlers, CommitRemove(h)
    PROVE  Inv'
<1>1. /\ job[h].op = "remove" /\ job[h].at = "commit" /\ Commits(h, FALSE)
      /\ UNCHANGED <<customer, stripe, calm, faults>>
    BY DEF CommitRemove, At
<1>2. PICK c \in Cards : c = job[h].c
    BY <1>1, JobMeaning DEF Known
<1>3. TypedRows'
  <2>1. row' = Removed(c, job[h].next)
      BY <1>2 DEF CommitRemove
  <2>2. job[h].next \in Rows \/ job[h].next \notin Cards
      BY NoneAssumption DEF CommitRemove
  <2>3. job[h].next # c
      BY <1>1, <1>2, JobMeaning DEF Known
  <2> QED
      BY <2>1, <2>2, <2>3, RemoveRow DEF Inv, Typed
<1>4. PICK at \in {"sync", "detach"} : at = IF job[h].was THEN "sync" ELSE "detach"
    OBVIOUS
<1>5. PICK j : j = [job[h] EXCEPT !.at = at, !.was = FALSE]
    OBVIOUS
<1>6. j \in Jobs /\ j.at = at /\ j.op = "remove" /\ j.c = c
    BY <1>1, <1>2, <1>5, JobMeaning DEF Jobs
<1>7. Known(j) /\ InSession(j) /\ ~Setup(j)
    BY <1>6 DEF Known, InSession, Setup
<1>8. Step(h, j)
    BY <1>4, <1>5 DEF CommitRemove
<1>9. TypedJobs' /\ Informed'
    BY <1>1, <1>6, <1>7, <1>8, CommitStep DEF Commits
<1> QED
    BY <1>1, <1>3, <1>9, InvCommits

LEMMA InvStep == Inv /\ [Next]_vars => Inv'
<1> SUFFICES ASSUME Inv, [Next]_vars PROVE Inv'
    OBVIOUS
<1>1. CASE UNCHANGED vars
  <2>1. row' = row /\ stripe' = stripe /\ customer' = customer /\ job' = job /\ crossed' = crossed
        /\ ordered' = ordered /\ calm' = calm /\ faults' = faults
      BY <1>1 DEF vars
  <2>2. TypedJobs' /\ Informed'
    <3>1. Rows' = Rows /\ Defaults' = Defaults
        BY <2>1, RowsStay
    <3> QED
        BY <2>1, <3>1 DEF Inv, Typed, TypedJobs, Known, Informed, InSession, Fresh, Setup
  <2> QED
      BY <2>1, <2>2, InvJobs, StripeStays DEF Inv, Typed, TypedRest
<1>2. CASE Next
  <2>1. ASSUME NEW h \in Handlers, Request(h)
        PROVE  Inv'
      BY <2>1, InvBeginSetup, InvBeginConfirm, InvBeginUpdate, InvBeginRemove DEF Request
  <2>2. ASSUME NEW h \in Handlers, Work(h)
        PROVE  Inv'
      BY <2>2, InvFindCustomer, InvCreateCustomer, InvSaveCustomer, InvCreateSession, InvRetrieveMethod,
         InvAttach, InvOpenConfirm, InvCommitConfirm, InvOpenUpdate, InvCommitUpdate, InvOpenRemove,
         InvCommitRemove, InvRollback, InvSync, InvDetach DEF Work
  <2> QED
      BY <1>2, <2>1, <2>2, InvRollback, InvCompleteSession DEF Next
<1> QED
    BY <1>1, <1>2
\* The type invariant, and with it that cards saved are told apart by their age,
\* for every number of cards, customers, requests and faults.
THEOREM PaymentMethodsTypeCorrect == Spec => []TypeOK
<1> DEFINE Told == behind \in BOOLEAN
<1>1. Inv /\ Told => TypeOK
    BY TypedIsTypeOK DEF Inv
<1>2. Init => Told
    BY DEF Init
<1>3. Told /\ [Next]_vars => Told'
    BY DEF vars, Next, Request, Work, BeginSetup, BeginConfirm, BeginUpdate, BeginRemove, FindCustomer,
           CreateCustomer, SaveCustomer, CreateSession, CompleteSession, RetrieveMethod, Attach, OpenConfirm,
           CommitConfirm, OpenUpdate, CommitUpdate, OpenRemove, CommitRemove, Rollback, Sync, Detach, Fault
<1> QED
    BY <1>1, <1>2, <1>3, TypedInit, InvStep, PTL DEF Spec

-----------------------------------------------------------------------------
(* The default card. *)

One == Rows = {} \/ \E c \in Cards : Defaults = {c}

\* What a transaction that no other has crossed does to the default card.
LEMMA ConfirmEffect ==
    ASSUME Inv, NEW h \in Handlers, CommitConfirm(h), h \notin crossed
    PROVE  /\ job[h].c \in Cards
           /\ stripe.session[job[h].c].want \/ Rows = {} => Defaults' = {job[h].c}
           /\ ~(stripe.session[job[h].c].want \/ Rows = {}) => Defaults' = Defaults /\ Rows \subseteq Rows'
<1>1. /\ job[h].op = "confirm" /\ job[h].at = "commit" /\ Fresh(job[h])
    BY JobMeaning DEF CommitConfirm, At
<1>2. PICK c \in Cards : c = job[h].c
    BY <1>1, JobMeaning DEF Known
<1>3. PICK w : w = stripe.session[c].want
    OBVIOUS
<1>4. /\ job[h].was = row[c].isDefault /\ job[h].want = (w \/ Rows = {})
      /\ job[h].out = IF w THEN Defaults ELSE {}
    BY <1>1, <1>2, <1>3 DEF Fresh
<1>5. w \in BOOLEAN /\ TypedRows
    BY <1>3 DEF Inv, Typed, TypedStripe, Stripes
<1>6. Rows = {} => Defaults = {}
    BY DEF Defaults
<1>7. CASE w \/ Rows = {}
  <2>1. row' = Claimed(c, job[h].out)
      BY <1>2, <1>4, <1>7 DEF CommitConfirm
  <2>2. Defaults' = (Defaults \ job[h].out) \cup {c}
      BY <1>5, <2>1, ClaimRow
  <2>3. Defaults' = {c}
      BY <1>4, <1>6, <1>7, <2>2
  <2> QED
      BY <1>2, <1>3, <1>7, <2>3
<1>8. CASE ~(w \/ Rows = {})
  <2>1. ~job[h].want /\ job[h].out = {}
      BY <1>4, <1>5, <1>8
  <2>2. CASE row[c].isDefault
    <3>1. row' = Claimed(c, {})
        BY <1>2, <1>4, <2>1, <2>2 DEF CommitConfirm
    <3>2. Defaults' = Defaults \cup {c} /\ Rows' = Rows \cup {c}
        BY <1>5, <3>1, ClaimRow
    <3>3. c \in Defaults
        BY <1>5, <2>2, NoRowIsCard, DefaultsMeaning DEF TypedRows, Saved
    <3> QED
        BY <1>2, <1>3, <1>8, <3>2, <3>3
  <2>3. CASE ~row[c].isDefault
    <3>1. row' = [row EXCEPT ![c] = Written(c, FALSE)]
        BY <1>2, <1>4, <2>1, <2>3 DEF CommitConfirm
    <3>2. Defaults' = Defaults \ {c} /\ Rows' = Rows \cup {c}
        BY <1>5, <3>1, RewriteRow
    <3>3. c \notin Defaults
        BY <2>3, DefaultsMeaning
    <3> QED
        BY <1>2, <1>3, <1>8, <3>2, <3>3
  <2> QED
      BY <2>2, <2>3
<1> QED
    BY <1>7, <1>8

LEMMA UpdateEffect ==
    ASSUME Inv, NEW h \in Handlers, CommitUpdate(h), h \notin crossed
    PROVE  job[h].c \in Cards /\ Defaults' = {job[h].c}
<1>1. /\ job[h].op = "update" /\ job[h].at = "commit" /\ Fresh(job[h])
    BY JobMeaning DEF CommitUpdate, At
<1>2. PICK c \in Cards : c = job[h].c
    BY <1>1, JobMeaning DEF Known
<1>3. job[h].out = Defaults \ {c}
    BY <1>1, <1>2 DEF Fresh
<1>4. Defaults' = (Defaults \ job[h].out) \cup {c}
    BY <1>2, ClaimRow DEF CommitUpdate, Inv, Typed
<1> QED
    BY <1>2, <1>3, <1>4

LEMMA RemoveEffect ==
    ASSUME Inv, NEW h \in Handlers, CommitRemove(h), h \notin crossed, One
    PROVE  /\ job[h].c \in Cards /\ Rows' = Rows \ {job[h].c}
           /\ job[h].c \notin Defaults => Defaults' = Defaults
           /\ job[h].c \in Defaults => One'
<1>1. /\ job[h].op = "remove" /\ job[h].at = "commit" /\ Fresh(job[h])
    BY JobMeaning DEF CommitRemove, At
<1>2. PICK c \in Cards : c = job[h].c
    BY <1>1, JobMeaning DEF Known
<1>3. PICK f : f = job[h].next
    OBVIOUS
<1>4. /\ job[h].was = row[c].isDefault
      /\ job[h].was /\ Rows \ {c} # {} => f \in Rows
      /\ ~(job[h].was /\ Rows \ {c} # {}) => f = None
    BY <1>1, <1>2, <1>3 DEF Fresh
<1>5. Rows' = Rows \ {c} /\ Defaults' = (Defaults \ {c}) \cup ({f} \cap Cards) /\ f # c
  <2>1. row' = Removed(c, f) /\ (f \in Rows \/ f \notin Cards)
      BY <1>2, <1>3, NoneAssumption DEF CommitRemove
  <2>2. f # c
      BY <1>1, <1>2, <1>3, JobMeaning DEF Known
  <2> QED
      BY <2>1, <2>2, RemoveRow DEF Inv, Typed
<1>6. Rows \subseteq Cards
    BY DEF Rows
<1>7. CASE c \notin Defaults
  <2>1. ~row[c].isDefault
      BY <1>7, NoRowIsCard, DefaultsMeaning DEF Inv, Typed, TypedRows, Saved
  <2>2. f = None
      BY <1>4, <2>1
  <2> QED
      BY <1>2, <1>5, <1>7, <2>2, NoneAssumption
<1>8. CASE c \in Defaults
  <2>1. row[c].isDefault /\ c \in Rows
      BY <1>8, DefaultsMeaning, RowsMeaning
  <2>2. Defaults = {c}
      BY <1>8, <2>1 DEF One
  <2>3. CASE Rows \ {c} = {}
    <3>1. Rows' = {}
        BY <1>5, <2>3
    <3> QED
        BY <1>2, <1>5, <1>8, <3>1 DEF One
  <2>4. CASE Rows \ {c} # {}
    <3>1. f \in Cards
        BY <1>4, <1>6, <2>1, <2>4
    <3>2. Defaults' = {f}
        BY <1>5, <2>2, <3>1
    <3> QED
        BY <1>2, <1>5, <1>8, <3>1, <3>2 DEF One
  <2> QED
      BY <2>3, <2>4
<1> QED
    BY <1>7, <1>8

\* Nothing but a commit writes the table.
LEMMA OnlyCommits ==
    ASSUME [Next]_vars
    PROVE  \/ row' = row /\ ordered' = ordered
           \/ \E h \in Handlers : CommitConfirm(h) \/ CommitUpdate(h) \/ CommitRemove(h)
BY DEF vars, Next, Request, Work, BeginSetup, BeginConfirm, BeginUpdate, BeginRemove, FindCustomer,
       CreateCustomer, SaveCustomer, CreateSession, CompleteSession, RetrieveMethod, Attach, OpenConfirm,
       OpenUpdate, OpenRemove, Rollback, Sync, Detach, Fault, Tables

LEMMA OneStep ==
    ASSUME Inv, ordered => One, [Next]_vars
    PROVE  ordered' => One'
<1>1. CASE row' = row /\ ordered' = ordered
  <2>1. Rows' = Rows /\ Defaults' = Defaults
      BY <1>1, RowsStay
  <2> QED
      BY <1>1, <2>1 DEF One
<1>2. ASSUME NEW h \in Handlers, CommitConfirm(h), ordered'
      PROVE  One'
  <2>1. h \notin crossed /\ (ordered \/ stripe.session[job[h].c].want)
      BY <1>2 DEF CommitConfirm, Commits
  <2> QED
      BY <1>2, <2>1, ConfirmEffect DEF One
<1>3. ASSUME NEW h \in Handlers, CommitUpdate(h), ordered'
      PROVE  One'
    BY <1>3, UpdateEffect DEF One, CommitUpdate, Commits
<1>4. ASSUME NEW h \in Handlers, CommitRemove(h), ordered'
      PROVE  One'
  <2>1. h \notin crossed /\ One
      BY <1>4 DEF CommitRemove, Commits
  <2> QED
      BY <1>4, <2>1, RemoveEffect DEF One
<1> QED
    BY <1>1, <1>2, <1>3, <1>4, OnlyCommits

LEMMA OneInit == Init => One
BY NoRowIsCard DEF Init, One, Rows, Saved

\* However many requests are under way and wherever they are lost, one saved card
\* is the default once the last word on it was not crossed by another commit.
THEOREM OneDefaultHolds == Spec => []OneDefault
<1>1. Init => Inv /\ OneDefault
    BY TypedInit, OneInit DEF OneDefault, One
<1>2. Inv /\ OneDefault /\ [Next]_vars => (Inv /\ OneDefault)'
    BY InvStep, OneStep DEF OneDefault, One
<1> QED
    BY <1>1, <1>2, PTL DEF Spec

\* And it stays the default until it is removed or another is chosen.
THEOREM DefaultStaysHolds == Spec => DefaultStays
<1> DEFINE Stays ==
        \A c \in Cards :
            (ordered /\ ordered' /\ Defaults = {c} /\ Defaults' # {c}) =>
                \/ ~Saved(c)'
                \/ \E h \in Handlers :
                    /\ job[h].at = "commit" /\ job[h].c # c
                    /\ \/ job[h].op = "update"
                       \/ (job[h].op = "confirm" /\ stripe.session[job[h].c].want)
<1>1. Inv /\ OneDefault /\ [Next]_vars => [Stays]_vars
  <2> SUFFICES ASSUME Inv, OneDefault, [Next]_vars, NEW c \in Cards,
                      ordered, ordered', Defaults = {c}, Defaults' # {c}
               PROVE  \/ ~Saved(c)'
                      \/ \E h \in Handlers :
                          /\ job[h].at = "commit" /\ job[h].c # c
                          /\ \/ job[h].op = "update"
                             \/ (job[h].op = "confirm" /\ stripe.session[job[h].c].want)
      OBVIOUS
  <2>1. One /\ Rows # {}
      BY DEF OneDefault, One, Defaults
  <2>2. row' # row
      BY RowsStay
  <2>3. ASSUME NEW h \in Handlers, CommitConfirm(h)
        PROVE  job[h].at = "commit" /\ job[h].op = "confirm" /\ job[h].c # c
               /\ stripe.session[job[h].c].want
    <3>1. h \notin crossed /\ job[h].at = "commit" /\ job[h].op = "confirm"
        BY <2>3 DEF CommitConfirm, Commits, At
    <3> QED
        BY <2>1, <2>3, <3>1, ConfirmEffect
  <2>4. ASSUME NEW h \in Handlers, CommitUpdate(h)
        PROVE  job[h].at = "commit" /\ job[h].op = "update" /\ job[h].c # c
    <3>1. h \notin crossed /\ job[h].at = "commit" /\ job[h].op = "update"
        BY <2>4 DEF CommitUpdate, Commits, At
    <3> QED
        BY <2>4, <3>1, UpdateEffect
  <2>5. ASSUME NEW h \in Handlers, CommitRemove(h)
        PROVE  ~Saved(c)'
    <3>1. h \notin crossed
        BY <2>5 DEF CommitRemove, Commits
    <3>2. Rows' = Rows \ {c}
        BY <2>1, <2>5, <3>1, RemoveEffect
    <3> QED
        BY <3>2 DEF Rows
  <2> QED
      BY <2>2, <2>3, <2>4, <2>5, OnlyCommits
<1>2. Init => Inv /\ OneDefault
    BY TypedInit, OneInit DEF OneDefault, One
<1>3. Inv /\ OneDefault /\ [Next]_vars => (Inv /\ OneDefault)'
    BY InvStep, OneStep DEF OneDefault, One
<1> QED
    BY <1>1, <1>2, <1>3, PTL DEF Spec, DefaultStays
-----------------------------------------------------------------------------
(* Whose the cards are, as long as requests come one at a time. *)

\* What a request without company may rely on.
Attends(j) ==
    /\ j.at \in {"customer_create", "customer_save"} => customer = None
    /\ j.at \in {"session", "method", "attach"} => j.cust = customer
    /\ j.at \in {"open", "commit"} /\ j.op = "confirm" => stripe.holder[j.c] = customer
    /\ j.at \in {"open", "commit"} /\ j.op # "confirm" => j.new = FALSE
    /\ j.at \in {"sync", "detach"} /\ j.op = "remove" => ~Saved(j.c)

\* Sessions are made for the account's customer, saved cards are complete and his.
Belongs(c) ==
    /\ stripe.session[c].state # "none" => stripe.session[c].cust = customer
    /\ Saved(c) => stripe.session[c].state = "complete" /\ stripe.holder[c] = customer

Alone(h) == \A g \in Handlers : g # h => job[g].at = "idle"

Attended ==
    calm => /\ \A h \in Handlers : job[h].at # "idle" => Alone(h) /\ Attends(job[h])
            /\ \A c \in Cards : Belongs(c)

LEMMA AttendedMeaning ==
    ASSUME Inv, Attended, calm, NEW h \in Handlers, job[h].at # "idle"
    PROVE  Alone(h) /\ Attends(job[h])
BY DEF Attended

\* The one request takes a step.
LEMMA AloneStep ==
    ASSUME Inv, NEW h \in Handlers, Alone(h), NEW j \in Jobs, Step(h, j),
           j.at # "idle" => Attends(j)', \A c \in Cards : Belongs(c)'
    PROVE  Attended'
<1>1. job \in [Handlers -> Jobs]
    BY DEF Inv, Typed, TypedJobs
<1>2. job'[h] = j /\ \A g \in Handlers : g # h => job'[g] = job[g]
    BY <1>1 DEF Step
<1>3. \A g \in Handlers : g # h => job'[g].at = "idle"
    BY <1>2 DEF Alone
<1> QED
    BY <1>2, <1>3 DEF Attended, Alone, Attends

LEMMA BelongsStays ==
    ASSUME Inv, Attended, calm, row' = row, customer' = customer,
           stripe'.session = stripe.session, stripe'.holder = stripe.holder
    PROVE  \A c \in Cards : Belongs(c)'
BY DEF Attended, Belongs, Saved

\* It ends, and has changed nothing.
LEMMA AttendedOver ==
    ASSUME Inv, Attended, NEW h \in Handlers, job[h].at # "idle", Ends(h), row' = row,
           customer' = customer, stripe' = stripe, calm' = calm
    PROVE  Attended'
<1> SUFFICES ASSUME calm PROVE Attended'
    BY DEF Attended
<1>1. Alone(h) /\ \A c \in Cards : Belongs(c)'
    BY AttendedMeaning, BelongsStays
<1> QED
    BY <1>1, QuietIsNothing, AloneStep DEF Ends

LEMMA AttendedBegin ==
    ASSUME Inv, Attended, NEW h \in Handlers, NEW j \in Jobs, Begins(h, j), row' = row,
           customer' = customer, stripe' = stripe,
           j.at = "customer" \/ (j.at = "open" /\ j.op # "confirm" /\ j.new = FALSE)
    PROVE  Attended'
<1> SUFFICES ASSUME calm' PROVE Attended'
    BY DEF Attended
<1>1. calm /\ Alone(h) /\ Step(h, j)
    BY DEF Begins, Idle, Alone
<1>2. Attends(j)'
    BY DEF Attends
<1> QED
    BY <1>1, <1>2, BelongsStays, AloneStep

LEMMA AttendedRequest ==
    ASSUME Inv, Attended, NEW h \in Handlers, Request(h)
    PROVE  Attended'
<1>1. PICK c \in Cards : BeginSetup(h, c) \/ BeginConfirm(h, c) \/ BeginUpdate(h, c) \/ BeginRemove(h, c)
    BY DEF Request
<1>2. row' = row /\ customer' = customer /\ stripe' = stripe
    BY <1>1 DEF BeginSetup, BeginConfirm, BeginUpdate, BeginRemove, Tables
<1>3. CASE BeginSetup(h, c)
  <2>1. PICK asked \in {"yes", "no", "unsaid"} :
          Begins(h, [Quiet EXCEPT !.at = "customer", !.op = "setup", !.c = c,
                                  !.want = ShouldBeDefault(asked)])
      BY <1>3 DEF BeginSetup
  <2>2. PICK w \in BOOLEAN : w = ShouldBeDefault(asked)
      BY DEF ShouldBeDefault
  <2>3. PICK j : j = [Quiet EXCEPT !.at = "customer", !.op = "setup", !.c = c, !.want = w]
      OBVIOUS
  <2>4. j \in Jobs /\ j.at = "customer"
      BY <2>2, <2>3, QuietIsNothing DEF Jobs
  <2> QED
      BY <1>2, <2>1, <2>2, <2>3, <2>4, AttendedBegin
<1>4. CASE BeginConfirm(h, c)
  <2>1. PICK w \in BOOLEAN : w = stripe.session[c].want
      BY DEF Inv, Typed, TypedStripe, Stripes
  <2>2. PICK j : j = [Quiet EXCEPT !.at = "customer", !.op = "confirm", !.c = c, !.want = w]
      OBVIOUS
  <2>3. j \in Jobs /\ j.at = "customer"
      BY <2>1, <2>2, QuietIsNothing DEF Jobs
  <2> QED
      BY <1>2, <1>4, <2>1, <2>2, <2>3, AttendedBegin DEF BeginConfirm
<1>5. CASE BeginUpdate(h, c)
  <2>1. PICK j : j = [Quiet EXCEPT !.at = "open", !.op = "update", !.c = c]
      OBVIOUS
  <2>2. j \in Jobs /\ j.at = "open" /\ j.op = "update" /\ j.new = Quiet.new
      BY <2>1, QuietIsNothing DEF Jobs
  <2>3. Quiet.new = FALSE
      BY DEF Quiet
  <2> QED
      BY <1>2, <1>5, <2>1, <2>2, <2>3, AttendedBegin DEF BeginUpdate
<1>6. CASE BeginRemove(h, c)
  <2>1. PICK w \in BOOLEAN : w = row[c].isDefault
      BY DEF Inv, Typed, TypedRows, CardRows
  <2>2. PICK j : j = [Quiet EXCEPT !.at = "open", !.op = "remove", !.c = c, !.was = w]
      OBVIOUS
  <2>3. j \in Jobs /\ j.at = "open" /\ j.op = "remove" /\ j.new = Quiet.new
      BY <2>1, <2>2, QuietIsNothing DEF Jobs
  <2>4. Quiet.new = FALSE
      BY DEF Quiet
  <2> QED
      BY <1>2, <1>6, <2>1, <2>2, <2>3, <2>4, AttendedBegin DEF BeginRemove
<1> QED
    BY <1>1, <1>3, <1>4, <1>5, <1>6

LEMMA AttendedFindCustomer ==
    ASSUME Inv, Attended, NEW h \in Handlers, FindCustomer(h)
    PROVE  Attended'
<1> SUFFICES ASSUME calm PROVE Attended'
    BY DEF Attended, FindCustomer
<1>1. /\ job[h] \in Jobs /\ job[h].at = "customer" /\ customer \in Customers \cup {None}
      /\ row' = row /\ customer' = customer /\ stripe' = stripe
    BY JobMeaning DEF Inv, Typed, TypedStripe, FindCustomer, Tables
<1>2. Alone(h) /\ \A c \in Cards : Belongs(c)'
    BY <1>1, AttendedMeaning, BelongsStays
<1>3. CASE customer = None
  <2>1. PICK j : j = [job[h] EXCEPT !.at = "customer_create"]
      OBVIOUS
  <2>2. j \in Jobs /\ j.at = "customer_create"
      BY <1>1, <2>1 DEF Jobs
  <2>3. Attends(j)'
      BY <1>1, <1>3, <2>2 DEF Attends
  <2> QED
      BY <1>2, <1>3, <2>1, <2>2, <2>3, AloneStep DEF FindCustomer
<1>4. CASE customer # None
  <2>1. PICK at \in {"session", "method"} : at = AfterCustomer(h)
      BY DEF AfterCustomer
  <2>2. PICK k \in Customers : k = customer
      BY <1>1, <1>4
  <2>3. PICK j : j = [job[h] EXCEPT !.at = at, !.cust = k]
      OBVIOUS
  <2>4. j \in Jobs /\ j.at = at /\ j.cust = k
      BY <1>1, <2>3 DEF Jobs
  <2>5. Attends(j)'
      BY <1>1, <2>2, <2>4 DEF Attends
  <2> QED
      BY <1>2, <1>4, <2>1, <2>2, <2>3, <2>4, <2>5, AloneStep DEF FindCustomer
<1> QED
    BY <1>3, <1>4

LEMMA AttendedCreateCustomer ==
    ASSUME Inv, Attended, NEW h \in Handlers, CreateCustomer(h)
    PROVE  Attended'
<1> SUFFICES ASSUME calm PROVE Attended'
    BY DEF Attended, CreateCustomer
<1>1. PICK k \in Customers \ stripe.customers :
        /\ stripe' = [stripe EXCEPT !.customers = @ \cup {k}]
        /\ Step(h, [job[h] EXCEPT !.at = "customer_save", !.cust = k])
    BY DEF CreateCustomer
<1>2. /\ job[h] \in Jobs /\ job[h].at = "customer_create" /\ row' = row /\ customer' = customer
    BY JobMeaning DEF CreateCustomer, Tables
<1>3. stripe'.session = stripe.session /\ stripe'.holder = stripe.holder
    BY <1>1 DEF Inv, Typed, TypedStripe, Stripes
<1>4. Alone(h) /\ customer = None /\ \A c \in Cards : Belongs(c)'
    BY <1>2, <1>3, AttendedMeaning, BelongsStays DEF Attends
<1>5. PICK j : j = [job[h] EXCEPT !.at = "customer_save", !.cust = k]
    OBVIOUS
<1>6. j \in Jobs /\ j.at = "customer_save"
    BY <1>2, <1>5 DEF Jobs
<1>7. Attends(j)'
    BY <1>2, <1>4, <1>6 DEF Attends
<1> QED
    BY <1>1, <1>4, <1>5, <1>6, <1>7, AloneStep

\* The account had no customer, hence no session and no card.
LEMMA AttendedSaveCustomer ==
    ASSUME Inv, Attended, NEW h \in Handlers, SaveCustomer(h)
    PROVE  Attended'
<1> SUFFICES ASSUME calm PROVE Attended'
    BY DEF Attended, SaveCustomer
<1>1. /\ job[h] \in Jobs /\ job[h].at = "customer_save" /\ row' = row /\ stripe' = stripe
      /\ customer' = job[h].cust
    BY JobMeaning DEF SaveCustomer, Tables
<1>2. Alone(h) /\ customer = None
    BY <1>1, AttendedMeaning DEF Attends
<1>3. ASSUME NEW c \in Cards
      PROVE  Belongs(c)'
  <2>1. stripe.session[c].state = "none"
      BY <1>2, <1>3, NoneAssumption DEF Attended, Belongs, Inv, Typed, TypedStripe
  <2>2. ~Saved(c)
      BY <1>3, <2>1 DEF Attended, Belongs
  <2> QED
      BY <1>1, <2>1, <2>2 DEF Belongs, Saved
<1>4. PICK at \in {"session", "method"} : at = AfterCustomer(h)
    BY DEF AfterCustomer
<1>5. PICK j : j = [job[h] EXCEPT !.at = at]
    OBVIOUS
<1>6. j \in Jobs /\ j.at = at /\ j.cust = job[h].cust
    BY <1>1, <1>5 DEF Jobs
<1>7. Attends(j)'
    BY <1>1, <1>6 DEF Attends
<1> QED
    BY <1>2, <1>3, <1>4, <1>5, <1>6, <1>7, AloneStep DEF SaveCustomer, Moves

LEMMA AttendedCreateSession ==
    ASSUME Inv, Attended, NEW h \in Handlers, CreateSession(h)
    PROVE  Attended'
<1> SUFFICES ASSUME calm PROVE Attended'
    BY DEF Attended, CreateSession
<1>1. /\ job[h].at = "session" /\ job[h].op = "setup" /\ row' = row /\ customer' = customer
      /\ Step(h, Quiet)
    BY DEF CreateSession, At, Tables, Ends
<1>2. PICK c \in Cards : c = job[h].c
    BY <1>1, JobMeaning DEF Known
<1>3. Alone(h) /\ job[h].cust = customer /\ stripe.session[c].state = "none"
    BY <1>1, <1>2, AttendedMeaning, JobMeaning DEF Attends, InSession
<1>4. PICK s : s = [state |-> "open", cust |-> job[h].cust, want |-> job[h].want]
    OBVIOUS
<1>5. s.state = "open" /\ s.cust = customer
    BY <1>3, <1>4
<1>6. stripe' = [stripe EXCEPT !.session[c] = s] /\ stripe \in Stripes
    BY <1>2, <1>4 DEF CreateSession, Inv, Typed, TypedStripe
<1>7. /\ stripe'.session[c] = s /\ stripe'.holder = stripe.holder
      /\ \A d \in Cards : d # c => stripe'.session[d] = stripe.session[d]
    BY <1>6 DEF Stripes
<1>8. ASSUME NEW d \in Cards
      PROVE  Belongs(d)'
  <2>1. Belongs(d)
      BY DEF Attended
  <2>2. CASE d = c
      BY <1>1, <1>3, <1>5, <1>7, <2>1, <2>2 DEF Belongs, Saved
  <2>3. CASE d # c
      BY <1>1, <1>7, <2>1, <2>3 DEF Belongs, Saved
  <2> QED
      BY <2>2, <2>3
<1> QED
    BY <1>1, <1>3, <1>8, QuietIsNothing, AloneStep

LEMMA AttendedCompleteSession ==
    ASSUME Inv, Attended, NEW c \in Cards, CompleteSession(c)
    PROVE  Attended'
<1> SUFFICES ASSUME calm PROVE Attended'
    BY DEF Attended, CompleteSession
<1>1. PICK k \in {"loose", stripe.session[c].cust} :
        stripe' = [stripe EXCEPT !.session[c].state = "complete", !.holder[c] = k]
    BY DEF CompleteSession
<1>2. /\ stripe \in Stripes /\ stripe.session[c].state = "open"
      /\ row' = row /\ customer' = customer /\ job' = job
    BY DEF Inv, Typed, TypedStripe, CompleteSession, Tables
<1>3. /\ stripe'.session[c].cust = stripe.session[c].cust
      /\ \A d \in Cards : d # c => /\ stripe'.session[d] = stripe.session[d]
                                   /\ stripe'.holder[d] = stripe.holder[d]
    BY <1>1, <1>2 DEF Stripes
<1>4. \A d \in Cards : Belongs(d)
    BY DEF Attended
<1>5. ASSUME NEW d \in Cards
      PROVE  Belongs(d)'
  <2>1. CASE d = c
      BY <1>2, <1>3, <1>4, <2>1 DEF Belongs, Saved
  <2>2. CASE d # c
      BY <1>2, <1>3, <1>4, <2>2 DEF Belongs, Saved
  <2> QED
      BY <2>1, <2>2
<1>6. ASSUME NEW h \in Handlers, job[h].at # "idle"
      PROVE  Alone(h)' /\ Attends(job[h])'
  <2>1. Alone(h) /\ Attends(job[h]) /\ job[h].c \in Cards
      BY <1>6, AttendedMeaning, JobMeaning DEF Known
  <2>2. job[h].op = "confirm" => job[h].c # c
      BY <1>2, <1>6, JobMeaning DEF InSession
  <2> QED
      BY <1>2, <1>3, <2>1, <2>2 DEF Alone, Attends, Saved
<1> QED
    BY <1>2, <1>5, <1>6 DEF Attended
\* A card is about to be saved that is attached to the customer.
LEMMA AttendedMoves ==
    ASSUME Inv, Attended, calm, NEW h \in Handlers, NEW at \in {"open", "attach"}, Moves(h, at),
           job[h].op = "confirm", job[h].at \in {"method", "attach"}, \A c \in Cards : Belongs(c)',
           customer' = customer, at = "open" => stripe'.holder[job[h].c] = customer
    PROVE  Attended'
<1>1. PICK j : j = [job[h] EXCEPT !.at = at]
    OBVIOUS
<1>2. j \in Jobs /\ j.at = at /\ j.cust = job[h].cust /\ j.op = "confirm" /\ j.c = job[h].c
    BY <1>1, JobMeaning DEF Jobs
<1>3. Alone(h) /\ job[h].cust = customer
    BY AttendedMeaning DEF Attends
<1>4. Attends(j)'
    BY <1>2, <1>3 DEF Attends
<1> QED
    BY <1>1, <1>2, <1>3, <1>4, AloneStep DEF Moves

LEMMA AttendedRetrieveMethod ==
    ASSUME Inv, Attended, NEW h \in Handlers, RetrieveMethod(h)
    PROVE  Attended'
<1> SUFFICES ASSUME calm PROVE Attended'
    BY DEF Attended, RetrieveMethod
<1>1. /\ job[h].op = "confirm" /\ job[h].at = "method" /\ calm' = calm
      /\ row' = row /\ stripe' = stripe /\ customer' = customer
    BY DEF RetrieveMethod, At, Tables
<1>2. job[h].cust = customer /\ \A c \in Cards : Belongs(c)'
    BY <1>1, AttendedMeaning, BelongsStays DEF Attends
<1>3. CASE stripe.holder[job[h].c] = job[h].cust /\ Moves(h, "open")
    BY <1>1, <1>2, <1>3, AttendedMoves
<1>4. CASE Moves(h, "attach")
    BY <1>1, <1>2, <1>4, AttendedMoves
<1>5. CASE Ends(h)
    BY <1>1, <1>5, AttendedOver
<1> QED
    BY <1>3, <1>4, <1>5 DEF RetrieveMethod

LEMMA AttendedAttach ==
    ASSUME Inv, Attended, NEW h \in Handlers, Attach(h)
    PROVE  Attended'
<1> SUFFICES ASSUME calm PROVE Attended'
    BY DEF Attended, Attach
<1>1. /\ job[h].op = "confirm" /\ job[h].at = "attach" /\ calm' = calm
      /\ row' = row /\ customer' = customer
    BY DEF Attach, At, Tables
<1>2. PICK c \in Cards : c = job[h].c
    BY <1>1, JobMeaning DEF Known
<1>3. job[h].cust = customer
    BY <1>1, AttendedMeaning DEF Attends
<1>4. CASE stripe' = [stripe EXCEPT !.holder[c] = customer] /\ Moves(h, "open")
  <2>1. /\ stripe'.session = stripe.session /\ stripe'.holder[c] = customer
        /\ \A d \in Cards : d # c => stripe'.holder[d] = stripe.holder[d]
      BY <1>4 DEF Inv, Typed, TypedStripe, Stripes
  <2>2. \A d \in Cards : Belongs(d)'
      BY <1>1, <2>1 DEF Attended, Belongs, Saved
  <2> QED
      BY <1>1, <1>2, <1>4, <2>1, <2>2, AttendedMoves
<1>5. CASE Ends(h) /\ stripe' = stripe
    BY <1>1, <1>5, AttendedOver
<1> QED
    BY <1>2, <1>3, <1>4, <1>5 DEF Attach

\* A transaction begins.
LEMMA OpenMoves ==
    ASSUME Inv, NEW h \in Handlers, OpenConfirm(h) \/ OpenUpdate(h) \/ OpenRemove(h)
    PROVE  \E j \in Jobs : /\ Step(h, j) /\ j.at = "commit" /\ j.op = job[h].op /\ j.c = job[h].c
                           /\ job[h].op # "confirm" => j.new = job[h].new
<1>1. PICK j : Step(h, j)
    BY DEF OpenConfirm, OpenUpdate, OpenRemove
<1>2. job' = [job EXCEPT ![h] = j] /\ job \in [Handlers -> Jobs] /\ job'[h] = j
    BY <1>1 DEF Step, Inv, Typed, TypedJobs
<1>3. j \in Jobs
  <2>1. Inv'
      BY InvOpenConfirm, InvOpenUpdate, InvOpenRemove
  <2> QED
      BY <1>2, <2>1 DEF Inv, Typed, TypedJobs
<1>4. /\ j.op = job[h].op /\ j.c = job[h].c /\ j.at = "commit"
      /\ job[h].op # "confirm" => j.new = job[h].new
  <2>1. job[h] \in Jobs
      BY JobMeaning
  <2>2. CASE OpenConfirm(h)
    <3>1. job[h].op = "confirm"
        BY <2>2 DEF OpenConfirm, At
    <3>2. PICK n, w, g, o :
            job' = [job EXCEPT ![h] = [job[h] EXCEPT !.at = "commit", !.new = n, !.was = w,
                                                     !.want = g, !.out = o]]
        BY <2>2 DEF OpenConfirm, Step
    <3>3. j = [job[h] EXCEPT !.at = "commit", !.new = n, !.was = w, !.want = g, !.out = o]
        BY <1>2, <3>2
    <3> QED
        BY <2>1, <3>1, <3>3 DEF Jobs
  <2>3. CASE OpenUpdate(h)
    <3>1. PICK o : job' = [job EXCEPT ![h] = [job[h] EXCEPT !.at = "commit", !.out = o]]
        BY <2>3 DEF OpenUpdate, Step
    <3>2. j = [job[h] EXCEPT !.at = "commit", !.out = o]
        BY <1>2, <3>1
    <3> QED
        BY <2>1, <3>2 DEF Jobs
  <2>4. CASE OpenRemove(h)
    <3>1. PICK f : job' = [job EXCEPT ![h] = [job[h] EXCEPT !.at = "commit", !.next = f]]
        BY <2>4 DEF OpenRemove, Step
    <3>2. j = [job[h] EXCEPT !.at = "commit", !.next = f]
        BY <1>2, <3>1
    <3> QED
        BY <2>1, <3>2 DEF Jobs
  <2> QED
      BY <2>2, <2>3, <2>4
<1> QED
    BY <1>1, <1>3, <1>4

LEMMA AttendedOpen ==
    ASSUME Inv, Attended, NEW h \in Handlers, OpenConfirm(h) \/ OpenUpdate(h) \/ OpenRemove(h)
    PROVE  Attended'
<1> SUFFICES ASSUME calm PROVE Attended'
    BY DEF Attended, OpenConfirm, OpenUpdate, OpenRemove
<1>1. /\ job[h].at = "open" /\ row' = row /\ stripe' = stripe /\ customer' = customer
    BY DEF OpenConfirm, OpenUpdate, OpenRemove, At, Tables
<1>2. Alone(h) /\ Attends(job[h]) /\ \A c \in Cards : Belongs(c)'
    BY <1>1, AttendedMeaning, BelongsStays
<1>3. PICK j \in Jobs : /\ Step(h, j) /\ j.at = "commit" /\ j.op = job[h].op /\ j.c = job[h].c
                        /\ job[h].op # "confirm" => j.new = job[h].new
    BY OpenMoves
<1>4. Attends(j)'
    BY <1>1, <1>2, <1>3 DEF Attends
<1> QED
    BY <1>2, <1>3, <1>4, AloneStep

\* A transaction commits: the card is complete and attached, or it is gone.
LEMMA AttendedCommit ==
    ASSUME Inv, Attended, NEW h \in Handlers, CommitConfirm(h) \/ CommitUpdate(h) \/ CommitRemove(h)
    PROVE  Attended'
<1> SUFFICES ASSUME calm PROVE Attended'
    BY DEF Attended, CommitConfirm, CommitUpdate, CommitRemove
<1>1. job[h].at = "commit" /\ stripe' = stripe /\ customer' = customer
    BY DEF CommitConfirm, CommitUpdate, CommitRemove, At
<1>2. PICK c \in Cards : c = job[h].c
    BY <1>1, JobMeaning DEF Known
<1>3. Alone(h) /\ Attends(job[h]) /\ TypedRows /\ \A d \in Cards : Belongs(d)
    BY <1>1, AttendedMeaning DEF Attended, Inv, Typed
<1>4. Inv'
    BY InvCommitConfirm, InvCommitUpdate, InvCommitRemove
<1>5. CASE CommitConfirm(h)
  <2>1. row' = Claimed(c, job[h].out) \/ row' = [row EXCEPT ![c] = Written(c, FALSE)]
      BY <1>2, <1>5 DEF CommitConfirm
  <2>2. Rows' = Rows \cup {c}
      BY <1>3, <2>1, ClaimRow, RewriteRow
  <2>3. stripe.session[c].state = "complete" /\ stripe.holder[c] = customer
      BY <1>1, <1>2, <1>3, <1>5, JobMeaning DEF CommitConfirm, At, InSession, Attends
  <2>4. \A d \in Cards : Belongs(d)'
      BY <1>1, <1>3, <2>2, <2>3 DEF Belongs, Rows
  <2>5. PICK j : j = [Quiet EXCEPT !.at = "sync", !.op = "confirm", !.c = c, !.next = c]
      OBVIOUS
  <2>6. j \in Jobs /\ j.at = "sync" /\ j.op = "confirm"
      BY <2>5, QuietIsNothing DEF Jobs
  <2>7. Step(h, j) \/ Step(h, Quiet)
      BY <1>2, <1>5, <2>5 DEF CommitConfirm, Ends
  <2>8. Attends(j)'
      BY <2>6 DEF Attends
  <2> QED
      BY <1>3, <2>4, <2>6, <2>7, <2>8, QuietIsNothing, AloneStep
<1>6. CASE CommitUpdate(h)
  <2>1. Rows' = Rows \cup {c}
      BY <1>2, <1>3, <1>6, ClaimRow DEF CommitUpdate
  <2>2. Saved(c)
      BY <1>1, <1>2, <1>3, <1>6 DEF CommitUpdate, At, RollsBack, Attends, TypedRows, CardRows, Saved
  <2>3. \A d \in Cards : Belongs(d)'
      BY <1>1, <1>3, <2>1, <2>2 DEF Belongs, Rows
  <2>4. PICK j : j = [Quiet EXCEPT !.at = "sync", !.op = "update", !.c = c, !.next = c]
      OBVIOUS
  <2>5. j \in Jobs /\ j.at = "sync" /\ j.op = "update"
      BY <2>4, QuietIsNothing DEF Jobs
  <2>6. Step(h, j)
      BY <1>2, <1>6, <2>4 DEF CommitUpdate
  <2>7. Attends(j)'
      BY <2>5 DEF Attends
  <2> QED
      BY <1>3, <2>3, <2>5, <2>6, <2>7, AloneStep
<1>7. CASE CommitRemove(h)
  <2>1. /\ row' = Removed(c, job[h].next) /\ job[h].op = "remove"
        /\ job[h].next \in Rows \/ job[h].next \notin Cards
      BY <1>2, <1>7, NoneAssumption DEF CommitRemove, At
  <2>2. Rows' = Rows \ {c}
      BY <1>1, <1>2, <1>3, <2>1, JobMeaning, RemoveRow DEF Known
  <2>3. \A d \in Cards : Belongs(d)'
      BY <1>1, <1>3, <2>2 DEF Belongs, Rows
  <2>4. PICK at \in {"sync", "detach"} : at = IF job[h].was THEN "sync" ELSE "detach"
      OBVIOUS
  <2>5. PICK j : j = [job[h] EXCEPT !.at = at, !.was = FALSE]
      OBVIOUS
  <2>6. j \in Jobs /\ j.at = at /\ j.op = "remove" /\ j.c = c
      BY <1>2, <2>1, <2>5, JobMeaning DEF Jobs
  <2>7. Step(h, j)
      BY <1>7, <2>4, <2>5 DEF CommitRemove
  <2>8. Attends(j)'
      BY <2>2, <2>6 DEF Attends, Rows
  <2> QED
      BY <1>3, <2>3, <2>6, <2>7, <2>8, AloneStep
<1> QED
    BY <1>5, <1>6, <1>7

LEMMA AttendedSync ==
    ASSUME Inv, Attended, NEW h \in Handlers, Sync(h)
    PROVE  Attended'
<1> SUFFICES ASSUME calm PROVE Attended'
    BY DEF Attended, Sync
<1>1. /\ job[h].at = "sync" /\ row' = row /\ customer' = customer /\ calm' = calm
    BY DEF Sync, Tables
<1>2. stripe'.session = stripe.session /\ stripe'.holder = stripe.holder
  <2>1. stripe \in Stripes
      BY DEF Inv, Typed, TypedStripe
  <2>2. stripe' = stripe \/ \E D : stripe' = [stripe EXCEPT !.default = D]
      BY DEF Sync
  <2> QED
      BY <2>1, <2>2 DEF Stripes
<1>3. Alone(h) /\ Attends(job[h]) /\ \A c \in Cards : Belongs(c)'
    BY <1>1, <1>2, AttendedMeaning, BelongsStays
<1>4. CASE Ends(h)
    BY <1>3, <1>4, QuietIsNothing, AloneStep DEF Ends
<1>5. CASE job[h].op = "remove" /\ Moves(h, "detach")
  <2>1. PICK j : j = [job[h] EXCEPT !.at = "detach"]
      OBVIOUS
  <2>2. j \in Jobs /\ j.at = "detach" /\ j.op = "remove" /\ j.c = job[h].c
      BY <1>5, <2>1, JobMeaning DEF Jobs
  <2>3. Attends(j)'
      BY <1>1, <1>3, <1>5, <2>2 DEF Attends, Saved
  <2> QED
      BY <1>3, <1>5, <2>1, <2>2, <2>3, AloneStep DEF Moves
<1> QED
    BY <1>4, <1>5 DEF Sync, AfterSync

LEMMA AttendedDetach ==
    ASSUME Inv, Attended, NEW h \in Handlers, Detach(h)
    PROVE  Attended'
<1> SUFFICES ASSUME calm PROVE Attended'
    BY DEF Attended, Detach
<1>1. /\ job[h].at = "detach" /\ job[h].op = "remove" /\ Step(h, Quiet) /\ row' = row
      /\ customer' = customer
      /\ stripe' = [stripe EXCEPT !.holder[job[h].c] = "detached"] \/ stripe' = stripe
    BY DEF Detach, At, Tables, Ends
<1>2. PICK c \in Cards : c = job[h].c
    BY <1>1, JobMeaning DEF Known
<1>3. Alone(h) /\ ~Saved(c) /\ \A d \in Cards : Belongs(d)
    BY <1>1, <1>2, AttendedMeaning DEF Attended, Attends
<1>4. stripe'.session = stripe.session /\ \A d \in Cards : d # c => stripe'.holder[d] = stripe.holder[d]
    BY <1>1, <1>2 DEF Inv, Typed, TypedStripe, Stripes
<1>5. \A d \in Cards : Belongs(d)'
    BY <1>1, <1>3, <1>4 DEF Belongs, Saved
<1> QED
    BY <1>1, <1>3, <1>5, QuietIsNothing, AloneStep

LEMMA AttendedRollback ==
    ASSUME Inv, Attended, NEW h \in Handlers, Rollback(h) \/ Fault(h)
    PROVE  Attended'
<1>1. /\ job[h].at # "idle" /\ Ends(h) /\ row' = row /\ stripe' = stripe /\ customer' = customer
      /\ calm' = calm
    BY DEF Rollback, Fault, Idle
<1> QED
    BY <1>1, AttendedOver

LEMMA AttendedStep == Inv /\ Attended /\ [Next]_vars => Attended'
<1> SUFFICES ASSUME Inv, Attended, [Next]_vars PROVE Attended'
    OBVIOUS
<1>1. CASE UNCHANGED vars
    BY <1>1 DEF vars, Attended, Alone, Attends, Belongs, Saved
<1>2. ASSUME NEW h \in Handlers, Work(h)
      PROVE  Attended'
    BY <1>2, AttendedFindCustomer, AttendedCreateCustomer, AttendedSaveCustomer, AttendedCreateSession,
       AttendedRetrieveMethod, AttendedAttach, AttendedOpen, AttendedCommit, AttendedRollback,
       AttendedSync, AttendedDetach DEF Work
<1> QED
    BY <1>1, <1>2, AttendedRequest, AttendedRollback, AttendedCompleteSession DEF Next

LEMMA AttendedInit == Init => Attended
<1> SUFFICES ASSUME Init PROVE Attended
    OBVIOUS
<1>1. \A h \in Handlers : job[h].at = "idle"
    BY QuietIsNothing DEF Init
<1>2. \A c \in Cards : stripe.session[c].state = "none" /\ ~Saved(c)
    BY NoRowIsCard DEF Init, Saved
<1> QED
    BY <1>1, <1>2 DEF Attended, Belongs

\* With requests one at a time, for any number of them and wherever they are lost,
\* the account keeps the customer its sessions were made for.
THEOREM SessionsOfCustomerHolds == Spec => []SessionsOfCustomer
<1>1. Attended => SessionsOfCustomer
    BY DEF Attended, Belongs, SessionsOfCustomer
<1>2. Inv /\ Attended /\ [Next]_vars => (Inv /\ Attended)'
    BY InvStep, AttendedStep
<1> QED
    BY <1>1, <1>2, TypedInit, AttendedInit, PTL DEF Spec

\* And every saved card is attached to that customer.
THEOREM SavedIsAttachedHolds == Spec => []SavedIsAttached
<1>1. Attended => SavedIsAttached
    BY DEF Attended, Belongs, SavedIsAttached, Rows
<1>2. Inv /\ Attended /\ [Next]_vars => (Inv /\ Attended)'
    BY InvStep, AttendedStep
<1> QED
    BY <1>1, <1>2, TypedInit, AttendedInit, PTL DEF Spec
-----------------------------------------------------------------------------
(* Stripe's default card, as long as requests come one at a time.          *)

\* No commit crosses the one request there is.
Uncrossed == calm => crossed = {} /\ ordered

LEMMA UncrossedStep ==
    ASSUME Inv, Attended, Uncrossed, [Next]_vars
    PROVE  Uncrossed'
<1> SUFFICES ASSUME calm' PROVE crossed' = {} /\ ordered'
    BY DEF Uncrossed
<1>1. \/ calm /\ crossed' \subseteq crossed /\ ordered' = ordered
      \/ \E h \in Handlers : CommitConfirm(h) \/ CommitUpdate(h) \/ CommitRemove(h)
    BY DEF vars, Next, Request, Work, BeginSetup, BeginConfirm, BeginUpdate, BeginRemove, FindCustomer,
           CreateCustomer, SaveCustomer, CreateSession, CompleteSession, RetrieveMethod, Attach, OpenConfirm,
           OpenUpdate, OpenRemove, Rollback, Sync, Detach, Fault, Tables, Reads, Begins
<1>2. ASSUME NEW h \in Handlers, CommitConfirm(h) \/ CommitUpdate(h) \/ CommitRemove(h)
      PROVE  crossed' = {} /\ ordered'
  <2>1. job[h].at = "commit" /\ calm
      BY <1>2 DEF CommitConfirm, CommitUpdate, CommitRemove, At
  <2>2. OtherReaders(h) = {}
      BY <2>1, AttendedMeaning DEF Alone, OtherReaders, At
  <2>3. \E claims : Commits(h, claims)
      BY <1>2 DEF CommitConfirm, CommitUpdate, CommitRemove
  <2> QED
      BY <2>1, <2>2, <2>3 DEF Commits, Uncrossed
<1> QED
    BY <1>1, <1>2 DEF Uncrossed

\* Stripe's default is the table's, unless the one request at work is about to
\* make it so or one was lost when it was; an account without customer has no default anywhere.
InStep ==
    calm =>
        /\ customer = None => \A k \in Customers : stripe.default[k] = None
        /\ \A h \in Handlers : job[h].at = "sync" => /\ customer # None
                                                    /\ Defaults = {job[h].next} \ {None}
        /\ customer # None /\ ~behind /\ (\A h \in Handlers : job[h].at # "sync") =>
                Defaults = {stripe.default[customer]} \ {None}

\* A saved card is the customer's, hence there is one.
LEMMA SavedHasCustomer ==
    ASSUME Inv, Attended, calm, NEW c \in Cards, Saved(c)
    PROVE  customer # None /\ stripe.holder[c] = customer
<1>1. stripe.session[c].state # "none" /\ stripe.session[c].cust = customer /\ stripe.holder[c] = customer
    BY DEF Attended, Belongs
<1>2. stripe.session[c].cust \in Customers
    BY <1>1 DEF Inv, Typed, TypedStripe
<1> QED
    BY <1>1, <1>2, NoneAssumption

\* A step of the one request that is about the default card neither before nor after.
LEMMA InStepElsewhere ==
    ASSUME Inv, Attended, InStep, NEW h \in Handlers, NEW j \in Jobs, Step(h, j),
           job[h].at # "sync", j.at # "sync", calm' => calm /\ Alone(h), behind' = behind,
           row' = row, customer' = customer, stripe'.default = stripe.default
    PROVE  InStep'
<1> SUFFICES ASSUME calm' PROVE InStep'
    BY DEF InStep
<1>1. job'[h] = j /\ \A g \in Handlers : g # h => job'[g] = job[g] /\ job[g].at = "idle"
    BY DEF Step, Inv, Typed, TypedJobs, Alone
<1>2. Defaults' = Defaults
    BY DEF Defaults, Rows, Saved
<1>3. \A g \in Handlers : job[g].at # "sync" /\ job'[g].at # "sync"
    BY <1>1
<1> QED
    BY <1>2, <1>3 DEF InStep

\* What every step of a request but a commit and the last word to Stripe does.
LEMMA InStepWork ==
    ASSUME Inv, Attended, InStep, NEW h \in Handlers, Request(h) \/ Work(h), job[h].at # "sync",
           ~(CommitConfirm(h) \/ CommitUpdate(h) \/ CommitRemove(h)), ~SaveCustomer(h)
    PROVE  InStep'
<1>1. /\ row' = row /\ customer' = customer /\ behind' = behind /\ stripe'.default = stripe.default
      /\ calm' => calm /\ Alone(h)
  <2>1. stripe \in Stripes
      BY DEF Inv, Typed, TypedStripe
  <2>2. CASE Request(h)
      BY <2>2 DEF Request, BeginSetup, BeginConfirm, BeginUpdate, BeginRemove, Tables, Begins, Idle, Alone
  <2>3. CASE Work(h)
    <3>1. /\ row' = row /\ customer' = customer /\ behind' = behind /\ calm' = calm /\ job[h].at # "idle"
          /\ \/ stripe' = stripe
             \/ \E v : stripe' = [stripe EXCEPT !.customers = v]
             \/ \E c, v : stripe' = [stripe EXCEPT !.session[c] = v]
             \/ \E c, v : stripe' = [stripe EXCEPT !.holder[c] = v]
        BY <2>3 DEF Work, FindCustomer, CreateCustomer, SaveCustomer, CreateSession, RetrieveMethod, Attach,
                    OpenConfirm, OpenUpdate, OpenRemove, Rollback, Sync, Detach, At, Tables
    <3> QED
        BY <2>1, <3>1, AttendedMeaning DEF Stripes
  <2> QED
      BY <2>2, <2>3
<1>2. \E j \in Jobs : Step(h, j) /\ j.at # "sync"
  <2>1. job[h] \in Jobs /\ customer \in Customers \cup {None}
      BY JobMeaning DEF Inv, Typed, TypedStripe
  <2>2. CASE Request(h)
    <3>1. PICK o, c, w, x :
            \/ Step(h, [Quiet EXCEPT !.at = "customer", !.op = o, !.c = c, !.want = w])
            \/ Step(h, [Quiet EXCEPT !.at = "open", !.op = o, !.c = c])
            \/ Step(h, [Quiet EXCEPT !.at = "open", !.op = o, !.c = c, !.was = x])
        BY <2>2 DEF Request, BeginSetup, BeginConfirm, BeginUpdate, BeginRemove, Begins
    <3>2. PICK j : /\ Step(h, j)
                   /\ \/ j = [Quiet EXCEPT !.at = "customer", !.op = o, !.c = c, !.want = w]
                      \/ j = [Quiet EXCEPT !.at = "open", !.op = o, !.c = c]
                      \/ j = [Quiet EXCEPT !.at = "open", !.op = o, !.c = c, !.was = x]
        BY <3>1
    <3>3. j.at # "sync"
        BY <3>2 DEF Quiet
    <3>4. job' = [job EXCEPT ![h] = j] /\ job' \in [Handlers -> Jobs] /\ job'[h] = j
        BY <2>2, <3>2, InvStep DEF Next, Step, Inv, Typed, TypedJobs
    <3> QED
        BY <3>2, <3>3, <3>4
  <2>3. CASE OpenConfirm(h) \/ OpenUpdate(h) \/ OpenRemove(h)
    <3>1. \E j \in Jobs : Step(h, j) /\ j.at = "commit"
        BY <2>3, OpenMoves
    <3> QED
        BY <3>1
  <2>4. CASE Ends(h)
      BY <2>4, QuietIsNothing DEF Ends
  <2>5. ASSUME NEW at \in {"open", "attach"}, Moves(h, at)
        PROVE  \E j \in Jobs : Step(h, j) /\ j.at # "sync"
    <3>1. PICK j : j = [job[h] EXCEPT !.at = at]
        OBVIOUS
    <3> QED
        BY <2>1, <2>5, <3>1 DEF Moves, Jobs
  <2>6. CASE FindCustomer(h)
    <3>1. PICK at \in {"session", "method"} : at = AfterCustomer(h)
        BY DEF AfterCustomer
    <3>2. PICK j : /\ Step(h, j)
                   /\ \/ j = [job[h] EXCEPT !.at = "customer_create"]
                      \/ j = [job[h] EXCEPT !.at = at, !.cust = customer]
        BY <2>6, <3>1 DEF FindCustomer
    <3>3. j \in Jobs /\ j.at # "sync"
        BY <2>1, <3>2 DEF Jobs
    <3> QED
        BY <3>2, <3>3
  <2>7. CASE CreateCustomer(h)
    <3>1. PICK k \in Customers : Step(h, [job[h] EXCEPT !.at = "customer_save", !.cust = k])
        BY <2>7 DEF CreateCustomer
    <3>2. PICK j : j = [job[h] EXCEPT !.at = "customer_save", !.cust = k]
        OBVIOUS
    <3>3. j \in Jobs /\ j.at # "sync"
        BY <2>1, <3>2 DEF Jobs
    <3> QED
        BY <3>1, <3>2, <3>3
  <2> QED
      BY <2>2, <2>3, <2>4, <2>5, <2>6, <2>7
         DEF Work, CreateSession, RetrieveMethod, Attach, Rollback, Sync, Detach
<1> QED
    BY <1>1, <1>2, InStepElsewhere

\* The account gets its customer: no card is saved, and the customer is new to Stripe.
LEMMA InStepSaveCustomer ==
    ASSUME Inv, Attended, InStep, NEW h \in Handlers, SaveCustomer(h)
    PROVE  InStep'
<1> SUFFICES ASSUME calm PROVE InStep'
    BY DEF InStep, SaveCustomer
<1>1. /\ job[h] \in Jobs /\ job[h].at = "customer_save" /\ row' = row /\ stripe' = stripe
      /\ customer' = job[h].cust
    BY JobMeaning DEF SaveCustomer, Tables
<1>2. Alone(h) /\ customer = None /\ customer' \in Customers
    BY <1>1, AttendedMeaning, JobMeaning DEF Attends, Known
<1>3. Defaults' = {}
  <2>1. Rows = {}
      BY <1>2, SavedHasCustomer DEF Rows
  <2> QED
      BY <1>1, <2>1 DEF Defaults, Rows, Saved
<1>4. stripe'.default[customer'] = None
    BY <1>1, <1>2 DEF InStep
<1>5. PICK at \in {"session", "method"} : at = AfterCustomer(h)
    BY DEF AfterCustomer
<1>6. PICK j : j = [job[h] EXCEPT !.at = at]
    OBVIOUS
<1>7. Step(h, j) /\ j.at = at
    BY <1>1, <1>5, <1>6 DEF SaveCustomer, Moves, Jobs
<1>8. \A g \in Handlers : job'[g].at # "sync"
    BY <1>2, <1>7 DEF Step, Alone, Inv, Typed, TypedJobs
<1>9. customer' # None
    BY <1>2, NoneAssumption
<1> QED
    BY <1>3, <1>4, <1>8, <1>9 DEF InStep

\* What a commit leaves for the step after it: the default it made, or the old one.
LEMMA InStepCommitted ==
    ASSUME Inv, Attended, calm, customer # None, customer' = customer, stripe' = stripe, behind' = behind,
           NEW h \in Handlers, Alone(h), NEW j \in Jobs, Step(h, j),
           j.at = "sync" => Defaults' = {j.next} \ {None},
           j.at # "sync" /\ ~behind => Defaults' = {stripe.default[customer]} \ {None}
    PROVE  InStep'
<1>1. job'[h] = j /\ \A g \in Handlers : g # h => job'[g].at = "idle"
    BY DEF Step, Inv, Typed, TypedJobs, Alone
<1> QED
    BY <1>1 DEF InStep

LEMMA InStepCommit ==
    ASSUME Inv, Attended, Uncrossed, OneDefault, InStep, NEW h \in Handlers, [Next]_vars,
           CommitConfirm(h) \/ CommitUpdate(h) \/ CommitRemove(h)
    PROVE  InStep'
<1> SUFFICES ASSUME calm PROVE InStep'
    BY DEF InStep, CommitConfirm, CommitUpdate, CommitRemove
<1>1. job[h].at = "commit" /\ stripe' = stripe /\ customer' = customer /\ behind' = behind
    BY DEF CommitConfirm, CommitUpdate, CommitRemove, At
<1>2. PICK c \in Cards : c = job[h].c
    BY <1>1, JobMeaning DEF Known
<1>3. Alone(h) /\ Attends(job[h]) /\ h \notin crossed /\ One /\ \A g \in Handlers : job[g].at # "sync"
    BY <1>1, AttendedMeaning DEF Uncrossed, OneDefault, One, Alone
<1>4. job[h] \in Jobs /\ Known(job[h]) /\ InSession(job[h]) /\ Fresh(job[h])
    BY <1>3, JobMeaning
<1>5. One'
  <2>1. ordered' => One'
      BY InvStep, OneStep DEF OneDefault, One
  <2> QED
      BY <1>1, <1>3, <2>1, UncrossedStep DEF Uncrossed, CommitConfirm, CommitUpdate, CommitRemove
<1>6. CASE CommitConfirm(h)
  <2>1. job[h].op = "confirm"
      BY <1>6 DEF CommitConfirm, At
  <2>2. stripe.session[c].cust \in Customers /\ stripe.session[c].cust = customer
      BY <1>1, <1>2, <1>4, <2>1 DEF InSession, Attended, Belongs, Inv, Typed, TypedStripe
  <2>3. customer # None
      BY <2>2, NoneAssumption
  <2>4. PICK j : j = [Quiet EXCEPT !.at = "sync", !.op = "confirm", !.c = c, !.next = c]
      OBVIOUS
  <2>5. j \in Jobs /\ j.at = "sync" /\ j.next = c
      BY <2>4, QuietIsNothing DEF Jobs
  <2>6. \/ row'[c].isDefault /\ Step(h, j)
        \/ ~row'[c].isDefault /\ Step(h, Quiet)
      BY <1>2, <1>6, <2>4 DEF CommitConfirm, Ends
  <2>7. CASE row'[c].isDefault /\ Step(h, j)
    <3>1. Defaults' = {c}
      <4>1. Inv'
          BY <1>6, InvCommitConfirm
      <4>2. c \in Defaults'
          BY <2>7, <4>1, NoRowIsCard DEF Inv, Typed, TypedRows, Defaults, Rows, Saved
      <4> QED
          BY <1>5, <4>2 DEF One, Defaults
    <3> QED
        BY <1>1, <1>3, <2>3, <2>5, <2>7, <3>1, NoneAssumption, InStepCommitted
  <2>8. CASE ~row'[c].isDefault /\ Step(h, Quiet)
    <3>1. c \notin Defaults'
        BY <2>8 DEF Defaults
    <3>2. Defaults' = Defaults
        BY <1>2, <1>3, <1>6, <3>1, ConfirmEffect
    <3>3. ~behind => Defaults = {stripe.default[customer]} \ {None}
        BY <1>3, <2>3 DEF InStep
    <3> QED
        BY <1>1, <1>3, <2>3, <2>8, <3>2, <3>3, QuietIsNothing, InStepCommitted
  <2> QED
      BY <2>6, <2>7, <2>8
<1>7. CASE CommitUpdate(h)
  <2>1. Defaults' = {c}
      BY <1>2, <1>3, <1>7, UpdateEffect
  <2>2. Saved(c)
      BY <1>1, <1>2, <1>3, <1>7 DEF CommitUpdate, At, RollsBack, Attends, Inv, Typed, TypedRows, CardRows, Saved
  <2>3. PICK j : j = [Quiet EXCEPT !.at = "sync", !.op = "update", !.c = c, !.next = c]
      OBVIOUS
  <2>4. j \in Jobs /\ j.at = "sync" /\ j.next = c
      BY <2>3, QuietIsNothing DEF Jobs
  <2>5. Step(h, j)
      BY <1>2, <1>7, <2>3 DEF CommitUpdate
  <2> QED
      BY <1>1, <1>3, <2>1, <2>2, <2>4, <2>5, SavedHasCustomer, NoneAssumption, InStepCommitted
<1>8. CASE CommitRemove(h)
  <2>1. PICK f : f = job[h].next
      OBVIOUS
  <2>2. Saved(c)
    <3>1. job[h].op = "remove" /\ ~RollsBack(h)
        BY <1>8 DEF CommitRemove, At
    <3>2. job[h].new = FALSE
        BY <1>1, <1>3, <3>1 DEF Attends
    <3> QED
        BY <1>2, <3>1, <3>2 DEF RollsBack, Inv, Typed, TypedRows, CardRows, Saved
  <2>3. customer # None
      BY <2>2, SavedHasCustomer
  <2>4. PICK at \in {"sync", "detach"} : at = IF job[h].was THEN "sync" ELSE "detach"
      OBVIOUS
  <2>5. PICK j : j = [job[h] EXCEPT !.at = at, !.was = FALSE]
      OBVIOUS
  <2>6. j \in Jobs /\ j.at = at /\ j.next = job[h].next
      BY <1>4, <2>5 DEF Jobs
  <2>7. Step(h, j)
      BY <1>8, <2>4, <2>5 DEF CommitRemove
  <2>8. /\ job[h].was = row[c].isDefault /\ job[h].was \in BOOLEAN /\ job[h].op = "remove"
        /\ job[h].was /\ Rows \ {c} # {} => f \in Rows
        /\ ~(job[h].was /\ Rows \ {c} # {}) => f = None
      BY <1>1, <1>2, <1>4, <1>8, <2>1 DEF CommitRemove, At, Fresh, Jobs
  <2>9. Defaults' = (Defaults \ {c}) \cup ({f} \cap Cards)
    <3>1. row' = Removed(c, f) /\ (f \in Rows \/ f \notin Cards)
        BY <1>2, <1>8, <2>1, NoneAssumption DEF CommitRemove
    <3>2. f # c
        BY <1>1, <1>2, <1>4, <2>1, <2>8 DEF Known
    <3> QED
        BY <3>1, <3>2, RemoveRow DEF Inv, Typed
  <2>10. Rows \subseteq Cards /\ Defaults \subseteq Rows /\ (c \in Defaults <=> job[h].was)
      BY <2>2, <2>8 DEF Rows, Defaults
  <2>11. CASE job[h].was
    <3>1. Defaults = {c}
        BY <1>3, <2>10, <2>11 DEF One
    <3>2. Defaults' = {f} \ {None}
        BY <2>8, <2>9, <2>10, <2>11, <3>1, NoneAssumption
    <3> QED
        BY <1>1, <1>3, <2>1, <2>3, <2>4, <2>6, <2>7, <2>11, <3>2, InStepCommitted
  <2>12. CASE ~job[h].was
    <3>1. Defaults' = Defaults
        BY <2>8, <2>9, <2>10, <2>12, NoneAssumption
    <3>2. ~behind => Defaults = {stripe.default[customer]} \ {None}
        BY <1>3, <2>3 DEF InStep
    <3> QED
        BY <1>1, <1>3, <2>3, <2>4, <2>6, <2>7, <2>12, <3>1, <3>2, InStepCommitted
  <2> QED
      BY <2>11, <2>12
<1> QED
    BY <1>6, <1>7, <1>8

\* Stripe is told: it takes the card, which is the customer's.
LEMMA InStepSync ==
    ASSUME Inv, Attended, InStep, NEW h \in Handlers, Sync(h)
    PROVE  InStep'
<1> SUFFICES ASSUME calm PROVE InStep'
    BY DEF InStep, Sync
<1>1. job[h].at = "sync" /\ row' = row /\ customer' = customer
    BY DEF Sync, Tables
<1>2. PICK c \in Cards \cup {None} : c = job[h].next
    BY JobMeaning DEF Jobs
<1>3. Alone(h) /\ customer \in Customers /\ Defaults = {c} \ {None} /\ stripe \in Stripes
    BY <1>1, <1>2, AttendedMeaning DEF InStep, Inv, Typed, TypedStripe
<1>4. Accepts(c)
  <2>1. CASE c = None
      BY <2>1 DEF Accepts
  <2>2. CASE c # None
    <3>1. c \in Cards /\ Saved(c)
        BY <1>2, <1>3, <2>2 DEF Defaults, Rows
    <3> QED
        BY <3>1, SavedHasCustomer DEF Accepts
  <2> QED
      BY <2>1, <2>2
<1>5. stripe' = [stripe EXCEPT !.default[customer] = c] /\ AfterSync(h)
    BY <1>2, <1>4 DEF Sync
<1>6. stripe'.default[customer] = c
    BY <1>3, <1>5 DEF Stripes
<1>7. Defaults' = Defaults
    BY <1>1 DEF Defaults, Rows, Saved
<1>8. PICK j \in Jobs : Step(h, j) /\ j.at # "sync"
  <2>1. CASE Ends(h)
      BY <2>1, QuietIsNothing DEF Ends
  <2>2. CASE Moves(h, "detach")
    <3>1. PICK j : j = [job[h] EXCEPT !.at = "detach"]
        OBVIOUS
    <3>2. j \in Jobs /\ j.at = "detach"
        BY <3>1, JobMeaning DEF Jobs
    <3> QED
        BY <2>2, <3>1, <3>2 DEF Moves
  <2> QED
      BY <1>5, <2>1, <2>2 DEF AfterSync
<1>9. \A g \in Handlers : job'[g].at # "sync"
    BY <1>3, <1>8 DEF Step, Alone, Inv, Typed, TypedJobs
<1> QED
    BY <1>1, <1>3, <1>6, <1>7, <1>9, NoneAssumption DEF InStep

LEMMA InStepStep ==
    ASSUME Inv, Attended, Uncrossed, OneDefault, InStep, [Next]_vars
    PROVE  InStep'
<1>1. CASE UNCHANGED vars
    BY <1>1 DEF vars, InStep, Defaults, Rows, Saved
<1>2. ASSUME NEW h \in Handlers, Request(h) \/ Work(h)
      PROVE  InStep'
  <2>1. CASE job[h].at = "sync"
    <3>1. Sync(h)
        BY <1>2, <2>1 DEF Request, BeginSetup, BeginConfirm, BeginUpdate, BeginRemove, Begins, Idle, Work,
                          FindCustomer, CreateCustomer, SaveCustomer, CreateSession, RetrieveMethod, Attach,
                          OpenConfirm, CommitConfirm, OpenUpdate, CommitUpdate, OpenRemove, CommitRemove,
                          Rollback, Detach, At
    <3> QED
        BY <3>1, InStepSync
  <2>2. CASE job[h].at # "sync"
      BY <1>2, <2>2, InStepWork, InStepSaveCustomer, InStepCommit
  <2> QED
      BY <2>1, <2>2
<1>3. ASSUME NEW h \in Handlers, Fault(h)
      PROVE  InStep'
  <2>1. /\ row' = row /\ customer' = customer /\ stripe' = stripe /\ calm' = calm
        /\ behind' = (behind \/ job[h].at = "sync") /\ job[h].at # "idle"
      BY <1>3 DEF Fault, Idle
  <2>2. \A g \in Handlers : job'[g].at # "sync" \/ job'[g] = job[g]
      BY <1>3, QuietIsNothing DEF Fault, Ends, Step, Inv, Typed, TypedJobs
  <2>3. Defaults' = Defaults
      BY <2>1 DEF Defaults, Rows, Saved
  <2>4. CASE calm
    <3>1. \A g \in Handlers : g # h => job[g].at = "idle"
        BY <2>1, <2>4, AttendedMeaning DEF Alone
    <3> QED
        BY <2>1, <2>2, <2>3, <2>4, <3>1 DEF InStep
  <2>5. CASE ~calm
      BY <2>1, <2>5 DEF InStep
  <2> QED
      BY <2>4, <2>5
<1>4. ASSUME NEW c \in Cards, CompleteSession(c)
      PROVE  InStep'
  <2>1. /\ row' = row /\ customer' = customer /\ job' = job /\ calm' = calm /\ behind' = behind
        /\ stripe'.default = stripe.default
      BY <1>4 DEF CompleteSession, Tables, Inv, Typed, TypedStripe, Stripes
  <2> QED
      BY <2>1 DEF InStep, Defaults, Rows, Saved
<1> QED
    BY <1>1, <1>2, <1>3, <1>4 DEF Next

LEMMA InStepInit == Init => Uncrossed /\ InStep
<1> SUFFICES ASSUME Init PROVE Uncrossed /\ InStep
    OBVIOUS
<1>1. \A h \in Handlers : job[h].at = "idle"
    BY QuietIsNothing DEF Init
<1> QED
    BY <1>1 DEF Init, Uncrossed, InStep

\* With requests one at a time, Stripe's default card is the table's whenever nothing
\* is in flight, for any number of cards, requests and requests lost: every commit
\* that moves the default leads to a call that Stripe accepts, and if the request is
\* lost before that call, the next one that gets as far makes up for it.
THEOREM StripeInStepHolds == Spec => []StripeInStep
<1> DEFINE Whole == Inv /\ Attended /\ Uncrossed /\ OneDefault /\ InStep
<1>1. Init => Whole
    BY TypedInit, AttendedInit, OneInit, InStepInit DEF OneDefault, One
<1>2. Whole /\ [Next]_vars => Whole'
  <2>1. Inv /\ OneDefault /\ [Next]_vars => OneDefault'
      BY OneStep DEF OneDefault, One
  <2> QED
      BY <2>1, InvStep, AttendedStep, UncrossedStep, InStepStep
<1>3. Whole => StripeInStep
    BY DEF InStep, StripeInStep, Idle
<1> QED
    BY <1>1, <1>2, <1>3, PTL DEF Spec
=============================================================================
