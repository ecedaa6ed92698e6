------------------------- MODULE CancellationProofs -------------------------
(***************************************************************************)
(* The cancellation terms are sound for every total, every price and every *)
(* table of conditions, whatever their signs.                              *)
(***************************************************************************)
EXTENDS Cancellation, TLAPS

\* A condition that may come first: a row of the table, or none.
LEMMA FirstConditionType ==
    ASSUME TypeOK, NEW p \in FirstCondition
    PROVE  /\ p = None \/ p \in ConditionRows
           /\ FreeUntil(p) \in Int
           /\ stay.total \in Int /\ stay.checkIn \in Int /\ price \in Int
<1>1. p = None \/ p \in ConditionRows
    BY AmountsAssumption DEF FirstCondition, TypeOK
<1>2. stay.checkIn \in Int /\ stay.total \in Int /\ price \in Int
    BY TimeAssumption, AmountsAssumption DEF TypeOK
<1>3. CASE p = None
    BY <1>2, <1>3 DEF FreeUntil
<1>4. CASE p # None
  <2>1. p.delaiLimiteHeures \in Int
      BY <1>1, <1>4 DEF ConditionRows
  <2> QED
      BY <1>1, <1>2, <1>4, <2>1 DEF FreeUntil
<1> QED
    BY <1>1, <1>2, <1>3, <1>4

\* The penalty never exceeds the total, is not negative unless the total or the
\* price is, and is something if the total is and the fee or else the price is.
LEMMA PenaltyBounds ==
    ASSUME TypeOK, NEW p \in FirstCondition
    PROVE  /\ Penalty(p) \in Int
           /\ Penalty(p) <= stay.total
           /\ SaneAmounts => Penalty(p) >= 0
           /\ stay.total > 0 /\ (price > 0 \/ (p # None /\ p.fraisAnnulation > 0))
                => Penalty(p) > 0
<1>1. stay.total \in Int /\ price \in Int
    BY FirstConditionType
<1>2. CASE p = None
    BY <1>1, <1>2 DEF Penalty, Least, Most, SaneAmounts
<1>3. CASE p # None
  <2>1. p.fraisAnnulation \in Int
      BY <1>3, FirstConditionType DEF ConditionRows
  <2> QED
      BY <1>1, <1>3, <2>1 DEF Penalty, Least, Most, SaneAmounts
<1> QED
    BY <1>2, <1>3

\* The three kinds of terms, field by field.
LEMMA TermsFields ==
    ASSUME TypeOK, NEW p \in FirstCondition
    PROVE  /\ ~Allowed =>
                /\ Terms(p) = RefusedTerms
                /\ Terms(p).type = "NONE" /\ Terms(p).refund = 0
                /\ Terms(p).charge = (IF Closed THEN 0 ELSE stay.total)
           /\ Allowed /\ now <= FreeUntil(p) =>
                /\ Terms(p) = FullTerms(p)
                /\ Terms(p).type = "FULL" /\ Terms(p).refund = stay.total
                /\ Terms(p).charge = 0
           /\ Allowed /\ ~(now <= FreeUntil(p)) =>
                /\ Terms(p) = LateTerms(p)
                /\ Terms(p).type = (IF Terms(p).refund <= 0 THEN "NONE" ELSE "PARTIAL")
                /\ Terms(p).refund = stay.total - Penalty(p)
                /\ Terms(p).charge = Penalty(p)
<1>1. now \in Int /\ FreeUntil(p) \in Int
    BY FirstConditionType, TimeAssumption DEF TypeOK
<1>2. CASE ~Allowed
    BY <1>2 DEF Terms, RefusedTerms
<1>3. CASE Allowed /\ now <= FreeUntil(p)
  <2>1. Terms(p) = FullTerms(p)
      BY <1>1, <1>3 DEF Terms
  <2> QED
      BY <1>3, <2>1 DEF FullTerms
<1>4. CASE Allowed /\ ~(now <= FreeUntil(p))
  <2>1. Terms(p) = LateTerms(p)
      BY <1>1, <1>4 DEF Terms
  <2>2. Penalty(p) \in Int /\ stay.total \in Int /\ Penalty(p) <= stay.total
      BY PenaltyBounds, FirstConditionType
  <2>3. Most(0, stay.total - Penalty(p)) = stay.total - Penalty(p)
      BY <2>2 DEF Most
  <2>4. /\ LateTerms(p).refund = stay.total - Penalty(p)
        /\ LateTerms(p).charge = stay.total - (stay.total - Penalty(p))
        /\ LateTerms(p).type = (IF stay.total - Penalty(p) <= 0 THEN "NONE" ELSE "PARTIAL")
      BY <2>3 DEF LateTerms
  <2> QED
      BY <1>4, <2>1, <2>2, <2>4
<1> QED
    BY <1>2, <1>3, <1>4

LEMMA TermsAreTerms ==
    ASSUME TypeOK, NEW p \in FirstCondition
    PROVE  /\ Allowed => Terms(p) \in OfferedType
           /\ ~Allowed => Terms(p) \in RefusedType
<1>1. stay.total \in Int /\ Penalty(p) \in Int /\ FreeUntil(p) \in Int
    BY PenaltyBounds, FirstConditionType
<1>2. CASE ~Allowed
  <2>1. Terms(p) = RefusedTerms
      BY <1>2, TermsFields
  <2>2. RefusedTerms \in RefusedType
      BY <1>1 DEF RefusedTerms, RefusedType
  <2> QED
      BY <1>2, <2>1, <2>2
<1>3. CASE Allowed /\ now <= FreeUntil(p)
  <2>1. Terms(p) = FullTerms(p)
      BY <1>3, TermsFields
  <2>2. FullTerms(p) \in OfferedType
      BY <1>1 DEF FullTerms, OfferedType
  <2> QED
      BY <1>3, <2>1, <2>2
<1>4. CASE Allowed /\ ~(now <= FreeUntil(p))
  <2>1. Most(0, stay.total - Penalty(p)) \in Int
      BY <1>1 DEF Most
  <2>2. Terms(p) = LateTerms(p)
      BY <1>4, TermsFields
  <2>3. LateTerms(p) \in OfferedType
      BY <1>1, <2>1 DEF LateTerms, OfferedType
  <2> QED
      BY <1>4, <2>2, <2>3
<1> QED
    BY <1>2, <1>3, <1>4

\* The type invariant: the clock, the table, what was shown, and what was mailed,
\* which is never a refusal.
THEOREM CancellationTypeCorrect == Spec => []TypeOK
<1>1. Init => TypeOK
    BY AmountsAssumption, TimeAssumption DEF Init, TypeOK, Statuts
<1>2. TypeOK /\ [Next]_vars => TypeOK'
  <2> SUFFICES ASSUME TypeOK, [Next]_vars PROVE TypeOK'
      OBVIOUS
  <2>1. CASE Preview
      BY <2>1, TermsAreTerms DEF Preview, TypeOK
  <2>2. CASE Cancel
      BY <2>2, TermsAreTerms DEF Cancel, TypeOK, Statuts
  <2>3. ASSUME NEW p \in Conditions, AddCondition(p) \/ RemoveCondition(p) PROVE TypeOK'
      BY <2>3 DEF AddCondition, RemoveCondition, TypeOK
  <2>4. ASSUME NEW p \in Conditions, NEW q \in Conditions, UpdateCondition(p, q) PROVE TypeOK'
      BY <2>4 DEF UpdateCondition, TypeOK
  <2>5. ASSUME NEW n \in Prices, ChangePrice(n) PROVE TypeOK'
      BY <2>5 DEF ChangePrice, TypeOK
  <2>6. ASSUME NEW s \in StaffStatuts, SetStatut(s) PROVE TypeOK'
      BY <2>6, StatutsAssumption DEF SetStatut, TypeOK
  <2>7. CASE OpenCheckout \/ Pay
      BY <2>7 DEF OpenCheckout, Pay, TypeOK, Statuts
  <2>8. CASE Pass
      BY <2>8, TimeAssumption DEF Pass, TypeOK
  <2>9. ASSUME NEW total \in Totals, NEW checkIn \in CheckIns, Update(total, checkIn)
        PROVE  TypeOK'
      BY <2>9 DEF Update, TypeOK
  <2>10. CASE UNCHANGED vars
      BY <2>10 DEF vars, TypeOK
  <2> QED
      BY <2>1, <2>2, <2>3, <2>4, <2>5, <2>6, <2>7, <2>8, <2>9, <2>10 DEF Next
<1> QED
    BY <1>1, <1>2, PTL DEF Spec

\* Refund and charge always make up the total, are named for what they are, and
\* lie between nothing and a total that is not negative.
THEOREM TermsBalanceHolds == Spec => []TermsBalance
<1>1. TypeOK => TermsBalance
  <2> SUFFICES ASSUME TypeOK, NEW p \in FirstCondition
               PROVE  /\ Terms(p).refund + Terms(p).charge = (IF Closed THEN 0 ELSE stay.total)
                      /\ Terms(p).type = "NONE" => Terms(p).refund = 0
                      /\ Terms(p).type = "PARTIAL" => Terms(p).refund > 0
                      /\ Terms(p).type = "FULL" => Terms(p).charge = 0
                      /\ SaneAmounts => Terms(p).refund >= 0 /\ Terms(p).charge >= 0
      BY DEF TermsBalance
  <2>1. /\ stay.total \in Int /\ Penalty(p) \in Int /\ Penalty(p) <= stay.total
        /\ SaneAmounts => Penalty(p) >= 0 /\ stay.total >= 0
      BY FirstConditionType, PenaltyBounds DEF SaneAmounts
  <2>2. CASE ~Allowed
      BY <2>1, <2>2, TermsFields
  <2>3. Allowed => ~Closed
      BY DEF Allowed, Closed
  <2>4. CASE Allowed /\ now <= FreeUntil(p)
      BY <2>1, <2>3, <2>4, TermsFields
  <2>5. CASE Allowed /\ ~(now <= FreeUntil(p))
    <3>1. /\ Terms(p).type = (IF Terms(p).refund <= 0 THEN "NONE" ELSE "PARTIAL")
          /\ Terms(p).refund = stay.total - Penalty(p)
          /\ Terms(p).charge = Penalty(p)
        BY <2>5, TermsFields
    <3> QED
        BY <2>1, <2>3, <2>5, <3>1
  <2> QED
      BY <2>2, <2>4, <2>5
<1> QED
    BY <1>1, CancellationTypeCorrect, PTL

\* The refund of a condition in the three cases.
LEMMA RefundIs ==
    ASSUME TypeOK, NEW p \in FirstCondition
    PROVE  Terms(p).refund = IF ~Allowed THEN 0
                             ELSE IF now <= FreeUntil(p) THEN stay.total
                             ELSE stay.total - Penalty(p)
BY TermsFields

\* While time passes the refund of a condition does not grow.
THEOREM RefundNeverGrowsHolds == Spec => RefundNeverGrows
<1> DEFINE Shrinks == now' > now /\ SaneAmounts =>
                         \A p \in FirstCondition : Terms(p)'.refund <= Terms(p).refund
<1>1. TypeOK /\ TypeOK' /\ [Next]_vars => [Shrinks]_vars
  <2> SUFFICES ASSUME TypeOK, TypeOK', [Next]_vars, now' > now, SaneAmounts,
                      NEW p \in FirstCondition
               PROVE  Terms(p)'.refund <= Terms(p).refund
      OBVIOUS
  <2>1. now \in Int
      BY TimeAssumption DEF TypeOK
  <2>2. Pass
      BY <2>1 DEF Next, vars, Preview, Cancel, AddCondition, RemoveCondition, UpdateCondition,
                  ChangePrice, Update, SetStatut, OpenCheckout, Pay
  <2>3. /\ now' \in Int
        /\ UNCHANGED <<conditions, price, stay, statut, paymentStatus>>
      BY <2>1, <2>2, TimeAssumption DEF Pass
  <2>4. FreeUntil(p)' = FreeUntil(p) /\ Penalty(p)' = Penalty(p)
      BY <2>3 DEF FreeUntil, Penalty
  <2>5. /\ stay.total \in Int /\ stay.checkIn \in Int /\ FreeUntil(p) \in Int
        /\ Penalty(p) \in Int /\ Penalty(p) <= stay.total /\ Penalty(p) >= 0 /\ stay.total >= 0
      BY FirstConditionType, PenaltyBounds DEF SaneAmounts
  <2>6. Allowed' => Allowed
      BY <2>1, <2>3, <2>5 DEF Allowed
  <2>7. p \in FirstCondition'
      BY <2>3 DEF FirstCondition
  <2>8. Terms(p)'.refund = IF ~Allowed' THEN 0
                           ELSE IF now' <= FreeUntil(p) THEN stay.total
                           ELSE stay.total - Penalty(p)
    <3>1. stay.total - Penalty(p) \in Int
        BY <2>5
    <3>2. Most(0, stay.total - Penalty(p)) = stay.total - Penalty(p)
        BY <2>5 DEF Most
    <3>3. CASE ~Allowed'
        BY <3>3 DEF Terms, RefusedTerms
    <3>4. CASE Allowed' /\ now' <= FreeUntil(p)
        BY <2>3, <2>4, <2>5, <3>4 DEF Terms, FullTerms
    <3>5. CASE Allowed' /\ ~(now' <= FreeUntil(p))
        BY <2>3, <2>4, <2>5, <3>2, <3>5 DEF Terms, LateTerms
    <3> QED
        BY <3>3, <3>4, <3>5
  <2> QED
      BY <2>1, <2>3, <2>5, <2>6, <2>8, RefundIs
<1> QED
    BY <1>1, CancellationTypeCorrect, PTL DEF Spec, RefundNeverGrows

\* One more condition in a table that is not empty never prolongs the free time.
THEOREM MoreConditionsNoLaterHolds == Spec => MoreConditionsNoLater
<1> DEFINE NoLater ==
        conditions # {} /\ conditions \subseteq conditions' /\ stay' = stay =>
            \A p \in FirstCondition, q \in FirstCondition' : FreeUntil(q) <= FreeUntil(p)
<1>1. TypeOK /\ TypeOK' => NoLater
  <2> SUFFICES ASSUME TypeOK, TypeOK', conditions # {}, conditions \subseteq conditions',
                      stay' = stay, NEW p \in FirstCondition, NEW q \in FirstCondition'
               PROVE  FreeUntil(q) <= FreeUntil(p)
      OBVIOUS
  <2>1. p \in conditions /\ q \in conditions' /\ q.delaiLimiteHeures >= p.delaiLimiteHeures
      BY DEF FirstCondition
  <2>2. p \in ConditionRows /\ q \in ConditionRows
      BY <2>1, AmountsAssumption DEF TypeOK
  <2>3. p # None /\ q # None
      BY <2>2, AmountsAssumption
  <2>4. p.delaiLimiteHeures \in Int /\ q.delaiLimiteHeures \in Int /\ stay.checkIn \in Int
      BY <2>2, FirstConditionType DEF ConditionRows
  <2> QED
      BY <2>1, <2>3, <2>4 DEF FreeUntil
<1> QED
    BY <1>1, CancellationTypeCorrect, PTL DEF Spec, MoreConditionsNoLater

\* Only Cancel changes the summary, and by the terms of the moment.
LEMMA SummaryFromTerms ==
    ASSUME [Next]_vars, summary' # summary
    PROVE  Allowed /\ \E p \in FirstCondition : summary' = Terms(p)
BY DEF Next, vars, Preview, Cancel, AddCondition, RemoveCondition, UpdateCondition,
       ChangePrice, Update, SetStatut, OpenCheckout, Pay, Pass

\* Free cancellation that was shown is kept until its hour, unless the deadline
\* was brought forward.
THEOREM PreviewKeptHolds == Spec => PreviewKept
<1> DEFINE Kept ==
        /\ summary' # summary
        /\ preview # None
        /\ preview.type = "FULL"
        /\ now <= preview.freeUntil
        /\ \A p \in FirstCondition : FreeUntil(p) >= preview.freeUntil
        => summary'.charge = 0
<1>1. TypeOK /\ [Next]_vars => [Kept]_vars
  <2> SUFFICES ASSUME TypeOK, [Next]_vars, summary' # summary, preview # None,
                      preview.type = "FULL", now <= preview.freeUntil,
                      \A p \in FirstCondition : FreeUntil(p) >= preview.freeUntil
               PROVE  summary'.charge = 0
      OBVIOUS
  <2>1. PICK p \in FirstCondition : summary' = Terms(p)
      BY SummaryFromTerms
  <2>2. now \in Int /\ FreeUntil(p) \in Int
      BY TimeAssumption, FirstConditionType DEF TypeOK
  <2>3. preview \in OfferedType
      BY DEF TypeOK, RefusedType
  <2>4. preview.freeUntil \in Int
      BY <2>3 DEF OfferedType
  <2>5. FreeUntil(p) >= preview.freeUntil
      BY <2>1
  <2>6. now <= FreeUntil(p)
      BY <2>2, <2>4, <2>5
  <2> QED
      BY <2>1, <2>6, SummaryFromTerms, TermsFields
<1> QED
    BY <1>1, CancellationTypeCorrect, PTL DEF Spec, PreviewKept

\* Cancelling late a booking that costs something is charged something if the
\* condition has a fee or the night a price, whatever was shown before.
THEOREM LateIsChargedHolds == Spec => LateIsCharged
<1> DEFINE Charged ==
        /\ summary' # summary
        /\ stay.total > 0
        /\ \A p \in FirstCondition :
             /\ now > FreeUntil(p)
             /\ price > 0 \/ (p # None /\ p.fraisAnnulation > 0)
        => summary'.charge > 0
<1>1. TypeOK /\ [Next]_vars => [Charged]_vars
  <2> SUFFICES ASSUME TypeOK, [Next]_vars, summary' # summary, stay.total > 0,
                      \A p \in FirstCondition :
                          /\ now > FreeUntil(p)
                          /\ price > 0 \/ (p # None /\ p.fraisAnnulation > 0)
               PROVE  summary'.charge > 0
      OBVIOUS
  <2>1. PICK p \in FirstCondition : summary' = Terms(p)
      BY SummaryFromTerms
  <2>2. now \in Int /\ FreeUntil(p) \in Int
      BY TimeAssumption, FirstConditionType DEF TypeOK
  <2>3. ~(now <= FreeUntil(p))
      BY <2>2
  <2>4. summary'.charge = Penalty(p)
      BY <2>1, <2>3, SummaryFromTerms, TermsFields
  <2>5. Penalty(p) > 0
      BY <2>1, PenaltyBounds
  <2> QED
      BY <2>4, <2>5
<1> QED
    BY <1>1, CancellationTypeCorrect, PTL DEF Spec, LateIsCharged
=============================================================================
