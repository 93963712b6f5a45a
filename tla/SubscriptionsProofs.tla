------------------------ MODULE SubscriptionsProofs ------------------------
(***************************************************************************)
(* Proofs about the way from Polar's statements to the plan of a tenant,   *)
(* for any number of subscriptions, tenants and handlers.                  *)
(***************************************************************************)
EXTENDS Subscriptions, WellFoundedInduction, TLAPS

-----------------------------------------------------------------------------
(* The invariants                                                          *)

\* A statement is of a subscription that was bought, and Polar's clock never stamps
\* two of the latest statements, or two purchases, alike.
PolarInv ==
    /\ PolarTypeOK
    /\ \A e \in sent : Bought(e.sub) /\ e.at \in 1..clock
    /\ \A s \in Subs : Bought(s) => polar[s].born \in 1..clock
    /\ \A s, o \in Subs : Bought(s) /\ Bought(o) /\ s # o =>
         polar[s].at # polar[o].at /\ polar[s].born # polar[o].born

\* What we know of was bought; what was bought was paid for; and what was paid for was opened
\* by a tenant, for a paid plan.
KnownInv ==
    /\ \A s \in Subs : Bought(s) => s \in paid
    /\ \A s \in paid \cup checkouts : buyer[s] # Nobody
    /\ \A s \in Subs : buyer[s] # Nobody => product[s] \in Paid
    /\ \A t \in Tenants : row[t] # NoRow => Bought(row[t].sub)
    /\ \A t \in Tenants : closing[t] # NoSub => Bought(closing[t])
    /\ \A w \in Workers : job[w] # NoJob => Bought(job[w].sub) /\ job[w].at > 0

TypeInv == TypeOK /\ PolarInv /\ KnownInv

\* While nothing slipped, one worker at a time is between the row and the mark of a
\* tenant, the row is the one it wrote, and only its grant is ahead of the row.
GrantInv ==
    \A t \in Tenants : ~slipped[t] =>
      /\ \A w \in Applying(t) :
           /\ Applying(t) = {w}
           /\ row[t].at = job[w].at \/ row[t] = NoRow
           /\ job[w].phase = "granted" => assigned[t] = job[w].plan
      /\ \/ row[t].granted \in {NoPlan, assigned[t]}
         \/ \E w \in Applying(t) : job[w].phase = "granted"

\* A job that gives a subscription to a tenant that did not open its recorded checkout is
\* of a page, or comes after one that took it; and a page's tenant has an older checkout.
Fits(j) ==
    /\ j.sub \in checkouts =>
         j.tenant = buyer[j.sub] \/ <<j.sub, j.tenant>> \in strayed \/ j.reassign
    /\ j.reassign => j.phase # "attributed" /\ OlderCheckout(j.tenant, j.sub)

OwnerInv ==
    /\ PaidReachesBuyer
    /\ \A w \in Workers : job[w] # NoJob => Fits(job[w])

-----------------------------------------------------------------------------
(* Polar                                                                   *)

LEMMA EntitledPlanType ==
    ASSUME NEW e \in Statements
    PROVE  EntitledPlan(e) \in Plans
BY DEF Statements, EntitledPlan, Plans

\* A new statement of a subscription, with the clock one ahead.
LEMMA StatesInv ==
    ASSUME PolarInv, NEW e \in Statements, States(e),
           e.at = clock + 1,
           e.born = IF Bought(e.sub) THEN polar[e.sub].born ELSE clock + 1
    PROVE  /\ PolarInv'
           /\ \A s \in Subs : Bought(s)' <=> Bought(s) \/ s = e.sub
           /\ \A s \in Subs : Bought(s) => polar'[s].born = polar[s].born
           /\ \A s \in Subs \ {e.sub} : polar'[s] = polar[s]
           /\ polar'[e.sub].born = e.born
<1> USE PolarAssumption DEF PolarInv, PolarTypeOK, Bought
<1>1. e.sub \in Subs /\ e # NoSub /\ e.at \in Nat /\ clock' = clock + 1
  BY DEF Statements, States
<1>2. polar' = [polar EXCEPT ![e.sub] = e] /\ sent' = sent \cup {e} /\ over' = over
  BY DEF States
<1>3. \A s \in Subs : Bought(s)' <=> Bought(s) \/ s = e.sub
  BY <1>1, <1>2
<1>4. \A s \in Subs : polar'[s] = IF s = e.sub THEN e ELSE polar[s]
  BY <1>1, <1>2
<1>5. \A s \in Subs : Bought(s) => polar[s].at \in 1..clock /\ polar[s].born \in 1..clock
  OBVIOUS
<1>6. PolarTypeOK'
  BY <1>1, <1>2, <1>4
<1>7. \A f \in sent' : Bought(f.sub)' /\ f.at \in 1..clock'
  BY <1>1, <1>2, <1>3 DEF Statements
<1>8. \A s \in Subs : Bought(s)' => polar'[s].born \in 1..clock'
  BY <1>1, <1>3, <1>4, <1>5
<1>9. \A s, o \in Subs : Bought(s)' /\ Bought(o)' /\ s # o =>
         polar'[s].at # polar'[o].at /\ polar'[s].born # polar'[o].born
  BY <1>1, <1>3, <1>4, <1>5
<1>10. QED BY <1>1, <1>3, <1>4, <1>6, <1>7, <1>8, <1>9

LEMMA BuyInv ==
    ASSUME PolarInv, NEW s \in Subs, NEW p \in Paid, Buy(s, p)
    PROVE  /\ PolarInv'
           /\ \A o \in Subs : Bought(o)' <=> Bought(o) \/ o = s
           /\ \A o \in Subs : Bought(o) => polar'[o].born = polar[o].born
           /\ polar'[s].born = clock + 1
<1>1. States([sub |-> s, plan |-> p, live |-> TRUE, ending |-> FALSE,
              at |-> clock + 1, born |-> clock + 1])
  BY DEF Buy
<1> DEFINE e == [sub |-> s, plan |-> p, live |-> TRUE, ending |-> FALSE,
                 at |-> clock + 1, born |-> clock + 1]
<1>2. e \in Statements
  BY DEF Statements, PolarInv, PolarTypeOK
<1>3. ~Bought(s) /\ e.sub = s /\ e.at = clock + 1 /\ e.born = clock + 1
  BY DEF Buy
<1> HIDE DEF e
<1>4. QED BY <1>1, <1>2, <1>3, StatesInv DEF e

\* Nothing is bought.
Amends ==
    /\ PolarInv'
    /\ \A s \in Subs : Bought(s)' <=> Bought(s)
    /\ \A s \in Subs : Bought(s) => polar'[s].born = polar[s].born

LEMMA AmendInv ==
    ASSUME PolarInv, NEW s \in Subs, Bought(s), NEW p \in Paid,
           NEW l \in BOOLEAN, NEW n \in BOOLEAN,
           States([polar[s] EXCEPT !.plan = p, !.live = l, !.ending = n, !.at = clock + 1])
    PROVE  Amends
<1> DEFINE e == [polar[s] EXCEPT !.plan = p, !.live = l, !.ending = n, !.at = clock + 1]
<1>1. polar[s] \in Statements /\ polar[s].sub = s /\ clock + 1 \in Nat
  BY DEF PolarInv, PolarTypeOK, Bought
<1>2. e \in Statements
  BY <1>1 DEF Statements
<1>3. e.sub = s /\ e.at = clock + 1
  BY <1>1 DEF Statements
<1>4. e.born = polar[s].born
  BY <1>1 DEF Statements
<1>5. States(e)
  OBVIOUS
<1> HIDE DEF e
<1>6. QED BY <1>2, <1>3, <1>4, <1>5, StatesInv DEF Amends

LEMMA RevokeInv ==
    ASSUME PolarInv, NEW s \in Subs, Bought(s), RevokeSubscription(s)
    PROVE  Amends
<1>1. polar[s] \in Statements
  BY DEF PolarInv, PolarTypeOK, Bought
<1>2. CASE polar[s].live
  <2>1. [polar[s] EXCEPT !.live = FALSE, !.at = clock + 1] =
        [polar[s] EXCEPT !.plan = polar[s].plan, !.live = FALSE,
                         !.ending = polar[s].ending, !.at = clock + 1]
    BY <1>1 DEF Statements
  <2>2. polar[s].plan \in Paid /\ polar[s].ending \in BOOLEAN
    BY <1>1 DEF Statements
  <2>3. QED BY <1>2, <2>1, <2>2, AmendInv DEF RevokeSubscription
<1>3. CASE ~polar[s].live
  BY <1>3 DEF RevokeSubscription, polarVars, Amends, PolarInv, PolarTypeOK, Bought
<1>4. QED BY <1>2, <1>3

LEMMA MovesInv ==
    ASSUME PolarInv, NEW s \in Subs, Change(s) \/ PeriodEnds(s)
    PROVE  Amends
<1>1. CASE Change(s)
  <2>1. PICK p \in Paid, l \in BOOLEAN, n \in BOOLEAN :
           States([polar[s] EXCEPT !.plan = p, !.live = l, !.ending = n, !.at = clock + 1])
    BY <1>1 DEF Change
  <2>2. QED BY <1>1, <2>1, AmendInv DEF Change
<1>2. CASE PeriodEnds(s)
  BY <1>2 DEF PeriodEnds, Amends, PolarInv, PolarTypeOK, Bought
<1>3. QED BY <1>1, <1>2

-----------------------------------------------------------------------------
(* The subscription that decides                                           *)

LEMMA LeastNatural ==
    ASSUME NEW T, T \subseteq Nat, T # {}
    PROVE  \E x \in T : \A y \in T : x <= y
<1>1. PICK x \in T : \A y \in T : <<y, x>> \notin OpToRel(<, Nat)
  BY NatLessThanWellFounded, WFMin, Zenon
<1>2. \A y \in T : ~(y < x)
  BY <1>1 DEF OpToRel
<1>3. QED BY <1>2

\* Of subscriptions that were bought, one was stated last.
LEMMA LatestExists ==
    ASSUME PolarInv, NEW S, S # {}, \A s \in S : s \in Subs /\ Bought(s)
    PROVE  \E s \in S : \A o \in S \ {s} : polar[s].at > polar[o].at
<1>1. \A s \in S : polar[s].at \in 1..clock
  BY DEF PolarInv, PolarTypeOK, Bought
<1>2. clock \in Nat
  BY DEF PolarInv, PolarTypeOK
<1> DEFINE T == {clock - polar[s].at : s \in S}
<1>3. T \subseteq Nat /\ T # {}
  BY <1>1, <1>2
<1>4. PICK x \in T : \A y \in T : x <= y
  BY <1>3, LeastNatural, Zenon
<1>5. PICK s \in S : x = clock - polar[s].at
  BY <1>4
<1>6. \A o \in S : clock - polar[s].at <= clock - polar[o].at
  BY <1>4, <1>5
<1>7. \A o \in S \ {s} : polar[s].at # polar[o].at
  BY DEF PolarInv
<1>8. QED BY <1>1, <1>2, <1>6, <1>7

\* What decides is the latest of the entitled, or the latest if there is none: one
\* statement, and it is one of the tenant's.
LEMMA DecidingExists ==
    ASSUME PolarInv, NEW t \in Tenants, Mine(t) # {}
    PROVE  \E s \in Mine(t) : /\ Deciding(t) = polar[s]
                              /\ \A o \in Mine(t) \ {s} : Supersedes(polar[s], polar[o])
<1> DEFINE entitled == {s \in Mine(t) : EntitledPlan(polar[s]) # Free}
<1>1. \A s \in Mine(t) : s \in Subs /\ Bought(s)
  BY DEF Mine
<1>2. \E s \in Mine(t) : \A o \in Mine(t) \ {s} : Supersedes(polar[s], polar[o])
  <2>1. CASE entitled # {}
    <3>1. \E s \in entitled : \A o \in entitled \ {s} : polar[s].at > polar[o].at
      BY <1>1, <2>1, LatestExists
    <3>2. QED BY <3>1 DEF Supersedes
  <2>2. CASE entitled = {}
    <3>1. \E s \in Mine(t) : \A o \in Mine(t) \ {s} : polar[s].at > polar[o].at
      BY <1>1, LatestExists
    <3>2. QED BY <2>2, <3>1 DEF Supersedes
  <2>3. QED BY <2>1, <2>2
<1>3. QED BY <1>2 DEF Deciding

-----------------------------------------------------------------------------
(* Type correctness                                                        *)

LEMMA AttributedType ==
    ASSUME TypeInv, NEW s \in Subs, Bought(s)
    PROVE  Attributed(s) \subseteq Tenants
BY DEF TypeInv, TypeOK, KnownInv, Attributed, Holders, ExternalId

LEMMA NewJobType ==
    ASSUME TypeInv, NEW phase \in Phases, NEW t \in Tenants, NEW e \in sent,
           NEW reassign \in BOOLEAN
    PROVE  /\ NewJob(phase, t, e, reassign) \in Jobs
           /\ NewJob(phase, t, e, reassign) # NoJob
           /\ Bought(NewJob(phase, t, e, reassign).sub)
           /\ NewJob(phase, t, e, reassign).at > 0
<1>1. e \in Statements /\ Bought(e.sub) /\ e.at \in 1..clock /\ clock \in Nat
  BY DEF TypeInv, PolarInv, PolarTypeOK
<1>2. e.sub \in Subs /\ e.at \in Nat /\ EntitledPlan(e) \in Plans
  BY <1>1, EntitledPlanType DEF Statements
<1>3. NewJob(phase, t, e, reassign) \in Jobs
  BY <1>2 DEF NewJob, Jobs
<1>4. QED BY <1>1, <1>3, SubscriptionsAssumption DEF NewJob

\* A job that is well typed and of something bought.
GoodJob(j) == j \in Jobs /\ Bought(j.sub) /\ j.at > 0

\* Steps that only begin or move a job.
LEMMA JobsTypeInv ==
    ASSUME TypeInv,
           UNCHANGED <<polarVars, till, status, closing, faults, row, assigned, history>>,
           customer' \in Tenants \cup {Nobody},
           job' \in [Workers -> Jobs \cup {NoJob}],
           \A w \in Workers : job'[w] # NoJob => GoodJob(job'[w])
    PROVE  TypeInv'
<1>1. TypeOK'
  BY DEF TypeInv, TypeOK, polarVars, till, history, PolarTypeOK
<1>2. PolarInv'
  BY DEF TypeInv, PolarInv, polarVars, PolarTypeOK, Bought
<1>3. KnownInv'
  BY DEF TypeInv, KnownInv, polarVars, till, Bought, GoodJob
<1>4. QED BY <1>1, <1>2, <1>3 DEF TypeInv

LEMMA GoodJobs ==
    ASSUME TypeInv, NEW w \in Workers, job[w] # NoJob
    PROVE  GoodJob(job[w])
BY DEF TypeInv, TypeOK, KnownInv, GoodJob

LEMMA DeliverType ==
    ASSUME TypeInv, NEW h \in Handlers, Deliver(h)
    PROVE  TypeInv'
<1>0. PICK e \in sent : \E t \in Attributed(e.sub) :
         job' = [job EXCEPT ![h] = NewJob("attributed", t, e, FALSE)]
  BY DEF Deliver
<1>1. PICK t \in Attributed(e.sub) :
         job' = [job EXCEPT ![h] = NewJob("attributed", t, e, FALSE)]
  BY <1>0
<1>2. t \in Tenants
  BY AttributedType DEF TypeInv, PolarInv, PolarTypeOK, Statements
<1>3. GoodJob(NewJob("attributed", t, e, FALSE))
  BY <1>2, NewJobType DEF GoodJob, Phases
<1>4. job \in [Workers -> Jobs \cup {NoJob}]
  BY DEF TypeInv, TypeOK
<1>5. job' \in [Workers -> Jobs \cup {NoJob}]
  BY <1>1, <1>3, <1>4 DEF GoodJob
<1>6. \A w \in Workers : job'[w] # NoJob => GoodJob(job'[w])
  BY <1>1, <1>3, <1>4, GoodJobs
<1>7. QED BY <1>5, <1>6, JobsTypeInv DEF Deliver, rest, TypeInv, TypeOK

LEMMA DecidingType ==
    ASSUME TypeInv, NEW t \in Tenants, Mine(t) # {}
    PROVE  Deciding(t) \in sent
BY DecidingExists DEF TypeInv, PolarInv, PolarTypeOK, Mine, Bought

LEMMA ReconcileType ==
    ASSUME TypeInv, ReconcileReads
    PROVE  TypeInv'
<1>1. \A w \in Workers : job'[w] = IF w \in Tenants /\ Mine(w) # {} /\ OutOfStep(w)
                                   THEN NewJob("attributed", w, Deciding(w), FALSE)
                                   ELSE job[w]
  BY DEF ReconcileReads
<1>2. \A w \in Tenants : Mine(w) # {} =>
         GoodJob(NewJob("attributed", w, Deciding(w), FALSE))
  BY DecidingType, NewJobType DEF GoodJob, Phases
<1>3. job \in [Workers -> Jobs \cup {NoJob}]
  BY DEF TypeInv, TypeOK
<1>4. \A w \in Workers : job'[w] # NoJob => GoodJob(job'[w])
  BY <1>1, <1>2, GoodJobs
<1>5. job' \in [Workers -> Jobs \cup {NoJob}]
  BY <1>1, <1>2, <1>3 DEF GoodJob, ReconcileReads
<1>6. QED BY <1>4, <1>5, JobsTypeInv DEF ReconcileReads, rest, TypeInv, TypeOK

LEMMA PollType ==
    ASSUME TypeInv, NEW h \in Handlers, NEW s \in Subs, Poll(h, s)
    PROVE  TypeInv'
<1>1. s \in paid /\ buyer[s] \in Tenants
  BY DEF Poll, TypeInv, TypeOK, KnownInv
<1>2. customer' \in Tenants \cup {Nobody}
  BY <1>1 DEF Poll, TypeInv, TypeOK
<1>3. job \in [Workers -> Jobs \cup {NoJob}]
  BY DEF TypeInv, TypeOK
<1>4. CASE job' = job
  BY <1>2, <1>3, <1>4, GoodJobs, JobsTypeInv DEF Poll
<1>5. CASE job' # job
  <2>1. PICK o \in Subs : /\ Bought(o)
                          /\ job' = [job EXCEPT ![h] = NewJob("owned", buyer[s], polar[o], TRUE)]
    BY <1>5 DEF Poll, Matches, OfProduct
  <2>2. polar[o] \in sent
    BY <2>1 DEF TypeInv, PolarInv, PolarTypeOK, Bought
  <2>3. GoodJob(NewJob("owned", buyer[s], polar[o], TRUE))
    BY <1>1, <2>2, NewJobType DEF GoodJob, Phases
  <2>4. job' \in [Workers -> Jobs \cup {NoJob}]
    BY <1>3, <2>1, <2>3 DEF GoodJob
  <2>5. \A w \in Workers : job'[w] # NoJob => GoodJob(job'[w])
    BY <1>3, <2>1, <2>3, GoodJobs
  <2>6. QED BY <1>2, <2>4, <2>5, JobsTypeInv DEF Poll
<1>6. QED BY <1>4, <1>5

LEMMA OwnType ==
    ASSUME TypeInv, NEW w \in Workers, Own(w)
    PROVE  TypeInv'
<1> DEFINE held == Holders(job[w].sub)
           t == IF held = {} THEN job[w].tenant ELSE CHOOSE u \in held : TRUE
           j == [job[w] EXCEPT !.phase = "owned", !.tenant = t]
<1>1. job \in [Workers -> Jobs \cup {NoJob}]
  BY DEF TypeInv, TypeOK
<1>2. job[w] \in Jobs
  BY <1>1 DEF Own, At
<1>3. t \in Tenants
  BY <1>2 DEF Holders, Jobs
<1>4. job' = [job EXCEPT ![w] = j]
  BY <1>1, <1>2 DEF Own, Jobs
<1>5. j \in Jobs /\ j.sub = job[w].sub /\ j.at = job[w].at
  <2> HIDE DEF t
  <2>1. j \in Jobs
    BY <1>2, <1>3 DEF Jobs, Phases
  <2>2. j.sub = job[w].sub
    BY <1>2 DEF Jobs
  <2>3. j.at = job[w].at
    BY <1>2 DEF Jobs
  <2>4. QED BY <2>1, <2>2, <2>3
<1>6. GoodJob(j)
  BY <1>2, <1>5, GoodJobs, SubscriptionsAssumption DEF GoodJob
<1> HIDE DEF j
<1>7. job' \in [Workers -> Jobs \cup {NoJob}]
  BY <1>1, <1>4, <1>5
<1>8. \A v \in Workers : job'[v] # NoJob => GoodJob(job'[v])
  BY <1>1, <1>4, <1>6, GoodJobs
<1>9. QED BY <1>7, <1>8, JobsTypeInv DEF Own, rest, TypeInv, TypeOK

\* Nothing bought, nothing of Polar's moved.
LEMMA AmendsNothing ==
    ASSUME PolarInv, UNCHANGED polarVars
    PROVE  Amends
BY DEF Amends, PolarInv, PolarTypeOK, polarVars, Bought

\* At the till: a checkout is opened, or succeeds.
LEMMA TillType ==
    ASSUME TypeInv, NEW s \in Subs, OpenCheckout(s) \/ Pay(s)
    PROVE  TypeInv'
<1>1. /\ UNCHANGED <<polarVars, customer, row, assigned, status, closing, job, history, faults>>
      /\ \A o \in Subs : buyer[o] # Nobody => buyer'[o] = buyer[o] /\ product'[o] = product[o]
  BY DEF OpenCheckout, Pay, TypeInv, TypeOK
<1>2. PolarInv' /\ \A o \in Subs : Bought(o)' <=> Bought(o)
  BY <1>1, AmendsNothing DEF TypeInv, Amends
<1>3. TypeOK' /\ paid \subseteq paid'
  <2>1. clock + 1 \in Nat
    BY DEF TypeInv, TypeOK, PolarTypeOK
  <2>2. CASE OpenCheckout(s)
    BY <1>1, <1>2, <2>1, <2>2 DEF OpenCheckout, TypeInv, TypeOK, PolarInv, history
  <2>3. CASE Pay(s)
    BY <1>1, <1>2, <2>3 DEF Pay, TypeInv, TypeOK, PolarInv, history
  <2>4. QED BY <2>2, <2>3
<1>4. /\ \A o \in paid' \cup checkouts' : buyer'[o] # Nobody
      /\ \A o \in Subs : buyer'[o] # Nobody => product'[o] \in Paid
  <2>1. CASE OpenCheckout(s)
    BY <1>1, <2>1, SubscriptionsAssumption DEF OpenCheckout, TypeInv, TypeOK, KnownInv
  <2>2. CASE Pay(s)
    BY <2>2 DEF Pay, TypeInv, TypeOK, KnownInv
  <2>3. QED BY <2>1, <2>2
<1>5. KnownInv'
  BY <1>1, <1>2, <1>3, <1>4 DEF TypeInv, TypeOK, KnownInv, polarVars, Bought
<1>6. QED BY <1>2, <1>3, <1>5 DEF TypeInv

\* A purchase adds to what was bought.
LEMMA PurchaseType ==
    ASSUME TypeInv, NEW s \in Subs, Purchase(s)
    PROVE  TypeInv'
<1>1. product[s] \in Paid
  BY DEF Purchase, TypeInv, KnownInv
<1>2. /\ PolarInv'
      /\ \A o \in Subs : Bought(o)' <=> Bought(o) \/ o = s
  BY <1>1, BuyInv DEF Purchase, TypeInv
<1>3. s \in paid
      /\ UNCHANGED <<till, customer, row, assigned, status, closing, job, history, faults>>
  BY DEF Purchase
<1>4. TypeOK'
  BY <1>2, <1>3 DEF TypeInv, TypeOK, PolarInv, till, history
<1>5. KnownInv'
  <2>1. \A o \in Subs : Bought(o)' => o \in paid'
    BY <1>2, <1>3 DEF TypeInv, KnownInv, till
  <2>2. \A u \in Tenants : row'[u] # NoRow => Bought(row[u].sub)'
    BY <1>2, <1>3 DEF TypeInv, TypeOK, KnownInv, Rows
  <2>3. \A u \in Tenants : closing'[u] # NoSub => Bought(closing[u])'
    BY <1>2, <1>3 DEF TypeInv, TypeOK, KnownInv
  <2>4. \A w \in Workers : job'[w] # NoJob => Bought(job[w].sub)' /\ job'[w].at > 0
    BY <1>2, <1>3 DEF TypeInv, TypeOK, KnownInv, Jobs
  <2>5. QED BY <1>3, <2>1, <2>2, <2>3, <2>4 DEF TypeInv, KnownInv, till
<1>6. QED BY <1>2, <1>4, <1>5 DEF TypeInv

\* The steps that buy nothing: everything known stays known, whatever is dropped of it.
LEMMA KnownStays ==
    ASSUME TypeInv, Amends,
           UNCHANGED <<till, customer, row, assigned, status, job, history>>,
           \A t \in Tenants : closing'[t] \in {closing[t], NoSub},
           closing' \in [Tenants -> Subs \cup {NoSub}],
           faults' \in 0..MaxFaults
    PROVE  TypeInv'
<1>1. PolarInv' /\ \A s \in Subs : Bought(s)' <=> Bought(s)
  BY DEF Amends
<1>2. TypeOK'
  BY <1>1 DEF TypeInv, TypeOK, PolarInv, till, history
<1>3. KnownInv'
  <2>1. \A o \in Subs : Bought(o)' => o \in paid'
    BY <1>1 DEF TypeInv, KnownInv, till
  <2>3. \A u \in Tenants : row'[u] # NoRow => Bought(row[u].sub)'
    BY <1>1 DEF TypeInv, TypeOK, KnownInv, Rows
  <2>4. \A u \in Tenants : closing'[u] # NoSub => Bought(closing[u])'
    BY <1>1 DEF TypeInv, TypeOK, KnownInv
  <2>5. \A w \in Workers : job'[w] # NoJob => Bought(job[w].sub)' /\ job'[w].at > 0
    BY <1>1 DEF TypeInv, TypeOK, KnownInv, Jobs
  <2>6. QED BY <2>1, <2>3, <2>4, <2>5 DEF TypeInv, KnownInv, till
<1>4. QED BY <1>1, <1>2, <1>3 DEF TypeInv

LEMMA PolarMovesType ==
    ASSUME TypeInv, NEW s \in Subs, PolarMoves(s)
    PROVE  TypeInv'
<1>1. Amends
  BY MovesInv DEF PolarMoves, TypeInv
<1>2. QED BY <1>1, KnownStays DEF PolarMoves, TypeInv, TypeOK

LEMMA EndBillingType ==
    ASSUME TypeInv, NEW t \in Tenants, EndBilling(t)
    PROVE  TypeInv'
<1>1. closing[t] \in Subs /\ Bought(closing[t])
  BY DEF EndBilling, TypeInv, TypeOK, KnownInv
<1>2. Amends
  BY <1>1, RevokeInv, AmendsNothing DEF EndBilling, TypeInv
<1>3. faults' \in 0..MaxFaults
  BY SubscriptionsAssumption DEF EndBilling, TypeInv, TypeOK
<1>4. closing' \in [Tenants -> Subs \cup {NoSub}]
  BY DEF EndBilling, TypeInv, TypeOK
<1>5. QED BY <1>2, <1>3, <1>4, KnownStays DEF EndBilling, TypeInv, TypeOK

\* The steps of ours alone.
LEMMA OursType ==
    ASSUME TypeInv,
           UNCHANGED <<polarVars, till, customer>>,
           row' \in [Tenants -> Rows \cup {NoRow}],
           \A t \in Tenants : row'[t] # NoRow => Bought(row'[t].sub),
           \A t, u \in Tenants : t # u /\ row'[t].sub = row'[u].sub => row'[t] = NoRow,
           assigned' \in [Tenants -> Plans],
           status' \in [Tenants -> {"active", "deleted"}],
           closing' \in [Tenants -> Subs \cup {NoSub}],
           \A t \in Tenants : closing'[t] # NoSub => Bought(closing'[t]),
           job' \in [Workers -> Jobs \cup {NoJob}],
           \A w \in Workers : job'[w] # NoJob => GoodJob(job'[w]),
           slipped' \in [Tenants -> BOOLEAN],
           strayed' \subseteq Subs \X Tenants,
           faults' \in 0..MaxFaults
    PROVE  TypeInv'
<1>1. TypeOK'
  BY DEF TypeInv, TypeOK, polarVars, till, PolarTypeOK
<1>2. PolarInv'
  BY DEF TypeInv, PolarInv, polarVars, PolarTypeOK, Bought
<1>3. KnownInv'
  BY DEF TypeInv, KnownInv, polarVars, till, Bought, GoodJob
<1>4. QED BY <1>1, <1>2, <1>3 DEF TypeInv

\* A worker that drops its job, or moves it on.
LEMMA JobMoves ==
    ASSUME TypeInv, NEW w \in Workers, job[w] # NoJob, NEW phase \in Phases,
           \/ job' = [job EXCEPT ![w] = NoJob]
           \/ job' = [job EXCEPT ![w].phase = phase]
    PROVE  /\ job' \in [Workers -> Jobs \cup {NoJob}]
           /\ \A v \in Workers : job'[v] # NoJob => GoodJob(job'[v])
<1>1. job \in [Workers -> Jobs \cup {NoJob}] /\ job[w] \in Jobs
  BY DEF TypeInv, TypeOK
<1>2. CASE job' = [job EXCEPT ![w] = NoJob]
  BY <1>1, <1>2, GoodJobs
<1>3. CASE job' = [job EXCEPT ![w].phase = phase]
  <2> DEFINE j == [job[w] EXCEPT !.phase = phase]
  <2>1. j \in Jobs
    BY <1>1 DEF Jobs
  <2>2. j.sub = job[w].sub /\ j.at = job[w].at
    BY <1>1 DEF Jobs
  <2>3. job' = [job EXCEPT ![w] = j]
    BY <1>3
  <2>4. GoodJob(j)
    BY <2>1, <2>2, GoodJobs DEF GoodJob
  <2> HIDE DEF j
  <2>5. QED BY <1>1, <2>1, <2>3, <2>4, GoodJobs
<1>4. QED BY <1>2, <1>3

LEMMA GrantType ==
    ASSUME TypeInv, NEW w \in Workers, Grant(w)
    PROVE  TypeInv'
<1>1. job[w] # NoJob /\ job[w] \in Jobs
  BY DEF Grant, At, TypeInv, TypeOK
<1>2. job' = [job EXCEPT ![w].phase = "granted"]
  BY DEF Grant
<1>3. assigned' \in [Tenants -> Plans]
  BY <1>1 DEF Grant, TypeInv, TypeOK, Jobs
<1>4. slipped' \in [Tenants -> BOOLEAN]
  BY <1>1 DEF Grant, TypeInv, TypeOK
<1>5. /\ job' \in [Workers -> Jobs \cup {NoJob}]
      /\ \A v \in Workers : job'[v] # NoJob => GoodJob(job'[v])
  BY <1>1, <1>2, JobMoves DEF Phases
<1>6. UNCHANGED <<polarVars, till, customer, status, closing, faults, row, strayed>>
  BY DEF Grant, rest
<1>7. QED BY <1>3, <1>4, <1>5, <1>6, OursType DEF TypeInv, TypeOK, KnownInv

LEMMA MarkType ==
    ASSUME TypeInv, NEW w \in Workers, MarkGranted(w)
    PROVE  TypeInv'
<1> DEFINE t == job[w].tenant
           p == IF row[t].at = job[w].at THEN job[w].plan ELSE row[t].granted
<1>1. job[w] # NoJob /\ job[w] \in Jobs /\ t \in Tenants /\ job[w].plan \in Plans /\ job[w].at > 0
  BY DEF MarkGranted, At, TypeInv, TypeOK, Jobs, KnownInv
<1>2. job' = [job EXCEPT ![w] = NoJob] /\ row' = [row EXCEPT ![t].granted = p]
  BY DEF MarkGranted
<1>3. /\ job' \in [Workers -> Jobs \cup {NoJob}]
      /\ \A v \in Workers : job'[v] # NoJob => GoodJob(job'[v])
  BY <1>1, <1>2, JobMoves DEF Phases
<1>4. row \in [Tenants -> Rows \cup {NoRow}]
  BY DEF TypeInv, TypeOK
<1>5. row'[t] = [row[t] EXCEPT !.granted = p] /\ \A u \in Tenants \ {t} : row'[u] = row[u]
  BY <1>1, <1>2, <1>4
<1>6. row[t] = NoRow => row'[t] = NoRow
  BY <1>1, <1>5 DEF NoRow
<1>7. row[t] # NoRow => row'[t] \in Rows /\ row'[t].sub = row[t].sub
  BY <1>1, <1>4, <1>5 DEF Rows
<1>8. row' \in [Tenants -> Rows \cup {NoRow}]
  BY <1>2, <1>4, <1>5, <1>6, <1>7
<1>9. \A u \in Tenants : row'[u].sub = row[u].sub /\ (row'[u] = NoRow <=> row[u] = NoRow)
  <2>1. \A r \in Rows : r # NoRow
    BY PolarAssumption DEF Rows, NoRow
  <2>2. QED BY <1>1, <1>4, <1>5, <1>6, <1>7, <2>1
<1>10. UNCHANGED <<polarVars, till, customer, status, closing, faults, assigned, slipped, strayed>>
  BY DEF MarkGranted, rest, history
<1>11. QED BY <1>3, <1>8, <1>9, <1>10, OursType DEF TypeInv, TypeOK, KnownInv

LEMMA FailType ==
    ASSUME TypeInv, NEW w \in Workers, Fail(w)
    PROVE  TypeInv'
<1>1. job[w] # NoJob /\ job[w] \in Jobs /\ job[w].tenant \in Tenants
  BY DEF Fail, TypeInv, TypeOK, Jobs
<1>2. /\ job' \in [Workers -> Jobs \cup {NoJob}]
      /\ \A v \in Workers : job'[v] # NoJob => GoodJob(job'[v])
  BY <1>1, JobMoves DEF Fail, Phases
<1>3. slipped' \in [Tenants -> BOOLEAN]
  BY <1>1 DEF Fail, TypeInv, TypeOK, At
<1>4. faults' \in 0..MaxFaults
  BY SubscriptionsAssumption DEF Fail, TypeInv, TypeOK
<1>5. QED BY <1>2, <1>3, <1>4, OursType DEF Fail, TypeInv, TypeOK, KnownInv

LEMMA TerminateType ==
    ASSUME TypeInv, NEW t \in Tenants, Terminate(t)
    PROVE  TypeInv'
<1>1. row \in [Tenants -> Rows \cup {NoRow}]
  BY DEF TypeInv, TypeOK
<1>2. row' = [row EXCEPT ![t] = IF @ = NoRow THEN @ ELSE [@ EXCEPT !.granted = Free]]
  BY DEF Terminate, Freed
<1>3. \A r \in Rows : [r EXCEPT !.granted = Free] \in Rows /\ [r EXCEPT !.granted = Free].sub = r.sub
  BY DEF Rows, Plans
<1>4. \A r \in Rows : r # NoRow
  BY PolarAssumption DEF Rows, NoRow
<1>5. row' \in [Tenants -> Rows \cup {NoRow}]
  BY <1>1, <1>2, <1>3
<1>6. \A u \in Tenants : row'[u].sub = row[u].sub /\ (row'[u] = NoRow <=> row[u] = NoRow)
  BY <1>1, <1>2, <1>3, <1>4
<1>7. assigned' \in [Tenants -> Plans] /\ status' \in [Tenants -> {"active", "deleted"}]
  BY DEF Terminate, Freed, TypeInv, TypeOK, Plans
<1>8. closing' = [closing EXCEPT ![t] = row[t].sub] /\ row[t].sub \in Subs \cup {NoSub}
  BY <1>1 DEF Terminate, Rows, NoRow
<1>9. row[t].sub # NoSub => Bought(row[t].sub)
  BY <1>1 DEF TypeInv, KnownInv, NoRow
<1>10. closing' \in [Tenants -> Subs \cup {NoSub}] /\ \A u \in Tenants : closing'[u] # NoSub => Bought(closing'[u])
  BY <1>8, <1>9 DEF TypeInv, TypeOK, KnownInv
<1>11. slipped' \in [Tenants -> BOOLEAN]
  BY DEF Terminate, TypeInv, TypeOK
<1>12. UNCHANGED <<polarVars, till, customer, job, strayed, faults>>
  BY DEF Terminate
<1>13. QED BY <1>5, <1>6, <1>7, <1>10, <1>11, <1>12, GoodJobs, OursType DEF TypeInv, TypeOK, KnownInv

\* What the upsert writes: the tenant's row is of the job's subscription and keeps its
\* mark, a row that is released is gone, and no other is touched.
LEMMA UpsertedRows ==
    ASSUME TypeInv, NEW j \in Jobs, j.at > 0, Bought(j.sub), ~Clashes(j)
    PROVE  /\ Upserted(j) \in [Tenants -> Rows \cup {NoRow}]
           /\ Upserted(j)[j.tenant] \in Rows
           /\ Upserted(j)[j.tenant].sub = j.sub
           /\ Upserted(j)[j.tenant].at = j.at
           /\ Upserted(j)[j.tenant].granted = row[j.tenant].granted
           /\ \A t \in Tenants \ {j.tenant} :
                \/ Upserted(j)[t] = row[t] /\ row[t].sub # j.sub
                \/ Upserted(j)[t] = NoRow
<1> DEFINE t == j.tenant
           r == [sub |-> j.sub, at |-> j.at, granted |-> row[t].granted]
<1>1. j.tenant \in Tenants /\ j.sub \in Subs /\ j.at \in Nat /\ j.reassign \in BOOLEAN
  BY DEF Jobs
<1>2. row \in [Tenants -> Rows \cup {NoRow}]
  BY DEF TypeInv, TypeOK
<1>3. row[t].granted \in Plans \cup {NoPlan}
  BY <1>1, <1>2 DEF Rows, NoRow
<1>4. r \in Rows
  BY <1>1, <1>3 DEF Rows
<1>5. r.sub = j.sub /\ r.at = j.at /\ r.granted = row[t].granted
  OBVIOUS
<1>6. Released(j) = [u \in Tenants |-> IF j.reassign /\ u # t /\ row[u].sub = j.sub
                                       THEN NoRow ELSE row[u]]
  BY DEF Released, Holders
<1>7. Released(j)[t] = row[t]
  BY <1>1, <1>6
<1>8. Upserted(j) = [Released(j) EXCEPT ![t] = r]
  BY <1>7 DEF Upserted
<1> HIDE DEF r
<1>9. \A u \in Tenants \ {t} : row[u].sub = j.sub => j.reassign
  BY DEF Clashes, Holders
<1>10. QED BY <1>1, <1>2, <1>4, <1>5, <1>6, <1>8, <1>9

\* A refused job may still have taken the subscription from another tenant.
LEMMA ReleasedRows ==
    ASSUME TypeInv, NEW j \in Jobs
    PROVE  /\ Released(j) \in [Tenants -> Rows \cup {NoRow}]
           /\ Released(j)[j.tenant] = row[j.tenant]
           /\ \A t \in Tenants : Released(j)[t] \in {row[t], NoRow}
BY DEF Released, TypeInv, TypeOK, Jobs

LEMMA RecordType ==
    ASSUME TypeInv, NEW w \in Workers, Record(w)
    PROVE  TypeInv'
<1> DEFINE j == job[w]
<1>1. j # NoJob /\ j \in Jobs /\ GoodJob(j) /\ j.tenant \in Tenants /\ j.sub \in Subs
  BY GoodJobs DEF Record, At, TypeInv, TypeOK, Jobs
<1>2. row \in [Tenants -> Rows \cup {NoRow}] /\ slipped \in [Tenants -> BOOLEAN]
  BY DEF TypeInv, TypeOK
<1>3. /\ job' \in [Workers -> Jobs \cup {NoJob}]
      /\ \A v \in Workers : job'[v] # NoJob => GoodJob(job'[v])
  BY <1>1, JobMoves DEF Record, Phases
<1>4. UNCHANGED <<polarVars, till, customer, status, closing, faults, assigned>>
  BY DEF Record, rest
<1>5. slipped' \in [Tenants -> BOOLEAN] /\ strayed' \subseteq Subs \X Tenants
  <2>1. strayed \subseteq Subs \X Tenants /\ <<j.sub, j.tenant>> \in Subs \X Tenants
    BY <1>1 DEF TypeInv, TypeOK
  <2>2. strayed' \subseteq strayed \cup {<<j.sub, j.tenant>>}
    BY DEF Record, history
  <2>3. slipped' \in [Tenants -> BOOLEAN]
    BY <1>1, <1>2 DEF Record, history
  <2>4. QED BY <2>1, <2>2, <2>3
<1>6. \A r \in Rows : r # NoRow /\ r.sub # NoSub
  BY PolarAssumption DEF Rows, NoRow
<1>7. CASE row' = row
  BY <1>3, <1>4, <1>5, <1>7, OursType DEF TypeInv, TypeOK, KnownInv
<1>8. CASE row' = Released(j)
  <2>1. \A t \in Tenants : row'[t] # NoRow => row'[t] = row[t]
    BY <1>1, <1>8, ReleasedRows
  <2>2. \A t, u \in Tenants : t # u /\ row'[t].sub = row'[u].sub => row'[t] = NoRow
    BY <1>2, <1>6, <2>1 DEF TypeInv, TypeOK, NoRow
  <2>3. \A t \in Tenants : row'[t] # NoRow => Bought(row'[t].sub)
    BY <2>1 DEF TypeInv, KnownInv
  <2>4. row' \in [Tenants -> Rows \cup {NoRow}]
    BY <1>1, <1>8, ReleasedRows
  <2>5. QED BY <1>3, <1>4, <1>5, <2>2, <2>3, <2>4, OursType DEF TypeInv, TypeOK, KnownInv
<1>9. CASE row' = Upserted(j) /\ ~Clashes(j)
  <2>1. /\ row' \in [Tenants -> Rows \cup {NoRow}]
        /\ row'[j.tenant].sub = j.sub
        /\ \A t \in Tenants \ {j.tenant} :
             \/ row'[t] = row[t] /\ row[t].sub # j.sub
             \/ row'[t] = NoRow
    BY <1>1, <1>9, UpsertedRows DEF GoodJob
  <2>2. \A t, u \in Tenants : t # u /\ row'[t].sub = row'[u].sub => row'[t] = NoRow
    BY <1>1, <1>2, <1>6, <2>1, PolarAssumption DEF TypeInv, TypeOK, NoRow
  <2>3. \A t \in Tenants : row'[t] # NoRow => Bought(row'[t].sub)
    BY <1>1, <2>1 DEF TypeInv, KnownInv, GoodJob
  <2>4. QED BY <1>3, <1>4, <1>5, <2>1, <2>2, <2>3, OursType DEF TypeInv, TypeOK, KnownInv
<1>10. QED BY <1>7, <1>8, <1>9 DEF Record

LEMMA TypeInvInit == Init => TypeInv
<1> SUFFICES ASSUME Init PROVE TypeInv
  OBVIOUS
<1> USE DEF Init, PolarInit, Bought
<1>1. TypeOK
  BY SubscriptionsAssumption, PolarAssumption DEF TypeOK, PolarTypeOK, Plans
<1>2. PolarInv
  BY <1>1 DEF TypeOK, PolarInv
<1>3. KnownInv
  BY DEF KnownInv
<1>4. QED BY <1>1, <1>2, <1>3 DEF TypeInv

LEMMA TypeInvNext == TypeInv /\ [Next]_vars => TypeInv'
<1> SUFFICES ASSUME TypeInv, [Next]_vars PROVE TypeInv'
  OBVIOUS
<1>1. ASSUME NEW s \in Subs, OpenCheckout(s) \/ Pay(s) \/ Purchase(s) \/ PolarMoves(s)
      PROVE  TypeInv'
  BY <1>1, TillType, PurchaseType, PolarMovesType
<1>2. ASSUME NEW h \in Handlers, Deliver(h) \/ \E s \in Subs : Poll(h, s) PROVE TypeInv'
  BY <1>2, DeliverType, PollType
<1>3. ASSUME ReconcileReads PROVE TypeInv'
  BY <1>3, ReconcileType
<1>4. ASSUME NEW w \in Workers, Apply(w) \/ Fail(w) PROVE TypeInv'
  BY <1>4, OwnType, RecordType, GrantType, MarkType, FailType DEF Apply
<1>5. ASSUME NEW t \in Tenants, Terminate(t) \/ EndBilling(t) PROVE TypeInv'
  BY <1>5, TerminateType, EndBillingType
<1>6. CASE UNCHANGED vars
  <2>1. Amends
    BY <1>6, AmendsNothing DEF vars, TypeInv
  <2>2. QED BY <1>6, <2>1, KnownStays DEF vars, TypeInv, TypeOK
<1>7. QED BY <1>1, <1>2, <1>3, <1>4, <1>5, <1>6 DEF Next

\* Every step of Polar, of our three callers and of a workspace's end keeps rows, jobs
\* and statements well typed, and a subscription belongs to one tenant.
THEOREM TypeCorrect == Spec => []TypeOK
<1>1. TypeInv => TypeOK
  BY DEF TypeInv
<1>2. QED BY <1>1, TypeInvInit, TypeInvNext, PTL DEF Spec

-----------------------------------------------------------------------------
(* What the row says was granted                                           *)

\* Neither before the step nor after it between its row and its mark.
Outside(w) ==
    /\ job[w] # NoJob => job[w].phase \notin {"recorded", "granted"}
    /\ job'[w] # NoJob => job'[w].phase \notin {"recorded", "granted"}

\* Steps of which the plan, its row and who is applying it know nothing.
LEMMA ElsewhereGrant ==
    ASSUME GrantInv, UNCHANGED <<row, assigned, slipped>>,
           \A w \in Workers : job'[w] = job[w] \/ Outside(w)
    PROVE  GrantInv'
<1>1. \A t \in Tenants : Applying(t)' = Applying(t)
  BY DEF Applying, Outside
<1>2. \A t \in Tenants : \A w \in Applying(t) : job'[w] = job[w]
  BY DEF Applying, Outside
<1>3. QED BY <1>1, <1>2 DEF GrantInv

LEMMA CallersGrant ==
    ASSUME TypeInv, GrantInv,
           \/ \E h \in Handlers : Deliver(h) \/ \E s \in Subs : Poll(h, s)
           \/ ReconcileReads
           \/ \E w \in Workers : Own(w)
    PROVE  GrantInv'
<1>1. job \in [Workers -> Jobs \cup {NoJob}] /\ Handlers \subseteq Workers
  BY DEF TypeInv, TypeOK, Workers
<1>2. UNCHANGED <<row, assigned, slipped>>
  BY DEF Deliver, Poll, ReconcileReads, Own, history
<1>3. ASSUME NEW h \in Handlers, Deliver(h)
      PROVE  \A w \in Workers : job'[w] = job[w] \/ Outside(w)
  BY <1>1, <1>3 DEF Deliver, NewJob, Outside
<1>4. ASSUME NEW h \in Handlers, NEW s \in Subs, Poll(h, s)
      PROVE  \A w \in Workers : job'[w] = job[w] \/ Outside(w)
  BY <1>1, <1>4 DEF Poll, NewJob, Outside
<1>5. ASSUME ReconcileReads
      PROVE  \A w \in Workers : job'[w] = job[w] \/ Outside(w)
  BY <1>5 DEF ReconcileReads, NewJob, Outside
<1>6. ASSUME NEW w \in Workers, Own(w)
      PROVE  \A v \in Workers : job'[v] = job[v] \/ Outside(v)
  <2>1. job[w] \in Jobs /\ job[w].phase = "attributed"
    BY <1>1, <1>6 DEF Own, At
  <2>2. job'[w].phase = "owned" /\ \A v \in Workers \ {w} : job'[v] = job[v]
    BY <1>1, <1>6, <2>1 DEF Own, Jobs
  <2>3. QED BY <2>1, <2>2 DEF Outside
<1>7. QED BY <1>2, <1>3, <1>4, <1>5, <1>6, ElsewhereGrant

\* A job that moves on is the same but for its phase.
LEMMA MovesOn ==
    ASSUME TypeInv, NEW w \in Workers, job[w] # NoJob, NEW phase \in Phases,
           job' = [job EXCEPT ![w].phase = phase]
    PROVE  /\ job'[w] # NoJob
           /\ job'[w].phase = phase
           /\ job'[w].tenant = job[w].tenant
           /\ job'[w].sub = job[w].sub
           /\ job'[w].at = job[w].at
           /\ job'[w].plan = job[w].plan
           /\ job'[w].reassign = job[w].reassign
           /\ \A v \in Workers \ {w} : job'[v] = job[v]
<1>1. job \in [Workers -> Jobs \cup {NoJob}] /\ job[w] \in Jobs
  BY DEF TypeInv, TypeOK
<1> DEFINE j == [job[w] EXCEPT !.phase = phase]
<1>2. job'[w] = j /\ \A v \in Workers \ {w} : job'[v] = job[v]
  BY <1>1
<1>3. j \in Jobs
  BY <1>1 DEF Jobs
<1>4. j.phase = phase /\ j.tenant = job[w].tenant /\ j.sub = job[w].sub
  BY <1>1 DEF Jobs
<1>5. j.at = job[w].at /\ j.plan = job[w].plan /\ j.reassign = job[w].reassign
  BY <1>1 DEF Jobs
<1> HIDE DEF j
<1>6. QED BY <1>2, <1>3, <1>4, <1>5, SubscriptionsAssumption

LEMMA RecordGrant ==
    ASSUME TypeInv, GrantInv, NEW w \in Workers, Record(w)
    PROVE  GrantInv'
<1> DEFINE j == job[w]
<1>1. j # NoJob /\ j \in Jobs /\ GoodJob(j) /\ j.tenant \in Tenants /\ j.phase = "owned"
  BY GoodJobs DEF Record, At, TypeInv, TypeOK, Jobs
<1>2. job \in [Workers -> Jobs \cup {NoJob}] /\ slipped \in [Tenants -> BOOLEAN] /\ assigned' = assigned
  BY DEF Record, TypeInv, TypeOK
<1>3. CASE job' = [job EXCEPT ![w] = NoJob] /\ slipped' = slipped /\ row' \in {row, Released(j)}
  <2>1. \A t \in Tenants : Applying(t)' = Applying(t)
    BY <1>1, <1>2, <1>3 DEF Applying
  <2>2. \A t \in Tenants : \A v \in Applying(t) : job'[v] = job[v]
    BY <1>1, <1>2, <1>3 DEF Applying
  <2>3. \A t \in Tenants : row'[t] \in {row[t], NoRow}
    BY <1>1, <1>3, ReleasedRows
  <2>4. NoRow.granted = NoPlan
    BY DEF NoRow
  <2>5. QED BY <1>2, <1>3, <2>1, <2>2, <2>3, <2>4 DEF GrantInv
<1>4. CASE /\ ~Clashes(j) /\ row' = Upserted(j)
           /\ job' = [job EXCEPT ![w].phase = "recorded"]
           /\ slipped' = [slipped EXCEPT ![j.tenant] = @ \/ Applying(j.tenant) # {}]
  <2>1. /\ row'[j.tenant].at = j.at
        /\ row'[j.tenant].granted = row[j.tenant].granted
        /\ \A t \in Tenants \ {j.tenant} : row'[t] \in {row[t], NoRow}
    BY <1>1, <1>4, UpsertedRows DEF GoodJob
  <2>2. /\ job'[w] # NoJob /\ job'[w].phase = "recorded"
        /\ job'[w].tenant = j.tenant /\ job'[w].at = j.at
        /\ \A v \in Workers \ {w} : job'[v] = job[v]
    BY <1>1, <1>4, MovesOn DEF Phases
  <2>3. \A u \in Tenants :
          /\ w \notin Applying(u)
          /\ Applying(u)' = IF u = job[w].tenant THEN Applying(u) \cup {w} ELSE Applying(u)
    BY <1>1, <2>2 DEF Applying
  <2>4. NoRow.granted = NoPlan
    BY DEF NoRow
  <2> SUFFICES ASSUME NEW t \in Tenants, ~slipped'[t]
               PROVE  /\ \A v \in Applying(t)' :
                           /\ Applying(t)' = {v}
                           /\ row'[t].at = job'[v].at \/ row'[t] = NoRow
                           /\ job'[v].phase = "granted" => assigned'[t] = job'[v].plan
                      /\ \/ row'[t].granted \in {NoPlan, assigned'[t]}
                         \/ \E v \in Applying(t)' : job'[v].phase = "granted"
    BY DEF GrantInv
  <2>5. CASE t = j.tenant
    <3>0. slipped'[t] = (slipped[t] \/ Applying(t) # {})
      BY <1>1, <1>2, <1>4, <2>5
    <3>1. ~slipped[t] /\ Applying(t) = {}
      BY <3>0, Zenon
    <3>2. Applying(t)' = {w}
      BY <2>3, <2>5, <3>1
    <3>3. row[t].granted \in {NoPlan, assigned[t]}
      BY <3>1 DEF GrantInv
    <3>4. QED BY <1>2, <2>1, <2>2, <2>5, <3>2, <3>3
  <2>6. CASE t # j.tenant
    <3>1. ~slipped[t] /\ Applying(t)' = Applying(t) /\ row'[t] \in {row[t], NoRow}
      BY <1>2, <1>4, <2>1, <2>3, <2>6
    <3>2. \A v \in Applying(t) : job'[v] = job[v]
      BY <2>2, <2>3 DEF Applying
    <3>3. QED BY <1>2, <2>4, <3>1, <3>2 DEF GrantInv
  <2>7. QED BY <2>5, <2>6
<1>5. QED BY <1>3, <1>4 DEF Record, history

LEMMA GrantGrant ==
    ASSUME TypeInv, GrantInv, NEW w \in Workers, Grant(w)
    PROVE  GrantInv'
<1> DEFINE j == job[w]
           t == job[w].tenant
<1>1. j # NoJob /\ j \in Jobs /\ t \in Tenants /\ j.phase = "recorded"
  BY DEF Grant, At, TypeInv, TypeOK, Jobs
<1>2. job \in [Workers -> Jobs \cup {NoJob}] /\ slipped \in [Tenants -> BOOLEAN]
      /\ assigned \in [Tenants -> Plans]
  BY DEF TypeInv, TypeOK
<1>3. /\ row' = row /\ assigned' = [assigned EXCEPT ![t] = j.plan]
      /\ slipped' = [slipped EXCEPT ![t] = @ /\ ~(Applying(t) = {w} /\ row[t].at = j.at)]
  BY DEF Grant
<1>4. /\ job'[w] # NoJob /\ job'[w].phase = "granted" /\ job'[w].tenant = t
      /\ job'[w].at = j.at /\ job'[w].plan = j.plan
      /\ \A v \in Workers \ {w} : job'[v] = job[v]
  BY <1>1, MovesOn DEF Grant, Phases
<1>5. \A u \in Tenants : Applying(u)' = Applying(u) /\ (w \in Applying(u) <=> u = t)
  BY <1>1, <1>4 DEF Applying
<1> SUFFICES ASSUME NEW u \in Tenants, ~slipped'[u]
             PROVE  /\ \A v \in Applying(u)' :
                         /\ Applying(u)' = {v}
                         /\ row'[u].at = job'[v].at \/ row'[u] = NoRow
                         /\ job'[v].phase = "granted" => assigned'[u] = job'[v].plan
                    /\ \/ row'[u].granted \in {NoPlan, assigned'[u]}
                       \/ \E v \in Applying(u)' : job'[v].phase = "granted"
  BY DEF GrantInv
<1>6. CASE u = t
  <2>1. Applying(t) = {w} /\ (row[t].at = j.at \/ row[t] = NoRow)
    BY <1>2, <1>3, <1>5, <1>6 DEF GrantInv
  <2>2. QED BY <1>1, <1>2, <1>3, <1>4, <1>5, <1>6, <2>1
<1>7. CASE u # t
  <2>1. ~slipped[u] /\ assigned'[u] = assigned[u]
    BY <1>1, <1>2, <1>3, <1>7
  <2>2. \A v \in Applying(u) : job'[v] = job[v]
    BY <1>4, <1>5, <1>7 DEF Applying
  <2>3. QED BY <1>3, <1>5, <2>1, <2>2 DEF GrantInv
<1>8. QED BY <1>6, <1>7

LEMMA MarkGrant ==
    ASSUME TypeInv, GrantInv, NEW w \in Workers, MarkGranted(w)
    PROVE  GrantInv'
<1> DEFINE j == job[w]
           t == job[w].tenant
           p == IF row[t].at = j.at THEN j.plan ELSE row[t].granted
<1>1. j # NoJob /\ j \in Jobs /\ t \in Tenants /\ j.phase = "granted" /\ j.at > 0
  BY DEF MarkGranted, At, TypeInv, TypeOK, Jobs, KnownInv
<1>2. job \in [Workers -> Jobs \cup {NoJob}] /\ row \in [Tenants -> Rows \cup {NoRow}]
  BY DEF TypeInv, TypeOK
<1>3. /\ row' = [row EXCEPT ![t].granted = p] /\ assigned' = assigned /\ slipped' = slipped
      /\ job' = [job EXCEPT ![w] = NoJob]
  BY DEF MarkGranted, history
<1>4. \A u \in Tenants : Applying(u)' = Applying(u) \ {w} /\ (w \in Applying(u) <=> u = t)
  BY <1>1, <1>2, <1>3 DEF Applying
<1>5. \A u \in Tenants \ {t} : row'[u] = row[u]
  BY <1>1, <1>2, <1>3
<1>6. row'[t].granted = p
  BY <1>1, <1>2, <1>3 DEF Rows, NoRow
<1> SUFFICES ASSUME NEW u \in Tenants, ~slipped'[u]
             PROVE  /\ \A v \in Applying(u)' :
                         /\ Applying(u)' = {v}
                         /\ row'[u].at = job'[v].at \/ row'[u] = NoRow
                         /\ job'[v].phase = "granted" => assigned'[u] = job'[v].plan
                    /\ \/ row'[u].granted \in {NoPlan, assigned'[u]}
                       \/ \E v \in Applying(u)' : job'[v].phase = "granted"
  BY DEF GrantInv
<1>7. CASE u = t
  <2>1. Applying(t) = {w} /\ assigned[t] = j.plan /\ (row[t].at = j.at \/ row[t] = NoRow)
    BY <1>1, <1>3, <1>4, <1>7 DEF GrantInv
  <2>2. p \in {NoPlan, assigned[t]}
    BY <1>1, <2>1 DEF NoRow
  <2>3. Applying(u)' = {}
    BY <1>4, <1>7, <2>1
  <2>4. QED BY <1>3, <1>6, <1>7, <2>2, <2>3
<1>8. CASE u # t
  <2>1. Applying(u)' = Applying(u)
    BY <1>4, <1>8
  <2>2. \A v \in Applying(u) : job'[v] = job[v]
    BY <1>2, <1>3, <1>4, <1>8 DEF Applying
  <2>3. QED BY <1>3, <1>5, <1>8, <2>1, <2>2 DEF GrantInv
<1>9. QED BY <1>7, <1>8

LEMMA FailGrant ==
    ASSUME TypeInv, GrantInv, NEW w \in Workers, Fail(w)
    PROVE  GrantInv'
<1> DEFINE t == job[w].tenant
<1>1. job[w] # NoJob /\ job[w] \in Jobs /\ t \in Tenants
  BY DEF Fail, TypeInv, TypeOK, Jobs
<1>2. job \in [Workers -> Jobs \cup {NoJob}] /\ slipped \in [Tenants -> BOOLEAN]
  BY DEF TypeInv, TypeOK
<1>3. /\ row' = row /\ assigned' = assigned /\ job' = [job EXCEPT ![w] = NoJob]
      /\ slipped' = [slipped EXCEPT ![t] = @ \/ At(w, "granted")]
  BY DEF Fail
<1>4. \A u \in Tenants : Applying(u)' = Applying(u) \ {w} /\ (w \in Applying(u) => u = t)
  BY <1>1, <1>2, <1>3 DEF Applying
<1>5. \A u \in Tenants : \A v \in Applying(u)' : job'[v] = job[v]
  BY <1>2, <1>3, <1>4 DEF Applying
<1>6. \A u \in Tenants : ~slipped'[u] => ~slipped[u] /\ ~(u = t /\ job[w].phase = "granted")
  BY <1>1, <1>2, <1>3 DEF At
<1>7. \A u \in Tenants : \A v \in Applying(u) :
         ~slipped'[u] /\ job[v].phase = "granted" => v \in Applying(u)'
  BY <1>4, <1>6
<1>8. QED BY <1>3, <1>4, <1>5, <1>6, <1>7 DEF GrantInv

LEMMA TerminateGrant ==
    ASSUME TypeInv, GrantInv, NEW t \in Tenants, Terminate(t)
    PROVE  GrantInv'
<1>1. row \in [Tenants -> Rows \cup {NoRow}] /\ assigned \in [Tenants -> Plans]
      /\ slipped \in [Tenants -> BOOLEAN]
  BY DEF TypeInv, TypeOK
<1>2. /\ job' = job /\ assigned' = [assigned EXCEPT ![t] = Free]
      /\ slipped' = [slipped EXCEPT ![t] = @ \/ Applying(t) # {}]
      /\ row' = [row EXCEPT ![t] = IF @ = NoRow THEN @ ELSE [@ EXCEPT !.granted = Free]]
  BY DEF Terminate, Freed
<1>3. \A u \in Tenants : Applying(u)' = Applying(u)
  BY <1>2 DEF Applying
<1>4. row'[t].granted \in {NoPlan, Free} /\ \A u \in Tenants \ {t} : row'[u] = row[u]
  BY <1>1, <1>2 DEF Rows, NoRow
<1>5. assigned'[t] = Free /\ \A u \in Tenants \ {t} : assigned'[u] = assigned[u]
  BY <1>1, <1>2
<1>6. \A u \in Tenants : ~slipped'[u] => ~slipped[u] /\ (u = t => Applying(u) = {})
  BY <1>1, <1>2
<1>7. QED BY <1>2, <1>3, <1>4, <1>5, <1>6 DEF GrantInv

LEMMA GrantInvNext == TypeInv /\ GrantInv /\ [Next]_vars => GrantInv'
<1> SUFFICES ASSUME TypeInv, GrantInv, [Next]_vars PROVE GrantInv'
  OBVIOUS
<1>1. ASSUME NEW s \in Subs, OpenCheckout(s) \/ Pay(s) \/ Purchase(s) \/ PolarMoves(s)
      PROVE  GrantInv'
  BY <1>1, ElsewhereGrant DEF OpenCheckout, Pay, Purchase, PolarMoves, history
<1>2. ASSUME NEW h \in Handlers, Deliver(h) \/ \E s \in Subs : Poll(h, s) PROVE GrantInv'
  BY <1>2, CallersGrant
<1>3. ASSUME ReconcileReads PROVE GrantInv'
  BY <1>3, CallersGrant
<1>4. ASSUME NEW w \in Workers, Apply(w) \/ Fail(w) PROVE GrantInv'
  BY <1>4, CallersGrant, RecordGrant, GrantGrant, MarkGrant, FailGrant DEF Apply
<1>5. ASSUME NEW t \in Tenants, Terminate(t) \/ EndBilling(t) PROVE GrantInv'
  BY <1>5, TerminateGrant, ElsewhereGrant DEF EndBilling, history
<1>6. CASE UNCHANGED vars
  BY <1>6, ElsewhereGrant DEF vars, history
<1>7. QED BY <1>1, <1>2, <1>3, <1>4, <1>5, <1>6 DEF Next

\* While no application of a tenant is under way, overlapped another or lost its mark,
\* what the row says was granted is the plan the tenant sends under.
THEOREM RowIsTruthful == Spec => []RowTellsPlan
<1>1. Init => GrantInv
  BY DEF Init, GrantInv, Applying, NoRow
<1>2. GrantInv => RowTellsPlan
  BY DEF GrantInv, RowTellsPlan
<1>3. QED BY <1>1, <1>2, TypeInvInit, TypeInvNext, GrantInvNext, PTL DEF Spec

-----------------------------------------------------------------------------
(* Who holds what was paid for                                             *)

\* Of a subscription that was bought, an older checkout stays one.
Remembers == \A s \in Subs, t \in Tenants : Bought(s) /\ OlderCheckout(t, s) => OlderCheckout(t, s)'

LEMMA RemembersIf ==
    ASSUME paid \subseteq paid',
           \A o \in paid : buyer'[o] = buyer[o] /\ opened'[o] = opened[o],
           \A s \in Subs : Bought(s) => polar'[s].born = polar[s].born
    PROVE  Remembers
BY DEF Remembers, OlderCheckout

LEMMA NextRemembers == TypeInv /\ [Next]_vars => Remembers
<1> SUFFICES ASSUME TypeInv, [Next]_vars PROVE Remembers
  OBVIOUS
<1>1. ASSUME NEW s \in Subs, OpenCheckout(s) PROVE Remembers
  <2>1. \A o \in paid : o # s /\ o \in Subs
    BY <1>1 DEF OpenCheckout, TypeInv, TypeOK, KnownInv
  <2>2. \A o \in paid : buyer'[o] = buyer[o] /\ opened'[o] = opened[o]
    BY <1>1, <2>1 DEF OpenCheckout, TypeInv, TypeOK
  <2>3. QED BY <1>1, <2>2, RemembersIf DEF OpenCheckout, polarVars
<1>2. ASSUME NEW s \in Subs, Pay(s) PROVE Remembers
  BY <1>2, RemembersIf DEF Pay, polarVars
<1>3. ASSUME NEW s \in Subs, Purchase(s) PROVE Remembers
  <2>1. product[s] \in Paid
    BY <1>3 DEF Purchase, TypeInv, KnownInv
  <2>2. QED BY <1>3, <2>1, BuyInv, RemembersIf DEF Purchase, till, TypeInv
<1>4. ASSUME NEW s \in Subs, PolarMoves(s) PROVE Remembers
  BY <1>4, MovesInv, RemembersIf DEF PolarMoves, Amends, till, TypeInv
<1>5. CASE UNCHANGED <<polarVars, till>>
  BY <1>5, RemembersIf DEF polarVars, till
<1>6. ASSUME NEW t \in Tenants, EndBilling(t) PROVE Remembers
  <2>1. closing[t] \in Subs /\ Bought(closing[t])
    BY <1>6 DEF EndBilling, TypeInv, TypeOK, KnownInv
  <2>2. Amends
    BY <1>6, <2>1, RevokeInv, AmendsNothing DEF EndBilling, TypeInv
  <2>3. QED BY <1>6, <2>2, RemembersIf DEF EndBilling, Amends, till
<1>7. ASSUME NEW w \in Workers, Apply(w) \/ Fail(w) PROVE Remembers
  BY <1>5, <1>7 DEF Apply, Own, Record, Grant, MarkGranted, Fail, rest
<1>8. ASSUME \/ ReconcileReads
             \/ \E h \in Handlers : Deliver(h) \/ \E s \in Subs : Poll(h, s)
             \/ \E t \in Tenants : Terminate(t)
      PROVE  Remembers
  BY <1>5, <1>8 DEF ReconcileReads, Deliver, Poll, Terminate, rest
<1>9. CASE UNCHANGED vars
  BY <1>5, <1>9 DEF vars
<1>10. QED BY <1>1, <1>2, <1>3, <1>4, <1>6, <1>7, <1>8, <1>9 DEF Next

\* What a step that gives no subscription to anybody has to show of the holders.
LEMMA HoldersKept ==
    ASSUME TypeInv, OwnerInv, UNCHANGED <<buyer, checkouts>>, strayed \subseteq strayed',
           \A s \in Subs : Holders(s)' \subseteq Holders(s)
    PROVE  PaidReachesBuyer'
BY DEF OwnerInv, PaidReachesBuyer, TypeInv, TypeOK

\* What a step of ours has to show of the jobs it begins or moves.
LEMMA JobsFit ==
    ASSUME OwnerInv, UNCHANGED <<polarVars, till>>, strayed \subseteq strayed',
           \A w \in Workers : job'[w] # NoJob => job'[w] = job[w] \/ Fits(job'[w])
    PROVE  \A w \in Workers : job'[w] # NoJob => Fits(job[w])'
BY DEF OwnerInv, Fits, OlderCheckout, polarVars, till

\* What a step that begins and moves no job has to show.
LEMMA OwnerStays ==
    ASSUME TypeInv, OwnerInv, Remembers, UNCHANGED <<buyer, checkouts>>,
           strayed \subseteq strayed',
           \A s \in Subs : Holders(s)' \subseteq Holders(s),
           \A w \in Workers : job'[w] \in {NoJob, job[w]}
    PROVE  OwnerInv'
<1>1. \A w \in Workers : job[w] # NoJob =>
         job[w].sub \in Subs /\ Bought(job[w].sub) /\ job[w].tenant \in Tenants
  BY GoodJobs DEF GoodJob, Jobs
<1>2. \A w \in Workers : job'[w] # NoJob => Fits(job[w])'
  BY <1>1 DEF OwnerInv, Fits, Remembers
<1>3. QED BY <1>2, HoldersKept DEF OwnerInv

LEMMA AttributedToBuyer ==
    ASSUME OwnerInv, NEW s \in checkouts, NEW t \in Attributed(s)
    PROVE  t = buyer[s] \/ <<s, t>> \in strayed
BY DEF OwnerInv, PaidReachesBuyer, Attributed

\* A checkout that is opened is of a subscription nobody knows of.
LEMMA OpenOwner ==
    ASSUME TypeInv, OwnerInv, Remembers, NEW s \in Subs, OpenCheckout(s)
    PROVE  OwnerInv'
<1>1. buyer[s] = Nobody /\ job' = job /\ row' = row /\ strayed' = strayed
      /\ checkouts' \subseteq checkouts \cup {s}
  BY DEF OpenCheckout, history
<1>2. \A o \in Subs \ {s} : buyer'[o] = buyer[o]
  BY DEF OpenCheckout, TypeInv, TypeOK
<1>3. ~Bought(s) /\ s \notin checkouts
  BY <1>1 DEF TypeInv, KnownInv
<1>4. checkouts \subseteq Subs \ {s} /\ Holders(s) = {}
  BY <1>3, PolarAssumption DEF TypeInv, TypeOK, KnownInv, Holders, NoRow
<1>5. \A w \in Workers : job[w] # NoJob =>
         job[w].sub \in Subs \ {s} /\ Bought(job[w].sub) /\ job[w].tenant \in Tenants
  BY <1>3, GoodJobs DEF GoodJob, Jobs
<1>6. \A o \in Subs : Holders(o)' = Holders(o)
  BY <1>1 DEF Holders
<1>7. PaidReachesBuyer'
  BY <1>1, <1>2, <1>4, <1>6 DEF OwnerInv, PaidReachesBuyer
<1>8. ASSUME NEW w \in Workers, job'[w] # NoJob PROVE Fits(job[w])'
  <2>1. Fits(job[w]) /\ job[w] # NoJob
    BY <1>1, <1>8 DEF OwnerInv
  <2>2. job[w].reassign => OlderCheckout(job[w].tenant, job[w].sub)'
    BY <1>1, <1>5, <2>1 DEF Fits, Remembers, OlderCheckout
  <2>3. job[w].sub \in checkouts' => job[w].sub \in checkouts /\ buyer'[job[w].sub] = buyer[job[w].sub]
    BY <1>1, <1>2, <1>5, <2>1
  <2>4. QED BY <1>1, <2>1, <2>2, <2>3 DEF Fits
<1>9. QED BY <1>7, <1>8 DEF OwnerInv

\* What a page takes is no older than its checkout.
LEMMA PollOwner ==
    ASSUME TypeInv, OwnerInv, NEW h \in Handlers, NEW s \in Subs, Poll(h, s)
    PROVE  OwnerInv'
<1>1. UNCHANGED <<row, strayed, buyer, checkouts, polarVars, till>>
      /\ job \in [Workers -> Jobs \cup {NoJob}]
  BY DEF Poll, history, till, TypeInv, TypeOK
<1>2. PaidReachesBuyer'
  BY <1>1, HoldersKept DEF Holders
<1>3. CASE job' = job
  BY <1>1, <1>2, <1>3, JobsFit DEF OwnerInv
<1>4. ASSUME NEW o \in Subs, o \in Matches(s),
             job' = [job EXCEPT ![h] = NewJob("owned", buyer[s], polar[o], TRUE)]
      PROVE  OwnerInv'
  <2>1. Bought(o) /\ polar[o].born >= opened[s] /\ polar[o].sub = o
    BY <1>4 DEF Matches, OfProduct, TypeInv, TypeOK, PolarTypeOK, Bought
  <2>2. s \in paid /\ opened[s] \in Nat /\ polar[o].born \in Nat
    BY <2>1 DEF Poll, TypeInv, TypeOK, PolarInv, PolarTypeOK
  <2>3. OlderCheckout(buyer[s], o)
    BY <2>1, <2>2 DEF OlderCheckout
  <2>4. Fits(NewJob("owned", buyer[s], polar[o], TRUE))
    BY <2>1, <2>3 DEF NewJob, Fits
  <2>5. \A w \in Workers : job'[w] = job[w] \/ Fits(job'[w])
    BY <1>1, <1>4, <2>4
  <2>6. QED BY <1>1, <1>2, <2>5, JobsFit DEF OwnerInv
<1>5. QED BY <1>3, <1>4 DEF Poll, Matches, OfProduct

LEMMA DeliverOwner ==
    ASSUME TypeInv, OwnerInv, NEW h \in Handlers, Deliver(h)
    PROVE  OwnerInv'
<1>1. PICK e \in sent : \E t \in Attributed(e.sub) :
         job' = [job EXCEPT ![h] = NewJob("attributed", t, e, FALSE)]
  BY DEF Deliver
<1>2. PICK t \in Attributed(e.sub) :
         job' = [job EXCEPT ![h] = NewJob("attributed", t, e, FALSE)]
  BY <1>1
<1>3. e.sub \in checkouts => t = buyer[e.sub] \/ <<e.sub, t>> \in strayed
  BY AttributedToBuyer
<1>4. Fits(NewJob("attributed", t, e, FALSE))
  BY <1>3 DEF NewJob, Fits
<1>5. UNCHANGED <<row, strayed, buyer, checkouts, polarVars, till>>
      /\ job \in [Workers -> Jobs \cup {NoJob}]
  BY DEF Deliver, rest, history, till, TypeInv, TypeOK
<1>6. \A w \in Workers : job'[w] = job[w] \/ Fits(job'[w])
  BY <1>2, <1>4, <1>5
<1>7. QED BY <1>5, <1>6, HoldersKept, JobsFit DEF OwnerInv, Holders

LEMMA ReconcileOwner ==
    ASSUME TypeInv, OwnerInv, ReconcileReads
    PROVE  OwnerInv'
<1>1. ASSUME NEW t \in Tenants, Mine(t) # {}
      PROVE  Fits(NewJob("attributed", t, Deciding(t), FALSE))
  <2>1. PICK s \in Mine(t) : Deciding(t) = polar[s]
    BY <1>1, DecidingExists DEF TypeInv
  <2>2. s \in Subs /\ polar[s].sub = s /\ t \in Attributed(s)
    BY <2>1 DEF Mine, TypeInv, TypeOK, PolarTypeOK, Bought
  <2>3. s \in checkouts => t = buyer[s] \/ <<s, t>> \in strayed
    BY <2>2, AttributedToBuyer
  <2>4. QED BY <2>1, <2>2, <2>3 DEF NewJob, Fits
<1>2. UNCHANGED <<row, strayed, buyer, checkouts, polarVars, till>>
  BY DEF ReconcileReads, rest, history, till
<1>3. \A w \in Workers : job'[w] = job[w] \/ Fits(job'[w])
  BY <1>1 DEF ReconcileReads
<1>4. QED BY <1>2, <1>3, HoldersKept, JobsFit DEF OwnerInv, Holders

LEMMA OwnOwner ==
    ASSUME TypeInv, OwnerInv, NEW w \in Workers, Own(w)
    PROVE  OwnerInv'
<1> DEFINE held == Holders(job[w].sub)
           t == IF held = {} THEN job[w].tenant ELSE CHOOSE u \in held : TRUE
<1>1. job[w] \in Jobs /\ job[w] # NoJob /\ job[w].phase = "attributed"
      /\ job \in [Workers -> Jobs \cup {NoJob}]
  BY DEF Own, At, TypeInv, TypeOK
<1>2. job' = [job EXCEPT ![w].phase = "owned", ![w].tenant = t]
  BY DEF Own
<1>3. job'[w].tenant = t /\ job'[w].sub = job[w].sub /\ job'[w].reassign = job[w].reassign
  BY <1>1, <1>2 DEF Jobs
<1>4. \A v \in Workers \ {w} : job'[v] = job[v]
  BY <1>1, <1>2
<1>5. ~job[w].reassign /\ Fits(job[w])
  BY <1>1 DEF OwnerInv, Fits
<1>6. job[w].sub \in checkouts => t = buyer[job[w].sub] \/ <<job[w].sub, t>> \in strayed
  BY <1>5 DEF OwnerInv, PaidReachesBuyer, Fits
<1> HIDE DEF t
<1>7. Fits(job'[w])
  BY <1>3, <1>5, <1>6 DEF Fits
<1>8. UNCHANGED <<row, strayed, buyer, checkouts, polarVars, till>>
  BY DEF Own, rest, history, till
<1>9. \A v \in Workers : job'[v] = job[v] \/ Fits(job'[v])
  BY <1>4, <1>7
<1>10. QED BY <1>8, <1>9, HoldersKept, JobsFit DEF OwnerInv, Holders

\* Only the upsert of a row gives a subscription to a tenant, to the tenant of its job;
\* and the unique key lets it take one from another only with release_subscription.
LEMMA RecordHolders ==
    ASSUME TypeInv, NEW w \in Workers, Record(w)
    PROVE  /\ strayed \subseteq strayed'
           /\ \A s \in Subs :
                \/ Holders(s)' \subseteq Holders(s)
                \/ /\ s = job[w].sub
                   /\ Holders(s)' \subseteq Holders(s) \cup {job[w].tenant}
                   /\ job[w].reassign \/ Holders(s) \subseteq {job[w].tenant}
                   /\ job[w].reassign /\ job[w].tenant # buyer[s]
                        => <<s, job[w].tenant>> \in strayed'
<1> DEFINE j == job[w]
<1>1. j # NoJob /\ j \in Jobs /\ GoodJob(j) /\ j.tenant \in Tenants
  BY GoodJobs DEF Record, At, TypeInv, TypeOK, Jobs
<1>2. \A s \in Subs : NoRow.sub # s
  BY PolarAssumption DEF NoRow
<1>3. CASE row' \in {row, Released(j)} /\ strayed' = strayed
  BY <1>1, <1>2, <1>3, ReleasedRows DEF Holders
<1>4. CASE /\ row' = Upserted(j) /\ ~Clashes(j)
           /\ strayed' = strayed \cup (IF j.reassign /\ j.tenant # buyer[j.sub]
                                       THEN {<<j.sub, j.tenant>>} ELSE {})
  <2>1. /\ row'[j.tenant].sub = j.sub
        /\ \A t \in Tenants \ {j.tenant} : row'[t] \in {row[t], NoRow}
    BY <1>1, <1>4, UpsertedRows DEF GoodJob
  <2>2. \A s \in Subs : \/ Holders(s)' \subseteq Holders(s)
                        \/ /\ s = j.sub
                           /\ Holders(s)' \subseteq Holders(s) \cup {j.tenant}
    BY <1>1, <1>2, <2>1 DEF Holders
  <2>3. j.reassign \/ Holders(j.sub) \subseteq {j.tenant}
    BY <1>4 DEF Clashes
  <2>4. QED BY <1>4, <2>2, <2>3
<1>5. QED BY <1>3, <1>4 DEF Record, history

LEMMA RecordOwner ==
    ASSUME TypeInv, OwnerInv, NEW w \in Workers, Record(w)
    PROVE  OwnerInv'
<1>1. job[w] # NoJob /\ Fits(job[w]) /\ UNCHANGED <<buyer, checkouts, polarVars, till>>
      /\ checkouts \subseteq Subs /\ job \in [Workers -> Jobs \cup {NoJob}]
  BY DEF Record, At, OwnerInv, rest, till, TypeInv, TypeOK
<1>2. PaidReachesBuyer'
  <2> SUFFICES ASSUME NEW s \in checkouts, NEW t \in Holders(s)', t # buyer[s]
               PROVE  <<s, t>> \in strayed'
    BY <1>1 DEF PaidReachesBuyer
  <2>1. strayed \subseteq strayed'
    BY RecordHolders
  <2>2. CASE t \in Holders(s)
    BY <2>1, <2>2 DEF OwnerInv, PaidReachesBuyer
  <2>3. CASE t \notin Holders(s)
    <3>1. s = job[w].sub /\ t = job[w].tenant
      BY <1>1, <2>3, RecordHolders
    <3>2. job[w].reassign => <<s, t>> \in strayed'
      BY <1>1, <2>3, <3>1, RecordHolders
    <3>3. QED BY <1>1, <2>1, <3>1, <3>2 DEF Fits
  <2>4. QED BY <2>2, <2>3
<1>3. \A v \in Workers : job'[v] # NoJob => job'[v] = job[v] \/ Fits(job'[v])
  <2>1. CASE job' = [job EXCEPT ![w] = NoJob]
    BY <1>1, <2>1
  <2>2. CASE job' = [job EXCEPT ![w].phase = "recorded"]
    BY <1>1, <2>2, MovesOn DEF Phases, Fits
  <2>3. QED BY <2>1, <2>2 DEF Record
<1>4. QED BY <1>1, <1>2, <1>3, RecordHolders, JobsFit DEF OwnerInv

\* The steps that give no subscription to anybody.
LEMMA NobodyGains ==
    ASSUME TypeInv,
           \/ \E s \in Subs : OpenCheckout(s) \/ Pay(s) \/ Purchase(s) \/ PolarMoves(s)
           \/ \E h \in Handlers : Deliver(h) \/ \E s \in Subs : Poll(h, s)
           \/ ReconcileReads
           \/ \E w \in Workers : Own(w) \/ Grant(w) \/ MarkGranted(w) \/ Fail(w)
           \/ \E t \in Tenants : Terminate(t) \/ EndBilling(t)
           \/ UNCHANGED vars
    PROVE  strayed' = strayed /\ \A s \in Subs : Holders(s)' = Holders(s)
<1>1. row \in [Tenants -> Rows \cup {NoRow}]
  BY DEF TypeInv, TypeOK
<1>2. row' = row => \A s \in Subs : Holders(s)' = Holders(s)
  BY DEF Holders
<1>3. ASSUME NEW w \in Workers, MarkGranted(w) PROVE \A t \in Tenants : row'[t].sub = row[t].sub
  <2>1. PICK p : row' = [row EXCEPT ![job[w].tenant].granted = p]
    BY <1>3 DEF MarkGranted
  <2>2. QED BY <1>1, <2>1 DEF Rows, NoRow
<1>4. ASSUME NEW t \in Tenants, Terminate(t) PROVE \A u \in Tenants : row'[u].sub = row[u].sub
  BY <1>1, <1>4 DEF Terminate, Freed, Rows, NoRow
<1>5. strayed' = strayed
  BY DEF OpenCheckout, Pay, Purchase, PolarMoves, Deliver, Poll, ReconcileReads, Own, Grant,
         MarkGranted, Fail, Terminate, EndBilling, vars, history
<1>6. \A s \in Subs : Holders(s)' = Holders(s)
  BY <1>2, <1>3, <1>4 DEF Holders, OpenCheckout, Pay, Purchase, PolarMoves, Deliver, Poll,
                          ReconcileReads, Own, Grant, Fail, EndBilling, vars
<1>7. QED BY <1>5, <1>6

LEMMA OwnerInvNext == TypeInv /\ OwnerInv /\ [Next]_vars => OwnerInv'
<1> SUFFICES ASSUME TypeInv, OwnerInv, [Next]_vars PROVE OwnerInv'
  OBVIOUS
<1>0. Remembers /\ job \in [Workers -> Jobs \cup {NoJob}]
  BY NextRemembers DEF TypeInv, TypeOK
<1>1. ASSUME NEW s \in Subs, OpenCheckout(s) PROVE OwnerInv'
  BY <1>0, <1>1, OpenOwner
<1>2. ASSUME NEW s \in Subs, Pay(s) \/ Purchase(s) \/ PolarMoves(s) PROVE OwnerInv'
  BY <1>0, <1>2, NobodyGains, OwnerStays DEF Pay, Purchase, PolarMoves, till
<1>3. ASSUME NEW h \in Handlers, Deliver(h) \/ \E s \in Subs : Poll(h, s) PROVE OwnerInv'
  BY <1>3, DeliverOwner, PollOwner
<1>4. ASSUME ReconcileReads PROVE OwnerInv'
  BY <1>4, ReconcileOwner
<1>5. ASSUME NEW w \in Workers, Grant(w) PROVE OwnerInv'
  <2>1. job[w] # NoJob /\ job' = [job EXCEPT ![w].phase = "granted"]
        /\ UNCHANGED <<buyer, checkouts, polarVars, till>>
    BY <1>5 DEF Grant, At, rest, till
  <2>2. \A v \in Workers : job'[v] = job[v] \/ Fits(job'[v])
    BY <1>0, <2>1, MovesOn DEF OwnerInv, Fits, Phases
  <2>3. QED BY <1>5, <2>1, <2>2, NobodyGains, HoldersKept, JobsFit DEF OwnerInv
<1>6. ASSUME NEW w \in Workers, MarkGranted(w) \/ Fail(w) PROVE OwnerInv'
  BY <1>0, <1>6, NobodyGains, OwnerStays DEF MarkGranted, Fail, rest, till
<1>7. ASSUME NEW t \in Tenants, Terminate(t) \/ EndBilling(t) PROVE OwnerInv'
  BY <1>0, <1>7, NobodyGains, OwnerStays DEF Terminate, EndBilling, till
<1>8. CASE UNCHANGED vars
  BY <1>0, <1>8, NobodyGains, OwnerStays DEF vars, till
<1>9. QED
  BY <1>1, <1>2, <1>3, <1>4, <1>5, <1>6, <1>7, <1>8, OwnOwner, RecordOwner DEF Next, Apply

LEMMA OwnerInvInit == Init => OwnerInv
BY DEF Init, OwnerInv, PaidReachesBuyer

\* A subscription whose checkout we wrote down is held by the workspace that opened the
\* checkout, or by one whose own checkout's page took it: by nobody else, though any number of
\* workspaces, live or gone, share the customer at Polar.
THEOREM PaidIsBuyers == Spec => []PaidReachesBuyer
<1>1. OwnerInv => PaidReachesBuyer
  BY DEF OwnerInv
<1>2. TypeInv /\ OwnerInv /\ [Next]_vars => (TypeInv /\ OwnerInv)'
  BY TypeInvNext, OwnerInvNext
<1>3. QED BY <1>1, <1>2, TypeInvInit, OwnerInvInit, PTL DEF Spec

LEMMA TakenByPage ==
    ASSUME TypeInv, OwnerInv, [Next]_vars, NEW s \in Subs, Holders(s) = {buyer[s]},
           NEW t \in Holders(s)', t # buyer[s]
    PROVE  <<s, t>> \in strayed' /\ OlderCheckout(t, s)
<1>1. ASSUME NEW w \in Workers, Record(w)
      PROVE  <<s, t>> \in strayed' /\ OlderCheckout(t, s)
  <2>1. Fits(job[w])
    BY <1>1 DEF Record, At, OwnerInv
  <2>2. ~(Holders(s)' \subseteq Holders(s))
    OBVIOUS
  <2>3. /\ s = job[w].sub
        /\ Holders(s)' \subseteq Holders(s) \cup {job[w].tenant}
        /\ job[w].reassign \/ Holders(s) \subseteq {job[w].tenant}
        /\ job[w].reassign /\ job[w].tenant # buyer[s] => <<s, job[w].tenant>> \in strayed'
    BY <1>1, <2>2, RecordHolders
  <2>4. t = job[w].tenant
    BY <2>3
  <2>5. ~(Holders(s) \subseteq {job[w].tenant})
    BY <2>4
  <2>6. job[w].reassign
    BY <2>3, <2>5
  <2>7. QED BY <2>1, <2>3, <2>4, <2>6 DEF Fits
<1>2. QED BY <1>1, NobodyGains DEF Next, Apply

\* Once the workspace that bought a subscription holds it, only a checkout page takes it, for
\* a workspace that paid for a checkout opened before the subscription was born: never a
\* webhook, never the reconciler, and never the page of a younger checkout.
THEOREM OlderCheckoutsOnly == Spec => LostToOlderOnly
<1>1. TypeInv /\ OwnerInv /\ [Next]_vars => (TypeInv /\ OwnerInv)'
  BY TypeInvNext, OwnerInvNext
<1>2. TypeInv /\ OwnerInv /\ [Next]_vars =>
        [\A s \in Subs : Holders(s) = {buyer[s]} =>
           \A t \in Holders(s)' \ {buyer[s]} : <<s, t>> \in strayed' /\ OlderCheckout(t, s)]_vars
  BY TakenByPage
<1>3. QED BY <1>1, <1>2, TypeInvInit, OwnerInvInit, PTL DEF Spec, LostToOlderOnly
=============================================================================
