--------------------------- MODULE Subscriptions ---------------------------
(***************************************************************************)
(* From what Polar states to the plan a tenant sends under.                *)
(*                                                                         *)
(*   attribute -> ownerOf -> record (the row) -> grantPlan -> markGranted  *)
(*                                                                         *)
(* Each arrow is a transaction of its own, and three callers go down it:   *)
(* the webhook handlers, the half-hourly reconciler, and the page that     *)
(* waits for a checkout.  The end of a workspace writes the same rows from *)
(* the side, and then ends the subscription at Polar.                      *)
(***************************************************************************)
EXTENDS PolarSubscriptions, FiniteSets

CONSTANTS
    Tenants,
    Handlers,       \* requests of the API, webhook or page
    Nobody, NoPlan, NoJob,
    MaxFaults       \* BOUND: failed calls and killed pods

\* The reconciler works through its tenants one after another: it is the worker
\* that bears the tenant's name.
Workers == Handlers \cup Tenants

VARIABLES
    buyer,          \* the tenant whose session opened the checkout, in its metadata
    product,        \* the plan it sells
    opened,         \* its created_at, before which nothing it makes is born
    paid,           \* the checkouts that succeeded
    checkouts,      \* core.polar_checkouts: the checkouts that have a row
    customer,       \* the external_id of the customer at Polar
    row,            \* core.subscriptions
    assigned,       \* core.plan_assignments: what the send path reads
    status,         \* core.tenants
    closing,        \* the subscription a termination has still to revoke
    job,            \* what each worker is applying
    slipped,        \* history: see Record
    strayed,        \* history: <<s, t>>, a page of t's took s that t had not bought
    faults          \* history: what went wrong so far

\* A subscription is named like the checkout that makes it.
till == <<buyer, product, opened, paid, checkouts>>
history == <<slipped, strayed>>

vars == <<polarVars, till, customer, row, assigned, status, closing, job, history, faults>>

Rows == [sub : Subs, at : Nat, granted : Plans \cup {NoPlan}]
NoRow == [sub |-> NoSub, at |-> 0, granted |-> NoPlan]
Phases == {"attributed", "owned", "recorded", "granted"}
Jobs == [phase : Phases, tenant : Tenants, sub : Subs, plan : Plans, at : Nat,
         reassign : BOOLEAN]

ASSUME SubscriptionsAssumption ==
    /\ Handlers \cap Tenants = {}
    /\ Nobody \notin Tenants
    /\ NoPlan \notin Plans
    /\ NoJob \notin Jobs
    /\ MaxFaults \in Nat

\* One subscription belongs to one tenant.
TypeOK ==
    /\ PolarTypeOK
    /\ buyer \in [Subs -> Tenants \cup {Nobody}]
    /\ product \in [Subs -> Paid \cup {NoPlan}]
    /\ opened \in [Subs -> Nat]
    /\ paid \subseteq Subs
    /\ checkouts \subseteq Subs
    /\ customer \in Tenants \cup {Nobody}
    /\ row \in [Tenants -> Rows \cup {NoRow}]
    /\ \A t, u \in Tenants : t # u /\ row[t].sub = row[u].sub => row[t] = NoRow
    /\ assigned \in [Tenants -> Plans]
    /\ status \in [Tenants -> {"active", "deleted"}]
    /\ closing \in [Tenants -> Subs \cup {NoSub}]
    /\ job \in [Workers -> Jobs \cup {NoJob}]
    /\ slipped \in [Tenants -> BOOLEAN]
    /\ strayed \subseteq Subs \X Tenants
    /\ faults \in 0..MaxFaults

\* Provisioned tenants hold the free plan.  The person's customer at Polar may be an old
\* one, which names for ever the tenant it was made for.
Init ==
    /\ PolarInit
    /\ buyer = [s \in Subs |-> Nobody]
    /\ product = [s \in Subs |-> NoPlan]
    /\ opened = [s \in Subs |-> 0]
    /\ paid = {}
    /\ checkouts = {}
    /\ customer \in Tenants \cup {Nobody}
    /\ row = [t \in Tenants |-> NoRow]
    /\ assigned = [t \in Tenants |-> Free]
    /\ status = [t \in Tenants |-> "active"]
    /\ closing = [t \in Tenants |-> NoSub]
    /\ job = [w \in Workers |-> NoJob]
    /\ slipped = [t \in Tenants |-> FALSE]
    /\ strayed = {}
    /\ faults = 0

-----------------------------------------------------------------------------
(* Whose subscription *)

Holders(s) == {t \in Tenants : row[t].sub = s}

\* All is bought by one person, for one tenant or another.
ExternalId == {customer} \ {Nobody}

\* A bug: Polar's field before the checkout we wrote.
AttributedByPolar(s) == IF Holders(s) # {} THEN Holders(s) ELSE ExternalId

\* The holder, else the checkout we wrote, else Polar's field; one tenant or none.
Attributed(s) ==
    IF Holders(s) # {} THEN Holders(s)
    ELSE IF s \in checkouts THEN {buyer[s]}
    ELSE ExternalId

\* The checkout's row is written before the customer can pay, if the write does not fail.
OpenCheckout(s) ==
    /\ buyer[s] = Nobody
    /\ \E t \in Tenants, p \in Paid :
         /\ status[t] = "active"
         /\ buyer' = [buyer EXCEPT ![s] = t]
         /\ product' = [product EXCEPT ![s] = p]
    /\ opened' = [opened EXCEPT ![s] = clock + 1]
    /\ checkouts' \in {checkouts, checkouts \cup {s}}
    /\ UNCHANGED <<polarVars, paid, customer, row, assigned, status, closing, job, history, faults>>

Pay(s) ==
    /\ buyer[s] # Nobody /\ s \notin paid
    /\ paid' = paid \cup {s}
    /\ UNCHANGED <<polarVars, buyer, product, opened, checkouts, customer, row, assigned,
                   status, closing, job, history, faults>>

\* Polar makes the subscription a moment after the checkout succeeded.
Purchase(s) ==
    /\ s \in paid
    /\ Buy(s, product[s])
    /\ UNCHANGED <<till, customer, row, assigned, status, closing, job, history, faults>>

PolarMoves(s) ==
    /\ Change(s) \/ PeriodEnds(s)
    /\ UNCHANGED <<till, customer, row, assigned, status, closing, job, history, faults>>

-----------------------------------------------------------------------------
(* The three callers *)

NewJob(phase, t, e, reassign) ==
    [phase |-> phase, tenant |-> t, sub |-> e.sub, plan |-> EntitledPlan(e),
     at |-> e.at, reassign |-> reassign]

rest == <<polarVars, till, customer, status, closing, faults>>

\* A webhook of Polar's arrives, for the first time or again.
Deliver(h) ==
    /\ job[h] = NoJob
    /\ \E e \in sent : \E t \in Attributed(e.sub) :
         job' = [job EXCEPT ![h] = NewJob("attributed", t, e, FALSE)]
    /\ UNCHANGED <<rest, row, assigned, history>>

\* What Polar's list and our rows say of t now.
Mine(t) == {s \in Subs : Bought(s) /\ t \in Attributed(s)}
Deciding(t) == polar[CHOOSE s \in Mine(t) :
                       \A o \in Mine(t) \ {s} : Supersedes(polar[s], polar[o])]
Owed(t) == EntitledPlan(Deciding(t))

OutOfStep(t) ==
    \/ row[t].at < Deciding(t).at      \* or there is no row
    \/ row[t].granted # Owed(t)

Agrees(t) == Mine(t) # {} /\ ~OutOfStep(t)

\* A run of the reconciler lists Polar's subscriptions and our rows.
ReconcileReads ==
    /\ \A t \in Tenants : job[t] = NoJob
    /\ \E t \in Tenants : Mine(t) # {} /\ OutOfStep(t)
    /\ job' = [w \in Workers |->
                 IF w \in Tenants /\ Mine(w) # {} /\ OutOfStep(w)
                 THEN NewJob("attributed", w, Deciding(w), FALSE) ELSE job[w]]
    /\ UNCHANGED <<rest, row, assigned, history>>

\* Of the product that a checkout sells.  To take these would be a bug: there is no floor.
OfProduct(s) == {o \in Subs : Bought(o) /\ polar[o].plan = product[s]}

\* What the page of a checkout may take for the checkout's own: no older than the checkout.
Matches(s) == {o \in OfProduct(s) : polar[o].born >= opened[s]}

\* The page of a checkout that succeeded, whose workspace was never granted a plan that its
\* row remembers.  It stamps a customer that names nobody, or fails to, and takes the newest
\* match, if there is one and the last attempt is 5 seconds old.  It asks for no session,
\* and whether the checkout's workspace still lives is nothing it looks at.
Poll(h, s) ==
    /\ job[h] = NoJob
    /\ s \in paid /\ row[buyer[s]].granted = NoPlan
    /\ customer' \in {customer} \cup (IF customer = Nobody THEN {buyer[s]} ELSE {})
    /\ \/ UNCHANGED job
       \/ \E o \in Matches(s) :
            /\ \A p \in Matches(s) : polar[p].born <= polar[o].born
            /\ job' = [job EXCEPT ![h] = NewJob("owned", buyer[s], polar[o], TRUE)]
    /\ UNCHANGED <<polarVars, till, row, assigned, status, closing, history, faults>>

-----------------------------------------------------------------------------
(* SubscriptionGrants.apply *)

\* Between its row and its mark.
Applying(t) == {w \in Workers : job[w] # NoJob /\ job[w].tenant = t
                                  /\ job[w].phase \in {"recorded", "granted"}}

At(w, phase) == job[w] # NoJob /\ job[w].phase = phase

\* One tenant of a reconciler's run at a time.
InTurn(w) == w \in Tenants =>
    \A t \in Tenants \ {w} : job[t] = NoJob \/ At(t, "attributed")

\* The tenant that already holds the subscription wins.
Own(w) ==
    /\ At(w, "attributed") /\ InTurn(w)
    /\ LET held == Holders(job[w].sub) IN
         job' = [job EXCEPT ![w].phase = "owned",
                            ![w].tenant = IF held = {} THEN @
                                          ELSE CHOOSE t \in held : TRUE]
    /\ UNCHANGED <<rest, row, assigned, history>>

\* A bug: a redelivery of what the row already says is stale, granted or not.
AcceptsNewerOnly(r, j) == r.at < j.at

\* The guard of the upsert.
Accepts(r, j) ==
    \/ r.at < j.at
    \/ r.at = j.at /\ r.granted # j.plan

\* release_subscription, in the same transaction.
Released(j) ==
    [t \in Tenants |-> IF j.reassign /\ t # j.tenant /\ t \in Holders(j.sub)
                       THEN NoRow ELSE row[t]]

\* A bug: a table without that key.
ClashesNever(j) == FALSE

\* The unique key on polar_subscription_id refuses the row: the call throws.
Clashes(j) == ~j.reassign /\ Holders(j.sub) \ {j.tenant} # {}

Upserted(j) ==
    [Released(j) EXCEPT ![j.tenant] =
                     [sub |-> j.sub, at |-> j.at, granted |-> @.granted]]

\* Slips: two applications of one tenant overlap, or the mark of a grant is lost.
\* Until the next grant that nothing overlaps.
Record(w) ==
    /\ At(w, "owned")
    /\ LET j == job[w] IN
         IF ~Accepts(row[j.tenant], j)
         THEN /\ row' = Released(j)
              /\ job' = [job EXCEPT ![w] = NoJob]
              /\ UNCHANGED history
         ELSE IF Clashes(j)
         THEN /\ job' = [job EXCEPT ![w] = NoJob]
              /\ UNCHANGED <<row, history>>
         ELSE /\ row' = Upserted(j)
              /\ job' = [job EXCEPT ![w].phase = "recorded"]
              /\ slipped' = [slipped EXCEPT ![j.tenant] = @ \/ Applying(j.tenant) # {}]
              /\ strayed' = strayed \cup (IF j.reassign /\ j.tenant # buyer[j.sub]
                                         THEN {<<j.sub, j.tenant>>} ELSE {})
    /\ UNCHANGED <<rest, assigned>>

Grant(w) ==
    /\ At(w, "recorded")
    /\ LET j == job[w] IN
         /\ assigned' = [assigned EXCEPT ![j.tenant] = j.plan]
         /\ job' = [job EXCEPT ![w].phase = "granted"]
         /\ slipped' = [slipped EXCEPT ![j.tenant] = @ /\ ~(Applying(j.tenant) = {w} /\ row[j.tenant].at = j.at)]
    /\ UNCHANGED <<rest, row, strayed>>

MarkGranted(w) ==
    /\ At(w, "granted")
    /\ LET j == job[w] IN
         /\ row' = [row EXCEPT ![j.tenant].granted =
                      IF row[j.tenant].at = j.at THEN j.plan ELSE @]
         /\ job' = [job EXCEPT ![w] = NoJob]
    /\ UNCHANGED <<rest, assigned, history>>

\* A call of apply throws, or the pod is killed.
Fail(w) ==
    /\ job[w] # NoJob
    /\ faults < MaxFaults /\ faults' = faults + 1
    /\ slipped' = [slipped EXCEPT ![job[w].tenant] = @ \/ At(w, "granted")]
    /\ job' = [job EXCEPT ![w] = NoJob]
    /\ UNCHANGED <<polarVars, till, customer, row, assigned, status, closing, strayed>>

-----------------------------------------------------------------------------
(* The end of a workspace *)

\* A bug: the row goes on saying what was granted.
FreedButUnmarked(t) ==
    /\ assigned' = [assigned EXCEPT ![t] = Free]
    /\ UNCHANGED row

\* core.terminate_tenant moves the plan and the row's mark together.
Freed(t) ==
    /\ assigned' = [assigned EXCEPT ![t] = Free]
    /\ row' = [row EXCEPT ![t] = IF @ = NoRow THEN @ ELSE [@ EXCEPT !.granted = Free]]

\* Clerk says that the organization is gone; Svix may say it again.
Terminate(t) ==
    /\ Freed(t)
    /\ status' = [status EXCEPT ![t] = "deleted"]
    /\ closing' = [closing EXCEPT ![t] = row[t].sub]
    /\ slipped' = [slipped EXCEPT ![t] = @ \/ Applying(t) # {}]
    /\ UNCHANGED <<polarVars, till, customer, job, strayed, faults>>

\* Then the subscription is ended at Polar, or the call fails and the event is
\* answered with a 500.
EndBilling(t) ==
    /\ closing[t] # NoSub
    /\ \/ RevokeSubscription(closing[t]) /\ UNCHANGED faults
       \/ /\ faults < MaxFaults /\ faults' = faults + 1
          /\ UNCHANGED polarVars
    /\ closing' = [closing EXCEPT ![t] = NoSub]
    /\ UNCHANGED <<till, customer, row, assigned, status, job, history>>

-----------------------------------------------------------------------------
Apply(w) == Own(w) \/ Record(w) \/ Grant(w) \/ MarkGranted(w)

Next ==
    \/ \E s \in Subs : OpenCheckout(s) \/ Pay(s) \/ Purchase(s) \/ PolarMoves(s)
    \/ \E h \in Handlers : Deliver(h) \/ \E s \in Subs : Poll(h, s)
    \/ ReconcileReads
    \/ \E w \in Workers : Apply(w) \/ Fail(w)
    \/ \E t \in Tenants : Terminate(t) \/ EndBilling(t)

\* What was begun goes on, and the reconciler runs every half hour.  Nothing says
\* that a webhook arrives or that a page is open.
Fairness ==
    /\ \A w \in Workers : WF_vars(Apply(w))
    /\ \A t \in Tenants : WF_vars(EndBilling(t))
    /\ WF_vars(ReconcileReads)

Spec == Init /\ [][Next]_vars /\ Fairness

-----------------------------------------------------------------------------
(* What is promised *)

\* Once nothing is being applied to a tenant, what the row says was granted is what
\* the send path reads, unless two applications overlapped or a mark was lost.  The
\* reconciler compares with the row alone (billing/reconcile.ts).
RowTellsPlan ==
    \A t \in Tenants :
      Applying(t) = {} /\ row[t].granted # NoPlan /\ ~slipped[t]
        => assigned[t] = row[t].granted

\* Where the reconciler agrees, the tenant sends under the plan Polar states.
AgreedIsOwed ==
    \A t \in Tenants : Applying(t) = {} /\ Agrees(t) => assigned[t] = Owed(t)

\* A subscription whose checkout has a row is held only by the workspace that opened that
\* checkout, whatever Polar's customer says (billing/attribution.ts); or by one whose own
\* checkout's page once took it (strayed).  Any number of workspaces may share the customer.
PaidReachesBuyer ==
    \A s \in checkouts : \A t \in Holders(s) : t = buyer[s] \/ <<s, t>> \in strayed

\* t paid for a checkout that is no younger than s.
OlderCheckout(t, s) == \E o \in paid : buyer[o] = t /\ opened[o] <= polar[s].born

\* Once the workspace that bought a subscription holds it, no webhook and no reconciler gives
\* it to another.  Only a checkout page takes it, for a workspace that paid for a checkout
\* opened before the subscription was born: of that much the floor is the guarantee
\* (billing/events.ts:471-479), and of no more.
LostToOlderOnly ==
    [][\A s \in Subs : Holders(s) = {buyer[s]} =>
         \A t \in Holders(s)' \ {buyer[s]} : <<s, t>> \in strayed' /\ OlderCheckout(t, s)]_vars

\* The row holds another subscription with a later event: what decides is refused.
Buried(t) == row[t].at > Deciding(t).at

\* Two pages may take a subscription from each other for as long as both are open, which
\* is 90 seconds.
PagesClose == <>[][\A h \in Handlers, s \in Subs : ~Poll(h, s)]_vars

\* Once Polar rests and the pages are closed, every tenant that a subscription is attributed
\* to sends under the plan it is owed, webhooks or none; unless an ended subscription's later
\* event holds the row, or the row says what an overlapped or unmarked grant did not do.
EventuallyEntitled ==
    PagesClose => \A t \in Tenants :
      <>[](Mine(t) # {} => \/ assigned[t] = Owed(t)
                           \/ Buried(t)
                           \/ slipped[t] /\ Agrees(t))
=============================================================================
