------------------------ MODULE PolarSubscriptions ------------------------
(***************************************************************************)
(* Polar, the payment provider, as billing/ sees it: what it says of each  *)
(* subscription now, and every statement it ever sent as a webhook.        *)
(*                                                                         *)
(* A statement carries Polar's own clock, modified_at.  It may reach us    *)
(* late, twice, after a newer one, or not at all.  Polar never deletes a   *)
(* subscription and never revives an ended one.                            *)
(***************************************************************************)
EXTENDS Integers

CONSTANTS
    Subs,
    Paid,           \* the paid plans
    Free,           \* freePlanId
    NoSub,          \* a subscription that nobody has bought yet
    MaxChanges      \* BOUND: purchases and changes at Polar

VARIABLES
    polar,          \* the latest statement of each subscription
    sent,           \* every statement
    over,           \* subscriptions whose current_period_end has passed
    clock           \* Polar's clock

polarVars == <<polar, sent, over, clock>>

Plans == Paid \cup {Free}

\* ending: cancel_at_period_end.  born: created_at.
Statements == [sub : Subs, plan : Paid, live : BOOLEAN, ending : BOOLEAN,
               at : Nat, born : Nat]

ASSUME PolarAssumption ==
    /\ Free \notin Paid
    /\ NoSub \notin Subs \cup Statements
    /\ MaxChanges \in Nat

PolarTypeOK ==
    /\ polar \in [Subs -> Statements \cup {NoSub}]
    /\ sent \subseteq Statements
    /\ \A s \in Subs : polar[s] = NoSub \/ (polar[s] \in sent /\ polar[s].sub = s)
    /\ over \subseteq Subs
    /\ clock \in Nat

PolarInit ==
    /\ polar = [s \in Subs |-> NoSub]
    /\ sent = {}
    /\ over = {}
    /\ clock = 0

Bought(s) == polar[s] # NoSub

\* A live status, and not past the end date of an announced cancellation.
StillEntitles(e) == e.live /\ ~(e.ending /\ e.sub \in over)

EntitledPlan(e) == IF StillEntitles(e) THEN e.plan ELSE Free

\* Entitlement wins before recency.
Supersedes(e, f) ==
    IF (EntitledPlan(e) # Free) # (EntitledPlan(f) # Free)
    THEN EntitledPlan(e) # Free
    ELSE e.at > f.at

States(e) ==
    /\ polar' = [polar EXCEPT ![e.sub] = e]
    /\ sent' = sent \cup {e}
    /\ clock' = e.at
    /\ UNCHANGED over

\* A checkout that succeeded brings its subscription into being.
Buy(s, p) ==
    /\ ~Bought(s) /\ clock < MaxChanges
    /\ States([sub |-> s, plan |-> p, live |-> TRUE, ending |-> FALSE,
               at |-> clock + 1, born |-> clock + 1])

\* A cancellation, its withdrawal, a renewal, another product, a revocation; or
\* anything else that moves modified_at, of an ended subscription too.
Change(s) ==
    /\ Bought(s) /\ clock < MaxChanges
    /\ \E p \in Paid, l \in BOOLEAN, n \in BOOLEAN :
         /\ l => polar[s].live /\ ~(polar[s].ending /\ s \in over)
         /\ ~l => p = polar[s].plan /\ n = polar[s].ending
         /\ States([polar[s] EXCEPT !.plan = p, !.live = l, !.ending = n,
                                    !.at = clock + 1])

\* The end date of a cancellation passes; Polar says nothing.
PeriodEnds(s) ==
    /\ Bought(s) /\ s \notin over
    /\ polar[s].live /\ polar[s].ending
    /\ over' = over \cup {s}
    /\ UNCHANGED <<polar, sent, clock>>

\* Our call that ends a subscription now, or finds it ended.
RevokeSubscription(s) ==
    IF polar[s].live
    THEN States([polar[s] EXCEPT !.live = FALSE, !.at = clock + 1])
    ELSE UNCHANGED polarVars
=============================================================================
