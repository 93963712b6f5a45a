-------------------------- MODULE MCSubscriptions --------------------------
EXTENDS Subscriptions

CONSTANTS s1, s2, t1, t2

\* Polar's clock once the revocations under way are made.
Due == clock + Cardinality({t \in Tenants : closing[t] # NoSub /\ polar[closing[t]].live})


Used == {s \in Subs : buyer[s] # Nobody}

\* The first checkout is s1 of t1.  Where every checkout has a row, nothing depends on whom
\* the customer names.
First ==
    /\ s1 \in Used => buyer[s1] = t1
    /\ s2 \in Used => s1 \in Used
    /\ status[t2] = "active"
Written == Used \subseteq checkouts /\ customer = t1

Calm == faults = 0 /\ over = {}
NoneEnding == \A e \in sent : ~e.ending

\* Five regions: one subscription, with a fault or a lapse and the end of the workspace; one
\* whose checkout has no row; a second one of the same workspace; those of two workspaces
\* that live or end beside each other; and, with a change more, that of the workspace which
\* follows one that ended.  No fair step leads out of a region, so a behaviour that is fair
\* within one is fair.
One == Used \subseteq {s1} /\ Written /\ (faults = 0 \/ NoneEnding)
Unwritten == Used \subseteq {s1} /\ checkouts = {} /\ Calm /\ NoneEnding /\ Due <= 2
Second == (s2 \in Used => buyer[s2] = t1 /\ Bought(s1)) /\ Due <= 3
SideBySide == buyer[s2] # t1 /\ Due <= 2
Heir ==
    /\ s2 \in Used =>
         buyer[s2] = t2 /\ status[t1] = "deleted" /\ opened[s2] = 3 /\ ~polar[s1].live
    /\ Due <= 3

Regions ==
    /\ First
    /\ \/ One
       \/ Unwritten
       \/ Written /\ Calm /\ NoneEnding /\ (Second \/ SideBySide \/ Heir)

\* One subscription of a workspace that lives, and nothing fails.
Plain == First /\ One /\ Calm /\ NoneEnding /\ status = [t \in Tenants |-> "active"]
=============================================================================
