------------------------- MODULE MCWebhookDelivery --------------------------
EXTENDS WebhookDelivery, TLC

CONSTANTS w1, w2

SlotSymmetry == Permutations(Slots)

\* BOUND: the endpoint's own state has stood still so far, so that what is
\* explored is how jobs, leases and rows go together.
EndpointStill == enabled /\ told = "nothing" /\ failing \in {"null", "recent"}

\* BOUND: at most one job is waiting to be queued, the queues hold two and
\* remember one.
SmallQueues ==
    /\ Cardinality(prompts) <= 1
    /\ Cardinality(jobs["ordered"]) + Cardinality(jobs["retry"]) <= 2
    /\ Cardinality(done["ordered"]) + Cardinality(done["retry"]) <= 1

\* Nothing is claimed of a delivery once it slipped, and it never unslips: what
\* comes after the only one's slip need not be explored.
NoSlip == slipped = {}
Unsent == \A d \in Deliveries : resends[d] = 0
OnlyOne == status[2] = "absent" /\ NoSlip /\ SmallQueues

\* One delivery, around pauses, switch-offs and resumes.
Alone == OnlyOne /\ Unsent
\* One delivery, also sent again by hand.
SentAgain == OnlyOne /\ EndpointStill

\* Two deliveries: only the first can be overtaken, and no more once it lost its
\* place, was moved aside or was answered: nothing after that need be explored.
FirstInLine ==
    /\ EndpointStill /\ NoSlip /\ SmallQueues
    /\ line[1] # "lost" /\ lane[1] = "ordered" /\ status[1] \in {"absent", "pending"}

\* BOUND: each lane's queue holds one job, nothing is lost or swept, and the two
\* deliveries meet at the endpoint because one of them is on the other lane.
SideBySide ==
    /\ SmallQueues
    /\ \A l \in Lanes : Cardinality(jobs[l]) <= 1
    /\ \A d \in Deliveries : nextAt[d] # "overdue" /\ line[d] # "lost"

Explored == Alone \/ SentAgain \/ (Unsent /\ (FirstInLine \/ SideBySide))
=============================================================================
