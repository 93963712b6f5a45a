----------------------------- MODULE SendQueue ------------------------------
(***************************************************************************)
(* One group of the groupmq send queue: the jobs of one tenant in one      *)
(* class.  groupmq itself is a library; what is modelled is what           *)
(* queue/send-queue.ts and the worker rely on.  A job is a prompt to look  *)
(* at some rows.  At most one job of a group runs at a time, under a lease *)
(* that is shorter than a claim; a job whose lease runs out while its      *)
(* handler is still alive is handed out again.  A job delayed with runAt   *)
(* may be promoted early, so a waiting job can always be delivered.        *)
(***************************************************************************)
EXTENDS SendTypes

VARIABLES
    batch,      \* the rows each job points at; {} is a free place
    runner      \* who holds the job's lease

queueVars == <<batch, runner>>

QueueTypeOK ==
    /\ batch \in [Jobs -> SUBSET Messages]
    /\ runner \in [Jobs -> Slots \cup {None}]

QueueInit ==
    /\ batch = [j \in Jobs |-> {}]
    /\ runner = [j \in Jobs |-> None]

\* A job of S under a name the queue has not seen.
Enqueue(S) ==
    \E j \in Jobs :
        /\ batch[j] = {}
        /\ batch' = [batch EXCEPT ![j] = S]
        /\ UNCHANGED runner

GroupIdle == \A j \in Jobs : runner[j] = None

Deliverable(j) == batch[j] # {} /\ GroupIdle

\* The handler returned before anything else could look at the job.
CompleteAtOnce(j) ==
    /\ batch' = [batch EXCEPT ![j] = {}]
    /\ UNCHANGED runner

Lease(j, w) ==
    /\ runner' = [runner EXCEPT ![j] = w]
    /\ UNCHANGED batch

\* Handler w returned: the job is complete if the lease is still w's.
Complete(w) ==
    /\ batch' = [j \in Jobs |-> IF runner[j] = w THEN {} ELSE batch[j]]
    /\ runner' = [j \in Jobs |-> IF runner[j] = w THEN None ELSE runner[j]]

\* Handler w threw: what it ran goes back, or is dead-lettered when its
\* attempts are used up.
GiveBack(w) ==
    /\ runner' = [j \in Jobs |-> IF runner[j] = w THEN None ELSE runner[j]]
    /\ \/ UNCHANGED batch
       \/ batch' = [j \in Jobs |-> IF runner[j] = w THEN {} ELSE batch[j]]

LeaseExpires(j) ==
    /\ runner[j] # None
    /\ GiveBack(runner[j])
=============================================================================
