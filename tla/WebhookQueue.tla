---------------------------- MODULE WebhookQueue ----------------------------
(***************************************************************************)
(* The endpoint's group in the two groupmq queues of the delivery engine.  *)
(* groupmq is a library; what is modelled is what queue/webhook-queue.ts   *)
(* and webhooks/engine.ts say of it and rely on:                           *)
(*                                                                         *)
(*   - a group runs one job at a time, lowest orderMs first, and a delayed *)
(*     job at the head holds the group;                                    *)
(*   - except that completing a job chains the next one of its group       *)
(*     without looking whether it is delayed;                              *)
(*   - a retry keeps the job's name and its place;                         *)
(*   - an add under a name that is in the queue, or that it remembers      *)
(*     completing, is dropped as a repeat;                                 *)
(*   - Redis may restart empty.                                            *)
(***************************************************************************)
EXTENDS WebhookTypes

VARIABLES
    jobs,       \* the jobs of each lane's queue
    runner,     \* who runs the group's active job
    chained,    \* the job at the head is handed over whatever its delay
    done        \* names of completed jobs the queue still remembers

queueVars == <<jobs, runner, chained, done>>

\* n is the row's `attempts` when the job was queued and tag what makes a
\* resend's name its own (0: none); ord is orderMs.
Job == [d : Deliveries, n : Nat, tag : Nat, ord : Nat,
        state : {"ready", "retry", "backoff", "active"}]
JobName == Deliveries \X Nat \X Nat

Name(j) == <<j.d, j.n, j.tag>>

QueueTypeOK ==
    /\ jobs \in [Lanes -> SUBSET Job]
    /\ runner \in [Lanes -> Slots \cup {None}]
    /\ chained \in [Lanes -> BOOLEAN]
    /\ done \in [Lanes -> SUBSET JobName]

QueueInit ==
    /\ jobs = [l \in Lanes |-> {}]
    /\ runner = [l \in Lanes |-> None]
    /\ chained = [l \in Lanes |-> FALSE]
    /\ done = [l \in Lanes |-> {}]

Repeated(l, j) == Name(j) \in done[l] \cup {Name(k) : k \in jobs[l]}

Enqueue(l, j) ==
    /\ jobs' = IF Repeated(l, j) THEN jobs ELSE [jobs EXCEPT ![l] = @ \cup {j}]
    /\ UNCHANGED <<runner, chained, done>>

AtHead(l, j) == j \in jobs[l] /\ \A k \in jobs[l] : j.ord <= k.ord

Deliverable(l, j) ==
    /\ runner[l] = None
    /\ AtHead(l, j)
    /\ j.state = "ready" \/ chained[l]

\* Job j of lane l becomes what `next` says: {} once it is complete.
Becomes(l, j, next) == jobs' = [jobs EXCEPT ![l] = (@ \ {j}) \cup next]

Hand(l, j, w) ==
    /\ Becomes(l, j, {[j EXCEPT !.state = "active"]})
    /\ runner' = [runner EXCEPT ![l] = w]
    /\ chained' = [chained EXCEPT ![l] = FALSE]
    /\ UNCHANGED done

CompleteJob(l, j) ==
    /\ Becomes(l, j, {})
    /\ runner' = [runner EXCEPT ![l] = None]
    /\ chained' = [chained EXCEPT ![l] = jobs[l] # {j}]
    /\ done' = [done EXCEPT ![l] = @ \cup {Name(j)}]

\* The handler threw: the job goes back in its group, delayed.
DelayJob(l, j, why) ==
    /\ Becomes(l, j, {[j EXCEPT !.state = why]})
    /\ runner' = [runner EXCEPT ![l] = None]
    /\ chained' = [chained EXCEPT ![l] = FALSE]
    /\ UNCHANGED done

\* What w asks for its job, which does nothing if the job is no longer w's.
Running(l, w, j) == runner[l] = w /\ j \in jobs[l] /\ j.state = "active"

Complete(l, w) ==
    \/ \E j \in jobs[l] : Running(l, w, j) /\ CompleteJob(l, j)
    \/ runner[l] # w /\ UNCHANGED queueVars

Delay(l, w, why) ==
    \/ \E j \in jobs[l] : Running(l, w, j) /\ DelayJob(l, j, why)
    \/ runner[l] # w /\ UNCHANGED queueVars

\* The active job is handed out again.
Stall(l) ==
    \E j \in jobs[l] : j.state = "active" /\ DelayJob(l, j, "ready")

Ripen(l, j) ==
    /\ j \in jobs[l]
    /\ j.state \in {"retry", "backoff"}
    /\ Becomes(l, j, {[j EXCEPT !.state = "ready"]})
    /\ UNCHANGED <<runner, chained, done>>

\* keepCompleted is bounded: a name is forgotten when enough others came after.
Forget(l) ==
    /\ \E name \in done[l] : done' = [done EXCEPT ![l] = @ \ {name}]
    /\ UNCHANGED <<jobs, runner, chained>>

LoseEverything ==
    /\ \E l \in Lanes : jobs[l] # {} \/ done[l] # {}
    /\ jobs' = [l \in Lanes |-> {}]
    /\ runner' = [l \in Lanes |-> None]
    /\ chained' = [l \in Lanes |-> FALSE]
    /\ done' = [l \in Lanes |-> {}]
=============================================================================
