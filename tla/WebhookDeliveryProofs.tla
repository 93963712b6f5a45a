----------------------- MODULE WebhookDeliveryProofs -----------------------
(***************************************************************************)
(* Proofs about webhook delivery, for any number of deliveries, handlers,  *)
(* gaps of the retry policy, resends and jobs.                             *)
(***************************************************************************)
EXTENDS WebhookDelivery, TLAPS

-----------------------------------------------------------------------------
(* The invariants                                                          *)

Working(w, d) == stage[w] # "idle" /\ task[w].d = d
Holding(w, d) == stage[w] \in Held /\ task[w].d = d
Answered(w, d) == stage[w] \in {"ok", "bad", "gone"} /\ task[w].d = d

TypeInv == TypeOK /\ \A w \in Slots : stage[w] # "idle" => task[w] \in Task

\* Nothing is known of a delivery before its row is there.
AbsentInv ==
    \A d \in Deliveries : status[d] = "absent" =>
      /\ tries[d] = 0 /\ accepted[d] = 0 /\ line[d] = "out"
      /\ \A w \in Slots : ~Working(w, d)
      /\ \A p \in prompts : p.d # d
      /\ \A l \in Lanes : \A j \in jobs[l] : j.d # d

\* The lease is a lock: until the delivery slips one handler has it, and what that
\* read of the row still stands.
LeaseInv ==
    \A d \in Deliveries \ slipped :
      /\ \A w \in Slots : Holding(w, d) =>
           /\ d \in leased /\ status[d] = "pending"
           /\ task[w].attempts = attempts[d] /\ task[w].home = lane[d]
      /\ \A w, v \in Slots : Holding(w, d) /\ Holding(v, d) => w = v

\* What the endpoint accepted, and what is known of it.
OutcomeInv ==
    \A d \in Deliveries \ slipped :
      /\ status[d] = "delivered" => accepted[d] = 1
      /\ status[d] = "failed" => accepted[d] = 0
      /\ \A w \in Slots : Holding(w, d) /\ stage[w] = "ok" => accepted[d] = 1
      /\ status[d] = "pending" =>
           accepted[d] = 0 \/ \E w \in Slots : Holding(w, d) /\ stage[w] = "ok"

\* The attempts since a resend are counted by the row as well.
BudgetInv ==
    \A d \in Deliveries \ slipped :
      /\ tries[d] <= Gaps + 1
      /\ \A w \in Slots : Answered(w, d) => tries[d] <= attempts[d] + 1
      /\ status[d] = "pending" =>
           \/ tries[d] <= Gaps /\ tries[d] <= attempts[d]
           \/ \E w \in Slots : Answered(w, d)

\* A group runs one job, which is its runner's unless the job was handed on.
QueueInv ==
    \A l \in Lanes :
      /\ \A j, k \in jobs[l] : j.state = "active" /\ k.state = "active" => j = k
      /\ \A j \in jobs[l] : j.state = "active" => runner[l] # None
      /\ \A w \in Slots : stage[w] # "idle" /\ task[w].lane = l /\ runner[l] = w =>
           \E j \in jobs[l] : j.state = "active" /\ j.d = task[w].d

\* The ordered queue knows only deliveries that have their place in the line.
LineInv ==
    /\ \A j \in jobs["ordered"] : line[j.d] # "out" /\ (j.tag = 0 => j.ord = j.d)
    /\ \A name \in done["ordered"] : line[name[1]] # "out"
    /\ \A w \in Slots : stage[w] # "idle" /\ task[w].lane = "ordered"
         => line[task[w].d] # "out"

\* Everything about a delivery that is still on the ordered lane is on that lane.
LaneInv ==
    \A d \in Deliveries \ slipped : lane[d] = "ordered" =>
      /\ \A p \in prompts : p.d = d => p.lane = "ordered" /\ p.tag = 0
      /\ \A j \in jobs["retry"] : j.d # d
      /\ \A j \in jobs["ordered"] : j.d = d => j.tag = 0
      /\ \A w \in Slots : Working(w, d) =>
           /\ task[w].lane = "ordered" /\ task[w].tag = 0 /\ stage[w] # "move"
           /\ stage[w] = "finish" => status[d] \in {"delivered", "failed"}
      /\ line[d] = "out" => nextAt[d] # "later" /\ d \notin leased

\* A delivery waiting in its place has a job there; one whose time has not come has
\* one that waits for it, or is about to; a lease on it is held; who works on it is the
\* one the queue runs.
InPlace(d) ==
    d \notin slipped /\ line[d] = "in" /\ status[d] = "pending" /\ lane[d] = "ordered"
Waits(d, j) ==
    /\ j.d = d
    /\ \/ j.state = "retry"
       \/ j.state = "active" /\ \E w \in Slots : stage[w] = "retry" /\ task[w].d = d
HasPlace(d) ==
    /\ \E j \in jobs["ordered"] : j.d = d
    /\ nextAt[d] = "later" => \E j \in jobs["ordered"] : Waits(d, j)
    /\ d \in leased => \E w \in Slots : Holding(w, d)
    /\ \A w \in Slots : Working(w, d) => runner["ordered"] = w
PlaceInv == \A d \in Deliveries : InPlace(d) => HasPlace(d)

-----------------------------------------------------------------------------
(* The steps                                                               *)

USE DEF Lanes, Stages, Held, rowVars, endpointVars, queueVars, historyVars

JobStates == {"ready", "retry", "backoff", "active"}

\* A job that changes its state keeps its name and its place.
LEMMA JobStays ==
  ASSUME NEW j \in Job, NEW s \in JobStates
  PROVE  /\ [j EXCEPT !.state = s] \in Job
         /\ [j EXCEPT !.state = s].d = j.d /\ [j EXCEPT !.state = s].n = j.n
         /\ [j EXCEPT !.state = s].tag = j.tag /\ [j EXCEPT !.state = s].ord = j.ord
         /\ [j EXCEPT !.state = s].state = s
BY DEF Job, JobStates

\* What is done to a job of a queue leaves the queues well typed.
LEMMA JobOps ==
  ASSUME QueueTypeOK, NEW l \in Lanes, NEW j \in jobs[l]
  PROVE  /\ \A s \in JobStates : DelayJob(l, j, s) => QueueTypeOK'
         /\ CompleteJob(l, j) => QueueTypeOK'
         /\ \A w \in Slots : Hand(l, j, w) => QueueTypeOK'
         /\ Ripen(l, j) => QueueTypeOK'
<1>. USE DEF QueueTypeOK
<1>1. j \in Job
  OBVIOUS
<1>2. \A s \in JobStates : [j EXCEPT !.state = s] \in Job
  BY <1>1, JobStays
<1>3. "ready" \in JobStates /\ "active" \in JobStates
  BY DEF JobStates
<1>4. Name(j) \in JobName
  BY <1>1 DEF Name, JobName, Job
<1>5. ASSUME NEW s \in JobStates, DelayJob(l, j, s) PROVE QueueTypeOK'
  BY <1>2, <1>5 DEF DelayJob, Becomes
<1>6. ASSUME CompleteJob(l, j) PROVE QueueTypeOK'
  BY <1>4, <1>6 DEF CompleteJob, Becomes
<1>7. ASSUME NEW w \in Slots, Hand(l, j, w) PROVE QueueTypeOK'
  BY <1>2, <1>3, <1>7 DEF Hand, Becomes
<1>8. ASSUME Ripen(l, j) PROVE QueueTypeOK'
  BY <1>2, <1>3, <1>8 DEF Ripen, Becomes
<1>. QED  BY <1>5, <1>6, <1>7, <1>8

\* What a handler asks for its job.
LEMMA HandlerOps ==
  ASSUME QueueTypeOK, NEW l \in Lanes, NEW w
  PROVE  /\ \A s \in JobStates : Delay(l, w, s) => QueueTypeOK'
         /\ Complete(l, w) => QueueTypeOK'
<1>1. ASSUME NEW s \in JobStates, Delay(l, w, s) PROVE QueueTypeOK'
  <2>1. CASE UNCHANGED queueVars
    BY <2>1 DEF QueueTypeOK
  <2>2. CASE \E j \in jobs[l] : DelayJob(l, j, s)
    BY <2>2, JobOps
  <2>. QED  BY <1>1, <2>1, <2>2 DEF Delay
<1>2. ASSUME Complete(l, w) PROVE QueueTypeOK'
  <2>1. CASE UNCHANGED queueVars
    BY <2>1 DEF QueueTypeOK
  <2>2. CASE \E j \in jobs[l] : CompleteJob(l, j)
    BY <2>2, JobOps
  <2>. QED  BY <1>2, <2>1, <2>2 DEF Complete
<1>. QED  BY <1>1, <1>2

\* Job j of lane l is now in state s, or is complete; l's job is r's.
Moved(l, j, s) ==
    /\ \E k \in Job :
          /\ k.d = j.d /\ k.n = j.n /\ k.tag = j.tag /\ k.ord = j.ord /\ k.state = s
          /\ jobs'[l] = (jobs[l] \ {j}) \cup {k}
    /\ \A m \in Lanes \ {l} : jobs'[m] = jobs[m]
Left(l, j) ==
    /\ jobs'[l] = jobs[l] \ {j}
    /\ \A m \in Lanes \ {l} : jobs'[m] = jobs[m]
Runs(l, r) ==
    /\ runner'[l] = r
    /\ \A m \in Lanes \ {l} : runner'[m] = runner[m]
Known(l, j) ==
    \A m \in Lanes : \A name \in done'[m] : name \in done[m] \/ (m = l /\ name[1] = j.d)

LEMMA JobMoves ==
  ASSUME QueueTypeOK, NEW l \in Lanes, NEW j \in jobs[l]
  PROVE  /\ \A s \in JobStates : DelayJob(l, j, s) => Moved(l, j, s) /\ Runs(l, None) /\ done' = done
         /\ CompleteJob(l, j) => Left(l, j) /\ Runs(l, None) /\ Known(l, j)
         /\ \A w \in Slots : Hand(l, j, w) => Moved(l, j, "active") /\ Runs(l, w) /\ done' = done
         /\ Ripen(l, j) => Moved(l, j, "ready") /\ runner' = runner /\ done' = done
<1>0. j \in Job /\ jobs \in [Lanes -> SUBSET Job] /\ runner \in [Lanes -> Slots \cup {None}]
      /\ done \in [Lanes -> SUBSET JobName]
  BY DEF QueueTypeOK
<1>1. ASSUME NEW s \in JobStates, Becomes(l, j, {[j EXCEPT !.state = s]})
      PROVE  Moved(l, j, s)
  <2>. DEFINE k == [j EXCEPT !.state = s]
  <2>1. /\ k \in Job /\ k.d = j.d /\ k.n = j.n /\ k.tag = j.tag /\ k.ord = j.ord /\ k.state = s
    BY <1>0, JobStays
  <2>2. jobs' = [jobs EXCEPT ![l] = (jobs[l] \ {j}) \cup {k}]
    BY <1>1 DEF Becomes
  <2>. HIDE DEF k
  <2>3. /\ jobs'[l] = (jobs[l] \ {j}) \cup {k}
        /\ \A m \in Lanes \ {l} : jobs'[m] = jobs[m]
    BY <1>0, <2>2
  <2>. QED  BY <2>1, <2>3 DEF Moved
<1>2. "ready" \in JobStates /\ "active" \in JobStates
  BY DEF JobStates
<1>3. ASSUME NEW s \in JobStates, DelayJob(l, j, s)
      PROVE  Moved(l, j, s) /\ Runs(l, None) /\ done' = done
  BY <1>0, <1>1, <1>3 DEF DelayJob, Runs
<1>4. ASSUME CompleteJob(l, j) PROVE Left(l, j) /\ Runs(l, None) /\ Known(l, j)
  <2>1. Left(l, j) /\ Runs(l, None)
    BY <1>0, <1>4 DEF CompleteJob, Becomes, Left, Runs
  <2>2. done' = [done EXCEPT ![l] = done[l] \cup {Name(j)}] /\ Name(j)[1] = j.d
    BY <1>4 DEF CompleteJob, Name
  <2>3. Known(l, j)
    BY <1>0, <2>2 DEF Known
  <2>. QED  BY <2>1, <2>3
<1>5. ASSUME NEW w \in Slots, Hand(l, j, w)
      PROVE  Moved(l, j, "active") /\ Runs(l, w) /\ done' = done
  BY <1>0, <1>1, <1>2, <1>5 DEF Hand, Runs
<1>6. ASSUME Ripen(l, j) PROVE Moved(l, j, "ready") /\ runner' = runner /\ done' = done
  BY <1>1, <1>2, <1>6 DEF Ripen
<1>. QED  BY <1>3, <1>4, <1>5, <1>6

\* The same for what a handler asks.
Delayed(l, w, s) ==
    \/ runner[l] # w /\ UNCHANGED <<jobs, runner, done>>
    \/ \E j \in jobs[l] : Running(l, w, j) /\ Moved(l, j, s) /\ Runs(l, None) /\ done' = done
Completed(l, w) ==
    \/ runner[l] # w /\ UNCHANGED <<jobs, runner, done>>
    \/ \E j \in jobs[l] : Running(l, w, j) /\ Left(l, j) /\ Runs(l, None) /\ Known(l, j)

LEMMA HandlerMoves ==
  ASSUME QueueTypeOK, NEW l \in Lanes, NEW w
  PROVE  /\ \A s \in JobStates : Delay(l, w, s) => Delayed(l, w, s)
         /\ Complete(l, w) => Completed(l, w)
<1>1. ASSUME NEW s \in JobStates, Delay(l, w, s) PROVE Delayed(l, w, s)
  BY <1>1, JobMoves DEF Delay, Delayed
<1>2. ASSUME Complete(l, w) PROVE Completed(l, w)
  BY <1>2, JobMoves DEF Complete, Completed
<1>. QED  BY <1>1, <1>2

\* A job that is new to a queue is put there, under a name that is not known.
LEMMA Enqueued ==
  ASSUME QueueTypeOK, NEW l \in Lanes, NEW j, Enqueue(l, j)
  PROVE  /\ \/ jobs'[l] = jobs[l] \cup {j}
            \/ jobs'[l] = jobs[l] /\ Repeated(l, j)
         /\ \A m \in Lanes \ {l} : jobs'[m] = jobs[m]
         /\ runner' = runner /\ done' = done
BY DEF QueueTypeOK, Enqueue

\* A row's time comes: the retries it has in the queues ripen with it.
LEMMA RowDueMoves ==
  ASSUME QueueTypeOK, NEW d \in Deliveries, RowDue(d)
  PROVE  \A l \in Lanes :
           /\ \A j \in jobs'[l] : \E k \in jobs[l] :
                /\ j = k \/ k.d = d
                /\ j.d = k.d /\ j.n = k.n /\ j.tag = k.tag /\ j.ord = k.ord
                /\ j.state = "active" => j = k
           /\ \A k \in jobs[l] : \E j \in jobs'[l] :
                /\ j.d = k.d /\ (k.d # d \/ k.state = "active" => j = k)
<1> SUFFICES ASSUME NEW l \in Lanes
             PROVE  /\ \A j \in jobs'[l] : \E k \in jobs[l] :
                         /\ j = k \/ k.d = d
                         /\ j.d = k.d /\ j.n = k.n /\ j.tag = k.tag /\ j.ord = k.ord
                         /\ j.state = "active" => j = k
                    /\ \A k \in jobs[l] : \E j \in jobs'[l] :
                         /\ j.d = k.d /\ (k.d # d \/ k.state = "active" => j = k)
  OBVIOUS
<1>. DEFINE Image(j) == IF j.d = d /\ j.state = "retry" THEN [j EXCEPT !.state = "backoff"] ELSE j
<1>1. jobs'[l] = {Image(j) : j \in jobs[l]}
  BY DEF RowDue
<1>2. \A j \in jobs[l] : /\ Image(j) = j \/ j.d = d
                         /\ Image(j).d = j.d /\ Image(j).n = j.n /\ Image(j).tag = j.tag
                         /\ Image(j).ord = j.ord
                         /\ Image(j).state = "active" => Image(j) = j
                         /\ j.d # d \/ j.state = "active" => Image(j) = j
  <2> SUFFICES ASSUME NEW j \in jobs[l]
               PROVE  /\ Image(j) = j \/ j.d = d
                      /\ Image(j).d = j.d /\ Image(j).n = j.n /\ Image(j).tag = j.tag
                      /\ Image(j).ord = j.ord
                      /\ Image(j).state = "active" => Image(j) = j
                      /\ j.d # d \/ j.state = "active" => Image(j) = j
    OBVIOUS
  <2>1. j \in Job
    BY DEF QueueTypeOK
  <2>2. "backoff" \in JobStates
    BY DEF JobStates
  <2>. QED  BY <2>1, <2>2, JobStays
<1>. HIDE DEF Image
<1>. QED  BY <1>1, <1>2

LEMMA EnqueueOp ==
  ASSUME QueueTypeOK, NEW l \in Lanes, NEW j \in Job, Enqueue(l, j)
  PROVE  QueueTypeOK'
BY DEF QueueTypeOK, Enqueue

\* Every step keeps rows, queues, handlers and the history well typed.
LEMMA TypeStep ==
  ASSUME TypeInv, [Next]_vars
  PROVE  TypeInv'
<1>. USE DeliveriesAssumption, GapsAssumption, ResendsAssumption, NoSlotAssumption
<1>. USE DEF TypeInv, TypeOK, StoreTypeOK, QueueTypeOK
<1>1. ASSUME NEW d \in Deliveries, RecordEvent(d) \/ SweepRead(d)
      PROVE  TypeInv'
  <2>1. /\ [lane |-> "ordered", d |-> d, n |-> 0, tag |-> 0] \in Prompt
        /\ [lane |-> lane[d], d |-> d, n |-> attempts[d], tag |-> 0] \in Prompt
    BY DEF Prompt
  <2>2. CASE RecordEvent(d)
    BY <2>1, <2>2 DEF RecordEvent, InsertRow
  <2>3. CASE SweepRead(d)
    BY <2>1, <2>3 DEF SweepRead
  <2>. QED  BY <1>1, <2>2, <2>3
<1>17. ASSUME NEW d \in Deliveries, Resend(d)
       PROVE  TypeInv'
  <2>1. resends[d] + 1 \in 0..MaxResends /\ resends' \in [Deliveries -> 0..MaxResends]
    BY <1>17 DEF Resend
  <2>2. resends'[d] \in Nat
    BY <2>1
  <2>3. \A k \in Nat :
           /\ [lane |-> "ordered", d |-> d, n |-> attempts[d], tag |-> k] \in Prompt
           /\ [lane |-> "retry", d |-> d, n |-> 0, tag |-> k] \in Prompt
    BY DEF Prompt
  <2>4. prompts' \subseteq Prompt
    <3>1. \E k \in Prompt : prompts' = prompts \cup {k}
      BY <1>17, <2>2, <2>3 DEF Resend
    <3>. QED  BY <3>1
  <2>5. /\ tries' \in [Deliveries -> 0..Gaps + 2]
        /\ accepted' \in [Deliveries -> 0..2]
    BY <1>17 DEF Resend
  <2>6. StoreTypeOK'
    BY <1>17 DEF Resend, Reopen
  <2>. QED  BY <1>17, <2>1, <2>4, <2>5, <2>6 DEF Resend
<1>2. ASSUME NEW d \in Deliveries, LeaseEnds(d)
      PROVE  TypeInv'
  <2>1. slipped' \subseteq Deliveries
    BY <1>2 DEF LeaseEnds
  <2>2. line' \in [Deliveries -> {"out", "in", "dropped", "lost"}]
    BY <1>2 DEF LeaseEnds, LoseFromLine
  <2>. QED  BY <1>2, <2>1, <2>2 DEF LeaseEnds, LeaseRunsOut, ReleaseRow
<1>18. ASSUME NEW d \in Deliveries, RowOverdue(d)
       PROVE  TypeInv'
  BY <1>18 DEF RowOverdue, BecomesOverdue
<1>3. ASSUME NEW d \in Deliveries, RowDue(d)
      PROVE  TypeInv'
  <2>1. StoreTypeOK'
    BY <1>3 DEF RowDue, BecomesDue
  <2>2. jobs' \in [Lanes -> SUBSET Job]
    <3>1. \A j \in Job : [j EXCEPT !.state = "backoff"] \in Job
      BY DEF Job
    <3>2. \A l \in Lanes : jobs'[l] \subseteq Job
      BY <1>3, <3>1 DEF RowDue
    <3>3. jobs' = [l \in Lanes |-> jobs'[l]]
      BY <1>3 DEF RowDue
    <3>. QED  BY <3>2, <3>3
  <2>3. QueueTypeOK'
    BY <1>3, <2>2 DEF RowDue
  <2>4. UNCHANGED <<prompts, stage, task, resends, historyVars>>
    BY <1>3 DEF RowDue
  <2>. HIDE DEF QueueTypeOK, StoreTypeOK
  <2>. QED  BY <2>1, <2>3, <2>4
<1>4. ASSUME NEW p \in prompts, Queue(p)
      PROVE  TypeInv'
  <2>1. PICK o \in Orders(p) : Enqueue(p.lane, JobOf(p, o, "ready"))
    BY <1>4 DEF Queue
  <2>2. o \in Nat /\ p \in Prompt
    BY DEF Orders, Prompt
  <2>3. JobOf(p, o, "ready") \in Job /\ p.lane \in Lanes
    BY <2>2 DEF JobOf, Job, Prompt
  <2>4. QueueTypeOK'
    <3>. HIDE DEF QueueTypeOK, Lanes
    <3>. QED  BY <2>1, <2>3, EnqueueOp DEF TypeInv, TypeOK
  <2>5. line' \in [Deliveries -> {"out", "in", "dropped", "lost"}]
    BY <1>4 DEF Queue
  <2>. QED  BY <1>4, <2>4, <2>5 DEF Queue
<1>19. ASSUME NEW p \in prompts, PromptLost(p)
       PROVE  TypeInv'
  BY <1>19 DEF PromptLost
<1>5. ASSUME NEW l \in Lanes, NEW j \in jobs[l], Defer(l, j) \/ Skip(l, j) \/ SkipDisabled(l, j)
      PROVE  TypeInv'
  <2>1. QueueTypeOK'
    BY <1>5, JobOps DEF Defer, Skip, SkipDisabled, JobStates
  <2>2. line' \in [Deliveries -> {"out", "in", "dropped", "lost"}]
    BY <1>5 DEF Defer, Skip, SkipDisabled, Early
  <2>3. StoreTypeOK'
    BY <1>5 DEF Defer, Skip, SkipDisabled, FailDisabled, Job
  <2>4. UNCHANGED <<prompts, stage, task, resends, tries, accepted, slipped>>
    BY <1>5 DEF Defer, Skip, SkipDisabled
  <2>. HIDE DEF QueueTypeOK, StoreTypeOK
  <2>. QED  BY <2>1, <2>2, <2>3, <2>4
<1>6. ASSUME NEW l \in Lanes, NEW j \in jobs[l], NEW w \in Slots, Load(w, l, j)
      PROVE  TypeInv'
  <2>1. QueueTypeOK'
    BY <1>6, JobOps DEF Load
  <2>2. j.d \in Deliveries /\ j.n \in Nat /\ j.tag \in Nat /\ j.ord \in Nat
    BY DEF Job
  <2>3. task'[w] \in Task
    <3>1. attempts[j.d] \in Nat /\ lane[j.d] \in Lanes
      BY <2>2
    <3>2. task'[w] = [lane |-> l, d |-> j.d, n |-> j.n, tag |-> j.tag, ord |-> j.ord,
                      attempts |-> attempts[j.d], home |-> lane[j.d]]
      BY <1>6 DEF Load
    <3>. HIDE DEF TypeInv, Lanes
    <3>. QED  BY <2>2, <3>1, <3>2 DEF Task
  <2>4. task' \in [Slots -> Task \cup {NoTask}] /\ \A v \in Slots : stage'[v] # "idle" => task'[v] \in Task
    BY <1>6, <2>3 DEF Load
  <2>5. StoreTypeOK'
    BY <1>6, <2>2 DEF Load, ClaimRow
  <2>6. stage' \in [Slots -> Stages]
    BY <1>6 DEF Load
  <2>7. UNCHANGED <<prompts, resends, tries, accepted, slipped, line>>
    BY <1>6 DEF Load
  <2>. HIDE DEF QueueTypeOK, StoreTypeOK
  <2>. QED  BY <2>1, <2>4, <2>5, <2>6, <2>7
<1>7. ASSUME NEW l \in Lanes, NEW j \in jobs[l], JobRipens(l, j)
      PROVE  TypeInv'
  <2>1. QueueTypeOK'
    BY <1>7, JobOps DEF JobRipens
  <2>. QED  BY <1>7, <2>1 DEF JobRipens
<1>8. ASSUME NEW l \in Lanes, JobStalls(l)
      PROVE  TypeInv'
  <2>1. QueueTypeOK'
    BY <1>8, JobOps DEF JobStalls, Stall, JobStates
  <2>2. line' \in [Deliveries -> {"out", "in", "dropped", "lost"}]
    BY <1>8 DEF JobStalls, LoseFromLine
  <2>. QED  BY <1>8, <2>1, <2>2 DEF JobStalls
<1>9. ASSUME NEW l \in Lanes, NameForgotten(l)
      PROVE  TypeInv'
  BY <1>9 DEF NameForgotten, Forget
<1>10. ASSUME NEW w \in Slots, NEW answer \in {"ok", "bad", "gone"}, Attempt(w, answer)
       PROVE  TypeInv'
  <2>1. task[w] \in Task /\ task[w].d \in Deliveries
    BY <1>10 DEF Attempt, Task
  <2>. DEFINE e == task[w].d
  <2>4. \A k \in 0..Gaps + 2 : (IF k = Gaps + 2 THEN k ELSE k + 1) \in 0..Gaps + 2
    OBVIOUS
  <2>5. \A k \in 0..2 : (IF k = 2 THEN 2 ELSE k + 1) \in 0..2
    OBVIOUS
  <2>2. tries' \in [Deliveries -> 0..Gaps + 2]
    <3>1. tries' = [tries EXCEPT ![e] = IF tries[e] = Gaps + 2 THEN tries[e] ELSE tries[e] + 1]
      BY <1>10 DEF Attempt
    <3>. QED  BY <2>1, <2>4, <3>1
  <2>3. accepted' \in [Deliveries -> 0..2] /\ slipped' \subseteq Deliveries
    <3>1. \/ accepted' = [accepted EXCEPT ![e] = IF accepted[e] = 2 THEN 2 ELSE accepted[e] + 1]
          \/ accepted' = accepted
      BY <1>10 DEF Attempt
    <3>2. slipped' \in {slipped, slipped \cup {e}}
      BY <1>10 DEF Attempt
    <3>3. accepted[e] \in 0..2
      BY <2>1
    <3>. QED  BY <2>1, <2>5, <3>1, <3>2, <3>3
  <2>. HIDE DEF StoreTypeOK, QueueTypeOK, e
  <2>6. StoreTypeOK' /\ QueueTypeOK'
    BY <1>10 DEF Attempt, StoreTypeOK, QueueTypeOK
  <2>7. stage' \in [Slots -> Stages] /\ UNCHANGED <<prompts, task, resends, line>>
    BY <1>10 DEF Attempt
  <2>8. \A v \in Slots : stage'[v] # "idle" => task'[v] \in Task
    BY <1>10 DEF Attempt
  <2>. QED  BY <2>2, <2>3, <2>6, <2>7, <2>8
<1>11. ASSUME NEW w \in Slots, MarkDelivered(w)
       PROVE  TypeInv'
  <2>1. task[w] \in Task
    BY <1>11 DEF MarkDelivered
  <2>2. task[w].d \in Deliveries /\ task[w].attempts + 1 \in Nat
    BY <2>1 DEF Task
  <2>3. StoreTypeOK'
    BY <1>11, <2>2 DEF MarkDelivered, RecordDelivered, EndpointWorks
  <2>4. stage' \in [Slots -> Stages] /\ \A v \in Slots : stage'[v] # "idle" => task'[v] \in Task
    BY <1>11 DEF MarkDelivered
  <2>. QED  BY <1>11, <2>3, <2>4 DEF MarkDelivered
<1>12. ASSUME NEW w \in Slots, MarkFailed(w)
       PROVE  TypeInv'
  <2>1. task[w] \in Task
    BY <1>12 DEF MarkFailed
  <2>2. PICK to \in NextLanes(w) :
           /\ RecordFailed(task[w].d, task[w].attempts + 1, Final(w), to)
           /\ stage' = [stage EXCEPT ![w] =
                          IF Final(w) THEN "finish"
                          ELSE IF to = task[w].lane THEN "retry" ELSE "move"]
    BY <1>12 DEF MarkFailed
  <2>3. to \in Lanes
    BY <2>1, <2>2 DEF NextLanes, Task
  <2>4. /\ status' \in [Deliveries -> {"absent", "pending", "delivered", "failed"}]
        /\ attempts' \in [Deliveries -> Nat]
        /\ nextAt' \in [Deliveries -> {"null", "later", "due", "overdue"}]
        /\ leased' \subseteq Deliveries
        /\ lane' \in [Deliveries -> Lanes]
    <3>1. task[w].d \in Deliveries /\ task[w].attempts + 1 \in Nat
      BY <2>1 DEF Task
    <3>. QED  BY <2>2, <2>3, <3>1 DEF RecordFailed
  <2>5. /\ failing' \in {"null", "recent", "outage", "silence"}
        /\ health' \in {"healthy", "failing", "disabled"}
        /\ told' \in {"nothing", "failing", "disabled", "recovered"}
    BY <1>12 DEF MarkFailed, EndpointFails
  <2>6. enabled' \in BOOLEAN
    BY <1>12 DEF MarkFailed, EndpointFails
  <2>7. stage' \in [Slots -> Stages] /\ \A v \in Slots : stage'[v] # "idle" => task'[v] \in Task
    BY <1>12, <2>1, <2>2 DEF MarkFailed
  <2>. QED  BY <1>12, <2>4, <2>5, <2>6, <2>7 DEF MarkFailed
<1>13. ASSUME NEW w \in Slots, MoveAside(w)
       PROVE  TypeInv'
  <2>. DEFINE moved == JobOf([task[w] EXCEPT !.n = @ + 1], task[w].ord, Wait(task[w].d))
  <2>1. moved \in Job
    BY <1>13 DEF MoveAside, JobOf, Wait, Job, Task
  <2>2. QueueTypeOK'
    <3>. HIDE DEF moved
    <3>. QED  BY <1>13, <2>1, EnqueueOp DEF MoveAside, moved
  <2>. QED  BY <1>13, <2>2 DEF MoveAside
<1>14. ASSUME NEW w \in Slots, SandboxOut(w) \/ Retry(w) \/ Break(w) \/ Finish(w) \/ Crash(w)
       PROVE  TypeInv'
  <2>1. stage[w] # "idle" /\ task[w].lane \in Lanes /\ task[w].d \in Deliveries
    <3>1. stage[w] # "idle"
      BY <1>14 DEF SandboxOut, Retry, Break, Finish, Crash
    <3>. QED  BY <3>1 DEF Task
  <2>2. QueueTypeOK'
    <3>. HIDE DEF QueueTypeOK, Lanes
    <3>1. "backoff" \in JobStates /\ Wait(task[w].d) \in JobStates
      BY DEF JobStates, Wait
    <3>2. CASE Crash(w)
      BY <3>2 DEF Crash, QueueTypeOK, TypeInv, TypeOK
    <3>3. CASE \E s \in JobStates : Delay(task[w].lane, w, s)
      BY <2>1, <3>3, HandlerOps DEF TypeInv, TypeOK
    <3>4. CASE Complete(task[w].lane, w)
      BY <2>1, <3>4, HandlerOps DEF TypeInv, TypeOK
    <3>. QED  BY <1>14, <3>1, <3>2, <3>3, <3>4 DEF SandboxOut, Retry, Break, Finish
  <2>3. /\ stage' \in [Slots -> Stages] /\ task' \in [Slots -> Task \cup {NoTask}]
        /\ \A v \in Slots : stage'[v] # "idle" => task'[v] \in Task
    BY <1>14 DEF SandboxOut, Retry, Break, Finish, Crash, Rest
  <2>4. slipped' \subseteq Deliveries /\ line' \in [Deliveries -> {"out", "in", "dropped", "lost"}]
    <3>1. slipped' \in {slipped, slipped \cup Unrecorded(w)} /\ line' \in {line, LoseFromLine({task[w].d})}
      BY <1>14 DEF SandboxOut, Retry, Break, Finish, Crash
    <3>2. Unrecorded(w) \subseteq Deliveries
      BY <2>1 DEF Unrecorded
    <3>3. LoseFromLine({task[w].d}) \in [Deliveries -> {"out", "in", "dropped", "lost"}]
      BY DEF LoseFromLine
    <3>. QED  BY <3>1, <3>2, <3>3
  <2>5. /\ UNCHANGED <<endpointVars, status, attempts, nextAt, lane, prompts, resends, tries, accepted>>
        /\ leased' \in {leased, leased \ {task[w].d}}
    BY <1>14 DEF SandboxOut, Retry, Break, Finish, Crash, ReleaseRow
  <2>6. StoreTypeOK'
    BY <2>5
  <2>. QED
    <3>. HIDE DEF StoreTypeOK, QueueTypeOK
    <3>. QED  BY <2>2, <2>3, <2>4, <2>5, <2>6
<1>16. ASSUME Pause \/ Resume \/ RedisRestarts \/ EndpointTime \/ UNCHANGED vars
       PROVE  TypeInv'
  <2>1. CASE Pause \/ Resume \/ EndpointTime
    <3>1. StoreTypeOK'
      <4>1. CASE Pause
        BY <4>1 DEF Pause, PauseEndpoint
      <4>2. CASE Resume
        BY <4>2 DEF Resume, ResumeEndpoint
      <4>3. CASE EndpointTime
        BY <4>3 DEF EndpointTime, FailingAges
      <4>. QED  BY <2>1, <4>1, <4>2, <4>3
    <3>2. UNCHANGED <<queueVars, prompts, stage, task, resends, historyVars>>
      BY <2>1 DEF Pause, Resume, EndpointTime
    <3>3. QueueTypeOK'
      BY <3>2
    <3>. HIDE DEF QueueTypeOK, StoreTypeOK
    <3>. QED  BY <3>1, <3>2, <3>3
  <2>2. CASE RedisRestarts
    <3>1. QueueTypeOK'
      BY <2>2 DEF RedisRestarts, LoseEverything
    <3>2. line' \in [Deliveries -> {"out", "in", "dropped", "lost"}]
      BY <2>2 DEF RedisRestarts, LoseFromLine
    <3>. QED  BY <2>2, <3>1, <3>2 DEF RedisRestarts
  <2>3. CASE UNCHANGED vars
    BY <2>3 DEF vars
  <2>. QED  BY <1>16, <2>1, <2>2, <2>3
<1>. HIDE DEF TypeInv
<1>. QED
  BY <1>1, <1>2, <1>3, <1>4, <1>5, <1>6, <1>7, <1>8, <1>9, <1>10, <1>11, <1>12, <1>13, <1>14,
     <1>16, <1>17, <1>18, <1>19 DEF Next, Reserve, Work

-----------------------------------------------------------------------------
(* One lease, one verdict, one budget                                      *)

\* What a handler at work has in its hands.
LEMMA TaskFacts ==
  ASSUME TypeInv, NEW w \in Slots, stage[w] # "idle"
  PROVE  /\ task[w].d \in Deliveries /\ task[w].lane \in Lanes /\ task[w].home \in Lanes
         /\ task[w].attempts \in Nat /\ task[w].tag \in Nat
BY DEF TypeInv, Task

\* Steps that a delivery's lease, verdict and count do not see.
Quiet == UNCHANGED <<status, attempts, leased, lane, stage, task, tries, accepted>>

LEMMA QuietStep ==
  ASSUME TypeInv, [Next]_vars
  PROVE  \/ Quiet /\ slipped \subseteq slipped'
         \/ \E d \in Deliveries : RecordEvent(d) \/ Resend(d) \/ LeaseEnds(d)
         \/ \E l \in Lanes : \E j \in jobs[l] :
              SkipDisabled(l, j) \/ \E w \in Slots : Load(w, l, j)
         \/ \E w \in Slots : Work(w)
<1>. USE DEF Quiet
<1>1. CASE \E d \in Deliveries : SweepRead(d) \/ RowDue(d) \/ RowOverdue(d)
  BY <1>1 DEF SweepRead, RowDue, RowOverdue, BecomesDue, BecomesOverdue
<1>2. CASE \E p \in prompts : Queue(p) \/ PromptLost(p)
  BY <1>2 DEF Queue, PromptLost
<1>3. CASE \E l \in Lanes : \E j \in jobs[l] : Defer(l, j) \/ Skip(l, j) \/ JobRipens(l, j)
  BY <1>3 DEF Defer, Skip, JobRipens
<1>4. CASE \E l \in Lanes : JobStalls(l) \/ NameForgotten(l)
  BY <1>4 DEF JobStalls, NameForgotten
<1>5. CASE Pause \/ Resume \/ RedisRestarts \/ EndpointTime \/ UNCHANGED vars
  BY <1>5 DEF Pause, Resume, RedisRestarts, EndpointTime, vars
<1>. HIDE DEF Quiet
<1>. QED  BY <1>1, <1>2, <1>3, <1>4, <1>5 DEF Next, Reserve

LEMMA AbsentStep ==
  ASSUME TypeInv, AbsentInv, [Next]_vars
  PROVE  AbsentInv'
<1>. USE DEF AbsentInv, Working
<1>0. /\ status \in [Deliveries -> {"absent", "pending", "delivered", "failed"}]
      /\ tries \in [Deliveries -> 0..Gaps + 2] /\ accepted \in [Deliveries -> 0..2]
      /\ stage \in [Slots -> Stages] /\ task \in [Slots -> Task \cup {NoTask}]
      /\ line \in [Deliveries -> {"out", "in", "dropped", "lost"}]
      /\ jobs \in [Lanes -> SUBSET Job] /\ prompts \subseteq Prompt
  BY DEF TypeInv, TypeOK, StoreTypeOK, QueueTypeOK
<1>1. ASSUME NEW d \in Deliveries, RecordEvent(d) \/ Resend(d) \/ SweepRead(d) PROVE AbsentInv'
  <2>1. /\ UNCHANGED <<stage, task, jobs, line>>
        /\ status' \in {status, [status EXCEPT ![d] = "pending"]}
        /\ \A e \in Deliveries \ {d} : tries'[e] = tries[e] /\ accepted'[e] = accepted[e]
    BY <1>0, <1>1 DEF RecordEvent, Resend, SweepRead, InsertRow, Reopen
  <2>2. status'[d] # "absent"
    BY <1>0, <1>1 DEF RecordEvent, Resend, SweepRead, InsertRow, Reopen, Abandoned
  <2>3. \E p : p.d = d /\ prompts' = prompts \cup {p}
    BY <1>1 DEF RecordEvent, Resend, SweepRead
  <2>. QED  BY <1>0, <2>1, <2>2, <2>3
<1>2. ASSUME NEW d \in Deliveries, LeaseEnds(d) \/ RowOverdue(d) PROVE AbsentInv'
  BY <1>2 DEF LeaseEnds, RowOverdue, LeaseRunsOut, ReleaseRow, BecomesOverdue, LoseFromLine
<1>3. ASSUME NEW d \in Deliveries, RowDue(d) PROVE AbsentInv'
  <2>1. /\ UNCHANGED <<status, tries, accepted, line, stage, task, prompts>>
    BY <1>3 DEF RowDue, BecomesDue
  <2>2. \A l \in Lanes : \A j \in jobs'[l] : \E k \in jobs[l] : j.d = k.d
    BY <1>3, RowDueMoves DEF TypeInv, TypeOK
  <2>. QED  BY <2>1, <2>2
<1>4. ASSUME NEW p \in prompts, Queue(p) \/ PromptLost(p) PROVE AbsentInv'
  <2>1. /\ UNCHANGED <<status, tries, accepted, stage, task>>
        /\ prompts' = prompts \ {p} /\ p.d \in Deliveries /\ p.lane \in Lanes
        /\ \A d \in Deliveries : d # p.d => line'[d] = line[d]
    BY <1>0, <1>4 DEF Queue, PromptLost, Prompt
  <2>2. \A l \in Lanes : \A j \in jobs'[l] : j.d = p.d \/ j \in jobs[l]
    <3>1. CASE PromptLost(p)
      BY <3>1 DEF PromptLost
    <3>2. CASE Queue(p)
      <4>1. PICK o \in Orders(p) : Enqueue(p.lane, JobOf(p, o, "ready"))
        BY <3>2 DEF Queue
      <4>2. JobOf(p, o, "ready").d = p.d
        BY DEF JobOf
      <4>. QED  BY <2>1, <4>1, <4>2, Enqueued DEF TypeInv, TypeOK
    <3>. QED  BY <1>4, <3>1, <3>2
  <2>. QED  BY <2>1, <2>2
<1>5. ASSUME NEW l \in Lanes, NEW j \in jobs[l], Defer(l, j) \/ Skip(l, j) \/ JobRipens(l, j)
      PROVE  AbsentInv'
  <2>1. /\ UNCHANGED <<status, tries, accepted, stage, task, prompts>>
        /\ \A d \in Deliveries : d # j.d => line'[d] = line[d]
    BY <1>0, <1>5 DEF Defer, Skip, JobRipens, Early
  <2>2. \A m \in Lanes : \A k \in jobs'[m] : k \in jobs[m] \/ k.d = j.d
    <3>1. Left(l, j) \/ \E s \in JobStates : Moved(l, j, s)
      BY <1>5, JobMoves DEF Defer, Skip, JobRipens, TypeInv, TypeOK, JobStates
    <3>. QED  BY <3>1 DEF Left, Moved
  <2>. QED  BY <2>1, <2>2
<1>6. ASSUME NEW l \in Lanes, JobStalls(l) PROVE AbsentInv'
  <2>1. /\ UNCHANGED <<status, tries, accepted, stage, task, prompts>>
        /\ line' = LoseFromLine({j.d : j \in {k \in jobs[l] : k.state = "active"}})
    BY <1>6 DEF JobStalls
  <2>2. \A m \in Lanes : \A k \in jobs'[m] : \E j \in jobs[m] : k.d = j.d
    <3>1. \E j \in jobs[l] : Moved(l, j, "ready")
      BY <1>6, JobMoves DEF JobStalls, Stall, TypeInv, TypeOK, JobStates
    <3>. QED  BY <3>1 DEF Moved
  <2>. QED  BY <2>1, <2>2 DEF LoseFromLine
<1>7. ASSUME NEW l \in Lanes, NEW j \in jobs[l], SkipDisabled(l, j) PROVE AbsentInv'
  <2>1. /\ UNCHANGED <<tries, accepted, stage, task, prompts, line>>
        /\ \A d \in Deliveries : d # j.d => status'[d] = status[d]
        /\ status'[j.d] # "absent"
    BY <1>0, <1>7 DEF SkipDisabled, FailDisabled, Job
  <2>2. \A m \in Lanes : \A k \in jobs'[m] : k \in jobs[m]
    BY <1>0, <1>7 DEF SkipDisabled, CompleteJob, Becomes
  <2>. QED  BY <2>1, <2>2
<1>8. ASSUME NEW l \in Lanes, NEW j \in jobs[l], NEW w \in Slots, Load(w, l, j) PROVE AbsentInv'
  <2>1. /\ UNCHANGED <<status, tries, accepted, prompts, line>> /\ status[j.d] = "pending"
        /\ \A v \in Slots \ {w} : stage'[v] = stage[v] /\ task'[v] = task[v]
    BY <1>0, <1>8 DEF Load, Claimable, ClaimRow
  <2>2. task'[w].d = j.d
    BY <1>0, <1>8 DEF Load
  <2>3. \A m \in Lanes : \A k \in jobs'[m] : k \in jobs[m] \/ k.d = j.d
    <3>1. Moved(l, j, "active")
      BY <1>8, JobMoves DEF Load, TypeInv, TypeOK
    <3>. QED  BY <3>1 DEF Moved
  <2>. QED  BY <2>1, <2>2, <2>3
<1>9. ASSUME NEW w \in Slots, Work(w) PROVE AbsentInv'
  <2>. DEFINE d == task[w].d
  <2>0. stage[w] # "idle"
    BY <1>9 DEF Work, SandboxOut, Attempt, MarkDelivered, MarkFailed, Retry, MoveAside, Finish,
                Break, Crash
  <2>1. d \in Deliveries /\ task[w].lane \in Lanes /\ status[d] # "absent"
    BY <2>0, TaskFacts
  <2>2. /\ prompts' = prompts
        /\ \A e \in Deliveries \ {d} : tries'[e] = tries[e] /\ accepted'[e] = accepted[e]
    BY <1>0, <1>9 DEF Work, SandboxOut, Attempt, MarkDelivered, MarkFailed, Retry, MoveAside, Finish,
                Break, Crash
  <2>3. \A e \in Deliveries \ {d} : status'[e] = status[e] /\ line'[e] = line[e]
    BY <1>0, <1>9 DEF Work, SandboxOut, Attempt, MarkDelivered, MarkFailed, Retry, MoveAside, Finish,
                Break, Crash, ReleaseRow, RecordDelivered, RecordFailed, LoseFromLine
  <2>4. status'[d] # "absent"
    BY <1>0, <1>9, <2>1 DEF Work, SandboxOut, Attempt, MarkDelivered, MarkFailed, Retry, MoveAside, Finish,
                Break, Crash, ReleaseRow, RecordDelivered, RecordFailed
  <2>5. \A v \in Slots : stage'[v] # "idle" => stage[v] # "idle" /\ task'[v] = task[v]
    BY <1>0, <1>9 DEF Work, SandboxOut, Attempt, MarkDelivered, MarkFailed, Retry, MoveAside, Finish,
                Break, Crash, Rest
  <2>6. \A m \in Lanes : \A k \in jobs'[m] : k.d = d \/ \E j \in jobs[m] : k.d = j.d
    <3>1. CASE Complete(task[w].lane, w) \/ \E s \in JobStates : Delay(task[w].lane, w, s)
      <4>1. \/ jobs' = jobs
            \/ \E j \in jobs[task[w].lane] : Left(task[w].lane, j)
                                         \/ \E s \in JobStates : Moved(task[w].lane, j, s)
        BY <2>1, <3>1, HandlerMoves DEF Delayed, Completed, TypeInv, TypeOK
      <4>. QED  BY <2>1, <4>1 DEF Left, Moved
    <3>2. CASE MoveAside(w)
      BY <1>0, <3>2 DEF MoveAside, Enqueue, JobOf
    <3>. QED  BY <1>9, <3>1, <3>2 DEF Work, SandboxOut, Attempt, MarkDelivered, MarkFailed, Retry,
                Finish, Break, Crash, JobStates, Wait
  <2>. QED  BY <2>1, <2>2, <2>3, <2>4, <2>5, <2>6
<1>10. ASSUME (\E l \in Lanes : NameForgotten(l)) \/ Pause \/ Resume \/ EndpointTime \/ UNCHANGED vars
       PROVE  AbsentInv'
  BY <1>10 DEF NameForgotten, Forget, Pause, Resume, EndpointTime, vars
<1>11. ASSUME RedisRestarts PROVE AbsentInv'
  BY <1>11 DEF RedisRestarts, LoseEverything, LoseFromLine
<1>. HIDE DEF AbsentInv
<1>. QED
  BY <1>1, <1>2, <1>3, <1>4, <1>5, <1>6, <1>7, <1>8, <1>9, <1>10, <1>11 DEF Next, Reserve

RowInv == LeaseInv /\ OutcomeInv /\ BudgetInv

LEMMA RowStep ==
  ASSUME TypeInv, AbsentInv, RowInv, [Next]_vars
  PROVE  RowInv'
<1>. USE DEF Holding, Answered
<1>1. ASSUME Quiet, slipped \subseteq slipped' PROVE RowInv'
  BY <1>1 DEF Quiet, RowInv, LeaseInv, OutcomeInv, BudgetInv
<1>2. ASSUME NEW d \in Deliveries, RecordEvent(d) PROVE RowInv'
  <2>1. /\ UNCHANGED <<attempts, leased, lane, stage, task, slipped, tries, accepted>>
        /\ status[d] = "absent" /\ status' = [status EXCEPT ![d] = "pending"]
        /\ tries[d] = 0 /\ accepted[d] = 0 /\ attempts[d] \in Nat
    BY <1>2 DEF RecordEvent, InsertRow, AbsentInv, TypeInv, TypeOK, StoreTypeOK
  <2>2. status \in [Deliveries -> {"absent", "pending", "delivered", "failed"}]
    BY DEF TypeInv, TypeOK, StoreTypeOK
  <2>3. LeaseInv'
    BY <2>1, <2>2 DEF RowInv, LeaseInv
  <2>4. OutcomeInv'
    BY <2>1, <2>2 DEF RowInv, OutcomeInv
  <2>5. BudgetInv'
    BY <2>1, <2>2, GapsAssumption DEF RowInv, BudgetInv
  <2>. QED  BY <2>3, <2>4, <2>5 DEF RowInv
<1>3. ASSUME NEW d \in Deliveries, Resend(d) PROVE RowInv'
  <2>1. /\ UNCHANGED <<attempts, stage, task, slipped>>
        /\ status[d] \in {"delivered", "failed"} /\ status' = [status EXCEPT ![d] = "pending"]
        /\ leased' = leased \ {d} /\ lane' = [lane EXCEPT ![d] = "retry"]
        /\ tries' = [tries EXCEPT ![d] = 0] /\ accepted' = [accepted EXCEPT ![d] = 0]
    BY <1>3 DEF Resend, Reopen
  <2>2. /\ status \in [Deliveries -> {"absent", "pending", "delivered", "failed"}]
        /\ lane \in [Deliveries -> Lanes] /\ attempts \in [Deliveries -> Nat]
        /\ tries \in [Deliveries -> 0..Gaps + 2] /\ accepted \in [Deliveries -> 0..2]
    BY DEF TypeInv, TypeOK, StoreTypeOK
  <2>3. LeaseInv'
    BY <2>1, <2>2 DEF RowInv, LeaseInv
  <2>6. d \notin slipped => \A w \in Slots : ~Holding(w, d)
    BY <2>1 DEF RowInv, LeaseInv
  <2>4. OutcomeInv'
    BY <2>1, <2>2, <2>6 DEF RowInv, OutcomeInv
  <2>5. BudgetInv'
    BY <2>1, <2>2, <2>6, GapsAssumption DEF RowInv, BudgetInv
  <2>. QED  BY <2>3, <2>4, <2>5 DEF RowInv
<1>4. ASSUME NEW d \in Deliveries, LeaseEnds(d) PROVE RowInv'
  <2>1. /\ UNCHANGED <<status, attempts, lane, stage, task, tries, accepted>>
        /\ leased' = leased \ {d} /\ slipped \subseteq slipped'
        /\ d \notin slipped' => \A w \in Slots : ~Holding(w, d)
    BY <1>4 DEF LeaseEnds, LeaseRunsOut, ReleaseRow
  <2>2. LeaseInv'
    BY <2>1 DEF RowInv, LeaseInv
  <2>3. OutcomeInv'
    BY <2>1 DEF RowInv, OutcomeInv
  <2>4. BudgetInv'
    BY <2>1 DEF RowInv, BudgetInv
  <2>. QED  BY <2>2, <2>3, <2>4 DEF RowInv
<1>5. ASSUME NEW l \in Lanes, NEW j \in jobs[l], SkipDisabled(l, j) PROVE RowInv'
  <2>. DEFINE d == j.d
  <2>1. /\ UNCHANGED <<attempts, lane, stage, task, slipped, tries, accepted>>
        /\ status' = [status EXCEPT ![d] = "failed"] /\ leased' = leased \ {d}
        /\ status[d] = "pending" /\ d \notin leased
    BY <1>5 DEF SkipDisabled, FailDisabled, Claimable
  <2>2. /\ status \in [Deliveries -> {"absent", "pending", "delivered", "failed"}]
        /\ d \in Deliveries
    BY DEF TypeInv, TypeOK, StoreTypeOK, QueueTypeOK, Job
  <2>. HIDE DEF d
  <2>6. d \notin slipped => \A w \in Slots : ~Holding(w, d)
    BY <2>1, <2>2 DEF RowInv, LeaseInv
  <2>3. LeaseInv'
    BY <2>1, <2>2, <2>6 DEF RowInv, LeaseInv
  <2>4. OutcomeInv'
    BY <2>1, <2>2, <2>6 DEF RowInv, OutcomeInv
  <2>5. BudgetInv'
    BY <2>1, <2>2, <2>6 DEF RowInv, BudgetInv
  <2>. QED  BY <2>3, <2>4, <2>5 DEF RowInv
<1>6. ASSUME NEW l \in Lanes, NEW j \in jobs[l], NEW w \in Slots, Load(w, l, j) PROVE RowInv'
  <2>. DEFINE d == j.d
  <2>1. /\ UNCHANGED <<status, attempts, lane, slipped, tries, accepted>>
        /\ leased' = leased \cup {d} /\ status[d] = "pending" /\ d \notin leased
        /\ stage[w] = "idle" /\ stage' = [stage EXCEPT ![w] = "loaded"]
    BY <1>6 DEF Load, ClaimRow, Claimable
  <2>7. /\ stage \in [Slots -> Stages] /\ d \in Deliveries
        /\ task \in [Slots -> Task \cup {NoTask}]
    BY DEF TypeInv, TypeOK, StoreTypeOK, QueueTypeOK, Job
  <2>. DEFINE t == [lane |-> l, d |-> j.d, n |-> j.n, tag |-> j.tag, ord |-> j.ord,
                    attempts |-> attempts[j.d], home |-> lane[j.d]]
  <2>8. /\ task' = [task EXCEPT ![w] = t]
        /\ t.d = d /\ t.attempts = attempts[d] /\ t.home = lane[d]
    BY <1>6 DEF Load
  <2>2. /\ stage'[w] = "loaded" /\ task'[w].d = d
        /\ task'[w].attempts = attempts[d] /\ task'[w].home = lane[d]
        /\ \A v \in Slots \ {w} : stage'[v] = stage[v] /\ task'[v] = task[v]
    <3>. HIDE DEF d, t
    <3>. QED  BY <2>1, <2>7, <2>8
  <2>. HIDE DEF d, t
  <2>6. d \notin slipped => \A v \in Slots : ~Holding(v, d)
    BY <2>1, <2>7 DEF RowInv, LeaseInv
  <2>3. LeaseInv'
    BY <2>1, <2>2, <2>6 DEF RowInv, LeaseInv
  <2>4. OutcomeInv'
    BY <2>1, <2>2, <2>6 DEF RowInv, OutcomeInv
  <2>5. BudgetInv'
    BY <2>1, <2>2, <2>6 DEF RowInv, BudgetInv
  <2>. QED  BY <2>3, <2>4, <2>5 DEF RowInv
<1>7. ASSUME NEW w \in Slots, Work(w) PROVE RowInv'
  <2>. DEFINE d == task[w].d
  <2>0. stage[w] # "idle"
    BY <1>7 DEF Work, SandboxOut, Attempt, MarkDelivered, MarkFailed, Retry, MoveAside, Finish,
                Break, Crash
  <2>1. d \in Deliveries /\ task[w].attempts \in Nat
    BY <2>0, TaskFacts
  <2>2. /\ status \in [Deliveries -> {"absent", "pending", "delivered", "failed"}]
        /\ attempts \in [Deliveries -> Nat] /\ lane \in [Deliveries -> Lanes]
        /\ stage \in [Slots -> Stages] /\ task \in [Slots -> Task \cup {NoTask}]
        /\ tries \in [Deliveries -> 0..Gaps + 2] /\ accepted \in [Deliveries -> 0..2]
    BY DEF TypeInv, TypeOK, StoreTypeOK
  <2>3. ASSUME NEW answer \in {"ok", "bad", "gone"}, Attempt(w, answer) PROVE RowInv'
    <3>1. /\ UNCHANGED <<status, attempts, leased, lane, task>>
          /\ stage[w] = "loaded" /\ stage' = [stage EXCEPT ![w] = answer]
          /\ tries' = [tries EXCEPT ![d] = IF tries[d] = Gaps + 2 THEN tries[d] ELSE tries[d] + 1]
      BY <2>3 DEF Attempt
    <3>2. /\ slipped \subseteq slipped'
          /\ d \notin slipped' => accepted' = IF answer = "ok"
               THEN [accepted EXCEPT ![d] = IF accepted[d] = 2 THEN 2 ELSE accepted[d] + 1]
               ELSE accepted
          /\ \A e \in Deliveries \ {d} : accepted'[e] = accepted[e]
      BY <2>2, <2>3 DEF Attempt
    <3>. HIDE DEF d
    <3>3. d \notin slipped => /\ status[d] = "pending" /\ \A v \in Slots : Holding(v, d) => v = w
      BY <2>1, <3>1 DEF RowInv, LeaseInv, d
    <3>4. LeaseInv'
      BY <2>2, <3>1, <3>2 DEF RowInv, LeaseInv
    <3>5. OutcomeInv'
      BY <2>1, <2>2, <3>1, <3>2, <3>3 DEF RowInv, OutcomeInv, d
    <3>6. BudgetInv'
      BY <2>1, <2>2, <3>1, <3>2, <3>3, GapsAssumption DEF RowInv, BudgetInv, d
    <3>. QED  BY <3>4, <3>5, <3>6 DEF RowInv
  <2>4. ASSUME SandboxOut(w) PROVE RowInv'
    <3>1. /\ UNCHANGED <<status, attempts, lane, slipped, tries, accepted>>
          /\ stage[w] = "loaded" /\ leased' = leased \ {d}
          /\ stage' = [stage EXCEPT ![w] = "idle"] /\ task' = [task EXCEPT ![w] = NoTask]
      BY <2>4 DEF SandboxOut, ReleaseRow, Rest
    <3>. HIDE DEF d
    <3>2. LeaseInv'
      BY <2>1, <2>2, <3>1 DEF RowInv, LeaseInv, d
    <3>3. OutcomeInv'
      BY <2>1, <2>2, <3>1 DEF RowInv, OutcomeInv, d
    <3>4. BudgetInv'
      BY <2>1, <2>2, <3>1 DEF RowInv, BudgetInv, d
    <3>. QED  BY <3>2, <3>3, <3>4 DEF RowInv
  <2>5. ASSUME MarkDelivered(w) PROVE RowInv'
    <3>1. /\ UNCHANGED <<lane, task, slipped, tries, accepted>>
          /\ stage[w] = "ok" /\ stage' = [stage EXCEPT ![w] = "finish"]
          /\ status' = [status EXCEPT ![d] = "delivered"] /\ leased' = leased \ {d}
          /\ attempts' = [attempts EXCEPT ![d] = task[w].attempts + 1]
      BY <2>5 DEF MarkDelivered, RecordDelivered
    <3>. HIDE DEF d
    <3>2. LeaseInv'
      BY <2>1, <2>2, <3>1 DEF RowInv, LeaseInv, d
    <3>3. OutcomeInv'
      BY <2>1, <2>2, <3>1 DEF RowInv, OutcomeInv, LeaseInv, d
    <3>4. BudgetInv'
      BY <2>1, <2>2, <3>1, GapsAssumption DEF RowInv, BudgetInv, LeaseInv, d
    <3>. QED  BY <3>2, <3>3, <3>4 DEF RowInv
  <2>6. ASSUME MarkFailed(w) PROVE RowInv'
    <3>0. PICK to \in NextLanes(w), next \in {"finish", "retry", "move"} :
            /\ RecordFailed(d, task[w].attempts + 1, Final(w), to)
            /\ stage' = [stage EXCEPT ![w] = next]
      BY <2>6 DEF MarkFailed
    <3>1. /\ UNCHANGED <<task, slipped, tries, accepted>>
          /\ stage[w] \in {"bad", "gone"}
          /\ status' = [status EXCEPT ![d] = IF Final(w) THEN "failed" ELSE "pending"]
          /\ leased' = leased \ {d} /\ lane' = [lane EXCEPT ![d] = to]
          /\ attempts' = [attempts EXCEPT ![d] = task[w].attempts + 1]
      BY <2>6, <3>0 DEF MarkFailed, RecordFailed
    <3>2. ~Final(w) => task[w].attempts + 1 <= Gaps
      BY <2>1, GapsAssumption DEF Final
    <3>. HIDE DEF d
    <3>3. LeaseInv'
      BY <2>1, <2>2, <3>0, <3>1 DEF RowInv, LeaseInv, d
    <3>4. OutcomeInv'
      BY <2>1, <2>2, <3>0, <3>1 DEF RowInv, OutcomeInv, LeaseInv, d
    <3>5. BudgetInv'
      BY <2>1, <2>2, <3>0, <3>1, <3>2, GapsAssumption DEF RowInv, BudgetInv, LeaseInv, d
    <3>. QED  BY <3>3, <3>4, <3>5 DEF RowInv
  <2>7. ASSUME Retry(w) \/ MoveAside(w) \/ Finish(w) PROVE RowInv'
    <3>1. /\ UNCHANGED <<status, attempts, leased, lane, slipped, tries, accepted>>
          /\ stage[w] \in {"retry", "move", "finish"} /\ stage'[w] \in {"idle", "finish"}
          /\ \A v \in Slots \ {w} : stage'[v] = stage[v] /\ task'[v] = task[v]
      BY <2>2, <2>7 DEF Retry, MoveAside, Finish, Rest
    <3>2. LeaseInv'
      BY <3>1 DEF RowInv, LeaseInv
    <3>3. OutcomeInv'
      BY <3>1 DEF RowInv, OutcomeInv
    <3>4. BudgetInv'
      BY <3>1 DEF RowInv, BudgetInv
    <3>. QED  BY <3>2, <3>3, <3>4 DEF RowInv
  <2>8. ASSUME Break(w) \/ Crash(w) PROVE RowInv'
    <3>1. /\ UNCHANGED <<status, attempts, leased, lane, tries, accepted>>
          /\ slipped \subseteq slipped' /\ (Answered(w, d) => d \in slipped')
          /\ stage'[w] = "idle"
          /\ \A v \in Slots \ {w} : stage'[v] = stage[v] /\ task'[v] = task[v]
      BY <2>2, <2>8 DEF Break, Crash, Rest, Unrecorded
    <3>. HIDE DEF d
    <3>2. LeaseInv'
      BY <3>1 DEF RowInv, LeaseInv
    <3>3. OutcomeInv'
      BY <3>1 DEF RowInv, OutcomeInv, d
    <3>4. BudgetInv'
      BY <3>1 DEF RowInv, BudgetInv, d
    <3>. QED  BY <3>2, <3>3, <3>4 DEF RowInv
  <2>. HIDE DEF d
  <2>. QED  BY <1>7, <2>3, <2>4, <2>5, <2>6, <2>7, <2>8 DEF Work
<1>. QED  BY <1>1, <1>2, <1>3, <1>4, <1>5, <1>6, <1>7, QuietStep

-----------------------------------------------------------------------------
(* The queues and the line                                                 *)

LEMMA TypeFacts ==
  ASSUME TypeInv
  PROVE  /\ status \in [Deliveries -> {"absent", "pending", "delivered", "failed"}]
         /\ attempts \in [Deliveries -> Nat] /\ lane \in [Deliveries -> Lanes]
         /\ nextAt \in [Deliveries -> {"null", "later", "due", "overdue"}]
         /\ stage \in [Slots -> Stages] /\ task \in [Slots -> Task \cup {NoTask}]
         /\ line \in [Deliveries -> {"out", "in", "dropped", "lost"}]
         /\ prompts \subseteq Prompt /\ QueueTypeOK
         /\ jobs \in [Lanes -> SUBSET Job] /\ runner \in [Lanes -> Slots \cup {None}]
         /\ done \in [Lanes -> SUBSET JobName]
BY DEF TypeInv, TypeOK, StoreTypeOK, QueueTypeOK

\* What a handler does to the queues and to itself.
LEMMA WorkMoves ==
  ASSUME TypeInv, NEW w \in Slots, Work(w)
  PROVE  /\ stage[w] # "idle"
         /\ \A v \in Slots \ {w} : stage'[v] = stage[v] /\ task'[v] = task[v]
         /\ prompts' = prompts
         /\ \/ /\ UNCHANGED <<jobs, runner, done>> /\ task'[w] = task[w] /\ stage'[w] # "idle"
            \/ /\ MoveAside(w) /\ runner' = runner /\ done' = done
               /\ task'[w] = task[w] /\ stage'[w] = "finish"
            \/ Crash(w) /\ UNCHANGED <<jobs, runner, done>> /\ stage'[w] = "idle"
            \/ /\ SandboxOut(w) \/ Retry(w) \/ Break(w)
               /\ stage'[w] = "idle"
               /\ \E s \in {"retry", "backoff"} : Delayed(task[w].lane, w, s)
            \/ Finish(w) /\ stage'[w] = "idle" /\ Completed(task[w].lane, w)
<1>0. /\ stage \in [Slots -> Stages] /\ task \in [Slots -> Task \cup {NoTask}] /\ QueueTypeOK
  BY TypeFacts
<1>1. stage[w] # "idle"
  BY DEF Work, SandboxOut, Attempt, MarkDelivered, MarkFailed, Retry, MoveAside, Finish, Break, Crash
<1>2. task[w].lane \in Lanes /\ {"retry", "backoff"} \subseteq JobStates
  BY <1>1, TaskFacts DEF JobStates
<1>3. ASSUME (\E answer \in {"ok", "bad", "gone"} : Attempt(w, answer)) \/ MarkDelivered(w) \/ MarkFailed(w)
      PROVE  /\ UNCHANGED <<jobs, runner, done, task, prompts>> /\ stage'[w] # "idle"
             /\ \A v \in Slots \ {w} : stage'[v] = stage[v]
  BY <1>0, <1>3 DEF Attempt, MarkDelivered, MarkFailed
<1>4. ASSUME MoveAside(w)
      PROVE  /\ UNCHANGED <<runner, done, task, prompts>> /\ stage'[w] = "finish"
             /\ \A v \in Slots \ {w} : stage'[v] = stage[v]
  BY <1>0, <1>4 DEF MoveAside, Enqueue
<1>5. ASSUME Crash(w) \/ SandboxOut(w) \/ Retry(w) \/ Break(w) \/ Finish(w)
      PROVE  /\ prompts' = prompts /\ stage'[w] = "idle"
             /\ \A v \in Slots \ {w} : stage'[v] = stage[v] /\ task'[v] = task[v]
  BY <1>0, <1>5 DEF Crash, SandboxOut, Retry, Break, Finish, Rest
<1>6. Crash(w) => UNCHANGED <<jobs, runner, done>>
  BY DEF Crash
<1>7. ASSUME SandboxOut(w) \/ Retry(w) \/ Break(w)
      PROVE  \E s \in {"retry", "backoff"} : Delayed(task[w].lane, w, s)
  <2>1. \E s \in {"retry", "backoff"} : Delay(task[w].lane, w, s)
    BY <1>7 DEF SandboxOut, Retry, Break, Wait
  <2>. QED  BY <1>0, <1>2, <2>1, HandlerMoves
<1>8. Finish(w) => Completed(task[w].lane, w)
  BY <1>0, <1>2, HandlerMoves DEF Finish
<1>. QED  BY <1>1, <1>3, <1>4, <1>5, <1>6, <1>7, <1>8 DEF Work

\* What becomes of a job that is handed over, ripens, or stalls.
LEMMA ReserveMoves ==
  ASSUME TypeInv, NEW l \in Lanes, NEW j \in jobs[l]
  PROVE  /\ Defer(l, j) => Moved(l, j, "backoff") /\ Runs(l, None) /\ UNCHANGED <<done, prompts, stage, task>>
         /\ Skip(l, j) \/ SkipDisabled(l, j) =>
              Left(l, j) /\ Runs(l, None) /\ Known(l, j) /\ UNCHANGED <<prompts, stage, task>>
         /\ JobRipens(l, j) => Moved(l, j, "ready") /\ UNCHANGED <<runner, done, prompts, stage, task>>
         /\ \A w \in Slots : Load(w, l, j) =>
              /\ Moved(l, j, "active") /\ Runs(l, w) /\ UNCHANGED <<done, prompts>>
              /\ stage[w] = "idle" /\ stage'[w] = "loaded"
              /\ task'[w].lane = l /\ task'[w].d = j.d /\ task'[w].tag = j.tag
              /\ \A v \in Slots \ {w} : stage'[v] = stage[v] /\ task'[v] = task[v]
<1>0. /\ QueueTypeOK /\ {"ready", "backoff", "active"} \subseteq JobStates
      /\ stage \in [Slots -> Stages] /\ task \in [Slots -> Task \cup {NoTask}]
  BY TypeFacts DEF JobStates
<1>1. Defer(l, j) => Moved(l, j, "backoff") /\ Runs(l, None) /\ UNCHANGED <<done, prompts, stage, task>>
  BY <1>0, JobMoves DEF Defer
<1>2. Skip(l, j) \/ SkipDisabled(l, j) =>
        Left(l, j) /\ Runs(l, None) /\ Known(l, j) /\ UNCHANGED <<prompts, stage, task>>
  BY <1>0, JobMoves DEF Skip, SkipDisabled
<1>3. JobRipens(l, j) => Moved(l, j, "ready") /\ UNCHANGED <<runner, done, prompts, stage, task>>
  BY <1>0, JobMoves DEF JobRipens
<1>4. ASSUME NEW w \in Slots, Load(w, l, j)
      PROVE  /\ Moved(l, j, "active") /\ Runs(l, w) /\ UNCHANGED <<done, prompts>>
             /\ stage[w] = "idle" /\ stage'[w] = "loaded"
             /\ task'[w].lane = l /\ task'[w].d = j.d /\ task'[w].tag = j.tag
             /\ \A v \in Slots \ {w} : stage'[v] = stage[v] /\ task'[v] = task[v]
  <2>1. Moved(l, j, "active") /\ Runs(l, w) /\ UNCHANGED <<done, prompts>>
    BY <1>0, <1>4, JobMoves DEF Load
  <2>2. /\ stage[w] = "idle" /\ stage'[w] = "loaded"
        /\ task'[w].lane = l /\ task'[w].d = j.d /\ task'[w].tag = j.tag
        /\ \A v \in Slots \ {w} : stage'[v] = stage[v] /\ task'[v] = task[v]
    BY <1>0, <1>4 DEF Load
  <2>. QED  BY <2>1, <2>2
<1>. QED  BY <1>1, <1>2, <1>3, <1>4

LEMMA StallMoves ==
  ASSUME TypeInv, NEW l \in Lanes, JobStalls(l)
  PROVE  /\ \E j \in jobs[l] : j.state = "active" /\ Moved(l, j, "ready") /\ Runs(l, None)
         /\ line' = LoseFromLine({j.d : j \in {k \in jobs[l] : k.state = "active"}})
         /\ UNCHANGED <<done, prompts, stage, task, slipped, rowVars>>
<1>1. QueueTypeOK /\ "ready" \in JobStates
  BY TypeFacts DEF JobStates
<1>. QED  BY <1>1, JobMoves DEF JobStalls, Stall

\* What is put in a queue.
LEMMA QueueMoves ==
  ASSUME TypeInv, NEW p \in prompts, Queue(p)
  PROVE  /\ p.d \in Deliveries /\ p.lane \in Lanes /\ prompts' = prompts \ {p}
         /\ UNCHANGED <<runner, done, stage, task, slipped, rowVars>>
         /\ \A m \in Lanes \ {p.lane} : jobs'[m] = jobs[m]
         /\ \E j \in Job :
              /\ j.d = p.d /\ j.tag = p.tag /\ j.state = "ready" /\ (j.tag = 0 => j.ord = j.d)
              /\ \/ jobs'[p.lane] = jobs[p.lane] \cup {j}
                 \/ jobs'[p.lane] = jobs[p.lane] /\ Repeated(p.lane, j)
<1>1. p \in Prompt /\ QueueTypeOK
  BY TypeFacts
<1>2. p.d \in Deliveries /\ p.lane \in Lanes
  BY <1>1 DEF Prompt
<1>3. PICK o \in Orders(p) : Enqueue(p.lane, JobOf(p, o, "ready"))
  BY DEF Queue
<1>. DEFINE j == JobOf(p, o, "ready")
<1>4. o \in Nat /\ (p.tag = 0 => o = p.d)
  BY <1>2, <1>3, DeliveriesAssumption DEF Orders
<1>5. j \in Job /\ j.d = p.d /\ j.tag = p.tag /\ j.state = "ready" /\ (j.tag = 0 => j.ord = j.d)
  BY <1>1, <1>2, <1>4 DEF JobOf, Job, Prompt
<1>6. prompts' = prompts \ {p} /\ UNCHANGED <<stage, task, slipped, rowVars>>
  BY DEF Queue
<1>. HIDE DEF j
<1>7. Enqueue(p.lane, j)
  BY <1>3 DEF j
<1>. QED  BY <1>1, <1>2, <1>5, <1>6, <1>7, Enqueued

\* What moves aside goes to the other queue.
LEMMA MoveAsideMoves ==
  ASSUME TypeInv, NEW w \in Slots, MoveAside(w)
  PROVE  /\ stage[w] = "move" /\ jobs'["ordered"] = jobs["ordered"]
         /\ \/ jobs'["retry"] = jobs["retry"]
            \/ \E j \in Job : /\ j.d = task[w].d /\ j.state # "active"
                              /\ jobs'["retry"] = jobs["retry"] \cup {j}
<1>1. QueueTypeOK
  BY TypeFacts
<1>2. stage[w] = "move" /\ task[w] \in Task
  BY DEF MoveAside, TypeInv
<1>. DEFINE j == JobOf([task[w] EXCEPT !.n = @ + 1], task[w].ord, Wait(task[w].d))
<1>3. j \in Job /\ j.d = task[w].d /\ j.state # "active"
  BY <1>2 DEF JobOf, Job, Task, Wait
<1>4. Enqueue("retry", j) \/ jobs' = jobs
  BY DEF MoveAside
<1>. HIDE DEF j
<1>. QED  BY <1>1, <1>2, <1>3, <1>4, Enqueued

LEMMA QueueStep ==
  ASSUME TypeInv, QueueInv, [Next]_vars
  PROVE  QueueInv'
<1>. USE DEF QueueInv
<1>. USE NoSlotAssumption
<1>1. ASSUME UNCHANGED <<jobs, runner, stage, task>> PROVE QueueInv'
  BY <1>1
<1>2. ASSUME NEW d \in Deliveries, RowDue(d) PROVE QueueInv'
  <2>1. UNCHANGED <<runner, stage, task>>
    BY <1>2 DEF RowDue
  <2>2. \A l \in Lanes :
          /\ \A j \in jobs'[l] : j.state = "active" => j \in jobs[l]
          /\ \A j \in jobs[l] : j.state = "active" => j \in jobs'[l]
    BY <1>2, TypeFacts, RowDueMoves
  <2>. QED  BY <2>1, <2>2
<1>3. ASSUME NEW p \in prompts, Queue(p) PROVE QueueInv'
  <2>1. UNCHANGED <<runner, stage, task>>
    BY <1>3, QueueMoves
  <2>2. \A l \in Lanes :
          /\ \A j \in jobs'[l] : j.state = "active" => j \in jobs[l]
          /\ \A j \in jobs[l] : j \in jobs'[l]
    BY <1>3, QueueMoves
  <2>. QED  BY <2>1, <2>2
<1>4. ASSUME NEW l \in Lanes, NEW j \in jobs[l], Defer(l, j) \/ Skip(l, j) \/ SkipDisabled(l, j)
      PROVE  QueueInv'
  <2>1. runner[l] = None
    BY <1>4 DEF Defer, Skip, SkipDisabled, Deliverable
  <2>2. (Left(l, j) \/ Moved(l, j, "backoff")) /\ Runs(l, None) /\ UNCHANGED <<stage, task>>
    BY <1>4, ReserveMoves
  <2>. QED  BY <2>1, <2>2 DEF Left, Moved, Runs
<1>5. ASSUME NEW l \in Lanes, NEW j \in jobs[l], JobRipens(l, j) PROVE QueueInv'
  <2>1. j.state # "active"
    BY <1>5 DEF JobRipens, Ripen
  <2>2. Moved(l, j, "ready") /\ UNCHANGED <<runner, stage, task>>
    BY <1>5, ReserveMoves
  <2>3. \A m \in Lanes :
          /\ \A k \in jobs'[m] : k.state = "active" => k \in jobs[m]
          /\ \A k \in jobs[m] : k.state = "active" => k \in jobs'[m]
    BY <2>1, <2>2 DEF Moved
  <2>. QED  BY <2>2, <2>3
<1>6. ASSUME NEW l \in Lanes, NEW j \in jobs[l], NEW w \in Slots, Load(w, l, j) PROVE QueueInv'
  <2>1. runner[l] = None
    BY <1>6 DEF Load, Deliverable
  <2>2. /\ Moved(l, j, "active") /\ Runs(l, w) /\ stage[w] = "idle"
        /\ task'[w].lane = l /\ task'[w].d = j.d
        /\ \A v \in Slots \ {w} : stage'[v] = stage[v] /\ task'[v] = task[v]
    BY <1>6, ReserveMoves
  <2>. QED  BY <2>1, <2>2 DEF Moved, Runs
<1>7. ASSUME NEW l \in Lanes, JobStalls(l) PROVE QueueInv'
  <2>1. PICK j \in jobs[l] : j.state = "active" /\ Moved(l, j, "ready") /\ Runs(l, None)
    BY <1>7, StallMoves
  <2>2. UNCHANGED <<stage, task>>
    BY <1>7, StallMoves
  <2>. QED  BY <2>1, <2>2 DEF Moved, Runs
<1>8. ASSUME NEW w \in Slots, Work(w) PROVE QueueInv'
  <2>1. /\ stage[w] # "idle" /\ task[w].lane \in Lanes
        /\ \A v \in Slots \ {w} : stage'[v] = stage[v] /\ task'[v] = task[v]
    BY <1>8, WorkMoves, TaskFacts
  <2>2. CASE UNCHANGED <<jobs, runner>> /\ (task'[w] = task[w] \/ stage'[w] = "idle")
    BY <2>1, <2>2
  <2>3. CASE MoveAside(w) /\ runner' = runner /\ task'[w] = task[w]
    <3>1. \A l \in Lanes :
            /\ \A j \in jobs'[l] : j.state = "active" => j \in jobs[l]
            /\ \A j \in jobs[l] : j \in jobs'[l]
      BY <2>3, MoveAsideMoves
    <3>. QED  BY <2>1, <2>3, <3>1
  <2>4. CASE stage'[w] = "idle" /\ \E s \in {"retry", "backoff"} : Delayed(task[w].lane, w, s)
    <3>1. PICK s \in {"retry", "backoff"} : Delayed(task[w].lane, w, s)
      BY <2>4
    <3>2. CASE UNCHANGED <<jobs, runner>>
      BY <2>1, <2>4, <3>2
    <3>3. CASE \E j \in jobs[task[w].lane] :
                 Running(task[w].lane, w, j) /\ Moved(task[w].lane, j, s) /\ Runs(task[w].lane, None)
      <4>. DEFINE l == task[w].lane
      <4>1. PICK j \in jobs[l] : Running(l, w, j) /\ Moved(l, j, s) /\ Runs(l, None)
        BY <3>3
      <4>2. l \in Lanes
        BY <2>1
      <4>. HIDE DEF l
      <4>. QED  BY <2>1, <2>4, <3>1, <4>1, <4>2 DEF Running, Moved, Runs
    <3>. QED  BY <3>1, <3>2, <3>3 DEF Delayed
  <2>5. CASE stage'[w] = "idle" /\ Completed(task[w].lane, w)
    <3>2. CASE UNCHANGED <<jobs, runner>>
      BY <2>1, <2>5, <3>2
    <3>3. CASE \E j \in jobs[task[w].lane] :
                 Running(task[w].lane, w, j) /\ Left(task[w].lane, j) /\ Runs(task[w].lane, None)
      <4>. DEFINE l == task[w].lane
      <4>1. PICK j \in jobs[l] : Running(l, w, j) /\ Left(l, j) /\ Runs(l, None)
        BY <3>3
      <4>2. l \in Lanes
        BY <2>1
      <4>. HIDE DEF l
      <4>. QED  BY <2>1, <2>5, <4>1, <4>2 DEF Running, Left, Runs
    <3>. QED  BY <2>5, <3>2, <3>3 DEF Completed
  <2>. QED  BY <1>8, <2>2, <2>3, <2>4, <2>5, WorkMoves
<1>9. ASSUME RedisRestarts PROVE QueueInv'
  BY <1>9 DEF RedisRestarts, LoseEverything
<1>10. ASSUME NEW d \in Deliveries, RecordEvent(d) \/ Resend(d) \/ SweepRead(d) \/ LeaseEnds(d) \/ RowOverdue(d)
       PROVE  QueueInv'
  BY <1>1, <1>10 DEF RecordEvent, Resend, SweepRead, LeaseEnds, RowOverdue
<1>11. ASSUME \/ \E p \in prompts : PromptLost(p)
              \/ \E l \in Lanes : NameForgotten(l)
              \/ Pause \/ Resume \/ EndpointTime \/ UNCHANGED vars
       PROVE  QueueInv'
  BY <1>1, <1>11 DEF PromptLost, NameForgotten, Forget, Pause, Resume, EndpointTime, vars
<1>. HIDE DEF QueueInv
<1>. QED
  BY <1>2, <1>3, <1>4, <1>5, <1>6, <1>7, <1>8, <1>9, <1>10, <1>11 DEF Next, Reserve

\* Who has a place in the line got it when it was put in the ordered queue.
LEMMA LineMoves ==
  ASSUME TypeInv, [Next]_vars, NEW d \in Deliveries
  PROVE  /\ line[d] # "out" => line'[d] # "out"
         /\ line'[d] = "in" =>
              \/ line[d] = "in"
              \/ line[d] = "out" /\ \E p \in prompts : Queue(p) /\ p.d = d /\ p.lane = "ordered"
<1>. DEFINE Keeps == \/ line'[d] = line[d]
                     \/ line'[d] \in {"lost", "dropped"}
<1>0. line \in [Deliveries -> {"out", "in", "dropped", "lost"}]
  BY TypeFacts
<1>1. CASE \E e \in Deliveries : RecordEvent(e) \/ Resend(e) \/ SweepRead(e) \/ RowDue(e) \/ RowOverdue(e)
  BY <1>1 DEF RecordEvent, Resend, SweepRead, RowDue, RowOverdue
<1>2. CASE \E e \in Deliveries : LeaseEnds(e)
  BY <1>2 DEF LeaseEnds, LoseFromLine
<1>3. CASE \E p \in prompts : PromptLost(p)
  BY <1>3 DEF PromptLost
<1>4. CASE \E p \in prompts : Queue(p)
  <2>1. PICK p \in prompts : Queue(p)
    BY <1>4
  <2>2. line' = IF p.lane = "ordered" /\ line[p.d] = "out" THEN [line EXCEPT ![p.d] = "in"] ELSE line
    BY <2>1 DEF Queue
  <2>. QED  BY <1>0, <2>1, <2>2
<1>5. CASE \E l \in Lanes : \E j \in jobs[l] : Reserve(l, j) \/ JobRipens(l, j)
  <2>0. PICK l \in Lanes : \E j \in jobs[l] : Reserve(l, j) \/ JobRipens(l, j)
    BY <1>5
  <2>1. PICK j \in jobs[l] : Reserve(l, j) \/ JobRipens(l, j)
    BY <2>0
  <2>2. UNCHANGED line \/ Early(j)
    BY <2>1 DEF Reserve, JobRipens, Defer, Skip, SkipDisabled, Load
  <2>3. line' \in {line, [line EXCEPT ![j.d] = "dropped"]}
    BY <2>2 DEF Early
  <2>. QED  BY <1>0, <2>3
<1>6. CASE \E l \in Lanes : JobStalls(l) \/ NameForgotten(l)
  BY <1>6 DEF JobStalls, NameForgotten, LoseFromLine
<1>7. CASE \E w \in Slots : Work(w)
  BY <1>7 DEF Work, SandboxOut, Attempt, MarkDelivered, MarkFailed, Retry, MoveAside, Finish, Break,
              Crash, LoseFromLine
<1>8. CASE Pause \/ Resume \/ RedisRestarts \/ EndpointTime \/ UNCHANGED vars
  BY <1>8 DEF Pause, Resume, RedisRestarts, EndpointTime, LoseFromLine, vars
<1>. QED  BY <1>1, <1>2, <1>3, <1>4, <1>5, <1>6, <1>7, <1>8 DEF Next

\* Which queues a step reaches, as far as the ordered one can tell: its jobs are what
\* they were, or one that is just put there; its names are of jobs it had; a handler at
\* work was so before, or was given a job.
LEMMA OrderedMoves ==
  ASSUME TypeInv, [Next]_vars
  PROVE  /\ \A k \in jobs'["ordered"] :
              \/ \E j \in jobs["ordered"] : k.d = j.d /\ k.tag = j.tag /\ k.ord = j.ord
              \/ /\ \E p \in prompts : /\ Queue(p) /\ p.lane = "ordered" /\ p.d = k.d /\ p.tag = k.tag
                 /\ k.d \in Deliveries /\ (k.tag = 0 => k.ord = k.d)
         /\ \A name \in done'["ordered"] :
              name \in done["ordered"] \/ \E j \in jobs["ordered"] : name[1] = j.d
         /\ \A w \in Slots : stage'[w] # "idle" =>
              \/ stage[w] # "idle" /\ task'[w] = task[w]
              \/ \E l \in Lanes : \E j \in jobs[l] :
                   Load(w, l, j) /\ task'[w].lane = l /\ task'[w].d = j.d /\ task'[w].tag = j.tag
                   /\ stage'[w] = "loaded"
<1>. DEFINE JobsOK == \A k \in jobs'["ordered"] :
              \/ \E j \in jobs["ordered"] : k.d = j.d /\ k.tag = j.tag /\ k.ord = j.ord
              \/ /\ \E p \in prompts : /\ Queue(p) /\ p.lane = "ordered" /\ p.d = k.d /\ p.tag = k.tag
                 /\ k.d \in Deliveries /\ (k.tag = 0 => k.ord = k.d)
            NamesOK == \A name \in done'["ordered"] :
              name \in done["ordered"] \/ \E j \in jobs["ordered"] : name[1] = j.d
            TasksOK == \A w \in Slots : stage'[w] # "idle" =>
              \/ stage[w] # "idle" /\ task'[w] = task[w]
              \/ \E l \in Lanes : \E j \in jobs[l] :
                   Load(w, l, j) /\ task'[w].lane = l /\ task'[w].d = j.d /\ task'[w].tag = j.tag
                   /\ stage'[w] = "loaded"
<1>1. CASE UNCHANGED <<jobs, done, stage, task>>
  BY <1>1
<1>2. CASE \E d \in Deliveries : RowDue(d)
  <2>1. UNCHANGED <<done, stage, task>>
    BY <1>2 DEF RowDue
  <2>2. JobsOK
    BY <1>2, TypeFacts, RowDueMoves
  <2>. QED  BY <2>1, <2>2
<1>3. CASE \E p \in prompts : Queue(p)
  <2>1. PICK p \in prompts : Queue(p)
    BY <1>3
  <2>2. UNCHANGED <<done, stage, task>>
    BY <2>1, QueueMoves
  <2>3. JobsOK
    BY <2>1, QueueMoves
  <2>. QED  BY <2>2, <2>3
<1>4. CASE \E l \in Lanes : \E j \in jobs[l] : Defer(l, j) \/ Skip(l, j) \/ SkipDisabled(l, j) \/ JobRipens(l, j)
  <2>0. PICK l \in Lanes : \E j \in jobs[l] : Defer(l, j) \/ Skip(l, j) \/ SkipDisabled(l, j) \/ JobRipens(l, j)
    BY <1>4
  <2>1. PICK j \in jobs[l] : Defer(l, j) \/ Skip(l, j) \/ SkipDisabled(l, j) \/ JobRipens(l, j)
    BY <2>0
  <2>2. UNCHANGED <<stage, task>>
    BY <2>1, ReserveMoves
  <2>3. (\E s : Moved(l, j, s)) \/ Left(l, j)
    BY <2>1, ReserveMoves
  <2>4. done' = done \/ Known(l, j)
    BY <2>1, ReserveMoves
  <2>5. JobsOK
    BY <2>3 DEF Moved, Left
  <2>6. NamesOK
    BY <2>4 DEF Known
  <2>. QED  BY <2>2, <2>5, <2>6
<1>5. CASE \E l \in Lanes : \E j \in jobs[l] : \E w \in Slots : Load(w, l, j)
  <2>0. PICK l \in Lanes : \E j \in jobs[l] : \E w \in Slots : Load(w, l, j)
    BY <1>5
  <2>1. PICK j \in jobs[l], w \in Slots : Load(w, l, j)
    BY <2>0
  <2>2. /\ Moved(l, j, "active") /\ done' = done
        /\ stage'[w] = "loaded" /\ task'[w].lane = l /\ task'[w].d = j.d /\ task'[w].tag = j.tag
        /\ \A v \in Slots \ {w} : stage'[v] = stage[v] /\ task'[v] = task[v]
    BY <2>1, ReserveMoves
  <2>3. JobsOK
    BY <2>2 DEF Moved
  <2>4. TasksOK
    BY <2>1, <2>2
  <2>. QED  BY <2>2, <2>3, <2>4
<1>6. CASE \E l \in Lanes : JobStalls(l)
  <2>1. PICK l \in Lanes : JobStalls(l)
    BY <1>6
  <2>2. (\E j \in jobs[l] : Moved(l, j, "ready")) /\ UNCHANGED <<done, stage, task>>
    BY <2>1, StallMoves
  <2>. QED  BY <2>2 DEF Moved
<1>7. CASE \E w \in Slots : Work(w)
  <2>1. PICK w \in Slots : Work(w)
    BY <1>7
  <2>2. /\ stage[w] # "idle" /\ task[w].lane \in Lanes
        /\ \A v \in Slots \ {w} : stage'[v] = stage[v] /\ task'[v] = task[v]
        /\ task'[w] = task[w] \/ stage'[w] = "idle"
    BY <2>1, WorkMoves, TaskFacts
  <2>3. TasksOK
    BY <2>2
  <2>4. \/ jobs'["ordered"] = jobs["ordered"] /\ done' = done
        \/ \E s : Delayed(task[w].lane, w, s)
        \/ Completed(task[w].lane, w)
    BY <2>1, WorkMoves, MoveAsideMoves
  <2>5. JobsOK /\ NamesOK
    <3>1. CASE jobs'["ordered"] = jobs["ordered"] /\ done' = done
      BY <3>1
    <3>2. CASE \E s : Delayed(task[w].lane, w, s)
      BY <2>2, <3>2 DEF Delayed, Moved
    <3>3. CASE Completed(task[w].lane, w)
      BY <2>2, <3>3 DEF Completed, Left, Known
    <3>. QED  BY <2>4, <3>1, <3>2, <3>3
  <2>. QED  BY <2>3, <2>5
<1>8. CASE RedisRestarts
  BY <1>8 DEF RedisRestarts, LoseEverything
<1>9. CASE \E l \in Lanes : NameForgotten(l)
  <2>1. PICK l \in Lanes : NameForgotten(l)
    BY <1>9
  <2>2. UNCHANGED <<jobs, stage, task>> /\ done \in [Lanes -> SUBSET JobName]
        /\ \E name \in done[l] : done' = [done EXCEPT ![l] = done[l] \ {name}]
    BY <2>1, TypeFacts DEF NameForgotten, Forget
  <2>3. NamesOK
    BY <2>2
  <2>. QED  BY <2>2, <2>3
<1>10. CASE \E d \in Deliveries : RecordEvent(d) \/ Resend(d) \/ SweepRead(d) \/ LeaseEnds(d) \/ RowOverdue(d)
  <2>1. UNCHANGED <<jobs, done, stage, task>>
    BY <1>10 DEF RecordEvent, Resend, SweepRead, LeaseEnds, RowOverdue
  <2>. QED  BY <1>1, <2>1
<1>11. CASE (\E p \in prompts : PromptLost(p)) \/ Pause \/ Resume \/ EndpointTime \/ UNCHANGED vars
  <2>1. UNCHANGED <<jobs, done, stage, task>>
    BY <1>11 DEF PromptLost, Pause, Resume, EndpointTime, vars
  <2>. QED  BY <1>1, <2>1
<1>. HIDE DEF JobsOK, NamesOK, TasksOK
<1>12. JobsOK /\ NamesOK /\ TasksOK
  BY <1>1, <1>2, <1>3, <1>4, <1>5, <1>6, <1>7, <1>8, <1>9, <1>10, <1>11 DEF Next, Reserve, JobsOK, NamesOK, TasksOK
<1>. QED  BY <1>12 DEF JobsOK, NamesOK, TasksOK

LEMMA LineStep ==
  ASSUME TypeInv, LineInv, [Next]_vars
  PROVE  LineInv'
<1>0. /\ \A j \in jobs["ordered"] : j.d \in Deliveries
      /\ \A name \in done["ordered"] : name[1] \in Deliveries
      /\ \A w \in Slots : stage[w] # "idle" => task[w].d \in Deliveries
      /\ line \in [Deliveries -> {"out", "in", "dropped", "lost"}]
  BY TypeFacts, TaskFacts DEF Job, JobName
<1>1. \A d \in Deliveries : line[d] # "out" => line'[d] # "out"
  BY LineMoves
<1>2. ASSUME NEW p \in prompts, Queue(p), p.lane = "ordered" PROVE line'[p.d] # "out"
  <2>1. line' = IF line[p.d] = "out" THEN [line EXCEPT ![p.d] = "in"] ELSE line
    BY <1>2 DEF Queue
  <2>2. p.d \in Deliveries
    BY TypeFacts DEF Prompt
  <2>. QED  BY <1>0, <2>1, <2>2
<1>3. \A k \in jobs'["ordered"] : line'[k.d] # "out" /\ (k.tag = 0 => k.ord = k.d)
  BY <1>0, <1>1, <1>2, OrderedMoves DEF LineInv
<1>4. \A name \in done'["ordered"] : line'[name[1]] # "out"
  BY <1>0, <1>1, OrderedMoves DEF LineInv
<1>5. ASSUME NEW w \in Slots, stage'[w] # "idle", task'[w].lane = "ordered"
      PROVE  line'[task'[w].d] # "out"
  <2>1. CASE stage[w] # "idle" /\ task'[w] = task[w]
    BY <1>0, <1>1, <1>5, <2>1 DEF LineInv
  <2>2. CASE \E j \in jobs["ordered"] : task'[w].d = j.d
    BY <1>0, <1>1, <2>2 DEF LineInv
  <2>. QED  BY <1>5, <2>1, <2>2, OrderedMoves
<1>. QED  BY <1>3, <1>4, <1>5 DEF LineInv

-----------------------------------------------------------------------------
(* The ordered lane                                                        *)

\* What a step does to the row of a delivery that stays on the ordered lane: only its
\* handler answers for it, and nobody sends it again.
LEMMA RowMoves ==
  ASSUME TypeInv, LeaseInv, [Next]_vars,
         NEW d \in Deliveries \ slipped', lane'[d] = "ordered"
  PROVE  /\ d \notin slipped /\ lane[d] = "ordered"
         /\ status[d] \in {"delivered", "failed"} => status'[d] \in {"delivered", "failed"}
         /\ status'[d] = "pending" => status[d] \in {"pending", "absent"}
         /\ nextAt'[d] = "later" =>
              nextAt[d] = "later" \/ \E w \in Slots : MarkFailed(w) /\ task[w].d = d
         /\ d \in leased' =>
              \/ d \in leased
              \/ \E l \in Lanes : \E j \in jobs[l] : \E w \in Slots : Load(w, l, j) /\ j.d = d
         /\ ~Resend(d)
<1>0. /\ status \in [Deliveries -> {"absent", "pending", "delivered", "failed"}]
      /\ lane \in [Deliveries -> Lanes]
      /\ nextAt \in [Deliveries -> {"null", "later", "due", "overdue"}]
  BY TypeFacts
<1>r. ~Resend(d)
  BY <1>0 DEF Resend, Reopen
<1>1. CASE UNCHANGED rowVars /\ slipped \subseteq slipped'
  BY <1>r, <1>1
<1>2. CASE \E e \in Deliveries : RecordEvent(e)
  BY <1>0, <1>r, <1>2 DEF RecordEvent, InsertRow
<1>3. CASE \E e \in Deliveries : Resend(e)
  <2>1. PICK e \in Deliveries : Resend(e)
    BY <1>3
  <2>2. e # d
    BY <1>r, <2>1
  <2>. QED  BY <1>0, <1>r, <2>1, <2>2 DEF Resend, Reopen
<1>4. CASE \E e \in Deliveries : LeaseEnds(e) \/ RowDue(e) \/ RowOverdue(e)
  BY <1>0, <1>r, <1>4 DEF LeaseEnds, LeaseRunsOut, ReleaseRow, RowDue, BecomesDue, RowOverdue, BecomesOverdue
<1>5. CASE \E l \in Lanes : \E j \in jobs[l] : SkipDisabled(l, j)
  <2>0. PICK l \in Lanes : \E j \in jobs[l] : SkipDisabled(l, j)
    BY <1>5
  <2>1. PICK j \in jobs[l] : SkipDisabled(l, j)
    BY <2>0
  <2>2. /\ UNCHANGED <<lane, slipped>> /\ leased' = leased \ {j.d}
        /\ status' = [status EXCEPT ![j.d] = "failed"] /\ nextAt' = [nextAt EXCEPT ![j.d] = "null"]
        /\ status[j.d] = "pending"
    BY <2>1 DEF SkipDisabled, FailDisabled, Claimable
  <2>. QED  BY <1>0, <1>r, <2>2
<1>6. CASE \E l \in Lanes : \E j \in jobs[l] : \E w \in Slots : Load(w, l, j)
  <2>0. PICK l \in Lanes : \E j \in jobs[l] : \E w \in Slots : Load(w, l, j)
    BY <1>6
  <2>1. PICK j \in jobs[l], w \in Slots : Load(w, l, j)
    BY <2>0
  <2>2. UNCHANGED <<status, lane, nextAt, slipped>> /\ leased' = leased \cup {j.d}
    BY <2>1 DEF Load, ClaimRow
  <2>. QED  BY <1>r, <2>1, <2>2
<1>7. CASE \E w \in Slots : Work(w)
  <2>1. PICK w \in Slots : Work(w)
    BY <1>7
  <2>2. task[w].d \in Deliveries /\ task[w].home \in Lanes
    BY <2>1, WorkMoves, TaskFacts
  <2>3. CASE UNCHANGED rowVars /\ slipped \subseteq slipped'
    BY <1>1, <2>3
  <2>4. CASE SandboxOut(w)
    BY <1>r, <2>4 DEF SandboxOut, ReleaseRow
  <2>5. CASE MarkDelivered(w)
    BY <1>0, <1>r, <2>5 DEF MarkDelivered, RecordDelivered
  <2>6. CASE MarkFailed(w)
    <3>1. PICK to \in NextLanes(w) : RecordFailed(task[w].d, task[w].attempts + 1, Final(w), to)
      BY <2>6 DEF MarkFailed
    <3>2. stage[w] \in {"bad", "gone"} /\ slipped' = slipped
      BY <2>6 DEF MarkFailed
    <3>3. CASE task[w].d # d
      BY <1>0, <1>r, <2>2, <3>1, <3>2, <3>3 DEF RecordFailed
    <3>4. CASE task[w].d = d
      <4>1. status[d] = "pending" /\ task[w].home = lane[d]
        BY <3>2, <3>4 DEF LeaseInv, Holding
      <4>2. to = "ordered"
        BY <1>0, <3>1, <3>4 DEF RecordFailed
      <4>3. lane[d] = "ordered"
        BY <1>0, <3>1, <4>1, <4>2 DEF NextLanes
      <4>4. d \notin leased'
        BY <3>1, <3>4 DEF RecordFailed
      <4>. QED  BY <1>r, <2>6, <3>2, <3>4, <4>1, <4>3, <4>4
    <3>. QED  BY <3>3, <3>4
  <2>7. \/ UNCHANGED rowVars /\ slipped \subseteq slipped'
        \/ SandboxOut(w) \/ MarkDelivered(w) \/ MarkFailed(w)
    BY <2>1 DEF Work, Attempt, Retry, MoveAside, Finish, Break, Crash
  <2>. QED  BY <2>3, <2>4, <2>5, <2>6, <2>7
<1>8. CASE \/ \E e \in Deliveries : SweepRead(e)
           \/ \E p \in prompts : Queue(p) \/ PromptLost(p)
           \/ \E l \in Lanes : JobStalls(l) \/ NameForgotten(l)
           \/ \E l \in Lanes : \E j \in jobs[l] : Defer(l, j) \/ Skip(l, j) \/ JobRipens(l, j)
           \/ Pause \/ Resume \/ RedisRestarts \/ EndpointTime \/ UNCHANGED vars
  <2>1. UNCHANGED rowVars /\ slipped \subseteq slipped'
    BY <1>8 DEF SweepRead, Queue, PromptLost, JobStalls, NameForgotten, Defer, Skip, JobRipens,
                Pause, Resume, RedisRestarts, EndpointTime, vars
  <2>. QED  BY <1>1, <2>1
<1>. QED  BY <1>2, <1>3, <1>4, <1>5, <1>6, <1>7, <1>8 DEF Next, Reserve

\* Where the retry lane's jobs come from.
LEMMA RetryMoves ==
  ASSUME TypeInv, [Next]_vars, NEW k \in jobs'["retry"]
  PROVE  \/ \E j \in jobs["retry"] : k.d = j.d
         \/ \E p \in prompts : p.lane = "retry" /\ p.d = k.d
         \/ \E w \in Slots : stage[w] = "move" /\ task[w].d = k.d
<1>1. CASE UNCHANGED jobs
  BY <1>1
<1>2. CASE \E d \in Deliveries : RowDue(d)
  BY <1>2, TypeFacts, RowDueMoves
<1>3. CASE \E p \in prompts : Queue(p)
  BY <1>3, QueueMoves
<1>4. CASE \E l \in Lanes : \E j \in jobs[l] : Reserve(l, j) \/ JobRipens(l, j)
  <2>1. \E l \in Lanes : \E j \in jobs[l] : (\E s : Moved(l, j, s)) \/ Left(l, j)
    BY <1>4, ReserveMoves DEF Reserve
  <2>. QED  BY <2>1 DEF Moved, Left
<1>5. CASE \E l \in Lanes : JobStalls(l)
  <2>1. \E l \in Lanes : \E j \in jobs[l] : Moved(l, j, "ready")
    BY <1>5, StallMoves
  <2>. QED  BY <2>1 DEF Moved
<1>6. CASE \E w \in Slots : Work(w)
  <2>1. PICK w \in Slots : Work(w)
    BY <1>6
  <2>2. task[w].lane \in Lanes
    BY <2>1, WorkMoves, TaskFacts
  <2>3. CASE UNCHANGED jobs
    BY <2>3
  <2>4. CASE MoveAside(w)
    BY <2>4, MoveAsideMoves
  <2>5. CASE (\E s : Delayed(task[w].lane, w, s)) \/ Completed(task[w].lane, w)
    <3>. DEFINE l == task[w].lane
    <3>1. jobs' = jobs \/ \E j \in jobs[l] : (\E s : Moved(l, j, s)) \/ Left(l, j)
      BY <2>5 DEF Delayed, Completed
    <3>2. l \in Lanes
      BY <2>2
    <3>. HIDE DEF l
    <3>. QED  BY <3>1, <3>2 DEF Moved, Left
  <2>. QED  BY <2>1, <2>3, <2>4, <2>5, WorkMoves
<1>7. CASE RedisRestarts
  BY <1>7 DEF RedisRestarts, LoseEverything
<1>8. CASE \/ \E e \in Deliveries : RecordEvent(e) \/ Resend(e) \/ SweepRead(e) \/ LeaseEnds(e) \/ RowOverdue(e)
           \/ \E p \in prompts : PromptLost(p)
           \/ \E l \in Lanes : NameForgotten(l)
           \/ Pause \/ Resume \/ EndpointTime \/ UNCHANGED vars
  <2>1. UNCHANGED jobs
    BY <1>8 DEF RecordEvent, Resend, SweepRead, LeaseEnds, RowOverdue, PromptLost, NameForgotten,
                Forget, Pause, Resume, EndpointTime, vars
  <2>. QED  BY <2>1
<1>. QED  BY <1>2, <1>3, <1>4, <1>5, <1>6, <1>7, <1>8 DEF Next

\* How a handler gets past its outcome.
LEMMA StageMoves ==
  ASSUME TypeInv, [Next]_vars, NEW w \in Slots
  PROVE  /\ stage'[w] = "move" =>
              \/ stage[w] = "move"
              \/ MarkFailed(w) /\ lane'[task[w].d] # task[w].lane
         /\ stage'[w] = "finish" =>
              \/ stage[w] \in {"finish", "move"}
              \/ (MarkDelivered(w) \/ MarkFailed(w)) /\ status'[task[w].d] \in {"delivered", "failed"}
<1>0. /\ stage \in [Slots -> Stages] /\ lane \in [Deliveries -> Lanes]
      /\ status \in [Deliveries -> {"absent", "pending", "delivered", "failed"}]
  BY TypeFacts
<1>1. CASE UNCHANGED stage
  BY <1>1
<1>2. CASE \E l \in Lanes : \E j \in jobs[l] : \E v \in Slots : Load(v, l, j)
  BY <1>0, <1>2 DEF Load
<1>3. CASE \E v \in Slots \ {w} : Work(v)
  BY <1>3, WorkMoves
<1>4. CASE Work(w)
  <2>1. task[w].d \in Deliveries
    BY <1>4, WorkMoves, TaskFacts
  <2>2. CASE SandboxOut(w) \/ Retry(w) \/ Finish(w) \/ Break(w) \/ Crash(w)
    BY <1>0, <2>2 DEF SandboxOut, Retry, Finish, Break, Crash, Rest
  <2>3. CASE \E answer \in {"ok", "bad", "gone"} : Attempt(w, answer)
    BY <1>0, <2>3 DEF Attempt
  <2>4. CASE MoveAside(w)
    BY <1>0, <2>4 DEF MoveAside
  <2>5. CASE MarkDelivered(w)
    BY <1>0, <2>1, <2>5 DEF MarkDelivered, RecordDelivered
  <2>6. CASE MarkFailed(w)
    <3>1. PICK to \in NextLanes(w) :
             /\ RecordFailed(task[w].d, task[w].attempts + 1, Final(w), to)
             /\ stage' = [stage EXCEPT ![w] =
                            IF Final(w) THEN "finish"
                            ELSE IF to = task[w].lane THEN "retry" ELSE "move"]
      BY <2>6 DEF MarkFailed
    <3>2. lane'[task[w].d] = to /\ (Final(w) => status'[task[w].d] = "failed")
      BY <1>0, <2>1, <3>1 DEF RecordFailed
    <3>. QED  BY <1>0, <2>6, <3>1, <3>2
  <2>. QED  BY <1>4, <2>2, <2>3, <2>4, <2>5, <2>6 DEF Work
<1>5. CASE \/ \E e \in Deliveries : \/ RecordEvent(e) \/ Resend(e) \/ SweepRead(e) \/ LeaseEnds(e)
                                    \/ RowDue(e) \/ RowOverdue(e)
           \/ \E p \in prompts : Queue(p) \/ PromptLost(p)
           \/ \E l \in Lanes : JobStalls(l) \/ NameForgotten(l)
           \/ \E l \in Lanes : \E j \in jobs[l] : Defer(l, j) \/ Skip(l, j) \/ SkipDisabled(l, j) \/ JobRipens(l, j)
           \/ Pause \/ Resume \/ RedisRestarts \/ EndpointTime \/ UNCHANGED vars
  <2>1. UNCHANGED stage
    BY <1>5 DEF RecordEvent, Resend, SweepRead, LeaseEnds, RowDue, RowOverdue, Queue, PromptLost,
                JobStalls, NameForgotten, Defer, Skip, SkipDisabled, JobRipens,
                Pause, Resume, RedisRestarts, EndpointTime, vars
  <2>. QED  BY <2>1
<1>. QED  BY <1>2, <1>3, <1>4, <1>5 DEF Next, Reserve

\* What is about to be queued.
LEMMA PromptMoves ==
  ASSUME TypeInv, [Next]_vars, NEW p \in prompts'
  PROVE  \/ p \in prompts
         \/ p.lane = "ordered" /\ p.tag = 0
         \/ p.lane = lane[p.d] /\ p.tag = 0
         \/ Resend(p.d)
<1>1. CASE prompts' \subseteq prompts
  BY <1>1
<1>2. CASE \E d \in Deliveries : RecordEvent(d) \/ SweepRead(d)
  BY <1>2 DEF RecordEvent, SweepRead
<1>3. CASE \E d \in Deliveries : Resend(d)
  <2>1. PICK d \in Deliveries : Resend(d)
    BY <1>3
  <2>2. p \in prompts \/ p.d = d
    BY <2>1 DEF Resend
  <2>. QED  BY <2>1, <2>2
<1>4. CASE \E w \in Slots : Work(w)
  BY <1>4, WorkMoves
<1>5. CASE \/ \E e \in Deliveries : LeaseEnds(e) \/ RowDue(e) \/ RowOverdue(e)
           \/ \E q \in prompts : Queue(q) \/ PromptLost(q)
           \/ \E l \in Lanes : JobStalls(l) \/ NameForgotten(l)
           \/ \E l \in Lanes : \E j \in jobs[l] : Reserve(l, j) \/ JobRipens(l, j)
           \/ Pause \/ Resume \/ RedisRestarts \/ EndpointTime \/ UNCHANGED vars
  <2>1. ASSUME \E q \in prompts : Queue(q) \/ PromptLost(q) PROVE prompts' \subseteq prompts
    BY <2>1 DEF Queue, PromptLost
  <2>2. ASSUME NEW l \in Lanes, NEW j \in jobs[l], Reserve(l, j) \/ JobRipens(l, j)
        PROVE  prompts' \subseteq prompts
    BY <2>2 DEF Reserve, Defer, Skip, SkipDisabled, Load, JobRipens
  <2>3. ASSUME \/ \E e \in Deliveries : LeaseEnds(e) \/ RowDue(e) \/ RowOverdue(e)
               \/ \E l \in Lanes : JobStalls(l) \/ NameForgotten(l)
               \/ Pause \/ Resume \/ RedisRestarts \/ EndpointTime \/ UNCHANGED vars
        PROVE  prompts' \subseteq prompts
    BY <2>3 DEF LeaseEnds, RowDue, RowOverdue, JobStalls, NameForgotten, Pause, Resume,
                RedisRestarts, EndpointTime, vars
  <2>. HIDE DEF Lanes
  <2>. QED  BY <1>5, <2>1, <2>2, <2>3
<1>. QED  BY <1>1, <1>2, <1>3, <1>4, <1>5 DEF Next

LEMMA LaneStep ==
  ASSUME TypeInv, LeaseInv, LineInv, LaneInv, [Next]_vars
  PROVE  LaneInv'
<1> SUFFICES ASSUME NEW d \in Deliveries \ slipped', lane'[d] = "ordered"
             PROVE  /\ \A p \in prompts' : p.d = d => p.lane = "ordered" /\ p.tag = 0
                    /\ \A j \in jobs'["retry"] : j.d # d
                    /\ \A j \in jobs'["ordered"] : j.d = d => j.tag = 0
                    /\ \A w \in Slots : stage'[w] # "idle" /\ task'[w].d = d =>
                         /\ task'[w].lane = "ordered" /\ task'[w].tag = 0 /\ stage'[w] # "move"
                         /\ stage'[w] = "finish" => status'[d] \in {"delivered", "failed"}
                    /\ line'[d] = "out" => nextAt'[d] # "later" /\ d \notin leased'
  BY DEF LaneInv, Working
<1>. DEFINE Quits(w) == MarkFailed(w) /\ task[w].d = d
            Loads == \E l \in Lanes : \E j \in jobs[l] : \E w \in Slots : Load(w, l, j) /\ j.d = d
<1>1. /\ d \in Deliveries \ slipped /\ lane[d] = "ordered" /\ ~Resend(d)
      /\ status[d] \in {"delivered", "failed"} => status'[d] \in {"delivered", "failed"}
      /\ nextAt'[d] = "later" => nextAt[d] = "later" \/ \E w \in Slots : Quits(w)
      /\ d \in leased' => d \in leased \/ Loads
  BY RowMoves
<1>2. /\ \A p \in prompts : p.d = d => p.lane = "ordered" /\ p.tag = 0
      /\ \A j \in jobs["retry"] : j.d # d
      /\ \A j \in jobs["ordered"] : j.d = d => j.tag = 0
      /\ \A w \in Slots : stage[w] # "idle" /\ task[w].d = d =>
           /\ task[w].lane = "ordered" /\ task[w].tag = 0 /\ stage[w] # "move"
           /\ stage[w] = "finish" => status[d] \in {"delivered", "failed"}
      /\ line[d] = "out" => nextAt[d] # "later" /\ d \notin leased
  BY <1>1 DEF LaneInv, Working
<1>3. \A p \in prompts' : p.d = d => p.lane = "ordered" /\ p.tag = 0
  BY <1>1, <1>2, PromptMoves
<1>4. \A j \in jobs'["retry"] : j.d # d
  <2> SUFFICES ASSUME NEW j \in jobs'["retry"], j.d = d PROVE FALSE
    OBVIOUS
  <2>. QED  BY <1>2, RetryMoves
<1>5. \A j \in jobs'["ordered"] : j.d = d => j.tag = 0
  BY <1>2, OrderedMoves
<1>6. ASSUME NEW w \in Slots, stage'[w] # "idle", task'[w].d = d
      PROVE  /\ task'[w].lane = "ordered" /\ task'[w].tag = 0 /\ stage'[w] # "move"
             /\ stage'[w] = "finish" => status'[d] \in {"delivered", "failed"}
  <2>1. CASE stage[w] # "idle" /\ task'[w] = task[w]
    BY <1>1, <1>2, <1>6, <2>1, StageMoves
  <2>2. CASE \E l \in Lanes : \E j \in jobs[l] :
               task'[w].lane = l /\ task'[w].d = j.d /\ task'[w].tag = j.tag /\ stage'[w] = "loaded"
    BY <1>2, <1>6, <2>2
  <2>. QED  BY <1>6, <2>1, <2>2, OrderedMoves
<1>7. ASSUME line'[d] = "out" PROVE nextAt'[d] # "later" /\ d \notin leased'
  <2>1. line[d] = "out"
    BY <1>7, LineMoves
  <2>2. \A w \in Slots : ~Quits(w)
    BY <1>2, <2>1 DEF LineInv, MarkFailed
  <2>3. ~Loads
    BY <1>2, <2>1 DEF LineInv
  <2>. QED  BY <1>1, <1>2, <2>1, <2>2, <2>3
<1>. QED  BY <1>3, <1>4, <1>5, <1>6, <1>7

-----------------------------------------------------------------------------
(* A place in the line                                                     *)

RestInv == TypeInv /\ AbsentInv /\ LeaseInv /\ QueueInv /\ LineInv /\ LaneInv

\* Who has a place had it before, or was just put in the queue.
LEMMA NewPlace ==
  ASSUME RestInv, [Next]_vars, NEW d \in Deliveries, InPlace(d)'
  PROVE  /\ d \notin slipped /\ lane[d] = "ordered" /\ status[d] = "pending"
         /\ \/ line[d] = "in"
            \/ line[d] = "out" /\ \E p \in prompts : Queue(p) /\ p.d = d /\ p.lane = "ordered"
<1>1. d \notin slipped' /\ lane'[d] = "ordered" /\ status'[d] = "pending" /\ line'[d] = "in"
  BY DEF InPlace
<1>2. d \notin slipped /\ lane[d] = "ordered" /\ status[d] \in {"pending", "absent"}
  BY <1>1, RowMoves DEF RestInv
<1>3. \/ line[d] = "in"
      \/ line[d] = "out" /\ \E p \in prompts : Queue(p) /\ p.d = d /\ p.lane = "ordered"
  BY <1>1, LineMoves DEF RestInv
<1>4. status[d] # "absent"
  <2> SUFFICES ASSUME status[d] = "absent" PROVE FALSE
    OBVIOUS
  <2>1. line[d] = "out"
    BY DEF RestInv, AbsentInv
  <2>2. \E p \in prompts : Queue(p)
    BY <1>3, <2>1
  <2>3. status' = status
    BY <2>2 DEF Queue
  <2>. QED  BY <1>1, <2>3
<1>. QED  BY <1>2, <1>3, <1>4

\* It is put there with a job of its own.
LEMMA PlaceTaken ==
  ASSUME RestInv, NEW d \in Deliveries, d \notin slipped, lane[d] = "ordered", line[d] = "out",
         NEW p \in prompts, Queue(p), p.d = d, p.lane = "ordered"
  PROVE  HasPlace(d)'
<1>1. PICK j \in Job :
        /\ j.d = d
        /\ \/ jobs'["ordered"] = jobs["ordered"] \cup {j}
           \/ jobs'["ordered"] = jobs["ordered"] /\ Repeated("ordered", j)
  BY QueueMoves DEF RestInv
<1>2. ~Repeated("ordered", j)
  BY <1>1 DEF Repeated, Name, RestInv, LineInv
<1>3. UNCHANGED <<runner, stage, task, nextAt, leased>>
  BY QueueMoves DEF RestInv
<1>4. /\ nextAt[d] # "later" /\ d \notin leased
      /\ \A w \in Slots : ~Working(w, d)
  BY DEF RestInv, LaneInv, LineInv, Working
<1>. QED  BY <1>1, <1>2, <1>3, <1>4 DEF HasPlace, Working

\* What is left of a place when its own row and its own jobs are not touched.
LEMMA PlaceStays ==
  ASSUME NEW d \in Deliveries, HasPlace(d),
         nextAt'[d] = "later" => nextAt[d] = "later",
         d \in leased' => d \in leased,
         \A j \in jobs["ordered"] : j.d = d => j \in jobs'["ordered"],
         \A w \in Slots : Working(w, d) => stage'[w] = stage[w] /\ task'[w] = task[w],
         \A w \in Slots : Working(w, d)' => Working(w, d),
         (\E w \in Slots : Working(w, d)) => runner'["ordered"] = runner["ordered"]
  PROVE  HasPlace(d)'
<1>1. \E j \in jobs'["ordered"] : j.d = d
  BY DEF HasPlace
<1>2. ASSUME nextAt'[d] = "later" PROVE \E j \in jobs'["ordered"] : Waits(d, j)'
  <2>1. PICK j \in jobs["ordered"] : Waits(d, j)
    BY <1>2 DEF HasPlace
  <2>2. Waits(d, j)'
    BY <2>1 DEF Waits, Working
  <2>. QED  BY <2>1, <2>2 DEF Waits
<1>3. ASSUME d \in leased' PROVE \E w \in Slots : Holding(w, d)'
  <2>1. PICK w \in Slots : Holding(w, d)
    BY <1>3 DEF HasPlace
  <2>. QED  BY <2>1 DEF Holding, Working
<1>4. \A w \in Slots : Working(w, d)' => runner'["ordered"] = w
  BY DEF HasPlace
<1>. QED  BY <1>1, <1>2, <1>3, <1>4 DEF HasPlace

\* While the queue runs no job, nobody works on a delivery that is in its place.
LEMMA NobodyWorks ==
  ASSUME NEW d \in Deliveries, HasPlace(d), runner["ordered"] = None
  PROVE  /\ \A w \in Slots : ~Working(w, d)
         /\ d \notin leased
         /\ nextAt[d] = "later" => \E j \in jobs["ordered"] : j.d = d /\ j.state = "retry"
BY NoSlotAssumption DEF HasPlace, Working, Holding, Waits

\* A job of the queue is handed back or skipped.
LEMMA PlaceReserved ==
  ASSUME RestInv, [Next]_vars, NEW d \in Deliveries, InPlace(d), InPlace(d)', HasPlace(d),
         NEW l \in Lanes, NEW j \in jobs[l],
         Defer(l, j) \/ Skip(l, j) \/ SkipDisabled(l, j) \/ JobRipens(l, j)
  PROVE  HasPlace(d)'
<1>1. UNCHANGED <<stage, task>>
  BY ReserveMoves DEF RestInv
<1>2. /\ nextAt'[d] = "later" => nextAt[d] = "later"
      /\ d \in leased' => d \in leased
  BY DEF Defer, Skip, SkipDisabled, JobRipens, FailDisabled, RestInv, TypeInv, TypeOK, StoreTypeOK
<1>3. (\E s : Moved(l, j, s)) \/ Left(l, j)
  BY ReserveMoves DEF RestInv
<1>4. Runs(l, None) \/ runner' = runner
  BY ReserveMoves DEF RestInv
<1>5. CASE j.d # d \/ l = "retry"
  <2>1. j.d # d
    BY <1>5 DEF RestInv, LaneInv, InPlace
  <2>2. \A k \in jobs["ordered"] : k.d = d => k \in jobs'["ordered"]
    BY <1>3, <2>1 DEF Moved, Left
  <2>3. (\E w \in Slots : Working(w, d)) => runner'["ordered"] = runner["ordered"]
    <3>1. runner[l] = None \/ runner' = runner
      BY ReserveMoves DEF Defer, Skip, SkipDisabled, Deliverable, RestInv
    <3>. QED  BY <1>4, <3>1 DEF Runs
  <2>4. \A w \in Slots : /\ Working(w, d) => stage'[w] = stage[w] /\ task'[w] = task[w]
                         /\ Working(w, d)' => Working(w, d)
    BY <1>1 DEF Working
  <2>. QED  BY <1>2, <2>2, <2>3, <2>4, PlaceStays
<1>6. CASE j.d = d /\ l = "ordered" /\ JobRipens(l, j)
  <2>1. Moved(l, j, "ready") /\ runner' = runner
    BY <1>6, ReserveMoves DEF RestInv
  <2>2. j.state \in {"retry", "backoff"} /\ (j.state = "retry" => nextAt[d] # "later")
    BY <1>6 DEF JobRipens, Ripen, InPlace
  <2>3. nextAt' = nextAt /\ leased' = leased
    BY <1>6 DEF JobRipens
  <2>4. \E k \in jobs'["ordered"] : k.d = d
    BY <1>6, <2>1 DEF Moved
  <2>5. ASSUME nextAt'[d] = "later" PROVE \E k \in jobs'["ordered"] : Waits(d, k)'
    <3>1. PICK k \in jobs["ordered"] : Waits(d, k)
      BY <2>3, <2>5 DEF HasPlace
    <3>2. k # j
      BY <2>2, <2>3, <2>5, <3>1 DEF Waits
    <3>3. k \in jobs'["ordered"] /\ Waits(d, k)'
      BY <1>1, <1>6, <2>1, <3>1, <3>2 DEF Moved, Waits
    <3>. QED  BY <3>3
  <2>. QED  BY <1>1, <2>1, <2>3, <2>4, <2>5 DEF HasPlace, Holding, Working
<1>7. CASE j.d = d /\ l = "ordered" /\ (Defer(l, j) \/ Skip(l, j) \/ SkipDisabled(l, j))
  <2>1. runner["ordered"] = None
    BY <1>7 DEF Defer, Skip, SkipDisabled, Deliverable
  <2>2. /\ \A w \in Slots : ~Working(w, d)
        /\ d \notin leased
        /\ nextAt[d] = "later" => \E k \in jobs["ordered"] : k.d = d /\ k.state = "retry"
    BY <2>1, NobodyWorks
  <2>3. ~SkipDisabled(l, j)
    BY <1>7 DEF SkipDisabled, FailDisabled, InPlace, RestInv, TypeInv, TypeOK, StoreTypeOK
  <2>4. j.state # "retry"
    BY <1>7, <2>3 DEF Defer, Skip, Early, InPlace, RestInv, TypeInv, TypeOK
  <2>5. nextAt' = nextAt /\ leased' = leased
    BY <1>7, <2>3 DEF Defer, Skip
  <2>6. ASSUME nextAt[d] = "later" PROVE \E k \in jobs'["ordered"] : k.d = d /\ k.state = "retry"
    BY <1>3, <1>7, <2>2, <2>4, <2>6 DEF Moved, Left
  <2>7. \E k \in jobs'["ordered"] : k.d = d
    <3>1. CASE Defer(l, j)
      <4>1. Moved(l, j, "backoff")
        BY <3>1, ReserveMoves DEF RestInv
      <4>. QED  BY <1>7, <4>1 DEF Moved
    <3>2. CASE Skip(l, j)
      BY <1>7, <2>2, <2>6, <3>2 DEF Skip, Claimable, InPlace
    <3>. QED  BY <1>7, <2>3, <3>1, <3>2
  <2>8. \A w \in Slots : ~Working(w, d)'
    BY <1>1, <2>2 DEF Working
  <2>. QED  BY <2>2, <2>5, <2>6, <2>7, <2>8 DEF HasPlace, Waits
<1>. QED  BY <1>5, <1>6, <1>7

\* A handler is given a job.
LEMMA PlaceLoaded ==
  ASSUME RestInv, [Next]_vars, NEW d \in Deliveries, InPlace(d), HasPlace(d),
         NEW l \in Lanes, NEW j \in jobs[l], NEW w \in Slots, Load(w, l, j)
  PROVE  HasPlace(d)'
<1>1. /\ Moved(l, j, "active") /\ Runs(l, w)
      /\ stage[w] = "idle" /\ stage'[w] = "loaded"
      /\ task'[w].lane = l /\ task'[w].d = j.d /\ task'[w].tag = j.tag
      /\ \A v \in Slots \ {w} : stage'[v] = stage[v] /\ task'[v] = task[v]
  BY ReserveMoves DEF RestInv
<1>2. /\ nextAt' = nextAt /\ leased' = leased \cup {j.d}
      /\ runner[l] = None /\ Claimable(j.d)
  BY DEF Load, ClaimRow, Deliverable
<1>3. CASE j.d # d
  <2>1. \A k \in jobs["ordered"] : k.d = d => k \in jobs'["ordered"]
    BY <1>1, <1>3 DEF Moved
  <2>2. \A v \in Slots : /\ Working(v, d) => stage'[v] = stage[v] /\ task'[v] = task[v]
                         /\ Working(v, d)' => Working(v, d)
    BY <1>1, <1>3 DEF Working
  <2>3. (\E v \in Slots : Working(v, d)) => runner'["ordered"] = runner["ordered"]
    BY <1>1, <1>2, NobodyWorks DEF Runs
  <2>. QED  BY <1>2, <1>3, <2>1, <2>2, <2>3, PlaceStays
<1>4. CASE j.d = d
  <2>1. l = "ordered"
    BY <1>4 DEF RestInv, LaneInv, InPlace
  <2>2. \A v \in Slots : ~Working(v, d)
    BY <1>2, <2>1, NobodyWorks
  <2>3. nextAt'[d] # "later"
    BY <1>2, <1>4 DEF Claimable
  <2>4. \E k \in jobs'["ordered"] : k.d = d
    BY <1>1, <1>4, <2>1 DEF Moved
  <2>5. Holding(w, d)' /\ \A v \in Slots : Working(v, d)' => v = w
    BY <1>1, <1>4, <2>2 DEF Holding, Working
  <2>6. runner'["ordered"] = w
    BY <1>1, <2>1 DEF Runs
  <2>. QED  BY <2>3, <2>4, <2>5, <2>6 DEF HasPlace
<1>. QED  BY <1>3, <1>4

\* The active job is handed out again, which costs its delivery the place.
LEMMA PlaceStalled ==
  ASSUME RestInv, [Next]_vars, NEW d \in Deliveries, InPlace(d), InPlace(d)', HasPlace(d),
         NEW l \in Lanes, JobStalls(l)
  PROVE  HasPlace(d)'
<1>1. PICK j \in jobs[l] : j.state = "active" /\ Moved(l, j, "ready") /\ Runs(l, None)
  BY StallMoves DEF RestInv
<1>2. /\ UNCHANGED <<stage, task, nextAt, leased>>
      /\ line' = LoseFromLine({k.d : k \in {i \in jobs[l] : i.state = "active"}})
  BY StallMoves DEF RestInv
<1>3. j.d # d
  BY <1>1, <1>2 DEF LoseFromLine, InPlace
<1>4. \A k \in jobs["ordered"] : k.d = d => k \in jobs'["ordered"]
  BY <1>1, <1>3 DEF Moved
<1>5. \A w \in Slots : /\ Working(w, d) => stage'[w] = stage[w] /\ task'[w] = task[w]
                       /\ Working(w, d)' => Working(w, d)
  BY <1>2 DEF Working
<1>6. ASSUME NEW w \in Slots, Working(w, d) PROVE runner'["ordered"] = runner["ordered"]
  <2>1. CASE l = "retry"
    BY <1>1, <2>1 DEF Runs
  <2>2. CASE l = "ordered"
    <3>1. runner["ordered"] = w /\ task[w].lane = "ordered"
      BY <1>6 DEF HasPlace, RestInv, LaneInv, InPlace
    <3>2. \E k \in jobs["ordered"] : k.state = "active" /\ k.d = d
      BY <1>6, <3>1 DEF RestInv, QueueInv, Working
    <3>. QED  BY <1>1, <1>3, <2>2, <3>2 DEF RestInv, QueueInv
  <2>. QED  BY <2>1, <2>2
<1>. QED  BY <1>2, <1>4, <1>5, <1>6, PlaceStays

\* The job of a handler that is in its place is the one the queue runs.
LEMMA OwnJob ==
  ASSUME RestInv, NEW d \in Deliveries, InPlace(d), HasPlace(d), NEW w \in Slots, Working(w, d)
  PROVE  /\ runner["ordered"] = w /\ task[w].lane = "ordered" /\ stage[w] \notin {"move", "finish"}
         /\ \A v \in Slots : Working(v, d) => v = w
         /\ \E j \in jobs["ordered"] : j.state = "active" /\ j.d = d
         /\ \A j \in jobs["ordered"] : j.state = "active" => j.d = d
<1>1. runner["ordered"] = w /\ \A v \in Slots : Working(v, d) => v = w
  BY DEF HasPlace
<1>2. task[w].lane = "ordered" /\ stage[w] \notin {"move", "finish"}
  BY DEF RestInv, LaneInv, InPlace
<1>3. \E j \in jobs["ordered"] : j.state = "active" /\ j.d = d
  BY <1>1, <1>2 DEF RestInv, QueueInv, Working
<1>4. \A j \in jobs["ordered"] : j.state = "active" => j.d = d
  BY <1>3 DEF RestInv, QueueInv
<1>. QED  BY <1>1, <1>2, <1>3, <1>4

\* A handler that works on another delivery.
LEMMA PlaceBeside ==
  ASSUME RestInv, [Next]_vars, NEW d \in Deliveries, InPlace(d), HasPlace(d),
         NEW w \in Slots, Work(w), task[w].d # d
  PROVE  HasPlace(d)'
<1>1. /\ stage[w] # "idle" /\ task[w].lane \in Lanes /\ task[w].d \in Deliveries
      /\ \A v \in Slots \ {w} : stage'[v] = stage[v] /\ task'[v] = task[v]
      /\ task'[w] = task[w] \/ stage'[w] = "idle"
  BY WorkMoves, TaskFacts DEF RestInv
<1>2. /\ nextAt'[d] = nextAt[d]
      /\ d \in leased' => d \in leased
  BY <1>1, TypeFacts DEF Work, SandboxOut, Attempt, MarkDelivered, MarkFailed, Retry, MoveAside, Finish,
         Break, Crash, ReleaseRow, RecordDelivered, RecordFailed, RestInv
<1>3. \A v \in Slots : /\ Working(v, d) => stage'[v] = stage[v] /\ task'[v] = task[v]
                       /\ Working(v, d)' => Working(v, d)
  BY <1>1 DEF Working
<1>4. \/ jobs'["ordered"] = jobs["ordered"] /\ runner' = runner
      \/ \E s : Delayed(task[w].lane, w, s)
      \/ Completed(task[w].lane, w)
  BY WorkMoves, MoveAsideMoves DEF RestInv
<1>5. CASE jobs'["ordered"] = jobs["ordered"] /\ runner' = runner
  BY <1>2, <1>3, <1>5, PlaceStays
<1>6. CASE (\E s : Delayed(task[w].lane, w, s)) \/ Completed(task[w].lane, w)
  <2>. DEFINE l == task[w].lane
  <2>1. \/ UNCHANGED <<jobs, runner>>
        \/ \E j \in jobs[l] : /\ Running(l, w, j) /\ Runs(l, None)
                              /\ (\E s : Moved(l, j, s)) \/ Left(l, j)
    BY <1>6 DEF Delayed, Completed
  <2>2. CASE UNCHANGED <<jobs, runner>>
    BY <1>2, <1>3, <2>2, PlaceStays
  <2>3. ASSUME NEW j \in jobs[l], Running(l, w, j), Runs(l, None), (\E s : Moved(l, j, s)) \/ Left(l, j)
        PROVE  HasPlace(d)'
    <3>1. l \in Lanes
      BY <1>1
    <3>2. j.d # d
      <4>1. \E k \in jobs[l] : k.state = "active" /\ k.d = task[w].d
        BY <1>1, <2>3 DEF RestInv, QueueInv, Running
      <4>. QED  BY <2>3, <3>1, <4>1 DEF RestInv, QueueInv, Running
    <3>. HIDE DEF l
    <3>3. \A k \in jobs["ordered"] : k.d = d => k \in jobs'["ordered"]
      BY <2>3, <3>1, <3>2 DEF Moved, Left
    <3>4. (\E v \in Slots : Working(v, d)) => runner'["ordered"] = runner["ordered"]
      <4>1. CASE l = "retry"
        BY <2>3, <4>1 DEF Runs
      <4>2. CASE l = "ordered"
        BY <2>3, <3>2, <4>2, OwnJob DEF Running
      <4>. QED  BY <3>1, <4>1, <4>2
    <3>. QED  BY <1>2, <1>3, <3>3, <3>4, PlaceStays
  <2>. HIDE DEF l
  <2>. QED  BY <2>1, <2>2, <2>3
<1>. QED  BY <1>4, <1>5, <1>6

\* The handler that works on it.
LEMMA PlaceWorked ==
  ASSUME RestInv, [Next]_vars, NEW d \in Deliveries, InPlace(d), InPlace(d)', HasPlace(d),
         NEW w \in Slots, Work(w), task[w].d = d
  PROVE  HasPlace(d)'
<1>1. /\ stage[w] # "idle"
      /\ \A v \in Slots \ {w} : stage'[v] = stage[v] /\ task'[v] = task[v]
      /\ task'[w] = task[w] \/ stage'[w] = "idle"
  BY WorkMoves DEF RestInv
<1>2. /\ runner["ordered"] = w /\ task[w].lane = "ordered" /\ stage[w] \notin {"move", "finish"}
      /\ \A v \in Slots : Working(v, d) => v = w
      /\ \E j \in jobs["ordered"] : j.state = "active" /\ j.d = d
      /\ \A j \in jobs["ordered"] : j.state = "active" => j.d = d
  BY <1>1, OwnJob DEF Working
<1>3. \A v \in Slots : Working(v, d)' => v = w
  BY <1>1, <1>2 DEF Working
<1>0. /\ status \in [Deliveries -> {"absent", "pending", "delivered", "failed"}]
      /\ nextAt \in [Deliveries -> {"null", "later", "due", "overdue"}]
      /\ lane \in [Deliveries -> Lanes] /\ stage \in [Slots -> Stages]
  BY TypeFacts DEF RestInv
<1>4. CASE \E answer \in {"ok", "bad", "gone"} : Attempt(w, answer)
  <2>1. /\ UNCHANGED <<jobs, runner, nextAt, leased, task>>
        /\ stage[w] = "loaded" /\ stage'[w] \in {"ok", "bad", "gone"}
    BY <1>0, <1>4 DEF Attempt
  <2>2. ASSUME nextAt'[d] = "later" PROVE \E j \in jobs'["ordered"] : Waits(d, j)'
    <3>1. PICK j \in jobs["ordered"] : Waits(d, j)
      BY <2>1, <2>2 DEF HasPlace
    <3>2. j.state = "retry" /\ j.d = d
      BY <1>2, <2>1, <3>1 DEF Waits, Working
    <3>. QED  BY <2>1, <3>2 DEF Waits
  <2>3. Holding(w, d)'
    BY <2>1 DEF Holding
  <2>. QED  BY <1>2, <1>3, <2>1, <2>2, <2>3 DEF HasPlace
<1>5. CASE SandboxOut(w) \/ Retry(w)
  <2>1. \E s \in {"retry", "backoff"} : /\ Delay("ordered", w, s) /\ (Retry(w) => s = Wait(d))
    BY <1>2, <1>5 DEF SandboxOut, Retry, Wait
  <2>2. PICK s \in {"retry", "backoff"} : Delay("ordered", w, s) /\ (Retry(w) => s = Wait(d))
    BY <2>1
  <2>3. Delayed("ordered", w, s)
    <3>1. QueueTypeOK /\ s \in JobStates /\ "ordered" \in Lanes
      BY TypeFacts DEF RestInv, JobStates
    <3>. QED  BY <2>2, <3>1, HandlerMoves
  <2>4. PICK j \in jobs["ordered"] : Running("ordered", w, j) /\ Moved("ordered", j, s)
    BY <1>2, <2>3 DEF Delayed
  <2>5. j.d = d /\ j.state = "active"
    BY <1>2, <2>4 DEF Running
  <2>6. PICK k \in Job : k.d = d /\ k.state = s /\ jobs'["ordered"] = (jobs["ordered"] \ {j}) \cup {k}
    BY <2>4, <2>5 DEF Moved
  <2>7. nextAt' = nextAt /\ stage'[w] = "idle"
    BY <1>0, <1>5 DEF SandboxOut, Retry, ReleaseRow, Rest
  <2>8. ASSUME nextAt'[d] = "later" PROVE \E i \in jobs'["ordered"] : i.d = d /\ i.state = "retry"
    <3>1. CASE Retry(w)
      BY <2>2, <2>6, <2>7, <2>8, <3>1 DEF Wait
    <3>2. CASE SandboxOut(w)
      <4>1. PICK i \in jobs["ordered"] : Waits(d, i)
        BY <2>7, <2>8 DEF HasPlace
      <4>2. i.state = "retry" /\ i.d = d
        BY <1>2, <3>2, <4>1 DEF Waits, Working, SandboxOut
      <4>. QED  BY <2>5, <2>6, <4>2
    <3>. QED  BY <1>5, <3>1, <3>2
  <2>9. d \notin leased'
    <3>1. CASE SandboxOut(w)
      BY <3>1 DEF SandboxOut, ReleaseRow
    <3>2. CASE Retry(w)
      <4>1. leased' = leased /\ stage[w] = "retry"
        BY <3>2 DEF Retry
      <4>. QED  BY <1>2, <4>1 DEF HasPlace, Holding, Working
    <3>. QED  BY <1>5, <3>1, <3>2
  <2>10. \A v \in Slots : ~Working(v, d)'
    BY <1>3, <2>7 DEF Working
  <2>. QED  BY <2>6, <2>8, <2>9, <2>10 DEF HasPlace, Waits
<1>6. CASE MarkFailed(w)
  <2>1. PICK to \in NextLanes(w) :
           /\ RecordFailed(d, task[w].attempts + 1, Final(w), to)
           /\ stage' = [stage EXCEPT ![w] =
                          IF Final(w) THEN "finish"
                          ELSE IF to = task[w].lane THEN "retry" ELSE "move"]
    BY <1>6 DEF MarkFailed
  <2>2. to = "ordered" /\ ~Final(w) /\ d \notin leased'
    BY <1>0, <2>1 DEF RecordFailed, InPlace
  <2>3. stage'[w] = "retry" /\ UNCHANGED <<jobs, runner, task>>
    BY <1>0, <1>2, <1>6, <2>1, <2>2 DEF MarkFailed
  <2>. QED  BY <1>2, <1>3, <2>2, <2>3 DEF HasPlace, Waits
<1>7. ~MarkDelivered(w)
  BY <1>0 DEF MarkDelivered, RecordDelivered, InPlace
<1>8. ~MoveAside(w) /\ ~Finish(w)
  BY <1>2 DEF MoveAside, Finish
<1>9. ~Break(w) /\ ~Crash(w)
  BY DEF Break, Crash, LoseFromLine, InPlace
<1>. QED  BY <1>4, <1>5, <1>6, <1>7, <1>8, <1>9 DEF Work

LEMMA PlaceStep ==
  ASSUME RestInv, PlaceInv, [Next]_vars
  PROVE  PlaceInv'
<1> SUFFICES ASSUME NEW d \in Deliveries, InPlace(d)' PROVE HasPlace(d)'
  BY DEF PlaceInv
<1>1. /\ d \notin slipped /\ lane[d] = "ordered" /\ status[d] = "pending"
      /\ \/ line[d] = "in"
         \/ line[d] = "out" /\ \E p \in prompts : Queue(p) /\ p.d = d /\ p.lane = "ordered"
  BY NewPlace
<1>2. CASE line[d] = "out"
  BY <1>1, <1>2, PlaceTaken
<1>3. CASE line[d] = "in"
  <2>0. InPlace(d) /\ HasPlace(d)
    BY <1>1, <1>3 DEF InPlace, PlaceInv
  <2>1. CASE \E l \in Lanes : \E j \in jobs[l] : Reserve(l, j) \/ JobRipens(l, j)
    BY <2>0, <2>1, PlaceReserved, PlaceLoaded DEF Reserve
  <2>2. CASE \E l \in Lanes : JobStalls(l)
    BY <2>0, <2>2, PlaceStalled
  <2>3. CASE \E w \in Slots : Work(w)
    BY <2>0, <2>3, PlaceBeside, PlaceWorked
  <2>4. CASE RedisRestarts
    BY <1>3, <2>4 DEF RedisRestarts, LoseFromLine, InPlace
  <2>5. CASE \E e \in Deliveries : RowDue(e)
    <3>1. PICK e \in Deliveries : RowDue(e)
      BY <2>5
    <3>2. /\ UNCHANGED <<stage, task, runner, leased>>
          /\ nextAt' = [nextAt EXCEPT ![e] = "due"]
          /\ nextAt \in [Deliveries -> {"null", "later", "due", "overdue"}] /\ QueueTypeOK
      BY <3>1, TypeFacts DEF RowDue, BecomesDue, RestInv
    <3>3. \A k \in jobs["ordered"] : \E j \in jobs'["ordered"] : j.d = k.d /\ (k.d # e => j = k)
      BY <3>1, <3>2, RowDueMoves
    <3>4. CASE e = d
      BY <2>0, <3>2, <3>3, <3>4 DEF HasPlace, Holding, Working
    <3>5. CASE e # d
      <4>1. \A j \in jobs["ordered"] : j.d = d => j \in jobs'["ordered"]
        BY <3>3, <3>5
      <4>. QED  BY <2>0, <3>2, <3>5, <4>1, PlaceStays DEF Working
    <3>. QED  BY <3>4, <3>5
  <2>6. CASE \E p \in prompts : Queue(p)
    <3>1. UNCHANGED <<stage, task, runner, nextAt, leased>> /\ jobs["ordered"] \subseteq jobs'["ordered"]
      BY <2>6, QueueMoves DEF RestInv
    <3>. QED  BY <2>0, <3>1, PlaceStays DEF Working
  <2>7. CASE \E e \in Deliveries : RecordEvent(e) \/ Resend(e) \/ LeaseEnds(e) \/ RowOverdue(e)
    <3>1. UNCHANGED <<stage, task, runner, jobs>>
      BY <2>7 DEF RecordEvent, Resend, LeaseEnds, RowOverdue
    <3>2. /\ nextAt'[d] = "later" => nextAt[d] = "later"
          /\ d \in leased' => d \in leased
      BY <2>7, TypeFacts DEF RecordEvent, Resend, LeaseEnds, RowOverdue, InsertRow, Reopen,
                  LeaseRunsOut, ReleaseRow, BecomesOverdue, RestInv
    <3>. QED  BY <2>0, <3>1, <3>2, PlaceStays DEF Working
  <2>8. CASE \/ \E e \in Deliveries : SweepRead(e)
             \/ \E p \in prompts : PromptLost(p)
             \/ \E l \in Lanes : NameForgotten(l)
             \/ Pause \/ Resume \/ EndpointTime \/ UNCHANGED vars
    <3>1. UNCHANGED <<stage, task, runner, jobs, nextAt, leased>>
      BY <2>8 DEF SweepRead, PromptLost, NameForgotten, Forget, Pause, Resume, EndpointTime, vars
    <3>. QED  BY <2>0, <3>1, PlaceStays DEF Working
  <2>. QED  BY <2>1, <2>2, <2>3, <2>4, <2>5, <2>6, <2>7, <2>8 DEF Next
<1>. QED  BY <1>1, <1>2, <1>3

-----------------------------------------------------------------------------
(* The theorems                                                            *)

Inv == TypeInv /\ AbsentInv /\ RowInv /\ QueueInv /\ LineInv /\ LaneInv /\ PlaceInv

LEMMA InitInv == Init => Inv
<1> SUFFICES ASSUME Init PROVE Inv
  OBVIOUS
<1>. USE DEF Init, StoreInit, QueueInit
<1>1. TypeInv
  BY GapsAssumption, ResendsAssumption DEF TypeInv, TypeOK, StoreTypeOK, QueueTypeOK
<1>2. AbsentInv
  BY DEF AbsentInv, Working
<1>3. RowInv
  BY GapsAssumption DEF RowInv, LeaseInv, OutcomeInv, BudgetInv, Holding, Answered
<1>4. QueueInv /\ LineInv
  BY DEF QueueInv, LineInv
<1>5. LaneInv /\ PlaceInv
  BY DEF LaneInv, PlaceInv, InPlace, Working
<1>. QED  BY <1>1, <1>2, <1>3, <1>4, <1>5 DEF Inv

LEMMA InvStep == Inv /\ [Next]_vars => Inv'
<1> SUFFICES ASSUME Inv, [Next]_vars PROVE Inv'
  OBVIOUS
<1>1. TypeInv /\ AbsentInv /\ RowInv /\ QueueInv /\ LineInv /\ LaneInv /\ PlaceInv
  BY DEF Inv
<1>2. LeaseInv
  BY <1>1 DEF RowInv
<1>3. TypeInv' /\ AbsentInv' /\ RowInv'
  BY <1>1, TypeStep, AbsentStep, RowStep
<1>4. QueueInv' /\ LineInv' /\ LaneInv'
  BY <1>1, <1>2, QueueStep, LineStep, LaneStep
<1>5. PlaceInv'
  BY <1>1, <1>2, PlaceStep DEF RestInv
<1>. QED  BY <1>3, <1>4, <1>5 DEF Inv

\* The invariant from which everything below follows, for any number of deliveries,
\* handlers, gaps, resends, jobs and losses (webhooks/engine.ts, deliver.ts, db.ts).
THEOREM DeliveryInductive == Spec => []Inv
BY InitInv, InvStep, PTL DEF Spec

\* Rows, queues, handlers and history stay well typed.
THEOREM DeliveryTypeCorrect == Spec => []TypeOK
<1>1. Inv => TypeOK
  BY DEF Inv, TypeInv
<1>. QED  BY <1>1, DeliveryInductive, PTL

\* The endpoint accepts a delivery once, short of a lapsed lease or an attempt that was
\* not recorded, whatever jobs there are for its row (db.ts, load).
THEOREM AcceptedOnce == Spec => []TwiceOnlyIfSlipped
<1>1. Inv => TwiceOnlyIfSlipped
  <2> SUFFICES ASSUME Inv, NEW d \in Deliveries \ slipped PROVE accepted[d] # 2
    BY DEF TwiceOnlyIfSlipped
  <2>1. status[d] \in {"absent", "pending", "delivered", "failed"}
    BY TypeFacts DEF Inv
  <2>2. CASE status[d] = "absent"
    BY <2>2 DEF Inv, AbsentInv
  <2>3. CASE status[d] # "absent"
    BY <2>1, <2>3 DEF Inv, RowInv, OutcomeInv
  <2>. QED  BY <2>2, <2>3
<1>. QED  BY <1>1, DeliveryInductive, PTL

\* What the log says became of a delivery is what the endpoint did (db.ts,
\* markDelivered and markFailed).
THEOREM LogIsTrue == Spec => []VerdictTrue
<1>1. Inv => VerdictTrue
  BY DEF Inv, RowInv, OutcomeInv, VerdictTrue
<1>. QED  BY <1>1, DeliveryInductive, PTL

\* The policy's attempts are never exceeded, however often jobs are doubled, lost or
\* handed on, and for a delivery that is sent again from then on (schedule.ts).
THEOREM AttemptsAreBudgeted == Spec => []BudgetKept
<1>1. Inv => BudgetKept
  BY DEF Inv, RowInv, BudgetInv, BudgetKept
<1>. QED  BY <1>1, DeliveryInductive, PTL

\* The latest notice about the endpoint is true (health.ts).
THEOREM HealthIsTold == Spec => []HealthTold
<1>1. Init => HealthTold
  BY DEF Init, StoreInit, HealthTold
<1>2. ASSUME TypeOK, HealthTold, [Next]_vars PROVE HealthTold'
  <2>0. enabled \in BOOLEAN /\ health \in {"healthy", "failing", "disabled"}
    BY <1>2 DEF TypeOK, StoreTypeOK
  <2>1. CASE UNCHANGED <<enabled, health, told>>
    BY <1>2, <2>1 DEF HealthTold
  <2>2. CASE \E w \in Slots : MarkDelivered(w)
    <3>1. EndpointWorks
      BY <2>2 DEF MarkDelivered
    <3>2. CASE enabled
      BY <1>2, <2>0, <3>1, <3>2 DEF HealthTold, EndpointWorks
    <3>3. CASE ~enabled
      BY <1>2, <2>0, <3>1, <3>3 DEF HealthTold, EndpointWorks
    <3>. QED  BY <3>2, <3>3
  <2>3. CASE \E w \in Slots : MarkFailed(w)
    <3>1. \E counts, gone, final \in BOOLEAN : EndpointFails(counts, gone, final)
      BY <2>3, Zenon DEF MarkFailed, Final, Asked
    <3>2. PICK counts \in BOOLEAN, gone \in BOOLEAN, final \in BOOLEAN :
                EndpointFails(counts, gone, final)
      BY <3>1
    <3>3. \/ enabled' = FALSE /\ health' = "disabled" /\ told' = "disabled"
          \/ enabled' = enabled /\ health' = "failing" /\ told' = "failing"
          \/ UNCHANGED <<enabled, health, told>>
      BY <2>0, <3>2 DEF EndpointFails
    <3>4. CASE enabled' = enabled /\ health' = "failing" /\ told' = "failing"
      BY <3>4 DEF HealthTold
    <3>. QED  BY <2>1, <3>3, <3>4 DEF HealthTold
  <2>4. CASE Pause \/ Resume
    BY <1>2, <2>0, <2>4 DEF Pause, Resume, PauseEndpoint, ResumeEndpoint, HealthTold
  <2>5. CASE EndpointTime
    BY <2>1, <2>5 DEF EndpointTime, FailingAges
  <2>6. CASE \/ \E e \in Deliveries : \/ RecordEvent(e) \/ Resend(e) \/ SweepRead(e) \/ LeaseEnds(e)
                                      \/ RowDue(e) \/ RowOverdue(e)
             \/ \E p \in prompts : Queue(p) \/ PromptLost(p)
             \/ \E l \in Lanes : JobStalls(l) \/ NameForgotten(l)
             \/ \E l \in Lanes : \E j \in jobs[l] : Reserve(l, j) \/ JobRipens(l, j)
             \/ RedisRestarts \/ UNCHANGED vars
    <3>1. ASSUME NEW l \in Lanes, NEW j \in jobs[l], Reserve(l, j) \/ JobRipens(l, j)
          PROVE  UNCHANGED <<enabled, health, told>>
      BY <3>1 DEF Reserve, Defer, Skip, SkipDisabled, Load, JobRipens
    <3>2. ASSUME NEW e \in Deliveries, \/ RecordEvent(e) \/ Resend(e) \/ SweepRead(e)
                                       \/ LeaseEnds(e) \/ RowDue(e) \/ RowOverdue(e)
          PROVE  UNCHANGED <<enabled, health, told>>
      BY <3>2 DEF RecordEvent, Resend, SweepRead, LeaseEnds, RowDue, RowOverdue
    <3>3. ASSUME \/ \E p \in prompts : Queue(p) \/ PromptLost(p)
                 \/ \E l \in Lanes : JobStalls(l) \/ NameForgotten(l)
                 \/ RedisRestarts \/ UNCHANGED vars
          PROVE  UNCHANGED <<enabled, health, told>>
      BY <3>3 DEF Queue, PromptLost, JobStalls, NameForgotten, RedisRestarts, vars
    <3>. HIDE DEF Lanes
    <3>4. UNCHANGED <<enabled, health, told>>
      BY <2>6, <3>1, <3>2, <3>3
    <3>. QED  BY <2>1, <3>4
  <2>7. CASE \E w \in Slots : Work(w)
    <3>1. PICK w \in Slots : Work(w)
      BY <2>7
    <3>2. UNCHANGED <<enabled, health, told>> \/ MarkDelivered(w) \/ MarkFailed(w)
      BY <3>1 DEF Work, SandboxOut, Attempt, Retry, MoveAside, Finish, Break, Crash
    <3>. QED  BY <2>1, <2>2, <2>3, <3>2
  <2>. QED  BY <1>2, <2>2, <2>3, <2>4, <2>5, <2>6, <2>7 DEF Next
<1>. QED  BY <1>1, <1>2, DeliveryTypeCorrect, PTL DEF Spec

\* On the ordered lane nobody is overtaken, unless its job was lost on the way, or
\* chained early and dropped (engine.ts).
THEOREM OrderIsKept == Spec => OrderKept
<1>. DEFINE InOrder == \A w \in Slots : \A e \in Deliveries :
                         StartsInOrder(w, e) => Waiting(e, {"in"}) \subseteq slipped
<1>1. Inv /\ [Next]_vars => InOrder
  <2> SUFFICES ASSUME Inv, [Next]_vars, NEW w \in Slots, NEW e \in Deliveries,
                      StartsInOrder(w, e), NEW d \in Waiting(e, {"in"}), d \notin slipped
               PROVE  FALSE
    OBVIOUS
  <2>1. d \in Deliveries /\ d < e /\ InPlace(d)
    BY DEF Waiting, InPlace
  <2>2. PICK k \in jobs["ordered"] : k.d = d
    BY <2>1 DEF Inv, PlaceInv, HasPlace
  <2>3. k.ord = d
    BY <2>1, <2>2 DEF Inv, LaneInv, LineInv, InPlace
  <2>4. PICK j \in jobs["ordered"] : Load(w, "ordered", j) /\ j.d = e /\ j.tag = 0
    <3>1. stage[w] = "idle" /\ stage'[w] # "idle" /\ task'[w].d = e /\ task'[w].lane = "ordered"
          /\ task'[w].tag = 0
      BY DEF StartsInOrder
    <3>. QED  BY <3>1, OrderedMoves DEF Inv
  <2>5. j.ord = e /\ j.ord <= k.ord
    BY <2>2, <2>4 DEF Load, Deliverable, AtHead, Inv, LineInv
  <2>. QED  BY <2>1, <2>3, <2>5, DeliveriesAssumption
<1>. HIDE DEF InOrder
<1>2. Inv /\ [Next]_vars => [InOrder]_vars
  BY <1>1
<1>3. [][InOrder]_vars => OrderKept
  BY DEF InOrder, OrderKept
<1>. QED  BY <1>2, <1>3, DeliveryInductive, PTL DEF Spec
=============================================================================
