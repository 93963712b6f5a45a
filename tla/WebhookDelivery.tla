-------------------------- MODULE WebhookDelivery ---------------------------
(***************************************************************************)
(* The webhook delivery engine, for one endpoint: Postgres owes, Redis     *)
(* prompts.  Sharing the rows (WebhookStore) and the two lanes' queues     *)
(* (WebhookQueue) are                                                      *)
(*                                                                         *)
(*   - ingestion, which commits a delivery's row and then queues it;       *)
(*   - handlers of the two lanes' workers, which lease the row, send the   *)
(*     request, record the outcome and tell groupmq what to do with the    *)
(*     job;                                                                *)
(*   - the sweep, which re-queues rows that have been due for too long;    *)
(*   - people, who send a delivery again and pause or resume the endpoint. *)
(*                                                                         *)
(* Workers crash, leases run out under live handlers, jobs are handed out  *)
(* twice, every call to Postgres or Redis can throw, and Redis may come    *)
(* back empty.  The endpoint answers well, badly, 410, or not at all.      *)
(***************************************************************************)
EXTENDS WebhookStore, WebhookQueue

VARIABLES
    prompts,    \* jobs some process is about to enqueue: ingestion or a resend
                \* after its commit, the sweep after its read
    stage,      \* where each handler is
    task,       \* what it works on: the queue and the job it came from, and what it
                \* read of the row: attempts and, as home, lane
    resends,    \* how often a delivery was sent again
    \* The rest is history: nothing in the code reads it.
    tries,      \* attempts made at a delivery since it was recorded or reopened
    accepted,   \* how many of them the endpoint accepted: 0, 1, 2 or more
    slipped,    \* deliveries whose lease ran out under a live handler, or one of
                \* whose attempts was never recorded
    line        \* each delivery's place in the ordered queue: "out" before it is
                \* put there, "in"; "dropped" once its delayed retry was chained
                \* early, and so is dropped, at once or after a deferral that ends
                \* before its time; "lost" once Redis lost its job, or a handler
                \* of it broke, stalled or lost its lease

historyVars == <<tries, accepted, slipped, line>>
vars == <<rowVars, endpointVars, queueVars, prompts, stage, task, resends, historyVars>>

Stages == {"idle", "loaded", "ok", "bad", "gone", "retry", "move", "finish"}
Held == {"loaded", "ok", "bad", "gone"}     \* the outcome is not recorded yet
NoTask == [d |-> None]

Prompt == [lane : Lanes, d : Deliveries, n : Nat, tag : Nat]
Task == [lane : Lanes, d : Deliveries, n : Nat, tag : Nat, ord : Nat,
         attempts : Nat, home : Lanes]

TypeOK ==
    /\ StoreTypeOK
    /\ QueueTypeOK
    /\ prompts \subseteq Prompt
    /\ stage \in [Slots -> Stages]
    /\ task \in [Slots -> Task \cup {NoTask}]
    /\ resends \in [Deliveries -> 0..MaxResends]
    /\ tries \in [Deliveries -> 0..Gaps + 2]
    /\ accepted \in [Deliveries -> 0..2]
    /\ slipped \subseteq Deliveries
    /\ line \in [Deliveries -> {"out", "in", "dropped", "lost"}]

Init ==
    /\ StoreInit
    /\ QueueInit
    /\ prompts = {}
    /\ stage = [w \in Slots |-> "idle"]
    /\ task = [w \in Slots |-> NoTask]
    /\ resends = [d \in Deliveries |-> 0]
    /\ tries = [d \in Deliveries |-> 0]
    /\ accepted = [d \in Deliveries |-> 0]
    /\ slipped = {}
    /\ line = [d \in Deliveries |-> "out"]

-----------------------------------------------------------------------------
(* Ingestion, people, and what they queue. *)

\* record: only an enabled endpoint gets a row.
RecordEvent(d) ==
    /\ enabled
    /\ InsertRow(d)
    /\ prompts' = prompts \cup {[lane |-> "ordered", d |-> d, n |-> 0, tag |-> 0]}
    /\ UNCHANGED <<endpointVars, queueVars, stage, task, resends, historyVars>>

\* A resend queues on the ordered lane, a replay's batch on the retry lane, each
\* under a name of its own.
Resend(d) ==
    /\ resends[d] < MaxResends
    /\ enabled
    /\ Reopen(d)
    /\ resends' = [resends EXCEPT ![d] = @ + 1]
    /\ \E p \in {[lane |-> "ordered", d |-> d, n |-> attempts[d], tag |-> resends'[d]],
                 [lane |-> "retry", d |-> d, n |-> 0, tag |-> resends'[d]]} :
          prompts' = prompts \cup {p}
    /\ tries' = [tries EXCEPT ![d] = 0]
    /\ accepted' = [accepted EXCEPT ![d] = 0]
    /\ UNCHANGED <<endpointVars, queueVars, stage, task, slipped, line>>

\* orderMs: when the event happened; for a resend, now.
Orders(p) ==
    IF p.tag = 0 \/ p.lane = "retry" THEN {p.d}
    ELSE {o \in Deliveries : \A d \in Deliveries : status[d] # "absent" => d <= o}

JobOf(p, o, s) == [d |-> p.d, n |-> p.n, tag |-> p.tag, ord |-> o, state |-> s]

Queue(p) ==
    /\ p \in prompts
    /\ \E o \in Orders(p) : Enqueue(p.lane, JobOf(p, o, "ready"))
    /\ prompts' = prompts \ {p}
    /\ line' = IF p.lane = "ordered" /\ line[p.d] = "out"
               THEN [line EXCEPT ![p.d] = "in"] ELSE line
    /\ UNCHANGED <<rowVars, endpointVars, stage, task, resends, tries, accepted,
                   slipped>>

\* The enqueue fails, or the process dies before it.
PromptLost(p) ==
    /\ p \in prompts
    /\ prompts' = prompts \ {p}
    /\ UNCHANGED <<rowVars, endpointVars, queueVars, stage, task, resends, historyVars>>

Pause ==
    /\ PauseEndpoint
    /\ UNCHANGED <<rowVars, queueVars, prompts, stage, task, resends, historyVars>>

Resume ==
    /\ ResumeEndpoint
    /\ UNCHANGED <<rowVars, queueVars, prompts, stage, task, resends, historyVars>>

\* The sweep reads a row and will queue it; every replica may be sweeping.
SweepRead(d) ==
    /\ Abandoned(d)
    /\ prompts' = prompts \cup {[lane |-> lane[d], d |-> d, n |-> attempts[d], tag |-> 0]}
    /\ UNCHANGED <<rowVars, endpointVars, queueVars, stage, task, resends, historyVars>>

-----------------------------------------------------------------------------
(* A handler is given job j of lane l. *)

Rest(w) ==
    /\ stage' = [stage EXCEPT ![w] = "idle"]
    /\ task' = [task EXCEPT ![w] = NoTask]

\* Job j was handed over before the time of the retry it stands for.
Early(j) ==
    line' = IF j.state = "retry" /\ line[j.d] # "lost"
            THEN [line EXCEPT ![j.d] = "dropped"] ELSE line

\* The endpoint is cooling, or its workspace at its share (engine.ts): back in
\* its group before the row is read, for a while that has nothing to do with the
\* row's time.  The same, if reading the row throws.
Defer(l, j) ==
    /\ Deliverable(l, j)
    /\ DelayJob(l, j, "backoff")
    /\ Early(j)
    /\ UNCHANGED <<rowVars, endpointVars, prompts, stage, task, resends, tries,
                   accepted, slipped>>

\* load returns null, and the job is complete.
Skip(l, j) ==
    /\ Deliverable(l, j)
    /\ ~Claimable(j.d)
    /\ CompleteJob(l, j)
    /\ Early(j)
    /\ UNCHANGED <<rowVars, endpointVars, prompts, stage, task, resends, tries,
                   accepted, slipped>>

SkipDisabled(l, j) ==
    /\ Deliverable(l, j)
    /\ Claimable(j.d)
    /\ ~enabled
    /\ FailDisabled(j.d)
    /\ CompleteJob(l, j)
    /\ UNCHANGED <<endpointVars, prompts, stage, task, resends, historyVars>>

Load(w, l, j) ==
    /\ stage[w] = "idle"
    /\ Deliverable(l, j)
    /\ Claimable(j.d)
    /\ enabled
    /\ ClaimRow(j.d)
    /\ Hand(l, j, w)
    /\ stage' = [stage EXCEPT ![w] = "loaded"]
    /\ task' = [task EXCEPT ![w] = [lane |-> l, d |-> j.d, n |-> j.n, tag |-> j.tag,
                                    ord |-> j.ord, attempts |-> attempts[j.d],
                                    home |-> lane[j.d]]]
    /\ UNCHANGED <<endpointVars, prompts, resends, tries, accepted, slipped, line>>

\* The transformation sandbox did not answer: the row is let go, the job put off.
SandboxOut(w) ==
    /\ stage[w] = "loaded"
    /\ ReleaseRow(task[w].d)
    /\ Delay(task[w].lane, w, "backoff")
    /\ Rest(w)
    /\ UNCHANGED <<endpointVars, prompts, resends, historyVars>>

\* The attempt.  "bad": an answer that is not 2xx or 410, none in time, a refused
\* address or a transformation that failed.  An endpoint that timed out may have
\* accepted the event all the same.
Attempt(w, answer) ==
    LET d == task[w].d
        accepts == [accepted EXCEPT ![d] = IF @ = 2 THEN 2 ELSE @ + 1]
    IN  /\ stage[w] = "loaded"
        /\ stage' = [stage EXCEPT ![w] = answer]
        /\ tries' = [tries EXCEPT ![d] = IF @ = Gaps + 2 THEN @ ELSE @ + 1]
        /\ \/ answer = "ok" /\ accepted' = accepts /\ UNCHANGED slipped
           \/ answer # "ok" /\ UNCHANGED <<accepted, slipped>>
           \/ answer = "bad" /\ accepted' = accepts /\ slipped' = slipped \cup {d}
        /\ UNCHANGED <<rowVars, endpointVars, queueVars, prompts, task, resends, line>>

MarkDelivered(w) ==
    /\ stage[w] = "ok"
    /\ RecordDelivered(task[w].d, task[w].attempts + 1)
    /\ EndpointWorks
    /\ stage' = [stage EXCEPT ![w] = "finish"]
    /\ UNCHANGED <<queueVars, prompts, task, resends, historyVars>>

Asked(w) == task[w].tag # 0

\* MUTANT of Final: one attempt too many.
FinalLate(w) == stage[w] = "gone" \/ Asked(w) \/ task[w].attempts > Gaps

\* Nothing is owed after this failure: 410, a resend, or the budget is spent.
Final(w) == stage[w] = "gone" \/ Asked(w) \/ task[w].attempts + 1 > Gaps

\* Whether the next attempt would keep the head waiting for longer than the
\* hold depends on the clock and on jitter.
NextLanes(w) ==
    IF Final(w) \/ task[w].home = "retry" THEN {task[w].home} ELSE Lanes

MarkFailed(w) ==
    LET d == task[w].d IN
    /\ stage[w] \in {"bad", "gone"}
    /\ \E to \in NextLanes(w) :
          /\ RecordFailed(d, task[w].attempts + 1, Final(w), to)
          /\ stage' = [stage EXCEPT ![w] =
                         IF Final(w) THEN "finish"
                         ELSE IF to = task[w].lane THEN "retry" ELSE "move"]
    /\ EndpointFails(stage[w] = "gone" \/ ~Asked(w), stage[w] = "gone", Final(w))
    /\ UNCHANGED <<queueVars, prompts, task, resends, tries, accepted, slipped, line>>

\* The delay is until the row's own time, or for a moment if that has passed.
Wait(d) == IF nextAt[d] = "later" THEN "retry" ELSE "backoff"

\* MUTANT of Retry: the job completes, and the retry is left to the sweep.
RetryLeftToSweep(w) ==
    /\ stage[w] = "retry"
    /\ Complete(task[w].lane, w)
    /\ Rest(w)
    /\ UNCHANGED <<rowVars, endpointVars, prompts, resends, historyVars>>

\* RetryAt is thrown: groupmq keeps the job in its group until the time it names.
Retry(w) ==
    /\ stage[w] = "retry"
    /\ Delay(task[w].lane, w, Wait(task[w].d))
    /\ Rest(w)
    /\ UNCHANGED <<rowVars, endpointVars, prompts, resends, historyVars>>

\* Moved aside: queued on the other lane, which may fail, before the job completes.
MoveAside(w) ==
    LET t == task[w] IN
    /\ stage[w] = "move"
    /\ \/ Enqueue("retry", JobOf([t EXCEPT !.n = @ + 1], t.ord, Wait(t.d)))
       \/ UNCHANGED queueVars
    /\ stage' = [stage EXCEPT ![w] = "finish"]
    /\ UNCHANGED <<rowVars, endpointVars, prompts, task, resends, historyVars>>

Finish(w) ==
    /\ stage[w] = "finish"
    /\ Complete(task[w].lane, w)
    /\ Rest(w)
    /\ UNCHANGED <<rowVars, endpointVars, prompts, resends, historyVars>>

LoseFromLine(D) == [d \in Deliveries |-> IF d \in D THEN "lost" ELSE line[d]]

Unrecorded(w) == IF stage[w] \in {"ok", "bad", "gone"} THEN {task[w].d} ELSE {}

\* A call of the handler throws: the lease stays, and groupmq backs the job off.
Break(w) ==
    /\ stage[w] \in Held
    /\ Delay(task[w].lane, w, "backoff")
    /\ Rest(w)
    /\ slipped' = slipped \cup Unrecorded(w)
    /\ line' = LoseFromLine({task[w].d})
    /\ UNCHANGED <<rowVars, endpointVars, prompts, resends, tries, accepted>>

\* The handler's process dies.
Crash(w) ==
    /\ stage[w] # "idle"
    /\ Rest(w)
    /\ slipped' = slipped \cup Unrecorded(w)
    /\ line' = LoseFromLine({task[w].d})
    /\ UNCHANGED <<rowVars, endpointVars, queueVars, prompts, resends, tries,
                   accepted>>

-----------------------------------------------------------------------------
(* Redis and time. *)

\* jobTimeoutMs is longer than the lease the job's handler took: by the time the
\* job is handed out again that has run out.
JobStalls(l) ==
    /\ Stall(l)
    /\ \A j \in jobs[l] : j.state = "active" /\ j.d \in leased \ slipped
          => lane[j.d] # l /\ \A w \in Slots : stage[w] \in Held => task[w].lane # l
    /\ line' = LoseFromLine({j.d : j \in {k \in jobs[l] : k.state = "active"}})
    /\ UNCHANGED <<rowVars, endpointVars, prompts, stage, task, resends, tries,
                   accepted, slipped>>

\* A job in state "retry" waits for its row's time, unless somebody else wrote
\* the row since.
JobRipens(l, j) ==
    /\ Ripen(l, j)
    /\ j.state = "retry" => nextAt[j.d] # "later" \/ j.d \in slipped
    /\ UNCHANGED <<rowVars, endpointVars, prompts, stage, task, resends, historyVars>>

NameForgotten(l) ==
    /\ Forget(l)
    /\ UNCHANGED <<rowVars, endpointVars, prompts, stage, task, resends, historyVars>>

RedisRestarts ==
    /\ LoseEverything
    /\ line' = LoseFromLine({d \in Deliveries : line[d] # "out"})
    /\ UNCHANGED <<rowVars, endpointVars, prompts, stage, task, resends, tries,
                   accepted, slipped>>

\* A row's time and that of the retry it has in a queue are one.
RowDue(d) ==
    /\ BecomesDue(d)
    /\ jobs' = [l \in Lanes |->
                  {IF j.d = d /\ j.state = "retry" THEN [j EXCEPT !.state = "backoff"]
                   ELSE j : j \in jobs[l]}]
    /\ UNCHANGED <<runner, chained, done>>
    /\ UNCHANGED <<endpointVars, prompts, stage, task, resends, historyVars>>

RowOverdue(d) ==
    /\ BecomesOverdue(d)
    /\ UNCHANGED <<endpointVars, queueVars, prompts, stage, task, resends, historyVars>>

\* claimed_until passes: a slip, if a handler still has the delivery.
LeaseEnds(d) ==
    LET alive == \E w \in Slots : stage[w] \in Held /\ task[w].d = d IN
    /\ LeaseRunsOut(d)
    /\ slipped' = IF alive THEN slipped \cup {d} ELSE slipped
    /\ line' = IF alive THEN LoseFromLine({d}) ELSE line
    /\ UNCHANGED <<endpointVars, queueVars, prompts, stage, task, resends, tries,
                   accepted>>

EndpointTime ==
    /\ FailingAges
    /\ UNCHANGED <<rowVars, queueVars, prompts, stage, task, resends, historyVars>>

-----------------------------------------------------------------------------
Reserve(l, j) ==
    \/ Defer(l, j) \/ Skip(l, j) \/ SkipDisabled(l, j)
    \/ \E w \in Slots : Load(w, l, j)

Work(w) ==
    \/ SandboxOut(w) \/ \E answer \in {"ok", "bad", "gone"} : Attempt(w, answer)
    \/ MarkDelivered(w) \/ MarkFailed(w)
    \/ Retry(w) \/ MoveAside(w) \/ Finish(w)
    \/ Break(w) \/ Crash(w)

Next ==
    \/ \E d \in Deliveries :
          RecordEvent(d) \/ Resend(d) \/ SweepRead(d) \/ LeaseEnds(d)
          \/ RowDue(d) \/ RowOverdue(d)
    \/ \E p \in prompts : Queue(p) \/ PromptLost(p)
    \/ \E l \in Lanes :
          \/ \E j \in jobs[l] : Reserve(l, j) \/ JobRipens(l, j)
          \/ JobStalls(l) \/ NameForgotten(l)
    \/ \E w \in Slots : Work(w)
    \/ Pause \/ Resume \/ RedisRestarts \/ EndpointTime

Spec == Init /\ [][Next]_vars

Serve(d) == \E w \in Slots : task[w].d = d /\ \E answer \in {"ok", "bad"} : Attempt(w, answer)
Record(d) == \E w \in Slots : task[w].d = d /\ (MarkDelivered(w) \/ MarkFailed(w))
Take(d) == \E l \in Lanes : \E j \in jobs[l] : j.d = d /\
             (SkipDisabled(l, j) \/ \E w \in Slots : Load(w, l, j))

\* What a system that is up, sometimes idle, and not failing for ever gives a
\* delivery: time passes, the sweep runs, an enqueue, a hand-out, a request and
\* its recording that can happen again and again do.
SystemFairness ==
    /\ \A d \in Deliveries :
          /\ WF_vars(RowDue(d)) /\ WF_vars(RowOverdue(d)) /\ WF_vars(LeaseEnds(d))
          /\ WF_vars(SweepRead(d))
          /\ SF_vars(\E p \in prompts : p.d = d /\ Queue(p))
          /\ SF_vars(Take(d)) /\ SF_vars(Serve(d)) /\ SF_vars(Record(d))
    /\ \A w \in Slots : WF_vars(Retry(w) \/ MoveAside(w) \/ Finish(w))
    /\ \A l \in Lanes :
          /\ WF_vars(JobStalls(l) /\ \A w \in Slots : stage[w] = "idle")
          /\ WF_vars(\E j \in jobs[l] : JobRipens(l, j))
          /\ WF_vars(\E j \in jobs[l] : Skip(l, j))

\* Other endpoints' jobs complete, and push this one's names out of the queue's
\* memory.
Traffic == \A l \in Lanes : WF_vars(NameForgotten(l))

FairSpec == Spec /\ SystemFairness /\ Traffic

-----------------------------------------------------------------------------
(* Properties. *)

\* The endpoint is not given a delivery it has accepted a second time, unless a
\* lease ran out, an answer was lost or its recording failed: load's `pending`
\* guard, against jobs left behind in either queue.
TwiceOnlyIfSlipped == \A d \in Deliveries : accepted[d] = 2 => d \in slipped

\* The customer's log tells the truth: `delivered` was accepted, `failed` was not,
\* again with lost answers and lapsed leases excepted (markDelivered, markFailed).
VerdictTrue ==
    \A d \in Deliveries \ slipped :
        /\ status[d] = "delivered" => accepted[d] = 1
        /\ status[d] = "failed" => accepted[d] = 0

\* A delivery is attempted at most once more than the policy has gaps (schedule.ts),
\* however many jobs, resends of it and restarts of Redis there are.
BudgetKept == \A d \in Deliveries \ slipped : tries[d] <= Gaps + 1

\* What the owner was last told of the endpoint is how it stands: attempts of
\* several deliveries that end in any order around a disable, a pause or a resume
\* report every change of it (health.ts).
HealthTold ==
    /\ health = "healthy" => told \in {"nothing", "recovered"}
    /\ health = "failing" => told \in {"failing", "disabled"}
    /\ health = "disabled" => told = "disabled" /\ ~enabled

\* Who still waits before e, of those at these places in the line.
Waiting(e, places) ==
    {d \in Deliveries : d < e /\ line[d] \in places
                          /\ status[d] = "pending" /\ lane[d] = "ordered"}
\* The ordered stream hands out e.
StartsInOrder(w, e) ==
    /\ stage[w] = "idle" /\ stage'[w] = "loaded"
    /\ task'[w].d = e /\ task'[w].lane = "ordered" /\ task'[w].tag = 0

\* While a delivery is on the ordered lane, retries included, no later one is
\* attempted: unless Redis, a crash or a lapsed lease lost its job, or its delayed
\* retry was chained early and so dropped (engine.ts, "A RETRY IS THROWN").
OrderKept ==
    [][\A w \in Slots : \A e \in Deliveries :
          StartsInOrder(w, e) => Waiting(e, {"in"}) \subseteq slipped]_vars

\* What is owed is answered in the end, whatever was lost between Postgres and
\* Redis on the way (the sweep).
EventuallyAnswered ==
    \A d \in Deliveries : status[d] = "pending" ~> status[d] \in {"delivered", "failed"}
=============================================================================
