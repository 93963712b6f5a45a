---------------------------- MODULE SendPipeline ----------------------------
(***************************************************************************)
(* The send path of apps/api, from an accepted request to a row that says  *)
(* what became of the mail.  Five kinds of process share the message rows  *)
(* (MessageStore) and the queue (SendQueue):                               *)
(*                                                                         *)
(*   - API replicas run acceptSend: gate, write, enqueue;                  *)
(*   - worker slots run handleBatch: claim, check the hold, call the       *)
(*     provider, record what it answered, bill;                            *)
(*   - the sweep re-enqueues rows nothing points at any more;              *)
(*   - staff (or the risk engine) place and lift a hold on the workspace;  *)
(*   - the SES reconciler repairs rows SES says were sent.                 *)
(*                                                                         *)
(* One tenant and one class: different tenants, and the two classes, share *)
(* no row and no queue group.  API replicas and workers crash, leases and  *)
(* claims run out under live handlers, provider answers get lost, and      *)
(* every database or queue call that the code catches can fail.            *)
(***************************************************************************)
EXTENDS MessageStore, SendQueue

VARIABLES
    hold,       \* a row in core.sending_holds
    request,    \* where each acceptSend call is
    toQueue,    \* its written refs that have not been through enqueue
    plan,       \* rows the running sweep has read and not yet enqueued
    phase,      \* where each slot's handleBatch is
    out,        \* what it knows of each message it claimed
    billable,   \* messages whose markSent returned a row
    metered,    \* meter_events
    event,      \* the provider's `sent` event, as ingested
    \* The rest is history: nothing in the code reads it.
    holder,     \* the slot that made the latest claim
    taken,      \* how often the provider accepted the message: 0, 1, 2 or more
    slipped,    \* messages whose claim outlived staleAfter, or one of whose
                \* acceptances was never reported back
    exposed     \* slots that were already sending when the hold was placed, or
                \* got past it because looking it up failed

acceptVars == <<hold, request, toQueue>>
handlerVars == <<phase, out, billable, metered>>
providerVars == <<event, taken>>
vars == <<storeVars, queueVars, acceptVars, plan, handlerVars, providerVars,
          holder, slipped, exposed>>

Outcomes == {"none", "claimed", "sent", "rejected", "deferred"}
Nothing == [m \in Messages |-> "none"]

TypeOK ==
    /\ StoreTypeOK
    /\ QueueTypeOK
    /\ hold \in BOOLEAN
    /\ request \in [Requests -> {"new", "admitted", "written", "done"}]
    /\ toQueue \in [Requests -> SUBSET Messages]
    /\ plan \subseteq Messages
    /\ phase \in [Slots -> {"idle", "check", "cancel", "send"}]
    /\ out \in [Slots -> [Messages -> Outcomes]]
    /\ billable \in [Slots -> SUBSET Messages]
    /\ metered \subseteq Messages
    /\ event \in [Messages -> {"none", "fresh", "old"}]
    /\ holder \in [Messages -> Slots \cup {None}]
    /\ taken \in [Messages -> 0..2]
    /\ slipped \subseteq Messages
    /\ exposed \subseteq Slots

Init ==
    /\ StoreInit
    /\ QueueInit
    /\ hold = FALSE
    /\ request = [r \in Requests |-> "new"]
    /\ toQueue = [r \in Requests |-> {}]
    /\ plan = {}
    /\ phase = [w \in Slots |-> "idle"]
    /\ out = [w \in Slots |-> Nothing]
    /\ billable = [w \in Slots |-> {}]
    /\ metered = {}
    /\ event = [m \in Messages |-> "none"]
    /\ holder = [m \in Messages |-> None]
    /\ taken = [m \in Messages |-> 0]
    /\ slipped = {}
    /\ exposed = {}

-----------------------------------------------------------------------------
(* acceptSend.  The gate reads the hold; the write comes later, in a        *)
(* transaction that does not read it again.                                 *)

Admit(r) ==
    /\ request[r] = "new"
    /\ request' = [request EXCEPT ![r] = IF hold THEN "done" ELSE "admitted"]
    /\ UNCHANGED <<storeVars, queueVars, hold, toQueue, plan, handlerVars,
                   providerVars, holder, slipped, exposed>>

\* B: the messages with no `to` address left once suppressed ones are removed.
\* byDueTime drops them from what will be enqueued.
Persist(r) ==
    /\ request[r] = "admitted"
    /\ \E B \in SUBSET MsgsOf[r] :
          /\ InsertRows(MsgsOf[r], B)
          /\ toQueue' = [toQueue EXCEPT ![r] = MsgsOf[r] \ B]
    /\ request' = [request EXCEPT ![r] = "written"]
    /\ UNCHANGED <<queueVars, hold, plan, handlerVars, providerVars, holder,
                   slipped, exposed>>

\* One job per due time.  An enqueue that fails is logged and passed over.
EnqueueGroup(r, t) ==
    LET group == {m \in toQueue[r] : DueTime[m] = t} IN
    /\ request[r] = "written"
    /\ group # {}
    /\ toQueue' = [toQueue EXCEPT ![r] = @ \ group]
    /\ Enqueue(group) \/ UNCHANGED queueVars
    /\ UNCHANGED <<storeVars, hold, request, plan, handlerVars, providerVars,
                   holder, slipped, exposed>>

Answer(r) ==
    /\ request[r] = "written"
    /\ toQueue[r] = {}
    /\ request' = [request EXCEPT ![r] = "done"]
    /\ UNCHANGED <<storeVars, queueVars, hold, toQueue, plan, handlerVars,
                   providerVars, holder, slipped, exposed>>

\* The API replica running r dies: what it had not enqueued has no job.
ApiCrash(r) ==
    /\ request[r] \in {"admitted", "written"}
    /\ request' = [request EXCEPT ![r] = "done"]
    /\ toQueue' = [toQueue EXCEPT ![r] = {}]
    /\ UNCHANGED <<storeVars, queueVars, hold, plan, handlerVars, providerVars,
                   holder, slipped, exposed>>

-----------------------------------------------------------------------------
(* handleBatch, in slot w. *)

Mine(w) == {m \in Messages : out[w][m] # "none"}

\* The claim takes no row: the handler returns and the job is complete.
ClaimNothing(w, j) ==
    /\ phase[w] = "idle"
    /\ Deliverable(j)
    /\ \A m \in batch[j] : ~Claimable(m)
    /\ CompleteAtOnce(j)
    /\ UNCHANGED <<storeVars, acceptVars, plan, handlerVars, providerVars,
                   holder, slipped, exposed>>

ClaimBatch(w, j) ==
    LET won == {m \in batch[j] : Claimable(m)} IN
    /\ phase[w] = "idle"
    /\ Deliverable(j)
    /\ won # {}
    /\ ClaimRows(won, ProcOf[w])
    /\ Lease(j, w)
    /\ phase' = [phase EXCEPT ![w] = "check"]
    /\ out' = [out EXCEPT ![w] =
                 [m \in Messages |-> IF m \in won THEN "claimed" ELSE "none"]]
    /\ holder' = [m \in Messages |-> IF m \in won THEN w ELSE holder[m]]
    /\ exposed' = exposed \ {w}
    /\ UNCHANGED <<acceptVars, plan, billable, metered, providerVars, slipped>>

\* The claim statement throws: the job is retried, or dead-lettered.
ClaimThrows(w, j) ==
    /\ phase[w] = "idle"
    /\ Deliverable(j)
    /\ CompleteAtOnce(j)
    /\ UNCHANGED <<storeVars, acceptVars, plan, handlerVars, providerVars,
                   holder, slipped, exposed>>

\* The rows are claimed, that transaction is committed, and reading the stored
\* content of one of them throws: the whole batch is left in `sending`.
ClaimStrands(w, j) ==
    LET won == {m \in batch[j] : Claimable(m)} IN
    /\ phase[w] = "idle"
    /\ Deliverable(j)
    /\ won # {}
    /\ ClaimRows(won, ProcOf[w])
    /\ CompleteAtOnce(j) \/ UNCHANGED queueVars
    /\ holder' = [m \in Messages |-> IF m \in won THEN w ELSE holder[m]]
    /\ UNCHANGED <<acceptVars, plan, handlerVars, providerVars, slipped, exposed>>

\* MUTANT of HeldCheck: a worker trusts the check made when the request was
\* accepted.
HeldCheckSkipped(w) ==
    /\ phase[w] = "check"
    /\ phase' = [phase EXCEPT ![w] = "send"]
    /\ UNCHANGED <<storeVars, queueVars, acceptVars, plan, out, billable,
                   metered, providerVars, holder, slipped, exposed>>

\* A lookup of the hold that throws counts as "not held".
HeldCheck(w) ==
    /\ phase[w] = "check"
    /\ \/ /\ hold
          /\ phase' = [phase EXCEPT ![w] = "cancel"]
          /\ UNCHANGED exposed
       \/ /\ phase' = [phase EXCEPT ![w] = "send"]
          /\ exposed' = IF hold THEN exposed \cup {w} ELSE exposed
    /\ UNCHANGED <<storeVars, queueVars, acceptVars, plan, out, billable,
                   metered, providerVars, holder, slipped>>

CancelOne(w, m) ==
    /\ phase[w] = "cancel"
    /\ out[w][m] = "claimed"
    /\ MarkCanceled(m, ProcOf[w])
    /\ out' = [out EXCEPT ![w][m] = "none"]
    /\ UNCHANGED <<queueVars, acceptVars, plan, phase, billable, metered,
                   providerVars, holder, slipped, exposed>>

\* markCanceled throws, and nothing in handleBatch catches it: the rows not
\* yet canceled stay in `sending`.
CancelThrows(w) ==
    /\ phase[w] = "cancel"
    /\ Mine(w) # {}
    /\ phase' = [phase EXCEPT ![w] = "idle"]
    /\ out' = [out EXCEPT ![w] = Nothing]
    /\ GiveBack(w)
    /\ UNCHANGED <<storeVars, acceptVars, plan, billable, metered,
                   providerVars, holder, slipped, exposed>>

\* transport.send: the provider's side of the call, and what the handler makes
\* of the answer.
CallEnds(w, m, answer) ==
    /\ phase[w] = "send"
    /\ out[w][m] = "claimed"
    /\ out' = [out EXCEPT ![w][m] = answer]
    /\ UNCHANGED <<storeVars, queueVars, acceptVars, plan, phase, billable,
                   metered, holder, exposed>>

\* The provider accepts the mail; its `sent` event may get lost on the way.
Accepts(m) ==
    /\ taken' = [taken EXCEPT ![m] = IF @ = 2 THEN 2 ELSE @ + 1]
    /\ event' \in {event, [event EXCEPT ![m] = IF @ = "none" THEN "fresh" ELSE @]}

CallAccepted(w, m) ==
    CallEnds(w, m, "sent") /\ Accepts(m) /\ UNCHANGED slipped

\* The provider accepted, and the call threw (a timeout, a reset connection):
\* a throw is "deferred".
CallAnswerLost(w, m) ==
    CallEnds(w, m, "deferred") /\ Accepts(m) /\ slipped' = slipped \cup {m}

CallRejected(w, m) ==
    CallEnds(w, m, "rejected") /\ UNCHANGED <<providerVars, slipped>>

CallDeferred(w, m) ==
    CallEnds(w, m, "deferred") /\ UNCHANGED <<providerVars, slipped>>

\* MUTANT of Bills: whatever was sent is billed.
BillsAlways(w, m) == TRUE

\* markSent returned the row.
Bills(w, m) == OwnedBy(m, ProcOf[w])

\* One message's outcome is written down.  markSent bills only if it returned
\* a row; its answer may be lost after the commit, which strands the message
\* with nothing billed.
RecordSent(w, m) ==
    /\ phase[w] = "send"
    /\ out[w][m] = "sent"
    /\ MarkSent(m, ProcOf[w], w)
    /\ billable' \in {billable} \cup
          (IF Bills(w, m)
             THEN {[billable EXCEPT ![w] = @ \cup {m}]} ELSE {})
    /\ out' = [out EXCEPT ![w][m] = "none"]
    /\ UNCHANGED <<queueVars, acceptVars, plan, phase, metered, providerVars,
                   holder, slipped, exposed>>

RecordFailed(w, m) ==
    /\ phase[w] = "send"
    /\ out[w][m] \in {"rejected", "deferred"}
    /\ MarkFailed(m, ProcOf[w], out[w][m] = "rejected")
    /\ out' = [out EXCEPT ![w][m] = "none"]
    /\ UNCHANGED <<queueVars, acceptVars, plan, phase, billable, metered,
                   providerVars, holder, slipped, exposed>>

\* The statement throws: the row is stranded in `sending`.
RecordThrows(w, m) ==
    /\ phase[w] = "send"
    /\ out[w][m] \in {"sent", "rejected", "deferred"}
    /\ out' = [out EXCEPT ![w][m] = "none"]
    /\ UNCHANGED <<storeVars, queueVars, acceptVars, plan, phase, billable,
                   metered, providerVars, holder, slipped, exposed>>

\* Every message is accounted for: record the usage, which may fail and is
\* swallowed, and return.
FinishBatch(w) ==
    /\ phase[w] \in {"cancel", "send"}
    /\ Mine(w) = {}
    /\ metered' \in {metered, metered \cup billable[w]}
    /\ billable' = [billable EXCEPT ![w] = {}]
    /\ phase' = [phase EXCEPT ![w] = "idle"]
    /\ Complete(w)
    /\ UNCHANGED <<storeVars, acceptVars, plan, out, providerVars, holder,
                   slipped, exposed>>

\* A worker process dies with everything its slots held.
WorkerCrash(p) ==
    LET dead == {w \in Slots : ProcOf[w] = p} IN
    /\ \E w \in dead : phase[w] # "idle"
    /\ phase' = [w \in Slots |-> IF w \in dead THEN "idle" ELSE phase[w]]
    /\ out' = [w \in Slots |-> IF w \in dead THEN Nothing ELSE out[w]]
    /\ billable' = [w \in Slots |-> IF w \in dead THEN {} ELSE billable[w]]
    /\ UNCHANGED <<storeVars, queueVars, acceptVars, plan, metered,
                   providerVars, holder, slipped, exposed>>

\* groupmq hands the job out again: its handler died, or could not heartbeat.
JobStalls(j) ==
    /\ LeaseExpires(j)
    /\ UNCHANGED <<storeVars, acceptVars, plan, handlerVars, providerVars,
                   holder, slipped, exposed>>

-----------------------------------------------------------------------------
(* The sweep.  Passes do not overlap (concurrencyPolicy: Forbid). *)

SweepRead ==
    /\ plan = {}
    /\ plan' = {m \in Messages : Stuck(m)}
    /\ plan' # {}
    /\ UNCHANGED <<storeVars, queueVars, acceptVars, handlerVars, providerVars,
                   holder, slipped, exposed>>

Chunk(S) ==
    /\ S # {}
    /\ Cardinality(S) <= BatchSize
    /\ S = plan \/ Cardinality(S) = BatchSize

SweepEnqueue(S) ==
    /\ S \subseteq plan
    /\ Chunk(S)
    /\ Enqueue(S)
    /\ plan' = plan \ S
    /\ UNCHANGED <<storeVars, acceptVars, handlerVars, providerVars, holder,
                   slipped, exposed>>

\* A batch that cannot be enqueued is counted and passed over.
SweepSkips(S) ==
    /\ S \subseteq plan
    /\ Chunk(S)
    /\ plan' = plan \ S
    /\ UNCHANGED <<storeVars, queueVars, acceptVars, handlerVars, providerVars,
                   holder, slipped, exposed>>

-----------------------------------------------------------------------------
(* Holds. *)

PlaceHold ==
    /\ ~hold
    /\ hold' = TRUE
    /\ CancelQueued
    /\ exposed' = {w \in Slots : phase[w] = "send"}
    /\ UNCHANGED <<queueVars, request, toQueue, plan, handlerVars,
                   providerVars, holder, slipped>>

ReleaseHold ==
    /\ hold
    /\ hold' = FALSE
    /\ exposed' = {}
    /\ UNCHANGED <<storeVars, queueVars, request, toQueue, plan, handlerVars,
                   providerVars, holder, slipped>>

-----------------------------------------------------------------------------
(* The SES reconciler.  It looks only at events older than its grace of     *)
(* thirty minutes, six times staleAfter: by then the claim under which the  *)
(* mail was accepted has ended or gone stale.                               *)

EventAges(m) ==
    /\ event[m] = "fresh"
    /\ status[m] = "sending" => m \in stale
    /\ event' = [event EXCEPT ![m] = "old"]
    /\ UNCHANGED <<storeVars, queueVars, acceptVars, plan, handlerVars, taken,
                   holder, slipped, exposed>>

SesRepair(m) ==
    /\ event[m] = "old"
    /\ \E id \in Slots : RepairFromSes(m, id)
    /\ UNCHANGED <<queueVars, acceptVars, plan, handlerVars, providerVars,
                   holder, slipped, exposed>>

-----------------------------------------------------------------------------
(* Time. *)

TimePasses ==
    /\ \/ Tick
       \/ \E m \in Messages : RowAges(m)
    /\ UNCHANGED <<queueVars, acceptVars, plan, handlerVars, providerVars,
                   holder, slipped, exposed>>

ClaimGoesStale(m) ==
    /\ ClaimAges(m)
    /\ slipped' = slipped \cup {m}
    /\ UNCHANGED <<queueVars, acceptVars, plan, handlerVars, providerVars,
                   holder, exposed>>

-----------------------------------------------------------------------------
Accept(r) ==
    \/ Admit(r) \/ Persist(r) \/ Answer(r) \/ ApiCrash(r)
    \/ \E t \in 0..MaxTime : EnqueueGroup(r, t)

Deliver(w, j) ==
    \/ ClaimNothing(w, j) \/ ClaimBatch(w, j)
    \/ ClaimThrows(w, j) \/ ClaimStrands(w, j)

Handle(w, m) ==
    \/ CancelOne(w, m)
    \/ CallAccepted(w, m) \/ CallAnswerLost(w, m)
    \/ CallRejected(w, m) \/ CallDeferred(w, m)
    \/ RecordSent(w, m) \/ RecordFailed(w, m) \/ RecordThrows(w, m)

Proceed(w) ==
    \/ HeldCheck(w) \/ CancelThrows(w) \/ FinishBatch(w)
    \/ \E m \in Messages : Handle(w, m)

Work(w) == Proceed(w) \/ \E j \in Jobs : Deliver(w, j)

Sweep == SweepRead \/ \E S \in SUBSET Messages : SweepEnqueue(S) \/ SweepSkips(S)

Next ==
    \/ \E r \in Requests : Accept(r)
    \/ \E w \in Slots : Work(w)
    \/ \E p \in Procs : WorkerCrash(p)
    \/ \E j \in Jobs : JobStalls(j)
    \/ Sweep
    \/ PlaceHold \/ ReleaseHold
    \/ \E m \in Messages : EventAges(m) \/ SesRepair(m) \/ ClaimGoesStale(m)
    \/ TimePasses

Spec == Init /\ [][Next]_vars
-----------------------------------------------------------------------------
(* Safety. *)

\* Slot w has m in its hands.
Holds(w, m) == out[w][m] # "none"

\* The claim is a lock: two handlers have the same message in their hands only
\* after a claim outlived WORKER_CLAIM_STALE_AFTER or an acceptance went
\* unreported (db/claim.ts: "the compare-and-swap").
OneHandler ==
    \A m \in Messages : \A w, v \in Slots :
        Holds(w, m) /\ Holds(v, m) /\ w # v => m \in slipped

\* At least once, and twice only for the two reasons the design accepts: the
\* provider takes a message a second time only if a claim on it went stale or
\* an acceptance was lost.  A sweep, a job delivered again, a hold, a deferral
\* or a crash of the API is never enough.
DuplicateOnlyIfSlipped ==
    \A m \in Messages : taken[m] = 2 => m \in slipped

\* What the row says is what happened: a row is `sent` only if the provider
\* took the mail, and a row that says failed, canceled or (back in line) queued
\* hides a message the provider took only after a slip.
VerdictMatchesProvider ==
    \A m \in Messages :
        /\ status[m] = "sent" => taken[m] > 0
        /\ status[m] \in {"queued", "failed", "canceled"} /\ taken[m] > 0
              => m \in slipped

\* Usage is recorded only for rows that are `sent`, whatever is recorded late,
\* twice, or by a handler that lost its claim.
BilledOnlyIfSent ==
    /\ \A m \in metered : status[m] = "sent"
    /\ \A w \in Slots : \A m \in billable[w] : status[m] = "sent"

-----------------------------------------------------------------------------
(* The inductive invariant.  The safety invariants follow from it; each     *)
(* conjunct is what the others need to be preserved.                        *)

\* A row is written once: no request writes a row that is there already, and
\* nothing happens to a row before it is written.
WrittenOnce ==
    /\ \A r \in Requests : request[r] \in {"new", "admitted"} =>
          \A m \in MsgsOf[r] : status[m] = "absent"
    /\ \A m \in Messages : status[m] = "absent" =>
          /\ m \notin slipped
          /\ taken[m] = 0
          /\ \A w \in Slots : ~Holds(w, m)

\* Until it slips, a message is in the hands of its latest claimer only.
ClaimIsLock ==
    \A m \in Messages \ slipped : \A w \in Slots :
        Holds(w, m) => status[m] = "sending" /\ holder[m] = w

\* Until it slips, a message the provider took is `sent`, or about to be: no
\* handler that has it can call the provider again, or record anything else.
TakenIsAnswered ==
    \A m \in Messages \ slipped : taken[m] > 0 =>
        /\ taken[m] = 1
        /\ status[m] \in {"sending", "sent"}
        /\ \A w \in Slots : out[w][m] \in {"none", "sent"}

\* Whatever says the provider took a message is true.
TakenIsTrue ==
    \A m \in Messages :
        \/ taken[m] > 0
        \/ /\ status[m] # "sent"
           /\ event[m] = "none"
           /\ \A w \in Slots : out[w][m] # "sent"

\* Staleness is a slip, and the reconciler corrects only slips.
StaleIsSlip ==
    /\ stale \subseteq slipped
    /\ \A m \in Messages : event[m] = "old" => status[m] = "sent" \/ m \in slipped

Inv ==
    /\ WrittenOnce
    /\ ClaimIsLock
    /\ TakenIsAnswered
    /\ TakenIsTrue
    /\ StaleIsSlip
    /\ BilledOnlyIfSent

-----------------------------------------------------------------------------
(* What a step may never do. *)

\* A verdict stands.  `sent` is never left and its provider id never replaced,
\* so events always join the row; failed and canceled give way only to `sent`,
\* and only if the provider did take the mail.
VerdictStands ==
    [][\A m \in Messages : status[m] \in Terminal =>
          \/ status'[m] = status[m] /\ providerId'[m] = providerId[m]
          \/ status[m] # "sent" /\ status'[m] = "sent" /\ taken[m] > 0]_vars

\* While a hold is in force the only mail that still leaves is in the hands of
\* a handler that was past its check when the hold was placed, or whose look at
\* the hold failed: not a request that was admitted before and written after,
\* not a swept or redelivered batch.
HoldStopsMail ==
    [][\A m \in Messages : hold /\ taken'[m] # taken[m] =>
          \E w \in exposed : out[w][m] = "claimed"]_vars

-----------------------------------------------------------------------------
(* The send path implements the promise of AtLeastOnce. *)

Outcome ==
    [m \in Messages |->
        IF status[m] \in {"queued", "sending"} THEN "pending" ELSE status[m]]

Promise == INSTANCE AtLeastOnce WITH outcome <- Outcome

\* What a customer sees of the rows, and how often the provider took the mail,
\* are what AtLeastOnce allows, whatever the queue, the sweep, the workers, the
\* holds and the reconciler do.
KeepsPromise == Promise!Spec

-----------------------------------------------------------------------------
(* Liveness.                                                                *)
(*                                                                          *)
(* The fairness is what the deployment gives: time passes, idle workers     *)
(* take jobs, a running handler goes on, a dead one's lease runs out, the   *)
(* sweep is a CronJob.  Whatever can fail may fail any number of times;     *)
(* what is asked of the provider, of Postgres and of Redis is only that a   *)
(* call tried again and again succeeds at some point (strong fairness).     *)

\* The steps of the handler whose claim on m is the current one.  They are what
\* has to get through: a handler that lost its claim may go on, but its result
\* is not recorded.
Current(w, m) == Holds(w, m) /\ OwnedBy(m, ProcOf[w])

Check(m) == \E w \in Slots : Current(w, m) /\ HeldCheck(w)

Decide(m) ==
    \E w \in Slots : Current(w, m) /\ (CallAccepted(w, m) \/ CallRejected(w, m))

Settle(m) ==
    \E w \in Slots :
        /\ Current(w, m)
        /\ out[w][m] # "deferred"
        /\ RecordSent(w, m) \/ RecordFailed(w, m) \/ CancelOne(w, m)

WorkerFairness ==
    /\ \A w \in Slots : WF_vars(Proceed(w))
    /\ \A j \in Jobs :
          /\ WF_vars(JobStalls(j))
          /\ WF_vars(\E w \in Slots : Deliver(w, j))
    /\ \A m \in Messages :
          /\ SF_vars(\E w \in Slots, j \in Jobs : m \in batch[j] /\ ClaimBatch(w, j))
          /\ SF_vars(Check(m))
          /\ SF_vars(Settle(m))

ProviderFairness == \A m \in Messages : SF_vars(Decide(m))

ClockFairness ==
    /\ WF_vars(TimePasses)
    /\ \A m \in Messages : WF_vars(ClaimGoesStale(m))

SweepFairness ==
    /\ WF_vars(SweepRead)
    /\ WF_vars(\E S \in SUBSET Messages : SweepEnqueue(S) \/ SweepSkips(S))
    /\ \A m \in Messages :
          SF_vars(\E S \in SUBSET Messages : m \in S /\ SweepEnqueue(S))

FairSpec ==
    Spec /\ WorkerFairness /\ ProviderFairness /\ ClockFairness /\ SweepFairness

\* Nothing is lost: whatever crashes, is dropped, redelivered, deferred or held
\* on the way, a message that was written reaches a verdict.
EventuallySettled ==
    \A m \in Messages :
        status[m] \in {"queued", "sending"} ~> status[m] \in Terminal
=============================================================================
