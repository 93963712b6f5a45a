---------------------------- MODULE WebhookStore ----------------------------
(***************************************************************************)
(* One endpoint's row, the rows of its deliveries, and the statements and  *)
(* transactions webhooks/db.ts, health.ts, replay.ts and store.ts run over *)
(* them.  An operator that primes variables is one transaction.  As in the *)
(* code, a claim is a lease that no later statement checks: an outcome is  *)
(* written to the row by its id alone.                                     *)
(***************************************************************************)
EXTENDS WebhookTypes

VARIABLES
    status,     \* "absent" until the row is inserted
    attempts,
    nextAt,     \* next_attempt_at: null, in the future, past, or past for longer
                \* than the sweep's grace
    leased,     \* rows whose claimed_until is in the future
    lane,
    enabled,    \* the endpoint's own columns
    failing,    \* failing_since: null, or how long ago
    health,
    told        \* kind of the endpoint's latest row in webhook_health_events

rowVars == <<status, attempts, nextAt, leased, lane>>
endpointVars == <<enabled, failing, health, told>>

StoreTypeOK ==
    /\ status \in [Deliveries -> {"absent", "pending", "delivered", "failed"}]
    /\ attempts \in [Deliveries -> Nat]
    /\ nextAt \in [Deliveries -> {"null", "later", "due", "overdue"}]
    /\ leased \subseteq Deliveries
    /\ lane \in [Deliveries -> Lanes]
    /\ enabled \in BOOLEAN
    /\ failing \in {"null", "recent", "outage", "silence"}
    /\ health \in {"healthy", "failing", "disabled"}
    /\ told \in {"nothing", "failing", "disabled", "recovered"}

StoreInit ==
    /\ status = [d \in Deliveries |-> "absent"]
    /\ attempts = [d \in Deliveries |-> 0]
    /\ nextAt = [d \in Deliveries |-> "null"]
    /\ leased = {}
    /\ lane = [d \in Deliveries |-> "ordered"]
    /\ enabled = TRUE
    /\ failing = "null"
    /\ health = "healthy"
    /\ told = "nothing"

-----------------------------------------------------------------------------
\* Statements on deliveries.

Owed(d) == nextAt[d] \in {"due", "overdue"}

InsertRow(d) ==
    /\ status[d] = "absent"
    /\ status' = [status EXCEPT ![d] = "pending"]
    /\ nextAt' = [nextAt EXCEPT ![d] = "due"]
    /\ UNCHANGED <<attempts, leased, lane>>

\* MUTANTS of Claimable: the lease, or the status, is not looked at.
ClaimableLeased(d) == status[d] = "pending" /\ nextAt[d] # "later"
ClaimableAnswered(d) == status[d] # "absent" /\ d \notin leased /\ nextAt[d] # "later"

\* The WHERE clause of load.
Claimable(d) ==
    /\ status[d] = "pending"
    /\ d \notin leased
    /\ nextAt[d] # "later"

ClaimRow(d) ==
    /\ leased' = leased \cup {d}
    /\ UNCHANGED <<status, attempts, nextAt, lane>>

\* load finds the endpoint switched off.
FailDisabled(d) ==
    /\ status' = [status EXCEPT ![d] = "failed"]
    /\ nextAt' = [nextAt EXCEPT ![d] = "null"]
    /\ leased' = leased \ {d}
    /\ UNCHANGED <<attempts, lane>>

ReleaseRow(d) ==
    /\ leased' = leased \ {d}
    /\ UNCHANGED <<status, attempts, nextAt, lane>>

RecordDelivered(d, made) ==
    /\ status' = [status EXCEPT ![d] = "delivered"]
    /\ attempts' = [attempts EXCEPT ![d] = made]
    /\ nextAt' = [nextAt EXCEPT ![d] = "null"]
    /\ leased' = leased \ {d}
    /\ UNCHANGED lane

\* MUTANT of RecordFailed: the row says `retrying`, a status of its own.
RecordRetrying(d, made, final, to) ==
    /\ status' = [status EXCEPT ![d] = IF final THEN "failed" ELSE "retrying"]
    /\ attempts' = [attempts EXCEPT ![d] = made]
    /\ nextAt' = [nextAt EXCEPT ![d] = IF final THEN "null" ELSE "later"]
    /\ leased' = leased \ {d}
    /\ lane' = [lane EXCEPT ![d] = to]

RecordFailed(d, made, final, to) ==
    /\ status' = [status EXCEPT ![d] = IF final THEN "failed" ELSE "pending"]
    /\ attempts' = [attempts EXCEPT ![d] = made]
    /\ nextAt' = [nextAt EXCEPT ![d] = IF final THEN "null" ELSE "later"]
    /\ leased' = leased \ {d}
    /\ lane' = [lane EXCEPT ![d] = to]

\* A resend, or a replay's batch.
Reopen(d) ==
    /\ status[d] \in {"delivered", "failed"}
    /\ status' = [status EXCEPT ![d] = "pending"]
    /\ nextAt' = [nextAt EXCEPT ![d] = "due"]
    /\ leased' = leased \ {d}
    /\ lane' = [lane EXCEPT ![d] = "retry"]
    /\ UNCHANGED attempts

\* MUTANT of Abandoned: the sweep takes only what was never attempted.
AbandonedFresh(d) ==
    status[d] = "pending" /\ nextAt[d] = "overdue" /\ d \notin leased /\ attempts[d] = 0

\* The rows core.webhook_deliveries_due returns.
Abandoned(d) ==
    /\ status[d] = "pending"
    /\ nextAt[d] = "overdue"
    /\ d \notin leased

-----------------------------------------------------------------------------
\* What a transaction does to the endpoint's row besides.

\* MUTANT of EndpointWorks: the recovery is looked for in the row as it is after
\* the update.
EndpointWorksUnreported ==
    /\ failing' = "null"
    /\ health' = IF enabled THEN "healthy" ELSE health
    /\ UNCHANGED <<enabled, told>>

\* onDelivered: the failing run is over, and a recovery is reported if the
\* endpoint is enabled and was not healthy.
EndpointWorks ==
    /\ failing' = "null"
    /\ health' = IF enabled THEN "healthy" ELSE health
    /\ told' = IF enabled /\ health # "healthy" THEN "recovered" ELSE told
    /\ UNCHANGED enabled

\* The rest of markFailed.  counts: the attempt may count against the endpoint;
\* gone: it answered 410; final: the delivery has no attempt left.
EndpointFails(counts, gone, final) ==
    LET since == IF counts /\ failing = "null" THEN "recent" ELSE failing
        outage == counts /\ ~gone /\ enabled /\ health = "healthy"
                    /\ since \in {"outage", "silence"}
        off == enabled /\ (gone \/ (counts /\ final /\ since = "silence"))
    IN  /\ failing' = since
        /\ enabled' = (enabled /\ ~off)
        /\ health' = IF off THEN "disabled" ELSE IF outage THEN "failing" ELSE health
        /\ told' = IF off THEN "disabled" ELSE IF outage THEN "failing" ELSE told

\* The customer pauses, or resumes; rotating the secret resumes as well.
PauseEndpoint ==
    /\ enabled
    /\ enabled' = FALSE
    /\ UNCHANGED <<failing, health, told>>

ResumeEndpoint ==
    /\ enabled' = TRUE
    /\ failing' = "null"
    /\ health' = IF health = "disabled" THEN "failing" ELSE health
    /\ UNCHANGED told

-----------------------------------------------------------------------------
\* The passing of time, as far as the predicates above can see it.

BecomesDue(d) ==
    /\ nextAt[d] = "later"
    /\ nextAt' = [nextAt EXCEPT ![d] = "due"]
    /\ UNCHANGED <<status, attempts, leased, lane>>

BecomesOverdue(d) ==
    /\ nextAt[d] = "due"
    /\ nextAt' = [nextAt EXCEPT ![d] = "overdue"]
    /\ UNCHANGED <<status, attempts, leased, lane>>

LeaseRunsOut(d) ==
    /\ d \in leased
    /\ ReleaseRow(d)

FailingAges ==
    /\ failing \in {"recent", "outage"}
    /\ failing' = IF failing = "recent" THEN "outage" ELSE "silence"
    /\ UNCHANGED <<enabled, health, told>>
=============================================================================
