---------------------------- MODULE MessageStore ----------------------------
(***************************************************************************)
(* The rows of core.messages, and the statements the send path runs over   *)
(* them.  Each operator below that primes a variable is one SQL statement  *)
(* (or one transaction) of apps/api: it reads and writes the rows          *)
(* atomically, which is what Postgres gives a single UPDATE.  The module   *)
(* has no next-state relation of its own; SendPipeline conjoins these      *)
(* statements with what the process running them does besides.             *)
(*                                                                         *)
(* Columns that no property tells apart (addresses, subject, last_error,   *)
(* attempts, route) are left out.  A timestamp is kept as the one          *)
(* comparison the code makes with it.                                      *)
(***************************************************************************)
EXTENDS SendTypes

VARIABLES
    status,     \* "absent" until the row is inserted
    claimedBy,  \* claimed_by: the process whose claim this is
    stale,      \* rows whose claimed_at is older than WORKER_CLAIM_STALE_AFTER
    old,        \* rows whose created_at is older than SWEEP_QUEUED_GRACE
    bare,       \* rows whose to_addresses is empty
    providerId, \* provider_message_id; the ids a provider hands out are told apart
                \* by the slot whose call they answered
    clock       \* now()

storeVars == <<status, claimedBy, stale, old, bare, providerId, clock>>

Statuses == {"absent", "queued", "sending", "sent", "failed", "canceled"}
Terminal == {"sent", "failed", "canceled"}

StoreTypeOK ==
    /\ status \in [Messages -> Statuses]
    /\ claimedBy \in [Messages -> Procs \cup {None}]
    /\ stale \subseteq Messages
    /\ old \subseteq Messages
    /\ bare \subseteq Messages
    /\ providerId \in [Messages -> Slots \cup {None}]
    /\ clock \in 0..MaxTime

StoreInit ==
    /\ status = [m \in Messages |-> "absent"]
    /\ claimedBy = [m \in Messages |-> None]
    /\ stale = {}
    /\ old = {}
    /\ bare = {}
    /\ providerId = [m \in Messages |-> None]
    /\ clock = 0

Due(m) == DueTime[m] <= clock

-----------------------------------------------------------------------------
\* Statements.

\* MUTANT of Claimable: the staleness test dropped.
ClaimableInFlight(m) == Due(m) /\ status[m] \in {"queued", "sending"}

\* The rows a claim may take: due, and queued or abandoned mid-send.
Claimable(m) ==
    /\ Due(m)
    /\ \/ status[m] = "queued"
       \/ status[m] = "sending" /\ m \in stale

\* MUTANT of Stuck: the sweep forgets rows abandoned mid-send.
StuckQueuedOnly(m) == Due(m) /\ status[m] = "queued" /\ m \in old

\* The rows core.sweep_stuck_messages returns.
Stuck(m) ==
    /\ Due(m)
    /\ \/ status[m] = "queued" /\ m \in old
       \/ status[m] = "sending" /\ m \in stale

\* MUTANT of OwnedBy: no guard at all.
OwnedByAnyone(m, p) == status[m] # "absent"

\* The guard shared by markSent, markFailed and markCanceled.
OwnedBy(m, p) == status[m] = "sending" /\ claimedBy[m] = p

\* persist: every message of a request in one transaction; B is the set
\* whose every `to` address was suppressed.
InsertRows(S, B) ==
    /\ status' = [m \in Messages |-> IF m \in S THEN "queued" ELSE status[m]]
    /\ bare' = bare \cup B
    /\ UNCHANGED <<claimedBy, stale, old, providerId, clock>>

ClaimRows(S, p) ==
    /\ status' = [m \in Messages |-> IF m \in S THEN "sending" ELSE status[m]]
    /\ claimedBy' = [m \in Messages |-> IF m \in S THEN p ELSE claimedBy[m]]
    /\ stale' = stale \ S
    /\ UNCHANGED <<old, bare, providerId, clock>>

\* markSent keeps claimed_by and claimed_at; the other two clear them.
MarkSent(m, p, id) ==
    \/ /\ OwnedBy(m, p)
       /\ status' = [status EXCEPT ![m] = "sent"]
       /\ providerId' = [providerId EXCEPT ![m] = id]
       /\ UNCHANGED <<claimedBy, stale, old, bare, clock>>
    \/ ~OwnedBy(m, p) /\ UNCHANGED storeVars

\* MUTANT of Unclaim: the WHERE clause without status and claimed_by.
UnclaimAnyway(m, p, to) ==
    /\ status' = [status EXCEPT ![m] = to]
    /\ claimedBy' = [claimedBy EXCEPT ![m] = None]
    /\ stale' = stale \ {m}
    /\ UNCHANGED <<old, bare, providerId, clock>>

\* markFailed (to "failed" or back to "queued") and markCanceled.
Unclaim(m, p, to) ==
    \/ /\ OwnedBy(m, p)
       /\ status' = [status EXCEPT ![m] = to]
       /\ claimedBy' = [claimedBy EXCEPT ![m] = None]
       /\ stale' = stale \ {m}
       /\ UNCHANGED <<old, bare, providerId, clock>>
    \/ ~OwnedBy(m, p) /\ UNCHANGED storeVars

\* MUTANT of MarkFailed: the provider's outcome written as the row's status.
MarkFailedVerbatim(m, p, permanent) ==
    Unclaim(m, p, IF permanent THEN "rejected" ELSE "deferred")

MarkFailed(m, p, permanent) ==
    Unclaim(m, p, IF permanent THEN "failed" ELSE "queued")

MarkCanceled(m, p) == Unclaim(m, p, "canceled")

\* MUTANT of CancelQueued: it cancels what is being sent as well.
CancelUnsent ==
    /\ status' = [m \in Messages |->
                    IF status[m] \in {"queued", "sending"} THEN "canceled" ELSE status[m]]
    /\ UNCHANGED <<claimedBy, stale, old, bare, providerId, clock>>

\* The UPDATE in the transaction that places a hold.
CancelQueued ==
    /\ status' = [m \in Messages |->
                    IF status[m] = "queued" THEN "canceled" ELSE status[m]]
    /\ UNCHANGED <<claimedBy, stale, old, bare, providerId, clock>>

\* core.repair_from_ses: any row but a sent one becomes sent, and an id that is
\* already recorded is kept.
RepairFromSes(m, id) ==
    /\ status[m] # "sent"
    /\ status' = [status EXCEPT ![m] = "sent"]
    /\ providerId' = [providerId EXCEPT ![m] = IF @ = None THEN id ELSE @]
    /\ claimedBy' = [claimedBy EXCEPT ![m] = None]
    /\ stale' = stale \ {m}
    /\ UNCHANGED <<old, bare, clock>>

-----------------------------------------------------------------------------
\* The passing of time, as far as the predicates above can see it.

Tick == clock < MaxTime /\ clock' = clock + 1
        /\ UNCHANGED <<status, claimedBy, stale, old, bare, providerId>>

RowAges(m) ==
    /\ status[m] # "absent"
    /\ m \notin old
    /\ old' = old \cup {m}
    /\ UNCHANGED <<status, claimedBy, stale, bare, providerId, clock>>

ClaimAges(m) ==
    /\ status[m] = "sending"
    /\ m \notin stale
    /\ stale' = stale \cup {m}
    /\ UNCHANGED <<status, claimedBy, old, bare, providerId, clock>>
=============================================================================
