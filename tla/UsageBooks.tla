----------------------------- MODULE UsageBooks -----------------------------
(***************************************************************************)
(* How one tenant's sent mail becomes units on Polar's meter.              *)
(*                                                                         *)
(*   core.messages  --recordSent, or a top-up-->  core.meter_events        *)
(*   core.meter_events  --flushUsage-->  Polar                             *)
(*                                                                         *)
(* The worker records a batch after its rows say `sent`, and may lose the  *)
(* batch: a throw is swallowed and a crash takes it along.  The billing    *)
(* CronJob (reconcile.ts) repairs rows from SES, counts both sides day by  *)
(* day, tops the ledger up, and ships what Polar has not seen.  It can be  *)
(* killed at any point, every one of its calls can fail, and a second copy *)
(* may run beside it.                                                      *)
(*                                                                         *)
(* Time is counted in ticks, the first of each day being its midnight.  At *)
(* most one message is sent in a tick, and the tick is its name: the order *)
(* of two messages is the order of their `sent_at`.  A message is one unit.*)
(***************************************************************************)
EXTENDS Integers, FiniteSets

CONSTANTS
    Horizon,        \* BOUND: the last tick
    DayLength,      \* ticks in a day, midnight among them
    Lookback,       \* RECONCILE_LOOKBACK_DAYS, in ticks
    Workers,
    Runs,           \* copies of the CronJob that may run side by side
    TopUpLimit,     \* TOPUP_LIMIT
    IngestLimit,    \* INGEST_LIMIT
    MaxPasses,      \* flushes in a run
    MaxFaults       \* BOUND: kills, throws and lost answers

ASSUME CalendarAssumption ==
    /\ Horizon \in Nat
    /\ DayLength \in Nat /\ DayLength > 1
    /\ Lookback \in Nat

ASSUME LimitAssumption ==
    /\ TopUpLimit \in Nat /\ IngestLimit \in Nat /\ MaxPasses \in Nat
    /\ TopUpLimit > 0 /\ IngestLimit > 0 /\ MaxPasses > 0
    /\ MaxFaults \in Nat

Messages == {t \in 1..Horizon : t % DayLength # 0}
Days == 0..(Horizon \div DayLength)
Day(t) == t \div DayLength
Midnight(d) == d * DayLength

VARIABLES
    clock,      \* the tick it is
    sent,       \* messages whose row is `sent`
    batch,      \* what each worker is about to hand to recordSent
    ledger,     \* the meter_events row of each message
    occurred,   \* its occurred_at
    units,      \* what Polar's meter counts under the message's external_id
    leg,        \* where each run is
    from, to,   \* its window
    ours,       \* its count of sent rows, by day
    deficit,    \* by day, what the ledger is short of and the run will top up
    surplus,    \* days it reports the ledger to be ahead
    ids,        \* the rest of the bucket it is topping up
    page,       \* the events it is shipping
    pass,       \* its flushes so far
    faults      \* history: what went wrong so far

booksVars == <<clock, sent, batch, ledger, occurred, units>>
countVars == <<from, to, ours, deficit, surplus, ids>>
flushVars == <<page, pass>>
vars == <<booksVars, leg, countVars, flushVars, faults>>

Rows == {"none", "unshipped", "shipped"}
Legs == {"idle", "ses", "ours", "theirs", "topup", "page", "ingest", "mark"}

TypeOK ==
    /\ clock \in 0..Horizon
    /\ sent \subseteq Messages
    /\ batch \in [Workers -> SUBSET Messages]
    /\ ledger \in [Messages -> Rows]
    /\ occurred \in [Messages -> Nat]
    /\ units \in [Messages -> Nat]
    /\ leg \in [Runs -> Legs]
    /\ from \in [Runs -> Nat] /\ to \in [Runs -> Nat]
    /\ ours \in [Runs -> [Days -> Nat]]
    /\ deficit \in [Runs -> [Days -> Nat]]
    /\ surplus \in [Runs -> SUBSET Days]
    /\ ids \in [Runs -> SUBSET Messages]
    /\ page \in [Runs -> SUBSET Messages]
    /\ pass \in [Runs -> 0..MaxPasses]
    /\ faults \in 0..MaxFaults

NoDays == [d \in Days |-> 0]

Init ==
    /\ clock = 0
    /\ sent = {}
    /\ batch = [w \in Workers |-> {}]
    /\ ledger = [m \in Messages |-> "none"]
    /\ occurred = [m \in Messages |-> 0]
    /\ units = [m \in Messages |-> 0]
    /\ leg = [r \in Runs |-> "idle"]
    /\ from = [r \in Runs |-> 0] /\ to = [r \in Runs |-> 0]
    /\ ours = [r \in Runs |-> NoDays] /\ deficit = [r \in Runs |-> NoDays]
    /\ surplus = [r \in Runs |-> {}]
    /\ ids = [r \in Runs |-> {}]
    /\ page = [r \in Runs |-> {}] /\ pass = [r \in Runs |-> 0]
    /\ faults = 0

Fault == faults < MaxFaults /\ faults' = faults + 1

-----------------------------------------------------------------------------
(* The worker.                                                             *)

\* A bug: a markSent that finds no row is billed all the same.
MarkSentUnchecked(w) ==
    /\ clock + 1 \in Messages
    /\ clock' = clock + 1
    /\ sent' = sent \/ sent' = sent \cup {clock + 1}
    /\ batch' = [batch EXCEPT ![w] = @ \cup {clock + 1}]
    /\ UNCHANGED <<ledger, occurred, units, leg, countVars, flushVars, faults>>

\* markSent finds its row: the row is `sent` as of now, and will be billed.
MarkSent(w) ==
    /\ clock + 1 \in Messages
    /\ clock' = clock + 1
    /\ sent' = sent \cup {clock + 1}
    /\ batch' = [batch EXCEPT ![w] = @ \cup {clock + 1}]
    /\ UNCHANGED <<ledger, occurred, units, leg, countVars, flushVars, faults>>

\* The provider took the mail and no row says so: the claim was lost, or the
\* worker died.
GoneUnmarked(w) ==
    /\ clock + 1 \in Messages
    /\ clock' = clock + 1
    /\ UNCHANGED <<sent, batch, ledger, occurred, units, leg, countVars, flushVars, faults>>

Midnights ==
    /\ clock < Horizon /\ clock + 1 \notin Messages
    /\ clock' = clock + 1
    /\ UNCHANGED <<sent, batch, ledger, occurred, units, leg, countVars, flushVars, faults>>

\* insert .. on conflict do nothing: what is new of S occurred at `at`, and has
\* not been shipped.
Insert(S, at) ==
    LET new == {m \in S : ledger[m] = "none"} IN
    /\ ledger' = [m \in Messages |-> IF m \in new THEN "unshipped" ELSE ledger[m]]
    /\ occurred' = [m \in Messages |-> IF m \in new THEN at[m] ELSE occurred[m]]

SentAt == [m \in Messages |-> m]

RecordSent(w) ==
    /\ batch[w] # {}
    /\ Insert(batch[w], SentAt)
    /\ batch' = [batch EXCEPT ![w] = {}]
    /\ UNCHANGED <<clock, sent, units, leg, countVars, flushVars, faults>>

\* recordSent throws and the worker goes on, or the worker dies first.
RecordLost(w) ==
    /\ batch[w] # {}
    /\ batch' = [batch EXCEPT ![w] = {}]
    /\ UNCHANGED <<clock, sent, ledger, occurred, units, leg, countVars, flushVars, faults>>

-----------------------------------------------------------------------------
(* The CronJob: the SES leg, the books, the flush.                         *)

Goto(r, l) == leg' = [leg EXCEPT ![r] = l]

Begin(r) ==
    /\ leg[r] = "idle"
    /\ Goto(r, "ses")
    /\ to' = [to EXCEPT ![r] = clock + 1]
    /\ from' = [from EXCEPT ![r] = IF clock > Lookback THEN clock - Lookback ELSE 0]
    /\ ours' = [ours EXCEPT ![r] = NoDays]
    /\ deficit' = [deficit EXCEPT ![r] = NoDays]
    /\ surplus' = [surplus EXCEPT ![r] = {}]
    /\ ids' = [ids EXCEPT ![r] = {}]
    /\ page' = [page EXCEPT ![r] = {}]
    /\ pass' = [pass EXCEPT ![r] = 0]
    /\ UNCHANGED <<booksVars, faults>>

\* SES says m went and the row does not: it becomes `sent`, as of when SES says.
Repair(r, m) ==
    /\ leg[r] = "ses"
    /\ m <= clock /\ m \notin sent
    /\ sent' = sent \cup {m}
    /\ UNCHANGED <<clock, batch, ledger, occurred, units, leg, countVars, flushVars, faults>>

SesDone(r) ==
    /\ leg[r] = "ses"
    /\ Goto(r, "ours")
    /\ UNCHANGED <<booksVars, countVars, flushVars, faults>>

InWindow(r, t) == from[r] <= t /\ t < to[r]

SentUsage(r) ==
    [d \in Days |-> Cardinality({m \in sent : InWindow(r, m) /\ Day(m) = d})]

\* A bug: the ledger is counted up to the moment it is read.
MeterUsageToDate(r) ==
    [d \in Days |-> Cardinality({m \in Messages :
        ledger[m] # "none" /\ from[r] <= occurred[m] /\ Day(occurred[m]) = d})]

MeterUsage(r) ==
    [d \in Days |-> Cardinality({m \in Messages :
        ledger[m] # "none" /\ InWindow(r, occurred[m]) /\ Day(occurred[m]) = d})]

ReadOurs(r) ==
    /\ leg[r] = "ours"
    /\ ours' = [ours EXCEPT ![r] = SentUsage(r)]
    /\ Goto(r, "theirs")
    /\ UNCHANGED <<booksVars, from, to, deficit, surplus, ids, flushVars, faults>>

Reconcile(r, mine, theirs) ==
    /\ deficit' = [deficit EXCEPT ![r] =
                     [d \in Days |-> IF mine[d] > theirs[d] THEN mine[d] - theirs[d] ELSE 0]]
    /\ surplus' = [surplus EXCEPT ![r] = {d \in Days : theirs[d] > mine[d]}]

ReadTheirs(r) ==
    /\ leg[r] = "theirs"
    /\ Reconcile(r, ours[r], MeterUsage(r))
    /\ Goto(r, "topup")
    /\ UNCHANGED <<booksVars, from, to, ours, ids, flushVars, faults>>

Lesser(a, b) == IF a < b THEN a ELSE b

\* The n earliest of S.
Earliest(S, n) == {m \in S : Cardinality({k \in S : k < m}) < n}

SentOn(d) == {m \in sent : Day(m) = d}

\* A bug: the newest first.
NewestIds(d, limit) ==
    {m \in SentOn(d) : Cardinality({k \in SentOn(d) : k > m}) < limit}

UnbilledIds(d, limit) == Earliest(SentOn(d), limit)

OpenBucket(r, d) ==
    /\ leg[r] = "topup" /\ ids[r] = {}
    /\ deficit[r][d] > 0 /\ \A e \in Days : e < d => deficit[r][e] = 0
    /\ ids' = [ids EXCEPT ![r] = UnbilledIds(d, Lesser(deficit[r][d], TopUpLimit))]
    /\ deficit' = [deficit EXCEPT ![r][d] = 0]
    /\ UNCHANGED <<booksVars, leg, from, to, ours, surplus, flushVars, faults>>

BucketStart == [m \in Messages |-> Midnight(Day(m))]

Track(r, m) ==
    /\ leg[r] = "topup" /\ m \in ids[r] /\ \A k \in ids[r] : m <= k
    /\ Insert({m}, BucketStart)
    /\ ids' = [ids EXCEPT ![r] = @ \ {m}]
    /\ UNCHANGED <<clock, sent, batch, units, leg, from, to, ours, deficit, surplus,
                   flushVars, faults>>

\* One bucket's failure is its own: the loop goes on to the next.
BucketFails(r, d) ==
    /\ leg[r] = "topup" /\ Fault
    /\ \/ ids[r] # {} /\ UNCHANGED deficit
       \/ ids[r] = {} /\ deficit[r][d] > 0 /\ deficit' = [deficit EXCEPT ![r][d] = 0]
    /\ ids' = [ids EXCEPT ![r] = {}]
    /\ UNCHANGED <<booksVars, leg, from, to, ours, surplus, flushVars>>

BooksDone(r) ==
    /\ leg[r] = "topup" /\ ids[r] = {} /\ deficit[r] = NoDays
    /\ Goto(r, "page")
    /\ UNCHANGED <<booksVars, countVars, flushVars, faults>>

\* A leg that throws does not stop the ones after it.
LegFails(r) ==
    /\ Fault
    /\ \/ leg[r] = "ses" /\ Goto(r, "ours")
       \/ leg[r] \in {"ours", "theirs"} /\ Goto(r, "page")
       \/ leg[r] = "page" /\ Goto(r, "idle")
    /\ UNCHANGED <<booksVars, countVars, flushVars>>

Unshipped == {m \in Messages : ledger[m] = "unshipped"}

\* A bug: only what is inside the look-back is asked for.
IsRecentPage(S) ==
    LET recent == {m \in Unshipped : occurred[m] + Lookback >= clock} IN
    /\ S \subseteq recent
    /\ Cardinality(S) = Lesser(IngestLimit, Cardinality(recent))
    /\ \A m \in S, k \in recent \ S : occurred[m] <= occurred[k]

\* The oldest events, up to a limit; of equally old ones, any.
IsPage(S) ==
    /\ S \subseteq Unshipped
    /\ Cardinality(S) = Lesser(IngestLimit, Cardinality(Unshipped))
    /\ \A m \in S, k \in Unshipped \ S : occurred[m] <= occurred[k]

ReadPage(r, S) ==
    /\ leg[r] = "page"
    /\ IsPage(S)
    /\ page' = [page EXCEPT ![r] = S]
    /\ Goto(r, IF S = {} THEN "idle" ELSE "ingest")
    /\ UNCHANGED <<booksVars, countVars, pass, faults>>

\* A bug: the events carry no external_id.
IngestedUnkeyed(S) ==
    [m \in Messages |-> IF m \in S THEN units[m] + 1 ELSE units[m]]

\* Polar counts an external_id once.
Ingested(S) ==
    [m \in Messages |-> IF m \in S /\ units[m] = 0 THEN 1 ELSE units[m]]

Ingest(r) ==
    /\ leg[r] = "ingest"
    /\ units' = Ingested(page[r])
    /\ Goto(r, "mark")
    /\ UNCHANGED <<clock, sent, batch, ledger, occurred, countVars, flushVars, faults>>

\* Polar refuses, or takes the events and its answer is lost: the flush is over.
IngestFails(r) ==
    /\ leg[r] = "ingest" /\ Fault
    /\ units' = units \/ units' = Ingested(page[r])
    /\ Goto(r, "idle")
    /\ UNCHANGED <<clock, sent, batch, ledger, occurred, countVars, flushVars>>

\* A bug: everything unshipped is marked, not only what was in the request.
ShippedWholesale(S) ==
    [m \in Messages |-> IF ledger[m] = "unshipped" THEN "shipped" ELSE ledger[m]]

Shipped(S) ==
    [m \in Messages |-> IF m \in S /\ ledger[m] = "unshipped" THEN "shipped" ELSE ledger[m]]

\* A bug: one pass too many.
NextPassUnbounded(r) ==
    LET again == Cardinality(page[r]) >= IngestLimit /\ pass[r] < MaxPasses IN
    /\ Goto(r, IF again THEN "page" ELSE "idle")
    /\ pass' = [pass EXCEPT ![r] = @ + 1]

\* A full page means there is more to come.
NextPass(r) ==
    LET again == Cardinality(page[r]) >= IngestLimit /\ pass[r] + 1 < MaxPasses IN
    /\ Goto(r, IF again THEN "page" ELSE "idle")
    /\ pass' = [pass EXCEPT ![r] = @ + 1]

MarkShipped(r) ==
    /\ leg[r] = "mark"
    /\ ledger' = Shipped(page[r])
    /\ NextPass(r)
    /\ UNCHANGED <<clock, sent, batch, occurred, units, countVars, page, faults>>

\* The failure to mark is logged, and the flush goes on.
MarkFails(r) ==
    /\ leg[r] = "mark" /\ Fault
    /\ NextPass(r)
    /\ UNCHANGED <<booksVars, countVars, page>>

\* activeDeadlineSeconds, an eviction, a crash.
Killed(r) ==
    /\ leg[r] # "idle" /\ Fault
    /\ Goto(r, "idle")
    /\ UNCHANGED <<booksVars, countVars, flushVars>>

-----------------------------------------------------------------------------
Work(w) == MarkSent(w) \/ GoneUnmarked(w) \/ RecordSent(w) \/ RecordLost(w)

Advance(r) ==
    \/ Begin(r) \/ SesDone(r) \/ ReadOurs(r) \/ ReadTheirs(r) \/ BooksDone(r)
    \/ \E d \in Days : OpenBucket(r, d)
    \/ \E m \in Messages : Track(r, m)
    \/ \E S \in SUBSET Messages : ReadPage(r, S)
    \/ Ingest(r) \/ MarkShipped(r)

Next ==
    \/ Midnights
    \/ \E w \in Workers : Work(w)
    \/ \E r \in Runs :
          \/ Advance(r)
          \/ \E m \in Messages : Repair(r, m)
          \/ \E d \in Days : BucketFails(r, d)
          \/ LegFails(r) \/ IngestFails(r) \/ MarkFails(r) \/ Killed(r)

Spec == Init /\ [][Next]_vars

\* The CronJob comes back every half hour, and a run that nothing disturbs ends.
FairSpec == Spec /\ \A r \in Runs : WF_vars(Advance(r))

-----------------------------------------------------------------------------
Metered == {m \in Messages : ledger[m] # "none"}

\* Only mail whose row says `sent` is usage, whoever recorded it: a worker that
\* lost its claim, a top-up, two copies of the job (handle-batch.ts: "only billed
\* if the row was actually ours to record").
MeteredIsSent == Metered \subseteq sent

\* An event marked as shipped is on Polar's meter, wherever the job died and
\* whatever was recorded meanwhile (ingest.ts: Polar first, the watermark second,
\* and only the ids that were in the request).
ShippedReachedPolar == \A m \in Messages : ledger[m] = "shipped" => units[m] > 0

\* Nobody pays twice for a message: not after a lost answer, a failed mark, a
\* killed run or a second copy, and only for mail in the ledger.
BilledOnce ==
    \A m \in Messages : units[m] <= 1 /\ (units[m] = 1 => m \in Metered)

\* reconcile.ts: a surplus means the meter counted something that was not sent.
\* One run at a time never reports one because workers send and record between
\* its two counts.
SurplusIsOvercharge ==
    \A r \in Runs : \A d \in surplus[r] : \E m \in Metered \ sent : Day(m) = d

\* Every event reaches Polar, whatever failed on the way.
EventuallyShipped ==
    \A m \in Messages : ledger[m] = "unshipped" ~> ledger[m] = "shipped"

\* What top-ups do achieve, of a day wholly inside the window: as many of its
\* earliest messages as it lacks, up to the limit, are in the ledger for good.
HeadIsMetered ==
    \A d \in Days :
        <>[](Midnight(d) + Lookback >= clock =>
                LET lacks == Cardinality(SentOn(d) \ Metered) IN
                Earliest(SentOn(d), Lesser(lacks, TopUpLimit)) \subseteq Metered)

\* send/reconcile.ts: the send path takes gaps, and this closes them.
GapsClose == \A m \in Messages : m \in sent ~> m \in Metered

=============================================================================
