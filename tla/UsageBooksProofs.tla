-------------------------- MODULE UsageBooksProofs --------------------------
(***************************************************************************)
(* What TLAPS proves of the usage books, for any calendar, look-back,      *)
(* limits, and number of workers and of copies of the CronJob.             *)
(***************************************************************************)
EXTENDS UsageBooks, FiniteSetTheorems, TLAPS

USE DEF Rows, Legs

\* A tick belongs to a day that began no later, and midnight is of its own day.
LEMMA Calendar ==
    /\ \A t \in Nat : Day(t) \in Nat /\ Midnight(Day(t)) \in Nat /\ Midnight(Day(t)) <= t
    /\ \A t \in Nat : Day(Midnight(Day(t))) = Day(t)
<1> USE CalendarAssumption
<1>1. ASSUME NEW t \in Nat PROVE Day(t) \in Nat
  BY SMT DEF Day
<1>2. ASSUME NEW t \in Nat PROVE Midnight(Day(t)) \in Nat /\ Midnight(Day(t)) <= t
  BY <1>1, SMT DEF Day, Midnight
<1>3. ASSUME NEW t \in Nat PROVE Day(Midnight(Day(t))) = Day(t)
  BY <1>1, SMT DEF Day, Midnight
<1> QED
  BY <1>1, <1>2, <1>3

\* Messages are ticks, finitely many.
LEMMA Ticks ==
    /\ Messages \subseteq 1..Horizon /\ Messages \subseteq Nat
    /\ IsFiniteSet(Messages)
<1>1. Messages \subseteq 1..Horizon /\ Messages \subseteq Nat
  BY CalendarAssumption DEF Messages
<1>2. IsFiniteSet(1..Horizon)
  BY CalendarAssumption, FS_Interval
<1> QED
  BY <1>1, <1>2, FS_Subset

\* Counting some of the messages gives a number.
LEMMA Counts ==
    ASSUME NEW S \in SUBSET Messages
    PROVE  IsFiniteSet(S) /\ Cardinality(S) \in Nat
BY Ticks, FS_Subset, FS_CardinalityType

\* Recording keeps the ledger well formed, forgets no row and adds only what it
\* was given.
LEMMA Inserting ==
    ASSUME NEW S \in SUBSET Messages, NEW at \in [Messages -> Nat],
           ledger \in [Messages -> Rows], occurred \in [Messages -> Nat], Insert(S, at)
    PROVE  /\ ledger' \in [Messages -> Rows] /\ occurred' \in [Messages -> Nat]
           /\ Metered' = Metered \cup S
           /\ \A m \in Messages : ledger'[m] = "shipped" <=> ledger[m] = "shipped"
           /\ \A m \in Messages :
                 \/ m \notin Metered /\ m \in S /\ occurred'[m] = at[m]
                 \/ occurred'[m] = occurred[m]
BY DEF Insert, Metered

\* The two clocks an event may carry.
LEMMA Clocks ==
    /\ SentAt \in [Messages -> Nat]
    /\ BucketStart \in [Messages -> Nat]
BY Ticks, Calendar DEF SentAt, BucketStart

\* Polar forgets nothing and has counted whatever it was given.
LEMMA Ingesting ==
    ASSUME NEW S \in SUBSET Messages, units \in [Messages -> Nat], units' = Ingested(S)
    PROVE  /\ units' \in [Messages -> Nat]
           /\ \A m \in Messages : units[m] > 0 => units'[m] = units[m]
           /\ \A m \in Messages : units'[m] = units[m] \/ (m \in S /\ units'[m] = 1)
           /\ \A m \in S : units'[m] > 0
BY DEF Ingested


\* A run that is not over has a flush left.
PassesLeft == \A r \in Runs : leg[r] # "idle" => pass[r] < MaxPasses

\* After its last flush a run goes idle.
LEMMA NextPassType ==
    ASSUME NEW r \in Runs, TypeOK, PassesLeft, leg[r] = "mark", NextPass(r)
    PROVE  /\ pass' \in [Runs -> 0..MaxPasses] /\ leg' \in [Runs -> Legs]
           /\ leg'[r] # "idle" => pass'[r] < MaxPasses
           /\ \A q \in Runs \ {r} : leg'[q] = leg[q] /\ pass'[q] = pass[q]
<1> USE LimitAssumption
<1>1. pass[r] \in 0..MaxPasses /\ pass[r] < MaxPasses
  BY DEF TypeOK, PassesLeft
<1>2. pass' = [pass EXCEPT ![r] = @ + 1] /\ pass[r] + 1 \in 0..MaxPasses
  BY <1>1 DEF NextPass
<1>3. \/ leg' = [leg EXCEPT ![r] = "page"] /\ pass[r] + 1 < MaxPasses
      \/ leg' = [leg EXCEPT ![r] = "idle"]
  BY DEF NextPass, Goto
<1> QED
  BY <1>1, <1>2, <1>3 DEF TypeOK

\* Every step keeps every variable in the set its comment promises.
LEMMA TypeStep ==
    ASSUME TypeOK, PassesLeft, [Next]_vars
    PROVE  TypeOK'
<1> USE CalendarAssumption, LimitAssumption
<1> USE DEF TypeOK, vars, booksVars, countVars, flushVars
<1>1. CASE Midnights
  BY <1>1 DEF Midnights
<1>2. CASE \E w \in Workers : Work(w)
  <2>1. PICK w \in Workers : Work(w)
    BY <1>2
  <2>2. CASE MarkSent(w)
    BY <2>2, Ticks DEF MarkSent
  <2>3. CASE GoneUnmarked(w)
    BY <2>3, Ticks DEF GoneUnmarked
  <2>4. CASE RecordSent(w)
    <3>1. ledger' \in [Messages -> Rows] /\ occurred' \in [Messages -> Nat]
      BY <2>4, Inserting, Clocks DEF RecordSent
    <3> QED
      BY <2>4, <3>1 DEF RecordSent
  <2>5. CASE RecordLost(w)
    BY <2>5 DEF RecordLost
  <2> QED
    BY <2>1, <2>2, <2>3, <2>4, <2>5 DEF Work
<1>3. ASSUME NEW r \in Runs, Advance(r) PROVE TypeOK'
  <2> USE DEF Goto
  <2>1. CASE Begin(r)
    BY <2>1 DEF Begin, NoDays
  <2>2. CASE SesDone(r) \/ BooksDone(r)
    BY <2>2 DEF SesDone, BooksDone
  <2>3. CASE ReadOurs(r)
    <3>1. SentUsage(r) \in [Days -> Nat]
      BY Counts DEF SentUsage
    <3> QED
      BY <2>3, <3>1 DEF ReadOurs
  <2>4. CASE ReadTheirs(r)
    <3>1. MeterUsage(r) \in [Days -> Nat]
      BY Counts DEF MeterUsage
    <3> DEFINE mine == ours[r]
               theirs == MeterUsage(r)
    <3>2. [d \in Days |-> IF mine[d] > theirs[d] THEN mine[d] - theirs[d] ELSE 0]
            \in [Days -> Nat]
      BY <3>1
    <3> QED
      BY <2>4, <3>1, <3>2 DEF ReadTheirs, Reconcile
  <2>5. ASSUME NEW d \in Days, OpenBucket(r, d) PROVE TypeOK'
    <3>1. \A n : UnbilledIds(d, n) \subseteq Messages
      BY DEF UnbilledIds, Earliest, SentOn
    <3> QED
      BY <2>5, <3>1 DEF OpenBucket
  <2>6. ASSUME NEW m \in Messages, Track(r, m) PROVE TypeOK'
    <3>1. ledger' \in [Messages -> Rows] /\ occurred' \in [Messages -> Nat]
      BY <2>6, Inserting, Clocks DEF Track
    <3> QED
      BY <2>6, <3>1 DEF Track
  <2>7. ASSUME NEW S \in SUBSET Messages, ReadPage(r, S) PROVE TypeOK'
    BY <2>7 DEF ReadPage
  <2>8. CASE Ingest(r)
    <3>1. units' \in [Messages -> Nat]
      BY <2>8, Ingesting DEF Ingest
    <3> QED
      BY <2>8, <3>1 DEF Ingest
  <2>9. CASE MarkShipped(r)
    <3>1. ledger' \in [Messages -> Rows]
      BY <2>9 DEF MarkShipped, Shipped
    <3>2. pass' \in [Runs -> 0..MaxPasses] /\ leg' \in [Runs -> Legs]
      BY <2>9, NextPassType DEF MarkShipped
    <3> QED
      BY <2>9, <3>1, <3>2 DEF MarkShipped
  <2> QED
    BY <1>3, <2>1, <2>2, <2>3, <2>4, <2>5, <2>6, <2>7, <2>8, <2>9 DEF Advance
<1>4. ASSUME NEW r \in Runs, NEW m \in Messages, Repair(r, m) PROVE TypeOK'
  BY <1>4 DEF Repair
<1>5. ASSUME NEW r \in Runs, NEW d \in Days, BucketFails(r, d) PROVE TypeOK'
  <2>1. deficit' = deficit \/ deficit' = [deficit EXCEPT ![r][d] = 0]
    BY <1>5 DEF BucketFails
  <2>2. [deficit EXCEPT ![r][d] = 0] \in [Runs -> [Days -> Nat]]
    OBVIOUS
  <2>3. deficit' \in [Runs -> [Days -> Nat]]
    BY <2>1, <2>2
  <2>4. ids' = [ids EXCEPT ![r] = {}] /\ faults' = faults + 1 /\ faults < MaxFaults
    BY <1>5 DEF BucketFails, Fault
  <2>5. UNCHANGED <<booksVars, leg, from, to, ours, surplus, flushVars>>
    BY <1>5 DEF BucketFails
  <2> QED
    BY <2>3, <2>4, <2>5
<1>6. ASSUME NEW r \in Runs, LegFails(r) PROVE TypeOK'
  <2>1. \E l \in Legs : leg' = [leg EXCEPT ![r] = l]
    BY <1>6 DEF LegFails, Goto
  <2>2. leg' \in [Runs -> Legs]
    BY <2>1
  <2> QED
    BY <1>6, <2>2 DEF LegFails, Fault
<1>7. ASSUME NEW r \in Runs, IngestFails(r) PROVE TypeOK'
  <2>1. units' \in [Messages -> Nat]
    BY <1>7, Ingesting DEF IngestFails
  <2> QED
    BY <1>7, <2>1 DEF IngestFails, Fault, Goto
<1>8. ASSUME NEW r \in Runs, MarkFails(r) PROVE TypeOK'
  <2>1. pass' \in [Runs -> 0..MaxPasses] /\ leg' \in [Runs -> Legs]
    BY <1>8, NextPassType DEF MarkFails
  <2> QED
    BY <1>8, <2>1 DEF MarkFails, Fault
<1>9. ASSUME NEW r \in Runs, Killed(r) PROVE TypeOK'
  BY <1>9 DEF Killed, Fault, Goto
<1>10. CASE UNCHANGED vars
  BY <1>10
<1> QED
  BY <1>1, <1>2, <1>3, <1>4, <1>5, <1>6, <1>7, <1>8, <1>9, <1>10 DEF Next


\* Only NextPass begins another flush.
LEMMA PassesStep ==
    ASSUME TypeOK, PassesLeft, [Next]_vars
    PROVE  PassesLeft'
<1> USE LimitAssumption
<1> USE DEF TypeOK, PassesLeft, vars, booksVars, countVars, flushVars
<1>1. CASE Midnights \/ (\E w \in Workers : Work(w)) \/ UNCHANGED vars
  BY <1>1 DEF Midnights, Work, MarkSent, GoneUnmarked, RecordSent, RecordLost
<1>2. ASSUME NEW r \in Runs, Advance(r) PROVE PassesLeft'
  <2> USE DEF Goto
  <2>1. CASE Begin(r)
    BY <2>1 DEF Begin
  <2>2. CASE SesDone(r) \/ BooksDone(r) \/ ReadOurs(r) \/ ReadTheirs(r) \/ Ingest(r)
    BY <2>2 DEF SesDone, BooksDone, ReadOurs, ReadTheirs, Ingest
  <2>3. CASE (\E d \in Days : OpenBucket(r, d)) \/ (\E m \in Messages : Track(r, m))
    BY <2>3 DEF OpenBucket, Track
  <2>4. CASE \E S \in SUBSET Messages : ReadPage(r, S)
    BY <2>4 DEF ReadPage
  <2>5. CASE MarkShipped(r)
    BY <2>5, NextPassType DEF MarkShipped
  <2> QED
    BY <1>2, <2>1, <2>2, <2>3, <2>4, <2>5 DEF Advance
<1>3. ASSUME NEW r \in Runs,
             \/ \E m \in Messages : Repair(r, m)
             \/ \E d \in Days : BucketFails(r, d)
             \/ LegFails(r) \/ IngestFails(r) \/ Killed(r)
      PROVE  PassesLeft'
  BY <1>3 DEF Repair, BucketFails, LegFails, IngestFails, Killed, Goto
<1>4. ASSUME NEW r \in Runs, MarkFails(r) PROVE PassesLeft'
  BY <1>4, NextPassType DEF MarkFails
<1> QED
  BY <1>1, <1>2, <1>3, <1>4 DEF Next

-----------------------------------------------------------------------------
\* What the safety properties rest on: everything on its way into the ledger is
\* sent, everything on its way to Polar is in the ledger, and a run marks only
\* what Polar has counted.
BatchIsSent == \A w \in Workers : batch[w] \subseteq sent
BucketIsSent == \A r \in Runs : ids[r] \subseteq sent
PageIsMetered == \A r \in Runs : page[r] \subseteq Metered
MarkAfterPolar ==
    \A r \in Runs : leg[r] = "mark" => \A m \in page[r] : units[m] > 0

Inv ==
    /\ TypeOK /\ PassesLeft
    /\ BatchIsSent /\ BucketIsSent /\ PageIsMetered /\ MarkAfterPolar
    /\ MeteredIsSent /\ ShippedReachedPolar /\ BilledOnce

\* Initially nothing is sent, recorded or counted.
LEMMA InitInv == Init => Inv
<1> SUFFICES ASSUME Init PROVE Inv
  OBVIOUS
<1>1. TypeOK
  BY CalendarAssumption, LimitAssumption DEF Init, TypeOK, NoDays
<1> QED
  BY <1>1 DEF Init, Inv, PassesLeft, BatchIsSent, BucketIsSent, PageIsMetered, MarkAfterPolar,
              MeteredIsSent, ShippedReachedPolar, BilledOnce, Metered

Safe ==
    /\ BatchIsSent /\ BucketIsSent /\ PageIsMetered /\ MarkAfterPolar
    /\ MeteredIsSent /\ ShippedReachedPolar /\ BilledOnce

\* A step that writes neither side of the books and sends no run to mark.
LEMMA QuietStep ==
    ASSUME Inv, UNCHANGED <<sent, ledger, units, page>>,
           \A w \in Workers : batch'[w] \subseteq batch[w],
           \A r \in Runs : ids'[r] \subseteq ids[r],
           \A r \in Runs : leg'[r] = "mark" => leg[r] = "mark"
    PROVE  Safe'
BY DEF Inv, Safe, BatchIsSent, BucketIsSent, PageIsMetered, MarkAfterPolar,
       MeteredIsSent, ShippedReachedPolar, BilledOnce, Metered

\* Recording mail whose rows are sent.
LEMMA InsertStep ==
    ASSUME Inv, NEW S \in SUBSET Messages, S \subseteq sent,
           NEW at \in [Messages -> Nat], Insert(S, at),
           UNCHANGED <<sent, units, page, leg>>,
           \A w \in Workers : batch'[w] \subseteq batch[w],
           \A r \in Runs : ids'[r] \subseteq ids[r]
    PROVE  Safe'
<1> USE DEF Inv, TypeOK
<1>1. /\ Metered' = Metered \cup S
      /\ \A m \in Messages : ledger'[m] = "shipped" <=> ledger[m] = "shipped"
  BY Inserting
<1>2. BatchIsSent' /\ BucketIsSent' /\ MarkAfterPolar'
  BY DEF BatchIsSent, BucketIsSent, MarkAfterPolar
<1>3. PageIsMetered' /\ MeteredIsSent' /\ ShippedReachedPolar' /\ BilledOnce'
  BY <1>1 DEF PageIsMetered, MeteredIsSent, ShippedReachedPolar, BilledOnce
<1> QED
  BY <1>2, <1>3 DEF Safe

\* Polar counting a page.
LEMMA IngestStep ==
    ASSUME Inv, NEW r \in Runs, units' = Ingested(page[r]),
           UNCHANGED <<sent, batch, ledger, ids, page>>,
           \A q \in Runs : leg'[q] = "mark" => leg[q] = "mark" \/ q = r
    PROVE  Safe'
<1> USE DEF Inv, TypeOK
<1>1. page[r] \in SUBSET Messages /\ page[r] \subseteq Metered
  BY DEF PageIsMetered
<1>2. /\ \A m \in Messages : units[m] > 0 => units'[m] = units[m]
      /\ \A m \in Messages : units'[m] = units[m] \/ (m \in page[r] /\ units'[m] = 1)
      /\ \A m \in page[r] : units'[m] > 0
  BY <1>1, Ingesting
<1>3. Metered' = Metered
  BY DEF Metered
<1>4. BatchIsSent' /\ BucketIsSent' /\ PageIsMetered' /\ MeteredIsSent'
  BY <1>3 DEF BatchIsSent, BucketIsSent, PageIsMetered, MeteredIsSent
<1>5. MarkAfterPolar'
  BY <1>2 DEF MarkAfterPolar
<1>6. ShippedReachedPolar'
  BY <1>2 DEF ShippedReachedPolar
<1>7. BilledOnce'
  BY <1>1, <1>2, <1>3 DEF BilledOnce
<1> QED
  BY <1>4, <1>5, <1>6, <1>7 DEF Safe

\* Every step keeps the books.
LEMMA InvStep ==
    ASSUME Inv, [Next]_vars
    PROVE  Inv'
<1> USE DEF vars, booksVars, countVars, flushVars, TypeOK
<1> SUFFICES Safe'
  BY TypeStep, PassesStep DEF Inv, Safe
<1>1. CASE Midnights \/ UNCHANGED vars
  BY <1>1, QuietStep DEF Midnights
<1>2. CASE \E w \in Workers : Work(w)
  <2>1. PICK w \in Workers : Work(w)
    BY <1>2
  <2>2. CASE MarkSent(w)
    <3>1. sent' = sent \cup {clock + 1} /\ batch' = [batch EXCEPT ![w] = @ \cup {clock + 1}]
      BY <2>2 DEF MarkSent
    <3>2. UNCHANGED <<ledger, units, leg, ids, page>>
      BY <2>2 DEF MarkSent
    <3> QED
      BY <3>1, <3>2 DEF Inv, Safe, BatchIsSent, BucketIsSent, PageIsMetered, MarkAfterPolar,
                        MeteredIsSent, ShippedReachedPolar, BilledOnce, Metered
  <2>3. CASE GoneUnmarked(w)
    BY <2>3, QuietStep DEF GoneUnmarked
  <2>4. CASE RecordSent(w)
    <3>1. batch[w] \in SUBSET Messages /\ batch[w] \subseteq sent
      BY DEF Inv, BatchIsSent
    <3>2. \A v \in Workers : batch'[v] \subseteq batch[v]
      BY <2>4 DEF RecordSent, Inv
    <3>3. Insert(batch[w], SentAt) /\ UNCHANGED <<sent, units, page, leg, ids>>
      BY <2>4 DEF RecordSent
    <3> QED
      BY <3>1, <3>2, <3>3, Clocks, InsertStep
  <2>5. CASE RecordLost(w)
    <3>1. \A v \in Workers : batch'[v] \subseteq batch[v]
      BY <2>5 DEF RecordLost, Inv
    <3> QED
      BY <2>5, <3>1, QuietStep DEF RecordLost
  <2> QED
    BY <2>1, <2>2, <2>3, <2>4, <2>5 DEF Work
<1>3. ASSUME NEW r \in Runs, Advance(r) PROVE Safe'
  <2> USE DEF Goto
  <2>1. CASE Begin(r)
    <3>1. \A q \in Runs : /\ ids'[q] \subseteq sent /\ page'[q] \subseteq page[q]
                          /\ leg'[q] = "mark" => leg[q] = "mark"
      BY <2>1 DEF Begin, Inv, BucketIsSent
    <3>2. UNCHANGED <<sent, batch, ledger, units>>
      BY <2>1 DEF Begin
    <3> QED
      BY <3>1, <3>2 DEF Inv, Safe, BatchIsSent, BucketIsSent, PageIsMetered, MarkAfterPolar,
                        MeteredIsSent, ShippedReachedPolar, BilledOnce, Metered
  <2>2. CASE SesDone(r) \/ BooksDone(r) \/ ReadOurs(r) \/ ReadTheirs(r)
    <3>1. \A q \in Runs : leg'[q] = "mark" => leg[q] = "mark"
      BY <2>2 DEF SesDone, BooksDone, ReadOurs, ReadTheirs, Inv
    <3>2. UNCHANGED <<sent, batch, ledger, units, ids, page>>
      BY <2>2 DEF SesDone, BooksDone, ReadOurs, ReadTheirs
    <3> QED
      BY <3>1, <3>2, QuietStep
  <2>3. ASSUME NEW d \in Days, OpenBucket(r, d) PROVE Safe'
    <3>1. \A n : UnbilledIds(d, n) \subseteq sent
      BY DEF UnbilledIds, Earliest, SentOn
    <3>2. \A q \in Runs : ids'[q] \subseteq sent
      BY <2>3, <3>1 DEF OpenBucket, Inv, BucketIsSent
    <3>3. UNCHANGED <<sent, batch, ledger, units, page, leg>>
      BY <2>3 DEF OpenBucket
    <3> QED
      BY <3>2, <3>3 DEF Inv, Safe, BatchIsSent, BucketIsSent, PageIsMetered, MarkAfterPolar,
                        MeteredIsSent, ShippedReachedPolar, BilledOnce, Metered
  <2>4. ASSUME NEW m \in Messages, Track(r, m) PROVE Safe'
    <3>1. {m} \subseteq sent /\ {m} \in SUBSET Messages
      BY <2>4 DEF Track, Inv, BucketIsSent
    <3>2. \A q \in Runs : ids'[q] \subseteq ids[q]
      BY <2>4 DEF Track, Inv
    <3>3. Insert({m}, BucketStart) /\ UNCHANGED <<sent, batch, units, page, leg>>
      BY <2>4 DEF Track
    <3> QED
      BY <3>1, <3>2, <3>3, Clocks, InsertStep
  <2>5. ASSUME NEW S \in SUBSET Messages, ReadPage(r, S) PROVE Safe'
    <3>1. S \subseteq Metered
      BY <2>5 DEF ReadPage, IsPage, Unshipped, Metered
    <3>2. \A q \in Runs : page'[q] \subseteq Metered
      BY <2>5, <3>1 DEF ReadPage, Inv, PageIsMetered
    <3>3. \A q \in Runs : leg'[q] = "mark" => leg[q] = "mark" /\ page'[q] = page[q]
      BY <2>5 DEF ReadPage, Inv
    <3>4. UNCHANGED <<sent, batch, ledger, units, ids>>
      BY <2>5 DEF ReadPage
    <3> QED
      BY <3>2, <3>3, <3>4
         DEF Inv, Safe, BatchIsSent, BucketIsSent, PageIsMetered, MarkAfterPolar,
             MeteredIsSent, ShippedReachedPolar, BilledOnce, Metered
  <2>6. CASE Ingest(r)
    <3>1. \A q \in Runs : leg'[q] = "mark" => leg[q] = "mark" \/ q = r
      BY <2>6 DEF Ingest, Inv
    <3> QED
      BY <2>6, <3>1, IngestStep DEF Ingest
  <2>7. CASE MarkShipped(r)
    <3>1. /\ leg[r] = "mark" /\ ledger' = Shipped(page[r]) /\ NextPass(r)
          /\ UNCHANGED <<sent, batch, units, ids, page>>
      BY <2>7 DEF MarkShipped
    <3>2. \A q \in Runs : leg'[q] = "mark" => leg[q] = "mark"
      BY <3>1 DEF NextPass, Inv
    <3>3. /\ Metered' = Metered
          /\ \A m \in Messages : ledger'[m] = "shipped" => ledger[m] = "shipped" \/ m \in page[r]
      BY <3>1 DEF Shipped, Metered, Inv
    <3>4. ShippedReachedPolar'
      BY <3>1, <3>3 DEF Inv, MarkAfterPolar, ShippedReachedPolar
    <3>5. BatchIsSent' /\ BucketIsSent' /\ PageIsMetered' /\ MarkAfterPolar'
      BY <3>1, <3>2, <3>3 DEF Inv, BatchIsSent, BucketIsSent, PageIsMetered, MarkAfterPolar
    <3>6. MeteredIsSent' /\ BilledOnce'
      BY <3>1, <3>3 DEF Inv, MeteredIsSent, BilledOnce
    <3> QED
      BY <3>4, <3>5, <3>6 DEF Safe
  <2> QED
    BY <1>3, <2>1, <2>2, <2>3, <2>4, <2>5, <2>6, <2>7 DEF Advance
<1>4. ASSUME NEW r \in Runs, NEW m \in Messages, Repair(r, m) PROVE Safe'
  BY <1>4 DEF Repair, Inv, Safe, BatchIsSent, BucketIsSent, PageIsMetered, MarkAfterPolar,
              MeteredIsSent, ShippedReachedPolar, BilledOnce, Metered
<1>5. ASSUME NEW r \in Runs, NEW d \in Days, BucketFails(r, d) PROVE Safe'
  <2>1. \A q \in Runs : ids'[q] \subseteq ids[q]
    BY <1>5 DEF BucketFails, Inv
  <2>2. UNCHANGED <<sent, batch, ledger, units, page, leg>>
    BY <1>5 DEF BucketFails
  <2> QED
    BY <2>1, <2>2, QuietStep
<1>6. ASSUME NEW r \in Runs, LegFails(r) \/ MarkFails(r) \/ Killed(r) PROVE Safe'
  <2>1. \A q \in Runs : leg'[q] = "mark" => leg[q] = "mark"
    BY <1>6 DEF LegFails, MarkFails, NextPass, Killed, Goto, Inv
  <2>2. UNCHANGED <<sent, batch, ledger, units, ids, page>>
    BY <1>6 DEF LegFails, MarkFails, Killed
  <2> QED
    BY <2>1, <2>2, QuietStep
<1>7. ASSUME NEW r \in Runs, IngestFails(r) PROVE Safe'
  <2>1. \A q \in Runs : leg'[q] = "mark" => leg[q] = "mark"
    BY <1>7 DEF IngestFails, Goto, Inv
  <2>2. UNCHANGED <<sent, batch, ledger, ids, page>>
    BY <1>7 DEF IngestFails
  <2>3. CASE units' = units
    BY <2>1, <2>2, <2>3, QuietStep
  <2>4. CASE units' = Ingested(page[r])
    BY <2>1, <2>2, <2>4, IngestStep
  <2> QED
    BY <1>7, <2>3, <2>4 DEF IngestFails
<1> QED
  BY <1>1, <1>2, <1>3, <1>4, <1>5, <1>6, <1>7 DEF Next

\* The invariant holds of every reachable state.
THEOREM Invariance == Spec => []Inv
<1>1. Init => Inv
  BY InitInv
<1>2. Inv /\ [Next]_vars => Inv'
  BY InvStep
<1> QED
  BY <1>1, <1>2, PTL DEF Spec

\* Every variable stays in the set its comment promises.
THEOREM TypeCorrect == Spec => []TypeOK
<1>1. Inv => TypeOK
  BY DEF Inv
<1> QED
  BY <1>1, Invariance, PTL

\* Only mail whose row says `sent` is in the ledger.
THEOREM OnlySentIsMetered == Spec => []MeteredIsSent
<1>1. Inv => MeteredIsSent
  BY DEF Inv
<1> QED
  BY <1>1, Invariance, PTL

\* What is marked as shipped, Polar has.
THEOREM MarkedIsShipped == Spec => []ShippedReachedPolar
<1>1. Inv => ShippedReachedPolar
  BY DEF Inv
<1> QED
  BY <1>1, Invariance, PTL

\* No message is billed twice, with any number of copies of the job.
THEOREM NobodyPaysTwice == Spec => []BilledOnce
<1>1. Inv => BilledOnce
  BY DEF Inv
<1> QED
  BY <1>1, Invariance, PTL

-----------------------------------------------------------------------------
\* concurrencyPolicy: Forbid.
OneRun == \A q, r \in Runs : q = r

\* Nothing is sent in the future, and no window reaches into it.
Past == sent \subseteq 1..clock /\ \A r \in Runs : to[r] <= clock + 1

\* An event carries its message's own clock or its bucket's; and until a run tops
\* up, the ones with the bucket's clock are of mail sent before the run began.
ClockOrBucket ==
    /\ \A m \in Metered : occurred[m] = m \/ occurred[m] = Midnight(Day(m))
    /\ \A r \in Runs : leg[r] \in {"ses", "ours", "theirs"} =>
          \A m \in Metered : occurred[m] = m \/ m < to[r]

\* A count of sent mail stays right while the run is between its two counts.
CountStands == \A r \in Runs : leg[r] = "theirs" => ours[r] = SentUsage(r)

NoSurplus == \A r \in Runs : surplus[r] = {}

Balance == Past /\ ClockOrBucket /\ CountStands /\ NoSurplus

\* The ledger is never ahead of a count that stands.
LEMMA LedgerNotAhead ==
    ASSUME Inv, ClockOrBucket, NEW r \in Runs, leg[r] = "theirs", NEW d \in Days
    PROVE  MeterUsage(r)[d] <= SentUsage(r)[d]
<1> DEFINE T == {m \in Messages :
                    ledger[m] # "none" /\ InWindow(r, occurred[m]) /\ Day(occurred[m]) = d}
           U == {m \in sent : InWindow(r, m) /\ Day(m) = d}
<1>1. U \in SUBSET Messages
  BY DEF Inv, TypeOK
<1>2. ASSUME NEW m \in T PROVE m \in U
  <2>1. m \in Nat /\ m \in Metered /\ m \in sent /\ from[r] \in Nat /\ to[r] \in Nat
    BY Ticks DEF Inv, TypeOK, MeteredIsSent, Metered
  <2>2. CASE occurred[m] = m
    BY <2>1, <2>2
  <2>3. CASE occurred[m] = Midnight(Day(m)) /\ m < to[r]
    <3>1. Day(m) = d /\ from[r] <= occurred[m]
      BY <2>1, <2>3, Calendar DEF InWindow
    <3>2. from[r] <= m
      <4>1. Midnight(Day(m)) \in Nat /\ Midnight(Day(m)) <= m
        BY <2>1, Calendar
      <4> QED
        BY <2>1, <2>3, <3>1, <4>1
    <3> QED
      BY <2>1, <2>3, <3>1, <3>2 DEF InWindow
  <2> QED
    BY <2>1, <2>2, <2>3 DEF ClockOrBucket
<1>3. T \in SUBSET U /\ IsFiniteSet(U)
  BY <1>1, <1>2, Counts
<1>4. Cardinality(T) <= Cardinality(U)
  BY <1>3, FS_Subset
<1> QED
  BY <1>4 DEF MeterUsage, SentUsage

\* Mail sent after a run began is outside its window.
LEMMA LateMailIsOutside ==
    ASSUME Inv, Past, CountStands, NEW m \in Messages, m > clock, sent' = sent \cup {m},
           UNCHANGED <<leg, from, to, ours>>
    PROVE  CountStands'
<1>1. ASSUME NEW r \in Runs, leg[r] = "theirs" PROVE (ours[r] = SentUsage(r))'
  <2>1. ~(m < to[r])
    BY Ticks DEF Inv, TypeOK, Past
  <2>2. ASSUME NEW d \in Days
        PROVE  {k \in sent' : InWindow(r, k) /\ Day(k) = d}
                  = {k \in sent : InWindow(r, k) /\ Day(k) = d}
    BY <2>1 DEF InWindow
  <2>3. SentUsage(r)' = SentUsage(r)
    BY <2>2 DEF SentUsage, InWindow
  <2> QED
    BY <1>1, <2>3 DEF CountStands
<1> QED
  BY <1>1 DEF CountStands

\* Recording under either clock.
LEMMA InsertBalance ==
    ASSUME Inv, Balance, NEW S \in SUBSET Messages, NEW at \in [Messages -> Nat],
           Insert(S, at),
           \A m \in S : \/ at[m] = m
                        \/ at[m] = Midnight(Day(m)) /\ \A r \in Runs : leg[r] = "topup",
           UNCHANGED <<clock, sent, leg, from, to, ours, surplus>>
    PROVE  Balance'
<1>1. /\ Metered' = Metered \cup S
      /\ \A m \in Messages : \/ m \notin Metered /\ m \in S /\ occurred'[m] = at[m]
                             \/ occurred'[m] = occurred[m]
  BY Inserting DEF Inv, TypeOK
<1>2. \A m \in Metered' : \/ m \in S /\ occurred'[m] = at[m]
                          \/ m \in Metered /\ occurred'[m] = occurred[m]
  BY <1>1 DEF Insert, Metered
<1>3. ClockOrBucket'
  BY <1>2 DEF Balance, ClockOrBucket
<1>4. Past' /\ NoSurplus'
  BY DEF Balance, Past, NoSurplus
<1>5. CountStands'
  BY DEF Balance, CountStands, SentUsage, InWindow
<1> QED
  BY <1>3, <1>4, <1>5 DEF Balance

\* A step that leaves both sides of the books and the counts alone.
LEMMA QuietBalance ==
    ASSUME Inv, Balance, Metered' = Metered,
           UNCHANGED <<clock, sent, occurred, from, to, ours, surplus>>,
           \A r \in Runs : leg'[r] = "theirs" => leg[r] = "theirs",
           \A r \in Runs : leg'[r] \in {"ses", "ours"} => leg[r] \in {"ses", "ours"}
    PROVE  Balance'
<1>1. CountStands'
  BY DEF Balance, CountStands, SentUsage, InWindow
<1>2. Past' /\ NoSurplus' /\ ClockOrBucket'
  BY DEF Balance, Past, NoSurplus, ClockOrBucket
<1> QED
  BY <1>1, <1>2 DEF Balance

\* With one run at a time every step keeps the balance.
LEMMA BalanceStep ==
    ASSUME OneRun, Inv, Balance, [Next]_vars
    PROVE  Balance'
<1> USE DEF vars, booksVars, countVars, flushVars
<1> USE CalendarAssumption
<1>1. clock \in Nat /\ leg \in [Runs -> Legs] /\ sent \subseteq Messages
  BY DEF Inv, TypeOK
<1>2. ASSUME Metered' = Metered, UNCHANGED <<sent, occurred, from, to, ours, surplus, leg>>,
             clock' = clock + 1
      PROVE  Balance'
  <2>1. Past'
    BY <1>1, <1>2, Ticks DEF Balance, Past, Inv, TypeOK
  <2>2. CountStands'
    BY <1>2 DEF Balance, CountStands, SentUsage, InWindow
  <2>3. ClockOrBucket' /\ NoSurplus'
    BY <1>2 DEF Balance, ClockOrBucket, NoSurplus
  <2> QED
    BY <2>1, <2>2, <2>3 DEF Balance
<1>3. CASE Midnights
  BY <1>2, <1>3 DEF Midnights, Metered
<1>4. CASE UNCHANGED vars
  BY <1>4, QuietBalance DEF Metered
<1>5. CASE \E w \in Workers : Work(w)
  <2>1. PICK w \in Workers : Work(w)
    BY <1>5
  <2>2. CASE MarkSent(w)
    <3>1. /\ clock + 1 \in Messages /\ clock' = clock + 1 /\ sent' = sent \cup {clock + 1}
          /\ UNCHANGED <<leg, from, to, ours, surplus, occurred>> /\ Metered' = Metered
      BY <2>2 DEF MarkSent, Metered
    <3>2. Past'
      BY <1>1, <3>1 DEF Balance, Past, Inv, TypeOK
    <3>3. CountStands'
      BY <1>1, <3>1, LateMailIsOutside DEF Balance
    <3>4. ClockOrBucket' /\ NoSurplus'
      BY <3>1 DEF Balance, ClockOrBucket, NoSurplus
    <3> QED
      BY <3>2, <3>3, <3>4 DEF Balance
  <2>3. CASE GoneUnmarked(w)
    BY <1>2, <2>3 DEF GoneUnmarked, Metered
  <2>4. CASE RecordSent(w)
    <3>1. batch[w] \in SUBSET Messages /\ \A m \in batch[w] : SentAt[m] = m
      BY DEF Inv, TypeOK, SentAt
    <3>2. Insert(batch[w], SentAt) /\ UNCHANGED <<clock, sent, leg, from, to, ours, surplus>>
      BY <2>4 DEF RecordSent
    <3> QED
      BY <3>1, <3>2, Clocks, InsertBalance
  <2>5. CASE RecordLost(w)
    BY <2>5, QuietBalance DEF RecordLost, Metered
  <2> QED
    BY <2>1, <2>2, <2>3, <2>4, <2>5 DEF Work
<1>6. ASSUME NEW r \in Runs, Advance(r) PROVE Balance'
  <2>1. \A q \in Runs : q = r
    BY DEF OneRun
  <2>2. CASE Begin(r)
    <3>1. /\ leg'[r] = "ses" /\ to'[r] = clock + 1 /\ surplus'[r] = {}
          /\ UNCHANGED <<clock, sent, occurred>> /\ Metered' = Metered
      BY <2>2 DEF Begin, Goto, Metered, Inv, TypeOK
    <3>2. \A m \in Metered : m < clock + 1
      BY <1>1, Ticks DEF Balance, Past, Inv, MeteredIsSent, Metered
    <3> QED
      BY <1>1, <2>1, <3>1, <3>2
         DEF Balance, Past, ClockOrBucket, CountStands, NoSurplus
  <2>3. CASE SesDone(r) \/ BooksDone(r)
    BY <1>1, <2>3, QuietBalance DEF SesDone, BooksDone, Goto, Metered
  <2>4. CASE ReadOurs(r)
    <3>1. /\ leg[r] = "ours" /\ ours'[r] = SentUsage(r) /\ Metered' = Metered
          /\ leg'[r] = "theirs"
          /\ UNCHANGED <<clock, sent, occurred, from, to, surplus>>
      BY <2>4 DEF ReadOurs, Goto, Metered, Inv, TypeOK
    <3>2. SentUsage(r)' = SentUsage(r)
      BY <3>1 DEF SentUsage, InWindow
    <3>3. CountStands'
      BY <2>1, <3>1, <3>2 DEF CountStands
    <3>4. Past' /\ NoSurplus'
      BY <3>1 DEF Balance, Past, NoSurplus
    <3>5. ClockOrBucket'
      BY <2>1, <3>1 DEF Balance, ClockOrBucket
    <3> QED
      BY <3>3, <3>4, <3>5 DEF Balance
  <2>5. CASE ReadTheirs(r)
    <3>1. /\ leg[r] = "theirs" /\ leg'[r] = "topup" /\ Metered' = Metered
          /\ surplus'[r] = {d \in Days : MeterUsage(r)[d] > ours[r][d]}
          /\ UNCHANGED <<clock, sent, occurred, from, to, ours>>
      BY <2>5 DEF ReadTheirs, Reconcile, Goto, Metered, Inv, TypeOK
    <3>2. SentUsage(r) \in [Days -> Nat] /\ MeterUsage(r) \in [Days -> Nat]
      BY <1>1, Counts DEF SentUsage, MeterUsage
    <3>3. \A d \in Days : MeterUsage(r)[d] <= SentUsage(r)[d]
      BY <3>1, LedgerNotAhead DEF Balance
    <3>4. ours[r] = SentUsage(r)
      BY <3>1 DEF Balance, CountStands
    <3>5. \A d \in Days : ~(MeterUsage(r)[d] > ours[r][d])
      BY <3>2, <3>3, <3>4
    <3>6. NoSurplus'
      BY <2>1, <3>1, <3>5 DEF NoSurplus
    <3>7. Past' /\ CountStands' /\ ClockOrBucket'
      BY <2>1, <3>1 DEF Balance, Past, CountStands, ClockOrBucket
    <3> QED
      BY <3>6, <3>7 DEF Balance
  <2>6. CASE \E d \in Days : OpenBucket(r, d)
    BY <2>6, QuietBalance DEF OpenBucket, Metered
  <2>7. ASSUME NEW m \in Messages, Track(r, m) PROVE Balance'
    <3>1. Insert({m}, BucketStart) /\ UNCHANGED <<clock, sent, leg, from, to, ours, surplus>>
      BY <2>7 DEF Track
    <3>2. \A q \in Runs : leg[q] = "topup"
      BY <2>1, <2>7 DEF Track
    <3>3. {m} \in SUBSET Messages /\ BucketStart[m] = Midnight(Day(m))
      BY DEF BucketStart
    <3> QED
      BY <3>1, <3>2, <3>3, Clocks, InsertBalance
  <2>8. CASE \E S \in SUBSET Messages : ReadPage(r, S)
    BY <1>1, <2>8, QuietBalance DEF ReadPage, Goto, Metered
  <2>9. CASE Ingest(r)
    BY <1>1, <2>9, QuietBalance DEF Ingest, Goto, Metered
  <2>10. CASE MarkShipped(r)
    <3>1. Metered' = Metered
      BY <2>10 DEF MarkShipped, Shipped, Metered
    <3> QED
      BY <1>1, <2>10, <3>1, QuietBalance DEF MarkShipped, NextPass, Goto
  <2> QED
    BY <1>6, <2>2, <2>3, <2>4, <2>5, <2>6, <2>7, <2>8, <2>9, <2>10 DEF Advance
<1>7. ASSUME NEW r \in Runs, NEW m \in Messages, Repair(r, m) PROVE Balance'
  <2>1. /\ leg[r] = "ses" /\ m <= clock /\ sent' = sent \cup {m} /\ Metered' = Metered
        /\ UNCHANGED <<clock, occurred, from, to, ours, surplus, leg>>
    BY <1>7 DEF Repair, Metered
  <2>2. \A q \in Runs : leg[q] # "theirs"
    BY <2>1 DEF OneRun
  <2>3. Past'
    BY <1>1, <2>1, Ticks DEF Balance, Past
  <2>4. CountStands' /\ ClockOrBucket' /\ NoSurplus'
    BY <2>1, <2>2 DEF Balance, CountStands, ClockOrBucket, NoSurplus
  <2> QED
    BY <2>3, <2>4 DEF Balance
<1>8. ASSUME NEW r \in Runs, NEW d \in Days, BucketFails(r, d) PROVE Balance'
  BY <1>8, QuietBalance DEF BucketFails, Metered
<1>9. ASSUME NEW r \in Runs, LegFails(r) \/ IngestFails(r) \/ MarkFails(r) \/ Killed(r)
      PROVE  Balance'
  <2>1. Metered' = Metered /\ UNCHANGED <<clock, sent, occurred, from, to, ours, surplus>>
    BY <1>9 DEF LegFails, IngestFails, MarkFails, Killed, Metered
  <2>2. \E l \in {"ours", "page", "idle"} :
           leg' = [leg EXCEPT ![r] = l] /\ (l = "ours" => leg[r] = "ses")
    BY <1>9 DEF LegFails, IngestFails, MarkFails, NextPass, Killed, Goto
  <2> QED
    BY <1>1, <2>1, <2>2, QuietBalance
<1> QED
  BY <1>3, <1>4, <1>5, <1>6, <1>7, <1>8, <1>9 DEF Next

\* A run that nobody runs beside reports no surplus that is not one, however
\* workers send and record between its two counts.
THEOREM SurplusIsTrue == OneRun => (Spec => []SurplusIsOvercharge)
<1> SUFFICES ASSUME OneRun PROVE Spec => []SurplusIsOvercharge
  OBVIOUS
<1>1. Init => Balance
  BY CalendarAssumption
     DEF Init, Balance, Past, ClockOrBucket, CountStands, NoSurplus, Metered
<1>2. Inv /\ Balance /\ [Next]_vars => Balance'
  BY BalanceStep
<1>3. Balance => SurplusIsOvercharge
  BY DEF Balance, NoSurplus, SurplusIsOvercharge
<1> QED
  BY <1>1, <1>2, <1>3, Invariance, PTL DEF Spec
=============================================================================
