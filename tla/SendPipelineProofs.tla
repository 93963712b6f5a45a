------------------------- MODULE SendPipelineProofs -------------------------
(***************************************************************************)
(* What TLAPS proves of the send path, for any number of messages,         *)
(* requests, worker slots, processes and queue places.                     *)
(***************************************************************************)
EXTENDS SendPipeline, TLAPS

USE DEF Statuses, Outcomes

\* Each of the three guarded statements writes a legal row or none at all.
LEMMA MarkSentType ==
    ASSUME NEW m \in Messages, NEW p \in Procs, NEW id \in Slots, StoreTypeOK,
           MarkSent(m, p, id)
    PROVE  StoreTypeOK'
<1>1. CASE OwnedBy(m, p)
  BY <1>1 DEF MarkSent, StoreTypeOK
<1>2. CASE ~OwnedBy(m, p)
  BY <1>2 DEF MarkSent, StoreTypeOK, storeVars
<1> QED
  BY <1>1, <1>2

LEMMA UnclaimType ==
    ASSUME NEW m \in Messages, NEW p \in Procs, NEW to \in Statuses, StoreTypeOK,
           Unclaim(m, p, to)
    PROVE  StoreTypeOK'
<1>1. CASE OwnedBy(m, p)
  BY <1>1 DEF Unclaim, StoreTypeOK
<1>2. CASE ~OwnedBy(m, p)
  BY <1>2 DEF Unclaim, StoreTypeOK, storeVars
<1> QED
  BY <1>1, <1>2

\* A job handed back, complete or dead-lettered keeps the queue well formed.
LEMMA GiveBackType ==
    ASSUME NEW w, QueueTypeOK, GiveBack(w)
    PROVE  QueueTypeOK'
<1>1. runner' \in [Jobs -> Slots \cup {None}]
  BY DEF QueueTypeOK, GiveBack
<1>2. [j \in Jobs |-> IF runner[j] = w THEN {} ELSE batch[j]] \in [Jobs -> SUBSET Messages]
  BY DEF QueueTypeOK
<1>3. batch' \in [Jobs -> SUBSET Messages]
  BY <1>2 DEF QueueTypeOK, GiveBack
<1> QED
  BY <1>1, <1>3 DEF QueueTypeOK

\* Acceptance by the provider saturates the count and logs an event or does not.
LEMMA AcceptsType ==
    ASSUME NEW m \in Messages, taken \in [Messages -> 0..2],
           event \in [Messages -> {"none", "fresh", "old"}], Accepts(m)
    PROVE  /\ taken' \in [Messages -> 0..2]
           /\ event' \in [Messages -> {"none", "fresh", "old"}]
<1>1. taken' \in [Messages -> 0..2]
  BY DEF Accepts
<1>2. [event EXCEPT ![m] = IF @ = "none" THEN "fresh" ELSE @]
         \in [Messages -> {"none", "fresh", "old"}]
  OBVIOUS
<1>3. event' = event \/ event' = [event EXCEPT ![m] = IF @ = "none" THEN "fresh" ELSE @]
  BY DEF Accepts
<1> QED
  BY <1>1, <1>2, <1>3

\* A job of known messages keeps the queue well formed.
LEMMA EnqueueType ==
    ASSUME NEW S \in SUBSET Messages, QueueTypeOK, Enqueue(S)
    PROVE  QueueTypeOK'
BY DEF QueueTypeOK, Enqueue

\* Every step keeps every variable in the set its comment promises.
LEMMA TypeStep ==
    ASSUME TypeOK, [Next]_vars
    PROVE  TypeOK'
<1> USE MsgsOfAssumption, TimeAssumption, ProcOfAssumption, NoneAssumption
<1> USE DEF TypeOK, StoreTypeOK, QueueTypeOK
<1>1. CASE \E r \in Requests : Accept(r)
  <2>1. PICK r \in Requests : Accept(r)
    BY <1>1
  <2> USE DEF storeVars, queueVars, handlerVars, providerVars
  <2>2. CASE Admit(r)
    BY <2>2 DEF Admit
  <2>3. CASE Persist(r)
    BY <2>3 DEF Persist, InsertRows
  <2>4. CASE Answer(r)
    BY <2>4 DEF Answer
  <2>5. CASE ApiCrash(r)
    BY <2>5 DEF ApiCrash
  <2>6. CASE \E t \in 0..MaxTime : EnqueueGroup(r, t)
    <3>1. PICK t \in 0..MaxTime : EnqueueGroup(r, t)
      BY <2>6
    <3> DEFINE group == {m \in toQueue[r] : DueTime[m] = t}
    <3>2. group \subseteq Messages /\ toQueue[r] \ group \subseteq Messages
      OBVIOUS
    <3>3. toQueue' \in [Requests -> SUBSET Messages]
      BY <3>1, <3>2 DEF EnqueueGroup
    <3>4. QueueTypeOK'
      <4>1. Enqueue(group) \/ UNCHANGED queueVars
        BY <3>1 DEF EnqueueGroup
      <4> QED
        BY <3>2, <4>1, EnqueueType
    <3> QED
      BY <3>1, <3>3, <3>4 DEF EnqueueGroup
  <2> QED
    BY <2>1, <2>2, <2>3, <2>4, <2>5, <2>6 DEF Accept
<1>2. CASE \E w \in Slots : Work(w)
  <2>1. PICK w \in Slots : Work(w)
    BY <1>2
  <2> USE DEF storeVars, queueVars, acceptVars, handlerVars, providerVars
  <2>2. CASE HeldCheck(w)
    <3>1. phase' \in [Slots -> {"idle", "check", "cancel", "send"}]
      BY <2>2 DEF HeldCheck
    <3>2. exposed' \subseteq Slots
      BY <2>2 DEF HeldCheck
    <3> QED
      BY <2>2, <3>1, <3>2 DEF HeldCheck
  <2>3. CASE CancelThrows(w)
    BY <2>3, GiveBackType DEF CancelThrows, Nothing
  <2>4. CASE FinishBatch(w)
    BY <2>4 DEF FinishBatch, Complete
  <2>5. ASSUME NEW j \in Jobs, Deliver(w, j) PROVE TypeOK'
    <3>1. CASE ClaimNothing(w, j)
      BY <3>1 DEF ClaimNothing, CompleteAtOnce
    <3>2. CASE ClaimThrows(w, j)
      BY <3>2 DEF ClaimThrows, CompleteAtOnce
    <3>3. CASE ClaimBatch(w, j)
      <4>1. QueueTypeOK'
        BY <3>3 DEF ClaimBatch, Lease
      <4>2. StoreTypeOK'
        BY <3>3 DEF ClaimBatch, ClaimRows
      <4>3. /\ phase' \in [Slots -> {"idle", "check", "cancel", "send"}]
            /\ out' \in [Slots -> [Messages -> Outcomes]]
            /\ holder' \in [Messages -> Slots \cup {None}]
        BY <3>3 DEF ClaimBatch, Outcomes
      <4> QED
        BY <3>3, <4>1, <4>2, <4>3 DEF ClaimBatch
    <3>4. CASE ClaimStrands(w, j)
      BY <3>4 DEF ClaimStrands, ClaimRows, CompleteAtOnce
    <3> QED
      BY <2>5, <3>1, <3>2, <3>3, <3>4 DEF Deliver
  <2>6. ASSUME NEW m \in Messages, Handle(w, m) PROVE TypeOK'
    <3> USE DEF CallEnds, MarkCanceled, MarkFailed, MarkSent, Unclaim
    <3>1. CASE CancelOne(w, m)
      BY <3>1 DEF CancelOne
    <3>2. CASE CallAccepted(w, m)
      BY <3>2, AcceptsType DEF CallAccepted
    <3>3. CASE CallAnswerLost(w, m)
      BY <3>3, AcceptsType DEF CallAnswerLost
    <3>4. CASE CallRejected(w, m)
      BY <3>4 DEF CallRejected
    <3>5. CASE CallDeferred(w, m)
      BY <3>5 DEF CallDeferred
    <3>6. CASE RecordSent(w, m)
      <4>1. StoreTypeOK'
        BY <3>6, MarkSentType DEF RecordSent
      <4>2. billable' \in [Slots -> SUBSET Messages]
        <5>1. billable' = billable \/ billable' = [billable EXCEPT ![w] = @ \cup {m}]
          BY <3>6 DEF RecordSent
        <5>2. billable[w] \cup {m} \in SUBSET Messages
          OBVIOUS
        <5>3. [billable EXCEPT ![w] = @ \cup {m}] \in [Slots -> SUBSET Messages]
          BY <5>2
        <5> QED
          BY <5>1, <5>3
      <4> QED
        BY <3>6, <4>1, <4>2 DEF RecordSent
    <3>7. CASE RecordFailed(w, m)
      <4>1. PICK to \in {"failed", "queued"} : Unclaim(m, ProcOf[w], to)
        BY <3>7 DEF RecordFailed
      <4>2. StoreTypeOK'
        BY <4>1, UnclaimType
      <4> QED
        BY <3>7, <4>2 DEF RecordFailed
    <3>8. CASE RecordThrows(w, m)
      BY <3>8 DEF RecordThrows
    <3> QED
      BY <2>6, <3>1, <3>2, <3>3, <3>4, <3>5, <3>6, <3>7, <3>8 DEF Handle
  <2> QED
    BY <2>1, <2>2, <2>3, <2>4, <2>5, <2>6 DEF Work, Proceed
<1>3. CASE \E p \in Procs : WorkerCrash(p)
  BY <1>3 DEF WorkerCrash, Nothing, storeVars, queueVars, acceptVars, providerVars
<1>4. CASE \E j \in Jobs : JobStalls(j)
  <2>1. QueueTypeOK'
    <3>1. PICK j \in Jobs : GiveBack(runner[j])
      BY <1>4 DEF JobStalls, LeaseExpires
    <3> QED
      BY <3>1, GiveBackType
  <2> QED
    BY <1>4, <2>1 DEF JobStalls, storeVars, acceptVars, handlerVars, providerVars
<1>5. CASE Sweep
  <2> USE DEF storeVars, queueVars, acceptVars, handlerVars, providerVars
  <2>1. CASE SweepRead
    BY <2>1 DEF SweepRead
  <2>2. ASSUME NEW S \in SUBSET Messages, SweepEnqueue(S) PROVE TypeOK'
    BY <2>2 DEF SweepEnqueue, Enqueue
  <2>3. ASSUME NEW S \in SUBSET Messages, SweepSkips(S) PROVE TypeOK'
    BY <2>3 DEF SweepSkips
  <2> QED
    BY <1>5, <2>1, <2>2, <2>3 DEF Sweep
<1>6. CASE PlaceHold \/ ReleaseHold
  <2> USE DEF storeVars, queueVars, handlerVars, providerVars
  <2>1. hold' \in BOOLEAN
    BY <1>6 DEF PlaceHold, ReleaseHold
  <2>2. StoreTypeOK'
    BY <1>6 DEF PlaceHold, ReleaseHold, CancelQueued
  <2> QED
    BY <1>6, <2>1, <2>2 DEF PlaceHold, ReleaseHold
<1>7. CASE \E m \in Messages : EventAges(m) \/ SesRepair(m) \/ ClaimGoesStale(m)
  <2>1. PICK m \in Messages : EventAges(m) \/ SesRepair(m) \/ ClaimGoesStale(m)
    BY <1>7
  <2> USE DEF storeVars, queueVars, acceptVars, handlerVars, providerVars
  <2>2. CASE EventAges(m)
    BY <2>2 DEF EventAges
  <2>3. CASE SesRepair(m)
    BY <2>3 DEF SesRepair, RepairFromSes
  <2>4. CASE ClaimGoesStale(m)
    BY <2>4 DEF ClaimGoesStale, ClaimAges
  <2> QED
    BY <2>1, <2>2, <2>3, <2>4
<1>8. CASE TimePasses
  BY <1>8 DEF TimePasses, Tick, RowAges, storeVars, queueVars, acceptVars,
              handlerVars, providerVars
<1>9. CASE UNCHANGED vars
  BY <1>9 DEF vars, storeVars, queueVars, acceptVars, handlerVars, providerVars
<1> QED
  BY <1>1, <1>2, <1>3, <1>4, <1>5, <1>6, <1>7, <1>8, <1>9 DEF Next

\* Type correctness of the whole send path: no statement, handler step, crash or
\* repair ever leaves a row, a job or a handler in a form the rest of the code
\* does not know.
THEOREM TypeCorrect == Spec => []TypeOK
<1> USE MsgsOfAssumption, TimeAssumption, ProcOfAssumption, NoneAssumption
<1>1. Init => TypeOK
  <2> SUFFICES ASSUME Init PROVE TypeOK
    OBVIOUS
  <2>1. StoreTypeOK /\ QueueTypeOK
    BY DEF Init, StoreInit, QueueInit, StoreTypeOK, QueueTypeOK
  <2>2. hold \in BOOLEAN
    BY DEF Init
  <2>3. out \in [Slots -> [Messages -> Outcomes]]
    BY DEF Init, Nothing
  <2> QED
    BY <2>1, <2>2, <2>3 DEF Init, TypeOK
<1> QED
  BY <1>1, TypeStep, PTL DEF Spec

-----------------------------------------------------------------------------
(* The inductive invariant. *)

\* The invariant holds before anything was written.
LEMMA InitInv == Init => Inv
<1> SUFFICES ASSUME Init PROVE Inv
  OBVIOUS
<1>1. status = [m \in Messages |-> "absent"] /\ stale = {}
  BY DEF Init, StoreInit
<1>2. \A w \in Slots : \A m \in Messages : out[w][m] = "none"
  BY DEF Init, Nothing
<1>3. WrittenOnce
  BY <1>1, <1>2, MsgsOfAssumption DEF Init, WrittenOnce, Holds
<1>4. ClaimIsLock /\ TakenIsAnswered /\ TakenIsTrue /\ StaleIsSlip /\ BilledOnlyIfSent
  BY <1>1, <1>2 DEF Init, ClaimIsLock, TakenIsAnswered, TakenIsTrue, StaleIsSlip,
                    BilledOnlyIfSent, Holds
<1> QED
  BY <1>3, <1>4 DEF Inv

\* What the invariant reads.
invVars == <<status, stale, holder, request, out, billable, metered, event,
             taken, slipped>>

\* A step that leaves alone what the invariant reads keeps it.
LEMMA Frame ==
    ASSUME Inv, UNCHANGED invVars
    PROVE  Inv'
BY DEF Inv, invVars, WrittenOnce, ClaimIsLock, TakenIsAnswered, TakenIsTrue,
       StaleIsSlip, BilledOnlyIfSent, Holds

\* A step that at most makes handlers forget messages, forgets what was not
\* billed yet, bills what was billable, and moves requests forward.
Forgets ==
    /\ UNCHANGED <<status, stale, holder, event, taken, slipped>>
    /\ \A r \in Requests : request'[r] \in {"new", "admitted"} =>
                            request[r] \in {"new", "admitted"}
    /\ \A w \in Slots : \A m \in Messages : out'[w][m] \in {"none", out[w][m]}
    /\ \A w \in Slots : billable'[w] \subseteq billable[w]
    /\ metered' \subseteq metered \cup UNION {billable[w] : w \in Slots}

\* So a crash, a stranded outcome, a finished batch or a refused request keeps
\* the invariant: it claims nothing of what nobody remembers.
LEMMA ForgetsInv ==
    ASSUME TypeOK, Inv, Forgets
    PROVE  Inv'
<1> USE DEF TypeOK, StoreTypeOK, Inv, Forgets, Holds
<1>1. WrittenOnce'
  BY DEF WrittenOnce
<1>2. ClaimIsLock'
  BY DEF ClaimIsLock
<1>3. TakenIsAnswered'
  BY DEF TakenIsAnswered
<1>4. TakenIsTrue'
  BY DEF TakenIsTrue
<1>5. StaleIsSlip'
  BY DEF StaleIsSlip
<1>6. BilledOnlyIfSent'
  BY DEF BilledOnlyIfSent
<1> QED
  BY <1>1, <1>2, <1>3, <1>4, <1>5, <1>6

\* The acceptSend steps.
LEMMA AcceptInv ==
    ASSUME TypeOK, Inv, NEW r \in Requests, Accept(r)
    PROVE  Inv'
<1> USE DEF handlerVars, providerVars, storeVars
<1>1. CASE Persist(r)
  <2> USE <1>1 DEF Persist, InsertRows, Holds, Inv, TypeOK, StoreTypeOK
  <2>1. \A m \in MsgsOf[r] : status[m] = "absent"
    BY DEF WrittenOnce
  <2>2. \A m \in Messages : status'[m] = IF m \in MsgsOf[r] THEN "queued" ELSE status[m]
    OBVIOUS
  <2>3. WrittenOnce'
    <3>1. ASSUME NEW q \in Requests, request'[q] \in {"new", "admitted"},
                 NEW m \in MsgsOf[q]
          PROVE  status'[m] = "absent"
      <4>1. q # r /\ request'[q] = request[q]
        BY <3>1
      <4>2. m \in Messages /\ m \notin MsgsOf[r]
        BY <4>1, MsgsOfAssumption
      <4> QED
        BY <3>1, <4>1, <4>2, <2>2 DEF WrittenOnce
    <3>2. ASSUME NEW m \in Messages, status'[m] = "absent"
          PROVE  /\ m \notin slipped'
                 /\ taken'[m] = 0
                 /\ \A w \in Slots : ~(Holds(w, m)')
      BY <3>2, <2>2 DEF WrittenOnce
    <3> QED
      BY <3>1, <3>2 DEF WrittenOnce
  <2>4. ClaimIsLock'
    BY <2>1, <2>2 DEF ClaimIsLock, WrittenOnce
  <2>5. TakenIsAnswered'
    BY <2>1, <2>2 DEF TakenIsAnswered, WrittenOnce
  <2>6. TakenIsTrue'
    BY <2>1, <2>2 DEF TakenIsTrue
  <2>7. StaleIsSlip'
    BY <2>1, <2>2 DEF StaleIsSlip
  <2>8. BilledOnlyIfSent'
    BY <2>1, <2>2 DEF BilledOnlyIfSent
  <2> QED
    BY <2>3, <2>4, <2>5, <2>6, <2>7, <2>8
<1>2. CASE Admit(r) \/ Answer(r) \/ ApiCrash(r) \/ \E t \in 0..MaxTime : EnqueueGroup(r, t)
  <2>1. Forgets
    BY <1>2 DEF Admit, Answer, ApiCrash, EnqueueGroup, Forgets, TypeOK
  <2> QED
    BY <2>1, ForgetsInv
<1> QED
  BY <1>1, <1>2 DEF Accept

\* The claim: the only rows it takes are in nobody's hands, or have slipped.
LEMMA ClaimInv ==
    ASSUME TypeOK, Inv, NEW w \in Slots, NEW j \in Jobs,
           ClaimBatch(w, j) \/ ClaimStrands(w, j)
    PROVE  Inv'
<1> DEFINE won == {m \in batch[j] : Claimable(m)}
<1> USE DEF Inv, TypeOK, StoreTypeOK, QueueTypeOK, Holds, providerVars, acceptVars
<1>1. won \subseteq Messages
  OBVIOUS
<1>2. \A m \in Messages :
         /\ status'[m] = IF m \in won THEN "sending" ELSE status[m]
         /\ holder'[m] = IF m \in won THEN w ELSE holder[m]
         /\ out'[w][m] \in {out[w][m], IF m \in won THEN "claimed" ELSE "none"}
         /\ \A v \in Slots \ {w} : out'[v][m] = out[v][m]
  BY <1>1 DEF ClaimBatch, ClaimStrands, ClaimRows, handlerVars
<1>3. stale' = stale \ won
  BY DEF ClaimBatch, ClaimStrands, ClaimRows
<1>4. UNCHANGED <<request, billable, metered, event, taken, slipped>>
  BY DEF ClaimBatch, ClaimStrands, handlerVars
<1>5. \A m \in won : status[m] = "queued" \/ (status[m] = "sending" /\ m \in slipped)
  BY DEF Claimable, StaleIsSlip
<1>6. \A m \in won \ slipped : taken[m] = 0 /\ \A v \in Slots : out[v][m] = "none"
  <2> SUFFICES ASSUME NEW m \in won \ slipped
               PROVE  taken[m] = 0 /\ \A v \in Slots : out[v][m] = "none"
    OBVIOUS
  <2>1. m \in Messages \ slipped /\ status[m] = "queued" /\ taken[m] \in 0..2
    BY <1>1, <1>5
  <2>2. TakenIsAnswered /\ ClaimIsLock
    OBVIOUS
  <2> HIDE DEF Inv, TypeOK, StoreTypeOK, QueueTypeOK, won
  <2> QED
    BY <2>1, <2>2 DEF TakenIsAnswered, ClaimIsLock
<1>0. TakenIsTrue /\ \A m \in Messages : taken[m] \in 0..2
  OBVIOUS
<1> HIDE DEF won
<1>7. WrittenOnce'
  <2>1. \A m \in Messages : status'[m] = "absent" => m \notin won /\ status[m] = "absent"
    BY <1>2
  <2>2. \A m \in Messages : status[m] = "absent" => m \notin won
    BY <1>5
  <2>3. \A v \in Slots : \A m \in Messages \ won : out[v][m] = "none" => out'[v][m] = "none"
    BY <1>2
  <2>4. \A r \in Requests : request[r] \in {"new", "admitted"} =>
           \A m \in MsgsOf[r] : status'[m] = "absent"
    BY <1>2, <2>2, MsgsOfAssumption DEF WrittenOnce
  <2> QED
    BY <1>4, <2>1, <2>3, <2>4 DEF WrittenOnce
<1>8. ClaimIsLock'
  BY <1>2, <1>4, <1>6 DEF ClaimIsLock
<1>9. TakenIsAnswered'
  <2> SUFFICES ASSUME NEW m \in Messages \ slipped, taken[m] > 0
               PROVE  /\ taken[m] = 1
                      /\ status'[m] \in {"sending", "sent"}
                      /\ \A v \in Slots : out'[v][m] \in {"none", "sent"}
    BY <1>4 DEF TakenIsAnswered
  <2>1. m \notin won
    BY <1>6
  <2>2. /\ taken[m] = 1
        /\ status[m] \in {"sending", "sent"}
        /\ \A v \in Slots : out[v][m] \in {"none", "sent"}
    BY DEF TakenIsAnswered
  <2> QED
    BY <1>2, <2>1, <2>2
<1>10. TakenIsTrue'
  <2> HIDE DEF Inv, TypeOK, StoreTypeOK, QueueTypeOK, Holds
  <2> SUFFICES ASSUME NEW m \in Messages, taken[m] = 0
               PROVE  /\ status'[m] # "sent"
                      /\ event[m] = "none"
                      /\ \A v \in Slots : out'[v][m] # "sent"
    BY <1>0, <1>4 DEF TakenIsTrue
  <2>1. /\ status[m] # "sent"
        /\ event[m] = "none"
        /\ \A v \in Slots : out[v][m] # "sent"
    BY <1>0 DEF TakenIsTrue
  <2> QED
    BY <1>2, <2>1
<1>11. StaleIsSlip'
  BY <1>2, <1>3, <1>4, <1>5 DEF StaleIsSlip
<1>12. BilledOnlyIfSent'
  BY <1>2, <1>4, <1>5 DEF BilledOnlyIfSent
<1> QED
  BY <1>7, <1>8, <1>9, <1>10, <1>11, <1>12

\* A call ends without the provider taking the message.
LEMMA CallRefusedInv ==
    ASSUME TypeOK, Inv, NEW w \in Slots, NEW m \in Messages,
           CallRejected(w, m) \/ CallDeferred(w, m)
    PROVE  Inv'
<1> USE DEF Inv, TypeOK, StoreTypeOK, Holds, providerVars, storeVars, acceptVars
<1>1. UNCHANGED <<status, stale, holder, request, billable, metered, event, taken, slipped>>
  BY DEF CallRejected, CallDeferred, CallEnds
<1>2. /\ out[w][m] = "claimed"
      /\ out'[w][m] \in {"rejected", "deferred"}
      /\ \A v \in Slots : \A k \in Messages :
            v # w \/ k # m => out'[v][k] = out[v][k]
  BY DEF CallRejected, CallDeferred, CallEnds
<1>3. WrittenOnce'
  BY <1>1, <1>2 DEF WrittenOnce
<1>4. ClaimIsLock'
  BY <1>1, <1>2 DEF ClaimIsLock
<1>5. TakenIsAnswered'
  BY <1>1, <1>2 DEF TakenIsAnswered
<1>6. TakenIsTrue'
  BY <1>1, <1>2 DEF TakenIsTrue
<1>7. StaleIsSlip' /\ BilledOnlyIfSent'
  BY <1>1 DEF StaleIsSlip, BilledOnlyIfSent
<1> QED
  BY <1>3, <1>4, <1>5, <1>6, <1>7

\* A call ends with the provider having taken the message.  If it had not
\* slipped, the caller is its only handler and this is the first time.
LEMMA CallTakenInv ==
    ASSUME TypeOK, Inv, NEW w \in Slots, NEW m \in Messages,
           CallAccepted(w, m) \/ CallAnswerLost(w, m)
    PROVE  Inv'
<1> USE DEF Inv, TypeOK, StoreTypeOK, Holds, storeVars, acceptVars
<1>1. UNCHANGED <<status, stale, holder, request, billable, metered>>
  BY DEF CallAccepted, CallAnswerLost, CallEnds
<1>2. /\ out[w][m] = "claimed"
      /\ \/ out'[w][m] = "sent" /\ slipped' = slipped
         \/ out'[w][m] = "deferred" /\ slipped' = slipped \cup {m}
      /\ \A v \in Slots : \A k \in Messages :
            v # w \/ k # m => out'[v][k] = out[v][k]
  BY DEF CallAccepted, CallAnswerLost, CallEnds
<1>3. /\ taken'[m] = IF taken[m] = 2 THEN 2 ELSE taken[m] + 1
      /\ \A k \in Messages \ {m} : taken'[k] = taken[k]
  BY DEF CallAccepted, CallAnswerLost, Accepts
<1>4. /\ event'[m] = event[m] \/ (event[m] = "none" /\ event'[m] = "fresh")
      /\ \A k \in Messages \ {m} : event'[k] = event[k]
  <2>1. event' = event \/ event' = [event EXCEPT ![m] = IF @ = "none" THEN "fresh" ELSE @]
    BY DEF CallAccepted, CallAnswerLost, Accepts
  <2> QED
    BY <2>1
<1>5. taken'[m] > 0 /\ (taken[m] = 0 => taken'[m] = 1)
  BY <1>3
<1>6. m \notin slipped =>
         /\ taken[m] = 0
         /\ status[m] = "sending"
         /\ \A v \in Slots \ {w} : out[v][m] = "none"
  <2> SUFFICES ASSUME m \notin slipped
               PROVE  /\ taken[m] = 0
                      /\ status[m] = "sending"
                      /\ \A v \in Slots \ {w} : out[v][m] = "none"
    OBVIOUS
  <2>1. taken[m] \in 0..2 /\ ~(taken[m] > 0)
    BY <1>2 DEF TakenIsAnswered
  <2>2. status[m] = "sending" /\ holder[m] = w
    BY <1>2 DEF ClaimIsLock
  <2>3. \A v \in Slots \ {w} : out[v][m] = "none"
    BY <2>2 DEF ClaimIsLock
  <2> QED
    BY <2>1, <2>2, <2>3
<1>7. status[m] # "absent"
  BY <1>2 DEF WrittenOnce
<1>8. WrittenOnce'
  BY <1>1, <1>2, <1>3, <1>7 DEF WrittenOnce
<1>9. ClaimIsLock'
  BY <1>1, <1>2 DEF ClaimIsLock
<1>10. TakenIsAnswered'
  <2>1. ASSUME NEW k \in Messages, k \notin slipped', taken'[k] > 0, k # m
        PROVE  /\ taken'[k] = 1
               /\ status'[k] \in {"sending", "sent"}
               /\ \A v \in Slots : out'[v][k] \in {"none", "sent"}
    BY <1>1, <1>2, <1>3, <2>1 DEF TakenIsAnswered
  <2>2. ASSUME m \notin slipped'
        PROVE  /\ taken'[m] = 1
               /\ status'[m] \in {"sending", "sent"}
               /\ \A v \in Slots : out'[v][m] \in {"none", "sent"}
    BY <1>1, <1>2, <1>5, <1>6, <2>2
  <2> QED
    BY <2>1, <2>2 DEF TakenIsAnswered
<1>11. TakenIsTrue'
  <2>1. TakenIsTrue /\ status' = status
    BY <1>1
  <2> HIDE DEF Inv, TypeOK, StoreTypeOK, Holds
  <2>2. ASSUME NEW k \in Messages \ {m}, ~(taken'[k] > 0)
        PROVE  status'[k] # "sent" /\ event'[k] = "none" /\ \A v \in Slots : out'[v][k] # "sent"
    BY <1>2, <1>3, <1>4, <2>1, <2>2 DEF TakenIsTrue
  <2> QED
    BY <1>5, <2>2 DEF TakenIsTrue
<1>12. StaleIsSlip' /\ BilledOnlyIfSent'
  BY <1>1, <1>2, <1>4 DEF StaleIsSlip, BilledOnlyIfSent
<1> QED
  BY <1>8, <1>9, <1>10, <1>11, <1>12

\* A message leaves a handler's hands, and its row moves to `verdict` if the
\* handler still owns it: markSent, markFailed and markCanceled.
Records(w, m, verdict) ==
    /\ out[w][m] # "none"
    /\ UNCHANGED <<holder, request, metered, event, taken, slipped>>
    /\ stale' \subseteq stale
    /\ \A v \in Slots : \A k \in Messages :
          out'[v][k] = IF v = w /\ k = m THEN "none" ELSE out[v][k]
    /\ \A k \in Messages \ {m} : status'[k] = status[k]
    /\ \/ status'[m] = status[m] /\ billable' = billable
       \/ /\ status[m] = "sending"
          /\ status'[m] = verdict
          /\ \A v \in Slots : billable'[v] \in
                {billable[v]} \cup (IF verdict = "sent" THEN {billable[v] \cup {m}} ELSE {})

\* Recording keeps the invariant if the verdict is `sent` only for a message the
\* provider took, and anything else only for one it did not, or that slipped.
LEMMA RecordsInv ==
    ASSUME TypeOK, Inv, NEW w \in Slots, NEW m \in Messages,
           NEW verdict \in {"sent", "failed", "queued", "canceled"},
           Records(w, m, verdict),
           verdict = "sent" => taken[m] > 0,
           verdict # "sent" => taken[m] = 0 \/ m \in slipped
    PROVE  Inv'
<1> USE DEF Inv, TypeOK, StoreTypeOK, Holds
<1>1. UNCHANGED <<holder, request, metered, event, taken, slipped>> /\ stale' \subseteq stale
  BY DEF Records
<1>2. \A v \in Slots : \A k \in Messages :
         out'[v][k] = IF v = w /\ k = m THEN "none" ELSE out[v][k]
  BY DEF Records
<1>3. /\ \A k \in Messages \ {m} : status'[k] = status[k]
      /\ status'[m] = status[m] \/ (status[m] = "sending" /\ status'[m] = verdict)
  BY DEF Records
<1>4. WrittenOnce'
  <2>1. \A k \in Messages : status[k] = "absent" <=> status'[k] = "absent"
    BY <1>3
  <2> QED
    BY <1>1, <1>2, <2>1, MsgsOfAssumption DEF WrittenOnce
<1>5. ClaimIsLock'
  <2>1. out[w][m] # "none"
    BY DEF Records
  <2>2. m \notin slipped => \A v \in Slots \ {w} : out[v][m] = "none"
    BY <2>1 DEF ClaimIsLock
  <2> QED
    BY <1>1, <1>2, <1>3, <2>2 DEF ClaimIsLock
<1>6. TakenIsAnswered'
  BY <1>1, <1>2, <1>3 DEF TakenIsAnswered
<1>7. TakenIsTrue'
  <2>1. \A k \in Messages : status'[k] = "sent" => status[k] = "sent" \/ taken[k] > 0
    BY <1>3
  <2>2. \A v \in Slots : \A k \in Messages : out'[v][k] = "sent" => out[v][k] = "sent"
    BY <1>2
  <2> QED
    BY <1>1, <2>1, <2>2 DEF TakenIsTrue
<1>8. StaleIsSlip'
  <2>1. \A k \in Messages : status[k] = "sent" => status'[k] = "sent"
    BY <1>3
  <2>2. ASSUME NEW k \in Messages, event[k] = "old"
        PROVE  status'[k] = "sent" \/ k \in slipped
    BY <2>1, <2>2 DEF StaleIsSlip
  <2> QED
    BY <1>1, <2>2 DEF StaleIsSlip
<1>9. BilledOnlyIfSent'
  <2>1. \A k \in Messages : status[k] = "sent" => status'[k] = "sent"
    BY <1>3
  <2>2. \A v \in Slots : \A k \in billable'[v] : k \in billable[v] \/ (k = m /\ status'[m] = "sent")
    BY DEF Records
  <2> QED
    BY <1>1, <2>1, <2>2 DEF BilledOnlyIfSent
<1> QED
  BY <1>4, <1>5, <1>6, <1>7, <1>8, <1>9

\* Each step of a handler with one of its messages keeps the invariant.
LEMMA HandleInv ==
    ASSUME TypeOK, Inv, NEW w \in Slots, NEW m \in Messages, Handle(w, m)
    PROVE  Inv'
<1> USE DEF TypeOK, StoreTypeOK
<1>1. out[w][m] \in {"claimed", "rejected", "deferred"} => taken[m] = 0 \/ m \in slipped
  <2>1. taken[m] \in 0..2
    OBVIOUS
  <2> QED
    BY <2>1 DEF Inv, TakenIsAnswered
<1>2. out[w][m] = "sent" => taken[m] > 0
  BY DEF Inv, TakenIsTrue
<1>3. CASE CancelOne(w, m)
  <2>1. Records(w, m, "canceled")
    BY <1>3 DEF CancelOne, MarkCanceled, Unclaim, OwnedBy, Records, acceptVars,
                providerVars, storeVars
  <2> QED
    BY <1>1, <1>3, <2>1, RecordsInv DEF CancelOne
<1>4. CASE RecordSent(w, m)
  <2>1. /\ phase[w] = "send"
        /\ out[w][m] = "sent"
        /\ MarkSent(m, ProcOf[w], w)
        /\ out' = [out EXCEPT ![w][m] = "none"]
        /\ UNCHANGED <<holder, request, metered, event, taken, slipped>>
    BY <1>4 DEF RecordSent, acceptVars, providerVars
  <2>2. \/ billable' = billable
        \/ OwnedBy(m, ProcOf[w]) /\ billable' = [billable EXCEPT ![w] = @ \cup {m}]
    BY <1>4 DEF RecordSent, Bills
  <2>3. stale' = stale /\ \A k \in Messages \ {m} : status'[k] = status[k]
    BY <2>1 DEF MarkSent, storeVars
  <2>4. CASE OwnedBy(m, ProcOf[w])
    <3>1. status[m] = "sending" /\ status'[m] = "sent"
      BY <2>1, <2>4 DEF MarkSent, OwnedBy
    <3>2. \A v \in Slots : billable'[v] \in {billable[v], billable[v] \cup {m}}
      BY <2>2
    <3>3. Records(w, m, "sent")
      BY <2>1, <2>3, <3>1, <3>2 DEF Records
    <3> QED
      BY <1>2, <2>1, <3>3, RecordsInv
  <2>5. CASE ~OwnedBy(m, ProcOf[w])
    <3>1. status' = status /\ billable' = billable
      BY <2>1, <2>2, <2>5 DEF MarkSent, storeVars
    <3>2. Records(w, m, "sent")
      BY <2>1, <2>3, <3>1 DEF Records
    <3> QED
      BY <1>2, <2>1, <3>2, RecordsInv
  <2> QED
    BY <2>4, <2>5
<1>5. CASE RecordFailed(w, m)
  <2>1. PICK verdict \in {"failed", "queued"} : Unclaim(m, ProcOf[w], verdict)
    BY <1>5 DEF RecordFailed, MarkFailed
  <2>2. Records(w, m, verdict)
    BY <1>5, <2>1 DEF RecordFailed, Unclaim, OwnedBy, Records, acceptVars,
                      providerVars, storeVars
  <2> QED
    BY <1>1, <1>5, <2>2, RecordsInv DEF RecordFailed
<1>6. CASE RecordThrows(w, m)
  <2>1. Forgets
    BY <1>6 DEF RecordThrows, Forgets, acceptVars, providerVars, storeVars
  <2> QED
    BY <2>1, ForgetsInv
<1> QED
  BY <1>3, <1>4, <1>5, <1>6, CallTakenInv, CallRefusedInv DEF Handle

\* The transaction that places a hold cancels rows no handler has: a queued row
\* that has not slipped was never taken.
LEMMA PlaceHoldInv ==
    ASSUME TypeOK, Inv, PlaceHold
    PROVE  Inv'
<1> USE DEF TypeOK, StoreTypeOK, Inv, Holds
<1>1. \A m \in Messages :
         status'[m] = IF status[m] = "queued" THEN "canceled" ELSE status[m]
  BY DEF PlaceHold, CancelQueued
<1>2. UNCHANGED <<stale, holder, request, out, billable, metered, event, taken, slipped>>
  BY DEF PlaceHold, CancelQueued, handlerVars, providerVars
<1>3. WrittenOnce'
  BY <1>1, <1>2, MsgsOfAssumption DEF WrittenOnce
<1>4. ClaimIsLock'
  BY <1>1, <1>2 DEF ClaimIsLock
<1>5. TakenIsAnswered'
  BY <1>1, <1>2 DEF TakenIsAnswered
<1>6. TakenIsTrue'
  BY <1>1, <1>2 DEF TakenIsTrue
<1>7. StaleIsSlip'
  BY <1>1, <1>2 DEF StaleIsSlip
<1>8. BilledOnlyIfSent'
  BY <1>1, <1>2 DEF BilledOnlyIfSent
<1> QED
  BY <1>3, <1>4, <1>5, <1>6, <1>7, <1>8

\* The reconciler touches only what slipped.
LEMMA SesRepairInv ==
    ASSUME TypeOK, Inv, NEW m \in Messages, SesRepair(m)
    PROVE  Inv'
<1> USE DEF TypeOK, StoreTypeOK, Inv, Holds
<1>1. /\ event[m] = "old"
      /\ status[m] # "sent"
      /\ status'[m] = "sent"
      /\ \A k \in Messages \ {m} : status'[k] = status[k]
      /\ stale' \subseteq stale
  BY DEF SesRepair, RepairFromSes
<1>2. UNCHANGED <<holder, request, out, billable, metered, event, taken, slipped>>
  BY DEF SesRepair, acceptVars, handlerVars, providerVars
<1>3. m \in slipped /\ taken[m] > 0 /\ status[m] # "absent"
  BY <1>1 DEF StaleIsSlip, TakenIsTrue, WrittenOnce
<1>4. WrittenOnce'
  BY <1>1, <1>2, <1>3, MsgsOfAssumption DEF WrittenOnce
<1>5. ClaimIsLock'
  BY <1>1, <1>2, <1>3 DEF ClaimIsLock
<1>6. TakenIsAnswered'
  BY <1>1, <1>2, <1>3 DEF TakenIsAnswered
<1>7. TakenIsTrue'
  BY <1>1, <1>2, <1>3 DEF TakenIsTrue
<1>8. StaleIsSlip'
  BY <1>1, <1>2, <1>3 DEF StaleIsSlip
<1>9. BilledOnlyIfSent'
  BY <1>1, <1>2 DEF BilledOnlyIfSent
<1> QED
  BY <1>4, <1>5, <1>6, <1>7, <1>8, <1>9

\* Events and claims age.
LEMMA AgesInv ==
    ASSUME TypeOK, Inv, NEW m \in Messages, EventAges(m) \/ ClaimGoesStale(m)
    PROVE  Inv'
<1> USE DEF TypeOK, StoreTypeOK, Inv, Holds, storeVars, acceptVars, handlerVars, providerVars
<1>1. CASE EventAges(m)
  <2>1. UNCHANGED <<status, stale, holder, request, out, billable, metered, taken, slipped>>
    BY <1>1 DEF EventAges
  <2>2. /\ event[m] = "fresh"
        /\ \A k \in Messages \ {m} : event'[k] = event[k]
        /\ status[m] = "sending" => m \in stale
    BY <1>1 DEF EventAges
  <2>3. taken[m] > 0 /\ (status[m] = "sent" \/ m \in slipped)
    <3>1. taken[m] > 0
      BY <2>2 DEF TakenIsTrue
    <3> QED
      BY <2>2, <3>1 DEF TakenIsAnswered, StaleIsSlip
  <2>4. TakenIsTrue'
    BY <2>1, <2>2, <2>3 DEF TakenIsTrue
  <2>5. StaleIsSlip'
    BY <2>1, <2>2, <2>3 DEF StaleIsSlip
  <2>6. WrittenOnce' /\ ClaimIsLock' /\ TakenIsAnswered' /\ BilledOnlyIfSent'
    BY <2>1 DEF WrittenOnce, ClaimIsLock, TakenIsAnswered, BilledOnlyIfSent
  <2> QED
    BY <2>4, <2>5, <2>6
<1>2. CASE ClaimGoesStale(m)
  <2>1. UNCHANGED <<status, holder, request, out, billable, metered, event, taken>>
    BY <1>2 DEF ClaimGoesStale, ClaimAges
  <2>2. /\ status[m] = "sending"
        /\ stale' = stale \cup {m}
        /\ slipped' = slipped \cup {m}
    BY <1>2 DEF ClaimGoesStale, ClaimAges
  <2>3. WrittenOnce'
    BY <2>1, <2>2, MsgsOfAssumption DEF WrittenOnce
  <2>4. ClaimIsLock'
    BY <2>1, <2>2 DEF ClaimIsLock
  <2>5. TakenIsAnswered'
    BY <2>1, <2>2 DEF TakenIsAnswered
  <2>6. TakenIsTrue' /\ StaleIsSlip' /\ BilledOnlyIfSent'
    BY <2>1, <2>2 DEF TakenIsTrue, StaleIsSlip, BilledOnlyIfSent
  <2> QED
    BY <2>3, <2>4, <2>5, <2>6
<1> QED
  BY <1>1, <1>2

\* Every step of the send path keeps the invariant.
LEMMA InvStep ==
    ASSUME TypeOK, Inv, [Next]_vars
    PROVE  Inv'
<1>1. CASE \E r \in Requests : Accept(r)
  BY <1>1, AcceptInv
<1>2. CASE \E w \in Slots : Work(w)
  <2>1. PICK w \in Slots : Work(w)
    BY <1>2
  <2>2. CASE HeldCheck(w) \/ \E j \in Jobs : ClaimNothing(w, j) \/ ClaimThrows(w, j)
    <3>1. UNCHANGED invVars
      BY <2>2 DEF HeldCheck, ClaimNothing, ClaimThrows, invVars, storeVars,
                  acceptVars, handlerVars, providerVars
    <3> QED
      BY <3>1, Frame
  <2>3. CASE CancelThrows(w) \/ FinishBatch(w)
    <3>1. CASE CancelThrows(w)
      <4>1. Forgets
        BY <3>1 DEF CancelThrows, Forgets, Nothing, TypeOK, storeVars, acceptVars,
                    providerVars
      <4> QED
        BY <4>1, ForgetsInv
    <3>2. CASE FinishBatch(w)
      <4>1. metered' \subseteq metered \cup UNION {billable[v] : v \in Slots}
        BY <3>2 DEF FinishBatch
      <4>2. \A v \in Slots : billable'[v] \subseteq billable[v]
        BY <3>2 DEF FinishBatch, TypeOK
      <4>3. Forgets
        BY <3>2, <4>1, <4>2 DEF FinishBatch, Forgets, TypeOK, storeVars, acceptVars,
                                providerVars
      <4> QED
        BY <4>3, ForgetsInv
    <3> QED
      BY <2>3, <3>1, <3>2
  <2>4. CASE \E j \in Jobs : ClaimBatch(w, j) \/ ClaimStrands(w, j)
    BY <2>4, ClaimInv
  <2>5. CASE \E m \in Messages : Handle(w, m)
    BY <2>5, HandleInv
  <2> QED
    BY <2>1, <2>2, <2>3, <2>4, <2>5 DEF Work, Proceed, Deliver
<1>3. CASE \E p \in Procs : WorkerCrash(p)
  <2>1. Forgets
    BY <1>3 DEF WorkerCrash, Forgets, Nothing, TypeOK, storeVars, acceptVars,
                providerVars
  <2> QED
    BY <2>1, ForgetsInv
<1>4. CASE Sweep \/ ReleaseHold \/ TimePasses \/ (\E j \in Jobs : JobStalls(j))
              \/ UNCHANGED vars
  <2>1. UNCHANGED invVars
    BY <1>4 DEF Sweep, SweepRead, SweepEnqueue, SweepSkips, ReleaseHold, TimePasses,
                Tick, RowAges, JobStalls, invVars, vars, storeVars, acceptVars,
                handlerVars, providerVars
  <2> QED
    BY <2>1, Frame
<1>5. CASE PlaceHold
  BY <1>5, PlaceHoldInv
<1>6. CASE \E m \in Messages : EventAges(m) \/ SesRepair(m) \/ ClaimGoesStale(m)
  BY <1>6, SesRepairInv, AgesInv
<1> QED
  BY <1>1, <1>2, <1>3, <1>4, <1>5, <1>6 DEF Next

\* The invariant holds of the whole system.
THEOREM Invariance == Spec => [](TypeOK /\ Inv)
<1>1. Init => Inv
  BY InitInv
<1>2. TypeOK /\ Inv /\ [Next]_vars => Inv'
  BY InvStep
<1>3. Spec => []TypeOK
  BY TypeCorrect
<1> QED
  BY <1>1, <1>2, <1>3, PTL DEF Spec

-----------------------------------------------------------------------------
(* Safety. *)

\* The claim is a lock (db/claim.ts): two handlers have a message in their hands
\* only after a claim on it outlived staleAfter or an acceptance was lost.
THEOREM ClaimIsALock == Spec => []OneHandler
<1>1. TypeOK /\ Inv => OneHandler
  BY DEF Inv, ClaimIsLock, OneHandler
<1> QED
  BY <1>1, Invariance, PTL

\* The provider takes a message twice only after such a slip: no sweep,
\* redelivery, hold, deferral or API crash makes a duplicate.
THEOREM DuplicatesAreSlips == Spec => []DuplicateOnlyIfSlipped
<1>1. TypeOK /\ Inv => DuplicateOnlyIfSlipped
  BY DEF Inv, TakenIsAnswered, DuplicateOnlyIfSlipped
<1> QED
  BY <1>1, Invariance, PTL

\* The row tells the truth about the provider: sent only if it took the mail,
\* and otherwise only if it did not, short of a slip.
THEOREM VerdictsAreTrue == Spec => []VerdictMatchesProvider
<1>1. TypeOK /\ Inv => VerdictMatchesProvider
  <2> SUFFICES ASSUME TypeOK, Inv, NEW m \in Messages
               PROVE  /\ status[m] = "sent" => taken[m] > 0
                      /\ status[m] \in {"queued", "failed", "canceled"} /\ taken[m] > 0
                            => m \in slipped
    BY DEF VerdictMatchesProvider
  <2>1. status[m] = "sent" => taken[m] > 0
    BY DEF Inv, TakenIsTrue
  <2>2. status[m] \in {"queued", "failed", "canceled"} /\ taken[m] > 0 => m \in slipped
    BY DEF Inv, TakenIsAnswered
  <2> QED
    BY <2>1, <2>2
<1> QED
  BY <1>1, Invariance, PTL

\* Only sent mail is billed, however late, often or by whom usage is recorded.
THEOREM OnlySentIsBilled == Spec => []BilledOnlyIfSent
<1>1. TypeOK /\ Inv => BilledOnlyIfSent
  BY DEF Inv
<1> QED
  BY <1>1, Invariance, PTL

-----------------------------------------------------------------------------
(* What a step may never do. *)

\* While a hold is in force, a handler that is sending is one that the hold could not
\* stop: it was past its check, or could not look.
HoldIsSeen == hold => \A w \in Slots : phase[w] = "send" => w \in exposed

LEMMA HoldIsSeenStep ==
    ASSUME TypeOK, HoldIsSeen, [Next]_vars
    PROVE  HoldIsSeen'
<1> USE DEF TypeOK, HoldIsSeen
<1>1. ASSUME UNCHANGED <<hold, exposed>>,
             \A w \in Slots : phase'[w] = "send" => phase[w] = "send"
      PROVE  HoldIsSeen'
  BY <1>1
<1>2. ASSUME NEW r \in Requests, Accept(r) PROVE HoldIsSeen'
  BY <1>2 DEF Accept, Admit, Persist, Answer, ApiCrash, EnqueueGroup, handlerVars
<1>3. ASSUME NEW w \in Slots, Work(w) PROVE HoldIsSeen'
  <2>1. CASE HeldCheck(w)
    BY <2>1 DEF HeldCheck, acceptVars
  <2>2. CASE CancelThrows(w) \/ FinishBatch(w)
    BY <1>1, <2>2 DEF CancelThrows, FinishBatch, acceptVars
  <2>3. ASSUME NEW m \in Messages, Handle(w, m) PROVE HoldIsSeen'
    BY <1>1, <2>3 DEF Handle, CancelOne, CallAccepted, CallAnswerLost, CallRejected, CallDeferred,
                      CallEnds, RecordSent, RecordFailed, RecordThrows, acceptVars
  <2>4. ASSUME NEW j \in Jobs, ClaimBatch(w, j) PROVE HoldIsSeen'
    BY <2>4 DEF ClaimBatch, acceptVars
  <2>5. ASSUME NEW j \in Jobs, ClaimNothing(w, j) \/ ClaimThrows(w, j) \/ ClaimStrands(w, j)
        PROVE  HoldIsSeen'
    BY <1>1, <2>5 DEF ClaimNothing, ClaimThrows, ClaimStrands, acceptVars, handlerVars
  <2>. QED  BY <1>3, <2>1, <2>2, <2>3, <2>4, <2>5 DEF Work, Proceed, Deliver
<1>4. ASSUME NEW p \in Procs, WorkerCrash(p) PROVE HoldIsSeen'
  BY <1>1, <1>4 DEF WorkerCrash, acceptVars
<1>5. CASE PlaceHold \/ ReleaseHold
  BY <1>5 DEF PlaceHold, ReleaseHold, handlerVars
<1>6. CASE (\E j \in Jobs : JobStalls(j)) \/ Sweep \/ TimePasses
  BY <1>1, <1>6 DEF JobStalls, Sweep, SweepRead, SweepEnqueue, SweepSkips, TimePasses,
                    acceptVars, handlerVars
<1>7. CASE \E m \in Messages : EventAges(m) \/ SesRepair(m) \/ ClaimGoesStale(m)
  BY <1>1, <1>7 DEF EventAges, SesRepair, ClaimGoesStale, acceptVars, handlerVars
<1>8. CASE UNCHANGED vars
  BY <1>1, <1>8 DEF vars, acceptVars, handlerVars
<1>. QED  BY <1>2, <1>3, <1>4, <1>5, <1>6, <1>7, <1>8 DEF Next

\* Only a call to the provider takes a message, and only while sending.
LEMMA TakenByCall ==
    ASSUME TypeOK, [Next]_vars, NEW m \in Messages, taken'[m] # taken[m]
    PROVE  \E w \in Slots : phase[w] = "send" /\ out[w][m] = "claimed"
<1> USE DEF TypeOK
<1>1. taken' # taken
  OBVIOUS
<1>2. ASSUME NEW r \in Requests, Accept(r) PROVE FALSE
  BY <1>1, <1>2 DEF Accept, Admit, Persist, Answer, ApiCrash, EnqueueGroup, providerVars
<1>3. ASSUME NEW w \in Slots, Work(w)
      PROVE  phase[w] = "send" /\ out[w][m] = "claimed"
  <2>1. CASE HeldCheck(w) \/ CancelThrows(w) \/ FinishBatch(w)
    BY <1>1, <2>1 DEF HeldCheck, CancelThrows, FinishBatch, providerVars
  <2>2. ASSUME NEW k \in Messages, Handle(w, k)
        PROVE  phase[w] = "send" /\ out[w][m] = "claimed"
    <3>1. CASE CallAccepted(w, k) \/ CallAnswerLost(w, k)
      <4>1. taken' = [taken EXCEPT ![k] = IF @ = 2 THEN 2 ELSE @ + 1]
        BY <3>1 DEF CallAccepted, CallAnswerLost, Accepts
      <4>2. k = m
        BY <4>1
      <4>. QED  BY <3>1, <4>2 DEF CallAccepted, CallAnswerLost, CallEnds
    <3>2. CASE \/ CancelOne(w, k) \/ CallRejected(w, k) \/ CallDeferred(w, k)
               \/ RecordSent(w, k) \/ RecordFailed(w, k) \/ RecordThrows(w, k)
      BY <1>1, <3>2 DEF CancelOne, CallRejected, CallDeferred, RecordSent, RecordFailed,
                        RecordThrows, providerVars
    <3>. QED  BY <2>2, <3>1, <3>2 DEF Handle
  <2>3. ASSUME NEW j \in Jobs, Deliver(w, j) PROVE FALSE
    BY <1>1, <2>3 DEF Deliver, ClaimNothing, ClaimBatch, ClaimThrows, ClaimStrands, providerVars
  <2>. QED  BY <1>3, <2>1, <2>2, <2>3 DEF Work, Proceed
<1>4. CASE \/ \E p \in Procs : WorkerCrash(p)
           \/ \E j \in Jobs : JobStalls(j)
           \/ Sweep \/ PlaceHold \/ ReleaseHold \/ TimePasses \/ UNCHANGED vars
  BY <1>1, <1>4 DEF WorkerCrash, JobStalls, Sweep, SweepRead, SweepEnqueue, SweepSkips, PlaceHold,
                    ReleaseHold, TimePasses, vars, providerVars
<1>5. CASE \E k \in Messages : EventAges(k) \/ SesRepair(k) \/ ClaimGoesStale(k)
  BY <1>1, <1>5 DEF EventAges, SesRepair, ClaimGoesStale, providerVars
<1>. QED  BY <1>2, <1>3, <1>4, <1>5 DEF Next

\* A hold stops every mail but that of a handler past its check, for any number of
\* workers, batches and requests (risk/holds.ts, worker/handle-batch.ts).
THEOREM HoldStops == Spec => HoldStopsMail
<1>. DEFINE Stops == \A m \in Messages : hold /\ taken'[m] # taken[m] =>
                        \E w \in exposed : out[w][m] = "claimed"
<1>1. Init => HoldIsSeen
  BY DEF Init, HoldIsSeen
<1>2. TypeOK /\ HoldIsSeen /\ [Next]_vars => HoldIsSeen'
  BY HoldIsSeenStep
<1>3. TypeOK /\ HoldIsSeen /\ [Next]_vars => Stops
  <2> SUFFICES ASSUME TypeOK, HoldIsSeen, [Next]_vars, NEW m \in Messages, hold,
                      taken'[m] # taken[m]
               PROVE  \E w \in exposed : out[w][m] = "claimed"
    OBVIOUS
  <2>1. PICK w \in Slots : phase[w] = "send" /\ out[w][m] = "claimed"
    BY TakenByCall
  <2>2. w \in exposed
    BY <2>1 DEF HoldIsSeen
  <2>. QED  BY <2>1, <2>2
<1>. QED  BY <1>1, <1>2, <1>3, TypeCorrect, PTL DEF Spec, HoldStopsMail

\* What the statements do to a row that has its verdict: nothing, but for the repair of
\* one that is not `sent`.
LEMMA VerdictStep ==
    ASSUME TypeOK, Inv, [Next]_vars, NEW m \in Messages, status[m] \in Terminal
    PROVE  \/ status'[m] = status[m] /\ providerId'[m] = providerId[m]
           \/ status[m] # "sent" /\ status'[m] = "sent" /\ taken[m] > 0
<1> USE DEF TypeOK, StoreTypeOK, Terminal
<1>. DEFINE Stands == status'[m] = status[m] /\ providerId'[m] = providerId[m]
<1>1. ASSUME UNCHANGED storeVars PROVE Stands
  BY <1>1 DEF storeVars
<1>2. ASSUME NEW r \in Requests, Accept(r) PROVE Stands
  <2>1. CASE Persist(r)
    <3>1. m \notin MsgsOf[r]
      BY <2>1 DEF Persist, Inv, WrittenOnce
    <3>2. \E B \in SUBSET MsgsOf[r] : InsertRows(MsgsOf[r], B)
      BY <2>1 DEF Persist
    <3>. QED  BY <3>1, <3>2 DEF InsertRows
  <2>2. CASE Admit(r) \/ Answer(r) \/ ApiCrash(r) \/ \E t \in 0..MaxTime : EnqueueGroup(r, t)
    BY <1>1, <2>2 DEF Admit, Answer, ApiCrash, EnqueueGroup
  <2>. QED  BY <1>2, <2>1, <2>2 DEF Accept
<1>3. ASSUME NEW w \in Slots, Work(w) PROVE Stands
  <2>1. CASE HeldCheck(w) \/ CancelThrows(w) \/ FinishBatch(w)
    BY <1>1, <2>1 DEF HeldCheck, CancelThrows, FinishBatch
  <2>2. ASSUME NEW j \in Jobs, Deliver(w, j) PROVE Stands
    <3>1. CASE ClaimNothing(w, j) \/ ClaimThrows(w, j)
      BY <1>1, <3>1 DEF ClaimNothing, ClaimThrows
    <3>2. CASE ClaimBatch(w, j) \/ ClaimStrands(w, j)
      <4>1. ClaimRows({k \in batch[j] : Claimable(k)}, ProcOf[w])
        BY <3>2 DEF ClaimBatch, ClaimStrands
      <4>2. ~Claimable(m)
        BY DEF Claimable
      <4>. QED  BY <4>1, <4>2 DEF ClaimRows
    <3>. QED  BY <2>2, <3>1, <3>2 DEF Deliver
  <2>3. ASSUME NEW k \in Messages, Handle(w, k) PROVE Stands
    <3>1. CASE \/ CallAccepted(w, k) \/ CallAnswerLost(w, k) \/ CallRejected(w, k)
               \/ CallDeferred(w, k) \/ RecordThrows(w, k)
      BY <1>1, <3>1 DEF CallAccepted, CallAnswerLost, CallRejected, CallDeferred, CallEnds,
                        RecordThrows
    <3>2. CASE RecordSent(w, k)
      <4>1. MarkSent(k, ProcOf[w], w)
        BY <3>2 DEF RecordSent
      <4>. QED  BY <4>1 DEF MarkSent, OwnedBy, storeVars
    <3>3. CASE RecordFailed(w, k) \/ CancelOne(w, k)
      <4>1. \E to \in {"failed", "queued", "canceled"} : Unclaim(k, ProcOf[w], to)
        BY <3>3 DEF RecordFailed, CancelOne, MarkFailed, MarkCanceled
      <4>. QED  BY <4>1 DEF Unclaim, OwnedBy, storeVars
    <3>. QED  BY <2>3, <3>1, <3>2, <3>3 DEF Handle
  <2>. QED  BY <1>3, <2>1, <2>2, <2>3 DEF Work, Proceed
<1>4. CASE \/ \E p \in Procs : WorkerCrash(p)
           \/ \E j \in Jobs : JobStalls(j)
           \/ Sweep \/ ReleaseHold \/ UNCHANGED vars
  BY <1>1, <1>4 DEF WorkerCrash, JobStalls, Sweep, SweepRead, SweepEnqueue, SweepSkips,
                    ReleaseHold, vars
<1>5. CASE PlaceHold
  BY <1>5 DEF PlaceHold, CancelQueued
<1>6. CASE TimePasses
  BY <1>6 DEF TimePasses, Tick, RowAges
<1>7. ASSUME NEW k \in Messages, EventAges(k) \/ ClaimGoesStale(k) PROVE Stands
  BY <1>7 DEF EventAges, ClaimGoesStale, ClaimAges, storeVars
<1>8. ASSUME NEW k \in Messages, SesRepair(k)
      PROVE  Stands \/ (status[m] # "sent" /\ status'[m] = "sent" /\ taken[m] > 0)
  <2>1. PICK id \in Slots : RepairFromSes(k, id)
    BY <1>8 DEF SesRepair
  <2>2. CASE k = m
    <3>1. taken[m] > 0
      BY <1>8, <2>2 DEF SesRepair, Inv, TakenIsTrue
    <3>. QED  BY <2>1, <2>2, <3>1 DEF RepairFromSes
  <2>3. CASE k # m
    BY <2>1, <2>3 DEF RepairFromSes
  <2>. QED  BY <2>2, <2>3
<1>. QED  BY <1>2, <1>3, <1>4, <1>5, <1>6, <1>7, <1>8 DEF Next

\* A recorded verdict stands, for any number of handlers, processes and late results
\* (db/claim.ts): `sent` and its provider id for ever, the others until the reconciler
\* finds that the provider did take the mail.
THEOREM VerdictsStand == Spec => VerdictStands
<1>. DEFINE Stand == \A m \in Messages : status[m] \in Terminal =>
                       \/ status'[m] = status[m] /\ providerId'[m] = providerId[m]
                       \/ status[m] # "sent" /\ status'[m] = "sent" /\ taken[m] > 0
<1>1. TypeOK /\ Inv /\ [Next]_vars => Stand
  BY VerdictStep
<1>. QED  BY <1>1, Invariance, PTL DEF Spec, VerdictStands

-----------------------------------------------------------------------------
(* The send path implements the promise of AtLeastOnce *)

promiseVars == <<Outcome, taken, slipped>>

LEMMA OutcomeOf ==
    ASSUME TypeOK
    PROVE  /\ DOMAIN Outcome = Messages
           /\ \A m \in Messages : Outcome[m] = IF status[m] \in {"queued", "sending"}
                                               THEN "pending" ELSE status[m]
BY DEF Outcome

\* Rows that move between queue and handlers are pending all along.
LEMMA OutcomeStays ==
    ASSUME TypeOK, TypeOK',
           \A m \in Messages : \/ status'[m] = status[m]
                               \/ {status[m], status'[m]} \subseteq {"queued", "sending"}
    PROVE  UNCHANGED Outcome
<1>1. \A m \in Messages :
        (IF status'[m] \in {"queued", "sending"} THEN "pending" ELSE status'[m])
          = IF status[m] \in {"queued", "sending"} THEN "pending" ELSE status[m]
  OBVIOUS
<1>. QED  BY <1>1 DEF Outcome

\* A row that gets a verdict, and the others as they were.
LEMMA OutcomeBecomes ==
    ASSUME TypeOK, NEW S \in SUBSET Messages, NEW verdict \in {"sent", "failed", "canceled"},
           \A m \in Messages : status'[m] = IF m \in S THEN verdict ELSE status[m]
    PROVE  Outcome' = [m \in Messages |-> IF m \in S THEN verdict ELSE Outcome[m]]
<1>1. \A m \in Messages :
        (IF status'[m] \in {"queued", "sending"} THEN "pending" ELSE status'[m])
          = IF m \in S THEN verdict ELSE Outcome[m]
  BY OutcomeOf
<1>. QED  BY <1>1 DEF Outcome

\* A row is written, and pending from then on.
LEMMA PersistPromised ==
    ASSUME TypeOK, Inv, NEW r \in Requests, Persist(r)
    PROVE  Promise!Accept(MsgsOf[r])
<1> USE DEF TypeOK, StoreTypeOK
<1>1. \A m \in MsgsOf[r] : m \in Messages /\ status[m] = "absent"
  BY MsgsOfAssumption DEF Persist, Inv, WrittenOnce
<1>2. \A m \in Messages : status'[m] = IF m \in MsgsOf[r] THEN "queued" ELSE status[m]
  BY DEF Persist, InsertRows
<1>3. \A m \in Messages :
        (IF status'[m] \in {"queued", "sending"} THEN "pending" ELSE status'[m])
          = IF m \in MsgsOf[r] THEN "pending" ELSE Outcome[m]
  BY <1>2, OutcomeOf
<1>4. Outcome' = [m \in Messages |-> IF m \in MsgsOf[r] THEN "pending" ELSE Outcome[m]]
  BY <1>3 DEF Outcome
<1>5. \A m \in MsgsOf[r] : Outcome[m] = "absent"
  BY <1>1, OutcomeOf
<1>. QED  BY <1>4, <1>5 DEF Promise!Accept, Persist, providerVars

\* The provider takes a message again only if it slipped.
LEMMA CallPromised ==
    ASSUME TypeOK, TypeOK', Inv, NEW w \in Slots, NEW m \in Messages,
           CallAccepted(w, m) \/ CallAnswerLost(w, m)
    PROVE  Promise!Take(m)
<1> USE DEF TypeOK, StoreTypeOK
<1>1. out[w][m] = "claimed" /\ UNCHANGED status
  BY DEF CallAccepted, CallAnswerLost, CallEnds, storeVars
<1>2. status[m] # "absent"
  BY <1>1 DEF Inv, WrittenOnce, Holds
<1>3. m \notin slipped => status[m] = "sending" /\ taken[m] = 0
  <2>1. m \notin slipped => status[m] = "sending"
    BY <1>1 DEF Inv, ClaimIsLock, Holds
  <2>2. m \notin slipped => ~(taken[m] > 0)
    BY <1>1 DEF Inv, TakenIsAnswered
  <2>3. taken[m] \in 0..2
    OBVIOUS
  <2>. QED  BY <2>1, <2>2, <2>3
<1>4. Outcome[m] # "absent" /\ (m \in slipped \/ (Outcome[m] = "pending" /\ taken[m] = 0))
  BY <1>2, <1>3, OutcomeOf
<1>5. UNCHANGED Outcome
  BY <1>1, OutcomeStays
<1>6. /\ taken' = [taken EXCEPT ![m] = IF @ = 2 THEN 2 ELSE @ + 1]
      /\ slipped' \in {slipped, slipped \cup {m}}
  BY DEF CallAccepted, CallAnswerLost, Accepts
<1>. QED  BY <1>4, <1>5, <1>6 DEF Promise!Take

LEMMA RecordSentPromised ==
    ASSUME TypeOK, TypeOK', Inv, NEW w \in Slots, NEW m \in Messages, RecordSent(w, m)
    PROVE  Promise!Sent(m) \/ UNCHANGED promiseVars
<1> USE DEF TypeOK, StoreTypeOK
<1>1. MarkSent(m, ProcOf[w], w) /\ out[w][m] = "sent" /\ UNCHANGED <<taken, slipped>>
  BY DEF RecordSent, providerVars
<1>2. taken[m] > 0
  BY <1>1 DEF Inv, TakenIsTrue
<1>3. CASE OwnedBy(m, ProcOf[w])
  <2>1. status[m] = "sending" /\ status' = [status EXCEPT ![m] = "sent"]
    BY <1>1, <1>3 DEF MarkSent, OwnedBy
  <2>2. Outcome' = [k \in Messages |-> IF k \in {m} THEN "sent" ELSE Outcome[k]]
    <3>1. {m} \in SUBSET Messages /\ "sent" \in {"sent", "failed", "canceled"}
      OBVIOUS
    <3>2. \A k \in Messages : status'[k] = IF k \in {m} THEN "sent" ELSE status[k]
      BY <2>1
    <3>3. TypeOK
      OBVIOUS
    <3>. HIDE DEF TypeOK, StoreTypeOK
    <3>. QED  BY <3>1, <3>2, <3>3, OutcomeBecomes
  <2>3. Outcome' = [Outcome EXCEPT ![m] = "sent"]
    BY <2>2, OutcomeOf
  <2>4. Outcome[m] = "pending"
    BY <2>1, OutcomeOf
  <2>. QED  BY <1>1, <1>2, <2>3, <2>4 DEF Promise!Sent
<1>4. CASE ~OwnedBy(m, ProcOf[w])
  <2>1. UNCHANGED status
    BY <1>1, <1>4 DEF MarkSent, storeVars
  <2>. QED  BY <1>1, <2>1, OutcomeStays DEF promiseVars
<1>. QED  BY <1>3, <1>4

LEMMA NotSentPromised ==
    ASSUME TypeOK, TypeOK', Inv, NEW w \in Slots, NEW m \in Messages,
           RecordFailed(w, m) \/ CancelOne(w, m)
    PROVE  \/ Promise!NotSent({m}, "failed") \/ Promise!NotSent({m}, "canceled")
           \/ UNCHANGED promiseVars
<1> USE DEF TypeOK, StoreTypeOK
<1>1. PICK to \in {"failed", "queued", "canceled"} : Unclaim(m, ProcOf[w], to)
  BY DEF RecordFailed, CancelOne, MarkFailed, MarkCanceled
<1>2. out[w][m] \in {"claimed", "rejected", "deferred"} /\ UNCHANGED <<taken, slipped>>
  BY DEF RecordFailed, CancelOne, providerVars
<1>3. taken[m] = 0 \/ m \in slipped
  <2>1. taken[m] \in 0..2
    OBVIOUS
  <2>2. m \in Messages \ slipped /\ taken[m] > 0 => out[w][m] \in {"none", "sent"}
    BY DEF Inv, TakenIsAnswered
  <2>. QED  BY <1>2, <2>1, <2>2
<1>4. CASE OwnedBy(m, ProcOf[w]) /\ to # "queued"
  <2>1. status[m] = "sending" /\ status' = [status EXCEPT ![m] = to]
    BY <1>1, <1>4 DEF Unclaim, OwnedBy
  <2>2. Outcome' = [k \in Messages |-> IF k \in {m} THEN to ELSE Outcome[k]]
    <3>1. {m} \in SUBSET Messages /\ to \in {"sent", "failed", "canceled"}
      BY <1>4
    <3>2. \A k \in Messages : status'[k] = IF k \in {m} THEN to ELSE status[k]
      BY <2>1
    <3>3. TypeOK
      OBVIOUS
    <3>. HIDE DEF TypeOK, StoreTypeOK
    <3>. QED  BY <3>1, <3>2, <3>3, OutcomeBecomes
  <2>3. Outcome[m] = "pending"
    BY <2>1, OutcomeOf
  <2>. QED  BY <1>2, <1>3, <1>4, <2>2, <2>3 DEF Promise!NotSent
<1>5. CASE ~(OwnedBy(m, ProcOf[w]) /\ to # "queued")
  <2>1. \A k \in Messages : \/ status'[k] = status[k]
                            \/ {status[k], status'[k]} \subseteq {"queued", "sending"}
    BY <1>1, <1>5 DEF Unclaim, OwnedBy, storeVars
  <2>. QED  BY <1>2, <2>1, OutcomeStays DEF promiseVars
<1>. QED  BY <1>4, <1>5

LEMMA PlaceHoldPromised ==
    ASSUME TypeOK, Inv, PlaceHold
    PROVE  Promise!NotSent({m \in Messages : status[m] = "queued"}, "canceled")
<1>. DEFINE S == {m \in Messages : status[m] = "queued"}
<1>1. \A m \in Messages : status'[m] = IF m \in S THEN "canceled" ELSE status[m]
  BY DEF PlaceHold, CancelQueued
<1>2. S \in SUBSET Messages /\ "canceled" \in {"sent", "failed", "canceled"}
  OBVIOUS
<1>3. \A m \in S : taken[m] = 0 \/ m \in slipped
  <2>1. \A m \in Messages : taken[m] \in 0..2
    BY DEF TypeOK
  <2>. QED  BY <2>1 DEF Inv, TakenIsAnswered
<1>4. \A m \in S : Outcome[m] = "pending"
  BY OutcomeOf
<1>5. UNCHANGED <<taken, slipped>>
  BY DEF PlaceHold, providerVars
<1>. HIDE DEF S
<1>6. Outcome' = [m \in Messages |-> IF m \in S THEN "canceled" ELSE Outcome[m]]
  BY <1>1, <1>2, OutcomeBecomes
<1>7. Promise!NotSent(S, "canceled")
  BY <1>3, <1>4, <1>5, <1>6 DEF Promise!NotSent
<1>. QED  BY <1>7 DEF S

LEMMA RepairPromised ==
    ASSUME TypeOK, Inv, NEW m \in Messages, SesRepair(m)
    PROVE  Promise!Sent(m)
<1>1. event[m] = "old" /\ status[m] # "sent" /\ UNCHANGED <<taken, slipped>>
  BY DEF SesRepair, RepairFromSes, providerVars
<1>2. m \in slipped /\ taken[m] > 0
  <2>1. m \in slipped
    BY <1>1 DEF Inv, StaleIsSlip
  <2>2. taken[m] > 0
    BY <1>1 DEF Inv, TakenIsTrue
  <2>. QED  BY <2>1, <2>2
<1>3. status' = [status EXCEPT ![m] = "sent"]
  BY DEF SesRepair, RepairFromSes
<1>4. \A k \in Messages : status'[k] = IF k \in {m} THEN "sent" ELSE status[k]
  BY <1>3 DEF TypeOK, StoreTypeOK
<1>5. {m} \in SUBSET Messages /\ "sent" \in {"sent", "failed", "canceled"}
  OBVIOUS
<1>6. Outcome' = [k \in Messages |-> IF k \in {m} THEN "sent" ELSE Outcome[k]]
  BY <1>4, <1>5, OutcomeBecomes
<1>7. Outcome' = [Outcome EXCEPT ![m] = "sent"]
  BY <1>6, OutcomeOf
<1>. QED  BY <1>1, <1>2, <1>7 DEF Promise!Sent

\* Every step of the send path is one that the promise allows, or none at all.
LEMMA StepPromised ==
    ASSUME TypeOK, TypeOK', Inv, [Next]_vars
    PROVE  [Promise!Next]_promiseVars
<1>1. ASSUME UNCHANGED <<status, taken, slipped>> PROVE UNCHANGED promiseVars
  BY <1>1, OutcomeStays DEF promiseVars
<1>2. ASSUME NEW r \in Requests, Accept(r) PROVE [Promise!Next]_promiseVars
  <2>1. CASE Persist(r)
    <3>1. MsgsOf[r] \in SUBSET Messages
      BY MsgsOfAssumption
    <3>. QED  BY <2>1, <3>1, PersistPromised DEF Promise!Next
  <2>2. CASE Admit(r) \/ Answer(r) \/ ApiCrash(r) \/ \E t \in 0..MaxTime : EnqueueGroup(r, t)
    BY <1>1, <2>2 DEF Admit, Answer, ApiCrash, EnqueueGroup, storeVars, providerVars
  <2>. QED  BY <1>2, <2>1, <2>2 DEF Accept
<1>3. ASSUME NEW w \in Slots, Work(w) PROVE [Promise!Next]_promiseVars
  <2>1. CASE HeldCheck(w) \/ CancelThrows(w) \/ FinishBatch(w)
    BY <1>1, <2>1 DEF HeldCheck, CancelThrows, FinishBatch, storeVars, providerVars
  <2>2. ASSUME NEW j \in Jobs, Deliver(w, j) PROVE UNCHANGED promiseVars
    <3>1. CASE ClaimNothing(w, j) \/ ClaimThrows(w, j)
      BY <1>1, <3>1 DEF ClaimNothing, ClaimThrows, storeVars, providerVars
    <3>2. CASE ClaimBatch(w, j) \/ ClaimStrands(w, j)
      <4>1. /\ ClaimRows({k \in batch[j] : Claimable(k)}, ProcOf[w])
            /\ UNCHANGED <<taken, slipped>>
        BY <3>2 DEF ClaimBatch, ClaimStrands, providerVars
      <4>2. \A m \in Messages : \/ status'[m] = status[m]
                                \/ {status[m], status'[m]} \subseteq {"queued", "sending"}
        BY <4>1 DEF ClaimRows, Claimable
      <4>. QED  BY <4>1, <4>2, OutcomeStays DEF promiseVars
    <3>. QED  BY <2>2, <3>1, <3>2 DEF Deliver
  <2>3. ASSUME NEW m \in Messages, Handle(w, m) PROVE [Promise!Next]_promiseVars
    <3>1. CASE CallAccepted(w, m) \/ CallAnswerLost(w, m)
      BY <3>1, CallPromised DEF Promise!Next
    <3>2. CASE CallRejected(w, m) \/ CallDeferred(w, m) \/ RecordThrows(w, m)
      BY <1>1, <3>2 DEF CallRejected, CallDeferred, CallEnds, RecordThrows, storeVars, providerVars
    <3>3. CASE RecordSent(w, m)
      BY <3>3, RecordSentPromised DEF Promise!Next
    <3>4. CASE RecordFailed(w, m) \/ CancelOne(w, m)
      <4>1. {m} \in SUBSET Messages
        OBVIOUS
      <4>. QED  BY <3>4, <4>1, NotSentPromised DEF Promise!Next
    <3>. QED  BY <2>3, <3>1, <3>2, <3>3, <3>4 DEF Handle
  <2>. QED  BY <1>3, <2>1, <2>2, <2>3 DEF Work, Proceed
<1>4. CASE \/ \E p \in Procs : WorkerCrash(p)
           \/ \E j \in Jobs : JobStalls(j)
           \/ Sweep \/ ReleaseHold \/ TimePasses \/ UNCHANGED vars
  BY <1>1, <1>4 DEF WorkerCrash, JobStalls, Sweep, SweepRead, SweepEnqueue, SweepSkips,
                    ReleaseHold, TimePasses, Tick, RowAges, vars, storeVars, providerVars
<1>5. CASE PlaceHold
  <2>1. {m \in Messages : status[m] = "queued"} \in SUBSET Messages
    OBVIOUS
  <2>. QED  BY <1>5, <2>1, PlaceHoldPromised DEF Promise!Next
<1>6. ASSUME NEW m \in Messages, EventAges(m) PROVE [Promise!Next]_promiseVars
  BY <1>1, <1>6 DEF EventAges, storeVars
<1>7. ASSUME NEW m \in Messages, SesRepair(m) PROVE [Promise!Next]_promiseVars
  BY <1>7, RepairPromised DEF Promise!Next
<1>8. ASSUME NEW m \in Messages, ClaimGoesStale(m) PROVE [Promise!Next]_promiseVars
  <2>1. /\ status[m] = "sending" /\ UNCHANGED <<status, taken>>
        /\ slipped' = slipped \cup {m}
    BY <1>8 DEF ClaimGoesStale, ClaimAges, providerVars
  <2>2. UNCHANGED Outcome
    BY <2>1, OutcomeStays
  <2>3. Outcome[m] = "pending"
    BY <2>1, OutcomeOf
  <2>4. Promise!Slip(m)
    BY <2>1, <2>2, <2>3 DEF Promise!Slip
  <2>. QED  BY <2>4 DEF Promise!Next
<1>. QED  BY <1>2, <1>3, <1>4, <1>5, <1>6, <1>7, <1>8 DEF Next

\* Whatever is queued, claimed, swept, held, crashed or repaired, a customer sees what
\* AtLeastOnce promises: one verdict, true of what the provider did, and a second mail
\* only for the two reasons the design accepts.
THEOREM SendKeepsPromise == Spec => KeepsPromise
<1>1. Init => Promise!Init
  <2> SUFFICES ASSUME Init PROVE Promise!Init
    OBVIOUS
  <2>1. Outcome = [m \in Messages |-> "absent"]
    BY DEF Init, StoreInit, Outcome
  <2>. QED  BY <2>1 DEF Init, Promise!Init
<1>2. TypeOK /\ TypeOK' /\ Inv /\ [Next]_vars => [Promise!Next]_Promise!vars
  BY StepPromised DEF promiseVars, Promise!vars
<1>. QED  BY <1>1, <1>2, Invariance, PTL DEF Spec, KeepsPromise, Promise!Spec
=============================================================================
