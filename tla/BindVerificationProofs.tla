----------------------- MODULE BindVerificationProofs -----------------------
(***************************************************************************)
(* What TLAPS proves of the failure budget: for any number of pods and of  *)
(* binds, any Max and any window, at most Max slots of a window are out.   *)
(***************************************************************************)
EXTENDS BindVerification, FiniteSetTheorems, TLAPS

-----------------------------------------------------------------------------
(* The budget on its own.                                                  *)

\* The row is of a window that has begun, its count is what is out of it, and
\* nobody holds a slot of a window still to come.
RowInv ==
    /\ budget # NoRow => /\ budget.start <= now
                         /\ budget.count <= Max
                         /\ budget.count = Cardinality(Out(budget.start))
    /\ \A c \in Callers : slot[c] # "none" => budget # NoRow /\ took[c] <= budget.start

WindowsInv == \A w \in Nat : Cardinality(Out(w)) <= Max

BudgetInv == BudgetTypeOK /\ RowInv /\ WindowsInv

\* What is out of a window is a finite set of callers.
LEMMA OutIsFinite ==
    \A w : IsFiniteSet(Out(w)) /\ Cardinality(Out(w)) \in Nat
BY BudgetAssumption, FS_Subset, FS_CardinalityType DEF Out

\* Taking a slot, whether or not its answer is heard.
Takes(c, state) ==
    /\ slot[c] = "none"
    /\ HasRoom
    /\ budget' = Reserved
    /\ slot' = [slot EXCEPT ![c] = state]
    /\ took' = [took EXCEPT ![c] = budget'.start]
    /\ UNCHANGED now

\* Nobody is out of a window that opens only now.
LEMMA NewWindowIsEmpty ==
    ASSUME BudgetInv, Expired
    PROVE  Out(now) = {}
<1>1. ASSUME NEW c \in Callers, slot[c] # "none", took[c] = now PROVE FALSE
  <2>1. budget # NoRow /\ now <= budget.start
    BY <1>1 DEF BudgetInv, RowInv
  <2>2. budget.start \in Nat
    BY <2>1 DEF BudgetInv, BudgetTypeOK
  <2> QED
    BY <2>1, <2>2, BudgetAssumption DEF Expired, BudgetInv, BudgetTypeOK
<1> QED
  BY <1>1 DEF Out

\* A slot taken in a window with room for it, which no other is ahead of.
LEMMA TakingInto ==
    ASSUME BudgetInv, NEW c \in Callers, NEW state \in {"held", "lost"}, Takes(c, state),
           NEW s \in 0..now,
           Cardinality(Out(s)) < Max,
           budget' = [start |-> s, count |-> Cardinality(Out(s)) + 1],
           budget # NoRow => budget.start <= s
    PROVE  BudgetInv'
<1> USE BudgetAssumption
<1>1. Cardinality(Out(s)) \in Nat /\ s \in Nat /\ now \in Nat
  BY OutIsFinite DEF BudgetInv, BudgetTypeOK
<1>2. /\ budget' \in [start : Nat, count : Nat] /\ budget' # NoRow
      /\ budget'.start = s /\ budget'.count = Cardinality(Out(s)) + 1
  BY <1>1
<1>3. BudgetTypeOK'
  BY <1>2 DEF Takes, BudgetInv, BudgetTypeOK, SlotStates
<1>4. c \notin Out(s)
  BY DEF Out, Takes
<1>5. /\ Out(s)' = Out(s) \cup {c}
      /\ \A w \in Nat : w # s => Out(w)' = Out(w)
  BY <1>2 DEF Out, Takes, BudgetInv, BudgetTypeOK
<1>6. Cardinality(Out(s)') = Cardinality(Out(s)) + 1
  BY <1>4, <1>5, OutIsFinite, FS_AddElement
<1>7. RowInv'
  <2>1. ASSUME NEW d \in Callers, slot'[d] # "none"
        PROVE  took'[d] <= s
    <3>1. CASE d = c
      BY <1>1, <1>2, <3>1 DEF Takes, BudgetInv, BudgetTypeOK
    <3>2. CASE d # c
      <4>1. budget # NoRow /\ took[d] <= budget.start /\ took'[d] = took[d]
        BY <2>1, <3>2 DEF Takes, BudgetInv, BudgetTypeOK, RowInv
      <4>2. took[d] \in Nat /\ budget.start \in Nat
        BY <4>1 DEF BudgetInv, BudgetTypeOK
      <4> QED
        BY <1>1, <4>1, <4>2
    <3> QED
      BY <3>1, <3>2
  <2>2. Out(budget.start)' = Out(s)'
    BY <1>2 DEF Out
  <2>3. budget'.count = Cardinality(Out(budget.start)') /\ budget'.count <= Max
    BY <1>1, <1>2, <1>6, <2>2
  <2>4. budget'.start <= now'
    BY <1>2 DEF Takes
  <2> QED
    BY <1>2, <2>1, <2>3, <2>4 DEF RowInv
<1>8. WindowsInv'
  <2>1. ASSUME NEW w \in Nat PROVE Cardinality(Out(w)') <= Max
    <3>1. CASE w = s
      BY <1>1, <1>6, <3>1
    <3>2. CASE w # s
      BY <1>5, <3>2 DEF BudgetInv, WindowsInv
    <3> QED
      BY <3>1, <3>2
  <2> QED
    BY <2>1 DEF WindowsInv, Out
<1> QED
  BY <1>3, <1>7, <1>8 DEF BudgetInv

\* A slot is taken only where there is room for it.
LEMMA Taking ==
    ASSUME BudgetInv, NEW c \in Callers, NEW state \in {"held", "lost"}, Takes(c, state)
    PROVE  BudgetInv'
<1> USE BudgetAssumption
<1>1. CASE Expired
  <2>1. budget' = [start |-> now, count |-> 1]
    BY <1>1 DEF Takes, Reserved
  <2>2. Cardinality(Out(now)) = 0
    BY <1>1, NewWindowIsEmpty, FS_EmptySet
  <2>3. now \in 0..now /\ (budget # NoRow => budget.start <= now)
    BY DEF BudgetInv, BudgetTypeOK, RowInv
  <2>4. 0 < Max
    BY BudgetAssumption
  <2> QED
    BY <2>1, <2>2, <2>3, <2>4, TakingInto
<1>2. CASE ~Expired
  <2>1. budget # NoRow /\ budget.count < Max
    BY <1>2 DEF Takes, HasRoom, Expired
  <2>2. budget \in [start : Nat, count : Nat]
    BY <2>1 DEF BudgetInv, BudgetTypeOK
  <2>3. budget' = [budget EXCEPT !.count = @ + 1]
    BY <1>2 DEF Takes, Reserved
  <2>4. /\ budget' = [start |-> budget.start, count |-> Cardinality(Out(budget.start)) + 1]
        /\ Cardinality(Out(budget.start)) < Max
        /\ budget.start \in 0..now
    BY <2>1, <2>2, <2>3 DEF BudgetInv, BudgetTypeOK, RowInv
  <2> QED
    BY <2>1, <2>4, TakingInto
<1> QED
  BY <1>1, <1>2

\* A slot given back was out, and leaves the count of its own window only.
LEMMA GivingBack ==
    ASSUME BudgetInv, NEW c \in Callers, Release(c)
    PROVE  BudgetInv'
<1> USE BudgetAssumption
<1>1. budget # NoRow /\ took[c] <= budget.start /\ c \in Out(took[c])
  BY DEF Release, BudgetInv, RowInv, Out
<1>2. budget \in [start : Nat, count : Nat]
  BY <1>1 DEF BudgetInv, BudgetTypeOK
<1>3. \A w : Out(w)' = Out(w) \ {c}
  BY DEF Out, Release, BudgetInv, BudgetTypeOK
<1>4. \A w : /\ Cardinality(Out(w)') = IF c \in Out(w) THEN Cardinality(Out(w)) - 1
                                                      ELSE Cardinality(Out(w))
             /\ Cardinality(Out(w)') \in Nat
  BY <1>3, OutIsFinite, FS_RemoveElement, FS_CardinalityType
<1>5. /\ budget' \in [start : Nat, count : Nat] /\ budget'.start = budget.start
      /\ budget'.count = IF took[c] = budget.start THEN budget.count - 1 ELSE budget.count
  <2>1. CASE took[c] = budget.start
    <3>1. budget.count = Cardinality(Out(budget.start)) /\ c \in Out(budget.start)
      BY <1>1, <2>1 DEF BudgetInv, RowInv
    <3>2. budget.count > 0
      BY <1>2, <1>4, <3>1
    <3> QED
      BY <1>2, <2>1, <3>2 DEF Release, GivenBack
  <2>2. CASE took[c] # budget.start
    BY <1>2, <2>2 DEF Release, GivenBack
  <2> QED
    BY <2>1, <2>2
<1>6. BudgetTypeOK'
  BY <1>5 DEF Release, BudgetInv, BudgetTypeOK, SlotStates
<1>7. RowInv'
  <2>1. c \in Out(budget.start) <=> took[c] = budget.start
    BY DEF Out, Release
  <2>2. budget'.count = Cardinality(Out(budget.start)')
    BY <1>1, <1>2, <1>4, <1>5, <2>1 DEF BudgetInv, RowInv
  <2>3. budget'.count <= Max /\ budget'.start <= now' /\ budget' # NoRow
    BY <1>1, <1>2, <1>5 DEF BudgetInv, RowInv, Release
  <2>4. \A d \in Callers : slot'[d] # "none" => took'[d] <= budget'.start
    BY <1>5 DEF Release, BudgetInv, RowInv, BudgetTypeOK
  <2> QED
    BY <1>5, <2>2, <2>3, <2>4 DEF RowInv, Out
<1>8. WindowsInv'
  <2>1. ASSUME NEW w \in Nat PROVE Cardinality(Out(w)') <= Max
    <3>1. Cardinality(Out(w)) \in Nat /\ Cardinality(Out(w)) <= Max
      BY OutIsFinite DEF BudgetInv, WindowsInv
    <3> QED
      BY <1>4, <3>1
  <2> QED
    BY <2>1 DEF WindowsInv, Out
<1> QED
  BY <1>6, <1>7, <1>8 DEF BudgetInv

\* Nothing else moves a slot in or out, and time only goes forward.
LEMMA Settling ==
    ASSUME BudgetInv,
           \/ \E c \in Callers : Keep(c)
           \/ \E S \in SUBSET Callers : Lose(S)
           \/ Advance
           \/ UNCHANGED budgetVars
    PROVE  BudgetInv'
<1>1. /\ budget' = budget /\ took' = took /\ now' \in Nat /\ now' >= now
      /\ slot' \in [Callers -> SlotStates]
      /\ \A c \in Callers : slot'[c] = "none" <=> slot[c] = "none"
  BY DEF Keep, Lose, Advance, budgetVars, BudgetInv, BudgetTypeOK, SlotStates
<1>2. \A w : Out(w)' = Out(w)
  BY <1>1 DEF Out
<1>3. BudgetTypeOK'
  BY <1>1 DEF BudgetInv, BudgetTypeOK
<1>4. RowInv'
  <2>1. budget # NoRow => budget.start \in Nat
    BY DEF BudgetInv, BudgetTypeOK
  <2>2. now \in Nat
    BY DEF BudgetInv, BudgetTypeOK
  <2>3. budget' # NoRow => budget'.start <= now'
    BY <1>1, <2>1, <2>2 DEF BudgetInv, RowInv
  <2> QED
    BY <1>1, <1>2, <2>3 DEF BudgetInv, RowInv
<1>5. WindowsInv'
  BY <1>2 DEF BudgetInv, WindowsInv
<1> QED
  BY <1>3, <1>4, <1>5 DEF BudgetInv

\* The invariant holds of every behaviour of the budget.
THEOREM BudgetInductive == BudgetSpec => []BudgetInv
<1>1. BudgetInit => BudgetInv
  <2> SUFFICES ASSUME BudgetInit PROVE BudgetInv
    OBVIOUS
  <2>1. \A w : Out(w) = {}
    BY DEF BudgetInit, Out
  <2>2. WindowsInv
    BY <2>1, FS_EmptySet, BudgetAssumption DEF WindowsInv
  <2> QED
    BY <2>2 DEF BudgetInit, BudgetInv, BudgetTypeOK, RowInv, SlotStates
<1>2. BudgetInv /\ [BudgetNext]_budgetVars => BudgetInv'
  <2> SUFFICES ASSUME BudgetInv, [BudgetNext]_budgetVars PROVE BudgetInv'
    OBVIOUS
  <2>1. ASSUME NEW c \in Callers, Reserve(c) PROVE BudgetInv'
    BY <2>1, Taking DEF Reserve, Takes
  <2>2. ASSUME NEW c \in Callers, ReserveUnheard(c) PROVE BudgetInv'
    BY <2>2, Taking DEF ReserveUnheard, Takes
  <2>3. ASSUME NEW c \in Callers, Release(c) PROVE BudgetInv'
    BY <2>3, GivingBack
  <2> QED
    BY <2>1, <2>2, <2>3, Settling DEF BudgetNext
<1> QED
  BY <1>1, <1>2, PTL DEF BudgetSpec

-----------------------------------------------------------------------------
(* authd on top of it.                                                     *)

\* Whatever authd does to the budget, the budget allows: every step of a pod, of
\* Clerk or of the clock is a step of the budget's specification or leaves it be.
THEOREM BindsImplementBudget == Spec => BudgetSpec
<1>1. Init => BudgetInit
  BY DEF Init
<1>2. [Next]_vars => [BudgetNext]_budgetVars
  <2> SUFFICES ASSUME [Next]_vars PROVE [BudgetNext]_budgetVars
    OBVIOUS
  <2>1. ASSUME NEW b \in Binds, Handler(b) PROVE UNCHANGED budgetVars
    BY <2>1 DEF Handler, ReadRow, Lookup, Join, Deadline
  <2>2. ASSUME NEW f \in Binds, Verification(f) PROVE [BudgetNext]_budgetVars
    <3>1. CASE Admit(f)
      BY <3>1 DEF Admit
    <3>2. CASE TakeSlot(f)
      BY <3>2 DEF TakeSlot, BudgetNext, Binds
    <3>3. CASE Verify(f)
      BY <3>3 DEF Verify
    <3>4. ASSUME GiveBack(f) PROVE [BudgetNext]_budgetVars
      <4>1. {f} \in SUBSET Callers
        BY DEF Binds
      <4> QED
        BY <3>4, <4>1 DEF GiveBack, BudgetNext, Binds
    <3>5. CASE Succeed(f)
      BY <3>4, <3>5 DEF Succeed
    <3>6. CASE Reject(f)
      BY <3>6 DEF Reject, BudgetNext, Binds
    <3>7. CASE Silent(f)
      BY <3>4, <3>7 DEF Silent
    <3>8. CASE Panic(f)
      <4>1. {f} \in SUBSET Callers /\ Lose({f})
        BY <3>8 DEF Panic, Binds
      <4> QED
        BY <4>1 DEF BudgetNext
    <3> QED
      BY <2>2, <3>1, <3>2, <3>3, <3>5, <3>6, <3>7, <3>8 DEF Verification
  <2>3. ASSUME NEW p \in Pods, Restart(p) PROVE BudgetNext
    <3>1. {b \in Binds : bind[b].pod = p} \in SUBSET Callers
      BY DEF Binds
    <3> QED
      BY <2>3, <3>1 DEF Restart, BudgetNext
  <2>4. CASE Tick
    BY <2>4 DEF Tick, BudgetNext
  <2>5. CASE ClerkSide
    BY <2>5 DEF ClerkSide
  <2>6. CASE UNCHANGED vars
    BY <2>6 DEF vars
  <2> QED
    BY <2>1, <2>2, <2>3, <2>4, <2>5, <2>6 DEF Next
<1> QED
  BY <1>1, <1>2, PTL DEF Spec, BudgetSpec

\* No window ever has more than Max slots out, whatever fails, is late, or dies.
THEOREM BudgetHolds == Spec => []WithinBudget
<1>1. BudgetInv => WithinBudget
  BY DEF BudgetInv, BudgetTypeOK, WindowsInv, WithinBudget
<1> QED
  BY <1>1, BudgetInductive, BindsImplementBudget, PTL

\* The count in the row is what is out of its window, no more and no less.
THEOREM BudgetIsExact == Spec => []SlotsAccounted
<1>1. BudgetInv => SlotsAccounted
  BY DEF BudgetInv, RowInv, SlotsAccounted
<1> QED
  BY <1>1, BudgetInductive, BindsImplementBudget, PTL
=============================================================================
