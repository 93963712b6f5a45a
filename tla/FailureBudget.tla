--------------------------- MODULE FailureBudget ---------------------------
(***************************************************************************)
(* The failure budget of one account (authd/internal/budgetstore).         *)
(*                                                                         *)
(* Some providers lock the real account after a few wrong passwords, so    *)
(* authd counts what it forwards to them, in one database row shared by    *)
(* every pod: at most Max slots are taken in a window, a slot is taken     *)
(* before the password is forwarded and given back when the provider did   *)
(* not count a failure.  A caller is one verification.  Time is the        *)
(* database's now(), in ticks of which a window lasts several.             *)
(***************************************************************************)
EXTENDS Integers, FiniteSets

CONSTANTS
    Callers,
    Max,            \* Budget.Max
    Window,         \* Budget.Window, in ticks
    NoRow           \* no row for this account yet

ASSUME BudgetAssumption ==
    /\ IsFiniteSet(Callers)
    /\ Max \in Nat \ {0}
    /\ Window \in Nat \ {0}
    /\ NoRow \notin [start : Nat, count : Nat]

VARIABLES
    now,        \* the database's clock
    budget,     \* authd.bind_failure_budget: window_start and count
    slot,       \* where each caller's slot is
    took        \* the window_start its reservation returned

budgetVars == <<now, budget, slot, took>>

\* held: reserved, and not yet settled.  kept: the provider said no.  lost: the
\* release failed, or whoever held the slot died.
SlotStates == {"none", "held", "kept", "lost"}

BudgetTypeOK ==
    /\ now \in Nat
    /\ budget \in [start : Nat, count : Nat] \cup {NoRow}
    /\ slot \in [Callers -> SlotStates]
    /\ took \in [Callers -> Nat]

BudgetInit ==
    /\ now = 0
    /\ budget = NoRow
    /\ slot = [c \in Callers |-> "none"]
    /\ took = [c \in Callers |-> 0]

\* No row, or a window that has run out: the next reservation opens one.
Expired == IF budget = NoRow THEN TRUE ELSE budget.start + Window <= now

\* A bug: a window at its limit takes one more.
HasRoomForOneMore == IF Expired THEN TRUE ELSE budget.count <= Max

\* The insert finds no row, or the update's WHERE holds.
HasRoom == IF Expired THEN TRUE ELSE budget.count < Max

Reserved ==
    IF Expired
      THEN [start |-> now, count |-> 1]
      ELSE [budget EXCEPT !.count = @ + 1]

\* reserveSQL returned a row: the caller holds a slot of the window it names.
Reserve(c) ==
    /\ slot[c] = "none"
    /\ HasRoom
    /\ budget' = Reserved
    /\ slot' = [slot EXCEPT ![c] = "held"]
    /\ took' = [took EXCEPT ![c] = budget'.start]
    /\ UNCHANGED now

\* The statement committed and its answer was lost: nobody knows of the slot.
ReserveUnheard(c) ==
    /\ slot[c] = "none"
    /\ HasRoom
    /\ budget' = Reserved
    /\ slot' = [slot EXCEPT ![c] = "lost"]
    /\ took' = [took EXCEPT ![c] = budget'.start]
    /\ UNCHANGED now

\* A bug: the release forgets which window the slot was taken in.
GivenBackToAny(w) == [budget EXCEPT !.count = IF @ > 0 THEN @ - 1 ELSE 0]

\* The row after releaseSQL: floored at zero, and only in the slot's own window.
GivenBack(w) ==
    IF budget.start = w
      THEN [budget EXCEPT !.count = IF @ > 0 THEN @ - 1 ELSE 0]
      ELSE budget

Release(c) ==
    /\ slot[c] = "held"
    /\ budget' = GivenBack(took[c])
    /\ slot' = [slot EXCEPT ![c] = "none"]
    /\ took' = [took EXCEPT ![c] = 0]
    /\ UNCHANGED now

\* The provider counted a failure: the slot stays spent.
Keep(c) ==
    /\ slot[c] = "held"
    /\ slot' = [slot EXCEPT ![c] = "kept"]
    /\ UNCHANGED <<now, budget, took>>

\* Slots nobody will give back: a failed release, or a process that is gone.
Lose(S) ==
    /\ slot' = [c \in Callers |->
                  IF c \in S /\ slot[c] = "held" THEN "lost" ELSE slot[c]]
    /\ UNCHANGED <<now, budget, took>>

Advance ==
    /\ now' = now + 1
    /\ UNCHANGED <<budget, slot, took>>

BudgetNext ==
    \/ \E c \in Callers : Reserve(c) \/ ReserveUnheard(c) \/ Release(c) \/ Keep(c)
    \/ \E S \in SUBSET Callers : Lose(S)
    \/ Advance

BudgetSpec == BudgetInit /\ [][BudgetNext]_budgetVars

-----------------------------------------------------------------------------
\* The slots of window w that are out: held, kept, or never coming back.
Out(w) == {c \in Callers : slot[c] # "none" /\ took[c] = w}

\* In no window, past or present, are more than Max slots out, whichever pods
\* took them and however late they are given back: what reserveSQL promises.
WithinBudget == \A w \in 0..now : Cardinality(Out(w)) <= Max

\* The row's count is exactly what is out of its window: a slot is neither
\* forgotten nor given back twice, so the budget does not erode either.
SlotsAccounted ==
    budget # NoRow => budget.count = Cardinality(Out(budget.start))
=============================================================================
