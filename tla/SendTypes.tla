----------------------------- MODULE SendTypes ------------------------------
(***************************************************************************)
(* The sets and parameters the modules of the send path share.             *)
(***************************************************************************)
EXTENDS Naturals, FiniteSets

CONSTANTS
    Messages,   \* ids of the rows of core.messages that can ever exist
    Requests,   \* calls of acceptSend
    MsgsOf,     \* the messages each request would write
    DueTime,    \* scheduled_at of each message, in ticks; 0 is "now"
    MaxTime,    \* BOUND: the clock stops here, after every DueTime
    Procs,      \* worker processes: the values of claimed_by
    Slots,      \* batches a worker can hold at a time, of all the processes
    ProcOf,     \* the process each slot belongs to
    Jobs,       \* BOUND: how many jobs the queue can hold at a time
    BatchSize,  \* SWEEP_BATCH_SIZE
    None        \* no process, no slot, no provider id: SQL's null

ASSUME MsgsOfAssumption ==
    /\ MsgsOf \in [Requests -> SUBSET Messages]
    /\ \A r, q \in Requests : r # q => MsgsOf[r] \cap MsgsOf[q] = {}
ASSUME TimeAssumption == MaxTime \in Nat /\ DueTime \in [Messages -> 0..MaxTime]
ASSUME ProcOfAssumption == ProcOf \in [Slots -> Procs]
ASSUME BatchSizeAssumption == BatchSize \in Nat \ {0}
ASSUME NoneAssumption == None \notin Procs /\ None \notin Slots
=============================================================================
