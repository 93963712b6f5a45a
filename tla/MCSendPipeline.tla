--------------------------- MODULE MCSendPipeline ---------------------------
EXTENDS SendPipeline, TLC

CONSTANTS m1, r1, s1, s2, j1, j2

MCOneMessage == (r1 :> {m1})

MCAllNow == [m \in Messages |-> 0]
MCAllLater == [m \in Messages |-> 1]

\* WORKER_BATCH_CONCURRENCY = 1: every slot is a process.
MCOneSlotEach == [s \in Slots |-> s]

JobSymmetry == Permutations(Jobs)
=============================================================================
