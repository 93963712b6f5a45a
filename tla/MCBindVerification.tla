------------------------- MODULE MCBindVerification -------------------------
EXTENDS BindVerification, TLC

CONSTANT p1

\* Binds are interchangeable.
Symmetry == Permutations(Binds)

\* Three regions: two pods and a fault, of a person nothing changes about; one
\* pod and no fault, of a person whose record and epoch change; and a record that
\* changes more often, between binds.
Steady == Len(clerk) = 1 /\ raises = 0
Changing == faults = 0 /\ \A b \in Binds : bind[b].pod = p1
Restless == \A b \in Binds : bind[b].phase = "new"

Regions == Steady \/ (Changing /\ Len(clerk) <= 2) \/ (Changing /\ Restless)
=============================================================================
