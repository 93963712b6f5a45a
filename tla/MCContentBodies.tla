--------------------------- MODULE MCContentBodies ---------------------------
EXTENDS ContentBodies

CONSTANTS b1, b2, h1, h2, p1, p2

\* b1 has two files; the first is also the logo in the html of b2.
AttachedDef == [b \in Bodies |-> IF b = b1 THEN {h1, h2} ELSE {}]
InlinedDef == [b \in Bodies |-> IF b = b1 THEN {} ELSE {h1}]

NoTemplates == \A f \in Forms : template[f] = NoTemplate
NoPacks == /\ \A p \in Packs : packRow[p] = "none"
           /\ \A j \in Jobs : pass[j].step # "seal"

\* Files and images move, are named and are swept; the html stays in its row.  No fair
\* step need lead out of here, so this is where EventuallyFreed is checked.
Moving == NoTemplates /\ NoPacks /\ past = {}

\* The html moves, images go to R2, and no object goes stale.
Rewriting ==
    /\ stored = {} /\ doomed = {} /\ past \subseteq {b2}
    /\ \A h \in Hashes : row[h] # "stale"
    /\ \A j \in Jobs : job[j] # Idle => job[j].part = "html"
    /\ \/ faults = 0 /\ packRow[p2] = "none" /\ template["whole"] = NoTemplate
       \/ faults < 2 /\ NoPacks
       \/ faults < 2 /\ NoTemplates /\ (faults = 1 => packRow[p2] = "none")

Regions == Moving \/ Rewriting
=============================================================================
