------------------------ MODULE ContentBodiesProofs ------------------------
(***************************************************************************)
(* Proofs about where the bodies are: whatever runs of the content job     *)
(* overlap, a body that left its row is in a pack in R2, or renders from a *)
(* template that is there to the html it had - but for a link that one run *)
(* takes away while another counts on it, and no run does that when there  *)
(* is never more than one.                                                 *)
(***************************************************************************)
EXTENDS ContentProofs

\* What a run read of a body that is kept is what it was: images only ever leave.
ReadsOnce ==
    \A j \in Jobs : \A b \in DOMAIN pass[j].read :
       b \in kept /\ pass[j].read[b] = "refs" => b \in lifted

\* A run that matches or promotes has one body in hand.
OneBody ==
    \A j \in Jobs : pass[j].step \in {"match", "promote"} =>
       \E b \in Bodies : DOMAIN pass[j].read = {b}

\* Images are moved out of the html on the way to a match.
LiftMatches == \A j \in Jobs : job[j] # Idle /\ job[j].part = "html" => pass[j].step = "match"

\* A linked body's template is the one of the html it was linked as.
LinkHasTemplate ==
    \A b \in kept : link[b] # Unlinked => template[link[b].form].id = link[b].id

\* What a promotion found exact still is, or was undone.
ExactStands ==
    \A j \in Jobs : pass[j].step = "promote" /\ pass[j].exact =>
       \A b \in DOMAIN pass[j].read : Same(j, b) => b \in undone \/ Linked(b)

\* A released original has its link, or was undone.
ReleasedHasLink == \A b \in kept : at[b] = "template" => b \in undone \/ Linked(b)

\* The pack a run fills is its own and fresh, and is in R2 before a body is released.
PackIsFresh ==
    \A j \in Jobs :
      /\ pass[j].step \in {"put", "release"} =>
           pass[j].pack \in Packs /\ packRow[pass[j].pack] = "fresh"
      /\ pass[j].step = "release" => pass[j].pack \in packed

\* The sweep takes stale packs that no body is in.
SweptIsUnused ==
    \A p \in packsDoomed : packRow[p] = "stale" /\ \A b \in kept : pack[b] # p

\* A pack that a body is in has its row and is in R2.
PackIsThere ==
    \A b \in kept : pack[b] # Nothing =>
      pack[b] \in packed /\ packRow[pack[b]] \in {"fresh", "stale"}

BodiesInv ==
    /\ ObjectsTypeOK
    /\ BodiesTypeOK
    /\ ReadsOnce /\ OneBody /\ LiftMatches
    /\ LinkHasTemplate /\ ExactStands /\ ReleasedHasLink
    /\ PackIsFresh /\ SweptIsUnused /\ PackIsThere

PassRecords == [step : Passes \cup {"none"}, read : Reads, exact : BOOLEAN,
                pack : Packs \cup {Nothing}]

LEMMA NoPassType == NoPass \in PassRecords /\ DOMAIN NoPass.read = {} /\ NoPass.step = "none"
<1>1. [b \in {} |-> "whole"] \in Reads
  BY DEF Reads, Forms
<1>. QED  BY <1>1 DEF NoPass, PassRecords, Passes

LEMMA ReadOfType ==
    ASSUME NEW S \in SUBSET Bodies
    PROVE  /\ ReadOf(S) \in Reads /\ DOMAIN ReadOf(S) = S
           /\ \A b \in S : ReadOf(S)[b] = Form(b)
<1>1. ReadOf(S) \in [S -> Forms]
  BY DEF ReadOf, Form, Forms
<1>. QED  BY <1>1 DEF Reads, ReadOf

\* The initial state.
LEMMA BodiesInitInv == Init => BodiesInv
<1> SUFFICES ASSUME Init PROVE BodiesInv
  OBVIOUS
<1>1. ObjectsTypeOK
  BY ObjectsInitInv DEF Init, ObjectsInv
<1>2. BodiesTypeOK
  <2>1. pass \in [Jobs -> PassRecords]
    BY NoPassType DEF Init
  <2>2. /\ Unlinked \in Links \cup {Unlinked}
        /\ NoTemplate \in [id : TemplateIds, messages : 1..PromoteAt, age : {"fresh", "stale"}]
                            \cup {NoTemplate}
    OBVIOUS
  <2>3. /\ link \in [Bodies -> Links \cup {Unlinked}]
        /\ template \in [Forms -> [id : TemplateIds, messages : 1..PromoteAt,
                                   age : {"fresh", "stale"}] \cup {NoTemplate}]
    BY <2>2 DEF Init
  <2>. QED  BY <2>1, <2>3, BodiesAssumption DEF Init, ObjectsInit, BodiesTypeOK, PassRecords, Ages
<1>3. ReadsOnce /\ OneBody /\ LiftMatches /\ ExactStands /\ PackIsFresh
  BY NoPassType DEF Init, ObjectsInit, ReadsOnce, OneBody, LiftMatches, ExactStands, PackIsFresh
<1>4. LinkHasTemplate /\ ReleasedHasLink /\ SweptIsUnused /\ PackIsThere
  <2>1. \A b \in kept : link[b] = Unlinked /\ at[b] = "row" /\ pack[b] = Nothing
    BY DEF Init, ObjectsInit
  <2>. QED  BY <2>1 DEF Init, LinkHasTemplate, ReleasedHasLink, SweptIsUnused, PackIsThere
<1>. QED  BY <1>1, <1>2, <1>3, <1>4 DEF BodiesInv

-----------------------------------------------------------------------------
(* What a run reads and drops *)

\* A run takes up or drops what it reads: nothing else of the bodies moves.
LEMMA PassMoves ==
    ASSUME BodiesInv, ObjectsTypeOK', NEW j \in Jobs,
           pass' \in [Jobs -> PassRecords],
           \A i \in Jobs \ {j} : pass'[i] = pass[i],
           UNCHANGED <<kept, lifted, at, link, examined, past, pack, template, packRow, packed,
                       packsDoomed, packsDeleted, undone>>,
           LiftMatches',
           \A b \in DOMAIN pass'[j].read : pass'[j].read[b] = "refs" /\ b \in kept => b \in lifted,
           pass'[j].step \in {"match", "promote"} => \E b \in Bodies : DOMAIN pass'[j].read = {b},
           pass'[j].step = "promote" /\ pass'[j].exact =>
              \A b \in DOMAIN pass'[j].read : b \in undone \/ Linked(b),
           pass'[j].step \notin {"put", "release"}
    PROVE  BodiesInv'
<1>1. BodiesTypeOK'
  BY DEF BodiesInv, BodiesTypeOK, PassRecords
<1>2. ReadsOnce'
  BY DEF BodiesInv, ReadsOnce
<1>3. OneBody'
  BY DEF BodiesInv, OneBody
<1>4. ExactStands'
  BY DEF BodiesInv, ExactStands, Same, Linked, Form
<1>5. PackIsFresh'
  BY DEF BodiesInv, PackIsFresh
<1>6. LinkHasTemplate' /\ SweptIsUnused' /\ PackIsThere'
  BY DEF BodiesInv, LinkHasTemplate, SweptIsUnused, PackIsThere
<1>7. ReleasedHasLink'
  BY DEF BodiesInv, ReleasedHasLink, Linked, Form
<1>. QED  BY <1>1, <1>2, <1>3, <1>4, <1>5, <1>6, <1>7 DEF BodiesInv

\* What a run begins to read.
LEMMA BeginsPass ==
    ASSUME BodiesTypeOK, NEW j \in Jobs, NEW step \in Passes, NEW S \in SUBSET Bodies,
           pass[j] = NoPass, Begins(j, step, S)
    PROVE  /\ pass' \in [Jobs -> PassRecords]
           /\ \A i \in Jobs \ {j} : pass'[i] = pass[i]
           /\ pass'[j].step = step /\ pass'[j].read = ReadOf(S)
<1>1. pass \in [Jobs -> PassRecords]
  BY DEF BodiesTypeOK, PassRecords
<1>2. ReadOf(S) \in Reads
  BY ReadOfType
<1>. QED  BY <1>1, <1>2 DEF Begins, PassRecords

\* A run has done with what it read.
LEMMA EndsPass ==
    ASSUME BodiesTypeOK, NEW j \in Jobs, Ends(j)
    PROVE  /\ pass' \in [Jobs -> PassRecords]
           /\ \A i \in Jobs \ {j} : pass'[i] = pass[i]
           /\ pass'[j] = NoPass
BY NoPassType DEF Ends, BodiesTypeOK, PassRecords

\* A run that stops leaves the bodies as they are.
LEMMA DropsInv ==
    ASSUME BodiesInv, ObjectsTypeOK', NEW j \in Jobs, Ends(j),
           UNCHANGED <<kept, lifted, at, link, examined, past, pack, template, packRow, packed,
                       packsDoomed, packsDeleted, undone>>,
           \A i \in Jobs \ {j} : job'[i] = job[i],
           job'[j] = Idle
    PROVE  BodiesInv'
<1>1. /\ pass' \in [Jobs -> PassRecords]
      /\ \A i \in Jobs \ {j} : pass'[i] = pass[i]
      /\ pass'[j] = NoPass
  BY EndsPass DEF BodiesInv
<1>2. LiftMatches'
  BY <1>1 DEF BodiesInv, LiftMatches
<1>. QED  BY <1>1, <1>2, NoPassType, PassMoves

\* The bodies are left alone.
LEMMA BodiesStay ==
    ASSUME BodiesInv, ObjectsTypeOK', UNCHANGED bodyVars, UNCHANGED <<kept, lifted>>, LiftMatches'
    PROVE  BodiesInv'
<1> USE DEF bodyVars
<1>1. BodiesTypeOK'
  BY DEF BodiesInv, BodiesTypeOK
<1>2. (ReadsOnce /\ OneBody /\ LinkHasTemplate /\ PackIsFresh /\ SweptIsUnused /\ PackIsThere)'
  BY DEF BodiesInv, ReadsOnce, OneBody, LinkHasTemplate, PackIsFresh, SweptIsUnused, PackIsThere
<1>3. ExactStands' /\ ReleasedHasLink'
  BY DEF BodiesInv, ExactStands, ReleasedHasLink, Same, Linked, Form
<1>. QED  BY <1>1, <1>2, <1>3 DEF BodiesInv

-----------------------------------------------------------------------------
(* Compaction *)

LEMMA StoresInv ==
    ASSUME BodiesInv, ObjectsTypeOK', NEW j \in Jobs, Stores(j)
    PROVE  BodiesInv'
<1>1. UNCHANGED bodyVars
  BY DEF Stores
<1>2. UNCHANGED <<kept, lifted>>
  <2>1. CASE StoreStep(j)
    BY <2>1 DEF StoreStep, StoreReads, Touch, Put, Insert
  <2>2. CASE job[j] # Idle /\ job[j].part = "files" /\ Rewrite(j, Holds(j))
    BY <2>2 DEF Rewrite
  <2>. QED  BY <2>1, <2>2 DEF Stores
<1>3. \A i \in Jobs \ {j} : job'[i] = job[i]
  <2>1. job \in [Jobs -> Moves \cup {Idle}]
    BY DEF BodiesInv, ObjectsTypeOK
  <2>2. CASE StoreStep(j)
    BY <2>1, <2>2 DEF StoreStep, StoreReads, Begin, Touch, Touched, Put, Insert
  <2>3. CASE Rewrite(j, Holds(j))
    BY <2>1, <2>3 DEF Rewrite
  <2>. QED  BY <2>2, <2>3 DEF Stores
<1>4. job'[j] # Idle /\ job'[j].part = "html" => job[j] # Idle /\ job[j].part = "html"
  <2>1. job \in [Jobs -> Moves \cup {Idle}]
    BY DEF BodiesInv, ObjectsTypeOK
  <2>2. CASE \E b \in Bodies : StoreReads(j, b)
    BY <2>1, <2>2 DEF StoreReads, Begin
  <2>3. CASE Touch(j)
    BY <2>1, <2>3 DEF Touch, Touched, Moves
  <2>4. CASE Put(j)
    BY <2>1, <2>4 DEF Put, Past, Moves
  <2>5. CASE Insert(j)
    BY <2>1, <2>5 DEF Insert, Past, Moves
  <2>6. CASE Rewrite(j, Holds(j))
    BY <2>1, <2>6 DEF Rewrite
  <2>. QED  BY <2>2, <2>3, <2>4, <2>5, <2>6 DEF Stores, StoreStep
<1>5. LiftMatches'
  BY <1>1, <1>3, <1>4 DEF BodiesInv, LiftMatches, bodyVars
<1>. QED  BY <1>1, <1>2, <1>5, BodiesStay

LEMMA CompactReadsInv ==
    ASSUME BodiesInv, ObjectsTypeOK', NEW j \in Jobs, CompactReads(j)
    PROVE  BodiesInv'
<1>1. PICK b \in Bodies : Begins(j, "match", {b})
  <2>1. kept \subseteq Bodies
    BY DEF BodiesInv, ObjectsTypeOK
  <2>. QED  BY <2>1 DEF CompactReads, Twins
<1>2. /\ pass' \in [Jobs -> PassRecords]
      /\ \A i \in Jobs \ {j} : pass'[i] = pass[i]
      /\ pass'[j].step = "match" /\ pass'[j].read = ReadOf({b})
  BY <1>1, BeginsPass DEF CompactReads, Free, BodiesInv, Passes
<1>3. UNCHANGED <<kept, lifted>> /\ \A i \in Jobs \ {j} : job'[i] = job[i]
  <2>1. job \in [Jobs -> Moves \cup {Idle}]
    BY DEF BodiesInv, ObjectsTypeOK
  <2>2. (\E c \in Bodies : LiftReads(j, c)) \/ UNCHANGED objectVars
    BY DEF CompactReads
  <2>. QED  BY <2>1, <2>2 DEF LiftReads, Begin, objectVars
<1>4. LiftMatches'
  BY <1>2, <1>3 DEF BodiesInv, LiftMatches
<1>5. DOMAIN pass'[j].read = {b} /\ pass'[j].read[b] = Form(b)
  BY <1>2, ReadOfType
<1>6. pass'[j].read[b] = "refs" => b \in lifted
  BY <1>5 DEF Form
<1>7. UNCHANGED <<at, link, examined, past, pack, template, packRow, packed,
                  packsDoomed, packsDeleted, undone>>
  BY DEF CompactReads
<1>. QED  BY <1>2, <1>3, <1>4, <1>5, <1>6, <1>7, PassMoves

LEMMA PackReadsInv ==
    ASSUME BodiesInv, ObjectsTypeOK', NEW j \in Jobs, PackReads(j)
    PROVE  BodiesInv'
<1>1. PICK S \in SUBSET Bodies : Begins(j, "seal", S)
  BY DEF PackReads, BodiesInv, ObjectsTypeOK
<1>2. /\ pass' \in [Jobs -> PassRecords]
      /\ \A i \in Jobs \ {j} : pass'[i] = pass[i]
      /\ pass'[j].step = "seal" /\ pass'[j].read = ReadOf(S)
  BY <1>1, BeginsPass DEF PackReads, Free, BodiesInv, Passes
<1>3. UNCHANGED <<kept, lifted, job>> /\ job[j] = Idle
  BY DEF PackReads, Free, objectVars
<1>4. LiftMatches'
  BY <1>2, <1>3 DEF BodiesInv, LiftMatches
<1>5. \A b \in DOMAIN pass'[j].read : pass'[j].read[b] = "refs" => b \in lifted
  BY <1>2, ReadOfType DEF Form
<1>6. UNCHANGED <<at, link, examined, past, pack, template, packRow, packed,
                  packsDoomed, packsDeleted, undone>>
  BY DEF PackReads
<1>. QED  BY <1>2, <1>3, <1>4, <1>5, <1>6, PassMoves

LEMMA PromoteReadsInv ==
    ASSUME BodiesInv, ObjectsTypeOK', NEW j \in Jobs, PromoteReads(j)
    PROVE  BodiesInv'
<1>1. PICK b \in kept :
         /\ link[b] # Unlinked
         /\ pass' = [pass EXCEPT ![j].step = "promote", ![j].read = ReadOf({b}),
                                 ![j].exact = link[b].form = Form(b)]
  BY DEF PromoteReads
<1>2. b \in Bodies /\ ReadOf({b}) \in Reads /\ (link[b].form = Form(b)) \in BOOLEAN
  BY ReadOfType DEF BodiesInv, ObjectsTypeOK
<1>. DEFINE exact == link[b].form = Form(b)
<1>3. exact \in BOOLEAN /\ pass' = [pass EXCEPT ![j].step = "promote", ![j].read = ReadOf({b}),
                                              ![j].exact = exact]
  BY <1>1
<1>4. exact => Linked(b)
  BY <1>1 DEF Linked
<1>. HIDE DEF exact
<1>5. pass \in [Jobs -> PassRecords]
  BY DEF BodiesInv, BodiesTypeOK, PassRecords
<1>. DEFINE next == [pass[j] EXCEPT !.step = "promote", !.read = ReadOf({b}), !.exact = exact]
<1>6. pass[j] \in PassRecords
  BY <1>5
<1>7. next \in PassRecords
  BY <1>2, <1>3, <1>6 DEF PassRecords, Passes
<1>8. next.step = "promote" /\ next.read = ReadOf({b}) /\ next.exact = exact
  BY <1>6 DEF PassRecords
<1>9. pass' = [pass EXCEPT ![j] = next]
  BY <1>3, <1>5 DEF PassRecords
<1>. HIDE DEF next
<1>10. /\ pass' \in [Jobs -> PassRecords]
       /\ \A i \in Jobs \ {j} : pass'[i] = pass[i]
  BY <1>7, <1>9, <1>5
<1>11. pass'[j].step = "promote" /\ pass'[j].read = ReadOf({b}) /\ pass'[j].exact = exact
  BY <1>8, <1>9, <1>5
<1>12. DOMAIN pass'[j].read = {b} /\ pass'[j].read[b] = Form(b)
  BY <1>2, <1>11, ReadOfType
<1>13. UNCHANGED <<kept, lifted, job>> /\ job[j] = Idle
  BY DEF PromoteReads, Free, objectVars
<1>14. LiftMatches'
  BY <1>10, <1>13 DEF BodiesInv, LiftMatches
<1>15. pass'[j].read[b] = "refs" => b \in lifted
  BY <1>12 DEF Form
<1>16. UNCHANGED <<at, link, examined, past, pack, template, packRow, packed,
                   packsDoomed, packsDeleted, undone>>
  BY DEF PromoteReads
<1>. QED  BY <1>2, <1>4, <1>10, <1>11, <1>12, <1>13, <1>14, <1>15, <1>16, PassMoves

\* A promotion or a match has one body in hand.
LEMMA ItsBody ==
    ASSUME BodiesInv, NEW j \in Jobs, pass[j].step \in {"match", "promote"}
    PROVE  Its(j) \in Bodies /\ DOMAIN pass[j].read = {Its(j)}
BY DEF BodiesInv, OneBody, Its

\* The html is rewritten: what any run read of the body before is no longer what it holds.
LEMMA LiftsInv ==
    ASSUME BodiesInv, ObjectsTypeOK', NEW j \in Jobs, Lifts(j)
    PROVE  BodiesInv'
<1>. DEFINE b == job[j].body
            same == Holds(j) /\ Same(j, b)
<1>0. /\ pass \in [Jobs -> PassRecords] /\ job \in [Jobs -> Moves \cup {Idle}]
      /\ b \in Bodies /\ kept \subseteq Bodies
  BY DEF BodiesInv, BodiesTypeOK, PassRecords, ObjectsTypeOK, Lifts, Moves
<1>1. /\ UNCHANGED kept /\ lifted' = IF same THEN lifted \cup {b} ELSE lifted
      /\ job' = [job EXCEPT ![j] = Idle]
  BY DEF Lifts, Rewrite
<1>2. /\ UNCHANGED <<at, link, examined, past, pack, template, packRow, packed,
                     packsDoomed, packsDeleted, undone>>
      /\ pass' = IF same THEN [pass EXCEPT ![j].read[b] = "refs"] ELSE pass
  BY DEF Lifts
<1>3. same => b \notin lifted /\ b \in kept /\ at[b] = "row"
  BY DEF Holds, Same, Lifts
<1>4. pass[j].step = "match"
  BY DEF Lifts, BodiesInv, LiftMatches
<1>. HIDE DEF b, same
<1>5. /\ pass' \in [Jobs -> PassRecords]
      /\ \A i \in Jobs \ {j} : pass'[i] = pass[i]
      /\ pass'[j].step = "match" /\ DOMAIN pass'[j].read = DOMAIN pass[j].read
      /\ \A c \in DOMAIN pass[j].read : pass'[j].read[c] = IF same /\ c = b THEN "refs"
                                                           ELSE pass[j].read[c]
  <2>1. CASE ~same
    BY <1>0, <1>2, <1>4, <2>1
  <2>2. CASE same
    <3>. DEFINE read == [pass[j].read EXCEPT ![b] = "refs"]
                next == [pass[j] EXCEPT !.read = read]
    <3>0. pass[j] \in PassRecords /\ pass[j].read \in Reads
      BY <1>0 DEF PassRecords
    <3>1. PICK S \in SUBSET Bodies : pass[j].read \in [S -> Forms]
      BY <3>0 DEF Reads
    <3>2. read \in [S -> Forms] /\ DOMAIN read = DOMAIN pass[j].read
      BY <3>1 DEF Forms
    <3>3. \A c \in DOMAIN pass[j].read : read[c] = IF c = b THEN "refs" ELSE pass[j].read[c]
      BY <3>1
    <3>4. read \in Reads
      BY <3>2 DEF Reads
    <3>5. pass' = [pass EXCEPT ![j] = next]
      BY <1>0, <1>2, <2>2, <3>0 DEF PassRecords
    <3>. HIDE DEF read
    <3>6. next \in PassRecords /\ next.step = "match" /\ next.read = read
      BY <1>4, <3>0, <3>4 DEF PassRecords
    <3>. HIDE DEF next
    <3>7. /\ pass' \in [Jobs -> PassRecords]
          /\ \A i \in Jobs \ {j} : pass'[i] = pass[i]
          /\ pass'[j] = next
      BY <1>0, <3>5, <3>6
    <3>. QED  BY <2>2, <3>2, <3>3, <3>6, <3>7
  <2>. QED  BY <2>1, <2>2
<1>6. BodiesTypeOK'
  BY <1>1, <1>2, <1>5 DEF BodiesInv, BodiesTypeOK, PassRecords
<1>7. ReadsOnce'
  <2>1. lifted \subseteq lifted' /\ (same => b \in lifted')
    BY <1>1
  <2>. QED  BY <1>1, <1>5, <2>1 DEF BodiesInv, ReadsOnce
<1>8. OneBody'
  <2>1. \A i \in Jobs : pass'[i].step = pass[i].step /\ DOMAIN pass'[i].read = DOMAIN pass[i].read
    BY <1>4, <1>5
  <2>. QED  BY <2>1 DEF BodiesInv, OneBody
<1>9. LiftMatches'
  BY <1>0, <1>1, <1>5 DEF BodiesInv, LiftMatches
<1>10. \A c \in kept : Form(c)' = IF same /\ c = b THEN "refs" ELSE Form(c)
  BY <1>1 DEF Form
<1>11. ExactStands'
  <2> SUFFICES ASSUME NEW i \in Jobs, pass'[i].step = "promote", pass'[i].exact,
                      NEW c \in DOMAIN pass'[i].read, Same(i, c)'
               PROVE  (c \in undone \/ Linked(c))'
    BY DEF ExactStands
  <2>1. pass'[i] = pass[i] /\ i # j
    BY <1>5
  <2>2. c \in kept /\ at[c] = "row" /\ Form(c)' = pass[i].read[c]
    BY <1>1, <1>2, <2>1 DEF Same
  <2>3. CASE same /\ c = b
    <3>1. pass[i].read[c] = "refs"
      BY <1>10, <2>2, <2>3
    <3>2. c \in lifted
      BY <2>1, <2>2, <3>1 DEF BodiesInv, ReadsOnce
    <3>. QED  BY <1>3, <2>3, <3>2
  <2>4. CASE ~(same /\ c = b)
    <3>1. Form(c)' = Form(c)
      BY <1>10, <2>2, <2>4
    <3>2. Same(i, c)
      BY <2>2, <3>1 DEF Same
    <3>3. c \in undone \/ Linked(c)
      BY <2>1, <3>2 DEF BodiesInv, ExactStands
    <3>. QED  BY <1>2, <3>1, <3>3 DEF Linked
  <2>. QED  BY <2>3, <2>4
<1>12. ReleasedHasLink'
  <2> SUFFICES ASSUME NEW c \in kept, at[c] = "template"
               PROVE  (c \in undone \/ Linked(c))'
    BY <1>1, <1>2 DEF ReleasedHasLink
  <2>1. Form(c)' = Form(c)
    BY <1>3, <1>10
  <2>. QED  BY <1>2, <2>1 DEF BodiesInv, ReleasedHasLink, Linked
<1>13. (LinkHasTemplate /\ SweptIsUnused /\ PackIsThere)'
  BY <1>1, <1>2 DEF BodiesInv, LinkHasTemplate, SweptIsUnused, PackIsThere
<1>14. PackIsFresh'
  BY <1>2, <1>5 DEF BodiesInv, PackIsFresh
<1>. QED  BY <1>6, <1>7, <1>8, <1>9, <1>11, <1>12, <1>13, <1>14 DEF BodiesInv

LEMMA StampInv ==
    ASSUME BodiesInv, ObjectsTypeOK', NEW j \in Jobs, Stamp(j)
    PROVE  BodiesInv'
<1>1. /\ pass' \in [Jobs -> PassRecords]
      /\ \A i \in Jobs \ {j} : pass'[i] = pass[i]
      /\ pass'[j] = NoPass
  BY EndsPass DEF Stamp, BodiesInv
<1>2. UNCHANGED <<kept, lifted, job, at, link, pack, template, packRow, packed, packsDoomed,
                  packsDeleted, undone>>
  BY DEF Stamp, objectVars
<1>3. BodiesTypeOK'
  BY <1>1, <1>2 DEF Stamp, BodiesInv, BodiesTypeOK, PassRecords
<1>4. (ReadsOnce /\ OneBody /\ PackIsFresh)'
  BY <1>1, <1>2, NoPassType DEF BodiesInv, ReadsOnce, OneBody, PackIsFresh
<1>5. LiftMatches'
  BY <1>1, <1>2 DEF Stamp, In, BodiesInv, LiftMatches
<1>6. (LinkHasTemplate /\ SweptIsUnused /\ PackIsThere)'
  BY <1>2 DEF BodiesInv, LinkHasTemplate, SweptIsUnused, PackIsThere
<1>7. (ExactStands /\ ReleasedHasLink)'
  BY <1>1, <1>2, NoPassType DEF BodiesInv, ExactStands, ReleasedHasLink, Same, Linked, Form
<1>. QED  BY <1>3, <1>4, <1>5, <1>6, <1>7 DEF BodiesInv

\* A link is to the template of the html that was read, and only while it is there.
LEMMA LinkInv ==
    ASSUME BodiesInv, ObjectsTypeOK', NEW j \in Jobs, Link(j)
    PROVE  BodiesInv'
<1>. DEFINE b == Its(j)
            f == pass[j].read[b]
<1>1. /\ pass' \in [Jobs -> PassRecords]
      /\ \A i \in Jobs \ {j} : pass'[i] = pass[i]
      /\ pass'[j] = NoPass
  BY EndsPass DEF Link, BodiesInv
<1>2. /\ UNCHANGED <<kept, lifted, job, at, pack, packRow, packed, packsDoomed, packsDeleted>>
      /\ job[j] = Idle
  BY DEF Link, In, objectVars
<1>3. b \in Bodies /\ f \in Forms
  <2>1. pass[j] \in PassRecords /\ pass[j].step = "match"
    BY DEF BodiesInv, BodiesTypeOK, PassRecords, Link, In
  <2>2. pass[j].read \in Reads
    BY <2>1 DEF PassRecords
  <2>. QED  BY <2>1, <2>2, ItsBody DEF Reads
<1>4. PICK id \in TemplateIds :
        /\ IF template[f] # NoTemplate THEN id = template[f].id
           ELSE \A g \in Forms : template[g].id # id /\ \A c \in kept : link[c].id # id
        /\ template' = [template EXCEPT ![f] =
             [id |-> id, age |-> "fresh",
              messages |-> IF template[f].messages < PromoteAt THEN template[f].messages + 1
                           ELSE PromoteAt]]
  BY DEF Link, Matched
<1>5. IF Same(j, b)
      THEN /\ link' = [link EXCEPT ![b] = [id |-> template'[f].id, form |-> f]]
           /\ examined' = examined \cup {b} /\ past' = past \ {b}
           /\ undone' = undone \ {b}
      ELSE UNCHANGED <<link, examined, past, undone>>
  BY DEF Link
<1>. HIDE DEF b, f
<1>. DEFINE Known == [id : TemplateIds, messages : 1..PromoteAt, age : {"fresh", "stale"}]
<1>6. template \in [Forms -> Known \cup {NoTemplate}]
  BY DEF BodiesInv, BodiesTypeOK
<1>7. template'[f].id = id /\ template'[f] \in Known /\ template' \in [Forms -> Known \cup {NoTemplate}]
  <2>. DEFINE n == IF template[f].messages < PromoteAt THEN template[f].messages + 1 ELSE PromoteAt
  <2>1. template[f] \in Known \/ template[f] = NoTemplate
    BY <1>3, <1>6
  <2>2. template[f].messages \in 0..PromoteAt
    BY <2>1, BodiesAssumption DEF NoTemplate
  <2>3. n \in 1..PromoteAt
    BY <2>2, BodiesAssumption
  <2>. HIDE DEF n
  <2>4. [id |-> id, age |-> "fresh", messages |-> n] \in Known
    BY <2>3
  <2>5. template' = [template EXCEPT ![f] = [id |-> id, age |-> "fresh", messages |-> n]]
    BY <1>4 DEF n
  <2>. HIDE DEF Known
  <2>6. template'[f] = [id |-> id, age |-> "fresh", messages |-> n]
    BY <1>3, <1>6, <2>5
  <2>. QED  BY <1>3, <1>6, <2>4, <2>5, <2>6
<1>8. /\ \A g \in Forms \ {f} : template'[g] = template[g]
      /\ template[f] # NoTemplate => template'[f].id = template[f].id
  BY <1>3, <1>4, <1>6, <1>7
<1>9. Same(j, b) => b \in kept /\ at[b] = "row" /\ Form(b) = f
  BY DEF Same, f
<1>10. link \in [Bodies -> Links \cup {Unlinked}] /\ kept \subseteq Bodies
  BY DEF BodiesInv, BodiesTypeOK, ObjectsTypeOK
<1>11. [id |-> id, form |-> f] \in Links /\ [id |-> id, form |-> f] # Unlinked
  BY <1>3, BodiesAssumption DEF Links, Unlinked
<1>12. \A c \in Bodies : link'[c] = IF Same(j, b) /\ c = b THEN [id |-> id, form |-> f] ELSE link[c]
  BY <1>3, <1>5, <1>7, <1>10
<1>13. BodiesTypeOK'
  <2>1. link' \in [Bodies -> Links \cup {Unlinked}]
    BY <1>5, <1>7, <1>10, <1>11
  <2>2. /\ examined' \subseteq kept /\ past' \subseteq kept \ examined' /\ undone' \subseteq Bodies
    BY <1>5, <1>9 DEF BodiesInv, BodiesTypeOK
  <2>3. \A c \in Bodies : /\ at[c] = "pack" <=> pack[c] # Nothing
                          /\ at[c] = "template" => link'[c] # Unlinked \/ c \in undone'
                          /\ at[c] = "pack" => link'[c] = Unlinked
    BY <1>5, <1>9, <1>12 DEF BodiesInv, BodiesTypeOK
  <2>. QED  BY <1>1, <1>2, <1>7, <2>1, <2>2, <2>3 DEF BodiesInv, BodiesTypeOK, PassRecords
<1>14. (ReadsOnce /\ OneBody /\ PackIsFresh)'
  BY <1>1, <1>2, NoPassType DEF BodiesInv, ReadsOnce, OneBody, PackIsFresh
<1>15. (LiftMatches /\ SweptIsUnused /\ PackIsThere)'
  BY <1>1, <1>2 DEF BodiesInv, LiftMatches, SweptIsUnused, PackIsThere
<1>16. \A c \in kept : (c \in undone \/ Linked(c)) => (c \in undone \/ Linked(c))'
  <2> SUFFICES ASSUME NEW c \in kept, c \in undone \/ Linked(c)
               PROVE  c \in undone' \/ Linked(c)'
    OBVIOUS
  <2>1. Form(c)' = Form(c) /\ c \in Bodies
    BY <1>2, <1>10 DEF Form
  <2>2. CASE Same(j, b) /\ c = b
    BY <1>9, <1>11, <1>12, <2>1, <2>2 DEF Linked
  <2>3. CASE ~(Same(j, b) /\ c = b)
    BY <1>5, <1>12, <2>1, <2>3 DEF Linked
  <2>. QED  BY <2>2, <2>3
<1>17. ReleasedHasLink'
  BY <1>2, <1>16 DEF BodiesInv, ReleasedHasLink
<1>18. ExactStands'
  <2> SUFFICES ASSUME NEW i \in Jobs, pass'[i].step = "promote", pass'[i].exact,
                      NEW c \in DOMAIN pass'[i].read, Same(i, c)'
               PROVE  (c \in undone \/ Linked(c))'
    BY DEF ExactStands
  <2>1. pass'[i] = pass[i]
    BY <1>1, NoPassType
  <2>2. Same(i, c) /\ c \in kept
    BY <1>2, <2>1 DEF Same, Form
  <2>. QED  BY <1>16, <2>1, <2>2 DEF BodiesInv, ExactStands
<1>19. LinkHasTemplate'
  <2> SUFFICES ASSUME NEW c \in kept, link'[c] # Unlinked
               PROVE  template'[link'[c].form].id = link'[c].id
    BY <1>2 DEF LinkHasTemplate
  <2>1. CASE Same(j, b) /\ c = b
    BY <1>7, <1>10, <1>12, <2>1
  <2>2. CASE ~(Same(j, b) /\ c = b)
    <3>1. link'[c] = link[c] /\ link[c] \in Links
      BY <1>10, <1>12, <2>2
    <3>2. link[c].form \in Forms /\ link[c].id \in TemplateIds
      BY <3>1 DEF Links
    <3>3. template[link[c].form].id = link[c].id
      BY <3>1 DEF BodiesInv, LinkHasTemplate
    <3>4. template[link[c].form] # NoTemplate
      BY <3>2, <3>3, BodiesAssumption DEF NoTemplate
    <3>. QED  BY <1>8, <3>1, <3>2, <3>3, <3>4
  <2>. QED  BY <2>1, <2>2
<1>. QED  BY <1>13, <1>14, <1>15, <1>17, <1>18, <1>19 DEF BodiesInv

\* The original is released on the strength of a link that was read; what is unlinked
\* though it was good is remembered.
LEMMA PromoteInv ==
    ASSUME BodiesInv, ObjectsTypeOK', NEW j \in Jobs, Promote(j)
    PROVE  BodiesInv'
<1>. DEFINE b == Its(j)
            gone == b \in kept /\ at[b] # "template" /\ ~pass[j].exact
            done == Same(j, b) /\ pass[j].exact
<1>1. /\ pass' \in [Jobs -> PassRecords]
      /\ \A i \in Jobs \ {j} : pass'[i] = pass[i]
      /\ pass'[j] = NoPass
  BY EndsPass DEF Promote, BodiesInv
<1>2. /\ UNCHANGED <<kept, lifted, job, examined, past, pack, template, packRow, packed,
                     packsDoomed, packsDeleted>>
      /\ job[j] = Idle
  BY DEF Promote, In, objectVars
<1>3. b \in Bodies /\ b \in DOMAIN pass[j].read /\ pass[j].step = "promote"
  BY ItsBody DEF Promote, In
<1>4. /\ at' = IF done THEN [at EXCEPT ![b] = "template"] ELSE at
      /\ link' = IF gone THEN [link EXCEPT ![b] = Unlinked] ELSE link
      /\ undone' = IF gone /\ Linked(b) THEN undone \cup {b} ELSE undone
  BY DEF Promote
<1>5. done => b \in kept /\ at[b] = "row" /\ (b \in undone \/ Linked(b)) /\ ~gone
  BY <1>3 DEF Same, BodiesInv, ExactStands
<1>. HIDE DEF b, gone
<1>6. gone => b \in kept /\ at[b] # "template"
  BY DEF gone
<1>. HIDE DEF done
<1>7. /\ link \in [Bodies -> Links \cup {Unlinked}] /\ kept \subseteq Bodies
      /\ at \in [Bodies -> {"row", "template", "pack"}]
  BY DEF BodiesInv, BodiesTypeOK, ObjectsTypeOK
<1>8. \A c \in Bodies : /\ at'[c] = IF done /\ c = b THEN "template" ELSE at[c]
                        /\ link'[c] = IF gone /\ c = b THEN Unlinked ELSE link[c]
  BY <1>4, <1>7
<1>9. BodiesTypeOK'
  <2>1. /\ at' \in [Bodies -> {"row", "template", "pack"}]
        /\ link' \in [Bodies -> Links \cup {Unlinked}]
        /\ undone' \subseteq Bodies
    BY <1>3, <1>4, <1>7 DEF BodiesInv, BodiesTypeOK
  <2>2. ASSUME NEW c \in Bodies
        PROVE  /\ at'[c] = "pack" <=> pack[c] # Nothing
               /\ at'[c] = "template" => link'[c] # Unlinked \/ c \in undone'
               /\ at'[c] = "pack" => link'[c] = Unlinked
    BY <1>4, <1>5, <1>6, <1>8 DEF BodiesInv, BodiesTypeOK, Linked
  <2>. QED  BY <1>1, <1>2, <2>1, <2>2 DEF BodiesInv, BodiesTypeOK, PassRecords
<1>10. (ReadsOnce /\ OneBody /\ PackIsFresh)'
  BY <1>1, <1>2, NoPassType DEF BodiesInv, ReadsOnce, OneBody, PackIsFresh
<1>11. (LiftMatches /\ SweptIsUnused /\ PackIsThere)'
  BY <1>1, <1>2 DEF BodiesInv, LiftMatches, SweptIsUnused, PackIsThere
<1>12. LinkHasTemplate'
  BY <1>2, <1>7, <1>8 DEF BodiesInv, LinkHasTemplate
<1>13. \A c \in kept : (c \in undone \/ Linked(c)) => (c \in undone \/ Linked(c))'
  <2> SUFFICES ASSUME NEW c \in kept, c \in undone \/ Linked(c)
               PROVE  c \in undone' \/ Linked(c)'
    OBVIOUS
  <2>1. Form(c)' = Form(c) /\ c \in Bodies
    BY <1>2, <1>7 DEF Form
  <2>2. CASE gone /\ c = b
    BY <1>4, <2>2
  <2>3. CASE ~(gone /\ c = b)
    BY <1>4, <1>8, <2>1, <2>3 DEF Linked
  <2>. QED  BY <2>2, <2>3
<1>14. ReleasedHasLink'
  <2> SUFFICES ASSUME NEW c \in kept, at'[c] = "template"
               PROVE  (c \in undone \/ Linked(c))'
    BY <1>2 DEF ReleasedHasLink
  <2>. QED  BY <1>5, <1>7, <1>8, <1>13 DEF BodiesInv, ReleasedHasLink
<1>15. ExactStands'
  <2> SUFFICES ASSUME NEW i \in Jobs, pass'[i].step = "promote", pass'[i].exact,
                      NEW c \in DOMAIN pass'[i].read, Same(i, c)'
               PROVE  (c \in undone \/ Linked(c))'
    BY DEF ExactStands
  <2>1. pass'[i] = pass[i]
    BY <1>1, NoPassType
  <2>2. Same(i, c) /\ c \in kept
    BY <1>2, <1>7, <1>8, <2>1 DEF Same, Form
  <2>. QED  BY <1>13, <2>1, <2>2 DEF BodiesInv, ExactStands
<1>. QED  BY <1>9, <1>10, <1>11, <1>12, <1>14, <1>15 DEF BodiesInv

-----------------------------------------------------------------------------
(* Packs *)

LEMMA WeekPassesInv ==
    ASSUME BodiesInv, ObjectsTypeOK', NEW b \in Bodies, WeekPasses(b)
    PROVE  BodiesInv'
<1>1. UNCHANGED <<kept, lifted, job, at, link, examined, pack, template, packRow, packed, pass,
                  packsDoomed, packsDeleted, undone>>
  BY DEF WeekPasses, objectVars
<1>2. BodiesTypeOK'
  BY <1>1 DEF WeekPasses, BodiesInv, BodiesTypeOK
<1>3. (ReadsOnce /\ OneBody /\ LiftMatches /\ LinkHasTemplate /\ PackIsFresh /\ SweptIsUnused
       /\ PackIsThere)'
  BY <1>1 DEF BodiesInv, ReadsOnce, OneBody, LiftMatches, LinkHasTemplate, PackIsFresh,
              SweptIsUnused, PackIsThere
<1>4. (ExactStands /\ ReleasedHasLink)'
  BY <1>1 DEF BodiesInv, ExactStands, ReleasedHasLink, Same, Linked, Form
<1>. QED  BY <1>2, <1>3, <1>4 DEF BodiesInv

\* The new pack's row is fresh, and it was no pack's.
LEMMA PackRowInv ==
    ASSUME BodiesInv, ObjectsTypeOK', NEW j \in Jobs, PackRow(j)
    PROVE  BodiesInv'
<1>1. PICK p \in Packs :
        /\ packRow[p] = "none"
        /\ packRow' = [packRow EXCEPT ![p] = "fresh"]
        /\ pass' = [pass EXCEPT ![j].step = "put", ![j].pack = p]
  BY DEF PackRow
<1>2. /\ UNCHANGED <<kept, lifted, job, at, link, examined, past, pack, template, packed,
                     packsDoomed, packsDeleted, undone>>
      /\ job[j] = Idle /\ pass[j].step = "seal"
  BY DEF PackRow, In, objectVars
<1>3. /\ pass \in [Jobs -> PassRecords] /\ packRow \in [Packs -> Ages \cup {"gone"}]
      /\ pass[j] \in PassRecords
  BY DEF BodiesInv, BodiesTypeOK, PassRecords
<1>. DEFINE next == [pass[j] EXCEPT !.step = "put", !.pack = p]
<1>4. next \in PassRecords
  BY <1>3 DEF PassRecords, Passes
<1>5. next.step = "put" /\ next.pack = p /\ next.read = pass[j].read
  BY <1>3 DEF PassRecords
<1>6. pass' = [pass EXCEPT ![j] = next]
  BY <1>1, <1>3 DEF PassRecords
<1>. HIDE DEF next
<1>7. /\ pass' \in [Jobs -> PassRecords]
      /\ \A i \in Jobs \ {j} : pass'[i] = pass[i]
      /\ pass'[j] = next
  BY <1>3, <1>4, <1>6
<1>8. \A q \in Packs : packRow'[q] = IF q = p THEN "fresh" ELSE packRow[q]
  BY <1>1, <1>3
<1>9. BodiesTypeOK'
  <2>1. packRow' \in [Packs -> Ages \cup {"gone"}]
    BY <1>1, <1>3 DEF Ages
  <2>. QED  BY <1>2, <1>7, <2>1 DEF BodiesInv, BodiesTypeOK, PassRecords
<1>10. ReadsOnce'
  <2>1. \A i \in Jobs : pass'[i].read = pass[i].read
    BY <1>5, <1>7
  <2>. QED  BY <1>2, <2>1 DEF BodiesInv, ReadsOnce
<1>11. OneBody' /\ LiftMatches'
  BY <1>2, <1>5, <1>7 DEF BodiesInv, OneBody, LiftMatches
<1>12. ExactStands' /\ ReleasedHasLink'
  BY <1>2, <1>5, <1>7 DEF BodiesInv, ExactStands, ReleasedHasLink, Same, Linked, Form
<1>13. LinkHasTemplate'
  BY <1>2 DEF BodiesInv, LinkHasTemplate
<1>14. PackIsFresh'
  BY <1>2, <1>5, <1>7, <1>8 DEF BodiesInv, PackIsFresh
<1>15. SweptIsUnused'
  BY <1>1, <1>2, <1>8 DEF BodiesInv, BodiesTypeOK, SweptIsUnused
<1>16. PackIsThere'
  <2> SUFFICES ASSUME NEW b \in kept, pack[b] # Nothing
               PROVE  pack[b] \in packed /\ packRow'[pack[b]] \in {"fresh", "stale"}
    BY <1>2 DEF PackIsThere
  <2>1. pack[b] \in Packs
    BY DEF BodiesInv, BodiesTypeOK, ObjectsTypeOK
  <2>. QED  BY <1>8, <2>1 DEF BodiesInv, PackIsThere
<1>. QED  BY <1>9, <1>10, <1>11, <1>12, <1>13, <1>14, <1>15, <1>16 DEF BodiesInv

LEMMA PackPutInv ==
    ASSUME BodiesInv, ObjectsTypeOK', NEW j \in Jobs, PackPut(j)
    PROVE  BodiesInv'
<1>1. /\ UNCHANGED <<kept, lifted, job, at, link, examined, past, pack, template, packRow,
                     packsDoomed, packsDeleted, undone>>
      /\ packed' = packed \cup {pass[j].pack}
      /\ pass' = [pass EXCEPT ![j].step = "release"]
      /\ job[j] = Idle /\ pass[j].step = "put"
  BY DEF PackPut, In, objectVars
<1>2. pass \in [Jobs -> PassRecords] /\ pass[j] \in PassRecords
  BY DEF BodiesInv, BodiesTypeOK, PassRecords
<1>3. pass[j].pack \in Packs /\ packRow[pass[j].pack] = "fresh"
  BY <1>1 DEF BodiesInv, PackIsFresh
<1>4. /\ pass' \in [Jobs -> PassRecords]
      /\ \A i \in Jobs \ {j} : pass'[i] = pass[i]
      /\ pass'[j] = [pass[j] EXCEPT !.step = "release"]
  BY <1>1, <1>2 DEF PassRecords, Passes
<1>5. pass'[j].step = "release" /\ pass'[j].pack = pass[j].pack /\ pass'[j].read = pass[j].read
  BY <1>2, <1>4 DEF PassRecords
<1>6. BodiesTypeOK'
  BY <1>1, <1>3, <1>4 DEF BodiesInv, BodiesTypeOK, PassRecords
<1>7. ReadsOnce'
  <2>1. \A i \in Jobs : pass'[i].read = pass[i].read
    BY <1>4, <1>5
  <2>. QED  BY <1>1, <2>1 DEF BodiesInv, ReadsOnce
<1>8. OneBody' /\ LiftMatches'
  BY <1>1, <1>4, <1>5 DEF BodiesInv, OneBody, LiftMatches
<1>9. ExactStands' /\ ReleasedHasLink'
  BY <1>1, <1>4, <1>5 DEF BodiesInv, ExactStands, ReleasedHasLink, Same, Linked, Form
<1>10. LinkHasTemplate' /\ SweptIsUnused' /\ PackIsThere'
  BY <1>1 DEF BodiesInv, LinkHasTemplate, SweptIsUnused, PackIsThere
<1>11. PackIsFresh'
  BY <1>1, <1>3, <1>4, <1>5 DEF BodiesInv, PackIsFresh
<1>. QED  BY <1>6, <1>7, <1>8, <1>9, <1>10, <1>11 DEF BodiesInv

\* The originals that are still what was sealed go, and their links with them.
LEMMA ReleaseInv ==
    ASSUME BodiesInv, ObjectsTypeOK', NEW j \in Jobs, Release(j)
    PROVE  BodiesInv'
<1>. DEFINE S == Released(j)
            p == pass[j].pack
<1>1. /\ pass' \in [Jobs -> PassRecords]
      /\ \A i \in Jobs \ {j} : pass'[i] = pass[i]
      /\ pass'[j] = NoPass
  BY EndsPass DEF Release, BodiesInv
<1>2. /\ UNCHANGED <<kept, lifted, job, examined, past, template, packRow, packed, packsDoomed,
                     packsDeleted, undone>>
      /\ job[j] = Idle
  BY DEF Release, In, objectVars
<1>3. p \in Packs /\ packRow[p] = "fresh" /\ p \in packed
  BY DEF BodiesInv, PackIsFresh, Release, In
<1>4. \A b \in S : b \in kept /\ at[b] = "row"
  BY DEF Released, Same
<1>5. /\ at' = [b \in Bodies |-> IF b \in S THEN "pack" ELSE at[b]]
      /\ pack' = [b \in Bodies |-> IF b \in S THEN p ELSE pack[b]]
      /\ link' = [b \in Bodies |-> IF b \in S THEN Unlinked ELSE link[b]]
  BY DEF Release
<1>. HIDE DEF S, p
<1>6. kept \subseteq Bodies
  BY DEF BodiesInv, ObjectsTypeOK
<1>7. BodiesTypeOK'
  <2>1. /\ at' \in [Bodies -> {"row", "template", "pack"}]
        /\ link' \in [Bodies -> Links \cup {Unlinked}]
        /\ pack' \in [Bodies -> Packs \cup {Nothing}]
    BY <1>3, <1>5 DEF BodiesInv, BodiesTypeOK
  <2>2. ASSUME NEW b \in Bodies
        PROVE  /\ at'[b] = "pack" <=> pack'[b] # Nothing
               /\ at'[b] = "template" => link'[b] # Unlinked \/ b \in undone
               /\ at'[b] = "pack" => link'[b] = Unlinked
    BY <1>3, <1>5, BodiesAssumption DEF BodiesInv, BodiesTypeOK
  <2>. QED  BY <1>1, <1>2, <2>1, <2>2 DEF BodiesInv, BodiesTypeOK, PassRecords
<1>8. (ReadsOnce /\ OneBody /\ PackIsFresh)'
  BY <1>1, <1>2, NoPassType DEF BodiesInv, ReadsOnce, OneBody, PackIsFresh
<1>9. LiftMatches'
  BY <1>1, <1>2 DEF BodiesInv, LiftMatches
<1>10. LinkHasTemplate'
  BY <1>2, <1>5, <1>6 DEF BodiesInv, LinkHasTemplate
<1>11. ReleasedHasLink'
  <2> SUFFICES ASSUME NEW b \in kept, at'[b] = "template"
               PROVE  (b \in undone \/ Linked(b))'
    BY <1>2 DEF ReleasedHasLink
  <2>1. b \notin S /\ at[b] = "template" /\ link'[b] = link[b] /\ Form(b)' = Form(b)
    BY <1>2, <1>5, <1>6 DEF Form
  <2>. QED  BY <1>2, <2>1 DEF BodiesInv, ReleasedHasLink, Linked
<1>12. ExactStands'
  <2> SUFFICES ASSUME NEW i \in Jobs, pass'[i].step = "promote", pass'[i].exact,
                      NEW c \in DOMAIN pass'[i].read, Same(i, c)'
               PROVE  (c \in undone \/ Linked(c))'
    BY DEF ExactStands
  <2>1. pass'[i] = pass[i] /\ c \in kept /\ at'[c] = "row" /\ Form(c)' = Form(c)
    BY <1>1, <1>2, NoPassType DEF Same, Form
  <2>2. c \notin S /\ at[c] = "row" /\ link'[c] = link[c]
    BY <1>5, <1>6, <2>1
  <2>3. Same(i, c)
    BY <2>1, <2>2 DEF Same
  <2>. QED  BY <1>2, <2>1, <2>2, <2>3 DEF BodiesInv, ExactStands, Linked
<1>13. SweptIsUnused'
  <2> SUFFICES ASSUME NEW q \in packsDoomed, NEW b \in kept
               PROVE  packRow[q] = "stale" /\ pack'[b] # q
    BY <1>2 DEF SweptIsUnused, BodiesInv
  <2>. QED  BY <1>3, <1>5, <1>6 DEF BodiesInv, SweptIsUnused
<1>14. PackIsThere'
  BY <1>2, <1>3, <1>5, <1>6 DEF BodiesInv, PackIsThere
<1>. QED  BY <1>7, <1>8, <1>9, <1>10, <1>11, <1>12, <1>13, <1>14 DEF BodiesInv

LEMMA FailsInv ==
    ASSUME BodiesInv, ObjectsTypeOK', NEW j \in Jobs, Fails(j)
    PROVE  BodiesInv'
<1>1. /\ UNCHANGED <<kept, lifted, at, link, examined, past, pack, template, packRow, packed,
                     packsDoomed, packsDeleted, undone>>
  BY DEF Fails, Fail, FailElsewhere
<1>2. job \in [Jobs -> Moves \cup {Idle}]
  BY DEF BodiesInv, ObjectsTypeOK
<1>3. (\A i \in Jobs \ {j} : job'[i] = job[i]) /\ job'[j] = Idle
  BY <1>2 DEF Fails, Fail, FailElsewhere
<1>4. CASE Ends(j)
  BY <1>1, <1>3, <1>4, DropsInv
<1>5. CASE UNCHANGED pass
  <2>1. LiftMatches'
    BY <1>3, <1>5 DEF BodiesInv, LiftMatches
  <2>. QED  BY <1>1, <1>5, <2>1, BodiesStay DEF bodyVars
<1>. QED  BY <1>4, <1>5 DEF Fails, Ends

-----------------------------------------------------------------------------
(* The retention job *)

LEMMA ExpiresInv ==
    ASSUME BodiesInv, ObjectsTypeOK', NEW b \in Bodies, Expires(b)
    PROVE  BodiesInv'
<1>1. /\ UNCHANGED <<job, template, packRow, packed, pass, packsDoomed, packsDeleted>>
      /\ kept' = kept \ {b} /\ lifted' = lifted \ {b}
      /\ examined' = examined \ {b} /\ past' = past \ {b} /\ undone' = undone \ {b}
  BY DEF Expires, Expire
<1>2. /\ at' = [at EXCEPT ![b] = "row"]
      /\ link' = [link EXCEPT ![b] = Unlinked]
      /\ pack' = [pack EXCEPT ![b] = Nothing]
  BY DEF Expires
<1>3. /\ at \in [Bodies -> {"row", "template", "pack"}]
      /\ link \in [Bodies -> Links \cup {Unlinked}]
      /\ pack \in [Bodies -> Packs \cup {Nothing}]
      /\ kept \subseteq Bodies
  BY DEF BodiesInv, BodiesTypeOK, ObjectsTypeOK
<1>4. \A c \in Bodies \ {b} :
        /\ at'[c] = at[c] /\ link'[c] = link[c] /\ pack'[c] = pack[c]
        /\ c \in kept' <=> c \in kept
        /\ c \in lifted' <=> c \in lifted
        /\ c \in undone' <=> c \in undone
  BY <1>1, <1>2, <1>3
<1>5. at'[b] = "row" /\ link'[b] = Unlinked /\ pack'[b] = Nothing /\ b \notin kept'
  BY <1>1, <1>2, <1>3
<1>6. BodiesTypeOK'
  <2>1. /\ at' \in [Bodies -> {"row", "template", "pack"}]
        /\ link' \in [Bodies -> Links \cup {Unlinked}]
        /\ pack' \in [Bodies -> Packs \cup {Nothing}]
    BY <1>2, <1>3
  <2>2. ASSUME NEW c \in Bodies
        PROVE  /\ at'[c] = "pack" <=> pack'[c] # Nothing
               /\ at'[c] = "template" => link'[c] # Unlinked \/ c \in undone'
               /\ at'[c] = "pack" => link'[c] = Unlinked
    BY <1>4, <1>5 DEF BodiesInv, BodiesTypeOK
  <2>. QED  BY <1>1, <2>1, <2>2 DEF BodiesInv, BodiesTypeOK
<1>7. (ReadsOnce /\ OneBody /\ LiftMatches /\ PackIsFresh)'
  BY <1>1 DEF BodiesInv, ReadsOnce, OneBody, LiftMatches, PackIsFresh
<1>8. \A c \in kept' : c \in kept /\ c \in Bodies \ {b}
  BY <1>1, <1>3
<1>9. (LinkHasTemplate /\ SweptIsUnused /\ PackIsThere)'
  BY <1>1, <1>4, <1>8 DEF BodiesInv, LinkHasTemplate, SweptIsUnused, PackIsThere
<1>10. (ExactStands /\ ReleasedHasLink)'
  BY <1>1, <1>4, <1>8 DEF BodiesInv, ExactStands, ReleasedHasLink, Same, Linked, Form
<1>. QED  BY <1>6, <1>7, <1>9, <1>10 DEF BodiesInv

\* A template ages, and goes once no body is linked to it.
LEMMA TemplatesInv ==
    ASSUME BodiesInv, ObjectsTypeOK', SweepTemplates \/ \E f \in Forms : TemplateAges(f)
    PROVE  BodiesInv'
<1>. DEFINE Known == [id : TemplateIds, messages : 1..PromoteAt, age : {"fresh", "stale"}]
<1>1. UNCHANGED <<kept, lifted, job, at, link, examined, past, pack, packRow, packed, pass,
                  packsDoomed, packsDeleted, undone>>
  BY DEF SweepTemplates, TemplateAges, objectVars
<1>2. template \in [Forms -> Known \cup {NoTemplate}]
  BY DEF BodiesInv, BodiesTypeOK
<1>3. /\ template' \in [Forms -> Known \cup {NoTemplate}]
      /\ \A f \in Forms : (\E b \in kept : link[b].id = template[f].id)
                            => template'[f].id = template[f].id
  <2>1. CASE SweepTemplates
    <3>1. template' = [f \in Forms |-> IF template[f].age = "stale" /\ NotLinked(f)
                                       THEN NoTemplate ELSE template[f]]
      BY <2>1 DEF SweepTemplates
    <3>2. \A f \in Forms : (\E b \in kept : link[b].id = template[f].id) => ~NotLinked(f)
      BY DEF NotLinked
    <3>. QED  BY <1>2, <3>1, <3>2
  <2>2. ASSUME NEW f \in Forms, TemplateAges(f)
        PROVE  /\ template' \in [Forms -> Known \cup {NoTemplate}]
               /\ \A g \in Forms : template'[g].id = template[g].id
    <3>1. template[f] \in Known
      BY <1>2, <2>2 DEF TemplateAges, NoTemplate
    <3>. DEFINE next == [template[f] EXCEPT !.age = "stale"]
    <3>2. next \in Known /\ next.id = template[f].id
      BY <3>1
    <3>3. template' = [template EXCEPT ![f] = next]
      BY <2>2 DEF TemplateAges
    <3>. HIDE DEF next
    <3>. QED  BY <1>2, <3>2, <3>3
  <2>. QED  BY <2>1, <2>2
<1>4. BodiesTypeOK'
  BY <1>1, <1>3 DEF BodiesInv, BodiesTypeOK
<1>5. (ReadsOnce /\ OneBody /\ LiftMatches /\ PackIsFresh /\ SweptIsUnused /\ PackIsThere)'
  BY <1>1 DEF BodiesInv, ReadsOnce, OneBody, LiftMatches, PackIsFresh, SweptIsUnused, PackIsThere
<1>6. (ExactStands /\ ReleasedHasLink)'
  BY <1>1 DEF BodiesInv, ExactStands, ReleasedHasLink, Same, Linked, Form
<1>7. LinkHasTemplate'
  <2> SUFFICES ASSUME NEW b \in kept, link[b] # Unlinked
               PROVE  template'[link[b].form].id = link[b].id
    BY <1>1 DEF LinkHasTemplate
  <2>1. link[b].form \in Forms
    BY DEF BodiesInv, BodiesTypeOK, ObjectsTypeOK, Links
  <2>2. template[link[b].form].id = link[b].id
    BY DEF BodiesInv, LinkHasTemplate
  <2>. QED  BY <1>3, <2>1, <2>2
<1>. QED  BY <1>4, <1>5, <1>6, <1>7 DEF BodiesInv

\* A pack ages only once no run is filling it, and the sweep takes those no body is in.
LEMMA PacksInv ==
    ASSUME BodiesInv, ObjectsTypeOK',
           \/ \E p \in Packs : PackAges(p)
           \/ SweepPacks /\ UNCHANGED <<objectVars, at, link, examined, past, pack, template, pass,
                                        undone>>
           \/ PackSweepFails
    PROVE  BodiesInv'
<1>1. UNCHANGED <<kept, lifted, job, at, link, examined, past, pack, template, pass, undone>>
  BY DEF PackAges, PackSweepFails, FailElsewhere, objectVars
<1>2. /\ packRow \in [Packs -> Ages \cup {"gone"}] /\ packsDoomed \subseteq Packs
      /\ packed \subseteq Packs /\ packsDeleted \subseteq packsDoomed
      /\ \A q \in packsDoomed : packRow[q] = "stale"
  BY DEF BodiesInv, BodiesTypeOK, SweptIsUnused
<1>. DEFINE Swept ==
          /\ packRow' \in [Packs -> Ages \cup {"gone"}] /\ packed' \subseteq Packs
          /\ packsDoomed' \subseteq Packs /\ packsDeleted' \subseteq packsDoomed'
          /\ SweptIsUnused'
          /\ \A p \in Packs : packRow[p] = "fresh" /\ (\E j \in Jobs : pass[j].pack = p)
                                => packRow'[p] = "fresh"
          /\ \A p \in Packs : (\E b \in kept : pack[b] = p) /\ packRow[p] \in {"fresh", "stale"}
                                => packRow'[p] \in {"fresh", "stale"}
          /\ \A p \in packed : packRow[p] = "fresh" \/ (\E b \in kept : pack[b] = p) => p \in packed'
<1>3. Swept
  <2>1. ASSUME NEW p \in Packs, PackAges(p)
        PROVE  Swept
    <3>1. /\ UNCHANGED <<packed, packsDoomed, packsDeleted>>
          /\ packRow' = [packRow EXCEPT ![p] = "stale"]
          /\ packRow[p] = "fresh" /\ \A j \in Jobs : pass[j].pack # p
      BY <2>1 DEF PackAges
    <3>2. \A q \in Packs : packRow'[q] = IF q = p THEN "stale" ELSE packRow[q]
      BY <1>2, <3>1
    <3>3. packRow' \in [Packs -> Ages \cup {"gone"}]
      BY <1>2, <3>1 DEF Ages
    <3>4. SweptIsUnused'
      BY <1>1, <1>2, <3>1, <3>2 DEF BodiesInv, SweptIsUnused
    <3>. QED  BY <1>2, <3>1, <3>2, <3>3, <3>4
  <2>2. CASE packsDoomed = {} /\ packsDoomed' = UnusedPacks
             /\ UNCHANGED <<packRow, packed, packsDeleted>>
    BY <1>1, <1>2, <2>2 DEF SweptIsUnused, UnusedPacks
  <2>3. ASSUME NEW p \in packsDoomed \ packsDeleted, packed' = packed \ {p},
               packsDeleted' = packsDeleted \cup {p}, UNCHANGED <<packRow, packsDoomed>>
        PROVE  Swept
    BY <1>1, <1>2, <2>3 DEF BodiesInv, SweptIsUnused
  <2>4. CASE /\ packRow' = [p \in Packs |-> IF p \in packsDoomed THEN "gone" ELSE packRow[p]]
             /\ packsDoomed' = {} /\ packsDeleted' = {} /\ UNCHANGED packed
    BY <1>1, <1>2, <2>4 DEF BodiesInv, SweptIsUnused
  <2>5. CASE packsDoomed' = {} /\ packsDeleted' = {} /\ UNCHANGED <<packRow, packed>>
    BY <1>1, <1>2, <2>5 DEF SweptIsUnused
  <2>. QED  BY <2>1, <2>2, <2>3, <2>4, <2>5 DEF SweepPacks, PackSweepFails
<1>4. BodiesTypeOK'
  BY <1>1, <1>3 DEF BodiesInv, BodiesTypeOK
<1>5. (ReadsOnce /\ OneBody /\ LiftMatches /\ LinkHasTemplate)'
  BY <1>1 DEF BodiesInv, ReadsOnce, OneBody, LiftMatches, LinkHasTemplate
<1>6. (ExactStands /\ ReleasedHasLink)'
  BY <1>1 DEF BodiesInv, ExactStands, ReleasedHasLink, Same, Linked, Form
<1>7. PackIsFresh'
  BY <1>1, <1>3 DEF BodiesInv, PackIsFresh
<1>8. PackIsThere'
  <2> SUFFICES ASSUME NEW b \in kept, pack[b] # Nothing
               PROVE  pack[b] \in packed' /\ packRow'[pack[b]] \in {"fresh", "stale"}
    BY <1>1 DEF PackIsThere
  <2>1. pack[b] \in Packs
    BY DEF BodiesInv, BodiesTypeOK, ObjectsTypeOK
  <2>. QED  BY <1>3, <2>1 DEF BodiesInv, PackIsThere
<1>. QED  BY <1>3, <1>4, <1>5, <1>6, <1>7, <1>8 DEF BodiesInv

-----------------------------------------------------------------------------
(* Every step *)

\* The sweep of the objects and the hours leave the bodies alone.
LEMMA ObjectsPassInv ==
    ASSUME BodiesInv, ObjectsTypeOK', Passing \/ Sweep \/ SweepFails, UNCHANGED bodyVars
    PROVE  BodiesInv'
<1>1. UNCHANGED <<kept, lifted, job>>
  BY DEF Passing, GoStale, Sweep, SweepReads, SweepDeletes, SweepCommits, SweepFails
<1>2. LiftMatches'
  BY <1>1 DEF BodiesInv, LiftMatches, bodyVars
<1>. QED  BY <1>1, <1>2, BodiesStay

LEMMA BodiesStepInv == BodiesInv /\ ObjectsTypeOK' /\ [Next]_vars => BodiesInv'
<1> SUFFICES ASSUME BodiesInv, ObjectsTypeOK', [Next]_vars PROVE BodiesInv'
  OBVIOUS
<1>1. ASSUME NEW j \in Jobs, Works(j) PROVE BodiesInv'
  BY <1>1, StoresInv, LiftsInv, LinkInv, StampInv, PromoteInv, PackRowInv, PackPutInv, ReleaseInv
     DEF Works
<1>2. ASSUME NEW j \in Jobs, CompactReads(j) \/ PromoteReads(j) \/ PackReads(j) \/ Fails(j)
      PROVE  BodiesInv'
  BY <1>2, CompactReadsInv, PromoteReadsInv, PackReadsInv, FailsInv
<1>3. ASSUME NEW b \in Bodies, Expires(b) \/ WeekPasses(b) PROVE BodiesInv'
  BY <1>3, ExpiresInv, WeekPassesInv
<1>4. CASE (Passing \/ Sweep \/ SweepFails) /\ UNCHANGED bodyVars
  BY <1>4, ObjectsPassInv
<1>5. CASE SweepTemplates \/ \E f \in Forms : TemplateAges(f)
  BY <1>5, TemplatesInv
<1>6. CASE \/ \E p \in Packs : PackAges(p)
           \/ SweepPacks /\ UNCHANGED <<objectVars, at, link, examined, past, pack, template, pass,
                                        undone>>
           \/ PackSweepFails
  BY <1>6, PacksInv
<1>7. CASE UNCHANGED vars
  <2>1. UNCHANGED bodyVars /\ UNCHANGED <<kept, lifted, job>>
    BY <1>7 DEF vars, objectVars
  <2>2. LiftMatches'
    BY <2>1 DEF BodiesInv, LiftMatches, bodyVars
  <2>. QED  BY <2>1, <2>2, BodiesStay
<1>. QED  BY <1>1, <1>2, <1>3, <1>4, <1>5, <1>6, <1>7 DEF Next

\* The inductive invariant of links, templates and packs.
THEOREM BodiesInductive == Spec => []BodiesInv
<1>1. ObjectsInv => ObjectsTypeOK
  BY DEF ObjectsInv
<1>. QED  BY <1>1, BodiesInitInv, BodiesStepInv, BodiesMoveObjects, ObjectsInductive, PTL DEF Spec

\* Type correctness of the bodies and of what every run has read.
THEOREM BodiesTypeCorrect == Spec => []TypeOK
<1>1. BodiesInv => TypeOK
  BY DEF BodiesInv, TypeOK
<1>. QED  BY <1>1, BodiesInductive, PTL

LEMMA InvGivenBack == BodiesInv => GivenBack
<1> SUFFICES ASSUME BodiesInv, NEW b \in kept
             PROVE  /\ at[b] = "template" =>
                         \/ b \in undone
                         \/ \E f \in Forms : template[f].id = link[b].id /\ link[b].form = Form(b)
                    /\ at[b] = "pack" => pack[b] \in packed
  BY DEF GivenBack
<1>1. b \in Bodies
  BY DEF BodiesInv, ObjectsTypeOK
<1>2. ASSUME at[b] = "template", b \notin undone
      PROVE  \E f \in Forms : template[f].id = link[b].id /\ link[b].form = Form(b)
  <2>1. link[b] # Unlinked /\ link[b].form = Form(b)
    BY <1>2 DEF BodiesInv, ReleasedHasLink, Linked
  <2>2. link[b].form \in Forms
    BY <1>1, <2>1 DEF BodiesInv, BodiesTypeOK, Links
  <2>. QED  BY <2>1, <2>2 DEF BodiesInv, LinkHasTemplate
<1>3. at[b] = "pack" => pack[b] \in packed
  BY <1>1 DEF BodiesInv, BodiesTypeOK, PackIsThere
<1>. QED  BY <1>2, <1>3

\* However many runs overlap, a body that left its row is in a pack in R2, or renders
\* from a template that is there to the html it had, but for the one open way
\* (content/compact.ts, content/packs.ts, content/sweep.ts).
THEOREM BodiesGivenBack == Spec => []GivenBack
BY BodiesInductive, InvGivenBack, PTL

-----------------------------------------------------------------------------
(* One run at a time *)

\* No good link is ever taken away.
NothingUndone == undone = {}

OneRun == \A i, j \in Jobs : i = j

\* What one run found no longer exact, nothing else has made exact since.
InexactStands ==
    \A j \in Jobs : pass[j].step = "promote" /\ ~pass[j].exact =>
       \A b \in DOMAIN pass[j].read : b \in kept => ~Linked(b)

LEMMA AloneStep ==
    ASSUME OneRun, BodiesInv, NothingUndone, InexactStands, [Next]_vars
    PROVE  (NothingUndone /\ InexactStands)'
<1>. USE DEF NothingUndone
<1>1. ASSUME NEW j \in Jobs, pass'[j].step # "promote", UNCHANGED undone
      PROVE  (NothingUndone /\ InexactStands)'
  BY <1>1 DEF OneRun, InexactStands
<1>2. ASSUME NEW j \in Jobs, Ends(j), UNCHANGED undone PROVE (NothingUndone /\ InexactStands)'
  BY <1>1, <1>2, EndsPass, NoPassType DEF BodiesInv
<1>3. ASSUME UNCHANGED <<kept, lifted, link, pass, undone>>
      PROVE  (NothingUndone /\ InexactStands)'
  BY <1>3 DEF InexactStands, Linked, Form
<1>4. ASSUME NEW j \in Jobs, Stores(j) PROVE (NothingUndone /\ InexactStands)'
  <2>1. UNCHANGED bodyVars
    BY <1>4 DEF Stores
  <2>2. UNCHANGED <<kept, lifted>>
    BY <1>4 DEF Stores, StoreStep, StoreReads, Touch, Put, Insert, Rewrite
  <2>. QED  BY <1>3, <2>1, <2>2 DEF bodyVars
<1>5. ASSUME NEW j \in Jobs, Lifts(j) PROVE (NothingUndone /\ InexactStands)'
  <2>1. pass[j].step = "match" /\ pass \in [Jobs -> PassRecords]
    BY <1>5 DEF Lifts, BodiesInv, LiftMatches, BodiesTypeOK, PassRecords
  <2>2. pass'[j].step = "match"
    BY <1>5, <2>1 DEF Lifts, PassRecords
  <2>. QED  BY <1>1, <1>5, <2>2 DEF Lifts
<1>6. ASSUME NEW j \in Jobs, Link(j) PROVE (NothingUndone /\ InexactStands)'
  BY <1>6, EndsPass, NoPassType DEF Link, BodiesInv, OneRun, InexactStands
<1>7. ASSUME NEW j \in Jobs, Promote(j) PROVE (NothingUndone /\ InexactStands)'
  <2>1. pass[j].step = "promote" /\ Its(j) \in DOMAIN pass[j].read
    BY <1>7, ItsBody DEF Promote, In
  <2>2. UNCHANGED undone
    BY <1>7, <2>1 DEF Promote, InexactStands
  <2>. QED  BY <1>2, <1>7, <2>2 DEF Promote
<1>8. ASSUME NEW j \in Jobs, Stamp(j) \/ Release(j) PROVE (NothingUndone /\ InexactStands)'
  BY <1>2, <1>8 DEF Stamp, Release
<1>9. ASSUME NEW j \in Jobs, PackRow(j) \/ PackPut(j) PROVE (NothingUndone /\ InexactStands)'
  <2>1. pass \in [Jobs -> PassRecords]
    BY DEF BodiesInv, BodiesTypeOK, PassRecords
  <2>2. pass'[j].step \in {"put", "release"}
    BY <1>9, <2>1 DEF PackRow, PackPut, PassRecords
  <2>. QED  BY <1>1, <1>9, <2>2 DEF PackRow, PackPut
<1>10. ASSUME NEW j \in Jobs, CompactReads(j) \/ PackReads(j)
       PROVE  (NothingUndone /\ InexactStands)'
  <2>1. pass \in [Jobs -> PassRecords]
    BY DEF BodiesInv, BodiesTypeOK, PassRecords
  <2>2. pass'[j].step \in {"match", "seal"}
    <3>1. \E step \in {"match", "seal"} : \E S : Begins(j, step, S)
      BY <1>10 DEF CompactReads, PackReads
    <3>. HIDE DEF BodiesInv
    <3>. QED  BY <2>1, <3>1 DEF Begins, PassRecords
  <2>. QED  BY <1>1, <1>10, <2>2 DEF CompactReads, PackReads
<1>11. ASSUME NEW j \in Jobs, PromoteReads(j) PROVE (NothingUndone /\ InexactStands)'
  <2>1. PICK b \in kept :
          pass' = [pass EXCEPT ![j].step = "promote", ![j].read = ReadOf({b}),
                               ![j].exact = link[b].form = Form(b)]
    BY <1>11 DEF PromoteReads
  <2>2. UNCHANGED <<kept, lifted, link, undone>>
    BY <1>11 DEF PromoteReads, objectVars
  <2>3. b \in Bodies /\ pass \in [Jobs -> PassRecords]
    BY DEF BodiesInv, ObjectsTypeOK, BodiesTypeOK, PassRecords
  <2>. DEFINE exact == link[b].form = Form(b)
  <2>4. pass' = [pass EXCEPT ![j].step = "promote", ![j].read = ReadOf({b}), ![j].exact = exact]
    BY <2>1
  <2>5. ~exact => ~Linked(b)
    BY DEF Linked
  <2>. HIDE DEF exact
  <2>6. pass'[j].read = ReadOf({b}) /\ pass'[j].exact = exact
    BY <2>3, <2>4 DEF PassRecords
  <2>7. DOMAIN pass'[j].read = {b}
    BY <2>3, <2>6, ReadOfType
  <2>8. Linked(b)' <=> Linked(b)
    BY <2>2 DEF Linked, Form
  <2>9. \A i \in Jobs : i = j
    BY DEF OneRun
  <2>. QED  BY <2>2, <2>5, <2>6, <2>7, <2>8, <2>9 DEF InexactStands
<1>12. ASSUME NEW j \in Jobs, Fails(j) PROVE (NothingUndone /\ InexactStands)'
  <2>1. UNCHANGED <<kept, lifted, link, undone>>
    BY <1>12 DEF Fails, Fail, FailElsewhere
  <2>. QED  BY <1>2, <1>3, <1>12, <2>1 DEF Fails, Ends
<1>13. ASSUME NEW b \in Bodies, Expires(b) PROVE (NothingUndone /\ InexactStands)'
  <2>1. /\ kept' = kept \ {b} /\ lifted' = lifted \ {b} /\ undone' = undone \ {b}
        /\ link' = [link EXCEPT ![b] = Unlinked] /\ UNCHANGED pass
    BY <1>13 DEF Expires, Expire
  <2>2. \A c \in kept' : c \in kept /\ (Linked(c)' <=> Linked(c))
    BY <2>1 DEF BodiesInv, BodiesTypeOK, ObjectsTypeOK, Linked, Form
  <2>. QED  BY <2>1, <2>2 DEF InexactStands
<1>14. ASSUME NEW b \in Bodies, WeekPasses(b) PROVE (NothingUndone /\ InexactStands)'
  BY <1>3, <1>14 DEF WeekPasses, objectVars
<1>15. CASE (Passing \/ Sweep \/ SweepFails) /\ UNCHANGED bodyVars
  <2>1. UNCHANGED <<kept, lifted>>
    BY <1>15 DEF Passing, GoStale, Sweep, SweepReads, SweepDeletes, SweepCommits, SweepFails
  <2>. QED  BY <1>3, <1>15, <2>1 DEF bodyVars
<1>16. CASE \/ SweepTemplates \/ \E f \in Forms : TemplateAges(f)
            \/ \E p \in Packs : PackAges(p)
            \/ SweepPacks /\ UNCHANGED <<objectVars, at, link, examined, past, pack, template, pass,
                                         undone>>
            \/ PackSweepFails
  BY <1>3, <1>16 DEF SweepTemplates, TemplateAges, PackAges, PackSweepFails, FailElsewhere, objectVars
<1>17. CASE UNCHANGED vars
  BY <1>3, <1>17 DEF vars, objectVars, bodyVars
<1>. QED  BY <1>4, <1>5, <1>6, <1>7, <1>8, <1>9, <1>10, <1>11, <1>12, <1>13, <1>14, <1>15, <1>16,
             <1>17 DEF Next, Works

\* The one open way to lose a body needs two runs: while the CronJob keeps it to one
\* (infra/k8s/i10/workloads/content-store.yaml:25), no good link is taken away, and so
\* every body is given back.
THEOREM OneRunUndoesNothing == OneRun => (Spec => [](GivenBack /\ NothingUndone))
<1> SUFFICES ASSUME OneRun PROVE Spec => [](GivenBack /\ NothingUndone)
  OBVIOUS
<1>1. Init => NothingUndone /\ InexactStands
  BY NoPassType DEF Init, NothingUndone, InexactStands
<1>2. BodiesInv /\ NothingUndone /\ InexactStands /\ [Next]_vars => (NothingUndone /\ InexactStands)'
  BY AloneStep
<1>. QED  BY <1>1, <1>2, BodiesInductive, BodiesGivenBack, PTL DEF Spec
=============================================================================
