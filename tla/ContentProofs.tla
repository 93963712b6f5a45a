---------------------------- MODULE ContentProofs ----------------------------
(***************************************************************************)
(* Proofs about the content store: what a body names is in R2, but for     *)
(* sweeps that rolled back, for any number of bodies, hashes and           *)
(* overlapping runs.  First for ContentObjects by itself; then every step  *)
(* of ContentBodies is shown to be one of it, so that it holds whatever    *)
(* becomes of the html.                                                    *)
(***************************************************************************)
EXTENDS ContentBodies, TLAPS

\* What a body names has a row.
NamedHasRow == \A b \in kept : \A h \in Names(b) : row[h] # "none"

\* A row is an object, but for what a sweep has deleted.
RowHasObject == \A h \in Hashes : row[h] # "none" => h \in object \cup hollow \cup deleted

\* The sweep holds stale rows that nobody names.
DoomedUnwanted ==
    \A h \in doomed : row[h] = "stale" /\ \A b \in kept : h \notin Names(b)

\* What a run is to name is fresh or still its work, and what it uploaded is there.
MoveIsFresh ==
    \A j \in Jobs : Past(j) =>
      /\ job[j].sent \subseteq job[j].todo
      /\ job[j].sent \subseteq object
      /\ job[j].todo \subseteq Wanted(j)
      /\ \A h \in Wanted(j) : /\ row[h] # "stale"
                              /\ h \notin job[j].todo => row[h] = "fresh"

MoveStarts == \A j \in Jobs : job[j] # Idle /\ job[j].step = "touch" =>
                 job[j].sent = {} /\ job[j].todo = Wanted(j)

ObjectsInv ==
    /\ ObjectsTypeOK
    /\ NamedHasRow
    /\ RowHasObject
    /\ DoomedUnwanted
    /\ MoveIsFresh
    /\ MoveStarts

LEMMA WantedType ==
    ASSUME ObjectsTypeOK, NEW j \in Jobs, job[j] # Idle
    PROVE  /\ job[j] \in Moves
           /\ Wanted(j) \subseteq Hashes
BY ContentAssumption DEF ObjectsTypeOK, Moves, Wanted

\* The initial state.
LEMMA ObjectsInitInv == ObjectsInit => ObjectsInv
<1> SUFFICES ASSUME ObjectsInit PROVE ObjectsInv
  OBVIOUS
<1>1. ObjectsTypeOK
  BY ContentAssumption DEF ObjectsInit, ObjectsTypeOK, Ages
<1>2. NamedHasRow /\ RowHasObject /\ DoomedUnwanted
  BY DEF ObjectsInit, NamedHasRow, RowHasObject, DoomedUnwanted, Names
<1>3. MoveIsFresh /\ MoveStarts
  BY DEF ObjectsInit, MoveIsFresh, MoveStarts, Past
<1>. QED  BY <1>1, <1>2, <1>3 DEF ObjectsInv

\* A run begins: nothing it wants is counted on yet.
LEMMA BeginInv ==
    ASSUME ObjectsInv, NEW j \in Jobs, NEW b \in Bodies, NEW part \in {"files", "html"},
           Begin(j, b, part),
           UNCHANGED <<kept, stored, lifted, row, object, doomed, deleted, hollow, orphaned, faults>>
    PROVE  ObjectsInv'
<1>1. ObjectsTypeOK'
  BY ContentAssumption DEF ObjectsInv, ObjectsTypeOK, Begin, Moves
<1>2. \A i \in Jobs \ {j} : job'[i] = job[i]
  BY DEF ObjectsInv, ObjectsTypeOK, Begin
<1>3. job'[j] = [body |-> b, part |-> part, step |-> "touch",
                 todo |-> IF part = "files" THEN Attached[b] ELSE Inlined[b], sent |-> {}]
  BY DEF ObjectsInv, ObjectsTypeOK, Begin
<1>4. MoveIsFresh'
  BY <1>2, <1>3 DEF ObjectsInv, MoveIsFresh, Past, Wanted
<1>5. MoveStarts'
  BY <1>2, <1>3 DEF ObjectsInv, MoveStarts, Wanted
<1>6. (NamedHasRow /\ RowHasObject /\ DoomedUnwanted)'
  BY DEF ObjectsInv, NamedHasRow, RowHasObject, DoomedUnwanted, Names
<1>. QED  BY <1>1, <1>4, <1>5, <1>6 DEF ObjectsInv

\* A run stops: the others are as they were.
LEMMA StopInv ==
    ASSUME ObjectsInv, NEW j \in Jobs, job' = [job EXCEPT ![j] = Idle],
           UNCHANGED <<kept, stored, lifted, row, object, doomed, deleted, hollow>>,
           orphaned' \subseteq Hashes, faults' \in 0..MaxFaults
    PROVE  ObjectsInv'
<1>1. ObjectsTypeOK'
  BY DEF ObjectsInv, ObjectsTypeOK
<1>2. \A i \in Jobs \ {j} : job'[i] = job[i]
  BY DEF ObjectsInv, ObjectsTypeOK
<1>3. job'[j] = Idle
  BY DEF ObjectsInv, ObjectsTypeOK
<1>4. MoveIsFresh' /\ MoveStarts'
  BY <1>2, <1>3 DEF ObjectsInv, MoveIsFresh, MoveStarts, Past, Wanted
<1>5. (NamedHasRow /\ RowHasObject /\ DoomedUnwanted)'
  BY DEF ObjectsInv, NamedHasRow, RowHasObject, DoomedUnwanted, Names
<1>. QED  BY <1>1, <1>4, <1>5 DEF ObjectsInv

\* The touch: what has a row becomes fresh, and the locks of the sweep keep it away.
LEMMA TouchInv ==
    ASSUME ObjectsInv, NEW j \in Jobs, Touch(j)
    PROVE  ObjectsInv'
<1>0. /\ job[j] \in Moves /\ Wanted(j) \subseteq Hashes
      /\ job[j].sent = {} /\ job[j].todo = Wanted(j)
  BY WantedType DEF ObjectsInv, Touch, MoveStarts
<1>1. \A i \in Jobs \ {j} : job'[i] = job[i]
  BY DEF ObjectsInv, ObjectsTypeOK, Touch, Touched
<1>2. job'[j] = [job[j] EXCEPT !.step = "put",
                              !.todo = {h \in job[j].todo : row[h] = "none"}]
  BY <1>0 DEF ObjectsInv, ObjectsTypeOK, Touch, Touched
<1>3. /\ job'[j] \in Moves /\ job'[j].body = job[j].body /\ job'[j].part = job[j].part
      /\ job'[j].sent = {} /\ job'[j].step = "put"
      /\ job'[j].todo = {h \in Wanted(j) : row[h] = "none"}
  BY <1>0, <1>2 DEF Moves
<1>4. \A h \in Hashes : row'[h] = IF h \in Wanted(j) /\ row[h] # "none" THEN "fresh" ELSE row[h]
  BY DEF Touch, Touched
<1>5. ObjectsTypeOK'
  <2>1. row' \in [Hashes -> Ages]
    BY DEF Touch, Touched, ObjectsInv, ObjectsTypeOK, Ages
  <2>2. job' \in [Jobs -> Moves \cup {Idle}]
    BY <1>3 DEF Touch, Touched, ObjectsInv, ObjectsTypeOK
  <2>. QED  BY <2>1, <2>2 DEF Touch, ObjectsInv, ObjectsTypeOK
<1>6. \A i \in Jobs : Wanted(i)' = Wanted(i)
  BY <1>1, <1>3 DEF Wanted
<1>7. MoveIsFresh'
  <2> SUFFICES ASSUME NEW i \in Jobs, Past(i)'
               PROVE  /\ job'[i].sent \subseteq job'[i].todo
                      /\ job'[i].sent \subseteq object'
                      /\ job'[i].todo \subseteq Wanted(i)'
                      /\ \A h \in Wanted(i)' : /\ row'[h] # "stale"
                                               /\ h \notin job'[i].todo => row'[h] = "fresh"
    BY DEF MoveIsFresh
  <2>1. CASE i = j
    <3>1. \A h \in Wanted(j) : row[h] \in Ages /\ row'[h] = IF row[h] # "none" THEN "fresh" ELSE row[h]
      BY <1>0, <1>4 DEF ObjectsInv, ObjectsTypeOK
    <3>. QED  BY <2>1, <3>1, <1>3, <1>6 DEF Ages
  <2>2. CASE i # j
    <3>1. Past(i) /\ job'[i] = job[i] /\ job[i] \in Moves /\ Wanted(i) \subseteq Hashes
      BY <2>2, <1>1, WantedType DEF Past, ObjectsInv
    <3>2. object' = object
      BY DEF Touch
    <3>. QED  BY <3>1, <3>2, <1>4, <1>6 DEF ObjectsInv, MoveIsFresh
  <2>. QED  BY <2>1, <2>2
<1>8. MoveStarts'
  BY <1>1, <1>3, <1>6 DEF ObjectsInv, MoveStarts
<1>9. UNCHANGED <<kept, stored, lifted, object, doomed, deleted, hollow>>
      /\ Wanted(j) \cap doomed = {}
  BY DEF Touch
<1>10. \A b \in Bodies : Names(b) \subseteq Hashes
  BY ContentAssumption DEF Names
<1>11. NamedHasRow'
  BY <1>4, <1>9, <1>10 DEF ObjectsInv, ObjectsTypeOK, NamedHasRow, Names
<1>12. RowHasObject'
  BY <1>4, <1>9 DEF ObjectsInv, RowHasObject
<1>13. DoomedUnwanted'
  BY <1>4, <1>9 DEF ObjectsInv, ObjectsTypeOK, DoomedUnwanted, Names
<1>. QED  BY <1>5, <1>7, <1>8, <1>11, <1>12, <1>13 DEF ObjectsInv

\* The upload of an object that has no row.
LEMMA PutInv ==
    ASSUME ObjectsInv, NEW j \in Jobs, Put(j)
    PROVE  ObjectsInv'
<1>0. PICK h \in job[j].todo : /\ object' = object \cup {h}
                               /\ hollow' = hollow \ {h}
                               /\ job' = [job EXCEPT ![j].sent = {h}]
  BY DEF Put
<1>1. /\ job[j] \in Moves /\ Past(j) /\ Wanted(j) \subseteq Hashes /\ job[j].todo \subseteq Wanted(j)
  BY WantedType DEF ObjectsInv, Put, Past, MoveIsFresh
<1>2. UNCHANGED <<kept, stored, lifted, row, doomed, deleted, orphaned, faults>>
  BY DEF Put
<1>3. \A i \in Jobs \ {j} : job'[i] = job[i]
  BY <1>0 DEF ObjectsInv, ObjectsTypeOK
<1>4. job'[j] = [job[j] EXCEPT !.sent = {h}]
  BY <1>0 DEF ObjectsInv, ObjectsTypeOK
<1>5. /\ job'[j] \in Moves /\ job'[j].body = job[j].body /\ job'[j].part = job[j].part
      /\ job'[j].sent = {h} /\ job'[j].step = job[j].step /\ job'[j].todo = job[j].todo
  BY <1>1, <1>4 DEF Moves
<1>6. ObjectsTypeOK'
  BY <1>0, <1>1, <1>2, <1>5 DEF ObjectsInv, ObjectsTypeOK
<1>7. \A i \in Jobs : Wanted(i)' = Wanted(i)
  BY <1>3, <1>5 DEF Wanted
<1>8. MoveIsFresh'
  BY <1>0, <1>1, <1>2, <1>3, <1>5, <1>7 DEF ObjectsInv, MoveIsFresh, Past
<1>9. MoveStarts'
  BY <1>1, <1>3, <1>5, <1>7 DEF ObjectsInv, MoveStarts, Past
<1>10. NamedHasRow' /\ DoomedUnwanted'
  BY <1>2 DEF ObjectsInv, NamedHasRow, DoomedUnwanted, Names
<1>11. RowHasObject'
  BY <1>0, <1>2 DEF ObjectsInv, RowHasObject
<1>. QED  BY <1>6, <1>8, <1>9, <1>10, <1>11 DEF ObjectsInv

\* The row after the upload.
LEMMA InsertInv ==
    ASSUME ObjectsInv, NEW j \in Jobs, Insert(j)
    PROVE  ObjectsInv'
<1>1. /\ job[j] \in Moves /\ Past(j) /\ Wanted(j) \subseteq Hashes
      /\ job[j].todo \subseteq Wanted(j) /\ job[j].sent \subseteq job[j].todo
      /\ job[j].sent \subseteq object /\ job[j].sent \cap doomed = {}
  BY WantedType DEF ObjectsInv, Insert, Past, MoveIsFresh
<1>2. UNCHANGED <<kept, stored, lifted, object, doomed, deleted, hollow, faults>>
      /\ orphaned' \subseteq orphaned
  BY DEF Insert
<1>3. \A i \in Jobs \ {j} : job'[i] = job[i]
  BY DEF Insert, ObjectsInv, ObjectsTypeOK
<1>4. job'[j] = [job[j] EXCEPT !.todo = job[j].todo \ job[j].sent, !.sent = {}]
  BY <1>1 DEF Insert, ObjectsInv, ObjectsTypeOK
<1>5. /\ job'[j] \in Moves /\ job'[j].body = job[j].body /\ job'[j].part = job[j].part
      /\ job'[j].sent = {} /\ job'[j].step = job[j].step
      /\ job'[j].todo = job[j].todo \ job[j].sent
  BY <1>1, <1>4 DEF Moves
<1>6. \A h \in Hashes : row'[h] = IF h \in job[j].sent THEN "fresh" ELSE row[h]
  BY DEF Insert
<1>7. ObjectsTypeOK'
  <2>1. row' \in [Hashes -> Ages]
    BY DEF Insert, ObjectsInv, ObjectsTypeOK, Ages
  <2>2. job' \in [Jobs -> Moves \cup {Idle}]
    BY <1>5 DEF Insert, ObjectsInv, ObjectsTypeOK
  <2>. QED  BY <2>1, <2>2, <1>2 DEF ObjectsInv, ObjectsTypeOK
<1>8. \A i \in Jobs : Wanted(i)' = Wanted(i)
  BY <1>3, <1>5 DEF Wanted
<1>9. MoveIsFresh'
  <2> SUFFICES ASSUME NEW i \in Jobs, Past(i)'
               PROVE  /\ job'[i].sent \subseteq job'[i].todo
                      /\ job'[i].sent \subseteq object'
                      /\ job'[i].todo \subseteq Wanted(i)'
                      /\ \A h \in Wanted(i)' : /\ row'[h] # "stale"
                                               /\ h \notin job'[i].todo => row'[h] = "fresh"
    BY DEF MoveIsFresh
  <2>1. CASE i = j
    BY <2>1, <1>1, <1>5, <1>6, <1>8 DEF ObjectsInv, MoveIsFresh
  <2>2. CASE i # j
    <3>1. Past(i) /\ job'[i] = job[i] /\ job[i] \in Moves /\ Wanted(i) \subseteq Hashes
      BY <2>2, <1>3, WantedType DEF Past, ObjectsInv
    <3>. QED  BY <3>1, <1>2, <1>6, <1>8 DEF ObjectsInv, MoveIsFresh
  <2>. QED  BY <2>1, <2>2
<1>10. MoveStarts'
  BY <1>1, <1>3, <1>5, <1>8 DEF ObjectsInv, MoveStarts, Past
<1>11. \A b \in Bodies : Names(b) \subseteq Hashes
  BY ContentAssumption DEF Names
<1>12. NamedHasRow'
  BY <1>2, <1>6, <1>11 DEF ObjectsInv, ObjectsTypeOK, NamedHasRow, Names
<1>13. RowHasObject'
  BY <1>1, <1>2, <1>6 DEF ObjectsInv, RowHasObject
<1>14. DoomedUnwanted'
  BY <1>1, <1>2, <1>6 DEF ObjectsInv, ObjectsTypeOK, DoomedUnwanted, Names
<1>. QED  BY <1>7, <1>9, <1>10, <1>12, <1>13, <1>14 DEF ObjectsInv

\* The body names what the run made fresh, and only that is new.
LEMMA RewriteInv ==
    ASSUME ObjectsInv, NEW j \in Jobs, NEW same \in {FALSE, Holds(j)}, Rewrite(j, same)
    PROVE  ObjectsInv'
<1>1. /\ job[j] \in Moves /\ Past(j) /\ Wanted(j) \subseteq Hashes /\ job[j].todo = {}
      /\ \A h \in Wanted(j) : row[h] = "fresh"
  BY WantedType DEF ObjectsInv, Rewrite, Past, MoveIsFresh
<1>2. /\ UNCHANGED <<kept, row, object, doomed, deleted, hollow, orphaned, faults>>
      /\ job' = [job EXCEPT ![j] = Idle]
  BY DEF Rewrite
<1>3. CASE ~same
  BY <1>2, <1>3, StopInv DEF Rewrite, ObjectsInv, ObjectsTypeOK
<1>4. CASE same
  <2>0. Holds(j) /\ job[j].body \in kept
    BY <1>4 DEF Holds
  <2>1. \A b \in kept : Names(b)' \subseteq Names(b) \cup Wanted(j)
    BY <1>1, <1>4 DEF Rewrite, Names, Wanted, Moves
  <2>2. stored' \subseteq kept /\ lifted' \subseteq kept
    BY <1>4, <2>0 DEF Rewrite, ObjectsInv, ObjectsTypeOK
  <2>3. ObjectsTypeOK'
    BY <1>2, <2>2 DEF ObjectsInv, ObjectsTypeOK
  <2>4. \A i \in Jobs \ {j} : job'[i] = job[i]
    BY <1>2 DEF ObjectsInv, ObjectsTypeOK
  <2>5. job'[j] = Idle
    BY <1>2 DEF ObjectsInv, ObjectsTypeOK
  <2>6. MoveIsFresh' /\ MoveStarts'
    BY <1>2, <2>4, <2>5 DEF ObjectsInv, MoveIsFresh, MoveStarts, Past, Wanted
  <2>7. NamedHasRow'
    BY <1>1, <1>2, <2>1 DEF ObjectsInv, NamedHasRow
  <2>8. RowHasObject'
    BY <1>2 DEF ObjectsInv, RowHasObject
  <2>9. DoomedUnwanted'
    BY <1>1, <1>2, <2>1 DEF ObjectsInv, DoomedUnwanted
  <2>. QED  BY <2>3, <2>6, <2>7, <2>8, <2>9 DEF ObjectsInv
<1>. QED  BY <1>3, <1>4 DEF Holds

\* Only a row that no run wants goes stale.
LEMMA GoStaleInv ==
    ASSUME ObjectsInv, NEW h \in Hashes, GoStale(h)
    PROVE  ObjectsInv'
<1>1. /\ UNCHANGED <<kept, stored, lifted, object, job, doomed, deleted, hollow, orphaned, faults>>
      /\ row[h] = "fresh" /\ row' = [row EXCEPT ![h] = "stale"]
      /\ \A j \in Jobs : Past(j) => h \notin Wanted(j)
  BY DEF GoStale
<1>2. ObjectsTypeOK'
  BY <1>1 DEF ObjectsInv, ObjectsTypeOK, Ages
<1>3. \A g \in Hashes : row'[g] = IF g = h THEN "stale" ELSE row[g]
  BY <1>1 DEF ObjectsInv, ObjectsTypeOK
<1>4. MoveIsFresh' /\ MoveStarts'
  <2> SUFFICES ASSUME NEW j \in Jobs, Past(j), NEW g \in Wanted(j)
               PROVE  row'[g] = row[g]
    BY <1>1 DEF ObjectsInv, MoveIsFresh, MoveStarts, Past, Wanted
  <2>. QED  BY <1>1, <1>3, WantedType DEF Past, ObjectsInv
<1>5. \A b \in Bodies : Names(b) \subseteq Hashes
  BY ContentAssumption DEF Names
<1>6. NamedHasRow'
  BY <1>1, <1>3, <1>5 DEF ObjectsInv, ObjectsTypeOK, NamedHasRow, Names
<1>7. RowHasObject'
  BY <1>1, <1>3 DEF ObjectsInv, RowHasObject
<1>8. DoomedUnwanted'
  BY <1>1, <1>3 DEF ObjectsInv, ObjectsTypeOK, DoomedUnwanted, Names
<1>. QED  BY <1>2, <1>4, <1>6, <1>7, <1>8 DEF ObjectsInv

\* A body that goes takes its references with it.
LEMMA ExpireInv ==
    ASSUME ObjectsInv, NEW b \in Bodies, Expire(b)
    PROVE  ObjectsInv'
<1>1. /\ UNCHANGED <<row, object, job, doomed, deleted, hollow, orphaned, faults>>
      /\ kept' = kept \ {b} /\ stored' = stored \ {b} /\ lifted' = lifted \ {b}
  BY DEF Expire
<1>2. ObjectsTypeOK'
  BY <1>1 DEF ObjectsInv, ObjectsTypeOK
<1>3. \A c \in kept' : c \in kept /\ Names(c)' = Names(c)
  BY <1>1 DEF Names
<1>4. (NamedHasRow /\ RowHasObject /\ DoomedUnwanted)'
  BY <1>1, <1>3 DEF ObjectsInv, NamedHasRow, RowHasObject, DoomedUnwanted
<1>5. MoveIsFresh' /\ MoveStarts'
  BY <1>1 DEF ObjectsInv, MoveIsFresh, MoveStarts, Past, Wanted
<1>. QED  BY <1>2, <1>4, <1>5 DEF ObjectsInv

\* The sweep, from its locks to its commit, or to none.
LEMMA SweepInv ==
    ASSUME ObjectsInv, Sweep \/ SweepFails
    PROVE  ObjectsInv'
<1>1. CASE SweepReads
  <2>1. UNCHANGED <<kept, stored, lifted, row, object, job, deleted, hollow, orphaned, faults>>
        /\ doomed' = Unwanted
    BY <1>1 DEF SweepReads
  <2>2. ObjectsTypeOK'
    BY <1>1, <2>1 DEF SweepReads, Unwanted, ObjectsInv, ObjectsTypeOK
  <2>3. DoomedUnwanted'
    BY <2>1 DEF Unwanted, Named, DoomedUnwanted, Names
  <2>4. NamedHasRow' /\ RowHasObject' /\ MoveIsFresh' /\ MoveStarts'
    BY <2>1 DEF ObjectsInv, NamedHasRow, RowHasObject, MoveIsFresh, MoveStarts, Past, Wanted, Names
  <2>. QED  BY <2>2, <2>3, <2>4 DEF ObjectsInv
<1>2. ASSUME NEW h \in Hashes, SweepDeletes(h) PROVE ObjectsInv'
  <2>1. /\ UNCHANGED <<kept, stored, lifted, row, job, doomed, hollow, orphaned, faults>>
        /\ h \in doomed /\ object' = object \ {h} /\ deleted' = deleted \cup {h}
    BY <1>2 DEF SweepDeletes
  <2>2. ObjectsTypeOK'
    BY <2>1 DEF ObjectsInv, ObjectsTypeOK
  <2>3. NamedHasRow' /\ DoomedUnwanted' /\ MoveStarts'
    BY <2>1 DEF ObjectsInv, NamedHasRow, DoomedUnwanted, MoveStarts, Wanted, Names
  <2>4. RowHasObject'
    BY <2>1 DEF ObjectsInv, RowHasObject
  <2>5. \A j \in Jobs : Past(j) => h \notin job[j].sent
    BY <2>1 DEF ObjectsInv, DoomedUnwanted, MoveIsFresh
  <2>6. MoveIsFresh'
    BY <2>1, <2>5 DEF ObjectsInv, MoveIsFresh, Past, Wanted
  <2>. QED  BY <2>2, <2>3, <2>4, <2>6 DEF ObjectsInv
<1>3. CASE SweepCommits
  <2>1. /\ UNCHANGED <<kept, stored, lifted, object, job, orphaned, faults>>
        /\ deleted = doomed /\ doomed' = {} /\ deleted' = {} /\ hollow' = hollow \ doomed
        /\ row' = [h \in Hashes |-> IF h \in doomed THEN "none" ELSE row[h]]
    BY <1>3 DEF SweepCommits, RowsDeleted
  <2>2. ObjectsTypeOK'
    BY <2>1 DEF ObjectsInv, ObjectsTypeOK, Ages
  <2>3. RowHasObject' /\ DoomedUnwanted'
    BY <2>1 DEF ObjectsInv, RowHasObject, DoomedUnwanted
  <2>4. \A b \in Bodies : Names(b) \subseteq Hashes
    BY ContentAssumption DEF Names
  <2>5. NamedHasRow'
    BY <2>1, <2>4 DEF ObjectsInv, ObjectsTypeOK, NamedHasRow, DoomedUnwanted, Names
  <2>6. \A j \in Jobs : Past(j) => \A h \in Wanted(j) : row'[h] = row[h]
    BY <2>1, WantedType DEF ObjectsInv, DoomedUnwanted, MoveIsFresh, Past
  <2>7. MoveIsFresh' /\ MoveStarts'
    BY <2>1, <2>6 DEF ObjectsInv, MoveIsFresh, MoveStarts, Past, Wanted
  <2>. QED  BY <2>2, <2>3, <2>5, <2>7 DEF ObjectsInv
<1>4. CASE SweepFails
  <2>1. /\ UNCHANGED <<kept, stored, lifted, row, object, job, orphaned>>
        /\ doomed' = {} /\ deleted' = {} /\ hollow' = hollow \cup deleted
    BY <1>4 DEF SweepFails
  <2>2. faults' \in 0..MaxFaults
    BY <1>4, ContentAssumption DEF SweepFails, ObjectsInv, ObjectsTypeOK
  <2>3. ObjectsTypeOK'
    BY <2>1, <2>2 DEF ObjectsInv, ObjectsTypeOK
  <2>4. NamedHasRow' /\ RowHasObject' /\ DoomedUnwanted' /\ MoveIsFresh' /\ MoveStarts'
    BY <2>1 DEF ObjectsInv, NamedHasRow, RowHasObject, DoomedUnwanted, MoveIsFresh, MoveStarts,
                Past, Wanted, Names
  <2>. QED  BY <2>3, <2>4 DEF ObjectsInv
<1>. QED  BY <1>1, <1>2, <1>3, <1>4 DEF Sweep

LEMMA ObjectsStepInv == ObjectsInv /\ [ObjectsNext]_objectVars => ObjectsInv'
<1> SUFFICES ASSUME ObjectsInv, [ObjectsNext]_objectVars PROVE ObjectsInv'
  OBVIOUS
<1>1. ASSUME NEW j \in Jobs, NEW b \in Bodies, StoreReads(j, b) PROVE ObjectsInv'
  BY <1>1, BeginInv DEF StoreReads
<1>2. ASSUME NEW j \in Jobs, NEW b \in Bodies, LiftReads(j, b) PROVE ObjectsInv'
  BY <1>2, BeginInv DEF LiftReads
<1>3. ASSUME NEW j \in Jobs, Touch(j) PROVE ObjectsInv'
  BY <1>3, TouchInv
<1>4. ASSUME NEW j \in Jobs, Put(j) PROVE ObjectsInv'
  BY <1>4, PutInv
<1>5. ASSUME NEW j \in Jobs, Insert(j) PROVE ObjectsInv'
  BY <1>5, InsertInv
<1>6. ASSUME NEW j \in Jobs, Fail(j) PROVE ObjectsInv'
  <2>1. faults' \in 0..MaxFaults
    BY <1>6, ContentAssumption DEF Fail, ObjectsInv, ObjectsTypeOK
  <2>2. orphaned' \subseteq Hashes
    <3>1. job[j] \in Moves
      BY <1>6, WantedType DEF Fail, ObjectsInv
    <3>. QED  BY <1>6, <3>1 DEF Fail, Moves, ObjectsInv, ObjectsTypeOK
  <2>. QED  BY <1>6, <2>1, <2>2, StopInv DEF Fail
<1>7. ASSUME NEW j \in Jobs, NEW same \in {FALSE, Holds(j)}, Rewrite(j, same) PROVE ObjectsInv'
  BY <1>7, RewriteInv
<1>8. ASSUME NEW h \in Hashes, GoStale(h) PROVE ObjectsInv'
  BY <1>8, GoStaleInv
<1>9. ASSUME NEW b \in Bodies, Expire(b) PROVE ObjectsInv'
  BY <1>9, ExpireInv
<1>10. CASE Sweep \/ SweepFails
  BY <1>10, SweepInv
<1>11. CASE FailElsewhere
  <2>1. UNCHANGED <<kept, stored, lifted, row, object, job, doomed, deleted, hollow, orphaned>>
        /\ faults' \in 0..MaxFaults
    BY <1>11, ContentAssumption DEF FailElsewhere, ObjectsInv, ObjectsTypeOK
  <2>2. ObjectsTypeOK'
    BY <2>1 DEF ObjectsInv, ObjectsTypeOK
  <2>. QED  BY <2>1, <2>2 DEF ObjectsInv, NamedHasRow, RowHasObject, DoomedUnwanted, MoveIsFresh,
                              MoveStarts, Past, Wanted, Names
<1>12. CASE UNCHANGED objectVars
  BY <1>12 DEF objectVars, ObjectsInv, ObjectsTypeOK, NamedHasRow, RowHasObject, DoomedUnwanted,
               MoveIsFresh, MoveStarts, Past, Wanted, Names
<1>. QED  BY <1>1, <1>2, <1>3, <1>4, <1>5, <1>6, <1>7, <1>8, <1>9, <1>10, <1>11, <1>12 DEF ObjectsNext

LEMMA InvNothingLost == ObjectsInv => NothingLost
<1> SUFFICES ASSUME ObjectsInv, NEW b \in kept, NEW h \in Names(b)
             PROVE  h \in object \cup hollow
  BY DEF NothingLost
<1>1. h \in Hashes
  BY ContentAssumption DEF ObjectsInv, ObjectsTypeOK, Names
<1>2. h \notin deleted
  BY DEF ObjectsInv, ObjectsTypeOK, DoomedUnwanted
<1>. QED  BY <1>1, <1>2 DEF ObjectsInv, NamedHasRow, RowHasObject

-----------------------------------------------------------------------------
(* The bodies are moved as objects are *)

\* Every step of the content job and of the retention job is a step of ContentObjects
\* or leaves the objects alone (content/compact.ts, content/packs.ts).
LEMMA StepsRefine == Next => [ObjectsNext]_objectVars
<1> SUFFICES ASSUME Next PROVE [ObjectsNext]_objectVars
  OBVIOUS
<1>1. ASSUME NEW j \in Jobs, Works(j) PROVE [ObjectsNext]_objectVars
  <2>1. CASE Stores(j)
    BY <2>1 DEF Stores, StoreStep, ObjectsNext
  <2>2. CASE Lifts(j)
    <3>1. \E same \in {FALSE, Holds(j)} : Rewrite(j, same)
      BY <2>2 DEF Lifts, Holds
    <3>. QED  BY <3>1 DEF ObjectsNext
  <2>3. CASE Link(j) \/ Stamp(j) \/ Promote(j) \/ PackRow(j) \/ PackPut(j) \/ Release(j)
    BY <2>3 DEF Link, Stamp, Promote, PackRow, PackPut, Release
  <2>. QED  BY <1>1, <2>1, <2>2, <2>3 DEF Works
<1>2. ASSUME NEW j \in Jobs, CompactReads(j) PROVE [ObjectsNext]_objectVars
  <2>1. (\E b \in Bodies : LiftReads(j, b)) \/ UNCHANGED objectVars
    BY <1>2 DEF CompactReads
  <2>. QED  BY <2>1 DEF ObjectsNext
<1>3. ASSUME NEW j \in Jobs, PromoteReads(j) \/ PackReads(j) PROVE [ObjectsNext]_objectVars
  BY <1>3 DEF PromoteReads, PackReads
<1>4. ASSUME NEW j \in Jobs, Fails(j) PROVE [ObjectsNext]_objectVars
  BY <1>4 DEF Fails, ObjectsNext
<1>5. ASSUME NEW b \in Bodies, Expires(b) \/ WeekPasses(b) PROVE [ObjectsNext]_objectVars
  BY <1>5 DEF Expires, WeekPasses, ObjectsNext
<1>6. CASE (Passing \/ Sweep \/ SweepFails) /\ UNCHANGED bodyVars
  BY <1>6 DEF Passing, ObjectsNext
<1>7. ASSUME NEW f \in Forms, TemplateAges(f) PROVE [ObjectsNext]_objectVars
  BY <1>7 DEF TemplateAges
<1>8. ASSUME NEW p \in Packs, PackAges(p) PROVE [ObjectsNext]_objectVars
  BY <1>8 DEF PackAges
<1>9. CASE SweepTemplates \/ (SweepPacks /\ UNCHANGED objectVars) \/ PackSweepFails
  BY <1>9 DEF SweepTemplates, PackSweepFails, ObjectsNext
<1>. QED  BY <1>1, <1>2, <1>3, <1>4, <1>5, <1>6, <1>7, <1>8, <1>9 DEF Next

\* Whatever becomes of the html, its images are moved as attachments are: the bodies
\* implement ContentObjects.
THEOREM BodiesMoveObjects == Spec => ObjectsSpec /\ MovesObjects
<1>1. Init => ObjectsInit
  BY DEF Init
<1>2. [Next]_vars => [ObjectsNext]_objectVars
  BY StepsRefine DEF vars
<1>. QED  BY <1>1, <1>2, PTL DEF Spec, ObjectsSpec, MovesObjects

\* The invariant of the touch, the upload, the row and the sweep's locks.
THEOREM ObjectsInductive == ObjectsSpec => []ObjectsInv
BY ObjectsInitInv, ObjectsStepInv, PTL DEF ObjectsSpec

\* Whatever runs overlap, fail or are killed, a body names only what is in R2, but for
\* what a sweep deleted and rolled back (content/attachments.ts).
THEOREM ObjectsNotLost == Spec => []NothingLost
BY BodiesMoveObjects, ObjectsInductive, InvNothingLost, PTL

=============================================================================
