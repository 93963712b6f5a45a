--------------------------- MODULE ContentObjects ---------------------------
(***************************************************************************)
(* The files and images of one workspace's finished messages in R2, by     *)
(* content hash (content/attachments.ts, content/inline.ts).               *)
(*                                                                         *)
(* A run of the content job moves what a body holds: touch the rows of its *)
(* hashes, upload what has no row and insert the row, rewrite the body.    *)
(* The retention job deletes bodies, and sweeps the objects that none      *)
(* names.  Nothing counts references: the body rows are the references.    *)
(* core.content_objects says what is in R2, and R2 does not commit with    *)
(* Postgres.                                                               *)
(***************************************************************************)
EXTENDS Integers, FiniteSets

CONSTANTS
    Bodies,         \* core.message_bodies of finished messages
    Hashes,
    Attached,       \* the files of each body
    Inlined,        \* the data-URI images of each body's html
    Jobs,           \* runs of the content job; one is the rule, two are said to be harmless
    Idle,
    MaxFaults       \* BOUND: thrown errors, killed pods and failed commits

ASSUME ContentAssumption ==
    /\ Attached \in [Bodies -> SUBSET Hashes]
    /\ Inlined \in [Bodies -> SUBSET Hashes]
    /\ Idle \notin [body : Bodies, part : {"files", "html"}, step : {"touch", "put"},
                    todo : SUBSET Hashes, sent : SUBSET Hashes]
    /\ MaxFaults \in Nat

VARIABLES
    kept,           \* bodies that retention has not deleted
    stored,         \* attachments_stored_at is set: the files are named, not held
    lifted,         \* inline_objects is set: the html refers to its images
    row,            \* core.content_objects: none, or past the grace or not
    object,         \* what is in R2
    job,            \* the putObjects under way in each run
    doomed,         \* the sweep's transaction: the rows it has locked
    deleted,        \* and the objects of them it has deleted in R2
    hollow,         \* history: deleted in R2 by a sweep that did not commit
    orphaned,       \* history: uploaded by a run that died before it wrote the row
    faults          \* history: what went wrong so far

objectVars == <<kept, stored, lifted, row, object, job, doomed, deleted, hollow, orphaned, faults>>

Ages == {"none", "fresh", "stale"}
Moves == [body : Bodies, part : {"files", "html"}, step : {"touch", "put"},
          todo : SUBSET Hashes, sent : SUBSET Hashes]

ObjectsTypeOK ==
    /\ kept \subseteq Bodies
    /\ stored \subseteq kept
    /\ lifted \subseteq kept
    /\ row \in [Hashes -> Ages]
    /\ object \subseteq Hashes
    /\ job \in [Jobs -> Moves \cup {Idle}]
    /\ doomed \subseteq Hashes
    /\ deleted \subseteq doomed
    /\ hollow \subseteq Hashes
    /\ orphaned \subseteq Hashes
    /\ faults \in 0..MaxFaults

ObjectsInit ==
    /\ kept = Bodies
    /\ stored = {} /\ lifted = {}
    /\ row = [h \in Hashes |-> "none"]
    /\ object = {}
    /\ job = [j \in Jobs |-> Idle]
    /\ doomed = {} /\ deleted = {}
    /\ hollow = {} /\ orphaned = {}
    /\ faults = 0

\* What a body's row names, and so what it is lost without.
Names(b) == (IF b \in stored THEN Attached[b] ELSE {})
                \cup (IF b \in lifted THEN Inlined[b] ELSE {})
Named == UNION {Names(b) : b \in kept}

-----------------------------------------------------------------------------
(* The content job *)

Wanted(j) == IF job[j].part = "files" THEN Attached[job[j].body] ELSE Inlined[job[j].body]

Begin(j, b, part) ==
    job' = [job EXCEPT ![j] =
              [body |-> b, part |-> part, step |-> "touch",
               todo |-> IF part = "files" THEN Attached[b] ELSE Inlined[b], sent |-> {}]]

\* storeAttachments lists the bodies that still hold their files.
StoreReads(j, b) ==
    /\ job[j] = Idle
    /\ b \in kept \ stored /\ Attached[b] # {}
    /\ Begin(j, b, "files")
    /\ UNCHANGED <<kept, stored, lifted, row, object, doomed, deleted, hollow, orphaned, faults>>

\* compactContent finds data-URI images in a body it examines.
LiftReads(j, b) ==
    /\ job[j] = Idle
    /\ b \in kept \ lifted /\ Inlined[b] # {}
    /\ Begin(j, b, "html")
    /\ UNCHANGED <<kept, stored, lifted, row, object, doomed, deleted, hollow, orphaned, faults>>

Past(j) == job[j] # Idle /\ job[j].step = "put"

\* A bug: the rows are read and not touched.
LooksOnly(j) ==
    /\ UNCHANGED row
    /\ job' = [job EXCEPT ![j].step = "put",
                          ![j].todo = {h \in @ : row[h] = "none"}]

\* A row there is made fresh; no row is work to do.
Touched(j) ==
    /\ row' = [h \in Hashes |-> IF h \in Wanted(j) /\ row[h] # "none" THEN "fresh" ELSE row[h]]
    /\ job' = [job EXCEPT ![j].step = "put",
                          ![j].todo = {h \in @ : row[h] = "none"}]

\* The update waits for the sweep's locks.
Touch(j) ==
    /\ job[j] # Idle /\ job[j].step = "touch"
    /\ Wanted(j) \cap doomed = {}
    /\ Touched(j)
    /\ UNCHANGED <<kept, stored, lifted, object, doomed, deleted, hollow, orphaned, faults>>

Put(j) ==
    /\ Past(j) /\ job[j].sent = {}
    /\ \E h \in job[j].todo :
         /\ object' = object \cup {h}
         /\ hollow' = hollow \ {h}
         /\ job' = [job EXCEPT ![j].sent = {h}]
    /\ UNCHANGED <<kept, stored, lifted, row, doomed, deleted, orphaned, faults>>

\* The row only after the upload.
Insert(j) ==
    /\ Past(j) /\ job[j].sent # {}
    /\ job[j].sent \cap doomed = {}
    /\ row' = [h \in Hashes |-> IF h \in job[j].sent THEN "fresh" ELSE row[h]]
    /\ job' = [job EXCEPT ![j].todo = @ \ job[j].sent, ![j].sent = {}]
    /\ orphaned' = orphaned \ job[j].sent
    /\ UNCHANGED <<kept, stored, lifted, object, doomed, deleted, hollow, faults>>

\* The body is still there and still holds what was read.
Holds(j) ==
    job[j] # Idle /\ job[j].body \in (IF job[j].part = "files" THEN kept \ stored ELSE kept \ lifted)

\* The guarded update.
Rewrite(j, same) ==
    /\ Past(j) /\ job[j].todo = {}
    /\ IF same
       THEN \/ /\ job[j].part = "files"
               /\ stored' = stored \cup {job[j].body} /\ UNCHANGED lifted
            \/ /\ job[j].part = "html"
               /\ lifted' = lifted \cup {job[j].body} /\ UNCHANGED stored
       ELSE UNCHANGED <<stored, lifted>>
    /\ job' = [job EXCEPT ![j] = Idle]
    /\ UNCHANGED <<kept, row, object, doomed, deleted, hollow, orphaned, faults>>

\* A call throws, or the pod is killed at its deadline of four minutes.
Fail(j) ==
    /\ job[j] # Idle
    /\ faults < MaxFaults /\ faults' = faults + 1
    /\ orphaned' = orphaned \cup {h \in job[j].sent : row[h] = "none"}
    /\ job' = [job EXCEPT ![j] = Idle]
    /\ UNCHANGED <<kept, stored, lifted, row, object, doomed, deleted, hollow>>

\* Another part of a job fails.
FailElsewhere ==
    /\ faults < MaxFaults /\ faults' = faults + 1
    /\ UNCHANGED <<kept, stored, lifted, row, object, job, doomed, deleted, hollow, orphaned>>

-----------------------------------------------------------------------------
(* Time and the retention job *)

\* The grace is hours, a run of the job four minutes: no row that a run has touched or
\* is to insert goes stale before the run ends.
GoStale(h) ==
    /\ row[h] = "fresh"
    /\ \A j \in Jobs : Past(j) => h \notin Wanted(j)
    /\ row' = [row EXCEPT ![h] = "stale"]
    /\ UNCHANGED <<kept, stored, lifted, object, job, doomed, deleted, hollow, orphaned, faults>>

Expire(b) ==
    /\ b \in kept
    /\ kept' = kept \ {b}
    /\ stored' = stored \ {b}
    /\ lifted' = lifted \ {b}
    /\ UNCHANGED <<row, object, job, doomed, deleted, hollow, orphaned, faults>>

\* The rows the sweep takes, FOR UPDATE.
Unwanted == {h \in Hashes : row[h] = "stale" /\ h \notin Named}

SweepReads ==
    /\ doomed = {} /\ Unwanted # {}
    /\ doomed' = Unwanted
    /\ UNCHANGED <<kept, stored, lifted, row, object, job, deleted, hollow, orphaned, faults>>

\* A bug: a delete that R2 refuses is passed over.
SweepSkips(h) ==
    /\ h \in doomed \ deleted
    /\ deleted' = deleted \cup {h}
    /\ UNCHANGED <<kept, stored, lifted, row, object, job, doomed, hollow, orphaned, faults>>

\* Object after object in R2, with the transaction open.
SweepDeletes(h) ==
    /\ h \in doomed \ deleted
    /\ object' = object \ {h}
    /\ deleted' = deleted \cup {h}
    /\ UNCHANGED <<kept, stored, lifted, row, job, doomed, hollow, orphaned, faults>>

RowsDeleted == row' = [h \in Hashes |-> IF h \in doomed THEN "none" ELSE row[h]]

SweepCommits ==
    /\ doomed # {} /\ deleted = doomed
    /\ RowsDeleted
    /\ hollow' = hollow \ doomed
    /\ doomed' = {} /\ deleted' = {}
    /\ UNCHANGED <<kept, stored, lifted, object, job, orphaned, faults>>

\* One delete throws, the commit fails or the pod is killed: every row is back.
SweepFails ==
    /\ doomed # {}
    /\ faults < MaxFaults /\ faults' = faults + 1
    /\ hollow' = hollow \cup deleted
    /\ doomed' = {} /\ deleted' = {}
    /\ UNCHANGED <<kept, stored, lifted, row, object, job, orphaned>>

-----------------------------------------------------------------------------
Sweep == SweepReads \/ SweepCommits \/ \E h \in Hashes : SweepDeletes(h)

\* The html may have changed otherwise.
ObjectsNext ==
    \/ \E j \in Jobs : \/ \E b \in Bodies : StoreReads(j, b) \/ LiftReads(j, b)
                       \/ Touch(j) \/ Put(j) \/ Insert(j) \/ Fail(j)
                       \/ \E same \in {FALSE, Holds(j)} : Rewrite(j, same)
    \/ \E h \in Hashes : GoStale(h)
    \/ \E b \in Bodies : Expire(b)
    \/ Sweep \/ SweepFails \/ FailElsewhere

ObjectsSpec == ObjectsInit /\ [][ObjectsNext]_objectVars

-----------------------------------------------------------------------------
(* What is promised *)

\* What a body names is in R2, unless a sweep deleted it and rolled back, and then a
\* run trusted the row.
NothingLost == \A b \in kept : Names(b) \subseteq object \cup hollow

\* What a body names is in R2: a row is the promise that the object exists
\* (content/attachments.ts).
NamedIsThere == \A b \in kept : Names(b) \subseteq object

\* Objects that no body names leave, row and bytes: but for the bytes that a run uploaded
\* before it died, which no row tells of (content/attachments.ts:242).
EventuallyFreed ==
    <>[](\A h \in Hashes : row[h] # "none" \/ h \in object \ orphaned => h \in Named)
=============================================================================
