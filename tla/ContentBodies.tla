--------------------------- MODULE ContentBodies ---------------------------
(***************************************************************************)
(* How one workspace's bodies are stored once their messages are finished  *)
(* (content/compact.ts, content/packs.ts, content/sweep.ts): in their row, *)
(* as the values of a template, or sealed in a pack in R2.                 *)
(*                                                                         *)
(* Two runs of the content job may overlap: what one read, the other may   *)
(* have rewritten, and every rewrite is guarded on what was read.  The     *)
(* images that compaction lifts out of the html first go the way of        *)
(* ContentObjects.  A body's html is told apart only by that: its images   *)
(* are in it, or it refers to them.                                        *)
(***************************************************************************)
EXTENDS ContentObjects

CONSTANTS
    TemplateIds,
    Packs,
    Nothing,
    PromoteAt       \* matches that establish a template

ASSUME BodiesAssumption ==
    /\ Nothing \notin TemplateIds \cup Packs
    /\ PromoteAt \in Nat \ {0}

VARIABLES
    at,             \* where the html and the text are: "row", "template" or "pack"
    link,           \* template_id, and the html its template_values render to
    examined,       \* examined_at is set
    past,           \* unexamined, and older than compaction's window of a week
    pack,           \* pack_id
    template,       \* core.content_templates, by the html their skeleton is of
    packRow,        \* core.content_packs: none, or past the grace or not
    packed,         \* the packs in R2
    pass,           \* what each run of the job has read
    packsDoomed, packsDeleted,
    undone          \* history: bodies whose link was good when it was taken away

bodyVars == <<at, link, examined, past, pack, template, packRow, packed, pass,
              packsDoomed, packsDeleted, undone>>
vars == <<objectVars, bodyVars>>

Forms == {"whole", "refs"}
Form(b) == IF b \in lifted THEN "refs" ELSE "whole"

Links == [id : TemplateIds, form : Forms]
Unlinked == [id |-> Nothing, form |-> "whole"]
NoTemplate == [id |-> Nothing, messages |-> 0, age |-> "none"]

\* A pass has read, of each body it works on, the html.
Passes == {"match", "promote", "seal", "put", "release"}
NoPass == [step |-> "none", read |-> [b \in {} |-> "whole"], exact |-> FALSE, pack |-> Nothing]

ReadOf(S) == [b \in S |-> Form(b)]

Reads == UNION {[S -> Forms] : S \in SUBSET Bodies}

\* A body that is gone leaves nothing.
BodiesTypeOK ==
    /\ at \in [Bodies -> {"row", "template", "pack"}]
    /\ link \in [Bodies -> Links \cup {Unlinked}]
    /\ examined \subseteq kept
    /\ past \subseteq kept \ examined
    /\ pack \in [Bodies -> Packs \cup {Nothing}]
    /\ \A b \in Bodies : /\ at[b] = "pack" <=> pack[b] # Nothing
                         /\ at[b] = "template" => link[b] # Unlinked \/ b \in undone
                         /\ at[b] = "pack" => link[b] = Unlinked
    /\ template \in [Forms -> [id : TemplateIds, messages : 1..PromoteAt,
                               age : {"fresh", "stale"}] \cup {NoTemplate}]
    /\ packRow \in [Packs -> Ages \cup {"gone"}]
    /\ packed \subseteq Packs
    /\ pass \in [Jobs -> [step : Passes \cup {"none"}, read : Reads, exact : BOOLEAN,
                          pack : Packs \cup {Nothing}]]
    /\ packsDoomed \subseteq Packs
    /\ packsDeleted \subseteq packsDoomed
    /\ undone \subseteq Bodies

TypeOK == ObjectsTypeOK /\ BodiesTypeOK

Init ==
    /\ ObjectsInit
    /\ at = [b \in Bodies |-> "row"]
    /\ link = [b \in Bodies |-> Unlinked]
    /\ examined = {} /\ past = {}
    /\ pack = [b \in Bodies |-> Nothing]
    /\ template = [f \in Forms |-> NoTemplate]
    /\ packRow = [p \in Packs |-> "none"]
    /\ packed = {}
    /\ pass = [j \in Jobs |-> NoPass]
    /\ packsDoomed = {} /\ packsDeleted = {}
    /\ undone = {}

Free(j) == job[j] = Idle /\ pass[j] = NoPass
Begins(j, step, S) == pass' = [pass EXCEPT ![j].step = step, ![j].read = ReadOf(S)]
Ends(j) == pass' = [pass EXCEPT ![j] = NoPass]

\* What a run is at, with its images out of the way.
In(j, step) == job[j] = Idle /\ pass[j].step = step
Its(j) == CHOOSE b \in DOMAIN pass[j].read : TRUE

\* The row still holds the bytes that were read: compared as text, or by MD5.
Same(j, b) == b \in kept /\ at[b] = "row" /\ Form(b) = pass[j].read[b]

-----------------------------------------------------------------------------
(* The attachment pass, and the images of the body that a compaction reads *)

StoreStep(j) ==
    \/ pass[j] = NoPass /\ \E b \in Bodies : StoreReads(j, b)
    \/ Touch(j) \/ Put(j) \/ Insert(j)

Stores(j) ==
    \/ StoreStep(j) /\ UNCHANGED bodyVars
    \/ /\ job[j] # Idle /\ job[j].part = "files"
       /\ Rewrite(j, Holds(j))
       /\ UNCHANGED bodyVars

\* A body examined in vain is read again to be the twin of another.
Twins == {b \in kept \cap examined : at[b] = "row" /\ link[b] = Unlinked}

\* compactContent reads a body it has not examined, and starts on its images.
CompactReads(j) ==
    /\ Free(j)
    /\ \/ \E b \in Bodies :
            /\ b \in kept \ (examined \cup past) /\ at[b] # "template"
            /\ Begins(j, "match", {b})
            /\ IF at[b] = "row" /\ b \notin lifted /\ Inlined[b] # {}
               THEN LiftReads(j, b) ELSE UNCHANGED objectVars
       \/ \E b \in Twins : Begins(j, "match", {b}) /\ UNCHANGED objectVars
    /\ UNCHANGED <<at, link, examined, past, pack, template, packRow, packed,
                   packsDoomed, packsDeleted, undone>>

\* A bug: the html is rewritten before its images are in R2.
LiftsEarly(j) ==
    /\ Past(j) /\ job[j].part = "html"
    /\ LET b == job[j].body
           same == Holds(j) /\ Same(j, b)
       IN /\ lifted' = IF same THEN lifted \cup {b} ELSE lifted
          /\ job' = [job EXCEPT ![j] = Idle]
          /\ pass' = IF same THEN [pass EXCEPT ![j].read[b] = "refs"] ELSE pass
    /\ UNCHANGED <<kept, stored, row, object, doomed, deleted, hollow, orphaned, faults>>
    /\ UNCHANGED <<at, link, examined, past, pack, template, packRow, packed,
                   packsDoomed, packsDeleted, undone>>

\* The html has been read again only if it was this run that rewrote it.
Lifts(j) ==
    /\ job[j] # Idle /\ job[j].part = "html"
    /\ LET b == job[j].body
           same == Holds(j) /\ Same(j, b)
       IN /\ Rewrite(j, same)
          /\ pass' = IF same THEN [pass EXCEPT ![j].read[b] = "refs"] ELSE pass
    /\ UNCHANGED <<at, link, examined, past, pack, template, packRow, packed,
                   packsDoomed, packsDeleted, undone>>

-----------------------------------------------------------------------------
(* Compaction *)

\* The upsert: a match is counted, and a skeleton that has no row gets a new one.
Matched(f) ==
    \E id \in TemplateIds :
      /\ IF template[f] # NoTemplate THEN id = template[f].id
         ELSE \A g \in Forms : template[g].id # id /\ \A b \in kept : link[b].id # id
      /\ template' = [template EXCEPT ![f] =
           [id |-> id, age |-> "fresh",
            messages |-> IF template[f].messages < PromoteAt THEN template[f].messages + 1
                         ELSE PromoteAt]]

Link(j) ==
    /\ In(j, "match")
    /\ LET b == Its(j)
           f == pass[j].read[b]
       IN /\ Matched(f)
          /\ IF Same(j, b)
             THEN /\ link' = [link EXCEPT ![b] = [id |-> template'[f].id, form |-> f]]
                  /\ examined' = examined \cup {b} /\ past' = past \ {b}
                  /\ undone' = undone \ {b}
             ELSE UNCHANGED <<link, examined, past, undone>>
    /\ Ends(j)
    /\ UNCHANGED <<objectVars, at, pack, packRow, packed, packsDoomed, packsDeleted>>

\* It fits nothing, and has no twin.
Stamp(j) ==
    /\ In(j, "match")
    /\ examined' = examined \cup (kept \cap {Its(j)}) /\ past' = past \ {Its(j)}
    /\ Ends(j)
    /\ UNCHANGED <<objectVars, at, link, pack, template, packRow, packed,
                   packsDoomed, packsDeleted, undone>>

\* A linked body of an established template, and whether its values give it back.
PromoteReads(j) ==
    /\ Free(j)
    /\ \E b \in kept, f \in Forms :
         /\ at[b] # "template" /\ link[b] # Unlinked
         /\ template[f].id = link[b].id /\ template[f].messages = PromoteAt
         /\ pass' = [pass EXCEPT ![j].step = "promote", ![j].read = ReadOf({b}),
                                 ![j].exact = link[b].form = Form(b)]
    /\ UNCHANGED <<objectVars, at, link, examined, past, pack, template, packRow, packed,
                   packsDoomed, packsDeleted, undone>>

\* A bug: what was linked is taken to reconstruct.
PromoteUnchecked(j) ==
    /\ In(j, "promote")
    /\ LET b == Its(j) IN at' = IF Same(j, b) THEN [at EXCEPT ![b] = "template"] ELSE at
    /\ Ends(j)
    /\ UNCHANGED <<objectVars, link, examined, past, pack, template, packRow, packed,
                   packsDoomed, packsDeleted, undone>>

Linked(b) == link[b] # Unlinked /\ link[b].form = Form(b)

\* What does not reconstruct is unlinked; that update does not look at the original,
\* nor does the release look at the link.
Promote(j) ==
    /\ In(j, "promote")
    /\ LET b == Its(j)
           pending == b \in kept /\ at[b] # "template"
       IN IF pass[j].exact
          THEN /\ at' = IF Same(j, b) THEN [at EXCEPT ![b] = "template"] ELSE at
               /\ UNCHANGED <<link, undone>>
          ELSE /\ link' = IF pending THEN [link EXCEPT ![b] = Unlinked] ELSE link
               /\ undone' = IF pending /\ Linked(b) THEN undone \cup {b} ELSE undone
               /\ UNCHANGED at
    /\ Ends(j)
    /\ UNCHANGED <<objectVars, examined, past, pack, template, packRow, packed,
                   packsDoomed, packsDeleted>>

-----------------------------------------------------------------------------
(* Packs *)

WeekPasses(b) ==
    /\ b \in kept \ (examined \cup past)
    /\ past' = past \cup {b}
    /\ UNCHANGED <<objectVars, at, link, examined, pack, template, packRow, packed, pass,
                   packsDoomed, packsDeleted, undone>>

\* Examined, or too old for that; a link may have waited its day in vain.
PackReads(j) ==
    /\ Free(j)
    /\ \E S \in SUBSET {b \in kept \cap (examined \cup past) : at[b] = "row"} :
         S # {} /\ Begins(j, "seal", S)
    /\ UNCHANGED <<objectVars, at, link, examined, past, pack, template, packRow, packed,
                   packsDoomed, packsDeleted, undone>>

\* The pack's row first.
PackRow(j) ==
    /\ In(j, "seal")
    /\ \E p \in Packs :
         /\ packRow[p] = "none"
         /\ packRow' = [packRow EXCEPT ![p] = "fresh"]
         /\ pass' = [pass EXCEPT ![j].step = "put", ![j].pack = p]
    /\ UNCHANGED <<objectVars, at, link, examined, past, pack, template, packed,
                   packsDoomed, packsDeleted, undone>>

\* Uploaded, and read back.
PackPut(j) ==
    /\ In(j, "put")
    /\ packed' = packed \cup {pass[j].pack}
    /\ pass' = [pass EXCEPT ![j].step = "release"]
    /\ UNCHANGED <<objectVars, at, link, examined, past, pack, template, packRow,
                   packsDoomed, packsDeleted, undone>>

Released(j) == {b \in DOMAIN pass[j].read : Same(j, b)}

\* A bug: the row goes on looking compacted.
ReleaseLinked(j) ==
    /\ In(j, "release")
    /\ LET S == Released(j) IN
         /\ at' = [b \in Bodies |-> IF b \in S THEN "pack" ELSE at[b]]
         /\ pack' = [b \in Bodies |-> IF b \in S THEN pass[j].pack ELSE pack[b]]
    /\ Ends(j)
    /\ UNCHANGED <<objectVars, link, examined, past, template, packRow, packed,
                   packsDoomed, packsDeleted, undone>>

Release(j) ==
    /\ In(j, "release")
    /\ LET S == Released(j) IN
         /\ at' = [b \in Bodies |-> IF b \in S THEN "pack" ELSE at[b]]
         /\ pack' = [b \in Bodies |-> IF b \in S THEN pass[j].pack ELSE pack[b]]
         /\ link' = [b \in Bodies |-> IF b \in S THEN Unlinked ELSE link[b]]
    /\ Ends(j)
    /\ UNCHANGED <<objectVars, examined, past, template, packRow, packed, packsDoomed,
                   packsDeleted, undone>>

\* A call throws, or the pod is killed.  A compaction goes on without the images that
\* it could not move.
Fails(j) ==
    \/ /\ Fail(j)
       /\ pass' \in {pass, [pass EXCEPT ![j] = NoPass]}
       /\ UNCHANGED <<at, link, examined, past, pack, template, packRow, packed,
                      packsDoomed, packsDeleted, undone>>
    \/ /\ job[j] = Idle /\ pass[j] # NoPass
       /\ FailElsewhere
       /\ Ends(j)
       /\ UNCHANGED <<at, link, examined, past, pack, template, packRow, packed,
                      packsDoomed, packsDeleted, undone>>

-----------------------------------------------------------------------------
(* The retention job *)

Expires(b) ==
    /\ Expire(b)
    /\ at' = [at EXCEPT ![b] = "row"]
    /\ link' = [link EXCEPT ![b] = Unlinked]
    /\ pack' = [pack EXCEPT ![b] = Nothing]
    /\ examined' = examined \ {b} /\ past' = past \ {b}
    /\ undone' = undone \ {b}
    /\ UNCHANGED <<template, packRow, packed, pass, packsDoomed, packsDeleted>>

TemplateAges(f) ==
    /\ template[f].age = "fresh"
    /\ template' = [template EXCEPT ![f].age = "stale"]
    /\ UNCHANGED <<objectVars, at, link, examined, past, pack, packRow, packed, pass,
                   packsDoomed, packsDeleted, undone>>

\* No body is compacted against it, or only linked to it.
NotLinked(f) == \A b \in kept : link[b].id # template[f].id

SweepTemplates ==
    /\ \E f \in Forms : template[f].age = "stale" /\ NotLinked(f)
    /\ template' = [f \in Forms |-> IF template[f].age = "stale" /\ NotLinked(f)
                                    THEN NoTemplate ELSE template[f]]
    /\ UNCHANGED <<objectVars, at, link, examined, past, pack, packRow, packed, pass,
                   packsDoomed, packsDeleted, undone>>

\* The grace outlives a run of the content job.
PackAges(p) ==
    /\ packRow[p] = "fresh"
    /\ \A j \in Jobs : pass[j].pack # p
    /\ packRow' = [packRow EXCEPT ![p] = "stale"]
    /\ UNCHANGED <<objectVars, at, link, examined, past, pack, template, packed, pass,
                   packsDoomed, packsDeleted, undone>>

UnusedPacks == {p \in Packs : packRow[p] = "stale" /\ \A b \in kept : pack[b] # p}

SweepPacks ==
    \/ /\ packsDoomed = {} /\ UnusedPacks # {}
       /\ packsDoomed' = UnusedPacks
       /\ UNCHANGED <<packRow, packed, packsDeleted>>
    \/ \E p \in packsDoomed \ packsDeleted :
         /\ packed' = packed \ {p}
         /\ packsDeleted' = packsDeleted \cup {p}
         /\ UNCHANGED <<packRow, packsDoomed>>
    \/ /\ packsDoomed # {} /\ packsDeleted = packsDoomed
       /\ packRow' = [p \in Packs |-> IF p \in packsDoomed THEN "gone" ELSE packRow[p]]
       /\ packsDoomed' = {} /\ packsDeleted' = {}
       /\ UNCHANGED packed

PackSweepFails ==
    /\ packsDoomed # {}
    /\ FailElsewhere
    /\ packsDoomed' = {} /\ packsDeleted' = {}
    /\ UNCHANGED <<at, link, examined, past, pack, template, packRow, packed, pass, undone>>

-----------------------------------------------------------------------------
Works(j) ==
    \/ Stores(j) \/ Lifts(j)
    \/ Link(j) \/ Stamp(j) \/ Promote(j)
    \/ PackRow(j) \/ PackPut(j) \/ Release(j)

Passing == \E h \in Hashes : GoStale(h)

Next ==
    \/ \E j \in Jobs : Works(j) \/ CompactReads(j) \/ PromoteReads(j) \/ PackReads(j) \/ Fails(j)
    \/ \E b \in Bodies : Expires(b) \/ WeekPasses(b)
    \/ (Passing \/ Sweep \/ SweepFails) /\ UNCHANGED bodyVars
    \/ \E f \in Forms : TemplateAges(f)
    \/ \E p \in Packs : PackAges(p)
    \/ SweepTemplates
    \/ SweepPacks /\ UNCHANGED <<objectVars, at, link, examined, past, pack, template, pass,
                                  undone>>
    \/ PackSweepFails

\* What is begun ends, hours pass, and the retention job runs every hour.
Fairness ==
    /\ \A j \in Jobs : WF_vars(Works(j))
    /\ WF_vars(Passing /\ UNCHANGED bodyVars)
    /\ WF_vars(Sweep /\ UNCHANGED bodyVars)

Spec == Init /\ [][Next]_vars /\ Fairness

-----------------------------------------------------------------------------
(* What is promised *)

\* Every body that is kept can be given back as it was: its values render through a
\* template that exists to the html it had, or its pack is in R2.  One way to lose a body
\* is open: one run takes a good link away between another's reading it and releasing
\* the original on the strength of it (content/compact.ts:470-492).
GivenBack ==
    \A b \in kept :
      /\ at[b] = "template" =>
           \/ b \in undone
           \/ \E f \in Forms : template[f].id = link[b].id /\ link[b].form = Form(b)
      /\ at[b] = "pack" => pack[b] \in packed

\* Whatever becomes of the html, its images are moved as attachments are.
MovesObjects == [][ObjectsNext]_objectVars
=============================================================================
