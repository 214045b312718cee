------------------------------- MODULE Stores -------------------------------
(***************************************************************************)
(* The stores of one library and the passes that write them.               *)
(*                                                                         *)
(* A book is spread over five places that no transaction spans: its intake *)
(* row and its pipeline state in the catalog, its node tree in the corpus, *)
(* its chunk rows in the vector store, and the cached extraction (the      *)
(* envelope) beside them; the index stamps in the corpus say how the rows  *)
(* were built.  The queue worker runs ingests; the holder of the write     *)
(* mutex runs the maintenance passes.  Every store write is one action, so *)
(* that a crash, a failing store or the other writer can fall between any  *)
(* two.                                                                    *)
(***************************************************************************)
EXTENDS Naturals, FiniteSets, FiniteSetsExt

CONSTANTS
    Book,           \* source files, each the whole-file hash that keys it
    Content,        \* what an extraction of a book can contain
    Model,          \* embedding models an index profile may declare
    NoModel,        \* an unset embed_model column or index stamp
    NoContent,      \* no tree, no envelope, no extraction at hand
    ContentOf,      \* ContentOf[b][v]: what extractor version v reads in b
    Size,           \* Size[c]: how many chunks a tree of c is cut into
    MaxVersion,     \* bound on the extractor versions
    MaxIntakes,     \* bound on the intake ids ever handed out
    MaxRuns,        \* bound on the passes started
    MaxRestarts,    \* bound on the daemon's restarts
    Passes,         \* the passes operators and the queue start
    FaultyPasses,   \* the passes a crash or a failing store may fall into
    EnvelopeFaults, \* how a failed envelope write may end
    LostStates,     \* the stages whose item_state row may fail to be written
    Overlap,        \* whether a write session runs beside an ingest
    CarefulAdvance  \* whether operators advance held books only

Version == 1..MaxVersion
Id      == 1..MaxIntakes
Chunk   == UNION {{<<c, k>> : k \in 1..Size[c]} : c \in Content}

AllPasses == {"ingest", "advance", "rebuild", "reembed", "reset", "resume", "remove"}

ASSUME StoresAssumption ==
    /\ NoModel \notin Model
    /\ NoContent \notin Content
    /\ MaxVersion \in Nat \ {0}
    /\ MaxIntakes \in Nat
    /\ MaxRuns \in Nat
    /\ MaxRestarts \in Nat
    /\ ContentOf \in [Book -> [Version -> Content]]
    /\ Size \in [Content -> Nat \ {0}]
    /\ Passes \subseteq AllPasses
    /\ FaultyPasses \subseteq AllPasses
    /\ EnvelopeFaults \subseteq {"removed", "left"}
    /\ LostStates \subseteq {"structure", "metadata", "embed"}
    /\ Overlap \in BOOLEAN
    /\ CarefulAdvance \in BOOLEAN

VARIABLES
    version,   \* EXTRACTOR_VERSION of the running binary
    model,     \* the embedding model the index profile declares
    intake,    \* the intake rows of the catalog
    issued,    \* intake ids handed out: ids are never used twice
    progress,  \* the item_state rows of the catalog
    tree,      \* the node tree of each partition in the corpus
    rows,      \* the chunk rows of each partition in the vector store
    envelope,  \* the cached extraction of each intake
    stamp,     \* the embed_model stamp of the index, NoModel when unstamped
    act,       \* what the worker and the holder of the write mutex are doing
    runs,      \* passes started so far
    restarts   \* restarts so far

catalog == <<intake, issued, progress>>
corpus  == <<tree, stamp>>
env     == <<version, model, runs, restarts>>
vars    == <<env, catalog, corpus, rows, envelope, act>>

-----------------------------------------------------------------------------
(* Values.                                                                 *)

NoIntake == [sha |-> "none", status |-> "none", extractor |-> 0, stored |-> FALSE]

Intake == [sha : Book, status : {"pending", "extracted", "embedded"},
           extractor : Version \cup {0}, stored : BOOLEAN]

\* "none": no item_state row.
Stage    == {"none", "structure", "metadata", "embed"}
Progress == [stage : Stage, model : Model \cup {NoModel}, embeddedAt : BOOLEAN]

At(stage, m, done) == [stage |-> stage, model |-> m, embeddedAt |-> done]
NoProgress == At("none", NoModel, FALSE)

Row == [chunk : Chunk, model : Model]

Envelope == [of : Content, by : Version] \cup {[of |-> NoContent, by |-> 0]}
NoEnvelope == [of |-> NoContent, by |-> 0]

Process == {"worker", "writer"}

Pc == {"idle", "extract", "compare", "restamp", "register", "mark", "drop", "insert",
       "parsed", "stamp", "store", "path", "metadata", "chunk", "scan", "reconcile",
       "delete", "append", "promote", "record", "next", "clear", "table", "demote",
       "index", "derived", "nodes", "vectors", "file", "row"}

\* `left` are the chunks still to be written, `targets` the intakes still
\* to be visited, `done` the ones a rebuild has rebuilt.
Act == [pass : AllPasses \cup {"none"}, pc : Pc, book : Book \cup {NoContent}, id : Id \cup {0},
        content : Content \cup {NoContent}, behind : BOOLEAN, vectors : BOOLEAN,
        left : SUBSET Chunk, targets : SUBSET Id, done : SUBSET Id]

Idle == [pass |-> "none", pc |-> "idle", book |-> NoContent, id |-> 0, content |-> NoContent,
         behind |-> FALSE, vectors |-> FALSE, left |-> {}, targets |-> {}, done |-> {}]

Chunks(c) == {<<c, k>> : k \in 1..Size[c]}

Held(i) == intake[i] # NoIntake

\* The intake registered under a source hash, 0 when there is none.
IdOf(b) == IF \E i \in Id : Held(i) /\ intake[i].sha = b
           THEN CHOOSE i \in Id : Held(i) /\ intake[i].sha = b
           ELSE 0

WithStatus(s) == {i \in Id : Held(i) /\ intake[i].status = s}

Init ==
    /\ version = 1
    /\ model \in Model
    /\ intake = [i \in Id |-> NoIntake]
    /\ issued = 0
    /\ progress = [i \in Id |-> NoProgress]
    /\ tree = [i \in Id |-> NoContent]
    /\ rows = [i \in Id |-> {}]
    /\ envelope = [i \in Id |-> NoEnvelope]
    /\ stamp = NoModel
    /\ act = [p \in Process |-> Idle]
    /\ runs = 0
    /\ restarts = 0

-----------------------------------------------------------------------------
(* What a re-ingest may skip.                                              *)

\* Mutant: the status of the row is not consulted.
OnFileUnpromoted(i) ==
    IF i = 0 \/ ~Held(i) \/ progress[i].model # model \/ stamp = NoModel THEN "rerun"
    ELSE IF intake[i].extractor = version THEN "current" ELSE "behind"

\* on_file: how much of a re-ingest has work to do.
OnFile(i) ==
    IF \/ i = 0
       \/ intake[i].status # "embedded"
       \/ progress[i].model # model
       \/ stamp = NoModel
    THEN "rerun"
    ELSE IF intake[i].extractor = version THEN "current" ELSE "behind"

\* check_envelope, up to storing the rewritten one: the envelope on file is
\* of the stamped or of this version and equals the fresh extraction.
Unchanged(i, content) ==
    /\ envelope[i].of = content
    /\ envelope[i].by \in {intake[i].extractor, version}

-----------------------------------------------------------------------------
(* Starting and ending a pass.                                             *)

Goto(p, pc) == act' = [act EXCEPT ![p].pc = pc]

End(p) == act' = [act EXCEPT ![p] = Idle]

\* The write mutex admits one maintenance pass, the worker runs one job.
\* The two exclude each other only where nothing is overlapped.
Start(p, pass, new) ==
    /\ pass \in Passes
    /\ runs < MaxRuns
    /\ act[p] = Idle
    /\ Overlap \/ \A q \in Process : act[q] = Idle
    /\ runs' = runs + 1
    /\ act' = [act EXCEPT ![p] = [new EXCEPT !.pass = pass]]
    /\ UNCHANGED <<version, model, restarts, catalog, corpus, rows, envelope>>

\* A forced run skips the check; a current book is left alone.
StartIngest(b, force) ==
    LET seen == IF force THEN "rerun" ELSE OnFile(IdOf(b))
    IN  /\ seen # "current"
        /\ Start("worker", "ingest",
                 [Idle EXCEPT !.pc = "extract", !.book = b, !.behind = (seen = "behind")])

\* metadata advance asks for a book state that records a parse.
StartAdvance(i) ==
    /\ Held(i)
    /\ progress[i].stage # "none"
    /\ CarefulAdvance => /\ progress[i].stage = "metadata"
                         /\ intake[i].status = "extracted"
                         /\ tree[i] # NoContent
    /\ Start("writer", "advance", [Idle EXCEPT !.pc = "chunk", !.id = i])

\* The dry-run leg pinned one book, or every rebuildable one.
Pinned(from) == {from} \cup {{i} : i \in from}

StartRebuild(ids, include) ==
    /\ ids # {}
    /\ ids \in Pinned(WithStatus("extracted") \cup WithStatus("embedded"))
    /\ Start("writer", "rebuild",
             [Idle EXCEPT !.pc = "next", !.targets = ids, !.vectors = include])

StartReembed(ids) ==
    /\ ids # {}
    /\ ids \in Pinned(WithStatus("embedded"))
    /\ Start("writer", "reembed", [Idle EXCEPT !.pc = "next", !.targets = ids])

StartReset == Start("writer", "reset", [Idle EXCEPT !.pc = "clear"])

\* A resume finds the intakes an interrupted reset left at Extracted.
StartResume ==
    /\ WithStatus("extracted") # {}
    /\ Start("writer", "resume", [Idle EXCEPT !.pc = "next", !.targets = WithStatus("extracted")])

StartRemove(i) ==
    /\ Held(i)
    /\ Start("writer", "remove", [Idle EXCEPT !.pc = "derived", !.id = i])

StartPass ==
    \/ \E b \in Book, force \in BOOLEAN : StartIngest(b, force)
    \/ \E i \in Id : StartAdvance(i) \/ StartRemove(i)
    \/ \E ids \in SUBSET Id, include \in BOOLEAN : StartRebuild(ids, include)
    \/ \E ids \in SUBSET Id : StartReembed(ids)
    \/ StartReset
    \/ StartResume

\* set_state: the row is replaced as a whole, the model and the embedding
\* time of the previous run with it; an update that fails is only logged.
SetState(i, to) ==
    \/ progress' = [progress EXCEPT ![i] = to]
    \/ to.stage \in LostStates /\ UNCHANGED progress

\* An error ends the pass where it stands.  A failing EMBED is recorded on
\* the book's state with the model it was tried with; a rebuild collects the
\* failure and goes on with the next intake.
Fail(p) ==
    LET me == act[p]
        embedding == me.pc \in {"reconcile", "delete", "append"}
    IN  /\ me.pass \in FaultyPasses
        /\ me.pc # "idle"
        /\ IF me.pass = "rebuild" /\ me.pc \in {"drop", "insert"} THEN Goto(p, "next") ELSE End(p)
        /\ IF embedding /\ me.pass \in {"ingest", "advance"}
           THEN SetState(me.id, At("embed", model, FALSE))
           ELSE UNCHANGED progress
        /\ UNCHANGED <<env, intake, issued, corpus, rows, envelope>>

\* The process dies, or is stopped between passes, and comes back, perhaps
\* as a newer build or under another index profile.
Restart(v, m) ==
    /\ restarts < MaxRestarts
    /\ \A p \in Process : act[p].pass \in FaultyPasses \cup {"none"}
    /\ v \in Version /\ v >= version
    /\ version' = v
    /\ model' = m
    /\ restarts' = restarts + 1
    /\ act' = [p \in Process |-> Idle]
    /\ UNCHANGED <<runs, catalog, corpus, rows, envelope>>

-----------------------------------------------------------------------------
(* EXTRACT to METADATA: ingest_book_with_progress.                         *)

Extract ==
    LET me == act["worker"]
        content == ContentOf[me.book][version]
    IN  /\ me.pc = "extract"
        /\ act' = [act EXCEPT !["worker"].content = content,
                              !["worker"].id = IF me.behind THEN IdOf(me.book) ELSE 0,
                              !["worker"].pc = IF me.behind THEN "compare" ELSE "register"]
        /\ UNCHANGED <<env, catalog, corpus, rows, envelope>>

\* store_envelope: a failed write takes the superseded envelope away, unless
\* the removal fails as well.
StoreOutcome(i, content, how) ==
    envelope' = [envelope EXCEPT ![i] = CASE how = "stored"  -> [of |-> content, by |-> version]
                                          [] how = "removed" -> NoEnvelope
                                          [] how = "left"    -> @]

\* restamp_if_unchanged: the full pipeline runs unless the extraction is the
\* one on file and its rewritten envelope is stored.
Compare(how) ==
    LET me == act["worker"]
    IN  /\ me.pc = "compare"
        /\ how \in {"stored"} \cup EnvelopeFaults
        /\ IF Held(me.id) /\ Unchanged(me.id, me.content)
           THEN /\ StoreOutcome(me.id, me.content, how)
                /\ Goto("worker", IF how = "stored" THEN "restamp" ELSE "register")
           ELSE /\ how = "stored"
                /\ Goto("worker", "register")
                /\ UNCHANGED envelope
        /\ UNCHANGED <<env, catalog, corpus, rows>>

SetExtraction(i) ==
    intake' = IF Held(i) THEN [intake EXCEPT ![i].extractor = version] ELSE intake

Restamp ==
    /\ act["worker"].pc = "restamp"
    /\ SetExtraction(act["worker"].id)
    /\ End("worker")
    /\ UNCHANGED <<env, issued, progress, corpus, rows, envelope>>

\* register_intake: one transaction, idempotent on the source hash.
Register ==
    LET me == act["worker"]
        known == IdOf(me.book)
        id == IF known # 0 THEN known ELSE issued + 1
    IN  /\ me.pc = "register"
        /\ id \in Id
        /\ act' = [act EXCEPT !["worker"].id = id, !["worker"].pc = "mark"]
        /\ IF known # 0
           THEN UNCHANGED <<intake, issued>>
           ELSE /\ intake' = [intake EXCEPT ![id] = [sha |-> me.book, status |-> "pending",
                                                     extractor |-> 0, stored |-> FALSE]]
                /\ issued' = id
        /\ UNCHANGED <<env, progress, corpus, rows, envelope>>

\* An update of a row that is gone changes nothing.
SetStatus(i, s) == IF Held(i) THEN [intake EXCEPT ![i].status = s] ELSE intake

\* Mutant: the book keeps the status of its last run.
MarkLater(i) == intake

\* The book leaves Embedded before its tree is touched.
Marked(i) == SetStatus(i, "extracted")

MarkExtracted ==
    /\ act["worker"].pc = "mark"
    /\ intake' = Marked(act["worker"].id)
    /\ Goto("worker", "drop")
    /\ UNCHANGED <<env, issued, progress, corpus, rows, envelope>>

\* ingest_structure, for an ingest and for a rebuild: the old partition goes
\* in one transaction, the nodes of the new one come in another.
DropTree(p) ==
    /\ act[p].pc = "drop"
    /\ tree' = [tree EXCEPT ![act[p].id] = NoContent]
    /\ Goto(p, "insert")
    /\ UNCHANGED <<env, catalog, stamp, rows, envelope>>

\* A partition that is there again is refused: its ids are taken.
InsertTree(p) ==
    LET me == act[p]
        free == tree[me.id] = NoContent
    IN  /\ me.pc = "insert"
        /\ tree' = IF free THEN [tree EXCEPT ![me.id] = me.content] ELSE tree
        /\ act' = [act EXCEPT ![p] =
               IF me.pass = "rebuild"
               THEN [me EXCEPT !.pc = "next", !.done = IF free THEN @ \cup {me.id} ELSE @]
               ELSE IF free THEN [me EXCEPT !.pc = "parsed"] ELSE Idle]
        /\ UNCHANGED <<env, catalog, stamp, rows, envelope>>

RecordParse ==
    /\ act["worker"].pc = "parsed"
    /\ SetState(act["worker"].id, At("structure", NoModel, FALSE))
    /\ Goto("worker", "stamp")
    /\ UNCHANGED <<env, intake, issued, corpus, rows, envelope>>

\* The extractor stamp waits for the tree it describes.
StampExtraction ==
    /\ act["worker"].pc = "stamp"
    /\ SetExtraction(act["worker"].id)
    /\ Goto("worker", "store")
    /\ UNCHANGED <<env, issued, progress, corpus, rows, envelope>>

StoreEnvelope(how) ==
    LET me == act["worker"]
    IN  /\ me.pc = "store"
        /\ how \in {"stored"} \cup EnvelopeFaults
        /\ StoreOutcome(me.id, me.content, how)
        /\ Goto("worker", IF how = "stored" THEN "path" ELSE "metadata")
        /\ UNCHANGED <<env, catalog, corpus, rows>>

RecordPath ==
    LET me == act["worker"]
    IN  /\ me.pc = "path"
        /\ intake' = IF Held(me.id) THEN [intake EXCEPT ![me.id].stored = TRUE] ELSE intake
        /\ Goto("worker", "metadata")
        /\ UNCHANGED <<env, issued, progress, corpus, rows, envelope>>

\* The metadata audit never gates the run, unless the caller asked for a
\* hold and the audit flagged the book.
HoldForMetadata ==
    /\ act["worker"].pc = "metadata"
    /\ SetState(act["worker"].id, At("metadata", NoModel, FALSE))
    /\ End("worker")
    /\ UNCHANGED <<env, intake, issued, corpus, rows, envelope>>

PassMetadata ==
    /\ act["worker"].pc = "metadata"
    /\ Goto("worker", "chunk")
    /\ UNCHANGED <<env, catalog, corpus, rows, envelope>>

-----------------------------------------------------------------------------
(* CHUNK and EMBED: resume_from_chunk, reset's build phase, reembed_book.  *)

\* plan_book_chunks reads the tree; a missing one plans nothing.  An empty
\* plan writes nothing: a reset leaves that intake for a later repair, the
\* other passes go on as after a full one.
PlanChunks(p) ==
    LET me == act[p]
        plan == IF tree[me.id] = NoContent THEN {} ELSE Chunks(tree[me.id])
    IN  /\ me.pc = "chunk"
        /\ act' = [act EXCEPT ![p].left = plan,
                              ![p].pc = IF plan # {} THEN "reconcile"
                                        ELSE IF me.pass = "resume" THEN "next" ELSE "promote"]
        /\ UNCHANGED <<env, catalog, corpus, rows, envelope>>

\* read_chunk_plans: a re-embedding reads its chunks back from the rows.
ScanRows(p) ==
    LET me == act[p]
        plan == {r.chunk : r \in rows[me.id]}
    IN  /\ me.pc = "scan"
        /\ act' = [act EXCEPT ![p].left = plan, ![p].pc = IF plan = {} THEN "next" ELSE "reconcile"]
        /\ UNCHANGED <<env, catalog, corpus, rows, envelope>>

\* Mutant: a run with another model is let into the index.
AnyModel(current) == TRUE

\* reconcile_index_stamps: an unstamped index takes the model, a stamped one
\* refuses any other.
Accepts(current) == current \in {NoModel, model}

Reconcile(p) ==
    /\ act[p].pc = "reconcile"
    /\ Accepts(stamp)
    /\ stamp' = model
    /\ Goto(p, "delete")
    /\ UNCHANGED <<env, catalog, tree, rows, envelope>>

ReconcileRefused(p) ==
    LET me == act[p]
    IN  /\ me.pc = "reconcile"
        /\ ~Accepts(stamp)
        /\ IF me.pass \in {"ingest", "advance"}
           THEN SetState(me.id, At("embed", model, FALSE))
           ELSE UNCHANGED progress
        /\ End(p)
        /\ UNCHANGED <<env, intake, issued, corpus, rows, envelope>>

DeleteRows(p) ==
    /\ act[p].pc = "delete"
    /\ rows' = [rows EXCEPT ![act[p].id] = {}]
    /\ Goto(p, "append")
    /\ UNCHANGED <<env, catalog, corpus, envelope>>

\* One batch reaches the store; the last one ends the run.
AppendRows(p, chunk) ==
    LET me == act[p]
    IN  /\ me.pc = "append"
        /\ chunk \in me.left
        /\ rows' = [rows EXCEPT ![me.id] = @ \cup {[chunk |-> chunk, model |-> model]}]
        /\ act' = [act EXCEPT ![p].left = @ \ {chunk},
                              ![p].pc = IF me.left # {chunk} THEN "append"
                                        ELSE IF me.pass = "reembed" THEN "next" ELSE "promote"]
        /\ UNCHANGED <<env, catalog, corpus, envelope>>

Promote(p) ==
    LET me == act[p]
    IN  /\ me.pc = "promote"
        /\ intake' = SetStatus(me.id, "embedded")
        /\ Goto(p, IF me.pass = "resume" THEN "next" ELSE "record")
        /\ UNCHANGED <<env, issued, progress, corpus, rows, envelope>>

RecordEmbed(p) ==
    /\ act[p].pc = "record"
    /\ SetState(act[p].id, At("embed", model, TRUE))
    /\ End(p)
    /\ UNCHANGED <<env, intake, issued, corpus, rows, envelope>>

-----------------------------------------------------------------------------
(* The maintenance passes.                                                 *)

\* The next target in id order, or what the pass does after the last one.
NextTarget ==
    LET me == act["writer"]
        id == Min(me.targets)
        go == [me EXCEPT !.id = id, !.targets = @ \ {id}]
    IN  /\ me.pc = "next"
        /\ act' = [act EXCEPT !["writer"] =
               IF me.targets # {}
               THEN CASE me.pass = "resume"  -> [go EXCEPT !.pc = "chunk"]
                      [] me.pass = "reembed" -> [go EXCEPT !.pc = "scan"]
                      [] me.pass = "rebuild" ->
                            IF Held(id) /\ intake[id].stored /\ envelope[id] # NoEnvelope
                            THEN [go EXCEPT !.pc = "drop", !.content = envelope[id].of]
                            ELSE go
               ELSE IF me.pass # "rebuild" \/ me.done = {} THEN Idle
               ELSE IF ~me.vectors THEN [me EXCEPT !.pc = "index"]
               ELSE IF me.done \subseteq WithStatus("embedded")
               THEN [me EXCEPT !.pass = "reembed", !.targets = me.done, !.id = 0]
               ELSE Idle]
        /\ UNCHANGED <<env, catalog, corpus, rows, envelope>>

\* stamp_index_from_existing_chunks, after a rebuild that left the rows
\* alone.
StampIndex ==
    /\ act["writer"].pc = "index"
    /\ stamp' = IF (\E i \in Id : rows[i] # {}) /\ Accepts(stamp) THEN model ELSE stamp
    /\ End("writer")
    /\ UNCHANGED <<env, catalog, tree, rows, envelope>>

\* reset_and_rechunk: stamps, table and statuses go first; what follows is
\* the build phase a resume runs.
ClearStamps ==
    /\ act["writer"].pc = "clear"
    /\ stamp' = NoModel
    /\ Goto("writer", "table")
    /\ UNCHANGED <<env, catalog, tree, rows, envelope>>

DropTable ==
    /\ act["writer"].pc = "table"
    /\ rows' = [i \in Id |-> {}]
    /\ act' = [act EXCEPT !["writer"].pc = "demote", !["writer"].targets = WithStatus("embedded")]
    /\ UNCHANGED <<env, catalog, corpus, envelope>>

Demote ==
    LET me == act["writer"]
    IN  /\ me.pc = "demote"
        /\ me.targets # {}
        /\ intake' = SetStatus(Min(me.targets), "extracted")
        /\ act' = [act EXCEPT !["writer"].targets = @ \ {Min(me.targets)}]
        /\ UNCHANGED <<env, issued, progress, corpus, rows, envelope>>

StartBuild ==
    /\ act["writer"].pc = "demote"
    /\ act["writer"].targets = {}
    /\ act' = [act EXCEPT !["writer"] = [@ EXCEPT !.pass = "resume", !.pc = "next",
                                                  !.targets = WithStatus("extracted")]]
    /\ UNCHANGED <<env, catalog, corpus, rows, envelope>>

\* execute_remove_from_plan: the derived rows, the tree, the vectors, the
\* envelope, and last the intake row a second call would find.
RemoveDerived ==
    /\ act["writer"].pc = "derived"
    /\ progress' = [progress EXCEPT ![act["writer"].id] = NoProgress]
    /\ Goto("writer", "nodes")
    /\ UNCHANGED <<env, intake, issued, corpus, rows, envelope>>

RemoveNodes ==
    /\ act["writer"].pc = "nodes"
    /\ tree' = [tree EXCEPT ![act["writer"].id] = NoContent]
    /\ Goto("writer", "vectors")
    /\ UNCHANGED <<env, catalog, stamp, rows, envelope>>

\* An unstamped index has no dimension to open the store with.
RemoveVectors ==
    /\ act["writer"].pc = "vectors"
    /\ rows' = IF stamp = NoModel THEN rows ELSE [rows EXCEPT ![act["writer"].id] = {}]
    /\ Goto("writer", "file")
    /\ UNCHANGED <<env, catalog, corpus, envelope>>

RemoveEnvelope ==
    LET id == act["writer"].id
    IN  /\ act["writer"].pc = "file"
        /\ envelope' = IF intake[id].stored THEN [envelope EXCEPT ![id] = NoEnvelope] ELSE envelope
        /\ Goto("writer", "row")
        /\ UNCHANGED <<env, catalog, corpus, rows>>

\* Mutant: the row goes while parts of the book are still there.
RemoveRowFirst ==
    /\ act["writer"].pc = "nodes"
    /\ intake' = [intake EXCEPT ![act["writer"].id] = NoIntake]
    /\ End("writer")
    /\ UNCHANGED <<env, issued, progress, corpus, rows, envelope>>

RemoveRow ==
    /\ act["writer"].pc = "row"
    /\ intake' = [intake EXCEPT ![act["writer"].id] = NoIntake]
    /\ End("writer")
    /\ UNCHANGED <<env, issued, progress, corpus, rows, envelope>>

-----------------------------------------------------------------------------

IngestStep ==
    \/ Extract
    \/ \E how \in {"stored", "removed", "left"} : Compare(how) \/ StoreEnvelope(how)
    \/ Restamp \/ Register \/ MarkExtracted
    \/ RecordParse \/ StampExtraction \/ RecordPath
    \/ HoldForMetadata \/ PassMetadata

SharedStep(p) ==
    \/ DropTree(p) \/ InsertTree(p)
    \/ PlanChunks(p) \/ ScanRows(p)
    \/ Reconcile(p) \/ ReconcileRefused(p)
    \/ DeleteRows(p) \/ \E chunk \in Chunk : AppendRows(p, chunk)
    \/ Promote(p) \/ RecordEmbed(p)

WriterStep ==
    \/ NextTarget \/ StampIndex
    \/ ClearStamps \/ DropTable \/ Demote \/ StartBuild
    \/ RemoveDerived \/ RemoveNodes \/ RemoveVectors \/ RemoveEnvelope \/ RemoveRow

Next ==
    \/ StartPass
    \/ IngestStep
    \/ \E p \in Process : SharedStep(p) \/ Fail(p)
    \/ WriterStep
    \/ \E v \in Version, m \in Model : Restart(v, m)

Spec == Init /\ [][Next]_vars

-----------------------------------------------------------------------------
(* Properties.                                                             *)

TypeOK ==
    /\ version \in Version
    /\ model \in Model
    /\ intake \in [Id -> Intake \cup {NoIntake}]
    /\ issued \in 0..MaxIntakes
    /\ progress \in [Id -> Progress]
    /\ tree \in [Id -> Content \cup {NoContent}]
    /\ rows \in [Id -> SUBSET Row]
    /\ envelope \in [Id -> Envelope]
    /\ stamp \in Model \cup {NoModel}
    /\ act \in [Process -> Act]
    /\ runs \in 0..MaxRuns
    /\ restarts \in 0..MaxRestarts

\* The vector rows of a book are those of its tree, under the index's model.
Indexed(i) ==
    /\ tree[i] # NoContent
    /\ rows[i] = {[chunk |-> c, model |-> stamp] : c \in Chunks(tree[i])}

\* A book a maintenance pass is in the middle of.
Underway(i) == act["writer"].pass \in {"rebuild", "reembed"} /\ act["writer"].id = i

\* A re-ingest that is waved through as current (ingest/src/lib.rs: "the run
\* has nothing left to do") finds a tree of this extractor's reading of the
\* file and the complete rows of that tree.
NoOpIsSound ==
    \A i \in Id : Held(i) /\ OnFile(i) = "current" /\ ~Underway(i)
        => Indexed(i) /\ tree[i] = ContentOf[intake[i].sha][version]

\* A re-ingest that moves the stamp alone, because the fresh extraction
\* equals the envelope on file, leaves a book whose tree and rows are those
\* of that extraction.
RestampIsSound ==
    \A i \in Id :
        (/\ Held(i)
         /\ OnFile(i) = "behind"
         /\ ~Underway(i)
         /\ Unchanged(i, ContentOf[intake[i].sha][version]))
        => Indexed(i) /\ tree[i] = ContentOf[intake[i].sha][version]

\* An index holds the vectors of one model (embed_run.rs: "so the index is
\* never mixed").
IndexIsNeverMixed ==
    \A i, j \in Id : \A r \in rows[i], s \in rows[j] : r.model = s.model

\* Once the intake row is gone the book is gone from every store a search or
\* a rebuild reads (cmd/remove.rs: the intake row is deleted last).
RemovedLeavesNothing ==
    \A i \in Id : ~Held(i) => tree[i] = NoContent /\ rows[i] = {} /\ progress[i] = NoProgress
=============================================================================
