---------------------------- MODULE StoresProofs ----------------------------
(***************************************************************************)
(* Theorems about Stores for any books, models, extractor versions, tree   *)
(* sizes and bounds: types, an index of one model, removals that leave     *)
(* nothing, and what a re-ingest may take for done.                        *)
(***************************************************************************)
EXTENDS Stores, FiniteSetTheorems, TLAPS

-----------------------------------------------------------------------------
(* Type correctness.                                                       *)

Embedding == {"reconcile", "delete", "append"}

\* What an ingest does once it has marked its book.
Work == {"drop", "insert", "parsed", "stamp", "store", "path", "metadata", "chunk",
         "promote", "record"} \cup Embedding

\* What a pass may be doing.
ShapeOf(a) ==
    \/ a.pass = "none"    /\ a.pc = "idle"
    \/ a.pass = "ingest"  /\ a.pc \in {"extract", "compare", "restamp", "register", "mark"} \cup Work
    \/ a.pass = "advance" /\ a.pc \in Embedding \cup {"chunk", "promote", "record"}
    \/ a.pass = "resume"  /\ a.pc \in Embedding \cup {"next", "chunk", "promote"}
    \/ a.pass = "reembed" /\ a.pc \in Embedding \cup {"next", "scan"}
    \/ a.pass = "rebuild" /\ a.pc \in {"next", "drop", "insert", "index"}
    \/ a.pass = "reset"   /\ a.pc \in {"clear", "table", "demote"}
    \/ a.pass = "remove"  /\ a.pc \in {"derived", "nodes", "vectors", "file", "row"}

\* Where a pass is at work on one book.
AtBook == {"mark", "scan", "derived", "nodes", "vectors", "file", "row"} \cup Work

\* A pass that is at work on a book names it, and a tree that is about to
\* be written has a content.
Named(a) ==
    /\ a.pass = "ingest" => a.book \in Book /\ (a.pc # "extract" => a.content \in Content)
    /\ a.pc \in {"drop", "insert"} => a.content \in Content
    /\ a.pc \in AtBook => a.id \in Id

Shapes ==
    /\ \A p \in Process : ShapeOf(act[p]) /\ Named(act[p])
    /\ act["worker"].pass \in {"none", "ingest"}
    /\ act["writer"].pass # "ingest"

Types == TypeOK /\ Shapes

LEMMA IdleType == Idle \in Act /\ ShapeOf(Idle) /\ Named(Idle)
BY DEF Idle, Act, AllPasses, Pc, ShapeOf, Named, AtBook, Work, Embedding

\* The pass of p is at another place and otherwise as it was.
Moved(a, b, pc) ==
    /\ b.pc = pc /\ b.pass = a.pass /\ b.book = a.book /\ b.id = a.id
    /\ b.content = a.content /\ b.behind = a.behind /\ b.vectors = a.vectors
    /\ b.left = a.left /\ b.targets = a.targets /\ b.done = a.done

\* Only p has moved on.
Only(p) == \A q \in Process : q # p => act'[q] = act[q]

LEMMA Acts ==
    ASSUME act \in [Process -> Act], NEW p \in Process, NEW r \in Act,
           act' = [act EXCEPT ![p] = r]
    PROVE  act' \in [Process -> Act] /\ act'[p] = r /\ Only(p)
BY DEF Only

LEMMA GotoActs ==
    ASSUME act \in [Process -> Act], NEW p \in Process, NEW pc \in Pc, Goto(p, pc)
    PROVE  act' \in [Process -> Act] /\ Moved(act[p], act'[p], pc) /\ Only(p)
<1>1. act[p] \in Act
    OBVIOUS
<1>2. [act[p] EXCEPT !.pc = pc] \in Act /\ Moved(act[p], [act[p] EXCEPT !.pc = pc], pc)
    BY <1>1 DEF Act, Moved
<1>3. act' = [act EXCEPT ![p] = [act[p] EXCEPT !.pc = pc]]
    BY DEF Goto
<1> QED
    BY <1>2, <1>3, Acts

LEMMA EndActs ==
    ASSUME act \in [Process -> Act], NEW p \in Process, End(p)
    PROVE  act' \in [Process -> Act] /\ act'[p] = Idle /\ Only(p)
BY IdleType, Acts DEF End

\* The parts of Shapes a step of p must keep.
LEMMA ShapesKept ==
    ASSUME Shapes, NEW p \in Process, Only(p), ShapeOf(act'[p]), Named(act'[p]),
           act'[p].pass = "ingest" <=> p = "worker" /\ act'[p].pass # "none"
    PROVE  Shapes'
<1>1. \A q \in Process : ShapeOf(act'[q]) /\ Named(act'[q])
    BY DEF Shapes, Only
<1>2. act'["worker"].pass \in {"none", "ingest"} /\ act'["writer"].pass # "ingest"
    BY DEF Shapes, Only, Process
<1> QED
    BY <1>1, <1>2 DEF Shapes

\* A pass that goes on is the pass it was; one that ends is none.
LEMMA SamePass ==
    ASSUME Shapes, NEW p \in Process, act'[p].pass = act[p].pass
    PROVE  act'[p].pass = "ingest" <=> p = "worker" /\ act'[p].pass # "none"
BY DEF Shapes, Process

LEMMA GotoShapes ==
    ASSUME Types, NEW p \in Process, NEW pc \in Pc, Goto(p, pc),
           NEW a, NEW b, a = act[p], b = act'[p],
           Moved(a, b, pc) => ShapeOf(b) /\ Named(b)
    PROVE  act' \in [Process -> Act] /\ Shapes'
<1>1. act' \in [Process -> Act] /\ Moved(act[p], act'[p], pc) /\ Only(p)
    BY GotoActs DEF Types, TypeOK
<1>2. act'[p].pass = act[p].pass
    BY <1>1 DEF Moved
<1> QED
    BY <1>1, <1>2, SamePass, ShapesKept DEF Types

LEMMA EndShapes ==
    ASSUME Types, NEW p \in Process, End(p)
    PROVE  act' \in [Process -> Act] /\ Shapes'
<1>1. act' \in [Process -> Act] /\ act'[p] = Idle /\ Only(p)
    BY EndActs DEF Types, TypeOK
<1>2. Idle.pass = "none"
    BY DEF Idle
<1> QED
    BY <1>1, <1>2, IdleType, ShapesKept DEF Types

\* Starting a pass: `new` is an act of that pass.
LEMMA StartTypes ==
    ASSUME Types, NEW p \in Process, NEW pass \in AllPasses, NEW new \in Act,
           Start(p, pass, new),
           ShapeOf([new EXCEPT !.pass = pass]), Named([new EXCEPT !.pass = pass]),
           pass = "ingest" <=> p = "worker"
    PROVE  Types'
<1> DEFINE r == [new EXCEPT !.pass = pass]
<1>1. r \in Act /\ r.pass = pass
    BY DEF Act
<1>2. act' = [act EXCEPT ![p] = r]
    BY DEF Start
<1>3. act' \in [Process -> Act] /\ act'[p] = r /\ Only(p)
    BY <1>1, <1>2, Acts DEF Types, TypeOK
<1>4. pass # "none"
    BY DEF AllPasses
<1>5. Shapes'
    BY <1>1, <1>3, <1>4, ShapesKept DEF Types
<1>6. runs' \in 0..MaxRuns
    BY StoresAssumption DEF Start, Types, TypeOK
<1> QED
    BY <1>3, <1>5, <1>6 DEF Start, Types, TypeOK, catalog, corpus

LEMMA StartPassTypes ==
    ASSUME Types, StartPass
    PROVE  Types'
<1> USE DEF AllPasses, Process
<1>1. ASSUME NEW b \in Book, NEW force \in BOOLEAN, StartIngest(b, force) PROVE Types'
    <2> DEFINE seen == IF force THEN "rerun" ELSE OnFile(IdOf(b))
               new == [Idle EXCEPT !.pc = "extract", !.book = b, !.behind = (seen = "behind")]
    <2>1. new \in Act
        BY IdleType DEF Act, Pc
    <2>2. ShapeOf([new EXCEPT !.pass = "ingest"]) /\ Named([new EXCEPT !.pass = "ingest"])
        BY DEF Idle, ShapeOf, Named, AtBook, Work, Embedding
    <2> QED
        BY <1>1, <2>1, <2>2, StartTypes DEF StartIngest
<1>2. ASSUME NEW i \in Id, StartAdvance(i) PROVE Types'
    <2> DEFINE new == [Idle EXCEPT !.pc = "chunk", !.id = i]
    <2>1. new \in Act
        BY IdleType DEF Act, Pc
    <2>2. ShapeOf([new EXCEPT !.pass = "advance"]) /\ Named([new EXCEPT !.pass = "advance"])
        BY DEF Idle, ShapeOf, Named
    <2> QED
        BY <1>2, <2>1, <2>2, StartTypes DEF StartAdvance
<1>3. ASSUME NEW i \in Id, StartRemove(i) PROVE Types'
    <2> DEFINE new == [Idle EXCEPT !.pc = "derived", !.id = i]
    <2>1. new \in Act
        BY IdleType DEF Act, Pc
    <2>2. ShapeOf([new EXCEPT !.pass = "remove"]) /\ Named([new EXCEPT !.pass = "remove"])
        BY DEF Idle, ShapeOf, Named
    <2> QED
        BY <1>3, <2>1, <2>2, StartTypes DEF StartRemove
<1>4. ASSUME NEW ids \in SUBSET Id, NEW include \in BOOLEAN, StartRebuild(ids, include) PROVE Types'
    <2> DEFINE new == [Idle EXCEPT !.pc = "next", !.targets = ids, !.vectors = include]
    <2>1. new \in Act
        BY IdleType DEF Act, Pc
    <2>2. ShapeOf([new EXCEPT !.pass = "rebuild"]) /\ Named([new EXCEPT !.pass = "rebuild"])
        BY DEF Idle, ShapeOf, Named, AtBook, Work, Embedding
    <2> QED
        BY <1>4, <2>1, <2>2, StartTypes DEF StartRebuild
<1>5. ASSUME NEW ids \in SUBSET Id, StartReembed(ids) PROVE Types'
    <2> DEFINE new == [Idle EXCEPT !.pc = "next", !.targets = ids]
    <2>1. new \in Act
        BY IdleType DEF Act, Pc
    <2>2. ShapeOf([new EXCEPT !.pass = "reembed"]) /\ Named([new EXCEPT !.pass = "reembed"])
        BY DEF Idle, ShapeOf, Named, AtBook, Work, Embedding
    <2> QED
        BY <1>5, <2>1, <2>2, StartTypes DEF StartReembed
<1>6. CASE StartReset
    <2> DEFINE new == [Idle EXCEPT !.pc = "clear"]
    <2>1. new \in Act
        BY IdleType DEF Act, Pc
    <2>2. ShapeOf([new EXCEPT !.pass = "reset"]) /\ Named([new EXCEPT !.pass = "reset"])
        BY DEF Idle, ShapeOf, Named, AtBook, Work, Embedding
    <2> QED
        BY <1>6, <2>1, <2>2, StartTypes DEF StartReset
<1>7. CASE StartResume
    <2> DEFINE new == [Idle EXCEPT !.pc = "next", !.targets = WithStatus("extracted")]
    <2>1. new \in Act
        BY IdleType DEF Act, Pc, WithStatus
    <2>2. ShapeOf([new EXCEPT !.pass = "resume"]) /\ Named([new EXCEPT !.pass = "resume"])
        BY DEF Idle, ShapeOf, Named, AtBook, Work, Embedding
    <2> QED
        BY <1>7, <2>1, <2>2, StartTypes DEF StartResume
<1> QED
    BY <1>1, <1>2, <1>3, <1>4, <1>5, <1>6, <1>7 DEF StartPass

\* What set_state may leave behind.
LEMMA SetStateType ==
    ASSUME progress \in [Id -> Progress], NEW i \in Id \cup {0}, NEW to \in Progress, SetState(i, to)
    PROVE  progress' \in [Id -> Progress]
BY DEF SetState

LEMMA AtType ==
    ASSUME NEW stage \in Stage, NEW m \in Model \cup {NoModel}, NEW done \in BOOLEAN
    PROVE  At(stage, m, done) \in Progress
BY DEF At, Progress

LEMMA FailTypes ==
    ASSUME Types, NEW p \in Process, Fail(p)
    PROVE  Types'
<1>1. act[p] \in Act /\ ShapeOf(act[p]) /\ Named(act[p])
    BY DEF Types, TypeOK, Shapes
<1>2. act' \in [Process -> Act] /\ Shapes'
    <2>1. CASE act[p].pass = "rebuild" /\ act[p].pc \in {"drop", "insert"}
        <3>1. Goto(p, "next")
            BY <2>1 DEF Fail
        <3>2. "next" \in Pc
            BY DEF Pc
        <3> DEFINE a == act[p]
                   b == act'[p]
        <3>3. Moved(a, b, "next") => ShapeOf(b) /\ Named(b)
            BY <2>1 DEF Moved, ShapeOf, Named, AtBook, Work, Embedding
        <3> QED
            BY <3>1, <3>2, <3>3, GotoShapes
    <2>2. CASE ~(act[p].pass = "rebuild" /\ act[p].pc \in {"drop", "insert"})
        BY <2>2, EndShapes DEF Fail
    <2> QED
        BY <2>1, <2>2
<1>3. progress' \in [Id -> Progress]
    <2>1. At("embed", model, FALSE) \in Progress /\ act[p].id \in Id \cup {0}
        BY <1>1, AtType DEF Stage, Types, TypeOK, Act
    <2> QED
        BY <2>1, SetStateType DEF Fail, Types, TypeOK
<1> QED
    BY <1>2, <1>3 DEF Fail, Types, TypeOK, env, corpus

LEMMA RestartTypes ==
    ASSUME Types, NEW v \in Version, NEW m \in Model, Restart(v, m)
    PROVE  Types'
<1>1. act' \in [Process -> Act] /\ \A p \in Process : act'[p] = Idle
    BY IdleType DEF Restart
<1>2. Shapes'
    <2>1. \A p \in Process : ShapeOf(act'[p]) /\ Named(act'[p])
        BY <1>1, IdleType
    <2>2. Idle.pass = "none"
        BY DEF Idle
    <2>3. act'["worker"].pass = "none" /\ act'["writer"].pass = "none"
        BY <1>1, <2>2 DEF Process
    <2> QED
        BY <2>1, <2>3 DEF Shapes
<1>3. restarts' \in 0..MaxRestarts
    BY StoresAssumption DEF Restart, Types, TypeOK
<1> QED
    BY <1>1, <1>2, <1>3 DEF Restart, Types, TypeOK, catalog, corpus

\* What the types say of the pass at hand.
LEMMA ActType ==
    ASSUME Types, NEW p \in Process
    PROVE  /\ act[p] \in Act /\ ShapeOf(act[p]) /\ Named(act[p])
           /\ act[p].id \in Id \cup {0} /\ act[p].content \in Content \cup {NoContent}
           /\ act[p].left \in SUBSET Chunk /\ act[p].targets \in SUBSET Id /\ act[p].done \in SUBSET Id
BY DEF Types, TypeOK, Shapes, Act

\* Which passes come to a place the worker is the only one to come to.
LEMMA IngestPlaces ==
    ASSUME Types,
           act["worker"].pc \in {"extract", "compare", "restamp", "register", "mark", "parsed",
                                 "stamp", "store", "path", "metadata"}
    PROVE  act["worker"].pass = "ingest"
BY ActType DEF Process, ShapeOf, Embedding

\* A step that moves the worker on to another place of an ingest.
LEMMA IngestGoto ==
    ASSUME Types, NEW pc \in {"restamp", "register"} \cup Work,
           act["worker"].pass = "ingest", act["worker"].pc # "extract",
           pc \in Work => act["worker"].id \in Id,
           Goto("worker", pc)
    PROVE  act' \in [Process -> Act] /\ Shapes'
<1>1. pc \in Pc /\ "worker" \in Process
    BY DEF Pc, Process, Work, Embedding
<1> DEFINE a == act["worker"]
           b == act'["worker"]
<1>2. Named(a)
    BY <1>1, ActType
<1>3. Moved(a, b, pc) => ShapeOf(b) /\ Named(b)
    BY <1>2 DEF Moved, ShapeOf, Named, AtBook, Work, Embedding
<1> QED
    BY <1>1, <1>3, GotoShapes

LEMMA VersionType == TypeOK => version \in Version /\ version # 0 /\ 0 \notin Id
BY DEF TypeOK, Version, Id

\* What a write of an envelope leaves behind.
LEMMA StoreOutcomeType ==
    ASSUME TypeOK, NEW i \in Id, NEW content \in Content,
           NEW how \in {"stored", "removed", "left"}, StoreOutcome(i, content, how)
    PROVE  envelope' \in [Id -> Envelope]
<1>1. [of |-> content, by |-> version] \in Envelope /\ NoEnvelope \in Envelope
    BY VersionType DEF Envelope, NoEnvelope
<1> QED
    BY <1>1 DEF StoreOutcome, TypeOK

LEMMA IntakeUpdates ==
    ASSUME TypeOK, NEW i \in Id, NEW s \in {"pending", "extracted", "embedded"}
    PROVE  /\ SetStatus(i, s) \in [Id -> Intake \cup {NoIntake}]
           /\ SetExtraction(i) => intake' \in [Id -> Intake \cup {NoIntake}]
           /\ Held(i) => [intake EXCEPT ![i].stored = TRUE] \in [Id -> Intake \cup {NoIntake}]
<1>1. CASE Held(i)
    <2>1. intake[i] \in Intake
        BY <1>1 DEF TypeOK, Held
    <2>2. /\ [intake[i] EXCEPT !.status = s] \in Intake
          /\ [intake[i] EXCEPT !.extractor = version] \in Intake
          /\ [intake[i] EXCEPT !.stored = TRUE] \in Intake
        BY <2>1, VersionType DEF Intake
    <2> QED
        BY <1>1, <2>2 DEF SetStatus, SetExtraction, TypeOK
<1>2. CASE ~Held(i)
    BY <1>2 DEF SetStatus, SetExtraction, TypeOK
<1> QED
    BY <1>1, <1>2

\* The intake found under a source hash is one.
LEMMA IdOfHeld ==
    ASSUME NEW b, IdOf(b) # 0
    PROVE  IdOf(b) \in Id /\ Held(IdOf(b)) /\ intake[IdOf(b)].sha = b
BY DEF IdOf

LEMMA IdOfType ==
    ASSUME NEW b
    PROVE  IdOf(b) \in Id \cup {0}
BY DEF IdOf

LEMMA IngestTypes ==
    ASSUME Types, IngestStep
    PROVE  Types'
<1> DEFINE me == act["worker"]
<1>0. /\ "worker" \in Process /\ TypeOK /\ Shapes
      /\ me \in Act /\ ShapeOf(me) /\ Named(me) /\ act \in [Process -> Act]
    BY ActType DEF Process, Types, TypeOK
<1>1. CASE Extract
    <2> DEFINE content == ContentOf[me.book][version]
               r == [me EXCEPT !.content = content,
                               !.id = IF me.behind THEN IdOf(me.book) ELSE 0,
                               !.pc = IF me.behind THEN "compare" ELSE "register"]
    <2>1. me.pass = "ingest" /\ me.book \in Book
        BY <1>0, <1>1, IngestPlaces DEF Extract, Named
    <2>2. content \in Content
        BY <1>0, <2>1, StoresAssumption, VersionType
    <2>3. r \in Act
        BY <1>0, <2>2, IdOfType DEF Act, Pc
    <2>4. act' = [act EXCEPT !["worker"] = r]
        BY <1>1 DEF Extract
    <2>5. act' \in [Process -> Act] /\ act'["worker"] = r /\ Only("worker")
        BY <1>0, <2>3, <2>4, Acts
    <2>6. r.pass = "ingest" /\ ShapeOf(r) /\ Named(r)
        <3>1. r.pass = "ingest" /\ r.pc \in {"compare", "register"} /\ r.book \in Book /\ r.content \in Content
            BY <1>0, <2>1, <2>2 DEF Act
        <3> QED
            BY <3>1 DEF ShapeOf, Named, AtBook, Work, Embedding
    <2>7. Shapes'
        <3>1. act'["worker"].pass = act["worker"].pass /\ ShapeOf(act'["worker"]) /\ Named(act'["worker"])
            BY <2>1, <2>5, <2>6
        <3> HIDE DEF me, r
        <3> QED
            BY <1>0, <2>5, <3>1, SamePass, ShapesKept
    <2> QED
        BY <1>0, <1>1, <2>5, <2>7 DEF Extract, Types, TypeOK, env, catalog, corpus
<1>2. ASSUME NEW how \in {"stored", "removed", "left"}, Compare(how) PROVE Types'
    <2>1. me.pass = "ingest" /\ me.content \in Content /\ me.pc = "compare"
        BY <1>0, <1>2, IngestPlaces DEF Compare, Named
    <2>2. act' \in [Process -> Act] /\ Shapes'
        BY <1>2, <2>1, IngestGoto DEF Compare, Work, Embedding
    <2>3. envelope' \in [Id -> Envelope]
        <3>1. CASE me.id \in Id
            BY <1>0, <1>2, <2>1, <3>1, StoreOutcomeType DEF Compare, TypeOK
        <3>2. CASE me.id \notin Id
            <4>1. envelope' = envelope \/ \E x : envelope' = [envelope EXCEPT ![me.id] = x]
                BY <1>2 DEF Compare, StoreOutcome
            <4> QED
                BY <1>0, <3>2, <4>1 DEF TypeOK
        <3> QED
            BY <3>1, <3>2
    <2> QED
        BY <1>0, <1>2, <2>2, <2>3 DEF Compare, Types, TypeOK, env, catalog, corpus
<1>3. ASSUME NEW how \in {"stored", "removed", "left"}, StoreEnvelope(how) PROVE Types'
    <2>1. me.pass = "ingest" /\ me.content \in Content /\ me.id \in Id /\ me.pc = "store"
        BY <1>0, <1>3, IngestPlaces DEF StoreEnvelope, Named, AtBook, Work
    <2>2. act' \in [Process -> Act] /\ Shapes'
        BY <1>3, <2>1, IngestGoto DEF StoreEnvelope, Work
    <2>3. envelope' \in [Id -> Envelope]
        BY <1>0, <1>3, <2>1, StoreOutcomeType DEF StoreEnvelope
    <2> QED
        BY <1>0, <1>3, <2>2, <2>3 DEF StoreEnvelope, Types, TypeOK, env, catalog, corpus
<1>4. CASE Restamp
    <2>1. act' \in [Process -> Act] /\ Shapes'
        BY <1>0, <1>4, EndShapes DEF Restamp
    <2>2. intake' \in [Id -> Intake \cup {NoIntake}]
        <3>1. CASE me.id \in Id
            BY <1>0, <1>4, <3>1, IntakeUpdates DEF Restamp
        <3>2. CASE me.id \notin Id
            <4>1. intake' = intake \/ \E x : intake' = [intake EXCEPT ![me.id] = x]
                BY <1>4 DEF Restamp, SetExtraction
            <4> QED
                BY <1>0, <3>2, <4>1 DEF TypeOK
        <3> QED
            BY <3>1, <3>2
    <2> QED
        BY <1>0, <1>4, <2>1, <2>2 DEF Restamp, Types, TypeOK, env, corpus
<1>5. CASE Register
    <2> DEFINE known == IdOf(me.book)
               id == IF known # 0 THEN known ELSE issued + 1
               r == [me EXCEPT !.id = id, !.pc = "mark"]
    <2>1. me.pass = "ingest" /\ me.content \in Content /\ me.book \in Book /\ me.pc = "register"
        BY <1>0, <1>5, IngestPlaces DEF Register, Named
    <2>2. id \in Id /\ act' = [act EXCEPT !["worker"] = r]
        BY <1>5 DEF Register
    <2>3. r \in Act /\ r.pass = "ingest" /\ r.pc = "mark" /\ r.id = id /\ r.content \in Content /\ r.book \in Book
        BY <1>0, <2>1, <2>2 DEF Act, Pc
    <2>4. ShapeOf(r) /\ Named(r)
        BY <2>2, <2>3 DEF ShapeOf, Named
    <2>5. act' \in [Process -> Act] /\ act'["worker"] = r /\ Only("worker")
        BY <1>0, <2>2, <2>3, Acts
    <2>6. Shapes'
        <3>1. act'["worker"].pass = act["worker"].pass /\ ShapeOf(act'["worker"]) /\ Named(act'["worker"])
            BY <2>1, <2>5, <2>3, <2>4
        <3> HIDE DEF me, r
        <3> QED
            BY <1>0, <2>5, <3>1, SamePass, ShapesKept
    <2>7. intake' \in [Id -> Intake \cup {NoIntake}] /\ issued' \in 0..MaxIntakes
        <3>1. CASE known # 0
            BY <1>0, <1>5, <3>1 DEF Register, TypeOK
        <3>2. CASE known = 0
            <4> DEFINE new == [sha |-> me.book, status |-> "pending", extractor |-> 0, stored |-> FALSE]
            <4>1. new \in Intake
                BY <2>1 DEF Intake
            <4>2. intake' = [intake EXCEPT ![id] = new] /\ issued' = id
                BY <1>5, <3>2 DEF Register
            <4>3. id \in 0..MaxIntakes
                BY <2>2, StoresAssumption DEF Id
            <4> QED
                BY <1>0, <4>1, <4>2, <4>3 DEF TypeOK
        <3> QED
            BY <3>1, <3>2
    <2> QED
        BY <1>0, <1>5, <2>5, <2>6, <2>7 DEF Register, Types, TypeOK, env, corpus
<1>6. CASE MarkExtracted
    <2>1. me.pass = "ingest" /\ me.id \in Id /\ me.pc = "mark"
        BY <1>0, <1>6, IngestPlaces DEF MarkExtracted, Named, AtBook
    <2>2. act' \in [Process -> Act] /\ Shapes'
        BY <1>6, <2>1, IngestGoto DEF MarkExtracted, Work
    <2>3. intake' \in [Id -> Intake \cup {NoIntake}]
        BY <1>0, <1>6, <2>1, IntakeUpdates DEF MarkExtracted, Marked
    <2> QED
        BY <1>0, <1>6, <2>2, <2>3 DEF MarkExtracted, Types, TypeOK, env, corpus
<1>7. CASE RecordParse
    <2>1. me.pass = "ingest" /\ me.id \in Id /\ me.pc = "parsed"
        BY <1>0, <1>7, IngestPlaces DEF RecordParse, Named, AtBook, Work
    <2>2. act' \in [Process -> Act] /\ Shapes'
        BY <1>7, <2>1, IngestGoto DEF RecordParse, Work
    <2>3. progress' \in [Id -> Progress]
        BY <1>0, <1>7, <2>1, SetStateType, AtType DEF RecordParse, TypeOK, Stage
    <2> QED
        BY <1>0, <1>7, <2>2, <2>3 DEF RecordParse, Types, TypeOK, env, corpus
<1>8. CASE StampExtraction
    <2>1. me.pass = "ingest" /\ me.id \in Id /\ me.pc = "stamp"
        BY <1>0, <1>8, IngestPlaces DEF StampExtraction, Named, AtBook, Work
    <2>2. act' \in [Process -> Act] /\ Shapes'
        BY <1>8, <2>1, IngestGoto DEF StampExtraction, Work
    <2>3. intake' \in [Id -> Intake \cup {NoIntake}]
        BY <1>0, <1>8, <2>1, IntakeUpdates DEF StampExtraction
    <2> QED
        BY <1>0, <1>8, <2>2, <2>3 DEF StampExtraction, Types, TypeOK, env, corpus
<1>9. CASE RecordPath
    <2>1. me.pass = "ingest" /\ me.id \in Id /\ me.pc = "path"
        BY <1>0, <1>9, IngestPlaces DEF RecordPath, Named, AtBook, Work
    <2>2. act' \in [Process -> Act] /\ Shapes'
        BY <1>9, <2>1, IngestGoto DEF RecordPath, Work
    <2>3. intake' \in [Id -> Intake \cup {NoIntake}]
        BY <1>0, <1>9, <2>1, IntakeUpdates DEF RecordPath, TypeOK
    <2> QED
        BY <1>0, <1>9, <2>2, <2>3 DEF RecordPath, Types, TypeOK, env, corpus
<1>10. CASE HoldForMetadata
    <2>1. me.pass = "ingest" /\ me.id \in Id
        BY <1>0, <1>10, IngestPlaces DEF HoldForMetadata, Named, AtBook, Work
    <2>2. act' \in [Process -> Act] /\ Shapes'
        BY <1>0, <1>10, EndShapes DEF HoldForMetadata
    <2>3. progress' \in [Id -> Progress]
        BY <1>0, <1>10, <2>1, SetStateType, AtType DEF HoldForMetadata, TypeOK, Stage
    <2> QED
        BY <1>0, <1>10, <2>2, <2>3 DEF HoldForMetadata, Types, TypeOK, env, corpus
<1>11. CASE PassMetadata
    <2>1. me.pass = "ingest" /\ me.id \in Id /\ me.pc = "metadata"
        BY <1>0, <1>11, IngestPlaces DEF PassMetadata, Named, AtBook, Work
    <2>2. act' \in [Process -> Act] /\ Shapes'
        BY <1>11, <2>1, IngestGoto DEF PassMetadata, Work
    <2> QED
        BY <1>0, <1>11, <2>2 DEF PassMetadata, Types, TypeOK, env, catalog, corpus
<1> QED
    BY <1>1, <1>2, <1>3, <1>4, <1>5, <1>6, <1>7, <1>8, <1>9, <1>10, <1>11 DEF IngestStep

\* A set of intakes that is not empty has its least one in it.
LEMMA MinType ==
    ASSUME NEW T \in SUBSET Id, T # {}
    PROVE  Min(T) \in T
<1> DEFINE less == OpToRel(<, Nat)
<1>1. \A x, y \in Nat : x < y => <<x, y>> \in less
    BY DEF OpToRel
<1>2. IsWellFoundedOn(less, Nat)
    BY NatLessThanWellFounded
<1>3. T \in SUBSET Nat
    BY StoresAssumption DEF Id
<1> HIDE DEF less
<1>4. PICK x \in T : \A y \in T : ~ (<<y, x>> \in less)
    BY <1>2, <1>3, WFMin
<1>5. \A y \in T : x <= y
    <2>1. ASSUME NEW y \in T PROVE x <= y
        <3>1. x \in Nat /\ y \in Nat
            BY <1>3
        <3>2. ~ (y < x)
            BY <1>1, <1>4, <3>1
        <3> QED
            BY <3>1, <3>2
    <2> QED
        BY <2>1
<1> QED
    BY <1>5 DEF Min

\* The chunks of a tree.
LEMMA ChunksType ==
    ASSUME NEW c \in Content
    PROVE  Chunks(c) \in SUBSET Chunk /\ Chunks(c) # {}
<1>1. Chunks(c) \subseteq Chunk
    BY DEF Chunks, Chunk
<1>2. Size[c] \in Nat \ {0}
    BY StoresAssumption
<1>3. 1 \in 1..Size[c]
    BY <1>2
<1>4. <<c, 1>> \in Chunks(c)
    BY <1>3 DEF Chunks
<1> QED
    BY <1>1, <1>4

LEMMA EmbedGoto ==
    ASSUME Types, NEW p \in Process,
           NEW from \in Embedding \cup {"promote"}, act[p].pc = from,
           NEW pc \in {"delete", "append"} \cup {IF act[p].pass = "resume" THEN "next" ELSE "record"},
           from = "promote" <=> pc \in {"next", "record"},
           Goto(p, pc)
    PROVE  act' \in [Process -> Act] /\ Shapes'
<1> DEFINE a == act[p]
           b == act'[p]
<1>1. pc \in Pc
    BY DEF Pc
<1>2. Named(a) /\ ShapeOf(a)
    BY ActType
<1>3. ASSUME Moved(a, b, pc) PROVE ShapeOf(b)
    BY <1>2, <1>3 DEF Moved, ShapeOf, Work, Embedding
<1>4. ASSUME Moved(a, b, pc) PROVE Named(b)
    <2>1. a.pc \in AtBook /\ a.pc # "extract" /\ b.pc # "insert"
        BY <1>4 DEF Moved, AtBook, Work, Embedding
    <2> QED
        BY <1>2, <1>4, <2>1 DEF Moved, Named
<1> QED
    BY <1>1, <1>3, <1>4, GotoShapes

LEMMA SharedTypes ==
    ASSUME Types, NEW p \in Process, SharedStep(p)
    PROVE  Types'
<1> DEFINE me == act[p]
<1>0. /\ TypeOK /\ Shapes /\ me \in Act /\ ShapeOf(me) /\ Named(me) /\ act \in [Process -> Act]
    BY ActType DEF Types, TypeOK
<1>1. CASE DropTree(p)
    <2>1. me.pc = "drop" /\ me.id \in Id /\ me.pass \in {"ingest", "rebuild"} /\ me.content \in Content
        BY <1>0, <1>1 DEF DropTree, Named, AtBook, Work, Embedding, ShapeOf
    <2> DEFINE b == act'[p]
    <2>2. Moved(me, b, "insert") => ShapeOf(b) /\ Named(b)
        BY <1>0, <2>1 DEF Moved, ShapeOf, Named, AtBook, Work, Embedding
    <2>3. "insert" \in Pc
        BY DEF Pc
    <2>4. act' \in [Process -> Act] /\ Shapes'
        BY <1>1, <2>2, <2>3, GotoShapes DEF DropTree
    <2> QED
        BY <1>0, <1>1, <2>4 DEF DropTree, Types, TypeOK, env, catalog
<1>2. CASE InsertTree(p)
    <2> DEFINE free == tree[me.id] = NoContent
    <2>1. me.pc = "insert" /\ me.id \in Id /\ me.pass \in {"ingest", "rebuild"} /\ me.content \in Content
        BY <1>0, <1>2 DEF InsertTree, Named, AtBook, Work, Embedding, ShapeOf
    <2>2. tree' \in [Id -> Content \cup {NoContent}]
        BY <1>0, <1>2, <2>1 DEF InsertTree, TypeOK
    <2>3. CASE me.pass = "rebuild"
        <3> DEFINE r == [me EXCEPT !.pc = "next", !.done = IF free THEN @ \cup {me.id} ELSE @]
        <3>1. r \in Act /\ r.pc = "next" /\ r.pass = "rebuild"
            BY <1>0, <2>1, <2>3 DEF Act, Pc
        <3>2. act' = [act EXCEPT ![p] = r]
            BY <1>2, <2>3 DEF InsertTree
        <3>3. act' \in [Process -> Act] /\ act'[p] = r /\ Only(p)
            BY <1>0, <3>1, <3>2, Acts
        <3>4. ShapeOf(r) /\ Named(r)
            BY <3>1 DEF ShapeOf, Named, AtBook, Work, Embedding
        <3> HIDE DEF r
        <3>5. act'[p].pass = act[p].pass
            BY <2>3, <3>1, <3>3
        <3> HIDE DEF me
        <3>6. Shapes'
            BY <1>0, <3>3, <3>4, <3>5, SamePass, ShapesKept
        <3> QED
            BY <1>0, <1>2, <2>2, <3>3, <3>6 DEF InsertTree, Types, TypeOK, env, catalog
    <2>4. CASE me.pass = "ingest" /\ free
        <3> DEFINE r == [me EXCEPT !.pc = "parsed"]
        <3>1. r \in Act /\ r.pc = "parsed" /\ r.pass = "ingest" /\ r.id = me.id
              /\ r.content = me.content /\ r.book = me.book
            BY <1>0, <2>4 DEF Act, Pc
        <3>2. act' = [act EXCEPT ![p] = r]
            BY <1>2, <2>4 DEF InsertTree
        <3>3. act' \in [Process -> Act] /\ act'[p] = r /\ Only(p)
            BY <1>0, <3>1, <3>2, Acts
        <3>4. ShapeOf(r) /\ Named(r)
            BY <1>0, <2>1, <2>4, <3>1 DEF ShapeOf, Named, AtBook, Work, Embedding
        <3> HIDE DEF r
        <3>5. act'[p].pass = act[p].pass
            BY <2>4, <3>1, <3>3
        <3> HIDE DEF me
        <3>6. Shapes'
            BY <1>0, <3>3, <3>4, <3>5, SamePass, ShapesKept
        <3> QED
            BY <1>0, <1>2, <2>2, <3>3, <3>6 DEF InsertTree, Types, TypeOK, env, catalog
    <2>5. CASE me.pass = "ingest" /\ ~free
        <3>1. End(p)
            BY <1>2, <2>5 DEF InsertTree, End
        <3>2. act' \in [Process -> Act] /\ Shapes'
            BY <3>1, EndShapes
        <3> QED
            BY <1>0, <1>2, <2>2, <3>2 DEF InsertTree, Types, TypeOK, env, catalog
    <2> QED
        BY <2>1, <2>3, <2>4, <2>5
<1>3. CASE PlanChunks(p)
    <2> DEFINE plan == IF tree[me.id] = NoContent THEN {} ELSE Chunks(tree[me.id])
               pc == IF plan # {} THEN "reconcile" ELSE IF me.pass = "resume" THEN "next" ELSE "promote"
               r == [me EXCEPT !.left = plan, !.pc = pc]
    <2>1. me.pc = "chunk" /\ me.id \in Id /\ me.pass \in {"ingest", "advance", "resume"}
        BY <1>0, <1>3 DEF PlanChunks, Named, AtBook, Work, Embedding, ShapeOf
    <2>2. plan \in SUBSET Chunk
        BY <1>0, <2>1, ChunksType DEF TypeOK
    <2>3. r \in Act /\ r.pc \in {"reconcile", "next", "promote"} /\ r.pass = me.pass /\ r.id = me.id
          /\ r.content = me.content /\ r.book = me.book
          /\ (r.pc = "next" <=> plan = {} /\ me.pass = "resume")
        <3>1. pc \in {"reconcile", "next", "promote"} /\ (pc = "next" <=> plan = {} /\ me.pass = "resume")
            OBVIOUS
        <3>2. pc \in Pc
            BY <3>1 DEF Pc
        <3> HIDE DEF pc, plan
        <3> QED
            BY <1>0, <2>2, <3>1, <3>2 DEF Act
    <2>4. act' = [act EXCEPT ![p] = r]
        BY <1>3 DEF PlanChunks
    <2>5. act' \in [Process -> Act] /\ act'[p] = r /\ Only(p)
        BY <1>0, <2>3, <2>4, Acts
    <2> HIDE DEF r, plan
    <2>6. ShapeOf(r) /\ Named(r)
        <3>1. ShapeOf(r)
            BY <2>1, <2>3 DEF ShapeOf, Work, Embedding
        <3>2. Named(r)
            BY <1>0, <2>1, <2>3 DEF Named
        <3> QED
            BY <3>1, <3>2
    <2>7. act'[p].pass = act[p].pass
        BY <2>3, <2>5
    <2>8. Shapes'
        BY <1>0, <2>5, <2>6, <2>7, SamePass, ShapesKept
    <2> QED
        BY <1>0, <1>3, <2>5, <2>8 DEF PlanChunks, Types, TypeOK, env, catalog, corpus
<1>4. CASE ScanRows(p)
    <2> DEFINE plan == {r.chunk : r \in rows[me.id]}
               pc == IF plan = {} THEN "next" ELSE "reconcile"
               r == [me EXCEPT !.left = plan, !.pc = pc]
    <2>1. me.pc = "scan" /\ me.id \in Id /\ me.pass = "reembed"
        BY <1>0, <1>4 DEF ScanRows, Named, AtBook, Work, Embedding, ShapeOf
    <2>2. plan \in SUBSET Chunk
        BY <1>0, <2>1 DEF TypeOK, Row
    <2>3. r \in Act /\ r.pc \in {"reconcile", "next"} /\ r.pass = me.pass /\ r.id = me.id
        BY <1>0, <2>2 DEF Act, Pc
    <2>4. act' = [act EXCEPT ![p] = r]
        BY <1>4 DEF ScanRows
    <2>5. act' \in [Process -> Act] /\ act'[p] = r /\ Only(p)
        BY <1>0, <2>3, <2>4, Acts
    <2> HIDE DEF r, plan
    <2>6. ShapeOf(r) /\ Named(r)
        BY <2>1, <2>3 DEF ShapeOf, Embedding, Named
    <2>7. act'[p].pass = act[p].pass
        BY <2>3, <2>5
    <2>8. Shapes'
        BY <1>0, <2>5, <2>6, <2>7, SamePass, ShapesKept
    <2> QED
        BY <1>0, <1>4, <2>5, <2>8 DEF ScanRows, Types, TypeOK, env, catalog, corpus
<1>5. CASE Reconcile(p)
    <2>1. act' \in [Process -> Act] /\ Shapes'
        BY <1>5, EmbedGoto DEF Reconcile, Embedding
    <2> QED
        BY <1>0, <1>5, <2>1 DEF Reconcile, Types, TypeOK, env, catalog
<1>6. CASE ReconcileRefused(p)
    <2>1. act' \in [Process -> Act] /\ Shapes'
        BY <1>0, <1>6, EndShapes DEF ReconcileRefused
    <2>2. me.id \in Id
        BY <1>0, <1>6 DEF ReconcileRefused, Named, AtBook, Work, Embedding
    <2>3. progress' \in [Id -> Progress]
        BY <1>0, <1>6, <2>2, SetStateType, AtType DEF ReconcileRefused, TypeOK, Stage
    <2> QED
        BY <1>0, <1>6, <2>1, <2>3 DEF ReconcileRefused, Types, TypeOK, env, corpus
<1>7. CASE DeleteRows(p)
    <2>1. act' \in [Process -> Act] /\ Shapes'
        BY <1>7, EmbedGoto DEF DeleteRows, Embedding
    <2> QED
        BY <1>0, <1>7, <2>1 DEF DeleteRows, Types, TypeOK, env, catalog, corpus
<1>8. ASSUME NEW chunk \in Chunk, AppendRows(p, chunk) PROVE Types'
    <2> DEFINE pc == IF me.left # {chunk} THEN "append" ELSE IF me.pass = "reembed" THEN "next" ELSE "promote"
               r == [me EXCEPT !.left = @ \ {chunk}, !.pc = pc]
    <2>1. me.pc = "append" /\ me.id \in Id /\ me.pass \in {"ingest", "advance", "resume", "reembed"}
        BY <1>0, <1>8 DEF AppendRows, Named, AtBook, Work, Embedding, ShapeOf
    <2>2. rows' \in [Id -> SUBSET Row]
        BY <1>0, <1>8, <2>1 DEF AppendRows, TypeOK, Row
    <2>3. r \in Act /\ r.pass = me.pass /\ r.id = me.id /\ r.content = me.content /\ r.book = me.book
          /\ r.pc \in {"append", IF me.pass = "reembed" THEN "next" ELSE "promote"}
        <3>1. pc \in Pc /\ pc \in {"append", IF me.pass = "reembed" THEN "next" ELSE "promote"}
            BY DEF Pc
        <3> HIDE DEF pc
        <3> QED
            BY <1>0, <3>1 DEF Act
    <2>4. act' = [act EXCEPT ![p] = r]
        BY <1>8 DEF AppendRows
    <2>5. act' \in [Process -> Act] /\ act'[p] = r /\ Only(p)
        BY <1>0, <2>3, <2>4, Acts
    <2> HIDE DEF r
    <2>6. ShapeOf(r) /\ Named(r)
        <3>1. ShapeOf(r)
            BY <2>1, <2>3 DEF ShapeOf, Work, Embedding
        <3>2. Named(r)
            BY <1>0, <2>1, <2>3 DEF Named
        <3> QED
            BY <3>1, <3>2
    <2>7. act'[p].pass = act[p].pass
        BY <2>3, <2>5
    <2>8. Shapes'
        BY <1>0, <2>5, <2>6, <2>7, SamePass, ShapesKept
    <2> QED
        BY <1>0, <1>8, <2>2, <2>5, <2>8 DEF AppendRows, Types, TypeOK, env, catalog, corpus
<1>9. CASE Promote(p)
    <2>1. act' \in [Process -> Act] /\ Shapes'
        BY <1>9, EmbedGoto DEF Promote
    <2>2. me.id \in Id
        BY <1>0, <1>9 DEF Promote, Named, AtBook, Work
    <2>3. intake' \in [Id -> Intake \cup {NoIntake}]
        BY <1>0, <1>9, <2>2, IntakeUpdates DEF Promote
    <2> QED
        BY <1>0, <1>9, <2>1, <2>3 DEF Promote, Types, TypeOK, env, corpus
<1>10. CASE RecordEmbed(p)
    <2>1. act' \in [Process -> Act] /\ Shapes'
        BY <1>0, <1>10, EndShapes DEF RecordEmbed
    <2>2. me.id \in Id
        BY <1>0, <1>10 DEF RecordEmbed, Named, AtBook, Work
    <2>3. progress' \in [Id -> Progress]
        BY <1>0, <1>10, <2>2, SetStateType, AtType DEF RecordEmbed, TypeOK, Stage
    <2> QED
        BY <1>0, <1>10, <2>1, <2>3 DEF RecordEmbed, Types, TypeOK, env, corpus
<1> QED
    BY <1>1, <1>2, <1>3, <1>4, <1>5, <1>6, <1>7, <1>8, <1>9, <1>10 DEF SharedStep

\* Where the writer goes when it looks for its next target.
LEMMA NextTargetActs ==
    ASSUME Types, NextTarget,
           NEW me, me = act["writer"], NEW b, b = act'["writer"],
           NEW id, id = Min(me.targets)
    PROVE  /\ act' \in [Process -> Act] /\ Only("writer")
           /\ me.pass \in {"resume", "reembed", "rebuild"} /\ me.pc = "next"
           /\ me.targets \subseteq Id /\ me.done \subseteq Id
           /\ \/ /\ id \in me.targets /\ id \in Id /\ me.pass = "resume"
                 /\ b.pass = me.pass /\ b.id = id /\ b.pc = "chunk"
                 /\ b.targets = me.targets \ {id} /\ b.done = me.done
              \/ /\ id \in me.targets /\ id \in Id /\ me.pass = "reembed"
                 /\ b.pass = me.pass /\ b.id = id /\ b.pc = "scan"
                 /\ b.targets = me.targets \ {id} /\ b.done = me.done
              \/ /\ id \in me.targets /\ id \in Id /\ me.pass = "rebuild"
                 /\ b.pass = me.pass /\ b.id = id /\ b.pc = "drop"
                 /\ b.targets = me.targets \ {id} /\ b.done = me.done
                 /\ Held(id) /\ b.content = envelope[id].of /\ b.content \in Content
              \/ /\ id \in me.targets /\ id \in Id /\ me.pass = "rebuild"
                 /\ b.pass = me.pass /\ b.id = id /\ b.pc = "next"
                 /\ b.targets = me.targets \ {id} /\ b.done = me.done
              \/ b = Idle
              \/ me.pass = "rebuild" /\ b.pass = "rebuild" /\ b.pc = "index"
                 /\ b.targets = me.targets /\ b.done = me.done
              \/ me.pass = "rebuild" /\ b.pass = "reembed" /\ b.pc = "next"
                 /\ b.targets = me.done /\ b.done = me.done
<1> DEFINE go == [me EXCEPT !.id = id, !.targets = @ \ {id}]
<1>0. "writer" \in Process /\ me \in Act /\ act \in [Process -> Act] /\ TypeOK
    BY ActType DEF Process, Types, TypeOK
<1>1. me.pc = "next"
    BY DEF NextTarget
<1>2. me.pass \in {"resume", "reembed", "rebuild"}
    BY <1>0, <1>1, ActType DEF ShapeOf, Work, Embedding
<1>3. me.targets \subseteq Id /\ me.done \subseteq Id
    BY <1>0 DEF Act
<1>4. CASE me.targets # {}
    <2>1. id \in me.targets /\ id \in Id
        BY <1>3, <1>4, MinType
    <2>2. go \in Act /\ go.pass = me.pass /\ go.id = id /\ go.pc = "next"
          /\ go.targets = me.targets \ {id} /\ go.done = me.done
        BY <1>0, <1>1, <2>1 DEF Act
    <2> HIDE DEF go
    <2>3. CASE me.pass = "resume"
        <3> DEFINE r == [go EXCEPT !.pc = "chunk"]
        <3>1. act' = [act EXCEPT !["writer"] = r]
            BY <1>4, <2>3 DEF NextTarget, go
        <3>2. r \in Act /\ r.pass = me.pass /\ r.id = id /\ r.pc = "chunk"
              /\ r.targets = me.targets \ {id} /\ r.done = me.done
            BY <2>2 DEF Act, Pc
        <3> HIDE DEF r
        <3>3. act' \in [Process -> Act] /\ b = r /\ Only("writer")
            BY <1>0, <3>1, <3>2, Acts
        <3> QED
            BY <1>1, <1>2, <1>3, <2>1, <2>3, <3>2, <3>3
    <2>4. CASE me.pass = "reembed"
        <3> DEFINE r == [go EXCEPT !.pc = "scan"]
        <3>1. act' = [act EXCEPT !["writer"] = r]
            BY <1>4, <2>4 DEF NextTarget, go
        <3>2. r \in Act /\ r.pass = me.pass /\ r.id = id /\ r.pc = "scan"
              /\ r.targets = me.targets \ {id} /\ r.done = me.done
            BY <2>2 DEF Act, Pc
        <3> HIDE DEF r
        <3>3. act' \in [Process -> Act] /\ b = r /\ Only("writer")
            BY <1>0, <3>1, <3>2, Acts
        <3> QED
            BY <1>1, <1>2, <1>3, <2>1, <2>4, <3>2, <3>3
    <2>5. CASE me.pass = "rebuild" /\ Held(id) /\ intake[id].stored /\ envelope[id] # NoEnvelope
        <3> DEFINE r == [go EXCEPT !.pc = "drop", !.content = envelope[id].of]
        <3>0. envelope[id].of \in Content
            BY <1>0, <2>1, <2>5 DEF TypeOK, Envelope, NoEnvelope
        <3>1. act' = [act EXCEPT !["writer"] = r]
            BY <1>4, <2>5 DEF NextTarget, go
        <3>2. r \in Act /\ r.pass = me.pass /\ r.id = id /\ r.pc = "drop"
              /\ r.targets = me.targets \ {id} /\ r.done = me.done /\ r.content = envelope[id].of
            BY <2>2, <3>0 DEF Act, Pc
        <3> HIDE DEF r
        <3>3. act' \in [Process -> Act] /\ b = r /\ Only("writer")
            BY <1>0, <3>1, <3>2, Acts
        <3> QED
            BY <1>1, <1>2, <1>3, <2>1, <2>5, <3>0, <3>2, <3>3
    <2>6. CASE me.pass = "rebuild" /\ ~(Held(id) /\ intake[id].stored /\ envelope[id] # NoEnvelope)
        <3>1. act' = [act EXCEPT !["writer"] = go]
            BY <1>4, <2>6 DEF NextTarget, go
        <3>3. act' \in [Process -> Act] /\ b = go /\ Only("writer")
            BY <1>0, <2>2, <3>1, Acts
        <3> QED
            BY <1>1, <1>2, <1>3, <2>1, <2>2, <2>6, <3>3
    <2> QED
        BY <1>2, <2>3, <2>4, <2>5, <2>6
<1>5. CASE me.targets = {}
    <2>1. \/ act' = [act EXCEPT !["writer"] = Idle]
          \/ me.pass = "rebuild" /\ act' = [act EXCEPT !["writer"] = [me EXCEPT !.pc = "index"]]
          \/ /\ me.pass = "rebuild"
             /\ act' = [act EXCEPT !["writer"] = [me EXCEPT !.pass = "reembed", !.targets = me.done, !.id = 0]]
        BY <1>5 DEF NextTarget
    <2>2. CASE act' = [act EXCEPT !["writer"] = Idle]
        <3>1. act' \in [Process -> Act] /\ b = Idle /\ Only("writer")
            BY <1>0, <2>2, Acts, IdleType
        <3> QED
            BY <1>1, <1>2, <1>3, <3>1
    <2>3. CASE me.pass = "rebuild" /\ act' = [act EXCEPT !["writer"] = [me EXCEPT !.pc = "index"]]
        <3> DEFINE r == [me EXCEPT !.pc = "index"]
        <3>1. r \in Act /\ r.pass = me.pass /\ r.pc = "index" /\ r.targets = me.targets /\ r.done = me.done
            BY <1>0 DEF Act, Pc
        <3> HIDE DEF r
        <3>2. act' \in [Process -> Act] /\ b = r /\ Only("writer")
            BY <1>0, <2>3, <3>1, Acts DEF r
        <3> QED
            BY <1>1, <1>2, <1>3, <2>3, <3>1, <3>2
    <2>4. CASE /\ me.pass = "rebuild"
               /\ act' = [act EXCEPT !["writer"] = [me EXCEPT !.pass = "reembed", !.targets = me.done, !.id = 0]]
        <3> DEFINE r == [me EXCEPT !.pass = "reembed", !.targets = me.done, !.id = 0]
        <3>1. r \in Act /\ r.pass = "reembed" /\ r.pc = "next" /\ r.targets = me.done /\ r.done = me.done
            BY <1>0, <1>1 DEF Act, AllPasses
        <3> HIDE DEF r
        <3>2. act' \in [Process -> Act] /\ b = r /\ Only("writer")
            BY <1>0, <2>4, <3>1, Acts DEF r
        <3> QED
            BY <1>1, <1>2, <1>3, <2>4, <3>1, <3>2
    <2> QED
        BY <2>1, <2>2, <2>3, <2>4
<1> QED
    BY <1>4, <1>5

LEMMA WriterPlaces ==
    ASSUME Types
    PROVE  LET me == act["writer"] IN
           /\ me.pc \in {"derived", "nodes", "vectors", "file", "row"} => me.pass = "remove" /\ me.id \in Id
           /\ me.pc \in {"clear", "table", "demote"} => me.pass = "reset"
           /\ me.pc = "index" => me.pass = "rebuild"
BY ActType DEF Process, ShapeOf, Named, AtBook, Work, Embedding

LEMMA WriterGoto ==
    ASSUME Types, NEW pc \in {"nodes", "vectors", "file", "row", "table"}, Goto("writer", pc),
           act["writer"].pass = IF pc = "table" THEN "reset" ELSE "remove", act["writer"].id \in Id \/ pc = "table"
    PROVE  act' \in [Process -> Act] /\ Shapes'
<1> DEFINE a == act["writer"]
           b == act'["writer"]
<1>1. Moved(a, b, pc) => ShapeOf(b) /\ Named(b)
    BY DEF Moved, ShapeOf, Named, AtBook, Work, Embedding
<1>2. pc \in Pc /\ "writer" \in Process
    BY DEF Pc, Process
<1> QED
    BY <1>1, <1>2, GotoShapes

LEMMA WriterTypes ==
    ASSUME Types, WriterStep
    PROVE  Types'
<1> DEFINE me == act["writer"]
           b == act'["writer"]
<1>0. "writer" \in Process /\ TypeOK /\ Shapes /\ me \in Act /\ act \in [Process -> Act]
    BY ActType DEF Process, Types, TypeOK
<1>1. CASE NextTarget
    <2>1. act' \in [Process -> Act] /\ Only("writer")
        BY <1>1, NextTargetActs
    <2>2. b.pass \notin {"ingest"}
        BY <1>1, NextTargetActs DEF Idle
    <2>3. b = Idle \/ (ShapeOf(b) /\ Named(b))
        <3>1. CASE b.pc = "chunk" /\ b.pass = "resume" /\ b.id \in Id
            BY <3>1 DEF ShapeOf, Named
        <3>2. CASE b.pc = "scan" /\ b.pass = "reembed" /\ b.id \in Id
            BY <3>2 DEF ShapeOf, Named
        <3>3. CASE b.pc = "drop" /\ b.pass = "rebuild" /\ b.id \in Id /\ b.content \in Content
            BY <3>3 DEF ShapeOf, Named
        <3>4. CASE b.pc \in {"next", "index"} /\ b.pass = "rebuild"
            BY <3>4 DEF ShapeOf, Named, AtBook, Work, Embedding
        <3>5. CASE b.pc = "next" /\ b.pass = "reembed"
            BY <3>5 DEF ShapeOf, Named, AtBook, Work, Embedding
        <3>6. \/ b.id \in Id /\ b.pc = "chunk" /\ b.pass = "resume"
              \/ b.id \in Id /\ b.pc = "scan" /\ b.pass = "reembed"
              \/ b.id \in Id /\ b.pc = "drop" /\ b.pass = "rebuild" /\ b.content \in Content
              \/ b.pc \in {"next", "index"} /\ b.pass = "rebuild"
              \/ b = Idle
              \/ b.pc = "next" /\ b.pass = "reembed"
            BY <1>1, NextTargetActs
        <3> HIDE DEF b
        <3> QED
            BY <3>1, <3>2, <3>3, <3>4, <3>5, <3>6
    <2>4. Shapes'
        <3>1. ShapeOf(b) /\ Named(b)
            BY <2>3, IdleType
        <3> QED
            BY <1>0, <2>1, <2>2, <3>1, ShapesKept
    <2> QED
        BY <1>0, <1>1, <2>1, <2>4 DEF NextTarget, Types, TypeOK, env, catalog, corpus
<1>2. CASE StampIndex
    <2>1. act' \in [Process -> Act] /\ Shapes'
        BY <1>0, <1>2, EndShapes DEF StampIndex
    <2> QED
        BY <1>0, <1>2, <2>1 DEF StampIndex, Types, TypeOK, env, catalog
<1>3. CASE ClearStamps
    <2>1. act' \in [Process -> Act] /\ Shapes'
        BY <1>3, WriterGoto, WriterPlaces DEF ClearStamps
    <2> QED
        BY <1>0, <1>3, <2>1 DEF ClearStamps, Types, TypeOK, env, catalog
<1>4. CASE DropTable
    <2> DEFINE r == [me EXCEPT !.pc = "demote", !.targets = WithStatus("embedded")]
    <2>1. r \in Act /\ r.pc = "demote" /\ r.pass = "reset"
        BY <1>0, <1>4, WriterPlaces DEF DropTable, Act, Pc, WithStatus
    <2>2. act' = [act EXCEPT !["writer"] = r]
        BY <1>4 DEF DropTable
    <2>3. act' \in [Process -> Act] /\ b = r /\ Only("writer")
        BY <1>0, <2>1, <2>2, Acts
    <2> HIDE DEF r
    <2>4. ShapeOf(r) /\ Named(r)
        BY <2>1 DEF ShapeOf, Named, AtBook, Work, Embedding
    <2>5. Shapes'
        BY <1>0, <2>1, <2>3, <2>4, ShapesKept
    <2>6. rows' \in [Id -> SUBSET Row]
        BY <1>4 DEF DropTable
    <2> QED
        BY <1>0, <1>4, <2>3, <2>5, <2>6 DEF DropTable, Types, TypeOK, env, catalog, corpus
<1>5. CASE Demote
    <2> DEFINE id == Min(me.targets)
               r == [me EXCEPT !.targets = @ \ {id}]
    <2>1. r \in Act /\ r.pc = "demote" /\ r.pass = "reset"
        BY <1>0, <1>5, WriterPlaces DEF Demote, Act
    <2>2. act' = [act EXCEPT !["writer"] = r]
        BY <1>5 DEF Demote
    <2>3. act' \in [Process -> Act] /\ b = r /\ Only("writer")
        BY <1>0, <2>1, <2>2, Acts
    <2> HIDE DEF r
    <2>4. ShapeOf(r) /\ Named(r)
        BY <2>1 DEF ShapeOf, Named, AtBook, Work, Embedding
    <2>5. Shapes'
        BY <1>0, <2>1, <2>3, <2>4, ShapesKept
    <2>6. id \in Id
        BY <1>0, <1>5, MinType DEF Demote, Act
    <2>7. intake' \in [Id -> Intake \cup {NoIntake}]
        BY <1>0, <1>5, <2>6, IntakeUpdates DEF Demote
    <2> QED
        BY <1>0, <1>5, <2>3, <2>5, <2>7 DEF Demote, Types, TypeOK, env, corpus
<1>6. CASE StartBuild
    <2> DEFINE r == [me EXCEPT !.pass = "resume", !.pc = "next", !.targets = WithStatus("extracted")]
    <2>1. r \in Act /\ r.pc = "next" /\ r.pass = "resume"
        BY <1>0 DEF Act, Pc, AllPasses, WithStatus
    <2>2. act' = [act EXCEPT !["writer"] = r]
        BY <1>6 DEF StartBuild
    <2>3. act' \in [Process -> Act] /\ b = r /\ Only("writer")
        BY <1>0, <2>1, <2>2, Acts
    <2> HIDE DEF r
    <2>4. ShapeOf(r) /\ Named(r)
        BY <2>1 DEF ShapeOf, Named, AtBook, Work, Embedding
    <2>5. Shapes'
        BY <1>0, <2>1, <2>3, <2>4, ShapesKept
    <2> QED
        BY <1>0, <1>6, <2>3, <2>5 DEF StartBuild, Types, TypeOK, env, catalog, corpus
<1>7. CASE RemoveDerived
    <2>1. act' \in [Process -> Act] /\ Shapes'
        BY <1>7, WriterGoto, WriterPlaces DEF RemoveDerived
    <2>2. NoProgress \in Progress
        BY AtType DEF NoProgress, Stage
    <2> QED
        BY <1>0, <1>7, <2>1, <2>2 DEF RemoveDerived, Types, TypeOK, env, corpus
<1>8. CASE RemoveNodes
    <2>1. act' \in [Process -> Act] /\ Shapes'
        BY <1>8, WriterGoto, WriterPlaces DEF RemoveNodes
    <2> QED
        BY <1>0, <1>8, <2>1 DEF RemoveNodes, Types, TypeOK, env, catalog
<1>9. CASE RemoveVectors
    <2>1. act' \in [Process -> Act] /\ Shapes'
        BY <1>9, WriterGoto, WriterPlaces DEF RemoveVectors
    <2> QED
        BY <1>0, <1>9, <2>1 DEF RemoveVectors, Types, TypeOK, env, catalog, corpus
<1>10. CASE RemoveEnvelope
    <2>1. act' \in [Process -> Act] /\ Shapes'
        BY <1>10, WriterGoto, WriterPlaces DEF RemoveEnvelope
    <2>2. NoEnvelope \in Envelope
        BY DEF NoEnvelope, Envelope
    <2>3. envelope' \in [Id -> Envelope]
        BY <1>0, <1>10, <2>2 DEF RemoveEnvelope, TypeOK
    <2> QED
        BY <1>0, <1>10, <2>1, <2>3 DEF RemoveEnvelope, Types, TypeOK, env, catalog, corpus
<1>11. CASE RemoveRow
    <2>1. act' \in [Process -> Act] /\ Shapes'
        BY <1>0, <1>11, EndShapes DEF RemoveRow
    <2> QED
        BY <1>0, <1>11, <2>1 DEF RemoveRow, Types, TypeOK, env, corpus
<1> QED
    BY <1>1, <1>2, <1>3, <1>4, <1>5, <1>6, <1>7, <1>8, <1>9, <1>10, <1>11 DEF WriterStep

LEMMA InitTypes == Init => Types
<1> SUFFICES ASSUME Init PROVE Types
    OBVIOUS
<1>1. TypeOK
    <2>1. NoEnvelope \in Envelope /\ NoProgress \in Progress
        BY AtType DEF NoEnvelope, Envelope, NoProgress, Stage
    <2> QED
        BY <2>1, IdleType, StoresAssumption DEF Init, TypeOK, Version
<1>2. \A p \in Process : act[p] = Idle
    BY DEF Init
<1>3. Shapes
    BY <1>2, IdleType DEF Shapes, Process, Idle
<1> QED
    BY <1>1, <1>3 DEF Types

LEMMA TypesStep == Types /\ [Next]_vars => Types'
<1> SUFFICES ASSUME Types, [Next]_vars PROVE Types'
    OBVIOUS
<1>1. CASE StartPass
    BY <1>1, StartPassTypes
<1>2. CASE IngestStep
    BY <1>2, IngestTypes
<1>3. ASSUME NEW p \in Process, SharedStep(p) \/ Fail(p) PROVE Types'
    BY <1>3, SharedTypes, FailTypes
<1>4. CASE WriterStep
    BY <1>4, WriterTypes
<1>5. ASSUME NEW v \in Version, NEW m \in Model, Restart(v, m) PROVE Types'
    BY <1>5, RestartTypes
<1>6. CASE UNCHANGED vars
    BY <1>6 DEF vars, env, catalog, corpus, Types, TypeOK, Shapes
<1> QED
    BY <1>1, <1>2, <1>3, <1>4, <1>5, <1>6 DEF Next

LEMMA TypesAlways == Spec => []Types
BY InitTypes, TypesStep, PTL DEF Spec

\* Every store keeps its type, and a pass is where its code can be.
THEOREM TypeCorrect == Spec => []TypeOK
<1>1. Types => TypeOK
    BY DEF Types
<1> QED
    BY <1>1, TypesAlways, PTL

-----------------------------------------------------------------------------
(* What a step does to the pass that takes it.                             *)

\* `b` is the pass `a` at another place, for another book or with other
\* work left.
Replaced(a, b, pc, id, left, targets) ==
    /\ b.pc = pc /\ b.id = id /\ b.left = left /\ b.targets = targets
    /\ b.pass = a.pass /\ b.book = a.book /\ b.behind = a.behind /\ b.vectors = a.vectors

LEMMA StartActs ==
    ASSUME Types, NEW p \in Process, NEW pass, NEW new \in Act, Start(p, pass, new)
    PROVE  LET b == act'[p] IN
           /\ pass \in Passes /\ act[p] = Idle /\ Only(p)
           /\ Overlap \/ \A q \in Process : act[q] = Idle
           /\ b.pass = pass /\ b.pc = new.pc /\ b.book = new.book /\ b.id = new.id
           /\ b.content = new.content /\ b.behind = new.behind /\ b.vectors = new.vectors
           /\ b.left = new.left /\ b.targets = new.targets /\ b.done = new.done
           /\ UNCHANGED <<version, model, intake, issued, progress, tree, rows, envelope, stamp>>
<1> DEFINE r == [new EXCEPT !.pass = pass]
<1>1. r \in Act
    BY StoresAssumption DEF Start, Act
<1>2. act' = [act EXCEPT ![p] = r]
    BY DEF Start
<1>3. act'[p] = r /\ Only(p)
    BY <1>1, <1>2, Acts DEF Types, TypeOK
<1>4. /\ r.pass = pass /\ r.pc = new.pc /\ r.book = new.book /\ r.id = new.id
      /\ r.content = new.content /\ r.behind = new.behind /\ r.vectors = new.vectors
      /\ r.left = new.left /\ r.targets = new.targets /\ r.done = new.done
    BY DEF Act
<1> HIDE DEF r
<1> QED
    BY <1>3, <1>4 DEF Start, catalog, corpus

LEMMA ExtractActs ==
    ASSUME Types, Extract, NEW a, a = act["worker"], NEW b, b = act'["worker"]
    PROVE  /\ Only("worker") /\ a.pc = "extract" /\ a.pass = "ingest" /\ a.book \in Book
           /\ b.content = ContentOf[a.book][version]
           /\ b.behind = a.behind /\ b.book = a.book /\ b.pass = "ingest"
           /\ b.left = a.left /\ b.targets = a.targets /\ b.done = a.done
           /\ b.id = IF a.behind THEN IdOf(a.book) ELSE 0
           /\ b.pc = IF a.behind THEN "compare" ELSE "register"
<1> DEFINE r == [a EXCEPT !.content = ContentOf[a.book][version],
                          !.id = IF a.behind THEN IdOf(a.book) ELSE 0,
                          !.pc = IF a.behind THEN "compare" ELSE "register"]
<1>0. "worker" \in Process /\ a \in Act /\ act \in [Process -> Act] /\ Named(a)
    BY ActType DEF Process, Types, TypeOK
<1>1. a.pc = "extract" /\ a.pass = "ingest" /\ a.book \in Book
    BY <1>0, IngestPlaces DEF Extract, Named
<1>2. ContentOf[a.book][version] \in Content
    BY <1>1, StoresAssumption DEF Types, TypeOK
<1>3. r \in Act
    <2> DEFINE pc == IF a.behind THEN "compare" ELSE "register"
               id == IF a.behind THEN IdOf(a.book) ELSE 0
    <2>1. pc \in Pc /\ id \in Id \cup {0}
        BY IdOfType DEF Pc
    <2> HIDE DEF pc, id
    <2>2. [a EXCEPT !.content = ContentOf[a.book][version], !.id = id, !.pc = pc] \in Act
        BY <1>0, <1>2, <2>1 DEF Act
    <2> QED
        BY <2>2 DEF pc, id
<1>4. act' = [act EXCEPT !["worker"] = r]
    BY DEF Extract
<1>5. b = r /\ Only("worker")
    BY <1>0, <1>3, <1>4, Acts
<1> QED
    BY <1>0, <1>1, <1>5 DEF Act

LEMMA RegisterActs ==
    ASSUME Types, Register, NEW a, a = act["worker"], NEW b, b = act'["worker"]
    PROVE  /\ Only("worker") /\ a.pc = "register" /\ a.pass = "ingest"
           /\ b.id = IF IdOf(a.book) # 0 THEN IdOf(a.book) ELSE issued + 1
           /\ b.id \in Id
           /\ b.pc = "mark" /\ b.content = a.content /\ b.book = a.book /\ b.pass = "ingest"
           /\ b.behind = a.behind /\ b.left = a.left /\ b.targets = a.targets /\ b.done = a.done
<1> DEFINE id == IF IdOf(a.book) # 0 THEN IdOf(a.book) ELSE issued + 1
           r == [a EXCEPT !.id = id, !.pc = "mark"]
<1>0. "worker" \in Process /\ a \in Act /\ act \in [Process -> Act]
    BY ActType DEF Process, Types, TypeOK
<1>1. a.pc = "register" /\ a.pass = "ingest"
    BY <1>0, IngestPlaces DEF Register
<1>2. id \in Id /\ act' = [act EXCEPT !["worker"] = r]
    BY DEF Register
<1>3. r \in Act
    BY <1>0, <1>2 DEF Act, Pc
<1>4. b = r /\ Only("worker")
    BY <1>0, <1>2, <1>3, Acts
<1> QED
    BY <1>0, <1>1, <1>2, <1>4 DEF Act

LEMMA InsertActs ==
    ASSUME Types, NEW p \in Process, InsertTree(p), NEW a, a = act[p], NEW b, b = act'[p]
    PROVE  /\ Only(p) /\ a.pc = "insert" /\ a.id \in Id /\ a.content \in Content
           /\ \/ /\ a.pass = "rebuild" /\ p = "writer"
                 /\ b.pc = "next" /\ b.pass = "rebuild" /\ b.targets = a.targets
                 /\ b.done \subseteq a.done \cup {a.id}
              \/ /\ a.pass = "ingest" /\ p = "worker" /\ tree[a.id] = NoContent
                 /\ Moved(a, b, "parsed")
              \/ /\ a.pass = "ingest" /\ p = "worker" /\ tree[a.id] # NoContent
                 /\ b = Idle
<1>0. a \in Act /\ act \in [Process -> Act] /\ ShapeOf(a) /\ Named(a) /\ Shapes
    BY ActType DEF Types, TypeOK
<1>1. a.pc = "insert"
    BY DEF InsertTree
<1>2. a.pass \in {"ingest", "rebuild"} /\ a.id \in Id /\ a.content \in Content
    BY <1>0, <1>1 DEF ShapeOf, Named, AtBook, Work, Embedding
<1>3. a.pass = "ingest" <=> p = "worker"
    BY <1>0, <1>2 DEF Shapes, Process
<1>4. CASE a.pass = "rebuild"
    <2> DEFINE r == [a EXCEPT !.pc = "next", !.done = IF tree[a.id] = NoContent THEN @ \cup {a.id} ELSE @]
    <2>1. act' = [act EXCEPT ![p] = r]
        BY <1>4 DEF InsertTree
    <2>2. r \in Act
        BY <1>0, <1>2 DEF Act, Pc
    <2>3. b = r /\ Only(p)
        BY <1>0, <2>1, <2>2, Acts
    <2>4. r.pc = "next" /\ r.pass = "rebuild" /\ r.targets = a.targets /\ r.done \subseteq a.done \cup {a.id}
        BY <1>0, <1>4 DEF Act
    <2> HIDE DEF r
    <2> QED
        BY <1>1, <1>2, <1>3, <1>4, <2>3, <2>4 DEF Process
<1>5. CASE a.pass = "ingest" /\ tree[a.id] = NoContent
    <2> DEFINE r == [a EXCEPT !.pc = "parsed"]
    <2>1. act' = [act EXCEPT ![p] = r]
        BY <1>5 DEF InsertTree
    <2>2. r \in Act /\ Moved(a, r, "parsed")
        BY <1>0 DEF Act, Pc, Moved
    <2>3. b = r /\ Only(p)
        BY <1>0, <2>1, <2>2, Acts
    <2> HIDE DEF r
    <2> QED
        BY <1>1, <1>2, <1>3, <1>5, <2>2, <2>3
<1>6. CASE a.pass = "ingest" /\ tree[a.id] # NoContent
    <2>1. End(p)
        BY <1>6 DEF InsertTree, End
    <2> QED
        BY <1>0, <1>1, <1>2, <1>3, <1>6, <2>1, EndActs
<1> QED
    BY <1>2, <1>4, <1>5, <1>6

LEMMA PlanActs ==
    ASSUME Types, NEW p \in Process, PlanChunks(p), NEW a, a = act[p], NEW b, b = act'[p]
    PROVE  /\ Only(p) /\ a.pc = "chunk" /\ a.id \in Id /\ a.pass \in {"ingest", "advance", "resume"}
           /\ b.pass = a.pass /\ b.id = a.id /\ b.content = a.content /\ b.book = a.book
           /\ b.targets = a.targets /\ b.done = a.done /\ b.behind = a.behind
           /\ \/ tree[a.id] = NoContent /\ b.left = {} /\ a.pass = "resume" /\ b.pc = "next"
              \/ tree[a.id] = NoContent /\ b.left = {} /\ a.pass # "resume" /\ b.pc = "promote"
              \/ /\ tree[a.id] \in Content /\ b.left = Chunks(tree[a.id]) /\ b.left # {}
                 /\ b.pc = "reconcile"
<1> DEFINE plan == IF tree[a.id] = NoContent THEN {} ELSE Chunks(tree[a.id])
           pc == IF plan # {} THEN "reconcile" ELSE IF a.pass = "resume" THEN "next" ELSE "promote"
           r == [a EXCEPT !.left = plan, !.pc = pc]
<1>0. a \in Act /\ act \in [Process -> Act] /\ ShapeOf(a) /\ Named(a) /\ TypeOK
    BY ActType DEF Types, TypeOK
<1>1. a.pc = "chunk" /\ a.id \in Id /\ a.pass \in {"ingest", "advance", "resume"}
    BY <1>0 DEF PlanChunks, ShapeOf, Named, AtBook, Work, Embedding
<1>2. act' = [act EXCEPT ![p] = r]
    BY DEF PlanChunks
<1>3. \/ tree[a.id] = NoContent /\ plan = {} /\ a.pass = "resume" /\ pc = "next"
      \/ tree[a.id] = NoContent /\ plan = {} /\ a.pass # "resume" /\ pc = "promote"
      \/ tree[a.id] \in Content /\ plan = Chunks(tree[a.id]) /\ plan # {} /\ pc = "reconcile"
    BY <1>0, <1>1, ChunksType, StoresAssumption DEF TypeOK
<1>4. plan \in SUBSET Chunk /\ pc \in Pc
    BY <1>3, ChunksType DEF Pc
<1> HIDE DEF plan, pc
<1>5. r \in Act
    BY <1>0, <1>4 DEF Act
<1>6. b = r /\ Only(p)
    BY <1>0, <1>2, <1>5, Acts
<1>7. /\ r.pass = a.pass /\ r.id = a.id /\ r.content = a.content /\ r.book = a.book
      /\ r.targets = a.targets /\ r.done = a.done /\ r.behind = a.behind
      /\ r.left = plan /\ r.pc = pc
    BY <1>0 DEF Act
<1> HIDE DEF r
<1> QED
    BY <1>1, <1>3, <1>6, <1>7

LEMMA ScanActs ==
    ASSUME Types, NEW p \in Process, ScanRows(p), NEW a, a = act[p], NEW b, b = act'[p]
    PROVE  /\ Only(p) /\ a.pc = "scan" /\ a.id \in Id /\ a.pass = "reembed"
           /\ b.pass = a.pass /\ b.id = a.id /\ b.targets = a.targets /\ b.done = a.done
           /\ b.left = {r.chunk : r \in rows[a.id]}
           /\ b.pc = IF b.left = {} THEN "next" ELSE "reconcile"
<1> DEFINE plan == {r.chunk : r \in rows[a.id]}
           pc == IF plan = {} THEN "next" ELSE "reconcile"
           r == [a EXCEPT !.left = plan, !.pc = pc]
<1>0. a \in Act /\ act \in [Process -> Act] /\ ShapeOf(a) /\ Named(a) /\ TypeOK
    BY ActType DEF Types, TypeOK
<1>1. a.pc = "scan" /\ a.id \in Id /\ a.pass = "reembed"
    BY <1>0 DEF ScanRows, ShapeOf, Named, AtBook, Work, Embedding
<1>2. act' = [act EXCEPT ![p] = r]
    BY DEF ScanRows
<1>3. plan \in SUBSET Chunk /\ pc \in Pc
    BY <1>0, <1>1 DEF TypeOK, Row, Pc
<1> HIDE DEF plan
<1>5. r \in Act
    BY <1>0, <1>3 DEF Act
<1>6. b = r /\ Only(p)
    BY <1>0, <1>2, <1>5, Acts
<1>7. /\ r.pass = a.pass /\ r.id = a.id /\ r.targets = a.targets /\ r.done = a.done
      /\ r.left = plan /\ r.pc = pc
    BY <1>0 DEF Act
<1> HIDE DEF r
<1> QED
    BY <1>1, <1>6, <1>7 DEF plan

LEMMA AppendActs ==
    ASSUME Types, NEW p \in Process, NEW chunk \in Chunk, AppendRows(p, chunk),
           NEW a, a = act[p], NEW b, b = act'[p]
    PROVE  /\ Only(p) /\ a.pc = "append" /\ a.id \in Id /\ chunk \in a.left
           /\ a.pass \in {"ingest", "advance", "resume", "reembed"}
           /\ b.pass = a.pass /\ b.id = a.id /\ b.content = a.content /\ b.book = a.book
           /\ b.targets = a.targets /\ b.done = a.done /\ b.behind = a.behind
           /\ b.left = a.left \ {chunk}
           /\ \/ b.pc = "append" /\ b.left # {}
              \/ b.pc = "next" /\ a.pass = "reembed" /\ b.left = {}
              \/ b.pc = "promote" /\ a.pass # "reembed" /\ b.left = {}
<1> DEFINE pc == IF a.left # {chunk} THEN "append" ELSE IF a.pass = "reembed" THEN "next" ELSE "promote"
           r == [a EXCEPT !.left = @ \ {chunk}, !.pc = pc]
<1>0. a \in Act /\ act \in [Process -> Act] /\ ShapeOf(a) /\ Named(a) /\ TypeOK
    BY ActType DEF Types, TypeOK
<1>1. /\ a.pc = "append" /\ a.id \in Id /\ chunk \in a.left
      /\ a.pass \in {"ingest", "advance", "resume", "reembed"}
    BY <1>0 DEF AppendRows, ShapeOf, Named, AtBook, Work, Embedding
<1>2. act' = [act EXCEPT ![p] = r]
    BY DEF AppendRows
<1>3. pc \in Pc
    BY DEF Pc
<1>4. \/ pc = "append" /\ a.left \ {chunk} # {}
      \/ pc = "next" /\ a.pass = "reembed" /\ a.left \ {chunk} = {}
      \/ pc = "promote" /\ a.pass # "reembed" /\ a.left \ {chunk} = {}
    BY <1>1
<1> HIDE DEF pc
<1>5. r \in Act
    BY <1>0, <1>3 DEF Act
<1>6. b = r /\ Only(p)
    BY <1>0, <1>2, <1>5, Acts
<1>7. /\ r.pass = a.pass /\ r.id = a.id /\ r.content = a.content /\ r.book = a.book
      /\ r.targets = a.targets /\ r.done = a.done /\ r.behind = a.behind
      /\ r.left = a.left \ {chunk} /\ r.pc = pc
    BY <1>0 DEF Act
<1> HIDE DEF r
<1> QED
    BY <1>1, <1>4, <1>6, <1>7

\* The steps of a reset.
LEMMA ResetActs ==
    ASSUME Types, NEW a, a = act["writer"], NEW b, b = act'["writer"]
    PROVE  /\ DropTable => /\ Only("writer") /\ a.pc = "table" /\ a.pass = "reset"
                           /\ b.pc = "demote" /\ b.pass = "reset"
                           /\ b.targets = WithStatus("embedded") /\ b.done = a.done
           /\ Demote => /\ Only("writer") /\ a.pc = "demote" /\ a.pass = "reset"
                        /\ b.pc = "demote" /\ b.pass = "reset"
                        /\ b.targets = a.targets \ {Min(a.targets)} /\ b.done = a.done
                        /\ Min(a.targets) \in a.targets /\ a.targets \subseteq Id
           /\ StartBuild => /\ Only("writer") /\ a.pc = "demote" /\ a.pass = "reset"
                            /\ a.targets = {}
                            /\ b.pc = "next" /\ b.pass = "resume"
                            /\ b.targets = WithStatus("extracted") /\ b.done = a.done
<1>0. "writer" \in Process /\ a \in Act /\ act \in [Process -> Act]
    BY ActType DEF Process, Types, TypeOK
<1>1. WithStatus("embedded") \in SUBSET Id /\ WithStatus("extracted") \in SUBSET Id
    BY DEF WithStatus
<1>2. ASSUME DropTable
      PROVE  /\ Only("writer") /\ a.pc = "table" /\ a.pass = "reset"
             /\ b.pc = "demote" /\ b.pass = "reset"
             /\ b.targets = WithStatus("embedded") /\ b.done = a.done
    <2> DEFINE r == [a EXCEPT !.pc = "demote", !.targets = WithStatus("embedded")]
    <2>1. a.pc = "table" /\ a.pass = "reset"
        BY <1>2, WriterPlaces DEF DropTable
    <2>2. r \in Act
        BY <1>0, <1>1 DEF Act, Pc
    <2>3. act' = [act EXCEPT !["writer"] = r]
        BY <1>2 DEF DropTable
    <2>4. b = r /\ Only("writer")
        BY <1>0, <2>2, <2>3, Acts
    <2> QED
        BY <1>0, <2>1, <2>4 DEF Act
<1>3. ASSUME Demote
      PROVE  /\ Only("writer") /\ a.pc = "demote" /\ a.pass = "reset"
             /\ b.pc = "demote" /\ b.pass = "reset"
             /\ b.targets = a.targets \ {Min(a.targets)} /\ b.done = a.done
             /\ Min(a.targets) \in a.targets /\ a.targets \subseteq Id
    <2> DEFINE r == [a EXCEPT !.targets = @ \ {Min(a.targets)}]
    <2>1. a.pc = "demote" /\ a.pass = "reset"
        BY <1>3, WriterPlaces DEF Demote
    <2>2. r \in Act
        BY <1>0 DEF Act
    <2>3. act' = [act EXCEPT !["writer"] = r]
        BY <1>3 DEF Demote
    <2>4. b = r /\ Only("writer")
        BY <1>0, <2>2, <2>3, Acts
    <2>5. Min(a.targets) \in a.targets /\ a.targets \subseteq Id
        BY <1>0, <1>3, MinType DEF Demote, Act
    <2> QED
        BY <1>0, <2>1, <2>4, <2>5 DEF Act
<1>4. ASSUME StartBuild
      PROVE  /\ Only("writer") /\ a.pc = "demote" /\ a.pass = "reset"
             /\ a.targets = {}
             /\ b.pc = "next" /\ b.pass = "resume"
             /\ b.targets = WithStatus("extracted") /\ b.done = a.done
    <2> DEFINE r == [a EXCEPT !.pass = "resume", !.pc = "next", !.targets = WithStatus("extracted")]
    <2>1. a.pc = "demote" /\ a.pass = "reset" /\ a.targets = {}
        BY <1>4, WriterPlaces DEF StartBuild
    <2>2. r \in Act
        <3>1. "next" \in Pc /\ "resume" \in AllPasses
            BY DEF Pc, AllPasses
        <3> QED
            BY <1>0, <1>1, <3>1 DEF Act
    <2>3. act' = [act EXCEPT !["writer"] = r]
        BY <1>4 DEF StartBuild
    <2>4. b = r /\ Only("writer")
        BY <1>0, <2>2, <2>3, Acts
    <2> QED
        BY <1>0, <2>1, <2>4 DEF Act
<1> QED
    BY <1>2, <1>3, <1>4

\* Going on and ending leave the other pass alone.
LEMMA GotoPass ==
    ASSUME Types, NEW p \in Process, NEW pc \in Pc, Goto(p, pc)
    PROVE  Only(p) /\ act'[p].pc = pc /\ act'[p].pass = act[p].pass
BY GotoActs DEF Types, TypeOK, Moved

LEMMA EndPass ==
    ASSUME Types, NEW p \in Process, End(p)
    PROVE  Only(p) /\ act'[p] = Idle /\ act'[p].pc = "idle" /\ act'[p].pass = "none"
<1>1. Only(p) /\ act'[p] = Idle
    BY EndActs DEF Types, TypeOK
<1>2. Idle.pc = "idle" /\ Idle.pass = "none"
    BY DEF Idle
<1> QED
    BY <1>1, <1>2

\* Where the steps of an ingest before the embedding lead.
LEMMA IngestActs ==
    ASSUME Types, IngestStep
    PROVE  /\ Only("worker") /\ act["worker"].pass = "ingest"
           /\ act'["worker"].pc \in {"idle", "compare", "restamp", "register", "mark", "drop", "stamp",
                                     "store", "path", "metadata", "chunk"}
<1>0. "worker" \in Process
    BY DEF Process
<1>7. act["worker"].pass = "ingest"
    BY IngestPlaces DEF IngestStep, Extract, Compare, StoreEnvelope, Restamp, Register, MarkExtracted,
                        RecordParse, StampExtraction, RecordPath, HoldForMetadata, PassMetadata
<1>1. CASE Extract
    BY <1>1, ExtractActs
<1>2. ASSUME NEW how \in {"stored", "removed", "left"}, Compare(how) PROVE Only("worker") /\ act'["worker"].pc \in {"restamp", "register"}
    BY <1>0, <1>2, GotoPass DEF Compare, Pc
<1>3. ASSUME NEW how \in {"stored", "removed", "left"}, StoreEnvelope(how) PROVE Only("worker") /\ act'["worker"].pc \in {"path", "metadata"}
    BY <1>0, <1>3, GotoPass DEF StoreEnvelope, Pc
<1>4. CASE Restamp \/ HoldForMetadata
    <2>1. End("worker")
        BY <1>4 DEF Restamp, HoldForMetadata
    <2> QED
        BY <1>0, <1>7, <2>1, EndPass
<1>5. CASE Register
    BY <1>5, RegisterActs
<1>6. CASE MarkExtracted \/ RecordParse \/ StampExtraction \/ RecordPath \/ PassMetadata
    <2>1. \E pc \in {"drop", "stamp", "store", "metadata", "chunk"} : Goto("worker", pc)
        BY <1>6 DEF MarkExtracted, RecordParse, StampExtraction, RecordPath, PassMetadata
    <2>2. {"drop", "stamp", "store", "metadata", "chunk"} \subseteq Pc
        BY DEF Pc
    <2> QED
        BY <1>0, <1>7, <2>1, <2>2, GotoPass
<1> QED
    BY <1>1, <1>2, <1>3, <1>4, <1>5, <1>6, <1>7 DEF IngestStep

\* Once it has registered its book an ingest stays with it.
LEMMA IngestKeeps ==
    ASSUME Types, IngestStep, ~Register, act'["worker"].pc \in AtBook
    PROVE  act["worker"].pc \in AtBook /\ Moved(act["worker"], act'["worker"], act'["worker"].pc)
<1> DEFINE a == act["worker"]
           b == act'["worker"]
<1>0. "worker" \in Process /\ act \in [Process -> Act]
    BY DEF Process, Types, TypeOK
<1>1. CASE Extract
    BY <1>1, ExtractActs DEF AtBook, Work, Embedding
<1>2. CASE Restamp \/ HoldForMetadata
    <2>1. End("worker")
        BY <1>2 DEF Restamp, HoldForMetadata
    <2> QED
        BY <1>0, <2>1, EndPass DEF AtBook, Work, Embedding
<1>3. ASSUME NEW how \in {"stored", "removed", "left"}, Compare(how)
      PROVE  b.pc \in {"restamp", "register"}
    BY <1>0, <1>3, GotoPass DEF Compare, Pc
<1>4. ASSUME NEW pc \in {"drop", "stamp", "store", "path", "metadata", "chunk"}, Goto("worker", pc)
      PROVE  Moved(a, b, b.pc)
    <2>1. pc \in Pc
        BY DEF Pc
    <2> QED
        BY <1>0, <1>4, <2>1, GotoActs DEF Moved
<1>5. CASE \/ MarkExtracted \/ RecordParse \/ StampExtraction \/ RecordPath \/ PassMetadata
           \/ \E how \in {"stored", "removed", "left"} : StoreEnvelope(how)
    <2>1. a.pc \in AtBook
        BY <1>5 DEF MarkExtracted, RecordParse, StampExtraction, RecordPath, PassMetadata, StoreEnvelope,
                    AtBook, Work
    <2>2. \E pc \in {"drop", "stamp", "store", "path", "metadata", "chunk"} : Goto("worker", pc)
        BY <1>5 DEF MarkExtracted, RecordParse, StampExtraction, RecordPath, PassMetadata, StoreEnvelope
    <2> QED
        BY <1>4, <2>1, <2>2
<1>6. \A how \in {"stored", "removed", "left"} : ~Compare(how)
    BY <1>3 DEF AtBook, Work, Embedding
<1> QED
    BY <1>1, <1>2, <1>5, <1>6 DEF IngestStep

\* Where the steps lead that ingests and maintenance passes share.
LEMMA SharedActs ==
    ASSUME Types, NEW p \in Process, SharedStep(p)
    PROVE  /\ Only(p) /\ act[p].pc \in {"drop", "insert", "chunk", "scan", "promote", "record"} \cup Embedding
           /\ act'[p].pass \in {act[p].pass, "none"}
           /\ DropTree(p) => act'[p].pc = "insert"
           /\ InsertTree(p) => act'[p].pc \in {"next", "parsed", "idle"}
           /\ PlanChunks(p) => act'[p].pc \in {"next", "promote", "reconcile"}
           /\ ScanRows(p) => act'[p].pc \in {"next", "reconcile"}
           /\ Reconcile(p) => act'[p].pc = "delete"
           /\ DeleteRows(p) => act'[p].pc = "append"
           /\ Promote(p) => act'[p].pc \in {"next", "record"}
           /\ ReconcileRefused(p) \/ RecordEmbed(p) => act'[p].pc = "idle"
<1> DEFINE Same == Only(p) /\ act'[p].pass \in {act[p].pass, "none"}
<1>1. ASSUME DropTree(p) PROVE Same /\ act'[p].pc = "insert"
    BY <1>1, GotoPass DEF DropTree, Pc
<1>2. ASSUME InsertTree(p) PROVE Same /\ act'[p].pc \in {"next", "parsed", "idle"}
    BY <1>2, InsertActs DEF Moved, Idle
<1>3. ASSUME PlanChunks(p) PROVE Same /\ act'[p].pc \in {"next", "promote", "reconcile"}
    BY <1>3, PlanActs
<1>4. ASSUME ScanRows(p) PROVE Same /\ act'[p].pc \in {"next", "reconcile"}
    BY <1>4, ScanActs
<1>5. ASSUME Reconcile(p) PROVE Same /\ act'[p].pc = "delete"
    BY <1>5, GotoPass DEF Reconcile, Pc
<1>6. ASSUME DeleteRows(p) PROVE Same /\ act'[p].pc = "append"
    BY <1>6, GotoPass DEF DeleteRows, Pc
<1>7. ASSUME Promote(p) PROVE Same /\ act'[p].pc \in {"next", "record"}
    BY <1>7, GotoPass DEF Promote, Pc
<1>8. ASSUME ReconcileRefused(p) \/ RecordEmbed(p) PROVE Same /\ act'[p].pc = "idle"
    BY <1>8, EndPass DEF ReconcileRefused, RecordEmbed
<1>9. ASSUME NEW chunk \in Chunk, AppendRows(p, chunk) PROVE Same
    BY <1>9, AppendActs
<1>10. act[p].pc \in {"drop", "insert", "chunk", "scan", "promote", "record"} \cup Embedding
    BY DEF SharedStep, DropTree, InsertTree, PlanChunks, ScanRows, Reconcile, ReconcileRefused,
           DeleteRows, AppendRows, Promote, RecordEmbed, Embedding
<1>11. Same
    BY <1>1, <1>2, <1>3, <1>4, <1>5, <1>6, <1>7, <1>8, <1>9 DEF SharedStep
<1> QED
    BY <1>1, <1>2, <1>3, <1>4, <1>5, <1>6, <1>7, <1>8, <1>10, <1>11

LEMMA FailActs ==
    ASSUME Types, NEW p \in Process, Fail(p)
    PROVE  /\ Only(p) /\ act[p].pc # "idle" /\ act[p].pass \in FaultyPasses
           /\ \/ act[p].pass = "rebuild" /\ act'[p].pc = "next" /\ act'[p].pass = "rebuild"
              \/ act'[p] = Idle /\ act'[p].pc = "idle" /\ act'[p].pass = "none"
BY GotoPass, EndPass DEF Fail, Pc

\* Where the steps of the maintenance passes lead.
LEMMA WriterActs ==
    ASSUME Types, WriterStep
    PROVE  LET a == act["writer"] b == act'["writer"] IN
           /\ Only("writer") /\ a.pc # "idle"
           /\ NextTarget => b.pc \in {"chunk", "scan", "drop", "next", "index", "idle"} /\ b.pass # "reset"
           /\ ClearStamps => a.pass = "reset" /\ b.pass = "reset" /\ b.pc = "table"
           /\ RemoveDerived => a.pass = "remove" /\ b.pass = "remove" /\ b.pc = "nodes"
           /\ RemoveNodes => a.pass = "remove" /\ b.pass = "remove" /\ b.pc = "vectors"
           /\ RemoveVectors => a.pass = "remove" /\ b.pass = "remove" /\ b.pc = "file"
           /\ RemoveEnvelope => a.pass = "remove" /\ b.pass = "remove" /\ b.pc = "row"
           /\ StampIndex \/ RemoveRow => b = Idle /\ b.pc = "idle" /\ b.pass = "none"
<1>0. "writer" \in Process
    BY DEF Process
<1> DEFINE a == act["writer"]
           b == act'["writer"]
<1>1. ASSUME NextTarget
      PROVE  Only("writer") /\ b.pc \in {"chunk", "scan", "drop", "next", "index", "idle"} /\ b.pass # "reset"
    BY <1>1, NextTargetActs DEF Idle
<1>2. ASSUME ClearStamps PROVE Only("writer") /\ a.pass = "reset" /\ b.pass = "reset" /\ b.pc = "table"
    BY <1>0, <1>2, GotoPass, WriterPlaces DEF ClearStamps, Pc
<1>3. ASSUME RemoveDerived PROVE Only("writer") /\ a.pass = "remove" /\ b.pass = "remove" /\ b.pc = "nodes"
    BY <1>0, <1>3, GotoPass, WriterPlaces DEF RemoveDerived, Pc
<1>4. ASSUME RemoveNodes PROVE Only("writer") /\ a.pass = "remove" /\ b.pass = "remove" /\ b.pc = "vectors"
    BY <1>0, <1>4, GotoPass, WriterPlaces DEF RemoveNodes, Pc
<1>5. ASSUME RemoveVectors PROVE Only("writer") /\ a.pass = "remove" /\ b.pass = "remove" /\ b.pc = "file"
    BY <1>0, <1>5, GotoPass, WriterPlaces DEF RemoveVectors, Pc
<1>6. ASSUME RemoveEnvelope PROVE Only("writer") /\ a.pass = "remove" /\ b.pass = "remove" /\ b.pc = "row"
    BY <1>0, <1>6, GotoPass, WriterPlaces DEF RemoveEnvelope, Pc
<1>7. ASSUME StampIndex \/ RemoveRow PROVE Only("writer") /\ b = Idle /\ b.pc = "idle" /\ b.pass = "none"
    BY <1>0, <1>7, EndPass DEF StampIndex, RemoveRow
<1>8. ASSUME DropTable \/ Demote \/ StartBuild PROVE Only("writer")
    BY <1>8, ResetActs
<1>9. a.pc # "idle"
    BY DEF WriterStep, NextTarget, StampIndex, ClearStamps, DropTable, Demote, StartBuild,
           RemoveDerived, RemoveNodes, RemoveVectors, RemoveEnvelope, RemoveRow
<1>10. Only("writer")
    BY <1>1, <1>2, <1>3, <1>4, <1>5, <1>6, <1>7, <1>8 DEF WriterStep
<1> QED
    BY <1>1, <1>2, <1>3, <1>4, <1>5, <1>6, <1>7, <1>9, <1>10

\* A step is taken by a pass that is under way, except for a start and a
\* restart.
LEMMA OneSteps ==
    ASSUME Types, [Next]_vars
    PROVE  \/ StartPass
           \/ \E v \in Version, m \in Model : Restart(v, m)
           \/ UNCHANGED vars
           \/ \E p \in Process : act[p].pc # "idle" /\ Only(p)
<1>0. "worker" \in Process /\ "writer" \in Process
    BY DEF Process
<1>1. ASSUME IngestStep PROVE Only("worker") /\ act["worker"].pc # "idle"
    BY <1>0, <1>1, IngestActs, ActType DEF ShapeOf, Work, Embedding
<1>2. ASSUME NEW p \in Process, SharedStep(p) PROVE Only(p) /\ act[p].pc # "idle"
    BY <1>2, SharedActs DEF Embedding
<1>3. ASSUME NEW p \in Process, Fail(p) PROVE Only(p) /\ act[p].pc # "idle"
    BY <1>3, FailActs
<1>4. ASSUME WriterStep PROVE Only("writer") /\ act["writer"].pc # "idle"
    BY <1>4, WriterActs
<1> QED
    BY <1>0, <1>1, <1>2, <1>3, <1>4 DEF Next

\* A pass that has just been started, and what its start has checked.
Begun(p, b) ==
    \/ /\ p = "worker" /\ b.pass = "ingest" /\ b.pc = "extract"
       /\ b.behind => OnFile(IdOf(b.book)) = "behind"
       /\ b.targets = {} /\ b.done = {}
    \/ /\ p = "writer" /\ b.pass = "advance" /\ b.pc = "chunk"
       /\ b.id \in Id /\ Held(b.id) /\ b.targets = {} /\ b.done = {}
       /\ CarefulAdvance => /\ progress[b.id].stage = "metadata"
                            /\ intake[b.id].status = "extracted"
                            /\ tree[b.id] # NoContent
    \/ /\ p = "writer" /\ b.pass = "remove" /\ b.pc = "derived"
       /\ b.id \in Id /\ Held(b.id) /\ b.targets = {} /\ b.done = {}
    \/ /\ p = "writer" /\ b.pass \in {"rebuild", "reembed"} /\ b.pc = "next"
       /\ b.targets \subseteq WithStatus("extracted") \cup WithStatus("embedded")
       /\ b.done = {}
    \/ p = "writer" /\ b.pass = "reset" /\ b.pc = "clear" /\ b.targets = {} /\ b.done = {}
    \/ /\ p = "writer" /\ b.pass = "resume" /\ b.pc = "next"
       /\ b.targets = WithStatus("extracted") /\ b.done = {}

LEMMA StartPassActs ==
    ASSUME Types, StartPass
    PROVE  /\ UNCHANGED <<version, model, intake, issued, progress, tree, rows, envelope, stamp>>
           /\ \E p \in Process :
                /\ act[p] = Idle /\ Only(p) /\ act'[p].pass \in Passes
                /\ Overlap \/ \A q \in Process : act[q] = Idle
                /\ Begun(p, act'[p])
<1>0. "worker" \in Process /\ "writer" \in Process
    BY DEF Process
<1> DEFINE b(p) == act'[p]
<1>1. ASSUME NEW bk \in Book, NEW force \in BOOLEAN, StartIngest(bk, force)
      PROVE  /\ UNCHANGED <<version, model, intake, issued, progress, tree, rows, envelope, stamp>>
             /\ act["worker"] = Idle /\ Only("worker") /\ b("worker").pass \in Passes
             /\ Overlap \/ \A q \in Process : act[q] = Idle
             /\ b("worker").pass = "ingest" /\ b("worker").pc = "extract"
             /\ b("worker").behind => OnFile(IdOf(b("worker").book)) = "behind"
             /\ b("worker").targets = {} /\ b("worker").done = {}
    <2> DEFINE seen == IF force THEN "rerun" ELSE OnFile(IdOf(bk))
               new == [Idle EXCEPT !.pc = "extract", !.book = bk, !.behind = (seen = "behind")]
    <2>1. new \in Act
        BY IdleType DEF Act, Pc
    <2>2. new.pc = "extract" /\ new.book = bk /\ new.targets = {} /\ new.done = {}
        BY DEF Idle
    <2>3. new.behind => OnFile(IdOf(bk)) = "behind"
        BY DEF Idle
    <2>4. Start("worker", "ingest", new)
        BY <1>1 DEF StartIngest
    <2> HIDE DEF new
    <2> QED
        BY <1>0, <2>1, <2>2, <2>3, <2>4, StartActs
<1>2. ASSUME NEW pass, NEW new \in Act, Start("writer", pass, new)
      PROVE  /\ UNCHANGED <<version, model, intake, issued, progress, tree, rows, envelope, stamp>>
             /\ act["writer"] = Idle /\ Only("writer") /\ b("writer").pass \in Passes
             /\ Overlap \/ \A q \in Process : act[q] = Idle
             /\ b("writer").pass = pass /\ b("writer").pc = new.pc /\ b("writer").id = new.id
             /\ b("writer").targets = new.targets /\ b("writer").done = new.done
    BY <1>0, <1>2, StartActs
<1>3. ASSUME NEW i \in Id, NEW pc \in Pc
      PROVE  LET new == [Idle EXCEPT !.pc = pc, !.id = i] IN
             new \in Act /\ new.pc = pc /\ new.id = i /\ new.targets = {} /\ new.done = {}
    BY IdleType DEF Act, Idle
<1>4. ASSUME NEW pc \in Pc, NEW ids \in SUBSET Id
      PROVE  LET new == [Idle EXCEPT !.pc = pc, !.targets = ids] IN
             new \in Act /\ new.pc = pc /\ new.targets = ids /\ new.done = {}
    BY IdleType DEF Act, Idle
<1>6. "chunk" \in Pc /\ "derived" \in Pc /\ "next" \in Pc /\ "clear" \in Pc
    BY DEF Pc
<1> DEFINE Goal == /\ UNCHANGED <<version, model, intake, issued, progress, tree, rows, envelope, stamp>>
                   /\ \E p \in Process :
                        /\ act[p] = Idle /\ Only(p) /\ act'[p].pass \in Passes
                        /\ Overlap \/ \A q \in Process : act[q] = Idle
                        /\ Begun(p, act'[p])
<1>7. ASSUME NEW i \in Id, StartAdvance(i)
      PROVE  Goal
    <2> DEFINE new == [Idle EXCEPT !.pc = "chunk", !.id = i]
    <2>1. Start("writer", "advance", new)
        BY <1>7 DEF StartAdvance
    <2>2. /\ Held(i)
          /\ CarefulAdvance => /\ progress[i].stage = "metadata" /\ intake[i].status = "extracted"
                               /\ tree[i] # NoContent
        BY <1>7 DEF StartAdvance, Pinned, WithStatus
    <2>3. new \in Act /\ new.pc = "chunk" /\ new.done = {} /\ new.id = i /\ new.targets = {}
        BY <1>3, <1>6
    <2> HIDE DEF new
    <2>4. Begun("writer", b("writer"))
        BY <1>2, <2>1, <2>2, <2>3 DEF Begun
    <2> QED
        BY <1>0, <1>2, <2>1, <2>3, <2>4
<1>8. ASSUME NEW i \in Id, StartRemove(i)
      PROVE  Goal
    <2> DEFINE new == [Idle EXCEPT !.pc = "derived", !.id = i]
    <2>1. Start("writer", "remove", new)
        BY <1>8 DEF StartRemove
    <2>2. Held(i)
        BY <1>8 DEF StartRemove, Pinned, WithStatus
    <2>3. new \in Act /\ new.pc = "derived" /\ new.done = {} /\ new.id = i /\ new.targets = {}
        BY <1>3, <1>6
    <2> HIDE DEF new
    <2>4. Begun("writer", b("writer"))
        BY <1>2, <2>1, <2>2, <2>3 DEF Begun
    <2> QED
        BY <1>0, <1>2, <2>1, <2>3, <2>4
<1>9. ASSUME NEW ids \in SUBSET Id, NEW include \in BOOLEAN, StartRebuild(ids, include)
      PROVE  Goal
    <2> DEFINE new == [Idle EXCEPT !.pc = "next", !.targets = ids, !.vectors = include]
    <2>1. Start("writer", "rebuild", new)
        BY <1>9 DEF StartRebuild
    <2>2. ids \subseteq WithStatus("extracted") \cup WithStatus("embedded")
        BY <1>9 DEF StartRebuild, Pinned, WithStatus
    <2>3. new \in Act /\ new.pc = "next" /\ new.done = {} /\ new.targets = ids
        BY <1>6, IdleType DEF Act, Idle
    <2> HIDE DEF new
    <2>4. Begun("writer", b("writer"))
        BY <1>2, <2>1, <2>2, <2>3 DEF Begun
    <2> QED
        BY <1>0, <1>2, <2>1, <2>3, <2>4
<1>10. ASSUME NEW ids \in SUBSET Id, StartReembed(ids)
      PROVE  Goal
    <2> DEFINE new == [Idle EXCEPT !.pc = "next", !.targets = ids]
    <2>1. Start("writer", "reembed", new)
        BY <1>10 DEF StartReembed
    <2>2. ids \subseteq WithStatus("extracted") \cup WithStatus("embedded")
        BY <1>10 DEF StartReembed, Pinned, WithStatus
    <2>3. new \in Act /\ new.pc = "next" /\ new.done = {} /\ new.targets = ids
        BY <1>4, <1>6
    <2> HIDE DEF new
    <2>4. Begun("writer", b("writer"))
        BY <1>2, <2>1, <2>2, <2>3 DEF Begun
    <2> QED
        BY <1>0, <1>2, <2>1, <2>3, <2>4
<1>11. CASE StartReset
    <2> DEFINE new == [Idle EXCEPT !.pc = "clear"]
    <2>1. Start("writer", "reset", new)
        BY <1>11 DEF StartReset
    <2>2. new \in Act /\ new.pc = "clear" /\ new.targets = {} /\ new.done = {}
        BY <1>6, IdleType DEF Act, Idle
    <2> HIDE DEF new
    <2>3. Begun("writer", b("writer"))
        BY <1>2, <2>1, <2>2 DEF Begun
    <2> QED
        BY <1>0, <1>2, <2>1, <2>2, <2>3
<1>12. CASE StartResume
    <2> DEFINE ids == WithStatus("extracted")
               new == [Idle EXCEPT !.pc = "next", !.targets = ids]
    <2>1. Start("writer", "resume", new)
        BY <1>12 DEF StartResume
    <2>2. ids \in SUBSET Id
        BY DEF WithStatus
    <2>3. new \in Act /\ new.pc = "next" /\ new.done = {} /\ new.targets = ids
        BY <1>4, <1>6, <2>2
    <2> HIDE DEF new
    <2>4. Begun("writer", b("writer"))
        BY <1>2, <2>1, <2>3 DEF Begun
    <2> QED
        BY <1>0, <1>2, <2>1, <2>3, <2>4
<1>13. ASSUME NEW bk \in Book, NEW force \in BOOLEAN, StartIngest(bk, force)
       PROVE  Goal
    <2>1. Begun("worker", b("worker"))
        BY <1>1, <1>13 DEF Begun
    <2> QED
        BY <1>0, <1>1, <1>13, <2>1
<1> QED
    BY <1>7, <1>8, <1>9, <1>10, <1>11, <1>12, <1>13 DEF StartPass

\* Without a session beside the ingests one of the two is at rest.
Alone == Overlap \/ act["worker"] = Idle \/ act["writer"] = Idle

LEMMA AloneStep == Types /\ Alone /\ [Next]_vars => Alone'
<1> SUFFICES ASSUME Types, Alone, [Next]_vars, ~Overlap PROVE Alone'
    BY DEF Alone
<1>1. CASE StartPass
    BY <1>1, StartPassActs DEF Alone, Process, Only
<1>2. ASSUME NEW v \in Version, NEW m \in Model, Restart(v, m) PROVE Alone'
    BY <1>2 DEF Restart, Alone, Process
<1>3. CASE UNCHANGED vars
    BY <1>3 DEF vars, Alone
<1>4. ASSUME NEW p \in Process, act[p].pc # "idle", Only(p) PROVE Alone'
    <2>1. act[p] # Idle
        BY <1>4 DEF Idle
    <2> QED
        BY <1>4, <2>1 DEF Alone, Only, Process
<1> QED
    BY <1>1, <1>2, <1>3, <1>4, OneSteps

LEMMA AloneAlways == Spec => []Alone
<1>1. Init => Alone
    BY DEF Init, Alone, Process
<1> QED
    BY <1>1, AloneStep, TypesAlways, PTL DEF Spec

-----------------------------------------------------------------------------
(* An index of one model.                                                  *)

\* The rows carry the stamp, but while a reset has cleared the stamp and has
\* not dropped the table yet; nothing is written without the stamp.
Stamped == \A i \in Id : \A r \in rows[i] : r.model = stamp

IndexInv ==
    /\ act["writer"].pass = "reset" => "reset" \in Passes
    /\ \A p \in Process : act[p].pc \in {"delete", "append"} => stamp = model
    /\ act["writer"].pc = "table" \/ Stamped
    /\ IndexIsNeverMixed

LEMMA StampedIsOneModel == Stamped => IndexIsNeverMixed
BY DEF Stamped, IndexIsNeverMixed

\* Where every row has the stamp, an index without one has no rows.
LEMMA UnstampedIsEmpty ==
    ASSUME TypeOK, Stamped, stamp = NoModel
    PROVE  \A i \in Id : rows[i] = {}
BY StoresAssumption DEF TypeOK, Stamped, Row

\* A step that leaves index, stamp and model alone and goes neither to the
\* writes nor away from the table.
LEMMA IndexFrame ==
    ASSUME IndexInv, UNCHANGED <<rows, stamp, model>>, NEW p \in Process, Only(p),
           act[p].pc # "table", act'[p].pc \notin {"delete", "append"},
           act'[p].pass = "reset" => act[p].pass = "reset" \/ "reset" \in Passes
    PROVE  IndexInv'
<1>1. act'["writer"].pass = "reset" => "reset" \in Passes
    BY DEF IndexInv, Only, Process
<1>2. \A q \in Process : act'[q].pc \in {"delete", "append"} => stamp' = model'
    BY DEF IndexInv, Only
<1>3. act'["writer"].pc = "table" \/ Stamped'
    BY DEF IndexInv, Only, Stamped, Process
<1> QED
    BY <1>1, <1>2, <1>3 DEF IndexInv, IndexIsNeverMixed

\* The same for a step that writes rows or the stamp and leaves every row
\* with the stamp.
LEMMA IndexWrite ==
    ASSUME IndexInv, Stamped', UNCHANGED model, NEW p \in Process, Only(p),
           act'[p].pc \in {"delete", "append"} => stamp' = model,
           \A q \in Process : q # p /\ act[q].pc \in {"delete", "append"} => stamp' = model,
           act'[p].pass = "reset" => act[p].pass = "reset"
    PROVE  IndexInv'
<1>1. act'["writer"].pass = "reset" => "reset" \in Passes
    BY DEF IndexInv, Only, Process
<1>2. \A q \in Process : act'[q].pc \in {"delete", "append"} => stamp' = model'
    BY DEF IndexInv, Only
<1>3. IndexIsNeverMixed'
    BY DEF Stamped, IndexIsNeverMixed
<1> QED
    BY <1>1, <1>2, <1>3 DEF IndexInv

\* Resets are not started, or they run alone and are not interrupted.
SafeResets == "reset" \in Passes => ~Overlap /\ "reset" \notin FaultyPasses

LEMMA AtTable ==
    ASSUME Types, Alone, IndexInv, SafeResets, act["writer"].pass = "reset"
    PROVE  act["worker"] = Idle /\ "reset" \notin FaultyPasses /\ ~Overlap
BY DEF Alone, IndexInv, SafeResets, Idle

LEMMA IndexStep ==
    ASSUME SafeResets
    PROVE  Types /\ Alone /\ IndexInv /\ [Next]_vars => IndexInv'
<1> SUFFICES ASSUME Types, Alone, IndexInv, [Next]_vars PROVE IndexInv'
    OBVIOUS
<1>0. "worker" \in Process /\ "writer" \in Process /\ TypeOK
    BY DEF Process, Types
<1>1. CASE StartPass
    <2>1. UNCHANGED <<rows, stamp, model>>
        BY <1>1, StartPassActs
    <2>2. PICK p \in Process : act[p] = Idle /\ Only(p) /\ act'[p].pass \in Passes /\ Begun(p, act'[p])
        BY <1>1, StartPassActs
    <2>3. act[p].pc # "table"
        BY <2>2 DEF Idle
    <2>4. act'[p].pc \notin {"delete", "append"}
        BY <2>2 DEF Begun
    <2> QED
        BY <2>1, <2>2, <2>3, <2>4, IndexFrame
<1>2. CASE IngestStep
    <2>1. UNCHANGED <<rows, stamp, model>>
        BY <1>2 DEF IngestStep, Extract, Compare, StoreEnvelope, Restamp, Register, MarkExtracted,
                    RecordParse, StampExtraction, RecordPath, HoldForMetadata, PassMetadata, env, corpus
    <2>2. act["worker"].pc # "table" /\ act'["worker"].pass # "reset"
        <3>1. Types' /\ act["worker"].pass = "ingest"
            BY <1>2, IngestActs, IngestTypes
        <3> QED
            BY <1>0, <3>1, ActType DEF Types, Shapes, ShapeOf, Work, Embedding
    <2> QED
        BY <1>0, <1>2, <2>1, <2>2, IngestActs, IndexFrame
<1>3. ASSUME NEW p \in Process, SharedStep(p) PROVE IndexInv'
    <2>0. /\ Only(p) /\ act[p].pc # "table" /\ act[p].pc # "idle"
          /\ act'[p].pass = "reset" => act[p].pass = "reset"
        BY <1>3, SharedActs DEF Embedding
    <2>1. CASE DropTree(p) \/ InsertTree(p) \/ PlanChunks(p) \/ ScanRows(p) \/ ReconcileRefused(p)
               \/ Promote(p) \/ RecordEmbed(p)
        <3>1. UNCHANGED <<rows, stamp, model>>
            BY <2>1 DEF DropTree, InsertTree, PlanChunks, ScanRows, ReconcileRefused, Promote,
                        RecordEmbed, env, corpus
        <3>2. act'[p].pc \notin {"delete", "append"}
            BY <1>3, <2>1, SharedActs
        <3> QED
            BY <2>0, <3>1, <3>2, IndexFrame
    <2>2. Stamped
        BY <1>0, <1>3, <2>0, AtTable, WriterPlaces DEF IndexInv, Process, Idle
    <2>3. CASE Reconcile(p)
        <3>1. stamp' = model /\ model' = model /\ rows' = rows /\ stamp \in {NoModel, model}
            BY <2>3 DEF Reconcile, Accepts, env
        <3>2. Stamped'
            BY <1>0, <2>2, <3>1, UnstampedIsEmpty DEF Stamped
        <3> QED
            BY <2>0, <3>1, <3>2, IndexWrite
    <2>4. CASE DeleteRows(p)
        <3>1. stamp' = stamp /\ model' = model /\ rows' = [rows EXCEPT ![act[p].id] = {}] /\ stamp = model
            BY <1>3, <2>4 DEF DeleteRows, env, corpus, IndexInv
        <3>2. Stamped'
            BY <1>0, <2>2, <3>1 DEF Stamped, TypeOK
        <3> QED
            BY <2>0, <3>1, <3>2, IndexWrite
    <2>5. ASSUME NEW chunk \in Chunk, AppendRows(p, chunk) PROVE IndexInv'
        <3>1. /\ stamp' = stamp /\ model' = model /\ stamp = model
              /\ rows' = [rows EXCEPT ![act[p].id] = @ \cup {[chunk |-> chunk, model |-> model]}]
            BY <1>3, <2>5 DEF AppendRows, env, corpus, IndexInv
        <3>2. Stamped'
            BY <1>0, <2>2, <3>1 DEF Stamped, TypeOK
        <3> QED
            BY <2>0, <3>1, <3>2, IndexWrite
    <2> QED
        BY <1>3, <2>1, <2>3, <2>4, <2>5 DEF SharedStep
<1>4. ASSUME NEW p \in Process, Fail(p) PROVE IndexInv'
    <2>1. UNCHANGED <<rows, stamp, model>>
        BY <1>4 DEF Fail, env, corpus
    <2>2. act[p].pc # "table"
        BY <1>0, <1>4, AtTable, FailActs, ActType DEF ShapeOf, Work, Embedding, Types, Shapes, Process
    <2>3. Only(p) /\ act'[p].pc \notin {"delete", "append"} /\ act'[p].pass # "reset"
        BY <1>4, FailActs
    <2> QED
        BY <2>1, <2>2, <2>3, IndexFrame
<1>5. CASE WriterStep
    <2> DEFINE a == act["writer"]
               b == act'["writer"]
    <2>1. CASE NextTarget \/ Demote \/ StartBuild \/ RemoveDerived \/ RemoveNodes \/ RemoveEnvelope \/ RemoveRow
        <3>1. UNCHANGED <<rows, stamp, model>>
            BY <2>1 DEF NextTarget, Demote, StartBuild, RemoveDerived, RemoveNodes, RemoveEnvelope,
                        RemoveRow, env, corpus
        <3>2. a.pc # "table"
            BY <2>1 DEF NextTarget, Demote, StartBuild, RemoveDerived, RemoveNodes, RemoveEnvelope, RemoveRow
        <3>3. Only("writer") /\ b.pc \notin {"delete", "append"} /\ (b.pass = "reset" => a.pass = "reset")
            BY <1>5, <2>1, WriterActs, ResetActs
        <3> QED
            BY <1>0, <3>1, <3>2, <3>3, IndexFrame
    <2>2. CASE StampIndex
        <3>1. Only("writer") /\ b.pc = "idle" /\ b.pass = "none"
            BY <1>5, <2>2, WriterActs
        <3>2. a.pc = "index" /\ Stamped /\ rows' = rows /\ model' = model
            BY <2>2 DEF StampIndex, IndexInv, env
        <3>3. stamp' = stamp
            BY <1>0, <2>2, <3>2, UnstampedIsEmpty DEF StampIndex, Accepts
        <3> QED
            BY <1>0, <3>1, <3>2, <3>3, IndexFrame
    <2>3. CASE ClearStamps
        <3>1. Only("writer") /\ a.pass = "reset" /\ b.pass = "reset" /\ b.pc = "table"
            BY <1>5, <2>3, WriterActs
        <3>2. act["worker"] = Idle
            BY <3>1, AtTable
        <3>3. \A q \in Process : act'[q].pc \notin {"delete", "append"}
            BY <3>1, <3>2 DEF Only, Process, Idle
        <3>4. rows' = rows
            BY <2>3 DEF ClearStamps
        <3> QED
            BY <3>1, <3>3, <3>4 DEF IndexInv, IndexIsNeverMixed
    <2>4. CASE DropTable
        <3>1. Only("writer") /\ a.pass = "reset" /\ b.pass = "reset" /\ b.pc = "demote"
            BY <2>4, ResetActs
        <3>2. act["worker"] = Idle
            BY <3>1, AtTable
        <3>3. Stamped' /\ model' = model
            BY <2>4 DEF DropTable, Stamped, env
        <3>4. \A q \in Process : q # "writer" => act[q].pc \notin {"delete", "append"}
            BY <3>2 DEF Process, Idle
        <3> QED
            BY <1>0, <3>1, <3>3, <3>4, IndexWrite
    <2>5. CASE RemoveVectors
        <3>1. Only("writer") /\ b.pass = "remove" /\ b.pc = "file"
            BY <1>5, <2>5, WriterActs
        <3>2. a.pc = "vectors" /\ Stamped /\ stamp' = stamp /\ model' = model
              /\ (rows' = rows \/ rows' = [rows EXCEPT ![a.id] = {}])
            BY <2>5 DEF RemoveVectors, IndexInv, env, corpus
        <3>3. Stamped'
            BY <1>0, <3>2 DEF Stamped, TypeOK
        <3>4. \A q \in Process : act[q].pc \in {"delete", "append"} => stamp' = model
            BY <3>2 DEF IndexInv
        <3> QED
            BY <1>0, <3>1, <3>2, <3>3, <3>4, IndexWrite
    <2> QED
        BY <1>5, <2>1, <2>2, <2>3, <2>4, <2>5 DEF WriterStep
<1>6. ASSUME NEW v \in Version, NEW m \in Model, Restart(v, m) PROVE IndexInv'
    <2>1. \A p \in Process : act'[p].pc = "idle" /\ act'[p].pass = "none"
        BY <1>6 DEF Restart, Idle
    <2>2. UNCHANGED <<rows, stamp>>
        BY <1>6 DEF Restart, corpus
    <2>3. act["writer"].pc # "table"
        <3>1. act["writer"].pass \in FaultyPasses \cup {"none"}
            BY <1>0, <1>6 DEF Restart
        <3> QED
            BY <3>1, AtTable, WriterPlaces
    <2> QED
        BY <1>0, <2>1, <2>2, <2>3 DEF IndexInv, Stamped, IndexIsNeverMixed
<1>7. CASE UNCHANGED vars
    BY <1>7 DEF vars, env, corpus, IndexInv, Stamped, IndexIsNeverMixed
<1> QED
    BY <1>1, <1>2, <1>3, <1>4, <1>5, <1>6, <1>7 DEF Next

LEMMA IndexAlways ==
    ASSUME SafeResets
    PROVE  Spec => []IndexInv
<1>1. Init => IndexInv
    BY DEF Init, IndexInv, Stamped, IndexIsNeverMixed, Process, Idle
<1>2. Types /\ Alone /\ IndexInv /\ [Next]_vars => IndexInv'
    BY IndexStep
<1> QED
    BY <1>1, <1>2, TypesAlways, AloneAlways, PTL DEF Spec

\* An index holds the vectors of one model, whatever else runs beside an
\* ingest and whatever is interrupted, unless a reset is.
THEOREM IndexNeverMixes ==
    ASSUME SafeResets
    PROVE  Spec => []IndexIsNeverMixed
<1>1. IndexInv => IndexIsNeverMixed
    BY DEF IndexInv
<1> QED
    BY <1>1, IndexAlways, PTL

-----------------------------------------------------------------------------
(* Removals.                                                               *)

Registered == {i \in Id : Held(i)}

\* A pass at work on a book, or about to be, has it registered.
NamedHeld ==
    /\ \A p \in Process : act[p].pc \in AtBook => Held(act[p].id)
    /\ act["writer"].targets \subseteq Registered
    /\ act["writer"].done \subseteq Registered

\* What a removal has taken away so far.
RemoveStages == LET me == act["writer"] IN
    /\ me.pc \in {"nodes", "vectors", "file", "row"} => progress[me.id] = NoProgress
    /\ me.pc \in {"vectors", "file", "row"} => tree[me.id] = NoContent
    /\ me.pc \in {"file", "row"} => rows[me.id] = {}

\* The intakes are those handed out, less the removed ones.
Numbered == \A i \in Id : Held(i) => i <= issued

RemoveInv == NamedHeld /\ RemoveStages /\ Numbered /\ RemovedLeavesNothing

OtherIdle(p) == \A q \in Process : q # p => act[q] = Idle

LEMMA OtherIsIdle ==
    ASSUME ~Overlap, Alone, NEW p \in Process, act[p].pc # "idle"
    PROVE  OtherIdle(p)
BY DEF Alone, OtherIdle, Process, Idle

\* A step other than a removal's: books stay registered, and what is not
\* registered is left alone.
LEMMA RemoveFrame ==
    ASSUME RemoveInv, NEW p \in Process, Only(p), OtherIdle(p),
           \A i \in Id : Held(i) => Held(i)',
           \A i \in Id : ~Held(i)' => /\ tree'[i] = tree[i] /\ progress'[i] = progress[i]
                                      /\ rows'[i] \in {rows[i], {}},
           act'[p].pc \in AtBook => intake'[act'[p].id] # NoIntake,
           p = "writer" => act'[p].targets \subseteq Registered /\ act'[p].done \subseteq Registered,
           act'[p].pc \notin {"nodes", "vectors", "file", "row"},
           Numbered'
    PROVE  RemoveInv'
<1>1. Idle.pc = "idle" /\ Idle.targets = {} /\ Idle.done = {}
    BY DEF Idle
<1>2. ASSUME NEW q \in Process, q # p PROVE act'[q] = Idle
    BY <1>2 DEF Only, OtherIdle
<1>3. Registered \subseteq Registered'
    BY DEF Registered
<1>4. NamedHeld'
    <2>1. \A q \in Process : act'[q].pc \in AtBook => intake'[act'[q].id] # NoIntake
        BY <1>1, <1>2 DEF AtBook, Work, Embedding
    <2>2. act'["writer"].targets \subseteq Registered' /\ act'["writer"].done \subseteq Registered'
        BY <1>1, <1>2, <1>3 DEF Process
    <2> QED
        BY <2>1, <2>2 DEF NamedHeld, Held
<1>5. RemoveStages'
    <2>1. act'["writer"].pc \notin {"nodes", "vectors", "file", "row"}
        BY <1>1, <1>2 DEF Process
    <2> QED
        BY <2>1 DEF RemoveStages
<1>6. RemovedLeavesNothing'
    BY DEF RemoveInv, RemovedLeavesNothing
<1> QED
    BY <1>4, <1>5, <1>6 DEF RemoveInv

\* An intake row keeps being one while its columns are written.
LEMMA RowStays ==
    ASSUME TypeOK, NEW i, NEW s \in {"pending", "extracted", "embedded"}
    PROVE  /\ intake' = SetStatus(i, s) => \A j \in Id : Held(j) <=> Held(j)'
           /\ SetExtraction(i) => \A j \in Id : Held(j) <=> Held(j)'
           /\ intake' = (IF Held(i) THEN [intake EXCEPT ![i].stored = TRUE] ELSE intake)
                  => \A j \in Id : Held(j) <=> Held(j)'
<1>1. ASSUME NEW r \in Intake
      PROVE  /\ [r EXCEPT !.status = s] # NoIntake
             /\ [r EXCEPT !.extractor = version] # NoIntake
             /\ [r EXCEPT !.stored = TRUE] # NoIntake
    BY DEF Intake, NoIntake
<1>2. ASSUME i \in Id, Held(i) PROVE intake[i] \in Intake
    BY <1>2 DEF TypeOK, Held
<1> QED
    BY <1>1, <1>2 DEF SetStatus, SetExtraction, Held, TypeOK

LEMMA RemoveIngestStep ==
    ASSUME ~Overlap, Types, Alone, RemoveInv, IngestStep
    PROVE  RemoveInv'
<1> DEFINE a == act["worker"]
           b == act'["worker"]
<1>0. "worker" \in Process /\ TypeOK /\ a.pc # "idle" /\ OtherIdle("worker")
    <2>1. "worker" \in Process /\ TypeOK /\ a.pc # "idle"
        BY IngestActs, ActType DEF Process, Types, ShapeOf, Work, Embedding
    <2> QED
        BY <2>1, OtherIsIdle
<1>1. Only("worker") /\ b.pc \notin {"nodes", "vectors", "file", "row"}
    BY IngestActs
<1>2. CASE Register
    <2> DEFINE id == b.id
    <2>1. b.id \in Id /\ b.pc = "mark" /\ b.id = IF IdOf(a.book) # 0 THEN IdOf(a.book) ELSE issued + 1
        BY <1>2, RegisterActs
    <2>2. UNCHANGED <<tree, progress, rows>>
        BY <1>2 DEF Register, corpus
    <2>3. CASE IdOf(a.book) # 0
        <3>1. intake' = intake /\ issued' = issued
            BY <1>2, <2>3 DEF Register
        <3>2. Held(b.id)
            BY <2>1, <2>3, IdOfHeld
        <3> QED
            BY <1>0, <1>1, <2>2, <3>1, <3>2, RemoveFrame DEF Held, Numbered, RemoveInv
    <2>4. CASE IdOf(a.book) = 0
        <3> DEFINE new == [sha |-> a.book, status |-> "pending", extractor |-> 0, stored |-> FALSE]
        <3>1. intake' = [intake EXCEPT ![b.id] = new] /\ issued' = b.id /\ b.id = issued + 1
            BY <1>2, <2>1, <2>4 DEF Register
        <3>2. new # NoIntake
            BY DEF NoIntake
        <3>3. \A i \in Id : Held(i)' <=> Held(i) \/ i = b.id
            BY <1>0, <2>1, <3>1, <3>2 DEF Held, TypeOK
        <3>4. Numbered'
            <4>1. issued \in Nat /\ Id \subseteq Nat
                BY <1>0, StoresAssumption DEF TypeOK, Id
            <4> QED
                BY <3>1, <3>3, <4>1 DEF Numbered, RemoveInv
        <3>5. intake'[b.id] # NoIntake
            BY <1>0, <2>1, <3>1, <3>2 DEF TypeOK
        <3> QED
            BY <1>0, <1>1, <2>2, <3>3, <3>4, <3>5, RemoveFrame
    <2> QED
        BY <2>3, <2>4
<1>3. CASE ~Register
    <2>1. issued' = issued
        BY <1>3 DEF IngestStep, Extract, Compare, StoreEnvelope, Restamp, MarkExtracted, RecordParse,
                    StampExtraction, RecordPath, HoldForMetadata, PassMetadata, catalog
    <2>2. \A i \in Id : Held(i) <=> Held(i)'
        <3>1. CASE Restamp \/ StampExtraction \/ MarkExtracted \/ RecordPath
            BY <1>0, <3>1, RowStays DEF Restamp, StampExtraction, MarkExtracted, RecordPath, Marked
        <3>2. CASE ~(Restamp \/ StampExtraction \/ MarkExtracted \/ RecordPath)
            <4>1. intake' = intake
                BY <1>3, <3>2 DEF IngestStep, Extract, Compare, StoreEnvelope, RecordParse,
                                  HoldForMetadata, PassMetadata, catalog
            <4> QED
                BY <4>1 DEF Held
        <3> QED
            BY <3>1, <3>2
    <2>3. tree' = tree /\ rows' = rows
        BY <1>3 DEF IngestStep, Extract, Compare, StoreEnvelope, Restamp, MarkExtracted, RecordParse,
                    StampExtraction, RecordPath, HoldForMetadata, PassMetadata, corpus
    <2>4. \A i \in Id : i # a.id \/ ~Held(i) => progress'[i] = progress[i]
        <3>1. CASE RecordParse \/ HoldForMetadata
            <4>1. a.pc \in AtBook
                BY <3>1 DEF RecordParse, HoldForMetadata, AtBook, Work
            <4>2. Held(a.id)
                BY <1>0, <4>1 DEF RemoveInv, NamedHeld
            <4>3. progress' = progress \/ \E x : progress' = [progress EXCEPT ![a.id] = x]
                BY <3>1 DEF RecordParse, HoldForMetadata, SetState
            <4> QED
                BY <1>0, <4>2, <4>3 DEF TypeOK
        <3>2. CASE ~(RecordParse \/ HoldForMetadata)
            BY <1>3, <3>2 DEF IngestStep, Extract, Compare, StoreEnvelope, Restamp, MarkExtracted,
                              StampExtraction, RecordPath, PassMetadata, catalog
        <3> QED
            BY <3>1, <3>2
    <2>5. b.pc \in AtBook => b.id = a.id /\ a.pc \in AtBook
        BY <1>3, IngestKeeps DEF Moved
    <2>6. b.pc \in AtBook => Held(b.id)
        BY <1>0, <2>5 DEF RemoveInv, NamedHeld
    <2>7. b.pc \in AtBook => b.id \in Id
        BY <1>0, <1>1, IngestTypes, ActType DEF Types, Shapes, Named
    <2>8. Numbered'
        BY <2>1, <2>2 DEF RemoveInv, Numbered
    <2> QED
        BY <1>0, <1>1, <2>2, <2>3, <2>4, <2>6, <2>7, <2>8, RemoveFrame DEF Held
<1> QED
    BY <1>2, <1>3

LEMMA RemoveSharedStep ==
    ASSUME ~Overlap, Types, Alone, RemoveInv, NEW p \in Process, SharedStep(p)
    PROVE  RemoveInv'
<1> DEFINE a == act[p]
           b == act'[p]
<1>0. TypeOK /\ a.pc # "idle" /\ OtherIdle(p) /\ Only(p)
    BY SharedActs, OtherIsIdle DEF Types, Embedding
<1>1. a.pc \in AtBook /\ a.id \in Id /\ Held(a.id)
    <2>1. a.pc \in AtBook
        BY SharedActs DEF AtBook, Work, Embedding
    <2> QED
        BY <2>1, ActType DEF Named, RemoveInv, NamedHeld
<1>2. issued' = issued
    BY DEF SharedStep, DropTree, InsertTree, PlanChunks, ScanRows, Reconcile, ReconcileRefused,
           DeleteRows, AppendRows, Promote, RecordEmbed, catalog
<1>3. \A i \in Id : Held(i) <=> Held(i)'
    <2>1. CASE Promote(p)
        BY <1>0, <2>1, RowStays DEF Promote
    <2>2. CASE ~Promote(p)
        <3>1. intake' = intake
            BY <2>2 DEF SharedStep, DropTree, InsertTree, PlanChunks, ScanRows, Reconcile, ReconcileRefused,
                        DeleteRows, AppendRows, RecordEmbed, catalog
        <3> QED
            BY <3>1 DEF Held
    <2> QED
        BY <2>1, <2>2
<1>4. \A i \in Id : i # a.id => tree'[i] = tree[i] /\ rows'[i] = rows[i] /\ progress'[i] = progress[i]
    <2>1. \/ tree' = tree
          \/ \E x : tree' = [tree EXCEPT ![a.id] = x]
        BY DEF SharedStep, DropTree, InsertTree, PlanChunks, ScanRows, Reconcile, ReconcileRefused,
               DeleteRows, AppendRows, Promote, RecordEmbed, corpus
    <2>2. \/ rows' = rows
          \/ \E x : rows' = [rows EXCEPT ![a.id] = x]
        BY DEF SharedStep, DropTree, InsertTree, PlanChunks, ScanRows, Reconcile, ReconcileRefused,
               DeleteRows, AppendRows, Promote, RecordEmbed
    <2>3. \/ progress' = progress
          \/ \E x : progress' = [progress EXCEPT ![a.id] = x]
        BY DEF SharedStep, DropTree, InsertTree, PlanChunks, ScanRows, Reconcile, ReconcileRefused,
               DeleteRows, AppendRows, Promote, RecordEmbed, catalog, SetState
    <2> QED
        BY <1>0, <2>1, <2>2, <2>3 DEF TypeOK
<1>5. /\ b.pc \in AtBook => b.id = a.id
      /\ b.pc \notin {"nodes", "vectors", "file", "row"}
      /\ b.targets \in {a.targets, {}} /\ b.done \subseteq a.done \cup {a.id}
    <2>1. CASE InsertTree(p)
        BY <2>1, InsertActs DEF Moved, Idle, AtBook, Work, Embedding
    <2>2. CASE PlanChunks(p)
        BY <2>2, PlanActs
    <2>3. CASE ScanRows(p)
        BY <2>3, ScanActs
    <2>4. ASSUME NEW chunk \in Chunk, AppendRows(p, chunk)
          PROVE  /\ b.pc \notin {"nodes", "vectors", "file", "row"} /\ b.id = a.id
                 /\ b.targets = a.targets /\ b.done = a.done
        BY <2>4, AppendActs
    <2>5. CASE DropTree(p) \/ Reconcile(p) \/ DeleteRows(p) \/ Promote(p)
        <3>1. \E pc \in {"insert", "delete", "append", "next", "record"} : Goto(p, pc)
            BY <2>5 DEF DropTree, Reconcile, DeleteRows, Promote
        <3>2. {"insert", "delete", "append", "next", "record"} \subseteq Pc
            BY DEF Pc
        <3>3. \E pc \in {"insert", "delete", "append", "next", "record"} : Moved(a, b, pc)
            BY <1>0, <3>1, <3>2, GotoActs DEF TypeOK
        <3> QED
            BY <3>3 DEF Moved
    <2>6. CASE ReconcileRefused(p) \/ RecordEmbed(p)
        <3>1. End(p)
            BY <2>6 DEF ReconcileRefused, RecordEmbed
        <3>2. b = Idle
            BY <3>1, EndPass
        <3> QED
            BY <3>2 DEF Idle, AtBook, Work, Embedding
    <2> QED
        BY <2>1, <2>2, <2>3, <2>4, <2>5, <2>6 DEF SharedStep
<1>6. p = "writer" => b.targets \subseteq Registered /\ b.done \subseteq Registered
    BY <1>1, <1>5 DEF RemoveInv, NamedHeld, Registered
<1>7. Numbered'
    BY <1>2, <1>3 DEF RemoveInv, Numbered
<1>8. b.pc \in AtBook => intake'[b.id] # NoIntake
    BY <1>1, <1>3, <1>5 DEF Held
<1> QED
    BY <1>0, <1>1, <1>3, <1>4, <1>5, <1>6, <1>7, <1>8, RemoveFrame

LEMMA RemoveWriterStep ==
    ASSUME ~Overlap, Types, Alone, IndexInv, RemoveInv, WriterStep
    PROVE  RemoveInv'
<1> DEFINE a == act["writer"]
           b == act'["writer"]
<1>0. "writer" \in Process /\ TypeOK /\ a.pc # "idle" /\ OtherIdle("writer") /\ Only("writer")
    <2>1. "writer" \in Process /\ TypeOK /\ a.pc # "idle" /\ Only("writer")
        BY WriterActs DEF Process, Types
    <2> QED
        BY <2>1, OtherIsIdle
<1>1. a.targets \subseteq Registered /\ a.done \subseteq Registered
    BY DEF RemoveInv, NamedHeld
<1>2. CASE NextTarget \/ StampIndex \/ ClearStamps \/ DropTable \/ Demote \/ StartBuild
    <2>1. issued' = issued /\ tree' = tree /\ progress' = progress
        BY <1>2 DEF NextTarget, StampIndex, ClearStamps, DropTable, Demote, StartBuild, catalog, corpus
    <2>2. \A i \in Id : rows'[i] \in {rows[i], {}}
        BY <1>2 DEF NextTarget, StampIndex, ClearStamps, DropTable, Demote, StartBuild
    <2>3. \A i \in Id : Held(i) <=> Held(i)'
        <3>1. CASE Demote
            BY <1>0, <3>1, RowStays DEF Demote
        <3>2. CASE ~Demote
            <4>1. intake' = intake
                BY <1>2, <3>2 DEF NextTarget, StampIndex, ClearStamps, DropTable, StartBuild, catalog
            <4> QED
                BY <4>1 DEF Held
        <3> QED
            BY <3>1, <3>2
    <2>4. WithStatus("extracted") \subseteq Registered /\ WithStatus("embedded") \subseteq Registered
        BY DEF WithStatus, Registered
    <2>5. /\ b.pc \in AtBook => b.id \in Id /\ Held(b.id)
          /\ b.pc \notin {"nodes", "vectors", "file", "row"}
          /\ b.targets \subseteq Registered /\ b.done \subseteq Registered
        <3>1. CASE NextTarget
            <4>0. Idle.pc = "idle" /\ Idle.targets = {} /\ Idle.done = {}
                BY DEF Idle
            <4>1. \/ b.id \in a.targets /\ b.pc \in {"chunk", "scan", "drop", "next"}
                     /\ b.targets \subseteq a.targets /\ b.done = a.done
                  \/ b = Idle
                  \/ b.pc \in {"index", "next"} /\ b.targets \in {a.targets, a.done} /\ b.done = a.done
                BY <3>1, NextTargetActs
            <4> QED
                BY <1>1, <4>0, <4>1 DEF Registered, AtBook, Work, Embedding
        <3>2. CASE StampIndex
            BY <3>2, WriterActs DEF Idle, AtBook, Work, Embedding
        <3>3. CASE ClearStamps
            <4>1. "table" \in Pc
                BY DEF Pc
            <4>2. Moved(a, b, "table")
                BY <1>0, <3>3, <4>1, GotoActs DEF ClearStamps, TypeOK
            <4> QED
                BY <1>1, <4>2 DEF Moved, AtBook, Work, Embedding
        <3>4. CASE DropTable \/ Demote \/ StartBuild
            BY <1>1, <2>4, <3>4, ResetActs DEF AtBook, Work, Embedding
        <3> QED
            BY <1>2, <3>1, <3>2, <3>3, <3>4
    <2>6. Numbered'
        BY <2>1, <2>3 DEF RemoveInv, Numbered
    <2> QED
        BY <1>0, <2>1, <2>2, <2>3, <2>5, <2>6, RemoveFrame DEF Held
<1>3. CASE RemoveDerived \/ RemoveNodes \/ RemoveVectors \/ RemoveEnvelope
    <2>0. a.id \in Id /\ Held(a.id)
        <3>1. a.pc \in AtBook
            BY <1>3 DEF RemoveDerived, RemoveNodes, RemoveVectors, RemoveEnvelope, AtBook
        <3> QED
            BY <1>0, <3>1, ActType DEF Named, RemoveInv, NamedHeld
    <2>1. \E pc \in {"nodes", "vectors", "file", "row"} : Goto("writer", pc)
        BY <1>3 DEF RemoveDerived, RemoveNodes, RemoveVectors, RemoveEnvelope
    <2>2. {"nodes", "vectors", "file", "row"} \subseteq Pc
        BY DEF Pc
    <2>3. b.id = a.id /\ b.targets = a.targets /\ b.done = a.done
        BY <1>0, <2>1, <2>2, GotoActs DEF TypeOK, Moved
    <2>4. intake' = intake /\ issued' = issued
        BY <1>3 DEF RemoveDerived, RemoveNodes, RemoveVectors, RemoveEnvelope, catalog
    <2>5. NamedHeld'
        <3>1. \A q \in Process : act'[q].pc \in AtBook => intake'[act'[q].id] # NoIntake
            BY <1>0, <2>0, <2>3, <2>4 DEF Only, RemoveInv, NamedHeld, Held
        <3>2. act'["writer"].targets \subseteq Registered' /\ act'["writer"].done \subseteq Registered'
            BY <1>1, <2>3, <2>4 DEF Registered, Held
        <3> QED
            BY <3>1, <3>2 DEF NamedHeld, Held
    <2>6. Numbered'
        BY <2>4 DEF RemoveInv, Numbered, Held
    <2>7. RemoveStages' /\ RemovedLeavesNothing'
        <3>1. CASE RemoveDerived
            <4>1. b.pc = "nodes" /\ progress' = [progress EXCEPT ![a.id] = NoProgress]
                  /\ tree' = tree /\ rows' = rows
                BY <3>1, WriterActs DEF RemoveDerived, corpus
            <4> QED
                BY <1>0, <2>0, <2>3, <2>4, <4>1 DEF RemoveStages, RemovedLeavesNothing, RemoveInv, Held, TypeOK
        <3>2. CASE RemoveNodes
            <4>1. a.pc = "nodes" /\ b.pc = "vectors" /\ tree' = [tree EXCEPT ![a.id] = NoContent]
                  /\ progress' = progress /\ rows' = rows
                BY <3>2, WriterActs DEF RemoveNodes, catalog
            <4> QED
                BY <1>0, <2>0, <2>3, <2>4, <4>1 DEF RemoveStages, RemovedLeavesNothing, RemoveInv, Held, TypeOK
        <3>3. CASE RemoveVectors
            <4>1. a.pc = "vectors" /\ b.pc = "file" /\ tree' = tree /\ progress' = progress
                  /\ rows' = IF stamp = NoModel THEN rows ELSE [rows EXCEPT ![a.id] = {}]
                BY <3>3, WriterActs DEF RemoveVectors, catalog, corpus
            <4>2. Stamped
                BY <4>1 DEF IndexInv
            <4>3. rows'[a.id] = {} /\ \A i \in Id : i # a.id => rows'[i] = rows[i]
                BY <1>0, <2>0, <4>1, <4>2, UnstampedIsEmpty DEF TypeOK
            <4> QED
                BY <1>0, <2>0, <2>3, <2>4, <4>1, <4>3 DEF RemoveStages, RemovedLeavesNothing, RemoveInv, Held
        <3>4. CASE RemoveEnvelope
            <4>1. a.pc = "file" /\ b.pc = "row" /\ tree' = tree /\ progress' = progress /\ rows' = rows
                BY <3>4, WriterActs DEF RemoveEnvelope, catalog, corpus
            <4> QED
                BY <2>0, <2>3, <2>4, <4>1 DEF RemoveStages, RemovedLeavesNothing, RemoveInv, Held
        <3> QED
            BY <1>3, <3>1, <3>2, <3>3, <3>4
    <2> QED
        BY <2>5, <2>6, <2>7 DEF RemoveInv
<1>4. CASE RemoveRow
    <2>1. a.pc = "row" /\ b = Idle /\ intake' = [intake EXCEPT ![a.id] = NoIntake]
          /\ UNCHANGED <<issued, progress, tree, rows>>
        BY <1>4, WriterActs DEF RemoveRow, corpus
    <2>2. a.id \in Id
        BY <2>1, WriterPlaces
    <2>3. \A q \in Process : act'[q] = Idle
        BY <1>0, <2>1 DEF Only, OtherIdle
    <2>4. Idle.pc = "idle" /\ Idle.targets = {} /\ Idle.done = {}
        BY DEF Idle
    <2>5. NamedHeld' /\ RemoveStages'
        BY <1>0, <2>3, <2>4 DEF NamedHeld, RemoveStages, AtBook, Work, Embedding
    <2>6. \A i \in Id : Held(i)' <=> Held(i) /\ i # a.id
        BY <1>0, <2>1, <2>2 DEF Held, TypeOK
    <2>7. Numbered'
        BY <2>1, <2>6 DEF RemoveInv, Numbered
    <2>8. progress[a.id] = NoProgress /\ tree[a.id] = NoContent /\ rows[a.id] = {}
        BY <2>1 DEF RemoveInv, RemoveStages
    <2>9. RemovedLeavesNothing'
        BY <2>1, <2>6, <2>8 DEF RemoveInv, RemovedLeavesNothing
    <2> QED
        BY <2>5, <2>7, <2>9 DEF RemoveInv
<1> QED
    BY <1>2, <1>3, <1>4 DEF WriterStep

LEMMA RemoveFailStep ==
    ASSUME ~Overlap, Types, Alone, RemoveInv, NEW p \in Process, Fail(p)
    PROVE  RemoveInv'
<1> DEFINE a == act[p]
           b == act'[p]
<1>0. TypeOK /\ a.pc # "idle" /\ OtherIdle(p) /\ Only(p)
    BY FailActs, OtherIsIdle DEF Types
<1>1. intake' = intake /\ issued' = issued /\ tree' = tree /\ rows' = rows
    BY DEF Fail, corpus
<1>2. \A i \in Id : ~Held(i) => progress'[i] = progress[i]
    <2>1. CASE a.pc \in {"reconcile", "delete", "append"}
        <3>1. Held(a.id)
            BY <2>1 DEF RemoveInv, NamedHeld, AtBook, Work, Embedding
        <3>2. progress' = progress \/ \E x : progress' = [progress EXCEPT ![a.id] = x]
            BY DEF Fail, SetState
        <3> QED
            BY <1>0, <3>1, <3>2 DEF TypeOK
    <2>2. CASE a.pc \notin {"reconcile", "delete", "append"}
        BY <2>2 DEF Fail
    <2> QED
        BY <2>1, <2>2
<1>3. b.pc \in {"next", "idle"} /\ b.targets \in {a.targets, {}} /\ b.done \in {a.done, {}}
    <2>1. CASE Goto(p, "next")
        <3>1. "next" \in Pc
            BY DEF Pc
        <3> QED
            BY <1>0, <2>1, <3>1, GotoActs DEF TypeOK, Moved
    <2>2. CASE End(p)
        BY <2>2, EndPass DEF Idle
    <2> QED
        BY <2>1, <2>2 DEF Fail
<1>4. p = "writer" => b.targets \subseteq Registered /\ b.done \subseteq Registered
    BY <1>3 DEF RemoveInv, NamedHeld
<1>5. Numbered'
    BY <1>1 DEF RemoveInv, Numbered, Held
<1> QED
    BY <1>0, <1>1, <1>2, <1>3, <1>4, <1>5, RemoveFrame DEF Held, AtBook, Work, Embedding

LEMMA RemoveStep ==
    ASSUME ~Overlap
    PROVE  Types /\ Alone /\ IndexInv /\ RemoveInv /\ [Next]_vars => RemoveInv'
<1> SUFFICES ASSUME Types, Alone, IndexInv, RemoveInv, [Next]_vars PROVE RemoveInv'
    OBVIOUS
<1>0. Idle.pc = "idle" /\ Idle.targets = {} /\ Idle.done = {}
    BY DEF Idle
<1>1. CASE StartPass
    <2>1. UNCHANGED <<intake, issued, progress, tree, rows>>
        BY <1>1, StartPassActs
    <2>2. PICK p \in Process : Only(p) /\ (\A q \in Process : act[q] = Idle) /\ Begun(p, act'[p])
        BY <1>1, StartPassActs
    <2>3. OtherIdle(p)
        BY <2>2 DEF OtherIdle
    <2>4. /\ act'[p].pc \in AtBook => intake'[act'[p].id] # NoIntake
          /\ act'[p].targets \subseteq Registered /\ act'[p].done \subseteq Registered
          /\ act'[p].pc \notin {"nodes", "vectors", "file", "row"}
        BY <2>1, <2>2 DEF Begun, AtBook, Work, Embedding, Held, WithStatus, Registered
    <2>5. Numbered'
        BY <2>1 DEF RemoveInv, Numbered, Held
    <2> QED
        BY <2>1, <2>2, <2>3, <2>4, <2>5, RemoveFrame DEF Held
<1>2. CASE IngestStep
    BY <1>2, RemoveIngestStep
<1>3. ASSUME NEW p \in Process, SharedStep(p) \/ Fail(p) PROVE RemoveInv'
    BY <1>3, RemoveSharedStep, RemoveFailStep
<1>4. CASE WriterStep
    BY <1>4, RemoveWriterStep
<1>5. ASSUME NEW v \in Version, NEW m \in Model, Restart(v, m) PROVE RemoveInv'
    <2>1. UNCHANGED <<intake, issued, progress, tree, rows>> /\ \A p \in Process : act'[p] = Idle
        BY <1>5 DEF Restart, catalog, corpus
    <2>2. NamedHeld' /\ RemoveStages'
        BY <1>0, <2>1 DEF NamedHeld, RemoveStages, AtBook, Work, Embedding, Process
    <2> QED
        BY <2>1, <2>2 DEF RemoveInv, Numbered, RemovedLeavesNothing, Held
<1>6. CASE UNCHANGED vars
    BY <1>6 DEF vars, catalog, corpus, RemoveInv, NamedHeld, RemoveStages, Numbered,
                RemovedLeavesNothing, Registered, Held
<1> QED
    BY <1>1, <1>2, <1>3, <1>4, <1>5, <1>6 DEF Next

LEMMA RemoveAlways ==
    ASSUME ~Overlap, SafeResets
    PROVE  Spec => []RemoveInv
<1>1. Init => RemoveInv
    <2>1. Idle.pc = "idle" /\ Idle.targets = {} /\ Idle.done = {}
        BY DEF Idle
    <2> QED
        BY <2>1 DEF Init, RemoveInv, NamedHeld, RemoveStages, Numbered, RemovedLeavesNothing, Held,
                    Registered, Process, AtBook, Work, Embedding
<1>2. Types /\ Alone /\ IndexInv /\ RemoveInv /\ [Next]_vars => RemoveInv'
    BY RemoveStep
<1> QED
    BY <1>1, <1>2, TypesAlways, AloneAlways, IndexAlways, PTL DEF Spec

\* Where no session runs beside an ingest, a book without an intake row has
\* no tree, no vectors and no state, wherever a removal or an ingest of it
\* was interrupted.
THEOREM RemovedBooksAreGone ==
    ASSUME ~Overlap, SafeResets
    PROVE  Spec => []RemovedLeavesNothing
<1>1. RemoveInv => RemovedLeavesNothing
    BY DEF RemoveInv
<1> QED
    BY <1>1, RemoveAlways, PTL

-----------------------------------------------------------------------------
(* What a re-ingest may take for done.                                     *)

\* The hypotheses: no session beside an ingest, held books advanced only,
\* a failed envelope write takes the old envelope away, the row a parse
\* leaves is written, no reset, rebuild or reembed is interrupted, and no
\* extractor brings back the reading of a book that a later one had changed.
CarefulUse ==
    /\ ~Overlap /\ CarefulAdvance
    /\ EnvelopeFaults \subseteq {"removed"}
    /\ "structure" \notin LostStates
    /\ FaultyPasses \cap {"reset", "rebuild", "reembed"} = {}
    /\ \A b \in Book : \A v1, v2, v3 \in Version :
           v1 <= v2 /\ v2 <= v3 /\ ContentOf[b][v1] = ContentOf[b][v3]
               => ContentOf[b][v2] = ContentOf[b][v1]

\* A state row of a finished or a held run: the parse it follows is stamped.
VouchedBy(pr) == pr.model # NoModel \/ pr.stage = "metadata"

Read(row, v) == ContentOf[row.sha][v]

\* What the extractors since the one that stamped a row read in its book.
ReadSince(row, ver, c) == \E v \in row.extractor..ver : c = Read(row, v)

RowsFor(chunks, m) == {[chunk |-> k, model |-> m] : k \in chunks}

\* The stamp of a vouched book, its envelope and its tree.
FiledBook(row, pr, of, tr, ver) ==
    row # NoIntake /\ VouchedBy(pr) =>
        /\ row.extractor \in 1..ver
        /\ of \in {NoContent, Read(row, row.extractor)}
        /\ tr = NoContent \/ ReadSince(row, ver, tr)

\* The tree and the vectors of a vouched book that calls itself embedded.
WholeTree(row, pr, tr) ==
    row # NoIntake /\ VouchedBy(pr) /\ row.status = "embedded" => tr # NoContent

WholeRows(row, pr, rs, st, ver) ==
    row # NoIntake /\ VouchedBy(pr) /\ row.status = "embedded"
        => \E c \in Content : ReadSince(row, ver, c) /\ rs = RowsFor(Chunks(c), st)

\* A book in the hands of the writer.
InHand(i, pass, pc) == LET me == act["writer"] IN me.id = i /\ me.pass = pass /\ me.pc = pc
InReset == act["writer"].pc \in {"table", "demote"}

Filed(i) == FiledBook(intake[i], progress[i], envelope[i].of, tree[i], version)

Whole(i) ==
    /\ InHand(i, "rebuild", "insert") \/ WholeTree(intake[i], progress[i], tree[i])
    /\ \/ InReset \/ InHand(i, "reembed", "append")
       \/ WholeRows(intake[i], progress[i], rows[i], stamp, version)

Vouched(i) == VouchedBy(progress[i])

Built == Work \ {"drop", "insert"}

IngestInv(p) == LET me == act[p] i == me.id IN
    me.pass = "ingest" =>
    /\ me.pc = "extract" /\ me.behind => \E j \in Id : Held(j) /\ intake[j].sha = me.book
    /\ me.pc # "extract" => me.content = ContentOf[me.book][version]
    /\ me.pc \in {"compare", "restamp", "mark"} \cup Work => i \in Id /\ Held(i) /\ intake[i].sha = me.book
    /\ me.pc = "restamp" => envelope[i].of = me.content
    /\ me.pc \in Work \ {"record"} => intake[i].status # "embedded"
    /\ me.pc = "insert" => tree[i] = NoContent
    /\ me.pc \in Built => tree[i] = me.content
    /\ me.pc \in Built \ {"parsed"} => ~Vouched(i)
    /\ me.pc \in Built \ {"parsed", "stamp"} => intake[i].extractor = version
    /\ me.pc \in Built \ {"parsed", "stamp", "store"} => envelope[i].of \in {NoContent, me.content}

MaintenanceInv(p) == LET me == act[p] i == me.id IN
    /\ me.pass = "advance" =>
           /\ Vouched(i) /\ tree[i] # NoContent
           /\ me.pc # "record" => intake[i].status # "embedded"
    /\ me.pass = "resume" =>
           /\ me.targets \subseteq WithStatus("extracted")
           /\ me.pc # "next" => intake[i].status # "embedded" /\ i \notin me.targets
    /\ me.pass = "rebuild" =>
           /\ me.pc \in {"drop", "insert"} => me.content = envelope[i].of
           /\ me.pc = "insert" => tree[i] = NoContent
    /\ me.pc \in {"table", "demote"} => stamp = NoModel
    /\ me.pc = "demote" => WithStatus("embedded") \subseteq me.targets

EmbedInv(p) == LET me == act[p] i == me.id IN
    /\ me.pass \in {"ingest", "advance", "resume"} =>
        /\ me.pc \in Embedding \cup {"promote", "record"} => tree[i] # NoContent
        /\ me.pc \in {"reconcile", "delete"} => me.left = Chunks(tree[i])
        /\ me.pc = "append" => rows[i] \cup RowsFor(me.left, stamp) = RowsFor(Chunks(tree[i]), stamp)
        /\ me.pc \in {"promote", "record"} => rows[i] = RowsFor(Chunks(tree[i]), stamp)
    /\ me.pass = "reembed" =>
        /\ me.pc = "reconcile" => me.left # {}
        /\ me.pc \in {"reconcile", "delete"} => me.left = {r.chunk : r \in rows[i]}
        /\ me.pc = "append" =>
              WholeRows(intake[i], progress[i], rows[i] \cup RowsFor(me.left, stamp), stamp, version)

PassInv(p) == IngestInv(p) /\ MaintenanceInv(p) /\ EmbedInv(p)

SoundInv ==
    /\ \A i \in Id : Filed(i) /\ Whole(i)
    /\ \A p \in Process : PassInv(p)

LEMMA IdlePassInv ==
    ASSUME NEW p, act[p] = Idle
    PROVE  PassInv(p)
<1>1. act[p].pass = "none" /\ act[p].pc = "idle"
    BY DEF Idle
<1> QED
    BY <1>1 DEF PassInv, IngestInv, MaintenanceInv, EmbedInv

\* A step of one pass: the books are as they should be after it, and so is
\* what the pass relies on.
LEMMA SoundFrame ==
    ASSUME NEW p \in Process, Only(p), OtherIdle(p),
           \A i \in Id : Filed(i)' /\ Whole(i)',
           PassInv(p)'
    PROVE  SoundInv'
<1>1. ASSUME NEW q \in Process PROVE PassInv(q)'
    <2>1. CASE q = p
        BY <2>1
    <2>2. CASE q # p
        <3>1. act'[q] = Idle
            BY <2>2 DEF Only, OtherIdle
        <3>2. act'[q].pass = "none" /\ act'[q].pc = "idle"
            BY <3>1 DEF Idle
        <3> QED
            BY <3>2 DEF PassInv, IngestInv, MaintenanceInv, EmbedInv
    <2> QED
        BY <2>1, <2>2
<1> QED
    BY <1>1 DEF SoundInv

\* Where the writer holds no book between two of its writes.
Quiet == act["writer"].pc \notin {"insert", "append", "table", "demote"}

LEMMA Settled ==
    ASSUME SoundInv, Quiet, NEW i \in Id
    PROVE  /\ WholeTree(intake[i], progress[i], tree[i])
           /\ WholeRows(intake[i], progress[i], rows[i], stamp, version)
BY DEF SoundInv, Whole, InHand, InReset, Quiet

\* A book no store of which is written.
Untouched(i) == UNCHANGED <<intake[i], progress[i], envelope[i], tree[i], rows[i]>>

LEMMA UntouchedBook ==
    ASSUME SoundInv, Quiet, NEW i \in Id, Untouched(i), UNCHANGED <<version, stamp>>
    PROVE  Filed(i)' /\ Whole(i)'
<1>1. Filed(i)'
    BY DEF SoundInv, Filed, Untouched
<1>2. Whole(i)'
    BY Settled DEF Whole, Untouched
<1> QED
    BY <1>1, <1>2

\* A step of one pass on at most one book.
LEMMA BookStep ==
    ASSUME SoundInv, NEW p \in Process, Only(p), OtherIdle(p), NEW i \in Id,
           UNCHANGED <<version, stamp>>,
           \A j \in Id : j # i => Untouched(j),
           ~InReset, act["writer"].pc \in {"insert", "append"} => act["writer"].id = i,
           Filed(i)', Whole(i)', PassInv(p)'
    PROVE  SoundInv'
<1>1. ASSUME NEW j \in Id, j # i PROVE Filed(j)' /\ Whole(j)'
    <2>1. Untouched(j)
        BY <1>1
    <2>2. Filed(j) /\ Whole(j)
        BY DEF SoundInv
    <2>3. WholeTree(intake[j], progress[j], tree[j]) /\ WholeRows(intake[j], progress[j], rows[j], stamp, version)
        BY <1>1, <2>2 DEF Whole, InHand
    <2> QED
        BY <2>1, <2>2, <2>3 DEF Filed, Whole, Untouched
<1>2. \A j \in Id : Filed(j)' /\ Whole(j)'
    BY <1>1
<1> QED
    BY <1>2, SoundFrame

\* A step that writes no store.
LEMMA NoBookStep ==
    ASSUME SoundInv, Quiet, NEW p \in Process, Only(p), OtherIdle(p),
           UNCHANGED <<version, stamp, intake, progress, envelope, tree, rows>>, PassInv(p)'
    PROVE  SoundInv'
<1>1. \A i \in Id : Filed(i)' /\ Whole(i)'
    BY UntouchedBook DEF Untouched
<1> QED
    BY <1>1, SoundFrame

\* What a write of one column leaves of an intake row.
LEMMA RowUpdates ==
    ASSUME TypeOK, NEW i \in Id, Held(i), NEW s \in {"pending", "extracted", "embedded"}
    PROVE  /\ intake' = SetStatus(i, s) =>
                /\ intake'[i] # NoIntake /\ intake'[i].sha = intake[i].sha
                /\ intake'[i].extractor = intake[i].extractor /\ intake'[i].status = s
                /\ \A j \in Id : j # i => intake'[j] = intake[j]
           /\ SetExtraction(i) =>
                /\ intake'[i] # NoIntake /\ intake'[i].sha = intake[i].sha
                /\ intake'[i].extractor = version /\ intake'[i].status = intake[i].status
                /\ \A j \in Id : j # i => intake'[j] = intake[j]
           /\ intake' = [intake EXCEPT ![i].stored = TRUE] =>
                /\ intake'[i] # NoIntake /\ intake'[i].sha = intake[i].sha
                /\ intake'[i].extractor = intake[i].extractor /\ intake'[i].status = intake[i].status
                /\ \A j \in Id : j # i => intake'[j] = intake[j]
<1>1. intake[i] \in Intake
    BY DEF TypeOK, Held
<1>2. ASSUME NEW r \in Intake
      PROVE  /\ [r EXCEPT !.status = s] # NoIntake
             /\ [r EXCEPT !.extractor = version] # NoIntake
             /\ [r EXCEPT !.stored = TRUE] # NoIntake
    BY DEF Intake, NoIntake
<1>3. ASSUME intake' = SetStatus(i, s)
      PROVE  /\ intake'[i] # NoIntake /\ intake'[i].sha = intake[i].sha
             /\ intake'[i].extractor = intake[i].extractor /\ intake'[i].status = s
             /\ \A j \in Id : j # i => intake'[j] = intake[j]
    BY <1>1, <1>2, <1>3 DEF SetStatus, TypeOK, Intake
<1>4. ASSUME SetExtraction(i)
      PROVE  /\ intake'[i] # NoIntake /\ intake'[i].sha = intake[i].sha
             /\ intake'[i].extractor = version /\ intake'[i].status = intake[i].status
             /\ \A j \in Id : j # i => intake'[j] = intake[j]
    BY <1>1, <1>2, <1>4 DEF SetExtraction, TypeOK, Intake
<1>5. ASSUME intake' = [intake EXCEPT ![i].stored = TRUE]
      PROVE  /\ intake'[i] # NoIntake /\ intake'[i].sha = intake[i].sha
             /\ intake'[i].extractor = intake[i].extractor /\ intake'[i].status = intake[i].status
             /\ \A j \in Id : j # i => intake'[j] = intake[j]
    BY <1>1, <1>2, <1>5 DEF TypeOK, Intake
<1> QED
    BY <1>3, <1>4, <1>5

\* A careful use knows no reading that comes back.
LEMMA ReadingsStay ==
    ASSUME CarefulUse, NEW b \in Book, NEW v1 \in Version, NEW v2 \in Version, NEW v3 \in Version,
           v1 <= v2, v2 <= v3, ContentOf[b][v1] = ContentOf[b][v3]
    PROVE  ContentOf[b][v2] = ContentOf[b][v1]
BY DEF CarefulUse

\* The readings of a vouched book whose stamp's reading is that of this
\* extractor are one.
LEMMA OneReading ==
    ASSUME CarefulUse, TypeOK, NEW i \in Id, Held(i), intake[i].extractor \in 1..version,
           Read(intake[i], intake[i].extractor) = Read(intake[i], version)
    PROVE  \A v \in intake[i].extractor..version : Read(intake[i], v) = Read(intake[i], version)
<1>1. intake[i].sha \in Book
    BY DEF TypeOK, Held, Intake
<1>2. version \in Version /\ \A v \in intake[i].extractor..version : v \in Version /\ v <= version
    BY StoresAssumption DEF TypeOK, Version
<1>3. intake[i].extractor \in Version
    BY <1>2
<1>4. ASSUME NEW v \in intake[i].extractor..version PROVE Read(intake[i], v) = Read(intake[i], version)
    <2>1. intake[i].extractor <= v /\ v <= version /\ v \in Version
        BY <1>2, <1>3 DEF Version
    <2> QED
        BY <1>1, <1>2, <1>3, <2>1, ReadingsStay DEF Read
<1> QED
    BY <1>4

\* A passed version is a version, and a reading a content.
LEMMA ReadType ==
    ASSUME TypeOK, NEW b \in Book
    PROVE  ContentOf[b][version] \in Content /\ ContentOf[b][version] # NoContent
BY StoresAssumption DEF TypeOK

\* What the invariants say while an ingest takes a step.
LEMMA IngestSetting ==
    ASSUME CarefulUse, Types, Alone, SoundInv, IngestStep
    PROVE  /\ "worker" \in Process /\ TypeOK /\ Quiet
           /\ Only("worker") /\ OtherIdle("worker")
           /\ act["worker"].pass = "ingest" /\ IngestInv("worker")
           /\ act'["worker"].pass \in {"ingest", "none"}
           /\ act["worker"].book \in Book
           /\ UNCHANGED <<version, stamp, tree, rows>>
<1>1. "worker" \in Process /\ TypeOK /\ Only("worker") /\ act["worker"].pass = "ingest"
      /\ act["worker"].pc # "idle"
    BY IngestActs, ActType DEF Process, Types, ShapeOf, Work, Embedding
<1>2. OtherIdle("worker")
    BY <1>1, OtherIsIdle DEF CarefulUse
<1>3. Quiet
    BY <1>2 DEF OtherIdle, Process, Quiet, Idle
<1>4. act'["worker"].pass \in {"ingest", "none"}
    BY IngestTypes DEF Types, Shapes
<1>5. act["worker"].book \in Book
    BY <1>1, ActType DEF Named
<1>6. IngestInv("worker")
    BY <1>1 DEF SoundInv, PassInv
<1>7. UNCHANGED <<version, stamp, tree, rows>>
    BY DEF IngestStep, Extract, Compare, StoreEnvelope, Restamp, Register, MarkExtracted,
           RecordParse, StampExtraction, RecordPath, HoldForMetadata, PassMetadata, env, corpus
<1> QED
    BY <1>1, <1>2, <1>3, <1>4, <1>5, <1>6, <1>7

\* What is left to show of an ingest that has not come to its chunks.
LEMMA IngestPass ==
    ASSUME act'["worker"].pass = "ingest", act'["worker"].pc \notin Embedding \cup {"promote", "record"},
           act'["worker"].pc \notin {"table", "demote"}, IngestInv("worker")'
    PROVE  PassInv("worker")'
BY DEF PassInv, MaintenanceInv, EmbedInv, Embedding

LEMMA SoundExtract ==
    ASSUME CarefulUse, Types, Alone, SoundInv, IngestStep, Extract
    PROVE  SoundInv'
<1> DEFINE a == act["worker"]
           b == act'["worker"]
<1>0. /\ "worker" \in Process /\ TypeOK /\ Quiet /\ Only("worker") /\ OtherIdle("worker")
      /\ IngestInv("worker") /\ UNCHANGED <<version, stamp, tree, rows, intake, progress, envelope>>
    BY IngestSetting DEF Extract, catalog
<1>1. /\ a.pc = "extract" /\ b.content = ContentOf[a.book][version] /\ b.book = a.book /\ b.pass = "ingest"
      /\ b.id = (IF a.behind THEN IdOf(a.book) ELSE 0)
      /\ b.pc = (IF a.behind THEN "compare" ELSE "register") /\ a.pass = "ingest"
    BY ExtractActs
<1>2. a.behind => b.id \in Id /\ Held(b.id) /\ intake[b.id].sha = a.book
    <2>1. ASSUME a.behind PROVE IdOf(a.book) # 0
        <3>1. \E j \in Id : Held(j) /\ intake[j].sha = a.book
            BY <1>0, <1>1, <2>1 DEF IngestInv
        <3>2. IdOf(a.book) = CHOOSE j \in Id : Held(j) /\ intake[j].sha = a.book
            BY <3>1 DEF IdOf
        <3>3. IdOf(a.book) \in Id
            BY <3>1, <3>2
        <3> QED
            BY <1>0, <3>3, VersionType
    <2> QED
        BY <1>1, <2>1, IdOfHeld
<1>3. b.pc \in {"compare", "register"} /\ (b.pc = "compare" => a.behind)
    BY <1>1
<1>4. IngestInv("worker")'
    BY <1>0, <1>1, <1>2, <1>3 DEF IngestInv, Work, Built, Embedding, Held
<1>5. PassInv("worker")'
    BY <1>1, <1>3, <1>4, IngestPass DEF Embedding
<1> QED
    BY <1>0, <1>5, NoBookStep

LEMMA SoundCompare ==
    ASSUME CarefulUse, Types, Alone, SoundInv, IngestStep,
           NEW how \in {"stored", "removed", "left"}, Compare(how)
    PROVE  SoundInv'
<1> DEFINE a == act["worker"]
           b == act'["worker"]
<1> PICK i : i = a.id
    OBVIOUS
<1>0. /\ "worker" \in Process /\ TypeOK /\ Quiet /\ Only("worker") /\ OtherIdle("worker")
      /\ a.pass = "ingest" /\ IngestInv("worker") /\ act \in [Process -> Act]
      /\ UNCHANGED <<version, stamp, tree, rows, intake, progress>>
    BY IngestSetting DEF Compare, catalog, TypeOK
<1>1. /\ a.pc = "compare" /\ i \in Id /\ Held(i) /\ intake[i].sha = a.book
      /\ a.content = ContentOf[a.book][version]
    BY <1>0 DEF Compare, IngestInv
<1>2. how \in {"stored", "removed"}
    BY DEF Compare, CarefulUse
<1>3. /\ \A j \in Id : j # i => envelope'[j] = envelope[j]
      /\ \/ Unchanged(i, a.content) /\ how = "stored" /\ envelope'[i].of = a.content /\ Goto("worker", "restamp")
         \/ envelope'[i].of = NoContent /\ Goto("worker", "register")
         \/ envelope'[i].of = envelope[i].of /\ Goto("worker", "register")
    BY <1>0, <1>1, <1>2 DEF Compare, StoreOutcome, NoEnvelope, TypeOK
<1>4. envelope'[i].of \in {NoContent, envelope[i].of}
    BY <1>3 DEF Unchanged
<1>5. Filed(i)'
    BY <1>0, <1>1, <1>4 DEF SoundInv, Filed, FiledBook
<1>6. Whole(i)'
    BY <1>0, <1>1, Settled DEF Whole
<1>7. "restamp" \in Pc /\ "register" \in Pc
    BY DEF Pc
<1>8. \/ Moved(a, b, "restamp") /\ envelope'[i].of = a.content
      \/ Moved(a, b, "register")
    BY <1>0, <1>3, <1>7, GotoActs
<1>9. IngestInv("worker")'
    BY <1>0, <1>1, <1>8 DEF Moved, IngestInv, Work, Built, Embedding, Held
<1>10. PassInv("worker")'
    BY <1>0, <1>8, <1>9, IngestPass DEF Moved, Embedding
<1> QED
    BY <1>0, <1>1, <1>3, <1>5, <1>6, <1>10, BookStep DEF Quiet, InReset, Untouched

\* The stamp moves alone: the envelope on file is this extractor's reading,
\* so the reading it was stamped with is, and so is that of the tree.
LEMMA SoundRestamp ==
    ASSUME CarefulUse, Types, Alone, SoundInv, IngestStep, Restamp
    PROVE  SoundInv'
<1> DEFINE a == act["worker"]
           b == act'["worker"]
<1> PICK i : i = a.id
    OBVIOUS
<1>0. /\ "worker" \in Process /\ TypeOK /\ Quiet /\ Only("worker") /\ OtherIdle("worker")
      /\ a.pass = "ingest" /\ IngestInv("worker") /\ a.book \in Book
      /\ UNCHANGED <<version, stamp, tree, rows, progress, envelope>>
    BY IngestSetting DEF Restamp
<1>1. /\ a.pc = "restamp" /\ i \in Id /\ Held(i) /\ intake[i].sha = a.book
      /\ a.content = ContentOf[a.book][version] /\ envelope[i].of = a.content
    BY <1>0 DEF Restamp, IngestInv, Work
<1>2. /\ intake'[i] # NoIntake /\ intake'[i].sha = intake[i].sha
      /\ intake'[i].extractor = version /\ intake'[i].status = intake[i].status
      /\ \A j \in Id : j # i => intake'[j] = intake[j]
    BY <1>0, <1>1, RowUpdates DEF Restamp
<1>3. version \in version..version /\ version \in 1..version /\ \A v \in version..version : v = version
    BY <1>0, StoresAssumption DEF TypeOK, Version
<1>4. envelope[i].of = Read(intake[i], version) /\ envelope[i].of # NoContent
    BY <1>0, <1>1, ReadType DEF Read
<1>5. ASSUME Vouched(i)
      PROVE  intake[i].extractor \in 1..version /\ \A v \in intake[i].extractor..version : Read(intake[i], v) = Read(intake[i], version)
    <2>1. FiledBook(intake[i], progress[i], envelope[i].of, tree[i], version)
        BY <1>1 DEF SoundInv, Filed
    <2>2. intake[i].extractor \in 1..version /\ Read(intake[i], intake[i].extractor) = Read(intake[i], version)
        BY <1>1, <1>4, <1>5, <2>1 DEF FiledBook, Vouched, Held
    <2> QED
        BY <1>0, <1>1, <2>2, OneReading
<1>6. Filed(i)'
    <2>1. CASE Vouched(i)
        <3>1. tree[i] = NoContent \/ tree[i] = Read(intake[i], version)
            BY <1>1, <1>5, <2>1 DEF SoundInv, Filed, FiledBook, ReadSince, Vouched, Held
        <3>2. Read(intake'[i], version) = Read(intake[i], version)
            BY <1>2 DEF Read
        <3>3. FiledBook(intake'[i], progress[i], envelope[i].of, tree[i], version)
            BY <1>2, <1>3, <1>4, <3>1, <3>2 DEF FiledBook, ReadSince
        <3> QED
            BY <1>0, <3>3 DEF Filed
    <2>2. CASE ~Vouched(i)
        BY <1>0, <2>2 DEF Filed, FiledBook, Vouched
    <2> QED
        BY <2>1, <2>2
<1>7. Whole(i)'
    <2>1. WholeTree(intake'[i], progress[i], tree[i])
        BY <1>1, <1>2, <1>0, Settled DEF WholeTree, Held
    <2>2. WholeRows(intake'[i], progress[i], rows[i], stamp, version)
        <3>1. CASE Vouched(i) /\ intake[i].status = "embedded"
            <4>1. PICK c \in Content : ReadSince(intake[i], version, c) /\ rows[i] = RowsFor(Chunks(c), stamp)
                BY <1>0, <1>1, <3>1, Settled DEF WholeRows, Vouched, Held
            <4>2. c = Read(intake[i], version)
                BY <1>5, <3>1, <4>1 DEF ReadSince
            <4>3. ReadSince(intake'[i], version, c)
                BY <1>2, <1>3, <4>2 DEF ReadSince, Read
            <4> QED
                BY <4>1, <4>3 DEF WholeRows
        <3>2. CASE ~(Vouched(i) /\ intake[i].status = "embedded")
            BY <1>2, <3>2 DEF WholeRows, Vouched
        <3> QED
            BY <3>1, <3>2
    <2> QED
        BY <1>0, <2>1, <2>2 DEF Whole
<1>8. b.pass = "none" /\ b.pc = "idle"
    BY <1>0, EndPass DEF Restamp
<1>9. PassInv("worker")'
    BY <1>8 DEF PassInv, IngestInv, MaintenanceInv, EmbedInv
<1> QED
    BY <1>0, <1>1, <1>2, <1>6, <1>7, <1>9, BookStep DEF Quiet, InReset, Untouched

\* A fresh intake has no state yet, and so nothing to vouch for.
LEMMA SoundRegister ==
    ASSUME CarefulUse, Types, Alone, RemoveInv, SoundInv, IngestStep, Register
    PROVE  SoundInv'
<1> DEFINE a == act["worker"]
           b == act'["worker"]
<1> PICK i : i = b.id
    OBVIOUS
<1>0. /\ "worker" \in Process /\ TypeOK /\ Quiet /\ Only("worker") /\ OtherIdle("worker")
      /\ a.pass = "ingest" /\ IngestInv("worker")
      /\ UNCHANGED <<version, stamp, tree, rows, progress, envelope>>
    BY IngestSetting DEF Register
<1>1. /\ a.pc = "register" /\ i \in Id /\ b.pc = "mark" /\ b.pass = "ingest"
      /\ b.content = a.content /\ b.book = a.book
      /\ i = (IF IdOf(a.book) # 0 THEN IdOf(a.book) ELSE issued + 1)
    BY RegisterActs
<1>2. b.content = ContentOf[b.book][version']
    BY <1>0, <1>1 DEF IngestInv
<1>3. CASE IdOf(a.book) # 0
    <2>1. UNCHANGED intake /\ Held(i) /\ intake[i].sha = a.book
        BY <1>1, <1>3, IdOfHeld DEF Register
    <2>2. IngestInv("worker")'
        BY <1>0, <1>1, <1>2, <2>1 DEF IngestInv, Work, Built, Embedding, Held
    <2>3. PassInv("worker")'
        BY <1>1, <2>2, IngestPass DEF Embedding
    <2> QED
        BY <1>0, <2>1, <2>3, NoBookStep
<1>4. CASE IdOf(a.book) = 0
    <2> DEFINE r == [sha |-> a.book, status |-> "pending", extractor |-> 0, stored |-> FALSE]
    <2>1. i = issued + 1 /\ intake' = [intake EXCEPT ![i] = r]
        BY <1>1, <1>4 DEF Register
    <2>2. ~Held(i)
        <3>1. issued \in Nat /\ i \in Nat /\ issued + 1 > issued
            BY <1>0, <1>1, StoresAssumption DEF TypeOK, Id
        <3> QED
            BY <1>1, <2>1, <3>1 DEF RemoveInv, Numbered
    <2>3. progress[i] = NoProgress
        BY <1>1, <2>2 DEF RemoveInv, RemovedLeavesNothing
    <2>4. ~VouchedBy(progress'[i])
        BY <1>0, <2>3 DEF VouchedBy, NoProgress, At
    <2>5. Filed(i)' /\ Whole(i)'
        BY <2>4 DEF Filed, FiledBook, Whole, WholeTree, WholeRows
    <2>6. intake'[i] = r /\ \A j \in Id : j # i => intake'[j] = intake[j]
        BY <1>0, <1>1, <2>1 DEF TypeOK
    <2>7. r # NoIntake /\ r.sha = a.book /\ r.status # "embedded"
        BY DEF NoIntake
    <2> HIDE DEF r
    <2>8. IngestInv("worker")'
        BY <1>0, <1>1, <1>2, <2>6, <2>7 DEF IngestInv, Work, Built, Embedding, Held
    <2>9. PassInv("worker")'
        BY <1>1, <2>8, IngestPass DEF Embedding
    <2> QED
        BY <1>0, <1>1, <2>5, <2>6, <2>9, BookStep DEF Quiet, InReset, Untouched
<1> QED
    BY <1>3, <1>4

\* The ingest is at work on a book of its own file.
LEMMA IngestAtBook ==
    ASSUME CarefulUse, Types, Alone, SoundInv, IngestStep, NEW i, i = act["worker"].id,
           act["worker"].pc \in {"mark"} \cup Work
    PROVE  LET a == act["worker"] IN
           /\ "worker" \in Process /\ TypeOK /\ Quiet /\ Only("worker") /\ OtherIdle("worker")
           /\ a.pass = "ingest" /\ IngestInv("worker") /\ act \in [Process -> Act]
           /\ i \in Id /\ Held(i) /\ intake[i].sha = a.book
           /\ a.content = ContentOf[a.book][version] /\ a.book \in Book
           /\ a.content # NoContent
           /\ act["worker"].id = i
           /\ UNCHANGED <<version, stamp, tree, rows>>
<1>1. /\ "worker" \in Process /\ TypeOK /\ Quiet /\ Only("worker") /\ OtherIdle("worker")
      /\ act["worker"].pass = "ingest" /\ IngestInv("worker") /\ act \in [Process -> Act]
      /\ act["worker"].book \in Book /\ UNCHANGED <<version, stamp, tree, rows>>
    BY IngestSetting DEF TypeOK
<1>2. /\ i \in Id /\ Held(i) /\ intake[i].sha = act["worker"].book
      /\ act["worker"].content = ContentOf[act["worker"].book][version]
    BY <1>1 DEF IngestInv, Work, Embedding
<1> QED
    BY <1>1, <1>2, ReadType

LEMMA SoundMark ==
    ASSUME CarefulUse, Types, Alone, SoundInv, IngestStep, MarkExtracted
    PROVE  SoundInv'
<1> DEFINE a == act["worker"]
           b == act'["worker"]
<1> PICK i : i = a.id
    OBVIOUS
<1>0. /\ "worker" \in Process /\ TypeOK /\ Quiet /\ Only("worker") /\ OtherIdle("worker")
      /\ a.pass = "ingest" /\ IngestInv("worker") /\ act \in [Process -> Act]
      /\ i \in Id /\ Held(i) /\ intake[i].sha = a.book /\ a.content = ContentOf[a.book][version]
      /\ UNCHANGED <<version, stamp, tree, rows, progress, envelope>>
    BY IngestAtBook DEF MarkExtracted
<1>1. Moved(a, b, "drop")
    BY <1>0, GotoActs DEF MarkExtracted, Pc
<1>2. /\ intake'[i] # NoIntake /\ intake'[i].sha = intake[i].sha
      /\ intake'[i].extractor = intake[i].extractor /\ intake'[i].status = "extracted"
      /\ \A j \in Id : j # i => intake'[j] = intake[j]
    BY <1>0, RowUpdates DEF MarkExtracted, Marked
<1>3. Filed(i)
    BY <1>0 DEF SoundInv
<1>4. Filed(i)'
    BY <1>0, <1>2, <1>3 DEF Filed, FiledBook, ReadSince, Read, Held
<1>5. Whole(i)'
    BY <1>2 DEF Whole, WholeTree, WholeRows
<1>6. IngestInv("worker")'
    BY <1>0, <1>1, <1>2 DEF Moved, IngestInv, Work, Built, Embedding, Held
<1>7. PassInv("worker")'
    BY <1>0, <1>1, <1>6, IngestPass DEF Moved, Embedding
<1> QED
    BY <1>0, <1>2, <1>4, <1>5, <1>7, BookStep DEF Quiet, InReset, Untouched

\* The state of the run takes the place of the last one's.
LEMMA SoundRecordParse ==
    ASSUME CarefulUse, Types, Alone, SoundInv, IngestStep, RecordParse
    PROVE  SoundInv'
<1> DEFINE a == act["worker"]
           b == act'["worker"]
           to == At("structure", NoModel, FALSE)
<1> PICK i : i = a.id
    OBVIOUS
<1>0. /\ "worker" \in Process /\ TypeOK /\ Quiet /\ Only("worker") /\ OtherIdle("worker")
      /\ a.pass = "ingest" /\ a.pc = "parsed" /\ IngestInv("worker") /\ act \in [Process -> Act]
      /\ i \in Id /\ Held(i) /\ intake[i].sha = a.book /\ a.content = ContentOf[a.book][version]
      /\ UNCHANGED <<version, stamp, tree, rows, intake, envelope>>
    BY IngestAtBook DEF RecordParse, Work
<1>1. Moved(a, b, "stamp")
    BY <1>0, GotoActs DEF RecordParse, Pc
<1>2. to.stage = "structure" /\ ~VouchedBy(to)
    BY DEF At, VouchedBy
<1>3. progress' = [progress EXCEPT ![i] = to]
    BY <1>2 DEF RecordParse, SetState, CarefulUse
<1> HIDE DEF to
<1>4. ~VouchedBy(progress'[i]) /\ \A j \in Id : j # i => progress'[j] = progress[j]
    BY <1>0, <1>2, <1>3 DEF TypeOK
<1>5. Filed(i)' /\ Whole(i)'
    BY <1>4 DEF Filed, FiledBook, Whole, WholeTree, WholeRows
<1>6. IngestInv("worker")'
    BY <1>0, <1>1, <1>4 DEF Moved, IngestInv, Work, Built, Embedding, Held, Vouched
<1>7. PassInv("worker")'
    BY <1>0, <1>1, <1>6, IngestPass DEF Moved, Embedding
<1> QED
    BY <1>0, <1>4, <1>5, <1>7, BookStep DEF Quiet, InReset, Untouched

LEMMA SoundStamp ==
    ASSUME CarefulUse, Types, Alone, SoundInv, IngestStep, StampExtraction
    PROVE  SoundInv'
<1> DEFINE a == act["worker"]
           b == act'["worker"]
<1> PICK i : i = a.id
    OBVIOUS
<1>0. /\ "worker" \in Process /\ TypeOK /\ Quiet /\ Only("worker") /\ OtherIdle("worker")
      /\ a.pass = "ingest" /\ a.pc = "stamp" /\ IngestInv("worker") /\ act \in [Process -> Act]
      /\ i \in Id /\ Held(i) /\ intake[i].sha = a.book /\ a.content = ContentOf[a.book][version]
      /\ UNCHANGED <<version, stamp, tree, rows, progress, envelope>>
    BY IngestAtBook DEF StampExtraction, Work
<1>1. Moved(a, b, "store")
    BY <1>0, GotoActs DEF StampExtraction, Pc
<1>2. /\ intake'[i] # NoIntake /\ intake'[i].sha = intake[i].sha
      /\ intake'[i].extractor = version /\ intake'[i].status = intake[i].status
      /\ \A j \in Id : j # i => intake'[j] = intake[j]
    BY <1>0, RowUpdates DEF StampExtraction
<1>3. ~Vouched(i)
    BY <1>0 DEF IngestInv, Built, Work
<1>4. Filed(i)' /\ Whole(i)'
    BY <1>0, <1>3 DEF Filed, FiledBook, Whole, WholeTree, WholeRows, Vouched
<1>5. IngestInv("worker")'
    BY <1>0, <1>1, <1>2 DEF Moved, IngestInv, Work, Built, Embedding, Held, Vouched
<1>6. PassInv("worker")'
    BY <1>0, <1>1, <1>5, IngestPass DEF Moved, Embedding
<1> QED
    BY <1>0, <1>2, <1>4, <1>6, BookStep DEF Quiet, InReset, Untouched

LEMMA SoundStore ==
    ASSUME CarefulUse, Types, Alone, SoundInv, IngestStep,
           NEW how \in {"stored", "removed", "left"}, StoreEnvelope(how)
    PROVE  SoundInv'
<1> DEFINE a == act["worker"]
           b == act'["worker"]
<1> PICK i : i = a.id
    OBVIOUS
<1>0. /\ "worker" \in Process /\ TypeOK /\ Quiet /\ Only("worker") /\ OtherIdle("worker")
      /\ a.pass = "ingest" /\ a.pc = "store" /\ IngestInv("worker") /\ act \in [Process -> Act]
      /\ i \in Id /\ Held(i) /\ intake[i].sha = a.book /\ a.content = ContentOf[a.book][version]
      /\ UNCHANGED <<version, stamp, tree, rows, progress, intake>>
    BY IngestAtBook DEF StoreEnvelope, catalog, Work
<1>1. how \in {"stored", "removed"}
    BY DEF StoreEnvelope, CarefulUse
<1>2. Moved(a, b, "path") \/ Moved(a, b, "metadata")
    BY <1>0, <1>1, GotoActs DEF StoreEnvelope, Pc
<1>3. envelope'[i].of \in {NoContent, a.content} /\ \A j \in Id : j # i => envelope'[j] = envelope[j]
    BY <1>0, <1>1 DEF StoreEnvelope, StoreOutcome, NoEnvelope, TypeOK
<1>4. ~Vouched(i)
    BY <1>0 DEF IngestInv, Built, Work
<1>5. Filed(i)' /\ Whole(i)'
    BY <1>0, <1>4 DEF Filed, FiledBook, Whole, WholeTree, WholeRows, Vouched
<1>6. IngestInv("worker")'
    BY <1>0, <1>2, <1>3 DEF Moved, IngestInv, Work, Built, Embedding, Held, Vouched
<1>7. PassInv("worker")'
    BY <1>0, <1>2, <1>6, IngestPass DEF Moved, Embedding
<1> QED
    BY <1>0, <1>3, <1>5, <1>7, BookStep DEF Quiet, InReset, Untouched

LEMMA SoundPath ==
    ASSUME CarefulUse, Types, Alone, SoundInv, IngestStep, RecordPath
    PROVE  SoundInv'
<1> DEFINE a == act["worker"]
           b == act'["worker"]
<1> PICK i : i = a.id
    OBVIOUS
<1>0. /\ "worker" \in Process /\ TypeOK /\ Quiet /\ Only("worker") /\ OtherIdle("worker")
      /\ a.pass = "ingest" /\ a.pc = "path" /\ IngestInv("worker") /\ act \in [Process -> Act]
      /\ i \in Id /\ Held(i) /\ intake[i].sha = a.book /\ a.content = ContentOf[a.book][version]
      /\ UNCHANGED <<version, stamp, tree, rows, progress, envelope>>
    BY IngestAtBook DEF RecordPath, Work
<1>1. Moved(a, b, "metadata")
    BY <1>0, GotoActs DEF RecordPath, Pc
<1>2. /\ intake'[i] # NoIntake /\ intake'[i].sha = intake[i].sha
      /\ intake'[i].extractor = intake[i].extractor /\ intake'[i].status = intake[i].status
      /\ \A j \in Id : j # i => intake'[j] = intake[j]
    BY <1>0, RowUpdates DEF RecordPath
<1>3. ~Vouched(i)
    BY <1>0 DEF IngestInv, Built, Work
<1>4. Filed(i)' /\ Whole(i)'
    BY <1>0, <1>3 DEF Filed, FiledBook, Whole, WholeTree, WholeRows, Vouched
<1>5. IngestInv("worker")'
    BY <1>0, <1>1, <1>2 DEF Moved, IngestInv, Work, Built, Embedding, Held, Vouched
<1>6. PassInv("worker")'
    BY <1>0, <1>1, <1>5, IngestPass DEF Moved, Embedding
<1> QED
    BY <1>0, <1>2, <1>4, <1>6, BookStep DEF Quiet, InReset, Untouched

\* A vouched book that has been read by this extractor all over.
LEMMA FreshlyFiled ==
    ASSUME TypeOK, NEW row, row # NoIntake, row.extractor = version, row.sha \in Book,
           NEW of, of \in {NoContent, Read(row, version)}, NEW pr
    PROVE  /\ FiledBook(row, pr, of, Read(row, version), version)
           /\ ReadSince(row, version, Read(row, version))
<1>1. version \in version..version /\ version \in 1..version
    BY StoresAssumption DEF TypeOK, Version
<1> QED
    BY <1>1 DEF FiledBook, ReadSince

LEMMA SoundHold ==
    ASSUME CarefulUse, Types, Alone, SoundInv, IngestStep, HoldForMetadata
    PROVE  SoundInv'
<1> DEFINE a == act["worker"]
           b == act'["worker"]
<1> PICK i : i = a.id
    OBVIOUS
<1>0. /\ "worker" \in Process /\ TypeOK /\ Quiet /\ Only("worker") /\ OtherIdle("worker")
      /\ a.pass = "ingest" /\ a.pc = "metadata" /\ IngestInv("worker")
      /\ i \in Id /\ Held(i) /\ intake[i].sha = a.book /\ a.content = ContentOf[a.book][version]
      /\ a.book \in Book
      /\ UNCHANGED <<version, stamp, tree, rows, intake, envelope>>
    BY IngestAtBook DEF HoldForMetadata, Work
<1>1. b.pass = "none" /\ b.pc = "idle"
    BY <1>0, EndPass DEF HoldForMetadata
<1>2. \A j \in Id : j # i => progress'[j] = progress[j]
    BY <1>0 DEF HoldForMetadata, SetState, TypeOK
<1>3. /\ intake[i].extractor = version /\ envelope[i].of \in {NoContent, Read(intake[i], version)}
      /\ tree[i] = Read(intake[i], version) /\ intake[i].status # "embedded"
    BY <1>0 DEF IngestInv, Built, Work, Read
<1>4. Filed(i)'
    BY <1>0, <1>3, FreshlyFiled DEF Filed, Held
<1>5. Whole(i)'
    BY <1>0, <1>3 DEF Whole, WholeTree, WholeRows
<1>6. PassInv("worker")'
    BY <1>1 DEF PassInv, IngestInv, MaintenanceInv, EmbedInv
<1> QED
    BY <1>0, <1>2, <1>4, <1>5, <1>6, BookStep DEF Quiet, InReset, Untouched

LEMMA SoundPassMetadata ==
    ASSUME CarefulUse, Types, Alone, SoundInv, IngestStep, PassMetadata
    PROVE  SoundInv'
<1> DEFINE a == act["worker"]
           b == act'["worker"]
<1>0. /\ "worker" \in Process /\ TypeOK /\ Quiet /\ Only("worker") /\ OtherIdle("worker")
      /\ a.pass = "ingest" /\ a.pc = "metadata" /\ IngestInv("worker") /\ act \in [Process -> Act]
      /\ UNCHANGED <<version, stamp, tree, rows, intake, progress, envelope>>
    BY IngestSetting DEF PassMetadata, catalog, TypeOK
<1>1. Moved(a, b, "chunk")
    BY <1>0, GotoActs DEF PassMetadata, Pc
<1>2. IngestInv("worker")'
    BY <1>0, <1>1 DEF Moved, IngestInv, Work, Built, Embedding, Held, Vouched
<1>3. PassInv("worker")'
    BY <1>0, <1>1, <1>2, IngestPass DEF Moved, Embedding
<1> QED
    BY <1>0, <1>3, NoBookStep

LEMMA SoundIngestStep ==
    ASSUME CarefulUse, Types, Alone, RemoveInv, SoundInv, IngestStep
    PROVE  SoundInv'
BY SoundExtract, SoundCompare, SoundRestamp, SoundRegister, SoundMark, SoundRecordParse, SoundStamp,
   SoundStore, SoundPath, SoundHold, SoundPassMetadata DEF IngestStep

\* What the invariants say while a pass writes a book.
LEMMA BookSetting ==
    ASSUME CarefulUse, Types, Alone, SoundInv, NEW p \in Process, NEW i, i = act[p].id,
           act[p].pc \in {"drop", "insert", "chunk", "scan", "promote", "record"} \cup Embedding
    PROVE  /\ TypeOK /\ act \in [Process -> Act] /\ OtherIdle(p) /\ i \in Id /\ PassInv(p)
           /\ Filed(i) /\ Whole(i)
           /\ ~InReset /\ (act["writer"].pc \in {"insert", "append"} => act["writer"].id = i)
           /\ act[p].pc \notin {"insert", "append"} => Quiet
           /\ act[p].pass = "ingest" => Quiet
           /\ ShapeOf(act[p]) /\ (act[p].pc \in {"drop", "insert"} => act[p].content \in Content)
           /\ p = "worker" <=> act[p].pass = "ingest"
<1>1. /\ TypeOK /\ act \in [Process -> Act] /\ i \in Id /\ PassInv(p) /\ Filed(i) /\ Whole(i)
      /\ ShapeOf(act[p]) /\ (act[p].pc \in {"drop", "insert"} => act[p].content \in Content)
    BY ActType DEF Types, TypeOK, SoundInv, Named, AtBook, Work, Embedding
<1>2. act[p].pc # "idle"
    BY DEF Embedding
<1>3. OtherIdle(p)
    BY <1>2, OtherIsIdle DEF CarefulUse
<1>4. p # "writer" => act["writer"].pc = "idle"
    BY <1>3 DEF OtherIdle, Process, Idle
<1>5. ~InReset /\ (act["writer"].pc \in {"insert", "append"} => act["writer"].id = i)
      /\ (act[p].pc \notin {"insert", "append"} => Quiet)
    BY <1>4 DEF InReset, Embedding, Quiet
<1>6. p = "worker" <=> act[p].pass = "ingest"
    BY <1>1, <1>2 DEF Types, Shapes, Process, ShapeOf, Embedding
<1>7. act[p].pass = "ingest" => Quiet
    BY <1>4, <1>6 DEF Quiet
<1> QED
    BY <1>1, <1>3, <1>5, <1>6, <1>7

\* The readings an extractor and its successors made of a row.
LEMMA ReadBounds ==
    ASSUME TypeOK, NEW row, row.extractor \in 1..version
    PROVE  /\ ReadSince(row, version, Read(row, row.extractor))
           /\ ReadSince(row, version, Read(row, version))
<1>1. version \in Nat /\ row.extractor \in Nat /\ row.extractor <= version
    BY StoresAssumption DEF TypeOK, Version
<1>2. row.extractor \in row.extractor..version /\ version \in row.extractor..version
    BY <1>1
<1> QED
    BY <1>2 DEF ReadSince

LEMMA SoundDropTree ==
    ASSUME CarefulUse, Types, Alone, SoundInv, NEW p \in Process, DropTree(p)
    PROVE  SoundInv'
<1> DEFINE a == act[p]
           b == act'[p]
<1> PICK i : i = a.id
    OBVIOUS
<1>0. /\ TypeOK /\ act \in [Process -> Act] /\ OtherIdle(p) /\ i \in Id /\ PassInv(p) /\ a.pc = "drop"
      /\ Filed(i) /\ Whole(i) /\ ~InReset /\ Quiet /\ ShapeOf(a)
      /\ UNCHANGED <<version, stamp, intake, progress, envelope, rows>>
      /\ (p = "worker" <=> a.pass = "ingest")
    BY BookSetting DEF DropTree, env, catalog
<1>1. Moved(a, b, "insert") /\ Only(p) /\ a.pass \in {"ingest", "rebuild"}
    BY <1>0, GotoActs DEF DropTree, Pc, ShapeOf, Embedding
<1>2. tree'[i] = NoContent /\ \A j \in Id : j # i => tree'[j] = tree[j]
    BY <1>0 DEF DropTree, TypeOK
<1>3. Filed(i)'
    BY <1>0, <1>2 DEF Filed, FiledBook
<1>4. CASE a.pass = "ingest"
    <2>1. i \in Id /\ Held(i) /\ intake[i].sha = a.book /\ intake[i].status # "embedded"
          /\ a.content = ContentOf[a.book][version]
        BY <1>0, <1>4 DEF PassInv, IngestInv, Work
    <2>2. Whole(i)'
        BY <1>0, <2>1 DEF Whole, WholeTree, WholeRows
    <2>3. IngestInv(p)'
        BY <1>0, <1>1, <1>2, <2>1 DEF Moved, IngestInv, Work, Built, Embedding, Held
    <2>4. p = "worker"
        BY <1>0, <1>4
    <2>5. PassInv(p)'
        BY <1>1, <1>4, <2>3, <2>4, IngestPass DEF Moved, Embedding
    <2> QED
        BY <1>0, <1>1, <1>2, <1>3, <2>2, <2>5, BookStep DEF Quiet, Untouched
<1>5. CASE a.pass = "rebuild"
    <2>1. p = "writer"
        BY <1>0, <1>5 DEF Process
    <2>2. WholeRows(intake[i], progress[i], rows[i], stamp, version)
        BY <1>0, Settled
    <2>3. Whole(i)'
        BY <1>0, <1>1, <1>5, <2>1, <2>2 DEF Whole, InHand, Moved
    <2>4. PassInv(p)'
        BY <1>0, <1>1, <1>2, <1>5 DEF Moved, PassInv, IngestInv, MaintenanceInv, EmbedInv, Embedding
    <2> QED
        BY <1>0, <1>1, <1>2, <1>3, <2>3, <2>4, BookStep DEF Quiet, Untouched
<1> QED
    BY <1>1, <1>4, <1>5

LEMMA SoundInsertTree ==
    ASSUME CarefulUse, Types, Alone, SoundInv, NEW p \in Process, InsertTree(p)
    PROVE  SoundInv'
<1> DEFINE a == act[p]
           b == act'[p]
<1> PICK i : i = a.id
    OBVIOUS
<1>0. /\ TypeOK /\ act \in [Process -> Act] /\ OtherIdle(p) /\ i \in Id /\ PassInv(p) /\ a.pc = "insert"
      /\ Filed(i) /\ Whole(i) /\ ~InReset /\ (act["writer"].pc \in {"insert", "append"} => act["writer"].id = i)
      /\ a.content \in Content
      /\ UNCHANGED <<version, stamp, intake, progress, envelope, rows>>
      /\ (p = "worker" <=> a.pass = "ingest") /\ (p = "worker" => Quiet)
    BY BookSetting DEF InsertTree, env, catalog
<1>1. /\ Only(p)
      /\ \/ a.pass = "rebuild" /\ b.pass = "rebuild" /\ b.pc = "next" /\ p = "writer"
         \/ a.pass = "ingest" /\ Moved(a, b, "parsed") /\ p = "worker"
         \/ a.pass = "ingest" /\ tree[i] # NoContent
    BY InsertActs
<1>2. tree[i] = NoContent
    BY <1>0, <1>1 DEF PassInv, IngestInv, MaintenanceInv
<1>3. tree'[i] = a.content /\ \A j \in Id : j # i => tree'[j] = tree[j]
    BY <1>0, <1>2 DEF InsertTree, TypeOK
<1>4. a.content # NoContent
    BY <1>0, StoresAssumption
<1>5. CASE a.pass = "ingest"
    <2>1. Held(i) /\ intake[i].sha = a.book /\ intake[i].status # "embedded"
          /\ a.content = ContentOf[a.book][version]
        BY <1>0, <1>5 DEF PassInv, IngestInv, Work
    <2>2. a.content = Read(intake[i], version)
        BY <2>1 DEF Read
    <2>3. Filed(i)'
        <3>1. CASE Vouched(i)
            <4>1. intake[i].extractor \in 1..version /\ envelope[i].of \in {NoContent, Read(intake[i], intake[i].extractor)}
                BY <1>0, <2>1, <3>1 DEF Filed, FiledBook, Vouched, Held
            <4>2. ReadSince(intake[i], version, a.content)
                BY <1>0, <2>2, <4>1, ReadBounds
            <4> QED
                BY <1>0, <1>3, <4>1, <4>2 DEF Filed, FiledBook
        <3>2. CASE ~Vouched(i)
            BY <1>0, <3>2 DEF Filed, FiledBook, Vouched
        <3> QED
            BY <3>1, <3>2
    <2>4. Whole(i)'
        BY <1>0, <2>1 DEF Whole, WholeTree, WholeRows
    <2>5. p = "worker" /\ Moved(a, b, "parsed")
        BY <1>0, <1>1, <1>2, <1>5
    <2>6. IngestInv(p)'
        BY <1>0, <1>3, <2>1, <2>5 DEF Moved, IngestInv, Work, Built, Embedding, Held
    <2>7. PassInv(p)'
        BY <1>5, <2>5, <2>6, IngestPass DEF Moved, Embedding
    <2> QED
        BY <1>0, <1>1, <1>3, <2>3, <2>4, <2>7, BookStep DEF Quiet, Untouched
<1>6. CASE a.pass = "rebuild"
    <2>1. p = "writer" /\ b.pc = "next" /\ b.pass = "rebuild"
        BY <1>1, <1>6
    <2>2. a.content = envelope[i].of
        BY <1>0, <1>6 DEF PassInv, MaintenanceInv
    <2>3. Filed(i)'
        <3>1. CASE intake[i] # NoIntake /\ Vouched(i)
            <4>1. intake[i].extractor \in 1..version /\ envelope[i].of = Read(intake[i], intake[i].extractor)
                BY <1>0, <1>4, <2>2, <3>1 DEF Filed, FiledBook, Vouched
            <4>2. ReadSince(intake[i], version, a.content)
                BY <1>0, <2>2, <4>1, ReadBounds
            <4> QED
                BY <1>0, <1>3, <4>1, <4>2 DEF Filed, FiledBook
        <3>2. CASE ~(intake[i] # NoIntake /\ Vouched(i))
            BY <1>0, <3>2 DEF Filed, FiledBook, Vouched
        <3> QED
            BY <3>1, <3>2
    <2>4. WholeRows(intake[i], progress[i], rows[i], stamp, version)
        BY <1>0, <1>6, <2>1 DEF Whole, InHand
    <2>5. Whole(i)'
        BY <1>0, <1>3, <1>4, <2>4 DEF Whole, WholeTree
    <2>6. PassInv(p)'
        BY <2>1 DEF PassInv, IngestInv, MaintenanceInv, EmbedInv, Embedding
    <2> QED
        BY <1>0, <1>1, <1>3, <2>3, <2>5, <2>6, BookStep DEF Untouched
<1> QED
    BY <1>1, <1>5, <1>6

\* A tree that is planned is the one that is embedded.
LEMMA SoundPlanChunks ==
    ASSUME CarefulUse, Types, Alone, SoundInv, NEW p \in Process, PlanChunks(p)
    PROVE  SoundInv'
<1> DEFINE a == act[p]
           b == act'[p]
<1> PICK i : i = a.id
    OBVIOUS
<1>0. /\ TypeOK /\ act \in [Process -> Act] /\ OtherIdle(p) /\ i \in Id /\ PassInv(p) /\ a.pc = "chunk"
      /\ Quiet
      /\ UNCHANGED <<version, stamp, intake, progress, envelope, rows, tree>>
    BY BookSetting DEF PlanChunks, env, catalog, corpus
<1>1. /\ Only(p) /\ a.pass \in {"ingest", "advance", "resume"}
      /\ b.pass = a.pass /\ b.id = a.id /\ b.content = a.content /\ b.book = a.book /\ b.targets = a.targets
      /\ \/ tree[i] = NoContent /\ a.pass = "resume" /\ b.pc = "next"
         \/ tree[i] = NoContent /\ a.pass # "resume" /\ b.pc = "promote"
         \/ tree[i] \in Content /\ b.left = Chunks(tree[i]) /\ b.pc = "reconcile"
    BY PlanActs
<1>2. a.pass # "resume" => tree[i] # NoContent
    <2>1. a.pass = "ingest" => a.content = ContentOf[a.book][version] /\ a.book \in Book /\ tree[i] = a.content
        BY <1>0, ActType DEF PassInv, IngestInv, Built, Work, Named
    <2> QED
        BY <1>0, <1>1, <2>1, ReadType DEF PassInv, MaintenanceInv
<1>3. \/ a.pass = "resume" /\ b.pc = "next"
      \/ tree[i] # NoContent /\ b.left = Chunks(tree[i]) /\ b.pc = "reconcile"
    BY <1>1, <1>2, StoresAssumption
<1>4. IngestInv(p)'
    BY <1>0, <1>1, <1>3 DEF PassInv, IngestInv, Work, Built, Embedding, Held, Vouched
<1>5. MaintenanceInv(p)'
    BY <1>0, <1>1, <1>3 DEF PassInv, MaintenanceInv, Vouched, WithStatus, Held
<1>6. EmbedInv(p)'
    BY <1>0, <1>1, <1>3 DEF EmbedInv, Embedding
<1> QED
    BY <1>0, <1>1, <1>4, <1>5, <1>6, NoBookStep DEF PassInv

LEMMA SoundScanRows ==
    ASSUME CarefulUse, Types, Alone, SoundInv, NEW p \in Process, ScanRows(p)
    PROVE  SoundInv'
<1> DEFINE a == act[p]
           b == act'[p]
<1> PICK i : i = a.id
    OBVIOUS
<1>0. /\ TypeOK /\ OtherIdle(p) /\ Quiet /\ a.pc = "scan"
      /\ UNCHANGED <<version, stamp, intake, progress, envelope, rows, tree>>
    BY BookSetting DEF ScanRows, env, catalog, corpus
<1>1. /\ Only(p) /\ b.pass = "reembed" /\ b.id = i /\ b.left = {r.chunk : r \in rows[i]}
      /\ b.pc = (IF b.left = {} THEN "next" ELSE "reconcile")
    BY ScanActs
<1>2. b.pc \in {"next", "reconcile"} /\ (b.pc = "reconcile" => b.left # {})
    BY <1>1
<1>3. PassInv(p)'
    BY <1>0, <1>1, <1>2 DEF PassInv, IngestInv, MaintenanceInv, EmbedInv, Embedding
<1> QED
    BY <1>0, <1>1, <1>3, NoBookStep

\* An index that takes its first stamp has no rows, so no book in it calls
\* itself embedded.
LEMMA SoundReconcile ==
    ASSUME CarefulUse, Types, Alone, IndexInv, SoundInv, NEW p \in Process, Reconcile(p)
    PROVE  SoundInv'
<1> DEFINE a == act[p]
           b == act'[p]
<1> PICK i : i = a.id
    OBVIOUS
<1>0. /\ TypeOK /\ act \in [Process -> Act] /\ OtherIdle(p) /\ i \in Id /\ PassInv(p) /\ a.pc = "reconcile"
      /\ Quiet /\ ~InReset
      /\ UNCHANGED <<version, intake, progress, envelope, rows, tree>>
    BY BookSetting DEF Reconcile, env, catalog, Embedding
<1>1. Moved(a, b, "delete") /\ Only(p)
    BY <1>0, GotoActs DEF Reconcile, Pc
<1>2. stamp' = stamp \/ stamp = NoModel
    BY DEF Reconcile, Accepts
<1>3. Stamped
    BY <1>0 DEF IndexInv, InReset
<1>4. ASSUME NEW j \in Id PROVE WholeRows(intake[j], progress[j], rows[j], stamp', version)
    <2>1. WholeRows(intake[j], progress[j], rows[j], stamp, version)
        BY <1>0, Settled
    <2>2. CASE stamp' = stamp
        BY <2>1, <2>2
    <2>3. CASE stamp = NoModel
        <3>1. rows[j] = {}
            BY <1>0, <1>3, <2>3, UnstampedIsEmpty
        <3>2. \A c \in Content : rows[j] # RowsFor(Chunks(c), stamp)
            BY <3>1, ChunksType DEF RowsFor
        <3> QED
            BY <2>1, <3>2 DEF WholeRows
    <2> QED
        BY <1>2, <2>2, <2>3
<1>5. ASSUME NEW j \in Id PROVE Filed(j)' /\ Whole(j)'
    <2>1. Filed(j)' /\ WholeTree(intake[j], progress[j], tree[j])
        BY <1>0, Settled DEF SoundInv, Filed
    <2> QED
        BY <1>0, <1>4, <2>1 DEF Whole
<1>6. IngestInv(p)'
    BY <1>0, <1>1 DEF Moved, PassInv, IngestInv, Work, Built, Embedding, Held, Vouched
<1>7. MaintenanceInv(p)'
    BY <1>0, <1>1 DEF Moved, PassInv, MaintenanceInv, Vouched, WithStatus, Held
<1>8. EmbedInv(p)'
    BY <1>0, <1>1 DEF Moved, PassInv, EmbedInv, Embedding
<1> QED
    BY <1>0, <1>1, <1>5, <1>6, <1>7, <1>8, SoundFrame DEF PassInv

\* A run that ends while it embeds leaves the model it was tried with on a
\* book that is stamped and calls itself unembedded.
LEMMA SoundGiveUp ==
    ASSUME CarefulUse, Types, Alone, SoundInv, NEW p \in Process, act[p].pc \in Embedding,
           Only(p), act'[p] = Idle, NEW to \in Progress, VouchedBy(to),
           \/ act[p].pass \in {"ingest", "advance"} /\ SetState(act[p].id, to)
           \/ UNCHANGED progress,
           UNCHANGED <<version, stamp, intake, envelope, rows, tree>>,
           act[p].pass = "reembed" => act[p].pc = "reconcile"
    PROVE  SoundInv'
<1> DEFINE a == act[p]
           b == act'[p]
<1> PICK i : i = a.id
    OBVIOUS
<1>0. /\ TypeOK /\ OtherIdle(p) /\ i \in Id /\ PassInv(p) /\ ShapeOf(a)
      /\ ~InReset /\ (act["writer"].pc \in {"insert", "append"} => act["writer"].id = i)
      /\ Filed(i) /\ Whole(i)
    BY BookSetting
<1>1. a.pass \in {"ingest", "advance", "resume", "reembed"}
    BY <1>0 DEF ShapeOf, Work, Embedding
<1>2. \A j \in Id : j # i => progress'[j] = progress[j]
    BY <1>0 DEF SetState, TypeOK
<1>3. ASSUME a.pass = "ingest" PROVE Filed(i)' /\ Whole(i)'
    <2>1. /\ Held(i) /\ intake[i].extractor = version /\ envelope[i].of \in {NoContent, Read(intake[i], version)}
          /\ tree[i] = Read(intake[i], version) /\ intake[i].status # "embedded" /\ intake[i].sha \in Book
        BY <1>0, <1>3, ActType DEF PassInv, IngestInv, Built, Work, Read, Embedding, Named
    <2>2. Filed(i)'
        BY <1>0, <2>1, FreshlyFiled DEF Filed, Held
    <2>3. Whole(i)'
        BY <2>1 DEF Whole, WholeTree, WholeRows
    <2> QED
        BY <2>2, <2>3
<1>4. ASSUME a.pass = "advance" PROVE Filed(i)' /\ Whole(i)'
    <2>1. Vouched(i) /\ intake[i].status # "embedded"
        BY <1>0, <1>4 DEF PassInv, MaintenanceInv, Embedding
    <2>2. Filed(i)'
        BY <1>0, <2>1 DEF Filed, FiledBook, Vouched
    <2>3. Whole(i)'
        BY <2>1 DEF Whole, WholeTree, WholeRows
    <2> QED
        BY <2>2, <2>3
<1>5. ASSUME a.pass = "resume" PROVE Filed(i)' /\ Whole(i)'
    <2>1. progress' = progress /\ intake[i].status # "embedded"
        BY <1>0, <1>5 DEF PassInv, MaintenanceInv, Embedding
    <2>2. Filed(i)'
        BY <1>0, <2>1 DEF Filed
    <2>3. Whole(i)'
        BY <2>1 DEF Whole, WholeTree, WholeRows
    <2> QED
        BY <2>2, <2>3
<1>6. ASSUME a.pass = "reembed" PROVE Filed(i)' /\ Whole(i)'
    <2>1. progress' = progress /\ Quiet
        BY <1>6, BookSetting
    <2> QED
        BY <1>0, <2>1, UntouchedBook DEF Untouched
<1>7. Filed(i)' /\ Whole(i)'
    BY <1>1, <1>3, <1>4, <1>5, <1>6
<1>8. b.pass = "none" /\ b.pc = "idle"
    BY DEF Idle
<1>9. PassInv(p)'
    BY <1>8 DEF PassInv, IngestInv, MaintenanceInv, EmbedInv
<1> QED
    BY <1>0, <1>2, <1>7, <1>9, BookStep DEF Untouched

LEMMA TriedVouched ==
    ASSUME TypeOK, NEW done \in BOOLEAN
    PROVE  At("embed", model, done) \in Progress /\ VouchedBy(At("embed", model, done))
BY StoresAssumption DEF TypeOK, At, VouchedBy, Progress, Stage

LEMMA SoundRefused ==
    ASSUME CarefulUse, Types, Alone, SoundInv, NEW p \in Process, ReconcileRefused(p)
    PROVE  SoundInv'
<1>1. act[p].pc = "reconcile" /\ Only(p) /\ act'[p] = Idle /\ TypeOK
      /\ UNCHANGED <<version, stamp, intake, envelope, rows, tree>>
    BY EndPass DEF ReconcileRefused, env, corpus, Types
<1>2. \/ act[p].pass \in {"ingest", "advance"} /\ SetState(act[p].id, At("embed", model, FALSE))
      \/ UNCHANGED progress
    BY DEF ReconcileRefused
<1>3. At("embed", model, FALSE) \in Progress /\ VouchedBy(At("embed", model, FALSE))
    BY <1>1, TriedVouched
<1> QED
    BY <1>1, <1>2, <1>3, SoundGiveUp DEF Embedding

\* The rows of a book that is not embedded may go; a re-embedding holds the
\* chunks of those it takes away.
LEMMA SoundDeleteRows ==
    ASSUME CarefulUse, Types, Alone, SoundInv, NEW p \in Process, DeleteRows(p)
    PROVE  SoundInv'
<1> DEFINE a == act[p]
           b == act'[p]
<1> PICK i : i = a.id
    OBVIOUS
<1>0. /\ TypeOK /\ act \in [Process -> Act] /\ OtherIdle(p) /\ i \in Id /\ PassInv(p) /\ a.pc = "delete"
      /\ ShapeOf(a) /\ Quiet /\ ~InReset /\ Filed(i)
      /\ UNCHANGED <<version, stamp, intake, progress, envelope, tree>>
      /\ (p = "worker" <=> a.pass = "ingest")
    BY BookSetting DEF DeleteRows, env, catalog, corpus, Embedding
<1>1. Moved(a, b, "append") /\ Only(p)
    BY <1>0, GotoActs DEF DeleteRows, Pc
<1>2. rows'[i] = {} /\ \A j \in Id : j # i => rows'[j] = rows[j]
    BY <1>0 DEF DeleteRows, TypeOK
<1>3. Filed(i)'
    BY <1>0 DEF Filed
<1>4. WholeTree(intake[i], progress[i], tree[i]) /\ WholeRows(intake[i], progress[i], rows[i], stamp, version)
    BY <1>0, Settled
<1>5. IngestInv(p)'
    BY <1>0, <1>1 DEF Moved, PassInv, IngestInv, Work, Built, Embedding, Held, Vouched
<1>6. MaintenanceInv(p)'
    BY <1>0, <1>1 DEF Moved, PassInv, MaintenanceInv, Vouched, WithStatus, Held
<1>7. a.pass \in {"ingest", "advance", "resume", "reembed"}
    BY <1>0 DEF ShapeOf, Work, Embedding
<1>8. CASE a.pass # "reembed"
    <2>1. intake[i].status # "embedded" /\ tree[i] # NoContent /\ a.left = Chunks(tree[i])
        BY <1>0, <1>7, <1>8 DEF PassInv, IngestInv, MaintenanceInv, EmbedInv, Work, Embedding
    <2>2. Whole(i)'
        BY <1>0, <2>1 DEF Whole, WholeTree, WholeRows
    <2>3. EmbedInv(p)'
        BY <1>0, <1>1, <1>2, <1>8, <2>1 DEF Moved, EmbedInv
    <2> QED
        BY <1>0, <1>1, <1>2, <1>3, <1>5, <1>6, <2>2, <2>3, BookStep DEF PassInv, Quiet, Untouched
<1>9. CASE a.pass = "reembed"
    <2>1. p = "writer" /\ a.left = {r.chunk : r \in rows[i]}
        BY <1>0, <1>9 DEF PassInv, EmbedInv, Process
    <2>2. Whole(i)'
        BY <1>0, <1>1, <1>4, <1>9, <2>1 DEF Whole, InHand, Moved
    <2>3. WholeRows(intake[i], progress[i], RowsFor(a.left, stamp), stamp, version)
        <3>1. ASSUME NEW c \in Content, rows[i] = RowsFor(Chunks(c), stamp)
              PROVE  RowsFor(a.left, stamp) = RowsFor(Chunks(c), stamp)
            <4>1. a.left = Chunks(c)
                <5>1. \A k \in Chunks(c) : \E r \in rows[i] : r.chunk = k
                    <6>1. \A k \in Chunks(c) : [chunk |-> k, model |-> stamp] \in rows[i]
                        BY <3>1 DEF RowsFor
                    <6>2. \A k : [chunk |-> k, model |-> stamp].chunk = k
                        OBVIOUS
                    <6> QED
                        BY <6>1, <6>2
                <5>2. \A r \in rows[i] : r.chunk \in Chunks(c)
                    BY <3>1 DEF RowsFor
                <5> QED
                    BY <2>1, <5>1, <5>2
            <4> QED
                BY <4>1
        <3> QED
            BY <1>4, <3>1 DEF WholeRows
    <2>4. rows'[i] \cup RowsFor(a.left, stamp) = RowsFor(a.left, stamp)
        BY <1>2
    <2>5. EmbedInv(p)'
        BY <1>0, <1>1, <1>9, <2>3, <2>4 DEF Moved, EmbedInv
    <2> QED
        BY <1>0, <1>1, <1>2, <1>3, <1>5, <1>6, <2>2, <2>5, BookStep DEF PassInv, Quiet, Untouched
<1> QED
    BY <1>8, <1>9

LEMMA SoundAppendRows ==
    ASSUME CarefulUse, Types, Alone, IndexInv, SoundInv, NEW p \in Process, NEW chunk \in Chunk,
           AppendRows(p, chunk)
    PROVE  SoundInv'
<1> DEFINE a == act[p]
           b == act'[p]
<1> PICK i : i = a.id
    OBVIOUS
<1>0. /\ TypeOK /\ act \in [Process -> Act] /\ OtherIdle(p) /\ i \in Id /\ PassInv(p) /\ a.pc = "append"
      /\ ~InReset /\ Filed(i) /\ Whole(i)
      /\ (act["writer"].pc \in {"insert", "append"} => act["writer"].id = i)
      /\ UNCHANGED <<version, stamp, intake, progress, envelope, tree>>
      /\ (p = "worker" <=> a.pass = "ingest")
    BY BookSetting DEF AppendRows, env, catalog, corpus, Embedding
<1>1. /\ Only(p) /\ chunk \in a.left /\ a.pass \in {"ingest", "advance", "resume", "reembed"}
      /\ b.pass = a.pass /\ b.id = a.id /\ b.content = a.content /\ b.book = a.book
      /\ b.targets = a.targets /\ b.left = a.left \ {chunk}
      /\ \/ b.pc = "append" /\ b.left # {}
         \/ b.pc = "next" /\ a.pass = "reembed" /\ b.left = {}
         \/ b.pc = "promote" /\ a.pass # "reembed" /\ b.left = {}
    BY AppendActs
<1>2. stamp = model
    BY <1>0 DEF IndexInv
<1>3. rows'[i] = rows[i] \cup {[chunk |-> chunk, model |-> stamp]} /\ \A j \in Id : j # i => rows'[j] = rows[j]
    BY <1>0, <1>2 DEF AppendRows, TypeOK
<1>4. rows'[i] \cup RowsFor(b.left, stamp) = rows[i] \cup RowsFor(a.left, stamp)
    BY <1>1, <1>3 DEF RowsFor
<1>5. b.left = {} => rows'[i] = rows'[i] \cup RowsFor(b.left, stamp)
    BY DEF RowsFor
<1>6. Filed(i)'
    BY <1>0 DEF Filed
<1>7. IngestInv(p)'
    BY <1>0, <1>1 DEF PassInv, IngestInv, Work, Built, Embedding, Held, Vouched
<1>8. MaintenanceInv(p)'
    BY <1>0, <1>1 DEF PassInv, MaintenanceInv, Vouched, WithStatus, Held
<1>9. EmbedInv(p)'
    BY <1>0, <1>1, <1>4, <1>5 DEF PassInv, EmbedInv, Embedding
<1>10. CASE a.pass # "reembed"
    <2>1. intake[i].status # "embedded"
        BY <1>0, <1>1, <1>10 DEF PassInv, IngestInv, MaintenanceInv, Work, Embedding
    <2>2. Whole(i)'
        BY <1>0, <2>1 DEF Whole, WholeTree, WholeRows
    <2> QED
        BY <1>0, <1>1, <1>3, <1>6, <1>7, <1>8, <1>9, <2>2, BookStep DEF PassInv, Untouched
<1>11. CASE a.pass = "reembed"
    <2>1. p = "writer" /\ WholeTree(intake[i], progress[i], tree[i])
        BY <1>0, <1>11 DEF Whole, InHand, Process
    <2>2. WholeRows(intake[i], progress[i], rows'[i] \cup RowsFor(b.left, stamp), stamp, version)
        BY <1>0, <1>4, <1>11 DEF PassInv, EmbedInv
    <2>3. b.pc = "append" \/ WholeRows(intake[i], progress[i], rows'[i], stamp, version)
        BY <1>1, <1>5, <2>2
    <2>4. Whole(i)'
        BY <1>0, <1>1, <1>11, <2>1, <2>3 DEF Whole, InHand
    <2> QED
        BY <1>0, <1>1, <1>3, <1>6, <1>7, <1>8, <1>9, <2>4, BookStep DEF PassInv, Untouched
<1> QED
    BY <1>10, <1>11

\* A book is called embedded once its rows are those of its tree.
LEMMA SoundPromote ==
    ASSUME CarefulUse, Types, Alone, RemoveInv, SoundInv, NEW p \in Process, Promote(p)
    PROVE  SoundInv'
<1> DEFINE a == act[p]
           b == act'[p]
<1> PICK i : i = a.id
    OBVIOUS
<1>0. /\ TypeOK /\ act \in [Process -> Act] /\ OtherIdle(p) /\ i \in Id /\ PassInv(p) /\ a.pc = "promote"
      /\ ShapeOf(a) /\ Quiet /\ ~InReset /\ Filed(i)
      /\ UNCHANGED <<version, stamp, progress, envelope, tree, rows>>
    BY BookSetting DEF Promote, env, corpus, Embedding
<1>1. /\ Only(p)
      /\ \/ Moved(a, b, "next") /\ a.pass = "resume"
         \/ Moved(a, b, "record") /\ a.pass # "resume"
    <2>1. (a.pass = "resume" /\ Goto(p, "next")) \/ (a.pass # "resume" /\ Goto(p, "record"))
        BY DEF Promote
    <2>2. "next" \in Pc /\ "record" \in Pc
        BY DEF Pc
    <2> QED
        BY <1>0, <2>1, <2>2, GotoActs
<1>2. Held(i)
    BY <1>0 DEF RemoveInv, NamedHeld, AtBook, Work
<1>3. /\ intake'[i] # NoIntake /\ intake'[i].sha = intake[i].sha
      /\ intake'[i].extractor = intake[i].extractor /\ intake'[i].status = "embedded"
      /\ \A j \in Id : j # i => intake'[j] = intake[j]
    BY <1>0, <1>2, RowUpdates DEF Promote
<1>4. \A c : ReadSince(intake'[i], version, c) <=> ReadSince(intake[i], version, c)
    BY <1>3 DEF ReadSince, Read
<1>5. Filed(i)'
    BY <1>0, <1>2, <1>3, <1>4 DEF Filed, FiledBook, Held, Read
<1>6. a.pass \in {"ingest", "advance", "resume"}
    BY <1>0 DEF ShapeOf, Work, Embedding
<1>7. tree[i] \in Content /\ tree[i] # NoContent /\ rows[i] = RowsFor(Chunks(tree[i]), stamp)
    BY <1>0, <1>6 DEF PassInv, EmbedInv, TypeOK
<1>8. Whole(i)'
    <2>1. CASE Vouched(i)
        <3>1. ReadSince(intake'[i], version, tree[i])
            BY <1>0, <1>2, <1>4, <1>7, <2>1 DEF Filed, FiledBook, Held, Vouched
        <3>2. WholeTree(intake'[i], progress[i], tree[i]) /\ WholeRows(intake'[i], progress[i], rows[i], stamp, version)
            BY <1>7, <3>1 DEF WholeTree, WholeRows
        <3> QED
            BY <1>0, <3>2 DEF Whole
    <2>2. CASE ~Vouched(i)
        BY <1>0, <2>2 DEF Whole, WholeTree, WholeRows, Vouched
    <2> QED
        BY <2>1, <2>2
<1>9. IngestInv(p)'
    BY <1>0, <1>1, <1>3 DEF Moved, PassInv, IngestInv, Work, Built, Embedding, Held, Vouched
<1>10. MaintenanceInv(p)'
    <2>1. CASE a.pass = "resume"
        <3>1. b.pass = "resume" /\ b.pc = "next" /\ b.targets = a.targets
            BY <1>1, <2>1 DEF Moved
        <3>2. a.targets \subseteq WithStatus("extracted") /\ i \notin a.targets
            BY <1>0, <2>1 DEF PassInv, MaintenanceInv
        <3>3. b.targets \subseteq WithStatus("extracted")'
            BY <1>3, <3>1, <3>2 DEF WithStatus, Held
        <3> QED
            BY <3>1, <3>3 DEF MaintenanceInv
    <2>2. CASE a.pass # "resume"
        BY <1>0, <1>1, <1>6, <2>2 DEF Moved, PassInv, MaintenanceInv, Vouched
    <2> QED
        BY <2>1, <2>2
<1>11. EmbedInv(p)'
    BY <1>0, <1>1 DEF Moved, PassInv, EmbedInv, Embedding
<1> QED
    BY <1>0, <1>1, <1>3, <1>5, <1>8, <1>9, <1>10, <1>11, BookStep DEF PassInv, Quiet, Untouched

\* The last write of a run vouches for what it wrote.
LEMMA SoundRecordEmbed ==
    ASSUME CarefulUse, Types, Alone, SoundInv, NEW p \in Process, RecordEmbed(p)
    PROVE  SoundInv'
<1> DEFINE a == act[p]
           b == act'[p]
<1> PICK i : i = a.id
    OBVIOUS
<1>0. /\ TypeOK /\ act \in [Process -> Act] /\ OtherIdle(p) /\ i \in Id /\ PassInv(p) /\ a.pc = "record"
      /\ ShapeOf(a) /\ Quiet /\ ~InReset /\ Filed(i)
      /\ UNCHANGED <<version, stamp, intake, envelope, tree, rows>>
    BY BookSetting DEF RecordEmbed, env, corpus, Embedding
<1>1. Only(p) /\ b.pass = "none" /\ b.pc = "idle"
    BY EndPass DEF RecordEmbed
<1>2. \A j \in Id : j # i => progress'[j] = progress[j]
    BY <1>0 DEF RecordEmbed, SetState, TypeOK
<1>3. WholeTree(intake[i], progress[i], tree[i]) /\ WholeRows(intake[i], progress[i], rows[i], stamp, version)
    BY <1>0, Settled
<1>4. a.pass \in {"ingest", "advance"}
    BY <1>0 DEF ShapeOf, Work, Embedding
<1>5. tree[i] \in Content /\ tree[i] # NoContent /\ rows[i] = RowsFor(Chunks(tree[i]), stamp)
    BY <1>0, <1>4 DEF PassInv, EmbedInv, TypeOK
<1>6. ASSUME a.pass = "ingest" PROVE Filed(i)' /\ Whole(i)'
    <2>1. /\ Held(i) /\ intake[i].extractor = version /\ envelope[i].of \in {NoContent, Read(intake[i], version)}
          /\ tree[i] = Read(intake[i], version) /\ intake[i].sha \in Book
        BY <1>0, <1>6, ActType DEF PassInv, IngestInv, Built, Work, Read, Embedding, Named
    <2>2. Filed(i)' /\ ReadSince(intake[i], version, tree[i])
        BY <1>0, <2>1, FreshlyFiled DEF Filed, Held
    <2>3. Whole(i)'
        BY <1>0, <1>5, <2>2 DEF Whole, WholeTree, WholeRows
    <2> QED
        BY <2>2, <2>3
<1>7. ASSUME a.pass = "advance" PROVE Filed(i)' /\ Whole(i)'
    <2>1. Vouched(i)
        BY <1>0, <1>7 DEF PassInv, MaintenanceInv
    <2>2. Filed(i)' /\ Whole(i)'
        BY <1>0, <1>3, <2>1 DEF Filed, FiledBook, Whole, WholeTree, WholeRows, Vouched
    <2> QED
        BY <2>2
<1>8. PassInv(p)'
    BY <1>1 DEF PassInv, IngestInv, MaintenanceInv, EmbedInv
<1> QED
    BY <1>0, <1>1, <1>2, <1>4, <1>6, <1>7, <1>8, BookStep DEF Quiet, Untouched

LEMMA SoundSharedStep ==
    ASSUME CarefulUse, Types, Alone, IndexInv, RemoveInv, SoundInv, NEW p \in Process, SharedStep(p)
    PROVE  SoundInv'
BY SoundDropTree, SoundInsertTree, SoundPlanChunks, SoundScanRows, SoundReconcile, SoundRefused,
   SoundDeleteRows, SoundAppendRows, SoundPromote, SoundRecordEmbed DEF SharedStep

\* A failing pass leaves the stores as they are: those it may not leave so
\* do not fail.
LEMMA SoundFail ==
    ASSUME CarefulUse, Types, Alone, SoundInv, NEW p \in Process, Fail(p)
    PROVE  SoundInv'
<1> DEFINE a == act[p]
<1>1. Only(p) /\ a.pc # "idle" /\ TypeOK /\ UNCHANGED <<version, stamp, intake, envelope, rows, tree>>
    BY FailActs DEF Fail, env, corpus, Types
<1>2. a.pass \notin {"reset", "rebuild", "reembed"} /\ ShapeOf(a)
    BY FailActs, ActType DEF CarefulUse
<1>3. act'[p] = Idle
    BY <1>2, FailActs
<1>4. CASE a.pc \in Embedding
    <2>1. \/ a.pass \in {"ingest", "advance"} /\ SetState(a.id, At("embed", model, FALSE))
          \/ UNCHANGED progress
        BY DEF Fail
    <2>2. At("embed", model, FALSE) \in Progress /\ VouchedBy(At("embed", model, FALSE))
        BY <1>1, TriedVouched
    <2> QED
        BY <1>1, <1>2, <1>3, <1>4, <2>1, <2>2, SoundGiveUp
<1>5. CASE a.pc \notin Embedding
    <2>1. progress' = progress
        BY <1>5 DEF Fail, Embedding
    <2>2. OtherIdle(p)
        BY <1>1, OtherIsIdle DEF CarefulUse
    <2>3. Quiet
        <3>1. p # "writer" => act["writer"].pc = "idle"
            BY <2>2 DEF OtherIdle, Process, Idle
        <3>2. p = "writer" => a.pc \notin {"insert", "append", "table", "demote"}
            BY <1>2, <1>5 DEF ShapeOf, Types, Shapes, Embedding
        <3> QED
            BY <3>1, <3>2 DEF Quiet
    <2>4. act'[p].pass = "none" /\ act'[p].pc = "idle"
        BY <1>3 DEF Idle
    <2>5. PassInv(p)'
        BY <2>4 DEF PassInv, IngestInv, MaintenanceInv, EmbedInv
    <2> QED
        BY <1>1, <2>1, <2>2, <2>3, <2>5, NoBookStep
<1> QED
    BY <1>4, <1>5

\* Nothing is said of a book that is not vouched for.
LEMMA Unvouched ==
    ASSUME NEW i \in Id, intake'[i] = NoIntake \/ ~VouchedBy(progress'[i])
    PROVE  Filed(i)' /\ Whole(i)'
BY DEF Filed, FiledBook, Whole, WholeTree, WholeRows

\* What the invariants say while the holder of the write mutex takes a step.
LEMMA WriterSetting ==
    ASSUME CarefulUse, Types, Alone, SoundInv, WriterStep
    PROVE  /\ "writer" \in Process /\ TypeOK /\ act \in [Process -> Act]
           /\ Only("writer") /\ OtherIdle("writer") /\ PassInv("writer")
           /\ ShapeOf(act["writer"]) /\ act["writer"].pass # "ingest"
           /\ UNCHANGED version
<1>1. "writer" \in Process /\ TypeOK /\ act \in [Process -> Act] /\ Only("writer") /\ act["writer"].pc # "idle"
    BY WriterActs DEF Process, Types, TypeOK
<1>2. OtherIdle("writer")
    BY <1>1, OtherIsIdle DEF CarefulUse
<1>3. UNCHANGED version
    BY DEF WriterStep, NextTarget, StampIndex, ClearStamps, DropTable, Demote, StartBuild,
           RemoveDerived, RemoveNodes, RemoveVectors, RemoveEnvelope, RemoveRow, env
<1> QED
    BY <1>1, <1>2, <1>3, ActType DEF SoundInv, Types, Shapes

LEMMA SoundNextTarget ==
    ASSUME CarefulUse, Types, Alone, SoundInv, WriterStep, NextTarget
    PROVE  SoundInv'
<1> DEFINE a == act["writer"]
           b == act'["writer"]
<1>0. /\ "writer" \in Process /\ Only("writer") /\ OtherIdle("writer") /\ PassInv("writer")
      /\ a.pc = "next" /\ UNCHANGED <<version, stamp, intake, progress, envelope, rows, tree>>
    BY WriterSetting DEF NextTarget, catalog, corpus
<1>1. \/ /\ b.id \in a.targets /\ a.pass = "resume" /\ b.pass = "resume" /\ b.pc = "chunk"
         /\ b.targets = a.targets \ {b.id}
      \/ b.pass = "reembed" /\ b.pc \in {"scan", "next"}
      \/ b.pass = "rebuild" /\ b.pc = "drop" /\ b.content = envelope[b.id].of
      \/ b.pass = "rebuild" /\ b.pc \in {"next", "index"}
      \/ b.pass = "none" /\ b.pc = "idle"
    BY NextTargetActs DEF Idle
<1>2. a.pass = "resume" => \A j \in a.targets : intake[j].status # "embedded"
    BY <1>0 DEF PassInv, MaintenanceInv, WithStatus
<1>3. a.pass = "resume" => a.targets \subseteq WithStatus("extracted")
    BY <1>0 DEF PassInv, MaintenanceInv
<1>4. PassInv("writer")'
    BY <1>0, <1>1, <1>2, <1>3 DEF PassInv, IngestInv, MaintenanceInv, EmbedInv, Embedding, WithStatus, Held
<1> QED
    BY <1>0, <1>4, NoBookStep DEF Quiet

LEMMA SoundStampIndex ==
    ASSUME CarefulUse, Types, Alone, IndexInv, SoundInv, WriterStep, StampIndex
    PROVE  SoundInv'
<1>1. /\ "writer" \in Process /\ TypeOK /\ Only("writer") /\ OtherIdle("writer")
      /\ act["writer"].pc = "index"
      /\ UNCHANGED <<version, intake, progress, envelope, rows, tree>>
    BY WriterSetting DEF StampIndex, catalog
<1>2. stamp' = stamp
    <2>1. Stamped
        BY <1>1 DEF IndexInv
    <2> QED
        BY <1>1, <2>1, UnstampedIsEmpty DEF StampIndex, Accepts
<1>3. act'["writer"].pass = "none" /\ act'["writer"].pc = "idle"
    BY <1>1, EndPass DEF StampIndex
<1>4. PassInv("writer")'
    BY <1>3 DEF PassInv, IngestInv, MaintenanceInv, EmbedInv
<1> QED
    BY <1>1, <1>2, <1>4, NoBookStep DEF Quiet

\* A reset takes the stamp, then every row, then every status, and the
\* builds that follow put back what the trees hold.
LEMMA SoundReset ==
    ASSUME CarefulUse, Types, Alone, RemoveInv, SoundInv, WriterStep,
           ClearStamps \/ DropTable \/ Demote \/ StartBuild
    PROVE  SoundInv'
<1> DEFINE a == act["writer"]
           b == act'["writer"]
<1>0. /\ "writer" \in Process /\ TypeOK /\ act \in [Process -> Act]
      /\ Only("writer") /\ OtherIdle("writer") /\ PassInv("writer") /\ UNCHANGED version
    BY WriterSetting
<1>1. CASE ClearStamps
    <2>1. /\ a.pc = "clear" /\ b.pass = "reset" /\ b.pc = "table" /\ stamp' = NoModel
          /\ UNCHANGED <<intake, progress, envelope, rows, tree>>
        BY <1>1, WriterActs DEF ClearStamps, catalog
    <2>2. ASSUME NEW i \in Id PROVE Filed(i)' /\ Whole(i)'
        <3>1. Filed(i) /\ WholeTree(intake[i], progress[i], tree[i])
            BY <2>1, Settled DEF SoundInv, Quiet
        <3> QED
            BY <1>0, <2>1, <3>1 DEF Filed, Whole, InReset
    <2>3. PassInv("writer")'
        BY <2>1 DEF PassInv, IngestInv, MaintenanceInv, EmbedInv, Embedding
    <2> QED
        BY <1>0, <2>2, <2>3, SoundFrame
<1>2. CASE DropTable
    <2>1. /\ a.pc = "table" /\ b.pass = "reset" /\ b.pc = "demote" /\ b.targets = WithStatus("embedded")
          /\ UNCHANGED <<intake, progress, envelope, tree, stamp>>
        BY <1>2, ResetActs DEF DropTable, catalog, corpus
    <2>2. ASSUME NEW i \in Id PROVE Filed(i)' /\ Whole(i)'
        <3>1. Filed(i) /\ WholeTree(intake[i], progress[i], tree[i])
            BY <2>1 DEF SoundInv, Whole, InHand
        <3> QED
            BY <1>0, <2>1, <3>1 DEF Filed, Whole, InReset
    <2>3. stamp = NoModel
        BY <1>0, <2>1 DEF PassInv, MaintenanceInv
    <2>4. PassInv("writer")'
        BY <2>1, <2>3 DEF PassInv, IngestInv, MaintenanceInv, EmbedInv, Embedding, WithStatus, Held
    <2> QED
        BY <1>0, <2>2, <2>4, SoundFrame
<1>3. CASE Demote
    <2> PICK i : i = Min(a.targets)
        OBVIOUS
    <2>1. /\ a.pc = "demote" /\ b.pass = "reset" /\ b.pc = "demote" /\ b.targets = a.targets \ {i}
          /\ i \in a.targets /\ i \in Id /\ intake' = SetStatus(i, "extracted")
          /\ UNCHANGED <<progress, envelope, tree, rows, stamp>>
        BY <1>3, ResetActs DEF Demote, corpus
    <2>2. Held(i)
        BY <2>1 DEF RemoveInv, NamedHeld, Registered
    <2>3. /\ intake'[i] # NoIntake /\ intake'[i].sha = intake[i].sha
          /\ intake'[i].extractor = intake[i].extractor /\ intake'[i].status = "extracted"
          /\ \A j \in Id : j # i => intake'[j] = intake[j]
        BY <1>0, <2>1, <2>2, RowUpdates
    <2>4. ASSUME NEW j \in Id PROVE Filed(j)' /\ Whole(j)'
        <3>1. Filed(j) /\ WholeTree(intake[j], progress[j], tree[j])
            BY <2>1 DEF SoundInv, Whole, InHand
        <3>2. Filed(j)'
            BY <1>0, <2>1, <2>2, <2>3, <3>1 DEF Filed, FiledBook, ReadSince, Read, Held
        <3>3. WholeTree(intake'[j], progress[j], tree[j])
            BY <2>3, <3>1 DEF WholeTree
        <3> QED
            BY <2>1, <3>2, <3>3 DEF Whole, InReset
    <2>5. WithStatus("embedded") \subseteq a.targets /\ stamp = NoModel
        BY <1>0, <2>1 DEF PassInv, MaintenanceInv
    <2>6. WithStatus("embedded")' \subseteq b.targets
        BY <2>1, <2>3, <2>5 DEF WithStatus, Held
    <2>7. PassInv("writer")'
        BY <2>1, <2>5, <2>6 DEF PassInv, IngestInv, MaintenanceInv, EmbedInv, Embedding
    <2> QED
        BY <1>0, <2>4, <2>7, SoundFrame
<1>4. CASE StartBuild
    <2>1. /\ a.pc = "demote" /\ a.targets = {} /\ b.pass = "resume" /\ b.pc = "next"
          /\ b.targets = WithStatus("extracted")
          /\ UNCHANGED <<intake, progress, envelope, tree, rows, stamp>>
        BY <1>4, ResetActs DEF StartBuild, catalog, corpus
    <2>2. WithStatus("embedded") = {}
        BY <1>0, <2>1 DEF PassInv, MaintenanceInv
    <2>3. ASSUME NEW i \in Id PROVE Filed(i)' /\ Whole(i)'
        <3>1. Filed(i) /\ WholeTree(intake[i], progress[i], tree[i])
            BY <2>1 DEF SoundInv, Whole, InHand
        <3>2. WholeRows(intake[i], progress[i], rows[i], stamp, version)
            BY <2>2 DEF WithStatus, Held, WholeRows
        <3> QED
            BY <1>0, <2>1, <3>1, <3>2 DEF Filed, Whole
    <2>4. PassInv("writer")'
        BY <2>1 DEF PassInv, IngestInv, MaintenanceInv, EmbedInv, Embedding, WithStatus, Held
    <2> QED
        BY <1>0, <2>3, <2>4, SoundFrame
<1> QED
    BY <1>1, <1>2, <1>3, <1>4

\* A removal first takes the state that vouches for the book.
LEMMA SoundRemove ==
    ASSUME CarefulUse, Types, Alone, RemoveInv, SoundInv, WriterStep,
           RemoveDerived \/ RemoveNodes \/ RemoveVectors \/ RemoveEnvelope \/ RemoveRow
    PROVE  SoundInv'
<1> DEFINE a == act["writer"]
           b == act'["writer"]
<1> PICK i : i = a.id
    OBVIOUS
<1>0. /\ "writer" \in Process /\ TypeOK
      /\ Only("writer") /\ OtherIdle("writer") /\ UNCHANGED <<version, stamp>>
    BY WriterSetting DEF RemoveDerived, RemoveNodes, RemoveVectors, RemoveEnvelope, RemoveRow, corpus
<1>1. a.pc \in {"derived", "nodes", "vectors", "file", "row"} /\ i \in Id
    BY WriterPlaces DEF RemoveDerived, RemoveNodes, RemoveVectors, RemoveEnvelope, RemoveRow
<1>2. b.pass \in {"remove", "none"} /\ b.pc \in {"nodes", "vectors", "file", "row", "idle"}
    BY WriterActs
<1>3. \A j \in Id : j # i => Untouched(j)
    BY <1>0, <1>1 DEF RemoveDerived, RemoveNodes, RemoveVectors, RemoveEnvelope, RemoveRow, catalog, corpus,
                      Untouched, TypeOK
<1>4. ~VouchedBy(NoProgress)
    BY DEF VouchedBy, NoProgress, At
<1>5. intake'[i] = NoIntake \/ progress'[i] = NoProgress
    <2>1. CASE RemoveDerived
        BY <1>0, <1>1, <2>1 DEF RemoveDerived, TypeOK
    <2>2. CASE RemoveNodes \/ RemoveVectors \/ RemoveEnvelope
        BY <2>2 DEF RemoveInv, RemoveStages, RemoveNodes, RemoveVectors, RemoveEnvelope, catalog
    <2>3. CASE RemoveRow
        BY <1>0, <1>1, <2>3 DEF RemoveRow, TypeOK
    <2> QED
        BY <2>1, <2>2, <2>3
<1>6. Filed(i)' /\ Whole(i)'
    BY <1>1, <1>4, <1>5, Unvouched
<1>7. PassInv("writer")'
    BY <1>2 DEF PassInv, IngestInv, MaintenanceInv, EmbedInv
<1> QED
    BY <1>0, <1>1, <1>3, <1>6, <1>7, BookStep DEF InReset

LEMMA SoundWriterStep ==
    ASSUME CarefulUse, Types, Alone, IndexInv, RemoveInv, SoundInv, WriterStep
    PROVE  SoundInv'
BY SoundNextTarget, SoundStampIndex, SoundReset, SoundRemove DEF WriterStep

\* What a pass is started upon.
LEMMA SoundStart ==
    ASSUME CarefulUse, Types, SoundInv, StartPass
    PROVE  SoundInv'
<1>1. UNCHANGED <<version, intake, progress, tree, rows, envelope, stamp>>
    BY StartPassActs
<1>2. PICK p \in Process : /\ Only(p) /\ (\A q \in Process : act[q] = Idle) /\ Begun(p, act'[p])
    BY StartPassActs DEF CarefulUse
<1>3. OtherIdle(p) /\ Quiet
    BY <1>2 DEF OtherIdle, Quiet, Process, Idle
<1>4. PassInv(p)'
    <2> DEFINE b == act'[p]
    <2>1. CASE b.pass = "ingest"
        <3>1. b.pc = "extract" /\ (b.behind => OnFile(IdOf(b.book)) = "behind")
            BY <1>2, <2>1 DEF Begun
        <3>2. b.behind => IdOf(b.book) # 0
            BY <3>1 DEF OnFile
        <3>3. b.behind => \E j \in Id : Held(j) /\ intake[j].sha = b.book
            BY <3>2, IdOfHeld
        <3> QED
            BY <1>1, <2>1, <3>1, <3>3 DEF PassInv, IngestInv, MaintenanceInv, EmbedInv, Work, Built, Embedding, Held
    <2>2. CASE b.pass = "advance"
        <3>1. /\ b.pc = "chunk" /\ progress[b.id].stage = "metadata" /\ intake[b.id].status = "extracted"
              /\ tree[b.id] # NoContent
            BY <1>2, <2>2 DEF Begun, CarefulUse
        <3> QED
            BY <1>1, <2>2, <3>1 DEF PassInv, IngestInv, MaintenanceInv, EmbedInv, Embedding, Vouched, VouchedBy
    <2>3. CASE b.pass \notin {"ingest", "advance"}
        <3>1. /\ b.pc \in {"derived", "next", "clear"}
              /\ b.pass = "resume" => b.pc = "next" /\ b.targets = WithStatus("extracted")
            BY <1>2, <2>3 DEF Begun
        <3>2. WithStatus("extracted")' = WithStatus("extracted")
            BY <1>1 DEF WithStatus, Held
        <3>3. MaintenanceInv(p)'
            BY <2>3, <3>1, <3>2 DEF MaintenanceInv
        <3>4. b.pc \notin Embedding \cup {"promote", "record"}
            BY <3>1 DEF Embedding
        <3> QED
            BY <2>3, <3>1, <3>3, <3>4 DEF PassInv, IngestInv, EmbedInv, Embedding
    <2> QED
        BY <2>1, <2>2, <2>3
<1> QED
    BY <1>1, <1>2, <1>3, <1>4, NoBookStep

\* A newer build adds readings and takes none away.
LEMMA SoundRestart ==
    ASSUME CarefulUse, Types, SoundInv, NEW v \in Version, NEW m \in Model, Restart(v, m)
    PROVE  SoundInv'
<1>1. /\ UNCHANGED <<stamp, intake, progress, envelope, rows, tree>> /\ version' = v /\ version <= v
      /\ version \in Nat /\ v \in Nat
      /\ \A p \in Process : act'[p] = Idle
    BY StoresAssumption DEF Restart, catalog, corpus, Types, TypeOK, Version
<1>2. act["writer"].pass \notin {"reset", "rebuild", "reembed"}
    BY DEF Restart, CarefulUse, Process
<1>3. ShapeOf(act["writer"])
    BY ActType DEF Process
<1>4. ~InReset
    BY <1>2, <1>3 DEF ShapeOf, InReset, Work, Embedding
<1>5. ASSUME NEW row, NEW c, ReadSince(row, version, c), row.extractor \in 1..version
      PROVE  ReadSince(row, v, c)
    BY <1>1, <1>5 DEF ReadSince
<1>6. ASSUME NEW i \in Id PROVE Filed(i)' /\ Whole(i)'
    <2>1. /\ FiledBook(intake[i], progress[i], envelope[i].of, tree[i], version)
          /\ WholeTree(intake[i], progress[i], tree[i])
          /\ WholeRows(intake[i], progress[i], rows[i], stamp, version)
        BY <1>2, <1>4 DEF SoundInv, Filed, Whole, InHand
    <2>2. intake[i] # NoIntake /\ VouchedBy(progress[i]) => intake[i].extractor \in 1..version
        BY <2>1 DEF FiledBook
    <2>3. FiledBook(intake[i], progress[i], envelope[i].of, tree[i], v)
        BY <1>1, <1>5, <2>1 DEF FiledBook
    <2>4. WholeRows(intake[i], progress[i], rows[i], stamp, v)
        BY <1>5, <2>1, <2>2 DEF WholeRows
    <2> QED
        BY <1>1, <2>1, <2>3, <2>4 DEF Filed, Whole
<1>7. \A p \in Process : PassInv(p)'
    <2>1. Idle.pass = "none" /\ Idle.pc = "idle"
        BY DEF Idle
    <2> QED
        BY <1>1, <2>1 DEF PassInv, IngestInv, MaintenanceInv, EmbedInv
<1> QED
    BY <1>6, <1>7 DEF SoundInv

LEMMA SoundStep ==
    ASSUME CarefulUse
    PROVE  Types /\ Alone /\ IndexInv /\ RemoveInv /\ SoundInv /\ [Next]_vars => SoundInv'
<1> SUFFICES ASSUME Types, Alone, IndexInv, RemoveInv, SoundInv, [Next]_vars PROVE SoundInv'
    OBVIOUS
<1>1. CASE UNCHANGED vars
    BY <1>1 DEF vars, env, catalog, corpus, SoundInv, Filed, Whole, InHand, InReset, PassInv,
                IngestInv, MaintenanceInv, EmbedInv, Held, Vouched, WithStatus
<1> QED
    BY <1>1, SoundStart, SoundIngestStep, SoundSharedStep, SoundFail, SoundWriterStep, SoundRestart DEF Next

LEMMA SoundAlways ==
    ASSUME CarefulUse
    PROVE  Spec => []SoundInv
<1>1. SafeResets /\ ~Overlap
    BY DEF CarefulUse, SafeResets
<1>2. Init => SoundInv
    <2>1. Idle.pass = "none" /\ Idle.pc = "idle"
        BY DEF Idle
    <2> QED
        BY <2>1 DEF Init, SoundInv, Filed, FiledBook, Whole, WholeTree, WholeRows, PassInv,
                    IngestInv, MaintenanceInv, EmbedInv, Process
<1>3. Spec => []IndexInv
    BY <1>1, IndexAlways
<1>4. Spec => []RemoveInv
    BY <1>1, RemoveAlways
<1> QED
    BY <1>2, <1>3, <1>4, SoundStep, TypesAlways, AloneAlways, PTL DEF Spec

\* A vouched book that calls itself embedded, outside the hands of a pass
\* and under a stamp, where every extractor since its own read the same.
LEMMA SoundBook ==
    ASSUME TypeOK, SoundInv, NEW i \in Id, Held(i), Vouched(i), intake[i].status = "embedded",
           stamp # NoModel, ~Underway(i),
           \A v \in intake[i].extractor..version : Read(intake[i], v) = Read(intake[i], version)
    PROVE  Indexed(i) /\ tree[i] = ContentOf[intake[i].sha][version]
<1>1. ~InReset
    BY DEF SoundInv, PassInv, MaintenanceInv, InReset, Process
<1>2. WholeTree(intake[i], progress[i], tree[i]) /\ WholeRows(intake[i], progress[i], rows[i], stamp, version)
    BY <1>1 DEF SoundInv, Whole, InHand, Underway
<1>3. tree[i] # NoContent /\ \E c \in Content : ReadSince(intake[i], version, c) /\ rows[i] = RowsFor(Chunks(c), stamp)
    BY <1>2 DEF WholeTree, WholeRows, Held, Vouched
<1>4. tree[i] = Read(intake[i], version)
    BY <1>3 DEF SoundInv, Filed, FiledBook, ReadSince, Held, Vouched
<1>5. rows[i] = RowsFor(Chunks(tree[i]), stamp)
    BY <1>3, <1>4 DEF ReadSince
<1> QED
    BY <1>3, <1>4, <1>5 DEF Indexed, RowsFor, Read

LEMMA EmbeddedOnFile ==
    ASSUME TypeOK, SoundInv, NEW i \in Id, Held(i), OnFile(i) \in {"current", "behind"}
    PROVE  /\ intake[i].status = "embedded" /\ Vouched(i) /\ stamp # NoModel
           /\ OnFile(i) = "current" => intake[i].extractor = version
           /\ intake[i].extractor \in 1..version
           /\ envelope[i].of \in {NoContent, Read(intake[i], intake[i].extractor)}
<1>1. /\ intake[i].status = "embedded" /\ progress[i].model = model /\ stamp # NoModel
      /\ OnFile(i) = "current" => intake[i].extractor = version
    BY DEF OnFile
<1>2. Vouched(i)
    BY <1>1, StoresAssumption DEF Vouched, VouchedBy, TypeOK
<1>3. /\ intake[i].extractor \in 1..version
      /\ envelope[i].of \in {NoContent, Read(intake[i], intake[i].extractor)}
    BY <1>2 DEF SoundInv, Filed, FiledBook, Held, Vouched
<1> QED
    BY <1>1, <1>2, <1>3

\* A re-ingest that is waved through as current finds this extractor's
\* reading of the file and the complete rows of it, whatever was interrupted
\* before, where the stores are used as CarefulUse says.
THEOREM NoOpsAreSound ==
    ASSUME CarefulUse
    PROVE  Spec => []NoOpIsSound
<1>1. TypeOK /\ SoundInv => NoOpIsSound
    <2> SUFFICES ASSUME TypeOK, SoundInv, NEW i \in Id, Held(i), OnFile(i) = "current", ~Underway(i)
                 PROVE  Indexed(i) /\ tree[i] = ContentOf[intake[i].sha][version]
        BY DEF NoOpIsSound
    <2>1. intake[i].status = "embedded" /\ Vouched(i) /\ stamp # NoModel /\ intake[i].extractor = version
        BY EmbeddedOnFile
    <2>2. \A v \in version..version : v = version
        BY StoresAssumption DEF TypeOK, Version
    <2> QED
        BY <2>1, <2>2, SoundBook
<1> QED
    BY <1>1, TypeCorrect, SoundAlways, PTL

\* A re-ingest that moves the stamp alone, because the extraction equals the
\* envelope on file, leaves a book whose tree and rows are of that
\* extraction.
THEOREM RestampsAreSound ==
    ASSUME CarefulUse
    PROVE  Spec => []RestampIsSound
<1>1. TypeOK /\ SoundInv => RestampIsSound
    <2> SUFFICES ASSUME TypeOK, SoundInv, NEW i \in Id, Held(i), OnFile(i) = "behind", ~Underway(i),
                        Unchanged(i, ContentOf[intake[i].sha][version])
                 PROVE  Indexed(i) /\ tree[i] = ContentOf[intake[i].sha][version]
        BY DEF RestampIsSound
    <2>1. /\ intake[i].status = "embedded" /\ Vouched(i) /\ stamp # NoModel
          /\ intake[i].extractor \in 1..version
          /\ envelope[i].of \in {NoContent, Read(intake[i], intake[i].extractor)}
        BY EmbeddedOnFile
    <2>2. intake[i].sha \in Book
        BY DEF TypeOK, Held, Intake
    <2>3. Read(intake[i], intake[i].extractor) = Read(intake[i], version)
        BY <2>1, <2>2, ReadType DEF Unchanged, Read
    <2> QED
        BY <2>1, <2>3, OneReading, SoundBook
<1> QED
    BY <1>1, TypeCorrect, SoundAlways, PTL
=============================================================================
