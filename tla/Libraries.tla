----------------------------- MODULE Libraries -----------------------------
(***************************************************************************)
(* The libraries a daemon serves: the in-memory registry (mounted set,     *)
(* record of the unserved, default pointer), the registry file with its    *)
(* entries and its own default, the root locks that ride on the handles,   *)
(* the requests that change all of this, and the offline command line      *)
(* that edits the same file and deletes the same roots.                    *)
(*                                                                         *)
(* A root's flock is not a variable: it is held exactly while some handle, *)
(* mount in progress or offline purge that took it is alive.  A write of   *)
(* the registry file is one action, since every writer holds its sibling   *)
(* lock for the whole read-modify-write.                                   *)
(***************************************************************************)
EXTENDS Naturals, FiniteSets, Functions

CONSTANTS
    Name,           \* registry names
    NoName,         \* no default, no library
    Root,           \* [Name -> data roots], canonical paths
    Lockable,       \* the roots that can host a lock file
    Reranker,       \* [Name -> the reranker stage a library declares]
    Client,         \* control-plane connections
    NoClient,       \* nobody holds the write mutex
    Operator,       \* offline command-line processes
    Requests,       \* the methods clients call
    OfflineVerbs,   \* the commands operators run
    InitialEntries, \* the entries of the registry file at the start
    InitialDefault, \* and the defaults it may declare
    Primaries,      \* the libraries a daemon is started under
    MaySkip,        \* whether bring-up may fail to open a library
    MaxRequests,    \* bound on the requests of one behaviour
    MaxOffline,     \* bound on the offline commands
    MaxStarts       \* bound on the daemon's starts

ASSUME LibrariesAssumption ==
    /\ NoName \notin Name
    /\ DOMAIN Root = Name
    /\ DOMAIN Reranker = Name
    /\ NoClient \notin Client
    /\ InitialEntries \subseteq Name
    /\ InitialDefault \subseteq InitialEntries \cup {NoName}
    /\ Primaries \subseteq Name
    /\ MaySkip \in BOOLEAN
    /\ MaxRequests \in Nat /\ MaxOffline \in Nat /\ MaxStarts \in Nat

VARIABLES
    phase,        \* the daemon: "down", "locking" its candidates, "up"
    candidates,   \* bring-up: libraries resolved, their roots not locked yet
    mounted,      \* Sets::mounted: name -> whether its handle holds a lock
    unmounted,    \* Sets::unmounted: names recorded as not served
    primary,      \* the library the daemon came up under
    default,      \* LibraryRegistry::default
    entries,      \* the registry file's [libraries] table
    diskDefault,  \* the registry file's default
    vacant,       \* roots that are missing or empty
    writer,       \* the client whose session holds the write mutex
    call,         \* each client's request
    offline,      \* each operator's purge
    requests, commands, starts

memory == <<mounted, unmounted, default>>
file   == <<entries, diskDefault>>
daemon == <<phase, candidates, primary, starts>>
vars   == <<memory, file, daemon, vacant, writer, call, offline, requests, commands>>

Roots == {Root[n] : n \in Name}

-----------------------------------------------------------------------------
(* Handles and locks.                                                      *)

\* A clone of a library's handle outside the registry's map.
Handle   == [name : Name \cup {NoName}, guarded : BOOLEAN]
NoHandle == [name |-> NoName, guarded |-> FALSE]

CallPc == {"idle", "serving", "ask", "claim", "list", "agree", "lock", "build",
           "persist", "refresh", "unmount", "drop", "validate", "copy", "enter"}

CallRecord ==
    [op     : {"none", "read", "mount", "unmount", "set_default", "fork"},
     pc     : CallPc,
     name   : Name \cup {NoName},   \* the library being changed
     seen   : SUBSET Name,          \* the listing agree_on_reranker took
     guard  : BOOLEAN,              \* a root lock no handle carries yet
     handle : Handle]

\* Only an idle client and a read name no library to change.
Call == {x \in CallRecord : x.pc \notin {"idle", "serving"} => x.name \in Name}

NoCall == [op |-> "none", pc |-> "idle", name |-> NoName, seen |-> {},
           guard |-> FALSE, handle |-> NoHandle]

NothingMounted == [n \in {} |-> FALSE]

\* An offline purge: nothing under way, or the stage it is at and the
\* library it deletes.
Purge == [stage : {"idle"}, name : Name \cup {NoName}]
             \cup [stage : {"locked", "forgotten", "unlocked"}, name : Name]

Served == DOMAIN mounted

\* Mutant: the lock belongs to the registry's map, not to the handle.
GuardsOfTheMap(r) == \E n \in Served : mounted[n] /\ Root[n] = r

\* The MountGuards this process still holds on root r.
GuardsOf(r) ==
    \/ \E n \in Served : mounted[n] /\ Root[n] = r
    \/ \E c \in Client :
        \/ call[c].guard /\ Root[call[c].name] = r
        \/ call[c].handle.guarded /\ Root[call[c].handle.name] = r

PurgeHolds(o, r) == offline[o].stage \in {"locked", "forgotten"} /\ Root[offline[o].name] = r

\* RootLock::acquire: the file opens inside the root, then the flock.
CanHostLock(r) == r \in Lockable /\ r \notin vacant
Contended(r)   == GuardsOf(r) \/ \E o \in Operator : PurgeHolds(o, r)

\* Mutant: a contended root is served unlocked too.
LockNeverRefused(r) == FALSE

\* lock_root refuses a contended root and serves unlocked one that cannot
\* host the file.
LockRefused(r) == CanHostLock(r) /\ Contended(r)

-----------------------------------------------------------------------------
(* Where an unnamed call goes.                                             *)

UnnamedRoute ==
    IF default \in Served THEN {default}
    ELSE {n \in Served : default = NoName /\ Served = {n}}

-----------------------------------------------------------------------------
Init ==
    /\ phase = "down"
    /\ candidates = {}
    /\ mounted = NothingMounted
    /\ unmounted = {}
    /\ primary = NoName
    /\ default = NoName
    /\ entries = InitialEntries
    /\ diskDefault \in InitialDefault
    /\ vacant = Roots \ {Root[n] : n \in InitialEntries}
    /\ writer = NoClient
    /\ call = [c \in Client |-> NoCall]
    /\ offline = [o \in Operator |-> [stage |-> "idle", name |-> NoName]]
    /\ requests = 0 /\ commands = 0 /\ starts = 0

-----------------------------------------------------------------------------
(* Bring-up and exit.                                                      *)

OneRootEach(names) == \A m, n \in names : Root[m] = Root[n] => m = n

\* One library per root among those that resolve, the default claiming
\* first.
ClaimedRoots(names) ==
    {kept \in SUBSET names :
        /\ OneRootEach(kept)
        /\ \A n \in names : \E k \in kept : Root[k] = Root[n]
        /\ diskDefault \in names => diskDefault \in kept}

\* A daemon started under a registered library reads the file once and
\* plans every entry; those whose root is not there are skipped here.
PlanMounts(name) ==
    /\ phase = "down"
    /\ starts < MaxStarts
    /\ name \in entries \cap Primaries
    /\ candidates' \in ClaimedRoots({n \in entries : Root[n] \notin vacant})
    /\ unmounted' = entries \ candidates'
    /\ phase' = "locking"
    /\ primary' = name
    /\ default' = diskDefault
    /\ starts' = starts + 1
    /\ UNCHANGED <<mounted, file, vacant, writer, call, offline, requests, commands>>

\* The stage the served set has to agree on is the default's, or the first
\* candidate's.
AgreeingWith(names) ==
    {{n \in names : Reranker[n] = Reranker[ref]} :
        ref \in IF default \in names THEN {default} ELSE names}

\* Lock every candidate, skip what is contended, what does not open and what
\* disagrees, and assemble the registry.
Assemble ==
    \E opened \in SUBSET {n \in candidates : ~LockRefused(Root[n])} :
    \E served \in AgreeingWith(opened) :
        /\ phase = "locking"
        /\ ~MaySkip => opened = {n \in candidates : ~LockRefused(Root[n])}
        /\ mounted' = [n \in served |-> CanHostLock(Root[n])]
        /\ unmounted' = unmounted \cup (candidates \ served)
        /\ phase' = "up"
        /\ candidates' = {}
        /\ UNCHANGED <<default, file, primary, starts, vacant, writer, call, offline,
                       requests, commands>>

\* A bring-up left with nothing to serve, a crash, or a shutdown: every
\* handle goes, and every root lock with it.
Exit ==
    /\ phase # "down"
    /\ phase' = "down"
    /\ candidates' = {}
    /\ mounted' = NothingMounted
    /\ unmounted' = {}
    /\ primary' = NoName
    /\ default' = NoName
    /\ writer' = NoClient
    /\ call' = [c \in Client |-> NoCall]
    /\ UNCHANGED <<file, vacant, offline, starts, requests, commands>>

-----------------------------------------------------------------------------
(* Requests.                                                               *)

Outside == UNCHANGED <<daemon, offline, commands>>

At(c, op, pc) == call[c].op \in op /\ call[c].pc = pc

Goto(c, pc) == call' = [call EXCEPT ![c].pc = pc]

Issue(c, op) ==
    /\ phase = "up"
    /\ op \in Requests
    /\ call[c].pc = "idle"
    /\ requests < MaxRequests
    /\ requests' = requests + 1

\* run_write_session: the mutex is tried, never waited for.
TakeWriteMutex(c) == writer = NoClient /\ writer' = c

\* Mutant: the connection keeps the handle its call resolved.
ReturnKeepingHandle(c) ==
    /\ call' = [call EXCEPT ![c] = [NoCall EXCEPT !.handle = call[c].handle]]
    /\ writer' = IF writer = c THEN NoClient ELSE writer

\* The call is over; its session, if it runs in one, gives up the mutex, and
\* whatever handle or guard it held is dropped.
Return(c) ==
    /\ call' = [call EXCEPT ![c] = NoCall]
    /\ writer' = IF writer = c THEN NoClient ELSE writer

\* A routed read keeps the handle it resolved until it answers.
Read(c, n) ==
    /\ Issue(c, "read")
    /\ n \in Served
    /\ call' = [call EXCEPT ![c] = [NoCall EXCEPT
           !.op = "read", !.pc = "serving",
           !.handle = [name |-> n, guarded |-> mounted[n]]]]
    /\ Outside
    /\ UNCHANGED <<memory, file, vacant, writer>>

ReadUnnamed(c) == \E n \in UnnamedRoute : Read(c, n)

ReadDone(c) ==
    /\ At(c, {"read"}, "serving")
    /\ Return(c)
    /\ Outside
    /\ UNCHANGED <<memory, file, vacant, requests>>

-----------------------------------------------------------------------------
(* Mounter::mount, run for library.mount, library.set_default and          *)
(* library.fork.                                                           *)

Mount(c, n) ==
    /\ Issue(c, "mount")
    /\ TakeWriteMutex(c)
    /\ call' = [call EXCEPT ![c] =
           [NoCall EXCEPT !.op = "mount", !.pc = "ask", !.name = n]]
    /\ Outside
    /\ UNCHANGED <<memory, file, vacant>>

\* Only set_default goes on to something after its mount.
AfterMount(c) ==
    IF call[c].op = "set_default"
    THEN /\ call' = [call EXCEPT ![c].pc = "persist", ![c].guard = FALSE]
         /\ UNCHANGED writer
    ELSE Return(c)

\* A mount is refused at any of its steps; a step that may be refused for a
\* reason kept out of the model (the embed backend, the stores) may be
\* refused always.
MountRefused(c) ==
    LET n == call[c].name
    IN  /\ \/ At(c, Requests, "ask")   /\ (n \in Served \/ n \notin entries \/ Root[n] \in vacant)
           \/ At(c, Requests, "claim") /\ \E m \in Served : Root[m] = Root[n]
           \/ At(c, Requests, "agree") /\ \E l, m \in (call[c].seen \cap Served) \cup {n} :
                                             Reranker[l] # Reranker[m]
           \/ At(c, Requests, "lock")
           \/ At(c, Requests, "build")
        /\ Return(c)
        /\ Outside
        /\ UNCHANGED <<memory, file, vacant, requests>>

\* The name is not mounted, the registry file resolves it, and the root
\* carries the identity the entry cached.
MountResolve(c) ==
    /\ At(c, Requests, "ask")
    /\ call[c].name \in entries \ Served
    /\ Root[call[c].name] \notin vacant
    /\ Goto(c, "claim")
    /\ Outside
    /\ UNCHANGED <<memory, file, vacant, writer, requests>>

ClaimRoot(c) ==
    /\ At(c, Requests, "claim")
    /\ \A m \in Served : Root[m] # Root[call[c].name]
    /\ Goto(c, "list")
    /\ Outside
    /\ UNCHANGED <<memory, file, vacant, writer, requests>>

\* agree_on_reranker lists the registry, then gets each row it listed; a
\* row gone by then is left out of the comparison.
ListForAgreement(c) ==
    /\ At(c, Requests, "list")
    /\ call' = [call EXCEPT ![c].pc = "agree", ![c].seen = Served]
    /\ Outside
    /\ UNCHANGED <<memory, file, vacant, writer, requests>>

\* Mutant: the new library is not compared with the set.
AgreeAlways(c) ==
    /\ At(c, Requests, "agree")
    /\ call' = [call EXCEPT ![c].pc = "lock", ![c].seen = {}]
    /\ Outside
    /\ UNCHANGED <<memory, file, vacant, writer, requests>>

AgreeOnReranker(c) ==
    /\ At(c, Requests, "agree")
    /\ \A l, m \in (call[c].seen \cap Served) \cup {call[c].name} :
           Reranker[l] = Reranker[m]
    /\ call' = [call EXCEPT ![c].pc = "lock", ![c].seen = {}]
    /\ Outside
    /\ UNCHANGED <<memory, file, vacant, writer, requests>>

\* After the preflight, which is awaited.
LockRoot(c) ==
    LET r == Root[call[c].name]
    IN  /\ At(c, Requests, "lock")
        /\ ~LockRefused(r)
        /\ call' = [call EXCEPT ![c].pc = "build", ![c].guard = CanHostLock(r)]
        /\ Outside
        /\ UNCHANGED <<memory, file, vacant, writer, requests>>

\* The handle is built, which is awaited, and LibraryRegistry::mount takes
\* it unless the name got mounted meanwhile.
RegisterMount(c) ==
    /\ At(c, Requests, "build")
    /\ call[c].name \notin Served
    /\ mounted' = [n \in Served \cup {call[c].name} |->
                       IF n \in Served THEN mounted[n] ELSE call[c].guard]
    /\ unmounted' = unmounted \ {call[c].name}
    /\ AfterMount(c)
    /\ Outside
    /\ UNCHANGED <<default, file, vacant, requests>>

-----------------------------------------------------------------------------
(* library.set_default: no write session.                                  *)

SetDefault(c, n) ==
    /\ Issue(c, "set_default")
    /\ call' = [call EXCEPT ![c] = [NoCall EXCEPT
           !.op = "set_default", !.name = n,
           !.pc = IF n \in Served THEN "persist" ELSE "ask"]]
    /\ Outside
    /\ UNCHANGED <<memory, file, vacant, writer>>

\* set_default_library.
PersistDefault(c) ==
    /\ At(c, {"set_default"}, "persist")
    /\ call[c].name \in entries
    /\ diskDefault' = call[c].name
    /\ Goto(c, "refresh")
    /\ Outside
    /\ UNCHANGED <<memory, entries, vacant, writer, requests>>

\* The file does not know the name, or could not be written.
PersistRefused(c) ==
    /\ At(c, {"set_default"}, "persist")
    /\ Return(c)
    /\ Outside
    /\ UNCHANGED <<memory, file, vacant, requests>>

\* The pointer in memory, which takes no name that is not mounted.
RefreshDefault(c) ==
    /\ At(c, {"set_default"}, "refresh")
    /\ default' = IF call[c].name \in Served THEN call[c].name ELSE default
    /\ Return(c)
    /\ Outside
    /\ UNCHANGED <<mounted, unmounted, file, vacant, requests>>

-----------------------------------------------------------------------------
(* library.unmount.                                                        *)

Unmount(c, n) ==
    /\ Issue(c, "unmount")
    /\ TakeWriteMutex(c)
    /\ call' = [call EXCEPT ![c] =
           [NoCall EXCEPT !.op = "unmount", !.pc = "unmount", !.name = n]]
    /\ Outside
    /\ UNCHANGED <<memory, file, vacant>>

Removable(n) == n \in Served /\ n # primary /\ Cardinality(Served) > 1

\* Under the queue lock; the handle comes out of the map.
RemoveMount(c) ==
    LET n == call[c].name
    IN  /\ At(c, {"unmount"}, "unmount")
        /\ Removable(n)
        /\ mounted' = [m \in Served \ {n} |-> mounted[m]]
        /\ call' = [call EXCEPT ![c].pc = "drop",
                                ![c].handle = [name |-> n, guarded |-> mounted[n]]]
        /\ Outside
        /\ UNCHANGED <<unmounted, default, file, vacant, writer, requests>>

\* Not mounted, protected, or with queued work.
UnmountRefused(c) ==
    /\ At(c, {"unmount"}, "unmount")
    /\ Return(c)
    /\ Outside
    /\ UNCHANGED <<memory, file, vacant, requests>>

UnmountDone(c) ==
    /\ At(c, {"unmount"}, "drop")
    /\ Return(c)
    /\ Outside
    /\ UNCHANGED <<memory, file, vacant, requests>>

-----------------------------------------------------------------------------
(* library.fork: the source's handle is kept to the end.                   *)

Fork(c, source, n) ==
    /\ Issue(c, "fork")
    /\ source \in Served
    /\ TakeWriteMutex(c)
    /\ call' = [call EXCEPT ![c] = [NoCall EXCEPT
           !.op = "fork", !.pc = "validate", !.name = n,
           !.handle = [name |-> source, guarded |-> mounted[source]]]]
    /\ Outside
    /\ UNCHANGED <<memory, file, vacant>>

ForkValidate(c) ==
    /\ At(c, {"fork"}, "validate")
    /\ call[c].name \notin entries
    /\ Root[call[c].name] \in vacant
    /\ Goto(c, "copy")
    /\ Outside
    /\ UNCHANGED <<memory, file, vacant, writer, requests>>

\* The clone, its manifest included.
ForkCopy(c) ==
    /\ At(c, {"fork"}, "copy")
    /\ vacant' = vacant \ {Root[call[c].name]}
    /\ Goto(c, "enter")
    /\ Outside
    /\ UNCHANGED <<memory, file, writer, requests>>

\* Refused inputs, or a copy or a registry write that fails part-way and
\* leaves its files where they are.
ForkFails(c) ==
    /\ \E pc \in {"validate", "copy", "enter"} : At(c, {"fork"}, pc)
    /\ Return(c)
    /\ Outside
    /\ UNCHANGED <<memory, file, vacant, requests>>

Claimed(n) == IF diskDefault = NoName THEN n ELSE diskDefault

\* upsert_library_entry_claiming_default, then the mount.
ForkEnter(c) ==
    /\ At(c, {"fork"}, "enter")
    /\ entries' = entries \cup {call[c].name}
    /\ diskDefault' = Claimed(call[c].name)
    /\ Goto(c, "ask")
    /\ Outside
    /\ UNCHANGED <<memory, vacant, writer, requests>>

-----------------------------------------------------------------------------
(* Offline commands.                                                       *)

Inside == UNCHANGED <<memory, daemon, writer, call, requests>>

Command(o, verb) ==
    /\ verb \in OfflineVerbs
    /\ offline[o].stage = "idle"
    /\ commands < MaxOffline
    /\ commands' = commands + 1

Advance(o, stage) == offline' = [offline EXCEPT ![o].stage = stage]

\* Mutant: the default keeps naming what was removed.
ForgottenOnly(n) == entries' = entries \ {n} /\ UNCHANGED diskDefault

\* remove_library.
Forgotten(n) ==
    /\ entries' = entries \ {n}
    /\ diskDefault' = IF diskDefault = n THEN NoName ELSE diskDefault

Remove(o, n) ==
    /\ Command(o, "remove")
    /\ n \in entries
    /\ Forgotten(n)
    /\ Inside
    /\ UNCHANGED <<vacant, offline>>

\* libraries add and register claim an absent default, scan does not.
Add(o, n, claims) ==
    /\ Command(o, "add")
    /\ n \notin entries
    /\ Root[n] \notin vacant
    /\ entries' = entries \cup {n}
    /\ diskDefault' = IF claims THEN Claimed(n) ELSE diskDefault
    /\ Inside
    /\ UNCHANGED <<vacant, offline>>

\* libraries default, written here only when no daemon answers.
SetDefaultOffline(o, n) ==
    /\ Command(o, "default")
    /\ phase = "down"
    /\ n \in entries
    /\ diskDefault' = n
    /\ Inside
    /\ UNCHANGED <<entries, vacant, offline>>

\* libraries remove --purge: the root's lock first.
PurgeLock(o, n) ==
    /\ Command(o, "purge")
    /\ n \in entries
    /\ CanHostLock(Root[n])
    /\ ~Contended(Root[n])
    /\ offline' = [offline EXCEPT ![o] = [stage |-> "locked", name |-> n]]
    /\ Inside
    /\ UNCHANGED <<file, vacant>>

\* The gate refuses, the operator declines, or the entry is gone by now.
PurgeAborts(o) ==
    /\ offline[o].stage = "locked"
    /\ Advance(o, "idle")
    /\ Inside
    /\ UNCHANGED <<file, vacant, commands>>

PurgeForgets(o) ==
    /\ offline[o].stage = "locked"
    /\ offline[o].name \in entries
    /\ Forgotten(offline[o].name)
    /\ Advance(o, "forgotten")
    /\ Inside
    /\ UNCHANGED <<vacant, commands>>

\* drop(lock), before the delete.
PurgeUnlocks(o) ==
    /\ offline[o].stage = "forgotten"
    /\ Advance(o, "unlocked")
    /\ Inside
    /\ UNCHANGED <<file, vacant, commands>>

PurgeDeletes(o) ==
    /\ offline[o].stage = "unlocked"
    /\ vacant' = vacant \cup {Root[offline[o].name]}
    /\ Advance(o, "idle")
    /\ Inside
    /\ UNCHANGED <<file, commands>>

-----------------------------------------------------------------------------
MountStep(c) ==
    \/ MountResolve(c) \/ ClaimRoot(c) \/ ListForAgreement(c)
    \/ AgreeOnReranker(c) \/ LockRoot(c) \/ RegisterMount(c) \/ MountRefused(c)

SetDefaultStep(c) == PersistDefault(c) \/ PersistRefused(c) \/ RefreshDefault(c)
UnmountStep(c)    == RemoveMount(c) \/ UnmountRefused(c) \/ UnmountDone(c)
ForkStep(c)       == ForkValidate(c) \/ ForkCopy(c) \/ ForkFails(c) \/ ForkEnter(c)

\* Every step a request takes once it is in.
CallStep(c) ==
    ReadDone(c) \/ MountStep(c) \/ SetDefaultStep(c) \/ UnmountStep(c) \/ ForkStep(c)

NewCall(c) ==
    \/ ReadUnnamed(c)
    \/ \E n \in Name : \/ Read(c, n) \/ Mount(c, n) \/ SetDefault(c, n) \/ Unmount(c, n)
                       \/ \E source \in Name : Fork(c, source, n)

OfflineStep(o) ==
    \/ \E n \in Name : \/ Remove(o, n) \/ SetDefaultOffline(o, n) \/ PurgeLock(o, n)
                       \/ \E claims \in BOOLEAN : Add(o, n, claims)
    \/ PurgeAborts(o) \/ PurgeForgets(o) \/ PurgeUnlocks(o) \/ PurgeDeletes(o)

Next ==
    \/ \E name \in Name : PlanMounts(name)
    \/ Assemble
    \/ Exit
    \/ \E c \in Client : NewCall(c) \/ CallStep(c)
    \/ \E o \in Operator : OfflineStep(o)

Spec == Init /\ [][Next]_vars

\* Handlers run to their end; nothing obliges a request, a start or a command.
FairSpec == Spec /\ \A c \in Client : WF_vars(CallStep(c))

-----------------------------------------------------------------------------
(* What holds.                                                             *)

\* Each variable stays in the type its Rust field has.
TypeOK ==
    /\ phase \in {"down", "locking", "up"}
    /\ candidates \subseteq Name
    /\ Served \subseteq Name
    /\ mounted \in [Served -> BOOLEAN]
    /\ unmounted \subseteq Name
    /\ primary \in Name \cup {NoName}
    /\ default \in Name \cup {NoName}
    /\ entries \subseteq Name
    /\ diskDefault \in Name \cup {NoName}
    /\ vacant \subseteq Roots
    /\ writer \in Client \cup {NoClient}
    /\ call \in [Client -> Call]
    /\ offline \in [Operator -> Purge]
    /\ requests \in Nat /\ commands \in Nat /\ starts \in Nat

\* A name is in at most one of the registry's two tables.
NameInOneTable == Served \cap unmounted = {}

\* A running daemon serves at least one library, whatever is unmounted.
AtLeastOneServed == phase = "up" => Served # {}

\* Two names are never served from one data root: claim_root sees only what
\* is mounted, so two mounts in flight are told apart by the root's lock.
OneNamePerRoot == OneRootEach(Served)

\* The file's default is never left naming an entry it does not have.
DiskDefaultDefined == diskDefault \in entries \cup {NoName}

\* Whoever writes the registry last, a daemon or an offline command, leaves
\* something to serve and a default that can be resolved.
RegistryStands == AtLeastOneServed /\ DiskDefaultDefined

\* While an offline purge holds a root, no handle on it is alive in the
\* daemon: not in the map, and not with a call that outlived its unmount.
LiveHandle(r) ==
    \/ \E n \in Served : Root[n] = r
    \/ \E c \in Client : call[c].handle # NoHandle /\ Root[call[c].handle.name] = r

PurgeWorksAlone == \A r \in Roots : (\E o \in Operator : PurgeHolds(o, r)) => ~LiveHandle(r)

\* Every served library runs under the one reranker stage.
ServedSetAgrees == \A m, n \in Served : Reranker[m] = Reranker[n]

\* The root of an unmounted library comes free, or is taken up again by a
\* mount: no lock is left behind on a handle nobody uses.
RootsComeFree ==
    \A n \in Name : (GuardsOf(Root[n]) /\ n \notin Served)
        ~> (~GuardsOf(Root[n]) \/ \E m \in Served : Root[m] = Root[n])
=============================================================================
