-------------------------- MODULE LibrariesProofs --------------------------
(* What Libraries.tla promises for any names, roots, clients and bounds.    *)
EXTENDS Libraries, FiniteSetTheorems, TLAPS

-----------------------------------------------------------------------------
(* Type correctness.                                                       *)

\* A call that moves on stays a call.
LEMMA CallsMove ==
    ASSUME NEW x \in Call, NEW pc \in CallPc, x.name \in Name
    PROVE  /\ [x EXCEPT !.pc = pc] \in Call
           /\ \A guard \in BOOLEAN : [x EXCEPT !.pc = pc, !.guard = guard] \in Call
           /\ \A seen \in SUBSET Name : [x EXCEPT !.pc = pc, !.seen = seen] \in Call
           /\ \A handle \in Handle : [x EXCEPT !.pc = pc, !.handle = handle] \in Call
BY DEF Call, CallRecord

\* A call that ends, or that starts, is one.
LEMMA CallsStart ==
    /\ NoCall \in Call
    /\ \A handle \in Handle : [NoCall EXCEPT !.op = "read", !.pc = "serving",
                                             !.handle = handle] \in Call
    /\ \A n \in Name :
        /\ [NoCall EXCEPT !.op = "mount", !.pc = "ask", !.name = n] \in Call
        /\ [NoCall EXCEPT !.op = "unmount", !.pc = "unmount", !.name = n] \in Call
        /\ \A pc \in {"ask", "persist"} :
               [NoCall EXCEPT !.op = "set_default", !.name = n, !.pc = pc] \in Call
        /\ \A handle \in Handle :
               [NoCall EXCEPT !.op = "fork", !.pc = "validate", !.name = n,
                              !.handle = handle] \in Call
BY DEF Call, CallRecord, NoCall, NoHandle, Handle, CallPc

\* Every step of a request leaves every client with a call.
LEMMA CallStaysTyped ==
    ASSUME TypeOK, NEW c \in Client, CallStep(c) \/ NewCall(c)
    PROVE  call' \in [Client -> Call]
<1> DEFINE Put(x) == call' = [call EXCEPT ![c] = x]
<1>1. /\ call \in [Client -> Call]
      /\ call[c] \in Call
      /\ call[c].pc \notin {"idle", "serving"} => call[c].name \in Name
    BY DEF TypeOK, Call
<1>2. SUFFICES \E x \in Call : Put(x)
    BY <1>1
<1>3. \A n \in Served : mounted[n] \in BOOLEAN /\ n \in Name
    BY DEF TypeOK, Served
<1>4. Return(c) => Put(NoCall)
    BY DEF Return
<1>5. ASSUME NEW pc \in CallPc, Goto(c, pc), call[c].pc \notin {"idle", "serving"}
      PROVE  \E x \in Call : Put(x)
    <2>1. Put([call[c] EXCEPT !.pc = pc])
        BY <1>5, <1>1 DEF Goto
    <2> QED
        BY <2>1, <1>5, <1>1, CallsMove
<1>6. CASE \E n \in Name : Read(c, n)
    BY <1>6, <1>3, CallsStart DEF Read, Handle
<1>7. CASE ReadUnnamed(c)
    BY <1>7, <1>3, CallsStart DEF ReadUnnamed, UnnamedRoute, Read, Handle
<1>8. CASE \E n \in Name : Mount(c, n) \/ SetDefault(c, n) \/ Unmount(c, n)
    BY <1>8, CallsStart DEF Mount, SetDefault, Unmount
<1>9. CASE \E n, source \in Name : Fork(c, source, n)
    BY <1>9, <1>3, CallsStart DEF Fork, Handle
<1>10. CASE ReadDone(c) \/ MountRefused(c) \/ PersistRefused(c) \/ RefreshDefault(c)
            \/ UnmountRefused(c) \/ UnmountDone(c) \/ ForkFails(c)
    BY <1>10, <1>4, CallsStart
    DEF ReadDone, MountRefused, PersistRefused, RefreshDefault, UnmountRefused,
        UnmountDone, ForkFails
<1>11. CASE MountResolve(c) \/ ClaimRoot(c) \/ PersistDefault(c) \/ ForkValidate(c)
            \/ ForkCopy(c) \/ ForkEnter(c)
    BY <1>11, <1>5
    DEF MountResolve, ClaimRoot, PersistDefault, ForkValidate, ForkCopy, ForkEnter, At, CallPc
<1>12. CASE ListForAgreement(c) \/ AgreeOnReranker(c)
    <2>1. \/ Put([call[c] EXCEPT !.pc = "agree", !.seen = Served])
          \/ Put([call[c] EXCEPT !.pc = "lock", !.seen = {}])
        BY <1>12, <1>1 DEF ListForAgreement, AgreeOnReranker
    <2>3. Served \in SUBSET Name /\ {} \in SUBSET Name /\ {"agree", "lock"} \subseteq CallPc
        BY <1>3 DEF CallPc
    <2>2. call[c].name \in Name
        BY <1>12, <1>1 DEF ListForAgreement, AgreeOnReranker, At
    <2> QED
        BY <2>1, <2>2, <2>3, <1>1, CallsMove
<1>13. CASE LockRoot(c)
    <2>1. \E guard \in BOOLEAN : Put([call[c] EXCEPT !.pc = "build", !.guard = guard])
        BY <1>13, <1>1 DEF LockRoot, CanHostLock
    <2>2. call[c].name \in Name /\ "build" \in CallPc
        BY <1>13, <1>1 DEF LockRoot, At, CallPc
    <2> QED
        BY <2>1, <2>2, <1>1, CallsMove
<1>14. CASE RegisterMount(c)
    <2>1. Put(NoCall) \/ Put([call[c] EXCEPT !.pc = "persist", !.guard = FALSE])
        BY <1>14, <1>4, <1>1 DEF RegisterMount, AfterMount
    <2>2. call[c].name \in Name /\ "persist" \in CallPc
        BY <1>14, <1>1 DEF RegisterMount, At, CallPc
    <2> QED
        BY <2>1, <2>2, <1>1, CallsMove, CallsStart
<1>15. CASE RemoveMount(c)
    <2>1. Put([call[c] EXCEPT !.pc = "drop",
                              !.handle = [name |-> call[c].name,
                                          guarded |-> mounted[call[c].name]]])
        BY <1>15, <1>1 DEF RemoveMount
    <2>3. [name |-> call[c].name, guarded |-> mounted[call[c].name]] \in Handle
        BY <1>15, <1>3 DEF RemoveMount, Removable, Handle
    <2>2. call[c].name \in Name /\ "drop" \in CallPc
        BY <1>15, <1>1 DEF RemoveMount, At, CallPc
    <2> QED
        BY <2>1, <2>2, <2>3, <1>1, CallsMove
<1> QED
    BY <1>6, <1>7, <1>8, <1>9, <1>10, <1>11, <1>12, <1>13, <1>14, <1>15
    DEF CallStep, NewCall, MountStep, SetDefaultStep, UnmountStep, ForkStep

\* The steps of a request keep every variable in its type.
LEMMA CallType ==
    ASSUME TypeOK, NEW c \in Client, CallStep(c) \/ NewCall(c)
    PROVE  TypeOK'
<1>1. call' \in [Client -> Call]
    BY CallStaysTyped
<1>2. call[c] \in Call /\ (call[c].pc \notin {"idle", "serving"} => call[c].name \in Name)
    BY DEF TypeOK, Call
<1> USE <1>1, <1>2 DEF TypeOK, Outside, memory, file, daemon, Served, Return
<1>11. ASSUME NEW n, Read(c, n)
       PROVE  TypeOK'
    BY <1>11 DEF Read, Issue
<1>12. CASE ReadDone(c)
    BY <1>12 DEF ReadDone
<1>3. CASE (\E n \in Name : Read(c, n)) \/ ReadUnnamed(c)
    BY <1>3, <1>11 DEF ReadUnnamed
<1>4. CASE \E n \in Name : Mount(c, n) \/ SetDefault(c, n) \/ Unmount(c, n)
    BY <1>4 DEF Mount, SetDefault, Unmount, Issue, TakeWriteMutex
<1>5. CASE \E n, source \in Name : Fork(c, source, n)
    BY <1>5 DEF Fork, Issue, TakeWriteMutex
<1>6. CASE MountResolve(c) \/ ClaimRoot(c) \/ ListForAgreement(c) \/ AgreeOnReranker(c)
           \/ LockRoot(c) \/ MountRefused(c)
    BY <1>6 DEF MountResolve, ClaimRoot, ListForAgreement, AgreeOnReranker, LockRoot,
                MountRefused
<1>7. CASE RegisterMount(c)
    <2>1. call[c].name \in Name /\ call[c].guard \in BOOLEAN
        BY <1>7 DEF RegisterMount, At, Call, CallRecord
    <2> QED
        BY <1>7, <2>1 DEF RegisterMount, AfterMount
<1>8. CASE SetDefaultStep(c)
    BY <1>8 DEF SetDefaultStep, PersistDefault, PersistRefused, RefreshDefault
<1>9. CASE UnmountStep(c)
    BY <1>9 DEF UnmountStep, RemoveMount, Removable, UnmountRefused, UnmountDone
<1>10. CASE ForkStep(c)
    BY <1>10 DEF ForkStep, ForkValidate, ForkCopy, ForkFails, ForkEnter, Claimed, At
<1> QED
    BY <1>3, <1>4, <1>5, <1>6, <1>7, <1>8, <1>9, <1>10, <1>12
    DEF CallStep, NewCall, MountStep

\* So do the offline commands.
LEMMA OfflineType ==
    ASSUME TypeOK, NEW o \in Operator, OfflineStep(o)
    PROVE  TypeOK'
<1> USE LibrariesAssumption DEF TypeOK, Inside, memory, file, daemon, Served, Purge,
        Command, Advance
<1>1. CASE \E n \in Name : Remove(o, n)
    BY <1>1 DEF Remove, Forgotten
<1>2. CASE \E n \in Name : SetDefaultOffline(o, n)
    BY <1>2 DEF SetDefaultOffline
<1>3. CASE \E n \in Name : PurgeLock(o, n)
    BY <1>3 DEF PurgeLock
<1>4. CASE \E n \in Name, claims \in BOOLEAN : Add(o, n, claims)
    BY <1>4 DEF Add, Claimed
<1>5. CASE PurgeAborts(o)
    BY <1>5 DEF PurgeAborts
<1>6. CASE PurgeForgets(o)
    BY <1>6 DEF PurgeForgets, Forgotten
<1>7. CASE PurgeUnlocks(o)
    BY <1>7 DEF PurgeUnlocks
<1>8. CASE PurgeDeletes(o)
    BY <1>8 DEF PurgeDeletes, Roots
<1> QED
    BY <1>1, <1>2, <1>3, <1>4, <1>5, <1>6, <1>7, <1>8 DEF OfflineStep

\* Every reachable state has every variable in the type its field has.
THEOREM TypeCorrect == Spec => []TypeOK
<1>1. Init => TypeOK
    <2> SUFFICES ASSUME Init
                 PROVE  TypeOK
        OBVIOUS
    <2>1. Served = {} /\ mounted \in [Served -> BOOLEAN]
        BY DEF Init, Served, NothingMounted
    <2>2. call \in [Client -> Call] /\ offline \in [Operator -> Purge]
        BY CallsStart DEF Init, Purge
    <2>3. entries \subseteq Name /\ diskDefault \in Name \cup {NoName}
        BY LibrariesAssumption DEF Init
    <2> QED
        BY <2>1, <2>2, <2>3 DEF Init, TypeOK, Roots
<1>2. TypeOK /\ [Next]_vars => TypeOK'
    <2> SUFFICES ASSUME TypeOK, [Next]_vars
                 PROVE  TypeOK'
        OBVIOUS
    <2>1. ASSUME NEW name \in Name, PlanMounts(name)
          PROVE  TypeOK'
        BY <2>1 DEF PlanMounts, ClaimedRoots, TypeOK, file, Served
    <2>2. CASE Assemble
        BY <2>2 DEF Assemble, AgreeingWith, CanHostLock, TypeOK, file, Served
    <2>3. CASE Exit
        BY <2>3, CallsStart DEF Exit, TypeOK, file, Served, NothingMounted
    <2>4. CASE UNCHANGED vars
        BY <2>4 DEF vars, memory, file, daemon, TypeOK, Served
    <2> QED
        BY <2>1, <2>2, <2>3, <2>4, CallType, OfflineType DEF Next
<1> QED
    BY <1>1, <1>2, PTL DEF Spec

-----------------------------------------------------------------------------
(* The registry's tables and the registry file.                            *)

\* Outside of a running daemon nothing is served and no call is under way; a
\* name that bring-up still holds as a candidate is not recorded as unserved.
RegistryInv ==
    /\ NameInOneTable
    /\ AtLeastOneServed
    /\ DiskDefaultDefined
    /\ phase # "up" => Served = {} /\ call = [c \in Client |-> NoCall]
    /\ phase = "locking" => candidates \cap unmounted = {}

\* What a step of a running daemon may do to the map: nothing, take in the
\* library a call built, or let go of one that is neither the primary nor the
\* last.
MapMove(c) ==
    \/ UNCHANGED <<mounted, unmounted>>
    \/ /\ RegisterMount(c)
       /\ Served' = Served \cup {call[c].name}
       /\ unmounted' = unmounted \ {call[c].name}
    \/ /\ RemoveMount(c)
       /\ \E n \in Served : n # primary /\ Served' = Served \ {n} /\ Served' # {}
       /\ UNCHANGED unmounted

\* Every step a client takes moves the map in one of these ways, and happens
\* in a running daemon that goes on running.
LEMMA ClientMoves ==
    ASSUME TypeOK, RegistryInv, NEW c \in Client, CallStep(c) \/ NewCall(c)
    PROVE  MapMove(c) /\ phase = "up" /\ UNCHANGED <<phase, primary, candidates>>
<1>1. UNCHANGED <<phase, primary, candidates>>
    BY DEF CallStep, NewCall, MountStep, SetDefaultStep, UnmountStep, ForkStep, ReadUnnamed,
           Outside, daemon, Read, Mount, SetDefault, Unmount, Fork, ReadDone, MountResolve,
           ClaimRoot, ListForAgreement, AgreeOnReranker, LockRoot, RegisterMount,
           MountRefused, PersistDefault, PersistRefused, RefreshDefault, RemoveMount,
           UnmountRefused, UnmountDone, ForkValidate, ForkCopy, ForkFails, ForkEnter
<1>2. CASE NewCall(c)
    BY <1>1, <1>2
    DEF NewCall, ReadUnnamed, Read, Mount, SetDefault, Unmount, Fork, Issue, memory, MapMove
<1>3. CASE CallStep(c)
    <2>1. call[c].pc # "idle"
        BY <1>3
        DEF CallStep, MountStep, SetDefaultStep, UnmountStep, ForkStep, At, ReadDone,
            MountResolve, ClaimRoot, ListForAgreement, AgreeOnReranker, LockRoot,
            RegisterMount, MountRefused, PersistDefault, PersistRefused, RefreshDefault,
            RemoveMount, UnmountRefused, UnmountDone, ForkValidate, ForkCopy, ForkFails,
            ForkEnter
    <2>2. phase = "up"
        BY <2>1 DEF RegistryInv, NoCall
    <2>3. RegisterMount(c) => MapMove(c)
        BY DEF RegisterMount, Served, MapMove
    <2>4. ASSUME RemoveMount(c)
          PROVE  MapMove(c)
        <3> DEFINE n == call[c].name
        <3>1. n \in Served /\ n # primary /\ Cardinality(Served) > 1
            BY <2>4 DEF RemoveMount, Removable
        <3>2. Served' = Served \ {n} /\ UNCHANGED unmounted
            BY <2>4 DEF RemoveMount, Served
        <3>3. Served' # {}
            <4>1. Cardinality({n}) = 1
                BY FS_Singleton
            <4> QED
                BY <3>1, <3>2, <4>1
        <3> QED
            BY <2>4, <3>1, <3>2, <3>3 DEF MapMove
    <2>5. ASSUME ~RegisterMount(c), ~RemoveMount(c)
          PROVE  MapMove(c)
        <3> USE DEF memory
        <3>1. ReadDone(c) \/ SetDefaultStep(c) \/ ForkStep(c) => UNCHANGED <<mounted, unmounted>>
            BY DEF ReadDone, SetDefaultStep, PersistDefault, PersistRefused, RefreshDefault,
                   ForkStep, ForkValidate, ForkCopy, ForkFails, ForkEnter
        <3>2. MountStep(c) \/ UnmountStep(c) => UNCHANGED <<mounted, unmounted>>
            BY <2>5
            DEF MountStep, MountResolve, ClaimRoot, ListForAgreement, AgreeOnReranker,
                LockRoot, MountRefused, UnmountStep, UnmountRefused, UnmountDone
        <3> QED
            <4>1. UNCHANGED <<mounted, unmounted>>
                BY <1>3, <3>1, <3>2 DEF CallStep
            <4> QED
                BY <4>1 DEF MapMove
    <2> QED
        BY <1>1, <2>2, <2>3, <2>4, <2>5
<1> QED
    BY <1>2, <1>3

\* A write of the registry file never leaves its default without an entry.
LEMMA FileSteps ==
    ASSUME TypeOK, DiskDefaultDefined, [Next]_vars
    PROVE  DiskDefaultDefined'
<1> USE DEF DiskDefaultDefined, file
<1>1. ASSUME NEW c \in Client, CallStep(c) \/ NewCall(c)
      PROVE  DiskDefaultDefined'
    BY <1>1
    DEF CallStep, NewCall, MountStep, SetDefaultStep, UnmountStep, ForkStep, ReadUnnamed,
        Read, Mount, SetDefault, Unmount, Fork, ReadDone, MountResolve, ClaimRoot,
        ListForAgreement, AgreeOnReranker, LockRoot, RegisterMount, MountRefused,
        PersistDefault, PersistRefused, RefreshDefault, RemoveMount, UnmountRefused,
        UnmountDone, ForkValidate, ForkCopy, ForkFails, ForkEnter, Claimed
<1>2. ASSUME NEW o \in Operator, OfflineStep(o)
      PROVE  DiskDefaultDefined'
    BY <1>2
    DEF OfflineStep, Remove, Add, SetDefaultOffline, PurgeLock, PurgeAborts, PurgeForgets,
        PurgeUnlocks, PurgeDeletes, Forgotten, Claimed
<1> QED
    BY <1>1, <1>2 DEF Next, PlanMounts, Assemble, Exit, vars

\* The registry's invariant holds in every reachable state.
LEMMA RegistryInvariant == Spec => [](TypeOK /\ RegistryInv)
<1>1. Init => RegistryInv
    BY LibrariesAssumption
    DEF Init, RegistryInv, NameInOneTable, AtLeastOneServed, DiskDefaultDefined, Served,
        NothingMounted
<1>2. TypeOK /\ RegistryInv /\ [Next]_vars => RegistryInv'
    <2> SUFFICES ASSUME TypeOK, RegistryInv, [Next]_vars
                 PROVE  RegistryInv'
        OBVIOUS
    <2>1. DiskDefaultDefined'
        BY FileSteps DEF RegistryInv
    <2> USE <2>1 DEF RegistryInv, NameInOneTable, AtLeastOneServed
    <2>2. ASSUME NEW name \in Name, PlanMounts(name)
          PROVE  RegistryInv'
        BY <2>2 DEF PlanMounts, Served
    <2>3. CASE Assemble
        <3>1. PICK opened \in SUBSET {n \in candidates : ~LockRefused(Root[n])} :
                       Assemble!(opened)
            BY <2>3 DEF Assemble
        <3>2. PICK served \in AgreeingWith(opened) : Assemble!(opened)!(served)
            BY <3>1
        <3>3. served # {} /\ served \subseteq candidates
            BY <3>2 DEF AgreeingWith
        <3>4. Served' = served
            BY <3>2 DEF Served
        <3> QED
            BY <3>2, <3>3, <3>4
    <2>4. CASE Exit
        BY <2>4 DEF Exit, Served, NothingMounted
    <2>5. ASSUME NEW c \in Client, CallStep(c) \/ NewCall(c)
          PROVE  RegistryInv'
        BY <2>5, ClientMoves DEF MapMove, Served
    <2>6. ASSUME NEW o \in Operator, OfflineStep(o)
          PROVE  RegistryInv'
        BY <2>6
        DEF OfflineStep, Remove, Add, SetDefaultOffline, PurgeLock, PurgeAborts,
            PurgeForgets, PurgeUnlocks, PurgeDeletes, Inside, memory, daemon, Served
    <2>7. CASE UNCHANGED vars
        BY <2>7 DEF vars, memory, daemon, Served
    <2> QED
        BY <2>2, <2>3, <2>4, <2>5, <2>6, <2>7 DEF Next
<1> QED
    BY <1>1, <1>2, TypeCorrect, PTL DEF Spec

\* No name is ever both served and recorded as not served.
THEOREM TablesAreDisjoint == Spec => []NameInOneTable
BY RegistryInvariant, PTL DEF RegistryInv

\* No interleaving of daemon and offline writes leaves a running daemon
\* without a library or the file with a dangling default.
THEOREM RegistryAlwaysStands == Spec => []RegistryStands
BY RegistryInvariant, PTL DEF RegistryInv, RegistryStands

-----------------------------------------------------------------------------
(* One name per data root, where every root can host a lock file and no    *)
(* offline command deletes one.                                            *)

\* The steps of a mount between the resolve and the registration.
MountingPc == {"claim", "list", "agree", "lock", "build"}

\* A root that is going to be locked is there, so it is locked and not served
\* unlocked.
RootsPresent ==
    /\ \A o \in Operator : offline[o].stage = "idle"
    /\ \A n \in entries \cup candidates : Root[n] \notin vacant
    /\ \A c \in Client : call[c].pc \in MountingPc \cup {"enter"} => Root[call[c].name] \notin vacant

\* claim_root is answered long before the mount is registered; what keeps two
\* names apart in between is the lock, which one handle or one mount holds.
OneHolder ==
    /\ OneRootEach(candidates)
    /\ OneRootEach(Served)
    /\ \A n \in Served : mounted[n]
    /\ \A c \in Client : call[c].guard <=> call[c].pc = "build"
    /\ \A c \in Client, n \in Served : call[c].guard => Root[n] # Root[call[c].name]
    /\ \A c, e \in Client : call[c].guard /\ call[e].guard /\ c # e
                                => Root[call[c].name] # Root[call[e].name]

LockInv == RootsPresent /\ OneHolder

\* What a client's step may do to its call and to the roots: a guard appears
\* only with the lock it stands for, and a root leaves `vacant`, never enters.
LockMove(c) ==
    /\ UNCHANGED <<candidates, offline>>
    /\ vacant' \subseteq vacant
    /\ \A n \in entries' \ entries : Root[n] \notin vacant'
    /\ \A e \in Client \ {c} : call'[e] = call[e]
    /\ call'[c].pc \in MountingPc \cup {"enter"} => Root[call'[c].name] \notin vacant'
    /\ call'[c].guard <=> call'[c].pc = "build"
    /\ call'[c].guard => ~Contended(Root[call'[c].name]) /\ UNCHANGED mounted

LEMMA ClientLocks ==
    ASSUME Roots \subseteq Lockable, TypeOK, LockInv,
           NEW c \in Client, CallStep(c) \/ NewCall(c)
    PROVE  LockMove(c)
<1>1. /\ call \in [Client -> Call]
      /\ call[c] \in Call
      /\ call[c].pc \in MountingPc \cup {"enter"}
             => call[c].name \in Name /\ Root[call[c].name] \notin vacant
      /\ call[c].guard <=> call[c].pc = "build"
    BY DEF TypeOK, Call, LockInv, RootsPresent, OneHolder, MountingPc
<1>2. ASSUME call' = [call EXCEPT ![c] = call'[c]],
             call'[c].guard = FALSE, call'[c].pc \notin MountingPc \cup {"enter"},
             UNCHANGED <<candidates, offline, vacant, entries>>
      PROVE  LockMove(c)
    BY <1>1, <1>2 DEF LockMove, MountingPc
<1>3. ASSUME Return(c), UNCHANGED <<candidates, offline, vacant, entries>>
      PROVE  LockMove(c)
    BY <1>1, <1>2, <1>3 DEF Return, NoCall, MountingPc
<1> USE DEF Outside, daemon, memory, file
<1>4. ASSUME NEW n, Read(c, n)
      PROVE  LockMove(c)
    BY <1>1, <1>2, <1>4 DEF Read, NoCall, MountingPc
<1>5. CASE \E n \in Name : Mount(c, n) \/ SetDefault(c, n) \/ Unmount(c, n)
    <2>1. UNCHANGED <<candidates, offline, vacant, entries>>
        BY <1>5 DEF Mount, SetDefault, Unmount
    <2>2. PICK n \in Name : Mount(c, n) \/ SetDefault(c, n) \/ Unmount(c, n)
        BY <1>5
    <2>3. ASSUME NEW r, call' = [call EXCEPT ![c] = r], r.guard = FALSE,
                 r.pc \in {"ask", "persist", "unmount"}
          PROVE  LockMove(c)
        <3>1. call'[c] = r
            BY <2>3, <1>1
        <3>2. call'[c].guard = FALSE /\ call'[c].pc \notin MountingPc \cup {"enter"}
            BY <2>3, <3>1 DEF MountingPc
        <3>3. call' = [call EXCEPT ![c] = call'[c]]
            BY <2>3, <3>1
        <3> QED
            BY <2>1, <3>2, <3>3, <1>2
    <2>4. CASE Mount(c, n)
        <3> DEFINE r == [NoCall EXCEPT !.op = "mount", !.pc = "ask", !.name = n]
        <3>1. call' = [call EXCEPT ![c] = r]
            BY <2>4 DEF Mount
        <3>2. r.guard = FALSE /\ r.pc = "ask"
            BY DEF NoCall
        <3> HIDE DEF r
        <3> QED
            BY <2>3, <3>1, <3>2
    <2>5. CASE SetDefault(c, n)
        <3> DEFINE r == [NoCall EXCEPT !.op = "set_default", !.name = n,
                             !.pc = IF n \in Served THEN "persist" ELSE "ask"]
        <3>1. call' = [call EXCEPT ![c] = r]
            BY <2>5 DEF SetDefault
        <3>2. r.guard = FALSE /\ r.pc \in {"ask", "persist"}
            BY DEF NoCall
        <3> HIDE DEF r
        <3> QED
            BY <2>3, <3>1, <3>2
    <2>6. CASE Unmount(c, n)
        <3> DEFINE r == [NoCall EXCEPT !.op = "unmount", !.pc = "unmount", !.name = n]
        <3>1. call' = [call EXCEPT ![c] = r]
            BY <2>6 DEF Unmount
        <3>2. r.guard = FALSE /\ r.pc = "unmount"
            BY DEF NoCall
        <3> HIDE DEF r
        <3> QED
            BY <2>3, <3>1, <3>2
    <2> QED
        BY <2>2, <2>4, <2>5, <2>6
<1>6. CASE \E n, source \in Name : Fork(c, source, n)
    BY <1>1, <1>2, <1>6 DEF Fork, NoCall, MountingPc
<1>7. CASE ReadDone(c) \/ MountRefused(c) \/ PersistRefused(c) \/ RefreshDefault(c)
            \/ UnmountRefused(c) \/ UnmountDone(c) \/ ForkFails(c)
    BY <1>3, <1>7
    DEF ReadDone, MountRefused, PersistRefused, RefreshDefault, UnmountRefused,
        UnmountDone, ForkFails
<1>8. CASE MountResolve(c) \/ ClaimRoot(c)
    <2>1. UNCHANGED <<candidates, offline, vacant, entries>>
        BY <1>8 DEF MountResolve, ClaimRoot
    <2>2. PICK pc \in {"claim", "list"} : call' = [call EXCEPT ![c].pc = pc]
        BY <1>8 DEF MountResolve, ClaimRoot, Goto
    <2>3. /\ call[c].pc \in {"ask", "claim"}
          /\ Root[call[c].name] \notin vacant
        BY <1>8, <1>1 DEF MountResolve, ClaimRoot, At, MountingPc
    <2>4. call'[c].pc = pc /\ call'[c].name = call[c].name /\ call'[c].guard = FALSE
        BY <2>2, <2>3, <1>1 DEF Call, CallRecord
    <2> QED
        BY <2>1, <2>2, <2>3, <2>4, <1>1 DEF LockMove
<1>9. CASE ListForAgreement(c) \/ AgreeOnReranker(c)
    <2>1. UNCHANGED <<candidates, offline, vacant, entries>>
        BY <1>9 DEF ListForAgreement, AgreeOnReranker
    <2>2. PICK pc \in {"agree", "lock"}, seen \in {Served, {}} :
              call' = [call EXCEPT ![c].pc = pc, ![c].seen = seen]
        BY <1>9 DEF ListForAgreement, AgreeOnReranker
    <2>3. /\ call[c].pc \in {"list", "agree"}
          /\ Root[call[c].name] \notin vacant
        BY <1>9, <1>1 DEF ListForAgreement, AgreeOnReranker, At, MountingPc
    <2>4. call'[c].pc = pc /\ call'[c].name = call[c].name /\ call'[c].guard = FALSE
        BY <2>2, <2>3, <1>1 DEF Call, CallRecord
    <2> QED
        BY <2>1, <2>2, <2>3, <2>4, <1>1 DEF LockMove
<1>10. CASE LockRoot(c)
    <2> DEFINE r == Root[call[c].name]
    <2>1. CanHostLock(r)
        BY <1>1, <1>10 DEF LockRoot, At, CanHostLock, Roots, MountingPc
    <2>2. ~Contended(r)
        BY <2>1, <1>10 DEF LockRoot, LockRefused
    <2>3. call' = [call EXCEPT ![c].pc = "build", ![c].guard = TRUE]
        BY <2>1, <1>10 DEF LockRoot
    <2>4. call'[c].pc = "build" /\ call'[c].guard = TRUE /\ call'[c].name = call[c].name
        BY <2>3, <1>1 DEF Call, CallRecord
    <2>5. r \notin vacant
        BY <1>1, <1>10 DEF LockRoot, At, MountingPc
    <2>6. UNCHANGED <<candidates, offline, vacant, entries, mounted>>
        BY <1>10 DEF LockRoot
    <2> QED
        BY <2>2, <2>3, <2>4, <2>5, <2>6, <1>1 DEF LockMove
<1>11. CASE RegisterMount(c)
    <2>1. UNCHANGED <<candidates, offline, vacant, entries>>
        BY <1>11 DEF RegisterMount
    <2>2. Return(c) \/ call' = [call EXCEPT ![c].pc = "persist", ![c].guard = FALSE]
        BY <1>11 DEF RegisterMount, AfterMount
    <2> QED
        <3>1. CASE Return(c)
            BY <3>1, <2>1, <1>3
        <3>2. CASE call' = [call EXCEPT ![c].pc = "persist", ![c].guard = FALSE]
            <4>1. call'[c].pc = "persist" /\ call'[c].guard = FALSE
                BY <3>2, <1>1 DEF Call, CallRecord
            <4> QED
                BY <3>2, <4>1, <2>1, <1>1, <1>2 DEF MountingPc
        <3> QED
            BY <3>1, <3>2, <2>2
<1>12. CASE PersistDefault(c) \/ RemoveMount(c) \/ ForkValidate(c)
    <2>1. UNCHANGED <<candidates, offline, vacant, entries>>
        BY <1>12 DEF PersistDefault, RemoveMount, ForkValidate
    <2>2. call[c].guard = FALSE /\ call' = [call EXCEPT ![c] = call'[c]]
        BY <1>12, <1>1 DEF PersistDefault, RemoveMount, ForkValidate, Goto, At
    <2>3. call'[c].pc \in {"refresh", "drop", "copy"} /\ call'[c].guard = call[c].guard
        BY <1>12, <1>1
        DEF PersistDefault, RemoveMount, ForkValidate, Goto, Call, CallRecord
    <2> QED
        BY <2>1, <2>2, <2>3, <1>2 DEF MountingPc
<1>13. CASE ForkCopy(c)
    BY <1>1, <1>13 DEF ForkCopy, Goto, At, LockMove, MountingPc
<1>14. CASE ForkEnter(c)
    BY <1>1, <1>14 DEF ForkEnter, Goto, At, LockMove, MountingPc
<1>15. CASE ReadUnnamed(c)
    BY <1>4, <1>15 DEF ReadUnnamed
<1> QED
    BY <1>4, <1>5, <1>6, <1>7, <1>8, <1>9, <1>10, <1>11, <1>12, <1>13, <1>14, <1>15
    DEF CallStep, NewCall, MountStep, SetDefaultStep, UnmountStep, ForkStep

\* A client's step keeps the locks and the map together.
LEMMA ClientKeepsLocks ==
    ASSUME Roots \subseteq Lockable, TypeOK, RegistryInv, LockInv,
           NEW c \in Client, CallStep(c) \/ NewCall(c)
    PROVE  LockInv'
<1>1. LockMove(c) /\ MapMove(c)
    BY ClientLocks, ClientMoves
<1>2. RootsPresent'
    BY <1>1 DEF LockMove, LockInv, RootsPresent
<1>3. /\ OneRootEach(candidates)'
      /\ \A e \in Client : call'[e].guard <=> call'[e].pc = "build"
      /\ \A d, e \in Client : call'[d].guard /\ call'[e].guard /\ d # e
                                => Root[call'[d].name] # Root[call'[e].name]
    <2>1. ASSUME NEW e \in Client \ {c}, call'[c].guard, call'[e].guard
          PROVE  Root[call'[c].name] # Root[call'[e].name]
        BY <1>1, <2>1 DEF LockMove, Contended, GuardsOf
    <2> QED
        BY <1>1, <2>1 DEF LockMove, LockInv, OneHolder, OneRootEach
<1>4. CASE UNCHANGED <<mounted, unmounted>>
    <2>1. Served' = Served
        BY <1>4 DEF Served
    <2>2. \A n \in Served : call'[c].guard => Root[n] # Root[call'[c].name]
        BY <1>1 DEF LockMove, Contended, GuardsOf, LockInv, OneHolder
    <2> QED
        BY <1>1, <1>2, <1>3, <1>4, <2>1, <2>2
        DEF LockMove, LockInv, OneHolder, OneRootEach
<1>5. CASE RegisterMount(c) /\ Served' = Served \cup {call[c].name}
    <2> DEFINE n == call[c].name
    <2>1. n \notin Served /\ call[c].guard
        BY <1>5 DEF RegisterMount, At, LockInv, OneHolder
    <2>2. \A m \in Served : Root[m] # Root[n]
        BY <2>1 DEF LockInv, OneHolder
    <2>3. \A m \in Served' : mounted'[m]
        BY <1>5, <2>1 DEF RegisterMount, LockInv, OneHolder
    <2>4. ~call'[c].guard
        BY <1>1, <1>5, <2>1 DEF LockMove, Served
    <2>5. \A e \in Client \ {c} : call'[e] = call[e]
        BY <1>1 DEF LockMove
    <2>6. \A e \in Client, m \in Served' : call'[e].guard => Root[m] # Root[call'[e].name]
        BY <1>5, <2>1, <2>4, <2>5 DEF LockInv, OneHolder
    <2>7. OneRootEach(Served)'
        BY <1>5, <2>2 DEF LockInv, OneHolder, OneRootEach
    <2> QED
        BY <1>2, <1>3, <2>3, <2>6, <2>7 DEF LockInv, OneHolder
<1>6. CASE RemoveMount(c)
    <2>1. /\ Served' \subseteq Served
          /\ \A m \in Served' : mounted'[m] = mounted[m]
          /\ mounted' # mounted
        BY <1>6 DEF RemoveMount, Removable, Served
    <2>2. ~call'[c].guard
        BY <1>1, <2>1 DEF LockMove
    <2> QED
        BY <1>1, <1>2, <1>3, <2>1, <2>2 DEF LockMove, LockInv, OneHolder, OneRootEach
<1> QED
    BY <1>1, <1>4, <1>5, <1>6 DEF MapMove

\* Locks and map stay together in every step, as long as no root is purged
\* and every one can be locked.
LEMMA LocksAreKept ==
    ASSUME Roots \subseteq Lockable, "purge" \notin OfflineVerbs,
           TypeOK, RegistryInv, LockInv, [Next]_vars
    PROVE  LockInv'
<1>1. ASSUME NEW name \in Name, PlanMounts(name)
      PROVE  LockInv'
    <2>1. OneRootEach(candidates') /\ \A n \in candidates' : Root[n] \notin vacant
        BY <1>1 DEF PlanMounts, ClaimedRoots
    <2>2. UNCHANGED <<mounted, Served, entries, vacant, call, offline>>
        BY <1>1 DEF PlanMounts, Served, file
    <2> QED
        BY <2>1, <2>2 DEF LockInv, RootsPresent, OneHolder, OneRootEach
<1>2. CASE Assemble
    <2>1. PICK opened \in SUBSET {n \in candidates : ~LockRefused(Root[n])} :
                   Assemble!(opened)
        BY <1>2 DEF Assemble
    <2>2. PICK served \in AgreeingWith(opened) : Assemble!(opened)!(served)
        BY <2>1
    <2>3. served \subseteq candidates /\ Served' = served
        BY <2>2 DEF AgreeingWith, Served
    <2>4. \A n \in served : mounted'[n]
        <3>1. \A n \in served : CanHostLock(Root[n])
            BY <2>3 DEF CanHostLock, Roots, LockInv, RootsPresent, TypeOK
        <3> QED
            BY <2>2, <3>1
    <2>5. \A c \in Client : call'[c] = NoCall
        BY <2>2 DEF RegistryInv
    <2>6. candidates' = {} /\ UNCHANGED <<entries, vacant, offline>>
        BY <2>2 DEF file
    <2>7. RootsPresent'
        BY <2>5, <2>6 DEF LockInv, RootsPresent, NoCall, MountingPc
    <2> QED
        BY <2>3, <2>4, <2>5, <2>6, <2>7 DEF LockInv, OneHolder, OneRootEach, NoCall
<1>3. CASE Exit
    <2>1. /\ candidates' = {} /\ Served' = {}
          /\ UNCHANGED <<entries, vacant, offline>>
          /\ \A c \in Client : call'[c] = NoCall
        BY <1>3 DEF Exit, NothingMounted, Served, file
    <2> QED
        BY <2>1 DEF LockInv, RootsPresent, OneHolder, OneRootEach, NoCall, MountingPc
<1>4. ASSUME NEW c \in Client, CallStep(c) \/ NewCall(c)
      PROVE  LockInv'
    BY <1>4, ClientKeepsLocks
<1>5. ASSUME NEW o \in Operator, OfflineStep(o)
      PROVE  LockInv'
    <2>1. UNCHANGED <<mounted, Served, candidates, call, vacant>>
        BY <1>5
        DEF OfflineStep, Remove, Add, SetDefaultOffline, PurgeLock, PurgeAborts,
            PurgeForgets, PurgeUnlocks, PurgeDeletes, Inside, memory, daemon, Served,
            Command, LockInv, RootsPresent
    <2>2. UNCHANGED offline
        BY <1>5
        DEF OfflineStep, Remove, Add, SetDefaultOffline, PurgeLock, PurgeAborts,
            PurgeForgets, PurgeUnlocks, PurgeDeletes, Command, LockInv, RootsPresent
    <2>3. \A n \in entries' : n \in entries \/ Root[n] \notin vacant
        BY <1>5
        DEF OfflineStep, Remove, Add, SetDefaultOffline, PurgeLock, PurgeAborts,
            PurgeForgets, PurgeUnlocks, PurgeDeletes, Forgotten, file
    <2> QED
        BY <2>1, <2>2, <2>3 DEF LockInv, RootsPresent, OneHolder, OneRootEach
<1>6. CASE UNCHANGED vars
    BY <1>6 DEF vars, memory, file, daemon, LockInv, RootsPresent, OneHolder, OneRootEach, Served
<1> QED
    BY <1>1, <1>2, <1>3, <1>4, <1>5, <1>6 DEF Next

\* While every data root can be locked and no offline command deletes one,
\* no two served names share a data root, however mounts interleave.
THEOREM OneRootOneName ==
    ASSUME Roots \subseteq Lockable, "purge" \notin OfflineVerbs
    PROVE  Spec => []OneNamePerRoot
<1>1. Init => LockInv
    BY LibrariesAssumption
    DEF Init, LockInv, RootsPresent, OneHolder, OneRootEach, Served, NothingMounted, NoCall,
        MountingPc, Roots
<1>2. TypeOK /\ RegistryInv /\ LockInv /\ [Next]_vars => LockInv'
    BY LocksAreKept
<1>3. LockInv => OneNamePerRoot
    BY DEF LockInv, OneHolder, OneNamePerRoot
<1> QED
    BY <1>1, <1>2, <1>3, RegistryInvariant, PTL DEF Spec

-----------------------------------------------------------------------------
(* The served set and its reranker stage.                                  *)

\* Every change of the map but set_default's runs in a write session, one at
\* a time: what a mount compared the new library with is what it joins.
AgreeInv ==
    /\ ServedSetAgrees
    /\ \A x \in Client : call[x].pc \notin {"idle", "serving"} => writer = x
    /\ \A x \in Client : call[x].pc = "agree" => Served \subseteq call[x].seen
    /\ \A x \in Client : call[x].pc \in {"lock", "build"} =>
                             \A m \in Served : Reranker[m] = Reranker[call[x].name]
    /\ \A x \in Client : call[x].op # "set_default"

\* What a client's step may do to the map, the write mutex and its own call.
AgreeMove(c) ==
    /\ \A e \in Client \ {c} : call'[e] = call[e]
    /\ call'[c].op # "set_default"
    /\ writer' \in {writer, c, NoClient}
    /\ writer' # writer => writer \in {c, NoClient}
    /\ call'[c].pc \notin {"idle", "serving"} => writer' = c
    /\ call'[c].pc = "agree" => Served' \subseteq call'[c].seen
    /\ call'[c].pc \in {"lock", "build"} =>
           \A m \in Served' : Reranker[m] = Reranker[call'[c].name]
    /\ Served' # Served => writer = c
    /\ \A m, n \in Served' : Reranker[m] = Reranker[n]

LEMMA ClientAgrees ==
    ASSUME "set_default" \notin Requests, TypeOK, AgreeInv,
           NEW c \in Client, CallStep(c) \/ NewCall(c)
    PROVE  AgreeMove(c)
<1>1. /\ call \in [Client -> Call]
      /\ call[c] \in CallRecord
      /\ call[c].op # "set_default"
      /\ call[c].pc \notin {"idle", "serving"} => writer = c
      /\ \A m, n \in Served : Reranker[m] = Reranker[n]
    BY DEF TypeOK, Call, AgreeInv, ServedSetAgrees
<1>2. ASSUME UNCHANGED mounted,
             NEW r, call' = [call EXCEPT ![c] = r],
             r.op # "set_default",
             writer' \in {writer, c, NoClient}, writer' # writer => writer \in {c, NoClient},
             r.pc \notin {"idle", "serving"} => writer' = c,
             r.pc \notin {"agree", "lock", "build"}
      PROVE  AgreeMove(c)
    <2>1. Served' = Served /\ call'[c] = r
        BY <1>1, <1>2 DEF Served
    <2> QED
        BY <1>1, <1>2, <2>1 DEF AgreeMove
<1>3. ASSUME Return(c), UNCHANGED mounted
      PROVE  AgreeMove(c)
    <2>1. NoCall.op # "set_default" /\ NoCall.pc = "idle"
        BY DEF NoCall
    <2>2. call' = [call EXCEPT ![c] = NoCall]
        BY <1>3 DEF Return
    <2>3. writer' \in {writer, c, NoClient} /\ (writer' # writer => writer \in {c, NoClient})
        BY <1>3 DEF Return
    <2> QED
        BY <1>2, <1>3, <2>1, <2>2, <2>3
<1>4. ASSUME NEW pc \in CallPc \ {"idle", "serving", "agree", "lock", "build"}, Goto(c, pc),
             call[c].pc \notin {"idle", "serving"}, UNCHANGED <<mounted, writer>>
      PROVE  AgreeMove(c)
    <2> DEFINE r == [call[c] EXCEPT !.pc = pc]
    <2>1. call' = [call EXCEPT ![c] = r]
        BY <1>1, <1>4 DEF Goto
    <2>2. r.op = call[c].op /\ r.pc = pc
        BY <1>1 DEF CallRecord
    <2> HIDE DEF r
    <2> QED
        BY <1>1, <1>2, <1>4, <2>1, <2>2
<1> USE DEF Outside, daemon, memory, file
<1>5. ASSUME NEW n, Read(c, n)
      PROVE  AgreeMove(c)
    <2> DEFINE r == [NoCall EXCEPT !.op = "read", !.pc = "serving",
                         !.handle = [name |-> n, guarded |-> mounted[n]]]
    <2>1. call' = [call EXCEPT ![c] = r] /\ UNCHANGED <<mounted, writer>>
        BY <1>5 DEF Read
    <2>2. r.op = "read" /\ r.pc = "serving"
        BY DEF NoCall
    <2> HIDE DEF r
    <2> QED
        BY <1>2, <2>1, <2>2
<1>6. ASSUME NEW n \in Name, Mount(c, n)
      PROVE  AgreeMove(c)
    <2> DEFINE r == [NoCall EXCEPT !.op = "mount", !.pc = "ask", !.name = n]
    <2>1. call' = [call EXCEPT ![c] = r] /\ UNCHANGED mounted /\ writer = NoClient /\ writer' = c
        BY <1>6 DEF Mount, TakeWriteMutex
    <2>2. r.op = "mount" /\ r.pc = "ask"
        BY DEF NoCall
    <2> HIDE DEF r
    <2> QED
        BY <1>2, <2>1, <2>2
<1>7. ASSUME NEW n \in Name, Unmount(c, n)
      PROVE  AgreeMove(c)
    <2> DEFINE r == [NoCall EXCEPT !.op = "unmount", !.pc = "unmount", !.name = n]
    <2>1. call' = [call EXCEPT ![c] = r] /\ UNCHANGED mounted /\ writer = NoClient /\ writer' = c
        BY <1>7 DEF Unmount, TakeWriteMutex
    <2>2. r.op = "unmount" /\ r.pc = "unmount"
        BY DEF NoCall
    <2> HIDE DEF r
    <2> QED
        BY <1>2, <2>1, <2>2
<1>8. ASSUME NEW n \in Name, NEW source \in Name, Fork(c, source, n)
      PROVE  AgreeMove(c)
    <2> DEFINE r == [NoCall EXCEPT !.op = "fork", !.pc = "validate", !.name = n,
                         !.handle = [name |-> source, guarded |-> mounted[source]]]
    <2>1. call' = [call EXCEPT ![c] = r] /\ UNCHANGED mounted /\ writer = NoClient /\ writer' = c
        BY <1>8 DEF Fork, TakeWriteMutex
    <2>2. r.op = "fork" /\ r.pc = "validate"
        BY DEF NoCall
    <2> HIDE DEF r
    <2> QED
        BY <1>2, <2>1, <2>2
<1>9. \A n \in Name : ~SetDefault(c, n)
    BY DEF SetDefault, Issue
<1>10. ~SetDefaultStep(c)
    BY <1>1 DEF SetDefaultStep, PersistDefault, PersistRefused, RefreshDefault, At
<1>11. CASE ReadDone(c) \/ MountRefused(c) \/ UnmountRefused(c) \/ UnmountDone(c)
            \/ ForkFails(c)
    BY <1>3, <1>11 DEF ReadDone, MountRefused, UnmountRefused, UnmountDone, ForkFails
<1>12. CASE MountResolve(c) \/ ClaimRoot(c) \/ ForkValidate(c) \/ ForkCopy(c) \/ ForkEnter(c)
    BY <1>4, <1>12
    DEF MountResolve, ClaimRoot, ForkValidate, ForkCopy, ForkEnter, At, CallPc
<1>13. CASE ListForAgreement(c)
    <2> DEFINE r == [call[c] EXCEPT !.pc = "agree", !.seen = Served]
    <2>1. call' = [call EXCEPT ![c] = r]
        BY <1>1, <1>13 DEF ListForAgreement
    <2>2. call'[c] = r
        BY <1>1, <2>1
    <2>3. r.op = call[c].op /\ r.pc = "agree" /\ r.seen = Served
        BY <1>1 DEF CallRecord
    <2> HIDE DEF r
    <2>4. Served' = Served /\ writer' = writer /\ call[c].pc = "list"
        BY <1>13 DEF ListForAgreement, At, Served
    <2> QED
        BY <1>1, <2>1, <2>2, <2>3, <2>4 DEF AgreeMove
<1>14. CASE AgreeOnReranker(c)
    <2> DEFINE r == [call[c] EXCEPT !.pc = "lock", !.seen = {}]
    <2>1. call' = [call EXCEPT ![c] = r]
        BY <1>1, <1>14 DEF AgreeOnReranker
    <2>2. call'[c] = r
        BY <1>1, <2>1
    <2>3. r.op = call[c].op /\ r.pc = "lock" /\ r.name = call[c].name
        BY <1>1 DEF CallRecord
    <2> HIDE DEF r
    <2>4. Served' = Served /\ writer' = writer /\ call[c].pc = "agree"
        BY <1>14 DEF AgreeOnReranker, At, Served
    <2>5. Served \subseteq call[c].seen
        BY <2>4 DEF AgreeInv
    <2>6. \A m \in Served : Reranker[m] = Reranker[call[c].name]
        BY <1>14, <2>5 DEF AgreeOnReranker
    <2> QED
        BY <1>1, <2>1, <2>2, <2>3, <2>4, <2>6 DEF AgreeMove
<1>15. CASE LockRoot(c)
    <2>1. PICK guard : call' = [call EXCEPT ![c] = [call[c] EXCEPT !.pc = "build", !.guard = guard]]
        BY <1>1, <1>15 DEF LockRoot
    <2> DEFINE r == [call[c] EXCEPT !.pc = "build", !.guard = guard]
    <2>2. call'[c] = r
        BY <1>1, <2>1
    <2>3. r.op = call[c].op /\ r.pc = "build" /\ r.name = call[c].name
        BY <1>1 DEF CallRecord
    <2> HIDE DEF r
    <2>4. Served' = Served /\ writer' = writer /\ call[c].pc = "lock"
        BY <1>15 DEF LockRoot, At, Served
    <2>5. \A m \in Served : Reranker[m] = Reranker[call[c].name]
        BY <2>4 DEF AgreeInv
    <2>6. \A e \in Client \ {c} : call'[e] = call[e]
        BY <2>1
    <2> QED
        BY <1>1, <2>2, <2>3, <2>4, <2>5, <2>6 DEF AgreeMove
<1>16. CASE RegisterMount(c)
    <2>1. call[c].pc = "build" /\ writer = c
        BY <1>1, <1>16 DEF RegisterMount, At
    <2>2. \A m \in Served : Reranker[m] = Reranker[call[c].name]
        BY <2>1 DEF AgreeInv
    <2>3. Served' = Served \cup {call[c].name}
        BY <1>16 DEF RegisterMount, Served
    <2>4. \A m, n \in Served' : Reranker[m] = Reranker[n]
        BY <1>1, <2>2, <2>3
    <2>5. call' = [call EXCEPT ![c] = NoCall] /\ writer' = NoClient
        BY <1>1, <1>16, <2>1 DEF RegisterMount, AfterMount, Return
    <2>6. call'[c] = NoCall
        BY <1>1, <2>5
    <2> QED
        BY <2>1, <2>4, <2>5, <2>6 DEF AgreeMove, NoCall
<1>17. CASE RemoveMount(c)
    <2>1. PICK h : call' = [call EXCEPT ![c] = [call[c] EXCEPT !.pc = "drop", !.handle = h]]
        BY <1>1, <1>17 DEF RemoveMount
    <2> DEFINE r == [call[c] EXCEPT !.pc = "drop", !.handle = h]
    <2>2. call'[c] = r
        BY <1>1, <2>1
    <2>3. r.op = call[c].op /\ r.pc = "drop"
        BY <1>1 DEF CallRecord
    <2> HIDE DEF r
    <2>4. writer' = writer /\ writer = c
        BY <1>1, <1>17 DEF RemoveMount, At
    <2>5. Served' \subseteq Served
        BY <1>17 DEF RemoveMount, Served
    <2>6. \A e \in Client \ {c} : call'[e] = call[e]
        BY <2>1
    <2>7. \A m, n \in Served' : Reranker[m] = Reranker[n]
        BY <1>1, <2>5
    <2> QED
        BY <1>1, <2>2, <2>3, <2>4, <2>6, <2>7 DEF AgreeMove
<1>18. CASE ReadUnnamed(c)
    BY <1>5, <1>18 DEF ReadUnnamed
<1> QED
    BY <1>5, <1>6, <1>7, <1>8, <1>9, <1>10, <1>11, <1>12, <1>13, <1>14, <1>15, <1>16, <1>17,
       <1>18
    DEF CallStep, NewCall, MountStep, UnmountStep, ForkStep

\* A client's step keeps the set in agreement: a map that moves under
\* another call's comparison would take the mutex from that call.
LEMMA ClientKeepsAgreement ==
    ASSUME "set_default" \notin Requests, TypeOK, AgreeInv,
           NEW c \in Client, CallStep(c) \/ NewCall(c)
    PROVE  AgreeInv'
<1>1. AgreeMove(c)
    BY ClientAgrees
<1>2. ServedSetAgrees'
    BY <1>1 DEF AgreeMove, ServedSetAgrees
<1>3. ASSUME NEW x \in Client, x # c, call[x].pc \notin {"idle", "serving"}
      PROVE  writer' = x /\ Served' = Served
    <2>1. writer = x /\ x # NoClient
        BY <1>3, LibrariesAssumption DEF AgreeInv
    <2> QED
        BY <1>1, <1>3, <2>1 DEF AgreeMove
<1>4. ASSUME NEW x \in Client
      PROVE  /\ call'[x].pc \notin {"idle", "serving"} => writer' = x
             /\ call'[x].pc = "agree" => Served' \subseteq call'[x].seen
             /\ call'[x].pc \in {"lock", "build"} =>
                    \A m \in Served' : Reranker[m] = Reranker[call'[x].name]
             /\ call'[x].op # "set_default"
    <2>1. CASE x = c
        BY <1>1, <2>1 DEF AgreeMove
    <2>2. CASE x # c
        <3>1. call'[x] = call[x]
            BY <1>1, <2>2 DEF AgreeMove
        <3> QED
            BY <1>3, <2>2, <3>1 DEF AgreeInv
    <2> QED
        BY <2>1, <2>2
<1> QED
    BY <1>2, <1>4 DEF AgreeInv

\* Without set_default, whose mount takes no write session, every library a
\* daemon serves runs under the one reranker stage.
THEOREM OneReranker ==
    ASSUME "set_default" \notin Requests
    PROVE  Spec => []ServedSetAgrees
<1>1. Init => AgreeInv
    BY DEF Init, AgreeInv, ServedSetAgrees, Served, NothingMounted, NoCall
<1>2. TypeOK /\ RegistryInv /\ AgreeInv /\ [Next]_vars => AgreeInv'
    <2> SUFFICES ASSUME TypeOK, RegistryInv, AgreeInv, [Next]_vars
                 PROVE  AgreeInv'
        OBVIOUS
    <2>1. ASSUME NEW name \in Name, PlanMounts(name)
          PROVE  AgreeInv'
        <3>1. UNCHANGED <<mounted, Served, call, writer>>
            BY <2>1 DEF PlanMounts, Served
        <3> QED
            BY <3>1 DEF AgreeInv, ServedSetAgrees
    <2>2. CASE Assemble
        <3>1. PICK opened \in SUBSET {n \in candidates : ~LockRefused(Root[n])} :
                       Assemble!(opened)
            BY <2>2 DEF Assemble
        <3>2. PICK served \in AgreeingWith(opened) : Assemble!(opened)!(served)
            BY <3>1
        <3>3. Served' = served /\ UNCHANGED <<call, writer>>
            BY <3>2 DEF Served
        <3>4. \A m, n \in served : Reranker[m] = Reranker[n]
            BY <3>2 DEF AgreeingWith
        <3>5. \A x \in Client : call[x].pc = "idle"
            BY <3>2 DEF RegistryInv, NoCall
        <3> QED
            BY <3>3, <3>4, <3>5 DEF AgreeInv, ServedSetAgrees
    <2>3. CASE Exit
        <3>1. Served' = {} /\ \A x \in Client : call'[x] = NoCall
            BY <2>3 DEF Exit, NothingMounted, Served
        <3> QED
            BY <3>1 DEF AgreeInv, ServedSetAgrees, NoCall
    <2>4. ASSUME NEW c \in Client, CallStep(c) \/ NewCall(c)
          PROVE  AgreeInv'
        BY <2>4, ClientKeepsAgreement
    <2>5. ASSUME NEW o \in Operator, OfflineStep(o)
          PROVE  AgreeInv'
        <3>1. Inside
            BY <2>5
            DEF OfflineStep, Remove, Add, SetDefaultOffline, PurgeLock, PurgeAborts,
                PurgeForgets, PurgeUnlocks, PurgeDeletes
        <3>2. UNCHANGED <<mounted, Served, call, writer>>
            BY <3>1 DEF Inside, memory, Served
        <3> QED
            BY <3>2 DEF AgreeInv, ServedSetAgrees
    <2>6. CASE UNCHANGED vars
        <3>1. UNCHANGED <<mounted, Served, call, writer>>
            BY <2>6 DEF vars, memory, Served
        <3> QED
            BY <3>1 DEF AgreeInv, ServedSetAgrees
    <2> QED
        BY <2>1, <2>2, <2>3, <2>4, <2>5, <2>6 DEF Next
<1>3. AgreeInv => ServedSetAgrees
    BY DEF AgreeInv
<1> QED
    BY <1>1, <1>2, <1>3, RegistryInvariant, PTL DEF Spec

-----------------------------------------------------------------------------
(* An offline purge and the handles of a running daemon.                   *)

\* A handle on a root that can host the lock carries it, from the moment a
\* mount takes it; a root a purge has locked can still host it and is not
\* guarded by the daemon.
PurgeInv ==
    /\ \A n \in Served : CanHostLock(Root[n]) => mounted[n]
    /\ \A x \in Client :
           \/ call[x].handle = NoHandle
           \/ /\ call[x].handle.name \in Name
              /\ CanHostLock(Root[call[x].handle.name]) => call[x].handle.guarded
    /\ \A x \in Client : (call[x].pc = "build" /\ CanHostLock(Root[call[x].name]))
                             => call[x].guard
    /\ \A o \in Operator, r \in Roots : PurgeHolds(o, r) => CanHostLock(r) /\ ~GuardsOf(r)
    /\ \A x \in Client : call[x].op # "fork"

HandlesServed == {[name |-> n, guarded |-> mounted[n]] : n \in Served}

\* What a client's step may do to the guards when nothing forks: they move
\* between the call and the map with the library they belong to, and a new
\* one is a lock the root could give.
GuardMove(c) ==
    /\ UNCHANGED <<vacant, offline>>
    /\ \A e \in Client \ {c} : call'[e] = call[e]
    /\ call'[c].op # "fork"
    /\ call'[c].handle \in {NoHandle, call[c].handle} \cup HandlesServed
    /\ \A n \in Served' :
           \/ n \in Served /\ mounted'[n] = mounted[n]
           \/ n = call[c].name /\ call[c].pc = "build" /\ mounted'[n] = call[c].guard
    /\ (call'[c].pc = "build" /\ CanHostLock(Root[call'[c].name])) => call'[c].guard
    /\ call'[c].guard =>
           \/ call[c].guard /\ call'[c].name = call[c].name
           \/ CanHostLock(Root[call'[c].name]) /\ ~Contended(Root[call'[c].name])

LEMMA ClientGuards ==
    ASSUME "fork" \notin Requests, TypeOK, PurgeInv,
           NEW c \in Client, CallStep(c) \/ NewCall(c)
    PROVE  GuardMove(c)
<1>1. /\ call \in [Client -> Call]
      /\ call[c] \in CallRecord
      /\ call[c].op # "fork"
    BY DEF TypeOK, Call, PurgeInv
<1>2. ASSUME UNCHANGED <<mounted, vacant, offline>>,
             NEW r, call' = [call EXCEPT ![c] = r],
             r.op # "fork", r.pc # "build",
             r.handle \in {NoHandle, call[c].handle} \cup HandlesServed,
             r.guard = FALSE \/ (r.guard = call[c].guard /\ r.name = call[c].name)
      PROVE  GuardMove(c)
    <2>1. Served' = Served /\ call'[c] = r
        BY <1>1, <1>2 DEF Served
    <2> QED
        BY <1>1, <1>2, <2>1 DEF GuardMove
<1>3. ASSUME Return(c), UNCHANGED <<mounted, vacant, offline>>
      PROVE  GuardMove(c)
    <2>1. /\ NoCall.op # "fork" /\ NoCall.pc # "build" /\ NoCall.guard = FALSE
          /\ NoCall.handle = NoHandle
        BY DEF NoCall
    <2>2. call' = [call EXCEPT ![c] = NoCall]
        BY <1>3 DEF Return
    <2> QED
        BY <1>2, <1>3, <2>1, <2>2
<1>4. ASSUME NEW pc \in CallPc \ {"build"}, Goto(c, pc), UNCHANGED <<mounted, vacant, offline>>
      PROVE  GuardMove(c)
    <2> DEFINE r == [call[c] EXCEPT !.pc = pc]
    <2>1. call' = [call EXCEPT ![c] = r]
        BY <1>1, <1>4 DEF Goto
    <2>2. /\ r.op = call[c].op /\ r.pc = pc /\ r.handle = call[c].handle
          /\ r.guard = call[c].guard /\ r.name = call[c].name
        BY <1>1 DEF CallRecord
    <2> HIDE DEF r
    <2> QED
        BY <1>1, <1>2, <1>4, <2>1, <2>2
<1>5. ASSUME NEW pc \in CallPc \ {"build"}, NEW seen,
             call' = [call EXCEPT ![c].pc = pc, ![c].seen = seen],
             UNCHANGED <<mounted, vacant, offline>>
      PROVE  GuardMove(c)
    <2> DEFINE r == [call[c] EXCEPT !.pc = pc, !.seen = seen]
    <2>1. call' = [call EXCEPT ![c] = r]
        BY <1>1, <1>5
    <2>2. /\ r.op = call[c].op /\ r.pc = pc /\ r.handle = call[c].handle
          /\ r.guard = call[c].guard /\ r.name = call[c].name
        BY <1>1 DEF CallRecord
    <2> HIDE DEF r
    <2> QED
        BY <1>1, <1>2, <1>5, <2>1, <2>2
<1> USE DEF Outside, daemon, memory, file
<1>6. ASSUME NEW n, Read(c, n)
      PROVE  GuardMove(c)
    <2> DEFINE r == [NoCall EXCEPT !.op = "read", !.pc = "serving",
                         !.handle = [name |-> n, guarded |-> mounted[n]]]
    <2>1. call' = [call EXCEPT ![c] = r] /\ UNCHANGED <<mounted, vacant, offline>>
        BY <1>6 DEF Read
    <2>2. /\ r.op = "read" /\ r.pc = "serving" /\ r.guard = FALSE
          /\ r.handle \in HandlesServed
        BY <1>6 DEF NoCall, HandlesServed, Read
    <2> HIDE DEF r
    <2> QED
        BY <1>2, <2>1, <2>2
<1>7. ASSUME NEW n \in Name, Mount(c, n)
      PROVE  GuardMove(c)
    <2> DEFINE r == [NoCall EXCEPT !.op = "mount", !.pc = "ask", !.name = n]
    <2>1. call' = [call EXCEPT ![c] = r] /\ UNCHANGED <<mounted, vacant, offline>>
        BY <1>7 DEF Mount
    <2>2. r.op = "mount" /\ r.pc = "ask" /\ r.guard = FALSE /\ r.handle = NoHandle
        BY DEF NoCall
    <2> HIDE DEF r
    <2> QED
        BY <1>2, <2>1, <2>2
<1>8. ASSUME NEW n \in Name, SetDefault(c, n)
      PROVE  GuardMove(c)
    <2> DEFINE r == [NoCall EXCEPT !.op = "set_default", !.name = n,
                         !.pc = IF n \in Served THEN "persist" ELSE "ask"]
    <2>1. call' = [call EXCEPT ![c] = r] /\ UNCHANGED <<mounted, vacant, offline>>
        BY <1>8 DEF SetDefault
    <2>2. r.op = "set_default" /\ r.pc # "build" /\ r.guard = FALSE /\ r.handle = NoHandle
        BY DEF NoCall
    <2> HIDE DEF r
    <2> QED
        BY <1>2, <2>1, <2>2
<1>9. ASSUME NEW n \in Name, Unmount(c, n)
      PROVE  GuardMove(c)
    <2> DEFINE r == [NoCall EXCEPT !.op = "unmount", !.pc = "unmount", !.name = n]
    <2>1. call' = [call EXCEPT ![c] = r] /\ UNCHANGED <<mounted, vacant, offline>>
        BY <1>9 DEF Unmount
    <2>2. r.op = "unmount" /\ r.pc = "unmount" /\ r.guard = FALSE /\ r.handle = NoHandle
        BY DEF NoCall
    <2> HIDE DEF r
    <2> QED
        BY <1>2, <2>1, <2>2
<1>10. \A n, source \in Name : ~Fork(c, source, n)
    BY DEF Fork, Issue
<1>11. ~ForkStep(c)
    BY <1>1 DEF ForkStep, ForkValidate, ForkCopy, ForkFails, ForkEnter, At
<1>12. CASE ReadDone(c) \/ MountRefused(c) \/ PersistRefused(c) \/ RefreshDefault(c)
            \/ UnmountRefused(c) \/ UnmountDone(c)
    BY <1>3, <1>12
    DEF ReadDone, MountRefused, PersistRefused, RefreshDefault, UnmountRefused, UnmountDone
<1>13. CASE MountResolve(c) \/ ClaimRoot(c) \/ PersistDefault(c)
    BY <1>4, <1>13 DEF MountResolve, ClaimRoot, PersistDefault, CallPc
<1>14. CASE ListForAgreement(c) \/ AgreeOnReranker(c)
    BY <1>5, <1>14 DEF ListForAgreement, AgreeOnReranker, CallPc
<1>15. CASE LockRoot(c)
    <2> DEFINE g == CanHostLock(Root[call[c].name])
               r == [call[c] EXCEPT !.pc = "build", !.guard = g]
    <2>1. call' = [call EXCEPT ![c] = r]
        BY <1>1, <1>15 DEF LockRoot
    <2>2. call'[c] = r
        BY <1>1, <2>1
    <2>3. /\ r.op = call[c].op /\ r.handle = call[c].handle /\ r.name = call[c].name
          /\ r.guard = g
        BY <1>1 DEF CallRecord
    <2>4. g => ~Contended(Root[call[c].name])
        BY <1>15 DEF LockRoot, LockRefused
    <2> HIDE DEF r
    <2>5. Served' = Served /\ UNCHANGED <<mounted, vacant, offline>>
        BY <1>15 DEF LockRoot, Served
    <2>6. \A e \in Client \ {c} : call'[e] = call[e]
        BY <2>1
    <2> QED
        BY <1>1, <2>2, <2>3, <2>4, <2>5, <2>6 DEF GuardMove
<1>16. CASE RegisterMount(c)
    <2>1. /\ call[c].pc = "build"
          /\ UNCHANGED <<vacant, offline>>
        BY <1>16 DEF RegisterMount, At
    <2>2. \A n \in Served' : \/ n \in Served /\ mounted'[n] = mounted[n]
                             \/ n = call[c].name /\ mounted'[n] = call[c].guard
        BY <1>16 DEF RegisterMount, Served
    <2>3. \E r : /\ call' = [call EXCEPT ![c] = r]
                 /\ r.op # "fork" /\ r.pc # "build" /\ r.guard = FALSE
                 /\ r.handle \in {NoHandle, call[c].handle}
        <3>1. CASE call[c].op = "set_default"
            <4> DEFINE r == [call[c] EXCEPT !.pc = "persist", !.guard = FALSE]
            <4>1. call' = [call EXCEPT ![c] = r]
                BY <1>1, <1>16, <3>1 DEF RegisterMount, AfterMount
            <4>2. /\ r.op = call[c].op /\ r.pc = "persist" /\ r.guard = FALSE
                  /\ r.handle = call[c].handle
                BY <1>1 DEF CallRecord
            <4> HIDE DEF r
            <4> QED
                BY <1>1, <4>1, <4>2
        <3>2. CASE call[c].op # "set_default"
            <4>1. call' = [call EXCEPT ![c] = NoCall]
                BY <1>16, <3>2 DEF RegisterMount, AfterMount, Return
            <4>2. /\ NoCall.op # "fork" /\ NoCall.pc # "build" /\ NoCall.guard = FALSE
                  /\ NoCall.handle = NoHandle
                BY DEF NoCall
            <4> QED
                BY <4>1, <4>2
        <3> QED
            BY <3>1, <3>2
    <2>4. PICK r : /\ call' = [call EXCEPT ![c] = r]
                   /\ r.op # "fork" /\ r.pc # "build" /\ r.guard = FALSE
                   /\ r.handle \in {NoHandle, call[c].handle}
        BY <2>3
    <2>5. call'[c] = r
        BY <1>1, <2>4
    <2> QED
        BY <2>1, <2>2, <2>4, <2>5 DEF GuardMove
<1>17. CASE RemoveMount(c)
    <2> DEFINE h == [name |-> call[c].name, guarded |-> mounted[call[c].name]]
               r == [call[c] EXCEPT !.pc = "drop", !.handle = h]
    <2>1. call' = [call EXCEPT ![c] = r]
        BY <1>1, <1>17 DEF RemoveMount
    <2>2. call'[c] = r
        BY <1>1, <2>1
    <2>3. /\ r.op = call[c].op /\ r.pc = "drop" /\ r.handle = h
          /\ r.name = call[c].name /\ r.guard = call[c].guard
        BY <1>1 DEF CallRecord
    <2>4. h \in HandlesServed
        BY <1>17 DEF RemoveMount, Removable, HandlesServed
    <2> HIDE DEF r, h
    <2>5. UNCHANGED <<vacant, offline>>
        BY <1>17 DEF RemoveMount
    <2>6. \A n \in Served' : n \in Served /\ mounted'[n] = mounted[n]
        BY <1>17 DEF RemoveMount, Served
    <2>7. \A e \in Client \ {c} : call'[e] = call[e]
        BY <2>1
    <2> QED
        BY <1>1, <2>2, <2>3, <2>4, <2>5, <2>6, <2>7 DEF GuardMove
<1>18. CASE ReadUnnamed(c)
    BY <1>6, <1>18 DEF ReadUnnamed
<1> QED
    BY <1>6, <1>7, <1>8, <1>9, <1>10, <1>11, <1>12, <1>13, <1>14, <1>15, <1>16, <1>17, <1>18
    DEF CallStep, NewCall, MountStep, SetDefaultStep, UnmountStep

\* A client's step gives no guard on a root an operator is purging.
LEMMA ClientKeepsPurges ==
    ASSUME "fork" \notin Requests, TypeOK, PurgeInv,
           NEW c \in Client, CallStep(c) \/ NewCall(c)
    PROVE  PurgeInv'
<1>1. GuardMove(c)
    BY ClientGuards
<1>2. UNCHANGED <<vacant, offline>>
    BY <1>1 DEF GuardMove
<1>3. \A n \in Served' : CanHostLock(Root[n])' => mounted'[n]
    BY <1>1 DEF GuardMove, PurgeInv, CanHostLock
<1>4. \A h \in HandlesServed : /\ h.name \in Name
                               /\ CanHostLock(Root[h.name]) => h.guarded
    BY DEF HandlesServed, PurgeInv, TypeOK
<1>5. ASSUME NEW x \in Client
      PROVE  /\ \/ call'[x].handle = NoHandle
                \/ /\ call'[x].handle.name \in Name
                   /\ CanHostLock(Root[call'[x].handle.name]) => call'[x].handle.guarded
             /\ (call'[x].pc = "build" /\ CanHostLock(Root[call'[x].name]))
                    => call'[x].guard
             /\ call'[x].op # "fork"
    <2>1. CASE x = c
        BY <1>1, <1>4, <2>1 DEF GuardMove, PurgeInv
    <2>2. CASE x # c
        <3>1. call'[x] = call[x]
            BY <1>1, <2>2 DEF GuardMove
        <3> QED
            BY <3>1 DEF PurgeInv
    <2> QED
        BY <2>1, <2>2
<1>6. ASSUME NEW o \in Operator, NEW r \in Roots, PurgeHolds(o, r)'
      PROVE  CanHostLock(r)' /\ ~GuardsOf(r)'
    <2>1. PurgeHolds(o, r)
        BY <1>2, <1>6 DEF PurgeHolds
    <2>2. CanHostLock(r) /\ ~GuardsOf(r) /\ Contended(r)
        BY <2>1 DEF PurgeInv, Contended
    <2>3. CanHostLock(r)'
        BY <1>2, <2>2 DEF CanHostLock
    <2>4. ASSUME NEW n \in Served', mounted'[n], Root[n] = r
          PROVE  FALSE
        BY <1>1, <2>2, <2>4 DEF GuardMove, GuardsOf
    <2>5. ASSUME NEW e \in Client, call'[e].guard, Root[call'[e].name] = r
          PROVE  FALSE
        BY <1>1, <2>2, <2>5 DEF GuardMove, GuardsOf
    <2>6. ASSUME NEW e \in Client, call'[e].handle.guarded, Root[call'[e].handle.name] = r
          PROVE  FALSE
        BY <1>1, <2>2, <2>6 DEF GuardMove, GuardsOf, HandlesServed, NoHandle
    <2> QED
        BY <2>3, <2>4, <2>5, <2>6 DEF GuardsOf
<1> QED
    BY <1>2, <1>3, <1>5, <1>6 DEF PurgeInv, CanHostLock

\* So does an operator's, when it is the only one: a root is emptied once its
\* lock is dropped, by whoever could hold one.
LEMMA OperatorKeepsPurges ==
    ASSUME \A o1, o2 \in Operator : o1 = o2, TypeOK, PurgeInv,
           NEW o \in Operator, OfflineStep(o)
    PROVE  PurgeInv'
<1>1. Inside
    BY DEF OfflineStep, Remove, Add, SetDefaultOffline, PurgeLock, PurgeAborts, PurgeForgets,
           PurgeUnlocks, PurgeDeletes
<1>2. UNCHANGED <<mounted, call>> /\ Served' = Served
    BY <1>1 DEF Inside, memory, Served
<1>3. vacant \subseteq vacant'
    BY DEF OfflineStep, Remove, Add, SetDefaultOffline, PurgeLock, PurgeAborts, PurgeForgets,
           PurgeUnlocks, PurgeDeletes, file
<1>4. \A r \in Roots : GuardsOf(r)' <=> GuardsOf(r)
    BY <1>2 DEF GuardsOf
<1>5. \A r : CanHostLock(r)' => CanHostLock(r)
    BY <1>3 DEF CanHostLock
<1>6. ASSUME NEW p \in Operator, NEW r \in Roots, PurgeHolds(p, r)'
      PROVE  CanHostLock(r)' /\ ~GuardsOf(r)'
    <2>1. p = o /\ offline \in [Operator -> Purge]
        BY DEF TypeOK
    <2>2. CASE PurgeDeletes(o)
        BY <1>6, <2>1, <2>2 DEF PurgeDeletes, Advance, PurgeHolds, Purge
    <2>3. CASE \E n \in Name : PurgeLock(o, n)
        <3>1. PICK n \in Name : PurgeLock(o, n)
            BY <2>3
        <3>2. offline'[o] = [stage |-> "locked", name |-> n] /\ UNCHANGED vacant
            BY <2>1, <3>1 DEF PurgeLock
        <3>3. r = Root[n]
            BY <1>6, <2>1, <3>2 DEF PurgeHolds
        <3>4. CanHostLock(r) /\ ~GuardsOf(r)
            BY <3>1, <3>3 DEF PurgeLock, Contended
        <3> QED
            BY <1>4, <3>2, <3>4 DEF CanHostLock
    <2>4. CASE ~PurgeDeletes(o) /\ ~\E n \in Name : PurgeLock(o, n)
        <3>1. UNCHANGED vacant
            BY <2>4
            DEF OfflineStep, Remove, Add, SetDefaultOffline, PurgeAborts, PurgeForgets,
                PurgeUnlocks, file
        <3>2. \/ UNCHANGED offline
              \/ Advance(o, "idle") \/ Advance(o, "unlocked")
              \/ offline[o].stage = "locked" /\ Advance(o, "forgotten")
            BY <2>4
            DEF OfflineStep, Remove, Add, SetDefaultOffline, PurgeAborts, PurgeForgets,
                PurgeUnlocks
        <3>3. offline'[o].stage = offline[o].stage \/ offline[o].stage = "locked"
              \/ offline'[o].stage \in {"idle", "unlocked"}
            BY <2>1, <3>2 DEF Advance, Purge
        <3>4. offline'[o].name = offline[o].name
            BY <2>1, <3>2 DEF Advance, Purge
        <3>5. PurgeHolds(o, r)
            BY <1>6, <2>1, <3>3, <3>4 DEF PurgeHolds
        <3> QED
            BY <1>4, <3>1, <3>5 DEF PurgeInv, CanHostLock
    <2> QED
        BY <2>2, <2>3, <2>4
<1> QED
    BY <1>2, <1>5, <1>6 DEF PurgeInv

\* Without forks and with one operator at a time, no handle on a root is
\* alive in the daemon while a purge holds the root.
THEOREM PurgesWorkAlone ==
    ASSUME "fork" \notin Requests, \A o1, o2 \in Operator : o1 = o2
    PROVE  Spec => []PurgeWorksAlone
<1>1. Init => PurgeInv
    <2> SUFFICES ASSUME Init
                 PROVE  PurgeInv
        OBVIOUS
    <2>1. Served = {}
        BY DEF Init, Served, NothingMounted
    <2>2. \A x \in Client : call[x] = NoCall
        BY DEF Init
    <2>3. \A o \in Operator, r \in Roots : ~PurgeHolds(o, r)
        BY DEF Init, PurgeHolds
    <2> QED
        BY <2>1, <2>2, <2>3 DEF PurgeInv, NoCall
<1>2. TypeOK /\ RegistryInv /\ PurgeInv /\ [Next]_vars => PurgeInv'
    <2> SUFFICES ASSUME TypeOK, RegistryInv, PurgeInv, [Next]_vars
                 PROVE  PurgeInv'
        OBVIOUS
    <2>1. ASSUME UNCHANGED <<mounted, call, vacant, offline>>
          PROVE  PurgeInv'
        BY <2>1 DEF PurgeInv, Served, CanHostLock, PurgeHolds, GuardsOf
    <2>2. ASSUME NEW name \in Name, PlanMounts(name)
          PROVE  PurgeInv'
        BY <2>1, <2>2 DEF PlanMounts
    <2>3. CASE Assemble
        <3>1. PICK opened \in SUBSET {n \in candidates : ~LockRefused(Root[n])} :
                       Assemble!(opened)
            BY <2>3 DEF Assemble
        <3>2. PICK served \in AgreeingWith(opened) : Assemble!(opened)!(served)
            BY <3>1
        <3>3. /\ Served' = served /\ \A n \in served : mounted'[n] = CanHostLock(Root[n])
              /\ UNCHANGED <<call, vacant, offline>>
            BY <3>2 DEF Served
        <3>4. \A n \in served : ~LockRefused(Root[n])
            BY <3>2 DEF AgreeingWith
        <3>5. \A x \in Client : call[x] = NoCall /\ call'[x] = NoCall
            BY <3>2 DEF RegistryInv
        <3>6. \A r : CanHostLock(r)' <=> CanHostLock(r)
            BY <3>3 DEF CanHostLock
        <3>7. ASSUME NEW o \in Operator, NEW r \in Roots, PurgeHolds(o, r)'
              PROVE  CanHostLock(r)' /\ ~GuardsOf(r)'
            <4>1. PurgeHolds(o, r)
                BY <3>3, <3>7 DEF PurgeHolds
            <4>2. CanHostLock(r) /\ Contended(r)
                BY <4>1 DEF PurgeInv, Contended
            <4>3. \A n \in served : Root[n] # r
                BY <3>4, <4>2 DEF LockRefused
            <4> QED
                BY <3>3, <3>5, <3>6, <4>2, <4>3 DEF GuardsOf, NoCall, NoHandle
        <3> QED
            BY <3>3, <3>5, <3>6, <3>7 DEF PurgeInv, NoCall
    <2>4. CASE Exit
        <3>1. Served' = {} /\ UNCHANGED <<vacant, offline>>
            BY <2>4 DEF Exit, NothingMounted, Served
        <3>2. \A x \in Client : call'[x] = NoCall
            BY <2>4 DEF Exit
        <3>3. \A o \in Operator, r \in Roots : PurgeHolds(o, r)' => CanHostLock(r)'
            BY <3>1 DEF PurgeInv, PurgeHolds, CanHostLock
        <3>4. \A r \in Roots : ~GuardsOf(r)'
            BY <3>1, <3>2 DEF GuardsOf, NoCall, NoHandle
        <3> QED
            BY <3>1, <3>2, <3>3, <3>4 DEF PurgeInv, NoCall
    <2>5. ASSUME NEW c \in Client, CallStep(c) \/ NewCall(c)
          PROVE  PurgeInv'
        BY <2>5, ClientKeepsPurges
    <2>6. ASSUME NEW o \in Operator, OfflineStep(o)
          PROVE  PurgeInv'
        BY <2>6, OperatorKeepsPurges
    <2>7. CASE UNCHANGED vars
        BY <2>1, <2>7 DEF vars, memory
    <2> QED
        BY <2>2, <2>3, <2>4, <2>5, <2>6, <2>7 DEF Next
<1>3. PurgeInv => PurgeWorksAlone
    <2> SUFFICES ASSUME PurgeInv, NEW r \in Roots, NEW o \in Operator, PurgeHolds(o, r)
                 PROVE  ~LiveHandle(r)
        BY DEF PurgeWorksAlone
    <2>1. CanHostLock(r) /\ ~GuardsOf(r)
        BY DEF PurgeInv
    <2> QED
        BY <2>1 DEF LiveHandle, PurgeInv, GuardsOf
<1> QED
    BY <1>1, <1>2, <1>3, RegistryInvariant, PTL DEF Spec
=============================================================================
