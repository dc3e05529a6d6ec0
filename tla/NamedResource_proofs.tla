------------------------ MODULE NamedResource_proofs ------------------------
(***************************************************************************)
(* Proofs about NamedResource, for any set of custom resources, replicas   *)
(* and identifiers, and any bounds on faults and edits.                    *)
(***************************************************************************)
EXTENDS NamedResourceInv, TLAPS

(* A reconcile in progress holds an object. *)
Holding == \A t \in Tasks : pc[t] # "idle" => mem[t] # Gone

TypeInv == TypeOK /\ Holding

LEMMA AppliedType == \A c \in CRs : Applied(c) \in CRStates
BY ConstantsAssumption DEF Applied, CRStates

(* Every field an action assigns keeps an object of the cluster one. *)
LEMMA FieldEdits ==
    ASSUME NEW x \in CRStates
    PROVE  /\ \A s \in Specs : [x EXCEPT !.spec = s] \in CRStates
           /\ \A e \in Ids \cup {Unnamed} : [x EXCEPT !.extName = e] \in CRStates
           /\ \A k \in {"none", "pending", "succeeded", "failed"} :
                 [x EXCEPT !.creation = k] \in CRStates
           /\ [x EXCEPT !.finalizer = TRUE] \in CRStates
           /\ [x EXCEPT !.deleting = TRUE] \in CRStates
           /\ \A n \in Nat : [x EXCEPT !.rv = n] \in CRStates
<1>1. \A s \in Specs : [x EXCEPT !.spec = s] \in CRStates
  BY DEF CRStates
<1>2. \A e \in Ids \cup {Unnamed} : [x EXCEPT !.extName = e] \in CRStates
  BY DEF CRStates
<1>3. \A k \in {"none", "pending", "succeeded", "failed"} : [x EXCEPT !.creation = k] \in CRStates
  BY DEF CRStates
<1>4. [x EXCEPT !.finalizer = TRUE] \in CRStates
  BY DEF CRStates
<1>5. [x EXCEPT !.deleting = TRUE] \in CRStates
  BY DEF CRStates
<1>6. \A n \in Nat : [x EXCEPT !.rv = n] \in CRStates
  BY DEF CRStates
<1> QED BY <1>1, <1>2, <1>3, <1>4, <1>5, <1>6

(* And so does every combination of them. *)
LEMMA EditedCopies ==
    ASSUME NEW x \in CRStates
    PROVE  /\ \A id \in Ids : [x EXCEPT !.extName = id, !.creation = "succeeded"] \in CRStates
           /\ [x EXCEPT !.finalizer = TRUE, !.rv = @ + 1] \in CRStates
           /\ [x EXCEPT !.creation = "pending", !.rv = @ + 1] \in CRStates
           /\ [x EXCEPT !.deleting = TRUE, !.rv = @ + 1] \in CRStates
           /\ \A s \in Specs : [x EXCEPT !.spec = s, !.rv = @ + 1] \in CRStates
           /\ \A y \in CRStates :
                 [x EXCEPT !.extName = y.extName, !.creation = y.creation, !.rv = @ + 1]
                    \in CRStates
<1> DEFINE Bump(z) == [z EXCEPT !.rv = x.rv + 1]
<1>1. x.rv + 1 \in Nat
  BY DEF CRStates
<1>2. \A z \in CRStates : Bump(z) \in CRStates
  BY <1>1, FieldEdits
<1>3. \A id \in Ids : [x EXCEPT !.extName = id, !.creation = "succeeded"] \in CRStates
  BY FieldEdits
<1>4. Bump([x EXCEPT !.finalizer = TRUE]) \in CRStates
  <2>1. [x EXCEPT !.finalizer = TRUE] \in CRStates
    BY FieldEdits
  <2> QED BY ONLY <2>1, <1>2
<1>5. Bump([x EXCEPT !.creation = "pending"]) \in CRStates
  BY <1>2, FieldEdits
<1>6. Bump([x EXCEPT !.deleting = TRUE]) \in CRStates
  BY <1>2, FieldEdits
<1>7. \A s \in Specs : Bump([x EXCEPT !.spec = s]) \in CRStates
  BY <1>2, FieldEdits
<1>8. ASSUME NEW y \in CRStates
      PROVE  Bump([x EXCEPT !.extName = y.extName, !.creation = y.creation]) \in CRStates
  <2>1. y.extName \in Ids \cup {Unnamed} /\ y.creation \in {"none", "pending", "succeeded", "failed"}
    BY DEF CRStates
  <2>2. [x EXCEPT !.extName = y.extName] \in CRStates
    BY <2>1, FieldEdits
  <2>3. [x EXCEPT !.extName = y.extName, !.creation = y.creation] \in CRStates
    BY <2>1, <2>2, FieldEdits
  <2> QED BY <2>3, <1>2
<1> QED BY <1>3, <1>4, <1>5, <1>6, <1>7, <1>8

LEMMA NewObjectType == \A t \in Tasks : mem[t] \in CRStates => NewObject(t) \in Objects
BY DEF NewObject, CRStates, Specs, Objects, Tasks

LEMMA TypeInit == Init => TypeInv
<1> SUFFICES ASSUME Init PROVE TypeInv
  OBVIOUS
<1> USE ConstantsAssumption, AppliedType
<1>1. cr \in [CRs -> Copies] /\ cache \in [Tasks -> Copies]
  BY DEF Init, Copies, Tasks
<1>2. pc \in [Tasks -> Phases] /\ mem \in [Tasks -> Copies]
      /\ obs \in [Tasks -> {"absent", "stale", "current"}]
  BY DEF Init, Copies, Phases
<1>3. account \in [Ids -> Objects \cup {NoObject}]
  BY DEF Init
<1>4. used \in SUBSET Ids /\ faults \in Nat /\ edits \in Nat
  BY DEF Init
<1>5. Holding
  BY DEF Init, Holding
<1> QED BY <1>1, <1>2, <1>3, <1>4, <1>5 DEF TypeInv, TypeOK

LEMMA TypeNext == TypeInv /\ [Next]_vars => TypeInv'
<1> SUFFICES ASSUME TypeInv, [Next]_vars PROVE TypeInv'
  OBVIOUS
<1> USE ConstantsAssumption DEF TypeInv, TypeOK, Holding
<1>1. ASSUME NEW t \in Tasks, Connect(t) PROVE TypeInv'
  BY <1>1 DEF Connect, Goto, Phases, Copies
<1>2. ASSUME NEW t \in Tasks, ObserveFound(t) PROVE TypeInv'
  <2>1. mem[t] \in CRStates /\ t[2] \in CRs
    BY <1>2 DEF ObserveFound, Copies, Tasks
  <2>2. PICK id \in Ids, o \in {"stale", "current"} :
          LET m == [mem[t] EXCEPT !.extName = id]
          IN  IF m.finalizer /\ ~m.deleting /\ o = "current"
              THEN Finish(t)
              ELSE /\ mem' = [mem EXCEPT ![t] = m]
                   /\ obs' = [obs EXCEPT ![t] = o]
                   /\ Branch(t, m, o)
    BY <1>2, <2>1 DEF ObserveFound, FindExternal, CRStates
  <2>3. [mem[t] EXCEPT !.extName = id] \in CRStates
    BY <2>1, FieldEdits
  <2>4. UNCHANGED <<cr, cache, account, used, faults, edits>>
    BY <1>2 DEF ObserveFound
  <2> QED
    BY <2>2, <2>3, <2>4 DEF Finish, Branch, Goto, AfterFinalizer, Phases, Copies
<1>3. ASSUME NEW t \in Tasks, ObserveAbsent(t) PROVE TypeInv'
  BY <1>3 DEF ObserveAbsent, Branch, Goto, AfterFinalizer, Phases
<1>4. ASSUME NEW t \in Tasks, AddFinalizer(t) PROVE TypeInv'
  <2>1. mem[t] \in CRStates /\ t[2] \in CRs
    BY <1>4 DEF AddFinalizer, Copies, Tasks
  <2>2. [mem[t] EXCEPT !.finalizer = TRUE, !.rv = @ + 1] \in CRStates
    BY <2>1, EditedCopies, Zenon
  <2> QED
    BY <1>4, <2>1, <2>2 DEF AddFinalizer, KubeUpdate, Finish, Goto, AfterFinalizer, Phases, Copies
<1>5. ASSUME NEW t \in Tasks, AnnounceCreate(t) PROVE TypeInv'
  <2>1. mem[t] \in CRStates /\ t[2] \in CRs
    BY <1>5 DEF AnnounceCreate, Copies, Tasks
  <2>2. [mem[t] EXCEPT !.creation = "pending", !.rv = @ + 1] \in CRStates
    BY <2>1, EditedCopies, Zenon
  <2> QED
    BY <1>5, <2>1, <2>2 DEF AnnounceCreate, KubeUpdate, Goto, Phases, Copies
<1>6. ASSUME NEW t \in Tasks, Create(t) \/ CreateFails(t) \/ CreateRepeated(t)
      PROVE TypeInv'
  <2>1. pc[t] = "create" /\ mem[t] \in CRStates /\ t[2] \in CRs
    BY <1>6 DEF Create, CreateFails, CreateRepeated, Copies, Tasks
  <2>2. NewObject(t) \in Objects
    BY <2>1, NewObjectType
  <2>3. \A id \in Ids : Created(mem[t], id) \in CRStates
    BY <2>1, EditedCopies, Zenon DEF Created
  <2>4. [mem[t] EXCEPT !.creation = "failed"] \in CRStates
    BY <2>1, FieldEdits
  <2>5. CASE Create(t)
    BY <2>1, <2>2, <2>3, <2>5 DEF Create, ServerCreates, Goto, Phases, Copies
  <2>6. CASE CreateFails(t)
    BY <2>1, <2>2, <2>4, <2>6 DEF CreateFails, ServerCreates, Fault, Goto, Phases, Copies
  <2>7. CASE CreateRepeated(t)
    BY <2>1, <2>2, <2>3, <2>7 DEF CreateRepeated, Fault, Goto, Phases, Copies
  <2> QED BY <1>6, <2>5, <2>6, <2>7
<1>7. ASSUME NEW t \in Tasks, RecordCreate(t) PROVE TypeInv'
  <2>1. mem[t] \in CRStates /\ t[2] \in CRs /\ cr[t[2]] \in CRStates
    BY <1>7 DEF RecordCreate, Copies, Tasks
  <2> DEFINE new == [cr[t[2]] EXCEPT !.extName = mem[t].extName,
                                     !.creation = mem[t].creation, !.rv = @ + 1]
  <2>2. new \in CRStates
    BY <2>1, EditedCopies, Zenon
  <2>3. cr' \in [CRs -> Copies]
    <3>1. cr' = [cr EXCEPT ![t[2]] = new]
      BY <1>7 DEF RecordCreate
    <3> HIDE DEF new
    <3> QED BY <3>1, <2>2 DEF Copies
  <2> QED
    BY <1>7, <2>3 DEF RecordCreate, Finish, Goto, Phases, Copies
<1>8. ASSUME NEW t \in Tasks, Update(t) PROVE TypeInv'
  <2>1. mem[t] \in CRStates
    BY <1>8 DEF Update, Copies
  <2>2. \A o \in Objects :
           [o EXCEPT !.name = mem[t].spec.name, !.body = mem[t].spec.body] \in Objects
    BY <2>1 DEF CRStates, Specs, Objects
  <2>3. account' \in [Ids -> Objects \cup {NoObject}]
    BY <1>8, <2>2 DEF Update, Live
  <2> QED
    BY <1>8, <2>3 DEF Update, Finish, Goto, Phases, Copies
<1>9. ASSUME NEW t \in Tasks, Delete(t) \/ LoseUpdate(t) \/ CallFails(t) PROVE TypeInv'
  BY <1>9 DEF Delete, LoseUpdate, CallFails, Fault, Finish, Goto, Phases, Copies
<1>10. ASSUME NEW t \in Tasks, RemoveFinalizer(t) PROVE TypeInv'
  BY <1>10 DEF RemoveFinalizer, KubeUpdate, Finish, Goto, Phases, Copies
<1>11. ASSUME NEW t \in Tasks, SyncCache(t) PROVE TypeInv'
  BY <1>11 DEF SyncCache, task, Tasks
<1>12. ASSUME NEW r \in Replicas, Crash(r) PROVE TypeInv'
  BY <1>12 DEF Crash, Fault, Phases, Copies, Tasks
<1>13. ASSUME NEW c \in CRs, UserEdits(c) PROVE TypeInv'
  <2>1. cr[c] \in CRStates
    BY <1>13 DEF UserEdits, Copies
  <2> DEFINE new(s) == [cr[c] EXCEPT !.spec = s, !.rv = @ + 1]
  <2>2. \A s \in EditableTo[c] : new(s) \in CRStates
    BY <2>1, EditedCopies, Zenon
  <2>3. cr' \in [CRs -> Copies]
    <3>1. PICK s \in EditableTo[c] : cr' = [cr EXCEPT ![c] = new(s)]
      BY <1>13 DEF UserEdits
    <3> HIDE DEF new
    <3> QED BY <3>1, <2>2 DEF Copies
  <2> QED
    BY <1>13, <2>3 DEF UserEdits, Edit, task
<1>14. ASSUME NEW c \in CRs, UserDeletes(c) PROVE TypeInv'
  <2>1. cr[c] \in CRStates
    BY <1>14 DEF UserDeletes, Copies
  <2>2. [cr[c] EXCEPT !.deleting = TRUE, !.rv = @ + 1] \in CRStates
    BY <2>1, EditedCopies, Zenon
  <2> QED
    BY <1>14, <2>1, <2>2 DEF UserDeletes, task, Copies
<1>15. ASSUME NEW id \in Ids, AdminChanges(id) PROVE TypeInv'
  BY <1>15 DEF AdminChanges, Live, Edit, task, Objects
<1>16. CASE UNCHANGED vars
  BY <1>16 DEF vars
<1> QED
  BY <1>1, <1>2, <1>3, <1>4, <1>5, <1>6, <1>7, <1>8, <1>9, <1>10, <1>11, <1>12,
     <1>13, <1>14, <1>15, <1>16 DEF Next, Step

(* Type correctness: every reachable state is made of the values the module
   declares, the Dynatrace account and the API server's objects included.  *)
THEOREM TypeCorrect == Spec => []TypeOK
<1>1. Spec => []TypeInv
  BY TypeInit, TypeNext, PTL DEF Spec
<1>2. TypeInv => TypeOK
  BY DEF TypeInv
<1> QED BY <1>1, <1>2, PTL

-----------------------------------------------------------------------------
(* The creation lock.                                                      *)

(* The API server's object of c moves to its next version or disappears. *)
Advances(c) ==
    /\ cr[c] # Gone
    /\ cr'[c] # Gone => cr'[c].rv = cr[c].rv + 1
    /\ \A d \in CRs : d # c => cr'[d] = cr[d]

Versions == \A c \in CRs : cr[c] # Gone => cr[c].rv \in Nat

LEMMA VersionsAreNumbers == TypeOK => Versions
BY DEF TypeOK, Versions, Copies, CRStates

(* Then no copy taken earlier is of the new version. *)
LEMMA CacheAfterAdvance ==
    ASSUME TypeOK, CacheCoherent, NEW c \in CRs, Advances(c), UNCHANGED cache
    PROVE  CacheCoherent'
<1> SUFFICES ASSUME NEW t \in Tasks, cache[t] # Gone
             PROVE  /\ NotAhead(cache[t], t[2])'
                    /\ cr'[t[2]] # Gone /\ cache[t].rv = cr'[t[2]].rv => cache[t] = cr'[t[2]]
  BY DEF CacheCoherent
<1>1. t[2] \in CRs /\ cache[t].rv \in Nat
  BY DEF Tasks, TypeOK, Copies, CRStates
<1>2. Versions
  BY VersionsAreNumbers
<1> QED BY <1>1, <1>2 DEF CacheCoherent, NotAhead, Advances, Versions

(* What MemoryCoherent says of one task. *)
MemoryOf(t) == pc[t] # "idle" =>
    /\ mem[t] # Gone
    /\ NotAhead(mem[t], t[2])
    /\ pc[t] # "record" /\ CurrentVersion(t) =>
          /\ mem[t].creation = cr[t[2]].creation
          /\ mem[t].finalizer = cr[t[2]].finalizer
          /\ pc[t] = "observe" => mem[t].extName = cr[t[2]].extName

LEMMA MemoryByTask == MemoryCoherent <=> \A t \in Tasks : MemoryOf(t)
BY DEF MemoryCoherent, MemoryOf

LEMMA MemoryAfterAdvance ==
    ASSUME TypeOK, NEW c \in CRs, Advances(c), NEW t \in Tasks, MemoryOf(t),
           pc'[t] = pc[t], mem'[t] = mem[t]
    PROVE  MemoryOf(t)'
<1>1. t[2] \in CRs /\ (mem[t] # Gone => mem[t].rv \in Nat)
  BY DEF Tasks, TypeOK, Copies, CRStates
<1>2. Versions
  BY VersionsAreNumbers
<1> QED BY <1>1, <1>2 DEF MemoryOf, NotAhead, CurrentVersion, Advances, Versions

(* A task nothing happens to keeps its copies coherent. *)
LEMMA MemoryUntouched ==
    ASSUME NEW t \in Tasks, MemoryOf(t), cr' = cr, pc'[t] = pc[t], mem'[t] = mem[t]
    PROVE  MemoryOf(t)'
BY DEF MemoryOf, NotAhead, CurrentVersion

LEMMA LockInit == Init => LockInv
<1> SUFFICES ASSUME Init PROVE LockInv
  OBVIOUS
<1>1. TypeOK
  BY TypeInit DEF TypeInv
<1>2. \A t \in Tasks : t[2] \in CRs
  BY DEF Tasks
<1>3. CacheCoherent
  BY <1>2, ConstantsAssumption, AppliedType DEF Init, CacheCoherent, NotAhead, Applied
<1>4. MemoryCoherent /\ PhaseFacts /\ CreationLock /\ CreateExclusive
  BY DEF Init, MemoryCoherent, PhaseFacts, CreationLock, CreateExclusive, Creating
<1> QED BY <1>1, <1>3, <1>4 DEF LockInv

(* The conjuncts of LockInv that speak of memory, one task at a time. *)
TaskFacts(t) ==
    /\ MemoryOf(t)
    /\ pc[t] \notin {"idle", "create", "record"} => mem[t].creation # "pending"
    /\ pc[t] = "finalize" => ~mem[t].finalizer
    /\ pc[t] = "pend" => mem[t].finalizer

LEMMA LockByTask ==
    LockInv <=> /\ TypeOK /\ CacheCoherent /\ CreationLock /\ CreateExclusive
                /\ \A t \in Tasks : TaskFacts(t)
BY DEF LockInv, MemoryCoherent, PhaseFacts, TaskFacts, MemoryOf

(* A step that leaves the API server and the caches alone, and starts no
   creation, need only be justified for the task that takes it.            *)
LEMMA LockLocalStep ==
    ASSUME LockInv, TypeOK', NEW t \in Tasks, cr' = cr, cache' = cache,
           \A s \in Tasks : s # t => pc'[s] = pc[s] /\ mem'[s] = mem[s],
           TaskFacts(t)', Creating(t)' => Creating(t)
    PROVE  LockInv'
<1>1. \A s \in Tasks : TaskFacts(s)'
  <2> SUFFICES ASSUME NEW s \in Tasks, s # t PROVE TaskFacts(s)'
    OBVIOUS
  <2>1. TaskFacts(s)
    BY LockByTask
  <2> QED BY <2>1, MemoryUntouched DEF TaskFacts
<1>2. CacheCoherent'
  BY DEF LockInv, CacheCoherent, NotAhead
<1>3. \A s \in Tasks : Creating(s)' => Creating(s)
  BY DEF Creating
<1>4. CreationLock' /\ CreateExclusive'
  BY <1>3 DEF LockInv, CreationLock, CreateExclusive
<1> QED BY <1>1, <1>2, <1>4 DEF LockInv, MemoryCoherent, PhaseFacts, TaskFacts, MemoryOf

(* A step that moves the object of one resource on, announcing no creation:
   every task but the one that takes it keeps what it had.                 *)
LEMMA LockServerStep ==
    ASSUME LockInv, TypeOK', NEW c \in CRs, Advances(c), cache' = cache,
           NEW U \in SUBSET Tasks,
           \A s \in Tasks \ U : pc'[s] = pc[s] /\ mem'[s] = mem[s],
           \A s \in U : TaskFacts(s)',
           CreationLock', CreateExclusive'
    PROVE  LockInv'
<1>1. \A s \in Tasks : TaskFacts(s)'
  <2> SUFFICES ASSUME NEW s \in Tasks \ U PROVE TaskFacts(s)'
    OBVIOUS
  <2>1. TaskFacts(s) /\ TypeOK
    BY LockByTask
  <2>2. MemoryOf(s)'
    BY <2>1, MemoryAfterAdvance DEF TaskFacts
  <2> QED BY <2>1, <2>2 DEF TaskFacts
<1>2. CacheCoherent'
  BY CacheAfterAdvance DEF LockInv
<1> QED BY <1>1, <1>2 DEF LockInv, MemoryCoherent, PhaseFacts, TaskFacts, MemoryOf

LEMMA LockNext == LockInv /\ [Next]_vars => LockInv'
<1> SUFFICES ASSUME LockInv, [Next]_vars PROVE LockInv'
  OBVIOUS
<1>a. TypeOK /\ TypeOK'
  BY TypeNext DEF LockInv, MemoryCoherent, TypeInv, Holding
<1>b. \A t \in Tasks : TaskFacts(t) /\ t[2] \in CRs
  BY LockByTask DEF Tasks
<1> USE <1>a
<1>1. ASSUME NEW t \in Tasks, Connect(t) PROVE LockInv'
  <2>1. cache[t] # Gone /\ mem'[t] = cache[t] /\ pc'[t] = "observe" /\ cr' = cr
    BY <1>1 DEF Connect, Goto, TypeOK
  <2>2. TaskFacts(t)'
    BY <1>1, <2>1 DEF TaskFacts, MemoryOf, LockInv, CacheCoherent, NotAhead,
       CurrentVersion, Connect, CreateIncomplete
  <2> QED
    BY <1>1, <2>1, <2>2, LockLocalStep DEF Connect, Goto, Creating, TypeOK
<1>2. ASSUME NEW t \in Tasks, ObserveFound(t) \/ ObserveAbsent(t) PROVE LockInv'
  <2>1. mem[t] \in CRStates
    BY <1>2, <1>b DEF ObserveFound, ObserveAbsent, TaskFacts, MemoryOf, TypeOK, Copies
  <2>2. /\ pc[t] = "observe"
        /\ cr' = cr /\ cache' = cache
        /\ \A s \in Tasks : s # t => pc'[s] = pc[s] /\ mem'[s] = mem[s]
    BY <1>2 DEF ObserveFound, ObserveAbsent, Finish, Goto, Branch, TypeOK
  <2>3. \/ pc'[t] = "idle"
        \/ /\ mem'[t] \in CRStates
           /\ mem'[t].rv = mem[t].rv
           /\ mem'[t].creation = mem[t].creation
           /\ mem'[t].finalizer = mem[t].finalizer
           /\ pc'[t] \in {"finalize", "pend", "update", "delete", "unfinalize"}
           /\ pc'[t] = "finalize" => ~mem[t].finalizer
           /\ pc'[t] = "pend" => mem[t].finalizer
    <3>1. CASE ObserveAbsent(t)
      BY <3>1, <2>1 DEF ObserveAbsent, Branch, Goto, AfterFinalizer, TypeOK
    <3>2. CASE ObserveFound(t)
      <4>1. PICK id \in FindExternal(mem[t]), o \in {"current", "stale"} :
              LET m == [mem[t] EXCEPT !.extName = id]
              IN  IF m.finalizer /\ ~m.deleting /\ o = "current"
                  THEN Finish(t)
                  ELSE mem' = [mem EXCEPT ![t] = m] /\ Branch(t, m, o)
        BY <3>2 DEF ObserveFound
      <4>2. id \in Ids
        BY <2>1 DEF FindExternal, CRStates
      <4> DEFINE m == [mem[t] EXCEPT !.extName = id]
      <4>3. /\ m \in CRStates /\ m.rv = mem[t].rv /\ m.creation = mem[t].creation
            /\ m.finalizer = mem[t].finalizer /\ m.deleting = mem[t].deleting
        BY <2>1, <4>2, FieldEdits DEF CRStates
      <4>4. IF m.finalizer /\ ~m.deleting /\ o = "current"
            THEN Finish(t)
            ELSE mem' = [mem EXCEPT ![t] = m] /\ Branch(t, m, o)
        BY <4>1
      <4> HIDE DEF m
      <4> QED BY <4>3, <4>4 DEF Finish, Branch, Goto, AfterFinalizer, TypeOK
    <3> QED BY <1>2, <3>1, <3>2
  <2>4. TaskFacts(t)'
    BY <1>b, <2>2, <2>3, ConstantsAssumption DEF TaskFacts, MemoryOf, NotAhead, CurrentVersion
  <2>5. ~Creating(t)'
    BY <2>3 DEF Creating
  <2> QED BY <2>2, <2>4, <2>5, LockLocalStep
<1>3. ASSUME NEW t \in Tasks, Create(t) \/ CreateFails(t) \/ CreateRepeated(t) PROVE LockInv'
  <2>1. pc[t] = "create" /\ mem[t] \in CRStates
    BY <1>3, <1>b DEF Create, CreateFails, CreateRepeated, TaskFacts, MemoryOf, TypeOK, Copies
  <2>2. /\ cr' = cr /\ cache' = cache
        /\ \A s \in Tasks : s # t => pc'[s] = pc[s] /\ mem'[s] = mem[s]
        /\ pc'[t] = "record"
    BY <1>3 DEF Create, CreateFails, CreateRepeated, Goto, TypeOK
  <2>3. mem'[t] # Gone /\ mem'[t].rv = mem[t].rv
    <3>1. /\ \A id \in Ids : Created(mem[t], id) \in CRStates /\ Created(mem[t], id).rv = mem[t].rv
          /\ [mem[t] EXCEPT !.creation = "failed"] \in CRStates
          /\ [mem[t] EXCEPT !.creation = "failed"].rv = mem[t].rv
      <4>1. \A id \in Ids : Created(mem[t], id) \in CRStates
        BY <2>1, EditedCopies, Zenon DEF Created
      <4>2. [mem[t] EXCEPT !.creation = "failed"] \in CRStates
        BY <2>1, FieldEdits
      <4>3. /\ \A id \in Ids : Created(mem[t], id).rv = mem[t].rv
            /\ [mem[t] EXCEPT !.creation = "failed"].rv = mem[t].rv
        BY <2>1 DEF Created, CRStates
      <4> QED BY <4>1, <4>2, <4>3
    <3>2. \/ \E id \in Ids : mem'[t] = Created(mem[t], id)
          \/ mem'[t] = [mem[t] EXCEPT !.creation = "failed"]
      BY <1>3 DEF Create, CreateFails, CreateRepeated, TypeOK
    <3>3. Gone \notin CRStates
      BY ConstantsAssumption
    <3>4. CASE \E id \in Ids : mem'[t] = Created(mem[t], id)
      BY <3>1, <3>3, <3>4
    <3>5. CASE mem'[t] = [mem[t] EXCEPT !.creation = "failed"]
      BY <3>1, <3>3, <3>5
    <3> QED BY <3>2, <3>4, <3>5
  <2>4. TaskFacts(t)'
    BY <1>b, <2>1, <2>2, <2>3 DEF TaskFacts, MemoryOf, NotAhead
  <2> QED BY <2>1, <2>2, <2>4, LockLocalStep DEF Creating
<1>4. ASSUME NEW t \in Tasks, Update(t) \/ Delete(t) \/ LoseUpdate(t) \/ CallFails(t)
      PROVE LockInv'
  <2>1. /\ cr' = cr /\ cache' = cache
        /\ \A s \in Tasks : s # t => pc'[s] = pc[s] /\ mem'[s] = mem[s]
        /\ pc'[t] = "idle"
    BY <1>4 DEF Update, Delete, LoseUpdate, CallFails, Finish, Goto, TypeOK
  <2>2. TaskFacts(t)' /\ ~Creating(t)'
    BY <2>1 DEF TaskFacts, MemoryOf, Creating
  <2> QED BY <2>1, <2>2, LockLocalStep
<1>5. ASSUME NEW t \in Tasks, AddFinalizer(t) PROVE LockInv'
  <2> DEFINE c == t[2]
             m == [mem[t] EXCEPT !.finalizer = TRUE, !.rv = @ + 1]
  <2>1. pc[t] = "finalize" /\ CurrentVersion(t) /\ c \in CRs /\ cache' = cache
    BY <1>5, <1>b DEF AddFinalizer, KubeUpdate
  <2>2. /\ mem[t] \in CRStates /\ cr[c] \in CRStates /\ cr[c].rv = mem[t].rv
        /\ mem[t].creation # "pending" /\ mem[t].creation = cr[c].creation
    BY <1>b, <2>1 DEF TaskFacts, MemoryOf, CurrentVersion, TypeOK, Copies
  <2>3. m \in CRStates /\ m.rv = mem[t].rv + 1 /\ m.creation = mem[t].creation /\ m.finalizer
    BY <2>2, EditedCopies, Zenon DEF CRStates
  <2>4. cr' = [cr EXCEPT ![c] = m]
    BY <1>5 DEF AddFinalizer, KubeUpdate
  <2>5. /\ \A s \in Tasks \ {t} : pc'[s] = pc[s] /\ mem'[s] = mem[s]
        /\ \/ pc'[t] = "idle"
           \/ pc'[t] \in {"pend", "update"} /\ mem'[t] = m
    BY <1>5 DEF AddFinalizer, Finish, Goto, AfterFinalizer, TypeOK
  <2> HIDE DEF m
  <2>6. Advances(c)
    BY <2>1, <2>2, <2>3, <2>4 DEF Advances, CurrentVersion, TypeOK
  <2>7. TaskFacts(t)'
    BY <2>1, <2>2, <2>3, <2>4, <2>5, ConstantsAssumption
    DEF TaskFacts, MemoryOf, NotAhead, CurrentVersion, TypeOK, CRStates
  <2>8. \A s \in Tasks : Creating(s)' => s # t /\ Creating(s) /\ s[2] # c
    BY <2>2, <2>5 DEF Creating, LockInv, CreationLock
  <2>9. CreationLock' /\ CreateExclusive'
    BY <1>b, <2>4, <2>8 DEF LockInv, CreationLock, CreateExclusive, TypeOK
  <2> QED BY <2>1, <2>5, <2>6, <2>7, <2>9, LockServerStep
<1>6. ASSUME NEW t \in Tasks, AnnounceCreate(t) PROVE LockInv'
  <2> DEFINE c == t[2]
             m == [mem[t] EXCEPT !.creation = "pending", !.rv = @ + 1]
  <2>1. pc[t] = "pend" /\ CurrentVersion(t) /\ c \in CRs /\ cache' = cache
    BY <1>6, <1>b DEF AnnounceCreate, KubeUpdate
  <2>2. /\ mem[t] \in CRStates /\ cr[c] \in CRStates /\ cr[c].rv = mem[t].rv
        /\ mem[t].creation # "pending" /\ mem[t].creation = cr[c].creation
        /\ mem[t].finalizer
    BY <1>b, <2>1 DEF TaskFacts, MemoryOf, CurrentVersion, TypeOK, Copies
  <2>3. /\ m \in CRStates /\ m.rv = mem[t].rv + 1
        /\ m.creation = "pending" /\ m.finalizer = mem[t].finalizer
    BY <2>2, EditedCopies, Zenon DEF CRStates
  <2>4. cr' = [cr EXCEPT ![c] = m]
    BY <1>6 DEF AnnounceCreate, KubeUpdate
  <2>5. /\ \A s \in Tasks \ {t} : pc'[s] = pc[s] /\ mem'[s] = mem[s]
        /\ pc'[t] = "create" /\ mem'[t] = m
    BY <1>6 DEF AnnounceCreate, Goto, TypeOK
  <2> HIDE DEF m
  <2>6. Advances(c)
    BY <2>1, <2>2, <2>3, <2>4 DEF Advances, CurrentVersion, TypeOK
  <2>7. TaskFacts(t)'
    BY <2>1, <2>2, <2>3, <2>4, <2>5, ConstantsAssumption
    DEF TaskFacts, MemoryOf, NotAhead, CurrentVersion, TypeOK, CRStates
  <2>8. \A s \in Tasks \ {t} : Creating(s)' => Creating(s) /\ s[2] # c
    BY <2>2, <2>5 DEF Creating, LockInv, CreationLock
  <2>9. CreationLock'
    <3> SUFFICES ASSUME NEW s \in Tasks, Creating(s)'
                 PROVE  /\ cr'[s[2]] # Gone
                        /\ cr'[s[2]].creation = "pending"
                        /\ cr'[s[2]].finalizer
      BY DEF CreationLock
    <3>1. CASE s = t
      BY <2>1, <2>2, <2>3, <2>4, <3>1, ConstantsAssumption DEF TypeOK
    <3>2. CASE s # t
      BY <1>b, <2>4, <2>8, <3>2 DEF LockInv, CreationLock, TypeOK
    <3> QED BY <3>1, <3>2
  <2>10. CreateExclusive'
    BY <2>8 DEF LockInv, CreateExclusive
  <2> QED BY <2>1, <2>5, <2>6, <2>7, <2>9, <2>10, LockServerStep
<1>7. ASSUME NEW t \in Tasks, RecordCreate(t) PROVE LockInv'
  <2> DEFINE c == t[2]
             new == [cr[c] EXCEPT !.extName = mem[t].extName,
                                  !.creation = mem[t].creation, !.rv = @ + 1]
  <2>1. pc[t] = "record" /\ cr[c] \in CRStates /\ c \in CRs /\ cache' = cache
    BY <1>7, <1>b DEF RecordCreate, TypeOK, Copies
  <2>2. cr' = [cr EXCEPT ![c] = new] /\ new.rv = cr[c].rv + 1
    BY <1>7, <2>1 DEF RecordCreate, CRStates
  <2>3. /\ \A s \in Tasks \ {t} : pc'[s] = pc[s] /\ mem'[s] = mem[s]
        /\ pc'[t] = "idle"
    BY <1>7 DEF RecordCreate, Finish, Goto, TypeOK
  <2> HIDE DEF new
  <2>4. Advances(c)
    BY <2>1, <2>2, ConstantsAssumption DEF Advances, TypeOK
  <2>5. TaskFacts(t)'
    BY <2>3 DEF TaskFacts, MemoryOf
  <2>6. \A s \in Tasks : Creating(s)' => s # t /\ Creating(s) /\ s[2] # c
    BY <2>1, <2>3 DEF Creating, LockInv, CreateExclusive
  <2>7. CreationLock' /\ CreateExclusive'
    BY <1>b, <2>2, <2>6 DEF LockInv, CreationLock, CreateExclusive, TypeOK
  <2> QED BY <2>1, <2>3, <2>4, <2>5, <2>7, LockServerStep
<1>8. ASSUME NEW t \in Tasks, RemoveFinalizer(t) PROVE LockInv'
  <2> DEFINE c == t[2]
  <2>1. /\ pc[t] = "unfinalize" /\ CurrentVersion(t) /\ c \in CRs /\ cache' = cache
        /\ cr' = [cr EXCEPT ![c] = Gone]
    BY <1>8, <1>b DEF RemoveFinalizer, KubeUpdate
  <2>2. mem[t].creation # "pending" /\ mem[t].creation = cr[c].creation
    BY <1>b, <2>1 DEF TaskFacts, MemoryOf
  <2>3. /\ \A s \in Tasks \ {t} : pc'[s] = pc[s] /\ mem'[s] = mem[s]
        /\ pc'[t] = "idle"
    BY <1>8 DEF RemoveFinalizer, Finish, Goto, TypeOK
  <2>4. Advances(c)
    BY <2>1 DEF Advances, CurrentVersion, TypeOK
  <2>5. TaskFacts(t)'
    BY <2>3 DEF TaskFacts, MemoryOf
  <2>6. \A s \in Tasks : Creating(s)' => s # t /\ Creating(s) /\ s[2] # c
    BY <2>2, <2>3 DEF Creating, LockInv, CreationLock
  <2>7. CreationLock' /\ CreateExclusive'
    BY <1>b, <2>1, <2>6 DEF LockInv, CreationLock, CreateExclusive, TypeOK
  <2> QED BY <2>1, <2>3, <2>4, <2>5, <2>7, LockServerStep
<1>9. ASSUME NEW c \in CRs, UserEdits(c) \/ UserDeletes(c) PROVE LockInv'
  <2>1. cr[c] \in CRStates /\ UNCHANGED <<cache, pc, mem>>
    BY <1>9 DEF UserEdits, UserDeletes, task, TypeOK, Copies
  <2>2. /\ \A d \in CRs : d # c => cr'[d] = cr[d]
        /\ \/ cr'[c] = Gone /\ ~cr[c].finalizer
           \/ /\ cr'[c] # Gone /\ cr'[c].rv = cr[c].rv + 1
              /\ cr'[c].creation = cr[c].creation /\ cr'[c].finalizer = cr[c].finalizer
    <3> DEFINE edited(s) == [cr[c] EXCEPT !.spec = s, !.rv = @ + 1]
               doomed == [cr[c] EXCEPT !.deleting = TRUE, !.rv = @ + 1]
               Successor(x) == /\ x \in CRStates /\ x.rv = cr[c].rv + 1
                               /\ x.creation = cr[c].creation /\ x.finalizer = cr[c].finalizer
    <3>1. \A s \in Specs : Successor(edited(s))
      <4>1. \A s \in Specs : edited(s) \in CRStates
        BY <2>1, EditedCopies, Zenon
      <4> QED BY <2>1, <4>1 DEF CRStates
    <3>2. Successor(doomed)
      <4>1. doomed \in CRStates
        BY <2>1, EditedCopies, Zenon
      <4> QED BY <2>1, <4>1 DEF CRStates
    <3>3. \/ \E s \in Specs : cr' = [cr EXCEPT ![c] = edited(s)]
          \/ cr' = [cr EXCEPT ![c] = doomed]
          \/ cr' = [cr EXCEPT ![c] = Gone] /\ ~cr[c].finalizer
      BY <1>9, ConstantsAssumption DEF UserEdits, UserDeletes
    <3> HIDE DEF edited, doomed
    <3> QED BY <3>1, <3>2, <3>3, ConstantsAssumption DEF TypeOK
  <2>3. cr[c] # Gone
    BY <1>9 DEF UserEdits, UserDeletes
  <2>4. Advances(c)
    BY <2>2, <2>3 DEF Advances
  <2>5. CreationLock' /\ CreateExclusive'
    BY <1>b, <2>1, <2>2 DEF LockInv, CreationLock, CreateExclusive, Creating
  <2>6. /\ {} \in SUBSET Tasks /\ \A s \in {} : TaskFacts(s)'
        /\ \A s \in Tasks \ {} : pc'[s] = pc[s] /\ mem'[s] = mem[s]
    BY <2>1
  <2> QED BY <2>1, <2>4, <2>5, <2>6, LockServerStep
<1>10. ASSUME NEW t \in Tasks, SyncCache(t) PROVE LockInv'
  <2>1. UNCHANGED <<cr, pc, mem>> /\ \A s \in Tasks : cache'[s] = cache[s] \/ cache'[s] = cr[s[2]]
    BY <1>10 DEF SyncCache, task, TypeOK
  <2>2. CacheCoherent'
    BY <1>b, <2>1, ConstantsAssumption DEF LockInv, CacheCoherent, NotAhead, TypeOK, Copies, CRStates
  <2> QED
    BY <2>1, <2>2 DEF LockInv, MemoryCoherent, PhaseFacts, CreationLock, CreateExclusive,
       Creating, NotAhead, CurrentVersion
<1>11. ASSUME NEW r \in Replicas, Crash(r) PROVE LockInv'
  <2>1. /\ cr' = cr
        /\ \A s \in Tasks : cache'[s] = cache[s] \/ cache'[s] = cr[s[2]]
        /\ \A s \in Tasks : pc'[s] = "idle" \/ (pc'[s] = pc[s] /\ mem'[s] = mem[s])
    BY <1>11 DEF Crash
  <2>2. CacheCoherent'
    BY <1>b, <2>1, ConstantsAssumption DEF LockInv, CacheCoherent, NotAhead, TypeOK, Copies, CRStates
  <2>3. \A s \in Tasks : Creating(s)' => Creating(s)
    BY <2>1 DEF Creating
  <2>4. \A s \in Tasks : TaskFacts(s)'
    BY <1>b, <2>1 DEF TaskFacts, MemoryOf, NotAhead, CurrentVersion
  <2> QED
    BY <2>1, <2>2, <2>3, <2>4 DEF LockInv, CreationLock, CreateExclusive, MemoryCoherent,
       PhaseFacts, TaskFacts, MemoryOf
<1>12. CASE (\E id \in Ids : AdminChanges(id)) \/ UNCHANGED vars
  <2>1. UNCHANGED <<cr, cache, pc, mem>>
    BY <1>12 DEF AdminChanges, task, vars
  <2> QED
    BY <2>1 DEF LockInv, CacheCoherent, MemoryCoherent, PhaseFacts, CreationLock,
       CreateExclusive, Creating, NotAhead, CurrentVersion
<1> QED
  BY <1>1, <1>2, <1>3, <1>4, <1>5, <1>6, <1>7, <1>8, <1>9, <1>10, <1>11, <1>12
  DEF Next, Step

(* The announcement on the API server is a lock, and no copy of the resource,
   in a cache or in a reconcile, is ahead of the server or disagrees with the
   version it claims to be.                                                *)
THEOREM AnnouncementIsALock == Spec => []LockInv
BY LockInit, LockNext, PTL DEF Spec

(* No two replicas are ever between announcing and recording a creation of
   the same resource, however many of them run without leader election.    *)
THEOREM CreationIsExclusive == Spec => []CreateExclusive
<1>1. LockInv => CreateExclusive
  BY DEF LockInv
<1> QED BY <1>1, AnnouncementIsALock, PTL

-----------------------------------------------------------------------------
(* Ownership, for calls that are either executed and answered or not       *)
(* executed.                                                               *)

TaskKnows(t) ==
    /\ pc[t] = "create" \/ SawNothing(t) => Owned(t[2]) = {}
    /\ pc[t] = "record" =>
          Owned(t[2]) \subseteq IF mem[t].creation = "succeeded"
                                THEN {mem[t].extName} ELSE {}

OwnershipOf(c) ==
    /\ \A i, j \in Owned(c) : i = j
    /\ cr[c] = Gone => Owned(c) = {}
    /\ cr[c] # Gone /\ ~cr[c].finalizer => Owned(c) = {}
    /\ cr[c] # Gone /\ cr[c].creation # "pending" => Owned(c) \subseteq {cr[c].extName}

LiveUsed == \A id \in Ids : Live(id) => id \in used

LEMMA OwnByParts ==
    OwnInv <=> /\ LiveUsed
               /\ \A c \in CRs : OwnershipOf(c)
               /\ \A t \in Tasks : TaskKnows(t)
BY DEF OwnInv, LiveUsed, OwnershipTracked, OwnershipOf, TasksKnow, TaskKnows

LEMMA OwnInit == Init => OwnInv
<1> SUFFICES ASSUME Init PROVE OwnInv
  OBVIOUS
<1>1. \A id \in Ids : Live(id) => id \in used /\ account[id].creator = Foreign
  BY ConstantsAssumption DEF Init, Live
<1>2. \A c \in CRs : Owned(c) = {}
  BY <1>1, ConstantsAssumption DEF Owned
<1>3. \A t \in Tasks : t[2] \in CRs
  BY DEF Tasks
<1> QED BY <1>1, <1>2, <1>3 DEF OwnInv, OwnershipTracked, TasksKnow

(* A step that leaves the API server alone and makes no object need only be
   justified for the tasks it moves.                                       *)
LEMMA OwnLocalStep ==
    ASSUME OwnInv, cr' = cr, used' = used,
           \A id \in Ids : Live(id)' => Live(id) /\ account'[id].creator = account[id].creator,
           NEW U \in SUBSET Tasks,
           \A s \in Tasks \ U : pc'[s] = pc[s] /\ mem'[s] = mem[s] /\ obs'[s] = obs[s],
           \A s \in U : TaskKnows(s)'
    PROVE  OwnInv'
<1>1. \A c \in CRs : Owned(c)' \subseteq Owned(c)
  BY DEF Owned
<1>2. LiveUsed' /\ \A c \in CRs : OwnershipOf(c)'
  BY <1>1, OwnByParts DEF LiveUsed, OwnershipOf
<1>3. ASSUME NEW s \in Tasks \ U PROVE TaskKnows(s)'
  <2>1. TaskKnows(s) /\ s[2] \in CRs
    BY OwnByParts DEF Tasks
  <2>2. SawNothing(s)' => SawNothing(s)
    BY DEF SawNothing, CurrentVersion
  <2> QED BY <1>1, <2>1, <2>2 DEF TaskKnows
<1>4. \A s \in Tasks : TaskKnows(s)'
  BY <1>3
<1> QED BY <1>2, <1>4 DEF OwnInv, LiveUsed, OwnershipTracked, OwnershipOf, TasksKnow, TaskKnows

(* A step that moves one resource on and leaves the account alone need only
   be justified for that resource and the task that takes it.              *)
LEMMA OwnServerStep ==
    ASSUME LockInv, OwnInv, NEW c \in CRs, Advances(c), account' = account, used' = used,
           NEW U \in SUBSET Tasks,
           \A s \in Tasks \ U : pc'[s] = pc[s] /\ mem'[s] = mem[s] /\ obs'[s] = obs[s],
           \A s \in U : TaskKnows(s)',
           OwnershipOf(c)'
    PROVE  OwnInv'
<1>1. \A d : Owned(d)' = Owned(d)
  BY DEF Owned, Live
<1>2. LiveUsed' /\ \A d \in CRs : OwnershipOf(d)'
  BY <1>1, OwnByParts DEF LiveUsed, Live, OwnershipOf, Advances
<1>3. ASSUME NEW s \in Tasks \ U PROVE TaskKnows(s)'
  <2>1. TaskKnows(s) /\ s[2] \in CRs
    BY OwnByParts DEF Tasks
  <2>2. SawNothing(s)' => SawNothing(s)
    <3> SUFFICES ASSUME SawNothing(s)' PROVE SawNothing(s)
      OBVIOUS
    <3>1. pc[s] # "idle" /\ MemoryOf(s) /\ TypeOK
      BY LockByTask DEF SawNothing, TaskFacts
    <3>2. CurrentVersion(s)' => CurrentVersion(s)
      <4>1. mem[s] \in CRStates /\ mem[s].rv \in Nat
        BY <3>1 DEF MemoryOf, TypeOK, Copies, CRStates
      <4>2. Versions
        BY <3>1, VersionsAreNumbers
      <4> QED BY <2>1, <3>1, <4>1, <4>2 DEF CurrentVersion, MemoryOf, NotAhead, Advances, Versions
    <3> QED BY <3>2 DEF SawNothing
  <2> QED BY <1>1, <2>1, <2>2 DEF TaskKnows
<1>4. \A s \in Tasks : TaskKnows(s)'
  BY <1>3
<1> QED BY <1>2, <1>4 DEF OwnInv, LiveUsed, OwnershipTracked, OwnershipOf, TasksKnow, TaskKnows

(* An object made by the task that holds the creation lock. *)
LEMMA OwnCreate ==
    ASSUME LockInv, OwnInv, NEW t \in Tasks, Create(t)
    PROVE  OwnInv'
<1> DEFINE c == t[2]
<1>1. PICK id \in Ids \ used : /\ account' = [account EXCEPT ![id] = NewObject(t)]
                               /\ used' = used \cup {id}
                               /\ mem' = [mem EXCEPT ![t] = Created(mem[t], id)]
  BY DEF Create, ServerCreates
<1>2. /\ pc[t] = "create" /\ c \in CRs /\ mem[t] \in CRStates /\ TypeOK
      /\ \A s \in Tasks : TaskFacts(s) /\ TaskKnows(s) /\ s[2] \in CRs
  BY LockByTask, OwnByParts DEF Create, TaskFacts, MemoryOf, TypeOK, Copies, Tasks
<1>3. /\ cr' = cr
      /\ \A s \in Tasks : s # t => pc'[s] = pc[s] /\ mem'[s] = mem[s] /\ obs'[s] = obs[s]
      /\ pc'[t] = "record"
  BY <1>1, <1>2 DEF Create, Goto, TypeOK
<1>4. cr[c] # Gone /\ cr[c].creation = "pending" /\ cr[c].finalizer
  BY <1>2 DEF LockInv, CreationLock, Creating
<1>5. NewObject(t) # NoObject /\ NewObject(t).creator = c
  <2>1. NewObject(t) \in Objects
    BY <1>2, NewObjectType
  <2> QED BY <2>1, ConstantsAssumption DEF NewObject
<1>6. Owned(c) = {} /\ ~Live(id)
  BY <1>1, <1>2, OwnByParts DEF TaskKnows, LiveUsed
<1>7. Owned(c)' = {id} /\ \A d \in CRs : d # c => Owned(d)' = Owned(d)
  BY <1>1, <1>2, <1>5, <1>6 DEF Owned, Live, TypeOK
<1>8. LiveUsed'
  BY <1>1, <1>2, OwnByParts DEF LiveUsed, Live, TypeOK
<1>9. \A d \in CRs : OwnershipOf(d)'
  BY <1>3, <1>4, <1>7, OwnByParts DEF OwnershipOf
<1>10. ASSUME NEW s \in Tasks PROVE TaskKnows(s)'
  <2>1. CASE s = t
    <3>1. mem'[t].extName = id /\ mem'[t].creation = "succeeded"
      BY <1>1, <1>2 DEF Created, CRStates, TypeOK
    <3> QED BY <1>3, <1>7, <2>1, <3>1 DEF TaskKnows, SawNothing
  <2>2. CASE s # t /\ s[2] # c
    <3>1. SawNothing(s)' <=> SawNothing(s)
      BY <1>3, <2>2 DEF SawNothing, CurrentVersion
    <3> QED BY <1>2, <1>3, <1>7, <2>2, <3>1 DEF TaskKnows
  <2>3. CASE s # t /\ s[2] = c
    <3>1. pc[s] \notin {"create", "record"}
      BY <1>2, <2>3 DEF LockInv, CreateExclusive, Creating
    <3>2. ~SawNothing(s)'
      BY <1>2, <1>3, <1>4, <2>3, <3>1
      DEF SawNothing, CurrentVersion, TaskFacts, MemoryOf
    <3> QED BY <1>3, <2>3, <3>1, <3>2 DEF TaskKnows
  <2> QED BY <2>1, <2>2, <2>3
<1> QED BY <1>8, <1>9, <1>10 DEF OwnInv, LiveUsed, OwnershipTracked, OwnershipOf, TasksKnow, TaskKnows

(* What an observation that found nothing knows. *)
LEMMA ObservedNothing ==
    ASSUME LockInv, OwnInv, NEW t \in Tasks, pc[t] = "observe", CurrentVersion(t),
           FindExternal(mem[t]) = {}
    PROVE  Owned(t[2]) = {}
<1>1. TaskFacts(t) /\ TypeOK /\ OwnershipOf(t[2])
  BY LockByTask, OwnByParts DEF Tasks
<1>2. /\ cr[t[2]] # Gone /\ cr[t[2]].creation # "pending"
      /\ mem[t].extName = cr[t[2]].extName
  BY <1>1 DEF CurrentVersion, TaskFacts, MemoryOf
<1>3. Owned(t[2]) \subseteq {mem[t].extName}
  BY <1>1, <1>2 DEF OwnershipOf
<1>4. CASE mem[t].extName = Unnamed
  BY <1>3, <1>4, ConstantsAssumption DEF Owned
<1>5. CASE mem[t].extName # Unnamed
  BY <1>3, <1>5 DEF FindExternal, Owned
<1> QED BY <1>4, <1>5

LEMMA OwnNext ==
    ASSUME LostReplies = FALSE
    PROVE  LockInv /\ OwnInv /\ [Next]_vars => OwnInv'
<1> SUFFICES ASSUME LockInv, OwnInv, [Next]_vars PROVE OwnInv'
  OBVIOUS
<1>a. TypeOK /\ \A t \in Tasks : TaskFacts(t) /\ TaskKnows(t) /\ t[2] \in CRs
  BY LockByTask, OwnByParts DEF Tasks
<1>b. \A c \in CRs : OwnershipOf(c)
  BY OwnByParts
<1>c. \A t \in Tasks : pc[t] \in {"finalize", "pend", "unfinalize"} /\ CurrentVersion(t)
         => /\ cr[t[2]] \in CRStates /\ mem[t] \in CRStates
            /\ cr[t[2]] # Gone /\ cr[t[2]].rv = mem[t].rv
            /\ cr[t[2]].finalizer = mem[t].finalizer
  BY <1>a DEF TaskFacts, MemoryOf, CurrentVersion, TypeOK, Copies
<1> USE <1>a
<1>1. ASSUME NEW t \in Tasks,
             Connect(t) \/ ObserveFound(t) \/ ObserveAbsent(t) \/ LoseUpdate(t) \/ CallFails(t)
      PROVE  OwnInv'
  <2>1. /\ cr' = cr /\ account' = account /\ used' = used
        /\ \A s \in Tasks \ {t} : pc'[s] = pc[s] /\ mem'[s] = mem[s] /\ obs'[s] = obs[s]
    BY <1>1 DEF Connect, ObserveFound, ObserveAbsent, LoseUpdate, CallFails,
       Finish, Goto, Branch, TypeOK
  <2>2. \A c : Owned(c)' = Owned(c)
    BY <2>1 DEF Owned, Live
  <2>3. TaskKnows(t)'
    <3>1. CASE Connect(t) \/ LoseUpdate(t) \/ CallFails(t)
      BY <3>1 DEF Connect, LoseUpdate, CallFails, Finish, Goto, TypeOK, TaskKnows, SawNothing
    <3>2. CASE ObserveFound(t)
      BY <3>2 DEF ObserveFound, Finish, Goto, Branch, AfterFinalizer, TypeOK, TaskKnows, SawNothing
    <3>3. CASE ObserveAbsent(t)
      <4>1. pc[t] = "observe" /\ FindExternal(mem[t]) = {} /\ mem' = mem
            /\ pc'[t] \notin {"create", "record"}
        BY <3>3 DEF ObserveAbsent, Branch, Goto, AfterFinalizer, TypeOK
      <4>2. SawNothing(t)' => CurrentVersion(t)
        BY <2>1, <4>1 DEF SawNothing, CurrentVersion
      <4> QED BY <2>2, <4>1, <4>2, ObservedNothing DEF TaskKnows
    <3> QED BY <1>1, <3>1, <3>2, <3>3
  <2>4. {t} \in SUBSET Tasks /\ \A s \in {t} : TaskKnows(s)'
    BY <2>3
  <2> QED BY <2>1, <2>4, OwnLocalStep DEF Live
<1>2. ASSUME NEW t \in Tasks, AddFinalizer(t) PROVE OwnInv'
  <2> DEFINE c == t[2]
             m == [mem[t] EXCEPT !.finalizer = TRUE, !.rv = @ + 1]
  <2>1. /\ pc[t] = "finalize" /\ CurrentVersion(t) /\ account' = account /\ used' = used
        /\ cr' = [cr EXCEPT ![c] = m]
    BY <1>2 DEF AddFinalizer, KubeUpdate
  <2>2. /\ \A s \in Tasks \ {t} : pc'[s] = pc[s] /\ mem'[s] = mem[s] /\ obs'[s] = obs[s]
        /\ pc'[t] \in {"idle", "pend", "update"}
    BY <1>2 DEF AddFinalizer, Finish, Goto, AfterFinalizer, TypeOK
  <2>3. Owned(c) = {} /\ Owned(c)' = {}
    BY <1>b, <1>c, <2>1 DEF OwnershipOf, TaskFacts, Owned, Live
  <2>4. m \in CRStates /\ m.rv = mem[t].rv + 1
    <3>1. m \in CRStates
      BY <1>c, <2>1, EditedCopies, Zenon
    <3> QED BY <1>c, <2>1, <3>1 DEF CRStates
  <2> HIDE DEF m
  <2>5. Advances(c)
    BY <1>c, <2>1, <2>4 DEF Advances, TypeOK
  <2>6. TaskKnows(t)' /\ OwnershipOf(c)'
    BY <2>2, <2>3 DEF TaskKnows, OwnershipOf
  <2>7. {t} \in SUBSET Tasks /\ \A s \in {t} : TaskKnows(s)'
    BY <2>6
  <2> QED BY <2>1, <2>2, <2>5, <2>6, <2>7, OwnServerStep
<1>3. ASSUME NEW t \in Tasks, AnnounceCreate(t) PROVE OwnInv'
  <2> DEFINE c == t[2]
             m == [mem[t] EXCEPT !.creation = "pending", !.rv = @ + 1]
  <2>1. /\ pc[t] = "pend" /\ CurrentVersion(t) /\ account' = account /\ used' = used
        /\ cr' = [cr EXCEPT ![c] = m]
    BY <1>3 DEF AnnounceCreate, KubeUpdate
  <2>2. /\ \A s \in Tasks \ {t} : pc'[s] = pc[s] /\ mem'[s] = mem[s] /\ obs'[s] = obs[s]
        /\ pc'[t] = "create"
    BY <1>3 DEF AnnounceCreate, Goto, TypeOK
  <2>3. Owned(c) = {} /\ Owned(c)' = {}
    BY <2>1 DEF TaskKnows, SawNothing, Owned, Live
  <2>4. m \in CRStates /\ m.rv = mem[t].rv + 1
    <3>1. m \in CRStates
      BY <1>c, <2>1, EditedCopies, Zenon
    <3> QED BY <1>c, <2>1, <3>1 DEF CRStates
  <2> HIDE DEF m
  <2>5. Advances(c)
    BY <1>c, <2>1, <2>4 DEF Advances, TypeOK
  <2>6. TaskKnows(t)' /\ OwnershipOf(c)'
    BY <2>2, <2>3 DEF TaskKnows, OwnershipOf
  <2>7. {t} \in SUBSET Tasks /\ \A s \in {t} : TaskKnows(s)'
    BY <2>6
  <2> QED BY <2>1, <2>2, <2>5, <2>6, <2>7, OwnServerStep
<1>4. ASSUME NEW t \in Tasks, RecordCreate(t) PROVE OwnInv'
  <2> DEFINE c == t[2]
             new == [cr[c] EXCEPT !.extName = mem[t].extName,
                                  !.creation = mem[t].creation, !.rv = @ + 1]
  <2>1. /\ pc[t] = "record" /\ cr[c] # Gone /\ cr[c] \in CRStates /\ mem[t] \in CRStates
        /\ account' = account /\ used' = used
    BY <1>4 DEF RecordCreate, TypeOK, Copies, TaskFacts, MemoryOf
  <2>2. /\ \A s \in Tasks \ {t} : pc'[s] = pc[s] /\ mem'[s] = mem[s] /\ obs'[s] = obs[s]
        /\ pc'[t] = "idle"
    BY <1>4 DEF RecordCreate, Finish, Goto, TypeOK
  <2>3. /\ cr' = [cr EXCEPT ![c] = new] /\ new \in CRStates
        /\ new.rv = cr[c].rv + 1 /\ new.extName = mem[t].extName
        /\ new.creation = mem[t].creation /\ new.finalizer = cr[c].finalizer
    <3>1. cr' = [cr EXCEPT ![c] = new] /\ new \in CRStates
      BY <1>4, <2>1, EditedCopies, Zenon DEF RecordCreate
    <3> QED BY <2>1, <3>1 DEF CRStates
  <2> HIDE DEF new
  <2>4. Advances(c)
    BY <2>1, <2>3 DEF Advances, TypeOK
  <2>5. TaskKnows(t)'
    BY <2>2 DEF TaskKnows, SawNothing
  <2>6. cr[c].finalizer
    BY <2>1 DEF LockInv, CreationLock, Creating
  <2>7. OwnershipOf(c)'
    <3>1. Owned(c)' = Owned(c) /\ cr'[c] = new /\ new # Gone
      BY <2>1, <2>3, ConstantsAssumption DEF Owned, Live, TypeOK
    <3>2. Owned(c) \subseteq {new.extName} /\ \A i, j \in Owned(c) : i = j
      BY <1>b, <2>1, <2>3 DEF TaskKnows, OwnershipOf
    <3> QED BY <2>3, <2>6, <3>1, <3>2 DEF OwnershipOf
  <2>8. {t} \in SUBSET Tasks /\ \A s \in {t} : TaskKnows(s)'
    BY <2>5
  <2> QED BY <2>1, <2>2, <2>4, <2>7, <2>8, OwnServerStep
<1>5. ASSUME NEW t \in Tasks, RemoveFinalizer(t) PROVE OwnInv'
  <2> DEFINE c == t[2]
  <2>1. /\ pc[t] = "unfinalize" /\ CurrentVersion(t) /\ account' = account /\ used' = used
        /\ cr' = [cr EXCEPT ![c] = Gone]
    BY <1>5 DEF RemoveFinalizer, KubeUpdate
  <2>2. /\ \A s \in Tasks \ {t} : pc'[s] = pc[s] /\ mem'[s] = mem[s] /\ obs'[s] = obs[s]
        /\ pc'[t] = "idle"
    BY <1>5 DEF RemoveFinalizer, Finish, Goto, TypeOK
  <2>3. Owned(c)' = {}
    BY <2>1 DEF TaskKnows, SawNothing, Owned, Live
  <2>4. Advances(c) /\ cr'[c] = Gone
    BY <1>c, <2>1 DEF Advances, TypeOK
  <2>5. TaskKnows(t)' /\ OwnershipOf(c)'
    BY <2>2, <2>3, <2>4 DEF TaskKnows, SawNothing, OwnershipOf
  <2>6. {t} \in SUBSET Tasks /\ \A s \in {t} : TaskKnows(s)'
    BY <2>5
  <2> QED BY <2>1, <2>2, <2>4, <2>5, <2>6, OwnServerStep
<1>6. ASSUME NEW t \in Tasks, Create(t) PROVE OwnInv'
  BY <1>6, OwnCreate
<1>7. ASSUME NEW t \in Tasks, CreateFails(t) \/ Update(t) \/ Delete(t) PROVE OwnInv'
  <2>1. /\ cr' = cr /\ used' = used
        /\ \A s \in Tasks \ {t} : pc'[s] = pc[s] /\ mem'[s] = mem[s] /\ obs'[s] = obs[s]
        /\ pc'[t] \in {"idle", "record"}
    BY <1>7 DEF CreateFails, Update, Delete, Finish, Goto, TypeOK
  <2>2. \A id \in Ids : Live(id)' => Live(id) /\ account'[id].creator = account[id].creator
    <3>1. CASE CreateFails(t)
      BY <3>1 DEF CreateFails, Live
    <3>2. CASE Delete(t)
      BY <3>2 DEF Delete, Live, TypeOK
    <3>3. CASE Update(t)
      <4>1. \A o \in Objects :
              [o EXCEPT !.name = mem[t].spec.name, !.body = mem[t].spec.body].creator = o.creator
        BY DEF Objects
      <4> QED BY <3>3, <4>1 DEF Update, Live, TypeOK
    <3> QED BY <1>7, <3>1, <3>2, <3>3
  <2>3. pc'[t] = "record" =>
           pc[t] = "create" /\ account' = account /\ mem'[t].creation = "failed"
    BY <1>7 DEF CreateFails, Update, Delete, Finish, Goto, TypeOK, TaskFacts, MemoryOf,
       Copies, CRStates
  <2>4. TaskKnows(t)'
    BY <2>1, <2>3 DEF TaskKnows, SawNothing, Owned, Live
  <2>5. {t} \in SUBSET Tasks /\ \A s \in {t} : TaskKnows(s)'
    BY <2>4
  <2> QED BY <2>1, <2>2, <2>5, OwnLocalStep
<1>8. ASSUME NEW t \in Tasks, CreateRepeated(t) PROVE OwnInv'
  BY <1>8 DEF CreateRepeated
<1>9. ASSUME NEW c \in CRs, UserEdits(c) \/ UserDeletes(c) PROVE OwnInv'
  <2>1. cr[c] # Gone /\ cr[c] \in CRStates /\ UNCHANGED <<pc, mem, obs, account, used>>
    BY <1>9 DEF UserEdits, UserDeletes, task, TypeOK, Copies
  <2>2. /\ Advances(c)
        /\ \/ cr'[c] = Gone /\ ~cr[c].finalizer
           \/ /\ cr'[c] # Gone /\ cr'[c].creation = cr[c].creation
              /\ cr'[c].finalizer = cr[c].finalizer /\ cr'[c].extName = cr[c].extName
    <3> DEFINE edited(s) == [cr[c] EXCEPT !.spec = s, !.rv = @ + 1]
               doomed == [cr[c] EXCEPT !.deleting = TRUE, !.rv = @ + 1]
               Successor(x) == /\ x \in CRStates /\ x.rv = cr[c].rv + 1
                               /\ x.creation = cr[c].creation /\ x.finalizer = cr[c].finalizer
                               /\ x.extName = cr[c].extName
    <3>1. \A s \in Specs : Successor(edited(s))
      <4>1. \A s \in Specs : edited(s) \in CRStates
        BY <2>1, EditedCopies, Zenon
      <4> QED BY <2>1, <4>1 DEF CRStates
    <3>2. Successor(doomed)
      <4>1. doomed \in CRStates
        BY <2>1, EditedCopies, Zenon
      <4> QED BY <2>1, <4>1 DEF CRStates
    <3>3. \/ \E s \in Specs : cr' = [cr EXCEPT ![c] = edited(s)]
          \/ cr' = [cr EXCEPT ![c] = doomed]
          \/ cr' = [cr EXCEPT ![c] = Gone] /\ ~cr[c].finalizer
      BY <1>9, ConstantsAssumption DEF UserEdits, UserDeletes
    <3> HIDE DEF edited, doomed
    <3> QED BY <2>1, <3>1, <3>2, <3>3, ConstantsAssumption DEF Advances, TypeOK
  <2>3. OwnershipOf(c)'
    BY <1>b, <2>1, <2>2 DEF OwnershipOf, Owned, Live
  <2>4. /\ {} \in SUBSET Tasks /\ \A s \in {} : TaskKnows(s)'
        /\ \A s \in Tasks \ {} : pc'[s] = pc[s] /\ mem'[s] = mem[s] /\ obs'[s] = obs[s]
    BY <2>1
  <2> QED BY <2>1, <2>2, <2>3, <2>4, OwnServerStep
<1>10. ASSUME NEW r \in Replicas, Crash(r) PROVE OwnInv'
  <2> DEFINE U == {s \in Tasks : s[1] = r}
  <2>1. /\ cr' = cr /\ account' = account /\ used' = used /\ U \in SUBSET Tasks
        /\ \A s \in U : pc'[s] = "idle"
        /\ \A s \in Tasks \ U : pc'[s] = pc[s] /\ mem'[s] = mem[s] /\ obs'[s] = obs[s]
    BY <1>10 DEF Crash
  <2>2. \A s \in U : TaskKnows(s)'
    BY <2>1 DEF TaskKnows, SawNothing
  <2> HIDE DEF U
  <2> QED BY <2>1, <2>2, OwnLocalStep DEF Live
<1>11. CASE \/ \E t \in Tasks : SyncCache(t)
            \/ \E id \in Ids : AdminChanges(id)
            \/ UNCHANGED vars
  <2>1. UNCHANGED <<cr, used, pc, mem, obs>>
    BY <1>11 DEF SyncCache, AdminChanges, task, vars
  <2>2. \A id \in Ids : Live(id)' => Live(id) /\ account'[id].creator = account[id].creator
    <3>1. CASE UNCHANGED account
      BY <3>1 DEF Live
    <3>2. ASSUME NEW id \in Ids, AdminChanges(id)
          PROVE  \A i \in Ids : Live(i)' => Live(i) /\ account'[i].creator = account[i].creator
      <4>1. \A o \in Objects, b \in Bodies : [o EXCEPT !.body = b].creator = o.creator
        BY DEF Objects
      <4>2. Live(id) /\ account[id] \in Objects
        BY <3>2 DEF AdminChanges, Live, TypeOK
      <4>3. \/ account' = [account EXCEPT ![id] = NoObject]
            \/ \E o : o.creator = account[id].creator /\ account' = [account EXCEPT ![id] = o]
        BY <3>2, <4>1, <4>2 DEF AdminChanges
      <4> QED BY <4>2, <4>3 DEF Live, TypeOK
    <3> QED BY <1>11, <3>1, <3>2 DEF SyncCache, vars
  <2>3. /\ {} \in SUBSET Tasks /\ \A s \in {} : TaskKnows(s)'
        /\ \A s \in Tasks \ {} : pc'[s] = pc[s] /\ mem'[s] = mem[s] /\ obs'[s] = obs[s]
    BY <2>1
  <2> QED BY <2>1, <2>2, <2>3, OwnLocalStep
<1> QED
  BY <1>1, <1>2, <1>3, <1>4, <1>5, <1>6, <1>7, <1>8, <1>9, <1>10, <1>11 DEF Next, Step

-----------------------------------------------------------------------------
(* The refinement.                                                         *)

LEMMA AbstractInit == Init => Abstract!OInit
<1> SUFFICES ASSUME Init PROVE Abstract!OInit
  OBVIOUS
<1>1. \A id \in Ids : Live(id) => account[id].creator = Foreign
  BY ConstantsAssumption DEF Init, Live
<1>2. \A c \in CRs : Owned(c) = {}
  BY <1>1, ConstantsAssumption DEF Owned
<1>3. \A c \in CRs : cr[c] # Gone
  BY ConstantsAssumption, AppliedType DEF Init
<1> QED BY <1>2, <1>3 DEF Abstract!OInit

(* Seen from the abstract level a step stutters, or makes an object for a
   resource that owns none, or takes one away, or retires a resource.      *)
Stutters == /\ \A d \in CRs : Owned(d)' = Owned(d)
            /\ \A d \in CRs : cr'[d] = Gone <=> cr[d] = Gone

Acquires(c, id) ==
    /\ cr[c] # Gone /\ Owned(c) = {} /\ Owned(c)' = {id} /\ ~Live(id)
    /\ \A d \in CRs : d # c => Owned(d)' = Owned(d)
    /\ cr' = cr

Loses(c) ==
    /\ Owned(c)' = {}
    /\ \A d \in CRs : d # c => Owned(d)' = Owned(d)
    /\ cr' = cr

Retires(c) ==
    /\ Owned(c) = {} /\ cr'[c] = Gone
    /\ \A d \in CRs : Owned(d)' = Owned(d)
    /\ \A d \in CRs : d # c => cr'[d] = cr[d]

(* At most one resource owned the object that goes, and nothing else. *)
LEMMA Removal ==
    ASSUME TypeOK, OwnInv, NEW id, account' = [account EXCEPT ![id] = NoObject], cr' = cr
    PROVE  Stutters \/ \E c \in CRs : Loses(c)
<1>1. \A d \in CRs : Owned(d)' = Owned(d) \ {id}
  BY DEF Owned, Live, TypeOK
<1>2. CASE \E c \in CRs : id \in Owned(c)
  <2>1. PICK c \in CRs : id \in Owned(c)
    BY <1>2
  <2>2. Owned(c) = {id} /\ \A d \in CRs : d # c => id \notin Owned(d)
    BY <2>1, OwnByParts DEF OwnershipOf, Owned
  <2> QED BY <1>1, <2>2 DEF Loses
<1>3. CASE \A c \in CRs : id \notin Owned(c)
  BY <1>1, <1>3 DEF Stutters
<1> QED BY <1>2, <1>3

LEMMA StepEffect ==
    ASSUME LostReplies = FALSE, LockInv, OwnInv, OwnInv', [Next]_vars
    PROVE  \/ Stutters
           \/ \E c \in CRs : Loses(c) \/ Retires(c) \/ \E id \in Ids : Acquires(c, id)
<1>a. TypeOK /\ \A t \in Tasks : TaskFacts(t) /\ TaskKnows(t) /\ t[2] \in CRs
  BY LockByTask, OwnByParts DEF Tasks
<1>b. \A c \in CRs : OwnershipOf(c) /\ OwnershipOf(c)'
  BY OwnByParts DEF OwnInv, OwnershipTracked, OwnershipOf
<1>c. account' = account => \A d \in CRs : Owned(d)' = Owned(d)
  BY DEF Owned, Live
<1>1. CASE UNCHANGED <<cr, account>>
  BY <1>1, <1>c DEF Stutters
<1>2. ASSUME NEW t \in Tasks, AddFinalizer(t) \/ AnnounceCreate(t) PROVE Stutters
  <2>1. account' = account /\ CurrentVersion(t) /\ \E m \in CRStates : cr' = [cr EXCEPT ![t[2]] = m]
    <3>1. mem[t] \in CRStates
      BY <1>2, <1>a DEF AddFinalizer, AnnounceCreate, TaskFacts, MemoryOf, TypeOK, Copies
    <3>2. CASE AddFinalizer(t)
      <4> DEFINE m == [mem[t] EXCEPT !.finalizer = TRUE, !.rv = @ + 1]
      <4>1. m \in CRStates
        BY <3>1, EditedCopies, Zenon
      <4>2. account' = account /\ CurrentVersion(t) /\ cr' = [cr EXCEPT ![t[2]] = m]
        BY <3>2 DEF AddFinalizer, KubeUpdate
      <4> HIDE DEF m
      <4> QED BY <4>1, <4>2
    <3>3. CASE AnnounceCreate(t)
      <4> DEFINE m == [mem[t] EXCEPT !.creation = "pending", !.rv = @ + 1]
      <4>1. m \in CRStates
        BY <3>1, EditedCopies, Zenon
      <4>2. account' = account /\ CurrentVersion(t) /\ cr' = [cr EXCEPT ![t[2]] = m]
        BY <3>3 DEF AnnounceCreate, KubeUpdate
      <4> HIDE DEF m
      <4> QED BY <4>1, <4>2
    <3> QED BY <1>2, <3>2, <3>3
  <2> QED BY <1>a, <1>c, <2>1, ConstantsAssumption DEF Stutters, CurrentVersion, TypeOK
<1>3. ASSUME NEW t \in Tasks, RecordCreate(t) PROVE Stutters
  <2>1. /\ account' = account /\ cr[t[2]] # Gone
        /\ cr[t[2]] \in CRStates /\ mem[t] \in CRStates
    BY <1>3, <1>a DEF RecordCreate, TaskFacts, MemoryOf, TypeOK, Copies
  <2>2. \E m \in CRStates : cr' = [cr EXCEPT ![t[2]] = m]
    <3> DEFINE m == [cr[t[2]] EXCEPT !.extName = mem[t].extName,
                                     !.creation = mem[t].creation, !.rv = @ + 1]
    <3>1. m \in CRStates
      BY <2>1, EditedCopies, Zenon
    <3>2. cr' = [cr EXCEPT ![t[2]] = m]
      BY <1>3 DEF RecordCreate
    <3> HIDE DEF m
    <3> QED BY <3>1, <3>2
  <2> QED BY <1>a, <1>c, <2>1, <2>2, ConstantsAssumption DEF Stutters, TypeOK
<1>4. ASSUME NEW t \in Tasks, RemoveFinalizer(t) PROVE Retires(t[2])
  BY <1>4, <1>a, <1>c DEF RemoveFinalizer, KubeUpdate, Retires, TaskKnows, SawNothing, TypeOK
<1>5. ASSUME NEW t \in Tasks, Create(t) PROVE \E id \in Ids : Acquires(t[2], id)
  <2> DEFINE c == t[2]
  <2>1. PICK id \in Ids \ used : account' = [account EXCEPT ![id] = NewObject(t)]
    BY <1>5 DEF Create, ServerCreates
  <2>2. cr' = cr /\ cr[c] # Gone /\ Owned(c) = {} /\ ~Live(id)
    BY <1>5, <1>a, <2>1, OwnByParts
    DEF Create, TaskKnows, LockInv, CreationLock, Creating, LiveUsed
  <2>3. NewObject(t) # NoObject /\ NewObject(t).creator = c
    <3>1. mem[t] \in CRStates
      BY <1>5, <1>a DEF Create, TaskFacts, MemoryOf, TypeOK, Copies
    <3>2. NewObject(t) \in Objects
      BY <3>1, NewObjectType
    <3> QED BY <3>2, ConstantsAssumption DEF NewObject
  <2>4. Owned(c)' = {id} /\ \A d \in CRs : d # c => Owned(d)' = Owned(d)
    BY <1>a, <2>1, <2>2, <2>3 DEF Owned, Live, TypeOK
  <2> QED BY <2>2, <2>4 DEF Acquires
<1>6. ASSUME NEW t \in Tasks, CreateFails(t) \/ CreateRepeated(t) PROVE UNCHANGED <<cr, account>>
  BY <1>6 DEF CreateFails, CreateRepeated
<1>7. ASSUME NEW t \in Tasks, Update(t) PROVE Stutters
  <2> DEFINE id == mem[t].extName
             put(o) == [o EXCEPT !.name = mem[t].spec.name, !.body = mem[t].spec.body]
  <2>1. cr' = cr /\ (account' = account \/ account' = [account EXCEPT ![id] = put(account[id])])
    BY <1>7 DEF Update
  <2>2. \A o \in Objects : put(o).creator = o.creator /\ put(o) \in Objects
    <3>1. mem[t].spec \in Specs
      BY <1>7, <1>a DEF Update, TaskFacts, MemoryOf, TypeOK, Copies, CRStates
    <3> QED BY <3>1 DEF Objects, Specs
  <2> HIDE DEF put
  <2>3. CASE id \notin Ids
    BY <1>a, <1>c, <2>1, <2>3 DEF Stutters, TypeOK
  <2>4. CASE id \in Ids /\ ~Live(id)
    <3>1. account' = account
      BY <1>7, <2>4 DEF Update
    <3> QED BY <1>c, <2>1, <3>1 DEF Stutters
  <2>5. CASE id \in Ids /\ Live(id)
    <3>1. account[id] \in Objects
      BY <1>a, <2>5 DEF Live, TypeOK
    <3>2. put(account[id]) # NoObject /\ put(account[id]).creator = account[id].creator
      BY <2>2, <3>1, ConstantsAssumption
    <3>3. \A i \in Ids : (Live(i)' <=> Live(i)) /\ account'[i].creator = account[i].creator
      BY <1>a, <2>1, <2>5, <3>2 DEF Live, TypeOK
    <3> QED BY <2>1, <3>3 DEF Stutters, Owned
  <2> QED BY <2>3, <2>4, <2>5
<1>8. ASSUME NEW t \in Tasks, Delete(t) PROVE Stutters \/ \E c \in CRs : Loses(c)
  <2>1. cr' = cr /\ account' = [account EXCEPT ![mem[t].extName] = NoObject]
    BY <1>8 DEF Delete
  <2> QED BY <1>a, <2>1, Removal
<1>9. ASSUME NEW c \in CRs, UserEdits(c) PROVE Stutters
  <2>1. account' = account /\ cr[c] # Gone /\ cr[c] \in CRStates
    BY <1>9, <1>a DEF UserEdits, TypeOK, Copies
  <2>2. \E m \in CRStates : cr' = [cr EXCEPT ![c] = m]
    <3> DEFINE edited(x) == [cr[c] EXCEPT !.spec = x, !.rv = @ + 1]
    <3>1. \A x \in Specs : edited(x) \in CRStates
      BY <2>1, EditedCopies, Zenon
    <3>2. \E x \in Specs : cr' = [cr EXCEPT ![c] = edited(x)]
      BY <1>9, ConstantsAssumption DEF UserEdits
    <3> HIDE DEF edited
    <3> QED BY <3>1, <3>2
  <2> QED BY <1>a, <1>c, <2>1, <2>2, ConstantsAssumption DEF Stutters, TypeOK
<1>10. ASSUME NEW c \in CRs, UserDeletes(c) PROVE Stutters \/ Retires(c)
  <2>1. account' = account /\ cr[c] # Gone /\ cr[c] \in CRStates
    BY <1>10, <1>a DEF UserDeletes, task, TypeOK, Copies
  <2>2. CASE cr[c].finalizer
    <3>1. \E m \in CRStates : cr' = [cr EXCEPT ![c] = m]
      <4> DEFINE m == [cr[c] EXCEPT !.deleting = TRUE, !.rv = @ + 1]
      <4>1. m \in CRStates
        BY <2>1, EditedCopies, Zenon
      <4>2. cr' = [cr EXCEPT ![c] = m]
        BY <1>10, <2>2 DEF UserDeletes
      <4> HIDE DEF m
      <4> QED BY <4>1, <4>2
    <3> QED BY <1>a, <1>c, <2>1, <3>1, ConstantsAssumption DEF Stutters, TypeOK
  <2>3. CASE ~cr[c].finalizer
    <3>1. Owned(c) = {} /\ cr' = [cr EXCEPT ![c] = Gone]
      BY <1>10, <1>b, <2>1, <2>3 DEF UserDeletes, OwnershipOf
    <3> QED BY <1>a, <1>c, <2>1, <3>1 DEF Retires, TypeOK
  <2> QED BY <2>2, <2>3
<1>11. ASSUME NEW id \in Ids, AdminChanges(id) PROVE Stutters \/ \E c \in CRs : Loses(c)
  <2>1. cr' = cr /\ Live(id) /\ account[id] \in Objects
    BY <1>11, <1>a DEF AdminChanges, Live, TypeOK
  <2>2. CASE account' = [account EXCEPT ![id] = NoObject]
    BY <1>a, <2>1, <2>2, Removal
  <2>3. ASSUME NEW b \in Bodies, account' = [account EXCEPT ![id].body = b]
        PROVE  Stutters
    <3> DEFINE o == [account[id] EXCEPT !.body = b]
    <3>1. o \in Objects /\ o.creator = account[id].creator
      BY <2>1 DEF Objects
    <3>2. account' = [account EXCEPT ![id] = o] /\ o # NoObject
      BY <2>3, <3>1, ConstantsAssumption
    <3> HIDE DEF o
    <3>3. \A i \in Ids : (Live(i)' <=> Live(i)) /\ account'[i].creator = account[i].creator
      BY <1>a, <2>1, <3>1, <3>2 DEF Live, TypeOK
    <3> QED BY <2>1, <3>3 DEF Stutters, Owned
  <2> QED BY <1>11, <2>2, <2>3 DEF AdminChanges
<1>12. CASE \/ \E t \in Tasks : \/ Connect(t) \/ ObserveFound(t) \/ ObserveAbsent(t)
                                \/ LoseUpdate(t) \/ CallFails(t) \/ SyncCache(t)
            \/ \E r \in Replicas : Crash(r)
            \/ UNCHANGED vars
  BY <1>1, <1>12 DEF Connect, ObserveFound, ObserveAbsent, LoseUpdate, CallFails,
     SyncCache, Crash, vars
<1>13. \A t \in Tasks : t[2] \in CRs
  BY <1>a
<1> QED
  BY <1>1, <1>2, <1>3, <1>4, <1>5, <1>6, <1>7, <1>8, <1>9, <1>10, <1>11, <1>12, <1>13
  DEF Next, Step

(* As long as every POST that is executed is answered, what a resource owns in
   Dynatrace is what its external name identifies, or what the task that holds
   the lock knows of.                                                      *)
THEOREM OwnershipIsTracked ==
    ASSUME LostReplies = FALSE
    PROVE  Spec => []OwnInv
<1>1. Init => LockInv /\ OwnInv
  BY LockInit, OwnInit
<1>2. LockInv /\ OwnInv /\ [Next]_vars => LockInv' /\ OwnInv'
  BY LockNext, OwnNext
<1> QED BY <1>1, <1>2, PTL DEF Spec

(* A resource that left the cluster left nothing it created in Dynatrace,
   under the same assumption.  What a lost reply leaves behind, README.md
   tells: the external name of a former object hides the new one.          *)
THEOREM NothingLeftBehind ==
    ASSUME LostReplies = FALSE
    PROVE  Spec => []NoOrphans
<1>1. OwnInv => NoOrphans
  BY DEF OwnInv, OwnershipTracked, NoOrphans
<1>2. Spec => []OwnInv
  BY OwnershipIsTracked
<1> QED BY <1>1, <1>2, PTL

(* Under the same assumption the reconcile loop implements Ownership: a
   custom resource makes an object only when it owns none, and leaves the
   cluster only when it owns none.                                         *)
THEOREM ImplementsOwnership ==
    ASSUME LostReplies = FALSE
    PROVE  Spec => OwnershipKept
<1>1. Init => LockInv /\ OwnInv
  BY LockInit, OwnInit
<1>2. LockInv /\ OwnInv /\ [Next]_vars => LockInv' /\ OwnInv'
  BY LockNext, OwnNext
<1>3. ASSUME LockInv, OwnInv, OwnInv', [Next]_vars
      PROVE  [Abstract!ONext]_(Abstract!ovars)
  <2> DEFINE owned == [d \in CRs |-> Owned(d)]
             retired == {d \in CRs : cr[d] = Gone}
  <2>1. CASE Stutters
    <3>1. owned' = owned /\ retired' = retired
      BY <2>1 DEF Stutters
    <3> QED BY <3>1 DEF Abstract!ovars
  <2>2. ASSUME NEW c \in CRs, Loses(c) PROVE Abstract!Lose(c)
    <3>1. owned' = [owned EXCEPT ![c] = {}] /\ retired' = retired
      BY <2>2 DEF Loses
    <3> QED BY <3>1 DEF Abstract!Lose
  <2>3. ASSUME NEW c \in CRs, Retires(c) PROVE Abstract!Retire(c)
    <3>1. owned[c] = {} /\ owned' = owned /\ retired' = retired \cup {c}
      BY <2>3 DEF Retires
    <3> QED BY <3>1 DEF Abstract!Retire
  <2>4. ASSUME NEW c \in CRs, NEW id \in Ids, Acquires(c, id) PROVE Abstract!Acquire(c, id)
    <3>1. c \notin retired /\ owned[c] = {} /\ retired' = retired
      BY <2>4 DEF Acquires
    <3>2. \A d \in CRs : id \notin owned[d]
      BY <2>4 DEF Acquires, Owned
    <3>3. owned' = [owned EXCEPT ![c] = {id}]
      BY <2>4 DEF Acquires
    <3> QED BY <3>1, <3>2, <3>3 DEF Abstract!Acquire
  <2> QED BY <1>3, <2>1, <2>2, <2>3, <2>4, StepEffect DEF Abstract!ONext
<1> QED BY <1>1, <1>2, <1>3, AbstractInit, PTL DEF Spec, OwnershipKept, Abstract!OSpec

-----------------------------------------------------------------------------
(* External names.  An identifier is handed out once, so one that identifies *)
(* no object never will again; a task that goes on to create has found its   *)
(* external name to be such a one, or has none.                              *)

Known(id) == id \in used \cup {Unnamed}

Idle(id) == id = Unnamed \/ ~Live(id)

NamesOf(t) ==
    /\ cache[t] # Gone => Known(cache[t].extName)
    /\ pc[t] # "idle" => Known(mem[t].extName)
    /\ pc[t] \in {"pend", "create"} \/ (pc[t] = "finalize" /\ obs[t] = "absent")
         => Idle(mem[t].extName)
    /\ pc[t] = "pend" /\ CurrentVersion(t) => mem[t].extName = cr[t[2]].extName
    /\ pc[t] = "finalize" /\ CurrentVersion(t) =>
          cr[t[2]].extName \in IF obs[t] = "absent" THEN {mem[t].extName}
                               ELSE {Unnamed, mem[t].extName}
    /\ pc[t] = "create" => mem[t].extName = cr[t[2]].extName
    /\ pc[t] = "record" => mem[t].extName = cr[t[2]].extName \/ Idle(cr[t[2]].extName)

NameInv ==
    /\ LiveUsed
    /\ \A c \in CRs : cr[c] # Gone => Known(cr[c].extName)
    /\ \A t \in Tasks : NamesOf(t)

(* The account changes, and makes objects only of identifiers not used yet. *)
Ages ==
    /\ used \subseteq used'
    /\ \A id \in Ids : Live(id)' => id \in used' /\ (id \in used => Live(id))

(* The object of c on the API server moves on, or none does. *)
Moves(c) == cr' = cr \/ Advances(c)

LEMMA NameInit == Init => NameInv
<1> SUFFICES ASSUME Init PROVE NameInv
  OBVIOUS
<1>1. LiveUsed
  BY DEF Init, LiveUsed, Live
<1>2. \A t \in Tasks : t[2] \in CRs
  BY DEF Tasks
<1>3. \A c \in CRs : Applied(c).extName = Unnamed
  BY DEF Applied
<1>4. /\ \A c \in CRs : cr[c].extName = Unnamed
      /\ \A t \in Tasks : cache[t].extName = Unnamed /\ pc[t] = "idle"
  BY <1>2, <1>3 DEF Init
<1> QED BY <1>1, <1>4 DEF NameInv, NamesOf, Known

LEMMA IdleForGood ==
    ASSUME NameInv, Ages, NEW id \in Ids \cup {Unnamed}, Known(id), Idle(id)
    PROVE  Known(id)' /\ Idle(id)'
BY DEF Ages, Known, Idle

LEMMA KnownForGood ==
    ASSUME Ages, NEW id, Known(id)
    PROVE  Known(id)'
BY DEF Ages, Known

(* A task nothing happens to: its copy becomes a former version, or the server
   and it still agree.                                                     *)
LEMMA NamesStay ==
    ASSUME LockInv, NameInv, Ages, NEW c \in CRs, Moves(c), NEW s \in Tasks,
           pc'[s] = pc[s], mem'[s] = mem[s], obs'[s] = obs[s],
           cache'[s] \in {cache[s], cr[s[2]]},
           s[2] = c /\ Creating(s) /\ cr' # cr => cr'[c] # Gone /\ cr'[c].extName = cr[c].extName
    PROVE  NamesOf(s)'
<1>1. NamesOf(s) /\ s[2] \in CRs /\ TypeOK /\ MemoryOf(s)
  BY LockByTask DEF NameInv, Tasks, TaskFacts
<1>2. cache'[s] # Gone => Known(cache[s].extName)'
  <2>1. CASE cache'[s] = cache[s]
    BY <1>1, <2>1, KnownForGood DEF NamesOf
  <2>2. CASE cache'[s] = cr[s[2]]
    BY <1>1, <2>2, KnownForGood DEF NameInv
  <2> QED BY <2>1, <2>2
<1>3. pc[s] # "idle" => Known(mem[s].extName)'
  BY <1>1, KnownForGood DEF NamesOf
<1>4. pc[s] # "idle" => mem[s] \in CRStates /\ mem[s].extName \in Ids \cup {Unnamed}
  BY <1>1 DEF MemoryOf, TypeOK, Copies, CRStates
<1>5. pc[s] \in {"pend", "create"} \/ (pc[s] = "finalize" /\ obs[s] = "absent")
        => Idle(mem[s].extName)'
  BY <1>1, <1>4, IdleForGood DEF NamesOf
<1>6. pc[s] \in {"pend", "finalize"} /\ CurrentVersion(s)' =>
        CurrentVersion(s) /\ cr'[s[2]] = cr[s[2]]
  <2>1. CASE cr'[s[2]] = cr[s[2]]
    BY <2>1 DEF CurrentVersion
  <2>2. CASE cr'[s[2]] # cr[s[2]]
    <3> SUFFICES ASSUME pc[s] \in {"pend", "finalize"} PROVE ~CurrentVersion(s)'
      BY <2>2
    <3>1. Advances(c) /\ s[2] = c
      BY <1>1, <2>2 DEF Moves, Advances
    <3>2. mem[s].rv \in Nat /\ Versions
      BY <1>1, <1>4, VersionsAreNumbers DEF CRStates
    <3> QED BY <1>1, <3>1, <3>2 DEF CurrentVersion, MemoryOf, NotAhead, Advances, Versions
  <2> QED BY <2>1, <2>2
<1>7. Creating(s) => cr[s[2]] # Gone /\ cr'[s[2]].extName = cr[s[2]].extName
  BY <1>1 DEF LockInv, CreationLock, Moves, Advances
<1>8. Creating(s) /\ Idle(cr[s[2]].extName) => Idle(cr[s[2]].extName)'
  <2> SUFFICES ASSUME Creating(s), Idle(cr[s[2]].extName) PROVE Idle(cr[s[2]].extName)'
    OBVIOUS
  <2>1. cr[s[2]] \in CRStates /\ Known(cr[s[2]].extName)
    BY <1>1, <1>7 DEF TypeOK, Copies, NameInv
  <2>2. cr[s[2]].extName \in Ids \cup {Unnamed}
    BY <2>1 DEF CRStates
  <2> QED BY <1>7, <2>1, <2>2, IdleForGood DEF Idle
<1> QED BY <1>1, <1>2, <1>3, <1>5, <1>6, <1>7, <1>8 DEF NamesOf, Creating

LEMMA NameStep ==
    ASSUME LockInv, NameInv, Ages, NEW c \in CRs, Moves(c),
           cr' # cr /\ cr'[c] # Gone => Known(cr[c].extName)',
           NEW U \in SUBSET Tasks, \A s \in U : NamesOf(s)',
           \A s \in Tasks \ U :
              /\ pc'[s] = pc[s] /\ mem'[s] = mem[s] /\ obs'[s] = obs[s]
              /\ cache'[s] \in {cache[s], cr[s[2]]}
              /\ s[2] = c /\ Creating(s) /\ cr' # cr =>
                    cr'[c] # Gone /\ cr'[c].extName = cr[c].extName
    PROVE  NameInv'
<1>1. LiveUsed'
  BY DEF Ages, LiveUsed
<1>2. ASSUME NEW d \in CRs, cr'[d] # Gone PROVE Known(cr[d].extName)'
  <2>1. CASE cr'[d] = cr[d]
    BY <1>2, <2>1, KnownForGood DEF NameInv
  <2>2. CASE cr'[d] # cr[d]
    BY <1>2, <2>2 DEF Moves, Advances
  <2> QED BY <2>1, <2>2
<1>3. \A s \in Tasks : NamesOf(s)'
  BY NamesStay
<1> QED BY <1>1, <1>2, <1>3 DEF NameInv

(* The step of one task. *)
LEMMA NameTask ==
    ASSUME LockInv, NameInv, Ages, NEW t \in Tasks, Moves(t[2]), NamesOf(t)',
           cr' # cr /\ cr'[t[2]] # Gone => Known(cr[t[2]].extName)',
           \A s \in Tasks \ {t} :
              /\ pc'[s] = pc[s] /\ mem'[s] = mem[s] /\ obs'[s] = obs[s] /\ cache'[s] = cache[s]
              /\ s[2] = t[2] /\ Creating(s) /\ cr' # cr =>
                    cr'[t[2]] # Gone /\ cr'[t[2]].extName = cr[t[2]].extName
    PROVE  NameInv'
<1> DEFINE U == {t}
           c == t[2]
<1>1. U \in SUBSET Tasks /\ c \in CRs
  BY DEF Tasks
<1>2. \A s \in U : NamesOf(s)'
  OBVIOUS
<1>3. \A s \in Tasks \ U :
        /\ pc'[s] = pc[s] /\ mem'[s] = mem[s] /\ obs'[s] = obs[s]
        /\ cache'[s] \in {cache[s], cr[s[2]]}
        /\ s[2] = c /\ Creating(s) /\ cr' # cr => cr'[c] # Gone /\ cr'[c].extName = cr[c].extName
  OBVIOUS
<1>4. Moves(c) /\ (cr' # cr /\ cr'[c] # Gone => Known(cr[c].extName)')
  OBVIOUS
<1> HIDE DEF U, c
<1> QED BY <1>1, <1>2, <1>3, <1>4, NameStep

LEMMA SameAccount == ASSUME NameInv, UNCHANGED <<account, used>> PROVE Ages
BY DEF NameInv, LiveUsed, Ages, Live

(* The object of one identifier goes, or holds something else. *)
LEMMA ChangedAccount ==
    ASSUME NameInv, used' = used, \A id \in Ids : Live(id)' => Live(id)
    PROVE  Ages
BY DEF NameInv, LiveUsed, Ages

(* A reconcile that ends knows no name. *)
LEMMA NameEnded ==
    ASSUME LockInv, NameInv, Ages, NEW t \in Tasks, Moves(t[2]),
           Finish(t), cache' = cache,
           cr' # cr /\ cr'[t[2]] # Gone => Known(cr[t[2]].extName)',
           \A s \in Tasks \ {t} : s[2] = t[2] /\ Creating(s) /\ cr' # cr =>
              cr'[t[2]] # Gone /\ cr'[t[2]].extName = cr[t[2]].extName
    PROVE  NameInv'
<1>1. TypeOK /\ t[2] \in CRs /\ NamesOf(t)
  BY DEF LockInv, Tasks, NameInv
<1>2. /\ pc'[t] = "idle"
      /\ \A s \in Tasks \ {t} : pc'[s] = pc[s] /\ mem'[s] = mem[s] /\ obs'[s] = obs[s]
  BY <1>1 DEF Finish, Goto, TypeOK
<1>3. cache'[t] # Gone => Known(cache[t].extName)'
  BY <1>1, KnownForGood DEF NamesOf
<1>4. NamesOf(t)'
  BY <1>2, <1>3 DEF NamesOf
<1> QED BY <1>1, <1>2, <1>4, NameTask

(* Nobody else creates while a task holds a current copy without a pending
   creation.                                                               *)
LEMMA NobodyCreates ==
    ASSUME LockInv, NEW t \in Tasks, pc[t] \in {"finalize", "pend", "unfinalize"}, CurrentVersion(t),
           NEW s \in Tasks, s[2] = t[2]
    PROVE  ~Creating(s)
<1>1. TaskFacts(t)
  BY LockByTask
<1>2. cr[t[2]].creation # "pending"
  BY <1>1 DEF TaskFacts, MemoryOf
<1> QED BY <1>2 DEF LockInv, CreationLock

LEMMA NameConnect ==
    ASSUME LockInv, NameInv, NEW t \in Tasks, Connect(t)
    PROVE  NameInv'
<1>1. TypeOK /\ t[2] \in CRs /\ NamesOf(t)
  BY DEF LockInv, Tasks, NameInv
<1>2. /\ cache[t] # Gone /\ mem'[t] = cache[t] /\ pc'[t] = "observe" /\ UNCHANGED <<cr, cache, obs, account, used>>
      /\ \A s \in Tasks \ {t} : pc'[s] = pc[s] /\ mem'[s] = mem[s]
  BY <1>1 DEF Connect, Goto, TypeOK
<1>3. NamesOf(t)'
  BY <1>1, <1>2 DEF NamesOf, Known
<1> QED BY <1>1, <1>2, <1>3, SameAccount, NameTask DEF Moves

LEMMA NameObserveFound ==
    ASSUME LockInv, NameInv, NEW t \in Tasks, ObserveFound(t)
    PROVE  NameInv'
<1>1. TypeOK /\ t[2] \in CRs /\ NamesOf(t) /\ TaskFacts(t) /\ pc[t] = "observe" /\ mem[t] \in CRStates
      /\ UNCHANGED <<cr, cache, account, used>>
  BY LockByTask DEF Tasks, NameInv, ObserveFound, TaskFacts, MemoryOf, TypeOK, Copies
<1>2. Ages
  BY <1>1, SameAccount
<1>3. PICK id \in FindExternal(mem[t]), o \in {"current", "stale"} :
        LET m == [mem[t] EXCEPT !.extName = id]
        IN  IF m.finalizer /\ ~m.deleting /\ o = "current"
            THEN Finish(t)
            ELSE mem' = [mem EXCEPT ![t] = m] /\ obs' = [obs EXCEPT ![t] = o] /\ Branch(t, m, o)
  BY DEF ObserveFound
<1> DEFINE m == [mem[t] EXCEPT !.extName = id]
<1>4. id \in Ids /\ Live(id) /\ (mem[t].extName # Unnamed => id = mem[t].extName)
  BY <1>1 DEF FindExternal, CRStates
<1>5. /\ m \in CRStates /\ m.rv = mem[t].rv /\ m.extName = id
      /\ m.finalizer = mem[t].finalizer /\ m.deleting = mem[t].deleting
  BY <1>1, <1>4, FieldEdits DEF CRStates
<1>6. \/ Finish(t)
      \/ /\ mem' = [mem EXCEPT ![t] = m] /\ obs' = [obs EXCEPT ![t] = o] /\ Branch(t, m, o)
         /\ ~(m.finalizer /\ ~m.deleting /\ o = "current")
  BY <1>3
<1> HIDE DEF m
<1>7. CASE Finish(t)
  BY <1>1, <1>2, <1>7, NameEnded DEF Moves
<1>8. CASE /\ mem' = [mem EXCEPT ![t] = m] /\ obs' = [obs EXCEPT ![t] = o] /\ Branch(t, m, o)
           /\ ~(m.finalizer /\ ~m.deleting /\ o = "current")
  <2>1. /\ mem'[t] = m /\ obs'[t] = o /\ pc'[t] \in {"delete", "finalize", "update"}
        /\ \A s \in Tasks \ {t} : pc'[s] = pc[s] /\ mem'[s] = mem[s] /\ obs'[s] = obs[s]
    BY <1>1, <1>5, <1>8 DEF Branch, Goto, AfterFinalizer, TypeOK
  <2>2. Known(id)
    BY <1>4 DEF NameInv, LiveUsed, Known
  <2>3. CurrentVersion(t)' => cr[t[2]].extName \in {Unnamed, id}
    <3>1. CurrentVersion(t)' => CurrentVersion(t)
      BY <1>1, <1>5, <2>1 DEF CurrentVersion
    <3> QED BY <1>1, <1>4, <3>1 DEF TaskFacts, MemoryOf
  <2>4. NamesOf(t)'
    BY <1>1, <1>5, <2>1, <2>2, <2>3 DEF NamesOf, Known
  <2> QED BY <1>1, <1>2, <2>1, <2>4, NameTask DEF Moves
<1> QED BY <1>6, <1>7, <1>8

LEMMA NameObserveAbsent ==
    ASSUME LockInv, NameInv, NEW t \in Tasks, ObserveAbsent(t)
    PROVE  NameInv'
<1>1. TypeOK /\ t[2] \in CRs /\ NamesOf(t) /\ TaskFacts(t) /\ pc[t] = "observe" /\ mem[t] \in CRStates
      /\ UNCHANGED <<cr, cache, mem, account, used>>
  BY LockByTask DEF Tasks, NameInv, ObserveAbsent, TaskFacts, MemoryOf, TypeOK, Copies
<1>2. Idle(mem[t].extName)
  BY DEF ObserveAbsent, FindExternal, Idle
<1>3. CurrentVersion(t) => mem[t].extName = cr[t[2]].extName
  BY <1>1 DEF TaskFacts, MemoryOf
<1>4. /\ obs'[t] = "absent" /\ pc'[t] \in {"unfinalize", "finalize", "pend"}
      /\ \A s \in Tasks \ {t} : pc'[s] = pc[s] /\ obs'[s] = obs[s]
  BY <1>1 DEF ObserveAbsent, Branch, Goto, AfterFinalizer, TypeOK
<1>5. NamesOf(t)'
  BY <1>1, <1>2, <1>3, <1>4 DEF NamesOf, Known, Idle, Live, CurrentVersion
<1> QED BY <1>1, <1>4, <1>5, SameAccount, NameTask DEF Moves
(* An update by a task that holds the current version. *)
LEMMA NameUpdates ==
    ASSUME LockInv, NameInv, NEW t \in Tasks, CurrentVersion(t), pc[t] \in {"finalize", "pend"},
           NEW m \in CRStates, m.rv = mem[t].rv + 1, m.extName = mem[t].extName,
           cr' = [cr EXCEPT ![t[2]] = m], UNCHANGED <<cache, account, used>>,
           \A s \in Tasks \ {t} : pc'[s] = pc[s] /\ mem'[s] = mem[s] /\ obs'[s] = obs[s],
           \/ pc'[t] \in {"idle", "update"} /\ (pc'[t] # "idle" => mem'[t] = m)
           \/ pc'[t] \in {"pend", "create"} /\ mem'[t] = m /\ (pc[t] = "finalize" => obs[t] = "absent")
    PROVE  NameInv'
<1>1. TypeOK /\ t[2] \in CRs /\ NamesOf(t) /\ TaskFacts(t)
  BY LockByTask DEF LockInv, Tasks, NameInv
<1>2. /\ Known(mem[t].extName) /\ mem[t] \in CRStates
      /\ pc'[t] \in {"pend", "create"} => Idle(mem[t].extName)
  BY <1>1 DEF NamesOf, TaskFacts, MemoryOf, TypeOK, Copies
<1>3. cr'[t[2]] = m /\ m # Gone /\ cr[t[2]].rv = mem[t].rv
  BY <1>1, ConstantsAssumption DEF CurrentVersion, TypeOK
<1>4. Advances(t[2])
  BY <1>1, <1>3 DEF Advances, CurrentVersion, TypeOK
<1>5. NamesOf(t)'
  BY <1>1, <1>2, <1>3 DEF NamesOf, Known, Idle, Live
<1>6. cr'[t[2]] # Gone => Known(cr[t[2]].extName)'
  BY <1>2, <1>3 DEF Known
<1>7. \A s \in Tasks : s[2] = t[2] => ~Creating(s)
  BY NobodyCreates
<1> QED BY <1>4, <1>5, <1>6, <1>7, SameAccount, NameTask DEF Moves

LEMMA NameAddFinalizer ==
    ASSUME LockInv, NameInv, NEW t \in Tasks, AddFinalizer(t)
    PROVE  NameInv'
<1> DEFINE m == [mem[t] EXCEPT !.finalizer = TRUE, !.rv = @ + 1]
<1>1. TypeOK /\ mem[t] \in CRStates
  BY LockByTask DEF LockInv, AddFinalizer, TaskFacts, MemoryOf, TypeOK, Copies
<1>2. m \in CRStates
  BY <1>1, EditedCopies
<1>3. m.rv = mem[t].rv + 1 /\ m.extName = mem[t].extName
  BY <1>1 DEF CRStates
<1>4. pc[t] = "finalize" /\ CurrentVersion(t) /\ cr' = [cr EXCEPT ![t[2]] = m]
      /\ UNCHANGED <<cache, account, used>>
  BY DEF AddFinalizer, KubeUpdate
<1>5. Finish(t) \/ (mem' = [mem EXCEPT ![t] = m] /\ Goto(t, AfterFinalizer(obs[t])) /\ UNCHANGED obs)
  BY DEF AddFinalizer
<1> HIDE DEF m
<1>6. /\ \A s \in Tasks \ {t} : pc'[s] = pc[s] /\ mem'[s] = mem[s] /\ obs'[s] = obs[s]
      /\ \/ pc'[t] \in {"idle", "update"} /\ (pc'[t] # "idle" => mem'[t] = m)
         \/ pc'[t] \in {"pend", "create"} /\ mem'[t] = m /\ (pc[t] = "finalize" => obs[t] = "absent")
  BY <1>1, <1>5 DEF Finish, Goto, AfterFinalizer, TypeOK
<1> QED BY <1>2, <1>3, <1>4, <1>6, NameUpdates

LEMMA NameAnnounce ==
    ASSUME LockInv, NameInv, NEW t \in Tasks, AnnounceCreate(t)
    PROVE  NameInv'
<1> DEFINE m == [mem[t] EXCEPT !.creation = "pending", !.rv = @ + 1]
<1>1. TypeOK /\ mem[t] \in CRStates
  BY LockByTask DEF LockInv, AnnounceCreate, TaskFacts, MemoryOf, TypeOK, Copies
<1>2. m \in CRStates
  BY <1>1, EditedCopies
<1>3. m.rv = mem[t].rv + 1 /\ m.extName = mem[t].extName
  BY <1>1 DEF CRStates
<1>4. /\ pc[t] = "pend" /\ CurrentVersion(t) /\ cr' = [cr EXCEPT ![t[2]] = m]
      /\ mem' = [mem EXCEPT ![t] = m] /\ Goto(t, "create") /\ UNCHANGED <<cache, obs, account, used>>
  BY DEF AnnounceCreate, KubeUpdate
<1> HIDE DEF m
<1>5. /\ \A s \in Tasks \ {t} : pc'[s] = pc[s] /\ mem'[s] = mem[s] /\ obs'[s] = obs[s]
      /\ pc'[t] = "create" /\ mem'[t] = m
  BY <1>1, <1>4 DEF Goto, TypeOK
<1> QED BY <1>2, <1>3, <1>4, <1>5, NameUpdates

(* The POST: whatever it answers, the name on the API server identifies no
   object, or is the one the task holds.                                   *)
LEMMA NamePosts ==
    ASSUME LockInv, NameInv, NEW t \in Tasks, Create(t) \/ CreateFails(t) \/ CreateRepeated(t)
    PROVE  NameInv'
<1>1. /\ TypeOK /\ t[2] \in CRs /\ NamesOf(t) /\ pc[t] = "create" /\ mem[t] \in CRStates
      /\ UNCHANGED <<cr, cache, obs>> /\ pc'[t] = "record"
      /\ \A s \in Tasks \ {t} : pc'[s] = pc[s] /\ mem'[s] = mem[s]
  BY LockByTask DEF LockInv, Tasks, NameInv, Create, CreateFails, CreateRepeated, TaskFacts,
     MemoryOf, TypeOK, Copies, Goto
<1>2. /\ used \subseteq used'
      /\ \A id \in Ids : account'[id] = account[id] \/ (id \in used' /\ id \notin used)
  BY <1>1 DEF Create, CreateFails, CreateRepeated, ServerCreates, TypeOK
<1>3. Ages
  BY <1>2 DEF Ages, Live, NameInv, LiveUsed
<1>4. \/ mem'[t].extName = mem[t].extName
      \/ mem'[t].extName \in used'
  <2>1. \A id \in Ids : Created(mem[t], id).extName = id
    BY <1>1 DEF Created, CRStates
  <2>2. [mem[t] EXCEPT !.creation = "failed"].extName = mem[t].extName
    BY <1>1 DEF CRStates
  <2>3. CASE Create(t)
    <3>1. PICK id \in Ids : used' = used \cup {id} /\ mem' = [mem EXCEPT ![t] = Created(mem[t], id)]
      BY <2>3 DEF Create, ServerCreates
    <3> QED BY <1>1, <2>1, <3>1 DEF TypeOK
  <2>4. CASE CreateFails(t)
    BY <1>1, <2>2, <2>4 DEF CreateFails, TypeOK
  <2>5. CASE CreateRepeated(t)
    <3>1. PICK lost, id \in Ids : /\ used' = used \cup {lost, id}
                                  /\ mem' = [mem EXCEPT ![t] = Created(mem[t], id)]
      BY <2>5 DEF CreateRepeated
    <3> QED BY <1>1, <2>1, <3>1 DEF TypeOK
  <2> QED BY <2>3, <2>4, <2>5
<1>5. mem[t].extName = cr[t[2]].extName /\ Known(mem[t].extName) /\ Idle(mem[t].extName)
  BY <1>1 DEF NamesOf
<1>6. mem[t].extName \in Ids \cup {Unnamed}
  BY <1>1 DEF CRStates
<1>7. Idle(cr[t[2]].extName)'
  <2>1. CASE cr[t[2]].extName = Unnamed
    BY <1>1, <2>1 DEF Idle
  <2>2. CASE cr[t[2]].extName # Unnamed
    <3>1. /\ cr[t[2]].extName \in Ids \cap used
          /\ account[cr[t[2]].extName] = NoObject
      BY <1>5, <1>6, <2>2 DEF Known, Idle, Live
    <3>2. account'[cr[t[2]].extName] = NoObject
      BY <1>3, <3>1 DEF Ages, Live
    <3> QED BY <1>1, <3>2 DEF Idle, Live
  <2> QED BY <2>1, <2>2
<1>8. Known(mem[t].extName)'
  BY <1>2, <1>4, <1>5 DEF Known
<1>9. cache'[t] # Gone => Known(cache[t].extName)'
  BY <1>1, <1>3, KnownForGood DEF NamesOf
<1>10. NamesOf(t)'
  BY <1>1, <1>7, <1>8, <1>9 DEF NamesOf
<1> QED BY <1>1, <1>3, <1>10, NameTask DEF Moves

LEMMA NameRecord ==
    ASSUME LockInv, NameInv, NEW t \in Tasks, RecordCreate(t)
    PROVE  NameInv'
<1> DEFINE c == t[2]
           x == [cr[c] EXCEPT !.extName = mem[t].extName, !.creation = mem[t].creation, !.rv = @ + 1]
<1>1. /\ TypeOK /\ c \in CRs /\ NamesOf(t) /\ pc[t] = "record" /\ mem[t] \in CRStates
      /\ cr[c] # Gone /\ cr[c] \in CRStates /\ UNCHANGED <<cache, account, used>>
      /\ cr' = [cr EXCEPT ![c] = x] /\ Finish(t)
  BY LockByTask DEF LockInv, Tasks, NameInv, RecordCreate, TaskFacts, MemoryOf, TypeOK, Copies
<1>2. x.extName = mem[t].extName /\ x.rv = cr[c].rv + 1
  BY <1>1 DEF CRStates
<1>3. x \in CRStates
  BY <1>1, EditedCopies
<1> HIDE DEF x
<1>4. cr'[c] = x /\ Advances(c)
  BY <1>1, <1>2, <1>3 DEF Advances, TypeOK
<1>5. Known(cr[c].extName)'
  BY <1>1, <1>2, <1>4 DEF NamesOf, Known
<1>6. \A s \in Tasks \ {t} : s[2] = c => ~Creating(s)
  BY <1>1 DEF LockInv, CreateExclusive, Creating
<1> QED BY <1>1, <1>4, <1>5, <1>6, SameAccount, NameEnded DEF Moves

LEMMA NameEnds ==
    ASSUME LockInv, NameInv, NEW t \in Tasks,
           Update(t) \/ Delete(t) \/ LoseUpdate(t) \/ CallFails(t)
    PROVE  NameInv'
<1>1. TypeOK /\ Finish(t) /\ UNCHANGED <<cr, cache, used>>
  BY DEF LockInv, Update, Delete, LoseUpdate, CallFails
<1>2. \A id \in Ids : Live(id)' => Live(id)
  BY <1>1 DEF Update, Delete, LoseUpdate, CallFails, Live, TypeOK
<1>3. Ages
  BY <1>1, <1>2, ChangedAccount
<1> QED BY <1>1, <1>3, NameEnded DEF Moves

LEMMA NameRemoveFinalizer ==
    ASSUME LockInv, NameInv, NEW t \in Tasks, RemoveFinalizer(t)
    PROVE  NameInv'
<1>1. /\ TypeOK /\ Finish(t) /\ UNCHANGED <<cache, account, used>> /\ CurrentVersion(t)
      /\ pc[t] = "unfinalize" /\ cr' = [cr EXCEPT ![t[2]] = Gone]
  BY DEF LockInv, RemoveFinalizer, KubeUpdate
<1>2. cr'[t[2]] = Gone /\ Advances(t[2])
  BY <1>1 DEF Advances, CurrentVersion, TypeOK, Tasks
<1>3. \A s \in Tasks : s[2] = t[2] => ~Creating(s)
  BY <1>1, NobodyCreates
<1> QED BY <1>1, <1>2, <1>3, SameAccount, NameEnded DEF Moves
(* The surroundings. *)
LEMMA NameSync ==
    ASSUME LockInv, NameInv, NEW t \in Tasks, SyncCache(t)
    PROVE  NameInv'
<1> DEFINE c == t[2]
           U == {}
<1>1. /\ TypeOK /\ c \in CRs /\ UNCHANGED <<cr, pc, mem, obs, account, used>>
      /\ \A s \in Tasks : cache'[s] \in {cache[s], cr[s[2]]}
  BY DEF LockInv, Tasks, SyncCache, task, TypeOK
<1>2. Ages /\ Moves(c)
  BY <1>1, SameAccount DEF Moves
<1>3. U \in SUBSET Tasks /\ (\A s \in U : NamesOf(s)')
  OBVIOUS
<1>4. \A s \in Tasks \ U :
         /\ pc'[s] = pc[s] /\ mem'[s] = mem[s] /\ obs'[s] = obs[s]
         /\ cache'[s] \in {cache[s], cr[s[2]]}
         /\ s[2] = c /\ Creating(s) /\ cr' # cr => cr'[c] # Gone /\ cr'[c].extName = cr[c].extName
  BY <1>1
<1>5. cr' # cr /\ cr'[c] # Gone => Known(cr[c].extName)'
  BY <1>1
<1> HIDE DEF c, U
<1> QED BY <1>1, <1>2, <1>3, <1>4, <1>5, NameStep

LEMMA NameCrash ==
    ASSUME LockInv, NameInv, NEW r \in Replicas, Crash(r)
    PROVE  NameInv'
<1>1. PICK c \in CRs : pc[<<r, c>>] # "idle"
  BY DEF Crash
<1> DEFINE U == {s \in Tasks : s[1] = r}
<1>2. /\ TypeOK /\ UNCHANGED <<cr, account, used>>
      /\ \A s \in Tasks : cache'[s] \in {cache[s], cr[s[2]]}
      /\ \A s \in U : pc'[s] = "idle"
      /\ \A s \in Tasks \ U : pc'[s] = pc[s] /\ mem'[s] = mem[s] /\ obs'[s] = obs[s]
  BY DEF LockInv, Crash
<1>3. Ages /\ Moves(c)
  BY <1>2, SameAccount DEF Moves
<1>4. ASSUME NEW s \in U PROVE NamesOf(s)'
  <2>1. s \in Tasks /\ s[2] \in CRs /\ NamesOf(s)
    BY DEF Tasks, NameInv
  <2>2. cache'[s] # Gone => Known(cache[s].extName)'
    BY <1>2, <2>1 DEF NamesOf, NameInv, Known
  <2> QED BY <1>2, <2>1, <2>2 DEF NamesOf
<1>5. cr' # cr /\ cr'[c] # Gone => Known(cr[c].extName)'
  BY <1>2
<1>6. \A s \in Tasks \ U :
         /\ pc'[s] = pc[s] /\ mem'[s] = mem[s] /\ obs'[s] = obs[s]
         /\ cache'[s] \in {cache[s], cr[s[2]]}
         /\ s[2] = c /\ Creating(s) /\ cr' # cr => cr'[c] # Gone /\ cr'[c].extName = cr[c].extName
  BY <1>2
<1>7. U \in SUBSET Tasks
  OBVIOUS
<1> HIDE DEF U
<1> QED BY <1>3, <1>4, <1>5, <1>6, <1>7, NameStep

LEMMA NameUsers ==
    ASSUME LockInv, NameInv, NEW c \in CRs, UserEdits(c) \/ UserDeletes(c)
    PROVE  NameInv'
<1>1. TypeOK /\ cr[c] # Gone /\ cr[c] \in CRStates /\ UNCHANGED <<cache, pc, mem, obs, account, used>>
  BY DEF LockInv, UserEdits, UserDeletes, TypeOK, Copies, task
<1>2. PICK x \in Copies :
        /\ cr' = [cr EXCEPT ![c] = x]
        /\ x # Gone => x.rv = cr[c].rv + 1 /\ x.extName = cr[c].extName
        /\ cr[c].finalizer => x # Gone
  <2>1. CASE UserEdits(c)
    <3>1. PICK sp \in EditableTo[c] :
            cr' = [cr EXCEPT ![c] = [cr[c] EXCEPT !.spec = sp, !.rv = @ + 1]]
      BY <2>1 DEF UserEdits
    <3>2. sp \in Specs
      BY <3>1, ConstantsAssumption
    <3>3. /\ [cr[c] EXCEPT !.spec = sp, !.rv = @ + 1] \in CRStates
          /\ [cr[c] EXCEPT !.spec = sp, !.rv = @ + 1].rv = cr[c].rv + 1
          /\ [cr[c] EXCEPT !.spec = sp, !.rv = @ + 1].extName = cr[c].extName
      BY <1>1, <3>2, EditedCopies DEF CRStates
    <3> QED BY <3>1, <3>3, ConstantsAssumption DEF Copies
  <2>2. CASE UserDeletes(c)
    <3> DEFINE doomed == [cr[c] EXCEPT !.deleting = TRUE, !.rv = @ + 1]
    <3>1. doomed \in CRStates /\ doomed.rv = cr[c].rv + 1 /\ doomed.extName = cr[c].extName
      BY <1>1, EditedCopies DEF CRStates
    <3>2. cr' = [cr EXCEPT ![c] = IF cr[c].finalizer THEN doomed ELSE Gone]
      BY <2>2 DEF UserDeletes
    <3> HIDE DEF doomed
    <3>3. CASE cr[c].finalizer
      BY <3>1, <3>2, <3>3, ConstantsAssumption DEF Copies
    <3>4. CASE ~cr[c].finalizer
      BY <3>2, <3>4 DEF Copies
    <3> QED BY <3>3, <3>4
  <2> QED BY <2>1, <2>2
<1>3. cr'[c] = x /\ Advances(c)
  BY <1>1, <1>2 DEF Advances, TypeOK
<1>4. Known(x.extName) \/ x = Gone
  BY <1>1, <1>2 DEF NameInv
<1> DEFINE U == {}
<1>5. U \in SUBSET Tasks /\ (\A s \in U : NamesOf(s)')
  OBVIOUS
<1>6. \A s \in Tasks \ U :
         /\ pc'[s] = pc[s] /\ mem'[s] = mem[s] /\ obs'[s] = obs[s]
         /\ cache'[s] \in {cache[s], cr[s[2]]}
         /\ s[2] = c /\ Creating(s) /\ cr' # cr => cr'[c] # Gone /\ cr'[c].extName = cr[c].extName
  BY <1>1, <1>2, <1>3 DEF LockInv, CreationLock
<1>7. cr' # cr /\ cr'[c] # Gone => Known(cr[c].extName)'
  BY <1>1, <1>3, <1>4 DEF Known
<1>8. Ages
  BY <1>1, SameAccount
<1> HIDE DEF U
<1> QED BY <1>3, <1>5, <1>6, <1>7, <1>8, NameStep DEF Moves

LEMMA NameAccount ==
    ASSUME LockInv, NameInv, (\E id \in Ids : AdminChanges(id)) \/ UNCHANGED vars
    PROVE  NameInv'
<1>1. TypeOK /\ UNCHANGED <<cr, cache, pc, mem, obs, used>>
  BY DEF LockInv, AdminChanges, task, vars
<1>2. \A id \in Ids : Live(id)' => Live(id)
  <2>1. CASE UNCHANGED vars
    BY <2>1 DEF vars, Live
  <2>2. CASE \E id \in Ids : AdminChanges(id)
    BY <1>1, <2>2 DEF AdminChanges, Live, TypeOK
  <2> QED BY <2>1, <2>2
<1>3. Ages
  BY <1>1, <1>2, ChangedAccount
<1>4. CASE Tasks = {}
  BY <1>1, <1>3, <1>4 DEF NameInv, LiveUsed, Ages, Known
<1>5. CASE Tasks # {}
  <2>1. PICK t \in Tasks : TRUE
    BY <1>5
  <2>2. NamesOf(t)'
    BY <1>1, <1>3, NamesStay, <2>1 DEF Tasks, Moves
  <2> QED BY <1>1, <1>3, <2>1, <2>2, NameTask DEF Moves
<1> QED BY <1>4, <1>5

LEMMA NameNext == LockInv /\ NameInv /\ [Next]_vars => NameInv'
<1> SUFFICES ASSUME LockInv, NameInv, [Next]_vars PROVE NameInv'
  OBVIOUS
<1>1. ASSUME NEW t \in Tasks, Step(t) \/ CallFails(t) \/ SyncCache(t) PROVE NameInv'
  BY <1>1, NameConnect, NameObserveFound, NameObserveAbsent, NameAddFinalizer, NameAnnounce,
     NamePosts, NameRecord, NameEnds, NameRemoveFinalizer, NameSync DEF Step
<1> QED BY <1>1, NameCrash, NameUsers, NameAccount DEF Next

(* The three steps that write an external name on the API server. *)
LEMMA NamesKept ==
    ASSUME LockInv, NameInv, [Next]_vars, NEW c \in CRs,
           cr[c] # Gone, cr'[c] # Gone, cr[c].extName # Unnamed, Live(cr[c].extName)
    PROVE  cr'[c].extName = cr[c].extName
<1>1. TypeOK /\ cr[c] \in CRStates
  BY DEF LockInv, TypeOK, Copies
<1> SUFFICES ASSUME cr'[c] # cr[c] PROVE cr'[c].extName = cr[c].extName
  OBVIOUS
<1>2. ASSUME NEW t \in Tasks, AddFinalizer(t) \/ AnnounceCreate(t)
      PROVE  cr'[c].extName = cr[c].extName
  <2>1. /\ NamesOf(t) /\ mem[t] \in CRStates /\ CurrentVersion(t) /\ t[2] \in CRs
        /\ pc[t] = IF AddFinalizer(t) THEN "finalize" ELSE "pend"
    BY <1>1, <1>2, LockByTask DEF AddFinalizer, AnnounceCreate, KubeUpdate, TaskFacts, MemoryOf,
       TypeOK, Copies, NameInv, Tasks
  <2>2. /\ [mem[t] EXCEPT !.finalizer = TRUE, !.rv = @ + 1].extName = mem[t].extName
        /\ [mem[t] EXCEPT !.creation = "pending", !.rv = @ + 1].extName = mem[t].extName
    BY <2>1 DEF CRStates
  <2>3. t[2] = c /\ cr'[c].extName = mem[t].extName
    BY <1>1, <1>2, <2>1, <2>2 DEF AddFinalizer, AnnounceCreate, KubeUpdate, TypeOK
  <2>4. mem[t].extName = cr[c].extName
    BY <1>2, <2>1, <2>3 DEF NamesOf
  <2> QED BY <2>3, <2>4
<1>3. ASSUME NEW t \in Tasks, RecordCreate(t) PROVE cr'[c].extName = cr[c].extName
  <2>1. NamesOf(t) /\ pc[t] = "record" /\ t[2] \in CRs
    BY <1>3 DEF NameInv, RecordCreate, Tasks
  <2>2. t[2] = c /\ cr'[c].extName = mem[t].extName
    BY <1>1, <1>3, <2>1 DEF RecordCreate, TypeOK, CRStates
  <2> QED BY <2>1, <2>2 DEF NamesOf, Idle
<1>4. ASSUME NEW d \in CRs, UserEdits(d) \/ UserDeletes(d) PROVE cr'[c].extName = cr[c].extName
  <2>1. d = c
    BY <1>1, <1>4 DEF UserEdits, UserDeletes, TypeOK
  <2>2. ASSUME NEW sp PROVE [cr[c] EXCEPT !.spec = sp, !.rv = @ + 1].extName = cr[c].extName
    BY <1>1 DEF CRStates
  <2>3. [cr[c] EXCEPT !.deleting = TRUE, !.rv = @ + 1].extName = cr[c].extName
    BY <1>1 DEF CRStates
  <2>4. CASE UserEdits(c)
    <3>1. PICK sp \in EditableTo[c] :
            cr' = [cr EXCEPT ![c] = [cr[c] EXCEPT !.spec = sp, !.rv = @ + 1]]
      BY <2>4 DEF UserEdits
    <3> QED BY <1>1, <2>2, <3>1 DEF TypeOK
  <2>5. CASE UserDeletes(c)
    BY <1>1, <2>3, <2>5 DEF UserDeletes, TypeOK
  <2> QED BY <1>4, <2>1, <2>4, <2>5
<1>5. ASSUME NEW t \in Tasks, RemoveFinalizer(t) PROVE FALSE
  BY <1>1, <1>5 DEF RemoveFinalizer, KubeUpdate, TypeOK, Tasks
<1>6. ASSUME NEW t \in Tasks,
             \/ Connect(t) \/ ObserveFound(t) \/ ObserveAbsent(t) \/ Create(t) \/ CreateFails(t)
             \/ CreateRepeated(t) \/ Update(t) \/ Delete(t) \/ LoseUpdate(t) \/ CallFails(t)
             \/ SyncCache(t)
      PROVE FALSE
  BY <1>6 DEF Connect, ObserveFound, ObserveAbsent, Create, CreateFails, CreateRepeated, Update,
     Delete, LoseUpdate, CallFails, SyncCache
<1>7. ASSUME (\E r \in Replicas : Crash(r)) \/ (\E id \in Ids : AdminChanges(id)) \/ UNCHANGED vars
      PROVE FALSE
  BY <1>7 DEF Crash, AdminChanges, vars
<1> QED BY <1>2, <1>3, <1>4, <1>5, <1>6, <1>7 DEF Next, Step

(* No step replaces an external name that identifies a live object, whatever
   is lost, crashes or is deleted in the console: only identifiers that no
   object has any more give way.                                           *)
THEOREM NamesAreStable == Spec => NameStable
<1>1. LockInv /\ NameInv /\ [Next]_vars =>
        [\A c \in CRs : cr[c] # Gone /\ cr'[c] # Gone /\ cr[c].extName # Unnamed
                        /\ Live(cr[c].extName) => cr'[c].extName = cr[c].extName]_vars
  BY NamesKept
<1> QED BY <1>1, LockInit, LockNext, NameInit, NameNext, PTL DEF Spec, NameStable

-----------------------------------------------------------------------------
(* Whose object a reconcile deletes, when resources have names of their own. *)
(* What a resource leads to by its external name, or by its own name, is     *)
(* then what was made for it or by hand; and who deletes has read a          *)
(* deletion, which nobody takes back.                                        *)

NamesFor(c) == {InitialSpec[c].name} \cup {s.name : s \in EditableTo[c]}

NamesApart == \A c, d \in CRs : c # d => NamesFor(c) \cap NamesFor(d) = {}

LeadsHome(id, c) == id \in Ids /\ Live(id) => account[id].creator \in {c, Foreign}

Doomed(c) == cr[c] = Gone \/ cr[c].deleting

(* What every copy of a resource, of any version, tells. *)
CopyBelongs(x, c) == /\ x.spec.name \in NamesFor(c)
                     /\ LeadsHome(x.extName, c)
                     /\ x.deleting => Doomed(c)

TaskBelongs(t) ==
    /\ cache[t] # Gone => CopyBelongs(cache[t], t[2])
    /\ pc[t] # "idle" => CopyBelongs(mem[t], t[2])
    /\ pc[t] # "idle" /\ CurrentVersion(t) => mem[t].deleting = cr[t[2]].deleting
    /\ pc[t] = "delete" => mem[t].deleting

ObjectsBelong ==
    \A id \in Ids : Live(id) /\ account[id].creator \in CRs =>
        account[id].name \in NamesFor(account[id].creator)

ApartInv == /\ ObjectsBelong
            /\ \A c \in CRs : cr[c] # Gone => CopyBelongs(cr[c], c)
            /\ \A t \in Tasks : TaskBelongs(t)

LEMMA ApartInit == Init => ApartInv
<1> SUFFICES ASSUME Init PROVE ApartInv
  OBVIOUS
<1>1. ObjectsBelong
  <2> SUFFICES ASSUME NEW id \in Ids, Live(id) PROVE account[id].creator \notin CRs
    BY DEF ObjectsBelong
  <2>1. account[id] \in {o \in Objects : o.creator = Foreign}
    BY ConstantsAssumption DEF Init, Live
  <2> QED BY <2>1, ConstantsAssumption
<1>2. ASSUME NEW c \in CRs PROVE CopyBelongs(Applied(c), c)
  <2>1. /\ Applied(c).spec.name \in NamesFor(c) /\ Applied(c).extName = Unnamed
        /\ Applied(c).deleting = FALSE
    BY DEF Applied, NamesFor
  <2> QED BY <2>1, ConstantsAssumption DEF CopyBelongs, LeadsHome
<1>3. \A t \in Tasks : t[2] \in CRs
  BY DEF Tasks
<1>4. /\ \A c \in CRs : cr[c] = Applied(c)
      /\ \A t \in Tasks : cache[t] = Applied(t[2]) /\ pc[t] = "idle"
  BY DEF Init
<1> QED BY <1>1, <1>2, <1>3, <1>4 DEF ApartInv, TaskBelongs

(* An object keeps its creator, and an identifier is not given to another. *)
Keeps == \A id \in Ids : Live(id)' =>
            id \notin used \/ (Live(id) /\ account'[id].creator = account[id].creator)

(* A deletion is not taken back, and a resource that is gone stays so. *)
Forward == \A c \in CRs : Doomed(c) => Doomed(c)'

(* Versions go up one by one. *)
Onward == \A c \in CRs : \/ cr'[c] = cr[c]
                         \/ cr[c] # Gone /\ (cr'[c] = Gone \/ cr'[c].rv = cr[c].rv + 1)

LEMMA LeadsHomeForGood ==
    ASSUME Keeps, NEW id, Known(id), NEW c, LeadsHome(id, c)
    PROVE  LeadsHome(id, c)'
<1> SUFFICES ASSUME id \in Ids, Live(id)' PROVE account'[id].creator \in {c, Foreign}
  BY DEF LeadsHome
<1>1. id \in used
  BY ConstantsAssumption DEF Known
<1> QED BY <1>1 DEF Keeps, LeadsHome

LEMMA BelongsForGood ==
    ASSUME Keeps, Forward, NEW c \in CRs, NEW x, Known(x.extName), CopyBelongs(x, c)
    PROVE  CopyBelongs(x, c)'
BY LeadsHomeForGood DEF CopyBelongs, Forward

LEMMA StepKeeps == LockInv /\ [Next]_vars => Keeps
<1> SUFFICES ASSUME LockInv, [Next]_vars PROVE Keeps
  OBVIOUS
<1>0. account \in [Ids -> Objects \cup {NoObject}]
  BY DEF LockInv, TypeOK
<1>1. CASE account' = account
  BY <1>1 DEF Keeps, Live
<1>2. ASSUME NEW t \in Tasks, Create(t) \/ CreateFails(t) \/ CreateRepeated(t) PROVE Keeps
  <2>1. \A id \in Ids : account'[id] = account[id] \/ id \notin used
    BY <1>0, <1>2 DEF Create, CreateFails, CreateRepeated, ServerCreates
  <2> QED BY <2>1 DEF Keeps, Live
<1>3. ASSUME NEW t \in Tasks, Update(t) PROVE Keeps
  <2> DEFINE i == mem[t].extName
  <2>1. CASE account' = [account EXCEPT ![i] = [account[i] EXCEPT !.name = mem[t].spec.name,
                                                                  !.body = mem[t].spec.body]]
             /\ Live(i)
    <3> DEFINE o == [account[i] EXCEPT !.name = mem[t].spec.name, !.body = mem[t].spec.body]
    <3>1. i \in Ids => account[i] \in Objects /\ o.creator = account[i].creator
      BY <1>0, <2>1 DEF Live, Objects
    <3>2. account' = [account EXCEPT ![i] = o]
      BY <2>1
    <3> HIDE DEF o, i
    <3>3. \A id \in Ids : account'[id] = IF id = i THEN o ELSE account[id]
      BY <1>0, <3>2
    <3>4. Live(i)
      BY <2>1 DEF i
    <3> QED BY <3>1, <3>3, <3>4 DEF Keeps, Live
  <2>2. CASE account' = account
    BY <1>1, <2>2
  <2> QED BY <1>3, <2>1, <2>2 DEF Update
<1>4. ASSUME NEW t \in Tasks, Delete(t) PROVE Keeps
  <2>1. \A id \in Ids : account'[id] = account[id] \/ account'[id] = NoObject
    BY <1>0, <1>4 DEF Delete
  <2> QED BY <2>1 DEF Keeps, Live
<1>5. ASSUME NEW i \in Ids, AdminChanges(i) PROVE Keeps
  <2>1. CASE account' = [account EXCEPT ![i] = NoObject]
    <3>1. \A id \in Ids : account'[id] = account[id] \/ account'[id] = NoObject
      BY <1>0, <2>1
    <3> QED BY <3>1 DEF Keeps, Live
  <2>2. CASE \E b \in Bodies : account' = [account EXCEPT ![i].body = b]
    <3>1. PICK b \in Bodies : account' = [account EXCEPT ![i] = [account[i] EXCEPT !.body = b]]
      BY <2>2
    <3> DEFINE o == [account[i] EXCEPT !.body = b]
    <3>2. Live(i) /\ account[i] \in Objects
      BY <1>0, <1>5 DEF AdminChanges, Live
    <3>3. o.creator = account[i].creator
      BY <3>2 DEF Objects
    <3> HIDE DEF o
    <3>4. \A id \in Ids : account'[id] = IF id = i THEN o ELSE account[id]
      BY <1>0, <3>1 DEF o
    <3> QED BY <3>2, <3>3, <3>4 DEF Keeps, Live
  <2> QED BY <1>5, <2>1, <2>2 DEF AdminChanges
<1>6. ASSUME NEW t \in Tasks, \/ Connect(t) \/ ObserveFound(t) \/ ObserveAbsent(t) \/ AddFinalizer(t)
                              \/ AnnounceCreate(t) \/ RecordCreate(t) \/ RemoveFinalizer(t)
                              \/ LoseUpdate(t) \/ CallFails(t) \/ SyncCache(t)
      PROVE  account' = account
  BY <1>6 DEF Connect, ObserveFound, ObserveAbsent, AddFinalizer, AnnounceCreate, RecordCreate,
     RemoveFinalizer, LoseUpdate, CallFails, SyncCache
<1>7. ASSUME \/ \E r \in Replicas : Crash(r)
             \/ \E c \in CRs : UserEdits(c) \/ UserDeletes(c)
             \/ UNCHANGED vars
      PROVE  account' = account
  BY <1>7 DEF Crash, UserEdits, UserDeletes, vars
<1> QED BY <1>1, <1>2, <1>3, <1>4, <1>5, <1>6, <1>7 DEF Next, Step

(* The copies of a resource on the API server, step by step: a task that holds
   the current version writes what it holds, or its removal; the record of a
   creation and the users write fields of the server's own copy.           *)
LEMMA Writes ==
    ASSUME LockInv, ApartInv, [Next]_vars, NEW c \in CRs, cr'[c] # cr[c]
    PROVE  /\ cr[c] # Gone
           /\ cr'[c] # Gone =>
                /\ cr'[c].rv = cr[c].rv + 1
                /\ cr[c].deleting => cr'[c].deleting
                /\ \E e \in {cr[c].extName} \cup {mem[t].extName : t \in {s \in Tasks : s[2] = c /\ pc[s] # "idle"}} :
                      cr'[c].extName = e
                /\ cr'[c].spec.name \in NamesFor(c)
<1>1. TypeOK /\ cr \in [CRs -> Copies]
  BY DEF LockInv, TypeOK
<1>2. ASSUME NEW t \in Tasks, AddFinalizer(t) \/ AnnounceCreate(t)
      PROVE  /\ t[2] = c /\ CurrentVersion(t) /\ pc[t] # "idle" /\ mem[t] \in CRStates
             /\ cr'[c].rv = mem[t].rv + 1 /\ cr'[c].extName = mem[t].extName
             /\ cr'[c].spec = mem[t].spec /\ cr'[c].deleting = mem[t].deleting
  <2>1. pc[t] # "idle" /\ mem[t] \in CRStates /\ CurrentVersion(t) /\ t[2] \in CRs
    BY <1>1, <1>2, LockByTask DEF AddFinalizer, AnnounceCreate, KubeUpdate, TaskFacts, MemoryOf,
       TypeOK, Copies, Tasks
  <2> DEFINE f == [mem[t] EXCEPT !.finalizer = TRUE, !.rv = @ + 1]
             a == [mem[t] EXCEPT !.creation = "pending", !.rv = @ + 1]
  <2>2. \A m \in {f, a} : /\ m.rv = mem[t].rv + 1 /\ m.extName = mem[t].extName
                          /\ m.spec = mem[t].spec /\ m.deleting = mem[t].deleting
    BY <2>1 DEF CRStates
  <2>3. \E m \in {f, a} : cr' = [cr EXCEPT ![t[2]] = m]
    BY <1>2 DEF AddFinalizer, AnnounceCreate, KubeUpdate
  <2> HIDE DEF f, a
  <2>4. t[2] = c /\ cr'[c] \in {f, a}
    BY <1>1, <2>1, <2>3
  <2> QED BY <2>1, <2>2, <2>4
<1>3. ASSUME NEW t \in Tasks, RecordCreate(t)
      PROVE  /\ t[2] = c /\ pc[t] # "idle" /\ cr[c] # Gone
             /\ cr'[c].rv = cr[c].rv + 1 /\ cr'[c].extName = mem[t].extName
             /\ cr'[c].spec = cr[c].spec /\ cr'[c].deleting = cr[c].deleting
  <2>1. t[2] \in CRs /\ cr[t[2]] # Gone /\ cr[t[2]] \in CRStates /\ pc[t] = "record"
    BY <1>1, <1>3 DEF RecordCreate, Tasks, Copies
  <2> DEFINE x == [cr[t[2]] EXCEPT !.extName = mem[t].extName, !.creation = mem[t].creation, !.rv = @ + 1]
  <2>2. /\ x.rv = cr[t[2]].rv + 1 /\ x.extName = mem[t].extName
        /\ x.spec = cr[t[2]].spec /\ x.deleting = cr[t[2]].deleting
    BY <2>1 DEF CRStates
  <2>3. cr' = [cr EXCEPT ![t[2]] = x]
    BY <1>3 DEF RecordCreate
  <2> HIDE DEF x
  <2>4. t[2] = c /\ cr'[c] = x
    BY <1>1, <2>1, <2>3
  <2> QED BY <2>1, <2>2, <2>4
<1>4. ASSUME NEW d \in CRs, UserEdits(d) \/ UserDeletes(d)
      PROVE  /\ d = c /\ cr[c] # Gone
             /\ cr'[c] # Gone => /\ cr'[c].rv = cr[c].rv + 1 /\ cr'[c].extName = cr[c].extName
                                 /\ cr[c].deleting => cr'[c].deleting
                                 /\ cr'[c].spec = cr[c].spec \/ cr'[c].spec \in EditableTo[c]
  <2>1. d = c /\ cr[c] # Gone /\ cr[c] \in CRStates
    BY <1>1, <1>4 DEF UserEdits, UserDeletes, Copies
  <2>2. CASE UserEdits(c)
    <3>1. PICK s \in EditableTo[c] : cr' = [cr EXCEPT ![c] = [cr[c] EXCEPT !.spec = s, !.rv = @ + 1]]
      BY <2>2 DEF UserEdits
    <3> DEFINE x == [cr[c] EXCEPT !.spec = s, !.rv = @ + 1]
    <3>2. /\ x.rv = cr[c].rv + 1 /\ x.extName = cr[c].extName
          /\ x.spec = s /\ x.deleting = cr[c].deleting
      BY <2>1 DEF CRStates
    <3>3. cr'[c] = x
      BY <1>1, <3>1
    <3> HIDE DEF x
    <3> QED BY <2>1, <3>2, <3>3
  <2>3. CASE UserDeletes(c)
    <3> DEFINE x == [cr[c] EXCEPT !.deleting = TRUE, !.rv = @ + 1]
    <3>1. x.rv = cr[c].rv + 1 /\ x.extName = cr[c].extName /\ x.spec = cr[c].spec /\ x.deleting
      BY <2>1 DEF CRStates
    <3>2. cr' = [cr EXCEPT ![c] = IF cr[c].finalizer THEN x ELSE Gone]
      BY <2>3 DEF UserDeletes
    <3> HIDE DEF x
    <3>3. cr'[c] \in {x, Gone}
      BY <1>1, <3>2
    <3> QED BY <2>1, <3>1, <3>3
  <2> QED BY <1>4, <2>1, <2>2, <2>3
<1>5. ASSUME NEW t \in Tasks, RemoveFinalizer(t) PROVE cr[c] # Gone /\ cr'[c] = Gone
  BY <1>1, <1>5 DEF RemoveFinalizer, KubeUpdate, CurrentVersion, Tasks
<1>6. ASSUME NEW t \in Tasks, \/ Connect(t) \/ ObserveFound(t) \/ ObserveAbsent(t) \/ Create(t)
                              \/ CreateFails(t) \/ CreateRepeated(t) \/ Update(t) \/ Delete(t)
                              \/ LoseUpdate(t) \/ CallFails(t) \/ SyncCache(t)
      PROVE  FALSE
  BY <1>6 DEF Connect, ObserveFound, ObserveAbsent, Create, CreateFails, CreateRepeated, Update,
     Delete, LoseUpdate, CallFails, SyncCache
<1>7. ASSUME (\E r \in Replicas : Crash(r)) \/ (\E id \in Ids : AdminChanges(id)) \/ UNCHANGED vars
      PROVE FALSE
  BY <1>7 DEF Crash, AdminChanges, vars
<1>8. ASSUME NEW t \in Tasks, t[2] = c, pc[t] # "idle"
      PROVE  /\ mem[t].spec.name \in NamesFor(c)
             /\ CurrentVersion(t) => /\ cr[c] # Gone /\ cr[c].rv = mem[t].rv
                                     /\ cr[c].deleting = mem[t].deleting
  BY <1>8 DEF ApartInv, TaskBelongs, CopyBelongs, CurrentVersion
<1>9. cr[c] # Gone => cr[c].spec.name \in NamesFor(c)
  BY DEF ApartInv, CopyBelongs
<1>10. \A s \in EditableTo[c] : s.name \in NamesFor(c)
  BY DEF NamesFor
<1> QED BY <1>2, <1>3, <1>4, <1>5, <1>6, <1>7, <1>8, <1>9, <1>10 DEF Next, Step

LEMMA StepForward ==
    ASSUME LockInv, ApartInv, [Next]_vars
    PROVE  Forward /\ Onward
<1>1. ASSUME NEW c \in CRs, cr'[c] # cr[c]
      PROVE  /\ cr[c] # Gone
             /\ cr'[c] # Gone => cr'[c].rv = cr[c].rv + 1 /\ (cr[c].deleting => cr'[c].deleting)
  BY <1>1, Writes
<1> QED BY <1>1 DEF Forward, Onward, Doomed

(* What TaskBelongs says of the object in memory. *)
MemBelongs(t) == pc[t] # "idle" =>
    /\ CopyBelongs(mem[t], t[2])
    /\ CurrentVersion(t) => mem[t].deleting = cr[t[2]].deleting
    /\ pc[t] = "delete" => mem[t].deleting

LEMMA ServerBelongs ==
    ASSUME LockInv, NameInv, ApartInv, [Next]_vars, NEW c \in CRs, cr'[c] # Gone
    PROVE  CopyBelongs(cr[c], c)'
<1>1. Keeps
  BY StepKeeps
<1> DEFINE E == {cr[c].extName} \cup {mem[t].extName : t \in {s \in Tasks : s[2] = c /\ pc[s] # "idle"}}
<1>2. /\ cr[c] # Gone
      /\ cr'[c].spec.name \in NamesFor(c)
      /\ \E e \in E : cr'[c].extName = e
  BY Writes DEF ApartInv, CopyBelongs
<1>3. \A e \in E : LeadsHome(e, c) /\ Known(e)
  BY <1>2 DEF ApartInv, NameInv, TaskBelongs, NamesOf, CopyBelongs
<1>4. PICK e \in E : cr'[c].extName = e
  BY <1>2
<1>5. e \in Ids /\ account'[e] # NoObject => account'[e].creator \in {c, Foreign}
  BY <1>1, <1>3, LeadsHomeForGood DEF LeadsHome, Live
<1> QED BY <1>2, <1>4, <1>5 DEF CopyBelongs, LeadsHome, Live, Doomed, NamesFor

(* A copy taken earlier still belongs, and a task nothing happens to keeps it. *)
LEMMA CopyKept ==
    ASSUME LockInv, ApartInv, [Next]_vars, NEW c \in CRs, NEW x, Known(x.extName), CopyBelongs(x, c)
    PROVE  CopyBelongs(x, c)'
BY StepKeeps, StepForward, BelongsForGood

LEMMA MemoryKept ==
    ASSUME LockInv, NameInv, ApartInv, [Next]_vars, NEW t \in Tasks,
           pc'[t] = pc[t], mem'[t] = mem[t], pc[t] # "idle"
    PROVE  MemBelongs(t)'
<1>1. TypeOK /\ MemoryOf(t) /\ t[2] \in CRs /\ TaskBelongs(t) /\ NamesOf(t)
  BY LockByTask DEF TaskFacts, ApartInv, NameInv, Tasks
<1>2. /\ mem[t].spec.name \in NamesFor(t[2])
      /\ \A id \in Ids : id = mem[t].extName /\ Live(id)' => account'[id].creator \in {t[2], Foreign}
      /\ mem[t].deleting => Doomed(t[2])'
  BY <1>1, CopyKept DEF TaskBelongs, NamesOf, CopyBelongs, LeadsHome
<1>3. CurrentVersion(t)' => CurrentVersion(t) /\ cr'[t[2]] = cr[t[2]]
  <2>1. mem[t].rv \in Nat /\ Versions /\ Onward
    BY <1>1, StepForward, VersionsAreNumbers DEF MemoryOf, TypeOK, Copies, CRStates
  <2> QED BY <1>1, <2>1 DEF CurrentVersion, MemoryOf, NotAhead, Onward, Versions
<1> QED BY <1>1, <1>2, <1>3 DEF MemBelongs, TaskBelongs, CopyBelongs, LeadsHome, Live, Doomed, NamesFor
(* A step that lets a task go on changes neither the spec nor the deletion in
   memory, and what it writes on the server is what it then holds.         *)
LEMMA MemoryMoved ==
    ASSUME LockInv, ApartInv, [Next]_vars, NEW t \in Tasks, pc[t] # "idle",
           mem'[t].spec = mem[t].spec, mem'[t].deleting = mem[t].deleting,
           LeadsHome(mem[t].extName, t[2])',
           pc'[t] = "delete" => mem[t].deleting,
           CurrentVersion(t)' => \/ CurrentVersion(t) /\ cr'[t[2]] = cr[t[2]]
                                 \/ cr'[t[2]] = mem'[t]
    PROVE  MemBelongs(t)'
<1>1. t[2] \in CRs /\ TaskBelongs(t) /\ Forward
  BY StepForward DEF Tasks, ApartInv
<1>2. mem'[t].spec.name \in NamesFor(t[2]) /\ (mem'[t].deleting => Doomed(t[2])')
  BY <1>1 DEF TaskBelongs, CopyBelongs, Forward
<1>3. CopyBelongs(mem[t], t[2])'
  BY <1>2 DEF CopyBelongs, NamesFor
<1>4. CurrentVersion(t)' => mem'[t].deleting = cr'[t[2]].deleting
  BY <1>1 DEF TaskBelongs
<1> QED BY <1>3, <1>4 DEF MemBelongs

LEMMA ApartByTask ==
    ASSUME LockInv, NameInv, ApartInv, [Next]_vars, ObjectsBelong',
           \A t \in Tasks : cache'[t] \in {cache[t], cr[t[2]]},
           \A t \in Tasks : \/ pc'[t] = "idle"
                            \/ pc'[t] = pc[t] /\ mem'[t] = mem[t]
                            \/ MemBelongs(t)'
    PROVE  ApartInv'
<1>1. ASSUME NEW c \in CRs, cr'[c] # Gone PROVE CopyBelongs(cr[c], c)'
  BY <1>1, ServerBelongs
<1>2. ASSUME NEW t \in Tasks, cache'[t] # Gone PROVE CopyBelongs(cache[t], t[2])'
  <2>1. t[2] \in CRs /\ Known(cache'[t].extName) /\ CopyBelongs(cache'[t], t[2])
    BY <1>2 DEF Tasks, ApartInv, TaskBelongs, NameInv, NamesOf
  <2>2. /\ cache'[t].spec.name \in NamesFor(t[2])
        /\ \A id \in Ids : id = cache'[t].extName /\ Live(id)' => account'[id].creator \in {t[2], Foreign}
        /\ cache'[t].deleting => Doomed(t[2])'
    <3>1. CASE cache'[t] = cache[t]
      BY <2>1, <3>1, CopyKept DEF CopyBelongs, LeadsHome
    <3>2. CASE cache'[t] = cr[t[2]]
      BY <2>1, <3>2, CopyKept DEF CopyBelongs, LeadsHome
    <3> QED BY <3>1, <3>2
  <2> QED BY <2>2 DEF CopyBelongs, LeadsHome, NamesFor
<1>3. ASSUME NEW t \in Tasks PROVE MemBelongs(t)'
  BY <1>3, MemoryKept DEF MemBelongs
<1> QED BY <1>1, <1>2, <1>3 DEF ApartInv, TaskBelongs, MemBelongs

LEMMA ObjectsNext == LockInv /\ ApartInv /\ [Next]_vars => ObjectsBelong'
<1> SUFFICES ASSUME LockInv, ApartInv, [Next]_vars PROVE ObjectsBelong'
  OBVIOUS
<1>0. account \in [Ids -> Objects \cup {NoObject}] /\ ObjectsBelong
  BY DEF LockInv, TypeOK, ApartInv
<1> DEFINE Same(id) == account'[id].name = account[id].name /\ account'[id].creator = account[id].creator
<1>1. CASE \A id \in Ids : Live(id)' => Live(id) /\ Same(id)
  BY <1>0, <1>1 DEF ObjectsBelong, NamesFor
<1>2. ASSUME NEW t \in Tasks, Create(t) \/ CreateFails(t) \/ CreateRepeated(t) PROVE ObjectsBelong'
  <2>1. \A id \in Ids : account'[id] = account[id] \/ account'[id] = NewObject(t)
    BY <1>0, <1>2 DEF Create, CreateFails, CreateRepeated, ServerCreates
  <2>2. mem[t].spec.name \in NamesFor(t[2])
    BY <1>2 DEF Create, CreateFails, CreateRepeated, ApartInv, TaskBelongs, CopyBelongs
  <2>3. NewObject(t).name = mem[t].spec.name /\ NewObject(t).creator = t[2]
    BY DEF NewObject
  <2> QED BY <1>0, <2>1, <2>2, <2>3 DEF ObjectsBelong, Live, NamesFor
<1>3. ASSUME NEW t \in Tasks, Update(t) PROVE ObjectsBelong'
  <2> DEFINE i == mem[t].extName
             o == [account[i] EXCEPT !.name = mem[t].spec.name, !.body = mem[t].spec.body]
  <2>1. mem[t].spec.name \in NamesFor(t[2]) /\ LeadsHome(i, t[2])
    BY <1>3 DEF Update, ApartInv, TaskBelongs, CopyBelongs
  <2>2. CASE account' = account
    BY <1>1, <2>2 DEF Live
  <2>3. CASE Live(i) /\ account' = [account EXCEPT ![i] = o]
    <3>1. i \in Ids => /\ o.name = mem[t].spec.name /\ o.creator = account[i].creator
                       /\ account[i].creator \in {t[2], Foreign}
      BY <1>0, <2>1, <2>3 DEF Live, Objects, LeadsHome
    <3> HIDE DEF i, o
    <3>2. \A id \in Ids : account'[id] = IF id = i THEN o ELSE account[id]
      BY <1>0, <2>3
    <3> QED BY <1>0, <2>1, <3>1, <3>2, ConstantsAssumption DEF ObjectsBelong, Live, NamesFor
  <2> QED BY <1>3, <2>2, <2>3 DEF Update
<1>4. ASSUME NEW t \in Tasks, Delete(t) PROVE ObjectsBelong'
  <2>1. \A id \in Ids : account'[id] = account[id] \/ account'[id] = NoObject
    BY <1>0, <1>4 DEF Delete
  <2> QED BY <1>1, <2>1 DEF Live
<1>5. ASSUME NEW i \in Ids, AdminChanges(i) PROVE ObjectsBelong'
  <2>1. CASE account' = [account EXCEPT ![i] = NoObject]
    <3>1. \A id \in Ids : account'[id] = account[id] \/ account'[id] = NoObject
      BY <1>0, <2>1
    <3> QED BY <1>1, <3>1 DEF Live
  <2>2. CASE \E b \in Bodies : account' = [account EXCEPT ![i].body = b]
    <3>1. PICK b \in Bodies : account' = [account EXCEPT ![i] = [account[i] EXCEPT !.body = b]]
      BY <2>2
    <3> DEFINE o == [account[i] EXCEPT !.body = b]
    <3>2. Live(i) /\ o.name = account[i].name /\ o.creator = account[i].creator
      BY <1>0, <1>5 DEF AdminChanges, Live, Objects
    <3> HIDE DEF o
    <3>3. \A id \in Ids : account'[id] = IF id = i THEN o ELSE account[id]
      BY <1>0, <3>1 DEF o
    <3> QED BY <1>1, <3>2, <3>3 DEF Live
  <2> QED BY <1>5, <2>1, <2>2 DEF AdminChanges
<1>6. ASSUME NEW t \in Tasks, \/ Connect(t) \/ ObserveFound(t) \/ ObserveAbsent(t) \/ AddFinalizer(t)
                              \/ AnnounceCreate(t) \/ RecordCreate(t) \/ RemoveFinalizer(t)
                              \/ LoseUpdate(t) \/ CallFails(t) \/ SyncCache(t)
      PROVE  account' = account
  BY <1>6 DEF Connect, ObserveFound, ObserveAbsent, AddFinalizer, AnnounceCreate, RecordCreate,
     RemoveFinalizer, LoseUpdate, CallFails, SyncCache
<1>7. ASSUME \/ \E r \in Replicas : Crash(r)
             \/ \E c \in CRs : UserEdits(c) \/ UserDeletes(c)
             \/ UNCHANGED vars
      PROVE  account' = account
  BY <1>7 DEF Crash, UserEdits, UserDeletes, vars
<1>8. CASE account' = account
  BY <1>1, <1>8 DEF Live
<1> QED BY <1>2, <1>3, <1>4, <1>5, <1>6, <1>7, <1>8 DEF Next, Step
(* The object Observe settles on is the resource's own or made by hand: a
   search by name meets no other resource's, for their names are apart.    *)
LEMMA FoundBelongs ==
    ASSUME NamesApart, LockInv, ApartInv, NEW t \in Tasks, pc[t] # "idle",
           NEW id \in FindExternal(mem[t])
    PROVE  id \in Ids => LeadsHome(id, t[2])
<1>1. t[2] \in CRs /\ TaskBelongs(t) /\ ObjectsBelong /\ account \in [Ids -> Objects \cup {NoObject}]
  BY DEF Tasks, ApartInv, LockInv, TypeOK
<1>2. CASE mem[t].extName # Unnamed
  BY <1>1, <1>2 DEF FindExternal, TaskBelongs, CopyBelongs
<1>3. CASE mem[t].extName = Unnamed
  <2>1. id \in Ids /\ Live(id) /\ account[id].name \in NamesFor(t[2])
    BY <1>1, <1>3 DEF FindExternal, TaskBelongs, CopyBelongs
  <2>2. account[id].creator \in CRs \cup {Foreign}
    BY <1>1, <2>1 DEF Live, Objects
  <2> QED BY <1>1, <2>1, <2>2 DEF ObjectsBelong, NamesApart, LeadsHome
<1> QED BY <1>2, <1>3

LEMMA ApartObserve ==
    ASSUME NamesApart, LockInv, NameInv, ApartInv, [Next]_vars, NEW t \in Tasks,
           ObserveFound(t) \/ ObserveAbsent(t), pc'[t] # "idle"
    PROVE  MemBelongs(t)'
<1>1. /\ pc[t] = "observe" /\ cr' = cr /\ account' = account /\ t[2] \in CRs
      /\ mem[t] \in CRStates /\ TypeOK
  BY LockByTask DEF ObserveFound, ObserveAbsent, TaskFacts, MemoryOf, TypeOK, Copies, Tasks
<1>2. TaskBelongs(t)
  BY DEF ApartInv
<1>3. CASE ObserveAbsent(t)
  <2>1. mem'[t] = mem[t] /\ (pc'[t] = "delete" => mem[t].deleting)
    BY <1>1, <1>3 DEF ObserveAbsent, Branch, Goto, AfterFinalizer, TypeOK
  <2>2. LeadsHome(mem[t].extName, t[2])'
    BY <1>1, <1>2, <2>1 DEF TaskBelongs, CopyBelongs, LeadsHome, Live
  <2>3. CurrentVersion(t)' => CurrentVersion(t)
    BY <1>1, <2>1 DEF CurrentVersion
  <2>4. mem'[t].spec = mem[t].spec /\ mem'[t].deleting = mem[t].deleting
    BY <2>1
  <2>5. LeadsHome(mem[t].extName, t[2])' /\ cr'[t[2]] = cr[t[2]]
    BY <1>1, <2>2
  <2> QED BY <1>1, <2>1, <2>3, <2>4, <2>5, MemoryMoved
<1>4. CASE ObserveFound(t)
  <2>1. PICK id \in FindExternal(mem[t]) :
          LET o == IF UpToDate(mem[t].spec, account[id]) THEN "current" ELSE "stale"
              m == [mem[t] EXCEPT !.extName = id]
          IN  IF m.finalizer /\ ~m.deleting /\ o = "current"
              THEN Finish(t)
              ELSE /\ mem' = [mem EXCEPT ![t] = m]
                   /\ obs' = [obs EXCEPT ![t] = o]
                   /\ Branch(t, m, o)
    BY <1>4 DEF ObserveFound
  <2> DEFINE m == [mem[t] EXCEPT !.extName = id]
  <2>2. /\ m.spec = mem[t].spec /\ m.deleting = mem[t].deleting /\ m.rv = mem[t].rv
        /\ m.extName = id
    BY <1>1 DEF CRStates
  <2>3. PICK o : mem' = [mem EXCEPT ![t] = m] /\ Branch(t, m, o)
    BY <1>1, <2>1 DEF Finish, Goto, TypeOK
  <2> HIDE DEF m
  <2>4. mem'[t] = m /\ (pc'[t] = "delete" => m.deleting)
    BY <1>1, <2>3 DEF Branch, Goto, AfterFinalizer, TypeOK
  <2>5. id \in Ids => LeadsHome(id, t[2])
    BY <1>1, FoundBelongs
  <2>6. LeadsHome(mem[t].extName, t[2])'
    BY <1>1, <2>2, <2>4, <2>5 DEF LeadsHome, Live
  <2>7. CurrentVersion(t)' => CurrentVersion(t) /\ cr'[t[2]] = cr[t[2]]
    BY <1>1, <2>2, <2>4 DEF CurrentVersion
  <2> QED BY <1>1, <2>2, <2>4, <2>6, <2>7, MemoryMoved
<1> QED BY <1>3, <1>4

(* The two updates of the whole object, and the three ways a POST ends. *)
LEMMA ApartUpdates ==
    ASSUME LockInv, NameInv, ApartInv, [Next]_vars, NEW t \in Tasks,
           AddFinalizer(t) \/ AnnounceCreate(t), pc'[t] # "idle"
    PROVE  MemBelongs(t)'
<1>1. /\ pc[t] \in {"finalize", "pend"} /\ t[2] \in CRs /\ mem[t] \in CRStates /\ account' = account
      /\ TypeOK /\ TaskBelongs(t)
  BY LockByTask DEF AddFinalizer, AnnounceCreate, TaskFacts, MemoryOf, TypeOK, Copies, Tasks, ApartInv
<1> DEFINE f == [mem[t] EXCEPT !.finalizer = TRUE, !.rv = @ + 1]
           a == [mem[t] EXCEPT !.creation = "pending", !.rv = @ + 1]
<1>2. \A m \in {f, a} : /\ m.extName = mem[t].extName /\ m.spec = mem[t].spec
                        /\ m.deleting = mem[t].deleting
  BY <1>1 DEF CRStates
<1>3. \E m \in {f, a} : cr' = [cr EXCEPT ![t[2]] = m] /\ mem' = [mem EXCEPT ![t] = m]
  BY <1>1 DEF AddFinalizer, AnnounceCreate, KubeUpdate, Finish, Goto, TypeOK
<1> HIDE DEF f, a
<1>4. PICK m \in {f, a} : cr'[t[2]] = m /\ mem'[t] = m
  BY <1>1, <1>3 DEF TypeOK
<1>5. LeadsHome(mem[t].extName, t[2])'
  BY <1>1, <1>2, <1>4 DEF TaskBelongs, CopyBelongs, LeadsHome, Live
<1>6. pc'[t] # "delete"
  BY <1>1 DEF AddFinalizer, AnnounceCreate, Goto, AfterFinalizer, Finish, TypeOK
<1> QED BY <1>1, <1>2, <1>4, <1>5, <1>6, MemoryMoved

LEMMA ApartPosts ==
    ASSUME LockInv, NameInv, ApartInv, [Next]_vars, NEW t \in Tasks,
           Create(t) \/ CreateFails(t) \/ CreateRepeated(t)
    PROVE  MemBelongs(t)'
<1>1. /\ pc[t] = "create" /\ t[2] \in CRs /\ mem[t] \in CRStates /\ cr' = cr /\ pc'[t] = "record"
      /\ TypeOK /\ TaskBelongs(t) /\ NamesOf(t)
  BY LockByTask DEF Create, CreateFails, CreateRepeated, TaskFacts, MemoryOf, TypeOK, Copies, Tasks,
     ApartInv, NameInv, Goto
<1>2. ASSUME NEW id
      PROVE  /\ Created(mem[t], id).spec = mem[t].spec /\ Created(mem[t], id).rv = mem[t].rv
             /\ Created(mem[t], id).deleting = mem[t].deleting /\ Created(mem[t], id).extName = id
  BY <1>1 DEF Created, CRStates
<1>3. CASE \E id \in Ids : account'[id] = NewObject(t) /\ mem'[t] = Created(mem[t], id)
  <2>1. PICK id \in Ids : account'[id] = NewObject(t) /\ mem'[t] = Created(mem[t], id)
    BY <1>3
  <2>2. NewObject(t).creator = t[2]
    BY DEF NewObject
  <2>3. LeadsHome(mem[t].extName, t[2])'
    BY <1>2, <2>1, <2>2 DEF LeadsHome, Live
  <2>4. CurrentVersion(t)' => CurrentVersion(t) /\ cr'[t[2]] = cr[t[2]]
    BY <1>1, <1>2, <2>1 DEF CurrentVersion
  <2> QED BY <1>1, <1>2, <2>1, <2>3, <2>4, MemoryMoved
<1>4. CASE mem'[t] = [mem[t] EXCEPT !.creation = "failed"]
  <2>1. /\ mem'[t].spec = mem[t].spec /\ mem'[t].rv = mem[t].rv
        /\ mem'[t].deleting = mem[t].deleting /\ mem'[t].extName = mem[t].extName
    BY <1>1, <1>4 DEF CRStates
  <2>2. \A id \in Ids : id = mem[t].extName /\ Live(id)' => account'[id].creator \in {t[2], Foreign}
    BY <1>1, StepKeeps, LeadsHomeForGood DEF TaskBelongs, NamesOf, CopyBelongs, LeadsHome
  <2>3. LeadsHome(mem[t].extName, t[2])'
    BY <2>1, <2>2 DEF LeadsHome, Live
  <2>4. CurrentVersion(t)' => CurrentVersion(t) /\ cr'[t[2]] = cr[t[2]]
    BY <1>1, <2>1 DEF CurrentVersion
  <2> QED BY <1>1, <2>1, <2>3, <2>4, MemoryMoved
<1>5. CASE Create(t)
  BY <1>1, <1>3, <1>5 DEF Create, ServerCreates, TypeOK
<1>6. CASE CreateRepeated(t)
  BY <1>1, <1>3, <1>6 DEF CreateRepeated, TypeOK
<1>7. CASE CreateFails(t)
  BY <1>1, <1>4, <1>7 DEF CreateFails, TypeOK
<1> QED BY <1>5, <1>6, <1>7
(* Without an administrator's hand only a reconcile that deletes makes an
   object go.                                                              *)
LEMMA RemovedByDelete ==
    ASSUME LockInv, [Next]_vars, NEW id \in Ids, Live(id), account'[id] = NoObject, edits' = edits
    PROVE  \E t \in Tasks : Delete(t) /\ id = mem[t].extName
<1>1. account \in [Ids -> Objects \cup {NoObject}] /\ account[id] \in Objects /\ edits \in Nat
  BY DEF LockInv, TypeOK, Live
<1>2. ASSUME NEW t \in Tasks, Create(t) \/ CreateFails(t) \/ CreateRepeated(t) PROVE FALSE
  <2>1. mem[t] \in CRStates /\ t[2] \in CRs
    BY <1>2, LockByTask DEF Create, CreateFails, CreateRepeated, LockInv, TaskFacts, MemoryOf,
       TypeOK, Copies, Tasks
  <2>2. NewObject(t) # NoObject
    BY <2>1, NewObjectType, ConstantsAssumption
  <2>3. account'[id] = account[id] \/ account'[id] = NewObject(t)
    BY <1>1, <1>2 DEF Create, CreateFails, CreateRepeated, ServerCreates
  <2> QED BY <2>2, <2>3 DEF Live
<1>3. ASSUME NEW t \in Tasks, Update(t) PROVE FALSE
  <2> DEFINE i == mem[t].extName
             o == [account[i] EXCEPT !.name = mem[t].spec.name, !.body = mem[t].spec.body]
  <2>1. account' = account \/ (account' = [account EXCEPT ![i] = o] /\ Live(i))
    BY <1>3 DEF Update
  <2>2. i = id => o \in Objects
    <3>1. mem[t] \in CRStates
      BY <1>3, LockByTask DEF Update, LockInv, TaskFacts, MemoryOf, TypeOK, Copies
    <3>2. mem[t].spec.name \in Names /\ mem[t].spec.body \in Bodies
      BY <3>1 DEF CRStates, Specs
    <3> QED BY <1>1, <3>2 DEF Objects
  <2> HIDE DEF i, o
  <2>3. account'[id] = account[id] \/ account'[id] \in Objects
    BY <1>1, <2>1, <2>2
  <2> QED BY <2>3, ConstantsAssumption DEF Live
<1>4. ASSUME NEW t \in Tasks, Delete(t) PROVE id = mem[t].extName
  BY <1>1, <1>4 DEF Delete, Live
<1>5. ASSUME NEW i \in Ids, AdminChanges(i) PROVE FALSE
  BY <1>1, <1>5 DEF AdminChanges, Edit
<1>6. ASSUME NEW t \in Tasks, \/ Connect(t) \/ ObserveFound(t) \/ ObserveAbsent(t) \/ AddFinalizer(t)
                              \/ AnnounceCreate(t) \/ RecordCreate(t) \/ RemoveFinalizer(t)
                              \/ LoseUpdate(t) \/ CallFails(t) \/ SyncCache(t)
      PROVE  FALSE
  BY <1>6 DEF Connect, ObserveFound, ObserveAbsent, AddFinalizer, AnnounceCreate, RecordCreate,
     RemoveFinalizer, LoseUpdate, CallFails, SyncCache, Live
<1>7. ASSUME \/ \E r \in Replicas : Crash(r)
             \/ \E c \in CRs : UserEdits(c) \/ UserDeletes(c)
             \/ UNCHANGED vars
      PROVE  FALSE
  BY <1>7 DEF Crash, UserEdits, UserDeletes, vars, Live
<1> QED BY <1>2, <1>3, <1>4, <1>5, <1>6, <1>7 DEF Next, Step

LEMMA ApartNext ==
    ASSUME NamesApart
    PROVE  LockInv /\ NameInv /\ ApartInv /\ [Next]_vars => ApartInv'
<1> SUFFICES ASSUME LockInv, NameInv, ApartInv, [Next]_vars PROVE ApartInv'
  OBVIOUS
<1>1. TypeOK /\ ObjectsBelong'
  BY ObjectsNext DEF LockInv
<1> DEFINE Stays(s) == pc'[s] = pc[s] /\ mem'[s] = mem[s]
           Rests == \A s \in Tasks : cache'[s] \in {cache[s], cr[s[2]]}
<1>2. ASSUME NEW t \in Tasks, Step(t) \/ CallFails(t)
      PROVE  Rests /\ \A s \in Tasks : s # t => Stays(s)
  BY <1>1, <1>2 DEF Step, CallFails, Connect, ObserveFound, ObserveAbsent, Branch, AddFinalizer,
     AnnounceCreate, Create, CreateFails, CreateRepeated, RecordCreate, Update, Delete,
     RemoveFinalizer, LoseUpdate, Finish, Goto, TypeOK
<1>3. ASSUME NEW t \in Tasks, Step(t) \/ CallFails(t) PROVE pc'[t] = "idle" \/ MemBelongs(t)'
  <2>1. CASE Connect(t)
    <3>1. t[2] \in CRs /\ TaskBelongs(t) /\ NamesOf(t) /\ cache[t] # Gone
      BY <2>1 DEF Tasks, ApartInv, NameInv, Connect
    <3>2. mem'[t] = cache[t] /\ pc'[t] = "observe" /\ cr' = cr /\ account' = account
      BY <1>1, <2>1 DEF Connect, Goto, TypeOK
    <3>3. CurrentVersion(t)' => cache[t].deleting = cr[t[2]].deleting
      BY <3>1, <3>2 DEF CurrentVersion, LockInv, CacheCoherent
    <3> QED BY <3>1, <3>2, <3>3 DEF MemBelongs, TaskBelongs, CopyBelongs, LeadsHome, Live, Doomed, NamesFor
  <2>2. CASE RecordCreate(t) \/ Update(t) \/ Delete(t) \/ RemoveFinalizer(t) \/ LoseUpdate(t) \/ CallFails(t)
    BY <1>1, <2>2 DEF RecordCreate, Update, Delete, RemoveFinalizer, LoseUpdate, CallFails,
       Finish, Goto, TypeOK
  <2> QED BY <1>3, <2>1, <2>2, ApartObserve, ApartUpdates, ApartPosts DEF Step
<1>4. ASSUME NEW t \in Tasks, SyncCache(t) PROVE Rests /\ \A s \in Tasks : Stays(s)
  BY <1>1, <1>4 DEF SyncCache, task, TypeOK
<1>5. ASSUME NEW r \in Replicas, Crash(r)
      PROVE  Rests /\ \A s \in Tasks : pc'[s] = "idle" \/ Stays(s)
  BY <1>5 DEF Crash
<1>6. ASSUME \/ \E c \in CRs : UserEdits(c) \/ UserDeletes(c)
             \/ \E id \in Ids : AdminChanges(id)
             \/ UNCHANGED vars
      PROVE  Rests /\ \A s \in Tasks : Stays(s)
  BY <1>6 DEF UserEdits, UserDeletes, AdminChanges, task, vars
<1>7. Rests /\ \A s \in Tasks : pc'[s] = "idle" \/ Stays(s) \/ MemBelongs(s)'
  <2> HIDE DEF Stays, Rests
  <2> QED BY <1>2, <1>3, <1>4, <1>5, <1>6 DEF Next
<1> QED BY <1>1, <1>7, ApartByTask

(* A live object that a step without an administrator's hand removes was made
   for a resource that is being deleted, or is gone already.               *)
DeletesOnlyDoomed ==
    [][\A id \in Ids :
         Live(id) /\ account[id].creator \in CRs /\ account'[id] = NoObject
         /\ edits' = edits => Doomed(account[id].creator)]_vars

LEMMA RemovedIsDoomed ==
    ASSUME LockInv, ApartInv, [Next]_vars, NEW id \in Ids, Live(id),
           account[id].creator \in CRs, account'[id] = NoObject, edits' = edits
    PROVE  Doomed(account[id].creator)
<1>1. PICK t \in Tasks : Delete(t) /\ id = mem[t].extName
  BY RemovedByDelete
<1>2. t[2] \in CRs /\ TaskBelongs(t) /\ pc[t] = "delete"
  BY <1>1 DEF Tasks, ApartInv, Delete
<1>3. account[id].creator = t[2]
  BY <1>1, <1>2, ConstantsAssumption DEF TaskBelongs, CopyBelongs, LeadsHome
<1> QED BY <1>2, <1>3 DEF TaskBelongs, CopyBelongs

(* While names are apart, the provider deletes only what it made for a
   resource that is being deleted or gone, whatever is lost, crashes or is
   deleted in the console: a reconcile never follows a name or a stale
   identifier to the object of another resource, nor acts on a deletion that
   did not happen.                                                         *)
THEOREM DeletesOnlyForDeletions ==
    ASSUME NamesApart
    PROVE  Spec => DeletesOnlyDoomed
<1>1. LockInv /\ ApartInv /\ [Next]_vars =>
        [\A id \in Ids :
           Live(id) /\ account[id].creator \in CRs /\ account'[id] = NoObject
           /\ edits' = edits => Doomed(account[id].creator)]_vars
  BY RemovedIsDoomed
<1> QED BY <1>1, LockInit, LockNext, NameInit, NameNext, ApartInit, ApartNext, PTL
        DEF Spec, DeletesOnlyDoomed

(* When no reply is lost either, the resource is still there: one that is gone
   left nothing behind that a late reconcile could delete.                 *)
THEOREM DeletesWhatWasMadeForIt ==
    ASSUME LostReplies = FALSE, NamesApart
    PROVE  Spec => DeletesOnlyOwn
<1>1. ASSUME LockInv, OwnInv, ApartInv, [Next]_vars, NEW id \in Ids,
             Live(id), account[id].creator \in CRs, account'[id] = NoObject, edits' = edits
      PROVE  cr[account[id].creator] # Gone /\ cr[account[id].creator].deleting
  <2>1. id \in Owned(account[id].creator)
    BY <1>1 DEF Owned
  <2> QED BY <1>1, <2>1, RemovedIsDoomed DEF OwnInv, OwnershipTracked, Doomed
<1>2. LockInv /\ OwnInv /\ ApartInv /\ [Next]_vars =>
        [\A id \in Ids :
           Live(id) /\ account[id].creator \in CRs /\ account'[id] = NoObject
           /\ edits' = edits => /\ cr[account[id].creator] # Gone
                                /\ cr[account[id].creator].deleting]_vars
  BY <1>1
<1> QED BY <1>2, LockInit, LockNext, OwnInit, OwnNext, NameInit, NameNext, ApartInit, ApartNext, PTL
        DEF Spec, DeletesOnlyOwn
=============
