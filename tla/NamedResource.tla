--------------------------- MODULE NamedResource ---------------------------
(***************************************************************************)
(* The reconcile loop of a managed resource whose Dynatrace object gets    *)
(* its identifier from the server: Group, Policy, PolicyBoundary,          *)
(* ServiceUser and ZoneV2.  The external client (Observe, Create, Update,  *)
(* Delete) is read from internal/controller/iam/policyboundary, the        *)
(* smallest of the five; the crossplane-runtime reconciler that drives it  *)
(* and the Kubernetes API server are libraries, modelled from how          *)
(* helper/setup.go configures them and marked external in the map.         *)
(*                                                                         *)
(* A task <<r, c>> is replica r's reconcile of custom resource c.  Tasks   *)
(* interleave freely: cmd/provider/main.go leaves leader election off by   *)
(* default, so two replicas may work on the same resource.                 *)
(***************************************************************************)
EXTENDS Naturals, FiniteSets

CONSTANTS
    CRs,              \* custom resources, by metadata.name
    Replicas,         \* provider processes
    Ids,              \* identifiers the Dynatrace server hands out, once each
    Names, Bodies,    \* spec.forProvider.name, and everything compared with it
    Empty,            \* the body of an object or a spec that leaves it out
    Gone,             \* a custom resource that left the API server
    Unnamed,          \* external-name annotation unset or equal to metadata.name
    NoObject,         \* an identifier no object has
    Foreign,          \* the creator of objects the provider did not make
    InitialSpec,      \* the spec each custom resource is applied with
    EditableTo,       \* the specs a user may later edit it to
    InitialAccounts,  \* the Dynatrace accounts the provider may start on
    LostReplies,      \* may the reply to an executed POST get lost?
    UniqueNames,      \* does the server refuse a second object of one name?
    ConsoleDeletes,   \* may objects be deleted in the Dynatrace console?
    MaxFaults,        \* bound on failed calls and crashes
    MaxEdits          \* bound on what users and administrators change

Specs   == [name : Names, body : Bodies]
Objects == [name : Names, body : Bodies, creator : CRs \cup {Foreign}]

CRStates == [spec      : Specs,
             extName   : Ids \cup {Unnamed},
             creation  : {"none", "pending", "succeeded", "failed"},
             finalizer : BOOLEAN,
             deleting  : BOOLEAN,
             rv        : Nat]
Copies   == CRStates \cup {Gone}
Tasks    == Replicas \X CRs
Phases   == {"idle", "observe", "finalize", "pend", "create", "record",
             "update", "delete", "unfinalize"}

ASSUME ConstantsAssumption ==
    /\ Gone \notin CRStates
    /\ Unnamed \notin Ids
    /\ NoObject \notin Objects
    /\ Foreign \notin CRs
    /\ InitialSpec \in [CRs -> Specs]
    /\ EditableTo \in [CRs -> SUBSET Specs]
    /\ InitialAccounts \subseteq
          [Ids -> {o \in Objects : o.creator = Foreign} \cup {NoObject}]
    /\ LostReplies \in BOOLEAN
    /\ UniqueNames \in BOOLEAN
    /\ ConsoleDeletes \in BOOLEAN
    /\ MaxFaults \in Nat
    /\ MaxEdits \in Nat

VARIABLES
    cr,       \* the API server's copy of each custom resource
    cache,    \* per task, the copy in that replica's informer cache
    pc,       \* per task, the call the reconcile makes next
    mem,      \* per task, the object in memory (Gone between reconciles)
    obs,      \* per task, what Observe reported
    account,  \* the Dynatrace account
    used,     \* the identifiers handed out so far
    faults, edits

vars == <<cr, cache, pc, mem, obs, account, used, faults, edits>>
task == <<pc, mem, obs>>

TypeOK ==
    /\ cr \in [CRs -> Copies]
    /\ cache \in [Tasks -> Copies]
    /\ pc \in [Tasks -> Phases]
    /\ mem \in [Tasks -> Copies]
    /\ obs \in [Tasks -> {"absent", "stale", "current"}]
    /\ account \in [Ids -> Objects \cup {NoObject}]
    /\ used \in SUBSET Ids
    /\ faults \in Nat
    /\ edits \in Nat

Applied(c) == [spec |-> InitialSpec[c], extName |-> Unnamed, creation |-> "none",
               finalizer |-> FALSE, deleting |-> FALSE, rv |-> 0]

Init ==
    /\ cr = [c \in CRs |-> Applied(c)]
    /\ cache = [t \in Tasks |-> Applied(t[2])]
    /\ pc = [t \in Tasks |-> "idle"]
    /\ mem = [t \in Tasks |-> Gone]
    /\ obs = [t \in Tasks |-> "absent"]
    /\ account \in InitialAccounts
    /\ used = {id \in Ids : account[id] # NoObject}
    /\ faults = 0
    /\ edits = 0

-----------------------------------------------------------------------------
(* Steps of a task.                                                        *)

Live(id) == account[id] # NoObject

Goto(t, phase) == pc' = [pc EXCEPT ![t] = phase]

Finish(t) ==
    /\ Goto(t, "idle")
    /\ mem' = [mem EXCEPT ![t] = Gone]
    /\ obs' = [obs EXCEPT ![t] = "absent"]

Fault == faults < MaxFaults /\ faults' = faults + 1

(* The API server accepts an update only of the version it holds. *)
CurrentVersion(t) == cr[t[2]] # Gone /\ cr[t[2]].rv = mem[t].rv

KubeUpdate(t, new) ==
    /\ CurrentVersion(t)
    /\ cr' = [cr EXCEPT ![t[2]] = new]

(* Mutant: external names declared deterministic, so nothing is incomplete. *)
CreateIncompleteIgnored(m) == FALSE

(* Creation was announced and neither its success nor its failure recorded. *)
CreateIncomplete(m) == m.creation = "pending"

(* The reconcile reads the resource from the cache and connects.  It refuses
   to go on when a creation is incomplete: the provider does not declare its
   external names deterministic.                                           *)
Connect(t) ==
    /\ pc[t] = "idle"
    /\ cache[t] # Gone
    /\ ~CreateIncomplete(cache[t])
    /\ mem' = [mem EXCEPT ![t] = cache[t]]
    /\ Goto(t, "observe")
    /\ UNCHANGED <<cr, cache, obs, account, used, faults, edits>>

(* Mutant: the comparison forgets everything but the name. *)
UpToDateByName(spec, o) == spec.name = o.name

(* A body left out, in the spec or in the reply, matches any. *)
UpToDate(spec, o) ==
    /\ spec.name = o.name
    /\ spec.body = Empty \/ o.body = Empty \/ spec.body = o.body

(* Mutant: the external name is not consulted. *)
FindExternalByName(m) == {id \in Ids : Live(id) /\ account[id].name = m.spec.name}

(* Mutant: there is no search by name. *)
FindExternalByIdOnly(m) == {id \in Ids : id = m.extName /\ Live(id)}

(* Mutant: the search takes whatever is listed. *)
FindExternalAny(m) ==
    IF m.extName # Unnamed THEN {id \in {m.extName} : Live(id)} ELSE {id \in Ids : Live(id)}

(* The objects Observe may settle on: the one the external name identifies,
   or any that carries the spec's name when there is no external name yet
   (the list is searched in the server's order).                           *)
FindExternal(m) ==
    IF m.extName # Unnamed
    THEN {id \in {m.extName} : Live(id)}
    ELSE {id \in Ids : Live(id) /\ account[id].name = m.spec.name}

(* What follows an observation of a resource that is not being deleted. *)
AfterFinalizer(o) == CASE o = "absent" -> "pend" [] o = "stale" -> "update"
                       [] OTHER -> "idle"

Branch(t, m, o) ==
    IF m.deleting THEN Goto(t, IF o = "absent" THEN "unfinalize" ELSE "delete")
    ELSE IF ~m.finalizer THEN Goto(t, "finalize")
    ELSE Goto(t, AfterFinalizer(o))

ObserveFound(t) ==
    /\ pc[t] = "observe"
    /\ \E id \in FindExternal(mem[t]) :
          LET o == IF UpToDate(mem[t].spec, account[id]) THEN "current" ELSE "stale"
              m == [mem[t] EXCEPT !.extName = id]
          IN  IF m.finalizer /\ ~m.deleting /\ o = "current"
              THEN Finish(t)
              ELSE /\ mem' = [mem EXCEPT ![t] = m]
                   /\ obs' = [obs EXCEPT ![t] = o]
                   /\ Branch(t, m, o)
    /\ UNCHANGED <<cr, cache, account, used, faults, edits>>

(* Mutant: every failure of the lookup is reported as absence. *)
ObserveAbsentOnError(t) ==
    /\ pc[t] = "observe"
    /\ obs' = [obs EXCEPT ![t] = "absent"]
    /\ Branch(t, mem[t], "absent")
    /\ UNCHANGED <<cr, cache, mem, account, used, faults, edits>>

(* A 404, on the object or on the whole level it is listed in, is absence. *)
ObserveAbsent(t) ==
    /\ pc[t] = "observe"
    /\ FindExternal(mem[t]) = {}
    /\ obs' = [obs EXCEPT ![t] = "absent"]
    /\ Branch(t, mem[t], "absent")
    /\ UNCHANGED <<cr, cache, mem, account, used, faults, edits>>

(* The first update of the object in memory: it also persists the external
   name a successful Observe wrote there.                                  *)
AddFinalizer(t) ==
    LET m == [mem[t] EXCEPT !.finalizer = TRUE, !.rv = @ + 1] IN
    /\ pc[t] = "finalize"
    /\ KubeUpdate(t, m)
    /\ IF obs[t] = "current"
       THEN Finish(t)
       ELSE /\ mem' = [mem EXCEPT ![t] = m]
            /\ Goto(t, AfterFinalizer(obs[t]))
            /\ UNCHANGED obs
    /\ UNCHANGED <<cache, account, used, faults, edits>>

(* Creation is announced on the API server before the external call. *)
AnnounceCreate(t) ==
    LET m == [mem[t] EXCEPT !.creation = "pending", !.rv = @ + 1] IN
    /\ pc[t] = "pend"
    /\ KubeUpdate(t, m)
    /\ mem' = [mem EXCEPT ![t] = m]
    /\ Goto(t, "create")
    /\ UNCHANGED <<cache, obs, account, used, faults, edits>>

NewObject(t) == [name |-> mem[t].spec.name, body |-> mem[t].spec.body,
                 creator |-> t[2]]

(* Mutant: the name is stored where the identifier belongs. *)
CreatedByName(m, id) == [m EXCEPT !.extName = m.spec.name, !.creation = "succeeded"]

Created(m, id) == [m EXCEPT !.extName = id, !.creation = "succeeded"]

NameTaken(name, except) ==
    UniqueNames /\ \E id \in Ids \ {except} : Live(id) /\ account[id].name = name

ServerCreates(t, id) ==
    /\ ~NameTaken(mem[t].spec.name, id)
    /\ account' = [account EXCEPT ![id] = NewObject(t)]
    /\ used' = used \cup {id}

(* The POST succeeds; the identifier in its reply becomes the external name. *)
Create(t) ==
    /\ pc[t] = "create"
    /\ \E id \in Ids \ used :
          /\ ServerCreates(t, id)
          /\ mem' = [mem EXCEPT ![t] = Created(mem[t], id)]
    /\ Goto(t, "record")
    /\ UNCHANGED <<cr, cache, obs, faults, edits>>

(* The POST fails: the name is taken, the call breaks before it reaches the
   server, or the server executes it and every reply is lost.              *)
CreateFails(t) ==
    /\ pc[t] = "create"
    /\ \/ NameTaken(mem[t].spec.name, Unnamed) /\ UNCHANGED <<account, used, faults>>
       \/ Fault /\ UNCHANGED <<account, used>>
       \/ Fault /\ LostReplies /\ \E id \in Ids \ used : ServerCreates(t, id)
    /\ mem' = [mem EXCEPT ![t].creation = "failed"]
    /\ Goto(t, "record")
    /\ UNCHANGED <<cr, cache, obs, edits>>

(* The client posts again when no reply came: both objects may then exist,
   and only the second one's identifier is known.                          *)
CreateRepeated(t) ==
    /\ pc[t] = "create"
    /\ LostReplies /\ ~UniqueNames /\ Fault
    /\ \E lost, id \in Ids \ used :
          /\ lost # id
          /\ account' = [account EXCEPT ![lost] = NewObject(t), ![id] = NewObject(t)]
          /\ used' = used \cup {lost, id}
          /\ mem' = [mem EXCEPT ![t] = Created(mem[t], id)]
    /\ Goto(t, "record")
    /\ UNCHANGED <<cr, cache, obs, edits>>

(* The outcome and the external name are written whatever the version. *)
RecordCreate(t) ==
    LET c == t[2] IN
    /\ pc[t] = "record"
    /\ cr[c] # Gone
    /\ cr' = [cr EXCEPT ![c] = [cr[c] EXCEPT !.extName = mem[t].extName,
                                             !.creation = mem[t].creation,
                                             !.rv = @ + 1]]
    /\ Finish(t)
    /\ UNCHANGED <<cache, account, used, faults, edits>>

(* PUT by external name; an object that vanished meanwhile is an error, and
   so is a name somebody else took.                                        *)
Update(t) ==
    LET id == mem[t].extName IN
    /\ pc[t] = "update"
    /\ account' = IF Live(id) /\ ~NameTaken(mem[t].spec.name, id)
                  THEN [account EXCEPT ![id] = [account[id] EXCEPT !.name = mem[t].spec.name,
                                                                   !.body = mem[t].spec.body]]
                  ELSE account
    /\ Finish(t)
    /\ UNCHANGED <<cr, cache, used, faults, edits>>

(* Mutant: Delete forgets to call the server. *)
DeleteNothing(t) ==
    /\ pc[t] = "delete"
    /\ Finish(t)
    /\ UNCHANGED <<cr, cache, account, used, faults, edits>>

(* DELETE by external name; 404 is success. *)
Delete(t) ==
    /\ pc[t] = "delete"
    /\ account' = [account EXCEPT ![mem[t].extName] = NoObject]
    /\ Finish(t)
    /\ UNCHANGED <<cr, cache, used, faults, edits>>

(* Without its finalizer a deleted resource leaves the API server. *)
RemoveFinalizer(t) ==
    /\ pc[t] = "unfinalize"
    /\ KubeUpdate(t, Gone)
    /\ Finish(t)
    /\ UNCHANGED <<cache, account, used, faults, edits>>

(* An update that meets another version ends the reconcile; it is requeued. *)
LoseUpdate(t) ==
    /\ pc[t] \in {"finalize", "pend", "unfinalize"}
    /\ ~CurrentVersion(t)
    /\ Finish(t)
    /\ UNCHANGED <<cr, cache, account, used, faults, edits>>

(* Any call of the reconcile may fail without effect, and ends it. *)
CallFails(t) ==
    /\ pc[t] \notin {"idle", "create"}
    /\ Fault
    /\ Finish(t)
    /\ UNCHANGED <<cr, cache, account, used, edits>>

-----------------------------------------------------------------------------
(* The surroundings.                                                       *)

SyncCache(t) ==
    /\ cache[t] # cr[t[2]]
    /\ cache' = [cache EXCEPT ![t] = cr[t[2]]]
    /\ UNCHANGED <<cr, task, account, used, faults, edits>>

(* A replica stops in the middle of everything and lists afresh. *)
Crash(r) ==
    /\ \E c \in CRs : pc[<<r, c>>] # "idle"
    /\ Fault
    /\ pc'  = [t \in Tasks |-> IF t[1] = r THEN "idle" ELSE pc[t]]
    /\ mem' = [t \in Tasks |-> IF t[1] = r THEN Gone ELSE mem[t]]
    /\ obs' = [t \in Tasks |-> IF t[1] = r THEN "absent" ELSE obs[t]]
    /\ cache' = [t \in Tasks |-> IF t[1] = r THEN cr[t[2]] ELSE cache[t]]
    /\ UNCHANGED <<cr, account, used, edits>>

Edit == edits < MaxEdits /\ edits' = edits + 1

(* The spec of a resource that is being deleted can be edited as well. *)
UserEdits(c) ==
    /\ cr[c] # Gone
    /\ Edit
    /\ \E s \in EditableTo[c] \ {cr[c].spec} :
          cr' = [cr EXCEPT ![c] = [cr[c] EXCEPT !.spec = s, !.rv = @ + 1]]
    /\ UNCHANGED <<cache, task, account, used, faults>>

(* kubectl delete: immediate without a finalizer, else a request. *)
UserDeletes(c) ==
    /\ cr[c] # Gone
    /\ ~cr[c].deleting
    /\ cr' = [cr EXCEPT ![c] = IF cr[c].finalizer
                               THEN [cr[c] EXCEPT !.deleting = TRUE, !.rv = @ + 1]
                               ELSE Gone]
    /\ UNCHANGED <<cache, task, account, used, faults, edits>>

(* Somebody changes or deletes an object in the Dynatrace console. *)
AdminChanges(id) ==
    /\ Live(id)
    /\ Edit
    /\ \/ ConsoleDeletes /\ account' = [account EXCEPT ![id] = NoObject]
       \/ \E b \in Bodies \ {account[id].body} :
             account' = [account EXCEPT ![id].body = b]
    /\ UNCHANGED <<cr, cache, task, used, faults>>

-----------------------------------------------------------------------------

Step(t) ==
    \/ Connect(t) \/ ObserveFound(t) \/ ObserveAbsent(t)
    \/ AddFinalizer(t) \/ AnnounceCreate(t)
    \/ Create(t) \/ CreateFails(t) \/ CreateRepeated(t) \/ RecordCreate(t)
    \/ Update(t) \/ Delete(t) \/ RemoveFinalizer(t) \/ LoseUpdate(t)

Next ==
    \/ \E t \in Tasks : Step(t) \/ CallFails(t) \/ SyncCache(t)
    \/ \E r \in Replicas : Crash(r)
    \/ \E c \in CRs : UserEdits(c) \/ UserDeletes(c)
    \/ \E id \in Ids : AdminChanges(id)

Spec == Init /\ [][Next]_vars

(* Every task is polled and requeued for as long as its process runs, and
   every watch delivers.                                                   *)
Fairness == \A t \in Tasks : WF_vars(Step(t)) /\ WF_vars(SyncCache(t))

FairSpec == Spec /\ Fairness

-----------------------------------------------------------------------------
(* Properties.                                                             *)

Owned(c) == {id \in Ids : Live(id) /\ account[id].creator = c}

Creating(t) == pc[t] \in {"create", "record"}

(* Between the announcement of a creation and the record of its outcome no
   other replica creates for the same resource: leader election is off by
   default, so only the version check and the refusal of incomplete
   creations keep two replicas from posting the object twice.              *)
CreateExclusive ==
    \A s, t \in Tasks : s[2] = t[2] /\ Creating(s) /\ Creating(t) => s = t

(* A resource that left the cluster left nothing it created in Dynatrace. *)
NoOrphans == \A c \in CRs : cr[c] = Gone => Owned(c) = {}

Abstract == INSTANCE Ownership WITH owned   <- [c \in CRs |-> Owned(c)],
                                    retired <- {c \in CRs : cr[c] = Gone}

(* The reconcile loop keeps the abstract promise: one object per resource at
   a time, none when the finalizer goes, none after.                       *)
OwnershipKept == Abstract!OSpec

(* An external name that identifies a live object is never replaced: the
   resource would forget the object and leak it.                           *)
NameStable ==
    [][\A c \in CRs :
         cr[c] # Gone /\ cr'[c] # Gone /\ cr[c].extName # Unnamed
         /\ Live(cr[c].extName) => cr'[c].extName = cr[c].extName]_vars

(* The provider deletes an object only while the resource it was made for is
   being deleted: the others go only by an administrator's hand.           *)
DeletesOnlyOwn ==
    [][\A id \in Ids :
         Live(id) /\ account[id].creator \in CRs /\ account'[id] = NoObject
         /\ edits' = edits => /\ cr[account[id].creator] # Gone
                              /\ cr[account[id].creator].deleting]_vars

(* A creation nobody will complete: the process died between announcing it
   and recording its outcome, and crossplane refuses to go on.             *)
Wedged(c) == /\ cr[c] # Gone /\ CreateIncomplete(cr[c])
             /\ \A t \in Tasks : t[2] = c => ~Creating(t)

(* A deleted resource eventually leaves the cluster. *)
Teardown == \A c \in CRs : (cr[c] # Gone /\ cr[c].deleting)
                             ~> (cr[c] = Gone \/ Wedged(c))

(* Once users, administrators and faults pause, drift is corrected for good:
   every resource's object exists and carries its spec, but for a body that
   was emptied, which Observe takes for one it was not shown.              *)
DriftCorrected ==
    \A c \in CRs :
        <>[](\/ cr[c] = Gone \/ cr[c].deleting \/ Wedged(c)
             \/ \E id \in Ids : /\ Live(id)
                                /\ account[id].name = cr[c].spec.name
                                /\ account[id].body \in {cr[c].spec.body, Empty})
=============================================================================
