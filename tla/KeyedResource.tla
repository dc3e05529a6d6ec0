--------------------------- MODULE KeyedResource ---------------------------
(***************************************************************************)
(* internal/controller/iam/user and internal/controller/iam/costcenter:    *)
(* the kinds whose object is identified by a key of the spec, the e-mail   *)
(* address of a User and the value of a CostCenter.  A user is looked up   *)
(* by a GET of its own; a cost center is searched in the pages of          *)
(* ListCostCenters, which the server cuts anew for every request.  Nothing *)
(* but the existence of the object is compared, and Update does nothing.   *)
(*                                                                         *)
(* The custom resources of one kind are reconciled concurrently by one     *)
(* replica, each from the current version: the races of replicas and of    *)
(* stale caches are NamedResource's.  A user's groups are names of Group   *)
(* resources, which Create alone resolves: what they are is never compared.*)
(***************************************************************************)
EXTENDS Naturals, Sequences, FiniteSets

CONSTANTS
    CRs,         \* custom resources, by metadata.name
    Keys,
    Order,       \* the keys in the order in which the server lists them
    PageSize,
    Kinds,       \* the kinds the run is about
    NoRecord,    \* no object of that key
    Foreign,     \* the creator of objects the provider did not make
    Unnamed,     \* external-name annotation equal to metadata.name
    Gone,        \* a custom resource that left the API server
    InitialKey,  \* the key each custom resource is applied with
    EditableTo,  \* the keys a user may later edit it to
    Existing,    \* the keys that exist beforehand
    ExistsAs,    \* how the server answers the creation of a key it has
    MaxFaults,   \* bound on failed calls and crashes
    MaxEdits     \* bound on what users and administrators change

CRStates == [key       : Keys,
             extName   : Keys \cup {Unnamed},
             creation  : {"none", "pending", "succeeded", "failed"},
             finalizer : BOOLEAN,
             deleting  : BOOLEAN]
(* What tells two errors apart: the status, and does the text speak of an
   object that "already exists" or has "already been stored"?              *)
APIErrors == [status : {400, 409}, exists : BOOLEAN]

Phases == {"idle", "observe", "finalize", "pend", "create", "record",
           "delete", "unfinalize"}

ASSUME KeyedAssumption ==
    /\ Gone \notin CRStates /\ Unnamed \notin Keys
    /\ Foreign \notin CRs /\ NoRecord \notin CRs \cup {Foreign}
    /\ Order \in Seq(Keys) /\ Keys = {Order[i] : i \in DOMAIN Order}
    /\ PageSize \in Nat \ {0}
    /\ Kinds \subseteq {"User", "CostCenter"}
    /\ InitialKey \in [CRs -> Keys] /\ EditableTo \in [CRs -> SUBSET Keys]
    /\ Existing \subseteq Keys /\ ExistsAs \in SUBSET APIErrors \ {{}}
    /\ MaxFaults \in Nat /\ MaxEdits \in Nat

VARIABLES
    kind,
    cr,       \* the API server's copy of each custom resource
    pc,       \* the call its reconcile makes next
    mem,      \* the object in memory, Gone between reconciles
    current,  \* is it the server's version still?
    page,     \* the page ListCostCenters asks for next
    seen,     \* the keys on the pages so far
    found,    \* did Observe report the object as existing?
    account,  \* per key, who made the object that carries it
    ready,    \* per resource, do the groups it refers to tell their identifiers?
    moved,    \* history: resources whose key was edited
    shrunk,   \* history: resources whose last listing lost a record half-way
    faults, edits

task == <<pc, mem, current, page, seen, found>>
past == <<moved, shrunk>>
vars == <<kind, cr, task, account, ready, past, faults, edits>>

TypeOK ==
    /\ kind \in Kinds
    /\ cr \in [CRs -> CRStates \cup {Gone}] /\ mem \in [CRs -> CRStates \cup {Gone}]
    /\ pc \in [CRs -> Phases]
    /\ current \in [CRs -> BOOLEAN] /\ ready \in [CRs -> BOOLEAN]
    /\ page \in [CRs -> 1 .. Len(Order)] /\ seen \in [CRs -> SUBSET Keys]
    /\ found \in [CRs -> BOOLEAN]
    /\ account \in [Keys -> CRs \cup {Foreign, NoRecord}]
    /\ moved \in SUBSET CRs /\ shrunk \in SUBSET CRs
    /\ faults \in 0 .. MaxFaults /\ edits \in 0 .. MaxEdits

Init ==
    /\ kind \in Kinds
    /\ cr = [c \in CRs |-> [key |-> InitialKey[c], extName |-> Unnamed,
                            creation |-> "none", finalizer |-> FALSE,
                            deleting |-> FALSE]]
    /\ pc = [c \in CRs |-> "idle"] /\ mem = [c \in CRs |-> Gone]
    /\ current = [c \in CRs |-> TRUE]
    /\ ready \in [CRs -> IF kind = "User" THEN BOOLEAN ELSE {TRUE}]
    /\ page = [c \in CRs |-> 1] /\ seen = [c \in CRs |-> {}]
    /\ found = [c \in CRs |-> FALSE]
    /\ account = [k \in Keys |-> IF k \in Existing THEN Foreign ELSE NoRecord]
    /\ moved = {} /\ shrunk = {}
    /\ faults = 0 /\ edits = 0

-----------------------------------------------------------------------------
(* The server.                                                             *)

Live(k) == account[k] # NoRecord

Listed == {i \in DOMAIN Order : Live(Order[i])}

Rank(i) == Cardinality(Listed \cap 1 .. i)

PageOf(p) == {Order[i] : i \in {j \in Listed : Rank(j) \in (p - 1) * PageSize + 1 .. p * PageSize}}

(* Mutants: the first page is all there is; the flag is not looked at. *)
FirstPageOnly(p) == FALSE
FlagIgnored(p) == TRUE

HasNextPage(p) == Cardinality(Listed) > p * PageSize

(* The record goes; listings between two of their pages are cut anew. *)
Remove(k) ==
    /\ account' = [account EXCEPT ![k] = NoRecord]
    /\ shrunk' = IF Live(k) THEN shrunk \cup {c \in CRs : pc[c] = "observe" /\ page[c] > 1}
                 ELSE shrunk

-----------------------------------------------------------------------------
(* The reconcile of custom resource c.                                     *)

Goto(c, phase) == pc' = [pc EXCEPT ![c] = phase]

Finish(c) ==
    /\ Goto(c, "idle")
    /\ mem' = [mem EXCEPT ![c] = Gone]
    /\ current' = [current EXCEPT ![c] = TRUE]
    /\ page' = [page EXCEPT ![c] = 1]
    /\ seen' = [seen EXCEPT ![c] = {}]
    /\ found' = [found EXCEPT ![c] = FALSE]

Fault == faults < MaxFaults /\ faults' = faults + 1

CurrentVersion(c) == cr[c] # Gone /\ current[c]

(* A write of somebody else makes the object in memory a former version. *)
Outdate(c) == current' = [current EXCEPT ![c] = pc[c] = "idle"]

(* The text counts whatever the status, for it is part of the message. *)
IsAlreadyExists(e) == e.status = 409 \/ e.exists

CreateIncomplete(m) == m.creation = "pending"

Connect(c) ==
    /\ pc[c] = "idle" /\ cr[c] # Gone /\ ~CreateIncomplete(cr[c])
    /\ mem' = [mem EXCEPT ![c] = cr[c]]
    /\ shrunk' = shrunk \ {c}
    /\ Goto(c, "observe")
    /\ UNCHANGED <<kind, cr, current, page, seen, found, account, ready, moved, faults, edits>>

(* Mutant: the object is looked up by the external name, as the other kinds do. *)
FoundByExtName(m, keys) == m.extName \in keys

(* Mutant: what was there once is taken to be there still. *)
FoundOnce(m, keys) == m.extName # Unnamed \/ m.key \in keys

Found(m, keys) == m.key \in keys

(* Mutant: the external name of the last creation stays. *)
IdentifiedByCreation(m) == m

(* Observe makes the key of the object it found the external name. *)
Identified(m) == [m EXCEPT !.extName = m.key]

(* What an observation leads to.  An object that exists is up to date. *)
Observed(c, exists) ==
    LET m == IF exists THEN Identified(mem[c]) ELSE mem[c] IN
    IF exists /\ m.finalizer /\ ~m.deleting THEN Finish(c)
    ELSE /\ mem' = [mem EXCEPT ![c] = m]
         /\ found' = [found EXCEPT ![c] = exists]
         /\ UNCHANGED current
         /\ page' = [page EXCEPT ![c] = 1] /\ seen' = [seen EXCEPT ![c] = {}]
         /\ Goto(c, CASE m.deleting -> IF exists THEN "delete" ELSE "unfinalize"
                      [] ~m.deleting /\ ~m.finalizer -> "finalize"
                      [] OTHER -> "pend")

(* The GET of one user; 404 is absence, and any other error ends the reconcile. *)
ObserveUser(c) ==
    /\ kind = "User" /\ pc[c] = "observe"
    /\ Observed(c, Found(mem[c], {k \in Keys : Live(k)}))
    /\ UNCHANGED <<kind, cr, account, ready, past, faults, edits>>

(* One page; the search starts when the last one is there. *)
ObserveCostCenter(c) ==
    LET keys == seen[c] \cup PageOf(page[c]) IN
    /\ kind = "CostCenter" /\ pc[c] = "observe"
    /\ IF HasNextPage(page[c])
       THEN /\ seen' = [seen EXCEPT ![c] = keys]
            /\ page' = [page EXCEPT ![c] = @ + 1]
            /\ UNCHANGED <<pc, mem, current, found>>
       ELSE Observed(c, Found(mem[c], keys))
    /\ UNCHANGED <<kind, cr, account, ready, past, faults, edits>>

AddFinalizer(c) ==
    LET m == [mem[c] EXCEPT !.finalizer = TRUE] IN
    /\ pc[c] = "finalize" /\ CurrentVersion(c)
    /\ cr' = [cr EXCEPT ![c] = m]
    /\ IF found[c] THEN Finish(c)
       ELSE /\ mem' = [mem EXCEPT ![c] = m]
            /\ Goto(c, "pend")
            /\ UNCHANGED <<current, page, seen, found>>
    /\ UNCHANGED <<kind, account, ready, past, faults, edits>>

AnnounceCreate(c) ==
    LET m == [mem[c] EXCEPT !.creation = "pending"] IN
    /\ pc[c] = "pend" /\ CurrentVersion(c)
    /\ cr' = [cr EXCEPT ![c] = m]
    /\ mem' = [mem EXCEPT ![c] = m]
    /\ Goto(c, "create")
    /\ UNCHANGED <<kind, current, page, seen, found, account, ready, past, faults, edits>>

Make(c) == account' = [account EXCEPT ![mem[c].key] = IF Live(mem[c].key) THEN @ ELSE c]

(* The POST; only the cost centers take "already exists" for success. *)
Create(c) ==
    /\ pc[c] = "create" /\ ready[c]
    /\ Make(c)
    /\ \E e \in ExistsAs :
          mem' = [mem EXCEPT ![c] =
                    IF Live(mem[c].key) /\ (kind = "User" \/ ~IsAlreadyExists(e))
                    THEN [mem[c] EXCEPT !.creation = "failed"]
                    ELSE [mem[c] EXCEPT !.extName = mem[c].key, !.creation = "succeeded"]]
    /\ Goto(c, "record")
    /\ UNCHANGED <<kind, cr, current, page, seen, found, ready, past, faults, edits>>

(* resolveGroups: a group that is not there, or tells no identifier yet, ends
   the creation before it is sent.                                         *)
ResolveFails(c) ==
    /\ pc[c] = "create" /\ ~ready[c]
    /\ mem' = [mem EXCEPT ![c].creation = "failed"]
    /\ Goto(c, "record")
    /\ UNCHANGED <<kind, cr, current, page, seen, found, account, ready, past, faults, edits>>

(* The POST breaks, before or after it is executed. *)
CreateFails(c) ==
    /\ pc[c] = "create" /\ ready[c]
    /\ Fault
    /\ Make(c) \/ UNCHANGED account
    /\ mem' = [mem EXCEPT ![c].creation = "failed"]
    /\ Goto(c, "record")
    /\ UNCHANGED <<kind, cr, current, page, seen, found, ready, past, edits>>

(* The outcome and the external name are written whatever the version. *)
RecordCreate(c) ==
    /\ pc[c] = "record" /\ cr[c] # Gone
    /\ cr' = [cr EXCEPT ![c] = [cr[c] EXCEPT !.extName = mem[c].extName,
                                             !.creation = mem[c].creation]]
    /\ Finish(c)
    /\ UNCHANGED <<kind, account, ready, past, faults, edits>>

(* Mutant: Delete forgets to call the server. *)
DeleteNothing(c) ==
    /\ pc[c] = "delete"
    /\ Finish(c)
    /\ UNCHANGED <<kind, cr, account, ready, past, faults, edits>>

(* DELETE by external name; 404 is success, and metadata.name is no key. *)
Delete(c) ==
    /\ pc[c] = "delete"
    /\ IF mem[c].extName \in Keys THEN Remove(mem[c].extName)
       ELSE UNCHANGED <<account, shrunk>>
    /\ Finish(c)
    /\ UNCHANGED <<kind, cr, ready, moved, faults, edits>>

RemoveFinalizer(c) ==
    /\ pc[c] = "unfinalize" /\ CurrentVersion(c)
    /\ cr' = [cr EXCEPT ![c] = Gone]
    /\ Finish(c)
    /\ UNCHANGED <<kind, account, ready, past, faults, edits>>

LoseUpdate(c) ==
    /\ pc[c] \in {"finalize", "pend", "unfinalize"} /\ ~CurrentVersion(c)
    /\ Finish(c)
    /\ UNCHANGED <<kind, cr, account, ready, past, faults, edits>>

(* A call fails without effect, or the process dies at this point. *)
Interrupted(c) ==
    /\ pc[c] # "idle"
    /\ Fault
    /\ Finish(c)
    /\ UNCHANGED <<kind, cr, account, ready, past, edits>>

-----------------------------------------------------------------------------
(* The surroundings.                                                       *)

Edit == edits < MaxEdits /\ edits' = edits + 1

(* The key of a resource that is being deleted can be edited as well. *)
UserEdits(c) ==
    /\ cr[c] # Gone
    /\ Edit
    /\ \E k \in EditableTo[c] \ {cr[c].key} :
          cr' = [cr EXCEPT ![c] = [cr[c] EXCEPT !.key = k]]
    /\ moved' = moved \cup {c}
    /\ Outdate(c)
    /\ UNCHANGED <<kind, pc, mem, page, seen, found, account, ready, shrunk, faults>>

UserDeletes(c) ==
    /\ cr[c] # Gone /\ ~cr[c].deleting
    /\ cr' = [cr EXCEPT ![c] = IF cr[c].finalizer
                               THEN [cr[c] EXCEPT !.deleting = TRUE]
                               ELSE Gone]
    /\ Outdate(c)
    /\ UNCHANGED <<kind, pc, mem, page, seen, found, account, ready, past, faults, edits>>

AdminDeletes(k) ==
    /\ Live(k) /\ Edit
    /\ Remove(k)
    /\ UNCHANGED <<kind, cr, task, ready, moved, faults>>

(* A Group resource comes to tell its identifier, or is deleted. *)
ReferencesChange(c) ==
    /\ kind = "User" /\ cr[c] # Gone
    /\ ready' = [ready EXCEPT ![c] = ~@]
    /\ IF ready[c] THEN Edit ELSE UNCHANGED edits
    /\ UNCHANGED <<kind, cr, task, account, past, faults>>

-----------------------------------------------------------------------------

Step(c) ==
    \/ Connect(c) \/ ObserveUser(c) \/ ObserveCostCenter(c) \/ AddFinalizer(c)
    \/ AnnounceCreate(c) \/ Create(c) \/ ResolveFails(c) \/ RecordCreate(c) \/ Delete(c)
    \/ RemoveFinalizer(c) \/ LoseUpdate(c)

Next ==
    \/ \E c \in CRs : Step(c) \/ CreateFails(c) \/ Interrupted(c)
                      \/ UserEdits(c) \/ UserDeletes(c) \/ ReferencesChange(c)
    \/ \E k \in Keys : AdminDeletes(k)

Spec == Init /\ [][Next]_vars

(* Every resource is polled and requeued for as long as the process runs. *)
FairSpec == Spec /\ \A c \in CRs : WF_vars(Step(c))

-----------------------------------------------------------------------------
(* Properties.                                                             *)

MadeBy(c) == {k \in Keys : account[k] = c}

(* A resource that left the cluster left no object it made. *)
NoOrphans == \A c \in CRs : cr[c] = Gone => MadeBy(c) = {}

(* Two things excuse an orphan: its key was edited, or the listing that found
   it absent was cut anew half-way.  Failures, lost replies and crashes do
   not: the key finds the object again.                                    *)
CleanTeardown == \A c \in CRs \ (moved \cup shrunk) : cr[c] = Gone => MadeBy(c) = {}

(* The accounts a User resource answers for, while its key stays what it was. *)
Claimed(c) == IF kind = "User" /\ c \notin moved THEN MadeBy(c) ELSE {}

Abstract == INSTANCE Ownership WITH Ids <- Keys,
                                    owned <- [c \in CRs |-> Claimed(c)],
                                    retired <- {c \in CRs : cr[c] = Gone}

(* Users keep the promise of the kinds whose identifiers the server hands out,
   lost replies or not: a resource makes an object only when it has none, takes
   none over from another, and leaves the cluster when it has none.  Cost
   centers do not: a listing cut anew misses one.                          *)
OwnershipKept == Abstract!OSpec

(* The provider deletes an object only on behalf of a resource that is being
   deleted and whose spec names the object, whoever made it; or named it when
   the reconcile began, if it has been edited since.                       *)
DeletesOnlyNamed ==
    [][\A k \in Keys : Live(k) /\ account'[k] = NoRecord /\ edits' = edits
         => \E c \in CRs : /\ cr[c] # Gone /\ cr[c].deleting
                           /\ k = IF current[c] THEN cr[c].key ELSE mem[c].key]_vars

Wedged(c) == cr[c] # Gone /\ CreateIncomplete(cr[c]) /\ pc[c] \notin {"create", "record"}

(* Another resource that is there to stay has the key too: it makes the object
   again whenever the deletion of this one has removed it, for as long as they
   take turns.                                                             *)
Shared(c) ==
    /\ cr[c] # Gone
    /\ \E d \in CRs \ {c} : cr[d] # Gone /\ cr[d].key = cr[c].key /\ cr[d].deleting # cr[c].deleting

(* A deleted resource leaves the cluster, whatever the listings miss and
   whatever becomes of the groups it refers to.                            *)
Teardown ==
    \A c \in CRs :
        <>[]~Shared(c) => ((cr[c] # Gone /\ cr[c].deleting) ~> (cr[c] = Gone \/ Wedged(c)))

(* An object deleted in the console, or by another resource of its key, or
   never made because a call failed or a group was not there, is made good; a
   listing that misses one does no harm, for "already exists" is the answer to
   the creation it leads to.                                               *)
DriftCorrected ==
    \A c \in CRs :
        <>[](ready[c] /\ ~Shared(c)) =>
            <>[](cr[c] = Gone \/ cr[c].deleting \/ Wedged(c) \/ Live(cr[c].key))
=============================================================================
