--------------------------- MODULE PolicyBindings ---------------------------
(***************************************************************************)
(* internal/controller/iam/policybindingsv2: one custom resource stands    *)
(* for a list of bindings, policy by policy, of one group at one level.    *)
(* Unlike the kinds of NamedResource it has no object of its own in        *)
(* Dynatrace: Create and Update send one PUT per policy and stop at the    *)
(* first error, Delete sends one DELETE per policy and ignores errors, and *)
(* Observe calls the whole list missing when one of it is.  The group, the *)
(* policies and the boundaries are names of other custom resources, which  *)
(* each operation resolves anew to what their status says.                 *)
(*                                                                         *)
(* One replica, whose cache is current when a reconcile starts: the races  *)
(* of replicas and stale caches are NamedResource's.                       *)
(***************************************************************************)
EXTENDS Naturals, Sequences

CONSTANTS
    Policies,
    Groups,       \* identifiers of groups
    NoGroup,      \* there is no group
    Unready,      \* a Group resource that is not there or has no identifier yet
    Bounds,       \* lists of boundaries
    NoBounds,     \* the empty one
    Unbound,      \* no binding
    Gone,         \* a custom resource that left the API server
    InitialSpec,  \* spec.forProvider.policy as applied
    EditableTo,   \* what a user may edit it to
    MissingAs,    \* how the server says that a group has no bindings
    MaxFaults,    \* bound on failed calls and crashes
    MaxConsole,   \* bound on changes in the Dynatrace console
    MaxEdits      \* bound on edits of the spec and deletions of what it refers to

Items == [policy : Policies, bounds : Bounds]

CRStates == [spec      : Seq(Items),
             named     : BOOLEAN,
             creation  : {"none", "pending", "succeeded", "failed"},
             finalizer : BOOLEAN,
             deleting  : BOOLEAN]
Phases == {"idle", "observe", "finalize", "pend", "create", "record",
           "update", "delete", "unfinalize"}

ASSUME BindingsAssumption ==
    /\ Gone \notin CRStates /\ NoGroup \notin Groups /\ Unready \notin Groups
    /\ NoBounds \in Bounds /\ Unbound \notin Bounds
    /\ InitialSpec \in Seq(Items) /\ EditableTo \subseteq Seq(Items)
    /\ MissingAs \subseteq {"404", "empty"}
    /\ MaxFaults \in Nat /\ MaxConsole \in Nat /\ MaxEdits \in Nat

VARIABLES
    cr,        \* the API server's copy
    pc,        \* the call the reconcile makes next
    mem,       \* the object in memory, Gone between reconciles
    current,   \* is it the server's version still?
    obs,       \* what Observe reported
    at,        \* position in the list of policies; 0 before it is resolved
    to,        \* the group the operation resolved its reference to
    group,     \* the group in Dynatrace
    bindings,  \* its bindings
    ref,       \* the identifier the Group resource tells
    ready,     \* do the Policy and PolicyBoundary resources tell theirs?
    made,      \* history: the policies bound by this resource and not unbound
    dropped,   \* history: policies an edit took from the list
    added,     \* history: did an edit add one?
    faults, console, edits

refs == <<group, ref, ready>>
past == <<dropped, added>>
env  == <<bindings, made, refs, past>>
vars == <<cr, pc, mem, current, obs, at, to, env, faults, console, edits>>

TypeOK ==
    /\ cr \in CRStates \cup {Gone} /\ mem \in CRStates \cup {Gone}
    /\ current \in BOOLEAN /\ pc \in Phases /\ obs \in {"absent", "stale", "current"} /\ at \in Nat
    /\ bindings \in [Policies -> Bounds \cup {Unbound}]
    /\ to \in Groups \cup {NoGroup} /\ group \in Groups \cup {NoGroup}
    /\ ref \in Groups \cup {Unready} /\ ready \in BOOLEAN
    /\ made \in SUBSET Policies /\ dropped \in SUBSET Policies /\ added \in BOOLEAN
    /\ faults \in 0 .. MaxFaults /\ console \in 0 .. MaxConsole /\ edits \in 0 .. MaxEdits

Init ==
    /\ cr = [spec |-> InitialSpec, named |-> FALSE, creation |-> "none",
             finalizer |-> FALSE, deleting |-> FALSE]
    /\ pc = "idle" /\ mem = Gone /\ current = TRUE /\ obs = "absent" /\ at = 0 /\ to = NoGroup
    /\ \/ /\ ref = Unready /\ group = NoGroup /\ bindings = [p \in Policies |-> Unbound]
       \/ /\ group \in Groups /\ ref = group
          /\ bindings \in [Policies -> {Unbound, NoBounds}]
    /\ ready \in BOOLEAN /\ made = {} /\ dropped = {} /\ added = FALSE
    /\ faults = 0 /\ console = 0 /\ edits = 0

-----------------------------------------------------------------------------

Bound(p) == bindings[p] # Unbound

Listed(spec) == {spec[i].policy : i \in DOMAIN spec}

Fault == faults < MaxFaults /\ faults' = faults + 1

Finish == /\ pc' = "idle" /\ mem' = Gone /\ current' = TRUE
          /\ obs' = "absent" /\ at' = 0 /\ to' = NoGroup

CurrentVersion == cr # Gone /\ current

(* A user's write makes the object in memory a former version. *)
Outdate == current' = (pc = "idle")

CreateIncomplete(m) == m.creation = "pending"

(* resolveGroup and resolvePolicies fail until every reference is ready.  A
   reference that is ready may still tell a group that is no more.         *)
Resolve == ref # Unready /\ ready

Connect ==
    /\ pc = "idle" /\ cr # Gone /\ ~CreateIncomplete(cr)
    /\ mem' = cr /\ pc' = "observe"
    /\ UNCHANGED <<cr, current, obs, at, to, env, faults, console, edits>>

(* Mutant: boundaries are not compared. *)
PoliciesOnly(spec) == TRUE

(* An item that lists no boundaries matches any. *)
UpToDate(spec) ==
    \A i \in DOMAIN spec : spec[i].bounds = NoBounds \/ spec[i].bounds = bindings[spec[i].policy]

(* Mutant: a resource being deleted is treated like any other. *)
MissingUnlessNamed(m, reply) == reply = "empty" \/ ~m.named

(* No bindings at all is absence, unless the server answers 404 and the
   resource has an external name: then it counts as present and current.   *)
Missing(m, reply) == reply = "empty" \/ m.deleting \/ ~m.named

(* What Observe may report, asking for the group of the reference.  One policy
   missing is the whole list missing.                                      *)
Observations(m) ==
    IF ref # group \/ \A p \in Policies : ~Bound(p)
    THEN {IF Missing(m, reply) THEN "absent" ELSE "current" : reply \in MissingAs}
    ELSE IF \E i \in DOMAIN m.spec : ~Bound(m.spec[i].policy) THEN {"absent"}
    ELSE {IF UpToDate(m.spec) THEN "current" ELSE "stale"}

AfterFinalizer(o) == CASE o = "absent" -> "pend" [] o = "stale" -> "update"
                       [] OTHER -> "idle"

Observe ==
    /\ pc = "observe" /\ Resolve
    /\ \E o \in Observations(mem) :
          LET m == [mem EXCEPT !.named = @ \/ o # "absent"] IN
          IF m.finalizer /\ ~m.deleting /\ o = "current" THEN Finish
          ELSE /\ mem' = m /\ obs' = o /\ UNCHANGED <<current, at, to>>
               /\ pc' = CASE m.deleting -> IF o = "absent" THEN "unfinalize" ELSE "delete"
                          [] ~m.deleting /\ ~m.finalizer -> "finalize"
                          [] OTHER -> AfterFinalizer(o)
    /\ UNCHANGED <<cr, env, faults, console, edits>>

AddFinalizer ==
    LET m == [mem EXCEPT !.finalizer = TRUE] IN
    /\ pc = "finalize" /\ CurrentVersion
    /\ cr' = m
    /\ IF obs = "current" THEN Finish
       ELSE mem' = m /\ pc' = AfterFinalizer(obs) /\ UNCHANGED <<current, obs, at, to>>
    /\ UNCHANGED <<env, faults, console, edits>>

AnnounceCreate ==
    LET m == [mem EXCEPT !.creation = "pending"] IN
    /\ pc = "pend" /\ CurrentVersion
    /\ cr' = m /\ mem' = m /\ pc' = "create"
    /\ UNCHANGED <<current, obs, at, to, env, faults, console, edits>>

(* Create, Update and Delete resolve the references again, once. *)
Begin ==
    /\ pc \in {"create", "update", "delete"} /\ at = 0 /\ Resolve
    /\ at' = 1 /\ to' = ref
    /\ UNCHANGED <<cr, pc, mem, current, obs, env, faults, console, edits>>

(* A creation that fails is recorded as failed; other calls just end. *)
GiveUp ==
    IF pc = "create"
    THEN mem' = [mem EXCEPT !.creation = "failed"] /\ pc' = "record" /\ UNCHANGED <<current, obs, at, to>>
    ELSE Finish

(* Any of the three calls of resolve ends the operation with its error. *)
ResolveFails ==
    /\ \/ pc = "observe"
       \/ pc \in {"create", "update", "delete"} /\ at = 0
    /\ ~Resolve
    /\ GiveUp
    /\ UNCHANGED <<cr, env, faults, console, edits>>

InList == at \in DOMAIN mem.spec

(* Mutant: the whole item is stored where its boundaries belong. *)
PutItem == /\ bindings' = [bindings EXCEPT ![mem.spec[at].policy] = mem.spec[at]]
           /\ made' = made \cup {mem.spec[at].policy}

Put == /\ bindings' = [bindings EXCEPT ![mem.spec[at].policy] = mem.spec[at].bounds]
       /\ made' = made \cup {mem.spec[at].policy}

(* The next PUT of the list. *)
SetNext ==
    /\ pc \in {"create", "update"} /\ InList /\ to = group
    /\ Put
    /\ at' = at + 1
    /\ UNCHANGED <<cr, pc, mem, current, obs, to, refs, past, faults, console, edits>>

(* The first error ends the loop: the group is no more. *)
SetRefused ==
    /\ pc \in {"create", "update"} /\ InList /\ to # group
    /\ GiveUp
    /\ UNCHANGED <<cr, env, faults, console, edits>>

(* Or the call fails; the PUT may have been executed. *)
SetFails ==
    /\ pc \in {"create", "update"} /\ InList /\ to = group
    /\ Fault
    /\ Put \/ UNCHANGED <<bindings, made>>
    /\ GiveUp
    /\ UNCHANGED <<cr, refs, past, console, edits>>

AllSet ==
    /\ pc \in {"create", "update"} /\ at > Len(mem.spec)
    /\ IF pc = "update" THEN Finish
       ELSE /\ mem' = [mem EXCEPT !.named = TRUE, !.creation = "succeeded"]
            /\ pc' = "record" /\ UNCHANGED <<current, obs, at, to>>
    /\ UNCHANGED <<cr, env, faults, console, edits>>

(* The outcome and the external name are written whatever the version. *)
RecordCreate ==
    /\ pc = "record" /\ cr # Gone
    /\ cr' = [cr EXCEPT !.named = mem.named, !.creation = mem.creation]
    /\ Finish
    /\ UNCHANGED <<env, faults, console, edits>>

(* Mutant: Delete unbinds the first policy and returns. *)
UnsetFirst ==
    /\ pc = "delete" /\ InList
    /\ bindings' = [bindings EXCEPT ![mem.spec[at].policy] = Unbound]
    /\ made' = made \ {mem.spec[at].policy}
    /\ at' = Len(mem.spec) + 1
    /\ UNCHANGED <<cr, pc, mem, current, obs, to, refs, past, faults, console, edits>>

(* Mutant: Delete unbinds whatever the group has. *)
UnsetAll ==
    /\ pc = "delete" /\ InList
    /\ bindings' = [p \in Policies |-> Unbound]
    /\ made' = {}
    /\ at' = Len(mem.spec) + 1
    /\ UNCHANGED <<cr, pc, mem, current, obs, to, refs, past, faults, console, edits>>

(* DELETE of one binding; an error is ignored and the loop goes on. *)
UnsetNext ==
    /\ pc = "delete" /\ InList
    /\ \/ /\ to = group
          /\ bindings' = [bindings EXCEPT ![mem.spec[at].policy] = Unbound]
          /\ made' = made \ {mem.spec[at].policy}
          /\ UNCHANGED faults
       \/ to # group /\ UNCHANGED <<bindings, made, faults>>
       \/ Fault /\ UNCHANGED <<bindings, made>>
    /\ at' = at + 1
    /\ UNCHANGED <<cr, pc, mem, current, obs, to, refs, past, console, edits>>

AllUnset ==
    /\ pc = "delete" /\ at > Len(mem.spec)
    /\ Finish
    /\ UNCHANGED <<cr, env, faults, console, edits>>

RemoveFinalizer ==
    /\ pc = "unfinalize" /\ CurrentVersion
    /\ cr' = Gone
    /\ Finish
    /\ UNCHANGED <<env, faults, console, edits>>

LoseUpdate ==
    /\ pc \in {"finalize", "pend", "unfinalize"} /\ ~CurrentVersion
    /\ Finish
    /\ UNCHANGED <<cr, env, faults, console, edits>>

(* The GET or a call to the API server fails, or the process dies; a new one
   starts from the API server's copy.                                      *)
Interrupted ==
    /\ pc # "idle"
    /\ Fault
    /\ Finish
    /\ UNCHANGED <<cr, env, console, edits>>

-----------------------------------------------------------------------------
(* The surroundings.                                                       *)

(* The spec of a resource that is being deleted can be edited as well. *)
UserEdits ==
    /\ cr # Gone
    /\ edits < MaxEdits /\ edits' = edits + 1
    /\ Outdate
    /\ \E s \in EditableTo \ {cr.spec} :
          /\ cr' = [cr EXCEPT !.spec = s]
          /\ dropped' = dropped \cup (Listed(cr.spec) \ Listed(s))
          /\ added' = (added \/ ~(Listed(s) \subseteq Listed(cr.spec)))
    /\ UNCHANGED <<pc, mem, obs, at, to, bindings, made, refs, faults, console>>

UserDeletes ==
    /\ cr # Gone /\ ~cr.deleting
    /\ Outdate
    /\ cr' = IF cr.finalizer THEN [cr EXCEPT !.deleting = TRUE] ELSE Gone
    /\ UNCHANGED <<pc, mem, obs, at, to, env, faults, console, edits>>

AdminChanges ==
    /\ group # NoGroup
    /\ console < MaxConsole /\ console' = console + 1
    /\ \E p \in Policies, b \in Bounds \cup {Unbound} :
          bindings' = [bindings EXCEPT ![p] = b]
    /\ UNCHANGED <<cr, pc, mem, current, obs, at, to, made, refs, past, faults, edits>>

(* The bindings of a group go with it. *)
GroupGoes ==
    /\ group # NoGroup /\ group' = NoGroup
    /\ bindings' = [p \in Policies |-> Unbound] /\ made' = {}
    /\ UNCHANGED <<cr, pc, mem, current, obs, at, to, ready, past, faults>>

(* The group is deleted in the console; its resource still tells the old one. *)
AdminDeletesGroup ==
    /\ console < MaxConsole /\ console' = console + 1
    /\ GroupGoes
    /\ UNCHANGED <<ref, edits>>

(* The Group resource is deleted, and the group with it. *)
GroupDeleted ==
    /\ edits < MaxEdits /\ edits' = edits + 1
    /\ GroupGoes
    /\ ref' = Unready
    /\ UNCHANGED console

(* The Group controller makes the group, or makes it anew, under an identifier
   of its own ...                                                          *)
GroupMade ==
    /\ group = NoGroup
    /\ group' \in Groups \ {ref, to}
    /\ UNCHANGED <<cr, pc, mem, current, obs, at, to, bindings, made, ref, ready, past,
                   faults, console, edits>>

(* ... which the status of the resource tells later. *)
GroupTold ==
    /\ group # NoGroup /\ ref # group
    /\ ref' = group
    /\ UNCHANGED <<cr, pc, mem, current, obs, at, to, bindings, made, group, ready, past,
                   faults, console, edits>>

(* A referenced policy or boundary becomes ready, or is deleted. *)
ReferencesChange ==
    /\ ready' = ~ready
    /\ IF ready THEN edits < MaxEdits /\ edits' = edits + 1 ELSE UNCHANGED edits
    /\ UNCHANGED <<cr, pc, mem, current, obs, at, to, bindings, made, group, ref, past,
                   faults, console>>

-----------------------------------------------------------------------------

Step ==
    \/ Connect \/ Observe \/ AddFinalizer \/ AnnounceCreate
    \/ Begin \/ ResolveFails \/ SetNext \/ SetRefused \/ AllSet \/ RecordCreate
    \/ UnsetNext \/ AllUnset \/ RemoveFinalizer \/ LoseUpdate

Next == \/ Step \/ SetFails \/ Interrupted
        \/ UserEdits \/ UserDeletes \/ AdminChanges
        \/ AdminDeletesGroup \/ GroupDeleted \/ GroupMade \/ GroupTold \/ ReferencesChange

Spec == Init /\ [][Next]_vars

(* The resource is polled and requeued for as long as the process runs, and so
   is a Group whose group is there: its status comes to tell it.           *)
FairSpec == Spec /\ WF_vars(Step) /\ WF_vars(GroupTold)

-----------------------------------------------------------------------------
(* Properties.                                                             *)

(* The provider unbinds a policy only on behalf of a resource that is being
   deleted and lists the policy, or listed it until an edit that came between
   two calls of the reconcile, or before.                                  *)
UnbindsOnlyListed ==
    [][\A p \in Policies :
          Bound(p) /\ bindings'[p] = Unbound /\ console' = console /\ group' = group
          => cr # Gone /\ cr.deleting /\ p \in Listed(cr.spec) \cup dropped]_vars

(* A teardown that nothing interrupts leaves no binding behind, at whatever
   point of a creation or an update the user asked for it, and whatever became
   of the group meanwhile.  Policies an edit dropped stay bound; one it added
   and that is not bound yet makes a deleted resource look absent.         *)
CleanTeardown ==
    cr = Gone /\ faults = 0 /\ console = 0 /\ ~added => \A p \in made \ dropped : ~Bound(p)

(* A resource that left the cluster left no binding it made. *)
NothingBound == cr = Gone => \A p \in made : ~Bound(p)

(* A creation announced and never recorded: the reconciler refuses to go on. *)
Wedged == cr # Gone /\ CreateIncomplete(cr) /\ pc \notin {"create", "record"}

(* Every binding was taken away in the console, or went with a group that was
   made anew, and the server answers 404: Observe reports the resource present
   and current.                                                            *)
Forgotten == cr # Gone /\ cr.named /\ "404" \in MissingAs /\ \A p \in Policies : ~Bound(p)

(* A resource being deleted leaves the cluster, if its references resolve, be
   it to a group that is no more.                                          *)
Teardown ==
    <>[]Resolve => (cr # Gone /\ cr.deleting ~> cr = Gone \/ Wedged)

(* The listed policies are bound with the boundaries listed. *)
AsListed ==
    \A i \in DOMAIN cr.spec :
        bindings[cr.spec[i].policy] \in IF cr.spec[i].bounds = NoBounds THEN Bounds
                                        ELSE {cr.spec[i].bounds}

(* Partial creations, failed updates, edits, console changes and groups that
   are made anew are made good: the listed policies end up bound, to the group
   there is.                                                               *)
DriftCorrected ==
    <>[](Resolve /\ ref = group) =>
        <>[](cr = Gone \/ cr.deleting \/ Wedged \/ Forgotten \/ AsListed)

(* A resource being deleted leaves the cluster, in whatever order it and what
   it refers to are deleted.                                               *)
TeardownInAnyOrder ==
    cr # Gone /\ cr.deleting ~> cr = Gone \/ Wedged
=============================================================================
