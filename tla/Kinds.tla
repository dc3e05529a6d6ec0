------------------------------- MODULE Kinds -------------------------------
(***************************************************************************)
(* What the controllers of Group, Policy, PolicyBoundary, ServiceUser and  *)
(* ZoneV2 send of a manifest, what they compare of the object they are     *)
(* shown, and whether the loop of observing and updating comes to rest.    *)
(* The reconcile protocol around it (finalizers, announcements, versions,  *)
(* crashes) is NamedResource's; here one resource is reconciled, again and *)
(* again, while users edit the manifest, move it between the account and   *)
(* an environment, or delete it, and administrators change the object.     *)
(*                                                                         *)
(* Four things about the server are not known from the code, so both       *)
(* possibilities are modelled: whether a listed policy shows its statement *)
(* query, whether a zone without rules is shown with an empty list of      *)
(* them, whether the zone lies beyond the one page that is listed, and     *)
(* whether a second object of a name is refused.                           *)
(***************************************************************************)
EXTENDS Naturals, FiniteSets, ZoneRules

CONSTANTS
    KindsOfRun,   \* the kinds the run is about
    Texts,        \* contents of a description or a list that are not empty
    Queries,      \* policies' statements and boundaries' queries
    ZoneRuleSets, \* the rules a manifest of a zone may have
    NoObject,     \* no object in Dynatrace, none in memory
    MaxFaults,    \* bound on calls that fail
    MaxEdits      \* bound on what users and administrators change

Required == Texts \cup {Empty}
Optional == Required \cup {Unset}

(* spec.forProvider, but for the names and levels, which identify, the groups
   of a service user, which are sent once and never compared, and the
   permissions of a group, which nothing reads.                            *)
GroupParameters == [description : Optional, federatedAttributeValues : Required]

PolicyParameters == [description : Optional, statementQuery : Queries, tags : Required]

PolicyBoundaryParameters == [boundaryQuery : Queries]

ServiceUserParameters == [description : Optional]

ZoneV2Parameters == [description : Optional, rules : ZoneRuleSets]

Parameters(k) ==
    CASE k = "Group" -> GroupParameters
      [] k = "Policy" -> PolicyParameters
      [] k = "PolicyBoundary" -> PolicyBoundaryParameters
      [] k = "ServiceUser" -> ServiceUserParameters
      [] k = "ZoneV2" -> ZoneV2Parameters

(* The body of a POST or a PUT. *)
GroupDto(p) == [p EXCEPT !.description = Stated(@, Empty)]

PolicyDto(p) == [p EXCEPT !.description = Stated(@, Empty)]

ServiceUserDto(p) == [p EXCEPT !.description = Stated(@, Empty)]

ManagementZoneV2Value(p) ==
    [description |-> Stated(p.description, Empty), rules |-> Payload(ToRules(p.rules))]

Sent(k, p) ==
    CASE k = "Group" -> GroupDto(p)
      [] k = "Policy" -> PolicyDto(p)
      [] k = "PolicyBoundary" -> p
      [] k = "ServiceUser" -> ServiceUserDto(p)
      [] k = "ZoneV2" -> ManagementZoneV2Value(p)

Dtos == [k \in KindsOfRun |-> {Sent(k, p) : p \in Parameters(k)}]

Servers(k) == [terse      : IF k = "Policy" THEN BOOLEAN ELSE {FALSE},
               showsLists : IF k = "ZoneV2" THEN BOOLEAN ELSE {TRUE},
               crowded    : IF k = "ZoneV2" THEN BOOLEAN ELSE {FALSE},
               unique     : BOOLEAN]

(* Policies and boundaries belong to the account or to an environment, and are
   looked for, changed and deleted where the manifest says they belong.    *)
Levels(k) == IF k \in {"Policy", "PolicyBoundary"} THEN {"account", "environment"}
             ELSE {"account"}

ASSUME KindsAssumption ==
    /\ KindsOfRun \subseteq {"Group", "Policy", "PolicyBoundary", "ServiceUser", "ZoneV2"}
    /\ Unset \notin Required /\ Empty \notin Texts \cup Values
    /\ ZoneRuleSets \subseteq Seq(Seq(Rules))
    /\ \A k \in KindsOfRun : NoObject \notin Dtos[k] \cup Parameters(k)
    /\ MaxFaults \in Nat /\ MaxEdits \in Nat

VARIABLES
    kind, server,
    spec, level, \* the manifest, and the level it resolves to
    ready,    \* do the groups a service user refers to tell their identifiers?
    deleting, gone,
    known,    \* where the object is that the external name identifies, if any
    objects,  \* per level, the object of the name, as the server holds it
    strays,   \* how many more there are of the name
    pc, mem,  \* the call the reconcile makes next, and the manifest and the
    at,       \* level it read before
    status,   \* status.atProvider.rules of a zone
    forsaken, \* history: how often may the provider have lost sight of an object?
    faults, edits

manifest == <<spec, level, ready, deleting>>
account == <<objects, strays>>
task == <<pc, mem, at, status>>
vars == <<kind, server, manifest, gone, known, account, task, forsaken, faults, edits>>

TypeOK ==
    /\ kind \in KindsOfRun /\ server \in Servers(kind)
    /\ spec \in Parameters(kind) /\ mem \in Parameters(kind) \cup {NoObject}
    /\ level \in Levels(kind) /\ at \in Levels(kind)
    /\ objects \in [Levels(kind) -> Dtos[kind] \cup {NoObject}] /\ strays \in Nat /\ forsaken \in Nat
    /\ known \in Levels(kind) \cup {"none", "outdated"}
    /\ known \in Levels(kind) => objects[known] # NoObject
    /\ kind = "ZoneV2" => /\ status \in Seq(Seq(Rules))
                          /\ \A l \in Levels(kind) : objects[l] # NoObject =>
                                objects[l].rules \in Given(Seq(ZoneRuleDtos))
    /\ pc \in {"observe", "create", "update", "delete"} /\ Len(status) <= 1
    /\ {ready, deleting, gone} \subseteq BOOLEAN
    /\ faults \in 0 .. MaxFaults /\ edits \in 0 .. MaxEdits

Init ==
    /\ kind \in KindsOfRun /\ server \in Servers(kind)
    /\ spec \in Parameters(kind) /\ level = "account"
    /\ ready \in IF kind = "ServiceUser" THEN BOOLEAN ELSE {TRUE}
    /\ deleting = FALSE /\ gone = FALSE /\ known = "none"
    /\ objects = [l \in Levels(kind) |-> NoObject] /\ strays = 0
    /\ pc = "observe" /\ mem = NoObject /\ at = "account" /\ status = <<>>
    /\ forsaken = 0 /\ faults = 0 /\ edits = 0

Copies == Cardinality({l \in Levels(kind) : objects[l] # NoObject}) + strays

-----------------------------------------------------------------------------
(* Observe.                                                                *)

object == objects[level]

(* Mutant: the search by name is left out. *)
FoundKnown == object # NoObject /\ known = level

(* By identifier if there is one, else by name in the one list that is fetched,
   and at the level of the manifest in any case.                           *)
Found == /\ object # NoObject
         /\ known = level \/ (known = "none" /\ ~server.crowded)

(* What the reply holds of the object. *)
Shown ==
    CASE kind = "Policy" /\ server.terse /\ known = "none" -> [object EXCEPT !.statementQuery = Empty]
      [] kind = "ZoneV2" /\ server.showsLists -> [object EXCEPT !.rules = Listed(@)]
      [] OTHER -> object

SameIfStated(x, shown) == x # Unset => x = shown

SameIfShown(x, shown) == x # Empty /\ shown # Empty => x = shown

GroupUpToDate(p, o) ==
    /\ SameIfStated(p.description, o.description)
    /\ p.federatedAttributeValues = o.federatedAttributeValues

(* Mutant: a description that is left out is compared as any other. *)
PolicyUpToDateAlways(p, o) ==
    /\ p.description = o.description
    /\ SameIfShown(p.statementQuery, o.statementQuery)
    /\ p.tags = o.tags

(* Mutant: the tags are forgotten. *)
PolicyUpToDateButTags(p, o) ==
    /\ SameIfStated(p.description, o.description)
    /\ SameIfShown(p.statementQuery, o.statementQuery)

PolicyUpToDate(p, o) ==
    /\ SameIfStated(p.description, o.description)
    /\ SameIfShown(p.statementQuery, o.statementQuery)
    /\ p.tags = o.tags

BoundaryUpToDate(p, o) == SameIfShown(p.boundaryQuery, o.boundaryQuery)

(* The rules are compared as JSON text: an empty list is [], a missing one
   is null.                                                                *)
ZoneUpToDate(p, o) ==
    /\ SameIfStated(p.description, o.description)
    /\ ToRules(p.rules) = o.rules

(* A service user that is there is up to date, and Update does nothing. *)
ServiceUserUpToDate(p, o) == TRUE

UpToDate(p, o) ==
    CASE kind = "Group" -> GroupUpToDate(p, o)
      [] kind = "Policy" -> PolicyUpToDate(p, o)
      [] kind = "PolicyBoundary" -> BoundaryUpToDate(p, o)
      [] kind = "ServiceUser" -> ServiceUserUpToDate(p, o)
      [] kind = "ZoneV2" -> ZoneUpToDate(p, o)

Finish == pc' = "observe" /\ mem' = NoObject /\ at' = "account"

Go(phase) == pc' = phase /\ mem' = spec /\ at' = level

ObserveFound ==
    /\ pc = "observe" /\ ~gone /\ Found
    /\ status' = IF kind = "ZoneV2" THEN ToRulesObservation(Shown.rules) ELSE <<>>
    /\ \/ deleting /\ Go("delete")
       \/ ~deleting /\ UpToDate(spec, Shown) /\ Finish
       \/ ~deleting /\ ~UpToDate(spec, Shown) /\ Go("update")
    /\ UNCHANGED <<kind, server, manifest, gone, known, account, forsaken, faults, edits>>

(* A resource being deleted whose object is not there goes. *)
ObserveAbsent ==
    /\ pc = "observe" /\ ~gone /\ ~Found
    /\ IF deleting THEN gone' = TRUE /\ Finish ELSE Go("create") /\ UNCHANGED gone
    /\ UNCHANGED <<kind, server, manifest, known, account, status, forsaken, faults, edits>>

-----------------------------------------------------------------------------
(* Create, Update and Delete.                                              *)

Fault == faults < MaxFaults /\ faults' = faults + 1

Made == objects' = [objects EXCEPT ![at] = Sent(kind, mem)]

Make == /\ Made
        /\ strays' = IF objects[at] = NoObject THEN strays ELSE strays + 1

Refused == server.unique /\ objects[at] # NoObject

(* The identifier in the reply becomes the external name. *)
Create ==
    /\ pc = "create" /\ ready /\ ~Refused
    /\ Make
    /\ known' = at
    /\ Finish
    /\ UNCHANGED <<kind, server, manifest, gone, status, forsaken, faults, edits>>

CreateRefused ==
    /\ pc = "create" /\ ready /\ Refused
    /\ Finish
    /\ UNCHANGED <<kind, server, manifest, gone, known, account, status, forsaken, faults, edits>>

(* resolveGroups: a group that is not there, or tells no identifier yet, ends
   the creation before it is sent.                                         *)
ResolveFails ==
    /\ pc = "create" /\ ~ready
    /\ Finish
    /\ UNCHANGED <<kind, server, manifest, gone, known, account, status, forsaken, faults, edits>>

(* Mutant: an identifier is recorded whether or not there is an object. *)
CreateFailsUnnoticed ==
    /\ pc = "create" /\ ready /\ ~Refused
    /\ Fault
    /\ Make \/ UNCHANGED account
    /\ known' = at
    /\ Finish
    /\ UNCHANGED <<kind, server, manifest, gone, status, forsaken, edits>>

(* An error, or a reply that is lost or names no object: the search by name finds
   the object then, unless there is an external name or the list is cut.   *)
CreateFails ==
    /\ pc = "create" /\ ready /\ ~Refused
    /\ Fault
    /\ \/ /\ Make
          /\ forsaken' = IF known = "none" /\ ~server.crowded THEN forsaken ELSE forsaken + 1
       \/ UNCHANGED <<account, forsaken>>
    /\ Finish
    /\ UNCHANGED <<kind, server, manifest, gone, known, status, edits>>

(* PUT replaces the object, if it is still there. *)
Update ==
    /\ pc = "update"
    /\ IF objects[at] = NoObject THEN UNCHANGED objects ELSE Made
    /\ Finish
    /\ UNCHANGED <<kind, server, manifest, gone, known, strays, status, forsaken, faults, edits>>

UpdateFails ==
    /\ pc = "update"
    /\ Fault
    /\ UNCHANGED objects \/ (objects[at] # NoObject /\ Made)
    /\ Finish
    /\ UNCHANGED <<kind, server, manifest, gone, known, strays, status, forsaken, edits>>

Vanish(l) ==
    /\ objects' = [objects EXCEPT ![l] = NoObject]
    /\ known' = IF known = l THEN "outdated" ELSE known

(* Mutant: Delete forgets to call the server. *)
DeleteNothing ==
    /\ pc = "delete"
    /\ Finish
    /\ UNCHANGED <<kind, server, manifest, gone, known, account, status, forsaken, faults, edits>>

(* DELETE by identifier; 404 is success. *)
Delete ==
    /\ pc = "delete"
    /\ Vanish(at)
    /\ Finish
    /\ UNCHANGED <<kind, server, manifest, gone, strays, status, forsaken, faults, edits>>

DeleteFails ==
    /\ pc = "delete"
    /\ Fault
    /\ Vanish(at) \/ UNCHANGED <<objects, known>>
    /\ Finish
    /\ UNCHANGED <<kind, server, manifest, gone, strays, status, forsaken, edits>>

-----------------------------------------------------------------------------
(* The surroundings.                                                       *)

Edit == edits < MaxEdits /\ edits' = edits + 1

(* The manifest of a resource that is being deleted can be edited as well. *)
UserEdits ==
    /\ ~gone
    /\ Edit
    /\ spec' \in Parameters(kind) \ {spec}
    /\ UNCHANGED <<kind, server, level, ready, deleting, gone, known, account, task, forsaken, faults>>

UserMoves ==
    /\ ~gone
    /\ Edit
    /\ level' \in Levels(kind) \ {level}
    /\ forsaken' = IF Copies > 0 \/ pc = "create" THEN forsaken + 1 ELSE forsaken
    /\ UNCHANGED <<kind, server, spec, ready, deleting, gone, known, account, task, faults>>

UserDeletes ==
    /\ ~deleting /\ deleting' = TRUE
    /\ UNCHANGED <<kind, server, spec, level, ready, gone, known, account, task, forsaken, faults, edits>>

AdminChanges ==
    /\ ~gone /\ Edit
    /\ \E l \in Levels(kind) :
          /\ objects[l] # NoObject
          /\ \E o \in Dtos[kind] \ {objects[l]} : objects' = [objects EXCEPT ![l] = o]
    /\ UNCHANGED <<kind, server, manifest, gone, known, strays, task, forsaken, faults>>

AdminDeletes ==
    /\ ~gone /\ Edit
    /\ \E l \in Levels(kind) : objects[l] # NoObject /\ Vanish(l)
    /\ UNCHANGED <<kind, server, manifest, gone, strays, task, forsaken, faults>>

(* A Group resource comes to tell its identifier, or is deleted. *)
ReferencesChange ==
    /\ kind = "ServiceUser" /\ ~gone
    /\ ready' = ~ready
    /\ IF ready THEN Edit ELSE UNCHANGED edits
    /\ UNCHANGED <<kind, server, spec, level, deleting, gone, known, account, task, forsaken, faults>>

Step == \/ ObserveFound \/ ObserveAbsent
        \/ Create \/ CreateRefused \/ ResolveFails \/ Update \/ Delete

Next == \/ Step \/ CreateFails \/ UpdateFails \/ DeleteFails
        \/ UserEdits \/ UserMoves \/ UserDeletes
        \/ AdminChanges \/ AdminDeletes \/ ReferencesChange

Spec == Init /\ [][Next]_vars

(* The resource is polled for as long as the provider runs. *)
FairSpec == Spec /\ WF_vars(Step)

-----------------------------------------------------------------------------
(* Properties.                                                             *)

(* The statement of a policy known by its name only is never looked at. *)
Unseen == kind = "Policy" /\ server.terse /\ known = "none"

(* What the manifest states and the provider manages is what the object has.
   A query emptied in the console passes for one that was not shown.       *)
Agrees ==
    CASE kind = "Group" ->
           /\ spec.description \in {Unset, object.description}
           /\ spec.federatedAttributeValues = object.federatedAttributeValues
      [] kind = "Policy" ->
           /\ spec.description \in {Unset, object.description}
           /\ spec.tags = object.tags
           /\ Unseen \/ Empty \in {spec.statementQuery, object.statementQuery}
                     \/ spec.statementQuery = object.statementQuery
      [] kind = "PolicyBoundary" ->
           \/ Empty \in {spec.boundaryQuery, object.boundaryQuery}
           \/ spec.boundaryQuery = object.boundaryQuery
      [] kind = "ServiceUser" -> TRUE
      [] kind = "ZoneV2" ->
           /\ spec.description \in {Unset, object.description}
           /\ Listed(object.rules) = ToRules(spec.rules)

(* There is an object of the name that the provider does not find, and the
   server refuses another.                                                 *)
Blocked == server.unique /\ object # NoObject /\ ~Found

(* Once the manifest, the object and the network are left alone, the object
   is what the manifest states, and stays so.                              *)
DriftCorrected ==
    <>[]ready => <>[](deleting \/ Blocked \/ (object # NoObject /\ Agrees))

(* A zone without rules, or with groups of none, on a server that shows it
   without a list of them: [] is compared with null.                       *)
Churns == kind = "ZoneV2" /\ ~server.showsLists /\ ToRules(spec.rules) = <<>>

(* The provider comes to rest: what an update wrote is up to date when it is
   read back, whatever the manifest left out.                              *)
Settles == <>[]ready => <>[](pc = "observe" \/ Churns \/ Blocked)

(* There is one object for a resource, and none once it is gone, but for those
   the provider lost sight of: an edit of the level leaves one behind at most,
   and so does a lost reply to a creation, if a former external name or the one
   page that is listed keeps the search by name from finding the object.  No
   other lost reply, console deletion, interrupted update or edit adds one. *)
OneObject == Copies <= (IF gone THEN 0 ELSE 1) + forsaken

(* A deleted resource goes, whatever was deleted, moved or lost before. *)
Teardown == deleting ~> gone

(* The status of a zone, taken for a manifest, is the zone it describes: the
   conversion there and the conversion back lose nothing.                  *)
StatusIsFaithful ==
    [][ObserveFound /\ kind = "ZoneV2" => ToRules(status') = Listed(object.rules)]_vars
=============================================================================
