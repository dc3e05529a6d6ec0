------------------------------ MODULE HostEntity ------------------------------
(***************************************************************************)
(* internal/controller/host/entity, with what it takes for any controller  *)
(* of this provider to reach Dynatrace: its gate, the ClusterProviderConfig *)
(* and the Secret.  A HostEntity makes nothing: its status tells which     *)
(* entity of the environment a name or a pattern selects.                  *)
(*                                                                         *)
(* One replica and one resource.  The reconciler of configurations is      *)
(* crossplane-runtime's, which lets a configuration go when no usage       *)
(* record refers to it.                                                    *)
(***************************************************************************)
EXTENDS Configuration, Naturals, Sequences, SequencesExt

CONSTANTS
    Ids, Types, Letters, Tags,
    Star,          \* the wildcard
    NoEntity,      \* no entity in the status
    InitialSpecs,  \* what a user may apply
    EditableTo,    \* what a user may edit it to
    Inventories,   \* what the environment may hold, in the order it is listed
    InitialConfigs,
    ConfigChoices, \* configurations a user may write
    SecretChoices, \* contents a user may give the Secret
    MaxFaults,     \* bound on failed calls, failed setups and crashes
    MaxMoves,      \* bound on changes in the environment
    MaxEdits       \* bound on what users write

(* A name or pattern is a sequence, so that its last letter can be told. *)
Names    == Seq(Letters \cup {Star})
Entities == [id : Ids, type : Types, name : Seq(Letters), tags : Tags]
Specs    == [type : Types \cup {Empty}, name : Names, ref : Configs \cup {Empty}]
CRStates == [spec      : Specs,
             extName   : Ids \cup {NoEntity},
             entity    : Entities \cup {NoEntity},
             ready     : {"unset", "available", "ambiguous", "unavailable"},
             finalizer : BOOLEAN,
             deleting  : BOOLEAN,
             rv        : Nat]
Controllers == {"config", "host"}
Phases      == {"idle", "observe", "finalize", "status", "unfinalize"}

ASSUME HostAssumption ==
    /\ Star \notin Letters /\ "HOST" \in Types /\ Empty \notin Types
    /\ NoEntity \notin Ids \cup Entities /\ Gone \notin CRStates
    /\ InitialSpecs \subseteq Specs /\ EditableTo \subseteq Specs
    /\ Inventories \subseteq Seq(Entities)
    /\ InitialConfigs \subseteq [Configs -> ConfigChoices \cup {Gone}]
    /\ ConfigChoices \subseteq ConfigStates /\ SecretChoices \subseteq SecretStates
    /\ \A c \in ConfigChoices : ~c.finalizer /\ ~c.deleting
    /\ MaxFaults \in Nat /\ MaxMoves \in Nat /\ MaxEdits \in Nat

VARIABLES
    cr,        \* the API server's copy of the resource
    pc, mem,   \* the step of the reconcile and the object in its memory
    client,    \* the client of the reconcile
    gate,      \* per controller: waiting for its CRD, running, or not set up
    configs, secret,
    entities,  \* what the environment holds, in the order it is listed
    accepted,  \* tokens and pairs the server lets in
    faults, moves, edits

world == <<entities, accepted, moves>>
users == <<configs, secret, edits>>
vars  == <<cr, pc, mem, client, gate, users, world, faults>>

TypeOK ==
    /\ cr \in CRStates \cup {Gone} /\ mem \in CRStates \cup {Gone}
    /\ pc \in Phases /\ client \in Credentials \cup {NoClient}
    /\ gate \in [Controllers -> {"closed", "open", "failed"}]
    /\ configs \in [Configs -> ConfigStates \cup {Gone}] /\ secret \in SecretStates \cup {Gone}
    /\ entities \in Seq(Entities) /\ accepted \subseteq Tokens \cup Pairs
    /\ faults \in 0 .. MaxFaults /\ moves \in 0 .. MaxMoves /\ edits \in 0 .. MaxEdits

Init ==
    /\ \E s \in InitialSpecs :
          cr = [spec |-> s, extName |-> NoEntity, entity |-> NoEntity, ready |-> "unset",
                finalizer |-> FALSE, deleting |-> FALSE, rv |-> 0]
    /\ pc = "idle" /\ mem = Gone /\ client = NoClient
    /\ gate = [k \in Controllers |-> "closed"]
    /\ configs \in InitialConfigs
    /\ secret \in SecretChoices
    /\ entities \in Inventories /\ accepted = Tokens \cup Pairs
    /\ faults = 0 /\ moves = 0 /\ edits = 0

-----------------------------------------------------------------------------

Fault == faults < MaxFaults /\ faults' = faults + 1

Finish == pc' = "idle" /\ mem' = Gone /\ client' = NoClient

CurrentVersion == cr # Gone /\ cr.rv = mem.rv

(* A CRD is there: the controller that waited for it is set up.  An error of
   the set-up is logged and nothing else: the gate calls back once.         *)
Establish(k) ==
    /\ gate[k] = "closed"
    /\ \/ gate' = [gate EXCEPT ![k] = "open"] /\ UNCHANGED faults
       \/ gate' = [gate EXCEPT ![k] = "failed"] /\ Fault
    /\ UNCHANGED <<cr, pc, mem, client, users, world>>

(* Every reconcile, of a deleted resource too, begins with a client of its own. *)
Connect ==
    LET c == GetClient(configs, secret, cr.spec.ref) IN
    /\ gate["host"] = "open" /\ pc = "idle" /\ cr # Gone
    /\ c # NoClient
    /\ mem' = cr /\ client' = c /\ pc' = "observe"
    /\ UNCHANGED <<cr, gate, users, world, faults>>

EntityType(spec) == IF spec.type = Empty THEN "HOST" ELSE spec.type

(* The entity selector: everything, a prefix, or an equal name. *)
Selects(spec, e) ==
    /\ e.type = EntityType(spec)
    /\ \/ spec.name = <<Star>>
       \/ Len(spec.name) > 1 /\ Last(spec.name) = Star /\ IsPrefix(Front(spec.name), e.name)
       \/ e.name = spec.name

(* The places in the reply of the entities it selects, and the first of them. *)
Selected(spec) == {i \in DOMAIN entities : Selects(spec, entities[i])}

FirstOf(found) == entities[Min(found)]

Verdict(found) == CASE found = {}             -> "unavailable"
                    [] Cardinality(found) = 1 -> "available"
                    [] OTHER                  -> "ambiguous"

(* Mutant: the item of the reply takes the place of its identifier. *)
LookupItem(m) ==
    LET found == Selected(m.spec) IN
    IF found = {}
    THEN [m EXCEPT !.entity = NoEntity, !.ready = Verdict(found)]
    ELSE [m EXCEPT !.entity = FirstOf(found), !.ready = Verdict(found), !.extName = FirstOf(found)]

(* LookupHostEntity and what Observe writes into the resource in memory.  The
   external name stays when nothing is found.                              *)
Lookup(m) ==
    LET found == Selected(m.spec) IN
    IF found = {}
    THEN [m EXCEPT !.entity = NoEntity, !.ready = Verdict(found)]
    ELSE [m EXCEPT !.entity = FirstOf(found), !.ready = Verdict(found), !.extName = FirstOf(found).id]

(* Present and current, whatever was found: the loop goes on to the finalizer
   and the status, and never calls Create or Update.                       *)
Observed(m) == mem' = m /\ pc' = IF m.finalizer THEN "status" ELSE "finalize"

(* Mutant: a deleted resource is looked up like any other. *)
ObserveAlike ==
    /\ pc = "observe"
    /\ \/ mem.spec.name = << >> /\ Observed(mem)
       \/ mem.spec.name # << >> /\ EnvRequestPasses(client, accepted) /\ Observed(Lookup(mem))
    /\ UNCHANGED <<cr, client, gate, users, world, faults>>

(* A deleted resource is absent without asking Dynatrace; one without a name
   is left as it was.                                                      *)
Observe ==
    /\ pc = "observe"
    /\ \/ mem.deleting /\ pc' = "unfinalize" /\ UNCHANGED mem
       \/ ~mem.deleting /\ mem.spec.name = << >> /\ Observed(mem)
       \/ /\ ~mem.deleting /\ mem.spec.name # << >>
          /\ EnvRequestPasses(client, accepted)
          /\ Observed(Lookup(mem))
    /\ UNCHANGED <<cr, client, gate, users, world, faults>>

(* Every credential at hand is refused, or the environment is not given. *)
LookupFails ==
    /\ pc = "observe" /\ ~mem.deleting /\ mem.spec.name # << >>
    /\ ~EnvRequestPasses(client, accepted)
    /\ Finish
    /\ UNCHANGED <<cr, gate, users, world, faults>>

(* An update of the object stores its metadata only.  The reply is decoded over
   the object in memory: the entity is not yet in the stored status and stays,
   the conditions go if any is stored, and are written with the next poll.  *)
AddFinalizer ==
    /\ pc = "finalize" /\ CurrentVersion
    /\ cr' = [cr EXCEPT !.extName = mem.extName, !.finalizer = TRUE, !.rv = @ + 1]
    /\ \E r \in {cr.ready, mem.ready} : mem' = [cr' EXCEPT !.entity = mem.entity, !.ready = r]
    /\ pc' = "status"
    /\ UNCHANGED <<client, gate, users, world, faults>>

(* Mutant: the status is written whatever the version. *)
ForceStatus ==
    LET next == [cr EXCEPT !.entity = mem.entity, !.ready = mem.ready] IN
    /\ pc = "status" /\ cr # Gone
    /\ cr' = IF next = cr THEN cr ELSE [next EXCEPT !.rv = @ + 1]
    /\ Finish
    /\ UNCHANGED <<gate, users, world, faults>>

(* A status update stores no annotation; one that changes nothing keeps the version. *)
WriteStatus ==
    LET next == [cr EXCEPT !.entity = mem.entity, !.ready = mem.ready] IN
    /\ pc = "status" /\ CurrentVersion
    /\ cr' = IF next = cr THEN cr ELSE [next EXCEPT !.rv = @ + 1]
    /\ Finish
    /\ UNCHANGED <<gate, users, world, faults>>

RemoveFinalizer ==
    /\ pc = "unfinalize" /\ CurrentVersion
    /\ cr' = Gone
    /\ Finish
    /\ UNCHANGED <<gate, users, world, faults>>

LoseUpdate ==
    /\ pc \in {"finalize", "status", "unfinalize"} /\ ~CurrentVersion
    /\ Finish
    /\ UNCHANGED <<cr, gate, users, world, faults>>

(* A call fails. *)
Interrupted ==
    /\ pc # "idle" /\ Fault
    /\ Finish
    /\ UNCHANGED <<cr, gate, users, world>>

(* The process dies; a new one waits at its gates again. *)
Restart ==
    /\ Fault
    /\ gate' = [k \in Controllers |-> "closed"]
    /\ Finish
    /\ UNCHANGED <<cr, users, world>>

-----------------------------------------------------------------------------
(* The provider configurations.                                            *)

(* No code of the provider writes a usage record. *)
Usages(c) == {}

(* crossplane-runtime's reconciler of provider configurations. *)
ReconcileConfig(c) ==
    /\ gate["config"] = "open" /\ configs[c] # Gone
    /\ \/ /\ ~configs[c].deleting /\ ~configs[c].finalizer
          /\ configs' = [configs EXCEPT ![c].finalizer = TRUE]
       \/ /\ configs[c].deleting /\ Usages(c) = {}
          /\ configs' = [configs EXCEPT ![c] = Gone]
    /\ UNCHANGED <<cr, pc, mem, client, gate, secret, edits, world, faults>>

Edit == edits < MaxEdits /\ edits' = edits + 1

UserConfigures(c) ==
    /\ configs[c] = Gone /\ Edit
    /\ \E choice \in ConfigChoices : configs' = [configs EXCEPT ![c] = choice]
    /\ UNCHANGED <<cr, pc, mem, client, gate, secret, world, faults>>

UserDeletesConfig(c) ==
    /\ configs[c] # Gone /\ ~configs[c].deleting
    /\ Edit
    /\ configs' = [configs EXCEPT ![c] = IF @.finalizer THEN [@ EXCEPT !.deleting = TRUE] ELSE Gone]
    /\ UNCHANGED <<cr, pc, mem, client, gate, secret, world, faults>>

(* The Secret is rewritten, or deleted. *)
UserChangesSecret ==
    /\ Edit
    /\ secret' \in SecretChoices \cup {Gone} /\ secret' # secret
    /\ UNCHANGED <<cr, pc, mem, client, gate, configs, world, faults>>

(* The spec of a resource that is being deleted can be edited as well. *)
UserEdits ==
    /\ cr # Gone /\ Edit
    /\ \E s \in EditableTo \ {cr.spec} : cr' = [cr EXCEPT !.spec = s, !.rv = @ + 1]
    /\ UNCHANGED <<pc, mem, client, gate, configs, secret, world, faults>>

UserDeletes ==
    /\ cr # Gone /\ ~cr.deleting
    /\ cr' = IF cr.finalizer THEN [cr EXCEPT !.deleting = TRUE, !.rv = @ + 1] ELSE Gone
    /\ UNCHANGED <<pc, mem, client, gate, users, world, faults>>

(* Hosts come, go, are tagged anew or listed in another order; a credential
   is revoked.                                                             *)
WorldMoves ==
    /\ moves < MaxMoves /\ moves' = moves + 1
    /\ \/ entities' \in Inventories \ {entities} /\ UNCHANGED accepted
       \/ \E t \in accepted : accepted' = accepted \ {t} /\ UNCHANGED entities
    /\ UNCHANGED <<cr, pc, mem, client, gate, users, faults>>

-----------------------------------------------------------------------------

Step == \/ Connect \/ Observe \/ LookupFails \/ AddFinalizer \/ WriteStatus
        \/ RemoveFinalizer \/ LoseUpdate

Next == \/ Step \/ Interrupted \/ Restart
        \/ \E k \in Controllers : Establish(k)
        \/ \E c \in Configs : ReconcileConfig(c) \/ UserConfigures(c) \/ UserDeletesConfig(c)
        \/ UserChangesSecret \/ UserEdits \/ UserDeletes \/ WorldMoves

Spec == Init /\ [][Next]_vars

(* CRDs are established, and every object is polled and requeued. *)
FairSpec == /\ Spec /\ WF_vars(Step)
            /\ \A k \in Controllers : WF_vars(Establish(k))
            /\ \A c \in Configs : WF_vars(ReconcileConfig(c))

-----------------------------------------------------------------------------
(* Properties.                                                             *)

(* An entity that enters the status is one the spec at that moment selects:
   a lookup for a spec edited meanwhile is thrown away.                    *)
NeverAnother ==
    [][cr # Gone /\ cr' # Gone /\ cr'.entity \notin {cr.entity, NoEntity}
          => Selects(cr'.spec, cr'.entity)]_vars

(* The configuration of the resource leads to a client. *)
Connectable == cr # Gone => GetClient(configs, secret, cr.spec.ref) # NoClient

(* The Secret holds what the documentation asks for, under any convention: an
   environment, and a token that works or OAuth clients, each whole, each working.
   A token that is there and refused stands in the way of an OAuth client. *)
Whole(id, key) == id = key /\ id \in accepted \cup {Empty}

Documented(raw) ==
    /\ raw.dt_env_url # Empty
    /\ \/ {raw.platform_token, raw.dt_platform_token, raw.dt_api_token} \ {Empty} \subseteq accepted
       \/ raw.dt_api_token \in accepted
    /\ \/ {raw.platform_token, raw.dt_platform_token, raw.dt_api_token} # {Empty}
       \/ /\ Whole(raw.iam_client_id, raw.iam_client_secret)
          /\ Whole(raw.dt_client_id, raw.dt_client_secret)
          /\ {raw.iam_client_id, raw.dt_client_id} # {Empty}

Reachable ==
    cr # Gone => /\ Connectable
                 /\ Documented(secret[First(configs[ConfigName(cr.spec.ref)].key, DefaultKey)])

(* The status tells the first entity the spec selects, or that there is none. *)
Told == LET found == Selected(cr.spec) IN
        /\ cr.entity = IF found = {} THEN NoEntity ELSE FirstOf(found)
        /\ cr.ready = Verdict(found)

(* Hosts that come and go, edits, rotated credentials, failed calls and
   restarts end in a status that is true, if the configuration works in the
   end, the controller was set up, and the name was not taken away.        *)
StatusTold ==
    <>[]Reachable =>
        <>[](\/ cr = Gone \/ cr.deleting \/ gate["host"] = "failed"
             \/ cr.spec.name = << >> \/ Told)

(* A deleted resource leaves the cluster even when Dynatrace lets nobody in,
   if its configuration still leads to a client.                           *)
Teardown ==
    <>[]Connectable => (cr # Gone /\ cr.deleting ~> cr = Gone \/ gate["host"] = "failed")
=============================================================================
