-------------------------- MODULE NamedResourceInv --------------------------
(***************************************************************************)
(* The inductive invariants of NamedResource: model-checked by             *)
(* MCNamedResource, proved in NamedResource_proofs.                        *)
(***************************************************************************)
EXTENDS NamedResource

(* A copy is never ahead of the API server. *)
NotAhead(x, c) == cr[c] # Gone => x.rv <= cr[c].rv

(* A cached copy of the server's version is the server's object. *)
CacheCoherent ==
    \A t \in Tasks : cache[t] # Gone =>
        /\ NotAhead(cache[t], t[2])
        /\ cr[t[2]] # Gone /\ cache[t].rv = cr[t[2]].rv => cache[t] = cr[t[2]]

(* So is the object in memory, but for the external name Observe wrote. *)
MemoryCoherent ==
    \A t \in Tasks : pc[t] # "idle" =>
        /\ mem[t] # Gone
        /\ NotAhead(mem[t], t[2])
        /\ pc[t] # "record" /\ CurrentVersion(t) =>
              /\ mem[t].creation = cr[t[2]].creation
              /\ mem[t].finalizer = cr[t[2]].finalizer
              /\ pc[t] = "observe" => mem[t].extName = cr[t[2]].extName

(* What a task has already established when it reaches a phase. *)
PhaseFacts ==
    \A t \in Tasks :
        /\ pc[t] \notin {"idle", "create", "record"} => mem[t].creation # "pending"
        /\ pc[t] = "finalize" => ~mem[t].finalizer
        /\ pc[t] = "pend" => mem[t].finalizer

(* The announcement on the server is the lock of the creating task. *)
CreationLock ==
    \A t \in Tasks : Creating(t) =>
        /\ cr[t[2]] # Gone
        /\ cr[t[2]].creation = "pending"
        /\ cr[t[2]].finalizer

(* CreateExclusive is not inductive as it stands: two tasks could announce
   from copies of one version.  The announcement moves the version on, and
   every copy of the new version shows it.                                 *)
LockInv == /\ TypeOK /\ CacheCoherent /\ MemoryCoherent
           /\ PhaseFacts /\ CreationLock /\ CreateExclusive

(* Observe found nothing, and nothing has changed on the server since. *)
SawNothing(t) ==
    /\ \/ pc[t] \in {"pend", "unfinalize"}
       \/ pc[t] = "finalize" /\ obs[t] = "absent"
    /\ CurrentVersion(t)

(* What a resource owns is what its external name identifies, except while
   its creation is announced: then the creating task knows.                *)
OwnershipTracked ==
    \A c \in CRs :
        /\ \A i, j \in Owned(c) : i = j
        /\ cr[c] = Gone => Owned(c) = {}
        /\ cr[c] # Gone /\ ~cr[c].finalizer => Owned(c) = {}
        /\ cr[c] # Gone /\ cr[c].creation # "pending" => Owned(c) \subseteq {cr[c].extName}

TasksKnow ==
    \A t \in Tasks :
        /\ pc[t] = "create" \/ SawNothing(t) => Owned(t[2]) = {}
        /\ pc[t] = "record" =>
              Owned(t[2]) \subseteq IF mem[t].creation = "succeeded"
                                    THEN {mem[t].extName} ELSE {}

OwnInv == /\ \A id \in Ids : Live(id) => id \in used
          /\ OwnershipTracked
          /\ TasksKnow
=============================================================================
