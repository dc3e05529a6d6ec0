----------------------------- MODULE Ownership -----------------------------
(***************************************************************************)
(* What the provider promises about a managed resource and the Dynatrace   *)
(* account, with no reconciler in sight: a custom resource owns at most    *)
(* one object at a time, and it may leave the cluster only when it owns    *)
(* none, after which it acquires nothing.                                  *)
(***************************************************************************)
CONSTANTS CRs, Ids
VARIABLES owned,     \* per custom resource, the live objects made for it
          retired    \* the custom resources that left the cluster

ovars == <<owned, retired>>

OInit == owned = [c \in CRs |-> {}] /\ retired = {}

Acquire(c, id) ==
    /\ c \notin retired
    /\ owned[c] = {}
    /\ \A d \in CRs : id \notin owned[d]
    /\ owned' = [owned EXCEPT ![c] = {id}]
    /\ UNCHANGED retired

Lose(c) ==
    /\ owned' = [owned EXCEPT ![c] = {}]
    /\ UNCHANGED retired

Retire(c) ==
    /\ owned[c] = {}
    /\ retired' = retired \cup {c}
    /\ UNCHANGED owned

ONext == \E c \in CRs : Lose(c) \/ Retire(c) \/ \E id \in Ids : Acquire(c, id)

OSpec == OInit /\ [][ONext]_ovars
=============================================================================
