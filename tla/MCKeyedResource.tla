-------------------------- MODULE MCKeyedResource --------------------------
(* Small instances of KeyedResource for TLC. *)
EXTENDS KeyedResource

CONSTANTS c1, k0, k1, k2, k3

MCOrder == <<k0, k1, k2, k3>>

MCOwnKeys == [c \in CRs |-> IF c = c1 THEN k1 ELSE k2]

(* One resource may be moved, to the other's key or to a new one. *)
MCEdits   == [c \in CRs |-> IF c = c1 THEN {k2, k3} ELSE {}]
MCNoEdits == [c \in CRs |-> {}]

(* 409, or 400 with a text that says so. *)
MCExistsAs == {[status |-> 409, exists |-> FALSE], [status |-> 400, exists |-> TRUE]}
=============================================================================
