-------------------------- MODULE MCNamedResource --------------------------
(* Small instances of NamedResource for TLC. *)
EXTENDS NamedResourceInv, TLC

CONSTANTS c1, n1, n2, b1, b2

S(n, b) == [name |-> n, body |-> b]

(* One name per resource: distinct objects. *)
MCOwnNames == [c \in CRs |-> S(IF c = c1 THEN n1 ELSE n2, b1)]

MCBodyEdits == [c \in CRs |-> {S(IF c = c1 THEN n1 ELSE n2, b) : b \in Bodies \ {Empty}}]
MCAnyEdits  == [c \in CRs |-> {s \in Specs : s.body # Empty}]

MCEmptyAccount == {[id \in Ids |-> NoObject]}

(* Empty, or holding one object somebody made by hand. *)
MCAnyAccount ==
    MCEmptyAccount \cup
    {[id \in Ids |-> IF id = i THEN o ELSE NoObject] :
        i \in Ids, o \in [name : {n1}, body : Bodies, creator : {Foreign}]}

MCSymmetry == Permutations(Ids) \cup Permutations(Replicas)
=============================================================================
