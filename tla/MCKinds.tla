------------------------------ MODULE MCKinds ------------------------------
(* Small instances of Kinds for TLC. *)
EXTENDS Kinds

CONSTANTS host, cpu

Rule(type, enabled, attributeRule, dimensionRule) ==
    [type |-> type, enabled |-> enabled, entitySelector |-> Unset,
     attributeRule |-> attributeRule, dimensionRule |-> dimensionRule]

OnHosts(propagation, conditions) ==
    [entityType |-> host, propagation |-> propagation, conditions |-> conditions]

C(key, value) == [key |-> key, value |-> value]

Entities == Rule("ME", Unset, <<OnHosts(TRUE, <<<<C(Unset, host)>>, <<C(host, Unset)>>>>)>>, <<>>)
Disabled == Rule("ME", FALSE, <<OnHosts(Unset, <<>>)>>, <<>>)
Metrics  == Rule("DIMENSION", TRUE, <<>>,
                 <<[appliesTo |-> Unset, conditions |-> <<<<C(cpu, Unset), C(Unset, cpu)>>>>]>>)
Logs     == Rule(Unset, TRUE, <<>>, <<[appliesTo |-> cpu, conditions |-> <<<<>>>>]>>)

(* No rules, in no group or in one; rules in one group, in two, and next to an
   empty one.                                                              *)
MCZoneRuleSets == {<<>>, <<<<>>>>, <<<<Entities, Metrics>>>>, <<<<>>, <<Disabled>>, <<Logs>>>>}
=============================================================================
