----------------------------- MODULE ZoneRules -----------------------------
(***************************************************************************)
(* internal/controller/management/zonev2: the conversion of a ZoneV2's     *)
(* rules into the value the settings API takes (toManagementZoneV2Value)   *)
(* and of the value it shows into the status (toZoneV2Observation).        *)
(*                                                                         *)
(* A manifest nests lists where the API has one: rules come in groups,     *)
(* conditions in groups, and a rule carries a list of attribute rules and  *)
(* one of dimension rules of which only the first counts.  Fields treated  *)
(* alike stand for each other: propagation for the eight flags, a          *)
(* condition's key for its operator, its value for the fields that are     *)
(* copied as they are.                                                     *)
(***************************************************************************)
EXTENDS Sequences, SequencesExt

CONSTANTS
    Unset,  \* a nil pointer: a field a manifest or a reply leaves out
    Empty,  \* the empty string
    Values  \* any other

Stated(x, default) == IF x = Unset THEN default ELSE x

(* The rules of a manifest, and those of the status, which have its form: any
   field may be left out.                                                  *)
Given(S) == S \cup {Unset}
Text     == Values \cup {Empty}

AttributeConditions == [key : Given(Text), value : Given(Text)]

AttributeRules == [entityType  : Given(Text),
                   propagation : Given(BOOLEAN),
                   conditions  : Seq(Seq(AttributeConditions))]

DimensionConditions == [key : Given(Text), value : Given(Text)]

DimensionRules == [appliesTo : Given(Text), conditions : Seq(Seq(DimensionConditions))]

Rules == [type           : Given(Text),
          enabled        : Given(BOOLEAN),
          entitySelector : Given(Text),
          attributeRule  : Seq(AttributeRules),
          dimensionRule  : Seq(DimensionRules)]

(* The rules of the API: one rule of a kind at most, and its texts are there. *)
AttributeConditionDtos == [key : Text, value : Given(Text)]

AttributeRuleDtos == [entityType  : Text,
                      propagation : Given(BOOLEAN),
                      conditions  : Seq(AttributeConditionDtos)]

DimensionConditionDtos == [key : Given(Text), value : Text]

DimensionRuleDtos == [appliesTo : Text, conditions : Given(Seq(DimensionConditionDtos))]

ZoneRuleDtos == [type           : Text,
                 enabled        : BOOLEAN,
                 entitySelector : Text,
                 attributeRule  : Given(AttributeRuleDtos),
                 dimensionRule  : Given(DimensionRuleDtos)]

(* A nil pointer is no text, no flag and no list. *)
ASSUME ZoneRulesAssumption ==
    Unset \notin Text /\ Unset \notin BOOLEAN /\ Unset \notin Seq(ZoneRuleDtos)

-----------------------------------------------------------------------------
(* The way there.                                                          *)

Each(Op(_), s) == [i \in DOMAIN s |-> Op(s[i])]

ToAttributeCondition(c) == [c EXCEPT !.key = Stated(@, Empty)]

ToAttributeRule(ar) ==
    [entityType  |-> Stated(ar.entityType, Empty),
     propagation |-> ar.propagation,
     conditions  |-> Each(ToAttributeCondition, FlattenSeq(ar.conditions))]

ToDimensionCondition(c) == [c EXCEPT !.value = Stated(@, Empty)]

(* Without conditions the object that would hold them is left out. *)
ToDimensionRule(dr) ==
    LET conditions == Each(ToDimensionCondition, FlattenSeq(dr.conditions)) IN
    [appliesTo  |-> Stated(dr.appliesTo, Empty),
     conditions |-> IF conditions = <<>> THEN Unset ELSE conditions]

ToRule(r) ==
    [type           |-> Stated(r.type, Empty),
     enabled        |-> Stated(r.enabled, TRUE),
     entitySelector |-> Stated(r.entitySelector, Empty),
     attributeRule  |-> IF r.attributeRule = <<>> THEN Unset
                        ELSE ToAttributeRule(Head(r.attributeRule)),
     dimensionRule  |-> IF r.dimensionRule = <<>> THEN Unset
                        ELSE ToDimensionRule(Head(r.dimensionRule))]

ToRules(groups) == Each(ToRule, FlattenSeq(groups))

(* The payload leaves an empty list of rules out. *)
Payload(rules) == IF rules = <<>> THEN Unset ELSE rules

-----------------------------------------------------------------------------
(* The way back.                                                           *)

OneGroup(s) == IF s = <<>> THEN <<>> ELSE <<s>>

Listed(x) == IF x = Unset THEN <<>> ELSE x

ObserveAttributeRule(ar) == [ar EXCEPT !.conditions = OneGroup(@)]

ObserveDimensionRule(dr) == [dr EXCEPT !.conditions = OneGroup(Listed(@))]

ObserveRule(r) ==
    [r EXCEPT
        !.attributeRule = IF @ = Unset THEN <<>> ELSE <<ObserveAttributeRule(@)>>,
        !.dimensionRule = IF @ = Unset THEN <<>> ELSE <<ObserveDimensionRule(@)>>]

(* Mutant: the rules of a dimension are forgotten. *)
ToRulesObservationOfEntities(rules) ==
    OneGroup(Each(LAMBDA r : [ObserveRule(r) EXCEPT !.dimensionRule = <<>>], Listed(rules)))

ToRulesObservation(rules) == OneGroup(Each(ObserveRule, Listed(rules)))
=============================================================================
