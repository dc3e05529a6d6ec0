------------------------- MODULE ZoneRules_proofs -------------------------
(***************************************************************************)
(* Proofs about ZoneRules: what the conversions take is what they return,  *)
(* and reading back what was sent gives it again.                          *)
(*                                                                         *)
(* A manifest's groups are flattened by a recursive function.  That it is  *)
(* defined, and is a list of what the groups hold, takes an induction; it  *)
(* is made over a set of numbers, whose least missing member is found by   *)
(* the strict subset order on the intervals 1 .. n being well-founded.     *)
(***************************************************************************)
EXTENDS ZoneRules, Integers, FiniteSetTheorems, WellFoundedInduction, SequenceTheorems, TLAPS

(* Induction, for a set. *)
LEMMA EveryNumber ==
    ASSUME NEW T \in SUBSET Nat, 0 \in T, \A n \in T : n + 1 \in T
    PROVE  Nat \subseteq T
<1> SUFFICES ASSUME Nat \ T # {} PROVE FALSE
  OBVIOUS
<1> DEFINE R == StrictSubsetOrdering(Nat)
           I == {1 .. n : n \in Nat \ T}
<1>1. I # {} /\ I \subseteq FiniteSubsetsOf(Nat)
  <2>1. \A n \in Nat : IsFiniteSet(1 .. n) /\ 1 .. n \in SUBSET Nat
    BY FS_Interval
  <2> QED BY <2>1 DEF FiniteSubsetsOf
<1>2. IsWellFoundedOn(R, FiniteSubsetsOf(Nat))
  BY FS_StrictSubsetOrderingWellFounded
<1>3. \E x \in I : \A y \in I : <<y, x>> \notin R
  <2> HIDE DEF R, I
  <2> QED BY <1>1, <1>2, WFMin
<1>4. PICK n \in Nat \ T : \A m \in Nat \ T : <<1 .. m, 1 .. n>> \notin R
  BY <1>3
<1>5. n # 0 /\ n - 1 \in Nat /\ n = (n - 1) + 1
  OBVIOUS
<1>6. n - 1 \in Nat \ T
  BY <1>5
<1>7. 1 .. (n - 1) \subseteq 1 .. n /\ n \in 1 .. n /\ n \notin 1 .. (n - 1)
  BY <1>5
<1>8. <<1 .. (n - 1), 1 .. n>> \in R
  BY <1>5, <1>7 DEF StrictSubsetOrdering
<1> QED BY <1>4, <1>6, <1>8
(* What the recursive function in FlattenSeq computes. *)
Flatten(ss, f) == f = [i \in 1 .. Len(ss) |-> IF i = 1 THEN ss[i] ELSE f[i - 1] \o ss[i]]

(* There is such a function. *)
LEMMA FlattenExists ==
    ASSUME NEW S, NEW ss \in Seq(Seq(S)), ss # <<>>
    PROVE  \E f : Flatten(ss, f)
<1> DEFINE Upto(f, n) == /\ f \in [1 .. n -> Seq(S)]
                         /\ \A i \in 1 .. n : f[i] = IF i = 1 THEN ss[i] ELSE f[i - 1] \o ss[i]
           T == {n \in Nat : n + 1 \in 1 .. Len(ss) => \E f : Upto(f, n + 1)}
<1>1. 0 \in T
  <2> DEFINE f == [i \in 1 .. 1 |-> ss[i]]
  <2>1. Upto(f, 0 + 1)
    OBVIOUS
  <2> QED BY <2>1
<1>2. ASSUME NEW n \in T PROVE n + 1 \in T
  <2> HIDE DEF Upto
  <2>0. SUFFICES ASSUME (n + 1) + 1 \in 1 .. Len(ss) PROVE \E f : Upto(f, (n + 1) + 1)
    OBVIOUS
  <2>1. PICK f : Upto(f, n + 1)
    BY <2>0, LenProperties
  <2> USE DEF Upto
  <2> DEFINE g == [i \in 1 .. ((n + 1) + 1) |-> IF i = (n + 1) + 1 THEN f[n + 1] \o ss[i] ELSE f[i]]
  <2>2. \A i \in 1 .. (n + 1) : g[i] = f[i]
    OBVIOUS
  <2>3. ASSUME NEW i \in 1 .. ((n + 1) + 1) PROVE g[i] = IF i = 1 THEN ss[i] ELSE g[i - 1] \o ss[i]
    <3>1. CASE i = (n + 1) + 1
      <4>1. g[i] = f[n + 1] \o ss[i]
        BY <3>1
      <4>2. i # 1 /\ i - 1 = n + 1 /\ n + 1 \in 1 .. (n + 1)
        BY <3>1
      <4> HIDE DEF g
      <4> QED BY <4>1, <4>2, <2>2
    <3>2. CASE i # (n + 1) + 1
      <4>1. i \in 1 .. (n + 1) /\ (i # 1 => i - 1 \in 1 .. (n + 1))
        BY <3>2
      <4> HIDE DEF g
      <4> QED BY <4>1, <2>1, <2>2
    <3> QED BY <3>1, <3>2
  <2>4. ASSUME NEW i \in 1 .. ((n + 1) + 1) PROVE g[i] \in Seq(S)
    <3>0. ss[i] \in Seq(S)
      BY <2>0, ElementOfSeq
    <3>1. \A k \in 1 .. (n + 1) : f[k] \in Seq(S)
      BY <2>1
    <3>2. CASE i = (n + 1) + 1
      <4>1. g[i] = f[n + 1] \o ss[i]
        BY <3>2
      <4>2. n + 1 \in 1 .. (n + 1)
        OBVIOUS
      <4> HIDE DEF g
      <4> QED BY <3>0, <3>1, <4>1, <4>2, ConcatProperties
    <3>3. CASE i # (n + 1) + 1
      <4>1. i \in 1 .. (n + 1)
        BY <3>3
      <4> QED BY <2>2, <3>1, <4>1
    <3> QED BY <3>2, <3>3
  <2>5. g \in [1 .. ((n + 1) + 1) -> Seq(S)]
    BY <2>4
  <2> HIDE DEF g
  <2>6. Upto(g, (n + 1) + 1)
    BY <2>3, <2>5
  <2> QED BY <2>6
<1>3. Nat \subseteq T
  <2> HIDE DEF T
  <2>1. T \in SUBSET Nat
    BY DEF T
  <2> QED BY <1>1, <1>2, <2>1, EveryNumber
<1>4. Len(ss) \in Nat /\ Len(ss) # 0 /\ Len(ss) - 1 \in Nat /\ (Len(ss) - 1) + 1 = Len(ss)
  BY EmptySeq
<1>5. Len(ss) - 1 \in T /\ Len(ss) \in 1 .. Len(ss)
  <2> HIDE DEF T
  <2> QED BY <1>3, <1>4
<1>6. PICK f : Upto(f, Len(ss))
  <2> HIDE DEF Upto
  <2> QED BY <1>4, <1>5
<1>7. f = [i \in 1 .. Len(ss) |-> f[i]]
  BY <1>6
<1>8. f = [i \in 1 .. Len(ss) |-> IF i = 1 THEN ss[i] ELSE f[i - 1] \o ss[i]]
  BY <1>6, <1>7
<1> QED BY <1>8 DEF Flatten

(* Whatever the groups hold, the list of it holds nothing else. *)
LEMMA FlattenType ==
    ASSUME NEW S, NEW ss \in Seq(Seq(S))
    PROVE  FlattenSeq(ss) \in Seq(S)
<1>1. CASE ss = <<>>
  BY <1>1, EmptySeq DEF FlattenSeq
<1>2. CASE ss # <<>>
  <2> DEFINE f == CHOOSE g : Flatten(ss, g)
  <2>1. Flatten(ss, f)
    BY <1>2, FlattenExists
  <2>2. Len(ss) \in Nat /\ Len(ss) # 0 /\ Len(ss) - 1 \in Nat /\ (Len(ss) - 1) + 1 = Len(ss)
    BY <1>2, EmptySeq
  <2>3. FlattenSeq(ss) = f[Len(ss)]
    BY <2>2 DEF FlattenSeq, Flatten
  <2> HIDE DEF f
  <2> DEFINE T == {n \in Nat : n + 1 \in 1 .. Len(ss) => f[n + 1] \in Seq(S)}
  <2>4. \A i \in 1 .. Len(ss) : f[i] = IF i = 1 THEN ss[i] ELSE f[i - 1] \o ss[i]
    BY <2>1 DEF Flatten
  <2>5. \A i \in 1 .. Len(ss) : ss[i] \in Seq(S)
    BY ElementOfSeq
  <2>6. 0 \in T
    BY <2>4, <2>5
  <2>7. ASSUME NEW n \in T PROVE n + 1 \in T
    <3> SUFFICES ASSUME (n + 1) + 1 \in 1 .. Len(ss) PROVE f[(n + 1) + 1] \in Seq(S)
      OBVIOUS
    <3>1. n + 1 \in 1 .. Len(ss) /\ ((n + 1) + 1) - 1 = n + 1 /\ (n + 1) + 1 # 1
      BY <2>2
    <3>2. f[n + 1] \in Seq(S) /\ ss[(n + 1) + 1] \in Seq(S)
      BY <2>5, <3>1
    <3>3. f[(n + 1) + 1] = f[n + 1] \o ss[(n + 1) + 1]
      BY <2>4, <3>1
    <3> QED BY <3>2, <3>3, ConcatProperties
  <2>8. Nat \subseteq T
    <3> HIDE DEF T
    <3>1. T \in SUBSET Nat
      BY DEF T
    <3> QED BY <2>6, <2>7, <3>1, EveryNumber
  <2>9. Len(ss) - 1 \in T
    BY <2>2, <2>8
  <2> QED BY <2>2, <2>3, <2>9
<1> QED BY <1>1, <1>2

(* One group is its list. *)
LEMMA FlattenOne ==
    ASSUME NEW S, NEW s \in Seq(S)
    PROVE  FlattenSeq(<<s>>) = s
<1> DEFINE ss == <<s>>
           f == CHOOSE g : Flatten(ss, g)
<1>1. ss \in Seq(Seq(S)) /\ Len(ss) = 1 /\ ss[1] = s /\ ss # <<>>
  OBVIOUS
<1> HIDE DEF ss
<1>2. Flatten(ss, f)
  BY <1>1, FlattenExists
<1>3. FlattenSeq(ss) = f[1]
  BY <1>1 DEF FlattenSeq, Flatten
<1> HIDE DEF f
<1>4. f[1] = s
  BY <1>1, <1>2 DEF Flatten
<1> QED BY <1>3, <1>4 DEF ss

-----------------------------------------------------------------------------
(* The way there: what is sent of a manifest has the form the API takes, and
   its dimension rules leave conditions out rather than send none.         *)

StatesConditions(dr) == dr.conditions = Unset \/ dr.conditions # <<>>

SentRules == {r \in ZoneRuleDtos : r.dimensionRule # Unset => StatesConditions(r.dimensionRule)}

LEMMA AttributeRuleSent ==
    ASSUME NEW ar \in AttributeRules
    PROVE  ToAttributeRule(ar) \in AttributeRuleDtos
<1> DEFINE s == FlattenSeq(ar.conditions)
<1>1. s \in Seq(AttributeConditions)
  BY FlattenType DEF AttributeRules
<1>2. \A c \in AttributeConditions : ToAttributeCondition(c) \in AttributeConditionDtos
  BY DEF AttributeConditions, AttributeConditionDtos, ToAttributeCondition, Stated, Given, Text
<1>3. Each(ToAttributeCondition, s) \in Seq(AttributeConditionDtos)
  <2> HIDE DEF s
  <2>1. DOMAIN s = 1 .. Len(s) /\ Len(s) \in Nat /\ \A i \in 1 .. Len(s) : s[i] \in AttributeConditions
    BY <1>1
  <2>2. \A i \in 1 .. Len(s) : ToAttributeCondition(s[i]) \in AttributeConditionDtos
    BY <1>2, <2>1
  <2> QED BY <2>1, <2>2 DEF Each
<1>4. Stated(ar.entityType, Empty) \in Text /\ ar.propagation \in Given(BOOLEAN)
  BY DEF AttributeRules, Stated, Given, Text
<1> QED BY <1>3, <1>4 DEF ToAttributeRule, AttributeRuleDtos

LEMMA DimensionRuleSent ==
    ASSUME NEW dr \in DimensionRules
    PROVE  ToDimensionRule(dr) \in DimensionRuleDtos /\ StatesConditions(ToDimensionRule(dr))
<1> DEFINE s == FlattenSeq(dr.conditions)
           conditions == Each(ToDimensionCondition, s)
<1>1. s \in Seq(DimensionConditions)
  BY FlattenType DEF DimensionRules
<1>2. \A c \in DimensionConditions : ToDimensionCondition(c) \in DimensionConditionDtos
  BY DEF DimensionConditions, DimensionConditionDtos, ToDimensionCondition, Stated, Given, Text
<1>3. conditions \in Seq(DimensionConditionDtos)
  <2> HIDE DEF s
  <2>1. DOMAIN s = 1 .. Len(s) /\ Len(s) \in Nat /\ \A i \in 1 .. Len(s) : s[i] \in DimensionConditions
    BY <1>1
  <2>2. \A i \in 1 .. Len(s) : ToDimensionCondition(s[i]) \in DimensionConditionDtos
    BY <1>2, <2>1
  <2> QED BY <2>1, <2>2 DEF Each
<1>4. Stated(dr.appliesTo, Empty) \in Text
  BY DEF DimensionRules, Stated, Given, Text
<1>5. ToDimensionRule(dr) = [appliesTo |-> Stated(dr.appliesTo, Empty),
                             conditions |-> IF conditions = <<>> THEN Unset ELSE conditions]
  BY DEF ToDimensionRule
<1> HIDE DEF conditions
<1> QED BY <1>3, <1>4, <1>5 DEF DimensionRuleDtos, StatesConditions, Given

LEMMA RuleSent ==
    ASSUME NEW r \in Rules
    PROVE  ToRule(r) \in SentRules
<1>1. /\ Stated(r.type, Empty) \in Text /\ Stated(r.enabled, TRUE) \in BOOLEAN
      /\ Stated(r.entitySelector, Empty) \in Text
  BY DEF Rules, Stated, Given, Text
<1>2. r.attributeRule # <<>> => ToAttributeRule(Head(r.attributeRule)) \in AttributeRuleDtos
  <2>1. r.attributeRule # <<>> => Head(r.attributeRule) \in AttributeRules
    BY HeadTailProperties DEF Rules
  <2> QED BY <2>1, AttributeRuleSent
<1>3. r.dimensionRule # <<>> => /\ ToDimensionRule(Head(r.dimensionRule)) \in DimensionRuleDtos
                                /\ StatesConditions(ToDimensionRule(Head(r.dimensionRule)))
  <2>1. r.dimensionRule # <<>> => Head(r.dimensionRule) \in DimensionRules
    BY HeadTailProperties DEF Rules
  <2> QED BY <2>1, DimensionRuleSent
<1> QED BY <1>1, <1>2, <1>3 DEF ToRule, SentRules, ZoneRuleDtos, Given

(* Every manifest's rules are sent as rules the API takes. *)
LEMMA RulesSent ==
    ASSUME NEW groups \in Seq(Seq(Rules))
    PROVE  ToRules(groups) \in Seq(SentRules)
<1> DEFINE s == FlattenSeq(groups)
<1>1. s \in Seq(Rules)
  BY FlattenType
<1> HIDE DEF s
<1>2. DOMAIN s = 1 .. Len(s) /\ Len(s) \in Nat /\ \A i \in 1 .. Len(s) : s[i] \in Rules
  BY <1>1
<1>3. \A i \in 1 .. Len(s) : ToRule(s[i]) \in SentRules
  BY <1>2, RuleSent
<1>4. ToRules(groups) = [i \in 1 .. Len(s) |-> ToRule(s[i])]
  BY <1>2 DEF ToRules, Each, s
<1> QED BY <1>2, <1>3, <1>4

-----------------------------------------------------------------------------
(* The way back: a status has the form of a manifest, and taken for one it
   is sent as what it was read from.                                       *)

LEMMA AttributeRuleReadBack ==
    ASSUME NEW ar \in AttributeRuleDtos
    PROVE  /\ ObserveAttributeRule(ar) \in AttributeRules
           /\ ToAttributeRule(ObserveAttributeRule(ar)) = ar
<1> DEFINE o == ObserveAttributeRule(ar)
           s == ar.conditions
<1>1. /\ o = [entityType |-> ar.entityType, propagation |-> ar.propagation, conditions |-> OneGroup(s)]
      /\ ar = [entityType |-> ar.entityType, propagation |-> ar.propagation, conditions |-> s]
      /\ ar.entityType \in Text /\ ar.propagation \in Given(BOOLEAN) /\ s \in Seq(AttributeConditionDtos)
  BY DEF ObserveAttributeRule, AttributeRuleDtos
<1> HIDE DEF o, s
<1>2. OneGroup(s) \in Seq(Seq(AttributeConditions))
  <2>1. s \in Seq(AttributeConditions)
    <3>1. AttributeConditionDtos \subseteq AttributeConditions
      BY DEF AttributeConditionDtos, AttributeConditions, Given
    <3> QED BY <1>1, <3>1, SeqMonotonic
  <2> QED BY <2>1 DEF OneGroup
<1>3. o \in AttributeRules
  BY <1>1, <1>2 DEF AttributeRules, Given
<1>4. FlattenSeq(OneGroup(s)) = s
  <2>1. CASE s = <<>>
    BY <2>1, EmptySeq DEF OneGroup, FlattenSeq
  <2>2. CASE s # <<>>
    BY <1>1, <2>2, FlattenOne DEF OneGroup
  <2> QED BY <2>1, <2>2
<1>5. Each(ToAttributeCondition, s) = s
  <2>1. DOMAIN s = 1 .. Len(s) /\ \A i \in 1 .. Len(s) : s[i] \in AttributeConditionDtos
    BY <1>1
  <2>2. \A c \in AttributeConditionDtos : ToAttributeCondition(c) = c
    BY ZoneRulesAssumption DEF AttributeConditionDtos, ToAttributeCondition, Stated
  <2>3. s = [i \in 1 .. Len(s) |-> s[i]]
    BY <1>1
  <2>4. \A i \in 1 .. Len(s) : ToAttributeCondition(s[i]) = s[i]
    BY <2>1, <2>2
  <2> QED BY <2>1, <2>3, <2>4 DEF Each
<1>6. Stated(ar.entityType, Empty) = ar.entityType
  BY <1>1, ZoneRulesAssumption DEF Stated
<1>7. ToAttributeRule(o) = ar
  BY <1>1, <1>4, <1>5, <1>6 DEF ToAttributeRule
<1> QED BY <1>3, <1>7 DEF o

LEMMA DimensionRuleReadBack ==
    ASSUME NEW dr \in DimensionRuleDtos, StatesConditions(dr)
    PROVE  /\ ObserveDimensionRule(dr) \in DimensionRules
           /\ ToDimensionRule(ObserveDimensionRule(dr)) = dr
<1> DEFINE o == ObserveDimensionRule(dr)
           s == Listed(dr.conditions)
<1>1. /\ o = [appliesTo |-> dr.appliesTo, conditions |-> OneGroup(s)]
      /\ dr = [appliesTo |-> dr.appliesTo, conditions |-> dr.conditions]
      /\ dr.appliesTo \in Text /\ s \in Seq(DimensionConditionDtos)
      /\ dr.conditions = IF s = <<>> THEN Unset ELSE s
  BY DEF ObserveDimensionRule, DimensionRuleDtos, Listed, StatesConditions, Given
<1> HIDE DEF o, s
<1>2. OneGroup(s) \in Seq(Seq(DimensionConditions))
  <2>1. s \in Seq(DimensionConditions)
    <3>1. DimensionConditionDtos \subseteq DimensionConditions
      BY DEF DimensionConditionDtos, DimensionConditions, Given
    <3> QED BY <1>1, <3>1, SeqMonotonic
  <2> QED BY <2>1 DEF OneGroup
<1>3. o \in DimensionRules
  BY <1>1, <1>2 DEF DimensionRules, Given
<1>4. FlattenSeq(OneGroup(s)) = s
  <2>1. CASE s = <<>>
    BY <2>1, EmptySeq DEF OneGroup, FlattenSeq
  <2>2. CASE s # <<>>
    BY <1>1, <2>2, FlattenOne DEF OneGroup
  <2> QED BY <2>1, <2>2
<1>5. Each(ToDimensionCondition, s) = s
  <2>1. DOMAIN s = 1 .. Len(s) /\ \A i \in 1 .. Len(s) : s[i] \in DimensionConditionDtos
    BY <1>1
  <2>2. \A c \in DimensionConditionDtos : ToDimensionCondition(c) = c
    BY ZoneRulesAssumption DEF DimensionConditionDtos, ToDimensionCondition, Stated
  <2>3. s = [i \in 1 .. Len(s) |-> s[i]]
    BY <1>1
  <2>4. \A i \in 1 .. Len(s) : ToDimensionCondition(s[i]) = s[i]
    BY <2>1, <2>2
  <2> QED BY <2>1, <2>3, <2>4 DEF Each
<1>6. Stated(dr.appliesTo, Empty) = dr.appliesTo
  BY <1>1, ZoneRulesAssumption DEF Stated
<1>7. ToDimensionRule(o) = dr
  BY <1>1, <1>4, <1>5, <1>6 DEF ToDimensionRule
<1> QED BY <1>3, <1>7 DEF o

LEMMA RuleReadBack ==
    ASSUME NEW r \in SentRules
    PROVE  ObserveRule(r) \in Rules /\ ToRule(ObserveRule(r)) = r
<1> DEFINE o == ObserveRule(r)
           ar == r.attributeRule
           dr == r.dimensionRule
           ars == IF ar = Unset THEN <<>> ELSE <<ObserveAttributeRule(ar)>>
           drs == IF dr = Unset THEN <<>> ELSE <<ObserveDimensionRule(dr)>>
<1>1. /\ o = [type |-> r.type, enabled |-> r.enabled, entitySelector |-> r.entitySelector,
              attributeRule |-> ars, dimensionRule |-> drs]
      /\ r = [type |-> r.type, enabled |-> r.enabled, entitySelector |-> r.entitySelector,
              attributeRule |-> ar, dimensionRule |-> dr]
  <2>1. r = [type |-> r.type, enabled |-> r.enabled, entitySelector |-> r.entitySelector,
             attributeRule |-> r.attributeRule, dimensionRule |-> r.dimensionRule]
    BY DEF SentRules, ZoneRuleDtos
  <2> DEFINE a == r.attributeRule
             d == r.dimensionRule
             A(x) == IF x = Unset THEN <<>> ELSE <<ObserveAttributeRule(x)>>
             D(x) == IF x = Unset THEN <<>> ELSE <<ObserveDimensionRule(x)>>
  <2>2. o = [r EXCEPT !.attributeRule = A(a), !.dimensionRule = D(d)]
    BY DEF ObserveRule
  <2> HIDE DEF o, A, D
  <2>3. o = [type |-> r.type, enabled |-> r.enabled, entitySelector |-> r.entitySelector,
             attributeRule |-> A(a), dimensionRule |-> D(d)]
    BY <2>1, <2>2
  <2> QED BY <2>1, <2>3 DEF A, D
<1>2. /\ r.type \in Text /\ r.enabled \in BOOLEAN /\ r.entitySelector \in Text
      /\ ar # Unset => ar \in AttributeRuleDtos
      /\ dr # Unset => dr \in DimensionRuleDtos /\ StatesConditions(dr)
  BY DEF SentRules, ZoneRuleDtos, Given
<1> HIDE DEF o, ar, dr
<1>3. /\ ars \in Seq(AttributeRules)
      /\ ar = IF ars = <<>> THEN Unset ELSE ToAttributeRule(Head(ars))
  BY <1>2, AttributeRuleReadBack
<1>4. /\ drs \in Seq(DimensionRules)
      /\ dr = IF drs = <<>> THEN Unset ELSE ToDimensionRule(Head(drs))
  BY <1>2, DimensionRuleReadBack
<1> HIDE DEF ars, drs
<1>5. o \in Rules
  BY <1>1, <1>2, <1>3, <1>4 DEF Rules, Given
<1>6. /\ Stated(r.type, Empty) = r.type /\ Stated(r.enabled, TRUE) = r.enabled
      /\ Stated(r.entitySelector, Empty) = r.entitySelector
  BY <1>2, ZoneRulesAssumption DEF Stated
<1>7. ToRule(o) = r
  BY <1>1, <1>3, <1>4, <1>6 DEF ToRule
<1> QED BY <1>5, <1>7 DEF o

LEMMA ListedType ==
    ASSUME NEW S, NEW x \in Given(Seq(S))
    PROVE  Listed(x) \in Seq(S)
BY EmptySeq DEF Listed, Given

(* Rules the provider shows in the status and would send from there are the
   rules it was given: one group holds them, and every optional field that was
   there comes back.                                                       *)
THEOREM RulesReadBack ==
    ASSUME NEW rules \in Given(Seq(SentRules))
    PROVE  /\ ToRulesObservation(rules) \in Seq(Seq(Rules)) /\ Len(ToRulesObservation(rules)) <= 1
           /\ ToRules(ToRulesObservation(rules)) = Listed(rules)
<1> DEFINE s == Listed(rules)
           o == Each(ObserveRule, s)
<1>1. DOMAIN s = 1 .. Len(s) /\ Len(s) \in Nat /\ \A i \in 1 .. Len(s) : s[i] \in SentRules
  BY ListedType, ElementOfSeq, LenProperties
<1>2. s = [i \in 1 .. Len(s) |-> s[i]]
  BY ListedType
<1> HIDE DEF s
<1>3. /\ o = [i \in 1 .. Len(s) |-> ObserveRule(s[i])]
      /\ \A i \in 1 .. Len(s) : ObserveRule(s[i]) \in Rules
  BY <1>1, RuleReadBack DEF Each
<1>4. o \in Seq(Rules) /\ DOMAIN o = 1 .. Len(s)
  BY <1>1, <1>3
<1>5. ToRulesObservation(rules) = OneGroup(o)
  BY DEF ToRulesObservation, s
<1>6. \A i \in 1 .. Len(s) : ToRule(o[i]) = s[i]
  BY <1>1, <1>3, RuleReadBack
<1> HIDE DEF o
<1>7. OneGroup(o) \in Seq(Seq(Rules)) /\ Len(OneGroup(o)) <= 1
  BY <1>4 DEF OneGroup
<1>8. FlattenSeq(OneGroup(o)) = o
  <2>1. CASE o = <<>>
    BY <2>1, EmptySeq DEF OneGroup, FlattenSeq
  <2>2. CASE o # <<>>
    BY <1>4, <2>2, FlattenOne DEF OneGroup
  <2> QED BY <2>1, <2>2
<1>9. ToRules(OneGroup(o)) = s
  BY <1>2, <1>4, <1>6, <1>8 DEF ToRules, Each
<1> QED BY <1>5, <1>7, <1>9 DEF s
=============================================================================
