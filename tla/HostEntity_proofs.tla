-------------------------- MODULE HostEntity_proofs --------------------------
(* Proofs about HostEntity, for any inventory, configurations and Secrets. *)
EXTENDS HostEntity, TLAPS, WellFoundedInduction

USE HostAssumption, ConfigurationAssumption

(* A reconcile in progress holds an object, never ahead of the server's. *)
Holding ==
    /\ pc # "idle" => mem # Gone
    /\ cr # Gone /\ mem # Gone => mem.rv <= cr.rv

(* While nobody has written the resource, the object in memory has its spec,
   and the entity stored or one looked up for that spec.                   *)
LookedUp ==
    cr # Gone /\ mem # Gone /\ mem.rv = cr.rv =>
        /\ mem.spec = cr.spec
        /\ mem.entity \in {cr.entity, NoEntity} \/ Selects(cr.spec, mem.entity)

HostInv == TypeOK /\ Holding /\ LookedUp

-----------------------------------------------------------------------------
(* The operators.                                                          *)

(* Whatever a Secret holds under a key makes credentials. *)
LEMMA ParsedType == \A raw \in RawCredentials : ParseCredentialsJSON(raw) \in Credentials
<1> SUFFICES ASSUME NEW raw \in RawCredentials
             PROVE  ParseCredentialsJSON(raw) \in Credentials
  OBVIOUS
<1>1. /\ First(raw.iam_account_id, raw.dt_account_id) \in Account
      /\ raw.dt_env_url \in Env /\ raw.dt_api_token \in Token
  BY DEF RawCredentials, First
<1>2. First(raw.iam_client_id, raw.dt_client_id) \in Pair
  BY DEF RawCredentials, First
<1>3. First(raw.iam_client_secret, raw.dt_client_secret) \in Pair
  BY DEF RawCredentials, First
<1>4. First(raw.platform_token, raw.dt_platform_token) \in Token
  BY DEF RawCredentials, First
<1> QED BY <1>1, <1>2, <1>3, <1>4 DEF ParseCredentialsJSON, Credentials

LEMMA ClientType ==
    ASSUME TypeOK, NEW ref \in Configs \cup {Empty}
    PROVE  GetClient(configs, secret, ref) \in Credentials \cup {NoClient}
<1>1. ConfigName(ref) \in Configs
  BY DEF ConfigName, First
<1> DEFINE config == configs[ConfigName(ref)]
<1>2. config \in ConfigStates \cup {Gone}
  BY <1>1 DEF TypeOK
<1>3. CASE config = Gone
  BY <1>3 DEF GetClient
<1>4. CASE config # Gone
  <2> DEFINE key == First(config.key, DefaultKey)
  <2>1. key \in SecretKeys
    BY <1>2, <1>4 DEF ConfigStates, First
  <2>2. secret # Gone => secret[key] \in RawCredentials \cup {Missing, Malformed}
    BY <2>1 DEF TypeOK, SecretStates
  <2>3. ClientFrom(config, secret) \in Credentials \cup {NoClient}
    <3> HIDE DEF config
    <3>1. ClientFrom(config, secret) = NoClient
          \/ (secret # Gone /\ secret[key] \in RawCredentials
              /\ ClientFrom(config, secret) = NewClient(ParseCredentialsJSON(secret[key])))
      BY <2>2 DEF ClientFrom
    <3> HIDE DEF key
    <3> QED BY <3>1, ParsedType DEF NewClient
  <2> QED BY <1>4, <2>3 DEF GetClient
<1> QED BY <1>3, <1>4

(* A set of positions that is not empty has a first one. *)
LEMMA LeastPosition ==
    ASSUME NEW S, S \subseteq Nat, S # {}
    PROVE  \E n \in S : \A m \in S : n <= m
<1> DEFINE R == OpToRel(<, Nat)
<1>1. IsWellFoundedOn(R, Nat)
  BY NatLessThanWellFounded
<1>2. \A x, y \in Nat : x < y => <<x, y>> \in R
  BY DEF OpToRel
<1> HIDE DEF R
<1>3. PICK n \in S : \A m \in S : <<m, n>> \notin R
  BY <1>1, WFMin
<1>4. \A m \in S : m \in Nat /\ n \in Nat /\ ~(m < n)
  BY <1>2, <1>3
<1> QED BY <1>4

(* The first of the entities a spec selects is one it selects. *)
LEMMA FirstIsSelected ==
    ASSUME TypeOK, NEW spec, Selected(spec) # {}
    PROVE  FirstOf(Selected(spec)) \in Entities /\ Selects(spec, FirstOf(Selected(spec)))
<1> DEFINE S == Selected(spec)
<1>1. S \subseteq Nat /\ S \subseteq DOMAIN entities
  BY DEF Selected, TypeOK
<1>2. PICK n \in S : \A m \in S : n <= m
  BY <1>1, LeastPosition
<1>3. Min(S) \in S
  BY <1>2 DEF Min
<1>4. \A i \in S : entities[i] \in Entities /\ Selects(spec, entities[i])
  BY DEF Selected, TypeOK
<1> QED BY <1>3, <1>4 DEF FirstOf

Readiness == {"unset", "available", "ambiguous", "unavailable"}

(* Every field an action assigns keeps an object of the cluster one. *)
LEMMA FieldEdits ==
    ASSUME NEW x \in CRStates
    PROVE  /\ \A s \in Specs : [x EXCEPT !.spec = s] \in CRStates
           /\ \A e \in Ids \cup {NoEntity} : [x EXCEPT !.extName = e] \in CRStates
           /\ \A e \in Entities \cup {NoEntity} : [x EXCEPT !.entity = e] \in CRStates
           /\ \A r \in Readiness : [x EXCEPT !.ready = r] \in CRStates
           /\ [x EXCEPT !.finalizer = TRUE] \in CRStates
           /\ [x EXCEPT !.deleting = TRUE] \in CRStates
           /\ \A n \in Nat : [x EXCEPT !.rv = n] \in CRStates
<1>1. \A s \in Specs : [x EXCEPT !.spec = s] \in CRStates
  BY DEF CRStates
<1>2. \A e \in Ids \cup {NoEntity} : [x EXCEPT !.extName = e] \in CRStates
  BY DEF CRStates
<1>3. \A e \in Entities \cup {NoEntity} : [x EXCEPT !.entity = e] \in CRStates
  BY DEF CRStates
<1>4. \A r \in Readiness : [x EXCEPT !.ready = r] \in CRStates
  BY DEF CRStates, Readiness
<1>5. [x EXCEPT !.finalizer = TRUE] \in CRStates /\ [x EXCEPT !.deleting = TRUE] \in CRStates
  BY DEF CRStates
<1>6. \A n \in Nat : [x EXCEPT !.rv = n] \in CRStates
  BY DEF CRStates
<1> QED BY <1>1, <1>2, <1>3, <1>4, <1>5, <1>6

LEMMA VerdictType == \A found : Verdict(found) \in Readiness
BY DEF Verdict, Readiness

(* What a lookup writes into the object in memory. *)
LEMMA LookupType ==
    ASSUME TypeOK, NEW m \in CRStates
    PROVE  /\ Lookup(m) \in CRStates
           /\ Lookup(m).spec = m.spec /\ Lookup(m).rv = m.rv
           /\ Lookup(m).entity = NoEntity \/ Selects(m.spec, Lookup(m).entity)
<1> DEFINE found == Selected(m.spec)
<1>1. CASE found = {}
  <2> DEFINE x == [m EXCEPT !.entity = NoEntity, !.ready = Verdict(found)]
  <2>1. Lookup(m) = x
    BY <1>1 DEF Lookup
  <2>2. x \in CRStates
    BY FieldEdits, VerdictType
  <2>3. x.spec = m.spec /\ x.rv = m.rv /\ x.entity = NoEntity
    BY DEF CRStates
  <2> QED BY <2>1, <2>2, <2>3
<1>2. CASE found # {}
  <2> DEFINE e == FirstOf(found)
             x == [m EXCEPT !.entity = e, !.ready = Verdict(found), !.extName = e.id]
  <2>1. Lookup(m) = x
    BY <1>2 DEF Lookup
  <2>2. e \in Entities /\ Selects(m.spec, e)
    BY <1>2, FirstIsSelected
  <2>3. e.id \in Ids
    BY <2>2 DEF Entities
  <2> HIDE DEF e
  <2>4. x \in CRStates
    <3>1. [m EXCEPT !.entity = e] \in CRStates
      BY <2>2, FieldEdits
    <3>2. [m EXCEPT !.entity = e, !.ready = Verdict(found)] \in CRStates
      BY <3>1, FieldEdits, VerdictType
    <3> QED BY <2>3, <3>2, FieldEdits
  <2>5. x.spec = m.spec /\ x.rv = m.rv /\ x.entity = e
    BY DEF CRStates
  <2> QED BY <2>1, <2>2, <2>4, <2>5
<1> QED BY <1>1, <1>2

-----------------------------------------------------------------------------
(* The invariant.                                                          *)

LEMMA HostInit == Init => HostInv
<1> SUFFICES ASSUME Init PROVE HostInv
  OBVIOUS
<1>1. PICK s \in InitialSpecs :
          cr = [spec |-> s, extName |-> NoEntity, entity |-> NoEntity, ready |-> "unset",
                finalizer |-> FALSE, deleting |-> FALSE, rv |-> 0]
  BY DEF Init
<1>2. cr \in CRStates
  BY <1>1 DEF CRStates
<1>3. gate \in [Controllers -> {"closed", "open", "failed"}]
  BY DEF Init
<1>4. configs \in [Configs -> ConfigStates \cup {Gone}]
  <2>1. configs \in [Configs -> ConfigChoices \cup {Gone}]
    BY DEF Init
  <2> QED BY <2>1
<1>5. secret \in SecretStates \cup {Gone} /\ entities \in Seq(Entities)
      /\ accepted \subseteq Tokens \cup Pairs
  BY DEF Init
<1>6. pc \in Phases /\ client \in Credentials \cup {NoClient} /\ mem = Gone /\ pc = "idle"
      /\ faults \in 0 .. MaxFaults /\ moves \in 0 .. MaxMoves /\ edits \in 0 .. MaxEdits
  BY DEF Init, Phases
<1>7. TypeOK
  BY <1>2, <1>3, <1>4, <1>5, <1>6 DEF TypeOK
<1> QED BY <1>6, <1>7 DEF HostInv, Holding, LookedUp

LEMMA HostNext == HostInv /\ [Next]_vars => HostInv'
<1> SUFFICES ASSUME HostInv, [Next]_vars PROVE HostInv'
  OBVIOUS
<1>t. TypeOK /\ Holding /\ LookedUp
  BY DEF HostInv
<1>r. \A x \in CRStates : x.rv \in Nat /\ x.rv + 1 \in Nat /\ x.rv < x.rv + 1
  BY DEF CRStates
<1> USE DEF world, users
<1>f. Finish => /\ pc' = "idle" /\ mem' = Gone /\ client' \in Credentials \cup {NoClient}
                /\ Holding' /\ LookedUp'
  BY DEF Finish, Holding, LookedUp
<1>x. Fault => faults' \in 0 .. MaxFaults
  BY <1>t DEF Fault, TypeOK
<1>1. ASSUME NEW k \in Controllers, Establish(k) PROVE HostInv'
  <2>1. faults' \in 0 .. MaxFaults /\ gate' \in [Controllers -> {"closed", "open", "failed"}]
    BY <1>1, <1>t, <1>x DEF Establish, TypeOK
  <2>2. TypeOK'
    BY <1>1, <1>t, <2>1 DEF Establish, TypeOK
  <2> QED BY <1>1, <1>t, <2>2 DEF Establish, HostInv, Holding, LookedUp
<1>2. CASE Connect
  <2>1. /\ cr \in CRStates /\ mem' = cr /\ pc' = "observe"
        /\ client' = GetClient(configs, secret, cr.spec.ref)
        /\ UNCHANGED <<cr, gate, users, world, faults>>
    BY <1>2, <1>t DEF Connect, TypeOK
  <2>2. cr.spec.ref \in Configs \cup {Empty}
    BY <2>1 DEF CRStates, Specs
  <2>3. client' \in Credentials \cup {NoClient}
    BY <2>1, <2>2, <1>t, ClientType
  <2>4. TypeOK'
    BY <2>1, <2>3, <1>t DEF TypeOK, Phases
  <2> QED BY <2>1, <2>4, <1>r DEF HostInv, Holding, LookedUp
<1>3. CASE Observe
  <2>1. mem \in CRStates /\ pc = "observe" /\ UNCHANGED <<cr, client, gate, users, world, faults>>
    BY <1>3, <1>t DEF Observe, TypeOK, Holding
  <2>2. /\ mem' \in {mem, Lookup(mem)}
        /\ pc' \in {"unfinalize", "status", "finalize"}
    BY <1>3 DEF Observe, Observed
  <2>3. /\ mem' \in CRStates /\ mem'.spec = mem.spec /\ mem'.rv = mem.rv
        /\ mem' = mem \/ mem'.entity = NoEntity \/ Selects(mem.spec, mem'.entity)
    BY <2>1, <2>2, <1>t, LookupType
  <2>4. TypeOK'
    BY <2>1, <2>2, <2>3, <1>t DEF TypeOK, Phases
  <2>5. Holding'
    BY <2>1, <2>3, <1>t DEF Holding
  <2>6. LookedUp'
    BY <2>1, <2>3, <1>t DEF LookedUp
  <2> QED BY <2>4, <2>5, <2>6 DEF HostInv
<1>4. CASE LookupFails \/ LoseUpdate
  <2>1. Finish /\ UNCHANGED <<cr, gate, users, world, faults>>
    BY <1>4 DEF LookupFails, LoseUpdate
  <2>2. TypeOK'
    BY <2>1, <1>f, <1>t DEF TypeOK, Phases
  <2> QED BY <2>1, <2>2, <1>f DEF HostInv
<1>5. CASE AddFinalizer
  <2>1. /\ cr \in CRStates /\ mem \in CRStates /\ cr.rv = mem.rv
        /\ cr' = [cr EXCEPT !.extName = mem.extName, !.finalizer = TRUE, !.rv = @ + 1]
        /\ pc' = "status" /\ UNCHANGED <<client, gate, users, world, faults>>
    BY <1>5, <1>t DEF AddFinalizer, CurrentVersion, TypeOK, Holding
  <2>2. PICK r \in {cr.ready, mem.ready} : mem' = [cr' EXCEPT !.entity = mem.entity, !.ready = r]
    BY <1>5 DEF AddFinalizer
  <2>3. /\ mem.extName \in Ids \cup {NoEntity} /\ mem.entity \in Entities \cup {NoEntity}
        /\ r \in Readiness
    BY <2>1 DEF CRStates, Readiness
  <2>4. cr' \in CRStates
    <3> DEFINE x == [cr EXCEPT !.extName = mem.extName]
               y == [x EXCEPT !.finalizer = TRUE]
               n == cr.rv + 1
    <3>1. x \in CRStates
      BY <2>1, <2>3, FieldEdits
    <3>2. y \in CRStates
      BY <3>1, FieldEdits
    <3>3. n \in Nat
      BY <2>1, <1>r
    <3>4. cr' = [y EXCEPT !.rv = n]
      BY <2>1
    <3> HIDE DEF y, n
    <3> QED BY <3>2, <3>3, <3>4, FieldEdits
  <2>5. cr'.spec = cr.spec /\ cr'.entity = cr.entity /\ cr'.rv = cr.rv + 1
    BY <2>1 DEF CRStates
  <2>6. mem' \in CRStates
    <3> DEFINE x == [cr' EXCEPT !.entity = mem.entity]
    <3>1. x \in CRStates
      BY <2>3, <2>4, FieldEdits
    <3>2. mem' = [x EXCEPT !.ready = r]
      BY <2>2
    <3> HIDE DEF x
    <3> QED BY <2>3, <3>1, <3>2, FieldEdits
  <2>7. mem'.spec = cr'.spec /\ mem'.entity = mem.entity /\ mem'.rv = cr'.rv
    BY <2>2, <2>4 DEF CRStates
  <2>8. TypeOK'
    BY <2>1, <2>4, <2>6, <1>t DEF TypeOK, Phases
  <2>9. Holding'
    BY <2>1, <2>4, <2>6, <2>7, <1>r DEF Holding
  <2>10. LookedUp'
    BY <2>1, <2>5, <2>7, <1>t DEF LookedUp
  <2> QED BY <2>8, <2>9, <2>10 DEF HostInv
<1>6. CASE WriteStatus
  <2> DEFINE next == [cr EXCEPT !.entity = mem.entity, !.ready = mem.ready]
  <2>1. /\ cr \in CRStates /\ mem \in CRStates
        /\ cr' \in {next, [next EXCEPT !.rv = @ + 1]}
        /\ Finish /\ UNCHANGED <<gate, users, world, faults>>
    BY <1>6, <1>t DEF WriteStatus, CurrentVersion, TypeOK, Holding
  <2>2. mem.entity \in Entities \cup {NoEntity} /\ mem.ready \in Readiness
    BY <2>1 DEF CRStates, Readiness
  <2>3. next \in CRStates
    <3> DEFINE x == [cr EXCEPT !.entity = mem.entity]
    <3>1. x \in CRStates
      BY <2>1, <2>2, FieldEdits
    <3>2. next = [x EXCEPT !.ready = mem.ready]
      OBVIOUS
    <3> HIDE DEF x, next
    <3> QED BY <2>2, <3>1, <3>2, FieldEdits
  <2> HIDE DEF next
  <2>4. cr' \in CRStates
    <3>1. next.rv + 1 \in Nat
      BY <2>3, <1>r
    <3>2. [next EXCEPT !.rv = next.rv + 1] \in CRStates
      BY <2>3, <3>1, FieldEdits
    <3> QED BY <2>1, <2>3, <3>2
  <2>5. TypeOK'
    BY <2>1, <2>4, <1>f, <1>t DEF TypeOK, Phases
  <2> QED BY <2>1, <2>5, <1>f DEF HostInv
<1>7. CASE RemoveFinalizer
  <2>1. cr' = Gone /\ Finish /\ UNCHANGED <<gate, users, world, faults>>
    BY <1>7 DEF RemoveFinalizer
  <2>2. TypeOK'
    BY <2>1, <1>f, <1>t DEF TypeOK, Phases
  <2> QED BY <2>1, <2>2, <1>f DEF HostInv
<1>8. CASE Interrupted \/ Restart
  <2>1. /\ Finish /\ Fault /\ UNCHANGED <<cr, users, world>>
        /\ gate' = gate \/ gate' = [k \in Controllers |-> "closed"]
    BY <1>8 DEF Interrupted, Restart
  <2>2. gate' \in [Controllers -> {"closed", "open", "failed"}]
    BY <2>1, <1>t DEF TypeOK
  <2>3. TypeOK'
    BY <2>1, <2>2, <1>f, <1>x, <1>t DEF TypeOK, Phases
  <2> QED BY <2>1, <2>3, <1>f DEF HostInv
<1>9. ASSUME NEW c \in Configs, ReconcileConfig(c) \/ UserConfigures(c) \/ UserDeletesConfig(c)
      PROVE  HostInv'
  <2>1. \A x \in ConfigStates : /\ [x EXCEPT !.finalizer = TRUE] \in ConfigStates
                                /\ [x EXCEPT !.deleting = TRUE] \in ConfigStates
    BY DEF ConfigStates
  <2>2. configs' \in [Configs -> ConfigStates \cup {Gone}]
    <3>1. CASE configs[c] # Gone /\ configs' = [configs EXCEPT ![c].finalizer = TRUE]
      <4>1. configs[c] \in ConfigStates
        BY <3>1, <1>t DEF TypeOK
      <4> QED BY <3>1, <4>1, <2>1, <1>t DEF TypeOK
    <3>2. CASE configs' = [configs EXCEPT ![c] = Gone]
      BY <3>2, <1>t DEF TypeOK
    <3>3. CASE \E choice \in ConfigChoices : configs' = [configs EXCEPT ![c] = choice]
      BY <3>3, <1>t DEF TypeOK
    <3>4. CASE configs[c] # Gone /\ configs' = [configs EXCEPT ![c] = [configs[c] EXCEPT !.deleting = TRUE]]
      <4>1. configs[c] \in ConfigStates
        BY <3>4, <1>t DEF TypeOK
      <4> QED BY <3>4, <4>1, <2>1, <1>t DEF TypeOK
    <3> QED BY <1>9, <3>1, <3>2, <3>3, <3>4 DEF ReconcileConfig, UserConfigures, UserDeletesConfig
  <2>3. edits' \in 0 .. MaxEdits
    BY <1>9, <1>t DEF ReconcileConfig, UserConfigures, UserDeletesConfig, Edit, TypeOK
  <2>4. UNCHANGED <<cr, pc, mem, client, gate, secret, world, faults>>
    BY <1>9 DEF ReconcileConfig, UserConfigures, UserDeletesConfig
  <2>5. TypeOK'
    BY <2>2, <2>3, <2>4, <1>t DEF TypeOK
  <2> QED BY <2>4, <2>5, <1>t DEF HostInv, Holding, LookedUp
<1>10. CASE UserChangesSecret
  <2>1. /\ secret' \in SecretStates \cup {Gone} /\ edits' \in 0 .. MaxEdits
        /\ UNCHANGED <<cr, pc, mem, client, gate, configs, world, faults>>
    BY <1>10, <1>t DEF UserChangesSecret, Edit, TypeOK
  <2>2. TypeOK'
    BY <2>1, <1>t DEF TypeOK
  <2> QED BY <2>1, <2>2, <1>t DEF HostInv, Holding, LookedUp
<1>11. CASE UserEdits
  <2>1. PICK s \in EditableTo : cr' = [cr EXCEPT !.spec = s, !.rv = @ + 1]
    BY <1>11 DEF UserEdits
  <2>2. /\ cr \in CRStates /\ edits' \in 0 .. MaxEdits
        /\ UNCHANGED <<pc, mem, client, gate, configs, secret, world, faults>>
    BY <1>11, <1>t DEF UserEdits, Edit, TypeOK
  <2>3. cr' \in CRStates
    <3> DEFINE x == [cr EXCEPT !.spec = s]
               n == cr.rv + 1
    <3>1. x \in CRStates /\ n \in Nat
      BY <2>2, <1>r, FieldEdits
    <3>2. cr' = [x EXCEPT !.rv = n]
      BY <2>1
    <3> HIDE DEF x, n
    <3> QED BY <3>1, <3>2, FieldEdits
  <2>4. cr'.rv = cr.rv + 1
    BY <2>1, <2>2 DEF CRStates
  <2>5. TypeOK'
    BY <2>2, <2>3, <1>t DEF TypeOK
  <2>6. mem # Gone => mem.rv <= cr.rv /\ mem.rv \in Nat
    BY <2>2, <1>t, <1>r DEF Holding, TypeOK
  <2> QED BY <2>2, <2>4, <2>5, <2>6, <1>t, <1>r DEF HostInv, Holding, LookedUp
<1>12. CASE UserDeletes
  <2>1. /\ cr \in CRStates /\ UNCHANGED <<pc, mem, client, gate, users, world, faults>>
        /\ cr' \in {Gone, [cr EXCEPT !.deleting = TRUE, !.rv = @ + 1]}
    BY <1>12, <1>t DEF UserDeletes, TypeOK
  <2>2. CASE cr' = Gone
    <3>1. TypeOK'
      BY <2>1, <2>2, <1>t DEF TypeOK
    <3> QED BY <2>1, <2>2, <3>1, <1>t DEF HostInv, Holding, LookedUp
  <2>3. CASE cr' = [cr EXCEPT !.deleting = TRUE, !.rv = @ + 1]
    <3>1. cr' \in CRStates
      <4> DEFINE x == [cr EXCEPT !.deleting = TRUE]
                 n == cr.rv + 1
      <4>1. x \in CRStates /\ n \in Nat
        BY <2>1, <1>r, FieldEdits
      <4>2. cr' = [x EXCEPT !.rv = n]
        BY <2>3
      <4> HIDE DEF x, n
      <4> QED BY <4>1, <4>2, FieldEdits
    <3>2. cr'.rv = cr.rv + 1
      BY <2>1, <2>3 DEF CRStates
    <3>3. TypeOK'
      BY <2>1, <3>1, <1>t DEF TypeOK
    <3>4. mem # Gone => mem.rv <= cr.rv /\ mem.rv \in Nat
      BY <2>1, <1>t, <1>r DEF Holding, TypeOK
    <3> QED BY <2>1, <3>2, <3>3, <3>4, <1>t, <1>r DEF HostInv, Holding, LookedUp
  <2> QED BY <2>1, <2>2, <2>3
<1>13. CASE WorldMoves
  <2>1. /\ entities' \in Seq(Entities) /\ accepted' \subseteq Tokens \cup Pairs
        /\ moves' \in 0 .. MaxMoves
        /\ UNCHANGED <<cr, pc, mem, client, gate, users, faults>>
    BY <1>13, <1>t DEF WorldMoves, TypeOK
  <2>2. TypeOK'
    BY <2>1, <1>t DEF TypeOK
  <2> QED BY <2>1, <2>2, <1>t DEF HostInv, Holding, LookedUp
<1>14. CASE UNCHANGED vars
  BY <1>14, <1>t DEF vars, HostInv, TypeOK, Holding, LookedUp
<1> QED
  BY <1>1, <1>2, <1>3, <1>4, <1>5, <1>6, <1>7, <1>8, <1>9, <1>10, <1>11, <1>12, <1>13, <1>14
  DEF Next, Step

LEMMA HostInvariant == Spec => []HostInv
BY HostInit, HostNext, PTL DEF Spec

(* Every variable holds what it is meant to; in particular the credentials of
   a Secret, under whatever conventions, make a client or none.            *)
THEOREM HostTypeCorrect == Spec => []TypeOK
<1>1. HostInv => TypeOK
  BY DEF HostInv
<1> QED BY HostInvariant, <1>1, PTL

(* What one step may write into the status. *)
LEMMA StatusStep ==
    ASSUME HostInv, [Next]_vars, cr # Gone, cr' # Gone, cr'.entity \notin {cr.entity, NoEntity}
    PROVE  Selects(cr'.spec, cr'.entity)
<1>t. cr \in CRStates
  BY DEF HostInv, TypeOK
<1>1. CASE WriteStatus
  <2> DEFINE next == [cr EXCEPT !.entity = mem.entity, !.ready = mem.ready]
  <2>1. cr.rv = mem.rv /\ mem # Gone /\ cr' \in {next, [next EXCEPT !.rv = @ + 1]}
    BY <1>1 DEF WriteStatus, CurrentVersion, HostInv, Holding
  <2>2. cr'.entity = mem.entity /\ cr'.spec = cr.spec
    BY <2>1, <1>t DEF CRStates
  <2>3. mem.entity \in {cr.entity, NoEntity} \/ Selects(cr.spec, mem.entity)
    BY <2>1 DEF HostInv, LookedUp
  <2> QED BY <2>2, <2>3
<1>2. CASE AddFinalizer
  BY <1>2, <1>t DEF AddFinalizer, CRStates
<1>3. CASE UserEdits
  BY <1>3, <1>t DEF UserEdits, CRStates
<1>4. CASE UserDeletes
  BY <1>4, <1>t DEF UserDeletes, CRStates
<1>5. CASE UNCHANGED cr \/ RemoveFinalizer
  BY <1>5 DEF RemoveFinalizer
<1> QED
  BY <1>1, <1>2, <1>3, <1>4, <1>5
  DEF Next, Step, vars, Establish, Connect, Observe, LookupFails, LoseUpdate, Interrupted, Restart,
      ReconcileConfig, UserConfigures, UserDeletesConfig, UserChangesSecret, WorldMoves

(* An entity that enters the status is one that the spec at that moment
   selects, whatever is edited while the lookup is under way: the version of
   the object in memory vouches for the spec it was looked up for.         *)
THEOREM EntityFitsSpec == Spec => NeverAnother
<1> DEFINE Fits == cr # Gone /\ cr' # Gone /\ cr'.entity \notin {cr.entity, NoEntity}
                   => Selects(cr'.spec, cr'.entity)
<1>1. HostInv /\ [Next]_vars => [Fits]_vars
  BY StatusStep
<1>2. Spec => [][Fits]_vars
  BY HostInvariant, <1>1, PTL DEF Spec
<1> QED BY <1>2 DEF NeverAnother
=============================================================================
