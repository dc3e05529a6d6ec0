------------------------ MODULE PolicyBindings_proofs ------------------------
(* Proofs about PolicyBindings, for any lists, groups and bounds. *)
EXTENDS PolicyBindings, TLAPS

USE BindingsAssumption

(* A reconcile in progress holds an object; one that is being deleted lists
   nothing that the server's copy does not list or an edit did not drop.   *)
Holding == pc # "idle" => mem # Gone

DeletionIsFinal ==
    mem # Gone /\ mem.deleting =>
        cr # Gone /\ cr.deleting /\ Listed(mem.spec) \subseteq Listed(cr.spec) \cup dropped

DeletesTheDeleted == pc \in {"delete", "unfinalize"} => mem.deleting

BindInv == TypeOK /\ Holding /\ DeletionIsFinal /\ DeletesTheDeleted

(* Every field an action assigns keeps an object of the cluster one. *)
LEMMA FieldEdits ==
    ASSUME NEW x \in CRStates
    PROVE  /\ \A s \in Seq(Items) : [x EXCEPT !.spec = s] \in CRStates
           /\ \A b \in BOOLEAN : [x EXCEPT !.named = b] \in CRStates
           /\ \A k \in {"none", "pending", "succeeded", "failed"} :
                 [x EXCEPT !.creation = k] \in CRStates
           /\ \A b \in BOOLEAN, k \in {"none", "pending", "succeeded", "failed"} :
                 [x EXCEPT !.named = b, !.creation = k] \in CRStates
           /\ [x EXCEPT !.finalizer = TRUE] \in CRStates
           /\ [x EXCEPT !.deleting = TRUE] \in CRStates
<1>1. \A s \in Seq(Items) : [x EXCEPT !.spec = s] \in CRStates
  BY DEF CRStates
<1>2. \A b \in BOOLEAN : [x EXCEPT !.named = b] \in CRStates
  BY DEF CRStates
<1>3. \A y \in CRStates, k \in {"none", "pending", "succeeded", "failed"} :
         [y EXCEPT !.creation = k] \in CRStates
  BY DEF CRStates
<1>4. \A b \in BOOLEAN, k \in {"none", "pending", "succeeded", "failed"} :
         [x EXCEPT !.named = b, !.creation = k] \in CRStates
  BY <1>2, <1>3
<1>5. [x EXCEPT !.finalizer = TRUE] \in CRStates /\ [x EXCEPT !.deleting = TRUE] \in CRStates
  BY DEF CRStates
<1> QED BY <1>1, <1>2, <1>3, <1>4, <1>5

LEMMA BindInit == Init => BindInv
<1> SUFFICES ASSUME Init PROVE BindInv
  OBVIOUS
<1>1. cr \in CRStates
  BY DEF Init, CRStates
<1>2. bindings \in [Policies -> Bounds \cup {Unbound}]
      /\ group \in Groups \cup {NoGroup} /\ ref \in Groups \cup {Unready}
  BY DEF Init
<1>3. TypeOK
  <2>1. bindings \in [Policies -> Bounds \cup {Unbound}]
    BY <1>2
  <2>2. /\ cr \in CRStates \cup {Gone} /\ mem \in CRStates \cup {Gone}
        /\ current \in BOOLEAN /\ pc \in Phases /\ obs \in {"absent", "stale", "current"} /\ at \in Nat
    BY <1>1 DEF Init, Phases
  <2>3. /\ to \in Groups \cup {NoGroup} /\ group \in Groups \cup {NoGroup}
        /\ ref \in Groups \cup {Unready} /\ ready \in BOOLEAN
    BY <1>2 DEF Init
  <2>4. /\ made \in SUBSET Policies /\ dropped \in SUBSET Policies
        /\ faults \in 0 .. MaxFaults /\ console \in 0 .. MaxConsole /\ edits \in 0 .. MaxEdits
    BY DEF Init
  <2>5. added \in BOOLEAN
    BY DEF Init
  <2> QED BY <2>1, <2>2, <2>3, <2>4, <2>5 DEF TypeOK
<1> QED BY <1>3 DEF Init, BindInv, Holding, DeletionIsFinal, DeletesTheDeleted

(* The items of the object in memory. *)
LEMMA ListedItems ==
    ASSUME BindInv, pc # "idle", InList
    PROVE  mem \in CRStates /\ mem.spec[at] \in Items
           /\ mem.spec[at].policy \in Policies /\ mem.spec[at].bounds \in Bounds
           /\ mem.spec[at].policy \in Listed(mem.spec)
<1>1. mem \in CRStates
  BY DEF BindInv, TypeOK, Holding
<1>2. mem.spec \in Seq(Items)
  BY <1>1 DEF CRStates
<1>3. at \in DOMAIN mem.spec /\ mem.spec[at] \in Items
  BY <1>2 DEF InList
<1>4. mem.spec[at].policy \in Policies /\ mem.spec[at].bounds \in Bounds
  BY <1>3 DEF Items
<1>5. mem.spec[at].policy \in Listed(mem.spec)
  BY <1>3 DEF Listed
<1> QED BY <1>1, <1>3, <1>4, <1>5

LEMMA PutType ==
    ASSUME BindInv, pc # "idle", InList, Put
    PROVE  bindings' \in [Policies -> Bounds \cup {Unbound}] /\ made' \in SUBSET Policies
BY ListedItems DEF Put, BindInv, TypeOK

(* What a reconcile keeps besides the object stays what it is meant to be. *)
LEMMA ScratchType ==
    ASSUME TypeOK, Finish \/ UNCHANGED <<current, obs, at, to>>
    PROVE  /\ current' \in BOOLEAN /\ obs' \in {"absent", "stale", "current"}
           /\ at' \in Nat /\ to' \in Groups \cup {NoGroup}
<1>1. CASE Finish
  BY <1>1 DEF Finish
<1>2. CASE UNCHANGED <<current, obs, at, to>>
  BY <1>2 DEF TypeOK
<1> QED BY <1>1, <1>2

(* A step that gives up leaves the object in memory what it was, or drops it. *)
LEMMA GaveUp ==
    ASSUME BindInv, pc # "idle", GiveUp
    PROVE  /\ mem' \in CRStates \cup {Gone} /\ current' \in BOOLEAN /\ pc' \in {"idle", "record"}
           /\ obs' \in {"absent", "stale", "current"} /\ at' \in Nat /\ to' \in Groups \cup {NoGroup}
           /\ pc' # "idle" => mem' # Gone
           /\ mem' # Gone => mem'.deleting = mem.deleting /\ mem'.spec = mem.spec /\ mem # Gone
<1>1. mem \in CRStates /\ mem # Gone
  BY DEF BindInv, TypeOK, Holding
<1> DEFINE m == [mem EXCEPT !.creation = "failed"]
<1>2. m \in CRStates
  BY <1>1, FieldEdits
<1>3. m.deleting = mem.deleting /\ m.spec = mem.spec
  BY <1>1 DEF CRStates
<1>4. \/ mem' = m /\ pc' = "record" /\ UNCHANGED <<current, obs, at, to>>
      \/ Finish
  BY DEF GiveUp
<1> HIDE DEF m
<1>5. m # Gone
  BY <1>2
<1>6. /\ current' \in BOOLEAN /\ obs' \in {"absent", "stale", "current"}
      /\ at' \in Nat /\ to' \in Groups \cup {NoGroup}
  BY <1>4, ScratchType DEF BindInv
<1>7. CASE mem' = m /\ pc' = "record"
  BY <1>1, <1>2, <1>3, <1>5, <1>6, <1>7
<1>8. CASE Finish
  BY <1>6, <1>8 DEF Finish
<1> QED BY <1>4, <1>7, <1>8

LEMMA BindNext == BindInv /\ [Next]_vars => BindInv'
<1> SUFFICES ASSUME BindInv, [Next]_vars PROVE BindInv'
  OBVIOUS
<1> USE DEF BindInv
<1>t. TypeOK /\ Holding /\ DeletionIsFinal /\ DeletesTheDeleted
  OBVIOUS
<1>1. CASE Connect
  BY <1>1 DEF Connect, TypeOK, Phases, env, refs, past, Holding, DeletionIsFinal, DeletesTheDeleted
<1>2. CASE Observe
  <2>1. PICK o \in Observations(mem) :
          LET m == [mem EXCEPT !.named = @ \/ o # "absent"] IN
          IF m.finalizer /\ ~m.deleting /\ o = "current" THEN Finish
          ELSE /\ mem' = m /\ obs' = o /\ UNCHANGED <<current, at, to>>
               /\ pc' = CASE m.deleting -> IF o = "absent" THEN "unfinalize" ELSE "delete"
                          [] ~m.deleting /\ ~m.finalizer -> "finalize"
                          [] OTHER -> AfterFinalizer(o)
    BY <1>2 DEF Observe
  <2> DEFINE m == [mem EXCEPT !.named = @ \/ o # "absent"]
  <2>2. mem \in CRStates /\ mem # Gone /\ pc = "observe"
    BY <1>2 DEF Observe, TypeOK, Holding
  <2>3. o \in {"absent", "stale", "current"}
    BY <2>1 DEF Observations
  <2>4. m \in CRStates /\ m.deleting = mem.deleting /\ m.spec = mem.spec /\ m.finalizer = mem.finalizer
        /\ m.deleting \in BOOLEAN
    BY <2>2 DEF CRStates
  <2>5. UNCHANGED <<cr, env, faults, console, edits>>
    BY <1>2 DEF Observe
  <2>6. CASE Finish
    BY <2>2, <2>5, <2>6 DEF Finish, TypeOK, Phases, env, refs, past, Holding, DeletionIsFinal, DeletesTheDeleted
  <2>7. CASE /\ mem' = m /\ obs' = o /\ UNCHANGED <<current, at, to>>
             /\ pc' = CASE m.deleting -> IF o = "absent" THEN "unfinalize" ELSE "delete"
                        [] ~m.deleting /\ ~m.finalizer -> "finalize"
                        [] OTHER -> AfterFinalizer(o)
    <3> HIDE DEF m
    <3>1. pc' \in Phases /\ (pc' \in {"delete", "unfinalize"} => m.deleting)
      BY <2>3, <2>4, <2>7 DEF AfterFinalizer, Phases
    <3>2. TypeOK'
      BY <2>3, <2>4, <2>5, <2>7, <3>1 DEF TypeOK, env, refs, past
    <3> QED BY <2>2, <2>4, <2>5, <2>7, <3>1, <3>2 DEF env, refs, past, Holding, DeletionIsFinal, DeletesTheDeleted
  <2> QED BY <2>1, <2>6, <2>7
<1>3. CASE AddFinalizer
  <2> DEFINE m == [mem EXCEPT !.finalizer = TRUE]
  <2>1. mem \in CRStates /\ m \in CRStates /\ m # Gone
    BY <1>3, FieldEdits DEF AddFinalizer, TypeOK, Holding
  <2>2. AfterFinalizer(obs) \in {"pend", "update", "idle"}
    BY DEF AfterFinalizer
  <2>3. cr' = m /\ UNCHANGED <<env, faults, console, edits>>
        /\ (Finish \/ (mem' = m /\ pc' = AfterFinalizer(obs) /\ UNCHANGED <<current, obs, at, to>>))
    BY <1>3 DEF AddFinalizer
  <2> HIDE DEF m
  <2>4. TypeOK'
    <3>1. /\ current' \in BOOLEAN /\ obs' \in {"absent", "stale", "current"}
          /\ at' \in Nat /\ to' \in Groups \cup {NoGroup}
      BY <2>3, ScratchType
    <3>2. mem' \in CRStates \cup {Gone} /\ pc' \in Phases
      BY <2>1, <2>2, <2>3 DEF Finish, Phases
    <3> QED BY <2>1, <2>3, <3>1, <3>2 DEF TypeOK, env, refs, past
  <2> QED BY <2>1, <2>2, <2>3, <2>4 DEF Finish, Holding, DeletionIsFinal, DeletesTheDeleted
<1>4. CASE AnnounceCreate
  <2> DEFINE m == [mem EXCEPT !.creation = "pending"]
  <2>1. m \in CRStates /\ m # Gone
    BY <1>4, FieldEdits DEF AnnounceCreate, TypeOK, Holding
  <2>2. cr' = m /\ mem' = m /\ pc' = "create"
        /\ UNCHANGED <<current, obs, at, to, env, faults, console, edits>>
    BY <1>4 DEF AnnounceCreate
  <2> HIDE DEF m
  <2>3. TypeOK'
    BY <2>1, <2>2 DEF TypeOK, Phases, env, refs, past
  <2> QED BY <2>1, <2>2, <2>3 DEF Holding, DeletionIsFinal, DeletesTheDeleted
<1>5. CASE Begin
  BY <1>5 DEF Begin, Resolve, TypeOK, env, refs, past, Holding, DeletionIsFinal, DeletesTheDeleted
<1>6. CASE ResolveFails
  <2>1. GiveUp /\ pc # "idle" /\ UNCHANGED <<cr, env, faults, console, edits>>
    BY <1>6 DEF ResolveFails
  <2>2. TypeOK'
    BY <2>1, GaveUp DEF TypeOK, Phases, env, refs, past
  <2> QED BY <2>1, <2>2, GaveUp DEF env, refs, past, Holding, DeletionIsFinal, DeletesTheDeleted
<1>7. CASE SetNext
  <2>1. TypeOK'
    BY <1>7, PutType DEF SetNext, TypeOK, refs, past
  <2> QED BY <1>7, <2>1 DEF env, refs, past, SetNext, Holding, DeletionIsFinal, DeletesTheDeleted
<1>8. CASE SetRefused
  <2>1. GiveUp /\ pc # "idle" /\ UNCHANGED <<cr, env, faults, console, edits>>
    BY <1>8 DEF SetRefused
  <2>2. TypeOK'
    BY <2>1, GaveUp DEF TypeOK, Phases, env, refs, past
  <2> QED BY <2>1, <2>2, GaveUp DEF env, refs, past, Holding, DeletionIsFinal, DeletesTheDeleted
<1>9. CASE SetFails
  <2>1. GiveUp /\ pc # "idle" /\ UNCHANGED <<cr, refs, past, console, edits>> /\ Fault
    BY <1>9 DEF SetFails
  <2>2. bindings' \in [Policies -> Bounds \cup {Unbound}] /\ made' \in SUBSET Policies
    BY <1>9, PutType DEF SetFails, TypeOK
  <2>3. TypeOK'
    BY <2>1, <2>2, GaveUp DEF TypeOK, Phases, refs, past, Fault
  <2> QED BY <2>1, <2>3, GaveUp DEF env, refs, past, Holding, DeletionIsFinal, DeletesTheDeleted
<1>10. CASE AllSet
  <2> DEFINE m == [mem EXCEPT !.named = TRUE, !.creation = "succeeded"]
  <2>1. mem \in CRStates /\ mem # Gone /\ m \in CRStates
    BY <1>10, FieldEdits DEF AllSet, TypeOK, Holding
  <2>2. m.deleting = mem.deleting /\ m.spec = mem.spec
    BY <2>1 DEF CRStates
  <2>3. UNCHANGED <<cr, env, faults, console, edits>>
        /\ (Finish \/ (mem' = m /\ pc' = "record" /\ UNCHANGED <<current, obs, at, to>>))
    BY <1>10 DEF AllSet
  <2> HIDE DEF m
  <2>4. TypeOK'
    <3>1. /\ current' \in BOOLEAN /\ obs' \in {"absent", "stale", "current"}
          /\ at' \in Nat /\ to' \in Groups \cup {NoGroup}
      BY <2>3, ScratchType
    <3>2. mem' \in CRStates \cup {Gone} /\ pc' \in Phases
      BY <2>1, <2>3 DEF Finish, Phases
    <3> QED BY <2>3, <3>1, <3>2 DEF TypeOK, env, refs, past
  <2> QED BY <2>1, <2>2, <2>3, <2>4 DEF env, refs, past, Finish, Holding, DeletionIsFinal, DeletesTheDeleted
<1>11. CASE RecordCreate
  <2>1. mem \in CRStates /\ cr \in CRStates
    BY <1>11 DEF RecordCreate, TypeOK, Holding
  <2>2. mem.named \in BOOLEAN /\ mem.creation \in {"none", "pending", "succeeded", "failed"}
    BY <2>1 DEF CRStates
  <2>3. cr' \in CRStates
    BY <1>11, <2>1, <2>2, FieldEdits DEF RecordCreate
  <2>4. TypeOK'
    BY <1>11, <2>3 DEF RecordCreate, TypeOK, Finish, Phases, env, refs, past
  <2> QED BY <1>11, <2>4 DEF RecordCreate, Finish, Holding, DeletionIsFinal, DeletesTheDeleted
<1>12. CASE UnsetNext
  <2>1. bindings' \in [Policies -> Bounds \cup {Unbound}] /\ made' \in SUBSET Policies
        /\ faults' \in 0 .. MaxFaults
    BY <1>12 DEF UnsetNext, TypeOK, Fault
  <2>2. TypeOK'
    BY <1>12, <2>1 DEF UnsetNext, TypeOK, refs, past
  <2> QED BY <1>12, <2>2 DEF env, refs, past, UnsetNext, Holding, DeletionIsFinal, DeletesTheDeleted
<1>13. CASE AllUnset
  BY <1>13 DEF AllUnset, TypeOK, Finish, Phases, env, refs, past, Holding, DeletionIsFinal, DeletesTheDeleted
<1>14. CASE RemoveFinalizer
  BY <1>14 DEF RemoveFinalizer, TypeOK, Finish, Phases, env, refs, past, Holding, DeletionIsFinal, DeletesTheDeleted
<1>15. CASE LoseUpdate
  BY <1>15 DEF LoseUpdate, TypeOK, Finish, Phases, env, refs, past, Holding, DeletionIsFinal, DeletesTheDeleted
<1>16. CASE Interrupted
  BY <1>16 DEF Interrupted, Fault, TypeOK, Finish, Phases, env, refs, past, Holding, DeletionIsFinal, DeletesTheDeleted
<1>17. CASE UserEdits
  <2>1. PICK s \in EditableTo :
          /\ cr' = [cr EXCEPT !.spec = s]
          /\ dropped' = dropped \cup (Listed(cr.spec) \ Listed(s))
          /\ added' = (added \/ ~(Listed(s) \subseteq Listed(cr.spec)))
    BY <1>17 DEF UserEdits
  <2>2. cr \in CRStates /\ s \in Seq(Items)
    BY <1>17 DEF UserEdits, TypeOK
  <2>3. cr' \in CRStates
    BY <2>1, <2>2, FieldEdits
  <2>4. cr.spec \in Seq(Items)
    BY <2>2 DEF CRStates
  <2>5. Listed(cr.spec) \subseteq Policies
    <3>1. \A i \in DOMAIN cr.spec : cr.spec[i] \in Items
      BY <2>4
    <3> QED BY <3>1 DEF Listed, Items
  <2>6. dropped' \in SUBSET Policies
    BY <2>1, <2>5 DEF TypeOK
  <2>7. added' \in BOOLEAN
    BY <2>1 DEF TypeOK
  <2>8. current' \in BOOLEAN /\ edits' \in 0 .. MaxEdits
    BY <1>17 DEF UserEdits, Outdate, TypeOK
  <2>9. TypeOK'
    BY <1>17, <2>3, <2>6, <2>7, <2>8 DEF UserEdits, TypeOK, refs
  <2>10. cr'.deleting = cr.deleting /\ cr'.spec = s /\ cr' # Gone
    BY <2>1, <2>2, <2>3 DEF CRStates
  <2>11. Listed(cr'.spec) = Listed(s)
    BY <2>10
  <2>12. DeletionIsFinal'
    <3>1. SUFFICES ASSUME mem # Gone, mem.deleting
                   PROVE  cr.deleting /\ Listed(mem.spec) \subseteq Listed(s) \cup dropped'
      BY <1>17, <2>10, <2>11 DEF UserEdits, DeletionIsFinal, Listed
    <3>2. cr.deleting /\ Listed(mem.spec) \subseteq Listed(cr.spec) \cup dropped
      BY <3>1 DEF DeletionIsFinal
    <3> QED BY <2>1, <3>2
  <2> QED BY <1>17, <2>9, <2>12 DEF UserEdits, Holding, DeletesTheDeleted
<1>18. CASE UserDeletes
  <2>1. cr \in CRStates /\ ~cr.deleting
    BY <1>18 DEF UserDeletes, TypeOK
  <2>2. cr' \in CRStates \cup {Gone} /\ current' \in BOOLEAN
    BY <1>18, <2>1, FieldEdits DEF UserDeletes, Outdate
  <2>3. TypeOK'
    BY <1>18, <2>2 DEF UserDeletes, TypeOK, env, refs, past
  <2> QED BY <1>18, <2>1, <2>3 DEF UserDeletes, Holding, DeletionIsFinal, DeletesTheDeleted
<1>19. CASE AdminChanges
  <2>1. bindings' \in [Policies -> Bounds \cup {Unbound}] /\ console' \in 0 .. MaxConsole
    BY <1>19 DEF AdminChanges, TypeOK
  <2>2. TypeOK'
    BY <1>19, <2>1 DEF AdminChanges, TypeOK, refs, past
  <2> QED BY <1>19, <2>2 DEF env, refs, past, AdminChanges, Holding, DeletionIsFinal, DeletesTheDeleted
<1>20. CASE AdminDeletesGroup
  BY <1>20 DEF AdminDeletesGroup, GroupGoes, TypeOK, past, Holding, DeletionIsFinal, DeletesTheDeleted
<1>21. CASE GroupDeleted
  BY <1>21 DEF GroupDeleted, GroupGoes, TypeOK, past, Holding, DeletionIsFinal, DeletesTheDeleted
<1>22. CASE GroupMade
  BY <1>22 DEF GroupMade, TypeOK, past, Holding, DeletionIsFinal, DeletesTheDeleted
<1>23. CASE GroupTold
  BY <1>23 DEF GroupTold, TypeOK, past, Holding, DeletionIsFinal, DeletesTheDeleted
<1>24. CASE ReferencesChange
  BY <1>24 DEF ReferencesChange, TypeOK, past, Holding, DeletionIsFinal, DeletesTheDeleted
<1>25. CASE UNCHANGED vars
  BY <1>25 DEF vars, env, refs, past, TypeOK, Holding, DeletionIsFinal, DeletesTheDeleted
<1> QED
  BY <1>1, <1>2, <1>3, <1>4, <1>5, <1>6, <1>7, <1>8, <1>9, <1>10, <1>11, <1>12, <1>13, <1>14,
     <1>15, <1>16, <1>17, <1>18, <1>19, <1>20, <1>21, <1>22, <1>23, <1>24, <1>25 DEF Next, Step

LEMMA BindInvariant == Spec => []BindInv
BY BindInit, BindNext, PTL DEF Spec

(* Every variable holds what it is meant to, whatever fails or is edited. *)
THEOREM BindingsTypeCorrect == Spec => []TypeOK
<1>1. BindInv => TypeOK
  BY DEF BindInv
<1> QED BY BindInvariant, <1>1, PTL

(* What one step of the provider may unbind. *)
LEMMA UnbindingStep ==
    ASSUME BindInv, [Next]_vars, NEW p \in Policies, Bound(p), bindings'[p] = Unbound,
           console' = console, group' = group
    PROVE  cr # Gone /\ cr.deleting /\ p \in Listed(cr.spec) \cup dropped
<1>1. CASE SetNext \/ SetFails
  <2>1. Put /\ pc # "idle" /\ InList
    BY <1>1 DEF SetNext, SetFails, Bound
  <2>2. bindings'[p] # Unbound
    BY <2>1, ListedItems DEF Put, Bound, BindInv, TypeOK
  <2> QED BY <2>2
<1>2. CASE UnsetNext
  <2>1. pc = "delete" /\ InList /\ p = mem.spec[at].policy
    BY <1>2 DEF UnsetNext, Bound, BindInv, TypeOK
  <2>2. mem # Gone /\ mem.deleting /\ p \in Listed(mem.spec)
    BY <2>1, ListedItems DEF BindInv, Holding, DeletesTheDeleted
  <2> QED BY <2>2 DEF BindInv, DeletionIsFinal
<1>3. ~(AdminChanges \/ AdminDeletesGroup \/ GroupDeleted)
  BY DEF AdminChanges, AdminDeletesGroup, GroupDeleted, GroupGoes, BindInv, TypeOK
<1>4. bindings' # bindings
  BY DEF Bound
<1>5. SetNext \/ SetFails \/ UnsetNext
  BY <1>3, <1>4 DEF Next, Step, vars, env, Connect, Observe, AddFinalizer, AnnounceCreate, Begin,
     ResolveFails, SetRefused, AllSet, RecordCreate, AllUnset, RemoveFinalizer, LoseUpdate,
     Interrupted, UserEdits, UserDeletes, GroupMade, GroupTold, ReferencesChange
<1> QED BY <1>1, <1>2, <1>5

(* The provider unbinds a policy only for a resource that is being deleted and
   whose spec, as the API server has it at that moment, lists the policy, or
   did so until an edit took the policy from the list.  It rests on the object
   in memory listing nothing else.                                         *)
THEOREM UnbindsOnlyWhatIsListed == Spec => UnbindsOnlyListed
<1> DEFINE Step1 == \A p \in Policies :
                Bound(p) /\ bindings'[p] = Unbound /\ console' = console /\ group' = group
                => cr # Gone /\ cr.deleting /\ p \in Listed(cr.spec) \cup dropped
<1>1. BindInv /\ [Next]_vars => [Step1]_vars
  BY UnbindingStep
<1>2. Spec => [][Step1]_vars
  BY BindInvariant, <1>1, PTL DEF Spec
<1> QED BY <1>2 DEF UnbindsOnlyListed

-----------------------------------------------------------------------------
(* A teardown that nothing interrupts.                                     *)

(* What a reconcile knows of the resource: a current copy has the server's
   list, and one with a finalizer keeps the resource in the cluster.       *)
MemoryKnows ==
    /\ pc = "idle" => mem = Gone
    /\ mem # Gone /\ current => cr # Gone /\ cr.spec = mem.spec
    /\ mem # Gone /\ mem.finalizer => cr # Gone /\ cr.finalizer
    /\ pc \in {"pend", "create", "update", "record"} => mem.finalizer

(* What an operation was told of the group is outdated once the group is made
   anew, and nothing is bound before the reference follows.                *)
GroupKnown ==
    /\ to # NoGroup /\ to = group => ref = group
    /\ ref # group \/ group = NoGroup => made = {}
    /\ pc \in {"idle", "observe", "finalize", "pend"} => at = 0
    /\ pc \in {"create", "update", "delete"} /\ at > 0 => to # NoGroup

LEMMA KnowledgeInit == Init => MemoryKnows /\ GroupKnown
BY DEF Init, MemoryKnows, GroupKnown

(* An action that assigns some fields leaves the others alone. *)
LEMMA FieldsKept ==
    ASSUME NEW x \in CRStates
    PROVE  /\ \A b \in BOOLEAN : [x EXCEPT !.named = b].spec = x.spec
                                 /\ [x EXCEPT !.named = b].finalizer = x.finalizer
                                 /\ [x EXCEPT !.named = b].deleting = x.deleting
           /\ \A k : [x EXCEPT !.creation = k].spec = x.spec
                     /\ [x EXCEPT !.creation = k].finalizer = x.finalizer
           /\ \A b, k : [x EXCEPT !.named = b, !.creation = k].spec = x.spec
                        /\ [x EXCEPT !.named = b, !.creation = k].finalizer = x.finalizer
           /\ \A s : [x EXCEPT !.spec = s].finalizer = x.finalizer
                     /\ [x EXCEPT !.spec = s].spec = s
           /\ [x EXCEPT !.finalizer = TRUE].spec = x.spec
           /\ [x EXCEPT !.finalizer = TRUE].finalizer = TRUE
           /\ [x EXCEPT !.deleting = TRUE].spec = x.spec
           /\ [x EXCEPT !.deleting = TRUE].finalizer = x.finalizer
BY DEF CRStates

(* What Observe does to the reconcile. *)
LEMMA Observing ==
    ASSUME BindInv, Observe
    PROVE  /\ UNCHANGED <<cr, env, faults, console, edits>> /\ pc = "observe"
           /\ \/ Finish
              \/ \E o \in Observations(mem) :
                    /\ mem' \in CRStates /\ mem'.spec = mem.spec
                    /\ mem'.finalizer = mem.finalizer /\ mem'.deleting = mem.deleting
                    /\ UNCHANGED <<current, at, to>>
                    /\ pc' \in {"unfinalize", "delete", "finalize", "pend", "update"}
                    /\ pc' \in {"pend", "update"} => mem.finalizer
                    /\ pc' = "update" => o = "stale"
                    /\ pc' \in {"unfinalize", "pend"} => o = "absent"
<1>1. PICK o \in Observations(mem) :
          LET m == [mem EXCEPT !.named = @ \/ o # "absent"] IN
          IF m.finalizer /\ ~m.deleting /\ o = "current" THEN Finish
          ELSE /\ mem' = m /\ obs' = o /\ UNCHANGED <<current, at, to>>
               /\ pc' = CASE m.deleting -> IF o = "absent" THEN "unfinalize" ELSE "delete"
                          [] ~m.deleting /\ ~m.finalizer -> "finalize"
                          [] OTHER -> AfterFinalizer(o)
  BY DEF Observe
<1> DEFINE m == [mem EXCEPT !.named = @ \/ o # "absent"]
<1>2. mem \in CRStates /\ pc = "observe" /\ UNCHANGED <<cr, env, faults, console, edits>>
  BY DEF Observe, BindInv, TypeOK, Holding
<1>3. o \in {"absent", "stale", "current"}
  BY <1>1 DEF Observations
<1>4. m \in CRStates /\ m.spec = mem.spec /\ m.finalizer = mem.finalizer /\ m.deleting = mem.deleting
      /\ m.finalizer \in BOOLEAN /\ m.deleting \in BOOLEAN
  BY <1>2 DEF CRStates
<1>5. CASE m.finalizer /\ ~m.deleting /\ o = "current"
  BY <1>1, <1>2, <1>5
<1>6. CASE ~(m.finalizer /\ ~m.deleting /\ o = "current")
  <2>1. /\ mem' = m /\ UNCHANGED <<current, at, to>>
        /\ pc' = CASE m.deleting -> IF o = "absent" THEN "unfinalize" ELSE "delete"
                   [] ~m.deleting /\ ~m.finalizer -> "finalize"
                   [] OTHER -> AfterFinalizer(o)
    BY <1>1, <1>6
  <2> HIDE DEF m
  <2>2. CASE m.deleting
    <3>1. pc' = IF o = "absent" THEN "unfinalize" ELSE "delete"
      BY <2>1, <2>2
    <3> QED BY <1>2, <1>4, <2>1, <2>2, <3>1
  <2>3. CASE ~m.deleting /\ ~m.finalizer
    <3>1. pc' = "finalize"
      BY <2>1, <2>3
    <3> QED BY <1>2, <1>4, <2>1, <2>3, <3>1
  <2>4. CASE ~m.deleting /\ m.finalizer
    <3>1. pc' = AfterFinalizer(o)
      BY <2>1, <2>4
    <3>2. /\ pc' \in {"pend", "update"} /\ (pc' = "update" => o = "stale")
          /\ (pc' = "pend" => o = "absent")
      BY <1>3, <1>6, <2>4, <3>1 DEF AfterFinalizer
    <3> QED BY <1>2, <1>4, <2>1, <2>4, <3>2
  <2> QED BY <1>4, <2>2, <2>3, <2>4
<1> QED BY <1>5, <1>6

(* What AddFinalizer does to it. *)
LEMMA Finalizing ==
    ASSUME BindInv, AddFinalizer
    PROVE  /\ UNCHANGED <<env, faults, console, edits>> /\ pc = "finalize"
           /\ cr # Gone /\ current /\ cr' \in CRStates
           /\ cr'.spec = mem.spec /\ cr'.finalizer
           /\ \/ Finish
              \/ mem' = cr' /\ pc' \in {"pend", "update"} /\ UNCHANGED <<current, at, to>>
<1> DEFINE m == [mem EXCEPT !.finalizer = TRUE]
<1>1. mem \in CRStates
  BY DEF AddFinalizer, BindInv, TypeOK, Holding
<1>2. m \in CRStates /\ m.spec = mem.spec /\ m.finalizer
  BY <1>1, FieldEdits, FieldsKept
<1>3. obs # "current" => AfterFinalizer(obs) \in {"pend", "update"}
  BY DEF AfterFinalizer, BindInv, TypeOK
<1>4. UNCHANGED <<env, faults, console, edits>> /\ pc = "finalize" /\ CurrentVersion /\ cr' = m
      /\ (Finish \/ (obs # "current" /\ mem' = m /\ pc' = AfterFinalizer(obs)
                     /\ UNCHANGED <<current, obs, at, to>>))
  BY DEF AddFinalizer
<1> HIDE DEF m
<1> QED BY <1>2, <1>3, <1>4 DEF CurrentVersion
(* What giving up does to it. *)
LEMMA GivingUp ==
    ASSUME BindInv, pc # "idle", GiveUp
    PROVE  \/ Finish /\ pc # "create"
           \/ /\ mem' \in CRStates /\ mem'.spec = mem.spec
              /\ mem'.finalizer = mem.finalizer
              /\ pc = "create" /\ pc' = "record" /\ UNCHANGED <<current, at, to>>
<1> DEFINE m == [mem EXCEPT !.creation = "failed"]
<1>1. mem \in CRStates
  BY DEF BindInv, TypeOK, Holding
<1>2. m \in CRStates /\ m.spec = mem.spec /\ m.finalizer = mem.finalizer
  BY <1>1, FieldEdits, FieldsKept
<1>3. \/ mem' = m /\ pc = "create" /\ pc' = "record" /\ UNCHANGED <<current, obs, at, to>>
      \/ Finish /\ pc # "create"
  BY DEF GiveUp
<1> HIDE DEF m
<1> QED BY <1>2, <1>3

(* What the end of a list does to it. *)
LEMMA AllDone ==
    ASSUME BindInv, AllSet
    PROVE  \/ Finish
           \/ /\ mem' \in CRStates /\ mem'.spec = mem.spec
              /\ mem'.finalizer = mem.finalizer
              /\ pc = "create" /\ pc' = "record" /\ UNCHANGED <<current, at, to>>
<1> DEFINE m == [mem EXCEPT !.named = TRUE, !.creation = "succeeded"]
<1>1. mem \in CRStates
  BY DEF AllSet, BindInv, TypeOK, Holding
<1>2. m \in CRStates /\ m.spec = mem.spec /\ m.finalizer = mem.finalizer
  <2>1. m \in CRStates
    BY <1>1, FieldEdits
  <2>2. m.spec = mem.spec /\ m.finalizer = mem.finalizer
    BY <1>1 DEF CRStates
  <2> QED BY <2>1, <2>2
<1>3. \/ Finish
      \/ mem' = m /\ pc = "create" /\ pc' = "record" /\ UNCHANGED <<current, obs, at, to>>
  BY DEF AllSet
<1> HIDE DEF m
<1> QED BY <1>2, <1>3

LEMMA MemoryKnowsNext == BindInv /\ MemoryKnows /\ [Next]_vars => MemoryKnows'
<1> SUFFICES ASSUME BindInv, MemoryKnows, [Next]_vars PROVE MemoryKnows'
  OBVIOUS
<1>t. /\ cr \in CRStates \cup {Gone} /\ mem \in CRStates \cup {Gone}
      /\ pc # "idle" => mem # Gone
  BY DEF BindInv, TypeOK, Holding
<1>f. Finish => MemoryKnows'
  BY DEF Finish, MemoryKnows
<1>1. CASE Connect
  BY <1>1 DEF Connect, MemoryKnows
<1>2. CASE Observe
  BY <1>2, <1>f, <1>t, Observing DEF MemoryKnows
<1>3. CASE AddFinalizer
  BY <1>3, <1>f, Finalizing DEF MemoryKnows
<1>4. CASE AnnounceCreate
  <2> DEFINE m == [mem EXCEPT !.creation = "pending"]
  <2>1. m \in CRStates /\ m.spec = mem.spec /\ m.finalizer = mem.finalizer
    BY <1>4, <1>t, FieldEdits, FieldsKept DEF AnnounceCreate
  <2>2. pc = "pend" /\ cr' = m /\ mem' = m /\ pc' = "create"
    BY <1>4 DEF AnnounceCreate
  <2> HIDE DEF m
  <2> QED BY <2>1, <2>2, <1>t DEF MemoryKnows
<1>5. CASE Begin
  BY <1>5 DEF Begin, MemoryKnows
<1>6. CASE ResolveFails \/ SetRefused \/ SetFails
  <2>1. GiveUp /\ pc # "idle" /\ UNCHANGED cr
    BY <1>6 DEF ResolveFails, SetRefused, SetFails
  <2> QED BY <2>1, <1>t, <1>f, GivingUp DEF MemoryKnows
<1>7. CASE AllSet
  <2>1. UNCHANGED cr
    BY <1>7 DEF AllSet
  <2> QED BY <2>1, <1>7, <1>t, <1>f, AllDone DEF MemoryKnows
<1>8. CASE RecordCreate \/ AllUnset \/ RemoveFinalizer \/ LoseUpdate \/ Interrupted
  BY <1>8, <1>f DEF RecordCreate, AllUnset, RemoveFinalizer, LoseUpdate, Interrupted
<1>9. CASE UserEdits
  <2>1. /\ cr # Gone /\ current' = (pc = "idle") /\ UNCHANGED <<pc, mem>>
        /\ cr' \in CRStates /\ cr'.finalizer = cr.finalizer
    <3>1. PICK s \in EditableTo : cr' = [cr EXCEPT !.spec = s]
      BY <1>9 DEF UserEdits
    <3>2. cr # Gone /\ current' = (pc = "idle") /\ UNCHANGED <<pc, mem>>
      BY <1>9 DEF UserEdits, Outdate
    <3>3. cr \in CRStates /\ s \in Seq(Items)
      BY <3>2, <1>t
    <3> QED BY <3>1, <3>2, <3>3, FieldEdits, FieldsKept
  <2> QED BY <2>1 DEF MemoryKnows
<1>10. CASE UserDeletes
  <2>1. /\ cr # Gone /\ current' = (pc = "idle") /\ UNCHANGED <<pc, mem>>
        /\ cr.finalizer => cr' \in CRStates /\ cr'.finalizer
    BY <1>10, <1>t, FieldEdits, FieldsKept DEF UserDeletes, Outdate
  <2> QED BY <2>1, <1>t DEF MemoryKnows
<1>11. CASE UNCHANGED <<cr, pc, mem, current>>
  BY <1>11 DEF MemoryKnows
<1> QED
  BY <1>1, <1>2, <1>3, <1>4, <1>5, <1>6, <1>7, <1>8, <1>9, <1>10, <1>11
  DEF Next, Step, vars, SetNext, UnsetNext, AdminChanges, AdminDeletesGroup, GroupDeleted,
      GroupGoes, GroupMade, GroupTold, ReferencesChange

LEMMA GroupKnownNext == BindInv /\ GroupKnown /\ [Next]_vars => GroupKnown'
<1> SUFFICES ASSUME BindInv, GroupKnown, [Next]_vars PROVE GroupKnown'
  OBVIOUS
<1>t. /\ at \in Nat /\ to \in Groups \cup {NoGroup} /\ group \in Groups \cup {NoGroup}
      /\ ref \in Groups \cup {Unready}
  BY DEF BindInv, TypeOK
<1> USE DEF env, refs
<1>f. Finish /\ UNCHANGED <<group, ref, made>> => GroupKnown'
  BY DEF Finish, GroupKnown
<1>1. CASE Connect
  BY <1>1 DEF Connect, GroupKnown
<1>2. CASE Observe
  <2>1. pc = "observe" /\ UNCHANGED <<group, ref, made>> /\ (Finish \/ UNCHANGED <<at, to>>)
    BY <1>2, Observing
  <2> QED BY <2>1, <1>f DEF GroupKnown
<1>3. CASE AddFinalizer
  <2>1. pc = "finalize" /\ UNCHANGED <<group, ref, made>> /\ (Finish \/ UNCHANGED <<at, to>>)
    BY <1>3, Finalizing
  <2> QED BY <2>1, <1>f DEF GroupKnown
<1>4. CASE AnnounceCreate
  BY <1>4 DEF AnnounceCreate, GroupKnown
<1>5. CASE Begin
  BY <1>5, <1>t DEF Begin, Resolve, GroupKnown
<1>6. CASE ResolveFails \/ SetRefused
  <2>1. GiveUp /\ pc # "idle" /\ UNCHANGED <<group, ref, made>>
    BY <1>6 DEF ResolveFails, SetRefused
  <2> QED BY <2>1, <1>f, GivingUp DEF GroupKnown
<1>7. CASE SetNext
  <2>1. mem \in CRStates
    BY <1>7 DEF SetNext, BindInv, TypeOK, Holding
  <2>2. at > 0
    BY <1>7, <2>1 DEF SetNext, InList, CRStates
  <2> QED BY <1>7, <2>2, <1>t DEF SetNext, GroupKnown
<1>8. CASE SetFails
  <2>1. GiveUp /\ pc # "idle" /\ UNCHANGED <<group, ref>> /\ to = group
        /\ pc \in {"create", "update"} /\ InList
    BY <1>8 DEF SetFails
  <2>2. mem \in CRStates
    BY <2>1 DEF BindInv, TypeOK, Holding
  <2>3. at > 0
    BY <2>1, <2>2 DEF InList, CRStates
  <2>4. ref = group /\ group # NoGroup
    BY <2>1, <2>3, <1>t DEF GroupKnown
  <2> QED BY <2>1, <2>4, <1>t, GivingUp DEF GroupKnown, Finish
<1>9. CASE AllSet
  BY <1>9, <1>f, AllDone DEF AllSet, GroupKnown
<1>10. CASE UnsetNext
  <2>1. mem \in CRStates
    BY <1>10 DEF UnsetNext, BindInv, TypeOK, Holding
  <2>2. at > 0
    BY <1>10, <2>1 DEF UnsetNext, InList, CRStates
  <2> QED BY <1>10, <2>2, <1>t DEF UnsetNext, GroupKnown
<1>11. CASE RecordCreate \/ AllUnset \/ RemoveFinalizer \/ LoseUpdate \/ Interrupted
  BY <1>11, <1>f DEF RecordCreate, AllUnset, RemoveFinalizer, LoseUpdate, Interrupted
<1>12. CASE AdminDeletesGroup \/ GroupDeleted
  BY <1>12, <1>t DEF AdminDeletesGroup, GroupDeleted, GroupGoes, GroupKnown
<1>13. CASE GroupMade
  BY <1>13, <1>t DEF GroupMade, GroupKnown
<1>14. CASE GroupTold
  BY <1>14, <1>t DEF GroupTold, GroupKnown
<1>15. CASE UNCHANGED <<pc, at, to, group, ref, made>>
  BY <1>15 DEF GroupKnown
<1> QED
  BY <1>1, <1>2, <1>3, <1>4, <1>5, <1>6, <1>7, <1>8, <1>9, <1>10, <1>11, <1>12, <1>13, <1>14, <1>15
  DEF Next, Step, vars, UserEdits, UserDeletes, AdminChanges, ReferencesChange
(* No call failed, nobody used the console, and no edit added a policy. *)
Quiet == faults = 0 /\ console = 0 /\ ~added

(* What a teardown has to unbind. *)
Ours == made \ dropped

Underway == pc \in {"create", "update", "delete"} /\ at > 0

(* What the resource made is bound and listed; nothing before its finalizer
   and nothing after it, if the object in memory may still take it away.   *)
OursListed ==
    /\ cr = Gone => Ours = {}
    /\ cr # Gone /\ ~cr.finalizer => made = {}
    /\ cr # Gone => Ours \subseteq Listed(cr.spec)
    /\ \A p \in made : Bound(p)
    /\ pc = "unfinalize" /\ current => Ours = {}

(* An edit that adds nothing leaves the list in memory the longer one. *)
ListsAgree ==
    cr # Gone /\ mem # Gone => /\ Listed(mem.spec) \subseteq Listed(cr.spec) \cup dropped
                               /\ Listed(cr.spec) \subseteq Listed(mem.spec)

(* Between operations a list is bound as a whole, or not ours. *)
AllOrNothing ==
    cr # Gone /\ ~Underway /\ Ours # {} => \A p \in Listed(cr.spec) : Bound(p)

(* How far an operation got; one that knows a former group has nothing. *)
Progress ==
    Underway =>
        /\ to # group => made = {}
        /\ pc # "delete" /\ to = group =>
              \A i \in DOMAIN mem.spec : i < at => Bound(mem.spec[i].policy)
        /\ pc = "delete" => \A p \in Ours : \E i \in DOMAIN mem.spec : i >= at /\ mem.spec[i].policy = p

Clean == OursListed /\ ListsAgree /\ AllOrNothing /\ Progress

CleanInv == Quiet => Clean

LEMMA CleanInit == Init => CleanInv
BY DEF Init, CleanInv, Clean, OursListed, ListsAgree, AllOrNothing, Progress, Ours, Underway

(* Quiet cannot be regained, and nothing fails before it is lost. *)
LEMMA QuietBefore ==
    ASSUME BindInv, [Next]_vars, Quiet'
    PROVE  Quiet /\ ~Fault /\ ~(console' = console + 1)
<1>1. faults \in Nat /\ console \in Nat /\ added \in BOOLEAN
  BY DEF BindInv, TypeOK
<1>2. ~Fault /\ ~(console' = console + 1)
  BY <1>1 DEF Quiet, Fault
<1>3. faults = 0
  BY <1>1, <1>2 DEF Quiet, Next, Step, vars, env, Connect, Observe, AddFinalizer, AnnounceCreate, Begin,
     ResolveFails, SetNext, SetFails, SetRefused, AllSet, RecordCreate, UnsetNext, AllUnset,
     RemoveFinalizer, LoseUpdate, Interrupted, UserEdits, UserDeletes, AdminChanges,
     AdminDeletesGroup, GroupDeleted, GroupGoes, GroupMade, GroupTold, ReferencesChange
<1>4. console = 0
  BY <1>1, <1>2 DEF Quiet, Next, Step, vars, env, Connect, Observe, AddFinalizer, AnnounceCreate, Begin,
     ResolveFails, SetNext, SetFails, SetRefused, AllSet, RecordCreate, UnsetNext, AllUnset,
     RemoveFinalizer, LoseUpdate, Interrupted, UserEdits, UserDeletes, AdminChanges,
     AdminDeletesGroup, GroupDeleted, GroupGoes, GroupMade, GroupTold, ReferencesChange
<1>5. UNCHANGED added \/ UserEdits
  BY DEF Next, Step, vars, env, past, Connect, Observe, AddFinalizer, AnnounceCreate, Begin,
     ResolveFails, SetNext, SetFails, SetRefused, AllSet, RecordCreate, UnsetNext, AllUnset,
     RemoveFinalizer, LoseUpdate, Interrupted, UserDeletes, AdminChanges,
     AdminDeletesGroup, GroupDeleted, GroupGoes, GroupMade, GroupTold, ReferencesChange
<1>6. ~added
  BY <1>5 DEF UserEdits, Quiet
<1> QED BY <1>2, <1>3, <1>4, <1>6 DEF Quiet

(* A resource being deleted that Observe calls absent has nothing to unbind. *)
LEMMA AbsentHasNothing ==
    ASSUME BindInv, GroupKnown, Clean, cr # Gone, cr.spec = mem.spec, ~Underway,
           "absent" \in Observations(mem)
    PROVE  Ours = {}
<1>1. CASE ref # group \/ \A p \in Policies : ~Bound(p)
  <2>1. made \subseteq Policies
    BY DEF BindInv, TypeOK
  <2>2. made = {}
    BY <1>1, <2>1 DEF GroupKnown, Clean, OursListed
  <2> QED BY <2>2 DEF Ours
<1>2. CASE ~(ref # group \/ \A p \in Policies : ~Bound(p))
  <2>1. PICK i \in DOMAIN mem.spec : ~Bound(mem.spec[i].policy)
    BY <1>2 DEF Observations
  <2>2. mem.spec[i].policy \in Listed(cr.spec)
    BY <2>1 DEF Listed
  <2> QED BY <2>1, <2>2 DEF Clean, AllOrNothing
<1> QED BY <1>1, <1>2

(* An operation or a reconcile that ends, or goes on to a step that is not one
   of the list, with the bindings as they are.                             *)
LEMMA CleanApart ==
    ASSUME Clean, UNCHANGED <<cr, bindings, made, dropped>>, ~Underway',
           ~Underway \/ Ours = {} \/ \A p \in Listed(cr.spec) : Bound(p),
           mem' = Gone \/ mem' = cr \/ (mem # Gone /\ mem'.spec = mem.spec),
           pc' = "unfinalize" /\ current' => Ours = {}
    PROVE  Clean'
<1>1. OursListed'
  BY DEF Clean, OursListed, Ours, Bound
<1>2. ListsAgree'
  BY DEF Clean, ListsAgree
<1>3. AllOrNothing'
  BY DEF Clean, AllOrNothing, Ours, Bound
<1>4. Progress'
  BY DEF Progress
<1> QED BY <1>1, <1>2, <1>3, <1>4 DEF Clean

(* What happens outside the reconcile, with the bindings as they are. *)
LEMMA CleanOutside ==
    ASSUME Clean, UNCHANGED <<cr, pc, mem, current, at, to, group, bindings, made, dropped>>
    PROVE  Clean'
BY DEF Clean, OursListed, ListsAgree, AllOrNothing, Progress, Ours, Underway, Bound

LEMMA CleanNext ==
    ASSUME BindInv, MemoryKnows, GroupKnown, CleanInv, [Next]_vars
    PROVE  CleanInv'
<1> SUFFICES ASSUME Quiet' PROVE Clean'
  BY DEF CleanInv
<1>q. Quiet /\ Clean /\ ~Fault /\ ~(console' = console + 1)
  BY QuietBefore DEF CleanInv
<1>t. /\ cr \in CRStates \cup {Gone} /\ mem \in CRStates \cup {Gone} /\ at \in Nat
      /\ made \subseteq Policies /\ bindings \in [Policies -> Bounds \cup {Unbound}]
      /\ pc # "idle" => mem # Gone
      /\ pc \in {"delete", "unfinalize"} => cr # Gone
  BY DEF BindInv, TypeOK, Holding, DeletionIsFinal, DeletesTheDeleted
<1>z. mem # Gone => Len(mem.spec) \in Nat /\ DOMAIN mem.spec = 1 .. Len(mem.spec)
  BY <1>t DEF CRStates
<1>e. UNCHANGED env => UNCHANGED <<bindings, made, dropped, group>>
  BY DEF env, refs, past
<1>a. pc \in {"idle", "observe", "finalize", "pend", "record", "unfinalize"} => ~Underway
  BY DEF Underway
<1>s. ~Underway /\ cr # Gone => Ours = {} \/ \A p \in Listed(cr.spec) : Bound(p)
  BY <1>q DEF Clean, AllOrNothing
<1>1. CASE Connect
  BY <1>1, <1>e, <1>a, <1>s, <1>q, CleanApart DEF Connect, Underway
<1>2. CASE Observe
  <2>1. /\ UNCHANGED <<cr, bindings, made, dropped>> /\ pc = "observe" /\ ~Underway
    BY <1>2, <1>e, <1>a, Observing
  <2>2. CASE Finish
    BY <2>1, <2>2, <1>q, CleanApart DEF Finish, Underway
  <2>3. ASSUME NEW o \in Observations(mem), mem' \in CRStates, mem'.spec = mem.spec,
               UNCHANGED <<current, at>>, pc' = "unfinalize" => o = "absent",
               pc' \in {"unfinalize", "delete", "finalize", "pend", "update"}
        PROVE  Clean'
    <3>1. ~Underway'
      BY <2>1, <2>3 DEF Underway, GroupKnown
    <3>2. pc' = "unfinalize" /\ current' => Ours = {}
      <4> SUFFICES ASSUME pc' = "unfinalize", current' PROVE Ours = {}
        OBVIOUS
      <4>1. cr # Gone /\ cr.spec = mem.spec
        BY <2>1, <2>3, <1>t DEF MemoryKnows
      <4> QED BY <2>1, <2>3, <4>1, <1>q, AbsentHasNothing
    <3>3. mem # Gone
      BY <2>1, <1>t
    <3>4. cr = Gone => Ours = {}
      BY <1>q DEF Clean, OursListed
    <3> QED BY <2>1, <2>3, <3>1, <3>2, <3>3, <1>q, CleanApart
  <2> QED BY <1>2, <2>2, <2>3, Observing
<1>3. CASE AddFinalizer
  <2>1. /\ UNCHANGED <<bindings, made, dropped, group>> /\ pc = "finalize" /\ ~Underway
        /\ cr # Gone /\ cr.spec = mem.spec /\ mem # Gone /\ at = 0
        /\ cr' \in CRStates /\ cr'.spec = cr.spec /\ cr'.finalizer
        /\ mem' \in {Gone, cr'} /\ pc' \in {"idle", "pend", "update"} /\ at' = 0
    BY <1>3, <1>e, <1>a, <1>t, Finalizing DEF MemoryKnows, GroupKnown, Finish
  <2>2. cr' # Gone /\ ~Underway'
    BY <2>1 DEF Underway
  <2> QED BY <2>1, <2>2, <1>q DEF Clean, OursListed, ListsAgree, AllOrNothing, Progress, Ours, Bound
<1>4. CASE AnnounceCreate
  <2> DEFINE m == [mem EXCEPT !.creation = "pending"]
  <2>1. m \in CRStates /\ m.spec = mem.spec /\ m.finalizer = mem.finalizer /\ mem # Gone
    BY <1>4, <1>t, FieldEdits, FieldsKept DEF AnnounceCreate
  <2>2. pc = "pend" /\ current /\ cr # Gone /\ cr' = m /\ mem' = m /\ pc' = "create" /\ at' = at
        /\ UNCHANGED env
    BY <1>4 DEF AnnounceCreate, CurrentVersion
  <2> HIDE DEF m
  <2>3. at = 0 /\ cr.spec = mem.spec /\ mem.finalizer /\ cr' # Gone
    BY <2>1, <2>2 DEF MemoryKnows, GroupKnown
  <2>4. ~Underway /\ ~Underway'
    BY <2>2, <2>3 DEF Underway
  <2> QED BY <2>1, <2>2, <2>3, <2>4, <1>e, <1>q DEF Clean, OursListed, ListsAgree, AllOrNothing, Progress, Ours, Bound
<1>5. CASE Begin
  <2>1. /\ pc \in {"create", "update", "delete"} /\ at = 0 /\ at' = 1 /\ to' = ref /\ mem # Gone
        /\ UNCHANGED <<cr, pc, mem, bindings, made, dropped, group>>
    BY <1>5, <1>e, <1>t DEF Begin
  <2>2. OursListed' /\ ListsAgree'
    BY <2>1, <1>q DEF Clean, OursListed, ListsAgree, Ours, Bound
  <2>3. Underway'
    BY <2>1 DEF Underway
  <2>4. to' # group' => made' = {}
    BY <2>1 DEF GroupKnown
  <2>5. \A i \in DOMAIN mem'.spec : ~(i < at')
    BY <2>1, <1>z
  <2>6. pc' = "delete" =>
           \A p \in Ours' : \E i \in DOMAIN mem'.spec : i >= at' /\ mem'.spec[i].policy = p
    <3> SUFFICES ASSUME pc = "delete", NEW p \in Ours
                 PROVE  \E i \in DOMAIN mem.spec : i >= 1 /\ mem.spec[i].policy = p
      BY <2>1 DEF Ours
    <3>1. p \in Listed(mem.spec)
      BY <2>1, <1>t, <1>q DEF Clean, OursListed, ListsAgree
    <3>2. PICK i \in DOMAIN mem.spec : mem.spec[i].policy = p
      BY <3>1 DEF Listed
    <3>3. i \in 1 .. Len(mem.spec) /\ Len(mem.spec) \in Nat
      BY <2>1, <1>z
    <3> QED BY <3>2, <3>3
  <2> QED BY <2>2, <2>3, <2>4, <2>5, <2>6 DEF Clean, AllOrNothing, Progress
<1>6. CASE ResolveFails \/ SetRefused
  <2>1. GiveUp /\ pc # "idle" /\ mem # Gone /\ UNCHANGED <<cr, bindings, made, dropped>>
    BY <1>6, <1>e, <1>t DEF ResolveFails, SetRefused
  <2>2. mem' = Gone \/ mem'.spec = mem.spec
    BY <2>1, GivingUp DEF Finish
  <2>3. pc' \in {"idle", "record"}
    BY <2>1, GivingUp DEF Finish
  <2>4. ~Underway \/ Ours = {} \/ \A p \in Listed(cr.spec) : Bound(p)
    <3>1. CASE ResolveFails
      BY <3>1 DEF ResolveFails, Underway
    <3>2. CASE SetRefused
      <4>1. pc \in {"create", "update"} /\ at > 0 /\ to # group
        BY <3>2, <2>1, <1>z DEF SetRefused, InList
      <4>2. made = {}
        BY <4>1, <1>q DEF Clean, Progress, Underway
      <4> QED BY <4>2 DEF Ours
    <3> QED BY <1>6, <3>1, <3>2
  <2> QED BY <2>1, <2>2, <2>3, <2>4, <1>q, CleanApart DEF Underway
<1>7. CASE SetNext
  <2> DEFINE q == mem.spec[at].policy
  <2>1. /\ pc \in {"create", "update"} /\ InList /\ to = group /\ at' = at + 1
        /\ UNCHANGED <<cr, pc, mem, to, group, dropped>> /\ mem # Gone
    BY <1>7, <1>t DEF SetNext, refs, past
  <2>2. at \in DOMAIN mem.spec /\ at > 0 /\ q \in Listed(mem.spec) /\ q \in Policies
        /\ mem.spec[at].bounds \in Bounds
    BY <2>1, <1>z, ListedItems DEF InList
  <2>3. made' = made \cup {q} /\ bindings' = [bindings EXCEPT ![q] = mem.spec[at].bounds]
    BY <1>7 DEF SetNext, Put
  <2> HIDE DEF q
  <2>4. \A p \in Policies : Bound(p) \/ p = q => bindings'[p] # Unbound
    BY <2>2, <2>3, <1>t DEF Bound
  <2>5. cr # Gone /\ cr.finalizer
    BY <2>1 DEF MemoryKnows
  <2>6. Ours' \subseteq Listed(cr.spec)
    BY <2>1, <2>2, <2>3, <2>5, <1>q DEF Clean, OursListed, ListsAgree, Ours
  <2>7. OursListed'
    BY <2>1, <2>2, <2>3, <2>4, <2>5, <2>6, <1>t, <1>q DEF Clean, OursListed, Bound
  <2>8. ListsAgree'
    BY <2>1, <1>q DEF Clean, ListsAgree
  <2>9. Underway /\ Underway'
    BY <2>1, <2>2, <1>t DEF Underway
  <2>10. \A i \in DOMAIN mem.spec : i < at + 1 => bindings'[mem.spec[i].policy] # Unbound
    <3> SUFFICES ASSUME NEW i \in DOMAIN mem.spec, i < at + 1
                 PROVE  bindings'[mem.spec[i].policy] # Unbound
      OBVIOUS
    <3>0. mem.spec \in Seq(Items)
      BY <2>1, <1>t DEF CRStates
    <3>1. mem.spec[i].policy \in Policies
      <4>1. mem.spec[i] \in Items
        BY <3>0
      <4> QED BY <4>1 DEF Items
    <3>2. CASE i = at
      BY <2>4, <3>1, <3>2 DEF q
    <3>3. CASE i < at
      BY <2>1, <2>4, <2>9, <3>1, <3>3, <1>q DEF Clean, Progress
    <3>4. i \in 1 .. Len(mem.spec) /\ Len(mem.spec) \in Nat
      BY <2>1, <1>z
    <3>5. i = at \/ i < at
      BY <3>4, <1>t
    <3> QED BY <3>2, <3>3, <3>5
  <2>11. Progress'
    BY <2>1, <2>10 DEF Progress, Bound
  <2> QED BY <2>7, <2>8, <2>9, <2>11 DEF Clean, AllOrNothing
<1>8. CASE AllSet
  <2>1. pc \in {"create", "update"} /\ at > Len(mem.spec) /\ mem # Gone
        /\ UNCHANGED <<cr, bindings, made, dropped>>
    BY <1>8, <1>e, <1>t DEF AllSet
  <2>2. pc' \in {"idle", "record"} /\ (mem' = Gone \/ mem'.spec = mem.spec)
    BY <1>8, AllDone DEF Finish
  <2>3. Underway
    BY <2>1, <1>z, <1>t DEF Underway
  <2>4. cr # Gone
    BY <2>1 DEF MemoryKnows
  <2>5. Ours = {} \/ \A p \in Listed(cr.spec) : Bound(p)
    <3>1. CASE to # group
      BY <2>3, <3>1, <1>q DEF Clean, Progress, Ours
    <3>2. CASE to = group
      <4>1. \A i \in DOMAIN mem.spec : Bound(mem.spec[i].policy)
        BY <2>1, <2>3, <3>2, <1>q, <1>z, <1>t DEF Clean, Progress
      <4>2. \A p \in Listed(mem.spec) : Bound(p)
        BY <4>1 DEF Listed
      <4> QED BY <2>1, <2>4, <4>2, <1>q DEF Clean, ListsAgree
    <3> QED BY <3>1, <3>2
  <2> QED BY <2>1, <2>2, <2>5, <1>q, CleanApart DEF Underway
<1>9. CASE RecordCreate
  <2>1. cr # Gone /\ Finish /\ UNCHANGED <<bindings, made, dropped>> /\ ~Underway
        /\ cr' = [cr EXCEPT !.named = mem.named, !.creation = mem.creation]
    BY <1>9, <1>e, <1>a DEF RecordCreate
  <2>2. cr'.spec = cr.spec /\ cr'.finalizer = cr.finalizer
    BY <2>1, <1>t DEF CRStates
  <2>3. ~Underway' /\ pc' = "idle" /\ mem' = Gone
    BY <2>1 DEF Finish, Underway
  <2>4. cr' # Gone
    <3>1. cr \in CRStates /\ mem \in CRStates
      BY <1>9, <1>t DEF RecordCreate
    <3>2. mem.named \in BOOLEAN /\ mem.creation \in {"none", "pending", "succeeded", "failed"}
      BY <3>1 DEF CRStates
    <3>3. cr' \in CRStates
      BY <2>1, <3>1, <3>2, FieldEdits
    <3> QED BY <3>3
  <2> QED BY <2>1, <2>2, <2>3, <2>4, <1>q DEF Clean, OursListed, ListsAgree, AllOrNothing, Progress, Ours, Bound
<1>10. CASE UnsetNext
  <2> DEFINE q == mem.spec[at].policy
  <2>1. /\ pc = "delete" /\ InList /\ at' = at + 1 /\ mem # Gone /\ cr # Gone
        /\ UNCHANGED <<cr, pc, mem, to, group, dropped>>
    BY <1>10, <1>t DEF UnsetNext, refs, past
  <2>2. at \in DOMAIN mem.spec /\ at > 0 /\ q \in Policies
    BY <2>1, <1>z, ListedItems DEF InList
  <2>3. \/ /\ made' = made \ {q} /\ bindings' = [bindings EXCEPT ![q] = Unbound]
        \/ to # group /\ made' = made /\ bindings' = bindings
    BY <1>10, <1>q DEF UnsetNext
  <2> HIDE DEF q
  <2>4. made' \subseteq made /\ (\A p \in made' : Bound(p)')
    BY <2>2, <2>3, <1>t, <1>q DEF Clean, OursListed, Bound
  <2>5. Underway /\ Underway'
    BY <2>1, <2>2, <1>t DEF Underway
  <2>6. OursListed'
    BY <2>1, <2>4, <1>q DEF Clean, OursListed, Ours
  <2>7. ListsAgree'
    BY <2>1, <1>q DEF Clean, ListsAgree
  <2>8. to # group => made = {}
    BY <2>5, <1>q DEF Clean, Progress
  <2>9. \A p \in Ours' : \E i \in DOMAIN mem.spec : i >= at + 1 /\ mem.spec[i].policy = p
    <3> SUFFICES ASSUME NEW p \in Ours'
                 PROVE  \E i \in DOMAIN mem.spec : i >= at + 1 /\ mem.spec[i].policy = p
      OBVIOUS
    <3>1. p \in Ours /\ p # q
      BY <2>1, <2>3, <2>8 DEF Ours
    <3>2. PICK i \in DOMAIN mem.spec : i >= at /\ mem.spec[i].policy = p
      BY <2>1, <2>5, <3>1, <1>q DEF Clean, Progress
    <3>3. i # at
      BY <3>1, <3>2 DEF q
    <3> QED BY <3>2, <3>3, <1>t, <1>z, <2>1
  <2>10. Progress'
    BY <2>1, <2>4, <2>8, <2>9 DEF Progress
  <2> QED BY <2>5, <2>6, <2>7, <2>10 DEF Clean, AllOrNothing
<1>11. CASE AllUnset
  <2>1. pc = "delete" /\ at > Len(mem.spec) /\ mem # Gone /\ Finish
        /\ UNCHANGED <<cr, bindings, made, dropped>>
    BY <1>11, <1>e, <1>t DEF AllUnset
  <2>2. Underway
    BY <2>1, <1>z, <1>t DEF Underway
  <2>3. Ours = {}
    BY <2>1, <2>2, <1>q, <1>z, <1>t DEF Clean, Progress
  <2> QED BY <2>1, <2>3, <1>q, CleanApart DEF Finish, Underway
<1>12. CASE RemoveFinalizer
  <2>1. Ours = {} /\ cr' = Gone /\ Finish /\ UNCHANGED <<bindings, made, dropped>>
    BY <1>12, <1>e, <1>q DEF RemoveFinalizer, CurrentVersion, Clean, OursListed
  <2> QED BY <2>1, <1>q DEF Finish, Clean, OursListed, ListsAgree, AllOrNothing, Progress, Ours, Bound, Underway
<1>13. CASE LoseUpdate
  <2>1. ~Underway /\ Finish /\ UNCHANGED <<cr, bindings, made, dropped>>
    BY <1>13, <1>e, <1>a DEF LoseUpdate
  <2>2. cr = Gone => Ours = {}
    BY <1>q DEF Clean, OursListed
  <2> QED BY <2>1, <2>2, <1>q, CleanApart DEF Finish, Underway
<1>14. CASE UserEdits
  <2>1. PICK s \in EditableTo :
          /\ cr' = [cr EXCEPT !.spec = s]
          /\ dropped' = dropped \cup (Listed(cr.spec) \ Listed(s))
          /\ added' = (added \/ ~(Listed(s) \subseteq Listed(cr.spec)))
    BY <1>14 DEF UserEdits
  <2>2. cr # Gone /\ (current' => pc = "idle")
        /\ UNCHANGED <<pc, mem, at, to, bindings, made, group>>
    BY <1>14 DEF UserEdits, Outdate, refs
  <2>3. cr' \in CRStates /\ cr'.spec = s /\ cr'.finalizer = cr.finalizer /\ cr' # Gone
    <3>1. cr \in CRStates /\ s \in Seq(Items)
      BY <2>2, <1>t
    <3>2. cr' \in CRStates
      BY <2>1, <3>1, FieldEdits
    <3>3. cr'.spec = s /\ cr'.finalizer = cr.finalizer
      BY <2>1, <3>1, FieldsKept
    <3> QED BY <3>2, <3>3
  <2>4. Listed(s) \subseteq Listed(cr.spec)
    BY <2>1, <1>q DEF Quiet
  <2>5. Ours' \subseteq Ours
    BY <2>1, <2>2 DEF Ours
  <2>6. OursListed'
    BY <2>1, <2>2, <2>3, <2>5, <1>q DEF Clean, OursListed, Ours, Bound
  <2>7. ListsAgree'
    BY <2>1, <2>2, <2>3, <2>4, <1>q DEF Clean, ListsAgree
  <2>8. AllOrNothing'
    BY <2>2, <2>3, <2>4, <2>5, <1>q DEF Clean, AllOrNothing, Underway, Bound
  <2>9. Progress'
    BY <2>2, <2>5, <1>q DEF Clean, Progress, Underway, Bound
  <2> QED BY <2>6, <2>7, <2>8, <2>9 DEF Clean
<1>15. CASE UserDeletes
  <2>1. cr # Gone /\ (current' => pc = "idle")
        /\ UNCHANGED <<pc, mem, at, to, bindings, made, dropped, group>>
    BY <1>15, <1>e DEF UserDeletes, Outdate
  <2>2. CASE cr.finalizer
    <3>1. cr' \in CRStates /\ cr'.spec = cr.spec /\ cr'.finalizer /\ cr' # Gone
      BY <1>15, <2>1, <2>2, <1>t, FieldEdits, FieldsKept DEF UserDeletes
    <3> QED BY <2>1, <3>1, <1>q DEF Clean, OursListed, ListsAgree, AllOrNothing, Progress, Ours, Bound, Underway
  <2>3. CASE ~cr.finalizer
    <3>1. cr' = Gone /\ made = {}
      BY <1>15, <2>1, <2>3, <1>q DEF UserDeletes, Clean, OursListed
    <3> QED BY <2>1, <3>1, <1>q DEF Clean, OursListed, ListsAgree, AllOrNothing, Progress, Ours, Bound, Underway
  <2> QED BY <2>2, <2>3
<1>16. CASE GroupDeleted
  <2>1. made' = {} /\ group' = NoGroup /\ UNCHANGED <<cr, pc, mem, at, to, dropped>>
    BY <1>16 DEF GroupDeleted, GroupGoes, past
  <2>2. Ours' = {}
    BY <2>1 DEF Ours
  <2>3. Progress'
    BY <2>1, <2>2 DEF Progress, Underway, GroupKnown
  <2> QED BY <2>1, <2>2, <2>3, <1>q DEF Clean, OursListed, ListsAgree, AllOrNothing
<1>17. CASE GroupMade
  <2>1. made = {} /\ to # group' /\ UNCHANGED <<cr, pc, mem, at, to, bindings, made, dropped>>
    BY <1>17 DEF GroupMade, GroupKnown, past
  <2> QED BY <2>1, <1>q DEF Clean, OursListed, ListsAgree, AllOrNothing, Progress, Ours, Bound, Underway
<1>18. CASE GroupTold \/ ReferencesChange \/ UNCHANGED vars
  BY <1>18, <1>q, CleanOutside DEF GroupTold, ReferencesChange, vars, env, refs, past
<1>19. ~(SetFails \/ Interrupted \/ AdminChanges \/ AdminDeletesGroup)
  BY <1>q DEF SetFails, Interrupted, AdminChanges, AdminDeletesGroup
<1> QED
  BY <1>1, <1>2, <1>3, <1>4, <1>5, <1>6, <1>7, <1>8, <1>9, <1>10, <1>11, <1>12, <1>13, <1>14, <1>15,
     <1>16, <1>17, <1>18, <1>19 DEF Next, Step

(* A teardown that nothing interrupts leaves no binding behind, whenever the
   user asked for it and whatever became of the group meanwhile.  The policies
   of a list are bound as a whole between operations, so one that is missing
   shows that none is the resource's any more.                             *)
THEOREM TeardownIsClean == Spec => []CleanTeardown
<1> DEFINE Inv == BindInv /\ MemoryKnows /\ GroupKnown /\ CleanInv
<1>1. Init => Inv
  BY BindInit, KnowledgeInit, CleanInit
<1>2. Inv /\ [Next]_vars => Inv'
  BY BindNext, MemoryKnowsNext, GroupKnownNext, CleanNext
<1>3. Inv => CleanTeardown
  BY DEF CleanInv, Quiet, Clean, OursListed, Ours, CleanTeardown
<1> QED BY <1>1, <1>2, <1>3, PTL DEF Spec
=============================================================================
