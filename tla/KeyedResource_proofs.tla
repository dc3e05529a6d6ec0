------------------------ MODULE KeyedResource_proofs ------------------------
(***************************************************************************)
(* Proofs about KeyedResource, for any keys, resources, length of a page   *)
(* and bounds, and for both kinds.                                         *)
(***************************************************************************)
EXTENDS KeyedResource, FiniteSetTheorems, TLAPS

USE KeyedAssumption

(* A reconcile in progress holds an object; a listing begins at page 1; an
   object being deleted is named by its key, which is the one of the spec
   unless the object in memory is a former version.                        *)
Holding(c) ==
    /\ pc[c] = "idle" <=> mem[c] = Gone
    /\ pc[c] # "observe" => page[c] = 1
    /\ mem[c] # Gone /\ mem[c].deleting =>
          cr[c] # Gone /\ cr[c].deleting /\ (current[c] => cr[c].key = mem[c].key)
    /\ pc[c] \in {"delete", "unfinalize"} => mem[c].deleting
    /\ pc[c] = "delete" => mem[c].extName = mem[c].key

KeyInv == TypeOK /\ \A c \in CRs : Holding(c)

-----------------------------------------------------------------------------
(* Objects and pages.                                                      *)

Outcomes == {"none", "pending", "succeeded", "failed"}

(* Every field an action assigns keeps an object of the cluster one ... *)
LEMMA FieldEdits ==
    ASSUME NEW x \in CRStates
    PROVE  /\ \A k \in Keys : [x EXCEPT !.key = k] \in CRStates
           /\ \A e \in Keys \cup {Unnamed} : [x EXCEPT !.extName = e] \in CRStates
           /\ \A o \in Outcomes : [x EXCEPT !.creation = o] \in CRStates
           /\ \A e \in Keys \cup {Unnamed}, o \in Outcomes :
                 [x EXCEPT !.extName = e, !.creation = o] \in CRStates
           /\ [x EXCEPT !.finalizer = TRUE] \in CRStates
           /\ [x EXCEPT !.deleting = TRUE] \in CRStates
<1>1. \A k \in Keys : [x EXCEPT !.key = k] \in CRStates
  BY DEF CRStates
<1>2. \A e \in Keys \cup {Unnamed} : [x EXCEPT !.extName = e] \in CRStates
  BY DEF CRStates
<1>3. \A y \in CRStates, o \in Outcomes : [y EXCEPT !.creation = o] \in CRStates
  BY DEF CRStates, Outcomes
<1>4. \A e \in Keys \cup {Unnamed}, o \in Outcomes :
         [x EXCEPT !.extName = e, !.creation = o] \in CRStates
  BY <1>2, <1>3
<1>5. [x EXCEPT !.finalizer = TRUE] \in CRStates /\ [x EXCEPT !.deleting = TRUE] \in CRStates
  BY DEF CRStates
<1> QED BY <1>1, <1>2, <1>3, <1>4, <1>5

(* ... and leaves the other fields alone. *)
LEMMA FieldsKept ==
    ASSUME NEW x \in CRStates
    PROVE  /\ \A e : LET y == [x EXCEPT !.extName = e] IN
                 y.key = x.key /\ y.finalizer = x.finalizer /\ y.deleting = x.deleting /\ y.extName = e
           /\ \A o : LET y == [x EXCEPT !.creation = o] IN
                 y.key = x.key /\ y.finalizer = x.finalizer /\ y.deleting = x.deleting
           /\ \A e, o : LET y == [x EXCEPT !.extName = e, !.creation = o] IN
                 y.key = x.key /\ y.finalizer = x.finalizer /\ y.deleting = x.deleting
           /\ LET y == [x EXCEPT !.finalizer = TRUE] IN
                 y.key = x.key /\ y.finalizer /\ y.deleting = x.deleting
           /\ LET y == [x EXCEPT !.deleting = TRUE] IN
                 y.key = x.key /\ y.finalizer = x.finalizer /\ y.deleting
           /\ \A k : LET y == [x EXCEPT !.key = k] IN
                 y.key = k /\ y.finalizer = x.finalizer /\ y.deleting = x.deleting
BY DEF CRStates

(* The listing holds no more records than there are keys. *)
LEMMA ListedSize ==
    /\ Len(Order) \in Nat /\ DOMAIN Order = 1 .. Len(Order)
    /\ IsFiniteSet(Listed) /\ Cardinality(Listed) \in Nat /\ Cardinality(Listed) <= Len(Order)
<1>1. Len(Order) \in Nat /\ DOMAIN Order = 1 .. Len(Order)
  OBVIOUS
<1>2. IsFiniteSet(1 .. Len(Order)) /\ Cardinality(1 .. Len(Order)) = Len(Order)
  <2>1. 1 \in Int /\ Len(Order) \in Int
    BY <1>1
  <2>2. /\ IsFiniteSet(1 .. Len(Order))
        /\ Cardinality(1 .. Len(Order)) = IF 1 > Len(Order) THEN 0 ELSE Len(Order) - 1 + 1
    BY <2>1, FS_Interval
  <2> QED BY <1>1, <2>2
<1>3. Listed \in SUBSET (1 .. Len(Order))
  BY <1>1 DEF Listed
<1> DEFINE S == 1 .. Len(Order)
<1>4. IsFiniteSet(Listed) /\ Cardinality(Listed) <= Len(Order)
  <2>1. IsFiniteSet(S) /\ Cardinality(S) = Len(Order) /\ Listed \in SUBSET S
    BY <1>2, <1>3
  <2> HIDE DEF S
  <2>2. IsFiniteSet(Listed) /\ Cardinality(Listed) <= Cardinality(S)
    BY <2>1, FS_Subset, Zenon
  <2> QED BY <2>1, <2>2
<1>5. Cardinality(Listed) \in Nat
  BY <1>4, FS_CardinalityType
<1> QED BY <1>1, <1>4, <1>5

LEMMA Products == \A p, s \in Nat : s # 0 => p * s >= p /\ p * s \in Nat
OBVIOUS

(* There is a next page only while there are more records than pages. *)
LEMMA NextPage ==
    ASSUME NEW p \in 1 .. Len(Order), HasNextPage(p)
    PROVE  p + 1 \in 1 .. Len(Order)
<1>1. p \in Nat /\ PageSize \in Nat /\ PageSize # 0
  BY ListedSize
<1>2. p * PageSize >= p /\ p * PageSize \in Nat
  BY <1>1, Products
<1> HIDE DEF HasNextPage
<1>3. Cardinality(Listed) > p * PageSize
  BY DEF HasNextPage
<1> QED BY <1>1, <1>2, <1>3, ListedSize

-----------------------------------------------------------------------------
(* The parts of a step.                                                    *)

TaskOK ==
    /\ mem \in [CRs -> CRStates \cup {Gone}] /\ pc \in [CRs -> Phases]
    /\ current \in [CRs -> BOOLEAN] /\ found \in [CRs -> BOOLEAN]
    /\ page \in [CRs -> 1 .. Len(Order)] /\ seen \in [CRs -> SUBSET Keys]

LEMMA FirstPage == ASSUME NEW c \in CRs PROVE 1 \in 1 .. Len(Order)
<1>1. InitialKey[c] \in Keys
  OBVIOUS
<1>2. DOMAIN Order # {}
  BY <1>1
<1> QED BY <1>2, ListedSize

LEMMA Finished ==
    ASSUME TaskOK, NEW c \in CRs, Finish(c)
    PROVE  /\ TaskOK'
           /\ pc'[c] = "idle" /\ mem'[c] = Gone /\ page'[c] = 1
           /\ \A d \in CRs \ {c} : pc'[d] = pc[d] /\ mem'[d] = mem[d] /\ page'[d] = page[d]
                                   /\ seen'[d] = seen[d] /\ current'[d] = current[d]
<1>1. current' \in [CRs -> BOOLEAN] /\ found' \in [CRs -> BOOLEAN]
  BY DEF Finish, TaskOK
<1>2. page' \in [CRs -> 1 .. Len(Order)] /\ seen' \in [CRs -> SUBSET Keys]
  BY FirstPage DEF Finish, TaskOK
<1>3. mem' \in [CRs -> CRStates \cup {Gone}] /\ pc' \in [CRs -> Phases]
  BY DEF Finish, Goto, TaskOK, Phases
<1> QED BY <1>1, <1>2, <1>3 DEF Finish, Goto, TaskOK

(* A step that goes on with object m. *)
GoesOn(c, m, phase) ==
    /\ mem' = [mem EXCEPT ![c] = m] /\ pc' = [pc EXCEPT ![c] = phase]
    /\ current' = current

(* What Observe leads to. *)
LEMMA Observing ==
    ASSUME TaskOK, NEW c \in CRs, mem[c] \in CRStates, NEW exists \in BOOLEAN, Observed(c, exists)
    PROVE  \/ Finish(c)
           \/ \E m \in CRStates, phase \in {"delete", "unfinalize", "finalize", "pend"} :
                 /\ GoesOn(c, m, phase)
                 /\ page' = [page EXCEPT ![c] = 1] /\ seen' = [seen EXCEPT ![c] = {}]
                 /\ found' = [found EXCEPT ![c] = exists]
                 /\ m.key = mem[c].key /\ m.finalizer = mem[c].finalizer /\ m.deleting = mem[c].deleting
                 /\ phase \in {"delete", "unfinalize"} => m.deleting
                 /\ phase = "delete" => m.extName = m.key
                 /\ phase = "unfinalize" => ~exists
                 /\ phase = "pend" => m.finalizer
<1> DEFINE m == IF exists THEN Identified(mem[c]) ELSE mem[c]
           phase == CASE m.deleting -> IF exists THEN "delete" ELSE "unfinalize"
                      [] ~m.deleting /\ ~m.finalizer -> "finalize"
                      [] OTHER -> "pend"
<1>1. mem[c].key \in Keys
  BY DEF CRStates
<1>2. /\ m \in CRStates /\ m.key = mem[c].key /\ m.finalizer = mem[c].finalizer
      /\ m.deleting = mem[c].deleting /\ (exists => m.extName = m.key)
  <2>1. CASE exists
    <3>1. m = [mem[c] EXCEPT !.extName = mem[c].key]
      BY <2>1 DEF Identified
    <3> HIDE DEF m
    <3>2. m \in CRStates
      BY <1>1, <3>1, FieldEdits
    <3>3. m.key = mem[c].key /\ m.finalizer = mem[c].finalizer
          /\ m.deleting = mem[c].deleting /\ m.extName = mem[c].key
      BY <3>1 DEF CRStates
    <3> QED BY <3>2, <3>3
  <2>2. CASE ~exists
    BY <2>2
  <2> QED BY <2>1, <2>2
<1>3. m.deleting \in BOOLEAN /\ m.finalizer \in BOOLEAN
  BY <1>2 DEF CRStates
<1>4. \/ Finish(c)
      \/ /\ GoesOn(c, m, phase) /\ page' = [page EXCEPT ![c] = 1] /\ seen' = [seen EXCEPT ![c] = {}]
         /\ found' = [found EXCEPT ![c] = exists]
  BY DEF Observed, Goto, GoesOn
<1> HIDE DEF m
<1>5. /\ phase \in {"delete", "unfinalize", "finalize", "pend"}
      /\ phase \in {"delete", "unfinalize"} => m.deleting
      /\ phase = "delete" => exists
      /\ phase = "unfinalize" => ~exists
      /\ phase = "pend" => m.finalizer
  <2>1. CASE m.deleting
    <3>1. phase = IF exists THEN "delete" ELSE "unfinalize"
      BY <2>1
    <3> QED BY <2>1, <3>1
  <2>2. CASE ~m.deleting /\ ~m.finalizer
    BY <2>2
  <2>3. CASE ~m.deleting /\ m.finalizer
    <3>1. phase = "pend"
      BY <2>3
    <3> QED BY <2>3, <3>1
  <2> QED BY <1>3, <2>1, <2>2, <2>3
<1> HIDE DEF phase
<1> QED BY <1>2, <1>4, <1>5

LEMMA WentOn ==
    ASSUME TaskOK, NEW c \in CRs, NEW m \in CRStates, NEW phase \in Phases, GoesOn(c, m, phase)
    PROVE  /\ mem' \in [CRs -> CRStates \cup {Gone}] /\ pc' \in [CRs -> Phases]
           /\ current' \in [CRs -> BOOLEAN]
           /\ mem'[c] = m /\ pc'[c] = phase
           /\ \A d \in CRs \ {c} : pc'[d] = pc[d] /\ mem'[d] = mem[d] /\ current'[d] = current[d]
BY DEF TaskOK, GoesOn

(* An object that goes on and was not read anew. *)
LEMMA WentOnAlone ==
    ASSUME TaskOK, NEW c \in CRs, NEW m \in CRStates, NEW phase \in Phases, GoesOn(c, m, phase),
           UNCHANGED <<page, seen, found>>
    PROVE  TaskOK'
BY WentOn DEF TaskOK

LEMMA HoldingElsewhere ==
    ASSUME NEW d \in CRs, Holding(d), pc'[d] = pc[d], mem'[d] = mem[d], page'[d] = page[d],
           current'[d] = current[d], cr'[d] = cr[d]
    PROVE  Holding(d)'
BY DEF Holding

LEMMA KeyInit == Init => KeyInv
<1> SUFFICES ASSUME Init PROVE KeyInv
  OBVIOUS
<1>1. cr \in [CRs -> CRStates \cup {Gone}]
  <2>1. \A c \in CRs : [key |-> InitialKey[c], extName |-> Unnamed, creation |-> "none",
                        finalizer |-> FALSE, deleting |-> FALSE] \in CRStates
    BY DEF CRStates
  <2> QED BY <2>1 DEF Init
<1>2. TaskOK
  BY FirstPage DEF Init, TaskOK, Phases
<1>3. ready \in [CRs -> BOOLEAN]
  BY DEF Init
<1>4. account \in [Keys -> CRs \cup {Foreign, NoRecord}]
  BY DEF Init
<1>5. kind \in Kinds /\ moved \in SUBSET CRs /\ shrunk \in SUBSET CRs
      /\ faults \in 0 .. MaxFaults /\ edits \in 0 .. MaxEdits
  BY DEF Init
<1>6. TypeOK
  BY <1>1, <1>2, <1>3, <1>4, <1>5 DEF TypeOK, TaskOK
<1>7. ASSUME NEW c \in CRs PROVE Holding(c)
  BY DEF Init, Holding
<1> QED BY <1>6, <1>7 DEF KeyInv

-----------------------------------------------------------------------------
(* What each action does to its reconcile.                                 *)

CrOK == cr \in [CRs -> CRStates \cup {Gone}]

(* What only the server and the history hold. *)
RestOK ==
    /\ kind \in Kinds /\ ready \in [CRs -> BOOLEAN]
    /\ account \in [Keys -> CRs \cup {Foreign, NoRecord}]
    /\ moved \in SUBSET CRs /\ shrunk \in SUBSET CRs
    /\ faults \in 0 .. MaxFaults /\ edits \in 0 .. MaxEdits

LEMMA TypeParts == TypeOK <=> CrOK /\ TaskOK /\ RestOK
BY DEF TypeOK, CrOK, TaskOK, RestOK

LEMMA Reached ==
    ASSUME CrOK', TaskOK', RestOK', \A d \in CRs : Holding(d)'
    PROVE  KeyInv'
BY DEF KeyInv, TypeOK, CrOK, TaskOK, RestOK

LEMMA InMemory ==
    ASSUME KeyInv, NEW c \in CRs, pc[c] # "idle"
    PROVE  mem[c] \in CRStates
BY DEF KeyInv, TypeOK, Holding

LEMMA InCluster ==
    ASSUME CrOK, NEW c \in CRs, cr[c] # Gone
    PROVE  cr[c] \in CRStates
BY DEF CrOK

(* A reconcile that ends holds nothing, whatever it leaves on the API server. *)
LEMMA HoldingAfterEnd ==
    ASSUME KeyInv, NEW c \in CRs, Finish(c), \A d \in CRs \ {c} : cr'[d] = cr[d]
    PROVE  TaskOK' /\ \A d \in CRs : Holding(d)'
<1>1. TaskOK
  BY TypeParts DEF KeyInv
<1>2. Holding(c)'
  BY <1>1, Finished DEF Holding
<1>3. ASSUME NEW d \in CRs \ {c} PROVE Holding(d)'
  <2>1. /\ Holding(d) /\ pc'[d] = pc[d] /\ mem'[d] = mem[d] /\ page'[d] = page[d]
        /\ cr'[d] = cr[d] /\ current'[d] = current[d]
    BY <1>1, Finished DEF KeyInv
  <2> QED BY <2>1, HoldingElsewhere
<1> QED BY <1>1, <1>2, <1>3, Finished

(* One that goes on holds what Holding says of it. *)
LEMMA HoldingOn ==
    ASSUME KeyInv, NEW c \in CRs, NEW m \in CRStates, NEW phase \in Phases \ {"idle", "observe"},
           GoesOn(c, m, phase), UNCHANGED <<page, seen, found>>, page[c] = 1,
           \A d \in CRs \ {c} : cr'[d] = cr[d],
           m.deleting => cr'[c] # Gone /\ cr'[c].deleting /\ (current'[c] => cr'[c].key = m.key),
           phase \notin {"delete", "unfinalize"}
    PROVE  TaskOK' /\ \A d \in CRs : Holding(d)'
<1>1. TaskOK
  BY TypeParts DEF KeyInv
<1>2. Holding(c)'
  <2>1. mem'[c] = m /\ pc'[c] = phase /\ page'[c] = 1 /\ phase # "idle" /\ m # Gone
    BY <1>1, WentOn
  <2> QED BY <2>1 DEF Holding
<1>3. ASSUME NEW d \in CRs \ {c} PROVE Holding(d)'
  <2>1. /\ Holding(d) /\ pc'[d] = pc[d] /\ mem'[d] = mem[d] /\ page'[d] = page[d]
        /\ cr'[d] = cr[d] /\ current'[d] = current[d]
    BY <1>1, WentOn DEF KeyInv
  <2> QED BY <2>1, HoldingElsewhere
<1> QED BY <1>1, <1>2, <1>3, WentOnAlone

LEMMA KeyObserved ==
    ASSUME KeyInv, NEW c \in CRs, pc[c] = "observe", NEW exists \in BOOLEAN, Observed(c, exists),
           UNCHANGED <<kind, cr, account, ready, past, faults, edits>>
    PROVE  KeyInv'
<1>1. TaskOK /\ CrOK /\ RestOK /\ Holding(c) /\ mem[c] \in CRStates
  BY TypeParts, InMemory DEF KeyInv
<1>2. CrOK' /\ RestOK'
  BY <1>1 DEF CrOK, RestOK, past
<1>3. CASE Finish(c)
  BY <1>2, <1>3, HoldingAfterEnd, Reached
<1>4. ASSUME NEW m \in CRStates, NEW phase \in {"delete", "unfinalize", "finalize", "pend"},
             GoesOn(c, m, phase),
             page' = [page EXCEPT ![c] = 1], seen' = [seen EXCEPT ![c] = {}],
             found' = [found EXCEPT ![c] = exists],
             m.key = mem[c].key, m.deleting = mem[c].deleting,
             phase \in {"delete", "unfinalize"} => m.deleting,
             phase = "delete" => m.extName = m.key
      PROVE  KeyInv'
  <2>1. phase \in Phases
    BY DEF Phases
  <2>2. /\ mem' \in [CRs -> CRStates \cup {Gone}] /\ pc' \in [CRs -> Phases]
        /\ current' \in [CRs -> BOOLEAN] /\ mem'[c] = m /\ pc'[c] = phase
        /\ \A d \in CRs \ {c} : pc'[d] = pc[d] /\ mem'[d] = mem[d] /\ current'[d] = current[d]
    BY <1>1, <1>4, <2>1, WentOn
  <2>3. /\ page' \in [CRs -> 1 .. Len(Order)] /\ seen' \in [CRs -> SUBSET Keys]
        /\ page'[c] = 1 /\ \A d \in CRs \ {c} : page'[d] = page[d]
    BY <1>1, <1>4, FirstPage DEF TaskOK
  <2>4. found' \in [CRs -> BOOLEAN]
    BY <1>1, <1>4 DEF TaskOK
  <2>5. TaskOK'
    BY <2>2, <2>3, <2>4 DEF TaskOK
  <2>6. Holding(c)'
    <3>1. current' = current /\ m # Gone /\ phase # "idle"
      BY <1>4 DEF GoesOn
    <3> QED BY <1>1, <1>4, <2>2, <2>3, <3>1 DEF Holding
  <2>7. ASSUME NEW d \in CRs \ {c} PROVE Holding(d)'
    <3>1. Holding(d) /\ cr'[d] = cr[d]
      BY DEF KeyInv
    <3> QED BY <3>1, <2>2, <2>3, HoldingElsewhere
  <2>8. \A d \in CRs : Holding(d)'
    BY <2>6, <2>7
  <2> QED BY <1>2, <2>5, <2>8, Reached
<1> QED BY <1>1, <1>3, <1>4, Observing

LEMMA KeyConnect == ASSUME KeyInv, NEW c \in CRs, Connect(c) PROVE KeyInv'
<1>1. TaskOK /\ CrOK /\ RestOK /\ Holding(c) /\ cr[c] \in CRStates
  BY TypeParts, InCluster DEF KeyInv, Connect
<1>2. CrOK' /\ RestOK'
  BY <1>1 DEF CrOK, RestOK, Connect
<1>3. GoesOn(c, cr[c], "observe") /\ "observe" \in Phases /\ UNCHANGED <<page, seen, found>>
  BY DEF Connect, Goto, GoesOn, Phases
<1>4. /\ TaskOK' /\ mem'[c] = cr[c] /\ pc'[c] = "observe"
      /\ \A d \in CRs \ {c} : pc'[d] = pc[d] /\ mem'[d] = mem[d] /\ current'[d] = current[d]
  BY <1>1, <1>3, WentOn, WentOnAlone
<1>5. cr' = cr /\ page' = page
  BY DEF Connect
<1>6. Holding(c)'
  BY <1>1, <1>4, <1>5 DEF Holding
<1>7. ASSUME NEW d \in CRs \ {c} PROVE Holding(d)'
  BY <1>4, <1>5, HoldingElsewhere DEF KeyInv
<1>8. \A d \in CRs : Holding(d)'
  BY <1>6, <1>7
<1> QED BY <1>2, <1>4, <1>8, Reached

LEMMA KeyObserveCostCenter == ASSUME KeyInv, NEW c \in CRs, ObserveCostCenter(c) PROVE KeyInv'
<1> DEFINE keys == seen[c] \cup PageOf(page[c])
<1>1. TaskOK /\ CrOK /\ RestOK
  BY TypeParts DEF KeyInv
<1>2. CASE HasNextPage(page[c])
  <2>1. page[c] + 1 \in 1 .. Len(Order)
    BY <1>1, <1>2, NextPage DEF TaskOK
  <2>2. \A j \in Listed : Order[j] \in Keys
    BY DEF Listed
  <2>3. keys \in SUBSET Keys
    BY <1>1, <2>2 DEF PageOf, TaskOK
  <2>4. /\ pc[c] = "observe" /\ seen' = [seen EXCEPT ![c] = keys]
        /\ page' = [page EXCEPT ![c] = page[c] + 1]
        /\ UNCHANGED <<pc, mem, current, found, kind, cr, account, ready, past, faults, edits>>
    BY <1>1, <1>2 DEF ObserveCostCenter, TaskOK
  <2> HIDE DEF keys
  <2>5. TaskOK'
    BY <1>1, <2>1, <2>3, <2>4 DEF TaskOK
  <2>6. CrOK' /\ RestOK'
    BY <1>1, <2>4 DEF CrOK, RestOK, past
  <2>7. Holding(c)'
    BY <2>4 DEF Holding, KeyInv
  <2>8. ASSUME NEW d \in CRs \ {c} PROVE Holding(d)'
    <3>1. /\ Holding(d) /\ pc'[d] = pc[d] /\ mem'[d] = mem[d] /\ page'[d] = page[d]
          /\ cr'[d] = cr[d] /\ current'[d] = current[d]
      BY <1>1, <2>4 DEF KeyInv, TaskOK
    <3> QED BY <3>1, HoldingElsewhere
  <2>9. \A d \in CRs : Holding(d)'
    BY <2>7, <2>8
  <2> QED BY <2>5, <2>6, <2>9, Reached
<1>3. CASE ~HasNextPage(page[c])
  <2>1. Found(mem[c], keys) \in BOOLEAN
    BY DEF Found
  <2>2. Observed(c, Found(mem[c], keys)) /\ pc[c] = "observe"
        /\ UNCHANGED <<kind, cr, account, ready, past, faults, edits>>
    BY <1>3 DEF ObserveCostCenter
  <2> QED BY <2>1, <2>2, KeyObserved
<1> QED BY <1>2, <1>3

LEMMA KeyObserveUser == ASSUME KeyInv, NEW c \in CRs, ObserveUser(c) PROVE KeyInv'
<1>1. Found(mem[c], {k \in Keys : Live(k)}) \in BOOLEAN
  BY DEF Found
<1> QED BY <1>1, KeyObserved DEF ObserveUser
(* The objects a write leaves on the API server and in memory. *)
LEMMA KeyWritten ==
    ASSUME KeyInv, NEW c \in CRs, NEW x \in CRStates \cup {Gone}, cr' = [cr EXCEPT ![c] = x]
    PROVE  CrOK' /\ cr'[c] = x /\ \A d \in CRs \ {c} : cr'[d] = cr[d]
BY DEF KeyInv, TypeOK, CrOK

LEMMA KeyAddFinalizer == ASSUME KeyInv, NEW c \in CRs, AddFinalizer(c) PROVE KeyInv'
<1> DEFINE m == [mem[c] EXCEPT !.finalizer = TRUE]
<1>1. TaskOK /\ RestOK /\ Holding(c) /\ pc[c] = "finalize" /\ mem[c] \in CRStates
  BY TypeParts, InMemory DEF KeyInv, AddFinalizer
<1>2. m \in CRStates /\ m.key = mem[c].key /\ m.deleting = mem[c].deleting
  BY <1>1, FieldEdits, FieldsKept
<1>3. cr' = [cr EXCEPT ![c] = m]
  BY DEF AddFinalizer
<1>4. Finish(c) \/ (GoesOn(c, m, "pend") /\ UNCHANGED <<page, seen, found>>)
  BY DEF AddFinalizer, GoesOn, Goto
<1> HIDE DEF m
<1>5. CrOK' /\ cr'[c] = m /\ \A d \in CRs \ {c} : cr'[d] = cr[d]
  BY <1>2, <1>3, KeyWritten
<1>6. RestOK'
  BY <1>1 DEF RestOK, AddFinalizer, past
<1>7. m.deleting => cr'[c] # Gone /\ cr'[c].deleting /\ (current'[c] => cr'[c].key = m.key)
  BY <1>2, <1>5
<1>8. TaskOK' /\ \A d \in CRs : Holding(d)'
  <2>1. CASE Finish(c)
    BY <1>5, <2>1, HoldingAfterEnd
  <2>2. CASE GoesOn(c, m, "pend") /\ UNCHANGED <<page, seen, found>>
    <3>1. "pend" \in Phases \ {"idle", "observe"} /\ page[c] = 1
      BY <1>1 DEF Phases, Holding
    <3> QED BY <1>2, <1>5, <1>7, <2>2, <3>1, HoldingOn
  <2> QED BY <1>4, <2>1, <2>2
<1> QED BY <1>5, <1>6, <1>8, Reached

LEMMA KeyAnnounce == ASSUME KeyInv, NEW c \in CRs, AnnounceCreate(c) PROVE KeyInv'
<1> DEFINE m == [mem[c] EXCEPT !.creation = "pending"]
<1>1. TaskOK /\ RestOK /\ Holding(c) /\ pc[c] = "pend" /\ mem[c] \in CRStates
  BY TypeParts, InMemory DEF KeyInv, AnnounceCreate
<1>2. m \in CRStates /\ m.key = mem[c].key /\ m.deleting = mem[c].deleting
  BY <1>1, FieldEdits, FieldsKept DEF Outcomes
<1>3. cr' = [cr EXCEPT ![c] = m] /\ GoesOn(c, m, "create") /\ UNCHANGED <<page, seen, found>>
  BY DEF AnnounceCreate, GoesOn, Goto
<1> HIDE DEF m
<1>4. CrOK' /\ cr'[c] = m /\ \A d \in CRs \ {c} : cr'[d] = cr[d]
  BY <1>2, <1>3, KeyWritten
<1>5. RestOK'
  BY <1>1 DEF RestOK, AnnounceCreate, past
<1>6. "create" \in Phases \ {"idle", "observe"} /\ page[c] = 1
  BY <1>1 DEF Phases, Holding
<1>7. TaskOK' /\ \A d \in CRs : Holding(d)'
  BY <1>2, <1>3, <1>4, <1>6, HoldingOn
<1> QED BY <1>4, <1>5, <1>7, Reached

(* The POST answers in memory alone, with a new outcome and perhaps a name. *)
LEMMA KeyAnswered ==
    ASSUME KeyInv, NEW c \in CRs, pc[c] = "create",
           NEW m \in CRStates, m.key = mem[c].key, m.deleting = mem[c].deleting,
           GoesOn(c, m, "record"), UNCHANGED <<cr, page, seen, found>>, RestOK'
    PROVE  KeyInv'
<1>1. CrOK' /\ \A d \in CRs \ {c} : cr'[d] = cr[d]
  BY DEF KeyInv, TypeOK, CrOK
<1>2. "record" \in Phases \ {"idle", "observe"} /\ page[c] = 1
  BY DEF Phases, Holding, KeyInv
<1>3. m.deleting => cr'[c] # Gone /\ cr'[c].deleting /\ (current'[c] => cr'[c].key = m.key)
  <2>1. mem[c] \in CRStates /\ current' = current
    BY InMemory DEF GoesOn
  <2> QED BY <2>1 DEF Holding, KeyInv
<1>4. TaskOK' /\ \A d \in CRs : Holding(d)'
  BY <1>1, <1>2, <1>3, HoldingOn
<1> QED BY <1>1, <1>4, Reached

LEMMA Made ==
    ASSUME RestOK, NEW c \in CRs, Make(c)
    PROVE  /\ account' \in [Keys -> CRs \cup {Foreign, NoRecord}]
           /\ \A k \in Keys : account'[k] = account[k] \/ (account'[k] = c /\ k = mem[c].key)
BY DEF RestOK, Make

LEMMA KeyCreate == ASSUME KeyInv, NEW c \in CRs, Create(c) PROVE KeyInv'
<1>1. RestOK /\ pc[c] = "create" /\ mem[c] \in CRStates
  BY TypeParts, InMemory DEF KeyInv, Create
<1>2. RestOK'
  BY <1>1, Made DEF RestOK, Create, past
<1>3. mem[c].key \in Keys \cup {Unnamed} /\ "failed" \in Outcomes /\ "succeeded" \in Outcomes
  BY <1>1 DEF CRStates, Outcomes
<1>4. PICK e \in ExistsAs :
        mem' = [mem EXCEPT ![c] =
                  IF Live(mem[c].key) /\ (kind = "User" \/ ~IsAlreadyExists(e))
                  THEN [mem[c] EXCEPT !.creation = "failed"]
                  ELSE [mem[c] EXCEPT !.extName = mem[c].key, !.creation = "succeeded"]]
  BY DEF Create
<1> DEFINE lost == [mem[c] EXCEPT !.creation = "failed"]
           done == [mem[c] EXCEPT !.extName = mem[c].key, !.creation = "succeeded"]
<1>5. lost \in CRStates /\ lost.key = mem[c].key /\ lost.deleting = mem[c].deleting
  <2>1. "failed" \in Outcomes
    BY <1>3
  <2> QED BY <1>1, <2>1, FieldEdits, FieldsKept
<1>6. done \in CRStates /\ done.key = mem[c].key /\ done.deleting = mem[c].deleting
  <2>1. done \in CRStates
    BY <1>1, <1>3, FieldEdits
  <2>2. done.key = mem[c].key /\ done.deleting = mem[c].deleting
    BY <1>1 DEF CRStates
  <2> QED BY <2>1, <2>2
<1>7. GoesOn(c, lost, "record") \/ GoesOn(c, done, "record")
  BY <1>4 DEF GoesOn, Create, Goto
<1>8. UNCHANGED <<cr, page, seen, found>>
  BY DEF Create
<1> HIDE DEF lost, done
<1> QED BY <1>1, <1>2, <1>5, <1>6, <1>7, <1>8, KeyAnswered

(* A creation that failed says so, and nothing else. *)
LEMMA KeyFailed ==
    ASSUME KeyInv, NEW c \in CRs, pc[c] = "create", mem' = [mem EXCEPT ![c].creation = "failed"],
           Goto(c, "record"), UNCHANGED <<cr, current, page, seen, found>>, RestOK'
    PROVE  KeyInv'
<1> DEFINE lost == [mem[c] EXCEPT !.creation = "failed"]
<1>1. mem[c] \in CRStates /\ "failed" \in Outcomes
  BY InMemory DEF Outcomes
<1>2. lost \in CRStates /\ lost.key = mem[c].key /\ lost.deleting = mem[c].deleting
  BY <1>1, FieldEdits, FieldsKept
<1>3. GoesOn(c, lost, "record")
  BY DEF GoesOn, Goto
<1> HIDE DEF lost
<1> QED BY <1>2, <1>3, KeyAnswered

LEMMA KeyResolveFails == ASSUME KeyInv, NEW c \in CRs, ResolveFails(c) PROVE KeyInv'
<1>1. RestOK'
  BY TypeParts DEF KeyInv, RestOK, ResolveFails, past
<1> QED BY <1>1, KeyFailed DEF ResolveFails

LEMMA KeyCreateFails == ASSUME KeyInv, NEW c \in CRs, CreateFails(c) PROVE KeyInv'
<1>1. RestOK
  BY TypeParts DEF KeyInv
<1>2. account' \in [Keys -> CRs \cup {Foreign, NoRecord}]
  <2>1. CASE Make(c)
    BY <1>1, <2>1, Made
  <2>2. CASE UNCHANGED account
    BY <1>1, <2>2 DEF RestOK
  <2> QED BY <2>1, <2>2 DEF CreateFails
<1>3. faults' \in 0 .. MaxFaults
  BY <1>1 DEF RestOK, CreateFails, Fault
<1>4. RestOK'
  BY <1>1, <1>2, <1>3 DEF RestOK, CreateFails, past
<1> QED BY <1>4, KeyFailed DEF CreateFails

LEMMA KeyRecord == ASSUME KeyInv, NEW c \in CRs, RecordCreate(c) PROVE KeyInv'
<1> DEFINE x == [cr[c] EXCEPT !.extName = mem[c].extName, !.creation = mem[c].creation]
<1>1. CrOK /\ RestOK /\ pc[c] = "record" /\ mem[c] \in CRStates /\ cr[c] \in CRStates
  BY TypeParts, InMemory, InCluster DEF KeyInv, RecordCreate
<1>2. mem[c].extName \in Keys \cup {Unnamed} /\ mem[c].creation \in Outcomes
  BY <1>1 DEF CRStates, Outcomes
<1>3. x \in CRStates
  BY <1>1, <1>2, FieldEdits
<1>4. cr' = [cr EXCEPT ![c] = x] /\ Finish(c)
  BY DEF RecordCreate
<1> HIDE DEF x
<1>5. CrOK' /\ \A d \in CRs \ {c} : cr'[d] = cr[d]
  BY <1>3, <1>4, KeyWritten
<1>6. RestOK'
  BY <1>1 DEF RestOK, RecordCreate, past
<1> QED BY <1>4, <1>5, <1>6, HoldingAfterEnd, Reached

LEMMA Removed ==
    ASSUME RestOK, NEW k \in Keys, Remove(k)
    PROVE  /\ account' \in [Keys -> CRs \cup {Foreign, NoRecord}] /\ shrunk' \in SUBSET CRs
           /\ \A n \in Keys : account'[n] = account[n] \/ (account'[n] = NoRecord /\ n = k)
BY DEF RestOK, Remove

LEMMA KeyDelete == ASSUME KeyInv, NEW c \in CRs, Delete(c) PROVE KeyInv'
<1>1. CrOK /\ RestOK
  BY TypeParts DEF KeyInv
<1>2. CrOK' /\ \A d \in CRs \ {c} : cr'[d] = cr[d]
  BY <1>1 DEF CrOK, Delete
<1>3. account' \in [Keys -> CRs \cup {Foreign, NoRecord}] /\ shrunk' \in SUBSET CRs
  <2>1. CASE mem[c].extName \in Keys
    BY <1>1, <2>1, Removed DEF Delete
  <2>2. CASE mem[c].extName \notin Keys
    BY <1>1, <2>2 DEF Delete, RestOK
  <2> QED BY <2>1, <2>2
<1>4. RestOK'
  BY <1>1, <1>3 DEF RestOK, Delete
<1>5. Finish(c)
  BY DEF Delete
<1> QED BY <1>2, <1>4, <1>5, HoldingAfterEnd, Reached

LEMMA KeyRemoveFinalizer == ASSUME KeyInv, NEW c \in CRs, RemoveFinalizer(c) PROVE KeyInv'
<1>1. CrOK' /\ \A d \in CRs \ {c} : cr'[d] = cr[d]
  BY KeyWritten DEF RemoveFinalizer
<1>2. RestOK'
  BY TypeParts DEF KeyInv, RestOK, RemoveFinalizer, past
<1>3. Finish(c)
  BY DEF RemoveFinalizer
<1> QED BY <1>1, <1>2, <1>3, HoldingAfterEnd, Reached

(* A reconcile that ends and writes nothing. *)
LEMMA KeyStopped ==
    ASSUME KeyInv, NEW c \in CRs, Finish(c), UNCHANGED cr, RestOK'
    PROVE  KeyInv'
<1>1. CrOK' /\ \A d \in CRs \ {c} : cr'[d] = cr[d]
  BY DEF KeyInv, TypeOK, CrOK
<1> QED BY <1>1, HoldingAfterEnd, Reached

LEMMA KeyLoseUpdate == ASSUME KeyInv, NEW c \in CRs, LoseUpdate(c) PROVE KeyInv'
<1>1. RestOK'
  BY TypeParts DEF KeyInv, RestOK, LoseUpdate, past
<1> QED BY <1>1, KeyStopped DEF LoseUpdate

LEMMA KeyInterrupted == ASSUME KeyInv, NEW c \in CRs, Interrupted(c) PROVE KeyInv'
<1>1. RestOK
  BY TypeParts DEF KeyInv
<1>2. faults' \in 0 .. MaxFaults
  BY <1>1 DEF RestOK, Interrupted, Fault
<1>3. RestOK'
  BY <1>1, <1>2 DEF RestOK, Interrupted, past
<1> QED BY <1>3, KeyStopped DEF Interrupted

-----------------------------------------------------------------------------
(* What the surroundings do, and the invariant.                            *)

LEMMA Edited == ASSUME RestOK, Edit PROVE edits' \in 0 .. MaxEdits
BY DEF RestOK, Edit

(* Others write the custom resource; the reconcile holds what it holds. *)
LEMMA KeyWrittenByOthers ==
    ASSUME KeyInv, NEW c \in CRs, NEW x \in CRStates \cup {Gone}, cr' = [cr EXCEPT ![c] = x],
           Outdate(c), UNCHANGED <<pc, mem, page, seen, found>>, RestOK',
           cr[c] # Gone, cr[c].deleting => x # Gone /\ x.deleting
    PROVE  KeyInv'
<1>1. CrOK' /\ \A d \in CRs \ {c} : cr'[d] = cr[d]
  BY KeyWritten
<1>2. TaskOK'
  BY TypeParts DEF KeyInv, TaskOK, Outdate
<1>3. /\ current'[c] => pc[c] = "idle"
      /\ \A d \in CRs \ {c} : current'[d] = current[d]
  BY TypeParts DEF KeyInv, TaskOK, Outdate
<1>4. cr'[c] = x
  BY KeyWritten
<1>5. Holding(c)'
  BY <1>3, <1>4 DEF KeyInv, Holding
<1>6. ASSUME NEW d \in CRs \ {c} PROVE Holding(d)'
  BY <1>1, <1>3, HoldingElsewhere DEF KeyInv
<1>7. \A d \in CRs : Holding(d)'
  BY <1>5, <1>6
<1> QED BY <1>1, <1>2, <1>7, Reached

LEMMA KeyUserEdits == ASSUME KeyInv, NEW c \in CRs, UserEdits(c) PROVE KeyInv'
<1>1. CrOK /\ RestOK /\ cr[c] \in CRStates
  BY TypeParts, InCluster DEF KeyInv, UserEdits
<1>2. PICK k \in EditableTo[c] \ {cr[c].key} : cr' = [cr EXCEPT ![c] = [cr[c] EXCEPT !.key = k]]
  BY DEF UserEdits
<1>3. k \in Keys
  OBVIOUS
<1> DEFINE x == [cr[c] EXCEPT !.key = k]
<1>4. edits' \in 0 .. MaxEdits
  BY <1>1, Edited DEF UserEdits
<1>5. RestOK'
  BY <1>1, <1>4 DEF RestOK, UserEdits
<1>6. x \in CRStates /\ x.deleting = cr[c].deleting
  <2>1. x \in CRStates
    BY <1>1, <1>3, FieldEdits
  <2>2. x.deleting = cr[c].deleting
    BY <1>1 DEF CRStates
  <2> QED BY <2>1, <2>2
<1>7. x # Gone /\ cr' = [cr EXCEPT ![c] = x]
  BY <1>2, <1>6
<1> HIDE DEF x
<1> QED BY <1>5, <1>6, <1>7, KeyWrittenByOthers DEF UserEdits

LEMMA KeyUserDeletes == ASSUME KeyInv, NEW c \in CRs, UserDeletes(c) PROVE KeyInv'
<1> DEFINE x == IF cr[c].finalizer THEN [cr[c] EXCEPT !.deleting = TRUE] ELSE Gone
<1>1. CrOK /\ RestOK /\ cr[c] \in CRStates
  BY TypeParts, InCluster DEF KeyInv, UserDeletes
<1>2. x \in CRStates \cup {Gone}
  BY <1>1, FieldEdits
<1>3. RestOK'
  BY <1>1 DEF RestOK, UserDeletes, past
<1>4. cr' = [cr EXCEPT ![c] = x]
  BY DEF UserDeletes
<1> HIDE DEF x
<1> QED BY <1>2, <1>3, <1>4, KeyWrittenByOthers DEF UserDeletes

(* Steps that touch neither a custom resource nor a reconcile. *)
LEMMA KeyAside ==
    ASSUME KeyInv, UNCHANGED <<cr, task>>, RestOK'
    PROVE  KeyInv'
<1>1. CrOK' /\ TaskOK'
  BY TypeParts DEF KeyInv, CrOK, TaskOK, task
<1>2. \A d \in CRs : Holding(d)'
  BY DEF KeyInv, Holding, task
<1> QED BY <1>1, <1>2, Reached

LEMMA KeyNext == KeyInv /\ [Next]_vars => KeyInv'
<1> SUFFICES ASSUME KeyInv, [Next]_vars PROVE KeyInv'
  OBVIOUS
<1>0. RestOK
  BY TypeParts DEF KeyInv
<1>1. ASSUME NEW c \in CRs, Step(c) PROVE KeyInv'
  BY <1>1, KeyConnect, KeyObserveUser, KeyObserveCostCenter, KeyAddFinalizer, KeyAnnounce,
     KeyCreate, KeyResolveFails, KeyRecord, KeyDelete, KeyRemoveFinalizer, KeyLoseUpdate DEF Step
<1>2. ASSUME NEW c \in CRs, ReferencesChange(c) PROVE KeyInv'
  <2>1. edits' \in 0 .. MaxEdits
    BY <1>0, <1>2, Edited DEF ReferencesChange, RestOK
  <2>2. RestOK'
    BY <1>0, <1>2, <2>1 DEF RestOK, ReferencesChange, past
  <2> QED BY <1>2, <2>2, KeyAside DEF ReferencesChange
<1>3. ASSUME NEW k \in Keys, AdminDeletes(k) PROVE KeyInv'
  <2>1. edits' \in 0 .. MaxEdits
    BY <1>0, <1>3, Edited DEF AdminDeletes
  <2>2. account' \in [Keys -> CRs \cup {Foreign, NoRecord}] /\ shrunk' \in SUBSET CRs
    BY <1>0, <1>3, Removed DEF AdminDeletes
  <2>3. RestOK'
    BY <1>0, <1>3, <2>1, <2>2 DEF RestOK, AdminDeletes
  <2> QED BY <1>3, <2>3, KeyAside DEF AdminDeletes
<1>4. CASE UNCHANGED vars
  <2>1. RestOK'
    BY <1>0, <1>4 DEF RestOK, vars, past
  <2> QED BY <1>4, <2>1, KeyAside DEF vars
<1> QED BY <1>1, <1>2, <1>3, <1>4, KeyCreateFails, KeyInterrupted, KeyUserEdits, KeyUserDeletes
        DEF Next

(* The variables keep their types: ListCostCenters asks for no page beyond the
   last (client.HasNextPage), and what a write or a reply leaves of a custom
   resource is one.                                                        *)
THEOREM KeyedTypeCorrect == Spec => []TypeOK
<1>1. KeyInv => TypeOK
  BY DEF KeyInv
<1> QED BY <1>1, KeyInit, KeyNext, PTL DEF Spec

-----------------------------------------------------------------------------
(* Deletions.                                                              *)

(* Which steps take a record away. *)
LEMMA Takes ==
    ASSUME KeyInv, [Next]_vars, NEW k \in Keys, Live(k), account'[k] = NoRecord
    PROVE  \/ edits' # edits
           \/ \E c \in CRs : Delete(c) /\ mem[c].extName = k
<1>0. RestOK
  BY TypeParts DEF KeyInv
<1>1. \A c \in CRs : ~Make(c)
  <2> SUFFICES ASSUME NEW c \in CRs, Make(c) PROVE FALSE
    OBVIOUS
  <2>1. account'[k] \in {account[k], c}
    BY <1>0, Made
  <2> QED BY <2>1 DEF Live
<1>2. ~UNCHANGED account
  BY DEF Live
<1>3. ASSUME NEW c \in CRs, Step(c) PROVE Delete(c)
  BY <1>1, <1>2, <1>3 DEF Step, Connect, ObserveUser, ObserveCostCenter, AddFinalizer,
     AnnounceCreate, Create, ResolveFails, RecordCreate, RemoveFinalizer, LoseUpdate
<1>4. ASSUME NEW c \in CRs, Delete(c) PROVE mem[c].extName = k
  <2>1. mem[c].extName \in Keys /\ Remove(mem[c].extName)
    BY <1>2, <1>4 DEF Delete
  <2>2. account'[k] = account[k] \/ k = mem[c].extName
    BY <1>0, <2>1, Removed
  <2> QED BY <2>2 DEF Live
<1>5. \A c \in CRs : ~(CreateFails(c) \/ Interrupted(c) \/ UserEdits(c) \/ UserDeletes(c) \/ ReferencesChange(c))
  BY <1>1, <1>2 DEF CreateFails, Interrupted, UserEdits, UserDeletes, ReferencesChange
<1>6. ASSUME NEW n \in Keys, AdminDeletes(n) PROVE edits' # edits
  BY <1>0, <1>6 DEF AdminDeletes, Edit, RestOK
<1>7. Next
  BY <1>2 DEF vars
<1> QED BY <1>3, <1>4, <1>5, <1>6, <1>7 DEF Next

(* What DeletesOnlyNamed asks of the resource on whose behalf k is deleted. *)
Names(c, k) ==
    /\ cr[c] # Gone /\ cr[c].deleting
    /\ k = IF current[c] THEN cr[c].key ELSE mem[c].key

(* Delete calls the server only for a resource that is being deleted and whose
   key is the one of the object: the external name it deletes by is the key
   that Observe found, and the spec still has it unless the resource was
   edited since the reconcile began, which makes its version a former one.  *)
THEOREM DeletesWhatIsNamed == Spec => DeletesOnlyNamed
<1>1. ASSUME KeyInv, [Next]_vars
      PROVE  \A k \in Keys : Live(k) /\ account'[k] = NoRecord /\ edits' = edits
               => \E c \in CRs : Names(c, k)
  <2> SUFFICES ASSUME NEW k \in Keys, Live(k), account'[k] = NoRecord, edits' = edits
               PROVE  \E c \in CRs : Names(c, k)
    OBVIOUS
  <2>1. PICK c \in CRs : Delete(c) /\ mem[c].extName = k
    BY <1>1, Takes
  <2>2. Holding(c) /\ pc[c] = "delete" /\ mem[c] # Gone
    BY <1>1, <2>1, InMemory DEF KeyInv, Delete
  <2>3. current[c] \in BOOLEAN
    BY <1>1 DEF KeyInv, TypeOK
  <2> QED BY <2>1, <2>2, <2>3 DEF Holding, Names
<1>2. KeyInv /\ [Next]_vars =>
        [\A k \in Keys : Live(k) /\ account'[k] = NoRecord /\ edits' = edits
            => \E c \in CRs : Names(c, k)]_vars
  BY <1>1
<1> QED BY <1>2, KeyInit, KeyNext, PTL DEF Spec, DeletesOnlyNamed, Names

-----------------------------------------------------------------------------
(* What a resource that goes leaves.  It has made at most the object of the
   key it was applied with, and nothing before it has a finalizer; the pages
   of a listing that lost no record hold every record of its that they passed,
   so a listing that ends without finding the object means there is none.  *)

KeyKept(c) ==
    c \notin moved =>
        /\ \A k \in Keys : account[k] = c => k = InitialKey[c]
        /\ cr[c] # Gone => cr[c].key = InitialKey[c]
        /\ mem[c] # Gone => mem[c].key = InitialKey[c]

FinalizerFirst(c) ==
    /\ cr[c] # Gone /\ ~cr[c].finalizer => MadeBy(c) = {}
    /\ mem[c] # Gone /\ mem[c].finalizer => cr[c] # Gone /\ cr[c].finalizer
    /\ pc[c] \in {"pend", "create", "record"} => mem[c].finalizer

LeavesNothing(c) ==
    c \notin moved \cup shrunk /\ (cr[c] = Gone \/ pc[c] = "unfinalize") => MadeBy(c) = {}

Passed(c, i) == account[Order[i]] = c /\ Rank(i) <= (page[c] - 1) * PageSize

Listing(c) ==
    pc[c] = "observe" /\ c \notin shrunk => \A i \in Listed : Passed(c, i) => Order[i] \in seen[c]

Kept(c) == KeyKept(c) /\ FinalizerFirst(c) /\ LeavesNothing(c) /\ Listing(c)

KeptInv == KeyInv /\ \A c \in CRs : Kept(c)

(* Ranks in the listing. *)
RankIn(S, i) == Cardinality(S \cap 1 .. i)

LEMMA Ranks ==
    ASSUME NEW S, NEW T \in SUBSET (1 .. Len(Order)), S \subseteq T, NEW i \in S
    PROVE  /\ RankIn(S, i) \in Nat /\ RankIn(T, i) \in Nat /\ Cardinality(T) \in Nat
           /\ 1 <= RankIn(S, i) /\ RankIn(S, i) <= RankIn(T, i) /\ RankIn(T, i) <= Cardinality(T)
<1> DEFINE A == S \cap 1 .. i
           B == T \cap 1 .. i
<1>1. IsFiniteSet(T)
  <2>1. 1 \in Int /\ Len(Order) \in Int
    BY ListedSize
  <2>2. IsFiniteSet(1 .. Len(Order))
    BY <2>1, FS_Interval
  <2> QED BY <2>2, FS_Subset
<1>2. A \subseteq B /\ B \subseteq T
  OBVIOUS
<1>3. i \in A
  <2>1. i \in Nat /\ i >= 1
    BY ListedSize
  <2> QED BY <2>1
<1> HIDE DEF A, B
<1>4. IsFiniteSet(B) /\ Cardinality(B) <= Cardinality(T)
  BY <1>1, <1>2, FS_Subset
<1>5. IsFiniteSet(A) /\ Cardinality(A) <= Cardinality(B)
  BY <1>2, <1>4, FS_Subset
<1>6. Cardinality(A) \in Nat /\ Cardinality(B) \in Nat /\ Cardinality(T) \in Nat
  BY <1>1, <1>4, <1>5, FS_CardinalityType
<1>7. Cardinality(A) # 0
  BY <1>3, <1>5, FS_EmptySet
<1> QED BY <1>4, <1>5, <1>6, <1>7 DEF A, B, RankIn

LEMMA ListedIndices == Listed \in SUBSET (1 .. Len(Order)) /\ \A i \in Listed : Order[i] \in Keys
BY ListedSize DEF Listed

LEMMA ListedIndicesNext == Listed' \in SUBSET (1 .. Len(Order)) /\ \A i \in Listed' : Order[i] \in Keys
BY ListedSize DEF Listed

(* A search whose last page is there and that has passed over nothing of c's
   finds what c made.                                                      *)
LEMMA LastPage ==
    ASSUME KeptInv, NEW c \in CRs, pc[c] = "observe", c \notin shrunk, ~HasNextPage(page[c]),
           NEW k \in Keys, account[k] = c
    PROVE  k \in seen[c] \cup PageOf(page[c])
<1>1. page[c] \in Nat /\ PageSize \in Nat
  BY ListedSize DEF KeptInv, KeyInv, TypeOK
<1>2. PICK i \in DOMAIN Order : Order[i] = k
  OBVIOUS
<1>3. i \in Listed
  BY <1>2 DEF Listed, Live
<1>4. Rank(i) \in Nat /\ Rank(i) <= Cardinality(Listed) /\ Cardinality(Listed) \in Nat
  BY <1>3, ListedIndices, Ranks DEF RankIn, Rank
<1> DEFINE low == (page[c] - 1) * PageSize
           high == page[c] * PageSize
<1>5. low \in Int /\ high \in Int /\ Cardinality(Listed) <= high
  BY <1>1, <1>4 DEF HasNextPage
<1>6. CASE Rank(i) <= low
  BY <1>2, <1>3, <1>6 DEF KeptInv, Kept, Listing, Passed
<1>7. CASE Rank(i) > low
  <2> HIDE DEF low, high
  <2>1. Rank(i) \in low + 1 .. high
    BY <1>4, <1>5, <1>7
  <2> QED BY <1>2, <1>3, <2>1 DEF PageOf, low, high
<1> QED BY <1>4, <1>5, <1>6, <1>7

(* A page that leaves a next one holds the records it passes. *)
LEMMA PagePassed ==
    ASSUME KeptInv, NEW c \in CRs, pc[c] = "observe", c \notin shrunk,
           NEW i \in Listed, account[Order[i]] = c, Rank(i) <= page[c] * PageSize
    PROVE  Order[i] \in seen[c] \cup PageOf(page[c])
<1>1. page[c] \in Nat /\ PageSize \in Nat
  BY ListedSize DEF KeptInv, KeyInv, TypeOK
<1>2. Rank(i) \in Nat
  BY ListedIndices, Ranks DEF RankIn, Rank
<1> DEFINE low == (page[c] - 1) * PageSize
           high == page[c] * PageSize
<1>3. low \in Int /\ high \in Int
  BY <1>1
<1>4. CASE Rank(i) <= low
  BY <1>4 DEF KeptInv, Kept, Listing, Passed
<1>5. CASE Rank(i) > low
  <2>1. Rank(i) <= high
    OBVIOUS
  <2> HIDE DEF low, high
  <2>2. Rank(i) \in low + 1 .. high
    BY <1>2, <1>3, <1>5, <2>1
  <2> QED BY <2>2 DEF PageOf, low, high
<1> QED BY <1>2, <1>3, <1>4, <1>5

(* At the first page nothing has been passed yet. *)
LEMMA NothingPassed ==
    ASSUME NEW c \in CRs, page'[c] = 1, NEW i \in Listed'
    PROVE  ~Passed(c, i)'
<1>1. Rank(i)' \in Nat /\ 1 <= Rank(i)'
  BY ListedIndicesNext, Ranks DEF RankIn, Rank
<1>2. (1 - 1) * PageSize = 0
  OBVIOUS
<1> QED BY <1>1, <1>2 DEF Passed
(* A step takes nothing out of the listing d is in the middle of, and gives d
   nothing.                                                                *)
Spares(d) ==
    /\ \A k \in Keys : account'[k] = d => account[k] = d
    /\ pc[d] = "observe" /\ page[d] # 1 /\ d \notin shrunk' => Listed \subseteq Listed'

LEMMA SparedByNothing == ASSUME UNCHANGED account, NEW d \in CRs PROVE Spares(d)
BY DEF Spares, Listed, Live

LEMMA SparedByMake ==
    ASSUME KeyInv, NEW c \in CRs, Make(c), NEW d \in CRs \ {c}
    PROVE  Spares(d)
<1>1. \A k \in Keys : account'[k] = account[k] \/ account'[k] = c
  BY TypeParts, Made DEF KeyInv
<1>2. \A k \in Keys : Live(k) => account'[k] # NoRecord
  BY <1>1 DEF Live
<1> QED BY <1>1, <1>2, ListedIndices DEF Spares, Listed, Live

LEMMA SparedByRemove ==
    ASSUME KeyInv, NEW k \in Keys, Remove(k), NEW d \in CRs
    PROVE  Spares(d)
<1>1. \A n \in Keys : account'[n] = account[n] \/ (account'[n] = NoRecord /\ n = k)
  BY TypeParts, Removed DEF KeyInv
<1>2. CASE Live(k)
  <2>1. page[d] \in Nat /\ 1 <= page[d]
    BY ListedSize DEF KeyInv, TypeOK
  <2>2. pc[d] = "observe" /\ page[d] # 1 => d \in shrunk'
    BY <1>2, <2>1 DEF Remove
  <2> QED BY <1>1, <2>2 DEF Spares
<1>3. CASE ~Live(k)
  BY <1>1, <1>3, ListedIndices DEF Spares, Listed, Live
<1> QED BY <1>2, <1>3

LEMMA ListingKept ==
    ASSUME KeptInv, NEW d \in CRs, Spares(d), pc'[d] = pc[d], page'[d] = page[d], seen'[d] = seen[d],
           d \in shrunk => d \in shrunk'
    PROVE  Listing(d)'
<1> SUFFICES ASSUME pc[d] = "observe", d \notin shrunk', NEW i \in Listed', Passed(d, i)'
             PROVE  Order[i] \in seen[d]
  BY DEF Listing
<1>1. page[d] # 1
  BY NothingPassed
<1>2. Listed \subseteq Listed'
  BY <1>1 DEF Spares
<1>3. Order[i] \in Keys /\ account'[Order[i]] = d
  BY ListedIndicesNext DEF Passed
<1>4. account[Order[i]] = d
  BY <1>3 DEF Spares
<1>5. i \in Listed
  BY <1>4, ListedIndicesNext, ListedSize DEF Listed, Live
<1>6. Rank(i) \in Nat /\ Rank(i)' \in Nat /\ Rank(i) <= Rank(i)'
  BY <1>2, <1>5, ListedIndicesNext, Ranks DEF RankIn, Rank
<1> DEFINE low == (page[d] - 1) * PageSize
<1>7. Rank(i)' <= low
  BY DEF Passed
<1>8. low \in Int
  BY ListedSize DEF KeptInv, KeyInv, TypeOK
<1> HIDE DEF low
<1>9. Rank(i) <= low
  BY <1>6, <1>7, <1>8
<1> QED BY <1>4, <1>5, <1>9 DEF KeptInv, Kept, Listing, Passed, low

(* What a step leaves alone stays as it is. *)
LEMMA KeptElsewhere ==
    ASSUME KeptInv, NEW d \in CRs, Spares(d), cr'[d] = cr[d], mem'[d] = mem[d], pc'[d] = pc[d],
           page'[d] = page[d], seen'[d] = seen[d],
           d \in shrunk => d \in shrunk', d \in moved => d \in moved'
    PROVE  Kept(d)'
<1>1. Kept(d)
  BY DEF KeptInv
<1>2. KeyKept(d)'
  BY <1>1 DEF Kept, KeyKept, Spares
<1>3. MadeBy(d) = {} => (MadeBy(d) = {})'
  BY DEF MadeBy, Spares
<1>4. FinalizerFirst(d)'
  BY <1>1, <1>3 DEF Kept, FinalizerFirst
<1>5. LeavesNothing(d)'
  BY <1>1, <1>3 DEF Kept, LeavesNothing
<1>6. Listing(d)'
  BY ListingKept
<1> QED BY <1>2, <1>4, <1>5, <1>6 DEF Kept

(* What resource c's own step keeps of the others. *)
Alone(c) ==
    \A d \in CRs \ {c} :
        /\ Spares(d) /\ cr'[d] = cr[d] /\ mem'[d] = mem[d] /\ pc'[d] = pc[d]
        /\ page'[d] = page[d] /\ seen'[d] = seen[d]
        /\ (d \in shrunk => d \in shrunk') /\ (d \in moved => d \in moved')

LEMMA KeptStep ==
    ASSUME KeptInv, KeyInv', NEW c \in CRs, Alone(c), Kept(c)'
    PROVE  KeptInv'
<1>1. ASSUME NEW d \in CRs \ {c} PROVE Kept(d)'
  BY <1>1, KeptElsewhere DEF Alone
<1> QED BY <1>1 DEF KeptInv

(* A reconcile that ends and leaves no new object. *)
LEMMA KeptAfterEnd ==
    ASSUME KeptInv, KeyInv', NEW c \in CRs, Finish(c),
           \A d \in CRs : Spares(d), \A d \in CRs \ {c} : cr'[d] = cr[d],
           shrunk \subseteq shrunk', UNCHANGED moved,
           cr'[c] = Gone => cr[c] = Gone \/ pc[c] = "unfinalize",
           cr'[c] # Gone => /\ c \notin moved => cr'[c].key = InitialKey[c]
                            /\ ~cr'[c].finalizer => MadeBy(c) = {}
    PROVE  KeptInv'
<1>1. Kept(c) /\ TaskOK
  BY TypeParts DEF KeptInv, KeyInv
<1>2. /\ pc'[c] = "idle" /\ mem'[c] = Gone
      /\ \A d \in CRs \ {c} : pc'[d] = pc[d] /\ mem'[d] = mem[d] /\ page'[d] = page[d]
                              /\ seen'[d] = seen[d]
  BY <1>1, Finished
<1>3. MadeBy(c) = {} => (MadeBy(c) = {})'
  BY DEF MadeBy, Spares
<1>4. KeyKept(c)'
  BY <1>1, <1>2 DEF Kept, KeyKept, Spares
<1>5. FinalizerFirst(c)'
  BY <1>1, <1>2, <1>3 DEF Kept, FinalizerFirst
<1>6. LeavesNothing(c)'
  BY <1>1, <1>2, <1>3 DEF Kept, LeavesNothing
<1>7. Listing(c)'
  BY <1>2 DEF Listing
<1>8. Alone(c)
  BY <1>2 DEF Alone
<1> QED BY <1>4, <1>5, <1>6, <1>7, <1>8, KeptStep DEF Kept

(* The usual end: the API server's copy stays as it is. *)
LEMMA KeptStopped ==
    ASSUME KeptInv, KeyInv', NEW c \in CRs, Finish(c), UNCHANGED <<cr, moved>>,
           \A d \in CRs : Spares(d), shrunk \subseteq shrunk'
    PROVE  KeptInv'
<1>1. Kept(c)
  BY DEF KeptInv
<1>2. cr[c] # Gone => /\ c \notin moved => cr[c].key = InitialKey[c]
                      /\ ~cr[c].finalizer => MadeBy(c) = {}
  BY <1>1 DEF Kept, KeyKept, FinalizerFirst
<1> QED BY <1>2, KeptAfterEnd
(* A reconcile that goes on with object m: what must be shown of it. *)
LEMMA KeptOn ==
    ASSUME KeptInv, KeyInv', NEW c \in CRs, NEW m \in CRStates, NEW phase \in Phases,
           GoesOn(c, m, phase), UNCHANGED moved,
           \A d \in CRs \ {c} : /\ Spares(d) /\ cr'[d] = cr[d]
                                /\ page'[d] = page[d] /\ seen'[d] = seen[d]
                                /\ (d \in shrunk => d \in shrunk'),
           c \notin moved => /\ m.key = InitialKey[c]
                             /\ \A k \in Keys : account'[k] = c => k = InitialKey[c]
                             /\ cr'[c] # Gone => cr'[c].key = InitialKey[c],
           cr'[c] # Gone /\ ~cr'[c].finalizer => MadeBy(c)' = {},
           m.finalizer => cr'[c] # Gone /\ cr'[c].finalizer,
           phase \in {"pend", "create", "record"} => m.finalizer,
           c \notin moved \cup shrunk' /\ (cr'[c] = Gone \/ phase = "unfinalize") => MadeBy(c)' = {},
           Listing(c)'
    PROVE  KeptInv'
<1>1. TaskOK
  BY TypeParts DEF KeptInv, KeyInv
<1>2. mem'[c] = m /\ pc'[c] = phase /\ \A d \in CRs \ {c} : pc'[d] = pc[d] /\ mem'[d] = mem[d]
  BY <1>1, WentOn
<1>3. KeyKept(c)'
  BY <1>2 DEF KeyKept
<1>4. FinalizerFirst(c)'
  BY <1>2 DEF FinalizerFirst
<1>5. LeavesNothing(c)'
  BY <1>2 DEF LeavesNothing
<1>6. Alone(c)
  BY <1>2 DEF Alone
<1> QED BY <1>3, <1>4, <1>5, <1>6, KeptStep DEF Kept

LEMMA KeptObserved ==
    ASSUME KeptInv, KeyInv', NEW c \in CRs, pc[c] = "observe", NEW exists \in BOOLEAN,
           Observed(c, exists), UNCHANGED <<kind, cr, account, ready, past, faults, edits>>,
           c \notin moved \cup shrunk /\ ~exists => MadeBy(c) = {}
    PROVE  KeptInv'
<1>1. TaskOK /\ Kept(c) /\ mem[c] \in CRStates
  BY TypeParts, InMemory DEF KeptInv, KeyInv
<1>2. \A d \in CRs : Spares(d)
  BY SparedByNothing
<1>3. CASE Finish(c)
  BY <1>2, <1>3, KeptStopped DEF past
<1>4. ASSUME NEW m \in CRStates, NEW phase \in {"delete", "unfinalize", "finalize", "pend"},
             GoesOn(c, m, phase),
             page' = [page EXCEPT ![c] = 1], seen' = [seen EXCEPT ![c] = {}],
             m.key = mem[c].key, m.finalizer = mem[c].finalizer,
             phase = "unfinalize" => ~exists, phase = "pend" => m.finalizer
      PROVE  KeptInv'
  <2>1. phase \in Phases
    BY DEF Phases
  <2>2. pc'[c] = phase
    BY <1>1, <1>4, <2>1, WentOn
  <2>3. Listing(c)'
    BY <2>2 DEF Listing
  <2>4. \A d \in CRs \ {c} : page'[d] = page[d] /\ seen'[d] = seen[d]
    BY <1>1, <1>4 DEF TaskOK
  <2>5. mem[c] # Gone
    BY <1>1
  <2>6. c \notin moved => /\ m.key = InitialKey[c]
                          /\ \A k \in Keys : account'[k] = c => k = InitialKey[c]
                          /\ cr'[c] # Gone => cr'[c].key = InitialKey[c]
    BY <1>1, <1>4, <2>5 DEF Kept, KeyKept
  <2>7. MadeBy(c)' = MadeBy(c)
    BY DEF MadeBy
  <2>8. /\ cr'[c] # Gone /\ ~cr'[c].finalizer => MadeBy(c)' = {}
        /\ m.finalizer => cr'[c] # Gone /\ cr'[c].finalizer
    BY <1>1, <1>4, <2>5, <2>7 DEF Kept, FinalizerFirst
  <2>9. c \notin moved \cup shrunk' /\ (cr'[c] = Gone \/ phase = "unfinalize") => MadeBy(c)' = {}
    BY <1>1, <1>4, <2>7 DEF Kept, LeavesNothing, past
  <2>10. UNCHANGED <<cr, moved, shrunk>> /\ phase \notin {"create", "record"}
    BY DEF past
  <2> QED BY <1>2, <1>4, <2>1, <2>3, <2>4, <2>6, <2>8, <2>9, <2>10, KeptOn
<1> QED BY <1>1, <1>3, <1>4, Observing

LEMMA KeptConnect == ASSUME KeptInv, KeyInv', NEW c \in CRs, Connect(c) PROVE KeptInv'
<1>1. CrOK /\ TaskOK /\ Kept(c) /\ cr[c] \in CRStates /\ pc[c] = "idle" /\ page[c] = 1
  BY TypeParts, InCluster DEF KeptInv, KeyInv, Connect, Holding
<1>2. GoesOn(c, cr[c], "observe") /\ "observe" \in Phases
  BY DEF Connect, Goto, GoesOn, Phases
<1>3. UNCHANGED <<cr, account, page, seen, moved>> /\ shrunk' = shrunk \ {c} /\ cr[c] # Gone
  BY DEF Connect
<1>4. \A d \in CRs : Spares(d)
  BY <1>3, SparedByNothing
<1>5. Listing(c)'
  BY <1>1, <1>3, NothingPassed DEF Listing
<1>6. MadeBy(c)' = MadeBy(c)
  BY <1>3 DEF MadeBy
<1>7. /\ c \notin moved => /\ cr[c].key = InitialKey[c]
                           /\ \A k \in Keys : account'[k] = c => k = InitialKey[c]
      /\ ~cr[c].finalizer => MadeBy(c) = {}
  BY <1>1, <1>3 DEF Kept, KeyKept, FinalizerFirst
<1> QED BY <1>1, <1>2, <1>3, <1>4, <1>5, <1>6, <1>7, KeptOn

LEMMA KeptObserveUser == ASSUME KeptInv, KeyInv', NEW c \in CRs, ObserveUser(c) PROVE KeptInv'
<1> DEFINE exists == Found(mem[c], {k \in Keys : Live(k)})
<1>1. Kept(c) /\ pc[c] = "observe" /\ mem[c] \in CRStates
  BY InMemory DEF KeptInv, ObserveUser
<1>2. c \notin moved \cup shrunk /\ ~exists => MadeBy(c) = {}
  <2> SUFFICES ASSUME c \notin moved, ~exists, NEW k \in Keys, account[k] = c PROVE FALSE
    BY DEF MadeBy
  <2>1. k = InitialKey[c] /\ mem[c].key = InitialKey[c]
    BY <1>1 DEF Kept, KeyKept
  <2> QED BY <2>1 DEF Found, Live
<1>3. exists \in BOOLEAN /\ Observed(c, exists)
      /\ UNCHANGED <<kind, cr, account, ready, past, faults, edits>>
  BY DEF Found, ObserveUser
<1> QED BY <1>1, <1>2, <1>3, KeptObserved

LEMMA KeptObserveCostCenter ==
    ASSUME KeptInv, KeyInv', NEW c \in CRs, ObserveCostCenter(c) PROVE KeptInv'
<1> DEFINE keys == seen[c] \cup PageOf(page[c])
<1>1. TaskOK /\ Kept(c) /\ pc[c] = "observe" /\ mem[c] \in CRStates
      /\ UNCHANGED <<kind, cr, account, ready, past, faults, edits>>
  BY TypeParts, InMemory DEF KeptInv, KeyInv, ObserveCostCenter
<1>2. CASE HasNextPage(page[c])
  <2>1. /\ seen' = [seen EXCEPT ![c] = keys] /\ page' = [page EXCEPT ![c] = page[c] + 1]
        /\ UNCHANGED <<pc, mem, cr, account, moved, shrunk>>
    BY <1>1, <1>2 DEF ObserveCostCenter, TaskOK, past
  <2>2. seen'[c] = keys /\ page'[c] = page[c] + 1
        /\ \A d \in CRs \ {c} : page'[d] = page[d] /\ seen'[d] = seen[d]
    BY <1>1, <2>1 DEF TaskOK
  <2>3. Listing(c)'
    <3> SUFFICES ASSUME c \notin shrunk, NEW i \in Listed, Passed(c, i)' PROVE Order[i] \in keys
      BY <1>1, <2>1, <2>2 DEF Listing, Listed, Live
    <3>1. Listed' = Listed /\ Rank(i)' = Rank(i)
      BY <2>1 DEF Listed, Live, Rank
    <3>2. account'[Order[i]] = c /\ Rank(i)' <= (page'[c] - 1) * PageSize
      BY DEF Passed
    <3>3. page'[c] - 1 = page[c]
      BY <1>1, <2>2, ListedSize DEF TaskOK
    <3>4. account[Order[i]] = c /\ Rank(i) <= page[c] * PageSize
      BY <2>1, <3>1, <3>2, <3>3
    <3> QED BY <1>1, <3>4, PagePassed
  <2>4. MadeBy(c)' = MadeBy(c)
    BY <2>1 DEF MadeBy
  <2>5. KeyKept(c)' /\ FinalizerFirst(c)' /\ LeavesNothing(c)'
    BY <1>1, <2>1, <2>4 DEF Kept, KeyKept, FinalizerFirst, LeavesNothing
  <2>6. Alone(c)
    BY <2>1, <2>2, SparedByNothing DEF Alone
  <2> QED BY <2>3, <2>5, <2>6, KeptStep DEF Kept
<1>3. CASE ~HasNextPage(page[c])
  <2>1. c \notin moved \cup shrunk /\ ~Found(mem[c], keys) => MadeBy(c) = {}
    <3> SUFFICES ASSUME c \notin moved, c \notin shrunk, ~Found(mem[c], keys),
                        NEW k \in Keys, account[k] = c
                 PROVE  FALSE
      BY DEF MadeBy
    <3>1. k = InitialKey[c] /\ mem[c].key = InitialKey[c]
      BY <1>1 DEF Kept, KeyKept
    <3>2. k \in keys
      BY <1>1, <1>3, LastPage
    <3> QED BY <3>1, <3>2 DEF Found
  <2>2. Found(mem[c], keys) \in BOOLEAN /\ Observed(c, Found(mem[c], keys))
    BY <1>3 DEF ObserveCostCenter, Found
  <2> QED BY <1>1, <2>1, <2>2, KeptObserved
<1> QED BY <1>2, <1>3

LEMMA KeptAddFinalizer == ASSUME KeptInv, KeyInv', NEW c \in CRs, AddFinalizer(c) PROVE KeptInv'
<1> DEFINE m == [mem[c] EXCEPT !.finalizer = TRUE]
<1>1. TaskOK /\ Kept(c) /\ pc[c] = "finalize" /\ mem[c] \in CRStates /\ mem[c] # Gone
  BY TypeParts, InMemory DEF KeptInv, KeyInv, AddFinalizer
<1>2. m \in CRStates /\ m.key = mem[c].key /\ m.finalizer
  BY <1>1, FieldEdits, FieldsKept
<1>3. cr' = [cr EXCEPT ![c] = m] /\ UNCHANGED <<account, moved, shrunk>>
  BY DEF AddFinalizer, past
<1>4. Finish(c) \/ (GoesOn(c, m, "pend") /\ UNCHANGED <<page, seen, found>>)
  BY DEF AddFinalizer, GoesOn, Goto
<1> HIDE DEF m
<1>5. cr'[c] = m /\ m # Gone /\ \A d \in CRs \ {c} : cr'[d] = cr[d]
  BY <1>2, <1>3, KeyWritten DEF KeptInv
<1>6. \A d \in CRs : Spares(d)
  BY <1>3, SparedByNothing
<1>7. c \notin moved => m.key = InitialKey[c] /\ \A k \in Keys : account'[k] = c => k = InitialKey[c]
  BY <1>1, <1>2, <1>3 DEF Kept, KeyKept
<1>8. CASE Finish(c)
  BY <1>2, <1>3, <1>5, <1>6, <1>7, <1>8, KeptAfterEnd
<1>9. CASE GoesOn(c, m, "pend") /\ UNCHANGED <<page, seen, found>>
  <2>1. "pend" \in Phases
    BY DEF Phases
  <2>2. Listing(c)'
    BY <1>1, <1>2, <1>9, <2>1, WentOn DEF Listing
  <2> QED BY <1>2, <1>3, <1>5, <1>6, <1>7, <1>9, <2>1, <2>2, KeptOn
<1> QED BY <1>4, <1>8, <1>9

LEMMA KeptAnnounce == ASSUME KeptInv, KeyInv', NEW c \in CRs, AnnounceCreate(c) PROVE KeptInv'
<1> DEFINE m == [mem[c] EXCEPT !.creation = "pending"]
<1>1. TaskOK /\ Kept(c) /\ pc[c] = "pend" /\ mem[c] \in CRStates /\ mem[c] # Gone
  BY TypeParts, InMemory DEF KeptInv, KeyInv, AnnounceCreate
<1>2. m \in CRStates /\ m.key = mem[c].key /\ m.finalizer = mem[c].finalizer
  BY <1>1, FieldEdits, FieldsKept DEF Outcomes
<1>3. cr' = [cr EXCEPT ![c] = m] /\ GoesOn(c, m, "create")
      /\ UNCHANGED <<account, page, seen, moved, shrunk>>
  BY DEF AnnounceCreate, past, GoesOn, Goto
<1> HIDE DEF m
<1>4. cr'[c] = m /\ m # Gone /\ \A d \in CRs \ {c} : cr'[d] = cr[d]
  BY <1>2, <1>3, KeyWritten DEF KeptInv
<1>5. \A d \in CRs : Spares(d)
  BY <1>3, SparedByNothing
<1>6. c \notin moved => m.key = InitialKey[c] /\ \A k \in Keys : account'[k] = c => k = InitialKey[c]
  BY <1>1, <1>2, <1>3 DEF Kept, KeyKept
<1>7. m.finalizer
  BY <1>1, <1>2 DEF Kept, FinalizerFirst
<1>8. "create" \in Phases
  BY DEF Phases
<1>9. Listing(c)'
  BY <1>1, <1>2, <1>3, <1>8, WentOn DEF Listing
<1> QED BY <1>2, <1>3, <1>4, <1>5, <1>6, <1>7, <1>8, <1>9, KeptOn

(* The POST, which may have made an object of c's key and of no other. *)
LEMMA KeptAnswered ==
    ASSUME KeptInv, KeyInv', NEW c \in CRs, pc[c] = "create", Make(c) \/ UNCHANGED account,
           NEW m \in CRStates, m.key = mem[c].key, m.finalizer = mem[c].finalizer,
           GoesOn(c, m, "record"), UNCHANGED <<cr, page, seen, moved, shrunk>>
    PROVE  KeptInv'
<1>1. TaskOK /\ RestOK /\ Kept(c) /\ mem[c] \in CRStates /\ mem[c] # Gone
  BY TypeParts, InMemory DEF KeptInv, KeyInv
<1>2. mem[c].finalizer /\ cr[c] # Gone /\ cr[c].finalizer
  BY <1>1 DEF Kept, FinalizerFirst
<1>3. \A k \in Keys : account'[k] = account[k] \/ (account'[k] = c /\ k = mem[c].key)
  BY <1>1, Made
<1>4. c \notin moved => /\ m.key = InitialKey[c]
                        /\ \A k \in Keys : account'[k] = c => k = InitialKey[c]
                        /\ cr[c].key = InitialKey[c]
  BY <1>1, <1>2, <1>3 DEF Kept, KeyKept
<1>5. \A d \in CRs \ {c} : Spares(d)
  BY SparedByMake, SparedByNothing DEF KeptInv
<1>6. "record" \in Phases
  BY DEF Phases
<1>7. Listing(c)'
  BY <1>1, <1>6, WentOn DEF Listing
<1> QED BY <1>2, <1>4, <1>5, <1>6, <1>7, KeptOn

LEMMA KeptCreate == ASSUME KeptInv, KeyInv', NEW c \in CRs, Create(c) PROVE KeptInv'
<1>1. pc[c] = "create" /\ mem[c] \in CRStates
  BY InMemory DEF KeptInv, Create
<1>2. PICK e \in ExistsAs :
        mem' = [mem EXCEPT ![c] =
                  IF Live(mem[c].key) /\ (kind = "User" \/ ~IsAlreadyExists(e))
                  THEN [mem[c] EXCEPT !.creation = "failed"]
                  ELSE [mem[c] EXCEPT !.extName = mem[c].key, !.creation = "succeeded"]]
  BY DEF Create
<1> DEFINE lost == [mem[c] EXCEPT !.creation = "failed"]
           done == [mem[c] EXCEPT !.extName = mem[c].key, !.creation = "succeeded"]
<1>3. "failed" \in Outcomes /\ "succeeded" \in Outcomes
  BY DEF Outcomes
<1>4. lost \in CRStates /\ lost.key = mem[c].key /\ lost.finalizer = mem[c].finalizer
  BY <1>1, <1>3, FieldEdits, FieldsKept
<1>5. done \in CRStates /\ done.key = mem[c].key /\ done.finalizer = mem[c].finalizer
  <2>1. mem[c].key \in Keys \cup {Unnamed}
    BY <1>1 DEF CRStates
  <2>2. done \in CRStates
    BY <1>1, <1>3, <2>1, FieldEdits
  <2>3. done.key = mem[c].key /\ done.finalizer = mem[c].finalizer
    BY <1>1 DEF CRStates
  <2> QED BY <2>2, <2>3
<1>6. GoesOn(c, lost, "record") \/ GoesOn(c, done, "record")
  BY <1>2 DEF GoesOn, Create, Goto
<1>7. Make(c) /\ UNCHANGED <<cr, page, seen, moved, shrunk>>
  BY DEF Create, past
<1> HIDE DEF lost, done
<1> QED BY <1>1, <1>4, <1>5, <1>6, <1>7, KeptAnswered

LEMMA KeptFailed ==
    ASSUME KeptInv, KeyInv', NEW c \in CRs, pc[c] = "create", Make(c) \/ UNCHANGED account,
           mem' = [mem EXCEPT ![c].creation = "failed"], Goto(c, "record"),
           UNCHANGED <<cr, current, page, seen, moved, shrunk>>
    PROVE  KeptInv'
<1> DEFINE lost == [mem[c] EXCEPT !.creation = "failed"]
<1>1. mem[c] \in CRStates /\ "failed" \in Outcomes
  BY InMemory DEF KeptInv, Outcomes
<1>2. lost \in CRStates /\ lost.key = mem[c].key /\ lost.finalizer = mem[c].finalizer
  BY <1>1, FieldEdits, FieldsKept
<1>3. GoesOn(c, lost, "record")
  BY DEF GoesOn, Goto
<1> HIDE DEF lost
<1> QED BY <1>2, <1>3, KeptAnswered

LEMMA KeptRecord == ASSUME KeptInv, KeyInv', NEW c \in CRs, RecordCreate(c) PROVE KeptInv'
<1> DEFINE x == [cr[c] EXCEPT !.extName = mem[c].extName, !.creation = mem[c].creation]
<1>1. Kept(c) /\ CrOK /\ cr[c] # Gone /\ cr[c] \in CRStates /\ mem[c] \in CRStates
  BY TypeParts, InMemory, InCluster DEF KeptInv, KeyInv, RecordCreate
<1>2. x.key = cr[c].key /\ x.finalizer = cr[c].finalizer
  BY <1>1, FieldsKept
<1>3. cr' = [cr EXCEPT ![c] = x] /\ Finish(c) /\ UNCHANGED <<account, moved, shrunk>>
  BY DEF RecordCreate, past
<1> HIDE DEF x
<1>4. cr'[c] = x /\ \A d \in CRs \ {c} : cr'[d] = cr[d]
  BY <1>1, <1>3 DEF CrOK
<1>5. \A d \in CRs : Spares(d)
  BY <1>3, SparedByNothing
<1>6. (c \notin moved => x.key = InitialKey[c]) /\ (~x.finalizer => MadeBy(c) = {})
  BY <1>1, <1>2 DEF Kept, KeyKept, FinalizerFirst
<1>7. x # Gone
  <2>1. mem[c].extName \in Keys \cup {Unnamed} /\ mem[c].creation \in Outcomes
    BY <1>1 DEF CRStates, Outcomes
  <2>2. [cr[c] EXCEPT !.extName = mem[c].extName, !.creation = mem[c].creation] \in CRStates
    BY <1>1, <2>1, FieldEdits
  <2> QED BY <2>2 DEF x
<1> QED BY <1>3, <1>4, <1>5, <1>6, <1>7, KeptAfterEnd

LEMMA KeptDelete == ASSUME KeptInv, KeyInv', NEW c \in CRs, Delete(c) PROVE KeptInv'
<1>1. \A d \in CRs : Spares(d)
  BY SparedByRemove, SparedByNothing DEF Delete, KeptInv
<1>2. shrunk \subseteq shrunk'
  BY DEF Delete, Remove
<1> QED BY <1>1, <1>2, KeptStopped DEF Delete

LEMMA KeptRemoveFinalizer == ASSUME KeptInv, KeyInv', NEW c \in CRs, RemoveFinalizer(c) PROVE KeptInv'
<1>1. cr'[c] = Gone /\ \A d \in CRs \ {c} : cr'[d] = cr[d]
  BY KeyWritten DEF KeptInv, RemoveFinalizer
<1>2. Finish(c) /\ pc[c] = "unfinalize" /\ UNCHANGED <<account, moved, shrunk>>
  BY DEF RemoveFinalizer, past
<1>3. \A d \in CRs : Spares(d)
  BY <1>2, SparedByNothing
<1> QED BY <1>1, <1>2, <1>3, KeptAfterEnd

(* Steps of others that leave the reconcile alone. *)
LEMMA KeptWritten ==
    ASSUME KeptInv, KeyInv', NEW c \in CRs, NEW x \in CRStates \cup {Gone},
           cr' = [cr EXCEPT ![c] = x], cr[c] # Gone,
           UNCHANGED <<pc, mem, page, seen, account, shrunk>>, moved \subseteq moved',
           x # Gone => x.finalizer = cr[c].finalizer /\ (c \notin moved' => x.key = cr[c].key),
           x = Gone => ~cr[c].finalizer
    PROVE  KeptInv'
<1>1. Kept(c)
  BY DEF KeptInv
<1>2. cr'[c] = x /\ \A d \in CRs \ {c} : cr'[d] = cr[d]
  BY KeyWritten DEF KeptInv
<1>3. \A d \in CRs : Spares(d)
  BY SparedByNothing
<1>4. MadeBy(c)' = MadeBy(c)
  BY DEF MadeBy
<1>5. KeyKept(c)'
  BY <1>1, <1>2 DEF Kept, KeyKept
<1>6. FinalizerFirst(c)'
  BY <1>1, <1>2, <1>4 DEF Kept, FinalizerFirst
<1>7. LeavesNothing(c)'
  BY <1>1, <1>2, <1>4 DEF Kept, LeavesNothing, FinalizerFirst
<1>8. Listing(c)'
  BY <1>3, ListingKept
<1>9. Alone(c)
  BY <1>2, <1>3 DEF Alone
<1> QED BY <1>5, <1>6, <1>7, <1>8, <1>9, KeptStep DEF Kept

LEMMA KeptUserEdits == ASSUME KeptInv, KeyInv', NEW c \in CRs, UserEdits(c) PROVE KeptInv'
<1>1. cr[c] \in CRStates
  BY TypeParts, InCluster DEF KeptInv, KeyInv, UserEdits
<1>2. PICK k \in EditableTo[c] \ {cr[c].key} : cr' = [cr EXCEPT ![c] = [cr[c] EXCEPT !.key = k]]
  BY DEF UserEdits
<1> DEFINE x == [cr[c] EXCEPT !.key = k]
<1>3. x \in CRStates /\ x.finalizer = cr[c].finalizer
  BY <1>1, FieldEdits, FieldsKept
<1>4. cr' = [cr EXCEPT ![c] = x]
  BY <1>2
<1>5. x # Gone /\ c \in moved'
  BY <1>3 DEF UserEdits
<1>6. UNCHANGED <<pc, mem, page, seen, account, shrunk>> /\ moved \subseteq moved' /\ cr[c] # Gone
  BY DEF UserEdits
<1> HIDE DEF x
<1> QED BY <1>3, <1>4, <1>5, <1>6, KeptWritten

LEMMA KeptUserDeletes == ASSUME KeptInv, KeyInv', NEW c \in CRs, UserDeletes(c) PROVE KeptInv'
<1> DEFINE y == [cr[c] EXCEPT !.deleting = TRUE]
           x == IF cr[c].finalizer THEN y ELSE Gone
<1>1. cr[c] \in CRStates
  BY TypeParts, InCluster DEF KeptInv, KeyInv, UserDeletes
<1>2. y \in CRStates /\ y.finalizer = cr[c].finalizer /\ y.key = cr[c].key
  BY <1>1, FieldEdits, FieldsKept
<1>3. /\ UNCHANGED <<pc, mem, page, seen, account, shrunk, moved>> /\ cr[c] # Gone
      /\ cr' = [cr EXCEPT ![c] = x]
  BY DEF UserDeletes, past
<1> HIDE DEF y
<1>4. /\ x \in CRStates \cup {Gone} /\ (x = Gone => ~cr[c].finalizer)
      /\ x # Gone => x.finalizer = cr[c].finalizer /\ x.key = cr[c].key
  BY <1>2
<1> HIDE DEF x
<1> QED BY <1>3, <1>4, KeptWritten

LEMMA KeptAside ==
    ASSUME KeptInv, KeyInv', UNCHANGED <<cr, task, moved>>, shrunk \subseteq shrunk',
           \A d \in CRs : Spares(d)
    PROVE  KeptInv'
BY KeptElsewhere DEF KeptInv, task

LEMMA KeptNext == KeptInv /\ [Next]_vars => KeptInv'
<1> SUFFICES ASSUME KeptInv, [Next]_vars PROVE KeptInv'
  OBVIOUS
<1>0. KeyInv /\ KeyInv'
  BY KeyNext DEF KeptInv
<1>1. ASSUME NEW c \in CRs, Step(c) PROVE KeptInv'
  <2>1. ResolveFails(c) => KeptInv'
    BY <1>0, KeptFailed DEF ResolveFails, past
  <2>2. LoseUpdate(c) => KeptInv'
    BY <1>0, KeptStopped, SparedByNothing DEF LoseUpdate, past
  <2> QED BY <1>0, <1>1, <2>1, <2>2, KeptConnect, KeptObserveUser, KeptObserveCostCenter,
             KeptAddFinalizer, KeptAnnounce, KeptCreate, KeptRecord, KeptDelete,
             KeptRemoveFinalizer DEF Step
<1>2. ASSUME NEW c \in CRs, CreateFails(c) PROVE KeptInv'
  BY <1>0, <1>2, KeptFailed DEF CreateFails, past
<1>3. ASSUME NEW c \in CRs, Interrupted(c) PROVE KeptInv'
  BY <1>0, <1>3, KeptStopped, SparedByNothing DEF Interrupted, past
<1>4. ASSUME NEW c \in CRs, ReferencesChange(c) PROVE KeptInv'
  BY <1>0, <1>4, KeptAside, SparedByNothing DEF ReferencesChange, past
<1>5. ASSUME NEW k \in Keys, AdminDeletes(k) PROVE KeptInv'
  <2>1. shrunk \subseteq shrunk'
    BY <1>5 DEF AdminDeletes, Remove
  <2> QED BY <1>0, <1>5, <2>1, KeptAside, SparedByRemove DEF AdminDeletes
<1>6. CASE UNCHANGED vars
  BY <1>0, <1>6, KeptAside, SparedByNothing DEF vars, past
<1> QED BY <1>0, <1>1, <1>2, <1>3, <1>4, <1>5, <1>6, KeptUserEdits, KeptUserDeletes DEF Next

LEMMA KeptInit == Init => KeptInv
<1> SUFFICES ASSUME Init PROVE KeptInv
  OBVIOUS
<1>1. ASSUME NEW c \in CRs PROVE Kept(c)
  <2>1. \A k \in Keys : account[k] # c
    BY DEF Init
  <2>2. MadeBy(c) = {}
    BY <2>1 DEF MadeBy
  <2>3. /\ cr[c].key = InitialKey[c] /\ mem[c] = Gone /\ pc[c] = "idle"
    BY DEF Init
  <2> QED BY <2>1, <2>2, <2>3 DEF Kept, KeyKept, FinalizerFirst, LeavesNothing, Listing
<1> QED BY <1>1, KeyInit DEF KeptInv

(* A user or cost center resource that left the cluster left no object it made,
   unless its key was edited or the listing that found the object absent lost a
   record half-way: failures, lost replies, crashes and whatever other
   resources do in between leave nothing behind.                           *)
THEOREM KeyedTeardownIsClean == Spec => []CleanTeardown
<1>1. KeptInv => CleanTeardown
  BY DEF KeptInv, Kept, LeavesNothing, CleanTeardown
<1> QED BY <1>1, KeptInit, KeptNext, PTL DEF Spec

-----------------------------------------------------------------------------
(* A user resource implements Ownership: what it claims changes by the making
   of an object when there was none, or by the loss of what it had.        *)

Stutters == /\ \A d \in CRs : Claimed(d)' = Claimed(d)
            /\ \A d \in CRs : cr'[d] = Gone <=> cr[d] = Gone

Acquires(c, k) ==
    /\ cr[c] # Gone /\ Claimed(c) = {} /\ Claimed(c)' = {k}
    /\ \A d \in CRs : k \notin Claimed(d)
    /\ \A d \in CRs : d # c => Claimed(d)' = Claimed(d)
    /\ \A d \in CRs : cr'[d] = Gone <=> cr[d] = Gone

Loses(c) ==
    /\ Claimed(c)' = {}
    /\ \A d \in CRs : d # c => Claimed(d)' = Claimed(d)
    /\ \A d \in CRs : cr'[d] = Gone <=> cr[d] = Gone

Retires(c) ==
    /\ Claimed(c) = {} /\ cr'[c] = Gone
    /\ \A d \in CRs : Claimed(d)' = Claimed(d)
    /\ \A d \in CRs : d # c => (cr'[d] = Gone <=> cr[d] = Gone)

ClaimStep ==
    \/ Stutters
    \/ \E c \in CRs : Loses(c) \/ Retires(c) \/ \E k \in Keys : Acquires(c, k)

(* No listing of a user resource is ever cut. *)
UsersPage == kind = "User" => shrunk = {} /\ \A c \in CRs : page[c] = 1

LEMMA UsersPageNext == KeptInv /\ UsersPage /\ [Next]_vars => UsersPage'
<1> SUFFICES ASSUME KeptInv, UsersPage, [Next]_vars, kind' = "User"
             PROVE  shrunk' = {} /\ \A c \in CRs : page'[c] = 1
  BY DEF UsersPage
<1>1. TypeOK /\ page \in [CRs -> 1 .. Len(Order)]
  BY DEF KeptInv, KeyInv, TypeOK
<1>2. kind' = kind
  BY DEF Next, Step, Connect, ObserveUser, ObserveCostCenter, AddFinalizer, AnnounceCreate, Create,
     ResolveFails, CreateFails, RecordCreate, Delete, RemoveFinalizer, LoseUpdate, Interrupted,
     UserEdits, UserDeletes, AdminDeletes, ReferencesChange, vars
<1>3. kind = "User" /\ shrunk = {} /\ \A c \in CRs : page[c] = 1
  BY <1>2 DEF UsersPage
<1> DEFINE Reset(c) == page' = page \/ page' = [page EXCEPT ![c] = 1]
<1>4. ASSUME NEW c \in CRs, Finish(c) PROVE Reset(c)
  BY <1>4 DEF Finish
<1>5. ASSUME NEW c \in CRs, NEW e \in BOOLEAN, Observed(c, e) PROVE Reset(c)
  BY <1>5 DEF Observed, Finish
<1>6. ASSUME NEW c \in CRs, Step(c) \/ CreateFails(c) \/ Interrupted(c) PROVE Reset(c)
  <2>1. CASE ObserveUser(c)
    <3> DEFINE e == Found(mem[c], {k \in Keys : Live(k)})
    <3>1. e \in BOOLEAN
      BY DEF Found
    <3>2. Observed(c, e)
      BY <2>1 DEF ObserveUser
    <3> HIDE DEF e
    <3> QED BY <1>5, <3>1, <3>2
  <2>2. CASE AddFinalizer(c) \/ RecordCreate(c) \/ Delete(c) \/ RemoveFinalizer(c) \/ LoseUpdate(c)
             \/ Interrupted(c)
    BY <1>4, <2>2 DEF AddFinalizer, RecordCreate, Delete, RemoveFinalizer, LoseUpdate, Interrupted
  <2>3. CASE Connect(c) \/ AnnounceCreate(c) \/ Create(c) \/ ResolveFails(c) \/ CreateFails(c)
    BY <2>3 DEF Connect, AnnounceCreate, Create, ResolveFails, CreateFails
  <2>4. ~ObserveCostCenter(c)
    BY <1>3 DEF ObserveCostCenter
  <2> QED BY <1>6, <2>1, <2>2, <2>3, <2>4 DEF Step
<1>7. ASSUME \/ \E c \in CRs : UserEdits(c) \/ UserDeletes(c) \/ ReferencesChange(c)
             \/ \E k \in Keys : AdminDeletes(k)
             \/ UNCHANGED vars
      PROVE  page' = page
  BY <1>7 DEF UserEdits, UserDeletes, ReferencesChange, AdminDeletes, task, vars
<1>8. page' = page \/ \E c \in CRs : page' = [page EXCEPT ![c] = 1]
  BY <1>6, <1>7 DEF Next
<1>9. ASSUME NEW k PROVE Remove(k) => shrunk' = {}
  BY <1>3 DEF Remove
<1>10. ASSUME NEW c \in CRs, Delete(c) \/ Connect(c) PROVE shrunk' = {}
  BY <1>3, <1>9, <1>10 DEF Delete, Connect
<1>11. ASSUME NEW k \in Keys, AdminDeletes(k) PROVE shrunk' = {}
  BY <1>9, <1>11 DEF AdminDeletes
<1>12. ASSUME NEW c \in CRs,
              \/ ObserveUser(c) \/ ObserveCostCenter(c) \/ AddFinalizer(c) \/ AnnounceCreate(c)
              \/ Create(c) \/ ResolveFails(c) \/ CreateFails(c) \/ RecordCreate(c)
              \/ RemoveFinalizer(c) \/ LoseUpdate(c) \/ Interrupted(c) \/ UserEdits(c)
              \/ UserDeletes(c) \/ ReferencesChange(c)
       PROVE  shrunk' = {}
  BY <1>3, <1>12 DEF ObserveUser, ObserveCostCenter, AddFinalizer, AnnounceCreate, Create,
     ResolveFails, CreateFails, RecordCreate, RemoveFinalizer, LoseUpdate, Interrupted, UserEdits,
     UserDeletes, ReferencesChange, past
<1>13. shrunk' = {}
  BY <1>3, <1>10, <1>11, <1>12 DEF Next, Step, vars, past
<1> QED BY <1>1, <1>3, <1>8, <1>13

(* A record that goes was claimed by one resource or none. *)
LEMMA ClaimRemoved ==
    ASSUME TypeOK, NEW k \in Keys, account' = [account EXCEPT ![k] = NoRecord],
           \A c \in CRs : \A i, j \in Claimed(c) : i = j, UNCHANGED <<kind, cr, moved>>
    PROVE  ClaimStep
<1>1. ASSUME NEW d \in CRs PROVE MadeBy(d)' = MadeBy(d) \ {k}
  BY DEF MadeBy, TypeOK
<1>2. ASSUME NEW d \in CRs, k \notin Claimed(d) PROVE Claimed(d)' = Claimed(d)
  <2>1. CASE kind = "User" /\ d \notin moved
    <3>1. k \notin MadeBy(d)
      BY <1>2, <2>1 DEF Claimed
    <3>2. MadeBy(d)' = MadeBy(d)
      BY <3>1 DEF MadeBy, TypeOK
    <3> QED BY <2>1, <3>2 DEF Claimed
  <2>2. CASE ~(kind = "User" /\ d \notin moved)
    BY <2>2 DEF Claimed
  <2> QED BY <2>1, <2>2
<1>3. ASSUME NEW d \in CRs, Claimed(d) = {k} PROVE Claimed(d)' = {}
  BY <1>1, <1>3 DEF Claimed
<1>4. CASE \E c \in CRs : k \in Claimed(c)
  <2>1. PICK c \in CRs : k \in Claimed(c)
    BY <1>4
  <2>2. Claimed(c) = {k} /\ \A d \in CRs : d # c => k \notin Claimed(d)
    BY <2>1 DEF Claimed, MadeBy
  <2> QED BY <1>2, <1>3, <2>2 DEF Loses, ClaimStep
<1>5. CASE \A c \in CRs : k \notin Claimed(c)
  BY <1>2, <1>5 DEF Stutters, ClaimStep
<1> QED BY <1>4, <1>5

(* The POST makes an object where there was none. *)
LEMMA ClaimMade ==
    ASSUME KeptInv, NEW c \in CRs, pc[c] = "create", Make(c) \/ UNCHANGED account,
           UNCHANGED <<kind, cr, moved>>
    PROVE  ClaimStep
<1>1. /\ TypeOK /\ Kept(c) /\ mem[c] \in CRStates /\ mem[c] # Gone /\ mem[c].key \in Keys
      /\ cr[c] # Gone
  BY InMemory DEF KeptInv, KeyInv, Kept, FinalizerFirst, CRStates
<1>2. CASE account' = account
  BY <1>2 DEF Stutters, ClaimStep, Claimed, MadeBy
<1>3. CASE account' # account
  <2> DEFINE k == mem[c].key
  <2>1. k \in Keys /\ account[k] = NoRecord /\ account' = [account EXCEPT ![k] = c]
    BY <1>1, <1>3 DEF Make, Live, TypeOK
  <2>2. ASSUME NEW d \in CRs
        PROVE  MadeBy(d)' = IF d = c THEN MadeBy(d) \cup {k} ELSE MadeBy(d)
    BY <1>1, <2>1 DEF MadeBy, TypeOK
  <2>3. \A d \in CRs : k \notin MadeBy(d)
    BY <2>1 DEF MadeBy
  <2>4. c \notin moved => MadeBy(c) = {}
    BY <1>1, <2>3 DEF Kept, KeyKept, MadeBy
  <2> HIDE DEF k
  <2>5. CASE kind = "User" /\ c \notin moved
    BY <1>1, <2>1, <2>2, <2>3, <2>4, <2>5 DEF Acquires, ClaimStep, Claimed
  <2>6. CASE ~(kind = "User" /\ c \notin moved)
    BY <2>2, <2>6 DEF Stutters, ClaimStep, Claimed
  <2> QED BY <2>5, <2>6
<1> QED BY <1>2, <1>3

(* An object in the cluster stays one, or its resource leaves. *)
LEMMA ClaimKept ==
    ASSUME UNCHANGED <<kind, account, moved>>, \A d \in CRs : cr'[d] = Gone <=> cr[d] = Gone
    PROVE  ClaimStep
BY DEF Stutters, ClaimStep, Claimed, MadeBy

LEMMA ClaimNext == KeptInv /\ KeptInv' /\ UsersPage /\ [Next]_vars => ClaimStep
<1> SUFFICES ASSUME KeptInv, KeptInv', UsersPage, [Next]_vars PROVE ClaimStep
  OBVIOUS
<1>1. TypeOK /\ TypeOK' /\ \A c \in CRs : Kept(c)
  BY DEF KeptInv, KeyInv
<1>2. \A c \in CRs : \A i, j \in Claimed(c) : i = j
  BY <1>1 DEF Claimed, MadeBy, Kept, KeyKept
<1>3. ASSUME NEW c \in CRs, Create(c) \/ CreateFails(c) PROVE ClaimStep
  BY <1>3, ClaimMade DEF Create, CreateFails, past
<1>4. ASSUME NEW k \in Keys, Remove(k), UNCHANGED <<kind, cr, moved>> PROVE ClaimStep
  BY <1>1, <1>2, <1>4, ClaimRemoved DEF Remove
<1>5. ASSUME NEW c \in CRs, Delete(c) PROVE ClaimStep
  <2>1. CASE Remove(mem[c].extName) /\ mem[c].extName \in Keys
    BY <1>4, <1>5, <2>1 DEF Delete
  <2>2. CASE UNCHANGED account
    BY <1>5, <2>2, ClaimKept DEF Delete
  <2> QED BY <1>5, <2>1, <2>2 DEF Delete
<1>6. ASSUME NEW k \in Keys, AdminDeletes(k) PROVE ClaimStep
  BY <1>4, <1>6 DEF AdminDeletes
<1>7. ASSUME NEW c \in CRs, RemoveFinalizer(c) PROVE ClaimStep
  <2>1. cr' = [cr EXCEPT ![c] = Gone] /\ UNCHANGED <<kind, account, moved>> /\ pc[c] = "unfinalize"
    BY <1>7 DEF RemoveFinalizer, past
  <2>2. Claimed(c) = {}
    BY <1>1, <2>1 DEF Claimed, Kept, LeavesNothing, UsersPage
  <2> QED BY <1>1, <2>1, <2>2 DEF Retires, ClaimStep, Claimed, MadeBy, TypeOK
<1>8. ASSUME NEW c \in CRs, UserDeletes(c) PROVE ClaimStep
  <2>1. /\ cr[c] # Gone /\ UNCHANGED <<kind, account, moved>>
        /\ \A d \in CRs : d # c => cr'[d] = cr[d]
    BY <1>1, <1>8 DEF UserDeletes, past, TypeOK
  <2>2. CASE cr'[c] # Gone
    BY <2>1, <2>2, ClaimKept
  <2>3. CASE cr'[c] = Gone
    <3> DEFINE y == [cr[c] EXCEPT !.deleting = TRUE]
    <3>1. cr[c] \in CRStates
      BY <1>1, <2>1 DEF TypeOK
    <3>2. y \in CRStates
      BY <3>1, FieldEdits
    <3>3. cr' = [cr EXCEPT ![c] = IF cr[c].finalizer THEN y ELSE Gone]
      BY <1>8 DEF UserDeletes
    <3> HIDE DEF y
    <3>4. ~cr[c].finalizer
      BY <1>1, <2>3, <3>2, <3>3 DEF TypeOK
    <3>5. Claimed(c) = {}
      BY <1>1, <2>1, <3>4 DEF Claimed, Kept, FinalizerFirst
    <3> QED BY <2>1, <2>3, <3>5 DEF Retires, ClaimStep, Claimed, MadeBy
  <2> QED BY <2>2, <2>3
<1>9. ASSUME NEW c \in CRs, UserEdits(c) PROVE ClaimStep
  <2>1. /\ cr[c] # Gone /\ UNCHANGED <<kind, account>> /\ moved' = moved \cup {c}
        /\ \E x \in CRStates : cr' = [cr EXCEPT ![c] = x]
    <3>1. cr[c] \in CRStates
      BY <1>1, <1>9 DEF UserEdits, TypeOK
    <3> QED BY <1>9, <3>1, FieldEdits DEF UserEdits
  <2>2. \A d \in CRs : cr'[d] = Gone <=> cr[d] = Gone
    BY <1>1, <2>1 DEF TypeOK
  <2>3. Claimed(c)' = {} /\ \A d \in CRs : d # c => Claimed(d)' = Claimed(d)
    BY <2>1 DEF Claimed, MadeBy
  <2> QED BY <2>2, <2>3 DEF Loses, ClaimStep
<1>10. ASSUME NEW c \in CRs, AddFinalizer(c) \/ AnnounceCreate(c) \/ RecordCreate(c) PROVE ClaimStep
  <2>1. UNCHANGED <<kind, account, moved>> /\ cr[c] # Gone /\ cr'[c] # Gone
        /\ \A d \in CRs : d # c => cr'[d] = cr[d]
    <3>1. mem[c] \in CRStates /\ cr[c] # Gone /\ cr[c] \in CRStates
      BY <1>1, <1>10, InMemory DEF AddFinalizer, AnnounceCreate, RecordCreate, CurrentVersion, KeptInv, TypeOK
    <3>2. mem[c].extName \in Keys \cup {Unnamed} /\ mem[c].creation \in Outcomes /\ "pending" \in Outcomes
      BY <3>1 DEF CRStates, Outcomes
    <3>3. \E x \in CRStates : cr' = [cr EXCEPT ![c] = x]
      BY <1>10, <3>1, <3>2, FieldEdits DEF AddFinalizer, AnnounceCreate, RecordCreate
    <3>4. UNCHANGED <<kind, account, moved>>
      BY <1>10 DEF AddFinalizer, AnnounceCreate, RecordCreate, past
    <3> QED BY <1>1, <3>1, <3>3, <3>4 DEF TypeOK
  <2> QED BY <2>1, ClaimKept
<1>11. ASSUME NEW c \in CRs,
              \/ Connect(c) \/ ObserveUser(c) \/ ObserveCostCenter(c) \/ ResolveFails(c)
              \/ LoseUpdate(c) \/ Interrupted(c) \/ ReferencesChange(c)
       PROVE  ClaimStep
  <2>1. UNCHANGED <<kind, cr, account, moved>>
    BY <1>11 DEF Connect, ObserveUser, ObserveCostCenter, ResolveFails, LoseUpdate, Interrupted,
       ReferencesChange, past
  <2> QED BY <2>1, ClaimKept
<1>12. CASE UNCHANGED vars
  BY <1>12, ClaimKept DEF vars, past
<1> QED BY <1>3, <1>5, <1>6, <1>7, <1>8, <1>9, <1>10, <1>11, <1>12 DEF Next, Step

(* User resources implement Ownership, with lost replies, crashes and edits:
   the key finds an object again whose creation nobody recorded.           *)
THEOREM UsersImplementOwnership == Spec => OwnershipKept
<1>1. Init => UsersPage /\ Abstract!OInit
  <2> SUFFICES ASSUME Init PROVE UsersPage /\ Abstract!OInit
    OBVIOUS
  <2>1. UsersPage
    BY DEF Init, UsersPage
  <2>2. ASSUME NEW c \in CRs PROVE Claimed(c) = {} /\ cr[c] # Gone
    <3>1. \A k \in Keys : account[k] # c
      BY DEF Init
    <3>2. [key |-> InitialKey[c], extName |-> Unnamed, creation |-> "none",
           finalizer |-> FALSE, deleting |-> FALSE] \in CRStates
      BY DEF CRStates
    <3> QED BY <3>1, <3>2 DEF Init, Claimed, MadeBy
  <2> QED BY <2>1, <2>2 DEF Abstract!OInit
<1>2. KeptInv /\ KeptInv' /\ UsersPage /\ [Next]_vars => [Abstract!ONext]_(Abstract!ovars)
  <2> SUFFICES ASSUME ClaimStep PROVE [Abstract!ONext]_(Abstract!ovars)
    BY ClaimNext
  <2>1. CASE Stutters
    BY <2>1 DEF Stutters, Abstract!ovars
  <2>2. ASSUME NEW c \in CRs, Loses(c) PROVE Abstract!Lose(c)
    BY <2>2 DEF Loses, Abstract!Lose
  <2>3. ASSUME NEW c \in CRs, Retires(c) PROVE Abstract!Retire(c)
    BY <2>3 DEF Retires, Abstract!Retire
  <2>4. ASSUME NEW c \in CRs, NEW k \in Keys, Acquires(c, k) PROVE Abstract!Acquire(c, k)
    BY <2>4 DEF Acquires, Abstract!Acquire
  <2> QED BY <2>1, <2>2, <2>3, <2>4 DEF ClaimStep, Abstract!ONext
<1>3. KeptInv /\ UsersPage /\ [Next]_vars => UsersPage'
  BY UsersPageNext
<1> QED BY <1>1, <1>2, <1>3, KeptInit, KeptNext, PTL DEF Spec, OwnershipKept, Abstract!OSpec
=============================================================================
