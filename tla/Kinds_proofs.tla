---------------------------- MODULE Kinds_proofs ----------------------------
(***************************************************************************)
(* Proofs about Kinds, for any kinds, manifests, servers and bounds.  The  *)
(* count of objects needs nothing of what the kinds send: there an object  *)
(* is one, whatever it holds.  The types and the status of a zone rest on  *)
(* what ZoneRules_proofs says of the conversions.                          *)
(***************************************************************************)
EXTENDS Kinds, ZoneRules_proofs

USE KindsAssumption

Phases == {"observe", "create", "update", "delete"}

Shapes ==
    /\ kind \in KindsOfRun /\ level \in Levels(kind) /\ at \in Levels(kind)
    /\ spec \in Parameters(kind) /\ (pc # "observe" => mem \in Parameters(kind))
    /\ objects \in [Levels(kind) -> Dtos[kind] \cup {NoObject}] /\ strays \in Nat
    /\ known \in Levels(kind) \cup {"none", "outdated"}
    /\ pc \in Phases /\ forsaken \in Nat

(* All objects but the one that is found have been counted; a creation is begun
   only while none is found, and an edit of the level meanwhile is counted. *)
SightInv ==
    /\ Shapes
    /\ gone => pc = "observe" /\ ~Found
    /\ known \in Levels(kind) => objects[known] # NoObject
    /\ Copies <= forsaken + (IF Found THEN 1 ELSE 0)
    /\ pc = "create" => /\ Copies <= forsaken
                        /\ at # level => Copies + 1 <= forsaken

LEMMA LevelNames ==
    ASSUME NEW k
    PROVE  "account" \in Levels(k) /\ "none" \notin Levels(k) /\ "outdated" \notin Levels(k)
BY DEF Levels

(* What is sent is an object. *)
LEMMA SentIsAnObject ==
    ASSUME NEW k \in KindsOfRun, NEW p \in Parameters(k)
    PROVE  Sent(k, p) \in Dtos[k] /\ Sent(k, p) # NoObject
BY DEF Dtos

LEMMA FoundIsThere == Found => objects[level] # NoObject
BY DEF Found, object

Present == {l \in Levels(kind) : objects[l] # NoObject}

LEMMA PresentCount ==
    ASSUME Shapes
    PROVE  IsFiniteSet(Present) /\ Cardinality(Present) \in Nat
           /\ Copies = Cardinality(Present) + strays /\ Copies \in Nat
<1>1. IsFiniteSet({"account"}) /\ IsFiniteSet({"account"} \cup {"environment"})
  BY FS_Singleton, FS_AddElement
<1>2. Present \subseteq {"account"} \cup {"environment"}
  BY DEF Present, Levels
<1>3. IsFiniteSet(Present)
  BY <1>1, <1>2, FS_Subset
<1>4. Cardinality(Present) \in Nat
  BY <1>3, FS_CardinalityType
<1>5. Copies = Cardinality(Present) + strays
  BY DEF Copies, Present
<1> QED BY <1>3, <1>4, <1>5 DEF Shapes

(* What Copies and Found depend on. *)
LEMMA SameObjects ==
    ASSUME Shapes, UNCHANGED <<kind, strays>>,
           \A l \in Levels(kind) : objects'[l] = NoObject <=> objects[l] = NoObject
    PROVE  /\ Copies' = Copies
           /\ UNCHANGED <<server, level, known>> => Found' = Found
<1>1. Present' = Present
  BY DEF Present
<1>2. Copies' = Copies
  BY <1>1 DEF Copies, Present
<1> QED BY <1>2 DEF Shapes, Found, object

LEMMA SightInit == Init => SightInv
<1> SUFFICES ASSUME Init PROVE SightInv
  OBVIOUS
<1>1. /\ kind \in KindsOfRun /\ spec \in Parameters(kind) /\ level = "account" /\ at = "account"
      /\ objects = [l \in Levels(kind) |-> NoObject] /\ strays = 0 /\ known = "none"
      /\ pc = "observe" /\ gone = FALSE /\ forsaken = 0
  BY DEF Init
<1>2. Shapes
  BY <1>1, LevelNames DEF Shapes, Phases
<1>3. Copies = 0
  <2>1. Present = {}
    BY <1>1 DEF Present
  <2>2. Cardinality(Present) = 0
    BY <2>1, FS_EmptySet
  <2> QED BY <1>1, <1>2, <2>2, PresentCount
<1> QED BY <1>1, <1>2, <1>3, LevelNames DEF SightInv

(* A step of the reconcile, or of the user, that leaves the objects and what is
   known of them: it ends the reconcile, or begins no creation.            *)
LEMMA SightObserves ==
    ASSUME SightInv, spec' \in Parameters(kind),
           UNCHANGED <<kind, server, level, gone, known, objects, strays, forsaken>>,
           \/ UNCHANGED <<pc, mem, at>>
           \/ pc' = "observe" /\ at' = "account"
           \/ ~gone /\ pc' \in {"delete", "update"} /\ mem' \in Parameters(kind) /\ at' = level
    PROVE  SightInv'
<1>1. Shapes /\ Shapes'
  BY LevelNames DEF SightInv, Shapes, Phases
<1>2. Copies' = Copies /\ Found' = Found
  BY <1>1, SameObjects
<1> QED BY <1>1, <1>2 DEF SightInv

LEMMA SightObserveFound == ASSUME SightInv, ObserveFound PROVE SightInv'
<1>1. /\ UNCHANGED <<kind, server, spec, level, gone, known, objects, strays, forsaken>>
      /\ ~gone
      /\ \/ pc' = "observe" /\ at' = "account"
         \/ pc' \in {"delete", "update"} /\ mem' = spec /\ at' = level
  BY DEF ObserveFound, Go, Finish, manifest, account
<1>2. spec \in Parameters(kind)
  BY DEF SightInv, Shapes
<1> QED BY <1>1, <1>2, SightObserves

LEMMA SightObserveAbsent == ASSUME SightInv, ObserveAbsent PROVE SightInv'
<1>1. /\ UNCHANGED <<kind, server, spec, level, known, objects, strays, forsaken>>
      /\ ~gone /\ ~Found
      /\ \/ gone' = TRUE /\ pc' = "observe" /\ at' = "account"
         \/ ~gone' /\ pc' = "create" /\ mem' = spec /\ at' = level
  BY DEF ObserveAbsent, Go, Finish, manifest, account
<1>2. Shapes /\ Shapes'
  BY <1>1, LevelNames DEF SightInv, Shapes, Phases
<1>3. Copies' = Copies /\ Found' = Found /\ Copies \in Nat
  BY <1>1, <1>2, SameObjects, PresentCount
<1>4. Copies <= forsaken
  BY <1>1, <1>2 DEF SightInv, Shapes
<1> QED BY <1>1, <1>2, <1>3, <1>4 DEF SightInv

(* The POST makes one object more, at the level the reconcile has read. *)
LEMMA Making ==
    ASSUME SightInv, pc = "create", Make, UNCHANGED kind
    PROVE  /\ objects' \in [Levels(kind) -> Dtos[kind] \cup {NoObject}] /\ strays' \in Nat
           /\ objects'[at] # NoObject
           /\ \A l \in Levels(kind) \ {at} : objects'[l] = objects[l]
           /\ Copies' = Copies + 1
<1>1. Shapes
  BY DEF SightInv
<1> DEFINE o == Sent(kind, mem)
<1>2. o \in Dtos[kind] /\ o # NoObject
  BY <1>1, SentIsAnObject DEF Shapes
<1>3. objects' = [objects EXCEPT ![at] = o]
  BY DEF Make, Made
<1> HIDE DEF o
<1>4. /\ objects' \in [Levels(kind) -> Dtos[kind] \cup {NoObject}] /\ objects'[at] = o
      /\ \A l \in Levels(kind) \ {at} : objects'[l] = objects[l]
      /\ at \in Levels(kind)
  BY <1>1, <1>2, <1>3 DEF Shapes
<1>5. strays' \in Nat
  BY <1>1 DEF Shapes, Make
<1>6. Copies' = Copies + 1
  <2>1. Present' = Present \cup {at}
    BY <1>2, <1>4 DEF Present
  <2>2. /\ IsFiniteSet(Present) /\ Cardinality(Present) \in Nat
        /\ Copies = Cardinality(Present) + strays
    BY <1>1, PresentCount
  <2>3. Copies' = Cardinality(Present') + strays'
    BY DEF Copies, Present
  <2>4. at \in Present <=> objects[at] # NoObject
    BY <1>4 DEF Present
  <2>5. CASE objects[at] = NoObject
    <3>1. Cardinality(Present \cup {at}) = Cardinality(Present) + 1 /\ strays' = strays
      BY <2>2, <2>4, <2>5, FS_AddElement DEF Make
    <3> QED BY <1>1, <2>1, <2>2, <2>3, <3>1 DEF Shapes
  <2>6. CASE objects[at] # NoObject
    <3>1. Present' = Present /\ strays' = strays + 1
      BY <2>1, <2>4, <2>6 DEF Make
    <3> QED BY <1>1, <2>2, <2>3, <3>1 DEF Shapes
  <2> QED BY <2>5, <2>6
<1> QED BY <1>2, <1>4, <1>5, <1>6

LEMMA SightCreate == ASSUME SightInv, Create PROVE SightInv'
<1>1. /\ UNCHANGED <<kind, server, spec, level, gone, forsaken>>
      /\ pc = "create" /\ pc' = "observe" /\ at' = "account" /\ known' = at /\ Make
  BY DEF Create, Finish, manifest
<1>2. Shapes /\ ~gone
  BY <1>1 DEF SightInv
<1>3. Shapes'
  BY <1>1, <1>2, Making, LevelNames DEF Shapes, Phases
<1>4. objects'[at] # NoObject /\ Copies' = Copies + 1
  BY <1>1, Making
<1>5. level = at => Found'
  BY <1>1, <1>4 DEF Found, object
<1>6. Copies \in Nat /\ forsaken \in Nat
  BY <1>2, PresentCount DEF Shapes
<1>7. Copies' <= forsaken' + (IF Found' THEN 1 ELSE 0)
  BY <1>1, <1>4, <1>5, <1>6 DEF SightInv
<1> QED BY <1>1, <1>2, <1>3, <1>4, <1>7 DEF SightInv

(* A step that ends the reconcile and touches nothing else. *)
LEMMA SightFinished ==
    ASSUME SightInv, Finish,
           UNCHANGED <<kind, server, spec, level, gone, known, objects, strays, forsaken>>
    PROVE  SightInv'
<1>1. pc' = "observe" /\ at' = "account" /\ spec \in Parameters(kind)
  BY DEF Finish, SightInv, Shapes
<1> QED BY <1>1, SightObserves

(* The reply is lost: the search by name finds the object, or it is counted. *)
LEMMA SightCreateFails == ASSUME SightInv, CreateFails PROVE SightInv'
<1>1. /\ UNCHANGED <<kind, server, spec, level, gone, known>>
      /\ pc = "create" /\ Finish /\ pc' = "observe" /\ at' = "account"
  BY DEF CreateFails, Finish, manifest
<1>2. CASE UNCHANGED <<account, forsaken>>
  BY <1>1, <1>2, SightFinished DEF account
<1>3. CASE /\ Make
           /\ forsaken' = IF known = "none" /\ ~server.crowded THEN forsaken ELSE forsaken + 1
  <2>1. Shapes /\ ~gone
    BY <1>1 DEF SightInv
  <2>2. Shapes'
    BY <1>1, <1>3, <2>1, Making, LevelNames DEF Shapes, Phases
  <2>3. objects'[at] # NoObject /\ Copies' = Copies + 1
    BY <1>1, <1>3, Making
  <2>4. level = at /\ known = "none" /\ ~server.crowded => Found'
    BY <1>1, <2>3 DEF Found, object
  <2>5. Copies \in Nat /\ forsaken \in Nat
    BY <2>1, PresentCount DEF Shapes
  <2>6. Copies' <= forsaken' + (IF Found' THEN 1 ELSE 0)
    <3>1. Copies <= forsaken /\ (at # level => Copies + 1 <= forsaken)
      BY <1>1 DEF SightInv
    <3> QED BY <1>3, <2>3, <2>4, <2>5, <3>1
  <2>7. known \in Levels(kind) => objects'[known] # NoObject
    BY <1>1, <1>3, Making DEF SightInv
  <2> QED BY <1>1, <2>1, <2>2, <2>6, <2>7 DEF SightInv
<1> QED BY <1>2, <1>3 DEF CreateFails

(* A PUT, or an administrator, replaces the object of a level that has one. *)
LEMMA Replacing ==
    ASSUME SightInv, NEW l \in Levels(kind), objects[l] # NoObject,
           NEW o \in Dtos[kind], o # NoObject, objects' = [objects EXCEPT ![l] = o]
    PROVE  /\ objects' \in [Levels(kind) -> Dtos[kind] \cup {NoObject}]
           /\ \A k \in Levels(kind) : objects'[k] = NoObject <=> objects[k] = NoObject
BY DEF SightInv, Shapes

(* An object may come to hold something else: who is where stays. *)
LEMMA SightReplaced ==
    ASSUME SightInv,
           objects' \in [Levels(kind) -> Dtos[kind] \cup {NoObject}],
           \A k \in Levels(kind) : objects'[k] = NoObject <=> objects[k] = NoObject,
           UNCHANGED <<kind, server, spec, level, gone, known, strays, forsaken>>,
           \/ UNCHANGED <<pc, mem, at>>
           \/ pc' = "observe" /\ at' = "account"
    PROVE  SightInv'
<1>1. Shapes /\ Shapes'
  BY LevelNames DEF SightInv, Shapes, Phases
<1>2. Copies' = Copies /\ Found' = Found
  BY <1>1, SameObjects
<1> QED BY <1>1, <1>2 DEF SightInv

LEMMA SightMade ==
    ASSUME SightInv, pc = "update", objects[at] # NoObject, Made, UNCHANGED kind
    PROVE  /\ objects' \in [Levels(kind) -> Dtos[kind] \cup {NoObject}]
           /\ \A k \in Levels(kind) : objects'[k] = NoObject <=> objects[k] = NoObject
<1> DEFINE o == Sent(kind, mem)
<1>1. kind \in KindsOfRun /\ mem \in Parameters(kind) /\ at \in Levels(kind)
  BY DEF SightInv, Shapes
<1>2. o \in Dtos[kind] /\ o # NoObject
  BY <1>1, SentIsAnObject
<1>3. objects' = [objects EXCEPT ![at] = o]
  BY DEF Made
<1> HIDE DEF o
<1> QED BY <1>1, <1>2, <1>3, Replacing

LEMMA SightUpdate == ASSUME SightInv, Update \/ UpdateFails PROVE SightInv'
<1>1. /\ UNCHANGED <<kind, server, spec, level, gone, known, strays, forsaken>>
      /\ pc = "update" /\ Finish /\ pc' = "observe" /\ at' = "account"
  BY DEF Update, UpdateFails, Finish, manifest
<1>2. UNCHANGED objects \/ (objects[at] # NoObject /\ Made)
  BY DEF Update, UpdateFails
<1>3. CASE UNCHANGED objects
  BY <1>1, <1>3, SightFinished
<1>4. CASE objects[at] # NoObject /\ Made
  BY <1>1, <1>4, SightMade, SightReplaced
<1> QED BY <1>2, <1>3, <1>4

(* An object goes, and its identifier tells of it no more. *)
LEMMA SightVanished ==
    ASSUME SightInv, NEW l \in Levels(kind), Vanish(l), ~gone,
           UNCHANGED <<kind, server, spec, level, gone, strays, forsaken>>,
           \/ UNCHANGED <<pc, mem, at>>
           \/ pc' = "observe" /\ at' = "account"
    PROVE  SightInv'
<1>1. Shapes
  BY DEF SightInv
<1>2. /\ objects' \in [Levels(kind) -> Dtos[kind] \cup {NoObject}]
      /\ objects'[l] = NoObject /\ \A k \in Levels(kind) \ {l} : objects'[k] = objects[k]
  BY <1>1 DEF Shapes, Vanish
<1>3. known' = IF known = l THEN "outdated" ELSE known
  BY DEF Vanish
<1>4. Shapes'
  BY <1>1, <1>2, <1>3, LevelNames DEF Shapes, Phases
<1>5. known' \in Levels(kind) => objects'[known'] # NoObject
  BY <1>2, <1>3, LevelNames DEF SightInv
<1>6. Copies' = IF objects[l] = NoObject THEN Copies ELSE Copies - 1
  <2>1. Present' = Present \ {l}
    BY <1>2 DEF Present
  <2>2. /\ IsFiniteSet(Present) /\ Cardinality(Present) \in Nat
        /\ Copies = Cardinality(Present) + strays
    BY <1>1, PresentCount
  <2>3. Copies' = Cardinality(Present') + strays
    BY DEF Copies, Present
  <2>4. l \in Present <=> objects[l] # NoObject
    BY DEF Present
  <2>5. Cardinality(Present \ {l}) = IF l \in Present THEN Cardinality(Present) - 1
                                                     ELSE Cardinality(Present)
    BY <2>2, FS_RemoveElement
  <2> QED BY <1>1, <2>1, <2>2, <2>3, <2>4, <2>5 DEF Shapes
<1>7. Copies \in Nat /\ forsaken \in Nat
  BY <1>1, PresentCount DEF Shapes
<1>8. Found /\ ~Found' => objects[l] # NoObject
  <2> SUFFICES ASSUME Found, l # level PROVE Found'
    BY FoundIsThere
  <2>1. objects'[level] # NoObject
    BY <1>1, <1>2, FoundIsThere DEF Shapes
  <2>2. known' = known
    BY <1>3, LevelNames DEF Found
  <2> QED BY <2>1, <2>2 DEF Found, object
<1>9. Copies' <= forsaken' + (IF Found' THEN 1 ELSE 0)
  BY <1>6, <1>7, <1>8 DEF SightInv
<1>10. pc' = "create" => Copies' <= forsaken' /\ (at' # level' => Copies' + 1 <= forsaken')
  BY <1>6, <1>7 DEF SightInv
<1> QED BY <1>4, <1>5, <1>9, <1>10 DEF SightInv

LEMMA SightDelete == ASSUME SightInv, Delete \/ DeleteFails PROVE SightInv'
<1>1. /\ UNCHANGED <<kind, server, spec, level, gone, strays, forsaken>>
      /\ pc = "delete" /\ Finish /\ pc' = "observe" /\ at' = "account"
  BY DEF Delete, DeleteFails, Finish, manifest
<1>2. Vanish(at) \/ UNCHANGED <<objects, known>>
  BY DEF Delete, DeleteFails
<1>3. CASE Vanish(at)
  <2>1. at \in Levels(kind) /\ ~gone
    BY <1>1 DEF SightInv, Shapes
  <2> QED BY <1>1, <1>3, <2>1, SightVanished
<1>4. CASE UNCHANGED <<objects, known>>
  BY <1>1, <1>4, SightFinished
<1> QED BY <1>2, <1>3, <1>4

LEMMA SightUserMoves == ASSUME SightInv, UserMoves PROVE SightInv'
<1>1. /\ UNCHANGED <<kind, server, spec, gone, known, objects, strays, pc, mem, at>>
      /\ level' \in Levels(kind) /\ ~gone
      /\ forsaken' = IF Copies > 0 \/ pc = "create" THEN forsaken + 1 ELSE forsaken
  BY DEF UserMoves, account, task
<1>2. Shapes
  BY DEF SightInv
<1>3. Shapes'
  BY <1>1, <1>2 DEF Shapes
<1>4. Copies' = Copies /\ Copies \in Nat /\ forsaken \in Nat
  BY <1>1, <1>2, SameObjects, PresentCount DEF Shapes
<1>5. Copies' <= forsaken'
  BY <1>1, <1>4 DEF SightInv
<1>6. pc' = "create" => Copies' + 1 <= forsaken'
  BY <1>1, <1>4 DEF SightInv
<1>7. Copies' <= forsaken' + (IF Found' THEN 1 ELSE 0)
  BY <1>1, <1>4, <1>5
<1> QED BY <1>1, <1>3, <1>5, <1>6, <1>7 DEF SightInv

LEMMA SightAdminChanges == ASSUME SightInv, AdminChanges PROVE SightInv'
<1>1. UNCHANGED <<kind, server, spec, level, gone, known, strays, forsaken, pc, mem, at>>
  BY DEF AdminChanges, manifest, task
<1>2. PICK l \in Levels(kind) :
        objects[l] # NoObject
        /\ \E o \in Dtos[kind] \ {objects[l]} : objects' = [objects EXCEPT ![l] = o]
  BY DEF AdminChanges
<1>3. PICK o \in Dtos[kind] : objects' = [objects EXCEPT ![l] = o]
  BY <1>2
<1>4. o # NoObject
  BY DEF SightInv, Shapes
<1> QED BY <1>1, <1>2, <1>3, <1>4, Replacing, SightReplaced

LEMMA SightAdminDeletes == ASSUME SightInv, AdminDeletes PROVE SightInv'
<1>1. UNCHANGED <<kind, server, spec, level, gone, strays, forsaken, pc, mem, at>> /\ ~gone
  BY DEF AdminDeletes, manifest, task
<1>2. PICK l \in Levels(kind) : Vanish(l)
  BY DEF AdminDeletes
<1> QED BY <1>1, <1>2, SightVanished

LEMMA SightNext == SightInv /\ [Next]_vars => SightInv'
<1> SUFFICES ASSUME SightInv, [Next]_vars PROVE SightInv'
  OBVIOUS
<1>0. spec \in Parameters(kind)
  BY DEF SightInv, Shapes
<1>1. CASE Step
  <2>1. CreateRefused \/ ResolveFails => SightInv'
    BY SightFinished DEF CreateRefused, ResolveFails, manifest, account
  <2> QED BY <1>1, <2>1, SightObserveFound, SightObserveAbsent, SightCreate, SightUpdate,
             SightDelete DEF Step
<1>2. CASE UserEdits
  BY <1>2, SightObserves DEF UserEdits, account, task
<1>3. CASE UserDeletes
  BY <1>0, <1>3, SightObserves DEF UserDeletes, account, task
<1>4. CASE ReferencesChange
  BY <1>0, <1>4, SightObserves DEF ReferencesChange, account, task
<1>5. CASE UNCHANGED vars
  BY <1>0, <1>5, SightObserves DEF vars, manifest, account, task
<1> QED BY <1>1, <1>2, <1>3, <1>4, <1>5, SightCreateFails, SightUpdate, SightDelete, SightUserMoves,
           SightAdminChanges, SightAdminDeletes DEF Next

(* There is one object for a resource at most, however often its creation
   fails, its update is interrupted or its object is deleted in the console,
   and none once the resource is gone, but for one for each edit of the level
   and for each lost reply whose object the search by name cannot find.    *)
THEOREM OneObjectAtMost == Spec => []OneObject
<1>1. SightInv => OneObject
  <2> SUFFICES ASSUME SightInv PROVE OneObject
    OBVIOUS
  <2>1. Copies \in Nat /\ forsaken \in Nat
    BY PresentCount DEF SightInv, Shapes
  <2> QED BY <2>1 DEF SightInv, OneObject
<1> QED BY <1>1, SightInit, SightNext, PTL DEF Spec

-----------------------------------------------------------------------------
(* Types, and what the status of a zone says.                              *)

TypeInv ==
    /\ server \in Servers(kind) /\ mem \in Parameters(kind) \cup {NoObject}
    /\ kind = "ZoneV2" => status \in Seq(Seq(Rules))
    /\ Len(status) <= 1
    /\ ready \in BOOLEAN /\ deleting \in BOOLEAN /\ gone \in BOOLEAN
    /\ faults \in 0 .. MaxFaults /\ edits \in 0 .. MaxEdits

(* The rules of a zone are rules that were sent of some manifest, or none: the
   payload leaves an empty list out.                                       *)
LEMMA RulesOfAZone ==
    ASSUME kind = "ZoneV2", kind \in KindsOfRun, NEW o \in Dtos[kind]
    PROVE  /\ o.rules \in Given(Seq(SentRules))
           /\ o = [description |-> o.description, rules |-> o.rules]
<1>1. PICK p \in ZoneV2Parameters : o = ManagementZoneV2Value(p)
  BY DEF Dtos, Sent, Parameters
<1>2. ToRules(p.rules) \in Seq(SentRules)
  <2>1. p.rules \in Seq(Seq(Rules))
    BY <1>1 DEF ZoneV2Parameters
  <2> QED BY <2>1, RulesSent
<1> QED BY <1>1, <1>2 DEF ManagementZoneV2Value, Payload, Given

(* What a zone is shown to hold is what it holds, or an empty list for none. *)
LEMMA RulesShown ==
    ASSUME SightInv, kind = "ZoneV2", object # NoObject
    PROVE  Shown.rules \in Given(Seq(SentRules)) /\ Listed(Shown.rules) = Listed(object.rules)
<1>1. object \in Dtos[kind] /\ kind \in KindsOfRun
  BY DEF SightInv, Shapes, object
<1> DEFINE rules == object.rules
<1>2. rules \in Given(Seq(SentRules)) /\ object = [description |-> object.description, rules |-> rules]
  BY <1>1, RulesOfAZone
<1>3. Listed(rules) \in Seq(SentRules) /\ Listed(Listed(rules)) = Listed(rules)
  BY <1>2, ListedType DEF Listed
<1>4. Shown = IF server.showsLists THEN [object EXCEPT !.rules = Listed(object.rules)] ELSE object
  BY DEF Shown
<1>5. Shown.rules \in {rules, Listed(rules)}
  BY <1>2, <1>4
<1> HIDE DEF rules
<1>6. Shown.rules \in Given(Seq(SentRules)) /\ Listed(Shown.rules) = Listed(rules)
  BY <1>2, <1>3, <1>5 DEF Given
<1> QED BY <1>6 DEF rules

(* What Observe writes of the object it found has the form of a manifest's
   rules, and would be sent as the object's.                               *)
LEMMA StatusWritten ==
    ASSUME SightInv, ObserveFound, kind = "ZoneV2"
    PROVE  /\ status' \in Seq(Seq(Rules)) /\ Len(status') <= 1
           /\ ToRules(status') = Listed(object.rules)
<1>1. object # NoObject /\ status' = ToRulesObservation(Shown.rules)
  BY DEF ObserveFound, Found
<1> QED BY <1>1, RulesShown, RulesReadBack

LEMMA TypeInit == Init => TypeInv
<1> SUFFICES ASSUME Init PROVE TypeInv
  OBVIOUS
<1>1. status = <<>> /\ ready \in BOOLEAN
  BY DEF Init
<1>2. status \in Seq(Seq(Rules)) /\ Len(status) = 0
  BY <1>1, EmptySeq
<1>3. faults \in 0 .. MaxFaults /\ edits \in 0 .. MaxEdits
  BY DEF Init
<1>4. /\ server \in Servers(kind) /\ mem = NoObject
      /\ deleting = FALSE /\ gone = FALSE
  BY DEF Init
<1>5. /\ ready \in BOOLEAN /\ deleting \in BOOLEAN /\ gone \in BOOLEAN
  BY <1>1, <1>4
<1>6. Len(status) <= 1
  BY <1>2
<1> QED BY <1>2, <1>3, <1>4, <1>5, <1>6 DEF TypeInv

(* Most steps write no status, and count a fault or an edit at most. *)
LEMMA TypeKept ==
    ASSUME TypeInv,
           UNCHANGED <<kind, server, status>>,
           mem' \in Parameters(kind) \cup {NoObject},
           ready' \in BOOLEAN, deleting' \in BOOLEAN, gone' \in BOOLEAN,
           UNCHANGED faults \/ Fault, UNCHANGED edits \/ Edit
    PROVE  TypeInv'
<1>1. faults' \in 0 .. MaxFaults /\ edits' \in 0 .. MaxEdits
  BY DEF TypeInv, Fault, Edit
<1> QED BY <1>1 DEF TypeInv

LEMMA TypeObserveFound == ASSUME SightInv, TypeInv, ObserveFound PROVE TypeInv'
<1>1. /\ UNCHANGED <<kind, server, ready, deleting, gone, faults, edits>>
      /\ mem' \in {spec, NoObject}
  BY DEF ObserveFound, Go, Finish, manifest
<1>2. mem' \in Parameters(kind) \cup {NoObject}
  BY <1>1 DEF SightInv, Shapes
<1>3. kind = "ZoneV2" => status' \in Seq(Seq(Rules))
  BY StatusWritten
<1>4. Len(status') <= 1
  <2>1. CASE kind = "ZoneV2"
    BY <2>1, StatusWritten
  <2>2. CASE kind # "ZoneV2"
    BY <2>2, EmptySeq DEF ObserveFound
  <2> QED BY <2>1, <2>2
<1> QED BY <1>1, <1>2, <1>3, <1>4 DEF TypeInv

LEMMA TypeNext == SightInv /\ TypeInv /\ [Next]_vars => TypeInv'
<1> SUFFICES ASSUME SightInv, TypeInv, [Next]_vars PROVE TypeInv'
  OBVIOUS
<1>0. /\ spec \in Parameters(kind) /\ mem \in Parameters(kind) \cup {NoObject}
      /\ ready \in BOOLEAN /\ deleting \in BOOLEAN /\ gone \in BOOLEAN
  BY DEF SightInv, Shapes, TypeInv
<1>1. CASE ObserveAbsent
  <2>1. /\ UNCHANGED <<kind, server, status, ready, deleting, faults, edits>>
        /\ mem' \in {spec, NoObject} /\ gone' \in {gone, TRUE}
    BY <1>1 DEF ObserveAbsent, Go, Finish, manifest
  <2> QED BY <1>0, <2>1, TypeKept
<1>2. CASE Create \/ CreateRefused \/ ResolveFails \/ Update \/ Delete
  <2>1. /\ UNCHANGED <<kind, server, status, ready, deleting, gone, faults, edits>>
        /\ mem' = NoObject
    BY <1>2 DEF Create, CreateRefused, ResolveFails, Update, Delete, Finish, manifest
  <2> QED BY <1>0, <2>1, TypeKept
<1>3. CASE CreateFails
  <2>1. /\ UNCHANGED <<kind, server, status, ready, deleting, gone, edits>>
        /\ mem' = NoObject /\ Fault
    BY <1>3 DEF CreateFails, Finish, manifest
  <2> QED BY <1>0, <2>1, TypeKept
<1>4. CASE UpdateFails \/ DeleteFails
  <2>1. /\ UNCHANGED <<kind, server, status, ready, deleting, gone, edits>>
        /\ mem' = NoObject /\ Fault
    BY <1>4 DEF UpdateFails, DeleteFails, Finish, manifest
  <2> QED BY <1>0, <2>1, TypeKept
<1>5. CASE UserEdits \/ AdminChanges \/ AdminDeletes
  <2>1. /\ UNCHANGED <<kind, server, status, ready, deleting, gone, mem, faults>>
        /\ Edit
    BY <1>5 DEF UserEdits, AdminChanges, AdminDeletes, manifest, task
  <2> QED BY <1>0, <2>1, TypeKept
<1>6. CASE UserMoves
  <2>1. /\ UNCHANGED <<kind, server, status, ready, deleting, gone, mem, faults>>
        /\ Edit
    BY <1>6 DEF UserMoves, task
  <2> QED BY <1>0, <2>1, TypeKept
<1>7. CASE UserDeletes
  <2>1. /\ UNCHANGED <<kind, server, status, ready, gone, mem, faults, edits>>
        /\ deleting' = TRUE
    BY <1>7 DEF UserDeletes, task
  <2> QED BY <1>0, <2>1, TypeKept
<1>8. CASE ReferencesChange
  <2>1. /\ UNCHANGED <<kind, server, status, deleting, gone, mem, faults>>
        /\ UNCHANGED edits \/ Edit
        /\ ready' \in BOOLEAN
    BY <1>8 DEF ReferencesChange, task
  <2> QED BY <1>0, <2>1, TypeKept
<1>9. CASE UNCHANGED vars
  BY <1>9 DEF TypeInv, vars, manifest, task
<1> QED BY <1>1, <1>2, <1>3, <1>4, <1>5, <1>6, <1>7, <1>8, <1>9, TypeObserveFound DEF Next, Step

(* Every state is one the program can be in: what is sent of a zone is a list
   of rules the API takes or none, what its status says has a manifest's form
   and one group at most, and an identifier that leads to an object leads to
   one that is there.                                                      *)
THEOREM KindsTypeCorrect == Spec => []TypeOK
<1>1. SightInv /\ TypeInv => TypeOK
  <2> SUFFICES ASSUME SightInv, TypeInv PROVE TypeOK
    OBVIOUS
  <2>1. kind = "ZoneV2" => \A l \in Levels(kind) : objects[l] # NoObject =>
                              objects[l].rules \in Given(Seq(ZoneRuleDtos))
    <3> SUFFICES ASSUME kind = "ZoneV2", NEW l \in Levels(kind), objects[l] # NoObject
                 PROVE  objects[l].rules \in Given(Seq(ZoneRuleDtos))
      OBVIOUS
    <3>1. objects[l] \in Dtos[kind] /\ kind \in KindsOfRun
      BY DEF SightInv, Shapes
    <3>2. objects[l].rules \in Given(Seq(SentRules))
      BY <3>1, RulesOfAZone
    <3>3. SentRules \subseteq ZoneRuleDtos
      BY DEF SentRules
    <3> QED BY <3>2, <3>3, SeqMonotonic DEF Given
  <2> QED BY <2>1 DEF SightInv, Shapes, TypeInv, TypeOK, Phases
<1>2. Init => SightInv /\ TypeInv
  BY SightInit, TypeInit
<1>3. SightInv /\ TypeInv /\ [Next]_vars => (SightInv /\ TypeInv)'
  BY SightNext, TypeNext
<1> QED BY <1>1, <1>2, <1>3, PTL DEF Spec

(* The status of a zone, taken for a manifest, is the zone it describes, for
   any rules of any manifest: the conversion to the API's value and the
   conversion back lose nothing, however conditions are grouped and whatever
   is left out.                                                            *)
THEOREM ZoneStatusIsFaithful == Spec => StatusIsFaithful
<1>1. SightInv /\ [Next]_vars =>
        [ObserveFound /\ kind = "ZoneV2" => ToRules(status') = Listed(object.rules)]_vars
  BY StatusWritten
<1> QED BY <1>1, SightInit, SightNext, PTL DEF Spec, StatusIsFaithful

-----------------------------------------------------------------------------
(* Why the provider comes to rest, step by step: an update is ordered when it
   has something to do, and leaves nothing to do.  (That it is ordered and made
   in the end is a matter of fairness.)                                    *)

(* A description left out is sent empty; anything else as it is stated, and
   the rules of a zone converted.                                          *)
LEMMA SentAsStated ==
    ASSUME NEW k \in KindsOfRun, NEW p \in Parameters(k)
    PROVE  /\ k # "PolicyBoundary" => p.description \in {Unset, Sent(k, p).description}
           /\ k = "Group" => Sent(k, p).federatedAttributeValues = p.federatedAttributeValues
           /\ k = "Policy" => Sent(k, p).tags = p.tags /\ Sent(k, p).statementQuery = p.statementQuery
           /\ k = "PolicyBoundary" => Sent(k, p).boundaryQuery = p.boundaryQuery
           /\ k = "ZoneV2" => Sent(k, p).rules = Payload(ToRules(p.rules))
<1>1. CASE k = "Group"
  <2>1. p \in GroupParameters /\ Sent(k, p) = [p EXCEPT !.description = Stated(p.description, Empty)]
    BY <1>1 DEF Parameters, Sent, GroupDto
  <2> QED BY <1>1, <2>1 DEF GroupParameters, Stated
<1>2. CASE k = "Policy"
  <2>1. p \in PolicyParameters /\ Sent(k, p) = [p EXCEPT !.description = Stated(p.description, Empty)]
    BY <1>2 DEF Parameters, Sent, PolicyDto
  <2> QED BY <1>2, <2>1 DEF PolicyParameters, Stated
<1>3. CASE k = "PolicyBoundary"
  BY <1>3 DEF Sent
<1>4. CASE k = "ServiceUser"
  <2>1. p \in ServiceUserParameters /\ Sent(k, p) = [p EXCEPT !.description = Stated(p.description, Empty)]
    BY <1>4 DEF Parameters, Sent, ServiceUserDto
  <2> QED BY <1>4, <2>1 DEF ServiceUserParameters, Stated
<1>5. CASE k = "ZoneV2"
  BY <1>5 DEF Sent, ManagementZoneV2Value, Stated
<1> QED BY <1>1, <1>2, <1>3, <1>4, <1>5

(* An empty list of rules is left out of the payload, and read back as one. *)
LEMMA PayloadReadBack ==
    ASSUME NEW rules \in Seq(SentRules)
    PROVE  Listed(Payload(rules)) = rules /\ rules # Unset
<1>1. rules \in Seq(ZoneRuleDtos)
  <2>1. SentRules \subseteq ZoneRuleDtos
    BY DEF SentRules
  <2> QED BY <2>1, SeqMonotonic
<1>2. rules # Unset
  BY <1>1, ZoneRulesAssumption
<1> QED BY <1>2 DEF Listed, Payload
(* What is shown of an object is what it has, but for the statement of a policy
   that is listed, and for the empty list of a zone.                       *)
LEMMA ShownFields ==
    ASSUME SightInv, object # NoObject
    PROVE  /\ kind = "Group" => Shown = object
           /\ kind = "PolicyBoundary" => Shown = object
           /\ kind = "Policy" => /\ Shown.description = object.description
                                 /\ Shown.tags = object.tags
                                 /\ Shown.statementQuery = IF Unseen THEN Empty ELSE object.statementQuery
           /\ kind = "ZoneV2" => /\ Shown.description = object.description
                                 /\ Shown.rules = IF server.showsLists THEN Listed(object.rules)
                                                                       ELSE object.rules
<1>1. object \in Dtos[kind] /\ kind \in KindsOfRun
  BY DEF SightInv, Shapes, object
<1>2. kind = "Group" \/ kind = "PolicyBoundary" => Shown = object
  BY DEF Shown
<1>3. ASSUME kind = "Policy"
      PROVE  /\ Shown.description = object.description
             /\ Shown.tags = object.tags
             /\ Shown.statementQuery = IF Unseen THEN Empty ELSE object.statementQuery
  <2> DEFINE o == object
  <2>1. o = [description |-> o.description, statementQuery |-> o.statementQuery, tags |-> o.tags]
    <3>1. PICK p \in PolicyParameters : o = PolicyDto(p)
      BY <1>1, <1>3 DEF Dtos, Sent, Parameters
    <3> QED BY <3>1 DEF PolicyDto, PolicyParameters
  <2>2. Shown = IF Unseen THEN [o EXCEPT !.statementQuery = Empty] ELSE o
    BY <1>3 DEF Shown, Unseen
  <2> HIDE DEF o
  <2>3. /\ Shown.description = o.description /\ Shown.tags = o.tags
        /\ Shown.statementQuery = IF Unseen THEN Empty ELSE o.statementQuery
    BY <2>1, <2>2
  <2> QED BY <2>3 DEF o
<1>4. ASSUME kind = "ZoneV2"
      PROVE  /\ Shown.description = object.description
             /\ Shown.rules = IF server.showsLists THEN Listed(object.rules) ELSE object.rules
  <2> DEFINE o == object
             l == Listed(o.rules)
  <2>1. o = [description |-> o.description, rules |-> o.rules]
    BY <1>1, <1>4, RulesOfAZone
  <2>2. Shown = IF server.showsLists THEN [o EXCEPT !.rules = l] ELSE o
    BY <1>4 DEF Shown
  <2> HIDE DEF o, l
  <2>3. /\ Shown.description = o.description
        /\ Shown.rules = IF server.showsLists THEN l ELSE o.rules
    BY <2>1, <2>2
  <2> QED BY <2>3 DEF o, l
<1> QED BY <1>2, <1>3, <1>4

(* Observe calls a zone up to date when it has the rules of the manifest, but
   an empty list that is not shown.                                        *)
LEMMA ZoneComparison ==
    ASSUME SightInv, kind = "ZoneV2", object # NoObject
    PROVE  ToRules(spec.rules) = Shown.rules <=>
              Listed(object.rules) = ToRules(spec.rules) /\ ~Churns
<1> DEFINE want == ToRules(spec.rules)
           have == object.rules
<1>1. want \in Seq(SentRules)
  <2>1. spec.rules \in Seq(Seq(Rules))
    BY DEF SightInv, Shapes, Parameters, ZoneV2Parameters
  <2> QED BY <2>1, RulesSent
<1>2. PICK sent \in Seq(SentRules) : have = Payload(sent)
  <2>1. object \in Dtos[kind] /\ kind \in KindsOfRun
    BY DEF SightInv, Shapes, object
  <2>2. PICK p \in ZoneV2Parameters : object = ManagementZoneV2Value(p)
    BY <2>1 DEF Dtos, Sent, Parameters
  <2>3. ToRules(p.rules) \in Seq(SentRules) /\ have = Payload(ToRules(p.rules))
    BY <2>2, RulesSent DEF ZoneV2Parameters, ManagementZoneV2Value
  <2> QED BY <2>3
<1>3. Shown.rules = IF server.showsLists THEN Listed(have) ELSE have
  BY ShownFields
<1>4. Churns <=> ~server.showsLists /\ want = <<>>
  BY DEF Churns
<1> HIDE DEF want, have
<1>5. Listed(have) = sent /\ sent # Unset /\ want # Unset
  BY <1>1, <1>2, PayloadReadBack
<1>6. want = Shown.rules <=> Listed(have) = want /\ ~Churns
  BY <1>2, <1>3, <1>4, <1>5 DEF Payload
<1> QED BY <1>6 DEF want, have
(* UpToDate is agreement, but for the empty list that is not shown. *)
LEMMA ComparedRightly ==
    ASSUME SightInv, object # NoObject
    PROVE  UpToDate(spec, Shown) <=> Agrees /\ ~Churns
<1>0. kind \in KindsOfRun
  BY DEF SightInv, Shapes
<1>1. CASE kind = "Group"
  <2>1. UpToDate(spec, Shown) <=> GroupUpToDate(spec, object)
    BY <1>1, ShownFields DEF UpToDate
  <2>2. Agrees <=> /\ spec.description \in {Unset, object.description}
                   /\ spec.federatedAttributeValues = object.federatedAttributeValues
    BY <1>1 DEF Agrees
  <2> QED BY <1>1, <2>1, <2>2 DEF GroupUpToDate, SameIfStated, Churns
<1>2. CASE kind = "Policy"
  <2>1. UpToDate(spec, Shown) <=> PolicyUpToDate(spec, Shown)
    BY <1>2 DEF UpToDate
  <2>2. Agrees <=> /\ spec.description \in {Unset, object.description}
                   /\ spec.tags = object.tags
                   /\ Unseen \/ Empty \in {spec.statementQuery, object.statementQuery}
                             \/ spec.statementQuery = object.statementQuery
    BY <1>2 DEF Agrees
  <2>3. /\ Shown.description = object.description /\ Shown.tags = object.tags
        /\ Shown.statementQuery = IF Unseen THEN Empty ELSE object.statementQuery
    BY <1>2, ShownFields
  <2>4. PolicyUpToDate(spec, Shown) <=>
          /\ spec.description \in {Unset, Shown.description}
          /\ Empty \in {spec.statementQuery, Shown.statementQuery}
               \/ spec.statementQuery = Shown.statementQuery
          /\ spec.tags = Shown.tags
    BY DEF PolicyUpToDate, SameIfStated, SameIfShown
  <2> QED BY <1>2, <2>1, <2>2, <2>3, <2>4 DEF Churns
<1>3. CASE kind = "PolicyBoundary"
  <2>1. UpToDate(spec, Shown) <=> BoundaryUpToDate(spec, object)
    BY <1>3, ShownFields DEF UpToDate
  <2>2. Agrees <=> Empty \in {spec.boundaryQuery, object.boundaryQuery}
                     \/ spec.boundaryQuery = object.boundaryQuery
    BY <1>3 DEF Agrees
  <2> QED BY <1>3, <2>1, <2>2 DEF BoundaryUpToDate, SameIfShown, Churns
<1>4. CASE kind = "ServiceUser"
  BY <1>4 DEF UpToDate, ServiceUserUpToDate, Agrees, Churns
<1>5. CASE kind = "ZoneV2"
  <2>1. UpToDate(spec, Shown) <=> ZoneUpToDate(spec, Shown)
    BY <1>5 DEF UpToDate
  <2>2. Agrees <=> /\ spec.description \in {Unset, object.description}
                   /\ Listed(object.rules) = ToRules(spec.rules)
    BY <1>5 DEF Agrees
  <2>3. ZoneUpToDate(spec, Shown) <=> /\ spec.description \in {Unset, Shown.description}
                                      /\ ToRules(spec.rules) = Shown.rules
    BY DEF ZoneUpToDate, SameIfStated
  <2>4. Shown.description = object.description
    BY <1>5, ShownFields
  <2> QED BY <1>5, <2>1, <2>2, <2>3, <2>4, ZoneComparison
<1> QED BY <1>0, <1>1, <1>2, <1>3, <1>4, <1>5

(* Observe orders an update exactly when the object is not what the manifest
   states: no drift is overlooked, and nothing that a manifest leaves out or a
   reply does not show passes for drift, but for the zone that Churns.     *)
ComparesRightly ==
    [][ObserveFound /\ ~deleting => (pc' = "update" <=> ~Agrees \/ Churns)]_vars

THEOREM ComparisonIsRight == Spec => ComparesRightly
<1>1. ASSUME SightInv, ObserveFound, ~deleting
      PROVE  pc' = "update" <=> ~Agrees \/ Churns
  <2>1. object # NoObject
    BY <1>1 DEF ObserveFound, Found
  <2>2. \/ UpToDate(spec, Shown) /\ pc' = "observe"
        \/ ~UpToDate(spec, Shown) /\ pc' = "update"
    BY <1>1 DEF ObserveFound, Go, Finish
  <2> QED BY <1>1, <2>1, <2>2, ComparedRightly
<1>2. SightInv /\ [Next]_vars =>
        [ObserveFound /\ ~deleting => (pc' = "update" <=> ~Agrees \/ Churns)]_vars
  BY <1>1
<1> QED BY <1>2, SightInit, SightNext, PTL DEF Spec, ComparesRightly

(* What a creation or an update of the present manifest wrote is what the
   manifest states, whatever it leaves out: the next Observe leaves it.    *)
WritesAgree ==
    [][(Create \/ Update) /\ mem = spec /\ at = level => object' = NoObject \/ Agrees']_vars

LEMMA Written ==
    ASSUME SightInv, Create \/ Update, mem = spec, at = level, object' # NoObject
    PROVE  Agrees'
<1>1. kind \in KindsOfRun /\ spec \in Parameters(kind) /\ level \in Levels(kind)
      /\ objects \in [Levels(kind) -> Dtos[kind] \cup {NoObject}]
  BY DEF SightInv, Shapes
<1>2. UNCHANGED <<kind, spec, level>>
  BY DEF Create, Update, manifest
<1>3. objects' = [objects EXCEPT ![level] = Sent(kind, spec)]
  <2>1. CASE Create
    BY <2>1 DEF Create, Make, Made
  <2>2. CASE Update
    <3>1. objects[at] # NoObject
      BY <1>2, <2>2 DEF Update, object
    <3> QED BY <2>2, <3>1 DEF Update, Made
  <2> QED BY <2>1, <2>2
<1> DEFINE o == Sent(kind, spec)
<1>4. object' = o
  <2>1. object' = objects'[level]
    BY <1>2 DEF object
  <2> HIDE DEF o
  <2> QED BY <1>1, <1>3, <2>1 DEF o
<1>5. /\ kind # "PolicyBoundary" => spec.description \in {Unset, o.description}
      /\ kind = "Group" => spec.federatedAttributeValues = o.federatedAttributeValues
      /\ kind = "Policy" => spec.tags = o.tags /\ spec.statementQuery = o.statementQuery
      /\ kind = "PolicyBoundary" => spec.boundaryQuery = o.boundaryQuery
      /\ kind = "ZoneV2" => o.rules = Payload(ToRules(spec.rules))
  BY <1>1, SentAsStated
<1>6. kind = "ZoneV2" => Listed(o.rules) = ToRules(spec.rules)
  <2>1. kind = "ZoneV2" => ToRules(spec.rules) \in Seq(SentRules)
    BY <1>1, RulesSent DEF Parameters, ZoneV2Parameters
  <2> QED BY <1>5, <2>1, PayloadReadBack
<1> HIDE DEF o
<1> QED BY <1>1, <1>2, <1>4, <1>5, <1>6 DEF Agrees

THEOREM WhatIsWrittenAgrees == Spec => WritesAgree
<1>1. SightInv /\ [Next]_vars =>
        [(Create \/ Update) /\ mem = spec /\ at = level => object' = NoObject \/ Agrees']_vars
  BY Written
<1> QED BY <1>1, SightInit, SightNext, PTL DEF Spec, WritesAgree
=============================================================================
