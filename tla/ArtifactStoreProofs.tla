------------------------ MODULE ArtifactStoreProofs -------------------------
(***************************************************************************)
(* Proofs about ArtifactStore for every set of calls and contents.         *)
(***************************************************************************)
EXTENDS ArtifactStore, TLAPS

\* A write that has seen its object, or put it there, leaves one behind.
ContentFirst ==
  \A w \in Writers : step[w] \in {"present", "stored", "done"} => object[content[w]] # "absent"

\* An artifact has metadata from the moment its write returns, and never loses it.
MetadataLast ==
  \A w \in Writers : step[w] = "done" <=> envelope[w] # "absent"

\* Reads and deletions are about artifacts that exist, and have no answer before they
\* end.
TargetsExist ==
  \A p \in Readers \union Deleters :
    /\ target[p] # None => step[target[p]] = "done"
    /\ step[p] \in {"called", "live", "unread", "done", "error"}
    /\ step[p] \in {"live", "unread", "done"} => target[p] # None
    /\ step[p] # "done" => answer[p] = None

Inv == TypeOK /\ ContentFirst /\ MetadataLast /\ TargetsExist

-----------------------------------------------------------------------------
\* Nothing is stored and nobody has asked for anything at the start.
LEMMA InitInv == Init => Inv
  BY NamesAssumption, CallsAssumption
  DEF Init, Inv, TypeOK, ContentFirst, MetadataLast, TargetsExist, Calls

\* Every step keeps the invariant.
LEMMA StepInv == Inv /\ [Next]_vars => Inv'
<1> SUFFICES ASSUME Inv, [Next]_vars PROVE Inv'
  OBVIOUS
<1> USE NamesAssumption, CallsAssumption DEF Inv, TypeOK, Calls, GoTo
<1>1. CASE UNCHANGED vars
  BY <1>1 DEF vars, ContentFirst, MetadataLast, TargetsExist
<1>2. ASSUME NEW w \in Writers, FindObject(w) PROVE Inv'
  BY <1>2 DEF FindObject, ContentFirst, MetadataLast, TargetsExist
<1>3. ASSUME NEW w \in Writers, StoreObject(w) PROVE Inv'
  BY <1>3 DEF StoreObject, ContentFirst, MetadataLast, TargetsExist
<1>4. ASSUME NEW w \in Writers, CompareObject(w) PROVE Inv'
  BY <1>4 DEF CompareObject, Intact, ContentFirst, MetadataLast, TargetsExist
<1>5. ASSUME NEW w \in Writers, StoreMetadata(w) PROVE Inv'
  BY <1>5 DEF StoreMetadata, AfterContent, ContentFirst, MetadataLast, TargetsExist
<1>6. ASSUME NEW r \in Readers, NEW a \in Writers, Ask(r, a) PROVE Inv'
  BY <1>6 DEF Ask, Callable, Choose, ContentFirst, MetadataLast, TargetsExist
<1>7. ASSUME NEW r \in Readers, CheckTombstone(r) PROVE Inv'
  BY <1>7 DEF CheckTombstone, Return, ContentFirst, MetadataLast, TargetsExist
<1>8. ASSUME NEW r \in Readers, ReadObject(r) PROVE Inv'
  BY <1>8 DEF ReadObject, Intact, Return, ContentFirst, MetadataLast, TargetsExist
<1>9. ASSUME NEW d \in Deleters, NEW a \in Writers, FindTombstone(d, a) PROVE Inv'
  BY <1>9
  DEF FindTombstone, Callable, Choose, Tombstoned, Return, ContentFirst, MetadataLast, TargetsExist
<1>10. ASSUME NEW d \in Deleters, StoreTombstone(d) PROVE Inv'
  \* The artifact deleted is one whose write has returned, and its object stays.
  <2>1. target[d] \in Writers /\ step[target[d]] = "done"
    BY <1>10 DEF StoreTombstone, TargetsExist
  <2> QED
    BY <1>10, <2>1
    DEF StoreTombstone, ObjectsLeft, Return, ContentFirst, MetadataLast, TargetsExist
<1>11. ASSUME NEW p \in Calls, Die(p) PROVE Inv'
  BY <1>11 DEF Die, ContentFirst, MetadataLast, TargetsExist
<1>12. ASSUME NEW c \in Contents, Damage(c) PROVE Inv'
  BY <1>12 DEF Damage, ContentFirst, MetadataLast, TargetsExist
<1> QED
  BY <1>1, <1>2, <1>3, <1>4, <1>5, <1>6, <1>7, <1>8, <1>9, <1>10, <1>11, <1>12
  DEF Next, Write, Read, Delete

\* The invariant holds in every reachable state.
LEMMA Invariance == Spec => []Inv
  BY InitInv, StepInv, PTL DEF Spec

\* Every variable keeps its type.
THEOREM TypeCorrect == Spec => []TypeOK
  BY Invariance, PTL DEF Inv

\* Metadata never refers to a missing object, whichever calls die and whichever
\* artifacts that share it are deleted (write, delete).
THEOREM MetadataIsBacked == Spec => []MetadataHasContent
<1>1. Inv => MetadataHasContent
  BY DEF Inv, ContentFirst, MetadataLast, MetadataHasContent
<1> QED
  BY <1>1, Invariance, PTL

-----------------------------------------------------------------------------
\* Every step creates, deletes, asks for or reads an artifact, or changes nothing
\* that a user of the log can see.
LEMMA StepRefines == Inv /\ [Next]_vars => [Log!Next]_(Log!vars)
<1> SUFFICES ASSUME Inv, [Next]_vars PROVE [Log!Next]_(Log!vars)
  OBVIOUS
<1> USE NamesAssumption, CallsAssumption
    DEF Inv, TypeOK, Calls, GoTo, Log!vars, Live, Deleted, Tombstoned, Wanted, Seen
<1>1. CASE UNCHANGED vars
  BY <1>1 DEF vars
<1>2. ASSUME NEW w \in Writers, FindObject(w) \/ StoreObject(w) \/ CompareObject(w)
      PROVE UNCHANGED Log!vars
  BY <1>2 DEF FindObject, StoreObject, CompareObject
<1>3. ASSUME NEW w \in Writers, StoreMetadata(w) PROVE Log!Create(w)
  BY <1>3 DEF StoreMetadata, AfterContent, MetadataLast, Log!Create
<1>4. ASSUME NEW r \in Readers, NEW a \in Writers, Ask(r, a) PROVE Log!Ask(r, a)
  BY <1>4 DEF Ask, Callable, Choose, MetadataLast, Log!Ask
<1>5. ASSUME NEW r \in Readers, CheckTombstone(r) PROVE Log!Answer(r)
  <2>1. /\ step[r] = "called" /\ target[r] \in Writers /\ answer[r] = None
        /\ envelope[target[r]] # "absent"
    BY <1>5 DEF CheckTombstone, MetadataLast, TargetsExist
  <2>2. Seen[r] = None
    BY <2>1
  <2>3. CASE Tombstoned(target[r])
    <3>1. step' = [step EXCEPT ![r] = "done"] /\ answer' = [answer EXCEPT ![r] = "tombstoned"]
      BY <1>5, <2>3 DEF CheckTombstone, IsTombstoned, Return, GoTo
    <3>2. step'[r] = "done" /\ answer'[r] = "tombstoned"
      BY <3>1 DEF Inv, TypeOK, Calls
    <3>3. \A q \in Readers \ {r} : step'[q] = step[q] /\ answer'[q] = answer[q]
      BY <3>1 DEF Inv, TypeOK, Calls
    <3>4. Seen' = [Seen EXCEPT ![r] = "tombstoned"]
      BY <3>2, <3>3 DEF Seen
    <3> QED BY <1>5, <2>1, <2>2, <2>3, <3>4 DEF CheckTombstone, Log!Answer
  <2>4. CASE ~Tombstoned(target[r])
    <3>1. Seen' = [Seen EXCEPT ![r] = "content"]
      BY <1>5, <2>1, <2>4 DEF CheckTombstone, IsTombstoned
    <3> QED BY <1>5, <2>1, <2>2, <2>4, <3>1 DEF CheckTombstone, Log!Answer
  <2> QED BY <2>3, <2>4
<1>6. ASSUME NEW r \in Readers, ReadObject(r) PROVE UNCHANGED Log!vars
  BY <1>6 DEF ReadObject, Return, TargetsExist
<1>7. ASSUME NEW d \in Deleters, NEW a \in Writers, FindTombstone(d, a)
      PROVE UNCHANGED Log!vars
  BY <1>7 DEF FindTombstone, Callable, Choose, Return
<1>8. ASSUME NEW d \in Deleters, StoreTombstone(d)
      PROVE (\E a \in Writers : Log!Delete(a)) \/ UNCHANGED Log!vars
  BY <1>8 DEF StoreTombstone, ObjectsLeft, Return, MetadataLast, TargetsExist, Log!Delete
<1>9. ASSUME NEW p \in Calls, Die(p) PROVE UNCHANGED Log!vars
  BY <1>9 DEF Die, TargetsExist
<1>10. ASSUME NEW c \in Contents, Damage(c) PROVE UNCHANGED Log!vars
  BY <1>10 DEF Damage
<1> HIDE DEF Inv, TypeOK, Calls, GoTo, Log!vars, Live, Deleted, Tombstoned, Wanted, Seen
<1> QED
  BY <1>1, <1>2, <1>3, <1>4, <1>5, <1>6, <1>7, <1>8, <1>9, <1>10
  DEF Next, Write, Read, Delete, Log!Next

\* The separate file operations of writes, reads and deletions implement a log of
\* artifacts that are created, deleted and read atomically.
THEOREM Refinement == Spec => ImplementsArtifactLog
<1>1. Init => Log!Init
  BY NamesAssumption, CallsAssumption DEF Init, Log!Init, Live, Deleted, Tombstoned, Wanted, Seen, Calls
<1> QED
  BY <1>1, StepRefines, Invariance, PTL DEF Spec, ImplementsArtifactLog, Log!Spec
=============================================================================
