--------------------------- MODULE ArtifactStore ----------------------------
(* FilesystemArtifactStore (f/libraries/storage/artifacts.py) used by        *)
(* several processes at once.  Every call consists of separate file-system   *)
(* steps; a file appears or is replaced as a whole (temporary file, fsync,   *)
(* rename), and a process may die between any two steps.                     *)
(*                                                                           *)
(* One write makes one artifact with a fresh artifact_id, so artifacts are   *)
(* named by their writes; contents stand for their own SHA-256 hashes, and   *)
(* artifacts with equal contents share one object.                           *)
CONSTANTS Writers,    \* calls of write, and the artifacts they make
          Readers,    \* calls of read
          Deleters,   \* calls of delete, and the tombstones they make
          Contents,
          None

ASSUME CallsAssumption == /\ Writers \intersect Readers = {}
                          /\ Writers \intersect Deleters = {}
                          /\ Readers \intersect Deleters = {}
ASSUME NamesAssumption == /\ None \notin Deleters \union Writers \union {"content", "tombstoned"}
                          /\ {"absent", "artifact", "content", "tombstoned"} \intersect Deleters = {}

VARIABLES
  content,     \* what each write stores
  object,      \* the content-addressed files
  envelope,    \* the metadata file of each artifact
  step,        \* how far each call is
  target,      \* the artifact each read or delete is about
  answer       \* what each read or delete returned

vars == <<content, object, envelope, step, target, answer>>

Calls == Writers \union Readers \union Deleters
Tombstoned(a) == envelope[a] \in Deleters

TypeOK ==
  /\ content \in [Writers -> Contents]
  /\ object \in [Contents -> {"absent", "intact", "damaged"}]
  /\ envelope \in [Writers -> {"absent", "artifact"} \union Deleters]
  /\ step \in [Calls -> {"called", "absent", "present", "stored", "live", "unread", "done", "error"}]
  /\ target \in [Readers \union Deleters -> Writers \union {None}]
  /\ answer \in [Readers \union Deleters ->
                   {"content", "tombstoned"} \union Deleters \union {None}]

Init ==
  /\ content \in [Writers -> Contents]
  /\ object = [c \in Contents |-> "absent"]
  /\ envelope = [w \in Writers |-> "absent"]
  /\ step = [p \in Calls |-> "called"]
  /\ target = [p \in Readers \union Deleters |-> None]
  /\ answer = [p \in Readers \union Deleters |-> None]

GoTo(p, s) == step' = [step EXCEPT ![p] = s]
Return(p, value) == GoTo(p, "done") /\ answer' = [answer EXCEPT ![p] = value]

-----------------------------------------------------------------------------
(* write                                                                   *)

\* _atomic_write asks whether the object exists, before anything else.
FindObject(w) ==
  /\ step[w] = "called"
  /\ GoTo(w, IF object[content[w]] = "absent" THEN "absent" ELSE "present")
  /\ UNCHANGED <<content, object, envelope, target, answer>>

\* The rename puts the object in place, or replaces what another write put there since.
StoreObject(w) ==
  /\ step[w] = "absent"
  /\ object' = [object EXCEPT ![content[w]] = "intact"]
  /\ GoTo(w, "stored")
  /\ UNCHANGED <<content, envelope, target, answer>>

Intact(c) == object[c] = "intact"

\* An object that was there is compared with the bytes to store.
CompareObject(w) ==
  /\ step[w] = "present"
  /\ GoTo(w, IF Intact(content[w]) THEN "stored" ELSE "error")
  /\ UNCHANGED <<content, object, envelope, target, answer>>

AfterContent == {"stored"}

\* The artifact exists once its metadata does.
StoreMetadata(w) ==
  /\ step[w] \in AfterContent
  /\ envelope' = [envelope EXCEPT ![w] = "artifact"]
  /\ GoTo(w, "done")
  /\ UNCHANGED <<content, object, target, answer>>

Write(w) == FindObject(w) \/ StoreObject(w) \/ CompareObject(w) \/ StoreMetadata(w)

-----------------------------------------------------------------------------
(* read and delete, of an artifact that its write returned                 *)

Callable(p, a) == step[p] = "called" /\ target[p] = None /\ step[a] = "done"
Choose(p, a) == target' = [target EXCEPT ![p] = a]

\* read is called.
Ask(r, a) ==
  /\ Callable(r, a)
  /\ Choose(r, a)
  /\ UNCHANGED <<content, object, envelope, step, answer>>

NeverTombstoned(a) == FALSE                                           \* mutant
IsTombstoned(a) == Tombstoned(a)

\* is_tombstoned
CheckTombstone(r) ==
  /\ step[r] = "called" /\ target[r] # None
  /\ IF IsTombstoned(target[r])
     THEN Return(r, "tombstoned")
     ELSE GoTo(r, "live") /\ UNCHANGED answer
  /\ UNCHANGED <<content, object, envelope, target>>

\* The object is read and verified against the hash and the size.
ReadObject(r) ==
  /\ step[r] = "live"
  /\ IF Intact(content[target[r]])
     THEN Return(r, "content")
     ELSE GoTo(r, "unread") /\ UNCHANGED answer
  /\ UNCHANGED <<content, object, envelope, target>>

\* delete reads the metadata: an existing tombstone is returned unchanged.
FindTombstone(d, a) ==
  /\ Callable(d, a)
  /\ Choose(d, a)
  /\ IF Tombstoned(a)
     THEN Return(d, envelope[a])
     ELSE GoTo(d, "live") /\ UNCHANGED answer
  /\ UNCHANGED <<content, object, envelope>>

WithContent(a) == [object EXCEPT ![content[a]] = "absent"]            \* mutant
ObjectsLeft(a) == object

\* Otherwise the metadata is replaced by a new tombstone, whatever it says by now.  The
\* object stays, other artifacts may share it.
StoreTombstone(d) ==
  LET a == target[d] IN
  /\ step[d] = "live"
  /\ envelope' = [envelope EXCEPT ![a] = d]
  /\ object' = ObjectsLeft(a)
  /\ Return(d, d)
  /\ UNCHANGED <<content, target>>

Read(r) == CheckTombstone(r) \/ ReadObject(r) \/ \E a \in Writers : Ask(r, a)
Delete(d) == StoreTombstone(d) \/ \E a \in Writers : FindTombstone(d, a)

-----------------------------------------------------------------------------
(* Failures.                                                               *)

\* A process dies, or a file operation raises; "unread" is a call that had found the
\* artifact live.
Die(p) ==
  /\ step[p] \notin {"done", "unread", "error"}
  /\ GoTo(p, IF step[p] = "live" THEN "unread" ELSE "error")
  /\ UNCHANGED <<content, object, envelope, target, answer>>

\* The bytes of an object are damaged on the disk.
Damage(c) ==
  /\ object[c] = "intact"
  /\ object' = [object EXCEPT ![c] = "damaged"]
  /\ UNCHANGED <<content, envelope, step, target, answer>>

Next == \/ \E w \in Writers : Write(w)
        \/ \E r \in Readers : Read(r)
        \/ \E d \in Deleters : Delete(d)
        \/ \E p \in Calls : Die(p)
        \/ \E c \in Contents : Damage(c)
Spec == Init /\ [][Next]_vars

-----------------------------------------------------------------------------
(* Properties.                                                             *)

\* Metadata never refers to an object that is not there, whichever process died when,
\* and whichever artifacts that share the object were deleted.
MetadataHasContent ==
  \A w \in Writers : envelope[w] = "artifact" => object[content[w]] # "absent"

\* Behind its separate file operations the store is a log of artifacts that are created
\* and deleted atomically; a read takes effect when it looks for the tombstone.
Live == {w \in Writers : envelope[w] = "artifact"}
Deleted == {w \in Writers : Tombstoned(w)}
Wanted == [r \in Readers |-> target[r]]
Seen == [r \in Readers |->
           IF step[r] \in {"live", "unread"} \/ answer[r] = "content" THEN "content" ELSE answer[r]]
Log == INSTANCE ArtifactLog WITH Artifacts <- Writers, live <- Live, deleted <- Deleted,
                                 wanted <- Wanted, seen <- Seen
ImplementsArtifactLog == Log!Spec
=============================================================================
