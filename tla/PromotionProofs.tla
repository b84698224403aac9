-------------------------- MODULE PromotionProofs ---------------------------
(***************************************************************************)
(* Proofs about Promotion for every set of candidates, jobs and ids.       *)
(***************************************************************************)
EXTENDS Promotion, TLAPS

\* Only a job past its write is the author of a version.
AuthorsWrote ==
  \A v \in 1..Len(log) : author[v] \in Jobs =>
    /\ v >= 2
    /\ pc[author[v]] \in {"written", "reread", "done", "failed"}

\* Base versions name versions that exist, and so do the hashes jobs remember.
Bounded ==
  /\ \A c \in Candidates : base[c] <= Len(log)
  /\ \A j \in Jobs : current[j] <= Len(log)

\* From its preparation on, a promotion holds the base version of its candidate.
PreparedPinned ==
  \A j \in PromotionJobs : pc[j] \notin {"start", "failed"} =>
    /\ prepared[j].base >= 1
    /\ prepared[j].base = base[prepared[j].candidate]

\* What the checks have established when a job is about to write.
CheckedInv ==
  /\ \A j \in PromotionJobs : pc[j] = "checked" =>
       /\ approval[j] = "granted"
       /\ current[j] = prepared[j].base
  /\ \A j \in RollbackJobs : pc[j] = "checked" =>
       /\ current[j] # 0
       /\ request[j].restore \in 1..current[j] \union Scripts
       /\ request[j].expected \in {0, current[j]}

\* A job past its write owns the version that follows the hash it had read.
WrittenInv ==
  \A j \in Jobs : pc[j] \in {"written", "reread"} =>
    /\ current[j] + 1 <= Len(log)
    /\ author[current[j] + 1] = j
    /\ pc[j] = "reread" => reread[j] \in (current[j] + 1)..Len(log)

Inv == /\ TypeOK
       /\ AuthorsWrote
       /\ Bounded
       /\ PreparedPinned
       /\ CheckedInv
       /\ WrittenInv
       /\ PromotionSound
       /\ ConflictIsReal
       /\ RollbackSound
       /\ RecordsHappened

-----------------------------------------------------------------------------
\* What appending one element does to a sequence.
LEMMA AppendFacts ==
  ASSUME NEW S, NEW s \in Seq(S), NEW e \in S
  PROVE  /\ Append(s, e) \in Seq(S)
         /\ Len(Append(s, e)) = Len(s) + 1
         /\ \A i \in 1..Len(s) : Append(s, e)[i] = s[i]
         /\ Append(s, e)[Len(s) + 1] = e
  OBVIOUS

\* The versions grow by at most one element per step, and keep their past.
Grown(e, a) == /\ Len(log') = Len(log) + 1
               /\ Len(author') = Len(log')
               /\ \A v \in 1..Len(log) : log'[v] = log[v] /\ author'[v] = author[v]
               /\ log'[Len(log) + 1] = e
               /\ author'[Len(log) + 1] = a
               /\ log' \in Seq(Contents)
               /\ author' \in Seq(Jobs \union {Outside})

\* Appending to both histories grows them.
LEMMA GrownByAppend ==
  ASSUME TypeOK, NEW e \in Contents, NEW a \in Jobs \union {Outside},
         log' = Append(log, e), author' = Append(author, a)
  PROVE  Grown(e, a)
  BY AppendFacts DEF TypeOK, Grown

\* Version of the next state: a version keeps its content while the path grows.
VersionNext(h) == IF h \in Scripts THEN h ELSE log'[h]

LEMMA VersionKept ==
  ASSUME TypeOK, NEW e, NEW a, Grown(e, a),
         NEW h \in (1..Len(log)) \union Scripts
  PROVE  VersionNext(h) = Version(h)
  BY DEF Grown, TypeOK, Version, VersionNext

\* What a checked job is about to deploy is a content.
LEMMA PayloadType ==
  ASSUME TypeOK, NEW j \in Jobs, pc[j] = "checked", CheckedInv, Bounded
  PROVE  Payload(j) \in Contents
  <1>1. CASE j \in PromotionJobs
    BY <1>1 DEF TypeOK, Payload, Contents
  <1>2. CASE j \in RollbackJobs /\ j \notin PromotionJobs
    <2>1. request[j].restore \in 1..Len(log) \union Scripts
      BY <1>2 DEF CheckedInv, Bounded, TypeOK, Jobs
    <2>2. QED
      BY <1>2, <2>1 DEF TypeOK, Payload, Version, Contents
  <1>3. QED
    BY <1>1, <1>2 DEF Jobs

\* Initially every part of the invariant holds.
LEMMA InitInv == Init => Inv
  <1> SUFFICES ASSUME Init PROVE Inv
    OBVIOUS
  <1>1. TypeOK
    BY DEF Init, TypeOK, Contents, Steps, Jobs
  <1>2. Len(log) = 1 /\ author[1] = Outside
    BY DEF Init
  <1>3. QED
    BY <1>1, <1>2, JobsAssumption
    DEF Init, Inv, AuthorsWrote, Bounded, PreparedPinned, CheckedInv, WrittenInv,
        PromotionSound, ConflictIsReal, RollbackSound, RecordsHappened, Jobs, Active

\* Both histories are non-empty and of one length.
LEMMA LenFacts ==
  ASSUME TypeOK
  PROVE  /\ Len(log) \in Nat \ {0}
         /\ Len(author) = Len(log)
         /\ \A v \in 1..Len(log) : log[v] \in Contents /\ author[v] \in Jobs \union {Outside}
  BY DEF TypeOK

\* A new candidate record: its base version was 0, so no version and no record
\* speaks of it yet.
LEMMA CreateCandidateInv ==
  ASSUME Inv, NEW c \in Candidates, CreateCandidate(c)
  PROVE  Inv'
  <1> USE DEF Inv, CreateCandidate, GoTo, versionVars, recordVars, argumentVars, Jobs,
             Active, Running, Stopped, Steps
  <1>1. TypeOK'
    BY JobsAssumption DEF TypeOK, Record
  <1>2. AuthorsWrote'
    BY JobsAssumption DEF TypeOK, AuthorsWrote
  <1>3. Bounded'
    BY JobsAssumption DEF TypeOK, Bounded
  <1>4. PreparedPinned'
    BY JobsAssumption DEF TypeOK, PreparedPinned
  <1>5. CheckedInv'
    BY JobsAssumption DEF TypeOK, CheckedInv
  <1>6. WrittenInv'
    BY JobsAssumption DEF TypeOK, WrittenInv
  <1>7. PromotionSound'
    <2> SUFFICES ASSUME NEW v \in 1..Len(log), author[v] \in PromotionJobs
                 PROVE  base'[log[v]] = base[log[v]]
      BY DEF PromotionSound
    <2>1. v >= 2 /\ log[v] \in Candidates /\ base[log[v]] = v - 1
      BY DEF AuthorsWrote, PromotionSound, TypeOK
    <2>2. QED
      BY <2>1 DEF TypeOK
  <1>8. ConflictIsReal'
    BY JobsAssumption DEF TypeOK, ConflictIsReal
  <1>9. RollbackSound'
    BY JobsAssumption DEF TypeOK, RollbackSound, Version
  <1>10. RecordsHappened'
    <2>1. ASSUME NEW cc \in Candidates, promotionRecord[cc] # None
          PROVE  base'[cc] = base[cc]
      <3>1. promotionRecord[cc] \in Record
        BY <2>1 DEF TypeOK
      <3>2. /\ promotionRecord[cc].target = base[cc]
            /\ promotionRecord[cc].promoted \in (promotionRecord[cc].target + 1)..Len(log)
            /\ author[promotionRecord[cc].target + 1] \in PromotionJobs
        BY <2>1 DEF RecordsHappened
      <3>3. base[cc] # 0
        <4>1. base[cc] \in Nat /\ promotionRecord[cc].promoted \in Nat
          BY <3>1 DEF TypeOK, Record
        <4>2. base[cc] + 1 \in 1..Len(log)
          BY <3>2, <4>1, LenFacts
        <4>3. QED
          BY <3>2, <4>1, <4>2 DEF AuthorsWrote
      <3>4. QED
        BY <3>3 DEF TypeOK
    <2>2. QED
      BY <2>1 DEF TypeOK, RecordsHappened
  <1>11. QED
    BY <1>1, <1>2, <1>3, <1>4, <1>5, <1>6, <1>7, <1>8, <1>9, <1>10

\* Pinning the base version touches only a job that has written nothing.
LEMMA PrepareInv ==
  ASSUME Inv, NEW j \in PromotionJobs, Prepare(j)
  PROVE  Inv'
  <1> USE DEF Inv, Prepare, GoTo, versionVars, recordVars, argumentVars, Jobs,
             Active, Running, Stopped, Steps
  <1>1. TypeOK'
    BY JobsAssumption DEF TypeOK, Record
  <1>2. AuthorsWrote'
    BY JobsAssumption DEF TypeOK, AuthorsWrote
  <1>3. Bounded'
    BY JobsAssumption DEF TypeOK, Bounded
  <1>4. PreparedPinned'
    BY JobsAssumption DEF TypeOK, PreparedPinned
  <1>5. CheckedInv'
    BY JobsAssumption DEF TypeOK, CheckedInv
  <1>6. WrittenInv'
    BY JobsAssumption DEF TypeOK, WrittenInv
  <1>7. PromotionSound'
    BY JobsAssumption DEF TypeOK, PromotionSound
  <1>8. ConflictIsReal'
    BY JobsAssumption DEF TypeOK, ConflictIsReal
  <1>9. RollbackSound'
    BY JobsAssumption DEF TypeOK, RollbackSound, Version
  <1>10. RecordsHappened'
    BY JobsAssumption DEF TypeOK, RecordsHappened
  <1>11. QED
    BY <1>1, <1>2, <1>3, <1>4, <1>5, <1>6, <1>7, <1>8, <1>9, <1>10

\* The suspend step decides only for a job that has written nothing.
LEMMA ApproveInv ==
  ASSUME Inv, NEW j \in PromotionJobs, Approve(j)
  PROVE  Inv'
  <1> USE DEF Inv, Approve, GoTo, versionVars, recordVars, argumentVars, Jobs,
             Active, Running, Stopped, Steps
  <1>1. TypeOK'
    BY JobsAssumption DEF TypeOK, Record
  <1>2. AuthorsWrote'
    BY JobsAssumption DEF TypeOK, AuthorsWrote
  <1>3. Bounded'
    BY JobsAssumption DEF TypeOK, Bounded
  <1>4. PreparedPinned'
    BY JobsAssumption DEF TypeOK, PreparedPinned
  <1>5. CheckedInv'
    BY JobsAssumption DEF TypeOK, CheckedInv
  <1>6. WrittenInv'
    BY JobsAssumption DEF TypeOK, WrittenInv
  <1>7. PromotionSound'
    BY DEF TypeOK, AuthorsWrote, PromotionSound
  <1>8. ConflictIsReal'
    BY JobsAssumption DEF TypeOK, ConflictIsReal
  <1>9. RollbackSound'
    BY JobsAssumption DEF TypeOK, RollbackSound, Version
  <1>10. RecordsHappened'
    BY JobsAssumption DEF TypeOK, RecordsHappened
  <1>11. QED
    BY <1>1, <1>2, <1>3, <1>4, <1>5, <1>6, <1>7, <1>8, <1>9, <1>10

\* A rejected job stops before its first check.
LEMMA RejectInv ==
  ASSUME Inv, NEW j \in PromotionJobs, Reject(j)
  PROVE  Inv'
  <1> USE DEF Inv, Reject, GoTo, versionVars, recordVars, argumentVars, Jobs,
             Active, Running, Stopped, Steps
  <1>1. TypeOK'
    BY JobsAssumption DEF TypeOK, Record
  <1>2. AuthorsWrote'
    BY JobsAssumption DEF TypeOK, AuthorsWrote
  <1>3. Bounded'
    BY JobsAssumption DEF TypeOK, Bounded
  <1>4. PreparedPinned'
    BY JobsAssumption DEF TypeOK, PreparedPinned
  <1>5. CheckedInv'
    BY JobsAssumption DEF TypeOK, CheckedInv
  <1>6. WrittenInv'
    BY JobsAssumption DEF TypeOK, WrittenInv
  <1>7. PromotionSound'
    BY JobsAssumption DEF TypeOK, PromotionSound
  <1>8. ConflictIsReal'
    BY JobsAssumption DEF TypeOK, ConflictIsReal
  <1>9. RollbackSound'
    BY JobsAssumption DEF TypeOK, RollbackSound, Version
  <1>10. RecordsHappened'
    BY JobsAssumption DEF TypeOK, RecordsHappened
  <1>11. QED
    BY <1>1, <1>2, <1>3, <1>4, <1>5, <1>6, <1>7, <1>8, <1>9, <1>10

\* The approval and base-version checks establish CheckedInv or end the job.
LEMMA CheckBaseInv ==
  ASSUME Inv, NEW j \in PromotionJobs, CheckBase(j)
  PROVE  Inv'
  <1> USE DEF Inv, CheckBase, StillOnBase, GoTo, versionVars, recordVars, argumentVars, Jobs,
             Active, Running, Stopped, Steps
  <1>1. TypeOK'
    <2>1. current' \in [Jobs -> Nat]
      BY LenFacts DEF TypeOK
    <2>2. pc' \in [Jobs -> Steps]
      BY DEF TypeOK
    <2>3. QED
      BY <2>1, <2>2 DEF TypeOK
  <1>2. AuthorsWrote'
    BY JobsAssumption DEF TypeOK, AuthorsWrote
  <1>3. Bounded'
    <2>1. log' = log /\ base' = base
      OBVIOUS
    <2>2. \A k \in Jobs : current'[k] = current[k] \/ current'[k] = Len(log)
      BY DEF TypeOK
    <2>3. QED
      BY <2>1, <2>2, LenFacts DEF Bounded
  <1>4. PreparedPinned'
    BY JobsAssumption DEF TypeOK, PreparedPinned
  <1>5. CheckedInv'
    BY JobsAssumption DEF TypeOK, CheckedInv
  <1>6. WrittenInv'
    BY DEF TypeOK, WrittenInv
  <1>7. PromotionSound'
    BY JobsAssumption DEF TypeOK, PromotionSound
  <1>8. ConflictIsReal'
    <2>1. ASSUME NEW k \in Jobs, k # j, pc'[k] = "conflict"
          PROVE  pc[k] = "conflict" /\ current'[k] = current[k]
      BY <2>1 DEF TypeOK
    <2>2. ASSUME pc'[j] = "conflict"
          PROVE  prepared[j].base < Len(log)
      <3>1. prepared[j].base # Len(log)
        BY <2>2 DEF TypeOK
      <3>2. prepared[j].base = base[prepared[j].candidate]
        BY DEF PreparedPinned
      <3>3. prepared[j].candidate \in Candidates /\ prepared[j].base \in Nat
        BY DEF TypeOK
      <3>4. QED
        BY <3>1, <3>2, <3>3, LenFacts DEF Bounded
    <2>3. \A v \in 1..Len(log) : author[v] # j
      BY DEF AuthorsWrote
    <2>4. QED
      BY <2>1, <2>2, <2>3 DEF ConflictIsReal
  <1>9. RollbackSound'
    BY JobsAssumption DEF TypeOK, RollbackSound, Version
  <1>10. RecordsHappened'
    BY JobsAssumption DEF TypeOK, RecordsHappened
  <1>11. QED
    BY <1>1, <1>2, <1>3, <1>4, <1>5, <1>6, <1>7, <1>8, <1>9, <1>10

\* The rollback's checks establish CheckedInv or end the job.
LEMMA CheckRollbackInv ==
  ASSUME Inv, NEW j \in RollbackJobs, CheckRollback(j)
  PROVE  Inv'
  <1> USE DEF Inv, CheckRollback, ExpectedMatches, GoTo, versionVars, recordVars, argumentVars, Jobs,
             Active, Running, Stopped, Steps
  <1>1. TypeOK'
    <2>1. current' \in [Jobs -> Nat]
      BY LenFacts DEF TypeOK
    <2>2. pc' \in [Jobs -> Steps]
      BY DEF TypeOK
    <2>3. request' \in [RollbackJobs ->
                       [restore : Nat \union Scripts, expected : Nat, id : InitiatingIds]]
      <3>1. PICK restore \in (1..Len(log)) \union Scripts, expected \in 0..Len(log) :
               request' = [request EXCEPT ![j] =
                 [restore |-> restore, expected |-> expected, id |-> request[j].id]]
        OBVIOUS
      <3>2. [restore |-> restore, expected |-> expected, id |-> request[j].id]
              \in [restore : Nat \union Scripts, expected : Nat, id : InitiatingIds]
        BY LenFacts DEF TypeOK
      <3>3. QED
        BY <3>1, <3>2 DEF TypeOK
    <2>4. QED
      BY <2>1, <2>2, <2>3 DEF TypeOK
  <1>2. AuthorsWrote'
    BY JobsAssumption DEF TypeOK, AuthorsWrote
  <1>3. Bounded'
    <2>1. log' = log /\ base' = base
      OBVIOUS
    <2>2. \A k \in Jobs : current'[k] = current[k] \/ current'[k] = Len(log)
      BY DEF TypeOK
    <2>3. QED
      BY <2>1, <2>2, LenFacts DEF Bounded
  <1>4. PreparedPinned'
    BY JobsAssumption DEF TypeOK, PreparedPinned
  <1>5. CheckedInv'
    <2>1. \A k \in Jobs : k # j =>
             /\ pc'[k] = pc[k]
             /\ current'[k] = current[k]
             /\ k \in RollbackJobs => request'[k] = request[k]
      BY DEF TypeOK
    <2>2. pc'[j] = "checked" => /\ current'[j] # 0
                                /\ request'[j].restore \in 1..current'[j] \union Scripts
                                /\ request'[j].expected \in {0, current'[j]}
      BY LenFacts DEF TypeOK
    <2>3. QED
      BY <2>1, <2>2, JobsAssumption DEF CheckedInv
  <1>6. WrittenInv'
    <2>1. \A k \in Jobs : k # j =>
             /\ pc'[k] = pc[k]
             /\ current'[k] = current[k]
             /\ k \in RollbackJobs => request'[k] = request[k]
      BY DEF TypeOK
    <2>2. pc'[j] \in {"conflict", "checked"}
      BY DEF TypeOK
    <2>3. QED
      BY <2>1, <2>2 DEF WrittenInv
  <1>7. PromotionSound'
    BY JobsAssumption DEF TypeOK, PromotionSound
  <1>8. ConflictIsReal'
    <2>1. ASSUME NEW k \in Jobs, k # j, pc'[k] = "conflict"
          PROVE  /\ pc[k] = "conflict"
                 /\ current'[k] = current[k]
                 /\ k \in RollbackJobs => request'[k] = request[k]
      BY <2>1 DEF TypeOK
    <2>2. ASSUME pc'[j] = "conflict"
          PROVE  request'[j].expected \in 1..(Len(log) - 1)
      BY <2>2, LenFacts DEF TypeOK
    <2>3. \A v \in 1..Len(log) : author[v] # j
      BY DEF AuthorsWrote
    <2>4. j \notin PromotionJobs
      BY JobsAssumption
    <2>5. QED
      BY <2>1, <2>2, <2>3, <2>4 DEF ConflictIsReal
  <1>9. RollbackSound'
    <2>1. \A v \in 1..Len(log) : author[v] \in Jobs => author[v] # j
      BY DEF AuthorsWrote
    <2>2. \A k \in RollbackJobs : k # j => request'[k] = request[k]
      BY DEF TypeOK
    <2>3. log' = log /\ author' = author
      OBVIOUS
    <2>4. QED
      BY <2>1, <2>2, <2>3 DEF RollbackSound, Version
  <1>10. RecordsHappened'
    BY JobsAssumption DEF TypeOK, RecordsHappened
  <1>11. QED
    BY <1>1, <1>2, <1>3, <1>4, <1>5, <1>6, <1>7, <1>8, <1>9, <1>10

\* The hash a job reads after its write is not older than its own version.
LEMMA RereadInv ==
  ASSUME Inv, NEW j \in Jobs, Reread(j)
  PROVE  Inv'
  <1> USE DEF Inv, Reread, GoTo, versionVars, recordVars, argumentVars, Jobs,
             Active, Running, Stopped, Steps
  <1>1. TypeOK'
    BY JobsAssumption DEF TypeOK, Record
  <1>2. AuthorsWrote'
    BY JobsAssumption DEF TypeOK, AuthorsWrote
  <1>3. Bounded'
    BY JobsAssumption DEF TypeOK, Bounded
  <1>4. PreparedPinned'
    BY JobsAssumption DEF TypeOK, PreparedPinned
  <1>5. CheckedInv'
    BY JobsAssumption DEF TypeOK, CheckedInv
  <1>6. WrittenInv'
    BY JobsAssumption DEF TypeOK, WrittenInv
  <1>7. PromotionSound'
    BY JobsAssumption DEF TypeOK, PromotionSound
  <1>8. ConflictIsReal'
    BY JobsAssumption DEF TypeOK, ConflictIsReal
  <1>9. RollbackSound'
    BY JobsAssumption DEF TypeOK, RollbackSound, Version
  <1>10. RecordsHappened'
    BY JobsAssumption DEF TypeOK, RecordsHappened
  <1>11. QED
    BY <1>1, <1>2, <1>3, <1>4, <1>5, <1>6, <1>7, <1>8, <1>9, <1>10

\* A promotion record is made of a write that happened.
LEMMA RecordPromotionInv ==
  ASSUME Inv, NEW j \in PromotionJobs, RecordPromotion(j)
  PROVE  Inv'
  <1> USE DEF Inv, RecordPromotion, Provenance, GoTo, versionVars, recordVars, argumentVars, Jobs,
             Active, Running, Stopped, Steps
  <1>1. TypeOK'
    <2>1. [promoted |-> reread[j], target |-> current[j]] \in Record
      BY DEF TypeOK, Record
    <2>2. promotionRecord' \in [Candidates -> Record \union {None}]
      BY <2>1 DEF TypeOK
    <2>3. pc' \in [Jobs -> Steps]
      BY DEF TypeOK
    <2>4. QED
      BY <2>2, <2>3 DEF TypeOK
  <1>2. AuthorsWrote'
    BY JobsAssumption DEF TypeOK, AuthorsWrote
  <1>3. Bounded'
    BY JobsAssumption DEF TypeOK, Bounded
  <1>4. PreparedPinned'
    BY JobsAssumption DEF TypeOK, PreparedPinned
  <1>5. CheckedInv'
    BY JobsAssumption DEF TypeOK, CheckedInv
  <1>6. WrittenInv'
    BY JobsAssumption DEF TypeOK, WrittenInv
  <1>7. PromotionSound'
    BY JobsAssumption DEF TypeOK, PromotionSound
  <1>8. ConflictIsReal'
    BY JobsAssumption DEF TypeOK, ConflictIsReal
  <1>9. RollbackSound'
    BY JobsAssumption DEF TypeOK, RollbackSound, Version
  <1>10. RecordsHappened'
    <2> DEFINE c == prepared[j].candidate
               r == [promoted |-> reread[j], target |-> current[j]]
    <2>1. \A cc \in Candidates : cc # c => promotionRecord'[cc] = promotionRecord[cc]
      BY DEF TypeOK
    <2>2. promotionRecord'[c] = promotionRecord[c] \/ promotionRecord'[c] = r
      BY DEF TypeOK
    <2>3. /\ current[j] + 1 \in 1..Len(log)
          /\ author[current[j] + 1] = j
          /\ reread[j] \in (current[j] + 1)..Len(log)
      BY LenFacts DEF WrittenInv, TypeOK
    <2>4. /\ log[current[j] + 1] = c
          /\ base[c] = current[j]
      BY <2>3 DEF PromotionSound, TypeOK
    <2>5. UNCHANGED <<log, author, base, rollbackRecord, request>>
      OBVIOUS
    <2>6. r.promoted = reread[j] /\ r.target = current[j]
      OBVIOUS
    <2> HIDE DEF c, r
    <2>7. QED
      BY <2>1, <2>2, <2>3, <2>4, <2>5, <2>6 DEF RecordsHappened
  <1>11. QED
    BY <1>1, <1>2, <1>3, <1>4, <1>5, <1>6, <1>7, <1>8, <1>9, <1>10

\* So is a rollback record.
LEMMA RecordRollbackInv ==
  ASSUME Inv, NEW j \in RollbackJobs, RecordRollback(j)
  PROVE  Inv'
  <1> USE DEF Inv, RecordRollback, Provenance, GoTo, versionVars, recordVars, argumentVars, Jobs,
             Active, Running, Stopped, Steps
  <1>1. TypeOK'
    <2>1. [promoted |-> reread[j], target |-> current[j]] \in Record
      BY DEF TypeOK, Record
    <2>2. rollbackRecord' \in [InitiatingIds -> Record \union {None}]
      BY <2>1 DEF TypeOK
    <2>3. pc' \in [Jobs -> Steps]
      BY DEF TypeOK
    <2>4. QED
      BY <2>2, <2>3 DEF TypeOK
  <1>2. AuthorsWrote'
    BY JobsAssumption DEF TypeOK, AuthorsWrote
  <1>3. Bounded'
    BY JobsAssumption DEF TypeOK, Bounded
  <1>4. PreparedPinned'
    BY JobsAssumption DEF TypeOK, PreparedPinned
  <1>5. CheckedInv'
    BY JobsAssumption DEF TypeOK, CheckedInv
  <1>6. WrittenInv'
    BY JobsAssumption DEF TypeOK, WrittenInv
  <1>7. PromotionSound'
    BY JobsAssumption DEF TypeOK, PromotionSound
  <1>8. ConflictIsReal'
    BY JobsAssumption DEF TypeOK, ConflictIsReal
  <1>9. RollbackSound'
    BY JobsAssumption DEF TypeOK, RollbackSound, Version
  <1>10. RecordsHappened'
    <2> DEFINE i == request[j].id
               r == [promoted |-> reread[j], target |-> current[j]]
    <2>1. \A k \in InitiatingIds : k # i => rollbackRecord'[k] = rollbackRecord[k]
      BY DEF TypeOK
    <2>2. rollbackRecord'[i] = rollbackRecord[i] \/ rollbackRecord'[i] = r
      BY DEF TypeOK
    <2>3. /\ current[j] + 1 \in 1..Len(log)
          /\ author[current[j] + 1] = j
          /\ reread[j] \in (current[j] + 1)..Len(log)
      BY LenFacts DEF WrittenInv, TypeOK
    <2>4. UNCHANGED <<log, author, base, promotionRecord, request>>
      OBVIOUS
    <2>5. r.promoted = reread[j] /\ r.target = current[j] /\ request[j].id = i
      OBVIOUS
    <2> HIDE DEF i, r
    <2>6. QED
      BY <2>1, <2>2, <2>3, <2>4, <2>5 DEF RecordsHappened
  <1>11. QED
    BY <1>1, <1>2, <1>3, <1>4, <1>5, <1>6, <1>7, <1>8, <1>9, <1>10

\* A failing job leaves everything else as it is.
LEMMA FailInv ==
  ASSUME Inv, NEW j \in Jobs, Fail(j)
  PROVE  Inv'
  <1> USE DEF Inv, Fail, GoTo, versionVars, recordVars, argumentVars, Jobs,
             Active, Running, Stopped, Steps
  <1>1. TypeOK'
    BY JobsAssumption DEF TypeOK, Record
  <1>2. AuthorsWrote'
    BY JobsAssumption DEF TypeOK, AuthorsWrote
  <1>3. Bounded'
    BY JobsAssumption DEF TypeOK, Bounded
  <1>4. PreparedPinned'
    BY JobsAssumption DEF TypeOK, PreparedPinned
  <1>5. CheckedInv'
    BY JobsAssumption DEF TypeOK, CheckedInv
  <1>6. WrittenInv'
    BY JobsAssumption DEF TypeOK, WrittenInv
  <1>7. PromotionSound'
    BY JobsAssumption DEF TypeOK, PromotionSound
  <1>8. ConflictIsReal'
    BY JobsAssumption DEF TypeOK, ConflictIsReal
  <1>9. RollbackSound'
    BY JobsAssumption DEF TypeOK, RollbackSound, Version
  <1>10. RecordsHappened'
    BY JobsAssumption DEF TypeOK, RecordsHappened
  <1>11. QED
    BY <1>1, <1>2, <1>3, <1>4, <1>5, <1>6, <1>7, <1>8, <1>9, <1>10

\* Adding a version invalidates no provenance record.
LEMMA RecordsKeptByGrowth ==
  ASSUME Inv, NEW e, NEW a, Grown(e, a), UNCHANGED <<base, recordVars, argumentVars>>
  PROVE  RecordsHappened'
  <1> USE DEF Inv, Active
  <1>1. ASSUME NEW c \in Candidates, promotionRecord[c] # None
        PROVE  LET r == promotionRecord[c] IN
               /\ r.target = base[c]
               /\ r.promoted \in (r.target + 1)..Len(log')
               /\ log'[r.target + 1] = c
               /\ author'[r.target + 1] \in PromotionJobs
    <2>1. promotionRecord[c] \in Record
      BY <1>1 DEF TypeOK
    <2>2. QED
      BY <1>1, <2>1, LenFacts DEF RecordsHappened, Record, Grown
  <1>2. ASSUME NEW i \in InitiatingIds, rollbackRecord[i] # None
        PROVE  LET r == rollbackRecord[i] IN
               /\ r.promoted \in (r.target + 1)..Len(log')
               /\ author'[r.target + 1] \in RollbackJobs
               /\ request[author'[r.target + 1]].id = i
    <2>1. rollbackRecord[i] \in Record
      BY <1>2 DEF TypeOK
    <2>2. QED
      BY <1>2, <2>1, LenFacts DEF RecordsHappened, Record, Grown
  <1>3. QED
    BY <1>1, <1>2 DEF RecordsHappened, recordVars, argumentVars

\* A job's write: accepted on top of the version it had read, refused otherwise.
LEMMA WriteInv ==
  ASSUME Inv, NEW j \in Jobs, Write(j)
  PROVE  Inv'
  <1> USE DEF Inv, Active
  <1>1. /\ pc[j] = "checked"
        /\ \A k \in Jobs : k # j => pc'[k] = pc[k]
        /\ pc' \in [Jobs -> Steps]
        /\ pc'[j] \in {"written", "failed", "conflict"}
        /\ UNCHANGED <<base, recordVars, argumentVars, current, reread>>
    BY DEF Write, ParentHash, LostAnswer, GoTo, TypeOK, Steps, Running, Stopped
  <1>2. \A v \in 1..Len(log) : author[v] # j
    BY <1>1 DEF AuthorsWrote
  <1>3. CASE current[j] = Len(log)
    <2>1. Grown(Payload(j), j) /\ pc'[j] \in {"written", "failed"}
      <3>1. Payload(j) \in Contents
        BY <1>1, PayloadType
      <3>2. /\ log' = Append(log, Payload(j))
            /\ author' = Append(author, j)
            /\ pc'[j] \in {"written", "failed"}
        BY <1>3 DEF Write, ParentHash, LostAnswer, GoTo, TypeOK
      <3>3. QED
        BY <3>1, <3>2, GrownByAppend
    <2>2. TypeOK'
      BY <1>1, <2>1, LenFacts DEF TypeOK, Grown, recordVars, argumentVars
    <2>3. AuthorsWrote'
      BY <1>1, <1>2, <2>1, LenFacts DEF AuthorsWrote, Grown, Jobs
    <2>4. Bounded'
      BY <1>1, <2>1, LenFacts DEF Bounded, Grown, TypeOK
    <2>5. PreparedPinned'
      BY <1>1, <2>1 DEF PreparedPinned, argumentVars, Jobs
    <2>6. CheckedInv'
      BY <1>1, <2>1 DEF CheckedInv, argumentVars, Jobs
    <2>7. WrittenInv'
      <3>1. pc'[j] = "written" => current[j] + 1 = Len(log') /\ author'[current[j] + 1] = j
        BY <1>3, <2>1 DEF Grown
      <3>2. ASSUME NEW k \in Jobs, k # j, pc'[k] \in {"written", "reread"}
            PROVE  /\ current[k] + 1 <= Len(log')
                   /\ author'[current[k] + 1] = k
                   /\ pc'[k] = "reread" => reread[k] \in (current[k] + 1)..Len(log')
        <4>1. /\ current[k] \in Nat
              /\ current[k] + 1 <= Len(log)
              /\ author[current[k] + 1] = k
              /\ pc[k] = "reread" => reread[k] \in (current[k] + 1)..Len(log)
          BY <1>1, <3>2 DEF WrittenInv, TypeOK
        <4>2. QED
          BY <1>1, <3>2, <4>1, <2>1, LenFacts DEF Grown
      <3>3. QED
        BY <1>1, <2>1, <3>1, <3>2, LenFacts DEF WrittenInv
    <2>8. PromotionSound'
      <3>1. ASSUME j \in PromotionJobs
            PROVE  /\ approval[j] = "granted"
                   /\ Payload(j) = prepared[j].candidate
                   /\ prepared[j].base = Len(log)
                   /\ base[Payload(j)] = Len(log)
        BY <1>1, <1>3, <3>1 DEF CheckedInv, PreparedPinned, Payload
      <3>2. QED
        BY <1>1, <2>1, <3>1, LenFacts DEF PromotionSound, Grown, argumentVars
    <2>9. ConflictIsReal'
      <3>1. \A k \in Jobs : pc'[k] = "conflict" => pc[k] = "conflict" /\ k # j
        BY <1>1, <2>1
      <3>2. ASSUME NEW k \in Jobs, pc[k] = "conflict", k # j
            PROVE  /\ \A v \in 1..Len(log') : author'[v] # k
                   /\ IF k \in PromotionJobs
                      THEN prepared[k].base < Len(log')
                      ELSE \/ request[k].expected \in 1..(Len(log') - 1)
                           \/ current[k] \in 1..(Len(log') - 1)
        <4>1. \A v \in 1..Len(log) : author[v] # k
          BY <3>2 DEF ConflictIsReal
        <4>2. \A v \in 1..Len(log') : author'[v] # k
          BY <2>1, <3>2, <4>1, LenFacts DEF Grown
        <4>3. CASE k \in PromotionJobs
          BY <2>1, <3>2, <4>2, <4>3, LenFacts DEF ConflictIsReal, Grown, TypeOK
        <4>4. CASE k \notin PromotionJobs
          BY <2>1, <3>2, <4>2, <4>4, LenFacts DEF ConflictIsReal, Grown, TypeOK, Jobs
        <4>5. QED
          BY <4>3, <4>4
      <3>3. QED
        BY <1>1, <3>1, <3>2 DEF ConflictIsReal, argumentVars
    <2>10. RollbackSound'
      <3>1. ASSUME j \in RollbackJobs
            PROVE  /\ Payload(j) = Version(request[j].restore)
                   /\ request[j].restore \in 1..Len(log) \union Scripts
                   /\ request[j].expected \in {0, Len(log)}
        BY <1>1, <1>3, <3>1, JobsAssumption DEF CheckedInv, Payload
      <3>2. ASSUME NEW v \in 1..Len(log'), author'[v] \in RollbackJobs
            PROVE  /\ request[author'[v]].restore \in 1..(v - 1) \union Scripts
                   /\ log'[v] = VersionNext(request[author'[v]].restore)
                   /\ request[author'[v]].expected \in {0, v - 1}
        <4>1. CASE v = Len(log) + 1
          <5>1. author'[v] = j /\ log'[v] = Payload(j)
            BY <2>1, <4>1, LenFacts DEF Grown
          <5>2. VersionNext(request[j].restore) = Version(request[j].restore)
            BY <2>1, <3>1, <3>2, <5>1, VersionKept
          <5>3. QED
            BY <3>1, <3>2, <4>1, <5>1, <5>2, <1>1, LenFacts DEF argumentVars
        <4>2. CASE v \in 1..Len(log)
          <5>1. author'[v] = author[v] /\ log'[v] = log[v]
            BY <4>2, <2>1 DEF Grown
          <5>2. /\ request[author[v]].restore \in 1..(v - 1) \union Scripts
                /\ log[v] = Version(request[author[v]].restore)
                /\ request[author[v]].expected \in {0, v - 1}
            BY <3>2, <4>2, <5>1 DEF RollbackSound
          <5>3. request[author[v]].restore \in 1..Len(log) \union Scripts
            BY <4>2, <5>2, LenFacts
          <5>4. VersionNext(request[author[v]].restore) = Version(request[author[v]].restore)
            BY <2>1, <5>3, VersionKept
          <5>5. QED
            BY <1>1, <5>1, <5>2, <5>4 DEF argumentVars
        <4>3. QED
          BY <2>1, <4>1, <4>2, LenFacts DEF Grown
      <3>3. QED
        BY <1>1, <3>2 DEF RollbackSound, argumentVars, Version, VersionNext
    <2>11. RecordsHappened'
      BY <1>1, <2>1, RecordsKeptByGrowth
    <2>12. QED
      BY <2>2, <2>3, <2>4, <2>5, <2>6, <2>7, <2>8, <2>9, <2>10, <2>11
  <1>4. CASE current[j] # Len(log)
    <2>1. pc'[j] = "conflict" /\ UNCHANGED <<log, author>>
      BY <1>4 DEF Write, ParentHash, LostAnswer, GoTo, TypeOK, versionVars
    <2>2. ConflictIsReal'
      <3>1. current[j] \in Nat /\ current[j] < Len(log)
        BY <1>4, LenFacts DEF Bounded, TypeOK
      <3>2. CASE j \in PromotionJobs
        BY <1>1, <1>2, <2>1, <3>1, <3>2 DEF ConflictIsReal, CheckedInv, argumentVars
      <3>3. CASE j \notin PromotionJobs
        <4>1. j \in RollbackJobs
          BY <3>3 DEF Jobs
        <4>2. current[j] # 0
          BY <1>1, <4>1 DEF CheckedInv
        <4>3. current[j] \in 1..(Len(log) - 1)
          BY <3>1, <4>2, LenFacts
        <4>4. QED
          BY <1>1, <1>2, <2>1, <3>3, <4>3 DEF ConflictIsReal, argumentVars
      <3>4. QED
        BY <3>2, <3>3
    <2>3. /\ TypeOK'
          /\ AuthorsWrote'
          /\ Bounded'
          /\ PreparedPinned'
      BY <1>1, <1>2, <2>1, LenFacts
      DEF TypeOK, AuthorsWrote, Bounded, PreparedPinned, recordVars, argumentVars, Jobs
    <2>4. CheckedInv' /\ WrittenInv'
      BY <1>1, <2>1 DEF CheckedInv, WrittenInv, argumentVars, Jobs
    <2>5. PromotionSound' /\ RollbackSound' /\ RecordsHappened'
      BY <1>1, <2>1
      DEF PromotionSound, RollbackSound, RecordsHappened, Version, recordVars, argumentVars
    <2>6. QED
      BY <2>2, <2>3, <2>4, <2>5
  <1>5. QED
    BY <1>3, <1>4

\* A deployment from outside adds a version no job is the author of.
LEMMA DeployOutsideInv ==
  ASSUME Inv, DeployOutside
  PROVE  Inv'
  <1> USE DEF Inv, Active
  <1>1. Grown(Edited, Outside)
    BY GrownByAppend DEF DeployOutside, Contents
  <1>2. UNCHANGED <<base, recordVars, pc, argumentVars, current, reread>>
    BY DEF DeployOutside
  <1>3. Outside \notin Jobs /\ PromotionJobs \subseteq Jobs /\ RollbackJobs \subseteq Jobs
    BY JobsAssumption DEF Jobs
  <1>4. /\ TypeOK'
        /\ AuthorsWrote'
        /\ Bounded'
    <2>1. TypeOK'
      BY <1>1, <1>2, LenFacts DEF TypeOK, Grown, recordVars, argumentVars
    <2>2. AuthorsWrote'
      BY <1>1, <1>2, <1>3, LenFacts DEF AuthorsWrote, Grown
    <2>3. Bounded'
      BY <1>1, <1>2, LenFacts DEF Bounded, Grown, TypeOK
    <2>4. QED
      BY <2>1, <2>2, <2>3
  <1>5. PreparedPinned' /\ CheckedInv'
    BY <1>2 DEF PreparedPinned, CheckedInv, argumentVars
  <1>6. WrittenInv'
    <2>1. ASSUME NEW k \in Jobs, pc[k] \in {"written", "reread"}
          PROVE  /\ current[k] + 1 <= Len(log')
                 /\ author'[current[k] + 1] = k
                 /\ pc[k] = "reread" => reread[k] \in (current[k] + 1)..Len(log')
      <3>1. /\ current[k] \in Nat
            /\ current[k] + 1 <= Len(log)
            /\ author[current[k] + 1] = k
            /\ pc[k] = "reread" => reread[k] \in (current[k] + 1)..Len(log)
        BY <2>1 DEF WrittenInv, TypeOK
      <3>2. QED
        BY <1>1, <2>1, <3>1, LenFacts DEF Grown
    <2>2. QED
      BY <1>2, <2>1 DEF WrittenInv
  <1>7. PromotionSound'
    BY <1>1, <1>2, <1>3, LenFacts DEF PromotionSound, Grown, argumentVars
  <1>8. ConflictIsReal'
    <2>1. ASSUME NEW k \in Jobs, pc[k] = "conflict"
          PROVE  /\ \A v \in 1..Len(log') : author'[v] # k
                 /\ IF k \in PromotionJobs
                    THEN prepared[k].base < Len(log')
                    ELSE \/ request[k].expected \in 1..(Len(log') - 1)
                         \/ current[k] \in 1..(Len(log') - 1)
      <3>1. \A v \in 1..Len(log') : author'[v] # k
        BY <1>1, <1>3, <2>1, LenFacts DEF Grown, ConflictIsReal
      <3>2. CASE k \in PromotionJobs
        BY <1>1, <2>1, <3>1, <3>2, LenFacts DEF ConflictIsReal, Grown, TypeOK
      <3>3. CASE k \notin PromotionJobs
        BY <1>1, <2>1, <3>1, <3>3, LenFacts DEF ConflictIsReal, Grown, TypeOK, Jobs
      <3>4. QED
        BY <3>2, <3>3
    <2>2. QED
      BY <1>2, <2>1 DEF ConflictIsReal, argumentVars
  <1>9. RollbackSound'
    <2>1. ASSUME NEW v \in 1..Len(log'), author'[v] \in RollbackJobs
          PROVE  /\ request[author'[v]].restore \in 1..(v - 1) \union Scripts
                 /\ log'[v] = VersionNext(request[author'[v]].restore)
                 /\ request[author'[v]].expected \in {0, v - 1}
      <3>1. v \in 1..Len(log) /\ author'[v] = author[v] /\ log'[v] = log[v]
        BY <1>1, <1>3, <2>1, LenFacts DEF Grown
      <3>2. /\ request[author[v]].restore \in 1..(v - 1) \union Scripts
            /\ log[v] = Version(request[author[v]].restore)
            /\ request[author[v]].expected \in {0, v - 1}
        BY <2>1, <3>1 DEF RollbackSound
      <3>3. request[author[v]].restore \in 1..Len(log) \union Scripts
        BY <3>1, <3>2, LenFacts
      <3>4. VersionNext(request[author[v]].restore) = Version(request[author[v]].restore)
        BY <1>1, <3>3, VersionKept
      <3>5. QED
        BY <1>2, <3>1, <3>2, <3>4 DEF argumentVars
    <2>2. QED
      BY <1>2, <2>1 DEF RollbackSound, argumentVars, Version, VersionNext
  <1>10. RecordsHappened'
    BY <1>1, <1>2, RecordsKeptByGrowth
  <1>11. QED
    BY <1>4, <1>5, <1>6, <1>7, <1>8, <1>9, <1>10

\* Every step preserves the invariant.
LEMMA StepInv == Inv /\ [Next]_vars => Inv'
  <1> SUFFICES ASSUME Inv, [Next]_vars PROVE Inv'
    OBVIOUS
  <1>1. CASE \E c \in Candidates : CreateCandidate(c)
    BY <1>1, CreateCandidateInv
  <1>2. CASE DeployOutside
    BY <1>2, DeployOutsideInv
  <1>3. ASSUME NEW j \in PromotionJobs,
               Prepare(j) \/ Approve(j) \/ Reject(j) \/ PromotionStep(j)
        PROVE  Inv'
    BY <1>3, PrepareInv, ApproveInv, RejectInv, CheckBaseInv, WriteInv, RereadInv,
       RecordPromotionInv DEF PromotionStep, Jobs
  <1>4. ASSUME NEW j \in RollbackJobs, RollbackStep(j) PROVE Inv'
    BY <1>4, CheckRollbackInv, WriteInv, RereadInv, RecordRollbackInv DEF RollbackStep, Jobs
  <1>5. CASE \E j \in Jobs : Fail(j)
    BY <1>5, FailInv
  <1>6. CASE UNCHANGED vars
    BY <1>6 DEF Inv, TypeOK, AuthorsWrote, Bounded, PreparedPinned, CheckedInv, WrittenInv,
                PromotionSound, ConflictIsReal, RollbackSound, RecordsHappened, Version, vars, Active
  <1>7. QED
    BY <1>1, <1>2, <1>3, <1>4, <1>5, <1>6 DEF Next

\* The invariant holds in every reachable state.
LEMMA Invariance == Spec => []Inv
  BY InitInv, StepInv, PTL DEF Spec

-----------------------------------------------------------------------------
\* Every variable keeps the type TypeOK gives it, whatever the number of jobs.
THEOREM TypeCorrect == Spec => []TypeOK
  <1>1. Inv => TypeOK
    BY DEF Inv
  <1>2. QED
    BY <1>1, Invariance, PTL

\* However many promotions, rollbacks and outside deployments interleave, a version
\* written by a promotion was approved and directly follows its candidate's base.
THEOREM PromotionsAreSound == Spec => []PromotionSound
  <1>1. Inv => PromotionSound
    BY DEF Inv
  <1>2. QED
    BY <1>1, Invariance, PTL

\* A job that reports a conflict changed nothing and was really overtaken.
THEOREM ConflictsAreReal == Spec => []ConflictIsReal
  <1>1. Inv => ConflictIsReal
    BY DEF Inv
  <1>2. QED
    BY <1>1, Invariance, PTL

\* A rollback publishes the content of the version it was asked for, of this path or of
\* another, on top of the version its caller expected.
THEOREM RollbacksAreSound == Spec => []RollbackSound
  <1>1. Inv => RollbackSound
    BY DEF Inv
  <1>2. QED
    BY <1>1, Invariance, PTL

\* No provenance record exists without the write it testifies to.
THEOREM RecordsAreTrue == Spec => []RecordsHappened
  <1>1. Inv => RecordsHappened
    BY DEF Inv
  <1>2. QED
    BY <1>1, Invariance, PTL

-----------------------------------------------------------------------------
(* Refinement.                                                             *)

\* A step that writes no version and creates no candidate is invisible.
LEMMA InvisibleStep ==
  ASSUME UNCHANGED <<log, author, base>>
  PROVE  UNCHANGED <<log, base, Promoted>>
  BY DEF Promoted

\* A new version extends the promoted candidates iff a promotion wrote it.
LEMMA PromotedByGrowth ==
  ASSUME Inv, NEW e, NEW a, Grown(e, a)
  PROVE  Promoted' = IF a \in PromotionJobs THEN Promoted \union {e} ELSE Promoted
  <1>1. ASSUME NEW x
        PROVE  x \in Promoted' <=> x \in Promoted \/ (a \in PromotionJobs /\ x = e)
    BY LenFacts DEF Inv, Promoted, Grown
  <1>2. QED
    BY <1>1

\* Initial states map to initial states.
LEMMA InitRefines == Init => Atomic!Init
  <1> SUFFICES ASSUME Init PROVE Atomic!Init
    OBVIOUS
  <1>1. Promoted = {}
    BY JobsAssumption DEF Init, Promoted, Jobs
  <1>2. QED
    BY <1>1 DEF Init, Atomic!Init

\* A write that Windmill accepts is a promotion or a restore of the abstract history.
LEMMA WriteRefines ==
  ASSUME Inv, NEW j \in Jobs, Write(j)
  PROVE  [Atomic!Next]_Atomic!vars
  <1>1. /\ pc[j] = "checked"
        /\ base' = base
    BY DEF Write
  <1>2. CASE current[j] = Len(log)
    <2>1. Payload(j) \in Contents /\ log' = Append(log, Payload(j)) /\ author' = Append(author, j)
      BY <1>1, <1>2, PayloadType DEF Write, ParentHash, LostAnswer, Inv, Active
    <2>2. Grown(Payload(j), j)
      BY <2>1, GrownByAppend DEF Inv
    <2>3. CASE j \in PromotionJobs
      <3> DEFINE c == prepared[j].candidate
      <3>1. c \in Candidates /\ Payload(j) = c /\ base[c] = Len(log)
        BY <1>1, <1>2, <2>3 DEF Inv, TypeOK, CheckedInv, PreparedPinned, Payload
      <3>2. c \notin Promoted
        <4>1. ASSUME NEW u \in 1..Len(log), author[u] \in PromotionJobs, log[u] = c
              PROVE  FALSE
          <5>1. base[c] = u - 1
            BY <4>1 DEF Inv, PromotionSound
          <5>2. QED
            BY <3>1, <4>1, <5>1, LenFacts DEF Inv
        <4>2. QED
          BY <4>1 DEF Promoted
      <3>3. Promoted' = Promoted \union {c}
        BY <2>2, <2>3, <3>1, PromotedByGrowth
      <3>4. Atomic!Promote(c)
        BY <1>1, <2>1, <3>1, <3>2, <3>3 DEF Atomic!Promote
      <3>5. QED
        BY <3>1, <3>4 DEF Atomic!Next
    <2>4. CASE j \notin PromotionJobs
      <3>1. Promoted' = Promoted
        BY <2>2, <2>4, PromotedByGrowth
      <3>2. /\ request[j].restore \in 1..Len(log) \union Scripts
            /\ Payload(j) = Version(request[j].restore)
        BY <1>1, <1>2, <2>4 DEF Inv, CheckedInv, Payload, Jobs
      <3>3. Atomic!Restore
        BY <1>1, <2>1, <3>1, <3>2 DEF Atomic!Restore, Version
      <3>4. QED
        BY <3>3 DEF Atomic!Next
    <2>5. QED
      BY <2>3, <2>4
  <1>3. CASE current[j] # Len(log)
    <2>1. UNCHANGED <<log, author>>
      BY <1>3 DEF Write, ParentHash, LostAnswer, Active, versionVars
    <2>2. QED
      BY <1>1, <2>1, InvisibleStep DEF Atomic!vars
  <1>4. QED
    BY <1>2, <1>3

\* Every step maps to an atomic step or to a stutter.
LEMMA StepRefines == Inv /\ [Next]_vars => [Atomic!Next]_Atomic!vars
  <1> SUFFICES ASSUME Inv, [Next]_vars PROVE [Atomic!Next]_Atomic!vars
    OBVIOUS
  <1>1. ASSUME NEW c \in Candidates, CreateCandidate(c)
        PROVE  [Atomic!Next]_Atomic!vars
    <2>1. UNCHANGED <<log, Promoted>>
      BY <1>1 DEF CreateCandidate, versionVars, Promoted
    <2>2. Atomic!Derive(c)
      BY <1>1, <2>1 DEF CreateCandidate, Atomic!Derive, Active
    <2>3. QED
      BY <2>2 DEF Atomic!Next
  <1>2. CASE DeployOutside
    <2>1. Grown(Edited, Outside)
      BY <1>2, GrownByAppend DEF DeployOutside, Contents, Inv
    <2>2. Promoted' = Promoted
      BY <2>1, PromotedByGrowth, JobsAssumption DEF Jobs
    <2>3. Atomic!Deploy
      BY <1>2, <2>2 DEF DeployOutside, Atomic!Deploy
    <2>4. QED
      BY <2>3 DEF Atomic!Next
  <1>3. ASSUME NEW j \in PromotionJobs,
               Prepare(j) \/ Approve(j) \/ Reject(j) \/ CheckBase(j) \/ RecordPromotion(j)
        PROVE  UNCHANGED <<log, author, base>>
    BY <1>3 DEF Prepare, Approve, Reject, CheckBase, RecordPromotion, versionVars
  <1>4. ASSUME NEW j \in RollbackJobs, CheckRollback(j) \/ RecordRollback(j)
        PROVE  UNCHANGED <<log, author, base>>
    BY <1>4 DEF CheckRollback, RecordRollback, versionVars
  <1>5. ASSUME NEW j \in Jobs, Reread(j) \/ Fail(j)
        PROVE  UNCHANGED <<log, author, base>>
    BY <1>5 DEF Reread, Fail, versionVars
  <1>6. ASSUME NEW j \in Jobs, Write(j)
        PROVE  [Atomic!Next]_Atomic!vars
    BY <1>6, WriteRefines
  <1>7. ASSUME UNCHANGED <<log, author, base>>
        PROVE  [Atomic!Next]_Atomic!vars
    BY <1>7, InvisibleStep DEF Atomic!vars
  <1>8. QED
    BY <1>1, <1>2, <1>3, <1>4, <1>5, <1>6, <1>7
    DEF Next, vars, PromotionStep, RollbackStep, Jobs

\* Jobs that read, write, re-read and record in separate calls implement the
\* append-only history of atomic promotions and restores.
THEOREM Refinement == Spec => ImplementsAtomicVersions
  <1>1. Spec => Atomic!Spec
    BY InitRefines, StepRefines, Invariance, PTL DEF Spec, Atomic!Spec
  <1>2. QED
    BY <1>1 DEF ImplementsAtomicVersions

=============================================================================
