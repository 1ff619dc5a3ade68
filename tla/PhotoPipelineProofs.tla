------------------------- MODULE PhotoPipelineProofs -------------------------
(***************************************************************************)
(* Proofs about PhotoPipeline for every number of uploads, contents and    *)
(* workers, and every bound.                                               *)
(***************************************************************************)
EXTENDS PhotoPipeline, TLAPS

(* A record of the queue as Redis keeps it; the two that AddJobs makes are. *)
LEMMA JobRecords ==
  /\ Absent \in JobRecord /\ NewJob \in JobRecord
  /\ Absent.st = "absent" /\ NewJob.st = "waiting"
BY DEF Absent, NewJob, JobRecord, JobState

(* Adding jobs keeps the shape of the queue, and every record is the one it *)
(* was or a fresh waiting one of an added id.                               *)
LEMMA AddJobsShape ==
  ASSUME TypeOK, NEW ids, AddJobs(ids)
  PROVE  /\ jobs' \in [JobId -> JobRecord]
         /\ \A j \in JobId : jobs'[j] = jobs[j] \/ (j \in ids /\ jobs'[j] = NewJob)
BY JobRecords DEF TypeOK, AddJobs

(* Updating the record of a busy worker's job keeps the shape of the queue. *)
LEMMA OutcomeShape ==
  ASSUME TypeOK, NEW w \in Worker, Busy(w), NEW job \in JobRecord, Outcome(w, job)
  PROVE  /\ jobs' \in [JobId -> JobRecord]
         /\ \A j \in JobId : jobs'[j] = jobs[j] \/ (j = wk[w].job /\ jobs'[j] = job)
         /\ wk' = [wk EXCEPT ![w] = Idle]
BY DEF TypeOK, Outcome, Busy

LEMMA TypeInit == Init => TypeOK
BY JobRecords, BoundsAssumption, NullAssumption
   DEF Init, TypeOK, UploadPc, InFlight, Status, WorkerPc, Idle, Busy

LEMMA TypeUpload == TypeOK /\ UploadNext => TypeOK'
<1> SUFFICES ASSUME TypeOK, NEW p \in Photo,
                    \/ Receive(p) \/ CheckDuplicate(p) \/ Store(p)
                    \/ Create(p) \/ CreateConflict(p) \/ Enqueue(p) \/ UploadFails(p)
             PROVE  TypeOK'
  BY DEF UploadNext
<1> USE DEF TypeOK, UploadPc, InFlight, Busy
<1>1. CASE Receive(p)
  BY <1>1 DEF Receive, At
<1>2. CASE CheckDuplicate(p)
  BY <1>2 DEF CheckDuplicate, At
<1>3. CASE Store(p)
  BY <1>3 DEF Store, StoreOriginal
<1>4. CASE Create(p)
  BY <1>4 DEF Create, CreateRow, Status
<1>5. CASE CreateConflict(p)
  BY <1>5 DEF CreateConflict, At
<1>6. CASE Enqueue(p)
  <2>1. AddJobs({First(p)})
    BY <1>6 DEF Enqueue, EnqueueJob
  <2> QED
    BY <1>6, <2>1, AddJobsShape DEF Enqueue, EnqueueJob
<1>7. CASE UploadFails(p)
  <2>1. CASE UNCHANGED <<originals, variants, photo, jobs>>
    BY <1>7, <2>1 DEF UploadFails
  <2>2. CASE StoreOriginal(p)
    BY <1>7, <2>2 DEF UploadFails, StoreOriginal
  <2>3. CASE CreateRow(p)
    BY <1>7, <2>3 DEF UploadFails, CreateRow, Status
  <2>4. CASE EnqueueJob(p)
    BY <1>7, <2>4, AddJobsShape DEF UploadFails, EnqueueJob
  <2> QED
    BY <1>7, <2>1, <2>2, <2>3, <2>4 DEF UploadFails
<1> QED
  BY <1>1, <1>2, <1>3, <1>4, <1>5, <1>6, <1>7

LEMMA TypeProducer == TypeOK /\ ProducerNext => TypeOK'
<1> SUFFICES ASSUME TypeOK, ProducerNext PROVE TypeOK'
  OBVIOUS
<1> USE DEF TypeOK, upload, Busy
<1>1. CASE \E batch \in SUBSET Ingested : SweepRead(batch)
  BY <1>1 DEF SweepRead, Ingested
<1>2. CASE \E p \in Photo : SweepAdd(p)
  BY <1>2, AddJobsShape DEF SweepAdd
<1>3. CASE SweepAborts
  BY <1>3, BoundsAssumption DEF SweepAborts
<1>4. CASE Reprocess
  <2>1. round' \in 0..MaxReprocess
    BY <1>4, BoundsAssumption DEF Reprocess
  <2>2. jobs' \in [JobId -> JobRecord]
    BY <1>4, AddJobsShape DEF Reprocess
  <2> QED
    BY <1>4, <2>1, <2>2 DEF Reprocess
<1> QED
  BY <1>1, <1>2, <1>3, <1>4 DEF ProducerNext

LEMMA TypeQueue == TypeOK /\ QueueNext => TypeOK'
<1> SUFFICES ASSUME TypeOK, NEW j \in JobId,
                    \/ Backoff(j) \/ ExpireCompleted(j) \/ Stalled(j)
                    \/ LockLapses(j) \/ LoseJob(j)
             PROVE  TypeOK'
  BY DEF QueueNext
<1>1. jobs' \in [JobId -> JobRecord] /\ faults' \in 0..MaxFaults
  <2>0. jobs[j] \in JobRecord /\ faults \in 0..MaxFaults
    BY DEF TypeOK
  <2> USE JobRecords, BoundsAssumption DEF JobNext
  <2>1. CASE Backoff(j)
    <3>1. [jobs[j] EXCEPT !.st = "waiting"] \in JobRecord
      BY <2>0 DEF JobRecord, JobState
    <3> QED  BY <2>0, <2>1, <3>1 DEF Backoff, TypeOK
  <2>2. CASE ExpireCompleted(j)
    BY <2>0, <2>2 DEF ExpireCompleted, TypeOK
  <2>3. CASE Stalled(j)
    <3>1. [jobs[j] EXCEPT !.st = IF jobs[j].stalls < MaxStalls THEN "waiting" ELSE "failed",
                          !.stalls = @ + 1] \in JobRecord
      <4>1. jobs[j].stalls \in Nat /\ jobs[j].stalls + 1 \in Nat
        BY <2>0 DEF JobRecord
      <4>2. (IF jobs[j].stalls < MaxStalls THEN "waiting" ELSE "failed") \in JobState
        BY DEF JobState
      <4> QED  BY <2>0, <4>1, <4>2 DEF JobRecord
    <3> QED  BY <2>0, <2>3, <3>1 DEF Stalled, TypeOK
  <2>4. CASE LockLapses(j)
    <3>1. [jobs[j] EXCEPT !.owner = NoWorker] \in JobRecord
      BY <2>0 DEF JobRecord, JobState
    <3> QED  BY <2>0, <2>4, <3>1 DEF LockLapses, TypeOK
  <2>5. CASE LoseJob(j)
    BY <2>0, <2>5 DEF LoseJob, TypeOK
  <2> QED
    BY <2>1, <2>2, <2>3, <2>4, <2>5
<1>2. UNCHANGED <<upload, originals, variants, photo, wk, sweep, round>>
  BY DEF JobNext, Backoff, ExpireCompleted, Stalled, LockLapses, LoseJob
<1> QED
  BY <1>1, <1>2 DEF TypeOK, upload, Busy

LEMMA TypeWorker == TypeOK /\ WorkerNext => TypeOK'
<1> SUFFICES ASSUME TypeOK, NEW w \in Worker,
                    \/ \E j \in JobId : Take(w, j)
                    \/ Detect(w) \/ MakeVariants(w) \/ Commit(w) \/ Raises(w)
                    \/ MarkFailed(w) \/ MarkSwallowed(w)
                    \/ Acknowledge(w) \/ Reject(w) \/ WorkerCrash(w)
             PROVE  TypeOK'
  BY DEF WorkerNext
<1>0. ASSUME Busy(w) PROVE wk[w].job \in JobId /\ PhotoOf(w) \in Photo
  BY <1>0 DEF TypeOK, PhotoOf, JobId
<1>1. CASE \E j \in JobId : Take(w, j)
  <2>1. PICK j \in JobId : Take(w, j)
    BY <1>1
  <2>2. jobs' \in [JobId -> JobRecord]
    BY <2>1 DEF Take, TypeOK, JobRecord, JobState
  <2>3. j # NoJob
    BY NullAssumption DEF JobId
  <2> QED
    BY <2>1, <2>2, <2>3 DEF Take, TypeOK, WorkerPc, Busy, upload
<1>2. CASE Detect(w) \/ MarkSwallowed(w)
  BY <1>2 DEF Detect, MarkSwallowed, Goes, TypeOK, WorkerPc, Busy, upload
<1>3. CASE MakeVariants(w)
  BY <1>0, <1>3 DEF MakeVariants, Goes, TypeOK, WorkerPc, Busy, upload
<1>4. CASE Commit(w) \/ MarkFailed(w)
  BY <1>0, <1>4, SMTT(60) DEF Commit, MarkFailed, Goes, TypeOK, WorkerPc, Status, Busy, upload
<1>5. CASE Raises(w)
  BY <1>0, <1>5 DEF Raises, TypeOK, WorkerPc, Status, Busy, upload
<1>6. CASE Acknowledge(w)
  <2>1. Busy(w)
    BY <1>6 DEF Acknowledge, Busy
  <2> DEFINE old == jobs[wk[w].job]
             new == [old EXCEPT !.st = "completed", !.owner = NoWorker]
  <2>2. new \in JobRecord /\ Outcome(w, new)
    <3>1. old \in JobRecord
      BY <1>0, <2>1 DEF TypeOK
    <3>2. new \in JobRecord
      BY <3>1 DEF JobRecord, JobState
    <3> QED  BY <1>6, <3>2 DEF Acknowledge
  <2> HIDE DEF new
  <2> QED
    BY <2>1, <2>2, OutcomeShape DEF Outcome, TypeOK, Idle, WorkerPc, Busy, upload
<1>7. CASE Reject(w)
  <2>1. Busy(w)
    BY <1>7 DEF Reject, Busy
  <2> DEFINE old == jobs[wk[w].job]
             verdict == IF old.made + 1 < Attempts THEN "delayed" ELSE "failed"
             new == [old EXCEPT !.st = verdict, !.made = @ + 1, !.owner = NoWorker]
  <2>2. new \in JobRecord /\ Outcome(w, new)
    <3>1. old \in JobRecord
      BY <1>0, <2>1 DEF TypeOK
    <3>2. verdict \in JobState /\ old.made + 1 \in Nat
      BY <3>1 DEF JobRecord, JobState
    <3>3. new \in JobRecord
      <4> HIDE DEF verdict
      <4> QED  BY <3>1, <3>2 DEF JobRecord
    <3> QED  BY <1>7, <3>3 DEF Reject
  <2> HIDE DEF new
  <2> QED
    BY <2>1, <2>2, OutcomeShape DEF Outcome, TypeOK, Idle, WorkerPc, Busy, upload
<1>8. CASE WorkerCrash(w)
  <2>1. jobs' \in [JobId -> JobRecord]
    BY <1>8 DEF WorkerCrash, TypeOK, JobRecord, JobState
  <2>2. faults' \in 0..MaxFaults
    BY <1>8, BoundsAssumption DEF WorkerCrash, TypeOK
  <2> QED
    BY <1>8, <2>1, <2>2 DEF WorkerCrash, TypeOK, Idle, WorkerPc, Busy, upload
<1> QED
  BY <1>1, <1>2, <1>3, <1>4, <1>5, <1>6, <1>7, <1>8

LEMMA TypeNext == TypeOK /\ [Next]_vars => TypeOK'
<1>1. TypeOK /\ UNCHANGED vars => TypeOK'
  BY DEF TypeOK, vars, Busy
<1> QED
  BY <1>1, TypeUpload, TypeProducer, TypeQueue, TypeWorker DEF Next

(* Type correctness of the pipeline. *)
THEOREM TypeCorrect == Spec => []TypeOK
BY TypeInit, TypeNext, PTL DEF Spec

--------------------------------------------------------------------------------
(***************************************************************************)
(* The inductive invariant.  What the runs check is not inductive alone:   *)
(* it needs to be known how far an upload handler with a row can be, and   *)
(* what a worker has done by the time it commits or acknowledges.          *)
(***************************************************************************)
HandlerInv == \A p \in Photo :
  /\ pc[p] \in {"stored", "created"} => p \in originals
  /\ pc[p] = "created" => HasRow(p)
  /\ HasRow(p) => pc[p] \in {"created", "done", "failed"}

WorkerInv == \A w \in Worker :
  /\ wk[w].pc = "ready" => PhotoOf(w) \in variants
  /\ wk[w].pc = "ack" => Settled(PhotoOf(w))

Safety ==
  /\ HandlerInv
  /\ SafeBeforeQueued
  /\ WorkerInv
  /\ ProcessedIsGalleryReady
  /\ OneRowPerContent
  /\ DuplicatesAreCovered
  /\ CompletedHasVerdict

IInv == TypeOK /\ Safety

LEMMA SafetyInit == Init => Safety
BY JobRecords DEF Init, Safety, HandlerInv, SafeBeforeQueued, WorkerInv, Idle, Busy,
   HasRow, Settled, ProcessedIsGalleryReady, OneRowPerContent, DuplicatesAreCovered,
   CompletedHasVerdict

(* What jobs may look like after a step that leaves rows alone.             *)
LEMMA JobsInv ==
  ASSUME IInv, TypeOK', UNCHANGED photo,
         \A j \in JobId : \/ jobs'[j] = jobs[j]
                          \/ jobs'[j].st = "absent"
                          \/ HasRow(j[1]) /\ jobs'[j].st # "completed"
  PROVE  /\ \A j \in JobId : jobs'[j].st # "absent" => HasRow(j[1])'
         /\ CompletedHasVerdict'
BY JobRecords DEF IInv, Safety, SafeBeforeQueued, CompletedHasVerdict, Settled, HasRow

(* Producers and Redis only touch jobs and sweeps. *)
LEMMA SafetyProducer == IInv /\ TypeOK' /\ ProducerNext => Safety'
<1> SUFFICES ASSUME IInv, TypeOK', ProducerNext PROVE Safety'
  OBVIOUS
<1>0. UNCHANGED <<pc, via, content, originals, variants, photo, wk>>
  BY DEF ProducerNext, SweepRead, SweepAdd, SweepAborts, Reprocess, upload
<1>1. \A p \in sweep' : HasRow(p)
  BY DEF ProducerNext, SweepRead, SweepAdd, SweepAborts, Reprocess, IInv, Safety,
     SafeBeforeQueued, Ingested, HasRow
<1>2. \A j \in JobId : jobs'[j] = jobs[j] \/ (HasRow(j[1]) /\ jobs'[j].st = "waiting")
  <2>1. CASE \E batch \in SUBSET Ingested : SweepRead(batch)
    BY <2>1 DEF SweepRead
  <2>2. CASE \E p \in Photo : SweepAdd(p)
    <3>1. PICK p \in Photo : p \in sweep /\ AddJobs({First(p)})
      BY <2>2 DEF SweepAdd
    <3> QED  BY <3>1, AddJobsShape, JobRecords DEF IInv, Safety, SafeBeforeQueued, First
  <2>3. CASE SweepAborts
    BY <2>3 DEF SweepAborts
  <2>4. CASE Reprocess
    BY <2>4, AddJobsShape, JobRecords DEF Reprocess, IInv, Settled, HasRow
  <2> QED  BY <2>1, <2>2, <2>3, <2>4 DEF ProducerNext
<1>3. /\ \A j \in JobId : jobs'[j].st # "absent" => HasRow(j[1])'
      /\ CompletedHasVerdict'
  BY <1>0, <1>2, JobsInv
<1> QED
  BY <1>0, <1>1, <1>3 DEF IInv, Safety, HandlerInv, SafeBeforeQueued, WorkerInv, HasRow,
     Settled, Busy, PhotoOf, ProcessedIsGalleryReady, OneRowPerContent, DuplicatesAreCovered

LEMMA SafetyQueue == IInv /\ TypeOK' /\ QueueNext => Safety'
<1> SUFFICES ASSUME IInv, TypeOK', NEW j \in JobId,
                    \/ Backoff(j) \/ ExpireCompleted(j) \/ Stalled(j)
                    \/ LockLapses(j) \/ LoseJob(j)
             PROVE  Safety'
  BY DEF QueueNext
<1>0. UNCHANGED <<pc, via, content, originals, variants, photo, wk, sweep>>
  BY DEF JobNext, Backoff, ExpireCompleted, Stalled, LockLapses, LoseJob, upload
<1>1. /\ jobs[j] \in JobRecord
      /\ jobs[j].st # "absent" => HasRow(j[1])
  BY DEF IInv, TypeOK, Safety, SafeBeforeQueued
<1>2. \A k \in JobId : \/ jobs'[k] = jobs[k]
                       \/ jobs'[k].st = "absent"
                       \/ HasRow(k[1]) /\ jobs'[k].st # "completed"
  <2>1. \A k \in JobId \ {j} : jobs'[k] = jobs[k]
    BY DEF JobNext, Backoff, ExpireCompleted, Stalled, LockLapses, LoseJob, IInv, TypeOK
  <2>2. \/ jobs'[j].st = "absent"
        \/ HasRow(j[1]) /\ jobs'[j].st # "completed"
    <3>1. CASE Backoff(j)
      BY <1>1, <3>1 DEF Backoff, JobNext, IInv, TypeOK, JobRecord
    <3>2. CASE ExpireCompleted(j) \/ LoseJob(j)
      BY <3>2, JobRecords DEF ExpireCompleted, LoseJob, JobNext, IInv, TypeOK
    <3>3. CASE Stalled(j)
      BY <1>1, <3>3 DEF Stalled, JobNext, IInv, TypeOK, JobRecord
    <3>4. CASE LockLapses(j)
      BY <1>1, <3>4 DEF LockLapses, JobNext, IInv, TypeOK, JobRecord
    <3> QED  BY <3>1, <3>2, <3>3, <3>4
  <2> QED  BY <2>1, <2>2
<1>3. /\ \A k \in JobId : jobs'[k].st # "absent" => HasRow(k[1])'
      /\ CompletedHasVerdict'
  BY <1>0, <1>2, JobsInv
<1> QED
  BY <1>0, <1>3 DEF IInv, Safety, HandlerInv, SafeBeforeQueued, WorkerInv, HasRow,
     Settled, Busy, PhotoOf, ProcessedIsGalleryReady, OneRowPerContent, DuplicatesAreCovered

(* How a row comes into being and how an upload handler moves on. *)
LEMMA UploadEffect ==
  ASSUME IInv, TypeOK', NEW p \in Photo,
         \/ Receive(p) \/ CheckDuplicate(p) \/ Store(p)
         \/ Create(p) \/ CreateConflict(p) \/ Enqueue(p) \/ UploadFails(p)
  PROVE  /\ UNCHANGED <<via, content, variants, wk, sweep>>
         /\ \A q \in Photo \ {p} : pc'[q] = pc[q] /\ photo'[q] = photo[q]
         /\ originals \subseteq originals' /\ originals' \subseteq originals \cup {p}
         /\ \/ photo' = photo
            \/ /\ pc[p] = "stored" /\ ~Taken(content[p])
               /\ photo'[p] = "ingested" /\ pc'[p] \in {"created", "failed"}
         /\ \A j \in JobId : \/ jobs'[j] = jobs[j]
                             \/ HasRow(j[1]) /\ jobs'[j].st # "completed"
<1>0. /\ pc \in [Photo -> UploadPc] /\ photo \in [Photo -> Status] /\ originals \subseteq Photo
      /\ TypeOK
  BY DEF IInv, TypeOK
<1>1. CASE Receive(p) \/ CheckDuplicate(p) \/ CreateConflict(p)
  BY <1>0, <1>1 DEF Receive, CheckDuplicate, CreateConflict, At
<1>2. ASSUME StoreOriginal(p)
      PROVE  originals \subseteq originals' /\ originals' \subseteq originals \cup {p}
             /\ UNCHANGED <<variants, photo, jobs>>
  BY <1>2 DEF StoreOriginal
<1>3. ASSUME CreateRow(p)
      PROVE  /\ pc[p] = "stored" /\ ~Taken(content[p]) /\ photo'[p] = "ingested"
             /\ \A q \in Photo \ {p} : photo'[q] = photo[q]
             /\ UNCHANGED <<originals, variants, jobs>>
  BY <1>0, <1>3 DEF CreateRow
<1>4. ASSUME EnqueueJob(p)
      PROVE  /\ UNCHANGED <<originals, variants, photo>>
             /\ \A j \in JobId : \/ jobs'[j] = jobs[j]
                                 \/ HasRow(j[1]) /\ jobs'[j].st # "completed"
  <2>1. pc[p] = "created" /\ AddJobs({First(p)}) /\ UNCHANGED <<originals, variants, photo>>
    BY <1>4 DEF EnqueueJob
  <2>2. HasRow(p)
    BY <2>1 DEF IInv, Safety, HandlerInv
  <2> QED  BY <1>0, <2>1, <2>2, AddJobsShape, JobRecords DEF First
<1>5. CASE Store(p) \/ Create(p) \/ Enqueue(p)
  <2>1. /\ UNCHANGED <<via, content, wk, sweep>>
        /\ \A q \in Photo \ {p} : pc'[q] = pc[q]
    BY <1>0, <1>5 DEF Store, Create, Enqueue
  <2>2. CASE Store(p)
    BY <1>2, <2>1, <2>2 DEF Store
  <2>3. CASE Create(p)
    BY <1>0, <1>3, <2>1, <2>3 DEF Create
  <2>4. CASE Enqueue(p)
    BY <1>4, <2>1, <2>4 DEF Enqueue
  <2> QED  BY <1>5, <2>2, <2>3, <2>4
<1>6. CASE UploadFails(p)
  <2>1. /\ UNCHANGED <<via, content, wk, sweep>>
        /\ pc'[p] = "failed" /\ \A q \in Photo \ {p} : pc'[q] = pc[q]
    BY <1>0, <1>6 DEF UploadFails
  <2>2. CASE UNCHANGED <<originals, variants, photo, jobs>>
    BY <2>1, <2>2
  <2>3. CASE StoreOriginal(p)
    BY <1>2, <2>1, <2>3
  <2>4. CASE CreateRow(p)
    BY <1>3, <2>1, <2>4
  <2>5. CASE EnqueueJob(p)
    BY <1>4, <2>1, <2>5
  <2> QED  BY <1>6, <2>2, <2>3, <2>4, <2>5 DEF UploadFails
<1> QED
  BY <1>1, <1>5, <1>6

(* A handler creates a row only for a stored original and an untaken        *)
(* content, and a job only for a row.                                       *)
LEMMA SafetyUpload == IInv /\ TypeOK' /\ UploadNext => Safety'
<1> SUFFICES ASSUME IInv, TypeOK', NEW p \in Photo,
                    \/ Receive(p) \/ CheckDuplicate(p) \/ Store(p)
                    \/ Create(p) \/ CreateConflict(p) \/ Enqueue(p) \/ UploadFails(p)
             PROVE  Safety'
  BY DEF UploadNext
<1>0. /\ UNCHANGED <<via, content, variants, wk, sweep>>
      /\ \A q \in Photo \ {p} : pc'[q] = pc[q] /\ photo'[q] = photo[q]
      /\ originals \subseteq originals' /\ originals' \subseteq originals \cup {p}
  BY UploadEffect
<1>1. \/ photo' = photo
      \/ /\ pc[p] = "stored" /\ ~Taken(content[p])
         /\ photo'[p] = "ingested" /\ pc'[p] \in {"created", "failed"}
  BY UploadEffect
<1>2. \A j \in JobId : \/ jobs'[j] = jobs[j]
                       \/ HasRow(j[1]) /\ jobs'[j].st # "completed"
  BY UploadEffect
<1>3. HandlerInv /\ \A q \in Photo : HasRow(q) => HasRow(q)' /\ photo'[q] = photo[q]
  BY <1>0, <1>1 DEF IInv, Safety, HandlerInv, HasRow
<1>4. HandlerInv'
  <2>1. \A q \in Photo \ {p} : HasRow(q)' <=> HasRow(q)
    BY <1>0 DEF HasRow
  <2>2. \A q \in Photo \ {p} :
           /\ pc'[q] \in {"stored", "created"} => q \in originals'
           /\ pc'[q] = "created" => HasRow(q)'
           /\ HasRow(q)' => pc'[q] \in {"created", "done", "failed"}
    BY <1>0, <1>3, <2>1 DEF HandlerInv
  <2>3. /\ pc'[p] \in {"stored", "created"} => p \in originals'
        /\ pc'[p] = "created" => HasRow(p)'
        /\ HasRow(p)' => pc'[p] \in {"created", "done", "failed"}
    <3> USE DEF HandlerInv, HasRow, IInv, TypeOK
    <3>1. CASE Receive(p) \/ CheckDuplicate(p) \/ CreateConflict(p)
      BY <1>3, <3>1 DEF Receive, CheckDuplicate, CreateConflict, At, Taken
    <3>2. CASE Store(p)
      BY <1>3, <3>2 DEF Store, StoreOriginal
    <3>3. CASE Create(p)
      BY <1>3, <3>3 DEF Create, CreateRow
    <3>4. CASE Enqueue(p)
      BY <1>3, <3>4 DEF Enqueue, EnqueueJob
    <3>5. CASE UploadFails(p)
      BY <3>5 DEF UploadFails
    <3> QED  BY <3>1, <3>2, <3>3, <3>4, <3>5
  <2> QED  BY <2>2, <2>3 DEF HandlerInv
<1>5. SafeBeforeQueued'
  <2>1. \A q \in Photo : HasRow(q)' => q \in originals'
    BY <1>0, <1>1, <1>3 DEF IInv, Safety, SafeBeforeQueued, HandlerInv, HasRow
  <2>2. \A j \in JobId : jobs'[j].st # "absent" => HasRow(j[1])'
    BY <1>2, <1>3 DEF IInv, Safety, SafeBeforeQueued, JobId
  <2>3. /\ \A w \in Worker : Busy(w)' => HasRow(PhotoOf(w))'
        /\ \A q \in sweep' : HasRow(q)'
    <3>1. \A w \in Worker : Busy(w) => PhotoOf(w) \in Photo
      BY DEF IInv, TypeOK, PhotoOf, JobId
    <3> QED
      BY <1>0, <1>3, <3>1 DEF IInv, TypeOK, Safety, SafeBeforeQueued, Busy, PhotoOf
  <2> QED  BY <2>1, <2>2, <2>3 DEF SafeBeforeQueued
<1>6. WorkerInv'
  <2>1. \A w \in Worker : Busy(w) => PhotoOf(w) \in Photo
    BY DEF IInv, TypeOK, PhotoOf, JobId
  <2>2. \A q \in Photo : Settled(q) => Settled(q)'
    BY <1>3 DEF Settled, HasRow
  <2> QED  BY <1>0, <2>1, <2>2 DEF IInv, Safety, WorkerInv, PhotoOf, Busy
<1>7. ProcessedIsGalleryReady'
  BY <1>0, <1>1 DEF IInv, Safety, ProcessedIsGalleryReady
<1>8. OneRowPerContent'
  <2>1. CASE photo' = photo
    BY <1>0, <2>1 DEF IInv, Safety, OneRowPerContent, HasRow
  <2>2. CASE ~Taken(content[p])
    BY <1>0, <2>2 DEF IInv, Safety, OneRowPerContent, HasRow, Taken
  <2> QED  BY <1>1, <2>1, <2>2
<1>9. DuplicatesAreCovered'
  <2>1. \A q \in Photo : pc'[q] = "duplicate" => ~HasRow(q)'
    BY <1>4 DEF HandlerInv
  <2>2. pc'[p] = "duplicate" /\ pc[p] # "duplicate" => Taken(content[p])
    BY DEF Receive, CheckDuplicate, Store, StoreOriginal, Create, CreateConflict, Enqueue,
       UploadFails, At, IInv, TypeOK
  <2>3. \A q \in Photo : pc'[q] = "duplicate" => \E r \in Photo : HasRow(r) /\ content[r] = content[q]
    BY <1>0, <2>2 DEF IInv, Safety, DuplicatesAreCovered, Taken
  <2> QED  BY <1>0, <1>3, <2>1, <2>3 DEF DuplicatesAreCovered
<1>10. CompletedHasVerdict'
  <2>1. \A j \in JobId : j[1] \in Photo
    BY DEF JobId
  <2> QED  BY <1>2, <1>3, <2>1 DEF IInv, Safety, CompletedHasVerdict, Settled, HasRow
<1> QED
  BY <1>4, <1>5, <1>6, <1>7, <1>8, <1>9, <1>10 DEF Safety

(* A worker changes the status of its own photo only, to a verdict, and to  *)
(* "processed" only when the variants are there.                            *)
LEMMA WorkerEffect ==
  ASSUME IInv, TypeOK', NEW w \in Worker,
         \/ \E j \in JobId : Take(w, j)
         \/ Detect(w) \/ MakeVariants(w) \/ Commit(w) \/ Raises(w)
         \/ MarkFailed(w) \/ MarkSwallowed(w)
         \/ Acknowledge(w) \/ Reject(w) \/ WorkerCrash(w)
  PROVE  /\ UNCHANGED <<pc, via, content, originals, sweep>>
         /\ variants \subseteq variants'
         /\ \A x \in Worker \ {w} : wk'[x] = wk[x]
         /\ \A p \in Photo :
              \/ photo'[p] = photo[p]
              \/ HasRow(p) /\ photo'[p] = "failed"
              \/ HasRow(p) /\ photo'[p] = "processed" /\ p \in variants'
<1>0. /\ wk \in [Worker -> [pc: WorkerPc, job: JobId \cup {NoJob}]]
      /\ photo \in [Photo -> Status]
      /\ Busy(w) => PhotoOf(w) \in Photo /\ HasRow(PhotoOf(w))
      /\ wk[w].pc = "ready" => PhotoOf(w) \in variants
  BY DEF IInv, TypeOK, Safety, SafeBeforeQueued, WorkerInv, PhotoOf, JobId
<1>1. CASE \/ \E j \in JobId : Take(w, j)
           \/ Detect(w) \/ MakeVariants(w) \/ MarkSwallowed(w)
  BY <1>0, <1>1 DEF Take, Detect, MakeVariants, MarkSwallowed, Goes, upload
<1>2. CASE Commit(w) \/ MarkFailed(w) \/ Raises(w)
  BY <1>0, <1>2 DEF Commit, MarkFailed, Raises, Goes, upload, Busy
<1>3. CASE Acknowledge(w) \/ Reject(w) \/ WorkerCrash(w)
  BY <1>0, <1>3 DEF Acknowledge, Reject, WorkerCrash, Outcome, upload
<1> QED
  BY <1>1, <1>2, <1>3

LEMMA SafetyWorker == IInv /\ TypeOK' /\ WorkerNext => Safety'
<1> SUFFICES ASSUME IInv, TypeOK', NEW w \in Worker,
                    \/ \E j \in JobId : Take(w, j)
                    \/ Detect(w) \/ MakeVariants(w) \/ Commit(w) \/ Raises(w)
                    \/ MarkFailed(w) \/ MarkSwallowed(w)
                    \/ Acknowledge(w) \/ Reject(w) \/ WorkerCrash(w)
             PROVE  Safety'
  BY DEF WorkerNext
<1>0. /\ UNCHANGED <<pc, via, content, originals, sweep>>
      /\ variants \subseteq variants'
      /\ \A x \in Worker \ {w} : wk'[x] = wk[x]
  BY WorkerEffect
<1>1. \A p \in Photo :
         \/ photo'[p] = photo[p]
         \/ HasRow(p) /\ photo'[p] = "failed"
         \/ HasRow(p) /\ photo'[p] = "processed" /\ p \in variants'
  BY WorkerEffect
<1>2. \A p \in Photo : (HasRow(p) <=> HasRow(p)') /\ (Settled(p) => Settled(p)')
  BY <1>1 DEF HasRow, Settled
<1>3. \A x \in Worker : Busy(x) => wk[x].job \in JobId /\ PhotoOf(x) \in Photo
  BY DEF IInv, TypeOK, PhotoOf, JobId
<1>4. HandlerInv'
  BY <1>0, <1>2 DEF IInv, Safety, HandlerInv
<1>5. \A j \in JobId : /\ jobs'[j].st # "absent" => HasRow(j[1])
                       /\ jobs'[j].st = "completed" => Settled(j[1])
  <2> DEFINE Fine(job, p) == /\ job.st # "absent" => HasRow(p)
                             /\ job.st = "completed" => Settled(p)
  <2>1. \A j \in JobId : Fine(jobs[j], j[1])
    BY DEF IInv, Safety, SafeBeforeQueued, CompletedHasVerdict
  <2>2. ASSUME UNCHANGED jobs PROVE \A j \in JobId : Fine(jobs'[j], j[1])
    BY <2>1, <2>2
  <2>3. ASSUME NEW k \in JobId, NEW r, jobs' = [jobs EXCEPT ![k] = r], Fine(r, k[1])
        PROVE  \A j \in JobId : Fine(jobs'[j], j[1])
    <3> HIDE DEF Fine
    <3> QED  BY <2>1, <2>3 DEF IInv, TypeOK
  <2>4. CASE \E j \in JobId : Take(w, j)
    <3>1. PICK j \in JobId : Take(w, j)
      BY <2>4
    <3>2. Fine([jobs[j] EXCEPT !.st = "active", !.owner = w], j[1])
      BY <2>1, <3>1, ZenonT(60) DEF Take, IInv, TypeOK, JobRecord
    <3>3. jobs' = [jobs EXCEPT ![j] = [jobs[j] EXCEPT !.st = "active", !.owner = w]]
      BY <3>1 DEF Take
    <3> QED  BY <2>3, <3>2, <3>3
  <2>5. CASE Acknowledge(w)
    <3> DEFINE k == wk[w].job
               r == [jobs[k] EXCEPT !.st = "completed", !.owner = NoWorker]
    <3>1. k \in JobId /\ Settled(k[1])
      BY <1>3, <2>5 DEF Acknowledge, Busy, IInv, Safety, WorkerInv, PhotoOf
    <3>2. Fine(r, k[1])
      BY <3>1 DEF Settled, HasRow
    <3>3. jobs' = jobs \/ jobs' = [jobs EXCEPT ![k] = r]
      BY <2>5 DEF Acknowledge, Outcome
    <3> HIDE DEF k, r
    <3> QED  BY <2>2, <2>3, <3>1, <3>2, <3>3
  <2>6. CASE Reject(w)
    <3> DEFINE k == wk[w].job
               verdict == IF jobs[k].made + 1 < Attempts THEN "delayed" ELSE "failed"
               r == [jobs[k] EXCEPT !.st = verdict, !.made = @ + 1, !.owner = NoWorker]
    <3>1. k \in JobId /\ HasRow(k[1]) /\ jobs[k] \in JobRecord
      BY <1>3, <2>6 DEF Reject, Busy, IInv, TypeOK, Safety, SafeBeforeQueued, PhotoOf
    <3>2. Fine(r, k[1])
      <4>1. verdict # "completed" /\ r.st = verdict
        BY <3>1 DEF JobRecord
      <4> QED  BY <3>1, <4>1
    <3>3. jobs' = jobs \/ jobs' = [jobs EXCEPT ![k] = r]
      BY <2>6 DEF Reject, Outcome
    <3> HIDE DEF k, r
    <3> QED  BY <2>2, <2>3, <3>1, <3>2, <3>3
  <2>7. CASE WorkerCrash(w)
    <3> DEFINE k == wk[w].job
               r == [jobs[k] EXCEPT !.owner = NoWorker]
    <3>1. k \in JobId /\ jobs[k] \in JobRecord
      BY <1>3, <2>7 DEF WorkerCrash, IInv, TypeOK
    <3>2. Fine(r, k[1])
      BY <2>1, <3>1 DEF JobRecord
    <3>3. jobs' = jobs \/ jobs' = [jobs EXCEPT ![k] = r]
      BY <2>7, <3>1 DEF WorkerCrash, IInv, TypeOK
    <3> HIDE DEF k, r
    <3> QED  BY <2>2, <2>3, <3>1, <3>2, <3>3
  <2>8. CASE \/ Detect(w) \/ MakeVariants(w) \/ Commit(w) \/ Raises(w)
             \/ MarkFailed(w) \/ MarkSwallowed(w)
    BY <2>2, <2>8 DEF Detect, MakeVariants, Commit, Raises, MarkFailed, MarkSwallowed
  <2> QED  BY <2>4, <2>5, <2>6, <2>7, <2>8
<1>6. \A j \in JobId : j[1] \in Photo
  BY DEF JobId
<1>7. CompletedHasVerdict'
  BY <1>2, <1>5, <1>6 DEF CompletedHasVerdict
<1>8. SafeBeforeQueued'
  <2>1. \A p \in Photo : HasRow(p)' => p \in originals'
    BY <1>0, <1>2 DEF IInv, Safety, SafeBeforeQueued
  <2>2. \A j \in JobId : jobs'[j].st # "absent" => HasRow(j[1])'
    BY <1>2, <1>5, <1>6
  <2>3. \A p \in sweep' : HasRow(p)'
    BY <1>0, <1>2 DEF IInv, TypeOK, Safety, SafeBeforeQueued
  <2>4. \A x \in Worker \ {w} : Busy(x)' => HasRow(PhotoOf(x))'
    BY <1>0, <1>2, <1>3 DEF IInv, Safety, SafeBeforeQueued, Busy, PhotoOf
  <2>5. Busy(w)' => HasRow(PhotoOf(w))'
    <3>1. CASE \E j \in JobId : Take(w, j)
      <4>1. PICK j \in JobId : Take(w, j)
        BY <3>1
      <4>2. HasRow(j[1]) /\ (PhotoOf(w))' = j[1]
        BY <4>1 DEF Take, IInv, TypeOK, Safety, SafeBeforeQueued, PhotoOf
      <4> QED  BY <1>2, <1>6, <4>2
    <3>2. CASE \/ Detect(w) \/ MakeVariants(w) \/ Commit(w) \/ Raises(w)
               \/ MarkFailed(w) \/ MarkSwallowed(w)
      <4>1. Busy(w) /\ (PhotoOf(w))' = PhotoOf(w)
        BY <3>2 DEF Detect, MakeVariants, Commit, Raises, MarkFailed, MarkSwallowed, Goes,
           Busy, PhotoOf, IInv, TypeOK
      <4> QED  BY <1>2, <1>3, <4>1 DEF IInv, Safety, SafeBeforeQueued
    <3>3. CASE Acknowledge(w) \/ Reject(w) \/ WorkerCrash(w)
      BY <3>3 DEF Acknowledge, Reject, WorkerCrash, Outcome, Idle, Busy, IInv, TypeOK
    <3> QED  BY <3>1, <3>2, <3>3
  <2> QED  BY <2>1, <2>2, <2>3, <2>4, <2>5 DEF SafeBeforeQueued
<1>9. WorkerInv'
  <2>1. \A x \in Worker \ {w} : /\ wk'[x].pc = "ready" => PhotoOf(x)' \in variants'
                                /\ wk'[x].pc = "ack" => Settled(PhotoOf(x))'
    BY <1>0, <1>2, <1>3 DEF IInv, Safety, WorkerInv, Busy, PhotoOf
  <2>2. /\ wk'[w].pc = "ready" => PhotoOf(w)' \in variants'
        /\ wk'[w].pc = "ack" => Settled(PhotoOf(w))'
    <3>1. CASE \E j \in JobId : Take(w, j)
      <4>1. PICK j \in JobId : wk' = [wk EXCEPT ![w] = [pc |-> "detect", job |-> j]]
        BY <3>1 DEF Take
      <4>2. wk \in [Worker -> [pc: WorkerPc, job: JobId \cup {NoJob}]]
        BY DEF IInv, TypeOK
      <4>3. wk'[w].pc = "detect"
        BY <4>1, <4>2
      <4> QED  BY <4>3
    <3>2. CASE MakeVariants(w)
      BY <3>2 DEF MakeVariants, Goes, PhotoOf, IInv, TypeOK
    <3>3. CASE Commit(w)
      BY <1>3, <3>3 DEF Commit, Goes, PhotoOf, Settled, Busy, IInv, TypeOK
    <3>4. CASE Detect(w) \/ Raises(w) \/ MarkFailed(w) \/ MarkSwallowed(w)
      BY <3>4 DEF Detect, Raises, MarkFailed, MarkSwallowed, Goes, IInv, TypeOK
    <3>5. CASE Acknowledge(w) \/ Reject(w) \/ WorkerCrash(w)
      BY <3>5 DEF Acknowledge, Reject, WorkerCrash, Outcome, Idle, IInv, TypeOK
    <3> QED  BY <3>1, <3>2, <3>3, <3>4, <3>5
  <2> QED  BY <2>1, <2>2 DEF WorkerInv
<1>10. ProcessedIsGalleryReady'
  BY <1>0, <1>1 DEF IInv, Safety, ProcessedIsGalleryReady
<1>11. OneRowPerContent' /\ DuplicatesAreCovered'
  BY <1>0, <1>2 DEF IInv, Safety, OneRowPerContent, DuplicatesAreCovered
<1> QED
  BY <1>4, <1>7, <1>8, <1>9, <1>10, <1>11 DEF Safety

LEMMA IInvNext == IInv /\ [Next]_vars => IInv'
<1>1. IInv /\ [Next]_vars => TypeOK'
  BY TypeNext DEF IInv
<1>2. IInv /\ UNCHANGED vars => Safety'
  BY DEF IInv, Safety, vars, HandlerInv, SafeBeforeQueued, WorkerInv, HasRow, Settled, Busy,
     PhotoOf, ProcessedIsGalleryReady, OneRowPerContent, DuplicatesAreCovered,
     CompletedHasVerdict
<1> QED
  BY <1>1, <1>2, SafetyUpload, SafetyProducer, SafetyQueue, SafetyWorker DEF Next, IInv

LEMMA Inductive == Spec => []IInv
<1>1. Init => IInv
  BY TypeInit, SafetyInit DEF IInv
<1> QED
  BY <1>1, IInvNext, PTL DEF Spec

(* Storage, then row, then job: whatever fails, is lost or crashes, a job   *)
(* has a row and a row has its original.                                    *)
THEOREM QueuedIsSafe == Spec => []SafeBeforeQueued
BY Inductive, PTL DEF IInv, Safety

(* The status "processed" is never visible before the preview files are.    *)
THEOREM GalleryReady == Spec => []ProcessedIsGalleryReady
BY Inductive, PTL DEF IInv, Safety

(* Re-sent and raced uploads leave one row per content, ...                 *)
THEOREM Deduplication == Spec => []OneRowPerContent
BY Inductive, PTL DEF IInv, Safety

(* ... and an upload that was dropped as a duplicate has that row.          *)
THEOREM NothingDropped == Spec => []DuplicatesAreCovered
BY Inductive, PTL DEF IInv, Safety

(* A completed job record never stands in the way of the reconciler.        *)
THEOREM CompletionIsVerdict == Spec => []CompletedHasVerdict
BY Inductive, PTL DEF IInv, Safety

--------------------------------------------------------------------------------
(***************************************************************************)
(* The pipeline implements Album.                                          *)
(***************************************************************************)

(* What Album sees of a state, and of the next one: the entry of a content  *)
(* is the status of its only row.                                           *)
LEMMA EntryOfRow ==
  ASSUME OneRowPerContent
  PROVE  /\ \A p \in Photo : HasRow(p) => Entry(content[p]) = photo[p]
         /\ \A c \in Content : ~Taken(c) => Entry(c) = "absent"
<1>1. ASSUME NEW p \in Photo, HasRow(p) PROVE Entry(content[p]) = photo[p]
  <2> DEFINE q == CHOOSE q \in Photo : HasRow(q) /\ content[q] = content[p]
  <2>1. q \in Photo /\ HasRow(q) /\ content[q] = content[p]
    BY <1>1
  <2>2. q = p
    BY <1>1, <2>1 DEF OneRowPerContent
  <2> QED  BY <1>1, <2>2 DEF Entry, Taken
<1> QED
  BY <1>1 DEF Entry

LEMMA EntryOfNextRow ==
  ASSUME OneRowPerContent'
  PROVE  /\ \A p \in Photo : HasRow(p)' => Entry(content[p])' = photo'[p]
         /\ \A c \in Content : ~Taken(c)' => Entry(c)' = "absent"
<1>1. ASSUME NEW p \in Photo, HasRow(p)' PROVE Entry(content[p])' = photo'[p]
  <2> DEFINE q == CHOOSE q \in Photo : photo'[q] # "none" /\ content'[q] = content'[p]
  <2>1. q \in Photo /\ photo'[q] # "none" /\ content'[q] = content'[p]
    BY <1>1 DEF HasRow
  <2>2. q = p
    BY <1>1, <2>1 DEF OneRowPerContent, HasRow
  <2> QED  BY <1>1, <2>2 DEF Entry, Taken, HasRow
<1> QED
  BY <1>1 DEF Entry

(* A step that changes no row and renders nothing is invisible.             *)
LEMMA Invisible ==
  ASSUME UNCHANGED <<photo, content, variants>>
  PROVE  UNCHANGED AlbumView!vars
BY DEF AlbumView!vars, Entry, Taken, HasRow

(* A step that changes the status of one row changes one entry.             *)
LEMMA OneEntryChanges ==
  ASSUME IInv, IInv', NEW p \in Photo, HasRow(p)', UNCHANGED content,
         \A q \in Photo \ {p} : photo'[q] = photo[q]
  PROVE  /\ \A c \in Content \ {content[p]} : Entry(c)' = Entry(c)
         /\ Entry(content[p])' = photo'[p]
<1>0. OneRowPerContent /\ OneRowPerContent'
  BY DEF IInv, Safety
<1>1. Entry(content[p])' = photo'[p]
  BY <1>0, EntryOfNextRow
<1>2. ASSUME NEW c \in Content, c # content[p] PROVE Entry(c)' = Entry(c)
  <2>1. CASE Taken(c)
    <3>1. PICK q \in Photo : HasRow(q) /\ content[q] = c
      BY <2>1 DEF Taken
    <3>2. q # p /\ HasRow(q)' /\ photo'[q] = photo[q] /\ content'[q] = c
      BY <1>2, <3>1 DEF HasRow
    <3>3. Entry(c) = photo[q]
      BY <1>0, <3>1, EntryOfRow
    <3>4. Entry(content[q])' = photo'[q]
      BY <1>0, <3>2, EntryOfNextRow
    <3> QED  BY <3>1, <3>2, <3>3, <3>4 DEF Entry, Taken, HasRow
  <2>2. CASE ~Taken(c)
    <3>1. ~Taken(c)'
      BY <1>2, <2>2 DEF Taken, HasRow
    <3> QED  BY <1>0, <2>2, <3>1, EntryOfRow, EntryOfNextRow
  <2> QED  BY <2>1, <2>2
<1> QED
  BY <1>1, <1>2

(* A new row is an accepted photo; no other step of a handler shows.        *)
LEMMA UploadRefines == IInv /\ IInv' /\ UploadNext => [AlbumView!Next]_AlbumView!vars
<1> SUFFICES ASSUME IInv, IInv', NEW p \in Photo,
                    \/ Receive(p) \/ CheckDuplicate(p) \/ Store(p)
                    \/ Create(p) \/ CreateConflict(p) \/ Enqueue(p) \/ UploadFails(p)
             PROVE  [AlbumView!Next]_AlbumView!vars
  BY DEF UploadNext
<1>0. /\ TypeOK' /\ OneRowPerContent
      /\ content \in [Photo -> Content]
  BY DEF IInv, TypeOK, Safety
<1>1. /\ UNCHANGED <<content, variants>>
      /\ \A q \in Photo \ {p} : photo'[q] = photo[q]
      /\ \/ photo' = photo
         \/ ~Taken(content[p]) /\ photo'[p] = "ingested"
  BY <1>0, UploadEffect
<1>2. CASE photo' = photo
  BY <1>1, <1>2, Invisible
<1>3. CASE ~Taken(content[p]) /\ photo'[p] = "ingested"
  <2>1. HasRow(p)'
    BY <1>3 DEF HasRow
  <2>2. /\ \A c \in Content \ {content[p]} : Entry(c)' = Entry(c)
        /\ Entry(content[p])' = "ingested"
    BY <1>1, <1>3, <2>1, OneEntryChanges
  <2>3. Entry(content[p]) = "absent"
    BY <1>0, <1>3, EntryOfRow
  <2>4. AlbumView!Accept(content[p])
    BY <1>0, <1>1, <2>2, <2>3 DEF AlbumView!Accept
  <2> QED  BY <1>0, <2>4 DEF AlbumView!Next
<1> QED
  BY <1>1, <1>2, <1>3

(* The queue and its producers are not visible at all.                      *)
LEMMA QueueRefines ==
  IInv /\ (ProducerNext \/ QueueNext \/ UNCHANGED vars) => UNCHANGED AlbumView!vars
<1> SUFFICES ASSUME ProducerNext \/ QueueNext \/ UNCHANGED vars
             PROVE  UNCHANGED <<photo, content, variants>>
  BY Invisible
<1>1. CASE ProducerNext
  BY <1>1 DEF ProducerNext, SweepRead, SweepAdd, SweepAborts, Reprocess, upload
<1>2. CASE QueueNext
  BY <1>2 DEF QueueNext, JobNext, Backoff, ExpireCompleted, Stalled, LockLapses, LoseJob, upload
<1>3. CASE UNCHANGED vars
  BY <1>3 DEF vars
<1> QED
  BY <1>1, <1>2, <1>3

(* Making the variants renders an entry; a verdict settles one.             *)
LEMMA WorkerRefines == IInv /\ IInv' /\ WorkerNext => [AlbumView!Next]_AlbumView!vars
<1> SUFFICES ASSUME IInv, IInv', NEW w \in Worker,
                    \/ \E j \in JobId : Take(w, j)
                    \/ Detect(w) \/ MakeVariants(w) \/ Commit(w) \/ Raises(w)
                    \/ MarkFailed(w) \/ MarkSwallowed(w)
                    \/ Acknowledge(w) \/ Reject(w) \/ WorkerCrash(w)
             PROVE  [AlbumView!Next]_AlbumView!vars
  BY DEF WorkerNext
<1>0. /\ OneRowPerContent
      /\ content \in [Photo -> Content]
      /\ photo \in [Photo -> Status]
      /\ Busy(w) => PhotoOf(w) \in Photo /\ HasRow(PhotoOf(w))
      /\ wk[w].pc = "ready" => PhotoOf(w) \in variants
  BY DEF IInv, TypeOK, Safety, SafeBeforeQueued, WorkerInv, PhotoOf, JobId
<1>1. ASSUME UNCHANGED <<content, variants>>, NEW p \in Photo, HasRow(p),
             NEW v \in {"processed", "failed"}, photo' = [photo EXCEPT ![p] = v],
             v = "processed" => p \in variants
      PROVE  AlbumView!Next
  <2>1. /\ HasRow(p)' /\ photo'[p] = v
        /\ \A q \in Photo \ {p} : photo'[q] = photo[q]
    BY <1>0, <1>1 DEF HasRow
  <2>2. /\ \A c \in Content \ {content[p]} : Entry(c)' = Entry(c)
        /\ Entry(content[p])' = v
    BY <1>0, <1>1, <2>1, OneEntryChanges
  <2>3. Entry(content[p]) # "absent"
    BY <1>0, <1>1, EntryOfRow DEF Status, HasRow
  <2>4. AlbumView!Settle(content[p], v)
    BY <1>0, <1>1, <2>2, <2>3 DEF AlbumView!Settle
  <2> QED  BY <1>0, <1>1, <2>4 DEF AlbumView!Next, AlbumView!Verdicts
<1>2. CASE \/ \E j \in JobId : Take(w, j)
           \/ Detect(w) \/ MarkSwallowed(w) \/ Acknowledge(w) \/ Reject(w) \/ WorkerCrash(w)
  BY <1>2, Invisible
     DEF Take, Detect, MarkSwallowed, Acknowledge, Reject, WorkerCrash, Outcome, upload
<1>3. CASE MakeVariants(w)
  <2>0. PICK p \in Photo : p = PhotoOf(w) /\ HasRow(p)
    BY <1>0, <1>3 DEF MakeVariants, Goes, Busy
  <2>1. /\ p \in Photo /\ HasRow(p) /\ UNCHANGED <<photo, content>>
        /\ variants' = variants \cup {p}
    BY <2>0, <1>3 DEF MakeVariants, upload
  <2>2. PICK c \in Content : c = content[p]
    BY <1>0, <2>1
  <2>3. Entry(c) # "absent"
    BY <1>0, <2>1, <2>2, EntryOfRow DEF HasRow, Status
  <2>4. AlbumView!Render(c)
    BY <1>0, <2>1, <2>2, <2>3 DEF AlbumView!Render, Entry, Taken, HasRow
  <2>5. AlbumView!Next
    BY <2>4 DEF AlbumView!Next
  <2> QED  BY <2>5
<1>4. ASSUME Commit(w) \/ MarkFailed(w) PROVE AlbumView!Next
  <2>1. /\ UNCHANGED <<content, variants>>
        /\ PhotoOf(w) \in Photo /\ HasRow(PhotoOf(w))
    BY <1>0, <1>4 DEF Commit, MarkFailed, Goes, Busy, upload
  <2>2. CASE Commit(w)
    <3>1. /\ photo' = [photo EXCEPT ![PhotoOf(w)] = "processed"]
          /\ PhotoOf(w) \in variants
      BY <1>0, <2>2 DEF Commit, Goes
    <3> QED  BY <1>1, <2>1, <3>1
  <2>3. CASE MarkFailed(w)
    <3>1. photo' = [photo EXCEPT ![PhotoOf(w)] = "failed"]
      BY <2>3 DEF MarkFailed
    <3> QED  BY <1>1, <2>1, <3>1
  <2> QED  BY <1>4, <2>2, <2>3
<1>5. CASE Raises(w)
  <2>1. CASE UNCHANGED photo
    BY <1>5, <2>1, Invisible DEF Raises, upload
  <2>2. CASE wk[w].pc = "ready" /\ photo' = [photo EXCEPT ![PhotoOf(w)] = "processed"]
    BY <1>0, <1>1, <1>5, <2>2 DEF Raises, Busy, upload
  <2> QED  BY <1>5, <2>1, <2>2 DEF Raises
<1> QED
  BY <1>2, <1>3, <1>4, <1>5

(* The pipeline keeps every promise of the abstract album, for any number   *)
(* of uploads, contents and workers and any faults.                         *)
THEOREM Refinement == Spec => ImplementsAlbum
<1>1. Init => AlbumView!Init
  BY DEF Init, AlbumView!Init, Entry, Taken, HasRow
<1>2. IInv /\ IInv' /\ [Next]_vars => [AlbumView!Next]_AlbumView!vars
  BY UploadRefines, QueueRefines, WorkerRefines DEF Next
<1> QED
  BY <1>1, <1>2, Inductive, PTL DEF Spec, ImplementsAlbum, AlbumView!Spec
==============================================================================
