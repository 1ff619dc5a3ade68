---------------------------- MODULE PhotoPipeline ----------------------------
(***************************************************************************)
(* The way of a photo from a camera (FTP) or a browser to the gallery:     *)
(*                                                                         *)
(*   apps/ingest        STOR handler -> object storage -> photos row       *)
(*                      -> photo.process job; the reconciler sweep         *)
(*   apps/web           the browser upload and the reprocess button        *)
(*   packages/queue     the job options (attempts, failed jobs are kept)   *)
(*   apps/worker        the photo.process handler and its error path       *)
(*                                                                         *)
(* Every handler is cut at its external calls, because that is where       *)
(* another process can run, a call can fail (with or without having taken  *)
(* effect) and a process can die.  BullMQ itself is external: its job      *)
(* records are modelled as far as this code relies on them.                *)
(***************************************************************************)
EXTENDS Naturals, FiniteSets

CONSTANTS
  Photo,          \* one id per upload: uuidv7() gives every upload its own
  Content,        \* (event, sha256) pairs: what the unique constraint is over
  Worker,         \* photo.process consumers, each handling one job at a time
  NoWorker,       \* the lock of a job that nobody holds
  NoJob,          \* what an idle worker works on
  Attempts,       \* DEFAULT_JOB_OPTIONS.attempts
  MaxStalls,      \* BullMQ's maxStalledCount
  MaxReprocess,   \* bound: how often the reprocess button is pressed
  SweepTake,      \* rows one reconciler sweep reads (take)
  MaxFaults,      \* bound: worker crashes, expired locks and lost jobs
  MarkCanFail     \* may marking a photo "failed" fail too (database down)?

ASSUME BoundsAssumption ==
  /\ Attempts \in Nat \ {0} /\ MaxStalls \in Nat /\ MaxReprocess \in Nat
  /\ SweepTake \in Nat \ {0} /\ MaxFaults \in Nat /\ MarkCanFail \in BOOLEAN
ASSUME NullAssumption ==
  /\ NoWorker \notin Worker
  /\ NoJob \notin Photo \X (0..MaxReprocess)

VARIABLES
  pc,         \* pc[p]: where the upload handler of p is
  via,        \* via[p]: "ftp" or "web"
  content,    \* content[p]: the content hash of the uploaded file
  originals,  \* object storage: ids whose original is stored
  variants,   \* object storage: ids whose thumb, preview and watermarked
              \* files all exist
  photo,      \* photos table: photo[p] is the committed status of row p
  jobs,       \* Redis: the photo.process job records
  wk,         \* wk[w]: what worker w is doing
  sweep,      \* rows the running reconciler sweeps have read, not yet added
  round,      \* how often the reprocess button was pressed
  faults      \* crashes, lapses and losses so far

upload == <<pc, via, content>>
vars == <<pc, via, content, originals, variants, photo, jobs, wk, sweep, round, faults>>

(* A job id is the photo id, or the photo id with the stamp of a reprocess. *)
JobId == Photo \X (0..MaxReprocess)
First(p) == <<p, 0>>

Absent == [st |-> "absent", made |-> 0, stalls |-> 0, owner |-> NoWorker]
NewJob == [Absent EXCEPT !.st = "waiting"]
JobState == {"absent", "waiting", "active", "delayed", "completed", "failed"}
JobRecord == [st: JobState, made: Nat, stalls: Nat, owner: Worker \cup {NoWorker}]

InFlight == {"received", "checked", "stored", "created"}
UploadPc == InFlight \cup {"idle", "done", "duplicate", "failed"}
Status == {"none", "ingested", "processed", "failed"}
WorkerPc == {"idle", "detect", "txn", "ready", "ack", "except", "raise"}

Idle == [pc |-> "idle", job |-> NoJob]

HasRow(p) == photo[p] # "none"
Settled(p) == photo[p] \in {"processed", "failed"}
Taken(c) == \E q \in Photo : HasRow(q) /\ content[q] = c
Busy(w) == wk[w].pc # "idle"
PhotoOf(w) == wk[w].job[1]
HoldsLock(w) == /\ jobs[wk[w].job].st = "active"
                /\ jobs[wk[w].job].owner = w

(* The photos row is locked from the first UPDATE to the end of the         *)
(* transaction: nobody else gets past an UPDATE of that row.                *)
RowFree(p, w) == \A x \in Worker \ {w} : wk[x].pc \in {"txn", "ready"} => PhotoOf(x) # p

Init ==
  /\ pc = [p \in Photo |-> "idle"]
  /\ via \in [Photo -> {"ftp", "web"}]
  /\ content \in [Photo -> Content]
  /\ originals = {} /\ variants = {}
  /\ photo = [p \in Photo |-> "none"]
  /\ jobs = [j \in JobId |-> Absent]
  /\ wk = [w \in Worker |-> Idle]
  /\ sweep = {} /\ round = 0 /\ faults = 0

(***************************************************************************)
(* Queue.add / Queue.addBulk: a custom job id that exists in Redis, in any *)
(* state, makes the call a no-op.                                          *)
(***************************************************************************)
AddJobs(ids) ==
  jobs' = [j \in JobId |-> IF j \in ids /\ jobs[j].st = "absent" THEN NewJob ELSE jobs[j]]

--------------------------------------------------------------------------------
(* Uploads. *)

At(p, from, to) == pc[p] = from /\ pc' = [pc EXCEPT ![p] = to]

(* The STOR event of a camera's file, or the browser's POST body, is here.  *)
Receive(p) ==
  /\ At(p, "idle", "received")
  /\ UNCHANGED <<via, content, originals, variants, photo, jobs, wk, sweep, round, faults>>

(* Only the browser route looks for the row before it stores the file.      *)
CheckDuplicate(p) ==
  /\ via[p] = "web"
  /\ At(p, "received", IF Taken(content[p]) THEN "duplicate" ELSE "checked")
  /\ UNCHANGED <<via, content, originals, variants, photo, jobs, wk, sweep, round, faults>>

StoreOriginal(p) ==
  /\ pc[p] = (IF via[p] = "web" THEN "checked" ELSE "received")
  /\ originals' = originals \cup {p}
  /\ UNCHANGED <<variants, photo, jobs>>

(* Mutant: the row is written before its original is stored. *)
CreateRowFirst(p) ==
  /\ pc[p] \in {"received", "checked", "stored"}
  /\ ~Taken(content[p])
  /\ photo' = [photo EXCEPT ![p] = "ingested"]
  /\ UNCHANGED <<originals, variants, jobs>>

(* Mutant: no unique constraint on (event_id, content_hash). *)
CreateRowUnchecked(p) ==
  /\ pc[p] = "stored"
  /\ photo' = [photo EXCEPT ![p] = "ingested"]
  /\ UNCHANGED <<originals, variants, jobs>>

CreateRow(p) ==
  /\ pc[p] = "stored"
  /\ ~Taken(content[p])
  /\ photo' = [photo EXCEPT ![p] = "ingested"]
  /\ UNCHANGED <<originals, variants, jobs>>

EnqueueJob(p) ==
  /\ pc[p] = "created"
  /\ AddJobs({First(p)})
  /\ UNCHANGED <<originals, variants, photo>>

Store(p) ==
  /\ StoreOriginal(p)
  /\ pc' = [pc EXCEPT ![p] = "stored"]
  /\ UNCHANGED <<via, content, wk, sweep, round, faults>>

Create(p) ==
  /\ CreateRow(p)
  /\ pc' = [pc EXCEPT ![p] = "created"]
  /\ UNCHANGED <<via, content, wk, sweep, round, faults>>

(* Mutant: every error of the insert is taken for a duplicate. *)
AnyErrorIsDuplicate(p) ==
  /\ At(p, "stored", IF via[p] = "ftp" THEN "duplicate" ELSE "failed")
  /\ UNCHANGED <<via, content, originals, variants, photo, jobs, wk, sweep, round, faults>>

(* P2002: the FTP handler takes it for a camera retry, the browser route    *)
(* lets it escape (a 500).  The original just stored stays in storage.      *)
CreateConflict(p) ==
  /\ Taken(content[p])
  /\ At(p, "stored", IF via[p] = "ftp" THEN "duplicate" ELSE "failed")
  /\ UNCHANGED <<via, content, originals, variants, photo, jobs, wk, sweep, round, faults>>

Enqueue(p) ==
  /\ EnqueueJob(p)
  /\ pc' = [pc EXCEPT ![p] = "done"]
  /\ UNCHANGED <<via, content, wk, sweep, round, faults>>

(* A call throws, or the process dies: the handler is never resumed and     *)
(* nobody retries it.  The call may have taken effect all the same.         *)
UploadFails(p) ==
  /\ pc[p] \in InFlight
  /\ pc' = [pc EXCEPT ![p] = "failed"]
  /\ \/ UNCHANGED <<originals, variants, photo, jobs>>
     \/ StoreOriginal(p)
     \/ CreateRow(p)
     \/ EnqueueJob(p)
  /\ UNCHANGED <<via, content, wk, sweep, round, faults>>

UploadNext == \E p \in Photo :
  \/ Receive(p) \/ CheckDuplicate(p) \/ Store(p)
  \/ Create(p) \/ CreateConflict(p) \/ Enqueue(p) \/ UploadFails(p)

--------------------------------------------------------------------------------
(* The reconciler and the reprocess button. *)

Ingested == {p \in Photo : photo[p] = "ingested"}

(* findMany: the rows that were "ingested" for more than five minutes (time *)
(* is abstracted: any of them may be that old), at most SweepTake of them.  *)
SweepRead(batch) ==
  /\ batch # {} /\ Cardinality(batch) <= SweepTake
  /\ ~ (batch \subseteq sweep)
  /\ sweep' = sweep \cup batch
  /\ UNCHANGED <<upload, originals, variants, photo, jobs, wk, round, faults>>

(* Mutant: the sweep reads a stuck row but does not add its job. *)
SweepForgets(p) ==
  /\ p \in sweep
  /\ sweep' = sweep \ {p}
  /\ UNCHANGED <<upload, originals, variants, photo, jobs, wk, round, faults>>

(* The rows are added one by one, with whatever status they have by then.   *)
SweepAdd(p) ==
  /\ p \in sweep
  /\ AddJobs({First(p)})
  /\ sweep' = sweep \ {p}
  /\ UNCHANGED <<upload, originals, variants, photo, wk, round, faults>>

(* An add throws, or the ingest process dies: the rest of the batch is      *)
(* dropped until a later sweep reads it again.                              *)
SweepAborts ==
  /\ sweep # {}
  /\ faults < MaxFaults /\ faults' = faults + 1
  /\ sweep' = {}
  /\ UNCHANGED <<upload, originals, variants, photo, jobs, wk, round>>

(* POST .../reprocess: one new job id for every photo with a verdict.       *)
Reprocess ==
  /\ round < MaxReprocess
  /\ round' = round + 1
  /\ AddJobs({<<p, round + 1>> : p \in {q \in Photo : Settled(q)}})
  /\ UNCHANGED <<upload, originals, variants, photo, wk, sweep, faults>>

ProducerNext ==
  \/ \E batch \in SUBSET Ingested : SweepRead(batch)
  \/ \E p \in Photo : SweepAdd(p)
  \/ SweepAborts
  \/ Reprocess

--------------------------------------------------------------------------------
(* BullMQ's own transitions (external). *)

JobNext(j, from, job) ==
  /\ jobs[j].st = from
  /\ jobs' = [jobs EXCEPT ![j] = job]
  /\ UNCHANGED <<upload, originals, variants, photo, wk, sweep, round>>

(* The backoff of a failed attempt is over. *)
Backoff(j) == /\ JobNext(j, "delayed", [jobs[j] EXCEPT !.st = "waiting"])
              /\ UNCHANGED faults

(* removeOnComplete: a completed record goes after 24 hours; a failed one   *)
(* stays for good (removeOnFail: false).                                    *)
ExpireCompleted(j) == JobNext(j, "completed", Absent) /\ UNCHANGED faults

(* An active job whose lock has expired: back to waiting, or failed (with   *)
(* no handler run to notice) once it has stalled too often.                 *)
Stalled(j) ==
  /\ jobs[j].owner = NoWorker
  /\ JobNext(j, "active", [jobs[j] EXCEPT
        !.st = IF jobs[j].stalls < MaxStalls THEN "waiting" ELSE "failed",
        !.stalls = @ + 1])
  /\ UNCHANGED faults

(* Heartbeats do not get through for the lock's duration; the handler goes  *)
(* on without its lock.                                                     *)
LockLapses(j) ==
  /\ jobs[j].owner # NoWorker
  /\ faults < MaxFaults /\ faults' = faults + 1
  /\ JobNext(j, "active", [jobs[j] EXCEPT !.owner = NoWorker])

(* Redis loses a record: crash, restart, flush. *)
LoseJob(j) ==
  /\ jobs[j].st # "absent"
  /\ faults < MaxFaults /\ faults' = faults + 1
  /\ JobNext(j, jobs[j].st, Absent)

QueueNext == \E j \in JobId :
  Backoff(j) \/ ExpireCompleted(j) \/ Stalled(j) \/ LockLapses(j) \/ LoseJob(j)

--------------------------------------------------------------------------------
(* The worker's photo.process handler. *)

Goes(w, from, to) == wk[w].pc = from /\ wk' = [wk EXCEPT ![w].pc = to]

Take(w, j) ==
  /\ wk[w].pc = "idle"
  /\ jobs[j].st = "waiting"
  /\ wk' = [wk EXCEPT ![w] = [pc |-> "detect", job |-> j]]
  /\ jobs' = [jobs EXCEPT ![j] = [@ EXCEPT !.st = "active", !.owner = w]]
  /\ UNCHANGED <<upload, originals, variants, photo, sweep, round, faults>>

(* Mutant: the mark "processing" is committed on its own. *)
DetectCommits(w) ==
  /\ Goes(w, "detect", "txn")
  /\ PhotoOf(w) \in originals
  /\ RowFree(PhotoOf(w), w)
  /\ photo' = [photo EXCEPT ![PhotoOf(w)] = "processing"]
  /\ UNCHANGED <<upload, originals, variants, jobs, sweep, round, faults>>

(* The original is read and its faces are detected; then the transaction    *)
(* begins and its first UPDATE ("processing", never committed) locks the    *)
(* row.  Its face and match rows are the subject of Matching.tla.           *)
Detect(w) ==
  /\ Goes(w, "detect", "txn")
  /\ PhotoOf(w) \in originals
  /\ RowFree(PhotoOf(w), w)
  /\ UNCHANGED <<upload, originals, variants, photo, jobs, sweep, round, faults>>

MakeVariants(w) ==
  /\ Goes(w, "txn", "ready")
  /\ variants' = variants \cup {PhotoOf(w)}
  /\ UNCHANGED <<upload, originals, photo, jobs, sweep, round, faults>>

(* Mutant: the status is flipped before the variants are made. *)
CommitEarly(w) ==
  /\ wk[w].pc \in {"txn", "ready"}
  /\ wk' = [wk EXCEPT ![w].pc = "ack"]
  /\ photo' = [photo EXCEPT ![PhotoOf(w)] = "processed"]
  /\ UNCHANGED <<upload, originals, variants, jobs, sweep, round, faults>>

Commit(w) ==
  /\ Goes(w, "ready", "ack")
  /\ photo' = [photo EXCEPT ![PhotoOf(w)] = "processed"]
  /\ UNCHANGED <<upload, originals, variants, jobs, sweep, round, faults>>

(* Anything in process_photo raises; the transaction is rolled back, unless *)
(* the commit was done and only its answer got lost.                        *)
Raises(w) ==
  /\ wk[w].pc \in {"detect", "txn", "ready"}
  /\ wk' = [wk EXCEPT ![w].pc = "except"]
  /\ \/ UNCHANGED photo
     \/ wk[w].pc = "ready" /\ photo' = [photo EXCEPT ![PhotoOf(w)] = "processed"]
  /\ UNCHANGED <<upload, originals, variants, jobs, sweep, round, faults>>

(* Mutant: a failed attempt puts the photo back to "ingested". *)
MarkIngested(w) ==
  /\ Goes(w, "except", "raise")
  /\ RowFree(PhotoOf(w), w)
  /\ photo' = [photo EXCEPT ![PhotoOf(w)] = "ingested"]
  /\ UNCHANGED <<upload, originals, variants, jobs, sweep, round, faults>>

(* handle_photo's except clause, on a connection of its own. *)
MarkFailed(w) ==
  /\ Goes(w, "except", "raise")
  /\ RowFree(PhotoOf(w), w)
  /\ photo' = [photo EXCEPT ![PhotoOf(w)] = "failed"]
  /\ UNCHANGED <<upload, originals, variants, jobs, sweep, round, faults>>

(* ... whose own failure is logged and swallowed. *)
MarkSwallowed(w) ==
  /\ MarkCanFail
  /\ Goes(w, "except", "raise")
  /\ UNCHANGED <<upload, originals, variants, photo, jobs, sweep, round, faults>>

(* The handler's outcome reaches Redis only while the job's lock is held.   *)
Outcome(w, job) ==
  /\ wk' = [wk EXCEPT ![w] = Idle]
  /\ jobs' = IF HoldsLock(w) THEN [jobs EXCEPT ![wk[w].job] = job] ELSE jobs
  /\ UNCHANGED <<upload, originals, variants, photo, sweep, round, faults>>

Acknowledge(w) ==
  LET job == jobs[wk[w].job]
  IN  /\ wk[w].pc = "ack"
      /\ Outcome(w, [job EXCEPT !.st = "completed", !.owner = NoWorker])

(* Mutant: the handler does not re-raise, so that its failure counts as     *)
(* success.                                                                 *)
RejectSwallowed(w) ==
  LET job == jobs[wk[w].job]
  IN  /\ wk[w].pc = "raise"
      /\ Outcome(w, [job EXCEPT !.st = "completed", !.owner = NoWorker])

(* Mutant: failed attempts are not counted. *)
RejectUncounted(w) ==
  LET job == jobs[wk[w].job]
  IN  /\ wk[w].pc = "raise"
      /\ Outcome(w, [job EXCEPT !.st = "delayed", !.owner = NoWorker])

Reject(w) ==
  LET job == jobs[wk[w].job]
  IN  /\ wk[w].pc = "raise"
      /\ Outcome(w, [job EXCEPT !.st = IF job.made + 1 < Attempts THEN "delayed" ELSE "failed",
                                !.made = @ + 1, !.owner = NoWorker])

(* The process dies (its open transaction is rolled back) and is restarted; *)
(* the job stays active until its lock expires.                             *)
WorkerCrash(w) ==
  /\ Busy(w)
  /\ faults < MaxFaults /\ faults' = faults + 1
  /\ wk' = [wk EXCEPT ![w] = Idle]
  /\ jobs' = IF HoldsLock(w) THEN [jobs EXCEPT ![wk[w].job].owner = NoWorker] ELSE jobs
  /\ UNCHANGED <<upload, originals, variants, photo, sweep, round>>

WorkerNext == \E w \in Worker :
  \/ \E j \in JobId : Take(w, j)
  \/ Detect(w) \/ MakeVariants(w) \/ Commit(w) \/ Raises(w)
  \/ MarkFailed(w) \/ MarkSwallowed(w)
  \/ Acknowledge(w) \/ Reject(w) \/ WorkerCrash(w)

--------------------------------------------------------------------------------
Next == UploadNext \/ ProducerNext \/ QueueNext \/ WorkerNext

Spec == Init /\ [][Next]_vars

(***************************************************************************)
(* Fairness.  Uploads in progress, workers with a job, Redis' timers and   *)
(* the reconciler's interval all keep running; nothing obliges a camera to *)
(* send, a call to fail or a process to die.  A row that stays "ingested"  *)
(* is eventually five minutes old and, while at most SweepTake rows are,   *)
(* in the batch.                                                           *)
(***************************************************************************)
UploadProgress(p) == CheckDuplicate(p) \/ Store(p) \/ Create(p) \/ CreateConflict(p) \/ Enqueue(p)
SweepPicks(p) == \E batch \in SUBSET Ingested : p \in batch \ sweep /\ SweepRead(batch)
WorkerProgress(w) ==
  \/ \E j \in JobId : Take(w, j)
  \/ Detect(w) \/ MakeVariants(w) \/ Commit(w)
  \/ MarkFailed(w) \/ MarkSwallowed(w) \/ Acknowledge(w) \/ Reject(w)

Fairness ==
  /\ \A p \in Photo : /\ WF_vars(UploadProgress(p))
                      /\ WF_vars(SweepPicks(p))
                      /\ WF_vars(SweepAdd(p))
  /\ \A j \in JobId : WF_vars(Backoff(j)) /\ WF_vars(Stalled(j))
  /\ \A w \in Worker : WF_vars(WorkerProgress(w))

FairSpec == Spec /\ Fairness

--------------------------------------------------------------------------------
(* Every variable keeps its shape; a busy worker has a job. *)
TypeOK ==
  /\ pc \in [Photo -> UploadPc]
  /\ via \in [Photo -> {"ftp", "web"}]
  /\ content \in [Photo -> Content]
  /\ originals \subseteq Photo /\ variants \subseteq Photo
  /\ photo \in [Photo -> Status]
  /\ jobs \in [JobId -> JobRecord]
  /\ wk \in [Worker -> [pc: WorkerPc, job: JobId \cup {NoJob}]]
  /\ \A w \in Worker : Busy(w) <=> wk[w].job # NoJob
  /\ sweep \subseteq Photo
  /\ round \in 0..MaxReprocess /\ faults \in 0..MaxFaults

(* "The photo is safe in S3 + Postgres before we touch Redis"               *)
(* (process.ts:5-6): a row never exists without its original, and a job, a  *)
(* worker or a sweep never without its row, whichever calls failed, took    *)
(* effect unseen or lost their answer, and whatever Redis forgot.           *)
SafeBeforeQueued ==
  /\ \A p \in Photo : HasRow(p) => p \in originals
  /\ \A j \in JobId : jobs[j].st # "absent" => HasRow(j[1])
  /\ \A w \in Worker : Busy(w) => HasRow(PhotoOf(w))
  /\ \A p \in sweep : HasRow(p)

(* "processed" means "gallery-ready" (pipeline.py:178): whoever reads the   *)
(* status, at any point of any retry or reprocess, finds the preview files. *)
ProcessedIsGalleryReady == \A p \in Photo : photo[p] = "processed" => p \in variants

(* A camera that re-sends a file, or a browser that races it, never makes a *)
(* second row of the same content in the event (process.ts:63-64), ...      *)
OneRowPerContent ==
  \A p, q \in Photo : HasRow(p) /\ HasRow(q) /\ content[p] = content[q] => p = q

(* ... and an upload is only dropped as a duplicate when the row it would   *)
(* duplicate is there (process.ts:84-88, photos/route.ts:60-63).            *)
DuplicatesAreCovered ==
  \A p \in Photo : pc[p] = "duplicate" =>
     ~HasRow(p) /\ \E q \in Photo : HasRow(q) /\ content[q] = content[p]

(* A job that Redis shows as completed left its photo with a verdict.  Were *)
(* it otherwise the reconciler's add, a no-op as long as the completed      *)
(* record is kept, could not help a photo that is still "ingested".         *)
CompletedHasVerdict ==
  \A j \in JobId : jobs[j].st = "completed" => Settled(j[1])

(* The pipeline keeps the promises of Album.tla: the album entry of a       *)
(* content is the status of its row.                                        *)
Entry(c) == IF Taken(c) THEN photo[CHOOSE p \in Photo : HasRow(p) /\ content[p] = c] ELSE "absent"
AlbumView == INSTANCE Album WITH
  album <- [c \in Content |-> Entry(c)],
  rendered <- {c \in Content : \E p \in variants : content[p] = c}
ImplementsAlbum == AlbumView!Spec

(* The queue has failed the job of p without its handler, because its worker*)
(* died once too often, and keeps the record: to the reconciler it is there.*)
GivenUp(p) == jobs[First(p)].st = "failed" /\ jobs[First(p)].stalls > MaxStalls

(* "Any photo stuck in `ingested` for over 5 minutes gets re-enqueued"      *)
(* (reconciler.ts:2-4), so every row eventually gets a verdict, unless its  *)
(* job is given up and stays among the failed ones, "our dead-letter queue" *)
(* (queue/index.ts:65).                                                     *)
EveryRowSettles == \A p \in Photo : photo[p] = "ingested" ~> Settled(p) \/ GivenUp(p)

(* "Idempotent - safe to retry" (pipeline.py:117), "Retries are safe"       *)
(* (docs/design/03-ai-pipeline.md:102): a photo that was processed and left *)
(* by its worker does not end up failed for good because its job runs again.*)
LeftAlone(p) == \A w \in Worker : Busy(w) => PhotoOf(w) # p
RetriesAreSafe ==
  \A p \in Photo :
     [](photo[p] = "processed" /\ LeftAlone(p) => []<>(photo[p] = "processed"))

(* No job is retried, stalled or left behind for ever: it ends up completed *)
(* or among the failed jobs (or Redis forgets it).                          *)
EveryJobEnds ==
  \A j \in JobId : jobs[j].st \in {"waiting", "active", "delayed"}
                     ~> jobs[j].st \in {"completed", "failed", "absent"}
==============================================================================
