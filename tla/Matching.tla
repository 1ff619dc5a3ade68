------------------------------- MODULE Matching -------------------------------
(***************************************************************************)
(* How faces in photos and selfies of participants become gallery entries: *)
(*                                                                         *)
(*   apps/worker  enroll_selfie   (direction 1: a selfie against all faces)*)
(*                process_photo   (direction 2: a face against all selfies)*)
(*   apps/web     the selfie upload route                                  *)
(*   packages/core  setPhotoPublished / reportAndHidePhoto, getGallery     *)
(*                                                                         *)
(* The two handlers run in two threads of the worker and each is one       *)
(* Postgres transaction under READ COMMITTED: every statement sees what is *)
(* committed when it starts, and its effects appear at the commit.  So a   *)
(* transaction is a step per statement that reads, with what it has read   *)
(* and will write kept in its record, and one step that commits it.        *)
(* One event; participation and consent are the subject of other modules.  *)
(***************************************************************************)
EXTENDS Naturals, Sequences, FiniteSets

CONSTANTS
  Photo, Face, PhotoOf,         \* PhotoOf[f]: the photo that face f is in
  Participant, Selfie, Owner,   \* Owner[s]: whose selfie s is; selfies are
                                \* numbered in the order they are uploaded
  Usable,        \* the selfies with exactly one good face
  Score,         \* Score[f, s]: "auto", "pending" or "none"
  Identity,      \* ids for face_identities rows (bounds the enrollments),
                 \* numbered in the order they are made
  NoSelfie,      \* the selfie of an unused identity id
  NoPhoto,       \* the photo of an idle photo worker
  Attempts,      \* DEFAULT_JOB_OPTIONS.attempts
  MaxStalls,     \* BullMQ's maxStalledCount
  MaxRuns,       \* bound: pipeline runs of one photo (first run, reprocesses)
  MaxHides,      \* bound: how often photos are hidden
  MaxFaults,     \* bound: worker crashes
  PostCanFail,   \* may the selfie upload die half way?
  MarkCanFail    \* may marking an enrollment or a photo "failed" fail?

ASSUME InputAssumption ==
  /\ PhotoOf \in [Face -> Photo]
  /\ Selfie \subseteq Nat /\ Owner \in [Selfie -> Participant] /\ Usable \subseteq Selfie
  /\ Score \in [Face \X Selfie -> {"auto", "pending", "none"}]
  /\ Identity \subseteq Nat /\ NoSelfie \notin Selfie /\ NoPhoto \notin Photo
ASSUME BoundsAssumption ==
  /\ Attempts \in Nat \ {0}
  /\ {MaxStalls, MaxRuns, MaxHides, MaxFaults} \subseteq Nat
  /\ {PostCanFail, MarkCanFail} \subseteq BOOLEAN

VARIABLES
  status,      \* photos.status
  published,   \* photos.published
  faces,       \* committed faces rows
  from,        \* face_identities: the selfie each identity was made of
  active,      \* face_identities.active
  matches,     \* committed matches rows, as <<face, identity>>
  enrollment,  \* event_participants.enrollment_status
  post,        \* where the upload of each selfie is
  job,         \* selfie.enroll job records
  waiting,     \* the queue's wait list
  ptx,         \* the photo worker and its transaction
  etx,         \* the selfie worker and its transaction
  runs, hides, faults,           \* what the bounds count
  overlapped,  \* history: <<photo, identity>> whose transactions were open at once
  unseen       \* history: <<photo, identity>> where the photo was hidden when the
               \* enrollment looked for faces

db == <<status, published, faces, from, active, matches, enrollment>>
queue == <<post, job, waiting>>
history == <<overlapped, unseen>>
vars == <<db, queue, ptx, etx, runs, hides, faults, history>>

FacesOf(p) == {f \in Face : PhotoOf[f] = p}
Match == Face \X Identity
Unused == {i \in Identity : from[i] = NoSelfie}
OwnerOf(i) == Owner[from[i]]
MatchesOf(a) == {m \in matches : OwnerOf(m[2]) = a}
Similar(f, i) == Score[f, from[i]] # "none"

NoTx == [photo |-> NoPhoto, todo |-> {}, found |-> {}, ins |-> {}, failing |-> NoPhoto]
NoEnroll == [pc |-> "idle", sel |-> NoSelfie, off |-> {}, del |-> {}, new |-> {},
             ins |-> {}, met |-> {}, hid |-> {}]
PhotoTxOpen == ptx.photo # NoPhoto
EnrollTxOpen == etx.pc \in {"switched", "replaced", "matched"}
OpenPhotos == IF PhotoTxOpen THEN {ptx.photo} ELSE {}

Init ==
  /\ status = [p \in Photo |-> "ingested"]
  /\ published = [p \in Photo |-> TRUE]
  /\ faces = {} /\ from = [i \in Identity |-> NoSelfie] /\ active = {} /\ matches = {}
  /\ enrollment = [a \in Participant |-> "none"]
  /\ post = [s \in Selfie |-> "idle"]
  /\ job = [s \in Selfie |-> [st |-> "absent", made |-> 0, stalls |-> 0]]
  /\ waiting = <<>>
  /\ ptx = NoTx /\ etx = NoEnroll
  /\ runs = [p \in Photo |-> 0] /\ hides = 0 /\ faults = 0
  /\ overlapped = {} /\ unseen = {}

--------------------------------------------------------------------------------
(* The selfie upload route. *)

Posting(s, at, then) == post[s] = at /\ post' = [post EXCEPT ![s] = then]

(* The selfie is in object storage. A participant uploads one after another.*)
PostSelfie(s) ==
  /\ \A t \in Selfie : t < s /\ Owner[t] = Owner[s] => post[t] \in {"done", "failed"}
  /\ Posting(s, "idle", "stored")
  /\ UNCHANGED <<db, job, waiting, ptx, etx, runs, hides, faults, history>>

MarkProcessing(s) ==
  /\ Posting(s, "stored", "marked")
  /\ enrollment' = [enrollment EXCEPT ![Owner[s]] = "processing"]
  /\ UNCHANGED <<status, published, faces, from, active, matches, job, waiting,
                 ptx, etx, runs, hides, faults, history>>

(* Mutant: the newest job goes first. *)
AddSelfieJobFirst(s) ==
  /\ Posting(s, "marked", "done")
  /\ job' = [job EXCEPT ![s].st = "waiting"]
  /\ waiting' = <<s>> \o waiting
  /\ UNCHANGED <<db, ptx, etx, runs, hides, faults, history>>

AddSelfieJob(s) ==
  /\ Posting(s, "marked", "done")
  /\ job' = [job EXCEPT ![s].st = "waiting"]
  /\ waiting' = Append(waiting, s)
  /\ UNCHANGED <<db, ptx, etx, runs, hides, faults, history>>

(* The web process dies, or Postgres or Redis refuses the next call. *)
PostFails(s) ==
  /\ PostCanFail
  /\ post[s] \in {"stored", "marked"}
  /\ post' = [post EXCEPT ![s] = "failed"]
  /\ UNCHANGED <<db, job, waiting, ptx, etx, runs, hides, faults, history>>

PostNext == \E s \in Selfie :
  PostSelfie(s) \/ MarkProcessing(s) \/ AddSelfieJob(s) \/ PostFails(s)

--------------------------------------------------------------------------------
(* The selfie worker: handle_selfie and enroll_selfie. *)

EnrollSteps(at, then) == etx.pc = at /\ etx' = [etx EXCEPT !.pc = then]
Enrolling == Owner[etx.sel]

TakeSelfie ==
  /\ etx.pc = "idle" /\ waiting # <<>>
  /\ etx' = [NoEnroll EXCEPT !.pc = "detect", !.sel = Head(waiting)]
  /\ waiting' = Tail(waiting)
  /\ job' = [job EXCEPT ![Head(waiting)].st = "active"]
  /\ UNCHANGED <<db, post, ptx, runs, hides, faults, history>>

(* No face, several faces, no embedding: a verdict of its own; what an      *)
(* earlier selfie gave the participant stays.                               *)
RefuseSelfie ==
  /\ etx.sel \notin Usable
  /\ EnrollSteps("detect", "ack")
  /\ enrollment' = [enrollment EXCEPT ![Enrolling] = "failed"]
  /\ UNCHANGED <<status, published, faces, from, active, matches, queue,
                 ptx, runs, hides, faults, history>>

(* UPDATE face_identities: the ones that are committed now.                 *)
SwitchOff ==
  /\ etx.pc = "detect" /\ etx.sel \in Usable
  /\ etx' = [etx EXCEPT !.pc = "switched",
                        !.off = {i \in active : OwnerOf(i) = Enrolling},
                        !.met = OpenPhotos]
  /\ UNCHANGED <<db, queue, ptx, runs, hides, faults, history>>

(* DELETE FROM matches: the ones that are committed by then.                *)
DeleteMatches ==
  /\ etx.pc = "switched"
  /\ etx' = [etx EXCEPT !.pc = "replaced", !.del = MatchesOf(Enrolling)]
  /\ UNCHANGED <<db, queue, ptx, runs, hides, faults, history>>

(* Mutant: direction 1 looks for the status before the worker's.            *)
SearchableTooEarly == {f \in faces : published[PhotoOf[f]] /\ status[PhotoOf[f]] = "ingested"}

(* Faces direction 1 can see: committed, in a published, processed photo.   *)
Searchable == {f \in faces : published[PhotoOf[f]] /\ status[PhotoOf[f]] = "processed"}

MatchIdentity ==
  /\ etx.pc = "replaced"
  /\ \E i \in Unused :
       /\ \A j \in Unused : i <= j
       /\ etx' = [etx EXCEPT !.pc = "matched",
                             !.new = {i},
                             !.ins = {f \in Searchable : Score[f, etx.sel] # "none"} \X {i},
                             !.hid = {p \in Photo : ~published[p]}]
  /\ UNCHANGED <<db, queue, ptx, runs, hides, faults, history>>

(* Mutants: the old identity is left on; the old matches are left.          *)
EnrollKeepsIdentity ==
  /\ etx.pc = "matched"
  /\ from' = [i \in Identity |-> IF i \in etx.new THEN etx.sel ELSE from[i]]
  /\ active' = active \cup etx.new
  /\ matches' = (matches \ etx.del) \cup etx.ins
  /\ enrollment' = [enrollment EXCEPT ![Enrolling] = "ready"]
  /\ overlapped' = overlapped \cup (etx.met \X etx.new)
  /\ unseen' = unseen \cup (etx.hid \X etx.new)
  /\ UNCHANGED <<status, published, faces>>

EnrollKeepsMatches ==
  /\ etx.pc = "matched"
  /\ from' = [i \in Identity |-> IF i \in etx.new THEN etx.sel ELSE from[i]]
  /\ active' = (active \ etx.off) \cup etx.new
  /\ matches' = matches \cup etx.ins
  /\ enrollment' = [enrollment EXCEPT ![Enrolling] = "ready"]
  /\ overlapped' = overlapped \cup (etx.met \X etx.new)
  /\ unseen' = unseen \cup (etx.hid \X etx.new)
  /\ UNCHANGED <<status, published, faces>>

EnrollEffect ==
  /\ etx.pc = "matched"
  /\ from' = [i \in Identity |-> IF i \in etx.new THEN etx.sel ELSE from[i]]
  /\ active' = (active \ etx.off) \cup etx.new
  /\ matches' = (matches \ etx.del) \cup etx.ins
  /\ enrollment' = [enrollment EXCEPT ![Enrolling] = "ready"]
  /\ overlapped' = overlapped \cup (etx.met \X etx.new)
  /\ unseen' = unseen \cup (etx.hid \X etx.new)
  /\ UNCHANGED <<status, published, faces>>

CommitEnroll ==
  /\ EnrollEffect
  /\ etx' = [NoEnroll EXCEPT !.pc = "ack", !.sel = etx.sel]
  /\ UNCHANGED <<queue, ptx, runs, hides, faults>>

(* Anything in enroll_selfie raises; the commit may have been done.         *)
EnrollRaises ==
  /\ etx.pc \in {"detect", "switched", "replaced", "matched"}
  /\ etx' = [NoEnroll EXCEPT !.pc = "except", !.sel = etx.sel]
  /\ (UNCHANGED <<db, history>>) \/ EnrollEffect
  /\ UNCHANGED <<queue, ptx, runs, hides, faults>>

(* Mutants: the reason is written as the status; nothing is written.        *)
MarkEnrollReason ==
  /\ EnrollSteps("except", "raise")
  /\ enrollment' = [enrollment EXCEPT ![Enrolling] = "internal_error"]
  /\ UNCHANGED <<status, published, faces, from, active, matches, queue,
                 ptx, runs, hides, faults, history>>

MarkEnrollForgotten ==
  /\ EnrollSteps("except", "raise")
  /\ UNCHANGED <<db, queue, ptx, runs, hides, faults, history>>

MarkEnrollFailed ==
  /\ EnrollSteps("except", "raise")
  /\ enrollment' = [enrollment EXCEPT ![Enrolling] = "failed"]
  /\ UNCHANGED <<status, published, faces, from, active, matches, queue,
                 ptx, runs, hides, faults, history>>

MarkEnrollSwallowed ==
  /\ MarkCanFail
  /\ EnrollSteps("except", "raise")
  /\ UNCHANGED <<db, queue, ptx, runs, hides, faults, history>>

AcknowledgeSelfie ==
  /\ etx.pc = "ack"
  /\ etx' = NoEnroll
  /\ job' = [job EXCEPT ![etx.sel].st = "completed"]
  /\ UNCHANGED <<db, post, waiting, ptx, runs, hides, faults, history>>

RejectSelfie ==
  /\ etx.pc = "raise"
  /\ etx' = NoEnroll
  /\ job' = [job EXCEPT ![etx.sel].st = IF job[etx.sel].made + 1 < Attempts
                                              THEN "delayed" ELSE "failed",
                        ![etx.sel].made = @ + 1]
  /\ UNCHANGED <<db, post, waiting, ptx, runs, hides, faults, history>>

SelfieBackoff(s) ==
  /\ job[s].st = "delayed"
  /\ job' = [job EXCEPT ![s].st = "waiting"]
  /\ waiting' = Append(waiting, s)
  /\ UNCHANGED <<db, post, ptx, etx, runs, hides, faults, history>>

(* A job whose worker died goes back to the head of the wait list, once.    *)
SelfieStalled(s) ==
  /\ job[s].st = "active" /\ etx.sel # s
  /\ job' = [job EXCEPT ![s].st = IF job[s].stalls < MaxStalls THEN "waiting" ELSE "failed",
                        ![s].stalls = @ + 1]
  /\ waiting' = IF job[s].stalls < MaxStalls THEN <<s>> \o waiting ELSE waiting
  /\ UNCHANGED <<db, post, ptx, etx, runs, hides, faults, history>>

EnrollNext ==
  \/ TakeSelfie \/ RefuseSelfie \/ SwitchOff \/ DeleteMatches \/ MatchIdentity \/ CommitEnroll
  \/ EnrollRaises \/ MarkEnrollFailed \/ MarkEnrollSwallowed
  \/ AcknowledgeSelfie \/ RejectSelfie
  \/ \E s \in Selfie : SelfieBackoff(s) \/ SelfieStalled(s)

--------------------------------------------------------------------------------
(* The photo worker: the transaction of process_photo (its job, retries and *)
(* variants are the subject of PhotoPipeline.tla).                          *)

BeginPhoto(p) ==
  /\ ptx = NoTx
  /\ runs[p] < MaxRuns
  /\ runs' = [runs EXCEPT ![p] = @ + 1]
  /\ ptx' = [NoTx EXCEPT !.photo = p, !.todo = FacesOf(p)]
  /\ etx' = IF EnrollTxOpen THEN [etx EXCEPT !.met = @ \cup {p}] ELSE etx
  /\ UNCHANGED <<db, queue, hides, faults, history>>

(* One detected face: its row, and direction 2's SELECT of the identities   *)
(* that are active now, ...                                                 *)
ScanFace(f) ==
  /\ f \in ptx.todo /\ ptx.found = {}
  /\ ptx' = [ptx EXCEPT !.todo = @ \ {f},
                        !.found = {f} \X {i \in active : Similar(f, i)}]
  /\ UNCHANGED <<db, queue, etx, runs, hides, faults, history>>

(* ... and its INSERTs.  ON CONFLICT DO NOTHING skips a match that is there;*)
(* one that the open enrollment is deleting makes the insert wait for it.   *)
InsertMatches ==
  /\ ptx.found # {} /\ ptx.found \cap etx.del = {}
  /\ ptx' = [ptx EXCEPT !.found = {}, !.ins = @ \cup (ptx.found \ matches)]
  /\ UNCHANGED <<db, queue, etx, runs, hides, faults, history>>

PhotoEffect ==
  /\ PhotoTxOpen /\ ptx.todo = {} /\ ptx.found = {}
  /\ status' = [status EXCEPT ![ptx.photo] = "processed"]
  /\ faces' = faces \cup FacesOf(ptx.photo)
  /\ matches' = matches \cup ptx.ins
  /\ UNCHANGED <<published, from, active, enrollment>>

CommitPhoto ==
  /\ PhotoEffect
  /\ ptx' = NoTx
  /\ UNCHANGED <<queue, etx, runs, hides, faults, history>>

(* Anything in process_photo raises; the commit may have been done.         *)
PhotoRaises ==
  /\ PhotoTxOpen
  /\ ptx' = [NoTx EXCEPT !.failing = ptx.photo]
  /\ (UNCHANGED db) \/ PhotoEffect
  /\ UNCHANGED <<queue, etx, runs, hides, faults, history>>

(* The photo is marked in a transaction of its own, whatever was committed. *)
MarkPhotoFailed ==
  /\ ptx.failing # NoPhoto
  /\ ptx' = NoTx
  /\ status' = [status EXCEPT ![ptx.failing] = "failed"]
  /\ UNCHANGED <<published, faces, from, active, matches, enrollment, queue, etx,
                 runs, hides, faults, history>>

MarkPhotoSwallowed ==
  /\ MarkCanFail
  /\ ptx.failing # NoPhoto
  /\ ptx' = NoTx
  /\ UNCHANGED <<db, queue, etx, runs, hides, faults, history>>

PhotoNext ==
  \/ \E p \in Photo : BeginPhoto(p)
  \/ \E f \in Face : ScanFace(f)
  \/ InsertMatches \/ CommitPhoto
  \/ PhotoRaises \/ MarkPhotoFailed \/ MarkPhotoSwallowed

--------------------------------------------------------------------------------
(* Both threads live in one process: a crash rolls both transactions back.  *)
WorkerCrash ==
  /\ etx.pc # "idle" \/ ptx # NoTx
  /\ faults < MaxFaults /\ faults' = faults + 1
  /\ ptx' = NoTx /\ etx' = NoEnroll
  /\ UNCHANGED <<db, queue, runs, hides, history>>

(* The photographer hides a photo or brings it back; an attendee's report   *)
(* hides it.  The row lock of an open photo transaction makes both wait.    *)
SetPublished(p, value) ==
  /\ ptx.photo # p
  /\ published[p] # value
  /\ value = FALSE => hides < MaxHides
  /\ hides' = IF value THEN hides ELSE hides + 1
  /\ published' = [published EXCEPT ![p] = value]
  /\ UNCHANGED <<status, faces, from, active, matches, enrollment, queue, ptx, etx,
                 runs, faults, history>>

Next ==
  \/ PostNext \/ EnrollNext \/ PhotoNext \/ WorkerCrash
  \/ \E p \in Photo, value \in BOOLEAN : SetPublished(p, value)

Spec == Init /\ [][Next]_vars

(* The uploads in progress and the selfie worker keep running; nothing      *)
(* obliges anybody to upload or a call to fail.                             *)
EnrollProgress ==
  \/ TakeSelfie \/ RefuseSelfie \/ SwitchOff \/ DeleteMatches \/ MatchIdentity \/ CommitEnroll
  \/ MarkEnrollFailed \/ MarkEnrollSwallowed \/ AcknowledgeSelfie \/ RejectSelfie

Fairness ==
  /\ WF_vars(EnrollProgress)
  /\ \A s \in Selfie : /\ WF_vars(MarkProcessing(s) \/ AddSelfieJob(s))
                       /\ WF_vars(SelfieBackoff(s)) /\ WF_vars(SelfieStalled(s))

FairSpec == Spec /\ Fairness

--------------------------------------------------------------------------------
TypeOK ==
  /\ status \in [Photo -> {"ingested", "processed", "failed"}]
  /\ published \in [Photo -> BOOLEAN]
  /\ faces \subseteq Face
  /\ from \in [Identity -> Selfie \cup {NoSelfie}]
  /\ active \subseteq Identity \ Unused
  /\ matches \subseteq Match
  /\ enrollment \in [Participant -> {"none", "processing", "ready", "failed"}]
  /\ post \in [Selfie -> {"idle", "stored", "marked", "done", "failed"}]
  /\ job \in [Selfie -> [st: {"absent", "waiting", "active", "delayed", "completed", "failed"},
                         made: 0..Attempts, stalls: 0..(MaxStalls + 1)]]
  /\ waiting \in Seq(Selfie)
  /\ ptx \in [photo: Photo \cup {NoPhoto}, todo: SUBSET Face,
              found: SUBSET Match, ins: SUBSET Match, failing: Photo \cup {NoPhoto}]
  /\ etx \in [pc: {"idle", "detect", "switched", "replaced", "matched", "ack", "except", "raise"},
              sel: Selfie \cup {NoSelfie}, off: SUBSET Identity, del: SUBSET Match,
              new: SUBSET Identity, ins: SUBSET Match, met: SUBSET Photo, hid: SUBSET Photo]
  /\ runs \in [Photo -> 0..MaxRuns] /\ hides \in 0..MaxHides /\ faults \in 0..MaxFaults
  /\ overlapped \subseteq Photo \X Identity /\ unseen \subseteq Photo \X Identity

Shown(f) == published[PhotoOf[f]] /\ status[PhotoOf[f]] = "processed"

(* The photos getGallery returns. *)
Gallery(a) == {PhotoOf[m[1]] : m \in {n \in MatchesOf(a) :
                  Shown(n[1]) /\ Score[n[1], from[n[2]]] = "auto"}}

ActiveOf(a) == {i \in active : OwnerOf(i) = a}

(* A participant is matched by one selfie at a time, through retakes,       *)
(* retries of selfies enrolled before, and crashes; and "ready: enrolled"   *)
(* (schema.prisma:339) means that there is one.                             *)
OneIdentityWhenReady ==
  \A a \in Participant :
     /\ Cardinality(ActiveOf(a)) <= 1
     /\ enrollment[a] = "ready" => ActiveOf(a) # {}

(* The two directions together (enroll.py:77-80, pipeline.py:167-176) miss a*)
(* face of a shown photo only when the two transactions were open at the    *)
(* same time, or when the photo was hidden while the selfie was matched.    *)
GapsAreExplained ==
  \A f \in faces, i \in active : Shown(f) /\ Similar(f, i) =>
     \/ <<f, i>> \in matches
     \/ <<PhotoOf[f], i>> \in overlapped \cup unseen

(* A match of a selfie that has been replaced survives only when the photo's*)
(* transaction was open while the replacing selfie was enrolled.            *)
LeftoversAreExplained ==
  \A m \in matches : m[2] \notin active =>
     \E i \in Identity \ Unused : OwnerOf(i) = OwnerOf(m[2])
                                   /\ <<PhotoOf[m[1]], i>> \in overlapped

(* Was the job of this selfie tried before, or did its worker die?          *)
Retried(s) == job[s].made > 0 \/ job[s].stalls > 0

(* "Replace any previous enrollment (retakes)" (enroll.py:53): a participant*)
(* is matched by the newest of the selfies that were enrolled, whatever the *)
(* order of their uploads, jobs and crashes, unless an older one's job had  *)
(* to be retried.                                                           *)
NewestSelfieWins ==
  \A i \in active, j \in Identity \ Unused :
     OwnerOf(j) = OwnerOf(i) /\ from[j] > from[i] => Retried(from[i])

(* Nobody will ever report on the last upload: it died half way, or the     *)
(* queue gave its job up because the worker died too often.                 *)
Abandoned(a) ==
  LET mine == {s \in Selfie : Owner[s] = a /\ post[s] # "idle"}
  IN  /\ \A s \in mine : job[s].st \in {"absent", "completed", "failed"}
      /\ \E s \in mine : /\ \A t \in mine : t <= s
                        /\ (post[s] = "failed" \/ job[s].stalls > MaxStalls)

(* An upload that says "processing" is followed by a verdict, on this one or*)
(* a later one, unless the last is abandoned.                               *)
EnrollmentReports ==
  \A a \in Participant :
     enrollment[a] = "processing" ~> enrollment[a] \in {"ready", "failed"} \/ Abandoned(a)

Quiet == /\ ptx = NoTx /\ etx.pc = "idle"
         /\ \A s \in Selfie : job[s].st \in {"absent", "completed", "failed"}

(* "... and download - every photo they appear in" (README.md): once both   *)
(* workers are idle, the gallery has every shown photo with a sure match.   *)
EveryPhotoTheyAppearIn ==
  Quiet => \A f \in faces, i \in active :
             Shown(f) /\ Score[f, from[i]] = "auto" => PhotoOf[f] \in Gallery(OwnerOf(i))
==============================================================================
