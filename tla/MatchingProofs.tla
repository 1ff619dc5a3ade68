---------------------------- MODULE MatchingProofs ----------------------------
(***************************************************************************)
(* What Matching promises of galleries, for every number of participants,  *)
(* selfies, photos, faces, retries and crashes.                            *)
(***************************************************************************)
EXTENDS Matching, FiniteSetTheorems, TLAPS

JobState == [st: {"absent", "waiting", "active", "delayed", "completed", "failed"},
             made: 0..Attempts, stalls: 0..(MaxStalls + 1)]
PhotoTx == [photo: Photo \cup {NoPhoto}, todo: SUBSET Face,
            found: SUBSET Match, ins: SUBSET Match, failing: Photo \cup {NoPhoto}]
EnrollTx ==
  [pc: {"idle", "detect", "switched", "replaced", "matched", "ack", "except", "raise"},
   sel: Selfie \cup {NoSelfie}, off: SUBSET Identity, del: SUBSET Match,
   new: SUBSET Identity, ins: SUBSET Match, met: SUBSET Photo, hid: SUBSET Photo]

LEMMA Bounds ==
  /\ Attempts \in Nat \ {0} /\ MaxStalls \in Nat /\ MaxRuns \in Nat
  /\ MaxHides \in Nat /\ MaxFaults \in Nat
BY BoundsAssumption

(* TypeOK, taken apart: what is committed, the queue, the two transactions. *)
DbTypes ==
  /\ status \in [Photo -> {"ingested", "processed", "failed"}]
  /\ published \in [Photo -> BOOLEAN]
  /\ faces \subseteq Face
  /\ from \in [Identity -> Selfie \cup {NoSelfie}]
  /\ active \subseteq Identity \ Unused
  /\ matches \subseteq Match
  /\ overlapped \subseteq Photo \X Identity /\ unseen \subseteq Photo \X Identity
Verdicts == enrollment \in [Participant -> {"none", "processing", "ready", "failed"}]
QueueTypes ==
  /\ post \in [Selfie -> {"idle", "stored", "marked", "done", "failed"}]
  /\ job \in [Selfie -> JobState]
  /\ waiting \in Seq(Selfie)
Counted == runs \in [Photo -> 0..MaxRuns] /\ hides \in 0..MaxHides /\ faults \in 0..MaxFaults

Parts == /\ DbTypes /\ Verdicts /\ QueueTypes /\ Counted
         /\ ptx \in PhotoTx /\ etx \in EnrollTx

LEMMA TypeParts == (TypeOK <=> Parts) /\ (TypeOK' <=> Parts')
<1> USE DEF TypeOK, Parts, DbTypes, Verdicts, QueueTypes, Counted, PhotoTx, EnrollTx, JobState
<1>1. TypeOK <=> Parts
  OBVIOUS
<1>2. TypeOK' <=> Parts'
  OBVIOUS
<1>3. QED
  BY <1>1, <1>2

LEMMA SameDb ==
  ASSUME DbTypes, UNCHANGED <<status, published, faces, from, active, matches, history>>
  PROVE  DbTypes'
BY DEF DbTypes, Unused, history

(* A job that is not over has attempts left and has stalled no more often   *)
(* than it may; the wait list names jobs that wait, each once; the selfie   *)
(* worker holds a job that is active.                                       *)
Unfinished == {"absent", "waiting", "active", "delayed"}

JobsSound ==
  \A s \in Selfie : /\ post[s] # "done" => job[s].st = "absent"
                    /\ job[s].st \in Unfinished
                         => job[s].made < Attempts /\ job[s].stalls <= MaxStalls
ListSound ==
  /\ \A n \in 1..Len(waiting) : job[waiting[n]].st = "waiting"
  /\ \A m, n \in 1..Len(waiting) : waiting[m] = waiting[n] => m = n
Held == etx.pc # "idle" => etx.sel \in Selfie /\ job[etx.sel].st = "active"

Typed == TypeOK /\ JobsSound /\ ListSound /\ Held

(* Nobody has uploaded anything yet.                                        *)
LEMMA InitTyped == Init => Typed
<1> SUFFICES ASSUME Init PROVE Typed
  OBVIOUS
<1> USE InputAssumption, BoundsAssumption
<1>1. ptx \in PhotoTx /\ etx \in EnrollTx
  BY DEF Init, NoTx, NoEnroll, PhotoTx, EnrollTx
<1>2. [st |-> "absent", made |-> 0, stalls |-> 0] \in JobState
  BY DEF JobState
<1>3. waiting \in Seq(Selfie)
  BY SMT DEF Init
<1>4. QueueTypes
  BY <1>2, <1>3 DEF Init, QueueTypes
<1>5. Counted
  BY DEF Init, Counted
<1>6. DbTypes /\ Verdicts
  BY DEF Init, DbTypes, Verdicts, Match
<1>7. JobsSound /\ ListSound /\ Held
  BY DEF Init, JobsSound, ListSound, Held, Unfinished, NoEnroll
<1>8. QED
  BY <1>1, <1>4, <1>5, <1>6, <1>7, TypeParts DEF Typed, Parts

(* The job of one selfie becomes another record.                            *)
LEMMA JobMoved ==
  ASSUME QueueTypes, NEW s \in Selfie, NEW new \in JobState,
         job' = [job EXCEPT ![s] = new]
  PROVE  /\ job' \in [Selfie -> JobState]
         /\ job'[s] = new
         /\ \A t \in Selfie : t # s => job'[t] = job[t]
BY DEF QueueTypes

(* A job that is put on the wait list: at its end by an upload or after a   *)
(* backoff, at its head after a stall.                                      *)
LEMMA Listed ==
  ASSUME QueueTypes, ListSound, NEW s \in Selfie, NEW new \in JobState,
         job' = [job EXCEPT ![s] = new], new.st = "waiting", job[s].st # "waiting",
         waiting' = Append(waiting, s) \/ waiting' = <<s>> \o waiting
  PROVE  waiting' \in Seq(Selfie) /\ ListSound'
<1>1. /\ job' \in [Selfie -> JobState]
      /\ job'[s] = new
      /\ \A t \in Selfie : t # s => job'[t] = job[t]
  BY JobMoved
<1>2. /\ waiting \in Seq(Selfie) /\ Len(waiting) \in Nat
      /\ \A n \in 1..Len(waiting) : waiting[n] \in Selfie /\ waiting[n] # s
  BY DEF QueueTypes, ListSound
<1>3. CASE waiting' = Append(waiting, s)
  <2>1. /\ waiting' \in Seq(Selfie) /\ Len(waiting') = Len(waiting) + 1
        /\ waiting'[Len(waiting) + 1] = s
        /\ \A n \in 1..Len(waiting) : waiting'[n] = waiting[n]
    BY <1>2, <1>3
  <2>2. QED
    BY <1>1, <1>2, <2>1, SMTT(30) DEF ListSound
<1>4. CASE waiting' = <<s>> \o waiting
  <2>1. /\ waiting' \in Seq(Selfie) /\ Len(waiting') = Len(waiting) + 1
        /\ waiting'[1] = s
        /\ \A n \in 2..(Len(waiting) + 1) : waiting'[n] = waiting[n - 1]
    BY <1>2, <1>4
  <2>2. \A n \in 2..(Len(waiting) + 1) : n - 1 \in 1..Len(waiting) /\ waiting'[n] # s
                                        /\ job'[waiting'[n]].st = "waiting"
    BY <1>1, <1>2, <2>1 DEF ListSound
  <2>3. \A m, n \in 2..(Len(waiting) + 1) : waiting'[m] = waiting'[n] => m = n
    BY <1>2, <2>1, <2>2 DEF ListSound
  <2>4. 1..Len(waiting') = {1} \cup 2..(Len(waiting) + 1)
    BY <1>2, <2>1
  <2>5. QED
    BY <1>1, <2>1, <2>2, <2>3, <2>4 DEF ListSound
<1>5. QED
  BY <1>3, <1>4

(* The selfie route moves one upload on and adds at most its job.           *)
LEMMA PostTyped ==
  ASSUME Typed, NEW s \in Selfie,
         PostSelfie(s) \/ MarkProcessing(s) \/ AddSelfieJob(s) \/ PostFails(s)
  PROVE  Typed'
<1> USE InputAssumption
<1>1. /\ DbTypes /\ Verdicts /\ QueueTypes /\ Counted /\ JobsSound /\ ListSound /\ Held
      /\ ptx \in PhotoTx /\ etx \in EnrollTx
  BY TypeParts DEF Typed, Parts
<1>2. DbTypes'
  BY <1>1, SameDb DEF PostSelfie, MarkProcessing, AddSelfieJob, PostFails, db, history
<1>3. Verdicts'
  BY <1>1 DEF PostSelfie, MarkProcessing, AddSelfieJob, PostFails, db, Verdicts
<1>4. Counted' /\ ptx' = ptx /\ etx' = etx
  BY <1>1 DEF PostSelfie, MarkProcessing, AddSelfieJob, PostFails, Counted
<1>5. post' \in [Selfie -> {"idle", "stored", "marked", "done", "failed"}]
  BY <1>1 DEF PostSelfie, MarkProcessing, AddSelfieJob, PostFails, Posting, QueueTypes
<1>6. post[s] # "done" /\ \A t \in Selfie : t # s => post'[t] = post[t]
  BY <1>1 DEF PostSelfie, MarkProcessing, AddSelfieJob, PostFails, Posting, QueueTypes
<1>7. QueueTypes' /\ JobsSound' /\ ListSound' /\ Held'
  <2>1. CASE AddSelfieJob(s)
    <3> DEFINE new == [job[s] EXCEPT !.st = "waiting"]
    <3>1. job[s] \in JobState
      BY <1>1 DEF QueueTypes
    <3>2. new \in JobState /\ new.st = "waiting" /\ new.made = job[s].made
          /\ new.stalls = job[s].stalls
      BY <3>1 DEF JobState
    <3>3. job' = [job EXCEPT ![s] = new]
      BY <2>1 DEF AddSelfieJob
    <3> HIDE DEF new
    <3>4. job[s].st = "absent"
      BY <1>1, <1>6 DEF JobsSound
    <3>5. /\ job' \in [Selfie -> JobState]
          /\ job'[s] = new
          /\ \A t \in Selfie : t # s => job'[t] = job[t]
      BY <1>1, <3>2, <3>3, JobMoved
    <3>6. waiting' \in Seq(Selfie) /\ ListSound'
      BY <1>1, <2>1, <3>2, <3>3, <3>4, Listed DEF AddSelfieJob
    <3>7. post'[s] = "done"
      BY <1>1, <2>1 DEF AddSelfieJob, Posting, QueueTypes
    <3>8. JobsSound'
      BY <1>1, <1>6, <3>2, <3>4, <3>5, <3>7, ZenonT(60) DEF JobsSound, Unfinished
    <3>9. Held'
      BY <1>1, <1>4, <3>4, <3>5 DEF Held
    <3>10. QED
      BY <1>5, <3>5, <3>6, <3>8, <3>9 DEF QueueTypes
  <2>2. CASE ~AddSelfieJob(s)
    <3>1. UNCHANGED <<job, waiting>>
      BY <2>2 DEF PostSelfie, MarkProcessing, PostFails
    <3>2. JobsSound'
      BY <1>1, <1>6, <3>1 DEF JobsSound
    <3>3. QED
      BY <1>1, <1>4, <1>5, <3>1, <3>2 DEF QueueTypes, ListSound, Held
  <2>3. QED
    BY <2>1, <2>2
<1>8. QED
  BY <1>1, <1>2, <1>3, <1>4, <1>7, TypeParts DEF Typed, Parts

(* The job of a selfie that is neither waiting nor still to come changes,   *)
(* and waits again or is off the list.                                      *)
LEMMA JobStep ==
  ASSUME QueueTypes, JobsSound, ListSound, NEW s \in Selfie, NEW new \in JobState,
         job' = [job EXCEPT ![s] = new], job[s].st \notin {"absent", "waiting"},
         new.st \in Unfinished => new.made < Attempts /\ new.stalls <= MaxStalls,
         post' = post,
         \/ waiting' = waiting
         \/ new.st = "waiting" /\ (waiting' = Append(waiting, s) \/ waiting' = <<s>> \o waiting)
  PROVE  /\ QueueTypes' /\ JobsSound' /\ ListSound'
         /\ job'[s] = new
         /\ \A t \in Selfie : t # s => job'[t] = job[t]
<1>1. /\ job' \in [Selfie -> JobState]
      /\ job'[s] = new
      /\ \A t \in Selfie : t # s => job'[t] = job[t]
  BY JobMoved
<1>2. waiting' \in Seq(Selfie) /\ ListSound'
  <2>1. CASE waiting' = waiting
    <3>1. waiting \in Seq(Selfie) /\ \A n \in 1..Len(waiting) : waiting[n] \in Selfie \ {s}
      BY DEF QueueTypes, ListSound
    <3>2. QED
      BY <1>1, <2>1, <3>1 DEF ListSound
  <2>2. CASE waiting' # waiting
    BY <2>2, Listed
  <2>3. QED
    BY <2>1, <2>2
<1>3. JobsSound'
  BY <1>1 DEF JobsSound
<1>4. QED
  BY <1>1, <1>2, <1>3 DEF QueueTypes

(* The statements of enroll_selfie and what the worker writes about it.     *)
EnrollStatement ==
  \/ RefuseSelfie \/ SwitchOff \/ DeleteMatches \/ MatchIdentity \/ CommitEnroll
  \/ EnrollRaises \/ MarkEnrollFailed \/ MarkEnrollSwallowed

(* The commit of an enrollment keeps every identity that was made.          *)
LEMMA EffectDb ==
  ASSUME DbTypes, Verdicts, etx \in EnrollTx, etx.sel \in Selfie, EnrollEffect
  PROVE  DbTypes' /\ Verdicts'
<1> USE InputAssumption
<1>1. /\ etx.new \subseteq Identity /\ etx.ins \subseteq Match /\ etx.met \subseteq Photo
      /\ etx.hid \subseteq Photo
  BY DEF EnrollTx
<1>2. from' \in [Identity -> Selfie \cup {NoSelfie}]
  BY DEF EnrollEffect, DbTypes
<1>3. active' \subseteq Identity \ Unused'
  BY <1>1 DEF EnrollEffect, DbTypes, Unused
<1>4. matches' \subseteq Match
  BY <1>1 DEF EnrollEffect, DbTypes
<1>5. overlapped' \subseteq Photo \X Identity /\ unseen' \subseteq Photo \X Identity
  BY <1>1 DEF EnrollEffect, DbTypes
<1>6. Verdicts'
  BY DEF EnrollEffect, Verdicts, Enrolling
<1>7. QED
  BY <1>2, <1>3, <1>4, <1>5, <1>6 DEF EnrollEffect, DbTypes

(* A statement of the enrollment leaves the jobs alone.                     *)
LEMMA StatementTyped ==
  ASSUME Typed, EnrollStatement
  PROVE  Typed'
<1> USE InputAssumption
<1>1. /\ DbTypes /\ Verdicts /\ QueueTypes /\ Counted /\ JobsSound /\ ListSound /\ Held
      /\ ptx \in PhotoTx /\ etx \in EnrollTx
  BY TypeParts DEF Typed, Parts
<1>2. UNCHANGED <<queue, ptx, runs, hides, faults>>
  BY DEF EnrollStatement, RefuseSelfie, SwitchOff, DeleteMatches, MatchIdentity,
         CommitEnroll, EnrollRaises, MarkEnrollFailed, MarkEnrollSwallowed
<1>3. etx.pc \notin {"idle", "ack", "raise"} /\ etx'.sel = etx.sel /\ etx'.pc # "idle"
  BY <1>1 DEF EnrollStatement, RefuseSelfie, SwitchOff, DeleteMatches, MatchIdentity,
              CommitEnroll, EnrollEffect, EnrollRaises, MarkEnrollFailed,
              MarkEnrollSwallowed, EnrollSteps, EnrollTx, NoEnroll
<1>4. Held' /\ QueueTypes' /\ JobsSound' /\ ListSound' /\ Counted'
  BY <1>1, <1>2, <1>3 DEF Held, QueueTypes, JobsSound, ListSound, Counted, queue
<1>5. etx.sel \in Selfie /\ Enrolling \in Participant
  BY <1>1, <1>3 DEF Held, Enrolling
<1>6. etx' \in EnrollTx
  <2>1. CASE RefuseSelfie \/ MarkEnrollFailed \/ MarkEnrollSwallowed
    BY <1>1, <2>1 DEF RefuseSelfie, MarkEnrollFailed, MarkEnrollSwallowed, EnrollSteps, EnrollTx
  <2>2. CASE SwitchOff \/ DeleteMatches
    <3>1. /\ {i \in active : OwnerOf(i) = Enrolling} \subseteq Identity
          /\ MatchesOf(Enrolling) \subseteq Match /\ OpenPhotos \subseteq Photo
      <4>1. {i \in active : OwnerOf(i) = Enrolling} \subseteq Identity
        BY <1>1, Zenon DEF DbTypes
      <4>2. MatchesOf(Enrolling) \subseteq Match
        BY <1>1 DEF DbTypes, MatchesOf
      <4>3. OpenPhotos \subseteq Photo
        BY <1>1 DEF OpenPhotos, PhotoTx, PhotoTxOpen
      <4>4. QED
        BY <4>1, <4>2, <4>3
    <3>2. QED
      BY <1>1, <2>2, <3>1 DEF SwitchOff, DeleteMatches, EnrollTx
  <2>3. CASE MatchIdentity
    <3> DEFINE seen == {f \in Searchable : Score[f, etx.sel] # "none"}
               hidden == {p \in Photo : ~published[p]}
    <3>1. seen \subseteq Face /\ hidden \subseteq Photo
      BY <1>1, Zenon DEF Searchable, DbTypes
    <3>2. PICK i \in Unused : etx' = [etx EXCEPT !.pc = "matched", !.new = {i},
                                                !.ins = seen \X {i}, !.hid = hidden]
      BY <2>3 DEF MatchIdentity
    <3> HIDE DEF seen, hidden
    <3>3. {i} \subseteq Identity /\ seen \X {i} \subseteq Match
      BY <3>1, <3>2 DEF Unused, Match
    <3>4. QED
      BY <1>1, <3>1, <3>2, <3>3 DEF EnrollTx
  <2>4. CASE CommitEnroll \/ EnrollRaises
    BY <1>1, <2>4, ZenonT(60) DEF CommitEnroll, EnrollRaises, NoEnroll, EnrollTx
  <2>5. QED
    BY <2>1, <2>2, <2>3, <2>4 DEF EnrollStatement
<1>7. DbTypes' /\ Verdicts'
  <2>1. CASE EnrollEffect
    BY <1>1, <1>5, <2>1, EffectDb
  <2>2. CASE ~EnrollEffect
    <3>1. UNCHANGED <<status, published, faces, from, active, matches, history>>
      BY <2>2 DEF EnrollStatement, RefuseSelfie, SwitchOff, DeleteMatches, MatchIdentity,
                  CommitEnroll, EnrollRaises, MarkEnrollFailed, MarkEnrollSwallowed, db
    <3>2. \/ enrollment' = enrollment
          \/ enrollment' = [enrollment EXCEPT ![Enrolling] = "failed"]
      BY <2>2 DEF EnrollStatement, RefuseSelfie, SwitchOff, DeleteMatches, MatchIdentity,
                  CommitEnroll, EnrollRaises, MarkEnrollFailed, MarkEnrollSwallowed, db
    <3>3. Verdicts'
      BY <1>1, <1>5, <3>2 DEF Verdicts
    <3>4. QED
      BY <1>1, <3>1, <3>3, SameDb
  <2>3. QED
    BY <2>1, <2>2
<1>8. QED
  BY <1>1, <1>2, <1>4, <1>6, <1>7, TypeParts DEF Typed, Parts

(* An attempt or a stall more is still a number.                            *)
LEMMA OneMore ==
  ASSUME NEW r \in JobState
  PROVE  /\ r.made < Attempts => r.made + 1 \in 0..Attempts
         /\ r.stalls <= MaxStalls => r.stalls + 1 \in 0..(MaxStalls + 1)
         /\ r.stalls < MaxStalls => r.stalls + 1 <= MaxStalls
<1>1. r.made \in 0..Attempts /\ r.stalls \in 0..(MaxStalls + 1)
  BY DEF JobState
<1>2. QED
  BY <1>1, Bounds

(* The records that RejectSelfie and SelfieStalled write.                   *)
TriedOnceMore(r, st, n) == [r EXCEPT !.st = st, !.made = n]
StalledOnceMore(r, st, n) == [r EXCEPT !.st = st, !.stalls = n]

(* A job that is tried once more, within its attempts.                      *)
LEMMA TriedRecord ==
  ASSUME NEW r \in JobState, NEW st \in {"delayed", "failed"}, NEW n \in 0..Attempts
  PROVE  /\ TriedOnceMore(r, st, n) \in JobState
         /\ TriedOnceMore(r, st, n).st = st /\ TriedOnceMore(r, st, n).made = n
         /\ TriedOnceMore(r, st, n).stalls = r.stalls
BY DEF JobState, TriedOnceMore

(* A job that has stalled once more.                                        *)
LEMMA StalledRecord ==
  ASSUME NEW r \in JobState, NEW st \in {"waiting", "failed"}, NEW n \in 0..(MaxStalls + 1)
  PROVE  /\ StalledOnceMore(r, st, n) \in JobState
         /\ StalledOnceMore(r, st, n).st = st /\ StalledOnceMore(r, st, n).made = r.made
         /\ StalledOnceMore(r, st, n).stalls = n
BY DEF JobState, StalledOnceMore

(* The record of a job that the worker acknowledges or rejects, ...         *)
LEMMA GivenBack ==
  ASSUME QueueTypes, JobsSound, Held, AcknowledgeSelfie \/ RejectSelfie
  PROVE  /\ etx.sel \in Selfie /\ job[etx.sel].st = "active"
         /\ etx' = NoEnroll /\ waiting' = waiting
         /\ \E new \in JobState :
              /\ job' = [job EXCEPT ![etx.sel] = new]
              /\ new.st \in Unfinished => new.made < Attempts /\ new.stalls <= MaxStalls
              /\ new.st \in {"completed", "failed"} \/ (new.st = "delayed" /\ new.made > 0)
              /\ Retried(etx.sel) => new.made > 0 \/ new.stalls > 0
<1> DEFINE s == etx.sel
<1>1. s \in Selfie /\ job[s].st = "active" /\ etx' = NoEnroll /\ waiting' = waiting
  BY DEF AcknowledgeSelfie, RejectSelfie, Held
<1>2. /\ job[s] \in JobState /\ job[s].made < Attempts /\ job[s].stalls <= MaxStalls
      /\ job[s].made \in Nat
  BY <1>1, Bounds DEF QueueTypes, JobsSound, Unfinished, JobState
<1> DEFINE Next1(new) ==
      /\ job' = [job EXCEPT ![s] = new]
      /\ new.st \in Unfinished => new.made < Attempts /\ new.stalls <= MaxStalls
      /\ new.st \in {"completed", "failed"} \/ (new.st = "delayed" /\ new.made > 0)
      /\ Retried(s) => new.made > 0 \/ new.stalls > 0
<1>3. CASE AcknowledgeSelfie
  <2> DEFINE new == [job[s] EXCEPT !.st = "completed"]
  <2>1. /\ new \in JobState /\ new.st = "completed" /\ new.st \notin Unfinished
        /\ new.made = job[s].made /\ new.stalls = job[s].stalls
    BY <1>2 DEF JobState, Unfinished
  <2>2. job' = [job EXCEPT ![s] = new]
    BY <1>3 DEF AcknowledgeSelfie
  <2> HIDE DEF new
  <2>3. Next1(new)
    BY <2>1, <2>2 DEF Retried
  <2> QED BY <1>1, <2>1, <2>3
<1>4. CASE RejectSelfie
  <2>1. PICK n \in 0..Attempts : n = job[s].made + 1
    BY <1>2, OneMore
  <2> DEFINE st == IF n < Attempts THEN "delayed" ELSE "failed"
             new == TriedOnceMore(job[s], st, n)
  <2>2. job' = [job EXCEPT ![s] = new]
    BY <1>4, <2>1 DEF RejectSelfie, TriedOnceMore
  <2>3. st \in {"delayed", "failed"}
    OBVIOUS
  <2> HIDE DEF st
  <2>4. new \in JobState /\ new.st = st /\ new.made = n /\ new.stalls = job[s].stalls
    BY <1>2, <2>3, TriedRecord, SMTT(30)
  <2>5. n > 0
    BY <1>2, <2>1
  <2> HIDE DEF new
  <2>6. new.st \in Unfinished => new.made < Attempts /\ new.stalls <= MaxStalls
    BY <1>2, <2>4 DEF Unfinished, st
  <2>7. Next1(new)
    BY <2>2, <2>3, <2>4, <2>5, <2>6
  <2> QED BY <1>1, <2>4, <2>7
<1> QED BY <1>3, <1>4

(* ... and of one that waits again, after a backoff or because its worker   *)
(* died.                                                                    *)
LEMMA WaitsAgain ==
  ASSUME QueueTypes, JobsSound, Held, NEW s \in Selfie, SelfieBackoff(s) \/ SelfieStalled(s)
  PROVE  /\ etx' = etx /\ job[s].st \in {"delayed", "active"} /\ (etx.sel = s => etx.pc = "idle")
         /\ \E new \in JobState :
              /\ job' = [job EXCEPT ![s] = new]
              /\ new.st \in Unfinished => new.made < Attempts /\ new.stalls <= MaxStalls
              /\ IF new.st = "waiting"
                   THEN waiting' = Append(waiting, s) \/ waiting' = <<s>> \o waiting
                   ELSE waiting' = waiting
              /\ new.st = "failed" \/ (new.st = "waiting" /\ (Retried(s) \/ new.stalls > 0
                                                                \/ job[s].st = "delayed"))
              /\ Retried(s) => new.made > 0 \/ new.stalls > 0
<1>1. /\ etx' = etx /\ job[s] \in JobState
      /\ job[s].st \in {"delayed", "active"} /\ (etx.sel = s => etx.pc = "idle")
      /\ job[s].made < Attempts /\ job[s].stalls <= MaxStalls /\ job[s].stalls \in Nat
  BY Bounds DEF SelfieBackoff, SelfieStalled, QueueTypes, Held, JobsSound, Unfinished, JobState
<1>2. CASE SelfieBackoff(s)
  <2> DEFINE new == [job[s] EXCEPT !.st = "waiting"]
  <2>1. /\ new \in JobState /\ new.st = "waiting" /\ new.made = job[s].made
        /\ new.stalls = job[s].stalls
    BY <1>1 DEF JobState
  <2>2. job' = [job EXCEPT ![s] = new] /\ waiting' = Append(waiting, s) /\ job[s].st = "delayed"
    BY <1>2 DEF SelfieBackoff
  <2> HIDE DEF new
  <2> QED BY <1>1, <2>1, <2>2 DEF Retried
<1>3. CASE SelfieStalled(s)
  <2>1. PICK n \in 0..(MaxStalls + 1) : n = job[s].stalls + 1
    BY <1>1, OneMore
  <2> DEFINE again == job[s].stalls < MaxStalls
             st == IF again THEN "waiting" ELSE "failed"
             new == StalledOnceMore(job[s], st, n)
  <2>2. /\ job' = [job EXCEPT ![s] = new]
        /\ waiting' = IF again THEN <<s>> \o waiting ELSE waiting
    <3>1. job' = [job EXCEPT ![s] = [job[s] EXCEPT !.st = st, !.stalls = job[s].stalls + 1]]
      BY <1>3 DEF SelfieStalled
    <3>2. new = [job[s] EXCEPT !.st = st, !.stalls = job[s].stalls + 1]
      BY <2>1 DEF StalledOnceMore
    <3> QED BY <1>3, <3>1, <3>2 DEF SelfieStalled
  <2>3. st \in {"waiting", "failed"} /\ (again => n <= MaxStalls) /\ n > 0
    BY <1>1, <2>1, OneMore
  <2> HIDE DEF st
  <2>4. new \in JobState /\ new.st = st /\ new.made = job[s].made /\ new.stalls = n
    BY <1>1, <2>3, StalledRecord
  <2> HIDE DEF new
  <2>5. new.st \in Unfinished => new.made < Attempts /\ new.stalls <= MaxStalls
    BY <1>1, <2>3, <2>4 DEF Unfinished, st
  <2>6. IF new.st = "waiting" THEN waiting' = <<s>> \o waiting ELSE waiting' = waiting
    BY <2>2, <2>4 DEF st
  <2> QED BY <1>1, <2>2, <2>3, <2>4, <2>5, <2>6
<1> QED BY <1>2, <1>3

(* What the selfie queue does with the job: TakeSelfie, the acknowledgement *)
(* or rejection of what was taken, the backoff and the stall check.         *)
LEMMA QueueTyped ==
  ASSUME Typed,
         \/ TakeSelfie \/ AcknowledgeSelfie \/ RejectSelfie
         \/ \E s \in Selfie : SelfieBackoff(s) \/ SelfieStalled(s)
  PROVE  Typed'
<1> USE InputAssumption
<1>1. /\ DbTypes /\ Verdicts /\ QueueTypes /\ Counted /\ JobsSound /\ ListSound /\ Held
      /\ ptx \in PhotoTx /\ etx \in EnrollTx
  BY TypeParts DEF Typed, Parts
<1>2. UNCHANGED <<db, ptx, runs, hides, faults, history, post>>
  BY DEF TakeSelfie, AcknowledgeSelfie, RejectSelfie, SelfieBackoff, SelfieStalled
<1>3. DbTypes' /\ Verdicts' /\ Counted'
  BY <1>1, <1>2, SameDb DEF db, Verdicts, Counted
<1>4. NoEnroll \in EnrollTx /\ NoEnroll.pc = "idle"
  BY DEF NoEnroll, EnrollTx
<1>5. QueueTypes' /\ JobsSound' /\ ListSound' /\ Held' /\ etx' \in EnrollTx
  <2>1. CASE TakeSelfie
    <3>1. /\ waiting \in Seq(Selfie) /\ waiting # <<>> /\ waiting' = Tail(waiting)
          /\ job' = [job EXCEPT ![Head(waiting)] = [job[Head(waiting)] EXCEPT !.st = "active"]]
          /\ etx' = [NoEnroll EXCEPT !.pc = "detect", !.sel = Head(waiting)]
      BY <1>1, <2>1 DEF TakeSelfie, QueueTypes
    <3>2. /\ Head(waiting) = waiting[1] /\ waiting[1] \in Selfie
          /\ Len(waiting) \in Nat /\ Len(waiting) > 0
          /\ waiting' \in Seq(Selfie) /\ Len(waiting') = Len(waiting) - 1
          /\ \A n \in 1..Len(waiting') : waiting'[n] = waiting[n + 1] /\ waiting'[n] \in Selfie
      BY <3>1
    <3> DEFINE new(x) == [job[x] EXCEPT !.st = "active"]
    <3>3. PICK s \in Selfie : /\ s = waiting[1] /\ job' = [job EXCEPT ![s] = new(s)]
                              /\ etx' = [NoEnroll EXCEPT !.pc = "detect", !.sel = s]
      BY <3>1, <3>2
    <3>4. job[s] \in JobState /\ job[s].st = "waiting"
      BY <1>1, <3>2, <3>3 DEF ListSound, QueueTypes
    <3>5. new(s) \in JobState /\ new(s).st = "active" /\ new(s).made = job[s].made
          /\ new(s).stalls = job[s].stalls
      BY <3>4 DEF JobState
    <3>6. etx' \in EnrollTx /\ etx'.sel = s
      BY <3>3 DEF NoEnroll, EnrollTx
    <3> HIDE DEF new
    <3>7. /\ job' \in [Selfie -> JobState]
          /\ job'[s] = new(s)
          /\ \A t \in Selfie : t # s => job'[t] = job[t]
      BY <1>1, <3>3, <3>5, JobMoved
    <3>8. \A n \in 1..Len(waiting') : n + 1 \in 1..Len(waiting) /\ n + 1 # 1
      BY <3>2
    <3>9. ListSound'
      <4>1. 1 \in 1..Len(waiting)
        BY <3>2
      <4>2. \A n \in 1..Len(waiting') : waiting[n + 1] # s /\ job[waiting[n + 1]].st = "waiting"
        BY <1>1, <3>3, <3>8, <4>1 DEF ListSound
      <4>3. ASSUME NEW n \in 1..Len(waiting') PROVE job'[waiting'[n]].st = "waiting"
        <5>1. waiting'[n] \in Selfie /\ waiting'[n] # s /\ job[waiting'[n]].st = "waiting"
          BY <3>2, <4>2
        <5>2. QED
          BY <3>7, <5>1
      <4>4. \A m, n \in 1..Len(waiting') : waiting'[m] = waiting'[n] => m + 1 = n + 1
        BY <1>1, <3>2, <3>8 DEF ListSound
      <4>5. \A m, n \in 1..Len(waiting') : m + 1 = n + 1 => m = n
        BY <3>2
      <4>6. QED
        BY <4>3, <4>4, <4>5 DEF ListSound
    <3>10. post[s] = "done" /\ job[s].made < Attempts /\ job[s].stalls <= MaxStalls
      BY <1>1, <3>4 DEF JobsSound, Unfinished
    <3>11. JobsSound'
      BY <1>1, <1>2, <3>5, <3>7, <3>10 DEF JobsSound
    <3>12. QueueTypes'
      BY <1>1, <1>2, <3>2, <3>7 DEF QueueTypes
    <3>13. Held'
      BY <3>5, <3>6, <3>7 DEF Held
    <3>14. QED
      BY <3>6, <3>9, <3>11, <3>12, <3>13
  <2>2. CASE AcknowledgeSelfie \/ RejectSelfie
    <3> DEFINE s == etx.sel
    <3>1. /\ s \in Selfie /\ job[s].st = "active" /\ etx' = NoEnroll /\ waiting' = waiting
          /\ \E new \in JobState :
               /\ job' = [job EXCEPT ![s] = new]
               /\ new.st \in Unfinished => new.made < Attempts /\ new.stalls <= MaxStalls
      BY <1>1, <2>2, GivenBack
    <3> HIDE DEF s
    <3>2. QueueTypes' /\ JobsSound' /\ ListSound'
      BY <1>1, <1>2, <3>1, JobStep
    <3>3. QED
      BY <1>4, <3>1, <3>2 DEF Held
  <2>3. ASSUME NEW s \in Selfie, SelfieBackoff(s) \/ SelfieStalled(s)
        PROVE  QueueTypes' /\ JobsSound' /\ ListSound' /\ Held' /\ etx' \in EnrollTx
    <3>1. /\ etx' = etx /\ job[s].st \in {"delayed", "active"} /\ (etx.sel = s => etx.pc = "idle")
          /\ \E new \in JobState :
               /\ job' = [job EXCEPT ![s] = new]
               /\ new.st \in Unfinished => new.made < Attempts /\ new.stalls <= MaxStalls
               /\ \/ waiting' = waiting
                  \/ /\ new.st = "waiting"
                     /\ waiting' = Append(waiting, s) \/ waiting' = <<s>> \o waiting
      BY <1>1, <2>3, WaitsAgain
    <3>2. /\ QueueTypes' /\ JobsSound' /\ ListSound'
          /\ \A t \in Selfie : t # s => job'[t] = job[t]
      BY <1>1, <1>2, <3>1, JobStep
    <3>3. QED
      BY <1>1, <3>1, <3>2 DEF Held
  <2>4. QED
    BY <2>1, <2>2, <2>3
<1>6. QED
  BY <1>1, <1>2, <1>3, <1>5, TypeParts DEF Typed, Parts

(* The photo worker, a crash of the process that holds both workers, and a  *)
(* photographer who hides a photo.                                          *)
LEMMA PhotoTyped ==
  ASSUME Typed, PhotoNext \/ WorkerCrash \/ \E p \in Photo, v \in BOOLEAN : SetPublished(p, v)
  PROVE  Typed'
<1> USE InputAssumption, Bounds
<1>1. /\ DbTypes /\ Verdicts /\ QueueTypes /\ Counted /\ JobsSound /\ ListSound /\ Held
      /\ ptx \in PhotoTx /\ etx \in EnrollTx
  BY TypeParts DEF Typed, Parts
<1>2. UNCHANGED <<queue, enrollment, from, active, overlapped, unseen>>
  BY DEF PhotoNext, BeginPhoto, ScanFace, InsertMatches, CommitPhoto, PhotoRaises, PhotoEffect,
         MarkPhotoFailed, MarkPhotoSwallowed, WorkerCrash, SetPublished, db, history
<1>3. QueueTypes' /\ JobsSound' /\ ListSound' /\ Verdicts'
  BY <1>1, <1>2 DEF QueueTypes, JobsSound, ListSound, Verdicts, queue
<1>4. etx' \in EnrollTx /\ etx'.pc \in {"idle", etx.pc} /\ (etx'.pc # "idle" => etx'.sel = etx.sel)
  <2>1. CASE etx' = etx \/ etx' = NoEnroll
    BY <1>1, <2>1 DEF NoEnroll, EnrollTx
  <2>2. ASSUME NEW p \in Photo, etx' = [etx EXCEPT !.met = @ \cup {p}]
        PROVE  etx' \in EnrollTx /\ etx'.pc = etx.pc /\ etx'.sel = etx.sel
    BY <1>1, <2>2 DEF EnrollTx
  <2>3. QED
    BY <2>1, <2>2 DEF PhotoNext, BeginPhoto, ScanFace, InsertMatches, CommitPhoto, PhotoRaises,
                      MarkPhotoFailed, MarkPhotoSwallowed, WorkerCrash, SetPublished
<1>5. Held'
  BY <1>1, <1>2, <1>4 DEF Held, queue
<1>6. ptx' \in PhotoTx
  <2>1. NoTx \in PhotoTx
    BY DEF NoTx, PhotoTx
  <2>2. ASSUME NEW p \in Photo, BeginPhoto(p) PROVE ptx' \in PhotoTx
    BY <2>2 DEF BeginPhoto, NoTx, PhotoTx, FacesOf
  <2>3. ASSUME NEW f \in Face, ScanFace(f) PROVE ptx' \in PhotoTx
    <3>1. {f} \X {i \in active : Similar(f, i)} \subseteq Match
      BY <1>1 DEF DbTypes, Match
    <3>2. QED
      BY <1>1, <2>3, <3>1 DEF ScanFace, PhotoTx
  <2>4. CASE InsertMatches
    BY <1>1, <2>4 DEF InsertMatches, PhotoTx
  <2>5. CASE PhotoRaises
    BY <1>1, <2>5 DEF PhotoRaises, NoTx, PhotoTx
  <2>6. QED
    BY <1>1, <2>1, <2>2, <2>3, <2>4, <2>5
    DEF PhotoNext, CommitPhoto, MarkPhotoFailed, MarkPhotoSwallowed, WorkerCrash, SetPublished
<1>7. Counted'
  <2>1. ASSUME NEW p \in Photo, BeginPhoto(p) PROVE Counted'
    BY <1>1, <2>1 DEF BeginPhoto, Counted
  <2>2. CASE WorkerCrash
    BY <1>1, <2>2 DEF WorkerCrash, Counted
  <2>3. ASSUME NEW p \in Photo, NEW v \in BOOLEAN, SetPublished(p, v) PROVE Counted'
    BY <1>1, <2>3 DEF SetPublished, Counted
  <2>4. CASE \/ InsertMatches \/ CommitPhoto \/ PhotoRaises \/ MarkPhotoFailed
             \/ MarkPhotoSwallowed \/ \E f \in Face : ScanFace(f)
    BY <1>1, <2>4 DEF InsertMatches, CommitPhoto, PhotoRaises, MarkPhotoFailed,
                      MarkPhotoSwallowed, ScanFace, Counted
  <2>5. QED
    BY <2>1, <2>2, <2>3, <2>4 DEF PhotoNext
<1>8. DbTypes'
  <2>1. CASE PhotoEffect \/ MarkPhotoFailed
    <3>1. /\ PhotoEffect => ptx.photo \in Photo
          /\ MarkPhotoFailed => ptx.failing \in Photo
          /\ ptx.ins \subseteq Match
      BY <1>1 DEF PhotoEffect, MarkPhotoFailed, PhotoTxOpen, PhotoTx
    <3>2. status' \in [Photo -> {"ingested", "processed", "failed"}]
      BY <1>1, <2>1, <3>1 DEF PhotoEffect, MarkPhotoFailed, DbTypes
    <3>3. published' = published /\ faces' \subseteq Face /\ matches' \subseteq Match
      BY <1>1, <2>1, <3>1 DEF PhotoEffect, MarkPhotoFailed, DbTypes, FacesOf
    <3>4. QED
      BY <1>1, <1>2, <3>2, <3>3 DEF DbTypes, Unused
  <2>2. ASSUME NEW p \in Photo, NEW v \in BOOLEAN, SetPublished(p, v) PROVE DbTypes'
    BY <1>1, <1>2, <2>2 DEF SetPublished, DbTypes, Unused
  <2>3. CASE UNCHANGED <<db, history>>
    BY <1>1, <2>3, SameDb DEF db
  <2>4. QED
    BY <2>1, <2>2, <2>3 DEF PhotoNext, BeginPhoto, ScanFace, InsertMatches, CommitPhoto,
                            PhotoRaises, MarkPhotoSwallowed, WorkerCrash
<1>9. QED
  BY <1>1, <1>3, <1>4, <1>5, <1>6, <1>7, <1>8, TypeParts DEF Typed, Parts

(* Types and queue, over whatever a step does.                              *)
LEMMA NextTyped == Typed /\ [Next]_vars => Typed'
<1> SUFFICES ASSUME Typed, [Next]_vars PROVE Typed'
  OBVIOUS
<1>1. CASE PostNext
  BY <1>1, PostTyped DEF PostNext
<1>2. CASE EnrollNext
  BY <1>2, StatementTyped, QueueTyped DEF EnrollNext, EnrollStatement
<1>3. CASE PhotoNext \/ WorkerCrash \/ \E p \in Photo, v \in BOOLEAN : SetPublished(p, v)
  BY <1>3, PhotoTyped
<1>4. CASE UNCHANGED vars
  <2>1. TypeOK'
    BY <1>4 DEF Typed, TypeOK, Unused, vars, db, queue, history
  <2>2. QED
    BY <1>4, <2>1 DEF Typed, JobsSound, ListSound, Held, vars, queue
<1>5. QED
  BY <1>1, <1>2, <1>3, <1>4 DEF Next

(* Everything the upload route, the two workers and the queue keep stays in *)
(* its range: no job is tried more than Attempts times, no job stalls more  *)
(* than once beyond what BullMQ forgives.                                   *)
THEOREM TypeCorrect == Spec => []TypeOK
<1>1. Typed => TypeOK
  BY DEF Typed
<1>2. QED
  BY <1>1, InitTyped, NextTyped, PTL DEF Spec

--------------------------------------------------------------------------------
(* What the two transactions know of each other.                            *)

(* A later selfie of the same participant was enrolled while the photo of f *)
(* was being matched.                                                       *)
Replaced(f, i) ==
  \E j \in Identity \ Unused : OwnerOf(j) = OwnerOf(i) /\ <<PhotoOf[f], j>> \in overlapped

(* The open enrollment turns off what its participant has and deletes the   *)
(* matches it saw; the others came from a photo it met.                     *)
Replacing ==
  EnrollTxOpen =>
    /\ \A i \in Identity : i \in etx.off <=> i \in active /\ OwnerOf(i) = Enrolling
    /\ \A f \in Face, i \in Identity : etx.pc # "switched" =>
         /\ <<f, i>> \in etx.del => i \notin Unused /\ OwnerOf(i) = Enrolling
         /\ <<f, i>> \in matches /\ <<f, i>> \notin etx.del /\ OwnerOf(i) = Enrolling
              => PhotoOf[f] \in etx.met
    /\ PhotoTxOpen => ptx.photo \in etx.met

(* Direction 1 has taken every similar face it could see; the others are in *)
(* a photo that it met, or that was hidden when it looked.                  *)
Enrolled(i) ==
  /\ etx.new = {i}
  /\ \A f \in Face, j \in Identity : <<f, j>> \in etx.ins => j = i
  /\ \A f \in faces : status[PhotoOf[f]] = "processed" /\ Score[f, etx.sel] # "none"
       => <<f, i>> \in etx.ins \/ PhotoOf[f] \in etx.met \cup etx.hid
Enrolls == etx.pc = "matched" => \E i \in Unused : Enrolled(i)

(* Direction 2 writes matches of its photo and of identities that were      *)
(* active when it looked, ...                                               *)
Direction2 ==
  /\ \A f \in ptx.todo : PhotoOf[f] = ptx.photo
  /\ \A f \in Face, i \in Identity : <<f, i>> \in ptx.found \cup ptx.ins =>
       PhotoOf[f] = ptx.photo /\ i \notin Unused /\ (i \in active \/ Replaced(f, i))

(* ... and has every identity that is like a face it has looked at, except  *)
(* those enrolled while it was open.                                        *)
Scanned ==
  PhotoTxOpen => \A f \in FacesOf(ptx.photo) \ ptx.todo, i \in active : Similar(f, i) =>
     \/ <<f, i>> \in ptx.found \cup ptx.ins \cup matches
     \/ <<ptx.photo, i>> \in overlapped

Leftovers ==
  \A f \in Face, i \in Identity : <<f, i>> \in matches =>
     i \notin Unused /\ (i \in active \/ Replaced(f, i))

(* GapsAreExplained, for hidden photos too: they may be shown again.        *)
Gaps ==
  \A f \in faces, i \in active : status[PhotoOf[f]] = "processed" /\ Similar(f, i) =>
     <<f, i>> \in matches \/ <<PhotoOf[f], i>> \in overlapped \cup unseen

OneEach == \A i, j \in active : OwnerOf(i) = OwnerOf(j) => i = j
ReadyHasOne == \A a \in Participant : enrollment[a] = "ready" => \E i \in active : OwnerOf(i) = a

Galleries == /\ Replacing /\ Enrolls /\ Direction2 /\ Scanned
             /\ Leftovers /\ Gaps /\ OneEach /\ ReadyHasOne

IInv == Typed /\ Galleries

(* Nothing is matched yet.                                                  *)
LEMMA InitGalleries == Init => Galleries
BY DEF Init, Galleries, Replacing, Enrolls, Direction2, Scanned, Leftovers, Gaps, OneEach,
       ReadyHasOne, NoTx, NoEnroll, EnrollTxOpen, PhotoTxOpen

(* A step that commits nothing and looks at nothing: the upload, the queue, *)
(* the verdicts other than "ready", an enrollment that gives up, a          *)
(* photographer who hides a photo.                                          *)
LEMMA Elsewhere ==
  ASSUME Galleries, UNCHANGED <<status, faces, from, active, matches, ptx, history>>,
         \A a \in Participant : enrollment'[a] = "ready" => enrollment[a] = "ready",
         etx' = etx \/ etx'.pc \notin {"switched", "replaced", "matched"}
  PROVE  Galleries'
<1>1. /\ Replacing /\ Enrolls /\ Direction2 /\ Scanned
      /\ Leftovers /\ Gaps /\ OneEach /\ ReadyHasOne
  BY DEF Galleries
<1>2. Unused' = Unused /\ \A i : OwnerOf(i)' = OwnerOf(i)
  BY DEF Unused, OwnerOf
<1>3. \A f, i : Replaced(f, i)' = Replaced(f, i)
  BY <1>2 DEF Replaced, history
<1>4. \A f, i : Similar(f, i)' = Similar(f, i)
  BY DEF Similar
<1>5. Direction2' /\ Leftovers'
  BY <1>1, <1>2, <1>3 DEF Direction2, Leftovers
<1>6. Scanned' /\ Gaps'
  BY <1>1, <1>4 DEF Scanned, Gaps, PhotoTxOpen, history
<1>7. OneEach' /\ ReadyHasOne'
  BY <1>1, <1>2 DEF OneEach, ReadyHasOne
<1>8. Replacing' /\ Enrolls'
  <2>1. CASE etx' = etx
    <3>1. EnrollTxOpen' = EnrollTxOpen /\ Enrolling' = Enrolling /\ PhotoTxOpen' = PhotoTxOpen
      BY <2>1 DEF EnrollTxOpen, Enrolling, PhotoTxOpen
    <3>2. Replacing'
      BY <1>1, <1>2, <2>1, <3>1 DEF Replacing
    <3>3. \A i : Enrolled(i)' = Enrolled(i)
      BY <2>1 DEF Enrolled
    <3>4. QED
      BY <1>1, <1>2, <2>1, <3>2, <3>3 DEF Enrolls
  <2>2. CASE etx'.pc \notin {"switched", "replaced", "matched"}
    BY <2>2 DEF Replacing, Enrolls, EnrollTxOpen
  <2>3. QED
    BY <2>1, <2>2
<1>9. QED
  BY <1>5, <1>6, <1>7, <1>8 DEF Galleries

(* What an identity is does not change in a step that enrolls nobody.       *)
LEMMA SameIdentities ==
  ASSUME UNCHANGED <<from, overlapped>>
  PROVE  /\ Unused' = Unused
         /\ \A i : OwnerOf(i)' = OwnerOf(i)
         /\ \A f, i : Similar(f, i)' = Similar(f, i)
         /\ \A f, i : Replaced(f, i)' = Replaced(f, i)
<1>1. Unused' = Unused /\ \A i : OwnerOf(i)' = OwnerOf(i)
  BY DEF Unused, OwnerOf
<1>2. QED
  BY <1>1 DEF Similar, Replaced

(* What is committed stays as it is: only the two open transactions differ. *)
LEMMA Uncommitted ==
  ASSUME Galleries,
         UNCHANGED <<status, faces, from, active, matches, enrollment, overlapped, unseen>>
  PROVE  Leftovers' /\ Gaps' /\ OneEach' /\ ReadyHasOne'
BY SameIdentities DEF Galleries, Leftovers, Gaps, OneEach, ReadyHasOne

(* The UPDATE of a retake, not committed yet.                               *)
LEMMA SwitchOffKeeps ==
  ASSUME IInv, SwitchOff
  PROVE  Galleries'
<1>1. ptx \in PhotoTx /\ etx \in EnrollTx /\ Direction2 /\ Scanned
  BY TypeParts DEF IInv, Typed, Parts, Galleries
<1>2. /\ UNCHANGED <<status, faces, from, active, matches, enrollment, overlapped, unseen, ptx>>
      /\ etx'.sel = etx.sel /\ etx'.pc = "switched"
      /\ etx'.off = {i \in active : OwnerOf(i) = Enrolling} /\ etx'.met = OpenPhotos
  BY <1>1 DEF SwitchOff, db, history, EnrollTx
<1>3. Leftovers' /\ Gaps' /\ OneEach' /\ ReadyHasOne'
  BY <1>2, Uncommitted DEF IInv
<1>4. Direction2' /\ Scanned'
  BY <1>1, <1>2, SameIdentities DEF Direction2, Scanned, PhotoTxOpen
<1>5. Enrolls'
  BY <1>2 DEF Enrolls
<1>6. Replacing'
  <2>1. Enrolling' = Enrolling /\ \A i : OwnerOf(i)' = OwnerOf(i)
    BY <1>2, SameIdentities DEF Enrolling
  <2>2. \A i \in Identity : i \in etx'.off <=> i \in active' /\ OwnerOf(i)' = Enrolling'
    BY <1>2, <2>1
  <2>3. PhotoTxOpen' => ptx'.photo \in etx'.met
    BY <1>2 DEF PhotoTxOpen, OpenPhotos
  <2>4. QED
    BY <1>2, <2>2, <2>3 DEF Replacing
<1>7. QED
  BY <1>3, <1>4, <1>5, <1>6 DEF Galleries

(* Its DELETE: the matches that are there are of identities that were made. *)
LEMMA DeleteMatchesKeeps ==
  ASSUME IInv, DeleteMatches
  PROVE  Galleries'
<1>1. /\ ptx \in PhotoTx /\ etx \in EnrollTx
      /\ Replacing /\ Direction2 /\ Scanned /\ Leftovers
  BY TypeParts DEF IInv, Typed, Parts, Galleries
<1>2. /\ UNCHANGED <<status, faces, from, active, matches, enrollment, overlapped, unseen, ptx>>
      /\ etx'.sel = etx.sel /\ etx'.pc = "replaced" /\ EnrollTxOpen
      /\ etx'.off = etx.off /\ etx'.met = etx.met /\ etx'.del = MatchesOf(Enrolling)
  BY <1>1 DEF DeleteMatches, EnrollTxOpen, db, history, EnrollTx
<1>3. Leftovers' /\ Gaps' /\ OneEach' /\ ReadyHasOne'
  BY <1>2, Uncommitted DEF IInv
<1>4. Direction2' /\ Scanned'
  BY <1>1, <1>2, SameIdentities DEF Direction2, Scanned, PhotoTxOpen
<1>5. Enrolls'
  BY <1>2 DEF Enrolls
<1>6. Replacing'
  <2>1. Enrolling' = Enrolling /\ Unused' = Unused /\ \A i : OwnerOf(i)' = OwnerOf(i)
    BY <1>2, SameIdentities DEF Enrolling
  <2>2. \A f \in Face, i \in Identity :
          <<f, i>> \in etx'.del <=> <<f, i>> \in matches' /\ OwnerOf(i)' = Enrolling'
    BY <1>2, <2>1 DEF MatchesOf
  <2>3. PhotoTxOpen' => ptx'.photo \in etx'.met
    BY <1>1, <1>2 DEF Replacing, PhotoTxOpen
  <2>4. QED
    BY <1>1, <1>2, <2>1, <2>2, <2>3 DEF Replacing, Leftovers
<1>7. QED
  BY <1>3, <1>4, <1>5, <1>6 DEF Galleries

(* Direction 1 takes what it can see.                                       *)
LEMMA MatchIdentityKeeps ==
  ASSUME IInv, MatchIdentity
  PROVE  Galleries'
<1> DEFINE seen == {f \in Searchable : Score[f, etx.sel] # "none"}
           hidden == {p \in Photo : ~published[p]}
<1>1. /\ DbTypes /\ ptx \in PhotoTx /\ etx \in EnrollTx
      /\ Replacing /\ Direction2 /\ Scanned
  BY TypeParts DEF IInv, Typed, Parts, Galleries
<1>2. PICK i \in Unused : etx' = [etx EXCEPT !.pc = "matched", !.new = {i},
                                            !.ins = seen \X {i}, !.hid = hidden]
  BY DEF MatchIdentity
<1>3. \A f \in faces : status[PhotoOf[f]] = "processed" /\ Score[f, etx.sel] # "none"
        => f \in seen \/ PhotoOf[f] \in hidden
  BY <1>1, InputAssumption DEF Searchable, DbTypes
<1>4. UNCHANGED <<status, faces, from, active, matches, enrollment, overlapped, unseen, ptx>>
  BY DEF MatchIdentity, db, history
<1> HIDE DEF seen, hidden
<1>5. /\ etx'.pc = "matched" /\ etx'.new = {i} /\ etx'.ins = seen \X {i} /\ etx'.hid = hidden
      /\ etx'.sel = etx.sel /\ etx'.off = etx.off /\ etx'.del = etx.del /\ etx'.met = etx.met
  BY <1>1, <1>2 DEF EnrollTx
<1>6. Leftovers' /\ Gaps' /\ OneEach' /\ ReadyHasOne'
  BY <1>4, Uncommitted DEF IInv
<1>7. Direction2' /\ Scanned'
  BY <1>1, <1>4, SameIdentities DEF Direction2, Scanned, PhotoTxOpen
<1>8. Enrolls'
  <2>1. \A f, j : <<f, j>> \in etx'.ins <=> f \in seen /\ j = i
    BY <1>5
  <2>2. Enrolled(i)'
    BY <1>3, <1>4, <1>5, <2>1 DEF Enrolled
  <2>3. i \in Unused'
    BY <1>4, SameIdentities
  <2>4. QED
    BY <2>2, <2>3 DEF Enrolls
<1>9. Replacing'
  <2>1. Enrolling' = Enrolling /\ Unused' = Unused /\ \A j : OwnerOf(j)' = OwnerOf(j)
    BY <1>4, <1>5, SameIdentities DEF Enrolling
  <2>2. EnrollTxOpen /\ etx.pc = "replaced"
    BY DEF MatchIdentity, EnrollTxOpen
  <2>3. QED
    BY <1>1, <1>4, <1>5, <2>1, <2>2 DEF Replacing, PhotoTxOpen
<1>10. QED
  BY <1>6, <1>7, <1>8, <1>9 DEF Galleries

(* The commit of an enrollment. Its new identity i was unused, its          *)
(* participant's old ones go, and a photo whose transaction is open or was  *)
(* committed meanwhile is one that it met.                                  *)
LEMMA EffectKeeps ==
  ASSUME IInv, EnrollEffect, ptx' = ptx, etx'.pc \notin {"switched", "replaced", "matched"}
  PROVE  Galleries'
<1> USE InputAssumption
<1>1. /\ DbTypes /\ Verdicts /\ ptx \in PhotoTx /\ etx \in EnrollTx /\ Held
      /\ Replacing /\ Enrolls /\ Direction2 /\ Scanned
      /\ Leftovers /\ Gaps /\ OneEach /\ ReadyHasOne
  BY TypeParts DEF IInv, Typed, Parts, Galleries
<1>2. etx.pc = "matched" /\ EnrollTxOpen /\ etx.sel \in Selfie
  BY <1>1 DEF EnrollEffect, EnrollTxOpen, Held
<1>3. PICK i \in Unused : Enrolled(i)
  BY <1>1, <1>2 DEF Enrolls
<1>4. /\ i \in Identity /\ from[i] = NoSelfie /\ etx.new = {i} /\ i \notin active
      /\ i \notin etx.off
  BY <1>1, <1>2, <1>3 DEF Unused, Enrolled, DbTypes, Replacing
<1>5. /\ from'[i] = etx.sel /\ \A j \in Identity : j # i => from'[j] = from[j]
      /\ \A j : j \in active' <=> j = i \/ (j \in active /\ j \notin etx.off)
      /\ \A m : m \in matches' <=> m \in etx.ins \/ (m \in matches /\ m \notin etx.del)
      /\ enrollment' = [enrollment EXCEPT ![Enrolling] = "ready"]
      /\ \A p, j : <<p, j>> \in overlapped'
                     <=> <<p, j>> \in overlapped \/ (p \in etx.met /\ j = i)
      /\ \A p, j : <<p, j>> \in unseen' <=> <<p, j>> \in unseen \/ (p \in etx.hid /\ j = i)
      /\ status' = status /\ faces' = faces
  BY <1>4 DEF EnrollEffect
<1>6. /\ \A j \in Identity : j \notin Unused' <=> j \notin Unused \/ j = i
      /\ i \in Unused
      /\ OwnerOf(i)' = Enrolling
      /\ \A j \in Identity : j # i => OwnerOf(j)' = OwnerOf(j)
      /\ \A f, j : j \in Identity /\ j # i => Similar(f, j)' = Similar(f, j)
      /\ \A f : Similar(f, i)' <=> Score[f, etx.sel] # "none"
  BY <1>2, <1>3, <1>4, <1>5 DEF Unused, OwnerOf, Enrolling, Similar
<1>7. active \subseteq Identity \ Unused
  BY <1>1 DEF DbTypes
<1>8. \A f \in Face, j \in Identity : j # i /\ Replaced(f, j) => Replaced(f, j)'
  BY <1>5, <1>6 DEF Replaced
<1>9. \A f \in Face, j \in Identity :
        j # i /\ OwnerOf(j) = Enrolling /\ PhotoOf[f] \in etx.met => Replaced(f, j)'
  BY <1>4, <1>5, <1>6 DEF Replaced
<1>10. \A j \in etx.off : j \in Identity /\ OwnerOf(j) = Enrolling
  BY <1>1, <1>2 DEF Replacing, EnrollTx
<1>11. Leftovers'
  <2> SUFFICES ASSUME NEW f \in Face, NEW j \in Identity, <<f, j>> \in matches'
               PROVE  j \notin Unused' /\ (j \in active' \/ Replaced(f, j)')
    BY DEF Leftovers
  <2>1. CASE j = i
    BY <1>5, <1>6, <2>1
  <2>2. CASE j # i
    <3>1. <<f, j>> \in matches /\ <<f, j>> \notin etx.del
      BY <1>3, <1>5, <2>2 DEF Enrolled
    <3>2. j \notin Unused /\ (j \in active \/ Replaced(f, j))
      BY <1>1, <3>1 DEF Leftovers
    <3>3. CASE j \in etx.off
      <4>1. PhotoOf[f] \in etx.met
        BY <1>1, <1>2, <1>10, <3>1, <3>3 DEF Replacing
      <4>2. QED
        BY <1>6, <1>9, <1>10, <2>2, <3>2, <3>3, <4>1
    <3>4. CASE j \notin etx.off
      BY <1>5, <1>6, <1>8, <2>2, <3>2, <3>4
    <3>5. QED
      BY <3>3, <3>4
  <2>3. QED
    BY <2>1, <2>2
<1>12. Direction2'
  <2> SUFFICES ASSUME NEW f \in Face, NEW j \in Identity, <<f, j>> \in ptx.found \cup ptx.ins
               PROVE  /\ PhotoOf[f] = ptx.photo
                      /\ j \notin Unused' /\ (j \in active' \/ Replaced(f, j)')
    BY <1>1 DEF Direction2
  <2>1. PhotoOf[f] = ptx.photo /\ j \notin Unused /\ (j \in active \/ Replaced(f, j))
    BY <1>1 DEF Direction2
  <2>2. j # i
    BY <1>6, <2>1
  <2>3. CASE j \in etx.off
    <3>1. ptx.photo # NoPhoto
      BY <2>1
    <3>2. PhotoOf[f] \in etx.met
      BY <1>1, <1>2, <2>1, <3>1 DEF Replacing, PhotoTxOpen
    <3>3. QED
      BY <1>6, <1>9, <1>10, <2>1, <2>2, <2>3, <3>2
  <2>4. CASE j \notin etx.off
    BY <1>5, <1>6, <1>8, <2>1, <2>2, <2>4
  <2>5. QED
    BY <2>3, <2>4
<1>13. \A f, j : j \in active' /\ j # i /\ <<f, j>> \in matches /\ f \in Face
                    => <<f, j>> \in matches'
  <2> SUFFICES ASSUME NEW f \in Face, NEW j \in active, j \notin etx.off,
                      j # i, <<f, j>> \in matches
               PROVE  <<f, j>> \in matches'
    BY <1>5
  <2>1. j \in Identity /\ OwnerOf(j) # Enrolling
    BY <1>1, <1>2, <1>7 DEF Replacing
  <2>2. <<f, j>> \notin etx.del
    BY <1>1, <1>2, <2>1 DEF Replacing
  <2>3. QED
    BY <1>5, <2>2
<1>14. Scanned'
  <2> SUFFICES ASSUME PhotoTxOpen, NEW f \in FacesOf(ptx.photo) \ ptx.todo, NEW j \in active',
                      Similar(f, j)'
               PROVE  \/ <<f, j>> \in ptx.found \cup ptx.ins \cup matches'
                      \/ <<ptx.photo, j>> \in overlapped'
    BY DEF Scanned, PhotoTxOpen
  <2>1. CASE j = i
    BY <1>1, <1>2, <1>5, <2>1 DEF Replacing
  <2>2. CASE j # i
    <3>1. j \in active /\ j \in Identity /\ f \in Face
      BY <1>5, <1>7, <2>2 DEF FacesOf
    <3>2. \/ <<f, j>> \in ptx.found \cup ptx.ins \cup matches
          \/ <<ptx.photo, j>> \in overlapped
      BY <1>1, <1>6, <2>2, <3>1 DEF Scanned
    <3>3. QED
      BY <1>5, <1>13, <2>2, <3>1, <3>2
  <2>3. QED
    BY <2>1, <2>2
<1>15. Gaps'
  <2> SUFFICES ASSUME NEW f \in faces, NEW j \in active', status[PhotoOf[f]] = "processed",
                      Similar(f, j)'
               PROVE  <<f, j>> \in matches' \/ <<PhotoOf[f], j>> \in overlapped' \cup unseen'
    BY <1>5 DEF Gaps
  <2>1. CASE j = i
    <3>1. <<f, i>> \in etx.ins \/ PhotoOf[f] \in etx.met \cup etx.hid
      BY <1>3, <1>6, <2>1 DEF Enrolled
    <3>2. QED
      BY <1>5, <2>1, <3>1
  <2>2. CASE j # i
    <3>1. j \in active /\ j \in Identity /\ f \in Face
      BY <1>1, <1>5, <1>7, <2>2 DEF DbTypes
    <3>2. <<f, j>> \in matches \/ <<PhotoOf[f], j>> \in overlapped \cup unseen
      BY <1>1, <1>6, <2>2, <3>1 DEF Gaps
    <3>3. QED
      BY <1>5, <1>13, <2>2, <3>1, <3>2
  <2>3. QED
    BY <2>1, <2>2
<1>16. OneEach'
  <2>1. \A j \in active' : j # i => j \in Identity /\ j \in active /\ OwnerOf(j) # Enrolling
    BY <1>1, <1>2, <1>5, <1>7 DEF Replacing
  <2>2. QED
    BY <1>1, <1>6, <2>1 DEF OneEach
<1>17. ReadyHasOne'
  <2> SUFFICES ASSUME NEW a \in Participant, enrollment'[a] = "ready"
               PROVE  \E j \in active' : OwnerOf(j)' = a
    BY DEF ReadyHasOne
  <2>1. CASE a = Enrolling
    BY <1>5, <1>6, <2>1
  <2>2. CASE a # Enrolling
    <3>1. enrollment[a] = "ready"
      BY <1>1, <1>5, <2>2 DEF Verdicts
    <3>2. PICK j \in active : OwnerOf(j) = a
      BY <1>1, <3>1 DEF ReadyHasOne
    <3>3. j \in Identity /\ j # i /\ j \notin etx.off
      BY <1>4, <1>7, <1>10, <2>2, <3>2
    <3>4. QED
      BY <1>5, <1>6, <3>2, <3>3
  <2>3. QED
    BY <2>1, <2>2
<1>18. Replacing' /\ Enrolls'
  BY DEF Replacing, Enrolls, EnrollTxOpen
<1>19. QED
  BY <1>11, <1>12, <1>14, <1>15, <1>16, <1>17, <1>18 DEF Galleries

(* A photo worker that begins its transaction while an enrollment is open   *)
(* meets it; each face it looks at gets the identities that are active.     *)
LEMMA BeginKeeps ==
  ASSUME IInv, NEW p \in Photo, BeginPhoto(p)
  PROVE  Galleries'
<1>1. /\ DbTypes /\ etx \in EnrollTx /\ Replacing /\ Enrolls
  BY TypeParts DEF IInv, Typed, Parts, Galleries
<1>2. /\ UNCHANGED <<status, faces, from, active, matches, enrollment, overlapped, unseen>>
      /\ ptx'.photo = p /\ ptx'.todo = FacesOf(p) /\ ptx'.found = {} /\ ptx'.ins = {}
  BY DEF BeginPhoto, db, history, NoTx
<1>3. /\ etx'.pc = etx.pc /\ etx'.sel = etx.sel /\ etx'.off = etx.off /\ etx'.del = etx.del
      /\ etx'.new = etx.new /\ etx'.ins = etx.ins /\ etx'.hid = etx.hid
      /\ etx'.met = IF EnrollTxOpen THEN etx.met \cup {p} ELSE etx.met
  BY <1>1 DEF BeginPhoto, EnrollTx
<1>4. Leftovers' /\ Gaps' /\ OneEach' /\ ReadyHasOne'
  BY <1>2, Uncommitted DEF IInv
<1>5. Direction2' /\ Scanned'
  BY <1>2 DEF Direction2, Scanned, FacesOf
<1>6. Enrolls'
  <2>1. Unused' = Unused
    BY <1>2, SameIdentities
  <2>2. \A i : Enrolled(i) => Enrolled(i)'
    BY <1>2, <1>3 DEF Enrolled
  <2>3. QED
    BY <1>1, <1>3, <2>1, <2>2 DEF Enrolls
<1>7. Replacing'
  <2>1. /\ Enrolling' = Enrolling /\ Unused' = Unused /\ EnrollTxOpen' = EnrollTxOpen
        /\ \A i : OwnerOf(i)' = OwnerOf(i)
    BY <1>2, <1>3, SameIdentities DEF Enrolling, EnrollTxOpen
  <2>2. QED
    BY <1>1, <1>2, <1>3, <2>1 DEF Replacing
<1>8. QED
  BY <1>4, <1>5, <1>6, <1>7 DEF Galleries

(* The enrollment does not notice a photo transaction that goes on.         *)
LEMMA EnrollmentUnaware ==
  ASSUME Galleries, UNCHANGED <<status, faces, from, active, matches, overlapped, etx>>,
         ptx'.photo = ptx.photo
  PROVE  Replacing' /\ Enrolls'
<1>1. /\ Enrolling' = Enrolling /\ Unused' = Unused /\ EnrollTxOpen' = EnrollTxOpen
      /\ PhotoTxOpen' = PhotoTxOpen
      /\ \A i : OwnerOf(i)' = OwnerOf(i)
  BY SameIdentities DEF Enrolling, EnrollTxOpen, PhotoTxOpen
<1>2. Replacing'
  BY <1>1 DEF Galleries, Replacing
<1>3. \A i : Enrolled(i)' = Enrolled(i)
  BY DEF Enrolled
<1>4. QED
  BY <1>1, <1>2, <1>3 DEF Galleries, Enrolls

(* Direction 2 looks at one face more.                                      *)
LEMMA ScanKeeps ==
  ASSUME IInv, NEW f \in Face, ScanFace(f)
  PROVE  Galleries'
<1>1. /\ DbTypes /\ ptx \in PhotoTx /\ Direction2 /\ Scanned
  BY TypeParts DEF IInv, Typed, Parts, Galleries
<1> DEFINE alike == {f} \X {i \in active : Similar(f, i)}
<1>2. \A g, i : <<g, i>> \in alike <=> g = f /\ i \in active /\ Similar(f, i)
  OBVIOUS
<1>3. ptx.found = {} /\ f \in ptx.todo
      /\ ptx' = [ptx EXCEPT !.todo = @ \ {f}, !.found = alike]
  BY DEF ScanFace
<1> HIDE DEF alike
<1>4. ptx'.photo = ptx.photo /\ ptx'.ins = ptx.ins /\ ptx'.todo = ptx.todo \ {f} /\ ptx'.found = alike
  BY <1>1, <1>3 DEF PhotoTx
<1>5. UNCHANGED <<status, faces, from, active, matches, enrollment, overlapped, unseen, etx>>
  BY DEF ScanFace, db, history
<1>6. Leftovers' /\ Gaps' /\ OneEach' /\ ReadyHasOne' /\ Replacing' /\ Enrolls'
  BY <1>4, <1>5, Uncommitted, EnrollmentUnaware DEF IInv
<1>7. PhotoOf[f] = ptx.photo
  BY <1>1, <1>3 DEF Direction2
<1>8. Direction2'
  BY <1>1, <1>2, <1>4, <1>5, <1>7, SameIdentities DEF Direction2, DbTypes
<1>9. Scanned'
  BY <1>1, <1>2, <1>3, <1>4, <1>5, SameIdentities DEF Scanned, PhotoTxOpen
<1>10. QED
  BY <1>6, <1>8, <1>9 DEF Galleries

(* Direction 2 inserts what it found.                                       *)
LEMMA InsertKeeps ==
  ASSUME IInv, InsertMatches
  PROVE  Galleries'
<1>1. /\ DbTypes /\ ptx \in PhotoTx /\ Direction2 /\ Scanned
  BY TypeParts DEF IInv, Typed, Parts, Galleries
<1>2. /\ ptx'.photo = ptx.photo /\ ptx'.todo = ptx.todo /\ ptx'.found = {}
      /\ ptx'.ins = ptx.ins \cup (ptx.found \ matches)
  BY <1>1 DEF InsertMatches, PhotoTx
<1>3. UNCHANGED <<status, faces, from, active, matches, enrollment, overlapped, unseen, etx>>
  BY DEF InsertMatches, db, history
<1>4. Leftovers' /\ Gaps' /\ OneEach' /\ ReadyHasOne' /\ Replacing' /\ Enrolls'
  BY <1>2, <1>3, Uncommitted, EnrollmentUnaware DEF IInv
<1>5. Direction2'
  BY <1>1, <1>2, <1>3, SameIdentities DEF Direction2
<1>6. Scanned'
  BY <1>1, <1>2, <1>3, SameIdentities DEF Scanned, PhotoTxOpen
<1>7. QED
  BY <1>4, <1>5, <1>6 DEF Galleries

(* The commit of a photo, whether or not its answer is lost: every face has *)
(* been looked at.  An enrollment that is open has met the photo.           *)
LEMMA CommitPhotoKeeps ==
  ASSUME IInv, PhotoEffect, CommitPhoto \/ PhotoRaises
  PROVE  Galleries'
<1> USE InputAssumption
<1>1. /\ DbTypes /\ ptx \in PhotoTx /\ etx \in EnrollTx
      /\ Replacing /\ Enrolls /\ Direction2 /\ Scanned
      /\ Leftovers /\ Gaps /\ OneEach /\ ReadyHasOne
  BY TypeParts DEF IInv, Typed, Parts, Galleries
<1>2. /\ PhotoTxOpen /\ ptx.todo = {} /\ ptx.found = {} /\ ptx.photo \in Photo
      /\ ptx'.photo = NoPhoto /\ ptx'.todo = {} /\ ptx'.found = {} /\ ptx'.ins = {}
  BY <1>1 DEF PhotoEffect, CommitPhoto, PhotoRaises, NoTx, PhotoTx, PhotoTxOpen
<1>3. /\ UNCHANGED <<from, active, enrollment, overlapped, unseen, etx>>
      /\ matches' = matches \cup ptx.ins
      /\ faces' = faces \cup FacesOf(ptx.photo)
      /\ \A q \in Photo : q # ptx.photo => status'[q] = status[q]
  BY <1>1, <1>2 DEF PhotoEffect, CommitPhoto, PhotoRaises, DbTypes, history
<1>4. /\ Enrolling' = Enrolling /\ Unused' = Unused /\ EnrollTxOpen' = EnrollTxOpen
      /\ \A i : OwnerOf(i)' = OwnerOf(i)
      /\ \A f, i : Similar(f, i)' = Similar(f, i)
      /\ \A f, i : Replaced(f, i)' = Replaced(f, i)
  BY <1>3, SameIdentities DEF Enrolling, EnrollTxOpen
<1>5. Direction2' /\ Scanned'
  BY <1>2 DEF Direction2, Scanned, PhotoTxOpen
<1>6. OneEach' /\ ReadyHasOne'
  BY <1>1, <1>3, <1>4 DEF OneEach, ReadyHasOne
<1>7. Leftovers'
  BY <1>1, <1>3, <1>4 DEF Leftovers, Direction2
<1>8. Gaps'
  <2> SUFFICES ASSUME NEW f \in faces', NEW i \in active, Similar(f, i),
                      status'[PhotoOf[f]] = "processed"
               PROVE  <<f, i>> \in matches' \/ <<PhotoOf[f], i>> \in overlapped \cup unseen
    BY <1>3, <1>4 DEF Gaps
  <2>1. f \in Face /\ PhotoOf[f] \in Photo
    BY <1>1, <1>3 DEF DbTypes, FacesOf
  <2>2. CASE PhotoOf[f] = ptx.photo
    <3>1. f \in FacesOf(ptx.photo) \ ptx.todo
      BY <1>2, <2>1, <2>2 DEF FacesOf
    <3>2. <<f, i>> \in ptx.ins \cup matches \/ <<ptx.photo, i>> \in overlapped
      BY <1>1, <1>2, <3>1 DEF Scanned
    <3>3. QED
      BY <1>3, <2>2, <3>2
  <2>3. CASE PhotoOf[f] # ptx.photo
    <3>1. f \in faces /\ status[PhotoOf[f]] = "processed"
      BY <1>3, <2>1, <2>3 DEF FacesOf
    <3>2. QED
      BY <1>1, <1>3, <3>1 DEF Gaps
  <2>4. QED
    BY <2>2, <2>3
<1>9. Replacing'
  <2>1. \A f \in Face, i \in Identity :
          EnrollTxOpen /\ <<f, i>> \in ptx.ins => PhotoOf[f] \in etx.met
    BY <1>1, <1>2 DEF Direction2, Replacing
  <2>2. ~PhotoTxOpen'
    BY <1>2 DEF PhotoTxOpen
  <2>3. QED
    BY <1>1, <1>3, <1>4, <2>1, <2>2 DEF Replacing
<1>10. Enrolls'
  <2> SUFFICES ASSUME etx.pc = "matched" PROVE \E i \in Unused : Enrolled(i)'
    BY <1>3, <1>4 DEF Enrolls
  <2>1. PICK i \in Unused : Enrolled(i)
    BY <1>1 DEF Enrolls
  <2>2. ptx.photo \in etx.met
    BY <1>1, <1>2 DEF Replacing, EnrollTxOpen
  <2>3. \A f \in faces' : f \in Face /\ PhotoOf[f] \in Photo
                          /\ (PhotoOf[f] # ptx.photo => f \in faces)
    BY <1>1, <1>3 DEF DbTypes, FacesOf
  <2>4. Enrolled(i)'
    BY <1>3, <2>1, <2>2, <2>3 DEF Enrolled
  <2>5. QED
    BY <2>4
<1>11. QED
  BY <1>5, <1>6, <1>7, <1>8, <1>9, <1>10 DEF Galleries

(* A transaction that is rolled back, alone or with the other one.          *)
LEMMA RolledBackKeeps ==
  ASSUME IInv,
         \/ PhotoRaises /\ UNCHANGED db
         \/ MarkPhotoFailed \/ MarkPhotoSwallowed \/ WorkerCrash
  PROVE  Galleries'
<1> USE InputAssumption
<1>1. /\ DbTypes /\ etx \in EnrollTx /\ Replacing /\ Enrolls
      /\ Leftovers /\ Gaps /\ OneEach /\ ReadyHasOne
  BY TypeParts DEF IInv, Typed, Parts, Galleries
<1>2. /\ UNCHANGED <<faces, from, active, matches, enrollment, overlapped, unseen>>
      /\ \A q \in Photo : status'[q] = "processed" => status[q] = "processed"
      /\ ptx'.photo = NoPhoto /\ ptx'.todo = {} /\ ptx'.found = {} /\ ptx'.ins = {}
      /\ etx' = etx \/ etx' = NoEnroll
  BY <1>1 DEF PhotoRaises, MarkPhotoFailed, MarkPhotoSwallowed, WorkerCrash, NoTx, DbTypes, db,
              history
<1>3. /\ Unused' = Unused /\ \A i : OwnerOf(i)' = OwnerOf(i)
      /\ \A f, i : Similar(f, i)' = Similar(f, i)
      /\ \A f, i : Replaced(f, i)' = Replaced(f, i)
  BY <1>2, SameIdentities
<1>4. Direction2' /\ Scanned' /\ ~PhotoTxOpen'
  BY <1>2 DEF Direction2, Scanned, PhotoTxOpen
<1>5. \A f \in faces : PhotoOf[f] \in Photo
  BY <1>1 DEF DbTypes
<1>6. Leftovers' /\ Gaps' /\ OneEach' /\ ReadyHasOne'
  BY <1>1, <1>2, <1>3, <1>5 DEF Leftovers, Gaps, OneEach, ReadyHasOne
<1>7. Replacing' /\ Enrolls'
  <2>1. CASE etx' = etx
    <3>1. Enrolling' = Enrolling /\ EnrollTxOpen' = EnrollTxOpen
      BY <2>1 DEF Enrolling, EnrollTxOpen
    <3>2. \A i : Enrolled(i) => Enrolled(i)'
      BY <1>2, <1>5, <2>1 DEF Enrolled
    <3>3. QED
      BY <1>1, <1>2, <1>3, <1>4, <2>1, <3>1, <3>2 DEF Replacing, Enrolls
  <2>2. CASE etx' = NoEnroll
    BY <2>2 DEF Replacing, Enrolls, EnrollTxOpen, NoEnroll
  <2>3. QED
    BY <1>2, <2>1, <2>2
<1>8. QED
  BY <1>4, <1>6, <1>7 DEF Galleries

(* What the transactions know of each other, over whatever a step does.     *)
LEMMA NextGalleries == IInv /\ [Next]_vars => Galleries'
<1> SUFFICES ASSUME IInv, [Next]_vars PROVE Galleries'
  OBVIOUS
<1>1. Galleries /\ Verdicts /\ etx \in EnrollTx /\ Held
  BY TypeParts DEF IInv, Typed, Parts
<1>2. CASE PostNext \/ UNCHANGED vars \/ \E p \in Photo, v \in BOOLEAN : SetPublished(p, v)
  <2>1. /\ UNCHANGED <<status, faces, from, active, matches, ptx, history, etx>>
        /\ \A a \in Participant : enrollment'[a] = "ready" => enrollment[a] = "ready"
    BY <1>1, <1>2 DEF PostNext, PostSelfie, MarkProcessing, AddSelfieJob, PostFails, SetPublished,
                      Verdicts, vars, db
  <2>2. QED
    BY <1>1, <2>1, Elsewhere
<1>3. CASE \/ TakeSelfie \/ AcknowledgeSelfie \/ RejectSelfie
           \/ \E s \in Selfie : SelfieBackoff(s) \/ SelfieStalled(s)
  <2>1. UNCHANGED <<status, faces, from, active, matches, ptx, history, enrollment>>
    BY <1>3 DEF TakeSelfie, AcknowledgeSelfie, RejectSelfie, SelfieBackoff, SelfieStalled, db
  <2>2. etx' = etx \/ etx'.pc \notin {"switched", "replaced", "matched"}
    <3>1. NoEnroll \in EnrollTx /\ NoEnroll.pc = "idle"
      BY DEF NoEnroll, EnrollTx
    <3>2. CASE TakeSelfie
      BY <3>1, <3>2 DEF TakeSelfie, EnrollTx
    <3>3. CASE ~TakeSelfie
      BY <1>3, <3>1, <3>3 DEF AcknowledgeSelfie, RejectSelfie, SelfieBackoff, SelfieStalled
    <3>4. QED
      BY <3>2, <3>3
  <2>3. QED
    BY <1>1, <2>1, <2>2, Elsewhere
<1>4. CASE RefuseSelfie \/ MarkEnrollFailed \/ MarkEnrollSwallowed
           \/ (EnrollRaises /\ UNCHANGED <<db, history>>)
  <2>1. /\ UNCHANGED <<status, faces, from, active, matches, ptx, history>>
        /\ \A a \in Participant : enrollment'[a] = "ready" => enrollment[a] = "ready"
    BY <1>1, <1>4 DEF RefuseSelfie, MarkEnrollFailed, MarkEnrollSwallowed, EnrollRaises, Verdicts, db
  <2>2. etx'.pc \notin {"switched", "replaced", "matched"}
    BY <1>1, <1>4 DEF RefuseSelfie, MarkEnrollFailed, MarkEnrollSwallowed, EnrollRaises,
                      EnrollSteps, EnrollTx, NoEnroll
  <2>3. QED
    BY <1>1, <2>1, <2>2, Elsewhere
<1>5. CASE CommitEnroll \/ (EnrollRaises /\ EnrollEffect)
  <2>1. EnrollEffect /\ ptx' = ptx /\ etx'.pc \notin {"switched", "replaced", "matched"}
    BY <1>5 DEF CommitEnroll, EnrollRaises, NoEnroll
  <2>2. QED
    BY <2>1, EffectKeeps
<1>6. CASE SwitchOff \/ DeleteMatches
  BY <1>6, SwitchOffKeeps, DeleteMatchesKeeps
<1>7. CASE MatchIdentity
  BY <1>7, MatchIdentityKeeps
<1>8. CASE PhotoNext
  BY <1>8, BeginKeeps, ScanKeeps, InsertKeeps, CommitPhotoKeeps, RolledBackKeeps
  DEF PhotoNext, PhotoRaises, CommitPhoto
<1>9. CASE WorkerCrash
  BY <1>9, RolledBackKeeps
<1>10. CASE EnrollNext
  BY <1>3, <1>4, <1>5, <1>6, <1>7, <1>10 DEF EnrollNext, EnrollRaises
<1>11. QED
  BY <1>2, <1>8, <1>9, <1>10 DEF Next

(* The inductive invariant: types, queue, and what the two transactions, the*)
(* identities and the matches have to do with each other.                   *)
THEOREM Invariance == Spec => []IInv
<1>1. Init => IInv
  BY InitTyped, InitGalleries DEF IInv
<1>2. IInv /\ [Next]_vars => IInv'
  BY NextTyped, NextGalleries DEF IInv
<1>3. QED
  BY <1>1, <1>2, PTL DEF Spec

(* Retakes, retries of selfies enrolled before, crashes and rollbacks leave *)
(* a participant at most one active identity, and exactly one when the      *)
(* enrollment status says "ready" (enroll_selfie).                          *)
THEOREM OneIdentity == Spec => []OneIdentityWhenReady
<1>1. IInv => OneIdentityWhenReady
  <2> SUFFICES ASSUME IInv, NEW a \in Participant
               PROVE  /\ Cardinality(ActiveOf(a)) <= 1
                      /\ enrollment[a] = "ready" => ActiveOf(a) # {}
    BY DEF OneIdentityWhenReady
  <2>1. OneEach /\ ReadyHasOne
    BY DEF IInv, Galleries
  <2>2. Cardinality(ActiveOf(a)) <= 1
    <3>1. CASE ActiveOf(a) = {}
      BY <3>1, FS_EmptySet
    <3>2. CASE ActiveOf(a) # {}
      <4>1. PICK i \in ActiveOf(a) : TRUE
        BY <3>2
      <4>2. ActiveOf(a) = {i}
        BY <2>1, <4>1 DEF OneEach, ActiveOf
      <4>3. Cardinality({i}) = 1
        BY FS_Singleton
      <4>4. QED
        BY <4>2, <4>3
    <3>3. QED
      BY <3>1, <3>2
  <2>3. enrollment[a] = "ready" => ActiveOf(a) # {}
    BY <2>1 DEF ReadyHasOne, ActiveOf
  <2>4. QED
    BY <2>2, <2>3
<1>2. QED
  BY <1>1, Invariance, PTL

(* The two directions of the matching leave out a similar face of a shown   *)
(* photo only when their transactions were open at once, or the photo was   *)
(* hidden when the selfie was matched (enroll.py:77-80, pipeline.py:167-176)*)
THEOREM NoOtherGaps == Spec => []GapsAreExplained
<1>1. IInv => GapsAreExplained
  BY DEF IInv, Galleries, Gaps, GapsAreExplained, Shown
<1>2. QED
  BY <1>1, Invariance, PTL

(* A match of an identity that is off is one that the photo's transaction   *)
(* wrote while a later selfie of the participant was being enrolled.        *)
THEOREM NoOtherLeftovers == Spec => []LeftoversAreExplained
<1>1. IInv => LeftoversAreExplained
  <2> SUFFICES ASSUME IInv, NEW m \in matches, m[2] \notin active
               PROVE  \E i \in Identity \ Unused : OwnerOf(i) = OwnerOf(m[2])
                                                    /\ <<PhotoOf[m[1]], i>> \in overlapped
    BY DEF LeftoversAreExplained
  <2>1. DbTypes /\ Leftovers
    BY TypeParts DEF IInv, Typed, Parts, Galleries
  <2>2. PICK f \in Face, i \in Identity : m = <<f, i>>
    BY <2>1 DEF DbTypes, Match
  <2>3. Replaced(f, i)
    BY <2>1, <2>2 DEF Leftovers
  <2>4. QED
    BY <2>2, <2>3 DEF Replaced
<1>2. QED
  BY <1>1, Invariance, PTL

--------------------------------------------------------------------------------
(* The order of selfies.                                                    *)

Started(s) == job[s].st \notin {"absent", "waiting"} \/ Retried(s)
Holds(s) == etx.pc # "idle" /\ etx.sel = s
Before(s, t) == s < t /\ Owner[s] = Owner[t]

(* A job exists when its upload is done, waits in the list, and is delayed  *)
(* only for another attempt.                                                *)
JobsKnown ==
  \A s \in Selfie : /\ post[s] = "done" => job[s].st # "absent"
                    /\ job[s].st = "absent" => ~Retried(s)
                    /\ job[s].st = "delayed" => Retried(s)
                    /\ job[s].st = "waiting" => \E n \in 1..Len(waiting) : waiting[n] = s

(* A participant's uploads follow one another; ...                          *)
UploadsInOrder ==
  \A s, t \in Selfie : Before(s, t) /\ post[t] # "idle" => post[s] \in {"done", "failed"}

(* ... the jobs wait in that order, but for the ones that are tried again...*)
JobsInOrder ==
  \A s, t \in Selfie, m, n \in 1..Len(waiting) :
     m < n /\ waiting[m] = t /\ waiting[n] = s /\ Before(s, t) => Retried(s)

(* ... and so the worker never holds the older one after the newer.         *)
TakenInOrder ==
  \A s, t \in Selfie : Before(s, t) /\ Started(t) /\ ~Retried(s)
                        => ~Holds(s) /\ job[s].st # "waiting"

MadeOfStarted == \A i \in Identity \ Unused : Started(from[i])

InOrder == /\ JobsKnown /\ UploadsInOrder /\ JobsInOrder /\ TakenInOrder /\ MadeOfStarted
           /\ NewestSelfieWins

(* Nobody has uploaded anything yet.                                        *)
LEMMA InitInOrder == Init => InOrder
BY SMTT(30) DEF Init, InOrder, JobsKnown, UploadsInOrder, JobsInOrder, TakenInOrder, MadeOfStarted,
       NewestSelfieWins, Started, Retried, Holds, NoEnroll, Unused

(* A step that leaves uploads, jobs and identities alone and takes nothing. *)
LEMMA OrderUntouched ==
  ASSUME InOrder, UNCHANGED <<post, job, waiting, from>>, active' \subseteq active,
         \A s : Holds(s)' => Holds(s)
  PROVE  InOrder'
<1>1. Unused' = Unused /\ \A i : OwnerOf(i)' = OwnerOf(i)
  BY DEF Unused, OwnerOf
<1>2. \A s : Started(s)' = Started(s) /\ Retried(s)' = Retried(s)
  BY DEF Started, Retried
<1> QED
  BY <1>1, <1>2 DEF InOrder, JobsKnown, UploadsInOrder, JobsInOrder, TakenInOrder, MadeOfStarted,
                    NewestSelfieWins

(* The route: an upload starts when the one before is over, and its job goes*)
(* to the end of the list.                                                  *)
LEMMA PostInOrder ==
  ASSUME IInv, InOrder, NEW s \in Selfie,
         PostSelfie(s) \/ MarkProcessing(s) \/ AddSelfieJob(s) \/ PostFails(s)
  PROVE  InOrder'
<1> USE InputAssumption
<1>1. /\ QueueTypes /\ JobsSound /\ ListSound
      /\ JobsKnown /\ UploadsInOrder /\ JobsInOrder /\ TakenInOrder /\ MadeOfStarted
      /\ NewestSelfieWins
  BY TypeParts DEF IInv, Typed, Parts, InOrder
<1>2. /\ post' = [post EXCEPT ![s] = post'[s]] /\ post[s] \in {"idle", "stored", "marked"}
      /\ post[s] = "idle" => \A t \in Selfie : Before(t, s) => post[t] \in {"done", "failed"}
      /\ post'[s] # "idle" /\ (post'[s] = "done" <=> AddSelfieJob(s))
      /\ UNCHANGED <<from, active, etx>>
  BY <1>1 DEF PostSelfie, MarkProcessing, AddSelfieJob, PostFails, Posting, QueueTypes, Before, db
<1>3. UploadsInOrder'
  BY <1>1, <1>2 DEF UploadsInOrder, QueueTypes, Before
<1>4. CASE UNCHANGED <<job, waiting>>
  <2>1. JobsKnown'
    <3>1. \A t \in Selfie : t # s => post'[t] = post[t]
      BY <1>1, <1>2 DEF QueueTypes
    <3>2. ~AddSelfieJob(s)
      <4>1. job[s].st = "absent" /\ job[s] \in JobState
        BY <1>1, <1>2 DEF JobsSound, QueueTypes
      <4> QED BY <1>1, <1>4, <4>1 DEF AddSelfieJob, QueueTypes, JobState
    <3> QED BY <1>1, <1>2, <1>4, <3>1, <3>2 DEF JobsKnown, Retried
  <2>2. \A t : Holds(t)' = Holds(t) /\ Started(t)' = Started(t) /\ Retried(t)' = Retried(t)
    BY <1>2, <1>4 DEF Holds, Started, Retried
  <2>3. Unused' = Unused /\ \A i : OwnerOf(i)' = OwnerOf(i)
    BY <1>2 DEF Unused, OwnerOf
  <2> QED BY <1>1, <1>2, <1>3, <1>4, <2>1, <2>2, <2>3
          DEF InOrder, JobsInOrder, TakenInOrder, MadeOfStarted, NewestSelfieWins
<1>5. CASE AddSelfieJob(s)
  <2>1. /\ job[s].st = "absent" /\ ~Retried(s) /\ post[s] = "marked"
        /\ waiting' = Append(waiting, s)
        /\ job' = [job EXCEPT ![s] = [job[s] EXCEPT !.st = "waiting"]]
    BY <1>1, <1>2, <1>5 DEF AddSelfieJob, Posting, JobsSound, JobsKnown
  <2>2. /\ job'[s].st = "waiting" /\ ~Retried(s)' /\ ~Started(s) /\ ~Started(s)'
        /\ \A t \in Selfie : t # s => job'[t] = job[t]
    BY <1>1, <2>1 DEF QueueTypes, JobState, Retried, Started
  <2>3. \A t \in Selfie : /\ Retried(t)' = Retried(t) /\ Started(t)' = Started(t)
                          /\ Holds(t)' = Holds(t)
    BY <1>2, <2>1, <2>2 DEF Retried, Started, Holds
  <2>4. \A t \in Selfie : Before(s, t) => post[t] = "idle" /\ job[t].st = "absent" /\ ~Started(t)
    BY <1>1, <2>1 DEF UploadsInOrder, JobsSound, JobsKnown, Started
  <2>5. /\ waiting \in Seq(Selfie) /\ Len(waiting) \in Nat
        /\ Len(waiting') = Len(waiting) + 1 /\ waiting'[Len(waiting) + 1] = s
        /\ \A n \in 1..Len(waiting) : waiting'[n] = waiting[n] /\ waiting[n] \in Selfie
    BY <1>1, <2>1 DEF QueueTypes
  <2>6. JobsKnown'
    <3> SUFFICES ASSUME NEW t \in Selfie
                 PROVE  /\ post'[t] = "done" => job'[t].st # "absent"
                        /\ job'[t].st = "absent" => ~Retried(t)'
                        /\ job'[t].st = "delayed" => Retried(t)'
                        /\ job'[t].st = "waiting"
                             => \E n \in 1..Len(waiting') : waiting'[n] = t
      BY DEF JobsKnown
    <3>1. CASE t = s
      BY <2>2, <2>5, <3>1
    <3>2. CASE t # s
      <4>1. post'[t] = post[t] /\ job'[t] = job[t] /\ Retried(t)' = Retried(t)
        BY <1>1, <1>2, <2>2, <2>3, <3>2 DEF QueueTypes
      <4> QED BY <1>1, <2>5, <4>1 DEF JobsKnown
    <3> QED BY <3>1, <3>2
  <2>7. JobsInOrder'
    <3> SUFFICES ASSUME NEW r \in Selfie, NEW t \in Selfie,
                        NEW m \in 1..Len(waiting'), NEW n \in 1..Len(waiting'),
                        m < n, waiting'[m] = t, waiting'[n] = r, Before(r, t)
                 PROVE  Retried(r)'
      BY DEF JobsInOrder, Before
    <3>1. m \in 1..Len(waiting) /\ waiting[m] = t
      BY <2>5
    <3>2. CASE n \in 1..Len(waiting)
      <4>1. waiting[n] = r
        BY <2>5, <3>2
      <4> QED BY <1>1, <2>3, <3>1, <3>2, <4>1 DEF JobsInOrder
    <3>3. CASE n = Len(waiting) + 1
      <4>1. r = s /\ job[t].st = "absent"
        BY <2>4, <2>5, <3>3
      <4> QED BY <1>1, <3>1, <4>1 DEF ListSound
    <3> QED BY <2>5, <3>2, <3>3
  <2>8. TakenInOrder'
    BY <1>1, <2>2, <2>3, <2>4 DEF TakenInOrder, Before
  <2>9. MadeOfStarted' /\ NewestSelfieWins'
    <3>1. Unused' = Unused /\ \A i : OwnerOf(i)' = OwnerOf(i)
      BY <1>2 DEF Unused, OwnerOf
    <3>2. \A i \in Identity \ Unused : from[i] \in Selfie
      BY TypeParts DEF IInv, Typed, Parts, DbTypes, Unused
    <3>3. active \subseteq Identity \ Unused
      BY TypeParts DEF IInv, Typed, Parts, DbTypes
    <3> QED BY <1>1, <1>2, <2>3, <3>1, <3>2, <3>3 DEF MadeOfStarted, NewestSelfieWins
  <2> QED BY <1>3, <2>6, <2>7, <2>8, <2>9 DEF InOrder
<1> QED BY <1>4, <1>5 DEF PostSelfie, MarkProcessing, PostFails

(* The worker takes the oldest job on the list.                             *)
LEMMA TakeInOrder ==
  ASSUME IInv, InOrder, TakeSelfie
  PROVE  InOrder'
<1> USE InputAssumption
<1>1. /\ QueueTypes /\ ListSound
      /\ JobsKnown /\ UploadsInOrder /\ JobsInOrder /\ TakenInOrder /\ MadeOfStarted
      /\ NewestSelfieWins
  BY TypeParts DEF IInv, Typed, Parts, InOrder
<1>2. /\ waiting \in Seq(Selfie) /\ waiting # <<>> /\ waiting' = Tail(waiting)
      /\ job' = [job EXCEPT ![Head(waiting)] = [job[Head(waiting)] EXCEPT !.st = "active"]]
      /\ etx' = [NoEnroll EXCEPT !.pc = "detect", !.sel = Head(waiting)]
      /\ UNCHANGED <<post, from, active>>
  BY <1>1 DEF TakeSelfie, QueueTypes, db
<1>3. /\ Head(waiting) = waiting[1] /\ waiting[1] \in Selfie /\ 1 \in 1..Len(waiting)
      /\ Len(waiting) \in Nat /\ Len(waiting') = Len(waiting) - 1
      /\ \A n \in 1..Len(waiting') : waiting'[n] = waiting[n + 1] /\ n + 1 \in 1..Len(waiting)
      /\ \A n \in 1..Len(waiting) : n # 1 => n - 1 \in 1..Len(waiting') /\ waiting'[n - 1] = waiting[n]
  BY <1>2
<1>4. PICK h \in Selfie : /\ h = waiting[1]
                          /\ job' = [job EXCEPT ![h] = [job[h] EXCEPT !.st = "active"]]
                          /\ etx' = [NoEnroll EXCEPT !.pc = "detect", !.sel = h]
  BY <1>2, <1>3
<1>5. /\ job[h].st = "waiting" /\ job'[h].st = "active" /\ Retried(h)' = Retried(h)
      /\ \A s \in Selfie : s # h => job'[s] = job[s] /\ Retried(s)' = Retried(s)
  <2>1. job[h].st = "waiting" /\ job[h] \in JobState
    BY <1>1, <1>3, <1>4 DEF ListSound, QueueTypes
  <2>2. [job[h] EXCEPT !.st = "active"] \in JobState
    BY <2>1 DEF JobState
  <2>3. /\ job'[h] = [job[h] EXCEPT !.st = "active"]
        /\ \A s \in Selfie : s # h => job'[s] = job[s]
    BY <1>1, <1>4, <2>2, JobMoved
  <2> QED BY <2>1, <2>3 DEF JobState, Retried
<1>6. /\ Started(h)'
      /\ \A s \in Selfie : (Started(s) => Started(s)') /\ (s # h => Started(s)' = Started(s))
      /\ \A s \in Selfie : s # h => ~Holds(s)'
  <2>1. etx'.sel = h
    BY <1>4 DEF NoEnroll
  <2>2. Started(h)' /\ \A s \in Selfie : s # h => Started(s)' = Started(s)
    BY <1>5 DEF Started
  <2> QED BY <2>1, <2>2 DEF Holds
<1>7. JobsKnown'
  <2> SUFFICES ASSUME NEW s \in Selfie
               PROVE  /\ post'[s] = "done" => job'[s].st # "absent"
                      /\ job'[s].st = "absent" => ~Retried(s)'
                      /\ job'[s].st = "delayed" => Retried(s)'
                      /\ job'[s].st = "waiting" => \E n \in 1..Len(waiting') : waiting'[n] = s
    BY DEF JobsKnown
  <2>1. CASE s = h
    BY <1>5, <2>1
  <2>2. CASE s # h
    <3>1. job'[s] = job[s] /\ Retried(s)' = Retried(s) /\ post'[s] = post[s]
      BY <1>2, <1>5, <2>2
    <3>2. ASSUME job'[s].st = "waiting" PROVE \E n \in 1..Len(waiting') : waiting'[n] = s
      <4>1. PICK n \in 1..Len(waiting) : waiting[n] = s
        BY <1>1, <3>1, <3>2 DEF JobsKnown
      <4>2. n # 1
        BY <1>4, <2>2, <4>1
      <4> QED BY <1>3, <4>1, <4>2
    <3> QED BY <1>1, <3>1, <3>2 DEF JobsKnown
  <2> QED BY <2>1, <2>2
<1>8. JobsInOrder'
  <2> SUFFICES ASSUME NEW s \in Selfie, NEW t \in Selfie,
                      NEW m \in 1..Len(waiting'), NEW n \in 1..Len(waiting'),
                      m < n, waiting'[m] = t, waiting'[n] = s, Before(s, t)
               PROVE  Retried(s)'
    BY DEF JobsInOrder, Before
  <2>1. m + 1 < n + 1 /\ waiting[m + 1] = t /\ waiting[n + 1] = s
        /\ m + 1 \in 1..Len(waiting) /\ n + 1 \in 1..Len(waiting)
    BY <1>3
  <2>2. Retried(s)
    BY <1>1, <2>1 DEF JobsInOrder
  <2> QED BY <1>5, <2>2
<1>9. TakenInOrder'
  <2> SUFFICES ASSUME NEW s \in Selfie, NEW t \in Selfie, Before(s, t), Started(t)', ~Retried(s)'
               PROVE  ~Holds(s)' /\ job'[s].st # "waiting"
    BY DEF TakenInOrder, Before
  <2>1. s # t /\ ~Retried(s)
    BY <1>5 DEF Before
  <2>2. CASE t = h
    <3>1. job[s].st # "waiting"
      <4> SUFFICES ASSUME job[s].st = "waiting" PROVE FALSE
        OBVIOUS
      <4>1. PICK n \in 1..Len(waiting) : waiting[n] = s
        BY <1>1 DEF JobsKnown
      <4>2. n # 1 /\ 1 < n
        BY <1>3, <1>4, <2>1, <2>2, <4>1
      <4> QED BY <1>1, <1>3, <1>4, <2>1, <2>2, <4>1, <4>2 DEF JobsInOrder
    <3> QED BY <1>5, <1>6, <2>1, <2>2, <3>1
  <2>3. CASE t # h
    <3>1. job[s].st # "waiting"
      BY <1>1, <1>6, <2>1, <2>3 DEF TakenInOrder
    <3> QED BY <1>5, <1>6, <3>1
  <2> QED BY <2>2, <2>3
<1>10. Unused' = Unused /\ \A i : OwnerOf(i)' = OwnerOf(i)
  BY <1>2 DEF Unused, OwnerOf
<1>11. /\ \A i \in Identity \ Unused : from[i] \in Selfie
       /\ active \subseteq Identity \ Unused
  BY TypeParts DEF IInv, Typed, Parts, DbTypes, Unused
<1>12. MadeOfStarted' /\ NewestSelfieWins'
  BY <1>1, <1>2, <1>5, <1>6, <1>10, <1>11 DEF MadeOfStarted, NewestSelfieWins
<1> QED BY <1>1, <1>2, <1>7, <1>8, <1>9, <1>12 DEF InOrder, UploadsInOrder

(* A job that was started is over or is tried again, and then it counts as  *)
(* retried.                                                                 *)
LEMMA MovedInOrder ==
  ASSUME IInv, InOrder, NEW r \in Selfie, NEW new \in JobState,
         job' = [job EXCEPT ![r] = new], job[r].st \notin {"absent", "waiting"},
         \/ new.st \in {"completed", "failed"}
         \/ new.st \in {"waiting", "delayed"} /\ (new.made > 0 \/ new.stalls > 0),
         Retried(r) => new.made > 0 \/ new.stalls > 0,
         IF new.st = "waiting"
           THEN waiting' = Append(waiting, r) \/ waiting' = <<r>> \o waiting
           ELSE waiting' = waiting,
         UNCHANGED <<post, from, active>>, \A s : Holds(s)' => Holds(s)
  PROVE  InOrder'
<1> USE InputAssumption
<1>1. /\ QueueTypes /\ ListSound
      /\ JobsKnown /\ UploadsInOrder /\ JobsInOrder /\ TakenInOrder /\ MadeOfStarted
      /\ NewestSelfieWins
  BY TypeParts DEF IInv, Typed, Parts, InOrder
<1>2. /\ job'[r] = new
      /\ \A s \in Selfie : s # r => job'[s] = job[s] /\ Retried(s)' = Retried(s)
  BY <1>1, JobMoved DEF Retried
<1>3. /\ \A s \in Selfie : Retried(s) => Retried(s)'
      /\ new.st \in {"waiting", "delayed"} => Retried(r)'
      /\ Started(r) /\ Started(r)'
      /\ \A s \in Selfie : s # r => Started(s)' = Started(s)
  BY <1>2 DEF Retried, Started
<1>4. /\ waiting \in Seq(Selfie) /\ Len(waiting) \in Nat
      /\ \A n \in 1..Len(waiting) : waiting[n] \in Selfie /\ job[waiting[n]].st = "waiting"
                                    /\ waiting[n] # r
  BY <1>1 DEF QueueTypes, ListSound
<1>5. UploadsInOrder' /\ TakenInOrder' /\ MadeOfStarted' /\ NewestSelfieWins'
  <2>1. UploadsInOrder'
    BY <1>1 DEF UploadsInOrder, Before
  <2>2. TakenInOrder'
    <3> SUFFICES ASSUME NEW s \in Selfie, NEW t \in Selfie, Before(s, t), Started(t)', ~Retried(s)'
                 PROVE  ~Holds(s)' /\ job'[s].st # "waiting"
      BY DEF TakenInOrder, Before
    <3>1. ~Retried(s) /\ Started(t)
      BY <1>3
    <3>2. ~Holds(s) /\ job[s].st # "waiting"
      BY <1>1, <3>1 DEF TakenInOrder
    <3> QED BY <1>2, <1>3, <3>2
  <2>3. Unused' = Unused /\ \A i : OwnerOf(i)' = OwnerOf(i)
    BY DEF Unused, OwnerOf
  <2>4. /\ \A i \in Identity \ Unused : from[i] \in Selfie
        /\ active \subseteq Identity \ Unused
    BY TypeParts DEF IInv, Typed, Parts, DbTypes, Unused
  <2> QED BY <1>1, <1>3, <2>1, <2>2, <2>3, <2>4 DEF MadeOfStarted, NewestSelfieWins
<1>6. CASE new.st # "waiting"
  <2>1. JobsKnown'
    BY <1>1, <1>2, <1>3, <1>6 DEF JobsKnown
  <2>2. JobsInOrder'
    BY <1>1, <1>3, <1>6 DEF JobsInOrder, Before
  <2> QED BY <2>1, <2>2, <1>5 DEF InOrder
<1>7. CASE waiting' = Append(waiting, r) /\ new.st = "waiting"
  <2>1. /\ Len(waiting') = Len(waiting) + 1 /\ waiting'[Len(waiting) + 1] = r
        /\ \A n \in 1..Len(waiting) : waiting'[n] = waiting[n] /\ n \in 1..Len(waiting')
        /\ \A n \in 1..Len(waiting') : n \in 1..Len(waiting) \/ n = Len(waiting) + 1
    BY <1>4, <1>7
  <2>2. JobsKnown'
    BY <1>1, <1>2, <1>3, <1>4, <1>7, <2>1 DEF JobsKnown
  <2>3. JobsInOrder'
    <3> SUFFICES ASSUME NEW s \in Selfie, NEW t \in Selfie,
                        NEW m \in 1..Len(waiting'), NEW n \in 1..Len(waiting'),
                        m < n, waiting'[m] = t, waiting'[n] = s, Before(s, t)
                 PROVE  Retried(s)'
      BY DEF JobsInOrder, Before
    <3>1. CASE n = Len(waiting) + 1
      BY <1>3, <1>7, <2>1, <3>1
    <3>2. CASE n \in 1..Len(waiting)
      <4>1. m \in 1..Len(waiting)
        BY <1>4, <3>2
      <4> QED BY <1>1, <1>3, <2>1, <3>2, <4>1 DEF JobsInOrder
    <3> QED BY <2>1, <3>1, <3>2
  <2> QED BY <2>2, <2>3, <1>5 DEF InOrder
<1>8. CASE waiting' = <<r>> \o waiting /\ new.st = "waiting"
  <2>1. /\ Len(waiting') = Len(waiting) + 1 /\ waiting'[1] = r /\ 1 \in 1..Len(waiting')
        /\ \A n \in 1..Len(waiting) : waiting'[n + 1] = waiting[n] /\ n + 1 \in 1..Len(waiting')
        /\ \A n \in 1..Len(waiting') : n = 1 \/ (n - 1 \in 1..Len(waiting)
                                                 /\ waiting'[n] = waiting[n - 1])
    BY <1>4, <1>8
  <2>2. JobsKnown'
    BY <1>1, <1>2, <1>3, <1>4, <1>8, <2>1 DEF JobsKnown
  <2>3. JobsInOrder'
    <3> SUFFICES ASSUME NEW s \in Selfie, NEW t \in Selfie,
                        NEW m \in 1..Len(waiting'), NEW n \in 1..Len(waiting'),
                        m < n, waiting'[m] = t, waiting'[n] = s, Before(s, t)
                 PROVE  Retried(s)'
      BY DEF JobsInOrder, Before
    <3>1. n # 1 /\ n - 1 \in 1..Len(waiting) /\ waiting[n - 1] = s
      BY <2>1
    <3>2. CASE m = 1
      <4>1. t = r /\ job[s].st = "waiting"
        BY <1>4, <2>1, <3>1, <3>2
      <4>2. Retried(s)
        BY <1>1, <1>3, <4>1 DEF TakenInOrder
      <4> QED BY <1>3, <4>2
    <3>3. CASE m # 1
      <4>1. m - 1 \in 1..Len(waiting) /\ waiting[m - 1] = t /\ m - 1 < n - 1
        BY <2>1, <3>3
      <4>2. Retried(s)
        BY <1>1, <3>1, <4>1 DEF JobsInOrder
      <4> QED BY <1>3, <4>2
    <3> QED BY <3>2, <3>3
  <2> QED BY <2>2, <2>3, <1>5 DEF InOrder
<1> QED BY <1>6, <1>7, <1>8

(* The enrollment of the selfie that the worker holds: every later one that *)
(* was enrolled before it was started, so this one is being retried.        *)
LEMMA EffectInOrder ==
  ASSUME IInv, InOrder, EnrollEffect, UNCHANGED queue, \A s : Holds(s)' => Holds(s)
  PROVE  InOrder'
<1> USE InputAssumption
<1>1. /\ DbTypes /\ Held /\ Replacing /\ Enrolls /\ etx \in EnrollTx
      /\ JobsKnown /\ UploadsInOrder /\ JobsInOrder /\ TakenInOrder /\ MadeOfStarted
      /\ NewestSelfieWins
  BY TypeParts DEF IInv, Typed, Parts, Galleries, InOrder
<1>2. /\ etx.pc = "matched" /\ EnrollTxOpen /\ etx.sel \in Selfie /\ Holds(etx.sel)
      /\ job[etx.sel].st = "active" /\ UNCHANGED <<post, job, waiting>>
  BY <1>1 DEF EnrollEffect, EnrollTxOpen, Held, Holds, queue
<1>3. PICK i \in Unused : Enrolled(i)
  BY <1>1, <1>2 DEF Enrolls
<1>4. i \in Identity /\ from[i] = NoSelfie /\ etx.new = {i} /\ i \notin active
  BY <1>1, <1>3 DEF Unused, Enrolled, DbTypes
<1>5. /\ from'[i] = etx.sel /\ \A j \in Identity : j # i => from'[j] = from[j]
      /\ \A j : j \in active' <=> j = i \/ (j \in active /\ j \notin etx.off)
  BY <1>4 DEF EnrollEffect
<1>6. /\ \A j \in Identity : j \notin Unused' <=> j \notin Unused \/ j = i
      /\ OwnerOf(i)' = Enrolling
      /\ \A j \in Identity : j # i => OwnerOf(j)' = OwnerOf(j)
      /\ active \subseteq Identity \ Unused
      /\ \A j \in Identity \ Unused : from[j] \in Selfie
  BY <1>1, <1>2, <1>3, <1>4, <1>5 DEF Unused, OwnerOf, Enrolling, DbTypes
<1>7. /\ \A s : Retried(s)' = Retried(s) /\ Started(s)' = Started(s)
      /\ Started(etx.sel)
  BY <1>2 DEF Retried, Started
<1>8. MadeOfStarted'
  BY <1>1, <1>5, <1>6, <1>7 DEF MadeOfStarted
<1>9. NewestSelfieWins'
  <2> SUFFICES ASSUME NEW k \in active', NEW j \in Identity \ Unused',
                      OwnerOf(j)' = OwnerOf(k)', from'[j] > from'[k]
               PROVE  Retried(from[k])'
    BY DEF NewestSelfieWins
  <2>1. k \in Identity /\ j \in Identity
    BY <1>4, <1>5, <1>6
  <2>2. CASE k = i
    <3>1. j # i /\ j \in Identity \ Unused /\ OwnerOf(j) = Enrolling /\ from[j] > etx.sel
      <4>1. j # i
        <5>1. etx.sel \in Nat
          BY <1>2
        <5>2. ~(etx.sel > etx.sel)
          BY <5>1
        <5>3. from'[k] = etx.sel
          BY <1>5, <2>2
        <5> QED BY <2>2, <5>2, <5>3
      <4>2. OwnerOf(j) = Enrolling /\ j \notin Unused
        BY <1>6, <2>1, <2>2, <4>1
      <4> QED BY <1>5, <2>1, <2>2, <4>1, <4>2
    <3>2. from[j] \in Selfie /\ Started(from[j]) /\ Before(etx.sel, from[j])
      BY <1>1, <1>2, <1>6, <3>1 DEF MadeOfStarted, Before, OwnerOf, Enrolling
    <3>3. Retried(etx.sel)
      BY <1>1, <1>2, <3>2 DEF TakenInOrder
    <3> QED BY <1>2, <1>5, <2>2, <3>3 DEF Retried
  <2>3. CASE k # i
    <3>1. k \in active /\ k \notin etx.off /\ OwnerOf(k) # Enrolling
      BY <1>1, <1>2, <1>5, <2>1, <2>3 DEF Replacing
    <3>2. j # i
      BY <1>6, <2>1, <2>3, <3>1
    <3>3. Retried(from[k])
      BY <1>1, <1>5, <1>6, <2>1, <2>3, <3>1, <3>2 DEF NewestSelfieWins
    <3> QED BY <1>2, <1>5, <2>1, <2>3, <3>3 DEF Retried
  <2> QED BY <2>2, <2>3
<1>10. JobsKnown' /\ UploadsInOrder' /\ JobsInOrder' /\ TakenInOrder'
  BY <1>1, <1>2, <1>7 DEF JobsKnown, UploadsInOrder, JobsInOrder, TakenInOrder, Before
<1> QED BY <1>8, <1>9, <1>10 DEF InOrder

(* The order of selfies over whatever a step does.                          *)
LEMMA NextInOrder == IInv /\ InOrder /\ [Next]_vars => InOrder'
<1> SUFFICES ASSUME IInv, InOrder, [Next]_vars PROVE InOrder'
  OBVIOUS
<1>1. QueueTypes /\ JobsSound /\ ListSound /\ Held /\ etx \in EnrollTx /\ JobsKnown
  BY TypeParts DEF IInv, Typed, Parts, InOrder
<1>2. CASE PostNext
  BY <1>2, PostInOrder DEF PostNext
<1>3. CASE TakeSelfie
  BY <1>3, TakeInOrder
<1>4. CASE AcknowledgeSelfie \/ RejectSelfie
  <2>1. UNCHANGED <<post, from, active>>
    BY <1>4 DEF AcknowledgeSelfie, RejectSelfie, db
  <2>2. PICK r \in Selfie, new \in JobState :
          /\ job[r].st = "active" /\ etx' = NoEnroll /\ waiting' = waiting
          /\ job' = [job EXCEPT ![r] = new]
          /\ new.st \in {"completed", "failed"} \/ (new.st = "delayed" /\ new.made > 0)
          /\ Retried(r) => new.made > 0 \/ new.stalls > 0
    BY <1>1, <1>4, GivenBack
  <2>3. \A s : ~Holds(s)'
    BY <2>2 DEF Holds, NoEnroll
  <2> QED BY <2>1, <2>2, <2>3, MovedInOrder
<1>5. ASSUME NEW s \in Selfie, SelfieBackoff(s) \/ SelfieStalled(s) PROVE InOrder'
  <2>1. UNCHANGED <<post, from, active>>
    BY <1>5 DEF SelfieBackoff, SelfieStalled, db
  <2>2. PICK new \in JobState :
          /\ etx' = etx /\ job[s].st \in {"delayed", "active"}
          /\ job' = [job EXCEPT ![s] = new]
          /\ IF new.st = "waiting"
               THEN waiting' = Append(waiting, s) \/ waiting' = <<s>> \o waiting
               ELSE waiting' = waiting
          /\ new.st = "failed" \/ (new.st = "waiting" /\ (Retried(s) \/ new.stalls > 0
                                                            \/ job[s].st = "delayed"))
          /\ Retried(s) => new.made > 0 \/ new.stalls > 0
    BY <1>1, <1>5, WaitsAgain
  <2>3. job[s].st = "delayed" => Retried(s)
    BY <1>1 DEF JobsKnown
  <2>4. \A t : Holds(t)' => Holds(t)
    BY <2>2 DEF Holds
  <2> QED BY <2>1, <2>2, <2>3, <2>4, MovedInOrder
<1>6. CASE CommitEnroll \/ (EnrollRaises /\ EnrollEffect)
  <2>1. EnrollEffect /\ UNCHANGED queue /\ etx.pc # "idle" /\ etx'.sel = etx.sel
    BY <1>1, <1>6 DEF CommitEnroll, EnrollRaises, EnrollEffect, NoEnroll
  <2>2. \A s : Holds(s)' => Holds(s)
    BY <2>1 DEF Holds
  <2> QED BY <2>1, <2>2, EffectInOrder
<1>7. CASE \/ RefuseSelfie \/ SwitchOff \/ DeleteMatches \/ MatchIdentity
           \/ MarkEnrollFailed \/ MarkEnrollSwallowed \/ (EnrollRaises /\ UNCHANGED <<db, history>>)
  <2>1. UNCHANGED <<post, job, waiting, from, active>>
    BY <1>7 DEF RefuseSelfie, SwitchOff, DeleteMatches, MatchIdentity, MarkEnrollFailed,
                MarkEnrollSwallowed, EnrollRaises, db, queue
  <2>2. etx.pc # "idle" /\ etx'.sel = etx.sel
    BY <1>1, <1>7 DEF RefuseSelfie, SwitchOff, DeleteMatches, MatchIdentity, MarkEnrollFailed,
                MarkEnrollSwallowed, EnrollRaises, EnrollSteps, EnrollTx, NoEnroll
  <2>3. \A s : Holds(s)' => Holds(s)
    BY <2>2 DEF Holds
  <2> QED BY <2>1, <2>3, OrderUntouched
<1>8. CASE PhotoNext \/ WorkerCrash \/ UNCHANGED vars
           \/ \E p \in Photo, v \in BOOLEAN : SetPublished(p, v)
  <2>1. UNCHANGED <<post, job, waiting, from, active>>
    BY <1>8 DEF PhotoNext, BeginPhoto, ScanFace, InsertMatches, CommitPhoto, PhotoEffect, PhotoRaises,
                MarkPhotoFailed, MarkPhotoSwallowed, WorkerCrash, SetPublished, db, queue, vars
  <2>2. (etx'.pc = etx.pc /\ etx'.sel = etx.sel) \/ etx'.pc = "idle"
    <3>1. CASE \E p \in Photo : BeginPhoto(p)
      <4>1. etx' = etx \/ \E p : etx' = [etx EXCEPT !.met = @ \cup {p}]
        BY <3>1 DEF BeginPhoto
      <4> QED BY <1>1, <4>1 DEF EnrollTx
    <3>2. CASE WorkerCrash
      BY <3>2 DEF WorkerCrash, NoEnroll
    <3>3. CASE etx' = etx
      BY <3>3
    <3> QED
      BY <1>8, <3>1, <3>2, <3>3
      DEF PhotoNext, ScanFace, InsertMatches, CommitPhoto, PhotoRaises, MarkPhotoFailed,
          MarkPhotoSwallowed, SetPublished, vars
  <2>3. \A s : Holds(s)' => Holds(s)
    BY <2>2 DEF Holds
  <2> QED BY <2>1, <2>3, OrderUntouched
<1>9. CASE EnrollNext
  BY <1>3, <1>4, <1>5, <1>6, <1>7, <1>9 DEF EnrollNext, EnrollRaises
<1> QED BY <1>2, <1>8, <1>9 DEF Next

(* A participant is matched by the newest of the selfies that were enrolled *)
(* unless an older one's job was retried (enroll.py:53-66, and the order in *)
(* which the route and the queue let jobs start).                           *)
THEOREM NewestWins == Spec => []NewestSelfieWins
<1>1. Init => InOrder
  BY InitInOrder
<1>2. IInv /\ InOrder /\ [Next]_vars => InOrder'
  BY NextInOrder
<1>3. InOrder => NewestSelfieWins
  BY DEF InOrder
<1> QED
  BY <1>1, <1>2, <1>3, Invariance, PTL DEF Spec
==============================================================================
