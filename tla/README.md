# Verification of sony_recognizer

sony_recognizer takes the photos of an event from the photographer's cameras,
finds the faces in them, and shows each attendee who sent a selfie the photos
he or she is in. This directory holds TLA+ modules that model its core, TLC
configurations that check them on small instances, and theorems that TLAPS has
checked for instances of every size.

## The system

| Part | State it keeps | Operations | Interacts through |
| --- | --- | --- | --- |
| `apps/ingest` FTP server (`ftp.ts`, `auth.ts`, `process.ts`) | one cached session per connection | login, STOR -> `processUpload` | writes S3, `photos`, queue `photo.process` |
| `apps/ingest` reconciler (`reconciler.ts`) | none | `sweep` every minute | reads `photos`, adds to `photo.process` |
| `apps/web` photo upload and reprocess routes | none | POST photos, POST reprocess | as above |
| `apps/web` selfie route | none | POST selfie | S3, `event_participants`, queue `selfie.enroll` |
| `packages/queue` | BullMQ records in Redis | job ids, 3 attempts, backoff, kept failures | producers and workers |
| `apps/worker` photo handler (`main.py`, `pipeline.py`, `db.py`) | an open transaction | `process_photo`, error path | S3 variants, `photos`, `faces`, `matches` |
| `apps/worker` selfie handler (`enroll.py`, `matching.py`) | an open transaction | `enroll_selfie`, error path | `face_identities`, `matches`, `event_participants` |
| `packages/core` events | `organizations`, `events`, `ftp_credentials`, `audit_logs` | create, close, reopen, delete, publish, settings, credentials; statistics, archive, log | called by the routes |
| `packages/core` participants | `event_participants`, `consents`, `qr_codes`, `downloads` | resolve, join, enrollment status, gallery, preview, download, report | called by the routes |
| `packages/core` policy | none | `can` | called by events |
| React pages for attendees (`JoinFlow`, `GalleryView`) | what they have fetched, a session cookie they share | join, selfie, retake, polling, "Remove me" | call the routes and better-auth |
| React pages for organisers (`EventLiveView`, `PhotoArchive`, `UploadPanel`, `CameraPanel`, `EventControls`, `EventLogPanel`) | what they have fetched, optimistic flags, passwords shown once | polling, paging, toggles, file lists | call the routes |

Postgres is the meeting point. The producers and the worker meet at the
`photo.process` queue, the selfie route and the worker at `selfie.enroll`. The
two handlers of the worker run in two threads and meet at `faces`,
`face_identities` and `matches`; the dashboard changes `photos.published`
under both.

What is hard: storage, database and queue are written one after another with no
transaction around them; a call may take effect and lose its answer; BullMQ
delivers a job again after an error, a crash or an expired lock; a job id that
is known, in whatever state, makes an add a no-op; both directions of the
matching read what the other has committed so far; a retake replaces what a
photo transaction has already read; a retry may run after a newer request. Most
use-cases of `packages/core` look first and write in a later statement. Pages act on
what they were shown, share one session cookie, and hear answers in another order than
they asked.

What makes each part correct is stated by the properties below.

## Modules

| Module | Models | Stands on |
| --- | --- | --- |
| `Album.tla` | what the photo status promises its readers | - |
| `PhotoPipeline.tla` | uploads, reconciler, reprocess, job records, photo worker | `Album` (refinement) |
| `PhotoPipelineProofs.tla` | theorems about `PhotoPipeline` | `PhotoPipeline`, `TLAPS` |
| `MCPhotoPipeline.tla` | symmetry and the FTP-only start of the liveness run | `PhotoPipeline` |
| `Matching.tla` | selfie upload, selfie queue, enrollment and photo transactions, publishing, gallery | - |
| `CameraAccess.tla` | event life cycle, camera logins, FTP sessions, who may upload | - |
| `CameraAccessProofs.tla` | theorems about `CameraAccess` | `CameraAccess`, `TLAPS` |
| `MCCameraAccess.tla` | a team and the symmetry of its cameras | `CameraAccess` |
| `Studio.tla` | an organiser creates events and QR codes | - |
| `Participation.tla` | tabs of a browser join with the code, upload selfies, wait | `Studio` (composed) |
| `Viewing.tla` | who gets a preview, a thumb, an original; objections, audit rows | - |
| `Pages.tla` | gallery, live view, archive and upload panel against a changing event | - |
| `Dashboard.tla` | camera panel, event controls and event log against a changing event | `Studio` (composed) |
| `StudioProofs.tla` | lemmas about the steps of `Studio`, for the modules that take them | `Studio`, `TLAPS` |
| `MatchingProofs.tla`, `ParticipationProofs.tla`, `ViewingProofs.tla`, `PagesProofs.tla`, `DashboardProofs.tla` | theorems about the module named (`ParticipationProofs` and `DashboardProofs` with `StudioProofs`) | the module named, `TLAPS` |
| `MCMatching.tla` (who is in which photo and looks like whom), `MCParticipation.tla`, `MCViewing.tla`, `MCPages.tla`, `MCDashboard.tla` | their instances | the module named |

### PhotoPipeline

One id of `Photo` stands for one upload; `via` says by which door it came and
`content` what its hash is (the pair of event and hash, the key of the unique
constraint). `originals` and `variants` are object storage, `photo` the status
column of the `photos` table (`"none"`: no row), `jobs` the records of the
queue, `wk` the photo workers, `sweep` the rows a running sweep has read.

- A handler is cut at each external call. `Store`, `Create` / `CreateConflict`
  and `Enqueue` are the three of an upload; `UploadFails` is a call that throws
  or a process that dies, with or without the call's effect. `CheckDuplicate`
  exists in the browser route only. The route lets the conflict of the insert
  escape as an error, the FTP handler takes it for a camera retry.
- `"processing"` is written inside the worker's transaction and never
  committed, so no reader sees it and the model's rows never have it; what its
  UPDATE does do is to lock the row (`RowFree`).
- `Raises` covers every exception of `process_photo`, including a commit that
  was done while its answer got lost. `MarkFailed` is the except clause, on a
  connection of its own, and `MarkSwallowed` its inner except clause.
- BullMQ is external. Modelled is what the code relies on: an add with a known
  id is a no-op (`AddJobs`), attempts and backoff (`Reject`, `Backoff`), records
  removed after completion and kept after failure (`ExpireCompleted`), a lock
  without which an outcome does not count (`Outcome`, `LockLapses`), stalled
  jobs (`Stalled`), and Redis forgetting a record (`LoseJob`). The id of a
  reprocess contains a colon; the model assumes, as the code does, that the
  installed BullMQ takes it.

`Album` is the abstract specification: per content an entry that is born
ingested, is rendered, and gets a verdict which later runs may replace but
never take back, "processed" only after rendering. The refinement mapping reads
the entry of a content off its row, and calls it rendered when one of its
uploads has variants.

### Matching

The two transactions run under READ COMMITTED. `etx` and `ptx` are the records
of the selfie handler and of the photo handler: what each has read and is going
to write. A statement that reads is a step of its own, the effects appear at
the commit. `SwitchOff` is the UPDATE of a retake and `DeleteMatches` its DELETE, each of
what is committed when it starts; `MatchIdentity` is direction 1, `ScanFace` the SELECT of direction 2 for one face and
`InsertMatches` its inserts (ON CONFLICT DO NOTHING; an insert of a row that
the open enrollment is deleting waits for it). `EnrollRaises` may have committed.
`PhotoRaises` may have, too; `MarkPhotoFailed` is the transaction in which the except clause
marks the photo, `MarkPhotoSwallowed` that transaction failing. A crash rolls both back,
because both threads live in one process. A participant's uploads follow one another, as
one page makes them, and selfies are numbered in that order, so that a property can
say which is the newest.
`SetPublished` is the dashboard's switch and, for hiding, the attendee's report;
it waits for the photo's row lock. Similarity is a constant, `Score`, with
the two bands of `_status_for`. `overlapped` and `unseen` are history
variables: no guard reads them; they record which transactions were open at the
same time and which photos were hidden when a selfie was matched, so that a
property can say what those two circumstances explain.

### CameraAccess

One event (`status`, `deleted`, and `over` for an `ends_at` that has passed), its
`ftp_credentials` rows `cred`, the dashboard's calls `req`, the FTP connections
`conn` and what becomes of each `file`. Every use-case of `events.ts` is a `Check`
(`getManagedEvent`, and the credential's row for `regenerate` and `revoke`)
followed, at any later time, by its write: `SetStatus`, `CreateCredential`,
`RegeneratePassword`, `RevokeCredential`, or the deletion. No write
looks again at what was checked. `deleteEvent` is a READ COMMITTED transaction of two
statements: `RevokeLogins` finds the logins that are committed when it starts and locks
their rows (`Locked`: others that write to them wait), `DeleteEvent` is the second
statement with the commit, when both effects appear, and `DeletionFails` the rollback. An
insert waits for no row, so a login can be made, and used, between the two. `authenticateCamera` is one Prisma query with an
include, so two SELECTs: `ReadCredential` and `ReadEvent`. An open connection
never asks again: `Stor` starts an upload from it whatever has happened since.
`BrowserPost` is the browser's upload, which is checked by `getManagedEvent`.
Passwords are numbers in the order they are generated; a camera may try any of
them. Where an accepted file goes is the subject of `PhotoPipeline`; here it
becomes a row or is dropped. `late` and `knocked` are history variables: the
logins that were inserted when a deletion had already looked for those to revoke (or had
been committed), and the connections whose login has so far met only a shut door.

### Studio

Two or three requests of an organiser's pages. `createEvent` looks for his
organisation and makes one, looks for a free slug, and inserts the event;
`ensureEventQr` looks for the oldest code and makes one. Every look and every
write is a step, as in the code: no transaction holds them together, and only the
slug has a unique key. `crossed` is a history variable: what two pages found missing
at the same time. `Studio` has no specification of its own; `Participation` and
`Dashboard` extend it and take its steps into theirs.

### Participation

The tabs of one browser. A tab has a `screen`, the next statement (`pc`) of what
its button began, the user whose session that request has (`as`), the
participation it got (`me`), and its running poll `timers`. The cookie is read when
a request is sent, so `Join` - `SignIn` - `SignedIn` - `Post` - `Find` - `Insert` may see
three different sessions. `Find` and `Insert` are `joinEvent`: the look for an
existing participation, and the transaction of consent and participation, which
the unique key undoes. `JoinDies` fails before or after its effect. The selfie
route marks and queues (`SelfieRoute`, `SelfieDies` in between); the worker is
reduced to its verdict (`Verdict`), since `Matching` has the rest. A poll is a
`Tick` that reads the status and a `Hear` of its answer, in any order; polls whose
answer tells nothing are left out. better-auth is external: an anonymous sign-in
makes a user and is refused to an anonymous session. Signing in with an account replaces
the session (`Switch`) and moves no participation, since the plugin is given no
`onLinkAccount` (`auth.ts:8` speaks of linking). What becomes of the anonymous user is
the library's: by default it deletes that user on linking, which Postgres refuses for anyone
who has joined, because his consent refers to him (`consents.user_id`, ON DELETE RESTRICT,
`migration.sql:471`); so his participation stays, and his session may be gone. A user
who has not joined may be deleted; the model keeps him, as somebody no cookie leads to.

### Viewing

One event, its manager, one attendee. A request is one of eleven operations and
runs statement by statement: the three ways to a preview (`Preview`, `ViaPublic`,
`ViaManaged`), a download with its row before the file (`RequestDownload`,
`LogDownload`), an objection (`Report`, `HidePhoto`), the organiser's check-then-write
calls, and the list of all photos. `Given` with a `via` says why a file was handed
out; `last` is what the newest audit row of a photo says. `since` is a history
variable: the obstacles (event deleted, browsing off, photo hidden) that have
stood all the time since the request began; `blurred`: photos of which an audit
row was lost, or overtaken before it was written.

### Pages

One of the four pages is open (`open`, `view`) while everybody else takes photo
ids, inserts the rows in another order, hides, matches, deletes. A poll (`answers`)
carries what the server read when it was asked; the page hears it later, in any
order, or never. `SetPublished` sends a PATCH for the contrary of what the page
shows; the archive then shows what it asked for. `ListEventPhotos` is the cursor
query, `take: limit + 1` and all; `NewestFirst` is its `orderBy`, stated by what it
returns so that it can be reasoned about (the `SortSeq` of the library cannot). `disturbed` is the history of photos somebody
else changed, or about which a PATCH failed or two crossed.

### Dashboard

One of the panels of the event page, or the set-up of `Studio`. The camera panel
polls and has up to two calls on their way; its row buttons are never disabled. The
controls are disabled while one runs and show what the page was last rendered with
(`due` refreshes). The log merges the newest of four tables (`GetEventLog`).
A login may have two passwords on the screen: the box shows the one "Add camera" made
(`InBox`), the row the one "New password" made (`InRow`); the first stays when the second
comes. `astray` is the history of logins whose password others, two calls at once, or a lost
call have changed.

Calls are cut into statements in the module whose property needs it
(`CameraAccess`, `Viewing`, `Studio`, `Matching`) and are one step in the modules that
are about what a page makes of their answer (`Pages`, `Dashboard`).

## Runs

| Run | Asks | Result |
| --- | --- | --- |
| `uploads` | do storage, table and queue agree, on two workers, through failures, duplicates and a fault; is the album implemented | holds |
| `settles` | does one photo get a verdict and every job end, through the deployed three attempts, a reprocess and two faults; is the album implemented | holds, unless the job is given up by the queue; with a mark that is accepted |
| `retakes` | one identity per attendee; gaps and leftovers have one of the known causes (a photo of two faces processed twice, a retake, retries, dying uploads) | holds |
| `verdicts` | three uploads of one attendee, two crashes, dying uploads, a refused selfie: does the newest enrolled selfie win, is "processing" followed by a verdict | holds unless an older job was retried; unless the last upload is abandoned |
| `camera` | can a login get in behind a shut door, does a deletion, statement by statement, revoke the logins, does a deleted event stay sealed | holds, but for logins inserted too late for the deletion |
| `joining` | one consent, one participation and one person per browser; does any page wait for ever | holds, with the stated excuses |
| `viewing` | is every original logged, is a hidden photo hidden, is there no way to a file but a match once the event is gone, do the audit rows say what is shown | holds |
| `pages` | do paging, optimistic toggles, counts and polls tell the truth in the end | holds |
| `dashboard` | one organisation and one code; does the password in the row, or in the box until there is one, work; do list, log and controls catch up | holds |
| `missed` | does the gallery hold every shown photo with a sure match | violated |
| `gone` | does a deleted event give nothing to its attendees | violated |
| `retried` | is a retry safe for a photo that is processed | violated |

The violations, each with the sentence of the repository it contradicts, are
findings in `PROJECT.json`:

- `missed`. A selfie reads the faces before the photo's commit and the photo
  reads the identities before the selfie's commit; neither sees the other and
  nothing looks again until a retake or a reprocess.
- `gone`. Preview, download and report look for a match and a published photo and
  not at the event: a link to a photo outlives the event. `OnlyByMatch` shows that
  the match is the only way left.
- `retried`. The job runs again after its photo was processed (its worker died before the
  acknowledgement, or the reconciler added it once more), fails to its last attempt, and
  the photo is marked failed. A reprocess that fails does the same.

An invariant of the form "unless ..." names every way in which the code may miss what
it is after, and the run shows that there is no other:

- `GapsAreExplained`: the crossing of `missed`, and a photo that was hidden when the
  selfie was matched and shown again later.
- `LeftoversAreExplained`: a photo transaction that had read the identity a retake
  then replaced.
- `OnePersonPerBrowser`: a replaced session, or two tabs that began their anonymous
  sessions together.
- `OneStudioOneCode`: two pages that found the same thing missing together.
- `AuditExplained`: an audit row that was lost with its request or overtaken.
- `NobodyWaitsForEver`: a deleted event, another session, a rejected upload, a
  selfie that was marked and never queued.
- `HiddenMeansHidden`, `ShownPasswordWorks`, `PanelsCatchUp`: somebody else's change, two
  clicks that crossed, a call that failed; `ShownPasswordWorks` says nothing of a login
  that was revoked.
- `DeletionRevokesLogins`: a login inserted when the deletion had looked already.
- `JoiningAgainWorks`: two tabs with one session that join at once and both find no
  participation; the unique key refuses the second insert, although `participants.ts:29`
  calls joining idempotent.
- `NewestSelfieWins`: an older job that was retried, which takes the place of the
  newer selfie when it is enrolled after it, although `enroll.py:53-55` speaks of replacing
  a bad first selfie.
- `EnrollmentReports`: an abandoned last upload (the route died between the mark and the
  job, or the queue gave the job up); the attendee then polls for ever.
- `EveryRowSettles`: a job that the queue gave up because its worker died twice. The dead
  record has the id of the photo, so every add of the reconciler is a no-op, although
  `reconciler.ts:3-4` says that such a photo gets re-enqueued; nor does the reprocess button
  help, which takes processed and failed photos only.

Both liveness properties assume that the error path can write its mark (`MarkCanFail = FALSE`);
a swallowed mark leaves the same state as a job that was given up.

Consequences that the models show and no run is about:

- A camera that is connected goes on sending photos after its event was closed or deleted
  (`Stor`): the status is asked at the login (`auth.ts:43`), although the event page says
  "cameras blocked" (`events/[eventId]/page.tsx:47`). The browser's upload asks for the
  deletion and not for the status. `SealedForGood` begins when nobody is connected.
- After "Add camera" and "New password" the box of the camera panel keeps the dead
  password and asks to enter it (`InBox`); `ShownPasswordWorks` judges the row from then on.
- A failed storage or database call of an FTP upload is only logged: the photo the
  camera believes delivered has no row, although `process.ts:7` says that photos are
  never lost (`UploadFails` from `"received"` or `"stored"`).
- An enrollment whose commit succeeded and whose answer got lost is reported as failed,
  although the participant is matched (`EnrollRaises`, `MarkEnrollFailed`).
- The gallery page of a deleted event goes on showing its grid, since its poll is
  only refused (`UpToDate` of `Pages`).
- The archive says "That's everything" over an empty grid when its first page
  fails (`read` in `ThatsEverything`).
- "Remove me" takes the photo off the page whether or not the report was accepted
  (`RemoveMe`, `Removed`); the next poll brings it back.
- A selfie upload whose fetch is rejected leaves the button busy (`"hung"`).
- The controls are enabled before the refreshed page is there: a quick second click
  repeats the first (`HearControl`, `Control`).

### Bounds

`Attempts` is 3 in the deployed options, in `settles` and in `retried`; elsewhere it
is 1 or 2, since a further attempt repeats the states of the one before it.
`MaxStalls` is BullMQ's default. `MaxFaults` counts crashes, expired locks, lost
records and dying sweeps; two of them give a job that runs twice at once and one that
dies for good. Two photos with two contents are what the unique constraint can tell
apart; two workers what the row lock can; two selfies of one participant are a retake
and its reordering, a photo with two faces that one of its faces may be matched and
the other not. `Identity` bounds the enrollments that commit: three cover two selfies
and one repetition; an enrollment takes the smallest unused. `verdicts` has no photo,
and three selfies, so that an upload that dies or is refused has one before and one
after it; two attempts and a stall of two selfies need six identities at most.
`MaxRuns` 2 is a run and a reprocess, `MaxHides` 1 a photo that is hidden and comes
back. `SweepTake` (100 in the code) is not less than the number of photos in the runs;
the starvation of a sweep by a batch of dead rows is listed as a hazard. `settles` has
one photo and one worker, as deployed, so that its two faults and three attempts fit;
two uploads and two workers meet in `uploads`. That one participant does not touch
another, and that two workers may hold two jobs of one photo, is left to the theorems,
which hold for any number of them. In `camera`, four calls are enough for a login, a
deletion, and a creation and a reopening that are written after it; two connections
and two files are enough for one that was accepted in time and one that comes too
late. `MaxPassword` bounds the passwords generated.

In `joining` two tabs are enough for everything that is said of concurrent joins
(one finds, the other inserts), two guests and an account for a replaced session, two
selfies for an answer of the first that arrives during the second, two answers
(`MaxAnswers`) for one that overtakes the other, one mishap (`MaxMishaps`) for each
excuse. In `viewing` three requests on one photo are an attendee's, a manager's that
changes what it depends on, and a third whose effect comes in between; two changes of
the match (`MaxMatches`) are one that appears and goes. Photos do not touch each other
there, so one is enough. In `pages` three photos in pages of one (`PageSize`, 60 in the
code) give a first, a middle and a last page and a row that appears below, between or
above; two changes and clicks (`MaxChanges`) are a toggle and one that crosses it, one
failing fetch (`MaxLost`) a poll, a page, a PATCH or a file. In `dashboard` three pages
are two that race and a third that sees what they left, three clicks or changes
(`MaxEdits`) make a password, replace it and cross that with another; `Limit` 2 (50 in
the code) of a log of three entries over four tables. With `MaxEdits` 4 the run
passes too, in 769 000 states.

`CHECK_DEADLOCK FALSE` in the configurations: an instance stops when all
uploads are done and the bounds are used up.

### Fairness

`PhotoPipeline!Fairness`: an upload handler that is waiting for a call gets its
answer; the reconciler's interval keeps firing, so a row that stays ingested is
read by a sweep and then added; Redis' timers (backoff, stalled check) fire; a
worker with a job goes on to the end of its handler, where every handler
of the code ends. `Matching!Fairness` says the same of the selfie worker and of
an upload in progress. In the page models an interval fires, a request that was sent is
answered, an answer is heard and a queued selfie gets a verdict. `Tick` of `Participation` is
under strong fairness: an interval fires however many answers are on their way, and it is only
the bound `MaxAnswers` that disables it now and then. No fairness obliges anybody to upload, a call to fail or
a process to die, a button to be clicked. The rest is weak fairness: none of these steps
is disabled and enabled again for ever by others.

## Proofs

`PhotoPipelineProofs.tla`, checked for every number of uploads, contents and
workers, every number of attempts, stalls, faults and reprocesses:

| Theorem | States |
| --- | --- |
| `TypeCorrect` | `Spec => []TypeOK` |
| `QueuedIsSafe` | `Spec => []SafeBeforeQueued` |
| `GalleryReady` | `Spec => []ProcessedIsGalleryReady` |
| `Deduplication` | `Spec => []OneRowPerContent` |
| `NothingDropped` | `Spec => []DuplicatesAreCovered` |
| `CompletionIsVerdict` | `Spec => []CompletedHasVerdict` |
| `Refinement` | `Spec => ImplementsAlbum` |

They use the two assumptions of `PhotoPipeline` (`BoundsAssumption`: the bounds
are natural numbers; `NullAssumption`: the null values are none of the others).
None of the five invariants is inductive. `IInv` adds what connects an upload's
program counter with its row and its original, and a worker's program counter
with its variants and the status of its photo: a worker at
`"ack"` whose lock is gone must not be able to complete a job, a worker past
`MakeVariants` has its variants, a worker at `"raise"` holds a job that will not
be called completed. `Inductive` shows that `Init` implies it and each action
keeps it; the action lemmas are grouped as `Next` is. `Refinement` then maps
`Create` (and a failing upload that has created its row) to `Accept`,
`MakeVariants` to `Render`, `Commit`, `MarkFailed` and a raise after the commit to
`Settle`, everything else to a stutter.

`CameraAccessProofs.tla`, checked for every number of logins, connections, calls,
files and users:

| Theorem | States |
| --- | --- |
| `AccessTypes` | `Spec => []TypeOK` |
| `ShutDoor` | `Spec => []NoEntryBehindAShutDoor` |
| `LoginsDieWithTheEvent` | `Spec => []DeletionRevokesLogins` |
| `Seal` | `Spec => SealedForGood` |

It uses the assumptions that `MaxPassword` is a natural number
(`PasswordAssumption`) and that the null values are none of the others
(`NullAssumption`). The strengthening is that nobody is standing before a shut door
while the event admits (without it, a login that met the closed door could be
let in by `ReadEvent`), that a call which needs a credential has one, and, of every deletion
that stands between its two statements, that each login which is not revoked is one it has
seen or is late (`DeletionsAreThorough`). The last is what `DeletionRevokesLogins` becomes
true by at the commit: a login that is made meanwhile is late, one that is there cannot be
written to while its row is locked, and a rollback forgets what was late for it
only when no other deletion is under way or done.
`Seal` is an action property and follows from the type invariant.

`ViewingProofs.tla`, checked for every number of requests, photos, matches that come and
go, and failing calls:

| Theorem | States |
| --- | --- |
| `ViewingTypes` | `Spec => []TypeOK` |
| `OriginalsAreLogged` | `Spec => []EveryOriginalIsLogged` |
| `HiddenIsHidden` | `Spec => []HiddenFromEveryone` |
| `MatchIsTheOnlyWay` | `Spec => []OnlyByMatch` |
| `AuditTrail` | `Spec => []AuditExplained` |

It uses `MatchesAssumption` (the bound is a natural number) and `NullAssumption`. The
invariants speak of a request that is answered, and what makes them true is decided at an
earlier statement: so the strengthening says of each request that is about to hand out an
original or the list that no obstacle has stood since it began (`Sound`), and of each that
has changed a photo what the audit row it still owes will say (`Pending`). A step moves one request; what it does to the
others is only that their `since` loses obstacles.

`MatchingProofs.tla`, checked for every assignment of faces to photos and of selfies to
participants, every similarity of the two, every number of identities, attempts, stalls,
runs and faults:

| Theorem | States |
| --- | --- |
| `TypeCorrect` | `Spec => []TypeOK` |
| `OneIdentity` | `Spec => []OneIdentityWhenReady` |
| `NoOtherGaps` | `Spec => []GapsAreExplained` |
| `NoOtherLeftovers` | `Spec => []LeftoversAreExplained` |
| `NewestWins` | `Spec => []NewestSelfieWins` |

It uses `InputAssumption` (what the constants are: a photo for each face, an owner for each
selfie, a score for each pair; null values apart) and `BoundsAssumption`. `TypeCorrect`
needs to know that a job on the waiting list is waiting and is there once, and that a job
that is not finished has attempts left (`JobsSound`, `ListSound`, `Held`). The next three
rest on `Galleries`, which says of each open transaction what will be true of its commit:

- `Replacing`: the retake that is open turns off exactly the active identities of its
  participant, and deletes every match of them that is not from a photo it met.
- `Enrolls` and `Scanned`: direction 1 has every similar face, direction 2 every similar
  identity, apart from those committed while the two were open, or hidden when it looked.
- `Direction2`: what a photo is about to insert is of identities that are active, or
  that were replaced since.
- `Leftovers`, `Gaps`, `OneEach`, `ReadyHasOne`: the statements themselves, `Gaps` of
  hidden photos too, since they may be shown again.

`NewestWins` follows a participant's selfies from the route to the identity (`InOrder`): the
uploads follow one another (`UploadsInOrder`), so do their jobs on the waiting list unless
one was tried before (`JobsInOrder`), and so a worker that has started a newer job never
holds nor will be given an older one that was not retried (`TakenInOrder`), and identities
are made of jobs that were started (`MadeOfStarted`).

`ParticipationProofs.tla`, checked for every number of tabs, guests, selfies and mishaps:

| Theorem | States |
| --- | --- |
| `TypeCorrect` | `Spec => []TypeOK` |
| `ConsentIsGiven` | `Spec => []ConsentWithParticipation` |
| `OneGalleryPerBrowser` | `Spec => []OnePersonPerBrowser` |
| `JoiningTwice` | `Spec => JoiningAgainWorks` |

It uses `BoundAssumption` (the bounds are natural numbers) and
`UserAssumption` (nobody and the account are no guests). The strengthening: a join that knew
of a participation when it was sent never gets to the insert (`TabSound`), there is a
consent for each participation and a job for none but them, and as long as no session was
replaced or begun twice there is one user behind everything the browser does (`OneUser`).
`JoiningTwice` is an action property; it needs that a tab which saw a participation when
it sent its request finds it when the server looks. `TypeCorrect` counts: the jobs of a
user and the tabs that are uploading for him are together no more than his selfies
(`Budget`).

`DashboardProofs.tla`, checked for every number of pages, logins, polls and clicks:

| Theorem | States |
| --- | --- |
| `TypeCorrect` | `Spec => []TypeOK` |
| `OneEachHolds` | `Spec => []OneStudioOneCode` |
| `ShownWorks` | `Spec => []ShownPasswordWorks` |

`OneEachHolds` rests on `StudioProofs.tla`: unless two pages were noted as missing the same
thing together, whoever found something missing is alone (`Alone`), it is still missing
(`OneOrg`, `OneCode`, `SlugsFree`), and nothing else of `Dashboard` touches what `Studio`
keeps (`PanelsLeaveTheSetUp`). `ShownWorks` adds to the panel's types (`CamerasOK`) what is on
its way to the screen (`Trusted`): at most one new password is asked for, once it is
made it is the one that works, and the answer of the creation, which fills the box, counts as
long as there was none. `TypeCorrect` needs that the passwords made and the calls that will make one
(`CamerasBounds`), and the refreshes that are due or will be (`ControlsOK`), are no more than
the clicks. They use `LoginAssumption` and `NoOrgAssumption`, that the null values are none of
the others, and `BoundsAssumption`.

`PagesProofs.tla`, checked for every number of photos, every page size, every number of
answers on their way, of changes by others and of fetches that fail:

| Theorem | States |
| --- | --- |
| `TypeCorrect` | `Spec => []TypeOK` |
| `InOrder` | `Spec => []ArchiveInOrder` |
| `Everything` | `Spec => []ThatsEverything` |
| `HiddenIsHidden` | `Spec => []HiddenMeansHidden` |
| `CountsAreRight` | `Spec => []CountsAreTrue` |

It uses `PageAssumption` (a page holds at least one photo) and `BoundsAssumption` (the
bounds are natural numbers, one answer may be on its way). First comes what
`listEventPhotos` returns: a set of photos has one order (`NewestFirstSorts`: a photo's
place is the number of photos not older than it), and a page is the top of what is below
the cursor, with the next cursor at its end if there is more (`PageIsSound`). The
inductive invariant then has a part for each page, since only one is open:

- `ArchiveOK`: the list and the page on its way are in order, the page is below the
  cursor (`Continues`), and what there was at first and is not listed is below the
  cursor (`Left`). Rows that are inserted above or below meanwhile do not matter to it.
- `FlagsOK`: of a photo nobody else touched, PATCHes on their way all ask for the same,
  the table has it once one is answered, and until then the badge is what the table
  says (`Undisputed`). It needs that a page on its way lists nothing that is listed
  (`NothingTwice`).
- `UploadOK`: a file that has made a photo is ahead of the count by one, and only
  until it is counted.
- `GalleryOK` and `LiveOK` for the two polled pages: what the live view shows as published
  is always among the photos it shows, because its answers are of one moment each.

Left to TLC: the liveness properties (`EveryRowSettles`, `EveryJobEnds`,
`EnrollmentReports`, `NobodyWaitsForEver`, `PagesCatchUp`, `PanelsCatchUp`), since liveness
under fairness is beyond the prover's reach. Every invariant and action property of a passing run is
a theorem. TLC checked the inductive invariants of `Matching`, `Participation` and `Pages` on the
instances of the runs before they were proved.

## Plan

1. `PhotoPipeline` with `Album`, `CameraAccess`, and their proofs: done.
2. `Matching`, `Studio`, `Participation`, `Viewing`, `Pages`, `Dashboard`: modelled and checked.
3. The proofs: every invariant and action property of the runs is proved. Next: facts that the
   liveness properties rest on and that are safety, such as that what a page waits for is on its way.
4. Left to model: the "Browse all" list of the gallery page, the start-up of the analyzer
   that two threads share (`pipeline.py:40`), the limit of 2000 faces of `matching.py:74`.

## Not modelled

Image decoding, detection and embedding (inputs of the models); EXIF and file
names; the counters of the statistics, which count rows; the inside of the better-auth
library; object storage clients and configuration; deployment, seed and migrations; the zip
and retention queues, which have no consumer in the repository, and the participant, match
and photo states (withdrawn, confirmed, rejected, suppressed, quarantined, deleted) that
no code sets. The "Browse all" list is fetched once and kept, and its button goes when the
switch is turned off while the list is open; the models know the switch and the route but
not that page state.
