-------------------------------- MODULE Pages --------------------------------
(***************************************************************************)
(* What a page shows of an event that everybody else goes on changing:     *)
(*                                                                         *)
(*   GalleryView    the attendee's photos, polled; "Remove me"             *)
(*   EventLiveView  the organiser's counters and latest photos, polled     *)
(*   PhotoArchive   all photos, page by page, with optimistic hide/unhide  *)
(*   UploadPanel    files sent one by one, and what became of them         *)
(*                                                                         *)
(* with the reads of packages/core behind them: getGallery, getEventStats, *)
(* listEventPhotos.  Somebody has one of the pages open.  A fetch is       *)
(* answered with what the server read at some moment since, in any order   *)
(* with others, or fails.  A photo has the number of its id: ids ascend,   *)
(* rows may be inserted in another order.                                  *)
(***************************************************************************)
EXTENDS Naturals, Sequences, FiniteSets, SequencesExt

CONSTANTS
  MaxPhoto,    \* bound: photos
  PageSize,    \* limit of listEventPhotos (60)
  NoAnswer,    \* null
  MaxAnswers,  \* bound: polls on their way at once
  MaxChanges,  \* bound: what others change, and clicks
  MaxLost      \* bound: fetches that fail

ASSUME PageAssumption == PageSize \in Nat \ {0}
ASSUME BoundsAssumption ==
  MaxPhoto \in Nat /\ MaxAnswers \in Nat \ {0} /\ MaxChanges \in Nat /\ MaxLost \in Nat

Id == 1..MaxPhoto

VARIABLES
  open,                    \* the page
  ids, rows,               \* ids given out; photos in the table
  shown, mine,             \* published; processed and matched with the attendee
  public, deleted,         \* the event's switch; is the event deleted?
  view,                    \* the page's state
  answers,                 \* answers on their way to it
  patches,                 \* its PATCHes on their way
  changes, lost,           \* used up so far
  disturbed                \* history: photos somebody else published or hid, or
                           \* that a failed or a crossing PATCH is about

db == <<ids, rows, shown, mine, public, deleted>>
vars == <<open, db, view, answers, patches, changes, lost, disturbed>>

NoPatch == [id |-> 0, to |-> FALSE, pc |-> "none"]

(* What a page shows before its first answer.                               *)
Empty(page) ==
  CASE page = "gallery" -> [grid |-> {}, enabled |-> FALSE, removing |-> {}]
    [] page = "live" -> [rows |-> {}, shown |-> {}, stale |-> FALSE]
    [] page = "archive" -> [list |-> <<>>, flags |-> {}, cursor |-> 0, loaded |-> FALSE,
                            loading |-> TRUE, base |-> {}, read |-> FALSE]
    [] page = "upload" -> [pc |-> "idle", done |-> 0, duplicates |-> 0, failed |-> 0,
                           made |-> 0, skipped |-> 0]

Init ==
  /\ open \in {"gallery", "live", "archive", "upload"}
  /\ view = Empty(open)
  /\ ids = 0 /\ rows = {} /\ shown = {} /\ mine = {}
  /\ public = FALSE /\ deleted = FALSE
  /\ answers = [i \in 1..MaxAnswers |-> NoAnswer]
  /\ patches = [i \in 1..2 |-> NoPatch]
  /\ changes = 0 /\ lost = 0 /\ disturbed = {}

Change == changes < MaxChanges /\ changes' = changes + 1
Lose == lost < MaxLost /\ lost' = lost + 1

(* A route that is refused (404) or fails.                                  *)
Fail == Lose \/ (deleted /\ UNCHANGED lost)

--------------------------------------------------------------------------------
(* Everybody else. *)

(* An upload takes its id before it stores the file, ...                    *)
TakeId ==
  /\ ids < MaxPhoto /\ ids' = ids + 1
  /\ UNCHANGED <<open, rows, shown, mine, public, deleted, view, answers, patches, changes,
                 lost, disturbed>>

(* ... and inserts the row later, published.                                *)
InsertRow(k) ==
  /\ k \in 1..ids \ rows
  /\ rows' = rows \cup {k} /\ shown' = shown \cup {k}
  /\ UNCHANGED <<open, ids, mine, public, deleted, view, answers, patches, changes, lost,
                 disturbed>>

(* Another page, or an attendee, hides a photo or shows it again.           *)
OtherPublishes(k) ==
  /\ k \in rows /\ Change
  /\ shown' \in {shown \cup {k}, shown \ {k}}
  /\ disturbed' = disturbed \cup {k}
  /\ UNCHANGED <<open, ids, rows, mine, public, deleted, view, answers, patches, lost>>

(* The worker, the switch, the end.                                         *)
OtherChange ==
  /\ Change
  /\ \/ \E k \in rows : mine' \in {mine \cup {k}, mine \ {k}} /\ UNCHANGED <<public, deleted>>
     \/ public' = ~public /\ UNCHANGED <<mine, deleted>>
     \/ deleted' = TRUE /\ UNCHANGED <<mine, public>>
  /\ UNCHANGED <<open, ids, rows, shown, view, answers, patches, lost, disturbed>>

Others == TakeId \/ OtherChange \/ \E k \in Id : InsertRow(k) \/ OtherPublishes(k)

--------------------------------------------------------------------------------
(* GalleryView. *)

Gallery == mine \cap shown

Ask(i, answer) ==
  /\ answers[i] = NoAnswer
  /\ answers' = [answers EXCEPT ![i] = answer]
  /\ UNCHANGED <<open, db, view, patches, changes, lost, disturbed>>

Answered(i) ==
  /\ answers[i] # NoAnswer
  /\ answers' = [answers EXCEPT ![i] = NoAnswer]
  /\ UNCHANGED <<open, db, patches, changes, lost, disturbed>>

(* Its poll: getGallery, which a deleted event does not answer, ...         *)
PollGallery(i) ==
  open = "gallery" /\ ~deleted /\ Ask(i, [grid |-> Gallery, enabled |-> public])

(* Mutant: the page only adds to what it shows. *)
AddToGallery(i) ==
  /\ open = "gallery" /\ Answered(i)
  /\ view' = [view EXCEPT !.grid = @ \cup answers[i].grid, !.enabled = answers[i].enabled]

(* ... and whichever answer comes replaces what the page shows.             *)
HearGallery(i) ==
  /\ open = "gallery" /\ Answered(i)
  /\ view' = [view EXCEPT !.grid = answers[i].grid, !.enabled = answers[i].enabled]

(* "Remove me": the report hides the photo, or does not; ...                *)
RemoveMe(k) ==
  /\ open = "gallery" /\ k \in view.grid \ view.removing
  /\ Change
  /\ view' = [view EXCEPT !.removing = @ \cup {k}]
  /\ shown' \in {shown, shown \ {k}}
  /\ UNCHANGED <<open, ids, rows, mine, public, deleted, answers, patches, lost, disturbed>>

(* ... the page takes it off in any case, ...                               *)
Removed(k) ==
  /\ open = "gallery" /\ k \in view.removing
  /\ view' = [view EXCEPT !.grid = @ \ {k}, !.removing = @ \ {k}]
  /\ UNCHANGED <<open, db, answers, patches, changes, lost, disturbed>>

--------------------------------------------------------------------------------
(* EventLiveView: getEventStats (the numbers follow from the rows), ...     *)
PollStats(i) ==
  open = "live" /\ Ask(i, IF deleted THEN [gone |-> TRUE] ELSE [rows |-> rows, shown |-> shown])

(* ... a 404 only turns the dot red.                                        *)
HearStats(i) ==
  /\ open = "live" /\ Answered(i)
  /\ view' = IF "gone" \in DOMAIN answers[i] THEN [view EXCEPT !.stale = TRUE]
             ELSE [rows |-> answers[i].rows, shown |-> answers[i].shown, stale |-> FALSE]

(* A poll that fails: the dot turns red, the gallery does not care.         *)
LosePoll(i) ==
  /\ open \in {"gallery", "live"}
  /\ answers[i] # NoAnswer /\ Lose
  /\ answers' = [answers EXCEPT ![i] = NoAnswer]
  /\ view' = IF open = "live" THEN [view EXCEPT !.stale = TRUE] ELSE view
  /\ UNCHANGED <<open, db, patches, changes, disturbed>>

--------------------------------------------------------------------------------
(* Hide and unhide, from the live view and the archive. *)

Crossing(i, k, to) ==
  \E j \in 1..2 \ {i} : patches[j].id = k /\ patches[j].pc # "none" /\ patches[j].to # to

(* The live view asks for the contrary of what was polled, the archive of   *)
(* what it shows; no button is disabled meanwhile.                          *)
SetPublished(i, k) ==
  LET to == IF open = "live" THEN k \notin view.shown ELSE k \notin view.flags
  IN  /\ \/ open = "live" /\ k \in view.rows
         \/ open = "archive" /\ k \in ToSet(view.list)
      /\ patches[i].pc = "none" /\ Change
      /\ patches' = [patches EXCEPT ![i] = [id |-> k, to |-> to, pc |-> "sent"]]
      /\ disturbed' = IF Crossing(i, k, to) THEN disturbed \cup {k} ELSE disturbed
      /\ UNCHANGED <<open, db, view, answers, lost>>

(* setPhotoPublished, ...                                                   *)
Patched(i) ==
  LET k == patches[i].id
  IN  /\ patches[i].pc = "sent" /\ ~deleted
      /\ shown' = IF patches[i].to THEN shown \cup {k} ELSE shown \ {k}
      /\ patches' = [patches EXCEPT ![i].pc = "answered"]
      /\ UNCHANGED <<open, ids, rows, mine, public, deleted, view, answers, changes, lost,
                     disturbed>>

(* ... which may be refused or fail; a fetch that is rejected, before or    *)
(* after it took effect, ends there.                                        *)
PatchFails(i) ==
  /\ \/ patches[i].pc = "sent" /\ Fail /\ patches' = [patches EXCEPT ![i].pc = "answered"]
     \/ patches[i].pc # "none" /\ Lose /\ patches' = [patches EXCEPT ![i] = NoPatch]
  /\ disturbed' = disturbed \cup {patches[i].id}
  /\ UNCHANGED <<open, db, view, answers, changes>>

(* Mutant: the archive turns the flag over. *)
TurnOver(i) ==
  LET k == patches[i].id
  IN  /\ patches[i].pc = "answered"
      /\ patches' = [patches EXCEPT ![i] = NoPatch]
      /\ view' = IF open = "live" THEN view
                 ELSE [view EXCEPT !.flags = IF k \in @ THEN @ \ {k} ELSE @ \cup {k}]
      /\ UNCHANGED <<open, db, answers, changes, lost, disturbed>>

(* The archive shows what was asked for, whatever the answer; the live view *)
(* waits for its poll.                                                      *)
HearPatch(i) ==
  LET k == patches[i].id
  IN  /\ patches[i].pc = "answered"
      /\ patches' = [patches EXCEPT ![i] = NoPatch]
      /\ view' = IF open = "live" THEN view
                 ELSE [view EXCEPT !.flags = IF patches[i].to THEN @ \cup {k} ELSE @ \ {k}]
      /\ UNCHANGED <<open, db, answers, changes, lost, disturbed>>

--------------------------------------------------------------------------------
(* PhotoArchive. *)

(* The ids of a set, in descending order.                                   *)
NewestFirst(S) ==
  CHOOSE s \in [1..Cardinality(S) -> S] : \A i, j \in DOMAIN s : i < j => s[i] > s[j]

(* Mutant: there is more only when more than one photo would be left. *)
ListOneShort(cursor) ==
  LET below == {k \in rows : cursor = 0 \/ k < cursor}
      page == {k \in below : Cardinality({j \in below : j > k}) < PageSize}
  IN  [page |-> NewestFirst(page),
       next |-> IF Cardinality(below) > PageSize + 1 THEN CHOOSE k \in page : \A j \in page : k <= j
                ELSE 0]

(* Mutant: the cursor's own photo is not skipped. *)
ListAgain(cursor) ==
  LET below == {k \in rows : cursor = 0 \/ k <= cursor}
      page == {k \in below : Cardinality({j \in below : j > k}) < PageSize}
  IN  [page |-> NewestFirst(page),
       next |-> IF Cardinality(below) > PageSize THEN CHOOSE k \in page : \A j \in page : k <= j
                ELSE 0]

(* Mutant: the cursor is the photo that did not fit any more. *)
ListBeyond(cursor) ==
  LET below == {k \in rows : cursor = 0 \/ k < cursor}
      page == {k \in below : Cardinality({j \in below : j > k}) < PageSize}
  IN  [page |-> NewestFirst(page),
       next |-> IF Cardinality(below) > PageSize
                THEN CHOOSE k \in below \ page : \A j \in below \ page : k >= j
                ELSE 0]

(* listEventPhotos: newest id first, below the cursor; next is 0 at the end.*)
ListEventPhotos(cursor) ==
  LET below == {k \in rows : cursor = 0 \/ k < cursor}
      page == {k \in below : Cardinality({j \in below : j > k}) < PageSize}
  IN  [page |-> NewestFirst(page),
       next |-> IF Cardinality(below) > PageSize THEN CHOOSE k \in page : \A j \in page : k <= j
                ELSE 0]

(* The route reads a page, the first time or below the cursor, ...          *)
ReadPage ==
  LET found == ListEventPhotos(view.cursor)
  IN  /\ open = "archive" /\ view.loading /\ ~deleted
      /\ Ask(1, [list |-> found.page, next |-> found.next, flags |-> ToSet(found.page) \cap shown,
                 base |-> IF view.cursor = 0 THEN rows ELSE view.base])

(* ... and loadPage appends it, or starts the list with it, ...             *)
HearPage ==
  LET a == answers[1]
  IN  /\ open = "archive" /\ Answered(1)
      /\ view' = [list |-> view.list \o a.list, flags |-> view.flags \cup a.flags,
                  cursor |-> a.next, loaded |-> TRUE, loading |-> FALSE, base |-> a.base,
                  read |-> TRUE]

(* ... and has loaded even if it failed.                                    *)
LosePage ==
  /\ open = "archive" /\ view.loading /\ answers[1] = NoAnswer
  /\ Fail
  /\ view' = [view EXCEPT !.loaded = TRUE, !.loading = FALSE]
  /\ UNCHANGED <<open, db, answers, patches, changes, disturbed>>

(* "Load more", which is there while there is a cursor.                     *)
LoadMore ==
  /\ open = "archive" /\ view.cursor # 0 /\ ~view.loading
  /\ view' = [view EXCEPT !.loading = TRUE]
  /\ UNCHANGED <<open, db, answers, patches, changes, lost, disturbed>>

--------------------------------------------------------------------------------
(* UploadPanel: the next file is sent when the one before is answered.      *)
SendFile ==
  /\ open = "upload" /\ view.pc = "idle" /\ view.done < MaxPhoto
  /\ view' = [view EXCEPT !.pc = "posted"]
  /\ UNCHANGED <<open, db, answers, patches, changes, lost, disturbed>>

(* The route finds the content in the event or makes a row of it.           *)
PostFile ==
  /\ open = "upload" /\ view.pc = "posted" /\ ~deleted
  /\ \/ /\ rows # {} /\ UNCHANGED <<ids, rows, shown>>
        /\ view' = [view EXCEPT !.pc = "duplicate", !.skipped = @ + 1]
     \/ /\ ids < MaxPhoto /\ ids' = ids + 1
        /\ rows' = rows \cup {ids + 1} /\ shown' = shown \cup {ids + 1}
        /\ view' = [view EXCEPT !.pc = "made", !.made = @ + 1]
  /\ UNCHANGED <<open, mine, public, deleted, answers, patches, changes, lost, disturbed>>

(* It may be refused or fail at any point, or its answer is lost.           *)
FileFails ==
  /\ open = "upload" /\ view.pc \in {"posted", "duplicate", "made"}
  /\ Fail
  /\ view' = [view EXCEPT !.pc = "failed"]
  /\ UNCHANGED <<open, db, answers, patches, changes, disturbed>>

(* Mutant: a fetch that fails is only gone on from. *)
CountWithoutFailures ==
  /\ open = "upload" /\ view.pc \in {"duplicate", "made", "failed"}
  /\ view' = [view EXCEPT !.pc = "idle", !.done = @ + 1,
                          !.duplicates = IF view.pc = "duplicate" THEN @ + 1 ELSE @]
  /\ UNCHANGED <<open, db, answers, patches, changes, lost, disturbed>>

CountFile ==
  /\ open = "upload" /\ view.pc \in {"duplicate", "made", "failed"}
  /\ view' = [view EXCEPT !.pc = "idle", !.done = @ + 1,
                          !.duplicates = IF view.pc = "duplicate" THEN @ + 1 ELSE @,
                          !.failed = IF view.pc = "failed" THEN @ + 1 ELSE @]
  /\ UNCHANGED <<open, db, answers, patches, changes, lost, disturbed>>

--------------------------------------------------------------------------------
Next ==
  \/ Others
  \/ \E i \in 1..MaxAnswers : \/ PollGallery(i) \/ HearGallery(i) \/ PollStats(i) \/ HearStats(i)
                              \/ LosePoll(i)
  \/ \E k \in Id : RemoveMe(k) \/ Removed(k)
  \/ \E i \in 1..2 : \/ \E k \in Id : SetPublished(i, k)
                     \/ Patched(i) \/ PatchFails(i) \/ HearPatch(i)
  \/ ReadPage \/ HearPage \/ LosePage \/ LoadMore
  \/ SendFile \/ PostFile \/ FileFails \/ CountFile

(* Intervals fire, and what is on its way arrives.                          *)
Fairness ==
  \A i \in 1..MaxAnswers : /\ WF_vars(PollGallery(i)) /\ WF_vars(HearGallery(i))
                           /\ WF_vars(PollStats(i)) /\ WF_vars(HearStats(i))

Spec == Init /\ [][Next]_vars /\ Fairness

--------------------------------------------------------------------------------
TypeOK ==
  /\ ids \in 0..MaxPhoto /\ rows \subseteq 1..ids /\ shown \subseteq rows /\ mine \subseteq rows
  /\ public \in BOOLEAN /\ deleted \in BOOLEAN
  /\ DOMAIN view = DOMAIN Empty(open)
  /\ open = "archive" => /\ view.list \in Seq(rows) /\ view.flags \subseteq ToSet(view.list)
                         /\ view.cursor \in {0} \cup ToSet(view.list)
  /\ open = "gallery" => view.grid \subseteq rows /\ view.removing \subseteq rows
  /\ open = "live" => view.shown \subseteq view.rows /\ view.rows \subseteq rows
  /\ patches \in [1..2 -> [id: 0..MaxPhoto, to: BOOLEAN, pc: {"none", "sent", "answered"}]]
  /\ changes \in 0..MaxChanges /\ lost \in 0..MaxLost /\ disturbed \subseteq rows

(* The archive is the photos by id, newest first, each once, although rows  *)
(* are inserted above and below the cursor while it is paged through.       *)
ArchiveInOrder ==
  open = "archive" => \A i, j \in 1..Len(view.list) : i < j => view.list[i] > view.list[j]

(* The line above the archive's grid.                                       *)
SaysEverything == open = "archive" /\ view.loaded /\ view.cursor = 0

(* "That's everything" (PhotoArchive.tsx:56): every photo that was there    *)
(* when the first page was read is in the list - if a first page was read.  *)
ThatsEverything == SaysEverything /\ view.read => view.base \subseteq ToSet(view.list)

(* The badge on a photo of the grid.                                         *)
SaysHidden == {k \in ToSet(view.list) : k \notin view.flags}

(* The archive's "Hidden" says what the table says, once nothing is on its  *)
(* way, although it shows what was asked for and not what was answered:     *)
(* unless a PATCH failed, two crossed, or somebody else came in between.    *)
HiddenMeansHidden ==
  open = "archive" /\ (\A i \in 1..2 : patches[i].pc = "none")
    => \A k \in ToSet(view.list) \ disturbed : k \in SaysHidden <=> k \notin shown

(* The number in the line below the button.                                 *)
SaysUploaded == view.done - view.duplicates - view.failed

(* "Done: n uploaded" (UploadPanel.tsx:38-43): n files have made a photo of *)
(* theirs, and no more than the reported failures have made one silently.   *)
CountsAreTrue ==
  open = "upload" /\ view.pc = "idle"
    => SaysUploaded <= view.made /\ view.made <= SaysUploaded + view.failed

(* What a polled page should show.                                          *)
UpToDate ==
  /\ open = "gallery" => deleted \/ (view.grid = Gallery /\ view.enabled = public)
  /\ open = "live" => IF deleted THEN view.stale
                      ELSE view = [rows |-> rows, shown |-> shown, stale |-> FALSE]

(* "New matches appear while the attendee watches" (GalleryView.tsx:4-5),   *)
(* and photos that are hidden go; the live view is live, or its dot is red. *)
(* With answers that overtake each other and polls that fail, both end up   *)
(* with what is there.  Only the gallery of a deleted event stays as it was.*)
PagesCatchUp == <>[]UpToDate
==============================================================================
