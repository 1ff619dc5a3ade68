------------------------------- MODULE Viewing -------------------------------
(***************************************************************************)
(* Who gets to see a photo:                                                *)
(*                                                                         *)
(*   packages/core  canViewPhotoAsParticipant, requestDownload,            *)
(*                  reportAndHidePhoto, getAllEventPhotos, getManagedPhoto,*)
(*                  setPhotoPublished, setPublicGallery, deleteEvent       *)
(*   apps/web       the routes preview, thumb, download, report, PATCH     *)
(*                  photo, all-photos                                      *)
(*                                                                         *)
(* A request is a few statements, each of which sees what the others have  *)
(* written by then.  One event with one manager and one attendee, who has  *)
(* joined; which photos match him is the worker's doing (Matching), here an*)
(* input.  What the pages make of the answers is in Pages.                 *)
(***************************************************************************)
EXTENDS Naturals, FiniteSets

CONSTANTS
  Photo,
  Visitor, Manager,  \* the attendee and the organiser
  Request,           \* calls of the routes (bounds how many are made)
  NoPhoto,           \* null
  MaxMatches         \* bound: changes of matches by the worker

ASSUME NullAssumption == NoPhoto \notin Photo /\ Visitor # Manager
ASSUME MatchesAssumption == MaxMatches \in Nat

VARIABLES
  deleted, public,         \* the event: is it deleted? settings.publicGallery
  shown, matched,          \* photos: published, matched with the visitor
  downloads,               \* requests with a downloads row
  last,                    \* what the newest audit row of a photo says of it
  req,                     \* the requests
  matches,                 \* changes of matches so far
  since,                   \* history: what has been so all the time since a
                           \* request began
  blurred                  \* history: photos whose audit rows were overtaken
                           \* or lost

db == <<deleted, public, shown, matched>>
audit == <<downloads, last, blurred>>
vars == <<db, audit, req, matches, since>>

PhotoOp == {"preview", "thumb", "download", "report", "hide", "show"}
EventOp == {"all", "on", "off", "delete"}

Idle == [pc |-> "idle", op |-> "none", who |-> Visitor, photo |-> NoPhoto, via |-> "none"]

Init ==
  /\ deleted = FALSE /\ public \in BOOLEAN
  /\ shown = Photo /\ matched = {}
  /\ downloads = {} /\ last = [p \in Photo |-> TRUE] /\ blurred = {}
  /\ req = [r \in Request |-> Idle]
  /\ matches = 0
  /\ since = [r \in Request |-> {}]

--------------------------------------------------------------------------------
(* The queries that decide. *)

(* A published photo with a match of the session's user, active as ever; not*)
(* a word of the event or of the photo's status.                            *)
Match(r) == req[r].who = Visitor /\ req[r].photo \in matched \cap shown

(* Mutant: the event is only asked for its switch. *)
PublicAfterAll(r) == public /\ req[r].who = Visitor /\ req[r].photo \in shown

(* A published photo of an event he takes part in that allows browsing.     *)
Public(r) == ~deleted /\ public /\ req[r].who = Visitor /\ req[r].photo \in shown

(* getManagedPhoto, getManagedEvent.                                        *)
Managed(r) == ~deleted /\ req[r].who = Manager

--------------------------------------------------------------------------------
(* Requests. *)

(* Whoever is signed in may call any route.                                 *)
Ask(r, op, u, p) ==
  /\ req[r].pc = "idle"
  /\ (op \in PhotoOp) = (p \in Photo)
  /\ op = "all" => u = Visitor
  /\ req' = [req EXCEPT ![r] = [pc |-> "asked", op |-> op, who |-> u, photo |-> p, via |-> "none"]]
  /\ UNCHANGED <<db, audit, matches>>

At(r, pc, ops) == req[r].pc = pc /\ req[r].op \in ops
Running(r) == req[r].pc \notin {"idle", "given", "refused", "done", "died"}
Goto(r, pc) == req' = [req EXCEPT ![r].pc = pc]

(* Mutant: what was asked is noted for what allowed it. *)
GiveAsAsked(r, via) == req' = [req EXCEPT ![r].pc = "given", ![r].via = req[r].op]

(* A file is handed out, for a reason.                                      *)
Give(r, via) == req' = [req EXCEPT ![r].pc = "given", ![r].via = via]

(* preview: canViewPhotoAsParticipant by a match, ...                       *)
Preview(r) ==
  /\ At(r, "asked", {"preview"})
  /\ IF Match(r) THEN Give(r, "match") ELSE Goto(r, "unmatched")
  /\ UNCHANGED <<db, audit, matches>>

(* ... by the event's switch, ...                                           *)
ViaPublic(r) ==
  /\ At(r, "unmatched", {"preview"})
  /\ IF Public(r) THEN Give(r, "public") ELSE Goto(r, "manager?")
  /\ UNCHANGED <<db, audit, matches>>

(* ... or getManagedPhoto, which alone decides on a thumb and is the last   *)
(* resort of a download.                                                    *)
ViaManaged(r) ==
  /\ At(r, "manager?", {"preview", "download"}) \/ At(r, "asked", {"thumb"})
  /\ IF Managed(r) THEN Give(r, "managed") ELSE Goto(r, "refused")
  /\ UNCHANGED <<db, audit, matches>>

(* Mutant: the URL comes first, the row later, if nothing fails. *)
DownloadUnlogged(r) ==
  /\ At(r, "asked", {"download"})
  /\ IF Match(r) THEN Give(r, "match") ELSE Goto(r, "manager?")
  /\ UNCHANGED <<db, audit, matches>>

(* Mutant: a hidden photo can still be downloaded. *)
DownloadHidden(r) ==
  /\ At(r, "asked", {"download"})
  /\ Goto(r, IF req[r].who = Visitor /\ req[r].photo \in matched THEN "log" ELSE "manager?")
  /\ UNCHANGED <<db, audit, matches>>

(* requestDownload: the match, ...                                          *)
RequestDownload(r) ==
  /\ At(r, "asked", {"download"})
  /\ Goto(r, IF Match(r) THEN "log" ELSE "manager?")
  /\ UNCHANGED <<db, audit, matches>>

(* ... the audit row, and then the file.                                    *)
LogDownload(r) ==
  /\ At(r, "log", {"download"})
  /\ downloads' = downloads \cup {r}
  /\ Give(r, "match")
  /\ UNCHANGED <<db, last, blurred, matches>>

(* What is said of a photo overtakes an audit row that is not there yet.    *)
Overtaking(r) ==
  blurred' = blurred \cup {p \in {req[r].photo} : \E q \in Request \ {r} :
                             At(q, "written", {"hide", "show"}) /\ req[q].photo = p}

(* reportAndHidePhoto: the match, ...                                       *)
Report(r) ==
  /\ At(r, "asked", {"report"})
  /\ Goto(r, IF Match(r) THEN "objected" ELSE "refused")
  /\ UNCHANGED <<db, audit, matches>>

(* Mutant: the objection is not audited. *)
HideUnaudited(r) ==
  /\ At(r, "objected", {"report"})
  /\ shown' = shown \ {req[r].photo}
  /\ Overtaking(r) /\ Goto(r, "done")
  /\ UNCHANGED <<deleted, public, matched, last, downloads, matches>>

(* ... then the photo and the audit row in one transaction.                 *)
HidePhoto(r) ==
  /\ At(r, "objected", {"report"})
  /\ shown' = shown \ {req[r].photo}
  /\ last' = [last EXCEPT ![req[r].photo] = FALSE]
  /\ Overtaking(r) /\ Goto(r, "done")
  /\ UNCHANGED <<deleted, public, matched, downloads, matches>>

(* PATCH photo, PATCH and DELETE event: first the check, ...                *)
CheckManager(r) ==
  /\ At(r, "asked", {"hide", "show", "on", "off", "delete"})
  /\ Goto(r, IF Managed(r) THEN "checked" ELSE "refused")
  /\ UNCHANGED <<db, audit, matches>>

(* ... then setPhotoPublished writes the photo, ...                         *)
SetPublished(r) ==
  /\ \/ At(r, "checked", {"hide"}) /\ shown' = shown \ {req[r].photo}
     \/ At(r, "checked", {"show"}) /\ shown' = shown \cup {req[r].photo}
  /\ Overtaking(r) /\ Goto(r, "written")
  /\ UNCHANGED <<deleted, public, matched, downloads, last, matches>>

(* ... and later its audit row, ...                                         *)
AuditPublished(r) ==
  /\ At(r, "written", {"hide", "show"})
  /\ last' = [last EXCEPT ![req[r].photo] = (req[r].op = "show")]
  /\ Goto(r, "done")
  /\ UNCHANGED <<db, downloads, blurred, matches>>

(* ... setPublicGallery the settings, and deleteEvent the event.            *)
SetPublicGallery(r) ==
  /\ \/ At(r, "checked", {"on"}) /\ public' = TRUE
     \/ At(r, "checked", {"off"}) /\ public' = FALSE
  /\ Goto(r, "done")
  /\ UNCHANGED <<deleted, shown, matched, audit, matches>>

DeleteEvent(r) ==
  /\ At(r, "checked", {"delete"})
  /\ deleted' = TRUE
  /\ Goto(r, "done")
  /\ UNCHANGED <<public, shown, matched, audit, matches>>

(* all-photos: getOwnedParticipant and the switch, ...                      *)
AskAll(r) ==
  /\ At(r, "asked", {"all"})
  /\ Goto(r, IF ~deleted /\ public THEN "allowed" ELSE "refused")
  /\ UNCHANGED <<db, audit, matches>>

(* ... then the list.                                                       *)
GetAll(r) ==
  /\ At(r, "allowed", {"all"})
  /\ Give(r, "public")
  /\ UNCHANGED <<db, audit, matches>>

(* A request dies between two statements.                                   *)
Die(r) ==
  /\ Running(r)
  /\ blurred' = IF req[r].pc = "written" THEN blurred \cup {req[r].photo} ELSE blurred
  /\ Goto(r, "died")
  /\ UNCHANGED <<db, downloads, last, matches>>

RequestNext(r) ==
  \/ Preview(r) \/ ViaPublic(r) \/ ViaManaged(r) \/ RequestDownload(r) \/ LogDownload(r)
  \/ Report(r) \/ HidePhoto(r)
  \/ CheckManager(r) \/ SetPublished(r) \/ AuditPublished(r)
  \/ SetPublicGallery(r) \/ DeleteEvent(r) \/ AskAll(r) \/ GetAll(r)

(* The worker, or a retake, matches a photo with the attendee, or no longer.*)
Work(p) ==
  /\ matches < MaxMatches /\ matches' = matches + 1
  /\ matched' \in {matched \cup {p}, matched \ {p}}
  /\ UNCHANGED <<deleted, public, shown, audit, req>>

Step ==
  \/ \E r \in Request :
       \/ \E op \in PhotoOp \cup EventOp, u \in {Visitor, Manager}, p \in Photo \cup {NoPhoto} :
            Ask(r, op, u, p)
       \/ RequestNext(r) \/ Die(r)
  \/ \E p \in Photo : Work(p)

(* What stands in the way of a request, and has since it began.             *)
Obstacles(r) ==
  {o \in {"deleted", "private", "hidden"} :
     \/ o = "deleted" /\ deleted
     \/ o = "private" /\ ~public
     \/ o = "hidden" /\ req[r].photo \in Photo \ shown}

Remember ==
  since' = [r \in Request |->
              IF req[r].pc = "idle" THEN IF Running(r)' THEN Obstacles(r)' ELSE {}
              ELSE IF Running(r) THEN since[r] \cap Obstacles(r)' ELSE {}]

Next == Step /\ Remember

Spec == Init /\ [][Next]_vars

--------------------------------------------------------------------------------
TypeOK ==
  /\ deleted \in BOOLEAN /\ public \in BOOLEAN
  /\ shown \subseteq Photo /\ matched \subseteq Photo
  /\ downloads \subseteq Request /\ blurred \subseteq Photo
  /\ last \in [Photo -> BOOLEAN]
  /\ req \in [Request -> [pc: {"idle", "asked", "unmatched", "manager?", "log", "objected",
                               "checked", "written", "allowed", "given", "refused", "done",
                               "died"},
                          op: PhotoOp \cup EventOp \cup {"none"}, who: {Visitor, Manager},
                          photo: Photo \cup {NoPhoto},
                          via: {"none", "match", "public", "managed"}]]
  /\ matches \in 0..MaxMatches
  /\ since \in [Request -> SUBSET {"deleted", "private", "hidden"}]

Given(r) == req[r].pc = "given" /\ req[r].who = Visitor

(* "Write the audit row FIRST ... every original egress is logged"          *)
(* (participants.ts:195-197): an attendee who got the file has his row, of  *)
(* that very request, however the requests interleave or die.               *)
EveryOriginalIsLogged ==
  \A r \in Request : Given(r) /\ req[r].op = "download" => r \in downloads

(* "The photo is hidden from everyone immediately" (participants.ts:230): a *)
(* request that only began when a photo had been hidden, by the organiser or*)
(* by anybody who is in it, and that was never shown again meanwhile, does  *)
(* not get it to an attendee, through no match and no switch.               *)
HiddenFromEveryone == \A r \in Request : Given(r) => "hidden" \notin since[r]

(* After the event is gone, or while browsing is off, an attendee gets a    *)
(* file by a match of his or not at all.                                    *)
OnlyByMatch ==
  \A r \in Request : Given(r) /\ since[r] \cap {"deleted", "private"} # {} => req[r].via = "match"

(* The newest audit row of a photo says whether it is shown, unless the row *)
(* is about to be written, or was lost or overtaken by another's            *)
(* (events.ts:458-470; a report writes both at once).                       *)
AuditExplained ==
  \A p \in Photo : \/ p \in blurred
                   \/ \E r \in Request : req[r].pc = "written" /\ req[r].photo = p
                   \/ last[p] <=> p \in shown

(* "Deleted events take their galleries with them" (participants.ts:77).    *)
DeletedGivesNothing == \A r \in Request : Given(r) => "deleted" \notin since[r]
================================================================================
