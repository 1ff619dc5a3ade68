-------------------------------- MODULE Studio --------------------------------
(***************************************************************************)
(* What an organiser sets up before anybody can join:                      *)
(*                                                                         *)
(*   packages/core  createEvent with ensurePersonalOrg and the slug of the *)
(*                  event, ensureEventQr, deleteEvent                      *)
(*   apps/web       POST events, the event page and the QR download, which *)
(*                  make the code on first ask                             *)
(*                                                                         *)
(* All of them look first and create what is missing in a later statement, *)
(* and two pages of the same organiser do so at the same time.  The        *)
(* organiser works on an event of somebody else's, whose codes are modelled*)
(* and creates events of his own, all under one name.                      *)
(***************************************************************************)
EXTENDS Naturals, Sequences, FiniteSets

CONSTANTS
  Page,     \* requests of the organiser's pages (bounds how many are made)
  NoOrg,    \* null
  Plain     \* the slug that the name gives; a suffixed slug is the page's own

ASSUME NoOrgAssumption == NoOrg \notin Page /\ Plain \notin Page

VARIABLES
  orgs,      \* organisations the organiser owns, by the page that made each
  events,    \* his events: <<organisation, slug>>, the unique key
  codes,     \* qr_codes rows of the event he works on, oldest first
  deleted,   \* is that event's deleted_at set?
  page,      \* the requests
  crossed    \* history: what two pages missed together

studioVars == <<orgs, events, codes, deleted, page, crossed>>

StudioInit ==
  /\ orgs = {} /\ events = {} /\ codes = <<>> /\ deleted = FALSE
  /\ page = [r \in Page |-> [pc |-> "idle", org |-> NoOrg]]
  /\ crossed = {}

(* The next statement of a request.                                         *)
Goto(r, from, to) == page[r].pc = from /\ page' = [page EXCEPT ![r].pc = to]

(* A page looks for something that is not there, as another one just did.   *)
Missing(r, from, what) ==
  /\ Goto(r, from, what)
  /\ crossed' = IF \E s \in Page : page[s].pc = what THEN crossed \cup {what} ELSE crossed

--------------------------------------------------------------------------------
(* createEvent: the organiser's own organisation, ...                       *)
FindOrg(r) ==
  /\ \/ orgs = {} /\ Missing(r, "idle", "orgless")
     \/ \E o \in orgs : /\ page[r].pc = "idle"
                        /\ page' = [page EXCEPT ![r] = [pc |-> "member", org |-> o]]
                        /\ UNCHANGED crossed
  /\ UNCHANGED <<orgs, events, codes, deleted>>

(* Mutant: the organisation that was made is not handed on. *)
MakeOrgForgets(r) ==
  /\ Goto(r, "orgless", "member")
  /\ orgs' = orgs \cup {r}
  /\ UNCHANGED <<events, codes, deleted, crossed>>

MakeOrg(r) ==
  /\ page[r].pc = "orgless"
  /\ page' = [page EXCEPT ![r] = [pc |-> "member", org |-> r]]
  /\ orgs' = orgs \cup {r}
  /\ UNCHANGED <<events, codes, deleted, crossed>>

(* ... a slug that is free, requireMembership being true by now, ...        *)
FindSlug(r) ==
  /\ IF <<page[r].org, Plain>> \in events
     THEN Goto(r, "member", "taken") /\ UNCHANGED crossed
     ELSE Missing(r, "member", "free")
  /\ UNCHANGED <<orgs, events, codes, deleted>>

(* ... and the row, if the slug is still free (the route lets the conflict  *)
(* escape as an error).                                                     *)
InsertEvent(r) ==
  LET row == <<page[r].org, IF page[r].pc = "free" THEN Plain ELSE r>>
  IN  /\ \/ Goto(r, page[r].pc, "failed") /\ row \in events /\ UNCHANGED events
         \/ Goto(r, page[r].pc, "done") /\ row \notin events /\ events' = events \cup {row}
      /\ page[r].pc \in {"free", "taken"}
      /\ UNCHANGED <<orgs, codes, deleted, crossed>>

(* Mutant: every page makes a code. *)
FindNoCode(r) ==
  /\ ~deleted
  /\ Goto(r, "idle", "codeless")
  /\ UNCHANGED <<orgs, events, codes, deleted, crossed>>

(* ensureEventQr, for the event page and the download: getManagedEvent, then*)
(* the oldest code, ...                                                     *)
FindCode(r) ==
  /\ ~deleted
  /\ \/ codes = <<>> /\ Missing(r, "idle", "codeless")
     \/ codes # <<>> /\ Goto(r, "idle", "done") /\ UNCHANGED crossed
  /\ UNCHANGED <<orgs, events, codes, deleted>>

(* ... or a new one.                                                        *)
MakeCode(r) ==
  /\ Goto(r, "codeless", "done")
  /\ codes' = Append(codes, r)
  /\ UNCHANGED <<orgs, events, deleted, crossed>>

DeleteEvent ==
  /\ ~deleted /\ deleted' = TRUE
  /\ UNCHANGED <<orgs, events, codes, page, crossed>>

StudioNext ==
  \/ \E r \in Page : \/ FindOrg(r) \/ MakeOrg(r) \/ FindSlug(r) \/ InsertEvent(r)
                     \/ FindCode(r) \/ MakeCode(r)
  \/ DeleteEvent

--------------------------------------------------------------------------------
(* resolveQrToken and resolve a live or closed event alike: deletion is what*)
(* ends a code.  No code is ever revoked.                                   *)
Resolves == codes # <<>> /\ ~deleted

(* "Every user gets a personal org on first use" (events.ts:82) and "every  *)
(* event needs a QR; create on first ask" (participants.ts:265): there is a *)
(* second one of either only when two pages found it missing together; and  *)
(* an event of a name that is used is only refused when another page was    *)
(* about to take the same slug.                                             *)
OneStudioOneCode ==
  /\ Cardinality(orgs) > 1 => "orgless" \in crossed
  /\ Len(codes) > 1 => "codeless" \in crossed
  /\ (\E r \in Page : page[r].pc = "failed") => "free" \in crossed

StudioTypeOK ==
  /\ orgs \subseteq Page /\ deleted \in BOOLEAN
  /\ events \subseteq orgs \X (Page \cup {Plain})
  /\ codes \in Seq(Page)
  /\ page \in [Page -> [pc: {"idle", "orgless", "member", "taken", "free", "codeless",
                             "done", "failed"},
                        org: Page \cup {NoOrg}]]
  /\ crossed \subseteq {"orgless", "codeless", "free"}
==============================================================================
