------------------------------ MODULE Dashboard ------------------------------
(***************************************************************************)
(* The organiser's pages: setting up an event (Studio) and the panels of   *)
(* the event page that act on it or report about it:                       *)
(*                                                                         *)
(*   CameraPanel    lists the camera logins, creates one, gives one a new  *)
(*                  password, which is shown once, revokes one             *)
(*   EventControls  end or reopen, "Browse all", delete; shows what the    *)
(*                  server rendered last (router.refresh)                  *)
(*   EventLogPanel  the newest of what happened, from four tables          *)
(*                                                                         *)
(* with listFtpCredentials and getEventLog of packages/core behind them.   *)
(* One of them is open; others change the event meanwhile.  How the calls  *)
(* are cut on the server is the subject of CameraAccess and Viewing: here  *)
(* the last write of each decides.                                         *)
(***************************************************************************)
EXTENDS Studio

CONSTANTS
  Login,       \* camera logins that can be created (bounds how many are)
  NoLogin,     \* null
  NoAnswer,    \* null
  Limit,       \* entries of the log (50)
  MaxAnswers,  \* bound: polls on their way at once
  MaxEdits,    \* bound: clicks, and changes by others
  MaxLost      \* bound: fetches that fail

ASSUME LoginAssumption == NoLogin \notin Login
ASSUME BoundsAssumption ==
  MaxAnswers \in Nat \ {0} /\ MaxEdits \in Nat /\ MaxLost \in Nat

VARIABLES
  panel,       \* what is open
  logins,      \* ftp_credentials: password (0: no row), revoked
  made,        \* passwords generated so far; each is its number
  event,       \* status and settings.publicGallery
  happened,    \* rows with their created_at, oldest first: which table
  view,        \* what the panel shows
  answers,     \* answers of its polls on their way
  calls,       \* its other calls
  edits, lost, \* used up so far
  astray       \* history: logins whose password was changed by others, by two
               \* calls at once or by a lost call; NoLogin: others changed the
               \* event since it was rendered

rows == <<logins, made, event, happened>>
spent == <<edits, lost>>
vars == <<studioVars, panel, rows, view, answers, calls, spent, astray>>

Source == {"photo", "participant", "download", "camera"}

NoCall == [op |-> "none", login |-> NoLogin, value |-> "none", password |-> 0,
           ok |-> FALSE, pc |-> "none"]

(* What a panel shows at first; the controls are rendered with the page.    *)
Blank(p) ==
  CASE p = "studio" -> [busy |-> FALSE]
    [] p = "cameras" -> [list |-> {}, busy |-> FALSE, fresh |-> [login |-> NoLogin, password |-> 0],
                         regenerated |-> [c \in Login |-> 0]]
    [] p = "controls" -> [event |-> [status |-> "live", public |-> FALSE], busy |-> FALSE, due |-> 0,
                          left |-> FALSE]
    [] p = "log" -> [entries |-> {}]

Init ==
  /\ StudioInit
  /\ panel \in {"studio", "cameras", "controls", "log"}
  /\ logins = [c \in Login |-> [password |-> 0, revoked |-> FALSE]] /\ made = 0
  /\ event = [status |-> "live", public |-> FALSE]
  /\ happened = <<>>
  /\ view = Blank(panel)
  /\ answers = [i \in 1..MaxAnswers |-> NoAnswer]
  /\ calls = [i \in 1..2 |-> NoCall]
  /\ edits = 0 /\ lost = 0 /\ astray = {}

Edit == edits < MaxEdits /\ edits' = edits + 1
Lose == lost < MaxLost /\ lost' = lost + 1

--------------------------------------------------------------------------------
(* Polls. *)

Ask(i, answer) ==
  /\ answers[i] = NoAnswer
  /\ answers' = [answers EXCEPT ![i] = answer]
  /\ UNCHANGED <<studioVars, panel, rows, view, calls, spent>>

Hear(i) ==
  /\ answers[i] # NoAnswer
  /\ answers' = [answers EXCEPT ![i] = NoAnswer]
  /\ UNCHANGED <<studioVars, panel, rows, calls, spent, astray>>

(* A poll that fails, or is refused, changes nothing.                       *)
LosePoll(i) ==
  /\ answers[i] # NoAnswer /\ panel \in {"cameras", "log"} /\ Lose
  /\ answers' = [answers EXCEPT ![i] = NoAnswer]
  /\ UNCHANGED <<studioVars, panel, rows, view, calls, edits, astray>>

(* listFtpCredentials: "revoked logins disappear from the list".            *)
ListFtpCredentials == {c \in Login : logins[c].password # 0 /\ ~logins[c].revoked}

(* refresh() of the cameras, every five seconds and after some clicks.      *)
PollCameras(i) ==
  panel = "cameras" /\ ~deleted /\ Ask(i, [list |-> ListFtpCredentials]) /\ UNCHANGED astray

HearCameras(i) ==
  /\ panel = "cameras" /\ Hear(i)
  /\ view' = [view EXCEPT !.list = answers[i].list]

Newest(n, moments) == {m \in moments : Cardinality({k \in moments : k > m}) < n}
Of(source) == {m \in 1..Len(happened) : happened[m] = source}

(* Mutant: each table contributes its share. *)
EventLogByShares ==
  Newest(Limit, Of("camera") \cup UNION {Newest(Limit \div 2, Of(s)) : s \in Source \ {"camera"}})

(* getEventLog: the newest rows of each table but the logins', which are    *)
(* all read, and the newest of those.                                       *)
GetEventLog ==
  Newest(Limit, Of("camera") \cup UNION {Newest(Limit, Of(s)) : s \in Source \ {"camera"}})

PollLog(i) == panel = "log" /\ ~deleted /\ Ask(i, [entries |-> GetEventLog]) /\ UNCHANGED astray

HearLog(i) ==
  /\ panel = "log" /\ Hear(i)
  /\ view' = [view EXCEPT !.entries = answers[i].entries]

(* router.refresh(), one at a time: the page is rendered again, or is gone. *)
ReadPage ==
  /\ panel = "controls" /\ view.due > 0
  /\ Ask(1, [event |-> event, gone |-> deleted])
  /\ astray' = astray \ {NoLogin}

HearPage ==
  /\ panel = "controls" /\ Hear(1)
  /\ view' = [view EXCEPT !.event = answers[1].event, !.due = @ - 1, !.left = @ \/ answers[1].gone]

--------------------------------------------------------------------------------
(* Clicks. *)

Call(i, op, c, value) ==
  /\ calls[i].pc = "none" /\ Edit
  /\ calls' = [calls EXCEPT ![i] = [NoCall EXCEPT !.op = op, !.login = c, !.value = value,
                                                  !.pc = "sent"]]
  /\ UNCHANGED <<studioVars, panel, rows, answers, lost>>

Regenerating(c) == {i \in 1..2 : calls[i].op = "regenerate" /\ calls[i].login = c}

(* "Add camera", disabled while it runs; "New password" and "Revoke", in the*)
(* row of a camera, never are.                                              *)
Create(i) ==
  /\ panel = "cameras" /\ ~view.busy
  /\ Call(i, "create", NoLogin, "none")
  /\ view' = [view EXCEPT !.busy = TRUE] /\ UNCHANGED astray

Regenerate(i, c) ==
  /\ panel = "cameras" /\ c \in view.list
  /\ Call(i, "regenerate", c, "none")
  /\ astray' = IF Regenerating(c) = {} THEN astray ELSE astray \cup {c}
  /\ UNCHANGED view

Revoke(i, c) ==
  panel = "cameras" /\ c \in view.list /\ Call(i, "revoke", c, "none") /\ UNCHANGED <<view, astray>>

(* The controls ask for the contrary of what was rendered; all of them are  *)
(* disabled while one runs.                                                 *)
Control(op) ==
  /\ panel = "controls" /\ ~view.busy /\ ~view.left
  /\ Call(1, op, NoLogin,
          CASE op = "status" -> IF view.event.status = "live" THEN "closed" ELSE "live"
            [] op = "public" -> IF view.event.public THEN "off" ELSE "on"
            [] OTHER -> "none")
  /\ view' = [view EXCEPT !.busy = TRUE] /\ UNCHANGED astray

--------------------------------------------------------------------------------
(* What the calls do on the server. *)

Serving(i, op) == calls[i].pc = "sent" /\ calls[i].op = op /\ ~deleted

Served(i, c, password) ==
  /\ calls' = [calls EXCEPT ![i].pc = "served", ![i].ok = TRUE, ![i].login = c,
                            ![i].password = password]
  /\ UNCHANGED <<panel, happened, view, answers, spent>>

(* createFtpCredential, ...                                                 *)
CreateFtpCredential(i) ==
  \E c \in Login :
    /\ Serving(i, "create") /\ logins[c].password = 0
    /\ made' = made + 1
    /\ logins' = [logins EXCEPT ![c].password = made + 1]
    /\ Served(i, c, made + 1)
    /\ UNCHANGED <<studioVars, event, astray>>

(* ... regenerateFtpPassword, unless it is revoked, ...                     *)
RegenerateFtpPassword(i) ==
  LET c == calls[i].login
  IN  /\ Serving(i, "regenerate") /\ ~logins[c].revoked
      /\ made' = made + 1
      /\ logins' = [logins EXCEPT ![c].password = made + 1]
      /\ Served(i, c, made + 1)
      /\ astray' = IF Regenerating(c) = {i} THEN astray \ {c} ELSE astray
      /\ UNCHANGED <<studioVars, event>>

(* ... revokeFtpCredential, ...                                             *)
RevokeFtpCredential(i) ==
  /\ Serving(i, "revoke")
  /\ logins' = [logins EXCEPT ![calls[i].login].revoked = TRUE]
  /\ Served(i, calls[i].login, 0)
  /\ UNCHANGED <<studioVars, made, event, astray>>

(* ... setEventStatus and setPublicGallery, ...                             *)
PatchEvent(i) ==
  LET value == calls[i].value
  IN  /\ \/ Serving(i, "status") /\ event' = [event EXCEPT !.status = value]
         \/ Serving(i, "public") /\ event' = [event EXCEPT !.public = (value = "on")]
      /\ Served(i, NoLogin, 0)
      /\ UNCHANGED <<studioVars, logins, made, astray>>

Delete ==
  /\ DeleteEvent
  /\ logins' = [c \in Login |-> [logins[c] EXCEPT !.revoked = @ \/ logins[c].password # 0]]
  /\ event' = [event EXCEPT !.status = "archived"]

(* ... deleteEvent.                                                         *)
DeleteByCall(i) ==
  Serving(i, "delete") /\ Delete /\ Served(i, NoLogin, 0) /\ UNCHANGED <<made, astray>>

(* 404, or an error before anything was done, ...                           *)
Refuse(i) ==
  /\ calls[i].pc = "sent"
  /\ \/ deleted /\ UNCHANGED lost
     \/ calls[i].op = "regenerate" /\ logins[calls[i].login].revoked /\ UNCHANGED lost
     \/ Lose
  /\ calls' = [calls EXCEPT ![i].pc = "served"]
  /\ UNCHANGED <<studioVars, panel, rows, view, answers, edits, astray>>

(* ... or after: a fetch that is rejected is not caught, its button stays   *)
(* busy.                                                                    *)
Reject(i) ==
  /\ calls[i].pc \in {"sent", "served"} /\ Lose
  /\ calls' = [calls EXCEPT ![i] = NoCall]
  /\ astray' = IF calls[i].op = "regenerate" THEN astray \cup {calls[i].login} ELSE astray
  /\ UNCHANGED <<studioVars, panel, rows, view, answers, edits>>

--------------------------------------------------------------------------------
(* ... and what the panels make of the answers. *)

Heard(i, op) ==
  /\ calls[i].pc = "served" /\ calls[i].op = op
  /\ calls' = [calls EXCEPT ![i] = NoCall]
  /\ UNCHANGED <<studioVars, panel, rows, answers, spent, astray>>

HearCreated(i) ==
  /\ Heard(i, "create")
  /\ view' = [view EXCEPT !.busy = FALSE,
                          !.fresh = IF calls[i].ok
                                    THEN [login |-> calls[i].login, password |-> calls[i].password]
                                    ELSE @]

(* Mutant: the row keeps the password it shows. *)
KeepRegenerated(i) ==
  LET c == calls[i].login
  IN  /\ Heard(i, "regenerate")
      /\ view' = IF calls[i].ok /\ view.regenerated[c] = 0
                 THEN [view EXCEPT !.regenerated[c] = calls[i].password]
                 ELSE view

HearRegenerated(i) ==
  /\ Heard(i, "regenerate")
  /\ view' = IF calls[i].ok
             THEN [view EXCEPT !.regenerated[calls[i].login] = calls[i].password]
             ELSE view

HearRevoked(i) == Heard(i, "revoke") /\ UNCHANGED view

(* Whatever the answer, the page is rendered again; a deletion that is not  *)
(* refused leads to the dashboard.                                          *)
HearControl(i) ==
  \/ Heard(i, "status") /\ view' = [view EXCEPT !.busy = FALSE, !.due = @ + 1]
  \/ Heard(i, "public") /\ view' = [view EXCEPT !.busy = FALSE, !.due = @ + 1]
  \/ Heard(i, "delete") /\ view' = [view EXCEPT !.busy = FALSE, !.left = calls[i].ok]

--------------------------------------------------------------------------------
(* Everybody else. *)

OtherLogin(c) ==
  /\ panel = "cameras" /\ ~deleted /\ Edit
  /\ \/ /\ made' = made + 1 /\ astray' = astray \cup {c}
        /\ ~logins[c].revoked /\ logins' = [logins EXCEPT ![c].password = made + 1]
     \/ /\ c \in ListFtpCredentials /\ logins' = [logins EXCEPT ![c].revoked = TRUE]
        /\ UNCHANGED <<made, astray>>
  /\ UNCHANGED <<studioVars, panel, event, happened, view, answers, calls, lost>>

OtherPatch ==
  /\ panel = "controls" /\ ~deleted /\ Edit
  /\ event' \in [status: {"live", "closed"}, public: BOOLEAN]
  /\ astray' = astray \cup {NoLogin}
  /\ UNCHANGED <<studioVars, panel, logins, made, happened, view, answers, calls, lost>>

OtherDelete ==
  /\ panel # "studio" /\ Edit /\ Delete
  /\ astray' = astray \cup {NoLogin}
  /\ UNCHANGED <<panel, made, happened, view, answers, calls, lost>>

Happen(source) ==
  /\ panel = "log" /\ Edit
  /\ happened' = Append(happened, source)
  /\ UNCHANGED <<studioVars, panel, logins, made, event, view, answers, calls, lost, astray>>

Server(i) ==
  \/ CreateFtpCredential(i) \/ RegenerateFtpPassword(i) \/ RevokeFtpCredential(i)
  \/ PatchEvent(i) \/ DeleteByCall(i)

HearCall(i) == HearCreated(i) \/ HearRegenerated(i) \/ HearRevoked(i) \/ HearControl(i)

Next ==
  \/ panel = "studio" /\ StudioNext /\ UNCHANGED <<panel, rows, view, answers, calls, spent, astray>>
  \/ \E i \in 1..MaxAnswers : \/ PollCameras(i) \/ HearCameras(i) \/ PollLog(i) \/ HearLog(i)
                              \/ LosePoll(i)
  \/ ReadPage \/ HearPage
  \/ \E i \in 1..2 : \/ Create(i) \/ Server(i) \/ Refuse(i) \/ Reject(i) \/ HearCall(i)
                     \/ \E c \in Login : Regenerate(i, c) \/ Revoke(i, c)
  \/ \E op \in {"status", "public", "delete"} : Control(op)
  \/ OtherPatch \/ OtherDelete
  \/ \E c \in Login : OtherLogin(c)
  \/ \E source \in Source : Happen(source)

(* Intervals fire, calls are served and answered, the router refreshes.     *)
Fairness ==
  /\ \A i \in 1..MaxAnswers : /\ WF_vars(PollCameras(i)) /\ WF_vars(HearCameras(i))
                              /\ WF_vars(PollLog(i)) /\ WF_vars(HearLog(i))
  /\ WF_vars(ReadPage) /\ WF_vars(HearPage)
  /\ \A i \in 1..2 : WF_vars(Server(i) \/ Refuse(i)) /\ WF_vars(HearCall(i))

Spec == Init /\ [][Next]_vars /\ Fairness

--------------------------------------------------------------------------------
TypeOK ==
  /\ StudioTypeOK
  /\ logins \in [Login -> [password: 0..made, revoked: BOOLEAN]]
  /\ made \in 0..MaxEdits
  /\ event \in [status: {"live", "closed", "archived"}, public: BOOLEAN]
  /\ happened \in Seq(Source)
  /\ DOMAIN view = DOMAIN Blank(panel)
  /\ panel = "cameras" => /\ view.list \subseteq {c \in Login : logins[c].password # 0}
                          /\ view.fresh \in [login: Login \cup {NoLogin}, password: 0..made]
                          /\ view.regenerated \in [Login -> 0..made]
  /\ panel = "controls" => view.event.public \in BOOLEAN /\ view.due \in 0..MaxEdits
  /\ \A i \in 1..2 : /\ calls[i].op \in {"none", "create", "regenerate", "revoke", "status",
                                         "public", "delete"}
                     /\ calls[i].pc \in {"none", "sent", "served"}
  /\ edits \in 0..MaxEdits /\ lost \in 0..MaxLost /\ astray \subseteq Login \cup {NoLogin}

(* The passwords on the screen for a camera, 0 for none: that of its row,   *)
(* and that of the box of the camera created last, which nothing but the    *)
(* next creation replaces.                                                  *)
InRow(c) == view.regenerated[c]
InBox(c) == IF view.fresh.login = c THEN view.fresh.password ELSE 0

Works(c, password) == password \in {0, logins[c].password}

(* A login that the panel cannot know about, is about to, or that nobody can*)
(* use any more.                                                            *)
Unsettled(c) == c \in astray \/ Regenerating(c) # {} \/ logins[c].revoked

(* "Shown only once - enter it in the camera now" (CameraPanel.tsx:157): of *)
(* a login that is not revoked, the password in the row opens the door, and *)
(* that in the box does until the row has a new one, once no new one is on  *)
(* its way, unless another page, two clicks at once or a lost answer changed*)
(* it behind the panel's back; nothing but the screen would ever tell.      *)
ShownPasswordWorks ==
  panel = "cameras"
    => \A c \in Login : \/ Unsettled(c)
                        \/ Works(c, InRow(c)) /\ (InRow(c) # 0 \/ Works(c, InBox(c)))

(* What a panel should show.                                                *)
UpToDate ==
  /\ panel = "cameras" => deleted \/ view.list = ListFtpCredentials
  /\ panel = "log" => deleted \/ view.entries = Newest(Limit, 1..Len(happened))
  /\ panel = "controls" => view.event = event \/ view.left \/ view.busy \/ NoLogin \in astray

(* The panels end up with what is there: the list of cameras without the    *)
(* revoked, however its polls overtake each other and the clicks; the newest*)
(* of "everything that happened" (events.ts:345), whichever table it is in; *)
(* controls that say and do the right thing, unless somebody else has       *)
(* changed the event since they were rendered, or a button hangs.           *)
PanelsCatchUp == <>[]UpToDate
==============================================================================
