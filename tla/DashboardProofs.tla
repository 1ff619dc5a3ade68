---------------------------- MODULE DashboardProofs ----------------------------
(***************************************************************************)
(* What Dashboard promises of the set-up of an event and of the password   *)
(* of a camera, for every number of pages, logins, polls and clicks.       *)
(*                                                                         *)
(* The set-up: only the deletion of an event touches what Studio keeps, and*)
(* as Studio says.                                                         *)
(***************************************************************************)
EXTENDS Dashboard, StudioProofs

(* No panel but the set-up's makes an organisation, an event or a code.     *)
LEMMA PanelsLeaveTheSetUp == [Next]_vars => [StudioNext]_studioVars
<1> SUFFICES ASSUME [Next]_vars PROVE [StudioNext]_studioVars
  OBVIOUS
<1>1. CASE panel = "studio" /\ StudioNext
  BY <1>1
<1>2. ASSUME NEW i \in 1..MaxAnswers,
             \/ PollCameras(i) \/ HearCameras(i) \/ PollLog(i) \/ HearLog(i) \/ LosePoll(i)
      PROVE  UNCHANGED studioVars
  BY <1>2 DEF PollCameras, HearCameras, PollLog, HearLog, LosePoll, Ask, Hear
<1>3. CASE ReadPage \/ HearPage
  BY <1>3 DEF ReadPage, HearPage, Ask, Hear
<1>4. ASSUME NEW i \in 1..2,
             \/ Create(i) \/ CreateFtpCredential(i) \/ RegenerateFtpPassword(i)
             \/ RevokeFtpCredential(i) \/ PatchEvent(i) \/ Refuse(i) \/ Reject(i) \/ HearCall(i)
             \/ \E c \in Login : Regenerate(i, c) \/ Revoke(i, c)
      PROVE  UNCHANGED studioVars
  <2>1. CASE Create(i) \/ \E c \in Login : Regenerate(i, c) \/ Revoke(i, c)
    BY <2>1 DEF Create, Regenerate, Revoke, Call
  <2>2. CASE \/ CreateFtpCredential(i) \/ RegenerateFtpPassword(i) \/ RevokeFtpCredential(i)
             \/ PatchEvent(i)
    BY <2>2 DEF CreateFtpCredential, RegenerateFtpPassword, RevokeFtpCredential, PatchEvent
  <2>3. CASE Refuse(i) \/ Reject(i)
    BY <2>3 DEF Refuse, Reject
  <2>4. CASE HearCall(i)
    BY <2>4 DEF HearCall, HearCreated, HearRegenerated, HearRevoked, HearControl, Heard
  <2> QED BY <1>4, <2>1, <2>2, <2>3, <2>4, SMTT(30)
<1>5. ASSUME NEW i \in 1..2, DeleteByCall(i)
      PROVE  StudioNext
  BY <1>5 DEF DeleteByCall, Delete, StudioNext
<1>6. ASSUME NEW op \in {"status", "public", "delete"}, Control(op)
      PROVE  UNCHANGED studioVars
  BY <1>6 DEF Control, Call
<1>7. CASE OtherPatch
  BY <1>7 DEF OtherPatch
<1>8. CASE OtherDelete
  BY <1>8 DEF OtherDelete, Delete, StudioNext
<1>9. ASSUME NEW c \in Login, OtherLogin(c)
      PROVE  UNCHANGED studioVars
  BY <1>9 DEF OtherLogin
<1>10. ASSUME NEW source \in Source, Happen(source)
       PROVE  UNCHANGED studioVars
  BY <1>10 DEF Happen
<1>11. CASE UNCHANGED vars
  BY <1>11 DEF vars
<1> QED BY <1>1, <1>2, <1>3, <1>4, <1>5, <1>6, <1>7, <1>8, <1>9, <1>10, <1>11 DEF Next, Server

(* However many pages create events and ask for codes at once, and whatever *)
(* the panels do, a second organisation, a second code or a refused name is *)
(* always explained by two pages that looked before either had created      *)
(* (ensurePersonalOrg, createEvent and ensureEventQr).                      *)
THEOREM OneEachHolds == Spec => []OneStudioOneCode
<1>1. Init => StudioInv
  BY StudioInitInv DEF Init
<1>2. StudioInv /\ [Next]_vars => StudioInv'
  BY PanelsLeaveTheSetUp, StudioInductive
<1> QED BY <1>1, <1>2, OneEach, PTL DEF Spec

--------------------------------------------------------------------------------
(* The password on the screen. *)

CallState ==
  [op: {"none", "create", "regenerate", "revoke"}, login: Login \cup {NoLogin}, value: {"none"},
   password: Nat, ok: BOOLEAN, pc: {"none", "sent", "served"}]

CamerasView ==
  [list: SUBSET Login, busy: BOOLEAN, fresh: [login: Login \cup {NoLogin}, password: Nat],
   regenerated: [Login -> Nat]]

CamerasOK ==
  /\ logins \in [Login -> [password: Nat, revoked: BOOLEAN]] /\ made \in Nat
  /\ view \in CamerasView
  /\ answers \in [1..MaxAnswers -> {NoAnswer} \cup [list: SUBSET Login]]
  /\ calls \in [1..2 -> CallState]
  /\ \A i \in 1..2 : /\ calls[i].op \in {"regenerate", "revoke"} => calls[i].login \in Login
                     /\ calls[i].pc = "sent" => ~calls[i].ok

Asked(i, c) == calls[i].op = "regenerate" /\ calls[i].login = c
Changed(i, c) == Asked(i, c) /\ calls[i].pc = "served" /\ calls[i].ok
Made(i, c) ==
  /\ calls[i].op = "create" /\ calls[i].login = c
  /\ calls[i].pc = "served" /\ calls[i].ok

(* The last password on the screen: the row's stands for the box's.         *)
Shown(c) == IF InRow(c) # 0 THEN InRow(c) ELSE InBox(c)

(* What is on the screen, or on its way to it, of a camera that nobody else *)
(* changed: the answer of a new password is the last word, and until there  *)
(* is one the screen is; the answer of the creation only counts before.     *)
Trusted(c) ==
  /\ \A i, j \in 1..2 : Asked(i, c) /\ Asked(j, c) => i = j
  /\ \A i \in 1..2 : Changed(i, c) => calls[i].password = logins[c].password /\ calls[i].password # 0
  /\ (\A i \in 1..2 : ~Changed(i, c)) => Shown(c) = 0 \/ Shown(c) = logins[c].password
  /\ \A i \in 1..2 :
       Made(i, c) => /\ logins[c].password # 0
                     /\ \/ calls[i].password = logins[c].password
                        \/ view.regenerated[c] # 0
                        \/ \E j \in 1..2 : Changed(j, c)

CamerasInv == CamerasOK /\ \A c \in Login \ astray : Trusted(c)

(* A page shows one panel.                                                  *)
LEMMA PanelIsKept == [Next]_vars => panel' = panel
<1> SUFFICES ASSUME [Next]_vars PROVE panel' = panel
  OBVIOUS
<1>1. ASSUME NEW i \in 1..MaxAnswers,
             \/ PollCameras(i) \/ HearCameras(i) \/ PollLog(i) \/ HearLog(i) \/ LosePoll(i)
      PROVE  panel' = panel
  BY <1>1 DEF PollCameras, HearCameras, PollLog, HearLog, LosePoll, Ask, Hear
<1>2. ASSUME NEW i \in 1..2, Server(i)
      PROVE  panel' = panel
  BY <1>2 DEF Server, CreateFtpCredential, RegenerateFtpPassword, RevokeFtpCredential,
              PatchEvent, DeleteByCall, Served
<1>3. ASSUME NEW i \in 1..2, Refuse(i) \/ Reject(i) \/ HearCall(i)
      PROVE  panel' = panel
  BY <1>3, SMTT(30) DEF Refuse, Reject, HearCall, HearCreated, HearRegenerated, HearRevoked,
              HearControl, Heard
<1>4. ASSUME NEW i \in 1..2, Create(i) \/ \E c \in Login : Regenerate(i, c) \/ Revoke(i, c)
      PROVE  panel' = panel
  BY <1>4 DEF Create, Regenerate, Revoke, Call
<1>5. ASSUME NEW op \in {"status", "public", "delete"}, Control(op)
      PROVE  panel' = panel
  BY <1>5 DEF Control, Call
<1>6. CASE ReadPage \/ HearPage \/ OtherPatch \/ OtherDelete
  BY <1>6 DEF ReadPage, HearPage, Ask, Hear, OtherPatch, OtherDelete
<1>7. ASSUME NEW c \in Login, OtherLogin(c)
      PROVE  panel' = panel
  BY <1>7 DEF OtherLogin
<1>8. ASSUME NEW source \in Source, Happen(source)
      PROVE  panel' = panel
  BY <1>8 DEF Happen
<1>9. CASE UNCHANGED vars
  BY <1>9 DEF vars
<1> QED BY <1>1, <1>2, <1>3, <1>4, <1>5, <1>6, <1>7, <1>8, <1>9 DEF Next

(* The camera panel before its first answer.                                *)
LEMMA CamerasInit == Init /\ panel = "cameras" => CamerasInv
<1> SUFFICES ASSUME Init, panel = "cameras" PROVE CamerasInv
  OBVIOUS
<1>1. view = [list |-> {}, busy |-> FALSE, fresh |-> [login |-> NoLogin, password |-> 0],
              regenerated |-> [c \in Login |-> 0]]
  BY DEF Init, Blank
<1>2. \A i \in 1..2 : calls[i] = NoCall
  BY DEF Init
<1>3. CamerasOK
  <2>1. NoCall \in CallState
    BY DEF NoCall, CallState
  <2>2. calls \in [1..2 -> CallState]
    BY <2>1 DEF Init
  <2>3. view \in CamerasView
    BY <1>1 DEF CamerasView
  <2>4. answers \in [1..MaxAnswers -> {NoAnswer} \cup [list: SUBSET Login]]
    BY DEF Init
  <2>5. logins \in [Login -> [password: Nat, revoked: BOOLEAN]] /\ made \in Nat
    BY DEF Init
  <2> QED BY <1>2, <2>2, <2>3, <2>4, <2>5 DEF CamerasOK, NoCall
<1>4. \A c \in Login : Trusted(c)
  BY <1>1, <1>2 DEF Trusted, Asked, Changed, Made, Shown, InRow, InBox, NoCall
<1> QED BY <1>3, <1>4 DEF CamerasInv

(* Whoever touches neither the passwords nor the calls nor what the screen  *)
(* says of passwords keeps the trust.                                       *)
LEMMA ScreenUntouched ==
  ASSUME CamerasInv, CamerasOK', UNCHANGED calls, astray \ {NoLogin} \subseteq astray',
         \A c \in Login : logins'[c].password = logins[c].password,
         view'.fresh = view.fresh, view'.regenerated = view.regenerated
  PROVE  CamerasInv'
<1>1. ASSUME NEW c \in Login \ astray'
      PROVE  Trusted(c)'
  <2>1. c \notin astray
    BY <1>1, LoginAssumption
  <2>2. Trusted(c)
    BY <2>1 DEF CamerasInv
  <2> QED BY <2>2 DEF Trusted, Asked, Changed, Made, Shown, InRow, InBox
<1> QED BY <1>1 DEF CamerasInv

(* Polls and their answers, over the camera panel.                          *)
LEMMA CamerasPolls ==
  ASSUME CamerasInv, panel = "cameras", NEW i \in 1..MaxAnswers,
         \/ PollCameras(i) \/ HearCameras(i) \/ PollLog(i) \/ HearLog(i) \/ LosePoll(i)
  PROVE  CamerasInv'
<1>1. CASE PollCameras(i)
  <2>1. ListFtpCredentials \in SUBSET Login
    BY DEF ListFtpCredentials
  <2>2. /\ answers' = [answers EXCEPT ![i] = [list |-> ListFtpCredentials]]
        /\ UNCHANGED <<logins, made, view, calls, astray>>
    BY <1>1 DEF PollCameras, Ask, rows
  <2>3. CamerasOK'
    BY <2>1, <2>2 DEF CamerasInv, CamerasOK
  <2> QED BY <2>2, <2>3, ScreenUntouched
<1>2. CASE HearCameras(i)
  <2>1. /\ answers' = [answers EXCEPT ![i] = NoAnswer] /\ answers[i] # NoAnswer
        /\ view' = [view EXCEPT !.list = answers[i].list]
        /\ UNCHANGED <<logins, made, calls, astray>>
    BY <1>2 DEF HearCameras, Hear, rows
  <2>2. answers[i].list \in SUBSET Login
    BY <2>1 DEF CamerasInv, CamerasOK
  <2>3. view' \in CamerasView /\ view'.fresh = view.fresh /\ view'.regenerated = view.regenerated
    BY <2>1, <2>2 DEF CamerasInv, CamerasOK, CamerasView
  <2>4. CamerasOK'
    BY <2>1, <2>3 DEF CamerasInv, CamerasOK
  <2> QED BY <2>1, <2>3, <2>4, ScreenUntouched
<1>3. CASE LosePoll(i)
  <2>1. /\ answers' = [answers EXCEPT ![i] = NoAnswer]
        /\ UNCHANGED <<logins, made, view, calls, astray>>
    BY <1>3 DEF LosePoll, rows
  <2>2. CamerasOK'
    BY <2>1 DEF CamerasInv, CamerasOK
  <2> QED BY <2>1, <2>2, ScreenUntouched
<1> QED BY <1>1, <1>2, <1>3 DEF PollLog, HearLog

(* A click: a second new password for the same camera takes it out of trust.*)
LEMMA Clicking ==
  ASSUME CamerasInv, NEW i \in 1..2, calls[i].pc = "none",
         NEW call \in CallState, call.pc = "sent", ~call.ok,
         call.op \in {"regenerate", "revoke"} => call.login \in Login,
         calls' = [calls EXCEPT ![i] = call], UNCHANGED <<logins, made, answers>>,
         view' \in CamerasView, view'.fresh = view.fresh, view'.regenerated = view.regenerated,
         astray \subseteq astray',
         call.op = "regenerate" /\ Regenerating(call.login) # {} => call.login \in astray'
  PROVE  CamerasInv'
<1>1. /\ calls' \in [1..2 -> CallState] /\ calls'[i] = call
      /\ \A j \in 1..2 : j # i => calls'[j] = calls[j]
  BY DEF CamerasInv, CamerasOK
<1>2. CamerasOK'
  BY <1>1 DEF CamerasInv, CamerasOK
<1>3. ASSUME NEW c \in Login \ astray'
      PROVE  Trusted(c)'
  <2>1. Trusted(c)
    BY <1>3 DEF CamerasInv
  <2>2. \A j \in 1..2 : (Changed(j, c)' <=> Changed(j, c)) /\ (Made(j, c)' <=> Made(j, c))
    BY <1>1 DEF Changed, Made, Asked
  <2>3. \A j \in 1..2 : Changed(j, c) \/ Made(j, c) => calls'[j] = calls[j]
    BY <1>1 DEF Changed, Made, Asked
  <2>4. \A j, k \in 1..2 : Asked(j, c)' /\ Asked(k, c)' => j = k
    <3>1. CASE call.op = "regenerate" /\ call.login = c
      BY <1>1, <1>3, <3>1 DEF Asked, Regenerating
    <3>2. CASE ~(call.op = "regenerate" /\ call.login = c)
      BY <1>1, <2>1, <3>2 DEF Asked, Trusted
    <3> QED BY <3>1, <3>2
  <2>5. Shown(c)' = Shown(c)
    BY DEF Shown, InRow, InBox
  <2> QED BY <2>1, <2>2, <2>3, <2>4, <2>5 DEF Trusted
<1> QED BY <1>2, <1>3 DEF CamerasInv

(* A button of the camera panel sends a call.                               *)
LEMMA CamerasClicks ==
  ASSUME CamerasInv, panel = "cameras", NEW i \in 1..2,
         Create(i) \/ \E c \in Login : Regenerate(i, c) \/ Revoke(i, c)
  PROVE  CamerasInv'
<1>1. CASE Create(i)
  <2> DEFINE call == [NoCall EXCEPT !.op = "create", !.login = NoLogin, !.value = "none",
                                    !.pc = "sent"]
  <2>1. /\ calls[i].pc = "none" /\ calls' = [calls EXCEPT ![i] = call]
        /\ UNCHANGED <<logins, made, answers, astray>>
        /\ view' = [view EXCEPT !.busy = TRUE]
    BY <1>1 DEF Create, Call, rows
  <2>2. call \in CallState /\ call.op = "create" /\ call.pc = "sent" /\ ~call.ok
    BY DEF NoCall, CallState
  <2>3. view' \in CamerasView /\ view'.fresh = view.fresh /\ view'.regenerated = view.regenerated
    BY <2>1 DEF CamerasInv, CamerasOK, CamerasView
  <2> HIDE DEF call
  <2> QED BY <2>1, <2>2, <2>3, Clicking
<1>2. ASSUME NEW c \in Login, Regenerate(i, c)
      PROVE  CamerasInv'
  <2> DEFINE call == [NoCall EXCEPT !.op = "regenerate", !.login = c, !.value = "none",
                                    !.pc = "sent"]
  <2>1. /\ calls[i].pc = "none" /\ calls' = [calls EXCEPT ![i] = call]
        /\ UNCHANGED <<logins, made, answers, view>>
        /\ astray' = IF Regenerating(c) = {} THEN astray ELSE astray \cup {c}
    BY <1>2 DEF Regenerate, Call, rows
  <2>2. /\ call \in CallState /\ call.op = "regenerate" /\ call.login = c
        /\ call.pc = "sent" /\ ~call.ok
    BY DEF NoCall, CallState
  <2>3. view' \in CamerasView
    BY <2>1 DEF CamerasInv, CamerasOK
  <2>4. astray \subseteq astray' /\ (Regenerating(c) # {} => c \in astray')
    BY <2>1
  <2> HIDE DEF call
  <2> QED BY <2>1, <2>2, <2>3, <2>4, Clicking
<1>3. ASSUME NEW c \in Login, Revoke(i, c)
      PROVE  CamerasInv'
  <2> DEFINE call == [NoCall EXCEPT !.op = "revoke", !.login = c, !.value = "none",
                                    !.pc = "sent"]
  <2>1. /\ calls[i].pc = "none" /\ calls' = [calls EXCEPT ![i] = call]
        /\ UNCHANGED <<logins, made, answers, view, astray>>
    BY <1>3 DEF Revoke, Call, rows
  <2>2. /\ call \in CallState /\ call.op = "revoke" /\ call.login = c
        /\ call.pc = "sent" /\ ~call.ok
    BY DEF NoCall, CallState
  <2>3. view' \in CamerasView
    BY <2>1 DEF CamerasInv, CamerasOK
  <2> HIDE DEF call
  <2> QED BY <2>1, <2>2, <2>3, Clicking
<1> QED BY <1>1, <1>2, <1>3

(* What the writes of the server make of a call and of the passwords.       *)
LEMMA Answering ==
  ASSUME CamerasOK, NEW i \in 1..2, NEW c \in Login, NEW p \in Nat,
         Served(i, c, p)
  PROVE  /\ calls' \in [1..2 -> CallState] /\ \A j \in 1..2 : j # i => calls'[j] = calls[j]
         /\ calls'[i].op = calls[i].op /\ calls'[i].login = c /\ calls'[i].pc = "served"
         /\ calls'[i].password = p /\ calls'[i].ok
<1> DEFINE call == [[[[calls[i] EXCEPT !.pc = "served"] EXCEPT !.ok = TRUE] EXCEPT !.login = c]
                      EXCEPT !.password = p]
<1>1. calls \in [1..2 -> CallState] /\ calls[i] \in CallState
  BY DEF CamerasOK
<1>2. /\ call \in CallState
      /\ call.op = calls[i].op /\ call.login = c /\ call.pc = "served"
      /\ call.password = p /\ call.ok
  BY <1>1 DEF CallState
<1>3. calls' = [calls EXCEPT ![i] = call]
  BY <1>1 DEF Served
<1> HIDE DEF call
<1> QED BY <1>1, <1>2, <1>3

(* A login gets the password that was made last.                            *)
LEMMA NewPassword ==
  ASSUME CamerasOK, NEW c \in Login, logins' = [logins EXCEPT ![c].password = made + 1]
  PROVE  /\ logins' \in [Login -> [password: Nat, revoked: BOOLEAN]]
         /\ logins'[c].password = made + 1 /\ made \in Nat
         /\ \A d \in Login : d # c => logins'[d] = logins[d]
<1>1. logins \in [Login -> [password: Nat, revoked: BOOLEAN]] /\ made \in Nat
  BY DEF CamerasOK
<1> DEFINE login == [logins[c] EXCEPT !.password = made + 1]
<1>2. login \in [password: Nat, revoked: BOOLEAN] /\ login.password = made + 1
  BY <1>1
<1>3. logins' = [logins EXCEPT ![c] = login]
  OBVIOUS
<1> HIDE DEF login
<1> QED BY <1>1, <1>2, <1>3

(* The server: a new password replaces the old one, and is on its way.      *)
LEMMA CamerasServer ==
  ASSUME CamerasInv, panel = "cameras", NEW i \in 1..2, Server(i)
  PROVE  CamerasInv'
<1>0. CamerasOK /\ made + 1 \in Nat /\ 0 \in Nat
  BY DEF CamerasInv, CamerasOK
<1>1. CASE CreateFtpCredential(i)
  <2>1. PICK c \in Login :
          /\ calls[i].pc = "sent" /\ calls[i].op = "create" /\ logins[c].password = 0
          /\ made' = made + 1 /\ logins' = [logins EXCEPT ![c].password = made + 1]
          /\ Served(i, c, made + 1) /\ UNCHANGED <<view, answers, astray>>
    BY <1>1 DEF CreateFtpCredential, Serving, Served
  <2>2. /\ calls' \in [1..2 -> CallState] /\ \A j \in 1..2 : j # i => calls'[j] = calls[j]
        /\ calls'[i].op = "create" /\ calls'[i].login = c /\ calls'[i].pc = "served"
        /\ calls'[i].password = made + 1 /\ calls'[i].ok
    BY <1>0, <2>1, Answering
  <2>3. /\ logins' \in [Login -> [password: Nat, revoked: BOOLEAN]]
        /\ logins'[c].password = made + 1 /\ made \in Nat
        /\ \A d \in Login : d # c => logins'[d] = logins[d]
    BY <1>0, <2>1, NewPassword
  <2>4. CamerasOK'
    BY <2>1, <2>2, <2>3 DEF CamerasInv, CamerasOK
  <2>5. ASSUME NEW d \in Login \ astray'
        PROVE  Trusted(d)'
    <3>1. Trusted(d)
      BY <2>1, <2>5 DEF CamerasInv
    <3>2. CASE d = c
      BY <2>1, <2>2, <2>3, <3>1, <3>2 DEF Trusted, Asked, Changed, Made, Shown, InRow, InBox
    <3>3. CASE d # c
      BY <2>1, <2>2, <2>3, <3>1, <3>3 DEF Trusted, Asked, Changed, Made, Shown, InRow, InBox
    <3> QED BY <3>2, <3>3
  <2> QED BY <2>4, <2>5 DEF CamerasInv
<1>2. CASE RegenerateFtpPassword(i)
  <2>0. PICK c \in Login : c = calls[i].login
    BY <1>2 DEF RegenerateFtpPassword, Serving, CamerasInv, CamerasOK
  <2>1. /\ calls[i].pc = "sent" /\ calls[i].op = "regenerate"
        /\ made' = made + 1 /\ logins' = [logins EXCEPT ![c].password = made + 1]
        /\ Served(i, c, made + 1) /\ UNCHANGED <<view, answers>>
        /\ astray' = IF Regenerating(c) = {i} THEN astray \ {c} ELSE astray
    BY <1>2, <2>0 DEF RegenerateFtpPassword, Serving, Served
  <2>2. /\ calls' \in [1..2 -> CallState] /\ \A j \in 1..2 : j # i => calls'[j] = calls[j]
        /\ calls'[i].op = "regenerate" /\ calls'[i].login = c /\ calls'[i].pc = "served"
        /\ calls'[i].password = made + 1 /\ calls'[i].ok
    BY <1>0, <2>1, Answering
  <2>3. /\ logins' \in [Login -> [password: Nat, revoked: BOOLEAN]]
        /\ logins'[c].password = made + 1 /\ made \in Nat
        /\ \A d \in Login : d # c => logins'[d] = logins[d]
    BY <1>0, <2>1, NewPassword
  <2>4. CamerasOK'
    BY <2>1, <2>2, <2>3 DEF CamerasInv, CamerasOK
  <2>5. ASSUME NEW d \in Login \ astray'
        PROVE  Trusted(d)'
    <3>1. CASE d = c
      <4>1. \A j \in 1..2 : Asked(j, c) => j = i
        <5>1. CASE Regenerating(c) = {i}
          BY <5>1 DEF Regenerating, Asked
        <5>2. CASE Regenerating(c) # {i}
          BY <2>0, <2>1, <2>5, <3>1, <5>2 DEF CamerasInv, Trusted, Asked
        <5> QED BY <5>1, <5>2
      <4>2. \A j \in 1..2 : Asked(j, c)' => j = i
        BY <2>2, <4>1 DEF Asked
      <4>3. Changed(i, c)' /\ calls'[i].password = logins'[c].password /\ calls'[i].password # 0
        BY <2>2, <2>3 DEF Changed, Asked
      <4>4. \A j \in 1..2 : Changed(j, c)' => j = i
        BY <4>2 DEF Changed
      <4>5. \A j, k \in 1..2 : Asked(j, c)' /\ Asked(k, c)' => j = k
        BY <4>2
      <4>6. \A j \in 1..2 : Changed(j, c)'
              => calls'[j].password = logins'[c].password /\ calls'[j].password # 0
        BY <4>3, <4>4
      <4>7. logins'[c].password # 0
        BY <4>3
      <4> QED BY <3>1, <4>3, <4>5, <4>6, <4>7 DEF Trusted
    <3>2. CASE d # c
      <4>1. Trusted(d)
        BY <2>1, <2>5, <3>2 DEF CamerasInv
      <4> QED BY <2>1, <2>2, <2>3, <3>2, <4>1 DEF Trusted, Asked, Changed, Made, Shown, InRow, InBox
    <3> QED BY <3>1, <3>2
  <2> QED BY <2>4, <2>5 DEF CamerasInv
<1>3. CASE RevokeFtpCredential(i)
  <2>0. PICK c \in Login : c = calls[i].login
    BY <1>3 DEF RevokeFtpCredential, Serving, CamerasInv, CamerasOK
  <2>1. /\ calls[i].pc = "sent" /\ calls[i].op = "revoke"
        /\ logins' = [logins EXCEPT ![c].revoked = TRUE]
        /\ Served(i, c, 0) /\ UNCHANGED <<made, view, answers, astray>>
    BY <1>3, <2>0 DEF RevokeFtpCredential, Serving, Served
  <2>2. /\ calls' \in [1..2 -> CallState] /\ \A j \in 1..2 : j # i => calls'[j] = calls[j]
        /\ calls'[i].op = "revoke" /\ calls'[i].login = c /\ calls'[i].pc = "served"
    BY <1>0, <2>1, Answering
  <2>3. /\ logins' \in [Login -> [password: Nat, revoked: BOOLEAN]]
        /\ \A d \in Login : logins'[d].password = logins[d].password
    BY <2>1 DEF CamerasInv, CamerasOK
  <2>4. CamerasOK'
    BY <2>1, <2>2, <2>3 DEF CamerasInv, CamerasOK
  <2>5. ASSUME NEW d \in Login \ astray'
        PROVE  Trusted(d)'
    <3>1. Trusted(d)
      BY <2>1, <2>5 DEF CamerasInv
    <3> QED BY <2>1, <2>2, <2>3, <3>1 DEF Trusted, Asked, Changed, Made, Shown, InRow, InBox
  <2> QED BY <2>4, <2>5 DEF CamerasInv
<1>4. CASE PatchEvent(i) \/ DeleteByCall(i)
  <2>1. calls[i].op \in {"none", "create", "regenerate", "revoke"}
    BY DEF CamerasInv, CamerasOK, CallState
  <2> QED BY <1>4, <2>1 DEF PatchEvent, DeleteByCall, Serving
<1> QED BY <1>1, <1>2, <1>3, <1>4 DEF Server

(* A refusal says nothing of a password; a call that is lost was sent by a  *)
(* button that nobody hears of again.                                       *)
LEMMA CamerasFailures ==
  ASSUME CamerasInv, panel = "cameras", NEW i \in 1..2, Refuse(i) \/ Reject(i)
  PROVE  CamerasInv'
<1>1. CASE Refuse(i)
  <2>1. /\ calls[i].pc = "sent" /\ calls' = [calls EXCEPT ![i].pc = "served"]
        /\ UNCHANGED <<logins, made, view, answers, astray>>
    BY <1>1 DEF Refuse, rows
  <2>2. /\ calls' \in [1..2 -> CallState] /\ \A j \in 1..2 : j # i => calls'[j] = calls[j]
        /\ calls'[i].op = calls[i].op /\ calls'[i].login = calls[i].login
        /\ calls'[i].pc = "served" /\ ~calls'[i].ok
    BY <2>1, SMTT(30) DEF CamerasInv, CamerasOK, CallState
  <2>3. CamerasOK'
    BY <2>1, <2>2 DEF CamerasInv, CamerasOK
  <2>4. ASSUME NEW c \in Login \ astray'
        PROVE  Trusted(c)'
    <3>1. Trusted(c)
      BY <2>1, <2>4 DEF CamerasInv
    <3> QED BY <2>1, <2>2, <3>1 DEF Trusted, Asked, Changed, Made, Shown, InRow, InBox
  <2> QED BY <2>3, <2>4 DEF CamerasInv
<1>2. CASE Reject(i)
  <2>1. /\ calls' = [calls EXCEPT ![i] = NoCall]
        /\ astray' = IF calls[i].op = "regenerate" THEN astray \cup {calls[i].login} ELSE astray
        /\ UNCHANGED <<logins, made, view, answers>>
    BY <1>2 DEF Reject, rows
  <2>2. NoCall \in CallState /\ NoCall.op = "none" /\ NoCall.pc = "none"
    BY DEF NoCall, CallState
  <2>3. /\ calls' \in [1..2 -> CallState] /\ \A j \in 1..2 : j # i => calls'[j] = calls[j]
        /\ calls'[i].op = "none" /\ calls'[i].pc = "none"
    BY <2>1, <2>2 DEF CamerasInv, CamerasOK
  <2>4. CamerasOK'
    BY <2>1, <2>3 DEF CamerasInv, CamerasOK
  <2>5. ASSUME NEW c \in Login \ astray'
        PROVE  Trusted(c)'
    <3>1. Trusted(c) /\ ~Asked(i, c)
      BY <2>1, <2>5 DEF CamerasInv, Asked
    <3> QED BY <2>1, <2>3, <3>1 DEF Trusted, Asked, Changed, Made, Shown, InRow, InBox
  <2> QED BY <2>4, <2>5 DEF CamerasInv
<1> QED BY <1>1, <1>2

(* The screen shows what arrives.                                           *)
LEMMA CamerasHear ==
  ASSUME CamerasInv, panel = "cameras", NEW i \in 1..2, HearCall(i)
  PROVE  CamerasInv'
<1>1. NoCall \in CallState /\ NoCall.op = "none" /\ NoCall.pc = "none"
  BY DEF NoCall, CallState
<1>2. /\ calls' = [calls EXCEPT ![i] = NoCall] /\ calls[i].pc = "served"
      /\ UNCHANGED <<logins, made, answers, astray>>
  BY DEF HearCall, HearCreated, HearRegenerated, HearRevoked, HearControl, Heard, rows
<1>3. /\ calls \in [1..2 -> CallState] /\ calls' \in [1..2 -> CallState]
      /\ \A j \in 1..2 : j # i => calls'[j] = calls[j]
      /\ calls'[i].op = "none" /\ calls'[i].pc = "none"
  BY <1>1, <1>2 DEF CamerasInv, CamerasOK
<1>4. view' \in CamerasView => CamerasOK'
  BY <1>2, <1>3 DEF CamerasInv, CamerasOK
<1>5. CASE HearCreated(i)
  <2>1. calls[i].op = "create"
    BY <1>5 DEF HearCreated, Heard
  <2>2. PICK fresh \in [login: Login \cup {NoLogin}, password: Nat] :
          /\ view' = [view EXCEPT !.busy = FALSE, !.fresh = fresh]
          /\ IF calls[i].ok THEN fresh.login = calls[i].login /\ fresh.password = calls[i].password
                            ELSE fresh = view.fresh
    <3>1. CASE calls[i].ok
      <4> DEFINE fresh == [login |-> calls[i].login, password |-> calls[i].password]
      <4>1. view' = [view EXCEPT !.busy = FALSE, !.fresh = fresh]
        BY <1>5, <3>1 DEF HearCreated
      <4>2. /\ fresh \in [login: Login \cup {NoLogin}, password: Nat]
            /\ fresh.login = calls[i].login /\ fresh.password = calls[i].password
        BY <1>3 DEF CallState
      <4> HIDE DEF fresh
      <4> QED BY <3>1, <4>1, <4>2
    <3>2. CASE ~calls[i].ok
      BY <1>5, <3>2 DEF HearCreated, CamerasInv, CamerasOK, CamerasView
    <3> QED BY <3>1, <3>2
  <2>3. /\ view' \in CamerasView /\ view'.fresh = fresh
        /\ view'.regenerated = view.regenerated
    BY <2>2 DEF CamerasInv, CamerasOK, CamerasView
  <2>4. ASSUME NEW c \in Login \ astray'
        PROVE  Trusted(c)'
    <3>1. Trusted(c)
      BY <1>2, <2>4 DEF CamerasInv
    <3>2. \A j \in 1..2 : (Asked(j, c)' <=> Asked(j, c)) /\ (Changed(j, c)' <=> Changed(j, c))
      BY <1>3, <2>1 DEF Asked, Changed
    <3>3. \A j \in 1..2 : Made(j, c)' => Made(j, c) /\ j # i
      BY <1>3 DEF Made
    <3>4. (\A j \in 1..2 : ~Changed(j, c)) => Shown(c)' = 0 \/ Shown(c)' = logins'[c].password
      <4>1. CASE Made(i, c)
        BY <1>2, <2>2, <2>3, <3>1, <4>1 DEF Trusted, Made, Shown, InRow, InBox
      <4>2. CASE ~Made(i, c)
        BY <1>2, <2>1, <2>2, <2>3, <3>1, <4>2 DEF Trusted, Made, Shown, InRow, InBox
      <4> QED BY <4>1, <4>2
    <3>5. \A j \in 1..2 : Changed(j, c) => calls'[j] = calls[j]
      BY <1>3, <2>1 DEF Asked, Changed
    <3> QED BY <1>2, <1>3, <2>3, <3>1, <3>2, <3>3, <3>4, <3>5 DEF Trusted
  <2> QED BY <1>4, <2>3, <2>4 DEF CamerasInv
<1>6. CASE HearRegenerated(i)
  <2>0. PICK d \in Login : d = calls[i].login
    BY <1>6 DEF HearRegenerated, Heard, CamerasInv, CamerasOK
  <2>1. /\ calls[i].op = "regenerate"
        /\ view' = IF calls[i].ok THEN [view EXCEPT !.regenerated[d] = calls[i].password] ELSE view
    BY <1>6, <2>0 DEF HearRegenerated, Heard
  <2>2. /\ view' \in CamerasView /\ view'.fresh = view.fresh
        /\ view'.regenerated[d] = IF calls[i].ok THEN calls[i].password ELSE view.regenerated[d]
        /\ \A c \in Login : c # d => view'.regenerated[c] = view.regenerated[c]
    <3>1. view \in CamerasView /\ calls[i].password \in Nat
      BY <1>3 DEF CamerasInv, CamerasOK, CallState
    <3> QED BY <2>1, <3>1 DEF CamerasView
  <2>3. ASSUME NEW c \in Login \ astray'
        PROVE  Trusted(c)'
    <3>1. Trusted(c)
      BY <1>2, <2>3 DEF CamerasInv
    <3>2. CASE c = d
      <4>1. \A j \in 1..2 : ~Asked(j, c)'
        BY <1>3, <2>0, <2>1, <3>1, <3>2 DEF Trusted, Asked
      <4>2. \A j \in 1..2 : Made(j, c)' => Made(j, c) /\ calls'[j] = calls[j]
        BY <1>3 DEF Made
      <4>3. \A j \in 1..2 : Changed(j, c) => j = i
        BY <2>0, <2>1, <3>1, <3>2 DEF Trusted, Asked, Changed
      <4>4. CASE calls[i].ok
        <5>1. calls[i].password = logins[c].password /\ calls[i].password # 0
          BY <1>2, <2>0, <2>1, <3>1, <3>2, <4>4 DEF Trusted, Changed, Asked
        <5>2. view'.regenerated[c] # 0 /\ Shown(c)' = logins'[c].password
          BY <1>2, <2>2, <3>2, <4>4, <5>1 DEF Shown, InRow, InBox
        <5> QED BY <1>2, <4>1, <4>2, <5>1, <5>2 DEF Trusted, Changed
      <4>5. CASE ~calls[i].ok
        <5>1. \A j \in 1..2 : ~Changed(j, c)
          BY <4>3, <4>5 DEF Changed
        <5>2. Shown(c)' = Shown(c) /\ view' = view
          BY <2>1, <4>5 DEF Shown, InRow, InBox
        <5> QED BY <1>2, <3>1, <4>1, <4>2, <5>1, <5>2 DEF Trusted, Changed
      <4> QED BY <4>4, <4>5
    <3>3. CASE c # d
      <4>1. ~Asked(i, c) /\ ~Made(i, c)
        BY <2>0, <2>1, <3>3 DEF Asked, Made
      <4> QED BY <1>2, <1>3, <2>2, <3>1, <3>3, <4>1 DEF Trusted, Asked, Changed, Made, Shown, InRow, InBox
    <3> QED BY <3>2, <3>3
  <2> QED BY <1>4, <2>2, <2>3 DEF CamerasInv
<1>7. CASE HearRevoked(i)
  <2>1. calls[i].op = "revoke" /\ UNCHANGED view
    BY <1>7 DEF HearRevoked, Heard
  <2>2. CamerasOK'
    BY <1>4, <2>1 DEF CamerasInv, CamerasOK
  <2>3. ASSUME NEW c \in Login \ astray'
        PROVE  Trusted(c)'
    <3>1. Trusted(c)
      BY <1>2, <2>3 DEF CamerasInv
    <3> QED BY <1>2, <1>3, <2>1, <3>1 DEF Trusted, Asked, Changed, Made, Shown, InRow, InBox
  <2> QED BY <2>2, <2>3 DEF CamerasInv
<1>8. CASE HearControl(i)
  <2>1. calls[i].op \in {"none", "create", "regenerate", "revoke"}
    BY DEF CamerasInv, CamerasOK, CallState
  <2> QED BY <1>8, <2>1 DEF HearControl, Heard
<1> QED BY <1>5, <1>6, <1>7, <1>8 DEF HearCall

(* Others, of whom the panel does not know.                                 *)
LEMMA CamerasOthers ==
  ASSUME CamerasInv, panel = "cameras",
         OtherDelete \/ \E c \in Login : OtherLogin(c)
  PROVE  CamerasInv'
<1>1. CASE OtherDelete
  <2>1. /\ logins' = [c \in Login |-> [logins[c] EXCEPT !.revoked = @ \/ logins[c].password # 0]]
        /\ astray' = astray \cup {NoLogin} /\ UNCHANGED <<made, view, answers, calls>>
    BY <1>1 DEF OtherDelete, Delete
  <2>2. logins \in [Login -> [password: Nat, revoked: BOOLEAN]]
    BY DEF CamerasInv, CamerasOK
  <2>3. ASSUME NEW c \in Login
        PROVE  /\ logins'[c] \in [password: Nat, revoked: BOOLEAN]
               /\ logins'[c].password = logins[c].password
    <3>1. PICK revoked \in BOOLEAN : revoked = (logins[c].revoked \/ logins[c].password # 0)
      OBVIOUS
    <3>2. logins'[c] = [logins[c] EXCEPT !.revoked = revoked]
      BY <2>1, <3>1, Zenon
    <3> QED BY <2>2, <3>2
  <2>4. logins' \in [Login -> [password: Nat, revoked: BOOLEAN]]
    BY <2>1, <2>3
  <2>5. CamerasOK'
    BY <2>1, <2>4 DEF CamerasInv, CamerasOK
  <2> QED BY <2>1, <2>3, <2>5, ScreenUntouched
<1>2. ASSUME NEW c \in Login, OtherLogin(c)
      PROVE  CamerasInv'
  <2>1. UNCHANGED <<view, answers, calls>>
    BY <1>2 DEF OtherLogin
  <2>2. CamerasOK
    BY DEF CamerasInv
  <2>3. CASE /\ made' = made + 1 /\ astray' = astray \cup {c}
             /\ logins' = [logins EXCEPT ![c].password = made + 1]
    <3>1. /\ logins' \in [Login -> [password: Nat, revoked: BOOLEAN]] /\ made' \in Nat
          /\ \A d \in Login : d # c => logins'[d] = logins[d] /\ logins'[c].password # 0
      <4>1. /\ logins' \in [Login -> [password: Nat, revoked: BOOLEAN]]
            /\ logins'[c].password = made + 1 /\ made \in Nat
            /\ \A d \in Login : d # c => logins'[d] = logins[d]
        BY <2>2, <2>3, NewPassword
      <4> QED BY <2>3, <4>1
    <3>2. CamerasOK'
      BY <2>1, <3>1 DEF CamerasInv, CamerasOK
    <3>3. ASSUME NEW d \in Login \ astray'
          PROVE  Trusted(d)'
      <4>1. Trusted(d) /\ d # c
        BY <2>3, <3>3 DEF CamerasInv
      <4> QED BY <2>1, <3>1, <4>1 DEF Trusted, Asked, Changed, Made, Shown, InRow, InBox
    <3> QED BY <3>2, <3>3 DEF CamerasInv
  <2>4. CASE logins' = [logins EXCEPT ![c].revoked = TRUE] /\ UNCHANGED <<made, astray>>
    <3>1. /\ logins' \in [Login -> [password: Nat, revoked: BOOLEAN]]
          /\ \A d \in Login : logins'[d].password = logins[d].password
      BY <2>4 DEF CamerasInv, CamerasOK
    <3>2. CamerasOK'
      BY <2>1, <2>4, <3>1 DEF CamerasInv, CamerasOK
    <3> QED BY <2>1, <2>4, <3>1, <3>2, ScreenUntouched
  <2> QED BY <1>2, <2>3, <2>4 DEF OtherLogin
<1> QED BY <1>1, <1>2

(* A step that is not about the camera panel.                               *)
LEMMA CamerasStutter ==
  ASSUME CamerasInv, panel = "cameras", UNCHANGED <<logins, made, view, answers, calls, astray>>
  PROVE  CamerasInv'
<1>1. CamerasOK'
  BY DEF CamerasInv, CamerasOK
<1> QED BY <1>1, ScreenUntouched

(* The camera panel, over whatever a step does.                             *)
LEMMA CamerasInductive ==
  CamerasInv /\ panel = "cameras" /\ [Next]_vars => CamerasInv' /\ panel' = panel
<1> SUFFICES ASSUME CamerasInv, panel = "cameras", [Next]_vars
             PROVE  CamerasInv' /\ panel' = panel
  OBVIOUS
<1>1. panel' = panel
  BY PanelIsKept
<1>2. ASSUME NEW i \in 1..MaxAnswers,
             \/ PollCameras(i) \/ HearCameras(i) \/ PollLog(i) \/ HearLog(i) \/ LosePoll(i)
      PROVE  CamerasInv'
  BY <1>2, CamerasPolls
<1>3. ASSUME NEW i \in 1..2,
             \/ Create(i) \/ Server(i) \/ Refuse(i) \/ Reject(i) \/ HearCall(i)
             \/ \E c \in Login : Regenerate(i, c) \/ Revoke(i, c)
      PROVE  CamerasInv'
  BY <1>3, CamerasClicks, CamerasServer, CamerasFailures, CamerasHear
<1>4. CASE OtherDelete \/ \E c \in Login : OtherLogin(c)
  BY <1>1, <1>4, CamerasOthers
<1>5. CASE UNCHANGED vars
  BY <1>1, <1>5, CamerasStutter DEF vars, rows
<1>6. ~ReadPage /\ ~HearPage /\ ~OtherPatch
  BY DEF ReadPage, HearPage, OtherPatch
<1>7. \A op \in {"status", "public", "delete"} : ~Control(op)
  BY DEF Control
<1>8. \A source \in Source : ~Happen(source)
  BY DEF Happen
<1> QED BY <1>1, <1>2, <1>3, <1>4, <1>5, <1>6, <1>7, <1>8 DEF Next

(* "Shown only once - enter it in the camera now" (CameraPanel.tsx:157): for*)
(* any number of cameras, polls, clicks and other pages, the password on    *)
(* the screen is the one that opens the door, unless a newer one is on its  *)
(* way or somebody else, a second click or a lost answer changed it.        *)
THEOREM ShownWorks == Spec => []ShownPasswordWorks
<1> DEFINE Inv == panel = "cameras" => CamerasInv
<1>1. Init => Inv
  BY CamerasInit
<1>2. Inv /\ [Next]_vars => Inv'
  BY CamerasInductive, PanelIsKept
<1>3. Inv => ShownPasswordWorks
  BY DEF CamerasInv, Trusted, ShownPasswordWorks, Unsettled, Works, Shown, Regenerating, Changed,
         Asked
<1> QED BY <1>1, <1>2, <1>3, PTL DEF Spec

--------------------------------------------------------------------------------
(* The types of what a page keeps. *)

(* What each panel keeps. A password is the number of one that was made;    *)
(* every one that is made, and every page that is due, was paid for by a    *)
(* click or a change, of which there are MaxEdits.                          *)
EventState == [status: {"live", "closed", "archived"}, public: BOOLEAN]

Spent ==
  /\ edits \in 0..MaxEdits /\ lost \in 0..MaxLost /\ happened \in Seq(Source)
  /\ event \in EventState /\ astray \subseteq Login \cup {NoLogin}

Sent(i) == IF calls[i].pc = "sent" THEN 1 ELSE 0
Pending(i) == IF calls[i].pc # "none" THEN 1 ELSE 0

CamerasBounds ==
  /\ \A c \in Login : logins[c].password <= made /\ view.regenerated[c] <= made
  /\ view.fresh.password <= made
  /\ \A i \in 1..2 : calls[i].password <= made
  /\ \A c \in view.list : logins[c].password # 0
  /\ \A j \in 1..MaxAnswers : answers[j] # NoAnswer
       => \A c \in answers[j].list : logins[c].password # 0
  /\ made + Sent(1) + Sent(2) <= edits

ControlCall ==
  [op: {"none", "status", "public", "delete"}, login: {NoLogin},
   value: {"none", "live", "closed", "on", "off"}, password: {0}, ok: BOOLEAN,
   pc: {"none", "sent", "served"}]
ControlsView == [event: EventState, busy: BOOLEAN, due: Nat, left: BOOLEAN]

ControlsOK ==
  /\ view \in ControlsView
  /\ answers \in [1..MaxAnswers -> {NoAnswer} \cup [event: EventState, gone: BOOLEAN]]
  /\ calls \in [1..2 -> ControlCall] /\ calls[2].pc = "none"
  /\ calls[1].op = "status" => calls[1].value \in {"live", "closed"}
  /\ answers[1] # NoAnswer => view.due > 0
  /\ view.due + Pending(1) <= edits

NoCameras == logins \in [Login -> [password: {0}, revoked: BOOLEAN]] /\ made = 0
NoCalls == \A i \in 1..2 : calls[i].pc = "none" /\ calls[i].op = "none"

PanelOK ==
  \/ panel = "cameras" /\ CamerasInv /\ CamerasBounds
  \/ panel = "controls" /\ NoCameras /\ ControlsOK
  \/ panel = "log" /\ NoCameras /\ NoCalls /\ DOMAIN view = DOMAIN Blank("log")
  \/ panel = "studio" /\ NoCameras /\ NoCalls /\ DOMAIN view = DOMAIN Blank("studio")

(* A step moves one call; the bounds count the others as before.            *)
LEMMA OneCallMoves ==
  ASSUME NEW i \in 1..2, \A j \in 1..2 : j # i => calls'[j] = calls[j]
  PROVE  /\ Sent(1) + Sent(2) + Sent(i)' = Sent(1)' + Sent(2)' + Sent(i)
         /\ Sent(1) \in Nat /\ Sent(2) \in Nat /\ Sent(1)' \in Nat /\ Sent(2)' \in Nat
<1>1. Sent(1) \in Nat /\ Sent(2) \in Nat /\ Sent(1)' \in Nat /\ Sent(2)' \in Nat
  BY DEF Sent
<1>2. CASE i = 1
  <2>1. Sent(2)' = Sent(2)
    BY <1>2 DEF Sent
  <2> QED BY <1>1, <1>2, <2>1
<1>3. CASE i = 2
  <2>1. Sent(1)' = Sent(1)
    BY <1>3 DEF Sent
  <2> QED BY <1>1, <1>3, <2>1
<1> QED BY <1>1, <1>2, <1>3

(* What a new password, or a revocation, makes of the passwords.            *)
LEMMA PasswordsMove ==
  ASSUME CamerasOK, NEW c \in Login, NEW n \in Nat, n = made + 1,
         \/ made' = n /\ logins' = [logins EXCEPT ![c].password = n]
         \/ made' = made /\ logins' = [logins EXCEPT ![c].revoked = TRUE]
  PROVE  /\ made' \in Nat /\ made <= made' /\ made' <= made + 1
         /\ \A d \in Login : \/ logins'[d].password = logins[d].password
                             \/ logins'[d].password <= made' /\ logins'[d].password # 0
<1>1. made \in Nat /\ logins \in [Login -> [password: Nat, revoked: BOOLEAN]]
  BY DEF CamerasOK
<1>2. PICK login \in [password: Nat, revoked: BOOLEAN] :
        /\ logins' = [logins EXCEPT ![c] = login]
        /\ login.password = logins[c].password \/ (login.password = n /\ made' = n)
  <2>1. CASE made' = n /\ logins' = [logins EXCEPT ![c].password = n]
    <3> DEFINE login == [logins[c] EXCEPT !.password = n]
    <3>1. login \in [password: Nat, revoked: BOOLEAN] /\ login.password = n
      BY <1>1
    <3>2. logins' = [logins EXCEPT ![c] = login]
      BY <2>1
    <3> QED BY <2>1, <3>1, <3>2, Zenon
  <2>2. CASE made' = made /\ logins' = [logins EXCEPT ![c].revoked = TRUE]
    <3> DEFINE login == [logins[c] EXCEPT !.revoked = TRUE]
    <3>1. login \in [password: Nat, revoked: BOOLEAN] /\ login.password = logins[c].password
      BY <1>1
    <3>2. logins' = [logins EXCEPT ![c] = login]
      BY <2>2
    <3> QED BY <2>2, <3>1, <3>2, Zenon
  <2> QED BY <2>1, <2>2
<1>3. \A d \in Login : logins'[d] = IF d = c THEN login ELSE logins[d]
  BY <1>1, <1>2
<1>4. made' \in Nat /\ made <= made' /\ made' <= made + 1
  BY <1>1
<1>5. ASSUME NEW d \in Login
      PROVE  \/ logins'[d].password = logins[d].password
             \/ logins'[d].password <= made' /\ logins'[d].password # 0
  <2>1. CASE d = c
    <3>1. n # 0 /\ n <= n
      BY <1>1
    <3>2. logins'[d].password = login.password
      BY <1>3, <2>1
    <3> QED BY <1>2, <2>1, <3>1, <3>2, Zenon
  <2>2. CASE d # c
    BY <1>3, <2>2
  <2> QED BY <2>1, <2>2
<1> QED BY <1>4, <1>5, Zenon

(* The passwords stay, or more are made; one that is there stays there.     *)
LEMMA BoundsFrame ==
  ASSUME CamerasOK, CamerasOK', CamerasBounds, made <= made',
         \A c \in Login : /\ logins'[c].password = logins[c].password
                             \/ (logins'[c].password <= made' /\ logins'[c].password # 0)
                          /\ view'.regenerated[c] <= made',
         view'.fresh.password <= made',
         \A i \in 1..2 : calls'[i].password <= made',
         view'.list = view.list \/ \E j \in 1..MaxAnswers :
                                     answers[j] # NoAnswer /\ view'.list = answers[j].list,
         \A j \in 1..MaxAnswers : \/ answers'[j] = answers[j] \/ answers'[j] = NoAnswer
                                  \/ answers'[j].list = ListFtpCredentials
                                     /\ UNCHANGED logins,
         made' + Sent(1)' + Sent(2)' <= edits'
  PROVE  CamerasBounds'
<1>1. /\ made \in Nat /\ made' \in Nat
      /\ \A c \in Login : logins[c].password \in Nat /\ logins'[c].password \in Nat
      /\ view.list \subseteq Login
      /\ \A j \in 1..MaxAnswers : answers[j] # NoAnswer => answers[j].list \subseteq Login
  BY DEF CamerasOK, CamerasView
<1>2. \A c \in Login : /\ logins'[c].password <= made'
                       /\ logins[c].password # 0 => logins'[c].password # 0
  BY <1>1 DEF CamerasBounds
<1>3. \A c \in view'.list : c \in Login /\ logins[c].password # 0
  BY <1>1 DEF CamerasBounds
<1>4. ASSUME NEW j \in 1..MaxAnswers, answers'[j] # NoAnswer, NEW c \in answers'[j].list
      PROVE  logins'[c].password # 0
  <2>1. CASE answers'[j] = answers[j]
    BY <1>1, <1>2, <1>4, <2>1 DEF CamerasBounds
  <2>2. CASE answers'[j].list = ListFtpCredentials /\ UNCHANGED logins
    BY <1>4, <2>2 DEF ListFtpCredentials
  <2> QED BY <1>4, <2>1, <2>2
<1> QED BY <1>2, <1>3, <1>4 DEF CamerasBounds

(* Polls use up no click.                                                   *)
LEMMA BoundsPolls ==
  ASSUME CamerasInv, CamerasInv', CamerasBounds, panel = "cameras", NEW i \in 1..MaxAnswers,
         \/ PollCameras(i) \/ HearCameras(i) \/ PollLog(i) \/ HearLog(i) \/ LosePoll(i)
  PROVE  CamerasBounds'
<1>1. CamerasOK /\ CamerasOK' /\ made <= made /\ view \in CamerasView
  BY DEF CamerasInv, CamerasOK
<1>2. UNCHANGED <<logins, made, calls, edits>>
  BY DEF PollCameras, HearCameras, PollLog, HearLog, LosePoll, Ask, Hear, rows, spent
<1>3. /\ view'.fresh = view.fresh /\ view'.regenerated = view.regenerated
      /\ view'.list = view.list \/ (answers[i] # NoAnswer /\ view'.list = answers[i].list)
  BY <1>1 DEF PollCameras, HearCameras, PollLog, HearLog, LosePoll, Ask, Hear, CamerasView
<1>4. \A j \in 1..MaxAnswers : \/ answers'[j] = answers[j] \/ answers'[j] = NoAnswer
                               \/ answers'[j].list = ListFtpCredentials
  BY <1>1 DEF PollCameras, HearCameras, PollLog, HearLog, LosePoll, Ask, Hear, CamerasOK
<1>5. Sent(1)' = Sent(1) /\ Sent(2)' = Sent(2)
  BY <1>2 DEF Sent
<1> QED BY <1>1, <1>2, <1>3, <1>4, <1>5, BoundsFrame DEF CamerasBounds

(* A click uses up one.                                                     *)
LEMMA BoundsClicks ==
  ASSUME CamerasInv, CamerasInv', CamerasBounds, Spent, panel = "cameras", NEW i \in 1..2,
         Create(i) \/ \E c \in Login : Regenerate(i, c) \/ Revoke(i, c)
  PROVE  CamerasBounds'
<1>1. /\ CamerasOK /\ CamerasOK' /\ made \in Nat /\ made <= made /\ view \in CamerasView
      /\ calls \in [1..2 -> CallState]
  BY SMTT(30) DEF CamerasInv, CamerasOK
<1>2. UNCHANGED <<logins, made, answers>> /\ edits' = edits + 1 /\ calls[i].pc = "none"
  BY DEF Create, Regenerate, Revoke, Call, Edit, rows
<1>3. /\ view'.fresh = view.fresh /\ view'.regenerated = view.regenerated
      /\ view'.list = view.list
  BY <1>1 DEF Create, Regenerate, Revoke, CamerasView
<1>4. /\ \A j \in 1..2 : j # i => calls'[j] = calls[j]
      /\ calls'[i].password = 0 /\ calls'[i].pc = "sent"
  BY <1>1, ZenonT(60) DEF Create, Regenerate, Revoke, Call, NoCall
<1>5. Sent(1) + Sent(2) + 1 = Sent(1)' + Sent(2)'
      /\ Sent(1) \in Nat /\ Sent(2) \in Nat /\ Sent(1)' \in Nat /\ Sent(2)' \in Nat
  <2>1. Sent(i) = 0 /\ Sent(i)' = 1
    BY <1>2, <1>4 DEF Sent
  <2> QED BY <1>4, <2>1, OneCallMoves
<1>6. made' + Sent(1)' + Sent(2)' <= edits'
  <2>1. edits \in Nat
    BY BoundsAssumption DEF Spent
  <2> QED BY <1>1, <1>2, <1>5, <2>1 DEF CamerasBounds
<1>7. \A j \in 1..2 : calls'[j].password <= made'
  BY <1>1, <1>2, <1>4 DEF CamerasBounds
<1> QED BY <1>1, <1>2, <1>3, <1>6, <1>7, BoundsFrame DEF CamerasBounds

(* What a call makes was counted when it was sent.                          *)
LEMMA BoundsServer ==
  ASSUME CamerasInv, CamerasInv', CamerasBounds, Spent, panel = "cameras", NEW i \in 1..2,
         Server(i)
  PROVE  CamerasBounds'
<1>1. /\ CamerasOK /\ CamerasOK' /\ made \in Nat /\ view \in CamerasView
      /\ calls \in [1..2 -> CallState]
  BY DEF CamerasInv, CamerasOK
<1>2. calls[i].op \in {"none", "create", "regenerate", "revoke"}
  BY <1>1 DEF CallState
<1>3. CreateFtpCredential(i) \/ RegenerateFtpPassword(i) \/ RevokeFtpCredential(i)
  BY <1>2 DEF Server, PatchEvent, DeleteByCall, Serving
<1>4. UNCHANGED <<view, answers, edits>> /\ calls[i].pc = "sent"
  BY <1>3 DEF CreateFtpCredential, RegenerateFtpPassword, RevokeFtpCredential, Served, spent, Serving
<1> PICK n \in Nat : n = made + 1
  BY <1>1
<1>5. PICK c \in Login, p \in Nat :
        /\ Served(i, c, p)
        /\ \/ made' = n /\ p = n /\ logins' = [logins EXCEPT ![c].password = n]
           \/ made' = made /\ p = 0 /\ logins' = [logins EXCEPT ![c].revoked = TRUE]
  <2>1. CASE CreateFtpCredential(i)
    BY <2>1, Zenon DEF CreateFtpCredential
  <2>2. CASE RegenerateFtpPassword(i)
    <3>1. PICK c \in Login : c = calls[i].login
      BY <1>1, <2>2 DEF RegenerateFtpPassword, Serving, CamerasOK
    <3> QED BY <2>2, <3>1, Zenon DEF RegenerateFtpPassword
  <2>3. CASE RevokeFtpCredential(i)
    <3>1. PICK c \in Login : c = calls[i].login
      BY <1>1, <2>3 DEF RevokeFtpCredential, Serving, CamerasOK
    <3>2. made' = made /\ logins' = [logins EXCEPT ![c].revoked = TRUE] /\ Served(i, c, 0)
      BY <2>3, <3>1, Zenon DEF RevokeFtpCredential
    <3>3. 0 \in Nat
      OBVIOUS
    <3> QED BY <3>2, <3>3, Zenon
  <2> QED BY <1>3, <2>1, <2>2, <2>3
<1>6. /\ \A j \in 1..2 : j # i => calls'[j] = calls[j]
      /\ calls'[i].password = p /\ calls'[i].pc = "served"
  BY <1>1, <1>5, Answering
<1>7. /\ made' \in Nat /\ made <= made' /\ made' <= made + 1
      /\ \A d \in Login : \/ logins'[d].password = logins[d].password
                          \/ logins'[d].password <= made' /\ logins'[d].password # 0
  BY <1>1, <1>5, PasswordsMove
<1>11. p <= made'
  BY <1>1, <1>5
<1>8. made' + Sent(1)' + Sent(2)' <= edits'
  <2>1. edits \in Nat
    BY BoundsAssumption DEF Spent
  <2>2. Sent(i) = 1 /\ Sent(i)' = 0
    BY <1>4, <1>6 DEF Sent
  <2>3. /\ Sent(1) + Sent(2) = Sent(1)' + Sent(2)' + 1
        /\ Sent(1) \in Nat /\ Sent(2) \in Nat /\ Sent(1)' \in Nat /\ Sent(2)' \in Nat
    BY <1>6, <2>2, OneCallMoves
  <2> QED BY <1>1, <1>4, <1>7, <2>1, <2>3 DEF CamerasBounds
<1>9. \A j \in 1..2 : calls'[j].password <= made'
  <2>1. \A j \in 1..2 : calls[j].password \in Nat
    BY <1>1 DEF CallState
  <2> QED BY <1>1, <1>6, <1>7, <1>11, <2>1 DEF CamerasBounds
<1>10. view.fresh.password <= made' /\ \A d \in Login : view.regenerated[d] <= made'
  <2>1. view.fresh.password \in Nat /\ \A d \in Login : view.regenerated[d] \in Nat
    BY <1>1 DEF CamerasView
  <2> QED BY <1>1, <1>7, <2>1 DEF CamerasBounds
<1> QED BY <1>1, <1>4, <1>7, <1>8, <1>9, <1>10, BoundsFrame

(* An answer that is heard makes nothing.                                   *)
LEMMA BoundsAnswers ==
  ASSUME CamerasInv, CamerasInv', CamerasBounds, Spent, panel = "cameras", NEW i \in 1..2,
         Refuse(i) \/ Reject(i) \/ HearCall(i)
  PROVE  CamerasBounds'
<1>1. /\ CamerasOK /\ CamerasOK' /\ made \in Nat /\ made <= made /\ view \in CamerasView
      /\ calls \in [1..2 -> CallState] /\ calls[i] \in CallState
  BY DEF CamerasInv, CamerasOK
<1>2. UNCHANGED <<logins, made, answers, edits>>
  BY DEF Refuse, Reject, HearCall, HearCreated, HearRegenerated, HearRevoked, HearControl, Heard,
         Lose, rows, spent
<1>3. /\ \A j \in 1..2 : j # i => calls'[j] = calls[j]
      /\ calls'[i].password \in {0, calls[i].password} /\ calls'[i].pc # "sent"
  <2>1. CASE Refuse(i)
    BY <1>1, <2>1 DEF Refuse, CallState
  <2>2. CASE Reject(i) \/ HearCall(i)
    <3>1. calls' = [calls EXCEPT ![i] = NoCall]
      BY <2>2 DEF Reject, HearCall, HearCreated, HearRegenerated, HearRevoked, HearControl, Heard
    <3> QED BY <1>1, <3>1 DEF NoCall
  <2> QED BY <2>1, <2>2
<1>4. made' + Sent(1)' + Sent(2)' <= edits'
  <2>1. edits \in Nat
    BY BoundsAssumption DEF Spent
  <2>2. Sent(i)' = 0 /\ Sent(i) \in Nat
    BY <1>3 DEF Sent
  <2>3. /\ Sent(1) + Sent(2) = Sent(1)' + Sent(2)' + Sent(i)
        /\ Sent(1) \in Nat /\ Sent(2) \in Nat /\ Sent(1)' \in Nat /\ Sent(2)' \in Nat
    BY <1>3, <2>2, OneCallMoves
  <2> QED BY <1>1, <1>2, <2>1, <2>2, <2>3 DEF CamerasBounds
<1>5. \A j \in 1..2 : calls'[j].password <= made'
  BY <1>1, <1>2, <1>3 DEF CamerasBounds
<1>6. /\ view'.list = view.list /\ view'.fresh.password <= made
      /\ \A d \in Login : view'.regenerated[d] <= made
  <2>1. calls[i].password \in Nat /\ calls[i].password <= made
    BY <1>1 DEF CamerasBounds, CallState
  <2>2. CASE view' = view
    BY <2>2 DEF CamerasBounds
  <2>3. CASE HearCreated(i)
    <3>1. PICK fresh : /\ view' = [view EXCEPT !.busy = FALSE, !.fresh = fresh]
                       /\ fresh.password <= made
      <4>1. CASE calls[i].ok
        <5>1. PICK fresh : fresh = [login |-> calls[i].login, password |-> calls[i].password]
          OBVIOUS
        <5>2. view' = [view EXCEPT !.busy = FALSE, !.fresh = fresh]
          BY <2>3, <4>1, <5>1 DEF HearCreated
        <5>3. fresh.password <= made
          BY <2>1, <5>1
        <5> QED BY <5>2, <5>3, Zenon
      <4>2. CASE ~calls[i].ok
        <5>1. view' = [view EXCEPT !.busy = FALSE, !.fresh = view.fresh]
          BY <2>3, <4>2 DEF HearCreated
        <5> QED BY <5>1 DEF CamerasBounds
      <4> QED BY <4>1, <4>2
    <3> QED BY <1>1, <3>1 DEF CamerasBounds, CamerasView
  <2>4. CASE HearRegenerated(i) /\ calls[i].ok
    <3>1. PICK d \in Login : d = calls[i].login
      BY <1>1, <2>4 DEF HearRegenerated, Heard, CamerasOK
    <3>2. view' = [view EXCEPT !.regenerated[d] = calls[i].password]
      BY <2>4, <3>1 DEF HearRegenerated
    <3> QED BY <1>1, <2>1, <3>2 DEF CamerasBounds, CamerasView
  <2>5. CASE HearControl(i)
    BY <1>1, <2>5 DEF HearControl, Heard, CallState
  <2> QED BY <2>2, <2>3, <2>4, <2>5 DEF Refuse, Reject, HearCall, HearRegenerated, HearRevoked
<1> QED BY <1>1, <1>2, <1>4, <1>5, <1>6, BoundsFrame

(* What somebody else does uses up a click too.                             *)
LEMMA BoundsOthers ==
  ASSUME CamerasInv, CamerasInv', CamerasBounds, Spent, panel = "cameras",
         OtherDelete \/ \E c \in Login : OtherLogin(c)
  PROVE  CamerasBounds'
<1>1. /\ CamerasOK /\ CamerasOK' /\ made \in Nat /\ view \in CamerasView
      /\ calls \in [1..2 -> CallState] /\ edits \in Nat
  BY BoundsAssumption DEF CamerasInv, CamerasOK, Spent
<1>2. UNCHANGED <<view, answers, calls>> /\ edits' = edits + 1
  BY DEF OtherDelete, OtherLogin, Edit
<1>3. /\ made' \in Nat /\ made <= made' /\ made' <= made + 1
      /\ \A d \in Login : \/ logins'[d].password = logins[d].password
                          \/ logins'[d].password <= made' /\ logins'[d].password # 0
  <2>1. CASE OtherDelete
    <3>1. logins' = [d \in Login |-> [logins[d] EXCEPT !.revoked = @ \/ logins[d].password # 0]]
          /\ made' = made
      BY <2>1 DEF OtherDelete, Delete
    <3>2. \A d \in Login : logins'[d].password = logins[d].password
      <4> SUFFICES ASSUME NEW d \in Login
                   PROVE  logins'[d].password = logins[d].password
        OBVIOUS
      <4>1. logins[d] \in [password: Nat, revoked: BOOLEAN]
        BY <1>1 DEF CamerasOK
      <4>2. PICK revoked \in BOOLEAN : revoked = (logins[d].revoked \/ logins[d].password # 0)
        OBVIOUS
      <4>3. logins'[d] = [logins[d] EXCEPT !.revoked = revoked]
        BY <3>1, <4>2, Zenon
      <4> QED BY <4>1, <4>3
    <3>3. made' = made
      BY <3>1
    <3>4. made' \in Nat /\ made <= made' /\ made' <= made + 1
      BY <1>1, <3>3
    <3> QED BY <3>2, <3>4, Zenon
  <2>2. CASE \E c \in Login : OtherLogin(c)
    <3> PICK n \in Nat : n = made + 1
      BY <1>1
    <3>1. PICK c \in Login : \/ made' = n /\ logins' = [logins EXCEPT ![c].password = n]
                             \/ made' = made /\ logins' = [logins EXCEPT ![c].revoked = TRUE]
      BY <2>2, Zenon DEF OtherLogin
    <3> QED BY <1>1, <3>1, PasswordsMove
  <2> QED BY <2>1, <2>2
<1>4. /\ \A j \in 1..2 : calls[j].password \in Nat
      /\ view.fresh.password \in Nat /\ \A d \in Login : view.regenerated[d] \in Nat
  BY <1>1 DEF CallState, CamerasView
<1>5. /\ \A j \in 1..2 : calls[j].password <= made'
      /\ view.fresh.password <= made' /\ \A d \in Login : view.regenerated[d] <= made'
  BY <1>1, <1>3, <1>4 DEF CamerasBounds
<1>6. made' + Sent(1)' + Sent(2)' <= edits'
  <2>1. Sent(1)' = Sent(1) /\ Sent(2)' = Sent(2) /\ Sent(1) \in Nat /\ Sent(2) \in Nat
    BY <1>2 DEF Sent
  <2> QED BY <1>1, <1>2, <1>3, <2>1 DEF CamerasBounds
<1> QED BY <1>1, <1>2, <1>3, <1>5, <1>6, BoundsFrame

(* Every step of the page with the cameras pays for the passwords it makes. *)
LEMMA BoundsInductive ==
  ASSUME CamerasInv, CamerasInv', CamerasBounds, Spent, panel = "cameras", [Next]_vars
  PROVE  CamerasBounds'
<1>1. ASSUME NEW i \in 1..MaxAnswers,
             \/ PollCameras(i) \/ HearCameras(i) \/ PollLog(i) \/ HearLog(i) \/ LosePoll(i)
      PROVE  CamerasBounds'
  BY <1>1, BoundsPolls
<1>2. ASSUME NEW i \in 1..2, Server(i)
      PROVE  CamerasBounds'
  BY <1>2, BoundsServer
<1>3. ASSUME NEW i \in 1..2, Refuse(i) \/ Reject(i) \/ HearCall(i)
      PROVE  CamerasBounds'
  BY <1>3, BoundsAnswers
<1>4. ASSUME NEW i \in 1..2, Create(i) \/ \E c \in Login : Regenerate(i, c) \/ Revoke(i, c)
      PROVE  CamerasBounds'
  BY <1>4, BoundsClicks
<1>5. CASE OtherDelete \/ \E c \in Login : OtherLogin(c)
  BY <1>5, BoundsOthers
<1>6. CASE UNCHANGED vars
  BY <1>6 DEF vars, rows, spent, CamerasBounds, Sent
<1>7. ~ReadPage /\ ~HearPage /\ ~OtherPatch /\ (\A op : ~Control(op)) /\ \A s : ~Happen(s)
  BY DEF ReadPage, HearPage, OtherPatch, Control, Happen
<1> QED BY <1>1, <1>2, <1>3, <1>4, <1>5, <1>6, <1>7 DEF Next

(* What the calls on the server may rely on.                                *)
LEMMA CallsMakeSense ==
  ASSUME PanelOK, NEW i \in 1..2
  PROVE  /\ calls[i].pc = "sent" /\ calls[i].op = "status" => calls[i].value \in {"live", "closed"}
         /\ calls[i].op = "regenerate" => calls[i].login \in Login
<1>1. CASE panel = "cameras" /\ CamerasInv
  <2>1. calls[i] \in CallState
    BY <1>1 DEF CamerasInv, CamerasOK
  <2> QED BY <1>1, <2>1 DEF CamerasInv, CamerasOK, CallState
<1>2. CASE ControlsOK
  <2>1. calls[i] \in ControlCall
    BY <1>2 DEF ControlsOK
  <2>2. calls[i].pc = "sent" => i = 1
    BY <1>2 DEF ControlsOK
  <2> QED BY <1>2, <2>1, <2>2 DEF ControlsOK, ControlCall
<1>3. CASE NoCalls
  BY <1>3 DEF NoCalls
<1> QED BY <1>1, <1>2, <1>3 DEF PanelOK

(* What is used up, over whatever a step does.                              *)
LEMMA SpentInductive ==
  ASSUME PanelOK, Spent, [Next]_vars
  PROVE  Spent'
<1>0. /\ edits \in Nat /\ lost \in Nat /\ event \in EventState
      /\ MaxEdits \in Nat /\ MaxLost \in Nat
  BY BoundsAssumption DEF Spent
<1>2. ASSUME NEW i \in 1..MaxAnswers,
             \/ PollCameras(i) \/ HearCameras(i) \/ PollLog(i) \/ HearLog(i) \/ LosePoll(i)
      PROVE  Spent'
  <2>1. UNCHANGED <<edits, happened, event, astray>> /\ (lost' = lost \/ Lose)
    BY <1>2 DEF PollCameras, HearCameras, PollLog, HearLog, LosePoll, Ask, Hear, rows, spent
  <2>2. lost' \in 0..MaxLost
    BY <1>0, <2>1 DEF Lose, Spent
  <2> QED BY <2>1, <2>2 DEF Spent
<1>3. CASE ReadPage \/ HearPage
  <2>1. UNCHANGED <<edits, lost, happened, event>> /\ astray' \subseteq astray
    BY <1>3 DEF ReadPage, HearPage, Ask, Hear, rows, spent
  <2> QED BY <2>1 DEF Spent
<1>4. ASSUME NEW i \in 1..2, Create(i) \/ \E c \in Login : Regenerate(i, c) \/ Revoke(i, c)
      PROVE  Spent'
  <2>1. /\ UNCHANGED <<lost, happened, event>> /\ Edit
        /\ astray' = astray \/ \E c \in Login : astray' = astray \cup {c}
    BY <1>4 DEF Create, Regenerate, Revoke, Call, rows
  <2> QED BY <1>0, <2>1, SMTT(30) DEF Spent, Edit
<1>5. ASSUME NEW op \in {"status", "public", "delete"}, Control(op)
      PROVE  Spent'
  <2>1. UNCHANGED <<lost, happened, event, astray>> /\ Edit
    BY <1>5 DEF Control, Call, rows
  <2> QED BY <1>0, <2>1 DEF Spent, Edit
<1>6. ASSUME NEW i \in 1..2, Server(i)
      PROVE  Spent'
  <2>1. UNCHANGED <<edits, lost, happened>> /\ astray' \subseteq astray
    <3>1. CASE CreateFtpCredential(i) \/ RevokeFtpCredential(i)
      BY <3>1 DEF CreateFtpCredential, RevokeFtpCredential, Served, spent
    <3>2. CASE RegenerateFtpPassword(i)
      BY <3>2 DEF RegenerateFtpPassword, Served, spent
    <3>3. CASE PatchEvent(i) \/ DeleteByCall(i)
      BY <3>3 DEF PatchEvent, DeleteByCall, Served, spent
    <3> QED BY <1>6, <3>1, <3>2, <3>3 DEF Server
  <2>2. event' \in EventState
    <3>1. CASE CreateFtpCredential(i) \/ RevokeFtpCredential(i) \/ RegenerateFtpPassword(i)
      <4>1. event' = event
        BY <3>1 DEF CreateFtpCredential, RevokeFtpCredential, RegenerateFtpPassword
      <4> QED BY <1>0, <4>1
    <3>2. CASE PatchEvent(i)
      <4>1. CASE Serving(i, "status") /\ event' = [event EXCEPT !.status = calls[i].value]
        <5>1. calls[i].value \in {"live", "closed"}
          BY <4>1, CallsMakeSense DEF Serving
        <5> QED BY <1>0, <4>1, <5>1 DEF EventState
      <4>2. CASE event' = [event EXCEPT !.public = (calls[i].value = "on")]
        <5>1. PICK public \in BOOLEAN : public = (calls[i].value = "on")
          OBVIOUS
        <5>2. event' = [event EXCEPT !.public = public]
          BY <4>2, <5>1, Zenon
        <5> QED BY <1>0, <5>2 DEF EventState
      <4> QED BY <3>2, <4>1, <4>2 DEF PatchEvent
    <3>3. CASE DeleteByCall(i)
      BY <1>0, <3>3 DEF DeleteByCall, Delete, EventState
    <3> QED BY <1>6, <3>1, <3>2, <3>3 DEF Server
  <2> QED BY <2>1, <2>2 DEF Spent
<1>7. ASSUME NEW i \in 1..2, Refuse(i) \/ Reject(i) \/ HearCall(i)
      PROVE  Spent'
  <2>1. UNCHANGED <<edits, happened, event>> /\ (lost' = lost \/ Lose)
    BY <1>7 DEF Refuse, Reject, HearCall, HearCreated, HearRegenerated, HearRevoked, HearControl,
                Heard, rows, spent
  <2>2. lost' \in 0..MaxLost
    BY <1>0, <2>1 DEF Lose, Spent
  <2>3. astray' \subseteq Login \cup {NoLogin}
    <3>1. CASE Reject(i)
      BY <3>1, CallsMakeSense DEF Reject, Spent
    <3>2. CASE Refuse(i) \/ HearCall(i)
      BY <3>2 DEF Refuse, HearCall, HearCreated, HearRegenerated, HearRevoked, HearControl, Heard,
                  Spent
    <3> QED BY <1>7, <3>1, <3>2
  <2> QED BY <2>1, <2>2, <2>3 DEF Spent
<1>8. CASE OtherPatch \/ OtherDelete \/ \E c \in Login : OtherLogin(c)
  <2>1. /\ UNCHANGED <<lost, happened>> /\ Edit
        /\ astray' = astray \/ \E c \in Login \cup {NoLogin} : astray' = astray \cup {c}
    BY <1>8 DEF OtherPatch, OtherDelete, OtherLogin
  <2>2. event' \in EventState
    <3>1. CASE OtherPatch
      BY <3>1 DEF OtherPatch, EventState
    <3>2. CASE OtherDelete
      BY <1>0, <3>2 DEF OtherDelete, Delete, EventState
    <3>3. CASE \E c \in Login : OtherLogin(c)
      BY <1>0, <3>3 DEF OtherLogin
    <3> QED BY <1>8, <3>1, <3>2, <3>3
  <2> QED BY <1>0, <2>1, <2>2 DEF Spent, Edit
<1>9. ASSUME NEW source \in Source, Happen(source)
      PROVE  Spent'
  <2>1. UNCHANGED <<lost, event, astray>> /\ Edit /\ happened' = Append(happened, source)
    BY <1>9 DEF Happen
  <2>2. happened' \in Seq(Source)
    BY <2>1 DEF Spent
  <2> QED BY <1>0, <2>1, <2>2 DEF Spent, Edit
<1>10. CASE UNCHANGED <<panel, rows, view, answers, calls, spent, astray>>
  BY <1>10 DEF rows, spent, Spent
<1>11. CASE UNCHANGED vars
  BY <1>11 DEF vars, rows, spent, Spent
<1> QED
  BY <1>2, <1>3, <1>4, <1>5, <1>6, <1>7, <1>8, <1>9, <1>10, <1>11 DEF Next

(* No login is made where the cameras are not shown; a deletion revokes none*)
(* that is not there.                                                       *)
LEMMA NoCamerasStay ==
  ASSUME NoCameras, made' = made, logins' = logins \/ Delete
  PROVE  NoCameras'
<1>1. CASE Delete
  <2>1. ASSUME NEW d \in Login
        PROVE  logins'[d] \in [password: {0}, revoked: BOOLEAN]
    <3>1. logins[d] \in [password: {0}, revoked: BOOLEAN]
      BY DEF NoCameras
    <3>2. PICK revoked \in BOOLEAN : revoked = (logins[d].revoked \/ logins[d].password # 0)
      OBVIOUS
    <3>3. logins'[d] = [logins[d] EXCEPT !.revoked = revoked]
      BY <1>1, <3>2, Zenon DEF Delete
    <3> QED BY <3>1, <3>3
  <2>2. logins' = [d \in Login |-> logins'[d]]
    BY <1>1, Zenon DEF Delete
  <2> QED BY <2>1, <2>2 DEF NoCameras
<1> QED BY <1>1 DEF NoCameras

(* The controls: one call at a time; what is heard of one makes a page due, *)
(* and reading that page is what it was due for.                            *)
LEMMA ControlsPages ==
  ASSUME panel = "controls", ControlsOK, Spent, deleted \in BOOLEAN, ReadPage \/ HearPage
  PROVE  ControlsOK'
<1>0. /\ 1 \in 1..MaxAnswers /\ edits \in Nat /\ view \in ControlsView /\ view.due \in Nat
      /\ answers \in [1..MaxAnswers -> {NoAnswer} \cup [event: EventState, gone: BOOLEAN]]
      /\ Pending(1) \in Nat /\ event \in EventState
  BY BoundsAssumption DEF Spent, ControlsOK, ControlsView, Pending
<1>1. UNCHANGED <<calls, edits>> /\ Pending(1)' = Pending(1)
  BY DEF ReadPage, HearPage, Ask, Hear, spent, Pending
<1>2. CASE ReadPage
  <2>1. PICK gone \in BOOLEAN : gone = deleted
    OBVIOUS
  <2>2. answers' = [answers EXCEPT ![1] = [event |-> event, gone |-> gone]]
    BY <1>2, <2>1 DEF ReadPage, Ask
  <2>3. UNCHANGED view /\ view.due > 0
    BY <1>2 DEF ReadPage, Ask
  <2> QED BY <1>0, <1>1, <2>2, <2>3 DEF ControlsOK
<1>3. CASE HearPage
  <2>1. answers[1] \in [event: EventState, gone: BOOLEAN] /\ view.due > 0
    BY <1>0, <1>3 DEF HearPage, Hear, ControlsOK
  <2>2. PICK due \in Nat : due = view.due - 1
    BY <1>0, <2>1
  <2>3. PICK left \in BOOLEAN : left = (view.left \/ answers[1].gone)
    OBVIOUS
  <2>4. view' = [view EXCEPT !.event = answers[1].event, !.due = due, !.left = left]
    BY <1>3, <2>2, <2>3, Zenon DEF HearPage
  <2>5. view' \in ControlsView /\ view'.due = due
    BY <1>0, <2>1, <2>4 DEF ControlsView
  <2>6. answers' = [answers EXCEPT ![1] = NoAnswer]
    BY <1>3 DEF HearPage, Hear
  <2>7. due + Pending(1) <= edits
    BY <1>0, <2>2 DEF ControlsOK
  <2> QED BY <1>0, <1>1, <2>5, <2>6, <2>7 DEF ControlsOK
<1> QED BY <1>2, <1>3

(* A control sends a call.                                                  *)
LEMMA ControlsClicks ==
  ASSUME panel = "controls", ControlsOK, Spent,
         NEW op \in {"status", "public", "delete"}, Control(op)
  PROVE  ControlsOK'
<1>0. /\ edits \in Nat /\ view \in ControlsView /\ view.due \in Nat
      /\ calls \in [1..2 -> ControlCall]
  BY BoundsAssumption DEF Spent, ControlsOK, ControlsView
<1>1. PICK value \in {"none", "live", "closed", "on", "off"} :
        /\ value = CASE op = "status" -> IF view.event.status = "live" THEN "closed" ELSE "live"
                     [] op = "public" -> IF view.event.public THEN "off" ELSE "on"
                     [] OTHER -> "none"
        /\ op = "status" => value \in {"live", "closed"}
  OBVIOUS
<1>2. Call(1, op, NoLogin, value)
  BY <1>1, Zenon DEF Control
<1> DEFINE call == [NoCall EXCEPT !.op = op, !.login = NoLogin, !.value = value, !.pc = "sent"]
<1>3. call \in ControlCall /\ call.op = op /\ call.value = value /\ call.pc = "sent"
  BY DEF NoCall, ControlCall
<1>4. /\ calls' = [calls EXCEPT ![1] = call] /\ calls[1].pc = "none"
      /\ edits' = edits + 1 /\ UNCHANGED answers
  BY <1>2 DEF Call, Edit
<1> HIDE DEF call
<1>5. /\ calls' \in [1..2 -> ControlCall] /\ calls'[1] = call /\ calls'[2] = calls[2]
      /\ Pending(1) = 0 /\ Pending(1)' = 1
  BY <1>0, <1>3, <1>4 DEF Pending
<1>6. view' \in ControlsView /\ view'.due = view.due
  BY <1>0 DEF Control, ControlsView
<1>7. view'.due + Pending(1)' <= edits'
  BY <1>0, <1>4, <1>5, <1>6 DEF ControlsOK
<1> QED BY <1>1, <1>3, <1>4, <1>5, <1>6, <1>7 DEF ControlsOK

(* The call takes effect or fails.                                          *)
LEMMA ControlsServer ==
  ASSUME panel = "controls", ControlsOK, Spent, NEW i \in 1..2,
         Server(i) \/ Refuse(i) \/ Reject(i)
  PROVE  ControlsOK'
<1>0. /\ edits \in Nat /\ view.due \in Nat /\ calls \in [1..2 -> ControlCall]
      /\ Pending(1) \in Nat
  BY BoundsAssumption DEF Spent, ControlsOK, ControlsView, Pending
<1>1. i = 1 /\ calls[1].pc # "none" /\ calls[1] \in ControlCall
  BY <1>0 DEF ControlsOK, Server, CreateFtpCredential, RegenerateFtpPassword,
              RevokeFtpCredential, PatchEvent, DeleteByCall, Serving, Refuse, Reject
<1>2. UNCHANGED <<view, answers, edits>>
  <2>1. CASE Server(i)
    <3>1. PatchEvent(i) \/ DeleteByCall(i)
      BY <1>1, <2>1 DEF Server, CreateFtpCredential, RegenerateFtpPassword,
                        RevokeFtpCredential, Serving, ControlCall
    <3> QED BY <3>1 DEF PatchEvent, DeleteByCall, Served, spent
  <2> QED BY <2>1 DEF Refuse, Reject
<1>3. PICK call \in ControlCall :
        /\ calls' = [calls EXCEPT ![1] = call]
        /\ call.op = "status" => call.value \in {"live", "closed"}
  <2>1. CASE Server(i)
    <3>1. Served(1, NoLogin, 0)
      <4>1. PatchEvent(i) \/ DeleteByCall(i)
        BY <1>1, <2>1 DEF Server, CreateFtpCredential, RegenerateFtpPassword,
                          RevokeFtpCredential, Serving, ControlCall
      <4> QED BY <1>1, <4>1 DEF PatchEvent, DeleteByCall
    <3> DEFINE call == [[[[calls[1] EXCEPT !.pc = "served"] EXCEPT !.ok = TRUE]
                          EXCEPT !.login = NoLogin] EXCEPT !.password = 0]
    <3>2. call \in ControlCall /\ call.op = calls[1].op /\ call.value = calls[1].value
      BY <1>1 DEF ControlCall
    <3>3. calls' = [calls EXCEPT ![1] = call]
      BY <1>0, <3>1 DEF Served
    <3> HIDE DEF call
    <3> QED BY <3>2, <3>3 DEF ControlsOK
  <2>2. CASE Refuse(i)
    <3> DEFINE call == [calls[1] EXCEPT !.pc = "served"]
    <3>1. call \in ControlCall /\ call.op = calls[1].op /\ call.value = calls[1].value
      BY <1>1 DEF ControlCall
    <3>2. calls' = [calls EXCEPT ![1] = call]
      BY <1>1, <2>2 DEF Refuse
    <3> HIDE DEF call
    <3> QED BY <3>1, <3>2 DEF ControlsOK
  <2>3. CASE Reject(i)
    <3>1. NoCall \in ControlCall /\ NoCall.op = "none"
      BY DEF NoCall, ControlCall
    <3> QED BY <1>1, <2>3, <3>1 DEF Reject
  <2> QED BY <2>1, <2>2, <2>3
<1>4. /\ calls' \in [1..2 -> ControlCall] /\ calls'[1] = call /\ calls'[2] = calls[2]
      /\ Pending(1) = 1 /\ Pending(1)' \in {0, 1}
  BY <1>0, <1>1, <1>3 DEF Pending
<1>5. view'.due + Pending(1)' <= edits'
  BY <1>0, <1>2, <1>4 DEF ControlsOK
<1> QED BY <1>2, <1>3, <1>4, <1>5 DEF ControlsOK

(* Its answer makes a refresh due.                                          *)
LEMMA ControlsHear ==
  ASSUME panel = "controls", ControlsOK, Spent, NEW i \in 1..2, HearCall(i)
  PROVE  ControlsOK'
<1>0. /\ edits \in Nat /\ view \in ControlsView /\ view.due \in Nat
      /\ calls \in [1..2 -> ControlCall]
  BY BoundsAssumption DEF Spent, ControlsOK, ControlsView
<1>1. i = 1 /\ calls[1].pc = "served" /\ calls[1] \in ControlCall
  BY <1>0 DEF ControlsOK, HearCall, HearCreated, HearRegenerated, HearRevoked, HearControl, Heard
<1>2. HearControl(1)
  BY <1>1 DEF HearCall, HearCreated, HearRegenerated, HearRevoked, Heard, ControlCall
<1>3. calls' = [calls EXCEPT ![1] = NoCall] /\ UNCHANGED <<answers, edits>>
  BY <1>2 DEF HearControl, Heard, spent
<1>4. NoCall \in ControlCall /\ NoCall.op = "none" /\ NoCall.pc = "none"
  BY DEF NoCall, ControlCall
<1>5. /\ calls' \in [1..2 -> ControlCall] /\ calls'[1] = NoCall /\ calls'[2] = calls[2]
      /\ Pending(1) = 1 /\ Pending(1)' = 0
  BY <1>0, <1>1, <1>3, <1>4 DEF Pending
<1>6. /\ view' \in ControlsView /\ view.due <= view'.due /\ view'.due <= view.due + 1
  <2>1. PICK due \in Nat : due = view.due + 1
    BY <1>0
  <2>2. CASE view' = [view EXCEPT !.busy = FALSE, !.due = due]
    <3>1. view' \in ControlsView /\ view'.due = due
      BY <1>0, <2>2 DEF ControlsView
    <3> QED BY <1>0, <2>1, <3>1
  <2>3. CASE view' = [view EXCEPT !.busy = FALSE, !.left = calls[1].ok]
    <3>1. view' \in ControlsView /\ view'.due = view.due
      BY <1>0, <1>1, <2>3 DEF ControlsView, ControlCall
    <3> QED BY <1>0, <3>1
  <2> QED BY <1>2, <2>1, <2>2, <2>3, Zenon DEF HearControl
<1>7. view'.due \in Nat
  BY <1>6 DEF ControlsView
<1>8. view'.due + Pending(1)' <= edits' /\ (view.due > 0 => view'.due > 0)
  BY <1>0, <1>3, <1>5, <1>6, <1>7 DEF ControlsOK
<1> QED BY <1>3, <1>4, <1>5, <1>6, <1>8 DEF ControlsOK

(* The controls, over whatever a step does.                                 *)
LEMMA ControlsInductive ==
  ASSUME panel = "controls", NoCameras, ControlsOK, Spent, deleted \in BOOLEAN, [Next]_vars
  PROVE  NoCameras' /\ ControlsOK'
<1>0. /\ 1 \in 1..MaxAnswers /\ edits \in Nat /\ view.due \in Nat /\ Pending(1) \in Nat
      /\ calls \in [1..2 -> ControlCall]
  BY BoundsAssumption DEF Spent, ControlsOK, ControlsView, Pending
<1>1. CASE ReadPage \/ HearPage
  BY <1>1, ControlsPages, NoCamerasStay DEF ReadPage, HearPage, Ask, Hear, rows
<1>2. ASSUME NEW op \in {"status", "public", "delete"}, Control(op)
      PROVE  NoCameras' /\ ControlsOK'
  BY <1>2, ControlsClicks, NoCamerasStay DEF Control, Call, rows
<1>3. ASSUME NEW i \in 1..2, Server(i) \/ Refuse(i) \/ Reject(i)
      PROVE  NoCameras' /\ ControlsOK'
  <2>1. ControlsOK'
    BY <1>3, ControlsServer
  <2>2. made' = made /\ (logins' = logins \/ Delete)
    <3>1. CASE Server(i)
      <4>1. PatchEvent(i) \/ DeleteByCall(i)
        BY <1>0, <3>1 DEF Server, CreateFtpCredential, RegenerateFtpPassword,
                          RevokeFtpCredential, Serving, ControlCall
      <4> QED BY <4>1 DEF PatchEvent, DeleteByCall
    <3> QED BY <1>3, <3>1 DEF Refuse, Reject, rows
  <2> QED BY <2>1, <2>2, NoCamerasStay
<1>4. ASSUME NEW i \in 1..2, HearCall(i)
      PROVE  NoCameras' /\ ControlsOK'
  <2>1. UNCHANGED <<made, logins>>
    BY <1>4 DEF HearCall, HearCreated, HearRegenerated, HearRevoked, HearControl, Heard, rows
  <2> QED BY <1>4, <2>1, ControlsHear, NoCamerasStay
<1>5. CASE OtherPatch \/ OtherDelete
  <2>1. /\ UNCHANGED <<made, view, answers, calls>> /\ edits' = edits + 1
        /\ logins' = logins \/ Delete
    BY <1>5 DEF OtherPatch, OtherDelete, Edit
  <2>2. Pending(1)' = Pending(1)
    BY <2>1 DEF Pending
  <2>3. view'.due + Pending(1)' <= edits'
    BY <1>0, <2>1, <2>2 DEF ControlsOK
  <2> QED BY <2>1, <2>3, NoCamerasStay DEF ControlsOK
<1>6. CASE UNCHANGED vars
  <2>1. UNCHANGED <<made, logins, view, answers, calls, edits>> /\ Pending(1)' = Pending(1)
    BY <1>6 DEF vars, rows, spent, Pending
  <2> QED BY <2>1, NoCamerasStay DEF ControlsOK
<1>7. /\ \A i : ~PollCameras(i) /\ ~HearCameras(i) /\ ~PollLog(i) /\ ~HearLog(i) /\ ~LosePoll(i)
      /\ \A i, c : ~Create(i) /\ ~Regenerate(i, c) /\ ~Revoke(i, c)
      /\ (\A c : ~OtherLogin(c)) /\ \A s : ~Happen(s)
  BY DEF PollCameras, HearCameras, PollLog, HearLog, LosePoll, Create, Regenerate, Revoke,
         OtherLogin, Happen
<1> QED BY <1>1, <1>2, <1>3, <1>4, <1>5, <1>6, <1>7 DEF Next

(* The log and the set-up call nothing.                                     *)
LEMMA OthersInductive ==
  ASSUME panel \in {"log", "studio"}, NoCameras, NoCalls, [Next]_vars
  PROVE  NoCameras' /\ NoCalls' /\ DOMAIN view' = DOMAIN view
<1>1. CASE UNCHANGED <<panel, rows, view, answers, calls, spent, astray>>
  BY <1>1, NoCamerasStay DEF rows, NoCalls
<1>2. ASSUME NEW i \in 1..MaxAnswers, PollLog(i) \/ HearLog(i) \/ LosePoll(i)
      PROVE  NoCameras' /\ NoCalls' /\ DOMAIN view' = DOMAIN view
  BY <1>2, NoCamerasStay DEF PollLog, HearLog, LosePoll, Ask, Hear, rows, NoCalls
<1>3. ASSUME NEW i \in 1..2
      PROVE  ~Server(i) /\ ~Refuse(i) /\ ~Reject(i) /\ ~HearCall(i)
  BY DEF NoCalls, Server, CreateFtpCredential, RegenerateFtpPassword, RevokeFtpCredential,
         PatchEvent, DeleteByCall, Serving, Refuse, Reject, HearCall, HearCreated,
         HearRegenerated, HearRevoked, HearControl, Heard
<1>4. CASE OtherDelete
  BY <1>4, NoCamerasStay DEF OtherDelete, NoCalls
<1>5. ASSUME NEW source \in Source, Happen(source)
      PROVE  NoCameras' /\ NoCalls' /\ DOMAIN view' = DOMAIN view
  BY <1>5, NoCamerasStay DEF Happen, NoCalls
<1>6. CASE UNCHANGED vars
  BY <1>6, NoCamerasStay DEF vars, rows, NoCalls
<1>7. /\ \A i : ~PollCameras(i) /\ ~HearCameras(i) /\ ~ReadPage /\ ~HearPage
      /\ \A i, c : ~Create(i) /\ ~Regenerate(i, c) /\ ~Revoke(i, c)
      /\ (\A c : ~OtherLogin(c)) /\ ~OtherPatch /\ \A op : ~Control(op)
  BY DEF PollCameras, HearCameras, ReadPage, HearPage, Create, Regenerate, Revoke, OtherLogin,
         OtherPatch, Control
<1> QED BY <1>1, <1>2, <1>3, <1>4, <1>5, <1>6, <1>7 DEF Next

(* Every panel before its first answer.                                     *)
LEMMA PanelInit == Init => Spent /\ PanelOK
<1> SUFFICES ASSUME Init PROVE Spent /\ PanelOK
  OBVIOUS
<1>1. Spent
  <2>1. happened \in Seq(Source) /\ event \in EventState
    BY SMT DEF Init, EventState
  <2> QED BY <2>1, BoundsAssumption DEF Init, Spent
<1>2. \A i \in 1..2 : calls[i] = NoCall
  BY DEF Init
<1>3. CASE panel = "cameras"
  <2>1. view = [list |-> {}, busy |-> FALSE, fresh |-> [login |-> NoLogin, password |-> 0],
                regenerated |-> [c \in Login |-> 0]]
    BY <1>3 DEF Init, Blank
  <2>2. Sent(1) = 0 /\ Sent(2) = 0 /\ \A i \in 1..2 : calls[i].password = 0
    BY <1>2 DEF NoCall, Sent
  <2>3. made = 0 /\ edits = 0 /\ \A c \in Login : logins[c].password = 0
    BY DEF Init
  <2>4. \A j \in 1..MaxAnswers : answers[j] = NoAnswer
    BY DEF Init
  <2>5. CamerasBounds
    BY <2>1, <2>2, <2>3, <2>4 DEF CamerasBounds
  <2> QED BY <1>1, <1>3, <2>5, CamerasInit DEF PanelOK
<1>4. NoCameras
  BY DEF Init, NoCameras
<1>5. CASE panel = "controls"
  <2>1. view = [event |-> [status |-> "live", public |-> FALSE], busy |-> FALSE, due |-> 0,
                left |-> FALSE]
    BY <1>5 DEF Init, Blank
  <2>2. view \in ControlsView
    BY <2>1 DEF ControlsView, EventState
  <2>3. NoCall \in ControlCall /\ NoCall.op = "none" /\ NoCall.pc = "none"
    BY DEF NoCall, ControlCall
  <2>4. /\ calls \in [1..2 -> ControlCall]
        /\ answers \in [1..MaxAnswers -> {NoAnswer} \cup [event: EventState, gone: BOOLEAN]]
    BY <2>3 DEF Init
  <2>5. Pending(1) = 0 /\ answers[1] = NoAnswer /\ edits = 0
    BY <1>2, <2>3, BoundsAssumption DEF Init, Pending
  <2> QED BY <1>1, <1>2, <1>4, <1>5, <2>1, <2>2, <2>3, <2>4, <2>5 DEF PanelOK, ControlsOK
<1>6. CASE panel \in {"log", "studio"}
  BY <1>1, <1>2, <1>4, <1>6 DEF Init, PanelOK, NoCalls, NoCall
<1> QED BY <1>1, <1>3, <1>5, <1>6 DEF Init

(* A step keeps the part of the panel that is open.                         *)
LEMMA PanelInductive ==
  ASSUME PanelOK, Spent, StudioTypeOK, [Next]_vars
  PROVE  PanelOK' /\ Spent'
<1>0. Spent' /\ panel' = panel /\ deleted \in BOOLEAN
  BY SpentInductive, PanelIsKept DEF StudioTypeOK
<1>1. CASE panel = "cameras" /\ CamerasInv /\ CamerasBounds
  <2>1. CamerasInv'
    BY <1>1, CamerasInductive
  <2> QED BY <1>0, <1>1, <2>1, BoundsInductive DEF PanelOK
<1>2. CASE panel = "controls" /\ NoCameras /\ ControlsOK
  BY <1>0, <1>2, ControlsInductive DEF PanelOK
<1>3. CASE panel = "log" /\ NoCameras /\ NoCalls /\ DOMAIN view = DOMAIN Blank("log")
  BY <1>0, <1>3, OthersInductive DEF PanelOK
<1>4. CASE panel = "studio" /\ NoCameras /\ NoCalls /\ DOMAIN view = DOMAIN Blank("studio")
  BY <1>0, <1>4, OthersInductive DEF PanelOK
<1> QED BY <1>1, <1>2, <1>3, <1>4 DEF PanelOK

(* What is kept is what the types say.                                      *)
LEMMA PanelTyped ==
  ASSUME PanelOK, Spent, StudioTypeOK
  PROVE  TypeOK
<1>0. edits \in Nat /\ edits <= MaxEdits /\ MaxEdits \in Nat
  BY BoundsAssumption DEF Spent
<1>1. CASE panel = "cameras" /\ CamerasInv /\ CamerasBounds
  <2>1. /\ logins \in [Login -> [password: Nat, revoked: BOOLEAN]] /\ made \in Nat
        /\ view \in CamerasView /\ calls \in [1..2 -> CallState]
    BY <1>1 DEF CamerasInv, CamerasOK
  <2>2. made \in 0..MaxEdits
    <3>1. Sent(1) \in Nat /\ Sent(2) \in Nat
      BY DEF Sent
    <3> QED BY <1>0, <1>1, <2>1, <3>1 DEF CamerasBounds
  <2>3. logins \in [Login -> [password: 0..made, revoked: BOOLEAN]]
    <3>1. ASSUME NEW c \in Login
          PROVE  logins[c] \in [password: 0..made, revoked: BOOLEAN]
      BY <1>1, <2>1 DEF CamerasBounds
    <3> QED BY <2>1, <3>1
  <2>4. /\ view.list \subseteq {c \in Login : logins[c].password # 0}
        /\ view.fresh \in [login: Login \cup {NoLogin}, password: 0..made]
        /\ view.regenerated \in [Login -> 0..made]
    BY <1>1, <2>1 DEF CamerasBounds, CamerasView
  <2>5. DOMAIN view = DOMAIN Blank("cameras")
    BY <2>1 DEF CamerasView, Blank
  <2>6. \A i \in 1..2 : /\ calls[i].op \in {"none", "create", "regenerate", "revoke"}
                        /\ calls[i].pc \in {"none", "sent", "served"}
    BY <2>1 DEF CallState
  <2> QED BY <1>1, <2>2, <2>3, <2>4, <2>5, <2>6 DEF TypeOK, Spent, EventState
<1>2. NoCameras
      => logins \in [Login -> [password: 0..made, revoked: BOOLEAN]] /\ made \in 0..MaxEdits
  BY <1>0 DEF NoCameras
<1>4. CASE panel = "controls" /\ NoCameras /\ ControlsOK
  <2>1. view \in ControlsView /\ calls \in [1..2 -> ControlCall] /\ view.due \in Nat
    BY <1>4 DEF ControlsOK, ControlsView
  <2>2. view.event.public \in BOOLEAN
    BY <2>1 DEF ControlsView, EventState
  <2>3. view.due \in 0..MaxEdits
    <3>1. Pending(1) \in Nat
      BY DEF Pending
    <3> QED BY <1>0, <1>4, <2>1, <3>1 DEF ControlsOK
  <2>4. DOMAIN view = DOMAIN Blank("controls")
    BY <2>1 DEF ControlsView, Blank
  <2>5. \A i \in 1..2 : /\ calls[i].op \in {"none", "status", "public", "delete"}
                        /\ calls[i].pc \in {"none", "sent", "served"}
    BY <2>1 DEF ControlCall
  <2> QED BY <1>2, <1>4, <2>2, <2>3, <2>4, <2>5 DEF TypeOK, Spent, EventState
<1>5. CASE panel \in {"log", "studio"} /\ NoCameras /\ NoCalls /\ DOMAIN view = DOMAIN Blank(panel)
  BY <1>2, <1>5 DEF TypeOK, Spent, EventState, NoCalls
<1> QED BY <1>1, <1>4, <1>5 DEF PanelOK

(* What an open page shows and sends is always of the shape of its panel,   *)
(* every password shown or stored is one that was generated, a listed       *)
(* camera has a row, and there are no more passwords, nor pages due, than   *)
(* clicks that asked for one.                                               *)
THEOREM TypeCorrect == Spec => []TypeOK
<1>1. Init => StudioInv /\ Spent /\ PanelOK
  BY StudioInitInv, PanelInit DEF Init
<1>2. StudioInv /\ Spent /\ PanelOK /\ [Next]_vars => (StudioInv /\ Spent /\ PanelOK)'
  BY PanelsLeaveTheSetUp, StudioInductive, PanelInductive DEF StudioInv
<1>3. StudioInv /\ Spent /\ PanelOK => TypeOK
  BY PanelTyped DEF StudioInv
<1> QED BY <1>1, <1>2, <1>3, PTL DEF Spec
==============================================================================
