---------------------------- MODULE Participation ----------------------------
(***************************************************************************)
(* From the scanned code to the gallery:                                   *)
(*                                                                         *)
(*   apps/web       the pages JoinFlow (consent, selfie, spinner) and      *)
(*                  GalleryView (its retake), several tabs of one browser  *)
(*                  with one session cookie; the routes they call          *)
(*   packages/core  resolveQrToken, joinEvent, getOwnedParticipant,        *)
(*                  getEnrollment, markEnrollmentProcessing                *)
(*   better-auth    anonymous sign-in (external)                           *)
(*                                                                         *)
(* Every fetch is a request that reads the cookie when it is sent and is   *)
(* answered later, or never.  Answers of a poll overtake each other.  What *)
(* the worker does with a selfie is the subject of Matching; here a queued *)
(* selfie gets a verdict.                                                  *)
(***************************************************************************)
EXTENDS Studio

CONSTANTS
  Tab,           \* tabs of the browser
  MaxGuests,     \* bound: anonymous users created
  Account,       \* a registered user who signs in on the same browser
  Nobody,        \* null: no session
  NoAnswer,      \* null: a slot without an answer on its way
  MaxSelfies,    \* bound: selfies uploaded
  MaxAnswers,    \* bound: answers of polls on their way at once
  MaxMishaps     \* bound: failing calls, failing attempts of the worker, and
                 \* replacements of the browser's session

Guest == 1..MaxGuests
User == Guest \cup {Account}
Selfie == 1..MaxSelfies

ASSUME UserAssumption == Account \notin Guest /\ Nobody \notin User
ASSUME BoundAssumption == MaxGuests \in Nat /\ MaxSelfies \in Nat /\ MaxMishaps \in Nat

VARIABLES
  cookie,      \* the user of the browser's session
  guests,      \* anonymous users created so far
  joined,      \* users with an event_participants row
  consents,    \* consents rows per user
  enroll,      \* event_participants.enrollment_status
  jobs,        \* selfies queued or being worked on, per participation
  tab,         \* the tabs
  answers,     \* answers to polls on their way
  selfies, mishaps,   \* used up so far
  mixed        \* history: the session was replaced, or two were begun together

server == <<joined, consents, enroll, jobs>>
spent == <<selfies, mishaps>>
browser == <<cookie, guests, mixed>>
vars == <<studioVars, browser, server, tab, answers, spent>>

Closed == [pc |-> "idle", screen |-> "closed", as |-> Nobody, known |-> FALSE,
           me |-> Nobody, retake |-> 0, timers |-> {}]

Init ==
  /\ StudioInit
  /\ cookie = Nobody /\ guests = 0 /\ mixed = FALSE
  /\ joined = {} /\ consents = [u \in User |-> 0]
  /\ enroll = [u \in User |-> "none"] /\ jobs = [u \in User |-> 0]
  /\ tab = [t \in Tab |-> Closed]
  /\ answers = [i \in 1..MaxAnswers |-> NoAnswer]
  /\ selfies = 0 /\ mishaps = 0

Mishap == mishaps < MaxMishaps /\ mishaps' = mishaps + 1

--------------------------------------------------------------------------------
(* The end of what a button began; Refuse is an error that is caught and    *)
(* shown, and the button comes back.                                        *)
End(t, pc) == tab' = [tab EXCEPT ![t].pc = pc, ![t].as = Nobody, ![t].known = FALSE]
Refuse(t) == End(t, "idle")

(* The page behind the code, which resolves it first.                       *)
Scan(t) ==
  /\ Resolves
  /\ tab[t].screen = "closed"
  /\ tab' = [tab EXCEPT ![t].screen = "consent"]
  /\ UNCHANGED <<studioVars, browser, server, answers, spent>>

(* The screens with a button, which is disabled while what it began runs.   *)
ConsentScreen(t) == tab[t].screen = "consent" /\ tab[t].pc = "idle"
SelfieScreen(t) == tab[t].screen \in {"selfie", "failed"} /\ tab[t].pc = "idle"
GalleryScreen(t) == tab[t].screen = "gallery" /\ tab[t].pc = "idle"

(* join(): getSession, ...                                                  *)
Join(t) ==
  /\ ConsentScreen(t)
  /\ cookie = Nobody => guests + Cardinality({s \in Tab : tab[s].pc \in {"signin", "signing"}})
                          < MaxGuests
  /\ tab' = [tab EXCEPT ![t].pc = IF cookie = Nobody THEN "signin" ELSE "post"]
  /\ UNCHANGED <<studioVars, browser, server, answers, spent>>

(* Mutant: an anonymous session signs in again, as another user. *)
SignInAgain(t) ==
  /\ tab[t].pc = "signin"
  /\ tab' = [tab EXCEPT ![t].pc = "signing"]
  /\ mixed' = (mixed \/ \E s \in Tab : tab[s].pc = "signing")
  /\ UNCHANGED <<studioVars, cookie, guests, server, answers, spent>>

(* ... an anonymous sign-in, refused to who has an anonymous session, ...   *)
SignIn(t) ==
  /\ tab[t].pc = "signin"
  /\ tab' = [tab EXCEPT ![t].pc = IF cookie \in Guest THEN "idle" ELSE "signing"]
  /\ mixed' = (mixed \/ \E s \in Tab : tab[s].pc = "signing")
  /\ UNCHANGED <<studioVars, cookie, guests, server, answers, spent>>

(* ... whose answer sets the cookie, ...                                    *)
SignedIn(t) ==
  /\ tab[t].pc = "signing"
  /\ guests < MaxGuests /\ guests' = guests + 1
  /\ cookie' = guests + 1
  /\ tab' = [tab EXCEPT ![t].pc = "post"]
  /\ UNCHANGED <<studioVars, mixed, server, answers, spent>>

(* ... and the POST, with the cookie of that moment; 401 without one.       *)
Post(t) ==
  /\ tab[t].pc = "post"
  /\ IF cookie = Nobody THEN Refuse(t)
     ELSE tab' = [tab EXCEPT ![t].pc = "sent", ![t].as = cookie, ![t].known = cookie \in joined]
  /\ UNCHANGED <<studioVars, browser, server, answers, spent>>

(* Mutant: the status is taken for the screen. *)
WelcomeByStatus(t, u) ==
  tab' = [tab EXCEPT ![t].pc = "idle", ![t].as = Nobody, ![t].known = FALSE, ![t].me = u,
                     ![t].screen = enroll[u]]

(* The answer of a join with user u's participation.                        *)
Welcome(t, u) ==
  tab' = [tab EXCEPT ![t].pc = "idle", ![t].as = Nobody, ![t].known = FALSE, ![t].me = u,
                     ![t].screen = IF enroll[u] = "ready" THEN "gallery" ELSE "selfie"]

(* Mutant: nobody looks for the participation that may be there. *)
FindNobody(t) ==
  /\ tab[t].pc = "sent"
  /\ IF deleted THEN Refuse(t) ELSE tab' = [tab EXCEPT ![t].pc = "found"]
  /\ UNCHANGED <<studioVars, browser, server, answers, spent>>

(* joinEvent: resolveQrToken (404), then the participation that may be there*)
(* (a deletion between the two is as good as one after both), ...           *)
Find(t) ==
  /\ tab[t].pc = "sent"
  /\ IF deleted THEN Refuse(t)
     ELSE IF tab[t].as \in joined THEN Welcome(t, tab[t].as)
     ELSE tab' = [tab EXCEPT ![t].pc = "found"]
  /\ UNCHANGED <<studioVars, browser, server, answers, spent>>

(* Mutant: the consent is written before the transaction. *)
InsertApart(t) ==
  LET u == tab[t].as
  IN  /\ tab[t].pc = "found"
      /\ consents' = [consents EXCEPT ![u] = @ + 1]
      /\ IF u \in joined THEN Refuse(t) /\ UNCHANGED joined
         ELSE Welcome(t, u) /\ joined' = joined \cup {u}
      /\ UNCHANGED <<studioVars, browser, enroll, jobs, answers, spent>>

(* ... else consent and participation in one transaction, which the unique  *)
(* key (event, user) undoes when another tab was first.                     *)
Insert(t) ==
  LET u == tab[t].as
  IN  /\ tab[t].pc = "found"
      /\ IF u \in joined THEN Refuse(t) /\ UNCHANGED <<joined, consents>>
         ELSE /\ Welcome(t, u)
              /\ joined' = joined \cup {u}
              /\ consents' = [consents EXCEPT ![u] = @ + 1]
      /\ UNCHANGED <<studioVars, browser, enroll, jobs, answers, spent>>

(* A call of the join fails, its transaction done or not.                   *)
JoinDies(t) ==
  LET u == tab[t].as
  IN  /\ tab[t].pc \in {"signing", "post", "sent", "found"}
      /\ Mishap /\ Refuse(t)
      /\ \/ UNCHANGED <<joined, consents>>
         \/ /\ tab[t].pc = "found" /\ u \notin joined
            /\ joined' = joined \cup {u}
            /\ consents' = [consents EXCEPT ![u] = @ + 1]
      /\ UNCHANGED <<studioVars, browser, enroll, jobs, answers, selfies>>

JoinNext(t) ==
  \/ SignIn(t) \/ SignedIn(t) \/ Post(t) \/ Find(t) \/ Insert(t)

--------------------------------------------------------------------------------
(* getOwnedParticipant, the gate of the participant routes: the participation*)
(* is the session user's and its event is there.                            *)
Owned(u, me) == u = me /\ me \in joined /\ ~deleted

(* uploadSelfie() from the camera screens, retake() from the gallery.       *)
TakeSelfie(t) ==
  /\ SelfieScreen(t) \/ GalleryScreen(t)
  /\ selfies < MaxSelfies /\ selfies' = selfies + 1
  /\ tab' = [tab EXCEPT ![t].pc = "upload", ![t].as = cookie]
  /\ UNCHANGED <<studioVars, browser, server, answers, mishaps>>

(* The page starts a timer of its own for each selfie; JoinFlow shows the   *)
(* spinner, GalleryView keeps its button busy.                              *)
Await(t, n) ==
  tab' = [tab EXCEPT ![t].timers = @ \cup {n},
                     ![t].retake = IF tab[t].screen = "gallery" THEN n ELSE @,
                     ![t].pc = IF tab[t].screen = "gallery" THEN "retaking" ELSE "idle",
                     ![t].as = Nobody,
                     ![t].screen = IF @ = "gallery" THEN @ ELSE "processing"]

(* The number of a timer that does not run and of which no answer is due,   *)
(* and the smallest of them.                                                *)
Unused(n) ==
  /\ \A t \in Tab : n \notin tab[t].timers
  /\ \A i \in 1..MaxAnswers : answers[i] # NoAnswer => answers[i].timer # n
Fresh(n) == Unused(n) /\ \A k \in 1..(n - 1) : ~Unused(k)

(* The selfie route: stored, marked, queued (202), or 404.                  *)
SelfieRoute(t) ==
  LET me == tab[t].me
  IN  /\ tab[t].pc = "upload"
      /\ \/ /\ Owned(tab[t].as, me)
            /\ enroll' = [enroll EXCEPT ![me] = "processing"]
            /\ jobs' = [jobs EXCEPT ![me] = @ + 1]
            /\ \E n \in Selfie : Fresh(n) /\ Await(t, n)
         \/ ~Owned(tab[t].as, me) /\ Refuse(t) /\ UNCHANGED <<enroll, jobs>>
      /\ UNCHANGED <<studioVars, browser, joined, consents, answers, spent>>

(* It fails before or after the mark, or its answer is lost.  An error is   *)
(* shown; a fetch that is rejected is caught by neither page.               *)
SelfieDies(t) ==
  LET me == tab[t].me
  IN  /\ tab[t].pc = "upload"
      /\ Mishap
      /\ \/ UNCHANGED <<enroll, jobs>>
         \/ /\ Owned(tab[t].as, me)
            /\ enroll' = [enroll EXCEPT ![me] = "processing"]
            /\ jobs' \in {jobs, [jobs EXCEPT ![me] = @ + 1]}
      /\ End(t, "idle") \/ End(t, "hung")
      /\ UNCHANGED <<studioVars, browser, joined, consents, answers, selfies>>

(* The worker's verdict; a failed attempt may be followed by another.       *)
Verdict(u) ==
  /\ jobs[u] > 0
  /\ \/ /\ \E v \in {"ready", "failed"} : enroll' = [enroll EXCEPT ![u] = v]
        /\ jobs' = [jobs EXCEPT ![u] = @ - 1] /\ UNCHANGED mishaps
     \/ /\ Mishap
        /\ enroll' = [enroll EXCEPT ![u] = "failed"] /\ UNCHANGED jobs
  /\ UNCHANGED <<studioVars, browser, joined, consents, tab, answers, selfies>>

--------------------------------------------------------------------------------
(* getEnrollment, if it tells of a verdict: any other answer changes nothing*)
(* whenever it comes.                                                       *)
Enrollment(u, me) == {v \in {"ready", "failed"} : Owned(u, me) /\ enroll[me] = v}

(* The first slot without an answer.                                        *)
Free(i) == answers[i] = NoAnswer /\ \A j \in 1..(i - 1) : answers[j] # NoAnswer

(* Polling, every second and a half per timer, ...                          *)
Tick(t, n) ==
  /\ n \in tab[t].timers
  /\ \E i \in 1..MaxAnswers, v \in Enrollment(cookie, tab[t].me) :
       Free(i) /\ answers' = [answers EXCEPT ![i] = [tab |-> t, timer |-> n, said |-> v]]
  /\ UNCHANGED <<studioVars, browser, server, tab, spent>>

(* What an answer does to its page: a verdict stops the timer it belongs to.*)
(* GalleryView's frees its button; JoinFlow's moves on, even from a screen  *)
(* that has moved on already, but not from the gallery.                     *)
Told(t, n, said) ==
  LET heard == [tab[t] EXCEPT !.timers = @ \ {n}]
  IN  IF n = tab[t].retake THEN [heard EXCEPT !.pc = "idle", !.retake = 0]
      ELSE IF said = "ready" THEN [heard EXCEPT !.screen = "gallery"]
      ELSE [heard EXCEPT !.screen = IF @ = "gallery" THEN @ ELSE "failed"]

(* Mutant: a failed verdict is not listened to. *)
HearOnlyReady(i) ==
  LET a == answers[i]
  IN  /\ a # NoAnswer
      /\ answers' = [answers EXCEPT ![i] = NoAnswer]
      /\ tab' = IF a.said = "failed" THEN tab
                ELSE [tab EXCEPT ![a.tab] = Told(a.tab, a.timer, a.said)]
      /\ UNCHANGED <<studioVars, browser, server, spent>>

(* ... and its answer, in any order.                                        *)
Hear(i) ==
  LET a == answers[i]
  IN  /\ a # NoAnswer
      /\ answers' = [answers EXCEPT ![i] = NoAnswer]
      /\ tab' = [tab EXCEPT ![a.tab] = Told(a.tab, a.timer, a.said)]
      /\ UNCHANGED <<studioVars, browser, server, spent>>

(* A poll that fails is not noticed; the timer goes on.                     *)
LoseAnswer(i) ==
  /\ answers[i] # NoAnswer
  /\ Mishap
  /\ answers' = [answers EXCEPT ![i] = NoAnswer]
  /\ UNCHANGED <<studioVars, browser, server, tab, selfies>>

(* Somebody signs in or up with an account, signs out, or loses the session:*)
(* the participation stays with the anonymous user, who cannot be deleted   *)
(* any more (consents.user_id, ON DELETE RESTRICT).                         *)
Switch(u) ==
  /\ Mishap
  /\ u # cookie /\ cookie' = u
  /\ mixed' = TRUE
  /\ UNCHANGED <<studioVars, guests, server, tab, answers, selfies>>

Next ==
  \/ StudioNext /\ UNCHANGED <<browser, server, tab, answers, spent>>
  \/ \E t \in Tab : \/ Scan(t) \/ Join(t) \/ JoinNext(t) \/ JoinDies(t)
                    \/ TakeSelfie(t) \/ SelfieRoute(t) \/ SelfieDies(t)
                    \/ \E n \in Selfie : Tick(t, n)
  \/ \E i \in 1..MaxAnswers : Hear(i) \/ LoseAnswer(i)
  \/ \E u \in User : Verdict(u)
  \/ \E u \in {Nobody, Account} : Switch(u)

Spec == Init /\ [][Next]_vars

(* A request is answered, an interval fires, a queued selfie is worked on.  *)
(* An interval fires however many answers are on their way: strong fairness *)
(* makes up for MaxAnswers.                                                 *)
Fairness ==
  /\ \A t \in Tab : WF_vars(JoinNext(t)) /\ WF_vars(SelfieRoute(t))
  /\ \A t \in Tab, n \in Selfie : SF_vars(Tick(t, n))
  /\ \A i \in 1..MaxAnswers : WF_vars(Hear(i))
  /\ \A u \in User : WF_vars(Verdict(u))

FairSpec == Spec /\ Fairness

--------------------------------------------------------------------------------
TypeOK ==
  /\ StudioTypeOK
  /\ cookie \in User \cup {Nobody} /\ guests \in 0..MaxGuests /\ mixed \in BOOLEAN
  /\ joined \subseteq User
  /\ consents \in [User -> Nat] /\ jobs \in [User -> 0..MaxSelfies]
  /\ enroll \in [User -> {"none", "processing", "ready", "failed"}]
  /\ tab \in [Tab -> [pc: {"idle", "signin", "signing", "post", "sent", "found",
                           "upload", "retaking", "hung"},
                      screen: {"closed", "consent", "selfie", "processing", "failed",
                               "gallery"},
                      as: User \cup {Nobody}, known: BOOLEAN, me: User \cup {Nobody},
                      retake: 0..MaxSelfies, timers: SUBSET Selfie]]
  /\ answers \in [1..MaxAnswers -> {NoAnswer} \cup
                    [tab: Tab, timer: Selfie,
                     said: {"ready", "failed"}]]
  /\ selfies \in 0..MaxSelfies /\ mishaps \in 0..MaxMishaps

(* "The consent row is written in the same transaction as the participation"*)
(* (participants.ts:27-28): a selfie is only taken, and turned into a face  *)
(* signature, of somebody with exactly one consent; however many tabs join  *)
(* at once and fail half way, no consent is left without its participation. *)
ConsentWithParticipation ==
  /\ \A u \in User : consents[u] = IF u \in joined THEN 1 ELSE 0
  /\ \A u \in User : jobs[u] > 0 => consents[u] = 1

(* "Joining twice returns the existing participation" (participants.ts:29): *)
(* a join of a user who had joined when it was sent is only refused by a    *)
(* fault or a deletion, and one that loses against another tab leaves the   *)
(* user with the participation that tab has made.                           *)
JoiningAgainWorks ==
  [][\A t \in Tab : tab[t].pc \in {"sent", "found"} /\ tab'[t].pc = "idle"
                      /\ tab'[t].screen = "consent"
       => \/ deleted \/ mishaps' # mishaps
          \/ tab[t].as \in joined /\ ~tab[t].known]_vars

(* One visitor, one gallery: a browser has joined as two people only if its *)
(* session was replaced, or two tabs began their anonymous sessions together*)
(* (JoinFlow.tsx:36-39).                                                    *)
OnePersonPerBrowser == Cardinality(joined) > 1 => mixed

(* A busy button or a running timer, and what may keep it so.               *)
Waiting(t) == tab[t].pc # "idle" \/ tab[t].timers # {}
Excused(t) ==
  LET me == tab[t].me
  IN  \/ deleted \/ tab[t].pc = "hung"
      \/ me \in User /\ (cookie # me \/ (enroll[me] = "processing" /\ jobs[me] = 0))

(* No page waits for ever, with a busy button or a running timer: unless the*)
(* event was deleted, the session is not the one that joined, the fetch of  *)
(* an upload was rejected, or an upload died between the mark and the job.  *)
NobodyWaitsForEver == \A t \in Tab : Waiting(t) ~> ~Waiting(t) \/ Excused(t)
==============================================================================
