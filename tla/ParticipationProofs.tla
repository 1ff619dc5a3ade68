-------------------------- MODULE ParticipationProofs --------------------------
(***************************************************************************)
(* What Participation promises of consents, of joining again and of one    *)
(* gallery per browser, for every number of tabs, of anonymous users, of   *)
(* selfies, answers and mishaps, and whatever the organiser's pages do     *)
(* meanwhile.                                                              *)
(***************************************************************************)
EXTENDS Participation, StudioProofs

(* As much of the types as the arguments below need.                       *)
TabState ==
  [pc: {"idle", "signin", "signing", "post", "sent", "found", "upload", "retaking", "hung"},
   screen: {"closed", "consent", "selfie", "processing", "failed", "gallery"},
   as: User \cup {Nobody}, known: BOOLEAN, me: User \cup {Nobody},
   retake: 0..MaxSelfies, timers: SUBSET Selfie]

Answer == [tab: Tab, timer: Selfie, said: {"ready", "failed"}]

Types ==
  /\ cookie \in User \cup {Nobody} /\ guests \in 0..MaxGuests /\ mixed \in BOOLEAN
  /\ joined \subseteq User
  /\ consents \in [User -> Nat] /\ jobs \in [User -> Nat]
  /\ tab \in [Tab -> TabState]
  /\ answers \in [1..MaxAnswers -> {NoAnswer} \cup Answer]

(* A join is under way for a user; one that knew of a participation when it *)
(* was sent would have been told of it before it inserts another; nobody    *)
(* retakes a selfie before there was a first.                               *)
TabSound(t) ==
  /\ tab[t].pc \in {"sent", "found"} => tab[t].as \in User
  /\ tab[t].pc \in {"sent", "found"} /\ tab[t].known => tab[t].as \in joined
  /\ tab[t].pc = "found" => ~tab[t].known
  /\ tab[t].screen \in {"closed", "consent"} => tab[t].retake = 0

(* As long as no session was replaced and no two were begun together, there *)
(* is the browser's one user, in every request and among the participants.  *)
OneUser ==
  /\ cookie # Account
  /\ joined \subseteq {cookie} \ {Nobody}
  /\ \A t \in Tab : /\ tab[t].pc \in {"sent", "found"} => tab[t].as = cookie
                    /\ tab[t].pc = "signing"
                         => cookie = Nobody /\ \A s \in Tab \ {t} : tab[s].pc # "signing"

IInv ==
  /\ Types
  /\ \A t \in Tab : TabSound(t)
  /\ \A u \in User : /\ consents[u] = IF u \in joined THEN 1 ELSE 0
                     /\ jobs[u] > 0 => u \in joined
  /\ ~mixed => OneUser

LEMMA InitInv == Init => IInv
<1> SUFFICES ASSUME Init PROVE IInv
  OBVIOUS
<1>1. Closed \in TabState
  BY BoundAssumption DEF Closed, TabState
<1>2. tab \in [Tab -> TabState] /\ \A t \in Tab : tab[t] = Closed
  BY <1>1 DEF Init
<1>3. /\ cookie \in User \cup {Nobody} /\ guests \in 0..MaxGuests /\ mixed \in BOOLEAN
      /\ joined \subseteq User
      /\ consents \in [User -> Nat] /\ jobs \in [User -> Nat]
      /\ answers \in [1..MaxAnswers -> {NoAnswer} \cup Answer]
  <2>1. guests \in 0..MaxGuests
    BY BoundAssumption DEF Init
  <2>2. consents \in [User -> Nat] /\ jobs \in [User -> Nat]
    BY DEF Init
  <2>3. answers \in [1..MaxAnswers -> {NoAnswer} \cup Answer]
    BY DEF Init
  <2> QED BY <2>1, <2>2, <2>3 DEF Init
<1>4. \A t \in Tab : TabSound(t)
  BY <1>2 DEF TabSound, Closed
<1>5. \A u \in User : /\ consents[u] = IF u \in joined THEN 1 ELSE 0
                      /\ jobs[u] > 0 => u \in joined
  BY DEF Init
<1>6. OneUser
  BY <1>2, UserAssumption DEF Init, OneUser, Closed, User
<1> QED BY <1>2, <1>3, <1>4, <1>5, <1>6 DEF IInv, Types
--------------------------------------------------------------------------------
(* What the helpers do to a tab. *)

(* A tab of the given form takes the place of an old one.                   *)
LEMMA Replace ==
  ASSUME tab \in [Tab -> TabState], NEW t \in Tab, NEW new \in TabState,
         tab' = [tab EXCEPT ![t] = new]
  PROVE  /\ tab' \in [Tab -> TabState] /\ tab'[t] = new
         /\ \A s \in Tab \ {t} : tab'[s] = tab[s]
  OBVIOUS

LEMMA Ending ==
  ASSUME tab \in [Tab -> TabState], NEW t \in Tab, NEW pc \in {"idle", "hung"}, End(t, pc)
  PROVE  /\ tab' \in [Tab -> TabState]
         /\ \A s \in Tab \ {t} : tab'[s] = tab[s]
         /\ tab'[t].pc = pc /\ ~tab'[t].known
         /\ tab'[t].screen = tab[t].screen /\ tab'[t].retake = tab[t].retake
<1> DEFINE new == [tab[t] EXCEPT !.pc = pc, !.as = Nobody, !.known = FALSE]
<1>1. new \in TabState
  BY DEF TabState
<1>2. tab' = [tab EXCEPT ![t] = new]
  BY DEF End, TabState
<1>3. new.pc = pc /\ ~new.known /\ new.screen = tab[t].screen /\ new.retake = tab[t].retake
  BY DEF TabState
<1> QED BY <1>1, <1>2, <1>3, Replace

LEMMA Welcoming ==
  ASSUME tab \in [Tab -> TabState], NEW t \in Tab, NEW u \in User, Welcome(t, u)
  PROVE  /\ tab' \in [Tab -> TabState]
         /\ \A s \in Tab \ {t} : tab'[s] = tab[s]
         /\ tab'[t].pc = "idle" /\ ~tab'[t].known
         /\ tab'[t].screen \in {"gallery", "selfie"}
<1> DEFINE new == [tab[t] EXCEPT !.pc = "idle", !.as = Nobody, !.known = FALSE, !.me = u,
                     !.screen = IF enroll[u] = "ready" THEN "gallery" ELSE "selfie"]
<1>1. new \in TabState
  BY DEF TabState
<1>2. tab' = [tab EXCEPT ![t] = new]
  BY DEF Welcome, TabState
<1>3. new.pc = "idle" /\ ~new.known /\ new.screen \in {"gallery", "selfie"}
  BY DEF TabState
<1> QED BY <1>1, <1>2, <1>3, Replace

LEMMA Awaiting ==
  ASSUME tab \in [Tab -> TabState], NEW t \in Tab, NEW n \in Selfie, Await(t, n)
  PROVE  /\ tab' \in [Tab -> TabState]
         /\ \A s \in Tab \ {t} : tab'[s] = tab[s]
         /\ tab'[t].pc \in {"idle", "retaking"}
         /\ tab'[t].screen \in {"gallery", "processing"}
<1> DEFINE new == [tab[t] EXCEPT !.timers = @ \cup {n},
                     !.retake = IF tab[t].screen = "gallery" THEN n ELSE @,
                     !.pc = IF tab[t].screen = "gallery" THEN "retaking" ELSE "idle",
                     !.as = Nobody,
                     !.screen = IF @ = "gallery" THEN @ ELSE "processing"]
<1>1. new \in TabState
  <2>1. n \in 0..MaxSelfies
    BY BoundAssumption DEF Selfie
  <2>2. CASE tab[t].screen = "gallery"
    BY <2>1, <2>2, ZenonT(60) DEF TabState
  <2>3. CASE tab[t].screen # "gallery"
    BY <2>3, ZenonT(60) DEF TabState
  <2> QED BY <2>2, <2>3
<1>2. tab' = [tab EXCEPT ![t] = new]
  BY DEF Await, TabState
<1>3. new.pc \in {"idle", "retaking"} /\ new.screen \in {"gallery", "processing"}
  BY DEF TabState
<1> QED BY <1>1, <1>2, <1>3, Replace

(* A verdict moves a page on, and none that is about to join: unless its    *)
(* button waits for it, and then there is no consent to give.               *)
LEMMA Telling ==
  ASSUME tab \in [Tab -> TabState], NEW t \in Tab, NEW n \in Selfie,
         NEW said \in {"ready", "failed"}, TabSound(t)
  PROVE  LET new == Told(t, n, said)
         IN  /\ new \in TabState
             /\ new.screen \notin {"closed", "consent"}
             /\ new.as = tab[t].as /\ new.known = tab[t].known
             /\ new.pc \in {tab[t].pc, "idle"}
<1> DEFINE heard == [tab[t] EXCEPT !.timers = @ \ {n}]
<1>1. heard \in TabState /\ heard.pc = tab[t].pc /\ heard.as = tab[t].as
      /\ heard.known = tab[t].known /\ heard.screen = tab[t].screen
  BY DEF TabState
<1>2. CASE n = tab[t].retake
  <2>1. tab[t].screen \notin {"closed", "consent"}
    BY <1>2, BoundAssumption DEF TabSound, Selfie
  <2>2. Told(t, n, said) = [heard EXCEPT !.pc = "idle", !.retake = 0]
    BY <1>2 DEF Told
  <2>3. 0 \in 0..MaxSelfies
    BY BoundAssumption
  <2> QED BY <1>1, <2>1, <2>2, <2>3 DEF TabState
<1>3. CASE n # tab[t].retake /\ said = "ready"
  <2>1. Told(t, n, said) = [heard EXCEPT !.screen = "gallery"]
    BY <1>3 DEF Told
  <2> QED BY <1>1, <2>1 DEF TabState
<1>4. CASE n # tab[t].retake /\ said = "failed"
  <2>1. Told(t, n, said) = [heard EXCEPT !.screen = IF @ = "gallery" THEN @ ELSE "failed"]
    BY <1>4 DEF Told
  <2> QED BY <1>1, <2>1 DEF TabState
<1> QED BY <1>2, <1>3, <1>4
--------------------------------------------------------------------------------
(* A step that moves one tab and leaves the session and the participants.   *)
LEMMA TabMoves ==
  ASSUME IInv, NEW t \in Tab, UNCHANGED <<browser, joined, consents>>,
         tab' \in [Tab -> TabState], \A s \in Tab \ {t} : tab'[s] = tab[s],
         answers' \in [1..MaxAnswers -> {NoAnswer} \cup Answer],
         jobs' \in [User -> Nat], \A u \in User : jobs'[u] > 0 => u \in joined,
         TabSound(t)', tab'[t].pc = "signing" => tab[t].pc = "signing",
         ~mixed /\ tab'[t].pc \in {"sent", "found"} => tab'[t].as = cookie
  PROVE  IInv'
<1>1. Types'
  BY DEF IInv, Types, browser
<1>2. \A s \in Tab : TabSound(s)'
  BY DEF IInv, TabSound
<1>3. (~mixed => OneUser)'
  BY DEF IInv, OneUser, browser
<1> QED BY <1>1, <1>2, <1>3 DEF IInv

(* What of the invariant concerns a single tab.                             *)
LEMMA ScanInv ==
  ASSUME IInv, NEW t \in Tab, Scan(t)
  PROVE  IInv'
<1> DEFINE new == [tab[t] EXCEPT !.screen = "consent"]
<1>1. new \in TabState
  <2>1. tab[t] \in TabState
    BY DEF IInv, Types
  <2> QED BY <2>1 DEF TabState
<1>2. tab' = [tab EXCEPT ![t] = new]
  BY DEF IInv, Types, Scan, TabState
<1>3. /\ tab' \in [Tab -> TabState] /\ tab'[t] = new /\ \A s \in Tab \ {t} : tab'[s] = tab[s]
  BY <1>1, <1>2, Replace DEF IInv, Types
<1>4. /\ new.pc = tab[t].pc /\ new.as = tab[t].as /\ new.known = tab[t].known
      /\ new.retake = tab[t].retake
  BY DEF IInv, Types, TabState
<1>5. TabSound(t)'
  BY <1>3, <1>4 DEF IInv, TabSound, Scan, server
<1>6. /\ UNCHANGED <<browser, joined, consents>>
      /\ answers' \in [1..MaxAnswers -> {NoAnswer} \cup Answer]
      /\ jobs' \in [User -> Nat] /\ \A u \in User : jobs'[u] > 0 => u \in joined
  BY DEF IInv, Types, Scan, server
<1>7. /\ tab'[t].pc = tab[t].pc
      /\ ~mixed /\ tab'[t].pc \in {"sent", "found"} => tab'[t].as = cookie
  BY <1>3, <1>4 DEF IInv, OneUser
<1> QED BY <1>3, <1>5, <1>6, <1>7, TabMoves

(* A button goes on to its next statement.                                  *)
LEMMA Stepping ==
  ASSUME tab \in [Tab -> TabState], NEW t \in Tab,
         NEW pc \in {"idle", "signin", "signing", "post", "found"},
         tab' = [tab EXCEPT ![t].pc = pc]
  PROVE  /\ tab' \in [Tab -> TabState]
         /\ \A s \in Tab \ {t} : tab'[s] = tab[s]
         /\ tab'[t].pc = pc /\ tab'[t].as = tab[t].as /\ tab'[t].known = tab[t].known
         /\ tab'[t].retake = tab[t].retake /\ tab'[t].screen = tab[t].screen
  BY DEF TabState

LEMMA JoinInv ==
  ASSUME IInv, NEW t \in Tab, Join(t)
  PROVE  IInv'
<1>1. PICK pc \in {"signin", "post"} : tab' = [tab EXCEPT ![t].pc = pc]
  BY DEF Join
<1>2. /\ tab' \in [Tab -> TabState] /\ \A s \in Tab \ {t} : tab'[s] = tab[s]
      /\ tab'[t].pc = pc /\ tab'[t].retake = tab[t].retake /\ tab'[t].screen = tab[t].screen
  BY <1>1, Stepping DEF IInv, Types
<1>3. TabSound(t)'
  BY <1>2 DEF IInv, TabSound
<1>4. /\ UNCHANGED <<browser, joined, consents>>
      /\ answers' \in [1..MaxAnswers -> {NoAnswer} \cup Answer]
      /\ jobs' \in [User -> Nat] /\ \A u \in User : jobs'[u] > 0 => u \in joined
  BY DEF IInv, Types, Join, server
<1> QED BY <1>2, <1>3, <1>4, TabMoves

LEMMA SignInInv ==
  ASSUME IInv, NEW t \in Tab, SignIn(t)
  PROVE  IInv'
<1>1. PICK pc \in {"idle", "signing"} :
        tab' = [tab EXCEPT ![t].pc = pc] /\ (pc = "signing" => cookie \notin Guest)
  BY DEF SignIn
<1>2. /\ tab' \in [Tab -> TabState] /\ \A s \in Tab \ {t} : tab'[s] = tab[s]
      /\ tab'[t].pc = pc /\ tab'[t].retake = tab[t].retake /\ tab'[t].screen = tab[t].screen
  BY <1>1, Stepping DEF IInv, Types
<1>3. \A s \in Tab : TabSound(s)'
  BY <1>2 DEF IInv, TabSound, SignIn, server
<1>4. Types'
  BY <1>2 DEF IInv, Types, SignIn, server
<1>5. ASSUME ~mixed'
      PROVE  OneUser'
  <2>1. ~mixed /\ \A s \in Tab : tab[s].pc # "signing"
    BY <1>5 DEF IInv, Types, SignIn
  <2>2. OneUser /\ cookie \in Guest \cup {Nobody}
    BY <2>1 DEF IInv, Types, OneUser, User
  <2> QED BY <1>1, <1>2, <2>1, <2>2 DEF OneUser, SignIn, server
<1> QED BY <1>3, <1>4, <1>5 DEF IInv, SignIn, server

LEMMA SignedInInv ==
  ASSUME IInv, NEW t \in Tab, SignedIn(t)
  PROVE  IInv'
<1>1. /\ tab' \in [Tab -> TabState] /\ \A s \in Tab \ {t} : tab'[s] = tab[s]
      /\ tab'[t].pc = "post" /\ tab'[t].retake = tab[t].retake
      /\ tab'[t].screen = tab[t].screen
  BY Stepping DEF IInv, Types, SignedIn
<1>2. \A s \in Tab : TabSound(s)'
  BY <1>1 DEF IInv, TabSound, SignedIn, server
<1>3. cookie' \in Guest /\ guests' \in 0..MaxGuests
  BY BoundAssumption DEF IInv, Types, SignedIn, Guest
<1>4. Types'
  BY <1>1, <1>3 DEF IInv, Types, SignedIn, server, User
<1>5. ASSUME ~mixed'
      PROVE  OneUser'
  <2>1. OneUser /\ cookie = Nobody /\ \A s \in Tab \ {t} : tab[s].pc # "signing"
    BY <1>5 DEF IInv, OneUser, SignedIn
  <2>2. joined = {} /\ \A s \in Tab : tab[s].pc \notin {"sent", "found"}
    BY <2>1, UserAssumption DEF IInv, OneUser, TabSound
  <2> QED BY <1>1, <1>3, <2>1, <2>2, UserAssumption DEF OneUser, SignedIn, server
<1> QED BY <1>2, <1>4, <1>5 DEF IInv, SignedIn, server

LEMMA PostInv ==
  ASSUME IInv, NEW t \in Tab, Post(t)
  PROVE  IInv'
<1>1. CASE cookie = Nobody
  <2>1. End(t, "idle")
    BY <1>1 DEF Post, Refuse
  <2>2. TabSound(t)'
    BY <2>1, Ending DEF IInv, Types, TabSound
  <2>3. /\ UNCHANGED <<browser, joined, consents>>
        /\ answers' \in [1..MaxAnswers -> {NoAnswer} \cup Answer]
        /\ jobs' \in [User -> Nat] /\ \A u \in User : jobs'[u] > 0 => u \in joined
    BY DEF IInv, Types, Post, server
  <2>4. /\ tab' \in [Tab -> TabState] /\ \A s \in Tab \ {t} : tab'[s] = tab[s]
        /\ tab'[t].pc = "idle"
    BY <2>1, Ending DEF IInv, Types
  <2> QED BY <2>2, <2>3, <2>4, TabMoves
<1>2. CASE cookie # Nobody
  <2>1. PICK known \in BOOLEAN :
          /\ known => cookie \in joined
          /\ tab' = [tab EXCEPT ![t].pc = "sent", ![t].as = cookie, ![t].known = known]
    <3>1. tab' = [tab EXCEPT ![t].pc = "sent", ![t].as = cookie, ![t].known = (cookie \in joined)]
      BY <1>2 DEF Post
    <3>2. CASE cookie \in joined
      <4>1. (cookie \in joined) = TRUE
        BY <3>2
      <4> QED BY <3>1, <4>1, <3>2
    <3>3. CASE cookie \notin joined
      <4>1. (cookie \in joined) = FALSE
        BY <3>3
      <4> QED BY <3>1, <4>1
    <3> QED BY <3>2, <3>3
  <2> DEFINE new == [tab[t] EXCEPT !.pc = "sent", !.as = cookie, !.known = known]
  <2>2. new \in TabState
    <3>1. tab[t] \in TabState /\ cookie \in User \cup {Nobody}
      BY DEF IInv, Types
    <3>2. CASE known = TRUE
      BY <3>1, <3>2 DEF TabState
    <3>3. CASE known = FALSE
      BY <3>1, <3>3 DEF TabState
    <3> QED BY <3>2, <3>3
  <2>3. tab' = [tab EXCEPT ![t] = new]
    BY <2>1 DEF IInv, Types, TabState
  <2>4. /\ tab' \in [Tab -> TabState] /\ tab'[t] = new /\ \A s \in Tab \ {t} : tab'[s] = tab[s]
    BY <2>2, <2>3, Replace DEF IInv, Types
  <2>5. /\ new.pc = "sent" /\ new.as = cookie /\ new.known = known
        /\ new.retake = tab[t].retake /\ new.screen = tab[t].screen
    BY DEF IInv, Types, TabState
  <2>6. TabSound(t)'
    BY <1>2, <2>1, <2>4, <2>5 DEF IInv, Types, TabSound, Post, server
  <2>7. /\ UNCHANGED <<browser, joined, consents>>
        /\ answers' \in [1..MaxAnswers -> {NoAnswer} \cup Answer]
        /\ jobs' \in [User -> Nat] /\ \A u \in User : jobs'[u] > 0 => u \in joined
    BY DEF IInv, Types, Post, server
  <2> QED BY <2>4, <2>5, <2>6, <2>7, TabMoves
<1> QED BY <1>1, <1>2
LEMMA FindInv ==
  ASSUME IInv, NEW t \in Tab, Find(t)
  PROVE  IInv'
<1>1. /\ UNCHANGED <<browser, joined, consents>>
      /\ answers' \in [1..MaxAnswers -> {NoAnswer} \cup Answer]
      /\ jobs' \in [User -> Nat] /\ \A u \in User : jobs'[u] > 0 => u \in joined
      /\ tab[t].pc = "sent" /\ tab[t].as \in User /\ tab \in [Tab -> TabState]
  BY DEF IInv, Types, Find, server, TabSound
<1>2. CASE End(t, "idle")
  <2>1. TabSound(t)'
    BY <1>1, <1>2, Ending DEF IInv, TabSound
  <2> QED BY <1>1, <1>2, <2>1, Ending, TabMoves
<1>3. CASE Welcome(t, tab[t].as)
  <2>1. TabSound(t)'
    BY <1>1, <1>3, Welcoming DEF TabSound
  <2> QED BY <1>1, <1>3, <2>1, Welcoming, TabMoves
<1>4. CASE tab[t].as \notin joined /\ tab' = [tab EXCEPT ![t].pc = "found"]
  <2>1. /\ tab' \in [Tab -> TabState] /\ \A s \in Tab \ {t} : tab'[s] = tab[s]
        /\ tab'[t].pc = "found" /\ tab'[t].as = tab[t].as /\ tab'[t].known = tab[t].known
        /\ tab'[t].retake = tab[t].retake /\ tab'[t].screen = tab[t].screen
    BY <1>1, <1>4, Stepping
  <2>2. ~tab[t].known
    BY <1>1, <1>4 DEF IInv, TabSound
  <2>3. TabSound(t)'
    BY <1>1, <2>1, <2>2 DEF IInv, TabSound
  <2>4. ~mixed => tab'[t].as = cookie
    BY <1>1, <2>1 DEF IInv, OneUser
  <2> QED BY <1>1, <2>1, <2>3, <2>4, TabMoves
<1> QED BY <1>2, <1>3, <1>4 DEF Find, Refuse

(* The transaction takes effect: the one step that makes a participant.     *)
LEMMA Joining ==
  ASSUME IInv, NEW t \in Tab, tab[t].pc = "found", tab[t].as \notin joined,
         joined' = joined \cup {tab[t].as},
         consents' = [consents EXCEPT ![tab[t].as] = @ + 1],
         UNCHANGED <<browser, jobs, answers>>,
         tab' \in [Tab -> TabState], \A s \in Tab \ {t} : tab'[s] = tab[s],
         tab'[t].pc = "idle", TabSound(t)'
  PROVE  IInv'
<1>1. tab[t].as \in User
  BY DEF IInv, TabSound
<1>2. Types'
  BY <1>1 DEF IInv, Types, browser
<1>3. \A s \in Tab : TabSound(s)'
  BY DEF IInv, TabSound
<1>4. \A u \in User : /\ consents'[u] = IF u \in joined' THEN 1 ELSE 0
                      /\ jobs'[u] > 0 => u \in joined'
  BY <1>1 DEF IInv, Types
<1>5. (~mixed => OneUser)'
  BY <1>1, UserAssumption DEF IInv, OneUser, browser
<1> QED BY <1>2, <1>3, <1>4, <1>5 DEF IInv

LEMMA InsertInv ==
  ASSUME IInv, NEW t \in Tab, Insert(t)
  PROVE  IInv'
<1>1. /\ UNCHANGED <<browser, jobs, answers>>
      /\ answers' \in [1..MaxAnswers -> {NoAnswer} \cup Answer]
      /\ jobs' \in [User -> Nat] /\ \A u \in User : jobs'[u] > 0 => u \in joined
      /\ tab[t].pc = "found" /\ tab[t].as \in User /\ tab \in [Tab -> TabState]
  BY DEF IInv, Types, Insert, TabSound
<1>2. CASE End(t, "idle") /\ UNCHANGED <<joined, consents>>
  <2>1. TabSound(t)'
    BY <1>1, <1>2, Ending DEF IInv, TabSound
  <2> QED BY <1>1, <1>2, <2>1, Ending, TabMoves
<1>3. CASE /\ tab[t].as \notin joined /\ Welcome(t, tab[t].as)
           /\ joined' = joined \cup {tab[t].as}
           /\ consents' = [consents EXCEPT ![tab[t].as] = @ + 1]
  <2>1. TabSound(t)'
    BY <1>1, <1>3, Welcoming DEF TabSound
  <2> QED BY <1>1, <1>3, <2>1, Welcoming, Joining
<1> QED BY <1>2, <1>3 DEF Insert, Refuse

LEMMA JoinDiesInv ==
  ASSUME IInv, NEW t \in Tab, JoinDies(t)
  PROVE  IInv'
<1>1. /\ UNCHANGED <<browser, jobs, answers>>
      /\ answers' \in [1..MaxAnswers -> {NoAnswer} \cup Answer]
      /\ jobs' \in [User -> Nat] /\ \A u \in User : jobs'[u] > 0 => u \in joined
      /\ End(t, "idle") /\ tab \in [Tab -> TabState]
  BY DEF IInv, Types, JoinDies, Refuse
<1>2. TabSound(t)'
  BY <1>1, Ending DEF IInv, TabSound
<1>3. CASE UNCHANGED <<joined, consents>>
  BY <1>1, <1>2, <1>3, Ending, TabMoves
<1>4. CASE /\ tab[t].pc = "found" /\ tab[t].as \notin joined
           /\ joined' = joined \cup {tab[t].as}
           /\ consents' = [consents EXCEPT ![tab[t].as] = @ + 1]
  BY <1>1, <1>2, <1>4, Ending, Joining
<1> QED BY <1>3, <1>4 DEF JoinDies

--------------------------------------------------------------------------------
(* Selfies and their verdicts. *)

LEMMA TakeSelfieInv ==
  ASSUME IInv, NEW t \in Tab, TakeSelfie(t)
  PROVE  IInv'
<1> DEFINE new == [tab[t] EXCEPT !.pc = "upload", !.as = cookie]
<1>1. new \in TabState
  <2>1. tab[t] \in TabState /\ cookie \in User \cup {Nobody}
    BY DEF IInv, Types
  <2> QED BY <2>1 DEF TabState
<1>2. tab' = [tab EXCEPT ![t] = new]
  BY DEF IInv, Types, TakeSelfie, TabState
<1>3. /\ tab' \in [Tab -> TabState] /\ tab'[t] = new /\ \A s \in Tab \ {t} : tab'[s] = tab[s]
  BY <1>1, <1>2, Replace DEF IInv, Types
<1>4. new.pc = "upload" /\ new.retake = tab[t].retake /\ new.screen = tab[t].screen
  BY DEF IInv, Types, TabState
<1>5. TabSound(t)'
  BY <1>3, <1>4 DEF IInv, TabSound
<1>6. /\ UNCHANGED <<browser, joined, consents>>
      /\ answers' \in [1..MaxAnswers -> {NoAnswer} \cup Answer]
      /\ jobs' \in [User -> Nat] /\ \A u \in User : jobs'[u] > 0 => u \in joined
  BY DEF IInv, Types, TakeSelfie, server
<1>7. tab'[t].pc \notin {"sent", "found", "signing"}
  BY <1>3, <1>4
<1> QED BY <1>3, <1>5, <1>6, <1>7, TabMoves

LEMMA SelfieRouteInv ==
  ASSUME IInv, NEW t \in Tab, SelfieRoute(t)
  PROVE  IInv'
<1>1. /\ UNCHANGED <<browser, joined, consents>>
      /\ answers' \in [1..MaxAnswers -> {NoAnswer} \cup Answer]
      /\ tab[t].pc = "upload" /\ tab \in [Tab -> TabState]
  BY DEF IInv, Types, SelfieRoute
<1>2. CASE End(t, "idle") /\ UNCHANGED <<enroll, jobs>>
  <2>1. TabSound(t)'
    BY <1>1, <1>2, Ending DEF IInv, TabSound
  <2>2. jobs' \in [User -> Nat] /\ \A u \in User : jobs'[u] > 0 => u \in joined
    BY <1>2 DEF IInv, Types
  <2> QED BY <1>1, <1>2, <2>1, <2>2, Ending, TabMoves
<1>3. CASE /\ Owned(tab[t].as, tab[t].me)
           /\ jobs' = [jobs EXCEPT ![tab[t].me] = @ + 1]
           /\ \E n \in Selfie : Fresh(n) /\ Await(t, n)
  <2>1. PICK n \in Selfie : Await(t, n)
    BY <1>3
  <2>2. TabSound(t)'
    BY <1>1, <2>1, Awaiting DEF TabSound
  <2>3. jobs' \in [User -> Nat] /\ \A u \in User : jobs'[u] > 0 => u \in joined
    BY <1>3 DEF IInv, Types, Owned
  <2> QED BY <1>1, <2>1, <2>2, <2>3, Awaiting, TabMoves
<1> QED BY <1>2, <1>3 DEF SelfieRoute, Refuse

LEMMA SelfieDiesInv ==
  ASSUME IInv, NEW t \in Tab, SelfieDies(t)
  PROVE  IInv'
<1>1. /\ UNCHANGED <<browser, joined, consents>>
      /\ answers' \in [1..MaxAnswers -> {NoAnswer} \cup Answer]
      /\ tab[t].pc = "upload" /\ tab \in [Tab -> TabState]
  BY DEF IInv, Types, SelfieDies
<1>2. PICK pc \in {"idle", "hung"} : End(t, pc)
  BY DEF SelfieDies
<1>3. TabSound(t)'
  BY <1>1, <1>2, Ending DEF IInv, TabSound
<1>4. jobs' \in [User -> Nat] /\ \A u \in User : jobs'[u] > 0 => u \in joined
  <2>1. CASE jobs' = jobs
    BY <2>1 DEF IInv, Types
  <2>2. CASE jobs' = [jobs EXCEPT ![tab[t].me] = @ + 1] /\ tab[t].me \in joined
    BY <2>2 DEF IInv, Types
  <2> QED BY <2>1, <2>2 DEF SelfieDies, Owned
<1> QED BY <1>1, <1>2, <1>3, <1>4, Ending, TabMoves

LEMMA TickInv ==
  ASSUME IInv, NEW t \in Tab, NEW n \in Selfie, Tick(t, n)
  PROVE  IInv'
<1>1. answers' \in [1..MaxAnswers -> {NoAnswer} \cup Answer]
  <2>1. PICK v \in {"ready", "failed"}, i \in 1..MaxAnswers :
          answers' = [answers EXCEPT ![i] = [tab |-> t, timer |-> n, said |-> v]]
    BY DEF Tick, Enrollment
  <2>2. [tab |-> t, timer |-> n, said |-> v] \in Answer
    BY DEF Answer
  <2> QED BY <2>1, <2>2 DEF IInv, Types
<1>2. UNCHANGED <<browser, server, tab>>
  BY DEF Tick
<1>3. Types'
  BY <1>1, <1>2 DEF IInv, Types, browser, server
<1>4. (\A s \in Tab : TabSound(s))' /\ (~mixed => OneUser)'
  BY <1>2 DEF IInv, TabSound, OneUser, browser, server
<1> QED BY <1>2, <1>3, <1>4 DEF IInv, server

LEMMA HearInv ==
  ASSUME IInv, NEW i \in 1..MaxAnswers, Hear(i)
  PROVE  IInv'
<1>1. PICK t \in Tab, n \in Selfie, said \in {"ready", "failed"} :
        answers[i] = [tab |-> t, timer |-> n, said |-> said]
  BY DEF IInv, Types, Hear, Answer
<1>2. tab' = [tab EXCEPT ![t] = Told(t, n, said)]
  BY <1>1 DEF Hear
<1>3. /\ tab' \in [Tab -> TabState] /\ \A s \in Tab \ {t} : tab'[s] = tab[s]
      /\ tab'[t].screen \notin {"closed", "consent"}
      /\ tab'[t].as = tab[t].as /\ tab'[t].known = tab[t].known
      /\ tab'[t].pc \in {tab[t].pc, "idle"}
  <2>1. /\ Told(t, n, said) \in TabState
        /\ Told(t, n, said).screen \notin {"closed", "consent"}
        /\ Told(t, n, said).as = tab[t].as /\ Told(t, n, said).known = tab[t].known
        /\ Told(t, n, said).pc \in {tab[t].pc, "idle"}
    BY Telling DEF IInv, Types
  <2> QED BY <1>2, <2>1, Replace DEF IInv, Types
<1>4. /\ UNCHANGED <<browser, joined, consents>>
      /\ answers' \in [1..MaxAnswers -> {NoAnswer} \cup Answer]
      /\ jobs' \in [User -> Nat] /\ \A u \in User : jobs'[u] > 0 => u \in joined
  BY DEF IInv, Types, Hear, server
<1>5. TabSound(t)'
  BY <1>3, <1>4 DEF IInv, TabSound
<1>6. ~mixed /\ tab'[t].pc \in {"sent", "found"} => tab'[t].as = cookie
  BY <1>3 DEF IInv, OneUser
<1> QED BY <1>3, <1>4, <1>5, <1>6, TabMoves

LEMMA LoseAnswerInv ==
  ASSUME IInv, NEW i \in 1..MaxAnswers, LoseAnswer(i)
  PROVE  IInv'
<1>1. Types'
  BY DEF IInv, Types, LoseAnswer, browser, server
<1>2. (\A s \in Tab : TabSound(s))' /\ (~mixed => OneUser)'
  BY DEF IInv, TabSound, OneUser, LoseAnswer, browser, server
<1> QED BY <1>1, <1>2 DEF IInv, LoseAnswer, server

LEMMA VerdictInv ==
  ASSUME IInv, NEW u \in User, Verdict(u)
  PROVE  IInv'
<1>1. jobs' \in [User -> Nat] /\ \A v \in User : jobs'[v] > 0 => v \in joined
  <2>1. CASE jobs' = jobs
    BY <2>1 DEF IInv, Types
  <2>2. CASE jobs' = [jobs EXCEPT ![u] = @ - 1] /\ jobs[u] > 0
    BY <2>2 DEF IInv, Types
  <2> QED BY <2>1, <2>2 DEF Verdict
<1>2. Types'
  BY <1>1 DEF IInv, Types, Verdict, browser
<1>3. (\A s \in Tab : TabSound(s))' /\ (~mixed => OneUser)'
  BY DEF IInv, TabSound, OneUser, Verdict, browser
<1> QED BY <1>1, <1>2, <1>3 DEF IInv, Verdict

LEMMA SwitchInv ==
  ASSUME IInv, NEW u \in {Nobody, Account}, Switch(u)
  PROVE  IInv'
<1>1. Types'
  BY DEF IInv, Types, Switch, server, User
<1>2. (\A s \in Tab : TabSound(s))' /\ mixed'
  BY DEF IInv, TabSound, Switch, server
<1> QED BY <1>1, <1>2 DEF IInv, Switch, server

(* Neither the organiser's pages nor a stutter touch any of it.             *)
LEMMA ElsewhereInv ==
  ASSUME IInv, UNCHANGED <<browser, server, tab, answers>>
  PROVE  IInv'
<1>1. Types'
  BY DEF IInv, Types, browser, server
<1>2. (\A s \in Tab : TabSound(s))' /\ (~mixed => OneUser)'
  BY DEF IInv, TabSound, OneUser, browser, server
<1> QED BY <1>1, <1>2 DEF IInv, server
--------------------------------------------------------------------------------
LEMMA Inductive == IInv /\ [Next]_vars => IInv'
<1> SUFFICES ASSUME IInv, [Next]_vars PROVE IInv'
  OBVIOUS
<1>1. CASE StudioNext /\ UNCHANGED <<browser, server, tab, answers, spent>>
  BY <1>1, ElsewhereInv
<1>2. ASSUME NEW t \in Tab,
             \/ Scan(t) \/ Join(t) \/ JoinNext(t) \/ JoinDies(t)
             \/ TakeSelfie(t) \/ SelfieRoute(t) \/ SelfieDies(t)
      PROVE  IInv'
  BY <1>2, ScanInv, JoinInv, SignInInv, SignedInInv, PostInv, FindInv, InsertInv, JoinDiesInv,
     TakeSelfieInv, SelfieRouteInv, SelfieDiesInv
     DEF JoinNext
<1>3. ASSUME NEW t \in Tab, NEW n \in Selfie, Tick(t, n)
      PROVE  IInv'
  BY <1>3, TickInv
<1>4. ASSUME NEW i \in 1..MaxAnswers, Hear(i) \/ LoseAnswer(i)
      PROVE  IInv'
  BY <1>4, HearInv, LoseAnswerInv
<1>5. ASSUME NEW u \in User, Verdict(u)
      PROVE  IInv'
  BY <1>5, VerdictInv
<1>6. ASSUME NEW u \in {Nobody, Account}, Switch(u)
      PROVE  IInv'
  BY <1>6, SwitchInv
<1>7. CASE UNCHANGED vars
  BY <1>7, ElsewhereInv DEF vars
<1> QED BY <1>1, <1>2, <1>3, <1>4, <1>5, <1>6, <1>7 DEF Next

LEMMA Invariant == Spec => []IInv
  BY InitInv, Inductive, PTL DEF Spec

(* "The consent row is written in the same transaction as the participation"*)
(* (participants.ts:27-28): nobody's face is worked on without exactly one  *)
(* consent, for any number of tabs that join at once and fail half way.     *)
THEOREM ConsentIsGiven == Spec => []ConsentWithParticipation
<1>1. IInv => ConsentWithParticipation
  BY DEF IInv, ConsentWithParticipation
<1> QED BY <1>1, Invariant, PTL

(* One visitor, one gallery, for any number of tabs: only a session that was*)
(* replaced, or two that were begun together, make a second participant of  *)
(* the same browser (JoinFlow.tsx:36-39).                                   *)
THEOREM OneGalleryPerBrowser == Spec => []OnePersonPerBrowser
<1>1. ASSUME IInv, ~mixed
      PROVE  ~(Cardinality(joined) > 1)
  <2>1. joined = {} \/ joined = {cookie}
    BY <1>1 DEF IInv, OneUser
  <2>2. Cardinality({}) = 0 /\ Cardinality({cookie}) = 1
    BY FS_EmptySet, FS_Singleton
  <2> QED BY <2>1, <2>2
<1>2. IInv => OnePersonPerBrowser
  BY <1>1 DEF OnePersonPerBrowser
<1> QED BY <1>2, Invariant, PTL

(* The mishaps are counted.                                                 *)
LEMMA Counted == Spec => [](mishaps \in Nat)
<1>1. Init => mishaps \in Nat
  BY DEF Init
<1>2. mishaps \in Nat /\ [Next]_vars => (mishaps \in Nat)'
  <2> SUFFICES ASSUME mishaps \in Nat, [Next]_vars PROVE mishaps' \in {mishaps, mishaps + 1}
    OBVIOUS
  <2> USE DEF spent
  <2>1. ASSUME NEW t \in Tab,
               \/ Scan(t) \/ Join(t) \/ JoinNext(t) \/ JoinDies(t)
               \/ TakeSelfie(t) \/ SelfieRoute(t) \/ SelfieDies(t)
               \/ \E n \in Selfie : Tick(t, n)
        PROVE  mishaps' \in {mishaps, mishaps + 1}
    BY <2>1 DEF Scan, Join, JoinNext, SignIn, SignedIn, Post, Find, Insert, JoinDies, TakeSelfie,
                SelfieRoute, SelfieDies, Tick, Mishap
  <2>2. ASSUME NEW i \in 1..MaxAnswers, Hear(i) \/ LoseAnswer(i)
        PROVE  mishaps' \in {mishaps, mishaps + 1}
    BY <2>2 DEF Hear, LoseAnswer, Mishap
  <2>3. ASSUME NEW u, Verdict(u) \/ Switch(u)
        PROVE  mishaps' \in {mishaps, mishaps + 1}
    BY <2>3 DEF Verdict, Switch, Mishap
  <2> QED BY <2>1, <2>2, <2>3 DEF Next, vars
<1> QED BY <1>1, <1>2, PTL DEF Spec

(* What the join of a tab that knew of its participation may come to.       *)
Welcomed(t) ==
  tab[t].pc \in {"sent", "found"} /\ tab'[t].pc = "idle" /\ tab'[t].screen = "consent"
    => deleted \/ mishaps' # mishaps \/ (tab[t].as \in joined /\ ~tab[t].known)

LEMMA JoinStep ==
  ASSUME IInv, mishaps \in Nat, [Next]_vars, NEW t \in Tab
  PROVE  Welcomed(t)
<1> SUFFICES ASSUME tab[t].pc \in {"sent", "found"}, tab'[t].pc = "idle",
                    tab'[t].screen = "consent"
             PROVE  deleted \/ mishaps' # mishaps \/ (tab[t].as \in joined /\ ~tab[t].known)
  BY DEF Welcomed
<1>1. tab' # tab
  OBVIOUS
<1>2. tab \in [Tab -> TabState]
  BY DEF IInv, Types
<1>3. CASE Find(t)
  <2>1. CASE Welcome(t, tab[t].as)
    BY <1>2, <1>3, <2>1, Welcoming DEF IInv, TabSound, Find
  <2>2. CASE tab' = [tab EXCEPT ![t].pc = "found"]
    BY <1>2, <2>2, Stepping
  <2> QED BY <1>3, <2>1, <2>2 DEF Find
<1>4. CASE Insert(t)
  <2>1. CASE Welcome(t, tab[t].as)
    BY <1>2, <1>4, <2>1, Welcoming DEF IInv, TabSound, Insert
  <2>2. CASE tab[t].as \in joined
    BY <1>4, <2>2 DEF IInv, TabSound, Insert
  <2> QED BY <1>4, <2>1, <2>2 DEF Insert
<1>5. ASSUME NEW s \in Tab, JoinDies(s) \/ SelfieDies(s)
      PROVE  mishaps' # mishaps
  BY <1>5 DEF JoinDies, SelfieDies, Mishap
<1>6. ASSUME NEW i \in 1..MaxAnswers, Hear(i)
      PROVE  FALSE
  <2>1. PICK s \in Tab, n \in Selfie, said \in {"ready", "failed"} :
          tab' = [tab EXCEPT ![s] = Told(s, n, said)]
    BY <1>6 DEF IInv, Types, Hear, Answer
  <2>2. Told(s, n, said) \in TabState /\ Told(s, n, said).screen # "consent"
    BY <1>2, Telling DEF IInv
  <2> QED BY <1>2, <2>1, <2>2, Replace
<1>7. ASSUME NEW s \in Tab, s # t,
             \/ Scan(s) \/ Join(s) \/ JoinNext(s) \/ TakeSelfie(s) \/ SelfieRoute(s)
      PROVE  FALSE
  <2>1. tab'[t] = tab[t]
    BY <1>2, <1>7
       DEF Scan, Join, JoinNext, SignIn, SignedIn, Post, Find, Insert, TakeSelfie, SelfieRoute,
           Await, Welcome, Refuse, End
  <2> QED BY <2>1
<1>8. ~(Join(t) \/ SignIn(t) \/ SignedIn(t) \/ Post(t) \/ TakeSelfie(t) \/ SelfieRoute(t))
  BY DEF Join, SignIn, SignedIn, Post, TakeSelfie, SelfieRoute, ConsentScreen, SelfieScreen,
         GalleryScreen
<1>9. ~Scan(t)
  BY <1>2 DEF Scan, TabState
<1>10. ASSUME \/ StudioNext /\ UNCHANGED <<browser, server, tab, answers, spent>>
              \/ \E s \in Tab, n \in Selfie : Tick(s, n)
              \/ \E i \in 1..MaxAnswers : LoseAnswer(i)
              \/ \E u \in User : Verdict(u)
              \/ \E u \in {Nobody, Account} : Switch(u)
              \/ UNCHANGED vars
       PROVE  FALSE
  BY <1>1, <1>10 DEF Tick, LoseAnswer, Verdict, Switch, vars
<1> QED BY <1>3, <1>4, <1>5, <1>6, <1>7, <1>8, <1>9, <1>10 DEF Next, JoinNext

(* "Joining twice returns the existing participation" (participants.ts:29), *)
(* for any number of tabs: who had joined when the request was sent is only *)
(* refused by a fault or a deletion.                                        *)
THEOREM JoiningTwice == Spec => JoiningAgainWorks
<1>1. IInv /\ mishaps \in Nat /\ [Next]_vars
        => [\A t \in Tab : tab[t].pc \in {"sent", "found"} /\ tab'[t].pc = "idle"
                             /\ tab'[t].screen = "consent"
              => \/ deleted \/ mishaps' # mishaps
                 \/ tab[t].as \in joined /\ ~tab[t].known]_vars
  BY JoinStep DEF Welcomed
<1> QED BY <1>1, Invariant, Counted, PTL DEF Spec, JoiningAgainWorks

--------------------------------------------------------------------------------
(* Every job is of a selfie that was taken, and is not on its way any more. *)
Uploading == {t \in Tab : tab[t].pc = "upload"}

Budget ==
  /\ IsFiniteSet(Uploading)
  /\ selfies \in 0..MaxSelfies /\ mishaps \in 0..MaxMishaps
  /\ enroll \in [User -> {"none", "processing", "ready", "failed"}]
  /\ \A u \in User : jobs[u] + Cardinality(Uploading) <= selfies

(* No upload begins: at best one ends, whose selfie makes at most a job.    *)
LEMMA FewerUploads ==
  ASSUME IInv, IInv', Budget, Uploading' \subseteq Uploading, selfies' = selfies,
         \/ \A u \in User : jobs'[u] <= jobs[u]
         \/ /\ Uploading' # Uploading
            /\ \A u \in User : jobs'[u] <= jobs[u] + 1
  PROVE  IsFiniteSet(Uploading)'
         /\ \A u \in User : jobs'[u] + Cardinality(Uploading)' <= selfies'
<1>1. IsFiniteSet(Uploading) /\ selfies \in Nat /\ Cardinality(Uploading) \in Nat
  BY BoundAssumption, FS_CardinalityType DEF Budget
<1>2. /\ IsFiniteSet(Uploading') /\ Cardinality(Uploading') \in Nat
      /\ Cardinality(Uploading') <= Cardinality(Uploading)
      /\ Uploading' # Uploading => Cardinality(Uploading') < Cardinality(Uploading)
  BY <1>1, FS_Subset, FS_CardinalityType
<1>3. \A u \in User : jobs[u] \in Nat /\ jobs'[u] \in Nat
  BY DEF IInv, Types
<1> QED BY <1>1, <1>2, <1>3 DEF Budget

(* Only the tab that moves can begin or end one.                            *)
LEMMA OneTabMoves ==
  ASSUME NEW t \in Tab, \A s \in Tab \ {t} : tab'[s] = tab[s]
  PROVE  /\ tab'[t].pc # "upload" => Uploading' = Uploading \ {t}
         /\ tab'[t].pc = "upload" => Uploading' = Uploading \cup {t}
  BY DEF Uploading

(* A step that changes no job, no selfie and no upload.                     *)
LEMMA BudgetFrame ==
  ASSUME IInv, IInv', Budget, UNCHANGED <<selfies, jobs, enroll>>, mishaps' = mishaps \/ Mishap,
         Uploading' \subseteq Uploading
  PROVE  Budget'
<1>1. mishaps' \in 0..MaxMishaps
  BY BoundAssumption DEF Mishap, Budget
<1>2. \A u \in User : jobs'[u] <= jobs[u]
  BY DEF IInv, Types
<1> QED BY <1>1, <1>2, FewerUploads DEF Budget

(* Joining uploads nothing.                                                 *)
LEMMA BudgetJoin ==
  ASSUME IInv, IInv', Budget, NEW t \in Tab,
         Scan(t) \/ Join(t) \/ JoinNext(t) \/ JoinDies(t)
  PROVE  Budget'
<1>1. tab \in [Tab -> TabState] /\ tab' \in [Tab -> TabState]
  BY DEF IInv, Types
<1>2. UNCHANGED <<selfies, jobs, enroll>> /\ (mishaps' = mishaps \/ Mishap)
  <2>1. CASE JoinNext(t)
    BY <2>1 DEF JoinNext, SignIn, SignedIn, Post, Find, Insert, server, spent
  <2> QED BY <2>1 DEF Scan, Join, JoinDies, server, spent
<1>3. (\A s \in Tab \ {t} : tab'[s] = tab[s]) /\ (tab'[t].pc = "upload" => tab[t].pc = "upload")
  <2>1. CASE Scan(t)
    BY <1>1, <2>1 DEF Scan, TabState
  <2>2. CASE Join(t) \/ SignIn(t)
    <3>1. PICK pc \in {"idle", "signin", "signing", "post"} : tab' = [tab EXCEPT ![t].pc = pc]
      BY <2>2 DEF Join, SignIn
    <3> QED BY <1>1, <3>1, Stepping
  <2>3. CASE SignedIn(t)
    BY <1>1, <2>3, Stepping DEF SignedIn
  <2>4. CASE End(t, "idle")
    BY <1>1, <2>4, Ending
  <2>5. CASE \E u \in User : Welcome(t, u)
    BY <1>1, <2>5, Welcoming
  <2>6. CASE tab' = [tab EXCEPT ![t].pc = "found"]
    BY <1>1, <2>6, Stepping
  <2>7. CASE tab' = [tab EXCEPT ![t].pc = "sent", ![t].as = cookie, ![t].known = cookie \in joined]
    <3>1. PICK known \in BOOLEAN :
            tab' = [tab EXCEPT ![t].pc = "sent", ![t].as = cookie, ![t].known = known]
      <4>1. (cookie \in joined) = TRUE \/ (cookie \in joined) = FALSE
        OBVIOUS
      <4> QED BY <2>7, <4>1
    <3> QED BY <1>1, <3>1 DEF TabState
  <2>8. tab[t].pc \in {"sent", "found"} => tab[t].as \in User
    BY DEF IInv, TabSound
  <2>9. CASE Post(t)
    BY <2>4, <2>7, <2>9 DEF Post, Refuse
  <2>10. CASE Find(t) \/ Insert(t)
    BY <2>4, <2>5, <2>6, <2>8, <2>10 DEF Find, Insert, Refuse
  <2>11. CASE JoinDies(t)
    BY <2>4, <2>11 DEF JoinDies, Refuse
  <2> QED BY <2>1, <2>2, <2>3, <2>9, <2>10, <2>11 DEF JoinNext
<1>4. Uploading' \subseteq Uploading
  BY <1>3, OneTabMoves DEF Uploading
<1> QED BY <1>2, <1>4, BudgetFrame

(* A selfie that is taken is one more upload.                               *)
LEMMA BudgetTake ==
  ASSUME IInv, IInv', Budget, NEW t \in Tab, TakeSelfie(t)
  PROVE  Budget'
<1>1. tab \in [Tab -> TabState] /\ \A u \in User : jobs[u] \in Nat
  BY DEF IInv, Types
<1>2. /\ selfies' = selfies + 1 /\ selfies < MaxSelfies /\ UNCHANGED <<jobs, enroll, mishaps>>
      /\ tab[t].pc = "idle"
  BY DEF TakeSelfie, SelfieScreen, GalleryScreen, server
<1>3. Uploading' = Uploading \cup {t} /\ t \notin Uploading
  <2>1. (\A s \in Tab \ {t} : tab'[s] = tab[s]) /\ tab'[t].pc = "upload"
    BY <1>1 DEF TakeSelfie, TabState
  <2> QED BY <1>2, <2>1, OneTabMoves DEF Uploading
<1>4. IsFiniteSet(Uploading) /\ Cardinality(Uploading) \in Nat
  BY FS_CardinalityType DEF Budget
<1>5. IsFiniteSet(Uploading') /\ Cardinality(Uploading') = Cardinality(Uploading) + 1
  BY <1>3, <1>4, FS_AddElement
<1>6. selfies \in Nat /\ MaxSelfies \in Nat
  BY BoundAssumption DEF Budget
<1>7. \A u \in User : jobs'[u] + Cardinality(Uploading') <= selfies'
  BY <1>1, <1>2, <1>4, <1>5, <1>6 DEF Budget
<1> QED BY <1>2, <1>5, <1>6, <1>7 DEF Budget

(* An upload that ends is at most one more job.                             *)
LEMMA BudgetRoute ==
  ASSUME IInv, IInv', Budget, NEW t \in Tab, SelfieRoute(t) \/ SelfieDies(t)
  PROVE  Budget'
<1>1. /\ tab \in [Tab -> TabState] /\ jobs \in [User -> Nat] /\ joined \subseteq User
      /\ tab[t].pc = "upload" /\ selfies' = selfies /\ (mishaps' = mishaps \/ Mishap)
  BY DEF IInv, Types, SelfieRoute, SelfieDies, spent
<1>2. (\A s \in Tab \ {t} : tab'[s] = tab[s]) /\ tab'[t].pc # "upload"
  <2>1. ASSUME NEW n \in Selfie, Await(t, n)
        PROVE  (\A s \in Tab \ {t} : tab'[s] = tab[s]) /\ tab'[t].pc # "upload"
    BY <1>1, <2>1, Awaiting
  <2>2. ASSUME NEW pc \in {"idle", "hung"}, End(t, pc)
        PROVE  (\A s \in Tab \ {t} : tab'[s] = tab[s]) /\ tab'[t].pc # "upload"
    BY <1>1, <2>2, Ending
  <2> QED BY <2>1, <2>2 DEF SelfieRoute, SelfieDies, Refuse
<1>3. Uploading' \subseteq Uploading /\ Uploading' # Uploading
  BY <1>1, <1>2, OneTabMoves DEF Uploading
<1>4. /\ enroll' \in [User -> {"none", "processing", "ready", "failed"}]
      /\ \A u \in User : jobs'[u] <= jobs[u] + 1
  <2>1. CASE UNCHANGED <<enroll, jobs>>
    BY <1>1, <2>1 DEF Budget
  <2>2. CASE /\ tab[t].me \in joined
             /\ enroll' = [enroll EXCEPT ![tab[t].me] = "processing"]
             /\ jobs' \in {jobs, [jobs EXCEPT ![tab[t].me] = @ + 1]}
    BY <1>1, <2>2 DEF Budget
  <2> QED BY <2>1, <2>2 DEF SelfieRoute, SelfieDies, Owned
<1>5. mishaps' \in 0..MaxMishaps
  BY <1>1, BoundAssumption DEF Mishap, Budget
<1> QED BY <1>1, <1>3, <1>4, <1>5, FewerUploads DEF Budget

(* A verdict is one job less at most.                                       *)
LEMMA BudgetVerdict ==
  ASSUME IInv, IInv', Budget, NEW u \in User, Verdict(u)
  PROVE  Budget'
<1>1. /\ jobs \in [User -> Nat] /\ selfies' = selfies /\ (mishaps' = mishaps \/ Mishap)
      /\ Uploading' = Uploading
  BY DEF IInv, Types, Verdict, Uploading
<1>2. /\ enroll' \in [User -> {"none", "processing", "ready", "failed"}]
      /\ \A v \in User : jobs'[v] <= jobs[v]
  <2>1. PICK v \in {"ready", "failed"} : enroll' = [enroll EXCEPT ![u] = v]
    BY DEF Verdict
  <2>2. jobs' = jobs \/ jobs' = [jobs EXCEPT ![u] = @ - 1]
    BY DEF Verdict
  <2> QED BY <1>1, <2>1, <2>2 DEF Budget
<1>3. mishaps' \in 0..MaxMishaps
  BY <1>1, BoundAssumption DEF Mishap, Budget
<1> QED BY <1>1, <1>2, <1>3, FewerUploads DEF Budget

(* An answer ends no upload.                                                *)
LEMMA BudgetHear ==
  ASSUME IInv, IInv', Budget, NEW i \in 1..MaxAnswers, Hear(i)
  PROVE  Budget'
<1>1. PICK t \in Tab, n \in Selfie, said \in {"ready", "failed"} :
        answers[i] = [tab |-> t, timer |-> n, said |-> said]
  BY DEF IInv, Types, Hear, Answer
<1>2. /\ tab' = [tab EXCEPT ![t] = Told(t, n, said)]
      /\ tab \in [Tab -> TabState] /\ Told(t, n, said).pc \in {tab[t].pc, "idle"}
  BY <1>1, Telling DEF IInv, Types, Hear
<1>3. Uploading' \subseteq Uploading
  BY <1>2, OneTabMoves DEF Uploading
<1> QED BY <1>3, BudgetFrame DEF Hear, server, spent

(* Jobs and uploads, over whatever a step does.                             *)
LEMMA BudgetInductive ==
  ASSUME IInv, IInv', Budget, [Next]_vars
  PROVE  Budget'
<1>1. ASSUME UNCHANGED <<server, tab, selfies>>, mishaps' = mishaps \/ Mishap
      PROVE  Budget'
  BY <1>1, BudgetFrame DEF server, Uploading
<1>2. CASE StudioNext /\ UNCHANGED <<browser, server, tab, answers, spent>>
  BY <1>1, <1>2 DEF spent
<1>3. ASSUME NEW t \in Tab, Scan(t) \/ Join(t) \/ JoinNext(t) \/ JoinDies(t)
      PROVE  Budget'
  BY <1>3, BudgetJoin
<1>4. ASSUME NEW t \in Tab, TakeSelfie(t) \/ SelfieRoute(t) \/ SelfieDies(t)
      PROVE  Budget'
  BY <1>4, BudgetTake, BudgetRoute
<1>5. ASSUME NEW t \in Tab, NEW n \in Selfie, Tick(t, n)
      PROVE  Budget'
  BY <1>1, <1>5 DEF Tick, spent
<1>6. ASSUME NEW i \in 1..MaxAnswers, Hear(i) \/ LoseAnswer(i)
      PROVE  Budget'
  BY <1>1, <1>6, BudgetHear DEF LoseAnswer
<1>7. ASSUME NEW u \in User, Verdict(u)
      PROVE  Budget'
  BY <1>7, BudgetVerdict
<1>8. ASSUME NEW u \in {Nobody, Account}, Switch(u)
      PROVE  Budget'
  BY <1>1, <1>8 DEF Switch
<1>9. CASE UNCHANGED vars
  BY <1>1, <1>9 DEF vars, spent
<1> QED BY <1>2, <1>3, <1>4, <1>5, <1>6, <1>7, <1>8, <1>9 DEF Next

(* No job and no upload at first.                                           *)
LEMMA BudgetInit == Init => Budget
<1> SUFFICES ASSUME Init PROVE Budget
  OBVIOUS
<1>1. Uploading = {}
  BY DEF Init, Uploading, Closed
<1>2. IsFiniteSet({}) /\ Cardinality({}) = 0
  BY FS_EmptySet
<1> QED BY <1>1, <1>2, BoundAssumption DEF Init, Budget

(* Nothing in the browser touches what the organiser sets up.               *)
LEMMA OrganiserMeanwhile == [Next]_vars => [StudioNext]_studioVars
<1> SUFFICES ASSUME [Next]_vars, ~StudioNext PROVE UNCHANGED studioVars
  OBVIOUS
<1>1. ASSUME NEW t \in Tab, Scan(t) \/ Join(t) \/ JoinNext(t) \/ JoinDies(t)
      PROVE  UNCHANGED studioVars
  BY <1>1 DEF Scan, Join, JoinNext, SignIn, SignedIn, Post, Find, Insert, JoinDies
<1>2. ASSUME NEW t \in Tab, \/ TakeSelfie(t) \/ SelfieRoute(t) \/ SelfieDies(t)
                            \/ \E n \in Selfie : Tick(t, n)
      PROVE  UNCHANGED studioVars
  BY <1>2 DEF TakeSelfie, SelfieRoute, SelfieDies, Tick
<1>3. ASSUME NEW i \in 1..MaxAnswers, Hear(i) \/ LoseAnswer(i)
      PROVE  UNCHANGED studioVars
  BY <1>3 DEF Hear, LoseAnswer
<1>4. ASSUME NEW u, Verdict(u) \/ Switch(u)
      PROVE  UNCHANGED studioVars
  BY <1>4 DEF Verdict, Switch
<1> QED BY <1>1, <1>2, <1>3, <1>4 DEF Next, vars

(* Tabs, answers, sessions and rows keep their shape, and no user has more  *)
(* selfies queued than were taken: an upload that dies, a job that is tried *)
(* again or a tab that takes another makes none twice.                      *)
THEOREM TypeCorrect == Spec => []TypeOK
<1>1. Init => StudioInv /\ Budget
  BY StudioInitInv, BudgetInit DEF Init
<1>2. /\ StudioInv /\ IInv /\ IInv' /\ Budget /\ [Next]_vars => StudioInv' /\ Budget'
  BY OrganiserMeanwhile, StudioInductive, BudgetInductive
<1>3. StudioInv /\ IInv /\ Budget => TypeOK
  <2> SUFFICES ASSUME StudioInv, IInv, Budget PROVE TypeOK
    OBVIOUS
  <2>1. jobs \in [User -> 0..MaxSelfies]
    <3>1. Cardinality(Uploading) \in Nat /\ selfies \in Nat /\ selfies <= MaxSelfies
      BY BoundAssumption, FS_CardinalityType DEF Budget
    <3>2. ASSUME NEW u \in User
          PROVE  jobs[u] \in 0..MaxSelfies
      BY <3>1, BoundAssumption DEF IInv, Types, Budget
    <3> QED BY <3>2 DEF IInv, Types
  <2> QED BY <2>1 DEF IInv, Types, Budget, TypeOK, StudioInv, TabState, Answer
<1> QED BY <1>1, <1>2, <1>3, Invariant, PTL DEF Spec
==============================================================================
