----------------------------- MODULE ViewingProofs -----------------------------
(***************************************************************************)
(* What Viewing promises of previews, originals and audit rows, for every  *)
(* number of photos, of requests and of changes of a match.                *)
(***************************************************************************)
EXTENDS Viewing, TLAPS

(* What is true of one request.  One that is about to hand out an original *)
(* or the list has met no obstacle when it looked, so that none has stood  *)
(* since it began; one that has handed out a file still knows why.         *)
Sound(r) ==
  /\ req[r].op \in EventOp => req[r].photo = NoPhoto
  /\ req[r].op \in PhotoOp => req[r].photo \in Photo
  /\ req[r].pc = "log" => req[r].op = "download" /\ "hidden" \notin since[r]
  /\ req[r].pc = "allowed" => req[r].op = "all" /\ since[r] \cap {"deleted", "private"} = {}
  /\ Given(r) => /\ req[r].op = "download" => r \in downloads
                 /\ "hidden" \notin since[r]
                 /\ since[r] \cap {"deleted", "private"} # {} => req[r].via = "match"

(* A request that has written a photo and not yet its audit row is about   *)
(* to say what is true, unless it was overtaken.                           *)
Pending(r) ==
  req[r].pc = "written" =>
    /\ req[r].op \in {"hide", "show"}
    /\ req[r].photo \in blurred \/ (req[r].photo \in shown <=> req[r].op = "show")

IInv ==
  /\ TypeOK
  /\ \A r \in Request : Sound(r) /\ Pending(r)
  /\ AuditExplained

Counter == {"idle", "asked", "unmatched", "manager?", "log", "objected", "checked", "written",
            "allowed", "given", "refused", "done", "died"}

Call ==
  [pc: Counter,
   op: PhotoOp \cup EventOp \cup {"none"}, who: {Visitor, Manager},
   photo: Photo \cup {NoPhoto}, via: {"none", "match", "public", "managed"}]

LEMMA InitInv == Init => IInv
<1> SUFFICES ASSUME Init PROVE IInv
  OBVIOUS
<1>1. TypeOK
  <2>1. Idle \in Call
    BY DEF Idle, Call, Counter
  <2>2. req \in [Request -> Call]
    BY <2>1 DEF Init
  <2>3. matches \in 0..MaxMatches
    BY MatchesAssumption DEF Init
  <2>4. last \in [Photo -> BOOLEAN] /\ since \in [Request -> SUBSET {"deleted", "private", "hidden"}]
    BY DEF Init
  <2>5. /\ deleted \in BOOLEAN /\ public \in BOOLEAN
        /\ shown \subseteq Photo /\ matched \subseteq Photo
        /\ downloads \subseteq Request /\ blurred \subseteq Photo
    BY DEF Init
  <2> QED BY <2>2, <2>3, <2>4, <2>5 DEF TypeOK, Call, Counter
<1>2. \A r \in Request : Sound(r) /\ Pending(r)
  BY NullAssumption DEF Init, Sound, Pending, Given, Idle, EventOp, PhotoOp
<1>3. AuditExplained
  BY DEF Init, AuditExplained
<1> QED BY <1>1, <1>2, <1>3 DEF IInv

--------------------------------------------------------------------------------
(* What a step of one request leaves alone. *)

(* The history only knows obstacles, and once a request runs it forgets     *)
(* every one that does not stand.                                           *)
LEMMA SinceShrinks ==
  ASSUME IInv, Remember
  PROVE  /\ since' \in [Request -> SUBSET {"deleted", "private", "hidden"}]
         /\ \A r \in Request : req[r].pc # "idle"
              => since'[r] \subseteq since[r] /\ since'[r] \subseteq Obstacles(r)'
  BY DEF IInv, TypeOK, Remember, Obstacles

(* A request that does not move stays sound.                                *)
LEMMA OthersSound ==
  ASSUME IInv, Remember, downloads \subseteq downloads', NEW q \in Request, req'[q] = req[q]
  PROVE  Sound(q)'
<1>1. since'[q] \subseteq since[q] \/ req[q].pc = "idle"
  BY SinceShrinks
<1> QED BY <1>1 DEF IInv, Sound, Given

(* A step of a request that writes neither a photo nor an audit row.        *)
LEMMA Harmless ==
  ASSUME IInv, Remember, NEW r \in Request,
         UNCHANGED <<shown, last, blurred>>, downloads \subseteq downloads',
         \A q \in Request \ {r} : req'[q] = req[q],
         req[r].pc # "written", req'[r].pc # "written",
         TypeOK', Sound(r)'
  PROVE  IInv'
<1>1. \A q \in Request : Sound(q)'
  BY OthersSound
<1>2. \A q \in Request : Pending(q)'
  BY DEF IInv, Pending
<1>3. AuditExplained'
  BY DEF IInv, AuditExplained
<1> QED BY <1>1, <1>2, <1>3 DEF IInv

--------------------------------------------------------------------------------
(* How a request moves. *)

LEMMA Going ==
  ASSUME TypeOK, NEW r \in Request, NEW pc \in Counter, Goto(r, pc)
  PROVE  /\ req' \in [Request -> Call]
         /\ \A q \in Request \ {r} : req'[q] = req[q]
         /\ req'[r].pc = pc /\ req'[r].via = req[r].via
         /\ req'[r].op = req[r].op /\ req'[r].who = req[r].who /\ req'[r].photo = req[r].photo
  BY SMTT(30) DEF TypeOK, Call, Counter, Goto

LEMMA Giving ==
  ASSUME TypeOK, NEW r \in Request, NEW via \in {"match", "public", "managed"}, Give(r, via)
  PROVE  /\ req' \in [Request -> Call]
         /\ \A q \in Request \ {r} : req'[q] = req[q]
         /\ req'[r].pc = "given" /\ req'[r].via = via
         /\ req'[r].op = req[r].op /\ req'[r].who = req[r].who /\ req'[r].photo = req[r].photo
<1>1. req \in [Request -> Call]
  BY DEF TypeOK, Call, Counter
<1>2. [req[r] EXCEPT !.pc = "given", !.via = via] \in Call
  BY <1>1 DEF Call, Counter
<1>3. req' = [req EXCEPT ![r] = [req[r] EXCEPT !.pc = "given", !.via = via]]
  BY <1>1 DEF Give, Call
<1> QED BY <1>1, <1>2, <1>3 DEF Call

(* A step on a request that gives a file or goes on, and writes neither a   *)
(* photo nor an audit row.                                                  *)
LEMMA Walk ==
  ASSUME IInv, Remember, NEW r \in Request,
         \/ \E pc \in Counter \ {"written"} : Goto(r, pc)
         \/ \E via \in {"match", "public", "managed"} : Give(r, via),
         req[r].pc # "written",
         deleted' \in BOOLEAN, public' \in BOOLEAN, UNCHANGED <<shown, matched, last, blurred, matches>>,
         downloads' \subseteq Request, downloads \subseteq downloads',
         Sound(r)'
  PROVE  IInv'
<1>1. /\ req' \in [Request -> Call] /\ req'[r].pc # "written"
      /\ \A q \in Request \ {r} : req'[q] = req[q]
  <2>1. CASE \E pc \in Counter \ {"written"} : Goto(r, pc)
    <3> PICK pc \in Counter \ {"written"} : Goto(r, pc)
      BY <2>1
    <3> QED BY Going DEF IInv
  <2>2. CASE \E via \in {"match", "public", "managed"} : Give(r, via)
    <3> PICK via \in {"match", "public", "managed"} : Give(r, via)
      BY <2>2
    <3> QED BY Giving DEF IInv
  <2> QED BY <2>1, <2>2
<1>2. TypeOK'
  BY <1>1, SinceShrinks DEF IInv, TypeOK, Call, Counter
<1> QED BY <1>1, <1>2, Harmless

--------------------------------------------------------------------------------
(* The steps of a request. *)

LEMMA AskInv ==
  ASSUME IInv, Remember, NEW r \in Request, NEW op \in PhotoOp \cup EventOp,
         NEW u \in {Visitor, Manager}, NEW p \in Photo \cup {NoPhoto}, Ask(r, op, u, p)
  PROVE  IInv'
<1> DEFINE new == [pc |-> "asked", op |-> op, who |-> u, photo |-> p, via |-> "none"]
<1>1. new \in Call
  BY DEF Call, Counter
<1>2. req \in [Request -> Call] /\ req' = [req EXCEPT ![r] = new] /\ req[r].pc = "idle"
  BY DEF IInv, TypeOK, Call, Counter, Ask
<1>3. req' \in [Request -> Call] /\ req'[r] = new
  BY <1>1, <1>2
<1>4. TypeOK'
  BY <1>3, SinceShrinks DEF IInv, TypeOK, Call, Counter, Ask, db, audit
<1>5. Sound(r)'
  BY <1>3, NullAssumption DEF Sound, Given, Ask, PhotoOp, EventOp
<1> QED BY <1>2, <1>3, <1>4, <1>5, Harmless DEF Ask, db, audit

LEMMA PreviewInv ==
  ASSUME IInv, Remember, NEW r \in Request, Preview(r)
  PROVE  IInv'
<1>1. Sound(r)'
  BY SinceShrinks, Going, Giving, NullAssumption
     DEF IInv, TypeOK, Sound, Preview, At, Given, Match, Public, Managed, Obstacles, db, audit,
         PhotoOp, EventOp, Counter
<1> QED BY <1>1, Walk DEF IInv, TypeOK, Preview, At, db, audit, Counter

LEMMA ViaPublicInv ==
  ASSUME IInv, Remember, NEW r \in Request, ViaPublic(r)
  PROVE  IInv'
<1>1. Sound(r)'
  BY SinceShrinks, Going, Giving, NullAssumption
     DEF IInv, TypeOK, Sound, ViaPublic, At, Given, Match, Public, Managed, Obstacles, db, audit,
         PhotoOp, EventOp, Counter
<1> QED BY <1>1, Walk DEF IInv, TypeOK, ViaPublic, At, db, audit, Counter

LEMMA ViaManagedInv ==
  ASSUME IInv, Remember, NEW r \in Request, ViaManaged(r)
  PROVE  IInv'
<1>1. Sound(r)'
  BY SinceShrinks, Going, Giving, NullAssumption
     DEF IInv, TypeOK, Sound, ViaManaged, At, Given, Match, Public, Managed, Obstacles, db, audit,
         PhotoOp, EventOp, Counter
<1> QED BY <1>1, Walk DEF IInv, TypeOK, ViaManaged, At, db, audit, Counter

LEMMA RequestDownloadInv ==
  ASSUME IInv, Remember, NEW r \in Request, RequestDownload(r)
  PROVE  IInv'
<1>1. Sound(r)'
  BY SinceShrinks, Going, Giving, NullAssumption
     DEF IInv, TypeOK, Sound, RequestDownload, At, Given, Match, Public, Managed, Obstacles, db, audit,
         PhotoOp, EventOp, Counter
<1> QED BY <1>1, Walk DEF IInv, TypeOK, RequestDownload, At, db, audit, Counter

LEMMA LogDownloadInv ==
  ASSUME IInv, Remember, NEW r \in Request, LogDownload(r)
  PROVE  IInv'
<1>1. Sound(r)'
  BY SinceShrinks, Going, Giving, NullAssumption
     DEF IInv, TypeOK, Sound, LogDownload, At, Given, Match, Public, Managed, Obstacles, db, audit,
         PhotoOp, EventOp, Counter
<1> QED BY <1>1, Walk DEF IInv, TypeOK, LogDownload, At, db, audit, Counter

LEMMA ReportInv ==
  ASSUME IInv, Remember, NEW r \in Request, Report(r)
  PROVE  IInv'
<1>1. Sound(r)'
  BY SinceShrinks, Going, Giving, NullAssumption
     DEF IInv, TypeOK, Sound, Report, At, Given, Match, Public, Managed, Obstacles, db, audit,
         PhotoOp, EventOp, Counter
<1> QED BY <1>1, Walk DEF IInv, TypeOK, Report, At, db, audit, Counter

LEMMA CheckManagerInv ==
  ASSUME IInv, Remember, NEW r \in Request, CheckManager(r)
  PROVE  IInv'
<1>1. Sound(r)'
  BY SinceShrinks, Going, Giving, NullAssumption
     DEF IInv, TypeOK, Sound, CheckManager, At, Given, Match, Public, Managed, Obstacles, db, audit,
         PhotoOp, EventOp, Counter
<1> QED BY <1>1, Walk DEF IInv, TypeOK, CheckManager, At, db, audit, Counter

LEMMA SetPublicGalleryInv ==
  ASSUME IInv, Remember, NEW r \in Request, SetPublicGallery(r)
  PROVE  IInv'
<1>1. Sound(r)'
  BY SinceShrinks, Going, Giving, NullAssumption
     DEF IInv, TypeOK, Sound, SetPublicGallery, At, Given, Match, Public, Managed, Obstacles, db, audit,
         PhotoOp, EventOp, Counter
<1> QED BY <1>1, Walk DEF IInv, TypeOK, SetPublicGallery, At, db, audit, Counter

LEMMA DeleteEventInv ==
  ASSUME IInv, Remember, NEW r \in Request, DeleteEvent(r)
  PROVE  IInv'
<1>1. Sound(r)'
  BY SinceShrinks, Going, Giving, NullAssumption
     DEF IInv, TypeOK, Sound, DeleteEvent, At, Given, Match, Public, Managed, Obstacles, db, audit,
         PhotoOp, EventOp, Counter
<1> QED BY <1>1, Walk DEF IInv, TypeOK, DeleteEvent, At, db, audit, Counter

LEMMA AskAllInv ==
  ASSUME IInv, Remember, NEW r \in Request, AskAll(r)
  PROVE  IInv'
<1>1. Sound(r)'
  BY SinceShrinks, Going, Giving, NullAssumption
     DEF IInv, TypeOK, Sound, AskAll, At, Given, Match, Public, Managed, Obstacles, db, audit,
         PhotoOp, EventOp, Counter
<1> QED BY <1>1, Walk DEF IInv, TypeOK, AskAll, At, db, audit, Counter

LEMMA GetAllInv ==
  ASSUME IInv, Remember, NEW r \in Request, GetAll(r)
  PROVE  IInv'
<1>1. Sound(r)'
  BY SinceShrinks, Going, Giving, NullAssumption
     DEF IInv, TypeOK, Sound, GetAll, At, Given, Match, Public, Managed, Obstacles, db, audit,
         PhotoOp, EventOp, Counter
<1> QED BY <1>1, Walk DEF IInv, TypeOK, GetAll, At, db, audit, Counter

--------------------------------------------------------------------------------
(* The steps that write a photo or an audit row.  A photo that is written   *)
(* while an audit row of it is due is blurred; any other is as the newest   *)
(* row will say.                                                            *)

LEMMA HidePhotoInv ==
  ASSUME IInv, Remember, NEW r \in Request, HidePhoto(r)
  PROVE  IInv'
<1>1. /\ Goto(r, "done") /\ req[r].op = "report" /\ req[r].pc = "objected"
      /\ req[r].photo \in Photo
  BY DEF IInv, Sound, HidePhoto, At, PhotoOp
<1>2. TypeOK'
  BY <1>1, SinceShrinks, Going DEF IInv, TypeOK, HidePhoto, Overtaking, Call, Counter
<1>3. \A q \in Request : Sound(q)'
  <2>1. Sound(r)'
    BY <1>1, Going DEF IInv, Sound, Given, Counter
  <2> QED BY <1>1, <2>1, Going, OthersSound DEF IInv, HidePhoto, Counter
<1>4. ASSUME NEW q \in Request
      PROVE  Pending(q)'
  <2>1. CASE q = r
    BY <1>1, <2>1, Going DEF IInv, Pending, Counter
  <2>2. CASE q # r
    BY <1>1, <2>2, Going DEF IInv, Pending, HidePhoto, Overtaking, At, Counter
  <2> QED BY <2>1, <2>2
<1>5. AuditExplained'
  <2> SUFFICES ASSUME NEW p \in Photo, p \notin blurred',
                      \A q \in Request : ~(req'[q].pc = "written" /\ req'[q].photo = p)
               PROVE  last'[p] <=> p \in shown'
    BY DEF AuditExplained
  <2>1. CASE p = req[r].photo
    <3>1. last'[p] = FALSE
      BY <2>1 DEF IInv, TypeOK, HidePhoto
    <3>2. p \notin shown'
      BY <2>1 DEF HidePhoto
    <3> QED BY <3>1, <3>2
  <2>2. CASE p # req[r].photo
    BY <1>1, <2>2, Going DEF IInv, TypeOK, AuditExplained, HidePhoto, Overtaking, Counter
  <2> QED BY <2>1, <2>2
<1> QED BY <1>2, <1>3, <1>4, <1>5 DEF IInv

LEMMA SetPublishedInv ==
  ASSUME IInv, Remember, NEW r \in Request, SetPublished(r)
  PROVE  IInv'
<1>1. /\ Goto(r, "written") /\ req[r].op \in {"hide", "show"} /\ req[r].pc = "checked"
      /\ req[r].photo \in Photo
  BY DEF IInv, Sound, SetPublished, At, PhotoOp
<1>2. TypeOK'
  BY <1>1, SinceShrinks, Going DEF IInv, TypeOK, SetPublished, Overtaking, Call, Counter
<1>3. \A q \in Request : Sound(q)'
  <2>1. Sound(r)'
    BY <1>1, Going DEF IInv, Sound, Given, Counter
  <2> QED BY <1>1, <2>1, Going, OthersSound DEF IInv, SetPublished, Counter
<1>4. ASSUME NEW q \in Request
      PROVE  Pending(q)'
  <2>1. CASE q = r
    BY <1>1, <2>1, Going DEF IInv, Pending, SetPublished, At, Counter
  <2>2. CASE q # r
    <3>1. req'[q] = req[q]
      BY <1>1, <2>2, Going DEF IInv, Counter
    <3>2. CASE req[q].pc = "written" /\ req[q].photo = req[r].photo
      BY <1>1, <2>2, <3>1, <3>2 DEF IInv, Pending, SetPublished, Overtaking, At
    <3>3. CASE req[q].pc = "written" /\ req[q].photo # req[r].photo
      BY <3>1, <3>3 DEF IInv, Pending, SetPublished, Overtaking
    <3>4. CASE req[q].pc # "written"
      BY <3>1, <3>4 DEF Pending
    <3> QED BY <3>2, <3>3, <3>4
  <2> QED BY <2>1, <2>2
<1>5. AuditExplained'
  <2> SUFFICES ASSUME NEW p \in Photo, p \notin blurred',
                      \A q \in Request : ~(req'[q].pc = "written" /\ req'[q].photo = p)
               PROVE  last'[p] <=> p \in shown'
    BY DEF AuditExplained
  <2>1. p # req[r].photo
    BY <1>1, Going DEF IInv, Counter
  <2> QED BY <1>1, <2>1, Going DEF IInv, TypeOK, AuditExplained, SetPublished, Overtaking, Counter
<1> QED BY <1>2, <1>3, <1>4, <1>5 DEF IInv

LEMMA AuditPublishedInv ==
  ASSUME IInv, Remember, NEW r \in Request, AuditPublished(r)
  PROVE  IInv'
<1>1. /\ Goto(r, "done") /\ req[r].op \in {"hide", "show"} /\ req[r].pc = "written"
      /\ req[r].photo \in Photo
  BY DEF IInv, Sound, AuditPublished, At, PhotoOp
<1>2. TypeOK'
  BY <1>1, SinceShrinks, Going DEF IInv, TypeOK, AuditPublished, Call, Counter, db
<1>3. \A q \in Request : Sound(q)'
  <2>1. Sound(r)'
    BY <1>1, Going DEF IInv, Sound, Given, Counter
  <2> QED BY <1>1, <2>1, Going, OthersSound DEF IInv, AuditPublished, Counter
<1>4. \A q \in Request : Pending(q)'
  BY <1>1, Going DEF IInv, Pending, AuditPublished, Counter, db
<1>5. AuditExplained'
  <2> SUFFICES ASSUME NEW p \in Photo, p \notin blurred',
                      \A q \in Request : ~(req'[q].pc = "written" /\ req'[q].photo = p)
               PROVE  last'[p] <=> p \in shown'
    BY DEF AuditExplained
  <2>1. CASE p = req[r].photo
    BY <1>1, <2>1 DEF IInv, TypeOK, Pending, AuditPublished, db
  <2>2. CASE p # req[r].photo
    BY <1>1, <2>2, Going DEF IInv, TypeOK, AuditExplained, AuditPublished, Counter, db
  <2> QED BY <2>1, <2>2
<1> QED BY <1>2, <1>3, <1>4, <1>5 DEF IInv

LEMMA DieInv ==
  ASSUME IInv, Remember, NEW r \in Request, Die(r)
  PROVE  IInv'
<1>1. Goto(r, "died") /\ (req[r].pc = "written" => req[r].photo \in Photo)
  BY DEF IInv, Sound, Pending, Die, PhotoOp
<1>2. TypeOK'
  BY <1>1, SinceShrinks, Going DEF IInv, TypeOK, Die, Call, Counter, db
<1>3. \A q \in Request : Sound(q)'
  <2>1. Sound(r)'
    BY <1>1, Going DEF IInv, Sound, Given, Counter
  <2> QED BY <1>1, <2>1, Going, OthersSound DEF IInv, Die, Counter
<1>4. \A q \in Request : Pending(q)'
  BY <1>1, Going DEF IInv, Pending, Die, Counter, db
<1>5. AuditExplained'
  BY <1>1, Going DEF IInv, AuditExplained, Die, Counter, db
<1> QED BY <1>2, <1>3, <1>4, <1>5 DEF IInv

LEMMA WorkInv ==
  ASSUME IInv, Remember, NEW p \in Photo, Work(p)
  PROVE  IInv'
<1>1. TypeOK'
  BY SinceShrinks, MatchesAssumption DEF IInv, TypeOK, Work, audit
<1>2. \A q \in Request : Sound(q)'
  BY OthersSound DEF Work, audit
<1>3. (\A q \in Request : Pending(q))' /\ AuditExplained'
  BY DEF IInv, Pending, AuditExplained, Work, audit
<1> QED BY <1>1, <1>2, <1>3 DEF IInv

--------------------------------------------------------------------------------
LEMMA Inductive == IInv /\ [Next]_vars => IInv'
<1> SUFFICES ASSUME IInv, [Next]_vars PROVE IInv'
  OBVIOUS
<1>1. ASSUME NEW r \in Request, RequestNext(r), Remember
      PROVE  IInv'
  BY <1>1, PreviewInv, ViaPublicInv, ViaManagedInv, RequestDownloadInv, LogDownloadInv, ReportInv,
     HidePhotoInv, CheckManagerInv, SetPublishedInv, AuditPublishedInv, SetPublicGalleryInv,
     DeleteEventInv, AskAllInv, GetAllInv
     DEF RequestNext
<1>2. ASSUME NEW r \in Request, NEW op \in PhotoOp \cup EventOp, NEW u \in {Visitor, Manager},
             NEW p \in Photo \cup {NoPhoto}, Ask(r, op, u, p), Remember
      PROVE  IInv'
  BY <1>2, AskInv
<1>3. ASSUME NEW r \in Request, Die(r), Remember
      PROVE  IInv'
  BY <1>3, DieInv
<1>4. ASSUME NEW p \in Photo, Work(p), Remember
      PROVE  IInv'
  BY <1>4, WorkInv
<1>5. ASSUME UNCHANGED vars
      PROVE  IInv'
  <2>1. TypeOK' /\ AuditExplained'
    BY <1>5 DEF IInv, TypeOK, AuditExplained, vars, db, audit
  <2>2. \A q \in Request : Sound(q)' /\ Pending(q)'
    BY <1>5 DEF IInv, Sound, Given, Pending, vars, db, audit
  <2> QED BY <2>1, <2>2 DEF IInv
<1> QED BY <1>1, <1>2, <1>3, <1>4, <1>5 DEF Next, Step

LEMMA Invariant == Spec => []IInv
  BY InitInv, Inductive, PTL DEF Spec

(* Every variable keeps its type, whatever is asked.                        *)
THEOREM ViewingTypes == Spec => []TypeOK
  BY Invariant, PTL DEF IInv

(* "Write the audit row FIRST" (participants.ts:195-197): no attendee has an*)
(* original without a row of that very request, for any number of requests. *)
THEOREM OriginalsAreLogged == Spec => []EveryOriginalIsLogged
<1>1. IInv => EveryOriginalIsLogged
  BY DEF IInv, Sound, EveryOriginalIsLogged
<1> QED BY <1>1, Invariant, PTL

(* "The photo is hidden from everyone immediately" (participants.ts:230): a *)
(* request that began when a photo had been hidden does not get it, however *)
(* its statements fall between those of others.                             *)
THEOREM HiddenIsHidden == Spec => []HiddenFromEveryone
<1>1. IInv => HiddenFromEveryone
  BY DEF IInv, Sound, HiddenFromEveryone
<1> QED BY <1>1, Invariant, PTL

(* After a deletion, or while browsing is off, only a match opens a photo   *)
(* to an attendee.                                                          *)
THEOREM MatchIsTheOnlyWay == Spec => []OnlyByMatch
<1>1. IInv => OnlyByMatch
  BY DEF IInv, Sound, OnlyByMatch
<1> QED BY <1>1, Invariant, PTL

(* The newest audit row of a photo says whether it is shown, but for a row  *)
(* that is due, lost or overtaken (events.ts:458-470).                      *)
THEOREM AuditTrail == Spec => []AuditExplained
  BY Invariant, PTL DEF IInv
================================================================================
