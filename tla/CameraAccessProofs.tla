-------------------------- MODULE CameraAccessProofs --------------------------
(***************************************************************************)
(* What CameraAccess promises, for every number of credentials,            *)
(* connections, calls of the dashboard, files and users.                   *)
(***************************************************************************)
EXTENDS CameraAccess, TLAPS

(* What a call writes to is a credential when its operation needs one.      *)
CallsAreFormed ==
  \A r \in Request : req[r].op \in CredentialOp => req[r].cred \in Cred

(* The type of a call.                                                      *)
Call == [pc: {"idle", "checked", "revoking", "done"}, op: Op \cup {NoOp},
         cred: Cred \cup {NoCred}, rows: SUBSET Cred]

(* What a deletion that is under way is going to leave: the logins that are *)
(* not revoked by then are those it has seen, or they are late.             *)
DeletionsAreThorough ==
  \A r \in Deleting, c \in Cred :
    cred[c].made /\ ~cred[c].revoked => c \in req[r].rows \cup late

(* A login that has met nothing but a shut door is one of an event that is  *)
(* still shut.                                                              *)
IInv ==
  /\ TypeOK /\ CallsAreFormed /\ DeletionsAreThorough
  /\ NoEntryBehindAShutDoor /\ DeletionRevokesLogins
  /\ Admitting => knocked = {}

LEMMA InitInv == Init => IInv
<1> SUFFICES ASSUME Init PROVE IInv
  OBVIOUS
<1>1. TypeOK
  <2>1. cred \in [Cred -> [made: BOOLEAN, revoked: BOOLEAN, hash: 0..MaxPassword]]
    BY PasswordAssumption DEF Init, NoRow
  <2>2. fresh \in 0..MaxPassword
    BY PasswordAssumption DEF Init
  <2>3. req \in [Request -> Call]
    BY DEF Init, Idle, Call
  <2>4. conn \in [Connection -> [pc: {"off", "reading", "open"}, cred: Cred \cup {NoCred}]]
    BY DEF Init, Off
  <2>5. file \in [Upload -> Accepted \cup {"none", "row", "dropped"}]
    BY DEF Init
  <2>6. /\ status \in {"live", "closed", "archived"}
        /\ deleted \in BOOLEAN /\ over \in BOOLEAN
        /\ late \subseteq Cred /\ knocked \subseteq Connection
    BY DEF Init
  <2> QED BY <2>1, <2>2, <2>3, <2>4, <2>5, <2>6 DEF TypeOK, Call
<1>2. CallsAreFormed
  BY NullAssumption DEF Init, CallsAreFormed, Idle, Op
<1>3. NoEntryBehindAShutDoor /\ DeletionRevokesLogins /\ (Admitting => knocked = {})
  BY DEF Init, NoEntryBehindAShutDoor, DeletionRevokesLogins
<1>4. DeletionsAreThorough
  BY DEF Init, DeletionsAreThorough, Deleting, Idle
<1> QED BY <1>1, <1>2, <1>3, <1>4 DEF IInv

(* The part about logins survives whatever revives none of them, unless a   *)
(* deletion begins or ends.                                                 *)
LEMMA LoginsKept ==
  ASSUME IInv, deleted' = deleted, Deleting' = Deleting, late \subseteq late',
         \A q \in Request : req'[q].rows = req[q].rows,
         \A c \in Cred : cred'[c].made /\ ~cred'[c].revoked
                         => \/ cred[c].made /\ ~cred[c].revoked
                            \/ c \in late'
                            \/ ~deleted /\ Deleting = {}
  PROVE  DeletionRevokesLogins' /\ DeletionsAreThorough'
BY DEF IInv, DeletionRevokesLogins, DeletionsAreThorough, Deleting

(* The part about the door survives whatever leaves it and the cameras.     *)
LEMMA DoorKept ==
  ASSUME IInv, UNCHANGED <<conn, knocked>>, Admitting' => Admitting
  PROVE  NoEntryBehindAShutDoor' /\ (Admitting => knocked = {})'
BY DEF IInv, NoEntryBehindAShutDoor

--------------------------------------------------------------------------------
(* The dashboard. *)

LEMMA CheckInv ==
  ASSUME IInv, NEW r \in Request, NEW u \in User, NEW op \in Op, NEW c \in Cred \cup {NoCred},
         Check(r, u, op, c)
  PROVE  IInv'
<1>1. TypeOK'
  BY DEF IInv, TypeOK, Call, Check, event, Idle
<1>2. CallsAreFormed'
  BY DEF IInv, TypeOK, CallsAreFormed, Check, Idle
<1>3. Deleting' = Deleting /\ \A q \in Deleting : req'[q] = req[q]
  BY DEF IInv, TypeOK, Call, Check, Deleting, Idle
<1>4. DeletionRevokesLogins' /\ DeletionsAreThorough'
  BY <1>3 DEF IInv, DeletionRevokesLogins, DeletionsAreThorough, Check, event
<1>5. NoEntryBehindAShutDoor' /\ (Admitting => knocked = {})'
  BY DoorKept DEF Check, Admitting, event
<1> QED BY <1>1, <1>2, <1>4, <1>5 DEF IInv

LEMMA WritingForm ==
  ASSUME IInv, NEW r \in Request, NEW op, Writing(r, op)
  PROVE  /\ req' \in [Request -> Call]
         /\ CallsAreFormed'
         /\ op \in CredentialOp => req[r].cred \in Cred
         /\ Deleting' = Deleting
         /\ \A q \in Request : req'[q].rows = req[q].rows
         /\ UNCHANGED <<over, conn, file>>
<1>1. req' \in [Request -> Call]
  <2>1. req[r] \in Call /\ req \in [Request -> Call]
    BY DEF IInv, TypeOK, Call
  <2>2. [req[r] EXCEPT !.pc = "done"] \in Call
    BY <2>1 DEF Call
  <2>3. req' = [req EXCEPT ![r] = [req[r] EXCEPT !.pc = "done"]]
    BY DEF Writing
  <2> QED BY <2>1, <2>2, <2>3
<1>2. CallsAreFormed' /\ (op \in CredentialOp => req[r].cred \in Cred)
  BY DEF IInv, TypeOK, Call, CallsAreFormed, Writing
<1>3. Deleting' = Deleting /\ \A q \in Request : req'[q].rows = req[q].rows
  BY DEF IInv, TypeOK, Call, Writing, Deleting
<1> QED BY <1>1, <1>2, <1>3 DEF Writing

LEMMA SetStatusInv ==
  ASSUME IInv, NEW r \in Request, SetStatus(r)
  PROVE  IInv'
<1>1. PICK op \in {"close", "reopen"} : Writing(r, op)
  BY DEF SetStatus
<1>2. TypeOK' /\ CallsAreFormed'
  BY <1>1, WritingForm DEF IInv, TypeOK, Call, SetStatus, DoorMoves
<1>3. knocked' \subseteq knocked /\ UNCHANGED <<conn, deleted, cred, late>>
  BY <1>1, WritingForm DEF SetStatus, DoorMoves
<1>4. (Admitting => knocked = {})'
  BY DEF SetStatus, DoorMoves
<1>5. DeletionRevokesLogins' /\ DeletionsAreThorough'
  BY <1>1, <1>3, WritingForm, LoginsKept
<1> QED BY <1>2, <1>3, <1>4, <1>5 DEF IInv, NoEntryBehindAShutDoor

LEMMA RevokeLoginsInv ==
  ASSUME IInv, NEW r \in Request, RevokeLogins(r)
  PROVE  IInv'
<1> DEFINE seen == {c \in Cred : cred[c].made /\ ~cred[c].revoked}
<1>1. req' = [req EXCEPT ![r].pc = "revoking", ![r].rows = seen]
  BY DEF RevokeLogins
<1>2. TypeOK' /\ CallsAreFormed'
  <2>1. seen \in SUBSET Cred
    OBVIOUS
  <2> HIDE DEF seen
  <2>2. req' \in [Request -> Call]
    <3>1. [req[r] EXCEPT !.pc = "revoking", !.rows = seen] \in Call
      <4>1. req[r] \in Call
        BY DEF IInv, TypeOK, Call
      <4> QED BY <4>1, <2>1 DEF Call
    <3>2. req' = [req EXCEPT ![r] = [req[r] EXCEPT !.pc = "revoking", !.rows = seen]]
      BY <1>1
    <3> QED BY <3>1, <3>2 DEF IInv, TypeOK, Call
  <2>3. CallsAreFormed'
    BY <1>1 DEF IInv, TypeOK, CallsAreFormed
  <2> QED BY <2>2, <2>3 DEF IInv, TypeOK, Call, RevokeLogins, event
<1>3. /\ req'[r].rows = seen
      /\ \A q \in Deleting' : q # r => q \in Deleting /\ req'[q] = req[q]
  BY <1>1 DEF IInv, TypeOK, Call, Deleting
<1>4. DeletionRevokesLogins' /\ DeletionsAreThorough'
  BY <1>3 DEF IInv, DeletionRevokesLogins, DeletionsAreThorough, RevokeLogins, event
<1>5. NoEntryBehindAShutDoor' /\ (Admitting => knocked = {})'
  BY DoorKept DEF RevokeLogins, Admitting, event
<1> QED BY <1>2, <1>4, <1>5 DEF IInv

LEMMA DeletedForm ==
  ASSUME IInv, NEW r \in Request, Deleted(r)
  PROVE  /\ req' \in [Request -> Call]
         /\ CallsAreFormed'
         /\ r \in Deleting /\ Deleting' = Deleting \ {r}
         /\ \A q \in Deleting' : req'[q] = req[q]
         /\ UNCHANGED <<over, fresh, conn, file, knocked>>
<1>1. req' \in [Request -> Call]
  <2>1. [req[r] EXCEPT !.pc = "done", !.rows = {}] \in Call
    <3>1. req[r] \in Call
      BY DEF IInv, TypeOK, Call
    <3> QED BY <3>1 DEF Call
  <2>2. req' = [req EXCEPT ![r] = [req[r] EXCEPT !.pc = "done", !.rows = {}]]
    BY DEF Deleted
  <2> QED BY <2>1, <2>2 DEF IInv, TypeOK, Call
<1>2. CallsAreFormed'
  BY DEF IInv, TypeOK, CallsAreFormed, Deleted
<1>3. /\ r \in Deleting /\ Deleting' = Deleting \ {r}
      /\ \A q \in Deleting' : req'[q] = req[q]
  BY DEF IInv, TypeOK, Call, Deleted, Deleting
<1> QED BY <1>1, <1>2, <1>3 DEF Deleted

LEMMA DeleteEventInv ==
  ASSUME IInv, NEW r \in Request, DeleteEvent(r)
  PROVE  IInv'
<1>1. Deleted(r)
  BY DEF DeleteEvent
<1>2. \A c \in Cred : /\ cred'[c].made = cred[c].made
                      /\ cred'[c].revoked = (cred[c].revoked \/ c \in req[r].rows)
  BY DEF DeleteEvent, IInv, TypeOK, Call
<1>3. TypeOK' /\ CallsAreFormed'
  <2>1. cred' \in [Cred -> [made: BOOLEAN, revoked: BOOLEAN, hash: 0..MaxPassword]]
    <3>1. \A c \in Cred : [cred[c] EXCEPT !.revoked = @ \/ c \in req[r].rows]
                            \in [made: BOOLEAN, revoked: BOOLEAN, hash: 0..MaxPassword]
      <4> TAKE c \in Cred
      <4>1. cred[c] \in [made: BOOLEAN, revoked: BOOLEAN, hash: 0..MaxPassword]
        BY DEF IInv, TypeOK, Call
      <4>2. (cred[c].revoked \/ c \in req[r].rows) \in BOOLEAN
        OBVIOUS
      <4> QED BY <4>1, <4>2
    <3> QED BY <3>1 DEF DeleteEvent
  <2> QED BY <1>1, <2>1, DeletedForm DEF IInv, TypeOK, Call, DeleteEvent
<1>4. \A c \in Cred : cred'[c].made /\ ~cred'[c].revoked => c \in late'
  BY <1>1, <1>2, DeletedForm DEF IInv, DeletionsAreThorough, DeleteEvent
<1>5. DeletionRevokesLogins' /\ DeletionsAreThorough'
  BY <1>4 DEF DeletionRevokesLogins, DeletionsAreThorough
<1>6. NoEntryBehindAShutDoor' /\ (Admitting => knocked = {})'
  BY <1>1, DeletedForm, DoorKept DEF DeleteEvent, Admitting
<1> QED BY <1>3, <1>5, <1>6 DEF IInv

LEMMA DeletionFailsInv ==
  ASSUME IInv, NEW r \in Request, DeletionFails(r)
  PROVE  IInv'
<1>1. Deleted(r) /\ UNCHANGED <<event, cred>>
  BY DEF DeletionFails
<1>2. TypeOK' /\ CallsAreFormed'
  BY <1>1, DeletedForm DEF IInv, TypeOK, Call, DeletionFails, event
<1>3. DeletionRevokesLogins' /\ DeletionsAreThorough'
  <2>1. CASE deleted \/ Deleting # {r}
    BY <1>1, <2>1, DeletedForm
       DEF IInv, DeletionFails, DeletionRevokesLogins, DeletionsAreThorough, event
  <2>2. CASE ~deleted /\ Deleting = {r}
    BY <1>1, <2>2, DeletedForm DEF DeletionRevokesLogins, DeletionsAreThorough, event
  <2> QED BY <2>1, <2>2
<1>4. NoEntryBehindAShutDoor' /\ (Admitting => knocked = {})'
  BY <1>1, DeletedForm, DoorKept DEF Admitting, event
<1> QED BY <1>2, <1>3, <1>4 DEF IInv

LEMMA CreateCredentialInv ==
  ASSUME IInv, NEW r \in Request, CreateCredential(r)
  PROVE  IInv'
<1> DEFINE c == req[r].cred
<1>1. Writing(r, "create") /\ c \in Cred /\ fresh + 1 \in 0..MaxPassword
  BY WritingForm, PasswordAssumption
     DEF CreateCredential, CredentialOp, IInv, TypeOK, Call
<1>2. TypeOK' /\ CallsAreFormed'
  BY <1>1, WritingForm DEF IInv, TypeOK, Call, CreateCredential, event
<1>3. /\ late \subseteq late' /\ deleted' = deleted
      /\ \A d \in Cred : d # c => cred'[d] = cred[d]
      /\ c \in late' \/ (~deleted /\ Deleting = {})
  BY <1>1 DEF CreateCredential, IInv, TypeOK, Call, event
<1>4. DeletionRevokesLogins' /\ DeletionsAreThorough'
  BY <1>1, <1>3, WritingForm, LoginsKept
<1>5. NoEntryBehindAShutDoor' /\ (Admitting => knocked = {})'
  BY <1>1, WritingForm, DoorKept DEF CreateCredential, Admitting, event
<1> QED BY <1>2, <1>4, <1>5 DEF IInv

LEMMA RegeneratePasswordInv ==
  ASSUME IInv, NEW r \in Request, RegeneratePassword(r)
  PROVE  IInv'
<1>1. Writing(r, "regenerate") /\ req[r].cred \in Cred /\ fresh + 1 \in 0..MaxPassword
  BY WritingForm, PasswordAssumption
     DEF RegeneratePassword, CredentialOp, IInv, TypeOK, Call
<1>2. TypeOK' /\ CallsAreFormed'
  BY <1>1, WritingForm DEF IInv, TypeOK, Call, RegeneratePassword, event
<1>3. /\ UNCHANGED <<late, deleted>>
      /\ \A c \in Cred : cred'[c].made = cred[c].made /\ cred'[c].revoked = cred[c].revoked
  BY <1>1 DEF RegeneratePassword, IInv, TypeOK, Call, event
<1>4. DeletionRevokesLogins' /\ DeletionsAreThorough'
  BY <1>1, <1>3, WritingForm, LoginsKept
<1>5. NoEntryBehindAShutDoor' /\ (Admitting => knocked = {})'
  BY <1>1, WritingForm, DoorKept DEF RegeneratePassword, Admitting, event
<1> QED BY <1>2, <1>4, <1>5 DEF IInv

LEMMA RevokeCredentialInv ==
  ASSUME IInv, NEW r \in Request, RevokeCredential(r)
  PROVE  IInv'
<1>1. Writing(r, "revoke") /\ req[r].cred \in Cred
  BY WritingForm DEF RevokeCredential, CredentialOp
<1>2. TypeOK' /\ CallsAreFormed'
  BY <1>1, WritingForm, ZenonT(60) DEF IInv, TypeOK, Call, RevokeCredential, event
<1>3. /\ UNCHANGED <<late, deleted>>
      /\ \A c \in Cred : cred'[c].made = cred[c].made /\ (cred[c].revoked => cred'[c].revoked)
  BY <1>1 DEF RevokeCredential, IInv, TypeOK, Call, event
<1>4. DeletionRevokesLogins' /\ DeletionsAreThorough'
  BY <1>1, <1>3, WritingForm, LoginsKept
<1>5. NoEntryBehindAShutDoor' /\ (Admitting => knocked = {})'
  BY <1>1, WritingForm, DoorKept DEF RevokeCredential, Admitting, event
<1> QED BY <1>2, <1>4, <1>5 DEF IInv

--------------------------------------------------------------------------------
(* The cameras and the browser. *)

LEMMA ReadCredentialInv ==
  ASSUME IInv, NEW k \in Connection, NEW c \in Cred, NEW password \in 1..MaxPassword,
         ReadCredential(k, c, password)
  PROVE  IInv'
<1>1. TypeOK' /\ CallsAreFormed'
  BY DEF IInv, TypeOK, CallsAreFormed, ReadCredential, event
<1>2. NoEntryBehindAShutDoor' /\ (Admitting => knocked = {})'
  BY DEF IInv, TypeOK, Call, NoEntryBehindAShutDoor, ReadCredential, Admitting, event
<1>3. DeletionRevokesLogins' /\ DeletionsAreThorough'
  BY LoginsKept DEF ReadCredential, Deleting, event
<1> QED BY <1>1, <1>2, <1>3 DEF IInv

LEMMA ReadEventInv ==
  ASSUME IInv, NEW k \in Connection, ReadEvent(k)
  PROVE  IInv'
<1>1. TypeOK' /\ CallsAreFormed'
  BY DEF IInv, TypeOK, CallsAreFormed, ReadEvent, Off, event
<1>2. NoEntryBehindAShutDoor' /\ (Admitting => knocked = {})'
  BY DEF IInv, TypeOK, Call, NoEntryBehindAShutDoor, ReadEvent, Off, Admitting, event
<1>3. DeletionRevokesLogins' /\ DeletionsAreThorough'
  BY LoginsKept DEF ReadEvent, Deleting, event
<1> QED BY <1>1, <1>2, <1>3 DEF IInv

LEMMA DisconnectInv ==
  ASSUME IInv, NEW k \in Connection, Disconnect(k)
  PROVE  IInv'
<1>1. TypeOK' /\ CallsAreFormed'
  BY DEF IInv, TypeOK, CallsAreFormed, Disconnect, Off, event
<1>2. NoEntryBehindAShutDoor' /\ (Admitting => knocked = {})'
  BY DEF IInv, TypeOK, Call, NoEntryBehindAShutDoor, Disconnect, Off, Admitting, event
<1>3. DeletionRevokesLogins' /\ DeletionsAreThorough'
  BY LoginsKept DEF Disconnect, Deleting, event
<1> QED BY <1>1, <1>2, <1>3 DEF IInv

(* Files and the clock touch nothing but themselves. *)
LEMMA FileInv ==
  ASSUME IInv, UNCHANGED <<event, cred, fresh, req, conn, late, knocked>>,
         over' \in BOOLEAN,
         file' \in [Upload -> Accepted \cup {"none", "row", "dropped"}]
  PROVE  IInv'
<1>1. TypeOK' /\ CallsAreFormed'
  BY DEF IInv, TypeOK, CallsAreFormed, event
<1>2. NoEntryBehindAShutDoor' /\ (Admitting => knocked = {})'
  BY DoorKept DEF Admitting, event
<1>3. DeletionRevokesLogins' /\ DeletionsAreThorough'
  BY LoginsKept DEF Deleting, event
<1> QED BY <1>1, <1>2, <1>3 DEF IInv

LEMMA UploadInv ==
  ASSUME IInv, NEW u \in Upload,
         \/ \E k \in Connection : Stor(u, k)
         \/ \E user \in User : BrowserPost(u, user)
         \/ InsertRow(u)
         \/ UploadDropped(u)
  PROVE  IInv'
<1>1. PICK s \in Accepted \cup {"row", "dropped"} : file' = [file EXCEPT ![u] = s]
  BY DEF Stor, BrowserPost, InsertRow, UploadDropped, Accepted
<1>2. UNCHANGED <<event, over, cred, fresh, req, conn, late, knocked>>
  BY DEF Stor, BrowserPost, InsertRow, UploadDropped
<1>3. file' \in [Upload -> Accepted \cup {"none", "row", "dropped"}] /\ over' \in BOOLEAN
  BY <1>1, <1>2 DEF IInv, TypeOK, Call
<1> QED BY <1>2, <1>3, FileInv

--------------------------------------------------------------------------------
LEMMA Inductive == IInv /\ [Next]_vars => IInv'
<1> SUFFICES ASSUME IInv, [Next]_vars PROVE IInv'
  OBVIOUS
<1>1. CASE RequestNext
  BY <1>1, CheckInv, SetStatusInv, RevokeLoginsInv, DeleteEventInv, DeletionFailsInv,
     CreateCredentialInv, RegeneratePasswordInv, RevokeCredentialInv DEF RequestNext
<1>2. CASE CameraNext
  BY <1>2, ReadCredentialInv, ReadEventInv, DisconnectInv, UploadInv DEF CameraNext
<1>3. CASE Expire
  BY <1>3, FileInv DEF Expire, IInv, TypeOK, Call
<1>4. CASE UNCHANGED vars
  BY <1>4, FileInv DEF vars, IInv, TypeOK, Call
<1> QED BY <1>1, <1>2, <1>3, <1>4 DEF Next

LEMMA Invariant == Spec => []IInv
BY InitInv, Inductive, PTL DEF Spec

(* Every variable keeps its type.                                           *)
THEOREM AccessTypes == Spec => []TypeOK
<1>1. IInv => TypeOK
  BY DEF IInv
<1> QED BY <1>1, Invariant, PTL

(* A camera whose login began behind the shut door of an event that is      *)
(* closed or deleted never gets in before somebody reopens it, for any      *)
(* number of cameras and of calls that were checked too early.              *)
THEOREM ShutDoor == Spec => []NoEntryBehindAShutDoor
<1>1. IInv => NoEntryBehindAShutDoor
  BY DEF IInv
<1> QED BY <1>1, Invariant, PTL

(* However the two statements of a deletion, the inserts of logins, other   *)
(* deletions and their failures interleave: a login of a deleted event is   *)
(* revoked, unless it was inserted when a deletion had already looked.      *)
THEOREM LoginsDieWithTheEvent == Spec => []DeletionRevokesLogins
<1>1. IInv => DeletionRevokesLogins
  BY DEF IInv
<1> QED BY <1>1, Invariant, PTL

(* A deleted event that nobody is connected to and no file is on its way to *)
(* takes no photo any more.                                                 *)
THEOREM Seal == Spec => SealedForGood
<1>1. ASSUME IInv, [Next]_vars, Sealed
      PROVE  Sealed' /\ \A u \in Upload : file[u] # "row" => file'[u] # "row"
  <2> USE <1>1 DEF Sealed
  <2>1. ASSUME NEW r \in Request, NEW op, Writing(r, op)
        PROVE  UNCHANGED <<conn, file>>
    BY <2>1 DEF Writing
  <2>2. CASE RequestNext
    BY <2>1, <2>2 DEF RequestNext, Check, SetStatus, RevokeLogins, DeleteEvent, DeletionFails,
                      Deleted, CreateCredential, RegeneratePassword, RevokeCredential,
                      ManagedEvent, event
  <2>3. ASSUME NEW k \in Connection,
               \/ \E c \in Cred, password \in 1..MaxPassword : ReadCredential(k, c, password)
               \/ ReadEvent(k) \/ Disconnect(k)
        PROVE  /\ UNCHANGED <<deleted, file>>
               /\ \A j \in Connection : conn'[j].pc # "open"
    <3>1. UNCHANGED <<deleted, file>>
      BY <2>3 DEF ReadCredential, ReadEvent, Disconnect, event
    <3>2. ~Admitting
      BY DEF Admitting
    <3>3. PICK c \in Cred \cup {NoCred} :
            conn' \in {[conn EXCEPT ![k] = [pc |-> "reading", cred |-> c]],
                      [conn EXCEPT ![k] = Off]}
      BY <2>3, <3>2 DEF ReadCredential, ReadEvent, Disconnect
    <3> QED BY <3>1, <3>3 DEF Off, IInv, TypeOK, Call
  <2>4. ~ \E u \in Upload : \/ \E k \in Connection : Stor(u, k)
                            \/ \E user \in User : BrowserPost(u, user)
                            \/ InsertRow(u) \/ UploadDropped(u)
    BY DEF Stor, BrowserPost, InsertRow, UploadDropped, ManagedEvent
  <2>5. CASE CameraNext
    BY <2>3, <2>4, <2>5 DEF CameraNext
  <2>6. CASE Expire \/ UNCHANGED vars
    BY <2>6 DEF Expire, vars, event
  <2> QED BY <2>2, <2>5, <2>6 DEF Next
<1>2. IInv /\ [Next]_vars
      => [Sealed => Sealed' /\ \A u \in Upload : file[u] # "row" => file'[u] # "row"]_vars
  BY <1>1
<1> QED BY <1>2, Invariant, PTL DEF Spec, SealedForGood
==============================================================================
