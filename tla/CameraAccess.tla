----------------------------- MODULE CameraAccess -----------------------------
(***************************************************************************)
(* Who may put photos into an event, and when the door shuts:              *)
(*                                                                         *)
(*   packages/core  getManagedEvent and can, createFtpCredential,          *)
(*                  regenerateFtpPassword, revokeFtpCredential,            *)
(*                  setEventStatus, deleteEvent                            *)
(*   apps/ingest    authenticateCamera, the login and STOR handlers, which *)
(*                  keep what the login has read as long as the connection *)
(*   apps/web       the browser upload, checked once at its start          *)
(*                                                                         *)
(* Every use-case of packages/core first checks and then writes, and what  *)
(* it writes does not depend on what others have done in between.          *)
(* One event; the way of an accepted file is the subject of PhotoPipeline. *)
(***************************************************************************)
EXTENDS Naturals, FiniteSets

CONSTANTS
  Cred,           \* ids for ftp_credentials rows
  Connection,     \* FTP connections of cameras
  Request,        \* calls of the dashboard (bounds how many are made)
  Upload,         \* files sent
  User, RoleOf,   \* RoleOf[u]: what user u is in the event's organisation
  NoCred, NoOp,   \* null values
  MaxPassword     \* bound: passwords generated

Role == {"owner", "admin", "assigned", "unassigned", "outsider"}

ASSUME RoleAssumption == RoleOf \in [User -> Role]
ASSUME PasswordAssumption == MaxPassword \in Nat

VARIABLES
  status, deleted,   \* the events row: status; is deleted_at set?
  over,              \* is ends_at, the expiry of the credentials, past?
  cred,              \* ftp_credentials rows
  fresh,             \* passwords generated so far: each is a new number
  req,               \* the dashboard's calls
  conn,              \* the FTP connections
  file,              \* what has become of each file
  late,              \* history: credentials that were written when a deletion
                     \* had already looked for those to revoke
  knocked            \* history: connections whose login has, so far, met
                     \* nothing but a shut door

event == <<status, deleted>>
vars == <<event, over, cred, fresh, req, conn, file, late, knocked>>

(* A file that is on its way, from a camera or from a browser.              *)
Accepted == {"camera", "browser"}

NoRow == [made |-> FALSE, revoked |-> FALSE, hash |-> 0]
Idle == [pc |-> "idle", op |-> NoOp, cred |-> NoCred, rows |-> {}]
Off == [pc |-> "off", cred |-> NoCred]

CredentialOp == {"create", "regenerate", "revoke"}
Op == {"close", "reopen", "delete"} \cup CredentialOp

ASSUME NullAssumption == NoCred \notin Cred /\ NoOp \notin Op

Init ==
  /\ status = "live" /\ deleted = FALSE /\ over = FALSE
  /\ cred = [c \in Cred |-> NoRow] /\ fresh = 0
  /\ req = [r \in Request |-> Idle]
  /\ conn = [k \in Connection |-> Off]
  /\ file = [u \in Upload |-> "none"]
  /\ late = {} /\ knocked = {}

--------------------------------------------------------------------------------
(* The policy. *)

(* can(orgMember, "event.manage", event): the organisation's owner or admin.*)
Can(role) == role \in {"owner", "admin"}

(* A photographer manages the events he is assigned to.                     *)
Manages(u) == Can(RoleOf[u]) \/ RoleOf[u] = "assigned"

ManagedEvent(u) == ~deleted /\ Manages(u)

(* What authenticateCamera asks of the event.                               *)
Admitting == ~deleted /\ status \notin {"closed", "archived"}

--------------------------------------------------------------------------------
(* The dashboard's calls: a check, ...  Its two or three SELECTs are one    *)
(* step, that of the first: an event once deleted stays deleted, so a check *)
(* that passes would have passed at once.                                   *)
Check(r, u, op, c) ==
  /\ req[r].pc = "idle"
  /\ ManagedEvent(u)
  /\ IF op \in CredentialOp THEN c \in Cred ELSE c = NoCred
  /\ op = "create" => ~cred[c].made
  /\ op \in {"regenerate", "revoke"} => cred[c].made
  /\ op = "regenerate" => ~cred[c].revoked
  /\ req' = [req EXCEPT ![r] = [Idle EXCEPT !.pc = "checked", !.op = op, !.cred = c]]
  /\ UNCHANGED <<event, over, cred, fresh, conn, file, late, knocked>>

(* ... and then a write. *)
Writing(r, op) ==
  /\ req[r].pc = "checked" /\ req[r].op = op
  /\ req' = [req EXCEPT ![r].pc = "done"]
  /\ UNCHANGED <<over, conn, file>>

(* A login in progress has met an open door once the event admits.          *)
DoorMoves == knocked' = IF Admitting' THEN {} ELSE knocked

(* Mutant: an event is reopened as a draft. *)
ReopenAsDraft(r) ==
  /\ \/ Writing(r, "close") /\ status' = "closed"
     \/ Writing(r, "reopen") /\ status' = "draft"
  /\ UNCHANGED <<deleted, cred, fresh, late>>
  /\ DoorMoves

SetStatus(r) ==
  /\ \/ Writing(r, "close") /\ status' = "closed"
     \/ Writing(r, "reopen") /\ status' = "live"
  /\ UNCHANGED <<deleted, cred, fresh, late>>
  /\ DoorMoves

(* deleteEvent is one READ COMMITTED transaction of two statements.  The    *)
(* first revokes the logins that are committed when it starts, and locks    *)
(* their rows; nobody sees the revocation yet.                              *)
RevokeLogins(r) ==
  /\ req[r].pc = "checked" /\ req[r].op = "delete"
  /\ req' = [req EXCEPT ![r].pc = "revoking",
                        ![r].rows = {c \in Cred : cred[c].made /\ ~cred[c].revoked}]
  /\ UNCHANGED <<event, over, cred, fresh, conn, file, late, knocked>>

Deleting == {r \in Request : req[r].pc = "revoking"}

(* Whoever writes to one of those rows waits.  (So does the first statement *)
(* of another deletion; here either of the two may be the first to commit.) *)
Locked(c) == \E r \in Deleting : c \in req[r].rows

(* The end of the transaction.                                              *)
Deleted(r) ==
  /\ req[r].pc = "revoking"
  /\ req' = [req EXCEPT ![r].pc = "done", ![r].rows = {}]
  /\ UNCHANGED <<over, fresh, conn, file, knocked>>

(* Mutant: the credentials are left alone. *)
DeleteEventOnly(r) ==
  /\ Deleted(r)
  /\ deleted' = TRUE /\ status' = "archived"
  /\ UNCHANGED <<cred, late>>

(* The second statement and the commit: both take effect at once.           *)
DeleteEvent(r) ==
  /\ Deleted(r)
  /\ deleted' = TRUE /\ status' = "archived"
  /\ cred' = [c \in Cred |-> [cred[c] EXCEPT !.revoked = @ \/ c \in req[r].rows]]
  /\ UNCHANGED late

(* Or it is rolled back, and what was too late for it alone is not late.    *)
DeletionFails(r) ==
  /\ Deleted(r)
  /\ late' = IF deleted \/ Deleting # {r} THEN late ELSE {}
  /\ UNCHANGED <<event, cred>>

(* The insert of a login sees no lock: it is a row of its own.              *)
CreateCredential(r) ==
  LET c == req[r].cred
  IN  /\ Writing(r, "create")
      /\ ~cred[c].made /\ fresh < MaxPassword
      /\ fresh' = fresh + 1
      /\ cred' = [cred EXCEPT ![c] = [made |-> TRUE, revoked |-> FALSE, hash |-> fresh + 1]]
      /\ late' = IF deleted \/ Deleting # {} THEN late \cup {c} ELSE late
      /\ UNCHANGED <<event, knocked>>

RegeneratePassword(r) ==
  /\ Writing(r, "regenerate") /\ ~Locked(req[r].cred)
  /\ fresh < MaxPassword
  /\ fresh' = fresh + 1
  /\ cred' = [cred EXCEPT ![req[r].cred].hash = fresh + 1]
  /\ UNCHANGED <<event, late, knocked>>

RevokeCredential(r) ==
  /\ Writing(r, "revoke") /\ ~Locked(req[r].cred)
  /\ cred' = [cred EXCEPT ![req[r].cred].revoked = TRUE]
  /\ UNCHANGED <<event, fresh, late, knocked>>

RequestNext ==
  \/ \E r \in Request, u \in User, op \in Op, c \in Cred \cup {NoCred} : Check(r, u, op, c)
  \/ \E r \in Request : \/ SetStatus(r)
                        \/ RevokeLogins(r) \/ DeleteEvent(r) \/ DeletionFails(r)
                        \/ CreateCredential(r) \/ RegeneratePassword(r) \/ RevokeCredential(r)

--------------------------------------------------------------------------------
(* Cameras.  The include of authenticateCamera is a second SELECT: first the*)
(* credential is read (and any refusal that follows from it decided), ...   *)
ReadCredential(k, c, password) ==
  /\ conn[k].pc = "off"
  /\ cred[c].made /\ ~cred[c].revoked /\ ~over /\ cred[c].hash = password
  /\ conn' = [conn EXCEPT ![k] = [pc |-> "reading", cred |-> c]]
  /\ knocked' = IF Admitting THEN knocked \ {k} ELSE knocked \cup {k}
  /\ UNCHANGED <<event, over, cred, fresh, req, file, late>>

(* Mutant: a deleted event is not refused, only a closed one. *)
ReadStatus(k) ==
  /\ conn[k].pc = "reading"
  /\ conn' = [conn EXCEPT ![k] = IF status \in {"closed", "archived"} THEN Off
                                 ELSE [@ EXCEPT !.pc = "open"]]
  /\ UNCHANGED <<event, over, cred, fresh, req, file, late, knocked>>

(* ... then the event.                                                      *)
ReadEvent(k) ==
  /\ conn[k].pc = "reading"
  /\ conn' = [conn EXCEPT ![k] = IF Admitting THEN [@ EXCEPT !.pc = "open"] ELSE Off]
  /\ UNCHANGED <<event, over, cred, fresh, req, file, late, knocked>>

(* The camera hangs up, or the login or the server fails.                   *)
Disconnect(k) ==
  /\ conn[k].pc # "off"
  /\ conn' = [conn EXCEPT ![k] = Off]
  /\ UNCHANGED <<event, over, cred, fresh, req, file, late, knocked>>

(* STOR: processUpload starts, with the session of the connection.  It goes *)
(* on when the connection is gone.                                          *)
Stor(u, k) ==
  /\ conn[k].pc = "open"
  /\ file[u] = "none"
  /\ file' = [file EXCEPT ![u] = "camera"]
  /\ UNCHANGED <<event, over, cred, fresh, req, conn, late, knocked>>

(* Mutant: the browser route only looks at the membership. *)
BrowserPostUnchecked(u, user) ==
  /\ Manages(user)
  /\ file[u] = "none"
  /\ file' = [file EXCEPT ![u] = "browser"]
  /\ UNCHANGED <<event, over, cred, fresh, req, conn, late, knocked>>

(* The browser's POST: getManagedEvent, which does not ask for the status.  *)
BrowserPost(u, user) ==
  /\ ManagedEvent(user)
  /\ file[u] = "none"
  /\ file' = [file EXCEPT ![u] = "browser"]
  /\ UNCHANGED <<event, over, cred, fresh, req, conn, late, knocked>>

(* prisma.photo.create: the events row is there, deleted or not.            *)
InsertRow(u) ==
  /\ file[u] \in Accepted
  /\ file' = [file EXCEPT ![u] = "row"]
  /\ UNCHANGED <<event, over, cred, fresh, req, conn, late, knocked>>

UploadDropped(u) ==
  /\ file[u] \in Accepted
  /\ file' = [file EXCEPT ![u] = "dropped"]
  /\ UNCHANGED <<event, over, cred, fresh, req, conn, late, knocked>>

CameraNext ==
  \/ \E k \in Connection :
       \/ \E c \in Cred, password \in 1..MaxPassword : ReadCredential(k, c, password)
       \/ ReadEvent(k) \/ Disconnect(k)
       \/ \E u \in Upload : Stor(u, k)
  \/ \E u \in Upload : \/ \E user \in User : BrowserPost(u, user)
                       \/ InsertRow(u) \/ UploadDropped(u)

(* ends_at passes. *)
Expire ==
  /\ ~over /\ over' = TRUE
  /\ UNCHANGED <<event, cred, fresh, req, conn, file, late, knocked>>

Next == RequestNext \/ CameraNext \/ Expire

Spec == Init /\ [][Next]_vars

--------------------------------------------------------------------------------
TypeOK ==
  /\ status \in {"live", "closed", "archived"}
  /\ deleted \in BOOLEAN /\ over \in BOOLEAN
  /\ cred \in [Cred -> [made: BOOLEAN, revoked: BOOLEAN, hash: 0..MaxPassword]]
  /\ fresh \in 0..MaxPassword
  /\ req \in [Request -> [pc: {"idle", "checked", "revoking", "done"}, op: Op \cup {NoOp},
                          cred: Cred \cup {NoCred}, rows: SUBSET Cred]]
  /\ conn \in [Connection -> [pc: {"off", "reading", "open"}, cred: Cred \cup {NoCred}]]
  /\ file \in [Upload -> Accepted \cup {"none", "row", "dropped"}]
  /\ late \subseteq Cred /\ knocked \subseteq Connection

(* "Ending an event closes the door on new photos" (auth.ts:42): a camera   *)
(* whose login began behind the shut door does not get in, unless somebody  *)
(* reopens it meanwhile - whatever credentials and status changes of other  *)
(* calls, checked before a deletion, are written after it.                  *)
NoEntryBehindAShutDoor == \A k \in Connection : conn[k].pc = "open" => k \notin knocked

(* "Cameras rejected" (events.ts:321): a credential of a deleted event is   *)
(* revoked, except when its insert came after a deletion had looked for the *)
(* logins to revoke, be it before that deletion was seen or after; and what *)
(* a deletion has looked at stays revoked, whatever is written meanwhile.   *)
DeletionRevokesLogins ==
  deleted => \A c \in Cred : cred[c].made /\ ~cred[c].revoked => c \in late

(* A deleted event that nobody is connected to and no file is on its way to *)
(* is sealed: no later call, login or upload ever adds a photo.             *)
Sealed == /\ deleted
          /\ \A k \in Connection : conn[k].pc # "open"
          /\ \A u \in Upload : file[u] \notin Accepted
SealedForGood == [][Sealed => Sealed' /\ \A u \in Upload : file[u] # "row" => file'[u] # "row"]_vars

==============================================================================
