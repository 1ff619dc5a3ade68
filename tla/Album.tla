-------------------------------- MODULE Album --------------------------------
(***************************************************************************)
(* What the photo pipeline promises to everybody who reads the database:   *)
(* an event's album has at most one entry per distinct photo content; an   *)
(* entry is born "ingested"; it gets a verdict ("processed" or "failed"),  *)
(* which later runs may replace but never take back; and it is only called *)
(* "processed" once its preview files have been rendered.  Nothing is said *)
(* about queues, workers, retries or which upload won a race.              *)
(*                                                                         *)
(* PhotoPipeline.tla is shown to implement this specification.             *)
(***************************************************************************)
CONSTANT Content        \* (event, sha256 of the file) pairs

VARIABLES album,        \* album[c]: the status the album shows for content c
          rendered      \* the contents whose preview files all exist

vars == <<album, rendered>>

Verdicts == {"processed", "failed"}

Init == /\ album = [c \in Content |-> "absent"]
        /\ rendered = {}

Accept(c) == /\ album[c] = "absent"
             /\ album' = [album EXCEPT ![c] = "ingested"]
             /\ UNCHANGED rendered

Render(c) == /\ album[c] # "absent"
             /\ rendered' = rendered \cup {c}
             /\ UNCHANGED album

Settle(c, verdict) == /\ album[c] # "absent"
                      /\ verdict = "processed" => c \in rendered
                      /\ album' = [album EXCEPT ![c] = verdict]
                      /\ UNCHANGED rendered

Next == \E c \in Content : \/ Accept(c)
                           \/ Render(c)
                           \/ \E verdict \in Verdicts : Settle(c, verdict)

Spec == Init /\ [][Next]_vars
==============================================================================
