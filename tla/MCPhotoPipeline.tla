--------------------------- MODULE MCPhotoPipeline ---------------------------
(* Instances of PhotoPipeline for TLC. *)
EXTENDS PhotoPipeline, TLC

(* Uploads, contents and workers are interchangeable (safety runs only). *)
Symmetry == Permutations(Photo) \cup Permutations(Content) \cup Permutations(Worker)

(* The liveness run fixes what the queue cannot tell apart: all uploads come *)
(* over FTP, with different contents.                                        *)
FtpInit ==
  /\ Init
  /\ via = [p \in Photo |-> "ftp"]
  /\ content = CHOOSE f \in [Photo -> Content] : \A p, q \in Photo : f[p] = f[q] => p = q
FtpFairSpec == FtpInit /\ [][Next]_vars /\ Fairness
==============================================================================
