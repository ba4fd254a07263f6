----------------------------- MODULE StoredFile -----------------------------
(***************************************************************************)
(* What a caller of UploadedFileService may rely on, without markers,      *)
(* leases, claims or sweeps: the life of a file and of its bytes.  A file  *)
(* is reserved hidden before its first byte, becomes visible at most once  *)
(* and only with its bytes, keeps them as long as it is visible, is dead   *)
(* for good once it is condemned, and is forgotten only without bytes.     *)
(***************************************************************************)

CONSTANT Files

VARIABLES
  stage,   \* stage[f]: absent, hidden, visible, dead or forgotten
  stored   \* stored[f]: its bytes are in storage

storedVars == << stage, stored >>

Stages == {"absent", "hidden", "visible", "dead", "forgotten"}

StoredInit ==
  /\ stage = [f \in Files |-> "absent"]
  /\ stored = [f \in Files |-> FALSE]

Moves(f, from, to) == stage[f] \in from /\ stage'[f] = to /\ stored'[f] = stored[f]

Reserve(f) == Moves(f, {"absent"}, "hidden")

\* A write may arrive when the file was condemned meanwhile.
Store(f) == stage[f] \in {"hidden", "dead"} /\ stage'[f] = stage[f] /\ stored'[f]

Publish(f) == stored[f] /\ Moves(f, {"hidden"}, "visible")

\* A deletion, a failed upload or an expiry; a forgotten file may be condemned
\* once more by the uploader that looks after its own failure.
Condemn(f) == Moves(f, {"hidden", "visible", "forgotten"}, "dead")

Erase(f) == stage[f] = "dead" /\ stage'[f] = "dead" /\ ~stored'[f]

\* Nothing leads to the key of the file any more.
Forget(f) == ~stored[f] /\ Moves(f, {"dead"}, "forgotten")

Rest(f) == stage'[f] = stage[f] /\ stored'[f] = stored[f]

\* One statement or one call to storage may concern several files.
StoredNext ==
  /\ stage' \in [Files -> Stages]
  /\ stored' \in [Files -> BOOLEAN]
  /\ \A f \in Files :
       Rest(f) \/ Reserve(f) \/ Store(f) \/ Publish(f) \/ Condemn(f) \/ Erase(f) \/ Forget(f)

StoredSpec == StoredInit /\ [][StoredNext]_storedVars
=============================================================================
