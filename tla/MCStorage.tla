------------------------------ MODULE MCStorage ------------------------------
(***************************************************************************)
(* Instances of StorageUpload for TLC.                                     *)
(***************************************************************************)
EXTENDS StorageUpload

CONSTANTS u1, u2

OneUpload  == {u1}
TwoUploads == {u1, u2}

TwoChunks   == [u \in Uploads |-> 2]
TwoAndOne   == [u \in Uploads |-> IF u = u1 THEN 2 ELSE 1]

DictOnly  == {"dict"}
AnyAnswer == {"dict", "plain"}

AnyDaemon      == {"enabled", "disabled", "unresolved"}
EnabledOnly    == {"enabled"}
UnresolvedOnly == {"unresolved"}

-----------------------------------------------------------------------------

\* To keep the instance small, a retry finds one upload alone, and no other follows it.
Alone(u) == \A v \in Uploads \ {u} : uploads[v].status = "absent"

SharedNext ==
    \/ \E u \in Uploads :
          \/ CreateUpload(u) /\ retries = 0
          \/ CreateChunk(u) \/ ReturnId(u) \/ StartCheck(u) \/ StartUpdate(u)
          \/ RetryCheck(u) /\ Alone(u)
          \/ RetryUpdate(u) \/ World(u)
    \/ Sweep \/ Fault

SharedSpec == Init /\ [][SharedNext]_vars /\ Fairness

=============================================================================
