----------------------- MODULE RegistrationLifecycle -----------------------
(***************************************************************************)
(* What svc-idcreate promises about a registration, with the worker, the   *)
(* database and the chain abstracted away: the state machine a client of   *)
(* GET /api/status/{id} may observe.                                       *)
(*                                                                         *)
(* A registration is stored once its name commitment is broadcast, then    *)
(* climbs                                                                  *)
(*    pending_rnc_confirm -> ready_for_idr -> idr_submitted -> complete    *)
(* and may leave the ladder for "failed" from any rung.  complete and      *)
(* failed are final.  An operator may delete a registration at any time;   *)
(* it never comes back.  One commit of the worker may move several         *)
(* registrations, each by one rung.                                        *)
(***************************************************************************)

CONSTANT Requests       \* the registration requests ever received

VARIABLE stage          \* what a status query answers for each request

Live == {"pending_rnc_confirm", "ready_for_idr", "idr_submitted"}

Terminal == {"complete", "failed"}

Stages == {"unknown", "deleted"} \cup Live \cup Terminal

\* The stages one observable step may lead to.
Successors(s) ==
    CASE s = "unknown"             -> {"pending_rnc_confirm"}
      [] s = "pending_rnc_confirm" -> {"ready_for_idr", "failed", "deleted"}
      [] s = "ready_for_idr"       -> {"idr_submitted", "complete", "failed", "deleted"}
      [] s = "idr_submitted"       -> {"complete", "failed", "deleted"}
      [] s \in Terminal            -> {"deleted"}
      [] OTHER                     -> {}

TypeOK == stage \in [Requests -> Stages]

Init == stage = [r \in Requests |-> "unknown"]

\* Registrations may only move to a successor stage, all at once.
Advance ==
    /\ stage' \in [Requests -> Stages]
    /\ \A r \in Requests : stage'[r] = stage[r] \/ stage'[r] \in Successors(stage[r])

Spec == Init /\ [][Advance]_stage

\* No stored registration stays on the ladder for ever.  Requests are finitely
\* many and a request climbs it at most once, so it is enough to say so of all of
\* them together: again and again none is on the ladder.
Settles == []<>(\A r \in Requests : stage[r] \notin Live)

=============================================================================
