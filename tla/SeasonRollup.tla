---------------------------- MODULE SeasonRollup ----------------------------
(***************************************************************************)
(* How the statuses of a show's seasons fold into the status of its request   *)
(* (domain/season_rollup.py).  The fold reads only WHICH statuses occur, so it   *)
(* is an operator on a set of them.                                         *)
(***************************************************************************)
EXTENDS Naturals

(* In this order: the first of them that occurs is the show's status.        *)
_PRECEDENCE_STATUSES == <<"import_blocked", "downloading", "searching",
                          "no_acceptable_release", "completed">>

rollup_status(statuses) ==
  LET wins == {i \in 1..5 : _PRECEDENCE_STATUSES[i] \in statuses}
      open == statuses \cap {"pending", "waiting_for_air_date"}
  IN CASE wins # {} -> _PRECEDENCE_STATUSES[CHOOSE i \in wins : \A j \in wins : i <= j]
       [] wins = {} /\ "available" \in statuses ->
            IF statuses = {"available"} THEN "available" ELSE "partially_available"
       [] wins = {} /\ "available" \notin statuses /\ open # {} ->
            IF "pending" \in open THEN "pending" ELSE "waiting_for_air_date"
       [] wins = {} /\ "available" \notin statuses /\ open = {} ->
            IF \E s \in {"evicted", "cancelled"} : statuses = {s}
            THEN CHOOSE s \in statuses : TRUE ELSE "failed"

(* What the request table calls finished (request_service).                  *)
TERMINAL_REQUEST_STATUS_VALUES == {"completed", "available", "failed", "evicted", "cancelled"}

_SETTLED_TV_SEASON_STATUS_VALUES == {"available", "completed", "evicted"}
=============================================================================
