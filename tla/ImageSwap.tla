----------------------------- MODULE ImageSwap -----------------------------
(***************************************************************************)
(* What an install promises to whoever looks at the service from outside.     *)
(*                                                                         *)
(* One image serves at a time, or none.  One outcome is reported, and it names    *)
(* the image that serves when it is reported; from then on that image stays.       *)
(***************************************************************************)
VARIABLES serving,  \* the images that answer: {}, {"old"} or {"new"}
          told      \* the outcome the coordinator has recorded

Init == serving = {"old"} /\ told = "none"

Stop == told = "none" /\ serving' = {} /\ UNCHANGED told

Serve(image) ==
  /\ told = "none" /\ serving = {}
  /\ serving' = {image}
  /\ UNCHANGED told

Report(outcome) ==
  /\ told = "none"
  /\ serving = IF outcome = "succeeded" THEN {"new"} ELSE {"old"}
  /\ told' = outcome
  /\ UNCHANGED serving

Next ==
  \/ Stop
  \/ \E image \in {"old", "new"} : Serve(image)
  \/ \E outcome \in {"succeeded", "rolled_back", "failed"} : Report(outcome)

Spec == Init /\ [][Next]_<<serving, told>>
=============================================================================
