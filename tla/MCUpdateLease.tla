--------------------------- MODULE MCUpdateLease ---------------------------
(* TLC instances of UpdateLease. *)
EXTENDS UpdateLease

AnyPolicy == [enabled : BOOLEAN, open : BOOLEAN, idle : BOOLEAN]
Drainers == {[enabled |-> TRUE, open |-> TRUE, idle |-> FALSE]}
Fresh == {<<"idle", "none">>}
Legacy == {<<"idle", "none">>, <<"checking", "none">>, <<"idle", "unknown">>,
           <<"unknown", "none">>, <<"unknown", "install">>, <<"unknown", "unknown">>}
=============================================================================
