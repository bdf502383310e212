------------------------------ MODULE MCAccess ------------------------------
EXTENDS Access

Keys == <<"k1", "k2", "k3">>
Scenes ==
  {{"s1", "s2", "put"}, {"s1", "sweep", "put"}, {"s1", "put", "capture"},
   {"s1", "sweep", "world", "capture"}, {"s1", "s2", "setup"}, {"s1", "s2", "setup", "resume"}, {"s1", "put", "watch", "world"},
   {"s1", "put", "legacy"},
   {"h1", "h2", "e1", "logout"}, {"secret", "threads", "drain"}, {"h1", "threads", "drain"}}

ASSUME ScenesAssumption == LegacyIsSettled /\ OneEndMoves
=============================================================================
