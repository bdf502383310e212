----------------------------- MODULE MCAutoGrab -----------------------------
EXTENDS AutoGrab

Backoff == <<2>>
Cooldown == <<1>>
=============================================================================
