--------------------------- MODULE MCGrabProtocol ---------------------------
EXTENDS GrabProtocol, TLC

(* Two calls of grab differ only in what they are called with.               *)
Interchangeable == Permutations(Grabbers)
=============================================================================
