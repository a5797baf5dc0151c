--------------------------- MODULE MCChunkedUpload ----------------------------
(* ChunkedUpload for TLC.  Uploads meet only through the server process, so a *)
(* run with a browser's and another client's upload looks at one of the two. *)
EXTENDS ChunkedUpload, FiniteSets

OneAtATime == Cardinality({u \in Uploads : client[u] # "idle"}) <= 1
===============================================================================
