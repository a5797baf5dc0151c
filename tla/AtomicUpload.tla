----------------------------- MODULE AtomicUpload -----------------------------
(***************************************************************************)
(* What `serve files` promises about an upload, without chunks, staging    *)
(* files, handler threads or crashes: the catalog gets the whole file in   *)
(* one step or never gets it, keeps it, and the browser is told "ok" only  *)
(* about a file that is in the catalog.  A browser told "error" may still  *)
(* find its file stored: the answer can be lost after the insert.          *)
(***************************************************************************)
CONSTANTS Uploads,      \* upload ids, one per file a browser sends
          Whole,        \* the content of a completely transferred file
          Nothing       \* the catalog has no row for the upload

VARIABLES catalog,      \* what a download of the upload's row would return
          verdict       \* what the browser was told

vars == <<catalog, verdict>>

Init == /\ catalog = [u \in Uploads |-> Nothing]
        /\ verdict = [u \in Uploads |-> "pending"]

Store(u) == /\ catalog[u] = Nothing
            /\ catalog' = [catalog EXCEPT ![u] = Whole]
            /\ UNCHANGED verdict

TellOk(u) == /\ verdict[u] = "pending"
             /\ catalog[u] = Whole
             /\ verdict' = [verdict EXCEPT ![u] = "ok"]
             /\ UNCHANGED catalog

TellError(u) == /\ verdict[u] = "pending"
                /\ verdict' = [verdict EXCEPT ![u] = "error"]
                /\ UNCHANGED catalog

Next == \E u \in Uploads : Store(u) \/ TellOk(u) \/ TellError(u)

Spec == Init /\ [][Next]_vars
===============================================================================
