---------------------------- MODULE ChunkedUpload -----------------------------
(***************************************************************************)
(* The chunked upload of `serve files`: a browser (ntc_web/src/api.ts)     *)
(* splits a file into chunks and posts them one after the other; a thread  *)
(* per request (serve.rs) appends each to <id>.part, records its progress  *)
(* in <id>.meta, and on upload-finalize renames the part file into place   *)
(* and inserts a catalog row.  No lock covers the staging files.           *)
(*                                                                         *)
(* Chunks are numbered from 0 and have one unit of size, so a part file is *)
(* the sequence of the chunk numbers appended to it.  Names of stored      *)
(* files carry a nanosecond stamp and are taken to be unique.  Removing a  *)
(* file never fails here (the code ignores the failure).                   *)
(***************************************************************************)
EXTENDS Naturals, Sequences

CONSTANTS Uploads,      \* upload ids, one random UUID per file a browser sends
          Browsers,     \* those made by the web page, the others by any HTTP client
          NumChunks,    \* chunks of a file
          MaxCrashes,   \* bound: crashes of the server process
          MaxStops,     \* bound: times ctrl-c ends the server's accept loop
          MaxRivals,    \* bound: further `serve files` processes started
          Absent        \* no such file

ASSUME BrowsersAssumption == Browsers \subseteq Uploads
ASSUME NumChunksAssumption == NumChunks \in Nat \ {0}
ASSUME BoundsAssumption == {MaxCrashes, MaxStops, MaxRivals} \subseteq Nat
ASSUME AbsentAssumption == /\ Absent \notin Seq(Nat)
                           /\ Absent \notin [next : Nat, received : Nat]

VARIABLES
    client,     \* client[u]: where the browser is with upload u
    req,        \* req[u]: its newest chunk or finalize request, and the handler
    cancel,     \* cancel[u]: its upload-cancel request, and the handler
    part,       \* part[u]: content of chunks/<id>.part
    meta,       \* meta[u]: content of chunks/<id>.meta
    final,      \* final[u]: content of the stored file in files/
    rows,       \* uploads with a row in the files table
    spool,      \* request bodies and extracted chunks left in files/
    server,     \* its accept loop: "up", "down" or "wiping" before it starts
    wipe,       \* staging files the starting server still has to remove
    rivalWipe,  \* staging files a second starting server still has to remove
    crashes, stops, rivals,
    overrun     \* history: uploads with a handler at work during a wipe

staging == <<part, meta>>
store   == <<final, rows>>
machine == <<server, wipe, rivalWipe, crashes, stops, rivals>>
process == <<machine, overrun>>
vars == <<client, req, cancel, part, meta, final, rows, spool, process>>

-------------------------------------------------------------------------------
(* Content *)

Upto(n) == [k \in 1..n |-> k - 1]       \* the first n chunks, in order
Whole   == Upto(NumChunks)              \* the file the browser reads

(* A finalize request waits, checks and moves; a chunk request waits, is   *)
(* parsed to a disk file, checks, appends and writes its progress.         *)
Waiting    == {"none", "transit"}
Answered   == {"ok", "error", "lost"}
ChunkWork  == {"body", "parsed", "append", "dropping", "writeMeta"}
FinalWork  == {"finalize", "move", "copy", "dropPart", "dropMeta", "insert"}
CleanWork  == {"dropRejected", "cleanPart", "cleanMeta"}
Working    == ChunkWork \cup FinalWork \cup CleanWork

StagingFiles == Uploads \X {"part", "meta"}
Request == [at : Waiting \cup Answered \cup Working,
            op : {"chunk", "finalize"}, idx : 0..NumChunks-1,
            next : 0..NumChunks, received : 0..NumChunks]

NewRequest(op, i) ==
    [at |-> "transit", op |-> op, idx |-> i, next |-> 0, received |-> 0]

Goto(u, pc) == req' = [req EXCEPT ![u].at = pc]
Step(u, from, to) == req[u].at = from /\ Goto(u, to)

Init == /\ client = [u \in Uploads |-> "idle"]
        /\ req    = [u \in Uploads |-> [NewRequest("chunk", 0) EXCEPT !.at = "none"]]
        /\ cancel = [u \in Uploads |-> "none"]
        /\ part   = [u \in Uploads |-> Absent]
        /\ meta   = [u \in Uploads |-> Absent]
        /\ final  = [u \in Uploads |-> Absent]
        /\ rows   = {}
        /\ spool  = {}
        /\ server = "up"
        /\ wipe = {} /\ rivalWipe = {}
        /\ crashes = 0 /\ stops = 0 /\ rivals = 0
        /\ overrun = {}

-------------------------------------------------------------------------------
(* The browser: uploadChunked in ntc_web/src/api.ts *)

Disk == <<part, meta, final, rows, spool>>

Begin(u) ==
    /\ client[u] = "idle"
    /\ client' = [client EXCEPT ![u] = "chunk"]
    /\ req' = [req EXCEPT ![u] = NewRequest("chunk", 0)]
    /\ UNCHANGED <<cancel, Disk, process>>

(* The chunk was answered 2xx: the loop posts the next one, or finalizes.  *)
NextChunk(u) ==
    /\ client[u] = "chunk"
    /\ req[u].at = "ok"
    /\ req[u].idx + 1 < NumChunks
    /\ req' = [req EXCEPT ![u] = NewRequest("chunk", req[u].idx + 1)]
    /\ UNCHANGED <<client, cancel, Disk, process>>

AskFinalize(u) ==
    /\ client[u] = "chunk"
    /\ req[u].at = "ok"
    /\ req[u].idx + 1 >= NumChunks
    /\ client' = [client EXCEPT ![u] = "finalize"]
    /\ req' = [req EXCEPT ![u] = NewRequest("finalize", 0)]
    /\ UNCHANGED <<cancel, Disk, process>>

(* Another client waits for the answers too, but may post any chunk or      *)
(* finalize next, whatever was answered, until its file is stored.         *)
AnyRequest(u) ==
    /\ u \notin Browsers
    /\ \/ client[u] = "chunk" /\ req[u].at \in {"ok", "error"}
       \/ client[u] = "finalize" /\ req[u].at = "error"
    /\ \/ /\ client' = [client EXCEPT ![u] = "finalize"]
          /\ req' = [req EXCEPT ![u] = NewRequest("finalize", 0)]
       \/ /\ client' = [client EXCEPT ![u] = "chunk"]
          /\ \E i \in 0..NumChunks-1 : req' = [req EXCEPT ![u] = NewRequest("chunk", i)]
    /\ UNCHANGED <<cancel, Disk, process>>

Finish(u) ==
    /\ client[u] = "finalize"
    /\ req[u].at = "ok"
    /\ client' = [client EXCEPT ![u] = "stored"]
    /\ UNCHANGED <<req, cancel, Disk, process>>

SendCancel(u) ==
    /\ client' = [client EXCEPT ![u] = "cancelling"]
    /\ cancel' = [cancel EXCEPT ![u] = "transit"]

(* Mutant: only the chunk loop reacts to an error.                         *)
RefusedChunkOnly(u) ==
    /\ client[u] = "chunk"
    /\ req[u].at = "error"
    /\ SendCancel(u)
    /\ UNCHANGED <<req, Disk, process>>

(* Both loops send upload-cancel when the server answers with an error.    *)
Refused(u) ==
    /\ client[u] \in {"chunk", "finalize"}
    /\ req[u].at = "error"
    /\ SendCancel(u)
    /\ UNCHANGED <<req, Disk, process>>

(* The connection fails under a chunk: xhr.onerror rejects, the browser    *)
(* cancels, and the request may still be on its way or being handled.      *)
ChunkConnectionLost(u) ==
    /\ client[u] = "chunk"
    /\ SendCancel(u)
    /\ UNCHANGED <<req, Disk, process>>

(* fetch of upload-finalize is outside any try: its failure is thrown to   *)
(* the caller and no cancel is sent.                                       *)
(* Mutant: the browser cancels here too.                                   *)
FinalizeConnectionLostCancels(u) ==
    /\ client[u] = "finalize"
    /\ SendCancel(u)
    /\ UNCHANGED <<req, Disk, process>>

FinalizeConnectionLost(u) ==
    /\ client[u] = "finalize"
    /\ client' = [client EXCEPT ![u] = "failed"]
    /\ UNCHANGED <<req, cancel, Disk, process>>

(* The cancel was answered, or its own failure is swallowed by catch {}.   *)
GiveUp(u) ==
    /\ client[u] = "cancelling"
    /\ client' = [client EXCEPT ![u] = "failed"]
    /\ UNCHANGED <<req, cancel, Disk, process>>

(* The network drops a request that nothing has accepted yet.              *)
LoseRequest(u) ==
    /\ Step(u, "transit", "lost")
    /\ UNCHANGED <<client, cancel, Disk, process>>

LoseCancel(u) ==
    /\ cancel[u] = "transit"
    /\ cancel' = [cancel EXCEPT ![u] = "lost"]
    /\ UNCHANGED <<client, req, Disk, process>>

-------------------------------------------------------------------------------
(* Handler of POST /api/upload-chunk *)

Others == <<client, cancel, process>>   \* what no handler of req[u] touches

Spooled(u, kind) == <<u, req[u].idx, kind>>
DropExtracted(u) == spool' = spool \ {Spooled(u, "extracted")}

(* handle_connection removes the body file after the route returned and    *)
(* before it writes the response.                                          *)
Answer(u, status) ==
    /\ Goto(u, status)
    /\ spool' = spool \ {Spooled(u, "body")}

(* A handler starts; the history notes a rival's wipe that is going on.    *)
Starts(u) ==
    /\ server = "up"
    /\ overrun' = IF rivalWipe = {} THEN overrun ELSE overrun \cup {u}
    /\ UNCHANGED machine

(* A thread accepts the connection and spools the multipart body.          *)
AcceptChunk(u) ==
    /\ Starts(u)
    /\ req[u].op = "chunk"
    /\ Step(u, "transit", "body")
    /\ spool' = spool \cup {Spooled(u, "body")}
    /\ UNCHANGED <<client, cancel, staging, store>>

(* The idle timeout or a read error aborts the body and removes its file.  *)
BodyFails(u) ==
    /\ req[u].at = "body"
    /\ Answer(u, "error")
    /\ UNCHANGED <<Others, staging, store>>

ParseChunk(u) ==
    /\ Step(u, "body", "parsed")
    /\ spool' = spool \cup {Spooled(u, "extracted")}
    /\ UNCHANGED <<Others, staging, store>>

(* The file part is being extracted when the disk fails: it is not yet in  *)
(* the parser's list of created files, and stays.                          *)
ParseFails(u) ==
    /\ req[u].at = "body"
    /\ Goto(u, "error")
    /\ spool' = (spool \ {Spooled(u, "body")}) \cup {Spooled(u, "partial")}
    /\ UNCHANGED <<Others, staging, store>>

(* The body ended early: the form fields after the file are missing.  400, *)
(* the extracted chunk is dropped and the staging is left alone.           *)
ChunkCutShort(u) ==
    /\ req[u].at = "parsed"
    /\ Goto(u, "error")
    /\ spool' = spool \ {Spooled(u, "extracted"), Spooled(u, "body")}
    /\ UNCHANGED <<Others, staging, store>>

StagedNext(u)     == IF meta[u] = Absent THEN 0 ELSE meta[u].next
StagedReceived(u) == IF meta[u] = Absent THEN 0 ELSE meta[u].received

InOrder(u) == /\ req[u].idx = StagedNext(u)
              /\ StagedReceived(u) + 1 <= NumChunks

CheckChunk(u) ==
    /\ req[u].at = "parsed"
    /\ InOrder(u)
    /\ req' = [req EXCEPT ![u].at = "append", ![u].next = StagedNext(u),
                          ![u].received = StagedReceived(u)]
    /\ UNCHANGED <<Others, Disk>>

RejectChunk(u) ==
    /\ req[u].at = "parsed"
    /\ ~InOrder(u)
    /\ Goto(u, "dropRejected")
    /\ UNCHANGED <<Others, Disk>>

(* The part file is opened for appending.                                 *)
Appended(u) == IF part[u] = Absent THEN <<req[u].idx>> ELSE Append(part[u], req[u].idx)

AppendChunk(u) ==
    /\ Step(u, "append", "dropping")
    /\ part' = [part EXCEPT ![u] = Appended(u)]
    /\ UNCHANGED <<Others, meta, store, spool>>

(* Mutant: a failed append is tried again.                                 *)
AppendFailsRetried(u) ==
    /\ Step(u, "append", "append")
    /\ part' \in {part, [part EXCEPT ![u] = Appended(u)]}
    /\ UNCHANGED <<Others, meta, store, spool>>

(* Opening or copying fails, before or after the bytes reached the file.   *)
AppendFails(u) ==
    /\ Step(u, "append", "dropRejected")
    /\ part' \in {part, [part EXCEPT ![u] = Appended(u)]}
    /\ UNCHANGED <<Others, meta, store, spool>>

DropChunk(u) ==
    /\ Step(u, "dropping", "writeMeta")
    /\ DropExtracted(u)
    /\ UNCHANGED <<Others, staging, store>>

WriteMeta(u) ==
    /\ req[u].at = "writeMeta"
    /\ meta' = [meta EXCEPT ![u] = [next |-> req[u].next + 1,
                                    received |-> req[u].received + 1]]
    /\ Answer(u, "ok")
    /\ UNCHANGED <<Others, part, store>>

WriteMetaFails(u) ==
    /\ Step(u, "writeMeta", "cleanPart")
    /\ UNCHANGED <<Others, Disk>>

(* Mutant: a rejected chunk's extracted file is forgotten.                 *)
DropRejectedForgets(u) ==
    /\ Step(u, "dropRejected", "cleanPart")
    /\ UNCHANGED <<Others, Disk>>

(* Every rejected or failed chunk drops its extracted file, then           *)
(* chunk_cleanup removes the part file and the meta file.                  *)
DropRejected(u) ==
    /\ Step(u, "dropRejected", "cleanPart")
    /\ DropExtracted(u)
    /\ UNCHANGED <<Others, staging, store>>

CleanPart(u) ==
    /\ Step(u, "cleanPart", "cleanMeta")
    /\ part' = [part EXCEPT ![u] = Absent]
    /\ UNCHANGED <<Others, meta, store, spool>>

CleanMeta(u) ==
    /\ req[u].at = "cleanMeta"
    /\ meta' = [meta EXCEPT ![u] = Absent]
    /\ Answer(u, "error")
    /\ UNCHANGED <<Others, part, store>>

-------------------------------------------------------------------------------
(* Handler of POST /api/upload-finalize; its JSON body stays in memory.    *)

AcceptFinalize(u) ==
    /\ Starts(u)
    /\ req[u].op = "finalize"
    /\ Step(u, "transit", "finalize")
    /\ UNCHANGED <<client, cancel, Disk>>

(* A body cut short or stalled is answered 400, 408 or 500.                *)
FinalizeUnreadable(u) ==
    /\ Step(u, "finalize", "error")
    /\ UNCHANGED <<Others, Disk>>

Complete(u) == meta[u] # Absent /\ meta[u].received = NumChunks

FinalizeUnknown(u) ==
    /\ meta[u] = Absent
    /\ Step(u, "finalize", "error")
    /\ UNCHANGED <<Others, Disk>>

FinalizeMismatch(u) ==
    /\ meta[u] # Absent
    /\ ~Complete(u)
    /\ Step(u, "finalize", "cleanPart")
    /\ UNCHANGED <<Others, Disk>>

FinalizeComplete(u) ==
    /\ Complete(u)
    /\ Step(u, "finalize", "move")
    /\ UNCHANGED <<Others, Disk>>

Rename(u) ==
    /\ part[u] # Absent
    /\ Step(u, "move", "dropMeta")
    /\ final' = [final EXCEPT ![u] = part[u]]
    /\ part' = [part EXCEPT ![u] = Absent]
    /\ UNCHANGED <<Others, meta, rows, spool>>

RenameFails(u) ==
    /\ Step(u, "move", "copy")
    /\ UNCHANGED <<Others, Disk>>

Copy(u) ==
    /\ part[u] # Absent
    /\ Step(u, "copy", "dropPart")
    /\ final' = [final EXCEPT ![u] = part[u]]
    /\ UNCHANGED <<Others, staging, rows, spool>>

(* The copy fails, before or after it created the target; a target cut     *)
(* short stays in files/.                                                  *)
CopyFails(u) ==
    /\ Step(u, "copy", "cleanPart")
    /\ \/ UNCHANGED final
       \/ /\ part[u] # Absent
          /\ final' = [final EXCEPT ![u] = << >>]
    /\ UNCHANGED <<Others, staging, rows, spool>>

DropPart(u) ==
    /\ Step(u, "dropPart", "dropMeta")
    /\ part' = [part EXCEPT ![u] = Absent]
    /\ UNCHANGED <<Others, meta, store, spool>>

DropMeta(u) ==
    /\ Step(u, "dropMeta", "insert")
    /\ meta' = [meta EXCEPT ![u] = Absent]
    /\ UNCHANGED <<Others, part, store, spool>>

Insert(u) ==
    /\ Step(u, "insert", "ok")
    /\ rows' = rows \cup {u}
    /\ UNCHANGED <<Others, staging, final, spool>>

(* Mutant: the failure to insert is not reported.                          *)
InsertFailsSilently(u) ==
    /\ Step(u, "insert", "ok")
    /\ final' = [final EXCEPT ![u] = Absent]
    /\ UNCHANGED <<Others, staging, rows, spool>>

InsertFails(u) ==
    /\ Step(u, "insert", "error")
    /\ final' = [final EXCEPT ![u] = Absent]
    /\ UNCHANGED <<Others, staging, rows, spool>>

-------------------------------------------------------------------------------
(* Handler of DELETE /api/upload-cancel: chunk_cleanup, in its own thread. *)

CancelPart(u) ==
    /\ Starts(u)
    /\ cancel[u] = "transit"
    /\ cancel' = [cancel EXCEPT ![u] = "cleanMeta"]
    /\ part' = [part EXCEPT ![u] = Absent]
    /\ UNCHANGED <<client, req, meta, store, spool>>

CancelMeta(u) ==
    /\ cancel[u] = "cleanMeta"
    /\ cancel' = [cancel EXCEPT ![u] = "done"]
    /\ meta' = [meta EXCEPT ![u] = Absent]
    /\ UNCHANGED <<client, req, part, store, spool, process>>

-------------------------------------------------------------------------------
(* The process: cmd_serve_files *)

Staged == {f \in StagingFiles : IF f[2] = "part" THEN part[f[1]] # Absent
                                                 ELSE meta[f[1]] # Absent}

AtWork == {u \in Uploads : req[u].at \in Working \/ cancel[u] = "cleanMeta"}

(* ctrl-c ends the accept loop and returns to the shell.  Handlers are     *)
(* detached threads and run on.                                            *)
Stop ==
    /\ server = "up"
    /\ stops < MaxStops
    /\ stops' = stops + 1
    /\ server' = "down"
    /\ UNCHANGED <<client, req, cancel, Disk, wipe, rivalWipe, crashes, rivals, overrun>>

(* The end of the process ends every handler; answers on the wire may      *)
(* still arrive.                                                           *)
Crash ==
    /\ crashes < MaxCrashes
    /\ crashes' = crashes + 1
    /\ server' = "down"
    /\ wipe' = {}
    /\ req' = [u \in Uploads |-> IF req[u].at \in Working
                                   THEN [req[u] EXCEPT !.at = "lost"] ELSE req[u]]
    /\ cancel' = [u \in Uploads |-> IF cancel[u] = "cleanMeta" THEN "lost" ELSE cancel[u]]
    /\ UNCHANGED <<client, Disk, rivalWipe, stops, rivals, overrun>>

(* `serve files`, in a new process or again in this one, lists chunks/ and *)
(* removes what is there, then binds.                                      *)
Start ==
    /\ server = "down"
    /\ server' = "wiping"
    /\ wipe' = Staged
    /\ overrun' = overrun \cup AtWork
    /\ UNCHANGED <<client, req, cancel, Disk, rivalWipe, crashes, stops, rivals>>

Remove(f) ==
    /\ part' = [part EXCEPT ![f[1]] = IF f[2] = "part" THEN Absent ELSE @]
    /\ meta' = [meta EXCEPT ![f[1]] = IF f[2] = "meta" THEN Absent ELSE @]

Wipe(f) ==
    /\ f \in wipe
    /\ wipe' = wipe \ {f}
    /\ Remove(f)
    /\ UNCHANGED <<client, req, cancel, store, spool, server, rivalWipe, crashes,
                   stops, rivals, overrun>>

(* The bind fails when the port is taken, and the command ends.            *)
Bind ==
    /\ server = "wiping"
    /\ wipe = {}
    /\ server' \in {"up", "down"}
    /\ UNCHANGED <<client, req, cancel, Disk, wipe, rivalWipe, crashes, stops,
                   rivals, overrun>>

(* A second `serve files` wipes the same directory before it even tries to *)
(* bind; whether the bind then succeeds changes nothing here.              *)
RivalStart ==
    /\ rivals < MaxRivals
    /\ rivalWipe = {}
    /\ rivals' = rivals + 1
    /\ rivalWipe' = Staged
    /\ overrun' = overrun \cup AtWork
    /\ UNCHANGED <<client, req, cancel, Disk, server, wipe, crashes, stops>>

RivalRemove(f) ==
    /\ f \in rivalWipe
    /\ rivalWipe' = rivalWipe \ {f}
    /\ Remove(f)
    /\ UNCHANGED <<client, req, cancel, store, spool, server, wipe, crashes, stops,
                   rivals, overrun>>

-------------------------------------------------------------------------------

Browser(u) ==
    \/ Begin(u) \/ NextChunk(u) \/ AskFinalize(u) \/ Finish(u)
    \/ Refused(u) \/ GiveUp(u) \/ AnyRequest(u)

Network(u) ==
    \/ ChunkConnectionLost(u) \/ FinalizeConnectionLost(u)
    \/ LoseRequest(u) \/ LoseCancel(u)

ChunkHandler(u) ==
    \/ AcceptChunk(u) \/ BodyFails(u) \/ ParseChunk(u) \/ ParseFails(u)
    \/ ChunkCutShort(u) \/ CheckChunk(u) \/ RejectChunk(u)
    \/ AppendChunk(u) \/ AppendFails(u) \/ DropChunk(u)
    \/ WriteMeta(u) \/ WriteMetaFails(u)
    \/ DropRejected(u) \/ CleanPart(u) \/ CleanMeta(u)

FinalizeHandler(u) ==
    \/ AcceptFinalize(u) \/ FinalizeUnreadable(u) \/ FinalizeUnknown(u)
    \/ FinalizeMismatch(u) \/ FinalizeComplete(u)
    \/ Rename(u) \/ RenameFails(u) \/ Copy(u) \/ CopyFails(u)
    \/ DropPart(u) \/ DropMeta(u) \/ Insert(u) \/ InsertFails(u)

CancelHandler(u) == CancelPart(u) \/ CancelMeta(u)

Process ==
    \/ Stop \/ Crash \/ Start \/ Bind \/ RivalStart
    \/ \E f \in StagingFiles : Wipe(f) \/ RivalRemove(f)

UploadStep(u) == \/ Browser(u) \/ Network(u)
                 \/ ChunkHandler(u) \/ FinalizeHandler(u) \/ CancelHandler(u)

Next == Process \/ \E u \in Uploads : UploadStep(u)

Spec == Init /\ [][Next]_vars

(* A browser acts on an answer, a running thread keeps running, a started  *)
(* server finishes its wipe, and a connection whose request is never       *)
(* answered fails in the end.  A server that went down need not be started *)
(* again, and no upload has to begin.                                      *)
Unanswerable(u) == req[u].at = "lost"
ConnectionFails(u) == /\ Unanswerable(u)
                      /\ ChunkConnectionLost(u) \/ FinalizeConnectionLost(u)
Fairness ==
    \A u \in Uploads :
        /\ WF_vars(NextChunk(u) \/ AskFinalize(u) \/ Finish(u) \/ Refused(u) \/ GiveUp(u))
        /\ WF_vars(ChunkHandler(u) \/ FinalizeHandler(u))
        /\ WF_vars(ConnectionFails(u))
        /\ WF_vars(LoseRequest(u) /\ server # "up")

FairSpec == Spec /\ Fairness

-------------------------------------------------------------------------------
(* Properties *)

TypeOK ==
    /\ client \in [Uploads -> {"idle", "chunk", "finalize", "cancelling", "stored", "failed"}]
    /\ req \in [Uploads -> Request]
    /\ cancel \in [Uploads -> {"none", "transit", "cleanMeta", "done", "lost"}]
    /\ part \in [Uploads -> Seq(0..NumChunks) \cup {Absent}]
    /\ meta \in [Uploads -> [next : 0..NumChunks, received : 0..NumChunks] \cup {Absent}]
    /\ final \in [Uploads -> Seq(0..NumChunks) \cup {Absent}]
    /\ rows \subseteq Uploads
    /\ spool \subseteq Uploads \X (0..NumChunks) \X {"body", "extracted", "partial"}
    /\ server \in {"up", "down", "wiping"}
    /\ wipe \subseteq StagingFiles
    /\ rivalWipe \subseteq StagingFiles
    /\ crashes \in 0..MaxCrashes
    /\ stops \in 0..MaxStops
    /\ rivals \in 0..MaxRivals
    /\ overrun \subseteq Uploads

(* A file with a catalog row holds every chunk of the upload exactly once  *)
(* and in order, although upload-finalize looks at the counters in the     *)
(* meta file only and never at the part file it renames (serve.rs:1790).   *)
(* Not so an upload of which a handler was at work while a server wiped    *)
(* the staging directory.                                                  *)
StoredExact == \A u \in rows \ overrun : final[u] = Whole

(* "anything left from a previous (crashed) session is garbage and can be  *)
(* removed now that no uploads are active" (serve.rs:264): the wipe takes  *)
(* nothing that a stored file then lacks.  Fails: ctrl-c leaves handlers   *)
(* running, and `serve files` given again wipes beneath them.              *)
WipedIsGarbage == \A u \in rows : final[u] = Whole

(* What a wipe beside a handler can still do to a browser's file is lose   *)
(* chunks of it: it never repeats or reorders any.                         *)
StoredInOrder ==
    \A u \in rows \cap Browsers :
        \A j, k \in 1..Len(final[u]) : j < k => final[u][j] < final[u][k]

(* A browser that reports success has its file in the catalog, complete.   *)
ToldStored ==
    \A u \in Uploads : client[u] = "stored" =>
        u \in rows /\ (u \notin overrun => final[u] = Whole)

(* Once an upload-cancel went out, its upload never shows up in the list:  *)
(* no late or still running handler of it can insert a row.                *)
CancelledNeverStored == \A u \in Uploads : cancel[u] # "none" => u \notin rows

(* A file in files/ that no row names is on its way to one, until a crash: *)
(* its handler has yet to insert the row.  Only a copy that was cut short  *)
(* leaves its target behind.                                               *)
UnlistedIsMoving ==
    crashes = 0 => \A u \in Uploads :
        final[u] \in {Absent, << >>} \/ u \in rows
            \/ req[u].at \in {"dropPart", "dropMeta", "insert"}

(* Without a crash a spooled body or extracted chunk belongs to a running  *)
(* handler.  Only a parse that fails within a part leaves what it wrote.   *)
HeldByHandler(s) == req[s[1]].idx = s[2] /\ req[s[1]].at \in Working
SpoolHeld == crashes = 0 => \A s \in spool : s[3] = "partial" \/ HeldByHandler(s)

(* Only those two faults and a crash leave a file that nothing refers to.  *)
NothingElseLeftBehind == UnlistedIsMoving /\ SpoolHeld

(* "The parser extracts each chunk to a disk file; those are intermediate  *)
(* and must be removed on every path below (success or failure)"           *)
(* (serve.rs:1653).  Fails: the parser that stops within a part returns an *)
(* error to the line above that comment, and its file stays.               *)
ExtractedIsRemoved == crashes = 0 => \A s \in spool : HeldByHandler(s)

(* Between two requests of a live upload the meta file tells what the part *)
(* file holds, and there is no part file without a meta file: the next     *)
(* chunk is checked against the one and appended to the other.             *)
Undisturbed(u) == server = "up" /\ rivalWipe = {} /\ u \notin overrun
MetaTellsPart ==
    \A u \in Uploads :
        Undisturbed(u) /\ cancel[u] = "none" /\ req[u].at \in {"none", "transit", "ok"} =>
            IF meta[u] = Absent THEN part[u] = Absent
            ELSE part[u] = Upto(meta[u].received) /\ meta[u].next = meta[u].received

(* A browser's upload that began is reported as stored or failed.          *)
Settles == \A u \in Browsers :
    client[u] # "idle" ~> client[u] \in {"stored", "failed"}

(* The protocol implements the all-or-nothing upload, but for the uploads  *)
(* overrun by a wipe: of those it promises neither a row nor an answer.    *)
Catalog == [u \in Uploads |-> IF u \in rows \ overrun THEN final[u] ELSE Absent]
Verdict == [u \in Uploads |->
              CASE client[u] = "stored" /\ u \notin overrun -> "ok"
                [] client[u] = "failed" -> "error"
                [] OTHER -> "pending"]
Abstract == INSTANCE AtomicUpload WITH catalog <- Catalog, verdict <- Verdict,
                                       Nothing <- Absent
AllOrNothing == Abstract!Spec
===============================================================================
