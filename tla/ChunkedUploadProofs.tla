-------------------------- MODULE ChunkedUploadProofs --------------------------
(***************************************************************************)
(* Theorems about ChunkedUpload for every number of uploads, chunks,       *)
(* crashes, restarts and rival servers, and their proofs.                  *)
(***************************************************************************)
EXTENDS ChunkedUpload, TLAPS, SequenceTheorems

(* A chunk request past its check has a number below the last.             *)
Bounded ==
    \A u \in Uploads : req[u].at \in {"append", "dropping", "writeMeta"} =>
        req[u].next < NumChunks /\ req[u].received < NumChunks

TypeInv == TypeOK /\ Bounded

(* Where the browser, its request and its cancel can be at the same time.  *)
Control(u) ==
    /\ client[u] = "idle" => req[u].at = "none"
    /\ client[u] = "chunk" => req[u].op = "chunk"
    /\ client[u] = "finalize" => req[u].op = "finalize"
    /\ client[u] = "stored" => req[u].op = "finalize" /\ req[u].at = "ok"
    /\ cancel[u] # "none" => client[u] \in {"cancelling", "failed"}
    /\ cancel[u] # "none" /\ req[u].op = "finalize" => req[u].at = "error"
    /\ req[u].at \in ChunkWork \cup {"dropRejected"} => req[u].op = "chunk"
    /\ req[u].at \in FinalWork => req[u].op = "finalize"
    /\ u \in rows <=> req[u].op = "finalize" /\ req[u].at = "ok"

ControlInv == TypeInv /\ \A u \in Uploads : Control(u)

(* While no handler of u is past its check, the meta file counts exactly   *)
(* the chunks in the part file.                                            *)
Consistent(u) ==
    IF meta[u] = Absent THEN part[u] = Absent
    ELSE part[u] = Upto(meta[u].next) /\ meta[u].received = meta[u].next

(* What a handler of u relies on at each of its steps.                     *)
Handler(u) ==
    /\ req[u].at \in Waiting \cup Answered \cup {"body", "parsed", "append", "finalize"}
           => Consistent(u)
    /\ req[u].at = "append" =>
           /\ req[u].idx = StagedNext(u)
           /\ req[u].next = req[u].idx /\ req[u].received = req[u].idx
    /\ req[u].at \in {"dropping", "writeMeta"} =>
           /\ part[u] = Upto(req[u].idx + 1)
           /\ req[u].next = req[u].idx /\ req[u].received = req[u].idx
    /\ req[u].at = "cleanMeta" => part[u] = Absent
    /\ req[u].at \in {"move", "copy"} => part[u] = Whole
    /\ req[u].at \in {"dropPart", "dropMeta", "insert"} => final[u] = Whole
    /\ req[u].at \in {"dropMeta", "insert"} => part[u] = Absent
    /\ req[u].at = "insert" => meta[u] = Absent

(* While a wipe is going on, an upload that it does not overrun has no     *)
(* handler at work, and every staging file of it is still to be removed.   *)
Doomed(u, w) ==
    /\ u \notin AtWork
    /\ part[u] # Absent => <<u, "part">> \in w
    /\ meta[u] # Absent => <<u, "meta">> \in w
Swept(u) ==
    /\ server = "wiping" => Doomed(u, wipe)
    /\ rivalWipe # {} => Doomed(u, rivalWipe)
Starting ==
    /\ server # "wiping" => wipe = {}
    /\ \A u \in Uploads \ overrun : Swept(u)

(* Between the wipes its handler can rely on the staging files; while the  *)
(* accept loop is down, only a handler that is still at work can.          *)
Trusted(u) ==
    /\ u \notin overrun /\ server # "wiping" /\ rivalWipe = {}
    /\ cancel[u] = "none"
    /\ server = "up" \/ req[u].at \in Working
HandlerInv == \A u \in Uploads : Trusted(u) => Handler(u)

ExactInv ==
    /\ ControlInv
    /\ Starting
    /\ HandlerInv
    /\ StoredExact

-------------------------------------------------------------------------------
Steps == Waiting \cup Answered \cup Working
SpoolFiles == Uploads \X (0..NumChunks) \X {"body", "extracted", "partial"}
ReqOK == req \in [Uploads -> Request] /\ Bounded

LEMMA StepsContain ==
    {"none", "transit", "ok", "error", "lost", "body", "parsed", "append", "dropping",
     "writeMeta", "finalize", "move", "copy", "dropPart", "dropMeta", "insert",
     "dropRejected", "cleanPart", "cleanMeta"} = Steps
BY DEF Steps, Waiting, Answered, Working, ChunkWork, FinalWork, CleanWork

LEMMA GotoType ==
    ASSUME ReqOK, NEW u \in Uploads, NEW pc \in Steps, Goto(u, pc),
           pc = "append" => FALSE,
           pc = "dropping" => req[u].at = "append",
           pc = "writeMeta" => req[u].at = "dropping"
    PROVE  ReqOK'
<1>1. req' \in [Uploads -> Request]
  BY DEF ReqOK, Goto, Request, Steps
<1>2. /\ req'[u].at = pc /\ req'[u].next = req[u].next /\ req'[u].received = req[u].received
      /\ \A v \in Uploads \ {u} : req'[v] = req[v]
  BY DEF ReqOK, Goto, Request
<1> QED
  BY <1>1, <1>2 DEF ReqOK, Bounded

LEMMA NewRequestType ==
    ASSUME ReqOK, NEW u \in Uploads, NEW op \in {"chunk", "finalize"}, NEW i \in 0..NumChunks-1,
           req' = [req EXCEPT ![u] = NewRequest(op, i)]
    PROVE  ReqOK'
<1>1. NewRequest(op, i) \in Request /\ NewRequest(op, i).at = "transit"
  BY NumChunksAssumption DEF NewRequest, Request, Waiting
<1> QED
  BY <1>1 DEF ReqOK, Bounded

LEMMA SpooledType ==
    ASSUME ReqOK, NEW u \in Uploads, NEW kind \in {"body", "extracted", "partial"}
    PROVE  Spooled(u, kind) \in SpoolFiles
<1>1. req[u].idx \in 0..NumChunks
  BY NumChunksAssumption DEF ReqOK, Request
<1> QED
  BY <1>1 DEF Spooled, SpoolFiles


LEMMA AppendedType ==
    ASSUME TypeOK, NEW u \in Uploads
    PROVE  Appended(u) \in Seq(0..NumChunks)
<1>1. req[u].idx \in 0..NumChunks
  BY NumChunksAssumption DEF TypeOK, Request
<1>2. CASE part[u] = Absent
  BY <1>1, <1>2 DEF Appended
<1>3. CASE part[u] # Absent
  <2>1. part[u] \in Seq(0..NumChunks)
    BY <1>3 DEF TypeOK
  <2>2. Append(part[u], req[u].idx) \in Seq(0..NumChunks)
    BY <1>1, <2>1, AppendProperties
  <2> QED
    BY <1>3, <2>2 DEF Appended
<1> QED
  BY <1>2, <1>3

LEMMA CheckedType ==
    ASSUME ReqOK, NEW u \in Uploads, NEW a \in 0..NumChunks-1, NEW b \in 0..NumChunks-1,
           req' = [req EXCEPT ![u].at = "append", ![u].next = a, ![u].received = b]
    PROVE  req' \in [Uploads -> Request]
<1>1. req[u] \in Request
  BY DEF ReqOK
<1>2. "append" \in Waiting \cup Answered \cup Working
  BY DEF Working, ChunkWork
<1>3. a \in 0..NumChunks /\ b \in 0..NumChunks
  BY NumChunksAssumption
<1>4. [req[u] EXCEPT !.at = "append", !.next = a, !.received = b] \in Request
  BY <1>1, <1>2, <1>3 DEF Request
<1> QED
  BY <1>4 DEF ReqOK

LEMMA TypeStep == TypeInv /\ [Next]_vars => TypeInv'
<1> SUFFICES ASSUME TypeInv, [Next]_vars PROVE TypeInv'
  OBVIOUS
<1>req. ReqOK
  BY DEF TypeInv, TypeOK, ReqOK
<1>zero. 0 \in 0..NumChunks-1
  BY NumChunksAssumption
<1> USE DEF TypeInv, TypeOK, ReqOK, Disk, process, machine, staging, store, Others, Starts
<1>1. ASSUME NEW u \in Uploads, Finish(u) PROVE TypeInv'
  BY <1>1 DEF Finish, SendCancel, Bounded
<1>2. ASSUME NEW u \in Uploads, Refused(u) PROVE TypeInv'
  BY <1>2 DEF Refused, SendCancel, Bounded
<1>3. ASSUME NEW u \in Uploads, GiveUp(u) PROVE TypeInv'
  BY <1>3 DEF GiveUp, SendCancel, Bounded
<1>4. ASSUME NEW u \in Uploads, ChunkConnectionLost(u) PROVE TypeInv'
  BY <1>4 DEF ChunkConnectionLost, SendCancel, Bounded
<1>5. ASSUME NEW u \in Uploads, FinalizeConnectionLost(u) PROVE TypeInv'
  BY <1>5 DEF FinalizeConnectionLost, SendCancel, Bounded
<1>6. ASSUME NEW u \in Uploads, LoseCancel(u) PROVE TypeInv'
  BY <1>6 DEF LoseCancel, SendCancel, Bounded
<1>7. ASSUME NEW u \in Uploads, CancelPart(u) PROVE TypeInv'
  BY <1>7 DEF CancelPart, SendCancel, Bounded
<1>8. ASSUME NEW u \in Uploads, CancelMeta(u) PROVE TypeInv'
  BY <1>8 DEF CancelMeta, SendCancel, Bounded
<1>9. ASSUME NEW u \in Uploads, Begin(u) PROVE TypeInv'
  <2>1. ReqOK'
    BY ONLY <1>9, <1>req, <1>zero, NewRequestType DEF Begin
  <2> QED
    BY <1>9, <2>1 DEF Begin
<1>10. ASSUME NEW u \in Uploads, NextChunk(u) PROVE TypeInv'
  <2>1. req[u].idx + 1 \in 0..NumChunks-1
    BY <1>10, NumChunksAssumption DEF NextChunk, Request
  <2>2. ReqOK'
    BY ONLY <1>10, <1>req, <2>1, NewRequestType DEF NextChunk
  <2> QED
    BY <1>10, <2>2 DEF NextChunk
<1>11. ASSUME NEW u \in Uploads, AskFinalize(u) PROVE TypeInv'
  <2>1. ReqOK'
    BY ONLY <1>11, <1>req, <1>zero, NewRequestType DEF AskFinalize
  <2> QED
    BY <1>11, <2>1 DEF AskFinalize
<1>12. ASSUME NEW u \in Uploads, AnyRequest(u) PROVE TypeInv'
  <2>1. ReqOK'
    BY ONLY <1>12, <1>req, <1>zero, NewRequestType DEF AnyRequest
  <2> QED
    BY <1>12, <2>1 DEF AnyRequest
<1>13. ASSUME NEW u \in Uploads, CheckChunk(u) PROVE TypeInv'
  <2>1. /\ req[u].at = "parsed" /\ InOrder(u)
        /\ req' = [req EXCEPT ![u].at = "append", ![u].next = StagedNext(u),
                              ![u].received = StagedReceived(u)]
    BY <1>13 DEF CheckChunk
  <2>2. /\ StagedNext(u) \in 0..NumChunks-1 /\ StagedReceived(u) \in 0..NumChunks-1
    BY <2>1, NumChunksAssumption DEF InOrder, StagedNext, StagedReceived, Request
  <2>3. ReqOK'
    <3>1. req' \in [Uploads -> Request]
      BY <2>1, <2>2, CheckedType
    <3>2. /\ req'[u].next = StagedNext(u) /\ req'[u].received = StagedReceived(u)
          /\ \A v \in Uploads \ {u} : req'[v] = req[v]
      BY <2>1 DEF Request
    <3> QED
      BY <3>1, <3>2, <2>2, NumChunksAssumption DEF Bounded
  <2> QED
    BY <1>13, <2>3 DEF CheckChunk
<1>14. ASSUME NEW u \in Uploads, LoseRequest(u) PROVE TypeInv'
  <2>1. ReqOK'
    BY ONLY <1>14, <1>req, GotoType, StepsContain DEF LoseRequest, Step, Answer
  <2> QED
    BY <1>14, <2>1 DEF LoseRequest
<1>15. ASSUME NEW u \in Uploads, AcceptChunk(u) PROVE TypeInv'
  <2>1. ReqOK'
    BY ONLY <1>15, <1>req, GotoType, StepsContain DEF AcceptChunk, Step, Answer
  <2>2. spool' \in SUBSET SpoolFiles
    BY <1>15, <1>req, SpooledType DEF AcceptChunk, Answer, DropExtracted, SpoolFiles
  <2> QED
    BY <1>15, <2>1, <2>2 DEF AcceptChunk, Step, Answer, SpoolFiles
<1>16. ASSUME NEW u \in Uploads, BodyFails(u) PROVE TypeInv'
  <2>1. ReqOK'
    BY ONLY <1>16, <1>req, GotoType, StepsContain DEF BodyFails, Step, Answer
  <2>2. spool' \in SUBSET SpoolFiles
    BY <1>16, <1>req, SpooledType DEF BodyFails, Answer, DropExtracted, SpoolFiles
  <2> QED
    BY <1>16, <2>1, <2>2 DEF BodyFails, Step, Answer, SpoolFiles
<1>17. ASSUME NEW u \in Uploads, ParseChunk(u) PROVE TypeInv'
  <2>1. ReqOK'
    BY ONLY <1>17, <1>req, GotoType, StepsContain DEF ParseChunk, Step, Answer
  <2>2. spool' \in SUBSET SpoolFiles
    BY <1>17, <1>req, SpooledType DEF ParseChunk, Answer, DropExtracted, SpoolFiles
  <2> QED
    BY <1>17, <2>1, <2>2 DEF ParseChunk, Step, Answer, SpoolFiles
<1>18. ASSUME NEW u \in Uploads, ParseFails(u) PROVE TypeInv'
  <2>1. ReqOK'
    BY ONLY <1>18, <1>req, GotoType, StepsContain DEF ParseFails, Step, Answer
  <2>2. spool' \in SUBSET SpoolFiles
    BY <1>18, <1>req, SpooledType DEF ParseFails, Answer, DropExtracted, SpoolFiles
  <2> QED
    BY <1>18, <2>1, <2>2 DEF ParseFails, Step, Answer, SpoolFiles
<1>19. ASSUME NEW u \in Uploads, ChunkCutShort(u) PROVE TypeInv'
  <2>1. ReqOK'
    BY ONLY <1>19, <1>req, GotoType, StepsContain DEF ChunkCutShort, Step, Answer
  <2>2. spool' \in SUBSET SpoolFiles
    BY <1>19, <1>req, SpooledType DEF ChunkCutShort, Answer, DropExtracted, SpoolFiles
  <2> QED
    BY <1>19, <2>1, <2>2 DEF ChunkCutShort, Step, Answer, SpoolFiles
<1>20. ASSUME NEW u \in Uploads, RejectChunk(u) PROVE TypeInv'
  <2>1. ReqOK'
    BY ONLY <1>20, <1>req, GotoType, StepsContain DEF RejectChunk, Step, Answer
  <2> QED
    BY <1>20, <2>1 DEF RejectChunk
<1>21. ASSUME NEW u \in Uploads, AppendChunk(u) PROVE TypeInv'
  <2>1. ReqOK'
    BY ONLY <1>21, <1>req, GotoType, StepsContain DEF AppendChunk, Step, Answer
  <2>2. Appended(u) \in Seq(0..NumChunks)
    BY AppendedType
  <2> QED
    BY <1>21, <2>1, <2>2 DEF AppendChunk
<1>22. ASSUME NEW u \in Uploads, AppendFails(u) PROVE TypeInv'
  <2>1. ReqOK'
    BY ONLY <1>22, <1>req, GotoType, StepsContain DEF AppendFails, Step, Answer
  <2>2. Appended(u) \in Seq(0..NumChunks)
    BY AppendedType
  <2> QED
    BY <1>22, <2>1, <2>2 DEF AppendFails
<1>23. ASSUME NEW u \in Uploads, DropChunk(u) PROVE TypeInv'
  <2>1. ReqOK'
    BY ONLY <1>23, <1>req, GotoType, StepsContain DEF DropChunk, Step, Answer
  <2>2. spool' \in SUBSET SpoolFiles
    BY <1>23, <1>req, SpooledType DEF DropChunk, Answer, DropExtracted, SpoolFiles
  <2> QED
    BY <1>23, <2>1, <2>2 DEF DropChunk, Step, Answer, SpoolFiles
<1>24. ASSUME NEW u \in Uploads, WriteMeta(u) PROVE TypeInv'
  <2>1. ReqOK'
    BY ONLY <1>24, <1>req, GotoType, StepsContain DEF WriteMeta, Step, Answer
  <2>2. spool' \in SUBSET SpoolFiles
    BY <1>24, <1>req, SpooledType DEF WriteMeta, Answer, DropExtracted, SpoolFiles
  <2>3. req[u].next + 1 \in 0..NumChunks /\ req[u].received + 1 \in 0..NumChunks
    BY <1>24, NumChunksAssumption DEF WriteMeta, Bounded, Request
  <2> QED
    BY <1>24, <2>1, <2>2, <2>3 DEF WriteMeta, Step, Answer, SpoolFiles
<1>25. ASSUME NEW u \in Uploads, WriteMetaFails(u) PROVE TypeInv'
  <2>1. ReqOK'
    BY ONLY <1>25, <1>req, GotoType, StepsContain DEF WriteMetaFails, Step, Answer
  <2> QED
    BY <1>25, <2>1 DEF WriteMetaFails
<1>26. ASSUME NEW u \in Uploads, DropRejected(u) PROVE TypeInv'
  <2>1. ReqOK'
    BY ONLY <1>26, <1>req, GotoType, StepsContain DEF DropRejected, Step, Answer
  <2>2. spool' \in SUBSET SpoolFiles
    BY <1>26, <1>req, SpooledType DEF DropRejected, Answer, DropExtracted, SpoolFiles
  <2> QED
    BY <1>26, <2>1, <2>2 DEF DropRejected, Step, Answer, SpoolFiles
<1>27. ASSUME NEW u \in Uploads, CleanPart(u) PROVE TypeInv'
  <2>1. ReqOK'
    BY ONLY <1>27, <1>req, GotoType, StepsContain DEF CleanPart, Step, Answer
  <2> QED
    BY <1>27, <2>1 DEF CleanPart
<1>28. ASSUME NEW u \in Uploads, CleanMeta(u) PROVE TypeInv'
  <2>1. ReqOK'
    BY ONLY <1>28, <1>req, GotoType, StepsContain DEF CleanMeta, Step, Answer
  <2>2. spool' \in SUBSET SpoolFiles
    BY <1>28, <1>req, SpooledType DEF CleanMeta, Answer, DropExtracted, SpoolFiles
  <2> QED
    BY <1>28, <2>1, <2>2 DEF CleanMeta, Step, Answer, SpoolFiles
<1>29. ASSUME NEW u \in Uploads, AcceptFinalize(u) PROVE TypeInv'
  <2>1. ReqOK'
    BY ONLY <1>29, <1>req, GotoType, StepsContain DEF AcceptFinalize, Step, Answer
  <2> QED
    BY <1>29, <2>1 DEF AcceptFinalize
<1>30. ASSUME NEW u \in Uploads, FinalizeUnreadable(u) PROVE TypeInv'
  <2>1. ReqOK'
    BY ONLY <1>30, <1>req, GotoType, StepsContain DEF FinalizeUnreadable, Step, Answer
  <2> QED
    BY <1>30, <2>1 DEF FinalizeUnreadable
<1>31. ASSUME NEW u \in Uploads, FinalizeUnknown(u) PROVE TypeInv'
  <2>1. ReqOK'
    BY ONLY <1>31, <1>req, GotoType, StepsContain DEF FinalizeUnknown, Step, Answer
  <2> QED
    BY <1>31, <2>1 DEF FinalizeUnknown
<1>32. ASSUME NEW u \in Uploads, FinalizeMismatch(u) PROVE TypeInv'
  <2>1. ReqOK'
    BY ONLY <1>32, <1>req, GotoType, StepsContain DEF FinalizeMismatch, Step, Answer
  <2> QED
    BY <1>32, <2>1 DEF FinalizeMismatch
<1>33. ASSUME NEW u \in Uploads, FinalizeComplete(u) PROVE TypeInv'
  <2>1. ReqOK'
    BY ONLY <1>33, <1>req, GotoType, StepsContain DEF FinalizeComplete, Step, Answer
  <2> QED
    BY <1>33, <2>1 DEF FinalizeComplete
<1>34. ASSUME NEW u \in Uploads, Rename(u) PROVE TypeInv'
  <2>1. ReqOK'
    BY ONLY <1>34, <1>req, GotoType, StepsContain DEF Rename, Step, Answer
  <2> QED
    BY <1>34, <2>1 DEF Rename
<1>35. ASSUME NEW u \in Uploads, RenameFails(u) PROVE TypeInv'
  <2>1. ReqOK'
    BY ONLY <1>35, <1>req, GotoType, StepsContain DEF RenameFails, Step, Answer
  <2> QED
    BY <1>35, <2>1 DEF RenameFails
<1>36. ASSUME NEW u \in Uploads, Copy(u) PROVE TypeInv'
  <2>1. ReqOK'
    BY ONLY <1>36, <1>req, GotoType, StepsContain DEF Copy, Step, Answer
  <2> QED
    BY <1>36, <2>1 DEF Copy
<1>37. ASSUME NEW u \in Uploads, CopyFails(u) PROVE TypeInv'
  <2>1. ReqOK'
    BY ONLY <1>37, <1>req, GotoType, StepsContain DEF CopyFails, Step, Answer
  <2>2. << >> \in Seq(0..NumChunks)
    OBVIOUS
  <2> QED
    BY <1>37, <2>1, <2>2 DEF CopyFails
<1>38. ASSUME NEW u \in Uploads, DropPart(u) PROVE TypeInv'
  <2>1. ReqOK'
    BY ONLY <1>38, <1>req, GotoType, StepsContain DEF DropPart, Step, Answer
  <2> QED
    BY <1>38, <2>1 DEF DropPart
<1>39. ASSUME NEW u \in Uploads, DropMeta(u) PROVE TypeInv'
  <2>1. ReqOK'
    BY ONLY <1>39, <1>req, GotoType, StepsContain DEF DropMeta, Step, Answer
  <2> QED
    BY <1>39, <2>1 DEF DropMeta
<1>40. ASSUME NEW u \in Uploads, Insert(u) PROVE TypeInv'
  <2>1. ReqOK'
    BY ONLY <1>40, <1>req, GotoType, StepsContain DEF Insert, Step, Answer
  <2> QED
    BY <1>40, <2>1 DEF Insert
<1>41. ASSUME NEW u \in Uploads, InsertFails(u) PROVE TypeInv'
  <2>1. ReqOK'
    BY ONLY <1>41, <1>req, GotoType, StepsContain DEF InsertFails, Step, Answer
  <2> QED
    BY <1>41, <2>1 DEF InsertFails
<1>42. ASSUME Crash PROVE TypeInv'
  <2>1. ReqOK'
    BY ONLY <1>42, <1>req DEF Crash, ReqOK, Request, Bounded, Answered, Working, ChunkWork
  <2> QED
    BY <1>42, <2>1, BoundsAssumption DEF Crash
<1>43. ASSUME Start PROVE TypeInv'
  BY <1>43, BoundsAssumption DEF Start, Staged, AtWork, Bounded
<1>stop. ASSUME Stop PROVE TypeInv'
  BY <1>stop, BoundsAssumption DEF Stop, Bounded
<1>44. ASSUME Bind PROVE TypeInv'
  BY <1>44, BoundsAssumption DEF Bind, Staged, Bounded
<1>45. ASSUME RivalStart PROVE TypeInv'
  BY <1>45, BoundsAssumption DEF RivalStart, Staged, AtWork, Bounded
<1>46. ASSUME NEW f \in StagingFiles, Wipe(f) PROVE TypeInv'
  <2>1. f[1] \in Uploads
    BY DEF StagingFiles
  <2> QED
    BY <1>46, <2>1 DEF Wipe, Remove, Bounded
<1>47. ASSUME NEW f \in StagingFiles, RivalRemove(f) PROVE TypeInv'
  <2>1. f[1] \in Uploads
    BY DEF StagingFiles
  <2> QED
    BY <1>47, <2>1 DEF RivalRemove, Remove, Bounded
<1>48. CASE UNCHANGED vars
  BY <1>48 DEF vars, Bounded
<1> QED
  BY <1>1, <1>2, <1>3, <1>4, <1>5, <1>6, <1>7, <1>8, <1>9, <1>10, <1>11, <1>12, <1>13, <1>14, <1>15, <1>16, <1>17, <1>18, <1>19, <1>20, <1>21, <1>22, <1>23, <1>24, <1>25, <1>26, <1>27, <1>28, <1>29, <1>30, <1>31, <1>32, <1>33, <1>34, <1>35, <1>36, <1>37, <1>38, <1>39, <1>40, <1>41, <1>stop, <1>42, <1>43, <1>44, <1>45, <1>46, <1>47, <1>48 DEF Next, Process, UploadStep, Browser, Network, ChunkHandler, FinalizeHandler, CancelHandler

-------------------------------------------------------------------------------
LEMMA GotoFacts ==
    ASSUME TypeOK, NEW u \in Uploads, NEW pc, Goto(u, pc)
    PROVE  /\ req'[u].at = pc /\ req'[u].op = req[u].op /\ req'[u].idx = req[u].idx
           /\ req'[u].next = req[u].next /\ req'[u].received = req[u].received
           /\ \A v \in Uploads \ {u} : req'[v] = req[v]
BY DEF TypeOK, Goto, Request

LEMMA NewRequestFacts ==
    ASSUME TypeOK, NEW u \in Uploads, NEW op, NEW i,
           req' = [req EXCEPT ![u] = NewRequest(op, i)]
    PROVE  /\ req'[u].at = "transit" /\ req'[u].op = op /\ req'[u].idx = i
           /\ \A v \in Uploads \ {u} : req'[v] = req[v]
BY DEF TypeOK, NewRequest

LEMMA CheckedFacts ==
    ASSUME TypeOK, NEW u \in Uploads, CheckChunk(u)
    PROVE  /\ req'[u].at = "append" /\ req'[u].op = req[u].op /\ req'[u].idx = req[u].idx
           /\ req'[u].next = StagedNext(u) /\ req'[u].received = StagedReceived(u)
           /\ \A v \in Uploads \ {u} : req'[v] = req[v]
BY DEF TypeOK, CheckChunk, Request

LEMMA ControlStep == ControlInv /\ [Next]_vars => ControlInv'
<1> SUFFICES ASSUME ControlInv, [Next]_vars PROVE \A v \in Uploads : Control(v)'
  BY TypeStep DEF ControlInv
<1>type. TypeOK
  BY DEF ControlInv, TypeInv
<1> USE DEF ControlInv, Control, ChunkWork, FinalWork, Disk, store, staging, Others, process
<1>1. ASSUME NEW u \in Uploads, Finish(u) PROVE \A v \in Uploads : Control(v)'
  BY <1>1, <1>type DEF Finish, SendCancel, TypeOK
<1>2. ASSUME NEW u \in Uploads, Refused(u) PROVE \A v \in Uploads : Control(v)'
  BY <1>2, <1>type DEF Refused, SendCancel, TypeOK
<1>3. ASSUME NEW u \in Uploads, GiveUp(u) PROVE \A v \in Uploads : Control(v)'
  BY <1>3, <1>type DEF GiveUp, SendCancel, TypeOK
<1>4. ASSUME NEW u \in Uploads, ChunkConnectionLost(u) PROVE \A v \in Uploads : Control(v)'
  BY <1>4, <1>type DEF ChunkConnectionLost, SendCancel, TypeOK
<1>5. ASSUME NEW u \in Uploads, FinalizeConnectionLost(u) PROVE \A v \in Uploads : Control(v)'
  BY <1>5, <1>type DEF FinalizeConnectionLost, SendCancel, TypeOK
<1>6. ASSUME NEW u \in Uploads, LoseCancel(u) PROVE \A v \in Uploads : Control(v)'
  BY <1>6, <1>type DEF LoseCancel, SendCancel, TypeOK
<1>7. ASSUME NEW u \in Uploads, CancelPart(u) PROVE \A v \in Uploads : Control(v)'
  BY <1>7, <1>type DEF CancelPart, SendCancel, TypeOK
<1>8. ASSUME NEW u \in Uploads, CancelMeta(u) PROVE \A v \in Uploads : Control(v)'
  BY <1>8, <1>type DEF CancelMeta, SendCancel, TypeOK
<1>9. ASSUME NEW u \in Uploads, Begin(u) PROVE \A v \in Uploads : Control(v)'
  <2>1. \A v \in Uploads \ {u} : req'[v] = req[v] /\ client'[v] = client[v]
    BY <1>9, <1>type, NewRequestFacts DEF Begin, TypeOK
  <2>2. UNCHANGED <<cancel, rows>>
    BY <1>9 DEF Begin
  <2>3. client[u] = "idle" /\ client'[u] = "chunk" /\ req'[u].at = "transit" /\ req'[u].op = "chunk"
    BY <1>9, <1>type DEF Begin, TypeOK, NewRequest
  <2>4. Control(u)'
    BY <2>2, <2>3
  <2> QED
    BY <2>1, <2>2, <2>4
<1>10. ASSUME NEW u \in Uploads, NextChunk(u) PROVE \A v \in Uploads : Control(v)'
  <2>1. \A v \in Uploads \ {u} : req'[v] = req[v] /\ client'[v] = client[v]
    BY <1>10, <1>type, NewRequestFacts DEF NextChunk, TypeOK
  <2>2. UNCHANGED <<cancel, rows>>
    BY <1>10 DEF NextChunk
  <2>3. client'[u] = "chunk" /\ client[u] = "chunk" /\ req'[u].at = "transit" /\ req'[u].op = "chunk"
    BY <1>10, <1>type DEF NextChunk, TypeOK, NewRequest
  <2>4. Control(u)'
    BY <2>2, <2>3
  <2> QED
    BY <2>1, <2>2, <2>4
<1>11. ASSUME NEW u \in Uploads, AskFinalize(u) PROVE \A v \in Uploads : Control(v)'
  <2>1. \A v \in Uploads \ {u} : req'[v] = req[v] /\ client'[v] = client[v]
    BY <1>11, <1>type, NewRequestFacts DEF AskFinalize, TypeOK
  <2>2. UNCHANGED <<cancel, rows>>
    BY <1>11 DEF AskFinalize
  <2>3. client[u] = "chunk" /\ client'[u] = "finalize" /\ req'[u].at = "transit" /\ req'[u].op = "finalize"
    BY <1>11, <1>type DEF AskFinalize, TypeOK, NewRequest
  <2>4. Control(u)'
    BY <2>2, <2>3
  <2> QED
    BY <2>1, <2>2, <2>4
<1>12. ASSUME NEW u \in Uploads, AnyRequest(u) PROVE \A v \in Uploads : Control(v)'
  <2>1. \A v \in Uploads \ {u} : req'[v] = req[v] /\ client'[v] = client[v]
    BY <1>12, <1>type, NewRequestFacts DEF AnyRequest, TypeOK
  <2>2. UNCHANGED <<cancel, rows>>
    BY <1>12 DEF AnyRequest
  <2>3. /\ client[u] \in {"chunk", "finalize"} /\ req'[u].at = "transit"
        /\ client[u] = "finalize" => req[u].at = "error"
        /\ \/ client'[u] = "chunk" /\ req'[u].op = "chunk"
           \/ client'[u] = "finalize" /\ req'[u].op = "finalize"
    BY <1>12, <1>type, NewRequestFacts DEF AnyRequest, TypeOK
  <2>4. Control(u)'
    BY <2>2, <2>3
  <2> QED
    BY <2>1, <2>2, <2>4
(* A step of u's request, of a kind its handler takes, changes nothing else.*)
<1>goto. ASSUME NEW u \in Uploads, NEW a, Goto(u, a), a # "none",
                UNCHANGED <<client, cancel, rows>>,
                req[u].at \notin {"none", "ok", "error"},
                a \in ChunkWork \cup {"dropRejected", "ok"} => req[u].op = "chunk",
                a \in FinalWork => req[u].op = "finalize"
         PROVE  \A v \in Uploads : Control(v)'
  <2>1. /\ req'[u].at = a /\ req'[u].op = req[u].op
        /\ \A v \in Uploads \ {u} : req'[v] = req[v]
    BY <1>goto, <1>type, GotoFacts
  <2>2. Control(u)'
    BY <1>goto, <2>1
  <2>3. \A v \in Uploads \ {u} : Control(v)'
    BY <1>goto, <2>1
  <2> QED
    BY <2>2, <2>3
<1>13. ASSUME NEW u \in Uploads, LoseRequest(u) PROVE \A v \in Uploads : Control(v)'
  BY <1>13, <1>goto DEF LoseRequest, Step
<1>14. ASSUME NEW u \in Uploads, AcceptChunk(u) PROVE \A v \in Uploads : Control(v)'
  BY <1>14, <1>goto DEF AcceptChunk, Step
<1>15. ASSUME NEW u \in Uploads, AcceptFinalize(u) PROVE \A v \in Uploads : Control(v)'
  BY <1>15, <1>goto DEF AcceptFinalize, Step
<1>16. ASSUME NEW u \in Uploads,
              \/ BodyFails(u) \/ ParseChunk(u) \/ ParseFails(u) \/ ChunkCutShort(u)
              \/ RejectChunk(u) \/ AppendChunk(u) \/ AppendFails(u) \/ DropChunk(u)
              \/ WriteMeta(u) \/ WriteMetaFails(u) \/ DropRejected(u) \/ CleanPart(u)
              \/ CleanMeta(u)
       PROVE  \A v \in Uploads : Control(v)'
  <2>1. /\ UNCHANGED <<client, cancel, rows>>
        /\ \/ /\ req[u].at \in ChunkWork \cup {"dropRejected"}
              /\ \E a \in ChunkWork \cup CleanWork \cup {"ok", "error"} : Goto(u, a)
           \/ /\ req[u].at \in {"cleanPart", "cleanMeta"}
              /\ \E a \in {"cleanMeta", "error"} : Goto(u, a)
    BY <1>16 DEF CleanWork, Step, Answer,
        BodyFails, ParseChunk, ParseFails, ChunkCutShort, RejectChunk, AppendChunk,
        AppendFails, DropChunk, WriteMeta, WriteMetaFails, DropRejected, CleanPart, CleanMeta
  <2>2. req[u].at \in ChunkWork \cup {"dropRejected"} => req[u].op = "chunk"
    OBVIOUS
  <2>3. CASE req[u].at \in ChunkWork \cup {"dropRejected"}
    <3>1. PICK a \in ChunkWork \cup CleanWork \cup {"ok", "error"} : Goto(u, a)
      BY <2>1, <2>3 DEF CleanWork
    <3> QED
      BY <2>1, <2>2, <2>3, <3>1, <1>goto DEF CleanWork
  <2>4. CASE req[u].at \in {"cleanPart", "cleanMeta"}
    <3>1. PICK a \in {"cleanMeta", "error"} : Goto(u, a)
      BY <2>1, <2>4
    <3> QED
      BY <2>1, <2>4, <3>1, <1>goto
  <2> QED
    BY <2>1, <2>3, <2>4
<1>17. ASSUME NEW u \in Uploads, CheckChunk(u) PROVE \A v \in Uploads : Control(v)'
  <2>1. /\ req[u].at = "parsed" /\ req'[u].at = "append" /\ req'[u].op = req[u].op
        /\ UNCHANGED <<client, cancel, rows>>
        /\ \A v \in Uploads \ {u} : req'[v] = req[v]
    BY <1>17, <1>type, CheckedFacts DEF CheckChunk
  <2>2. Control(u)'
    BY <2>1
  <2> QED
    BY <2>1, <2>2
<1>18. ASSUME NEW u \in Uploads,
              \/ FinalizeUnreadable(u) \/ FinalizeUnknown(u) \/ FinalizeMismatch(u)
              \/ FinalizeComplete(u) \/ Rename(u) \/ RenameFails(u) \/ Copy(u)
              \/ CopyFails(u) \/ DropPart(u) \/ DropMeta(u) \/ InsertFails(u)
       PROVE  \A v \in Uploads : Control(v)'
  <2>1. /\ UNCHANGED <<client, cancel, rows>> /\ req[u].at \in FinalWork
        /\ \E a \in FinalWork \cup {"cleanPart", "error"} : Goto(u, a)
    BY <1>18 DEF Step,
        FinalizeUnreadable, FinalizeUnknown, FinalizeMismatch, FinalizeComplete, Rename,
        RenameFails, Copy, CopyFails, DropPart, DropMeta, InsertFails
  <2>2. req[u].op = "finalize"
    BY <2>1
  <2>3. PICK a \in FinalWork \cup {"cleanPart", "error"} : Goto(u, a)
    BY <2>1
  <2> QED
    BY <2>1, <2>2, <2>3, <1>goto
<1>19. ASSUME NEW u \in Uploads, Insert(u) PROVE \A v \in Uploads : Control(v)'
  <2>1. /\ req[u].at = "insert" /\ req'[u].at = "ok" /\ req'[u].op = req[u].op
        /\ \A v \in Uploads \ {u} : req'[v] = req[v]
        /\ UNCHANGED <<client, cancel>> /\ rows' = rows \cup {u}
    BY <1>19, <1>type, GotoFacts DEF Insert, Step
  <2>2. Control(u)'
    BY <2>1
  <2>3. \A v \in Uploads \ {u} : Control(v)'
    BY <2>1
  <2> QED
    BY <2>2, <2>3
<1>42. ASSUME Crash PROVE \A v \in Uploads : Control(v)'
  BY <1>42, <1>type DEF Crash, Answered, Working, CleanWork, TypeOK, Request
<1>43. ASSUME Start PROVE \A v \in Uploads : Control(v)'
  BY <1>43, <1>type DEF Start, Answered, Working, CleanWork, TypeOK, Request
<1>stop. ASSUME Stop PROVE \A v \in Uploads : Control(v)'
  BY <1>stop DEF Stop
<1>44. ASSUME Bind PROVE \A v \in Uploads : Control(v)'
  BY <1>44, <1>type DEF Bind, Answered, Working, CleanWork, TypeOK, Request
<1>45. ASSUME RivalStart PROVE \A v \in Uploads : Control(v)'
  BY <1>45, <1>type DEF RivalStart, Answered, Working, CleanWork, TypeOK, Request
<1>46. ASSUME NEW f \in StagingFiles, Wipe(f) PROVE \A v \in Uploads : Control(v)'
  BY <1>46 DEF Wipe, Remove
<1>47. ASSUME NEW f \in StagingFiles, RivalRemove(f) PROVE \A v \in Uploads : Control(v)'
  BY <1>47 DEF RivalRemove, Remove
<1>48. CASE UNCHANGED vars
  BY <1>48 DEF vars
<1> QED
  BY <1>1, <1>2, <1>3, <1>4, <1>5, <1>6, <1>7, <1>8, <1>9, <1>10, <1>11, <1>12, <1>13, <1>14, <1>15, <1>16, <1>17, <1>18, <1>19, <1>stop, <1>42, <1>43, <1>44, <1>45, <1>46, <1>47, <1>48 DEF Next, Process, UploadStep, Browser, Network, ChunkHandler, FinalizeHandler, CancelHandler

-------------------------------------------------------------------------------
LEMMA UptoFacts ==
    /\ \A n \in Nat : Upto(n) # Absent /\ Append(Upto(n), n) = Upto(n + 1)
    /\ Upto(1) = <<0>> /\ \A n \in Nat : <<n>> # Absent
<1>1. ASSUME NEW n \in Nat PROVE Upto(n) # Absent /\ Append(Upto(n), n) = Upto(n + 1)
  <2>1. Upto(n) \in Seq(Nat) /\ Len(Upto(n)) = n
    BY DEF Upto
  <2>2. /\ Append(Upto(n), n) \in Seq(Nat) /\ Len(Append(Upto(n), n)) = n + 1
        /\ \A k \in 1..n : Append(Upto(n), n)[k] = Upto(n)[k]
        /\ Append(Upto(n), n)[n + 1] = n
    BY <2>1, AppendProperties
  <2>3. Upto(n + 1) \in Seq(Nat) /\ Len(Upto(n + 1)) = n + 1
    BY DEF Upto
  <2>4. \A k \in 1..n+1 : Append(Upto(n), n)[k] = Upto(n + 1)[k]
    BY <2>2 DEF Upto
  <2>5. Append(Upto(n), n) = Upto(n + 1)
    BY <2>2, <2>3, <2>4, SeqEqual
  <2> QED
    BY <2>1, <2>5, AbsentAssumption
<1>2. Upto(1) = <<0>>
  BY DEF Upto
<1>3. \A n \in Nat : <<n>> # Absent
  <2>1. \A n \in Nat : <<n>> \in Seq(Nat)
    OBVIOUS
  <2> QED
    BY <2>1, AbsentAssumption
<1> QED
  BY <1>1, <1>2, <1>3

LEMMA Running ==
    ASSUME ExactInv, NEW u \in Uploads, req[u].at \in Working
    PROVE  /\ u \notin rows
           /\ req[u].at \in FinalWork => cancel[u] = "none"
           /\ u \notin overrun /\ cancel[u] = "none" => Handler(u)
<1>1. req[u].at # "ok" /\ req[u].at # "error"
  BY DEF Working, ChunkWork, FinalWork, CleanWork
<1>2. Control(u)
  BY DEF ExactInv, ControlInv
<1>3. u \notin overrun => server # "wiping" /\ rivalWipe = {}
  BY DEF ExactInv, Starting, Swept, Doomed, AtWork
<1> QED
  BY <1>1, <1>2, <1>3 DEF ExactInv, HandlerInv, Trusted, Control

LEMMA Frame ==
    ASSUME NEW v \in Uploads, Handler(v), req'[v] = req[v], part'[v] = part[v],
           meta'[v] = meta[v], final'[v] = final[v]
    PROVE  Handler(v)'
BY DEF Handler, Consistent, StagedNext

(* A step of upload u touches the files, request and cancel of u only.     *)
Local(u) ==
    /\ UNCHANGED machine
    /\ \A v \in Uploads \ {u} : /\ req'[v] = req[v] /\ cancel'[v] = cancel[v]
                                /\ part'[v] = part[v] /\ meta'[v] = meta[v]
                                /\ final'[v] = final[v]

(* It is a step of a handler at work, the start of a handler, or a step of *)
(* the browser or the network, which touches no file.                      *)
OfHandler(u) ==
    /\ u \in AtWork /\ overrun' = overrun
    /\ req'[u].at \in Working => req[u].at \in Working
OfStart(u) ==
    /\ u \notin rows /\ server = "up"
    /\ overrun' = IF rivalWipe = {} THEN overrun ELSE overrun \cup {u}
OfBrowser(u) ==
    /\ UNCHANGED <<part, meta, overrun>>
    /\ req'[u].at \in Working => req[u].at \in Working
    /\ cancel'[u] = "cleanMeta" => cancel[u] = "cleanMeta"
Kinds(u) ==
    /\ Local(u)
    /\ cancel'[u] = "none" => cancel[u] = "none"
    /\ OfHandler(u) \/ OfStart(u) \/ OfBrowser(u)

LEMMA KindsStep == ASSUME ControlInv, NEW u \in Uploads, UploadStep(u) PROVE Kinds(u)
<1>type. TypeOK /\ Control(u)
  BY DEF ControlInv, TypeInv
<1> USE DEF process, machine, Disk, Others, Starts, staging, store
<1>1. ASSUME Begin(u) \/ NextChunk(u) \/ AskFinalize(u) \/ AnyRequest(u) PROVE Kinds(u)
  <2>1. UNCHANGED <<machine, overrun, part, meta, final, cancel>>
    BY <1>1 DEF Begin, NextChunk, AskFinalize, AnyRequest
  <2>2. req'[u].at = "transit" /\ \A v \in Uploads \ {u} : req'[v] = req[v]
    BY <1>1, <1>type DEF Begin, NextChunk, AskFinalize, AnyRequest, TypeOK, NewRequest
  <2> QED
    BY <2>1, <2>2 DEF Kinds, Local, OfBrowser, Working, ChunkWork, FinalWork, CleanWork
<1>2. ASSUME LoseRequest(u) PROVE Kinds(u)
  <2>1. req'[u].at = "lost" /\ \A v \in Uploads \ {u} : req'[v] = req[v]
    BY <1>2, <1>type, GotoFacts DEF LoseRequest, Step
  <2> QED
    BY <1>2, <2>1 DEF LoseRequest, Kinds, Local, OfBrowser, Working, ChunkWork, FinalWork, CleanWork
<1>3. ASSUME Finish(u) \/ Refused(u) \/ GiveUp(u)
             \/ ChunkConnectionLost(u) \/ FinalizeConnectionLost(u) \/ LoseCancel(u)
      PROVE  Kinds(u)
  <2>1. UNCHANGED <<machine, overrun, part, meta, final, req>>
    BY <1>3 DEF Finish, Refused, GiveUp, ChunkConnectionLost, FinalizeConnectionLost, LoseCancel, SendCancel
  <2>2. /\ cancel'[u] = "none" => cancel[u] = "none"
        /\ cancel'[u] = "cleanMeta" => cancel[u] = "cleanMeta"
        /\ \A v \in Uploads \ {u} : cancel'[v] = cancel[v]
    BY <1>3, <1>type DEF Finish, Refused, GiveUp, ChunkConnectionLost, FinalizeConnectionLost, LoseCancel, SendCancel, TypeOK
  <2> QED
    BY <2>1, <2>2 DEF Kinds, Local, OfBrowser
<1>4. ASSUME AcceptChunk(u) \/ AcceptFinalize(u) PROVE Kinds(u)
  <2>1. /\ Starts(u) /\ UNCHANGED <<cancel, part, meta, final>>
        /\ req[u].at = "transit" /\ \A v \in Uploads \ {u} : req'[v] = req[v]
    BY <1>4, <1>type, GotoFacts DEF AcceptChunk, AcceptFinalize, Step
  <2> QED
    BY <2>1, <1>type DEF Kinds, Local, OfStart, Starts, Control
<1>5. ASSUME CancelPart(u) PROVE Kinds(u)
  <2>1. /\ Starts(u) /\ UNCHANGED <<req, meta, final>>
        /\ cancel[u] # "none" /\ cancel'[u] # "none"
        /\ \A v \in Uploads \ {u} : cancel'[v] = cancel[v] /\ part'[v] = part[v]
    BY <1>5, <1>type DEF CancelPart, TypeOK
  <2> QED
    BY <2>1, <1>type DEF Kinds, Local, OfStart, Starts, Control
<1>6. ASSUME CancelMeta(u) PROVE Kinds(u)
  <2>1. /\ UNCHANGED <<machine, overrun, req, part, final>>
        /\ cancel[u] = "cleanMeta" /\ cancel'[u] # "none"
        /\ \A v \in Uploads \ {u} : cancel'[v] = cancel[v] /\ meta'[v] = meta[v]
    BY <1>6, <1>type DEF CancelMeta, TypeOK
  <2> QED
    BY <2>1 DEF Kinds, Local, OfHandler, AtWork
<1>w. ASSUME \/ BodyFails(u) \/ ParseChunk(u) \/ ParseFails(u) \/ ChunkCutShort(u)
             \/ CheckChunk(u) \/ RejectChunk(u) \/ AppendChunk(u) \/ AppendFails(u)
             \/ DropChunk(u) \/ WriteMeta(u) \/ WriteMetaFails(u) \/ DropRejected(u)
             \/ CleanPart(u) \/ CleanMeta(u) \/ FinalizeUnreadable(u) \/ FinalizeUnknown(u)
             \/ FinalizeMismatch(u) \/ FinalizeComplete(u) \/ Rename(u) \/ RenameFails(u)
             \/ Copy(u) \/ CopyFails(u) \/ DropPart(u) \/ DropMeta(u)
             \/ Insert(u) \/ InsertFails(u)
      PROVE  Kinds(u)
  <2>1. req[u].at \in Working /\ UNCHANGED <<machine, overrun, cancel>>
    BY <1>w DEF Working, ChunkWork, FinalWork, CleanWork, Step,
        BodyFails, ParseChunk, ParseFails, ChunkCutShort, CheckChunk, RejectChunk,
        AppendChunk, AppendFails, DropChunk, WriteMeta, WriteMetaFails,
        DropRejected, CleanPart, CleanMeta, FinalizeUnreadable, FinalizeUnknown,
        FinalizeMismatch, FinalizeComplete, Rename, RenameFails, Copy, CopyFails,
        DropPart, DropMeta, Insert, InsertFails
  <2>2. \A v \in Uploads \ {u} : req'[v] = req[v]
    BY <1>w, <1>type, GotoFacts, CheckedFacts DEF Step, Answer,
        BodyFails, ParseChunk, ParseFails, ChunkCutShort, CheckChunk, RejectChunk,
        AppendChunk, AppendFails, DropChunk, WriteMeta, WriteMetaFails,
        DropRejected, CleanPart, CleanMeta, FinalizeUnreadable, FinalizeUnknown,
        FinalizeMismatch, FinalizeComplete, Rename, RenameFails, Copy, CopyFails,
        DropPart, DropMeta, Insert, InsertFails
  <2>3. \A v \in Uploads \ {u} : /\ part'[v] = part[v] /\ meta'[v] = meta[v]
                                  /\ final'[v] = final[v]
    BY <1>w, <1>type DEF TypeOK,
        BodyFails, ParseChunk, ParseFails, ChunkCutShort, CheckChunk, RejectChunk,
        AppendChunk, AppendFails, DropChunk, WriteMeta, WriteMetaFails,
        DropRejected, CleanPart, CleanMeta, FinalizeUnreadable, FinalizeUnknown,
        FinalizeMismatch, FinalizeComplete, Rename, RenameFails, Copy, CopyFails,
        DropPart, DropMeta, Insert, InsertFails
  <2> QED
    BY <2>1, <2>2, <2>3 DEF Kinds, Local, OfHandler, AtWork
<1> QED
  BY <1>1, <1>2, <1>3, <1>4, <1>5, <1>6, <1>w
  DEF UploadStep, Browser, Network, ChunkHandler, FinalizeHandler, CancelHandler

(* An upload is never overrun after it got its row.                        *)
LEMMA OverrunStep ==
    ControlInv /\ [Next]_vars => overrun \subseteq overrun' /\ rows \cap overrun' = rows \cap overrun
<1> SUFFICES ASSUME ControlInv, [Next]_vars
             PROVE  overrun \subseteq overrun' /\ rows \cap overrun' = rows \cap overrun
  OBVIOUS
<1>1. ASSUME NEW u \in Uploads, UploadStep(u)
      PROVE  overrun \subseteq overrun' /\ rows \cap overrun' = rows \cap overrun
  BY <1>1, KindsStep DEF Kinds, OfHandler, OfStart, OfBrowser
<1>2. rows \cap AtWork = {}
  <2>1. ASSUME NEW u \in rows, u \in AtWork PROVE FALSE
    BY <2>1 DEF AtWork, ControlInv, Control, Working, ChunkWork, FinalWork, CleanWork
  <2> QED
    BY <2>1
<1>3. Start \/ RivalStart => overrun' = overrun \cup AtWork
  BY DEF Start, RivalStart
<1>4. ASSUME Stop \/ Crash \/ Bind \/ (\E f \in StagingFiles : Wipe(f) \/ RivalRemove(f))
             \/ UNCHANGED vars
      PROVE  overrun' = overrun
  BY <1>4 DEF Stop, Crash, Bind, Wipe, RivalRemove, vars, process
<1> QED
  BY <1>1, <1>2, <1>3, <1>4 DEF Next, Process

LEMMA StoredStep == ExactInv /\ [Next]_vars => StoredExact'
<1> SUFFICES ASSUME ExactInv, [Next]_vars PROVE StoredExact'
  OBVIOUS
<1>type. TypeOK /\ StoredExact
  BY DEF ExactInv, ControlInv, TypeInv
<1>grow. overrun \subseteq overrun'
  BY OverrunStep DEF ExactInv
<1>1. ASSUME NEW u \in Uploads, Rename(u) \/ Copy(u) \/ CopyFails(u) \/ InsertFails(u)
      PROVE  StoredExact'
  <2>1. req[u].at \in Working
    BY <1>1 DEF Rename, Copy, CopyFails, InsertFails, Step, Working, FinalWork
  <2>2. u \notin rows
    BY <2>1, Running
  <2>3. rows' = rows /\ \A v \in Uploads \ {u} : final'[v] = final[v]
    BY <1>1, <1>type DEF Rename, Copy, CopyFails, InsertFails, TypeOK
  <2> QED
    BY <1>type, <1>grow, <2>2, <2>3 DEF StoredExact, TypeOK
<1>2. ASSUME NEW u \in Uploads, Insert(u) PROVE StoredExact'
  <2>1. req[u].at \in Working /\ req[u].at \in FinalWork /\ req[u].at = "insert"
    BY <1>2 DEF Insert, Step, Working, FinalWork
  <2>2. u \notin overrun => Handler(u)
    BY <2>1, Running
  <2>3. u \notin overrun => final[u] = Whole
    BY <2>1, <2>2 DEF Handler
  <2> QED
    BY <1>2, <1>type, <1>grow, <2>3 DEF Insert, StoredExact
<1>3. ASSUME UNCHANGED store PROVE StoredExact'
  BY <1>3, <1>type, <1>grow DEF StoredExact, store
<1> QED
  BY <1>1, <1>2, <1>3
  DEF Next, Process, UploadStep, Browser, Network, ChunkHandler, FinalizeHandler, CancelHandler,
      vars, Disk, store, SendCancel,
      Begin, NextChunk, AskFinalize, Finish, Refused, GiveUp, AnyRequest,
      ChunkConnectionLost, FinalizeConnectionLost, LoseRequest, LoseCancel,
      AcceptChunk, BodyFails, ParseChunk, ParseFails, ChunkCutShort, CheckChunk,
      RejectChunk, AppendChunk, AppendFails, DropChunk, WriteMeta,
      WriteMetaFails, DropRejected, CleanPart, CleanMeta, AcceptFinalize,
      FinalizeUnreadable, FinalizeUnknown, FinalizeMismatch, FinalizeComplete,
      RenameFails, DropPart, DropMeta, CancelPart, CancelMeta, Stop, Crash, Start,
      Bind, RivalStart, Wipe, RivalRemove

LEMMA StagedFacts == \A u \in Uploads : u \notin AtWork => Doomed(u, Staged)
BY DEF Doomed, Staged, StagingFiles

LEMMA RemoveFacts ==
    ASSUME TypeOK, NEW f \in StagingFiles, Remove(f), NEW w, NEW u \in Uploads, Doomed(u, w)
    PROVE  /\ part'[u] # Absent => part[u] # Absent /\ <<u, "part">> \in w \ {f}
           /\ meta'[u] # Absent => meta[u] # Absent /\ <<u, "meta">> \in w \ {f}
BY DEF Remove, TypeOK, StagingFiles, Doomed

LEMMA StartingStep == ExactInv /\ [Next]_vars => Starting'
<1> SUFFICES ASSUME ExactInv, [Next]_vars PROVE Starting'
  OBVIOUS
<1>type. TypeOK /\ Starting /\ ControlInv
  BY DEF ExactInv, ControlInv, TypeInv
<1> USE DEF process, machine, Disk, staging, store
<1>1. ASSUME NEW u \in Uploads, UploadStep(u) PROVE Starting'
  <2>1. Kinds(u)
    BY <1>1, <1>type, KindsStep
  <2>2. overrun \subseteq overrun'
    BY <1>type, OverrunStep
  <2>3. ASSUME NEW v \in Uploads \ overrun', v # u PROVE Swept(v)'
    BY <2>1, <2>2, <2>3, <1>type DEF Kinds, Local, Starting, Swept, Doomed, AtWork
  <2>4. ASSUME u \notin overrun' PROVE Swept(u)'
    <3>1. Swept(u) /\ UNCHANGED machine
      BY <2>1, <2>2, <2>4, <1>type DEF Starting, Kinds, Local
    <3>2. CASE OfHandler(u)
      BY <3>1, <3>2 DEF OfHandler, Swept, Doomed
    <3>3. CASE OfStart(u)
      BY <3>1, <3>3, <2>4 DEF OfStart, Swept
    <3>4. CASE OfBrowser(u)
      BY <3>1, <3>4 DEF OfBrowser, Swept, Doomed, AtWork
    <3> QED
      BY <2>1, <3>2, <3>3, <3>4 DEF Kinds
  <2> QED
    BY <2>1, <2>3, <2>4, <1>type DEF Kinds, Local, Starting
<1>2. ASSUME Stop PROVE Starting'
  BY <1>2, <1>type DEF Stop, Starting, Swept, Doomed, AtWork
<1>3. ASSUME Crash PROVE Starting'
  <2>1. \A v \in Uploads : req'[v].at \notin Working /\ cancel'[v] # "cleanMeta"
    BY <1>3, <1>type DEF Crash, TypeOK, Request, Working, ChunkWork, FinalWork, CleanWork
  <2> QED
    BY <1>3, <2>1, <1>type DEF Crash, Starting, Swept, Doomed, AtWork
<1>4. ASSUME Start PROVE Starting'
  <2>1. /\ server' = "wiping" /\ wipe' = Staged /\ overrun' = overrun \cup AtWork
        /\ UNCHANGED <<req, cancel, part, meta, rivalWipe>>
    BY <1>4 DEF Start
  <2>2. ASSUME NEW u \in Uploads \ overrun' PROVE Swept(u)'
    <3>1. Swept(u) /\ Doomed(u, Staged)
      BY <2>1, <2>2, <1>type, StagedFacts DEF Starting
    <3> QED
      BY <2>1, <3>1 DEF Swept, Doomed, AtWork
  <2> QED
    BY <2>1, <2>2 DEF Starting
<1>5. ASSUME Bind PROVE Starting'
  BY <1>5, <1>type DEF Bind, Starting, Swept, Doomed, AtWork
<1>6. ASSUME RivalStart PROVE Starting'
  <2>1. /\ rivalWipe' = Staged /\ overrun' = overrun \cup AtWork
        /\ UNCHANGED <<req, cancel, part, meta, server, wipe>>
    BY <1>6 DEF RivalStart
  <2>2. ASSUME NEW u \in Uploads \ overrun' PROVE Swept(u)'
    <3>1. Swept(u) /\ Doomed(u, Staged)
      BY <2>1, <2>2, <1>type, StagedFacts DEF Starting
    <3> QED
      BY <2>1, <3>1 DEF Swept, Doomed, AtWork
  <2> QED
    BY <2>1, <2>2, <1>type DEF Starting
<1>7. ASSUME NEW f \in StagingFiles, Wipe(f) PROVE Starting'
  <2>1. server = "wiping" /\ Remove(f) /\ wipe' = wipe \ {f}
        /\ UNCHANGED <<server, req, cancel, rivalWipe, overrun>>
    BY <1>7, <1>type DEF Wipe, Starting
  <2>2. ASSUME NEW u \in Uploads \ overrun PROVE Swept(u)'
    BY <2>1, <1>type, RemoveFacts DEF Starting, Swept, Doomed, AtWork
  <2> QED
    BY <2>1, <2>2, <1>type DEF Starting
<1>8. ASSUME NEW f \in StagingFiles, RivalRemove(f) PROVE Starting'
  <2>1. rivalWipe # {} /\ Remove(f) /\ rivalWipe' = rivalWipe \ {f}
        /\ UNCHANGED <<server, req, cancel, wipe, overrun>>
    BY <1>8 DEF RivalRemove
  <2>2. ASSUME NEW u \in Uploads \ overrun PROVE Swept(u)'
    BY <2>1, <1>type, RemoveFacts DEF Starting, Swept, Doomed, AtWork
  <2> QED
    BY <2>1, <2>2, <1>type DEF Starting
<1>9. CASE UNCHANGED vars
  BY <1>9, <1>type DEF vars, Starting, Swept, Doomed, AtWork
<1> QED
  BY <1>1, <1>2, <1>3, <1>4, <1>5, <1>6, <1>7, <1>8, <1>9 DEF Next, Process

LEMMA LocalStep ==
    ASSUME HandlerInv, NEW u \in Uploads, Local(u), overrun \subseteq overrun',
           Trusted(u)' => Handler(u)'
    PROVE  HandlerInv'
BY Frame DEF HandlerInv, Local, machine, Trusted

(* A handler that can rely on the files after a step could before it.      *)
LEMMA TrustedBefore ==
    ASSUME ControlInv, NEW u \in Uploads, UploadStep(u) PROVE Trusted(u)' => Trusted(u)
<1>1. Kinds(u)
  BY KindsStep
<1> QED
  BY <1>1 DEF Kinds, Local, machine, OfHandler, OfStart, OfBrowser, Trusted

(* The steps between which the staging files of an upload are consistent   *)
(* and their handler, if any, holds nothing of them.                       *)
Resting == Waiting \cup Answered \cup {"body", "parsed", "finalize"}

LEMMA RestingStep ==
    ASSUME NEW u \in Uploads, Handler(u), req[u].at \in Resting, req'[u].at \in Resting,
           part'[u] = part[u], meta'[u] = meta[u]
    PROVE  Handler(u)'
BY DEF Handler, Consistent, Resting, Waiting, Answered

LEMMA CleaningStep ==
    ASSUME NEW u \in Uploads, req'[u].at \in {"dropRejected", "cleanPart"}
    PROVE  Handler(u)'
BY DEF Handler, Waiting, Answered

LEMMA HandlerStep == ExactInv /\ [Next]_vars => HandlerInv'
<1> SUFFICES ASSUME ExactInv, [Next]_vars PROVE HandlerInv'
  OBVIOUS
<1>type. TypeOK /\ ControlInv /\ HandlerInv /\ Starting /\ \A u \in Uploads : Control(u)
  BY DEF ExactInv, ControlInv, TypeInv
<1>grow. overrun \subseteq overrun'
  BY <1>type, OverrunStep
<1> USE DEF process, machine, Disk, Others, Starts, staging, store
<1>step. ASSUME NEW u \in Uploads, UploadStep(u) PROVE HandlerInv'
  <2>own. Trusted(u)' => Handler(u)
    BY <1>step, <1>type, TrustedBefore DEF HandlerInv
  <2>local. HandlerInv /\ Local(u) /\ overrun \subseteq overrun'
    BY <1>step, <1>type, <1>grow, KindsStep DEF Kinds
  <2>1. CASE Finish(u) \/ Refused(u) \/ GiveUp(u) \/ ChunkConnectionLost(u)
             \/ FinalizeConnectionLost(u) \/ LoseCancel(u)
    <3>1. UNCHANGED <<req, part, meta, final>>
      BY <2>1 DEF Finish, Refused, GiveUp, ChunkConnectionLost, FinalizeConnectionLost,
                  LoseCancel, SendCancel
    <3> QED
      BY <3>1, <2>own, <2>local, Frame, LocalStep
  <2>7. CASE Begin(u)
    <3>1. req[u].at \in Resting /\ req'[u].at \in Resting
      BY <2>7, <1>type DEF Begin, TypeOK, NewRequest, Control, Resting, Waiting, Answered
    <3>2. UNCHANGED <<part, meta, cancel>>
      BY <2>7 DEF Begin
    <3> QED
      BY <3>1, <3>2, <1>type, <2>own, <2>local, RestingStep, LocalStep
  <2>8. CASE NextChunk(u)
    <3>1. req[u].at \in Resting /\ req'[u].at \in Resting
      BY <2>8, <1>type DEF NextChunk, TypeOK, NewRequest, Control, Resting, Waiting, Answered
    <3>2. UNCHANGED <<part, meta, cancel>>
      BY <2>8 DEF NextChunk
    <3> QED
      BY <3>1, <3>2, <1>type, <2>own, <2>local, RestingStep, LocalStep
  <2>9. CASE AskFinalize(u)
    <3>1. req[u].at \in Resting /\ req'[u].at \in Resting
      BY <2>9, <1>type DEF AskFinalize, TypeOK, NewRequest, Control, Resting, Waiting, Answered
    <3>2. UNCHANGED <<part, meta, cancel>>
      BY <2>9 DEF AskFinalize
    <3> QED
      BY <3>1, <3>2, <1>type, <2>own, <2>local, RestingStep, LocalStep
  <2>10. CASE AnyRequest(u)
    <3>1. req[u].at \in Resting /\ req'[u].at \in Resting
      BY <2>10, <1>type DEF AnyRequest, TypeOK, NewRequest, Control, Resting, Waiting, Answered
    <3>2. UNCHANGED <<part, meta, cancel>>
      BY <2>10 DEF AnyRequest
    <3> QED
      BY <3>1, <3>2, <1>type, <2>own, <2>local, RestingStep, LocalStep
  <2>11. CASE LoseRequest(u)
    <3>1. req[u].at \in Resting /\ req'[u].at \in Resting
      BY <2>11, <1>type, GotoFacts DEF LoseRequest, TypeOK, Step, Answer, Resting, Waiting, Answered
    <3>2. UNCHANGED <<part, meta, cancel>>
      BY <2>11 DEF LoseRequest
    <3> QED
      BY <3>1, <3>2, <1>type, <2>own, <2>local, RestingStep, LocalStep
  <2>12. CASE AcceptChunk(u)
    <3>1. req[u].at \in Resting /\ req'[u].at \in Resting
      BY <2>12, <1>type, GotoFacts DEF AcceptChunk, TypeOK, Step, Answer, Resting, Waiting, Answered
    <3>2. UNCHANGED <<part, meta, cancel>>
      BY <2>12 DEF AcceptChunk
    <3> QED
      BY <3>1, <3>2, <1>type, <2>own, <2>local, RestingStep, LocalStep
  <2>13. CASE BodyFails(u)
    <3>1. req[u].at \in Resting /\ req'[u].at \in Resting
      BY <2>13, <1>type, GotoFacts DEF BodyFails, TypeOK, Step, Answer, Resting, Waiting, Answered
    <3>2. UNCHANGED <<part, meta, cancel>>
      BY <2>13 DEF BodyFails
    <3> QED
      BY <3>1, <3>2, <1>type, <2>own, <2>local, RestingStep, LocalStep
  <2>14. CASE ParseChunk(u)
    <3>1. req[u].at \in Resting /\ req'[u].at \in Resting
      BY <2>14, <1>type, GotoFacts DEF ParseChunk, TypeOK, Step, Answer, Resting, Waiting, Answered
    <3>2. UNCHANGED <<part, meta, cancel>>
      BY <2>14 DEF ParseChunk
    <3> QED
      BY <3>1, <3>2, <1>type, <2>own, <2>local, RestingStep, LocalStep
  <2>15. CASE ParseFails(u)
    <3>1. req[u].at \in Resting /\ req'[u].at \in Resting
      BY <2>15, <1>type, GotoFacts DEF ParseFails, TypeOK, Step, Answer, Resting, Waiting, Answered
    <3>2. UNCHANGED <<part, meta, cancel>>
      BY <2>15 DEF ParseFails
    <3> QED
      BY <3>1, <3>2, <1>type, <2>own, <2>local, RestingStep, LocalStep
  <2>16. CASE ChunkCutShort(u)
    <3>1. req[u].at \in Resting /\ req'[u].at \in Resting
      BY <2>16, <1>type, GotoFacts DEF ChunkCutShort, TypeOK, Step, Answer, Resting, Waiting, Answered
    <3>2. UNCHANGED <<part, meta, cancel>>
      BY <2>16 DEF ChunkCutShort
    <3> QED
      BY <3>1, <3>2, <1>type, <2>own, <2>local, RestingStep, LocalStep
  <2>17. CASE CheckChunk(u)
    <3>1. /\ req[u].at = "parsed" /\ req[u].idx = StagedNext(u) /\ UNCHANGED <<part, meta>>
          /\ req'[u].at = "append" /\ req'[u].idx = StagedNext(u)
            /\ req'[u].next = StagedNext(u) /\ req'[u].received = StagedReceived(u)
          /\ cancel' = cancel
      BY <2>17, <1>type, CheckedFacts DEF CheckChunk, TypeOK, Step, Answer, InOrder
    <3>2. ASSUME Handler(u) PROVE Handler(u)'
      BY <3>1, <3>2, <1>type, UptoFacts, NumChunksAssumption
      DEF Handler, Consistent, StagedNext, StagedReceived, Appended, Whole, Waiting, Answered
    <3> QED
      BY <3>1, <3>2, <1>type, <2>own, <2>local, LocalStep
  <2>18. CASE RejectChunk(u)
    <3>1. req'[u].at \in {"dropRejected", "cleanPart"}
      BY <2>18, <1>type, GotoFacts DEF RejectChunk, Step
    <3> QED
      BY <3>1, <2>local, CleaningStep, LocalStep
  <2>19. CASE AppendChunk(u)
    <3>1. /\ req[u].at = "append" /\ part'[u] = Appended(u)
          /\ req'[u].at = "dropping"
          /\ cancel' = cancel
          /\ req'[u].idx = req[u].idx
          /\ req'[u].next = req[u].next /\ req'[u].received = req[u].received
      BY <2>19, <1>type, GotoFacts DEF AppendChunk, TypeOK, Step, Answer
    <3>2. ASSUME Handler(u) PROVE Handler(u)'
      <4>1. req[u].idx \in Nat
        BY <1>type DEF TypeOK, Request
      <4>2. Consistent(u) /\ req[u].idx = StagedNext(u) /\ req[u].next = req[u].idx
            /\ req[u].received = req[u].idx
        BY <3>1, <3>2 DEF Handler
      <4>3. Appended(u) = Upto(req[u].idx + 1)
        <5>1. CASE meta[u] = Absent
          BY <4>2, <5>1, UptoFacts DEF Consistent, StagedNext, Appended
        <5>2. CASE meta[u] # Absent
          BY <4>1, <4>2, <5>2, UptoFacts DEF Consistent, StagedNext, Appended
        <5> QED
          BY <5>1, <5>2
      <4> QED
        BY <3>1, <4>2, <4>3 DEF Handler, Waiting, Answered
    <3> QED
      BY <3>1, <3>2, <1>type, <2>own, <2>local, LocalStep
  <2>20. CASE AppendFails(u)
    <3>1. req'[u].at \in {"dropRejected", "cleanPart"}
      BY <2>20, <1>type, GotoFacts DEF AppendFails, Step
    <3> QED
      BY <3>1, <2>local, CleaningStep, LocalStep
  <2>21. CASE DropChunk(u)
    <3>1. /\ req[u].at = "dropping" /\ part'[u] = part[u]
          /\ req'[u].at = "writeMeta"
          /\ cancel' = cancel
          /\ req'[u].idx = req[u].idx
          /\ req'[u].next = req[u].next /\ req'[u].received = req[u].received
      BY <2>21, <1>type, GotoFacts DEF DropChunk, TypeOK, Step, Answer
    <3>2. ASSUME Handler(u) PROVE Handler(u)'
      BY <3>1, <3>2, <1>type, UptoFacts, NumChunksAssumption
      DEF Handler, Consistent, StagedNext, StagedReceived, Appended, Whole, Waiting, Answered
    <3> QED
      BY <3>1, <3>2, <1>type, <2>own, <2>local, LocalStep
  <2>22. CASE WriteMeta(u)
    <3>1. /\ req[u].at = "writeMeta" /\ part'[u] = part[u]
            /\ meta'[u] = [next |-> req[u].next + 1, received |-> req[u].received + 1]
          /\ req'[u].at = "ok"
          /\ cancel' = cancel
          /\ req'[u].idx = req[u].idx
          /\ req'[u].next = req[u].next /\ req'[u].received = req[u].received
      BY <2>22, <1>type, GotoFacts DEF WriteMeta, TypeOK, Step, Answer
    <3>2. ASSUME Handler(u) PROVE Handler(u)'
      <4>1. req[u].next \in Nat /\ req[u].received \in Nat
        BY <1>type DEF TypeOK, Request
      <4>2. meta'[u] # Absent /\ meta'[u].next = req[u].next + 1
            /\ meta'[u].received = req[u].received + 1
        BY <3>1, <4>1, AbsentAssumption
      <4> QED
        BY <3>1, <3>2, <4>2 DEF Handler, Consistent, Waiting, Answered
    <3> QED
      BY <3>1, <3>2, <1>type, <2>own, <2>local, LocalStep
  <2>23. CASE WriteMetaFails(u)
    <3>1. req'[u].at \in {"dropRejected", "cleanPart"}
      BY <2>23, <1>type, GotoFacts DEF WriteMetaFails, Step
    <3> QED
      BY <3>1, <2>local, CleaningStep, LocalStep
  <2>24. CASE DropRejected(u)
    <3>1. req'[u].at \in {"dropRejected", "cleanPart"}
      BY <2>24, <1>type, GotoFacts DEF DropRejected, Step
    <3> QED
      BY <3>1, <2>local, CleaningStep, LocalStep
  <2>25. CASE CleanPart(u)
    <3>1. /\ req[u].at = "cleanPart" /\ part'[u] = Absent
          /\ req'[u].at = "cleanMeta"
          /\ cancel' = cancel
          /\ req'[u].idx = req[u].idx
          /\ req'[u].next = req[u].next /\ req'[u].received = req[u].received
      BY <2>25, <1>type, GotoFacts DEF CleanPart, TypeOK, Step, Answer
    <3>2. ASSUME Handler(u) PROVE Handler(u)'
      BY <3>1, <3>2, <1>type, UptoFacts, NumChunksAssumption
      DEF Handler, Consistent, StagedNext, StagedReceived, Appended, Whole, Waiting, Answered
    <3> QED
      BY <3>1, <3>2, <1>type, <2>own, <2>local, LocalStep
  <2>26. CASE CleanMeta(u)
    <3>1. /\ req[u].at = "cleanMeta" /\ part'[u] = part[u] /\ meta'[u] = Absent
          /\ req'[u].at = "error"
          /\ cancel' = cancel
          /\ req'[u].idx = req[u].idx
          /\ req'[u].next = req[u].next /\ req'[u].received = req[u].received
      BY <2>26, <1>type, GotoFacts DEF CleanMeta, TypeOK, Step, Answer
    <3>2. ASSUME Handler(u) PROVE Handler(u)'
      BY <3>1, <3>2, <1>type, UptoFacts, NumChunksAssumption
      DEF Handler, Consistent, StagedNext, StagedReceived, Appended, Whole, Waiting, Answered
    <3> QED
      BY <3>1, <3>2, <1>type, <2>own, <2>local, LocalStep
  <2>27. CASE AcceptFinalize(u)
    <3>1. req[u].at \in Resting /\ req'[u].at \in Resting
      BY <2>27, <1>type, GotoFacts DEF AcceptFinalize, TypeOK, Step, Answer, Resting, Waiting, Answered
    <3>2. UNCHANGED <<part, meta, cancel>>
      BY <2>27 DEF AcceptFinalize
    <3> QED
      BY <3>1, <3>2, <1>type, <2>own, <2>local, RestingStep, LocalStep
  <2>28. CASE FinalizeUnreadable(u)
    <3>1. req[u].at \in Resting /\ req'[u].at \in Resting
      BY <2>28, <1>type, GotoFacts DEF FinalizeUnreadable, TypeOK, Step, Answer, Resting, Waiting, Answered
    <3>2. UNCHANGED <<part, meta, cancel>>
      BY <2>28 DEF FinalizeUnreadable
    <3> QED
      BY <3>1, <3>2, <1>type, <2>own, <2>local, RestingStep, LocalStep
  <2>29. CASE FinalizeUnknown(u)
    <3>1. req[u].at \in Resting /\ req'[u].at \in Resting
      BY <2>29, <1>type, GotoFacts DEF FinalizeUnknown, TypeOK, Step, Answer, Resting, Waiting, Answered
    <3>2. UNCHANGED <<part, meta, cancel>>
      BY <2>29 DEF FinalizeUnknown
    <3> QED
      BY <3>1, <3>2, <1>type, <2>own, <2>local, RestingStep, LocalStep
  <2>30. CASE FinalizeMismatch(u)
    <3>1. req'[u].at \in {"dropRejected", "cleanPart"}
      BY <2>30, <1>type, GotoFacts DEF FinalizeMismatch, Step
    <3> QED
      BY <3>1, <2>local, CleaningStep, LocalStep
  <2>31. CASE FinalizeComplete(u)
    <3>1. /\ req[u].at = "finalize" /\ UNCHANGED <<part, meta>> /\ meta[u] # Absent
            /\ meta[u].received = NumChunks
          /\ req'[u].at = "move"
          /\ cancel' = cancel
          /\ req'[u].idx = req[u].idx
          /\ req'[u].next = req[u].next /\ req'[u].received = req[u].received
      BY <2>31, <1>type, GotoFacts DEF FinalizeComplete, TypeOK, Step, Answer, Complete
    <3>2. ASSUME Handler(u) PROVE Handler(u)'
      BY <3>1, <3>2, <1>type, UptoFacts, NumChunksAssumption
      DEF Handler, Consistent, StagedNext, StagedReceived, Appended, Whole, Waiting, Answered
    <3> QED
      BY <3>1, <3>2, <1>type, <2>own, <2>local, LocalStep
  <2>32. CASE Rename(u)
    <3>1. /\ req[u].at = "move" /\ final'[u] = part[u] /\ part'[u] = Absent
          /\ req'[u].at = "dropMeta"
          /\ cancel' = cancel
          /\ req'[u].idx = req[u].idx
          /\ req'[u].next = req[u].next /\ req'[u].received = req[u].received
      BY <2>32, <1>type, GotoFacts DEF Rename, TypeOK, Step, Answer
    <3>2. ASSUME Handler(u) PROVE Handler(u)'
      BY <3>1, <3>2, <1>type, UptoFacts, NumChunksAssumption
      DEF Handler, Consistent, StagedNext, StagedReceived, Appended, Whole, Waiting, Answered
    <3> QED
      BY <3>1, <3>2, <1>type, <2>own, <2>local, LocalStep
  <2>33. CASE RenameFails(u)
    <3>1. /\ req[u].at = "move" /\ part'[u] = part[u]
          /\ req'[u].at = "copy"
          /\ cancel' = cancel
          /\ req'[u].idx = req[u].idx
          /\ req'[u].next = req[u].next /\ req'[u].received = req[u].received
      BY <2>33, <1>type, GotoFacts DEF RenameFails, TypeOK, Step, Answer
    <3>2. ASSUME Handler(u) PROVE Handler(u)'
      BY <3>1, <3>2, <1>type, UptoFacts, NumChunksAssumption
      DEF Handler, Consistent, StagedNext, StagedReceived, Appended, Whole, Waiting, Answered
    <3> QED
      BY <3>1, <3>2, <1>type, <2>own, <2>local, LocalStep
  <2>34. CASE Copy(u)
    <3>1. /\ req[u].at = "copy" /\ final'[u] = part[u]
          /\ req'[u].at = "dropPart"
          /\ cancel' = cancel
          /\ req'[u].idx = req[u].idx
          /\ req'[u].next = req[u].next /\ req'[u].received = req[u].received
      BY <2>34, <1>type, GotoFacts DEF Copy, TypeOK, Step, Answer
    <3>2. ASSUME Handler(u) PROVE Handler(u)'
      BY <3>1, <3>2, <1>type, UptoFacts, NumChunksAssumption
      DEF Handler, Consistent, StagedNext, StagedReceived, Appended, Whole, Waiting, Answered
    <3> QED
      BY <3>1, <3>2, <1>type, <2>own, <2>local, LocalStep
  <2>35. CASE CopyFails(u)
    <3>1. req'[u].at \in {"dropRejected", "cleanPart"}
      BY <2>35, <1>type, GotoFacts DEF CopyFails, Step
    <3> QED
      BY <3>1, <2>local, CleaningStep, LocalStep
  <2>36. CASE DropPart(u)
    <3>1. /\ req[u].at = "dropPart" /\ final'[u] = final[u] /\ part'[u] = Absent
          /\ req'[u].at = "dropMeta"
          /\ cancel' = cancel
          /\ req'[u].idx = req[u].idx
          /\ req'[u].next = req[u].next /\ req'[u].received = req[u].received
      BY <2>36, <1>type, GotoFacts DEF DropPart, TypeOK, Step, Answer
    <3>2. ASSUME Handler(u) PROVE Handler(u)'
      BY <3>1, <3>2, <1>type, UptoFacts, NumChunksAssumption
      DEF Handler, Consistent, StagedNext, StagedReceived, Appended, Whole, Waiting, Answered
    <3> QED
      BY <3>1, <3>2, <1>type, <2>own, <2>local, LocalStep
  <2>37. CASE DropMeta(u)
    <3>1. /\ req[u].at = "dropMeta" /\ final'[u] = final[u] /\ part'[u] = part[u] /\ meta'[u] = Absent
          /\ req'[u].at = "insert"
          /\ cancel' = cancel
          /\ req'[u].idx = req[u].idx
          /\ req'[u].next = req[u].next /\ req'[u].received = req[u].received
      BY <2>37, <1>type, GotoFacts DEF DropMeta, TypeOK, Step, Answer
    <3>2. ASSUME Handler(u) PROVE Handler(u)'
      BY <3>1, <3>2, <1>type, UptoFacts, NumChunksAssumption
      DEF Handler, Consistent, StagedNext, StagedReceived, Appended, Whole, Waiting, Answered
    <3> QED
      BY <3>1, <3>2, <1>type, <2>own, <2>local, LocalStep
  <2>38. CASE Insert(u)
    <3>1. /\ req[u].at = "insert" /\ part'[u] = part[u] /\ meta'[u] = meta[u]
          /\ req'[u].at = "ok"
          /\ cancel' = cancel
          /\ req'[u].idx = req[u].idx
          /\ req'[u].next = req[u].next /\ req'[u].received = req[u].received
      BY <2>38, <1>type, GotoFacts DEF Insert, TypeOK, Step, Answer
    <3>2. ASSUME Handler(u) PROVE Handler(u)'
      BY <3>1, <3>2, <1>type, UptoFacts, NumChunksAssumption
      DEF Handler, Consistent, StagedNext, StagedReceived, Appended, Whole, Waiting, Answered
    <3> QED
      BY <3>1, <3>2, <1>type, <2>own, <2>local, LocalStep
  <2>39. CASE InsertFails(u)
    <3>1. /\ req[u].at = "insert" /\ part'[u] = part[u] /\ meta'[u] = meta[u]
          /\ req'[u].at = "error"
          /\ cancel' = cancel
          /\ req'[u].idx = req[u].idx
          /\ req'[u].next = req[u].next /\ req'[u].received = req[u].received
      BY <2>39, <1>type, GotoFacts DEF InsertFails, TypeOK, Step, Answer
    <3>2. ASSUME Handler(u) PROVE Handler(u)'
      BY <3>1, <3>2, <1>type, UptoFacts, NumChunksAssumption
      DEF Handler, Consistent, StagedNext, StagedReceived, Appended, Whole, Waiting, Answered
    <3> QED
      BY <3>1, <3>2, <1>type, <2>own, <2>local, LocalStep
  <2>40. CASE CancelPart(u)
    <3>1. cancel'[u] # "none"
      BY <2>40, <1>type DEF CancelPart, TypeOK
    <3> QED
      BY <3>1, <2>local, LocalStep DEF Trusted
  <2>41. CASE CancelMeta(u)
    <3>1. cancel'[u] # "none"
      BY <2>41, <1>type DEF CancelMeta, TypeOK
    <3> QED
      BY <3>1, <2>local, LocalStep DEF Trusted
  <2> QED
    BY <1>step, <2>1, <2>7, <2>8, <2>9, <2>10, <2>11, <2>12, <2>13, <2>14, <2>15, <2>16, <2>17, <2>18, <2>19, <2>20, <2>21, <2>22, <2>23, <2>24, <2>25, <2>26, <2>27, <2>28, <2>29, <2>30, <2>31, <2>32, <2>33, <2>34, <2>35, <2>36, <2>37, <2>38, <2>39, <2>40, <2>41
    DEF UploadStep, Browser, Network, ChunkHandler, FinalizeHandler, CancelHandler
<1>stop. ASSUME Stop PROVE HandlerInv'
  BY <1>stop, <1>type, Frame DEF Stop, HandlerInv, Trusted
<1>crash. ASSUME Crash PROVE HandlerInv'
  <2>1. \A u \in Uploads : req'[u].at \notin Working
    BY <1>crash, <1>type DEF Crash, TypeOK, Request, Working, ChunkWork, FinalWork, CleanWork
  <2> QED
    BY <1>crash, <2>1 DEF Crash, HandlerInv, Trusted
<1>start. ASSUME Start PROVE HandlerInv'
  BY <1>start DEF Start, HandlerInv, Trusted
<1>swept. ASSUME NEW u \in Uploads, part'[u] = Absent, meta'[u] = Absent,
                 req'[u].at \notin Working
          PROVE  Handler(u)'
  BY <1>swept DEF Handler, Consistent, Working, ChunkWork, FinalWork, CleanWork
<1>bind. ASSUME Bind PROVE HandlerInv'
  <2>1. ASSUME NEW u \in Uploads, Trusted(u)' PROVE Handler(u)'
    <3>1. Doomed(u, {}) /\ UNCHANGED <<part, meta, req>>
      BY <1>bind, <2>1, <1>type DEF Bind, Starting, Swept, Trusted
    <3> QED
      BY <3>1, <1>swept DEF Doomed, AtWork
  <2> QED
    BY <2>1 DEF HandlerInv
<1>wipe. ASSUME NEW f \in StagingFiles, Wipe(f) PROVE HandlerInv'
  BY <1>wipe, <1>type DEF Wipe, Starting, HandlerInv, Trusted
<1>rival. ASSUME RivalStart PROVE HandlerInv'
  BY <1>rival, <1>type, <1>grow, Frame DEF RivalStart, HandlerInv, Trusted
<1>remove. ASSUME NEW f \in StagingFiles, RivalRemove(f) PROVE HandlerInv'
  <2>1. ASSUME NEW u \in Uploads, Trusted(u)' PROVE Handler(u)'
    <3>1. Doomed(u, rivalWipe) /\ rivalWipe \ {f} = {} /\ Remove(f) /\ req' = req
      BY <1>remove, <2>1, <1>type DEF RivalRemove, Starting, Swept, Trusted
    <3>2. part'[u] = Absent /\ meta'[u] = Absent
      BY <3>1, <1>type, RemoveFacts
    <3> QED
      BY <3>1, <3>2, <1>swept DEF Doomed, AtWork
  <2> QED
    BY <2>1 DEF HandlerInv
<1>same. CASE UNCHANGED vars
  BY <1>same, <1>type, Frame DEF vars, HandlerInv, Trusted
<1> QED
  BY <1>step, <1>stop, <1>crash, <1>start, <1>bind, <1>wipe, <1>rival, <1>remove, <1>same
  DEF Next, Process

-------------------------------------------------------------------------------
LEMMA ExactStep == ExactInv /\ [Next]_vars => ExactInv'
<1> SUFFICES ASSUME ExactInv, [Next]_vars PROVE ExactInv'
  OBVIOUS
<1>1. ControlInv'
  BY ControlStep DEF ExactInv
<1>2. Starting'
  BY StartingStep
<1>3. HandlerInv'
  BY HandlerStep
<1>4. StoredExact'
  BY StoredStep
<1> QED
  BY <1>1, <1>2, <1>3, <1>4 DEF ExactInv

LEMMA InitType == Init => TypeInv
<1> SUFFICES ASSUME Init PROVE TypeInv
  OBVIOUS
<1>1. [NewRequest("chunk", 0) EXCEPT !.at = "none"] \in Request
  BY NumChunksAssumption DEF NewRequest, Request, Waiting
<1> QED
  BY <1>1, BoundsAssumption DEF Init, TypeInv, TypeOK, Bounded, NewRequest

LEMMA InitExact == Init => ExactInv
<1> SUFFICES ASSUME Init PROVE ExactInv
  OBVIOUS
<1>1. \A u \in Uploads : req[u].at = "none" /\ req[u].op = "chunk" /\ req[u].idx = 0
  BY DEF Init, NewRequest
<1>2. \A u \in Uploads : Control(u)
  BY <1>1 DEF Init, Control, ChunkWork, FinalWork
<1>3. Starting
  BY DEF Init, Starting, Swept
<1>4. \A u \in Uploads : Handler(u)
  BY <1>1 DEF Init, Handler, Consistent
<1>5. StoredExact
  BY DEF Init, StoredExact
<1> QED
  BY <1>2, <1>3, <1>4, <1>5, InitType DEF ExactInv, ControlInv, HandlerInv

-------------------------------------------------------------------------------
(* Every state the protocol reaches is well typed, also when further       *)
(* server processes wipe the staging directory: no counter passes the      *)
(* number of chunks and no handler leaves its steps.                       *)
THEOREM TypeCorrect == Spec => []TypeOK
<1>1. Init => TypeInv
  BY InitType
<1>2. TypeInv /\ [Next]_vars => TypeInv'
  BY TypeStep
<1>3. TypeInv => TypeOK
  BY DEF TypeInv
<1> QED
  BY <1>1, <1>2, <1>3, PTL DEF Spec

(* An upload for which an upload-cancel was sent never gets a row, however *)
(* its chunk handlers and the cancel handler interleave and whoever else   *)
(* removes staging files.                                                  *)
THEOREM CancelSafe == Spec => []CancelledNeverStored
<1>1. Init => ControlInv
  BY InitExact DEF ExactInv
<1>2. ControlInv /\ [Next]_vars => ControlInv'
  BY ControlStep
<1>3. ControlInv => CancelledNeverStored
  BY DEF ControlInv, Control, CancelledNeverStored
<1> QED
  BY <1>1, <1>2, <1>3, PTL DEF Spec

LEMMA ExactInvariant == Spec => []ExactInv
<1>1. Init => ExactInv
  BY InitExact
<1>2. ExactInv /\ [Next]_vars => ExactInv'
  BY ExactStep
<1> QED
  BY <1>1, <1>2, PTL DEF Spec

(* Any number of servers started, stopped by ctrl-c, killed and started    *)
(* again: a file in the catalog is the file the client sent, unless a wipe *)
(* of the staging directory ran beside a handler of its upload.            *)
THEOREM ExactlyStored == Spec => []StoredExact
<1>1. ExactInv => StoredExact
  BY DEF ExactInv
<1> QED
  BY <1>1, ExactInvariant, PTL

(* A client that was told "stored" has its file in the catalog, and has it *)
(* whole but for such a wipe.                                              *)
THEOREM ToldTheTruth == Spec => []ToldStored
<1>1. ExactInv => ToldStored
  BY DEF ExactInv, StoredExact, ControlInv, Control, ToldStored
<1> QED
  BY <1>1, ExactInvariant, PTL

(* Between the requests of a live upload that no wipe overran the meta     *)
(* file counts the chunks in the part file.                                *)
THEOREM MetaIsTrue == Spec => []MetaTellsPart
<1>1. ExactInv => MetaTellsPart
  BY DEF ExactInv, HandlerInv, Trusted, Handler, Consistent, MetaTellsPart, Undisturbed,
         Waiting, Answered
<1> QED
  BY <1>1, ExactInvariant, PTL

-------------------------------------------------------------------------------
LEMMA AbstractStep ==
    ExactInv /\ ExactInv' /\ [Next]_vars
        => [Abstract!Next]_<<Catalog, Verdict>>
<1> SUFFICES ASSUME ExactInv, ExactInv', [Next]_vars
             PROVE  [Abstract!Next]_<<Catalog, Verdict>>
  OBVIOUS
<1>type. TypeOK /\ StoredExact /\ StoredExact' /\ \A u \in Uploads : Control(u)
  BY DEF ExactInv, ControlInv, TypeInv
<1>kept. \A u \in rows : u \in overrun' <=> u \in overrun
  BY OverrunStep DEF ExactInv
<1>cat. ASSUME rows' = rows PROVE Catalog' = Catalog
  BY <1>cat, <1>kept, <1>type DEF Catalog, StoredExact
<1>ver. ASSUME client' = client PROVE Verdict' = Verdict
  <2>1. \A u \in Uploads : client[u] = "stored" => u \in rows
    BY <1>type DEF Control
  <2> QED
    BY <1>ver, <1>kept, <2>1 DEF Verdict
<1>1. ASSUME NEW u \in Uploads, Insert(u)
      PROVE  Abstract!Store(u) \/ UNCHANGED <<Catalog, Verdict>>
  <2>1. u \notin rows
    BY <1>1, <1>type DEF Insert, Step, Control
  <2>2. rows' = rows \cup {u} /\ UNCHANGED <<client, overrun, final>>
    BY <1>1 DEF Insert, Others, process
  <2>3. Verdict' = Verdict
    BY <2>2, <1>ver
  <2>4. CASE u \in overrun
    <3>1. Catalog' = Catalog
      BY <2>1, <2>2, <2>4 DEF Catalog
    <3> QED
      BY <2>3, <3>1
  <2>5. CASE u \notin overrun
    <3>1. final'[u] = Whole
      BY <2>2, <2>5, <1>type DEF StoredExact
    <3>2. Catalog[u] = Absent /\ Catalog' = [Catalog EXCEPT ![u] = Whole]
      BY <2>1, <2>2, <2>5, <3>1 DEF Catalog
    <3> QED
      BY <2>3, <3>2 DEF Abstract!Store
  <2> QED
    BY <2>4, <2>5
<1>2. ASSUME NEW u \in Uploads, Finish(u)
      PROVE  Abstract!TellOk(u) \/ UNCHANGED <<Catalog, Verdict>>
  <2>1. /\ client[u] = "finalize" /\ client' = [client EXCEPT ![u] = "stored"]
        /\ u \in rows /\ UNCHANGED <<rows, overrun>>
    BY <1>2, <1>type DEF Finish, Disk, process, Control
  <2>2. Catalog' = Catalog
    BY <2>1, <1>cat
  <2>3. CASE u \in overrun
    <3>1. Verdict' = Verdict
      BY <2>1, <2>3, <1>type DEF Verdict, TypeOK
    <3> QED
      BY <2>2, <3>1
  <2>4. CASE u \notin overrun
    <3>1. Verdict[u] = "pending" /\ Verdict' = [Verdict EXCEPT ![u] = "ok"]
      BY <2>1, <2>4, <1>type DEF Verdict, TypeOK
    <3>2. Catalog[u] = Whole
      BY <2>1, <2>4, <1>type DEF Catalog, StoredExact
    <3> QED
      BY <2>1, <2>2, <3>1, <3>2 DEF Abstract!TellOk
  <2> QED
    BY <2>3, <2>4
<1>3. ASSUME NEW u \in Uploads, FinalizeConnectionLost(u) \/ GiveUp(u)
      PROVE  Abstract!TellError(u)
  <2>1. /\ client[u] \in {"finalize", "cancelling"} /\ UNCHANGED <<rows, overrun>>
        /\ client' = [client EXCEPT ![u] = "failed"]
    BY <1>3 DEF FinalizeConnectionLost, GiveUp, Disk, process
  <2>2. Verdict[u] = "pending" /\ Verdict' = [Verdict EXCEPT ![u] = "error"]
    BY <2>1, <1>type DEF Verdict, TypeOK
  <2> QED
    BY <2>1, <2>2, <1>cat DEF Abstract!TellError
<1>4. ASSUME NEW u \in Uploads,
             Begin(u) \/ NextChunk(u) \/ AskFinalize(u) \/ AnyRequest(u)
             \/ Refused(u) \/ ChunkConnectionLost(u)
      PROVE  UNCHANGED <<Catalog, Verdict>>
  <2>1. UNCHANGED <<rows, overrun>> /\ client[u] \in {"idle", "chunk", "finalize"}
        /\ \E c \in {"chunk", "finalize", "cancelling"} : client' = [client EXCEPT ![u] = c]
    BY <1>4, <1>type
    DEF Begin, NextChunk, AskFinalize, AnyRequest, Refused, ChunkConnectionLost, SendCancel,
        Disk, process, TypeOK
  <2>2. Verdict' = Verdict
    BY <2>1, <1>type DEF Verdict, TypeOK
  <2> QED
    BY <2>1, <2>2, <1>cat
<1>5. ASSUME UNCHANGED <<rows, client>> PROVE UNCHANGED <<Catalog, Verdict>>
  BY <1>5, <1>cat, <1>ver
<1>6. ASSUME Process \/ UNCHANGED vars PROVE UNCHANGED <<rows, client>>
  BY <1>6 DEF Process, vars, Disk, store, Stop, Crash, Start, Bind, RivalStart, Wipe, RivalRemove
<1>7. ASSUME NEW u \in Uploads, ChunkHandler(u) \/ CancelHandler(u) PROVE UNCHANGED <<rows, client>>
  BY <1>7
  DEF ChunkHandler, CancelHandler, Disk, Others, store, AcceptChunk, BodyFails, ParseChunk,
      ParseFails, ChunkCutShort, CheckChunk, RejectChunk, AppendChunk, AppendFails,
      DropChunk, WriteMeta, WriteMetaFails, DropRejected, CleanPart, CleanMeta,
      CancelPart, CancelMeta
<1>8. ASSUME NEW u \in Uploads, FinalizeHandler(u), ~Insert(u) PROVE UNCHANGED <<rows, client>>
  BY <1>8
  DEF FinalizeHandler, Disk, Others, store, AcceptFinalize, FinalizeUnreadable,
      FinalizeUnknown, FinalizeMismatch, FinalizeComplete, Rename, RenameFails, Copy,
      CopyFails, DropPart, DropMeta, InsertFails
<1>9. ASSUME NEW u \in Uploads, LoseRequest(u) \/ LoseCancel(u) PROVE UNCHANGED <<rows, client>>
  BY <1>9 DEF LoseRequest, LoseCancel, Disk
<1>10. ASSUME NEW u \in Uploads, UploadStep(u)
       PROVE  Abstract!Next \/ UNCHANGED <<Catalog, Verdict>>
  BY <1>10, <1>1, <1>2, <1>3, <1>4, <1>5, <1>7, <1>8, <1>9
  DEF Abstract!Next, UploadStep, Browser, Network
<1> QED
  BY <1>5, <1>6, <1>10 DEF Next

(* The chunk protocol implements the all-or-nothing upload: staging files, *)
(* handler threads, crashes and restarts are invisible to a client that    *)
(* looks at the catalog and at the verdict it was given, but for uploads   *)
(* that a wipe of the staging directory overran.                           *)
THEOREM ImplementsAtomicUpload == Spec => AllOrNothing
<1>1. Init => Abstract!Init
  BY DEF Init, Abstract!Init, Catalog, Verdict
<1>2. ExactInv /\ ExactInv' /\ [Next]_vars => [Abstract!Next]_<<Catalog, Verdict>>
  BY AbstractStep
<1> QED
  BY <1>1, <1>2, ExactInvariant, PTL DEF Spec, AllOrNothing, Abstract!Spec, Abstract!vars

-------------------------------------------------------------------------------
(* What the files hold whoever else removes staging files.                 *)
Rising(s)   == \A j, k \in 1..Len(s) : j < k => s[j] < s[k]
Below(s, i) == \A k \in 1..Len(s) : s[k] < i

(* A browser numbers its chunks upwards, so each is appended behind smaller *)
(* ones.                                                                   *)
BeforeAppend == {"transit", "body", "parsed", "append"}
Ascending(u) ==
    /\ req[u].at = "none" => part[u] = Absent
    /\ part[u] # Absent =>
         /\ Rising(part[u])
         /\ req[u].op = "chunk" => Below(part[u], req[u].idx + 1)
         /\ req[u].op = "chunk" /\ req[u].at \in BeforeAppend => Below(part[u], req[u].idx)
    /\ final[u] # Absent => Rising(final[u])

(* A stored file that is not torn has a handler about to list it, or was   *)
(* listed, or its handler died with its process.                           *)
Moved == {"dropPart", "dropMeta", "insert"}
Leftover(u) == final[u] \notin {Absent, << >>} =>
    /\ req[u].op = "finalize"
    /\ req[u].at \in Moved \cup {"ok"} \/ (req[u].at = "lost" /\ crashes > 0)
Kept(u) == req[u].at \in Moved \/ u \in rows => final[u] # Absent

FileOK(u) == Leftover(u) /\ Kept(u) /\ (u \in Browsers => Ascending(u))
FilesInv  == ControlInv /\ \A u \in Uploads : FileOK(u)

LEMMA FileFrame ==
    ASSUME NEW v \in Uploads, FileOK(v), req'[v] = req[v], part'[v] \in {part[v], Absent},
           final'[v] = final[v], v \in rows' <=> v \in rows, crashes > 0 => crashes' > 0
    PROVE  FileOK(v)'
BY DEF FileOK, Leftover, Kept, Ascending, Rising, Below

(* A handler's step that leaves the stored file alone.                     *)
LEMMA FileMove ==
    ASSUME NEW u \in Uploads, FileOK(u), NEW a, req'[u].at = a, a # "none",
           req'[u].op = req[u].op, req'[u].idx = req[u].idx,
           part'[u] \in {part[u], Absent}, final'[u] = final[u], u \in rows' <=> u \in rows,
           a \in BeforeAppend => req[u].at \in BeforeAppend,
           a \in Moved => req[u].at \in Moved,
           req[u].at \in Moved => a \in Moved \/ (a = "lost" /\ crashes' > 0),
           req[u].at \notin {"ok", "lost"}
    PROVE  FileOK(u)'
BY DEF FileOK, Leftover, Kept, Ascending, Rising, Below

LEMMA RisingAppend ==
    ASSUME NEW s \in Seq(0..NumChunks), NEW i \in 0..NumChunks, Rising(s), Below(s, i)
    PROVE  Rising(Append(s, i)) /\ Below(Append(s, i), i + 1)
<1> DEFINE t == Append(s, i)
<1>1. /\ Len(t) = Len(s) + 1 /\ t[Len(s) + 1] = i /\ Len(s) \in Nat
      /\ \A k \in 1..Len(s) : t[k] = s[k] /\ s[k] \in Nat
  BY NumChunksAssumption, AppendProperties, ElementOfSeq, LenProperties
<1> HIDE DEF t
<1>2. \A k \in 1..Len(t) : k \in 1..Len(s) \/ k = Len(s) + 1
  BY <1>1
<1>3. \A k \in 1..Len(t) : t[k] < i + 1
  BY <1>1, <1>2 DEF Below
<1>4. \A j, k \in 1..Len(t) : j < k => t[j] < t[k]
  BY <1>1, <1>2 DEF Below, Rising
<1> QED
  BY <1>3, <1>4 DEF Rising, Below, t

LEMMA AppendedRises ==
    ASSUME TypeOK, NEW u \in Uploads, Ascending(u), req[u].op = "chunk", req[u].at = "append"
    PROVE  Rising(Appended(u)) /\ Below(Appended(u), req[u].idx + 1)
<1>1. req[u].idx \in 0..NumChunks /\ req[u].idx \in Nat
  BY NumChunksAssumption DEF TypeOK, Request
<1>2. CASE part[u] = Absent
  <2>1. Appended(u) = <<req[u].idx>>
    BY <1>2 DEF Appended
  <2> QED
    BY <1>1, <2>1 DEF Rising, Below
<1>3. CASE part[u] # Absent
  <2>1. part[u] \in Seq(0..NumChunks) /\ Rising(part[u]) /\ Below(part[u], req[u].idx)
    BY <1>3 DEF TypeOK, Ascending, BeforeAppend
  <2>2. Appended(u) = Append(part[u], req[u].idx)
    BY <1>3 DEF Appended
  <2> QED
    BY <1>1, <2>1, <2>2, RisingAppend
<1> QED
  BY <1>2, <1>3

LEMMA WholeFacts == Whole # Absent /\ Whole # << >>
<1>1. Whole \in Seq(Nat) /\ Len(Whole) = NumChunks
  BY NumChunksAssumption DEF Whole, Upto
<1> QED
  BY <1>1, NumChunksAssumption, AbsentAssumption, EmptySeq

LEMMA CrashesGrow == ControlInv /\ [Next]_vars => (crashes > 0 => crashes' > 0)
<1> SUFFICES ASSUME ControlInv, [Next]_vars, crashes > 0 PROVE crashes' > 0
  OBVIOUS
<1>1. ASSUME NEW u \in Uploads, UploadStep(u) PROVE crashes' = crashes
  BY <1>1, KindsStep DEF Kinds, Local, machine
<1>2. crashes \in Nat
  BY BoundsAssumption DEF ControlInv, TypeInv, TypeOK
<1> QED
  BY <1>1, <1>2 DEF Next, Process, Stop, Crash, Start, Bind, RivalStart, Wipe, RivalRemove, vars,
                    process, machine

LEMMA FilesStep == FilesInv /\ [Next]_vars => FilesInv'
<1> SUFFICES ASSUME FilesInv, [Next]_vars PROVE \A v \in Uploads : FileOK(v)'
  BY ControlStep DEF FilesInv
<1>type. /\ TypeOK /\ \A v \in Uploads : Control(v) /\ FileOK(v)
         /\ crashes > 0 => crashes' > 0
  BY CrashesGrow DEF FilesInv, ControlInv, TypeInv
<1> USE DEF Disk, process, machine, staging, store, Others, Starts
<1>1. ASSUME UNCHANGED <<req, part, final, rows>> PROVE \A v \in Uploads : FileOK(v)'
  BY <1>1, <1>type, FileFrame
<1>2. ASSUME NEW u \in Uploads, Begin(u) PROVE \A v \in Uploads : FileOK(v)'
  <2>1. /\ req'[u].at = "transit" /\ req'[u].op = "chunk" /\ req[u].at = "none"
        /\ UNCHANGED <<part, final, rows>> /\ \A v \in Uploads \ {u} : req'[v] = req[v]
    <3>1. req[u].at = "none"
      BY <1>2, <1>type DEF Begin, Control
    <3> QED
      BY <1>2, <3>1, <1>type, NewRequestFacts DEF Begin
  <2>2. FileOK(u)'
    BY <2>1, <1>type, WholeFacts DEF FileOK, Leftover, Kept, Ascending, Control, Moved
  <2> QED
    BY <2>1, <2>2, <1>type, FileFrame
<1>3. ASSUME NEW u \in Uploads, NextChunk(u) PROVE \A v \in Uploads : FileOK(v)'
  <2>1. /\ req'[u].at = "transit" /\ req'[u].op = "chunk" /\ req'[u].idx = req[u].idx + 1
        /\ UNCHANGED <<part, final, rows>> /\ \A v \in Uploads \ {u} : req'[v] = req[v]
    BY <1>3, <1>type, NewRequestFacts DEF NextChunk
  <2>2. req[u].op = "chunk" /\ req[u].at = "ok" /\ req[u].idx \in Nat
    BY <1>3, <1>type DEF NextChunk, Control, TypeOK, Request
  <2>3. FileOK(u)'
    <3>1. Leftover(u)' /\ Kept(u)'
      BY <2>1, <2>2, <1>type DEF FileOK, Leftover, Kept, Control, Moved
    <3>2. ASSUME u \in Browsers, part[u] # Absent PROVE Below(part[u], req[u].idx + 2)
      <4>1. part[u] \in Seq(0..NumChunks) /\ Below(part[u], req[u].idx + 1)
        BY <3>2, <2>2, <1>type DEF FileOK, Ascending, TypeOK
      <4>2. \A k \in 1..Len(part[u]) : part[u][k] \in Nat
        BY <4>1, ElementOfSeq, NumChunksAssumption
      <4> QED
        BY <4>1, <4>2, <2>2 DEF Below
    <3>3. u \in Browsers => Ascending(u)'
      BY <2>1, <2>2, <3>2, <1>type DEF FileOK, Ascending, Rising, Below
    <3> QED
      BY <3>1, <3>3 DEF FileOK
  <2> QED
    BY <2>1, <2>3, <1>type, FileFrame
<1>4. ASSUME NEW u \in Uploads, AskFinalize(u) PROVE \A v \in Uploads : FileOK(v)'
  <2>1. /\ req'[u].at = "transit" /\ req'[u].op = "finalize"
        /\ UNCHANGED <<part, final, rows>> /\ \A v \in Uploads \ {u} : req'[v] = req[v]
    BY <1>4, <1>type, NewRequestFacts DEF AskFinalize
  <2>2. req[u].op = "chunk" /\ req[u].at = "ok"
    BY <1>4, <1>type DEF AskFinalize, Control
  <2>3. FileOK(u)'
    BY <2>1, <2>2, <1>type DEF FileOK, Leftover, Kept, Ascending, Rising, Control, Moved
  <2> QED
    BY <2>1, <2>3, <1>type, FileFrame
<1>5. ASSUME NEW u \in Uploads, AnyRequest(u) PROVE \A v \in Uploads : FileOK(v)'
  <2>1. /\ req'[u].at = "transit" /\ u \notin Browsers
        /\ UNCHANGED <<part, final, rows>> /\ \A v \in Uploads \ {u} : req'[v] = req[v]
    BY <1>5, <1>type, NewRequestFacts DEF AnyRequest
  <2>2. req[u].op = "chunk" \/ req[u].at = "error"
    BY <1>5, <1>type DEF AnyRequest, Control
  <2>3. FileOK(u)'
    BY <2>1, <2>2, <1>type DEF FileOK, Leftover, Kept, Control, Moved
  <2> QED
    BY <2>1, <2>3, <1>type, FileFrame
(* The handler steps that leave the stored file and the catalog alone.     *)
<1>goto. ASSUME NEW u \in Uploads, NEW a, Goto(u, a), a # "none",
                \A v \in Uploads : part'[v] \in {part[v], IF v = u THEN Absent ELSE part[v]},
                UNCHANGED <<final, rows>>,
                a \in BeforeAppend => req[u].at \in BeforeAppend,
                a \in Moved => req[u].at \in Moved,
                req[u].at \in Moved => a \in Moved,
                req[u].at \notin {"ok", "lost"}
         PROVE  \A v \in Uploads : FileOK(v)'
  <2>1. /\ req'[u].at = a /\ req'[u].op = req[u].op /\ req'[u].idx = req[u].idx
        /\ \A v \in Uploads \ {u} : req'[v] = req[v]
    BY <1>goto, <1>type, GotoFacts
  <2>2. FileOK(u)'
    <3>1. /\ part'[u] \in {part[u], Absent} /\ final'[u] = final[u]
          /\ u \in rows' <=> u \in rows
          /\ req[u].at \in Moved => a \in Moved \/ (a = "lost" /\ crashes' > 0)
      BY <1>goto
    <3>2. FileOK(u)
      BY <1>type
    <3> QED
      BY <1>goto, <2>1, <3>1, <3>2, FileMove
  <2> QED
    BY <1>goto, <1>type, <2>1, <2>2, FileFrame
<1>6. ASSUME NEW u \in Uploads, LoseRequest(u) PROVE \A v \in Uploads : FileOK(v)'
  <2>1. /\ req[u].at = "transit" /\ Goto(u, "lost") /\ UNCHANGED <<final, rows>>
        /\ part' = part
    BY <1>6 DEF LoseRequest, Step
  <2> QED
    BY <2>1, <1>goto, <1>type DEF BeforeAppend, Moved, TypeOK
<1>7. ASSUME NEW u \in Uploads, AcceptChunk(u) PROVE \A v \in Uploads : FileOK(v)'
  <2>1. /\ req[u].at = "transit" /\ Goto(u, "body") /\ UNCHANGED <<final, rows>>
        /\ part' = part
    BY <1>7 DEF AcceptChunk, Step
  <2> QED
    BY <2>1, <1>goto, <1>type DEF BeforeAppend, Moved, TypeOK
<1>8. ASSUME NEW u \in Uploads, BodyFails(u) PROVE \A v \in Uploads : FileOK(v)'
  <2>1. /\ req[u].at = "body" /\ Goto(u, "error") /\ UNCHANGED <<final, rows>>
        /\ part' = part
    BY <1>8 DEF BodyFails, Answer
  <2> QED
    BY <2>1, <1>goto, <1>type DEF BeforeAppend, Moved, TypeOK
<1>9. ASSUME NEW u \in Uploads, ParseChunk(u) PROVE \A v \in Uploads : FileOK(v)'
  <2>1. /\ req[u].at = "body" /\ Goto(u, "parsed") /\ UNCHANGED <<final, rows>>
        /\ part' = part
    BY <1>9 DEF ParseChunk, Step
  <2> QED
    BY <2>1, <1>goto, <1>type DEF BeforeAppend, Moved, TypeOK
<1>10. ASSUME NEW u \in Uploads, ParseFails(u) PROVE \A v \in Uploads : FileOK(v)'
  <2>1. /\ req[u].at = "body" /\ Goto(u, "error") /\ UNCHANGED <<final, rows>>
        /\ part' = part
    BY <1>10 DEF ParseFails
  <2> QED
    BY <2>1, <1>goto, <1>type DEF BeforeAppend, Moved, TypeOK
<1>11. ASSUME NEW u \in Uploads, ChunkCutShort(u) PROVE \A v \in Uploads : FileOK(v)'
  <2>1. /\ req[u].at = "parsed" /\ Goto(u, "error") /\ UNCHANGED <<final, rows>>
        /\ part' = part
    BY <1>11 DEF ChunkCutShort
  <2> QED
    BY <2>1, <1>goto, <1>type DEF BeforeAppend, Moved, TypeOK
<1>12. ASSUME NEW u \in Uploads, RejectChunk(u) PROVE \A v \in Uploads : FileOK(v)'
  <2>1. /\ req[u].at = "parsed" /\ Goto(u, "dropRejected") /\ UNCHANGED <<final, rows>>
        /\ part' = part
    BY <1>12 DEF RejectChunk
  <2> QED
    BY <2>1, <1>goto, <1>type DEF BeforeAppend, Moved, TypeOK
<1>13. ASSUME NEW u \in Uploads, DropChunk(u) PROVE \A v \in Uploads : FileOK(v)'
  <2>1. /\ req[u].at = "dropping" /\ Goto(u, "writeMeta") /\ UNCHANGED <<final, rows>>
        /\ part' = part
    BY <1>13 DEF DropChunk, Step
  <2> QED
    BY <2>1, <1>goto, <1>type DEF BeforeAppend, Moved, TypeOK
<1>14. ASSUME NEW u \in Uploads, WriteMeta(u) PROVE \A v \in Uploads : FileOK(v)'
  <2>1. /\ req[u].at = "writeMeta" /\ Goto(u, "ok") /\ UNCHANGED <<final, rows>>
        /\ part' = part
    BY <1>14 DEF WriteMeta, Answer
  <2> QED
    BY <2>1, <1>goto, <1>type DEF BeforeAppend, Moved, TypeOK
<1>15. ASSUME NEW u \in Uploads, WriteMetaFails(u) PROVE \A v \in Uploads : FileOK(v)'
  <2>1. /\ req[u].at = "writeMeta" /\ Goto(u, "cleanPart") /\ UNCHANGED <<final, rows>>
        /\ part' = part
    BY <1>15 DEF WriteMetaFails, Step
  <2> QED
    BY <2>1, <1>goto, <1>type DEF BeforeAppend, Moved, TypeOK
<1>16. ASSUME NEW u \in Uploads, DropRejected(u) PROVE \A v \in Uploads : FileOK(v)'
  <2>1. /\ req[u].at = "dropRejected" /\ Goto(u, "cleanPart") /\ UNCHANGED <<final, rows>>
        /\ part' = part
    BY <1>16 DEF DropRejected, Step
  <2> QED
    BY <2>1, <1>goto, <1>type DEF BeforeAppend, Moved, TypeOK
<1>17. ASSUME NEW u \in Uploads, CleanPart(u) PROVE \A v \in Uploads : FileOK(v)'
  <2>1. /\ req[u].at = "cleanPart" /\ Goto(u, "cleanMeta") /\ UNCHANGED <<final, rows>>
        /\ part' = [part EXCEPT ![u] = Absent]
    BY <1>17 DEF CleanPart, Step
  <2> QED
    BY <2>1, <1>goto, <1>type DEF BeforeAppend, Moved, TypeOK
<1>18. ASSUME NEW u \in Uploads, CleanMeta(u) PROVE \A v \in Uploads : FileOK(v)'
  <2>1. /\ req[u].at = "cleanMeta" /\ Goto(u, "error") /\ UNCHANGED <<final, rows>>
        /\ part' = part
    BY <1>18 DEF CleanMeta, Answer
  <2> QED
    BY <2>1, <1>goto, <1>type DEF BeforeAppend, Moved, TypeOK
<1>19. ASSUME NEW u \in Uploads, AcceptFinalize(u) PROVE \A v \in Uploads : FileOK(v)'
  <2>1. /\ req[u].at = "transit" /\ Goto(u, "finalize") /\ UNCHANGED <<final, rows>>
        /\ part' = part
    BY <1>19 DEF AcceptFinalize, Step
  <2> QED
    BY <2>1, <1>goto, <1>type DEF BeforeAppend, Moved, TypeOK
<1>20. ASSUME NEW u \in Uploads, FinalizeUnreadable(u) PROVE \A v \in Uploads : FileOK(v)'
  <2>1. /\ req[u].at = "finalize" /\ Goto(u, "error") /\ UNCHANGED <<final, rows>>
        /\ part' = part
    BY <1>20 DEF FinalizeUnreadable, Step
  <2> QED
    BY <2>1, <1>goto, <1>type DEF BeforeAppend, Moved, TypeOK
<1>21. ASSUME NEW u \in Uploads, FinalizeUnknown(u) PROVE \A v \in Uploads : FileOK(v)'
  <2>1. /\ req[u].at = "finalize" /\ Goto(u, "error") /\ UNCHANGED <<final, rows>>
        /\ part' = part
    BY <1>21 DEF FinalizeUnknown, Step
  <2> QED
    BY <2>1, <1>goto, <1>type DEF BeforeAppend, Moved, TypeOK
<1>22. ASSUME NEW u \in Uploads, FinalizeMismatch(u) PROVE \A v \in Uploads : FileOK(v)'
  <2>1. /\ req[u].at = "finalize" /\ Goto(u, "cleanPart") /\ UNCHANGED <<final, rows>>
        /\ part' = part
    BY <1>22 DEF FinalizeMismatch, Step
  <2> QED
    BY <2>1, <1>goto, <1>type DEF BeforeAppend, Moved, TypeOK
<1>23. ASSUME NEW u \in Uploads, FinalizeComplete(u) PROVE \A v \in Uploads : FileOK(v)'
  <2>1. /\ req[u].at = "finalize" /\ Goto(u, "move") /\ UNCHANGED <<final, rows>>
        /\ part' = part
    BY <1>23 DEF FinalizeComplete, Step
  <2> QED
    BY <2>1, <1>goto, <1>type DEF BeforeAppend, Moved, TypeOK
<1>24. ASSUME NEW u \in Uploads, RenameFails(u) PROVE \A v \in Uploads : FileOK(v)'
  <2>1. /\ req[u].at = "move" /\ Goto(u, "copy") /\ UNCHANGED <<final, rows>>
        /\ part' = part
    BY <1>24 DEF RenameFails, Step
  <2> QED
    BY <2>1, <1>goto, <1>type DEF BeforeAppend, Moved, TypeOK
<1>25. ASSUME NEW u \in Uploads, DropPart(u) PROVE \A v \in Uploads : FileOK(v)'
  <2>1. /\ req[u].at = "dropPart" /\ Goto(u, "dropMeta") /\ UNCHANGED <<final, rows>>
        /\ part' = [part EXCEPT ![u] = Absent]
    BY <1>25 DEF DropPart, Step
  <2> QED
    BY <2>1, <1>goto, <1>type DEF BeforeAppend, Moved, TypeOK
<1>26. ASSUME NEW u \in Uploads, DropMeta(u) PROVE \A v \in Uploads : FileOK(v)'
  <2>1. /\ req[u].at = "dropMeta" /\ Goto(u, "insert") /\ UNCHANGED <<final, rows>>
        /\ part' = part
    BY <1>26 DEF DropMeta, Step
  <2> QED
    BY <2>1, <1>goto, <1>type DEF BeforeAppend, Moved, TypeOK
<1>27. ASSUME NEW u \in Uploads, CheckChunk(u) PROVE \A v \in Uploads : FileOK(v)'
  <2>1. /\ req[u].at = "parsed" /\ req'[u].at = "append"
        /\ req'[u].op = req[u].op /\ req'[u].idx = req[u].idx
        /\ UNCHANGED <<part, final, rows>> /\ \A v \in Uploads \ {u} : req'[v] = req[v]
    BY <1>27, <1>type, CheckedFacts DEF CheckChunk
  <2>2. FileOK(u)'
    BY <2>1, <1>type, FileMove DEF BeforeAppend, Moved
  <2> QED
    BY <2>1, <2>2, <1>type, FileFrame
<1>28. ASSUME NEW u \in Uploads, AppendChunk(u) \/ AppendFails(u) PROVE \A v \in Uploads : FileOK(v)'
  <2>1. /\ req[u].at = "append" /\ req'[u].at \in {"dropping", "dropRejected"}
        /\ req'[u].op = req[u].op /\ req'[u].idx = req[u].idx
        /\ UNCHANGED <<final, rows>> /\ \A v \in Uploads \ {u} : req'[v] = req[v]
    BY <1>28, <1>type, GotoFacts DEF AppendChunk, AppendFails, Step
  <2>2. /\ part'[u] \in {part[u], Appended(u)}
        /\ \A v \in Uploads \ {u} : part'[v] = part[v]
    BY <1>28, <1>type DEF AppendChunk, AppendFails, TypeOK
  <2>3. FileOK(u)'
    <3>1. CASE part'[u] = part[u]
      BY <2>1, <3>1, <1>type, FileMove DEF BeforeAppend, Moved
    <3>2. CASE part'[u] = Appended(u)
      <4>1. Leftover(u)' /\ Kept(u)'
        BY <2>1, <1>type DEF FileOK, Leftover, Kept, Moved
      <4>2. ASSUME u \in Browsers PROVE Ascending(u)'
        <5>1. Ascending(u) /\ req[u].op = "chunk"
          BY <4>2, <2>1, <1>type DEF FileOK, Control, ChunkWork
        <5>2. Rising(part'[u]) /\ Below(part'[u], req[u].idx + 1)
          BY <5>1, <2>1, <3>2, <1>type, AppendedRises
        <5> QED
          BY <5>1, <5>2, <2>1 DEF Ascending, BeforeAppend, Rising, Below
      <4> QED
        BY <4>1, <4>2 DEF FileOK
    <3> QED
      BY <2>2, <3>1, <3>2
  <2> QED
    BY <2>1, <2>2, <2>3, <1>type, FileFrame
<1>29. ASSUME NEW u \in Uploads, Rename(u) \/ Copy(u) PROVE \A v \in Uploads : FileOK(v)'
  <2>1. /\ req[u].at \in {"move", "copy"} /\ req'[u].at \in {"dropPart", "dropMeta"}
        /\ req'[u].op = req[u].op /\ req'[u].idx = req[u].idx
        /\ rows' = rows /\ \A v \in Uploads \ {u} : req'[v] = req[v]
    BY <1>29, <1>type, GotoFacts DEF Rename, Copy, Step
  <2>2. /\ part[u] # Absent /\ part'[u] \in {part[u], Absent} /\ final'[u] = part[u]
        /\ \A v \in Uploads \ {u} : part'[v] = part[v] /\ final'[v] = final[v]
    BY <1>29, <1>type DEF Rename, Copy, TypeOK
  <2>3. req[u].op = "finalize"
    BY <2>1, <1>type DEF Control, FinalWork
  <2>4. Leftover(u)' /\ Kept(u)'
    <3>1. req'[u].op = "finalize" /\ req'[u].at \in Moved /\ final'[u] # Absent
      BY <2>1, <2>2, <2>3 DEF Moved
    <3> QED
      BY <3>1 DEF Leftover, Kept, Moved
  <2>5. u \in Browsers => Ascending(u)'
    BY <2>1, <2>2, <2>3, <1>type DEF FileOK, Ascending, Rising
  <2>6. FileOK(u)'
    BY <2>4, <2>5 DEF FileOK
  <2> QED
    BY <2>1, <2>2, <2>6, <1>type, FileFrame
<1>30. ASSUME NEW u \in Uploads, CopyFails(u) PROVE \A v \in Uploads : FileOK(v)'
  <2>1. /\ req[u].at = "copy" /\ req'[u].at = "cleanPart"
        /\ req'[u].op = req[u].op /\ req'[u].idx = req[u].idx
        /\ UNCHANGED <<part, rows>> /\ \A v \in Uploads \ {u} : req'[v] = req[v]
    BY <1>30, <1>type, GotoFacts DEF CopyFails, Step
  <2>2. /\ final'[u] \in {final[u], << >>}
        /\ \A v \in Uploads \ {u} : final'[v] = final[v]
    BY <1>30, <1>type DEF CopyFails, TypeOK
  <2>3. << >> # Absent /\ Rising(<< >>) /\ req[u].op = "finalize"
    <3>1. << >> # Absent
      BY EmptySeq, AbsentAssumption
    <3>2. Rising(<< >>)
      BY EmptySeq DEF Rising
    <3> QED
      BY <2>1, <3>1, <3>2, <1>type DEF Control, FinalWork
  <2>4. FileOK(u)'
    <3>1. CASE final'[u] = final[u]
      BY <2>1, <3>1, <1>type, FileMove DEF BeforeAppend, Moved
    <3>2. CASE final'[u] = << >>
      BY <2>1, <2>3, <3>2, <1>type, WholeFacts DEF FileOK, Leftover, Kept, Ascending, Rising, Moved
    <3> QED
      BY <2>2, <3>1, <3>2
  <2> QED
    BY <2>1, <2>2, <2>4, <1>type, FileFrame
<1>31. ASSUME NEW u \in Uploads, Insert(u) PROVE \A v \in Uploads : FileOK(v)'
  <2>1. /\ req[u].at = "insert" /\ req'[u].at = "ok"
        /\ req'[u].op = req[u].op /\ req'[u].idx = req[u].idx
        /\ UNCHANGED <<part, final>> /\ \A v \in Uploads \ {u} : req'[v] = req[v]
        /\ rows' = rows \cup {u}
    BY <1>31, <1>type, GotoFacts DEF Insert, Step
  <2>2. req[u].op = "finalize"
    BY <2>1, <1>type DEF Control, FinalWork
  <2>3. FileOK(u)'
    BY <2>1, <2>2, <1>type DEF FileOK, Leftover, Kept, Ascending, Rising, Moved
  <2> QED
    BY <2>1, <2>3, <1>type, FileFrame
<1>32. ASSUME NEW u \in Uploads, InsertFails(u) PROVE \A v \in Uploads : FileOK(v)'
  <2>1. /\ req[u].at = "insert" /\ req'[u].at = "error"
        /\ req'[u].op = req[u].op /\ req'[u].idx = req[u].idx
        /\ UNCHANGED <<part, rows>> /\ \A v \in Uploads \ {u} : req'[v] = req[v]
    BY <1>32, <1>type, GotoFacts DEF InsertFails, Step
  <2>2. final'[u] = Absent /\ \A v \in Uploads \ {u} : final'[v] = final[v]
    BY <1>32, <1>type DEF InsertFails, TypeOK
  <2>3. req[u].op = "finalize" /\ u \notin rows
    BY <2>1, <1>type DEF Control, FinalWork
  <2>4. FileOK(u)'
    BY <2>1, <2>2, <2>3, <1>type, WholeFacts DEF FileOK, Leftover, Kept, Ascending, Rising, Moved
  <2> QED
    BY <2>1, <2>2, <2>4, <1>type, FileFrame
<1>33. ASSUME NEW u \in Uploads, CancelPart(u) PROVE \A v \in Uploads : FileOK(v)'
  <2>1. /\ UNCHANGED <<req, final, rows>>
        /\ \A v \in Uploads : part'[v] \in {part[v], Absent}
    BY <1>33, <1>type DEF CancelPart, TypeOK
  <2> QED
    BY <2>1, <1>type, FileFrame
<1>34. ASSUME NEW f \in StagingFiles, Wipe(f) \/ RivalRemove(f) PROVE \A v \in Uploads : FileOK(v)'
  <2>1. UNCHANGED <<req, final, rows>>
    BY <1>34 DEF Wipe, RivalRemove
  <2>2. \A v \in Uploads : part'[v] \in {part[v], Absent}
    BY <1>34, <1>type DEF Wipe, RivalRemove, Remove, TypeOK, StagingFiles
  <2> QED
    BY <2>1, <2>2, <1>type, FileFrame
<1>35. ASSUME Crash PROVE \A v \in Uploads : FileOK(v)'
  <2>1. ASSUME NEW v \in Uploads, req[v].at \notin Working PROVE FileOK(v)'
    BY <1>35, <2>1, <1>type, FileFrame DEF Crash, TypeOK
  <2>2. ASSUME NEW v \in Uploads, req[v].at \in Working PROVE FileOK(v)'
    <3>1. /\ req'[v].at = "lost" /\ req'[v].op = req[v].op /\ req'[v].idx = req[v].idx
          /\ UNCHANGED <<part, final, rows>>
      BY <1>35, <2>2, <1>type DEF Crash, TypeOK, Request
    <3>2. req[v].at \notin {"ok", "lost"} /\ crashes' > 0
      BY <1>35, <2>2, <1>type, BoundsAssumption
      DEF Working, ChunkWork, FinalWork, CleanWork, Crash, TypeOK
    <3> QED
      BY <3>1, <3>2, <1>type, FileMove DEF BeforeAppend, Moved
  <2> QED
    BY <2>1, <2>2
<1> QED
  BY <1>1, <1>2, <1>3, <1>4, <1>5, <1>6, <1>7, <1>8, <1>9, <1>10, <1>11, <1>12, <1>13, <1>14, <1>15, <1>16, <1>17, <1>18, <1>19, <1>20, <1>21, <1>22, <1>23, <1>24, <1>25, <1>26, <1>27, <1>28, <1>29, <1>30, <1>31, <1>32, <1>33, <1>34, <1>35
  DEF Next, Process, UploadStep, Browser, Network, ChunkHandler, FinalizeHandler,
      CancelHandler, vars, SendCancel, Finish, Refused, GiveUp, ChunkConnectionLost,
      FinalizeConnectionLost, LoseCancel, CancelMeta, Stop, Start, Bind, RivalStart

-------------------------------------------------------------------------------
(* Until a crash, the handler of the entry's own request is still to remove *)
(* it.                                                                     *)
Spooling == ChunkWork \cup CleanWork
Holding  == {"parsed", "append", "dropping", "dropRejected"}
SpoolOK(u) ==
    \A i \in 0..NumChunks :
        /\ <<u, i, "body">> \in spool => req[u].idx = i /\ req[u].at \in Spooling
        /\ <<u, i, "extracted">> \in spool => req[u].idx = i /\ req[u].at \in Holding
SpoolInv == ControlInv /\ (crashes = 0 => \A u \in Uploads : SpoolOK(u))

LEMMA SpoolFrame ==
    ASSUME NEW v \in Uploads, SpoolOK(v), req'[v] = req[v],
           \A i, k : <<v, i, k>> \in spool' => <<v, i, k>> \in spool \/ k = "partial"
    PROVE  SpoolOK(v)'
BY DEF SpoolOK

(* Only entries of u's request change.                                     *)
LEMMA SpoolOthers ==
    ASSUME NEW u \in Uploads, NEW v \in Uploads \ {u}, SpoolOK(v), req'[v] = req[v],
           spool' \subseteq spool \cup {Spooled(u, k) : k \in {"body", "extracted", "partial"}}
    PROVE  SpoolOK(v)'
BY DEF SpoolOK, Spooled

LEMMA SpoolStep == SpoolInv /\ [Next]_vars => SpoolInv'
<1> SUFFICES ASSUME SpoolInv, [Next]_vars, crashes' = 0 PROVE \A v \in Uploads : SpoolOK(v)'
  BY ControlStep DEF SpoolInv
<1>type. TypeOK
  BY DEF SpoolInv, ControlInv, TypeInv
<1> USE DEF Disk, process, machine, staging, store, Others, Starts
(* A step of u's request that leaves the spool alone.                      *)
<1>goto. ASSUME NEW u \in Uploads, crashes' = crashes, spool' = spool,
                \A v \in Uploads \ {u} : req'[v] = req[v],
                req[u].at \in Spooling => req'[u].at \in Spooling /\ req'[u].idx = req[u].idx,
                req[u].at \in Holding => req'[u].at \in Holding
         PROVE  \A v \in Uploads : SpoolOK(v)'
  <2>1. Holding \subseteq Spooling
    BY DEF Holding, Spooling, ChunkWork, CleanWork
  <2>2. SpoolOK(u)'
    BY <1>goto, <2>1 DEF SpoolInv, SpoolOK
  <2> QED
    BY <1>goto, <2>2, SpoolFrame DEF SpoolInv
<1>1. ASSUME UNCHANGED <<req, spool, crashes>> PROVE \A v \in Uploads : SpoolOK(v)'
  BY <1>1, SpoolFrame DEF SpoolInv
<1>2. ASSUME NEW u \in Uploads, Begin(u) \/ NextChunk(u) \/ AskFinalize(u) \/ AnyRequest(u) PROVE \A v \in Uploads : SpoolOK(v)'
  <2>1. /\ UNCHANGED <<spool, crashes>> /\ \A v \in Uploads \ {u} : req'[v] = req[v]
    BY <1>2, <1>type, NewRequestFacts DEF Begin, NextChunk, AskFinalize, AnyRequest
  <2>2. req[u].at \in {"none", "ok", "error"}
    BY <1>2 DEF SpoolInv, ControlInv, Control, Begin, NextChunk, AskFinalize, AnyRequest
  <2> QED
    BY <2>1, <2>2, <1>goto DEF Spooling, Holding, ChunkWork, CleanWork
<1>3. ASSUME NEW u \in Uploads, LoseRequest(u) PROVE \A v \in Uploads : SpoolOK(v)'
  <2>1. req[u].at = "transit" /\ Goto(u, "lost") /\ UNCHANGED <<spool, crashes>>
    BY <1>3 DEF LoseRequest, Step
  <2> QED
    BY <2>1, <1>goto, <1>type, GotoFacts DEF Spooling, Holding, ChunkWork, CleanWork
<1>4. ASSUME NEW u \in Uploads, RejectChunk(u) PROVE \A v \in Uploads : SpoolOK(v)'
  <2>1. req[u].at = "parsed" /\ Goto(u, "dropRejected") /\ UNCHANGED <<spool, crashes>>
    BY <1>4 DEF RejectChunk
  <2> QED
    BY <2>1, <1>goto, <1>type, GotoFacts DEF Spooling, Holding, ChunkWork, CleanWork
<1>5. ASSUME NEW u \in Uploads, AppendChunk(u) PROVE \A v \in Uploads : SpoolOK(v)'
  <2>1. req[u].at = "append" /\ Goto(u, "dropping") /\ UNCHANGED <<spool, crashes>>
    BY <1>5 DEF AppendChunk, Step
  <2> QED
    BY <2>1, <1>goto, <1>type, GotoFacts DEF Spooling, Holding, ChunkWork, CleanWork
<1>6. ASSUME NEW u \in Uploads, AppendFails(u) PROVE \A v \in Uploads : SpoolOK(v)'
  <2>1. req[u].at = "append" /\ Goto(u, "dropRejected") /\ UNCHANGED <<spool, crashes>>
    BY <1>6 DEF AppendFails, Step
  <2> QED
    BY <2>1, <1>goto, <1>type, GotoFacts DEF Spooling, Holding, ChunkWork, CleanWork
<1>7. ASSUME NEW u \in Uploads, WriteMetaFails(u) PROVE \A v \in Uploads : SpoolOK(v)'
  <2>1. req[u].at = "writeMeta" /\ Goto(u, "cleanPart") /\ UNCHANGED <<spool, crashes>>
    BY <1>7 DEF WriteMetaFails, Step
  <2> QED
    BY <2>1, <1>goto, <1>type, GotoFacts DEF Spooling, Holding, ChunkWork, CleanWork
<1>8. ASSUME NEW u \in Uploads, CleanPart(u) PROVE \A v \in Uploads : SpoolOK(v)'
  <2>1. req[u].at = "cleanPart" /\ Goto(u, "cleanMeta") /\ UNCHANGED <<spool, crashes>>
    BY <1>8 DEF CleanPart, Step
  <2> QED
    BY <2>1, <1>goto, <1>type, GotoFacts DEF Spooling, Holding, ChunkWork, CleanWork
<1>9. ASSUME NEW u \in Uploads, AcceptFinalize(u) PROVE \A v \in Uploads : SpoolOK(v)'
  <2>1. req[u].at = "transit" /\ Goto(u, "finalize") /\ UNCHANGED <<spool, crashes>>
    BY <1>9 DEF AcceptFinalize, Step
  <2> QED
    BY <2>1, <1>goto, <1>type, GotoFacts DEF Spooling, Holding, ChunkWork, CleanWork
<1>10. ASSUME NEW u \in Uploads, FinalizeUnreadable(u) PROVE \A v \in Uploads : SpoolOK(v)'
  <2>1. req[u].at = "finalize" /\ Goto(u, "error") /\ UNCHANGED <<spool, crashes>>
    BY <1>10 DEF FinalizeUnreadable, Step
  <2> QED
    BY <2>1, <1>goto, <1>type, GotoFacts DEF Spooling, Holding, ChunkWork, CleanWork
<1>11. ASSUME NEW u \in Uploads, FinalizeUnknown(u) PROVE \A v \in Uploads : SpoolOK(v)'
  <2>1. req[u].at = "finalize" /\ Goto(u, "error") /\ UNCHANGED <<spool, crashes>>
    BY <1>11 DEF FinalizeUnknown, Step
  <2> QED
    BY <2>1, <1>goto, <1>type, GotoFacts DEF Spooling, Holding, ChunkWork, CleanWork
<1>12. ASSUME NEW u \in Uploads, FinalizeMismatch(u) PROVE \A v \in Uploads : SpoolOK(v)'
  <2>1. req[u].at = "finalize" /\ Goto(u, "cleanPart") /\ UNCHANGED <<spool, crashes>>
    BY <1>12 DEF FinalizeMismatch, Step
  <2> QED
    BY <2>1, <1>goto, <1>type, GotoFacts DEF Spooling, Holding, ChunkWork, CleanWork
<1>13. ASSUME NEW u \in Uploads, FinalizeComplete(u) PROVE \A v \in Uploads : SpoolOK(v)'
  <2>1. req[u].at = "finalize" /\ Goto(u, "move") /\ UNCHANGED <<spool, crashes>>
    BY <1>13 DEF FinalizeComplete, Step
  <2> QED
    BY <2>1, <1>goto, <1>type, GotoFacts DEF Spooling, Holding, ChunkWork, CleanWork
<1>14. ASSUME NEW u \in Uploads, Rename(u) PROVE \A v \in Uploads : SpoolOK(v)'
  <2>1. req[u].at = "move" /\ Goto(u, "dropMeta") /\ UNCHANGED <<spool, crashes>>
    BY <1>14 DEF Rename, Step
  <2> QED
    BY <2>1, <1>goto, <1>type, GotoFacts DEF Spooling, Holding, ChunkWork, CleanWork
<1>15. ASSUME NEW u \in Uploads, RenameFails(u) PROVE \A v \in Uploads : SpoolOK(v)'
  <2>1. req[u].at = "move" /\ Goto(u, "copy") /\ UNCHANGED <<spool, crashes>>
    BY <1>15 DEF RenameFails, Step
  <2> QED
    BY <2>1, <1>goto, <1>type, GotoFacts DEF Spooling, Holding, ChunkWork, CleanWork
<1>16. ASSUME NEW u \in Uploads, Copy(u) PROVE \A v \in Uploads : SpoolOK(v)'
  <2>1. req[u].at = "copy" /\ Goto(u, "dropPart") /\ UNCHANGED <<spool, crashes>>
    BY <1>16 DEF Copy, Step
  <2> QED
    BY <2>1, <1>goto, <1>type, GotoFacts DEF Spooling, Holding, ChunkWork, CleanWork
<1>17. ASSUME NEW u \in Uploads, CopyFails(u) PROVE \A v \in Uploads : SpoolOK(v)'
  <2>1. req[u].at = "copy" /\ Goto(u, "cleanPart") /\ UNCHANGED <<spool, crashes>>
    BY <1>17 DEF CopyFails, Step
  <2> QED
    BY <2>1, <1>goto, <1>type, GotoFacts DEF Spooling, Holding, ChunkWork, CleanWork
<1>18. ASSUME NEW u \in Uploads, DropPart(u) PROVE \A v \in Uploads : SpoolOK(v)'
  <2>1. req[u].at = "dropPart" /\ Goto(u, "dropMeta") /\ UNCHANGED <<spool, crashes>>
    BY <1>18 DEF DropPart, Step
  <2> QED
    BY <2>1, <1>goto, <1>type, GotoFacts DEF Spooling, Holding, ChunkWork, CleanWork
<1>19. ASSUME NEW u \in Uploads, DropMeta(u) PROVE \A v \in Uploads : SpoolOK(v)'
  <2>1. req[u].at = "dropMeta" /\ Goto(u, "insert") /\ UNCHANGED <<spool, crashes>>
    BY <1>19 DEF DropMeta, Step
  <2> QED
    BY <2>1, <1>goto, <1>type, GotoFacts DEF Spooling, Holding, ChunkWork, CleanWork
<1>20. ASSUME NEW u \in Uploads, Insert(u) PROVE \A v \in Uploads : SpoolOK(v)'
  <2>1. req[u].at = "insert" /\ Goto(u, "ok") /\ UNCHANGED <<spool, crashes>>
    BY <1>20 DEF Insert, Step
  <2> QED
    BY <2>1, <1>goto, <1>type, GotoFacts DEF Spooling, Holding, ChunkWork, CleanWork
<1>21. ASSUME NEW u \in Uploads, InsertFails(u) PROVE \A v \in Uploads : SpoolOK(v)'
  <2>1. req[u].at = "insert" /\ Goto(u, "error") /\ UNCHANGED <<spool, crashes>>
    BY <1>21 DEF InsertFails, Step
  <2> QED
    BY <2>1, <1>goto, <1>type, GotoFacts DEF Spooling, Holding, ChunkWork, CleanWork
<1>22. ASSUME NEW u \in Uploads, CheckChunk(u) PROVE \A v \in Uploads : SpoolOK(v)'
  <2>1. req[u].at = "parsed" /\ UNCHANGED <<spool, crashes>>
    BY <1>22 DEF CheckChunk
  <2> QED
    BY <1>22, <2>1, <1>goto, <1>type, CheckedFacts DEF Spooling, Holding, ChunkWork, CleanWork
<1>23. ASSUME NEW u \in Uploads, AcceptChunk(u) PROVE \A v \in Uploads : SpoolOK(v)'
  <2>1. /\ req[u].at = "transit" /\ Goto(u, "body") /\ crashes' = crashes
        /\ spool' = spool \cup {Spooled(u, "body")}
    BY <1>23 DEF AcceptChunk, Step, Answer, DropExtracted
  <2>2. /\ req'[u].at = "body" /\ req'[u].idx = req[u].idx
        /\ \A v \in Uploads \ {u} : req'[v] = req[v]
    BY <2>1, <1>type, GotoFacts
  <2>3. SpoolOK(u)'
    BY <2>1, <2>2 DEF SpoolInv, SpoolOK, Spooled, Spooling, Holding, ChunkWork, CleanWork
  <2>4. ASSUME NEW v \in Uploads \ {u} PROVE SpoolOK(v)'
    BY <2>1, <2>2, SpoolOthers DEF SpoolInv
  <2> QED
    BY <2>3, <2>4
<1>24. ASSUME NEW u \in Uploads, BodyFails(u) PROVE \A v \in Uploads : SpoolOK(v)'
  <2>1. /\ req[u].at = "body" /\ Goto(u, "error") /\ crashes' = crashes
        /\ spool' = spool \ {Spooled(u, "body")}
    BY <1>24 DEF BodyFails, Step, Answer, DropExtracted
  <2>2. /\ req'[u].at = "error" /\ req'[u].idx = req[u].idx
        /\ \A v \in Uploads \ {u} : req'[v] = req[v]
    BY <2>1, <1>type, GotoFacts
  <2>3. SpoolOK(u)'
    BY <2>1, <2>2 DEF SpoolInv, SpoolOK, Spooled, Spooling, Holding, ChunkWork, CleanWork
  <2>4. ASSUME NEW v \in Uploads \ {u} PROVE SpoolOK(v)'
    BY <2>1, <2>2, SpoolOthers DEF SpoolInv
  <2> QED
    BY <2>3, <2>4
<1>25. ASSUME NEW u \in Uploads, ParseChunk(u) PROVE \A v \in Uploads : SpoolOK(v)'
  <2>1. /\ req[u].at = "body" /\ Goto(u, "parsed") /\ crashes' = crashes
        /\ spool' = spool \cup {Spooled(u, "extracted")}
    BY <1>25 DEF ParseChunk, Step, Answer, DropExtracted
  <2>2. /\ req'[u].at = "parsed" /\ req'[u].idx = req[u].idx
        /\ \A v \in Uploads \ {u} : req'[v] = req[v]
    BY <2>1, <1>type, GotoFacts
  <2>3. SpoolOK(u)'
    BY <2>1, <2>2 DEF SpoolInv, SpoolOK, Spooled, Spooling, Holding, ChunkWork, CleanWork
  <2>4. ASSUME NEW v \in Uploads \ {u} PROVE SpoolOK(v)'
    BY <2>1, <2>2, SpoolOthers DEF SpoolInv
  <2> QED
    BY <2>3, <2>4
<1>26. ASSUME NEW u \in Uploads, ParseFails(u) PROVE \A v \in Uploads : SpoolOK(v)'
  <2>1. /\ req[u].at = "body" /\ Goto(u, "error") /\ crashes' = crashes
        /\ spool' = (spool \ {Spooled(u, "body")}) \cup {Spooled(u, "partial")}
    BY <1>26 DEF ParseFails, Step, Answer, DropExtracted
  <2>2. /\ req'[u].at = "error" /\ req'[u].idx = req[u].idx
        /\ \A v \in Uploads \ {u} : req'[v] = req[v]
    BY <2>1, <1>type, GotoFacts
  <2>3. SpoolOK(u)'
    BY <2>1, <2>2 DEF SpoolInv, SpoolOK, Spooled, Spooling, Holding, ChunkWork, CleanWork
  <2>4. ASSUME NEW v \in Uploads \ {u} PROVE SpoolOK(v)'
    BY <2>1, <2>2, SpoolOthers DEF SpoolInv
  <2> QED
    BY <2>3, <2>4
<1>27. ASSUME NEW u \in Uploads, ChunkCutShort(u) PROVE \A v \in Uploads : SpoolOK(v)'
  <2>1. /\ req[u].at = "parsed" /\ Goto(u, "error") /\ crashes' = crashes
        /\ spool' = spool \ {Spooled(u, "extracted"), Spooled(u, "body")}
    BY <1>27 DEF ChunkCutShort, Step, Answer, DropExtracted
  <2>2. /\ req'[u].at = "error" /\ req'[u].idx = req[u].idx
        /\ \A v \in Uploads \ {u} : req'[v] = req[v]
    BY <2>1, <1>type, GotoFacts
  <2>3. SpoolOK(u)'
    BY <2>1, <2>2 DEF SpoolInv, SpoolOK, Spooled, Spooling, Holding, ChunkWork, CleanWork
  <2>4. ASSUME NEW v \in Uploads \ {u} PROVE SpoolOK(v)'
    BY <2>1, <2>2, SpoolOthers DEF SpoolInv
  <2> QED
    BY <2>3, <2>4
<1>28. ASSUME NEW u \in Uploads, DropChunk(u) PROVE \A v \in Uploads : SpoolOK(v)'
  <2>1. /\ req[u].at = "dropping" /\ Goto(u, "writeMeta") /\ crashes' = crashes
        /\ spool' = spool \ {Spooled(u, "extracted")}
    BY <1>28 DEF DropChunk, Step, Answer, DropExtracted
  <2>2. /\ req'[u].at = "writeMeta" /\ req'[u].idx = req[u].idx
        /\ \A v \in Uploads \ {u} : req'[v] = req[v]
    BY <2>1, <1>type, GotoFacts
  <2>3. SpoolOK(u)'
    BY <2>1, <2>2 DEF SpoolInv, SpoolOK, Spooled, Spooling, Holding, ChunkWork, CleanWork
  <2>4. ASSUME NEW v \in Uploads \ {u} PROVE SpoolOK(v)'
    BY <2>1, <2>2, SpoolOthers DEF SpoolInv
  <2> QED
    BY <2>3, <2>4
<1>29. ASSUME NEW u \in Uploads, WriteMeta(u) PROVE \A v \in Uploads : SpoolOK(v)'
  <2>1. /\ req[u].at = "writeMeta" /\ Goto(u, "ok") /\ crashes' = crashes
        /\ spool' = spool \ {Spooled(u, "body")}
    BY <1>29 DEF WriteMeta, Step, Answer, DropExtracted
  <2>2. /\ req'[u].at = "ok" /\ req'[u].idx = req[u].idx
        /\ \A v \in Uploads \ {u} : req'[v] = req[v]
    BY <2>1, <1>type, GotoFacts
  <2>3. SpoolOK(u)'
    BY <2>1, <2>2 DEF SpoolInv, SpoolOK, Spooled, Spooling, Holding, ChunkWork, CleanWork
  <2>4. ASSUME NEW v \in Uploads \ {u} PROVE SpoolOK(v)'
    BY <2>1, <2>2, SpoolOthers DEF SpoolInv
  <2> QED
    BY <2>3, <2>4
<1>30. ASSUME NEW u \in Uploads, DropRejected(u) PROVE \A v \in Uploads : SpoolOK(v)'
  <2>1. /\ req[u].at = "dropRejected" /\ Goto(u, "cleanPart") /\ crashes' = crashes
        /\ spool' = spool \ {Spooled(u, "extracted")}
    BY <1>30 DEF DropRejected, Step, Answer, DropExtracted
  <2>2. /\ req'[u].at = "cleanPart" /\ req'[u].idx = req[u].idx
        /\ \A v \in Uploads \ {u} : req'[v] = req[v]
    BY <2>1, <1>type, GotoFacts
  <2>3. SpoolOK(u)'
    BY <2>1, <2>2 DEF SpoolInv, SpoolOK, Spooled, Spooling, Holding, ChunkWork, CleanWork
  <2>4. ASSUME NEW v \in Uploads \ {u} PROVE SpoolOK(v)'
    BY <2>1, <2>2, SpoolOthers DEF SpoolInv
  <2> QED
    BY <2>3, <2>4
<1>31. ASSUME NEW u \in Uploads, CleanMeta(u) PROVE \A v \in Uploads : SpoolOK(v)'
  <2>1. /\ req[u].at = "cleanMeta" /\ Goto(u, "error") /\ crashes' = crashes
        /\ spool' = spool \ {Spooled(u, "body")}
    BY <1>31 DEF CleanMeta, Step, Answer, DropExtracted
  <2>2. /\ req'[u].at = "error" /\ req'[u].idx = req[u].idx
        /\ \A v \in Uploads \ {u} : req'[v] = req[v]
    BY <2>1, <1>type, GotoFacts
  <2>3. SpoolOK(u)'
    BY <2>1, <2>2 DEF SpoolInv, SpoolOK, Spooled, Spooling, Holding, ChunkWork, CleanWork
  <2>4. ASSUME NEW v \in Uploads \ {u} PROVE SpoolOK(v)'
    BY <2>1, <2>2, SpoolOthers DEF SpoolInv
  <2> QED
    BY <2>3, <2>4
<1>32. ASSUME Crash PROVE \A v \in Uploads : SpoolOK(v)'
  BY <1>32, <1>type, BoundsAssumption DEF Crash, TypeOK
<1> QED
  BY <1>1, <1>2, <1>3, <1>4, <1>5, <1>6, <1>7, <1>8, <1>9, <1>10, <1>11, <1>12, <1>13, <1>14, <1>15, <1>16, <1>17, <1>18, <1>19, <1>20, <1>21, <1>22, <1>23, <1>24, <1>25, <1>26, <1>27, <1>28, <1>29, <1>30, <1>31, <1>32
  DEF Next, Process, UploadStep, Browser, Network, ChunkHandler, FinalizeHandler,
      CancelHandler, vars, SendCancel, Finish, Refused, GiveUp, ChunkConnectionLost,
      FinalizeConnectionLost, LoseCancel, CancelPart, CancelMeta, Stop, Start, Bind,
      RivalStart, Wipe, RivalRemove

-------------------------------------------------------------------------------
LEMMA InitFiles == Init => FilesInv /\ SpoolInv
<1> SUFFICES ASSUME Init PROVE FilesInv /\ SpoolInv
  OBVIOUS
<1>1. \A u \in Uploads : /\ req[u].at = "none" /\ part[u] = Absent /\ final[u] = Absent
                         /\ u \notin rows
  BY DEF Init, NewRequest
<1>2. ControlInv
  BY InitExact DEF ExactInv
<1>3. \A u \in Uploads : FileOK(u)
  BY <1>1, WholeFacts DEF FileOK, Leftover, Kept, Ascending, Moved
<1>4. \A u \in Uploads : SpoolOK(u)
  BY DEF Init, SpoolOK
<1> QED
  BY <1>2, <1>3, <1>4 DEF FilesInv, SpoolInv

LEMMA FilesInvariant == Spec => [](FilesInv /\ SpoolInv)
<1>1. Init => FilesInv /\ SpoolInv
  BY InitFiles
<1>2. FilesInv /\ SpoolInv /\ [Next]_vars => FilesInv' /\ SpoolInv'
  BY FilesStep, SpoolStep
<1> QED
  BY <1>1, <1>2, PTL DEF Spec

(* A browser's file in the catalog never repeats or reorders chunks, also  *)
(* when rival processes wipe the staging files between any two steps of    *)
(* its upload.                                                             *)
THEOREM NeverReordered == Spec => []StoredInOrder
<1>1. FilesInv => StoredInOrder
  <2> SUFFICES ASSUME FilesInv, NEW u \in rows \cap Browsers PROVE Rising(final[u])
    BY DEF StoredInOrder, Rising
  <2>1. u \in Uploads
    BY BrowsersAssumption
  <2> QED
    BY <2>1 DEF FilesInv, FileOK, Kept, Ascending
<1> QED
  BY <1>1, FilesInvariant, PTL

(* Only three events leave a file in files/ that no row and no handler at  *)
(* work refers to: a crash, a parse that fails within a part, and a copy   *)
(* that is cut short.                                                      *)
THEOREM LeavesNothingElse == Spec => []NothingElseLeftBehind
<1>1. FilesInv => UnlistedIsMoving
  <2> SUFFICES ASSUME FilesInv, crashes = 0, NEW u \in Uploads, final[u] \notin {Absent, << >>},
                      u \notin rows
               PROVE  req[u].at \in Moved
    BY DEF UnlistedIsMoving, Moved
  <2>1. req[u].op = "finalize" /\ req[u].at \in Moved \cup {"ok"}
    BY DEF FilesInv, FileOK, Leftover
  <2>2. ~(req[u].op = "finalize" /\ req[u].at = "ok")
    BY DEF FilesInv, ControlInv, Control
  <2> QED
    BY <2>1, <2>2
<1>2. SpoolInv => SpoolHeld
  <2> SUFFICES ASSUME SpoolInv, crashes = 0, NEW s \in spool, s[3] # "partial"
               PROVE  HeldByHandler(s)
    BY DEF SpoolHeld
  <2>1. s \in Uploads \X (0..NumChunks) \X {"body", "extracted", "partial"}
    BY DEF SpoolInv, ControlInv, TypeInv, TypeOK
  <2>2. PICK u \in Uploads, i \in 0..NumChunks, k \in {"body", "extracted"} : s = <<u, i, k>>
    BY <2>1
  <2>3. SpoolOK(u)
    BY DEF SpoolInv
  <2>4. req[u].idx = i /\ req[u].at \in Spooling \cup Holding
    BY <2>2, <2>3 DEF SpoolOK
  <2> QED
    BY <2>2, <2>4 DEF HeldByHandler, Spooling, Holding, Working, ChunkWork, CleanWork
<1> QED
  BY <1>1, <1>2, FilesInvariant, PTL DEF NothingElseLeftBehind
===============================================================================
