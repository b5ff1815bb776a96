---------------------------- MODULE VideoUploader ----------------------------
(***************************************************************************)
(* The uploader thread of the parent process (video_uploader.c): it takes  *)
(* the oldest pending row, marks it uploading, posts the file, and marks   *)
(* the row uploaded or pending again.  The HTTP server is external: it may *)
(* accept, refuse, or accept and have its answer lost.                     *)
(***************************************************************************)
EXTENDS SegmentTable

VARIABLES
    upc,            \* where the thread is; "off" when the process does not run
    seg,            \* segment: the record fetched by handle_one
    body,           \* the file part of the request being sent
    server,         \* external: the requests that the server has accepted
    stop            \* video_uploader_stop has been called

uploaderVars == <<upc, seg, body, server, stop>>

UploaderPC == {"off", "reset", "fetch", "mark", "post", "sending", "uploaded",
               "retry", "idle", "backoff", "joined"}
NoSegment == [id |-> 0, start |-> 0]
NoBody == [by |-> 0, size |-> 0]
Segment == [id : Id, start : Second] \cup {NoSegment}
Upload == [id : Id, by : Id, size : 0..SegBytes]

UploaderTypeOK ==
    /\ upc \in UploaderPC
    /\ seg \in Segment
    /\ body \in [by : Id, size : 0..SegBytes] \cup {NoBody}
    /\ server \subseteq Upload
    /\ stop \in BOOLEAN

UploaderInit ==
    /\ upc = "off"
    /\ seg = NoSegment
    /\ body = NoBody
    /\ server = {}
    /\ stop = FALSE

-----------------------------------------------------------------------------
\* video_uploader_start: pthread_create, then local_store_open in the thread;
\* when that fails the thread returns and only the join is left.
UploaderStart ==
    /\ upc = "off"
    /\ \E ok \in Outcome : upc' = IF ok THEN "reset" ELSE "joined"
    /\ UNCHANGED <<tableVars, seg, body, server, stop>>

\* A failed reset is reported and otherwise ignored.
UploaderReset ==
    /\ upc = "reset"
    /\ \E ok \in Outcome : IF ok THEN ResetUploading ELSE UNCHANGED rows
    /\ upc' = "fetch"
    /\ UNCHANGED <<lastId, files, seg, body, server, stop>>

FetchPending ==
    /\ upc = "fetch"
    /\ \/ /\ \E i \in OldestPending :
               seg' = [id |-> i, start |-> rows[i].start]
          /\ upc' = "mark"
       \/ /\ OldestPending = {}
          /\ upc' = "idle"
          /\ UNCHANGED seg
       \/ /\ Faults
          /\ upc' = "backoff"
          /\ UNCHANGED seg
    /\ UNCHANGED <<tableVars, body, server, stop>>

ClaimSegment ==
    /\ upc = "mark"
    /\ \E ok \in Outcome :
         IF ok THEN MarkUploading(seg.id) /\ upc' = "post"
               ELSE UNCHANGED rows /\ upc' = "backoff"
    /\ UNCHANGED <<lastId, files, seg, body, server, stop>>

\* access(2), then the open of the file by curl; what is read afterwards is
\* the open file, whatever becomes of its name.
PostFile ==
    /\ upc = "post"
    /\ IF seg.start \in DOMAIN files
       THEN /\ upc' = "sending"
            /\ body' = [by |-> files[seg.start].by,
                        size |-> files[seg.start].size]
       ELSE upc' = "retry" /\ UNCHANGED body
    /\ UNCHANGED <<tableVars, seg, server, stop>>

Accept == server' = server \cup {[id |-> seg.id, by |-> body.by,
                                  size |-> body.size]}

\* HTTP 200 with code 0 and a remote_path.
ServerAccepts ==
    /\ upc = "sending"
    /\ Accept
    /\ upc' = "uploaded"
    /\ body' = NoBody
    /\ UNCHANGED <<tableVars, seg, stop>>

\* Mutant: the HTTP status is not looked at.
UploadFailsUnnoticed ==
    /\ upc = "sending"
    /\ UNCHANGED server
    /\ upc' = "uploaded"
    /\ body' = NoBody
    /\ UNCHANGED <<tableVars, seg, stop>>

\* Connection refused, time out, error status; the request may have been
\* accepted all the same.
UploadFails ==
    /\ upc = "sending"
    /\ Accept \/ UNCHANGED server
    /\ upc' = "retry"
    /\ body' = NoBody
    /\ UNCHANGED <<tableVars, seg, stop>>

\* handle_one returns the result of the UPDATE: 0 goes straight on to the
\* next segment, after a refused upload just as after an accepted one.
AfterUpdate(ok) == upc' = IF ok THEN "fetch" ELSE "backoff"

ConfirmUpload ==
    /\ upc = "uploaded"
    /\ \E ok \in Outcome :
         /\ IF ok THEN MarkUploaded(seg.id) ELSE UNCHANGED rows
         /\ AfterUpdate(ok)
    /\ seg' = NoSegment
    /\ UNCHANGED <<lastId, files, body, server, stop>>

ReleaseSegment ==
    /\ upc = "retry"
    /\ \E ok \in Outcome :
         /\ IF ok THEN MarkRetry(seg.id) ELSE UNCHANGED rows
         /\ AfterUpdate(ok)
    /\ seg' = NoSegment
    /\ UNCHANGED <<lastId, files, body, server, stop>>

\* Mutant: the wait returns 0 whether or not the event is readable.
UploaderWaitDeaf ==
    /\ upc \in {"idle", "backoff"}
    /\ upc' = "fetch"
    /\ seg' = NoSegment
    /\ UNCHANGED <<tableVars, body, server, stop>>

\* video_uploader_wait: the stop event wins over the timeout.  A wait that
\* fails ends the thread, and nothing starts another.
UploaderWait ==
    /\ upc \in {"idle", "backoff"}
    /\ \/ upc' = IF stop THEN "joined" ELSE "fetch"
       \/ Faults /\ upc' = "joined"
    /\ seg' = NoSegment
    /\ UNCHANGED <<tableVars, body, server, stop>>

\* video_uploader_stop up to its pthread_join.
StopRequest ==
    /\ upc # "off" /\ ~stop
    /\ stop' = TRUE
    /\ UNCHANGED <<tableVars, upc, seg, body, server>>

UploaderWork ==
    \/ UploaderReset \/ FetchPending \/ ClaimSegment \/ PostFile
    \/ ServerAccepts \/ UploadFails \/ ConfirmUpload \/ ReleaseSegment
    \/ UploaderWait

UploaderNext == UploaderStart \/ UploaderWork

\* The process ends with the thread at any point; the server keeps what it has.
UploaderDies ==
    /\ upc' = "off"
    /\ seg' = NoSegment
    /\ body' = NoBody
    /\ stop' = FALSE
    /\ UNCHANGED <<tableVars, server>>
=============================================================================
