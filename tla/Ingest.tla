------------------------------- MODULE Ingest -------------------------------
(***************************************************************************)
(* backend/ingest-api: uploads, deletions and listings on the event loop,  *)
(* the watchdog thread on /data/incoming, and the two Chroma collections   *)
(* both write.                                                             *)
(*                                                                         *)
(* process_document is synchronous.  Called from the async upload handler  *)
(* it occupies the event loop, so HTTP handlers run one after the other;   *)
(* called from the watcher it runs in the observer's thread, beside them.  *)
(* One upsert call stores every chunk of a document, so a collection is    *)
(* the set of doc_ids with chunks in it.  A call to Chroma may be refused, *)
(* or be carried out and its answer lost.  The role check and the three    *)
(* rejections of an upload (lines 137-146) change no state and are left    *)
(* out.  A file name is copied into /data/incoming once.                   *)
(***************************************************************************)
EXTENDS Naturals, Sequences

CONSTANTS
    UploadDocs,     \* doc_ids (one to one with job_ids) uuid4 draws for uploads
    WatcherDocs,    \* ... and for files of the watcher
    Files,          \* names copied into /data/incoming
    NoDoc, NoFile,
    Faults,         \* TRUE: conversions, Chroma, embedder and moves may fail
    MaxRestarts     \* bound of the model: restarts of the service

ASSUME IngestAssumption ==
    /\ UploadDocs \cap WatcherDocs = {}
    /\ NoDoc \notin UploadDocs \cup WatcherDocs
    /\ NoFile \notin Files
    /\ Faults \in BOOLEAN
    /\ MaxRestarts \in Nat

VARIABLES
    job,        \* the jobs dict: status of each job, "none" when absent
    chunks,     \* job.chunks_created is positive
    coll,       \* the two Chroma collections
    run,        \* what the event loop and the watcher thread are executing
    file,       \* the file the watcher is handling
    whole,      \* the watcher has read the complete file
    known,      \* doc_ids some client has been given
    place,      \* where each file lies
    copied,     \* files whose copying has completed
    arrivals,   \* created events not yet handled
    restarts,
    \* history
    drawn,      \* identifiers uuid4 has drawn
    stored,     \* documents that have been in a collection
    source,     \* the file a document was read from
    dropped,    \* documents a deletion has been started for
    deleted,    \* documents whose deletion was answered with "deleted"
    ended       \* files for which process_document returned

vars == <<job, chunks, coll, run, file, whole, known, place, copied, arrivals,
          restarts, drawn, stored, source, dropped, deleted, ended>>
incoming == <<place, copied, arrivals>>

Docs == UploadDocs \cup WatcherDocs
Classes == {"internal", "public"}
Executors == {"loop", "watcher"}
Points == {"idle", "convert", "upsert", "finish", "fail", "open", "move", "delete",
           "dead"}   \* "dead": the observer's thread has ended
Idle == [at |-> "idle", doc |-> NoDoc, class |-> "public"]

TypeOK ==
    /\ job \in [Docs -> {"none", "processing", "ready", "failed"}]
    /\ chunks \in [Docs -> BOOLEAN]
    /\ coll \in [Classes -> SUBSET Docs]
    /\ run \in [Executors -> [at : Points, doc : Docs \cup {NoDoc}, class : Classes]]
    /\ file \in Files \cup {NoFile}
    /\ whole \in BOOLEAN
    /\ known \in SUBSET Docs
    /\ place \in [Files -> {"absent", "incoming", "processed", "failed"}]
    /\ copied \in SUBSET Files
    /\ arrivals \in Seq(Files)
    /\ restarts \in 0..MaxRestarts
    /\ drawn \in SUBSET Docs
    /\ stored \in SUBSET Docs
    /\ source \in [Docs -> Files \cup {NoFile}]
    /\ dropped \in SUBSET Docs
    /\ deleted \in SUBSET Docs
    /\ ended \in SUBSET Files

Init ==
    /\ job = [d \in Docs |-> "none"]
    /\ chunks = [d \in Docs |-> FALSE]
    /\ coll = [c \in Classes |-> {}]
    /\ run = [e \in Executors |-> Idle]
    /\ file = NoFile
    /\ whole = TRUE
    /\ known = {}
    /\ place = [f \in Files |-> "absent"]
    /\ copied = {}
    /\ arrivals = <<>>
    /\ restarts = 0
    /\ drawn = {}
    /\ stored = {}
    /\ source = [d \in Docs |-> NoFile]
    /\ dropped = {}
    /\ deleted = {}
    /\ ended = {}

-----------------------------------------------------------------------------
(* process_document, lines 71-108, run by executor e.                      *)

At(e, point) == run[e].at = point
Goto(e, point) == run' = [run EXCEPT ![e].at = point]

\* Mutant: an identifier may come again, as if it were taken from the name.
Begin_Reused(e, d, class) ==
    /\ drawn' = drawn \cup {d}
    /\ job' = [job EXCEPT ![d] = "processing"]
    /\ run' = [run EXCEPT ![e] = [at |-> "convert", doc |-> d, class |-> class]]

\* Mutant: the job starts in a status the portal does not know.
Begin_Queued(e, d, class) ==
    /\ d \notin drawn
    /\ drawn' = drawn \cup {d}
    /\ job' = [job EXCEPT ![d] = "queued"]
    /\ run' = [run EXCEPT ![e] = [at |-> "convert", doc |-> d, class |-> class]]

\* Lines 72-75: identifiers never drawn before; the job is "processing".
Begin(e, d, class) ==
    /\ d \notin drawn
    /\ drawn' = drawn \cup {d}
    /\ job' = [job EXCEPT ![d] = "processing"]
    /\ run' = [run EXCEPT ![e] = [at |-> "convert", doc |-> d, class |-> class]]

\* Lines 77-97: the converter raises, or the text yields chunks or none.
\* Without faults the complete bytes of a document yield chunks; a file read
\* while it is being copied may yield anything.
Convert(e) ==
    /\ At(e, "convert")
    /\ \E outcome \in {"chunks", "empty", "raises"} :
          /\ outcome # "chunks" => Faults \/ (e = "watcher" /\ ~whole)
          /\ Goto(e, CASE outcome = "chunks" -> "upsert"
                       [] outcome = "empty"  -> "finish"
                       [] outcome = "raises" -> "fail")
          /\ chunks' = [chunks EXCEPT ![run[e].doc] = outcome = "chunks"]
    /\ UNCHANGED <<job, coll, file, whole, known, incoming, restarts, stored,
                   drawn, source, dropped, deleted, ended>>

\* Line 98: embed and upsert.  The call may fail before or after Chroma
\* has taken the chunks.
Upsert(e) ==
    /\ At(e, "upsert")
    /\ \E done, answered \in BOOLEAN :
          /\ Faults \/ (done /\ answered)
          /\ answered => done
          /\ coll' = IF done
                     THEN [coll EXCEPT ![run[e].class] = @ \cup {run[e].doc}]
                     ELSE coll
          /\ stored' = IF done THEN stored \cup {run[e].doc} ELSE stored
          /\ Goto(e, IF answered THEN "finish" ELSE "fail")
    /\ UNCHANGED <<job, chunks, file, whole, known, incoming, restarts, drawn,
                   source, dropped, deleted, ended>>

\* Mutant: the exception handler is gone, every job ends "ready".
Return_NoExcept(e) ==
    /\ run[e].at \in {"finish", "fail"}
    /\ job' = [job EXCEPT ![run[e].doc] = "ready"]
    /\ IF e = "loop"
       THEN /\ run' = [run EXCEPT ![e] = Idle]
            /\ known' = known \cup {run[e].doc}
            /\ UNCHANGED ended
       ELSE /\ run' = [run EXCEPT ![e].at = "move"]
            /\ ended' = ended \cup {file}
            /\ UNCHANGED known
    /\ UNCHANGED <<chunks, coll, file, whole, incoming, restarts, stored,
                   drawn, source, dropped, deleted>>

\* Lines 99-108: the job is "ready", or every exception makes it "failed";
\* either way the call returns.  An upload is answered with its doc_id (148);
\* the watcher goes on to move its file (watcher.py:24).
Return(e) ==
    /\ run[e].at \in {"finish", "fail"}
    /\ job' = [job EXCEPT ![run[e].doc] = IF At(e, "finish") THEN "ready" ELSE "failed"]
    /\ IF e = "loop"
       THEN /\ run' = [run EXCEPT ![e] = Idle]
            /\ known' = known \cup {run[e].doc}
            /\ UNCHANGED ended
       ELSE /\ run' = [run EXCEPT ![e].at = "move"]
            /\ ended' = ended \cup {file}
            /\ UNCHANGED known
    /\ UNCHANGED <<chunks, coll, file, whole, incoming, restarts, stored,
                   drawn, source, dropped, deleted>>

-----------------------------------------------------------------------------
(* The HTTP handlers, one at a time.                                       *)

Upload(d, class) ==
    /\ At("loop", "idle")
    /\ Begin("loop", d, class)
    /\ UNCHANGED <<chunks, coll, file, whole, known, incoming, restarts, stored,
                   source, dropped, deleted, ended>>

\* Lines 160-162: the two collections are cleaned by two calls.  A failure of
\* either raises and the second is not made.
DeleteFrom(class, d) ==
    \/ coll' = [coll EXCEPT ![class] = @ \ {d}]
    \/ Faults /\ UNCHANGED coll

DeleteInternal(d) ==
    /\ At("loop", "idle")
    /\ d \in known
    /\ dropped' = dropped \cup {d}
    /\ DeleteFrom("internal", d)
    /\ \/ run' = [run EXCEPT !["loop"] = [at |-> "delete", doc |-> d, class |-> "public"]]
          /\ coll'["internal"] = coll["internal"] \ {d}
       \/ Faults /\ UNCHANGED run
    /\ UNCHANGED <<job, chunks, file, whole, known, incoming, restarts, stored,
                   drawn, source, deleted, ended>>

\* Mutant: a failing second call is answered with "deleted" all the same.
DeletePublic_Swallowed ==
    /\ At("loop", "delete")
    /\ DeleteFrom("public", run["loop"].doc)
    /\ deleted' = deleted \cup {run["loop"].doc}
    /\ run' = [run EXCEPT !["loop"] = Idle]
    /\ UNCHANGED <<job, chunks, file, whole, known, incoming, restarts, stored,
                   drawn, source, dropped, ended>>

DeletePublic ==
    /\ At("loop", "delete")
    /\ DeleteFrom("public", run["loop"].doc)
    /\ \/ deleted' = deleted \cup {run["loop"].doc}
          /\ coll'["public"] = coll["public"] \ {run["loop"].doc}
       \/ Faults /\ UNCHANGED deleted
    /\ run' = [run EXCEPT !["loop"] = Idle]
    /\ UNCHANGED <<job, chunks, file, whole, known, incoming, restarts, stored,
                   drawn, source, dropped, ended>>

\* list_documents reads "internal", then "public".  Only the event loop, which
\* is busy with this very handler, changes "internal", so the two reads are
\* one at the time of the second.
ListDocuments ==
    /\ At("loop", "idle")
    /\ known' = known \cup coll["internal"] \cup coll["public"]
    /\ UNCHANGED <<job, chunks, coll, run, file, whole, incoming, restarts,
                   stored, drawn, source, dropped, deleted, ended>>

-----------------------------------------------------------------------------
(* The watcher thread, watcher.py.                                         *)

\* Somebody copies a file: it exists, and is announced, before it is whole.
CopyStart(f) ==
    /\ place[f] = "absent"
    /\ place' = [place EXCEPT ![f] = "incoming"]
    /\ arrivals' = Append(arrivals, f)
    /\ UNCHANGED <<job, chunks, coll, run, file, whole, known, copied,
                   restarts, stored, drawn, source, dropped, deleted, ended>>

\* The copying completes.  (If it does so after the file was moved, a rename
\* does not disturb it and nobody reads the file again.)
CopyEnd(f) ==
    /\ place[f] = "incoming"
    /\ copied' = copied \cup {f}
    /\ UNCHANGED <<job, chunks, coll, run, file, whole, known, place, arrivals,
                   restarts, stored, drawn, source, dropped, deleted, ended>>

\* Line 17: the observer hands the handler its next event.
OnCreated ==
    /\ At("watcher", "idle")
    /\ arrivals # <<>>
    /\ file' = Head(arrivals)
    /\ arrivals' = Tail(arrivals)
    /\ run' = [run EXCEPT !["watcher"] = [Idle EXCEPT !.at = "open"]]
    /\ UNCHANGED <<job, chunks, coll, whole, known, place, copied, restarts,
                   stored, drawn, source, dropped, deleted, ended>>

\* Lines 22-23: read what is there of the file and process it.
OpenFile(d) ==
    /\ At("watcher", "open")
    /\ Begin("watcher", d, "public")
    /\ whole' = (file \in copied)
    /\ source' = [source EXCEPT ![d] = file]
    /\ UNCHANGED <<chunks, coll, file, known, incoming, restarts, stored,
                   dropped, deleted, ended>>

\* The watcher is done with its file and goes on to the given point.
LeaveFile(point) ==
    /\ file' = NoFile
    /\ whole' = TRUE
    /\ run' = [run EXCEPT !["watcher"] = [Idle EXCEPT !.at = point]]
    /\ UNCHANGED <<job, chunks, coll, known, copied, arrivals, restarts, stored,
                   drawn, source, dropped, deleted, ended>>

\* Mutant: the file is moved before its bytes are processed.
MoveFile_AtOnce ==
    /\ run["watcher"].at \in {"open", "move"}
    /\ place' = [place EXCEPT ![file] = "processed"]
    /\ LeaveFile("idle")

\* Lines 24-26: the file goes to processed/ once the processor returned.
MoveFile ==
    /\ At("watcher", "move")
    /\ place' = [place EXCEPT ![file] = "processed"]
    /\ LeaveFile("idle")

\* Mutant: the except block only writes its note.
GiveUp_NoMove ==
    /\ Faults
    /\ run["watcher"].at \in {"open", "move"}
    /\ UNCHANGED place
    /\ LeaveFile("idle") \/ LeaveFile("dead")

\* Lines 27-31: opening or moving the file raised and it goes to failed/.  The
\* calls of this except block may raise in their turn, before the file is moved
\* or when the note is written; nothing catches that, the observer's thread ends.
GiveUp ==
    /\ Faults
    /\ run["watcher"].at \in {"open", "move"}
    /\ \/ place' = [place EXCEPT ![file] = "failed"] /\ LeaveFile("idle")
       \/ place' = [place EXCEPT ![file] = "failed"] /\ LeaveFile("dead")
       \/ UNCHANGED place /\ LeaveFile("dead")

-----------------------------------------------------------------------------
\* The container is restarted: memory is lost; the new observer announces only
\* files created from now on.
Restart ==
    /\ restarts < MaxRestarts
    /\ restarts' = restarts + 1
    /\ job' = [d \in Docs |-> "none"]
    /\ chunks' = [d \in Docs |-> FALSE]
    /\ run' = [e \in Executors |-> Idle]
    /\ file' = NoFile
    /\ arrivals' = <<>>
    /\ whole' = TRUE
    /\ UNCHANGED <<coll, known, place, copied, stored, drawn, source,
                   dropped, deleted, ended>>

LoopStep == Convert("loop") \/ Upsert("loop") \/ Return("loop") \/ DeletePublic

WatcherStep ==
    \/ OnCreated
    \/ \E d \in WatcherDocs : OpenFile(d)
    \/ Convert("watcher") \/ Upsert("watcher") \/ Return("watcher")
    \/ MoveFile \/ GiveUp

Next ==
    \/ \E d \in UploadDocs, class \in Classes : Upload(d, class)
    \/ \E d \in Docs : DeleteInternal(d)
    \/ ListDocuments
    \/ LoopStep
    \/ WatcherStep
    \/ \E f \in Files : CopyStart(f) \/ CopyEnd(f)
    \/ Restart

Spec == Init /\ [][Next]_vars

\* Threads that can run do run, and a copy that was begun completes.
FairSpec ==
    /\ Spec
    /\ WF_vars(LoopStep)
    /\ WF_vars(WatcherStep)
    /\ \A f \in Files : WF_vars(CopyEnd(f))

-----------------------------------------------------------------------------
\* A document whose deletion was acknowledged is in neither collection, then
\* and ever after: nothing that runs beside the deletion puts it back.
DeletedStaysGone ==
    \A d \in deleted, c \in Classes : d \notin coll[c]

\* "ready" with chunks means searchable: the chunks are in Chroma unless a
\* deletion of the document has been started.
ReadyIsStored ==
    \A d \in Docs \ dropped :
        job[d] = "ready" /\ chunks[d] => \E c \in Classes : d \in coll[c]

\* A file lies in processed/ only if process_document has returned for it:
\* neither a restart nor an exception lets the watcher put away a file nobody
\* has processed.
ProcessedWasProcessed ==
    \A f \in Files : place[f] = "processed" => f \in ended

\* Every file in /data/incoming is taken away, whatever conversions, Chroma and
\* moves do, unless the service is restarted (a file announced before is then
\* announced to nobody) or the putting away of a file in failed/ raises, which
\* ends the observer's thread: nothing else, a failing document before it
\* included, leaves a file there (watcher.py 17-31).
FilesSettle ==
    \A f \in Files :
        place[f] = "incoming" ~>
            place[f] # "incoming" \/ restarts > 0 \/ At("watcher", "dead")

\* "Copy a file into ./data/incoming/ and show it appear automatically after
\* watcher ingestion" (README.md:41).
CopiedFileAppears ==
    \A f \in Files :
        f \in copied ~> \E d \in stored : source[d] = f

-----------------------------------------------------------------------------
\* The store Library promises: a document is in a collection or it is not, and
\* one that has been and is not any more is gone.
Shelf ==
    [d \in Docs |->
        IF \E c \in Classes : d \in coll[c] THEN "stored"
        ELSE IF d \in stored THEN "gone" ELSE "never"]

Lib == INSTANCE Library WITH shelf <- Shelf

\* Every step of the ingest service is a step of the promised store or none.
ImplementsLibrary == Lib!Spec
=============================================================================
