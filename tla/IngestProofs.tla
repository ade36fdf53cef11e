---------------------------- MODULE IngestProofs ----------------------------
(***************************************************************************)
(* For any number of identifiers and files, any number of restarts, with   *)
(* or without faults: the two collections implement the store of Library,  *)
(* a deleted document stays gone, a ready document can be found and only   *)
(* processed files lie in processed/.                                      *)
(*                                                                         *)
(* The argument is about the document an executor has in hand: from Begin  *)
(* on it belongs to that executor alone, nobody can name it in a deletion  *)
(* before it is in a collection, and it enters a collection once.          *)
(***************************************************************************)
EXTENDS Ingest, TLAPS

USE DEF incoming, Classes, Executors, At, Goto

Unstored == {"convert", "upsert"}           \* the document is not in Chroma yet
Busy == Unstored \cup {"finish", "fail"}    \* process_document is running

Doc(e) == run[e].doc

\* Where the executors may be, and what they then have in hand.
RunInv ==
    /\ run["loop"].at \notin {"open", "move", "dead"}
    /\ run["watcher"].at # "delete"
    /\ run["watcher"].at \notin {"idle", "dead"} => file \in Files
    /\ run["watcher"].at = "move" => file \in ended
    /\ \A e \in Executors :
          /\ run[e].at \in Busy => Doc(e) \in drawn /\ job[Doc(e)] = "processing"
          /\ run[e].at \in Unstored => Doc(e) \notin stored /\ Doc(e) \notin known
    /\ run["loop"].at \in Busy /\ run["watcher"].at \in Busy
          => Doc("loop") # Doc("watcher")

\* Documents are in Chroma only after they were drawn, clients know only
\* drawn ones and delete only those they know.
StoreInv ==
    /\ \A c \in Classes : coll[c] \subseteq stored
    /\ stored \subseteq drawn
    /\ known \subseteq drawn
    /\ dropped \subseteq known
    /\ deleted \subseteq dropped

\* Half-way through a deletion the internal collection is clean.
DeleteInv ==
    run["loop"].at = "delete" =>
        /\ Doc("loop") \in dropped
        /\ Doc("loop") \notin coll["internal"]

\* A call that is about to report chunks has them in Chroma.
FinishInv ==
    \A e \in Executors :
        run[e].at = "finish" /\ chunks[Doc(e)] /\ Doc(e) \notin dropped
            => \E c \in Classes : Doc(e) \in coll[c]

IInv ==
    /\ TypeOK
    /\ RunInv
    /\ StoreInv
    /\ DeleteInv
    /\ FinishInv
    /\ DeletedStaysGone
    /\ ReadyIsStored
    /\ ProcessedWasProcessed

-----------------------------------------------------------------------------
Runs == [Executors -> [at : Points, doc : Docs \cup {NoDoc}, class : Classes]]

\* Goto moves one executor and leaves it its document.
LEMMA GotoRun ==
    ASSUME TypeOK, NEW e \in Executors, NEW p \in Points, Goto(e, p)
    PROVE  /\ run' \in Runs
           /\ run'[e].at = p /\ run'[e].doc = run[e].doc
           /\ \A o \in Executors : o # e => run'[o] = run[o]
<1>1. /\ run \in [Executors -> [at : Points, doc : Docs \cup {NoDoc}, class : Classes]]
      /\ run' = [run EXCEPT ![e].at = p]
  BY DEF TypeOK, Goto
<1>2. [run[e] EXCEPT !.at = p] \in [at : Points, doc : Docs \cup {NoDoc}, class : Classes]
  BY <1>1
<1> QED
  BY <1>1, <1>2 DEF Runs

\* Any record may be put in an executor's place.
LEMMA PutRun ==
    ASSUME TypeOK, NEW e \in Executors,
           NEW r \in [at : Points, doc : Docs \cup {NoDoc}, class : Classes],
           run' = [run EXCEPT ![e] = r]
    PROVE  /\ run' \in Runs
           /\ run'[e] = r
           /\ \A o \in Executors : o # e => run'[o] = run[o]
BY DEF TypeOK, Runs

LEMMA IdleTyped ==
    /\ Idle \in [at : Points, doc : Docs \cup {NoDoc}, class : Classes]
    /\ Idle.at = "idle"
BY DEF Idle, Points

LEMMA InitIInv == Init => IInv
<1> SUFFICES ASSUME Init PROVE IInv OBVIOUS
<1> USE IngestAssumption, IdleTyped DEF Init
<1>1. TypeOK
  <2>1. job \in [Docs -> {"none", "processing", "ready", "failed"}] OBVIOUS
  <2>2. chunks \in [Docs -> BOOLEAN] OBVIOUS
  <2>3. coll \in [Classes -> SUBSET Docs] OBVIOUS
  <2>4. run \in [Executors -> [at : Points, doc : Docs \cup {NoDoc}, class : Classes]]
    OBVIOUS
  <2>5. place \in [Files -> {"absent", "incoming", "processed", "failed"}] OBVIOUS
  <2>6. arrivals \in Seq(Files) /\ restarts \in 0..MaxRestarts OBVIOUS
  <2>7. source \in [Docs -> Files \cup {NoFile}] OBVIOUS
  <2> QED BY <2>1, <2>2, <2>3, <2>4, <2>5, <2>6, <2>7 DEF TypeOK
<1>2. \A e \in Executors : run[e].at = "idle" OBVIOUS
<1>3. RunInv BY <1>2 DEF RunInv, Busy, Unstored
<1>4. StoreInv BY DEF StoreInv
<1>5. DeleteInv /\ FinishInv BY <1>2 DEF DeleteInv, FinishInv
<1>6. DeletedStaysGone /\ ReadyIsStored /\ ProcessedWasProcessed
  BY DEF DeletedStaysGone, ReadyIsStored, ProcessedWasProcessed
<1> QED BY <1>1, <1>3, <1>4, <1>5, <1>6 DEF IInv

-----------------------------------------------------------------------------
(* process_document.                                                       *)

LEMMA BeginStep ==
    ASSUME IInv, NEW e \in Executors, NEW d \in Docs, NEW class \in Classes,
           run[e].at \in {"idle", "open"}, e = "watcher" => file \in Files,
           Begin(e, d, class),
           UNCHANGED <<chunks, coll, file, known, incoming, restarts, stored,
                       dropped, deleted, ended>>,
           whole' \in BOOLEAN, source' \in [Docs -> Files \cup {NoFile}]
    PROVE  IInv'
<1> DEFINE r == [at |-> "convert", doc |-> d, class |-> class]
<1>0. /\ TypeOK /\ RunInv /\ StoreInv /\ DeleteInv /\ FinishInv
      /\ DeletedStaysGone /\ ReadyIsStored /\ ProcessedWasProcessed
  BY DEF IInv
<1>1. /\ d \notin drawn /\ drawn' = drawn \cup {d}
      /\ job' = [job EXCEPT ![d] = "processing"]
      /\ run' = [run EXCEPT ![e] = r]
  BY DEF Begin
<1>2. /\ run' \in Runs /\ run'[e] = r
      /\ \A o \in Executors : o # e => run'[o] = run[o]
  <2>1. r \in [at : Points, doc : Docs \cup {NoDoc}, class : Classes] BY DEF Points
  <2> QED BY <1>0, <1>1, <2>1, PutRun
<1>3. /\ run'[e].at = "convert" /\ run'[e].doc = d BY <1>2
<1>4. /\ job' \in [Docs -> {"none", "processing", "ready", "failed"}]
      /\ job'[d] = "processing"
      /\ \A x \in Docs : x # d => job'[x] = job[x]
  BY <1>0, <1>1 DEF TypeOK
<1>5. TypeOK' BY <1>0, <1>1, <1>2, <1>4 DEF TypeOK, Runs
<1>6. d \notin stored /\ d \notin known BY <1>0, <1>1 DEF StoreInv
<1>7. RunInv'
  <2>1. ASSUME NEW o \in Executors
        PROVE  /\ run'[o].at \in Busy => run'[o].doc \in drawn' /\ job'[run'[o].doc] = "processing"
               /\ run'[o].at \in Unstored => run'[o].doc \notin stored' /\ run'[o].doc \notin known'
    <3>1. CASE o = e BY <1>1, <1>3, <1>4, <1>6, <3>1
    <3>2. CASE o # e
      <4>1. run'[o] = run[o] BY <1>2, <3>2
      <4>2. run[o].at \in Busy => Doc(o) \in drawn /\ Doc(o) # d /\ job[Doc(o)] = "processing"
        BY <1>0, <1>1 DEF RunInv, Doc
      <4>3. drawn \subseteq Docs BY <1>0 DEF TypeOK
      <4> QED BY <1>0, <1>1, <1>4, <4>1, <4>2, <4>3 DEF RunInv, Doc
    <3> QED BY <3>1, <3>2
  <2>2. run["loop"].at \in Busy => Doc("loop") # d BY <1>0, <1>1 DEF RunInv, Doc
  <2>3. run["watcher"].at \in Busy => Doc("watcher") # d BY <1>0, <1>1 DEF RunInv, Doc
  <2>4. run'["loop"].at \in Busy /\ run'["watcher"].at \in Busy
           => run'["loop"].doc # run'["watcher"].doc
    <3>1. CASE e = "loop" BY <1>2, <1>3, <2>3, <3>1 DEF Doc
    <3>2. CASE e = "watcher" BY <1>2, <1>3, <2>2, <3>2 DEF Doc
    <3> QED BY <3>1, <3>2
  <2>5. /\ run'["loop"].at \notin {"open", "move", "dead"}
        /\ run'["watcher"].at # "delete"
        /\ run'["watcher"].at \notin {"idle", "dead"} => file' \in Files
        /\ run'["watcher"].at = "move" => file' \in ended'
    <3>1. CASE e = "loop" BY <1>0, <1>2, <1>3, <3>1 DEF RunInv
    <3>2. CASE e = "watcher" BY <1>0, <1>2, <1>3, <3>2 DEF RunInv
    <3> QED BY <3>1, <3>2
  <2> QED BY <2>1, <2>4, <2>5 DEF RunInv, Doc
<1>8. StoreInv' BY <1>0, <1>1 DEF StoreInv
<1>9. DeleteInv'
  <2>1. CASE e = "loop" BY <1>3, <2>1 DEF DeleteInv
  <2>2. CASE e # "loop" BY <1>0, <1>2, <2>2 DEF DeleteInv, Doc
  <2> QED BY <2>1, <2>2
<1>10. FinishInv'
  <2>1. SUFFICES ASSUME NEW o \in Executors,
                        run'[o].at = "finish", chunks[run'[o].doc], run'[o].doc \notin dropped
                 PROVE  \E c \in Classes : run'[o].doc \in coll[c]
    BY DEF FinishInv, Doc
  <2>2. o # e BY <1>3, <2>1
  <2> QED BY <1>0, <1>2, <2>1, <2>2 DEF FinishInv, Doc
<1>11. DeletedStaysGone' BY <1>0 DEF DeletedStaysGone
<1>12. ReadyIsStored' BY <1>0, <1>4 DEF ReadyIsStored
<1>13. ProcessedWasProcessed' BY <1>0 DEF ProcessedWasProcessed
<1> QED BY <1>5, <1>7, <1>8, <1>9, <1>10, <1>11, <1>12, <1>13 DEF IInv

\* The document an executor is at work on is a document.
LEMMA BusyDoc ==
    ASSUME TypeOK, RunInv, NEW e \in Executors, run[e].at \in Busy
    PROVE  /\ Doc(e) \in Docs /\ Doc(e) \in drawn /\ job[Doc(e)] = "processing"
           /\ \A o \in Executors : o # e /\ run[o].at \in Busy => Doc(o) # Doc(e)
BY DEF TypeOK, RunInv, Doc

LEMMA ConvertStep ==
    ASSUME IInv, NEW e \in Executors, Convert(e) PROVE IInv'
<1>0. /\ TypeOK /\ RunInv /\ StoreInv /\ DeleteInv /\ FinishInv
      /\ DeletedStaysGone /\ ReadyIsStored /\ ProcessedWasProcessed
  BY DEF IInv
<1>1. PICK outcome \in {"chunks", "empty", "raises"} :
          /\ Goto(e, CASE outcome = "chunks" -> "upsert"
                       [] outcome = "empty"  -> "finish"
                       [] outcome = "raises" -> "fail")
          /\ chunks' = [chunks EXCEPT ![run[e].doc] = outcome = "chunks"]
  BY DEF Convert
<1>2. run[e].at = "convert" BY DEF Convert
<1>3. UNCHANGED <<job, coll, file, whole, known, incoming, restarts, stored,
                  drawn, source, dropped, deleted, ended>>
  BY DEF Convert
<1>4. /\ Doc(e) \in Docs /\ Doc(e) \in drawn /\ job[Doc(e)] = "processing"
      /\ \A o \in Executors : o # e /\ run[o].at \in Busy => Doc(o) # Doc(e)
  BY <1>0, <1>2, BusyDoc DEF Busy, Unstored
<1>5. PICK p \in {"upsert", "finish", "fail"} :
          Goto(e, p) /\ (p = "finish" => outcome = "empty")
  BY <1>1
<1>6. /\ run' \in Runs /\ run'[e].at = p /\ run'[e].doc = run[e].doc
      /\ \A o \in Executors : o # e => run'[o] = run[o]
  <2>1. p \in Points BY DEF Points
  <2> QED BY <1>0, <1>5, <2>1, GotoRun
<1>7. /\ chunks' \in [Docs -> BOOLEAN]
      /\ \A x \in Docs : x # Doc(e) => chunks'[x] = chunks[x]
      /\ p = "finish" => ~chunks'[Doc(e)]
  <2>1. (outcome = "chunks") \in BOOLEAN OBVIOUS
  <2>2. chunks \in [Docs -> BOOLEAN] BY <1>0 DEF TypeOK
  <2>3. chunks' = [chunks EXCEPT ![Doc(e)] = (outcome = "chunks")] BY <1>1 DEF Doc
  <2> QED BY <1>4, <1>5, <2>1, <2>2, <2>3
<1>8. TypeOK' BY <1>0, <1>3, <1>6, <1>7 DEF TypeOK, Runs
<1>9. RunInv'
  <2>1. p \in Busy /\ "convert" \in Unstored /\ "convert" \in Busy /\ Unstored \subseteq Busy
    BY DEF Busy, Unstored
  <2>2. \A o \in Executors : run'[o].doc = run[o].doc
                             /\ (run'[o].at \in Busy => run[o].at \in Busy)
                             /\ (run'[o].at \in Unstored => run[o].at \in Unstored)
    BY <1>2, <1>6, <2>1
  <2>3. p \notin {"idle", "open", "move", "delete", "dead"} OBVIOUS
  <2>4. \A o \in Executors : run'[o].at = run[o].at \/ (o = e /\ run'[o].at = p)
    BY <1>6
  <2> QED BY <1>0, <1>2, <1>3, <2>2, <2>3, <2>4 DEF RunInv, Doc
<1>10. StoreInv' BY <1>0, <1>3 DEF StoreInv
<1>11. DeleteInv'
  <2>1. run'["loop"].at = "delete" => run'["loop"] = run["loop"] BY <1>5, <1>6
  <2> QED BY <1>0, <1>3, <2>1 DEF DeleteInv, Doc
<1>12. FinishInv'
  <2>1. SUFFICES ASSUME NEW o \in Executors, run'[o].at = "finish",
                        chunks'[run'[o].doc], run'[o].doc \notin dropped
                 PROVE  \E c \in Classes : run'[o].doc \in coll[c]
    BY <1>3 DEF FinishInv, Doc
  <2>2. o # e BY <1>6, <1>7, <2>1 DEF Doc
  <2>3. run'[o] = run[o] /\ run[o].at \in Busy BY <1>6, <2>1, <2>2 DEF Busy
  <2>4. Doc(o) \in Docs /\ Doc(o) # Doc(e) BY <1>0, <1>4, <2>2, <2>3, BusyDoc
  <2> QED BY <1>0, <1>7, <2>1, <2>3, <2>4 DEF FinishInv, Doc
<1>13. DeletedStaysGone' BY <1>0, <1>3 DEF DeletedStaysGone
<1>14. ReadyIsStored'
  <2>1. SUFFICES ASSUME NEW d \in Docs \ dropped, job[d] = "ready", chunks'[d]
                 PROVE  \E c \in Classes : d \in coll[c]
    BY <1>3 DEF ReadyIsStored
  <2>2. d # Doc(e) BY <1>4, <2>1
  <2> QED BY <1>0, <1>7, <2>1, <2>2 DEF ReadyIsStored
<1>15. ProcessedWasProcessed' BY <1>0, <1>3 DEF ProcessedWasProcessed
<1> QED BY <1>8, <1>9, <1>10, <1>11, <1>12, <1>13, <1>14, <1>15 DEF IInv

LEMMA UpsertStep ==
    ASSUME IInv, NEW e \in Executors, Upsert(e) PROVE IInv'
<1>0. /\ TypeOK /\ RunInv /\ StoreInv /\ DeleteInv /\ FinishInv
      /\ DeletedStaysGone /\ ReadyIsStored /\ ProcessedWasProcessed
  BY DEF IInv
<1>1. PICK done \in BOOLEAN, answered \in BOOLEAN :
          /\ answered => done
          /\ coll' = IF done
                     THEN [coll EXCEPT ![run[e].class] = @ \cup {run[e].doc}]
                     ELSE coll
          /\ stored' = IF done THEN stored \cup {run[e].doc} ELSE stored
          /\ Goto(e, IF answered THEN "finish" ELSE "fail")
  BY DEF Upsert
<1>2. run[e].at = "upsert" BY DEF Upsert
<1>3. UNCHANGED <<job, chunks, file, whole, known, incoming, restarts, drawn,
                  source, dropped, deleted, ended>>
  BY DEF Upsert
<1>4. /\ Doc(e) \in Docs /\ Doc(e) \in drawn /\ job[Doc(e)] = "processing"
      /\ \A o \in Executors : o # e /\ run[o].at \in Busy => Doc(o) # Doc(e)
  BY <1>0, <1>2, BusyDoc DEF Busy, Unstored
<1>5. Doc(e) \notin stored /\ Doc(e) \notin known
  BY <1>0, <1>2 DEF RunInv, Unstored
<1>6. PICK p \in {"finish", "fail"} : Goto(e, p) /\ (p = "finish" => done)
  BY <1>1
<1>7. /\ run' \in Runs /\ run'[e].at = p /\ run'[e].doc = run[e].doc
      /\ \A o \in Executors : o # e => run'[o] = run[o]
  <2>1. p \in Points BY DEF Points
  <2> QED BY <1>0, <1>6, <2>1, GotoRun
<1>8. /\ stored \subseteq stored' /\ stored' \subseteq stored \cup {Doc(e)}
      /\ done => Doc(e) \in stored'
  BY <1>1 DEF Doc
<1>9. /\ coll' \in [Classes -> SUBSET Docs]
      /\ \A c \in Classes : coll[c] \subseteq coll'[c] /\ coll'[c] \subseteq coll[c] \cup {Doc(e)}
      /\ done => \E c \in Classes : Doc(e) \in coll'[c]
      /\ ~done => coll' = coll
  <2>1. coll \in [Classes -> SUBSET Docs] /\ run[e].class \in Classes
    BY <1>0 DEF TypeOK
  <2>2. CASE done
    <3>1. coll' = [coll EXCEPT ![run[e].class] = @ \cup {Doc(e)}] BY <1>1, <2>2 DEF Doc
    <3>2. \A c \in Classes :
             coll'[c] = IF c = run[e].class THEN coll[c] \cup {Doc(e)} ELSE coll[c]
      BY <2>1, <3>1
    <3>3. coll' \in [Classes -> SUBSET Docs] BY <1>4, <2>1, <3>1
    <3> QED BY <2>1, <2>2, <3>2, <3>3
  <2>3. CASE ~done BY <1>1, <2>1, <2>3
  <2> QED BY <2>2, <2>3
<1>10. TypeOK'
  <2>1. stored' \in SUBSET Docs BY <1>0, <1>4, <1>8 DEF TypeOK
  <2> QED BY <1>0, <1>3, <1>7, <1>9, <2>1 DEF TypeOK, Runs
<1>11. RunInv'
  <2>1. p \in Busy /\ p \notin Unstored /\ "upsert" \in Busy /\ Unstored \subseteq Busy
    BY DEF Busy, Unstored
  <2>2. \A o \in Executors : run'[o].doc = run[o].doc
                             /\ (run'[o].at \in Busy => run[o].at \in Busy)
    BY <1>2, <1>7, <2>1
  <2>3. p \notin {"idle", "open", "move", "delete", "dead"} OBVIOUS
  <2>4. \A o \in Executors : run'[o].at = run[o].at \/ (o = e /\ run'[o].at = p)
    BY <1>7
  <2>5. ASSUME NEW o \in Executors, run'[o].at \in Unstored
        PROVE  Doc(o) \notin stored' /\ Doc(o) \notin known
    <3>1. o # e BY <1>7, <2>1, <2>5
    <3>2. run[o].at \in Unstored BY <1>7, <2>5, <3>1
    <3>3. Doc(o) # Doc(e) BY <1>4, <2>1, <3>1, <3>2
    <3> QED BY <1>0, <1>8, <3>2, <3>3 DEF RunInv
  <2> QED BY <1>0, <1>2, <1>3, <2>2, <2>3, <2>4, <2>5 DEF RunInv, Doc
<1>12. StoreInv'
  <2>1. \A c \in Classes : coll'[c] \subseteq stored'
    <3>1. CASE done BY <1>0, <1>8, <1>9, <3>1 DEF StoreInv
    <3>2. CASE ~done BY <1>0, <1>8, <1>9, <3>2 DEF StoreInv
    <3> QED BY <3>1, <3>2
  <2>2. stored' \subseteq drawn BY <1>0, <1>4, <1>8 DEF StoreInv
  <2> QED BY <1>0, <1>3, <2>1, <2>2 DEF StoreInv
<1>13. DeleteInv'
  <2>1. SUFFICES ASSUME run'["loop"].at = "delete"
                 PROVE  /\ run'["loop"].doc \in dropped
                        /\ run'["loop"].doc \notin coll'["internal"]
    BY <1>3 DEF DeleteInv, Doc
  <2>2. run'["loop"] = run["loop"] BY <1>6, <1>7, <2>1
  <2>3. Doc("loop") \in dropped /\ Doc("loop") \notin coll["internal"]
    BY <1>0, <2>1, <2>2 DEF DeleteInv
  <2>4. Doc("loop") # Doc(e) BY <1>0, <1>5, <2>3 DEF StoreInv
  <2> QED BY <1>9, <2>2, <2>3, <2>4 DEF Doc
<1>14. FinishInv'
  <2>1. SUFFICES ASSUME NEW o \in Executors, run'[o].at = "finish",
                        chunks[run'[o].doc], run'[o].doc \notin dropped
                 PROVE  \E c \in Classes : run'[o].doc \in coll'[c]
    BY <1>3 DEF FinishInv, Doc
  <2>2. CASE o = e
    <3>1. done BY <1>6, <1>7, <2>1, <2>2
    <3> QED BY <1>7, <1>9, <2>2, <3>1 DEF Doc
  <2>3. CASE o # e BY <1>0, <1>7, <1>9, <2>1, <2>3 DEF FinishInv, Doc
  <2> QED BY <2>2, <2>3
<1>15. DeletedStaysGone'
  <2>1. Doc(e) \notin deleted BY <1>0, <1>5 DEF StoreInv
  <2> QED BY <1>0, <1>3, <1>9, <2>1 DEF DeletedStaysGone
<1>16. ReadyIsStored' BY <1>0, <1>3, <1>9 DEF ReadyIsStored
<1>17. ProcessedWasProcessed' BY <1>0, <1>3 DEF ProcessedWasProcessed
<1> QED BY <1>10, <1>11, <1>12, <1>13, <1>14, <1>15, <1>16, <1>17 DEF IInv

LEMMA ReturnStep ==
    ASSUME IInv, NEW e \in Executors, Return(e) PROVE IInv'
<1>0. /\ TypeOK /\ RunInv /\ StoreInv /\ DeleteInv /\ FinishInv
      /\ DeletedStaysGone /\ ReadyIsStored /\ ProcessedWasProcessed
  BY DEF IInv
<1>1. /\ run[e].at \in {"finish", "fail"}
      /\ job' = [job EXCEPT ![run[e].doc] = IF At(e, "finish") THEN "ready" ELSE "failed"]
      /\ UNCHANGED <<chunks, coll, file, whole, incoming, restarts, stored,
                     drawn, source, dropped, deleted>>
      /\ \/ /\ e = "loop" /\ run' = [run EXCEPT ![e] = Idle]
            /\ known' = known \cup {run[e].doc} /\ ended' = ended
         \/ /\ e = "watcher" /\ Goto(e, "move")
            /\ known' = known /\ ended' = ended \cup {file}
  BY DEF Return
<1>2. /\ Doc(e) \in Docs /\ Doc(e) \in drawn /\ job[Doc(e)] = "processing"
      /\ \A o \in Executors : o # e /\ run[o].at \in Busy => Doc(o) # Doc(e)
  BY <1>0, <1>1, BusyDoc DEF Busy
<1>3. /\ run' \in Runs
      /\ \A o \in Executors : o # e => run'[o] = run[o]
      /\ run'[e].at = IF e = "loop" THEN "idle" ELSE "move"
  <2>1. CASE e = "loop" BY <1>0, <1>1, <2>1, PutRun, IdleTyped
  <2>2. CASE e = "watcher"
    <3>1. "move" \in Points BY DEF Points
    <3> QED BY <1>0, <1>1, <2>2, <3>1, GotoRun
  <2> QED BY <2>1, <2>2
<1>4. /\ job' \in [Docs -> {"none", "processing", "ready", "failed"}]
      /\ \A x \in Docs : x # Doc(e) => job'[x] = job[x]
      /\ job'[Doc(e)] = "ready" => run[e].at = "finish"
  <2>1. /\ job \in [Docs -> {"none", "processing", "ready", "failed"}]
        /\ job' = [job EXCEPT ![Doc(e)] = IF run[e].at = "finish" THEN "ready" ELSE "failed"]
    BY <1>0, <1>1 DEF TypeOK, Doc
  <2> QED BY <1>2, <2>1
<1>5. file \in Files \/ e = "loop" BY <1>0, <1>1 DEF RunInv
<1>6. TypeOK'
  <2>1. known' \in SUBSET Docs BY <1>0, <1>1, <1>2 DEF TypeOK, Doc
  <2>2. ended' \in SUBSET Files BY <1>0, <1>1, <1>5 DEF TypeOK
  <2> QED BY <1>0, <1>1, <1>3, <1>4, <2>1, <2>2 DEF TypeOK, Runs
<1>7. \A o \in Executors : run'[o].at \in Busy =>
          /\ o # e /\ run'[o] = run[o] /\ run[o].at \in Busy /\ Doc(o) # Doc(e)
          /\ Doc(o) \in Docs
  <2>1. "idle" \notin Busy /\ "move" \notin Busy BY DEF Busy, Unstored
  <2> QED BY <1>0, <1>2, <1>3, <2>1, BusyDoc
<1>8. RunInv'
  <2>1. Unstored \subseteq Busy BY DEF Busy
  <2>2. ASSUME NEW o \in Executors
        PROVE  /\ run'[o].at \in Busy => run'[o].doc \in drawn /\ job'[run'[o].doc] = "processing"
               /\ run'[o].at \in Unstored => run'[o].doc \notin stored /\ run'[o].doc \notin known'
    <3>1. CASE run'[o].at \in Busy
      <4>1. Doc(o) \in drawn /\ job'[Doc(o)] = "processing"
        BY <1>0, <1>4, <1>7, <3>1 DEF RunInv
      <4>2. run'[o].at \in Unstored => Doc(o) \notin stored /\ Doc(o) \notin known'
        BY <1>0, <1>1, <1>7, <3>1 DEF RunInv, Doc
      <4> QED BY <1>7, <3>1, <4>1, <4>2 DEF Doc
    <3>2. CASE run'[o].at \notin Busy BY <2>1, <3>2
    <3> QED BY <3>1, <3>2
  <2>3. run'["loop"].at \notin Busy \/ run'["watcher"].at \notin Busy
    BY <1>1, <1>7
  <2>4. /\ run'["loop"].at \notin {"open", "move", "dead"}
        /\ run'["watcher"].at # "delete"
        /\ run'["watcher"].at \notin {"idle", "dead"} => file \in Files
        /\ run'["watcher"].at = "move" => file \in ended'
    <3>1. CASE e = "loop" BY <1>0, <1>1, <1>3, <3>1 DEF RunInv
    <3>2. CASE e = "watcher" BY <1>0, <1>1, <1>3, <1>5, <3>2 DEF RunInv
    <3> QED BY <3>1, <3>2
  <2> QED BY <1>1, <2>2, <2>3, <2>4 DEF RunInv, Doc
<1>9. StoreInv' BY <1>0, <1>1, <1>2 DEF StoreInv, Doc
<1>10. DeleteInv'
  <2>1. run'["loop"].at = "delete" => run'["loop"] = run["loop"] BY <1>3
  <2> QED BY <1>0, <1>1, <2>1 DEF DeleteInv, Doc
<1>11. FinishInv'
  <2>1. SUFFICES ASSUME NEW o \in Executors, run'[o].at = "finish",
                        chunks[run'[o].doc], run'[o].doc \notin dropped
                 PROVE  \E c \in Classes : run'[o].doc \in coll[c]
    BY <1>1 DEF FinishInv, Doc
  <2>2. run'[o] = run[o] BY <1>7, <2>1 DEF Busy
  <2> QED BY <1>0, <2>1, <2>2 DEF FinishInv, Doc
<1>12. DeletedStaysGone' BY <1>0, <1>1 DEF DeletedStaysGone
<1>13. ReadyIsStored'
  <2>1. SUFFICES ASSUME NEW d \in Docs \ dropped, job'[d] = "ready", chunks[d]
                 PROVE  \E c \in Classes : d \in coll[c]
    BY <1>1 DEF ReadyIsStored
  <2>2. CASE d = Doc(e) BY <1>0, <1>4, <2>1, <2>2 DEF FinishInv
  <2>3. CASE d # Doc(e) BY <1>0, <1>4, <2>1, <2>3 DEF ReadyIsStored
  <2> QED BY <2>2, <2>3
<1>14. ProcessedWasProcessed' BY <1>0, <1>1 DEF ProcessedWasProcessed
<1> QED BY <1>6, <1>8, <1>9, <1>10, <1>11, <1>12, <1>13, <1>14 DEF IInv

-----------------------------------------------------------------------------
(* The deletion handler.                                                   *)

\* One call to Chroma takes the document out of one collection or of none.
LEMMA DeleteFromStep ==
    ASSUME TypeOK, NEW c \in Classes, NEW d \in Docs, DeleteFrom(c, d)
    PROVE  /\ coll' \in [Classes -> SUBSET Docs]
           /\ \A x \in Classes : coll'[x] \subseteq coll[x]
           /\ \A x \in Classes, y \in Docs : y # d /\ y \in coll[x] => y \in coll'[x]
<1>1. CASE coll' = [coll EXCEPT ![c] = @ \ {d}] BY <1>1 DEF TypeOK
<1>2. CASE UNCHANGED coll BY <1>2 DEF TypeOK
<1> QED BY <1>1, <1>2 DEF DeleteFrom

LEMMA DeleteInternalStep ==
    ASSUME IInv, NEW d \in Docs, DeleteInternal(d) PROVE IInv'
<1> DEFINE r == [at |-> "delete", doc |-> d, class |-> "public"]
<1>0. /\ TypeOK /\ RunInv /\ StoreInv /\ DeleteInv /\ FinishInv
      /\ DeletedStaysGone /\ ReadyIsStored /\ ProcessedWasProcessed
  BY DEF IInv
<1>1. /\ run["loop"].at = "idle" /\ d \in known
      /\ dropped' = dropped \cup {d}
      /\ DeleteFrom("internal", d)
      /\ \/ run' = [run EXCEPT !["loop"] = r]
            /\ coll'["internal"] = coll["internal"] \ {d}
         \/ run' = run
      /\ UNCHANGED <<job, chunks, file, whole, known, incoming, restarts, stored,
                     drawn, source, deleted, ended>>
  BY DEF DeleteInternal
<1>2. /\ coll' \in [Classes -> SUBSET Docs]
      /\ \A x \in Classes : coll'[x] \subseteq coll[x]
      /\ \A x \in Classes, y \in Docs : y # d /\ y \in coll[x] => y \in coll'[x]
  BY <1>0, <1>1, DeleteFromStep
<1>3. /\ run' \in Runs
      /\ run'["watcher"] = run["watcher"]
      /\ \/ run'["loop"] = r /\ coll'["internal"] = coll["internal"] \ {d}
         \/ run'["loop"] = run["loop"]
  <2>1. CASE run' = run BY <1>0, <2>1 DEF TypeOK, Runs
  <2>2. CASE run' = [run EXCEPT !["loop"] = r] /\ coll'["internal"] = coll["internal"] \ {d}
    <3>1. r \in [at : Points, doc : Docs \cup {NoDoc}, class : Classes] BY DEF Points
    <3> QED BY <1>0, <2>2, <3>1, PutRun
  <2> QED BY <1>1, <2>1, <2>2
<1>4. \A o \in Executors : run'[o].at # "delete" => run'[o] = run[o]
  BY <1>3
<1>5. TypeOK' BY <1>0, <1>1, <1>2, <1>3 DEF TypeOK, Runs
<1>6. RunInv'
  <2>1. "delete" \notin Busy /\ "delete" \notin Unstored /\ "idle" \notin Busy
    BY DEF Busy, Unstored
  <2>2. \A o \in Executors :
            /\ run'[o].at \in Busy => run'[o] = run[o]
            /\ run'[o].at \in Unstored => run'[o] = run[o]
    BY <1>4, <2>1
  <2>3. run'["loop"].at \notin {"open", "move", "dead"} BY <1>0, <1>3 DEF RunInv
  <2>4. run'["loop"].at \notin Busy BY <1>1, <1>3, <2>1
  <2> QED BY <1>0, <1>1, <1>3, <2>2, <2>3, <2>4 DEF RunInv, Doc
<1>7. StoreInv' BY <1>0, <1>1, <1>2 DEF StoreInv
<1>8. DeleteInv' BY <1>0, <1>1, <1>3 DEF DeleteInv, Doc
<1>9. FinishInv'
  <2>1. SUFFICES ASSUME NEW o \in Executors, run'[o].at = "finish",
                        chunks[run'[o].doc], run'[o].doc \notin dropped'
                 PROVE  \E c \in Classes : run'[o].doc \in coll'[c]
    BY <1>1 DEF FinishInv, Doc
  <2>2. run'[o] = run[o] BY <1>4, <2>1
  <2>3. Doc(o) \in Docs BY <1>0, <2>1, <2>2, BusyDoc DEF Busy
  <2>4. PICK c \in Classes : Doc(o) \in coll[c]
    BY <1>0, <1>1, <2>1, <2>2 DEF FinishInv, Doc
  <2>5. Doc(o) # d BY <1>1, <2>1, <2>2 DEF Doc
  <2> QED BY <1>2, <2>2, <2>3, <2>4, <2>5 DEF Doc
<1>10. DeletedStaysGone' BY <1>0, <1>1, <1>2 DEF DeletedStaysGone
<1>11. ReadyIsStored'
  <2>1. SUFFICES ASSUME NEW x \in Docs \ dropped', job[x] = "ready", chunks[x]
                 PROVE  \E c \in Classes : x \in coll'[c]
    BY <1>1 DEF ReadyIsStored
  <2>2. PICK c \in Classes : x \in coll[c] BY <1>0, <1>1, <2>1 DEF ReadyIsStored
  <2>3. x # d BY <1>1, <2>1
  <2> QED BY <1>2, <2>1, <2>2, <2>3
<1>12. ProcessedWasProcessed' BY <1>0, <1>1 DEF ProcessedWasProcessed
<1> QED BY <1>5, <1>6, <1>7, <1>8, <1>9, <1>10, <1>11, <1>12 DEF IInv

LEMMA DeletePublicStep == ASSUME IInv, DeletePublic PROVE IInv'
<1> DEFINE d == Doc("loop")
<1>0. /\ TypeOK /\ RunInv /\ StoreInv /\ DeleteInv /\ FinishInv
      /\ DeletedStaysGone /\ ReadyIsStored /\ ProcessedWasProcessed
  BY DEF IInv
<1>1. /\ run["loop"].at = "delete"
      /\ DeleteFrom("public", d)
      /\ \/ deleted' = deleted \cup {d} /\ coll'["public"] = coll["public"] \ {d}
         \/ deleted' = deleted
      /\ run' = [run EXCEPT !["loop"] = Idle]
      /\ UNCHANGED <<job, chunks, file, whole, known, incoming, restarts, stored,
                     drawn, source, dropped, ended>>
  BY DEF DeletePublic, Doc
<1>2. d \in dropped /\ d \notin coll["internal"] /\ d \in Docs
  BY <1>0, <1>1 DEF DeleteInv, TypeOK
<1> HIDE DEF d
<1>3. /\ coll' \in [Classes -> SUBSET Docs]
      /\ \A x \in Classes : coll'[x] \subseteq coll[x]
      /\ \A x \in Classes, y \in Docs : y # d /\ y \in coll[x] => y \in coll'[x]
  BY <1>0, <1>1, <1>2, DeleteFromStep
<1>4. /\ run' \in Runs
      /\ run'["loop"].at = "idle"
      /\ run'["watcher"] = run["watcher"]
  BY <1>0, <1>1, PutRun, IdleTyped
<1>5. TypeOK' BY <1>0, <1>1, <1>2, <1>3, <1>4 DEF TypeOK, Runs
<1>6. RunInv'
  <2>1. "idle" \notin Busy /\ "idle" \notin Unstored BY DEF Busy, Unstored
  <2> QED BY <1>0, <1>1, <1>4, <2>1 DEF RunInv, Doc
<1>7. StoreInv' BY <1>0, <1>1, <1>2, <1>3 DEF StoreInv
<1>8. DeleteInv' BY <1>4 DEF DeleteInv
<1>9. FinishInv'
  <2>1. SUFFICES ASSUME NEW o \in Executors, run'[o].at = "finish",
                        chunks[run'[o].doc], run'[o].doc \notin dropped
                 PROVE  \E c \in Classes : run'[o].doc \in coll'[c]
    BY <1>1 DEF FinishInv, Doc
  <2>2. run'[o] = run[o] BY <1>4, <2>1
  <2>3. Doc(o) \in Docs BY <1>0, <2>1, <2>2, BusyDoc DEF Busy
  <2>4. PICK c \in Classes : Doc(o) \in coll[c]
    BY <1>0, <2>1, <2>2 DEF FinishInv, Doc
  <2>5. Doc(o) # d BY <1>2, <2>1, <2>2 DEF Doc
  <2> QED BY <1>3, <2>2, <2>3, <2>4, <2>5 DEF Doc
<1>10. DeletedStaysGone'
  <2>1. CASE deleted' = deleted BY <1>0, <1>3, <2>1 DEF DeletedStaysGone
  <2>2. CASE deleted' = deleted \cup {d} /\ coll'["public"] = coll["public"] \ {d}
    BY <1>0, <1>2, <1>3, <2>2 DEF DeletedStaysGone
  <2> QED BY <1>1, <2>1, <2>2
<1>11. ReadyIsStored'
  <2>1. SUFFICES ASSUME NEW x \in Docs \ dropped, job[x] = "ready", chunks[x]
                 PROVE  \E c \in Classes : x \in coll'[c]
    BY <1>1 DEF ReadyIsStored
  <2>2. PICK c \in Classes : x \in coll[c] BY <1>0, <2>1 DEF ReadyIsStored
  <2>3. x # d BY <1>2, <2>1
  <2> QED BY <1>3, <2>1, <2>2, <2>3
<1>12. ProcessedWasProcessed' BY <1>0, <1>1 DEF ProcessedWasProcessed
<1> QED BY <1>5, <1>6, <1>7, <1>8, <1>9, <1>10, <1>11, <1>12 DEF IInv

-----------------------------------------------------------------------------
(* Steps that leave jobs and collections alone.                            *)

LEMMA QuietStep ==
    ASSUME IInv, TypeOK', ProcessedWasProcessed',
           UNCHANGED <<job, chunks, coll, stored, drawn, dropped, deleted, ended>>,
           known \subseteq known', known' \subseteq known \cup stored,
           \A o \in Executors :
               \/ run'[o] = run[o]
               \/ run'[o].at = "idle"
               \/ run'[o].at \in {"open", "dead"} /\ o = "watcher",
           run'["watcher"].at \notin {"idle", "dead"} => file' \in Files,
           run'["watcher"].at = "move" => file' \in ended
    PROVE  IInv'
<1>0. /\ TypeOK /\ RunInv /\ StoreInv /\ DeleteInv /\ FinishInv
      /\ DeletedStaysGone /\ ReadyIsStored
  BY DEF IInv
<1>1. {"idle", "open", "delete", "dead"} \cap Busy = {} /\ Unstored \subseteq Busy
  BY DEF Busy, Unstored
<1>2. \A o \in Executors : run'[o].at \in Busy => run'[o] = run[o]
  BY <1>1
<1>3. RunInv'
  <2>1. \A o \in Executors : run'[o].at \in Unstored =>
            run'[o].doc \notin stored' /\ run'[o].doc \notin known'
    BY <1>0, <1>1, <1>2 DEF RunInv, Doc
  <2>2. \A o \in Executors : run'[o].at \in Busy =>
            run'[o].doc \in drawn' /\ job'[run'[o].doc] = "processing"
    BY <1>0, <1>2 DEF RunInv, Doc
  <2>3. run'["loop"].at \in Busy /\ run'["watcher"].at \in Busy
            => run'["loop"].doc # run'["watcher"].doc
    BY <1>0, <1>2 DEF RunInv, Doc
  <2>4. /\ run'["loop"].at \notin {"open", "move", "dead"}
        /\ run'["watcher"].at # "delete"
    BY <1>0 DEF RunInv
  <2> QED BY <2>1, <2>2, <2>3, <2>4 DEF RunInv, Doc
<1>4. StoreInv' BY <1>0 DEF StoreInv
<1>5. DeleteInv'
  <2>1. run'["loop"].at = "delete" => run'["loop"] = run["loop"] OBVIOUS
  <2> QED BY <1>0, <2>1 DEF DeleteInv, Doc
<1>6. FinishInv'
  <2>1. \A o \in Executors : run'[o].at = "finish" => run'[o] = run[o] OBVIOUS
  <2> QED BY <1>0, <2>1 DEF FinishInv, Doc
<1>7. DeletedStaysGone' /\ ReadyIsStored' BY <1>0 DEF DeletedStaysGone, ReadyIsStored
<1> QED BY <1>3, <1>4, <1>5, <1>6, <1>7 DEF IInv

LEMMA ListDocumentsStep == ASSUME IInv, ListDocuments PROVE IInv'
<1>1. known' = known \cup coll["internal"] \cup coll["public"] BY DEF ListDocuments
<1>2. UNCHANGED <<job, chunks, coll, run, file, whole, incoming, restarts,
                  stored, drawn, source, dropped, deleted, ended>>
  BY DEF ListDocuments
<1>3. TypeOK' BY <1>1, <1>2 DEF IInv, TypeOK
<1>4. known \subseteq known' /\ known' \subseteq known \cup stored
  BY <1>1 DEF IInv, StoreInv
<1>5. ProcessedWasProcessed' BY <1>2 DEF IInv, ProcessedWasProcessed
<1> QED BY <1>2, <1>3, <1>4, <1>5, QuietStep DEF IInv, RunInv

LEMMA CopyStep ==
    ASSUME IInv, NEW f \in Files, CopyStart(f) \/ CopyEnd(f) PROVE IInv'
<1>1. /\ UNCHANGED <<job, chunks, coll, run, file, whole, known, restarts,
                     stored, drawn, source, dropped, deleted, ended>>
      /\ place' = place \/ place' = [place EXCEPT ![f] = "incoming"]
      /\ arrivals' = arrivals \/ arrivals' = Append(arrivals, f)
      /\ copied' = copied \/ copied' = copied \cup {f}
  BY DEF CopyStart, CopyEnd
<1>2. place' \in [Files -> {"absent", "incoming", "processed", "failed"}]
      /\ \A g \in Files : place'[g] = "processed" => place[g] = "processed"
  BY <1>1 DEF IInv, TypeOK
<1>3. arrivals' \in Seq(Files) /\ copied' \in SUBSET Files
  <2>1. arrivals \in Seq(Files) /\ copied \in SUBSET Files BY DEF IInv, TypeOK
  <2>2. Append(arrivals, f) \in Seq(Files) BY <2>1
  <2> QED BY <1>1, <2>1, <2>2
<1>4. TypeOK' BY <1>1, <1>2, <1>3 DEF IInv, TypeOK
<1>5. ProcessedWasProcessed' BY <1>1, <1>2 DEF IInv, ProcessedWasProcessed
<1> QED BY <1>1, <1>4, <1>5, QuietStep DEF IInv, RunInv

LEMMA OnCreatedStep == ASSUME IInv, OnCreated PROVE IInv'
<1> DEFINE r == [Idle EXCEPT !.at = "open"]
<1>1. /\ arrivals # <<>> /\ file' = Head(arrivals) /\ arrivals' = Tail(arrivals)
      /\ run' = [run EXCEPT !["watcher"] = r]
      /\ UNCHANGED <<job, chunks, coll, whole, known, place, copied, restarts,
                     stored, drawn, source, dropped, deleted, ended>>
  BY DEF OnCreated
<1>2. r \in [at : Points, doc : Docs \cup {NoDoc}, class : Classes] /\ r.at = "open"
  BY DEF Idle, Points
<1>3. TypeOK BY DEF IInv
<1>4. /\ run' \in Runs /\ run'["watcher"].at = "open" /\ run'["loop"] = run["loop"]
  BY <1>1, <1>2, <1>3, PutRun
<1>5. file' \in Files /\ arrivals' \in Seq(Files) BY <1>1, <1>3 DEF TypeOK
<1>6. TypeOK' BY <1>1, <1>3, <1>4, <1>5 DEF TypeOK, Runs
<1>7. ProcessedWasProcessed' BY <1>1 DEF IInv, ProcessedWasProcessed
<1> QED BY <1>1, <1>4, <1>5, <1>6, <1>7, QuietStep

\* The watcher leaves a file, idle or for good; the file lies where it lay or in
\* a folder, in processed/ only if its processing has ended.
LEMMA LeaveFileStep ==
    ASSUME IInv, NEW point \in {"idle", "dead"}, LeaveFile(point),
           NEW target \in {"processed", "failed"},
           place' \in {place, [place EXCEPT ![file] = target]},
           target = "processed" => file \in ended
    PROVE  IInv'
<1> DEFINE r == [Idle EXCEPT !.at = point]
<1>1. /\ file' = NoFile /\ whole' = TRUE
      /\ run' = [run EXCEPT !["watcher"] = r]
      /\ UNCHANGED <<job, chunks, coll, known, copied, arrivals, restarts,
                     stored, drawn, source, dropped, deleted, ended>>
  BY DEF LeaveFile
<1>2. TypeOK BY DEF IInv
<1>r. r \in [at : Points, doc : Docs \cup {NoDoc}, class : Classes] /\ r.at = point
  BY DEF Idle, Points
<1>3. run' \in Runs /\ run'["watcher"].at = point /\ run'["loop"] = run["loop"]
  <2> HIDE DEF r
  <2> QED BY <1>1, <1>2, <1>r, PutRun
<1>4. place' \in [Files -> {"absent", "incoming", "processed", "failed"}]
  BY <1>2 DEF TypeOK
<1>5. TypeOK' BY <1>1, <1>2, <1>3, <1>4 DEF TypeOK, Runs
<1>6. ProcessedWasProcessed'
  BY <1>1, <1>2 DEF IInv, TypeOK, ProcessedWasProcessed
<1> QED BY <1>1, <1>3, <1>5, <1>6, QuietStep

LEMMA MoveFileStep == ASSUME IInv, MoveFile PROVE IInv'
<1>1. /\ run["watcher"].at = "move"
      /\ place' = [place EXCEPT ![file] = "processed"]
      /\ LeaveFile("idle")
  BY DEF MoveFile
<1>2. file \in ended BY <1>1 DEF IInv, RunInv
<1> QED BY <1>1, <1>2, LeaveFileStep

LEMMA GiveUpStep == ASSUME IInv, GiveUp PROVE IInv'
<1>1. place' \in {place, [place EXCEPT ![file] = "failed"]}
  BY DEF GiveUp
<1>2. LeaveFile("idle") \/ LeaveFile("dead") BY DEF GiveUp
<1> QED BY <1>1, <1>2, LeaveFileStep

LEMMA RestartStep == ASSUME IInv, Restart PROVE IInv'
<1>1. /\ restarts' \in 0..MaxRestarts
      /\ job' = [d \in Docs |-> "none"]
      /\ chunks' = [d \in Docs |-> FALSE]
      /\ run' = [e \in Executors |-> Idle]
      /\ file' = NoFile /\ arrivals' = <<>> /\ whole' = TRUE
      /\ UNCHANGED <<coll, known, place, copied, stored, drawn, source,
                     dropped, deleted, ended>>
  BY IngestAssumption DEF Restart, IInv, TypeOK
<1>2. run' \in Runs /\ \A e \in Executors : run'[e].at = "idle"
  BY <1>1, IdleTyped DEF Runs
<1>3. TypeOK'
  <2>1. job' \in [Docs -> {"none", "processing", "ready", "failed"}] BY <1>1
  <2>2. chunks' \in [Docs -> BOOLEAN] BY <1>1
  <2>3. arrivals' \in Seq(Files) BY <1>1
  <2> QED BY <1>1, <1>2, <2>1, <2>2, <2>3 DEF IInv, TypeOK, Runs
<1>4. RunInv' BY <1>2 DEF RunInv, Busy, Unstored
<1>5. StoreInv' BY <1>1 DEF IInv, StoreInv
<1>6. DeleteInv' /\ FinishInv' BY <1>2 DEF DeleteInv, FinishInv
<1>7. DeletedStaysGone' BY <1>1 DEF IInv, DeletedStaysGone
<1>8. ReadyIsStored' BY <1>1 DEF ReadyIsStored
<1>9. ProcessedWasProcessed' BY <1>1 DEF IInv, ProcessedWasProcessed
<1> QED BY <1>3, <1>4, <1>5, <1>6, <1>7, <1>8, <1>9 DEF IInv

-----------------------------------------------------------------------------
LEMMA NextIInv == IInv /\ [Next]_vars => IInv'
<1> SUFFICES ASSUME IInv, [Next]_vars PROVE IInv' OBVIOUS
<1>1. ASSUME NEW d \in UploadDocs, NEW class \in Classes, Upload(d, class) PROVE IInv'
  <2>1. /\ run["loop"].at = "idle" /\ Begin("loop", d, class) /\ d \in Docs
        /\ UNCHANGED <<chunks, coll, file, whole, known, incoming, restarts, stored,
                       source, dropped, deleted, ended>>
    BY <1>1 DEF Upload, Docs
  <2>2. whole' \in BOOLEAN /\ source' \in [Docs -> Files \cup {NoFile}]
    BY <2>1 DEF IInv, TypeOK
  <2> QED BY <2>1, <2>2, BeginStep
<1>2. ASSUME NEW d \in WatcherDocs, OpenFile(d) PROVE IInv'
  <2>1. /\ run["watcher"].at = "open" /\ Begin("watcher", d, "public") /\ d \in Docs
        /\ whole' = (file \in copied)
        /\ source' = [source EXCEPT ![d] = file]
        /\ UNCHANGED <<chunks, coll, file, known, incoming, restarts, stored,
                       dropped, deleted, ended>>
    BY <1>2 DEF OpenFile, Docs
  <2>2. file \in Files BY <2>1 DEF IInv, RunInv
  <2>3. whole' \in BOOLEAN /\ source' \in [Docs -> Files \cup {NoFile}]
    BY <2>1, <2>2 DEF IInv, TypeOK
  <2> QED BY <2>1, <2>2, <2>3, BeginStep
<1>3. ASSUME NEW d \in Docs, DeleteInternal(d) PROVE IInv' BY <1>3, DeleteInternalStep
<1>4. CASE DeletePublic BY <1>4, DeletePublicStep
<1>5. CASE ListDocuments BY <1>5, ListDocumentsStep
<1>6. ASSUME NEW e \in Executors, Convert(e) \/ Upsert(e) \/ Return(e) PROVE IInv'
  BY <1>6, ConvertStep, UpsertStep, ReturnStep
<1>7. CASE OnCreated BY <1>7, OnCreatedStep
<1>8. CASE MoveFile \/ GiveUp BY <1>8, MoveFileStep, GiveUpStep
<1>9. ASSUME NEW f \in Files, CopyStart(f) \/ CopyEnd(f) PROVE IInv' BY <1>9, CopyStep
<1>10. CASE Restart BY <1>10, RestartStep
<1>11. CASE UNCHANGED vars
  <2>1. TypeOK' BY <1>11 DEF IInv, TypeOK, vars
  <2>2. ProcessedWasProcessed' BY <1>11 DEF IInv, ProcessedWasProcessed, vars
  <2> QED BY <1>11, <2>1, <2>2, QuietStep DEF IInv, RunInv, vars
<1>12. CASE LoopStep BY <1>4, <1>6, <1>12 DEF LoopStep
<1>13. CASE WatcherStep BY <1>2, <1>6, <1>7, <1>8, <1>13 DEF WatcherStep
<1> QED BY <1>1, <1>3, <1>5, <1>9, <1>10, <1>11, <1>12, <1>13 DEF Next

LEMMA Invariance == Spec => []IInv
BY InitIInv, NextIInv, PTL DEF Spec

\* Every variable keeps its type.
THEOREM TypeCorrect == Spec => []TypeOK
<1>1. IInv => TypeOK BY DEF IInv
<1> QED BY <1>1, Invariance, PTL

\* A deletion that was answered with "deleted" (main.py:163) is final, however
\* uploads, the watcher, failing calls and restarts run beside and after it.
THEOREM DeletionIsFinal == Spec => []DeletedStaysGone
<1>1. IInv => DeletedStaysGone BY DEF IInv
<1> QED BY <1>1, Invariance, PTL

\* A job that says "ready" with chunks has its chunks in Chroma unless somebody
\* deletes the document (main.py:98-103).
THEOREM ReadyIsSearchable == Spec => []ReadyIsStored
<1>1. IInv => ReadyIsStored BY DEF IInv
<1> QED BY <1>1, Invariance, PTL

\* The watcher puts no file into processed/ that process_document has not
\* returned for (watcher.py:23-26).
THEOREM OnlyProcessedMoved == Spec => []ProcessedWasProcessed
<1>1. IInv => ProcessedWasProcessed BY DEF IInv
<1> QED BY <1>1, Invariance, PTL

-----------------------------------------------------------------------------
(* Ingest implements Library.                                              *)

\* The shelf is read off the collections and the history of stored documents.
LEMMA ShelfUnchanged ==
    ASSUME UNCHANGED <<coll, stored>> PROVE Shelf' = Shelf
BY DEF Shelf

LEMMA UpsertShelf ==
    ASSUME IInv, NEW e \in Executors, Upsert(e)
    PROVE  Lib!Next \/ Shelf' = Shelf
<1>1. TypeOK /\ RunInv /\ StoreInv BY DEF IInv
<1>2. run[e].at = "upsert" BY DEF Upsert
<1>3. Doc(e) \in Docs /\ Doc(e) \notin stored
  BY <1>1, <1>2, BusyDoc DEF RunInv, Busy, Unstored
<1>4. PICK done \in BOOLEAN :
          /\ coll' = IF done
                     THEN [coll EXCEPT ![run[e].class] = @ \cup {Doc(e)}]
                     ELSE coll
          /\ stored' = IF done THEN stored \cup {Doc(e)} ELSE stored
  BY DEF Upsert, Doc
<1>5. CASE ~done BY <1>4, <1>5, ShelfUnchanged
<1>6. CASE done
  <2>1. coll \in [Classes -> SUBSET Docs] /\ run[e].class \in Classes
    BY <1>1 DEF TypeOK
  <2>2. \A c \in Classes :
           coll'[c] = IF c = run[e].class THEN coll[c] \cup {Doc(e)} ELSE coll[c]
    BY <1>4, <1>6, <2>1
  <2>3. \A c \in Classes : Doc(e) \notin coll[c] BY <1>1, <1>3 DEF StoreInv
  <2>4. Shelf[Doc(e)] = "never" BY <1>3, <2>3 DEF Shelf
  <2>5. Shelf' = [Shelf EXCEPT ![Doc(e)] = "stored"]
    <3>1. ASSUME NEW d \in Docs, d # Doc(e) PROVE Shelf'[d] = Shelf[d]
      BY <1>4, <1>6, <2>2, <3>1 DEF Shelf
    <3>2. Shelf'[Doc(e)] = "stored" BY <1>3, <2>1, <2>2 DEF Shelf
    <3>3. Shelf = [d \in Docs |-> Shelf[d]] /\ Shelf' = [d \in Docs |-> Shelf'[d]]
      BY DEF Shelf
    <3> QED BY <3>1, <3>2, <3>3
  <2>6. Lib!Store(Doc(e)) BY <2>4, <2>5 DEF Lib!Store
  <2> QED BY <1>3, <2>6 DEF Lib!Next
<1> QED BY <1>5, <1>6

LEMMA DeleteShelf ==
    ASSUME IInv, NEW c \in Classes, NEW d \in Docs, DeleteFrom(c, d),
           stored' = stored
    PROVE  Lib!Next \/ Shelf' = Shelf
<1>1. TypeOK /\ StoreInv BY DEF IInv
<1>2. \A x \in Docs : x # d => \A k \in Classes : x \in coll'[k] <=> x \in coll[k]
  <2>1. coll \in [Classes -> SUBSET Docs] BY <1>1 DEF TypeOK
  <2> QED BY <2>1 DEF DeleteFrom
<1>3. \A k \in Classes : d \in coll'[k] => d \in coll[k]
  <2>1. coll \in [Classes -> SUBSET Docs] BY <1>1 DEF TypeOK
  <2> QED BY <2>1 DEF DeleteFrom
<1>4. ASSUME NEW x \in Docs, x # d PROVE Shelf'[x] = Shelf[x]
  BY <1>2, <1>4 DEF Shelf
<1>5. Shelf = [x \in Docs |-> Shelf[x]] /\ Shelf' = [x \in Docs |-> Shelf'[x]]
  BY DEF Shelf
<1>6. CASE Shelf'[d] = Shelf[d] BY <1>4, <1>5, <1>6
<1>7. CASE Shelf'[d] # Shelf[d]
  <2>1. PICK k \in Classes : d \in coll[k] BY <1>3, <1>7 DEF Shelf
  <2>2. d \in stored BY <1>1, <2>1 DEF StoreInv
  <2>3. Shelf[d] = "stored" BY <2>1 DEF Shelf
  <2>4. Shelf'[d] = "gone" BY <1>7, <2>2, <2>3 DEF Shelf
  <2>5. Shelf' = [Shelf EXCEPT ![d] = "gone"] BY <1>4, <1>5, <2>4
  <2>6. Lib!Remove(d) BY <2>3, <2>5 DEF Lib!Remove
  <2> QED BY <2>6 DEF Lib!Next
<1> QED BY <1>6, <1>7

\* The two collections are one store in which every document is put at most
\* once and to which none returns: every upload, deletion, watcher step, lost
\* answer and restart is a step of Library or leaves the shelf alone.
THEOREM Implements == Spec => ImplementsLibrary
<1>1. Init => Lib!Init BY DEF Init, Lib!Init, Shelf
<1>2. IInv /\ [Next]_vars => [Lib!Next]_Shelf
  <2> SUFFICES ASSUME IInv, [Next]_vars PROVE Lib!Next \/ Shelf' = Shelf OBVIOUS
  <2>1. ASSUME NEW e \in Executors, Upsert(e) PROVE Lib!Next \/ Shelf' = Shelf
    BY <2>1, UpsertShelf
  <2>2. ASSUME NEW d \in Docs, DeleteInternal(d) PROVE Lib!Next \/ Shelf' = Shelf
    BY <2>2, DeleteShelf DEF DeleteInternal
  <2>3. CASE DeletePublic
    <3>1. Doc("loop") \in Docs BY <2>3 DEF DeletePublic, IInv, DeleteInv, TypeOK
    <3> QED BY <2>3, <3>1, DeleteShelf DEF DeletePublic, Doc
  <2>4. ASSUME NEW e \in Executors, Convert(e) \/ Return(e) PROVE Shelf' = Shelf
    BY <2>4, ShelfUnchanged DEF Convert, Return
  <2>5. ASSUME NEW d \in Docs, NEW class \in Classes, Upload(d, class) \/ OpenFile(d)
        PROVE  Shelf' = Shelf
    BY <2>5, ShelfUnchanged DEF Upload, OpenFile
  <2>6. CASE ListDocuments \/ OnCreated \/ Restart \/ UNCHANGED vars
    BY <2>6, ShelfUnchanged DEF ListDocuments, OnCreated, Restart, vars
  <2>7. CASE MoveFile \/ GiveUp BY <2>7, ShelfUnchanged DEF MoveFile, GiveUp, LeaveFile
  <2>8. ASSUME NEW f \in Files, CopyStart(f) \/ CopyEnd(f) PROVE Shelf' = Shelf
    BY <2>8, ShelfUnchanged DEF CopyStart, CopyEnd
  <2>9. CASE LoopStep BY <2>1, <2>3, <2>4, <2>9 DEF LoopStep
  <2>10. CASE WatcherStep
    <3>1. WatcherDocs \subseteq Docs BY DEF Docs
    <3> QED BY <2>1, <2>4, <2>5, <2>6, <2>7, <2>10, <3>1 DEF WatcherStep
  <2>11. UploadDocs \subseteq Docs BY DEF Docs
  <2> QED BY <2>2, <2>5, <2>6, <2>8, <2>9, <2>10, <2>11 DEF Next
<1> QED BY <1>1, <1>2, Invariance, PTL DEF Spec, ImplementsLibrary, Lib!Spec
=============================================================================
