----------------------------- MODULE SessionLog -----------------------------
(***************************************************************************)
(* The recording of one terminal session (session-log.js, fed by           *)
(* appendSessionOutput).                                                   *)
(*                                                                         *)
(* begin() puts an entry into the map and then waits for the directory, so *)
(* output that comes meanwhile is held in the entry; end(), remove() and   *)
(* the readers suspend at file operations of their own.  A chunk of output *)
(* is one unit of the cap and is known by its position; every begin() of   *)
(* the session is one recording in Rec, its entry object outliving the map *)
(* it was removed from.                                                    *)
(***************************************************************************)
EXTENDS Naturals, Sequences, SequencesExt

CONSTANTS MaxOut,    \* bound: chunks of output
          Cap,       \* limits.maxSessionBytes, in chunks
          MaxRec     \* bound: begin() calls

ASSUME LogAssumption == MaxOut \in Nat /\ Cap \in Nat /\ MaxRec \in Nat \ {0}

VARIABLES
    shell,      \* "open", "closing" (closeSession, EOF sent), "closed"
    shown,      \* chunks handed to the terminal journal
    entry,      \* the entry object of each recording
    write,      \* the write stream of each recording
    inMap,      \* this.entries and this.streams: recording or 0
    flushed,    \* this.pending: the last write a reader waits for
    file,       \* the .log file, <<>> when empty, NoFile when absent
    meta,       \* the sidecar, or NoMeta
    metaQueue,  \* writeMeta calls in flight: what they will write
    ender,      \* the end() calls of closeSession and of recordExit
    remover,    \* the remove() call of sessionLogDelete
    reader      \* one sessionLogRead call

storeVars == <<shell, shown, entry, write, inMap, flushed, file, meta,
               metaQueue, ender, remover, reader>>

Rec == 1..MaxRec
NoFile == <<0>>
NoMeta == [ended |-> FALSE, bytes |-> MaxOut + 1]
Exists == file # NoFile

NewEntry == [at |-> "preparing", bytes |-> 0, truncated |-> FALSE,
             pending |-> <<>>, ended |-> FALSE]
NewStream(q) == [at |-> "opening", queue |-> q, ending |-> FALSE,
                 written |-> 0]
NoEnd == [at |-> "idle", rec |-> 0, stream |-> 0, early |-> FALSE]

LogTypeOK ==
    /\ shell \in {"open", "closing", "closed"}
    /\ shown \in 0..MaxOut
    /\ \A i \in Rec : /\ entry[i].at \in {"none", "preparing", "begun"}
                      /\ entry[i].bytes \in 0..Cap
                      /\ write[i].at \in {"none", "opening", "open",
                                          "unlinked", "closed"}
    /\ inMap.entry \in 0..MaxRec /\ inMap.stream \in 0..MaxRec
    /\ flushed.rec \in 0..MaxRec /\ flushed.upTo \in 0..MaxOut
    /\ Len(metaQueue) <= MaxRec + 2
    /\ remover \in {"idle", "log", "sidecar", "done"}
    /\ reader.at \in {"idle", "flush", "stat", "done", "failed"}

LogInit ==
    /\ shell = "open" /\ shown = 0
    /\ entry = [i \in Rec |-> [NewEntry EXCEPT !.at = "none"]]
    /\ write = [i \in Rec |-> [NewStream(<<>>) EXCEPT !.at = "none"]]
    /\ inMap = [entry |-> 0, stream |-> 0]
    /\ flushed = [rec |-> 0, upTo |-> 0]
    /\ file = NoFile /\ meta = NoMeta /\ metaQueue = <<>>
    /\ ender = [e \in {"close", "exit"} |-> NoEnd]
    /\ remover = "idle"
    /\ reader = [at |-> "idle", need |-> 0, wait |-> flushed, got |-> <<>>]

-----------------------------------------------------------------------------
(***************************************************************************)
(* Recording.                                                              *)
(***************************************************************************)
PutUncapped(i, e, chunk) ==     \* faulty variant: the cap is not looked at
    LET to == inMap.stream
    IN /\ entry' = [entry EXCEPT ![i] = [e EXCEPT
              !.bytes = @ + 1,
              !.pending = IF to # 0 THEN @ ELSE Append(@, chunk)]]
       /\ write' = IF to = 0 THEN write
                   ELSE [write EXCEPT ![to].queue = Append(@, chunk)]
       /\ flushed' = IF to = 0 THEN flushed ELSE [rec |-> to, upTo |-> chunk]

\* append(): within the cap the chunk goes to the stream in the map, or is
\* held in the entry until begin() has one.
Put(i, e, chunk) ==
    LET over == e.truncated \/ e.bytes >= Cap
        to == inMap.stream
    IN /\ entry' = [entry EXCEPT ![i] = [e EXCEPT
              !.truncated = e.bytes + 1 >= Cap,
              !.bytes = IF over THEN @ ELSE @ + 1,
              !.pending = IF over \/ to # 0 THEN @ ELSE Append(@, chunk)]]
       /\ write' = IF over \/ to = 0 THEN write
                   ELSE [write EXCEPT ![to].queue = Append(@, chunk)]
       /\ flushed' = IF over \/ to = 0 THEN flushed
                     ELSE [rec |-> to, upTo |-> chunk]

\* appendSessionOutput: begin a recording if none is in the map, then append.
Output ==
    /\ shell # "closed" /\ shown < MaxOut
    /\ shown' = shown + 1
    /\ \/ /\ inMap.entry # 0
          /\ Put(inMap.entry, entry[inMap.entry], shown + 1)
          /\ UNCHANGED inMap
       \/ /\ inMap.entry = 0
          /\ \E i \in Rec :
                /\ entry[i].at = "none"
                /\ \A j \in 1..(i - 1) : entry[j].at # "none"
                /\ inMap' = [inMap EXCEPT !.entry = i]
                /\ Put(i, NewEntry, shown + 1)
    /\ UNCHANGED <<shell, file, meta, metaQueue, ender, remover, reader>>

MetaOf(i, ended) == [ended |-> ended, bytes |-> entry[i].bytes]

\* begin() after the directory exists: the stream, the replay, the sidecar.
Prepared(i) ==
    /\ entry[i].at = "preparing"
    /\ entry' = [entry EXCEPT ![i].at = "begun", ![i].pending = <<>>]
    /\ write' = [write EXCEPT ![i] = NewStream(entry[i].pending)]
    /\ inMap' = [inMap EXCEPT !.stream = i]
    /\ flushed' = IF entry[i].pending = <<>> THEN flushed
                  ELSE [rec |-> i, upTo |-> Last(entry[i].pending)]
    /\ metaQueue' = Append(metaQueue, MetaOf(i, entry[i].ended))
    /\ UNCHANGED <<shell, shown, file, meta, ender, remover, reader>>

\* One step of the file system for a write stream: open, write, close.
Drain(i) ==
    LET w == write[i] IN
    /\ \/ /\ w.at = "opening"
          /\ file' = IF Exists THEN file ELSE <<>>
          /\ write' = [write EXCEPT ![i].at = "open"]
       \/ /\ w.at \in {"open", "unlinked"} /\ w.queue # <<>>
          /\ file' = IF w.at = "open" THEN Append(file, Head(w.queue))
                     ELSE file
          /\ write' = [write EXCEPT ![i].queue = Tail(@),
                                    ![i].written = Head(w.queue)]
       \/ /\ w.at \in {"open", "unlinked"} /\ w.queue = <<>> /\ w.ending
          /\ write' = [write EXCEPT ![i].at = "closed"]
          /\ UNCHANGED file
    /\ UNCHANGED <<shell, shown, entry, inMap, flushed, meta, metaQueue,
                   ender, remover, reader>>

\* A sidecar write lands; two in flight land in either order.
MetaLands ==
    /\ \E k \in DOMAIN metaQueue :
          /\ meta' = metaQueue[k]
          /\ metaQueue' = RemoveAt(metaQueue, k)
    /\ UNCHANGED <<shell, shown, entry, write, inMap, flushed, file, ender,
                   remover, reader>>

-----------------------------------------------------------------------------
(***************************************************************************)
(* Ending: closeSession ends the log and then the shell; the shell's close *)
(* event ends it through recordExit unless closeSession marked the exit.   *)
(***************************************************************************)
Settled(i) == i # 0 /\ entry[i].at = "begun" /\ metaQueue = <<>>

\* end() from the closing of the stream on: the entry leaves the map,
\* whoever put it there, and the final metadata is written.
Finish(rec) ==
    /\ flushed' = [rec |-> 0, upTo |-> 0]
    /\ IF rec = 0 THEN UNCHANGED <<entry, metaQueue>>
       ELSE /\ entry' = [entry EXCEPT ![rec].ended = TRUE]
            /\ metaQueue' = Append(metaQueue, MetaOf(rec, TRUE))

EndInPlace(e) ==             \* faulty variant: the stream is not closed
    /\ ender' = [ender EXCEPT ![e] = [at |-> "done", rec |-> inMap.entry,
                                      stream |-> 0,
                                      early |-> ~Settled(inMap.entry)]]
    /\ inMap' = [entry |-> 0, stream |-> 0]
    /\ Finish(inMap.entry)
    /\ UNCHANGED write

\* end(): without a stream it runs to the end, else it waits for the close.
EndLog(e) ==
    LET wait == inMap.stream # 0 IN
    /\ ender' = [ender EXCEPT ![e] = [at |-> IF wait THEN "draining" ELSE "done",
                                      rec |-> inMap.entry,
                                      stream |-> inMap.stream,
                                      early |-> ~Settled(inMap.entry)]]
    /\ inMap' = [entry |-> IF wait THEN inMap.entry ELSE 0, stream |-> 0]
    /\ IF wait THEN /\ write' = [write EXCEPT ![inMap.stream].ending = TRUE]
                    /\ UNCHANGED <<entry, metaQueue, flushed>>
       ELSE Finish(inMap.entry) /\ UNCHANGED write

CloseSession ==
    /\ shell = "open"
    /\ shell' = "closing"
    /\ EndLog("close")
    /\ UNCHANGED <<shown, file, meta, remover, reader>>

ShellClosed ==
    /\ shell # "closed"
    /\ shell' = "closed"
    /\ IF shell = "open" THEN EndLog("exit")
       ELSE UNCHANGED <<ender, inMap, write, entry, metaQueue, flushed>>
    /\ UNCHANGED <<shown, file, meta, remover, reader>>

\* closeSession of a shell that has already exited ends the log once more.
CloseExited ==
    /\ shell = "closed" /\ ender["exit"].at # "idle"
    /\ ender["close"].at = "idle"
    /\ EndLog("close")
    /\ UNCHANGED <<shell, shown, file, meta, remover, reader>>

EndDrained(e) ==
    /\ ender[e].at = "draining" /\ write[ender[e].stream].at = "closed"
    /\ ender' = [ender EXCEPT ![e].at = "done"]
    /\ inMap' = IF ender[e].rec = 0 THEN inMap ELSE [inMap EXCEPT !.entry = 0]
    /\ Finish(ender[e].rec)
    /\ UNCHANGED <<shell, shown, write, file, meta, remover, reader>>

-----------------------------------------------------------------------------
(***************************************************************************)
(* remove(): stream destroyed, entry out of the map, then the two files.   *)
(***************************************************************************)
RemoveRecording ==
    /\ remover = "idle"
    /\ remover' = "log"
    /\ write' = IF inMap.stream = 0 THEN write
                ELSE [write EXCEPT ![inMap.stream].at = "closed",
                                   ![inMap.stream].queue = <<>>]
    /\ inMap' = [entry |-> 0, stream |-> 0]
    /\ UNCHANGED <<shell, shown, entry, flushed, file, meta, metaQueue,
                   ender, reader>>

RemoveLog ==
    /\ remover = "log"
    /\ remover' = "sidecar"
    /\ file' = NoFile
    /\ write' = [i \in Rec |-> IF write[i].at = "open"
                               THEN [write[i] EXCEPT !.at = "unlinked"]
                               ELSE write[i]]
    /\ UNCHANGED <<shell, shown, entry, inMap, flushed, meta, metaQueue,
                   ender, reader>>

RemoveSidecar ==
    /\ remover = "sidecar"
    /\ remover' = "done"
    /\ meta' = NoMeta
    /\ UNCHANGED <<shell, shown, entry, write, inMap, flushed, file,
                   metaQueue, ender, reader>>

-----------------------------------------------------------------------------
(***************************************************************************)
(* read() and snapshot(): wait for the last append, look at the size, read *)
(* that many bytes.                                                        *)
(***************************************************************************)
ReadStart ==
    /\ reader.at = "idle"
    /\ reader' = [at |-> "flush", wait |-> flushed, got |-> <<>>,
                  need |-> IF Settled(inMap.entry)
                           THEN entry[inMap.entry].bytes ELSE 0]
    /\ UNCHANGED <<shell, shown, entry, write, inMap, flushed, file, meta,
                   metaQueue, ender, remover>>

Reached(w) ==
    w.rec # 0 => \/ write[w.rec].written >= w.upTo
                 \/ write[w.rec].at = "closed"

ReadFlushed ==
    /\ reader.at = "flush" /\ Reached(reader.wait)
    /\ reader' = [reader EXCEPT
                    !.at = IF Exists THEN "done" ELSE "failed",
                    !.got = IF Exists THEN file ELSE <<>>]
    /\ UNCHANGED <<shell, shown, entry, write, inMap, flushed, file, meta,
                   metaQueue, ender, remover>>

LogNext ==
    \/ Output \/ MetaLands
    \/ \E i \in Rec : Prepared(i) \/ Drain(i)
    \/ CloseSession \/ ShellClosed \/ CloseExited
    \/ \E e \in {"close", "exit"} : EndDrained(e)
    \/ RemoveRecording \/ RemoveLog \/ RemoveSidecar
    \/ ReadStart \/ ReadFlushed

-----------------------------------------------------------------------------
Recorded(n) == [k \in 1..(IF n > Cap THEN Cap ELSE n) |-> k]
Undisturbed == remover = "idle" /\ ender["close"].at = "idle"

(***************************************************************************)
(* As long as nobody deletes the recording or closes the tab, what is in   *)
(* the file, in the stream and held in the entry is exactly what the panel *)
(* showed, in order, up to the cap; and a read that starts once begin() is *)
(* done returns everything appended before it started.                     *)
(***************************************************************************)
LogIsWhatWasShown ==
    /\ Undisturbed /\ inMap.entry # 0 =>
          LET i == inMap.entry IN
          /\ (IF Exists THEN file ELSE <<>>) \o write[i].queue
                \o entry[i].pending = Recorded(shown)
          /\ entry[i].truncated <=> shown >= Cap
    /\ reader.at \in {"done", "failed"} /\ Undisturbed =>
          Len(reader.got) >= reader.need

(***************************************************************************)
(* A shell that exits after begin() finished leaves a closed, complete     *)
(* file and a sidecar that says so, also when its tab is closed later.     *)
(***************************************************************************)
EndedLogIsFinal ==
    /\ remover = "idle"
    /\ ender["exit"].at = "done" /\ ~ender["exit"].early
    /\ ender["close"].at \in {"idle", "done"} /\ metaQueue = <<>>
    => /\ file = Recorded(shown)
       /\ meta.ended /\ meta.bytes = Len(file)
       /\ \A i \in Rec : write[i].at \in {"none", "closed"}

=============================================================================
