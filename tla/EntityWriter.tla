---------------------------- MODULE EntityWriter ----------------------------
(***************************************************************************)
(* The governed write path of documents: create_entity (serialize, persist,*)
(* watermark, register, or roll back) and uacp_artifact_write, with the    *)
(* watermark index of each run and the artifact_integrity check that       *)
(* compares the index with the files when a run is closed.                 *)
(*                                                                         *)
(* Each run has one agent that writes for it (entity_writer.py assumes a   *)
(* single writer per run), so a process is named by its run, and the reads *)
(* a call makes of its own run's files before its first write are one step *)
(* with its start.  Between its writes anything else may happen: the run   *)
(* is aborted, another run's agent writes, somebody edits the very file    *)
(* without the writer, the process is killed.                              *)
(***************************************************************************)
EXTENDS FiniteSets

CONSTANTS
    Runs,
    Checks, Docs,   \* a run's own documents: frozen checks (uacp.check.*) and others
    Corpus,         \* the directory of files that belong to no run (knowledge/, lessons/)
    Shared,         \* its files
    Ids, Bodies,    \* a document's text: the id it declares, and the rest
    NoText,         \* no file, no watermark, no writer
    Crashers,       \* runs whose agent may be killed in the middle of a call
    Stories,        \* bound: the sets of documents that are written in one behaviour
    Edits           \* the names of the documents that are also edited by hand

ASSUME EntityWriterAssumption ==
    /\ {Corpus, NoText} \cap Runs = {}
    /\ NoText \notin Ids \X Bodies
    /\ Checks \cap Docs = {} /\ Crashers \subseteq Runs /\ Edits \subseteq Checks \cup Docs \cup Shared

VARIABLES
    story,       \* the documents of this behaviour
    file,        \* every governed document
    marks,       \* per run, the watermarks of state/hashes/{run}.json
    registered,  \* per run, the paths in manifest.artifacts
    aborted,     \* the runs whose manifest is frozen
    pc, job,     \* per run, the call its agent is in
    last,        \* history: the text of the last write of a path its run completed
    since,       \* history: what happened to a file after the last completed write
    by           \* history: the run whose call changed a file last, NoText for anybody else

vars == <<story, file, marks, registered, aborted, pc, job, last, since, by>>

Texts == Ids \X Bodies
Own(r) == {r} \X (Checks \cup Docs)
Paths == (Runs \X (Checks \cup Docs)) \cup ({Corpus} \X Shared)
IsCheck(p) == p[2] \in Checks
NoMarks == [p \in Paths |-> NoText]
NoJob == [path |-> NoText, text |-> NoText, file |-> NoText, marks |-> NoMarks]

TypeOK ==
    /\ file \in [Paths -> Texts \cup {NoText}]
    /\ marks \in [Runs -> [Paths -> Texts \cup {NoText}]]
    /\ registered \in [Runs -> SUBSET Paths] /\ aborted \subseteq Runs
    /\ pc \in [Runs -> {"idle", "write", "mark", "register", "undo-file", "undo-marks",
                        "raw-write", "raw-mark"}]
    /\ \A r \in Runs :
          /\ job[r].path \in Paths \cup {NoText}
          /\ {job[r].text, job[r].file} \subseteq Texts \cup {NoText}
          /\ pc[r] # "idle" => job[r].path \in Paths /\ job[r].text \in Texts
    /\ last \in [Runs -> [Paths -> Texts \cup {NoText}]]
    /\ since \in [Paths -> {"written", "edited", "cut"}]
    /\ by \in [Paths -> Runs \cup {NoText}] /\ story \in Stories

Init ==
    /\ file = NoMarks /\ marks = [r \in Runs |-> NoMarks]
    /\ registered = [r \in Runs |-> {}] /\ aborted = {}
    /\ pc = [r \in Runs |-> "idle"] /\ job = [r \in Runs |-> NoJob]
    /\ last = [r \in Runs |-> NoMarks] /\ since = [p \in Paths |-> "written"]
    /\ by = [p \in Paths |-> NoText] /\ story \in Stories

Goto(r, label) == pc' = [pc EXCEPT ![r] = label]
Return(r)      == Goto(r, "idle") /\ job' = [job EXCEPT ![r] = NoJob]

\* The call's write is complete.  The file is what the governed writer made it,
\* unless somebody changed it since the call wrote it.
Completed(r) ==
    /\ last' = [last EXCEPT ![r][job[r].path] = job[r].text]
    /\ since' = [since EXCEPT ![job[r].path] = IF by[job[r].path] = r THEN "written" ELSE @]
    /\ UNCHANGED by

\* The call changes its file.
Puts(r, text) ==
    /\ file' = [file EXCEPT ![job[r].path] = text]
    /\ by' = [by EXCEPT ![job[r].path] = r]

-----------------------------------------------------------------------------
\* _duplicate_check_id_path: a registered check at another path, as its file
\* reads now, declares the same id.
AnyId(r, p, text) == FALSE                 \* mutation: ids are not compared
DuplicateId(r, p, text) ==
    \E q \in registered[r] \ {p} : IsCheck(q) /\ file[q] # NoText /\ file[q][1] = text[1]

\* A frozen check is written once: its watermark decides, not the bytes on
\* disk, and a file without a watermark cannot be vouched for.
ChangedOnDisk(r, p, text) == file[p] # NoText /\ text # file[p]   \* mutation: compares the file
Frozen(r, p, text) ==
    IF marks[r][p] # NoText THEN text # marks[r][p] ELSE file[p] # NoText

\* create_entity up to its first write: the refusals, and the snapshot that a
\* rollback restores.
Author(r, p, text) ==
    /\ pc[r] = "idle" /\ p \in Own(r) \cap story
    /\ IsCheck(p) => ~DuplicateId(r, p, text) /\ ~Frozen(r, p, text)
    /\ job' = [job EXCEPT ![r] = [path |-> p, text |-> text, file |-> file[p], marks |-> marks[r]]]
    /\ Goto(r, "write")
    /\ UNCHANGED <<file, marks, registered, aborted, last, since, by>>

Persist(r) ==
    /\ pc[r] = "write"
    /\ Puts(r, job[r].text)
    /\ Goto(r, "mark")
    /\ UNCHANGED <<marks, registered, aborted, job, last, since>>

RecordHash(r) ==
    /\ pc[r] = "mark"
    /\ marks' = [marks EXCEPT ![r][job[r].path] = job[r].text]
    /\ Goto(r, "register")
    /\ UNCHANGED <<file, registered, aborted, job, last, since, by>>

\* handle_register_artifact refuses an aborted run, under the run lock.
Register(r) ==
    /\ pc[r] = "register" /\ r \notin aborted
    /\ registered' = [registered EXCEPT ![r] = @ \cup {job[r].path}]
    /\ Completed(r) /\ Return(r)
    /\ UNCHANGED <<file, marks, aborted>>

\* Any of the three may raise or be refused, and leaves no trace of its own.
StepFails(r) ==
    /\ pc[r] \in {"write", "mark", "register"}
    /\ Goto(r, "undo-file")
    /\ UNCHANGED <<file, marks, registered, aborted, job, last, since, by>>

\* _rollback.  Removing a file that is not there raises, and ends it early: the
\* index keeps the mark of a write that is no more if somebody else removed the file.
UndoFile(r) ==
    LET p == job[r].path IN
    /\ pc[r] = "undo-file"
    /\ Puts(r, job[r].file)
    /\ IF job[r].file = NoText /\ file[p] = NoText
       THEN /\ Return(r)
            /\ since' = IF marks[r][p] = job[r].marks[p] THEN since
                        ELSE [since EXCEPT ![p] = "cut"]
       ELSE Goto(r, "undo-marks") /\ UNCHANGED <<job, since>>
    /\ UNCHANGED <<marks, registered, aborted, last>>

Recomputed(r) == [job[r].marks EXCEPT ![job[r].path] = file[job[r].path]]  \* mutation: from the bytes
KeptMarks(r)  == marks[r]                                \* mutation: the index is not restored
RestoredMarks(r) == job[r].marks

UndoMarks(r) ==
    /\ pc[r] = "undo-marks"
    /\ marks' = [marks EXCEPT ![r] = RestoredMarks(r)]
    /\ Return(r)
    /\ UNCHANGED <<file, registered, aborted, last, since, by>>

-----------------------------------------------------------------------------
(***************************************************************************)
(* uacp_artifact_write, and uacp_corpus_write through it: persist, then    *)
(* watermark in the caller's index; nothing is registered.  A watermark    *)
(* that cannot be saved removes a new file and leaves an old one changed.  *)
(***************************************************************************)
RawCall(r, p, text) ==
    /\ pc[r] = "idle"
    /\ job' = [job EXCEPT ![r] = [path |-> p, text |-> text, file |-> file[p], marks |-> NoMarks]]
    /\ Goto(r, "raw-write")
    /\ UNCHANGED <<file, marks, registered, aborted, last, since, by>>

\* write_corpus parses the document and names the file after its id, under the
\* corpus: a later document of that id replaces it, whichever run wrote the first.
CorpusCall(r, p, text) == p[1] = Corpus /\ p \in story /\ RawCall(r, p, text)

RawPersist(r) ==
    /\ pc[r] = "raw-write"
    /\ Puts(r, job[r].text)
    /\ Goto(r, "raw-mark")
    /\ UNCHANGED <<marks, registered, aborted, job, last, since>>

RawRecordHash(r) ==
    /\ pc[r] = "raw-mark"
    /\ marks' = [marks EXCEPT ![r][job[r].path] = job[r].text]
    /\ Completed(r) /\ Return(r)
    /\ UNCHANGED <<file, registered, aborted>>

RawFails(r) ==
    /\ \/ pc[r] = "raw-write" /\ UNCHANGED <<file, since, by>>
       \/ /\ pc[r] = "raw-mark"
          /\ IF job[r].file = NoText THEN Puts(r, NoText) ELSE UNCHANGED <<file, by>>
          /\ since' = [since EXCEPT ![job[r].path] = "cut"]
    /\ Return(r)
    /\ UNCHANGED <<marks, registered, aborted, last>>

-----------------------------------------------------------------------------
Abort(r) ==
    /\ r \notin aborted /\ aborted' = aborted \cup {r}
    /\ UNCHANGED <<file, marks, registered, pc, job, last, since, by>>

\* Killed between two writes: the call leaves what it wrote so far.
Crash(r) ==
    /\ r \in Crashers /\ pc[r] # "idle"
    /\ since' = [since EXCEPT ![job[r].path] = "cut"]
    /\ Return(r)
    /\ UNCHANGED <<file, marks, registered, aborted, last, by>>

\* A file is changed or removed by a tool that is not the governed writer, also while
\* a call on it is under way.
EditByHand(p) ==
    /\ p \in story /\ p[2] \in Edits
    /\ \E text \in (Texts \cup {NoText}) \ {file[p]} : file' = [file EXCEPT ![p] = text]
    /\ since' = [since EXCEPT ![p] = IF @ = "cut" THEN @ ELSE "edited"]
    /\ by' = [by EXCEPT ![p] = NoText]
    /\ UNCHANGED <<marks, registered, aborted, pc, job, last>>

Next ==
    /\ \/ \E r \in Runs :
             \/ \E p \in Paths, text \in Texts : Author(r, p, text) \/ CorpusCall(r, p, text)
             \/ Persist(r) \/ RecordHash(r) \/ Register(r) \/ StepFails(r)
             \/ UndoFile(r) \/ UndoMarks(r)
             \/ RawPersist(r) \/ RawRecordHash(r) \/ RawFails(r)
             \/ Abort(r) \/ Crash(r)
       \/ \E p \in Paths : EditByHand(p)
    /\ UNCHANGED story

Spec == Init /\ [][Next]_vars

-----------------------------------------------------------------------------
\* validate_artifact_integrity: the paths it reports for run r (AI_MISSING and
\* AI_TAMPERED, then AI_UNRECORDED once the run has any watermark).
Flagged(r) ==
    {p \in Paths : marks[r][p] # NoText /\ file[p] # marks[r][p]}
    \cup IF marks[r] # NoMarks THEN {p \in registered[r] : marks[r][p] = NoText} ELSE {}

\* The run's agent is in no call on the path.
AtRest(r, p) == job[r].path # p

\* A corpus file belongs to no run, its watermarks do: another run has written it
\* since this one did.
WrittenByAnother(r, p) == p[1] = Corpus /\ by[p] \in Runs \ {r}

\* The closure check reports a document to a run only if something other than
\* completed calls of the governed writer touched it, or another run wrote it last:
\* a refused or failed call leaves file, watermark and registration as they were.
FlaggedOnlyIfOutOfBand ==
    \A r \in Runs : \A p \in Flagged(r) :
        AtRest(r, p) => since[p] # "written" \/ WrittenByAnother(r, p)

\* A document edited behind the writer's back stays reported, whatever calls
\* were refused or rolled back on it, before or after, until a call rewrites it.
OutOfBandIsFlagged ==
    \A r \in Runs, p \in Paths :
        AtRest(r, p) /\ since[p] = "edited" /\ last[r][p] \notin {NoText, file[p]} => p \in Flagged(r)

\* What _rollback says of itself: the index is as it was before the call.  (Not so
\* if somebody removed the new file meanwhile; README, section 6.)
RollbackIsWhole ==
    [][\A r \in Runs : pc[r] = "undo-file" /\ pc'[r] = "idle" =>
           marks'[r][job[r].path] = job[r].marks[job[r].path]]_vars

\* The expectation of a registered check never changes: no sequence of calls,
\* edits, deletions, crashes and rollbacks moves its watermark.
FrozenChecksKept ==
    [][\A r \in Runs : \A p \in registered[r] : IsCheck(p) => marks'[r][p] = marks[r][p]]_vars

\* Two registered checks of a run that nothing but completed calls touched
\* never share an id, also when a call died before it registered and the id was
\* authored again elsewhere, or one of the two was edited and written back.
OneCheckPerId ==
    \A r \in Runs : \A p, q \in registered[r] :
        /\ IsCheck(p) /\ IsCheck(q) /\ marks[r][p][1] = marks[r][q][1]
        /\ since[p] = "written" /\ since[q] = "written"
        => p = q
=============================================================================
