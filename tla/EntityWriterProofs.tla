------------------------- MODULE EntityWriterProofs -------------------------
(***************************************************************************)
(* The write-once promise of frozen checks, for every set of runs, paths   *)
(* and texts, with crashes, aborts, edits by hand and rollbacks.           *)
(***************************************************************************)
EXTENDS EntityWriter, TLAPS

\* The call in flight writes a path of the right kind, and its snapshot of
\* the index agrees with the index on every registered check.
Authoring == {"write", "mark", "register", "undo-file", "undo-marks"}
JobSafe(r) ==
    /\ pc[r] \in Authoring =>
          /\ job[r].path \in Own(r) /\ job[r].text \in Texts
          /\ job[r].marks \in [Paths -> Texts \cup {NoText}]
          /\ \A q \in registered[r] : IsCheck(q) => job[r].marks[q] = marks[r][q]
          /\ IsCheck(job[r].path) /\ job[r].path \in registered[r] =>
                job[r].text = marks[r][job[r].path]
    /\ pc[r] \in {"raw-write", "raw-mark"} =>
          job[r].path \in {Corpus} \X Shared /\ job[r].text \in Texts
    /\ pc[r] = "register" => marks[r][job[r].path] = job[r].text

\* A registered check is a document of its run and has a watermark, so a
\* later call finds it frozen.
RunSafe(r) ==
    /\ registered[r] \subseteq Own(r)
    /\ \A q \in registered[r] : IsCheck(q) => marks[r][q] # NoText
    /\ JobSafe(r)

Tables ==
    /\ marks \in [Runs -> [Paths -> Texts \cup {NoText}]]
    /\ registered \in [Runs -> SUBSET Paths]
    /\ pc \in [Runs -> Authoring \cup {"idle", "raw-write", "raw-mark"}]
    /\ DOMAIN job = Runs /\ job = [r \in Runs |-> job[r]]

FrozenInv == Tables /\ \A r \in Runs : RunSafe(r)

\* A step of one run's agent leaves the others' part of the state alone.
Apart(r) ==
    \A s \in Runs \ {r} : /\ marks'[s] = marks[s] /\ registered'[s] = registered[s]
                          /\ pc'[s] = pc[s] /\ job'[s] = job[s]

LEMMA OwnPaths ==
    ASSUME NEW r \in Runs
    PROVE  /\ Own(r) \subseteq Paths
           /\ Own(r) \cap ({Corpus} \X Shared) = {}
           /\ NoText \notin Texts
BY EntityWriterAssumption DEF Own, Paths, Texts

\* What a step of run r has to show: its own part of the invariant.
LEMMA OneRun ==
    ASSUME FrozenInv, NEW r \in Runs, Apart(r), Tables', RunSafe(r)'
    PROVE  FrozenInv'
<1>1. ASSUME NEW s \in Runs PROVE RunSafe(s)'
  <2>1. CASE s = r
    BY <2>1
  <2>2. CASE s # r
    <3>1. /\ marks'[s] = marks[s] /\ registered'[s] = registered[s]
          /\ pc'[s] = pc[s] /\ job'[s] = job[s]
      BY <2>2 DEF Apart
    <3>2. RunSafe(s)
      BY DEF FrozenInv
    <3> QED BY <3>1, <3>2 DEF RunSafe, JobSafe
  <2> QED BY <2>1, <2>2
<1> QED BY <1>1 DEF FrozenInv

LEMMA FrozenInit == Init => FrozenInv
<1> SUFFICES ASSUME Init PROVE FrozenInv
  OBVIOUS
<1>1. NoMarks \in [Paths -> Texts \cup {NoText}]
  BY DEF NoMarks
<1>2. Tables
  BY <1>1 DEF Init, Tables
<1>3. ASSUME NEW r \in Runs PROVE RunSafe(r)
  BY DEF Init, RunSafe, JobSafe, Authoring
<1> QED BY <1>2, <1>3 DEF FrozenInv

-----------------------------------------------------------------------------
(* One lemma per action of an agent. *)

LEMMA AuthorSafe ==
    ASSUME FrozenInv, NEW r \in Runs, NEW p \in Paths, NEW text \in Texts, Author(r, p, text)
    PROVE  FrozenInv'
<1>1. /\ Apart(r) /\ Tables'
  BY DEF FrozenInv, Tables, Author, Goto, Apart, Authoring
<1>2. /\ registered'[r] = registered[r] /\ marks'[r] = marks[r] /\ pc'[r] = "write"
      /\ job'[r].path = p /\ job'[r].text = text /\ job'[r].marks = marks[r]
  BY DEF FrozenInv, Tables, Author, Goto
<1>3. IsCheck(p) /\ p \in registered[r] => text = marks[r][p]
  BY DEF FrozenInv, RunSafe, Author, Frozen
<1>4. RunSafe(r)'
  BY <1>2, <1>3 DEF FrozenInv, Tables, RunSafe, JobSafe, Author
<1> QED BY <1>1, <1>4, OneRun

LEMMA PersistSafe ==
    ASSUME FrozenInv, NEW r \in Runs, Persist(r) \/ StepFails(r)
    PROVE  FrozenInv'
<1>1. /\ Apart(r) /\ Tables'
  BY DEF FrozenInv, Tables, Persist, StepFails, Goto, Apart, Authoring
<1>2. /\ registered'[r] = registered[r] /\ marks'[r] = marks[r] /\ job'[r] = job[r]
      /\ pc[r] \in Authoring /\ pc'[r] \in {"mark", "undo-file"}
  BY DEF FrozenInv, Tables, Persist, StepFails, Goto, Authoring
<1>3. RunSafe(r)'
  BY <1>2 DEF FrozenInv, RunSafe, JobSafe
<1> QED BY <1>1, <1>3, OneRun

LEMMA RecordHashSafe ==
    ASSUME FrozenInv, NEW r \in Runs, RecordHash(r)
    PROVE  /\ FrozenInv'
           /\ \A q \in registered[r] : IsCheck(q) => marks'[r][q] = marks[r][q]
           /\ Apart(r)
<1>1. /\ job[r].path \in Paths /\ job[r].text \in Texts /\ pc[r] \in Authoring
      /\ job[r].path \in Own(r)
  BY OwnPaths DEF FrozenInv, RunSafe, JobSafe, RecordHash, Authoring
<1>2. /\ Apart(r) /\ Tables'
  BY <1>1 DEF FrozenInv, Tables, RecordHash, Goto, Apart, Authoring
<1>3. /\ registered'[r] = registered[r] /\ job'[r] = job[r] /\ pc'[r] = "register"
      /\ marks'[r] = [marks[r] EXCEPT ![job[r].path] = job[r].text]
  BY DEF FrozenInv, Tables, RecordHash, Goto
<1>4. ASSUME NEW q \in registered[r], IsCheck(q) PROVE marks'[r][q] = marks[r][q]
  BY <1>1, <1>3, <1>4 DEF FrozenInv, Tables, RunSafe, JobSafe
<1>5. marks'[r][job[r].path] = job[r].text
  BY <1>1, <1>3 DEF FrozenInv, Tables
<1>6. RunSafe(r)'
  BY <1>1, <1>3, <1>4, <1>5 DEF FrozenInv, RunSafe, JobSafe, Authoring
<1> QED BY <1>2, <1>4, <1>6, OneRun

LEMMA RegisterSafe ==
    ASSUME FrozenInv, NEW r \in Runs, Register(r)
    PROVE  FrozenInv'
<1>1. /\ job[r].path \in Own(r) /\ job[r].text \in Texts
      /\ marks[r][job[r].path] = job[r].text
  BY DEF FrozenInv, RunSafe, JobSafe, Register, Authoring
<1>2. /\ Apart(r) /\ Tables'
  BY <1>1, OwnPaths DEF FrozenInv, Tables, Register, Completed, Return, Goto, Apart, Authoring
<1>3. /\ registered'[r] = registered[r] \cup {job[r].path} /\ marks'[r] = marks[r]
      /\ pc'[r] = "idle"
  BY DEF FrozenInv, Tables, Register, Return, Goto
<1>4. RunSafe(r)'
  BY <1>1, <1>3, OwnPaths DEF FrozenInv, RunSafe, JobSafe, Authoring
<1> QED BY <1>2, <1>4, OneRun

LEMMA UndoMarksSafe ==
    ASSUME FrozenInv, NEW r \in Runs, UndoMarks(r)
    PROVE  /\ FrozenInv'
           /\ \A q \in registered[r] : IsCheck(q) => marks'[r][q] = marks[r][q]
           /\ Apart(r)
<1>1. /\ job[r].marks \in [Paths -> Texts \cup {NoText}]
      /\ \A q \in registered[r] : IsCheck(q) => job[r].marks[q] = marks[r][q]
  BY DEF FrozenInv, RunSafe, JobSafe, UndoMarks, Authoring
<1>2. /\ Apart(r) /\ Tables'
  BY <1>1 DEF FrozenInv, Tables, UndoMarks, RestoredMarks, Return, Goto, Apart, Authoring
<1>3. /\ registered'[r] = registered[r] /\ marks'[r] = job[r].marks /\ pc'[r] = "idle"
  BY DEF FrozenInv, Tables, UndoMarks, RestoredMarks, Return, Goto
<1>4. RunSafe(r)'
  BY <1>1, <1>3 DEF FrozenInv, RunSafe, JobSafe, Authoring
<1> QED BY <1>1, <1>2, <1>3, <1>4, OneRun

\* UndoFile, RawFails and Crash end a call without touching index or manifest.
LEMMA ReturnSafe ==
    ASSUME FrozenInv, NEW r \in Runs, Return(r), UNCHANGED <<marks, registered>>
    PROVE  FrozenInv'
<1>1. /\ Apart(r) /\ Tables'
  BY DEF FrozenInv, Tables, Return, Goto, Apart, Authoring
<1>2. registered'[r] = registered[r] /\ marks'[r] = marks[r] /\ pc'[r] = "idle"
  BY DEF FrozenInv, Tables, Return, Goto
<1>3. RunSafe(r)'
  BY <1>2 DEF FrozenInv, RunSafe, JobSafe, Authoring
<1> QED BY <1>1, <1>3, OneRun

LEMMA UndoFileSafe ==
    ASSUME FrozenInv, NEW r \in Runs, UndoFile(r)
    PROVE  FrozenInv'
<1>1. CASE Return(r)
  BY <1>1, ReturnSafe DEF UndoFile
<1>2. CASE Goto(r, "undo-marks") /\ UNCHANGED job
  <2>1. /\ Apart(r) /\ Tables'
    BY <1>2 DEF FrozenInv, Tables, UndoFile, Goto, Apart, Authoring
  <2>2. /\ registered'[r] = registered[r] /\ marks'[r] = marks[r] /\ job'[r] = job[r]
        /\ pc[r] \in Authoring /\ pc'[r] = "undo-marks"
    BY <1>2 DEF FrozenInv, Tables, UndoFile, Goto, Authoring
  <2>3. RunSafe(r)'
    BY <2>2 DEF FrozenInv, RunSafe, JobSafe
  <2> QED BY <2>1, <2>3, OneRun
<1> QED BY <1>1, <1>2 DEF UndoFile

LEMMA RawSafe ==
    ASSUME FrozenInv, NEW r \in Runs, NEW p \in Paths, NEW text \in Texts,
           CorpusCall(r, p, text) \/ RawPersist(r)
    PROVE  FrozenInv'
<1>1. /\ Apart(r) /\ Tables'
  <2>1. CASE CorpusCall(r, p, text)
    <3>1. /\ marks' = marks /\ registered' = registered
          /\ \E l \in {"raw-write"} : pc' = [pc EXCEPT ![r] = l]
          /\ \E j : job' = [job EXCEPT ![r] = j]
      BY <2>1 DEF CorpusCall, RawCall, Goto
    <3> QED BY <3>1 DEF FrozenInv, Tables, Apart
  <2>2. CASE RawPersist(r)
    BY <2>2 DEF FrozenInv, Tables, RawPersist, Goto, Apart
  <2> QED BY <2>1, <2>2
<1>2. /\ registered'[r] = registered[r] /\ marks'[r] = marks[r]
      /\ pc'[r] \in {"raw-write", "raw-mark"}
  BY DEF FrozenInv, Tables, CorpusCall, RawCall, RawPersist, Goto
<1>3. job'[r].path \in {Corpus} \X Shared /\ job'[r].text \in Texts
  <2>1. CASE CorpusCall(r, p, text)
    <3>1. job'[r].path = p /\ job'[r].text = text /\ p[1] = Corpus
      BY <2>1 DEF FrozenInv, Tables, CorpusCall, RawCall
    <3>2. p \in {Corpus} \X Shared
      BY <3>1, EntityWriterAssumption DEF Paths
    <3> QED BY <3>1, <3>2
  <2>2. CASE RawPersist(r)
    BY <2>2 DEF FrozenInv, RunSafe, JobSafe, RawPersist
  <2> QED BY <2>1, <2>2
<1>4. RunSafe(r)'
  BY <1>2, <1>3 DEF FrozenInv, RunSafe, JobSafe, Authoring
<1> QED BY <1>1, <1>4, OneRun

LEMMA RawRecordHashSafe ==
    ASSUME FrozenInv, NEW r \in Runs, RawRecordHash(r)
    PROVE  /\ FrozenInv'
           /\ \A q \in registered[r] : marks'[r][q] = marks[r][q]
           /\ Apart(r)
<1>1. job[r].path \in {Corpus} \X Shared /\ job[r].path \in Paths /\ job[r].text \in Texts
  BY DEF FrozenInv, RunSafe, JobSafe, RawRecordHash, Paths
<1>2. /\ Apart(r) /\ Tables'
  BY <1>1 DEF FrozenInv, Tables, RawRecordHash, Completed, Return, Goto, Apart, Authoring
<1>3. /\ registered'[r] = registered[r] /\ pc'[r] = "idle"
      /\ marks'[r] = [marks[r] EXCEPT ![job[r].path] = job[r].text]
  BY DEF FrozenInv, Tables, RawRecordHash, Return, Goto
<1>4. ASSUME NEW q \in registered[r] PROVE marks'[r][q] = marks[r][q]
  BY <1>1, <1>3, <1>4, OwnPaths DEF FrozenInv, Tables, RunSafe
<1>5. RunSafe(r)'
  BY <1>3, <1>4 DEF FrozenInv, RunSafe, JobSafe, Authoring
<1> QED BY <1>2, <1>4, <1>5, OneRun

-----------------------------------------------------------------------------
\* The steps that leave every run's index, manifest and call alone.
LEMMA OutsideSafe ==
    ASSUME FrozenInv, UNCHANGED <<marks, registered, pc, job>>
    PROVE  FrozenInv'
BY DEF FrozenInv, Tables, RunSafe, JobSafe

\* Every step keeps the invariant, and the watermark of every check that is
\* registered.
LEMMA FrozenStep ==
    ASSUME FrozenInv, [Next]_vars
    PROVE  /\ FrozenInv'
           /\ \A r \in Runs : \A p \in registered[r] : IsCheck(p) => marks'[r][p] = marks[r][p]
<1> DEFINE Kept == \A r \in Runs : \A p \in registered[r] :
                      IsCheck(p) => marks'[r][p] = marks[r][p]
<1>1. marks' = marks => Kept
  OBVIOUS
<1>2. ASSUME NEW r \in Runs, Apart(r),
             \A q \in registered[r] : IsCheck(q) => marks'[r][q] = marks[r][q]
      PROVE  Kept
  BY <1>2 DEF Apart
<1>3. ASSUME NEW r \in Runs, NEW p \in Paths, NEW text \in Texts,
             Author(r, p, text) \/ CorpusCall(r, p, text)
      PROVE  FrozenInv' /\ Kept
  <2>1. FrozenInv'
    BY <1>3, AuthorSafe, RawSafe
  <2>2. marks' = marks
    BY <1>3 DEF Author, CorpusCall, RawCall
  <2> QED BY <2>1, <2>2, <1>1
<1>4. ASSUME NEW r \in Runs, Persist(r) \/ StepFails(r) PROVE FrozenInv' /\ Kept
  <2>1. FrozenInv'
    BY <1>4, PersistSafe
  <2>2. marks' = marks
    BY <1>4 DEF Persist, StepFails
  <2> QED BY <2>1, <2>2, <1>1
<1>5. ASSUME NEW r \in Runs, RecordHash(r) PROVE FrozenInv' /\ Kept
  BY <1>5, <1>2, RecordHashSafe
<1>6. ASSUME NEW r \in Runs, Register(r) PROVE FrozenInv' /\ Kept
  <2>1. FrozenInv'
    BY <1>6, RegisterSafe
  <2>2. marks' = marks
    BY <1>6 DEF Register
  <2> QED BY <2>1, <2>2, <1>1
<1>7. ASSUME NEW r \in Runs, UndoFile(r) PROVE FrozenInv' /\ Kept
  <2>1. FrozenInv'
    BY <1>7, UndoFileSafe
  <2>2. marks' = marks
    BY <1>7 DEF UndoFile
  <2> QED BY <2>1, <2>2, <1>1
<1>8. ASSUME NEW r \in Runs, UndoMarks(r) PROVE FrozenInv' /\ Kept
  BY <1>8, <1>2, UndoMarksSafe
<1>9. ASSUME NEW r \in Runs, RawPersist(r) PROVE FrozenInv' /\ Kept
  <2>1. job[r].path \in Paths /\ job[r].text \in Texts
    BY <1>9 DEF FrozenInv, RunSafe, JobSafe, RawPersist, Paths
  <2>2. FrozenInv'
    BY <1>9, <2>1, RawSafe
  <2>3. marks' = marks
    BY <1>9 DEF RawPersist
  <2> QED BY <2>2, <2>3, <1>1
<1>10. ASSUME NEW r \in Runs, RawRecordHash(r) PROVE FrozenInv' /\ Kept
  BY <1>10, <1>2, RawRecordHashSafe
<1>11. ASSUME NEW r \in Runs, RawFails(r) \/ Crash(r) PROVE FrozenInv' /\ Kept
  <2>1. Return(r) /\ UNCHANGED <<marks, registered>>
    BY <1>11 DEF RawFails, Crash
  <2>2. FrozenInv'
    BY <2>1, ReturnSafe
  <2> QED BY <2>1, <2>2, <1>1
<1>12. ASSUME NEW r \in Runs, Abort(r) PROVE FrozenInv' /\ Kept
  <2>1. UNCHANGED <<marks, registered, pc, job>>
    BY <1>12 DEF Abort
  <2> QED BY <2>1, <1>1, OutsideSafe
<1>13. ASSUME NEW p \in Paths, EditByHand(p) PROVE FrozenInv' /\ Kept
  <2>1. UNCHANGED <<marks, registered, pc, job>>
    BY <1>13 DEF EditByHand
  <2> QED BY <2>1, <1>1, OutsideSafe
<1>14. ASSUME UNCHANGED vars PROVE FrozenInv' /\ Kept
  <2>1. UNCHANGED <<marks, registered, pc, job>>
    BY <1>14 DEF vars
  <2> QED BY <2>1, <1>1, OutsideSafe
<1> HIDE DEF Kept
<1>15. FrozenInv' /\ Kept
  <2>1. CASE UNCHANGED vars
    BY <2>1, <1>14
  <2>2. CASE Next
    BY <2>2, <1>3, <1>4, <1>5, <1>6, <1>7, <1>8, <1>9, <1>10, <1>11, <1>12, <1>13 DEF Next
  <2> QED BY <2>1, <2>2
<1> QED BY <1>15 DEF Kept

\* The expectation of a registered check never changes, whatever sequence of
\* calls, failures, rollbacks, crashes, aborts and edits follows.
THEOREM ChecksStayFrozen == Spec => FrozenChecksKept
<1>1. Init => FrozenInv
  BY FrozenInit
<1>2. FrozenInv /\ [Next]_vars => FrozenInv'
  BY FrozenStep
<1>3. Spec => []FrozenInv
  BY <1>1, <1>2, PTL DEF Spec
<1>4. FrozenInv /\ [Next]_vars =>
        [\A r \in Runs : \A p \in registered[r] : IsCheck(p) => marks'[r][p] = marks[r][p]]_vars
  BY FrozenStep
<1> QED BY <1>3, <1>4, PTL DEF Spec, FrozenChecksKept

-----------------------------------------------------------------------------
(***************************************************************************)
(* What the closure check's verdict rests on.  The invariant relates file, *)
(* watermark and last completed write of every path, and says the same of  *)
(* the snapshot that a call in flight would roll back to.                  *)
(***************************************************************************)

Corpora == {Corpus} \X Shared

\* No other run's agent changed the path last.
Mine(r, p) == p \in Own(r) \/ (p \in Corpora /\ by[p] \in {r, NoText})
Busy(r, p) == pc[r] # "idle" /\ job[r].path = p

\* Between two calls a file that only completed calls touched is as the last
\* of them left it, and a watermark is that of the last one.
Rests(r) ==
    \A p \in Paths :
        /\ Mine(r, p) /\ since[p] = "written" /\ ~Busy(r, p) => file[p] = last[r][p]
        /\ p \notin Own(r) \/ (since[p] # "cut" /\ ~Busy(r, p)) => marks[r][p] = last[r][p]
        /\ p \notin Own(r) \cup Corpora => marks[r][p] = NoText
        /\ p \in registered[r] => marks[r][p] # NoText

\* The snapshot of a call in flight, and how far its own writes have come.
Snapshot(r, p) ==
    /\ \A q \in Paths \ {p} : job[r].marks[q] = marks[r][q]
    /\ \A q \in registered[r] : job[r].marks[q] # NoText
    /\ since[p] # "cut" => job[r].marks[p] = last[r][p]
    /\ since[p] = "written" => job[r].file = last[r][p]
    /\ job[r].file \in Texts \cup {NoText}
Progress(r, p) ==
    /\ pc[r] \in {"mark", "register"} /\ (by[p] = r \/ since[p] = "written") =>
          file[p] = job[r].text
    /\ pc[r] \in {"write", "mark"} => marks[r][p] = job[r].marks[p]
    /\ pc[r] = "undo-marks" /\ since[p] = "written" => file[p] = job[r].file

\* No intact registered check declares the id that is being written.
Fresh(r, p) ==
    IsCheck(p) /\ pc[r] \in {"write", "mark", "register"} =>
        \A q \in registered[r] \ {p} :
            IsCheck(q) /\ since[q] = "written" => marks[r][q][1] # job[r].text[1]

InFlight(r) ==
    /\ pc[r] \in Authoring =>
          Snapshot(r, job[r].path) /\ Progress(r, job[r].path) /\ Fresh(r, job[r].path)
    /\ pc[r] = "raw-write" /\ Mine(r, job[r].path) /\ since[job[r].path] = "written" =>
          file[job[r].path] = last[r][job[r].path]
    /\ /\ pc[r] = "raw-mark" /\ Mine(r, job[r].path)
       /\ by[job[r].path] = r \/ since[job[r].path] = "written"
       => file[job[r].path] = job[r].text

Distinct(r) ==
    \A p, q \in registered[r] :
        /\ IsCheck(p) /\ IsCheck(q) /\ p # q
        /\ since[p] = "written" /\ since[q] = "written"
        => marks[r][p][1] # marks[r][q][1]

History ==
    /\ file \in [Paths -> Texts \cup {NoText}]
    /\ last \in [Runs -> [Paths -> Texts \cup {NoText}]]
    /\ since \in [Paths -> {"written", "edited", "cut"}]
    /\ by \in [Paths -> Runs \cup {NoText}]

AgentInv(r) == Rests(r) /\ InFlight(r) /\ Distinct(r)
WriterInv == FrozenInv /\ History /\ \A r \in Runs : AgentInv(r)

LEMMA WriterInit == Init => WriterInv
<1> SUFFICES ASSUME Init PROVE WriterInv
  OBVIOUS
<1>1. NoMarks \in [Paths -> Texts \cup {NoText}] /\ \A p \in Paths : NoMarks[p] = NoText
  BY DEF NoMarks
<1>2. History
  BY <1>1 DEF Init, History
<1>3. ASSUME NEW r \in Runs PROVE AgentInv(r)
  BY <1>1 DEF Init, AgentInv, Rests, InFlight, Distinct, Authoring
<1> QED BY <1>2, <1>3, FrozenInit DEF WriterInv

\* What a step of run r's agent at path w has to show: its own part, and that
\* it leaves to another run a file that is still that run's.
LEMMA OneAgent ==
    ASSUME WriterInv, NEW r \in Runs, NEW w \in Own(r) \cup Corpora,
           FrozenInv', History', Apart(r),
           \A s \in Runs \ {r} : last'[s] = last[s],
           \A p \in Paths \ {w} : UNCHANGED <<file[p], since[p], by[p]>>,
           by'[w] = r \/ (UNCHANGED <<file[w], by[w]>> /\ since'[w] \in {since[w], "cut"}),
           AgentInv(r)'
    PROVE  WriterInv'
<1>1. ASSUME NEW s \in Runs \ {r} PROVE AgentInv(s)'
  <2>1. /\ marks'[s] = marks[s] /\ registered'[s] = registered[s]
        /\ pc'[s] = pc[s] /\ job'[s] = job[s] /\ last'[s] = last[s]
    BY DEF Apart
  <2>2. AgentInv(s) /\ RunSafe(s)
    BY DEF WriterInv, FrozenInv
  <2>3. w \notin Own(s) /\ r # NoText /\ r # s /\ w \in Paths
    BY EntityWriterAssumption, OwnPaths DEF Own, Corpora, Paths
  <2>4. /\ \A p \in Paths : p \in Own(s) => UNCHANGED <<file[p], since[p], by[p]>>
        /\ \A p \in Paths : Mine(s, p)' =>
               Mine(s, p) /\ UNCHANGED <<file[p], by[p]>> /\ since'[p] \in {since[p], "cut"}
    BY <2>3 DEF Mine
  <2>5. Rests(s)'
    BY <2>1, <2>2, <2>4 DEF AgentInv, Rests, Busy
  <2>6. registered[s] \subseteq Own(s) /\ Own(s) \subseteq Paths
    BY <2>2, OwnPaths DEF RunSafe
  <2>7. Distinct(s)'
    BY <2>1, <2>2, <2>4, <2>6 DEF AgentInv, Distinct
  <2>8. InFlight(s)'
    <3>1. CASE pc[s] \in Authoring
      <4>1. job[s].path \in Own(s)
        BY <2>2, <3>1 DEF RunSafe, JobSafe
      <4>2. UNCHANGED <<file[job[s].path], since[job[s].path], by[job[s].path]>>
        BY <2>1, <2>4, <2>6, <4>1
      <4>3. Snapshot(s, job[s].path)' /\ Progress(s, job[s].path)'
        BY <2>1, <2>2, <3>1, <4>2 DEF AgentInv, InFlight, Snapshot, Progress
      <4>4. Fresh(s, job[s].path)'
        BY <2>1, <2>2, <2>4, <2>6, <3>1 DEF AgentInv, InFlight, Fresh
      <4> QED BY <2>1, <3>1, <4>3, <4>4 DEF InFlight, Authoring
    <3>2. CASE pc[s] \in {"raw-write", "raw-mark"}
      <4>1. job[s].path \in Paths
        BY <2>2, <3>2 DEF RunSafe, JobSafe, Paths
      <4> QED BY <2>1, <2>2, <2>4, <3>2, <4>1 DEF AgentInv, InFlight, Authoring
    <3>3. CASE pc[s] \notin Authoring \cup {"raw-write", "raw-mark"}
      BY <2>1, <3>3 DEF InFlight
    <3> QED BY <3>1, <3>2, <3>3
  <2> QED BY <2>5, <2>7, <2>8 DEF AgentInv
<1> QED BY <1>1 DEF WriterInv

-----------------------------------------------------------------------------
(* One lemma per action again, for the agent's own part.                   *)

\* What holds of a call in flight, spelled out.
LEMMA CallInFlight ==
    ASSUME WriterInv, NEW r \in Runs, pc[r] \in Authoring
    PROVE  /\ job[r].path \in Own(r) /\ job[r].path \in Paths
           /\ job[r].path \notin Corpora
           /\ job[r].text \in Texts /\ job[r].text # NoText
           /\ job[r].marks \in [Paths -> Texts \cup {NoText}]
           /\ registered[r] \subseteq Own(r) /\ registered[r] \subseteq Paths
           /\ AgentInv(r) /\ Tables /\ History /\ Mine(r, job[r].path)
           /\ Snapshot(r, job[r].path) /\ Progress(r, job[r].path) /\ Fresh(r, job[r].path)
<1>1. RunSafe(r) /\ AgentInv(r) /\ Tables /\ History
  BY DEF WriterInv, FrozenInv
<1> QED BY <1>1, OwnPaths DEF RunSafe, JobSafe, AgentInv, InFlight, Corpora, Mine

LEMMA AuthorKeeps ==
    ASSUME WriterInv, FrozenInv', NEW r \in Runs, NEW p \in Paths, NEW text \in Texts,
           Author(r, p, text)
    PROVE  WriterInv'
<1>1. /\ RunSafe(r) /\ AgentInv(r) /\ Tables /\ History
      /\ registered[r] \subseteq Paths /\ p \in Own(r) /\ p \in Paths
  BY OwnPaths DEF WriterInv, FrozenInv, RunSafe, Author
<1>2. Apart(r) /\ History'
  BY <1>1 DEF Tables, History, Author, Goto, Apart
<1>3. /\ pc[r] = "idle" /\ pc'[r] = "write"
      /\ job'[r] = [path |-> p, text |-> text, file |-> file[p], marks |-> marks[r]]
      /\ UNCHANGED <<file, marks, registered, aborted, last, since, by>>
  BY <1>1 DEF Tables, Author, Goto
<1>4. Rests(r)'
  BY <1>1, <1>3 DEF AgentInv, Rests, Busy, Mine
<1>5. Snapshot(r, p)'
  BY <1>1, <1>3 DEF AgentInv, Rests, Busy, Mine, Snapshot, History
<1>6. Progress(r, p)'
  BY <1>3 DEF Progress
<1>7. Fresh(r, p)'
  <2> SUFFICES ASSUME IsCheck(p), NEW q \in registered[r] \ {p}, IsCheck(q), since[q] = "written"
               PROVE  marks[r][q][1] # text[1]
    BY <1>3 DEF Fresh, IsCheck
  <2>1. file[q] = marks[r][q] /\ marks[r][q] # NoText
    BY <1>1, <1>3 DEF AgentInv, Rests, Busy, Mine, RunSafe
  <2> QED BY <2>1 DEF Author, DuplicateId
<1>8. InFlight(r)'
  BY <1>3, <1>5, <1>6, <1>7 DEF InFlight
<1>9. Distinct(r)'
  BY <1>1, <1>3 DEF AgentInv, Distinct
<1> QED BY <1>1, <1>2, <1>3, <1>4, <1>8, <1>9, OneAgent DEF AgentInv

LEMMA PersistKeeps ==
    ASSUME WriterInv, FrozenInv', NEW r \in Runs, Persist(r)
    PROVE  WriterInv'
<1> DEFINE w == job[r].path
<1>1. pc[r] = "write" /\ pc[r] \in Authoring
  BY DEF Persist, Authoring
<1>2. Apart(r) /\ History'
  BY <1>1, CallInFlight DEF Tables, History, Persist, Puts, Goto, Apart
<1>3. /\ pc'[r] = "mark" /\ file'[w] = job[r].text /\ by'[w] = r
      /\ \A p \in Paths \ {w} : file'[p] = file[p] /\ by'[p] = by[p]
      /\ UNCHANGED <<marks, registered, aborted, job, last, since>>
  BY <1>1, CallInFlight DEF Tables, History, Persist, Puts, Goto
<1>4. Rests(r)'
  BY <1>1, <1>3, CallInFlight DEF AgentInv, Rests, Busy, Mine
<1>5. Snapshot(r, w)'
  BY <1>1, <1>3, CallInFlight DEF Snapshot
<1>6. Progress(r, w)'
  BY <1>1, <1>3, CallInFlight DEF Progress
<1>7. Fresh(r, w)'
  BY <1>1, <1>3, CallInFlight DEF Fresh
<1>8. InFlight(r)'
  BY <1>3, <1>5, <1>6, <1>7 DEF InFlight
<1>9. Distinct(r)'
  BY <1>1, <1>3, CallInFlight DEF AgentInv, Distinct
<1> QED BY <1>1, <1>2, <1>3, <1>4, <1>8, <1>9, CallInFlight, OneAgent DEF AgentInv

LEMMA RecordHashKeeps ==
    ASSUME WriterInv, FrozenInv', NEW r \in Runs, RecordHash(r)
    PROVE  WriterInv'
<1> DEFINE w == job[r].path
<1>1. pc[r] = "mark" /\ pc[r] \in Authoring
  BY DEF RecordHash, Authoring
<1>2. Apart(r) /\ History'
  BY <1>1, CallInFlight DEF Tables, History, RecordHash, Goto, Apart
<1>3. /\ pc'[r] = "register" /\ marks'[r][w] = job[r].text
      /\ \A p \in Paths \ {w} : marks'[r][p] = marks[r][p]
      /\ UNCHANGED <<file, registered, aborted, job, last, since, by>>
  BY <1>1, CallInFlight DEF Tables, RecordHash, Goto
<1>4. Rests(r)'
  BY <1>1, <1>3, CallInFlight DEF AgentInv, Rests, Busy, Mine
<1>5. Snapshot(r, w)'
  BY <1>1, <1>3, CallInFlight DEF Snapshot
<1>6. Progress(r, w)'
  BY <1>1, <1>3, CallInFlight DEF Progress
<1>7. Fresh(r, w)'
  BY <1>1, <1>3, CallInFlight DEF Fresh
<1>8. InFlight(r)'
  BY <1>3, <1>5, <1>6, <1>7 DEF InFlight
<1>9. Distinct(r)'
  <2>1. FrozenInv
    BY DEF WriterInv
  <2>2. \A q \in registered[r] : IsCheck(q) => marks'[r][q] = marks[r][q]
    BY <2>1, RecordHashSafe
  <2> QED BY <2>2, <1>1, <1>3, CallInFlight DEF AgentInv, Distinct
<1> QED BY <1>1, <1>2, <1>3, <1>4, <1>8, <1>9, CallInFlight, OneAgent DEF AgentInv

LEMMA RegisterKeeps ==
    ASSUME WriterInv, FrozenInv', NEW r \in Runs, Register(r)
    PROVE  WriterInv'
<1> DEFINE w == job[r].path
<1>1. pc[r] = "register" /\ pc[r] \in Authoring
  BY DEF Register, Authoring
<1>2. marks[r][w] = job[r].text
  BY <1>1 DEF WriterInv, FrozenInv, RunSafe, JobSafe
<1>3. Apart(r) /\ History'
  BY <1>1, CallInFlight DEF Tables, History, Register, Completed, Return, Goto, Apart
<1>4. /\ pc'[r] = "idle" /\ registered'[r] = registered[r] \cup {w}
      /\ last'[r][w] = job[r].text
      /\ since'[w] = IF by[w] = r THEN "written" ELSE since[w]
      /\ \A p \in Paths \ {w} : last'[r][p] = last[r][p] /\ since'[p] = since[p]
      /\ \A s \in Runs \ {r} : last'[s] = last[s]
      /\ UNCHANGED <<file, marks, aborted, by>>
  BY <1>1, CallInFlight DEF Tables, History, Register, Completed, Return, Goto
<1>5. Rests(r)'
  BY <1>1, <1>2, <1>4, CallInFlight DEF AgentInv, Rests, Busy, Mine, Progress
<1>6. InFlight(r)'
  BY <1>4 DEF InFlight, Authoring
<1>7. Distinct(r)'
  <2>1. \A q \in registered[r] \ {w} :
           IsCheck(w) /\ IsCheck(q) /\ since[q] = "written" => marks[r][q][1] # marks[r][w][1]
    BY <1>1, <1>2, CallInFlight DEF Fresh
  <2>2. Distinct(r) /\ registered[r] \subseteq Paths
    BY <1>1, CallInFlight DEF AgentInv
  <2>3. \A q \in registered'[r] : q = w \/ (q \in registered[r] \ {w} /\ since'[q] = since[q])
    BY <1>4, <2>2
  <2> QED BY <1>4, <2>1, <2>2, <2>3 DEF Distinct
<1> QED BY <1>1, <1>3, <1>4, <1>5, <1>6, <1>7, CallInFlight, OneAgent DEF AgentInv

LEMMA StepFailsKeeps ==
    ASSUME WriterInv, FrozenInv', NEW r \in Runs, StepFails(r)
    PROVE  WriterInv'
<1> DEFINE w == job[r].path
<1>1. pc[r] \in {"write", "mark", "register"} /\ pc[r] \in Authoring
  BY DEF StepFails, Authoring
<1>2. Apart(r) /\ History'
  BY <1>1, CallInFlight DEF Tables, History, StepFails, Goto, Apart
<1>3. /\ pc'[r] = "undo-file"
      /\ UNCHANGED <<file, marks, registered, aborted, job, last, since, by>>
  BY <1>1, CallInFlight DEF Tables, StepFails, Goto
<1>4. Rests(r)'
  BY <1>1, <1>3, CallInFlight DEF AgentInv, Rests, Busy, Mine
<1>5. Snapshot(r, w)'
  BY <1>1, <1>3, CallInFlight DEF Snapshot
<1>6. Progress(r, w)'
  BY <1>1, <1>3, CallInFlight DEF Progress
<1>7. Fresh(r, w)'
  BY <1>3 DEF Fresh
<1>8. InFlight(r)'
  BY <1>3, <1>5, <1>6, <1>7 DEF InFlight
<1>9. Distinct(r)'
  BY <1>1, <1>3, CallInFlight DEF AgentInv, Distinct
<1> QED BY <1>1, <1>2, <1>3, <1>4, <1>8, <1>9, CallInFlight, OneAgent DEF AgentInv

LEMMA UndoFileKeeps ==
    ASSUME WriterInv, FrozenInv', NEW r \in Runs, UndoFile(r)
    PROVE  WriterInv'
<1> DEFINE w == job[r].path
<1>1. pc[r] = "undo-file" /\ pc[r] \in Authoring
  BY DEF UndoFile, Authoring
<1>2. Apart(r) /\ History'
  <2>1. Apart(r) /\ job[r].file \in Texts \cup {NoText}
    BY <1>1, CallInFlight DEF Tables, UndoFile, Return, Goto, Apart, Snapshot
  <2>2. file' \in [Paths -> Texts \cup {NoText}] /\ by' \in [Paths -> Runs \cup {NoText}]
    BY <1>1, <2>1, CallInFlight DEF History, UndoFile, Puts
  <2>3. since' \in [Paths -> {"written", "edited", "cut"}] /\ last' = last
    BY <1>1, CallInFlight DEF History, UndoFile
  <2> QED BY <1>1, <2>1, <2>2, <2>3, CallInFlight DEF History
<1>3. /\ file'[w] = job[r].file /\ by'[w] = r
      /\ \A p \in Paths \ {w} : file'[p] = file[p] /\ by'[p] = by[p] /\ since'[p] = since[p]
      /\ since'[w] = since[w] \/ since'[w] = "cut"
      /\ UNCHANGED <<marks, registered, aborted, last>>
  BY <1>1, CallInFlight DEF History, UndoFile, Puts
<1>4. Distinct(r)'
  BY <1>1, <1>3, CallInFlight DEF AgentInv, Distinct
<1>5. CASE job[r].file = NoText /\ file[w] = NoText
  <2>1. pc'[r] = "idle"
    BY <1>1, <1>5, CallInFlight DEF Tables, UndoFile, Return, Goto
  <2>2. marks[r][w] = job[r].marks[w] \/ since'[w] = "cut"
    BY <1>1, <1>5, CallInFlight DEF History, UndoFile
  <2>3. Rests(r)'
    BY <1>1, <1>3, <2>1, <2>2, CallInFlight
       DEF AgentInv, Rests, Busy, Mine, Snapshot
  <2>4. InFlight(r)'
    BY <2>1 DEF InFlight, Authoring
  <2> QED BY <1>1, <1>2, <1>3, <1>4, <2>3, <2>4, CallInFlight, OneAgent DEF AgentInv
<1>6. CASE ~(job[r].file = NoText /\ file[w] = NoText)
  <2>1. pc'[r] = "undo-marks" /\ job' = job /\ since' = since
    BY <1>1, <1>6, CallInFlight DEF Tables, UndoFile, Goto
  <2>2. Rests(r)'
    BY <1>1, <1>3, <2>1, CallInFlight DEF AgentInv, Rests, Busy, Mine
  <2>3. Snapshot(r, w)'
    BY <1>1, <1>3, <2>1, CallInFlight DEF Snapshot
  <2>4. Progress(r, w)' /\ Fresh(r, w)'
    BY <1>3, <2>1 DEF Progress, Fresh
  <2>5. InFlight(r)'
    BY <2>1, <2>3, <2>4 DEF InFlight
  <2> QED BY <1>1, <1>2, <1>3, <1>4, <2>1, <2>2, <2>5, CallInFlight, OneAgent DEF AgentInv
<1> QED BY <1>5, <1>6

LEMMA UndoMarksKeeps ==
    ASSUME WriterInv, FrozenInv', NEW r \in Runs, UndoMarks(r)
    PROVE  WriterInv'
<1> DEFINE w == job[r].path
<1>1. pc[r] = "undo-marks" /\ pc[r] \in Authoring
  BY DEF UndoMarks, Authoring
<1>2. Apart(r) /\ History'
  BY <1>1, CallInFlight DEF Tables, History, UndoMarks, Return, Goto, Apart
<1>3. /\ pc'[r] = "idle" /\ marks'[r] = job[r].marks
      /\ UNCHANGED <<file, registered, aborted, last, since, by>>
  BY <1>1, CallInFlight DEF Tables, UndoMarks, RestoredMarks, Return, Goto
<1>4. Rests(r)'
  BY <1>1, <1>3, CallInFlight
     DEF AgentInv, Rests, Busy, Mine, Snapshot, Progress
<1>5. InFlight(r)'
  BY <1>3 DEF InFlight, Authoring
<1>6. Distinct(r)'
  <2>1. FrozenInv
    BY DEF WriterInv
  <2>2. \A q \in registered[r] : IsCheck(q) => marks'[r][q] = marks[r][q]
    BY <2>1, UndoMarksSafe
  <2> QED BY <2>2, <1>1, <1>3, CallInFlight DEF AgentInv, Distinct
<1> QED BY <1>1, <1>2, <1>3, <1>4, <1>5, <1>6, CallInFlight, OneAgent DEF AgentInv

\* What holds of a call of uacp_artifact_write or uacp_corpus_write in flight.
LEMMA RawInFlight ==
    ASSUME WriterInv, NEW r \in Runs, pc[r] \in {"raw-write", "raw-mark"}
    PROVE  /\ job[r].path \in Corpora /\ job[r].path \in Paths /\ job[r].path \notin Own(r)
           /\ job[r].text \in Texts /\ job[r].text # NoText
           /\ registered[r] \subseteq Own(r) /\ registered[r] \subseteq Paths
           /\ AgentInv(r) /\ Tables /\ History
<1>1. RunSafe(r) /\ AgentInv(r) /\ Tables /\ History
  BY DEF WriterInv, FrozenInv
<1> QED BY <1>1, OwnPaths DEF RunSafe, JobSafe, Corpora, Paths

LEMMA RawCallKeeps ==
    ASSUME WriterInv, FrozenInv', NEW r \in Runs, NEW p \in Paths, NEW text \in Texts,
           CorpusCall(r, p, text)
    PROVE  WriterInv'
<1>1. /\ AgentInv(r) /\ Tables /\ History /\ p \in Corpora
  BY EntityWriterAssumption DEF WriterInv, FrozenInv, CorpusCall, Paths, Corpora
<1>2. Apart(r) /\ History'
  BY <1>1 DEF Tables, History, CorpusCall, RawCall, Goto, Apart
<1>3. /\ pc[r] = "idle" /\ pc'[r] = "raw-write" /\ job'[r].path = p
      /\ UNCHANGED <<file, marks, registered, aborted, last, since, by>>
  BY <1>1 DEF Tables, CorpusCall, RawCall, Goto
<1>4. Rests(r)'
  BY <1>1, <1>3 DEF AgentInv, Rests, Busy, Mine
<1>5. InFlight(r)'
  BY <1>1, <1>3 DEF AgentInv, Rests, InFlight, Busy, Mine, Authoring
<1>6. Distinct(r)'
  BY <1>1, <1>3 DEF AgentInv, Distinct
<1> QED BY <1>1, <1>2, <1>3, <1>4, <1>5, <1>6, OneAgent DEF AgentInv

LEMMA RawPersistKeeps ==
    ASSUME WriterInv, FrozenInv', NEW r \in Runs, RawPersist(r)
    PROVE  WriterInv'
<1> DEFINE w == job[r].path
<1>1. pc[r] = "raw-write"
  BY DEF RawPersist
<1>2. Apart(r) /\ History'
  BY <1>1, RawInFlight DEF Tables, History, RawPersist, Puts, Goto, Apart
<1>3. /\ pc'[r] = "raw-mark" /\ file'[w] = job[r].text /\ by'[w] = r
      /\ \A p \in Paths \ {w} : file'[p] = file[p] /\ by'[p] = by[p]
      /\ UNCHANGED <<marks, registered, aborted, job, last, since>>
  BY <1>1, RawInFlight DEF Tables, History, RawPersist, Puts, Goto
<1>4. Rests(r)'
  BY <1>1, <1>3, RawInFlight DEF AgentInv, Rests, Busy, Mine
<1>5. InFlight(r)'
  BY <1>3 DEF InFlight, Authoring
<1>6. Distinct(r)'
  BY <1>1, <1>3, RawInFlight DEF AgentInv, Distinct
<1> QED BY <1>1, <1>2, <1>3, <1>4, <1>5, <1>6, RawInFlight, OneAgent DEF AgentInv

\* RawPersist has left the call's text in the file, unless somebody else changed it.
LEMMA RawRecordHashKeeps ==
    ASSUME WriterInv, FrozenInv', NEW r \in Runs, RawRecordHash(r)
    PROVE  WriterInv'
<1> DEFINE w == job[r].path
<1>1. pc[r] = "raw-mark"
  BY DEF RawRecordHash
<1>2. Apart(r) /\ History'
  BY <1>1, RawInFlight
     DEF Tables, History, RawRecordHash, Completed, Return, Goto, Apart
<1>3. /\ pc'[r] = "idle" /\ marks'[r][w] = job[r].text
      /\ last'[r][w] = job[r].text
      /\ since'[w] = IF by[w] = r THEN "written" ELSE since[w]
      /\ \A p \in Paths \ {w} : /\ marks'[r][p] = marks[r][p]
                                /\ last'[r][p] = last[r][p] /\ since'[p] = since[p]
      /\ \A s \in Runs \ {r} : last'[s] = last[s]
      /\ UNCHANGED <<file, registered, aborted, by>>
  BY <1>1, RawInFlight DEF Tables, History, RawRecordHash, Completed, Return, Goto
<1>4. Mine(r, w) /\ (by[w] = r \/ since[w] = "written") => file[w] = job[r].text
  BY <1>1, RawInFlight DEF AgentInv, InFlight
<1>5. Rests(r)'
  BY <1>1, <1>3, <1>4, RawInFlight DEF AgentInv, Rests, Busy, Mine
<1>6. InFlight(r)'
  BY <1>3 DEF InFlight, Authoring
<1>7. Distinct(r)'
  BY <1>1, <1>3, RawInFlight DEF AgentInv, Distinct
<1> QED BY <1>1, <1>2, <1>3, <1>5, <1>6, <1>7, RawInFlight, OneAgent DEF AgentInv

\* A call that ends with its path's fate unknown: killed, or its watermark
\* could not be saved.
LEMMA CutKeeps ==
    ASSUME WriterInv, FrozenInv', NEW r \in Runs, pc[r] # "idle", Return(r),
           \A p \in Paths \ {job[r].path} : UNCHANGED <<file[p], since[p], by[p]>>,
           \/ by'[job[r].path] = r
           \/ file'[job[r].path] = file[job[r].path] /\ by'[job[r].path] = by[job[r].path],
           since'[job[r].path] = "cut", History', UNCHANGED <<marks, registered, last>>
    PROVE  WriterInv'
<1> DEFINE w == job[r].path
<1>1. /\ AgentInv(r) /\ Tables /\ registered[r] \subseteq Paths
      /\ w \in Own(r) \cup Corpora
  <2>1. RunSafe(r) /\ AgentInv(r) /\ Tables
    BY DEF WriterInv, FrozenInv
  <2>2. pc[r] \in Authoring \cup {"raw-write", "raw-mark"}
    BY <2>1 DEF Tables
  <2>3. w \in Own(r) \cup Corpora
    BY <2>1, <2>2 DEF RunSafe, JobSafe, Corpora
  <2> QED BY <2>1, <2>3, OwnPaths DEF RunSafe
<1>2. Apart(r) /\ pc'[r] = "idle"
  BY <1>1 DEF Tables, Return, Goto, Apart
<1>3. Rests(r)'
  BY <1>1, <1>2 DEF AgentInv, Rests, Busy, Mine
<1>4. InFlight(r)'
  BY <1>2 DEF InFlight, Authoring
<1>5. Distinct(r)'
  BY <1>1 DEF AgentInv, Distinct
<1> QED BY <1>1, <1>2, <1>3, <1>4, <1>5, OneAgent DEF AgentInv

\* Every step keeps what the verdict rests on.
LEMMA WriterStep == WriterInv /\ [Next]_vars => WriterInv'
<1> SUFFICES ASSUME WriterInv, [Next]_vars PROVE WriterInv'
  OBVIOUS
<1>1. FrozenInv'
  BY FrozenStep DEF WriterInv
<1>2. ASSUME NEW r \in Runs, NEW p \in Paths, NEW text \in Texts,
             Author(r, p, text) \/ CorpusCall(r, p, text)
      PROVE  WriterInv'
  BY <1>1, <1>2, AuthorKeeps, RawCallKeeps
<1>3. ASSUME NEW r \in Runs,
             \/ Persist(r) \/ RecordHash(r) \/ Register(r) \/ StepFails(r)
             \/ UndoFile(r) \/ UndoMarks(r) \/ RawPersist(r) \/ RawRecordHash(r)
      PROVE  WriterInv'
  BY <1>1, <1>3, PersistKeeps, RecordHashKeeps, RegisterKeeps, StepFailsKeeps,
     UndoFileKeeps, UndoMarksKeeps, RawPersistKeeps, RawRecordHashKeeps
<1>4. ASSUME NEW r \in Runs, RawFails(r) PROVE WriterInv'
  <2>1. CASE pc[r] = "raw-write"
    <3>1. /\ Return(r) /\ pc[r] = "raw-write"
          /\ UNCHANGED <<file, since, by, marks, registered, aborted, last>>
      BY <1>4, <2>1 DEF RawFails
    <3>2. Apart(r) /\ pc'[r] = "idle" /\ History'
      BY <2>1, <3>1, RawInFlight DEF Tables, History, Return, Goto, Apart
    <3>3. Rests(r)'
      BY <2>1, <3>1, <3>2, RawInFlight
         DEF AgentInv, InFlight, Rests, Busy, Mine
    <3>4. InFlight(r)'
      BY <3>2 DEF InFlight, Authoring
    <3>5. Distinct(r)'
      BY <2>1, <3>1, RawInFlight DEF AgentInv, Distinct
    <3> QED BY <1>1, <2>1, <3>1, <3>2, <3>3, <3>4, <3>5, RawInFlight, OneAgent DEF AgentInv
  <2>2. CASE pc[r] = "raw-mark"
    <3>1. /\ Return(r) /\ since' = [since EXCEPT ![job[r].path] = "cut"]
          /\ \/ /\ file' = [file EXCEPT ![job[r].path] = NoText]
                /\ by' = [by EXCEPT ![job[r].path] = r]
             \/ UNCHANGED <<file, by>>
          /\ UNCHANGED <<marks, registered, last>>
      BY <1>4, <2>2 DEF RawFails, Puts
    <3>2. /\ History' /\ since'[job[r].path] = "cut"
          /\ \A p \in Paths \ {job[r].path} : UNCHANGED <<file[p], since[p], by[p]>>
          /\ \/ by'[job[r].path] = r
             \/ file'[job[r].path] = file[job[r].path] /\ by'[job[r].path] = by[job[r].path]
      BY <2>2, <3>1, RawInFlight DEF History
    <3> QED BY <1>1, <2>2, <3>1, <3>2, CutKeeps
  <2> QED BY <1>4, <2>1, <2>2 DEF RawFails
<1>5. ASSUME NEW r \in Runs, Crash(r) PROVE WriterInv'
  <2>1. job[r].path \in Paths /\ pc[r] # "idle"
    <3>1. pc[r] \in Authoring \cup {"raw-write", "raw-mark"} /\ pc[r] # "idle"
      BY <1>5 DEF Crash, WriterInv, FrozenInv, Tables
    <3> QED BY <3>1, CallInFlight, RawInFlight
  <2>2. /\ Return(r) /\ since' = [since EXCEPT ![job[r].path] = "cut"]
        /\ UNCHANGED <<file, by, marks, registered, last>>
    BY <1>5 DEF Crash
  <2>3. /\ History' /\ since'[job[r].path] = "cut"
        /\ \A p \in Paths \ {job[r].path} : UNCHANGED <<file[p], since[p], by[p]>>
    BY <2>1, <2>2 DEF WriterInv, History
  <2> QED BY <1>1, <2>1, <2>2, <2>3, CutKeeps
<1>6. ASSUME NEW p \in Paths, EditByHand(p) PROVE WriterInv'
  <2>1. /\ UNCHANGED <<marks, registered, pc, job, last>>
        /\ since'[p] \in {"cut", "edited"} /\ (since'[p] = "edited" => since[p] # "cut")
        /\ by'[p] = NoText /\ NoText \notin Runs
        /\ \A q \in Paths \ {p} : UNCHANGED <<file[q], since[q], by[q]>>
        /\ History'
    BY <1>6, EntityWriterAssumption DEF EditByHand, WriterInv, History
  <2>2. ASSUME NEW r \in Runs PROVE AgentInv(r)'
    <3>1. AgentInv(r) /\ RunSafe(r)
      BY <2>1 DEF WriterInv, FrozenInv
    <3>2. Rests(r)'
      BY <2>1, <3>1 DEF AgentInv, Rests, Busy, Mine
    <3>3. registered[r] \subseteq Paths
      BY <3>1, OwnPaths DEF RunSafe
    <3>4. Distinct(r)'
      BY <2>1, <3>1, <3>3 DEF AgentInv, Distinct
    <3>5. CASE pc[r] \in Authoring
      <4>1. job[r].path \in Paths
        BY <3>5, CallInFlight
      <4>2. Snapshot(r, job[r].path)'
        BY <2>1, <3>5, <4>1, CallInFlight DEF Snapshot
      <4>3. Progress(r, job[r].path)'
        BY <2>1, <3>5, <4>1, CallInFlight DEF Progress
      <4>4. Fresh(r, job[r].path)'
        BY <2>1, <3>3, <3>5, CallInFlight DEF Fresh
      <4> QED BY <2>1, <3>2, <3>4, <3>5, <4>2, <4>3, <4>4 DEF AgentInv, InFlight, Authoring
    <3>6. CASE pc[r] \in {"raw-write", "raw-mark"}
      <4>1. job[r].path \in Paths
        BY <3>6, RawInFlight
      <4> QED BY <2>1, <3>1, <3>2, <3>4, <3>6, <4>1
              DEF AgentInv, InFlight, Authoring, Mine
    <3>7. CASE pc[r] \notin Authoring \cup {"raw-write", "raw-mark"}
      BY <2>1, <3>2, <3>4, <3>7 DEF AgentInv, InFlight
    <3> QED BY <3>5, <3>6, <3>7
  <2> QED BY <1>1, <2>1, <2>2 DEF WriterInv
<1>7. ASSUME UNCHANGED <<file, marks, registered, pc, job, last, since, by>> PROVE WriterInv'
  BY <1>1, <1>7 DEF WriterInv, History, AgentInv, Rests, InFlight, Distinct, Busy, Mine, Snapshot, Progress, Fresh
<1>8. CASE Next
  <2>1. ASSUME NEW r \in Runs, Abort(r) PROVE WriterInv'
    BY <2>1, <1>7 DEF Abort
  <2> QED BY <1>2, <1>3, <1>4, <1>5, <1>6, <1>8, <2>1 DEF Next
<1>9. CASE UNCHANGED vars
  BY <1>7, <1>9 DEF vars
<1> QED BY <1>8, <1>9

\* An edit behind the writer's back stays reported, whatever is refused or
\* rolled back afterwards: the rollback restores the watermark of the last
\* completed write, not one of the bytes it finds.
THEOREM EditsStayReported == Spec => []OutOfBandIsFlagged
<1>1. WriterInv => OutOfBandIsFlagged
  <2> SUFFICES ASSUME WriterInv, NEW r \in Runs, NEW p \in Paths, AtRest(r, p),
                      since[p] = "edited", last[r][p] \notin {NoText, file[p]}
               PROVE  p \in Flagged(r)
    BY DEF OutOfBandIsFlagged
  <2>1. marks[r][p] = last[r][p]
    BY DEF WriterInv, AgentInv, Rests, Busy, AtRest
  <2> QED BY <2>1 DEF Flagged
<1> QED BY <1>1, WriterInit, WriterStep, PTL DEF Spec

\* No run is accused for what completed calls did, but for a corpus file that
\* another run wrote after it.
THEOREM WriterIsNotAccused == Spec => []FlaggedOnlyIfOutOfBand
<1>1. WriterInv => FlaggedOnlyIfOutOfBand
  <2> SUFFICES ASSUME WriterInv, NEW r \in Runs, NEW p \in Flagged(r),
                      AtRest(r, p), since[p] = "written", ~WrittenByAnother(r, p)
               PROVE  FALSE
    BY DEF FlaggedOnlyIfOutOfBand
  <2>1. AgentInv(r) /\ RunSafe(r) /\ History /\ p \in Paths
    BY OwnPaths DEF WriterInv, FrozenInv, RunSafe, Flagged
  <2>2. marks[r][p] # NoText /\ file[p] # marks[r][p]
    BY <2>1 DEF Flagged, AgentInv, Rests
  <2>3. p \in Own(r) \cup Corpora
    BY <2>1, <2>2 DEF AgentInv, Rests
  <2>4. Mine(r, p) /\ ~Busy(r, p)
    BY <2>1, <2>3 DEF Mine, Busy, AtRest, WrittenByAnother, Corpora, History
  <2>5. file[p] = last[r][p] /\ marks[r][p] = last[r][p]
    BY <2>1, <2>4 DEF AgentInv, Rests
  <2> QED BY <2>2, <2>5
<1> QED BY <1>1, WriterInit, WriterStep, PTL DEF Spec

\* Intact registered checks of a run have ids of their own.
THEOREM ChecksKeepTheirIds == Spec => []OneCheckPerId
<1>1. WriterInv => OneCheckPerId
  BY DEF WriterInv, AgentInv, Distinct, OneCheckPerId
<1> QED BY <1>1, WriterInit, WriterStep, PTL DEF Spec
=============================================================================
