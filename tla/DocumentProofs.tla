--------------------------- MODULE DocumentProofs ---------------------------
(***************************************************************************)
(* What runs owe through their documents.                                  *)
(*                                                                         *)
(* CarryForward: what the run owes when it leaves VERIFY is in the closure *)
(* it ends with, but for what a later readiness took back, and no          *)
(* obligation of its contract enters resolved unassessed: for any          *)
(* obligations, risks and drafts, and whatever documents are reopened.     *)
(* The invariant ties the agent's advice to the documents as they stand,   *)
(* since whoever writes one must ask the gate again.                       *)
(*                                                                         *)
(* ReworkChain: a rework stands on a run that exists, one deeper than it   *)
(* and with findings to answer, and what it owes is fixed when it is       *)
(* created: for any runs, keys, paths and documents.  handle_init holds no *)
(* lock, so the invariant covers what a half-done one has read and not yet *)
(* saved.                                                                  *)
(***************************************************************************)
EXTENDS CarryForward, ReworkChain, FiniteSetTheorems, TLAPS

\* A passed gate is a gate that passes still.
Advised == advised => Gate

SafeInv == CarryTypeOK /\ Advised

\* The readiness the gate of VERIFY lets through has been written.
LEMMA ReadinessWritten ==
    ASSUME CarryTypeOK, phase = "verify", Gate
    PROVE  doc["readiness"] \in Readiness
<1>1. "readiness" \in Kinds
  BY DEF Kinds, PhaseOf
<1>2. doc["readiness"] # Missing
  BY DEF Gate, VerifyGate, Present
<1>3. Offers["readiness"] \subseteq Contents["readiness"]
  BY <1>1, CarryAssumption
<1>4. Contents["readiness"] = Readiness
  BY <1>1 DEF Contents
<1> QED BY <1>1, <1>2, <1>3, <1>4 DEF CarryTypeOK

LEMMA SafeInit == CarryInit => SafeInv
BY DEF CarryInit, SafeInv, CarryTypeOK, Advised

LEMMA SafeStep ==
    ASSUME SafeInv, [CarryNext]_carryVars
    PROVE  SafeInv'
<1>1. ASSUME NEW k \in Kinds, WriteDoc(k) PROVE SafeInv'
  <2>1. PICK c \in Offers[k] : /\ doc' = [doc EXCEPT ![k] = c]
                              /\ shed' = IF k = "readiness" THEN owed \ c.items ELSE shed
    BY <1>1 DEF WriteDoc
  <2>2. shed' \subseteq owed
    BY <2>1 DEF SafeInv, CarryTypeOK
  <2> QED BY <1>1, <2>1, <2>2 DEF SafeInv, CarryTypeOK, Advised, WriteDoc
<1>2. CASE UNCHANGED <<phase, doc, owed, shed>> /\ advised' \in BOOLEAN
                /\ finalized' \in BOOLEAN /\ (advised' => Gate)
  <2>1. Gate' = Gate
    BY <1>2 DEF Gate, ExecuteGate, VerifyGate, ResolveGate, ContractValid, CheckpointValid,
                AssessmentValid, PackageValid, ReadinessValid, SelectionValid, ClosureValid,
                Carries, Shown, Present
  <2> QED BY <1>2, <2>1 DEF SafeInv, CarryTypeOK, Advised
<1>3. CASE Ask
  BY <1>2, <1>3 DEF Ask, SafeInv, CarryTypeOK
<1>4. CASE Finalize
  BY <1>2, <1>4 DEF Finalize, SafeInv, CarryTypeOK, Advised
<1>5. CASE UNCHANGED carryVars
  BY <1>2, <1>5 DEF carryVars, SafeInv, CarryTypeOK, Advised
<1>6. CASE Cross
  <2>1. phase' \in {"execute", "verify", "resolved"}
    BY <1>6 DEF Cross, After
  <2>2. owed' \subseteq Items
    <3>1. CASE phase = "verify"
      <4>1. doc["readiness"] \in Readiness
        BY <1>6, <3>1, ReadinessWritten DEF Cross, SafeInv, Advised
      <4> QED BY <1>6, <3>1, <4>1 DEF Cross, Readiness
    <3>2. CASE phase # "verify"
      BY <1>6, <3>2 DEF Cross, SafeInv, CarryTypeOK
    <3> QED BY <3>1, <3>2
  <2>3. shed' \subseteq owed'
    BY <1>6 DEF Cross
  <2> QED BY <1>6, <2>1, <2>2, <2>3 DEF Cross, SafeInv, CarryTypeOK, Advised
<1> QED BY <1>1, <1>3, <1>4, <1>5, <1>6 DEF CarryNext

\* Whatever is drafted, the documents stay what they may be, and the run's debts
\* are items of a readiness.
THEOREM TypeCorrect == CarrySpec => []CarryTypeOK
<1>1. SafeInv => CarryTypeOK
  BY DEF SafeInv
<1> QED BY <1>1, SafeInit, SafeStep, PTL DEF CarrySpec

-----------------------------------------------------------------------------
\* In resolved the debts that were not taken back are in the readiness as it stands,
\* and a closed run's closure carries what that holds.
OwedInv ==
    /\ phase = "resolved" => owed \ shed \subseteq doc["readiness"].items
    /\ finalized => phase = "resolved" /\ Carries("closure", "readiness")

LEMMA OwedStep ==
    ASSUME SafeInv, OwedInv, [CarryNext]_carryVars
    PROVE  OwedInv'
<1>1. ASSUME NEW k \in Kinds, ~finalized, WriteDoc(k) PROVE OwedInv'
  <2>1. "readiness" \in Kinds /\ DOMAIN doc = Kinds
    BY DEF SafeInv, CarryTypeOK, Kinds, PhaseOf
  <2>2. CASE k = "readiness"
    BY <1>1, <2>1, <2>2 DEF WriteDoc, OwedInv
  <2>3. CASE k # "readiness"
    <3>1. doc'["readiness"] = doc["readiness"] /\ shed' = shed
      BY <1>1, <2>1, <2>3 DEF WriteDoc
    <3> QED BY <1>1, <3>1 DEF WriteDoc, OwedInv
  <2> QED BY <2>2, <2>3
<1>2. CASE Ask
  BY <1>2 DEF Ask, OwedInv, Carries
<1>3. CASE Cross
  BY <1>3 DEF Cross, After, OwedInv, SafeInv, CarryTypeOK
<1>4. CASE Finalize
  <2>1. Carries("closure", "readiness")
    BY <1>4 DEF Finalize, SafeInv, Advised, Gate, ResolveGate, ClosureValid
  <2> QED BY <1>4, <2>1 DEF Finalize, OwedInv, Carries
<1>5. CASE UNCHANGED carryVars
  BY <1>5 DEF carryVars, OwedInv, Carries
<1> QED BY <1>1, <1>2, <1>3, <1>4, <1>5 DEF CarryNext

\* What VERIFY handed over reaches the closure, whatever documents are written in
\* between and in whatever order; only a readiness that is written again, and
\* leaves an item out, takes it back.
THEOREM NothingOwedIsLost == CarrySpec => []OwedReachesClosure
<1>1. CarryInit => SafeInv /\ OwedInv
  BY SafeInit DEF CarryInit, OwedInv
<1>2. SafeInv /\ OwedInv /\ [CarryNext]_carryVars => (SafeInv /\ OwedInv)'
  BY SafeStep, OwedStep
<1>3. OwedInv => OwedReachesClosure
  BY DEF OwedInv, OwedReachesClosure, Carries
<1> QED BY <1>1, <1>2, <1>3, PTL DEF CarrySpec

-----------------------------------------------------------------------------
\* A set of pairs that gives o some result and no two.
LEMMA OneResult ==
    ASSUME NEW states, NEW o, NEW s \in states, s = <<o, s[2]>>, s[2] \in Results,
           \A a, b \in states : a[1] = b[1] => a = b
    PROVE  Cardinality({r \in Results : <<o, r>> \in states}) = 1
<1>1. {r \in Results : <<o, r>> \in states} = {s[2]}
  OBVIOUS
<1> QED BY <1>1, FS_Singleton

\* Every obligation of the contract a run enters resolved with has exactly one
\* assessed result.
THEOREM NoneUnassessed == CarrySpec => NoUnassessedObligation
<1> DEFINE Assessed == phase = "verify" /\ phase' = "resolved" /\ Present("contract") =>
        /\ Present("assessment")
        /\ \A o \in doc["contract"].all :
            Cardinality({r \in Results : <<o, r>> \in doc["assessment"].states}) = 1
<1>1. ASSUME SafeInv, [CarryNext]_carryVars, phase = "verify", phase' = "resolved", Present("contract")
      PROVE  /\ Present("assessment")
             /\ \A o \in doc["contract"].all :
                  Cardinality({r \in Results : <<o, r>> \in doc["assessment"].states}) = 1
  <2>1. Cross
    BY <1>1 DEF CarryNext, WriteDoc, Ask, Finalize, carryVars
  <2>2. VerifyGate
    BY <1>1, <2>1 DEF Cross, SafeInv, Advised, Gate
  <2>3. Present("assessment") /\ AssessmentValid
    BY <1>1, <2>2 DEF VerifyGate, ReadinessValid
  <2>4. doc["assessment"].states \subseteq Obligations \X Results
    <3>1. "assessment" \in Kinds
      BY DEF Kinds, PhaseOf
    <3>2. Offers["assessment"] \subseteq Assessment
      BY <3>1, CarryAssumption DEF Contents
    <3>3. doc["assessment"] \in Assessment
      BY <1>1, <2>3, <3>1, <3>2 DEF SafeInv, CarryTypeOK, Present
    <3> QED BY <3>3 DEF Assessment
  <2>5. ASSUME NEW o \in doc["contract"].all
        PROVE  Cardinality({r \in Results : <<o, r>> \in doc["assessment"].states}) = 1
    <3>1. PICK s \in doc["assessment"].states : s[1] = o
      BY <2>3 DEF AssessmentValid
    <3>2. s = <<o, s[2]>> /\ s[2] \in Results
      BY <2>4, <3>1
    <3>3. \A a, b \in doc["assessment"].states : a[1] = b[1] => a = b
      BY <2>3 DEF AssessmentValid
    <3> HIDE DEF Results
    <3> QED BY <3>1, <3>2, <3>3, OneResult
  <2> QED BY <2>3, <2>5
<1>2. SafeInv /\ [CarryNext]_carryVars => Assessed
  BY <1>1
<1>3. SafeInv /\ [CarryNext]_carryVars => [Assessed]_carryVars
  BY <1>2
<1> QED BY <1>3, SafeInit, SafeStep, PTL DEF CarrySpec, NoUnassessedObligation

-----------------------------------------------------------------------------
(* The rework chain.                                                       *)

\* d findings taken over from p, at a depth one below it.
Descends(p, n, d) ==
    /\ p \in Runs /\ status[p] # "none"
    /\ n = depth[p] + 1 /\ DOMAIN d # {}

LineageInv ==
    /\ status \in [Runs -> {"none", "open", "closed"}]
    /\ parent \in [Runs -> Runs \cup {NoRun}]
    /\ DOMAIN depth = Runs /\ DOMAIN carried = Runs
    /\ DOMAIN creating = Runs
    /\ \A r \in Runs : creating[r] # {} => status[r] = "none"
    /\ \A r \in Runs : \A m \in creating[r] :
            m.parent # NoRun => Descends(m.parent, m.depth, m.carried)
    /\ \A r \in Runs : \A m \in creating[r] : m.parent \in Runs \cup {NoRun}
    /\ \A r \in Runs : parent[r] # NoRun =>
            status[r] # "none" /\ Descends(parent[r], depth[r], carried[r])

LEMMA LineageInit == Init => LineageInv
BY DEF Init, LineageInv

LEMMA BeginKeeps ==
    ASSUME LineageInv, NEW r \in Runs, Begin(r)
    PROVE  LineageInv'
<1>1. UNCHANGED <<status, parent, depth, carried>>
  BY DEF Begin, manifests
<1>2. PICK m : /\ creating' = [creating EXCEPT ![r] = {m}]
               /\ m.parent \in Runs \cup {NoRun}
               /\ m.parent # NoRun => Descends(m.parent, m.depth, m.carried)
  <2>1. CASE creating' = [creating EXCEPT ![r] =
                 {[parent |-> NoRun, depth |-> 0, carried |-> Empty]}]
    <3> DEFINE m == [parent |-> NoRun, depth |-> 0, carried |-> Empty]
    <3>1. m.parent = NoRun
      OBVIOUS
    <3> HIDE DEF m
    <3> QED BY <2>1, <3>1 DEF m
  <2>2. ASSUME NEW p \in Runs \ {r}, status[p] # "none", DOMAIN Carry(p) # {},
               creating' = [creating EXCEPT ![r] =
                  {[parent |-> p, depth |-> depth[p] + 1, carried |-> Carry(p)]}]
        PROVE  \E m : /\ creating' = [creating EXCEPT ![r] = {m}]
                      /\ m.parent \in Runs \cup {NoRun}
                      /\ m.parent # NoRun => Descends(m.parent, m.depth, m.carried)
    <3> DEFINE m == [parent |-> p, depth |-> depth[p] + 1, carried |-> Carry(p)]
    <3>1. m.parent = p /\ m.depth = depth[p] + 1 /\ m.carried = Carry(p)
      OBVIOUS
    <3> HIDE DEF m
    <3>2. Descends(m.parent, m.depth, m.carried)
      BY <2>2, <3>1 DEF Descends
    <3> QED BY <2>2, <3>1, <3>2 DEF m
  <2> QED BY <2>1, <2>2 DEF Begin
<1>3. status[r] = "none"
  BY DEF Begin, Fresh
<1> QED BY <1>1, <1>2, <1>3 DEF LineageInv, Descends

LEMMA CreateKeeps ==
    ASSUME LineageInv, NEW r \in Runs, Create(r)
    PROVE  LineageInv'
<1>1. PICK m \in creating[r] : /\ parent' = [parent EXCEPT ![r] = m.parent]
                               /\ depth' = [depth EXCEPT ![r] = m.depth]
                               /\ carried' = [carried EXCEPT ![r] = m.carried]
  BY DEF Create
<1>2. /\ status' = [status EXCEPT ![r] = "open"]
      /\ creating' = [creating EXCEPT ![r] = {}]
  BY DEF Create
<1>3. status[r] = "none"
  BY <1>1 DEF LineageInv
<1>4. \A p, n, d : Descends(p, n, d) => Descends(p, n, d)'
  BY <1>1, <1>2, <1>3 DEF Descends, LineageInv
<1>5. m.parent # NoRun => Descends(m.parent, m.depth, m.carried)'
  BY <1>1, <1>4 DEF LineageInv
<1>6. ASSUME NEW q \in Runs, parent'[q] # NoRun
      PROVE  status'[q] # "none" /\ Descends(parent[q], depth[q], carried[q])'
  <2>1. CASE q = r
    BY <1>1, <1>2, <1>5, <1>6, <2>1 DEF LineageInv
  <2>2. CASE q # r
    BY <1>1, <1>2, <1>4, <1>6, <2>2 DEF LineageInv
  <2> QED BY <2>1, <2>2
<1>7. m.parent \in Runs \cup {NoRun}
  BY <1>1 DEF LineageInv
<1> QED BY <1>1, <1>2, <1>4, <1>6, <1>7 DEF LineageInv

LEMMA LineageStep ==
    ASSUME LineageInv, [Next]_vars
    PROVE  LineageInv'
<1>1. ASSUME NEW r \in Runs, Register(r) PROVE LineageInv'
  BY <1>1 DEF Register, LineageInv, Descends
<1>2. ASSUME NEW r \in Runs, Close(r) PROVE LineageInv'
  BY <1>2 DEF Close, LineageInv, Descends
<1>3. ASSUME NEW p \in Paths, Write(p) PROVE LineageInv'
  BY <1>3 DEF Write, manifests, LineageInv, Descends
<1>4. CASE UNCHANGED vars
  BY <1>4 DEF vars, manifests, LineageInv, Descends
<1> QED BY BeginKeeps, CreateKeeps, <1>1, <1>2, <1>3, <1>4 DEF Next

\* However many initialisers run at once, the depth the cap counts is the length
\* of the chain, and every rework carries a finding.
THEOREM LineageHasNoLoop == Spec => []LineageIsSound
<1>1. LineageInv => LineageIsSound
  BY DEF LineageInv, LineageIsSound, Descends
<1> QED BY <1>1, LineageInit, LineageStep, PTL DEF Spec

-----------------------------------------------------------------------------
\* The verdict on r reads its carry, its registrations, the documents these name
\* and the files named after it.
LEMMA VerdictIsLocal ==
    ASSUME NEW r \in Runs, carried'[r] = carried[r], artifacts'[r] = artifacts[r],
           \A p \in Paths : BoundTo[p] = r \/ p \in Range(artifacts[r])
                                => files'[p] = files[p]
    PROVE  ReworkComplete(r)' = ReworkComplete(r)
<1>1. Evidence(r)' = Evidence(r)
  BY DEF Evidence, Exists
<1>2. \A p \in Evidence(r) : p \in Paths /\ files'[p] = files[p]
  BY DEF Evidence, Exists
<1>3. Dispositions(r)' = Dispositions(r)
  BY <1>1, <1>2 DEF Dispositions
<1>4. \A e : Complete(r, e)' = Complete(r, e)
  BY DEF Complete, Exists
<1>5. Owed(r)' = Owed(r)
  BY DEF Owed
<1> QED BY <1>3, <1>4, <1>5 DEF ReworkComplete, Answered, Addresses

\* Nothing that is written elsewhere reopens or settles what a rework owes.
THEOREM OwedIsSettledAtInit == Spec => ParentCannotReopen
<1>1. ASSUME LineageInv, [Next]_vars, NEW r \in Runs, status[r] # "none"
      PROVE  carried'[r] = carried[r]
  <2>1. ASSUME NEW q \in Runs, Create(q) PROVE carried'[r] = carried[r]
    <3>1. q # r
      BY <1>1, <2>1 DEF Create, LineageInv
    <3> QED BY <2>1, <3>1 DEF Create, LineageInv
  <2>2. CASE \E q \in Runs : Begin(q) \/ Register(q) \/ Close(q)
    BY <2>2 DEF Begin, Register, Close, manifests
  <2>3. CASE \E p \in Paths : Write(p)
    BY <2>3 DEF Write, manifests
  <2> QED BY <1>1, <2>1, <2>2, <2>3 DEF Next, vars, manifests
<1>2. LineageInv /\ [Next]_vars =>
        [\A r \in Runs :
            /\ artifacts'[r] = artifacts[r] /\ status'[r] = status[r] /\ status[r] # "none"
            /\ creating[r] = {}
            /\ \A p \in Paths : BoundTo[p] = r \/ p \in Range(artifacts[r])
                                    => files'[p] = files[p]
            => ReworkComplete(r)' = ReworkComplete(r)]_vars
  BY <1>1, VerdictIsLocal
<1> QED BY <1>2, LineageInit, LineageStep, PTL DEF Spec, ParentCannotReopen

-----------------------------------------------------------------------------
\* A document is one that was drafted, so its chain is a finite list.
FilesInv ==
    /\ DOMAIN files = Paths
    /\ \A p \in Paths : files[p] # Unsaid => IsFiniteSet(files[p].chain)

LEMMA FilesStep ==
    ASSUME FilesInv, [Next]_vars
    PROVE  FilesInv'
<1>1. ASSUME NEW p \in Paths, Write(p) PROVE FilesInv'
  <2>1. PICK x \in Drafts : files' = [files EXCEPT ![p] = x[2]]
    BY <1>1 DEF Write
  <2>2. IsFiniteSet(x[2].chain)
    BY ReworkAssumption
  <2> QED BY <2>1, <2>2 DEF FilesInv
<1>2. CASE UNCHANGED files
  BY <1>2 DEF FilesInv
<1> QED BY <1>1, <1>2 DEF Next, Begin, Create, Register, Close, vars

\* So are the fit entries of a run.
LEMMA FitIsFinite ==
    ASSUME FilesInv, NEW r \in Runs
    PROVE  IsFiniteSet(Fit(r))
<1> DEFINE chains == {files[p].chain : p \in Own(r)}
           f == [p \in Own(r) |-> files[p].chain]
<1>1. IsFiniteSet(Own(r))
  BY ReworkAssumption, FS_Subset DEF Own
<1>2. f \in Surjection(Own(r), chains)
  BY DEF Surjection
<1>3. IsFiniteSet(chains)
  BY <1>1, <1>2, FS_Surjection
<1>4. \A T \in chains : IsFiniteSet(T)
  BY DEF FilesInv, Own
<1> HIDE DEF chains
<1>5. IsFiniteSet(UNION chains)
  BY <1>3, <1>4, FS_UNION
<1>6. Fit(r) \subseteq UNION chains
  BY DEF Fit, chains
<1> QED BY <1>5, <1>6, FS_Subset

\* One entry cannot stand for two documents: it names one of the two, or a key
\* that is carried for one.
LEMMA OneEntryOneDocument ==
    ASSUME NEW r, NEW e, NEW k, NEW l, carried[r][k] # carried[r][l],
           Addresses(e, k, carried[r][k]), Addresses(e, l, carried[r][l])
    PROVE  FALSE
BY DEF Addresses

\* A rework closes with at least as many answers as documents it carries.
THEOREM NoTwoFindingsByOneWord == Spec => EachFindingItsOwnAnswer
<1>1. ASSUME FilesInv, NEW r \in Runs, ReworkComplete(r)
      PROVE  Cardinality(Fit(r)) >= Cardinality(Range(carried[r]))
  <2> DEFINE carry == carried[r]
             For(e, p) == \E k \in DOMAIN carry : carry[k] = p /\ Addresses(e, k, p)
             answer == [p \in Range(carry) |-> CHOOSE e \in Fit(r) : For(e, p)]
  <2>1. ASSUME NEW p \in Range(carry) PROVE \E e \in Fit(r) : For(e, p)
    <3>1. PICK k \in DOMAIN carry : carry[k] = p
      BY DEF Range
    <3>2. PICK e \in Dispositions(r) : Addresses(e, k, p) /\ Complete(r, e) /\ e.formed
      BY <1>1, <3>1 DEF ReworkComplete, Answered, Owed
    <3>3. PICK q \in Evidence(r) : e \in files[q].chain
      BY <3>2 DEF Dispositions
    <3>4. q \in Own(r)
      BY <3>3 DEF Evidence, Exists, Own
    <3>5. e.handling = "remediated" => Exists(e.fix) /\ BoundTo[e.fix] = r
      BY <3>2 DEF Complete
    <3>6. e.handling # "remediated" => e.handling = "accepted"
      BY <3>2 DEF Complete
    <3>7. Unsaid \notin Paths
      BY ReworkAssumption
    <3>8. e \in Fit(r)
      BY <3>2, <3>3, <3>4, <3>5, <3>6, <3>7 DEF Fit, Exists
    <3> QED BY <3>1, <3>2, <3>8
  <2>2. ASSUME NEW p \in Range(carry) PROVE answer[p] \in Fit(r) /\ For(answer[p], p)
    BY <2>1
  <2>3. ASSUME NEW p \in Range(carry), NEW q \in Range(carry), answer[p] = answer[q]
        PROVE  p = q
    <3>1. PICK k \in DOMAIN carry : carry[k] = p /\ Addresses(answer[p], k, p)
      BY <2>2
    <3>2. PICK l \in DOMAIN carry : carry[l] = q /\ Addresses(answer[p], l, q)
      BY <2>2, <2>3
    <3> HIDE DEF answer
    <3> QED BY <3>1, <3>2, OneEntryOneDocument
  <2>4. answer \in [Range(carry) -> Fit(r)]
    BY <2>2
  <2> HIDE DEF answer
  <2>5. answer \in Injection(Range(carry), Fit(r))
    BY <2>3, <2>4 DEF Injection, IsInjective
  <2>6. IsFiniteSet(Fit(r))
    BY <1>1, FitIsFinite
  <2>7. IsFiniteSet(Range(carry)) /\ Cardinality(Range(carry)) <= Cardinality(Fit(r))
    BY <2>5, <2>6, FS_Injection
  <2>8. Cardinality(Range(carry)) \in Nat /\ Cardinality(Fit(r)) \in Nat
    BY <2>6, <2>7, FS_CardinalityType
  <2> QED BY <2>7, <2>8
<1>2. ASSUME LineageInv, NEW r \in Runs, [Next]_vars, Closes(r)
      PROVE  ReworkComplete(r)
  <2>1. \A q \in Runs : Begin(q) \/ Register(q) => status' = status
    BY DEF Begin, Register, manifests
  <2>2. \A q \in Runs : Create(q) => status' = [status EXCEPT ![q] = "open"]
    BY DEF Create
  <2>3. \A p \in Paths : Write(p) => status' = status
    BY DEF Write, manifests
  <2>4. status # status' /\ \A q \in Runs : status' # [status EXCEPT ![q] = "open"]
    <3>1. \A q \in Runs : [status EXCEPT ![q] = "open"][r] = "open"
      BY <1>2 DEF Closes, LineageInv
    <3> QED BY <1>2, <3>1 DEF Closes
  <2>5. PICK q \in Runs : Close(q)
    BY <1>2, <2>1, <2>2, <2>3, <2>4 DEF Next, vars, manifests
  <2>6. q = r
    BY <1>2, <2>5 DEF Closes, Close, LineageInv
  <2> QED BY <2>5, <2>6 DEF Close
<1>3. LineageInv /\ FilesInv /\ [Next]_vars =>
        [\A r \in Runs : Closes(r) =>
            Cardinality(Fit(r)) >= Cardinality(Range(carried[r]))]_vars
  BY <1>1, <1>2
<1>4. Init => FilesInv
  BY DEF Init, FilesInv
<1> QED BY <1>3, <1>4, LineageInit, LineageStep, FilesStep, PTL DEF Spec, EachFindingItsOwnAnswer
=============================================================================
