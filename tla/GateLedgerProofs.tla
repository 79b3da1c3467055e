-------------------------- MODULE GateLedgerProofs --------------------------
(***************************************************************************)
(* The ledger's promises for any processes, crashes and calls by hand.     *)
(* The run lock makes the read of the passing records and the append one   *)
(* step to everybody else; a call in flight therefore knows what the       *)
(* ledger still lacks.  What the closure sweep refuses of a finished run   *)
(* is therefore what agents left there by hand, and nothing else.          *)
(***************************************************************************)
EXTENDS GateLedger, FiniteSetTheorems, TLAPS

\* A record names the gate its call was tested for.
NamedAsCalled == \A c \in HandCalls : c.named = c.gate

Named == {c.named : c \in HandCalls}
Crossed == {history[i] : i \in DOMAIN history}

-----------------------------------------------------------------------------
(* Phases in the order of the graph.                                       *)

Rank == [ph \in Phases |->
    CASE ph = "brainstorm" -> 0 [] ph = "triage" -> 1 [] ph = "propose" -> 2
      [] ph = "plan" -> 3 [] ph = "execute" -> 4 [] ph = "verify" -> 5 [] OTHER -> 6]

\* An edge leads one rank up, and the rank tells the phase: a phase has one exit.
LEMMA EdgesClimb ==
    /\ \A e \in Edges : /\ e \in TransitionGates /\ e[1] \in Phases /\ e[2] \in Phases
                        /\ e = <<e[1], e[2]>> /\ Rank[e[2]] = Rank[e[1]] + 1
                        /\ e[1] \in LifecyclePhases /\ e[2] \in ValidTransitions[e[1]]
    /\ \A ph \in Phases : Rank[ph] \in 0 .. 6
    /\ \A a, b \in Phases : Rank[a] = Rank[b] => a = b
    /\ TriageComplete \notin TransitionGates
<1>1. Phases = {"brainstorm", "triage", "propose", "plan", "execute", "verify", "resolved"}
  BY DEF Phases, LifecyclePhases
<1>2. \A ph \in Phases : Rank[ph] \in 0 .. 6
  BY <1>1 DEF Rank
<1>3. \A a, b \in Phases : Rank[a] = Rank[b] => a = b
  BY <1>1 DEF Rank
<1>4. ASSUME NEW e \in Edges
      PROVE  /\ e \in TransitionGates /\ e[1] \in Phases /\ e[2] \in Phases
             /\ e = <<e[1], e[2]>> /\ Rank[e[2]] = Rank[e[1]] + 1
             /\ e[1] \in LifecyclePhases /\ e[2] \in ValidTransitions[e[1]]
  <2>1. /\ e \in Phases \X Phases /\ e[1] \in LifecyclePhases
        /\ e[2] \in ValidTransitions[e[1]]
    BY DEF Edges
  <2>2. /\ e[1] = "brainstorm" => e[2] = "triage"
        /\ e[1] = "triage" => e[2] = "propose"
        /\ e[1] = "propose" => e[2] = "plan"
        /\ e[1] = "plan" => e[2] = "execute"
        /\ e[1] = "execute" => e[2] = "verify"
        /\ e[1] = "verify" => e[2] = "resolved"
        /\ e[1] # "resolve"
    BY <1>1, <2>1 DEF ValidTransitions, LifecycleGraph, LifecyclePhases, TerminalSink,
       CanonicalTarget
  <2>3. Rank[e[2]] = Rank[e[1]] + 1
    BY <1>1, <2>1, <2>2 DEF Rank, LifecyclePhases
  <2> QED BY <2>1, <2>3 DEF TransitionGates
<1>5. TriageComplete \notin TransitionGates
  BY <1>1 DEF TriageComplete, TransitionGates
<1> QED BY <1>2, <1>3, <1>4, <1>5

-----------------------------------------------------------------------------
Locked == \A p \in Procs : pc[p] # "idle" => lock = p

\* What a call in flight is about.
InCall(p) ==
    /\ pc[p] = "append" => job[p].call \in HandCalls
    /\ pc[p] \in {"gate", "emit"} => job[p].edge \in Edges /\ job[p].edge[1] = phase
    /\ pc[p] = "emit" =>
          LET e == job[p].edge IN
          /\ \A k \in DOMAIN job[p].todo : job[p].todo[k] \in CanonicalGates(e)
          /\ e \in Passing \/ (job[p].todo # <<>> /\ job[p].todo[1] = e)

\* A gate nobody records by hand is on the ledger because it was crossed, or
\* is about to be.
Lead ==
    \A e \in TransitionGates \ Named :
        At(ledger, e) # {} => e \in Edges /\ (e[1] = phase \/ e \in Crossed)

LedgerInv == TypeOK /\ Locked /\ Lead /\ \A p \in Procs : InCall(p)

\* What one more record changes.
LEMMA OneMoreRecord ==
    ASSUME TypeOK, NEW g \in Gates, NEW result \in {"pass", "fail"}, AppendRecord(g, result)
    PROVE  /\ ledger' \in Seq([gate: Gates, result: {"pass", "fail"}])
           /\ DOMAIN ledger' = DOMAIN ledger \cup {Len(ledger) + 1}
           /\ Len(ledger) \in Nat /\ Len(ledger) + 1 \notin DOMAIN ledger
           /\ \A i \in DOMAIN ledger : ledger'[i] = ledger[i]
           /\ ledger'[Len(ledger) + 1] = [gate |-> g, result |-> result]
           /\ Passing' = Passing \cup (IF result = "pass" THEN {g} ELSE {})
<1>1. ledger \in Seq([gate: Gates, result: {"pass", "fail"}])
  BY DEF TypeOK
<1>2. /\ ledger' \in Seq([gate: Gates, result: {"pass", "fail"}])
      /\ DOMAIN ledger' = DOMAIN ledger \cup {Len(ledger) + 1}
      /\ Len(ledger) \in Nat /\ Len(ledger) + 1 \notin DOMAIN ledger
      /\ \A i \in DOMAIN ledger : ledger'[i] = ledger[i]
      /\ ledger'[Len(ledger) + 1] = [gate |-> g, result |-> result]
  BY <1>1 DEF AppendRecord
<1>3. Passing' = Passing \cup (IF result = "pass" THEN {g} ELSE {})
  BY <1>2 DEF Passing
<1> QED BY <1>2, <1>3

LEMMA OneMoreAt ==
    ASSUME TypeOK, NEW g \in Gates, NEW result \in {"pass", "fail"}, AppendRecord(g, result),
           NEW h
    PROVE  At(ledger', h) = At(ledger, h) \cup (IF h = g THEN {Len(ledger) + 1} ELSE {})
<1>1. /\ DOMAIN ledger' = DOMAIN ledger \cup {Len(ledger) + 1}
      /\ Len(ledger) \in Nat /\ Len(ledger) + 1 \notin DOMAIN ledger
      /\ \A i \in DOMAIN ledger : ledger'[i] = ledger[i]
      /\ ledger'[Len(ledger) + 1] = [gate |-> g, result |-> result]
  BY OneMoreRecord, Zenon
<1>2. ASSUME NEW i
      PROVE  i \in At(ledger', h) <=>
                 i \in At(ledger, h) \cup (IF h = g THEN {Len(ledger) + 1} ELSE {})
  <2>1. CASE i \in DOMAIN ledger
    BY <1>1, <2>1 DEF At
  <2>2. CASE i = Len(ledger) + 1
    BY <1>1, <2>2 DEF At
  <2>3. CASE i \notin DOMAIN ledger'
    BY <1>1, <2>3 DEF At
  <2> QED BY <1>1, <2>1, <2>2, <2>3
<1> QED BY <1>2

-----------------------------------------------------------------------------
LEMMA TypeInit == Init => LedgerInv
<1> SUFFICES ASSUME Init PROVE LedgerInv
  OBVIOUS
<1>1. TypeOK
  BY GateLedgerAssumption DEF Init, TypeOK, NoJob, InitialPhases, Phases, LifecyclePhases
<1>2. Locked /\ \A p \in Procs : InCall(p)
  BY DEF Init, Locked, InCall
<1>3. Lead
  BY DEF Init, Lead, At
<1> QED BY <1>1, <1>2, <1>3 DEF LedgerInv

\* Who has the lock is alone in a call.
LEMMA OthersIdle ==
    ASSUME LedgerInv, NEW p \in Procs, pc[p] # "idle" \/ lock = NoProc
    PROVE  \A q \in Procs \ {p} : pc[q] = "idle"
BY GateLedgerAssumption DEF LedgerInv, Locked

\* A step of the process in a call: its own part, and that the lock is its own.
LEMMA OneCall ==
    ASSUME LedgerInv, NEW p \in Procs, pc[p] # "idle" \/ lock = NoProc,
           TypeOK', Lead', InCall(p)', pc'[p] # "idle" => lock' = p,
           \A q \in Procs \ {p} : pc'[q] = pc[q]
    PROVE  LedgerInv'
<1>1. \A q \in Procs \ {p} : pc'[q] = "idle"
  BY OthersIdle
<1>2. \A q \in Procs : InCall(q)'
  BY <1>1 DEF InCall
<1>3. Locked'
  BY <1>1 DEF Locked
<1> QED BY <1>2, <1>3 DEF LedgerInv

\* A call's end leaves its process as it was in the beginning.
LEMMA EndTypes ==
    ASSUME TypeOK, NEW p \in Procs, Return(p)
    PROVE  /\ pc' \in [Procs -> {"idle", "append", "gate", "emit"}]
           /\ job' \in [Procs -> [call: HandCalls \cup {NoCall},
                                 edge: Edges \cup {NoEdge}, todo: Seq(Gates)]]
<1>1. NoJob \in [call: HandCalls \cup {NoCall}, edge: Edges \cup {NoEdge}, todo: Seq(Gates)]
  BY DEF NoJob
<1> QED BY <1>1 DEF TypeOK, Return, Goto

LEMMA StartsKeep ==
    ASSUME LedgerInv, NEW p \in Procs,
           \/ \E c \in HandCalls : AppendRead(p, c)
           \/ \E e \in Edges : TransitionStart(p, e)
    PROVE  LedgerInv'
<1>1. TypeOK /\ Lead /\ pc[p] = "idle" /\ lock = NoProc
  BY DEF LedgerInv, AppendRead, TransitionStart
<1>2. UNCHANGED <<ledger, history, phase>>
  BY DEF AppendRead, TransitionStart
<1>3. Lead'
  BY <1>1, <1>2 DEF Lead, At, Crossed
<1>4. CASE \E c \in HandCalls : AppendRead(p, c)
  <2>1. PICK c \in HandCalls : AppendRead(p, c)
    BY <1>4
  <2>2. TypeOK'
    BY <1>1, <2>1 DEF TypeOK, AppendRead, Goto
  <2>3. /\ pc'[p] = "append" /\ job'[p].call = c /\ lock' = p
        /\ \A q \in Procs \ {p} : pc'[q] = pc[q]
    BY <1>1, <2>1 DEF TypeOK, AppendRead, Goto
  <2> QED BY <1>1, <1>3, <2>2, <2>3, OneCall DEF InCall
<1>5. CASE \E e \in Edges : TransitionStart(p, e)
  <2>1. PICK e \in Edges : TransitionStart(p, e)
    BY <1>5
  <2>2. TypeOK'
    BY <1>1, <2>1 DEF TypeOK, TransitionStart, Goto
  <2>3. /\ pc'[p] = "gate" /\ job'[p].edge = e /\ lock' = p /\ e[1] = phase'
        /\ \A q \in Procs \ {p} : pc'[q] = pc[q]
    BY <1>1, <2>1 DEF TypeOK, TransitionStart, Goto
  <2> QED BY <1>1, <1>3, <2>2, <2>3, OneCall DEF InCall
<1> QED BY <1>4, <1>5

\* A call that ends without a record or a crossing.
LEMMA EndsKeep ==
    ASSUME LedgerInv, NEW p \in Procs, GateBlocks(p) \/ Crash(p)
    PROVE  LedgerInv'
<1>1. TypeOK /\ Lead /\ pc[p] # "idle"
  BY DEF LedgerInv, GateBlocks, Crash
<1>2. UNCHANGED <<ledger, history, phase>> /\ Return(p) /\ lock' \in {lock, NoProc}
  BY DEF GateBlocks, Crash
<1>3. TypeOK'
  BY <1>1, <1>2, EndTypes DEF TypeOK
<1>4. pc'[p] = "idle" /\ \A q \in Procs \ {p} : pc'[q] = pc[q]
  BY <1>1, <1>2 DEF TypeOK, Return, Goto
<1>5. Lead'
  BY <1>1, <1>2 DEF Lead, At, Crossed
<1> QED BY <1>1, <1>3, <1>4, <1>5, OneCall DEF InCall

LEMMA AppendWriteKeeps ==
    ASSUME LedgerInv, NEW p \in Procs, AppendWrite(p)
    PROVE  LedgerInv'
<1>1. TypeOK /\ Lead /\ pc[p] = "append" /\ job[p].call \in HandCalls
  BY DEF LedgerInv, InCall, AppendWrite
<1>2. /\ job[p].call.named \in Gates /\ job[p].call.result \in {"pass", "fail"}
      /\ job[p].call.named \in Named
  BY <1>1, HandCallsAssumption DEF Named
<1>3. AppendRecord(job[p].call.named, job[p].call.result)
  BY DEF AppendWrite
<1>4. TypeOK'
  <2>1. ledger' \in Seq([gate: Gates, result: {"pass", "fail"}])
    BY <1>1, <1>2, <1>3, OneMoreRecord
  <2> QED BY <1>1, <2>1, EndTypes DEF TypeOK, AppendWrite
<1>5. pc'[p] = "idle" /\ \A q \in Procs \ {p} : pc'[q] = pc[q]
  BY <1>1 DEF TypeOK, AppendWrite, Return, Goto
<1>6. ASSUME NEW e \in TransitionGates \ Named PROVE At(ledger', e) = At(ledger, e)
  BY <1>1, <1>2, <1>3, OneMoreAt
<1>7. Lead'
  BY <1>1, <1>6 DEF Lead, AppendWrite, Crossed
<1> QED BY <1>1, <1>4, <1>5, <1>7, OneCall DEF InCall

\* The records a transition is still to write.
LEMMA MissingRecords ==
    ASSUME NEW e \in Edges, NEW S
    PROVE  LET m == Missing(e, S) IN
           /\ m \in Seq(Gates) /\ \A k \in DOMAIN m : m[k] \in CanonicalGates(e) \ S
           /\ e \in S \/ (m # <<>> /\ m[1] = e)
           /\ \A k, l \in DOMAIN m : m[k] = m[l] => k = l
<1> DEFINE edge == IF e \in S THEN <<>> ELSE <<e>>
<1>1. /\ e \in Gates /\ TriageComplete \in Gates /\ e # TriageComplete
      /\ e \in CanonicalGates(e)
      /\ e[1] = "triage" => TriageComplete \in CanonicalGates(e)
  BY EdgesClimb DEF Gates, CanonicalGates
<1>2. edge \in Seq(Gates)
  BY <1>1
<1>3. CASE e[1] = "triage" /\ TriageComplete \notin S
  <2>1. Missing(e, S) = Append(edge, TriageComplete)
    BY <1>3 DEF Missing
  <2>2. /\ Append(edge, TriageComplete) \in Seq(Gates)
        /\ Len(Append(edge, TriageComplete)) = Len(edge) + 1
        /\ DOMAIN Append(edge, TriageComplete) = 1 .. Len(edge) + 1
        /\ \A k \in 1 .. Len(edge) : Append(edge, TriageComplete)[k] = edge[k]
        /\ Append(edge, TriageComplete)[Len(edge) + 1] = TriageComplete
    BY <1>1, <1>2
  <2>3. /\ e \in S => Len(edge) = 0
        /\ e \notin S => Len(edge) = 1 /\ edge[1] = e
    OBVIOUS
  <2> QED BY <1>1, <1>3, <2>1, <2>2, <2>3
<1>4. CASE ~(e[1] = "triage" /\ TriageComplete \notin S)
  <2>1. Missing(e, S) = edge
    BY <1>4 DEF Missing
  <2> QED BY <1>1, <1>2, <2>1
<1> QED BY <1>3, <1>4

LEMMA GatePassesKeeps ==
    ASSUME LedgerInv, NEW p \in Procs, GatePasses(p)
    PROVE  LedgerInv'
<1>1. TypeOK /\ Lead /\ pc[p] = "gate" /\ job[p].edge \in Edges /\ job[p].edge[1] = phase
  BY DEF LedgerInv, InCall, GatePasses
<1> DEFINE e == job[p].edge
           m == Missing(e, Passing)
<1>2. /\ \A k \in DOMAIN m : m[k] \in CanonicalGates(e)
      /\ e \in Passing \/ (m # <<>> /\ m[1] = e)
  BY <1>1, MissingRecords
<1>3. m \in Seq(Gates)
  BY <1>1, MissingRecords
<1>4. /\ pc'[p] = "emit" /\ job'[p].todo = m /\ job'[p].edge = e /\ lock' = lock
      /\ \A q \in Procs \ {p} : pc'[q] = pc[q]
      /\ UNCHANGED <<ledger, history, phase>>
  BY <1>1 DEF TypeOK, GatePasses, Goto
<1>5. TypeOK'
  BY <1>1, <1>3 DEF TypeOK, GatePasses, Goto
<1>6. Passing' = Passing /\ Lead'
  BY <1>1, <1>4 DEF Passing, Lead, At, Crossed
<1>7. InCall(p)'
  BY <1>1, <1>2, <1>4, <1>6 DEF InCall
<1>8. lock = p
  BY <1>1 DEF LedgerInv, Locked
<1> QED BY <1>1, <1>4, <1>5, <1>6, <1>7, <1>8, OneCall

LEMMA EmitKeeps ==
    ASSUME LedgerInv, NEW p \in Procs, Emit(p)
    PROVE  LedgerInv'
<1> DEFINE e == job[p].edge
           todo == job[p].todo
<1>1. /\ TypeOK /\ Lead /\ pc[p] = "emit" /\ e \in Edges /\ e[1] = phase /\ todo # <<>>
      /\ \A k \in DOMAIN todo : todo[k] \in CanonicalGates(e)
      /\ e \in Passing \/ todo[1] = e
  BY DEF LedgerInv, InCall, Emit
<1>2. /\ todo \in Seq(Gates) /\ Head(todo) = todo[1] /\ Head(todo) \in CanonicalGates(e)
      /\ Tail(todo) \in Seq(Gates)
      /\ \A k \in DOMAIN Tail(todo) : k + 1 \in DOMAIN todo /\ Tail(todo)[k] = todo[k + 1]
  <2>1. todo \in Seq(Gates)
    BY <1>1 DEF TypeOK
  <2> QED BY <1>1, <2>1
<1>3. Head(todo) \in Gates /\ AppendRecord(Head(todo), "pass")
  BY <1>1, <1>2, EdgesClimb DEF Gates, CanonicalGates, Emit
<1>4. /\ pc'[p] = "emit" /\ job'[p].todo = Tail(todo) /\ job'[p].edge = e /\ lock' = lock
      /\ pc' = pc /\ UNCHANGED <<history, phase>>
  BY <1>1 DEF TypeOK, Emit
<1>5. Tail(todo) \in Seq(Gates)
  BY <1>2
<1>6. TypeOK'
  <2>1. ledger' \in Seq([gate: Gates, result: {"pass", "fail"}])
    BY <1>1, <1>3, OneMoreRecord
  <2>2. job' \in [Procs -> [call: HandCalls \cup {NoCall},
                            edge: Edges \cup {NoEdge}, todo: Seq(Gates)]]
    BY <1>1, <1>5 DEF TypeOK, Emit
  <2> QED BY <1>1, <1>4, <2>1, <2>2 DEF TypeOK
<1>7. e \in Passing'
  BY <1>1, <1>2, <1>3, OneMoreRecord
<1>8. InCall(p)'
  BY <1>1, <1>2, <1>4, <1>7 DEF InCall
<1>9. Lead'
  <2>1. ASSUME NEW g \in TransitionGates \ {e} PROVE At(ledger', g) = At(ledger, g)
    <3>1. g # Head(todo)
      BY <1>2, EdgesClimb DEF CanonicalGates
    <3> QED BY <1>1, <1>3, <3>1, OneMoreAt
  <2> QED BY <1>1, <1>4, <2>1 DEF Lead, Crossed
<1>10. lock = p
  BY <1>1 DEF LedgerInv, Locked
<1> QED BY <1>1, <1>4, <1>6, <1>8, <1>9, <1>10, OneCall

\* A history with one edge more.
LEMMA OneMoreEdge ==
    ASSUME TypeOK, NEW e \in Edges, Cross(e)
    PROVE  /\ history' \in Seq(Edges) /\ Len(history') = Len(history) + 1
           /\ Len(history) \in Nat /\ DOMAIN history = 1 .. Len(history)
           /\ DOMAIN history' = 1 .. Len(history) + 1
           /\ \A i \in DOMAIN history : history'[i] = history[i]
           /\ history'[Len(history) + 1] = e
           /\ Crossed' = Crossed \cup {e} /\ phase' = e[2]
<1>1. /\ history' \in Seq(Edges) /\ Len(history') = Len(history) + 1
      /\ Len(history) \in Nat /\ DOMAIN history = 1 .. Len(history)
      /\ DOMAIN history' = 1 .. Len(history) + 1
      /\ \A i \in DOMAIN history : history'[i] = history[i]
      /\ history'[Len(history) + 1] = e /\ phase' = e[2]
  BY DEF TypeOK, Cross
<1>2. Crossed' = Crossed \cup {e}
  BY <1>1 DEF Crossed
<1> QED BY <1>1, <1>2

\* The phase that is left has one exit: what was recorded ahead of the
\* history for it is the edge that is crossed.
LEMMA SaveKeeps ==
    ASSUME LedgerInv, NEW p \in Procs, TransitionSave(p)
    PROVE  LedgerInv'
<1> DEFINE e == job[p].edge
<1>1. TypeOK /\ Lead /\ pc[p] = "emit" /\ e \in Edges /\ e[1] = phase
  BY DEF LedgerInv, InCall, TransitionSave
<1>2. Cross(e)
  BY DEF TransitionSave
<1>3. TypeOK'
  <2>1. history' \in Seq(Edges) /\ phase' \in Phases
    BY <1>1, <1>2, OneMoreEdge, EdgesClimb
  <2> QED BY <1>1, <2>1, EndTypes DEF TypeOK, TransitionSave
<1>4. pc'[p] = "idle" /\ \A q \in Procs \ {p} : pc'[q] = pc[q]
  BY <1>1 DEF TypeOK, TransitionSave, Return, Goto
<1>5. Lead'
  <2> SUFFICES ASSUME NEW g \in TransitionGates \ Named, At(ledger, g) # {}
               PROVE  g \in Edges /\ g \in Crossed'
    BY DEF Lead, TransitionSave
  <2>1. g \in Edges /\ (g[1] = phase \/ g \in Crossed)
    BY <1>1 DEF Lead
  <2>2. g[1] = e[1] => g = e
    BY <1>1, <2>1, EdgesClimb
  <2> QED BY <1>1, <1>2, <2>1, <2>2, OneMoreEdge
<1> QED BY <1>1, <1>3, <1>4, <1>5, OneCall DEF InCall

LEMMA LedgerStep == LedgerInv /\ [Next]_vars => LedgerInv'
<1>1. ASSUME LedgerInv, UNCHANGED vars PROVE LedgerInv'
  BY <1>1 DEF LedgerInv, vars, TypeOK, Locked, Lead, At, Crossed, InCall, Passing
<1>2. ASSUME LedgerInv, Next PROVE LedgerInv'
  BY <1>2, StartsKeep, EndsKeep, AppendWriteKeeps, GatePassesKeeps, EmitKeeps, SaveKeeps
     DEF Next, Step
<1> QED BY <1>1, <1>2

\* The ledger is ahead of the history by the edge that is being crossed, or
\* that a killed process was crossing, and by nothing else.
THEOREM LedgerRunsOneAhead == Spec => []LedgerLeadsByOneEdge
<1>1. LedgerInv => LedgerLeadsByOneEdge
  BY DEF LedgerInv, Lead, LedgerLeadsByOneEdge, Crossed, Named
<1> QED BY <1>1, TypeInit, LedgerStep, PTL DEF Spec

-----------------------------------------------------------------------------
(* One passing record for each gate.                                       *)

Single ==
    \A i, j \in DOMAIN ledger :
        /\ ledger[i].result = "pass" /\ ledger[j].result = "pass"
        /\ ledger[i].gate = ledger[j].gate
        => i = j

\* What a call in flight is about to record has no passing record yet.
Lacking(p) ==
    /\ pc[p] = "append" /\ job[p].call.result = "pass" => job[p].call.gate \notin Passing
    /\ pc[p] = "emit" =>
          \A k, l \in DOMAIN job[p].todo :
              job[p].todo[k] \notin Passing /\ (job[p].todo[k] = job[p].todo[l] => k = l)

SingleInv == LedgerInv /\ Single /\ \A p \in Procs : Lacking(p)

\* A step of the process in a call: only its own part is in question.
LEMMA OneLacking ==
    ASSUME SingleInv, LedgerInv', NEW p \in Procs, pc[p] # "idle" \/ lock = NoProc,
           \A q \in Procs \ {p} : pc'[q] = pc[q], Single', Lacking(p)'
    PROVE  SingleInv'
<1>1. \A q \in Procs \ {p} : pc'[q] = "idle"
  BY OthersIdle DEF SingleInv
<1> QED BY <1>1 DEF SingleInv, Lacking

LEMMA SingleGrows ==
    ASSUME TypeOK, Single, NEW g \in Gates, NEW result \in {"pass", "fail"},
           AppendRecord(g, result), result = "pass" => g \notin Passing
    PROVE  Single'
<1>1. /\ DOMAIN ledger' = DOMAIN ledger \cup {Len(ledger) + 1}
      /\ \A i \in DOMAIN ledger : ledger'[i] = ledger[i]
      /\ ledger'[Len(ledger) + 1] = [gate |-> g, result |-> result]
  BY OneMoreRecord, Zenon
<1>2. result = "pass" => \A i \in DOMAIN ledger : ledger[i].result = "pass" => ledger[i].gate # g
  BY DEF Passing
<1> QED BY <1>1, <1>2 DEF Single

\* The test and the append of a record by hand are under one lock, and so are
\* the test and the appends of a transition.
LEMMA SingleStep ==
    ASSUME NamedAsCalled, SingleInv, [Next]_vars
    PROVE  SingleInv'
<1>1. LedgerInv' /\ LedgerInv /\ TypeOK
  BY LedgerStep DEF SingleInv, LedgerInv
<1>2. ASSUME UNCHANGED ledger PROVE Single' /\ Passing' = Passing
  BY <1>2 DEF SingleInv, Single, Passing
<1>3. ASSUME NEW p \in Procs, NEW c \in HandCalls, AppendRead(p, c) PROVE SingleInv'
  <2>1. /\ pc'[p] = "append" /\ job'[p].call = c /\ lock = NoProc
        /\ \A q \in Procs \ {p} : pc'[q] = pc[q]
    BY <1>1, <1>3 DEF TypeOK, AppendRead, Goto
  <2>2. c.gate \in Gates
    BY HandCallsAssumption
  <2>3. c.result = "pass" => c.gate \notin Passing
    BY <1>3, <2>2 DEF AppendRead, Deduplicated, IsCanonical, Gates
  <2>4. Single' /\ Passing' = Passing
    BY <1>2, <1>3 DEF AppendRead
  <2>5. Lacking(p)'
    BY <2>1, <2>3, <2>4 DEF Lacking
  <2> QED BY <1>1, <2>1, <2>4, <2>5, OneLacking
<1>4. ASSUME NEW p \in Procs, NEW e \in Edges, TransitionStart(p, e) PROVE SingleInv'
  <2>1. pc'[p] = "gate" /\ lock = NoProc /\ \A q \in Procs \ {p} : pc'[q] = pc[q]
    BY <1>1, <1>4 DEF TypeOK, TransitionStart, Goto
  <2>2. Single'
    BY <1>2, <1>4 DEF TransitionStart
  <2> QED BY <1>1, <2>1, <2>2, OneLacking DEF Lacking
<1>5. ASSUME NEW p \in Procs, GateBlocks(p) \/ Crash(p) \/ TransitionSave(p) PROVE SingleInv'
  <2>1. pc[p] # "idle" /\ Return(p) /\ UNCHANGED ledger
    BY <1>5 DEF GateBlocks, Crash, TransitionSave
  <2>2. pc'[p] = "idle" /\ \A q \in Procs \ {p} : pc'[q] = pc[q]
    BY <1>1, <2>1 DEF TypeOK, Return, Goto
  <2>3. Single'
    BY <1>2, <2>1
  <2> QED BY <1>1, <2>1, <2>2, <2>3, OneLacking DEF Lacking
<1>6. ASSUME NEW p \in Procs, AppendWrite(p) PROVE SingleInv'
  <2> DEFINE c == job[p].call
  <2>1. pc[p] = "append" /\ c \in HandCalls /\ AppendRecord(c.named, c.result)
    BY <1>1, <1>6 DEF LedgerInv, InCall, AppendWrite
  <2>2. /\ c.named \in Gates /\ c.result \in {"pass", "fail"}
        /\ c.result = "pass" => c.named \notin Passing
    BY <2>1, HandCallsAssumption DEF NamedAsCalled, SingleInv, Lacking
  <2>3. Single'
    BY <1>1, <2>1, <2>2, SingleGrows DEF SingleInv
  <2>4. pc'[p] = "idle" /\ \A q \in Procs \ {p} : pc'[q] = pc[q]
    BY <1>1, <1>6 DEF TypeOK, AppendWrite, Return, Goto
  <2> QED BY <1>1, <2>1, <2>3, <2>4, OneLacking DEF Lacking
<1>7. ASSUME NEW p \in Procs, GatePasses(p) PROVE SingleInv'
  <2> DEFINE m == Missing(job[p].edge, Passing)
  <2>1. pc[p] = "gate" /\ job[p].edge \in Edges
    BY <1>1, <1>7 DEF LedgerInv, InCall, GatePasses
  <2>2. \A k, l \in DOMAIN m : m[k] \notin Passing /\ (m[k] = m[l] => k = l)
    BY <2>1, MissingRecords
  <2>3. /\ pc'[p] = "emit" /\ job'[p].todo = m /\ \A q \in Procs \ {p} : pc'[q] = pc[q]
        /\ UNCHANGED ledger
    BY <1>1, <1>7 DEF TypeOK, GatePasses, Goto
  <2>4. Single' /\ Passing' = Passing
    BY <1>2, <2>3
  <2>5. Lacking(p)'
    BY <2>2, <2>3, <2>4 DEF Lacking
  <2> QED BY <1>1, <2>1, <2>3, <2>4, <2>5, OneLacking
<1>8. ASSUME NEW p \in Procs, Emit(p) PROVE SingleInv'
  <2> DEFINE todo == job[p].todo
  <2>1. /\ pc[p] = "emit" /\ todo # <<>> /\ todo \in Seq(Gates)
        /\ AppendRecord(Head(todo), "pass") /\ pc' = pc
        /\ job'[p].todo = Tail(todo)
    BY <1>1, <1>8 DEF TypeOK, Emit
  <2>2. /\ 1 \in DOMAIN todo /\ Head(todo) = todo[1] /\ todo[1] \in Gates
        /\ \A k \in DOMAIN Tail(todo) :
              k + 1 \in DOMAIN todo /\ k + 1 # 1 /\ Tail(todo)[k] = todo[k + 1] /\ k \in Nat
    BY <2>1
  <2>3. \A k, l \in DOMAIN todo : todo[k] \notin Passing /\ (todo[k] = todo[l] => k = l)
    BY <2>1 DEF SingleInv, Lacking
  <2>4. Passing' = Passing \cup {Head(todo)}
    BY <1>1, <2>1, <2>2, OneMoreRecord
  <2>5. Single'
    BY <1>1, <2>1, <2>2, <2>3, SingleGrows DEF SingleInv
  <2>6. \A k, l \in DOMAIN Tail(todo) :
           Tail(todo)[k] \notin Passing' /\ (Tail(todo)[k] = Tail(todo)[l] => k = l)
    BY <2>2, <2>3, <2>4
  <2>7. Lacking(p)'
    BY <2>1, <2>6 DEF Lacking
  <2> QED BY <1>1, <2>1, <2>5, <2>7, OneLacking
<1>9. CASE UNCHANGED vars
  <2>1. Single' /\ Passing' = Passing
    BY <1>2, <1>9 DEF vars
  <2>2. \A p \in Procs : Lacking(p)'
    BY <1>9, <2>1 DEF vars, SingleInv, Lacking
  <2> QED BY <1>1, <2>1, <2>2 DEF SingleInv
<1>10. CASE Next
  BY <1>10, <1>3, <1>4, <1>5, <1>6, <1>7, <1>8 DEF Next, Step
<1> QED BY <1>9, <1>10

LEMMA SingleInit == Init => SingleInv
BY TypeInit DEF Init, SingleInv, Single, Lacking

LEMMA InSequence ==
    ASSUME NEW S, NEW s \in Seq(S)
    PROVE  \A i \in DOMAIN s : s[i] \in S
OBVIOUS

\* A set without two members has the cardinality 0 or 1.
LEMMA AtMostOne ==
    ASSUME NEW S, \A x, y \in S : x = y
    PROVE  /\ S = {} => Cardinality(S) = 0
           /\ S # {} => Cardinality(S) = 1
           /\ Cardinality(S) <= 1
<1>1. CASE S = {}
  BY <1>1, FS_EmptySet
<1>2. CASE S # {}
  <2>1. PICK x \in S : S = {x}
    BY <1>2
  <2>2. Cardinality(S) = 1
    BY <2>1, FS_Singleton
  <2> QED BY <1>2, <2>2
<1> QED BY <1>1, <1>2

\* Whoever comes first, agent or transition, and whoever is killed in between.
THEOREM LedgerKeepsOnePass ==
    ASSUME NamedAsCalled
    PROVE  Spec => []OnePassPerGate
<1>1. SingleInv => OnePassPerGate
  <2> SUFFICES ASSUME SingleInv, NEW g \in Gates
               PROVE  Cardinality({i \in At(ledger, g) : ledger[i].result = "pass"}) <= 1
    BY DEF OnePassPerGate
  <2> DEFINE S == {i \in At(ledger, g) : ledger[i].result = "pass"}
  <2>1. \A i, j \in S : i = j
    BY DEF SingleInv, Single, At
  <2> QED BY <2>1, AtMostOne
<1> QED BY <1>1, SingleInit, SingleStep, PTL DEF Spec

-----------------------------------------------------------------------------
(* A finished run's ledger and history agree.                              *)

\* The rank of the phase the run was created in.
Born == Rank[phase] - Len(history)

\* The history climbs one rank an edge from there, and each edge of it is recorded.
Walk ==
    /\ Born \in {0, 1}
    /\ \A i \in DOMAIN history :
          Rank[history[i][1]] = Born + i - 1 /\ history[i] \in Passing

WalkInv == SingleInv /\ Walk

LEMMA WalkInit == Init => WalkInv
<1> SUFFICES ASSUME Init PROVE WalkInv
  OBVIOUS
<1>1. phase \in {"triage", "brainstorm"} /\ history = <<>> /\ ledger = <<>>
  BY GateLedgerAssumption DEF Init, InitialPhases
<1>2. phase \in Phases /\ Rank[phase] \in {0, 1}
  BY <1>1 DEF Phases, LifecyclePhases, Rank
<1>3. Born \in {0, 1}
  BY <1>1, <1>2 DEF Born
<1> QED BY <1>1, <1>3, SingleInit DEF WalkInv, Walk

LEMMA WalkStep ==
    ASSUME NamedAsCalled, WalkInv, [Next]_vars
    PROVE  WalkInv'
<1>1. SingleInv' /\ SingleInv /\ LedgerInv /\ TypeOK /\ Walk
  BY SingleStep DEF WalkInv, SingleInv, LedgerInv
<1>2. ASSUME UNCHANGED <<history, phase>>, Passing \subseteq Passing' PROVE Walk'
  BY <1>1, <1>2 DEF Walk, Born
<1>3. ASSUME NEW p \in Procs, AppendWrite(p) PROVE Walk'
  <2> DEFINE c == job[p].call
  <2>1. c \in HandCalls /\ AppendRecord(c.named, c.result) /\ UNCHANGED <<history, phase>>
    BY <1>1, <1>3 DEF LedgerInv, InCall, AppendWrite
  <2>2. c.named \in Gates /\ c.result \in {"pass", "fail"}
    BY <2>1, HandCallsAssumption
  <2>3. Passing \subseteq Passing'
    BY <1>1, <2>1, <2>2, OneMoreRecord
  <2> QED BY <1>2, <2>1, <2>3
<1>4. ASSUME NEW p \in Procs, Emit(p) PROVE Walk'
  <2> DEFINE e == job[p].edge
             g == Head(job[p].todo)
  <2>1. /\ e \in Edges /\ job[p].todo # <<>> /\ job[p].todo \in Seq(Gates)
        /\ AppendRecord(g, "pass") /\ UNCHANGED <<history, phase>>
    BY <1>1, <1>4 DEF LedgerInv, InCall, TypeOK, Emit
  <2>2. g \in Gates
    BY <2>1
  <2>3. Passing \subseteq Passing'
    BY <1>1, <2>1, <2>2, OneMoreRecord
  <2> QED BY <1>2, <2>1, <2>3
<1>5. ASSUME NEW p \in Procs, TransitionSave(p) PROVE Walk'
  <2> DEFINE e == job[p].edge
  <2>1. e \in Edges /\ e[1] = phase /\ e \in Passing /\ Cross(e) /\ UNCHANGED ledger
    BY <1>1, <1>5 DEF LedgerInv, InCall, TransitionSave
  <2>2. /\ Len(history') = Len(history) + 1 /\ Len(history) \in Nat
        /\ DOMAIN history = 1 .. Len(history) /\ DOMAIN history' = 1 .. Len(history) + 1
        /\ \A i \in DOMAIN history : history'[i] = history[i]
        /\ history'[Len(history) + 1] = e /\ phase' = e[2]
    BY <1>1, <2>1, OneMoreEdge
  <2>3. Rank[e[2]] = Rank[phase] + 1 /\ Rank[phase] \in 0 .. 6
    BY <1>1, <2>1, EdgesClimb DEF TypeOK
  <2>4. Born' = Born /\ Rank[e[1]] = Born + Len(history)
    BY <2>1, <2>2, <2>3 DEF Born
  <2>5. Passing' = Passing
    BY <2>1 DEF Passing
  <2>6. ASSUME NEW i \in DOMAIN history'
        PROVE  Rank[history'[i][1]] = Born + i - 1 /\ history'[i] \in Passing
    <3>1. CASE i \in DOMAIN history
      BY <1>1, <2>2, <3>1 DEF Walk
    <3>2. CASE i = Len(history) + 1
      BY <1>1, <2>1, <2>2, <2>4, <3>2 DEF Walk
    <3> QED BY <2>2, <3>1, <3>2
  <2> QED BY <1>1, <2>1, <2>4, <2>5, <2>6 DEF Walk
<1>6. CASE UNCHANGED vars
  BY <1>1, <1>2, <1>6 DEF vars, WalkInv, Passing
<1>7. CASE Next
  <2>1. PICK p \in Procs :
           \/ Step(p) \/ Crash(p)
           \/ \E c \in HandCalls : AppendRead(p, c)
           \/ \E e \in Edges : TransitionStart(p, e)
    BY <1>7 DEF Next
  <2>2. CASE GateBlocks(p) \/ GatePasses(p) \/ Crash(p)
    BY <1>1, <1>2, <2>2 DEF GateBlocks, GatePasses, Crash, WalkInv, Passing
  <2>3. CASE \/ \E c \in HandCalls : AppendRead(p, c)
             \/ \E e \in Edges : TransitionStart(p, e)
    BY <1>1, <1>2, <2>3 DEF AppendRead, TransitionStart, WalkInv, Passing
  <2>4. CASE AppendWrite(p) \/ Emit(p) \/ TransitionSave(p)
    BY <1>1, <1>3, <1>4, <1>5, <2>4 DEF WalkInv
  <2> QED BY <2>1, <2>2, <2>3, <2>4 DEF Step
<1> QED BY <1>6, <1>7

\* Of a run that reached resolved: it crossed the edges on its way, each once and
\* with one passing record.
LEMMA ResolvedAgrees ==
    ASSUME WalkInv, phase = "resolved", NEW e \in TransitionGates
    PROVE  LET H == {i \in DOMAIN history : history[i] = e}
               P == {i \in At(ledger, e) : ledger[i].result = "pass"}
           IN  /\ \A i, j \in H : i = j
               /\ \A i, j \in P : i = j
               /\ H # {} => P # {}
               /\ H # {} <=> OnTheWay(e)
<1> DEFINE H == {i \in DOMAIN history : history[i] = e}
           P == {i \in At(ledger, e) : ledger[i].result = "pass"}
<1>1. /\ TypeOK /\ Walk /\ Single
  BY DEF WalkInv, SingleInv, LedgerInv
<1>2. /\ history \in Seq(Edges) /\ Len(history) \in Nat /\ DOMAIN history = 1 .. Len(history)
      /\ \A i \in DOMAIN history : history[i] \in Edges
  BY <1>1 DEF TypeOK
<1>3. \A i, j \in H : i = j
  BY <1>1, <1>2 DEF Walk, Born
<1>4. \A i, j \in P : i = j
  BY <1>1 DEF Single, At
<1>5. H # {} => P # {}
  BY <1>1 DEF Walk, Passing, At
<1>6. Rank["resolved"] = 6 /\ Rank["brainstorm"] = 0 /\ "brainstorm" \in Phases
  BY DEF Rank, Phases, LifecyclePhases
<1>7. Born = 6 - Len(history) /\ Born \in {0, 1}
  BY <1>1, <1>6 DEF Walk, Born
<1>8. 1 \in DOMAIN history /\ Rank[history[1][1]] = Born /\ history[1][1] \in Phases
  <2>1. Len(history) >= 5
    BY <1>2, <1>7
  <2>2. 1 \in DOMAIN history
    BY <1>2, <2>1
  <2>3. Rank[history[1][1]] = Born + 1 - 1 /\ history[1] \in Edges
    BY <1>1, <1>2, <2>2 DEF Walk
  <2> QED BY <1>7, <2>2, <2>3, EdgesClimb
<1>9. history[1][1] = "brainstorm" <=> Born = 0
  BY <1>6, <1>8, EdgesClimb
<1>10. ASSUME NEW i \in H PROVE OnTheWay(e)
  <2>1. e \in Edges /\ e[1] \in Phases /\ Rank[e[1]] = Born + i - 1 /\ i \in Nat /\ i >= 1
    BY <1>1, <1>2, EdgesClimb DEF Walk
  <2>2. e[1] = "brainstorm" => Born = 0
    BY <1>6, <1>7, <2>1
  <2> QED BY <1>9, <2>1, <2>2 DEF OnTheWay
<1>11. ASSUME OnTheWay(e) PROVE H # {}
  <2>1. e \in Edges /\ (Born = 1 => e[1] # "brainstorm")
    BY <1>9, <1>11 DEF OnTheWay
  <2>2. /\ Rank[e[1]] \in 0 .. 6 /\ Rank[e[2]] \in 0 .. 6 /\ Rank[e[2]] = Rank[e[1]] + 1
        /\ e[1] \in Phases /\ e = <<e[1], e[2]>>
    BY <2>1, EdgesClimb
  <2>3. Rank[e[1]] >= Born
    <3>1. Rank[e[1]] = 0 => e[1] = "brainstorm"
      BY <1>6, <2>2, EdgesClimb
    <3>2. Born = 1 => Rank[e[1]] # 0
      BY <2>1, <3>1
    <3> DEFINE r == Rank[e[1]]
               b == Born
    <3>3. r \in 0 .. 6 /\ b \in {0, 1} /\ (b = 1 => r # 0)
      BY <1>7, <2>2, <3>2
    <3> HIDE DEF r, b
    <3>4. r >= b
      BY <3>3
    <3> QED BY <3>4 DEF r, b
  <2> DEFINE i == Rank[e[1]] - Born + 1
  <2>4. i \in DOMAIN history /\ Born + i - 1 = Rank[e[1]]
    BY <1>2, <1>7, <2>2, <2>3
  <2> HIDE DEF i
  <2>5. Rank[history[i][1]] = Rank[e[1]] /\ history[i] \in Edges
    BY <1>1, <1>2, <2>4 DEF Walk
  <2>6. history[i][1] = e[1] /\ history[i] = <<history[i][1], history[i][2]>>
    BY <2>2, <2>5, EdgesClimb
  <2>7. Rank[history[i][2]] = Rank[e[2]] /\ history[i][2] \in Phases /\ e[2] \in Phases
    BY <2>1, <2>2, <2>5, <2>6, EdgesClimb
  <2>8. history[i] = e
    BY <2>2, <2>6, <2>7, EdgesClimb
  <2> QED BY <2>4, <2>8
<1> QED BY <1>3, <1>4, <1>5, <1>10, <1>11

LEMMA WalkIsPath ==
    ASSUME WalkInv, history # <<>>, history[1][1] = "triage"
    PROVE  C3PhasePath(history)
<1>1. /\ TypeOK /\ Walk
  BY DEF WalkInv, SingleInv, LedgerInv
<1>2. /\ Len(history) \in Nat /\ DOMAIN history = 1 .. Len(history) /\ Born \in {0, 1}
      /\ 1 \in DOMAIN history /\ \A i \in DOMAIN history : history[i] \in Edges
  <2>1. history \in Seq(Edges)
    BY <1>1 DEF TypeOK
  <2>2. Born \in {0, 1}
    BY <1>1 DEF Walk
  <2> QED BY <2>1, <2>2
<1>3. ASSUME NEW i \in DOMAIN history, NEW k \in 1 .. i
      PROVE  /\ k \in DOMAIN history /\ Rank[history[k][1]] = Born + k - 1
             /\ Rank[history[k][2]] = Born + k
             /\ history[k][1] \in Phases /\ history[k][2] \in Phases
  BY <1>1, <1>2, EdgesClimb DEF Walk
<1>4. ASSUME NEW i \in DOMAIN history
      PROVE  LET e == history[i] IN
             /\ e[1] \in LifecyclePhases /\ e[2] \in ValidTransitions[e[1]]
             /\ i > 1 => e[1] = history[i - 1][2]
             /\ e[2] # history[1][1] /\ \A k \in 1 .. i - 1 : e[2] # history[k][2]
  <2>1. history[i][1] \in LifecyclePhases /\ history[i][2] \in ValidTransitions[history[i][1]]
    BY <1>2, EdgesClimb
  <2>2. /\ i \in Nat /\ i >= 1 /\ i \in 1 .. i /\ 1 \in 1 .. i
        /\ i > 1 => i - 1 \in 1 .. i
    BY <1>2
  <2>3. i > 1 => history[i][1] = history[i - 1][2]
    BY <1>2, <1>3, <2>2, EdgesClimb
  <2>4. history[i][2] # history[1][1]
    BY <1>2, <1>3, <2>2
  <2>5. ASSUME NEW k \in 1 .. i - 1 PROVE history[i][2] # history[k][2]
    <3>1. k \in 1 .. i /\ k # i
      BY <2>2
    <3> QED BY <1>2, <1>3, <2>2, <3>1
  <2> QED BY <2>1, <2>3, <2>4, <2>5
<1> QED BY <1>4 DEF C3PhasePath

\* One gate of the ledger of a resolved run: it is recorded as often as it was
\* crossed, and once at most, exactly if no record of it was left by hand.
LEMMA GateAgrees ==
    ASSUME WalkInv, phase = "resolved", NEW e \in TransitionGates
    PROVE  LET H == {i \in DOMAIN history : history[i] = e} IN
           /\ Cardinality(H) = Cardinality(At(ledger, e)) /\ Cardinality(At(ledger, e)) <= 1
           <=> At(ledger, e) \cap LeftByHand = {}
<1> DEFINE H == {i \in DOMAIN history : history[i] = e}
           A == At(ledger, e)
           P == {i \in A : ledger[i].result = "pass"}
<1>1. /\ \A i, j \in H : i = j
      /\ \A i, j \in P : i = j
      /\ H # {} => P # {}
      /\ H # {} <=> OnTheWay(e)
  BY ResolvedAgrees
<1>2. \A i \in A : /\ i \in DOMAIN ledger /\ ledger[i].gate = e
                   /\ ledger[i].result = "fail" <=> i \notin P
  <2>1. ledger \in Seq([gate: Gates, result: {"pass", "fail"}])
    BY DEF WalkInv, SingleInv, LedgerInv, TypeOK
  <2>2. \A i \in DOMAIN ledger : ledger[i] \in [gate: Gates, result: {"pass", "fail"}]
    BY <2>1, InSequence
  <2>3. \A i \in DOMAIN ledger : ledger[i].result \in {"pass", "fail"}
    BY <2>2
  <2> QED BY <2>3 DEF At
<1>3. \A i \in A : i \in LeftByHand <=> i \notin P \/ ~OnTheWay(e)
  BY <1>2 DEF LeftByHand
<1>4. IsFiniteSet(A)
  <2>1. DOMAIN ledger = 1 .. Len(ledger) /\ Len(ledger) \in Nat
    BY DEF WalkInv, SingleInv, LedgerInv, TypeOK
  <2>2. IsFiniteSet(DOMAIN ledger)
    BY <2>1, FS_Interval
  <2> QED BY <2>2, FS_Subset DEF At
<1>5. ASSUME A \cap LeftByHand = {}
      PROVE  Cardinality(H) = Cardinality(A) /\ Cardinality(A) <= 1
  <2>1. A = P /\ (A # {} => H # {})
    BY <1>1, <1>3, <1>5
  <2>2. A # {} <=> H # {}
    BY <1>1, <2>1
  <2>3. \A i, j \in A : i = j
    BY <1>1, <2>1
  <2>4. CASE H = {}
    BY <1>1, <2>2, <2>3, <2>4, AtMostOne
  <2>5. CASE H # {}
    BY <1>1, <2>2, <2>3, <2>5, AtMostOne
  <2> QED BY <2>4, <2>5
<1>6. ASSUME Cardinality(H) = Cardinality(A), Cardinality(A) <= 1
      PROVE  A \cap LeftByHand = {}
  <2> SUFFICES ASSUME NEW i \in A, i \in LeftByHand PROVE FALSE
    OBVIOUS
  <2>1. Cardinality(A) # 0
    BY <1>4, FS_EmptySet
  <2>2. H # {}
    BY <1>6, <2>1, FS_EmptySet
  <2>3. OnTheWay(e) /\ i \notin P
    BY <1>1, <1>3, <2>2
  <2>4. PICK j \in P : TRUE
    BY <1>1, <2>2
  <2>5. j \in A /\ j # i
    BY <2>3, <2>4
  <2>6. {i, j} \subseteq A /\ Cardinality({i, j}) = 2
    <3>1. Cardinality({i}) = 1 /\ IsFiniteSet({i})
      BY FS_Singleton
    <3>2. Cardinality({i} \cup {j}) = Cardinality({i}) + 1
      BY <2>5, <3>1, FS_AddElement
    <3>3. {i, j} = {i} \cup {j}
      OBVIOUS
    <3> QED BY <2>5, <3>1, <3>2, <3>3
  <2>7. Cardinality({i, j}) <= Cardinality(A) /\ Cardinality(A) \in Nat
    BY <1>4, <2>6, FS_Subset, FS_CardinalityType
  <2> QED BY <1>6, <2>6, <2>7
<1> QED BY <1>5, <1>6

\* The sweep refuses the ledger of a run that was driven to resolved for what
\* agents left there by hand and for nothing else, whoever was killed between what.
THEOREM ClosureAcceptsTheWalk ==
    ASSUME NamedAsCalled
    PROVE  Spec => []ResolvedIsCoherent
<1>1. WalkInv => ResolvedIsCoherent
  <2> SUFFICES ASSUME WalkInv, phase = "resolved" PROVE ResolvedIsCoherent
    BY DEF ResolvedIsCoherent
  <2>1. \A e \in TransitionGates :
           LET H == {i \in DOMAIN history : history[i] = e} IN
           /\ Cardinality(H) = Cardinality(At(ledger, e)) /\ Cardinality(At(ledger, e)) <= 1
           <=> At(ledger, e) \cap LeftByHand = {}
    BY GateAgrees
  <2>2. LeftByHand = {} <=> \A e \in TransitionGates : At(ledger, e) \cap LeftByHand = {}
    BY DEF LeftByHand, At
  <2>3. C2LedgerMatchesHistory(history, ledger) /\ NoDuplicateGate(ledger)
            <=> LeftByHand = {}
    BY <2>1, <2>2 DEF C2LedgerMatchesHistory, NoDuplicateGate
  <2>4. history # <<>>
    <3>1. Rank["resolved"] = 6 /\ Born \in {0, 1}
      BY DEF Rank, Phases, LifecyclePhases, WalkInv, Walk
    <3> QED BY <3>1 DEF Born
  <2>5. history[1][1] = "triage" => C3PhasePath(history)
    BY <2>4, WalkIsPath
  <2> QED BY <2>3, <2>5 DEF ResolvedIsCoherent
<1> QED BY <1>1, WalkInit, WalkStep, PTL DEF Spec
=============================================================================
