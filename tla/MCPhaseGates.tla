--------------------------- MODULE MCPhaseGates -----------------------------
EXTENDS PhaseGates, TLC

CONSTANTS r1, r2, r3, r4, r5, r6, r7, g1, g2

Standard(parent, start, worked) ==
    [track |-> "standard", goal |-> g1, decided |-> "standard",
     parent |-> parent, start |-> start, worked |-> worked]
Driven(r, g) == [track |-> "goal-driven", goal |-> g, decided |-> "goal-driven",
                 parent |-> r, start |-> {"triage"}, worked |-> Phases]
Unborn(r) == Standard(r, {}, {})
Early == {"brainstorm", "triage", "propose"}

\* A run alone; a run and one that inherits from it, up to their plans; two
\* unrelated ones; two goal-driven runs of one goal, while another goal exists;
\* one of no goal; two of which one's id continues the other's.
Cast(some, Role(_)) == [r \in Runs |-> IF r \in some THEN Role(r) ELSE Unborn(r)]
Alone   == Cast({r1}, LAMBDA r : Standard(r, {"triage"}, Phases))
Family  == Cast({r2, r3}, LAMBDA r : Standard(r2, {"triage"}, Early))
Strange == Cast({r2, r3}, LAMBDA r : Standard(r, {"brainstorm"}, Early))
Chain   == Cast({r4, r5}, LAMBDA r : Driven(r, g1))
Aimless == Cast({r4}, LAMBDA r : Driven(r, NoGoal))
Echo    == Cast({r6, r7}, LAMBDA r : Standard(r, {"triage"}, Phases \ {"verify"}))
AllNamesakes == [r \in Runs |-> IF r = r6 THEN {r7} ELSE {}]
Twins == Permutations({r4, r5})
AllCasts == {Alone, Family, Strange, Chain, Aimless, Echo}

\* r1 writes every version a gate may tell apart, the others what gates accept.
Versions1 ==
    [k \in DocumentKinds |->
        CASE k = "envelope" -> {"bad", "thin", "good"}
          [] k = "piv" -> {"thin", "good"}
          [] k \in {"package", "reuse", "triage", "intent", "bundle"} -> {}
          [] OTHER -> {"good"}]
Good(kinds) == [k \in DocumentKinds |-> IF k \in kinds THEN {"good"} ELSE {}]
AllDrafts ==
    [r \in Runs |->
        CASE r = r1         -> Versions1
          [] r \in {r2, r3} -> [Good({"intent", "envelope", "reuse", "module"})
                                    EXCEPT !["package"] = {"bad", "good"}]
          [] r \in {r4, r5} -> Good({"scope"})
          [] r \in {r6, r7} -> Good({"scope", "piv"})]
=============================================================================
