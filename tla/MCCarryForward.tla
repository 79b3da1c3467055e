--------------------------- MODULE MCCarryForward ---------------------------
EXTENDS CarryForward

CONSTANTS o1, o2, d1, d2

All == {o1, o2}
Shows(s, d, status) == [shown |-> s, deferred |-> d, status |-> status]
Assesses(s, overall) == [states |-> s, overall |-> overall]
Ready(items, open, ready) ==
    [open |-> open, ready |-> ready, overall |-> "warn", items |-> items]
Closes(items, decision) ==
    [items |-> items, decision |-> decision, run_status |-> decision]

\* One obligation of two required; evidence for both, for one, for neither.
AllDrafts ==
    [contract   |-> {[all |-> All, required |-> {o1}], [all |-> {o1}, required |-> {o1}]},
     checkpoint |-> {Shows({<<o1, "pass">>}, FALSE, "ready"),
                     Shows({<<o1, "warn">>}, TRUE, "ready_with_deferred_items"),
                     Shows({<<o2, "pass">>}, FALSE, "ready_with_deferred_items"),
                     Shows({<<o1, "block">>}, FALSE, "blocked")},
     assessment |-> {Assesses({<<o1, "pass">>, <<o2, "warn">>}, "pass"),
                     Assesses({<<o1, "block">>, <<o2, "pass">>}, "warn"),
                     Assesses({<<o1, "pass">>, <<o1, "warn">>}, "warn"),
                     Assesses({<<o1, "pass">>}, "pass")},
     package    |-> {[open |-> FALSE, ready |-> TRUE], [open |-> TRUE, ready |-> FALSE],
                     [open |-> TRUE, ready |-> TRUE]},
     readiness  |-> {Ready({}, FALSE, TRUE), Ready({d1, d2}, FALSE, TRUE),
                     Ready({d1}, TRUE, FALSE)},
     selection  |-> {[items |-> i] : i \in {{}, {d1}, {d1, d2}}},
     closure    |-> {Closes({}, "resolved"), Closes({d1}, "resolved"),
                     Closes({d1, d2}, "resolved"), Closes({d1, d2}, "blocked")}]
=============================================================================
