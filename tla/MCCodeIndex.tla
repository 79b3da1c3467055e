---------------------------- MODULE MCCodeIndex ----------------------------
(***************************************************************************)
(* Two files, two names: a text that defines a, texts that define b with   *)
(* and without a call of a, and one that holds both.                       *)
(***************************************************************************)
EXTENDS CodeIndex

ThePaths == {1, 2}
TheTexts == {"a", "b", "b calls a", "both"}

TheDefs ==
    [t \in TheTexts \cup {"gone"} |->
        CASE t = "a" -> {"a"}
          [] t \in {"b", "b calls a"} -> {"b"}
          [] t = "both" -> {"a", "b"}
          [] OTHER -> {}]

TheCalls ==
    [t \in TheTexts \cup {"gone"} |->
        IF t \in {"b calls a", "both"} THEN {<<"b", "a">>} ELSE {}]
=============================================================================
