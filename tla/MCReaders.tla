----------------------------- MODULE MCReaders -----------------------------
(* Small recordings for the readers, one game at a time.                   *)
EXTENDS SkillMenu, LessonMenu, CareerMenu

MCPrice == [n \in {"a", "b"} |-> IF n = "a" THEN 1 ELSE 2]

MCCurrencies == {"dance", "vocal"}
MCPrices == [n \in {"march", "waltz"} |-> IF n = "march" THEN [dance |-> 2, vocal |-> 0] ELSE [dance |-> 1, vocal |-> 1]]
MCPoints == [dance |-> 13, vocal |-> 1]
MCEarned == [dance |-> 0, vocal |-> 1]

Init == SkillInit \/ LessonInit \/ CareerInit
Next ==
    \/ truth.game = "skills" /\ SkillNext
    \/ truth.game = "lessons" /\ LessonNext
    \/ truth.game = "career" /\ CareerNext
Spec == Init /\ [][Next]_recording
=============================================================================
