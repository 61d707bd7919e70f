-------------------------- MODULE MCAnalysisRun --------------------------
(* A small recording: two parts, three frames, three dense windows.        *)
EXTENDS AnalysisRun

MCParts == {1, 2}
MCFrames == <<"f1", "f2", "f3">>
MCPartOf == [f \in {"f1", "f2", "f3"} |-> IF f = "f1" THEN 1 ELSE 2]
MCContents == {[offers |-> {"f1"}, weak |-> {"f1", "f2", "f3"}, cards |-> TRUE],
               [offers |-> {}, weak |-> {}, cards |-> TRUE],
               [offers |-> {}, weak |-> {}, cards |-> FALSE]}
MCBudgets == {1, 2}

\* The second window does not fit behind the first; the third does.
MCRequested == <<"w1", "w2", "w3">>
MCSpan == [w \in {"w1", "w2", "w3"} |-> IF w = "w2" THEN 3 ELSE 2]
MCReaders == <<"old", "new">>
OneReader == <<"old">>

\* Nothing that is written in place: the pauses of finding prune_stop.
PlainContents == {[offers |-> {}, weak |-> {"f2"}, cards |-> FALSE]}
=============================================================================
