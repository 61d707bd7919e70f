----------------------------- MODULE Recording -----------------------------
(***************************************************************************)
(* What every reader of a recording works on: the rows of its frames in    *)
(* the order of their time, and the history of what the player really did, *)
(* which no reader sees.  A reader is a function of the rows; what it must *)
(* promise is about the history.                                           *)
(*                                                                         *)
(* Times are sampling steps (250 ms).  The recorder may have written no    *)
(* frame for a while, so rows may be further apart than one step; limits   *)
(* of a few steps are then counted in frames (source_clock.py), limits of  *)
(* several seconds in plain time.  The limits are constants, so that a     *)
(* small recording can pass them.                                          *)
(***************************************************************************)
EXTENDS Integers, Sequences, FiniteSets, SequencesExt, FiniteSetsExt

CONSTANTS
    None,      \* a value that was not read
    Pair       \* 500 ms: two sightings of one thing

ASSUME PairAssumption == Pair \in Nat \ {0}

VARIABLES
    rows,      \* <<row, ...>>: a reading of each frame, with its time t
    truth      \* the player: where the game stands and what was done

recording == <<rows, truth>>

\* Time from s to e, both times of frames, without the part of each interval
\* beyond one step: the frames after s up to e.  Negative when e comes first.
Elapsed(frames, s, e) ==
    IF s <= e THEN Cardinality({i \in DOMAIN frames : s < frames[i].t /\ frames[i].t <= e})
    ELSE -Cardinality({i \in DOMAIN frames : e < frames[i].t /\ frames[i].t <= s})

\* Maximal runs of neighbours that go together.
Runs(seq, Same(_, _)) ==
    FoldLeft(LAMBDA runs, x :
                 IF runs # <<>> /\ Same(Last(Last(runs)), x)
                 THEN Append(Front(runs), Append(Last(runs), x))
                 ELSE Append(runs, <<x>>),
             <<>>, seq)

\* The longest end of a sequence whose members all satisfy Ok, as the code
\* collects it: from the last backwards, up to the first that does not.
Tail1(seq, Ok(_)) ==
    LET After(bad) == SubSeq(seq, (IF bad = {} THEN 0 ELSE Max(bad)) + 1, Len(seq))
    IN  After({i \in DOMAIN seq : ~Ok(seq[i])})

Within(frames, from, to) == SelectSeq(frames, LAMBDA r : from < r.t /\ r.t < to)
Times(frames) == {frames[i].t : i \in DOMAIN frames}

\* episodes: consecutive observations of one screen, never counted as actions.
Spans(frames) ==
    LET Span(g) == [screen |-> g[1].screen, first |-> g[1].t, last |-> Last(g).t]
        Over(groups) == [i \in DOMAIN groups |-> Span(groups[i])]
    IN  Over(Runs(frames, LAMBDA a, b : a.screen = b.screen /\ Elapsed(frames, a.t, b.t) <= Pair))

=============================================================================
