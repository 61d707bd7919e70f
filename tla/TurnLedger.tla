----------------------------- MODULE TurnLedger -----------------------------
(***************************************************************************)
(* Which turn an action belongs to (turn_ledger.py: _windows and add).     *)
(* The windows of the finale, which its races separate, are left out.      *)
(***************************************************************************)
EXTENDS RecoveryActions

\* Mutant: a phase is a turn, whatever its countdown.
PhaseIdentity(r) ==
    CASE r.date # None -> <<"dated", r.date>>
      [] r.phase \in Labels -> <<r.phase, None>>
      [] OTHER -> None

\* A date, or a phase with its countdown if that was read.
CalendarIdentity(r) ==
    CASE r.date # None -> <<"dated", r.date>>
      [] r.phase \in Labels -> <<r.phase, r.turns>>
      [] OTHER -> None

\* Neighbours under one calendar; a countdown missed within a numbered phase is
\* no turn of its own.
CalendarGroups(frames) ==
    LET Unnumbered(groups, key) == /\ groups # <<>> /\ key[2] = None
                                   /\ Last(groups).key[1] = key[1] /\ Last(groups).key[2] # None
        Add(groups, r, key) ==
            IF key = None THEN groups
            ELSE IF Unnumbered(groups, key) THEN groups
            ELSE IF groups # <<>> /\ Last(groups).key = key
            THEN Append(Front(groups), [key |-> key, rows |-> Append(Last(groups).rows, r)])
            ELSE Append(groups, [key |-> key, rows |-> <<r>>])
    IN  FoldLeft(LAMBDA groups, r : Add(groups, r, CalendarIdentity(r)), <<>>, frames)

Begin(group) == group.rows[1].t
End(group) == Last(group.rows).t

\* A calendar seen on one frame only is not a turn.
Confirmed(group) == Repeated(group.rows)

\* A number that contradicts both of its neighbours is a misread transition.
TransientCalendar(a, b, c) ==
    /\ a.key[1] = b.key[1] /\ b.key[1] = c.key[1]
    /\ a.key[2] # None /\ b.key[2] # None /\ c.key[2] # None
    /\ b.key[2] < Min({a.key[2], c.key[2]}) \/ b.key[2] > Max({a.key[2], c.key[2]})

\* Without those, neighbours of one calendar are joined.
JoinGroups(groups) ==
    LET Misread(kept, i) == kept # <<>> /\ i < Len(groups) /\ TransientCalendar(Last(kept), groups[i], groups[i + 1])
        Add(kept, i) ==
            IF Misread(kept, i) THEN kept
            ELSE IF kept # <<>> /\ Last(kept).key = groups[i].key
            THEN Append(Front(kept), [Last(kept) EXCEPT !.rows = @ \o groups[i].rows])
            ELSE Append(kept, groups[i])
    IN  FoldLeft(Add, <<>>, [i \in DOMAIN groups |-> i])

\* A phase read before its countdown belongs to the first turn counted, unless
\* something was played in it.
FoldGroups(groups, actions) ==
    LET Follows(g, next) == g.key[2] = None /\ next.key[1] = g.key[1] /\ next.key[2] # None
        Acted(g, next) == \/ \E r \in ToSet(g.rows) : r.screen \in {"training_preview", "training_result"}
                          \/ \E a \in actions : Begin(g) <= a.t /\ a.t < Begin(next)
        Add(acc, g) ==
            IF acc # <<>> /\ Follows(g, acc[1]) /\ ~Acted(g, acc[1])
            THEN <<[acc[1] EXCEPT !.rows = g.rows \o @]>> \o SubSeq(acc, 2, Len(acc))
            ELSE <<g>> \o acc
    IN  FoldRight(LAMBDA g, acc : Add(acc, g), groups, <<>>)

\* The turns: from the first frame of one calendar to that of the next, the
\* last to the end of the recording; and the stretches that may hold a turn
\* nobody saw: from a calendar seen once, or misread, and over a gap.
Windows(frames, actions) ==
    LET duration == Last(frames).t + 1
        Ends(turns, from) == Min({duration} \cup {Begin(g) : g \in {h \in ToSet(turns) : Begin(h) > from}})
        Gap(a, b) == /\ a.key[1] = b.key[1] /\ a.key[2] # None /\ b.key[2] # None
                     /\ b.key[2] # a.key[2] + (IF a.key[1] = "dated" THEN 1 ELSE -1)
        Turn(turns, i) == [key |-> turns[i].key, from |-> Begin(turns[i]),
                           to |-> IF i < Len(turns) THEN Begin(turns[i + 1]) ELSE duration]
        Unsure(groups, confirmed, joined, turns) ==
            {[from |-> Begin(g), to |-> Ends(turns, Begin(g))] : g \in ToSet(groups) \ ToSet(confirmed)}
            \cup {[from |-> Begin(g), to |-> Ends(turns, Begin(g))] :
                    g \in {h \in ToSet(confirmed) : \A j \in ToSet(joined) : Begin(h) \notin Times(j.rows)}}
            \cup {[from |-> End(turns[i]) + 1, to |-> Begin(turns[i + 1])] :
                    i \in {j \in 1..(Len(turns) - 1) : Gap(turns[j], turns[j + 1])}}
        Made(groups, confirmed, joined, turns) ==
            [turns |-> {Turn(turns, i) : i \in DOMAIN turns}, unsure |-> Unsure(groups, confirmed, joined, turns)]
        Folded(groups, confirmed, joined) == Made(groups, confirmed, joined, FoldGroups(joined, actions))
        Joined(groups, confirmed) == Folded(groups, confirmed, JoinGroups(confirmed))
        From(groups) == Joined(groups, SelectSeq(groups, Confirmed))
    IN  From(CalendarGroups(frames))

\* The turn an action is entered under: the one window that holds its time,
\* unless a turn may have passed unseen there.
Owner(windows, t) ==
    LET of == {w \in windows.turns : w.from <= t /\ t < w.to}
    IN  IF of = {} \/ \E u \in windows.unsure : u.from <= t /\ t < u.to THEN None
        ELSE (CHOOSE w \in of : TRUE).key
=============================================================================
