---------------------------- MODULE TurnBoundary ----------------------------
(***************************************************************************)
(* When one turn of a career ended and the next began, from the calendar   *)
(* on the frames (turn_boundary.py): a date, or before the debut and in    *)
(* the finale the name of the phase and the turns left to its goal.        *)
(*                                                                         *)
(* A row of a career is [t, screen, date, phase, turns, bar, title,        *)
(* prompt, energy, mood, friend, treated, gain, offers]: date is the       *)
(* ordinal of a half month, phase a label without one, or "unclear" for a  *)
(* calendar text that names neither; bar says the stats of the home screen *)
(* are on it, title names a scene, prompt the question it asks, energy,    *)
(* mood, friend and treated are the lines of a receipt, gain the gains of  *)
(* a training, offers the companions a menu of outings lists.  Numbers on  *)
(* receipts, the wording of a cancellation and the spellings of a title    *)
(* are left out.                                                           *)
(***************************************************************************)
EXTENDS Recording

CONSTANTS
    NextReach   \* 30000 ms: from a request to its result, and on to the next turn

ASSUME NextReachAssumption == NextReach \in Nat \ {0}

Labels == {"pre_debut", "finale"}
ShowsCalendar(r) == r.date # None \/ r.phase # None

\* Two frames of one reading are an observation.
Repeated(frames) == Len(frames) >= 2

Period(frames, from, to) == SelectSeq(frames, LAMBDA r : from <= r.t /\ r.t <= to)

With(frames, date) == {r \in ToSet(frames) : r.date = date}
Counting(frames, turns) == {r \in ToSet(frames) : r.turns = turns}

\* The longest start of a sequence of frames that are all good, what follows
\* it, and the longest end.
Lead(frames, good) ==
    LET bad == {i \in DOMAIN frames : frames[i] \notin good}
    IN  SubSeq(frames, 1, IF bad = {} THEN Len(frames) ELSE Min(bad) - 1)
Past(frames, good) == SubSeq(frames, Len(Lead(frames, good)) + 1, Len(frames))
Trail(frames, good) ==
    LET bad == {i \in DOMAIN frames : frames[i] \notin good}
    IN  SubSeq(frames, Max({0} \cup bad) + 1, Len(frames))

\* The frames of the next date after a result: the first date that is not
\* today's is tomorrow's, twice running, and today does not come back.  Today
\* was read twice since it began, and nothing unclear since.
CalendarBoundary(frames, end, deadline) ==
    LET Next(today, later) ==
            LET days == Lead(later, With(later, today + 1))
            IN  IF Repeated(days) /\ (Len(days) < Len(later) => later[Len(days) + 1].date # today)
                THEN days ELSE <<>>
        Tomorrow(today, later) == Next(today, Past(later, With(later, today)))
        Since(shown, today) ==
            Max({end - NextReach} \cup {r.t : r \in {q \in ToSet(shown) : q.date \notin {None, today}}})
        Settled(shown, today, since) ==
            /\ Repeated(SelectSeq(shown, LAMBDA r : r.date = today /\ r.t >= since))
            /\ \A r \in ToSet(shown) : r.phase = "unclear" => r.t < since
        Today(shown, dated) ==
            IF dated # <<>> /\ Settled(shown, Last(dated).date, Since(shown, Last(dated).date))
            THEN Tomorrow(Last(dated).date, SelectSeq(Period(frames, end + 1, deadline), ShowsCalendar)) ELSE <<>>
        From(shown) == Today(shown, SelectSeq(shown, LAMBDA r : r.date # None))
    IN  From(Period(frames, end - NextReach, end))

\* The frames on which the turns left to the goal of a phase are one fewer than
\* when the action was asked for, all in that phase until they fall again.
PhaseBoundary(frames, asked, end, deadline) ==
    LET Counted(seq) == SelectSeq(seq, LAMBDA r : r.turns # None)
        InPhase(later, phase, until) == \A r \in ToSet(later) : r.t <= until => r.phase = phase
        Until(rest, run) == IF Len(run) < Len(rest) THEN rest[Len(run) + 1].t ELSE deadline
        Next(later, phase, value, rest, run) ==
            IF /\ Repeated(run) /\ InPhase(later, phase, Until(rest, run))
               /\ Len(run) < Len(rest) => rest[Len(run) + 1].turns < value - 1
            THEN run ELSE <<>>
        Fall(later, phase, value, rest) ==
            Next(later, phase, value, rest, Lead(rest, Counting(rest, value - 1)))
        After(later, phase, value) ==
            Fall(later, phase, value, Past(Counted(later), Counting(later, value)))
        Before(phase, before) ==
            IF before # <<>> /\ Repeated(Trail(before, Counting(before, Last(before).turns)))
            THEN After(SelectSeq(Period(frames, end + 1, deadline), ShowsCalendar), phase, Last(before).turns)
            ELSE <<>>
        Phase(labelled) ==
            IF labelled = <<>> THEN <<>>
            ELSE Before(Last(labelled).phase,
                        SelectSeq(Counted(labelled), LAMBDA r : /\ r.t <= asked /\ r.turns > 0
                                                                /\ r.phase = Last(labelled).phase))
    IN  Phase(SelectSeq(Period(frames, asked - NextReach, end), LAMBDA r : r.phase \in Labels))
=============================================================================
