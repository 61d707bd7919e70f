-------------------------- MODULE RecoveryActions --------------------------
(***************************************************************************)
(* Which turns were spent on a rest, an outing, the infirmary or a         *)
(* training (rest_actions.py, infirmary_actions.py, transactions.py).      *)
(* Each of the three recoveries has a reader of its own, which joins a     *)
(* request, a receipt and the next turn; a story event may award energy    *)
(* too.  The readers do not see one another's findings.                    *)
(***************************************************************************)
EXTENDS TurnBoundary

CONSTANTS
    RestReach,    \* 10000 ms: a rest's receipt comes after its prompt
    Second,       \* 1000 ms: sightings of one screen, or of the next one
    HubLook,      \* 3000 ms: frames of the home screen before a scene
    Untitled,     \* 2000 ms: a scene may open before its title shows
    Interlude,    \* 600000 ms: screens that spend points before the next turn
    SceneReach,   \* 3000 ms: an outing's scene comes after its request
    DateReach     \* 5000 ms: and the next date after an outing's receipt

InterludeScreens == {"lesson_selection", "lesson_confirmation", "skill_selection", "skill_confirmation",
                     "skill_receipt", "concert_confirmation", "concert_result"}
ActionScreens == InterludeScreens \cup
    {"training_preview", "training_result", "rest_confirmation", "outing_confirmation", "outing_selection",
     "race_confirmation", "race_result", "infirmary_confirmation", "career_completion_hub"}

LastOf(seq) == IF seq = <<>> THEN None ELSE Last(seq)

\* outcome_events: frames with effects are one outcome until its title changes,
\* another screen shows, or it is not seen for a while.
Receipts(frames) ==
    LET Effects(r) == r.energy \/ r.mood \/ r.treated \/ r.friend # None
        Clash(e, r) == r.title # None /\ e.title # None /\ r.title # e.title
        Continues(acc, r) == /\ acc.open /\ ~Clash(Last(acc.events), r)
                             /\ Elapsed(frames, Last(acc.events).last, r.t) <= Pair
        Friends(r) == IF r.friend = None THEN {} ELSE {r.friend}
        Fresh(r) == [first |-> r.t, last |-> r.t, title |-> r.title, energy |-> r.energy, mood |-> r.mood,
                     treated |-> r.treated, friends |-> Friends(r)]
        Extend(e, r) == [first |-> e.first, last |-> r.t, title |-> IF e.title = None THEN r.title ELSE e.title,
                         energy |-> e.energy \/ r.energy, mood |-> e.mood \/ r.mood,
                         treated |-> e.treated \/ r.treated, friends |-> e.friends \cup Friends(r)]
        Step(acc, r) ==
            CASE Effects(r) /\ Continues(acc, r) -> [acc EXCEPT !.events = Append(Front(@), Extend(Last(@), r))]
              [] Effects(r) /\ ~Continues(acc, r) -> [open |-> TRUE, events |-> Append(acc.events, Fresh(r))]
              [] OTHER -> [acc EXCEPT !.open = Continues(acc, r) /\ r.screen \in {"unknown", "event_outcome"}]
    IN  FoldLeft(Step, [open |-> FALSE, events |-> <<>>], frames).events

Found(kind, event, next) == [kind |-> kind, t |-> event.first, next |-> next]

---------------------------------------------------------------------------
(* A training is the turn's action when its gains were read, or its result *)
(* card on two frames.                                                     *)
TrainingActions(frames) ==
    LET results == Runs(SelectSeq(frames, LAMBDA r : r.screen = "training_result"),
                        LAMBDA a, b : Elapsed(frames, a.t, b.t) <= Pair)
    IN  {[kind |-> "training", t |-> g[1].t, next |-> None] :
            g \in {h \in ToSet(results) : Repeated(h) \/ \E r \in ToSet(h) : r.gain}}

---------------------------------------------------------------------------
(* Rest.                                                                   *)

\* At the summer camp the prompt has wording of its own and no screen label.
AsksRest(r) == r.prompt \in {"rest", "camp"}

\* The last showing of the prompt before the receipt.
RestRequest(frames, first) ==
    LET prompts == Runs(SelectSeq(frames, LAMBDA r : first - r.t \in 1..RestReach /\ AsksRest(r)),
                        LAMBDA a, b : Elapsed(frames, a.t, b.t) <= Pair)
    IN  IF prompts = <<>> THEN <<>> ELSE Last(prompts)

Plain(r) == r.screen = "unknown" /\ r.title = None
Hub(r) == Plain(r) /\ r.bar
SceneOpening(r) == Plain(r) /\ ~r.bar

\* The turn a frame's calendar shows.
TurnKey(r) ==
    CASE r.phase \in Labels -> IF r.turns = None THEN None ELSE <<r.phase, r.turns>>
      [] r.date # None -> <<"dated", r.date>>
      [] OTHER -> None

\* Mutant: any home screen will do.
NeverActed(frames, hub) == FALSE

\* A training or a race since this turn's calendar began: the home screen came
\* back for the turn's own events.
TurnAlreadyActed(frames, hub) ==
    LET earlier == Period(frames, hub.t - Interlude, hub.t - 1)
        same == {r \in ToSet(earlier) : TurnKey(r) \in {None, TurnKey(hub)}}
    IN  /\ TurnKey(hub) # None
        /\ \E r \in ToSet(Trail(earlier, same)) : r.screen \in {"training_result", "race_result"}

\* The first frame of the scene a receipt belongs to: frames with its title,
\* and before them some without any.
SceneStart(frames, event) ==
    LET Back(r, acc) ==
            CASE ~acc.open -> acc
              [] acc.open /\ event.title # None /\ r.title = event.title -> [acc EXCEPT !.start = r.t, !.titled = r.t]
              [] acc.open /\ acc.titled - r.t <= Untitled /\ SceneOpening(r) -> [acc EXCEPT !.start = r.t]
              [] OTHER -> [acc EXCEPT !.open = FALSE]
    IN  FoldRight(Back, Period(frames, event.first - RestReach, event.first - 1),
                  [open |-> TRUE, start |-> event.first, titled |-> event.first]).start

\* The prompt fell between two frames: the home screen the player left straight
\* into the scene stands for it.
HubExit(frames, event) ==
    LET Left(hubs, exit, start) ==
            IF /\ Elapsed(frames, exit.t, start) <= Second
               /\ Within(frames, exit.t, start) = <<>>
               /\ ~TurnAlreadyActed(frames, exit)
            THEN SelectSeq(hubs, LAMBDA r : Elapsed(frames, r.t, exit.t) <= Second) ELSE <<>>
        Seen(hubs, start) == IF hubs = <<>> THEN <<>> ELSE Left(hubs, Last(hubs), start)
        From(start) == Seen(SelectSeq(Period(frames, start - HubLook, start - 1), Hub), start)
        Twice(hubs) == IF Repeated(hubs) THEN hubs ELSE <<>>
    IN  Twice(From(SceneStart(frames, event)))

\* The receipt could be nobody's but a rest's.
RestShaped(event) == event.friends = {} /\ ~event.treated /\ event.title # "infirmary"

\* Another action, or leaving it, between two times of a rest.
RestBlocked(frames, from, to, dialogue, allowed, own) ==
    \E r \in ToSet(Within(frames, from, to)) :
        \/ r.screen = "event_outcome" /\ ~dialogue /\ ~(own # None /\ r.title = own)
        \/ r.screen \in ActionScreens \ allowed /\ ~AsksRest(r)

\* A race the goal demands may come between a rest and the next turn.
GoalRace(frames, asked, event, boundary) ==
    /\ Repeated(SelectSeq(Within(frames, asked, event.first), LAMBDA r : r.phase \in Labels /\ r.turns = 1))
    /\ Repeated(SelectSeq(Within(frames, event.last, boundary), LAMBDA r : r.screen = "race_result"))

\* Lessons and concerts after the receipt: the wait for the next turn begins anew.
InterludeEnd(frames, end) ==
    LET today == LastOf(SelectSeq(Period(frames, end - NextReach, end), LAMBDA r : r.date # None))
        Step(acc, r) ==
            CASE ~acc.open -> acc
              [] acc.open /\ (\/ r.t - acc.end > NextReach
                              \/ today # None /\ r.date \notin {None, today.date}
                              \/ r.screen \in ActionScreens \ InterludeScreens) -> [acc EXCEPT !.open = FALSE]
              [] OTHER -> IF r.screen \in InterludeScreens THEN [acc EXCEPT !.end = r.t] ELSE acc
    IN  FoldLeft(Step, [open |-> TRUE, end |-> end], Period(frames, end + 1, end + Interlude)).end

\* A phase without a countdown, then one date.
PhaseToDate(frames, end, deadline) ==
    LET Dates(next) == IF Repeated(next) /\ \A r \in ToSet(next) : r.date # None /\ r.date = next[1].date
                       THEN next ELSE <<>>
    IN  IF Repeated(SelectSeq(Period(frames, end - NextReach, end), LAMBDA r : r.phase \in Labels))
        THEN Dates(SelectSeq(Period(frames, end + 1, deadline), LAMBDA r : ShowsCalendar(r) /\ r.phase \notin Labels))
        ELSE <<>>

FirstFound(ways) ==
    LET found == SelectSeq(ways, LAMBDA way : way # <<>>) IN IF found = <<>> THEN <<>> ELSE found[1]

RestBoundary(frames, asked, end, deadline) ==
    FirstFound(<<CalendarBoundary(frames, end, deadline), PhaseBoundary(frames, asked, end, deadline),
                 PhaseToDate(frames, end, deadline)>>)

\* A rest is a prompt, or the home screen left; a receipt of energy on two
\* frames with no other action on it; and the next turn, with nothing between
\* but dialogue, screens that spend points, and the goal's race.
Rests(frames, events) ==
    LET Read(e) == SelectSeq(Period(frames, e.first, e.last),
                             LAMBDA r : r.screen \in {"unknown", "event_outcome"} /\ r.energy)
        Clean(e) == \A r \in ToSet(Period(frames, e.first, e.last)) : r.screen \notin ActionScreens
        Allowed(asked, e, next) ==
            InterludeScreens \cup (IF GoalRace(frames, asked, e, next) THEN {"race_result"} ELSE {})
        Ended(e, asked, wait, next) ==
            IF next = <<>> THEN {}
            ELSE IF next[1].t - wait > NextReach
                    \/ RestBlocked(frames, e.last, next[1].t, TRUE, Allowed(asked, e, next[1].t), None)
            THEN {} ELSE {Found("rest", e, next[1].t)}
        Waited(e, asked, wait) == Ended(e, asked, wait, RestBoundary(frames, asked, e.last, wait + NextReach))
        Asked(e, request) ==
            IF /\ request # <<>> /\ e.energy /\ Repeated(Read(e)) /\ Clean(e)
               /\ ~RestBlocked(frames, request[1].t, e.first, FALSE, {}, e.title)
            THEN Waited(e, request[1].t, InterludeEnd(frames, e.last)) ELSE {}
        Of(e, prompt) == Asked(e, IF prompt = <<>> /\ RestShaped(e) THEN HubExit(frames, e) ELSE prompt)
    IN  UNION {Of(e, RestRequest(frames, e.first)) : e \in ToSet(events)}

---------------------------------------------------------------------------
(* The infirmary.                                                          *)

AsksVisit(r) == r.prompt = "infirmary"
NamedResult(r) == r.title = "infirmary" /\ r.screen \in {"unknown", "event_outcome"}

\* Mutant: the receipt of a story event ends a visit's wait for the next turn.
VisitBlockedByStory(frames, from, to, ended) ==
    \E r \in ToSet(Within(frames, from, to)) : r.screen = "event_outcome" \/ r.screen \in ActionScreens

\* Another action between two times of a visit; after the result, its prompt
\* again too, but not the receipt of a story event.
VisitBlocked(frames, from, to, ended) ==
    \E r \in ToSet(Within(frames, from, to)) :
        \/ r.screen \in ActionScreens \ {"infirmary_confirmation"}
        \/ ~ended /\ r.screen = "event_outcome"
        \/ ended /\ (AsksVisit(r) \/ r.screen = "infirmary_confirmation")

\* One calendar and one countdown from the prompt to the end of the result.
TurnStable(frames, asked, end) ==
    LET Steady(before, later, Of(_)) ==
            \A r, s \in ToSet(later \o (IF before = <<>> THEN <<>> ELSE <<Last(before)>>)) : Of(r) = Of(s)
        Both(before, later) ==
            /\ \A r \in ToSet(later) : r.phase # "unclear"
            /\ Steady(SelectSeq(before, ShowsCalendar), SelectSeq(later, ShowsCalendar), LAMBDA r : <<r.date, r.phase>>)
            /\ Steady(SelectSeq(before, LAMBDA r : r.turns # None), SelectSeq(later, LAMBDA r : r.turns # None),
                      LAMBDA r : r.turns)
    IN  Both(Period(frames, asked - NextReach, asked), Period(frames, asked + 1, end))

\* A visit is a prompt; a result of that name on two frames, one with a line of
\* recovery; and the next turn.  A prompt and a result make one visit each.
Visits(frames, events) ==
    LET Results(asked, e) == SelectSeq(Period(frames, Max({asked + 1, e.first}), Min({asked + NextReach, e.last})),
                                       NamedResult)
        Clean(e) == \A r \in ToSet(Period(frames, e.first, e.last)) :
                       r.screen \notin ActionScreens /\ ~AsksVisit(r) /\ r.title \in {None, "infirmary"}
        Told(asked, e) == /\ e.title = "infirmary" /\ e.first >= asked /\ Clean(e)
                          /\ TurnStable(frames, asked, e.last)
                          /\ Repeated(Results(asked, e))
                          /\ \E r \in ToSet(Results(asked, e)) : r.energy \/ r.treated
                          /\ ~VisitBlocked(frames, asked, e.first, FALSE)
        Next(asked, e) == FirstFound(<<CalendarBoundary(frames, e.last, e.last + NextReach),
                                       PhaseBoundary(frames, asked, e.last, e.last + NextReach)>>)
        Ended(e, next) == IF next = <<>> THEN {}
                          ELSE IF VisitBlocked(frames, e.last, next[1].t, TRUE) THEN {}
                          ELSE {Found("infirmary", e, next[1].t)}
        Proven(asked, e) == IF Told(asked, e) THEN Ended(e, Next(asked, e)) ELSE {}
        First(new) == {v \in new : \A w \in new : v.t <= w.t}
        Claim(found, r) ==
            found \cup First(UNION {Proven(r.t, e) : e \in {d \in ToSet(events) : \A v \in found : v.t # d.first}})
    IN  FoldLeft(Claim, {}, SelectSeq(frames, AsksVisit))

---------------------------------------------------------------------------
(* Outings.                                                                *)

\* An outing without a line of energy: its scene follows the request at once,
\* and the next date follows its receipt.
OutingTurn(frames, event, request) ==
    LET scene == SelectSeq(Within(frames, request.t, event.first), LAMBDA r : r.title = event.title)
        dates == {r.date : r \in ToSet(scene)} \ {None}
        Asked == SelectSeq(frames, LAMBDA r : /\ r.screen = "outing_confirmation" /\ r.t <= request.t
                                              /\ Elapsed(frames, r.t, request.t) <= Second)
        Goes(r, today) == /\ r.screen \notin {"training_result", "race_result", "rest_confirmation",
                                              "outing_confirmation", "training_preview"}
                          /\ r.date \in {None, today, today + 1}
                          /\ r.date = today + 1 \/ ~r.bar
        Dated(later, today) == Repeated(SelectSeq(Lead(later, {r \in ToSet(later) : Goes(r, today)}),
                                                  LAMBDA r : r.date = today + 1))
    IN  /\ event.title # None
        /\ Repeated(Asked) \/ request.screen = "outing_selection"
        /\ Repeated(scene) /\ scene[1].t - request.t <= SceneReach
        /\ Cardinality(dates) = 1
        /\ Dated(Period(frames, event.last + 1, event.last + DateReach), Max(dates))

\* The confirmations before a receipt, or else the menus: all of them, or those
\* that offer the companion it names.
OutingRequests(frames, event) ==
    LET Before(screen) == SelectSeq(frames, LAMBDA r : r.screen = screen /\ event.first - r.t \in 1..NextReach)
        Offered(menus) == SelectSeq(menus, LAMBDA r : r.offers \cap event.friends # {})
        Menus(menus, offered) ==
            IF event.friends # {} /\ (offered # <<>> \/ ~event.energy) THEN offered
            ELSE IF event.energy THEN menus ELSE <<>>
    IN  IF Before("outing_confirmation") # <<>> THEN Before("outing_confirmation")
        ELSE Menus(Before("outing_selection"), Offered(Before("outing_selection")))

\* An outing is a request and a receipt with no training, race or rest between,
\* and, unless it was confirmed or offered the companion, no stay at home.
Outings(frames, events) ==
    LET MoodOnly(e) == e.mood /\ ~e.energy /\ e.friends = {} /\ e.title = None
        Could(e) == e.energy \/ (e.mood /\ Cardinality(e.friends) = 1) \/ e.title # None \/ MoodOnly(e)
        Doubled(requests) == Repeated(SelectSeq(requests, LAMBDA r : Elapsed(frames, r.t, Last(requests).t) <= Second))
        Stayed(seq) == LET home == SelectSeq(seq, Hub)
                       IN  \E i \in 1..(Len(home) - 1) : Elapsed(frames, home[i].t, home[i + 1].t) <= Pair
        Sure(e, requests) == \/ Last(requests).screen = "outing_confirmation"
                             \/ Last(requests).offers \cap e.friends # {}
        Made(e, requests, between) ==
            /\ \A r \in ToSet(between) : r.screen \notin {"training_result", "training_preview", "race_result",
                                                            "rest_confirmation"}
            /\ MoodOnly(e) => /\ Last(requests).screen = "outing_confirmation" /\ Doubled(requests)
                              /\ \A r \in ToSet(between) : r.screen # "event_outcome"
            /\ e.energy \/ MoodOnly(e) \/ OutingTurn(frames, e, Last(requests))
            /\ Sure(e, requests) \/ ~Stayed(between)
        Add(acc, e, requests) ==
            IF requests = <<>> THEN acc
            ELSE IF /\ Could(e) /\ Last(requests).t \notin acc.used
                    /\ Made(e, requests, Within(frames, Last(requests).t, e.first))
                 THEN [used |-> acc.used \cup {Last(requests).t}, found |-> acc.found \cup {Found("outing", e, None)}]
                 ELSE acc
    IN  FoldLeft(LAMBDA acc, e : Add(acc, e, OutingRequests(frames, e)), [used |-> {}, found |-> {}], events).found

\* Everything that takes a turn.
TurnActions(frames) ==
    LET Of(events) == TrainingActions(frames) \cup Rests(frames, events) \cup Outings(frames, events)
                      \cup Visits(frames, events)
    IN  Of(Receipts(frames))
=============================================================================
