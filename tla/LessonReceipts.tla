--------------------------- MODULE LessonReceipts ---------------------------
(***************************************************************************)
(* What the analyzer says a lesson cost (transactions.py, with             *)
(* lesson_offer_costs.py and state_confirmed_lesson_debit.py): a purchase  *)
(* for every receipt that names a lesson a request dialog asked for, and   *)
(* its cost in each currency, in five ways tried in turn.                  *)
(*                                                                         *)
(* A row is [t, screen, points, projected, name, acquires, offers, moves]: *)
(* points are the balances of the lesson menu or of a performance panel,   *)
(* projected what the dialog says will be left, name the lesson the dialog *)
(* asks about, acquires the lessons a receipt on it names, offers the      *)
(* prices of the cards of the menu, moves an award of performance points.  *)
(* A number is a number or None; a name is read exactly or not at all: the *)
(* spellings of a name, which several rules compare, are left out, and so  *)
(* are the stats a receipt awards.                                         *)
(***************************************************************************)
EXTENDS Recording

CONSTANTS
    Currencies,
    Request,    \* 5000 ms: a receipt comes after its request
    Visit,      \* 10000 ms: a request comes after its menu
    Aftermath,  \* 8000 ms: the menu's balances after a receipt
    PanelReach  \* 20000 ms: panels before a menu, or after a receipt

Unread == [f \in Currencies |-> None]
Full(values) == \A f \in Currencies : values[f] # None
Consistent(a, b) == \A f \in Currencies : a[f] # None /\ b[f] # None => a[f] = b[f]
Spent(from, to) == [f \in Currencies |-> from[f] - to[f]]
Debit(cost) == (\A f \in Currencies : cost[f] >= 0) /\ \E f \in Currencies : cost[f] > 0

\* A number with its leading or its trailing digits hidden.
CutReadOf(read, whole) ==
    \E k \in 1..2 : whole >= 10^k /\ read # whole /\ read \in {whole \div 10^k, whole % 10^k}

\* outcome_events: frames with effects, seen again and again, are one outcome,
\* until another screen or a gap.
Outcomes(frames) ==
    LET Receipt(r) == r.acquires # {} \/ r.moves
        Continues(acc, r) == acc.open /\ Elapsed(frames, Last(acc.events).last, r.t) <= Pair
        Extend(e, r) == [e EXCEPT !.last = r.t, !.names = @ \cup r.acquires, !.moves = @ \/ r.moves]
        Step(acc, r) ==
            CASE Receipt(r) /\ Continues(acc, r) ->
                    [acc EXCEPT !.events = Append(Front(@), Extend(Last(@), r))]
              [] Receipt(r) /\ ~Continues(acc, r) ->
                    [open |-> TRUE, events |-> Append(acc.events, [first |-> r.t, last |-> r.t,
                                                                   names |-> r.acquires, moves |-> r.moves])]
              [] OTHER -> [acc EXCEPT !.open = Continues(acc, r) /\ r.screen \in {"unknown", "event_outcome"}]
    IN  FoldLeft(Step, [open |-> FALSE, events |-> <<>>], frames).events

---------------------------------------------------------------------------
(* The request, and the balances before it.                                *)

\* The Learn press blanks the dialog for a frame.
Blank(r) == r.screen = "unknown" /\ r.acquires = {} /\ ~r.moves /\ r.points = Unread

\* The last request for this lesson before its receipt, backwards to the first
\* frame that is not the dialog or asks for another.
RequestRun(frames, event, name) ==
    LET Back(r, acc) ==
            CASE ~acc.open -> acc
              [] acc.open /\ acc.run = <<>> ->
                    IF r.screen = "lesson_confirmation" /\ r.name = name THEN [acc EXCEPT !.run = <<r>>] ELSE acc
              [] OTHER ->
                    IF Elapsed(frames, r.t, acc.run[1].t) > Pair THEN [acc EXCEPT !.open = FALSE]
                    ELSE IF Blank(r) THEN acc
                    ELSE IF r.screen = "lesson_confirmation" /\ r.name \in {None, name}
                    THEN [acc EXCEPT !.run = <<r>> \o @]
                    ELSE [acc EXCEPT !.open = FALSE]
        Asked(acc) == IF acc.run # <<>> /\ event.first - Last(acc.run).t <= Request THEN acc.run ELSE <<>>
    IN  Asked(FoldRight(Back, SelectSeq(frames, LAMBDA r : r.t < event.first), [open |-> TRUE, run |-> <<>>]))

\* The last receipt before the request: no balance counts from before it.
Baseline(events, first) ==
    Max({0} \cup {e.last : e \in {o \in ToSet(events) : o.last < first /\ o.names # {}}})

\* The frames of the last visit of the menu before the request.
MenuVisit(frames, baseline, first) ==
    LET LastRun(runs) == IF runs = <<>> THEN <<>> ELSE Last(runs)
    IN  LastRun(Runs(SelectSeq(frames, LAMBDA r : /\ r.screen = "lesson_selection" /\ r.t > baseline
                                                  /\ first - r.t \in 1..Visit),
                     LAMBDA a, b : Elapsed(frames, a.t, b.t) <= Pair))

\* What a currency last showed, twice running or without exception.
Balance(menu) ==
    LET Of(values) == IF Len(values) = 1 \/ (Len(values) > 1 /\ values[Len(values) - 1] = Last(values))
                      THEN Last(values) ELSE None
        Shown(f) == FoldLeft(LAMBDA seq, r : IF r.points[f] = None THEN seq ELSE Append(seq, r.points[f]), <<>>, menu)
    IN  [f \in Currencies |-> Of(Shown(f))]

\* Mutant: the currencies are settled one by one.
BalanceAlone(menu) == Balance(menu)

\* The first frame of a visit can still show the balance before a purchase: a
\* frame that disagrees with the settled one counts for no currency.
SettledBalance(menu) ==
    LET Agreeing(initial) == Balance(SelectSeq(menu, LAMBDA r : Consistent(r.points, initial)))
    IN  Agreeing(Balance(menu))

\* A currency the menu hid is filled from the latest complete frame of the same
\* visit, or else from the latest panel before it, when they agree otherwise.
Filled(frames, event, menu, baseline, initial) ==
    LET Agreeing(r) == r.t > baseline /\ Full(r.points) /\ Consistent(initial, r.points)
        Pick(panels) == IF panels = <<>> THEN [values |-> initial, from |-> None]
                        ELSE [values |-> [f \in Currencies |-> IF initial[f] = None THEN Last(panels).points[f]
                                                               ELSE initial[f]],
                              from |-> Last(panels).t]
    IN  IF menu = <<>> \/ Full(initial) THEN [values |-> initial, from |-> None]
        ELSE Pick(SelectSeq(frames, LAMBDA r : /\ r.screen \in {"unknown", "training_preview"}
                                               /\ menu[1].t - r.t \in 1..PanelReach /\ Agreeing(r))
                  \o SelectSeq(frames, LAMBDA r : /\ r.screen = "lesson_selection" /\ r.t < event.first
                                                  /\ Agreeing(r)))

\* One value, or the only one read more than once.
UniqueValue(values) ==
    LET Count(v) == Cardinality({i \in DOMAIN values : values[i] = v})
        The(set) == IF Cardinality(set) = 1 THEN Max(set) ELSE None
    IN  IF Cardinality(ToSet(values)) = 1 THEN values[1]
        ELSE The({v \in ToSet(values) : Count(v) >= 2})

Projections(run, f) ==
    FoldLeft(LAMBDA seq, r : IF r.projected[f] = None THEN seq ELSE Append(seq, r.projected[f]), <<>>, run)
RepeatedProjection(run) == [f \in Currencies |-> UniqueValue(Projections(run, f))]

\* A balance of zero is drawn dim, and the dialog says zero is left.
ProjectedZero(run, f) == \A i \in DOMAIN run : run[i].projected[f] = 0
DimZero(initial, run) ==
    [f \in Currencies |-> IF initial[f] = None /\ ProjectedZero(run, f) THEN 0 ELSE initial[f]]

---------------------------------------------------------------------------
(* The balances after the receipt.                                         *)

\* Complete menus up to the next acquisition; the first may show the old balance.
AfterRows(frames, event, initial) ==
    LET Soon(later, ends) == IF ends = {} THEN later ELSE SubSeq(later, 1, Min(ends) - 1)
        Menus(later) == SelectSeq(later, LAMBDA r : r.screen = "lesson_selection" /\ Full(r.points))
        Moved(menus, new) == IF new = {} THEN <<>> ELSE SubSeq(menus, Min(new), Len(menus))
        Read(menus) == Moved(menus, {i \in DOMAIN menus : menus[i].points # initial})
        Until(later) == Soon(later, {i \in DOMAIN later : later[i].acquires # {}})
    IN  Read(Menus(Until(SelectSeq(frames, LAMBDA r : r.t - event.last \in 1..Aftermath))))

\* The first two neighbours that show one complete balance.
RepeatedPair(frames, seq, Complete(_)) ==
    LET At(set) == IF set = {} THEN None ELSE <<seq[Min(set)], seq[Min(set) + 1]>>
    IN  At({i \in 1..(Len(seq) - 1) : /\ Complete(seq[i]) /\ Complete(seq[i + 1])
                                      /\ Elapsed(frames, seq[i].t, seq[i + 1].t) \in 1..Pair
                                      /\ seq[i].points = seq[i + 1].points})

---------------------------------------------------------------------------
(* The five ways.                                                          *)

\* The menu before and what the dialog says is left.  A leftover whose digits
\* were cut on every frame is the repeated balance after, those cuts aside.
Displayed(frames, menu, initial, projected, after, matched) ==
    LET Cuts(i) == /\ after[i + 1].points = after[i].points
                   /\ Elapsed(frames, after[i].t, after[i + 1].t) \in 1..Pair
                   /\ \A f \in Currencies : /\ after[i].points[f] <= initial[f]
                                            /\ \/ after[i].points[f] = projected[f]
                                               \/ CutReadOf(projected[f], after[i].points[f])
        Seen(cuts) ==
            IF matched = None /\ cuts # {}
            THEN [cost |-> Spent(initial, after[Min(cuts)].points), matched |-> after[Min(cuts) + 1]]
            ELSE [cost |-> Spent(initial, projected), matched |-> matched]
    IN  IF \/ menu = <<>> \/ ~Full(projected) \/ ~Full(initial)
           \/ \E f \in Currencies : initial[f] < projected[f]
        THEN None
        ELSE Seen({i \in 1..(Len(after) - 1) : Cuts(i)})

\* A dialog's leftover the balance after contradicts: a value the run settled
\* on, or one of a currency on which it did not settle; a cut one does not.
Contradicts(run, final) ==
    LET Against(v, f) == v # None /\ v # final[f] /\ ~CutReadOf(v, final[f])
        By(projected) == \E f \in Currencies :
            \/ Against(projected[f], f)
            \/ projected[f] = None /\ \E r \in ToSet(run) : Against(r.projected[f], f)
    IN  By(RepeatedProjection(run))

\* Nothing but this lesson happened between the two balances.
OneLessonBetween(frames, event, run, name, from, to) ==
    LET Back(returned) == Len(returned) = 0 \/ (Len(returned) = 1 /\ Elapsed(frames, returned[1].t, event.first) <= Pair)
        Clean(r) ==
            /\ r.screen \in {"lesson_selection", "lesson_confirmation", "event_outcome", "unknown"}
            /\ ~r.moves
            /\ r.screen = "lesson_selection" \/ r.points = Unread
            /\ r.screen = "lesson_confirmation" =>
                 r.name \in {None, name} /\ run[1].t <= r.t /\ r.t <= Last(run).t
            /\ r.acquires = {} \/ (r.acquires = {name} /\ event.first <= r.t /\ r.t <= event.last)
    IN  /\ \A r \in ToSet(frames) : from <= r.t /\ r.t <= to => Clean(r)
        /\ Back(SelectSeq(frames, LAMBDA r : /\ r.screen = "lesson_selection" /\ from <= r.t
                                             /\ Last(run).t < r.t /\ r.t < event.first))

\* Repeated balances of the menu before and after.
ObservedDebit(frames, event, run, name, menu, after) ==
    LET Complete(r) == \A f \in Currencies : r.points[f] # None \/ ProjectedZero(run, f)
        Whole(r) == [f \in Currencies |-> IF r.points[f] = None THEN 0 ELSE r.points[f]]
        Between(old, new) ==
            IF /\ old # None /\ new # None /\ event.names = {name}
               /\ ~Contradicts(run, Whole(new[1])) /\ Debit(Spent(Whole(old[1]), Whole(new[1])))
               /\ OneLessonBetween(frames, event, run, name, old[2].t, new[2].t)
            THEN [cost |-> Spent(Whole(old[1]), Whole(new[1])), matched |-> new[2]]
            ELSE None
    IN  Between(RepeatedPair(frames, SubSeq(menu, Max({1, Len(menu) - 3}), Len(menu)), Complete),
                RepeatedPair(frames, SubSeq(after, 1, Min({4, Len(after)})), Complete))

\* From the request to its receipt, at most one frame of the menu beneath.
RequestToReceiptIsClean(frames, event, run, name) ==
    LET Clean(between, returned) ==
            /\ \A r \in ToSet(between) :
                 /\ r.screen \in {"lesson_confirmation", "lesson_selection", "unknown"}
                 /\ r.screen = "lesson_confirmation" => r.name \in {None, name}
                 /\ r.acquires = {} /\ ~r.moves
            /\ Len(returned) <= 1
            /\ returned # <<>> => Elapsed(frames, returned[1].t, event.first) <= Pair
        Between(between) == Clean(between, SelectSeq(between, LAMBDA r : r.screen = "lesson_selection"))
    IN  Between(Within(frames, Last(run).t, event.first))

\* The frames of the menu whose card of the lesson was read, at least two.
OfferReadings(menu, name) == SelectSeq(menu, LAMBDA r : name \in DOMAIN r.offers)
OfferPrices(cards, name, f) ==
    FoldLeft(LAMBDA seq, r : IF r.offers[name][f] = None THEN seq ELSE Append(seq, r.offers[name][f]), <<>>, cards)

\* Per currency the repeated leftover of the dialog, or else the repeated price
\* on the card of the lesson; what is known of both must agree.
JoinLessonCost(frames, event, run, name, menu, initial, matched) ==
    LET Asked == Cardinality({i \in DOMAIN run : run[i].name = name})
        Proven(r) == \A f \in Currencies : initial[f] # None => r.points[f] = initial[f]
        Stands(values, v) == v # None \/ values = <<>>
        Repeated(values, v) == v # None /\ Cardinality({i \in DOMAIN values : values[i] = v}) >= 2
        Field(start, left, l, prices, p) ==
            IF \/ ~Stands(left, l) \/ ~Stands(prices, p)
               \/ start # None /\ l # None /\ l > start
               \/ start # None /\ p # None /\ p > start
               \/ start # None /\ l # None /\ p # None /\ start - l # p
            THEN None
            ELSE IF start # None /\ Repeated(left, l) THEN start - l
            ELSE IF Repeated(prices, p) THEN p ELSE None
        Cost(cards) ==
            [f \in Currencies |-> Field(initial[f], Projections(run, f), RepeatedProjection(run)[f],
                                        OfferPrices(cards, name, f), UniqueValue(OfferPrices(cards, name, f)))]
        Whole(cost) == IF Full(cost) /\ Debit(cost) THEN [cost |-> cost, matched |-> matched] ELSE None
    IN  IF /\ event.names = {name} /\ Asked >= 2
           /\ Len(OfferReadings(menu, name)) >= 2
           /\ RequestToReceiptIsClean(frames, event, run, name)
           /\ initial # Unread /\ Len(SelectSeq(menu, Proven)) >= 2
        THEN Whole(Cost(OfferReadings(menu, name)))
        ELSE None

\* The player left at once: the first performance panel after the receipt, on
\* two frames running, with nothing in between.
StateConfirmed(frames, event, run, name, menu, initial) ==
    LET Quiet(r) == /\ r.screen \in {"unknown", "training_preview", "lesson_selection"}
                    /\ r.acquires = {} /\ ~r.moves
        Before(pair) == IF Full(initial) THEN initial ELSE IF pair = None THEN None ELSE pair[1].points
        Priced(later, i, start) ==
            IF /\ start # None /\ i < Len(later)
               /\ \A j \in 1..i : Quiet(later[j])
               /\ later[i].screen # "lesson_selection" /\ later[i + 1].points = later[i].points
               /\ \A r \in ToSet(run) : Consistent(r.projected, later[i].points)
               /\ Debit(Spent(start, later[i].points))
            THEN [cost |-> Spent(start, later[i].points), matched |-> later[i + 1]]
            ELSE None
        First(later, panels, start) == IF panels = {} THEN None ELSE Priced(later, Min(panels), start)
        Read(later) == First(later, {i \in DOMAIN later : Full(later[i].points)},
                             Before(RepeatedPair(frames, SubSeq(menu, Max({1, Len(menu) - 1}), Len(menu)),
                                                   LAMBDA r : Full(r.points))))
    IN  IF event.names = {name} /\ ~event.moves
        THEN Read(SelectSeq(frames, LAMBDA r : r.t - event.last \in 1..PanelReach))
        ELSE None

\* The first complete balance after that is what the dialog said would be left.
Matched(after, projected) ==
    LET At(set) == IF set = {} THEN None ELSE after[Min(set)]
    IN  At({i \in DOMAIN after : after[i].points = projected})

LessonCost(frames, event, run, name, menu, initial, projected, after) ==
    LET FirstOf(ways, matched) == IF ways = <<>> THEN [cost |-> None, matched |-> matched] ELSE ways[1]
        From(matched) ==
            FirstOf(SelectSeq(<<Displayed(frames, menu, initial, projected, after, matched),
                                IF Full(projected) THEN None
                                ELSE ObservedDebit(frames, event, run, name, menu, after),
                                JoinLessonCost(frames, event, run, name, menu, initial, matched),
                                StateConfirmed(frames, event, run, name, menu, initial)>>,
                              LAMBDA way : way # None), matched)
    IN  From(Matched(after, projected))

---------------------------------------------------------------------------
(* Purchases.                                                              *)

\* The first frame that shows the new balance.
FirstDebitedFrame(after, matched, event) ==
    IF matched = None THEN event.first
    ELSE Min({matched.t} \cup {r.t : r \in {q \in ToSet(after) : q.t <= matched.t /\ q.points = matched.points}})

Purchase(frames, events, event, name, run) ==
    LET Dated(price, filled, after) ==
            [name |-> name, t |-> event.first, from |-> run[1].t, to |-> FirstDebitedFrame(after, price.matched, event),
             cost |-> price.cost, seen |-> price.matched # None, fill |-> filled.from,
             zero |-> {f \in Currencies : filled.values[f] = None /\ ProjectedZero(run, f)}]
        Priced(menu, filled, initial, after) ==
            Dated(LessonCost(frames, event, run, name, menu, initial, RepeatedProjection(run), after), filled, after)
        Opened(menu, filled, initial) == Priced(menu, filled, initial, AfterRows(frames, event, initial))
        From(menu, filled) == Opened(menu, filled, DimZero(filled.values, run))
        At(baseline, menu) == From(menu, Filled(frames, event, menu, baseline, SettledBalance(menu)))
        Since(baseline) == At(baseline, MenuVisit(frames, baseline, run[1].t))
    IN  Since(Baseline(events, run[1].t))

\* Mutant: a request pays for every receipt after it.
ReceiptsOfEvent(frames, events, purchases, event) ==
    FoldLeft(LAMBDA found, name :
                 LET run == RequestRun(frames, event, name)
                 IN  IF run = <<>> THEN found ELSE Append(found, Purchase(frames, events, event, name, run)),
             purchases, SetToSeq(event.names))

\* The lessons of one receipt; a request pays for one only.
PurchasesOfEvent(frames, events, purchases, event) ==
    LET Add(found, name, run) ==
            IF run = <<>> \/ \E p \in ToSet(found) : p.from = run[1].t THEN found
            ELSE Append(found, Purchase(frames, events, event, name, run))
    IN  FoldLeft(LAMBDA found, name : Add(found, name, RequestRun(frames, event, name)),
                 purchases, SetToSeq(event.names))

LessonPurchases(frames) ==
    LET Over(events) == FoldLeft(LAMBDA found, e : PurchasesOfEvent(frames, events, found, e), <<>>, events)
    IN  Over(Outcomes(frames))
=============================================================================
