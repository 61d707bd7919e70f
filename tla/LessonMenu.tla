----------------------------- MODULE LessonMenu -----------------------------
(***************************************************************************)
(* A player who buys lessons and the sampler that reads the frames: the    *)
(* environment in which LessonReceipts must tell what each lesson cost.    *)
(*                                                                         *)
(* The player goes from the home screen to the lesson menu, opens the      *)
(* dialog of a lesson, leaves it or learns, and trains between visits.     *)
(* Each screen stays until a frame of it was read, if not whole: a number  *)
(* may be hidden, or cut, or the name unread; other frames are missed. The *)
(* menu draws a zero too dim to read, and first after a receipt may still  *)
(* show the balances before it.                                            *)
(***************************************************************************)
EXTENDS LessonReceipts

CONSTANTS
    LessonPrices,     \* the price of each lesson in each currency
    LessonPoints,     \* the balances at the start
    Earned,     \* what a training adds
    LessonFrames, LessonMisses, LessonTurns, LessonStay  \* bounds; the last, frames of one screen

Lessons == DOMAIN LessonPrices
Dim(values) == [f \in Currencies |-> IF values[f] = 0 THEN None ELSE values[f]]
Affordable(points, n) == \A f \in Currencies : LessonPrices[n][f] <= points[f]

LessonFrame(t, screen, points, projected, name, acquires, cards) ==
    [t |-> t, screen |-> screen, points |-> points, projected |-> projected, name |-> name,
     acquires |-> acquires, offers |-> [n \in cards |-> LessonPrices[n]], moves |-> screen = "training_result"]

HomeFrame(t, points) == LessonFrame(t, "unknown", points, Unread, None, {}, {})
MenuFrame(t, points, cards) == LessonFrame(t, "lesson_selection", Dim(points), Unread, None, {}, cards)

LessonStart(seq, at, points, bought, cards) ==
    /\ rows = seq
    /\ truth = [game |-> "lessons", at |-> at, lesson |-> None, points |-> points, old |-> LessonPoints, cards |-> cards,
                bought |-> bought, pressed |-> 0, trained |-> {}, stale |-> {}, cut |-> FALSE, cursor |-> None,
                seen |-> bought = {}, stay |-> 0, misses |-> 0, turns |-> 0, left |-> LessonFrames]

\* A recording begins at home, or is taken up at the menu, as it opened or
\* after a lesson.  The cards' prices are read in a pass of their own, or not.
LessonInit ==
    \/ LessonStart(<<HomeFrame(1, LessonPoints), HomeFrame(2, LessonPoints)>>, "home", LessonPoints, {}, {})
    \/ \E cards \in {{}, Lessons} :
         LessonStart(<<MenuFrame(1, LessonPoints, cards), MenuFrame(2, LessonPoints, cards)>>, "menu", LessonPoints, {}, cards)
    \/ \E n \in Lessons :
         LET rest == Spent(LessonPoints, LessonPrices[n])
         IN  LessonStart(<<MenuFrame(1, LessonPoints, {}), MenuFrame(2, LessonPoints, {}),
                           LessonFrame(3, "lesson_confirmation", Unread, rest, n, {}, {}),
                           LessonFrame(4, "event_outcome", Unread, Unread, None, {n}, {})>>,
                         "menu", rest, {[t |-> 4, name |-> n, cost |-> LessonPrices[n], pressed |-> 3]}, {})

At(screen) == [truth EXCEPT !.at = screen, !.seen = FALSE, !.cursor = None, !.stay = 0, !.turns = @ + 1]
Leftover == Spent(truth.points, LessonPrices[truth.lesson])
Hide(values, fields) == [f \in Currencies |-> IF f \in fields THEN None ELSE values[f]]
CutDigits(values, f, v) == [values EXCEPT ![f] = v]

\* The frame as it would be read whole.
Whole(t) ==
    CASE truth.at = "home" -> HomeFrame(t, truth.points)
      [] truth.at = "menu" -> MenuFrame(t, truth.points, truth.cards)
      [] truth.at = "dialog" -> LessonFrame(t, "lesson_confirmation", Unread, Leftover, truth.lesson, {}, {})
      [] truth.at = "receipt" -> LessonFrame(t, "event_outcome", Unread, Unread, None, {truth.lesson}, {})
      [] truth.at = "training" -> LessonFrame(t, "training_result", Unread, Unread, None, {}, {})

\* What may be read instead.
Missed(t) == LessonFrame(t, "unknown", Unread, Unread, None, {}, {})
Covered(t, f) == [Whole(t) EXCEPT !.points = Hide(@, {f}), !.projected = Hide(@, {f})]
Stale(t) == [Whole(t) EXCEPT !.points = Dim(truth.old)]
Damaged(t) ==
    {Missed(t), [Whole(t) EXCEPT !.name = None]}
    \cup (IF truth.at = "menu" THEN {Stale(t)} ELSE {})
    \cup {[Whole(t) EXCEPT !.projected = CutDigits(@, x[1], x[2])] :
             x \in {y \in Currencies \X (0..9) : truth.at = "dialog" /\ CutReadOf(y[2], Leftover[y[1]])}}

\* After a menu that shows the balances before, one that shows these whole.
Shown(r, t) == /\ r # Missed(t) /\ Consistent(r.points, truth.points)
               /\ truth.stale # {} /\ rows[Len(rows)].t \in truth.stale => r = Whole(t)

\* Frame r is read; damage costs a miss, but the cursor stays where it is.
Read(r, t, cost, cursor) ==
    /\ truth.misses + cost <= LessonMisses
    /\ rows' = Append(rows, r)
    /\ truth' = [truth EXCEPT !.left = @ - 1, !.stay = @ + 1, !.cursor = cursor, !.misses = @ + cost,
                              !.seen = @ \/ Shown(r, t),
                              !.old = IF truth.at \in {"dialog", "receipt"} THEN @ ELSE truth.points,
                              !.stale = IF r.points # Unread /\ ~Consistent(r.points, truth.points)
                                        THEN @ \cup {t} ELSE @,
                              !.cut = @ \/ \E f \in Currencies : r.projected[f] # None
                                                                 /\ r.projected[f] # Leftover[f],
                              !.bought = IF r.acquires = {} THEN @
                                         ELSE @ \cup {[t |-> t, name |-> truth.lesson,
                                                       cost |-> LessonPrices[truth.lesson], pressed |-> truth.pressed]}]

SampleLesson ==
    /\ truth.left > 0 /\ truth.stay < LessonStay
    /\ LET t == Len(rows) + 1
       IN  \/ Read(Whole(t), t, 0, None)
           \/ \E r \in Damaged(t) : Read(r, t, 1, truth.cursor)
           \/ \E f \in Currencies : /\ truth.at \in {"home", "menu", "dialog"}
                                    /\ Read(Covered(t, f), t, IF f = truth.cursor THEN 0 ELSE 1, f)

TurnLesson ==
    /\ truth.seen /\ truth.turns < LessonTurns
    /\ \/ truth.at = "home" /\ truth' = At("menu")
       \/ truth.at = "home" /\ truth' = [At("training") EXCEPT !.points = [f \in Currencies |-> @[f] + Earned[f]],
                                                               !.trained = @ \cup {Len(rows)}]
       \/ truth.at = "training" /\ truth' = At("home")
       \/ truth.at = "menu" /\ truth' = At("home")
       \/ \E n \in Lessons : /\ truth.at = "menu" /\ Affordable(truth.points, n)
                             /\ truth' = [At("dialog") EXCEPT !.lesson = n]
       \/ truth.at = "dialog" /\ truth' = At("menu")
       \/ truth.at = "dialog" /\ truth' = [At("receipt") EXCEPT !.points = Leftover, !.old = truth.points,
                                                                !.pressed = Len(rows)]
       \/ truth.at = "receipt" /\ truth' = At("menu")
    /\ UNCHANGED rows

LessonNext == SampleLesson \/ TurnLesson

\* The receipt a purchase is about.
Bought(p) == {b \in truth.bought : b.t = p.t /\ b.name = p.name}

\* A cost the analyzer states is what that lesson cost, whatever was opened,
\* left and learned before and after and whatever was hidden, when it saw the
\* balance after; else unless the dialog's digits were cut.  Two exceptions:
\* an opening balance filled from a frame that shows another (a panel before a
\* training, the menu's first frame after a purchase); and a currency of which
\* nothing is left and that the menu hid, taken for one that was zero before.
LessonCostIsTrue == truth.game = "lessons" =>
    \A p \in ToSet(LessonPurchases(rows)) :
        \/ p.cost = None
        \/ \E b \in Bought(p) : \A f \in Currencies \ p.zero : b.cost[f] = p.cost[f]
        \/ ~p.seen /\ truth.cut
        \/ p.fill \in truth.stale
        \/ p.fill # None /\ \E t \in truth.trained : p.fill <= t /\ t < p.from

\* The window a purchase gives for its debit holds the moment its lesson was
\* learned and that of no other purchase, though a lesson is bought again, a
\* dialog's name is missed, or the menus after it are hidden.
DebitIsDated == truth.game = "lessons" =>
    \A p \in ToSet(LessonPurchases(rows)) :
        {b.pressed : b \in {c \in truth.bought : p.from <= c.pressed /\ c.pressed < p.to}}
            = {b.pressed : b \in Bought(p)}
=============================================================================
