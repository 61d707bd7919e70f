--------------------------- MODULE SkillPurchases ---------------------------
(***************************************************************************)
(* What the analyzer says was bought at the skill menu (transactions.py,   *)
(* skill_chains.py): a batch for every committed receipt, its charge from  *)
(* balances around it, and the skills it bought from the cart.             *)
(*                                                                         *)
(* A row is [t, screen, points, cards, names, effects, titled, conflict]:*)
(* points is the number a screen shows, cards maps a menu frame's skills *)
(* to [status, cost], names are those a confirmation shows, and            *)
(* effects says whether a receipt on it moves skill points; titled, a      *)
(* scene or receipt of another kind; conflict, two readings of the number. *)
(***************************************************************************)
EXTENDS Recording

CONSTANTS
    Settle,   \* 1500 ms
    Near,     \* 2000 ms
    Opening,  \* 5000 ms
    Leave,    \* 10000 ms
    Reach     \* 15000 ms

Shows(r) == r.points # None
Moves(r) == r.effects
Disturbs(r) == r.screen \in {"training_result", "skill_receipt"} \/ Moves(r)

\* A number on the completion hub read the same on two frames running.
SkillPointStates(frames, states) ==
    LET Eligible(r) == r.screen = "career_completion_hub" /\ Shows(r)
        runs == Runs(frames, LAMBDA a, b : /\ Eligible(a) /\ Eligible(b) /\ a.points = b.points
                                           /\ Elapsed(frames, a.t, b.t) \in 1..Pair)
        twice == SelectSeq(runs, LAMBDA g : Eligible(g[1]) /\ Cardinality(Times(g)) >= 2)
    IN  SortSeq(states \o [i \in DOMAIN twice |-> [points |-> twice[i][1].points,
                                                   first |-> twice[i][1].t, last |-> Last(twice[i]).t]],
                LAMBDA a, b : a.last < b.last \/ (a.last = b.last /\ a.first < b.first))

---------------------------------------------------------------------------
(* Balances read with the cart empty.                                      *)

\* The menu and its dialogs; a titled scene or another receipt ends it.
SkillMenuFrame(r) ==
    \/ r.screen \in {"skill_selection", "skill_confirmation", "skill_receipt"}
    \/ r.screen = "unknown" /\ ~r.titled /\ ~r.effects

\* The value the first two frames that show one agree on.
FirstTwo(showing) ==
    IF Len(showing) >= 2 /\ showing[1].points = showing[2].points
    THEN [points |-> showing[1].points, first |-> showing[1].t, last |-> showing[2].t]
    ELSE None
FirstBalance(frames, screen) == FirstTwo(SelectSeq(frames, LAMBDA r : r.screen = screen /\ Shows(r)))

PointsUnchanged(frames) ==
    \A i \in DOMAIN frames : ~Disturbs(frames[i]) /\ frames[i].screen # "skill_confirmation"

\* The menu's balance the last time its cart was empty before a confirmation:
\* on the frames it opens on, or on those after the purchase before.
EmptyCartBalance(frames, spans, confirmation) ==
    LET Calmly(open, first) ==
            IF first # None /\ PointsUnchanged(SelectSeq(open, LAMBDA r : r.t > first.last)) THEN first ELSE None
        Opened(open) == Calmly(open, FirstBalance(open, "skill_selection"))
        SinceReceipt(session, earlier) ==
            Opened(SelectSeq(session, LAMBDA r : earlier = {} \/ r.t > spans[Max(earlier)].last))
        In(session) ==
            SinceReceipt(session, {i \in DOMAIN spans : /\ spans[i].screen = "skill_receipt" /\ session # <<>>
                                                        /\ session[1].t <= spans[i].first
                                                        /\ spans[i].first < confirmation.first})
    IN  In(Tail1(SelectSeq(frames, LAMBDA r : r.t < confirmation.first), SkillMenuFrame))

\* What the confirmed names cost on the menu, when each showed one price.
VisibleNamesCost(frames, names, confirmation, start) ==
    LET menu == SelectSeq(frames, LAMBDA r : start <= r.t /\ r.t < confirmation.first)
        Costs(n) == {menu[i].cards[n].cost : i \in {j \in DOMAIN menu :
                        n \in DOMAIN menu[j].cards /\ menu[j].cards[n].status = "available"}}
    IN  IF names = {} \/ \E n \in names : Cardinality(Costs(n)) # 1 THEN None
        ELSE MapThenSumSet(LAMBDA n : Max(Costs(n)), names)

\* The balance after a receipt: the menu's, its cart empty again, or the
\* points left that the finish dialog names.
BalanceAfterReceipt(frames, span) ==
    LET Calmly(later, closing) ==
            IF closing # None /\ PointsUnchanged(SelectSeq(later, LAMBDA r : r.t < closing.first))
            THEN closing ELSE None
        Menu(later, out) == IF out = {} THEN later ELSE SubSeq(later, 1, Min(out) - 1)
        Else(first, second) == IF first # None THEN first ELSE second
        After(later) ==
            Calmly(later, Else(FirstBalance(Menu(later, {i \in DOMAIN later : ~SkillMenuFrame(later[i])}),
                                            "skill_selection"),
                               FirstBalance(later, "career_finish_confirmation")))
    IN  After(SelectSeq(frames, LAMBDA r : r.t > span.last /\ r.t - span.last <= Reach))

---------------------------------------------------------------------------
(* The charge of one batch: five ways, tried in turn.                      *)

\* The cart as it stood last before a time: the last numbers of the menu, all
\* the same, seen from one frame to the next.
CartTail(frames, from, to) ==
    LET LastRun(runs) == IF runs = <<>> THEN <<>> ELSE Last(runs)
    IN  LastRun(Runs(SelectSeq(frames, LAMBDA r : /\ r.screen = "skill_selection" /\ Shows(r)
                                                  /\ from < r.t /\ r.t < to /\ to - r.t <= Near),
                     LAMBDA a, b : a.points = b.points /\ Elapsed(frames, a.t, b.t) <= Pair))

Calm(frames, from, to) ==
    \A i \in DOMAIN frames : from < frames[i].t /\ frames[i].t < to => ~Disturbs(frames[i])

\* Mutant: whatever else moved points between the states is not looked for.
SpentBetweenAnyStates(frames, spans, span, before, after) ==
    IF before = None \/ after = None THEN None
    ELSE IF before.points <= after.points THEN None
    ELSE [spent |-> before.points - after.points, before |-> before, after |-> after]

\* The states around the batch, when nothing else moved points between them.
SpentBetweenStates(frames, spans, span, before, after) ==
    IF \/ before = None \/ after = None
       \/ \E i \in DOMAIN spans : /\ spans[i].screen = "skill_receipt" /\ spans[i].first # span.first
                                  /\ before.last < spans[i].first /\ spans[i].first < after.first
       \/ \E i \in DOMAIN frames : /\ before.last < frames[i].t /\ frames[i].t < after.first
                                   /\ Moves(frames[i]) \/ frames[i].screen = "training_result"
       \/ before.points <= after.points
    THEN None
    ELSE [spent |-> before.points - after.points, before |-> before, after |-> after]

\* The cart before the confirmation and the menu after the receipt show one number.
SpentByMatchingCart(frames, span, confirmation, before) ==
    LET Matching(menu, cart, post, numbers) ==
            IF /\ menu # <<>> /\ menu[1].t - before.last <= Opening
               /\ Len(cart) >= 2 /\ Len(post) >= 2 /\ Cardinality(numbers) = 1
               /\ Calm(frames, before.last, span.first) /\ before.points > Max(numbers)
            THEN [spent |-> before.points - Max(numbers), before |-> before,
                  after |-> [points |-> Max(numbers), first |-> post[1].t, last |-> Last(post).t]]
            ELSE None
        Read(cart, post) ==
            Matching(SelectSeq(frames, LAMBDA r : /\ r.screen = "skill_selection"
                                                  /\ before.last < r.t /\ r.t < confirmation.first),
                     cart, post, {r.points : r \in ToSet(cart) \cup ToSet(post)})
    IN  IF before = None THEN None
        ELSE Read(CartTail(frames, before.last, confirmation.first),
                  SelectSeq(frames, LAMBDA r : /\ r.screen = "skill_selection" /\ Shows(r)
                                               /\ Elapsed(frames, span.last, r.t) \in 1..Settle))

\* The completion hub shows one number on three frames soon after the receipt.
SpentByCompletionHub(frames, span, before, after) ==
    LET Settled(hub, numbers) ==
            IF /\ Len(hub) >= 3 /\ Cardinality(numbers) = 1
               /\ before.points > Max(numbers) /\ Calm(frames, before.last, span.first)
            THEN [spent |-> before.points - Max(numbers), before |-> before, after |-> after]
            ELSE None
        Read(hub) == Settled(hub, {r.points : r \in ToSet(hub)})
    IN  IF before = None THEN None
        ELSE Read(SelectSeq(frames, LAMBDA r : /\ r.screen = "career_completion_hub" /\ Shows(r)
                                               /\ r.t > span.last /\ r.t - span.last <= Leave))

\* The menu read a second time: its final cart, unless two readings disagree.
FinalCart(frames, to, from) ==
    LET Kept(menu, tail, seen) ==
            IF \/ Len(tail) < 2
               \/ \E i \in DOMAIN menu : menu[i].conflict /\ \A t \in seen : menu[i].t >= t
            THEN None ELSE tail[1].points
        Read(menu, tail) ==
            Kept(menu, tail, {r.t : r \in {q \in ToSet(menu) : tail # <<>> /\ Shows(q) /\ q.t < tail[1].t}})
    IN  Read(SelectSeq(frames, LAMBDA r : /\ r.screen = "skill_selection" /\ to - r.t <= Near
                                          /\ from < r.t /\ r.t < to),
             CartTail(frames, from, to))

\* The balances with the cart empty on both sides, when the purchase agrees:
\* the cart just before it holds the balance after, or its names cost the
\* difference.  A menu read after a receipt may hold the next cart already.
SpentByEmptyCarts(frames, spans, span, confirmation, names) ==
    LET Agreed(opening, closing) ==
            IF /\ opening # None /\ closing # None
               /\ opening.points > closing.points
               /\ \/ FinalCart(frames, confirmation.first, opening.last) = closing.points
                  \/ VisibleNamesCost(frames, names, confirmation, opening.first) = opening.points - closing.points
            THEN [spent |-> opening.points - closing.points, before |-> opening, after |-> closing]
            ELSE None
    IN  Agreed(EmptyCartBalance(frames, spans, confirmation), BalanceAfterReceipt(frames, span))

Charge(frames, spans, states, span, confirmation, names) ==
    LET FirstOf(ways, before, after) ==
            IF ways # <<>> THEN ways[1] ELSE [spent |-> None, before |-> before, after |-> after]
        Between(before, after) ==
            FirstOf(SelectSeq(<<SpentBetweenStates(frames, spans, span, before, after),
                                SpentByMatchingCart(frames, span, confirmation, before),
                                SpentByCompletionHub(frames, span, before, after),
                                SpentByEmptyCarts(frames, spans, span, confirmation, names)>>,
                              LAMBDA way : way # None),
                    before, after)
        Around(old, new) == Between(IF old = <<>> THEN None ELSE Last(old), IF new = <<>> THEN None ELSE new[1])
    IN  Around(SelectSeq(states, LAMBDA s : s.last < confirmation.first),
               SelectSeq(states, LAMBDA s : s.first > span.last /\ s.first - span.last <= Reach))

---------------------------------------------------------------------------
(* The skills of one batch, from the cart.                                 *)

SkillsOf(menu) == UNION {DOMAIN menu[i].cards : i \in DOMAIN menu}
History(menu, n) == SelectSeq(menu, LAMBDA r : n \in DOMAIN r.cards)

\* The price a skill had while it could still be taken, if it was one price.
OnePrice(history, n) ==
    LET The(costs) == IF Cardinality(costs) = 1 THEN Max(costs) ELSE None
    IN  The({r.cards[n].cost : r \in {q \in ToSet(history) : q.cards[n].status = "available"}})

\* Seen taken at least twice after it could be taken, and to the last.
TakenToTheLast(history, n) ==
    LET Twice(open) == Cardinality({i \in DOMAIN history : /\ history[i].cards[n].status = "obtained_or_selected"
                                                           /\ i > Min(open)}) >= 2
    IN  /\ Last(history).cards[n].status = "obtained_or_selected"
        /\ Twice({i \in DOMAIN history : history[i].cards[n].status = "available"})

Selected(menu, names) ==
    LET Chosen(skills) == [n \in skills |-> [cost |-> OnePrice(History(menu, n), n), named |-> n \in names]]
    IN  Chosen({n \in SkillsOf(menu) : /\ OnePrice(History(menu, n), n) # None
                                       /\ n \in names \/ TakenToTheLast(History(menu, n), n)})

\* Numbers the menu showed on two frames; one alone counts between two such
\* numbers when confirmed prices make both steps.
Counters(frames, menu, names) ==
    LET Stable(g) == Len(g) >= 2
        Prices(t) == {r.cards[n].cost : <<r, n>> \in
                         {x \in ToSet(menu) \X names : /\ t - x[1].t \in 0..Near /\ x[2] \in DOMAIN x[1].cards
                                                       /\ x[1].cards[x[2]].status = "available"}}
        Steps(t, upper, value, lower) ==
            /\ lower < value /\ value < upper
            /\ {upper - value, value - lower} \subseteq Prices(t)
        Bridges(groups, g, earlier, later) ==
            /\ earlier # {} /\ later # {}
            /\ Steps(g[1].t, groups[Max(earlier)][1].points, g[1].points, groups[Min(later)][1].points)
        Kept(groups) ==
            FoldLeft(LAMBDA kept, i :
                         IF \/ Stable(groups[i])
                            \/ Bridges(groups, groups[i],
                                       {j \in 1..(i - 1) : /\ Stable(groups[j])
                                                           /\ groups[i][1].t - Last(groups[j]).t <= Settle},
                                       {j \in (i + 1)..Len(groups) : /\ Stable(groups[j])
                                                                     /\ groups[j][1].t - groups[i][1].t <= Settle})
                         THEN Append(kept, groups[i]) ELSE kept,
                     <<>>, [i \in DOMAIN groups |-> i])
    IN  Kept(Runs(SelectSeq(menu, Shows),
                  LAMBDA a, b : a.points = b.points /\ Elapsed(frames, a.t, b.t) <= Pair))

\* One change of the cart: the skills whose price it is, narrowed to those
\* whose card changed with it, or else to the one the confirmation names.
PricedAt(menu, n, cost, start) ==
    \E r \in ToSet(History(menu, n)) : start - r.t \in 0..Near /\ r.cards[n].cost = cost

Turned(menu, n, from, to, previous, current) ==
    LET Stood(prior) == prior # <<>> /\ Last(prior).cards[n].status = from
    IN  /\ Stood(SelectSeq(History(menu, n), LAMBDA r : /\ current[1].t - Near <= r.t
                                                        /\ r.t <= Last(previous).t))
        /\ \E r \in ToSet(History(menu, n)) : /\ current[1].t <= r.t /\ r.t <= Last(current).t
                                              /\ r.cards[n].status = to

CartChange(menu, names, previous, current) ==
    LET ByName(skills) == IF Cardinality(skills) > 1 /\ Cardinality(skills \cap names) = 1
                          THEN skills \cap names ELSE skills
        Change(delta, priced, changed) ==
            [t |-> current[1].t, delta |-> delta, co |-> changed,
             skills |-> ByName(IF priced \cap changed # {} THEN priced \cap changed ELSE priced)]
        Step(delta) ==
            Change(delta,
                   {n \in SkillsOf(menu) : PricedAt(menu, n, IF delta > 0 THEN delta ELSE -delta, current[1].t)},
                   {n \in SkillsOf(menu) :
                       IF delta > 0 THEN Turned(menu, n, "available", "obtained_or_selected", previous, current)
                       ELSE Turned(menu, n, "obtained_or_selected", "available", previous, current)})
    IN  Step(Last(previous).points - current[1].points)

CartChanges(frames, menu, names) ==
    LET Between(groups) == [i \in 1..(Len(groups) - 1) |-> CartChange(menu, names, groups[i], groups[i + 1])]
    IN  SelectSeq(Between(Counters(frames, menu, names)), LAMBDA c : c.delta # 0)

\* cart_bundles: per skill the sum of the changes that are its alone.
Alone(changes, n) == {i \in DOMAIN changes : changes[i].skills = {n}}
Net(changes, n) == MapThenSumSet(LAMBDA i : changes[i].delta, Alone(changes, n))
Bundles(changes) ==
    [n \in {m \in UNION {changes[i].skills : i \in DOMAIN changes} : Net(changes, m) > 0} |-> Net(changes, n)]
Unassigned(changes) == SelectSeq(changes, LAMBDA c : Cardinality(c.skills) # 1)
CartNet(changes) == FoldLeft(LAMBDA sum, c : sum + c.delta, 0, changes)
BundleNet(changes) == MapThenSumSet(LAMBDA n : Bundles(changes)[n], DOMAIN Bundles(changes))

\* A skill whose toggles add up to a price was taken too.
WithToggles(selected, changes) ==
    selected @@ [n \in DOMAIN Bundles(changes) |-> [cost |-> Net(changes, n), named |-> FALSE]]

\* Mutant: confirmed names with a price are the whole list, whatever they cost.
PurchasedUnsummed(b) ==
    LET priced == {n \in DOMAIN b.selected : b.selected[n].named}
    IN  IF b.names # {} /\ b.names \subseteq priced THEN b.names ELSE None

\* The names of everything bought, or None: the confirmation list scrolls, but
\* bundles that make up the whole charge name every skill, and so do confirmed
\* names whose prices make up the cart.
Purchased(b) ==
    LET assigned == /\ b.spent # None /\ BundleNet(b.changes) = b.spent /\ Unassigned(b.changes) = <<>>
        priced == {n \in DOMAIN b.selected : b.selected[n].named}
        byCost == /\ b.names # {} /\ CartNet(b.changes) > 0 /\ b.names \subseteq priced
                  /\ MapThenSumSet(LAMBDA n : b.selected[n].cost, b.names) = CartNet(b.changes)
    IN  IF assigned THEN b.names \cup DOMAIN Bundles(b.changes)
        ELSE IF byCost THEN b.names ELSE None

---------------------------------------------------------------------------
(* Batches.                                                                *)

Batch(frames, spans, states, span, confirmation) ==
    LET Bought(names, charge, menu, changes) ==
            [first |-> span.first, last |-> span.last, confirmed |-> confirmation.first,
             spent |-> charge.spent, before |-> charge.before, after |-> charge.after, names |-> names,
             changes |-> changes, selected |-> WithToggles(Selected(menu, names), changes)]
        Read(names, charge, menu) == Bought(names, charge, menu, CartChanges(frames, menu, names))
        Charged(names, charge) ==
            Read(names, charge, IF charge.before = None THEN <<>>
                                ELSE Within(frames, charge.before.last, confirmation.first))
        Confirmed(names) == Charged(names, Charge(frames, spans, states, span, confirmation, names))
    IN  Confirmed(UNION {r.names : r \in {q \in ToSet(frames) : /\ confirmation.first <= q.t
                                                                /\ q.t <= confirmation.last}})

\* A receipt soon after the one before is still that one; a receipt nothing
\* confirmed is none.
Batches(frames, states) ==
    LET Receipt(batches, spans, balances, s, confirmations) ==
            IF s.screen # "skill_receipt" \/ confirmations = <<>> THEN batches
            ELSE IF batches # <<>> /\ Elapsed(frames, Last(batches).last, s.first) <= Pair
            THEN Append(Front(batches), [Last(batches) EXCEPT !.last = s.last])
            ELSE Append(batches, Batch(frames, spans, balances, s, Last(confirmations)))
        Over(spans, balances) ==
            FoldLeft(LAMBDA batches, s :
                         Receipt(batches, spans, balances, s,
                                 SelectSeq(spans, LAMBDA c : /\ c.screen = "skill_confirmation"
                                                             /\ c.last < s.first /\ s.first - c.last <= Reach)),
                     <<>>, spans)
    IN  Over(Spans(frames), SkillPointStates(frames, states))

\* reconcile_skill_chains: batches between the same two balances share their
\* difference by the carts before each, when the last cart is the balance after
\* and no receipt or other move of points is between that is not theirs.
Anchored(b) == b.before # None /\ b.after # None
ChainOf(batches, b) ==
    LET Key(c) == <<c.before.last, c.after.first, c.before.points, c.after.points>>
    IN  SelectSeq(batches, LAMBDA c : Anchored(c) /\ Key(c) = Key(b))

Opens(chain, i) == IF i = 1 THEN chain[1].before.last ELSE chain[i - 1].last
Carts(frames, chain) ==
    [i \in DOMAIN chain |-> FinalCart(frames, chain[i].confirmed, Opens(chain, i))]
ChainCharge(chain, carts, i) == (IF i = 1 THEN chain[1].before.points ELSE carts[i - 1]) - carts[i]

ChainHolds(frames, chain, carts) ==
    /\ chain[1].before.points > chain[1].after.points
    /\ \A s \in ToSet(Spans(frames)) :
         s.screen = "skill_receipt" /\ chain[1].before.last < s.first /\ s.first < chain[1].after.first
         => \E c \in ToSet(chain) : c.first <= s.first /\ s.first <= c.last
    /\ \A r \in ToSet(Within(frames, chain[1].before.last, chain[1].after.first)) :
         r.screen # "training_result" /\ ~Moves(r)
    /\ \A i \in DOMAIN chain : carts[i] # None
    /\ carts[Len(chain)] = chain[1].after.points
    /\ \A i \in DOMAIN chain : /\ ChainCharge(chain, carts, i) > 0
                               /\ chain[i].spent \in {None, ChainCharge(chain, carts, i)}

Chained(frames, batches) ==
    LET Own(b, spent, own, named) ==
            [b EXCEPT !.spent = spent, !.changes = own,
                      !.selected = [n \in DOMAIN b.selected \cap named |-> b.selected[n]]]
        Read(b, spent, own) == Own(b, spent, own, b.names \cup UNION {c.skills \cup c.co : c \in ToSet(own)})
        Share(b, chain, carts, i) ==
            Read(b, ChainCharge(chain, carts, i),
                 SelectSeq(b.changes, LAMBDA c : Opens(chain, i) < c.t /\ c.t < b.confirmed))
        Linked(b, chain, carts) ==
            IF ~ChainHolds(frames, chain, carts) THEN b
            ELSE Share(b, chain, carts, CHOOSE i \in DOMAIN chain : chain[i] = b)
        Link(b, chain) == IF Len(chain) < 2 THEN b ELSE Linked(b, chain, Carts(frames, chain))
    IN  [i \in DOMAIN batches |->
            IF Anchored(batches[i]) THEN Link(batches[i], ChainOf(batches, batches[i])) ELSE batches[i]]

SkillTransactions(frames, states) == Chained(frames, Batches(frames, states))
=============================================================================
