----------------------------- MODULE SkillMenu -----------------------------
(***************************************************************************)
(* A player at the skill menu and the sampler that reads its frames: the   *)
(* environment in which SkillPurchases must tell what was bought.          *)
(*                                                                         *)
(* The player goes from the completion hub to the menu, puts skills in the *)
(* cart and out, asks for a confirmation, cancels it or learns, and trains *)
(* between visits.  Each screen stays until one frame of it was read        *)
(* whole; others may be missed: its number unread, or all of it.           *)
(***************************************************************************)
EXTENDS SkillPurchases

CONSTANTS
    Price,      \* the price of each skill
    Purse,      \* the points at the start
    Award,      \* the points a training gives
    MaxRows, MaxMore,                       \* bounds of the frames: of a whole recording, of one taken up
    MaxStay, HubStay,                       \* of the frames of one moment, and of the hub's
    MaxMisses, MaxTrainings, MaxToggles,    \* of what happens
    MaxTwists                               \* and of all three together

Skills == DOMAIN Price
Cost(set) == MapThenSumSet(LAMBDA n : Price[n], set)

Frame(t, screen, number, taken, names) ==
    [t |-> t, screen |-> IF screen = "story" THEN "unknown" ELSE screen, points |-> number, names |-> names,
     cards |-> IF screen # "skill_selection" THEN <<>>
               ELSE [n \in Skills |-> [status |-> IF n \in taken THEN "obtained_or_selected" ELSE "available",
                                      cost |-> Price[n]]],
     effects |-> screen = "story", titled |-> screen = "story", conflict |-> FALSE]

SkillHub(t)         == Frame(t, "career_completion_hub", Purse, {}, {})
SkillList(t, n, taken) == Frame(t, "skill_selection", n, taken, {})

\* A recording that begins with the frames of seq: there may be left more.
Start(seq, at, points, cart, owned, receipts, left) ==
    /\ rows = seq
    /\ truth = [game |-> "skills", at |-> at, points |-> points, cart |-> cart, stood |-> cart, swapped |-> FALSE,
                owned |-> owned, receipts |-> receipts, whole |-> IF seq = <<>> THEN 0 ELSE 1, stay |-> 0,
                misses |-> 0, trainings |-> 0, toggles |-> 0, left |-> left]

\* A recording begins at the hub, or is taken up at the menu: as it opened,
\* with skill n in the cart, or after n was bought.
SkillInit ==
    LET menu == <<SkillHub(1), SkillHub(2), SkillList(3, Purse, {}), SkillList(4, Purse, {})>>
    IN  \/ Start(<<>>, "career_completion_hub", Purse, {}, {}, {}, MaxRows)
        \/ Start(menu, "skill_selection", Purse, {}, {}, {}, MaxMore)
        \/ \E n \in Skills :
             LET rest == Purse - Price[n]
                 chosen == menu \o <<SkillList(5, rest, {n}), SkillList(6, rest, {n})>>
                 bought == <<Frame(7, "skill_confirmation", None, {}, {n}), Frame(8, "skill_receipt", None, {}, {}),
                             SkillList(9, rest, {n})>>
             IN  \/ Start(chosen, "skill_selection", Purse, {n}, {}, {}, MaxMore)
                 \/ Start(chosen \o bought, "skill_selection", rest, {}, {n},
                          {[t |-> 8, charge |-> Price[n], total |-> Price[n], names |-> {n}, swapped |-> FALSE]},
                          MaxMore)

Number(at) == CASE at.at = "skill_selection" -> at.points - Cost(at.cart)
                [] at.at = "career_completion_hub" -> at.points
                [] OTHER -> None

\* What the player committed by a receipt, and all spent by then.
Receipt(at, t) ==
    [t |-> t, charge |-> Cost(at.cart), names |-> at.cart, swapped |-> at.swapped,
     total |-> Purse + Award * at.trainings - at.points + Cost(at.cart)]

\* The cart went from one that was shown twice to another by the price of a
\* skill, and it was not that skill alone that went in or out.
PassesForOne(from, to) ==
    \E n \in Skills : Price[n] \in {Cost(to) - Cost(from), Cost(from) - Cost(to)}
                     /\ (from \ to) \cup (to \ from) # {n}

Twists(at) == at.misses + at.trainings + at.toggles

\* The player is at a screen and a frame of it is read: whole, without its
\* number, or not at all; or its number was read in two ways.  The list of a
\* confirmation scrolls, and may show one name.
Reads(next) ==
    /\ next.left > 0 /\ Twists(next) <= MaxTwists
    /\ next.stay < (IF next.at = "career_completion_hub" THEN HubStay ELSE MaxStay)
    /\ \E miss \in {"none", "number", "conflict", "frame"}, names \in SUBSET next.cart :
         LET t == Len(rows) + 1
             number == Number(next)
             twice == next.at = "skill_selection" /\ miss = "none" /\ next.whole = 1
         IN  /\ miss # "none" => next.misses < MaxMisses /\ Twists(next) < MaxTwists
             /\ miss = "number" => number # None
             /\ miss = "conflict" => next.at = "skill_selection"
             /\ IF next.at = "skill_confirmation" /\ miss # "frame" THEN names # {} ELSE names = {}
             /\ rows' = Append(rows,
                    IF miss = "frame" THEN Frame(t, "unknown", None, {}, {})
                    ELSE [Frame(t, next.at, IF miss = "none" THEN number ELSE None, next.cart \cup next.owned, names)
                          EXCEPT !.conflict = miss = "conflict"])
             /\ truth' = [next EXCEPT !.stay = @ + 1, !.left = @ - 1,
                                      !.whole = IF miss = "none" THEN @ + 1 ELSE @,
                                      !.swapped = @ \/ (twice /\ PassesForOne(next.stood, next.cart)),
                                      !.stood = IF twice THEN next.cart ELSE @,
                                      !.misses = IF miss = "none" THEN @ ELSE @ + 1,
                                      !.receipts = IF next.at = "skill_receipt" /\ miss # "frame"
                                                   THEN @ \cup {Receipt(next, t)} ELSE @]

Stay == Reads(truth)

Go(screen) == [truth EXCEPT !.at = screen, !.whole = 0, !.stay = 0]

Toggle(n) ==
    /\ truth.whole > 0 /\ truth.at = "skill_selection" /\ n \notin truth.owned /\ truth.toggles < MaxToggles
    /\ n \in truth.cart \/ Cost(truth.cart \cup {n}) <= truth.points
    /\ Reads([Go("skill_selection") EXCEPT !.cart = IF n \in @ THEN @ \ {n} ELSE @ \cup {n}, !.toggles = @ + 1])

\* A training gives points, and so does a story.
Turn ==
    /\ truth.whole > 0
    /\ \/ truth.at = "career_completion_hub" /\ Reads(Go("skill_selection"))
       \/ truth.at = "skill_selection" /\ truth.cart = {} /\ Reads(Go("career_completion_hub"))
       \/ truth.at = "skill_selection" /\ truth.cart # {} /\ Reads(Go("skill_confirmation"))
       \/ truth.at = "skill_confirmation" /\ \E screen \in {"skill_selection", "skill_receipt"} : Reads(Go(screen))
       \/ /\ truth.at = "skill_receipt"
          /\ Reads([Go("skill_selection") EXCEPT !.points = @ - Cost(truth.cart), !.owned = @ \cup truth.cart,
                                                !.cart = {}, !.stood = {}, !.swapped = FALSE])
       \/ /\ truth.at = "career_completion_hub" /\ truth.trainings < MaxTrainings
          /\ \E source \in {"training_result", "story"} :
                Reads([Go(source) EXCEPT !.points = @ + Award, !.trainings = @ + 1])
       \/ truth.at \in {"training_result", "story"} /\ Reads(Go("career_completion_hub"))

SkillNext == Stay \/ Turn \/ \E n \in Skills : Toggle(n)

\* A charge the analyzer states is what that purchase cost, however the cart
\* was filled and emptied, whatever was cancelled or earned before and after,
\* and whichever frames were missed: true of the batches read from any frames.
\* Except that the number of the completion hub within Leave of a receipt is
\* taken without a look at what comes between: it may hold the purchases made
\* after this one too, whose charge is then entered with it.
TrueCharge(b) == b.spent # None =>
    \E p \in truth.receipts :
        /\ p.t = b.first
        /\ \/ b.spent = p.charge
           \/ \E q \in truth.receipts : /\ q.t - p.t \in 1..(Leave - 1)
                                        /\ b.spent = q.total - p.total + p.charge
ChargeIsTrue == truth.game = "skills" => \A b \in ToSet(SkillTransactions(rows, <<>>)) : TrueCharge(b)

\* A list of purchased skills that is said to be complete names what was
\* bought, no more and no less, though the confirmation scrolled and showed
\* only some, as long as the cart's changes that were read make up its price.
\* Except when the cart was seen twice before and after, and only once or not
\* at all between, two changes that together look like the price of one skill:
\* a skill put back at once and another taken is entered as a third.
WholeList(b) == \A p \in truth.receipts :
    p.t = b.first /\ Purchased(b) # None /\ CartNet(b.changes) = p.charge
        => Purchased(b) = p.names \/ p.swapped
ListIsWhole == truth.game = "skills" => \A b \in ToSet(SkillTransactions(rows, <<>>)) : WholeList(b)
=============================================================================
