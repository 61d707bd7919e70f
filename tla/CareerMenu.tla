----------------------------- MODULE CareerMenu -----------------------------
(***************************************************************************)
(* A player who takes turns and the sampler that reads the frames: the     *)
(* environment in which the readers of RecoveryActions and TurnLedger must *)
(* tell what each turn was spent on.                                       *)
(*                                                                         *)
(* From the home screen the player trains, rests, goes out or visits the   *)
(* infirmary, each after a menu or a prompt that may be left again.  After *)
(* the receipt there may be a story event, which awards energy too, or     *)
(* lessons, and the home screen may come back for the turn's events;       *)
(* before the debut the last turn ends with a race.  Each screen is seen   *)
(* for two frames; the home screen left at once, or the prompt of a rest,  *)
(* for one, and that prompt or an outing's may fall between two samples;   *)
(* the home screen of a new turn is seen for longer, so that RestReach     *)
(* does not reach from a turn's prompt to the next turn's receipt.         *)
(***************************************************************************)
EXTENDS TurnLedger

CONSTANTS
    HomeStay,                     \* frames of the home screen as a turn begins
    CareerMisses, CareerScreens   \* bounds

Unseen(t) ==
    [t |-> t, screen |-> "unknown", date |-> None, phase |-> None, turns |-> None, bar |-> FALSE, title |-> None,
     prompt |-> None, energy |-> FALSE, mood |-> FALSE, friend |-> None, treated |-> FALSE, gain |-> FALSE,
     offers |-> {}]
Screen(t, screen) == [Unseen(t) EXCEPT !.screen = screen]

\* The calendar of a turn on a frame: before the debut, the turns left to it.
UnderDate(r, turn, debut) ==
    IF turn <= debut THEN [r EXCEPT !.phase = "pre_debut", !.turns = debut - turn + 1]
    ELSE [r EXCEPT !.date = turn - debut]

\* What a receipt of a kind says.
Told(r, kind) ==
    CASE kind = "rest" -> [r EXCEPT !.title = "rest", !.energy = TRUE]
      [] kind = "infirmary" -> [r EXCEPT !.title = "infirmary", !.energy = TRUE, !.treated = TRUE]
      [] kind = "outing" -> [r EXCEPT !.title = "outing", !.energy = TRUE, !.mood = TRUE]
      [] kind = "company" -> [r EXCEPT !.title = "outing", !.mood = TRUE, !.friend = "friend"]
      [] kind = "story" -> [r EXCEPT !.title = "story", !.energy = TRUE]

\* The frame of a screen as it would be read whole.
View(t, at, kind, turn, debut) ==
    CASE at = "home" -> UnderDate([Unseen(t) EXCEPT !.bar = TRUE], turn, debut)
      [] at = "preview" -> UnderDate(Screen(t, "training_preview"), turn, debut)
      [] at = "training" -> [Screen(t, "training_result") EXCEPT !.gain = TRUE]
      [] at = "rest_prompt" -> [Screen(t, "rest_confirmation") EXCEPT !.prompt = "rest"]
      [] at = "visit_prompt" -> [Screen(t, "infirmary_confirmation") EXCEPT !.prompt = "infirmary"]
      [] at = "menu" -> [Screen(t, "outing_selection") EXCEPT !.offers = {"friend"}]
      [] at = "outing_prompt" -> Screen(t, "outing_confirmation")
      [] at = "scene" -> UnderDate([Unseen(t) EXCEPT !.title = Told(Unseen(t), kind).title], turn, debut)
      [] at = "receipt" -> UnderDate(Told(Screen(t, "event_outcome"), kind), turn, debut)
      [] at = "lessons" -> Screen(t, "lesson_selection")
      [] at = "race" -> Screen(t, "race_result")

\* A recording begins at home, on a date or two turns before the debut, or is
\* taken up after a training.
CareerInit ==
    \E debut \in {0, 2}, trained \in BOOLEAN :
        LET opening == [t \in 1..HomeStay |-> View(t, "home", None, 1, debut)]
            training == [i \in 1..2 |-> View(HomeStay + i, "training", None, 1, debut)]
        IN  /\ rows = IF trained THEN opening \o training ELSE opening
            /\ truth = [game |-> "career", at |-> IF trained THEN "training" ELSE "home", kind |-> None, turn |-> 1,
                        debut |-> debut, acted |-> trained, began |-> <<1>>,
                        done |-> IF trained THEN {[kind |-> "training", turn |-> 1, t |-> r.t, asked |-> FALSE] :
                                                     r \in ToSet(training)} ELSE {},
                        menus |-> {}, misdated |-> {}, misses |-> 0, screens |-> 0]

Now == Len(rows) + 1

\* The key a turn is entered under.
Key(turn) == IF turn <= truth.debut THEN <<"pre_debut", truth.debut - turn + 1>> ELSE <<"dated", turn - truth.debut>>

\* What may be read instead of a frame: nothing, no calendar or an unclear or a
\* wrong one, no title.
Damages(r) ==
    {Unseen(r.t), [r EXCEPT !.title = None]}
    \cup {[r EXCEPT !.date = None, !.phase = p, !.turns = None] : p \in {None, "unclear"}}
    \cup (IF r.date = None THEN {} ELSE {[r EXCEPT !.date = @ + 1]})

\* The frames read of a screen: two; of the home screen as a turn opens, more;
\* of a rest's prompt, or of the home screen shown again, maybe one.  Of the
\* screens that say what was done or when, the first or the last may be damaged.
Readings(next, opens) ==
    LET Of(t) == View(t, next.at, next.kind, next.turn, next.debut)
        seq == [i \in 1..(IF opens THEN HomeStay ELSE 2) |-> Of(Len(rows) + i)]
        brief == next.at \in {"home", "rest_prompt"} /\ ~opens
        telling == \/ next.at \in {"receipt", "training", "preview"} \/ opens
                   \/ next.at = "home" /\ next.acted
    IN  {seq} \cup (IF brief THEN {<<seq[1]>>} ELSE {})
              \cup UNION {{[seq EXCEPT ![i] = d] : d \in Damages(seq[i]) \ {seq[i]}} :
                             i \in {j \in {1, Len(seq)} : telling}}

Claimed(next) == IF next.kind = "company" THEN "outing" ELSE IF next.at = "training" THEN "training" ELSE next.kind

\* The player comes to another screen, and its frames are read.  A menu of
\* outings that was left, or led to an outing, stays in mind.
Comes(next, opens) ==
    \E seq \in Readings(next, opens) :
        LET whole(r) == r = View(r.t, next.at, next.kind, next.turn, next.debut)
            bad == {r \in ToSet(seq) : ~whole(r)}
            calendar(r) == <<r.date, r.phase, r.turns>>
            wrong(r) == calendar(r) # calendar(View(r.t, next.at, next.kind, next.turn, next.debut))
        IN  /\ next.misses + Cardinality(bad) <= CareerMisses
            /\ next.screens + next.misses + Cardinality(bad) < CareerScreens
            /\ rows' = rows \o seq
            /\ truth' = [next EXCEPT !.screens = @ + 1, !.misses = @ + Cardinality(bad),
                                     !.menus = IF next.at \in {"menu", "outing_prompt"} THEN @ \cup Times(seq) ELSE @,
                                     !.misdated = @ \cup {r.t : r \in {q \in bad : wrong(q)}},
                                     !.done = IF next.at \in {"receipt", "training"}
                                              THEN @ \cup {[kind |-> Claimed(next), turn |-> next.turn, t |-> r.t,
                                                            asked |-> truth.at # "home"] :
                                                              r \in ToSet(seq)}
                                              ELSE @]

To(at) == [truth EXCEPT !.at = at]
Scene(at, kind) == [To(at) EXCEPT !.kind = kind, !.acted = TRUE]

Act ==
    /\ ~truth.acted
    /\ \/ truth.at = "home" /\ \E at \in {"preview", "rest_prompt", "menu", "visit_prompt"} : Comes(To(at), FALSE)
       \/ truth.at = "preview" /\ Comes(To("home"), FALSE)
       \/ truth.at = "preview" /\ Comes([To("training") EXCEPT !.acted = TRUE], FALSE)
       \/ truth.at = "menu" /\ Comes(To("home"), FALSE)
       \/ truth.at = "menu" /\ Comes(To("outing_prompt"), FALSE)
       \/ truth.at = "outing_prompt" /\ \E at \in {"scene", "receipt"}, kind \in {"outing", "company"} :
                                          Comes(Scene(at, kind), FALSE)
       \/ truth.at \in {"rest_prompt", "visit_prompt"} /\ Comes(To("home"), FALSE)
       \/ truth.at = "rest_prompt" /\ \E at \in {"scene", "receipt"} : Comes(Scene(at, "rest"), FALSE)
       \/ truth.at = "visit_prompt" /\ \E at \in {"scene", "receipt"} : Comes(Scene(at, "infirmary"), FALSE)
       \* The prompt falls between two samples.
       \/ truth.at = "home" /\ Comes(Scene("receipt", "rest"), FALSE)
       \/ truth.at = "menu" /\ Comes(Scene("receipt", "outing"), FALSE)

\* After the action: its receipt, a story event, points to spend, the home
\* screen again, the race before the debut, the next turn.
Finish ==
    LET over == truth.acted /\ truth.at # "scene"
        race == truth.turn = truth.debut /\ truth.at # "race"
        NextTurn == [To("home") EXCEPT !.turn = @ + 1, !.kind = None, !.acted = FALSE, !.began = Append(@, Now)]
    IN  \/ truth.at = "scene" /\ Comes(To("receipt"), FALSE)
        \/ over /\ ~race /\ Comes(NextTurn, TRUE)
        \/ over /\ race /\ Comes(To("race"), FALSE)
        \/ over /\ truth.at \in {"training", "receipt", "home"} /\ truth.kind # "story" /\ Comes(Scene("receipt", "story"), FALSE)
        \/ over /\ truth.at = "receipt" /\ Comes(To("lessons"), FALSE)
        \/ over /\ truth.at # "home" /\ truth.at # "race" /\ Comes(To("home"), FALSE)

CareerNext == Act \/ Finish

InTurn(t, turn) == turn \in 1..truth.turn /\ truth.began[turn] <= t /\ (turn < Len(truth.began) => t < truth.began[turn + 1])

\* The turn an action was really taken in: the one of the receipt, or the
\* result of a training, that it is read from.
Taken(a) == {d.turn : d \in {e \in truth.done : e.kind = a.kind /\ e.t = a.t}}

\* The receipt of a story event read as a rest's, because the home screen was
\* left for it: the prompt might have fallen between two frames.  The code looks
\* for the turn's action first, but for a training or a race only, and only back
\* to the frames of another date: not to one whose calendar was missed or misread.
FalseRest(a) ==
    a.kind = "rest" /\ \E d \in truth.done :
        /\ d.t = a.t /\ d.kind = "story" /\ ~d.asked
        /\ \/ \E e \in truth.done : e.turn = d.turn /\ e.kind \notin {"training", "story"}
           \/ \E t \in truth.misdated : InTurn(t, d.turn)

\* A receipt read as an outing's because the player had opened the menu of
\* outings, and left it again or gone on an outing whose receipt was not taken.
FalseOuting(a) == a.kind = "outing" /\ \E t \in truth.menus : a.t - t \in 1..NextReach

\* Whatever was asked for and left again and whatever events follow an action,
\* an action that is stated was taken in the frames it is read from, it is stated
\* once, and the turn it is said to have ended with is the next one.  Except a
\* story event taken for a rest (FalseRest), a receipt taken for an outing
\* (FalseOuting), and an end at the very frame whose date was misread.
ActionIsTrue == truth.game = "career" =>
    LET actions == TurnActions(rows)
        Ends(a, turn) == a.next = None \/ InTurn(a.next, turn + 1) \/ a.next \in truth.misdated
    IN  \A a \in actions :
            \/ Taken(a) = {} /\ (FalseRest(a) \/ FalseOuting(a))
            \/ /\ Taken(a) # {} /\ \A turn \in Taken(a) : Ends(a, turn)
               /\ \A b \in actions : Taken(b) = Taken(a) => b = a

\* The last date shown in a turn up to an action was misread as the next turn's,
\* and nothing shows the right one again before that turn comes.
MisreadToTheLast(a, turn) ==
    \E t \in truth.misdated : /\ rows[t].date # None /\ InTurn(t, turn) /\ t <= a.t
                             /\ \A u \in (t + 1)..Len(rows) : InTurn(u, turn) => ~ShowsCalendar(rows[u])

\* An action is entered under the turn it was taken in.  Under none only if a
\* calendar was missed or misread in that turn, which may hide another; under the
\* next one only if its date was read too early and not contradicted.
ActionIsDated == truth.game = "career" =>
    LET actions == TurnActions(rows)
        windows == Windows(rows, actions)
    IN  \A a \in actions : \A turn \in Taken(a) :
            \/ Owner(windows, a.t) = Key(turn)
            \/ Owner(windows, a.t) = None /\ \E t \in truth.misdated : InTurn(t, turn)
            \/ Owner(windows, a.t) = Key(turn + 1) /\ MisreadToTheLast(a, turn)

WithLessons(d) == \E r \in ToSet(rows) : r.screen = "lesson_selection" /\ InTurn(r.t, d.turn)

\* Nothing is lost: when every frame was read, what a past turn was spent on is
\* found and entered under that turn.  Not so a rest without its prompt, a
\* visit followed by lessons, an outing whose receipt shows no energy or soon
\* after another, and the turns before the debut if it comes soon after.
ActionIsFound == truth.game = "career" /\ truth.misses = 0 =>
    LET actions == TurnActions(rows)
        windows == Windows(rows, actions)
    IN  \A d \in truth.done :
            \/ d.turn = truth.turn \/ d.kind = "story" \/ rows[d.t].friend # None
            \/ d.turn <= truth.debut /\ truth.debut < truth.turn
            \/ d.kind = "outing" /\ \E e \in truth.done : e.kind = "outing" /\ e.turn = d.turn - 1
            \/ d.kind = "rest" /\ ~d.asked
            \/ d.kind = "infirmary" /\ WithLessons(d)
            \/ \E a \in actions : a.kind = d.kind /\ d.turn \in Taken(a) /\ Owner(windows, a.t) = Key(d.turn)
=============================================================================
