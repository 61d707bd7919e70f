---------------------------- MODULE AnalysisRun ----------------------------
(***************************************************************************)
(* One analysis directory of the Python analyzer (full_recording.py,       *)
(* pipeline.py, analysis_job.py and the stages they call), over any number *)
(* of starts.  A start may be killed between any two writes (a pause, a    *)
(* shutdown, a crash: the whole process tree goes at once), and the next   *)
(* one works on what it finds: parts with a manifest, one OCR row per      *)
(* frame bound to the reader that read it, sidecars bound to the row they  *)
(* refine, dense windows with their frame caches and the index that        *)
(* records a window once, the hint-card cache, and the report.             *)
(*                                                                         *)
(* A file written through a temporary name appears in one step.  Two files *)
(* are created in place (the lesson-offer sidecar and the hint-card cache):*)
(* they are first "torn", then "whole".  What a frame says is not          *)
(* modelled, only which frames are weak or show an offer; the report is    *)
(* the record of what was read for it.  Replay (--reparse-only) is not     *)
(* modelled here.                                                          *)
(***************************************************************************)
EXTENDS Integers, Sequences, FiniteSets, SequencesExt

CONSTANTS
    Parts,            \* 120-second parts of the recording
    Frames,           \* <<frame, ...>> in the order of their time
    PartOf,           \* the part that decodes a frame
    Contents,         \* what a recording may show: frames with lesson offers,
                      \* frames with a weak state to reread, hint cards or not
    Budgets,          \* frame budgets a start may be given
    Requested,        \* dense windows in the order of the plan
    Span,             \* the length of a window
    MaxWindows, MaxSpan, \* the budgets of the dense windows
    Pool,             \* more than one dense worker
    Readers,          \* fingerprints of the OCR models, the first one first
    PruneData,        \* --prune-working-data is passed
    None,
    MaxStops          \* bounds the model: starts that are killed

ASSUME FramesAssumption ==
    /\ IsFiniteSet(Parts) /\ None \notin Parts
    /\ PartOf \in [ToSet(Frames) -> Parts]
    /\ Contents \subseteq [offers : SUBSET ToSet(Frames), weak : SUBSET ToSet(Frames), cards : BOOLEAN]
ASSUME BudgetsAssumption ==
    /\ Budgets \subseteq Nat /\ Budgets # {}
    /\ Span \in [ToSet(Requested) -> Nat]
    /\ MaxWindows \in Nat /\ MaxSpan \in Nat /\ MaxStops \in Nat
ASSUME ReadersAssumption == Readers \in Seq(ToSet(Readers)) /\ Len(Readers) > 0 /\ None \notin ToSet(Readers)

VARIABLES
    content,   \* what this recording shows, of Contents
    \* the directory
    images,    \* per part: "none", "partial" or "whole"
    manifest,  \* parts whose frames.json is written
    capture,   \* capture.json: "none", "captured", "fitted"
    neural,    \* per frame: the reader of its OCR row
    offer,     \* per frame: the row's reader and whether its sidecar is torn
    weak,      \* per frame: the reader of the row its sidecar refines
    currency,  \* the same, of the wide balance crops
    prepared,  \* per window: the reader of its frame caches
    bare,      \* windows that have caches and lack some of their images
    recorded,  \* per window: the reader of its entry in the index
    cards,     \* hint-card-recovery.json: its rows' reader, torn or not
    report,    \* what report.json was made from
    \* the run
    outcome,   \* "idle", "running", "failed", "done"
    stage, ocr, budget, losses, reader,
    \* history and bounds
    scars, stops

disk == <<content, images, manifest, capture, neural, offer, weak, currency, prepared, bare, recorded, cards, report>>
run  == <<outcome, stage, ocr, budget, losses, reader>>
hist == <<scars, stops>>
vars == <<disk, run, hist>>

Offers   == content.offers
Weak     == content.weak
HasCards == content.cards

FrameSet  == ToSet(Frames)
WindowSet == ToSet(Requested)
ReaderSet == ToSet(Readers)

\* Mutant: the images go as soon as nothing reads them any more.
StagesPruneFirst == <<"capture", "fit", "ocr", "weak", "currency", "reload", "cards", "sealing", "windows",
                      "prune", "publish", "emit">>

Stages == <<"capture", "fit", "ocr", "weak", "currency", "reload", "cards", "sealing", "windows",
            "publish", "prune", "emit">>
After(s) == Stages[CHOOSE i \in 2..Len(Stages) : Stages[i - 1] = s]

\* The frames kept of some under a budget, the first ones: work saved by an
\* earlier start counts like work still to do.
Until(f) == {Frames[i] : i \in {i \in DOMAIN Frames : \E j \in DOMAIN Frames : i <= j /\ Frames[j] = f}}
Within(frames, limit) == {f \in frames : Cardinality(Until(f) \cap frames) <= limit}

\* Mutant: sidecars that exist do not count against the budget.
WeakKeptBeside == Within({f \in Weak : weak[f] = None}, budget) \cup {f \in Weak : weak[f] # None}
WeakKept == Within(Weak, budget)

\* The windows a start reads: every window of the plan counts toward both
\* budgets, read before or not, and one that does not fit is left pending.
Pick(acc, w) ==
    IF Cardinality(acc.windows) >= MaxWindows \/ acc.span + Span[w] > MaxSpan
    THEN acc
    ELSE [windows |-> acc.windows \cup {w}, span |-> acc.span + Span[w]]
Picked == WindowSet \cap FoldLeft(Pick, [windows |-> {}, span |-> 0], Requested).windows

\* What a report is made from, as Publish writes it.
Reports == [rows : [FrameSet -> ReaderSet \cup {None}], reader : ReaderSet, budget : Budgets,
            offers : SUBSET FrameSet, weak : SUBSET FrameSet, currency : SUBSET FrameSet,
            windows : {Picked, {}}, cards : BOOLEAN, losses : SUBSET {"currency", "cards", "windows"}]
Torn  == [torn : {TRUE}, by : ReaderSet]
Whole == [torn : {FALSE}, by : ReaderSet]
ASSUME NoneAssumption == None \notin Torn \cup Whole \cup Reports

\* The windows that have frame caches.
Cached == {w \in WindowSet : prepared[w] # None}

\* Types, and the shape of the directory: a window in the index has the frame
\* caches its entry was made from.
TypeOK ==
    /\ content \in Contents
    /\ images \in [Parts -> {"none", "partial", "whole"}]
    /\ manifest \subseteq Parts
    /\ capture \in {"none", "captured", "fitted"}
    /\ neural \in [FrameSet -> ReaderSet \cup {None}]
    /\ offer \in [FrameSet -> Torn \cup Whole \cup {None}]
    /\ weak \in [FrameSet -> ReaderSet \cup {None}]
    /\ currency \in [FrameSet -> ReaderSet \cup {None}]
    /\ prepared \in [WindowSet -> ReaderSet \cup {None}]
    /\ recorded \in [WindowSet -> ReaderSet \cup {None}]
    /\ \A w \in WindowSet : recorded[w] \in {None, prepared[w]}
    /\ bare \subseteq Cached
    /\ cards \in Torn \cup Whole \cup {None} /\ report \in Reports \cup {None}
    /\ outcome \in {"idle", "running", "failed", "done"}
    /\ stage \in ToSet(Stages)
    /\ ocr \in [FrameSet -> {"todo", "read", "offering", "parsed", "dropped", "bad"}]
    /\ budget \in Budgets
    /\ losses \subseteq {"currency", "cards", "windows"}
    /\ reader \in ReaderSet
    /\ scars \subseteq {"offer", "cards", "prune", "bare", "reader"}
    /\ stops \in 0..MaxStops

---------------------------------------------------------------------------
(* Starts, kills, and a new reader between two starts.                     *)

\* A directory a run of an older release left may hold windows beyond the
\* budget; nothing else is there.
Init ==
    /\ content \in Contents
    /\ images = [p \in Parts |-> "none"] /\ manifest = {} /\ capture = "none"
    /\ neural = [f \in FrameSet |-> None] /\ offer = [f \in FrameSet |-> None]
    /\ weak = [f \in FrameSet |-> None] /\ currency = [f \in FrameSet |-> None]
    /\ \E old \in SUBSET (WindowSet \ Picked) :
         /\ prepared = [w \in WindowSet |-> IF w \in old THEN Readers[1] ELSE None]
         /\ recorded = prepared
    /\ bare = {}
    /\ cards = None /\ report = None
    /\ outcome = "idle" /\ stage = "capture"
    /\ ocr = [f \in FrameSet |-> "todo"]
    /\ budget \in Budgets /\ losses = {} /\ reader = Readers[1]
    /\ scars = {} /\ stops = 0

\* A start: the job's first, or Resume's.
Start ==
    /\ outcome = "idle"
    /\ outcome' = "running" /\ stage' = "capture"
    /\ budget' \in Budgets
    /\ ocr' = [f \in FrameSet |-> "todo"] /\ losses' = {}
    /\ UNCHANGED <<disk, reader, hist>>

\* The scars a kill leaves: a file torn in the middle of its write, or a
\* pruning that had begun on the images of the capture, or on those of the
\* dense windows, and had not been announced.
Wounds ==
    (IF \E f \in FrameSet : ocr[f] = "offering" THEN {"offer"} ELSE {})
    \cup (IF stage = "sealing" THEN {"cards"} ELSE {})
    \cup (IF stage \in {"prune", "emit"} /\ \E p \in Parts : images[p] = "none" THEN {"prune"} ELSE {})
    \cup (IF stage \in {"prune", "emit"} /\ bare # {} THEN {"bare"} ELSE {})

\* The process tree is killed: a pause, a shutdown, a crash.
Stop ==
    /\ outcome = "running" /\ stops < MaxStops
    /\ outcome' = "idle" /\ stops' = stops + 1
    /\ scars' = scars \cup Wounds
    /\ UNCHANGED <<disk, stage, ocr, budget, losses, reader>>

\* The analyzer or its model is replaced between two starts.
Upgrade ==
    /\ outcome = "idle" /\ reader # Readers[Len(Readers)]
    /\ reader' = Readers[Len(Readers)]
    /\ scars' = IF \/ \E f \in FrameSet : offer[f] # None \/ weak[f] # None \/ currency[f] # None
                   \/ cards # None \/ Cached # {}
                THEN scars \cup {"reader"} ELSE scars
    /\ UNCHANGED <<disk, outcome, stage, ocr, budget, losses, stops>>

At(s) == outcome = "running" /\ stage = s
Pass  == stage' = After(stage) /\ UNCHANGED <<outcome, losses>>
Die   == outcome' = "failed" /\ UNCHANGED <<stage, losses>>
Lose(s) == stage' = After(stage) /\ losses' = losses \cup {s} /\ UNCHANGED outcome

---------------------------------------------------------------------------
(* Capture and layout.                                                     *)

\* A capture that exists is used again; its frame images must all be there.
ReuseCapture ==
    /\ At("capture") /\ capture # "none"
    /\ IF \A p \in Parts : images[p] = "whole" THEN Pass ELSE Die
    /\ UNCHANGED <<disk, ocr, budget, reader, hist>>

\* Mutant: the parts that are there are not looked for.
BeginDecodeAgain(p) ==
    /\ At("capture") /\ capture = "none"
    /\ images' = [images EXCEPT ![p] = "partial"]
    /\ UNCHANGED <<content, manifest, capture, neural, offer, weak, currency, prepared, bare, recorded, cards, report, run, hist>>

\* A part without a manifest is cleared and decoded from its start.
BeginDecode(p) ==
    /\ At("capture") /\ capture = "none" /\ p \notin manifest /\ images[p] # "whole"
    /\ images' = [images EXCEPT ![p] = "partial"]
    /\ UNCHANGED <<content, manifest, capture, neural, offer, weak, currency, prepared, bare, recorded, cards, report, run, hist>>

FinishDecode(p) ==
    /\ At("capture") /\ images[p] = "partial"
    /\ images' = [images EXCEPT ![p] = "whole"]
    /\ manifest' = manifest \cup {p}
    /\ UNCHANGED <<content, capture, neural, offer, weak, currency, prepared, bare, recorded, cards, report, run, hist>>

\* Mutant: the capture is written as soon as one part is.
SaveCaptureEarly ==
    /\ At("capture") /\ capture = "none" /\ manifest # {}
    /\ capture' = "captured" /\ Pass
    /\ UNCHANGED <<content, images, manifest, neural, offer, weak, currency, prepared, bare, recorded, cards, report, ocr, budget, reader, hist>>

SaveCapture ==
    /\ At("capture") /\ capture = "none" /\ manifest = Parts
    /\ capture' = "captured" /\ Pass
    /\ UNCHANGED <<content, images, manifest, neural, offer, weak, currency, prepared, bare, recorded, cards, report, ocr, budget, reader, hist>>

\* The margins are fitted once and kept in the capture.
FitLayout ==
    /\ At("fit") /\ capture' = "fitted" /\ Pass
    /\ UNCHANGED <<content, images, manifest, neural, offer, weak, currency, prepared, bare, recorded, cards, report, ocr, budget, reader, hist>>

---------------------------------------------------------------------------
(* The base readings: one task per frame, in any order.                    *)

\* A frame's row is read, or taken from the cache when this reader made it.
ReadFrame(f) ==
    /\ At("ocr") /\ ocr[f] = "todo"
    /\ neural' = [neural EXCEPT ![f] = reader]
    /\ ocr' = [ocr EXCEPT ![f] = "read"]
    /\ UNCHANGED <<content, images, manifest, capture, offer, weak, currency, prepared, bare, recorded, cards, report,
                   outcome, stage, budget, losses, reader, hist>>

\* Parsing the row.  A lesson offer has its costs reread into a sidecar that
\* is created in place; one that exists is read back instead, and neither a
\* torn one nor one of another row can be.
ParseFrame(f) ==
    /\ At("ocr") /\ ocr[f] = "read"
    /\ LET new == f \in Offers /\ offer[f] = None
           bad == f \in Offers /\ offer[f] # None /\ (offer[f].torn \/ offer[f].by # reader)
       IN  /\ offer' = IF new THEN [offer EXCEPT ![f] = [torn |-> TRUE, by |-> reader]] ELSE offer
           /\ ocr' = IF new THEN [ocr EXCEPT ![f] = "offering"]
                     ELSE IF bad \* the frames not begun are cancelled
                     THEN [g \in FrameSet |-> IF g = f THEN "bad" ELSE IF ocr[g] = "todo" THEN "dropped" ELSE ocr[g]]
                     ELSE [ocr EXCEPT ![f] = "parsed"]
    /\ UNCHANGED <<content, images, manifest, capture, neural, weak, currency, prepared, bare, recorded, cards, report,
                   outcome, stage, budget, losses, reader, hist>>

FinishOffer(f) ==
    /\ At("ocr") /\ ocr[f] = "offering"
    /\ offer' = [offer EXCEPT ![f].torn = FALSE]
    /\ ocr' = [ocr EXCEPT ![f] = "parsed"]
    /\ UNCHANGED <<content, images, manifest, capture, neural, weak, currency, prepared, bare, recorded, cards, report,
                   outcome, stage, budget, losses, reader, hist>>

\* The executor waits for the frames it began, then the run goes on or ends.
FinishOcr ==
    /\ At("ocr") /\ \A f \in FrameSet : ocr[f] \in {"parsed", "dropped", "bad"}
    /\ IF \A f \in FrameSet : ocr[f] = "parsed" THEN Pass ELSE Die
    /\ UNCHANGED <<disk, ocr, budget, reader, hist>>

---------------------------------------------------------------------------
(* Sidecars of the base readings.                                          *)

\* A saved sidecar beyond the budget is deleted before anything is read.
SelectWeak ==
    /\ At("weak")
    /\ \E f \in Weak \ WeakKept : weak[f] # None
    /\ weak' = [f \in FrameSet |-> IF f \in WeakKept THEN weak[f] ELSE None]
    /\ UNCHANGED <<content, images, manifest, capture, neural, offer, currency, prepared, bare, recorded, cards, report, run, hist>>

RefineWeak(f) ==
    /\ At("weak") /\ \A g \in Weak \ WeakKept : weak[g] = None
    /\ f \in WeakKept /\ weak[f] = None
    /\ weak' = [weak EXCEPT ![f] = neural[f]]
    /\ UNCHANGED <<content, images, manifest, capture, neural, offer, currency, prepared, bare, recorded, cards, report, run, hist>>

FinishWeak ==
    /\ At("weak") /\ \A f \in Weak : (weak[f] # None) <=> f \in WeakKept
    /\ Pass
    /\ UNCHANGED <<disk, ocr, budget, reader, hist>>

\* Every lesson balance is read in a wide crop once; the padding pass after
\* it refuses a crop of another row, and the stage is lost.
RefineCurrency(f) ==
    /\ At("currency") /\ f \in Offers /\ currency[f] = None
    /\ currency' = [currency EXCEPT ![f] = neural[f]]
    /\ UNCHANGED <<content, images, manifest, capture, neural, offer, weak, prepared, bare, recorded, cards, report, run, hist>>

FinishCurrency ==
    /\ At("currency") /\ \A f \in Offers : currency[f] # None
    /\ IF \A f \in Offers : currency[f] = neural[f] THEN Pass ELSE Lose("currency")
    /\ UNCHANGED <<disk, ocr, budget, reader, hist>>

\* Every row is read again with its sidecars.  This is not a guarded stage:
\* a sidecar of another row ends the run.
Reload ==
    /\ At("reload")
    /\ IF \A f \in FrameSet : /\ weak[f] \in {None, neural[f]}
                              /\ currency[f] \in {None, neural[f]}
                              /\ offer[f] = None \/ (~offer[f].torn /\ offer[f].by = neural[f])
       THEN Pass ELSE Die
    /\ UNCHANGED <<disk, ocr, budget, reader, hist>>

\* A hint-card cache that exists is replayed and never written again.
ReplayCards ==
    /\ At("cards") /\ cards # None
    /\ IF ~cards.torn /\ cards.by = reader
       THEN stage' = "windows" /\ UNCHANGED <<outcome, losses>>
       ELSE stage' = "windows" /\ losses' = losses \cup {"cards"} /\ UNCHANGED outcome
    /\ UNCHANGED <<disk, ocr, budget, reader, hist>>

\* A missing one is created in place when there are cards to keep.
CreateCards ==
    /\ At("cards") /\ cards = None
    /\ cards' = IF HasCards THEN [torn |-> TRUE, by |-> reader] ELSE None
    /\ stage' = IF HasCards THEN "sealing" ELSE "windows"
    /\ UNCHANGED <<content, images, manifest, capture, neural, offer, weak, currency, prepared, bare, recorded, report,
                   outcome, losses, ocr, budget, reader, hist>>

FinishCards ==
    /\ At("sealing")
    /\ cards' = [cards EXCEPT !.torn = FALSE] /\ Pass
    /\ UNCHANGED <<content, images, manifest, capture, neural, offer, weak, currency, prepared, bare, recorded, report,
                   ocr, budget, reader, hist>>

---------------------------------------------------------------------------
(* Dense windows: a pool fills the frame caches of the new ones, then each *)
(* window is recorded, or validated again, in the order of the plan.       *)

\* A window whose caches another reader made, or some of whose images are
\* gone, raises when it is read or validated again.
Refused(w) == prepared[w] \notin {None, reader} \/ w \in bare
New == {w \in Picked : recorded[w] = None}
Earlier(w) == {v \in Picked : \E i, j \in DOMAIN Requested : i < j /\ Requested[i] = v /\ Requested[j] = w}
PoolFails == Pool /\ \E w \in New : Refused(w)

PrepareWindow(w) ==
    /\ At("windows") /\ w \in New /\ prepared[w] = None
    /\ Pool \/ \A v \in Earlier(w) : recorded[v] # None /\ ~Refused(v)
    /\ prepared' = [prepared EXCEPT ![w] = reader]
    /\ UNCHANGED <<content, images, manifest, capture, neural, offer, weak, currency, bare, recorded, cards, report, run, hist>>

\* Mutant: a window is written into the index before its frames are read.
RecordUnread(w) ==
    /\ At("windows") /\ w \in New
    /\ \A v \in Earlier(w) : recorded[v] # None /\ ~Refused(v)
    /\ recorded' = [recorded EXCEPT ![w] = reader]
    /\ UNCHANGED <<content, images, manifest, capture, neural, offer, weak, currency, prepared, bare, cards, report, run, hist>>

\* The index is written once per window, with every window before it.
RecordWindow(w) ==
    /\ At("windows") /\ w \in New /\ prepared[w] = reader /\ ~Refused(w)
    /\ Pool => ~PoolFails /\ \A v \in New : prepared[v] # None
    /\ \A v \in Earlier(w) : recorded[v] # None /\ ~Refused(v)
    /\ recorded' = [recorded EXCEPT ![w] = reader]
    /\ UNCHANGED <<content, images, manifest, capture, neural, offer, weak, currency, prepared, bare, cards, report, run, hist>>

\* Mutant: the stage is left without a word.
LoseWindowsSilently ==
    /\ At("windows")
    /\ Pool => \A v \in New : prepared[v] # None
    /\ PoolFails \/ \E w \in Picked : Refused(w)
    /\ Pass
    /\ UNCHANGED <<disk, ocr, budget, reader, hist>>

\* A window is refused: the stage is lost, the readings stay as they were
\* before it.
LoseWindows ==
    /\ At("windows")
    /\ Pool => \A v \in New : prepared[v] # None
    /\ \/ PoolFails
       \/ \E w \in Picked : Refused(w) /\ \A v \in Earlier(w) : recorded[v] # None /\ ~Refused(v)
    /\ Lose("windows")
    /\ UNCHANGED <<disk, ocr, budget, reader, hist>>

FinishWindows ==
    /\ At("windows") /\ New = {} /\ \A w \in Picked : ~Refused(w)
    /\ Pass
    /\ UNCHANGED <<disk, ocr, budget, reader, hist>>

---------------------------------------------------------------------------
(* The report, and the pruning of a finished run.                          *)

Publish ==
    /\ At("publish")
    /\ report' = [rows |-> neural, reader |-> reader, budget |-> budget,
                  offers |-> {f \in FrameSet : offer[f] # None},
                  weak |-> {f \in FrameSet : weak[f] # None},
                  currency |-> {f \in FrameSet : currency[f] # None},
                  windows |-> IF \A w \in Picked : recorded[w] = reader /\ ~Refused(w) THEN Picked ELSE {},
                  cards |-> cards # None /\ ~cards.torn /\ cards.by = reader,
                  losses |-> losses]
    /\ Pass
    /\ UNCHANGED <<content, images, manifest, capture, neural, offer, weak, currency, prepared, bare, recorded, cards,
                   ocr, budget, reader, hist>>

\* The job checks the report and prunes: first the images, one file at a time
\* and the deepest first, then every directory; the files at the top stay.
\* The images of the dense windows lie deeper than those of the capture.
PruneWindow(w) ==
    /\ At("prune") /\ w \in Cached \ bare
    /\ bare' = bare \cup {w}
    /\ UNCHANGED <<content, images, manifest, capture, neural, offer, weak, currency, prepared, recorded, cards, report, run, hist>>

PruneImages(p) ==
    /\ At("prune") /\ bare = Cached /\ images[p] # "none"
    /\ images' = [images EXCEPT ![p] = "none"]
    /\ UNCHANGED <<content, manifest, capture, neural, offer, weak, currency, prepared, bare, recorded, cards, report, run, hist>>

PruneDirectories ==
    /\ At("prune") /\ bare = Cached /\ \A p \in Parts : images[p] = "none"
    /\ IF PruneData
       THEN /\ manifest' = {}
            /\ neural' = [f \in FrameSet |-> None] /\ offer' = [f \in FrameSet |-> None]
            /\ weak' = [f \in FrameSet |-> None] /\ currency' = [f \in FrameSet |-> None]
            /\ prepared' = [w \in WindowSet |-> None] /\ recorded' = [w \in WindowSet |-> None] /\ bare' = {}
       ELSE UNCHANGED <<manifest, neural, offer, weak, currency, prepared, bare, recorded>>
    /\ Pass
    /\ UNCHANGED <<content, images, capture, cards, report, ocr, budget, reader, hist>>

\* The terminal object; the run is over.
Emit ==
    /\ At("emit") /\ outcome' = "done"
    /\ UNCHANGED <<disk, stage, ocr, budget, losses, reader, hist>>

Settled == outcome \in {"failed", "done"} /\ UNCHANGED vars

FrameStep(f) ==
    ReadFrame(f) \/ ParseFrame(f) \/ FinishOffer(f) \/ RefineWeak(f) \/ RefineCurrency(f)
PartStep(p) == BeginDecode(p) \/ FinishDecode(p) \/ PruneImages(p)
WindowStep(w) == PrepareWindow(w) \/ RecordWindow(w) \/ PruneWindow(w)
RunStep ==
    \/ ReuseCapture \/ SaveCapture \/ FitLayout \/ FinishOcr
    \/ SelectWeak \/ FinishWeak \/ FinishCurrency \/ Reload
    \/ ReplayCards \/ CreateCards \/ FinishCards
    \/ LoseWindows \/ FinishWindows
    \/ Publish \/ PruneDirectories \/ Emit
    \/ \E f \in FrameSet : FrameStep(f)
    \/ \E p \in Parts : PartStep(p)
    \/ \E w \in WindowSet : WindowStep(w)

Next == Start \/ Stop \/ Upgrade \/ RunStep \/ Settled

\* The process runs unless it is killed; nobody has to start it again.
Spec == Init /\ [][Next]_vars /\ WF_vars(RunStep)

---------------------------------------------------------------------------
(* What the directory and the report promise.                              *)

\* The report of a run nobody stopped, with the same reader and budget.
Straight(b, r) ==
    [rows |-> [f \in FrameSet |-> r], reader |-> r, budget |-> b,
     offers |-> Offers, weak |-> Within(Weak, b), currency |-> Offers,
     windows |-> Picked, cards |-> HasCards, losses |-> {}]

\* A stopped analysis that is started again can only fail when a kill tore a
\* file written in place or interrupted the pruning, or when another reader
\* has come: any other interruption is recovered from.
ResumeContinues == outcome = "failed" => scars \cap {"offer", "prune", "reader"} # {}

\* However often it was stopped, an analysis reports exactly what a run
\* straight through reports, the same rereads, the same windows, nothing lost,
\* unless a kill tore a file written in place ("offer", "cards"), another
\* reader came ("reader"), or a kill came in the pruning when it had begun on
\* the dense windows ("bare"): the capture may be whole then, the next run goes
\* on from it, the windows are refused, and the report that was whole is
\* written again without them.
ReportsAlike == report # None /\ scars \subseteq {"prune"} => report = Straight(report.budget, report.reader)

\* Whatever happened on the way, a report that lacks something a straight run
\* has says which stage was lost.
LossIsNamed == report # None /\ report.losses = {} => report = Straight(report.budget, report.reader)

\* The images a resume needs are deleted only once a report is written.
InputsOutliveTheRun ==
    capture # "none" /\ report = None => \A p \in Parts : images[p] = "whole"

\* A running analysis always comes to an end of its own, on any directory an
\* earlier start left.
RunEnds == (outcome = "running") ~> (outcome # "running")

\* The claim of docs/architecture.md on pauses and stops: whatever stopped an
\* analysis whose recording and reader stay, starting it again continues it.
StopIsAPause == outcome # "failed"

---------------------------------------------------------------------------
(* The inductive invariant.                                                *)

\* The run is at one of these stages.
Ran(stages) == outcome = "running" /\ stage \in stages
Told == {"publish", "prune"}
Read == {"windows"} \cup Told
Refined == {"reload", "cards", "sealing"} \cup Read
Parsed == {"weak", "currency"} \cup Refined

\* The images are there until the pruning, and the pruning begins on a report.
DirectoryFits ==
    /\ capture = "none" => report = None /\ \A p \in manifest : images[p] = "whole"
    /\ capture # "none" => \A p \in Parts : images[p] # "partial"
    /\ outcome = "running" /\ stage # "capture" => capture # "none"
    /\ Ran({"prune", "emit"}) \/ "prune" \in scars \/ outcome = "done" => report # None
    /\ capture # "none" => \/ \A p \in Parts : images[p] = "whole"
                           \/ Ran({"prune", "emit"}) \/ "prune" \in scars \/ outcome = "done"
    /\ bare # {} => Ran({"prune", "emit"}) \/ "bare" \in scars \/ outcome = "done"

\* Sidecars are those of what the recording shows, whole unless a kill tore
\* them, and of the current reader unless another has come.
SidecarsFit ==
    /\ \A f \in FrameSet :
         /\ (offer[f] # None \/ currency[f] # None => f \in Offers) /\ (weak[f] # None => f \in Weak)
         /\ offer[f] # None /\ offer[f].torn => "offer" \in scars \/ (Ran({"ocr"}) /\ ocr[f] = "offering")
         /\ \/ "reader" \in scars
            \/ (offer[f] # None => offer[f].by = reader) /\ {weak[f], currency[f]} \subseteq {None, reader}
    /\ cards # None => HasCards
    /\ cards # None /\ cards.torn => "cards" \in scars \/ Ran({"sealing"})
    /\ \/ "reader" \in scars
       \/ (cards # None => cards.by = reader) /\ \A w \in WindowSet : prepared[w] \in {None, reader}

\* What the stages behind a run have left for the report.
RunFits ==
    /\ outcome = "running" /\ stage # "emit" => \A f \in FrameSet :
         /\ ocr[f] \in {"read", "offering", "parsed"} => neural[f] = reader
         /\ ocr[f] = "offering" \/ (ocr[f] = "parsed" /\ f \in Offers) => offer[f] # None
         /\ ocr[f] \in {"bad", "dropped"} => scars \cap {"offer", "reader"} # {}
    /\ Ran(Parsed) => \A f \in FrameSet : ocr[f] = "parsed"
    /\ Ran({"currency"} \cup Refined) => \A f \in Weak : weak[f] # None <=> f \in WeakKept
    /\ Ran(Refined) => \A f \in Offers : currency[f] # None
    /\ Ran({"sealing"}) => cards # None /\ cards.by = reader
    /\ Ran(Read) => "cards" \in losses \/ ((cards # None /\ ~cards.torn /\ cards.by = reader) <=> HasCards)
    /\ Ran({"publish"}) => "windows" \in losses \/ \A w \in Picked : recorded[w] = reader /\ ~Refused(w)
    /\ outcome = "running" /\ losses # {} => scars \cap {"cards", "bare", "reader"} # {}

\* A loss that a report names has a cause.
LossHasCause == report # None /\ report.losses # {} => scars \cap {"cards", "bare", "reader"} # {}

IInv == TypeOK /\ DirectoryFits /\ SidecarsFit /\ RunFits /\ LossHasCause /\ LossIsNamed /\ ResumeContinues

\* What JobManager takes for granted of a worker.  One that says it is done
\* has a report and has pruned what was to be pruned (WorkerExits there); and
\* whatever stops a worker, a report once written stays (Grown there).
Emptied ==
    /\ bare = Cached /\ \A p \in Parts : images[p] = "none"
    /\ PruneData =>
         /\ manifest = {}
         /\ \A f \in FrameSet : {neural[f], offer[f], weak[f], currency[f]} = {None}
         /\ \A w \in WindowSet : {prepared[w], recorded[w]} = {None}
DoneIsPruned == outcome = "done" => report # None /\ Emptied
WorkerContract == []DoneIsPruned /\ [][report # None => report' # None]_vars

\* The same a step earlier, before the worker says so.
EndFits == Ran({"emit"}) \/ outcome = "done" => report # None /\ Emptied
=============================================================================
