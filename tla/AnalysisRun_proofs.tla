-------------------------- MODULE AnalysisRun_proofs --------------------------
(***************************************************************************)
(* What holds of an analysis directory for every recording, plan, budget   *)
(* and number of stops: the inductive invariant IInv of AnalysisRun, what  *)
(* a resumed analysis promises, which follows from it, and what the job    *)
(* manager takes for granted of its worker.                                *)
(***************************************************************************)
EXTENDS AnalysisRun, TLAPS

USE DEF disk, run, hist

---------------------------------------------------------------------------
(* The order of the stages.                                                *)

\* The stages differ, so each has one that follows it.
LEMMA Follows ==
    ASSUME NEW k \in 2..12
    PROVE  After(Stages[k - 1]) = Stages[k]
<1>1. Len(Stages) = 12
      BY DEF Stages
<1>2. ASSUME NEW i \in 2..12, Stages[i - 1] = Stages[k - 1] PROVE i = k
      BY <1>2 DEF Stages
<1>3. (CHOOSE i \in 2..12 : Stages[i - 1] = Stages[k - 1]) = k
      BY <1>2
<1> QED
      BY <1>1, <1>3 DEF After

LEMMA Order ==
    /\ After("capture") = "fit" /\ After("fit") = "ocr" /\ After("ocr") = "weak" /\ After("weak") = "currency"
    /\ After("currency") = "reload" /\ After("reload") = "cards" /\ After("cards") = "sealing"
    /\ After("sealing") = "windows" /\ After("windows") = "publish" /\ After("publish") = "prune"
    /\ After("prune") = "emit"
<1>1. \A k \in 2..12 : After(Stages[k - 1]) = Stages[k]
      BY Follows
<1> QED BY <1>1 DEF Stages

LEMMA StageSet ==
    ToSet(Stages) = {"capture", "fit", "ocr", "weak", "currency", "reload", "cards", "sealing", "windows",
                     "publish", "prune", "emit"}
<1>1. DOMAIN Stages = 1..12
      BY DEF Stages
<1>2. \A i \in 1..12 : i = 1 \/ i = 2 \/ i = 3 \/ i = 4 \/ i = 5 \/ i = 6 \/ i = 7 \/ i = 8 \/ i = 9
                       \/ i = 10 \/ i = 11 \/ i = 12
      OBVIOUS
<1> QED BY <1>1, <1>2 DEF ToSet, Stages

LEMMA ReaderIsKnown == Readers[1] \in ReaderSet /\ Readers[Len(Readers)] \in ReaderSet
BY ReadersAssumption DEF ReaderSet

\* What a recording may show.
LEMMA ContentType ==
    ASSUME content \in Contents
    PROVE  Offers \subseteq FrameSet /\ Weak \subseteq FrameSet /\ HasCards \in BOOLEAN
BY FramesAssumption DEF Offers, Weak, HasCards, FrameSet

---------------------------------------------------------------------------
(* Types.                                                                  *)

LEMMA TypeStep ==
    ASSUME IInv, [Next]_vars
    PROVE  TypeOK'
<1>t. TypeOK /\ RunFits
      BY DEF IInv
<1> USE <1>t, Order, StageSet DEF TypeOK, Cached
<1>1. CASE Start
      BY <1>1, BudgetsAssumption DEF Start
<1>2. CASE Stop
      BY <1>2, BudgetsAssumption DEF Stop, Wounds
<1>3. CASE Upgrade
      BY <1>3, ReaderIsKnown DEF Upgrade
<1>4. CASE ReuseCapture
      BY <1>4 DEF ReuseCapture, Pass, Die, At
<1>5. CASE SaveCapture
      BY <1>5 DEF SaveCapture, Pass, At
<1>6. CASE FitLayout
      BY <1>6 DEF FitLayout, Pass, At
<1>7. CASE FinishOcr
      BY <1>7 DEF FinishOcr, Pass, Die, At
<1>8. CASE SelectWeak
      BY <1>8 DEF SelectWeak, At
<1>9. CASE FinishWeak
      BY <1>9 DEF FinishWeak, Pass, At
<1>10. CASE FinishCurrency
      BY <1>10 DEF FinishCurrency, Pass, Lose, At
<1>11. CASE Reload
      BY <1>11 DEF Reload, Pass, Die, At
<1>12. CASE ReplayCards
      BY <1>12 DEF ReplayCards, At
<1>13. CASE CreateCards
      BY <1>13 DEF CreateCards, At, Torn
<1>14. CASE FinishCards
      BY <1>14 DEF FinishCards, Pass, At, Torn, Whole, RunFits, Ran
<1>15. CASE LoseWindows
      BY <1>15 DEF LoseWindows, Lose, At
<1>16. CASE FinishWindows
      BY <1>16 DEF FinishWindows, Pass, At
<1>17. CASE Publish
      BY <1>17 DEF Publish, Pass, At, Reports
<1>18. CASE PruneDirectories
      BY <1>18 DEF PruneDirectories, Pass, At
<1>19. CASE Emit
      BY <1>19 DEF Emit
<1>20. CASE Settled
      BY <1>20 DEF Settled, vars
<1>21. ASSUME NEW f \in FrameSet, ReadFrame(f) PROVE TypeOK'
      BY <1>21 DEF ReadFrame
<1>22. ASSUME NEW f \in FrameSet, ParseFrame(f) PROVE TypeOK'
      BY <1>22 DEF ParseFrame, Torn
<1>23. ASSUME NEW f \in FrameSet, FinishOffer(f) PROVE TypeOK'
  <2>1. offer[f] \in Torn \cup Whole
        BY <1>23 DEF FinishOffer, RunFits, At
  <2>2. [offer[f] EXCEPT !.torn = FALSE] \in Whole
        BY <2>1 DEF Torn, Whole
  <2> QED BY <1>23, <2>2 DEF FinishOffer
<1>24. ASSUME NEW f \in FrameSet, RefineWeak(f) PROVE TypeOK'
      BY <1>24 DEF RefineWeak
<1>25. ASSUME NEW f \in FrameSet, RefineCurrency(f) PROVE TypeOK'
      BY <1>25 DEF RefineCurrency
<1>26. ASSUME NEW p \in Parts, BeginDecode(p) PROVE TypeOK'
      BY <1>26 DEF BeginDecode
<1>27. ASSUME NEW p \in Parts, FinishDecode(p) PROVE TypeOK'
      BY <1>27 DEF FinishDecode
<1>28. ASSUME NEW p \in Parts, PruneImages(p) PROVE TypeOK'
      BY <1>28 DEF PruneImages
<1>29. ASSUME NEW v \in WindowSet, PrepareWindow(v) PROVE TypeOK'
      BY <1>29 DEF PrepareWindow
<1>30. ASSUME NEW v \in WindowSet, RecordWindow(v) PROVE TypeOK'
      BY <1>30 DEF RecordWindow
<1>31. ASSUME NEW v \in WindowSet, PruneWindow(v) PROVE TypeOK'
      BY <1>31 DEF PruneWindow
<1>32. CASE UNCHANGED vars
      BY <1>32 DEF vars
<1> QED
      BY <1>1, <1>2, <1>3, <1>4, <1>5, <1>6, <1>7, <1>8, <1>9, <1>10, <1>11, <1>12, <1>13, <1>14, <1>15, <1>16,
         <1>17, <1>18, <1>19, <1>20, <1>21, <1>22, <1>23, <1>24, <1>25, <1>26, <1>27, <1>28, <1>29, <1>30, <1>31, <1>32
      DEF Next, RunStep, FrameStep, PartStep, WindowStep

---------------------------------------------------------------------------
(* The directory.                                                          *)

\* What happened to the directory is not forgotten.
LEMMA ScarsGrow ==
    ASSUME [Next]_vars
    PROVE  scars \subseteq scars' /\ UNCHANGED content
<1>1. CASE Start
      BY <1>1 DEF Start
<1>2. CASE Stop
      BY <1>2 DEF Stop, Wounds
<1>3. CASE Upgrade
      BY <1>3 DEF Upgrade
<1>4. CASE ReuseCapture
      BY <1>4 DEF ReuseCapture, Pass, Die, At
<1>5. CASE SaveCapture
      BY <1>5 DEF SaveCapture, Pass, At
<1>6. CASE FitLayout
      BY <1>6 DEF FitLayout, Pass, At
<1>7. CASE FinishOcr
      BY <1>7 DEF FinishOcr, Pass, Die, At
<1>8. CASE SelectWeak
      BY <1>8 DEF SelectWeak, At
<1>9. CASE FinishWeak
      BY <1>9 DEF FinishWeak, Pass, At
<1>10. CASE FinishCurrency
      BY <1>10 DEF FinishCurrency, Pass, Lose, At
<1>11. CASE Reload
      BY <1>11 DEF Reload, Pass, Die, At
<1>12. CASE ReplayCards
      BY <1>12 DEF ReplayCards, At
<1>13. CASE CreateCards
      BY <1>13 DEF CreateCards, At
<1>14. CASE FinishCards
      BY <1>14 DEF FinishCards, Pass, At
<1>15. CASE LoseWindows
      BY <1>15 DEF LoseWindows, Lose, At
<1>16. CASE FinishWindows
      BY <1>16 DEF FinishWindows, Pass, At
<1>17. CASE Publish
      BY <1>17 DEF Publish, Pass, At
<1>18. CASE PruneDirectories
      BY <1>18 DEF PruneDirectories, Pass, At
<1>19. CASE Emit
      BY <1>19 DEF Emit, At
<1>20. CASE Settled
      BY <1>20 DEF Settled, vars
<1>21. ASSUME NEW f \in FrameSet, ReadFrame(f) PROVE scars \subseteq scars' /\ UNCHANGED content
      BY <1>21 DEF ReadFrame, At
<1>22. ASSUME NEW f \in FrameSet, ParseFrame(f) PROVE scars \subseteq scars' /\ UNCHANGED content
      BY <1>22 DEF ParseFrame, At
<1>23. ASSUME NEW f \in FrameSet, FinishOffer(f) PROVE scars \subseteq scars' /\ UNCHANGED content
      BY <1>23 DEF FinishOffer, At
<1>24. ASSUME NEW f \in FrameSet, RefineWeak(f) PROVE scars \subseteq scars' /\ UNCHANGED content
      BY <1>24 DEF RefineWeak, At
<1>25. ASSUME NEW f \in FrameSet, RefineCurrency(f) PROVE scars \subseteq scars' /\ UNCHANGED content
      BY <1>25 DEF RefineCurrency, At
<1>26. ASSUME NEW p \in Parts, BeginDecode(p) PROVE scars \subseteq scars' /\ UNCHANGED content
      BY <1>26 DEF BeginDecode, At
<1>27. ASSUME NEW p \in Parts, FinishDecode(p) PROVE scars \subseteq scars' /\ UNCHANGED content
      BY <1>27 DEF FinishDecode, At
<1>28. ASSUME NEW p \in Parts, PruneImages(p) PROVE scars \subseteq scars' /\ UNCHANGED content
      BY <1>28 DEF PruneImages, At
<1>29. ASSUME NEW v \in WindowSet, PrepareWindow(v) PROVE scars \subseteq scars' /\ UNCHANGED content
      BY <1>29 DEF PrepareWindow, At
<1>30. ASSUME NEW v \in WindowSet, RecordWindow(v) PROVE scars \subseteq scars' /\ UNCHANGED content
      BY <1>30 DEF RecordWindow, At
<1>31. ASSUME NEW v \in WindowSet, PruneWindow(v) PROVE scars \subseteq scars' /\ UNCHANGED content
      BY <1>31 DEF PruneWindow, At
<1>32. CASE UNCHANGED vars
      BY <1>32 DEF vars
<1> QED
      BY <1>1, <1>2, <1>3, <1>4, <1>5, <1>6, <1>7, <1>8, <1>9, <1>10, <1>11, <1>12, <1>13, <1>14, <1>15, <1>16,
         <1>17, <1>18, <1>19, <1>20, <1>21, <1>22, <1>23, <1>24, <1>25, <1>26, <1>27, <1>28, <1>29, <1>30, <1>31, <1>32
      DEF Next, RunStep, FrameStep, PartStep, WindowStep

\* A published report is one.
LEMMA Published ==
    ASSUME TypeOK, Publish
    PROVE  report' \in Reports /\ report' # None
<1>1. report' \in Reports
      BY DEF Publish, Reports, TypeOK
<1> QED BY <1>1, NoneAssumption

\* The images and the report: only a published run deletes images.
LEMMA DirectoryStep ==
    ASSUME IInv, [Next]_vars
    PROVE  DirectoryFits'
<1>t. TypeOK /\ DirectoryFits
      BY DEF IInv
<1>p. \A p \in Parts : images[p] \in {"none", "partial", "whole"}
      BY <1>t DEF TypeOK
<1> USE <1>t, <1>p, Order DEF DirectoryFits, Ran, Cached
<1>1. CASE Start
      BY <1>1 DEF Start
<1>2. CASE Stop
      BY <1>2 DEF Stop, Wounds
<1>3. CASE Upgrade
      BY <1>3 DEF Upgrade
<1>4. CASE ReuseCapture
      BY <1>4 DEF ReuseCapture, Pass, Die, At
<1>5. CASE SaveCapture
      BY <1>5 DEF SaveCapture, Pass, At, TypeOK
<1>6. CASE FitLayout
      BY <1>6 DEF FitLayout, Pass, At
<1>7. CASE FinishOcr
      BY <1>7 DEF FinishOcr, Pass, Die, At
<1>8. CASE SelectWeak
      BY <1>8 DEF SelectWeak, At
<1>9. CASE FinishWeak
      BY <1>9 DEF FinishWeak, Pass, At
<1>10. CASE FinishCurrency
      BY <1>10 DEF FinishCurrency, Pass, Lose, At
<1>11. CASE Reload
      BY <1>11 DEF Reload, Pass, Die, At
<1>12. CASE ReplayCards
      BY <1>12 DEF ReplayCards, At
<1>13. CASE CreateCards
      BY <1>13 DEF CreateCards, At
<1>14. CASE FinishCards
      BY <1>14 DEF FinishCards, Pass, At
<1>15. CASE LoseWindows
      BY <1>15 DEF LoseWindows, Lose, At
<1>16. CASE FinishWindows
      BY <1>16 DEF FinishWindows, Pass, At
<1>17. CASE Publish
      BY <1>17, Published DEF Publish, Pass, At
<1>18. CASE PruneDirectories
      BY <1>18 DEF PruneDirectories, Pass, At
<1>19. CASE Emit
      BY <1>19 DEF Emit, At
<1>20. CASE Settled
      BY <1>20 DEF Settled, vars
<1>21. ASSUME NEW f \in FrameSet, ReadFrame(f) PROVE DirectoryFits'
      BY <1>21 DEF ReadFrame, At
<1>22. ASSUME NEW f \in FrameSet, ParseFrame(f) PROVE DirectoryFits'
      BY <1>22 DEF ParseFrame, At
<1>23. ASSUME NEW f \in FrameSet, FinishOffer(f) PROVE DirectoryFits'
      BY <1>23 DEF FinishOffer, At
<1>24. ASSUME NEW f \in FrameSet, RefineWeak(f) PROVE DirectoryFits'
      BY <1>24 DEF RefineWeak, At
<1>25. ASSUME NEW f \in FrameSet, RefineCurrency(f) PROVE DirectoryFits'
      BY <1>25 DEF RefineCurrency, At
<1>26. ASSUME NEW p \in Parts, BeginDecode(p) PROVE DirectoryFits'
      BY <1>26 DEF BeginDecode, At, TypeOK
<1>27. ASSUME NEW p \in Parts, FinishDecode(p) PROVE DirectoryFits'
      BY <1>27 DEF FinishDecode, At, TypeOK
<1>28. ASSUME NEW p \in Parts, PruneImages(p) PROVE DirectoryFits'
      BY <1>28 DEF PruneImages, At, TypeOK
<1>29. ASSUME NEW v \in WindowSet, PrepareWindow(v) PROVE DirectoryFits'
      BY <1>29 DEF PrepareWindow, At
<1>30. ASSUME NEW v \in WindowSet, RecordWindow(v) PROVE DirectoryFits'
      BY <1>30 DEF RecordWindow, At
<1>31. ASSUME NEW v \in WindowSet, PruneWindow(v) PROVE DirectoryFits'
      BY <1>31 DEF PruneWindow, At
<1>32. CASE UNCHANGED vars
      BY <1>32 DEF vars
<1> QED
      BY <1>1, <1>2, <1>3, <1>4, <1>5, <1>6, <1>7, <1>8, <1>9, <1>10, <1>11, <1>12, <1>13, <1>14, <1>15, <1>16,
         <1>17, <1>18, <1>19, <1>20, <1>21, <1>22, <1>23, <1>24, <1>25, <1>26, <1>27, <1>28, <1>29, <1>30, <1>31, <1>32
      DEF Next, RunStep, FrameStep, PartStep, WindowStep

---------------------------------------------------------------------------
(* The sidecars.                                                           *)

\* A sidecar is torn only by a kill, and of another reader only after one came.
LEMMA SidecarsStep ==
    ASSUME IInv, [Next]_vars
    PROVE  SidecarsFit'
<1>t. TypeOK /\ SidecarsFit /\ RunFits
      BY DEF IInv
<1>c. content' = content /\ scars \subseteq scars' /\ content \in Contents
      BY <1>t, ScarsGrow DEF TypeOK
<1>o. Offers' = Offers /\ Weak' = Weak /\ HasCards' = HasCards
      BY <1>c DEF Offers, Weak, HasCards
<1>n. ASSUME NEW x \in Torn \cup Whole PROVE x # None
      BY <1>n, NoneAssumption
<1>a. ASSUME Ran({"weak", "currency"}) PROVE \A f \in FrameSet : neural[f] = reader
      BY <1>t, <1>a DEF RunFits, Ran, Parsed, Refined
<1> USE <1>t, <1>c, <1>o, Order DEF SidecarsFit, Ran
<1>1. CASE Start
      BY <1>1 DEF Start, TypeOK
<1>2. CASE Stop
      BY <1>2 DEF Stop, Wounds
<1>3. CASE Upgrade
      BY <1>3 DEF Upgrade, TypeOK, Cached
<1>4. CASE ReuseCapture
      BY <1>4 DEF ReuseCapture, Pass, Die, At
<1>5. CASE SaveCapture
      BY <1>5 DEF SaveCapture, Pass, At
<1>6. CASE FitLayout
      BY <1>6 DEF FitLayout, Pass, At
<1>7. CASE FinishOcr
      BY <1>7 DEF FinishOcr, Pass, Die, At
<1>8. CASE SelectWeak
      BY <1>8 DEF SelectWeak, At, TypeOK
<1>9. CASE FinishWeak
      BY <1>9 DEF FinishWeak, Pass, At
<1>10. CASE FinishCurrency
      BY <1>10 DEF FinishCurrency, Pass, Lose, At
<1>11. CASE Reload
      BY <1>11 DEF Reload, Pass, Die, At
<1>12. CASE ReplayCards
      BY <1>12 DEF ReplayCards, At
<1>13. CASE CreateCards
      BY <1>13, <1>n DEF CreateCards, At, TypeOK, Torn
<1>14. CASE FinishCards
      BY <1>14, <1>n DEF FinishCards, Pass, At, TypeOK, RunFits, Torn, Whole
<1>15. CASE LoseWindows
      BY <1>15 DEF LoseWindows, Lose, At
<1>16. CASE FinishWindows
      BY <1>16 DEF FinishWindows, Pass, At
<1>17. CASE Publish
      BY <1>17 DEF Publish, Pass, At
<1>18. CASE PruneDirectories
      BY <1>18 DEF PruneDirectories, Pass, At, TypeOK
<1>19. CASE Emit
      BY <1>19 DEF Emit, At
<1>20. CASE Settled
      BY <1>20 DEF Settled, vars
<1>21. ASSUME NEW f \in FrameSet, ReadFrame(f) PROVE SidecarsFit'
      BY <1>21 DEF ReadFrame, At, TypeOK
<1>22. ASSUME NEW f \in FrameSet, ParseFrame(f) PROVE SidecarsFit'
  <2>1. /\ outcome = "running" /\ stage = "ocr" /\ ocr[f] = "read"
        /\ UNCHANGED <<outcome, stage, scars, weak, currency, cards, prepared, reader>>
        BY <1>22 DEF ParseFrame, At
  <2>2. CASE offer' = [offer EXCEPT ![f] = [torn |-> TRUE, by |-> reader]] /\ ocr' = [ocr EXCEPT ![f] = "offering"]
             /\ f \in Offers
    <3>1. \A g \in FrameSet : g # f => offer'[g] = offer[g] /\ ocr'[g] = ocr[g]
          BY <2>2 DEF TypeOK
    <3>2. offer'[f].by = reader /\ ocr'[f] = "offering"
          BY <2>2 DEF TypeOK
    <3>3. ASSUME NEW g \in FrameSet
          PROVE  /\ offer'[g] # None => g \in Offers
                 /\ offer'[g] # None /\ offer'[g].torn => "offer" \in scars \/ ocr'[g] = "offering"
                 /\ "reader" \in scars \/ (offer'[g] # None => offer'[g].by = reader)
          BY <2>1, <2>2, <3>1, <3>2
    <3>4. \A g \in FrameSet : weak'[g] = weak[g] /\ currency'[g] = currency[g]
          BY <2>1
    <3>5. (\A v \in WindowSet : prepared'[v] = prepared[v]) /\ reader' = reader /\ cards' = cards /\ scars' = scars
          BY <2>1
    <3>6. Ran({"ocr"})' /\ ~Ran({"sealing"}) /\ ~Ran({"sealing"})'
          BY <2>1
    <3> HIDE DEF Ran
    <3> QED BY <3>3, <3>4, <3>5, <3>6
  <2>3. CASE offer' = offer /\ \A g \in FrameSet : ocr[g] = "offering" => ocr'[g] = "offering"
        BY <2>1, <2>3
  <2> QED BY <1>22, <2>1, <2>2, <2>3 DEF ParseFrame, TypeOK
<1>23. ASSUME NEW f \in FrameSet, FinishOffer(f) PROVE SidecarsFit'
      BY <1>23, <1>n DEF FinishOffer, At, TypeOK, RunFits, Torn, Whole
<1>24. ASSUME NEW f \in FrameSet, RefineWeak(f) PROVE SidecarsFit'
      BY <1>24, <1>a DEF RefineWeak, At, TypeOK, WeakKept, Within
<1>25. ASSUME NEW f \in FrameSet, RefineCurrency(f) PROVE SidecarsFit'
      BY <1>25, <1>a DEF RefineCurrency, At, TypeOK
<1>26. ASSUME NEW p \in Parts, BeginDecode(p) PROVE SidecarsFit'
      BY <1>26 DEF BeginDecode, At
<1>27. ASSUME NEW p \in Parts, FinishDecode(p) PROVE SidecarsFit'
      BY <1>27 DEF FinishDecode, At
<1>28. ASSUME NEW p \in Parts, PruneImages(p) PROVE SidecarsFit'
      BY <1>28 DEF PruneImages, At
<1>29. ASSUME NEW v \in WindowSet, PrepareWindow(v) PROVE SidecarsFit'
      BY <1>29 DEF PrepareWindow, At, TypeOK
<1>30. ASSUME NEW v \in WindowSet, RecordWindow(v) PROVE SidecarsFit'
      BY <1>30 DEF RecordWindow, At
<1>31. ASSUME NEW v \in WindowSet, PruneWindow(v) PROVE SidecarsFit'
      BY <1>31 DEF PruneWindow, At
<1>32. CASE UNCHANGED vars
      BY <1>32 DEF vars
<1> QED
      BY <1>1, <1>2, <1>3, <1>4, <1>5, <1>6, <1>7, <1>8, <1>9, <1>10, <1>11, <1>12, <1>13, <1>14, <1>15, <1>16,
         <1>17, <1>18, <1>19, <1>20, <1>21, <1>22, <1>23, <1>24, <1>25, <1>26, <1>27, <1>28, <1>29, <1>30, <1>31, <1>32
      DEF Next, RunStep, FrameStep, PartStep, WindowStep

---------------------------------------------------------------------------
(* The run.                                                                *)

\* What a stage needs, the stages before it have left.
LEMMA RunStepFits ==
    ASSUME IInv, [Next]_vars
    PROVE  RunFits'
<1>t. TypeOK /\ DirectoryFits /\ SidecarsFit /\ RunFits
      BY DEF IInv
<1>c. content' = content /\ scars \subseteq scars' /\ content \in Contents
      BY <1>t, ScarsGrow DEF TypeOK
<1>o. Offers' = Offers /\ Weak' = Weak /\ HasCards' = HasCards
      BY <1>c DEF Offers, Weak, HasCards
<1>w. Offers \subseteq FrameSet /\ Weak \subseteq FrameSet /\ HasCards \in BOOLEAN
      BY <1>c, ContentType
<1>k. budget' = budget => WeakKept' = WeakKept
      BY <1>o DEF WeakKept, Within
<1>n. ASSUME NEW x \in Torn \cup Whole PROVE x # None
      BY <1>n, NoneAssumption
<1>s. ASSUME NEW v \in Picked, Refused(v), Ran({"windows"}) PROVE scars \cap {"bare", "reader"} # {}
      BY <1>t, <1>s DEF SidecarsFit, DirectoryFits, Ran, Refused, Picked
<1> USE <1>t, <1>c, <1>o, <1>k, Order DEF RunFits, Ran, Told, Read, Refined, Parsed
<1>1. CASE Start
      BY <1>1 DEF Start, TypeOK
<1>2. CASE Stop
      BY <1>2 DEF Stop, Wounds
<1>3. CASE Upgrade
      BY <1>3 DEF Upgrade
<1>4. CASE ReuseCapture
      BY <1>4 DEF ReuseCapture, Pass, Die, At
<1>5. CASE SaveCapture
      BY <1>5 DEF SaveCapture, Pass, At
<1>6. CASE FitLayout
      BY <1>6 DEF FitLayout, Pass, At
<1>7. CASE FinishOcr
      BY <1>7, <1>w DEF FinishOcr, Pass, Die, At, TypeOK
<1>8. CASE SelectWeak
      BY <1>8 DEF SelectWeak, At, TypeOK
<1>9. CASE FinishWeak
      BY <1>9 DEF FinishWeak, Pass, At, TypeOK
<1>10. CASE FinishCurrency
      BY <1>10, <1>w DEF FinishCurrency, Pass, Lose, At, TypeOK, SidecarsFit
<1>11. CASE Reload
      BY <1>11 DEF Reload, Pass, Die, At
<1>12. CASE ReplayCards
      BY <1>12, <1>w DEF ReplayCards, At, TypeOK, SidecarsFit
<1>13. CASE CreateCards
      BY <1>13, <1>n, <1>w DEF CreateCards, At, TypeOK, Torn
<1>14. CASE FinishCards
      BY <1>14, <1>n, <1>w DEF FinishCards, Pass, At, TypeOK, Torn, Whole, SidecarsFit
<1>15. CASE LoseWindows
      BY <1>15, <1>s DEF LoseWindows, Lose, At, PoolFails, New
<1>16. CASE FinishWindows
      BY <1>16 DEF FinishWindows, Pass, At, TypeOK, New, Refused, Picked
<1>17. CASE Publish
      BY <1>17 DEF Publish, Pass, At
<1>18. CASE PruneDirectories
      BY <1>18 DEF PruneDirectories, Pass, At
<1>19. CASE Emit
      BY <1>19 DEF Emit, At
<1>20. CASE Settled
      BY <1>20 DEF Settled, vars
<1>21. ASSUME NEW f \in FrameSet, ReadFrame(f) PROVE RunFits'
      BY <1>21 DEF ReadFrame, At, TypeOK
<1>22. ASSUME NEW f \in FrameSet, ParseFrame(f) PROVE RunFits'
  <2>1. /\ outcome = "running" /\ stage = "ocr" /\ ocr[f] = "read" /\ neural[f] = reader
        /\ UNCHANGED <<outcome, stage, scars, neural, weak, currency, cards, recorded, losses, budget, reader>>
        BY <1>22 DEF ParseFrame, At
  <2>2. \A g \in FrameSet : g # f => offer'[g] = offer[g] /\ ocr'[g] \in {ocr[g], "dropped"}
        BY <1>22 DEF ParseFrame, TypeOK
  <2>3. (\E g \in FrameSet : ocr'[g] \in {"bad", "dropped"} /\ ocr'[g] # ocr[g]) => scars \cap {"offer", "reader"} #
     {}
    <3>1. offer[f] # None /\ (offer[f].torn \/ offer[f].by # reader) => scars \cap {"offer", "reader"} # {}
          BY <2>1 DEF SidecarsFit
    <3> QED BY <1>22, <3>1 DEF ParseFrame, TypeOK
  <2>4. ocr'[f] \in {"offering", "bad"} \/ (ocr'[f] = "parsed" /\ (f \in Offers => offer[f] # None /\ offer' = offer))
        BY <1>22, <2>1 DEF ParseFrame, TypeOK
  <2>5. ocr'[f] = "offering" => offer'[f] # None
    <3>1. [torn |-> TRUE, by |-> reader] \in Torn
          BY DEF Torn, TypeOK
    <3>2. ocr'[f] = "offering" => offer'[f] = [torn |-> TRUE, by |-> reader]
          BY <1>22, <2>1 DEF ParseFrame, TypeOK
    <3> QED BY <1>n, <3>1, <3>2
  <2> QED BY <2>1, <2>2, <2>3, <2>4, <2>5
<1>23. ASSUME NEW f \in FrameSet, FinishOffer(f) PROVE RunFits'
  <2>1. offer[f] \in Torn \cup Whole
        BY <1>23 DEF FinishOffer, At, TypeOK
  <2>2. [offer[f] EXCEPT !.torn = FALSE] \in Whole
        BY <2>1 DEF Torn, Whole
  <2>3. offer'[f] # None
        BY <1>23, <1>n, <2>2 DEF FinishOffer, TypeOK
  <2>4. \A g \in FrameSet : g # f => offer'[g] = offer[g] /\ ocr'[g] = ocr[g]
        BY <1>23 DEF FinishOffer, TypeOK
  <2>5. ocr'[f] = "parsed" /\ neural'[f] = reader
        BY <1>23 DEF FinishOffer, At, TypeOK
  <2> QED BY <1>23, <2>3, <2>4, <2>5 DEF FinishOffer, At
<1>24. ASSUME NEW f \in FrameSet, RefineWeak(f) PROVE RunFits'
      BY <1>24, <1>w DEF RefineWeak, At, TypeOK
<1>25. ASSUME NEW f \in FrameSet, RefineCurrency(f) PROVE RunFits'
      BY <1>25, <1>w DEF RefineCurrency, At, TypeOK
<1>26. ASSUME NEW p \in Parts, BeginDecode(p) PROVE RunFits'
      BY <1>26 DEF BeginDecode, At
<1>27. ASSUME NEW p \in Parts, FinishDecode(p) PROVE RunFits'
      BY <1>27 DEF FinishDecode, At
<1>28. ASSUME NEW p \in Parts, PruneImages(p) PROVE RunFits'
      BY <1>28 DEF PruneImages, At
<1>29. ASSUME NEW v \in WindowSet, PrepareWindow(v) PROVE RunFits'
      BY <1>29 DEF PrepareWindow, At, TypeOK
<1>30. ASSUME NEW v \in WindowSet, RecordWindow(v) PROVE RunFits'
      BY <1>30 DEF RecordWindow, At, TypeOK
<1>31. ASSUME NEW v \in WindowSet, PruneWindow(v) PROVE RunFits'
      BY <1>31 DEF PruneWindow, At, TypeOK
<1>32. CASE UNCHANGED vars
      BY <1>32 DEF vars, Refused
<1> QED
      BY <1>1, <1>2, <1>3, <1>4, <1>5, <1>6, <1>7, <1>8, <1>9, <1>10, <1>11, <1>12, <1>13, <1>14, <1>15, <1>16,
         <1>17, <1>18, <1>19, <1>20, <1>21, <1>22, <1>23, <1>24, <1>25, <1>26, <1>27, <1>28, <1>29, <1>30, <1>31, <1>32
      DEF Next, RunStep, FrameStep, PartStep, WindowStep

---------------------------------------------------------------------------
(* The report and the outcome.                                             *)

\* Only Publish writes the report.
LEMMA ReportKept ==
    ASSUME [Next]_vars, ~Publish
    PROVE  UNCHANGED report
<1>1. CASE Start
      BY <1>1 DEF Start
<1>2. CASE Stop
      BY <1>2 DEF Stop, Wounds
<1>3. CASE Upgrade
      BY <1>3 DEF Upgrade
<1>4. CASE ReuseCapture
      BY <1>4 DEF ReuseCapture, Pass, Die, At
<1>5. CASE SaveCapture
      BY <1>5 DEF SaveCapture, Pass, At
<1>6. CASE FitLayout
      BY <1>6 DEF FitLayout, Pass, At
<1>7. CASE FinishOcr
      BY <1>7 DEF FinishOcr, Pass, Die, At
<1>8. CASE SelectWeak
      BY <1>8 DEF SelectWeak, At
<1>9. CASE FinishWeak
      BY <1>9 DEF FinishWeak, Pass, At
<1>10. CASE FinishCurrency
      BY <1>10 DEF FinishCurrency, Pass, Lose, At
<1>11. CASE Reload
      BY <1>11 DEF Reload, Pass, Die, At
<1>12. CASE ReplayCards
      BY <1>12 DEF ReplayCards, At
<1>13. CASE CreateCards
      BY <1>13 DEF CreateCards, At
<1>14. CASE FinishCards
      BY <1>14 DEF FinishCards, Pass, At
<1>15. CASE LoseWindows
      BY <1>15 DEF LoseWindows, Lose, At
<1>16. CASE FinishWindows
      BY <1>16 DEF FinishWindows, Pass, At
<1>17. CASE Publish
      BY <1>17
<1>18. CASE PruneDirectories
      BY <1>18 DEF PruneDirectories, Pass, At
<1>19. CASE Emit
      BY <1>19 DEF Emit, At
<1>20. CASE Settled
      BY <1>20 DEF Settled, vars
<1>21. ASSUME NEW f \in FrameSet, ReadFrame(f) PROVE UNCHANGED report
      BY <1>21 DEF ReadFrame, At
<1>22. ASSUME NEW f \in FrameSet, ParseFrame(f) PROVE UNCHANGED report
      BY <1>22 DEF ParseFrame, At
<1>23. ASSUME NEW f \in FrameSet, FinishOffer(f) PROVE UNCHANGED report
      BY <1>23 DEF FinishOffer, At
<1>24. ASSUME NEW f \in FrameSet, RefineWeak(f) PROVE UNCHANGED report
      BY <1>24 DEF RefineWeak, At
<1>25. ASSUME NEW f \in FrameSet, RefineCurrency(f) PROVE UNCHANGED report
      BY <1>25 DEF RefineCurrency, At
<1>26. ASSUME NEW p \in Parts, BeginDecode(p) PROVE UNCHANGED report
      BY <1>26 DEF BeginDecode, At
<1>27. ASSUME NEW p \in Parts, FinishDecode(p) PROVE UNCHANGED report
      BY <1>27 DEF FinishDecode, At
<1>28. ASSUME NEW p \in Parts, PruneImages(p) PROVE UNCHANGED report
      BY <1>28 DEF PruneImages, At
<1>29. ASSUME NEW v \in WindowSet, PrepareWindow(v) PROVE UNCHANGED report
      BY <1>29 DEF PrepareWindow, At
<1>30. ASSUME NEW v \in WindowSet, RecordWindow(v) PROVE UNCHANGED report
      BY <1>30 DEF RecordWindow, At
<1>31. ASSUME NEW v \in WindowSet, PruneWindow(v) PROVE UNCHANGED report
      BY <1>31 DEF PruneWindow, At
<1>32. CASE UNCHANGED vars
      BY <1>32 DEF vars
<1> QED
      BY <1>1, <1>2, <1>3, <1>4, <1>5, <1>6, <1>7, <1>8, <1>9, <1>10, <1>11, <1>12, <1>13, <1>14, <1>15, <1>16,
         <1>17, <1>18, <1>19, <1>20, <1>21, <1>22, <1>23, <1>24, <1>25, <1>26, <1>27, <1>28, <1>29, <1>30, <1>31, <1>32
      DEF Next, RunStep, FrameStep, PartStep, WindowStep

\* A report that names no loss is the one of a run nobody stopped, and a loss
\* has a cause: the stages before Publish left what a straight run leaves.
LEMMA ReportStep ==
    ASSUME IInv, [Next]_vars
    PROVE  LossIsNamed' /\ LossHasCause'
<1>t. TypeOK /\ SidecarsFit /\ RunFits /\ LossIsNamed /\ LossHasCause
      BY DEF IInv
<1>c. content' = content /\ scars \subseteq scars' /\ content \in Contents
      BY <1>t, ScarsGrow DEF TypeOK
<1>o. Offers' = Offers /\ Weak' = Weak /\ HasCards' = HasCards
      BY <1>c DEF Offers, Weak, HasCards
<1>w. Offers \subseteq FrameSet /\ Weak \subseteq FrameSet /\ HasCards \in BOOLEAN
      BY <1>c, ContentType
<1>s. \A b, r : Straight(b, r)' = Straight(b, r)
      BY <1>o DEF Straight, Within
<1>1. CASE ~Publish
      BY <1>1, <1>t, <1>c, <1>s, ReportKept DEF LossIsNamed, LossHasCause
<1>2. CASE Publish
  <2>1. Ran(Parsed) /\ Ran({"currency"} \cup Refined) /\ Ran(Refined) /\ Ran(Read) /\ Ran({"publish"}) /\ stage # "emit"
        BY <1>2 DEF Publish, At, Ran, Parsed, Refined, Read, Told
  <2>2. \A f \in FrameSet : ocr[f] = "parsed" /\ neural[f] = reader /\ (f \in Offers => offer[f] # None)
        BY <1>t, <2>1 DEF RunFits, Ran
  <2>3. neural = [f \in FrameSet |-> reader]
        BY <1>t, <2>2 DEF TypeOK
  <2>4. {f \in FrameSet : offer[f] # None} = Offers
        BY <1>t, <1>w, <2>2 DEF SidecarsFit
  <2>5. {f \in FrameSet : weak[f] # None} = Within(Weak, budget)
        BY <1>t, <1>w, <2>1 DEF SidecarsFit, RunFits, WeakKept, Within
  <2>6. {f \in FrameSet : currency[f] # None} = Offers
        BY <1>t, <1>w, <2>1 DEF SidecarsFit, RunFits
  <2>7. "windows" \in losses \/ \A v \in Picked : recorded[v] = reader /\ ~Refused(v)
        BY <1>t, <2>1 DEF RunFits
  <2>8. "cards" \in losses \/ ((cards # None /\ ~cards.torn /\ cards.by = reader) <=> HasCards)
        BY <1>t, <2>1 DEF RunFits
  <2>9. report'.losses = losses
        BY <1>2 DEF Publish
  <2>10. CASE losses = {}
    <3>1. (cards # None /\ ~cards.torn /\ cards.by = reader) = HasCards
          BY <1>w, <2>8, <2>10
    <3>2. report' = Straight(budget, reader)
          BY <1>2, <2>3, <2>4, <2>5, <2>6, <2>7, <2>10, <3>1 DEF Publish, Straight
    <3>3. report'.budget = budget /\ report'.reader = reader
          BY <1>2 DEF Publish
    <3> QED BY <1>s, <2>9, <2>10, <3>2, <3>3 DEF LossIsNamed, LossHasCause
  <2>11. CASE losses # {}
    <3>1. scars \cap {"cards", "bare", "reader"} # {}
          BY <1>t, <2>1, <2>11 DEF RunFits, Ran
    <3> QED BY <1>c, <2>9, <2>11, <3>1 DEF LossIsNamed, LossHasCause
  <2> QED BY <2>10, <2>11
<1> QED BY <1>1, <1>2

\* A run fails only over a torn file, another reader's file, or a pruning that
\* was interrupted.
LEMMA ResumeStep ==
    ASSUME IInv, [Next]_vars
    PROVE  ResumeContinues'
<1>t. TypeOK /\ DirectoryFits /\ SidecarsFit /\ RunFits /\ ResumeContinues
      BY DEF IInv
<1>c. scars \subseteq scars'
      BY ScarsGrow
<1> USE <1>t, <1>c DEF ResumeContinues
<1>1. CASE Start
      BY <1>1 DEF Start
<1>2. CASE Stop
      BY <1>2 DEF Stop, Wounds
<1>3. CASE Upgrade
      BY <1>3 DEF Upgrade
<1>4. CASE ReuseCapture
      BY <1>4 DEF ReuseCapture, Pass, Die, At, DirectoryFits, Ran
<1>5. CASE SaveCapture
      BY <1>5 DEF SaveCapture, Pass, At
<1>6. CASE FitLayout
      BY <1>6 DEF FitLayout, Pass, At
<1>7. CASE FinishOcr
      BY <1>7 DEF FinishOcr, Pass, Die, At, RunFits, TypeOK
<1>8. CASE SelectWeak
      BY <1>8 DEF SelectWeak, At
<1>9. CASE FinishWeak
      BY <1>9 DEF FinishWeak, Pass, At
<1>10. CASE FinishCurrency
      BY <1>10 DEF FinishCurrency, Pass, Lose, At
<1>11. CASE Reload
  <2>1. Ran(Parsed) /\ At("reload") /\ stage # "emit" /\ ~Ran({"ocr"})
        BY <1>11 DEF Reload, At, Ran, Parsed, Refined
  <2>2. \A f \in FrameSet : neural[f] = reader
        BY <2>1 DEF RunFits, Ran
  <2>3. ASSUME scars \cap {"offer", "reader"} = {}
        PROVE  \A f \in FrameSet : /\ weak[f] \in {None, neural[f]}
                                   /\ currency[f] \in {None, neural[f]}
                                   /\ offer[f] = None \/ (~offer[f].torn /\ offer[f].by = neural[f])
    <3>1. TAKE f \in FrameSet
    <3>2. {weak[f], currency[f]} \subseteq {None, reader}
          BY <2>3 DEF SidecarsFit
    <3>3. offer[f] # None => offer[f].by = reader /\ ~offer[f].torn
          BY <2>1, <2>3 DEF SidecarsFit
    <3> QED BY <2>2, <3>2, <3>3
  <2>4. CASE outcome' = "failed" /\ scars' = scars /\ outcome = "running"
        BY <1>11, <2>3, <2>4 DEF Reload, Pass
  <2> QED BY <1>11, <2>1, <2>4 DEF Reload, Pass, Die, At
<1>12. CASE ReplayCards
      BY <1>12 DEF ReplayCards, At
<1>13. CASE CreateCards
      BY <1>13 DEF CreateCards, At
<1>14. CASE FinishCards
      BY <1>14 DEF FinishCards, Pass, At
<1>15. CASE LoseWindows
      BY <1>15 DEF LoseWindows, Lose, At
<1>16. CASE FinishWindows
      BY <1>16 DEF FinishWindows, Pass, At
<1>17. CASE Publish
      BY <1>17 DEF Publish, Pass, At
<1>18. CASE PruneDirectories
      BY <1>18 DEF PruneDirectories, Pass, At
<1>19. CASE Emit
      BY <1>19 DEF Emit, At
<1>20. CASE Settled
      BY <1>20 DEF Settled, vars
<1>21. ASSUME NEW f \in FrameSet, ReadFrame(f) PROVE ResumeContinues'
      BY <1>21 DEF ReadFrame, At
<1>22. ASSUME NEW f \in FrameSet, ParseFrame(f) PROVE ResumeContinues'
      BY <1>22 DEF ParseFrame, At
<1>23. ASSUME NEW f \in FrameSet, FinishOffer(f) PROVE ResumeContinues'
      BY <1>23 DEF FinishOffer, At
<1>24. ASSUME NEW f \in FrameSet, RefineWeak(f) PROVE ResumeContinues'
      BY <1>24 DEF RefineWeak, At
<1>25. ASSUME NEW f \in FrameSet, RefineCurrency(f) PROVE ResumeContinues'
      BY <1>25 DEF RefineCurrency, At
<1>26. ASSUME NEW p \in Parts, BeginDecode(p) PROVE ResumeContinues'
      BY <1>26 DEF BeginDecode, At
<1>27. ASSUME NEW p \in Parts, FinishDecode(p) PROVE ResumeContinues'
      BY <1>27 DEF FinishDecode, At
<1>28. ASSUME NEW p \in Parts, PruneImages(p) PROVE ResumeContinues'
      BY <1>28 DEF PruneImages, At
<1>29. ASSUME NEW v \in WindowSet, PrepareWindow(v) PROVE ResumeContinues'
      BY <1>29 DEF PrepareWindow, At
<1>30. ASSUME NEW v \in WindowSet, RecordWindow(v) PROVE ResumeContinues'
      BY <1>30 DEF RecordWindow, At
<1>31. ASSUME NEW v \in WindowSet, PruneWindow(v) PROVE ResumeContinues'
      BY <1>31 DEF PruneWindow, At
<1>32. CASE UNCHANGED vars
      BY <1>32 DEF vars
<1> QED
      BY <1>1, <1>2, <1>3, <1>4, <1>5, <1>6, <1>7, <1>8, <1>9, <1>10, <1>11, <1>12, <1>13, <1>14, <1>15, <1>16,
         <1>17, <1>18, <1>19, <1>20, <1>21, <1>22, <1>23, <1>24, <1>25, <1>26, <1>27, <1>28, <1>29, <1>30, <1>31, <1>32
      DEF Next, RunStep, FrameStep, PartStep, WindowStep

---------------------------------------------------------------------------
(* The invariant.                                                          *)

LEMMA InitIsInductive == Init => IInv
<1> SUFFICES ASSUME Init PROVE IInv
    OBVIOUS
<1>1. TypeOK
  <2>1. PICK old \in SUBSET (WindowSet \ Picked) :
            prepared = [v \in WindowSet |-> IF v \in old THEN Readers[1] ELSE None] /\ recorded = prepared
        BY DEF Init
  <2> QED BY <2>1, ReaderIsKnown, StageSet, BudgetsAssumption DEF Init, TypeOK
<1>2. DirectoryFits /\ RunFits /\ LossHasCause /\ LossIsNamed /\ ResumeContinues
      BY DEF Init, DirectoryFits, RunFits, Ran, LossHasCause, LossIsNamed, ResumeContinues
<1>3. SidecarsFit
      BY DEF Init, SidecarsFit
<1> QED BY <1>1, <1>2, <1>3 DEF IInv

LEMMA StepIsInductive == IInv /\ [Next]_vars => IInv'
BY TypeStep, DirectoryStep, SidecarsStep, RunStepFits, ReportStep, ResumeStep DEF IInv

\* The inductive invariant holds of every analysis directory, whatever the
\* recording shows, the plan asks for and the kills leave (full_recording.py).
THEOREM Invariance == Spec => []IInv
<1>1. Init => IInv
      BY InitIsInductive
<1>2. IInv /\ [Next]_vars => IInv'
      BY StepIsInductive
<1> QED BY <1>1, <1>2, PTL DEF Spec

\* Types, and a window of the index has the frame caches its entry was made
\* from (inspect in inspect_receipts.py records it after reading its frames).
THEOREM TypeCorrect == Spec => []TypeOK
<1>1. IInv => TypeOK
      BY DEF IInv
<1> QED BY <1>1, Invariance, PTL

\* An analysis that is started again fails only when a kill tore a file
\* written in place or interrupted the pruning, or when another reader has
\* come (main and cached_readings in full_recording.py).
THEOREM ResumeCorrect == Spec => []ResumeContinues
<1>1. IInv => ResumeContinues
      BY DEF IInv
<1> QED BY <1>1, Invariance, PTL

\* A report that lacks something a straight run has names the stage that was
\* lost (_guarded and assemble in full_recording.py).
THEOREM LossCorrect == Spec => []LossIsNamed
<1>1. IInv => LossIsNamed
      BY DEF IInv
<1> QED BY <1>1, Invariance, PTL

\* An analysis stopped at any points reports what a run straight through
\* reports, unless a kill tore a file, another reader came, or a kill came in
\* the pruning after it had begun on the dense windows (the resumed stages of
\* full_recording.py and automatic_refinement.py, prune_frames in
\* analysis_job.py).
THEOREM ReportsCorrect == Spec => []ReportsAlike
<1>1. IInv => ReportsAlike
      BY DEF IInv, LossHasCause, LossIsNamed, ReportsAlike
<1> QED BY <1>1, Invariance, PTL

\* The images a resume needs are deleted only once a report is written
\* (prune_frames in analysis_job.py after main has checked the report).
THEOREM InputsCorrect == Spec => []InputsOutliveTheRun
<1>1. IInv => InputsOutliveTheRun
      BY DEF IInv, DirectoryFits, InputsOutliveTheRun, Ran
<1> QED BY <1>1, Invariance, PTL

---------------------------------------------------------------------------
(* What the job manager takes for granted of its worker.                   *)

\* A run that is about to be done has its report, and has pruned.
LEMMA EndStep ==
    ASSUME IInv, EndFits, [Next]_vars
    PROVE  EndFits'
<1>t. TypeOK /\ DirectoryFits
      BY DEF IInv
<1> DEFINE Ends == outcome \in {"running", "done"} /\ (outcome = "running" => stage = "emit")
<1>e. EndFits' <=> (Ends' => report' # None /\ Emptied')
      BY DEF EndFits, Ran
<1> HIDE DEF Ends
<1>1. CASE Start
      BY <1>1, Order, <1>e DEF Start, At, Ends
<1>2. CASE Stop
      BY <1>2, Order, <1>e DEF Stop, At, Ends
<1>3. CASE Upgrade
      BY <1>3, Order, <1>e DEF Upgrade, At, Ends
<1>4. CASE ReuseCapture
      BY <1>4, Order, <1>e DEF ReuseCapture, Pass, Die, At, Ends
<1>5. CASE SaveCapture
      BY <1>5, Order, <1>e DEF SaveCapture, Pass, At, Ends
<1>6. CASE FitLayout
      BY <1>6, Order, <1>e DEF FitLayout, Pass, At, Ends
<1>7. CASE FinishOcr
      BY <1>7, Order, <1>e DEF FinishOcr, Pass, Die, At, Ends
<1>8. CASE SelectWeak
      BY <1>8, Order, <1>e DEF SelectWeak, At, Ends
<1>9. CASE FinishWeak
      BY <1>9, Order, <1>e DEF FinishWeak, Pass, At, Ends
<1>10. CASE FinishCurrency
      BY <1>10, Order, <1>e DEF FinishCurrency, Pass, Lose, At, Ends
<1>11. CASE Reload
      BY <1>11, Order, <1>e DEF Reload, Pass, Die, At, Ends
<1>12. CASE ReplayCards
      BY <1>12, Order, <1>e DEF ReplayCards, At, Ends
<1>13. CASE CreateCards
      BY <1>13, Order, <1>e DEF CreateCards, At, Ends
<1>14. CASE FinishCards
      BY <1>14, Order, <1>e DEF FinishCards, Pass, At, Ends
<1>15. CASE LoseWindows
      BY <1>15, Order, <1>e DEF LoseWindows, Lose, At, Ends
<1>16. CASE FinishWindows
      BY <1>16, Order, <1>e DEF FinishWindows, Pass, At, Ends
<1>17. CASE Publish
      BY <1>17, Order, <1>e DEF Publish, Pass, At, Ends
<1>18. CASE PruneDirectories
  <2>1. report # None /\ report' = report
        BY <1>18, <1>t DEF PruneDirectories, At, DirectoryFits, Ran
  <2>2. Emptied'
        BY <1>18 DEF PruneDirectories, Emptied, Cached, FrameSet, WindowSet
  <2> QED
      BY <2>1, <2>2, <1>e
<1>19. CASE Emit
      BY <1>19 DEF Emit, At, EndFits, Ran, Emptied, Cached, FrameSet, WindowSet
<1>20. CASE Settled \/ UNCHANGED vars
      BY <1>20 DEF Settled, vars, EndFits, Ran, Emptied, Cached, FrameSet, WindowSet
<1>21. ASSUME NEW f \in FrameSet, ReadFrame(f) PROVE EndFits'
      BY <1>21, <1>e DEF ReadFrame, At, Ends
<1>22. ASSUME NEW f \in FrameSet, ParseFrame(f) PROVE EndFits'
      BY <1>22, <1>e DEF ParseFrame, At, Ends
<1>23. ASSUME NEW f \in FrameSet, FinishOffer(f) PROVE EndFits'
      BY <1>23, <1>e DEF FinishOffer, At, Ends
<1>24. ASSUME NEW f \in FrameSet, RefineWeak(f) PROVE EndFits'
      BY <1>24, <1>e DEF RefineWeak, At, Ends
<1>25. ASSUME NEW f \in FrameSet, RefineCurrency(f) PROVE EndFits'
      BY <1>25, <1>e DEF RefineCurrency, At, Ends
<1>26. ASSUME NEW p \in Parts, BeginDecode(p) PROVE EndFits'
      BY <1>26, <1>e DEF BeginDecode, At, Ends
<1>27. ASSUME NEW p \in Parts, FinishDecode(p) PROVE EndFits'
      BY <1>27, <1>e DEF FinishDecode, At, Ends
<1>28. ASSUME NEW p \in Parts, PruneImages(p) PROVE EndFits'
      BY <1>28, <1>e DEF PruneImages, At, Ends
<1>29. ASSUME NEW w \in WindowSet, PrepareWindow(w) PROVE EndFits'
      BY <1>29, <1>e DEF PrepareWindow, At, Ends
<1>30. ASSUME NEW w \in WindowSet, RecordWindow(w) PROVE EndFits'
      BY <1>30, <1>e DEF RecordWindow, At, Ends
<1>31. ASSUME NEW w \in WindowSet, PruneWindow(w) PROVE EndFits'
      BY <1>31, <1>e DEF PruneWindow, At, Ends
<1> QED
      BY <1>1, <1>2, <1>3, <1>4, <1>5, <1>6, <1>7, <1>8, <1>9, <1>10, <1>11, <1>12, <1>13, <1>14, <1>15, <1>16,
         <1>17, <1>18, <1>19, <1>20, <1>21, <1>22, <1>23, <1>24, <1>25, <1>26, <1>27, <1>28, <1>29, <1>30, <1>31
      DEF Next, RunStep, FrameStep, PartStep, WindowStep

\* Only a report that takes its place takes a report away.
LEMMA ReportStays ==
    ASSUME IInv, [Next]_vars, report # None
    PROVE  report' # None
<1>1. CASE Publish
      BY <1>1, Published DEF IInv
<1>2. ASSUME ~Publish PROVE report' = report
      BY <1>2
      DEF Next, RunStep, FrameStep, PartStep, WindowStep, vars, Start, Stop, Upgrade, ReuseCapture, SaveCapture,
          FitLayout, FinishOcr, SelectWeak, FinishWeak, FinishCurrency, Reload, ReplayCards, CreateCards, FinishCards,
          LoseWindows, FinishWindows, PruneDirectories, Emit, Settled, ReadFrame, ParseFrame, FinishOffer, RefineWeak,
          RefineCurrency, BeginDecode, FinishDecode, PruneImages, PruneWindow, PrepareWindow, RecordWindow, Pass, Die, Lose
<1> QED
      BY <1>1, <1>2

\* The service may rely on its worker: one that says it is done has its
\* report and has pruned, and nothing a worker does, or that is done to it,
\* takes a report away (main and prune_frames in analysis_job.py).
THEOREM ContractCorrect == Spec => WorkerContract
<1>1. Init => IInv /\ EndFits
      BY InitIsInductive DEF Init, EndFits, Ran
<1>2. IInv /\ EndFits /\ [Next]_vars => (IInv /\ EndFits)'
      BY StepIsInductive, EndStep
<1>3. IInv /\ EndFits => DoneIsPruned
      BY DEF EndFits, DoneIsPruned
<1>4. IInv /\ [Next]_vars => [report # None => report' # None]_vars
      BY ReportStays
<1> QED
    BY <1>1, <1>2, <1>3, <1>4, PTL DEF Spec, WorkerContract
=============================================================================
