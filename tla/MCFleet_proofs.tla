--------------------------- MODULE MCFleet_proofs ---------------------------
(***************************************************************************)
(* The bound on a user's active analyses, where one analysis runs at a     *)
(* time: ActivePerUser of JobManager, through the instance MCFleet makes   *)
(* of it, whatever the jobs, the users, their bound and the limits are.    *)
(***************************************************************************)
EXTENDS MCFleet, TLAPS

\* The constants of the instance are what JobManager assumes of them.
LEMMA Assumed ==
    /\ OneAtATime!IsFiniteSet(Jobs) /\ NoJob \notin Jobs /\ Legacy \subseteq Jobs
    /\ Owner \in [Jobs -> Users]
    /\ QueueLimit \in Nat \ {0} /\ MaxActivePerUser \in Nat /\ 1 \in Nat \ {0}
    /\ HasDeadline \in BOOLEAN /\ HasLifetime \in BOOLEAN /\ KeepWorkingData \in BOOLEAN
    /\ MaxStops \in Nat /\ MaxPauses \in Nat /\ MaxFaults \in Nat
<1>1. OneAtATime!IsFiniteSet(Jobs)
      BY JobsAssumption DEF OneAtATime!IsFiniteSet, IsFiniteSet
<1> QED
    BY <1>1, JobsAssumption, OwnerAssumption, LimitsAssumption, SwitchAssumption, BoundsAssumption

\* The instance counts a user's jobs as JobManager does.
LEMMA SameBound == OneAtATime!ActivePerUser = ActivePerUser
BY Zenon DEF OneAtATime!ActivePerUser, ActivePerUser, OneAtATime!ActiveFor, ActiveFor,
     OneAtATime!Cardinality, Cardinality, OneAtATime!IsFiniteSet, IsFiniteSet

LEMMA SameVars == UNCHANGED vars => UNCHANGED OneAtATime!vars
BY DEF vars, record, process, run, maps, expiry, bounds,
     OneAtATime!vars, OneAtATime!record, OneAtATime!process, OneAtATime!run, OneAtATime!maps, OneAtATime!expiry,
     OneAtATime!bounds

\* Under this setting the instance keeps its invariants, and the bound.
FInv == setting = "one at a time" =>
            OneAtATime!IInv /\ OneAtATime!NoneInterrupted /\ OneAtATime!ActivePerUser

LEMMA FleetInitInductive ==
    ASSUME Legacy = {}, FleetInit
    PROVE  FInv
<1> SUFFICES ASSUME OneAtATime!Init
             PROVE  OneAtATime!IInv /\ OneAtATime!NoneInterrupted /\ OneAtATime!ActivePerUser
    BY DEF FleetInit, FInv
<1>1. OneAtATime!IInv
      BY Assumed, OneAtATime!InitIsInductive DEF OneAtATime!InitIsInductive
<1>2. OneAtATime!NoneInterrupted /\ OneAtATime!ActivePerUser
      BY Assumed, OneAtATime!ActiveInit DEF OneAtATime!ActiveInit
<1> QED
    BY <1>1, <1>2

LEMMA FleetStepInductive ==
    ASSUME FInv, [FleetNext]_<<vars, setting>>
    PROVE  FInv'
<1> SUFFICES ASSUME setting = "one at a time"
             PROVE  (OneAtATime!IInv /\ OneAtATime!NoneInterrupted /\ OneAtATime!ActivePerUser)'
    BY DEF FleetNext, FInv
<1>1. OneAtATime!IInv /\ OneAtATime!NoneInterrupted /\ OneAtATime!ActivePerUser
      BY DEF FInv
<1>2. [OneAtATime!Next]_(OneAtATime!vars)
      BY SameVars DEF FleetNext
<1>3. OneAtATime!IInv'
      BY <1>1, <1>2, Assumed, OneAtATime!StepIsInductive DEF OneAtATime!StepIsInductive
<1>4. OneAtATime!NoneInterrupted'
      BY <1>1, <1>2, Assumed, Zenon, OneAtATime!CountedStep DEF OneAtATime!CountedStep
<1>5. OneAtATime!ActivePerUser'
      BY <1>1, <1>2, Assumed, OneAtATime!ActiveStep DEF OneAtATime!ActiveStep
<1> QED
    BY <1>3, <1>4, <1>5

\* Where one analysis runs at a time, a user never has more jobs active than
\* the bound, in any order of submits, pauses, resumes, crashes and failed
\* writes (manager.go, withinLimits).
THEOREM UserBounded == ASSUME Legacy = {} PROVE FleetSpec => []UserIsBounded
<1>1. FleetInit => FInv
      BY FleetInitInductive
<1>2. FInv /\ [FleetNext]_<<vars, setting>> => FInv'
      BY FleetStepInductive
<1>3. FInv => UserIsBounded
      BY SameBound DEF FInv, UserIsBounded
<1> QED
    BY <1>1, <1>2, <1>3, PTL DEF FleetSpec
=============================================================================
