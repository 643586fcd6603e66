---------------------- MODULE BenchmarkCampaign_proofs ----------------------
(***************************************************************************)
(* What a campaign command does, proved for every value of the constants:   *)
(* all of its safety properties.                                           *)
(*                                                                         *)
(*  - The search (CapacityInv): what is true of the bounds, of the          *)
(*    candidate and of the load under way wherever the search is, from      *)
(*    which no load is measured above a failure and a reported capacity is  *)
(*    bracketed.                                                           *)
(*  - The phase (NoCrashSeen): what a phase that will pass has seen.        *)
(*  - The comparison (FairInv): the order of lanes and levels, the lane     *)
(*    alone on the target, and a lost load as the end of it.                *)
(*  - The labels (FreshInv): every label there is lies behind the search,   *)
(*    or behind the comparison.                                            *)
(***************************************************************************)
EXTENDS BenchmarkCampaign, WellFoundedInduction, TLAPS

\* Where the search may be.
Searching == {"idle", "double", "choose", "refine", "plateau", "confirm", "calibrate"}

Loads == FirstUsers .. MaximumUsers

CapacityTyped ==
  /\ search \in Searching \cup Decided
  /\ users \in Nat /\ FirstUsers <= users
  /\ passing \in SUBSET Loads
  /\ failing \in 0..MaximumUsers /\ candidate \in Nat /\ low \in Nat /\ high \in Nat
  /\ flat \in 0..2 /\ confirmed \in 0..Repetitions

\* No phase is under way in a search that is over or chooses its candidate.
Resting == search \in {"choose"} \cup Decided => phase = "idle"

\* Nothing has failed while the loads double, or on the plateau.
Unfailed == search \in {"idle", "double", "plateau"} => failing = 0

\* Two loads in a row can be flat only after two that passed.
Doubling ==
  search \in {"idle", "double"} =>
    /\ flat \in {0, 1} /\ \A u \in passing : u < users
    /\ flat = 1 => \E u, v \in passing : u # v
    /\ search = "double" /\ phase # "idle" => label.users = users /\ users <= MaximumUsers

\* The lower bound passed, the upper one failed or is the top of the plateau.
Bisecting ==
  search \in {"refine", "plateau"} =>
    /\ low \in passing /\ low < high
    /\ IF search = "refine" THEN high = failing ELSE high \in passing
    /\ phase # "idle" => label.users = Middle /\ low < Middle /\ Middle < high

Bracketed == failing # 0 => candidate < failing /\ (failing - candidate) * 100 <= Boundary * failing

Confirming ==
  /\ search \in {"confirm", "calibrate", "confirmed", "inconclusive"} =>
       /\ candidate \in passing /\ Bracketed
       /\ phase # "idle" => label.users = candidate
  /\ search = "confirm" => confirmed < Repetitions
  /\ search \in {"calibrate", "confirmed", "inconclusive"} => confirmed = Repetitions

SearchInv == CapacityTyped /\ Resting /\ Unfailed /\ Doubling /\ Bisecting /\ Confirming

\* One command is a search or a comparison, and measures nothing before it is deployed
\* or after it has ended.
OneKind ==
  /\ kind \in {"scaling", "comparison"}
  /\ kind = "scaling" => comparison = "idle"
  /\ kind = "comparison" => search = "idle"
  /\ campaign # "measure" => phase = "idle"
  /\ campaign \in {"bootstrap", "deploy"} => search = "idle" /\ comparison = "idle" /\ saved = "none"

\* A search has saved its result only at its end, and what it saved is how it ended.
Reported ==
  kind = "scaling" /\ saved = "confirmed" => campaign \in {"ended", "recovered"} /\ search = "confirmed"

CapacityInv == SearchInv /\ OneKind /\ Reported

----------------------------------------------------------------------------
\* The greatest of some numbers up to n is one of them: the least distance from n is taken.
LEMMA MaxOf ==
  ASSUME NEW n \in Nat, NEW S \in SUBSET (0..n), S # {}
  PROVE  /\ Max(S) \in S
         /\ \A y \in S : y <= Max(S)
<1> DEFINE R == {p \in Nat \X Nat : p[1] < p[2]}
           T == {n - u : u \in S}
<1>1. IsWellFoundedOn(R, Nat)
  BY NatLessThanWellFounded DEF OpToRel
<1>2. ASSUME NEW u \in S PROVE n - u \in Nat /\ n - u \in T /\ u \in Nat
  OBVIOUS
<1>3. T \subseteq Nat
  <2> SUFFICES ASSUME NEW t \in T PROVE t \in Nat
    OBVIOUS
  <2>1. PICK u \in S : t = n - u
    OBVIOUS
  <2> QED
    BY <1>2, <2>1
<1>4. T # {}
  BY <1>2
<1>5. PICK x \in T : \A y \in T : ~ (<<y, x>> \in R)
  <2> HIDE DEF R, T
  <2> QED
    BY <1>1, <1>3, <1>4, WFMin
<1>6. PICK m \in S : x = n - m
  OBVIOUS
<1>7. ASSUME NEW y \in S PROVE m >= y
  <2>1. ~ (<<n - y, n - m>> \in R)
    BY <1>2, <1>5, <1>6
  <2>2. ~(n - y < n - m)
    BY <1>2, <2>1
  <2>3. m \in Nat /\ y \in Nat
    OBVIOUS
  <2> QED
    <3> HIDE DEF R, T
    <3> QED
      BY <2>2, <2>3
<1>8. \E z \in S : \A y \in S : z >= y
  BY <1>7
<1>9. Max(S) \in S /\ \A y \in S : Max(S) >= y
  BY <1>8 DEF Max
<1> QED
  BY <1>2, <1>9

\* The middle of a bisection that goes on lies strictly between its bounds.
LEMMA MiddleBetween ==
  ASSUME SearchAssumption, CapacityTyped, low \in passing, low < high
  PROVE  /\ Middle \in Nat /\ low <= Middle /\ Middle < high
         /\ Apart => low < Middle
<1>1. low \in Nat /\ high \in Nat /\ FirstUsers + 1 <= high
  BY DEF CapacityTyped, Loads, SearchAssumption
<1>2. Boundary * (FirstUsers + 1) <= Boundary * high
  <2>1. \A a, b, c \in Nat : b <= c => a * b <= a * c
    OBVIOUS
  <2> QED
    BY <1>1, <2>1 DEF SearchAssumption
<1>3. Boundary * high \in Nat /\ 100 <= Boundary * high
  BY <1>1, <1>2 DEF SearchAssumption
<1>4. Apart => high - low > 1
  BY <1>1, <1>3 DEF Apart
<1> QED
  BY <1>1, <1>4 DEF Middle

\* A phase that goes on keeps its label, and comes to its end only by its caller.
LEMMA PhaseGoesOn == PhaseNext => phase # "idle" /\ phase' # "idle" /\ label' = label
<1> SUFFICES ASSUME PhaseNext PROVE phase # "idle" /\ phase' # "idle" /\ label' = label
  OBVIOUS
<1>1. CASE Smoke
  BY <1>1 DEF Smoke, Return
<1>2. CASE StartMonitors
  BY <1>2 DEF StartMonitors, Return
<1>3. CASE StartMaster
  BY <1>3 DEF StartMaster
<1>4. CASE \E w \in Worker : StartWorker(w)
  BY <1>4 DEF StartWorker
<1>5. CASE ContainersMove
  BY <1>5 DEF ContainersMove
<1>10. CASE BeginMeasurement
  BY <1>10 DEF BeginMeasurement
<1>6. CASE Poll
  BY <1>6 DEF Poll
<1>7. CASE Settle
  BY <1>7 DEF Settle
<1>8. CASE Disconnect
  BY <1>8 DEF Disconnect, Return
<1>9. CASE Report
  BY <1>9 DEF Report, Return
<1> QED
  BY <1>1, <1>2, <1>3, <1>4, <1>5, <1>6, <1>7, <1>8, <1>9, <1>10 DEF PhaseNext

----------------------------------------------------------------------------
\* The search, step by step.
LEMMA PhaseKeepsSearch ==
  ASSUME SearchInv, PhaseNext, UNCHANGED searchVars
  PROVE  SearchInv'
<1>1. phase # "idle" /\ phase' # "idle" /\ label' = label
  BY PhaseGoesOn
<1>2. UNCHANGED <<search, users, flat, passing, failing, low, high, back, candidate, confirmed, failures>>
  BY DEF searchVars, findings, bisection, candidacy
<1>3. CapacityTyped' /\ Resting' /\ Unfailed'
  BY <1>1, <1>2 DEF SearchInv, CapacityTyped, Resting, Unfailed
<1>4. Doubling'
  BY <1>1, <1>2 DEF SearchInv, Doubling
<1>5. Bisecting'
  BY <1>1, <1>2 DEF SearchInv, Bisecting, Middle
<1>6. Confirming'
  BY <1>1, <1>2 DEF SearchInv, Confirming, Bracketed
<1> QED
  BY <1>3, <1>4, <1>5, <1>6 DEF SearchInv

LEMMA EndingKeepsSearch ==
  ASSUME SearchInv, StepEndsSearch
  PROVE  SearchInv'
<1>1. /\ phase' = "idle" /\ search' \in {"saturated", "raised"}
      /\ UNCHANGED <<users, flat, passing, failing, low, high, back, candidate, confirmed, failures>>
  BY DEF StepEndsSearch, Returned, findings, bisection, candidacy
<1> QED
  BY <1>1 DEF SearchInv, CapacityTyped, Resting, Unfailed, Doubling, Bisecting, Confirming, Decided

\* What a measurement of the load u leaves alone.
LEMMA MeasuresLoad ==
  ASSUME NEW name, NEW round, NEW u, Measures(name, round, u)
  PROVE  /\ label'.users = u
         /\ UNCHANGED <<search, users, flat, passing, failing, low, high, back, candidate,
                         confirmed, failures>>
BY DEF Measures, Call, searchVars, findings, bisection, candidacy

LEMMA MeasuringKeepsSearch ==
  ASSUME SearchAssumption, SearchInv, Double \/ Refine \/ RefinePlateau \/ Repeat \/ Calibrate
  PROVE  SearchInv'
<1>1. CASE Double
  <2>1. /\ search = "double" /\ users <= MaximumUsers /\ label'.users = users
        /\ UNCHANGED <<search, users, flat, passing, failing, low, high, back, candidate, confirmed, failures>>
    BY <1>1, MeasuresLoad DEF Double
  <2> QED
    BY <2>1 DEF SearchInv, CapacityTyped, Resting, Unfailed, Doubling, Bisecting, Confirming, Decided
<1>2. CASE Refine \/ RefinePlateau
  <2>1. /\ search \in {"refine", "plateau"} /\ Apart /\ label'.users = Middle
        /\ UNCHANGED <<search, users, flat, passing, failing, low, high, back, candidate, confirmed, failures>>
    BY <1>2, MeasuresLoad DEF Refine, RefinePlateau
  <2>2. low < Middle /\ Middle < high /\ low \in passing /\ low < high
    BY <2>1, MiddleBetween DEF SearchInv, Bisecting
  <2>3. Bisecting'
    BY <2>1, <2>2 DEF SearchInv, Bisecting, Middle
  <2> QED
    BY <2>1, <2>3 DEF SearchInv, CapacityTyped, Resting, Unfailed, Doubling, Confirming, Decided
<1>3. CASE Repeat \/ Calibrate
  <2>1. /\ search \in {"confirm", "calibrate"} /\ label'.users = candidate
        /\ UNCHANGED <<search, users, flat, passing, failing, low, high, back, candidate, confirmed, failures>>
    BY <1>3, MeasuresLoad DEF Repeat, Calibrate
  <2> QED
    BY <2>1 DEF SearchInv, CapacityTyped, Resting, Unfailed, Doubling, Bisecting, Confirming,
       Bracketed, Decided
<1> QED
  BY <1>1, <1>2, <1>3

\* The greatest passing load below a bound, and the two greatest ones of a plateau.
LEMMA GreatestPassing ==
  ASSUME SearchAssumption, CapacityTyped, NEW S \in SUBSET passing, S # {}
  PROVE  Max(S) \in S /\ Max(S) \in passing /\ Max(S) \in Nat /\ \A u \in S : u <= Max(S)
<1>1. S \in SUBSET (0 .. MaximumUsers)
  BY DEF CapacityTyped, Loads, SearchAssumption
<1>2. Max(S) \in S /\ \A u \in S : u <= Max(S)
  BY <1>1, MaxOf DEF SearchAssumption
<1>3. \A x \in S : x \in passing /\ x \in Nat
  BY <1>1
<1> QED
  BY <1>2, <1>3

LEMMA DoublingKeepsSearch ==
  ASSUME SearchAssumption, SearchInv, StopDoubling \/ DoublePassed \/ DoubleFailed
  PROVE  SearchInv'
<1>1. CASE StopDoubling
  <2>1. /\ phase = "idle" /\ phase' = phase /\ search' = "choose"
        /\ UNCHANGED <<users, flat, passing, failing, low, high, back, candidate, confirmed, failures>>
    BY <1>1 DEF StopDoubling, findings, bisection, candidacy, phaseVars
  <2> QED
    BY <2>1 DEF SearchInv, CapacityTyped, Resting, Unfailed, Doubling, Bisecting, Confirming,
       Searching
<1>2. CASE DoubleFailed
  <2>1. /\ search = "double" /\ phase = "returned" /\ phase' = "idle" /\ search' = "choose"
        /\ failing' = users
        /\ UNCHANGED <<users, flat, passing, low, high, back, candidate, confirmed, failures>>
    BY <1>2 DEF DoubleFailed, PhaseFailed, Returned, bisection, candidacy
  <2>2. users \in 0..MaximumUsers
    BY <2>1 DEF SearchInv, Doubling, CapacityTyped, SearchAssumption
  <2> QED
    BY <2>1, <2>2 DEF SearchInv, CapacityTyped, Resting, Unfailed, Doubling, Bisecting, Confirming,
       Searching
<1>3. CASE DoublePassed
  <2>1. /\ search = "double" /\ phase = "returned" /\ phase' = "idle"
        /\ passing' = passing \cup {users} /\ flat' = Flat
        /\ UNCHANGED <<failing, candidate, confirmed, failures>>
        /\ users' = Min({MaximumUsers, 2 * users})
    BY <1>3 DEF DoublePassed, PhasePassed, Returned, candidacy
  <2>2. users \in Loads /\ users \in Nat /\ failing = 0 /\ flat \in {0, 1}
    BY <2>1 DEF SearchInv, CapacityTyped, Loads, Doubling, Unfailed, SearchAssumption
  <2>3. users' \in {MaximumUsers, 2 * users} /\ users' <= MaximumUsers /\ users' <= 2 * users
    <3>1. \A a, b \in Nat : Min({a, b}) \in {a, b} /\ Min({a, b}) <= a /\ Min({a, b}) <= b
      <4> SUFFICES ASSUME NEW a \in Nat, NEW b \in Nat
                   PROVE  Min({a, b}) \in {a, b} /\ Min({a, b}) <= a /\ Min({a, b}) <= b
        OBVIOUS
      <4>1. \E x \in {a, b} : \A y \in {a, b} : x <= y
        <5>1. CASE a <= b
          BY <5>1
        <5>2. CASE b <= a
          BY <5>2
        <5> QED
          BY <5>1, <5>2
      <4> QED
        BY <4>1 DEF Min
    <3> QED
      BY <2>1, <2>2, <3>1 DEF SearchAssumption
  <2>4. passing' \in SUBSET Loads /\ users' \in Nat /\ FirstUsers <= users'
    BY <2>1, <2>2, <2>3 DEF SearchInv, CapacityTyped, Loads, SearchAssumption
  <2>5. flat' \in 0..2
    BY <2>1, <2>2 DEF Flat
  <2>6. CASE flat' = 2
    <3>1. search' = "plateau" /\ high' = Max(passing) /\ low' = Max(passing \ {Max(passing)})
      BY <1>3, <2>6 DEF DoublePassed
    <3>2. PICK u, v \in passing : u # v
      BY <2>1, <2>2, <2>6 DEF Flat, SearchInv, Doubling
    <3>3. Max(passing) \in passing /\ Max(passing) \in Nat /\ \A w \in passing : w <= Max(passing)
      BY <3>2, GreatestPassing DEF SearchInv
    <3>4. passing \ {Max(passing)} # {}
      BY <3>2
    <3>5. low' \in passing \ {Max(passing)} /\ low' \in Nat
      <4> HIDE DEF SearchInv
      <4>1. passing \ {Max(passing)} \in SUBSET passing
        OBVIOUS
      <4> QED
        BY <3>1, <3>4, <4>1, GreatestPassing DEF SearchInv
    <3>6. low' < high' /\ high' \in Nat /\ high' \in passing' /\ low' \in passing'
      BY <2>1, <3>1, <3>3, <3>5
    <3> QED
      BY <2>1, <2>2, <2>4, <2>5, <3>1, <3>5, <3>6
      DEF SearchInv, CapacityTyped, Resting, Unfailed, Doubling, Bisecting, Confirming, Searching,
          Decided
  <2>7. CASE flat' # 2
    <3>1. /\ search' = IF users = MaximumUsers THEN "choose" ELSE "double"
          /\ UNCHANGED <<low, high>>
      BY <1>3, <2>7 DEF DoublePassed
    <3>2. ASSUME users # MaximumUsers, NEW u \in passing' PROVE u < users'
      BY <2>1, <2>2, <2>3, <3>2 DEF SearchInv, CapacityTyped, Doubling, Loads, SearchAssumption
    <3>3. flat' = 1 => \E u, v \in passing' : u # v
      <4> SUFFICES ASSUME flat' = 1 PROVE \E u, v \in passing' : u # v
        OBVIOUS
      <4>1. PICK u \in passing : TRUE
        BY <2>1 DEF Flat
      <4>2. u # users
        BY <2>1, <2>2 DEF SearchInv, CapacityTyped, Doubling, Loads
      <4> QED
        BY <2>1, <4>1, <4>2
    <3>4. Doubling'
      BY <2>1, <2>5, <2>7, <3>1, <3>2, <3>3 DEF Doubling
    <3> QED
      BY <2>1, <2>2, <2>4, <2>5, <3>1, <3>4
      DEF SearchInv, CapacityTyped, Resting, Unfailed, Bisecting, Confirming, Searching, Decided
  <2> QED
    BY <2>6, <2>7
<1> QED
  BY <1>1, <1>2, <1>3

\* A bisection below a load that just failed starts from the greatest load that passed below it;
\* a search that finds none has failed.
LEMMA RefiningBelow ==
  ASSUME SearchAssumption, CapacityTyped, NEW bound \in 0..MaximumUsers, NEW why,
         why # "plateau" \/ Eligible(bound) # {}, RefineBelow(bound, why),
         UNCHANGED <<users, flat, passing>>, failing' = bound, phase' = "idle"
  PROVE  SearchInv'
<1>1. CASE Eligible(bound) # {}
  <2>1. /\ search' = "refine" /\ low' = Max(Eligible(bound)) /\ high' = bound
        /\ UNCHANGED <<candidate, confirmed>>
    BY <1>1 DEF RefineBelow
  <2>2. low' \in Eligible(bound) /\ low' \in Nat
    <3>1. Eligible(bound) \in SUBSET passing
      BY DEF Eligible
    <3> QED
      BY <1>1, <2>1, <3>1, GreatestPassing
  <2>3. low' \in passing /\ low' < high'
    BY <2>1, <2>2 DEF Eligible
  <2> QED
    BY <2>1, <2>2, <2>3
    DEF SearchInv, CapacityTyped, Resting, Unfailed, Doubling, Bisecting, Confirming, Searching,
        Decided
<1>2. CASE Eligible(bound) = {}
  <2>1. search' = "failed" /\ UNCHANGED <<low, high, candidate, confirmed>>
    BY <1>2 DEF RefineBelow, bisection
  <2> QED
    BY <2>1
    DEF SearchInv, CapacityTyped, Resting, Unfailed, Doubling, Bisecting, Confirming, Searching,
        Decided
<1> QED
  BY <1>1, <1>2

\* A candidate that passed is confirmed from the beginning.
LEMMA ConfirmingPassed ==
  ASSUME SearchAssumption, CapacityTyped, NEW u \in passing, Confirm(u),
         failing # 0 => u < failing /\ (failing - u) * 100 <= Boundary * failing,
         UNCHANGED <<users, flat, passing, failing>>, phase' = "idle"
  PROVE  SearchInv'
<1>1. /\ search' = "confirm" /\ candidate' = u /\ confirmed' = 0 /\ low' = 0 /\ high' = 0
  BY DEF Confirm
<1>2. u \in Nat
  BY DEF CapacityTyped, Loads, SearchAssumption
<1>3. CapacityTyped'
  BY <1>1, <1>2 DEF CapacityTyped, Searching, SearchAssumption
<1>4. Confirming'
  BY <1>1, <1>2 DEF Confirming, Bracketed, SearchAssumption
<1> QED
  BY <1>1, <1>3, <1>4 DEF SearchInv, Resting, Unfailed, Doubling, Bisecting, Decided

LEMMA ChoosingKeepsSearch ==
  ASSUME SearchAssumption, SearchInv, Choose
  PROVE  SearchInv'
<1>1. /\ search = "choose" /\ phase' = "idle" /\ UNCHANGED <<users, flat, passing, failing>>
  BY DEF Choose, SearchInv, Resting, findings, phaseVars
<1>2. CASE passing = {}
  <2>1. search' = "failed" /\ UNCHANGED <<low, high, candidate, confirmed>>
    BY <1>2 DEF Choose, bisection
  <2> QED
    BY <1>1, <2>1
    DEF SearchInv, CapacityTyped, Resting, Unfailed, Doubling, Bisecting, Confirming, Searching,
        Decided
<1>3. CASE passing # {} /\ failing # 0
  <2>1. RefineBelow(failing, "refine") /\ failing \in 0..MaximumUsers
    BY <1>3 DEF Choose, SearchInv, CapacityTyped
  <2> QED
    BY <1>1, <2>1, RefiningBelow DEF SearchInv
<1>4. CASE passing # {} /\ failing = 0
  <2>1. Confirm(Max(passing)) /\ Max(passing) \in passing
    BY <1>4, GreatestPassing DEF Choose, SearchInv
  <2> QED
    BY <1>1, <1>4, <2>1, ConfirmingPassed DEF SearchInv
<1> QED
  BY <1>2, <1>3, <1>4

LEMMA RefiningKeepsSearch ==
  ASSUME SearchAssumption, SearchInv, RefinePassed \/ RefineFailed \/ Refined
  PROVE  SearchInv'
<1>1. search = "refine" /\ low \in passing /\ low < high /\ high = failing
  BY DEF SearchInv, Bisecting, RefinePassed, RefineFailed, Refined
<1>2. low \in Nat /\ high \in Nat /\ high # 0
  BY <1>1 DEF SearchInv, CapacityTyped
<1>3. Middle \in Nat /\ low <= Middle /\ Middle < high
  BY <1>1, MiddleBetween DEF SearchInv
<1>4. CASE RefinePassed
  <2>1. /\ phase' = "idle" /\ passing' = passing \cup {Middle} /\ low' = Middle
        /\ UNCHANGED <<search, users, flat, failing, high, candidate, confirmed>>
    BY <1>4 DEF RefinePassed, PhasePassed, Returned, candidacy
  <2>2. Middle \in Loads
    BY <1>1, <1>3 DEF SearchInv, CapacityTyped, Loads, SearchAssumption
  <2> QED
    BY <1>1, <1>3, <2>1, <2>2
    DEF SearchInv, CapacityTyped, Resting, Unfailed, Doubling, Bisecting, Confirming, Decided
<1>5. CASE RefineFailed
  <2>1. /\ phase = "returned" /\ phase' = "idle" /\ failing' = Middle /\ high' = Middle
        /\ UNCHANGED <<search, users, flat, passing, low, candidate, confirmed>>
    BY <1>5 DEF RefineFailed, PhaseFailed, Returned, candidacy
  <2>2. low < Middle
    BY <1>1, <2>1 DEF SearchInv, Bisecting
  <2> QED
    BY <1>1, <1>3, <2>1, <2>2
    DEF SearchInv, CapacityTyped, Resting, Unfailed, Doubling, Bisecting, Confirming, Decided
<1>6. CASE Refined
  <2>1. Confirm(low) /\ ~Apart /\ phase' = "idle" /\ UNCHANGED <<users, flat, passing, failing>>
    BY <1>6 DEF Refined, findings, phaseVars
  <2>2. low < failing /\ (failing - low) * 100 <= Boundary * failing
    <3>1. Boundary * failing \in Nat
      BY <1>1, <1>2 DEF SearchAssumption
    <3> QED
      BY <1>1, <1>2, <2>1, <3>1 DEF Apart
  <2> QED
    BY <1>1, <2>1, <2>2, ConfirmingPassed DEF SearchInv
<1> QED
  BY <1>4, <1>5, <1>6

LEMMA PlateauKeepsSearch ==
  ASSUME SearchAssumption, SearchInv, PlateauPassed \/ PlateauFailed \/ PlateauRefined
  PROVE  SearchInv'
<1>1. search = "plateau" /\ low \in passing /\ high \in passing /\ low < high /\ failing = 0
  BY DEF SearchInv, Bisecting, Unfailed, PlateauPassed, PlateauFailed, PlateauRefined
<1>2. low \in Nat /\ high \in Nat /\ Middle \in Nat /\ low <= Middle /\ Middle < high
  BY <1>1, MiddleBetween DEF SearchInv, CapacityTyped
<1>3. Middle \in Loads
  BY <1>1, <1>2 DEF SearchInv, CapacityTyped, Loads, SearchAssumption
<1>4. phase = "returned" => low < Middle
  BY <1>1 DEF SearchInv, Bisecting
<1>5. CASE PlateauPassed
  <2>1. /\ phase = "returned" /\ phase' = "idle" /\ passing' = passing \cup {Middle}
        /\ UNCHANGED <<search, users, flat, failing, candidate, confirmed>>
        /\ \/ low' = Middle /\ high' = high
           \/ high' = Middle /\ low' = low
    BY <1>5 DEF PlateauPassed, PhasePassed, Returned, candidacy
  <2>2. /\ low' \in passing' /\ high' \in passing' /\ low' < high'
        /\ low' \in Nat /\ high' \in Nat
    BY <1>1, <1>2, <1>4, <2>1
  <2> QED
    BY <1>1, <1>3, <2>1, <2>2
    DEF SearchInv, CapacityTyped, Resting, Unfailed, Doubling, Bisecting, Confirming, Decided
<1>6. CASE PlateauFailed
  <2>1. /\ phase = "returned" /\ phase' = "idle" /\ failing' = Middle
        /\ RefineBelow(Middle, "plateau") /\ UNCHANGED <<users, flat, passing>>
    BY <1>6 DEF PlateauFailed, PhaseFailed, Returned
  <2>2. Eligible(Middle) # {} /\ Middle \in 0..MaximumUsers
    BY <1>1, <1>2, <1>3, <1>4, <2>1 DEF Eligible, Loads, SearchAssumption
  <2> QED
    BY <2>1, <2>2, RefiningBelow DEF SearchInv
<1>7. CASE PlateauRefined
  <2>1. Confirm(high) /\ phase' = "idle" /\ UNCHANGED <<users, flat, passing, failing>>
    BY <1>7 DEF PlateauRefined, findings, phaseVars
  <2> QED
    BY <1>1, <2>1, ConfirmingPassed DEF SearchInv
<1> QED
  BY <1>5, <1>6, <1>7

LEMMA ConfirmingKeepsSearch ==
  ASSUME SearchAssumption, SearchInv, RepeatPassed \/ RepeatFailed \/ Calibrated
  PROVE  SearchInv'
<1>1. candidate \in passing /\ candidate \in 0..MaximumUsers
  BY DEF SearchInv, CapacityTyped, Confirming, Loads, RepeatPassed, RepeatFailed, Calibrated,
     SearchAssumption
<1>2. CASE RepeatPassed
  <2>1. /\ search = "confirm" /\ phase' = "idle" /\ confirmed' = confirmed + 1
        /\ search' = IF confirmed + 1 = Repetitions THEN "calibrate" ELSE "confirm"
        /\ UNCHANGED <<users, flat, passing, failing, low, high, candidate>>
    BY <1>2 DEF RepeatPassed, PhasePassed, Returned, findings, bisection
  <2>2. confirmed + 1 \in 0..Repetitions
    BY <2>1 DEF SearchInv, CapacityTyped, Confirming, SearchAssumption
  <2>3. search' = "confirm" => confirmed' < Repetitions
    BY <2>1, <2>2 DEF SearchAssumption
  <2> QED
    BY <2>1, <2>2, <2>3
    DEF SearchInv, CapacityTyped, Resting, Unfailed, Doubling, Bisecting, Confirming, Bracketed,
        Searching, Decided
<1>3. CASE RepeatFailed
  <2>1. /\ phase' = "idle" /\ failing' = candidate /\ RefineBelow(candidate, "confirm-refine")
        /\ UNCHANGED <<users, flat, passing>>
    BY <1>3 DEF RepeatFailed, PhaseFailed, Returned
  <2> QED
    BY <1>1, <2>1, RefiningBelow DEF SearchInv
<1>4. CASE Calibrated
  <2>1. /\ search = "calibrate" /\ phase' = "idle" /\ search' \in {"confirmed", "inconclusive"}
        /\ UNCHANGED <<users, flat, passing, failing, low, high, candidate, confirmed>>
    BY <1>4 DEF Calibrated, Returned, findings, bisection, candidacy
  <2> QED
    BY <2>1
    DEF SearchInv, CapacityTyped, Resting, Unfailed, Doubling, Bisecting, Confirming, Bracketed,
        Searching, Decided
<1> QED
  BY <1>2, <1>3, <1>4

LEMMA StepKeepsSearch ==
  ASSUME SearchAssumption, SearchInv, SearchNext
  PROVE  SearchInv'
BY EndingKeepsSearch, MeasuringKeepsSearch, DoublingKeepsSearch, ChoosingKeepsSearch,
   RefiningKeepsSearch, PlateauKeepsSearch, ConfirmingKeepsSearch DEF SearchNext

----------------------------------------------------------------------------
\* The command around the search.
LEMMA SearchAtRest ==
  ASSUME SearchInv, UNCHANGED searchVars, search = "idle" \/ phase' = "idle"
  PROVE  SearchInv'
<1>1. UNCHANGED <<search, users, flat, passing, failing, low, high, back, candidate, confirmed, failures>>
  BY DEF searchVars, findings, bisection, candidacy
<1> QED
  BY <1>1
  DEF SearchInv, CapacityTyped, Resting, Unfailed, Doubling, Bisecting, Confirming, Bracketed,
      Middle, Decided

LEMMA CapacityInit ==
  ASSUME SearchAssumption, Init
  PROVE  CapacityInv
<1>1. /\ phase = "idle" /\ search = "idle" /\ users = FirstUsers /\ passing = {} /\ flat = 0
      /\ failing = 0 /\ low = 0 /\ high = 0 /\ candidate = 0 /\ confirmed = 0
      /\ comparison = "idle" /\ saved = "none" /\ campaign = "bootstrap"
      /\ kind \in {"scaling", "comparison"}
  BY DEF Init, PhaseInit, SearchInit, ComparisonInit
<1> QED
  BY <1>1
  DEF CapacityInv, SearchInv, CapacityTyped, Resting, Unfailed, Doubling, Bisecting, Confirming,
      OneKind, Reported, Searching, Decided, SearchAssumption

\* Only a comparison that has begun takes its steps.
LEMMA ComparisonHasBegun == ComparisonNext => comparison # "idle"
BY DEF ComparisonNext, PrepareLane, StartLane, RegisterRust, RegisterBuiltin, MeasureLevel, LevelEnds,
   LaneEnds, Finally

\* Only a search that has begun takes its steps.
LEMMA SearchHasBegun == SearchNext => search # "idle"
BY DEF SearchNext, StepEndsSearch, Double, StopDoubling, DoublePassed, DoubleFailed, Choose, Refine,
   RefinePassed, RefineFailed, Refined, RefinePlateau, PlateauPassed, PlateauFailed, PlateauRefined,
   Repeat, RepeatPassed, RepeatFailed, Calibrate, Calibrated

LEMMA CapacityStep ==
  ASSUME SearchAssumption, CapacityInv, [Next]_vars
  PROVE  CapacityInv'
<1> USE DEF CapacityInv
<1>1. CASE BootstrapHosts
  <2>1. /\ UNCHANGED <<kind, searchVars, comparisonVars, phaseVars>>
        /\ campaign = "bootstrap" /\ campaign' \in {"deploy", "ended"}
    BY <1>1 DEF BootstrapHosts, PreparationFails
  <2>2. UNCHANGED <<phase, search, comparison, saved>>
    BY <2>1 DEF searchVars, comparisonVars, phaseVars
  <2> QED
    BY <2>1, <2>2, SearchAtRest DEF OneKind, Reported
<1>2. CASE DeploySearch
  <2>1. /\ UNCHANGED <<users, flat, passing, failing, low, high, candidate, confirmed, kind, comparison, saved, phase>>
        /\ campaign = "deploy" /\ kind = "scaling"
        /\ \/ campaign' = "measure" /\ search' = "double"
           \/ campaign' = "ended" /\ search' = search
    BY <1>2 DEF DeploySearch, PreparationFails, findings, bisection, candidacy, comparisonVars, phaseVars
  <2>2. search = "idle" /\ phase = "idle" /\ comparison = "idle" /\ saved = "none"
    BY <2>1 DEF OneKind
  <2>3. SearchInv'
    BY <2>1, <2>2
    DEF SearchInv, CapacityTyped, Resting, Unfailed, Doubling, Bisecting, Confirming, Bracketed,
        Searching, Decided
  <2> QED
    BY <2>1, <2>2, <2>3 DEF OneKind, Reported
<1>3. CASE DeployComparison
  <2>1. /\ UNCHANGED <<kind, searchVars, phase, search>>
        /\ campaign = "deploy" /\ kind = "comparison" /\ campaign' \in {"measure", "ended"}
    BY <1>3 DEF DeployComparison, PreparationFails, phaseVars, searchVars
  <2>2. search = "idle" /\ phase = "idle"
    BY <2>1 DEF OneKind
  <2> QED
    BY <2>1, <2>2, SearchAtRest DEF OneKind, Reported
<1>4. CASE CampaignEnds
  <2>1. /\ UNCHANGED <<kind, searchVars, phase, search, comparison>> /\ phase = "idle"
        /\ campaign = "measure" /\ campaign' = "ended"
        /\ saved' = IF kind = "scaling" /\ search \notin {"raised", "saturated"} THEN search ELSE saved
    BY <1>4 DEF CampaignEnds, phaseVars, searchVars
  <2> QED
    BY <2>1, SearchAtRest DEF OneKind, Reported
<1>5. CASE Kill
  <2>1. /\ UNCHANGED <<kind, searchVars, search, comparison, saved>> /\ phase' = "idle"
        /\ campaign \in {"bootstrap", "deploy", "measure"} /\ campaign' = "ended"
    BY <1>5 DEF Kill, searchVars, comparisonVars
  <2> QED
    BY <2>1, SearchAtRest DEF OneKind, Reported
<1>6. CASE Recover
  <2>1. /\ UNCHANGED <<kind, searchVars, search, comparison, saved, phase>>
        /\ campaign = "ended" /\ campaign' = "recovered"
    BY <1>6 DEF Recover, searchVars, comparisonVars
  <2> QED
    BY <2>1, SearchAtRest DEF OneKind, Reported
<1>7. CASE PhaseNext /\ UNCHANGED <<campaign, kind, exit, searchVars, comparisonVars>>
  <2>1. UNCHANGED <<campaign, kind, searchVars, search, comparison, saved>> /\ phase # "idle"
    BY <1>7, PhaseGoesOn DEF searchVars, comparisonVars
  <2>2. SearchInv'
    BY <1>7, PhaseKeepsSearch
  <2> QED
    BY <2>1, <2>2 DEF OneKind, Reported
<1>8. CASE campaign = "measure" /\ SearchNext /\ UNCHANGED <<campaign, kind, exit, comparisonVars>>
  <2>1. UNCHANGED <<campaign, kind, comparison, saved>> /\ search # "idle" /\ campaign = "measure"
    BY <1>8, SearchHasBegun DEF comparisonVars
  <2>2. SearchInv'
    BY <1>8, StepKeepsSearch
  <2> QED
    BY <2>1, <2>2 DEF OneKind, Reported
<1>9. CASE campaign = "measure" /\ ComparisonNext /\ UNCHANGED <<campaign, kind, exit, searchVars>>
  <2>1. UNCHANGED <<campaign, kind, searchVars, search>> /\ comparison # "idle" /\ campaign = "measure"
    BY <1>9, ComparisonHasBegun DEF searchVars
  <2> QED
    BY <2>1, SearchAtRest DEF OneKind, Reported
<1>10. CASE UNCHANGED vars
  <2>1. UNCHANGED <<campaign, kind, searchVars, search, comparison, saved, phase, label>>
    BY <1>10 DEF vars, searchVars, comparisonVars, phaseVars
  <2>2. UNCHANGED <<users, flat, passing, failing, low, high, candidate, confirmed>>
    BY <2>1 DEF searchVars, findings, bisection, candidacy
  <2>3. SearchInv'
    BY <2>1, <2>2
    DEF SearchInv, CapacityTyped, Resting, Unfailed, Doubling, Bisecting, Confirming, Bracketed,
        Middle
  <2> QED
    BY <2>1, <2>3 DEF OneKind, Reported
<1> QED
  BY <1>1, <1>2, <1>3, <1>4, <1>5, <1>6, <1>7, <1>8, <1>9, <1>10 DEF Next

LEMMA CapacityAlways == Spec => []CapacityInv
<1>1. Init => CapacityInv
  BY CapacityInit, SearchAssumption
<1>2. CapacityInv /\ [Next]_vars => CapacityInv'
  BY CapacityStep, SearchAssumption
<1> QED
  BY <1>1, <1>2, PTL DEF Spec

\* No load is measured at or above the one that failed last: bisections and confirmations of
\* capacity_search stay below it.
THEOREM SearchStaysBelow == Spec => []NeverAboveFailure
<1>1. CapacityInv => NeverAboveFailure
  <2> SUFFICES ASSUME CapacityInv, kind = "scaling", phase # "idle", failing # 0
               PROVE  label.users < failing
    BY DEF NeverAboveFailure
  <2>1. search \in {"refine", "confirm", "calibrate"}
    BY DEF CapacityInv, SearchInv, CapacityTyped, Searching, Resting, Unfailed
  <2>2. CASE search = "refine"
    BY <2>2 DEF CapacityInv, SearchInv, Bisecting
  <2>3. CASE search \in {"confirm", "calibrate"}
    BY <2>3 DEF CapacityInv, SearchInv, Confirming, Bracketed
  <2> QED
    BY <2>1, <2>2, <2>3
<1> QED
  BY <1>1, CapacityAlways, PTL

\* A capacity that is saved as confirmed passed, was confirmed as often as it must be, and lies
\* below the last failure and within the boundary of it: what capacity_search's result says.
THEOREM CapacityIsBracketed == Spec => []ConfirmedIsBracketed
<1>1. CapacityInv => ConfirmedIsBracketed
  BY DEF CapacityInv, SearchInv, Reported, Confirming, Bracketed, ConfirmedIsBracketed
<1> QED
  BY <1>1, CapacityAlways, PTL

----------------------------------------------------------------------------
\* The comparison.  What it measured of a lane, and that it is over.
Over == comparison \in {"finally"} \cup Decided
Active == campaign \in {"bootstrap", "deploy", "measure"}

Measured == CASE comparison = "measure" -> level - 1
              [] comparison = "reset"   -> Len(Levels)
              [] OTHER                  -> 0

ComparisonTyped ==
  /\ comparison \in {"idle", "prepare", "deploy", "register", "measure", "reset"} \/ Over
  /\ lane \in Lane /\ level \in DOMAIN Levels /\ runs \in [Lane -> 0..Len(Levels)]
  /\ target \in SUBSET Lane /\ survived \in BOOLEAN
  /\ saved \in Decided \cup {"none", "running"}
  /\ comparison = "finally" => verdict \in Decided

\* A lane starts on an empty target and measures on its own.
Alone ==
  /\ comparison = "deploy" /\ ~survived => target = {}
  /\ comparison \in {"register", "measure"} /\ ~survived => target = {lane}
  /\ kind = "comparison" /\ phase # "idle" => comparison = "measure"

\* The lanes are measured one after the other, the levels of each in order.
InOrder ==
  /\ comparison \notin {"measure"} /\ ~Over => level = 1
  /\ ~Over => runs = [l \in Lane |-> IF l = lane THEN Measured
                                   ELSE IF lane = "rust" THEN 0 ELSE Len(Levels)]

\* A load that goes on without its caller is the end of the comparison, so that no phase
\* starts beside it.
Undisturbed ==
  kind = "comparison" /\ ~Over =>
    /\ ~overlapped
    /\ leftover /\ Active => phase = "returned" /\ result.kind \in {"raised", "failed"}

Complete ==
  kind = "comparison" /\ saved = "confirmed" =>
    Over /\ runs = [l \in Lane |-> Len(Levels)] /\ ~overlapped

FairInv == ComparisonTyped /\ Alone /\ InOrder /\ Undisturbed /\ Complete

\* A phase that will pass has seen no container end badly, or could not look.
NoCrashSeen ==
  phase = "report" /\ status = 0 => blind \/ \A n \in Node : container[n] # "bad"

----------------------------------------------------------------------------
\* The labels whose first marker is of this command; that of the phase under way is not among
\* them until its measurement is begun.
Written == reports \ OldReports

Unbegun == phase \notin {"idle", "returned"} /\ ~began => label \notin Written

Earlier == Written \ (IF phase = "idle" THEN {} ELSE {label})

SearchNames ==
  CASE search = "idle"                  -> {}
    [] search \in {"double", "choose"}  -> {"search"}
    [] search = "plateau"               -> {"search", "plateau-refine"}
    [] OTHER                            -> {"search", "plateau-refine", "refine", "plateau",
                                            "confirm", "confirm-refine"}

\* Every label of Earlier lies behind the search.
Behind(r) ==
  /\ r.name \in SearchNames
  /\ r.name = "confirm-refine" => r.round <= failures
  /\ search = "double" => r.users < users
  /\ search = "plateau" /\ r.name = "plateau-refine" => r.users <= low \/ high <= r.users
  /\ search = "refine" /\ r.name = back /\ r.round = failures => r.users <= low \/ high <= r.users
  /\ search = "refine" /\ r.name = "confirm" => high <= r.users
  /\ search = "confirm" /\ r.name = "confirm" =>
       candidate < r.users \/ (candidate = r.users /\ r.round <= confirmed)

SearchLabel ==
  CASE search = "double"    -> [name |-> "search", round |-> 0, users |-> users]
    [] search = "plateau"   -> [name |-> "plateau-refine", round |-> 0, users |-> Middle]
    [] search = "refine"    -> [name |-> back, round |-> failures, users |-> Middle]
    [] search = "confirm"   -> [name |-> "confirm", round |-> confirmed + 1, users |-> candidate]
    [] OTHER                -> [name |-> "calibration", round |-> 0, users |-> candidate]

SearchLabels ==
  kind = "scaling" =>
    /\ failures \in Nat
    /\ search = "refine" => back \in {"refine", "plateau", "confirm-refine"}
    /\ phase # "idle" => label = SearchLabel
    /\ search \notin Decided /\ Active => \A r \in Earlier : r.users \in Nat /\ r.round \in Nat /\ Behind(r)

LevelLabel(l, i) == [name |-> l, round |-> 0, users |-> Levels[i]]

\* The levels of the other lane are behind a comparison only when it measures the second one.
LevelsBehind ==
  {LevelLabel(lane, i) : i \in 1 .. (IF comparison = "reset" THEN Len(Levels) ELSE level - 1)}
    \cup (IF lane = "rust" THEN {} ELSE {LevelLabel("rust", i) : i \in DOMAIN Levels})

ComparisonLabels ==
  kind = "comparison" /\ ~Over =>
    /\ phase # "idle" => label = LevelLabel(lane, level)
    /\ Active => Earlier \subseteq LevelsBehind

FreshInv == Unbegun /\ SearchLabels /\ ComparisonLabels

----------------------------------------------------------------------------
\* What a step of a phase does for its caller.
LEMMA PhaseLoads ==
  ASSUME PhaseNext, NoCrashSeen
  PROVE  /\ phase # "returned" /\ NoCrashSeen'
         /\ \/ leftover' = leftover
            \/ leftover' = TRUE /\ phase' = "returned" /\ result'.kind \in {"raised", "failed"}
         /\ \/ overlapped' = overlapped
            \/ overlapped' = (overlapped \/ leftover)
         /\ result'.kind = "passed" => result' = result \/ blind \/ \A n \in Node : container[n] # "bad"
         /\ reports' \ {label} = reports \ {label}
         /\ ~began' /\ phase' # "returned" => ~began /\ reports' = reports
         /\ result'.kind = "passed" => result' = result \/ (phase = "report" /\ label \in reports)
<1> USE DEF NoCrashSeen, Return, Raised, FailedWith, Passed
<1>1. CASE Smoke
  BY <1>1 DEF Smoke
<1>2. CASE StartMonitors
  BY <1>2 DEF StartMonitors
<1>3. CASE StartMaster
  BY <1>3 DEF StartMaster
<1>4. CASE \E w \in Worker : StartWorker(w)
  BY <1>4 DEF StartWorker
<1>5. CASE ContainersMove
  BY <1>5 DEF ContainersMove
<1>10. CASE BeginMeasurement
  BY <1>10 DEF BeginMeasurement
<1>6. CASE Poll
  BY <1>6 DEF Poll
<1>7. CASE Settle
  <2>1. PICK missed \in SUBSET Node :
          /\ status' = FinalStatus([n \in Node |-> IF n \in missed THEN "missing" ELSE container[n]])
          /\ blind' = (\E n \in missed : container[n] = "bad")
    BY <1>7 DEF Settle
  <2>2. ASSUME status' = 0, ~blind', NEW n \in Node PROVE container[n] # "bad"
    <3>1. CASE n \in missed
      BY <2>1, <2>2, <3>1
    <3>2. CASE n \notin missed
      BY <2>1, <2>2, <3>2 DEF FinalStatus
    <3> QED
      BY <3>1, <3>2
  <2>3. phase = "settle" /\ phase' = "report" /\ UNCHANGED <<label, reports, began, container, leftover, overlapped, result>>
    BY <1>7 DEF Settle
  <2> QED
    BY <2>2, <2>3
<1>8. CASE Disconnect
  <2>1. PICK r \in {Raised} \cup {FailedWith(s) : s \in HelperPressure} : Return(r)
    BY <1>8 DEF Disconnect
  <2>2. r.kind \in {"raised", "failed"}
    BY <2>1
  <2>3. phase # "returned" /\ leftover' = TRUE /\ reports' \in {reports, reports \cup {label}}
    BY <1>8 DEF Disconnect
  <2> QED
    BY <2>1, <2>2, <2>3
<1>9. CASE Report
  <2>1. CASE result'.kind = "passed"
    BY <1>9, <2>1 DEF Report
  <2> QED
    BY <1>9, <2>1 DEF Report
<1> QED
  BY <1>1, <1>2, <1>3, <1>4, <1>5, <1>6, <1>7, <1>8, <1>9, <1>10 DEF PhaseNext

\* What every other step does to the phase: it is called for, taken back, or left alone.
Called == /\ phase = "idle" /\ phase' = "smoke"
          /\ UNCHANGED <<reports, began, container, status, blind, leftover, overlapped, result>>
Taken  == Returned
Left   == UNCHANGED phaseVars

LEMMA SearchPhase == SearchNext => Called \/ Taken \/ Left
BY DEF SearchNext, StepEndsSearch, Double, StopDoubling, DoublePassed, DoubleFailed, Choose, Refine,
   RefinePassed, RefineFailed, Refined, RefinePlateau, PlateauPassed, PlateauFailed, PlateauRefined,
   Repeat, RepeatPassed, RepeatFailed, Calibrate, Calibrated, Measures, Call, PhasePassed, PhaseFailed,
   Called, Taken, Left

LEMMA ComparisonPhase == ComparisonNext => Called \/ Taken \/ Left
BY DEF ComparisonNext, PrepareLane, StartLane, RegisterRust, RegisterBuiltin, MeasureLevel, LevelEnds,
   LaneEnds, Finally, Call, Called, Taken, Left

\* A phase passes only if no container of it was seen to end badly, and on a marker.
PassedSafely ==
  result'.kind = "passed" /\ result.kind # "passed" =>
    /\ blind \/ \A n \in Node : container[n] # "bad"
    /\ phase = "report" /\ label \in reports

LEMMA PhaseAlone ==
  ASSUME NoCrashSeen, [Next]_vars
  PROVE  NoCrashSeen' /\ PassedSafely
<1>1. CASE PhaseNext
  <2>1. /\ NoCrashSeen'
        /\ result'.kind = "passed" => result' = result \/ blind \/ \A n \in Node : container[n] # "bad"
        /\ result'.kind = "passed" => result' = result \/ (phase = "report" /\ label \in reports)
    BY <1>1, PhaseLoads
  <2> QED
    BY <2>1 DEF PassedSafely
<1>2. CASE Called \/ Taken \/ Left
  BY <1>2 DEF Called, Taken, Left, Returned, NoResult, NoCrashSeen, PassedSafely, phaseVars
<1>3. CASE Kill
  BY <1>3 DEF Kill, NoResult, NoCrashSeen, PassedSafely
<1>4. CASE BootstrapHosts \/ DeploySearch \/ DeployComparison \/ CampaignEnds \/ UNCHANGED vars
  <2>1. UNCHANGED phaseVars
    BY <1>4 DEF BootstrapHosts, DeploySearch, DeployComparison, CampaignEnds, vars
  <2> QED
    BY <1>2, <2>1 DEF Left
<1>5. CASE Recover
  BY <1>5 DEF Recover, NoCrashSeen, PassedSafely
<1> QED
  BY <1>1, <1>2, <1>3, <1>4, <1>5, SearchPhase, ComparisonPhase DEF Next

\* A phase that passes hides no container it saw end badly: the exit status run_locust.py makes
\* of all of them reaches the result.
THEOREM PassedPhasesAreSound == Spec => PassedMeansNoCrash
<1>1. Init => NoCrashSeen
  BY DEF Init, PhaseInit, NoCrashSeen
<1>2. NoCrashSeen /\ [Next]_vars => NoCrashSeen' /\ PassedSafely
  BY PhaseAlone
<1>3. PassedSafely =>
        (result'.kind = "passed" /\ result.kind # "passed" => blind \/ \A n \in Node : container[n] # "bad")
  BY DEF PassedSafely
<1> QED
  BY <1>1, <1>2, <1>3, PTL DEF Spec, PassedMeansNoCrash

----------------------------------------------------------------------------
\* The comparison, step by step.
LEMMA LevelsCount ==
  ASSUME LevelsAssumption
  PROVE  Len(Levels) \in Nat \ {0} /\ DOMAIN Levels = 1..Len(Levels) /\ \A i \in DOMAIN Levels : Levels[i] \in Nat
BY DEF LevelsAssumption

\* What a step that neither is of the comparison nor starts a phase must leave alone.
LEMMA FairAside ==
  ASSUME FairInv, UNCHANGED <<kind, comparison, lane, level, runs, target, survived, saved, verdict, overlapped>>,
         kind = "comparison" /\ phase' # "idle" => phase # "idle",
         kind = "comparison" /\ leftover' /\ Active' =>
           (leftover /\ Active /\ UNCHANGED <<phase, result>>) \/ (phase' = "returned" /\ result'.kind \in {"raised", "failed"})
  PROVE  FairInv'
<1>1. ComparisonTyped' /\ Alone' /\ InOrder' /\ Complete'
  BY DEF FairInv, ComparisonTyped, Alone, InOrder, Complete, Over, Measured
<1>2. Undisturbed'
  BY DEF FairInv, Undisturbed, Over
<1> QED
  BY <1>1, <1>2 DEF FairInv

LEMMA ResettingTarget ==
  ASSUME ComparisonTyped, ResetTarget
  PROVE  target' \in SUBSET Lane /\ survived' \in BOOLEAN /\ (~survived' => target' = {})
BY DEF ComparisonTyped, ResetTarget

\* An exception, or the end of the last lane, leaves only the target to be reset.
LEMMA FairEnd ==
  ASSUME ComparisonTyped, NEW s \in Decided, NEW v \in Decided, End(s, v),
         lane' \in Lane, level' \in DOMAIN Levels, runs' \in [Lane -> 0..Len(Levels)],
         target' \in SUBSET Lane, survived' \in BOOLEAN,
         kind' = "comparison" => phase' = "idle",
         s = "confirmed" => runs' = [l \in Lane |-> Len(Levels)] /\ ~overlapped'
  PROVE  FairInv'
<1>1. comparison' = "finally" /\ saved' = s /\ verdict' = v
  BY DEF End
<1>2. Over'
  BY <1>1 DEF Over
<1>3. ComparisonTyped'
  BY <1>1, <1>2 DEF ComparisonTyped
<1>4. Alone' /\ Undisturbed' /\ InOrder'
  BY <1>1, <1>2 DEF Alone, Undisturbed, InOrder
<1>5. Complete'
  BY <1>1, <1>2 DEF Complete
<1> QED
  BY <1>3, <1>4, <1>5 DEF FairInv

LEMMA FairComparison ==
  ASSUME LevelsAssumption, FairInv, kind = "comparison", campaign = "measure", ComparisonNext,
         UNCHANGED <<campaign, kind>>
  PROVE  FairInv'
<1> USE DEF FairInv
<1>1. ComparisonTyped /\ Alone /\ InOrder /\ Undisturbed /\ Complete
  OBVIOUS
<1>2. Active /\ "raised" \in Decided /\ "failed" \in Decided /\ "saturated" \in Decided
      /\ "inconclusive" \in Decided /\ "confirmed" \in Decided
  BY DEF Active, Decided
<1>3. \A c \in {"idle", "prepare", "deploy", "register", "measure", "reset"} : c \notin {"finally"} \cup Decided
  BY DEF Decided
<1>4. ASSUME phase # "idle" PROVE comparison = "measure"
  BY <1>1, <1>4 DEF Alone
<1>5. CASE PrepareLane
  <2>1. /\ comparison = "prepare" /\ comparison' = "deploy" /\ ResetTarget
        /\ UNCHANGED <<lane, level, runs, saved, verdict, phase, leftover, overlapped, result>>
    BY <1>5 DEF PrepareLane, phaseVars
  <2>2. ~Over /\ ~Over' /\ phase = "idle"
    BY <1>3, <1>4, <2>1 DEF Over
  <2> QED
    BY <1>1, <1>2, <2>1, <2>2, ResettingTarget
    DEF ComparisonTyped, Alone, InOrder, Undisturbed, Complete, Measured, Active
<1>6. CASE StartLane
  <2>1. /\ comparison = "deploy" /\ target' \in {target, target \cup {lane}}
        /\ UNCHANGED <<lane, level, runs, survived, phase, leftover, overlapped, result>>
    BY <1>6 DEF StartLane, phaseVars
  <2>2. ~Over /\ phase = "idle" /\ target' \in SUBSET Lane
    BY <1>1, <1>3, <1>4, <2>1 DEF Over, ComparisonTyped
  <2>3. CASE Raise
    BY <1>1, <1>2, <2>1, <2>2, <2>3, FairEnd DEF Raise, ComparisonTyped
  <2>4. CASE lane \in target' /\ comparison' = "register" /\ UNCHANGED <<saved, verdict>>
    <3>1. ~Over'
      BY <1>3, <2>4 DEF Over
    <3> QED
      BY <1>1, <1>2, <2>1, <2>2, <2>4, <3>1
      DEF ComparisonTyped, Alone, InOrder, Undisturbed, Complete, Measured, Active
  <2> QED
    BY <1>6, <2>3, <2>4 DEF StartLane
<1>7. CASE RegisterRust \/ RegisterBuiltin
  <2>1. /\ comparison = "register" /\ (Registered \/ Raise)
        /\ UNCHANGED <<lane, level, runs, target, survived, phase, leftover, overlapped, result>>
    BY <1>7 DEF RegisterRust, RegisterBuiltin, phaseVars
  <2>2. ~Over /\ phase = "idle"
    BY <1>3, <1>4, <2>1 DEF Over
  <2>3. CASE Raise
    BY <1>1, <1>2, <2>1, <2>2, <2>3, FairEnd DEF Raise, ComparisonTyped
  <2>4. CASE Registered
    <3>1. comparison' = "measure" /\ UNCHANGED <<saved, verdict>> /\ ~Over'
      BY <1>3, <2>4 DEF Over, Registered
    <3>2. level = 1
      BY <1>1, <2>1, <2>2 DEF InOrder
    <3> QED
      BY <1>1, <1>2, <2>1, <2>2, <3>1, <3>2
      DEF ComparisonTyped, Alone, InOrder, Undisturbed, Complete, Measured, Active
  <2> QED
    BY <2>1, <2>3, <2>4
<1>8. CASE MeasureLevel
  <2>1. /\ comparison = "measure" /\ phase = "idle" /\ UNCHANGED <<leftover, overlapped, result>>
        /\ UNCHANGED <<comparison, lane, level, runs, target, survived, saved, verdict>>
    BY <1>8 DEF MeasureLevel, Call, comparisonVars
  <2>2. ~Over /\ ~Over'
    BY <1>3, <2>1 DEF Over
  <2> QED
    BY <1>1, <1>2, <2>1, <2>2
    DEF ComparisonTyped, Alone, InOrder, Undisturbed, Complete, Measured, Active
<1>9. CASE LaneEnds
  <2>1. /\ comparison = "reset" /\ ResetTarget
        /\ UNCHANGED <<level, runs, phase, leftover, overlapped, result>>
    BY <1>9 DEF LaneEnds, phaseVars
  <2>2. /\ ~Over /\ phase = "idle"
        /\ target' \in SUBSET Lane /\ survived' \in BOOLEAN /\ (~survived' => target' = {})
    BY <1>1, <1>3, <1>4, <2>1, ResettingTarget DEF Over
  <2>3. ~overlapped /\ level = 1
        /\ runs = [l \in Lane |-> IF l = lane THEN Len(Levels) ELSE IF lane = "rust" THEN 0 ELSE Len(Levels)]
    BY <1>1, <2>1, <2>2 DEF InOrder, Undisturbed, Measured
  <2>4. CASE Raise /\ UNCHANGED lane
    BY <1>1, <1>2, <2>1, <2>2, <2>4, FairEnd DEF Raise, ComparisonTyped
  <2>5. CASE lane = "builtin" /\ End("confirmed", "confirmed") /\ UNCHANGED lane
    <3>1. runs' = [l \in Lane |-> Len(Levels)]
      BY <2>1, <2>3, <2>5 DEF Lane
    <3> QED
      BY <1>1, <1>2, <2>1, <2>2, <2>3, <2>5, <3>1, FairEnd DEF ComparisonTyped
  <2>6. CASE lane = "rust" /\ lane' = "builtin" /\ comparison' = "prepare" /\ UNCHANGED <<saved, verdict>>
    <3>1. ~Over'
      BY <1>3, <2>6 DEF Over
    <3>2. runs' = [l \in Lane |-> IF l = lane' THEN 0 ELSE IF lane' = "rust" THEN 0 ELSE Len(Levels)]
      BY <2>1, <2>3, <2>6 DEF Lane
    <3>3. InOrder'
      BY <2>1, <2>3, <2>6, <3>1, <3>2 DEF InOrder, Measured
    <3> QED
      BY <1>1, <1>2, <2>1, <2>2, <2>6, <3>1, <3>3
      DEF ComparisonTyped, Alone, Undisturbed, Complete, Active, Lane
  <2> QED
    BY <1>9, <2>4, <2>5, <2>6 DEF LaneEnds
<1>10. CASE Finally
  <2>1. /\ comparison = "finally" /\ ResetTarget /\ comparison' \in {verdict, "raised"}
        /\ UNCHANGED <<lane, level, runs, saved, verdict, phase, leftover, overlapped, result>>
    BY <1>10 DEF Finally, phaseVars
  <2>2. comparison' \in Decided /\ Over' /\ Over /\ phase = "idle"
    BY <1>1, <1>2, <1>4, <2>1 DEF Over, ComparisonTyped
  <2>3. comparison' \notin {"deploy", "register", "measure"} /\ comparison' # "finally"
    BY <2>2 DEF Decided
  <2> QED
    BY <1>1, <1>2, <2>1, <2>2, <2>3, ResettingTarget
    DEF ComparisonTyped, Alone, InOrder, Undisturbed, Complete
<1>11. CASE LevelEnds
  <2>1. /\ comparison = "measure" /\ phase = "returned" /\ phase' = "idle"
        /\ UNCHANGED <<lane, target, survived, leftover, overlapped>>
    BY <1>11 DEF LevelEnds, Returned
  <2>2. ~Over /\ level \in 1..Len(Levels) /\ Len(Levels) \in Nat
    BY <1>1, <1>3, <2>1, LevelsCount DEF Over, ComparisonTyped
  <2>3. runs = [l \in Lane |-> IF l = lane THEN level - 1 ELSE IF lane = "rust" THEN 0 ELSE Len(Levels)]
    BY <1>1, <2>1, <2>2 DEF InOrder, Measured
  <2>4. [runs EXCEPT ![lane] = @ + 1]
          = [l \in Lane |-> IF l = lane THEN level ELSE IF lane = "rust" THEN 0 ELSE Len(Levels)]
    BY <1>1, <2>2, <2>3 DEF ComparisonTyped
  <2>5. [runs EXCEPT ![lane] = @ + 1] \in [Lane -> 0..Len(Levels)]
    <3>1. level \in 0..Len(Levels) /\ 0 \in 0..Len(Levels) /\ Len(Levels) \in 0..Len(Levels)
      BY <2>2
    <3> QED
      BY <2>4, <3>1
  <2>6. CASE result.kind = "raised"
    <3>1. Raise /\ UNCHANGED <<level, runs>>
      BY <1>11, <2>6 DEF LevelEnds
    <3> QED
      BY <1>1, <1>2, <2>1, <3>1, FairEnd DEF Raise, ComparisonTyped
  <2>7. CASE result.kind # "raised" /\ (result.saturated # "none" \/ LevelFailed)
    <3>1. /\ runs' = [runs EXCEPT ![lane] = @ + 1] /\ UNCHANGED level
          /\ End("inconclusive", "saturated") \/ End("failed", "failed")
      BY <1>11, <2>7 DEF LevelEnds
    <3> QED
      BY <1>1, <1>2, <2>1, <2>5, <3>1, FairEnd DEF ComparisonTyped
  <2>8. CASE result.kind # "raised" /\ result.saturated = "none" /\ ~LevelFailed
    <3>1. /\ runs' = [runs EXCEPT ![lane] = @ + 1]
          /\ comparison' = IF LastLevel THEN "reset" ELSE "measure"
          /\ level' = IF LastLevel THEN 1 ELSE level + 1
          /\ UNCHANGED <<saved, verdict>>
      BY <1>11, <2>8 DEF LevelEnds
    <3>2. ~Over' /\ level' \in DOMAIN Levels
      BY <1>3, <2>2, <3>1, LevelsCount DEF Over, LastLevel
    <3>3. ~leftover /\ ~overlapped
      BY <1>1, <1>2, <2>1, <2>2, <2>8 DEF Undisturbed, LevelFailed
    <3>4. runs' = [l \in Lane |-> IF l = lane THEN Measured' ELSE IF lane = "rust" THEN 0 ELSE Len(Levels)]
      <4>1. CASE LastLevel
        BY <2>4, <3>1, <4>1 DEF Measured, LastLevel
      <4>2. CASE ~LastLevel
        <5>1. Measured' = level
          BY <2>2, <3>1, <4>2 DEF Measured
        <5> QED
          BY <2>4, <3>1, <5>1
      <4> QED
        BY <4>1, <4>2
    <3>5. InOrder'
      BY <2>1, <3>1, <3>2, <3>4 DEF InOrder
    <3> QED
      BY <1>1, <1>2, <2>1, <2>2, <2>5, <3>1, <3>2, <3>3, <3>5
      DEF ComparisonTyped, Alone, Undisturbed, Complete
  <2> QED
    BY <2>6, <2>7, <2>8
<1> QED
  BY <1>5, <1>6, <1>7, <1>8, <1>9, <1>10, <1>11 DEF ComparisonNext

LEMMA FairInit ==
  ASSUME LevelsAssumption, Init
  PROVE  FairInv
<1>1. /\ phase = "idle" /\ comparison = "idle" /\ lane = "rust" /\ level = 1
      /\ runs = [l \in Lane |-> 0] /\ target = {} /\ survived = FALSE /\ saved = "none"
      /\ leftover = FALSE /\ overlapped = FALSE
  BY DEF Init, PhaseInit, ComparisonInit
<1>2. ~Over
  BY <1>1 DEF Over, Decided
<1>3. ComparisonTyped
  <2>1. 0 \in 0..Len(Levels) /\ 1 \in DOMAIN Levels
    BY LevelsCount
  <2>2. runs \in [Lane -> 0..Len(Levels)]
    BY <1>1, <2>1
  <2> QED
    BY <1>1, <2>1, <2>2 DEF ComparisonTyped, Lane
<1>4. InOrder
  BY <1>1 DEF InOrder, Measured, Lane
<1> QED
  BY <1>1, <1>2, <1>3, <1>4 DEF FairInv, Alone, Undisturbed, Complete

LEMMA FairStep ==
  ASSUME LevelsAssumption, FairInv, CapacityInv, NoCrashSeen, [Next]_vars
  PROVE  FairInv'
<1>1. CASE PhaseNext /\ UNCHANGED <<campaign, kind, exit, searchVars, comparisonVars>>
  <2>1. /\ UNCHANGED <<campaign, kind, comparison, lane, level, runs, target, survived, saved, verdict>>
        /\ phase # "idle" /\ phase # "returned" /\ phase' # "idle"
        /\ \/ leftover' = leftover
           \/ leftover' = TRUE /\ phase' = "returned" /\ result'.kind \in {"raised", "failed"}
        /\ overlapped' \in {overlapped, overlapped \/ leftover}
    BY <1>1, PhaseLoads, PhaseGoesOn DEF comparisonVars
  <2>2. ComparisonTyped' /\ Alone' /\ InOrder'
    BY <2>1 DEF FairInv, ComparisonTyped, Alone, InOrder, Over, Measured
  <2>3. CASE kind = "comparison"
    <3>1. comparison = "measure" /\ ~Over /\ campaign = "measure" /\ Active
      BY <2>1, <2>3 DEF FairInv, Alone, Over, Decided, CapacityInv, OneKind, Active
    <3>2. ~leftover /\ ~overlapped
      BY <2>1, <2>3, <3>1 DEF FairInv, Undisturbed
    <3>3. saved # "confirmed"
      BY <2>3, <3>1 DEF FairInv, Complete
    <3>4. ~overlapped'
      BY <2>1, <3>2
    <3>5. Undisturbed'
      BY <2>1, <3>2, <3>4 DEF Undisturbed
    <3>6. Complete'
      BY <2>1, <3>3 DEF Complete
    <3> QED
      BY <2>2, <3>5, <3>6 DEF FairInv
  <2>4. CASE kind # "comparison"
    BY <2>1, <2>2, <2>4 DEF FairInv, Undisturbed, Complete
  <2> QED
    BY <2>3, <2>4
<1>2. CASE campaign = "measure" /\ SearchNext /\ UNCHANGED <<campaign, kind, exit, comparisonVars>>
  <2>1. /\ UNCHANGED <<campaign, kind, comparison, lane, level, runs, target, survived, saved, verdict>>
        /\ kind # "comparison"
    BY <1>2, SearchHasBegun DEF comparisonVars, CapacityInv, OneKind
  <2> QED
    BY <2>1 DEF FairInv, ComparisonTyped, Alone, InOrder, Undisturbed, Complete, Over, Measured
<1>3. CASE campaign = "measure" /\ ComparisonNext /\ UNCHANGED <<campaign, kind, exit, searchVars>>
  <2>1. kind = "comparison"
    BY <1>3, ComparisonHasBegun DEF CapacityInv, OneKind
  <2> QED
    BY <1>3, <2>1, FairComparison
<1>4. CASE BootstrapHosts \/ DeploySearch \/ UNCHANGED vars
  <2>1. /\ UNCHANGED <<kind, comparison, lane, level, runs, target, survived, saved, verdict>>
        /\ UNCHANGED <<phase, leftover, overlapped, result>>
        /\ Active' => Active
    BY <1>4 DEF BootstrapHosts, DeploySearch, vars, comparisonVars, phaseVars, Active
  <2> QED
    BY <2>1, FairAside
<1>5. CASE DeployComparison
  <2>1. /\ UNCHANGED <<kind, lane, level, runs, target, survived, phase, leftover, overlapped, result>>
        /\ campaign = "deploy"
        /\ \/ campaign' = "measure" /\ comparison' = "prepare" /\ saved' = "running"
           \/ campaign' = "ended" /\ UNCHANGED <<comparison, saved>>
    BY <1>5 DEF DeployComparison, PreparationFails, phaseVars
  <2>2. comparison = "idle" /\ phase = "idle" /\ Active /\ saved = "none"
    BY <2>1 DEF CapacityInv, OneKind, Active
  <2>3. ~Over /\ ~Over'
    BY <2>1, <2>2 DEF Over, Decided
  <2>4. ComparisonTyped' /\ Alone' /\ InOrder'
    BY <2>1, <2>2, <2>3 DEF FairInv, ComparisonTyped, Alone, InOrder, Measured
  <2> QED
    BY <2>1, <2>2, <2>3, <2>4 DEF FairInv, Undisturbed, Complete
<1>6. CASE CampaignEnds
  <2>1. /\ UNCHANGED <<kind, comparison, lane, level, runs, target, survived, phase, overlapped, leftover, result, verdict>>
        /\ campaign' = "ended" /\ Outcome \in Decided
        /\ saved' = IF kind = "scaling" /\ search \notin {"raised", "saturated"} THEN search ELSE saved
    BY <1>6 DEF CampaignEnds, phaseVars
  <2>2. saved' \in Decided \cup {"none", "running"}
    BY <2>1 DEF FairInv, ComparisonTyped, Outcome
  <2> QED
    BY <2>1, <2>2
    DEF FairInv, ComparisonTyped, Alone, InOrder, Undisturbed, Complete, Over, Measured, Active
<1>7. CASE Kill
  <2>1. /\ UNCHANGED <<kind, comparison, lane, level, runs, target, survived, saved, verdict, overlapped>>
        /\ phase' = "idle" /\ campaign' = "ended"
    BY <1>7 DEF Kill, comparisonVars
  <2> QED
    BY <2>1, FairAside DEF Active
<1>8. CASE Recover
  <2>1. /\ UNCHANGED <<kind, comparison, lane, level, runs, target, survived, saved, verdict, overlapped>>
        /\ phase' = phase /\ campaign' = "recovered"
    BY <1>8 DEF Recover, comparisonVars
  <2> QED
    BY <2>1, FairAside DEF Active
<1> QED
  BY <1>1, <1>2, <1>3, <1>4, <1>5, <1>6, <1>7, <1>8 DEF Next

LEMMA CampaignAlways == Spec => [](CapacityInv /\ NoCrashSeen /\ FairInv)
<1>1. Init => CapacityInv /\ NoCrashSeen /\ FairInv
  BY CapacityInit, FairInit, SearchAssumption, LevelsAssumption DEF Init, PhaseInit, NoCrashSeen
<1>2. CapacityInv /\ NoCrashSeen /\ FairInv /\ [Next]_vars => (CapacityInv /\ NoCrashSeen /\ FairInv)'
  BY CapacityStep, PhaseAlone, FairStep, SearchAssumption, LevelsAssumption
<1> QED
  BY <1>1, <1>2, PTL DEF Spec

\* A comparison that is saved as confirmed measured every level of both lanes, none beside a load
\* somebody lost, and each lane alone on the target it was given.
THEOREM ComparisonsAreFair == Spec => []ComparisonIsFair
<1>1. FairInv => ComparisonIsFair
  BY DEF FairInv, Alone, Complete, ComparisonIsFair
<1> QED
  BY <1>1, CampaignAlways, PTL

----------------------------------------------------------------------------
\* The types of what is left: the phase and the command.
Stages == {"idle", "smoke", "monitors", "master", "workers", "cluster", "settle", "report", "returned"}
Conditions == {"none", "created", "running", "ok", "bad"}

PhaseTyped ==
  /\ phase \in Stages
  /\ container \in [Node -> Conditions]
  /\ status \in {0, 1} /\ began \in BOOLEAN /\ blind \in BOOLEAN
  /\ leftover \in BOOLEAN /\ overlapped \in BOOLEAN
  /\ result.kind \in {"none", "passed", "failed", "raised"} /\ result.gain \in BOOLEAN

CommandTyped ==
  /\ campaign \in {"bootstrap", "deploy", "measure", "ended", "recovered"}
  /\ exit \in {NoStatus} \cup {Status(n) : n \in {0, 1, HelperSaturated, 130}}

LEMMA NoContainers == \A s \in Conditions : Containers(s) \in [Node -> Conditions]
BY DEF Containers

LEMMA ReturningTyped ==
  ASSUME PhaseTyped, NEW r, Return(r), r.kind \in {"passed", "failed", "raised"}, r.gain \in BOOLEAN,
         leftover' \in BOOLEAN
  PROVE  PhaseTyped'
<1>1. /\ phase' = "returned" /\ result' = r /\ container' = Containers("none") /\ status' = 0
      /\ blind' = FALSE /\ began' = FALSE /\ overlapped' = overlapped
  BY DEF Return
<1>2. container' \in [Node -> Conditions]
  BY <1>1, NoContainers DEF Conditions
<1> QED
  BY <1>1, <1>2 DEF PhaseTyped, Stages

LEMMA PhaseStepTyped ==
  ASSUME PhaseTyped, PhaseNext
  PROVE  PhaseTyped'
<1>1. Raised.kind = "raised" /\ Raised.gain = FALSE
  BY DEF Raised
<1>2. \A s : FailedWith(s).kind = "failed" /\ FailedWith(s).gain = FALSE
  BY DEF FailedWith
<1>3. \A g, s : Passed(g, s).kind = "passed" /\ Passed(g, s).gain = g
  BY DEF Passed
<1>4. leftover \in BOOLEAN
  BY DEF PhaseTyped
<1>5. CASE Smoke
  <2>1. CASE Return(Raised) /\ UNCHANGED <<reports, leftover>>
    BY <1>1, <1>4, <2>1, ReturningTyped
  <2>2. CASE phase' = "monitors" /\ UNCHANGED <<label, reports, began, container, status, blind, leftover, overlapped, result>>
    BY <2>2 DEF PhaseTyped, Stages
  <2> QED
    BY <1>5, <2>1, <2>2 DEF Smoke
<1>6. CASE StartMonitors
  <2>1. CASE Return(Raised) /\ UNCHANGED <<reports, leftover>>
    BY <1>1, <1>4, <2>1, ReturningTyped
  <2>2. CASE phase' = "master" /\ UNCHANGED <<label, reports, began, container, status, blind, leftover, overlapped, result>>
    BY <2>2 DEF PhaseTyped, Stages
  <2> QED
    BY <1>6, <2>1, <2>2 DEF StartMonitors
<1>7. CASE StartMaster
  <2>1. overlapped' \in BOOLEAN
    <3>1. (overlapped \/ leftover) \in BOOLEAN
      OBVIOUS
    <3> QED
      BY <1>7, <3>1 DEF StartMaster, PhaseTyped
  <2>2. UNCHANGED <<began, blind, leftover, result>>
    BY <1>7 DEF StartMaster
  <2>3. phase' \in Stages /\ status' \in {0, 1} /\ container' \in [Node -> Conditions]
    BY <1>7 DEF StartMaster, PhaseTyped, Stages, Conditions
  <2> QED
    BY <2>1, <2>2, <2>3 DEF PhaseTyped
<1>8. CASE \E w \in Worker : StartWorker(w)
  <2>1. PICK w \in Worker : StartWorker(w)
    BY <1>8
  <2>2. UNCHANGED <<began, blind, leftover, overlapped, result>>
    BY <2>1 DEF StartWorker
  <2>3. phase' \in Stages /\ status' \in {0, 1} /\ container' \in [Node -> Conditions]
    BY <2>1, NoContainers DEF StartWorker, PhaseTyped, Stages, Conditions
  <2> QED
    BY <2>2, <2>3 DEF PhaseTyped
<1>9. CASE ContainersMove
  <2>1. UNCHANGED <<phase, began, status, blind, leftover, overlapped, result>>
    BY <1>9 DEF ContainersMove
  <2>2. container' \in [Node -> Conditions]
    BY <1>9 DEF ContainersMove, Starts, WorkerEnds, MasterEnds, Ended, PhaseTyped, Conditions
  <2> QED
    BY <2>1, <2>2 DEF PhaseTyped
<1>10. CASE Poll
  <2>1. UNCHANGED <<began, blind, leftover, overlapped, result>> /\ phase' = "settle"
    BY <1>10 DEF Poll
  <2>2. status' \in {0, 1} /\ container' \in [Node -> Conditions]
    BY <1>10 DEF Poll, PollMaster, PollWorker, PhaseTyped, Conditions
  <2> QED
    BY <2>1, <2>2 DEF PhaseTyped, Stages
<1>11. CASE Settle
  <2>1. UNCHANGED <<began, container, leftover, overlapped, result>> /\ phase' = "report"
    BY <1>11 DEF Settle
  <2>2. PICK missed \in SUBSET Node :
          /\ status' = FinalStatus([n \in Node |-> IF n \in missed THEN "missing" ELSE container[n]])
          /\ blind' = (\E n \in missed : container[n] = "bad")
    BY <1>11 DEF Settle
  <2>3. status' \in {0, 1}
    BY <2>2 DEF FinalStatus, PhaseTyped
  <2>4. blind' \in BOOLEAN
    BY <2>2
  <2> QED
    BY <2>1, <2>3, <2>4 DEF PhaseTyped, Stages
<1>12. CASE Disconnect
  <2>1. PICK r \in {Raised} \cup {FailedWith(s) : s \in HelperPressure} : Return(r)
    BY <1>12 DEF Disconnect
  <2>2. r.kind \in {"failed", "raised"} /\ r.gain \in BOOLEAN /\ leftover' \in BOOLEAN
    BY <1>1, <1>2, <1>12 DEF Disconnect
  <2> QED
    BY <2>1, <2>2, ReturningTyped
<1>13. CASE Report
  <2>1. PICK r : Return(r) /\ r.kind \in {"passed", "failed", "raised"} /\ r.gain \in BOOLEAN
    <3>1. PICK s \in HelperPressure : (\E gain \in BOOLEAN : Return(Passed(gain, s)))
                                     \/ Return(FailedWith(s)) \/ Return(Raised)
      BY <1>13 DEF Report
    <3>2. CASE \E gain \in BOOLEAN : Return(Passed(gain, s))
      <4>1. PICK gain \in BOOLEAN : Return(Passed(gain, s))
        BY <3>2
      <4>2. Passed(gain, s).kind = "passed" /\ Passed(gain, s).gain \in BOOLEAN
        BY <1>3
      <4> QED
        BY <4>1, <4>2
    <3>3. CASE Return(FailedWith(s))
      BY <1>2, <3>3
    <3>4. CASE Return(Raised)
      BY <1>1, <3>4
    <3> QED
      BY <3>1, <3>2, <3>3, <3>4
  <2>2. leftover' \in BOOLEAN
    BY <1>4, <1>13 DEF Report
  <2> QED
    BY <2>1, <2>2, ReturningTyped
<1>14. CASE BeginMeasurement
  BY <1>14 DEF BeginMeasurement, PhaseTyped
<1> QED
  BY <1>5, <1>6, <1>7, <1>8, <1>9, <1>10, <1>11, <1>12, <1>13, <1>14 DEF PhaseNext

LEMMA TakenTyped ==
  ASSUME PhaseTyped, Called \/ Taken \/ Left
  PROVE  PhaseTyped'
<1>1. CASE Called
  BY <1>1 DEF Called, PhaseTyped, Stages
<1>2. CASE Taken
  BY <1>2 DEF Taken, Returned, NoResult, PhaseTyped, Stages
<1>3. CASE Left
  BY <1>3 DEF Left, phaseVars, PhaseTyped
<1> QED
  BY <1>1, <1>2, <1>3

LEMMA Exits == /\ \A s \in {0, 1, HelperSaturated, 130} : Status(s) \in {Status(n) : n \in {0, 1, HelperSaturated, 130}}
               /\ \A s : ExitFor(s) \in {Status(n) : n \in {0, 1, HelperSaturated, 130}}
BY DEF ExitFor

LEMMA TypedStep ==
  ASSUME PhaseTyped, CommandTyped, [Next]_vars
  PROVE  PhaseTyped' /\ CommandTyped'
<1>1. CASE PhaseNext /\ UNCHANGED <<campaign, kind, exit, searchVars, comparisonVars>>
  BY <1>1, PhaseStepTyped DEF CommandTyped
<1>2. CASE SearchNext /\ UNCHANGED <<campaign, kind, exit, comparisonVars>>
  BY <1>2, SearchPhase, TakenTyped DEF CommandTyped
<1>3. CASE ComparisonNext /\ UNCHANGED <<campaign, kind, exit, searchVars>>
  BY <1>3, ComparisonPhase, TakenTyped DEF CommandTyped
<1>4. CASE BootstrapHosts \/ DeploySearch \/ DeployComparison \/ CampaignEnds \/ UNCHANGED vars
  <2>1. Left
    BY <1>4 DEF BootstrapHosts, DeploySearch, DeployComparison, CampaignEnds, vars, Left
  <2>2. /\ campaign' \in {"deploy", "measure", "ended", campaign}
        /\ exit' = exit \/ exit' = Status(1) \/ exit' = ExitFor(Outcome)
    BY <1>4 DEF BootstrapHosts, DeploySearch, DeployComparison, CampaignEnds, PreparationFails, vars
  <2> QED
    BY <2>1, <2>2, Exits, TakenTyped DEF CommandTyped
<1>5. CASE Kill
  <2>1. /\ phase' = "idle" /\ result' = NoResult /\ container' = Containers("none") /\ status' = 0
        /\ blind' = FALSE /\ began' = FALSE /\ overlapped' = overlapped
        /\ leftover' = (leftover \/ \E n \in Node : container[n] # "none")
    BY <1>5 DEF Kill
  <2>2. leftover' \in BOOLEAN
    BY <2>1
  <2>3. campaign' = "ended" /\ exit' = Status(130)
    BY <1>5 DEF Kill
  <2>4. CommandTyped'
    BY <2>3, Exits DEF CommandTyped
  <2>5. container' \in [Node -> Conditions]
    BY <2>1, NoContainers DEF Conditions
  <2> QED
    BY <2>1, <2>2, <2>4, <2>5 DEF PhaseTyped, Stages, NoResult
<1>6. CASE Recover
  <2>1. UNCHANGED <<phase, began, container, status, blind, overlapped, result, exit>> /\ campaign' = "recovered"
    BY <1>6 DEF Recover
  <2>2. leftover' \in BOOLEAN
    BY <1>6 DEF Recover, PhaseTyped
  <2> QED
    BY <2>1, <2>2 DEF PhaseTyped, CommandTyped
<1> QED
  BY <1>1, <1>2, <1>3, <1>4, <1>5, <1>6 DEF Next

\* Every variable of a campaign keeps its type; the levels that have a result are never more
\* than there are.
THEOREM CampaignIsTyped == Spec => []TypeOK
<1>1. Init => PhaseTyped /\ CommandTyped
  <2> SUFFICES ASSUME Init PROVE PhaseTyped /\ CommandTyped
    OBVIOUS
  <2>1. container \in [Node -> Conditions]
    BY NoContainers DEF Init, PhaseInit, Conditions
  <2>2. result = NoResult /\ phase = "idle" /\ status = 0 /\ began = FALSE /\ blind = FALSE /\ leftover = FALSE
        /\ overlapped = FALSE
    BY DEF Init, PhaseInit
  <2>3. exit = NoStatus /\ campaign = "bootstrap"
    BY DEF Init
  <2>4. PhaseTyped
    BY <2>1, <2>2 DEF PhaseTyped, Stages, NoResult
  <2>5. CommandTyped
    BY <2>3 DEF CommandTyped
  <2> QED
    BY <2>4, <2>5
<1>2. PhaseTyped /\ CommandTyped /\ [Next]_vars => (PhaseTyped /\ CommandTyped)'
  BY TypedStep
<1>3. PhaseTyped /\ CommandTyped /\ CapacityInv /\ FairInv => TypeOK
  BY SearchAssumption
  DEF PhaseTyped, CommandTyped, Stages, Conditions, CapacityInv, SearchInv, CapacityTyped, OneKind,
      Searching, Loads, FairInv, ComparisonTyped, Over, TypeOK, SearchAssumption
<1> QED
  BY <1>1, <1>2, <1>3, CampaignAlways, PTL DEF Spec

----------------------------------------------------------------------------
\* No label is used twice, step by step.
LEMMA FreshPhase ==
  ASSUME NoCrashSeen, FreshInv, PhaseNext, UNCHANGED <<campaign, kind, exit, searchVars, comparisonVars>>
  PROVE  FreshInv'
<1>1. /\ phase # "idle" /\ phase' # "idle" /\ label' = label /\ Written' \ {label} = Written \ {label}
      /\ ~began' /\ phase' # "returned" => phase # "returned" /\ ~began /\ Written' = Written
  BY PhaseGoesOn, PhaseLoads DEF Written
<1>2. Earlier' = Earlier
  BY <1>1 DEF Earlier
<1>3. UNCHANGED <<campaign, kind, search, users, low, high, back, candidate, confirmed, failures, lane,
                  level, comparison>>
  BY DEF searchVars, comparisonVars, findings, bisection, candidacy
<1>4. Unbegun'
  BY <1>1 DEF FreshInv, Unbegun
<1>5. \A r : Behind(r)' <=> Behind(r)
  BY <1>3 DEF Behind, SearchNames
<1>6. SearchLabels'
  BY <1>1, <1>2, <1>3, <1>5 DEF FreshInv, SearchLabels, SearchLabel, Middle, Active
<1>7. ComparisonLabels'
  BY <1>1, <1>2, <1>3 DEF FreshInv, ComparisonLabels, LevelLabel, LevelsBehind, Over, Active
<1> QED
  BY <1>4, <1>6, <1>7 DEF FreshInv

\* A search in one of its steps.
InSearch == kind = "scaling" /\ campaign = "measure" /\ UNCHANGED <<kind, campaign>>

LEMMA FreshSearch ==
  ASSUME InSearch, FreshInv, failures' \in Nat, phase' = "idle",
         search' = "refine" => back' \in {"refine", "plateau", "confirm-refine"},
         search' \notin Decided =>
           \A r \in Earlier' : r.users \in Nat /\ r.round \in Nat /\ Behind(r)'
  PROVE  FreshInv'
BY DEF FreshInv, Unbegun, SearchLabels, ComparisonLabels, InSearch

LEMMA FreshMeasured ==
  ASSUME SearchAssumption, SearchInv, InSearch, FreshInv,
         Double \/ Refine \/ RefinePlateau \/ Repeat \/ Calibrate
  PROVE  FreshInv'
<1>1. /\ phase = "idle" /\ phase' = "smoke" /\ UNCHANGED <<Written, searchVars>>
      /\ search \in {"double", "plateau", "refine", "confirm", "calibrate"}
      /\ label' = SearchLabel
  BY DEF Written, Double, Refine, RefinePlateau, Repeat, Calibrate, Measures, Call, SearchLabel
<1>2. UNCHANGED <<search, users, low, high, back, candidate, confirmed, failures>>
  BY <1>1 DEF searchVars, findings, bisection, candidacy
<1>3. SearchLabel' = SearchLabel
  BY <1>2 DEF SearchLabel, Middle
<1>4. \A r \in Written : r.users \in Nat /\ r.round \in Nat /\ Behind(r)
  BY <1>1 DEF FreshInv, SearchLabels, Earlier, InSearch, Active, Decided
<1>5. label' \notin Written
  <2> SUFFICES ASSUME SearchLabel \in Written PROVE FALSE
    BY <1>1
  <2>1. Behind(SearchLabel)
    BY <1>4
  <2>2. users \in Nat /\ low \in Nat /\ high \in Nat /\ candidate \in Nat /\ confirmed \in Nat
    BY DEF SearchInv, CapacityTyped
  <2>3. CASE search = "double"
    BY <2>1, <2>2, <2>3 DEF Behind, SearchLabel
  <2>4. CASE search \in {"plateau", "refine"}
    <3>1. Apart
      BY <2>4 DEF Double, Refine, RefinePlateau, Repeat, Calibrate
    <3>2. low < Middle /\ Middle < high /\ Middle \in Nat
      BY <2>4, <3>1, MiddleBetween DEF SearchInv, Bisecting
    <3> QED
      BY <2>1, <2>2, <2>4, <3>2 DEF Behind, SearchLabel
  <2>5. CASE search = "confirm"
    BY <2>1, <2>2, <2>5 DEF Behind, SearchLabel
  <2>6. CASE search = "calibrate"
    BY <2>1, <2>6 DEF Behind, SearchLabel, SearchNames
  <2> QED
    BY <1>1, <2>3, <2>4, <2>5, <2>6
<1>6. Earlier' = Written
  BY <1>1, <1>5 DEF Earlier
<1>7. \A r : Behind(r)' <=> Behind(r)
  BY <1>2 DEF Behind, SearchNames
<1>8. SearchLabels'
  BY <1>1, <1>2, <1>3, <1>4, <1>6, <1>7 DEF FreshInv, SearchLabels, InSearch
<1>9. Unbegun'
  BY <1>1, <1>5 DEF Unbegun
<1> QED
  BY <1>8, <1>9 DEF FreshInv, ComparisonLabels, InSearch

\* What a search finds when a phase has returned: its Written are those before it, and its own.
LEMMA FreshReturned ==
  ASSUME SearchInv, InSearch, FreshInv, Returned, search \in Searching
  PROVE  \A r \in Earlier' : \/ r \in Earlier /\ r.users \in Nat /\ r.round \in Nat /\ Behind(r)
                            \/ r = SearchLabel
<1>1. phase = "returned" /\ phase' = "idle" /\ Written' = Written /\ label = SearchLabel
  BY DEF Written, Returned, FreshInv, SearchLabels, InSearch
<1>2. Earlier' = Written /\ Earlier = Written \ {label}
  BY <1>1 DEF Earlier
<1>3. \A r \in Earlier : r.users \in Nat /\ r.round \in Nat /\ Behind(r)
  BY DEF FreshInv, SearchLabels, InSearch, Active, Searching, Decided
<1> QED
  BY <1>1, <1>2, <1>3

LEMMA FreshDoubled ==
  ASSUME SearchAssumption, SearchInv, SearchInv', InSearch, FreshInv, DoublePassed \/ DoubleFailed
  PROVE  FreshInv'
<1>1. /\ search = "double" /\ Returned /\ phase' = "idle" /\ UNCHANGED failures
      /\ search' \in {"double", "choose", "plateau"}
      /\ search' = "double" => users \in passing'
  BY DEF DoublePassed, DoubleFailed, PhasePassed, PhaseFailed, Returned, candidacy
<1>2. failures' \in Nat
  BY <1>1 DEF FreshInv, SearchLabels, InSearch
<1>3. search \in Searching /\ users \in Nat /\ users' \in Nat
  BY <1>1 DEF Searching, SearchInv, CapacityTyped
<1>4. search' = "double" => users < users'
  BY <1>1 DEF SearchInv, Doubling
<1>5. ASSUME NEW r \in Earlier' PROVE r.users \in Nat /\ r.round \in Nat /\ Behind(r)'
  <2>1. /\ r.users \in Nat /\ r.round \in Nat /\ r.name = "search" /\ r.users <= users
    <3>1. CASE r = SearchLabel
      BY <1>1, <1>3, <3>1 DEF SearchLabel
    <3>2. CASE r.users \in Nat /\ r.round \in Nat /\ Behind(r)
      BY <1>1, <1>3, <3>2 DEF Behind, SearchNames
    <3> QED
      BY <1>1, <1>3, <1>5, <3>1, <3>2, FreshReturned
  <2> QED
    BY <1>1, <1>3, <1>4, <2>1 DEF Behind, SearchNames
<1> QED
  BY <1>1, <1>2, <1>5, FreshSearch

\* A bisection or a confirmation that begins has no report of its own yet, unless the candidate
\* of an earlier one failed.
LEMMA FreshBelow ==
  ASSUME NEW bound, NEW why \in {"refine", "plateau", "confirm-refine"},
         RefineBelow(bound, why), failures' \in Nat, InSearch, FreshInv, phase' = "idle",
         \A r \in Earlier' :
           /\ r.users \in Nat /\ r.round \in Nat
           /\ r.name \in {"search", "plateau-refine", "refine", "plateau", "confirm", "confirm-refine"}
           /\ r.name = "confirm" => why = "confirm-refine" /\ bound <= r.users
           /\ r.name = "confirm-refine" => r.round <= failures'
           /\ r.name = why => why = "confirm-refine" /\ r.round < failures'
  PROVE  FreshInv'
<1>1. search' \in {"refine", "failed", "confirm"} /\ (search' = "refine" => back' = why /\ high' = bound)
      /\ (search' = "confirm" => why = "plateau")
  BY DEF RefineBelow, Confirm
<1>2. CASE search' = "failed"
  BY <1>1, <1>2, FreshSearch DEF Decided
<1>3. CASE search' # "failed"
  <2>1. ASSUME NEW r \in Earlier' PROVE Behind(r)'
    BY <1>1, <1>3, <2>1 DEF Behind, SearchNames
  <2> QED
    BY <1>1, <1>3, <2>1, FreshSearch
<1> QED
  BY <1>2, <1>3

LEMMA FreshChosen ==
  ASSUME SearchAssumption, SearchInv, InSearch, FreshInv, Choose \/ StopDoubling
  PROVE  FreshInv'
<1>1. /\ search \in {"choose", "double"} /\ phase = "idle" /\ phase' = "idle"
      /\ UNCHANGED <<failures, Written>>
  BY DEF Written, Choose, StopDoubling, SearchInv, Resting, candidacy, phaseVars
<1>2. failures' \in Nat
  BY <1>1 DEF FreshInv, SearchLabels, InSearch
<1>3. \A r \in Earlier' : r.users \in Nat /\ r.round \in Nat /\ r.name = "search"
  <2>1. Earlier' = Earlier
    BY <1>1 DEF Earlier
  <2>2. \A r \in Earlier : r.users \in Nat /\ r.round \in Nat /\ Behind(r)
    BY <1>1 DEF FreshInv, SearchLabels, InSearch, Active, Decided
  <2> QED
    BY <1>1, <2>1, <2>2 DEF Behind, SearchNames
<1>4. CASE search' \in {"choose", "confirm", "failed"}
  <2>1. ASSUME NEW r \in Earlier' PROVE Behind(r)'
    BY <1>3, <1>4, <2>1 DEF Behind, SearchNames
  <2> QED
    BY <1>1, <1>2, <1>3, <1>4, <2>1, FreshSearch
<1>5. CASE RefineBelow(failing, "refine")
  BY <1>1, <1>2, <1>3, <1>5, FreshBelow
<1>6. CASE StopDoubling
  BY <1>4, <1>6 DEF StopDoubling
<1>7. CASE Choose
  BY <1>4, <1>5, <1>7 DEF Choose, Confirm
<1> QED
  BY <1>6, <1>7

LEMMA FreshRefined ==
  ASSUME SearchAssumption, SearchInv, InSearch, FreshInv, RefinePassed \/ RefineFailed \/ Refined
  PROVE  FreshInv'
<1>1. search = "refine" /\ low \in passing /\ low < high /\ phase' = "idle" /\ UNCHANGED failures
  BY DEF SearchInv, Bisecting, RefinePassed, RefineFailed, Refined, PhasePassed, PhaseFailed, Returned,
         candidacy, phaseVars
<1>2. low \in Nat /\ high \in Nat /\ Middle \in Nat /\ low <= Middle /\ Middle < high
  BY <1>1, MiddleBetween DEF SearchInv, CapacityTyped
<1>3. failures' \in Nat /\ failures \in Nat /\ back \in {"refine", "plateau", "confirm-refine"}
  BY <1>1 DEF FreshInv, SearchLabels, InSearch
<1>4. search \in Searching
  BY <1>1 DEF Searching
<1>5. CASE Refined
  <2>1. search' = "confirm" /\ candidate' = low /\ confirmed' = 0 /\ phase = "idle" /\ UNCHANGED Written
    BY <1>5 DEF Written, Refined, Confirm, phaseVars
  <2>2. Earlier' = Earlier
    BY <1>1, <2>1 DEF Earlier
  <2>3. ASSUME NEW r \in Earlier PROVE r.users \in Nat /\ r.round \in Nat /\ Behind(r)
    BY <1>1, <2>3 DEF FreshInv, SearchLabels, InSearch, Active, Decided
  <2>4. ASSUME NEW r \in Earlier PROVE Behind(r)'
    BY <1>1, <1>2, <2>1, <2>3 DEF Behind, SearchNames
  <2> QED
    BY <1>1, <1>3, <2>1, <2>2, <2>3, <2>4, FreshSearch
<1>6. CASE RefinePassed \/ RefineFailed
  <2>1. /\ Returned /\ UNCHANGED <<search, back>>
        /\ \/ low' = Middle /\ high' = high
           \/ low' = low /\ high' = Middle
    BY <1>6 DEF RefinePassed, RefineFailed, PhasePassed, PhaseFailed
  <2>2. ASSUME NEW r \in Earlier' PROVE r.users \in Nat /\ r.round \in Nat /\ Behind(r)'
    <3>1. CASE r = SearchLabel
      <4>1. r.name = back /\ r.round = failures /\ r.users = Middle
        BY <1>1, <3>1 DEF SearchLabel
      <4> QED
        BY <1>1, <1>2, <1>3, <2>1, <4>1 DEF Behind, SearchNames
    <3>2. CASE r.users \in Nat /\ r.round \in Nat /\ Behind(r)
      BY <1>1, <1>2, <1>3, <2>1, <3>2 DEF Behind, SearchNames
    <3> QED
      BY <1>4, <2>1, <2>2, <3>1, <3>2, FreshReturned
  <2> QED
    BY <1>1, <1>3, <2>1, <2>2, FreshSearch
<1> QED
  BY <1>5, <1>6

LEMMA FreshPlateau ==
  ASSUME SearchAssumption, SearchInv, InSearch, FreshInv, PlateauPassed \/ PlateauFailed \/ PlateauRefined
  PROVE  FreshInv'
<1>1. search = "plateau" /\ low \in passing /\ low < high /\ phase' = "idle" /\ UNCHANGED failures
  BY DEF SearchInv, Bisecting, PlateauPassed, PlateauFailed, PlateauRefined, PhasePassed, PhaseFailed,
         Returned, candidacy, phaseVars
<1>2. low \in Nat /\ high \in Nat /\ Middle \in Nat /\ low <= Middle /\ Middle < high
  BY <1>1, MiddleBetween DEF SearchInv, CapacityTyped
<1>3. failures' \in Nat /\ search \in Searching
  BY <1>1 DEF FreshInv, SearchLabels, InSearch, Searching
<1>4. CASE PlateauRefined
  <2>1. search' = "confirm" /\ phase = "idle" /\ UNCHANGED Written
    BY <1>4 DEF Written, PlateauRefined, Confirm, phaseVars
  <2>2. Earlier' = Earlier
    BY <1>1, <2>1 DEF Earlier
  <2>3. ASSUME NEW r \in Earlier PROVE r.users \in Nat /\ r.round \in Nat /\ Behind(r)
    BY <1>1, <2>3 DEF FreshInv, SearchLabels, InSearch, Active, Decided
  <2>4. ASSUME NEW r \in Earlier PROVE Behind(r)'
    BY <1>1, <2>1, <2>3 DEF Behind, SearchNames
  <2> QED
    BY <1>1, <1>3, <2>1, <2>2, <2>3, <2>4, FreshSearch
<1>5. ASSUME Returned, NEW r \in Earlier'
      PROVE  /\ r.users \in Nat /\ r.round \in Nat /\ r.name \in {"search", "plateau-refine"}
             /\ r.name = "plateau-refine" => r.users <= low \/ high <= r.users \/ r.users = Middle
  <2>1. CASE r = SearchLabel
    BY <1>1, <1>2, <2>1 DEF SearchLabel
  <2>2. CASE r.users \in Nat /\ r.round \in Nat /\ Behind(r)
    BY <1>1, <2>2 DEF Behind, SearchNames
  <2> QED
    BY <1>3, <1>5, <2>1, <2>2, FreshReturned
<1>6. CASE PlateauPassed
  <2>1. /\ Returned /\ UNCHANGED search
        /\ \/ low' = Middle /\ high' = high
           \/ low' = low /\ high' = Middle
    BY <1>6 DEF PlateauPassed, PhasePassed
  <2>2. ASSUME NEW r \in Earlier' PROVE r.users \in Nat /\ r.round \in Nat /\ Behind(r)'
    BY <1>1, <1>2, <1>5, <2>1, <2>2 DEF Behind, SearchNames
  <2> QED
    BY <1>1, <1>3, <2>1, <2>2, FreshSearch
<1>7. CASE PlateauFailed
  <2>1. Returned /\ RefineBelow(Middle, "plateau")
    BY <1>7 DEF PlateauFailed, PhaseFailed
  <2> QED
    BY <1>1, <1>3, <1>5, <2>1, FreshBelow
<1> QED
  BY <1>4, <1>6, <1>7

LEMMA FreshConfirmed ==
  ASSUME SearchAssumption, SearchInv, InSearch, FreshInv,
         RepeatPassed \/ RepeatFailed \/ Calibrated \/ StepEndsSearch
  PROVE  FreshInv'
<1>1. failures \in Nat /\ Returned /\ phase' = "idle"
  BY DEF FreshInv, SearchLabels, InSearch, RepeatPassed, RepeatFailed, Calibrated, StepEndsSearch,
         PhasePassed, PhaseFailed, Returned
<1>2. candidate \in Nat /\ confirmed \in Nat
  BY DEF SearchInv, CapacityTyped
<1>3. CASE Calibrated \/ StepEndsSearch
  <2>1. search' \in Decided /\ UNCHANGED failures
    BY <1>3 DEF Calibrated, StepEndsSearch, Decided, candidacy
  <2>2. search' # "refine"
    BY <2>1 DEF Decided
  <2> QED
    BY <1>1, <2>1, <2>2, FreshSearch
<1>4. ASSUME search = "confirm", NEW r \in Earlier'
      PROVE  /\ r.users \in Nat /\ r.round \in Nat
             /\ r.name \in {"search", "plateau-refine", "refine", "plateau", "confirm", "confirm-refine"}
             /\ r.name = "confirm-refine" => r.round <= failures
             /\ r.name = "confirm" =>
                  candidate < r.users \/ (candidate = r.users /\ r.round <= confirmed + 1)
  <2>1. CASE r = SearchLabel
    BY <1>2, <1>4, <2>1 DEF SearchLabel
  <2>2. CASE r.users \in Nat /\ r.round \in Nat /\ Behind(r)
    BY <1>2, <1>4, <2>2 DEF Behind, SearchNames
  <2> QED
    BY <1>1, <1>4, <2>1, <2>2, FreshReturned DEF Searching
<1>5. CASE RepeatPassed
  <2>1. /\ search = "confirm" /\ UNCHANGED <<candidate, failures>> /\ confirmed' = confirmed + 1
        /\ search' \in {"confirm", "calibrate"}
    BY <1>5 DEF RepeatPassed
  <2>2. ASSUME NEW r \in Earlier' PROVE r.users \in Nat /\ r.round \in Nat /\ Behind(r)'
    BY <1>4, <2>1, <2>2 DEF Behind, SearchNames
  <2> QED
    BY <1>1, <2>1, <2>2, FreshSearch
<1>6. CASE RepeatFailed
  <2>1. search = "confirm" /\ failures' = failures + 1 /\ RefineBelow(candidate, "confirm-refine")
    BY <1>6 DEF RepeatFailed
  <2>2. failures' \in Nat /\ \A n \in Nat : n <= failures => n < failures' /\ n <= failures'
    BY <1>1, <2>1
  <2>3. ASSUME NEW r \in Earlier'
        PROVE  /\ r.users \in Nat /\ r.round \in Nat
               /\ r.name \in {"search", "plateau-refine", "refine", "plateau", "confirm", "confirm-refine"}
               /\ r.name = "confirm" => candidate <= r.users
               /\ r.name = "confirm-refine" => r.round <= failures' /\ r.round < failures'
    BY <1>2, <1>4, <2>1, <2>2, <2>3
  <2> QED
    BY <1>1, <2>1, <2>2, <2>3, FreshBelow
<1> QED
  BY <1>3, <1>5, <1>6

LEMMA FreshSearchStep ==
  ASSUME SearchAssumption, SearchInv, InSearch, FreshInv, SearchNext
  PROVE  FreshInv'
BY StepKeepsSearch, FreshMeasured, FreshDoubled, FreshChosen, FreshRefined, FreshPlateau, FreshConfirmed
DEF SearchNext

----------------------------------------------------------------------------
\* The labels of a comparison are its levels, each named once.
LEMMA LevelLabels ==
  ASSUME LevelsAssumption, ComparisonTyped, comparison = "measure"
  PROVE  LevelLabel(lane, level) \notin LevelsBehind
<1> SUFFICES ASSUME LevelLabel(lane, level) \in LevelsBehind PROVE FALSE
  OBVIOUS
<1>1. level \in 1..Len(Levels) /\ Len(Levels) \in Nat /\ DOMAIN Levels = 1..Len(Levels)
  BY LevelsCount DEF ComparisonTyped
<1>2. CASE LevelLabel(lane, level) \in {LevelLabel(lane, i) : i \in 1 .. (level - 1)}
  <2>1. PICK i \in 1 .. (level - 1) : LevelLabel(lane, level) = LevelLabel(lane, i)
    BY <1>2
  <2>2. Levels[level] = Levels[i]
    <3>1. LevelLabel(lane, level).users = LevelLabel(lane, i).users
      BY <2>1
    <3> QED
      BY <3>1 DEF LevelLabel
  <2>3. i \in DOMAIN Levels /\ i # level
    BY <1>1, <2>1
  <2> QED
    BY <1>1, <2>2, <2>3 DEF LevelsAssumption
<1>3. CASE lane # "rust" /\ LevelLabel(lane, level) \in {LevelLabel("rust", i) : i \in DOMAIN Levels}
  <2>1. PICK i \in DOMAIN Levels : LevelLabel(lane, level) = LevelLabel("rust", i)
    BY <1>3
  <2>2. LevelLabel(lane, level).name = LevelLabel("rust", i).name
    BY <2>1
  <2> QED
    BY <1>3, <2>2 DEF LevelLabel
<1> QED
  BY <1>2, <1>3 DEF LevelsBehind

LEMMA FreshComparison ==
  ASSUME LevelsAssumption, FairInv, FreshInv, kind = "comparison", campaign = "measure",
         ComparisonNext, UNCHANGED <<campaign, kind>>
  PROVE  FreshInv'
<1>1. SearchLabels'
  BY DEF SearchLabels
<1>2. \A c \in {"idle", "prepare", "deploy", "register", "measure", "reset"} : c \notin {"finally"} \cup Decided
  BY DEF Decided
<1>3. Active /\ Active'
  BY DEF Active
<1>4. phase # "idle" => comparison = "measure"
  BY DEF FairInv, Alone
<1>5. CASE PrepareLane \/ StartLane \/ RegisterRust \/ RegisterBuiltin \/ Finally
  <2>1. UNCHANGED <<phase, Written, lane, level>> /\ phase = "idle"
    BY <1>4, <1>5 DEF Written, PrepareLane, StartLane, RegisterRust, RegisterBuiltin, Finally, phaseVars
  <2>2. Over' \/ (~Over /\ comparison # "reset" /\ comparison' # "reset")
    <3>1. CASE Finally
      BY <3>1 DEF Finally, FairInv, ComparisonTyped, Over, Decided
    <3>2. CASE PrepareLane \/ StartLane \/ RegisterRust \/ RegisterBuiltin
      BY <1>2, <3>2 DEF PrepareLane, StartLane, RegisterRust, RegisterBuiltin, Over, Raise, End, Registered
    <3> QED
      BY <1>5, <3>1, <3>2
  <2>3. Unbegun'
    BY <2>1 DEF Unbegun
  <2>4. ComparisonLabels'
    BY <1>3, <2>1, <2>2 DEF FreshInv, ComparisonLabels, Earlier, LevelsBehind, LevelLabel
  <2> QED
    BY <1>1, <2>3, <2>4 DEF FreshInv
<1>6. CASE MeasureLevel
  <2>1. /\ comparison = "measure" /\ phase = "idle" /\ phase' = "smoke"
        /\ label' = LevelLabel(lane, level) /\ UNCHANGED <<Written, comparison, lane, level>>
    BY <1>6 DEF Written, MeasureLevel, Call, LevelLabel, comparisonVars
  <2>2. ~Over /\ Written \subseteq LevelsBehind /\ LevelsBehind' = LevelsBehind
    BY <1>2, <1>3, <2>1 DEF Over, FreshInv, ComparisonLabels, Earlier, LevelsBehind, LevelLabel
  <2>3. label' \notin Written
    BY <2>1, <2>2, LevelLabels DEF FairInv
  <2>4. Unbegun'
    BY <2>1, <2>3 DEF Unbegun
  <2>5. ComparisonLabels'
    BY <2>1, <2>2 DEF ComparisonLabels, Earlier, LevelLabel
  <2> QED
    BY <1>1, <2>4, <2>5 DEF FreshInv
<1>7. CASE LevelEnds
  <2>1. /\ comparison = "measure" /\ phase = "returned" /\ phase' = "idle" /\ UNCHANGED <<Written, lane>>
    BY <1>7 DEF Written, LevelEnds, Returned
  <2>2. ~Over /\ level \in 1..Len(Levels) /\ Len(Levels) \in Nat
    BY <1>2, <2>1, LevelsCount DEF Over, FairInv, ComparisonTyped
  <2>3. Written \subseteq LevelsBehind \cup {LevelLabel(lane, level)}
    BY <1>3, <2>1, <2>2 DEF FreshInv, ComparisonLabels, Earlier
  <2>4. Over' \/ (IF LastLevel THEN comparison' = "reset" ELSE comparison' = "measure" /\ level' = level + 1)
    BY <1>7 DEF LevelEnds, Raise, End, Over
  <2>5. ASSUME ~Over' PROVE LevelsBehind \cup {LevelLabel(lane, level)} \subseteq LevelsBehind'
    <3>1. (1 .. (level - 1)) \cup {level} \subseteq 1 .. (IF comparison' = "reset" THEN Len(Levels) ELSE level' - 1)
      BY <2>2, <2>4, <2>5
    <3>2. level \in 1 .. (IF comparison' = "reset" THEN Len(Levels) ELSE level' - 1)
      BY <3>1
    <3> QED
      BY <2>1, <3>1, <3>2 DEF LevelsBehind, LevelLabel
  <2>6. Unbegun'
    BY <2>1 DEF Unbegun
  <2>7. ComparisonLabels'
    BY <2>1, <2>3, <2>5 DEF ComparisonLabels, Earlier
  <2> QED
    BY <1>1, <2>6, <2>7 DEF FreshInv
<1>8. CASE LaneEnds
  <2>1. comparison = "reset" /\ phase = "idle" /\ UNCHANGED <<phase, Written, level>>
    BY <1>4, <1>8 DEF Written, LaneEnds, phaseVars
  <2>2. ~Over /\ level = 1 /\ Len(Levels) \in Nat /\ DOMAIN Levels = 1..Len(Levels)
    BY <1>2, <2>1, LevelsCount DEF Over, FairInv, InOrder
  <2>3. Written \subseteq LevelsBehind
    BY <1>3, <2>1, <2>2 DEF FreshInv, ComparisonLabels, Earlier
  <2>4. Over' \/ (lane = "rust" /\ lane' = "builtin")
    BY <1>8 DEF LaneEnds, Raise, End, Over
  <2>5. ASSUME lane = "rust", lane' = "builtin" PROVE LevelsBehind \subseteq LevelsBehind'
    BY <2>1, <2>2, <2>5 DEF LevelsBehind, LevelLabel
  <2>6. Unbegun'
    BY <2>1 DEF Unbegun
  <2>7. ComparisonLabels'
    BY <2>1, <2>3, <2>4, <2>5 DEF ComparisonLabels, Earlier
  <2> QED
    BY <1>1, <2>6, <2>7 DEF FreshInv
<1> QED
  BY <1>5, <1>6, <1>7, <1>8 DEF ComparisonNext

----------------------------------------------------------------------------
\* The whole command.
LEMMA FreshAside ==
  ASSUME FreshInv, UNCHANGED <<kind, search, users, low, high, back, candidate, confirmed, failures,
                               comparison, lane, level, Written>>,
         UNCHANGED <<phase, label, began>> \/ phase' = "idle", Active' => Active /\ UNCHANGED <<phase, label>>
  PROVE  FreshInv'
<1>1. \A r : Behind(r)' <=> Behind(r)
  BY DEF Behind, SearchNames
<1>2. Unbegun'
  BY DEF FreshInv, Unbegun
<1>3. SearchLabels'
  BY <1>1 DEF FreshInv, SearchLabels, SearchLabel, Middle, Earlier
<1>4. ComparisonLabels'
  BY DEF FreshInv, ComparisonLabels, Earlier, LevelsBehind, LevelLabel, Over
<1> QED
  BY <1>2, <1>3, <1>4 DEF FreshInv

\* Nothing has been reported before a command measures.
Unused == campaign \in {"bootstrap", "deploy"} => Written = {}

LEMMA FreshStep ==
  ASSUME SearchAssumption, LevelsAssumption, CapacityInv, NoCrashSeen, FairInv, Unused, FreshInv, [Next]_vars
  PROVE  FreshInv' /\ Unused'
<1>1. CASE PhaseNext /\ UNCHANGED <<campaign, kind, exit, searchVars, comparisonVars>>
  <2>1. campaign = "measure"
    BY <1>1, PhaseGoesOn DEF CapacityInv, OneKind
  <2> QED
    BY <1>1, <2>1, FreshPhase DEF Unused
<1>2. CASE campaign = "measure" /\ SearchNext /\ UNCHANGED <<campaign, kind, exit, comparisonVars>>
  <2>1. InSearch
    BY <1>2, SearchHasBegun DEF CapacityInv, OneKind, InSearch
  <2> QED
    BY <1>2, <2>1, FreshSearchStep DEF CapacityInv, Unused
<1>3. CASE campaign = "measure" /\ ComparisonNext /\ UNCHANGED <<campaign, kind, exit, searchVars>>
  <2>1. kind = "comparison"
    BY <1>3, ComparisonHasBegun DEF CapacityInv, OneKind
  <2> QED
    BY <1>3, <2>1, FreshComparison DEF Unused
<1>4. CASE BootstrapHosts \/ CampaignEnds \/ UNCHANGED vars
  <2>1. /\ UNCHANGED <<kind, searchVars, comparison, lane, level, phaseVars>>
        /\ Active' => Active /\ (campaign' \in {"bootstrap", "deploy"} => campaign \in {"bootstrap", "deploy"})
        /\ campaign' = "bootstrap" => campaign = "bootstrap"
        /\ campaign' = "deploy" => campaign \in {"bootstrap", "deploy"}
    BY <1>4 DEF BootstrapHosts, CampaignEnds, PreparationFails, vars, comparisonVars, Active
  <2>2. /\ UNCHANGED <<search, users, low, high, back, candidate, confirmed, failures>>
        /\ UNCHANGED <<phase, label, began, Written>>
    BY <2>1 DEF Written, searchVars, findings, bisection, candidacy, phaseVars
  <2> QED
    BY <2>1, <2>2, FreshAside DEF Unused
<1>5. CASE DeploySearch
  <2>1. /\ campaign = "deploy" /\ kind = "scaling" /\ UNCHANGED <<kind, phase, label, Written, failures>>
        /\ campaign' \in {"measure", "ended"} /\ search' \in {"double", search}
    BY <1>5 DEF Written, DeploySearch, PreparationFails, candidacy, phaseVars
  <2>2. search = "idle" /\ phase = "idle" /\ Written = {}
    BY <2>1 DEF CapacityInv, OneKind, Unused
  <2>3. Earlier' = {} /\ failures' \in Nat
    BY <2>1, <2>2 DEF Earlier, FreshInv, SearchLabels
  <2> QED
    BY <2>1, <2>2, <2>3 DEF FreshInv, Unbegun, SearchLabels, ComparisonLabels, Unused
<1>6. CASE DeployComparison
  <2>1. /\ campaign = "deploy" /\ kind = "comparison" /\ UNCHANGED <<kind, phase, label, Written>>
        /\ campaign' \in {"measure", "ended"}
    BY <1>6 DEF Written, DeployComparison, PreparationFails, phaseVars
  <2>2. phase = "idle" /\ Written = {}
    BY <2>1 DEF CapacityInv, OneKind, Unused
  <2>3. Earlier' = {}
    BY <2>1, <2>2 DEF Earlier
  <2> QED
    BY <2>1, <2>2, <2>3 DEF FreshInv, Unbegun, SearchLabels, ComparisonLabels, Unused
<1>7. CASE Kill \/ Recover
  <2>1. /\ UNCHANGED <<kind, searchVars, comparison, lane, level, Written>>
        /\ campaign' \in {"ended", "recovered"}
        /\ UNCHANGED <<phase, label, began>> \/ phase' = "idle"
    BY <1>7 DEF Written, Kill, Recover, comparisonVars
  <2>2. UNCHANGED <<search, users, low, high, back, candidate, confirmed, failures>>
    BY <2>1 DEF searchVars, findings, bisection, candidacy
  <2>3. ~Active' /\ Unused'
    BY <2>1 DEF Active, Unused
  <2> QED
    BY <2>1, <2>2, <2>3, FreshAside
<1> QED
  BY <1>1, <1>2, <1>3, <1>4, <1>5, <1>6, <1>7 DEF Next

\* A phase passes on its own measurement, or on the marker an earlier command left for its
\* label: the labels of a search, rounds and failed candidates included, and those of a
\* comparison differ from all before them, so that a marker of this command is the phase's own.
THEOREM PassedAreMeasured == Spec => PassedIsMeasured
<1>1. Init => FreshInv /\ Unused
  BY DEF Init, PhaseInit, SearchInit, ComparisonInit, FreshInv, Unused, Unbegun, SearchLabels,
         ComparisonLabels, Earlier, Written
<1>2. /\ CapacityInv /\ NoCrashSeen /\ FairInv /\ FreshInv /\ Unused /\ [Next]_vars
        => (FreshInv /\ Unused)'
  BY FreshStep, SearchAssumption, LevelsAssumption
<1>3. NoCrashSeen /\ FreshInv /\ [Next]_vars =>
        (result'.kind = "passed" /\ result.kind # "passed" => began \/ label \in OldReports)
  BY PhaseAlone DEF PassedSafely, FreshInv, Unbegun, Written
<1> QED
  BY <1>1, <1>2, <1>3, CampaignAlways, PTL DEF Spec, PassedIsMeasured
=============================================================================
