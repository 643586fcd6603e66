--------------------------- MODULE CapacitySearch ---------------------------
(***************************************************************************)
(* capacity_search: loads that double until one fails, the throughput stops *)
(* growing or the time is over; bisection down to the boundary; repeated    *)
(* confirmation of the candidate, lowered when it fails; calibration        *)
(* against the backend itself.  Every load is a phase of LoadPhase.         *)
(***************************************************************************)
EXTENDS LoadPhase, FiniteSetsExt

CONSTANTS
  FirstUsers, MaximumUsers,
  Boundary,      \* boundary_percent
  Repetitions

\* The last conjunct keeps the bisection from measuring one load for ever.
ASSUME SearchAssumption ==
  /\ FirstUsers \in Nat \ {0} /\ MaximumUsers \in Nat /\ Repetitions \in Nat \ {0}
  /\ Boundary \in Nat /\ 100 <= Boundary * (FirstUsers + 1)

VARIABLES
  search,      \* where the search is
  users,       \* the load the doubling comes to next
  passing,     \* the loads that passed
  flat,        \* the last improvements in a row below plateau_improvement_percent
  failing,     \* the load that failed last, 0 for none
  low, high,   \* the bounds of a bisection
  back,        \* what a bisection below a failure is for
  candidate,   \* the load to be confirmed
  confirmed,   \* its confirmations so far
  failures     \* candidates that failed

bisection  == <<low, high, back>>
findings   == <<passing, failing>>
candidacy  == <<candidate, confirmed, failures>>
searchVars == <<search, users, flat, findings, bisection, candidacy>>

SearchInit ==
  /\ search = "idle" /\ users = FirstUsers /\ passing = {} /\ flat = 0 /\ failing = 0
  /\ low = 0 /\ high = 0 /\ back = "none" /\ candidate = 0 /\ confirmed = 0 /\ failures = 0

\* measured_step: a phase that raised ends the search, and so does one that saturated a
\* helper, because everything is then measured again with a bigger one.
Measures(name, round, u) == phase = "idle" /\ Call(name, round, u) /\ UNCHANGED searchVars

Saturated == result.kind # "raised" /\ result.saturated # "none"
Interrupted == result.kind = "raised" \/ Saturated
PhasePassed == Returned /\ ~Interrupted /\ result.kind = "passed"
PhaseFailed == Returned /\ ~Interrupted /\ result.kind = "failed"

StepEndsSearch ==
  /\ Returned /\ Interrupted /\ search \notin {"idle", "ended"}
  /\ search' = IF Saturated THEN "saturated" ELSE "raised"
  /\ UNCHANGED <<users, flat, findings, bisection, candidacy>>

----------------------------------------------------------------------------
\* Doubling.  The time is looked at here only.
Double ==
  /\ search = "double" /\ users <= MaximumUsers
  /\ Measures("search", 0, users)

StopDoubling ==
  /\ search = "double" /\ phase = "idle"
  /\ search' = "choose"
  /\ UNCHANGED <<users, flat, findings, bisection, candidacy, phaseVars>>

\* Two loads in a row without five percent more than the one before are a plateau.
Flat == IF passing = {} \/ result.gain THEN 0 ELSE flat + 1

DoublePassed ==
  /\ search = "double" /\ PhasePassed
  /\ passing' = passing \cup {users} /\ flat' = Flat
  /\ IF flat' = 2
       THEN /\ search' = "plateau"
            /\ high' = Max(passing) /\ low' = Max(passing \ {Max(passing)})
       ELSE /\ search' = IF users = MaximumUsers THEN "choose" ELSE "double"
            /\ UNCHANGED <<low, high>>
  /\ users' = Min({MaximumUsers, 2 * users})
  /\ UNCHANGED <<failing, back, candidacy>>

DoubleFailed ==
  /\ search = "double" /\ PhaseFailed
  /\ failing' = users /\ search' = "choose"
  /\ UNCHANGED <<users, flat, passing, bisection, candidacy>>

----------------------------------------------------------------------------
\* Bisection between a load that passed and one that failed, or of a plateau.
Middle == (low + high) \div 2

BugTwiceApart == (high - low) * 100 > 2 * Boundary * high
BugNoBoundary == high > low
Apart == (high - low) * 100 > Boundary * high

BugAtMost(bound) == {u \in passing : u <= bound}
Eligible(bound) == {u \in passing : u < bound}

Confirm(u) ==
  /\ search' = "confirm" /\ candidate' = u /\ confirmed' = 0
  /\ low' = 0 /\ high' = 0 /\ back' = "none"

\* refine_below: start below the failure, or say that nothing passed there.
RefineBelow(bound, why) ==
  IF Eligible(bound) # {}
    THEN /\ search' = "refine" /\ back' = why
         /\ low' = Max(Eligible(bound)) /\ high' = bound
         /\ UNCHANGED <<candidate, confirmed>>
    ELSE IF why = "plateau"
      THEN Confirm(low)
      ELSE search' = "failed" /\ UNCHANGED <<bisection, candidate, confirmed>>

Refine == search = "refine" /\ Apart /\ Measures(back, failures, Middle)

RefinePassed ==
  /\ search = "refine" /\ PhasePassed
  /\ passing' = passing \cup {Middle}
  /\ low' = Middle
  /\ UNCHANGED <<search, users, flat, failing, high, back, candidacy>>

RefineFailed ==
  /\ search = "refine" /\ PhaseFailed
  /\ failing' = Middle /\ high' = Middle
  /\ UNCHANGED <<search, users, flat, passing, low, back, candidacy>>

Refined ==
  /\ search = "refine" /\ phase = "idle" /\ ~Apart
  /\ Confirm(low)
  /\ UNCHANGED <<users, flat, findings, failures, phaseVars>>

RefinePlateau == search = "plateau" /\ Apart /\ Measures("plateau-refine", 0, Middle)

PlateauPassed ==
  /\ search = "plateau" /\ PhasePassed
  /\ passing' = passing \cup {Middle}
  /\ IF result.gain
       THEN low' = Middle /\ UNCHANGED high
       ELSE high' = Middle /\ UNCHANGED low
  /\ UNCHANGED <<search, users, flat, failing, back, candidacy>>

PlateauFailed ==
  /\ search = "plateau" /\ PhaseFailed
  /\ failing' = Middle
  /\ RefineBelow(Middle, "plateau")
  /\ UNCHANGED <<users, flat, passing, failures>>

PlateauRefined ==
  /\ search = "plateau" /\ phase = "idle" /\ ~Apart
  /\ Confirm(high)
  /\ UNCHANGED <<users, flat, findings, failures, phaseVars>>

\* The candidate, once the doubling is over.
Choose ==
  /\ search = "choose"
  /\ IF passing = {}
       THEN search' = "failed" /\ UNCHANGED <<bisection, candidate, confirmed>>
       ELSE IF failing # 0
         THEN RefineBelow(failing, "refine")
         ELSE Confirm(Max(passing))
  /\ UNCHANGED <<users, flat, findings, failures, phaseVars>>

----------------------------------------------------------------------------
\* Confirmation and calibration.
BugOneDirectory ==
  /\ search = "confirm" /\ confirmed < Repetitions
  /\ Measures("confirm", 0, candidate)

Repeat ==
  /\ search = "confirm" /\ confirmed < Repetitions
  /\ Measures("confirm", confirmed + 1, candidate)

RepeatPassed ==
  /\ search = "confirm" /\ PhasePassed
  /\ confirmed' = confirmed + 1
  /\ search' = IF confirmed' = Repetitions THEN "calibrate" ELSE "confirm"
  /\ UNCHANGED <<users, flat, findings, bisection, candidate, failures>>

RepeatFailed ==
  /\ search = "confirm" /\ PhaseFailed
  /\ failing' = candidate /\ failures' = failures + 1
  /\ RefineBelow(candidate, "confirm-refine")
  /\ UNCHANGED <<users, flat, passing>>

Calibrate == search = "calibrate" /\ Measures("calibration", 0, candidate)

\* The backend alone must do five percent better than the slowest confirmation.
Calibrated ==
  /\ search = "calibrate" /\ Returned /\ ~Interrupted
  /\ search' = IF result.kind = "passed" /\ result.gain
                 THEN "confirmed" ELSE "inconclusive"
  /\ UNCHANGED <<users, flat, findings, bisection, candidacy>>

Decided == {"failed", "inconclusive", "confirmed", "saturated", "raised"}

SearchNext ==
  \/ StepEndsSearch
  \/ Double \/ StopDoubling \/ DoublePassed \/ DoubleFailed \/ Choose
  \/ Refine \/ RefinePassed \/ RefineFailed \/ Refined
  \/ RefinePlateau \/ PlateauPassed \/ PlateauFailed \/ PlateauRefined
  \/ Repeat \/ RepeatPassed \/ RepeatFailed \/ Calibrate \/ Calibrated

=============================================================================
