---------------------------- MODULE Calibration ----------------------------
(***************************************************************************)
(* The feedback loop (services/integration: feedback_loop.py, http.py;      *)
(* services/cve_matching: feedback.py): analysts judge matches, verdicts    *)
(* are rows of a table, and an admin's request recalibrates the thresholds  *)
(* of each component family in the process of the API.                     *)
(*                                                                         *)
(* No override ever equals the base, so a family without one is shown with *)
(* the base itself.                                                        *)
(***************************************************************************)
EXTENDS Matching

CONSTANTS
  StrictenDelta, LoosenDelta,   \* STRICTEN_DELTA, LOOSEN_DELTA
  MinSamples,                   \* MIN_SAMPLES
  MaxVerdicts                   \* bound on the rows of analyst_feedback

ASSUME CalibrationAssumption ==
  /\ StrictenDelta \in Nat /\ LoosenDelta \in Nat /\ MinSamples \in Nat \ {0}
  /\ MaxVerdicts \in Nat

VARIABLES
  verdicts,     \* analyst_feedback; ids tell like verdicts apart
  calibrated    \* the verdicts that the last undisturbed recalibration read
                \* (history)

feedbackVars == <<verdicts, calibrated>>
calibrationVars == <<matchingVars, overrides, feedbackVars>>

Verdict == {"confirmed", "false_positive", "needs_review"}

CalibrationInit ==
  /\ MatchingInit
  /\ verdicts = {} /\ calibrated = {}

\* submit_feedback.  What an analyst judges is what was reported.  When the
\* INSERT fails the answer is "accepted" all the same and nothing changes.
SubmitFeedback ==
  /\ stage = "emitted" /\ Cardinality(verdicts) < MaxVerdicts
  /\ \E v \in Cve, k \in Verdict :
       LET alike == {f \in verdicts : f.cve = v /\ f.verdict = k} IN
       /\ best[v] # NoMatch
       /\ verdicts' = verdicts \cup {[cve |-> v, verdict |-> k, id |-> Cardinality(alike)]}
  /\ UNCHANGED <<matchingVars, overrides, calibrated>>

-----------------------------------------------------------------------------
(* aggregate, adjust_for_fp_rate, recalibrate.                             *)

Lesser(a, b) == IF a <= b THEN a ELSE b
Clamped(x) == IF x < 0 THEN 0 ELSE Lesser(x, 100)

\* _valid_thresholds.
Valid(high, possible, low) ==
  LET h == Clamped(high)
      p == Lesser(Clamped(possible), h) IN
  [high |-> h, possible |-> p, low |-> Lesser(Clamped(low), p)]

Shifted(t, delta) == Valid(t.high + delta, t.possible + delta, t.low + delta)

\* FP_RATE_STRICTEN is a half, FP_RATE_LOOSEN a tenth.
AdjustForFpRate(t, wrong, decided) ==
  IF 2 * wrong >= decided THEN Shifted(t, StrictenDelta)
  ELSE IF 10 * wrong <= decided THEN Shifted(t, -LoosenDelta)
  ELSE t

FamiliesOf(v) == {FamilyFor(r.product) : r \in {q \in corpus : q.cve = v}}

\* SELECT family ... LIMIT 1: a CVE with rows of two families is given to
\* either, one without rows to none.
Resolvers ==
  {g \in [Cve -> Family \cup {NoFamily}] :
     \A v \in Cve : IF FamiliesOf(v) = {} THEN g[v] = NoFamily ELSE g[v] \in FamiliesOf(v)}

\* Faulty variant: whatever is not confirmed is a false positive.
WrongOrUndecided(rows, cves) ==
  Cardinality({f \in rows : f.cve \in cves /\ f.verdict # "confirmed"})

Wrong(rows, cves) ==
  Cardinality({f \in rows : f.cve \in cves /\ f.verdict = "false_positive"})
Confirmed(rows, cves) ==
  Cardinality({f \in rows : f.cve \in cves /\ f.verdict = "confirmed"})

\* Only a result other than the base is installed: in the middle band the
\* override of an earlier recalibration stays.
Recalibrated(rows, resolver) ==
  [f \in Family |->
     LET cves == {v \in Cve : resolver[v] = f}
         decided == Wrong(rows, cves) + Confirmed(rows, cves)
         new == AdjustForFpRate(Base, Wrong(rows, cves), decided) IN
     IF decided < MinSamples \/ new = Base THEN overrides["api"][f] ELSE new]

Install(rows, resolver) ==
  overrides' = [overrides EXCEPT !["api"] = Recalibrated(rows, resolver)]

RecalibrateNow ==
  /\ \E g \in Resolvers : Install(verdicts, g)
  /\ calibrated' = verdicts
  /\ UNCHANGED <<matchingVars, verdicts>>

\* The reader fails and returns no rows, or the resolver fails for some CVEs
\* and their verdicts do not count.
RecalibratePartly ==
  /\ \E g \in Resolvers, lost \in SUBSET Cve :
       Install(verdicts, [v \in Cve |-> IF v \in lost THEN NoFamily ELSE g[v]])
  /\ calibrated' = {}
  /\ UNCHANGED <<matchingVars, verdicts>>

\* The overrides live in the process: they are lost with it.
ApiRestart ==
  /\ overrides' = [overrides EXCEPT !["api"] = [f \in Family |-> Base]]
  /\ calibrated' = {}
  /\ UNCHANGED <<matchingVars, verdicts>>

CalibrationNext ==
  \/ MatchingNext /\ UNCHANGED feedbackVars
  \/ SubmitFeedback
  \/ RecalibrateNow \/ RecalibratePartly \/ ApiRestart

CalibrationSpec == CalibrationInit /\ [][CalibrationNext]_calibrationVars

-----------------------------------------------------------------------------
(* Properties.                                                             *)

\* Type correctness; thresholds in force are ordered and within [0, 1], or
\* ThresholdConfig would have refused them.
CalibrationTypeOK ==
  /\ overrides \in [Process -> [Family -> [high : Int, possible : Int, low : Int]]]
  /\ \A p \in Process, f \in Family : Ordered(overrides[p][f])
  /\ verdicts \subseteq [cve : Cve, verdict : Verdict, id : Nat]
  /\ calibrated \subseteq verdicts

\* "repeated runs are idempotent": however often and in whatever order
\* verdicts, recalibrations and faults come, no family is more than one step
\* away from the base (recalibrate).
NoDrift ==
  \A f \in Family : overrides["api"][f] \in
    {Base, Shifted(Base, StrictenDelta), Shifted(Base, -LoosenDelta)}

OnlyOf(f) == {v \in Cve : FamiliesOf(v) = {f}}
Clear(f) == \A v \in Cve : f \in FamiliesOf(v) => v \in OnlyOf(f)

\* After a recalibration that read everything, a family at least half of whose
\* decided verdicts were false positives is stricter than the base, one with
\* at most a tenth of them is looser, and needs_review counts for nothing; a
\* family is exempt whose CVEs another family shares.
FollowsFeedback ==
  \A f \in Family : Clear(f) =>
    LET judged(k) == Cardinality({r \in calibrated : r.cve \in OnlyOf(f) /\ r.verdict = k})
        wrong == judged("false_positive")
        right == judged("confirmed") IN
    wrong + right >= MinSamples =>
      /\ wrong >= right => overrides["api"][f].low > Base.low
      /\ 9 * wrong <= right => overrides["api"][f].low < Base.low
=============================================================================
