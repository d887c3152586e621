------------------------------ MODULE MCServer -------------------------------
(* The small mechanisms of one server process, and of its tools. They      *)
(* share no state, so that one run checks them side by side: `part` is the *)
(* one that runs. The limiter has the default cap of two slots.            *)
EXTENDS ScanLimiter, ScanClock, ScannerPasses, ProcessRun, ProgressTokens, LlmPlans, FixPr

CONSTANTS e1, e2, e3, e4, t1, t2, t3, kHunt

VARIABLE part

(* As in scan_sast: a pass that writes the tree goes before two others.    *)
WritersFirst == [p \in 1 .. 5 |-> CASE p = 2 -> {1} [] p = 5 -> {1, 3} [] OTHER -> {}]

(* Two sub-scans under one token, beside two other calls.                  *)
TwoShare == [e \in {e1, e2, e3, e4} |-> CASE e \in {e1, e2} -> t1 [] e = e3 -> t2 [] e = e4 -> t3]

HuntMeasures == [n \in {LlmHunt} |-> {kHunt}]

ASSUME PartsAssumption ==
  /\ ClockAssumption /\ PassesAssumption /\ ProcsAssumption
  /\ ProgressAssumption /\ HuntAssumption /\ BranchAssumption

parted ==
  <<part, vars, clockVars, passVars, processVars, progressVars, planVars, fixVars>>

ServerInit ==
  /\ part \in {"limiter", "clock", "passes", "process", "progress", "plans", "fixes"}
  /\ IF part = "clock" THEN ClockInit ELSE now = 0 /\ stamps = <<>> /\ corrections = {}
  /\ Init /\ PassesInit /\ ProcessInit /\ ProgressInit /\ PlansInit /\ FixInit

ServerNext ==
  /\ UNCHANGED part
  /\ \/ part = "limiter" /\ Next
        /\ UNCHANGED <<clockVars, passVars, processVars, progressVars, planVars, fixVars>>
     \/ part = "clock" /\ ClockNext
        /\ UNCHANGED <<vars, passVars, processVars, progressVars, planVars, fixVars>>
     \/ part = "passes" /\ PassesNext
        /\ UNCHANGED <<vars, clockVars, processVars, progressVars, planVars, fixVars>>
     \/ part = "process" /\ ProcessNext
        /\ UNCHANGED <<vars, clockVars, passVars, progressVars, planVars, fixVars>>
     \/ part = "progress" /\ ProgressNext
        /\ UNCHANGED <<vars, clockVars, passVars, processVars, planVars, fixVars>>
     \/ part = "plans" /\ PlansNext
        /\ UNCHANGED <<vars, clockVars, passVars, processVars, progressVars, fixVars>>
     \/ part = "fixes" /\ FixNext
        /\ UNCHANGED <<vars, clockVars, passVars, processVars, progressVars, planVars>>

ServerSpec ==
  /\ ServerInit /\ [][ServerNext]_parted
  /\ (part = "passes" => PassesFairness) /\ (part = "process" => ProcessFairness)

PassesMerge == part = "passes" => AllMerged
=============================================================================
