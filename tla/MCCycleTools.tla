----------------------------- MODULE MCCycleTools -----------------------------
(***************************************************************************)
(* Checks the commands that keep files of their own beside the phases of   *)
(* a cycle: Stage 2 of classify-real, reclassify, the sequential bake-off, *)
(* the calibration and the freezing of baselines.  They share no state     *)
(* while they run, so a behaviour is one of a single tool, which focus     *)
(* names.                                                                  *)
(***************************************************************************)
EXTENDS Stage2Phase, Reclassification, SequentialBakeoff, CalibrationFiles, BaselineTree

CONSTANTS i1, i2, i3, i4

VARIABLE focus

vars == <<focus, s2vars, revars, sbvars, cfvars, btvars>>

\* Three Stage-2 incidents, one of which the snapshot has no more, and one with
\* two labels of Stage 1.
MCIncidents == {i1, i2, i3, i4}
MCStage1Rows == [i \in MCIncidents |-> IF i = i4 THEN 2 ELSE 0]

\* The second rubric puts one incident more in the entry.
MCLabelled == <<{1}, {1, 2}>>

\* Other labels leave the figures as they are.
MCFigures == [v \in Versions |-> <<v["lambda"], v["votes"]>>]

\* The instances satisfy what each module asks of its constants.
ASSUME ToolAssumptions ==
    /\ Stage2Assumption /\ ReclassificationAssumption /\ SequentialAssumption
    /\ CalibrationAssumption /\ BaselineAssumption

Init ==
    /\ focus \in {"stage2", "reclassify", "bakeoff", "calibration", "baselines"}
    /\ Stage2Init /\ ReclassifyInit /\ BakeoffInit /\ CalibrationInit /\ FreezeInit

Next ==
    /\ UNCHANGED focus
    /\ \/ /\ focus = "stage2" /\ Stage2Next
          /\ UNCHANGED <<revars, sbvars, cfvars, btvars>>
       \/ /\ focus = "reclassify" /\ ReclassifyNext
          /\ UNCHANGED <<s2vars, sbvars, cfvars, btvars>>
       \/ /\ focus = "bakeoff" /\ BakeoffNext
          /\ UNCHANGED <<s2vars, revars, cfvars, btvars>>
       \/ /\ focus = "calibration" /\ CalibrationNext
          /\ UNCHANGED <<s2vars, revars, sbvars, btvars>>
       \/ /\ focus = "baselines" /\ FreezeNext
          /\ UNCHANGED <<s2vars, revars, sbvars, cfvars>>

\* Nothing of Stage 2 is enabled before it was started, so its fairness asks
\* nothing of the behaviours of another tool.
Spec == Init /\ [][Next]_vars /\ Fairness
=============================================================================
