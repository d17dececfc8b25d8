------------------------------- MODULE MCDesigns -------------------------------
(***************************************************************************)
(* Small instances of the modules about scores, mockups and what becomes   *)
(* of them, which share no state: a behaviour is about one of them.        *)
(***************************************************************************)
EXTENDS ScoringWeights, MockupModels, Experiments, PerformanceFigures, TLC

VARIABLE part

MCInit ==
    /\ WeightsInit /\ MockupInit /\ ExperimentInit /\ FiguresInit
    /\ part \in {"weights", "mockups", "experiment", "figures"}

MCNext ==
    \/ /\ part = "weights" /\ WeightsNext
       /\ UNCHANGED <<part, mockupVars, experimentVars, figureVars>>
    \/ /\ part = "mockups" /\ MockupNext
       /\ UNCHANGED <<part, weightVars, experimentVars, figureVars>>
    \/ /\ part = "experiment" /\ ExperimentNext
       /\ UNCHANGED <<part, weightVars, mockupVars, figureVars>>
    \/ /\ part = "figures" /\ FiguresNext
       /\ UNCHANGED <<part, weightVars, mockupVars, experimentVars>>

MCSpec == MCInit /\ [][MCNext]_<<part, weightVars, mockupVars, experimentVars, figureVars>>

\* Every variable of the four modules keeps its type.
DesignsTypeOK == WeightsTypeOK /\ MockupTypeOK /\ ExperimentTypeOK /\ FiguresTypeOK

\* What is told of the performance of designs is complete, and does not shrink: the
\* rows of a job are read whole, a summary counts at least what it counted before, and
\* the summaries add up to no more than the totals.
FiguresTold == [](FiguresWhole /\ WithinTotals) /\ SummariesGrow

\* The parts share no state, so the configuration gives the same model values to
\* sets of several parts, which keeps the group of permutations small: Sessions,
\* Models, Shows and Jobs are one set, Scorers, Changes, Recorders and Watched another.
Symmetric ==
    Permutations(Sessions) \union Permutations(Scorers)
    \union Permutations(Parts) \union Permutations(Uploads)
=============================================================================
