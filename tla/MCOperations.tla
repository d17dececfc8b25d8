------------------------------ MODULE MCOperations ------------------------------
(***************************************************************************)
(* Small instances of the modules about the accounts and rules of the      *)
(* publisher, the optimization service, the pipeline's first ops and what  *)
(* operators' scripts do, which share no state: a behaviour is about one   *)
(* of them.                                                                *)
(***************************************************************************)
EXTENDS MarketplaceAccounts, PublishRules, ResourceMetrics, KeyRotation, SpotNodes,
        DailyReport, PipelineSteps, TLC

CONSTANT publisher

VARIABLE part

\* All uses of a client in one process.
OneHome == [u \in Uses |-> publisher]

\* Everything is low and the disk is not measured, or everything is high.
LowAndHigh == {[r \in Resources |-> IF r = "disk" THEN Missing ELSE 0],
               [r \in Resources |-> 3]}

\* A row of each of the two databases.
RowOfEach == {<<"ideas", 1>>, <<"published", 1>>}

MCInit ==
    /\ AccountInit /\ RulesInit /\ ResourceInit /\ KeyInit /\ SpotInit /\ ReportInit /\ StepsInit
    /\ part \in {"accounts", "rules", "metrics", "keys", "nodes", "report", "steps"}
    /\ part # "metrics" => backend = "sqlite"

MCNext ==
    \/ /\ part = "accounts" /\ AccountNext
       /\ UNCHANGED <<part, rulesVars, resourceVars, keyVars,
                      spotVars, reportVars, stepVars>>
    \/ /\ part = "rules" /\ RulesNext
       /\ UNCHANGED <<part, accountVars, resourceVars, keyVars,
                      spotVars, reportVars, stepVars>>
    \/ /\ part = "metrics" /\ ResourceNext
       /\ UNCHANGED <<part, accountVars, rulesVars, keyVars,
                      spotVars, reportVars, stepVars>>
    \/ /\ part = "keys" /\ KeyNext
       /\ UNCHANGED <<part, accountVars, rulesVars, resourceVars,
                      spotVars, reportVars, stepVars>>
    \/ /\ part = "nodes" /\ SpotNext
       /\ UNCHANGED <<part, accountVars, rulesVars, resourceVars,
                      keyVars, reportVars, stepVars>>
    \/ /\ part = "report" /\ ReportNext
       /\ UNCHANGED <<part, accountVars, rulesVars, resourceVars,
                      keyVars, spotVars, stepVars>>
    \/ /\ part = "steps" /\ StepsNext
       /\ UNCHANGED <<part, accountVars, rulesVars, resourceVars,
                      keyVars, spotVars, reportVars>>

MCSpec == MCInit /\ [][MCNext]_<<part, accountVars, rulesVars, resourceVars, keyVars, spotVars,
                                  reportVars, stepVars>>

\* Every variable of the seven modules keeps its type.
OperationsTypeOK ==
    /\ AccountTypeOK /\ RulesTypeOK /\ ResourceTypeOK /\ KeyTypeOK
    /\ SpotTypeOK /\ ReportTypeOK /\ StepsTypeOK

\* The configuration gives Uses, Calls, PipelineSignals and Instances the same model
\* values, and Rotators, Maintainers and Writers, as these parts share no state.
Symmetric == Permutations(Uses) \union Permutations(Rotators)
=============================================================================
