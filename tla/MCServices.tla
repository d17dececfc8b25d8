------------------------------- MODULE MCServices -------------------------------
(***************************************************************************)
(* Small instances of the modules about the ingestion service, the         *)
(* gateway, the monitoring service, the feature flags and the dashboard's  *)
(* metrics.  Their states                                                  *)
(* are apart (an announced signal stores its keywords, which Trending lets *)
(* happen at any time), so a behaviour is about one of them.               *)
(***************************************************************************)
EXTENDS SignalIngestion, Trending, GatewayAccess, FeatureFlags, Alerts, MetricsCache,
        GatewayCache, LiveMetrics, TLC

CONSTANTS s1, s2

VARIABLE part

\* The page has one signal, and then the same one below a new one.
TwoVersions == << <<s1>>, <<s2, s1>> >>

signalVars == <<ingestVars, trendVars>>
monitorVars == <<alertVars, metricsVars>>
otherVars == <<gatewayCacheVars, liveVars>>

MCInit ==
    /\ IngestInit /\ TrendInit
    /\ AccessInit /\ FlagInit /\ AlertInit /\ MetricsInit /\ GatewayCacheInit /\ LiveInit
    /\ part \in {"signals", "keywords", "access", "flags", "alerts", "metrics", "cache", "live"}
    \* The configurations of the flags make no difference to another part.
    /\ part # "flags" => provided /\ env = [p \in Instances |-> Unset]

MCNext ==
    \/ /\ part = "signals" /\ IngestNext
       /\ UNCHANGED <<part, trendVars, accessVars, flagVars, monitorVars, otherVars>>
    \/ /\ part = "keywords" /\ TrendNext
       /\ UNCHANGED <<part, ingestVars, accessVars, flagVars, monitorVars, otherVars>>
    \/ /\ part = "access" /\ AccessNext
       /\ UNCHANGED <<part, signalVars, flagVars, monitorVars, otherVars>>
    \/ /\ part = "flags" /\ FlagNext
       /\ UNCHANGED <<part, signalVars, accessVars, monitorVars, otherVars>>
    \/ /\ part = "alerts" /\ AlertNext
       /\ UNCHANGED <<part, signalVars, accessVars, flagVars, metricsVars, otherVars>>
    \/ /\ part = "metrics" /\ MetricsNext
       /\ UNCHANGED <<part, signalVars, accessVars, flagVars, alertVars, otherVars>>
    \/ /\ part = "cache" /\ GatewayCacheNext
       /\ UNCHANGED <<part, signalVars, accessVars, flagVars, monitorVars, liveVars>>
    \/ /\ part = "live" /\ LiveNext
       /\ UNCHANGED <<part, signalVars, accessVars, flagVars, monitorVars, gatewayCacheVars>>

MCSpec == MCInit /\ [][MCNext]_<<part, signalVars, accessVars, flagVars, monitorVars,
                                  otherVars>>

\* Every variable of the module that a behaviour is about keeps its type.
ServicesTypeOK ==
    CASE part = "signals" -> IngestTypeOK
      [] part = "keywords" -> TrendTypeOK
      [] part = "access" -> AccessTypeOK
      [] part = "flags" -> FlagTypeOK
      [] part = "alerts" -> AlertTypeOK
      [] part = "metrics" -> MetricsTypeOK
      [] part = "cache" -> GatewayCacheTypeOK
      [] part = "live" -> LiveTypeOK

\* What is answered from a copy is out of date for a bounded time: a flag, a figure of
\* the monitoring service, a response of the gateway, what a page has been sent.
CachesSettle == FlagsSettle /\ FiguresCurrent /\ AnswersCurrent /\ PageCurrent

\* The configuration gives Workers, Instances, Replicas and Readers the same model
\* values, and Words and Gets, as these parts share no state.
Symmetric == Permutations(Workers)
=============================================================================
