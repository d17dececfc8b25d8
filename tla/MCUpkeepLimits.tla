----------------------------- MODULE MCUpkeepLimits -----------------------------
(***************************************************************************)
(* A small instance of the parts of MCUpkeep and of a rate limiter, whose  *)
(* key comes and goes as the schedules do.  They share no state: a         *)
(* behaviour is about one of them.                                         *)
(***************************************************************************)
EXTENDS MCUpkeep, TokenBucket

upkeepVars == <<part, houseVars, syncVars, privacyVars>>

LimitsInit ==
    /\ HouseInit /\ SyncInit /\ PrivacyInit /\ \A l \in Listings : remote[l] = "active"
    /\ part = "limits"

UpkeepLimitsInit == Init /\ (MCInit \/ LimitsInit)

UpkeepLimitsNext ==
    \/ MCNext /\ UNCHANGED vars
    \/ part = "limits" /\ Next /\ UNCHANGED upkeepVars

\* The fairness of TokenBucket's FairSpec, for the behaviours that are about it.
LimitsGoOn ==
    /\ WF_vars(part = "limits" /\ Tick)
    /\ \A r \in Requests : WF_vars(part = "limits" /\ Acquire(r))

UpkeepLimitsSpec ==
    /\ UpkeepLimitsInit /\ [][UpkeepLimitsNext]_<<upkeepVars, vars>>
    /\ KeepersGoOn /\ SyncsGoOn /\ LimitsGoOn
=============================================================================
