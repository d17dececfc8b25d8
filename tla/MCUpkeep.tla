------------------------------- MODULE MCUpkeep -------------------------------
(***************************************************************************)
(* Small instances of the modules about what is done again and again until *)
(* it has succeeded: housekeeping, the sync of listings and the purge of   *)
(* personal data.  They share no state: a behaviour is about one of them.  *)
(***************************************************************************)
EXTENDS Housekeeping, ListingSync, PrivacyPurge

VARIABLE part

\* One of the initial states of ListingSync is enough for the other parts.
MCInit ==
    /\ HouseInit /\ SyncInit /\ PrivacyInit
    /\ part \in {"house", "sync", "privacy"}
    /\ part # "sync" => \A l \in Listings : remote[l] = "active"

MCNext ==
    \/ part = "house" /\ HouseNext /\ UNCHANGED <<part, syncVars, privacyVars>>
    \/ part = "sync" /\ SyncNext /\ UNCHANGED <<part, houseVars, privacyVars>>
    \/ part = "privacy" /\ PrivacyNext /\ UNCHANGED <<part, houseVars, syncVars>>

\* The schedules start every job of the housekeeping again and again; a process
\* that is killed is started again, and the job that purges what is stale is not
\* killed for ever before its first statement.
KeepersGoOn ==
    /\ \A k \in Keepers :
        /\ WF_houseVars(part = "house" /\ StartKeeping(k))
        /\ WF_houseVars(part = "house" /\ KeepStep(k))
    /\ SF_houseVars(part = "house" /\ Purge("stale", "signals"))

\* Both runners start the script again and again, and a run of it goes on.
SyncsGoOn ==
    \A s \in Syncs :
        /\ WF_syncVars(part = "sync" /\ ReadListings(s))
        /\ WF_syncVars(part = "sync" /\ CommitStates(s))
        /\ \A l \in Listings : WF_syncVars(part = "sync" /\ Fetch(s, l))

MCSpec ==
    /\ MCInit /\ [][MCNext]_<<part, houseVars, syncVars, privacyVars>>
    /\ KeepersGoOn /\ SyncsGoOn

\* Every variable of the three modules keeps its type.
UpkeepTypeOK == HouseTypeOK /\ SyncTypeOK /\ PrivacyTypeOK

\* Nothing that was to go stays: signals that are old are purged in the end, though
\* other purges of the same job fail; and a purge of personal data that is over has left
\* none in the rows it read, though others locked, lost or deleted them.
PurgesComplete == SignalsPurged /\ []PurgeSound
=============================================================================
