------------------------------ MODULE PrivacyPurge ------------------------------
(***************************************************************************)
(* The purge of personal data from stored signals, by a job once a week    *)
(* and by administrators: a transaction reads rows, updates one after the  *)
(* other those whose content is not what purge_row makes of it, and holds  *)
(* their locks until it commits.  Purges read rows in no order, so they    *)
(* may wait for each other in a circle, which the database breaks.         *)
(***************************************************************************)
EXTENDS Naturals, FiniteSets

CONSTANTS
    StoredSignals,  \* ids of rows
    Purges,     \* transactions that purge
    Limits,     \* the limits that administrators give
    Unlimited, NoPurge

ASSUME PrivacyAssumption ==
    /\ IsFiniteSet(StoredSignals)
    /\ Limits \subseteq Nat /\ Unlimited \notin Nat /\ NoPurge \notin Purges

VARIABLES
    content,    \* of each row: none, raw, clean of what the patterns find, or expired
    lock,       \* the purge that has updated a row and not committed
    purge       \* each purge: its point, its limit, the raw rows it read, those left

privacyVars == <<content, lock, purge>>

NoPurging == [at |-> "idle", limit |-> Unlimited, found |-> {}, left |-> {}]

\* Rows of before the sanitizing, and of what it does not look into, are raw.
PrivacyInit ==
    /\ content = [r \in StoredSignals |-> "none"]
    /\ lock = [r \in StoredSignals |-> NoPurge]
    /\ purge = [p \in Purges |-> NoPurging]

InsertSignal(r, text) ==
    /\ content[r] = "none"
    /\ content' = [content EXCEPT ![r] = text]
    /\ UNCHANGED <<lock, purge>>

Raw(rows) == {r \in rows : content[r] = "raw"}
Stored == {r \in StoredSignals : content[r] \in {"raw", "clean"}}

\* The rows that a select without an order may read.
Selected(limit) ==
    IF limit = Unlimited \/ limit >= Cardinality(Stored) THEN {Stored}
    ELSE {rows \in SUBSET Stored : Cardinality(rows) = limit}

\* An administrator may give a limit, the weekly job has none.
AskedWith == Limits \union {Unlimited}

\* purge_pii reads what is committed ...
SelectSignals(p, limit) ==
    /\ purge[p].at \in {"idle", "purged", "failed"}
    /\ \E rows \in Selected(limit) :
         purge' = [purge EXCEPT ![p] = [at |-> "update", limit |-> limit,
                                        found |-> Raw(rows), left |-> Raw(rows)]]
    /\ UNCHANGED <<content, lock>>

\* ... updates each row that purge_row changes, when no other purge holds its lock ...
UpdateSignal(p, r) ==
    /\ purge[p].at = "update" /\ r \in purge[p].left
    /\ lock[r] = NoPurge
    /\ purge' = [purge EXCEPT ![p].left = @ \ {r}]
    /\ lock' = IF r \in Stored THEN [lock EXCEPT ![r] = p] ELSE lock
    /\ UNCHANGED content

Locked(p) == {r \in StoredSignals : lock[r] = p}
Unlocked(p) == [r \in StoredSignals |-> IF lock[r] = p THEN NoPurge ELSE lock[r]]

\* ... and commits all of it.
CommitPurge(p) ==
    /\ purge[p].at = "update" /\ purge[p].left = {}
    /\ content' = [r \in StoredSignals |-> IF r \in Locked(p) THEN "clean" ELSE content[r]]
    /\ lock' = Unlocked(p)
    /\ purge' = [purge EXCEPT ![p].at = "purged"]

\* The transaction is rolled back: the process is killed or the database goes away ...
PurgeFails(p) ==
    /\ purge[p].at = "update"
    /\ lock' = Unlocked(p) /\ purge' = [purge EXCEPT ![p] = [NoPurging EXCEPT !.at = "failed"]]
    /\ UNCHANGED content

\* The purges that a purge waits for.
WaitsFor(p) ==
    IF purge[p].at = "update" /\ purge[p].left # {} /\ \A r \in purge[p].left : lock[r] # NoPurge
    THEN {lock[r] : r \in purge[p].left} ELSE {}

\* ... or the database ends a circle of two that wait for each other.
BreakDeadlock(p) ==
    /\ \E q \in WaitsFor(p) : p \in WaitsFor(q)
    /\ PurgeFails(p)

\* Retention deletes an old row, when no purge holds its lock.
ExpireSignal(r) ==
    /\ r \in Stored /\ lock[r] = NoPurge
    /\ content' = [content EXCEPT ![r] = "expired"]
    /\ UNCHANGED <<lock, purge>>

PrivacyNext ==
    \/ \E r \in StoredSignals : \/ InsertSignal(r, "raw") \/ InsertSignal(r, "clean")
                                \/ ExpireSignal(r)
    \/ \E p \in Purges :
         \/ \E limit \in AskedWith : SelectSignals(p, limit)
         \/ \E r \in StoredSignals : UpdateSignal(p, r)
         \/ CommitPurge(p) \/ PurgeFails(p) \/ BreakDeadlock(p)

PrivacySpec == PrivacyInit /\ [][PrivacyNext]_privacyVars

-----------------------------------------------------------------------------
PrivacyTypeOK ==
    /\ content \in [StoredSignals -> {"none", "raw", "clean", "expired"}]
    /\ lock \in [StoredSignals -> Purges \union {NoPurge}]
    /\ purge \in [Purges -> [at : {"idle", "update", "purged", "failed"},
                             limit : AskedWith,
                             found : SUBSET StoredSignals, left : SUBSET StoredSignals]]

\* A purge that is over has left nothing raw of what it read, whichever of those rows
\* other purges held, were killed over or cleaned, or retention deleted meanwhile.
PurgeSound == \A p \in Purges : purge[p].at = "purged" => Raw(purge[p].found) = {}
=============================================================================
