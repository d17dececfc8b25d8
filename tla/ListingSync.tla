------------------------------- MODULE ListingSync -------------------------------
(***************************************************************************)
(* The states of listings, which runs of a script copy from the            *)
(* marketplace, one transaction a run, and which administrators edit.  A   *)
(* listing that was removed or flagged is paged about before the commit.   *)
(* A page that PagerDuty does not take is not sent again, and is counted.  *)
(***************************************************************************)
EXTENDS Naturals, FiniteSets

CONSTANTS
    Listings,
    Syncs,          \* who runs the script: its own scheduler, the orchestrator
    ListingStates,  \* states of a listing
    Alarming,       \* those that somebody is paged about
    MaxChanges,     \* bound on changes by the marketplace and on edits
    MaxFaults,      \* bound on fetches that fail and runs that are killed
    Unread          \* no state was read

ASSUME SyncAssumption ==
    /\ Alarming \subseteq ListingStates /\ Unread \notin ListingStates
    /\ IsFiniteSet(Listings) /\ MaxChanges \in Nat /\ MaxFaults \in Nat

VARIABLES
    remote,     \* the state of each listing at the marketplace
    local,      \* its state in the database
    sync,       \* each run: the states it read, the listings left, what it writes
    changes, faults,
    paged,      \* history: what somebody was paged about
    copied      \* history: the listings whose state a run wrote last

syncVars == <<remote, local, sync, changes, faults, paged, copied>>

NoRun == [going |-> FALSE, read |-> [l \in Listings |-> Unread],
          writes |-> [l \in Listings |-> Unread], left |-> {}]

SyncInit ==
    /\ \E v \in ListingStates : remote = [l \in Listings |-> v] /\ local = remote
    /\ sync = [s \in Syncs |-> NoRun]
    /\ changes = 0 /\ faults = 0 /\ paged = {} /\ copied = {}

\* session.query(Listing).all()
ReadListings(s) ==
    /\ ~sync[s].going
    /\ sync' = [sync EXCEPT ![s] = [NoRun EXCEPT !.going = TRUE, !.read = local,
                                                !.left = Listings]]
    /\ UNCHANGED <<remote, local, changes, faults, paged, copied>>

\* The next listing: its state at the marketplace is compared with the one read.
FetchState(s, l, pages) ==
    LET differs == remote[l] # sync[s].read[l]
    IN  /\ l \in sync[s].left
        /\ sync' = [sync EXCEPT ![s].left = @ \ {l},
                               ![s].writes[l] = IF differs THEN remote[l] ELSE Unread]
        /\ paged' = IF differs /\ remote[l] \in pages
                    THEN paged \union {<<l, remote[l]>>} ELSE paged
        /\ UNCHANGED <<remote, local, changes, faults, copied>>

\* Slip: a state that was set before is not paged about again, nor written.
FetchOnce(s, l) ==
    IF sync[s].read[l] \in Alarming
    THEN /\ l \in sync[s].left
         /\ sync' = [sync EXCEPT ![s].left = @ \ {l}]
         /\ UNCHANGED <<remote, local, changes, faults, paged, copied>>
    ELSE FetchState(s, l, Alarming)

Fetch(s, l) == FetchState(s, l, Alarming)

\* The marketplace does not answer, and the listing is passed over.
FetchFails(s, l) ==
    /\ faults < MaxFaults /\ faults' = faults + 1
    /\ l \in sync[s].left
    /\ sync' = [sync EXCEPT ![s].left = @ \ {l}]
    /\ UNCHANGED <<remote, local, changes, paged, copied>>

\* Slip: what a listing that was passed over was left with is written too.
CommitAll(s) ==
    /\ sync[s].going /\ sync[s].left = {}
    /\ local' = sync[s].writes /\ copied' = Listings
    /\ sync' = [sync EXCEPT ![s] = NoRun]
    /\ UNCHANGED <<remote, changes, faults, paged>>

\* Only the states that differed are written.
CommitStates(s) ==
    LET writes == sync[s].writes
        written == {l \in Listings : writes[l] # Unread}
    IN  /\ sync[s].going /\ sync[s].left = {}
        /\ local' = [l \in Listings |-> IF l \in written THEN writes[l] ELSE local[l]]
        /\ copied' = copied \union written
        /\ sync' = [sync EXCEPT ![s] = NoRun]
        /\ UNCHANGED <<remote, changes, faults, paged>>

KillSync(s) ==
    /\ sync[s].going
    /\ faults < MaxFaults /\ faults' = faults + 1
    /\ sync' = [sync EXCEPT ![s] = NoRun]
    /\ UNCHANGED <<remote, local, changes, paged, copied>>

Change == changes < MaxChanges /\ changes' = changes + 1

RemoteChanges(l, v) ==
    /\ Change /\ v # remote[l]
    /\ remote' = [remote EXCEPT ![l] = v]
    /\ UNCHANGED <<local, sync, faults, paged, copied>>

\* patch_listing, update_listing: whatever the state was.
PatchListing(l, v) ==
    /\ Change
    /\ local' = [local EXCEPT ![l] = v] /\ copied' = copied \ {l}
    /\ UNCHANGED <<remote, sync, faults, paged>>

SyncNext ==
    \/ \E s \in Syncs :
         \/ ReadListings(s) \/ CommitStates(s) \/ KillSync(s)
         \/ \E l \in Listings : Fetch(s, l) \/ FetchFails(s, l)
    \/ \E l \in Listings, v \in ListingStates : RemoteChanges(l, v) \/ PatchListing(l, v)

SyncSpec == SyncInit /\ [][SyncNext]_syncVars

-----------------------------------------------------------------------------
SyncTypeOK ==
    /\ remote \in [Listings -> ListingStates] /\ local \in [Listings -> ListingStates]
    /\ \A s \in Syncs :
         /\ sync[s].read \in [Listings -> ListingStates \union {Unread}]
         /\ sync[s].writes \in [Listings -> ListingStates \union {Unread}]
         /\ sync[s].left \subseteq Listings /\ sync[s].going \in BOOLEAN
    /\ changes \in 0 .. MaxChanges /\ faults \in 0 .. MaxFaults
    /\ paged \subseteq Listings \X Alarming /\ copied \subseteq Listings

\* Somebody was paged about every listing that a run has taken to an alarming state,
\* wherever it or another run was killed, and whatever was edited meanwhile.
IssuesPaged == \A l \in copied : local[l] \in Alarming => <<l, local[l]>> \in paged

\* Once the marketplace and the administrators leave the listings alone, they come
\* to have the states of the marketplace and keep them, although a slow run may
\* write a state that it fetched long ago.
ListingsConverge == <>[](local = remote)

\* Nobody misses an alarming state, and no listing keeps a state that is not the
\* marketplace's.
ListingsKept == []IssuesPaged /\ ListingsConverge
=============================================================================
