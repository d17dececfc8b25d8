------------------------------ MODULE UpkeepProofs ------------------------------
(***************************************************************************)
(* Proofs about what is done again and again until it has succeeded, for   *)
(* any number of mockups, keepers, listings, runs of the sync, signals and *)
(* purges: what is archived is kept, what is alarming is paged about, and  *)
(* a purge that is over has left nothing of what it read.                  *)
(***************************************************************************)
EXTENDS MCUpkeep, FiniteSetTheorems, TLAPS

-----------------------------------------------------------------------------
(***************************************************************************)
(* Housekeeping.                                                           *)
(***************************************************************************)

Chores == {"mockups", "signals", "logs", "audit", "objects"}

KeeperPoints == {"start", "look", "unlink"} \union Mockups

KeeperShape == [left : Seq(Chores), at : KeeperPoints, todo : SUBSET Mockups, done : SUBSET Mockups]

\* What a keeper has ticked off is in cold storage, which nothing ever leaves.
DoneIsCold == \A k \in Keepers : \A m \in keeper[k].done : images[m] = "cold"

HouseInv ==
    /\ images \in [Mockups -> {"file", "cold"}]
    /\ kept \subseteq Mockups
    /\ keeper \in [Keepers -> KeeperShape]
    /\ DoneIsCold
    /\ ArchivedKept

\* A keeper that has something else to look at.
LEMMA KeeperWith ==
    ASSUME NEW q \in KeeperShape, NEW todo \in SUBSET Mockups, NEW at \in KeeperPoints,
           NEW done \in SUBSET Mockups
    PROVE  /\ [q EXCEPT !.todo = todo, !.at = at, !.done = done] \in KeeperShape
           /\ [q EXCEPT !.todo = todo, !.at = at, !.done = done].done = done
  BY DEF KeeperShape

USE DEF HouseInv, DoneIsCold, ArchivedKept, KeeperShape, KeeperPoints

-----------------------------------------------------------------------------

LEMMA RestingShape == Resting \in KeeperShape /\ Resting.done = {}
  BY DEF Resting, Chores

LEMMA PlanShape == \A k \in Keepers : Plan[k] \in Seq(Chores)
<1>1. /\ Plan["archive"] = <<"mockups">> /\ Plan["stale"] = <<"signals", "logs">>
      /\ Plan["audit"] = <<"audit">>
      /\ Plan["cleanup"] = <<"mockups", "signals", "logs", "objects">>
      /\ Plan["admin"] = <<"mockups", "signals", "logs">>
      /\ DOMAIN Plan = {"archive", "stale", "audit", "cleanup", "admin"}
  BY DEF Plan
<1>2. /\ <<"mockups">> \in Seq(Chores) /\ <<"signals", "logs">> \in Seq(Chores)
      /\ <<"audit">> \in Seq(Chores) /\ <<"mockups", "signals", "logs">> \in Seq(Chores)
  BY DEF Chores
<1>3. <<"mockups", "signals", "logs", "objects">> \in Seq(Chores)
  BY DEF Chores
<1> QED
  BY <1>1, <1>2, <1>3, HouseAssumption

\* To go to the next step, or to give up, disturbs no image and no row.
LEMMA NextStepInv ==
    ASSUME HouseInv, NEW k \in Keepers, keeper[k].left # <<>>, NextStep(k) \/ RaiseIn(k),
           UNCHANGED <<images, kept, listed>>
    PROVE  HouseInv'
<1>1. Tail(keeper[k].left) \in Seq(Chores)
  OBVIOUS
<1>2. \E rest \in KeeperShape : rest.done = {} /\ keeper' = [keeper EXCEPT ![k] = rest]
  BY <1>1, RestingShape DEF NextStep, RaiseIn, Resting
<1> QED
  BY <1>2

-----------------------------------------------------------------------------

LEMMA HouseInitOK == HouseInit => HouseInv
  BY RestingShape DEF HouseInit

\* So does a keeper that ticks off what is in cold storage.
LEMMA KeeperMoves ==
    ASSUME HouseInv, NEW k \in Keepers, NEW rest \in KeeperShape,
           \A o \in rest.done : o \in keeper[k].done \/ images[o] = "cold",
           keeper' = [keeper EXCEPT ![k] = rest], UNCHANGED <<images, kept, listed>>
    PROVE  HouseInv'
<1>1. keeper' \in [Keepers -> KeeperShape] /\ DoneIsCold'
  OBVIOUS
<1> QED
  BY <1>1

LEMMA KeepStepInv ==
    ASSUME HouseInv, NEW k \in Keepers, KeepStep(k)
    PROVE  HouseInv'
<1>k. keeper[k] \in KeeperShape
  OBVIOUS
<1>1. CASE FindOld(k)
  <2> DEFINE rest == [keeper[k] EXCEPT !.at = "look", !.todo = kept \intersect yearOld]
  <2>1. keeper' = [keeper EXCEPT ![k] = rest] /\ UNCHANGED <<images, kept, listed>>
    BY <1>1 DEF FindOld, mockupTable
  <2>2. kept \intersect yearOld \subseteq Mockups
    OBVIOUS
  <2>3. rest \in KeeperShape /\ rest.done = keeper[k].done
    BY <1>k, <2>2
  <2> HIDE DEF rest
  <2> QED
    BY <2>1, <2>3, KeeperMoves
<1>2. ASSUME NEW m \in Mockups, LookAt(k, m) PROVE HouseInv'
  <2>1. CASE images[m] = "file"
    <3> DEFINE rest == [keeper[k] EXCEPT !.todo = keeper[k].todo \ {m}, !.at = m,
                                         !.done = keeper[k].done]
    <3>1. m \in KeeperPoints /\ keeper[k].todo \ {m} \in SUBSET Mockups
          /\ keeper[k].done \in SUBSET Mockups
      BY <1>k DEF KeeperPoints
    <3>2. rest \in KeeperShape /\ rest.done = keeper[k].done
      BY <1>k, <3>1, KeeperWith
    <3>3. keeper' = [keeper EXCEPT ![k] = rest] /\ UNCHANGED <<images, kept, listed>>
      BY <1>2, <2>1 DEF LookAt, mockupTable
    <3> HIDE DEF rest
    <3> QED
      BY <3>2, <3>3, KeeperMoves
  <2>2. CASE images[m] = "cold"
    <3> DEFINE rest == [keeper[k] EXCEPT !.todo = @ \ {m}, !.at = "look", !.done = @ \union {m}]
    <3>1. keeper' = [keeper EXCEPT ![k] = rest] /\ UNCHANGED <<images, kept, listed>>
      BY <1>2, <2>2, <1>k DEF LookAt, mockupTable
    <3>2. rest \in KeeperShape /\ rest.done = keeper[k].done \union {m}
      BY <1>k
    <3> HIDE DEF rest
    <3> QED
      BY <2>2, <3>1, <3>2, KeeperMoves
  <2> QED
    BY <2>1, <2>2
<1>3. ASSUME NEW m \in Mockups, MoveImage(k, m) PROVE HouseInv'
  <2>1. /\ images' \in [Mockups -> {"file", "cold"}]
        /\ images'[m] = "cold"
        /\ \A o \in Mockups : images[o] = "cold" => images'[o] = "cold"
    BY <1>3 DEF MoveImage
  <2>2. \E rest \in KeeperShape :
          /\ rest.done \subseteq keeper[k].done \union {m}
          /\ keeper' = [keeper EXCEPT ![k] = rest]
    BY <1>3, RestingShape DEF MoveImage, RaiseIn
  <2> QED
    BY <1>3, <2>1, <2>2 DEF MoveImage, mockupTable
<1>4. CASE DeleteArchived(k)
  <2>1. CASE listed \intersect keeper[k].done = {}
    <3>1. kept' = kept \ keeper[k].done /\ NextStep(k) /\ UNCHANGED <<images, listed>>
      BY <1>4, <2>1 DEF DeleteArchived
    <3>2. Tail(keeper[k].left) \in Seq(Chores)
      BY <1>4 DEF DeleteArchived, Doing
    <3>3. keeper' \in [Keepers -> KeeperShape] /\ DoneIsCold'
      BY <3>1, <3>2, RestingShape DEF NextStep, Resting
    <3> QED
      BY <2>1, <3>1, <3>3
  <2>2. CASE listed \intersect keeper[k].done # {}
    BY <1>4, <2>2, NextStepInv DEF DeleteArchived, Doing
  <2> QED
    BY <2>1, <2>2
<1>5. ASSUME NEW what, Purge(k, what) PROVE HouseInv'
  BY <1>5, NextStepInv DEF Purge, Doing, mockupTable
<1>6. CASE FindLogs(k)
  <2>1. CASE "logs" \in outdated
    <3> DEFINE rest == [keeper[k] EXCEPT !.at = "unlink"]
    <3>1. keeper' = [keeper EXCEPT ![k] = rest] /\ UNCHANGED <<images, kept, listed>>
      BY <1>6, <2>1 DEF FindLogs, mockupTable
    <3>2. rest \in KeeperShape /\ rest.done = keeper[k].done
      BY <1>k
    <3> HIDE DEF rest
    <3> QED
      BY <3>1, <3>2, KeeperMoves
  <2>2. CASE "logs" \notin outdated
    BY <1>6, <2>2, NextStepInv DEF FindLogs, Doing, mockupTable
  <2> QED
    BY <2>1, <2>2
<1>7. CASE UnlinkLogs(k)
  <2>1. keeper[k].left # <<>> /\ (NextStep(k) \/ RaiseIn(k)) /\ UNCHANGED <<images, kept, listed>>
    BY <1>7 DEF UnlinkLogs, Doing, mockupTable
  <2> QED
    BY <2>1, NextStepInv
<1> QED
  BY <1>1, <1>2, <1>3, <1>4, <1>5, <1>6, <1>7 DEF KeepStep

LEMMA HouseNextOK == HouseInv /\ [HouseNext]_houseVars => HouseInv'
<1> SUFFICES ASSUME HouseInv, [HouseNext]_houseVars PROVE HouseInv'
  OBVIOUS
<1>1. ASSUME NEW k \in Keepers, StartKeeping(k) PROVE HouseInv'
  <2> DEFINE rest == [keeper[k] EXCEPT !.left = Plan[k]]
  <2>1. keeper' = [keeper EXCEPT ![k] = rest] /\ UNCHANGED <<images, kept, listed>>
    BY <1>1 DEF StartKeeping, mockupTable
  <2>2. keeper[k] \in KeeperShape
    OBVIOUS
  <2>3. rest \in KeeperShape /\ rest.done = keeper[k].done
    BY <2>2, PlanShape
  <2> HIDE DEF rest
  <2> QED
    BY <2>1, <2>3, KeeperMoves
<1>2. ASSUME NEW k \in Keepers, StopKeeping(k) PROVE HouseInv'
  BY <1>2, NextStepInv DEF StopKeeping, mockupTable
<1>3. ASSUME NEW m \in Mockups, GrowOld(m) \/ GetListed(m) PROVE HouseInv'
  <2>1. /\ UNCHANGED <<images, kept, keeper>>
        /\ \A o \in Mockups : o \in listed' => o \in listed \/ o \in kept
    BY <1>3 DEF GrowOld, GetListed
  <2> QED
    BY <2>1
<1>4. ASSUME NEW what \in Purged, Outdate(what) PROVE HouseInv'
  BY <1>4 DEF Outdate, mockupTable
<1>5. CASE UNCHANGED houseVars
  BY <1>5 DEF houseVars
<1> QED
  BY <1>1, <1>2, <1>3, <1>4, <1>5, KeepStepInv DEF HouseNext

\* A mockup that has lost its row has its image in cold storage and no listing, for
\* any number of mockups and keepers, wherever a keeper is killed.
THEOREM ArchivedKeptHolds == HouseSpec => []ArchivedKept
<1>1. HouseSpec => []HouseInv
  BY HouseInitOK, HouseNextOK, PTL DEF HouseSpec
<1>2. HouseInv => ArchivedKept
  OBVIOUS
<1> QED
  BY <1>1, <1>2, PTL

\* The rows there are, those that are old and what there is to purge are of those named.
HouseSets == yearOld \subseteq Mockups /\ listed \subseteq Mockups /\ outdated \subseteq Purged

LEMMA HouseSetsNextOK == HouseSets /\ [HouseNext]_houseVars => HouseSets'
<1> SUFFICES ASSUME HouseSets, [HouseNext]_houseVars PROVE HouseSets'
  OBVIOUS
<1>1. ASSUME NEW k \in Keepers, KeepStep(k) PROVE HouseSets'
  <2>1. UNCHANGED <<yearOld, listed>> /\ outdated' \subseteq outdated
    BY <1>1 DEF KeepStep, FindOld, DeleteArchived, FindLogs, UnlinkLogs, LookAt, MoveImage, Purge,
                mockupTable
  <2> QED
    BY <2>1 DEF HouseSets
<1>2. ASSUME NEW k \in Keepers, StartKeeping(k) \/ StopKeeping(k) PROVE HouseSets'
  BY <1>2 DEF StartKeeping, StopKeeping, mockupTable, HouseSets
<1>3. ASSUME NEW m \in Mockups, GrowOld(m) \/ GetListed(m) PROVE HouseSets'
  BY <1>3 DEF GrowOld, GetListed, HouseSets
<1>4. ASSUME NEW what \in Purged, Outdate(what) PROVE HouseSets'
  BY <1>4 DEF Outdate, mockupTable, HouseSets
<1>5. CASE UNCHANGED houseVars
  BY <1>5 DEF houseVars, HouseSets
<1> QED
  BY <1>1, <1>2, <1>3, <1>4, <1>5 DEF HouseNext

LEMMA HouseTyped == HouseInv /\ HouseSets => HouseTypeOK
  BY DEF HouseTypeOK, HouseSets

HIDE DEF HouseInv, DoneIsCold, ArchivedKept, KeeperShape, KeeperPoints

-----------------------------------------------------------------------------
(***************************************************************************)
(* The sync of listings.                                                   *)
(***************************************************************************)

StatesRead == [Listings -> ListingStates \union {Unread}]

SyncShape == [going : BOOLEAN, read : StatesRead, writes : StatesRead, left : SUBSET Listings]

\* Whatever a run is going to write was paged about, if it is alarming.
WritesPaged(q) == \A l \in Listings : q.writes[l] \in Alarming => <<l, q.writes[l]>> \in paged

SyncInv ==
    /\ remote \in [Listings -> ListingStates] /\ local \in [Listings -> ListingStates]
    /\ sync \in [Syncs -> SyncShape]
    /\ changes \in 0 .. MaxChanges /\ faults \in 0 .. MaxFaults
    /\ paged \subseteq Listings \X Alarming /\ copied \subseteq Listings
    /\ \A s \in Syncs : WritesPaged(sync[s])
    /\ IssuesPaged

LEMMA NoRunShape == NoRun \in SyncShape /\ \A l \in Listings : NoRun.writes[l] = Unread
  BY DEF NoRun, SyncShape, StatesRead

LEMMA NothingToPage == ASSUME NEW q, \A l \in Listings : q.writes[l] = Unread PROVE WritesPaged(q)
  BY SyncAssumption DEF WritesPaged

LEMMA SyncInitOK == SyncInit => SyncInv
<1> SUFFICES ASSUME SyncInit PROVE SyncInv
  OBVIOUS
<1>1. remote \in [Listings -> ListingStates] /\ local \in [Listings -> ListingStates]
  BY DEF SyncInit
<1>2. sync \in [Syncs -> SyncShape] /\ \A s \in Syncs : WritesPaged(sync[s])
  BY NoRunShape, NothingToPage DEF SyncInit
<1>3. changes \in 0 .. MaxChanges /\ faults \in 0 .. MaxFaults
  BY SyncAssumption DEF SyncInit
<1>4. paged = {} /\ copied = {}
  BY DEF SyncInit
<1> QED
  BY <1>1, <1>2, <1>3, <1>4 DEF SyncInv, IssuesPaged

\* One run goes on, and no more is forgotten of what was paged about.
LEMMA SyncMoves ==
    ASSUME SyncInv, NEW s \in Syncs, NEW q \in SyncShape, sync' = [sync EXCEPT ![s] = q],
           paged \subseteq paged', paged' \subseteq Listings \X Alarming,
           \A l \in Listings : q.writes[l] \in Alarming => <<l, q.writes[l]>> \in paged'
    PROVE  /\ sync' \in [Syncs -> SyncShape] /\ paged' \subseteq Listings \X Alarming
           /\ (\A p \in Syncs : WritesPaged(sync[p]))'
<1>1. sync' \in [Syncs -> SyncShape]
  BY DEF SyncInv
<1>2. ASSUME NEW p \in Syncs, NEW l \in Listings, sync'[p].writes[l] \in Alarming
      PROVE  <<l, sync'[p].writes[l]>> \in paged'
  <2>1. CASE p = s
    BY <1>2, <2>1 DEF SyncInv
  <2>2. CASE p # s
    <3>1. sync'[p] = sync[p]
      BY <2>2 DEF SyncInv
    <3>2. <<l, sync[p].writes[l]>> \in paged
      BY <1>2, <3>1 DEF SyncInv, WritesPaged
    <3> QED
      BY <3>1, <3>2
  <2> QED
    BY <2>1, <2>2
<1> QED
  BY <1>1, <1>2 DEF WritesPaged

LEMMA RunStays ==
    ASSUME SyncInv, UNCHANGED <<sync, paged>>
    PROVE  /\ sync' \in [Syncs -> SyncShape] /\ paged' \subseteq Listings \X Alarming
           /\ (\A p \in Syncs : WritesPaged(sync[p]))'
  BY DEF SyncInv, WritesPaged

LEMMA RowsStay ==
    ASSUME SyncInv, UNCHANGED <<local, copied>>, paged \subseteq paged'
    PROVE  /\ local' \in [Listings -> ListingStates] /\ copied' \subseteq Listings
           /\ IssuesPaged'
  BY DEF SyncInv, IssuesPaged

\* A run that has passed over a listing, or is over.
LEMMA PassOver ==
    ASSUME NEW q \in SyncShape, NEW l
    PROVE  [q EXCEPT !.left = @ \ {l}] \in SyncShape
           /\ [q EXCEPT !.left = @ \ {l}].writes = q.writes
  BY DEF SyncShape

\* A run that has fetched the state of a listing.
LEMMA HasFetched ==
    ASSUME NEW q \in SyncShape, NEW l \in Listings, NEW v \in ListingStates \union {Unread}
    PROVE  /\ [q EXCEPT !.left = @ \ {l}, !.writes[l] = v] \in SyncShape
           /\ [q EXCEPT !.left = @ \ {l}, !.writes[l] = v].writes = [q.writes EXCEPT ![l] = v]
  BY DEF SyncShape, StatesRead

LEMMA FetchInv ==
    ASSUME SyncInv, NEW s \in Syncs, NEW l \in Listings, Fetch(s, l)
    PROVE  SyncInv'
<1> DEFINE v == IF remote[l] # sync[s].read[l] THEN remote[l] ELSE Unread
           q == [sync[s] EXCEPT !.left = @ \ {l}, !.writes[l] = v]
<1>1. sync[s] \in SyncShape /\ remote[l] \in ListingStates /\ v \in ListingStates \union {Unread}
  BY DEF SyncInv
<1>2. /\ sync' = [sync EXCEPT ![s] = q]
      /\ paged' = IF remote[l] # sync[s].read[l] /\ remote[l] \in Alarming
                  THEN paged \union {<<l, remote[l]>>} ELSE paged
      /\ UNCHANGED <<remote, local, changes, faults, copied>>
  BY DEF Fetch, FetchState
<1>3. v \in Alarming => <<l, v>> \in paged'
  BY <1>2, SyncAssumption
<1>4. paged \subseteq paged' /\ paged' \subseteq Listings \X Alarming
  BY <1>2 DEF SyncInv
<1>5. WritesPaged(sync[s])
  BY DEF SyncInv
<1> HIDE DEF v
<1>6. q \in SyncShape /\ q.writes = [sync[s].writes EXCEPT ![l] = v]
  BY <1>1, HasFetched
<1>7. sync[s].writes \in StatesRead
  BY <1>1 DEF SyncShape
<1> HIDE DEF q
<1>8. \A k \in Listings : q.writes[k] \in Alarming => <<k, q.writes[k]>> \in paged'
  BY <1>3, <1>4, <1>5, <1>6, <1>7 DEF WritesPaged, StatesRead
<1>9. /\ sync' \in [Syncs -> SyncShape] /\ paged' \subseteq Listings \X Alarming
      /\ (\A p \in Syncs : WritesPaged(sync[p]))'
  BY <1>2, <1>4, <1>6, <1>8, SyncMoves
<1>10. /\ local' \in [Listings -> ListingStates] /\ copied' \subseteq Listings
       /\ IssuesPaged'
  BY <1>2, <1>4, RowsStay
<1> QED
  BY <1>2, <1>9, <1>10 DEF SyncInv

LEMMA CommitInv ==
    ASSUME SyncInv, NEW s \in Syncs, CommitStates(s)
    PROVE  SyncInv'
<1> DEFINE writes == sync[s].writes
           written == {l \in Listings : writes[l] # Unread}
<1>1. /\ local' = [l \in Listings |-> IF l \in written THEN writes[l] ELSE local[l]]
      /\ copied' = copied \union written
      /\ sync' = [sync EXCEPT ![s] = NoRun]
      /\ UNCHANGED <<remote, changes, faults, paged>>
  BY DEF CommitStates
<1>2. sync[s] \in SyncShape /\ writes \in StatesRead /\ WritesPaged(sync[s])
  BY DEF SyncInv, SyncShape
<1>3. paged \subseteq Listings \X Alarming /\ copied \subseteq Listings /\ IssuesPaged
      /\ local \in [Listings -> ListingStates]
  BY DEF SyncInv
<1>4. \A l \in Listings : writes[l] \in Alarming => <<l, writes[l]>> \in paged
  BY <1>2 DEF WritesPaged
<1>5. /\ sync' \in [Syncs -> SyncShape] /\ paged' \subseteq Listings \X Alarming
      /\ (\A p \in Syncs : WritesPaged(sync[p]))'
  BY <1>1, <1>3, NoRunShape, SyncAssumption, SyncMoves
<1> HIDE DEF writes
<1>6. local' \in [Listings -> ListingStates] /\ copied' \subseteq Listings
  BY <1>1, <1>2, <1>3 DEF StatesRead
<1>7. IssuesPaged'
  BY <1>1, <1>3, <1>4 DEF IssuesPaged
<1> QED
  BY <1>1, <1>5, <1>6, <1>7 DEF SyncInv

LEMMA SyncNextOK == SyncInv /\ [SyncNext]_syncVars => SyncInv'
<1> SUFFICES ASSUME SyncInv, [SyncNext]_syncVars PROVE SyncInv'
  OBVIOUS
<1>n. changes \in Nat /\ faults \in Nat /\ changes <= MaxChanges /\ faults <= MaxFaults
      /\ MaxChanges \in Nat /\ MaxFaults \in Nat
  BY SyncAssumption DEF SyncInv
<1>1. ASSUME NEW s \in Syncs, ReadListings(s) PROVE SyncInv'
  <2> DEFINE q == [NoRun EXCEPT !.going = TRUE, !.read = local, !.left = Listings]
  <2>1. sync' = [sync EXCEPT ![s] = q] /\ UNCHANGED <<remote, local, changes, faults, paged, copied>>
    BY <1>1 DEF ReadListings
  <2>2. local \in StatesRead
    BY DEF SyncInv, StatesRead
  <2>3. q \in SyncShape /\ q.writes = NoRun.writes
    BY <2>2, NoRunShape DEF SyncShape
  <2> HIDE DEF q
  <2>4. /\ sync' \in [Syncs -> SyncShape] /\ paged' \subseteq Listings \X Alarming
        /\ (\A p \in Syncs : WritesPaged(sync[p]))'
    <3>1. \A l \in Listings : q.writes[l] \notin Alarming
      BY <2>3, NoRunShape, SyncAssumption
    <3>2. paged \subseteq Listings \X Alarming
      BY DEF SyncInv
    <3> QED
      BY <2>1, <2>3, <3>1, <3>2, SyncMoves
  <2>5. /\ local' \in [Listings -> ListingStates] /\ copied' \subseteq Listings
        /\ IssuesPaged'
    BY <2>1, RowsStay
  <2> QED
    BY <2>1, <2>4, <2>5 DEF SyncInv
<1>2. ASSUME NEW s \in Syncs, KillSync(s) PROVE SyncInv'
  <2>1. sync' = [sync EXCEPT ![s] = NoRun] /\ UNCHANGED <<remote, local, changes, paged, copied>>
        /\ faults < MaxFaults /\ faults' = faults + 1
    BY <1>2 DEF KillSync
  <2>2. /\ sync' \in [Syncs -> SyncShape] /\ paged' \subseteq Listings \X Alarming
        /\ (\A p \in Syncs : WritesPaged(sync[p]))'
    <3>1. \A l \in Listings : NoRun.writes[l] \notin Alarming
      BY NoRunShape, SyncAssumption
    <3>2. paged \subseteq Listings \X Alarming
      BY DEF SyncInv
    <3> QED
      BY <2>1, <3>1, <3>2, NoRunShape, SyncMoves
  <2>3. /\ local' \in [Listings -> ListingStates] /\ copied' \subseteq Listings
        /\ IssuesPaged'
    BY <2>1, RowsStay
  <2>4. faults' \in 0 .. MaxFaults
    BY <1>n, <2>1
  <2> QED
    BY <2>1, <2>2, <2>3, <2>4 DEF SyncInv
<1>3. ASSUME NEW s \in Syncs, NEW l \in Listings, FetchFails(s, l) PROVE SyncInv'
  <2> DEFINE q == [sync[s] EXCEPT !.left = @ \ {l}]
  <2>1. sync' = [sync EXCEPT ![s] = q] /\ UNCHANGED <<remote, local, changes, paged, copied>>
        /\ faults < MaxFaults /\ faults' = faults + 1
    BY <1>3 DEF FetchFails
  <2>2. sync[s] \in SyncShape /\ WritesPaged(sync[s]) /\ paged \subseteq Listings \X Alarming
    BY DEF SyncInv
  <2>3. q \in SyncShape /\ q.writes = sync[s].writes
    BY <2>2, PassOver
  <2> HIDE DEF q
  <2>4. \A k \in Listings : q.writes[k] \in Alarming => <<k, q.writes[k]>> \in paged'
    BY <2>1, <2>2, <2>3 DEF WritesPaged
  <2>5. /\ sync' \in [Syncs -> SyncShape] /\ paged' \subseteq Listings \X Alarming
        /\ (\A p \in Syncs : WritesPaged(sync[p]))'
    BY <2>1, <2>2, <2>3, <2>4, SyncMoves
  <2>6. /\ local' \in [Listings -> ListingStates] /\ copied' \subseteq Listings
        /\ IssuesPaged'
    BY <2>1, RowsStay
  <2>7. faults' \in 0 .. MaxFaults
    BY <1>n, <2>1
  <2> QED
    BY <2>1, <2>5, <2>6, <2>7 DEF SyncInv
<1>4. ASSUME NEW l \in Listings, NEW v \in ListingStates, RemoteChanges(l, v) \/ PatchListing(l, v)
      PROVE  SyncInv'
  <2>1. UNCHANGED <<sync, faults, paged>> /\ changes < MaxChanges /\ changes' = changes + 1
    BY <1>4 DEF RemoteChanges, PatchListing, Change
  <2>2. /\ sync' \in [Syncs -> SyncShape] /\ paged' \subseteq Listings \X Alarming
        /\ (\A p \in Syncs : WritesPaged(sync[p]))'
    BY <2>1, RunStays
  <2>3. changes' \in 0 .. MaxChanges
    BY <1>n, <2>1
  <2>4. remote' \in [Listings -> ListingStates] /\ local' \in [Listings -> ListingStates]
    BY <1>4 DEF RemoteChanges, PatchListing, SyncInv
  <2>5. copied' \subseteq copied /\ (\A k \in copied' : local'[k] = local[k])
    BY <1>4 DEF RemoteChanges, PatchListing, SyncInv
  <2>6. copied' \subseteq Listings /\ IssuesPaged'
    BY <2>1, <2>5 DEF IssuesPaged, SyncInv
  <2> QED
    BY <2>1, <2>2, <2>3, <2>4, <2>6 DEF SyncInv
<1>5. CASE UNCHANGED syncVars
  BY <1>5 DEF syncVars, SyncInv, WritesPaged, IssuesPaged
<1> QED
  BY <1>1, <1>2, <1>3, <1>4, <1>5, FetchInv, CommitInv DEF SyncNext

LEMMA SyncTyped == SyncInv => SyncTypeOK
  BY DEF SyncInv, SyncTypeOK, SyncShape, StatesRead

\* Somebody was paged about every listing that a run has taken to an alarming state,
\* for any number of listings, runs and states, wherever a run is killed.
THEOREM IssuesPagedHolds == SyncSpec => []IssuesPaged
<1>1. SyncSpec => []SyncInv
  BY SyncInitOK, SyncNextOK, PTL DEF SyncSpec
<1>2. SyncInv => IssuesPaged
  BY DEF SyncInv
<1> QED
  BY <1>1, <1>2, PTL

-----------------------------------------------------------------------------
(***************************************************************************)
(* The purge of personal data.                                             *)
(***************************************************************************)

Texts == {"none", "raw", "clean", "expired"}

PurgeShape == [at : {"idle", "update", "purged", "failed"}, limit : AskedWith,
               found : SUBSET StoredSignals, left : SUBSET StoredSignals]

\* A row that was read is there or has expired; one that a purge is through with holds
\* nothing raw, or its lock; and of a purge that is over, none does.
FoundHandled(p) ==
    /\ \A r \in purge[p].found : content[r] # "none"
    /\ purge[p].at = "update" =>
         \A r \in purge[p].found \ purge[p].left : content[r] = "raw" => lock[r] = p
    /\ purge[p].at = "purged" => \A r \in purge[p].found : content[r] # "raw"

PrivacyInv ==
    /\ content \in [StoredSignals -> Texts]
    /\ lock \in [StoredSignals -> Purges \union {NoPurge}]
    /\ purge \in [Purges -> PurgeShape]
    /\ \A p \in Purges : FoundHandled(p)

LEMMA NoPurgingShape ==
    /\ NoPurging \in PurgeShape /\ NoPurging.at = "idle" /\ NoPurging.found = {}
    /\ [NoPurging EXCEPT !.at = "failed"] \in PurgeShape
    /\ [NoPurging EXCEPT !.at = "failed"].at = "failed"
    /\ [NoPurging EXCEPT !.at = "failed"].found = {}
  BY DEF NoPurging, PurgeShape, AskedWith

LEMMA PrivacyInitOK == PrivacyInit => PrivacyInv
<1> SUFFICES ASSUME PrivacyInit PROVE PrivacyInv
  OBVIOUS
<1>1. \A p \in Purges : purge[p] = NoPurging
  BY DEF PrivacyInit
<1>2. \A p \in Purges : FoundHandled(p)
  BY <1>1, NoPurgingShape DEF FoundHandled
<1>3. /\ content \in [StoredSignals -> Texts]
      /\ lock \in [StoredSignals -> Purges \union {NoPurge}]
  BY DEF PrivacyInit, Texts
<1>4. purge \in [Purges -> PurgeShape]
  BY NoPurgingShape DEF PrivacyInit
<1> QED
  BY <1>2, <1>3, <1>4 DEF PrivacyInv

\* Nothing becomes raw that was read, and no purge but one gives up its locks.
LEMMA OthersKeep ==
    ASSUME PrivacyInv, NEW p \in Purges,
           \A q \in Purges : q # p => purge'[q] = purge[q],
           \A r \in StoredSignals : content[r] # "none" => content'[r] # "none",
           \A r \in StoredSignals : content[r] # "none" /\ content'[r] = "raw" => content[r] = "raw",
           \A r \in StoredSignals : lock[r] # NoPurge /\ lock[r] # p => lock'[r] = lock[r]
    PROVE  \A q \in Purges : q # p => FoundHandled(q)'
<1> SUFFICES ASSUME NEW q \in Purges, q # p PROVE FoundHandled(q)'
  OBVIOUS
<1>1. FoundHandled(q) /\ purge'[q] = purge[q] /\ purge[q].found \subseteq StoredSignals
  BY DEF PrivacyInv, PurgeShape
<1>2. q # NoPurge
  BY PrivacyAssumption
<1>3. \A r \in StoredSignals : lock[r] = q => lock'[r] = q
  BY <1>2
<1> QED
  BY <1>1, <1>3 DEF FoundHandled

\* The same when the rows change, and no purge moves.
LEMMA AllKeep ==
    ASSUME PrivacyInv, UNCHANGED <<lock, purge>>,
           \A r \in StoredSignals : content[r] # "none" => content'[r] # "none",
           \A r \in StoredSignals : content[r] # "none" /\ content'[r] = "raw" => content[r] = "raw"
    PROVE  (\A p \in Purges : FoundHandled(p))'
<1> SUFFICES ASSUME NEW q \in Purges PROVE FoundHandled(q)'
  OBVIOUS
<1>1. FoundHandled(q) /\ purge'[q] = purge[q] /\ purge[q].found \subseteq StoredSignals
  BY DEF PrivacyInv, PurgeShape
<1> QED
  BY <1>1 DEF FoundHandled

LEMMA RowChanges ==
    ASSUME PrivacyInv, NEW r \in StoredSignals, NEW text \in Texts \ {"none"},
           text = "raw" => content[r] = "none",
           content' = [content EXCEPT ![r] = text], UNCHANGED <<lock, purge>>
    PROVE  PrivacyInv'
<1>1. content' \in [StoredSignals -> Texts]
  BY DEF PrivacyInv
<1>2. \A s \in StoredSignals : content[s] # "none" => content'[s] # "none"
  BY DEF PrivacyInv
<1>3. \A s \in StoredSignals : content[s] # "none" /\ content'[s] = "raw" => content[s] = "raw"
  BY DEF PrivacyInv
<1>4. (\A p \in Purges : FoundHandled(p))'
  BY <1>2, <1>3, AllKeep
<1> QED
  BY <1>1, <1>4 DEF PrivacyInv

\* A purge reads rows that are there.
LEMMA SelectedStored == \A limit : \A rows \in Selected(limit) : rows \subseteq StoredSignals
  BY DEF Selected, Stored

LEMMA SelectInv ==
    ASSUME PrivacyInv, NEW p \in Purges, NEW limit \in AskedWith, SelectSignals(p, limit)
    PROVE  PrivacyInv'
<1>1. PICK rows \in Selected(limit) :
        purge' = [purge EXCEPT ![p] = [at |-> "update", limit |-> limit,
                                       found |-> Raw(rows), left |-> Raw(rows)]]
  BY DEF SelectSignals
<1>2. Raw(rows) \subseteq StoredSignals /\ \A r \in Raw(rows) : content[r] = "raw"
  BY SelectedStored DEF Raw
<1> DEFINE q == [at |-> "update", limit |-> limit, found |-> Raw(rows), left |-> Raw(rows)]
<1>3. q \in PurgeShape /\ q.at = "update" /\ q.found = Raw(rows) /\ q.left = Raw(rows)
  BY <1>2 DEF PurgeShape
<1>4. purge' = [purge EXCEPT ![p] = q] /\ UNCHANGED <<content, lock>>
  BY <1>1 DEF SelectSignals
<1> HIDE DEF q
<1>5. purge' \in [Purges -> PurgeShape] /\ purge'[p] = q /\ \A o \in Purges : o # p => purge'[o] = purge[o]
  BY <1>3, <1>4 DEF PrivacyInv
<1>6. FoundHandled(p)'
  BY <1>2, <1>3, <1>4, <1>5 DEF FoundHandled
<1>7. \A o \in Purges : o # p => FoundHandled(o)'
  BY <1>4, <1>5, OthersKeep
<1> QED
  BY <1>4, <1>5, <1>6, <1>7 DEF PrivacyInv

LEMMA UpdateInv ==
    ASSUME PrivacyInv, NEW p \in Purges, NEW r \in StoredSignals, UpdateSignal(p, r)
    PROVE  PrivacyInv'
<1> DEFINE q == [purge[p] EXCEPT !.left = @ \ {r}]
<1>1. /\ purge[p].at = "update" /\ r \in purge[p].left /\ lock[r] = NoPurge
      /\ purge' = [purge EXCEPT ![p] = q] /\ UNCHANGED content
      /\ lock' = IF r \in Stored THEN [lock EXCEPT ![r] = p] ELSE lock
  BY DEF UpdateSignal
<1>2. purge[p] \in PurgeShape /\ FoundHandled(p)
  BY DEF PrivacyInv
<1>3. q \in PurgeShape /\ q.at = "update" /\ q.found = purge[p].found /\ q.left = purge[p].left \ {r}
  BY <1>1, <1>2 DEF PurgeShape
<1> HIDE DEF q
<1>4. purge' \in [Purges -> PurgeShape] /\ purge'[p] = q /\ \A o \in Purges : o # p => purge'[o] = purge[o]
  BY <1>1, <1>3 DEF PrivacyInv
<1>5. /\ lock' \in [StoredSignals -> Purges \union {NoPurge}]
      /\ \A s \in StoredSignals : lock[s] # NoPurge => lock'[s] = lock[s]
      /\ content[r] = "raw" => lock'[r] = p
  BY <1>1 DEF PrivacyInv, Stored
<1>6. FoundHandled(p)'
  <2>1. /\ \A s \in purge[p].found : s \in StoredSignals /\ content[s] # "none"
        /\ \A s \in purge[p].found \ purge[p].left : content[s] = "raw" => lock[s] = p
    BY <1>1, <1>2 DEF FoundHandled, PurgeShape
  <2>2. p # NoPurge
    BY PrivacyAssumption
  <2>3. \A s \in q.found \ q.left : content[s] = "raw" => lock'[s] = p
    BY <1>3, <1>5, <2>1, <2>2
  <2> QED
    BY <1>1, <1>3, <1>4, <2>1, <2>3 DEF FoundHandled
<1>7. \A o \in Purges : o # p => FoundHandled(o)'
  BY <1>1, <1>4, <1>5, OthersKeep
<1> QED
  BY <1>1, <1>4, <1>5, <1>6, <1>7 DEF PrivacyInv, UpdateSignal

LEMMA UnlockedType ==
    ASSUME PrivacyInv, NEW p \in Purges
    PROVE  /\ Unlocked(p) \in [StoredSignals -> Purges \union {NoPurge}]
           /\ \A r \in StoredSignals : lock[r] # p => Unlocked(p)[r] = lock[r]
  BY DEF PrivacyInv, Unlocked

LEMMA CommitPurgeInv ==
    ASSUME PrivacyInv, NEW p \in Purges, CommitPurge(p)
    PROVE  PrivacyInv'
<1> DEFINE q == [purge[p] EXCEPT !.at = "purged"]
<1>1. /\ purge[p].at = "update" /\ purge[p].left = {}
      /\ content' = [r \in StoredSignals |-> IF r \in Locked(p) THEN "clean" ELSE content[r]]
      /\ lock' = Unlocked(p) /\ purge' = [purge EXCEPT ![p] = q]
  BY DEF CommitPurge
<1>2. purge[p] \in PurgeShape /\ FoundHandled(p)
  BY DEF PrivacyInv
<1>3. q \in PurgeShape /\ q.at = "purged" /\ q.found = purge[p].found
  BY <1>2 DEF PurgeShape
<1> HIDE DEF q
<1>4. purge' \in [Purges -> PurgeShape] /\ purge'[p] = q /\ \A o \in Purges : o # p => purge'[o] = purge[o]
  BY <1>1, <1>3 DEF PrivacyInv
<1>5. /\ lock' \in [StoredSignals -> Purges \union {NoPurge}]
      /\ \A r \in StoredSignals : lock[r] # p => lock'[r] = lock[r]
  BY <1>1, UnlockedType
<1>6. /\ content' \in [StoredSignals -> Texts]
      /\ \A r \in StoredSignals : content[r] # "none" => content'[r] # "none"
      /\ \A r \in StoredSignals : content'[r] = "raw" => content[r] = "raw" /\ lock[r] # p
  BY <1>1 DEF PrivacyInv, Texts, Locked
<1>7. FoundHandled(p)'
  <2>1. \A r \in purge[p].found : r \in StoredSignals /\ content[r] # "none"
                                  /\ (content[r] = "raw" => lock[r] = p)
    BY <1>1, <1>2 DEF FoundHandled, PurgeShape
  <2> QED
    BY <1>3, <1>4, <1>6, <2>1 DEF FoundHandled
<1>8. \A o \in Purges : o # p => FoundHandled(o)'
  BY <1>4, <1>5, <1>6, OthersKeep
<1> QED
  BY <1>4, <1>5, <1>6, <1>7, <1>8 DEF PrivacyInv

LEMMA PurgeFailsInv ==
    ASSUME PrivacyInv, NEW p \in Purges, PurgeFails(p)
    PROVE  PrivacyInv'
<1> DEFINE q == [NoPurging EXCEPT !.at = "failed"]
<1>1. lock' = Unlocked(p) /\ purge' = [purge EXCEPT ![p] = q] /\ UNCHANGED content
  BY DEF PurgeFails
<1>2. q \in PurgeShape /\ q.at = "failed" /\ q.found = {}
  BY NoPurgingShape
<1> HIDE DEF q
<1>3. purge' \in [Purges -> PurgeShape] /\ purge'[p] = q /\ \A o \in Purges : o # p => purge'[o] = purge[o]
  BY <1>1, <1>2 DEF PrivacyInv
<1>4. /\ lock' \in [StoredSignals -> Purges \union {NoPurge}]
      /\ \A r \in StoredSignals : lock[r] # p => lock'[r] = lock[r]
  BY <1>1, UnlockedType
<1>5. FoundHandled(p)'
  BY <1>2, <1>3 DEF FoundHandled
<1>6. \A o \in Purges : o # p => FoundHandled(o)'
  BY <1>1, <1>3, <1>4, OthersKeep
<1> QED
  BY <1>1, <1>3, <1>4, <1>5, <1>6 DEF PrivacyInv

LEMMA PrivacyNextOK == PrivacyInv /\ [PrivacyNext]_privacyVars => PrivacyInv'
<1> SUFFICES ASSUME PrivacyInv, [PrivacyNext]_privacyVars PROVE PrivacyInv'
  OBVIOUS
<1>1. ASSUME NEW r \in StoredSignals, InsertSignal(r, "raw") PROVE PrivacyInv'
  <2>1. "raw" \in Texts \ {"none"}
    BY DEF Texts
  <2> QED
    BY <1>1, <2>1, RowChanges DEF InsertSignal
<1>2. ASSUME NEW r \in StoredSignals, InsertSignal(r, "clean") PROVE PrivacyInv'
  <2>1. "clean" \in Texts \ {"none"}
    BY DEF Texts
  <2> QED
    BY <1>2, <2>1, RowChanges DEF InsertSignal
<1>3. ASSUME NEW r \in StoredSignals, ExpireSignal(r) PROVE PrivacyInv'
  <2>1. "expired" \in Texts \ {"none"}
    BY DEF Texts
  <2> QED
    BY <1>3, <2>1, RowChanges DEF ExpireSignal
<1>4. CASE UNCHANGED privacyVars
  BY <1>4 DEF privacyVars, PrivacyInv, FoundHandled
<1> QED
  BY <1>1, <1>2, <1>3, <1>4, SelectInv, UpdateInv, CommitPurgeInv, PurgeFailsInv
  DEF PrivacyNext, BreakDeadlock

LEMMA PrivacyTyped == PrivacyInv => PrivacyTypeOK
  BY DEF PrivacyInv, PrivacyTypeOK, PurgeShape, Texts

\* A purge that is over has left nothing raw of what it read, for any number of rows and
\* purges, whichever of those rows others held, cleaned or deleted meanwhile.
THEOREM PurgeSoundHolds == PrivacySpec => []PurgeSound
<1>1. PrivacySpec => []PrivacyInv
  BY PrivacyInitOK, PrivacyNextOK, PTL DEF PrivacySpec
<1>2. PrivacyInv => PurgeSound
  BY DEF PrivacyInv, FoundHandled, PurgeSound, Raw
<1> QED
  BY <1>1, <1>2, PTL

-----------------------------------------------------------------------------
(***************************************************************************)
(* The three together.                                                     *)
(***************************************************************************)

UpkeepInv == HouseInv /\ HouseSets /\ SyncInv /\ PrivacyInv

\* What is to hold of the parts holds of the whole, of which one part moves at a time.
LEMMA UpkeepNextOK ==
    UpkeepInv /\ [MCNext]_<<part, houseVars, syncVars, privacyVars>> => UpkeepInv'
<1> SUFFICES ASSUME UpkeepInv, [MCNext]_<<part, houseVars, syncVars, privacyVars>>
             PROVE  UpkeepInv'
  OBVIOUS
<1>1. /\ [HouseNext]_houseVars /\ [SyncNext]_syncVars
      /\ [PrivacyNext]_privacyVars
  BY DEF MCNext
<1> QED
  BY <1>1, HouseNextOK, HouseSetsNextOK, SyncNextOK, PrivacyNextOK DEF UpkeepInv

LEMMA UpkeepInitOK == MCInit => UpkeepInv
<1>1. HouseInit => HouseSets
  BY DEF HouseInit, HouseSets
<1> QED
  BY <1>1, HouseInitOK, SyncInitOK, PrivacyInitOK DEF MCInit, UpkeepInv

\* Every variable of housekeeping, of the sync of listings and of the purge of
\* personal data keeps its type, for any values of the constants.
THEOREM UpkeepTypeOKHolds == MCSpec => []UpkeepTypeOK
<1>1. MCSpec => []UpkeepInv
  BY UpkeepInitOK, UpkeepNextOK, PTL DEF MCSpec
<1>2. UpkeepInv => UpkeepTypeOK
  BY HouseTyped, SyncTyped, PrivacyTyped DEF UpkeepInv, UpkeepTypeOK
<1> QED
  BY <1>1, <1>2, PTL
=============================================================================
