------------------------------ MODULE Housekeeping ------------------------------
(***************************************************************************)
(* What is archived and purged, by the jobs of the maintenance scheduler,  *)
(* by the hourly cleanup of the orchestrator, and when an administrator    *)
(* asks for it.  All of them may run at once, and a run goes through the   *)
(* steps of its plan until one of them fails.                              *)
(***************************************************************************)
EXTENDS Sequences, FiniteSets

CONSTANTS
    Mockups,    \* mockups whose image is a file
    Keepers,    \* who keeps house, of those named in Plan
    Purged      \* what grows old and is purged, of "signals", "logs", "audit", "objects"

VARIABLES
    images,     \* where the image of each mockup is
    kept,       \* the mockups that have a row
    yearOld,    \* those of more than twelve months
    listed,     \* those that a listing refers to
    outdated,   \* what there is to purge
    keeper      \* of each keeper: the steps left, and what it knows in this one

houseVars == <<images, kept, yearOld, listed, outdated, keeper>>

\* Slip: one job of the scheduler does it all.
PlanInOneJob ==
    LET all == <<"mockups", "signals", "logs", "audit">>
    IN  [archive |-> all, stale |-> all, audit |-> all,
         cleanup |-> all \o <<"objects">>, admin |-> all]

\* The three jobs of the scheduler, cleanup_data and trigger_cleanup.
Plan ==
    [archive |-> <<"mockups">>, stale |-> <<"signals", "logs">>, audit |-> <<"audit">>,
     cleanup |-> <<"mockups", "signals", "logs", "objects">>,
     admin |-> <<"mockups", "signals", "logs">>]

ASSUME HouseAssumption ==
    /\ Keepers \subseteq DOMAIN Plan /\ IsFiniteSet(Mockups)
    /\ Purged \subseteq {"signals", "logs", "audit", "objects"}

Resting == [left |-> <<>>, at |-> "start", todo |-> {}, done |-> {}]

HouseInit ==
    /\ images = [m \in Mockups |-> "file"]
    /\ kept = Mockups /\ yearOld = {} /\ listed = {} /\ outdated = {}
    /\ keeper = [k \in Keepers |-> Resting]

\* The keeper k is in the step "step" of its plan, at the point "at" of it.
Doing(k, step, at) == keeper[k].left # <<>> /\ Head(keeper[k].left) = step /\ keeper[k].at = at

NextStep(k) == keeper' = [keeper EXCEPT ![k] = [Resting EXCEPT !.left = Tail(keeper[k].left)]]

mockupTable == <<kept, yearOld, listed>>

StartKeeping(k) ==
    /\ keeper[k].left = <<>>
    /\ keeper' = [keeper EXCEPT ![k].left = Plan[k]]
    /\ UNCHANGED <<images, mockupTable, outdated>>

\* A step raises: the session is rolled back and the steps that are left are not done.
RaiseIn(k) == keeper' = [keeper EXCEPT ![k] = Resting]

\* It does so when a call fails, or the process is killed.
StopKeeping(k) ==
    /\ keeper[k].left # <<>> /\ RaiseIn(k)
    /\ UNCHANGED <<images, mockupTable, outdated>>

-----------------------------------------------------------------------------
(***************************************************************************)
(* archive_old_mockups: one transaction, and a move of a file for each.    *)
(***************************************************************************)

FindOld(k) ==
    /\ Doing(k, "mockups", "start")
    /\ keeper' = [keeper EXCEPT ![k].at = "look", ![k].todo = kept \intersect yearOld]
    /\ UNCHANGED <<images, mockupTable, outdated>>

LookAt(k, m) ==
    /\ Doing(k, "mockups", "look") /\ m \in keeper[k].todo
    /\ keeper' = [keeper EXCEPT ![k].todo = @ \ {m},
                                ![k].at = IF images[m] = "file" THEN m ELSE "look",
                                ![k].done = IF images[m] = "file" THEN @ ELSE @ \union {m}]
    /\ UNCHANGED <<images, mockupTable, outdated>>

\* Another keeper may have moved the file by now, and then the move raises.
MoveImage(k, m) ==
    /\ Doing(k, "mockups", m)
    /\ images' = [images EXCEPT ![m] = "cold"]
    /\ IF images[m] = "file"
       THEN keeper' = [keeper EXCEPT ![k].at = "look", ![k].done = @ \union {m}]
       ELSE RaiseIn(k)
    /\ UNCHANGED <<mockupTable, outdated>>

\* Slip: what was found is deleted, whether it was moved or not.
DeleteFound(k) ==
    /\ Doing(k, "mockups", "look")
    /\ kept' = kept \ (keeper[k].todo \union keeper[k].done)
    /\ NextStep(k)
    /\ UNCHANGED <<images, yearOld, listed, outdated>>

\* The commit is refused if a listing refers to any of them.
DeleteArchived(k) ==
    /\ Doing(k, "mockups", "look") /\ keeper[k].todo = {}
    /\ IF listed \intersect keeper[k].done = {}
       THEN kept' = kept \ keeper[k].done /\ NextStep(k)
       ELSE RaiseIn(k) /\ UNCHANGED kept
    /\ UNCHANGED <<images, yearOld, listed, outdated>>

-----------------------------------------------------------------------------
(***************************************************************************)
(* What is purged, and what grows old.                                     *)
(***************************************************************************)

\* The signals of more than 30 days, the audit log of more than 18 months: one
\* statement each; the objects of the bucket, which is listed and emptied.
Purge(k, what) ==
    /\ what # "logs" /\ Doing(k, what, "start")
    /\ outdated' = outdated \ {what}
    /\ NextStep(k)
    /\ UNCHANGED <<images, mockupTable>>

FindLogs(k) ==
    /\ Doing(k, "logs", "start")
    /\ IF "logs" \in outdated THEN keeper' = [keeper EXCEPT ![k].at = "unlink"] ELSE NextStep(k)
    /\ UNCHANGED <<images, mockupTable, outdated>>

\* A file that another keeper has removed by now raises.
UnlinkLogs(k) ==
    /\ Doing(k, "logs", "unlink")
    /\ outdated' = outdated \ {"logs"}
    /\ IF "logs" \in outdated THEN NextStep(k) ELSE RaiseIn(k)
    /\ UNCHANGED <<images, mockupTable>>

GrowOld(m) ==
    /\ m \notin yearOld /\ yearOld' = yearOld \union {m}
    /\ UNCHANGED <<images, kept, listed, outdated, keeper>>

GetListed(m) ==
    /\ m \in kept \ listed /\ listed' = listed \union {m}
    /\ UNCHANGED <<images, kept, yearOld, outdated, keeper>>

Outdate(what) ==
    /\ what \notin outdated /\ outdated' = outdated \union {what}
    /\ UNCHANGED <<images, mockupTable, keeper>>

KeepStep(k) ==
    \/ FindOld(k) \/ DeleteArchived(k) \/ FindLogs(k) \/ UnlinkLogs(k)
    \/ \E m \in Mockups : LookAt(k, m) \/ MoveImage(k, m)
    \/ \E what \in {"signals", "audit", "objects"} : Purge(k, what)

HouseNext ==
    \/ \E k \in Keepers : StartKeeping(k) \/ StopKeeping(k) \/ KeepStep(k)
    \/ \E m \in Mockups : GrowOld(m) \/ GetListed(m)
    \/ \E what \in Purged : Outdate(what)

HouseSpec == HouseInit /\ [][HouseNext]_houseVars

-----------------------------------------------------------------------------
HouseTypeOK ==
    /\ images \in [Mockups -> {"file", "cold"}]
    /\ kept \subseteq Mockups /\ yearOld \subseteq Mockups /\ listed \subseteq Mockups
    /\ outdated \subseteq Purged
    /\ \A k \in Keepers :
         /\ keeper[k].at \in {"start", "look", "unlink"} \union Mockups
         /\ keeper[k].todo \subseteq Mockups /\ keeper[k].done \subseteq Mockups

\* However many keepers archive at once, and wherever one of them is killed, a
\* mockup that has lost its row has its image in cold storage, and no listing is
\* left without its mockup.
ArchivedKept == \A m \in Mockups \ kept : images[m] = "cold" /\ m \notin listed

\* Old signals are purged in the end, although a mockup that is listed makes every
\* archiving fail, and the hourly cleanup with it.
SignalsPurged == "signals" \in outdated ~> "signals" \notin outdated
=============================================================================
