-------------------------------- MODULE SpotNodes --------------------------------
(***************************************************************************)
(* Spot instances, and the runs of the script that keeps up the number of  *)
(* them: it counts the nodes of the cluster that are labelled and Ready,   *)
(* and requests and labels an instance for each that is missing.  It does  *)
(* not look whether kubectl has failed, and then counts none.  An instance *)
(* may be reclaimed at any time.                                           *)
(***************************************************************************)
EXTENDS Integers, FiniteSets

CONSTANTS
    Instances,  \* the instances that may be requested
    Maintainers,\* who runs the script
    Wanted,     \* how many nodes there should be
    MaxByHand,  \* bound on requests by hand
    NoInstance

ASSUME SpotAssumption ==
    /\ IsFiniteSet(Instances) /\ IsFiniteSet(Maintainers)
    /\ Wanted \in Nat /\ MaxByHand \in Nat /\ NoInstance \notin Instances

VARIABLES
    instance,   \* of each instance: its state, and its node
    maintainer, \* each run: its point, the instances to request, the one to label
    overlooked, \* history: the most that a run which requests has overlooked
    byHand      \* history: the requests by hand

spotVars == <<instance, maintainer, overlooked, byHand>>

AtRest == [at |-> "idle", missing |-> 0, mine |-> NoInstance]

SpotInit ==
    /\ instance = [i \in Instances |-> "none"]
    /\ maintainer = [p \in Maintainers |-> AtRest]
    /\ overlooked = 0 /\ byHand = 0

Alive == {i \in Instances : instance[i] \notin {"none", "gone"}}
ReadyNodes == {i \in Instances : instance[i] = "ready"}
AtWork == {p \in Maintainers : maintainer[p].at # "idle"}

\* The requests that each run still has to make, by number.
StillToMake(p, k) ==
    \/ maintainer[p].at = "request" /\ k <= maintainer[p].missing
    \/ maintainer[p].at = "wait" /\ k < maintainer[p].missing

Outstanding == {o \in Maintainers \X (1 .. Wanted + 1) : StillToMake(o[1], o[2])}

\* The run p requests as many as are missing; it has seen some nodes, and overlooks all
\* other instances and what the other runs are about to request.
Maintain(p, seen, missing) ==
    LET unseen == Cardinality(Alive \ seen) + Cardinality(Outstanding)
    IN  /\ p \notin AtWork
        /\ maintainer' = [maintainer EXCEPT ![p] =
             IF missing > 0 THEN [AtRest EXCEPT !.at = "request", !.missing = missing] ELSE AtRest]
        /\ overlooked' = IF missing > 0 /\ unseen > overlooked THEN unseen ELSE overlooked
        /\ UNCHANGED <<instance, byHand>>

\* _ready_nodes; the output of a kubectl that fails has no nodes.
Seen == {ReadyNodes, {}}

\* Slip: the nodes that are labelled already are not counted.
CountAnew(p) == \E seen \in Seen : Maintain(p, seen, Wanted)

\* maintain_nodes
CountNodes(p) == \E seen \in Seen : Maintain(p, seen, Wanted - Cardinality(seen))

\* Somebody runs the script to request one node more, whatever there is.
RequestByHand(p) ==
    /\ byHand < MaxByHand /\ byHand' = byHand + 1
    /\ p \notin AtWork
    /\ maintainer' = [maintainer EXCEPT ![p] = [AtRest EXCEPT !.at = "request", !.missing = 1]]
    /\ UNCHANGED <<instance, overlooked>>

\* request_instance
RequestInstance(p, i) ==
    /\ maintainer[p].at = "request" /\ instance[i] = "none"
    /\ instance' = [instance EXCEPT ![i] = "pending"]
    /\ maintainer' = [maintainer EXCEPT ![p].at = "wait", ![p].mine = i]
    /\ UNCHANGED <<overlooked, byHand>>

\* label_node: the waiter sees the instance running, or gives up and polls on; an
\* instance without a name after both waits, and a node that is not in the cluster
\* yet, end the run.
LabelNode(p) ==
    LET i == maintainer[p].mine
        left == maintainer[p].missing - 1
    IN  /\ maintainer[p].at = "wait" /\ instance[i] = "joined"
        /\ instance' = [instance EXCEPT ![i] = "labelled"]
        /\ maintainer' = [maintainer EXCEPT ![p] =
             IF left > 0 THEN [AtRest EXCEPT !.at = "request", !.missing = left] ELSE AtRest]
        /\ UNCHANGED <<overlooked, byHand>>

\* The run is over: a call fails, or somebody stops it, as one that polls for an
\* instance that is gone does so for ever.
StopMaintaining(p) ==
    /\ p \in AtWork
    /\ maintainer' = [maintainer EXCEPT ![p] = AtRest]
    /\ UNCHANGED <<instance, overlooked, byHand>>

InstanceMoves(i, from, to) ==
    /\ instance[i] = from /\ instance' = [instance EXCEPT ![i] = to]
    /\ UNCHANGED <<maintainer, overlooked, byHand>>

Joins(i) == InstanceMoves(i, "pending", "joined")
BecomesReady(i) == InstanceMoves(i, "labelled", "ready")
TurnsNotReady(i) == InstanceMoves(i, "ready", "labelled")
Goes(i) == i \in Alive /\ InstanceMoves(i, instance[i], "gone")

SpotNext ==
    \/ \E p \in Maintainers :
         \/ CountNodes(p) \/ RequestByHand(p) \/ LabelNode(p) \/ StopMaintaining(p)
         \/ \E i \in Instances : RequestInstance(p, i)
    \/ \E i \in Instances : Joins(i) \/ BecomesReady(i) \/ TurnsNotReady(i) \/ Goes(i)

SpotSpec == SpotInit /\ [][SpotNext]_spotVars

-----------------------------------------------------------------------------
SpotTypeOK ==
    /\ instance \in [Instances -> {"none", "pending", "joined", "labelled", "ready", "gone"}]
    /\ maintainer \in [Maintainers -> [at : {"idle", "request", "wait"}, missing : 0 .. Wanted + 1,
                                       mine : Instances \union {NoInstance}]]
    /\ overlooked \in Nat /\ byHand \in 0 .. MaxByHand

\* What counts overlook does not add up: however often runs overlap, are stopped, count
\* without an answer of the cluster or start while instances are on their way, there
\* are never more instances, nor about to be, than are wanted, were requested by hand
\* and were overlooked by the one count that overlooked the most.
NoneTooMany ==
    Cardinality(Alive) + Cardinality(Outstanding) <= Wanted + byHand + overlooked
=============================================================================
