----------------------------- MODULE RetryBudget -----------------------------
(***************************************************************************)
(* What the publisher promises whoever triggers a publish, seen without    *)
(* database, sessions or marketplaces: a trigger makes its tries one after *)
(* the other, begins another only when the one before has failed, counts   *)
(* a failure once, and stops at the budget.  It may be cut at any time.    *)
(***************************************************************************)
EXTENDS Naturals

CONSTANTS Triggers, Budget

VARIABLES phase, begun, failed

vars == <<phase, begun, failed>>

Init ==
    /\ phase = [c \in Triggers |-> "idle"]
    /\ begun = [c \in Triggers |-> 0]
    /\ failed = [c \in Triggers |-> 0]

Move(c, from, to) ==
    /\ phase[c] = from
    /\ phase' = [phase EXCEPT ![c] = to]
    /\ UNCHANGED <<begun, failed>>

Begin(c) == Move(c, "idle", "running")
End(c) == Move(c, "running", "ended")
Cut(c) == Move(c, "running", "cut")

Try(c) ==
    /\ phase[c] = "running"
    /\ failed[c] = begun[c]
    /\ begun[c] < Budget
    /\ begun' = [begun EXCEPT ![c] = @ + 1]
    /\ UNCHANGED <<phase, failed>>

Fail(c) ==
    /\ phase[c] = "running"
    /\ failed[c] < begun[c]
    /\ failed' = [failed EXCEPT ![c] = @ + 1]
    /\ UNCHANGED <<phase, begun>>

Next == \E c \in Triggers : Begin(c) \/ Try(c) \/ Fail(c) \/ End(c) \/ Cut(c)

Spec == Init /\ [][Next]_vars
=============================================================================
