------------------------------ MODULE MCGpuSlots ------------------------------
(***************************************************************************)
(* Small instances of GpuSlots for TLC.                                    *)
(***************************************************************************)
EXTENDS GpuSlots

\* One worker on the default queue, the others on the queue of the last slot.
OneFree ==
    LET free == CHOOSE w \in Workers : TRUE
    IN  [w \in Workers |-> IF w = free THEN NoPin ELSE MaxSlot - 1]
=============================================================================
