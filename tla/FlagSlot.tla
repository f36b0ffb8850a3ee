------------------------------ MODULE FlagSlot ------------------------------
(***************************************************************************)
(* What the mailbox of common/disp.c promises its callers: one slot for    *)
(* one notification.  A notification enters an empty slot only, and stays  *)
(* there until the display thread takes it, so none is ever replaced by a  *)
(* later one.  This is the intent of dispthr_flagset_nolock() and of the   *)
(* comment in its body.                                                    *)
(***************************************************************************)
CONSTANTS Flags,  (* the notifications that can be posted *)
          NoFlag  (* DISP_FLAG_NONE: the slot is empty    *)

VARIABLE slot

Init == slot = NoFlag

Put(f) == slot = NoFlag /\ slot' = f

Take == slot # NoFlag /\ slot' = NoFlag

Next == Take \/ \E f \in Flags : Put(f)

Spec == Init /\ [][Next]_slot
=============================================================================
