----------------------------- MODULE MCMailbox -----------------------------
(***************************************************************************)
(* Non-secure tasks that share a mailbox of two slots: three tasks, so one *)
(* waits for a slot and reuses it, or two tasks for the liveness.          *)
(***************************************************************************)
EXTENDS Mailbox

CONSTANTS t1, t2, t3
=============================================================================
