------------------------------ MODULE SstStore ------------------------------
(***************************************************************************)
(* What protected storage promises to its clients: a map from objects to   *)
(* assets that requests change atomically.  Unlike internal trusted        *)
(* storage, on which it is built, it never shows a replaced asset as       *)
(* missing or half written, whenever power fails.                          *)
(*                                                                         *)
(* There is one exception.  An update that is interrupted, or fails, uses  *)
(* up a value of the non-volatile counter.  The next boot still finds the  *)
(* store, but aligns the other counters: if power then fails before        *)
(* another update completes, the store is lost.                            *)
(***************************************************************************)
EXTENDS Naturals, FiniteSetsExt

CONSTANTS
  Obj,         \* objects: a uid of a client
  Val,         \* what a client stores
  TooBig,      \* an asset larger than SST_MAX_ASSET_SIZE
  NumAssets,   \* SST_NUM_ASSETS
  NULL,
  LOST         \* the store when there is no object table

VARIABLES
  store,    \* the asset of each object, NULL if there is none
  health,   \* what a power failure would do, see Health
  job,      \* the request that is being served, NULL if there is none
  reply,    \* what the last request returned, NULL if none did
  faults    \* how many errors internal trusted storage has left to make

storeVars == <<store, health, job, reply, faults>>

\* A power failure keeps the store in health "sound", and in "spent", where an
\* update has used up a counter value and not completed; it loses the store in
\* health "risk".  In "wiping" a boot is replacing the store by an empty one.
Health == {"sound", "spent", "risk", "wiping"}

Asset == [val: Val, once: BOOLEAN]
SetJob == [op: {"set"}, obj: Obj, val: Val \cup {TooBig}, once: BOOLEAN]
GetJob == [op: {"get"}, obj: Obj, beyond: BOOLEAN]   \* from beyond the end
Job == SetJob \cup GetJob \cup [op: {"remove"}, obj: Obj]

NoAssets == [o \in Obj |-> NULL]
Stores == [Obj -> Asset \cup {NULL}] \cup {LOST}
Stored == {o \in Obj : store[o] # NULL}

\* What the request leaves of the object it names.
Target == IF job.op = "set" THEN [val |-> job.val, once |-> job.once] ELSE NULL

StoreInit ==
  /\ store = LOST /\ job = NULL /\ reply = NULL
  /\ health = "risk" /\ faults \in Nat

Begin ==
  /\ job = NULL /\ store # LOST
  /\ job' \in Job
  /\ reply' = NULL
  /\ UNCHANGED <<store, health, faults>>

\* A step of an update that clients cannot see; it may use up a counter value.
Spend ==
  /\ job # NULL /\ job.op # "get"
  /\ health' = health \/ (health = "sound" /\ health' = "spent")
  /\ faults' \in {faults, faults - 1}
  /\ UNCHANGED <<store, job, reply>>

\* The step of an update that changes the store.
Commit ==
  /\ job # NULL /\ job.op # "get"
  /\ LET a == store[job.obj] IN
       IF a = NULL THEN job.op = "set" /\ Cardinality(Stored) < NumAssets ELSE ~a.once
  /\ store' = [store EXCEPT ![job.obj] = Target]
  /\ health' = "sound"
  /\ UNCHANGED <<job, reply, faults>>

\* When a request may return which status, and what data.
MayReply(status, data) ==
  LET a == store[job.obj] IN
  \/ /\ status = "PSA_SUCCESS" /\ job.op # "get"
     /\ a = Target /\ data = NULL
  \/ /\ status = "PSA_SUCCESS" /\ job.op = "get"
     /\ a # NULL /\ ~job.beyond /\ data = a
  \/ /\ status = "PSA_ERROR_DOES_NOT_EXIST" /\ job.op # "set"
     /\ a = NULL /\ data = NULL
  \/ /\ status = "PSA_ERROR_NOT_PERMITTED" /\ job.op # "get"
     /\ a # NULL /\ a.once /\ data = NULL
  \/ /\ status = "PSA_ERROR_INVALID_ARGUMENT" /\ job.op = "set"
     /\ job.val = TooBig /\ data = NULL
  \/ /\ status = "PSA_ERROR_INVALID_ARGUMENT" /\ job.op = "get"
     /\ a # NULL /\ job.beyond /\ data = NULL
  \/ /\ status = "PSA_ERROR_INSUFFICIENT_STORAGE" /\ job.op = "set"
     /\ a = NULL /\ Cardinality(Stored) >= NumAssets /\ data = NULL
  \/ status = "PSA_ERROR_GENERIC_ERROR" /\ job.op # "get" /\ data = NULL

Return ==
  /\ job # NULL
  /\ job' = NULL
  /\ reply' # NULL /\ MayReply(reply'.status, reply'.data)
  /\ faults' \in {faults, faults - 1}
  /\ UNCHANGED <<store, health>>

\* A power failure forgets the request.
PowerLoss ==
  /\ job' = NULL /\ reply' = NULL
  /\ store' = IF health = "risk" THEN LOST ELSE store
  /\ health' = health \/ (health = "wiping" /\ health' \in Health)
  /\ UNCHANGED faults

\* A boot after an update that did not complete.
Boot ==
  /\ job = NULL /\ health = "spent"
  /\ health' = "risk"
  /\ UNCHANGED <<store, job, reply, faults>>

\* A boot that finds no object table, or meets an error of the storage below,
\* gives the store up.
GiveUp ==
  /\ job = NULL
  /\ \/ store = LOST /\ UNCHANGED faults
     \/ faults' = faults - 1
  /\ health' = "wiping"
  /\ UNCHANGED <<store, job, reply>>

\* Until the empty store is complete, and if power fails before, a boot may find
\* the store, none, or what it was before an update that it has replaced.
Wipe ==
  /\ health = "wiping"
  /\ \/ store' \in Stores /\ UNCHANGED health
     \/ store = NoAssets /\ UNCHANGED store /\ health' = "sound"
  /\ faults' \in {faults, faults - 1}
  /\ UNCHANGED <<job, reply>>

StoreNext ==
  \/ Begin \/ Spend \/ Commit \/ Return
  \/ PowerLoss \/ Boot \/ GiveUp \/ Wipe

StoreSpec == StoreInit /\ [][StoreNext]_storeVars
=============================================================================
