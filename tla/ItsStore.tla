------------------------------ MODULE ItsStore ------------------------------
(***************************************************************************)
(* What internal trusted storage promises to its clients, whatever power   *)
(* failures interrupt it: a map from file ids to assets.  A request        *)
(* changes the asset it names and no other; it does so in whole steps      *)
(* (delete, create with the first chunk, append one chunk), each of which  *)
(* happens or does not happen; success is only reported when the request   *)
(* has been carried out; an asset stored as write-once is never deleted.   *)
(***************************************************************************)
EXTENDS Naturals, FiniteSetsExt

CONSTANTS
  Fid,    \* file ids: client id and uid
  Val,    \* what a client stores
  Lens,   \* lengths of assets, in chunks of the flash
  Buf,    \* ITS_BUF_SIZE: how much one step of a set request stores
  NULL

VARIABLES
  store,   \* the asset of each file id, NULL if there is none
  job,     \* the request that is being served, NULL if there is none
  reply    \* the status the last request returned

storeVars == <<store, job, reply>>

SetJob == [op: {"set"}, fid: Fid, val: Val, len: Lens, once: BOOLEAN]
RemoveJob == [op: {"remove"}, fid: Fid]

\* The first n chunks of what a set request stores.  Requests for different
\* files store different data, so that no file can be taken for another.
Chunks(j, n) == [k \in 1..n |-> <<j.fid, j.val, k>>]

Asset(j, n) == [data |-> Chunks(j, n), cap |-> j.len, once |-> j.once]

StoreInit ==
  /\ store = [f \in Fid |-> NULL]
  /\ job = NULL
  /\ reply = NULL

Begin ==
  /\ job = NULL
  /\ job' \in SetJob \cup RemoveJob
  /\ reply' = NULL
  /\ UNCHANGED store

\* A step of the request that replaces its asset by another one, or by none.
Update(new) ==
  /\ UNCHANGED <<job, reply>>
  /\ store' = [store EXCEPT ![job.fid] = new]

Delete ==
  /\ job # NULL
  /\ LET a == store[job.fid] IN a # NULL /\ ~a.once
  /\ Update(NULL)

Create ==
  /\ job # NULL /\ job.op = "set"
  /\ store[job.fid] = NULL
  /\ Update(Asset(job, Min({Buf, job.len})))

Append ==
  /\ job # NULL /\ job.op = "set"
  /\ LET a == store[job.fid] IN
       \E n \in 0..(job.len - 1) :
         a = Asset(job, n) /\ Update(Asset(job, Min({n + Buf, job.len})))

\* The states in which a request may return each status.
MayReply(r) ==
  LET a == store[job.fid] IN
  \/ r = "PSA_SUCCESS" /\ job.op = "set" /\ a = Asset(job, job.len)
  \/ r = "PSA_SUCCESS" /\ job.op = "remove" /\ a = NULL
  \/ r = "PSA_ERROR_NOT_PERMITTED" /\ a # NULL /\ a.once
  \/ r = "PSA_ERROR_DOES_NOT_EXIST" /\ job.op = "remove" /\ a = NULL
  \/ r \in {"PSA_ERROR_INVALID_ARGUMENT", "PSA_ERROR_INSUFFICIENT_STORAGE"}
       /\ job.op = "set" /\ a = NULL

Return(r) ==
  /\ job # NULL
  /\ job' = NULL
  /\ reply' = r
  /\ MayReply(r)
  /\ UNCHANGED store

\* A power failure forgets the request and keeps every asset.
PowerLoss ==
  /\ job' = NULL
  /\ reply' = NULL
  /\ UNCHANGED store

Status == {"PSA_SUCCESS", "PSA_ERROR_NOT_PERMITTED", "PSA_ERROR_DOES_NOT_EXIST",
           "PSA_ERROR_INVALID_ARGUMENT", "PSA_ERROR_INSUFFICIENT_STORAGE"}

StoreNext ==
  \/ Begin \/ PowerLoss
  \/ Delete \/ Create \/ Append
  \/ \E r \in Status : Return(r)

StoreSpec == StoreInit /\ [][StoreNext]_storeVars
=============================================================================
