-------------------------------- MODULE Sst --------------------------------
(***************************************************************************)
(* Protected storage (services/secure_storage): objects in files of the    *)
(* internal trusted storage, found through an object table that is itself  *)
(* kept in one of two files and authenticated with non-volatile counters.  *)
(*                                                                         *)
(* An update writes the object to a file that the table does not refer to, *)
(* then the changed table to the file that does not hold the active table, *)
(* and then removes what it has replaced.  Power may fail between any two  *)
(* operations on files and counters; at boot the counters tell which table *)
(* is the active one.                                                      *)
(*                                                                         *)
(* Modelled for SST_ENCRYPTION and SST_CREATE_FLASH_LAYOUT, with and       *)
(* without SST_ROLLBACK_PROTECTION.  A file of internal trusted storage    *)
(* changes as ItsStore says: it is deleted, created in part, completed.    *)
(***************************************************************************)
EXTENDS Naturals, FiniteSetsExt

CONSTANTS
  Obj, Val, TooBig, NumAssets, NULL, LOST,   \* as in SstStore
  NvcMax,    \* the greatest value of a non-volatile counter (UINT32_MAX)
  SwapMax,   \* SST_FLASH_DEFAULT_VAL, a swap count that is never stored
  Builds     \* pairs: SST_ROLLBACK_PROTECTION, errors internal storage makes

ASSUME SstAssumption ==
  /\ NumAssets \in Nat \ {0}
  /\ NvcMax \in Nat \ {0}
  /\ SwapMax \in Nat /\ SwapMax >= 3
  /\ Builds \subseteq BOOLEAN \X Nat
  /\ NULL \notin Obj \cup Val /\ TooBig \notin Val

VARIABLES
  rollback,   \* whether SST_ROLLBACK_PROTECTION is compiled in
  faults,     \* how many errors internal trusted storage has left to make
  its,        \* the files of internal trusted storage
  nvc,        \* TFM_SST_NV_COUNTER_1, _2 and _3
  ctx,        \* sst_obj_table_ctx: table, swap count, active and scratch file
  undo,       \* the table as it was before the change that is being saved
  boot,       \* which attempt of tfm_sst_init() runs, "done" after it
  pc,         \* where the service is
  req,        \* the request that is being served
  fid,        \* g_obj_tbl_info.fid
  old,        \* old_fid
  reply       \* what the last request returned

request == <<req, fid, old, reply>>
service == <<ctx, undo, boot>>
sstVars == <<rollback, faults, its, nvc, ctx, undo, boot, pc, req, fid, old, reply>>

-----------------------------------------------------------------------------
\* Files.

Idx == 0..NumAssets             \* SST_OBJ_TABLE_ENTRIES
TableIdx == {0, 1}
SST_TABLE_FS_ID(t) == t + 1
SST_OBJECT_FS_ID(i) == i + 1 + SST_TABLE_FS_ID(1)
SST_OBJECT_FS_ID_TO_IDX(f) == f - 1 - SST_TABLE_FS_ID(1)
FileId == {SST_TABLE_FS_ID(t) : t \in TableIdx} \cup {SST_OBJECT_FS_ID(i) : i \in Idx}

Part(data) == [data |-> data, whole |-> FALSE]
Whole(data) == [data |-> data, whole |-> TRUE]

\* An object authenticates if its file is whole and is the one that the tag in
\* the table was computed for: the tag covers the file id and the asset.
Tag(f, asset) == <<f, asset>>
Entry(o, f, asset) == [obj |-> o, tag |-> Tag(f, asset)]

sst_encrypted_object_read(entry, f) ==
  LET file == its[f] IN
  IF file # NULL /\ file.whole /\ entry.tag = Tag(f, file.data) THEN file.data ELSE NULL

EmptyTable == [i \in Idx |-> NULL]

\* The contents of files and of object tables.  NULL stands for a file, an entry
\* or an old object that is not there, and is none of them.
Asset == [val: Val, once: BOOLEAN]
ObjectFile == [data: Asset, whole: BOOLEAN]
TableEntry == [obj: Obj, tag: FileId \X Asset]
ObjectTable == [Idx -> TableEntry \cup {NULL}]
TableFile == [data: [table: ObjectTable, count: Nat], whole: BOOLEAN]

\* sst_obj_table_ctx
Context == [table: ObjectTable, count: Nat, active: TableIdx, scratch: TableIdx]

Status == {"PSA_SUCCESS", "PSA_ERROR_GENERIC_ERROR", "PSA_ERROR_DOES_NOT_EXIST",
           "PSA_ERROR_INVALID_ARGUMENT", "PSA_ERROR_NOT_PERMITTED",
           "PSA_ERROR_INSUFFICIENT_STORAGE"}
Reply == [status: Status, data: Asset \cup {NULL}]

ASSUME NullAssumption ==
  NULL \notin Nat \cup Asset \cup ObjectFile \cup TableEntry \cup TableFile \cup Reply

-----------------------------------------------------------------------------
\* Which table a boot finds.

Table(t) == its[SST_TABLE_FS_ID(t)]

\* Mutant: only counter 1 authenticates a table.
Authenticated_nvc1(n) == IF n = nvc[1] THEN "NVC_1_VALID" ELSE "INVALID"

\* sst_object_table_authenticate(): the counter value is part of what the tag of
\* a table covers.  Counter 3 is not used if it differs from counter 2, and 0 is
\* not a value of it.
Authenticated(n) ==
  CASE n = nvc[1] -> "NVC_1_VALID"
    [] n # nvc[1] /\ n = nvc[3] /\ nvc[3] = nvc[2] /\ nvc[3] # 0 -> "NVC_3_VALID"
    [] OTHER -> "INVALID"

\* A table file that is not whole does not authenticate.
TableState(t) ==
  IF Table(t) = NULL \/ ~Table(t).whole THEN "INVALID"
  ELSE IF rollback THEN Authenticated(Table(t).data.count) ELSE "VALID"

ValidTables == {t \in TableIdx : TableState(t) # "INVALID"}

sst_set_active_object_table ==
  LET n0 == Table(0).data.count
      n1 == Table(1).data.count
  IN CASE ValidTables # TableIdx -> CHOOSE t \in ValidTables : TRUE
       [] ValidTables = TableIdx /\ rollback ->
            IF TableState(1) = "NVC_1_VALID" THEN 1 ELSE 0
       [] ValidTables = TableIdx /\ ~rollback ->
            CASE n1 = 0 /\ n0 # 1 -> 1
              [] ~(n1 = 0 /\ n0 # 1) /\ n0 = 0 /\ n1 # 1 -> 0
              [] OTHER -> IF n1 > n0 THEN 1 ELSE 0

-----------------------------------------------------------------------------
\* Entries of the table in the context.

\* sst_get_object_entry_idx(): at most one entry names an object.
EntriesOf(o) == {i \in Idx : ctx.table[i] # NULL /\ ctx.table[i].obj = o}
FreeIdx == {i \in Idx : ctx.table[i] = NULL}

\* The asset of the object, NULL if there is none or it does not authenticate.
AssetOf(o) ==
  IF EntriesOf(o) = {} THEN NULL
  ELSE LET i == CHOOSE i \in EntriesOf(o) : TRUE
       IN sst_encrypted_object_read(ctx.table[i], SST_OBJECT_FS_ID(i))

\* sst_table_free_idx(): the last of the first n free entries.
NthFree(n) == CHOOSE i \in FreeIdx : Cardinality({j \in FreeIdx : j <= i}) = n

-----------------------------------------------------------------------------
\* Operations on files, with what follows when they succeed and when they fail.

Fault ==
  /\ faults > 0
  /\ faults' = faults - 1
  /\ UNCHANGED its

SetFile(f, content) ==
  /\ its' = [its EXCEPT ![f] = content]
  /\ UNCHANGED faults

\* A failed write of tfm_its_set(): it deletes the partial file, whatever the
\* deletion returns.
FailedFill(f) ==
  /\ faults > 0
  /\ faults' = faults - 1
  /\ its' \in {its, [its EXCEPT ![f] = NULL]}

Return(status, data) ==
  /\ pc' = "ready"
  /\ req' = NULL /\ fid' = NULL /\ old' = NULL
  /\ reply' = [status |-> status, data |-> data]

\* psa_its_remove() of a file that may not exist.
RemoveFile(f, next) ==
  /\ SetFile(f, NULL)
  /\ pc' = next
  /\ UNCHANGED request

-----------------------------------------------------------------------------
\* tfm_sst_init(): sst_system_prepare(), and if it fails sst_system_wipe_all()
\* and sst_system_prepare() once more.

\* sst_object_table_create(), up to the saving of the empty table to file 0.
Wipe ==
  IF boot = "first"
    THEN /\ boot' = "wipe" /\ pc' = "save"
         /\ ctx' = [table |-> EmptyTable, count |-> 0, active |-> 1, scratch |-> 0]
         /\ undo' = EmptyTable
    ELSE /\ pc' = "abort"
         /\ UNCHANGED service

\* The tables are read and authenticated.
Prepare ==
  /\ pc = "prepare"
  /\ IF ValidTables = {}
       THEN Wipe
       ELSE LET t == sst_set_active_object_table IN
            /\ ctx' = [table |-> Table(t).data.table, count |-> Table(t).data.count,
                       active |-> t, scratch |-> 1 - t]
            /\ pc' = "init_remove"
            /\ UNCHANGED <<undo, boot>>
  /\ UNCHANGED <<rollback, faults, its, nvc, request>>

\* sst_object_table_init() removes the old table file, if there is one.
InitRemove ==
  /\ pc = "init_remove"
  /\ \/ RemoveFile(SST_TABLE_FS_ID(ctx.scratch), "align") /\ UNCHANGED service
     \/ Fault /\ Wipe /\ UNCHANGED request
  /\ UNCHANGED <<rollback, nvc>>

-----------------------------------------------------------------------------
\* sst_object_table_save_table().

NextCount(n) == IF n + 1 = SwapMax THEN 0 ELSE n + 1

\* The callers undo the change of the table in the context.  The new object of
\* a set request is removed.
SaveFailed ==
  /\ ctx' = [ctx EXCEPT !.table = undo]
  /\ undo' = NULL
  /\ CASE boot # "done" -> pc' = "abort" /\ UNCHANGED request
       [] boot = "done" /\ req.op = "set" -> pc' = "undo_object" /\ UNCHANGED request
       [] OTHER -> Return("PSA_ERROR_GENERIC_ERROR", NULL)
  /\ UNCHANGED boot

\* Counter 1 is incremented before the table is written, or the swap count.
Save ==
  /\ pc = "save"
  /\ IF rollback /\ nvc[1] = NvcMax
       THEN SaveFailed /\ UNCHANGED nvc
       ELSE /\ pc' = "table_delete"
            /\ IF rollback
                 THEN nvc' = [nvc EXCEPT ![1] = @ + 1] /\ UNCHANGED ctx
                 ELSE ctx' = [ctx EXCEPT !.count = NextCount(@)] /\ UNCHANGED nvc
            /\ UNCHANGED <<undo, boot, request>>
  /\ UNCHANGED <<rollback, faults, its>>

\* The table as it is written: its tag is computed with counter 1.
SavedTable == [table |-> ctx.table, count |-> IF rollback THEN nvc[1] ELSE ctx.count]

\* The file that sst_object_table_fs_write_table() writes.
WrittenTable == SST_TABLE_FS_ID(ctx.scratch)

\* psa_its_set() of the table deletes a file that is there, creates a new one
\* and fills it; then active and scratch are swapped.
TableDelete ==
  /\ pc = "table_delete"
  /\ \/ RemoveFile(WrittenTable, "table_create") /\ UNCHANGED service
     \/ Fault /\ SaveFailed
  /\ UNCHANGED <<rollback, nvc>>

TableCreate ==
  /\ pc = "table_create"
  /\ \/ /\ SetFile(WrittenTable, Part(SavedTable))
        /\ pc' = "table_fill"
        /\ UNCHANGED <<service, request>>
     \/ Fault /\ SaveFailed
  /\ UNCHANGED <<rollback, nvc>>

TableFill ==
  /\ pc = "table_fill"
  /\ \/ /\ SetFile(WrittenTable, Whole(SavedTable))
        /\ ctx' = [ctx EXCEPT !.active = ctx.scratch, !.scratch = ctx.active]
        /\ undo' = NULL
        /\ pc' = "align"
        /\ UNCHANGED <<boot, request>>
     \/ FailedFill(WrittenTable) /\ SaveFailed
  /\ UNCHANGED <<rollback, nvc>>

\* Mutant: the counters are only aligned at boot.
Lagging_boot == {n \in {2, 3} : boot # "done" /\ nvc[n] < nvc[1]}

\* The counters that sst_object_table_align_nv_counters() has to increment.
Lagging == {n \in {2, 3} : nvc[n] < nvc[1]}

\* sst_object_table_align_nv_counters(): counter 2 first, then counter 3, by
\* increments of one.  It ends both a save and a boot.
Align ==
  /\ pc = "align" /\ Lagging # {}
  /\ nvc' = [nvc EXCEPT ![Min(Lagging)] = @ + 1]
  /\ UNCHANGED <<rollback, faults, its, service, pc, request>>

\* After a save of the wiped table the boot goes on with sst_system_prepare().
Aligned ==
  /\ pc = "align" /\ Lagging = {}
  /\ CASE boot = "wipe" -> pc' = "prepare" /\ boot' = "again"
       [] boot \in {"first", "again"} -> pc' = "ready" /\ boot' = "done"
       [] boot = "done" -> pc' = "remove_table" /\ UNCHANGED boot
  /\ UNCHANGED <<rollback, faults, its, nvc, ctx, undo, request>>

-----------------------------------------------------------------------------
\* Requests.

Job ==
  [op: {"set"}, obj: Obj, val: Val \cup {TooBig}, once: BOOLEAN]
    \cup [op: {"get"}, obj: Obj, beyond: BOOLEAN]   \* offset > current_size
    \cup [op: {"remove"}, obj: Obj]

\* LOST is no map of assets, and NULL no table, context or request.
ASSUME AbsentAssumption ==
  /\ LOST \notin [Obj -> Asset \cup {NULL}]
  /\ NULL \notin ObjectTable \cup Context \cup Job

Begin ==
  /\ pc = "ready"
  /\ req' \in Job
  /\ reply' = NULL
  /\ pc' = "serve"
  /\ UNCHANGED <<rollback, faults, its, nvc, service, fid, old>>

Serve(op) == pc = "serve" /\ req.op = op
Unserved == UNCHANGED <<rollback, faults, its, nvc, service>>

Known == EntriesOf(req.obj) # {}
Refuse(status) == Return(status, NULL) /\ Unserved

\* tfm_sst_get(), and tfm_sst_get_info(), which reads the same object and has
\* no offset to check.
Get ==
  /\ Serve("get")
  /\ CASE ~Known -> Refuse("PSA_ERROR_DOES_NOT_EXIST")
       [] Known /\ AssetOf(req.obj) = NULL -> Refuse("PSA_ERROR_GENERIC_ERROR")
       [] Known /\ AssetOf(req.obj) # NULL /\ req.beyond ->
            Refuse("PSA_ERROR_INVALID_ARGUMENT")
       [] OTHER -> Return("PSA_SUCCESS", AssetOf(req.obj)) /\ Unserved

\* Mutant: a new object may take the last free entry.
Reserved_one == 1

\* fid_am_reserved: a new object must leave an entry free.
Reserved == IF Known THEN 1 ELSE 2

\* sst_object_create() up to the choice of a file for the new object.
Set ==
  /\ Serve("set")
  /\ CASE req.val = TooBig -> Refuse("PSA_ERROR_INVALID_ARGUMENT")
       [] req.val # TooBig /\ Known /\ AssetOf(req.obj) = NULL ->
            Refuse("PSA_ERROR_GENERIC_ERROR")
       [] req.val # TooBig /\ Known /\ AssetOf(req.obj) # NULL /\ AssetOf(req.obj).once ->
            Refuse("PSA_ERROR_NOT_PERMITTED")
       [] OTHER ->
            IF Cardinality(FreeIdx) < Reserved
              THEN Refuse("PSA_ERROR_INSUFFICIENT_STORAGE")
              ELSE /\ fid' = SST_OBJECT_FS_ID(NthFree(Reserved))
                   /\ old' = IF Known THEN SST_OBJECT_FS_ID(CHOOSE i \in EntriesOf(req.obj) : TRUE)
                             ELSE NULL
                   /\ pc' = "free_fid"
                   /\ UNCHANGED <<req, reply>> /\ Unserved

\* sst_object_table_get_free_fid() removes what an interrupted request left.
FreeFid ==
  /\ pc = "free_fid"
  /\ \/ RemoveFile(fid, "object_create")
     \/ Fault /\ Return("PSA_ERROR_GENERIC_ERROR", NULL)
  /\ UNCHANGED <<rollback, nvc, service>>

NewAsset == [val |-> req.val, once |-> req.once]

\* sst_encrypted_object_write(): psa_its_set() of a file that does not exist.
ObjectCreate ==
  /\ pc = "object_create"
  /\ \/ SetFile(fid, Part(NewAsset)) /\ pc' = "object_fill" /\ UNCHANGED request
     \/ Fault /\ Return("PSA_ERROR_GENERIC_ERROR", NULL)
  /\ UNCHANGED <<rollback, nvc, service>>

\* Mutant: the object keeps its old entry too.
WithObject_twice(table) ==
  [table EXCEPT ![SST_OBJECT_FS_ID_TO_IDX(fid)] = Entry(req.obj, fid, NewAsset)]

\* sst_object_table_set_obj_tbl_info(): the new entry replaces the old one.
WithObject(table) ==
  [i \in Idx |-> IF i = SST_OBJECT_FS_ID_TO_IDX(fid) THEN Entry(req.obj, fid, NewAsset)
                 ELSE IF i \in EntriesOf(req.obj) THEN NULL ELSE table[i]]

ObjectFill ==
  /\ pc = "object_fill"
  /\ \/ /\ SetFile(fid, Whole(NewAsset))
        /\ ctx' = [ctx EXCEPT !.table = WithObject(@)]
        /\ undo' = ctx.table
        /\ pc' = "save"
        /\ UNCHANGED <<boot, request>>
     \/ /\ FailedFill(fid) /\ Return("PSA_ERROR_GENERIC_ERROR", NULL)
        /\ UNCHANGED service
  /\ UNCHANGED <<rollback, nvc>>

\* The table could not be saved: remove the new object, whatever that returns.
UndoObject ==
  /\ pc = "undo_object"
  /\ SetFile(fid, NULL) \/ Fault
  /\ Return("PSA_ERROR_GENERIC_ERROR", NULL)
  /\ UNCHANGED <<rollback, nvc, service>>

\* sst_object_delete() up to the saving of the table.
Remove ==
  /\ Serve("remove")
  /\ CASE ~Known -> Refuse("PSA_ERROR_DOES_NOT_EXIST")
       [] Known /\ AssetOf(req.obj) = NULL -> Refuse("PSA_ERROR_GENERIC_ERROR")
       [] Known /\ AssetOf(req.obj) # NULL /\ AssetOf(req.obj).once ->
            Refuse("PSA_ERROR_NOT_PERMITTED")
       [] OTHER ->
            LET i == CHOOSE i \in EntriesOf(req.obj) : TRUE IN
            /\ old' = SST_OBJECT_FS_ID(i)
            /\ ctx' = [ctx EXCEPT !.table[i] = NULL]
            /\ undo' = ctx.table
            /\ pc' = "save"
            /\ UNCHANGED <<rollback, faults, its, nvc, boot, req, fid, reply>>

\* sst_remove_old_data(): the old table, then the old object if there is one.
RemoveTable ==
  /\ pc = "remove_table"
  /\ LET f == SST_TABLE_FS_ID(ctx.scratch) IN
     \/ /\ its[f] # NULL
        /\ IF old = NULL
             THEN SetFile(f, NULL) /\ Return("PSA_SUCCESS", NULL)
             ELSE RemoveFile(f, "remove_object")
     \/ /\ its[f] = NULL
        /\ Return("PSA_ERROR_DOES_NOT_EXIST", NULL)
        /\ UNCHANGED <<its, faults>>
     \/ Fault /\ Return("PSA_ERROR_GENERIC_ERROR", NULL)
  /\ UNCHANGED <<rollback, nvc, service>>

RemoveObject ==
  /\ pc = "remove_object"
  /\ \/ SetFile(old, NULL) /\ Return("PSA_SUCCESS", NULL)
     \/ Fault /\ Return("PSA_ERROR_GENERIC_ERROR", NULL)
  /\ UNCHANGED <<rollback, nvc, service>>

-----------------------------------------------------------------------------

\* Power fails, or the device is reset: files and counters stay.
PowerFail ==
  /\ pc' = "prepare" /\ boot' = "first"
  /\ ctx' = NULL /\ undo' = NULL
  /\ req' = NULL /\ fid' = NULL /\ old' = NULL /\ reply' = NULL
  /\ UNCHANGED <<rollback, faults, its, nvc>>

SstInit ==
  /\ \E b \in Builds : rollback = b[1] /\ faults = b[2]
  /\ its = [f \in FileId |-> NULL]
  /\ nvc = [n \in 1..3 |-> 0]
  /\ pc = "prepare" /\ boot = "first"
  /\ ctx = NULL /\ undo = NULL
  /\ req = NULL /\ fid = NULL /\ old = NULL /\ reply = NULL

SstNext ==
  \/ Prepare \/ InitRemove
  \/ Save \/ TableDelete \/ TableCreate \/ TableFill \/ Align \/ Aligned
  \/ Begin \/ Get \/ Set \/ FreeFid \/ ObjectCreate \/ ObjectFill \/ UndoObject
  \/ Remove \/ RemoveTable \/ RemoveObject
  \/ PowerFail

SstSpec == SstInit /\ [][SstNext]_sstVars

-----------------------------------------------------------------------------
\* Properties.

\* The assets that a table refers to; LOST for one that does not authenticate.
AssetsOf(table) ==
  LET at(o) == {i \in Idx : table[i] # NULL /\ table[i].obj = o}
      read(i) == sst_encrypted_object_read(table[i], SST_OBJECT_FS_ID(i))
  IN [o \in Obj |-> IF at(o) = {} THEN NULL
                    ELSE LET i == CHOOSE i \in at(o) : TRUE
                         IN IF read(i) = NULL THEN LOST ELSE read(i)]

\* The assets that a boot would find at this moment.
Persistent ==
  IF ValidTables = {} THEN LOST ELSE AssetsOf(Table(sst_set_active_object_table).data.table)

\* The assets of the clients: those the service has in memory, without a change
\* that is not saved yet, or while there is no table in memory those in flash.
Assets ==
  IF ctx = NULL \/ pc = "prepare" \/ boot = "wipe" THEN Persistent
  ELSE AssetsOf(IF undo = NULL THEN ctx.table ELSE undo)

\* What a power failure would do to them, as in SstStore.
Health ==
  CASE boot \in {"wipe", "again"} -> "wiping"
    [] boot \notin {"wipe", "again"} /\ ValidTables = {} -> "risk"
    [] OTHER -> IF \E t \in ValidTables : TableState(t) # "NVC_3_VALID"
                  THEN "sound" ELSE "spent"

Store == INSTANCE SstStore WITH
  store <- Assets, health <- Health, job <- req

\* Updates are atomic and durable: what a boot would find changes only when the
\* table of a set or remove request is complete, requests return what is stored
\* and success only for what is stored, and a power failure anywhere changes
\* nothing, unless a boot after an update that did not complete came before it
\* (sst_object_create(), sst_object_delete(), sst_object_table_init()).
StoreRefined == Store!StoreSpec

\* A request that is not refused fails only for a reason: an error of internal
\* trusted storage, or counter 1 at its greatest value.  In particular every
\* object that the table refers to authenticates (sst_object_create(),
\* sst_object_delete(), sst_object_read()).
FailsForAReason ==
  reply # NULL /\ reply.status = "PSA_ERROR_GENERIC_ERROR" =>
    \/ \E b \in Builds : b[1] = rollback /\ faults < b[2]
    \/ rollback /\ nvc[1] = NvcMax

\* An object in the table can always be replaced: when no request is being
\* served, sst_table_free_idx() finds a free entry for the new version of it.
AlwaysRoom == pc = "ready" => FreeIdx # {}

\* Rollback protection: after a boot, and after an update (set or remove) that
\* has returned success, no table that was written earlier authenticates any more
\* (sst_object_table_align_nv_counters()).
OldTablesRejected ==
  /\ rollback /\ pc = "ready"
  /\ reply = NULL \/ (reply.status = "PSA_SUCCESS" /\ reply.data = NULL)
  => \A n \in 0..(nvc[1] - 1) : Authenticated(n) = "INVALID"

\* Resistance to power failures: once a boot would find an object table, every
\* step leaves one that a boot would find.
AlwaysATable == [][ValidTables # {} => ValidTables' # {}]_sstVars
=============================================================================
