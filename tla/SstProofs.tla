----------------------------- MODULE SstProofs -----------------------------
(***************************************************************************)
(* Proofs about protected storage (module Sst), for any objects, values,   *)
(* number of assets, counter range and number of storage errors: an object *)
(* can always be replaced, a replaced object table never authenticates     *)
(* again, no request fails without a reason, and the service implements    *)
(* the atomic store of SstStore.                                           *)
(*                                                                         *)
(* No request fails without a reason (SstIInv).  As long as there          *)
(* was no reason to fail (~Excused) every table file refers only to object *)
(* files that are whole and that its tags were computed for                *)
(* (AuthenticInv).  Object files change only while there is one table file *)
(* and it is the one in memory, and only at entries it does not use; the   *)
(* table that replaces it is written before the object it replaces goes.   *)
(*                                                                         *)
(* The refinement (StoreInv).  The file of the active table holds the      *)
(* table to go back to, and the other table is not whole or can never      *)
(* authenticate again: its count is below counter 3, or precedes that of   *)
(* the active one.  So a boot that finds a table finds the one that the    *)
(* service works with, and the store changes in one step, the completion   *)
(* of the new table.                                                       *)
(***************************************************************************)
EXTENDS Sst, TLAPS, FiniteSetTheorems

\* The files of objects; where the service is in a save, in the writing of a new
\* object, and in the removal of what it has replaced.
ObjectId == {SST_OBJECT_FS_ID(i) : i \in Idx}
Saving == {"save", "table_delete", "table_create", "table_fill"}
Writing == {"free_fid", "object_create", "object_fill"}
Removing == {"remove_table", "remove_object"}
SstPc == {"prepare", "abort", "init_remove", "align", "ready", "serve", "undo_object"}
           \cup Saving \cup Writing \cup Removing

\* The service has the table in memory that it works on.
InMemory == pc \notin {"prepare", "abort"}

\* The files of internal trusted storage hold tables and objects.
FilesInv ==
  /\ DOMAIN its = FileId
  /\ its = [f \in FileId |-> its[f]]
  /\ \A t \in TableIdx : Table(t) \in TableFile \cup {NULL}
  /\ \A f \in ObjectId : its[f] \in ObjectFile \cup {NULL}

\* The service, its context and the counters are well formed; the scratch table
\* is the one that is not active.
ServiceInv ==
  /\ rollback \in BOOLEAN /\ faults \in Nat /\ nvc \in [1..3 -> Nat]
  /\ pc \in SstPc /\ boot \in {"first", "wipe", "again", "done"}
  /\ InMemory => ctx \in Context /\ ctx.scratch = 1 - ctx.active
  /\ pc \in Saving => undo \in ObjectTable

\* Which variables of a request are in use where.
RequestInv ==
  /\ pc \in {"ready", "serve", "undo_object"} \cup Writing \cup Removing => boot = "done"
  /\ /\ boot = "done"
     /\ pc \in {"serve", "undo_object", "align"} \cup Saving \cup Writing \cup Removing
     =>
       req \in Job
  /\ pc \in {"prepare", "init_remove"} => boot \in {"first", "again"}
  /\ pc \in Saving => boot \in {"wipe", "done"}
  /\ pc \in Writing => req.op = "set" /\ req.val # TooBig
  /\ pc \in Writing \cup {"undo_object"} => fid \in ObjectId
  /\ pc \in Saving /\ boot = "done" /\ req.op = "set" => fid \in ObjectId
  /\ old \in ObjectId \cup {NULL}
  /\ pc = "remove_object" => old # NULL

\* A table with a free entry.
HasRoom(table) == \E i \in Idx : table[i] = NULL

\* Every table has a free entry, in flash and in memory, and so has the table
\* that a request is about to make: a new object leaves an entry free, a new
\* version of an object releases one.
RoomInv ==
  /\ \A t \in TableIdx : Table(t) # NULL => HasRoom(Table(t).data.table)
  /\ InMemory => HasRoom(ctx.table)
  /\ pc \in Saving => HasRoom(undo)
  /\ pc \in Writing =>
       \E i \in Idx : /\ i # SST_OBJECT_FS_ID_TO_IDX(fid)
                      /\ ctx.table[i] = NULL \/ i \in EntriesOf(req.obj)

\* A boot or a successful set or remove request came last.
Saved == reply = NULL \/ (reply.status = "PSA_SUCCESS" /\ reply.data = NULL)

\* Counter 3 has caught up when the service goes on to remove old data.
CounterInv ==
  pc \in Removing \/ (pc = "ready" /\ Saved) => nvc[1] <= nvc[3]

\* Errors of internal trusted storage are only ever used up.
FaultInv == \E b \in Builds : b[1] = rollback /\ faults <= b[2]

\* What FailsForAReason accepts as a reason; once there is one it remains.
Excused ==
  \/ \E b \in Builds : b[1] = rollback /\ faults < b[2]
  \/ rollback /\ nvc[1] = NvcMax

\* Every entry of the table authenticates in these files.
Authentic(files, table) ==
  \A i \in Idx : table[i] # NULL =>
    LET f == SST_OBJECT_FS_ID(i) IN
    /\ files[f] # NULL /\ files[f].whole
    /\ table[i].tag = Tag(f, files[f].data)

\* The active file holds the table that is in memory; no other table is there.
Current == Table(ctx.active) # NULL /\ Table(ctx.active).data.table = ctx.table

OnlyActive == Current /\ Table(ctx.scratch) = NULL

TablesAuthentic ==
  \A t \in TableIdx : Table(t) # NULL => Authentic(its, Table(t).data.table)

\* All tables authenticate; while objects are written there is one table, the
\* new object is none of its entries, and the old object leaves it before its
\* file is removed.
AuthenticInv ==
  /\ TablesAuthentic
  /\ InMemory => Authentic(its, ctx.table)
  /\ pc \in {"ready", "serve", "remove_object"} \cup Writing => OnlyActive
  /\ pc = "align" /\ boot \in {"first", "again"} => OnlyActive
  /\ pc = "init_remove" => Current
  /\ pc \in {"align", "remove_table"} /\ boot = "done" => Current
  /\ pc \in Writing =>
       /\ ctx.table[SST_OBJECT_FS_ID_TO_IDX(fid)] = NULL
       /\ old # NULL => SST_OBJECT_FS_ID_TO_IDX(old) \in EntriesOf(req.obj)
  /\ pc \in Saving \cup Removing \cup {"align"} /\ boot = "done" /\ old # NULL =>
       ctx.table[SST_OBJECT_FS_ID_TO_IDX(old)] = NULL
  /\ pc # "undo_object"
  /\ reply # NULL => reply.status # "PSA_ERROR_GENERIC_ERROR"

\* The inductive invariant.
SstIInv ==
  /\ FilesInv
  /\ ServiceInv
  /\ RequestInv
  /\ RoomInv
  /\ CounterInv
  /\ FaultInv
  /\ ~Excused => AuthenticInv
-----------------------------------------------------------------------------
\* Files of tables and of objects have different ids, and an id has one index.
LEMMA FileIds ==
  /\ \A t \in TableIdx : SST_TABLE_FS_ID(t) \in FileId
  /\ \A i \in Idx : SST_OBJECT_FS_ID(i) \in ObjectId
  /\ ObjectId \subseteq FileId
  /\ \A t \in TableIdx : \A f \in ObjectId : SST_TABLE_FS_ID(t) # f
  /\ \A t, u \in TableIdx : SST_TABLE_FS_ID(t) = SST_TABLE_FS_ID(u) => t = u
  /\ \A i, j \in Idx : SST_OBJECT_FS_ID(i) = SST_OBJECT_FS_ID(j) => i = j
  /\ \A i \in Idx : SST_OBJECT_FS_ID_TO_IDX(SST_OBJECT_FS_ID(i)) = i
  /\ \A f \in ObjectId : /\ SST_OBJECT_FS_ID_TO_IDX(f) \in Idx
                         /\ SST_OBJECT_FS_ID(SST_OBJECT_FS_ID_TO_IDX(f)) = f
BY SstAssumption DEF SST_TABLE_FS_ID, SST_OBJECT_FS_ID, SST_OBJECT_FS_ID_TO_IDX,
                     FileId, ObjectId, Idx, TableIdx

\* Writing or removing the file of an object.
LEMMA ObjectWritten ==
  ASSUME FilesInv, NEW f \in ObjectId, NEW c \in ObjectFile \cup {NULL},
         its' = [its EXCEPT ![f] = c]
  PROVE  /\ FilesInv'
         /\ \A t \in TableIdx : Table(t)' = Table(t)
         /\ \A g \in ObjectId : its'[g] = IF g = f THEN c ELSE its[g]
<1>1. f \in FileId /\ its' = [g \in FileId |-> IF g = f THEN c ELSE its[g]]
  BY FileIds DEF FilesInv
<1>2. \A t \in TableIdx : Table(t)' = Table(t)
  BY <1>1, FileIds DEF Table
<1>3. \A g \in ObjectId : its'[g] = IF g = f THEN c ELSE its[g]
  BY <1>1, FileIds
<1> QED
  BY <1>1, <1>2, <1>3 DEF FilesInv

\* Writing or removing the file of a table.
LEMMA TableWritten ==
  ASSUME FilesInv, NEW t \in TableIdx, NEW c \in TableFile \cup {NULL},
         its' = [its EXCEPT ![SST_TABLE_FS_ID(t)] = c]
  PROVE  /\ FilesInv'
         /\ \A u \in TableIdx : Table(u)' = IF u = t THEN c ELSE Table(u)
         /\ \A g \in ObjectId : its'[g] = its[g]
<1> DEFINE f == SST_TABLE_FS_ID(t)
<1>1. f \in FileId /\ its' = [g \in FileId |-> IF g = f THEN c ELSE its[g]]
  BY FileIds DEF FilesInv
<1>2. \A u \in TableIdx : Table(u)' = IF u = t THEN c ELSE Table(u)
  BY <1>1, FileIds DEF Table
<1>3. \A g \in ObjectId : its'[g] = its[g]
  BY <1>1, FileIds
<1> QED
  BY <1>1, <1>2, <1>3 DEF FilesInv

\* A table file is removed.
LEMMA TableRemoved ==
  ASSUME FilesInv, NEW t \in TableIdx, its' = [its EXCEPT ![SST_TABLE_FS_ID(t)] = NULL]
  PROVE  /\ \A u \in TableIdx :
              its'[SST_TABLE_FS_ID(u)] = IF u = t THEN NULL ELSE its[SST_TABLE_FS_ID(u)]
         /\ \A g \in ObjectId : its'[g] = its[g]
<1>1. NULL \in TableFile \cup {NULL}
  OBVIOUS
<1>2. /\ \A u \in TableIdx : Table(u)' = IF u = t THEN NULL ELSE Table(u)
      /\ \A g \in ObjectId : its'[g] = its[g]
  BY <1>1, TableWritten
<1> QED
  BY <1>2 DEF Table

\* A reason to fail remains one; an error of internal storage is one.
LEMMA ExcusedKept ==
  ASSUME SstIInv, rollback' = rollback,
         faults' = faults \/ (faults' \in Nat /\ faults' = faults - 1),
         nvc'[1] = nvc[1] \/ nvc[1] # NvcMax \/ ~rollback
  PROVE  /\ FaultInv' /\ faults' \in Nat
         /\ Excused => Excused'
         /\ faults' # faults => Excused'
<1>1. faults \in Nat /\ \A b \in Builds : b[2] \in Nat
  BY SstAssumption DEF SstIInv, ServiceInv
<1>2. faults' \in Nat /\ faults' <= faults
  BY <1>1
<1>3. FaultInv'
  BY <1>1, <1>2 DEF SstIInv, FaultInv
<1>4. Excused => Excused'
  BY <1>1, <1>2 DEF Excused
<1>5. faults' # faults => Excused'
  BY <1>1, <1>2 DEF Excused, SstIInv, FaultInv
<1> QED
  BY <1>2, <1>3, <1>4, <1>5

\* A request returns.
LEMMA ReturnStep ==
  ASSUME SstIInv, boot = "done", NEW status \in Status, NEW data \in Asset \cup {NULL},
         Return(status, data),
         UNCHANGED <<rollback, nvc, boot>>,
         faults' = faults \/ (faults' \in Nat /\ faults' = faults - 1),
         ctx' \in Context, ctx'.scratch = 1 - ctx'.active, HasRoom(ctx'.table),
         FilesInv',
         \A t \in TableIdx : Table(t)' # NULL => HasRoom(Table(t)'.data.table),
         status = "PSA_SUCCESS" /\ data = NULL => nvc[1] <= nvc[3],
         ~Excused' =>
           /\ TablesAuthentic' /\ Authentic(its', ctx'.table) /\ OnlyActive'
           /\ status # "PSA_ERROR_GENERIC_ERROR"
  PROVE  SstIInv'
<1>1. /\ pc' = "ready" /\ old' = NULL /\ reply' = [status |-> status, data |-> data]
  BY DEF Return
<1>2. FaultInv' /\ faults' \in Nat
  BY ExcusedKept
<1>3. ServiceInv'
  BY <1>1, <1>2 DEF SstIInv, ServiceInv, InMemory, SstPc, Saving
<1>4. RequestInv'
  BY <1>1 DEF RequestInv, Saving, Writing, Removing
<1>5. RoomInv'
  BY <1>1 DEF RoomInv, InMemory, Saving, Writing
<1>6. CounterInv'
  <2>1. reply'.status = status /\ reply'.data = data
    BY <1>1
  <2>2. reply' # NULL
    BY <1>1, NullAssumption DEF Reply
  <2> QED
    BY <1>1, <2>1, <2>2 DEF CounterInv, Saved, Removing
<1>7. ~Excused' => AuthenticInv'
  BY <1>1 DEF AuthenticInv, InMemory, Saving, Writing, Removing
<1> QED
  BY <1>2, <1>3, <1>4, <1>5, <1>6, <1>7 DEF SstIInv

\* What sst_object_table_save_table() leaves when it fails.
LEMMA SaveFailedStep ==
  ASSUME SstIInv, pc \in Saving, SaveFailed, UNCHANGED <<rollback, nvc>>,
         its' \in {its, [its EXCEPT ![WrittenTable] = NULL]},
         faults' = faults \/ (faults' \in Nat /\ faults' = faults - 1), Excused'
  PROVE  SstIInv'
<1>0. FilesInv /\ ServiceInv /\ RequestInv /\ RoomInv
  BY DEF SstIInv
<1>1. ctx \in Context /\ undo \in ObjectTable /\ ctx.scratch = 1 - ctx.active
  BY <1>0 DEF ServiceInv, InMemory, Saving
<1>2. /\ ctx' \in Context /\ ctx'.scratch = 1 - ctx'.active /\ ctx'.table = undo
  BY <1>1 DEF SaveFailed, Context
<1>3. /\ FilesInv' /\ boot' = boot
      /\ \A t \in TableIdx : Table(t)' # NULL => HasRoom(Table(t)'.data.table)
  <2>1. CASE its' = its
    BY <1>0, <2>1 DEF FilesInv, Table, RoomInv, SaveFailed
  <2>2. CASE its' = [its EXCEPT ![WrittenTable] = NULL]
    <3>1. ctx.scratch \in TableIdx
      BY <1>1 DEF Context
    <3>2. /\ FilesInv'
          /\ \A u \in TableIdx : Table(u)' = IF u = ctx.scratch THEN NULL ELSE Table(u)
      BY <1>0, <2>2, <3>1, TableWritten DEF WrittenTable
    <3> QED
      BY <1>0, <3>2 DEF RoomInv, SaveFailed
  <2> QED
    BY <2>1, <2>2
<1>4. HasRoom(ctx'.table)
  BY <1>0, <1>2 DEF RoomInv
<1>5. CASE boot = "done" /\ req.op # "set"
  <2>1. Return("PSA_ERROR_GENERIC_ERROR", NULL)
    BY <1>5 DEF SaveFailed
  <2> QED
    BY <1>2, <1>3, <1>4, <1>5, <2>1, ReturnStep DEF Status
<1>6. CASE boot # "done" \/ req.op = "set"
  <2>1. /\ pc' = IF boot = "done" THEN "undo_object" ELSE "abort"
        /\ UNCHANGED request
    BY <1>6 DEF SaveFailed
  <2>2. ServiceInv'
    BY <1>0, <1>2, <1>3, <2>1, ExcusedKept DEF ServiceInv, InMemory, SstPc, Saving
  <2>3. RequestInv'
    BY <1>0, <1>3, <1>6, <2>1 DEF RequestInv, request, Saving, Writing, Removing
  <2>4. RoomInv'
    BY <1>3, <1>4, <2>1 DEF RoomInv, Saving, Writing
  <2>5. CounterInv'
    BY <2>1 DEF CounterInv, Removing
  <2> QED
    BY <1>3, <2>2, <2>3, <2>4, <2>5, ExcusedKept DEF SstIInv
<1> QED
  BY <1>5, <1>6

\* Counter 1, or the swap count, is incremented.
LEMMA SaveStep == SstIInv /\ Save => SstIInv'
<1> SUFFICES ASSUME SstIInv, Save PROVE SstIInv'
  OBVIOUS
<1>0. /\ FilesInv /\ ServiceInv /\ RequestInv /\ RoomInv /\ pc = "save"
      /\ ctx \in Context /\ ctx.scratch = 1 - ctx.active
      /\ UNCHANGED <<rollback, faults, its>>
  BY DEF SstIInv, Save, ServiceInv, InMemory
<1>1. CASE rollback /\ nvc[1] = NvcMax
  <2>1. SaveFailed /\ UNCHANGED nvc /\ Excused'
    BY <1>0, <1>1 DEF Save, Excused
  <2> QED
    BY <1>0, <2>1, SaveFailedStep DEF Saving
<1>2. CASE ~(rollback /\ nvc[1] = NvcMax)
  <2>1. /\ pc' = "table_delete" /\ UNCHANGED <<undo, boot>> /\ UNCHANGED request
        /\ IF rollback THEN nvc' = [nvc EXCEPT ![1] = @ + 1] /\ UNCHANGED ctx
           ELSE ctx' = [ctx EXCEPT !.count = NextCount(@)] /\ UNCHANGED nvc
    BY <1>2 DEF Save
  <2>2. /\ ctx' \in Context /\ ctx'.scratch = ctx.scratch /\ ctx'.active = ctx.active
        /\ ctx'.table = ctx.table /\ nvc' \in [1..3 -> Nat]
    BY <1>0, <2>1 DEF Context, NextCount, ServiceInv
  <2>3. FilesInv' /\ \A t \in TableIdx : Table(t)' = Table(t)
    BY <1>0 DEF FilesInv, Table
  <2>4. FaultInv' /\ (Excused => Excused')
    BY <1>0, <1>2, ExcusedKept
  <2>5. ServiceInv'
    BY <1>0, <2>1, <2>2 DEF ServiceInv, InMemory, SstPc, Saving
  <2>6. RequestInv'
    BY <1>0, <2>1 DEF RequestInv, request, Saving, Writing, Removing
  <2>7. RoomInv'
    BY <1>0, <2>1, <2>2, <2>3 DEF RoomInv, InMemory, Saving, Writing
  <2>8. CounterInv'
    BY <2>1 DEF CounterInv, Removing
  <2>9. AuthenticInv => AuthenticInv'
    BY <1>0, <2>1, <2>2, <2>3
       DEF AuthenticInv, TablesAuthentic, InMemory, request, Saving, Writing, Removing
  <2> QED
    BY <2>3, <2>4, <2>5, <2>6, <2>7, <2>8, <2>9 DEF SstIInv
<1> QED
  BY <1>1, <1>2

\* What sst_object_table_fs_write_table() writes is a table.
LEMMA SavedTableType ==
  ASSUME SstIInv, pc \in Saving, NEW w \in BOOLEAN
  PROVE  [data |-> SavedTable, whole |-> w] \in TableFile
BY DEF SstIInv, ServiceInv, InMemory, Saving, Context, SavedTable, TableFile

\* psa_its_set() of the table while it has not completed.
LEMMA TableBegunStep ==
  ASSUME SstIInv, TableDelete \/ TableCreate
  PROVE  SstIInv'
<1>0. /\ FilesInv /\ ServiceInv /\ RequestInv /\ RoomInv
      /\ pc \in {"table_delete", "table_create"} /\ pc \in Saving
      /\ ctx \in Context /\ ctx.scratch = 1 - ctx.active
      /\ UNCHANGED <<rollback, nvc>>
  BY DEF SstIInv, TableDelete, TableCreate, ServiceInv, InMemory, Saving
<1>1. CASE Fault /\ SaveFailed
  <2>1. faults' \in Nat /\ faults' = faults - 1 /\ its' = its
    BY <1>0, <1>1 DEF Fault, ServiceInv
  <2>2. Excused'
    BY <1>0, <2>1, ExcusedKept DEF ServiceInv
  <2> QED
    BY <1>0, <1>1, <2>1, <2>2, SaveFailedStep
<1>2. CASE ~(Fault /\ SaveFailed)
  <2> DEFINE c == IF pc = "table_delete" THEN NULL ELSE Part(SavedTable)
  <2>1. /\ its' = [its EXCEPT ![SST_TABLE_FS_ID(ctx.scratch)] = c]
        /\ pc' \in {"table_create", "table_fill"}
        /\ UNCHANGED <<faults, ctx, undo, boot>> /\ UNCHANGED request
    BY <1>2 DEF TableDelete, TableCreate, RemoveFile, SetFile, WrittenTable, service
  <2>2. c \in TableFile \cup {NULL} /\ (c # NULL => c.data.table = ctx.table)
    BY <1>0, SavedTableType DEF Part, SavedTable
  <2>3. ctx.scratch \in TableIdx
    BY <1>0 DEF Context
  <2> HIDE DEF c
  <2>4. /\ FilesInv' /\ \A g \in ObjectId : its'[g] = its[g]
        /\ \A u \in TableIdx : Table(u)' = IF u = ctx.scratch THEN c ELSE Table(u)
    BY <1>0, <2>1, <2>2, <2>3, TableWritten
  <2>5. FaultInv' /\ (Excused => Excused')
    BY <1>0, <2>1, ExcusedKept
  <2>6. ServiceInv'
    BY <1>0, <2>1 DEF ServiceInv, InMemory, SstPc, Saving
  <2>7. RequestInv'
    BY <1>0, <2>1 DEF RequestInv, request, Saving, Writing, Removing
  <2>8. RoomInv'
    BY <1>0, <2>1, <2>2, <2>4 DEF RoomInv, InMemory, Saving, Writing
  <2>9. CounterInv'
    BY <2>1 DEF CounterInv, Removing
  <2>10. AuthenticInv => AuthenticInv'
    <3> SUFFICES ASSUME AuthenticInv PROVE AuthenticInv'
      OBVIOUS
    <3>1. \A T : Authentic(its, T) => Authentic(its', T)
      BY <2>4, FileIds DEF Authentic
    <3>2. Authentic(its', ctx.table)
      BY <1>0, <3>1 DEF AuthenticInv, InMemory
    <3>3. TablesAuthentic'
      BY <2>2, <2>4, <3>1, <3>2 DEF AuthenticInv, TablesAuthentic
    <3> QED
      BY <1>0, <2>1, <3>2, <3>3
        DEF AuthenticInv, InMemory, request, Saving, Writing, Removing
  <2> QED
    BY <2>4, <2>5, <2>6, <2>7, <2>8, <2>9, <2>10 DEF SstIInv
<1> QED
  BY <1>1, <1>2

\* The table is complete; active and scratch are swapped.
LEMMA TableFillStep == SstIInv /\ TableFill => SstIInv'
<1> SUFFICES ASSUME SstIInv, TableFill PROVE SstIInv'
  OBVIOUS
<1>0. /\ FilesInv /\ ServiceInv /\ RequestInv /\ RoomInv
      /\ pc = "table_fill" /\ pc \in Saving
      /\ ctx \in Context /\ ctx.scratch = 1 - ctx.active
      /\ UNCHANGED <<rollback, nvc>>
  BY DEF SstIInv, TableFill, ServiceInv, InMemory, Saving
<1>1. CASE FailedFill(WrittenTable) /\ SaveFailed
  <2>1. /\ faults' \in Nat /\ faults' = faults - 1
        /\ its' \in {its, [its EXCEPT ![WrittenTable] = NULL]}
    BY <1>0, <1>1 DEF FailedFill, ServiceInv
  <2>2. Excused'
    BY <1>0, <2>1, ExcusedKept DEF ServiceInv
  <2> QED
    BY <1>0, <1>1, <2>1, <2>2, SaveFailedStep
<1>2. CASE ~(FailedFill(WrittenTable) /\ SaveFailed)
  <2> DEFINE c == Whole(SavedTable)
  <2>1. /\ its' = [its EXCEPT ![SST_TABLE_FS_ID(ctx.scratch)] = c]
        /\ ctx' = [ctx EXCEPT !.active = ctx.scratch, !.scratch = ctx.active]
        /\ pc' = "align"
        /\ UNCHANGED <<faults, boot>> /\ UNCHANGED request
    BY <1>2 DEF TableFill, SetFile, WrittenTable
  <2>2. c \in TableFile /\ c.data.table = ctx.table
    BY <1>0, SavedTableType DEF Whole, SavedTable
  <2>3. /\ ctx' \in Context /\ ctx'.scratch = 1 - ctx'.active
        /\ ctx'.table = ctx.table /\ ctx'.active = ctx.scratch /\ ctx.scratch \in TableIdx
    <3>1. /\ ctx'.table = ctx.table /\ ctx'.active = ctx.scratch
          /\ ctx'.scratch = ctx.active /\ ctx' \in Context
      BY <1>0, <2>1 DEF Context
    <3> QED
      BY <1>0, <3>1 DEF Context, TableIdx
  <2> HIDE DEF c
  <2>4. /\ FilesInv' /\ \A g \in ObjectId : its'[g] = its[g]
        /\ \A u \in TableIdx : Table(u)' = IF u = ctx.scratch THEN c ELSE Table(u)
    BY <1>0, <2>1, <2>2, <2>3, TableWritten
  <2>5. FaultInv' /\ (Excused => Excused')
    BY <1>0, <2>1, ExcusedKept
  <2>6. ServiceInv'
    BY <1>0, <2>1, <2>3 DEF ServiceInv, InMemory, SstPc, Saving
  <2>7. RequestInv'
    BY <1>0, <2>1 DEF RequestInv, request, Saving, Writing, Removing
  <2>8. RoomInv'
    BY <1>0, <2>1, <2>2, <2>3, <2>4 DEF RoomInv, InMemory, Saving, Writing
  <2>9. CounterInv'
    BY <2>1 DEF CounterInv, Removing
  <2>10. AuthenticInv => AuthenticInv'
    <3> SUFFICES ASSUME AuthenticInv PROVE AuthenticInv'
      OBVIOUS
    <3>1. \A T : Authentic(its, T) => Authentic(its', T)
      BY <2>4, FileIds DEF Authentic
    <3>2. Authentic(its', ctx.table)
      BY <1>0, <3>1 DEF AuthenticInv, InMemory
    <3>3. TablesAuthentic'
      BY <2>2, <2>4, <3>1, <3>2 DEF AuthenticInv, TablesAuthentic
    <3>4. Current'
      <4>1. its'[SST_TABLE_FS_ID(ctx.scratch)] = c
        BY <1>0, <2>1, <2>3, FileIds DEF FilesInv
      <4> QED
        BY <2>2, <2>3, <4>1, NullAssumption DEF Current, Table
    <3>5. boot \notin {"first", "again"}
      BY <1>0 DEF RequestInv
    <3> QED
      BY <1>0, <2>1, <2>3, <3>2, <3>3, <3>4, <3>5
         DEF AuthenticInv, InMemory, request, Saving, Writing, Removing
  <2> QED
    BY <2>4, <2>5, <2>6, <2>7, <2>8, <2>9, <2>10 DEF SstIInv
<1> QED
  BY <1>1, <1>2

\* sst_object_table_align_nv_counters() increments counter 2 or 3.
LEMMA AlignStep == SstIInv /\ Align => SstIInv'
<1> SUFFICES ASSUME SstIInv, Align PROVE SstIInv'
  OBVIOUS
<1>0. /\ FilesInv /\ ServiceInv /\ RequestInv /\ RoomInv /\ pc = "align"
      /\ UNCHANGED <<rollback, faults, its, ctx, undo, boot, pc, req, fid, old, reply>>
  BY DEF SstIInv, Align, service, request
<1> DEFINE n == Min(Lagging)
<1>1. n \in {2, 3}
  <2>1. Lagging \subseteq {2, 3} /\ Lagging # {}
    BY DEF Lagging, Align
  <2>2. \E x \in Lagging : \A y \in Lagging : x <= y
    <3>1. CASE 2 \in Lagging
      BY <2>1, <3>1
    <3>2. CASE 2 \notin Lagging
      <4>1. Lagging = {3}
        BY <2>1, <3>2
      <4> QED
        BY <4>1
    <3> QED
      BY <3>1, <3>2
  <2> QED
    BY <2>1, <2>2 DEF Min
<1>2. nvc' = [nvc EXCEPT ![n] = @ + 1]
  BY DEF Align
<1> HIDE DEF n
<1>3. nvc' \in [1..3 -> Nat] /\ nvc'[1] = nvc[1]
  BY <1>0, <1>1, <1>2 DEF ServiceInv
<1>4. FilesInv' /\ ServiceInv'
  BY <1>0, <1>3 DEF FilesInv, ServiceInv, Table, InMemory
<1>5. RequestInv' /\ RoomInv'
  BY <1>0 DEF RequestInv, RoomInv, Table, InMemory, EntriesOf
<1>6. CounterInv'
  BY <1>0 DEF CounterInv, Removing
<1>7. FaultInv' /\ (Excused => Excused')
  BY <1>0, <1>3, ExcusedKept
<1>8. AuthenticInv => AuthenticInv'
  BY <1>0
    DEF AuthenticInv, TablesAuthentic, OnlyActive, Current, Table, InMemory, EntriesOf
<1> QED
  BY <1>4, <1>5, <1>6, <1>7, <1>8 DEF SstIInv

\* The counters are aligned: a save or a boot goes on.
LEMMA AlignedStep == SstIInv /\ Aligned => SstIInv'
<1> SUFFICES ASSUME SstIInv, Aligned PROVE SstIInv'
  OBVIOUS
<1>0. /\ FilesInv /\ ServiceInv /\ RequestInv /\ RoomInv /\ pc = "align" /\ Lagging = {}
      /\ UNCHANGED <<rollback, faults, its, nvc, ctx, undo, req, fid, old, reply>>
  BY DEF SstIInv, Aligned, request
<1>1. \/ boot = "wipe" /\ pc' = "prepare" /\ boot' = "again"
      \/ boot \in {"first", "again"} /\ pc' = "ready" /\ boot' = "done"
      \/ boot = "done" /\ pc' = "remove_table" /\ boot' = boot
  BY <1>0 DEF Aligned, ServiceInv
<1>2. nvc[1] <= nvc[3]
  BY <1>0 DEF Lagging, ServiceInv
<1>3. FilesInv' /\ ServiceInv'
  BY <1>0, <1>1 DEF FilesInv, ServiceInv, Table, InMemory, SstPc, Removing, Saving
<1>4. RequestInv'
  BY <1>0, <1>1 DEF RequestInv, Removing, Saving, Writing
<1>5. RoomInv'
  BY <1>0, <1>1 DEF RoomInv, Table, InMemory, Saving, Writing
<1>6. CounterInv'
  BY <1>0, <1>2 DEF CounterInv
<1>7. FaultInv' /\ (Excused => Excused')
  BY <1>0, ExcusedKept
<1>8. AuthenticInv => AuthenticInv'
  BY <1>0, <1>1 DEF AuthenticInv, TablesAuthentic, OnlyActive, Current, Table,
                    InMemory, Removing, Saving, Writing
<1> QED
  BY <1>3, <1>4, <1>5, <1>6, <1>7, <1>8 DEF SstIInv

\* A request arrives.
LEMMA BeginStep == SstIInv /\ Begin => SstIInv'
<1> SUFFICES ASSUME SstIInv, Begin PROVE SstIInv'
  OBVIOUS
<1>0. /\ FilesInv /\ ServiceInv /\ RequestInv /\ RoomInv /\ pc = "ready"
      /\ req' \in Job /\ reply' = NULL /\ pc' = "serve"
      /\ UNCHANGED <<rollback, faults, its, nvc, ctx, undo, boot, fid, old>>
  BY DEF SstIInv, Begin, service
<1>1. FilesInv' /\ ServiceInv'
  BY <1>0 DEF FilesInv, ServiceInv, Table, InMemory, SstPc, Saving
<1>2. RequestInv'
  BY <1>0 DEF RequestInv, Removing, Saving, Writing
<1>3. RoomInv'
  BY <1>0 DEF RoomInv, Table, InMemory, Saving, Writing
<1>4. CounterInv'
  BY <1>0 DEF CounterInv, Removing
<1>5. FaultInv' /\ (Excused => Excused')
  BY <1>0, ExcusedKept
<1>6. AuthenticInv => AuthenticInv'
  BY <1>0 DEF AuthenticInv, TablesAuthentic, OnlyActive, Current, Table,
              InMemory, Removing, Saving, Writing
<1> QED
  BY <1>1, <1>2, <1>3, <1>4, <1>5, <1>6 DEF SstIInv

\* Every object that the table refers to authenticates.
LEMMA KnownReads ==
  ASSUME SstIInv, pc = "serve", ~Excused, Known
  PROVE  AssetOf(req.obj) # NULL
<1>1. PICK i \in Idx : /\ i = CHOOSE j \in EntriesOf(req.obj) : TRUE
                       /\ ctx.table[i] # NULL
  BY DEF Known, EntriesOf
<1>2. Authentic(its, ctx.table) /\ FilesInv
  BY DEF SstIInv, AuthenticInv, InMemory
<1> DEFINE f == SST_OBJECT_FS_ID(i)
<1>3. /\ its[f] # NULL /\ its[f].whole /\ ctx.table[i].tag = Tag(f, its[f].data)
      /\ its[f].data # NULL
  BY <1>1, <1>2, FileIds, NullAssumption DEF Authentic, FilesInv, ObjectFile
<1> QED
  BY <1>1, <1>3 DEF AssetOf, Known, sst_encrypted_object_read

\* A request that is refused or only reads.
LEMMA RefusedStep ==
  ASSUME SstIInv, pc = "serve", NEW status \in Status, NEW data \in Asset \cup {NULL},
         Return(status, data), Unserved, status = "PSA_SUCCESS" => data # NULL,
         status = "PSA_ERROR_GENERIC_ERROR" => Excused
  PROVE  SstIInv'
<1>0. /\ UNCHANGED <<rollback, faults, its, nvc, ctx, undo, boot>>
      /\ FilesInv /\ ServiceInv /\ RequestInv /\ RoomInv
      /\ ctx \in Context /\ ctx.scratch = 1 - ctx.active /\ boot = "done"
  BY DEF Unserved, service, SstIInv, ServiceInv, RequestInv, InMemory
<1>1. /\ FilesInv' /\ HasRoom(ctx'.table)
      /\ \A t \in TableIdx : Table(t)' # NULL => HasRoom(Table(t)'.data.table)
  BY <1>0 DEF FilesInv, RoomInv, Table, InMemory
<1>2. Excused' <=> Excused
  BY <1>0 DEF Excused
<1>3. ~Excused' => /\ TablesAuthentic' /\ Authentic(its', ctx'.table) /\ OnlyActive'
                   /\ status # "PSA_ERROR_GENERIC_ERROR"
  BY <1>0, <1>2
    DEF SstIInv, AuthenticInv, InMemory, TablesAuthentic, OnlyActive, Current, Table
<1> QED
  BY <1>0, <1>1, <1>3, ReturnStep

\* tfm_sst_get() and tfm_sst_get_info().
LEMMA GetStep == SstIInv /\ Get => SstIInv'
<1> SUFFICES ASSUME SstIInv, Get PROVE SstIInv'
  OBVIOUS
<1>0. pc = "serve" /\ FilesInv /\ ServiceInv
  BY DEF Get, Serve, SstIInv
<1>1. CASE ~Known
  BY <1>0, <1>1, RefusedStep DEF Get, Refuse, Status
<1>2. CASE Known /\ AssetOf(req.obj) = NULL
  BY <1>0, <1>2, KnownReads, RefusedStep DEF Get, Refuse, Status
<1>3. CASE Known /\ AssetOf(req.obj) # NULL /\ req.beyond
  BY <1>0, <1>3, RefusedStep DEF Get, Refuse, Status
<1>4. CASE Known /\ AssetOf(req.obj) # NULL /\ ~req.beyond
  <2>1. AssetOf(req.obj) \in Asset
    <3>1. (CHOOSE i \in EntriesOf(req.obj) : TRUE) \in Idx
      BY <1>4 DEF Known, EntriesOf
    <3> QED
      BY <1>0, <1>4, <3>1, FileIds
         DEF AssetOf, sst_encrypted_object_read, FilesInv, ObjectFile
  <2>2. Return("PSA_SUCCESS", AssetOf(req.obj)) /\ Unserved
    BY <1>4 DEF Get
  <2> QED
    BY <1>0, <1>4, <2>1, <2>2, RefusedStep DEF Status
<1> QED
  BY <1>1, <1>2, <1>3, <1>4

\* A set of natural numbers has a least element.
LEMMA LeastElement ==
  ASSUME NEW S \in SUBSET Nat, S # {}
  PROVE  \E x \in S : \A y \in S : x <= y
<1> DEFINE Less == {ss \in Nat \X Nat : ss[1] < ss[2]}
<1>1. OpToRel(<, Nat) = Less
  BY DEF OpToRel
<1>2. IsWellFoundedOn(Less, Nat)
  BY <1>1, NatLessThanWellFounded
<1> HIDE DEF Less
<1>3. \E x \in S : \A y \in S : ~ (<<y, x>> \in Less)
  BY <1>2, WFMin
<1>4. \A x, y \in Nat : ~ (<<y, x>> \in Less) => x <= y
  BY DEF Less
<1> QED
  BY <1>3, <1>4

\* A table has finitely many entries.
LEMMA FreeIdxFinite == IsFiniteSet(FreeIdx)
<1>1. IsFiniteSet(Idx)
  BY SstAssumption, FS_Interval DEF Idx
<1> QED
  BY <1>1, FS_Subset DEF FreeIdx

\* sst_table_free_idx() finds a free entry; if it is the second, there is another.
LEMMA NthFreeProperties ==
  ASSUME NEW n \in {1, 2}, Cardinality(FreeIdx) >= n
  PROVE  /\ NthFree(n) \in FreeIdx
         /\ n = 2 => \E i \in FreeIdx : i # NthFree(n)
<1>1. IsFiniteSet(FreeIdx) /\ FreeIdx \subseteq Nat
  BY FreeIdxFinite, SstAssumption DEF FreeIdx, Idx
<1>2. \A x : IsFiniteSet({x}) /\ Cardinality({x}) = 1
  BY FS_Singleton
<1>3. FreeIdx # {}
  BY <1>1, FS_EmptySet
<1>4. PICK m \in FreeIdx : \A y \in FreeIdx : m <= y
  BY <1>1, <1>3, LeastElement
<1>5. CASE n = 1
  <2>1. {j \in FreeIdx : j <= m} = {m}
    <3>1. \A j \in FreeIdx : j <= m <=> j = m
      BY <1>1, <1>4
    <3> QED
      BY <3>1
  <2>2. Cardinality({j \in FreeIdx : j <= m}) = n
    BY <1>2, <1>5, <2>1
  <2> QED
    BY <1>5, <2>2 DEF NthFree
<1>6. CASE n = 2
  <2> DEFINE rest == FreeIdx \ {m}
  <2>1. rest # {}
    <3>1. IsFiniteSet(rest) /\ Cardinality(rest) = Cardinality(FreeIdx) - 1
      BY <1>1, FS_RemoveElement
    <3>2. Cardinality(FreeIdx) \in Nat
      BY <1>1, FS_CardinalityType
    <3> QED
      BY <1>6, <3>1, <3>2, FS_EmptySet
  <2>2. PICK k \in rest : \A y \in rest : k <= y
    BY <1>1, <2>1, LeastElement
  <2>3. k \in FreeIdx /\ m \in FreeIdx /\ k \notin {m}
    BY <2>2
  <2>4. Cardinality({j \in FreeIdx : j <= k}) = n
    <3>1. \A j \in FreeIdx : j <= k <=> j = k \/ j = m
      BY <1>1, <1>4, <2>2
    <3>2. {j \in FreeIdx : j <= k} = {m} \cup {k}
      BY <2>3, <3>1
    <3>3. Cardinality({m} \cup {k}) = Cardinality({m}) + 1
      BY <1>2, <2>3, FS_AddElement
    <3> QED
      BY <1>2, <1>6, <3>2, <3>3
  <2>5. NthFree(n) \in FreeIdx
    BY <2>2, <2>4 DEF NthFree
  <2> QED
    BY <1>4, <2>2, <2>5
<1> QED
  BY <1>5, <1>6

\* sst_object_create() refuses, or chooses a file that no entry refers to.
LEMMA SetStep == SstIInv /\ Set => SstIInv'
<1> SUFFICES ASSUME SstIInv, Set PROVE SstIInv'
  OBVIOUS
<1>0. /\ pc = "serve" /\ req.op = "set" /\ req \in Job
      /\ FilesInv /\ ServiceInv /\ RequestInv /\ RoomInv
      /\ ctx \in Context /\ boot = "done"
  BY DEF Set, Serve, SstIInv, RequestInv, ServiceInv, InMemory
<1>1. CASE req.val = TooBig
  BY <1>0, <1>1, RefusedStep DEF Set, Refuse, Status
<1>2. CASE req.val # TooBig /\ Known /\ AssetOf(req.obj) = NULL
  BY <1>0, <1>2, KnownReads, RefusedStep DEF Set, Refuse, Status
<1>3. CASE req.val # TooBig /\ Known /\ AssetOf(req.obj) # NULL /\ AssetOf(req.obj).once
  BY <1>0, <1>3, RefusedStep DEF Set, Refuse, Status
<1>4. CASE /\ req.val # TooBig
           /\ ~(Known /\ AssetOf(req.obj) = NULL)
           /\ ~(Known /\ AssetOf(req.obj) # NULL /\ AssetOf(req.obj).once)
  <2>1. CASE Cardinality(FreeIdx) < Reserved
    BY <1>0, <1>4, <2>1, RefusedStep DEF Set, Refuse, Status
  <2>2. CASE ~(Cardinality(FreeIdx) < Reserved)
    <3> DEFINE n == Reserved
               k == CHOOSE i \in EntriesOf(req.obj) : TRUE
    <3>1. /\ fid' = SST_OBJECT_FS_ID(NthFree(n))
          /\ old' = IF Known THEN SST_OBJECT_FS_ID(k) ELSE NULL
          /\ pc' = "free_fid"
          /\ UNCHANGED <<req, reply, rollback, faults, its, nvc, ctx, undo, boot>>
      BY <1>4, <2>2 DEF Set, Unserved, service
    <3>2. n = (IF Known THEN 1 ELSE 2) /\ n \in {1, 2}
      BY DEF Reserved
    <3>3. Cardinality(FreeIdx) >= n
      <4>1. IsFiniteSet(FreeIdx)
        BY FreeIdxFinite
      <4> QED
        BY <2>2, <3>2, <4>1, FS_CardinalityType
    <3> HIDE DEF n
    <3>4. NthFree(n) \in FreeIdx /\ (n = 2 => \E i \in FreeIdx : i # NthFree(n))
      BY <3>2, <3>3, NthFreeProperties
    <3>5. /\ NthFree(n) \in Idx /\ ctx.table[NthFree(n)] = NULL
          /\ fid' \in ObjectId /\ SST_OBJECT_FS_ID_TO_IDX(fid') = NthFree(n)
      BY <3>1, <3>4, FileIds DEF FreeIdx
    <3>6. Known => k \in EntriesOf(req.obj) /\ k \in Idx /\ ctx.table[k] # NULL
      BY DEF Known, EntriesOf
    <3> HIDE DEF k
    <3>7. /\ old' \in ObjectId \cup {NULL}
          /\ old' # NULL => SST_OBJECT_FS_ID_TO_IDX(old') \in EntriesOf(req.obj)
      BY <3>1, <3>6, FileIds
    <3>8. \E i \in Idx : /\ i # SST_OBJECT_FS_ID_TO_IDX(fid')
                         /\ ctx.table[i] = NULL \/ i \in EntriesOf(req.obj)
      <4>1. CASE Known
        BY <3>5, <3>6, <4>1
      <4>2. CASE ~Known
        BY <3>2, <3>4, <3>5, <4>2 DEF FreeIdx
      <4> QED
        BY <4>1, <4>2
    <3>9. FilesInv' /\ ServiceInv'
      BY <1>0, <3>1 DEF FilesInv, ServiceInv, Table, InMemory, SstPc, Saving, Writing
    <3>10. RequestInv'
      BY <1>0, <1>4, <3>1, <3>5, <3>7 DEF RequestInv, Removing, Saving, Writing
    <3>11. RoomInv'
      BY <1>0, <3>1, <3>8 DEF RoomInv, Table, InMemory, Saving, Writing, EntriesOf
    <3>12. CounterInv'
      BY <3>1 DEF CounterInv, Removing
    <3>13. FaultInv' /\ (Excused => Excused')
      BY <3>1, ExcusedKept
    <3>14. AuthenticInv => AuthenticInv'
      BY <1>0, <3>1, <3>5, <3>7
         DEF AuthenticInv, TablesAuthentic, OnlyActive, Current, Table, InMemory,
             Removing, Saving, Writing, EntriesOf
    <3> QED
      BY <3>9, <3>10, <3>11, <3>12, <3>13, <3>14 DEF SstIInv
  <2> QED
    BY <2>1, <2>2
<1> QED
  BY <1>1, <1>2, <1>3, <1>4

\* A request that fails while it writes the new object.
LEMMA FaultReturnStep ==
  ASSUME SstIInv, InMemory, boot = "done", Fault \/ \E f \in ObjectId : FailedFill(f),
         Return("PSA_ERROR_GENERIC_ERROR", NULL), UNCHANGED <<rollback, nvc, ctx, boot>>
  PROVE  SstIInv'
<1>1. faults' \in Nat /\ faults' = faults - 1 /\ faults \in Nat
  BY DEF Fault, FailedFill, SstIInv, ServiceInv
<1>2. Excused'
  BY <1>1, ExcusedKept
<1>3. FilesInv' /\ \A t \in TableIdx : Table(t)' = Table(t)
  <2>1. CASE its' = its
    BY <2>1 DEF SstIInv, FilesInv, Table
  <2>2. CASE \E f \in ObjectId : its' = [its EXCEPT ![f] = NULL]
    BY <2>2, ObjectWritten DEF SstIInv
  <2> QED
    BY <2>1, <2>2 DEF Fault, FailedFill
<1>4. /\ HasRoom(ctx'.table)
      /\ ctx' \in Context /\ ctx'.scratch = 1 - ctx'.active
      /\ \A t \in TableIdx : Table(t)' # NULL => HasRoom(Table(t)'.data.table)
  BY <1>3 DEF SstIInv, ServiceInv, RoomInv, InMemory
<1> QED
  BY <1>1, <1>2, <1>3, <1>4, ReturnStep DEF Status

\* What sst_object_create() writes is an asset.
LEMMA NewAssetType ==
  ASSUME SstIInv, pc \in Writing
  PROVE  NewAsset \in Asset /\ req.obj \in Obj
BY DEF SstIInv, RequestInv, Writing, NewAsset, Asset, Job

\* The file of the new object is removed or begun: no table refers to it.
LEMMA ObjectBegunStep ==
  ASSUME SstIInv, FreeFid \/ ObjectCreate
  PROVE  SstIInv'
<1>0. /\ FilesInv /\ ServiceInv /\ RequestInv /\ RoomInv
      /\ pc \in {"free_fid", "object_create"} /\ pc \in Writing
      /\ ctx \in Context /\ boot = "done" /\ fid \in ObjectId /\ InMemory
      /\ UNCHANGED <<rollback, nvc, ctx, undo, boot>>
  BY
    DEF SstIInv, FreeFid, ObjectCreate, ServiceInv, RequestInv, InMemory, Writing, service
<1>1. CASE Fault /\ Return("PSA_ERROR_GENERIC_ERROR", NULL)
  BY <1>0, <1>1, FaultReturnStep
<1>2. CASE ~(Fault /\ Return("PSA_ERROR_GENERIC_ERROR", NULL))
  <2> DEFINE c == IF pc = "free_fid" THEN NULL ELSE Part(NewAsset)
  <2>1. /\ its' = [its EXCEPT ![fid] = c]
        /\ pc' \in {"object_create", "object_fill"}
        /\ UNCHANGED faults /\ UNCHANGED request
    BY <1>2 DEF FreeFid, ObjectCreate, RemoveFile, SetFile
  <2>2. c \in ObjectFile \cup {NULL}
    BY <1>0, NewAssetType DEF Part, ObjectFile
  <2> HIDE DEF c
  <2>3. /\ FilesInv' /\ \A t \in TableIdx : Table(t)' = Table(t)
        /\ \A g \in ObjectId : its'[g] = IF g = fid THEN c ELSE its[g]
    BY <1>0, <2>1, <2>2, ObjectWritten
  <2>4. ServiceInv'
    BY <1>0, <2>1 DEF ServiceInv, InMemory, SstPc, Saving, Writing
  <2>5. RequestInv'
    BY <1>0, <2>1 DEF RequestInv, request, Saving, Writing, Removing
  <2>6. RoomInv'
    BY <1>0, <2>1, <2>3 DEF RoomInv, InMemory, Saving, Writing, EntriesOf, request
  <2>7. CounterInv'
    BY <2>1 DEF CounterInv, Removing
  <2>8. FaultInv' /\ (Excused => Excused')
    BY <1>0, <2>1, ExcusedKept
  <2>9. AuthenticInv => AuthenticInv'
    <3> SUFFICES ASSUME AuthenticInv PROVE AuthenticInv'
      OBVIOUS
    <3>1. ctx.table[SST_OBJECT_FS_ID_TO_IDX(fid)] = NULL /\ OnlyActive
      BY <1>0 DEF AuthenticInv
    <3>2. Authentic(its', ctx.table)
      BY <1>0, <2>3, <3>1, FileIds DEF AuthenticInv, InMemory, Authentic
    <3>3. \A t \in TableIdx : Table(t) # NULL => Table(t).data.table = ctx.table
      BY <1>0, <3>1 DEF OnlyActive, Current, ServiceInv, Context, TableIdx
    <3>4. TablesAuthentic'
      BY <2>3, <3>2, <3>3 DEF TablesAuthentic
    <3>5. OnlyActive'
      BY <1>0, <2>3, <3>1 DEF OnlyActive, Current, Context
    <3> QED
      BY <1>0, <2>1, <3>2, <3>4, <3>5
         DEF AuthenticInv, InMemory, request, Saving, Writing, Removing, EntriesOf
  <2> QED
    BY <2>3, <2>4, <2>5, <2>6, <2>7, <2>8, <2>9 DEF SstIInv
<1> QED
  BY <1>1, <1>2

\* The new object is complete and enters the table in memory.
LEMMA ObjectFillStep == SstIInv /\ ObjectFill => SstIInv'
<1> SUFFICES ASSUME SstIInv, ObjectFill PROVE SstIInv'
  OBVIOUS
<1>0. /\ FilesInv /\ ServiceInv /\ RequestInv /\ RoomInv
      /\ pc = "object_fill" /\ pc \in Writing
      /\ ctx \in Context /\ ctx.scratch = 1 - ctx.active
      /\ boot = "done" /\ fid \in ObjectId /\ InMemory
      /\ UNCHANGED <<rollback, nvc, boot>>
  BY DEF SstIInv, ObjectFill, ServiceInv, RequestInv, InMemory, Writing, service
<1>1. CASE FailedFill(fid) /\ Return("PSA_ERROR_GENERIC_ERROR", NULL) /\ UNCHANGED service
  BY <1>0, <1>1, FaultReturnStep DEF service
<1>2. CASE ~(FailedFill(fid) /\ Return("PSA_ERROR_GENERIC_ERROR", NULL) /\ UNCHANGED service)
  <2> DEFINE c == Whole(NewAsset)
             k == SST_OBJECT_FS_ID_TO_IDX(fid)
             T == WithObject(ctx.table)
             e == Entry(req.obj, fid, NewAsset)
  <2>1. /\ its' = [its EXCEPT ![fid] = c]
        /\ ctx' = [ctx EXCEPT !.table = T]
        /\ undo' = ctx.table
        /\ pc' = "save"
        /\ UNCHANGED faults /\ UNCHANGED request
    BY <1>2 DEF ObjectFill, SetFile
  <2>2. c \in ObjectFile /\ c.whole /\ c.data = NewAsset
    BY <1>0, NewAssetType DEF Whole, ObjectFile
  <2>3. /\ k \in Idx /\ SST_OBJECT_FS_ID(k) = fid
        /\ e \in TableEntry /\ e.tag = Tag(fid, NewAsset)
    BY <1>0, NewAssetType, FileIds DEF Entry, Tag, TableEntry
  <2>4. T = [i \in Idx |-> IF i = k THEN e
                           ELSE IF i \in EntriesOf(req.obj) THEN NULL ELSE ctx.table[i]]
    BY DEF WithObject
  <2> HIDE DEF c, k, T, e
  <2>5. T \in ObjectTable /\ HasRoom(T)
    <3>1. T \in ObjectTable
      BY <1>0, <2>3, <2>4 DEF Context, ObjectTable
    <3>2. PICK i \in Idx : i # k /\ (ctx.table[i] = NULL \/ i \in EntriesOf(req.obj))
      BY <1>0 DEF RoomInv, k
    <3>3. T[i] = NULL
      BY <2>4, <3>2
    <3> QED
      BY <3>1, <3>3 DEF HasRoom
  <2>6. /\ ctx' \in Context /\ ctx'.table = T
        /\ ctx'.active = ctx.active /\ ctx'.scratch = ctx.scratch
    BY <1>0, <2>1, <2>5 DEF Context
  <2>7. /\ FilesInv' /\ \A t \in TableIdx : Table(t)' = Table(t)
        /\ \A g \in ObjectId : its'[g] = IF g = fid THEN c ELSE its[g]
    BY <1>0, <2>1, <2>2, ObjectWritten
  <2>8. ServiceInv'
    BY <1>0, <2>1, <2>6 DEF ServiceInv, InMemory, SstPc, Saving, Context
  <2>9. RequestInv'
    BY <1>0, <2>1 DEF RequestInv, request, Saving, Writing, Removing
  <2>10. RoomInv'
    BY <1>0, <2>1, <2>5, <2>6, <2>7 DEF RoomInv, InMemory, Saving, Writing
  <2>11. CounterInv'
    BY <2>1 DEF CounterInv, Removing
  <2>12. FaultInv' /\ (Excused => Excused')
    BY <1>0, <2>1, ExcusedKept
  <2>13. AuthenticInv => AuthenticInv'
    <3> SUFFICES ASSUME AuthenticInv PROVE AuthenticInv'
      OBVIOUS
    <3>1. /\ ctx.table[k] = NULL /\ OnlyActive
          /\ old # NULL => SST_OBJECT_FS_ID_TO_IDX(old) \in EntriesOf(req.obj)
      BY <1>0 DEF AuthenticInv, k
    <3>2. Authentic(its', ctx.table)
      BY <1>0, <2>3, <2>7, <3>1, FileIds DEF AuthenticInv, Authentic
    <3>3. Authentic(its', T)
      <4> SUFFICES ASSUME NEW i \in Idx, T[i] # NULL
                   PROVE  LET f == SST_OBJECT_FS_ID(i) IN
                          /\ its'[f] # NULL /\ its'[f].whole
                          /\ T[i].tag = Tag(f, its'[f].data)
        BY DEF Authentic
      <4>1. CASE i = k
        BY <1>0, <2>2, <2>3, <2>4, <2>7, <4>1, NullAssumption
      <4>2. CASE i # k
        <5>1. T[i] = ctx.table[i]
          BY <2>4, <4>2
        <5> QED
          BY <3>2, <5>1 DEF Authentic
      <4> QED
        BY <4>1, <4>2
    <3>4. \A t \in TableIdx : Table(t) # NULL => Table(t).data.table = ctx.table
      BY <1>0, <3>1 DEF OnlyActive, Current, Context, TableIdx
    <3>5. TablesAuthentic'
      BY <2>7, <3>2, <3>4 DEF TablesAuthentic
    <3>6. old # NULL => T[SST_OBJECT_FS_ID_TO_IDX(old)] = NULL
      BY <2>3, <2>4, <3>1 DEF EntriesOf
    <3> QED
      BY <1>0, <2>1, <2>6, <3>3, <3>5, <3>6
         DEF AuthenticInv, InMemory, request, Saving, Writing, Removing
  <2> QED
    BY <2>7, <2>8, <2>9, <2>10, <2>11, <2>12, <2>13 DEF SstIInv
<1> QED
  BY <1>1, <1>2

\* The new object is removed after a failed save.
LEMMA UndoObjectStep == SstIInv /\ UndoObject => SstIInv'
<1> SUFFICES ASSUME SstIInv, UndoObject PROVE SstIInv'
  OBVIOUS
<1>0. /\ FilesInv /\ ServiceInv /\ RequestInv /\ RoomInv
      /\ pc = "undo_object" /\ boot = "done" /\ fid \in ObjectId /\ InMemory
      /\ Return("PSA_ERROR_GENERIC_ERROR", NULL)
      /\ UNCHANGED <<rollback, nvc, ctx, undo, boot>>
  BY DEF SstIInv, UndoObject, RequestInv, InMemory, service
<1>1. CASE Fault
  BY <1>0, <1>1, FaultReturnStep
<1>2. CASE SetFile(fid, NULL)
  <2>1. /\ FilesInv' /\ \A t \in TableIdx : Table(t)' = Table(t)
    BY <1>0, <1>2, ObjectWritten DEF SetFile
  <2>2. faults' = faults
    BY <1>2 DEF SetFile
  <2>3. Excused'
    BY <1>0, <2>2, ExcusedKept DEF SstIInv, AuthenticInv
  <2> QED
    BY <1>0, <2>1, <2>2, <2>3, ReturnStep DEF Status, RoomInv, ServiceInv
<1> QED
  BY <1>1, <1>2 DEF UndoObject

\* sst_object_delete() refuses, or takes the object out of the table in memory.
LEMMA RemoveStep == SstIInv /\ Remove => SstIInv'
<1> SUFFICES ASSUME SstIInv, Remove PROVE SstIInv'
  OBVIOUS
<1>0. /\ pc = "serve" /\ req.op = "remove" /\ req \in Job
      /\ FilesInv /\ ServiceInv /\ RequestInv /\ RoomInv
      /\ ctx \in Context /\ ctx.scratch = 1 - ctx.active /\ boot = "done" /\ InMemory
  BY DEF Remove, Serve, SstIInv, RequestInv, ServiceInv, InMemory
<1>1. CASE ~Known
  BY <1>0, <1>1, RefusedStep DEF Remove, Refuse, Status
<1>2. CASE Known /\ AssetOf(req.obj) = NULL
  BY <1>0, <1>2, KnownReads, RefusedStep DEF Remove, Refuse, Status
<1>3. CASE Known /\ AssetOf(req.obj) # NULL /\ AssetOf(req.obj).once
  BY <1>0, <1>3, RefusedStep DEF Remove, Refuse, Status
<1>4. CASE Known /\ AssetOf(req.obj) # NULL /\ ~AssetOf(req.obj).once
  <2> DEFINE k == CHOOSE i \in EntriesOf(req.obj) : TRUE
             T == [ctx.table EXCEPT ![k] = NULL]
  <2>1. /\ old' = SST_OBJECT_FS_ID(k)
        /\ ctx' = [ctx EXCEPT !.table = T]
        /\ undo' = ctx.table
        /\ pc' = "save"
        /\ UNCHANGED <<rollback, faults, its, nvc, boot, req, fid, reply>>
    BY <1>4 DEF Remove
  <2>2. k \in Idx
    BY <1>4 DEF Known, EntriesOf
  <2> HIDE DEF k
  <2>3. /\ T \in ObjectTable /\ T[k] = NULL
        /\ \A i \in Idx : T[i] # NULL => T[i] = ctx.table[i]
    BY <1>0, <2>2 DEF Context, ObjectTable
  <2> HIDE DEF T
  <2>4. /\ ctx' \in Context /\ ctx'.table = T
        /\ ctx'.active = ctx.active /\ ctx'.scratch = ctx.scratch
    BY <1>0, <2>1, <2>3 DEF Context
  <2>5. old' \in ObjectId /\ SST_OBJECT_FS_ID_TO_IDX(old') = k
    BY <2>1, <2>2, FileIds
  <2>6. HasRoom(T) /\ HasRoom(ctx.table)
    BY <1>0, <2>2, <2>3 DEF HasRoom, RoomInv
  <2>7. FilesInv' /\ ServiceInv'
    BY <1>0, <2>1, <2>4
      DEF FilesInv, Table, ServiceInv, InMemory, SstPc, Saving, Context
  <2>8. RequestInv'
    BY <1>0, <2>1, <2>5 DEF RequestInv, Saving, Writing, Removing
  <2>9. RoomInv'
    BY <1>0, <2>1, <2>4, <2>6 DEF RoomInv, Table, InMemory, Saving, Writing
  <2>10. CounterInv'
    BY <2>1 DEF CounterInv, Removing
  <2>11. FaultInv' /\ (Excused => Excused')
    BY <2>1, ExcusedKept
  <2>12. AuthenticInv => AuthenticInv'
    <3> SUFFICES ASSUME AuthenticInv PROVE AuthenticInv'
      OBVIOUS
    <3>1. Authentic(its, T)
      BY <1>0, <2>3 DEF AuthenticInv, Authentic
    <3> QED
      BY <1>0, <2>1, <2>3, <2>4, <2>5, <3>1
         DEF AuthenticInv, TablesAuthentic, Table, InMemory, Saving, Writing, Removing
  <2> QED
    BY <2>7, <2>8, <2>9, <2>10, <2>11, <2>12 DEF SstIInv
<1> QED
  BY <1>1, <1>2, <1>3, <1>4

\* sst_remove_old_data(): the old object, which no table refers to any more.
LEMMA RemoveObjectStep == SstIInv /\ RemoveObject => SstIInv'
<1> SUFFICES ASSUME SstIInv, RemoveObject PROVE SstIInv'
  OBVIOUS
<1>0. /\ FilesInv /\ ServiceInv /\ RequestInv /\ RoomInv
      /\ pc = "remove_object" /\ boot = "done" /\ old \in ObjectId /\ InMemory
      /\ ctx \in Context /\ ctx.scratch = 1 - ctx.active /\ old # NULL
      /\ UNCHANGED <<rollback, nvc, ctx, undo, boot>>
  BY DEF SstIInv, RemoveObject, RequestInv, ServiceInv, InMemory, Removing, service
<1>1. CASE Fault /\ Return("PSA_ERROR_GENERIC_ERROR", NULL)
  BY <1>0, <1>1, FaultReturnStep
<1>2. CASE SetFile(old, NULL) /\ Return("PSA_SUCCESS", NULL)
  <2>1. /\ FilesInv' /\ \A t \in TableIdx : Table(t)' = Table(t)
        /\ \A g \in ObjectId : its'[g] = IF g = old THEN NULL ELSE its[g]
    BY <1>0, <1>2, ObjectWritten DEF SetFile
  <2>2. faults' = faults
    BY <1>2 DEF SetFile
  <2>3. Excused => Excused'
    BY <1>0, <2>2, ExcusedKept
  <2>4. AuthenticInv =>
          TablesAuthentic' /\ Authentic(its', ctx'.table) /\ OnlyActive'
    <3> SUFFICES ASSUME AuthenticInv
                 PROVE  TablesAuthentic' /\ Authentic(its', ctx.table) /\ OnlyActive'
      BY <1>0
    <3>1. ctx.table[SST_OBJECT_FS_ID_TO_IDX(old)] = NULL /\ OnlyActive
      BY <1>0 DEF AuthenticInv, Removing
    <3>2. Authentic(its', ctx.table)
      BY <1>0, <2>1, <3>1, FileIds DEF AuthenticInv, Authentic
    <3>3. \A t \in TableIdx : Table(t) # NULL => Table(t).data.table = ctx.table
      BY <1>0, <3>1 DEF OnlyActive, Current, Context, TableIdx
    <3>4. TablesAuthentic'
      BY <2>1, <3>2, <3>3 DEF TablesAuthentic
    <3>5. OnlyActive'
      BY <1>0, <2>1, <3>1 DEF OnlyActive, Current, Context
    <3> QED
      BY <3>2, <3>4, <3>5
  <2>5. nvc[1] <= nvc[3]
    BY <1>0 DEF SstIInv, CounterInv, Removing
  <2> QED
    BY <1>0, <1>2, <2>1, <2>2, <2>3, <2>4, <2>5, ReturnStep DEF Status, RoomInv, SstIInv
<1> QED
  BY <1>1, <1>2 DEF RemoveObject

\* sst_remove_old_data(): the table that has been replaced.
LEMMA RemoveTableStep == SstIInv /\ RemoveTable => SstIInv'
<1> SUFFICES ASSUME SstIInv, RemoveTable PROVE SstIInv'
  OBVIOUS
<1>0. /\ FilesInv /\ ServiceInv /\ RequestInv /\ RoomInv
      /\ pc = "remove_table" /\ boot = "done" /\ InMemory
      /\ ctx \in Context /\ ctx.scratch = 1 - ctx.active /\ nvc[1] <= nvc[3]
      /\ UNCHANGED <<rollback, nvc, ctx, undo, boot>>
  BY
    DEF SstIInv, RemoveTable, RequestInv, ServiceInv, InMemory, Removing, service, CounterInv
<1> DEFINE f == SST_TABLE_FS_ID(ctx.scratch)
<1>1. CASE Fault /\ Return("PSA_ERROR_GENERIC_ERROR", NULL)
  BY <1>0, <1>1, FaultReturnStep
<1>2. CASE /\ its[f] = NULL
           /\ Return("PSA_ERROR_DOES_NOT_EXIST", NULL)
           /\ UNCHANGED <<its, faults>>
  <2>1. FilesInv' /\ \A t \in TableIdx : Table(t)' = Table(t)
    BY <1>0, <1>2 DEF FilesInv, Table
  <2>2. Excused => Excused'
    BY <1>0, <1>2, ExcusedKept
  <2>3. AuthenticInv =>
          TablesAuthentic' /\ Authentic(its', ctx'.table) /\ OnlyActive'
    BY <1>0, <1>2
      DEF AuthenticInv, TablesAuthentic, OnlyActive, Current, Table, Removing
  <2> QED
    BY <1>0, <1>2, <2>1, <2>2, <2>3, ReturnStep DEF Status, RoomInv, SstIInv
<1>3. CASE SetFile(f, NULL) /\ \/ old = NULL /\ Return("PSA_SUCCESS", NULL)
                               \/ old # NULL /\ pc' = "remove_object" /\ UNCHANGED request
  <2>0. ctx.scratch \in TableIdx /\ ctx.active \in TableIdx /\ ctx.active # ctx.scratch
    BY <1>0 DEF Context, TableIdx
  <2>1. /\ FilesInv' /\ \A g \in ObjectId : its'[g] = its[g]
        /\ \A u \in TableIdx : Table(u)' = IF u = ctx.scratch THEN NULL ELSE Table(u)
    BY <1>0, <1>3, <2>0, TableWritten DEF SetFile
  <2>2. faults' = faults
    BY <1>3 DEF SetFile
  <2>3. FaultInv' /\ (Excused => Excused')
    BY <1>0, <2>2, ExcusedKept
  <2>4. \A t \in TableIdx : Table(t)' # NULL => HasRoom(Table(t)'.data.table)
    BY <1>0, <2>1 DEF RoomInv
  <2>5. AuthenticInv =>
          TablesAuthentic' /\ Authentic(its', ctx'.table) /\ OnlyActive'
    <3> SUFFICES ASSUME AuthenticInv
                 PROVE  TablesAuthentic' /\ Authentic(its', ctx.table) /\ OnlyActive'
      BY <1>0
    <3>1. \A T : Authentic(its, T) => Authentic(its', T)
      BY <2>1, FileIds DEF Authentic
    <3>2. Authentic(its', ctx.table) /\ Current
      BY <1>0, <3>1 DEF AuthenticInv
    <3>3. TablesAuthentic'
      BY <2>1, <3>1 DEF TablesAuthentic, AuthenticInv
    <3>4. OnlyActive'
      BY <1>0, <2>0, <2>1, <3>2 DEF OnlyActive, Current
    <3> QED
      BY <3>2, <3>3, <3>4
  <2>6. CASE old = NULL
    BY <1>0, <1>3, <2>1, <2>2, <2>3, <2>4, <2>5, <2>6, ReturnStep
      DEF Status, RoomInv, SstIInv
  <2>7. CASE old # NULL
    <3>1. pc' = "remove_object" /\ UNCHANGED request
      BY <1>3, <2>7
    <3>2. ServiceInv'
      BY <1>0, <2>2, <3>1 DEF ServiceInv, InMemory, SstPc, Removing, Saving
    <3>3. RequestInv'
      BY <1>0, <2>7, <3>1 DEF RequestInv, request, Saving, Writing, Removing
    <3>4. RoomInv'
      BY <1>0, <2>4, <3>1 DEF RoomInv, InMemory, Saving, Writing
    <3>5. CounterInv'
      BY <1>0 DEF CounterInv
    <3>6. AuthenticInv => AuthenticInv'
      BY <1>0, <2>5, <3>1 DEF AuthenticInv, request, InMemory, Saving, Writing, Removing
    <3> QED
      BY <2>1, <2>3, <3>2, <3>3, <3>4, <3>5, <3>6 DEF SstIInv
  <2> QED
    BY <2>6, <2>7
<1> QED
  BY <1>1, <1>2, <1>3 DEF RemoveTable, RemoveFile

\* A power failure keeps files and counters.
LEMMA PowerFailStep == SstIInv /\ PowerFail => SstIInv'
<1> SUFFICES ASSUME SstIInv, PowerFail PROVE SstIInv'
  OBVIOUS
<1>0. /\ FilesInv /\ ServiceInv /\ RoomInv
      /\ pc' = "prepare" /\ boot' = "first" /\ old' = NULL /\ reply' = NULL
      /\ UNCHANGED <<rollback, faults, its, nvc>>
  BY DEF SstIInv, PowerFail
<1>1. FilesInv' /\ ServiceInv'
  BY <1>0 DEF FilesInv, Table, ServiceInv, InMemory, SstPc, Saving
<1>2. RequestInv' /\ CounterInv'
  BY <1>0 DEF RequestInv, CounterInv, Saving, Writing, Removing
<1>3. RoomInv'
  BY <1>0 DEF RoomInv, Table, InMemory, Saving, Writing
<1>4. FaultInv' /\ (Excused => Excused')
  BY <1>0, ExcusedKept
<1>5. AuthenticInv => AuthenticInv'
  BY <1>0 DEF AuthenticInv, TablesAuthentic, Table, InMemory, Saving, Writing, Removing
<1> QED
  BY <1>1, <1>2, <1>3, <1>4, <1>5 DEF SstIInv

\* A boot that gives the tables up starts with an empty one.
LEMMA WipeStep ==
  ASSUME SstIInv, pc \in {"prepare", "init_remove"}, boot # "done", Wipe,
         UNCHANGED <<rollback, its, nvc, req, fid, old, reply>>,
         faults' = faults \/ (faults' \in Nat /\ faults' = faults - 1)
  PROVE  SstIInv'
<1>0. /\ FilesInv /\ ServiceInv /\ RequestInv /\ RoomInv
  BY DEF SstIInv
<1>1. FaultInv' /\ (Excused => Excused') /\ faults' \in Nat
  BY ExcusedKept
<1>2. FilesInv' /\ \A t \in TableIdx : Table(t)' = Table(t)
  BY <1>0 DEF FilesInv, Table
<1>3. \/ pc' = "abort" /\ boot' = boot
      \/ /\ pc' = "save" /\ boot' = "wipe" /\ undo' = EmptyTable
         /\ ctx' = [table |-> EmptyTable, count |-> 0, active |-> 1, scratch |-> 0]
  BY DEF Wipe, service
<1>4. /\ EmptyTable \in ObjectTable /\ HasRoom(EmptyTable)
      /\ \A i \in Idx : EmptyTable[i] = NULL
  BY SstAssumption DEF EmptyTable, ObjectTable, HasRoom, Idx
<1>5. pc' = "save" => /\ ctx' \in Context /\ ctx'.scratch = 1 - ctx'.active
                      /\ ctx'.table = EmptyTable
  <2>1. 0 \in TableIdx /\ 1 \in TableIdx
    BY DEF TableIdx
  <2> QED
    BY <1>3, <1>4, <2>1 DEF Context
<1>6. ServiceInv'
  BY <1>0, <1>1, <1>3, <1>4, <1>5 DEF ServiceInv, InMemory, SstPc, Saving
<1>7. RequestInv' /\ CounterInv'
  BY <1>0, <1>3 DEF RequestInv, CounterInv, Saving, Writing, Removing
<1>8. RoomInv'
  BY <1>0, <1>2, <1>3, <1>4, <1>5 DEF RoomInv, InMemory, Saving, Writing
<1>9. AuthenticInv => AuthenticInv'
  BY <1>2, <1>3, <1>4, <1>5
     DEF AuthenticInv, TablesAuthentic, Authentic, InMemory, Saving, Writing, Removing
<1> QED
  BY <1>1, <1>2, <1>6, <1>7, <1>8, <1>9 DEF SstIInv

\* sst_object_table_init() takes an authentic table into memory.
LEMMA PrepareStep == SstIInv /\ Prepare => SstIInv'
<1> SUFFICES ASSUME SstIInv, Prepare PROVE SstIInv'
  OBVIOUS
<1>0. /\ FilesInv /\ ServiceInv /\ RequestInv /\ RoomInv
      /\ pc = "prepare" /\ boot # "done"
      /\ UNCHANGED <<rollback, faults, its, nvc, req, fid, old, reply>>
  BY DEF SstIInv, Prepare, RequestInv, request
<1>1. CASE ValidTables = {}
  BY <1>0, <1>1, WipeStep DEF Prepare
<1>2. CASE ValidTables # {}
  <2> DEFINE t == sst_set_active_object_table
  <2>1. t \in ValidTables
    <3>1. CASE ValidTables # TableIdx
      BY <1>2, <3>1 DEF sst_set_active_object_table, ValidTables
    <3>2. CASE ValidTables = TableIdx
      BY <1>0, <3>2 DEF sst_set_active_object_table, TableIdx, ServiceInv
    <3> QED
      BY <3>1, <3>2
  <2>2. /\ ctx' = [table |-> Table(t).data.table, count |-> Table(t).data.count,
                   active |-> t, scratch |-> 1 - t]
        /\ pc' = "init_remove"
        /\ UNCHANGED <<undo, boot>>
    BY <1>2 DEF Prepare
  <2> HIDE DEF t
  <2>3. t \in TableIdx /\ Table(t) # NULL /\ Table(t) \in TableFile
    BY <1>0, <2>1 DEF ValidTables, TableState, FilesInv
  <2>4. /\ ctx' \in Context /\ ctx'.scratch = 1 - ctx'.active
        /\ ctx'.table = Table(t).data.table /\ ctx'.active = t
    BY <2>2, <2>3 DEF Context, TableFile, TableIdx
  <2>5. FilesInv' /\ \A u \in TableIdx : Table(u)' = Table(u)
    BY <1>0 DEF FilesInv, Table
  <2>6. ServiceInv'
    BY <1>0, <2>2, <2>4 DEF ServiceInv, InMemory, SstPc, Saving
  <2>7. RequestInv' /\ CounterInv'
    BY <1>0, <2>2 DEF RequestInv, CounterInv, Saving, Writing, Removing
  <2>8. RoomInv'
    BY <1>0, <2>2, <2>3, <2>4, <2>5 DEF RoomInv, InMemory, Saving, Writing
  <2>9. FaultInv' /\ (Excused => Excused')
    BY <1>0, ExcusedKept
  <2>10. AuthenticInv => AuthenticInv'
    <3>1. Current'
      BY <1>0, <2>3, <2>4 DEF Current, Table
    <3> QED
      BY <1>0, <2>2, <2>3, <2>4, <2>5, <3>1
         DEF AuthenticInv, TablesAuthentic, InMemory, Saving, Writing, Removing
  <2> QED
    BY <2>5, <2>6, <2>7, <2>8, <2>9, <2>10 DEF SstIInv
<1> QED
  BY <1>1, <1>2

\* sst_object_table_init() removes the other table.
LEMMA InitRemoveStep == SstIInv /\ InitRemove => SstIInv'
<1> SUFFICES ASSUME SstIInv, InitRemove PROVE SstIInv'
  OBVIOUS
<1>0. /\ FilesInv /\ ServiceInv /\ RequestInv /\ RoomInv
      /\ pc = "init_remove" /\ boot # "done" /\ InMemory
      /\ ctx \in Context /\ ctx.scratch = 1 - ctx.active
      /\ UNCHANGED <<rollback, nvc>>
  BY DEF SstIInv, InitRemove, RequestInv, ServiceInv, InMemory
<1>1. CASE Fault /\ Wipe /\ UNCHANGED request
  <2>1. faults' \in Nat /\ faults' = faults - 1 /\ its' = its
    BY <1>0, <1>1 DEF Fault, ServiceInv
  <2> QED
    BY <1>0, <1>1, <2>1, WipeStep DEF request
<1>2. CASE RemoveFile(SST_TABLE_FS_ID(ctx.scratch), "align") /\ UNCHANGED service
  <2>0. ctx.scratch \in TableIdx /\ ctx.active \in TableIdx /\ ctx.active # ctx.scratch
    BY <1>0 DEF Context, TableIdx
  <2>1. /\ pc' = "align" /\ UNCHANGED <<faults, ctx, undo, boot>> /\ UNCHANGED request
        /\ its' = [its EXCEPT ![SST_TABLE_FS_ID(ctx.scratch)] = NULL]
    BY <1>2 DEF RemoveFile, SetFile, service
  <2>2. /\ FilesInv' /\ \A g \in ObjectId : its'[g] = its[g]
        /\ \A u \in TableIdx : Table(u)' = IF u = ctx.scratch THEN NULL ELSE Table(u)
    BY <1>0, <2>0, <2>1, TableWritten
  <2>3. ServiceInv'
    BY <1>0, <2>1 DEF ServiceInv, InMemory, SstPc, Saving
  <2>4. RequestInv' /\ CounterInv'
    BY <1>0, <2>1 DEF RequestInv, CounterInv, request, Saving, Writing, Removing
  <2>5. RoomInv'
    BY <1>0, <2>1, <2>2 DEF RoomInv, InMemory, Saving, Writing
  <2>6. FaultInv' /\ (Excused => Excused')
    BY <1>0, <2>1, ExcusedKept
  <2>7. AuthenticInv => AuthenticInv'
    <3> SUFFICES ASSUME AuthenticInv PROVE AuthenticInv'
      OBVIOUS
    <3>1. \A T : Authentic(its, T) => Authentic(its', T)
      BY <2>2, FileIds DEF Authentic
    <3>2. Authentic(its', ctx.table) /\ Current
      BY <1>0, <3>1 DEF AuthenticInv
    <3>3. TablesAuthentic'
      BY <2>2, <3>1 DEF TablesAuthentic, AuthenticInv
    <3>4. OnlyActive'
      BY <1>0, <2>0, <2>1, <2>2, <3>2 DEF OnlyActive, Current
    <3> QED
      BY <1>0, <2>1, <3>2, <3>3, <3>4
         DEF AuthenticInv, InMemory, request, Saving, Writing, Removing
  <2> QED
    BY <2>2, <2>3, <2>4, <2>5, <2>6, <2>7 DEF SstIInv
<1> QED
  BY <1>1, <1>2 DEF InitRemove
-----------------------------------------------------------------------------
\* The invariant holds in every state, before and after any power failure and
\* any error of internal trusted storage.
THEOREM SstInductive == SstSpec => []SstIInv
<1>1. SstInit => SstIInv
  <2> SUFFICES ASSUME SstInit PROVE SstIInv
    OBVIOUS
  <2>1. /\ \A f \in FileId : its[f] = NULL
        /\ pc = "prepare" /\ boot = "first" /\ old = NULL /\ reply = NULL
    BY DEF SstInit
  <2>2. \A t \in TableIdx : Table(t) = NULL
    BY <2>1, FileIds DEF Table
  <2>3. FilesInv
    BY <2>1, <2>2, FileIds DEF SstInit, FilesInv
  <2>4. ServiceInv /\ FaultInv
    <3>1. PICK b \in Builds : rollback = b[1] /\ faults = b[2]
      BY DEF SstInit
    <3>2. b \in BOOLEAN \X Nat
      BY SstAssumption
    <3>3. rollback \in BOOLEAN /\ faults \in Nat
      BY <3>1, <3>2
    <3>4. FaultInv
      BY <3>1, <3>3 DEF FaultInv
    <3>5. nvc \in [1..3 -> Nat]
      BY DEF SstInit
    <3> QED
      BY <2>1, <3>3, <3>4, <3>5 DEF ServiceInv, InMemory, SstPc, Saving
  <2>5. RequestInv /\ RoomInv /\ CounterInv
    BY <2>1, <2>2
      DEF RequestInv, RoomInv, CounterInv, InMemory, Saving, Writing, Removing
  <2>6. AuthenticInv
    BY <2>1, <2>2 DEF AuthenticInv, TablesAuthentic, InMemory, Saving, Writing, Removing
  <2> QED
    BY <2>3, <2>4, <2>5, <2>6 DEF SstIInv
<1>2. SstIInv /\ [SstNext]_sstVars => SstIInv'
  <2> SUFFICES ASSUME SstIInv, [SstNext]_sstVars PROVE SstIInv'
    OBVIOUS
  <2>1. CASE SstNext
    BY <2>1, PrepareStep, InitRemoveStep, SaveStep, TableBegunStep, TableFillStep,
       AlignStep, AlignedStep, BeginStep, GetStep, SetStep, ObjectBegunStep,
       ObjectFillStep, UndoObjectStep, RemoveStep, RemoveTableStep, RemoveObjectStep,
       PowerFailStep DEF SstNext
  <2>2. CASE UNCHANGED sstVars
    BY <2>2 DEF sstVars, SstIInv, FilesInv, ServiceInv, RequestInv, RoomInv, CounterInv,
                FaultInv, Excused, AuthenticInv, TablesAuthentic, OnlyActive, Current,
                Table, InMemory, EntriesOf, Saved
  <2> QED
    BY <2>1, <2>2
<1> QED
  BY <1>1, <1>2, PTL DEF SstSpec

\* A request that is not refused fails only after an error of internal trusted
\* storage or with counter 1 at its greatest value: no sequence of requests and
\* power failures leaves a table entry whose object does not authenticate.
THEOREM SstFailsForAReason == SstSpec => []FailsForAReason
<1>1. SstIInv => FailsForAReason
  BY DEF SstIInv, FailsForAReason, Excused, AuthenticInv
<1> QED
  BY <1>1, SstInductive, PTL

\* When no request is being served, sst_table_free_idx() finds a free entry, so
\* that every object in the table can be replaced.
THEOREM SstAlwaysRoom == SstSpec => []AlwaysRoom
<1>1. SstIInv => AlwaysRoom
  BY DEF SstIInv, AlwaysRoom, RoomInv, HasRoom, InMemory, FreeIdx
<1> QED
  BY <1>1, SstInductive, PTL

\* Rollback protection: after a boot and after a successful update no table that
\* was written with an earlier value of counter 1 authenticates.
THEOREM SstOldTablesRejected == SstSpec => []OldTablesRejected
<1>1. SstIInv => OldTablesRejected
  <2> SUFFICES ASSUME SstIInv, rollback, pc = "ready", Saved, NEW n \in 0..(nvc[1] - 1)
               PROVE  Authenticated(n) = "INVALID"
    BY DEF OldTablesRejected, Saved
  <2>1. nvc \in [1..3 -> Nat] /\ nvc[1] <= nvc[3]
    BY DEF SstIInv, CounterInv, ServiceInv
  <2>2. n < nvc[1] /\ n # nvc[1] /\ n # nvc[3]
    BY <2>1
  <2> QED
    BY <2>2 DEF Authenticated
<1> QED
  BY <1>1, SstInductive, PTL
-----------------------------------------------------------------------------
(* What the refinement of SstStore needs besides: which tables a boot would *)
(* find, and what the requests have done to the table.                      *)

\* The builds in which updates are atomic: without rollback protection an error
\* of internal trusted storage uses up a swap count, and after the count wraps
\* around the older of two tables would be taken for the newer one.
SoundBuilds == \A b \in Builds : b[1] \/ b[2] = 0

\* Entries that refer to an object.
EntriesIn(table, o) == {i \in Idx : table[i] # NULL /\ table[i].obj = o}

Unique(table) ==
  \A i, j \in Idx : /\ table[i] # NULL /\ table[j] # NULL
                    /\ table[i].obj = table[j].obj
                    => i = j

\* Every entry authenticates, and no object has two.
Good(files, table) == Authentic(files, table) /\ Unique(table)

IsWhole(t) == Table(t) # NULL /\ Table(t).whole
Count(t) == Table(t).data.count

\* A boot may find the table, now or later: no counter has passed it.
Live(t) == IsWhole(t) /\ (rollback => nvc[3] <= Count(t))

\* The table that a power failure or a failed save goes back to.
Working == IF undo = NULL THEN ctx.table ELSE undo

\* Where counter 1 is ahead of the table that is still the active one.
Ahead == {"table_delete", "table_create", "table_fill"}

CountInv ==
  /\ nvc[3] <= nvc[2] /\ nvc[2] <= nvc[1]
  /\ \A t \in TableIdx : Table(t) # NULL =>
       IF rollback THEN 1 <= Count(t) /\ Count(t) <= nvc[1] ELSE Count(t) < SwapMax
  /\ ~rollback => faults = 0
  /\ ~rollback /\ InMemory => ctx.count < SwapMax
  /\ rollback /\ pc \in Ahead =>
       /\ 1 <= nvc[1]
       /\ Table(ctx.active) # NULL => Count(ctx.active) < nvc[1]

\* The tables that count are good ones.
GoodInv ==
  /\ \A t \in TableIdx : Live(t) => Good(its, Table(t).data.table)
  /\ InMemory => Good(its, ctx.table)
  /\ pc \in Saving => Good(its, undo)
  /\ undo # NULL <=> pc \in Saving

\* The other table is not whole, or has been replaced for good.
Retired ==
  IsWhole(ctx.scratch) =>
    IF rollback
      THEN /\ Count(ctx.scratch) < Count(ctx.active)
           /\ \/ Count(ctx.scratch) < nvc[3]
              \/ pc = "align" /\ boot = "done" /\ Count(ctx.active) = nvc[1]
      ELSE /\ pc \in {"align", "remove_table"} /\ boot = "done"
           /\ Count(ctx.active) = NextCount(Count(ctx.scratch))

\* The active file holds the table to go back to, and a boot that finds a table
\* finds that one.
MemoryInv ==
  InMemory /\ boot # "wipe" =>
    /\ IsWhole(ctx.active) /\ Table(ctx.active).data.table = Working
    /\ IF pc = "init_remove"
         THEN ValidTables # {} /\ ctx.active = sst_set_active_object_table
         ELSE Retired
    /\ ~rollback => ctx.count = IF pc \in Ahead THEN NextCount(Count(ctx.active))
                                ELSE Count(ctx.active)
    /\ rollback /\ boot = "done" /\ pc # "align" =>
         nvc[2] = nvc[3] /\ Count(ctx.active) <= nvc[3]
    /\ rollback /\ boot = "done" /\ pc = "align" => Count(ctx.active) = nvc[1]
    /\ boot = "done" /\ pc \in {"align", "remove_table"} => Table(ctx.scratch) # NULL

\* The empty table is in file 0 and beats what is in file 1.
Wiped ==
  /\ IsWhole(0) /\ Table(0).data.table = EmptyTable
  /\ rollback => Count(0) = nvc[1] /\ (Table(1) # NULL => Count(1) < nvc[1])
  /\ ~rollback => ~IsWhole(1)

WipeInv ==
  /\ boot = "first" => pc \in {"prepare", "init_remove", "align"}
  /\ boot = "wipe" => pc \in Saving \cup {"align", "abort"}
  /\ boot = "wipe" /\ pc \in Saving =>
       /\ ctx.scratch = 0 /\ ctx.table = EmptyTable
       /\ ~rollback => \A t \in TableIdx : ~IsWhole(t)
  /\ boot = "wipe" /\ pc = "align" => Wiped
  /\ boot = "again" =>
       /\ pc \in {"prepare", "init_remove", "align", "abort"} /\ Wiped
       /\ rollback => nvc[1] = nvc[2] /\ nvc[2] = nvc[3]
       /\ pc # "prepare" => /\ ctx \in Context /\ ctx.active = 0
                            /\ ctx.table = EmptyTable
  /\ boot = "done" => pc \notin {"prepare", "abort", "init_remove"}

\* A request may change what the object has now.
MayChange(table) ==
  \A i \in EntriesIn(table, req.obj) : ~its[SST_OBJECT_FS_ID(i)].data.once

\* The table has what the request asked for.
Updated ==
  IF req.op = "set"
    THEN \E i \in EntriesIn(ctx.table, req.obj) : its[SST_OBJECT_FS_ID(i)].data = NewAsset
    ELSE EntriesIn(ctx.table, req.obj) = {}

UpdateInv ==
  /\ boot # "done" \/ pc = "ready" => req = NULL
  /\ pc \in Writing =>
       /\ ctx.table[SST_OBJECT_FS_ID_TO_IDX(fid)] = NULL
       /\ MayChange(ctx.table)
       /\ old # NULL => SST_OBJECT_FS_ID_TO_IDX(old) \in EntriesIn(ctx.table, req.obj)
  /\ pc = "undo_object" =>
       /\ req.op = "set" /\ ctx.table[SST_OBJECT_FS_ID_TO_IDX(fid)] = NULL
  /\ pc \in Saving /\ boot = "done" => req.op # "get" /\ MayChange(undo)
  /\ pc \in Saving /\ boot = "done" /\ req.op = "set" =>
       LET k == SST_OBJECT_FS_ID_TO_IDX(fid) IN
       /\ NewAsset \in Asset /\ undo[k] = NULL
       /\ ctx.table = [i \in Idx |-> IF i = k THEN Entry(req.obj, fid, NewAsset)
                                     ELSE IF i \in EntriesIn(undo, req.obj) THEN NULL
                                     ELSE undo[i]]
  /\ pc \in Saving /\ boot = "done" /\ req.op = "remove" =>
       \E k \in EntriesIn(undo, req.obj) : ctx.table = [undo EXCEPT ![k] = NULL]
  /\ pc \in Saving \cup Removing \cup {"align"} /\ boot = "done" /\ old # NULL =>
       ctx.table[SST_OBJECT_FS_ID_TO_IDX(old)] = NULL
  /\ pc \in Removing \cup {"align"} /\ boot = "done" => req.op # "get" /\ Updated

\* The inductive invariant of the refinement, with SstIInv.
StoreInv ==
  /\ CountInv
  /\ GoodInv
  /\ MemoryInv
  /\ WipeInv
  /\ UpdateInv
\* The assets of a good table.
AssetsIn(files, table) ==
  [o \in Obj |->
     IF EntriesIn(table, o) = {} THEN NULL
     ELSE files[SST_OBJECT_FS_ID(CHOOSE i \in EntriesIn(table, o) : TRUE)].data]

\* The files of objects.
ObjectFiles(files) == \A f \in ObjectId : files[f] \in ObjectFile \cup {NULL}
-----------------------------------------------------------------------------
\* What a good table refers to.
LEMMA GoodAssets ==
  ASSUME NEW files, ObjectFiles(files), NEW T \in ObjectTable, Good(files, T)
  PROVE  /\ \A o \in Obj : EntriesIn(T, o) = {} => AssetsIn(files, T)[o] = NULL
         /\ \A o \in Obj : \A i \in EntriesIn(T, o) :
              /\ AssetsIn(files, T)[o] = files[SST_OBJECT_FS_ID(i)].data
              /\ AssetsIn(files, T)[o] \in Asset
         /\ AssetsIn(files, T) \in [Obj -> Asset \cup {NULL}]
<1>1. \A o \in Obj : EntriesIn(T, o) = {} => AssetsIn(files, T)[o] = NULL
  BY DEF AssetsIn
<1>2. ASSUME NEW o \in Obj, NEW i \in EntriesIn(T, o)
      PROVE  /\ AssetsIn(files, T)[o] = files[SST_OBJECT_FS_ID(i)].data
             /\ AssetsIn(files, T)[o] \in Asset
  <2> DEFINE j == CHOOSE k \in EntriesIn(T, o) : TRUE
  <2>1. j \in EntriesIn(T, o)
    BY <1>2
  <2>2. AssetsIn(files, T)[o] = files[SST_OBJECT_FS_ID(j)].data
    BY <1>2 DEF AssetsIn
  <2> HIDE DEF j
  <2>3. j = i
    BY <1>2, <2>1 DEF EntriesIn, Good, Unique
  <2>4. i \in Idx /\ T[i] # NULL
    BY <1>2 DEF EntriesIn
  <2>5. files[SST_OBJECT_FS_ID(i)] \in ObjectFile
    BY <2>4, FileIds DEF Good, Authentic, ObjectFiles
  <2> QED
    BY <2>2, <2>3, <2>5 DEF ObjectFile
<1>3. ASSUME NEW o \in Obj PROVE AssetsIn(files, T)[o] \in Asset \cup {NULL}
  BY <1>1, <1>2
<1> QED
  BY <1>1, <1>2, <1>3 DEF AssetsIn

\* Only the files that a table refers to matter to it.
LEMMA GoodFrame ==
  ASSUME NEW files, NEW files2, NEW T,
         \A i \in Idx : T[i] # NULL => files2[SST_OBJECT_FS_ID(i)] = files[SST_OBJECT_FS_ID(i)]
  PROVE  /\ AssetsIn(files2, T) = AssetsIn(files, T)
         /\ Good(files, T) => Good(files2, T)
<1>1. ASSUME NEW o \in Obj, EntriesIn(T, o) # {}
      PROVE  LET j == CHOOSE k \in EntriesIn(T, o) : TRUE
             IN files2[SST_OBJECT_FS_ID(j)] = files[SST_OBJECT_FS_ID(j)]
  BY <1>1 DEF EntriesIn
<1>2. AssetsIn(files2, T) = AssetsIn(files, T)
  BY <1>1 DEF AssetsIn
<1>3. Good(files, T) => Good(files2, T)
  BY DEF Good, Authentic
<1> QED
  BY <1>2, <1>3

\* sst_encrypted_object_read() finds the assets of a good table.
LEMMA AssetsAre ==
  ASSUME FilesInv, NEW T \in ObjectTable, Good(its, T)
  PROVE  AssetsOf(T) = AssetsIn(its, T)
<1> DEFINE at(o) == {i \in Idx : T[i] # NULL /\ T[i].obj = o}
           read(i) == sst_encrypted_object_read(T[i], SST_OBJECT_FS_ID(i))
           val(o) == IF at(o) = {} THEN NULL
                     ELSE LET i == CHOOSE i \in at(o) : TRUE
                          IN IF read(i) = NULL THEN LOST ELSE read(i)
<1>1. AssetsOf(T) = [o \in Obj |-> val(o)]
  BY Zenon DEF AssetsOf
<1>2. ASSUME NEW i \in Idx, T[i] # NULL
      PROVE  read(i) = its[SST_OBJECT_FS_ID(i)].data /\ read(i) # NULL
  BY <1>2, FileIds, NullAssumption
     DEF Good, Authentic, sst_encrypted_object_read, FilesInv, ObjectFile
<1>3. ASSUME NEW o \in Obj PROVE val(o) = AssetsIn(its, T)[o]
  <2>1. at(o) = EntriesIn(T, o)
    BY DEF EntriesIn
  <2>2. CASE EntriesIn(T, o) = {}
    BY <2>1, <2>2 DEF AssetsIn
  <2>3. CASE EntriesIn(T, o) # {}
    <3>1. PICK j \in Idx : j = (CHOOSE i \in EntriesIn(T, o) : TRUE) /\ T[j] # NULL
      BY <2>3 DEF EntriesIn
    <3>2. AssetsIn(its, T)[o] = its[SST_OBJECT_FS_ID(j)].data
      BY <2>3, <3>1 DEF AssetsIn
    <3>3. val(o) = IF read(j) = NULL THEN LOST ELSE read(j)
      <4>1. at(o) # {} /\ j = (CHOOSE i \in at(o) : TRUE)
        BY <2>1, <2>3, <3>1
      <4> HIDE DEF at, read
      <4> QED
        BY <4>1 DEF val
    <3> QED
      BY <1>2, <3>1, <3>2, <3>3
  <2> QED
    BY <2>2, <2>3
<1>4. AssetsIn(its, T) = [o \in Obj |-> AssetsIn(its, T)[o]]
  BY DEF AssetsIn
<1> HIDE DEF val
<1> QED
  BY <1>1, <1>3, <1>4

\* A table that authenticates is a live one.
LEMMA ValidIsLive ==
  ASSUME SstIInv, StoreInv, NEW t \in ValidTables
  PROVE  /\ t \in TableIdx /\ IsWhole(t) /\ Live(t)
         /\ Table(t) \in TableFile /\ Table(t).data.table \in ObjectTable
         /\ Count(t) \in Nat /\ Good(its, Table(t).data.table)
<1>0. FilesInv /\ CountInv /\ GoodInv /\ nvc \in [1..3 -> Nat]
  BY DEF SstIInv, StoreInv, ServiceInv
<1>1. t \in TableIdx /\ TableState(t) # "INVALID"
  BY DEF ValidTables
<1>2. IsWhole(t)
  BY <1>1 DEF TableState, IsWhole
<1>3. Table(t) \in TableFile /\ Table(t).data.table \in ObjectTable /\ Count(t) \in Nat
  BY <1>0, <1>1, <1>2 DEF FilesInv, IsWhole, TableFile, Count
<1>4. rollback => Authenticated(Count(t)) # "INVALID"
  BY <1>1, <1>2 DEF TableState, IsWhole, Count
<1>5. rollback => nvc[3] <= Count(t)
  BY <1>0, <1>3, <1>4 DEF Authenticated, CountInv
<1> QED
  BY <1>0, <1>1, <1>2, <1>3, <1>5 DEF Live, GoodInv

\* The choice of sst_set_active_object_table() is a table that authenticates.
LEMMA SelectedIsValid ==
  ASSUME ValidTables # {}
  PROVE  sst_set_active_object_table \in ValidTables
<1>1. ValidTables \subseteq TableIdx
  BY DEF ValidTables
<1>2. CASE ValidTables # TableIdx
  BY <1>2 DEF sst_set_active_object_table
<1>3. CASE ValidTables = TableIdx
  BY <1>3 DEF sst_set_active_object_table, TableIdx
<1> QED
  BY <1>2, <1>3

\* When a boot chooses between two tables.
LEMMA SelectedOf ==
  ASSUME NEW t \in ValidTables,
         1 - t \in ValidTables =>
           IF rollback
             THEN IF t = 1 THEN TableState(t) = "NVC_1_VALID"
                  ELSE TableState(1 - t) # "NVC_1_VALID"
             ELSE /\ Count(1 - t) \in Nat /\ Count(1 - t) < SwapMax
                  /\ Count(t) = NextCount(Count(1 - t))
  PROVE  sst_set_active_object_table = t
<1>1. ValidTables \subseteq TableIdx /\ TableIdx = {t, 1 - t} /\ t \in {0, 1}
  <2>1. ValidTables \subseteq {0, 1} /\ TableIdx = {0, 1}
    BY DEF ValidTables, TableIdx
  <2>2. (t = 0 /\ 1 - t = 1) \/ (t = 1 /\ 1 - t = 0)
    BY <2>1
  <2> QED
    BY <2>1, <2>2
<1>2. CASE 1 - t \notin ValidTables
  <2>1. ValidTables = {t}
    BY <1>1, <1>2, Zenon
  <2>2. ValidTables # TableIdx
    BY <1>1, <1>2
  <2> QED
    BY <2>1, <2>2 DEF sst_set_active_object_table
<1>3. CASE 1 - t \in ValidTables
  <2>1. ValidTables = TableIdx
    BY <1>1, <1>3, Zenon
  <2>2. CASE rollback
    BY <1>1, <1>3, <2>1, <2>2 DEF sst_set_active_object_table
  <2>3. CASE ~rollback
    <3> DEFINE n0 == Table(0).data.count
               n1 == Table(1).data.count
    <3>1. sst_set_active_object_table =
            CASE n1 = 0 /\ n0 # 1 -> 1
              [] ~(n1 = 0 /\ n0 # 1) /\ n0 = 0 /\ n1 # 1 -> 0
              [] OTHER -> IF n1 > n0 THEN 1 ELSE 0
      BY <2>1, <2>3 DEF sst_set_active_object_table
    <3>2. SwapMax \in Nat /\ SwapMax >= 3
      BY SstAssumption
    <3>3. CASE t = 0
      <4>1. n1 \in Nat /\ n1 < SwapMax /\ n0 = IF n1 + 1 = SwapMax THEN 0 ELSE n1 + 1
        BY <1>3, <2>3, <3>3 DEF NextCount, Count
      <4> HIDE DEF n0, n1
      <4> QED
        BY <3>1, <3>2, <3>3, <4>1
    <3>4. CASE t = 1
      <4>1. n0 \in Nat /\ n0 < SwapMax /\ n1 = IF n0 + 1 = SwapMax THEN 0 ELSE n0 + 1
        BY <1>3, <2>3, <3>4 DEF NextCount, Count
      <4> HIDE DEF n0, n1
      <4> QED
        BY <3>1, <3>2, <3>4, <4>1
    <3> QED
      BY <1>1, <3>3, <3>4
  <2> QED
    BY <2>2, <2>3
<1> QED
  BY <1>2, <1>3

\* What the invariant says of the tables while one is in memory.
LEMMA MemoryFacts ==
  ASSUME SstIInv, StoreInv, InMemory
  PROVE  /\ ctx \in Context /\ ctx # NULL /\ ctx.table \in ObjectTable
         /\ ctx.active \in TableIdx /\ ctx.scratch \in TableIdx /\ ctx.count \in Nat
         /\ ctx.scratch = 1 - ctx.active /\ ctx.active = 1 - ctx.scratch
         /\ Working \in ObjectTable /\ Good(its, Working) /\ Good(its, ctx.table)
         /\ nvc \in [1..3 -> Nat] /\ nvc[1] \in Nat /\ nvc[2] \in Nat /\ nvc[3] \in Nat
         /\ nvc[3] <= nvc[2] /\ nvc[2] <= nvc[1]
         /\ rollback \in BOOLEAN /\ faults \in Nat
         /\ \A t \in TableIdx : Table(t) # NULL =>
              /\ Table(t) \in TableFile /\ Count(t) \in Nat
              /\ Table(t).data.table \in ObjectTable
         /\ boot # "wipe" => IsWhole(ctx.active) /\ Table(ctx.active).data.table = Working
<1>1. FilesInv /\ ServiceInv /\ CountInv /\ GoodInv /\ MemoryInv
  BY DEF SstIInv, StoreInv
<1>2. /\ ctx \in Context /\ ctx # NULL /\ ctx.table \in ObjectTable
      /\ ctx.active \in TableIdx /\ ctx.scratch \in TableIdx /\ ctx.count \in Nat
      /\ ctx.scratch = 1 - ctx.active
  BY <1>1, AbsentAssumption DEF ServiceInv, Context
<1>3. ctx.active = 1 - ctx.scratch
  BY <1>2 DEF TableIdx
<1>4. Working \in ObjectTable /\ Good(its, Working) /\ Good(its, ctx.table)
  BY <1>1, <1>2 DEF Working, GoodInv, ServiceInv
<1>5. /\ nvc \in [1..3 -> Nat] /\ nvc[1] \in Nat /\ nvc[2] \in Nat /\ nvc[3] \in Nat
      /\ nvc[3] <= nvc[2] /\ nvc[2] <= nvc[1]
      /\ rollback \in BOOLEAN /\ faults \in Nat
  BY <1>1 DEF ServiceInv, CountInv
<1>6. \A t \in TableIdx : Table(t) # NULL =>
        /\ Table(t) \in TableFile /\ Count(t) \in Nat
        /\ Table(t).data.table \in ObjectTable
  BY <1>1 DEF FilesInv, TableFile, Count
<1>7. boot # "wipe" => IsWhole(ctx.active) /\ Table(ctx.active).data.table = Working
  BY <1>1 DEF MemoryInv
<1> QED
  BY <1>2, <1>3, <1>4, <1>5, <1>6, <1>7

\* How a whole table authenticates.
LEMMA StateOf ==
  ASSUME NEW t \in TableIdx, IsWhole(t)
  PROVE  /\ rollback => TableState(t) = Authenticated(Count(t))
         /\ ~rollback => TableState(t) = "VALID"
BY DEF IsWhole, TableState, Count

\* A table that is not whole does not authenticate.
LEMMA NotWhole ==
  ASSUME NEW t \in TableIdx, ~IsWhole(t)
  PROVE  TableState(t) = "INVALID"
BY DEF IsWhole, TableState

\* Whether the table of the context, or the other one, authenticates.
LEMMA ActiveState ==
  ASSUME SstIInv, StoreInv, InMemory, boot \in {"first", "done"}, pc # "init_remove"
  PROVE  /\ ~rollback => TableState(ctx.active) = "VALID"
         /\ rollback =>
              /\ TableState(ctx.active) =
                   IF Count(ctx.active) = nvc[1] THEN "NVC_1_VALID"
                   ELSE IF Count(ctx.active) = nvc[3] /\ nvc[3] = nvc[2] THEN "NVC_3_VALID"
                   ELSE "INVALID"
              /\ TableState(ctx.scratch) # "NVC_1_VALID"
              /\ \/ TableState(ctx.scratch) = "INVALID"
                 \/ TableState(ctx.active) = "NVC_1_VALID"
         /\ ~rollback /\ TableState(ctx.scratch) # "INVALID" =>
              /\ Count(ctx.scratch) \in Nat /\ Count(ctx.scratch) < SwapMax
              /\ Count(ctx.active) = NextCount(Count(ctx.scratch))
<1> DEFINE a == ctx.active
           s == ctx.scratch
<1>0. /\ a \in TableIdx /\ s \in TableIdx /\ IsWhole(a)
      /\ Table(a) # NULL /\ Count(a) \in Nat
      /\ nvc[1] \in Nat /\ nvc[2] \in Nat /\ nvc[3] \in Nat
      /\ nvc[3] <= nvc[2] /\ nvc[2] <= nvc[1]
      /\ IsWhole(s) => Table(s) # NULL /\ Count(s) \in Nat
      /\ rollback \in BOOLEAN
  BY MemoryFacts DEF IsWhole
<1>1. CountInv /\ Retired
  BY DEF StoreInv, MemoryInv
<1>2. CASE rollback
  <2>1. 1 <= Count(a) /\ Count(a) <= nvc[1]
    BY <1>0, <1>1, <1>2 DEF CountInv
  <2>2. TableState(a) =
          IF Count(a) = nvc[1] THEN "NVC_1_VALID"
          ELSE IF Count(a) = nvc[3] /\ nvc[3] = nvc[2] THEN "NVC_3_VALID" ELSE "INVALID"
    <3>1. TableState(a) = Authenticated(Count(a))
      BY <1>0, <1>2, StateOf
    <3> HIDE DEF a
    <3> QED
      BY <1>0, <2>1, <3>1 DEF Authenticated
  <2>3. CASE IsWhole(s)
    <3>1. TableState(s) = Authenticated(Count(s))
      BY <1>0, <1>2, <2>3, StateOf
    <3>2. /\ Count(s) < Count(a)
          /\ Count(s) < nvc[3] \/ Count(a) = nvc[1]
      BY <1>1, <1>2, <2>3 DEF Retired
    <3>3. Count(s) # nvc[1] /\ (Count(s) = nvc[3] => Count(a) = nvc[1])
      BY <1>0, <2>1, <2>3, <3>2
    <3>4. /\ Authenticated(Count(s)) # "NVC_1_VALID"
          /\ Authenticated(Count(s)) = "INVALID" \/ Count(s) = nvc[3]
      BY <3>3 DEF Authenticated
    <3> QED
      BY <1>2, <2>2, <3>1, <3>3, <3>4
  <2>4. CASE ~IsWhole(s)
    BY <1>0, <1>2, <2>2, <2>4, NotWhole
  <2> QED
    BY <2>3, <2>4
<1>3. CASE ~rollback
  <2>1. TableState(a) = "VALID"
    BY <1>0, <1>3, StateOf
  <2>2. CASE IsWhole(s)
    <3>1. Count(s) < SwapMax
      BY <1>0, <1>1, <1>3, <2>2 DEF CountInv
    <3>2. Count(a) = NextCount(Count(s))
      BY <1>1, <1>3, <2>2 DEF Retired
    <3> QED
      BY <1>0, <1>3, <2>1, <2>2, <3>1, <3>2
  <2>3. CASE ~IsWhole(s)
    BY <1>0, <1>3, <2>1, <2>3, NotWhole
  <2> QED
    BY <2>2, <2>3
<1> QED
  BY <1>2, <1>3

\* While a table is in memory, a boot that finds a table finds that one.
LEMMA MemorySelected ==
  ASSUME SstIInv, StoreInv, InMemory, boot \in {"first", "done"}, ValidTables # {}
  PROVE  sst_set_active_object_table = ctx.active
<1>1. CASE pc = "init_remove"
  BY <1>1 DEF StoreInv, MemoryInv
<1>2. CASE pc # "init_remove"
  <2>0. ctx.active \in TableIdx /\ ctx.scratch = 1 - ctx.active /\ rollback \in BOOLEAN
    BY MemoryFacts
  <2>1. \A t \in ValidTables : t = ctx.active \/ t = ctx.scratch
    BY <2>0 DEF ValidTables, TableIdx
  <2>2. ctx.active \in ValidTables
    <3>1. CASE ~rollback
      BY <1>2, <2>0, <3>1, ActiveState DEF ValidTables
    <3>2. CASE rollback
      BY <1>2, <2>0, <2>1, <3>2, ActiveState DEF ValidTables
    <3> QED
      BY <2>0, <3>1, <3>2
  <2>3. 1 - ctx.active \in ValidTables =>
           IF rollback
             THEN IF ctx.active = 1 THEN TableState(ctx.active) = "NVC_1_VALID"
                  ELSE TableState(1 - ctx.active) # "NVC_1_VALID"
             ELSE /\ Count(1 - ctx.active) \in Nat /\ Count(1 - ctx.active) < SwapMax
                  /\ Count(ctx.active) = NextCount(Count(1 - ctx.active))
    <3>1. 1 - ctx.active \in ValidTables => TableState(ctx.scratch) # "INVALID"
      BY <2>0 DEF ValidTables
    <3> QED
      BY <1>2, <2>0, <3>1, ActiveState
  <2> QED
    BY <2>2, <2>3, SelectedOf
<1> QED
  BY <1>1, <1>2

\* The second attempt of tfm_sst_init() finds the empty table.
LEMMA AgainSelected ==
  ASSUME SstIInv, StoreInv, boot = "again"
  PROVE  /\ ValidTables # {} /\ sst_set_active_object_table = 0
         /\ TableState(0) \in {"VALID", "NVC_1_VALID"}
         /\ Table(0).data.table = EmptyTable
<1>0. /\ FilesInv /\ Wiped /\ nvc \in [1..3 -> Nat] /\ rollback \in BOOLEAN
      /\ 0 \in TableIdx /\ 1 \in TableIdx
  BY DEF SstIInv, StoreInv, WipeInv, ServiceInv, TableIdx
<1>1. IsWhole(0) /\ Table(0).data.table = EmptyTable
  BY <1>0 DEF Wiped
<1>2. TableState(0) \in {"VALID", "NVC_1_VALID"}
  BY <1>0, <1>1, StateOf DEF Wiped, Authenticated
<1>3. 0 \in ValidTables
  BY <1>0, <1>2 DEF ValidTables
<1>4. IF rollback THEN TableState(1) # "NVC_1_VALID" ELSE 1 \notin ValidTables
  <2>1. CASE IsWhole(1)
    <3>1. rollback /\ Count(1) < nvc[1] /\ Count(1) \in Nat
      BY <1>0, <2>1 DEF Wiped, IsWhole, FilesInv, Count, TableFile
    <3> QED
      BY <1>0, <2>1, <3>1, StateOf DEF Authenticated
  <2>2. CASE ~IsWhole(1)
    BY <1>0, <2>2, NotWhole DEF ValidTables
  <2> QED
    BY <2>1, <2>2
<1>5. sst_set_active_object_table = 0
  BY <1>3, <1>4, SelectedOf
<1> QED
  BY <1>1, <1>2, <1>3, <1>5

\* What Health is while a table is in memory.
ActiveHealth ==
  IF ~rollback \/ Count(ctx.active) = nvc[1] THEN "sound"
  ELSE IF Count(ctx.active) = nvc[3] /\ nvc[3] = nvc[2] THEN "spent"
  ELSE "risk"

\* The health of the store.
HealthFacts ==
  /\ boot \in {"wipe", "again"} => Health = "wiping"
  /\ boot \in {"first", "done"} => (Health = "risk" <=> ValidTables = {})
  /\ boot \in {"first", "done"} => Health \in {"sound", "spent", "risk"}
  /\ InMemory /\ boot \in {"first", "done"} /\ pc # "init_remove" => Health = ActiveHealth

\* Health is as HealthFacts says.
LEMMA HealthIs == SstIInv /\ StoreInv => HealthFacts
<1> SUFFICES ASSUME SstIInv, StoreInv PROVE HealthFacts
  OBVIOUS
<1>1. boot \in {"wipe", "again"} => Health = "wiping"
  BY DEF Health
<1>2. boot \in {"first", "done"} =>
        Health = IF ValidTables = {} THEN "risk"
                 ELSE IF \E t \in ValidTables : TableState(t) # "NVC_3_VALID"
                   THEN "sound" ELSE "spent"
  BY DEF Health
<1>3. ASSUME InMemory, boot \in {"first", "done"}, pc # "init_remove"
      PROVE  Health = ActiveHealth
  <2>0. /\ ctx.active \in TableIdx /\ ctx.scratch \in TableIdx
        /\ \A t \in TableIdx : t = ctx.active \/ t = ctx.scratch
        /\ rollback \in BOOLEAN
    BY <1>3, MemoryFacts DEF TableIdx
  <2>1. CASE ~rollback
    <3>1. TableState(ctx.active) = "VALID"
      BY <1>3, <2>1, ActiveState
    <3> QED
      BY <1>2, <1>3, <2>0, <2>1, <3>1 DEF ValidTables, ActiveHealth
  <2>2. CASE rollback
    <3>1. /\ TableState(ctx.active) =
               IF Count(ctx.active) = nvc[1] THEN "NVC_1_VALID"
               ELSE IF Count(ctx.active) = nvc[3] /\ nvc[3] = nvc[2] THEN "NVC_3_VALID"
               ELSE "INVALID"
          /\ \/ TableState(ctx.scratch) = "INVALID"
             \/ TableState(ctx.active) = "NVC_1_VALID"
      BY <1>3, <2>2, ActiveState
    <3>2. CASE Count(ctx.active) = nvc[1]
      BY <1>2, <1>3, <2>0, <3>1, <3>2 DEF ValidTables, ActiveHealth
    <3>3. CASE Count(ctx.active) # nvc[1]
      <4>1. TableState(ctx.scratch) = "INVALID"
        BY <3>1, <3>3
      <4>2. CASE Count(ctx.active) = nvc[3] /\ nvc[3] = nvc[2]
        <5>1. TableState(ctx.active) = "NVC_3_VALID"
          BY <3>1, <3>3, <4>2
        <5>2. ctx.active \in ValidTables /\ \A t \in ValidTables : t = ctx.active
          BY <2>0, <4>1, <5>1 DEF ValidTables
        <5> QED
          BY <1>2, <1>3, <2>2, <3>3, <4>2, <5>1, <5>2 DEF ActiveHealth
      <4>3. CASE ~(Count(ctx.active) = nvc[3] /\ nvc[3] = nvc[2])
        <5>1. TableState(ctx.active) = "INVALID"
          BY <3>1, <3>3, <4>3
        <5>2. ValidTables = {}
          BY <2>0, <4>1, <5>1 DEF ValidTables
        <5> QED
          BY <1>2, <1>3, <2>2, <3>3, <4>3, <5>2 DEF ActiveHealth
      <4> QED
        BY <4>2, <4>3
    <3> QED
      BY <3>2, <3>3
  <2> QED
    BY <2>0, <2>1, <2>2
<1> QED
  BY <1>1, <1>2, <1>3 DEF HealthFacts

\* The assets, in memory and in flash.
AssetsFacts ==
  /\ Persistent \in Store!Stores
  /\ ValidTables = {} => Persistent = LOST
  /\ InMemory /\ boot # "wipe" =>
       Assets = AssetsIn(its, Working) /\ Assets \in [Obj -> Asset \cup {NULL}]
  /\ pc = "prepare" \/ boot = "wipe" => Assets = Persistent
  /\ boot = "again" => Assets = Persistent /\ Assets = Store!NoAssets
  /\ InMemory /\ boot \in {"first", "done"} /\ ValidTables # {} => Assets = Persistent

\* Assets and Persistent are as AssetsFacts says.
LEMMA AssetsIs == SstIInv /\ StoreInv => AssetsFacts
<1> SUFFICES ASSUME SstIInv, StoreInv PROVE AssetsFacts
  OBVIOUS
<1>0. FilesInv /\ ObjectFiles(its)
  BY DEF SstIInv, FilesInv, ObjectFiles
<1> DEFINE sel == sst_set_active_object_table
<1>1. ValidTables = {} => Persistent = LOST
  BY DEF Persistent
<1>2. ValidTables # {} =>
        /\ Table(sel).data.table \in ObjectTable /\ Good(its, Table(sel).data.table)
        /\ Persistent = AssetsIn(its, Table(sel).data.table)
        /\ Persistent \in [Obj -> Asset \cup {NULL}]
  <2> SUFFICES ASSUME ValidTables # {}
               PROVE  /\ Table(sel).data.table \in ObjectTable
                      /\ Good(its, Table(sel).data.table)
                      /\ Persistent = AssetsIn(its, Table(sel).data.table)
                      /\ Persistent \in [Obj -> Asset \cup {NULL}]
    OBVIOUS
  <2>1. sel \in ValidTables
    BY SelectedIsValid
  <2>2. Table(sel).data.table \in ObjectTable /\ Good(its, Table(sel).data.table)
    BY <2>1, ValidIsLive
  <2>3. Persistent = AssetsOf(Table(sel).data.table)
    BY DEF Persistent
  <2> HIDE DEF sel
  <2>4. PICK T \in ObjectTable : T = Table(sel).data.table
    BY <2>2
  <2>5. AssetsOf(T) = AssetsIn(its, T) /\ AssetsIn(its, T) \in [Obj -> Asset \cup {NULL}]
    BY <1>0, <2>2, <2>4, AssetsAre, GoodAssets
  <2> QED
    BY <2>2, <2>3, <2>4, <2>5
<1>3. Persistent \in Store!Stores
  BY <1>1, <1>2 DEF Store!Stores, Store!Asset, Asset
<1>4. ASSUME InMemory, boot # "wipe"
      PROVE  Assets = AssetsIn(its, Working) /\ Assets \in [Obj -> Asset \cup {NULL}]
  <2>1. Working \in ObjectTable /\ Good(its, Working) /\ ctx # NULL
    BY <1>4, MemoryFacts
  <2>2. Assets = AssetsOf(Working)
    BY <1>4, <2>1 DEF Assets, Working, InMemory
  <2>3. PICK T \in ObjectTable : T = Working
    BY <2>1
  <2>4. AssetsOf(T) = AssetsIn(its, T) /\ AssetsIn(its, T) \in [Obj -> Asset \cup {NULL}]
    BY <1>0, <2>1, <2>3, AssetsAre, GoodAssets
  <2> QED
    BY <2>2, <2>3, <2>4
<1>5. pc = "prepare" \/ boot = "wipe" => Assets = Persistent
  BY DEF Assets
<1>6. ASSUME boot = "again" PROVE Assets = Persistent /\ Assets = Store!NoAssets
  <2>1. ValidTables # {} /\ sel = 0 /\ Table(0).data.table = EmptyTable
    BY <1>6, AgainSelected
  <2>2. Persistent = AssetsIn(its, EmptyTable) /\ EmptyTable \in ObjectTable
    BY <1>2, <2>1
  <2>3. \A o \in Obj : EntriesIn(EmptyTable, o) = {}
    BY DEF EntriesIn, EmptyTable
  <2>4. AssetsIn(its, EmptyTable) = Store!NoAssets
    BY <2>3 DEF AssetsIn, Store!NoAssets
  <2>5. CASE pc = "prepare"
    BY <1>5, <2>2, <2>4, <2>5
  <2>6. CASE pc # "prepare"
    <3>1. ctx \in Context /\ ctx.table = EmptyTable /\ pc \notin Saving
      BY <1>6, <2>6 DEF StoreInv, WipeInv, Saving
    <3>2. undo = NULL /\ ctx # NULL
      BY <3>1, AbsentAssumption DEF StoreInv, GoodInv
    <3>3. Assets = AssetsOf(EmptyTable)
      BY <1>6, <2>6, <3>1, <3>2 DEF Assets
    <3>4. PICK T \in ObjectTable : T = EmptyTable
      BY <2>2
    <3>5. AssetsOf(T) = AssetsIn(its, T)
      BY <1>0, <1>2, <2>1, <3>4, AssetsAre
    <3> QED
      BY <2>2, <2>4, <3>3, <3>4, <3>5
  <2> QED
    BY <2>5, <2>6
<1>7. ASSUME InMemory, boot \in {"first", "done"}, ValidTables # {}
      PROVE  Assets = Persistent
  <2>1. sel = ctx.active
    BY <1>7, MemorySelected
  <2>2. Table(ctx.active).data.table = Working
    BY <1>7, MemoryFacts
  <2> QED
    BY <1>2, <1>4, <1>7, <2>1, <2>2
<1> QED
  BY <1>1, <1>3, <1>4, <1>5, <1>6, <1>7 DEF AssetsFacts
-----------------------------------------------------------------------------
(* The invariant of the refinement is inductive.                            *)

\* Without rollback protection internal trusted storage makes no errors.
LEMMA FaultsWithRollback ==
  ASSUME SoundBuilds, NEW r, NEW n \in Nat, \E b \in Builds : b[1] = r /\ n <= b[2]
  PROVE  r \/ n = 0
BY SstAssumption DEF SoundBuilds

\* The other table cannot come back once the counters are aligned and its file
\* is removed, or does not authenticate.
LEMMA ScratchDead ==
  ASSUME SstIInv, StoreInv, InMemory, boot # "wipe", pc # "init_remove",
         pc = "align" => boot # "done", pc = "remove_table" => rollback
  PROVE  /\ ~Live(ctx.scratch)
         /\ IsWhole(ctx.scratch) => rollback /\ Count(ctx.scratch) < nvc[3]
<1>1. /\ Retired /\ (IsWhole(ctx.scratch) => Count(ctx.scratch) \in Nat)
      /\ nvc[3] \in Nat
  BY MemoryFacts DEF StoreInv, MemoryInv, IsWhole
<1>2. IsWhole(ctx.scratch) => rollback /\ Count(ctx.scratch) < nvc[3]
  BY <1>1 DEF Retired
<1> QED
  BY <1>1, <1>2 DEF Live

\* A step of a request that changes no counter, and no table unless it removes
\* the one that is not active.
TablesKept ==
  /\ InMemory /\ boot = "done" /\ boot' = "done" /\ UNCHANGED <<rollback, nvc>>
  /\ \A t \in TableIdx :
       \/ its'[SST_TABLE_FS_ID(t)] = its[SST_TABLE_FS_ID(t)]
       \/ t = ctx.scratch /\ its'[SST_TABLE_FS_ID(t)] = NULL
  /\ pc \notin {"align", "init_remove"}
  /\ pc \in Ahead => rollback
  /\ pc = "remove_table" => rollback \/ its'[SST_TABLE_FS_ID(ctx.scratch)] = NULL
  /\ pc' \in {"ready", "serve", "undo_object", "save", "remove_object"} \cup Writing
  /\ ctx'.active = ctx.active /\ ctx'.scratch = ctx.scratch /\ ctx'.count = ctx.count
  /\ Working' = Working
  /\ \A i \in Idx : Working[i] # NULL =>
       its'[SST_OBJECT_FS_ID(i)] = its[SST_OBJECT_FS_ID(i)]

\* Such a step keeps what does not depend on the request.
LEMMA QuietStep ==
  ASSUME SoundBuilds, SstIInv, SstIInv', StoreInv, TablesKept
  PROVE  /\ CountInv' /\ MemoryInv' /\ WipeInv'
         /\ \A t \in TableIdx : Live(t)' => Good(its', Table(t)'.data.table)
         /\ Good(its', Working)
<1>0. /\ ctx.active \in TableIdx /\ ctx.scratch \in TableIdx
      /\ ctx.scratch = 1 - ctx.active
      /\ pc' \notin Ahead \cup {"align", "remove_table", "init_remove", "prepare", "abort"}
      /\ CountInv /\ MemoryInv /\ GoodInv
      /\ IsWhole(ctx.active) /\ Table(ctx.active).data.table = Working
      /\ Good(its, Working)
  BY MemoryFacts DEF Ahead, Writing, StoreInv, TablesKept
<1>1. CountInv'
  <2>1. ~rollback' => faults' = 0
    BY FaultsWithRollback DEF SstIInv, FaultInv, ServiceInv
  <2> QED
    BY <1>0, <2>1 DEF CountInv, Count, Table, InMemory, TablesKept
<1>2. its'[SST_TABLE_FS_ID(ctx.active)] = its[SST_TABLE_FS_ID(ctx.active)]
  BY <1>0 DEF TablesKept, TableIdx
<1>3. /\ ~Live(ctx.scratch)'
      /\ IsWhole(ctx.scratch)' => /\ its'[SST_TABLE_FS_ID(ctx.scratch)]
                                       = its[SST_TABLE_FS_ID(ctx.scratch)]
                                 /\ rollback /\ Count(ctx.scratch) < nvc[3]
                                 /\ IsWhole(ctx.scratch)
  <2>1. CASE its'[SST_TABLE_FS_ID(ctx.scratch)] = NULL
    BY <2>1 DEF TablesKept, Live, IsWhole, Table
  <2>2. CASE its'[SST_TABLE_FS_ID(ctx.scratch)] # NULL
    <3>1. its'[SST_TABLE_FS_ID(ctx.scratch)] = its[SST_TABLE_FS_ID(ctx.scratch)]
      BY <1>0, <2>2 DEF TablesKept
    <3>2. /\ ~Live(ctx.scratch)
          /\ IsWhole(ctx.scratch) => rollback /\ Count(ctx.scratch) < nvc[3]
      BY <2>2, ScratchDead DEF TablesKept
    <3> QED
      BY <3>1, <3>2 DEF TablesKept, Live, IsWhole, Table, Count
  <2> QED
    BY <2>1, <2>2
<1>4. Retired'
  BY <1>0, <1>2, <1>3 DEF Retired, IsWhole, Count, Table, MemoryInv, TablesKept
<1>5. MemoryInv'
  BY <1>0, <1>2, <1>4 DEF MemoryInv, IsWhole, Count, Table, TablesKept
<1>6. WipeInv'
  BY <1>0 DEF WipeInv, TablesKept
<1>7. Good(its', Working)
  BY <1>0, GoodFrame DEF TablesKept
<1>8. ASSUME NEW t \in TableIdx, Live(t)'
      PROVE  Good(its', Table(t)'.data.table)
  <2>1. t = ctx.active
    BY <1>0, <1>3, <1>8 DEF TablesKept, TableIdx, Live, IsWhole, Table, Count
  <2> QED
    BY <1>0, <1>2, <1>7, <2>1 DEF Table
<1> QED
  BY <1>1, <1>5, <1>6, <1>7, <1>8

\* A request returns.
LEMMA ReturnStore ==
  ASSUME SoundBuilds, SstIInv, SstIInv', StoreInv, TablesKept,
         NEW status, NEW data, Return(status, data), ctx'.table = Working, undo' = NULL
  PROVE  StoreInv'
<1>1. pc' = "ready" /\ req' = NULL /\ boot' = "done"
  BY DEF Return, TablesKept
<1>2. GoodInv'
  BY <1>1, QuietStep DEF GoodInv, Saving
<1>3. UpdateInv'
  BY <1>1 DEF UpdateInv, Writing, Saving, Removing
<1> QED
  BY <1>2, <1>3, QuietStep DEF StoreInv

\* What a request reads is the asset that the table refers to.
LEMMA AssetRead ==
  ASSUME SstIInv, StoreInv, InMemory, NEW o \in Obj
  PROVE  /\ EntriesOf(o) = EntriesIn(ctx.table, o)
         /\ AssetOf(o) = AssetsIn(its, ctx.table)[o]
         /\ EntriesIn(ctx.table, o) = {} => AssetOf(o) = NULL
         /\ \A i \in EntriesIn(ctx.table, o) :
              /\ i \in Idx /\ AssetOf(o) = its[SST_OBJECT_FS_ID(i)].data
              /\ AssetOf(o) \in Asset /\ AssetOf(o) # NULL
<1>0. ctx.table \in ObjectTable /\ Good(its, ctx.table) /\ ObjectFiles(its)
  BY MemoryFacts DEF SstIInv, FilesInv, ObjectFiles
<1>1. EntriesOf(o) = EntriesIn(ctx.table, o)
  BY DEF EntriesOf, EntriesIn
<1>2. /\ EntriesIn(ctx.table, o) = {} => AssetsIn(its, ctx.table)[o] = NULL
      /\ \A i \in EntriesIn(ctx.table, o) :
           /\ AssetsIn(its, ctx.table)[o] = its[SST_OBJECT_FS_ID(i)].data
           /\ AssetsIn(its, ctx.table)[o] \in Asset
  BY <1>0, GoodAssets
<1>3. AssetOf(o) = AssetsIn(its, ctx.table)[o]
  <2>1. CASE EntriesIn(ctx.table, o) = {}
    BY <1>1, <1>2, <2>1 DEF AssetOf
  <2>2. CASE EntriesIn(ctx.table, o) # {}
    <3>1. PICK j \in EntriesIn(ctx.table, o) : j = CHOOSE i \in EntriesIn(ctx.table, o) : TRUE
      BY <2>2
    <3>2. AssetOf(o) = sst_encrypted_object_read(ctx.table[j], SST_OBJECT_FS_ID(j))
      BY <1>1, <2>2, <3>1 DEF AssetOf
    <3>3. j \in Idx /\ ctx.table[j] # NULL
      BY <3>1 DEF EntriesIn
    <3> QED
      BY <1>0, <1>2, <3>1, <3>2, <3>3 DEF sst_encrypted_object_read, Good, Authentic
  <2> QED
    BY <2>1, <2>2
<1>4. \A i \in EntriesIn(ctx.table, o) : i \in Idx
  BY DEF EntriesIn
<1> QED
  BY <1>1, <1>2, <1>3, <1>4, NullAssumption

\* Where a request has not changed the table yet, or is done with it.
LEMMA NothingToUndo ==
  ASSUME StoreInv, pc \notin Saving
  PROVE  undo = NULL /\ Working = ctx.table
BY DEF StoreInv, GoodInv, Working

\* A request begins.
LEMMA BeginStore ==
  ASSUME SoundBuilds, SstIInv, SstIInv', StoreInv, Begin
  PROVE  TablesKept /\ StoreInv'
<1>1. /\ pc = "ready" /\ pc' = "serve" /\ boot = "done" /\ InMemory
      /\ UNCHANGED <<rollback, faults, its, nvc, ctx, undo, boot>>
  BY DEF Begin, SstIInv, RequestInv, InMemory, service
<1>2. Working = ctx.table /\ undo = NULL
  BY <1>1, NothingToUndo DEF Saving
<1>3. TablesKept
  BY <1>1 DEF TablesKept, Ahead, Working
<1>4. GoodInv'
  BY <1>1, <1>2, <1>3, QuietStep DEF GoodInv, Saving
<1>5. UpdateInv'
  BY <1>1 DEF UpdateInv, Writing, Saving, Removing
<1> QED
  BY <1>3, <1>4, <1>5, QuietStep DEF StoreInv

\* A request that is refused or only reads.
LEMMA RefusedStore ==
  ASSUME SoundBuilds, SstIInv, SstIInv', StoreInv, pc = "serve",
         NEW status, NEW data, Return(status, data), Unserved
  PROVE  TablesKept /\ StoreInv'
<1>1. /\ pc' = "ready" /\ boot = "done" /\ InMemory
      /\ UNCHANGED <<rollback, faults, its, nvc, ctx, undo, boot>>
  BY DEF Return, Unserved, SstIInv, RequestInv, InMemory, service
<1>2. Working = ctx.table /\ undo = NULL
  BY <1>1, NothingToUndo DEF Saving
<1>3. TablesKept
  BY <1>1 DEF TablesKept, Ahead, Working
<1> QED
  BY <1>1, <1>2, <1>3, ReturnStore

\* tfm_sst_get() changes nothing.
LEMMA GetStore ==
  ASSUME SoundBuilds, SstIInv, SstIInv', StoreInv, Get
  PROVE  TablesKept /\ StoreInv'
<1>1. pc = "serve"
  BY DEF Get, Serve
<1>2. CASE ~Known
  BY <1>1, <1>2, RefusedStore DEF Get, Refuse
<1>3. CASE Known /\ AssetOf(req.obj) = NULL
  BY <1>1, <1>3, RefusedStore DEF Get, Refuse
<1>4. CASE Known /\ AssetOf(req.obj) # NULL /\ req.beyond
  BY <1>1, <1>4, RefusedStore DEF Get, Refuse
<1>5. CASE Known /\ AssetOf(req.obj) # NULL /\ ~req.beyond
  BY <1>1, <1>5, RefusedStore DEF Get
<1> QED
  BY <1>2, <1>3, <1>4, <1>5

\* The alternatives of sst_object_create() before it writes anything.
LEMMA SetCases ==
  ASSUME Set
  PROVE  \/ req.val = TooBig /\ Refuse("PSA_ERROR_INVALID_ARGUMENT")
         \/ Known /\ AssetOf(req.obj) = NULL /\ Refuse("PSA_ERROR_GENERIC_ERROR")
         \/ /\ Known /\ AssetOf(req.obj) # NULL /\ AssetOf(req.obj).once
            /\ Refuse("PSA_ERROR_NOT_PERMITTED")
         \/ /\ ~Known \/ (AssetOf(req.obj) # NULL /\ ~AssetOf(req.obj).once)
            /\ Cardinality(FreeIdx) < Reserved
            /\ Refuse("PSA_ERROR_INSUFFICIENT_STORAGE")
         \/ /\ ~Known \/ (AssetOf(req.obj) # NULL /\ ~AssetOf(req.obj).once)
            /\ ~(Cardinality(FreeIdx) < Reserved)
            /\ fid' = SST_OBJECT_FS_ID(NthFree(Reserved))
            /\ old' = IF Known THEN SST_OBJECT_FS_ID(CHOOSE i \in EntriesOf(req.obj) : TRUE)
                      ELSE NULL
            /\ pc' = "free_fid"
            /\ UNCHANGED <<req, reply>> /\ Unserved
<1>1. CASE req.val = TooBig
  BY <1>1 DEF Set
<1>2. CASE req.val # TooBig /\ Known /\ AssetOf(req.obj) = NULL
  BY <1>2 DEF Set
<1>3. CASE req.val # TooBig /\ Known /\ AssetOf(req.obj) # NULL /\ AssetOf(req.obj).once
  BY <1>3 DEF Set
<1>4. CASE /\ req.val # TooBig
           /\ ~(Known /\ AssetOf(req.obj) = NULL)
           /\ ~(Known /\ AssetOf(req.obj) # NULL /\ AssetOf(req.obj).once)
  BY <1>4 DEF Set
<1> QED
  BY <1>1, <1>2, <1>3, <1>4

\* The entry that a set request takes is free.
LEMMA TakenIsFree ==
  ASSUME ~(Cardinality(FreeIdx) < Reserved)
  PROVE  /\ NthFree(Reserved) \in Idx /\ ctx.table[NthFree(Reserved)] = NULL
<1>1. Reserved \in {1, 2}
  BY DEF Reserved
<1>2. Cardinality(FreeIdx) \in Nat
  BY FreeIdxFinite, FS_CardinalityType
<1>3. Cardinality(FreeIdx) >= Reserved
  BY <1>1, <1>2
<1>4. NthFree(Reserved) \in FreeIdx
  BY <1>1, <1>3, NthFreeProperties
<1> QED
  BY <1>4 DEF FreeIdx

\* sst_object_create() up to the choice of a file.
LEMMA SetStore ==
  ASSUME SoundBuilds, SstIInv, SstIInv', StoreInv, Set
  PROVE  TablesKept /\ StoreInv'
<1>0. pc = "serve" /\ req.op = "set"
  BY DEF Set, Serve
<1>1. CASE \E status : Refuse(status)
  BY <1>0, <1>1, RefusedStore DEF Refuse
<1>2. CASE ~ \E status : Refuse(status)
  <2>1. /\ ~Known \/ (AssetOf(req.obj) # NULL /\ ~AssetOf(req.obj).once)
        /\ ~(Cardinality(FreeIdx) < Reserved)
        /\ fid' = SST_OBJECT_FS_ID(NthFree(Reserved))
        /\ old' = IF Known THEN SST_OBJECT_FS_ID(CHOOSE i \in EntriesOf(req.obj) : TRUE)
                  ELSE NULL
        /\ pc' = "free_fid"
        /\ UNCHANGED <<req, reply>> /\ Unserved
    BY <1>2, SetCases
  <2>2. /\ boot = "done" /\ InMemory /\ req \in Job /\ req.obj \in Obj
        /\ UNCHANGED <<rollback, faults, its, nvc, ctx, undo, boot, req>>
    <3>1. req \in Job /\ boot = "done" /\ InMemory
      BY <1>0 DEF SstIInv, RequestInv, InMemory
    <3> QED
      BY <2>1, <3>1 DEF Unserved, service, Job
  <2>3. Working = ctx.table /\ undo = NULL
    BY <1>0, NothingToUndo DEF Saving
  <2>4. TablesKept
    BY <1>0, <2>1, <2>2 DEF TablesKept, Ahead, Working, Writing
  <2>5. GoodInv'
    BY <2>1, <2>2, <2>3, <2>4, QuietStep DEF GoodInv, Saving
  <2>6. /\ SST_OBJECT_FS_ID_TO_IDX(fid') = NthFree(Reserved)
        /\ ctx'.table[SST_OBJECT_FS_ID_TO_IDX(fid')] = NULL
    BY <2>1, <2>2, TakenIsFree, FileIds
  <2>7. ASSUME NEW i \in EntriesIn(ctx.table, req.obj)
        PROVE  ~its[SST_OBJECT_FS_ID(i)].data.once
    <3>1. Known
      BY <2>2, <2>7, AssetRead DEF Known
    <3> QED
      BY <2>1, <2>2, <2>7, <3>1, AssetRead
  <2>8. old' # NULL => SST_OBJECT_FS_ID_TO_IDX(old') \in EntriesIn(ctx.table, req.obj)
    <3> SUFFICES ASSUME old' # NULL
                 PROVE  SST_OBJECT_FS_ID_TO_IDX(old') \in EntriesIn(ctx.table, req.obj)
      OBVIOUS
    <3>1. PICK i \in EntriesIn(ctx.table, req.obj) : old' = SST_OBJECT_FS_ID(i)
      BY <2>1, <2>2, AssetRead DEF Known
    <3> QED
      BY <3>1, FileIds DEF EntriesIn
  <2>9. UpdateInv'
    <3>1. MayChange(ctx.table)'
      BY <2>2, <2>7 DEF MayChange
    <3> QED
      BY <2>1, <2>2, <2>6, <2>8, <3>1 DEF UpdateInv, Writing, Saving, Removing
  <2> QED
    BY <2>4, <2>5, <2>9, QuietStep DEF StoreInv
<1> QED
  BY <1>1, <1>2

\* Writing or removing a file that the table does not refer to.
LEMMA UnusedWritten ==
  ASSUME FilesInv, NEW f \in ObjectId, NEW c \in ObjectFile \cup {NULL},
         its' = [its EXCEPT ![f] = c], NEW T, T[SST_OBJECT_FS_ID_TO_IDX(f)] = NULL
  PROVE  /\ \A t \in TableIdx : its'[SST_TABLE_FS_ID(t)] = its[SST_TABLE_FS_ID(t)]
         /\ \A i \in Idx : T[i] # NULL => its'[SST_OBJECT_FS_ID(i)] = its[SST_OBJECT_FS_ID(i)]
         /\ its'[f] = c
         /\ \A i \in Idx : i # SST_OBJECT_FS_ID_TO_IDX(f) =>
              its'[SST_OBJECT_FS_ID(i)] = its[SST_OBJECT_FS_ID(i)]
<1>1. \A t \in TableIdx : its'[SST_TABLE_FS_ID(t)] = its[SST_TABLE_FS_ID(t)]
  BY ObjectWritten DEF Table
<1>2. \A g \in ObjectId : its'[g] = IF g = f THEN c ELSE its[g]
  BY ObjectWritten
<1>3. \A i \in Idx : i # SST_OBJECT_FS_ID_TO_IDX(f) => SST_OBJECT_FS_ID(i) # f
  BY FileIds
<1> QED
  BY <1>1, <1>2, <1>3, FileIds

\* The state in which a set request writes its object.
LEMMA WritingFacts ==
  ASSUME SstIInv, StoreInv, pc \in Writing
  PROVE  /\ FilesInv /\ boot = "done" /\ InMemory /\ req \in Job /\ req.op = "set"
         /\ req.obj \in Obj /\ NewAsset \in Asset /\ fid \in ObjectId
         /\ Working = ctx.table /\ undo = NULL
         /\ ctx.table[SST_OBJECT_FS_ID_TO_IDX(fid)] = NULL
         /\ MayChange(ctx.table)
         /\ old # NULL => SST_OBJECT_FS_ID_TO_IDX(old) \in EntriesIn(ctx.table, req.obj)
<1>1. FilesInv /\ boot = "done" /\ req \in Job /\ req.op = "set" /\ fid \in ObjectId
  BY DEF SstIInv, RequestInv
<1>2. InMemory /\ pc \notin Saving
  BY DEF InMemory, Writing, Saving
<1>3. req.obj \in Obj /\ NewAsset \in Asset
  <2>1. req.val \in Val
    BY <1>1 DEF SstIInv, RequestInv, Job
  <2> QED
    BY <1>1, <2>1 DEF Job, NewAsset, Asset
<1> QED
  BY <1>1, <1>2, <1>3, NothingToUndo DEF StoreInv, UpdateInv

\* An error of internal trusted storage ends a request.
LEMMA FaultReturnStore ==
  ASSUME SoundBuilds, SstIInv, SstIInv', StoreInv, pc \in Writing \cup Removing,
         NEW status, NEW data, Fault \/ (pc \in Writing /\ FailedFill(fid)),
         Return(status, data), UNCHANGED <<rollback, nvc, ctx, undo, boot>>
  PROVE  TablesKept /\ StoreInv'
<1>1. boot = "done" /\ InMemory /\ pc' = "ready" /\ pc \notin Saving
  BY DEF SstIInv, RequestInv, InMemory, Return, Writing, Removing, Saving
<1>2. rollback
  BY FaultsWithRollback DEF SstIInv, FaultInv, ServiceInv, Fault, FailedFill
<1>3. Working = ctx.table /\ undo = NULL
  BY <1>1, NothingToUndo
<1>4. /\ \A t \in TableIdx : its'[SST_TABLE_FS_ID(t)] = its[SST_TABLE_FS_ID(t)]
      /\ \A i \in Idx : ctx.table[i] # NULL =>
           its'[SST_OBJECT_FS_ID(i)] = its[SST_OBJECT_FS_ID(i)]
  <2>1. CASE its' = its
    BY <2>1
  <2>2. CASE pc \in Writing /\ its' = [its EXCEPT ![fid] = NULL]
    BY <2>2, WritingFacts, UnusedWritten
  <2> QED
    BY <2>1, <2>2 DEF Fault, FailedFill
<1>5. TablesKept
  BY <1>1, <1>2, <1>3, <1>4 DEF TablesKept, Working, Writing, Removing
<1> QED
  BY <1>3, <1>5, ReturnStore

\* sst_object_table_get_free_fid() and psa_its_set() up to the completion.
LEMMA ObjectBegunStore ==
  ASSUME SoundBuilds, SstIInv, SstIInv', StoreInv, FreeFid \/ ObjectCreate
  PROVE  TablesKept /\ StoreInv'
<1>0. /\ pc \in {"free_fid", "object_create"} /\ pc \in Writing
      /\ UNCHANGED <<rollback, nvc, ctx, undo, boot>>
  BY DEF FreeFid, ObjectCreate, Writing, service
<1>1. CASE Fault /\ Return("PSA_ERROR_GENERIC_ERROR", NULL)
  BY <1>0, <1>1, FaultReturnStore
<1>2. CASE ~(Fault /\ Return("PSA_ERROR_GENERIC_ERROR", NULL))
  <2> DEFINE c == IF pc = "free_fid" THEN NULL ELSE Part(NewAsset)
  <2>1. /\ its' = [its EXCEPT ![fid] = c] /\ pc' \in {"object_create", "object_fill"}
        /\ UNCHANGED <<req, fid, old>>
    BY <1>0, <1>2 DEF FreeFid, ObjectCreate, RemoveFile, SetFile, request
  <2>2. c \in ObjectFile \cup {NULL}
    BY <1>0, WritingFacts DEF Part, ObjectFile
  <2> HIDE DEF c
  <2>3. /\ \A t \in TableIdx : its'[SST_TABLE_FS_ID(t)] = its[SST_TABLE_FS_ID(t)]
        /\ \A i \in Idx : ctx.table[i] # NULL =>
             its'[SST_OBJECT_FS_ID(i)] = its[SST_OBJECT_FS_ID(i)]
    BY <1>0, <2>1, <2>2, WritingFacts, UnusedWritten
  <2>4. TablesKept
    BY <1>0, <2>1, <2>3, WritingFacts DEF TablesKept, Working, Writing, Ahead
  <2>5. GoodInv'
    BY <1>0, <2>1, <2>4, WritingFacts, QuietStep DEF GoodInv, Saving
  <2>6. MayChange(ctx.table)'
    BY <1>0, <2>1, <2>3, WritingFacts DEF MayChange, EntriesIn
  <2>7. UpdateInv'
    BY <1>0, <2>1, <2>6, WritingFacts DEF UpdateInv, Writing, Saving, Removing
  <2> QED
    BY <2>4, <2>5, <2>7, QuietStep DEF StoreInv
<1> QED
  BY <1>1, <1>2

\* The table with the new object is good once the object is complete.
LEMMA WithObjectGood ==
  ASSUME SstIInv, StoreInv, pc \in Writing, its' = [its EXCEPT ![fid] = Whole(NewAsset)]
  PROVE  Good(its', WithObject(ctx.table))
<1> DEFINE k == SST_OBJECT_FS_ID_TO_IDX(fid)
           T == WithObject(ctx.table)
<1>1. /\ FilesInv /\ fid \in ObjectId /\ NewAsset \in Asset /\ InMemory /\ req.obj \in Obj
      /\ ctx.table[k] = NULL /\ k \in Idx /\ SST_OBJECT_FS_ID(k) = fid
  BY WritingFacts, FileIds
<1>2. Good(its, ctx.table)
  BY <1>1, MemoryFacts
<1>3. /\ its'[fid] = Whole(NewAsset)
      /\ \A i \in Idx : i # k => its'[SST_OBJECT_FS_ID(i)] = its[SST_OBJECT_FS_ID(i)]
  <2>1. Whole(NewAsset) \in ObjectFile \cup {NULL}
    BY <1>1 DEF Whole, ObjectFile
  <2> QED
    BY <1>1, <2>1, UnusedWritten
<1>4. \A i \in Idx : T[i] = IF i = k THEN Entry(req.obj, fid, NewAsset)
                            ELSE IF i \in EntriesIn(ctx.table, req.obj) THEN NULL
                            ELSE ctx.table[i]
  BY DEF WithObject, EntriesOf, EntriesIn
<1>5. Entry(req.obj, fid, NewAsset).obj = req.obj
  BY DEF Entry
<1>6. Entry(req.obj, fid, NewAsset).tag = Tag(fid, NewAsset)
  BY DEF Entry
<1>7. /\ Whole(NewAsset).whole /\ Whole(NewAsset).data = NewAsset
      /\ Whole(NewAsset) # NULL
  <2>1. Whole(NewAsset) \in ObjectFile
    BY <1>1 DEF Whole, ObjectFile
  <2>2. Whole(NewAsset).whole /\ Whole(NewAsset).data = NewAsset
    BY DEF Whole
  <2> QED
    BY <2>1, <2>2, NullAssumption
<1> HIDE DEF k, T
<1>8. Authentic(its', T)
  <2> SUFFICES ASSUME NEW i \in Idx, T[i] # NULL
               PROVE  /\ its'[SST_OBJECT_FS_ID(i)] # NULL /\ its'[SST_OBJECT_FS_ID(i)].whole
                      /\ T[i].tag = Tag(SST_OBJECT_FS_ID(i), its'[SST_OBJECT_FS_ID(i)].data)
    BY DEF Authentic
  <2>1. CASE i = k
    BY <1>1, <1>3, <1>4, <1>6, <1>7, <2>1
  <2>2. CASE i # k
    BY <1>2, <1>3, <1>4, <2>2 DEF Good, Authentic
  <2> QED
    BY <2>1, <2>2
<1>9. Unique(T)
  <2> SUFFICES ASSUME NEW i \in Idx, NEW j \in Idx, T[i] # NULL, T[j] # NULL,
                      T[i].obj = T[j].obj
               PROVE  i = j
    BY DEF Unique
  <2>1. \A n \in Idx : n # k /\ T[n] # NULL => T[n] = ctx.table[n] /\ T[n].obj # req.obj
    BY <1>4 DEF EntriesIn
  <2> QED
    BY <1>2, <1>4, <1>5, <2>1 DEF Good, Unique
<1> QED
  BY <1>8, <1>9 DEF Good, T

\* The new object is complete, and the table in memory refers to it.
LEMMA ObjectFillStore ==
  ASSUME SoundBuilds, SstIInv, SstIInv', StoreInv, ObjectFill
  PROVE  TablesKept /\ StoreInv'
<1>0. pc = "object_fill" /\ pc \in Writing /\ UNCHANGED <<rollback, nvc>>
  BY DEF ObjectFill, Writing
<1>1. CASE FailedFill(fid) /\ Return("PSA_ERROR_GENERIC_ERROR", NULL) /\ UNCHANGED service
  BY <1>0, <1>1, FaultReturnStore DEF service
<1>2. CASE ~(FailedFill(fid) /\ Return("PSA_ERROR_GENERIC_ERROR", NULL) /\ UNCHANGED service)
  <2> DEFINE c == Whole(NewAsset)
             k == SST_OBJECT_FS_ID_TO_IDX(fid)
  <2>1. /\ its' = [its EXCEPT ![fid] = c] /\ pc' = "save"
        /\ ctx' = [ctx EXCEPT !.table = WithObject(@)]
        /\ undo' = ctx.table
        /\ UNCHANGED <<req, fid, old, boot>>
    BY <1>0, <1>2 DEF ObjectFill, SetFile, request
  <2>2. c \in ObjectFile \cup {NULL}
    BY <1>0, WritingFacts DEF Whole, ObjectFile
  <2>3. Good(its', WithObject(ctx.table))
    BY <1>0, <2>1, WithObjectGood
  <2> HIDE DEF c
  <2>4. /\ \A t \in TableIdx : its'[SST_TABLE_FS_ID(t)] = its[SST_TABLE_FS_ID(t)]
        /\ \A i \in Idx : ctx.table[i] # NULL =>
             its'[SST_OBJECT_FS_ID(i)] = its[SST_OBJECT_FS_ID(i)]
    BY <1>0, <2>1, <2>2, WritingFacts, UnusedWritten
  <2>5. /\ ctx'.active = ctx.active /\ ctx'.scratch = ctx.scratch /\ ctx'.count = ctx.count
        /\ ctx'.table = WithObject(ctx.table)
    <3>1. ctx \in Context
      BY <1>0, WritingFacts, MemoryFacts
    <3> QED
      BY <2>1, <3>1 DEF Context
  <2>6. Working = ctx.table /\ Working' = ctx.table /\ undo' # NULL
    <3>1. ctx.table # NULL
      BY <1>0, WritingFacts, MemoryFacts, AbsentAssumption
    <3> QED
      BY <1>0, <2>1, <3>1, WritingFacts DEF Working
  <2>7. TablesKept
    BY <1>0, <2>1, <2>4, <2>5, <2>6, WritingFacts DEF TablesKept, Writing, Ahead
  <2>8. GoodInv'
    BY <2>1, <2>3, <2>5, <2>6, <2>7, QuietStep DEF GoodInv, Saving
  <2>9. MayChange(undo)'
    BY <1>0, <2>1, <2>4, WritingFacts DEF MayChange, EntriesIn
  <2>10. ctx'.table = [i \in Idx |-> IF i = k THEN Entry(req.obj, fid, NewAsset)
                                     ELSE IF i \in EntriesIn(ctx.table, req.obj) THEN NULL
                                     ELSE ctx.table[i]]
    BY <2>5 DEF WithObject, EntriesOf, EntriesIn
  <2>11. NewAsset' = NewAsset
    BY <2>1 DEF NewAsset
  <2>12. old # NULL => ctx'.table[SST_OBJECT_FS_ID_TO_IDX(old)] = NULL
    <3> SUFFICES ASSUME old # NULL
                 PROVE  ctx'.table[SST_OBJECT_FS_ID_TO_IDX(old)] = NULL
      OBVIOUS
    <3>1. /\ SST_OBJECT_FS_ID_TO_IDX(old) \in EntriesIn(ctx.table, req.obj)
          /\ ctx.table[k] = NULL
      BY <1>0, WritingFacts
    <3> QED
      BY <2>10, <3>1 DEF EntriesIn
  <2>13. UpdateInv'
    <3>1. ctx.table[k] = NULL /\ req.op = "set"
      BY <1>0, WritingFacts
    <3> QED
      BY <1>0, <2>1, <2>9, <2>10, <2>11, <2>12, <3>1, WritingFacts
         DEF UpdateInv, Writing, Saving, Removing
  <2> QED
    BY <2>7, <2>8, <2>13, QuietStep DEF StoreInv
<1> QED
  BY <1>1, <1>2

\* The removal of a new object whose table could not be saved.
LEMMA UndoObjectStore ==
  ASSUME SoundBuilds, SstIInv, SstIInv', StoreInv, UndoObject
  PROVE  TablesKept /\ StoreInv'
<1>0. /\ pc = "undo_object" /\ boot = "done" /\ InMemory /\ fid \in ObjectId /\ FilesInv
      /\ pc' = "ready" /\ Return("PSA_ERROR_GENERIC_ERROR", NULL)
      /\ UNCHANGED <<rollback, nvc, ctx, undo, boot>>
  BY DEF UndoObject, SstIInv, RequestInv, InMemory, Return, service
<1>1. Working = ctx.table /\ undo = NULL /\ ctx.table[SST_OBJECT_FS_ID_TO_IDX(fid)] = NULL
  BY <1>0, NothingToUndo DEF Saving, StoreInv, UpdateInv
<1>2. /\ \A t \in TableIdx : its'[SST_TABLE_FS_ID(t)] = its[SST_TABLE_FS_ID(t)]
      /\ \A i \in Idx : ctx.table[i] # NULL =>
           its'[SST_OBJECT_FS_ID(i)] = its[SST_OBJECT_FS_ID(i)]
  <2>1. CASE its' = its
    BY <2>1
  <2>2. CASE its' = [its EXCEPT ![fid] = NULL]
    BY <1>0, <1>1, <2>2, UnusedWritten
  <2> QED
    BY <2>1, <2>2 DEF UndoObject, SetFile, Fault
<1>3. TablesKept
  BY <1>0, <1>1, <1>2 DEF TablesKept, Working, Ahead
<1> QED
  BY <1>0, <1>1, <1>3, ReturnStore

\* The alternatives of sst_object_delete() before it saves anything.
LEMMA RemoveCases ==
  ASSUME Remove
  PROVE  \/ ~Known /\ Refuse("PSA_ERROR_DOES_NOT_EXIST")
         \/ Known /\ AssetOf(req.obj) = NULL /\ Refuse("PSA_ERROR_GENERIC_ERROR")
         \/ /\ Known /\ AssetOf(req.obj) # NULL /\ AssetOf(req.obj).once
            /\ Refuse("PSA_ERROR_NOT_PERMITTED")
         \/ /\ Known /\ AssetOf(req.obj) # NULL /\ ~AssetOf(req.obj).once
            /\ \E i \in EntriesOf(req.obj) :
                 /\ old' = SST_OBJECT_FS_ID(i)
                 /\ ctx' = [ctx EXCEPT !.table[i] = NULL]
            /\ undo' = ctx.table
            /\ pc' = "save"
            /\ UNCHANGED <<rollback, faults, its, nvc, boot, req, fid, reply>>
<1>1. CASE ~Known
  BY <1>1 DEF Remove
<1>2. CASE Known /\ AssetOf(req.obj) = NULL
  BY <1>2 DEF Remove
<1>3. CASE Known /\ AssetOf(req.obj) # NULL /\ AssetOf(req.obj).once
  BY <1>3 DEF Remove
<1>4. CASE Known /\ AssetOf(req.obj) # NULL /\ ~AssetOf(req.obj).once
  <2>1. (CHOOSE i \in EntriesOf(req.obj) : TRUE) \in EntriesOf(req.obj)
    BY <1>4 DEF Known
  <2> QED
    BY <1>4, <2>1 DEF Remove
<1> QED
  BY <1>1, <1>2, <1>3, <1>4

\* sst_object_delete() up to the saving of the table.
LEMMA RemoveStore ==
  ASSUME SoundBuilds, SstIInv, SstIInv', StoreInv, Remove
  PROVE  TablesKept /\ StoreInv'
<1>0. pc = "serve" /\ req.op = "remove"
  BY DEF Remove, Serve
<1>1. CASE \E status : Refuse(status)
  BY <1>0, <1>1, RefusedStore DEF Refuse
<1>2. CASE ~ \E status : Refuse(status)
  <2>0. /\ boot = "done" /\ InMemory /\ req \in Job /\ req.obj \in Obj /\ ctx \in Context
        /\ ctx.table \in ObjectTable /\ Good(its, ctx.table) /\ ctx.table # NULL
    <3>1. req \in Job /\ boot = "done" /\ InMemory
      BY <1>0 DEF SstIInv, RequestInv, InMemory
    <3> QED
      BY <3>1, MemoryFacts, AbsentAssumption DEF Job
  <2>1. /\ Known /\ AssetOf(req.obj) # NULL /\ ~AssetOf(req.obj).once
        /\ \E i \in EntriesOf(req.obj) : /\ old' = SST_OBJECT_FS_ID(i)
                                         /\ ctx' = [ctx EXCEPT !.table[i] = NULL]
        /\ undo' = ctx.table /\ pc' = "save"
        /\ UNCHANGED <<rollback, faults, its, nvc, boot, req, fid, reply>>
    BY <1>2, RemoveCases
  <2>2. PICK i \in EntriesIn(ctx.table, req.obj) :
          old' = SST_OBJECT_FS_ID(i) /\ ctx' = [ctx EXCEPT !.table[i] = NULL]
    BY <2>0, <2>1, AssetRead
  <2>3. i \in Idx
    BY <2>2 DEF EntriesIn
  <2>4. /\ ctx'.active = ctx.active /\ ctx'.scratch = ctx.scratch /\ ctx'.count = ctx.count
        /\ ctx'.table = [ctx.table EXCEPT ![i] = NULL]
    BY <2>0, <2>2 DEF Context
  <2>5. Working = ctx.table /\ Working' = ctx.table /\ undo' # NULL
    BY <1>0, <2>0, <2>1, NothingToUndo DEF Saving, Working
  <2>6. TablesKept
    BY <1>0, <2>0, <2>1, <2>4, <2>5 DEF TablesKept, Ahead
  <2>7. Good(its', ctx'.table)
    <3>1. \A j \in Idx : ctx'.table[j] # NULL => ctx'.table[j] = ctx.table[j]
      BY <2>0, <2>3, <2>4 DEF ObjectTable
    <3> QED
      BY <2>0, <2>1, <3>1 DEF Good, Authentic, Unique
  <2>8. GoodInv'
    BY <2>1, <2>5, <2>6, <2>7, QuietStep DEF GoodInv, Saving
  <2>9. MayChange(undo)'
    <3> SUFFICES ASSUME NEW j \in EntriesIn(ctx.table, req.obj)
                 PROVE  ~its[SST_OBJECT_FS_ID(j)].data.once
      BY <2>1 DEF MayChange
    <3> QED
      BY <2>0, <2>1, AssetRead
  <2>10. ctx'.table[SST_OBJECT_FS_ID_TO_IDX(old')] = NULL
    BY <2>0, <2>2, <2>3, <2>4, FileIds DEF ObjectTable
  <2>11. UpdateInv'
    BY <1>0, <2>0, <2>1, <2>2, <2>4, <2>9, <2>10
       DEF UpdateInv, Writing, Saving, Removing
  <2> QED
    BY <2>6, <2>8, <2>11, QuietStep DEF StoreInv
<1> QED
  BY <1>1, <1>2

\* sst_remove_old_data() removes the old object.
LEMMA RemoveObjectStore ==
  ASSUME SoundBuilds, SstIInv, SstIInv', StoreInv, RemoveObject
  PROVE  TablesKept /\ StoreInv'
<1>0. /\ pc = "remove_object" /\ boot = "done" /\ InMemory /\ old \in ObjectId /\ FilesInv
      /\ UNCHANGED <<rollback, nvc, ctx, undo, boot>>
  BY DEF RemoveObject, SstIInv, RequestInv, InMemory, service, Removing
<1>1. CASE Fault /\ Return("PSA_ERROR_GENERIC_ERROR", NULL)
  BY <1>0, <1>1, FaultReturnStore DEF Removing
<1>2. CASE SetFile(old, NULL) /\ Return("PSA_SUCCESS", NULL)
  <2>1. Working = ctx.table /\ undo = NULL /\ ctx.table[SST_OBJECT_FS_ID_TO_IDX(old)] = NULL
    <3>1. old # NULL
      BY <1>0 DEF SstIInv, RequestInv
    <3> QED
      BY <1>0, <3>1, NothingToUndo DEF Saving, Removing, StoreInv, UpdateInv
  <2>2. /\ \A t \in TableIdx : its'[SST_TABLE_FS_ID(t)] = its[SST_TABLE_FS_ID(t)]
        /\ \A i \in Idx : ctx.table[i] # NULL =>
             its'[SST_OBJECT_FS_ID(i)] = its[SST_OBJECT_FS_ID(i)]
    BY <1>0, <1>2, <2>1, UnusedWritten DEF SetFile
  <2>3. TablesKept
    BY <1>0, <1>2, <2>1, <2>2 DEF TablesKept, Working, Ahead, Return
  <2> QED
    BY <1>0, <1>2, <2>1, <2>3, ReturnStore
<1> QED
  BY <1>1, <1>2 DEF RemoveObject

\* sst_remove_old_data() removes the old table.
LEMMA RemoveTableStore ==
  ASSUME SoundBuilds, SstIInv, SstIInv', StoreInv, RemoveTable
  PROVE  TablesKept /\ StoreInv'
<1> DEFINE f == SST_TABLE_FS_ID(ctx.scratch)
<1>0. /\ pc = "remove_table" /\ boot = "done" /\ InMemory /\ FilesInv
      /\ UNCHANGED <<rollback, nvc, ctx, undo, boot>>
      /\ ctx.scratch \in TableIdx
  <2>1. pc = "remove_table" /\ boot = "done" /\ InMemory
    BY DEF RemoveTable, SstIInv, RequestInv, InMemory, Removing
  <2> QED
    BY <2>1, MemoryFacts DEF RemoveTable, SstIInv, service
<1>1. Working = ctx.table /\ undo = NULL /\ its[f] # NULL
  <2>1. Table(ctx.scratch) # NULL
    BY <1>0 DEF StoreInv, MemoryInv
  <2> QED
    BY <1>0, <2>1, NothingToUndo DEF Saving, Table
<1>2. CASE Fault /\ Return("PSA_ERROR_GENERIC_ERROR", NULL)
  BY <1>0, <1>2, FaultReturnStore DEF Removing
<1>3. CASE ~(Fault /\ Return("PSA_ERROR_GENERIC_ERROR", NULL))
  <2>1. /\ its' = [its EXCEPT ![f] = NULL]
        /\ \/ old = NULL /\ Return("PSA_SUCCESS", NULL)
           \/ old # NULL /\ pc' = "remove_object" /\ UNCHANGED request
    BY <1>1, <1>3 DEF RemoveTable, SetFile, RemoveFile
  <2>2. /\ \A u \in TableIdx : its'[SST_TABLE_FS_ID(u)] =
                IF u = ctx.scratch THEN NULL ELSE its[SST_TABLE_FS_ID(u)]
        /\ \A g \in ObjectId : its'[g] = its[g]
    BY <1>0, <2>1, TableRemoved
  <2>3. pc' \in {"ready", "remove_object"}
    BY <2>1 DEF Return
  <2>4. TablesKept
    BY <1>0, <1>1, <2>2, <2>3, FileIds DEF TablesKept, Working, Ahead
  <2>5. CASE old = NULL /\ Return("PSA_SUCCESS", NULL)
    BY <1>0, <1>1, <2>4, <2>5, ReturnStore
  <2>6. CASE old # NULL /\ pc' = "remove_object" /\ UNCHANGED request
    <3>1. GoodInv'
      BY <1>0, <1>1, <2>4, <2>6, QuietStep DEF GoodInv, Saving
    <3>2. Updated'
      <4>1. Updated /\ req' = req /\ ctx' = ctx
        BY <1>0, <2>6 DEF StoreInv, UpdateInv, Removing, request
      <4>2. NewAsset' = NewAsset
        BY <4>1 DEF NewAsset
      <4>3. \A i \in EntriesIn(ctx.table, req.obj) :
              its'[SST_OBJECT_FS_ID(i)] = its[SST_OBJECT_FS_ID(i)]
        BY <2>2, FileIds DEF EntriesIn
      <4> QED
        BY <4>1, <4>2, <4>3 DEF Updated
    <3>3. UpdateInv'
      BY <1>0, <2>6, <3>2 DEF StoreInv, UpdateInv, request, Writing, Saving, Removing
    <3> QED
      BY <2>4, <3>1, <3>3, QuietStep DEF StoreInv
  <2> QED
    BY <2>1, <2>5, <2>6
<1> QED
  BY <1>2, <1>3

\* The state in which a table is saved.
LEMMA SavingFacts ==
  ASSUME SstIInv, StoreInv, pc \in Saving
  PROVE  /\ InMemory /\ boot \in {"wipe", "done"} /\ ctx \in Context /\ FilesInv
         /\ ctx.active \in TableIdx /\ ctx.scratch \in TableIdx /\ ctx.count \in Nat
         /\ ctx.scratch = 1 - ctx.active /\ ctx.active = 1 - ctx.scratch
         /\ undo # NULL /\ undo \in ObjectTable /\ Working = undo
         /\ Good(its, undo) /\ Good(its, ctx.table)
         /\ nvc \in [1..3 -> Nat] /\ nvc[1] \in Nat /\ nvc[2] \in Nat /\ nvc[3] \in Nat
         /\ boot = "wipe" => ctx.scratch = 0 /\ ctx.active = 1 /\ ctx.table = EmptyTable
         /\ boot = "wipe" => req = NULL
<1>1. InMemory /\ boot \in {"wipe", "done"}
  BY DEF InMemory, Saving, SstIInv, RequestInv
<1>2. undo # NULL /\ Good(its, undo) /\ Working = undo
  BY DEF StoreInv, GoodInv, Working
<1>3. undo \in ObjectTable /\ FilesInv
  BY DEF SstIInv, ServiceInv
<1>4. boot = "wipe" => ctx.scratch = 0 /\ ctx.table = EmptyTable /\ req = NULL
  BY DEF StoreInv, WipeInv, UpdateInv
<1> QED
  BY <1>1, <1>2, <1>3, <1>4, MemoryFacts

\* sst_object_table_save_table() fails.
LEMMA SaveFailedStore ==
  ASSUME SoundBuilds, SstIInv, SstIInv', StoreInv, pc \in Saving, rollback, SaveFailed,
         UNCHANGED <<rollback, nvc>>,
         its' \in {its, [its EXCEPT ![WrittenTable] = NULL]}
  PROVE  StoreInv' /\ (boot = "done" => TablesKept)
<1>0. /\ undo' = NULL /\ boot' = boot
      /\ ctx'.table = undo /\ ctx'.active = ctx.active /\ ctx'.scratch = ctx.scratch
      /\ ctx'.count = ctx.count
  BY SavingFacts DEF SaveFailed, Context
<1>1. /\ \A t \in TableIdx :
           \/ its'[SST_TABLE_FS_ID(t)] = its[SST_TABLE_FS_ID(t)]
           \/ t = ctx.scratch /\ its'[SST_TABLE_FS_ID(t)] = NULL
      /\ \A i \in Idx : its'[SST_OBJECT_FS_ID(i)] = its[SST_OBJECT_FS_ID(i)]
  <2>1. CASE its' = its
    BY <2>1
  <2>2. CASE its' = [its EXCEPT ![WrittenTable] = NULL]
    <3>1. /\ \A u \in TableIdx : its'[SST_TABLE_FS_ID(u)] =
               IF u = ctx.scratch THEN NULL ELSE its[SST_TABLE_FS_ID(u)]
          /\ \A g \in ObjectId : its'[g] = its[g]
      BY <2>2, SavingFacts, TableRemoved DEF WrittenTable
    <3> QED
      BY <3>1, FileIds
  <2> QED
    BY <2>1, <2>2
<1>2. CASE boot # "done"
  <2>1. boot = "wipe" /\ pc' = "abort" /\ req' = req /\ req = NULL
    BY <1>2, SavingFacts DEF SaveFailed, request
  <2>2. CountInv'
    BY <1>1, <2>1 DEF StoreInv, CountInv, Count, Table, InMemory, Ahead
  <2>3. GoodInv'
    <3>1. \A T : Good(its, T) => Good(its', T)
      BY <1>1, GoodFrame
    <3>2. \A t \in TableIdx : Live(t)' => Live(t) /\ Table(t)' = Table(t)
      BY <1>1 DEF Live, IsWhole, Count, Table
    <3> QED
      BY <1>0, <2>1, <3>1, <3>2 DEF StoreInv, GoodInv, InMemory, Saving
  <2>4. MemoryInv' /\ WipeInv' /\ UpdateInv'
    BY <1>0, <2>1 DEF MemoryInv, WipeInv, UpdateInv, InMemory, Saving, Writing, Removing
  <2> QED
    BY <1>2, <2>2, <2>3, <2>4 DEF StoreInv
<1>3. CASE boot = "done"
  <2>1. Working' = Working
    BY <1>0, SavingFacts DEF Working
  <2>2. pc' \in {"undo_object", "ready"}
    BY <1>3 DEF SaveFailed, Return
  <2>3. TablesKept
    BY <1>0, <1>1, <1>3, <2>1, <2>2, SavingFacts DEF TablesKept, Saving
  <2>4. CASE req.op = "set"
    <3>1. pc' = "undo_object" /\ req' = req /\ fid' = fid
      BY <1>3, <2>4 DEF SaveFailed, request
    <3>2. GoodInv'
      BY <1>0, <2>3, <3>1, SavingFacts, QuietStep DEF GoodInv, Saving
    <3>3. undo[SST_OBJECT_FS_ID_TO_IDX(fid)] = NULL
      BY <1>3, <2>4 DEF StoreInv, UpdateInv
    <3>4. UpdateInv'
      BY <1>0, <1>3, <2>4, <3>1, <3>3 DEF UpdateInv, Saving, Writing, Removing
    <3> QED
      BY <2>3, <3>2, <3>4, QuietStep DEF StoreInv
  <2>5. CASE req.op # "set"
    <3>1. Return("PSA_ERROR_GENERIC_ERROR", NULL)
      BY <1>3, <2>5 DEF SaveFailed
    <3> QED
      BY <1>0, <2>3, <3>1, SavingFacts, ReturnStore
  <2> QED
    BY <2>4, <2>5
<1> QED
  BY <1>2, <1>3

\* What a request means to do is not changed while its table is saved.
LEMMA SavingUpdate ==
  ASSUME SstIInv, StoreInv, pc \in Saving, pc' \in Saving,
         UNCHANGED <<undo, boot, req, fid, old>>, ctx'.table = ctx.table,
         \A g \in ObjectId : its'[g] = its[g]
  PROVE  UpdateInv'
<1>1. UpdateInv
  BY DEF StoreInv
<1>2. NewAsset' = NewAsset
  BY DEF NewAsset
<1>3. MayChange(undo) => MayChange(undo)'
  BY FileIds DEF MayChange, EntriesIn
<1> QED
  BY <1>1, <1>2, <1>3 DEF UpdateInv, Saving, Writing, Removing

\* Counter 1, or the swap count, is incremented.
LEMMA SaveStore ==
  ASSUME SoundBuilds, SstIInv, SstIInv', StoreInv, Save
  PROVE  StoreInv'
<1>0. pc = "save" /\ pc \in Saving /\ UNCHANGED <<rollback, faults, its>>
  BY DEF Save, Saving
<1>1. CASE rollback /\ nvc[1] = NvcMax
  BY <1>0, <1>1, SaveFailedStore DEF Save
<1>2. CASE ~(rollback /\ nvc[1] = NvcMax)
  <2>1. /\ pc' = "table_delete" /\ pc' \in Saving /\ pc' \in Ahead
        /\ UNCHANGED <<undo, boot, req, fid, old>>
        /\ IF rollback THEN nvc' = [nvc EXCEPT ![1] = @ + 1] /\ UNCHANGED ctx
           ELSE ctx' = [ctx EXCEPT !.count = NextCount(@)] /\ UNCHANGED nvc
    BY <1>2 DEF Save, Saving, Ahead, request
  <2>2. /\ ctx'.active = ctx.active /\ ctx'.scratch = ctx.scratch /\ ctx'.table = ctx.table
        /\ ~rollback => ctx'.count = NextCount(ctx.count)
        /\ nvc'[2] = nvc[2] /\ nvc'[3] = nvc[3]
        /\ nvc'[1] = IF rollback THEN nvc[1] + 1 ELSE nvc[1]
    BY <1>0, <2>1, SavingFacts DEF Context
  <2>3. /\ CountInv /\ GoodInv /\ MemoryInv /\ WipeInv /\ InMemory /\ InMemory'
        /\ \A t \in TableIdx : Table(t) # NULL => Count(t) \in Nat
    BY <1>0, <2>1, SavingFacts, MemoryFacts DEF StoreInv, InMemory
  <2>4. CountInv'
    <3>1. ~rollback => ctx'.count < SwapMax
      <4>1. ~rollback => ctx.count \in Nat /\ ctx.count < SwapMax
        BY <1>0, <2>3, SavingFacts DEF CountInv
      <4> QED
        BY <2>2, <4>1, SstAssumption DEF NextCount
    <3>2. nvc'[3] <= nvc'[2] /\ nvc'[2] <= nvc'[1] /\ (rollback => 1 <= nvc'[1])
      BY <1>0, <2>2, <2>3, SavingFacts DEF CountInv
    <3>3. ASSUME NEW t \in TableIdx, its[SST_TABLE_FS_ID(t)] # NULL
          PROVE  LET n == its[SST_TABLE_FS_ID(t)].data.count IN
                 IF rollback THEN 1 <= n /\ n < nvc'[1] ELSE n < SwapMax
      BY <1>0, <2>2, <2>3, <3>3, SavingFacts DEF CountInv, Count, Table
    <3>4. \A t \in TableIdx : its[SST_TABLE_FS_ID(t)] # NULL =>
             its[SST_TABLE_FS_ID(t)].data.count \in Nat
      BY <2>3 DEF Table, Count
    <3>5. nvc'[1] \in Nat
      BY <2>2, <1>0, SavingFacts
    <3> QED
      BY <1>0, <2>2, <2>3, <3>1, <3>2, <3>3, <3>4, <3>5, SavingFacts DEF CountInv, Count, Table
  <2>5. GoodInv'
    BY <1>0, <2>1, <2>2, <2>3 DEF GoodInv, Live, IsWhole, Count, Table
  <2>6. MemoryInv'
    <3> SUFFICES ASSUME boot = "done" PROVE MemoryInv'
      BY <1>0, <2>1, SavingFacts DEF MemoryInv
    <3>1. /\ IsWhole(ctx.active) /\ Table(ctx.active).data.table = Working /\ Retired
          /\ ~rollback => ctx.count = Count(ctx.active)
          /\ rollback => nvc[2] = nvc[3] /\ Count(ctx.active) <= nvc[3]
      BY <1>0, <2>3, SavingFacts DEF MemoryInv, Ahead
    <3>2. Working' = Working
      BY <2>1, <2>2 DEF Working
    <3>3. Retired'
      BY <1>0, <2>1, <2>2, <3>1 DEF Retired, IsWhole, Count, Table
    <3> QED
      BY <1>0, <2>1, <2>2, <3>1, <3>2, <3>3 DEF MemoryInv, IsWhole, Count, Table, Ahead
  <2>7. WipeInv'
    BY <1>0, <2>1, <2>2, <2>3, SavingFacts DEF WipeInv, IsWhole, Table
  <2>8. UpdateInv'
    BY <1>0, <2>1, <2>2, SavingUpdate
  <2> QED
    BY <2>4, <2>5, <2>6, <2>7, <2>8 DEF StoreInv
<1> QED
  BY <1>1, <1>2

\* An error of internal trusted storage in a save.
LEMMA SaveFaultStore ==
  ASSUME SoundBuilds, SstIInv, SstIInv', StoreInv, pc \in Saving, SaveFailed,
         Fault \/ FailedFill(WrittenTable), UNCHANGED <<rollback, nvc>>
  PROVE  StoreInv' /\ (boot = "done" => TablesKept)
<1>1. rollback
  BY FaultsWithRollback DEF SstIInv, FaultInv, ServiceInv, Fault, FailedFill
<1> QED
  BY <1>1, SaveFailedStore DEF Fault, FailedFill

\* psa_its_set() of the table while it has not completed.
LEMMA TableBegunStore ==
  ASSUME SoundBuilds, SstIInv, SstIInv', StoreInv, TableDelete \/ TableCreate
  PROVE  StoreInv'
<1>0. /\ pc \in {"table_delete", "table_create"} /\ pc \in Saving /\ pc \in Ahead
      /\ UNCHANGED <<rollback, nvc>>
  BY DEF TableDelete, TableCreate, Saving, Ahead
<1>1. CASE Fault /\ SaveFailed
  BY <1>0, <1>1, SaveFaultStore
<1>2. CASE ~(Fault /\ SaveFailed)
  <2> DEFINE c == IF pc = "table_delete" THEN NULL ELSE Part(SavedTable)
  <2>1. /\ its' = [its EXCEPT ![SST_TABLE_FS_ID(ctx.scratch)] = c]
        /\ pc' \in {"table_create", "table_fill"} /\ pc' \in Saving /\ pc' \in Ahead
        /\ UNCHANGED <<faults, ctx, undo, boot, req, fid, old>>
    BY <1>0, <1>2 DEF TableDelete, TableCreate, RemoveFile, SetFile, WrittenTable,
                      service, request, Saving, Ahead
  <2>2. /\ c \in TableFile \cup {NULL}
        /\ c # NULL => ~c.whole /\ c.data.count = IF rollback THEN nvc[1] ELSE ctx.count
    BY <1>0, SavedTableType DEF Part, SavedTable
  <2> HIDE DEF c
  <2>3. /\ \A u \in TableIdx : its'[SST_TABLE_FS_ID(u)] =
               IF u = ctx.scratch THEN c ELSE its[SST_TABLE_FS_ID(u)]
        /\ \A g \in ObjectId : its'[g] = its[g]
    BY <1>0, <2>1, <2>2, SavingFacts, TableWritten DEF Table
  <2>4. CountInv /\ GoodInv /\ MemoryInv /\ WipeInv /\ InMemory /\ InMemory'
    BY <1>0, <2>1, SavingFacts DEF StoreInv, InMemory
  <2>5. \A u \in TableIdx : IsWhole(u)' => u # ctx.scratch /\ IsWhole(u)
    BY <2>2, <2>3 DEF IsWhole, Table
  <2>6. CountInv'
    BY <1>0, <2>1, <2>2, <2>3, <2>4, SavingFacts DEF CountInv, Count, Table, TableIdx
  <2>7. \A T : Good(its, T) => Good(its', T)
    BY <2>3, FileIds, GoodFrame
  <2>8. GoodInv'
    <3>1. \A u \in TableIdx : Live(u)' => Good(its', Table(u)'.data.table)
      BY <1>0, <2>3, <2>4, <2>5, <2>7 DEF GoodInv, Live, Count, Table
    <3> QED
      BY <1>0, <2>1, <2>4, <2>7, <3>1, SavingFacts DEF GoodInv
  <2>9. MemoryInv'
    <3> SUFFICES ASSUME boot = "done" PROVE MemoryInv'
      BY <1>0, <2>1, SavingFacts DEF MemoryInv
    <3>1. /\ IsWhole(ctx.active) /\ Table(ctx.active).data.table = Working
          /\ ~rollback => ctx.count = NextCount(Count(ctx.active))
          /\ rollback => nvc[2] = nvc[3] /\ Count(ctx.active) <= nvc[3]
      BY <1>0, <2>4, SavingFacts DEF MemoryInv, Ahead
    <3>2. Working' = Working
      BY <2>1 DEF Working
    <3>3. Retired'
      BY <1>0, <2>1, <2>5, SavingFacts DEF Retired, IsWhole, Table
    <3>4. its'[SST_TABLE_FS_ID(ctx.active)] = its[SST_TABLE_FS_ID(ctx.active)]
      BY <1>0, <2>3, SavingFacts DEF TableIdx
    <3> QED
      BY <1>0, <2>1, <3>1, <3>2, <3>3, <3>4 DEF MemoryInv, IsWhole, Count, Table, Ahead
  <2>10. WipeInv'
    BY <1>0, <2>1, <2>4, <2>5, SavingFacts DEF WipeInv
  <2>11. UpdateInv'
    BY <1>0, <2>1, <2>3, SavingUpdate
  <2> QED
    BY <2>6, <2>8, <2>9, <2>10, <2>11 DEF StoreInv
<1> QED
  BY <1>1, <1>2

\* What the table that is saved says of the object of the request.
LEMMA SavedUpdated ==
  ASSUME SstIInv, StoreInv, pc \in Saving, boot = "done"
  PROVE  /\ Updated /\ req.op \in {"set", "remove"} /\ req \in Job /\ req.obj \in Obj
         /\ req.op = "set" =>
              /\ fid \in ObjectId /\ SST_OBJECT_FS_ID_TO_IDX(fid) \in Idx
              /\ undo[SST_OBJECT_FS_ID_TO_IDX(fid)] = NULL
              /\ SST_OBJECT_FS_ID_TO_IDX(fid) \in EntriesIn(ctx.table, req.obj)
              /\ its[fid].data = NewAsset /\ NewAsset \in Asset
         /\ \A i \in Idx : /\ ctx.table[i] # NULL
                           /\ req.op = "set" => i # SST_OBJECT_FS_ID_TO_IDX(fid)
                           => ctx.table[i] = undo[i]
         /\ \A i \in Idx : undo[i] # NULL /\ undo[i].obj # req.obj => ctx.table[i] = undo[i]
<1> DEFINE k == SST_OBJECT_FS_ID_TO_IDX(fid)
<1>1. /\ req \in Job /\ UpdateInv /\ req.op # "get"
      /\ Good(its, ctx.table) /\ Good(its, undo) /\ undo \in ObjectTable
      /\ undo # NULL
  BY SavingFacts DEF SstIInv, RequestInv, StoreInv, UpdateInv
<1>2. req.op \in {"set", "remove"} /\ req.obj \in Obj
  BY <1>1 DEF Job
<1>3. ASSUME req.op = "set"
      PROVE  /\ Updated
             /\ fid \in ObjectId /\ k \in Idx /\ undo[k] = NULL
             /\ k \in EntriesIn(ctx.table, req.obj) /\ its[fid].data = NewAsset
             /\ NewAsset \in Asset
             /\ \A i \in Idx : ctx.table[i] # NULL /\ i # k => ctx.table[i] = undo[i]
             /\ \A i \in Idx : undo[i] # NULL /\ undo[i].obj # req.obj =>
                  ctx.table[i] = undo[i]
  <2>1. fid \in ObjectId /\ k \in Idx /\ SST_OBJECT_FS_ID(k) = fid
    BY <1>3, FileIds DEF SstIInv, RequestInv
  <2>2. /\ undo[k] = NULL
        /\ ctx.table = [i \in Idx |-> IF i = k THEN Entry(req.obj, fid, NewAsset)
                                     ELSE IF i \in EntriesIn(undo, req.obj) THEN NULL
                                     ELSE undo[i]]
    BY <1>1, <1>3 DEF UpdateInv
  <2>3. /\ ctx.table[k] = Entry(req.obj, fid, NewAsset) /\ ctx.table[k] # NULL
        /\ NewAsset \in Asset
    <3>1. ctx.table[k] = Entry(req.obj, fid, NewAsset)
      BY <2>1, <2>2
    <3>2. NewAsset \in Asset
      BY <1>1, <1>3 DEF UpdateInv
    <3>3. fid \in FileId
      BY <2>1, FileIds
    <3> QED
      BY <1>2, <3>1, <3>2, <3>3, NullAssumption DEF Entry, Tag, TableEntry
  <2>4. k \in EntriesIn(ctx.table, req.obj)
    BY <2>1, <2>3 DEF EntriesIn, Entry
  <2>5. ctx.table[k].tag = Tag(fid, its[fid].data) /\ ctx.table[k].tag = Tag(fid, NewAsset)
    BY <1>1, <2>1, <2>3 DEF Good, Authentic, Entry
  <2>6. its[fid].data = NewAsset
    BY <2>5 DEF Tag
  <2>7. Updated
    BY <1>3, <2>1, <2>4, <2>6 DEF Updated
  <2>8. \A i \in Idx : ctx.table[i] # NULL /\ i # k => ctx.table[i] = undo[i]
    BY <2>2
  <2>9. \A i \in Idx : undo[i] # NULL /\ undo[i].obj # req.obj => ctx.table[i] = undo[i]
    BY <2>2 DEF EntriesIn
  <2> QED
    BY <2>1, <2>2, <2>3, <2>4, <2>6, <2>7, <2>8, <2>9
<1>4. ASSUME req.op = "remove"
      PROVE  /\ Updated
             /\ \A i \in Idx : ctx.table[i] # NULL => ctx.table[i] = undo[i]
             /\ \A i \in Idx : undo[i] # NULL /\ undo[i].obj # req.obj =>
                  ctx.table[i] = undo[i]
  <2>1. PICK n \in EntriesIn(undo, req.obj) : ctx.table = [undo EXCEPT ![n] = NULL]
    BY <1>1, <1>4 DEF UpdateInv
  <2>2. \A i \in Idx : ctx.table[i] = IF i = n THEN NULL ELSE undo[i]
    BY <1>1, <2>1 DEF ObjectTable
  <2>3. EntriesIn(ctx.table, req.obj) = {}
    BY <1>1, <2>1, <2>2 DEF EntriesIn, Good, Unique
  <2> QED
    BY <1>4, <2>1, <2>2, <2>3 DEF Updated, EntriesIn
<1> QED
  BY <1>1, <1>2, <1>3, <1>4

\* The table is complete; active and scratch are swapped.
LEMMA TableFillStore ==
  ASSUME SoundBuilds, SstIInv, SstIInv', StoreInv, TableFill
  PROVE  StoreInv'
<1>0. /\ pc = "table_fill" /\ pc \in Saving /\ pc \in Ahead /\ UNCHANGED <<rollback, nvc>>
  BY DEF TableFill, Saving, Ahead
<1>1. CASE FailedFill(WrittenTable) /\ SaveFailed
  BY <1>0, <1>1, SaveFaultStore
<1>2. CASE ~(FailedFill(WrittenTable) /\ SaveFailed)
  <2> DEFINE c == Whole(SavedTable)
  <2>1. /\ its' = [its EXCEPT ![SST_TABLE_FS_ID(ctx.scratch)] = c]
        /\ ctx' = [ctx EXCEPT !.active = ctx.scratch, !.scratch = ctx.active]
        /\ undo' = NULL /\ pc' = "align"
        /\ UNCHANGED <<faults, boot, req, fid, old>>
    BY <1>0, <1>2 DEF TableFill, SetFile, WrittenTable, request
  <2>2. /\ c \in TableFile \cup {NULL} /\ c # NULL /\ c.whole
        /\ c.data.table = ctx.table
        /\ c.data.count = IF rollback THEN nvc[1] ELSE ctx.count
    <3>1. c \in TableFile
      BY <1>0, SavedTableType DEF Whole
    <3>2. /\ c.whole /\ c.data.table = ctx.table
          /\ c.data.count = IF rollback THEN nvc[1] ELSE ctx.count
      BY DEF Whole, SavedTable
    <3> QED
      BY <3>1, <3>2, NullAssumption
  <2> HIDE DEF c
  <2>3. /\ \A u \in TableIdx : its'[SST_TABLE_FS_ID(u)] =
               IF u = ctx.scratch THEN c ELSE its[SST_TABLE_FS_ID(u)]
        /\ \A g \in ObjectId : its'[g] = its[g]
    BY <1>0, <2>1, <2>2, SavingFacts, TableWritten DEF Table
  <2>4. /\ ctx'.active = ctx.scratch /\ ctx'.scratch = ctx.active
        /\ ctx'.table = ctx.table /\ ctx'.count = ctx.count
    BY <1>0, <2>1, SavingFacts DEF Context
  <2>5. /\ CountInv /\ GoodInv /\ MemoryInv /\ WipeInv /\ InMemory /\ InMemory'
        /\ nvc[1] \in Nat /\ nvc[2] \in Nat /\ nvc[3] \in Nat
        /\ nvc[3] <= nvc[2] /\ nvc[2] <= nvc[1]
    BY <1>0, <2>1, SavingFacts, MemoryFacts DEF StoreInv, InMemory
  <2>6. /\ ctx.active \in TableIdx /\ ctx.scratch \in TableIdx
        /\ ctx.active # ctx.scratch
        /\ its'[SST_TABLE_FS_ID(ctx.scratch)] = c
        /\ its'[SST_TABLE_FS_ID(ctx.active)] = its[SST_TABLE_FS_ID(ctx.active)]
    BY <1>0, <2>3, SavingFacts DEF TableIdx
  <2>7. CountInv'
    <3>1. rollback => 1 <= nvc[1]
      BY <1>0, <2>5 DEF CountInv
    <3>2. ~rollback => ctx.count < SwapMax
      BY <2>5 DEF CountInv
    <3> QED
      BY <1>0, <2>1, <2>2, <2>3, <2>4, <2>5, <3>1, <3>2 DEF CountInv, Count, Table, Ahead
  <2>8. \A T : Good(its, T) => Good(its', T)
    BY <2>3, FileIds, GoodFrame
  <2>9. GoodInv'
    <3>1. Good(its', ctx.table)
      BY <1>0, <2>8, SavingFacts
    <3>2. \A u \in TableIdx : Live(u)' => Good(its', Table(u)'.data.table)
      BY <1>0, <2>2, <2>3, <2>5, <2>8, <3>1 DEF GoodInv, Live, IsWhole, Count, Table
    <3> QED
      BY <2>1, <2>4, <3>1, <3>2 DEF GoodInv, Saving
  <2>10. MemoryInv'
    <3> SUFFICES ASSUME boot = "done" PROVE MemoryInv'
      BY <1>0, <2>1, SavingFacts DEF MemoryInv
    <3>1. /\ IsWhole(ctx.active)
          /\ ~rollback => ctx.count = NextCount(Count(ctx.active))
          /\ rollback => Count(ctx.active) < nvc[1]
      BY <1>0, <2>5, SavingFacts DEF MemoryInv, Ahead, IsWhole, CountInv
    <3>2. Working' = ctx.table
      BY <2>1, <2>4 DEF Working
    <3>3. Retired'
      BY <1>0, <2>1, <2>2, <2>4, <2>6, <3>1 DEF Retired, IsWhole, Count, Table
    <3> QED
      BY <1>0, <2>1, <2>2, <2>4, <2>6, <3>1, <3>2, <3>3
         DEF MemoryInv, IsWhole, Count, Table, Ahead
  <2>11. WipeInv'
    <3>1. CASE boot = "done"
      BY <2>1, <3>1 DEF WipeInv
    <3>2. CASE boot = "wipe"
      <4>1. /\ ctx.scratch = 0 /\ ctx.active = 1 /\ ctx.table = EmptyTable
            /\ ~rollback => ~IsWhole(1)
            /\ rollback /\ Table(1) # NULL => Count(1) < nvc[1]
        BY <1>0, <2>5, <2>6, <3>2, SavingFacts DEF WipeInv, CountInv
      <4>2. Wiped'
        BY <1>0, <2>2, <2>6, <4>1 DEF Wiped, IsWhole, Count, Table
      <4> QED
        BY <2>1, <3>2, <4>2 DEF WipeInv, Saving
    <3> QED
      BY <1>0, <3>1, <3>2, SavingFacts
  <2>12. UpdateInv'
    <3>1. CASE boot = "wipe"
      BY <1>0, <2>1, <3>1, SavingFacts DEF UpdateInv, Saving, Writing, Removing
    <3>2. CASE boot = "done"
      <4>1. Updated /\ req.op # "get"
        BY <1>0, <3>2, SavedUpdated
      <4>2. Updated'
        <5>1. NewAsset' = NewAsset
          BY <2>1 DEF NewAsset
        <5>2. \A i \in EntriesIn(ctx.table, req.obj) :
                its'[SST_OBJECT_FS_ID(i)] = its[SST_OBJECT_FS_ID(i)]
          BY <2>3, FileIds DEF EntriesIn
        <5> QED
          BY <2>1, <2>4, <4>1, <5>1, <5>2 DEF Updated
      <4>3. old # NULL => ctx.table[SST_OBJECT_FS_ID_TO_IDX(old)] = NULL
        BY <1>0, <3>2 DEF StoreInv, UpdateInv
      <4> QED
        BY <2>1, <2>4, <3>2, <4>1, <4>2, <4>3 DEF UpdateInv, Saving, Writing, Removing
    <3> QED
      BY <1>0, <3>1, <3>2, SavingFacts
  <2> QED
    BY <2>7, <2>9, <2>10, <2>11, <2>12 DEF StoreInv
<1> QED
  BY <1>1, <1>2

\* sst_object_table_align_nv_counters() increments counter 2, then counter 3.
LEMMA AlignCounters ==
  ASSUME SstIInv, StoreInv, Align
  PROVE  /\ pc = "align" /\ InMemory /\ nvc'[1] = nvc[1]
         /\ UNCHANGED <<rollback, faults, its, ctx, undo, boot, pc, req, fid, old, reply>>
         /\ \/ nvc[2] < nvc[1] /\ nvc'[2] = nvc[2] + 1 /\ nvc'[3] = nvc[3]
            \/ /\ nvc[2] = nvc[1] /\ nvc[3] < nvc[1]
               /\ nvc'[2] = nvc[2] /\ nvc'[3] = nvc[3] + 1
<1>0. /\ pc = "align" /\ InMemory /\ Lagging # {} /\ Lagging \subseteq {2, 3}
      /\ UNCHANGED <<rollback, faults, its, ctx, undo, boot, pc, req, fid, old, reply>>
      /\ nvc' = [nvc EXCEPT ![Min(Lagging)] = @ + 1]
  BY DEF Align, service, request, InMemory, Lagging
<1>1. /\ nvc \in [1..3 -> Nat] /\ nvc[1] \in Nat /\ nvc[2] \in Nat /\ nvc[3] \in Nat
      /\ nvc[3] <= nvc[2] /\ nvc[2] <= nvc[1]
  BY <1>0, MemoryFacts
<1>2. CASE 2 \in Lagging
  <2>1. Min(Lagging) = 2
    <3>1. 2 \in Lagging /\ \A y \in Lagging : 2 <= y
      BY <1>0, <1>2
    <3>2. \A x \in Lagging : (\A y \in Lagging : x <= y) => x = 2
      BY <1>0, <1>2
    <3> QED
      BY <3>1, <3>2 DEF Min
  <2>2. nvc[2] < nvc[1]
    BY <1>2 DEF Lagging
  <2> QED
    BY <1>0, <1>1, <2>1, <2>2
<1>3. CASE 2 \notin Lagging
  <2>1. Lagging = {3}
    BY <1>0, <1>3
  <2>2. Min(Lagging) = 3
    BY <2>1 DEF Min
  <2>3. nvc[3] < nvc[1] /\ ~(nvc[2] < nvc[1])
    BY <1>3, <2>1 DEF Lagging
  <2> QED
    BY <1>0, <1>1, <2>2, <2>3
<1> QED
  BY <1>2, <1>3

\* An increment of counter 2 or 3.
LEMMA AlignStore ==
  ASSUME SoundBuilds, SstIInv, SstIInv', StoreInv, Align
  PROVE  StoreInv'
<1>0. /\ pc = "align" /\ InMemory /\ nvc'[1] = nvc[1]
      /\ UNCHANGED <<rollback, faults, its, ctx, undo, boot, pc, req, fid, old, reply>>
      /\ nvc[1] \in Nat /\ nvc[2] \in Nat /\ nvc[3] \in Nat
      /\ nvc'[1] \in Nat /\ nvc'[2] \in Nat /\ nvc'[3] \in Nat
      /\ nvc[3] <= nvc'[3] /\ nvc'[3] <= nvc'[2] /\ nvc'[2] <= nvc'[1]
      /\ ~(nvc[1] = nvc[2] /\ nvc[2] = nvc[3])
      /\ \A t \in TableIdx : Table(t) # NULL => Count(t) \in Nat
      /\ ctx.active \in TableIdx /\ ctx.scratch \in TableIdx
  <2>1. InMemory
    BY AlignCounters
  <2> QED
    BY <2>1, AlignCounters, MemoryFacts
<1>1. CountInv /\ GoodInv /\ MemoryInv /\ WipeInv /\ UpdateInv
  BY DEF StoreInv
<1>2. CountInv'
  BY <1>0, <1>1 DEF CountInv, Count, Table, InMemory, Ahead
<1>3. GoodInv'
  <2>1. \A t \in TableIdx : Live(t)' => Live(t)
    BY <1>0 DEF Live, IsWhole, Count, Table
  <2> QED
    BY <1>0, <1>1, <2>1 DEF GoodInv, InMemory, Table
<1>4. MemoryInv'
  <2>1. Retired => Retired'
    BY <1>0 DEF Retired, IsWhole, Count, Table
  <2>2. Working' = Working
    BY <1>0 DEF Working
  <2> QED
    BY <1>0, <1>1, <2>1, <2>2 DEF MemoryInv, InMemory, IsWhole, Count, Table, Ahead
<1>5. WipeInv'
  BY <1>0, <1>1 DEF WipeInv, Wiped, IsWhole, Count, Table, Saving
<1>6. UpdateInv'
  <2>1. Updated => Updated'
    BY <1>0 DEF Updated, NewAsset
  <2> QED
    BY <1>0, <1>1, <2>1 DEF UpdateInv, Saving, Writing, Removing
<1> QED
  BY <1>2, <1>3, <1>4, <1>5, <1>6 DEF StoreInv

\* The counters are aligned.
LEMMA AlignedStore ==
  ASSUME SoundBuilds, SstIInv, SstIInv', StoreInv, Aligned
  PROVE  StoreInv'
<1>0. /\ pc = "align" /\ InMemory
      /\ UNCHANGED <<rollback, faults, its, nvc, ctx, undo, req, fid, old, reply>>
  BY DEF Aligned, request, InMemory
<1>1. \/ boot = "wipe" /\ pc' = "prepare" /\ boot' = "again"
      \/ boot \in {"first", "again"} /\ pc' = "ready" /\ boot' = "done"
      \/ boot = "done" /\ pc' = "remove_table" /\ boot' = boot
  BY <1>0 DEF Aligned, SstIInv, ServiceInv
<1>2. /\ CountInv /\ GoodInv /\ MemoryInv /\ WipeInv /\ UpdateInv
      /\ nvc[1] \in Nat /\ nvc[2] \in Nat /\ nvc[3] \in Nat
      /\ nvc[1] = nvc[2] /\ nvc[2] = nvc[3]
      /\ \A t \in TableIdx : Table(t) # NULL => Count(t) \in Nat
      /\ ctx.active \in TableIdx /\ ctx.scratch \in TableIdx
  <2>1. Lagging = {}
    BY DEF Aligned
  <2>2. ~(nvc[2] < nvc[1]) /\ ~(nvc[3] < nvc[1])
    BY <2>1 DEF Lagging
  <2> QED
    BY <1>0, <2>2, MemoryFacts DEF StoreInv
<1>3. CountInv'
  BY <1>0, <1>1, <1>2 DEF CountInv, Count, Table, InMemory, Ahead
<1>4. GoodInv'
  BY <1>0, <1>1, <1>2 DEF GoodInv, Live, IsWhole, Count, Table, InMemory, Saving
<1>5. MemoryInv'
  <2> SUFFICES ASSUME boot # "wipe" PROVE MemoryInv'
    BY <1>1 DEF MemoryInv, InMemory
  <2>1. /\ IsWhole(ctx.active) /\ Table(ctx.active).data.table = Working /\ Retired
        /\ ~rollback => ctx.count = Count(ctx.active)
        /\ boot = "done" => Table(ctx.scratch) # NULL
        /\ rollback => Count(ctx.active) <= nvc[1]
    BY <1>0, <1>2 DEF MemoryInv, CountInv, IsWhole, Ahead
  <2>2. Retired'
    BY <1>0, <1>1, <1>2, <2>1 DEF Retired, IsWhole, Count, Table
  <2>3. Working' = Working
    BY <1>0 DEF Working
  <2> QED
    BY <1>0, <1>1, <1>2, <2>1, <2>2, <2>3 DEF MemoryInv, IsWhole, Count, Table, Ahead
<1>6. WipeInv'
  BY <1>0, <1>1, <1>2 DEF WipeInv, Wiped, IsWhole, Count, Table, Saving
<1>7. UpdateInv'
  <2>1. Updated => Updated'
    BY <1>0 DEF Updated, NewAsset
  <2> QED
    BY <1>0, <1>1, <1>2, <2>1 DEF UpdateInv, Saving, Writing, Removing
<1> QED
  BY <1>3, <1>4, <1>5, <1>6, <1>7 DEF StoreInv

\* sst_system_wipe_all(): the first attempt of tfm_sst_init() has failed.
LEMMA WipeStore ==
  ASSUME SoundBuilds, SstIInv, SstIInv', StoreInv, pc \in {"prepare", "init_remove"},
         boot = "first", Wipe, UNCHANGED <<rollback, nvc, its, req, fid, old>>,
         ~rollback => \A t \in TableIdx : ~IsWhole(t)
  PROVE  StoreInv'
<1>0. /\ pc' = "save" /\ boot' = "wipe" /\ undo' = EmptyTable
      /\ ctx'.table = EmptyTable /\ ctx'.count = 0 /\ ctx'.active = 1 /\ ctx'.scratch = 0
  BY DEF Wipe
<1>1. CountInv /\ GoodInv /\ UpdateInv /\ req = NULL
  BY DEF StoreInv, UpdateInv
<1>2. EmptyTable # NULL
  BY <1>0, AbsentAssumption DEF SstIInv, ServiceInv, Saving
<1>3. Good(its', EmptyTable)
  BY DEF Good, Authentic, Unique, EmptyTable
<1>4. CountInv'
  <2>1. ~rollback' => faults' = 0
    BY FaultsWithRollback DEF SstIInv, FaultInv, ServiceInv
  <2> QED
    BY <1>0, <1>1, <2>1, SstAssumption DEF CountInv, Count, Table, Ahead
<1>5. GoodInv'
  BY <1>0, <1>1, <1>2, <1>3 DEF GoodInv, Live, IsWhole, Count, Table, Saving
<1>6. MemoryInv'
  BY <1>0 DEF MemoryInv
<1>7. WipeInv'
  BY <1>0 DEF WipeInv, IsWhole, Table, Saving
<1>8. UpdateInv'
  BY <1>0, <1>1 DEF UpdateInv, Saving, Writing, Removing
<1> QED
  BY <1>4, <1>5, <1>6, <1>7, <1>8 DEF StoreInv

\* sst_system_prepare() authenticates the tables.
LEMMA PrepareStore ==
  ASSUME SoundBuilds, SstIInv, SstIInv', StoreInv, Prepare
  PROVE  StoreInv'
<1>0. /\ pc = "prepare" /\ boot \in {"first", "again"} /\ req = NULL /\ undo = NULL
      /\ UNCHANGED <<rollback, faults, its, nvc, req, fid, old, reply>>
      /\ CountInv /\ GoodInv /\ WipeInv
  BY DEF Prepare, request, SstIInv, RequestInv, StoreInv, UpdateInv, GoodInv, Saving
<1>1. CASE ValidTables = {}
  <2>1. boot = "first" /\ Wipe
    BY <1>0, <1>1, AgainSelected DEF Prepare
  <2>2. ~rollback => \A t \in TableIdx : ~IsWhole(t)
    BY <1>1, StateOf DEF ValidTables
  <2> QED
    BY <1>0, <2>1, <2>2, WipeStore
<1>2. CASE ValidTables # {}
  <2> DEFINE t == sst_set_active_object_table
  <2>1. /\ ctx' = [table |-> Table(t).data.table, count |-> Table(t).data.count,
                   active |-> t, scratch |-> 1 - t]
        /\ pc' = "init_remove" /\ UNCHANGED <<undo, boot>>
    BY <1>2 DEF Prepare
  <2>2. t \in ValidTables
    BY <1>2, SelectedIsValid
  <2>3. t' = t /\ ValidTables' = ValidTables
    BY <1>0 DEF sst_set_active_object_table, ValidTables, TableState, Authenticated, Table
  <2>4. boot = "again" => t = 0 /\ Table(0).data.table = EmptyTable
    BY AgainSelected
  <2>5. /\ t \in TableIdx /\ IsWhole(t) /\ Live(t) /\ Table(t) # NULL
        /\ Count(t) \in Nat /\ Good(its, Table(t).data.table)
    BY <2>2, ValidIsLive DEF IsWhole
  <2> HIDE DEF t
  <2>6. /\ ctx'.table = Table(t).data.table /\ ctx'.count = Count(t)
        /\ ctx'.active = t /\ ctx'.scratch = 1 - t
    BY <2>1 DEF Count
  <2>7. CountInv'
    BY <1>0, <2>1, <2>5, <2>6 DEF CountInv, Count, Table, Ahead
  <2>8. GoodInv'
    BY <1>0, <2>1, <2>5, <2>6 DEF GoodInv, Live, IsWhole, Count, Table, Saving
  <2>9. MemoryInv'
    <3>1. Working' = Table(t).data.table
      BY <1>0, <2>1, <2>6 DEF Working
    <3>2. ctx'.active = (sst_set_active_object_table)'
      BY <2>3, <2>6 DEF t
    <3> QED
      BY <1>0, <1>2, <2>1, <2>3, <2>5, <2>6, <3>1, <3>2
         DEF MemoryInv, IsWhole, Count, Table, Ahead
  <2>10. WipeInv'
    <3>1. ctx' \in Context
      BY <2>1 DEF SstIInv, ServiceInv, InMemory
    <3>2. Wiped => Wiped'
      BY <1>0 DEF Wiped, IsWhole, Count, Table
    <3> QED
      BY <1>0, <2>1, <2>4, <2>6, <3>1, <3>2 DEF WipeInv, Saving
  <2>11. UpdateInv'
    BY <1>0, <2>1 DEF UpdateInv, Saving, Writing, Removing
  <2> QED
    BY <2>7, <2>8, <2>9, <2>10, <2>11 DEF StoreInv
<1> QED
  BY <1>1, <1>2

\* sst_object_table_init() removes the table that it has not taken.
LEMMA InitRemoveStore ==
  ASSUME SoundBuilds, SstIInv, SstIInv', StoreInv, InitRemove
  PROVE  StoreInv'
<1>0. /\ pc = "init_remove" /\ boot \in {"first", "again"} /\ InMemory
      /\ req = NULL /\ undo = NULL /\ UNCHANGED <<rollback, nvc>>
      /\ CountInv /\ GoodInv /\ MemoryInv /\ WipeInv
  BY DEF InitRemove, SstIInv, RequestInv, InMemory, StoreInv, UpdateInv, GoodInv, Saving
<1>1. CASE Fault /\ Wipe /\ UNCHANGED request
  <2>1. rollback /\ its' = its /\ UNCHANGED <<req, fid, old>>
    BY <1>1, FaultsWithRollback DEF SstIInv, FaultInv, ServiceInv, Fault, request
  <2>2. CASE boot = "first"
    BY <1>0, <1>1, <2>1, <2>2, WipeStore
  <2>3. CASE boot = "again"
    <3>1. pc' = "abort" /\ UNCHANGED <<ctx, undo, boot>>
      BY <1>1, <2>3 DEF Wipe, service
    <3>2. CountInv'
      BY <1>0, <2>1, <3>1 DEF CountInv, Count, Table, InMemory, Ahead
    <3>3. GoodInv'
      BY <1>0, <2>1, <3>1 DEF GoodInv, Live, IsWhole, Count, Table, InMemory, Saving
    <3>4. MemoryInv'
      BY <3>1 DEF MemoryInv, InMemory
    <3>5. WipeInv'
      BY <1>0, <2>1, <2>3, <3>1 DEF WipeInv, Wiped, IsWhole, Count, Table
    <3>6. UpdateInv'
      BY <1>0, <2>1, <2>3, <3>1 DEF UpdateInv, Saving, Writing, Removing
    <3> QED
      BY <3>2, <3>3, <3>4, <3>5, <3>6 DEF StoreInv
  <2> QED
    BY <1>0, <2>2, <2>3
<1>2. CASE RemoveFile(SST_TABLE_FS_ID(ctx.scratch), "align") /\ UNCHANGED service
  <2>1. /\ its' = [its EXCEPT ![SST_TABLE_FS_ID(ctx.scratch)] = NULL]
        /\ pc' = "align" /\ UNCHANGED <<faults, ctx, undo, boot, req, fid, old>>
    BY <1>2 DEF RemoveFile, SetFile, service, request
  <2>2. /\ ctx.active \in TableIdx /\ ctx.scratch \in TableIdx
        /\ ctx.scratch = 1 - ctx.active /\ FilesInv
    BY <1>0, MemoryFacts DEF SstIInv
  <2>3. /\ \A u \in TableIdx : its'[SST_TABLE_FS_ID(u)] =
               IF u = ctx.scratch THEN NULL ELSE its[SST_TABLE_FS_ID(u)]
        /\ \A g \in ObjectId : its'[g] = its[g]
    BY <2>1, <2>2, TableRemoved
  <2>4. its'[SST_TABLE_FS_ID(ctx.active)] = its[SST_TABLE_FS_ID(ctx.active)]
    BY <2>2, <2>3 DEF TableIdx
  <2>5. CountInv'
    BY <1>0, <2>1, <2>2, <2>3 DEF CountInv, Count, Table, InMemory, Ahead
  <2>6. \A T : Good(its, T) => Good(its', T)
    BY <2>3, FileIds, GoodFrame
  <2>7. GoodInv'
    BY <1>0, <2>1, <2>3, <2>6 DEF GoodInv, Live, IsWhole, Count, Table, InMemory, Saving
  <2>8. MemoryInv'
    <3>1. Working' = Working
      BY <2>1 DEF Working
    <3>2. Retired'
      BY <2>1, <2>2, <2>3 DEF Retired, IsWhole, Table
    <3> QED
      BY <1>0, <2>1, <2>4, <3>1, <3>2 DEF MemoryInv, IsWhole, Count, Table, Ahead
  <2>9. WipeInv'
    <3>1. CASE boot = "first"
      BY <2>1, <3>1 DEF WipeInv
    <3>2. CASE boot = "again"
      <4>1. Wiped /\ ctx.active = 0 /\ ctx.scratch = 1
        BY <1>0, <2>2, <3>2 DEF WipeInv
      <4>2. Wiped'
        BY <1>0, <2>2, <2>3, <2>4, <4>1 DEF Wiped, IsWhole, Count, Table
      <4> QED
        BY <1>0, <2>1, <3>2, <4>2 DEF WipeInv, Saving
    <3> QED
      BY <1>0, <3>1, <3>2
  <2>10. UpdateInv'
    BY <1>0, <2>1 DEF UpdateInv, Saving, Writing, Removing
  <2> QED
    BY <2>5, <2>7, <2>8, <2>9, <2>10 DEF StoreInv
<1> QED
  BY <1>1, <1>2 DEF InitRemove

\* A power failure forgets the request and the table in memory.
LEMMA PowerFailStore ==
  ASSUME SoundBuilds, SstIInv, SstIInv', StoreInv, PowerFail
  PROVE  StoreInv'
<1>0. /\ pc' = "prepare" /\ boot' = "first" /\ undo' = NULL /\ req' = NULL
      /\ UNCHANGED <<rollback, faults, its, nvc>>
  BY DEF PowerFail
<1>1. CountInv'
  BY <1>0 DEF StoreInv, CountInv, Count, Table, InMemory, Ahead
<1>2. GoodInv'
  BY <1>0 DEF StoreInv, GoodInv, Live, IsWhole, Count, Table, InMemory, Saving
<1>3. MemoryInv' /\ WipeInv' /\ UpdateInv'
  BY <1>0 DEF MemoryInv, WipeInv, UpdateInv, InMemory, Saving, Writing, Removing
<1> QED
  BY <1>1, <1>2, <1>3 DEF StoreInv

\* Without tables there is nothing to be wrong.
LEMMA StoreInit ==
  ASSUME SoundBuilds, SstIInv, SstInit
  PROVE  StoreInv
<1>0. /\ pc = "prepare" /\ boot = "first" /\ undo = NULL /\ req = NULL
      /\ \A t \in TableIdx : Table(t) = NULL
      /\ nvc[1] = 0 /\ nvc[2] = 0 /\ nvc[3] = 0
  BY FileIds DEF SstInit, Table
<1>1. CountInv
  <2>1. ~rollback => faults = 0
    BY FaultsWithRollback DEF SstIInv, FaultInv, ServiceInv
  <2> QED
    BY <1>0, <2>1 DEF CountInv, InMemory, Ahead
<1>2. GoodInv
  BY <1>0 DEF GoodInv, Live, IsWhole, InMemory, Saving
<1>3. MemoryInv /\ WipeInv /\ UpdateInv
  BY <1>0 DEF MemoryInv, WipeInv, UpdateInv, InMemory, Saving, Writing, Removing
<1> QED
  BY <1>1, <1>2, <1>3 DEF StoreInv

\* A step that changes nothing.
LEMMA StoreStutter ==
  ASSUME StoreInv, UNCHANGED sstVars
  PROVE  StoreInv'
<1>0. /\ UNCHANGED <<rollback, faults, its, nvc, ctx, undo, boot, pc, req, fid, old>>
      /\ CountInv /\ GoodInv /\ MemoryInv /\ WipeInv /\ UpdateInv
  BY DEF StoreInv, sstVars
<1>1. \A t \in TableIdx :
        /\ Table(t)' = Table(t) /\ IsWhole(t)' = IsWhole(t) /\ Count(t)' = Count(t)
        /\ TableState(t)' = TableState(t)
  BY <1>0 DEF Table, IsWhole, Count, TableState, Authenticated
<1>2. /\ ValidTables' = ValidTables
      /\ (sst_set_active_object_table)' = sst_set_active_object_table
  BY <1>0 DEF ValidTables, sst_set_active_object_table, TableState, Authenticated, Table
<1>3. InMemory' = InMemory /\ Working' = Working
  BY <1>0 DEF InMemory, Working
<1>4. CountInv'
  BY <1>0 DEF CountInv, InMemory, Count, Table
<1>5. MemoryInv'
  <2>1. Retired => Retired'
    BY <1>0 DEF Retired, IsWhole, Count, Table
  <2> QED
    BY <1>0, <1>2, <1>3, <2>1 DEF MemoryInv, IsWhole, Count, Table
<1>6. WipeInv'
  BY <1>0 DEF WipeInv, Wiped, IsWhole, Count, Table
<1>7. GoodInv'
  BY <1>0 DEF GoodInv, InMemory, Live, IsWhole, Count, Table
<1>8. UpdateInv'
  BY <1>0 DEF UpdateInv, Updated, NewAsset, MayChange
<1> QED
  BY <1>4, <1>5, <1>6, <1>7, <1>8 DEF StoreInv

\* Every step keeps the invariant of the refinement.
LEMMA StoreStep ==
  ASSUME SoundBuilds, SstIInv, SstIInv', StoreInv, [SstNext]_sstVars
  PROVE  StoreInv'
<1>1. CASE Prepare \/ InitRemove
  BY <1>1, PrepareStore, InitRemoveStore
<1>2. CASE Save \/ TableDelete \/ TableCreate \/ TableFill \/ Align \/ Aligned
  BY <1>2, SaveStore, TableBegunStore, TableFillStore, AlignStore, AlignedStore
<1>3. CASE Begin \/ Get \/ Set \/ FreeFid \/ ObjectCreate \/ ObjectFill \/ UndoObject
  BY <1>3, BeginStore, GetStore, SetStore, ObjectBegunStore, ObjectFillStore,
     UndoObjectStore
<1>4. CASE Remove \/ RemoveTable \/ RemoveObject \/ PowerFail
  BY <1>4, RemoveStore, RemoveTableStore, RemoveObjectStore, PowerFailStore
<1>5. CASE UNCHANGED sstVars
  BY <1>5, StoreStutter
<1> QED
  BY <1>1, <1>2, <1>3, <1>4, <1>5 DEF SstNext
-----------------------------------------------------------------------------
(* Every step is a step of SstStore or a stutter.                           *)

Mapped == SstIInv /\ StoreInv /\ HealthFacts /\ AssetsFacts

\* The instance of SstStore counts as Sst does.
LEMMA SameCardinality == \A S : Store!Cardinality(S) = Cardinality(S)
BY Zenon DEF Store!Cardinality, Cardinality

\* A good table has as many objects with an asset as entries.
LEMMA StoredCount ==
  ASSUME NEW files, ObjectFiles(files), NEW T \in ObjectTable, Good(files, T)
  PROVE  LET S == {o \in Obj : AssetsIn(files, T)[o] # NULL}
             U == {i \in Idx : T[i] # NULL}
         IN /\ IsFiniteSet(U) /\ Cardinality(S) = Cardinality(U)
            /\ Cardinality(U) \in Nat
<1> DEFINE S == {o \in Obj : AssetsIn(files, T)[o] # NULL}
           U == {i \in Idx : T[i] # NULL}
           f == [i \in U |-> T[i].obj]
<1>1. IsFiniteSet(U)
  <2>1. IsFiniteSet(Idx)
    BY SstAssumption, FS_Interval DEF Idx
  <2> QED
    BY <2>1, FS_Subset
<1>2. \A i \in U : T[i] \in TableEntry /\ T[i].obj \in Obj /\ i \in EntriesIn(T, T[i].obj)
  BY DEF ObjectTable, TableEntry, EntriesIn
<1>3. \A i \in U : f[i] \in S
  BY <1>2, GoodAssets, NullAssumption
<1>4. \A o \in S : \E i \in U : f[i] = o
  <2> SUFFICES ASSUME NEW o \in S PROVE \E i \in U : f[i] = o
    OBVIOUS
  <2>1. EntriesIn(T, o) # {}
    BY GoodAssets
  <2> QED
    BY <2>1 DEF EntriesIn
<1>5. \A i, j \in U : f[i] = f[j] => i = j
  BY DEF Good, Unique
<1>6. f \in [U -> S]
  BY <1>3
<1> HIDE DEF S, U
<1>7. f \in Bijection(U, S)
  <2>1. f \in Injection(U, S)
    BY <1>5, <1>6 DEF Injection, IsInjective
  <2>2. f \in Surjection(U, S)
    BY <1>4, <1>6 DEF Surjection
  <2> QED
    BY <2>1, <2>2 DEF Bijection
<1>8. Cardinality(S) = Cardinality(U)
  BY <1>1, <1>7, FS_Bijection DEF ExistsBijection
<1>9. Cardinality(U) \in Nat
  BY <1>1, FS_CardinalityType
<1> QED
  BY <1>1, <1>8, <1>9 DEF S, U

\* What a save changes in the assets.
LEMMA CommitAssets ==
  ASSUME SstIInv, StoreInv, pc \in Saving, boot = "done"
  PROVE  AssetsIn(its, ctx.table) =
           [AssetsIn(its, undo) EXCEPT ![req.obj] = IF req.op = "set" THEN NewAsset ELSE NULL]
<1> DEFINE A == AssetsIn(its, undo)
           B == AssetsIn(its, ctx.table)
           v == IF req.op = "set" THEN NewAsset ELSE NULL
<1>0. /\ undo \in ObjectTable /\ ctx.table \in ObjectTable /\ ObjectFiles(its)
      /\ Good(its, undo) /\ Good(its, ctx.table)
      /\ req.op \in {"set", "remove"} /\ req.obj \in Obj /\ Updated
  BY SavingFacts, MemoryFacts, SavedUpdated DEF SstIInv, FilesInv, ObjectFiles
<1>1. /\ A \in [Obj -> Asset \cup {NULL}] /\ B \in [Obj -> Asset \cup {NULL}]
  BY <1>0, GoodAssets
<1>2. B[req.obj] = v
  BY <1>0, GoodAssets DEF Updated
<1>3. ASSUME NEW o \in Obj, o # req.obj PROVE B[o] = A[o]
  <2>1. EntriesIn(ctx.table, o) = EntriesIn(undo, o)
    <3>1. ASSUME NEW i \in EntriesIn(ctx.table, o) PROVE i \in EntriesIn(undo, o)
      <4>1. i \in Idx /\ ctx.table[i] # NULL /\ ctx.table[i].obj = o
        BY <3>1 DEF EntriesIn
      <4>2. req.op = "set" => i # SST_OBJECT_FS_ID_TO_IDX(fid)
        BY <1>3, <4>1, SavedUpdated DEF EntriesIn
      <4>3. ctx.table[i] = undo[i]
        BY <4>1, <4>2, SavedUpdated
      <4> QED
        BY <4>1, <4>3 DEF EntriesIn
    <3>2. ASSUME NEW i \in EntriesIn(undo, o) PROVE i \in EntriesIn(ctx.table, o)
      <4>1. i \in Idx /\ undo[i] # NULL /\ undo[i].obj = o
        BY <3>2 DEF EntriesIn
      <4>2. ctx.table[i] = undo[i]
        BY <1>3, <4>1, SavedUpdated
      <4> QED
        BY <4>1, <4>2 DEF EntriesIn
    <3> QED
      BY <3>1, <3>2
  <2> QED
    BY <1>0, <2>1, GoodAssets
<1> HIDE DEF A, B, v
<1>4. B = [A EXCEPT ![req.obj] = v]
  BY <1>0, <1>1, <1>2, <1>3
<1> QED
  BY <1>4 DEF A, B, v

\* A new object has room.
LEMMA CommitRoom ==
  ASSUME SstIInv, StoreInv, pc \in Saving, boot = "done",
         AssetsIn(its, undo)[req.obj] = NULL
  PROVE  /\ req.op = "set"
         /\ Cardinality({o \in Obj : AssetsIn(its, undo)[o] # NULL}) < NumAssets
<1> DEFINE U == {i \in Idx : undo[i] # NULL}
           k == SST_OBJECT_FS_ID_TO_IDX(fid)
<1>0. /\ undo \in ObjectTable /\ Good(its, undo) /\ ObjectFiles(its)
      /\ req.op \in {"set", "remove"} /\ req.obj \in Obj
  BY SavingFacts, SavedUpdated DEF SstIInv, FilesInv, ObjectFiles
<1>1. EntriesIn(undo, req.obj) = {}
  BY <1>0, GoodAssets, NullAssumption
<1>2. req.op = "set"
  BY <1>0, <1>1 DEF StoreInv, UpdateInv
<1>3. k \in Idx /\ undo[k] = NULL /\ ctx.table[k] # NULL
  BY <1>2, SavedUpdated DEF EntriesIn
<1>4. PICK n \in Idx : ctx.table[n] = NULL
  BY SavingFacts DEF SstIInv, RoomInv, HasRoom
<1>5. undo[n] = NULL
  BY <1>1, <1>4, SavedUpdated DEF EntriesIn
<1>6. /\ IsFiniteSet(U) /\ Cardinality(U) \in Nat
      /\ Cardinality({o \in Obj : AssetsIn(its, undo)[o] # NULL}) = Cardinality(U)
  BY <1>0, StoredCount
<1> DEFINE V == Idx \ {n}
           W == V \ {k}
<1>7. IsFiniteSet(Idx) /\ Cardinality(Idx) = NumAssets + 1
  BY SstAssumption, FS_Interval DEF Idx
<1>8. IsFiniteSet(V) /\ Cardinality(V) = NumAssets
  <2>1. IsFiniteSet(V)
    BY <1>7, FS_RemoveElement
  <2>2. Cardinality(V) = Cardinality(Idx) - 1
    BY <1>4, <1>7, FS_RemoveElement
  <2> HIDE DEF V
  <2> QED
    BY <1>7, <2>1, <2>2, SstAssumption
<1>9. IsFiniteSet(W) /\ Cardinality(W) = NumAssets - 1
  <2>1. k \in V
    BY <1>3, <1>4
  <2> HIDE DEF V, k
  <2> QED
    BY <1>8, <2>1, FS_RemoveElement
<1>10. U \subseteq W
  BY <1>3, <1>5
<1> HIDE DEF U, W
<1>11. Cardinality(U) <= NumAssets - 1
  BY <1>9, <1>10, FS_Subset
<1> QED
  BY <1>2, <1>6, <1>11, SstAssumption

\* A request to store one object more than there is room for.
LEMMA NoRoom ==
  ASSUME SstIInv, StoreInv, pc = "serve", req.obj \in Obj, Cardinality(FreeIdx) < Reserved
  PROVE  /\ AssetsIn(its, ctx.table)[req.obj] = NULL
         /\ Cardinality({o \in Obj : AssetsIn(its, ctx.table)[o] # NULL}) >= NumAssets
<1> DEFINE U == {i \in Idx : ctx.table[i] # NULL}
<1>0. /\ InMemory /\ ctx.table \in ObjectTable /\ Good(its, ctx.table) /\ ObjectFiles(its)
  <2>1. InMemory
    BY DEF InMemory
  <2> QED
    BY <2>1, MemoryFacts DEF SstIInv, FilesInv, ObjectFiles
<1>1. PICK n \in FreeIdx : TRUE
  BY <1>0 DEF SstIInv, RoomInv, HasRoom, FreeIdx
<1>2. IsFiniteSet(FreeIdx) /\ Cardinality(FreeIdx) \in Nat
  BY FreeIdxFinite, FS_CardinalityType
<1>3. Cardinality(FreeIdx) # 0
  BY <1>1, <1>2, FS_EmptySet
<1>4. ~Known /\ Cardinality(FreeIdx) = 1
  BY <1>2, <1>3 DEF Reserved
<1>5. EntriesIn(ctx.table, req.obj) = {}
  BY <1>0, <1>4, AssetRead DEF Known
<1>6. AssetsIn(its, ctx.table)[req.obj] = NULL
  BY <1>0, <1>5, GoodAssets
<1>7. U = Idx \ FreeIdx /\ FreeIdx \subseteq Idx /\ Idx \cap FreeIdx = FreeIdx
  BY DEF FreeIdx
<1>8. IsFiniteSet(Idx) /\ Cardinality(Idx) = NumAssets + 1
  BY SstAssumption, FS_Interval DEF Idx
<1>9. Cardinality(U) = NumAssets
  <2>1. Cardinality(Idx \ FreeIdx) = Cardinality(Idx) - Cardinality(Idx \cap FreeIdx)
    BY <1>8, FS_Difference
  <2>2. Cardinality(U) = Cardinality(Idx) - Cardinality(FreeIdx)
    BY <1>7, <2>1, Zenon
  <2> HIDE DEF U
  <2> QED
    BY <1>4, <1>8, <2>2, SstAssumption
<1>10. Cardinality({o \in Obj : AssetsIn(its, ctx.table)[o] # NULL}) = Cardinality(U)
  BY <1>0, StoredCount
<1> QED
  BY <1>6, <1>9, <1>10, SstAssumption

\* A step of a request that changes no table and no counter changes no asset.
LEMMA QuietSame ==
  ASSUME Mapped, Mapped', TablesKept
  PROVE  Assets' = Assets /\ Health' = Health
<1>0. /\ InMemory /\ boot = "done" /\ pc # "init_remove"
      /\ InMemory' /\ boot' = "done" /\ pc' # "init_remove"
  BY DEF TablesKept, InMemory, Writing
<1>1. Assets' = Assets
  <2>1. Assets = AssetsIn(its, Working) /\ Assets' = AssetsIn(its', Working)
    BY <1>0 DEF Mapped, AssetsFacts, TablesKept
  <2> QED
    BY <2>1, GoodFrame DEF TablesKept
<1>2. Health' = Health
  <2>1. Health = ActiveHealth /\ Health' = ActiveHealth'
    BY <1>0 DEF Mapped, HealthFacts
  <2>2. its'[SST_TABLE_FS_ID(ctx.active)] = its[SST_TABLE_FS_ID(ctx.active)]
    <3>1. ctx.active \in TableIdx /\ ctx.scratch = 1 - ctx.active
      BY <1>0, MemoryFacts DEF Mapped
    <3> QED
      BY <3>1 DEF TablesKept, TableIdx
  <2> QED
    BY <2>1, <2>2 DEF ActiveHealth, TablesKept, Count, Table
<1> QED
  BY <1>1, <1>2

\* The asset of the object that the request names, while no change of it is
\* under way.
LEMMA RequestAsset ==
  ASSUME Mapped, InMemory, boot = "done", pc \notin Saving, req.obj \in Obj
  PROVE  /\ Assets = AssetsIn(its, ctx.table)
         /\ Assets[req.obj] = AssetOf(req.obj)
         /\ Known => AssetOf(req.obj) \in Asset /\ AssetOf(req.obj) # NULL
         /\ ~Known => AssetOf(req.obj) = NULL
<1>1. Assets = AssetsIn(its, ctx.table)
  BY NothingToUndo DEF Mapped, AssetsFacts
<1>2. /\ AssetOf(req.obj) = AssetsIn(its, ctx.table)[req.obj]
      /\ Known => AssetOf(req.obj) \in Asset /\ AssetOf(req.obj) # NULL
      /\ ~Known => AssetOf(req.obj) = NULL
  BY AssetRead DEF Mapped, Known
<1> QED
  BY <1>1, <1>2

\* A request returns.
LEMMA ReturnSim ==
  ASSUME Mapped, Mapped', TablesKept, req \in Job,
         NEW status \in Status, NEW data \in Asset \cup {NULL}, Return(status, data),
         Store!MayReply(status, data), faults' \in {faults, faults - 1}
  PROVE  Store!Return
<1>1. req # NULL /\ req' = NULL /\ reply' = [status |-> status, data |-> data]
  BY AbsentAssumption DEF Return
<1>2. reply'.status = status /\ reply'.data = data /\ reply' # NULL
  <2>1. reply' \in Reply
    BY <1>1 DEF Reply
  <2> QED
    BY <1>1, <2>1, NullAssumption
<1>3. Assets' = Assets /\ Health' = Health
  BY QuietSame
<1> QED
  BY <1>1, <1>2, <1>3 DEF Store!Return

\* An update fails.
LEMMA GenericSim ==
  ASSUME Mapped, Mapped', TablesKept, req \in Job, req.op # "get",
         Return("PSA_ERROR_GENERIC_ERROR", NULL), faults' \in {faults, faults - 1}
  PROVE  Store!Return
<1>1. Store!MayReply("PSA_ERROR_GENERIC_ERROR", NULL)
  BY DEF Store!MayReply
<1> QED
  BY <1>1, ReturnSim DEF Status

\* A step of a request that clients do not see.
LEMMA HiddenSim ==
  ASSUME Mapped, Mapped', TablesKept, UNCHANGED <<req, reply, faults>>
  PROVE  UNCHANGED Store!storeVars
<1>1. Assets' = Assets /\ Health' = Health
  BY QuietSame
<1> QED
  BY <1>1 DEF Store!storeVars

\* A request begins in both.
LEMMA BeginSim ==
  ASSUME SoundBuilds, Mapped, Mapped', Begin
  PROVE  Store!Begin
<1>1. TablesKept
  BY BeginStore DEF Mapped
<1>2. Assets' = Assets /\ Health' = Health
  BY <1>1, QuietSame
<1>3. pc = "ready" /\ InMemory /\ boot = "done" /\ req = NULL
  BY DEF Begin, InMemory, Mapped, SstIInv, RequestInv, StoreInv, UpdateInv
<1>4. Assets # LOST
  BY <1>3, AbsentAssumption DEF Mapped, AssetsFacts
<1>5. req' \in Store!Job /\ reply' = NULL /\ faults' = faults
  BY DEF Begin, Job, Store!Job, Store!SetJob, Store!GetJob
<1> QED
  BY <1>2, <1>3, <1>4, <1>5 DEF Store!Begin

\* The state in which a request is served.
LEMMA ServeFacts ==
  ASSUME Mapped, pc = "serve"
  PROVE  /\ InMemory /\ boot = "done" /\ pc \notin Saving /\ req \in Job /\ req.obj \in Obj
<1>1. InMemory /\ boot = "done" /\ pc \notin Saving /\ req \in Job
  BY DEF InMemory, Saving, Mapped, SstIInv, RequestInv
<1> QED
  BY <1>1 DEF Job

\* A get request returns what is stored.
LEMMA GetSim ==
  ASSUME SoundBuilds, Mapped, Mapped', Get
  PROVE  Store!Return
<1>0. TablesKept
  BY GetStore DEF Mapped
<1>1. pc = "serve" /\ req.op = "get"
  BY DEF Get, Serve
<1>2. /\ req \in Job /\ Assets[req.obj] = AssetOf(req.obj)
      /\ Known => AssetOf(req.obj) \in Asset /\ AssetOf(req.obj) # NULL
      /\ ~Known => AssetOf(req.obj) = NULL
  BY <1>1, ServeFacts, RequestAsset
<1>3. CASE ~Known
  <2>1. Return("PSA_ERROR_DOES_NOT_EXIST", NULL) /\ faults' = faults
    BY <1>3 DEF Get, Refuse, Unserved
  <2>2. Store!MayReply("PSA_ERROR_DOES_NOT_EXIST", NULL)
    BY <1>1, <1>2, <1>3 DEF Store!MayReply
  <2> QED
    BY <1>0, <1>2, <2>1, <2>2, ReturnSim DEF Status
<1>4. CASE Known /\ req.beyond
  <2>1. Return("PSA_ERROR_INVALID_ARGUMENT", NULL) /\ faults' = faults
    BY <1>2, <1>4 DEF Get, Refuse, Unserved
  <2>2. Store!MayReply("PSA_ERROR_INVALID_ARGUMENT", NULL)
    BY <1>1, <1>2, <1>4 DEF Store!MayReply
  <2> QED
    BY <1>0, <1>2, <2>1, <2>2, ReturnSim DEF Status
<1>5. CASE Known /\ ~req.beyond
  <2>1. Return("PSA_SUCCESS", AssetOf(req.obj)) /\ faults' = faults
    BY <1>2, <1>5 DEF Get, Unserved
  <2>2. Store!MayReply("PSA_SUCCESS", AssetOf(req.obj))
    BY <1>1, <1>2, <1>5 DEF Store!MayReply
  <2> QED
    BY <1>0, <1>2, <1>5, <2>1, <2>2, ReturnSim DEF Status
<1> QED
  BY <1>3, <1>4, <1>5

\* A set request is refused for a reason of the store, or goes on.
LEMMA SetSim ==
  ASSUME SoundBuilds, Mapped, Mapped', Set
  PROVE  Store!Return \/ UNCHANGED Store!storeVars
<1>0. TablesKept
  BY SetStore DEF Mapped
<1>1. pc = "serve" /\ req.op = "set"
  BY DEF Set, Serve
<1>2. /\ req \in Job /\ req.obj \in Obj /\ Assets[req.obj] = AssetOf(req.obj)
      /\ Assets = AssetsIn(its, ctx.table)
      /\ Known => AssetOf(req.obj) \in Asset /\ AssetOf(req.obj) # NULL
      /\ ~Known => AssetOf(req.obj) = NULL
  BY <1>1, ServeFacts, RequestAsset
<1>3. ASSUME NEW status \in Status, Refuse(status), Store!MayReply(status, NULL)
      PROVE  Store!Return
  <2>1. Return(status, NULL) /\ faults' = faults
    BY <1>3 DEF Refuse, Unserved
  <2> QED
    BY <1>0, <1>2, <1>3, <2>1, ReturnSim
<1>4. CASE req.val = TooBig /\ Refuse("PSA_ERROR_INVALID_ARGUMENT")
  <2>1. Store!MayReply("PSA_ERROR_INVALID_ARGUMENT", NULL)
    BY <1>1, <1>4 DEF Store!MayReply
  <2> QED
    BY <1>3, <1>4, <2>1 DEF Status
<1>5. CASE Known /\ AssetOf(req.obj) = NULL
  BY <1>2, <1>5
<1>6. CASE /\ Known /\ AssetOf(req.obj) # NULL /\ AssetOf(req.obj).once
           /\ Refuse("PSA_ERROR_NOT_PERMITTED")
  <2>1. Store!MayReply("PSA_ERROR_NOT_PERMITTED", NULL)
    BY <1>1, <1>2, <1>6 DEF Store!MayReply
  <2> QED
    BY <1>3, <1>6, <2>1 DEF Status
<1>7. CASE Cardinality(FreeIdx) < Reserved /\ Refuse("PSA_ERROR_INSUFFICIENT_STORAGE")
  <2>1. Assets[req.obj] = NULL /\ Cardinality({o \in Obj : Assets[o] # NULL}) >= NumAssets
    BY <1>1, <1>2, <1>7, NoRoom DEF Mapped
  <2>2. Store!Cardinality(Store!Stored) >= NumAssets
    BY <2>1, SameCardinality DEF Store!Stored
  <2>3. Store!MayReply("PSA_ERROR_INSUFFICIENT_STORAGE", NULL)
    BY <1>1, <2>1, <2>2 DEF Store!MayReply
  <2> QED
    BY <1>3, <1>7, <2>3 DEF Status
<1>8. CASE UNCHANGED <<req, reply>> /\ Unserved
  BY <1>0, <1>8, HiddenSim DEF Unserved
<1> QED
  BY <1>4, <1>5, <1>6, <1>7, <1>8, SetCases

\* A remove request is refused for a reason of the store, or goes on.
LEMMA RemoveSim ==
  ASSUME SoundBuilds, Mapped, Mapped', Remove
  PROVE  Store!Return \/ UNCHANGED Store!storeVars
<1>0. TablesKept
  BY RemoveStore DEF Mapped
<1>1. pc = "serve" /\ req.op = "remove"
  BY DEF Remove, Serve
<1>2. /\ req \in Job /\ Assets[req.obj] = AssetOf(req.obj)
      /\ Known => AssetOf(req.obj) \in Asset /\ AssetOf(req.obj) # NULL
      /\ ~Known => AssetOf(req.obj) = NULL
  BY <1>1, ServeFacts, RequestAsset
<1>3. ASSUME NEW status \in Status, Refuse(status), Store!MayReply(status, NULL)
      PROVE  Store!Return
  <2>1. Return(status, NULL) /\ faults' = faults
    BY <1>3 DEF Refuse, Unserved
  <2> QED
    BY <1>0, <1>2, <1>3, <2>1, ReturnSim
<1>4. CASE ~Known /\ Refuse("PSA_ERROR_DOES_NOT_EXIST")
  <2>1. Store!MayReply("PSA_ERROR_DOES_NOT_EXIST", NULL)
    BY <1>1, <1>2, <1>4 DEF Store!MayReply
  <2> QED
    BY <1>3, <1>4, <2>1 DEF Status
<1>5. CASE Known /\ AssetOf(req.obj) = NULL
  BY <1>2, <1>5
<1>6. CASE /\ Known /\ AssetOf(req.obj) # NULL /\ AssetOf(req.obj).once
           /\ Refuse("PSA_ERROR_NOT_PERMITTED")
  <2>1. Store!MayReply("PSA_ERROR_NOT_PERMITTED", NULL)
    BY <1>1, <1>2, <1>6 DEF Store!MayReply
  <2> QED
    BY <1>3, <1>6, <2>1 DEF Status
<1>7. CASE UNCHANGED <<rollback, faults, its, nvc, boot, req, fid, reply>>
  BY <1>0, <1>7, HiddenSim
<1> QED
  BY <1>4, <1>5, <1>6, <1>7, RemoveCases

\* Writing the new object is not seen.
LEMMA ObjectSim ==
  ASSUME SoundBuilds, Mapped, Mapped', FreeFid \/ ObjectCreate \/ ObjectFill
  PROVE  Store!Return \/ UNCHANGED Store!storeVars
<1>0. TablesKept
  BY ObjectBegunStore, ObjectFillStore DEF Mapped
<1>1. pc \in Writing
  BY DEF FreeFid, ObjectCreate, ObjectFill, Writing
<1>2. req \in Job /\ req.op # "get"
  BY <1>1, WritingFacts DEF Mapped
<1>3. CASE (Fault \/ FailedFill(fid)) /\ Return("PSA_ERROR_GENERIC_ERROR", NULL)
  <2>1. faults' \in {faults, faults - 1}
    BY <1>3 DEF Fault, FailedFill
  <2> QED
    BY <1>0, <1>2, <1>3, <2>1, GenericSim
<1>4. CASE ~((Fault \/ FailedFill(fid)) /\ Return("PSA_ERROR_GENERIC_ERROR", NULL))
  <2>1. UNCHANGED <<req, reply, faults>>
    BY <1>4 DEF FreeFid, ObjectCreate, ObjectFill, RemoveFile, SetFile, request
  <2> QED
    BY <1>0, <2>1, HiddenSim
<1> QED
  BY <1>3, <1>4

\* An update that could not be saved fails.
LEMMA UndoObjectSim ==
  ASSUME SoundBuilds, Mapped, Mapped', UndoObject
  PROVE  Store!Return
<1>0. TablesKept
  BY UndoObjectStore DEF Mapped
<1>1. req \in Job /\ req.op # "get"
  BY DEF UndoObject, Mapped, SstIInv, RequestInv, StoreInv, UpdateInv
<1>2. faults' \in {faults, faults - 1}
  BY DEF UndoObject, SetFile, Fault
<1> QED
  BY <1>0, <1>1, <1>2, GenericSim DEF UndoObject

\* The removal of old data is not seen; then the request returns.
LEMMA RemovingSim ==
  ASSUME SoundBuilds, Mapped, Mapped', RemoveTable \/ RemoveObject
  PROVE  Store!Return \/ UNCHANGED Store!storeVars
<1>0. TablesKept
  BY RemoveTableStore, RemoveObjectStore DEF Mapped
<1>1. pc \in Removing /\ boot = "done" /\ InMemory /\ pc \notin Saving /\ req \in Job
  BY DEF RemoveTable, RemoveObject, Removing, Saving, InMemory, Mapped, SstIInv, RequestInv
<1>2. req.op \in {"set", "remove"} /\ req.obj \in Obj /\ Updated
  BY <1>1 DEF Mapped, StoreInv, UpdateInv, Job
<1>3. CASE Fault /\ Return("PSA_ERROR_GENERIC_ERROR", NULL)
  <2>1. faults' \in {faults, faults - 1}
    BY <1>3 DEF Fault
  <2> QED
    BY <1>0, <1>1, <1>2, <1>3, <2>1, GenericSim
<1>4. CASE Return("PSA_SUCCESS", NULL) /\ faults' = faults
  <2>1. Assets = AssetsIn(its, ctx.table)
    BY <1>1, <1>2, RequestAsset
  <2>2. Assets[req.obj] = IF req.op = "set" THEN NewAsset ELSE NULL
    <3>1. ctx.table \in ObjectTable /\ Good(its, ctx.table) /\ ObjectFiles(its)
      BY <1>1, MemoryFacts DEF Mapped, SstIInv, FilesInv, ObjectFiles
    <3> QED
      BY <1>2, <2>1, <3>1, GoodAssets DEF Updated
  <2>3. Store!MayReply("PSA_SUCCESS", NULL)
    BY <1>2, <2>2 DEF Store!MayReply, Store!Target, NewAsset
  <2> QED
    BY <1>0, <1>1, <1>4, <2>3, ReturnSim DEF Status
<1>5. CASE UNCHANGED request /\ faults' = faults
  BY <1>0, <1>5, HiddenSim DEF request
<1>6. ASSUME RemoveTable PROVE its[SST_TABLE_FS_ID(ctx.scratch)] # NULL
  BY <1>1, <1>6 DEF RemoveTable, Mapped, StoreInv, MemoryInv, Table
<1> QED
  BY <1>3, <1>4, <1>5, <1>6 DEF RemoveTable, RemoveObject, SetFile, RemoveFile

\* While the store is wiped.
LEMMA WipingSim ==
  ASSUME Mapped, Mapped', boot = "wipe", boot' = "wipe", UNCHANGED <<req, reply>>,
         faults' \in {faults, faults - 1}
  PROVE  Store!Wipe
<1>1. Health = "wiping" /\ Health' = "wiping" /\ Assets' \in Store!Stores
  BY DEF Mapped, HealthFacts, AssetsFacts
<1> QED
  BY <1>1 DEF Store!Wipe

\* sst_object_table_save_table() fails.
LEMMA SaveFailedSim ==
  ASSUME SoundBuilds, Mapped, Mapped', pc \in Saving, rollback, SaveFailed,
         UNCHANGED <<rollback, nvc>>, faults' \in {faults, faults - 1},
         its' \in {its, [its EXCEPT ![WrittenTable] = NULL]}
  PROVE  Store!StoreNext
<1>1. CASE boot # "done"
  <2>1. boot = "wipe" /\ boot' = "wipe" /\ UNCHANGED <<req, reply>>
    BY <1>1, SavingFacts DEF Mapped, SaveFailed, request
  <2> QED
    BY <2>1, WipingSim DEF Store!StoreNext
<1>2. CASE boot = "done"
  <2>1. TablesKept
    BY <1>2, SaveFailedStore DEF Mapped
  <2>2. req \in Job /\ req.op # "get" /\ req # NULL
    BY <1>2, SavedUpdated, AbsentAssumption DEF Mapped
  <2>3. CASE req.op = "set"
    <3>1. UNCHANGED <<req, reply>>
      BY <1>2, <2>3 DEF SaveFailed, request
    <3>2. Store!Spend
      BY <2>1, <2>2, <3>1, QuietSame DEF Store!Spend
    <3> QED
      BY <3>2 DEF Store!StoreNext
  <2>4. CASE req.op # "set"
    <3>1. Return("PSA_ERROR_GENERIC_ERROR", NULL)
      BY <1>2, <2>4 DEF SaveFailed
    <3> QED
      BY <2>1, <2>2, <3>1, GenericSim DEF Store!StoreNext
  <2> QED
    BY <2>3, <2>4
<1> QED
  BY <1>1, <1>2

\* An error of internal trusted storage in a save.
LEMMA SaveFaultSim ==
  ASSUME SoundBuilds, Mapped, Mapped', pc \in Saving, SaveFailed,
         Fault \/ FailedFill(WrittenTable), UNCHANGED <<rollback, nvc>>
  PROVE  Store!StoreNext
<1>1. rollback
  BY FaultsWithRollback DEF Mapped, SstIInv, FaultInv, ServiceInv, Fault, FailedFill
<1> QED
  BY <1>1, SaveFailedSim DEF Fault, FailedFill

\* An update uses up a value of counter 1.
LEMMA SaveSim ==
  ASSUME SoundBuilds, Mapped, Mapped', Save
  PROVE  Store!StoreNext
<1>0. pc = "save" /\ pc \in Saving /\ UNCHANGED <<rollback, faults, its>>
  BY DEF Save, Saving
<1>1. CASE rollback /\ nvc[1] = NvcMax
  BY <1>0, <1>1, SaveFailedSim DEF Save
<1>2. CASE ~(rollback /\ nvc[1] = NvcMax)
  <2>1. /\ pc' = "table_delete" /\ UNCHANGED <<undo, boot, req, reply>>
        /\ IF rollback THEN nvc' = [nvc EXCEPT ![1] = @ + 1] /\ UNCHANGED ctx
           ELSE ctx' = [ctx EXCEPT !.count = NextCount(@)] /\ UNCHANGED nvc
    BY <1>2 DEF Save, request
  <2>2. CASE boot = "wipe"
    BY <1>0, <2>1, <2>2, WipingSim DEF Store!StoreNext
  <2>3. CASE boot = "done"
    <3>1. /\ ctx \in Context /\ ctx.active \in TableIdx /\ InMemory /\ undo # NULL
          /\ nvc \in [1..3 -> Nat] /\ nvc[1] \in Nat /\ nvc[2] \in Nat /\ nvc[3] \in Nat
      BY <1>0, SavingFacts DEF Mapped
    <3>2. /\ ctx'.active = ctx.active /\ nvc'[2] = nvc[2] /\ nvc'[3] = nvc[3]
          /\ nvc'[1] = IF rollback THEN nvc[1] + 1 ELSE nvc[1]
      BY <2>1, <3>1 DEF Context
    <3>3. /\ Health = ActiveHealth /\ Health' = ActiveHealth'
          /\ Assets = AssetsIn(its, Working) /\ Assets' = AssetsIn(its', Working')
      BY <1>0, <2>1, <2>3 DEF Mapped, HealthFacts, AssetsFacts, InMemory
    <3>4. Assets' = Assets
      BY <1>0, <2>1, <3>1, <3>3 DEF Working
    <3>5. rollback => /\ nvc[2] = nvc[3] /\ Count(ctx.active) <= nvc[3] /\ nvc[3] <= nvc[1]
                      /\ Count(ctx.active) \in Nat /\ 1 <= Count(ctx.active)
      <4>1. Table(ctx.active) # NULL /\ Count(ctx.active) \in Nat /\ nvc[3] <= nvc[1]
        BY <2>3, <3>1, MemoryFacts DEF Mapped, IsWhole
      <4> QED
        BY <1>0, <2>3, <3>1, <4>1 DEF Mapped, StoreInv, MemoryInv, CountInv
    <3>6. Health' = Health \/ (Health = "sound" /\ Health' = "spent")
      <4>1. Count(ctx.active)' = Count(ctx.active)
        BY <1>0, <3>2 DEF Count, Table
      <4> QED
        BY <1>0, <3>1, <3>2, <3>3, <3>5, <4>1 DEF ActiveHealth
    <3>7. req # NULL /\ req.op # "get"
      BY <1>0, <2>3, SavedUpdated, AbsentAssumption DEF Mapped
    <3>8. Store!Spend
      BY <1>0, <2>1, <3>4, <3>6, <3>7 DEF Store!Spend
    <3> QED
      BY <3>8 DEF Store!StoreNext
  <2> QED
    BY <1>0, <2>2, <2>3, SavingFacts DEF Mapped
<1> QED
  BY <1>1, <1>2

\* Writing the new table is not seen until it is complete.
LEMMA TableBegunSim ==
  ASSUME SoundBuilds, Mapped, Mapped', TableDelete \/ TableCreate
  PROVE  Store!StoreNext \/ UNCHANGED Store!storeVars
<1>0. /\ pc \in {"table_delete", "table_create"} /\ pc \in Saving
      /\ UNCHANGED <<rollback, nvc>>
  BY DEF TableDelete, TableCreate, Saving
<1>1. CASE Fault /\ SaveFailed
  BY <1>0, <1>1, SaveFaultSim
<1>2. CASE ~(Fault /\ SaveFailed)
  <2> DEFINE c == IF pc = "table_delete" THEN NULL ELSE Part(SavedTable)
  <2>1. /\ its' = [its EXCEPT ![SST_TABLE_FS_ID(ctx.scratch)] = c]
        /\ pc' \in {"table_create", "table_fill"}
        /\ UNCHANGED <<faults, ctx, undo, boot, req, reply>>
    BY <1>0, <1>2 DEF TableDelete, TableCreate, RemoveFile, SetFile, WrittenTable,
                      service, request
  <2>2. CASE boot = "wipe"
    BY <2>1, <2>2, WipingSim DEF Store!StoreNext
  <2>3. CASE boot = "done"
    <3>1. c \in TableFile \cup {NULL}
      BY <1>0, SavedTableType DEF Part, Mapped
    <3>2. /\ FilesInv /\ ctx.active \in TableIdx /\ ctx.scratch \in TableIdx
          /\ ctx.scratch = 1 - ctx.active /\ InMemory
      BY <1>0, SavingFacts DEF Mapped
    <3> HIDE DEF c
    <3>3. /\ its'[SST_TABLE_FS_ID(ctx.active)] = its[SST_TABLE_FS_ID(ctx.active)]
          /\ \A g \in ObjectId : its'[g] = its[g]
      <4>1. /\ \A u \in TableIdx : its'[SST_TABLE_FS_ID(u)] =
                                    IF u = ctx.scratch THEN c ELSE its[SST_TABLE_FS_ID(u)]
            /\ \A g \in ObjectId : its'[g] = its[g]
        BY <2>1, <3>1, <3>2, TableWritten DEF Table
      <4>2. ctx.active # ctx.scratch
        BY <3>2 DEF TableIdx
      <4> QED
        BY <3>2, <4>1, <4>2
    <3>4. /\ Health = ActiveHealth /\ Health' = ActiveHealth'
          /\ Assets = AssetsIn(its, Working) /\ Assets' = AssetsIn(its', Working')
      BY <1>0, <2>1, <2>3 DEF Mapped, HealthFacts, AssetsFacts, InMemory
    <3>5. Health' = Health
      BY <1>0, <2>1, <3>3, <3>4 DEF ActiveHealth, Count, Table
    <3>6. Assets' = Assets
      <4>1. Working' = Working
        BY <2>1 DEF Working
      <4> QED
        BY <3>3, <3>4, <4>1, FileIds, GoodFrame
    <3> QED
      BY <2>1, <3>5, <3>6 DEF Store!storeVars
  <2> QED
    BY <1>0, <2>2, <2>3, SavingFacts DEF Mapped
<1> QED
  BY <1>1, <1>2

\* The step that changes an asset: the new table is complete.
LEMMA TableFillSim ==
  ASSUME SoundBuilds, Mapped, Mapped', TableFill
  PROVE  Store!StoreNext
<1>0. pc = "table_fill" /\ pc \in Saving /\ UNCHANGED <<rollback, nvc>>
  BY DEF TableFill, Saving
<1>1. CASE FailedFill(WrittenTable) /\ SaveFailed
  BY <1>0, <1>1, SaveFaultSim
<1>2. CASE ~(FailedFill(WrittenTable) /\ SaveFailed)
  <2> DEFINE c == Whole(SavedTable)
  <2>1. /\ its' = [its EXCEPT ![SST_TABLE_FS_ID(ctx.scratch)] = c]
        /\ ctx' = [ctx EXCEPT !.active = ctx.scratch, !.scratch = ctx.active]
        /\ undo' = NULL /\ pc' = "align" /\ UNCHANGED <<faults, boot, req, reply>>
    BY <1>0, <1>2 DEF TableFill, SetFile, WrittenTable, request
  <2>2. CASE boot = "wipe"
    BY <2>1, <2>2, WipingSim DEF Store!StoreNext
  <2>3. CASE boot = "done"
    <3>1. c \in TableFile \cup {NULL}
      BY <1>0, SavedTableType DEF Whole, Mapped
    <3>2. /\ FilesInv /\ ctx.scratch \in TableIdx /\ ctx \in Context /\ InMemory
          /\ Working = undo
      BY <1>0, SavingFacts DEF Mapped
    <3> HIDE DEF c
    <3>3. \A g \in ObjectId : its'[g] = its[g]
      BY <2>1, <3>1, <3>2, TableWritten
    <3>4. ctx'.table = ctx.table /\ Working' = ctx.table
      BY <2>1, <3>2 DEF Context, Working
    <3>5. InMemory' /\ boot' = "done"
      BY <2>1, <2>3 DEF InMemory
    <3>6. Health' = "sound"
      <4>1. Health' = ActiveHealth'
        BY <2>1, <3>5 DEF Mapped, HealthFacts
      <4>2. rollback => Count(ctx.active)' = nvc'[1]
        BY <1>0, <2>1, <3>5 DEF Mapped, StoreInv, MemoryInv
      <4> QED
        BY <1>0, <4>1, <4>2 DEF ActiveHealth
    <3>7. Assets = AssetsIn(its, undo) /\ Assets' = AssetsIn(its', ctx.table)
      BY <2>3, <3>2, <3>4, <3>5 DEF Mapped, AssetsFacts
    <3>8. Assets' = AssetsIn(its, ctx.table)
      BY <3>3, <3>7, FileIds, GoodFrame
    <3>9. Assets' = [Assets EXCEPT ![req.obj] = Store!Target]
      BY <1>0, <2>3, <3>7, <3>8, CommitAssets DEF Store!Target, NewAsset, Mapped
    <3>10. req # NULL /\ req.op # "get" /\ req.obj \in Obj
      BY <1>0, <2>3, SavedUpdated, AbsentAssumption DEF Mapped
    <3>11. LET a == Assets[req.obj] IN
           IF a = NULL THEN req.op = "set" /\ Store!Cardinality(Store!Stored) < NumAssets
           ELSE ~a.once
      <4>1. CASE Assets[req.obj] = NULL
        BY <1>0, <2>3, <3>7, <4>1, CommitRoom, SameCardinality DEF Mapped, Store!Stored
      <4>2. CASE Assets[req.obj] # NULL
        <5>1. undo \in ObjectTable /\ Good(its, undo) /\ ObjectFiles(its) /\ MayChange(undo)
          BY <1>0, <2>3, SavingFacts
             DEF Mapped, SstIInv, FilesInv, ObjectFiles, StoreInv, UpdateInv
        <5>2. PICK i \in EntriesIn(undo, req.obj) : TRUE
          BY <3>7, <3>10, <4>2, <5>1, GoodAssets
        <5>3. Assets[req.obj] = its[SST_OBJECT_FS_ID(i)].data
          BY <3>7, <3>10, <5>1, <5>2, GoodAssets
        <5> QED
          BY <4>2, <5>1, <5>2, <5>3 DEF MayChange
      <4> QED
        BY <4>1, <4>2
    <3>12. Store!Commit
      BY <2>1, <3>6, <3>9, <3>10, <3>11 DEF Store!Commit
    <3> QED
      BY <3>12 DEF Store!StoreNext
  <2> QED
    BY <1>0, <2>2, <2>3, SavingFacts DEF Mapped
<1> QED
  BY <1>1, <1>2

\* What is in flash decides what a boot finds.
LEMMA FlashSame ==
  ASSUME UNCHANGED <<rollback, its, nvc>>
  PROVE  /\ Persistent' = Persistent /\ ValidTables' = ValidTables
         /\ boot \in {"first", "done"} /\ boot' \in {"first", "done"} => Health' = Health
<1>1. \A t \in TableIdx : Table(t)' = Table(t) /\ TableState(t)' = TableState(t)
  BY DEF Table, TableState, Authenticated
<1>2. ValidTables' = ValidTables
  BY <1>1 DEF ValidTables
<1>3. Persistent' = Persistent
  BY DEF Persistent, AssetsOf, sst_encrypted_object_read, ValidTables, TableState,
         Authenticated, Table, sst_set_active_object_table
<1>4. ASSUME boot \in {"first", "done"}, boot' \in {"first", "done"}
      PROVE  Health' = Health
  <2>1. (\E t \in ValidTables' : TableState(t)' # "NVC_3_VALID")
          <=> (\E t \in ValidTables : TableState(t) # "NVC_3_VALID")
    BY <1>1, <1>2 DEF ValidTables
  <2> QED
    BY <1>2, <1>4, <2>1 DEF Health
<1> QED
  BY <1>2, <1>3, <1>4

\* sst_object_table_align_nv_counters(): a boot after an update that did not
\* complete leaves no counter with the value of the table.
LEMMA AlignSim ==
  ASSUME Mapped, Mapped', Align
  PROVE  Store!StoreNext \/ UNCHANGED Store!storeVars
<1>0. /\ pc = "align" /\ InMemory /\ nvc'[1] = nvc[1]
      /\ UNCHANGED <<rollback, faults, its, ctx, undo, boot, pc, req, fid, old, reply>>
      /\ \/ nvc[2] < nvc[1] /\ nvc'[2] = nvc[2] + 1 /\ nvc'[3] = nvc[3]
         \/ /\ nvc[2] = nvc[1] /\ nvc[3] < nvc[1]
            /\ nvc'[2] = nvc[2] /\ nvc'[3] = nvc[3] + 1
      /\ boot \in {"first", "wipe", "again", "done"}
  BY AlignCounters DEF Mapped, SstIInv, ServiceInv
<1>1. CASE boot = "wipe"
  BY <1>0, <1>1, WipingSim DEF Store!StoreNext
<1>2. CASE boot # "wipe"
  <2>1. Assets' = Assets
    <3>1. Assets = AssetsIn(its, Working) /\ Assets' = AssetsIn(its', Working')
      BY <1>0, <1>2 DEF Mapped, AssetsFacts, InMemory
    <3> QED
      BY <1>0, <3>1 DEF Working
  <2>2. CASE boot = "again"
    <3>1. Health = "wiping" /\ Health' = "wiping"
      BY <1>0, <2>2 DEF Mapped, HealthFacts
    <3> QED
      BY <1>0, <2>1, <3>1 DEF Store!storeVars
  <2>3. CASE boot \in {"first", "done"}
    <3>1. Health = ActiveHealth /\ Health' = ActiveHealth'
      BY <1>0, <2>3 DEF Mapped, HealthFacts, InMemory
    <3>2. Count(ctx.active)' = Count(ctx.active)
      BY <1>0 DEF Count, Table
    <3>3. /\ nvc[1] \in Nat /\ nvc[2] \in Nat /\ nvc[3] \in Nat
          /\ nvc[3] <= nvc[2] /\ nvc[2] <= nvc[1]
      BY <1>0, MemoryFacts DEF Mapped
    <3>4. boot = "done" => ~rollback \/ Count(ctx.active) = nvc[1]
      BY <1>0 DEF Mapped, StoreInv, MemoryInv
    <3>5. Health' = Health \/ (boot = "first" /\ Health = "spent" /\ Health' = "risk")
      BY <1>0, <2>3, <3>1, <3>2, <3>3, <3>4 DEF ActiveHealth
    <3>6. CASE Health' = Health
      BY <1>0, <2>1, <3>6 DEF Store!storeVars
    <3>7. CASE boot = "first" /\ Health = "spent" /\ Health' = "risk"
      <4>1. req = NULL
        BY <3>7 DEF Mapped, StoreInv, UpdateInv
      <4>2. Store!Boot
        BY <1>0, <2>1, <3>7, <4>1 DEF Store!Boot
      <4> QED
        BY <4>2 DEF Store!StoreNext
    <3> QED
      BY <3>5, <3>6, <3>7
  <2> QED
    BY <1>0, <1>2, <2>2, <2>3
<1> QED
  BY <1>1, <1>2

\* The end of a save, of a boot, and of the wipe of the store.
LEMMA AlignedSim ==
  ASSUME Mapped, Mapped', Aligned
  PROVE  Store!StoreNext \/ UNCHANGED Store!storeVars
<1>0. /\ pc = "align" /\ InMemory
      /\ UNCHANGED <<rollback, faults, its, nvc, ctx, undo, req, fid, old, reply>>
  BY DEF Aligned, request, InMemory
<1>1. \/ boot = "wipe" /\ pc' = "prepare" /\ boot' = "again"
      \/ boot \in {"first", "again"} /\ pc' = "ready" /\ boot' = "done"
      \/ boot = "done" /\ pc' = "remove_table" /\ boot' = "done"
  BY <1>0 DEF Aligned, Mapped, SstIInv, ServiceInv
<1>2. CASE boot = "wipe"
  <2>1. Assets = Persistent /\ Assets' = Persistent' /\ Health = "wiping" /\ Health' = "wiping"
    BY <1>1, <1>2 DEF Mapped, AssetsFacts, HealthFacts
  <2> QED
    BY <1>0, <2>1, FlashSame DEF Store!storeVars
<1>3. CASE boot # "wipe"
  <2>1. InMemory' /\ boot' = "done" /\ pc' # "init_remove"
    BY <1>1, <1>3 DEF InMemory
  <2>2. Assets' = Assets
    <3>1. Assets = AssetsIn(its, Working) /\ Assets' = AssetsIn(its', Working')
      BY <1>0, <1>3, <2>1 DEF Mapped, AssetsFacts
    <3> QED
      BY <1>0, <3>1 DEF Working
  <2>3. CASE boot \in {"first", "done"}
    BY <1>0, <2>1, <2>2, <2>3, FlashSame DEF Store!storeVars
  <2>4. CASE boot = "again"
    <3>1. Health = "wiping" /\ Assets = Store!NoAssets /\ Health' = ActiveHealth'
      BY <2>1, <2>4 DEF Mapped, AssetsFacts, HealthFacts
    <3>2. ctx.active = 0 /\ (rollback => Count(0) = nvc[1])
      BY <1>0, <2>4 DEF Mapped, StoreInv, WipeInv, Wiped
    <3>3. Health' = "sound"
      BY <1>0, <3>1, <3>2 DEF ActiveHealth, Count, Table
    <3>4. Store!Wipe
      BY <1>0, <2>2, <3>1, <3>3 DEF Store!Wipe
    <3> QED
      BY <3>4 DEF Store!StoreNext
  <2> QED
    BY <1>1, <1>3, <2>3, <2>4
<1> QED
  BY <1>2, <1>3

\* The first steps of sst_system_wipe_all().
LEMMA WipeSim ==
  ASSUME Mapped, Mapped', boot = "first", Wipe, UNCHANGED <<rollback, its, nvc, req, reply>>,
         Assets = Persistent, (Assets = LOST /\ faults' = faults) \/ faults' = faults - 1
  PROVE  Store!GiveUp
<1>1. boot' = "wipe" /\ req = NULL
  BY DEF Wipe, Mapped, StoreInv, UpdateInv
<1>2. Assets' = Assets /\ Health' = "wiping"
  BY <1>1, FlashSame DEF Mapped, AssetsFacts, HealthFacts
<1> QED
  BY <1>1, <1>2 DEF Store!GiveUp

\* sst_system_prepare() reads the table that is in flash, or gives it up.
LEMMA PrepareSim ==
  ASSUME Mapped, Mapped', Prepare
  PROVE  Store!StoreNext \/ UNCHANGED Store!storeVars
<1>0. /\ pc = "prepare" /\ boot \in {"first", "again"}
      /\ UNCHANGED <<rollback, faults, its, nvc, req, reply>>
      /\ Assets = Persistent
  BY DEF Prepare, request, Mapped, SstIInv, RequestInv, AssetsFacts
<1>1. CASE ValidTables = {}
  <2>1. boot = "first" /\ Wipe
    BY <1>0, <1>1, AgainSelected DEF Prepare, Mapped
  <2>2. Assets = LOST
    BY <1>0, <1>1 DEF Mapped, AssetsFacts
  <2>3. Store!GiveUp
    BY <1>0, <2>1, <2>2, WipeSim
  <2> QED
    BY <2>3 DEF Store!StoreNext
<1>2. CASE ValidTables # {}
  <2>1. pc' = "init_remove" /\ boot' = boot /\ InMemory'
    BY <1>2 DEF Prepare, InMemory
  <2>2. ValidTables' # {} /\ Persistent' = Persistent
    BY <1>0, <1>2, FlashSame
  <2>3. Assets' = Persistent'
    BY <1>0, <2>1, <2>2 DEF Mapped, AssetsFacts
  <2>4. Health' = Health
    <3>1. CASE boot = "again"
      BY <2>1, <3>1 DEF Mapped, HealthFacts
    <3>2. CASE boot = "first"
      BY <1>0, <2>1, <3>2, FlashSame
    <3> QED
      BY <1>0, <3>1, <3>2
  <2> QED
    BY <1>0, <2>2, <2>3, <2>4 DEF Store!storeVars
<1> QED
  BY <1>1, <1>2

\* Of two tables that authenticate, a boot takes one with counter 1.
LEMMA SelectedHealth ==
  ASSUME boot = "first", ValidTables # {}, rollback \in BOOLEAN
  PROVE  Health = IF TableState(sst_set_active_object_table) # "NVC_3_VALID"
                    THEN "sound" ELSE "spent"
<1> DEFINE s == sst_set_active_object_table
<1>1. s \in ValidTables
  BY SelectedIsValid
<1>2. TableState(s) = "NVC_3_VALID" => \A t \in ValidTables : TableState(t) = "NVC_3_VALID"
  <2> SUFFICES ASSUME TableState(s) = "NVC_3_VALID", NEW t \in ValidTables
               PROVE  TableState(t) = "NVC_3_VALID"
    OBVIOUS
  <2>1. CASE ValidTables # TableIdx
    <3>1. ValidTables \subseteq {0, 1} /\ TableIdx = {0, 1}
      BY DEF ValidTables, TableIdx
    <3>2. t = s
      BY <1>1, <2>1, <3>1, Zenon
    <3> QED
      BY <3>2
  <2>2. CASE ValidTables = TableIdx
    <3>1. rollback /\ Table(s) # NULL
      BY <1>1 DEF TableState, ValidTables
    <3>2. s = IF TableState(1) = "NVC_1_VALID" THEN 1 ELSE 0
      BY <2>2, <3>1 DEF sst_set_active_object_table
    <3>3. s = 0 /\ TableState(1) # "NVC_1_VALID"
      BY <3>2
    <3>4. t = 0 \/ t = 1
      BY <2>2 DEF TableIdx
    <3>5. TableState(t) \in {"NVC_1_VALID", "NVC_3_VALID"}
      BY <3>1 DEF ValidTables, TableState, Authenticated
    <3> QED
      BY <3>3, <3>4, <3>5
  <2> QED
    BY <2>1, <2>2
<1> HIDE DEF s
<1>3. Health = IF TableState(s) # "NVC_3_VALID" THEN "sound" ELSE "spent"
  BY <1>1, <1>2 DEF Health
<1> QED
  BY <1>3 DEF s

\* sst_object_table_init() removes the table that it has not taken.
LEMMA InitRemoveSim ==
  ASSUME SoundBuilds, Mapped, Mapped', InitRemove
  PROVE  Store!StoreNext \/ UNCHANGED Store!storeVars
<1>0. /\ pc = "init_remove" /\ boot \in {"first", "again"} /\ InMemory
      /\ UNCHANGED <<rollback, nvc>> /\ ValidTables # {}
      /\ sst_set_active_object_table = ctx.active /\ rollback \in BOOLEAN
  BY DEF InitRemove, Mapped, SstIInv, RequestInv, ServiceInv, InMemory, StoreInv, MemoryInv
<1>1. CASE Fault /\ Wipe /\ UNCHANGED request
  <2>1. its' = its /\ faults' = faults - 1 /\ UNCHANGED <<req, reply>>
    BY <1>1 DEF Fault, request
  <2>2. CASE boot = "first"
    <3>1. Assets = Persistent
      BY <1>0, <2>2 DEF Mapped, AssetsFacts
    <3>2. Store!GiveUp
      BY <1>0, <1>1, <2>1, <2>2, <3>1, WipeSim
    <3> QED
      BY <3>2 DEF Store!StoreNext
  <2>3. CASE boot = "again"
    <3>1. boot' = "again"
      BY <1>1, <2>3 DEF Wipe, service
    <3>2. Health = "wiping" /\ Health' = "wiping" /\ Assets' \in Store!Stores
      BY <2>3, <3>1 DEF Mapped, HealthFacts, AssetsFacts
    <3>3. Store!Wipe
      BY <2>1, <3>2 DEF Store!Wipe
    <3> QED
      BY <3>3 DEF Store!StoreNext
  <2> QED
    BY <1>0, <2>2, <2>3
<1>2. CASE RemoveFile(SST_TABLE_FS_ID(ctx.scratch), "align") /\ UNCHANGED service
  <2>1. /\ its' = [its EXCEPT ![SST_TABLE_FS_ID(ctx.scratch)] = NULL]
        /\ pc' = "align" /\ UNCHANGED <<faults, ctx, undo, boot, req, reply>>
    BY <1>2 DEF RemoveFile, SetFile, service, request
  <2>2. /\ ctx.active \in TableIdx /\ ctx.scratch \in TableIdx
        /\ ctx.scratch = 1 - ctx.active /\ FilesInv
    BY <1>0, MemoryFacts DEF Mapped, SstIInv
  <2>3. /\ \A u \in TableIdx : its'[SST_TABLE_FS_ID(u)] =
               IF u = ctx.scratch THEN NULL ELSE its[SST_TABLE_FS_ID(u)]
        /\ \A g \in ObjectId : its'[g] = its[g]
    BY <2>1, <2>2, TableRemoved
  <2>4. its'[SST_TABLE_FS_ID(ctx.active)] = its[SST_TABLE_FS_ID(ctx.active)]
    BY <2>2, <2>3 DEF TableIdx
  <2>5. Assets' = Assets
    <3>1. Assets = AssetsIn(its, Working) /\ Assets' = AssetsIn(its', Working')
      BY <1>0, <2>1 DEF Mapped, AssetsFacts, InMemory
    <3>2. Working' = Working
      BY <2>1 DEF Working
    <3> QED
      BY <2>3, <3>1, <3>2, FileIds, GoodFrame
  <2>6. Health' = Health
    <3>1. CASE boot = "again"
      BY <2>1, <3>1 DEF Mapped, HealthFacts
    <3>2. CASE boot = "first"
      <4>1. Health = IF TableState(ctx.active) # "NVC_3_VALID" THEN "sound" ELSE "spent"
        BY <1>0, <3>2, SelectedHealth
      <4>2. TableState(ctx.active)' = TableState(ctx.active)
        BY <1>0, <2>1, <2>4 DEF TableState, Table, Authenticated
      <4>3. ctx.active \in ValidTables
        BY <1>0, SelectedIsValid
      <4>4. TableState(ctx.scratch)' = "INVALID"
        BY <2>1, <2>2, <2>3 DEF TableState, Table
      <4>5. \A u \in TableIdx : u = ctx.active \/ u = ctx.scratch
        BY <2>2 DEF TableIdx
      <4>6. ValidTables' = {ctx.active}
        <5>1. ctx.active \in TableIdx /\ TableState(ctx.active)' # "INVALID"
          BY <4>2, <4>3 DEF ValidTables
        <5>2. \A u : u \in ValidTables' <=> u \in TableIdx /\ TableState(u)' # "INVALID"
          BY DEF ValidTables
        <5> QED
          BY <2>1, <4>4, <4>5, <5>1, <5>2
      <4>7. Health' = IF TableState(ctx.active)' # "NVC_3_VALID" THEN "sound" ELSE "spent"
        BY <2>1, <3>2, <4>6 DEF Health
      <4> QED
        BY <4>1, <4>2, <4>7
    <3> QED
      BY <1>0, <3>1, <3>2
  <2> QED
    BY <2>1, <2>5, <2>6 DEF Store!storeVars
<1> QED
  BY <1>1, <1>2 DEF InitRemove

\* A power failure.
LEMMA PowerFailSim ==
  ASSUME Mapped, Mapped', PowerFail
  PROVE  Store!PowerLoss
<1>0. /\ pc' = "prepare" /\ boot' = "first" /\ req' = NULL /\ reply' = NULL
      /\ UNCHANGED <<rollback, faults, its, nvc>>
      /\ boot \in {"first", "wipe", "again", "done"}
  BY DEF PowerFail, Mapped, SstIInv, ServiceInv
<1>1. Assets' = Persistent
  BY <1>0, FlashSame DEF Mapped, AssetsFacts
<1>2. CASE boot \in {"wipe", "again"}
  <2>1. Assets = Persistent /\ Health = "wiping"
    BY <1>2 DEF Mapped, AssetsFacts, HealthFacts
  <2>2. Health' \in Store!Health
    BY <1>0 DEF Mapped, HealthFacts, Store!Health
  <2> QED
    BY <1>0, <1>1, <2>1, <2>2 DEF Store!PowerLoss
<1>3. CASE boot \in {"first", "done"}
  <2>1. Health' = Health
    BY <1>0, <1>3, FlashSame
  <2>2. CASE ValidTables = {}
    <3>1. Health = "risk" /\ Persistent = LOST
      BY <1>3, <2>2 DEF Mapped, AssetsFacts, HealthFacts
    <3> QED
      BY <1>0, <1>1, <2>1, <3>1 DEF Store!PowerLoss
  <2>3. CASE ValidTables # {}
    <3>1. Health # "risk"
      BY <1>3, <2>3 DEF Mapped, HealthFacts
    <3>2. pc = "prepare" \/ InMemory
      BY <1>3 DEF Mapped, StoreInv, WipeInv, InMemory
    <3>3. Assets = Persistent
      BY <1>3, <2>3, <3>2 DEF Mapped, AssetsFacts
    <3> QED
      BY <1>0, <1>1, <2>1, <3>1, <3>3 DEF Store!PowerLoss
  <2> QED
    BY <2>2, <2>3
<1> QED
  BY <1>0, <1>2, <1>3

\* A step that changes nothing.
LEMMA StutterSim ==
  ASSUME UNCHANGED sstVars
  PROVE  UNCHANGED Store!storeVars
<1>1. UNCHANGED <<rollback, faults, its, nvc, ctx, undo, boot, pc, req, reply>>
  BY DEF sstVars
<1>2. Assets' = Assets
  <2>1. Persistent' = Persistent
    BY <1>1, FlashSame
  <2> QED
    BY <1>1, <2>1 DEF Assets, AssetsOf, sst_encrypted_object_read
<1>3. Health' = Health
  BY <1>1 DEF Health, ValidTables, TableState, Authenticated, Table
<1> QED
  BY <1>1, <1>2, <1>3 DEF Store!storeVars

\* Every step of protected storage is a step of the store or a stutter.
LEMMA StepSim ==
  ASSUME SoundBuilds, Mapped, Mapped', [SstNext]_sstVars
  PROVE  [Store!StoreNext]_Store!storeVars
<1>1. CASE Prepare \/ InitRemove
  BY <1>1, PrepareSim, InitRemoveSim
<1>2. CASE Save \/ TableDelete \/ TableCreate \/ TableFill \/ Align \/ Aligned
  BY <1>2, SaveSim, TableBegunSim, TableFillSim, AlignSim, AlignedSim
<1>3. CASE Begin \/ Get \/ Set \/ FreeFid \/ ObjectCreate \/ ObjectFill \/ UndoObject
  BY <1>3, BeginSim, GetSim, SetSim, ObjectSim, UndoObjectSim DEF Store!StoreNext
<1>4. CASE Remove \/ RemoveTable \/ RemoveObject \/ PowerFail
  BY <1>4, RemoveSim, RemovingSim, PowerFailSim DEF Store!StoreNext
<1>5. CASE UNCHANGED sstVars
  BY <1>5, StutterSim
<1> QED
  BY <1>1, <1>2, <1>3, <1>4, <1>5 DEF SstNext

\* A device that has never been booted has no store.
LEMMA InitSim ==
  ASSUME SstInit, SstIInv
  PROVE  Store!StoreInit
<1>1. /\ ctx = NULL /\ boot = "first" /\ req = NULL /\ reply = NULL /\ faults \in Nat
      /\ \A t \in TableIdx : Table(t) = NULL
  BY FileIds DEF SstInit, Table, SstIInv, ServiceInv
<1>2. ValidTables = {}
  BY <1>1 DEF ValidTables, TableState
<1>3. Assets = LOST /\ Health = "risk"
  BY <1>1, <1>2 DEF Assets, Persistent, Health
<1> QED
  BY <1>1, <1>3 DEF Store!StoreInit

\* Protected storage is an atomic store: sst_object_create(), sst_object_delete()
\* and the boot change the map of assets as SstStore says, for any number of
\* objects, values, power failures and errors of internal trusted storage.
\* Without rollback protection internal trusted storage must not make errors.
THEOREM SstStoreRefined ==
  ASSUME SoundBuilds
  PROVE  SstSpec => StoreRefined
<1>1. SstInit /\ SstIInv => StoreInv /\ Store!StoreInit
  BY StoreInit, InitSim
<1>2. SstIInv /\ SstIInv' /\ StoreInv /\ [SstNext]_sstVars => StoreInv'
  BY StoreStep
<1>3. (SstIInv /\ StoreInv => HealthFacts /\ AssetsFacts)'
  BY HealthIs, AssetsIs, PTL
<1>4. /\ SstIInv /\ SstIInv' /\ StoreInv /\ StoreInv' /\ [SstNext]_sstVars
      => [Store!StoreNext]_Store!storeVars
  BY <1>3, HealthIs, AssetsIs, StepSim DEF Mapped
<1> QED
  BY <1>1, <1>2, <1>4, SstInductive, PTL DEF SstSpec, StoreRefined, Store!StoreSpec
=============================================================================
