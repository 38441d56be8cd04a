----------------------------- MODULE ItsFlashFs -----------------------------
(***************************************************************************)
(* Internal trusted storage: the service (tfm_internal_trusted_storage.c)  *)
(* on its flash file system (flash_fs/its_flash_fs*.c) on NOR flash.       *)
(*                                                                         *)
(* An update never changes live data in place.  It copies what it keeps of *)
(* the active metadata block, and of the data block of the file, to their  *)
(* scratch blocks, writes the metadata header last, and then erases the    *)
(* blocks it has replaced, which are the new scratch blocks.  Power may    *)
(* fail between any two flash operations; at boot the metadata header with *)
(* the latest swap count tells which metadata block is active.             *)
(*                                                                         *)
(* The service handles one request at a time and reads no block that it is *)
(* about to program, so what an operation will do to the flash is known    *)
(* when it starts: `plan', which the device carries out step by step.      *)
(***************************************************************************)
EXTENDS Integers, SequencesExt

CONSTANTS
  Fid, Val, Lens, Buf,   \* as in ItsStore
  NumBlocks,    \* num_blocks of the flash device
  BlockSize,    \* block_size, in the units that data is moved in
  DataStart,    \* where data starts in a metadata block
  MaxFiles,     \* max_num_files
  MaxFileSize,  \* max_file_size
  EraseVal,     \* erase_val: what an erased swap count reads as
  ERASED,       \* what any other erased item reads as
  NULL

ASSUME ItsAssumption ==
  /\ NumBlocks \in Nat /\ (NumBlocks = 2 \/ NumBlocks >= 4)
  /\ BlockSize \in Nat /\ DataStart \in 0..BlockSize
  /\ MaxFiles \in Nat \ {0}
  /\ MaxFileSize \in 0..BlockSize
  /\ EraseVal \in Nat /\ EraseVal >= 3
  /\ Buf \in Nat \ {0}
  /\ Lens \subseteq Nat
  /\ ERASED \notin Nat /\ NULL \notin Fid

VARIABLES
  flash,   \* the content of each block of the device
  ctx,     \* fs_ctx: active and scratch metadata block, header; lost on reset
  plan,    \* the flash operations still to come of the file system call
  pc,      \* where the service is
  call,    \* the request that is being served
  off,     \* offset in tfm_its_set(): how much of the asset is handed over
  reply    \* the status the last request returned

itsVars == <<flash, ctx, plan, pc, call, off, reply>>

-----------------------------------------------------------------------------
\* Blocks.  The first two hold metadata and the data of logical block 0.

Block == 0..(NumBlocks - 1)
MetaBlock == {0, 1}
ITS_OTHER_META_BLOCK(b) == 1 - b

its_init_scratch_dblock == IF NumBlocks = 2 THEN 1 ELSE 2
its_init_dblock_start == IF NumBlocks = 2 THEN 0 ELSE 3
its_num_dedicated_dblocks ==
  IF NumBlocks = 2 THEN 0 ELSE NumBlocks - its_init_dblock_start
its_num_active_dblocks == its_num_dedicated_dblocks + 1

LBlock == 0..(its_num_active_dblocks - 1)
FileIdx == 0..(MaxFiles - 1)

\* What a block holds, item by item: the header, whose swap count is its last
\* byte, the metadata of logical blocks and of files, the data.
HEADER == <<"header", 0>>
COUNT == <<"count", 0>>
BLOCK(l) == <<"block", l>>
FILE(i) == <<"file", i>>
CELL(k) == <<"cell", k>>

Pos == {HEADER, COUNT} \cup {BLOCK(l) : l \in LBlock} \cup {FILE(i) : i \in FileIdx}
         \cup {CELL(k) : k \in 0..(BlockSize - 1)}

Blank == [p \in Pos |-> ERASED]

Item(b, p) == flash[b][p]

\* A block has two sectors: the first one holds the metadata, if the block has
\* any.  The block after one of them is erased.
Sector(p) == IF p[1] = "cell" /\ p[2] >= DataStart THEN 1 ELSE 0
WithoutSector(content, sector) ==
  [p \in Pos |-> IF Sector(p) = sector THEN ERASED ELSE content[p]]

FreeFile == [id |-> NULL, lblock |-> 0, data_idx |-> 0, cur_size |-> 0,
             max_size |-> 0, once |-> FALSE]

-----------------------------------------------------------------------------
\* The operations of the flash device, and the change of the running context.

Write(b, p, v) == [op |-> "write", blk |-> b, pos |-> p, val |-> v]
EraseSector(b, s) == [op |-> "erase", blk |-> b, pos |-> s, val |-> ERASED]
SetCtx(c) == [op |-> "ctx", blk |-> 0, pos |-> 0, val |-> c]

\* Mutant: only the first sector.
Erase_first(b) == <<EraseSector(b, 0)>>

\* its_flash_nor_erase(): sector by sector, the first one first.
Erase(b) == <<EraseSector(b, 0), EraseSector(b, 1)>>

its_flash_block_to_block_move(dst, dstOff, src, srcOff, size) ==
  [k \in 1..size |-> Write(dst, CELL(dstOff + k - 1), Item(src, CELL(srcOff + k - 1)))]

-----------------------------------------------------------------------------
\* The metadata blocks.

BlockMeta(c, l) == Item(c.active, BLOCK(l))
FileMeta(c, i) == Item(c.active, FILE(i))

its_mblock_validate_header_meta(b) ==
  Item(b, HEADER) # ERASED /\ Item(b, COUNT) # ERASED

\* Swap count 0 has rolled over and is the latest unless the other is 1.
its_mblock_latest_meta_block(n0, n1) ==
  CASE n1 = 0 /\ n0 # 1 -> 1
    [] ~(n1 = 0 /\ n0 # 1) /\ n0 = 0 /\ n1 # 1 -> 0
    [] OTHER -> IF n1 > n0 THEN 1 ELSE 0

ValidMeta == {b \in MetaBlock : its_mblock_validate_header_meta(b)}

its_init_get_active_metablock ==
  IF ValidMeta = MetaBlock
    THEN its_mblock_latest_meta_block(Item(0, COUNT), Item(1, COUNT))
    ELSE CHOOSE b \in ValidMeta : TRUE

\* The context that its_flash_fs_mblock_init() finds in the flash.
RecoveredCtx ==
  LET b == its_init_get_active_metablock
  IN [active |-> b, scratch |-> ITS_OTHER_META_BLOCK(b),
      dblock |-> Item(b, HEADER), count |-> Item(b, COUNT)]

its_flash_fs_mblock_cur_data_scratch_id(c, l) ==
  IF l = 0 THEN c.scratch ELSE c.dblock

\* Mutant: the replaced data block does not become the scratch block.
its_flash_fs_mblock_set_data_scratch_same(c, phy, l) == c

its_flash_fs_mblock_set_data_scratch(c, phy, l) ==
  IF l = 0 THEN c ELSE [c EXCEPT !.dblock = phy]

\* Mutant: the data scratch block is forgotten.
its_mblock_erase_scratch_blocks_meta_only(c) == Erase(c.scratch)

\* The metadata scratch block is erased before the data scratch block.
its_mblock_erase_scratch_blocks(c) ==
  Erase(c.scratch) \o (IF NumBlocks > 2 THEN Erase(c.dblock) ELSE <<>>)

\* The next swap count is never the one that an erased block reads as.
NextCount(n) == IF n + 1 = EraseVal THEN 0 ELSE n + 1

its_mblock_swap_metablocks(c) ==
  [c EXCEPT !.active = c.scratch, !.scratch = c.active]

its_mblock_write_scratch_meta_header(c) ==
  <<Write(c.scratch, HEADER, c.dblock), Write(c.scratch, COUNT, c.count)>>

\* The header becomes valid with its last byte: that commits the operation.
its_flash_fs_mblock_meta_update_finalize(c) ==
  LET next == [c EXCEPT !.count = NextCount(c.count)]
      new == its_mblock_swap_metablocks(next)
  IN its_mblock_write_scratch_meta_header(next) \o <<SetCtx(new)>>
       \o its_mblock_erase_scratch_blocks(new)

\* Items a to b of a kind of metadata, copied to the scratch metadata block.
CopyMeta(c, kind, a, b) ==
  [k \in 1..(b - a + 1) |->
     Write(c.scratch, <<kind, a + k - 1>>, Item(c.active, <<kind, a + k - 1>>))]

its_mblock_copy_remaining_block_meta(c, l) ==
  (IF l = 0 THEN <<>>
   ELSE <<Write(c.scratch, BLOCK(0), [BlockMeta(c, 0) EXCEPT !.phy_id = c.scratch])>>
          \o CopyMeta(c, "block", 1, l - 1))
  \o CopyMeta(c, "block", l + 1, its_num_active_dblocks - 1)

its_flash_fs_mblock_update_scratch_block_meta(c, l, bm) ==
  <<Write(c.scratch, BLOCK(l), IF l = 0 THEN [bm EXCEPT !.phy_id = c.scratch] ELSE bm)>>
  \o its_mblock_copy_remaining_block_meta(c, l)

its_flash_fs_mblock_cp_remaining_file_meta(c, i) ==
  CopyMeta(c, "file", 0, i - 1) \o CopyMeta(c, "file", i + 1, MaxFiles - 1)

its_flash_fs_mblock_migrate_lb0_data_to_scratch(c) ==
  LET bm == BlockMeta(c, 0)
  IN its_flash_block_to_block_move(c.scratch, bm.data_start, c.active, bm.data_start,
                                   (BlockSize - bm.data_start) - bm.free_size)

\* The metadata indices that hold the file f, and those that are free.
IdxOf(c, f) == {i \in FileIdx : FileMeta(c, i).id = f}
its_flash_fs_mblock_get_file_idx(c, f) == Min(IdxOf(c, f))
its_get_free_file_index(c) == Min(IdxOf(c, NULL))

\* The logical blocks in which a file of the given size fits.
Fitting(c, size) == {l \in LBlock : BlockMeta(c, l).free_size >= size}

-----------------------------------------------------------------------------
\* The data blocks.

its_flash_fs_dblock_write_file(c, bm, fm, offset, data) ==
  LET scratch == its_flash_fs_mblock_cur_data_scratch_id(c, fm.lblock)
      pos == fm.data_idx + offset
      end == fm.data_idx + fm.max_size
  IN its_flash_block_to_block_move(scratch, bm.data_start, bm.phy_id, bm.data_start,
                                   pos - bm.data_start)
     \o [k \in 1..Len(data) |-> Write(scratch, CELL(pos + k - 1), data[k])]
     \o its_flash_block_to_block_move(scratch, end, bm.phy_id, end,
                                      (BlockSize - bm.free_size) - end)

its_flash_fs_dblock_compact_block(c, l, freed, src, dst, size) ==
  LET bm == BlockMeta(c, l)
      scratch == its_flash_fs_mblock_cur_data_scratch_id(c, l)
  IN its_flash_block_to_block_move(scratch, dst, bm.phy_id, src, size)
     \o its_flash_block_to_block_move(scratch, bm.data_start, bm.phy_id, bm.data_start,
                                      dst - bm.data_start)
     \o its_flash_fs_mblock_update_scratch_block_meta(c, l,
          [bm EXCEPT !.free_size = @ + freed, !.phy_id = scratch])

-----------------------------------------------------------------------------
\* The file system: the flash operations of each call.

\* its_flash_fs_file_create() with its_mblock_reserve_file(): the first logical
\* block with enough room, the first free file index.
its_flash_fs_file_create(c, f, size, once, data) ==
  LET l == Min(Fitting(c, size))
      old == BlockMeta(c, l)
      bm == [old EXCEPT !.free_size = @ - size]
      i == its_get_free_file_index(c)
      fm == [id |-> f, lblock |-> l, data_idx |-> BlockSize - old.free_size,
             cur_size |-> Len(data), max_size |-> size, once |-> once]
      written == data # <<>>
      newBm == IF written
                 THEN [bm EXCEPT !.phy_id = its_flash_fs_mblock_cur_data_scratch_id(c, l)]
                 ELSE bm
      newCtx == IF written THEN its_flash_fs_mblock_set_data_scratch(c, old.phy_id, l) ELSE c
  IN (IF written THEN its_flash_fs_dblock_write_file(c, bm, fm, 0, data) ELSE <<>>)
     \o its_flash_fs_mblock_update_scratch_block_meta(c, l, newBm)
     \o <<Write(c.scratch, FILE(i), fm)>>
     \o its_flash_fs_mblock_cp_remaining_file_meta(c, i)
     \o (IF l # 0 \/ ~written THEN its_flash_fs_mblock_migrate_lb0_data_to_scratch(c) ELSE <<>>)
     \o its_flash_fs_mblock_meta_update_finalize(newCtx)

its_flash_fs_file_write(c, f, offset, data) ==
  LET i == its_flash_fs_mblock_get_file_idx(c, f)
      fm == FileMeta(c, i)
      l == fm.lblock
      bm == BlockMeta(c, l)
      newBm == [bm EXCEPT !.phy_id = its_flash_fs_mblock_cur_data_scratch_id(c, l)]
      newFm == [fm EXCEPT !.cur_size = Max({@, offset + Len(data)})]
  IN its_flash_fs_dblock_write_file(c, bm, fm, offset, data)
     \o its_flash_fs_mblock_update_scratch_block_meta(c, l, newBm)
     \o <<Write(c.scratch, FILE(i), newFm)>>
     \o its_flash_fs_mblock_cp_remaining_file_meta(c, i)
     \o (IF l # 0 THEN its_flash_fs_mblock_migrate_lb0_data_to_scratch(c) ELSE <<>>)
     \o its_flash_fs_mblock_meta_update_finalize(
          its_flash_fs_mblock_set_data_scratch(c, bm.phy_id, l))

\* Mutant: the offset is not compared.
Behind_any(c, i) ==
  {j \in FileIdx \ {i} : LET fm == FileMeta(c, j) IN
     fm.id # NULL /\ fm.lblock = FileMeta(c, i).lblock}

\* its_flash_fs_file_delete(): the files behind the deleted one in its block move up.
Behind(c, i) ==
  {j \in FileIdx \ {i} : LET fm == FileMeta(c, j) IN
     /\ fm.id # NULL
     /\ fm.lblock = FileMeta(c, i).lblock
     /\ fm.data_idx > FileMeta(c, i).data_idx}

MovedUp(c, i, j) ==
  IF j \in Behind(c, i)
    THEN [FileMeta(c, j) EXCEPT !.data_idx = @ - FileMeta(c, i).max_size]
    ELSE FileMeta(c, j)

MoveUpMeta(c, i, a, b) ==
  [k \in 1..(b - a + 1) |-> Write(c.scratch, FILE(a + k - 1), MovedUp(c, i, a + k - 1))]

\* What the files with these metadata indices reserve.
Room(c, S) == SumFunctionOnSet([j \in FileIdx |-> FileMeta(c, j).max_size], S)

its_flash_fs_file_delete(c, f) ==
  LET i == its_flash_fs_mblock_get_file_idx(c, f)
      fm == FileMeta(c, i)
      src == Min({BlockSize} \cup {FileMeta(c, j).data_idx : j \in Behind(c, i)})
      size == Room(c, Behind(c, i))
  IN <<Write(c.scratch, FILE(i), FreeFile)>>
     \o MoveUpMeta(c, i, 0, i - 1) \o MoveUpMeta(c, i, i + 1, MaxFiles - 1)
     \o its_flash_fs_dblock_compact_block(c, fm.lblock, fm.max_size, src, fm.data_idx, size)
     \o (IF fm.lblock # 0 THEN its_flash_fs_mblock_migrate_lb0_data_to_scratch(c) ELSE <<>>)
     \o its_flash_fs_mblock_meta_update_finalize(
          its_flash_fs_mblock_set_data_scratch(c, BlockMeta(c, fm.lblock).phy_id, fm.lblock))

\* its_flash_fs_wipe_all(), when no metadata block is valid.
its_flash_fs_mblock_reset_metablock ==
  LET c == [active |-> 0, scratch |-> 1, dblock |-> its_init_scratch_dblock,
            count |-> NextCount(0)]
      Fresh(l) == [phy_id |-> IF l = 0 THEN 0 ELSE l - 1 + its_init_dblock_start,
                   data_start |-> IF l = 0 THEN DataStart ELSE 0,
                   free_size |-> IF l = 0 THEN BlockSize - DataStart ELSE BlockSize]
  IN Erase(0) \o Erase(1)
     \o <<Write(c.scratch, BLOCK(0), Fresh(0))>>
     \o [k \in 1..(2 * its_num_dedicated_dblocks) |->
           EraseSector((k - 1) \div 2 + its_init_dblock_start, (k - 1) % 2)]
     \o [l \in 1..its_num_dedicated_dblocks |-> Write(c.scratch, BLOCK(l), Fresh(l))]
     \o [k \in 1..MaxFiles |-> Write(c.scratch, FILE(k - 1), FreeFile)]
     \o its_mblock_write_scratch_meta_header(c)
     \o <<SetCtx(its_mblock_swap_metablocks(c))>>

\* its_flash_fs_file_read(): the data of a file whose metadata block b holds.
its_flash_fs_file_read(b, fm) ==
  [k \in 1..fm.cur_size |->
     Item(Item(b, BLOCK(fm.lblock)).phy_id, CELL(fm.data_idx + k - 1))]

\* The assets that the metadata block of context c describes.
Assets(c) ==
  LET Asset(fm) == [data |-> its_flash_fs_file_read(c.active, fm),
                    cap |-> fm.max_size, once |-> fm.once]
  IN [f \in Fid |->
        IF IdxOf(c, f) = {} THEN NULL
        ELSE Asset(FileMeta(c, its_flash_fs_mblock_get_file_idx(c, f)))]

\* What clients would read after a reset.  (The bound variable lets TLC compute
\* the recovered context once.)
Stored ==
  IF ValidMeta = {} THEN [f \in Fid |-> NULL]
  ELSE CHOOSE s \in {Assets(c) : c \in {RecoveredCtx}} : TRUE

Store == INSTANCE ItsStore WITH store <- Stored, job <- call

\* NULL is no request and no asset.
ASSUME NullAssumption ==
  /\ NULL \notin Store!SetJob \cup Store!RemoveJob
  /\ NULL \notin [data: Seq(Fid \X Val \X Nat), cap: Nat, once: BOOLEAN]

-----------------------------------------------------------------------------
\* The service.

ItsInit ==
  /\ flash = [b \in Block |-> Blank]
  /\ ctx = NULL
  /\ plan = <<>>
  /\ pc = "off"
  /\ call = NULL
  /\ off = 0
  /\ reply = NULL

\* its_flash_fs_prepare() in tfm_its_init(), also after a wipe.
Prepare ==
  /\ pc \in {"off", "wiped"} /\ plan = <<>>
  /\ ValidMeta # {}
  /\ ctx' = RecoveredCtx
  /\ plan' = its_mblock_erase_scratch_blocks(RecoveredCtx)
  /\ pc' = "idle"
  /\ UNCHANGED <<flash, call, off, reply>>

\* its_flash_fs_wipe_all() in tfm_its_init() (ITS_CREATE_FLASH_LAYOUT).
Wipe ==
  /\ pc = "off"
  /\ ValidMeta = {}
  /\ plan' = its_flash_fs_mblock_reset_metablock
  /\ pc' = "wiped"
  /\ UNCHANGED <<flash, ctx, call, off, reply>>

\* The next operation of the device, or of the running context.
Step ==
  /\ plan # <<>>
  /\ LET s == Head(plan) IN
       \/ /\ s.op = "write"
          /\ flash' = [flash EXCEPT ![s.blk][s.pos] = s.val]
          /\ UNCHANGED ctx
       \/ /\ s.op = "erase"
          /\ flash' = [flash EXCEPT ![s.blk] = WithoutSector(@, s.pos)]
          /\ UNCHANGED ctx
       \/ /\ s.op = "ctx"
          /\ ctx' = s.val
          /\ UNCHANGED flash
  /\ plan' = Tail(plan)
  /\ UNCHANGED <<pc, call, off, reply>>

\* The request manager takes a message.
Request(j) ==
  /\ pc = "idle" /\ plan = <<>>
  /\ call' = j
  /\ pc' = "open"
  /\ off' = 0
  /\ reply' = NULL
  /\ UNCHANGED <<flash, ctx, plan>>

Exists == IdxOf(ctx, call.fid) # {}
WriteOnce == \E i \in IdxOf(ctx, call.fid) : FileMeta(ctx, i).once

ReturnWith(status) ==
  /\ pc' = "idle"
  /\ call' = NULL
  /\ off' = 0
  /\ reply' = status
  /\ UNCHANGED <<flash, ctx, plan>>

\* A request that is refused before it changes anything.
Refuse ==
  /\ pc = "open"
  /\ \/ call.op = "remove" /\ ~Exists /\ ReturnWith("PSA_ERROR_DOES_NOT_EXIST")
     \/ Exists /\ WriteOnce /\ ReturnWith("PSA_ERROR_NOT_PERMITTED")

\* tfm_its_set() deletes an existing file before it creates the new one.
DeleteOld ==
  /\ pc = "open"
  /\ Exists /\ ~WriteOnce
  /\ plan' = its_flash_fs_file_delete(ctx, call.fid)
  /\ pc' = IF call.op = "set" THEN "create" ELSE "done"
  /\ UNCHANGED <<flash, ctx, call, off, reply>>

\* its_req_mngr_read(): the next piece of the client's data.
its_req_mngr_read(offset, size) ==
  SubSeq(Store!Chunks(call, offset + size), offset + 1, offset + size)

CreateFile ==
  /\ plan = <<>>
  /\ pc = "create" \/ (pc = "open" /\ call.op = "set" /\ ~Exists)
  /\ \/ /\ call.len > MaxFileSize
        /\ ReturnWith("PSA_ERROR_INVALID_ARGUMENT")
     \/ /\ call.len <= MaxFileSize
        /\ Fitting(ctx, call.len) = {} \/ IdxOf(ctx, NULL) = {}
        /\ ReturnWith("PSA_ERROR_INSUFFICIENT_STORAGE")
     \/ /\ call.len <= MaxFileSize
        /\ Fitting(ctx, call.len) # {} /\ IdxOf(ctx, NULL) # {}
        /\ LET size == Min({call.len, Buf}) IN
             /\ plan' = its_flash_fs_file_create(ctx, call.fid, call.len, call.once, its_req_mngr_read(0, size))
             /\ off' = size
        /\ pc' = "write"
        /\ UNCHANGED <<flash, ctx, call, reply>>

\* The rest of the data, in chunks of the size of the buffer.
WriteChunk ==
  /\ pc = "write" /\ plan = <<>>
  /\ off < call.len
  /\ LET size == Min({call.len - off, Buf}) IN
       /\ plan' = its_flash_fs_file_write(ctx, call.fid, off, its_req_mngr_read(off, size))
       /\ off' = off + size
  /\ UNCHANGED <<flash, ctx, pc, call, reply>>

Finish ==
  /\ plan = <<>>
  /\ pc = "done" \/ (pc = "write" /\ off = call.len)
  /\ ReturnWith("PSA_SUCCESS")

\* A power failure leaves the flash as it is and forgets the rest.
PowerFail ==
  /\ pc # "off"
  /\ ctx' = NULL
  /\ plan' = <<>>
  /\ pc' = "off"
  /\ call' = NULL
  /\ off' = 0
  /\ reply' = NULL
  /\ UNCHANGED flash

ItsNext ==
  \/ Prepare \/ Wipe \/ Step
  \/ \E j \in Store!SetJob \cup Store!RemoveJob : Request(j)
  \/ Refuse \/ DeleteOld \/ CreateFile \/ WriteChunk \/ Finish
  \/ PowerFail

ItsSpec == ItsInit /\ [][ItsNext]_itsVars

-----------------------------------------------------------------------------
\* Properties.

\* Flash is programmed only where it is erased: no step of any operation, also
\* of the first one after a power failure at the worst moment, writes an item
\* that holds something.
ProgramsErased ==
  plan # <<>> /\ Head(plan).op = "write" =>
    Item(Head(plan).blk, Head(plan).pos) = ERASED

\* Between requests the context in RAM is the one that a reset would recover
\* from the flash, and both scratch blocks are erased.
IdleClean ==
  pc = "idle" /\ plan = <<>> =>
    /\ ctx = RecoveredCtx
    /\ flash[ctx.scratch] = Blank
    /\ NumBlocks > 2 => flash[ctx.dblock] = Blank

\* The files of the metadata of c: all, those of a logical block, and those that
\* lie before another one in its block.
UsedFiles(c) == {i \in FileIdx : FileMeta(c, i).id # NULL}
FilesIn(c, l) == {i \in UsedFiles(c) : FileMeta(c, i).lblock = l}
FilesBefore(c, i) ==
  {j \in FilesIn(c, FileMeta(c, i).lblock) : FileMeta(c, j).data_idx < FileMeta(c, i).data_idx}
Phys(c, l) == IF l = 0 THEN c.active ELSE BlockMeta(c, l).phy_id

BlocksSound(c) ==
  \A l \in LBlock :
    /\ \A m \in LBlock \ {l} : Phys(c, l) # Phys(c, m)
    /\ NumBlocks > 2 => Phys(c, l) # c.dblock
    /\ Phys(c, l) # c.scratch
    /\ FilesIn(c, l) # {} => BlockMeta(c, l).phy_id = Phys(c, l)
    /\ BlockMeta(c, l).data_start + Room(c, FilesIn(c, l)) + BlockMeta(c, l).free_size = BlockSize

FilesSound(c) ==
  \A i \in UsedFiles(c) :
    LET fm == FileMeta(c, i) IN
    /\ fm.cur_size <= fm.max_size
    /\ fm.data_idx = BlockMeta(c, fm.lblock).data_start + Room(c, FilesBefore(c, i))
    /\ \A j \in UsedFiles(c) \ {i} :
         LET other == FileMeta(c, j) IN
         /\ other.id # fm.id
         /\ other.lblock = fm.lblock =>
              \/ other.data_idx + other.max_size <= fm.data_idx
              \/ fm.data_idx + fm.max_size <= other.data_idx

\* The metadata that a reset would recover describes a sound layout at every
\* moment: each logical block has a physical block of its own that is not
\* scratch, its files lie behind each other without a gap or an overlap from
\* data_start on, free_size is what they leave, and no file id occurs twice.
LayoutSound ==
  ValidMeta # {} => BlocksSound(RecoveredCtx) /\ FilesSound(RecoveredCtx)

\* The flash file system implements the abstract store: at every moment a reset
\* would find the assets of whole operations, those of other requests
\* untouched, write-once ones still there, and a request reports success only
\* when what it asked for would survive a reset.
StoreRefined == Store!StoreSpec

\* A request changes no asset but the one it names.
OthersKept ==
  [][\A f \in Fid : Stored'[f] # Stored[f] => call # NULL /\ call.fid = f]_itsVars
=============================================================================
