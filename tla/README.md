# TF-M in TLA+

A verification project for Trusted Firmware-M (the CMSIS-TFM repository): TLA+
models of its two secure partition managers (SPM), of the mailbox of dual-core
systems, of internal trusted storage (ITS), of protected storage, of the audit log and of the
boot loader, TLC configurations that check them on small instances, and proofs
checked by TLAPS for instances of every size. Paths below are relative to the
repository.

## The system and its parts

TF-M runs in the secure half of an Armv8-M device (or on the secure core of a
dual-core one). Secure partitions offer *RoT services*; non-secure code and
other partitions are their clients. In the IPC model each partition is a thread
that the SPM schedules, and a client call is a message.

| part | state | operations | hard behaviour |
|---|---|---|---|
| thread scheduler (`secure_fw/core/ipc/tfm_thread.c`, `tfm_wait.c`) | thread list by priority, thread states, `RUNN_HEAD`, `CURR_THRD`, PendSV pending | start, block, wake, switch | a cached search start that may go stale; what happens when nobody can run |
| IPC SPM (`secure_fw/spm/spm_api_ipc.c`, `secure_fw/core/ipc/tfm_svcalls.c`, `tfm_psa_client_call.c`, `tfm_message_queue.c`, `tfm_pools.c`) | connection pool, connections and their embedded message, queue of each service, signals/mask/event of each partition, interrupt lines | `psa_connect/call/close`, `psa_wait/get/set_rhandle/reply/notify/clear/eoi`, interrupt handlers | interrupts between an SVC and its PendSV, recycled connections, signals that change after they were reported |
| dual-core mailbox (`interface/src/tfm_ns_mailbox.c`, `tfm_multi_core_psa_ns_api.c`, `secure_fw/core/ipc/tfm_spe_mailbox.c`, `platform/ext/target/cypress/psoc64/mailbox`) | shared queue with slot bitmaps, counting semaphore, thread flags, notification channels, copies on the secure side | client call of a task, reply interrupt, request interrupt, dispatch in PendSV, reply | two cores interleave at every access; busy notifications are dropped |
| internal trusted storage (`secure_fw/services/internal_trusted_storage`) | two metadata blocks, data blocks, scratch blocks, RAM context | init (recover or wipe), set, get, remove | power failure between any two flash operations, swap count roll-over |
| protected storage (`secure_fw/services/secure_storage`) | object table twice in ITS, three non-volatile counters, object files, table in RAM | init (choose a table, align counters, wipe), set, get, remove | power failure between object, counter, table and clean-up; rollback; errors of the storage below |
| crypto (`secure_fw/services/crypto`) | operation contexts, key owners | alloc, lookup, release | bounded pool, ownership |
| audit log (`secure_fw/services/audit_logging`) | circular record buffer | add, delete, retrieve | wrap-around with records of different sizes |
| library-model SPM (`secure_fw/core/tfm_func_api.c`, `secure_fw/spm/spm_api_func.c`, `secure_fw/core/tfm_nspm_func.c`) | partition states, callers and context stacks, secure lock, table of non-secure client ids | boot, function request, return, interrupt hand-over, thread switch hooks | nesting of calls and interrupts, returns that interrupts cut into, RTOS switches during a call |
| boot loader (`bl2/ext/mcuboot/bootutil`) | primary, secondary and scratch areas with trailers, security counters | choose the swap types, check dependencies, swap or overwrite, resume, validate; `boot_set_pending/confirmed` | power failure in the middle of any flash operation |
| others | | attestation, boot data, memory checks | see `PROJECT.json` |

The parts interact by direct calls inside exception handlers (SVC, PendSV and
interrupts, which run to completion one after the other on the secure core), by
messages between threads, and by shared memory and doorbell interrupts between
the cores. What makes each part correct:

* scheduler: the most urgent runnable thread runs;
* IPC: a call returns once, after and with the service's reply; no message is
  lost or delivered twice; connection chunks are conserved; a partition that
  follows the API is never reset;
* mailbox: every non-secure call gets its own answer, exactly once, and returns;
* storage: after a power failure the store is as before or as after the
  interrupted operation, and an older state is never accepted again;
* library-model SPM: the partition database describes what really runs, and a
  service is told its true caller;
* boot loader: an interrupted update is completed or undone, no image is lost;
* audit log: the buffer is the list of the latest records.

`PROJECT.json` lists the components, the hazards at their lines, and what each
definition models ("map").

## Modules

| module | models |
|---|---|
| `TfmThread` | the scheduler |
| `SpmIpc` (extends `TfmThread`) | the IPC SPM on top of the scheduler |
| `Rpc` | what a remote call promises: sent, served once, returned with its answer |
| `Mailbox` | the dual-core mailbox; refines `Rpc` |
| `ItsStore` | what ITS promises: a map of assets that changes in whole operations |
| `ItsFlashFs` | the ITS service and its flash file system on NOR flash; refines `ItsStore` |
| `SstStore` | what protected storage promises: assets that change atomically, and when they may be lost |
| `Sst` | the protected storage service on files of ITS; refines `SstStore` |
| `BootSwap` | the boot loader between a reset and the jump to the image |
| `SpmFunc` | the library-model SPM with the client ids of non-secure threads |
| `AuditLog` | a list of records of bounded total size |
| `AuditCore` | the circular buffer of the audit log; refines `AuditLog` |
| `TfmThreadProofs`, `SpmIpcProofs`, `SpmIpcCallProofs`, `MailboxProofs`, `ItsFlashFsProofs`, `SstProofs`, `SpmFuncProofs`, `AuditCoreProofs` | theorems and proofs |
| `MCSpmIpc`, `MCMailbox`, `MCItsFlashFs`, `MCSst`, `MCBootSwap`, `MCSpmFunc`, `MCAuditCore` | instances for TLC |

### TfmThread

`sched` holds the list from `LIST_HEAD`, the thread states and `RUNN_HEAD`;
operations such as `insert_by_prior`, `update_running_head` and
`tfm_core_thrd_set_state` are operators from such a record to such a record,
since one exception handler calls several before any other code runs. Actions:
`Start` (tfm_spm_init), `tfm_core_thrd_start_scheduler`, `EventWait`,
`EventWake`, `PendSV`. Contexts and stacks are abstracted to `curr`.

### SpmIpc

Each SVC and each interrupt handler is one action, PendSV another. A thread
executes its own code only while it is current and no PendSV is pending; an
interrupt may come at any time, so also between an SVC that blocks its caller
and the PendSV that switches away. State and code correspond as follows:
`signals`, `mask`, `evntOwner` are the partition's runtime data; `conn` and `msg`
are a `tfm_conn_handle_t` and its `internal_msg`; `pool` is the list of free
chunks of `conn_handle_pool`; `queue` has head, tail and size, the links being
`msg[h].next`; `r0` is the return value in a thread's stacked frame, which
`tfm_event_wake()` overwrites; `irqOn` is the NVIC enable bit. `owned`, `held`,
`seen` and `api` are the partitions' own knowledge: handles, unanswered
messages, reported signals and the call they are in.

`tfm_core_thrd_set_retval()` writes through the context saved at the last
switch. For a blocked thread that is switched out this is its frame; for the
thread that is still current it is a stale pointer, and the model lets the value
arrive or not.

Partitions are well behaved (they act on reported signals, reply once, use their
own handles), so every `tfm_core_panic()` that is reached would be the SPM's
doing. The constants say who connects to whom, who notifies whom, which masks
are waited for and which statuses are answered with. Not modelled: the payload
of messages (`psa_read/skip/write` and the iovecs), memory checks, version
policy, `psa_version`, misuse by partitions. On dual-core builds SVC client calls
of the non-secure side are replaced by the mailbox; `SpmIpc` is the single-core
SPM, where the non-secure code is the thread `NS`.

### Mailbox and Rpc

A client call of a task is a sequence of steps, one per critical section or
plain access to the shared queue (`Acquire`, `acquire_empty_slot`,
`FillMessage`, `set_queue_slot_pend`, `NotifySpe`, `WaitFlag`,
`is_queue_slot_woken`, `RxReply`, `RxClear`, `Release`); the reply interrupt of
the non-secure core and the interrupt, PendSV and reply code of the secure core
are sequences too. A handler excludes the tasks or threads of its own core only.
A notification channel is free, sent (interrupt pending) or acked (not yet
released); a notification to a channel that is not free is lost, as in
`tfm_ns_mailbox_hal_notify_peer()`, whose error the callers ignore. The SPM is
abstracted to what it may do with a message (`SpmResult`): answer, accept, or
ignore. Its answer is the request itself, so that an answer that goes to the
wrong call is visible.

Modelled is the multi-client build, the one the PSoC64 port uses (4 slots).
Not modelled: the boot handshake, the polling mode with one slot, statistics,
invalid call types (the non-secure API sends none).

### ItsFlashFs and ItsStore

`flash` is the device: each block has items of the kinds header, swap count,
logical block metadata, file metadata and data, and an item is erased or holds
what was written. Sizes count in units of data; metadata takes the first
`DataStart` units of a metadata block. The header is written in two steps, the
swap count last, as its struct demands; a block is erased in two sectors, the
first one first. `ctx` is `fs_ctx` in RAM.

A file system call decides at its start what it will do: it reads the active
blocks, which it never writes, and programs the scratch blocks, which it never
reads. The operators `its_flash_fs_file_create`, `_write`, `_delete` and
`its_flash_fs_mblock_reset_metablock` give the sequence of flash operations, in
the order of the code; it becomes `plan`, and `Step` carries out one operation at
a time. The change of the context is an entry of the plan too, where
`its_mblock_swap_metablocks()` is called; the swapped scratch data block and the
new swap count take effect with it, as nothing reads them before. `PowerFail` may
come between any two steps and keeps the flash only. `Prepare` and `Wipe` are
`tfm_its_init()` with `ITS_CREATE_FLASH_LAYOUT`; they can be interrupted like
everything else. A request is served by `Request`, then `Refuse`, or `DeleteOld`,
`CreateFile`, `WriteChunk` (once per buffer) and `Finish`, as in `tfm_its_set()`
and `tfm_its_remove()`.

`Stored` is what `tfm_its_get()` would return for each file if the device were
reset at this moment. It is the refinement mapping to `ItsStore`: the swap count
of the new header changes it, and no other step does. `ItsStore` allows a set
request to delete, create and append as separate steps, because that is what the
service does: a power failure, or a refusal for lack of room, may leave neither
the old nor the new asset, or a part of the new one.

Not modelled: errors of the flash device (the integration guide excludes them),
the block buffer of NAND flash, rounding of sizes to the program unit, validation
of metadata against corruption.

### Sst and SstStore

A file of ITS is absent, partly written or whole, and changes as `ItsStore`
allows: deleted, created, completed, each a step of its own. A set request is
`Set`, `ObjectCreate`, `ObjectFill`, then the save of the table (`Save` raises
counter 1, `TableDelete`, `TableCreate`, `TableFill`, `Align` raises counters 2
and 3), `RemoveTable` and `RemoveObject` (the old files); a remove request
shares the second half. A get request may ask for data from beyond the end of the
asset (`beyond`) and is then refused. `undo` is the table before the change: `SaveFailed` takes it back and
`UndoObject` removes the new file. `Prepare`, `InitRemove`, `Align` and `Wipe` are
`tfm_sst_init()`, which after an error wipes the store and starts once more.
`PowerFail` keeps files and counters. `Fault` is an error returned by ITS, with the
files as they were; in `FailedFill` `tfm_its_set()` has failed to complete a file and
deletes what there is of it, or fails in that too. A build
says how many calls of ITS may fail. Encryption is modelled by what it guarantees: an object
authenticates only as the version the table refers to (`Tag`), and a table only
with the counter value it was written with (`Authenticated`).

The refinement mapping `Assets` is what clients can read: while a table is in
memory, what it refers to, without a change that is not saved yet, and during a
boot what that boot will find. `SstStore` makes the change of an asset one step
(`Commit`) and has a `health`: after an interrupted update (`spent`) the next boot
puts the store at `risk`, and a power failure then loses it. This is what the code
does; the run `sst_lost` shows it against the documentation. While a boot replaces the
store by an empty one (`wiping`), a power failure may leave the store, none, or what
it was before an update that it has replaced.

Assumed: reads and cryptographic operations do not fail, the increment of a
counter is atomic, `tfm_abort()` stops until the next reset. The early returns for
invalid uids and flags are left out.

### BootSwap

A sector holds one piece of one version; the last sector of an area carries the
trailer as well and loses it when erased. The functions of the loader read at
once; what they write is a `plan` that `Step` executes one flash operation at a
time, and `PowerFail` may come before any of them or leave it half done (`Torn`: a
sector copied in part, a magic written in part). The two tables of the loader
(`StatusSource`, `SwapType`), the three states of `boot_swap_sectors()`
(`SwapPlan0`, `1`, `2`), the two paths of `boot_prepare_image_for_update()` and
the loops of `context_boot_go()` are definitions and actions of their own. The
running firmware may download versions, whole or broken, mark them with
`boot_set_pending()` and confirm with `boot_set_confirmed()`. `goal` is a ghost: what the
reset asked for, and how often power failed since.

Assumed: erasing a sector is atomic, flash operations do not fail, slots have
equal sectors. In the passing run all versions are of one size, the first image
has no magic in its trailer, the scratch area is one sector, and security
counters are equal; see the observations for what happens otherwise.

### SpmFunc

`db` is the partition database (state, caller, client id and context stack of
each partition and the running index), `cpu` the nesting of activations that the
stacks of the processor hold. `NsCall` takes the non-secure lock and enters a
service, `PartitionCall` is a call between partitions, `SvcReturn` the return by
SVC; the return in thread mode is `ReturnBegin` to `ReturnIndex`, one step per
store, with interrupts open. `TakeIrq` and `IrqReturn` are the entry and the exit
of a deprivileged handler; a line preempts by priority and never itself. `TzInit`,
`TzAlloc`, `TzFree` and the load and store in `Switch` are the hooks of the RTOS,
which switches threads while a service works for one of them but not while a
secure handler is active. Services may enable and disable lines and call
`psa_eoi`. Boot runs from `tfm_spm_db_init()` over the init functions to the jump.

Assumed: SVCs are atomic (highest priority), partitions call along acyclic
dependencies, non-secure threads use the lock, and an init function calls no other
partition: while `tfm_secure_api_initializing` is set, `tfm_func_api.c:608` refuses every
request that is not the core's and the caller panics, and the storage service for this reason
initialises itself at its first request (`tfm_sst_req_mngr.c:36`). iovecs are left out.

### AuditCore and AuditLog

The buffer is modelled word by word: a word is tagged with its record and its
place in it, and the last word of the header holds the size, from which
`GET_NEXT_LOG_INDEX` walks. `AddRecord` displaces as many of the oldest records as
the new one needs, formats it and copies it around the end of the buffer. The unit
is four bytes, as the service refuses other sizes.

## Runs

| run | instance | states | what it shows |
|---|---|---|---|
| `ipc` | NS calls s2 of p1; p1 and p2 call s1 of p3, which is less urgent; interrupt for p3, doorbell from p1; 2 chunks; refused connections, programmer errors, polling | 494 789 | results reach their callers; messages and connections conserved and never shared; no panic; a blocked thread does not run; the most urgent one does |
| `ipc_live` | NS calls s1 of p1, which calls s2 of p2; reverse handles; no interrupts | 10 728 | every client call returns |
| `mailbox` | 3 tasks, 2 slots, one call each | 130 826 | slots, semaphore, phases, answers, wake-ups; refinement of `Rpc` |
| `mailbox_live` | 2 tasks, 2 slots, two calls each | 127 992 | every call returns although notifications are dropped |
| `its` | 3 files of 1 or 2 units (3 is too long), one data unit in logical block 0 and three in block 1, buffer of one unit, swap counts 0 to 2 | 590 652 | refinement of `ItsStore`; layout, context, erased scratch blocks |
| `sst` | 3 objects, room for 2, one value, with and without the write-once flag; counters up to 4 and one ITS error with rollback protection, swap counts 0 to 2 without | 209 340 | refinement of `SstStore`; rollback protection; reasons of failures; room to replace |
| `bl2` | one image of 1, 2 or 3 sectors in slots of 3; two images of 1 or 2 sectors in slots of 2, the second version of the first needing the second of the other; both strategies; 2 downloads, 2 power failures | 924 292 | nothing lost or programmed twice; what runs is what was asked for; dependencies |
| `func` | 2 partitions, one calling the other, 3 interrupt lines of 3 priorities, 2 non-secure threads, 2 client slots | 2 056 715 | the database agrees with the processor; stacks bounded; true callers; no client slot in use is free |
| `audit` | records of 0, 2 and 6 words in a log of 9 | 117 305 | refinement of `AuditLog`; whole records |
| `ipc_wake`, `sst_lost`, `bl2_failsafe` | smallest instances | | disagreements of code and documentation, below |

Bounds. The IPC bounds are those of the instance:
number of partitions, services and chunks; there is no bound on the length of
behaviours, except that the state is finite because clients have at most as many
connections as there are chunks. Two chunks suffice for recycling a chunk while
another is in use and for exhausting the pool. `ipc` has a partition that is
client and service at once and queues of length two; four threads give equal
priorities, a more and a less urgent neighbour and every position of
`RUNN_HEAD`. In `Mailbox`,
`MaxCalls` bounds the calls of a task. Three tasks on two slots make tasks wait
for the semaphore and take over a slot from another task; the two calls of
`mailbox_live` make a task use a slot again. The call type `CALL` stands for all
that the SPM may answer at once or accept; `CLOSE_NULL` is the one it ignores.

`its` has no bound on the number of requests or power failures: the swap count
wraps after three values (255 in the code; two would not do, since the rule for
the latest block needs to tell 0 from its neighbours). Files go to logical block
0, which shares the metadata block, and to block 1 with its own scratch block;
deleting moves a file up, sets take one or two file system operations, and both
reasons for refusing a set occur. At most two files share a block, and there is
one dedicated data block, so copying metadata of blocks in front of the changed
one is not exercised by the run (the proofs cover any number of both). Lengths are at least 1; see disagreement 6 for 0. File ids are
interchangeable, which the symmetry set uses; a request stores data that names
its file, so one value is enough.

The recovery has two safeguards: the latest swap count wins, with a rule for
the roll-over, and old metadata is erased before old data. TLC finds the
refinement intact when either is broken alone and violated when both are: if the
older block wins while its data blocks are still there, the interrupted operation
just did not happen.

In `sst` the counters end at `NvcMax`, which bounds the updates with rollback
protection and reaches their end; without it the swap count wraps and behaviours
are unbounded. Three objects for two places reach the refusal for lack of room;
power failures are unbounded. `NvcMax` is 4 because the wipe can bring an older table back
only from the fourth increment on; an object's two assets then differ in the write-once flag. A fault is allowed only with rollback protection,
see the observations. `bl2` is bounded by `MaxDownloads` and `MaxFails`: two
downloads make an upgrade and a second one over a swapped pair of slots, two
failures interrupt the recovery from the first. Slots of three sectors with
one-sector scratch have images that do and do not reach the sector with the
trailer, the two cases of `UseScratch`. `func` is bounded by `MaxRaises` (3: every
line nested over the others) and `MaxIds`; `Disables` limits which line is disabled.
With `MaxNs` 3 there are two slots besides the default one: the free list has a slot
behind its head, is used up by two threads, and a slot is given back and taken again.
`MCSpmFuncNs.cfg`, too large for a run together with nested interrupts, has a third thread,
which is refused a slot, and four allocations (`MaxIds` 5) around one interrupt; TLC finds
`ContextsApart` to hold in its 1 187 967 states as well.
`audit` tells time stamps apart modulo `StampMod`, more than there are records in
the log.

In `ipc` the asynchronous signals go to a partition that is
not a client itself (so the return value that an interrupt writes through the unsaved
context of a client is not exercised there), and the priorities shield p1, a client and a service at
once, from the signals of its own clients (`MixIsSound` says so and is evaluated
by TLC). With an interrupt for a partition that is a client,
`CallerBlocked` and `CallReturnsReply` fail for the reason of `ipc_wake`.
Likewise `ConnectReply` leaves out `CONNECTION_BUSY`, with which
`HandlesNotLeaked` fails.

Every property has a mutant, a plausible slip in one mapped definition that
makes TLC report it violated.

### Fairness

`IpcFairness`: PendSV is taken when pending (it is an exception) and a thread
that runs inside the SPM returns (weak fairness). Partitions are event loops: a
partition serves a reported signal, answers a message it got and waits again
(strong fairness of these calls, as preemption disables them again and again).
Nothing is assumed of the non-secure thread.

`MailboxFairness`: interrupt handlers and PendSV make progress (weak fairness),
a task whose core is interrupted again and again still gets to go on (strong
fairness, as the RTOS resumes a preempted task), and a partition answers what the
SPM has accepted (strong fairness, since PendSV preempts it). Because the number
of calls is bounded, starvation of partitions by tasks that never stop calling is
not covered.

## Where code and documentation disagree

Each with the configuration that shows it; the first three are runs of
`PROJECT.json`, which quotes the lines, the others are started by hand, for
example `tlc -config MCSpmIpcWait.cfg MCSpmIpc`.

1. `ipc_wake` (`MCSpmIpcWake.cfg`): `tfm_event_wake()` on the signal event wakes a
   partition that is blocked in `psa_call()`, because the event keeps its owner for
   ever; the assertion of `update_caller_outvec_len()` (`tfm_svcalls.c:590`) fails.
2. `sst_lost` (`MCSstLost.cfg`): power fails after counter 1 was raised and before
   the table was written; the next boot accepts the old table by counter 3 and then
   aligns the counters with a value no table has. If power fails before the next
   update, no table authenticates and the store is wiped.
3. `bl2_failsafe` (`MCBootSwapHalt.cfg`): power fails while the first sector of the
   primary slot is erased; without a header there the loader neither resumes the
   swap or copy nor finds an image.
4. `MCSpmIpcWait.cfg`: `psa_wait(PSA_BLOCK)` may return 0, which its comment
   (`tfm_svcalls.c:153-201`) reserves for polling. The interrupt must come between
   the SVC and PendSV.
5. `MCSpmIpcBusy.cfg`: a connection answered with `PSA_ERROR_CONNECTION_BUSY`, "a
   transient error" (`tfm_svcalls.c:661-663`), loses its chunk for ever.
6. `MCItsFlashFsEmpty.cfg`: an asset of length zero, which
   `test/suites/its/its_tests_common.c:111` calls legal, has the same offset as the
   next file in its block; deleting it loses that file's data
   (`its_flash_fs.c:372`).
7. `MCMailboxClose.cfg`: `psa_close(PSA_NULL_HANDLE)`, documented as having no effect
   (`tfm_psa_client_call.c:255-258`), never returns to a non-secure task on a
   dual-core system (`tfm_spe_mailbox.c:271`).
8. `MCSpmFuncInit.cfg`: `tfm_spm_partition_err_handler()` (`spm_api_func.c:42`) passes
   a partition id where `tfm_spm_partition_set_state()` takes an index
   (`spm_api.h:306`): a partition whose init failed is not closed, and the store
   goes outside the table.
9. `MCBootSwapCnt.cfg`: a test swap that was interrupted and completed at the next
   boot counts as "no swap", so the security counter is raised before the image has
   confirmed itself, which the comment in `context_boot_go()` (`loader.c:2330`) excludes;
   a revert is then refused.
10. `MCBootSwapDep.cfg`: a dependency on an image of type FAIL is checked against its
    rejected new version, as if that were to run (`loader.c:1735`).
11. `MCBootSwapScr.cfg`: at the end of the first step a scratch area of several sectors
    is erased from its start, data before trailer; after a power failure in between
    the resumed swap copies erased sectors.
12. `MCBootSwapMag.cfg`: with a first image that has a magic in its trailer
    `boot_find_status()` takes the swap size from there and not from the scratch area.

Observed on the way and not checked:

* a recycled connection chunk keeps the reverse handle of its previous connection;
* `tfm_its_set()` loses the old asset when it is interrupted or when the new one is
  refused; `its_flash_fs_mblock_reset_metablock()` stores block 0 as the place of
  logical block 0 in metadata that becomes active in block 1, which is harmless
  because there is no data yet;
* without rollback protection, an ITS error while a table is saved at the roll-over
  of the swap count, then a power failure, can make the next boot choose the older
  table (`sst_object_table.c:694`); an ITS error in `sst_object_table_init()` wipes the store,
  and if it hits the removal of the old table, the wipe raises counter 1 while that table
  still matches counter 3: a power failure then makes the next boot take the older table
  (found by the refinement proof; `SstStore` allows it in health `wiping`);
* `psa_eoi` of the library model clears the pending bit and with it an interrupt raised
  since its handler started;
* two power failures can make a revert forgotten (`AsAsked` says so); `has_upgrade` of
  `context_boot_go()` is not initialised, which the model reads as an arbitrary value;
  every image is compared with the security counter of image 0
  (`image_validate.c:382`).

## Proofs

Every assumption on constants is evaluated by TLC in the runs of its component.
The scheduler and the IPC assume `ThreadAssumption` (priorities are naturals, NULL
is no thread) and `IpcAssumption` (owners of services and interrupts are
partitions other than the non-secure one, signals of different kinds are
distinct, and so on); nothing is assumed about the number of threads, services,
handles, or about priorities.

`TfmThreadProofs`. The inductive invariant `ThrdInv` is: types; the list is
sorted by priority without repetition (`ListSorted`), holds exactly the started
threads (`ListComplete`), and `RUNN_HEAD` is in the list with no RUNNING thread
in front (`RunnHeadOK`). `PicksMostUrgent` alone is not inductive: that the
search from `RUNN_HEAD` finds a most urgent thread needs that nothing RUNNING was
skipped and that positions follow priorities. The lemmas say that
`insert_by_prior` keeps a list sorted and that `update_running_head` restores
`RunnHeadOK` after any single state change, the case that a thread more urgent
than `RUNN_HEAD` wakes included. From the invariant follow the theorems
`ThrdInvariant`, `SchedulerPicksMostUrgent` and the action property
`SchedulerSwitches`.

`SpmIpcProofs`. `IpcInv` adds to the scheduler's invariant the types of the IPC,
that a partition's signal event belongs to its own thread, that raised service
signals are its own services' signals, `SignalIffQueued` and `SeenAsserted`. The last two
need each other's company: a reported signal stays raised because `psa_get`
clears it only with the last message, and the value in `r0` of a waiting thread
has to be a set of raised signals from the moment `tfm_event_wake` writes it. One
step per action; the scheduler's lemmas are cited, not repeated. Theorems:
`IpcInvariant`, `IpcSignalIffQueued`, `IpcSeenAsserted`, `IpcPicksMostUrgent`, and
`IpcUrgentRuns`: every handler that makes a thread RUNNING also pends PendSV.

`SpmIpcCallProofs`. Connections, messages and calls. Disagreements 1 and 5 say that
what one would like to prove is false of some systems, so two hypotheses on the
constants describe the systems it is true of. `SoundSystem`: partitions wait for
all their services, answer before they wait again, and do not call in circles;
otherwise the threads may all be blocked, PendSV then switches to nobody, and a
blocked thread runs on. `ShieldedSystem`: a partition that calls others has no
interrupt, and every partition its calls reach is more urgent than each thread
that may call or notify it. Nothing is assumed about behaviours.

The inductive invariant `CallInv(c)` has the contents of every queue as a
sequence `c[s]` and follows each chunk through its life: free (`PoolOK`, `NoLeak`),
in a message that is queued (`QueuesOK`) or served (`HeldOK`), whose sender is blocked
in the call on it (`SendersOK`), on its way to the client (`GrantedOK`), owned
(`OwnedOK`). `BlockedOK` says what each blocked thread waits for, `AnsweredOK` what a
woken client finds in its frame. It is inductive only for steps that do not
wake a client before its answer (`IpcCallsIfUndisturbed`). That the steps of a
shielded system do not (`IpcOnlyReplyWakes`) uses the scheduler: of the partitions that a blocked
call reaches, the one of the least rank that is not itself in a call has a raised
signal, so it is RUNNING; by `UrgentRuns` the current thread is at least as
urgent as it, so it is none of those that signal the client. The same
argument, from the non-secure thread, excludes the deadlock
(`NoDeadlock`). The properties speak of `Chain`, a recursive function along the links;
that it gives the sequence of the invariant (`ChainIs`) is shown with the least
index at which the two would differ. Theorems, for every number of partitions,
services and chunks: `IpcQueueIntegrity`, `IpcCallerBlocked`, `IpcOutvecAssert` (the assertion that
`ipc_wake` violates in a system that is not shielded), `IpcCallReturnsReply`,
`IpcPoolSound`, `IpcHandlesNotLeaked` (no service answers `CONNECTION_BUSY`,
disagreement 5), `IpcNoPanic`, `IpcBlockedDoesNotRun`.

`MailboxProofs` (assumes `MailboxAssumption`: there is a slot and a task, and the
marks for "none" are none). The inductive invariant says where every slot of the
NSPE queue is: `OwnerInv` (a slot is empty or belongs to exactly one task, the one
that waits for it), `WorkInv` and `StageInv` (the SPE's working copy of a slot
is that of the message the task sent, and a slot is pending, dispatched, replied
and woken once each, in this order), `AnswerInv` (the answer fits the request),
`WokenInv` (a reply that was not noticed yet is still going to be signalled) and
`CountInv` (the counting semaphore and the tasks that passed it make up the
number of empty slots, counted with cardinalities). `NeverFull`, `SlotPhases`,
`ReplyMatches`, `NoLostWakeup` follow, and so does `MailboxRefinesRpc`: under the
refinement mapping each step of either core is a step of `Rpc` or a stutter.

`ItsFlashFsProofs` (assumes `ItsAssumption`: two blocks or at least four, a swap count
with at least three values, `ERASED` no number; and `NullAssumption`: NULL is no request
and no asset). The theorems have the hypothesis `0 \notin Lens`: disagreement 6 is a
counterexample for empty assets, since a file of length zero does not lie behind the file at
the same offset, and `Packed`, below, says that no two files of a block have the same offset.
Nothing is assumed of the number of blocks, files and units, of the buffer or of where
data starts.

The invariant speaks of the flash and not of the history. `Current(F, c)` says that `c`
is the context a reset finds in the flash `F`, with a sound layout: types, physical blocks
(`Placed`), offsets and free space as sums over the files (`Packed`), and an older or erased
count in the other metadata block. `Recovers` is the rule for the roll-over of the
swap count: two consecutive counts suffice to tell which is the later. A call in progress is
`Writing(P, F, c, d, G, D)`: there is a flash `G` with current context `d` to which the
call leads; `F` agrees with `G` but on the places `D` in the scratch blocks of `c`, which
are erased; the remaining operations `P` program each place of `D` once with what it holds in
`G`, the swap count last, then change the context to `d` and erase what `d` has replaced.
Programming erased items only, and atomicity, are consequences: until the swap count is
written nothing but scratch blocks of `c` has changed and `c` stays current (`SpareIsFree`),
then `F = G`. `Clearing` is the rest, also after a reset; `Wiping` the creation of the layout,
of which power may fail at any point too. That a call starts in such a state is the work of
`CreateStarts`, `WriteStarts` and `DeleteStarts`: what the code programs, block move by block
move, is exactly the new flash, and the layout there is sound (`PackedCreate`,
`PackedWrite`, `PackedDelete`: the files behind a deleted one move up by its size, and
the amount of data moved is the sum of what they reserve). Sums over finite sets are proved
from the definition of the fold by minimal counterexamples. `ItsInv` adds where the service
is and what the call is for; each action keeps it and is a step of `ItsStore` or a stutter.
Theorems: `ItsInvariant`, `ItsStoreRefined`, `ItsProgramsErased`, `ItsIdleClean`,
`ItsLayoutSound`, `ItsOthersKept`.

`SstProofs` (assumes `SstAssumption`, `NullAssumption` and `AbsentAssumption`: NULL is no
object, table, context or request, and LOST no map of assets). `RoomInv`: every table has a free entry, in flash and in memory,
and the table a request is about to make has one too. `CounterInv`: which table
generations the three non-volatile counters have passed at each step of a
save. `AuthenticInv`: as long as nothing happened that excuses a failure
(`~Excused`: an error of internal storage, counter 1 at its end), every table file refers
only to whole objects with the tags it was written for. `AlwaysRoom` and
`OldTablesRejected` need the first two, `FailsForAReason` all three: power
failures are among the steps and are never an excuse.

`SstStoreRefined` proves that `Sst` implements `SstStore`, for the builds of `SoundBuilds`:
with rollback protection and any number of ITS errors, or without either (an error at the
roll-over of the swap count breaks the refinement, see the observations). `AuthenticInv` is
of no use here, for it says nothing after the first error; `StoreInv` says it of the
tables that matter. `CountInv` orders the counters and the counts of the tables. `GoodInv`: a
table that no counter has passed (`Live`), the table in memory and the one a failed save goes
back to have only entries that authenticate, one for each object. `MemoryInv`: the active file
holds the table to go back to, and the other one is not whole or `Retired`, which means that its
count is below counter 3 or, until the counters are aligned, just before the active one's; hence
a boot that finds a table finds that of the service (`MemorySelected`). `WipeInv`
follows the wipe, `UpdateInv` what a request has done to the table and its files.
From these `Health` and `Assets` are computed (`HealthFacts`, `AssetsFacts`); each action
is then a step of `SstStore` or a stutter. Only `TableFill` is a `Commit`; the number of entries
is the number of assets (`StoredCount`), so that a new one fits. Theorems:
`SstFailsForAReason`, `SstAlwaysRoom`, `SstOldTablesRejected`, `SstStoreRefined`.

`SpmFuncProofs` (assumes `FuncAssumption` and `AcyclicAssumption`: the dependencies
of the manifests have no cycles, which the PSA Firmware Framework forbids
(`docs/design_documents/tfm_its_service.rst:47`)). What makes this one hard is that an
interrupt may find the database between any two stores of a half-done return,
so the database under a stack of handlers matches nothing one could write down
directly. `FuncInv` therefore carries its history: there are databases
`D[c] .. D[Len(cpu)]`, the first one as `ThreadInv` says a thread may leave it,
each next one what `tfm_start_partition_for_irq_handling` makes of the one before
(`IrqStep`), the last one the database now; a handler's return pops it back to the one
before. Frames are counted along the history, so that `CtxStackBound` follows
from: priorities increase, hence one handler per line, and every interrupt but
the first that cuts into a partition cuts into a handler of it. `NeverPanics` adds
the order of the calls in progress along an order of the dependencies. For
`ContextsApart`, `NsInv` says that the free list links only slots that no thread holds
(`FreeSlots`), none of them twice.
`FuncAssumption` asks for `MaxNs >= 2`: `free_index` starts at 1
(`tfm_nspm_func.c`), so with `TFM_MAX_NS_THREAD_COUNT` 1 the first allocation would
be outside `NsClientIdList`; the default is 8.

`AuditCoreProofs` (assumes `AuditAssumption`: the buffer has room for a record without
payload). The inductive invariant unrolls the circular buffer: there is a layout `a`
in which record `i` occupies the positions `a[i]` to `a[i + 1]` of a buffer without
end, and the word at position `x` of that is the word at `x % LogSize` of `log_buffer`.
Nothing less will do, because the code finds a record by following the size fields of all the
records before it: the size field read at `first_el_idx` has to be the right one
although the record may wrap around the end of the buffer in the middle of its header. The
lemmas are arithmetic modulo `LogSize` (two positions less than `LogSize` apart share no
word, `CopyIs`) and what the walks over the records compute (`Walk`, `StartIs`,
`EvictedIs`: the records displaced make exactly enough room); the walks are recursive
functions, followed up to the least index at which they would go wrong. For `AuditLogRefined` the
layout becomes the list of records of `AuditLog`; their sizes, summed up by a recursive function,
are the distance of the ends of the layout (by the same argument of a least index), so that
`stored_size` is what the list takes and both displace the same records. Theorems:
`AuditInvariant`, `AuditRetrievedIntact`, `AuditLogRefined`.

Only model-checked: all of the boot loader, and liveness, which is outside what TLAPS
proves. All other invariants, action properties and refinements of the passing runs are proved.

## Not modelled

See "components" of `PROJECT.json`. Nearly all of the 457 000 lines of the
repository are vendored code (mbed-crypto, CMSIS, RTX, QCBOR, t_cose), device drivers and
headers of some twenty platforms, tests and tools; none of it is TF-M's own logic,
so the share of the repository's lines that the map names stays small although it
covers most of the stateful code under `secure_fw/core`, `secure_fw/spm`, three services, the mailbox and the loader.
Of TF-M itself, pure data formats (attestation tokens, boot
records) and stateless memory checks have no interleaving to explore; the crypto
service's context pool and key owners are the next candidates. Within the modelled parts:
errors of the flash device below ITS, iovec accounting of `psa_read/skip/write`,
`tfm_register_client_id()`, the NO_SWAP and RAM_LOADING strategies of the loader, and
the update of the non-volatile counters' own flash sector.

## Plan

In this order:

1. **Boot loader proofs**: `ProgramsErased` and `NothingLost` for any number of sectors.
2. **Flash errors in ITS**: an operation that fails half-way leaves its context
   and its scratch blocks as they are; `its_flash_fs_file_create()` and
   `_write()` do not swap the scratch data block back, `compact_block` does.
3. **iovec accounting** of `psa_read/skip/write`, **crypto contexts** and key owners.
