------------------------------ MODULE SpmFunc ------------------------------
(***************************************************************************)
(* The secure partition manager of the library model (no scheduler): a     *)
(* secure service is a function call from the non-secure world or from     *)
(* another partition, and a secure interrupt runs a handler of its         *)
(* partition on top of whatever runs.  The manager keeps a database of     *)
(* partition states (spm_api_func.c), which tfm_func_api.c changes at      *)
(* every call, return, interrupt and interrupt return; `cpu' is the        *)
(* processor's own record of what is nested in what (return addresses and  *)
(* exception frames on its stacks).  The database is right when it agrees  *)
(* with it.                                                                *)
(*                                                                         *)
(* Requests and returns by SVC run at the highest priority and are atomic; *)
(* a call between partitions is served in thread mode, and its return      *)
(* (tfm_return_from_partition) is open to interrupts at every store.       *)
(*                                                                         *)
(* Non-secure threads (tfm_nspm_func.c) are switched by the non-secure     *)
(* RTOS, also while a service works for one of them.                       *)
(***************************************************************************)
EXTENDS Naturals, Integers, Sequences, FiniteSets, SequencesExt

CONSTANTS LastPart,        \* index of the last partition; 0 is NS, 1 the core
          Callees,     \* Callees[p]: partitions whose services p calls
          Irqs,        \* secure interrupt lines
          NoIrq,       \* no line
          IrqPart,     \* IrqPart[i]: partition the manifest gives line i
          IrqPrio,     \* IrqPrio[i]: its priority, greater is more urgent
          Disables,    \* bound: lines that services also disable
          InitFails,   \* partitions whose init function returns an error
          Threads,     \* non-secure threads
          NoThread,    \* no thread
          MaxNs,       \* TFM_MAX_NS_THREAD_COUNT
          MaxRaises,   \* bound: interrupts the devices raise
          MaxIds       \* bound: non-secure client ids handed out

NS == 0
CORE == 1
Parts == 0..LastPart
Secure == 2..LastPart
INVALID == -1                 \* SPM_INVALID_PARTITION_IDX

ASSUME FuncAssumption ==
    /\ LastPart \in Nat /\ LastPart >= 2
    /\ Callees \in [Secure -> SUBSET Secure]
    /\ IrqPart \in [Irqs -> Secure]
    /\ IrqPrio \in [Irqs -> Nat]
    /\ Disables \subseteq Irqs /\ InitFails \subseteq Secure
    /\ NoThread \notin Threads /\ NoIrq \notin Irqs
    /\ IsFiniteSet(Irqs)
    /\ MaxNs \in Nat /\ MaxNs >= 2 /\ MaxRaises \in Nat /\ MaxIds \in Nat

\* The manifests' dependencies have no cycles, as the PSA Firmware Framework asks.
ASSUME AcyclicAssumption ==
    \E rank \in [Secure -> Parts] :
        \A p \in Secure : \A q \in Callees[p] : rank[p] < rank[q]

VARIABLES db,        \* g_spm_partition_db
          lock,      \* tfm_secure_lock
          initing,   \* tfm_secure_api_initializing
          boot,      \* where main() is: [idx, pc]
          cpu,       \* activations nested on the processor, innermost last
          enabled, pending, raises,     \* the interrupt controller
          ns,        \* NsClientIdList and the variables beside it
          cur,       \* the thread the non-secure RTOS runs
          tz,        \* tz[t]: TZ_MemoryId_t the RTOS keeps for t, 0 for none
          nslock,    \* holder of ns_lock_handle
          panicked   \* tfm_core_panic() was reached

vars == <<db, lock, initing, boot, cpu, enabled, pending, raises, ns, cur,
          tz, nslock, panicked>>

States == {"UNINIT", "IDLE", "RUNNING", "HANDLING_IRQ", "SUSPENDED",
           "BLOCKED", "CLOSED"}

\* Partition ids of the manifests start at TFM_SP_BASE, far above the indices.
PartId(p) == IF p <= CORE THEN p ELSE 254 + p

\* Every partition but the non-secure one carries SPM_PART_FLAG_APP_ROT.
AppRot(p) == p # NS

\* What the processor keeps of an activation: the kind of code ("core", "ns",
\* "call" or "irq"), its partition, where it is and the locals of its return;
\* `client' remembers who made the call, for the properties.
Activation(kind, part, irq, client) ==
    [kind |-> kind, part |-> part, pc |-> "run", irq |-> irq, cur |-> INVALID,
     ret |-> INVALID, client |-> client]

Top == Last(cpu)
Below == cpu[Len(cpu) - 1]

-----------------------------------------------------------------------------
(* The partition database (spm_api_func.c)                                 *)

\* tfm_spm_partition_set_state()
SetState(d, p, s) ==
    [d EXCEPT !.state[p] = s,
              !.running = IF s \in {"RUNNING", "HANDLING_IRQ"} THEN p ELSE @]

PushInterrupted(d, p) ==
    [d EXCEPT !.ctx[p] = Append(@, [kind |-> "intr", state |-> d.state[p],
                                    caller |-> INVALID])]

PushHandler(d, p) ==
    [d EXCEPT !.ctx[p] = Append(@, [kind |-> "hndl", state |-> d.state[p],
                                    caller |-> d.caller[p]])]

\* Mutant: the frame is read and its room not given back.
PopInterrupted_kept(d, p) == SetState(d, p, Last(d.ctx[p]).state)

PopInterrupted(d, p) ==
    SetState([d EXCEPT !.ctx[p] = Front(@)], p, Last(d.ctx[p]).state)

\* Mutant: the popped frame's caller is not put back.
PopHandler_caller(d, p) ==
    SetState([d EXCEPT !.ctx[p] = Front(@)], p, Last(d.ctx[p]).state)

PopHandler(d, p) ==
    LET f == Last(d.ctx[p])
    IN  SetState([d EXCEPT !.ctx[p] = Front(@), !.caller[p] = f.caller],
                 p, f.state)

-----------------------------------------------------------------------------
(* Non-secure clients (tfm_nspm_func.c)                                    *)

NsSlots == 0..(MaxNs - 1)

\* get_next_ns_client_id(): ids count down from -1, `given' were handed out.
NextNsId == -1 - ns.given

\* tfm_nspm_configure_clients(): slot 0 is the default client.
NsConfigured ==
    [id |-> [s \in NsSlots |-> IF s = 0 THEN -1 ELSE 0],
     next |-> [s \in NsSlots |-> 0], free |-> 1, active |-> 0, given |-> 1,
     started |-> FALSE]

\* tfm_nspm_get_current_client_id(); the active slot is never the invalid one
\* after tfm_nspm_configure_clients().
CurrentClientId == ns.id[ns.active]

\* The client id the non-secure thread t is to be known by.
ThreadId(t) == ns.id[IF tz[t] = 0 THEN 0 ELSE tz[t] - 1]

\* TZ_InitContextSystem_S(), called once when the RTOS starts.
TzInit ==
    /\ boot.pc = "ns" /\ ~ns.started /\ ~panicked
    /\ ns' = [ns EXCEPT !.id = [s \in NsSlots |-> IF s = 0 THEN @[0] ELSE 0],
                        !.next = [s \in NsSlots |-> IF s = 0 THEN @[0]
                                     ELSE IF s = MaxNs - 1 THEN -1 ELSE s + 1],
                        !.started = TRUE]
    /\ UNCHANGED <<db, lock, initing, boot, cpu, enabled, pending, raises, cur,
                   tz, nslock, panicked>>

\* The RTOS schedules in its lowest exception: no secure handler is active.
NoHandler == \A k \in 1..Len(cpu) : cpu[k].kind # "irq"

\* Mutant: the slot is not linked to the slots that are free.
FreeSlot_unlinked(n, s) ==
    [n EXCEPT !.id[s] = 0, !.free = s, !.active = IF @ = s THEN 0 ELSE @]

\* TZ_FreeModuleContext_S() of a slot in use.
FreeSlot(n, s) ==
    [n EXCEPT !.id[s] = 0, !.next[s] = n.free, !.free = s,
              !.active = IF @ = s THEN 0 ELSE @]

\* TZ_AllocModuleContext_S() for a new thread; the RTOS keeps 0 for a refusal.
TzAlloc(t) ==
    /\ ns.started /\ NoHandler /\ ~panicked
    /\ tz[t] = 0 /\ t # cur /\ ns.given < MaxIds
    /\ IF ns.free < 0
       THEN UNCHANGED <<ns, tz>>
       ELSE /\ tz' = [tz EXCEPT ![t] = ns.free + 1]
            /\ ns' = [ns EXCEPT !.id[ns.free] = NextNsId, !.given = @ + 1,
                                !.free = ns.next[ns.free]]
    /\ UNCHANGED <<db, lock, initing, boot, cpu, enabled, pending, raises, cur,
                   nslock, panicked>>

\* TZ_FreeModuleContext_S() when a thread that is in no service ends.
TzFree(t) ==
    /\ ns.started /\ NoHandler /\ ~panicked
    /\ tz[t] # 0 /\ nslock # t
    /\ ns' = FreeSlot(ns, tz[t] - 1)
    /\ tz' = [tz EXCEPT ![t] = 0]
    /\ UNCHANGED <<db, lock, initing, boot, cpu, enabled, pending, raises, cur,
                   nslock, panicked>>

\* Mutant: the client of the thread that is switched out stays active.
StoredContext_kept(n, id) == n

\* TZ_StoreContext_S(): the active client goes back to the default one.
StoredContext(n, id) ==
    IF id # 0 /\ n.id[id - 1] # 0 /\ n.active = id - 1
    THEN [n EXCEPT !.active = 0] ELSE n

\* TZ_LoadContext_S()
LoadedContext(n, id) ==
    IF id # 0 /\ n.id[id - 1] # 0 THEN [n EXCEPT !.active = id - 1] ELSE n

\* The RTOS switches to thread t, with the context calls CMSIS asks of it.
Switch(t) ==
    /\ ns.started /\ NoHandler /\ ~panicked
    /\ t # cur
    /\ ns' = LoadedContext(StoredContext(ns, tz[cur]), tz[t])
    /\ cur' = t
    /\ UNCHANGED <<db, lock, initing, boot, cpu, enabled, pending, raises, tz,
                   nslock, panicked>>

-----------------------------------------------------------------------------
(* Calls (tfm_func_api.c)                                                  *)

\* Secure code of a service runs: a handler does, or the thread it works for.
SecureRuns ==
    /\ ~panicked
    /\ Top.kind \in {"call", "irq"} /\ Top.pc = "run"
    /\ Top.kind = "call" /\ nslock # NoThread => cur = nslock

\* tfm_core_check_sfn_req_rules() for a call by the running partition.
RulesOk(nsCaller) ==
    /\ ~(nsCaller /\ lock # 0)
    /\ initing => PartId(db.running) = CORE /\ lock = 0

\* check_partition_state()
StateOk(callee, caller) ==
    db.state[caller] = "RUNNING" /\ db.state[callee] = "IDLE"

\* The client id that tfm_start_partition() stores for the callee.
ClientOf(caller) == IF AppRot(caller) THEN PartId(caller) ELSE CurrentClientId

Started(p, caller) ==
    LET d1 == [db EXCEPT !.caller[p] = caller, !.client[p] = ClientOf(caller)]
    IN  SetState(SetState(d1, caller, "BLOCKED"), p, "RUNNING")

\* tfm_core_sfn_request_handler() with interrupts masked: an error panics.
SfnRequest(p, nsCaller, actual) ==
    LET caller == db.running
        ok == /\ RulesOk(nsCaller)
              /\ AppRot(caller) # nsCaller
              /\ initing \/ StateOk(p, caller)
              /\ ~AppRot(caller) => CurrentClientId < 0
    IN  IF ok
        THEN /\ db' = Started(p, caller)
             /\ lock' = lock + 1
             /\ cpu' = Append(cpu, Activation("call", p, NoIrq, actual))
             /\ UNCHANGED panicked
        ELSE panicked' = TRUE /\ UNCHANGED <<db, lock, cpu>>

\* tfm_ns_interface_dispatch(): the non-secure lock, then the veneer.
NsCall(p) ==
    /\ boot.pc = "ns" /\ ~panicked /\ Top.kind = "ns"
    /\ nslock = NoThread
    /\ nslock' = cur
    /\ SfnRequest(p, TRUE, ThreadId(cur))
    /\ UNCHANGED <<initing, boot, enabled, pending, raises, ns, cur, tz>>

\* os_wrapper_mutex_release() after the veneer returned.
NsUnlock ==
    /\ ~panicked /\ Top.kind = "ns" /\ nslock = cur
    /\ nslock' = NoThread
    /\ UNCHANGED <<db, lock, initing, boot, cpu, enabled, pending, raises, ns,
                   cur, tz, panicked>>

\* tfm_core_sfn_request_thread_mode(): a service calls another partition's.
\* Assumed: an init function calls none.  While tfm_secure_api_initializing is
\* set the code accepts requests of the core only and panics at any other, and
\* services that need another partition put that off until after the boot
\* (sst_check_init()).
PartitionCall(p) ==
    /\ SecureRuns /\ Top.kind = "call" /\ ~initing
    /\ p \in Callees[Top.part]
    /\ SfnRequest(p, FALSE, PartId(Top.part))
    /\ UNCHANGED <<initing, boot, enabled, pending, raises, ns, cur, tz,
                   nslock>>

\* tfm_return_from_partition() finds whom to return to, or panics.
Returnable == db.running # INVALID /\ db.caller[db.running] # INVALID

\* tfm_spm_partition_cleanup_context()
CleanedUp(d, p) == [d EXCEPT !.caller[p] = INVALID]

Returned(d, p, r) == SetState(SetState(d, p, "IDLE"), r, "RUNNING")

\* TFM_SVC_SFN_RETURN: back to the non-secure world, or to the core's init.
SvcReturn ==
    /\ SecureRuns /\ Top.kind = "call" /\ Below.kind \in {"ns", "core"}
    /\ IF Returnable
       THEN LET p == db.running IN
            /\ db' = Returned(CleanedUp(db, p), p, db.caller[p])
            /\ lock' = lock - 1
            /\ cpu' = Front(cpu)
            /\ UNCHANGED panicked
       ELSE panicked' = TRUE /\ UNCHANGED <<db, lock, cpu>>
    /\ UNCHANGED <<initing, boot, enabled, pending, raises, ns, cur, tz,
                   nslock>>

\* tfm_return_from_partition() in thread mode, store by store.
InReturn(pc) ==
    /\ ~panicked /\ Top.kind = "call" /\ Top.pc = pc
    /\ nslock = cur
    /\ UNCHANGED <<initing, boot, enabled, pending, raises, ns, cur, tz,
                   nslock>>

At(pc) == cpu' = [cpu EXCEPT ![Len(cpu)].pc = pc]

ReturnBegin ==
    /\ InReturn("run") /\ Below.kind = "call"
    /\ IF Returnable
       THEN /\ cpu' = [cpu EXCEPT ![Len(cpu)].pc = "clean",
                                  ![Len(cpu)].cur = db.running,
                                  ![Len(cpu)].ret = db.caller[db.running]]
            /\ lock' = lock - 1
            /\ UNCHANGED <<db, panicked>>
       ELSE panicked' = TRUE /\ UNCHANGED <<db, lock, cpu>>

ReturnClean ==
    /\ InReturn("clean") /\ At("idle")
    /\ db' = CleanedUp(db, Top.cur)
    /\ UNCHANGED <<lock, panicked>>

ReturnIdle ==
    /\ InReturn("idle") /\ At("state")
    /\ db' = SetState(db, Top.cur, "IDLE")
    /\ UNCHANGED <<lock, panicked>>

\* tfm_spm_partition_set_state(): the state is stored before the index.
ReturnState ==
    /\ InReturn("state") /\ At("index")
    /\ db' = [db EXCEPT !.state[Top.ret] = "RUNNING"]
    /\ UNCHANGED <<lock, panicked>>

ReturnIndex ==
    /\ InReturn("index")
    /\ db' = [db EXCEPT !.running = Top.ret]
    /\ cpu' = Front(cpu)
    /\ UNCHANGED <<lock, panicked>>

-----------------------------------------------------------------------------
(* Interrupts                                                              *)

\* A device raises its line.
Raise(i) ==
    /\ raises < MaxRaises /\ i \notin pending /\ ~panicked
    /\ pending' = pending \cup {i}
    /\ raises' = raises + 1
    /\ UNCHANGED <<db, lock, initing, boot, cpu, enabled, ns, cur, tz, nslock,
                   panicked>>

\* check_irq_partition_state()
IrqStateOk(s) == s \notin {"UNINIT", "CLOSED"}

\* Mutant: the handler's own state is saved before the interrupted one's.
IrqStarted_order(d, h, i) ==
    LET r == d.running
        d1 == PushInterrupted(PushHandler(d, h), r)
        d2 == [d1 EXCEPT !.mask[h] = @ \cup {i}, !.caller[h] = r]
    IN  SetState(SetState(d2, r, "SUSPENDED"), h, "HANDLING_IRQ")

\* tfm_start_partition_for_irq_handling()
IrqStarted(d, h, i) ==
    LET r == d.running
        d1 == PushHandler(PushInterrupted(d, r), h)
        d2 == [d1 EXCEPT !.mask[h] = @ \cup {i}, !.caller[h] = r]
    IN  SetState(SetState(d2, r, "SUSPENDED"), h, "HANDLING_IRQ")

\* An enabled line interrupts what is less urgent; priv_irq_handler_main()
\* requests the deprivileged handler of its partition.
TakeIrq(i) ==
    /\ i \in pending \cap enabled /\ ~panicked
    /\ \A k \in 1..Len(cpu) : cpu[k].kind = "irq" =>
                                 IrqPrio[cpu[k].irq] < IrqPrio[i]
    /\ pending' = pending \ {i}
    /\ IF IrqStateOk(db.state[IrqPart[i]])
       THEN /\ db' = IrqStarted(db, IrqPart[i], i)
            /\ enabled' = enabled \ {i}
            /\ cpu' = Append(cpu, Activation("irq", IrqPart[i], i, 0))
            /\ UNCHANGED panicked
       ELSE panicked' = TRUE /\ UNCHANGED <<db, enabled, cpu>>
    /\ UNCHANGED <<lock, initing, boot, raises, ns, cur, tz, nslock>>

IrqReturned(d, h) == PopInterrupted(PopHandler(d, h), d.caller[h])

\* tfm_return_from_partition_irq_handling()
IrqReturn ==
    /\ SecureRuns /\ Top.kind = "irq"
    /\ IF Returnable
       THEN /\ db' = IrqReturned(db, db.running)
            /\ cpu' = Front(cpu)
            /\ UNCHANGED panicked
       ELSE panicked' = TRUE /\ UNCHANGED <<db, cpu>>
    /\ UNCHANGED <<lock, initing, boot, enabled, pending, raises, ns, cur, tz,
                   nslock>>

\* get_irq_line_for_signal() for the partition the database says is running.
OwnLine(i) == IrqPart[i] = db.running

\* tfm_core_enable_irq_handler() and tfm_core_disable_irq_handler()
SetIrq(i, on) ==
    /\ SecureRuns /\ IrqPart[i] = Top.part
    /\ IF OwnLine(i)
       THEN /\ enabled' = IF on THEN enabled \cup {i} ELSE enabled \ {i}
            /\ UNCHANGED panicked
       ELSE panicked' = TRUE /\ UNCHANGED enabled
    /\ UNCHANGED <<db, lock, initing, boot, cpu, pending, raises, ns, cur, tz,
                   nslock>>

\* tfm_core_psa_eoi() for a signal psa_wait() returned.
PsaEoi(i) ==
    /\ SecureRuns /\ IrqPart[i] = Top.part /\ i \in db.mask[db.running]
    /\ IF OwnLine(i)
       THEN /\ pending' = pending \ {i}
            /\ enabled' = enabled \cup {i}
            /\ db' = [db EXCEPT !.mask[db.running] = @ \ {i}]
            /\ UNCHANGED panicked
       ELSE panicked' = TRUE /\ UNCHANGED <<db, enabled, pending>>
    /\ UNCHANGED <<lock, initing, boot, cpu, raises, ns, cur, tz, nslock>>

-----------------------------------------------------------------------------
(* Boot: main() and tfm_spm_partition_init()                               *)

InBoot(pc) == boot.pc = pc /\ Top.kind = "core" /\ ~panicked

\* The internal partitions have no init function; the others' is called.
BootInit ==
    /\ InBoot("init") /\ boot.idx <= LastPart
    /\ IF boot.idx \in Secure
       THEN /\ SfnRequest(boot.idx, FALSE, CORE)
            /\ boot' = [boot EXCEPT !.pc = "result"]
       ELSE /\ db' = [SetState(db, boot.idx, "IDLE")
                        EXCEPT !.caller[boot.idx] = INVALID]
            /\ boot' = [boot EXCEPT !.idx = @ + 1]
            /\ UNCHANGED <<lock, cpu, panicked>>
    /\ UNCHANGED <<initing, enabled, pending, raises, ns, cur, tz, nslock>>

\* The result of the init function; tfm_spm_partition_err_handler() takes the
\* partition id for an index, and a store outside the table is lost here.
BootResult ==
    /\ InBoot("result")
    /\ db' = IF boot.idx \notin InitFails THEN SetState(db, boot.idx, "IDLE")
             ELSE IF PartId(boot.idx) \in Parts
                  THEN SetState(db, PartId(boot.idx), "CLOSED")
                  ELSE db
    /\ boot' = [idx |-> boot.idx + 1, pc |-> "init"]
    /\ UNCHANGED <<lock, initing, cpu, enabled, pending, raises, ns, cur, tz,
                   nslock, panicked>>

\* tfm_secure_api_init_done()
BootDone ==
    /\ InBoot("init") /\ boot.idx = LastPart + 1
    /\ initing' = FALSE
    /\ boot' = [boot EXCEPT !.pc = "close"]
    /\ UNCHANGED <<db, lock, cpu, enabled, pending, raises, ns, cur, tz, nslock,
                   panicked>>

\* main() closes the core's partition, in thread mode with interrupts open.
BootClose ==
    /\ InBoot("close")
    /\ db' = SetState(db, CORE, "CLOSED")
    /\ boot' = [boot EXCEPT !.pc = "open"]
    /\ UNCHANGED <<lock, initing, cpu, enabled, pending, raises, ns, cur, tz,
                   nslock, panicked>>

\* main() opens the non-secure partition and jumps to it.
BootOpen ==
    /\ InBoot("open")
    /\ db' = SetState(db, NS, "RUNNING")
    /\ boot' = [boot EXCEPT !.pc = "ns"]
    /\ cpu' = <<Activation("ns", NS, NoIrq, 0)>>
    /\ UNCHANGED <<lock, initing, enabled, pending, raises, ns, cur, tz, nslock,
                   panicked>>

Init ==
    \* tfm_spm_db_init(), then main() sets the core's partition running
    /\ db = [state |-> [p \in Parts |-> IF p = CORE THEN "RUNNING"
                                        ELSE "UNINIT"],
             caller |-> [p \in Parts |-> INVALID],
             client |-> [p \in Parts |-> 0],
             mask |-> [p \in Parts |-> {}],
             ctx |-> [p \in Parts |-> <<>>],
             running |-> CORE]
    /\ lock = 0 /\ initing = TRUE /\ boot = [idx |-> 0, pc |-> "init"]
    /\ cpu = <<Activation("core", CORE, NoIrq, 0)>>
    /\ enabled = {} /\ pending = {} /\ raises = 0
    /\ ns = NsConfigured
    /\ cur \in Threads
    /\ tz = [t \in Threads |-> 0]
    /\ nslock = NoThread /\ panicked = FALSE

Next ==
    \/ BootInit \/ BootResult \/ BootDone \/ BootClose \/ BootOpen
    \/ TzInit \/ \E t \in Threads : TzAlloc(t) \/ TzFree(t) \/ Switch(t)
    \/ \E p \in Secure : NsCall(p) \/ PartitionCall(p)
    \/ NsUnlock \/ SvcReturn
    \/ ReturnBegin \/ ReturnClean \/ ReturnIdle \/ ReturnState \/ ReturnIndex
    \/ \E i \in Irqs : Raise(i) \/ TakeIrq(i) \/ PsaEoi(i)
    \/ \E i \in Irqs : SetIrq(i, TRUE)
    \/ \E i \in Disables : SetIrq(i, FALSE)
    \/ IrqReturn

Spec == Init /\ [][Next]_vars

-----------------------------------------------------------------------------
(* Properties                                                              *)

\* No return is half done, and main() is not between the core and NS.
Settled == boot.pc # "open" /\ \A k \in 1..Len(cpu) : cpu[k].pc = "run"

\* Activations of p, innermost last.
Of(p) == {k \in 1..Len(cpu) : cpu[k].part = p}
Inner(p) == CHOOSE k \in Of(p) : \A j \in Of(p) : j <= k

\* The state p must be in: that of its innermost activation, by what is on top
\* of it.
StateOf(p) ==
    IF Of(p) = {} THEN "IDLE"
    ELSE LET k == Inner(p) IN
         IF k = Len(cpu)
         THEN IF cpu[k].kind = "irq" THEN "HANDLING_IRQ" ELSE "RUNNING"
         ELSE IF cpu[k + 1].kind = "irq" THEN "SUSPENDED" ELSE "BLOCKED"

\* However calls and interrupts nest, and wherever an interrupt cuts into the
\* unmasked return of a call between partitions, the database comes out right:
\* the running index, every partition's state and the caller it returns to are
\* those of the code on the processor, the lock counts the calls in progress,
\* and each context stack holds one frame per interrupt in progress.
DatabaseMatches ==
    Settled =>
      /\ Top.kind = "core" \/ db.running = Top.part
      /\ \A p \in Parts \ {CORE} :
            Of(p) # {} \/ boot.pc = "ns" => db.state[p] = StateOf(p)
      /\ \A k \in 2..Len(cpu) :
            k = Inner(cpu[k].part) => db.caller[cpu[k].part] = cpu[k - 1].part
      /\ lock = Cardinality({k \in 1..Len(cpu) : cpu[k].kind = "call"})
      /\ \A p \in Parts :
            Len(db.ctx[p]) =
              Cardinality({k \in 1..Len(cpu) :
                              cpu[k].kind = "irq" /\ cpu[k].part = p})
              + Cardinality({k \in 2..Len(cpu) :
                              cpu[k].kind = "irq" /\ cpu[k - 1].part = p})

\* tfm_spm_db.inc.template and tfm_secure_irq_handling.rst size the context
\* stacks: one interrupted frame (a word), and for each line of the partition
\* one more and a handler frame (two words); the internal partitions have room
\* for one interrupted frame.
CtxStackBound ==
    \A p \in Parts :
        LET words == Len(db.ctx[p])
                     + Cardinality({k \in 1..Len(db.ctx[p]) :
                                      db.ctx[p][k].kind = "hndl"})
        IN  words <= 1 + 3 * Cardinality({i \in Irqs : IrqPart[i] = p})

\* tfm_core_get_caller_client_id() tells a service who called it: the thread
\* that made the call, whatever threads the RTOS has switched to, created or
\* ended since, or the calling partition.
CallerIdRight ==
    \A k \in 2..Len(cpu) :
        cpu[k].kind = "call" => db.client[cpu[k].part] = cpu[k].client

\* The slots L hold the free list: its head, and with a slot the one linked
\* behind it.
HoldFreeList(L) == {ns.free} \cup {ns.next[s] : s \in L} \subseteq L \cup {-1}

\* No slot of NsClientIdList serves two threads, none in use is anywhere on the
\* free list, and the active one belongs to the thread that runs
\* (TZ_AllocModuleContext_S(), TZ_FreeModuleContext_S()).
ContextsApart ==
    /\ \A t, u \in Threads : t # u /\ tz[t] # 0 => tz[t] # tz[u]
    /\ \E L \in SUBSET NsSlots :
          /\ HoldFreeList(L)
          /\ \A t \in Threads : tz[t] # 0 => tz[t] - 1 \notin L /\ ns.id[tz[t] - 1] # 0
    /\ ns.active = IF tz[cur] = 0 THEN 0 ELSE tz[cur] - 1

\* Partitions that call along the manifest's dependencies and threads that use
\* the non-secure lock are never refused: no interleaving of interrupts, calls
\* and thread switches drives the manager into tfm_core_panic().
NeverPanics == ~panicked

\* A partition that failed to initialise is closed: none of its code runs again.
FailedIsClosed ==
    \A p \in InitFails : boot.idx > p => db.state[p] = "CLOSED"
=============================================================================
