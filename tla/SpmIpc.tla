------------------------------- MODULE SpmIpc -------------------------------
(***************************************************************************)
(* The PSA inter-process communication of the IPC-model secure partition   *)
(* manager: connections and their pool, the message queue of each RoT      *)
(* service, the signals of each partition, and the PSA client and service  *)
(* APIs as SVC handlers on top of the scheduler of TfmThread.              *)
(*                                                                         *)
(* An SVC handler and an interrupt handler are one step each; PendSV is    *)
(* another.  A thread runs its own code when it is current and no PendSV   *)
(* is pending.  An interrupt may come at any time, also between an SVC     *)
(* and the PendSV that the SVC has requested.                              *)
(*                                                                         *)
(* Partitions are well behaved: they use signals that psa_wait() reported, *)
(* reply once to messages they got and call on handles they were given, so *)
(* a PROGRAMMER ERROR is never their fault.  The checks of the SPM are     *)
(* kept: failing one sets panic.                                           *)
(***************************************************************************)
EXTENDS TfmThread, FiniteSets

CONSTANTS
  NS,                \* the thread of TFM_SP_NON_SECURE_ID
  Service, Owner,    \* the RoT services and the partition of each
  Irq, IrqOwner,     \* tfm_core_irq_signals[]: the interrupt signals
  DOORBELL,          \* PSA_DOORBELL
  Handle, PoolInit,  \* the chunks of conn_handle_pool, in address order
  RHandle,           \* reverse handles a service may set
  Deps,              \* services each thread connects to (p_dependencies[])
  NotifyTo,          \* partitions each partition calls psa_notify() on
  Masks,             \* signal masks each partition waits for
  Pollers,           \* partitions that use PSA_POLL
  ConnectReply,      \* statuses a service answers PSA_IPC_CONNECT with
  CallReply,         \* statuses a service answers a request with
  WaitWhileHolding   \* may a partition wait with an unanswered message?

Signal == Service \cup Irq \cup {DOORBELL}
SigOwner(p) == {s \in Service : Owner[s] = p} \cup {i \in Irq : IrqOwner[i] = p}
                 \cup {DOORBELL}   \* runtime_data.assigned_signals
Status == {"PSA_SUCCESS", "CONNECTION_REFUSED", "CONNECTION_BUSY",
           "PROGRAMMER_ERROR"}

ASSUME IpcAssumption ==
  /\ NS \in Thread
  /\ Owner \in [Service -> Thread \ {NS}]
  /\ IrqOwner \in [Irq -> Thread \ {NS}]
  /\ Service \cap Irq = {} /\ DOORBELL \notin Service \cup Irq
  /\ NULL \notin Service \cup Handle \cup RHandle \cup Status
  /\ Handle \cap Status = {}
  /\ PoolInit \in Seq(Handle)
  /\ \A h \in Handle : \E i \in DOMAIN PoolInit : PoolInit[i] = h
  /\ \A i, j \in DOMAIN PoolInit : PoolInit[i] = PoolInit[j] => i = j
  /\ Deps \in [Thread -> SUBSET Service]
  /\ NotifyTo \in [Thread -> SUBSET (Thread \ {NS})]
  /\ Masks \in [Thread -> SUBSET SUBSET Signal] /\ Masks[NS] = {}
  /\ Pollers \subseteq Thread
  /\ ConnectReply \subseteq Status \ {"PROGRAMMER_ERROR"}
  /\ CallReply \subseteq Status
  /\ WaitWhileHolding \in BOOLEAN

\* A system that cannot deadlock by its own design: a partition waits for
\* signals of its own and for all its services, answers its messages before it
\* waits again, and the calls between partitions form no cycle.
Attentive ==
  /\ \A t \in Thread : \A m \in Masks[t] :
       /\ m \cap SigOwner(t) # {}
       /\ \A s \in Service : Owner[s] = t => s \in m
  /\ ~WaitWhileHolding

Descends(rank) ==
  \A t \in Thread : \A s \in Deps[t] : rank[Owner[s]] < rank[t]

SoundSystem == Attentive /\ \E rank \in [Thread -> Nat] : Descends(rank)

\* A system whose priorities keep signals from a partition that waits for an
\* answer: a partition that calls others has no interrupt, and every partition
\* its calls reach is more urgent than the threads that may signal it.
Signallers(t) ==
  {v \in Thread \ {t} : t \in NotifyTo[v] \/ \E s \in Deps[v] : Owner[s] = t}

Reaches(below, t) ==
  /\ \A s \in Deps[t] : Owner[s] \in below
  /\ \A u \in below : \A s \in Deps[u] : Owner[s] \in below

Shields(below, t) ==
  /\ \A i \in Irq : IrqOwner[i] # t
  /\ \A v \in Signallers(t), u \in below : Prior[u] < Prior[v]

ShieldedSystem ==
  \A t \in Thread : Deps[t] # {} =>
    \E below \in SUBSET Thread : Reaches(below, t) /\ Shields(below, t)

VARIABLES
  signals,    \* runtime_data.signals of each partition
  mask,       \* runtime_data.signal_mask
  evntOwner,  \* runtime_data.signal_evnt.owner
  conn,       \* tfm_conn_handle_t of each chunk
  msg,        \* its internal_msg
  pool,       \* conn_handle_pool's list of free chunks
  queue,      \* msg_queue of each service
  irqOn,      \* interrupt lines enabled in the NVIC
  r0,         \* the return value in the frame of a thread's blocking call
  api,        \* the blocking API call a thread is in, if any
  owned,      \* connection handles a client was given and has not closed
  held,       \* messages a partition got and has not answered
  seen,       \* signals its last psa_wait() reported and it has not served
  panic       \* tfm_core_panic() has reset the system

ipcVars == <<sched, curr, pendsv, signals, mask, evntOwner, conn, msg, pool,
             queue, irqOn, r0, api, owned, held, seen, panic>>
spmVars == <<mask, evntOwner, irqOn, panic>>   \* what messages do not touch
connVars == <<conn, msg, pool, queue>>
userVars == <<owned, held, seen>>

ClientFn == {"connect", "call", "close"}
WaitFn == {"wait", "poll"}
NoCall == [fn |-> "none", h |-> NULL, reply |-> NULL]

Value == [st: Status \cup Handle \cup {NULL}, sigs: SUBSET Signal]
Ret(st) == [st |-> st, sigs |-> {}]
RetSignals(S) == [st |-> NULL, sigs |-> S]

FreeConn == [status |-> "IDLE", client |-> NULL, service |-> NULL,
             rhandle |-> NULL]
FreeMsg == [magic |-> FALSE, type |-> "NONE", service |-> NULL,
            owner |-> NULL, next |-> NULL, rhandle |-> NULL]
-----------------------------------------------------------------------------
(* Events (tfm_wait.c) *)

Wakes(s, owner) == owner # NULL /\ s.state[owner] = "BLOCK"

\* Mutant: only a thread more urgent than the current one is woken.
tfm_event_wake_urgent(s, owner) ==
  IF Wakes(s, owner) /\ Prior[owner] < Prior[curr]
  THEN tfm_core_thrd_set_state(s, owner, "RUNNING") ELSE s

tfm_event_wake(s, owner) ==
  IF Wakes(s, owner) THEN tfm_core_thrd_set_state(s, owner, "RUNNING") ELSE s

tfm_event_wait(s) == tfm_core_thrd_set_state(s, curr, "BLOCK")

\* Mutant: the woken thread keeps the value its SVC returned.
tfm_core_thrd_set_retval_lost(s, owner, val) == {r0}

\* The return value is written through the context saved at the thread's last
\* switch.  For the current thread that context is stale: the value reaches
\* the frame of the present call only if both frames are at one address.
tfm_core_thrd_set_retval(s, owner, val) ==
  IF ~Wakes(s, owner) THEN {r0}
  ELSE {[r0 EXCEPT ![owner] = val]} \cup (IF owner = curr THEN {r0} ELSE {})
-----------------------------------------------------------------------------
(* Message queue (tfm_message_queue.c), connections and messages           *)
(* (spm_api_ipc.c), operators on the values of the variables.              *)

tfm_msg_enqueue(q, h) ==
  [head |-> IF q.size = 0 THEN h ELSE q.head, tail |-> h, size |-> q.size + 1]

LinkTail(ms, q, h) == IF q.size = 0 THEN ms ELSE [ms EXCEPT ![q.tail].next = h]

\* Mutant: the queue keeps its head.
tfm_msg_dequeue_stuck(q, ms) == [q EXCEPT !.size = @ - 1]

tfm_msg_dequeue(q, ms) == [q EXCEPT !.head = ms[q.head].next, !.size = @ - 1]

tfm_pool_alloc(p) == Tail(p)
tfm_pool_free(p, h) == Append(p, h)

tfm_spm_create_conn_handle(h, s, client) ==
  [conn EXCEPT ![h].service = s, ![h].status = "IDLE", ![h].client = client]

\* memset() of the message, then its new contents; the sender becomes the
\* owner of ack_evnt when tfm_spm_send_event() blocks it.
tfm_spm_fill_msg(cs, h, s, type) ==
  [msg EXCEPT ![h] = [magic |-> TRUE, type |-> type, service |-> s,
                      owner |-> curr, next |-> NULL,
                      rhandle |-> cs[h].rhandle]]

tfm_spm_validate_conn_handle(h, client) == conn[h].client = client

tfm_spm_get_msg_from_handle(h, p) == msg[h].magic /\ Owner[msg[h].service] = p
-----------------------------------------------------------------------------
(* What runs when *)

InThread(t) == curr = t /\ ~pendsv /\ ~panic   \* thread mode
Ready(t) == InThread(t) /\ api[t] = NoCall     \* in the partition's own code

tfm_core_panic ==
  /\ panic' = TRUE
  /\ UNCHANGED <<sched, curr, pendsv, signals, mask, evntOwner, irqOn, r0, api>>
  /\ UNCHANGED connVars /\ UNCHANGED userVars

\* The message is queued, the service's signal raised, the service's partition
\* woken and the sender blocked; the SVC returns PSA_SUCCESS for the time being.
tfm_spm_send_event(t, fn, h, s, ms) ==
  LET p == Owner[s]
  IN  /\ queue' = [queue EXCEPT ![s] = tfm_msg_enqueue(@, h)]
      /\ msg' = LinkTail(ms, queue[s], h)
      /\ signals' = [signals EXCEPT ![p] = @ \cup {s}]
      /\ sched' = tfm_event_wait(tfm_event_wake(sched, evntOwner[p]))
      /\ pendsv' = TRUE
      /\ \E r \in tfm_core_thrd_set_retval(sched, evntOwner[p],
                      RetSignals((signals[p] \cup {s}) \cap mask[p])) :
           r0' = [r EXCEPT ![t] = Ret("PSA_SUCCESS")]
      /\ api' = [api EXCEPT ![t] = [fn |-> fn, h |-> h, reply |-> NULL]]
      /\ UNCHANGED <<curr, held, seen>> /\ UNCHANGED spmVars

\* The SVC returns at once with val: no message, no other thread involved.
ReturnAtOnce(t, fn, val) ==
  /\ r0' = [r0 EXCEPT ![t] = Ret(val)]
  /\ api' = [api EXCEPT ![t] = [fn |-> fn, h |-> NULL, reply |-> val]]
  /\ UNCHANGED <<sched, curr, pendsv, signals, held, seen, owned>>
  /\ UNCHANGED spmVars /\ UNCHANGED connVars
-----------------------------------------------------------------------------
(* PSA client API (tfm_psa_client_call.c) *)

psa_connect(t, s) ==
  /\ Ready(t)
  /\ s \in Deps[t]
  /\ IF pool = <<>> THEN ReturnAtOnce(t, "connect", "CONNECTION_BUSY")
     ELSE LET h == Head(pool)
              cs == tfm_spm_create_conn_handle(h, s, t)
          IN  /\ pool' = tfm_pool_alloc(pool)
              /\ conn' = cs
              /\ tfm_spm_send_event(t, "connect", h, s,
                                    tfm_spm_fill_msg(cs, h, s, "CONNECT"))
              /\ UNCHANGED owned

psa_call(t, h) ==
  /\ Ready(t)
  /\ h \in owned[t]
  /\ IF ~tfm_spm_validate_conn_handle(h, t) \/ conn[h].status = "ACTIVE"
     THEN tfm_core_panic
     ELSE IF conn[h].status = "CONNECT_ERROR"
     THEN ReturnAtOnce(t, "call", "PROGRAMMER_ERROR")
     ELSE /\ tfm_spm_send_event(t, "call", h, conn[h].service,
                       tfm_spm_fill_msg(conn, h, conn[h].service, "CALL"))
          /\ UNCHANGED <<conn, pool, owned>>

psa_close(t, h) ==
  /\ Ready(t)
  /\ h \in owned[t]
  /\ IF ~tfm_spm_validate_conn_handle(h, t) \/ conn[h].status = "ACTIVE"
     THEN tfm_core_panic
     ELSE /\ tfm_spm_send_event(t, "close", h, conn[h].service,
                       tfm_spm_fill_msg(conn, h, conn[h].service, "DISCONNECT"))
          /\ owned' = [owned EXCEPT ![t] = @ \ {h}]
          /\ UNCHANGED <<conn, pool>>
-----------------------------------------------------------------------------
(* PSA service API (tfm_svcalls.c) *)

\* A partition waits when it has served what the last wait reported and, unless
\* it answers messages later, has answered every message.
psa_wait(t, m, timeout) ==
  /\ Ready(t)
  /\ m \in Masks[t]
  /\ seen[t] = {}
  /\ held[t] # {} => WaitWhileHolding
  /\ timeout = "poll" => t \in Pollers
  /\ IF m \cap SigOwner(t) = {} THEN tfm_core_panic
     ELSE /\ mask' = [mask EXCEPT ![t] = m]
          /\ IF timeout = "wait" /\ signals[t] \cap m = {}
             THEN /\ evntOwner' = [evntOwner EXCEPT ![t] = t]
                  /\ sched' = tfm_event_wait(sched)
                  /\ pendsv' = TRUE
             ELSE UNCHANGED <<evntOwner, sched, pendsv>>
          /\ r0' = [r0 EXCEPT ![t] = RetSignals(signals[t] \cap m)]
          /\ api' = [api EXCEPT ![t] = [fn |-> timeout, h |-> NULL,
                                        reply |-> NULL]]
          /\ UNCHANGED <<curr, signals, irqOn, panic>>
          /\ UNCHANGED connVars /\ UNCHANGED userVars

\* Mutant: the signal is cleared although messages are left in the queue.
ClearIfEmpty_always(S, s, q) == S \ {s}

\* The signal stays raised until the last message has been taken.
ClearIfEmpty(S, s, q) == IF q.size = 0 THEN S \ {s} ELSE S

psa_get(t, s) ==
  /\ Ready(t)
  /\ s \in seen[t] \cap Service
  /\ IF s \notin signals[t] \/ (queue[s].size > 0 /\ queue[s].head = NULL)
     THEN tfm_core_panic
     ELSE /\ seen' = [seen EXCEPT ![t] = @ \ {s}]
          /\ IF queue[s].size = 0   \* PSA_ERROR_DOES_NOT_EXIST
             THEN UNCHANGED <<queue, conn, held, signals>>
             ELSE LET h == queue[s].head
                      q == tfm_msg_dequeue(queue[s], msg)
                  IN  /\ queue' = [queue EXCEPT ![s] = q]
                      /\ conn' = [conn EXCEPT ![h].status = "ACTIVE"]
                      /\ held' = [held EXCEPT ![t] = @ \cup {h}]
                      /\ signals' = [signals EXCEPT ![t] =
                                       ClearIfEmpty(@, s, q)]
          /\ UNCHANGED <<sched, curr, pendsv, msg, pool, r0, api, owned>>
          /\ UNCHANGED spmVars

tfm_spm_set_rhandle(h, r) == [conn EXCEPT ![h].rhandle = r]

psa_set_rhandle(t, h, r) ==
  /\ Ready(t)
  /\ h \in held[t]
  /\ msg[h].type \in {"CONNECT", "CALL"}
  /\ IF ~tfm_spm_get_msg_from_handle(h, t) THEN tfm_core_panic
     ELSE /\ msg' = [msg EXCEPT ![h].rhandle = r]
          /\ conn' = tfm_spm_set_rhandle(h, r)
          /\ UNCHANGED <<sched, curr, pendsv, signals, pool, queue, r0, api>>
          /\ UNCHANGED spmVars /\ UNCHANGED userVars

\* Statuses a well-behaved service answers h with.  PROGRAMMER_ERROR would
\* reset the system if the client were a secure partition.
ReplyStatus(h) ==
  CASE msg[h].type = "CONNECT" -> ConnectReply
    [] msg[h].type = "CALL" ->
         {st \in CallReply : st = "PROGRAMMER_ERROR" => conn[h].client = NS}
    [] OTHER -> {"PSA_SUCCESS"}

ReplyValue(h, status) ==
  CASE msg[h].type = "CONNECT" -> IF status = "PSA_SUCCESS" THEN h ELSE status
    [] msg[h].type = "CALL" -> status
    [] OTHER -> "PSA_SUCCESS"

\* Mutant: a refused connection is not given back to the pool.
FreesHandle_close_only(h, status) == msg[h].type = "DISCONNECT"

\* Mutant: every answer but PSA_SUCCESS ends the connection.
FreesHandle_error(h, status) ==
  msg[h].type = "DISCONNECT" \/ status # "PSA_SUCCESS"

\* tfm_spm_free_conn_handle() is called for a closed or refused connection,
\* not for one answered with PSA_ERROR_CONNECTION_BUSY.
FreesHandle(h, status) ==
  \/ msg[h].type = "DISCONNECT"
  \/ msg[h].type = "CONNECT" /\ status = "CONNECTION_REFUSED"

psa_reply(t, h, status) ==
  /\ Ready(t)
  /\ h \in held[t]
  /\ status \in ReplyStatus(h)
  /\ LET ret == ReplyValue(h, status)
         client == conn[h].client
         frees == FreesHandle(h, status)
     IN IF \/ ~tfm_spm_get_msg_from_handle(h, t)
           \/ ret = "PROGRAMMER_ERROR" /\ client # NS
        THEN tfm_core_panic
        ELSE /\ conn' = [conn EXCEPT ![h].status =
                  IF ret = "PROGRAMMER_ERROR" THEN "CONNECT_ERROR" ELSE "IDLE"]
             /\ msg' = [msg EXCEPT ![h].magic = ~frees]
             /\ pool' = IF frees THEN tfm_pool_free(pool, h) ELSE pool
             /\ sched' = tfm_event_wake(sched, msg[h].owner)
             /\ pendsv' = (pendsv \/ Wakes(sched, msg[h].owner))
             /\ r0' \in tfm_core_thrd_set_retval(sched, msg[h].owner, Ret(ret))
             /\ api' = [c \in Thread |-> IF c = client /\ api[c].h = h
                          THEN [api[c] EXCEPT !.reply = ret] ELSE api[c]]
             /\ held' = [held EXCEPT ![t] = @ \ {h}]
             /\ UNCHANGED <<curr, signals, queue, owned, seen>>
             /\ UNCHANGED spmVars

\* Raise sig for partition p and wake its thread if that is blocked.
notify_with_signal(p, sig) ==
  /\ signals' = [signals EXCEPT ![p] = @ \cup {sig}]
  /\ sched' = tfm_event_wake(sched, evntOwner[p])
  /\ pendsv' = (pendsv \/ Wakes(sched, evntOwner[p]))
  /\ r0' \in tfm_core_thrd_set_retval(sched, evntOwner[p],
                 RetSignals((signals[p] \cup {sig}) \cap mask[p]))
  /\ UNCHANGED <<curr, mask, evntOwner, api, panic>>
  /\ UNCHANGED connVars /\ UNCHANGED userVars

psa_notify(t, p) ==
  /\ Ready(t)
  /\ p \in NotifyTo[t]
  /\ notify_with_signal(p, DOORBELL)
  /\ UNCHANGED irqOn

\* The handler of the secure interrupt i.
tfm_irq_handler(i) ==
  /\ curr # NULL /\ ~panic
  /\ irqOn[i]
  /\ irqOn' = [irqOn EXCEPT ![i] = FALSE]
  /\ notify_with_signal(IrqOwner[i], i)

\* Mutant: all signals of the partition are cleared.
ClearSignal_all(t, sig) ==
  /\ signals' = [signals EXCEPT ![t] = {}]
  /\ seen' = [seen EXCEPT ![t] = @ \ {sig}]
  /\ UNCHANGED <<sched, curr, pendsv, mask, evntOwner, r0, api, owned, held>>
  /\ UNCHANGED panic /\ UNCHANGED connVars

\* The current partition clears a signal it has served.
ClearSignal(t, sig) ==
  /\ signals' = [signals EXCEPT ![t] = @ \ {sig}]
  /\ seen' = [seen EXCEPT ![t] = @ \ {sig}]
  /\ UNCHANGED <<sched, curr, pendsv, mask, evntOwner, r0, api, owned, held>>
  /\ UNCHANGED panic /\ UNCHANGED connVars

psa_clear(t) ==
  /\ Ready(t)
  /\ DOORBELL \in seen[t]
  /\ IF DOORBELL \notin signals[t] THEN tfm_core_panic
     ELSE ClearSignal(t, DOORBELL) /\ UNCHANGED irqOn

psa_eoi(t, i) ==
  /\ Ready(t)
  /\ i \in seen[t] \cap Irq
  /\ IF i \notin signals[t] \/ IrqOwner[i] # t THEN tfm_core_panic
     ELSE ClearSignal(t, i) /\ irqOn' = [irqOn EXCEPT ![i] = TRUE]

\* tfm_svcall_enable_irq() and tfm_svcall_disable_irq() on a line of t.
SetIrq(t, i, on) ==
  /\ Ready(t)
  /\ IrqOwner[i] = t
  /\ irqOn' = [irqOn EXCEPT ![i] = on]
  /\ UNCHANGED <<sched, curr, pendsv, signals, mask, evntOwner, r0, api, panic>>
  /\ UNCHANGED connVars /\ UNCHANGED userVars
-----------------------------------------------------------------------------
(* The return of a blocking call, boot, and the specification *)

\* The thread runs again inside its call and takes the result from r0.
Return(t) ==
  /\ InThread(t)
  /\ api[t] # NoCall
  /\ api' = [api EXCEPT ![t] = NoCall]
  /\ owned' = IF api[t].fn = "connect" /\ r0[t].st \in Handle
              THEN [owned EXCEPT ![t] = @ \cup {r0[t].st}] ELSE owned
  /\ seen' = IF api[t].fn \in WaitFn THEN [seen EXCEPT ![t] = r0[t].sigs]
             ELSE seen
  /\ UNCHANGED <<sched, curr, pendsv, signals, r0, held>>
  /\ UNCHANGED spmVars /\ UNCHANGED connVars

IpcInit ==
  /\ ThrdInit
  /\ signals = [t \in Thread |-> {}]
  /\ mask = [t \in Thread |-> {}]
  /\ evntOwner = [t \in Thread |-> NULL]
  /\ conn = [h \in Handle |-> FreeConn]
  /\ msg = [h \in Handle |-> FreeMsg]
  /\ pool = PoolInit
  /\ queue = [s \in Service |-> [head |-> NULL, tail |-> NULL, size |-> 0]]
  /\ irqOn = [i \in Irq |-> FALSE]
  /\ r0 = [t \in Thread |-> Ret(NULL)]
  /\ api = [t \in Thread |-> NoCall]
  /\ owned = [t \in Thread |-> {}]
  /\ held = [t \in Thread |-> {}]
  /\ seen = [t \in Thread |-> {}]
  /\ panic = FALSE

restVars == <<signals, mask, evntOwner, conn, msg, pool, queue, irqOn, r0, api,
              owned, held, seen, panic>>

\* tfm_spm_init() starts the thread of every partition, then the scheduler
\* with the non-secure entry thread as the current one.
Boot ==
  \/ \E t \in Thread : Start(t) /\ UNCHANGED restVars
  \/ /\ Started = Thread
     /\ tfm_core_thrd_start_scheduler(NS)
     /\ UNCHANGED restVars

Schedule == ~panic /\ PendSV /\ UNCHANGED restVars

ClientStep(t) ==
  \/ \E s \in Service : psa_connect(t, s)
  \/ \E h \in Handle : psa_call(t, h) \/ psa_close(t, h)

Wait(t) == \E m \in Masks[t], timeout \in WaitFn : psa_wait(t, m, timeout)
Get(t) == \E s \in Service : psa_get(t, s)
Reply(t) == \E h \in Handle, st \in Status : psa_reply(t, h, st)

SignalStep(t) ==
  \/ psa_clear(t)
  \/ \E i \in Irq : psa_eoi(t, i)

OtherStep(t) ==
  \/ \E h \in Handle, r \in RHandle : psa_set_rhandle(t, h, r)
  \/ \E p \in Thread : psa_notify(t, p)
  \/ \E i \in Irq, on \in BOOLEAN : SetIrq(t, i, on)

ThreadStep(t) ==
  \/ Return(t)
  \/ ClientStep(t)
  \/ Wait(t)
  \/ Get(t)
  \/ Reply(t)
  \/ SignalStep(t)
  \/ OtherStep(t)

IpcNext ==
  \/ Boot
  \/ Schedule
  \/ \E i \in Irq : tfm_irq_handler(i)
  \/ \E t \in Thread : ThreadStep(t)

IpcSpec == IpcInit /\ [][IpcNext]_ipcVars
-----------------------------------------------------------------------------
(* Properties *)

Pointer(S) == S \cup {NULL}
Conn == [status: {"IDLE", "ACTIVE", "CONNECT_ERROR"}, client: Pointer(Thread),
         service: Pointer(Service), rhandle: Pointer(RHandle)]
Msg == [magic: BOOLEAN, type: {"NONE", "CONNECT", "CALL", "DISCONNECT"},
        service: Pointer(Service), owner: Pointer(Thread),
        next: Pointer(Handle), rhandle: Pointer(RHandle)]
Queue == [head: Pointer(Handle), tail: Pointer(Handle), size: Nat]
ApiCall == [fn: ClientFn \cup WaitFn \cup {"none"}, h: Pointer(Handle),
            reply: Status \cup Handle \cup {NULL}]

\* Connections, queues, signals and calls hold values of their types.
IpcTypeOK ==
  /\ ThrdTypeOK
  /\ signals \in [Thread -> SUBSET Signal]
  /\ mask \in [Thread -> SUBSET Signal]
  /\ evntOwner \in [Thread -> Pointer(Thread)]
  /\ conn \in [Handle -> Conn]
  /\ msg \in [Handle -> Msg]
  /\ pool \in Seq(Handle)
  /\ queue \in [Service -> Queue]
  /\ irqOn \in [Irq -> BOOLEAN]
  /\ r0 \in [Thread -> Value]
  /\ api \in [Thread -> ApiCall]
  /\ owned \in [Thread -> SUBSET Handle]
  /\ held \in [Thread -> SUBSET Handle]
  /\ seen \in [Thread -> SUBSET Signal]
  /\ panic \in BOOLEAN

\* psa_get() keeps a service's signal raised "until no remaining message"
\* and tfm_spm_send_event() raises it with the first one: a partition that
\* serves its signals loses no message and is never signalled for nothing.
SignalIffQueued ==
  \A s \in Service : s \in signals[Owner[s]] <=> queue[s].size > 0

\* A signal that psa_wait() reported stays raised until the partition itself
\* has served it: psa_get(), psa_clear() and psa_eoi() on reported signals
\* never meet the fatal "not currently asserted".
SeenAsserted ==
  \A t \in Thread :
    /\ seen[t] \subseteq signals[t]
    /\ api[t].fn \in WaitFn => r0[t].sigs \subseteq signals[t]

\* The inductive invariant of the IPC: the scheduler is in order, a partition
\* only has signals of its own and only its own thread waits for them, and a
\* connection that has a client has a service.
IpcInv ==
  /\ IpcTypeOK
  /\ SchedInv(sched)
  /\ curr # NULL => sched.state[curr] # "CREATING"
  /\ \A t \in Thread : evntOwner[t] \in {NULL, t}
  /\ \A t \in Thread : \A s \in signals[t] \cap Service : Owner[s] = t
  /\ \A h \in Handle : conn[h].client # NULL => conn[h].service # NULL
  /\ SignalIffQueued
  /\ SeenAsserted

\* The messages of q from its head, following the next pointers.
Chain(q) ==
  LET nth[i \in 1..q.size] ==
        IF i = 1 THEN q.head
        ELSE IF nth[i - 1] = NULL THEN NULL ELSE msg[nth[i - 1]].next
  IN  nth

Queued(h) ==
  \E s \in Service : \E i \in 1..queue[s].size : Chain(queue[s])[i] = h
Held(h) == \E t \in Thread : h \in held[t]
InFlight(h) == Queued(h) \/ Held(h)

\* Each queue is a chain of size distinct messages from head to tail, all
\* marked as active messages of this service and none of them being served.
QueueIntegrity ==
  \A s \in Service :
    LET q == queue[s]
        c == Chain(q)
    IN  /\ q.size > 0 => c[q.size] = q.tail
        /\ \A i \in 1..q.size :
             /\ c[i] # NULL
             /\ msg[c[i]].magic /\ msg[c[i]].service = s
             /\ ~Held(c[i])
             /\ \A j \in 1..(i - 1) : c[j] # c[i]

\* The assertion of update_caller_outvec_len(): when a request is answered its
\* sender is blocked.
OutvecAssert ==
  \A t \in Thread : \A h \in held[t] :
    InThread(t) /\ msg[h].type = "CALL" => sched.state[msg[h].owner] = "BLOCK"

\* As long as a message is queued or served its sender is blocked, in the call
\* on this very connection; the assertion OutvecAssert follows.
CallerBlocked ==
  \A h \in Handle : InFlight(h) =>
    /\ msg[h].owner # NULL
    /\ sched.state[msg[h].owner] = "BLOCK"
    /\ api[msg[h].owner].h = h
    /\ api[msg[h].owner].reply = NULL

\* A client call comes back only after the service has answered it, with the
\* value the service gave, although the SVC itself returned PSA_SUCCESS.
CallReturnsReply ==
  \A t \in Thread : InThread(t) /\ api[t].fn \in ClientFn =>
    /\ api[t].reply # NULL
    /\ r0[t] = Ret(api[t].reply)

\* A chunk is in use while it is in a message being delivered or served, is
\* a client's open connection, or is on its way to the client.
InUse(h) ==
  \/ InFlight(h)
  \/ \E t \in Thread : h \in owned[t] \/ api[t].reply = h

\* No chunk that is in use is in the pool, and none is in the pool twice: a
\* connection is never handed out again while somebody works on it.
PoolSound ==
  \A i \in DOMAIN pool :
    /\ ~InUse(pool[i])
    /\ ~msg[pool[i]].magic
    /\ \A j \in 1..(i - 1) : pool[j] # pool[i]

\* Every chunk that nobody uses is in the pool: no sequence of connections,
\* refused connections and closes makes conn_handle_pool shrink.
HandlesNotLeaked ==
  \A h \in Handle : ~InUse(h) => \E i \in DOMAIN pool : pool[i] = h

\* Well-behaved partitions never make the SPM reset the system.
NoPanic == ~panic

\* tfm_event_wait() really stops its caller: the thread that runs is RUNNING.
\* Since PendSV does not switch when no thread is RUNNING, this says that the
\* threads are never all blocked.
BlockedDoesNotRun ==
  \A t \in Thread : InThread(t) => sched.state[t] = "RUNNING"

\* A thread that is blocked in a client call is woken only by the answer to it.
\* tfm_event_wake() would also wake it for a signal of its partition.
AnswerWakes ==
  \A t \in Thread :
    /\ api[t].fn \in ClientFn
    /\ sched.state[t] = "BLOCK"
    /\ sched'.state[t] # "BLOCK"
    => api'[t].reply # NULL

OnlyReplyWakes == [][AnswerWakes]_ipcVars

\* psa_wait() with PSA_BLOCK returns at least one signal of its mask.
WaitReturnsSignal ==
  \A t \in Thread : InThread(t) /\ api[t].fn = "wait" => r0[t].sigs # {}

\* The fairness of the code: a pending PendSV is taken and a running thread
\* goes on; a partition sooner or later serves a signal it was given, answers
\* a message it got and waits again, however many other calls it makes.
IpcFairness ==
  /\ WF_ipcVars(Schedule)
  /\ \A t \in Thread : WF_ipcVars(Return(t))
  /\ \A t \in Thread \ {NS} :
       /\ WF_ipcVars(SignalStep(t))
       /\ SF_ipcVars(Get(t))
       /\ SF_ipcVars(Reply(t))
       /\ SF_ipcVars(Wait(t))

IpcFairSpec == IpcSpec /\ IpcFairness

\* Every connect, call and close comes back to its client.
ClientReturns ==
  \A t \in Thread : api[t].fn \in ClientFn ~> api[t].fn = "none"
=============================================================================
