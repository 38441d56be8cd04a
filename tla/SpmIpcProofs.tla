---------------------------- MODULE SpmIpcProofs ----------------------------
(***************************************************************************)
(* The inductive invariant of the IPC, for every set of partitions,        *)
(* services, interrupts and connections: whatever is woken, whenever, the  *)
(* scheduler stays in order, a service's signal is raised exactly while    *)
(* its queue has messages, and a signal that psa_wait() reported stays     *)
(* raised until the partition has served it.                               *)
(***************************************************************************)
EXTENDS SpmIpc, TfmThreadProofs

\* Waking keeps the scheduler in order and creates no thread.
LEMMA WakeProperties ==
  ASSUME NEW s \in Sched, SchedInv(s), NEW owner \in Thread \cup {NULL}
  PROVE  LET u == tfm_event_wake(s, owner)
         IN  /\ u \in Sched /\ SchedInv(u)
             /\ \A t \in Thread : s.state[t] # "CREATING" =>
                                    u.state[t] # "CREATING"
<1>1. CASE ~Wakes(s, owner)
  BY <1>1 DEF tfm_event_wake
<1>2. CASE Wakes(s, owner)
  <2> DEFINE u == tfm_core_thrd_set_state(s, owner, "RUNNING")
  <2>1. owner \in Thread /\ s.state[owner] # "CREATING"
    BY <1>2 DEF Wakes
  <2>2. /\ u \in Sched /\ SchedInv(u)
        /\ u.state = [s.state EXCEPT ![owner] = "RUNNING"]
    BY <2>1, SetStateProperties
  <2>3. tfm_event_wake(s, owner) = u
    BY <1>2 DEF tfm_event_wake
  <2> HIDE DEF u
  <2> QED
    BY <2>1, <2>2, <2>3 DEF Sched
<1> QED
  BY <1>1, <1>2

\* Blocking the current thread keeps the scheduler in order.
LEMMA WaitProperties ==
  ASSUME NEW s \in Sched, SchedInv(s), curr \in Thread,
         s.state[curr] # "CREATING"
  PROVE  LET u == tfm_event_wait(s)
         IN  /\ u \in Sched /\ SchedInv(u)
             /\ u.state[curr] # "CREATING"
<1> DEFINE u == tfm_core_thrd_set_state(s, curr, "BLOCK")
<1>1. /\ u \in Sched /\ SchedInv(u)
      /\ u.state = [s.state EXCEPT ![curr] = "BLOCK"]
  BY SetStateProperties
<1>2. tfm_event_wait(s) = u
  BY DEF tfm_event_wait
<1> HIDE DEF u
<1> QED
  BY <1>1, <1>2 DEF Sched

\* A wake-up changes at most the return value of the thread it wakes.
LEMMA RetvalProperties ==
  ASSUME NEW s \in Sched, NEW owner \in Thread \cup {NULL}, NEW val \in Value,
         r0 \in [Thread -> Value],
         NEW r \in tfm_core_thrd_set_retval(s, owner, val)
  PROVE  /\ r \in [Thread -> Value]
         /\ \A t \in Thread : r[t] = r0[t] \/ (t = owner /\ r[t] = val)
<1>1. r = r0 \/ (Wakes(s, owner) /\ r = [r0 EXCEPT ![owner] = val])
  BY DEF tfm_core_thrd_set_retval
<1>2. Wakes(s, owner) => owner \in Thread
  BY DEF Wakes
<1> QED
  BY <1>1, <1>2

\* Linking a message behind the tail changes one next pointer.
LEMMA LinkProperties ==
  ASSUME NEW ms \in [Handle -> Msg], NEW q, NEW h \in Handle
  PROVE  LinkTail(ms, q, h) \in [Handle -> Msg]
<1>1. \A m \in Msg : [m EXCEPT !.next = h] \in Msg
  BY DEF Msg, Pointer
<1> QED
  BY <1>1 DEF LinkTail
-----------------------------------------------------------------------------
\* A panic changes nothing but the flag.
LEMMA PanicStep == IpcInv /\ tfm_core_panic => IpcInv'
<1> SUFFICES ASSUME IpcInv, tfm_core_panic PROVE IpcInv'
  OBVIOUS
<1>1. IpcTypeOK'
  BY DEF IpcInv, IpcTypeOK, ThrdTypeOK, tfm_core_panic, connVars, userVars
<1> QED
  BY <1>1 DEF IpcInv, tfm_core_panic, connVars, userVars, SignalIffQueued,
              SeenAsserted

\* Sending a message: the queue and the signal grow together.
LEMMA SendStep ==
  ASSUME IpcInv, NEW t \in Thread, NEW fn \in ClientFn, NEW h \in Handle,
         NEW s \in Service, curr = t,
         NEW ms \in [Handle -> Msg],
         tfm_spm_send_event(t, fn, h, s, ms),
         conn' \in [Handle -> Conn],
         \A g \in Handle : conn'[g].client # NULL => conn'[g].service # NULL,
         pool' \in Seq(Handle), owned' \in [Thread -> SUBSET Handle]
  PROVE  IpcInv'
<1> DEFINE p == Owner[s]
           val == RetSignals((signals[p] \cup {s}) \cap mask[p])
           w == tfm_event_wake(sched, evntOwner[p])
<1>0. IpcTypeOK
  BY DEF IpcInv
<1>1. p \in Thread /\ s \in Signal
  BY IpcAssumption DEF Signal
<1>2. evntOwner[p] \in Thread \cup {NULL}
  BY <1>0, <1>1 DEF IpcTypeOK, Pointer
<1>3. val \in Value
  BY <1>0, <1>1 DEF IpcTypeOK, Value, RetSignals
<1>4. sched \in Sched /\ SchedInv(sched) /\ sched.state[t] # "CREATING"
  BY <1>0, ThreadAssumption DEF IpcInv, IpcTypeOK, ThrdTypeOK
<1>5. /\ w \in Sched /\ SchedInv(w) /\ w.state[t] # "CREATING"
  BY <1>2, <1>4, WakeProperties
<1>6. /\ sched' \in Sched /\ SchedInv(sched')
      /\ curr' = curr /\ sched'.state[curr'] # "CREATING"
  <2> HIDE DEF w
  <2>1. /\ tfm_event_wait(w) \in Sched /\ SchedInv(tfm_event_wait(w))
        /\ tfm_event_wait(w).state[curr] # "CREATING"
    BY <1>5, WaitProperties
  <2> QED
    BY <2>1 DEF tfm_spm_send_event, w
<1>7. PICK r \in tfm_core_thrd_set_retval(sched, evntOwner[p], val) :
        r0' = [r EXCEPT ![t] = Ret("PSA_SUCCESS")]
  BY DEF tfm_spm_send_event
<1>8. /\ r \in [Thread -> Value]
      /\ \A u \in Thread : r[u] = r0[u] \/ (u = evntOwner[p] /\ r[u] = val)
  <2>1. r0 \in [Thread -> Value]
    BY <1>0 DEF IpcTypeOK
  <2> HIDE DEF val, p
  <2>2. r \in tfm_core_thrd_set_retval(sched, evntOwner[p], val)
    BY <1>7
  <2> QED
    BY <2>1, <2>2, <1>2, <1>3, <1>4, RetvalProperties
<1>9. Ret("PSA_SUCCESS") \in Value
  BY DEF Ret, Value, Status
<1>10. IpcTypeOK'
  <2>1. ThrdTypeOK'
    BY <1>0, <1>6 DEF IpcTypeOK, ThrdTypeOK, tfm_spm_send_event
  <2>2. r0' \in [Thread -> Value]
    BY <1>7, <1>8, <1>9
  <2>3. queue' \in [Service -> Queue]
    <3>1. tfm_msg_enqueue(queue[s], h) \in Queue
      BY <1>0 DEF IpcTypeOK, Queue, Pointer, tfm_msg_enqueue
    <3> QED
      BY <1>0, <3>1 DEF IpcTypeOK, tfm_spm_send_event
  <2>4. msg' \in [Handle -> Msg]
    BY LinkProperties DEF tfm_spm_send_event
  <2>5. signals' \in [Thread -> SUBSET Signal]
    BY <1>0, <1>1 DEF IpcTypeOK, tfm_spm_send_event
  <2>6. api' \in [Thread -> ApiCall]
    BY <1>0 DEF IpcTypeOK, ApiCall, tfm_spm_send_event, Pointer
  <2> QED
    BY <1>0, <2>1, <2>2, <2>3, <2>4, <2>5, <2>6
       DEF IpcTypeOK, tfm_spm_send_event, spmVars
<1>11. SignalIffQueued'
  <2>1. \A q \in Service : queue'[q].size > 0 <=> (q = s \/ queue[q].size > 0)
    BY <1>0 DEF IpcTypeOK, Queue, tfm_spm_send_event, tfm_msg_enqueue
  <2>2. \A q \in Service :
          q \in signals'[Owner[q]] <=> (q = s \/ q \in signals[Owner[q]])
    BY <1>0, <1>1, IpcAssumption DEF IpcTypeOK, tfm_spm_send_event
  <2> QED
    BY <2>1, <2>2 DEF IpcInv, SignalIffQueued
<1>12. \A u \in Thread : evntOwner'[u] \in {NULL, u}
  BY DEF IpcInv, tfm_spm_send_event, spmVars
<1>13. \A u \in Thread : \A q \in signals'[u] \cap Service : Owner[q] = u
  BY <1>0, <1>1 DEF IpcInv, IpcTypeOK, tfm_spm_send_event
<1>14. SeenAsserted'
  <2>1. \A u \in Thread : signals[u] \subseteq signals'[u]
    BY <1>0 DEF IpcTypeOK, tfm_spm_send_event
  <2>2. signals'[p] = signals[p] \cup {s}
    BY <1>0, <1>1 DEF IpcTypeOK, tfm_spm_send_event
  <2>3. seen' = seen /\ api' = [api EXCEPT ![t] =
                                  [fn |-> fn, h |-> h, reply |-> NULL]]
    BY DEF tfm_spm_send_event
  <2>4. \A u \in Thread : u # t =>
          /\ api'[u] = api[u]
          /\ r0'[u] = r[u]
    BY <1>0, <1>7, <1>8, <2>3 DEF IpcTypeOK
  <2>5. api'[t].fn \notin WaitFn
    BY <1>0, <2>3 DEF IpcTypeOK, ClientFn, WaitFn
  <2>6. val.sigs \subseteq signals'[p]
    BY <2>2 DEF RetSignals
  <2>7. evntOwner[p] \in {NULL, p}
    BY <1>1 DEF IpcInv
  <2>8. \A u \in Thread : u = evntOwner[p] => u = p
    BY <2>7, ThreadAssumption
  <2> HIDE DEF val
  <2>9. ASSUME NEW u \in Thread, u # t, api[u].fn \in WaitFn
        PROVE  r0'[u].sigs \subseteq signals'[u]
    <3>1. CASE r[u] = r0[u]
      BY <2>1, <2>4, <2>9, <3>1 DEF IpcInv, SeenAsserted
    <3>2. CASE u = evntOwner[p] /\ r[u] = val
      BY <2>4, <2>6, <2>8, <2>9, <3>2
    <3> QED
      BY <1>8, <3>1, <3>2
  <2> QED
    BY <2>1, <2>3, <2>4, <2>5, <2>9 DEF IpcInv, SeenAsserted
<1> QED
  BY <1>6, <1>10, <1>11, <1>12, <1>13, <1>14 DEF IpcInv

\* An API call that returns at once with a status.
LEMMA AtOnceStep ==
  ASSUME IpcInv, NEW t \in Thread, NEW fn \in ClientFn, NEW val \in Status,
         ReturnAtOnce(t, fn, val)
  PROVE  IpcInv'
<1>0. IpcTypeOK
  BY DEF IpcInv
<1>1. Ret(val) \in Value
  BY DEF Ret, Value
<1>2. [fn |-> fn, h |-> NULL, reply |-> val] \in ApiCall
  BY DEF ApiCall, Pointer
<1>3. IpcTypeOK'
  BY <1>0, <1>1, <1>2
     DEF IpcTypeOK, ThrdTypeOK, ReturnAtOnce, spmVars, connVars
<1>4. SeenAsserted'
  <2>1. \A u \in Thread : u # t => api'[u] = api[u] /\ r0'[u] = r0[u]
    BY <1>0 DEF IpcTypeOK, ReturnAtOnce
  <2>2. api'[t].fn \notin WaitFn
    BY <1>0 DEF IpcTypeOK, ReturnAtOnce, ClientFn, WaitFn
  <2> QED
    BY <2>1, <2>2 DEF IpcInv, SeenAsserted, ReturnAtOnce
<1> QED
  BY <1>3, <1>4 DEF IpcInv, ReturnAtOnce, spmVars, connVars, SignalIffQueued

\* A filled message is a message.
LEMMA FillProperties ==
  ASSUME IpcTypeOK, NEW cs \in [Handle -> Conn], NEW h \in Handle,
         NEW s \in Service, NEW type \in {"CONNECT", "CALL", "DISCONNECT"},
         curr \in Thread
  PROVE  tfm_spm_fill_msg(cs, h, s, type) \in [Handle -> Msg]
<1>1. [magic |-> TRUE, type |-> type, service |-> s, owner |-> curr,
       next |-> NULL, rhandle |-> cs[h].rhandle] \in Msg
  BY DEF Conn, Msg, Pointer
<1> QED
  BY <1>1 DEF IpcTypeOK, tfm_spm_fill_msg

\* psa_connect() takes a chunk for the new connection and sends a message on it.
LEMMA ConnectStep ==
  ASSUME IpcInv, NEW t \in Thread, NEW s \in Service, psa_connect(t, s)
  PROVE  IpcInv'
<1>0. IpcTypeOK /\ curr = t
  BY DEF IpcInv, psa_connect, Ready, InThread
<1>1. CASE pool = <<>>
  <2>1. "connect" \in ClientFn /\ "CONNECTION_BUSY" \in Status
    BY DEF ClientFn, Status
  <2>2. ReturnAtOnce(t, "connect", "CONNECTION_BUSY")
    BY <1>1 DEF psa_connect
  <2> QED
    BY <2>1, <2>2, AtOnceStep
<1>2. CASE pool # <<>>
  <2> DEFINE h == Head(pool)
             cs == tfm_spm_create_conn_handle(h, s, t)
             ms == tfm_spm_fill_msg(cs, h, s, "CONNECT")
  <2>1. /\ pool' = Tail(pool) /\ conn' = cs /\ owned' = owned
        /\ tfm_spm_send_event(t, "connect", h, s, ms)
    BY <1>2 DEF psa_connect, tfm_pool_alloc
  <2>2. h \in Handle /\ Tail(pool) \in Seq(Handle)
    BY <1>0, <1>2 DEF IpcTypeOK
  <2> HIDE DEF h
  <2>3. /\ cs \in [Handle -> Conn]
        /\ \A g \in Handle : cs[g].client # NULL => cs[g].service # NULL
    <3> DEFINE c == [conn[h] EXCEPT !.service = s, !.status = "IDLE",
                                    !.client = t]
    <3>1. cs = [conn EXCEPT ![h] = c]
      BY <1>0, <2>2 DEF tfm_spm_create_conn_handle, IpcTypeOK, Conn
    <3>2. c \in Conn /\ c.service = s
      BY <1>0, <2>2 DEF IpcTypeOK, Conn, Pointer
    <3> HIDE DEF c, cs
    <3> QED
      BY <1>0, <2>2, <3>1, <3>2, IpcAssumption DEF IpcInv, IpcTypeOK
  <2> HIDE DEF cs
  <2>4. ms \in [Handle -> Msg]
    BY <1>0, <2>2, <2>3, FillProperties
  <2> HIDE DEF ms
  <2>5. "connect" \in ClientFn
    BY DEF ClientFn
  <2>6. owned' \in [Thread -> SUBSET Handle]
    BY <1>0, <2>1 DEF IpcTypeOK
  <2> QED
    BY <1>0, <2>1, <2>2, <2>3, <2>4, <2>5, <2>6, SendStep
<1> QED
  BY <1>1, <1>2

\* What psa_call() and psa_close() have in common once their checks passed.
LEMMA RequestStep ==
  ASSUME IpcInv, NEW t \in Thread, NEW h \in Handle, Ready(t),
         tfm_spm_validate_conn_handle(h, t),
         NEW fn \in ClientFn, NEW type \in {"CALL", "DISCONNECT"},
         tfm_spm_send_event(t, fn, h, conn[h].service,
                            tfm_spm_fill_msg(conn, h, conn[h].service, type)),
         UNCHANGED <<conn, pool>>, owned' \in [Thread -> SUBSET Handle]
  PROVE  IpcInv'
<1> DEFINE s == conn[h].service
           ms == tfm_spm_fill_msg(conn, h, s, type)
<1>0. IpcTypeOK /\ curr = t
  BY DEF IpcInv, Ready, InThread
<1>1. s \in Service
  <2>1. conn[h].client # NULL
    BY ThreadAssumption DEF tfm_spm_validate_conn_handle
  <2>2. conn[h] \in Conn
    BY <1>0 DEF IpcTypeOK
  <2> QED
    BY <2>1, <2>2 DEF IpcInv, Conn, Pointer
<1>2. conn \in [Handle -> Conn] /\ pool' \in Seq(Handle)
  BY <1>0 DEF IpcTypeOK
<1>3. ms \in [Handle -> Msg]
  <2> HIDE DEF s
  <2> QED
    BY <1>0, <1>1, <1>2, FillProperties
<1>4. /\ conn' \in [Handle -> Conn]
      /\ \A g \in Handle : conn'[g].client # NULL => conn'[g].service # NULL
  BY <1>2 DEF IpcInv
<1>5. tfm_spm_send_event(t, fn, h, s, ms)
  OBVIOUS
<1> HIDE DEF s, ms
<1> QED
  BY <1>0, <1>1, <1>2, <1>3, <1>4, <1>5, SendStep

\* psa_call() on a checked handle only sends a message.
LEMMA CallStep ==
  ASSUME IpcInv, NEW t \in Thread, NEW h \in Handle, psa_call(t, h)
  PROVE  IpcInv'
<1>0. IpcTypeOK /\ Ready(t)
  BY DEF IpcInv, psa_call
<1> DEFINE bad == ~tfm_spm_validate_conn_handle(h, t) \/ conn[h].status = "ACTIVE"
           fail == conn[h].status = "CONNECT_ERROR"
<1>1. CASE bad
  BY <1>1, PanicStep DEF psa_call
<1>2. CASE ~bad /\ fail
  <2>1. "call" \in ClientFn /\ "PROGRAMMER_ERROR" \in Status
    BY DEF ClientFn, Status
  <2>2. ReturnAtOnce(t, "call", "PROGRAMMER_ERROR")
    BY <1>2 DEF psa_call
  <2> QED
    BY <2>1, <2>2, AtOnceStep
<1>3. CASE ~bad /\ ~fail
  <2>1. /\ tfm_spm_send_event(t, "call", h, conn[h].service,
                     tfm_spm_fill_msg(conn, h, conn[h].service, "CALL"))
        /\ UNCHANGED <<conn, pool, owned>>
    BY <1>3 DEF psa_call
  <2>2. "call" \in ClientFn /\ owned' \in [Thread -> SUBSET Handle]
    BY <1>0, <2>1 DEF ClientFn, IpcTypeOK
  <2> QED
    BY <1>0, <1>3, <2>1, <2>2, RequestStep
<1> QED
  BY <1>1, <1>2, <1>3

\* psa_close() gives the handle up and sends a message on it.
LEMMA CloseStep ==
  ASSUME IpcInv, NEW t \in Thread, NEW h \in Handle, psa_close(t, h)
  PROVE  IpcInv'
<1>0. IpcTypeOK /\ Ready(t)
  BY DEF IpcInv, psa_close
<1> DEFINE bad == ~tfm_spm_validate_conn_handle(h, t) \/ conn[h].status = "ACTIVE"
<1>1. CASE bad
  BY <1>1, PanicStep DEF psa_close
<1>2. CASE ~bad
  <2>1. /\ tfm_spm_send_event(t, "close", h, conn[h].service,
                     tfm_spm_fill_msg(conn, h, conn[h].service, "DISCONNECT"))
        /\ owned' = [owned EXCEPT ![t] = @ \ {h}]
        /\ UNCHANGED <<conn, pool>>
    BY <1>2 DEF psa_close
  <2>2. "close" \in ClientFn /\ owned' \in [Thread -> SUBSET Handle]
    BY <1>0, <2>1 DEF ClientFn, IpcTypeOK
  <2> QED
    BY <1>0, <1>2, <2>1, <2>2, RequestStep
<1> QED
  BY <1>1, <1>2
-----------------------------------------------------------------------------
\* psa_wait() blocks its own thread or returns what is raised.
LEMMA WaitStep ==
  ASSUME IpcInv, NEW t \in Thread, NEW m \in Masks[t], NEW timeout \in WaitFn,
         psa_wait(t, m, timeout)
  PROVE  IpcInv'
<1>0. IpcTypeOK /\ curr = t /\ m \subseteq Signal
  BY IpcAssumption DEF IpcInv, psa_wait, Ready, InThread
<1>1. CASE m \cap SigOwner(t) = {}
  BY <1>1, PanicStep DEF psa_wait
<1>2. CASE m \cap SigOwner(t) # {}
  <2> DEFINE blocks == timeout = "wait" /\ signals[t] \cap m = {}
  <2>1. /\ mask' = [mask EXCEPT ![t] = m]
        /\ r0' = [r0 EXCEPT ![t] = RetSignals(signals[t] \cap m)]
        /\ api' = [api EXCEPT ![t] = [fn |-> timeout, h |-> NULL,
                                      reply |-> NULL]]
        /\ UNCHANGED <<curr, signals, irqOn, panic>>
        /\ UNCHANGED <<conn, msg, pool, queue, owned, held, seen>>
    BY <1>2 DEF psa_wait, connVars, userVars
  <2>2. /\ sched' \in Sched /\ SchedInv(sched')
        /\ sched'.state[curr'] # "CREATING"
        /\ evntOwner' \in [Thread -> Pointer(Thread)]
        /\ \A u \in Thread : evntOwner'[u] \in {NULL, u}
        /\ pendsv' \in BOOLEAN
    <3>1. CASE ~blocks
      BY <1>0, <1>2, <2>1, <3>1, ThreadAssumption
         DEF psa_wait, IpcInv, IpcTypeOK, ThrdTypeOK
    <3>2. CASE blocks
      <4>1. /\ sched' = tfm_event_wait(sched) /\ pendsv' = TRUE
            /\ evntOwner' = [evntOwner EXCEPT ![t] = t]
        BY <1>2, <3>2 DEF psa_wait
      <4>2. sched \in Sched /\ SchedInv(sched) /\ sched.state[curr] # "CREATING"
        BY <1>0, ThreadAssumption DEF IpcInv, IpcTypeOK, ThrdTypeOK
      <4>3. /\ sched' \in Sched /\ SchedInv(sched')
            /\ sched'.state[curr] # "CREATING"
        BY <1>0, <4>1, <4>2, WaitProperties
      <4> QED
        BY <1>0, <2>1, <4>1, <4>3 DEF IpcInv, IpcTypeOK, Pointer
    <3> QED
      BY <3>1, <3>2
  <2>3. RetSignals(signals[t] \cap m) \in Value
    BY <1>0 DEF RetSignals, Value
  <2>4. [fn |-> timeout, h |-> NULL, reply |-> NULL] \in ApiCall
    BY DEF ApiCall, Pointer
  <2>5. IpcTypeOK'
    BY <1>0, <2>1, <2>2, <2>3, <2>4 DEF IpcTypeOK, ThrdTypeOK
  <2>6. SeenAsserted'
    <3>1. \A u \in Thread : u # t => api'[u] = api[u] /\ r0'[u] = r0[u]
      BY <1>0, <2>1 DEF IpcTypeOK
    <3>2. r0'[t].sigs \subseteq signals'[t]
      BY <1>0, <2>1 DEF IpcTypeOK, RetSignals
    <3> QED
      BY <2>1, <3>1, <3>2 DEF IpcInv, SeenAsserted
  <2> QED
    BY <2>1, <2>2, <2>5, <2>6 DEF IpcInv, SignalIffQueued
<1> QED
  BY <1>1, <1>2

\* The last message taken from the queue takes the signal with it.
LEMMA GetStep ==
  ASSUME IpcInv, NEW t \in Thread, NEW s \in Service, psa_get(t, s)
  PROVE  IpcInv'
<1> DEFINE bad == s \notin signals[t] \/ (queue[s].size > 0 /\ queue[s].head = NULL)
           h == queue[s].head
           q == tfm_msg_dequeue(queue[s], msg)
<1>0. IpcTypeOK /\ curr = t /\ api[t] = NoCall /\ s \in seen[t]
  BY DEF IpcInv, psa_get, Ready, InThread
<1>1. CASE bad
  BY <1>1, PanicStep DEF psa_get
<1>2. CASE ~bad
  <2>1. Owner[s] = t /\ queue[s].size > 0 /\ queue[s] \in Queue
    BY <1>0, <1>2 DEF IpcInv, SignalIffQueued, IpcTypeOK
  <2>2. h \in Handle
    BY <1>2, <2>1 DEF Queue, Pointer
  <2>3. /\ seen' = [seen EXCEPT ![t] = @ \ {s}]
        /\ queue' = [queue EXCEPT ![s] = q]
        /\ conn' = [conn EXCEPT ![h].status = "ACTIVE"]
        /\ held' = [held EXCEPT ![t] = @ \cup {h}]
        /\ signals' = [signals EXCEPT ![t] = ClearIfEmpty(@, s, q)]
        /\ UNCHANGED <<sched, curr, pendsv, msg, pool, r0, api, owned>>
        /\ UNCHANGED <<mask, evntOwner, irqOn, panic>>
    BY <1>2, <2>1 DEF psa_get, Queue, spmVars
  <2>4. q \in Queue /\ q.size = queue[s].size - 1
    <3>1. msg[h].next \in Pointer(Handle)
      BY <1>0, <2>2 DEF IpcTypeOK, Msg
    <3>2. queue[s].size - 1 \in Nat
      BY <2>1 DEF Queue
    <3> QED
      BY <2>1, <3>1, <3>2 DEF Queue, tfm_msg_dequeue
  <2> HIDE DEF q, h
  <2>5. /\ conn' \in [Handle -> Conn]
        /\ \A g \in Handle : conn'[g].client # NULL => conn'[g].service # NULL
    <3>1. \A c \in Conn : /\ [c EXCEPT !.status = "ACTIVE"] \in Conn
                          /\ [c EXCEPT !.status = "ACTIVE"].client = c.client
                          /\ [c EXCEPT !.status = "ACTIVE"].service = c.service
      BY DEF Conn
    <3> QED
      BY <1>0, <2>2, <2>3, <3>1 DEF IpcInv, IpcTypeOK
  <2>6. signals' \in [Thread -> SUBSET Signal]
    BY <1>0, <2>3 DEF IpcTypeOK, ClearIfEmpty
  <2>7. IpcTypeOK'
    BY <1>0, <2>2, <2>3, <2>4, <2>5, <2>6 DEF IpcTypeOK, ThrdTypeOK
  <2>8. /\ \A u \in Thread : u # t => signals'[u] = signals[u]
        /\ signals'[t] = IF q.size = 0 THEN signals[t] \ {s} ELSE signals[t]
    BY <1>0, <2>3 DEF IpcTypeOK, ClearIfEmpty
  <2>9. SignalIffQueued'
    <3>1. s \in signals'[Owner[s]] <=> queue'[s].size > 0
      BY <1>0, <1>2, <2>1, <2>3, <2>4, <2>8 DEF IpcTypeOK, Queue
    <3>2. ASSUME NEW x \in Service, x # s
          PROVE  x \in signals'[Owner[x]] <=> queue'[x].size > 0
      <4>1. queue'[x] = queue[x]
        BY <1>0, <2>3, <3>2 DEF IpcTypeOK
      <4>2. Owner[x] \in Thread
        BY IpcAssumption
      <4>3. x \in signals'[Owner[x]] <=> x \in signals[Owner[x]]
        BY <2>8, <3>2, <4>2
      <4> QED
        BY <4>1, <4>3 DEF IpcInv, SignalIffQueued
    <3> QED
      BY <3>1, <3>2 DEF SignalIffQueued
  <2>10. SeenAsserted'
    <3>1. \A u \in Thread : u # t => seen'[u] = seen[u]
      BY <1>0, <2>3 DEF IpcTypeOK
    <3>2. seen'[t] = seen[t] \ {s}
      BY <1>0, <2>3 DEF IpcTypeOK
    <3>3. api[t].fn \notin WaitFn
      BY <1>0 DEF NoCall, WaitFn
    <3> QED
      BY <2>3, <2>8, <3>1, <3>2, <3>3 DEF IpcInv, SeenAsserted
  <2>11. \A u \in Thread : \A x \in signals'[u] \cap Service : Owner[x] = u
    BY <2>8 DEF IpcInv
  <2> QED
    BY <2>3, <2>5, <2>7, <2>9, <2>10, <2>11 DEF IpcInv
<1> QED
  BY <1>1, <1>2

\* psa_set_rhandle() writes the reverse handle of a message and its connection.
LEMMA RhandleStep ==
  ASSUME IpcInv, NEW t \in Thread, NEW h \in Handle, NEW r \in RHandle,
         psa_set_rhandle(t, h, r)
  PROVE  IpcInv'
<1>0. IpcTypeOK
  BY DEF IpcInv
<1>1. CASE ~tfm_spm_get_msg_from_handle(h, t)
  BY <1>1, PanicStep DEF psa_set_rhandle
<1>2. CASE tfm_spm_get_msg_from_handle(h, t)
  <2>1. /\ msg' = [msg EXCEPT ![h].rhandle = r]
        /\ conn' = [conn EXCEPT ![h].rhandle = r]
        /\ UNCHANGED <<sched, curr, pendsv, signals, pool, queue, r0, api>>
        /\ UNCHANGED <<mask, evntOwner, irqOn, panic, owned, held, seen>>
    BY <1>2 DEF psa_set_rhandle, tfm_spm_set_rhandle, spmVars, userVars
  <2>2. \A c \in Conn : /\ [c EXCEPT !.rhandle = r] \in Conn
                        /\ [c EXCEPT !.rhandle = r].client = c.client
                        /\ [c EXCEPT !.rhandle = r].service = c.service
    BY DEF Conn, Pointer
  <2>3. \A m \in Msg : [m EXCEPT !.rhandle = r] \in Msg
    BY DEF Msg, Pointer
  <2>4. IpcTypeOK'
    BY <1>0, <2>1, <2>2, <2>3 DEF IpcTypeOK, ThrdTypeOK
  <2>5. \A g \in Handle : conn'[g].client # NULL => conn'[g].service # NULL
    BY <1>0, <2>1, <2>2 DEF IpcInv, IpcTypeOK
  <2> QED
    BY <2>1, <2>4, <2>5 DEF IpcInv, SignalIffQueued, SeenAsserted
<1> QED
  BY <1>1, <1>2

\* An answer wakes the sender with a status, never with signals.
LEMMA ReplyStep ==
  ASSUME IpcInv, NEW t \in Thread, NEW h \in Handle, NEW status \in Status,
         psa_reply(t, h, status)
  PROVE  IpcInv'
<1> DEFINE ret == ReplyValue(h, status)
           client == conn[h].client
           frees == FreesHandle(h, status)
           bad == \/ ~tfm_spm_get_msg_from_handle(h, t)
                  \/ ret = "PROGRAMMER_ERROR" /\ client # NS
           st == IF ret = "PROGRAMMER_ERROR" THEN "CONNECT_ERROR" ELSE "IDLE"
           o == msg[h].owner
<1>0. IpcTypeOK
  BY DEF IpcInv
<1>1. CASE bad
  BY <1>1, PanicStep DEF psa_reply
<1>2. CASE ~bad
  <2>1. /\ conn' = [conn EXCEPT ![h].status = st]
        /\ msg' = [msg EXCEPT ![h].magic = ~frees]
        /\ pool' = IF frees THEN Append(pool, h) ELSE pool
        /\ sched' = tfm_event_wake(sched, o)
        /\ pendsv' = (pendsv \/ Wakes(sched, o))
        /\ r0' \in tfm_core_thrd_set_retval(sched, o, Ret(ret))
        /\ api' = [c \in Thread |-> IF c = client /\ api[c].h = h
                     THEN [api[c] EXCEPT !.reply = ret] ELSE api[c]]
        /\ held' = [held EXCEPT ![t] = @ \ {h}]
        /\ UNCHANGED <<curr, signals, queue, owned, seen>>
        /\ UNCHANGED <<mask, evntOwner, irqOn, panic>>
    BY <1>2 DEF psa_reply, tfm_pool_free, spmVars
  <2>2. ret \in Status \cup Handle /\ Ret(ret) \in Value
    BY DEF ReplyValue, Ret, Value, Status
  <2>3. o \in Thread \cup {NULL}
    BY <1>0 DEF IpcTypeOK, Msg, Pointer
  <2>4. frees \in BOOLEAN /\ Wakes(sched, o) \in BOOLEAN
    BY DEF FreesHandle, Wakes
  <2>5. st \in {"IDLE", "ACTIVE", "CONNECT_ERROR"}
    OBVIOUS
  <2> HIDE DEF ret, client, frees, st, o
  <2>6. sched \in Sched /\ SchedInv(sched) /\ r0 \in [Thread -> Value]
    BY <1>0 DEF IpcInv, IpcTypeOK, ThrdTypeOK
  <2>7. /\ sched' \in Sched /\ SchedInv(sched')
        /\ \A u \in Thread : sched.state[u] # "CREATING" =>
                               sched'.state[u] # "CREATING"
    BY <2>1, <2>3, <2>6, WakeProperties
  <2>8. /\ r0' \in [Thread -> Value]
        /\ \A u \in Thread : r0'[u] = r0[u] \/ r0'[u] = Ret(ret)
    <3>1. r0' \in tfm_core_thrd_set_retval(sched, o, Ret(ret))
      BY <2>1
    <3>2. Ret(ret) \in Value
      BY <2>2
    <3> QED
      BY <2>3, <2>6, <3>1, <3>2, RetvalProperties
  <2>9. /\ conn' \in [Handle -> Conn]
        /\ \A g \in Handle : conn'[g].client # NULL => conn'[g].service # NULL
    <3>1. \A c \in Conn : /\ [c EXCEPT !.status = st] \in Conn
                          /\ [c EXCEPT !.status = st].client = c.client
                          /\ [c EXCEPT !.status = st].service = c.service
      BY <2>5 DEF Conn
    <3> QED
      BY <1>0, <2>1, <3>1 DEF IpcInv, IpcTypeOK
  <2>10. msg' \in [Handle -> Msg]
    <3>1. \A m \in Msg : [m EXCEPT !.magic = ~frees] \in Msg
      BY <2>4 DEF Msg
    <3> QED
      BY <1>0, <2>1, <3>1 DEF IpcTypeOK
  <2>11. pool' \in Seq(Handle)
    BY <1>0, <2>1 DEF IpcTypeOK
  <2>12. /\ api' \in [Thread -> ApiCall]
         /\ \A u \in Thread : api'[u].fn = api[u].fn
    <3>1. \A a \in ApiCall : /\ [a EXCEPT !.reply = ret] \in ApiCall
                             /\ [a EXCEPT !.reply = ret].fn = a.fn
      BY <2>2 DEF ApiCall
    <3>2. api \in [Thread -> ApiCall]
      BY <1>0 DEF IpcTypeOK
    <3> QED
      BY <2>1, <3>1, <3>2
  <2>13. pendsv' \in BOOLEAN /\ curr' \in Thread \cup {NULL}
    BY <1>0, <2>1, <2>4 DEF IpcTypeOK, ThrdTypeOK
  <2>14. IpcTypeOK'
    BY <1>0, <2>1, <2>7, <2>8, <2>9, <2>10, <2>11, <2>12, <2>13
       DEF IpcTypeOK, ThrdTypeOK
  <2>15. SeenAsserted'
    <3>1. Ret(ret).sigs = {}
      BY DEF Ret
    <3> QED
      BY <2>1, <2>8, <2>12, <3>1 DEF IpcInv, SeenAsserted
  <2>16. curr' # NULL => sched'.state[curr'] # "CREATING"
    BY <1>0, <2>1, <2>7 DEF IpcInv, IpcTypeOK, ThrdTypeOK
  <2> QED
    BY <2>1, <2>7, <2>9, <2>14, <2>15, <2>16 DEF IpcInv, SignalIffQueued
<1> QED
  BY <1>1, <1>2

\* A doorbell or an interrupt adds a signal that is no service's.
LEMMA NotifyStep ==
  ASSUME IpcInv, NEW p \in Thread, NEW sig \in Irq \cup {DOORBELL},
         notify_with_signal(p, sig), irqOn' \in [Irq -> BOOLEAN]
  PROVE  IpcInv'
<1> DEFINE o == evntOwner[p]
           val == RetSignals((signals[p] \cup {sig}) \cap mask[p])
<1>0. IpcTypeOK
  BY DEF IpcInv
<1>1. /\ signals' = [signals EXCEPT ![p] = @ \cup {sig}]
      /\ sched' = tfm_event_wake(sched, o)
      /\ pendsv' = (pendsv \/ Wakes(sched, o))
      /\ r0' \in tfm_core_thrd_set_retval(sched, o, val)
      /\ UNCHANGED <<curr, mask, evntOwner, api, panic>>
      /\ UNCHANGED <<conn, msg, pool, queue, owned, held, seen>>
  BY DEF notify_with_signal, connVars, userVars
<1>2. o \in Thread \cup {NULL} /\ o \in {NULL, p}
  BY <1>0 DEF IpcInv, IpcTypeOK, Pointer
<1>3. val \in Value /\ val.sigs \subseteq signals[p] \cup {sig}
  BY <1>0 DEF IpcTypeOK, RetSignals, Value
<1>4. Wakes(sched, o) \in BOOLEAN
  BY DEF Wakes
<1> HIDE DEF o, val
<1>5. sched \in Sched /\ SchedInv(sched) /\ r0 \in [Thread -> Value]
  BY <1>0 DEF IpcInv, IpcTypeOK, ThrdTypeOK
<1>6. /\ sched' \in Sched /\ SchedInv(sched')
      /\ \A u \in Thread : sched.state[u] # "CREATING" =>
                             sched'.state[u] # "CREATING"
  BY <1>1, <1>2, <1>5, WakeProperties
<1>7. /\ r0' \in [Thread -> Value]
      /\ \A u \in Thread : r0'[u] = r0[u] \/ (u = o /\ r0'[u] = val)
  BY <1>1, <1>2, <1>3, <1>5, RetvalProperties
<1>8. sig \in Signal /\ sig \notin Service
  BY IpcAssumption DEF Signal
<1>9. pendsv' \in BOOLEAN /\ curr' \in Thread \cup {NULL}
  BY <1>0, <1>1, <1>4 DEF IpcTypeOK, ThrdTypeOK
<1>10. IpcTypeOK'
  BY <1>0, <1>1, <1>6, <1>7, <1>8, <1>9 DEF IpcTypeOK, ThrdTypeOK
<1>11. /\ \A u \in Thread : u # p => signals'[u] = signals[u]
       /\ signals'[p] = signals[p] \cup {sig}
  BY <1>0, <1>1 DEF IpcTypeOK
<1>12. SignalIffQueued'
  <2>1. \A x \in Service : Owner[x] \in Thread
    BY IpcAssumption
  <2>2. \A x \in Service : x \in signals'[Owner[x]] <=> x \in signals[Owner[x]]
    BY <1>8, <1>11, <2>1
  <2> QED
    BY <1>1, <2>2 DEF IpcInv, SignalIffQueued
<1>13. SeenAsserted'
  <2>1. \A u \in Thread : signals[u] \subseteq signals'[u]
    BY <1>11
  <2>2. \A u \in Thread : u = o => val.sigs \subseteq signals'[u]
    BY <1>2, <1>3, <1>11, ThreadAssumption
  <2>3. ASSUME NEW u \in Thread
        PROVE  /\ seen'[u] \subseteq signals'[u]
               /\ api'[u].fn \in WaitFn => r0'[u].sigs \subseteq signals'[u]
    <3>1. seen[u] \subseteq signals[u]
      BY DEF IpcInv, SeenAsserted
    <3>2. api[u].fn \in WaitFn => r0[u].sigs \subseteq signals[u]
      BY DEF IpcInv, SeenAsserted
    <3>3. CASE r0'[u] = r0[u]
      BY <1>1, <2>1, <3>1, <3>2, <3>3
    <3>4. CASE u = o /\ r0'[u] = val
      BY <1>1, <2>1, <2>2, <3>1, <3>4
    <3> QED
      BY <1>7, <3>3, <3>4
  <2> QED
    BY <2>3 DEF SeenAsserted
<1>14. \A u \in Thread : \A x \in signals'[u] \cap Service : Owner[x] = u
  BY <1>8, <1>11 DEF IpcInv
<1>15. curr' # NULL => sched'.state[curr'] # "CREATING"
  BY <1>0, <1>1, <1>6 DEF IpcInv, IpcTypeOK, ThrdTypeOK
<1> QED
  BY <1>1, <1>6, <1>10, <1>12, <1>13, <1>14, <1>15 DEF IpcInv

\* A doorbell or an interrupt signal is cleared by its own partition.
LEMMA ClearStep ==
  ASSUME IpcInv, NEW t \in Thread, NEW sig \in Irq \cup {DOORBELL}, Ready(t),
         ClearSignal(t, sig), irqOn' \in [Irq -> BOOLEAN]
  PROVE  IpcInv'
<1>0. IpcTypeOK /\ api[t].fn \notin WaitFn /\ sig \notin Service
  BY IpcAssumption DEF IpcInv, Ready, NoCall, WaitFn
<1>1. /\ signals' = [signals EXCEPT ![t] = @ \ {sig}]
      /\ seen' = [seen EXCEPT ![t] = @ \ {sig}]
      /\ UNCHANGED <<sched, curr, pendsv, mask, evntOwner, r0, api, owned, held>>
      /\ UNCHANGED <<conn, msg, pool, queue, panic>>
  BY DEF ClearSignal, connVars
<1>2. IpcTypeOK'
  BY <1>0, <1>1 DEF IpcTypeOK, ThrdTypeOK
<1>3. /\ \A u \in Thread : u # t => signals'[u] = signals[u] /\ seen'[u] = seen[u]
      /\ signals'[t] = signals[t] \ {sig} /\ seen'[t] = seen[t] \ {sig}
  BY <1>0, <1>1 DEF IpcTypeOK
<1>4. SignalIffQueued'
  <2>1. \A x \in Service : Owner[x] \in Thread
    BY IpcAssumption
  <2>2. \A x \in Service : x \in signals'[Owner[x]] <=> x \in signals[Owner[x]]
    BY <1>0, <1>3, <2>1
  <2> QED
    BY <1>1, <2>2 DEF IpcInv, SignalIffQueued
<1>5. SeenAsserted'
  BY <1>0, <1>1, <1>3 DEF IpcInv, SeenAsserted
<1>6. \A u \in Thread : \A x \in signals'[u] \cap Service : Owner[x] = u
  BY <1>3 DEF IpcInv
<1> QED
  BY <1>1, <1>2, <1>4, <1>5, <1>6 DEF IpcInv

\* Enabling or disabling an interrupt line touches nothing else.
LEMMA SetIrqStep ==
  ASSUME IpcInv, NEW t \in Thread, NEW i \in Irq, NEW on \in BOOLEAN,
         SetIrq(t, i, on)
  PROVE  IpcInv'
<1>1. IpcTypeOK'
  BY DEF IpcInv, IpcTypeOK, ThrdTypeOK, SetIrq, connVars, userVars
<1> QED
  BY <1>1 DEF IpcInv, SetIrq, connVars, userVars, SignalIffQueued, SeenAsserted

\* What psa_wait() reports is what is raised.
LEMMA ReturnStep ==
  ASSUME IpcInv, NEW t \in Thread, Return(t)
  PROVE  IpcInv'
<1>0. IpcTypeOK /\ NoCall \in ApiCall
  BY DEF IpcInv, NoCall, ApiCall, Pointer
<1>1. /\ api' = [api EXCEPT ![t] = NoCall]
      /\ owned' = IF api[t].fn = "connect" /\ r0[t].st \in Handle
                  THEN [owned EXCEPT ![t] = @ \cup {r0[t].st}] ELSE owned
      /\ seen' = IF api[t].fn \in WaitFn THEN [seen EXCEPT ![t] = r0[t].sigs]
                 ELSE seen
      /\ UNCHANGED <<sched, curr, pendsv, signals, r0, held>>
      /\ UNCHANGED <<mask, evntOwner, irqOn, panic, conn, msg, pool, queue>>
  BY DEF Return, spmVars, connVars
<1>2. r0[t].sigs \subseteq Signal
  BY <1>0 DEF IpcTypeOK, Value
<1>3. owned' \in [Thread -> SUBSET Handle] /\ seen' \in [Thread -> SUBSET Signal]
  BY <1>0, <1>1, <1>2 DEF IpcTypeOK
<1>4. IpcTypeOK'
  BY <1>0, <1>1, <1>3 DEF IpcTypeOK, ThrdTypeOK
<1>5. SeenAsserted'
  <2>1. \A u \in Thread : u # t => api'[u] = api[u] /\ seen'[u] = seen[u]
    BY <1>0, <1>1 DEF IpcTypeOK
  <2>2. api'[t].fn \notin WaitFn
    BY <1>0, <1>1 DEF IpcTypeOK, NoCall, WaitFn
  <2>3. seen'[t] \subseteq signals'[t]
    <3>1. CASE api[t].fn \in WaitFn
      BY <1>0, <1>1, <3>1 DEF IpcInv, IpcTypeOK, SeenAsserted
    <3>2. CASE api[t].fn \notin WaitFn
      BY <1>1, <3>2 DEF IpcInv, SeenAsserted
    <3> QED
      BY <3>1, <3>2
  <2> QED
    BY <1>1, <2>1, <2>2, <2>3 DEF IpcInv, SeenAsserted
<1> QED
  BY <1>1, <1>4, <1>5 DEF IpcInv, SignalIffQueued

\* Boot and PendSV only touch the scheduler.
LEMMA SchedulerStep ==
  ASSUME IpcInv, Boot \/ Schedule
  PROVE  IpcInv'
<1>0. IpcTypeOK /\ sched \in Sched /\ SchedInv(sched)
  BY DEF IpcInv, IpcTypeOK, ThrdTypeOK
<1>1. UNCHANGED restVars
  BY DEF Boot, Schedule
<1>2. /\ sched' \in Sched /\ SchedInv(sched')
      /\ curr' \in Thread \cup {NULL} /\ pendsv' \in BOOLEAN
      /\ curr' # NULL => sched'.state[curr'] # "CREATING"
  <2>1. ASSUME NEW t \in Thread, Start(t)
        PROVE  /\ sched' \in Sched /\ SchedInv(sched')
               /\ curr' \in Thread \cup {NULL} /\ pendsv' \in BOOLEAN
               /\ curr' = NULL
    BY <1>0, <2>1, StartProperties DEF Start, IpcTypeOK, ThrdTypeOK
  <2>2. CASE Started = Thread /\ tfm_core_thrd_start_scheduler(NS)
    <3>1. NS \in Thread /\ \E j \in DOMAIN sched.list : sched.list[j] = NS
      BY <2>2, IpcAssumption DEF Started
    <3>2. sched.state[NS] # "CREATING"
      BY <1>0, <3>1 DEF SchedInv, ListComplete
    <3> QED
      BY <1>0, <2>2, <3>1, <3>2 DEF tfm_core_thrd_start_scheduler
  <2>3. CASE Schedule
    BY <1>0, <2>3, NextIsRunning
       DEF Schedule, PendSV, NextThread, IpcInv, IpcTypeOK, ThrdTypeOK
  <2> QED
    BY <2>1, <2>2, <2>3 DEF Boot
<1>3. IpcTypeOK'
  BY <1>0, <1>1, <1>2 DEF IpcTypeOK, ThrdTypeOK, restVars
<1> QED
  BY <1>1, <1>2, <1>3 DEF IpcInv, restVars, SignalIffQueued, SeenAsserted
-----------------------------------------------------------------------------
\* Whatever the partitions do and whenever interrupts come, the SPM keeps its
\* invariant.
THEOREM IpcInvariant == IpcSpec => []IpcInv
<1>1. IpcInit => IpcInv
  <2> SUFFICES ASSUME IpcInit PROVE IpcInv
    OBVIOUS
  <2>1. ThrdInv
    BY ThrdInitInv DEF IpcInit
  <2>2. /\ FreeConn \in Conn /\ FreeMsg \in Msg /\ NoCall \in ApiCall
        /\ Ret(NULL) \in Value
        /\ [head |-> NULL, tail |-> NULL, size |-> 0] \in Queue
    BY DEF FreeConn, Conn, FreeMsg, Msg, NoCall, ApiCall, Ret, Value, Queue,
           Pointer
  <2>3. IpcTypeOK
    BY <2>1, <2>2, IpcAssumption DEF IpcInit, IpcTypeOK, ThrdInv, Pointer
  <2>4. SignalIffQueued
    BY IpcAssumption DEF IpcInit, SignalIffQueued
  <2>5. SeenAsserted
    BY DEF IpcInit, SeenAsserted, Ret
  <2> QED
    BY <2>1, <2>3, <2>4, <2>5 DEF IpcInv, ThrdInv, IpcInit, FreeConn
<1>2. IpcInv /\ [IpcNext]_ipcVars => IpcInv'
  <2> SUFFICES ASSUME IpcInv, [IpcNext]_ipcVars PROVE IpcInv'
    OBVIOUS
  <2>1. CASE Boot \/ Schedule
    BY <2>1, SchedulerStep
  <2>2. ASSUME NEW i \in Irq, tfm_irq_handler(i) PROVE IpcInv'
    <3>1. notify_with_signal(IrqOwner[i], i) /\ irqOn' \in [Irq -> BOOLEAN]
      BY <2>2 DEF tfm_irq_handler, IpcInv, IpcTypeOK
    <3>2. IrqOwner[i] \in Thread
      BY IpcAssumption
    <3> QED
      BY <3>1, <3>2, NotifyStep
  <2>3. ASSUME NEW t \in Thread, ClientStep(t) PROVE IpcInv'
    BY <2>3, ConnectStep, CallStep, CloseStep DEF ClientStep
  <2>4. ASSUME NEW t \in Thread, Wait(t) \/ Get(t) \/ Reply(t) PROVE IpcInv'
    BY <2>4, WaitStep, GetStep, ReplyStep DEF Wait, Get, Reply
  <2>5. ASSUME NEW t \in Thread, psa_clear(t) PROVE IpcInv'
    <3>1. CASE DOORBELL \notin signals[t]
      BY <2>5, <3>1, PanicStep DEF psa_clear
    <3>2. CASE DOORBELL \in signals[t]
      <4>1. /\ Ready(t) /\ ClearSignal(t, DOORBELL)
            /\ irqOn' \in [Irq -> BOOLEAN]
        BY <2>5, <3>2 DEF psa_clear, IpcInv, IpcTypeOK
      <4> QED
        BY <4>1, ClearStep
    <3> QED
      BY <3>1, <3>2
  <2>6. ASSUME NEW t \in Thread, NEW i \in Irq, psa_eoi(t, i) PROVE IpcInv'
    <3>1. CASE i \notin signals[t] \/ IrqOwner[i] # t
      BY <2>6, <3>1, PanicStep DEF psa_eoi
    <3>2. CASE ~(i \notin signals[t] \/ IrqOwner[i] # t)
      <4>1. Ready(t) /\ ClearSignal(t, i) /\ irqOn' \in [Irq -> BOOLEAN]
        BY <2>6, <3>2 DEF psa_eoi, IpcInv, IpcTypeOK
      <4> QED
        BY <4>1, ClearStep
    <3> QED
      BY <3>1, <3>2
  <2>7. ASSUME NEW t \in Thread, NEW p \in Thread, psa_notify(t, p) PROVE IpcInv'
    <3>1. notify_with_signal(p, DOORBELL) /\ irqOn' \in [Irq -> BOOLEAN]
      BY <2>7 DEF psa_notify, IpcInv, IpcTypeOK
    <3> QED
      BY <3>1, NotifyStep
  <2>8. ASSUME NEW t \in Thread, OtherStep(t) PROVE IpcInv'
    BY <2>7, <2>8, RhandleStep, SetIrqStep DEF OtherStep
  <2>9. CASE UNCHANGED ipcVars
    <3>1. IpcTypeOK'
      BY <2>9 DEF IpcInv, IpcTypeOK, ThrdTypeOK, ipcVars
    <3> QED
      BY <2>9, <3>1 DEF IpcInv, ipcVars, SignalIffQueued, SeenAsserted
  <2> QED
    BY <2>1, <2>2, <2>3, <2>4, <2>5, <2>6, <2>8, <2>9, ReturnStep
       DEF IpcNext, ThreadStep, SignalStep
<1> QED
  BY <1>1, <1>2, PTL DEF IpcSpec

\* A service's signal is raised exactly while messages wait in its queue.
THEOREM IpcSignalIffQueued == IpcSpec => []SignalIffQueued
<1>1. IpcInv => SignalIffQueued
  BY DEF IpcInv
<1> QED
  BY <1>1, IpcInvariant, PTL

\* No signal reported by psa_wait() is withdrawn before it is served.
THEOREM IpcSeenAsserted == IpcSpec => []SeenAsserted
<1>1. IpcInv => SeenAsserted
  BY DEF IpcInv
<1> QED
  BY <1>1, IpcInvariant, PTL

\* The scheduler picks the most urgent RUNNING thread in every state the IPC
\* brings it to.
THEOREM IpcPicksMostUrgent == IpcSpec => []PicksMostUrgent
<1>1. IpcInv => PicksMostUrgent
  <2> SUFFICES ASSUME IpcInv, NEW t \in Thread, sched.state[t] = "RUNNING"
               PROVE  /\ NextThread # NULL
                      /\ sched.state[NextThread] = "RUNNING"
                      /\ Prior[NextThread] <= Prior[t]
    BY DEF PicksMostUrgent
  <2>1. sched \in Sched /\ SchedInv(sched)
    BY DEF IpcInv, IpcTypeOK, ThrdTypeOK
  <2> QED
    BY <2>1, NextThreadProperties, ThreadAssumption DEF NextThread
<1> QED
  BY <1>1, IpcInvariant, PTL

\* Every step of the IPC that makes a thread RUNNING pends PendSV.
LEMMA UrgentStep == IpcInv /\ UrgentRuns /\ [IpcNext]_ipcVars => UrgentRuns'
<1> SUFFICES ASSUME IpcInv, UrgentRuns, [IpcNext]_ipcVars PROVE UrgentRuns'
  OBVIOUS
<1>0. sched \in Sched /\ SchedInv(sched) /\ curr \in Thread \cup {NULL}
  BY DEF IpcInv, IpcTypeOK, ThrdTypeOK
<1>1. ASSUME UNCHANGED <<sched, curr, pendsv>> PROVE UrgentRuns'
  BY <1>1 DEF UrgentRuns
<1>2. ASSUME pendsv' = TRUE PROVE UrgentRuns'
  BY <1>2 DEF UrgentRuns
<1>3. ASSUME NEW o, sched' = tfm_event_wake(sched, o), curr' = curr,
             pendsv' = (pendsv \/ Wakes(sched, o))
      PROVE  UrgentRuns'
  <2>1. CASE Wakes(sched, o)
    BY <1>2, <1>3, <2>1
  <2>2. CASE ~Wakes(sched, o)
    BY <1>3, <2>2 DEF tfm_event_wake, UrgentRuns
  <2> QED
    BY <2>1, <2>2
<1>4. CASE UNCHANGED ipcVars
  BY <1>1, <1>4 DEF ipcVars
<1>5. CASE Boot
  <2>1. ASSUME curr' = NULL PROVE UrgentRuns'
    BY <2>1 DEF UrgentRuns
  <2> QED
    BY <1>2, <1>5, <2>1 DEF Boot, Start, tfm_core_thrd_start_scheduler
<1>6. CASE Schedule
  <2>1. sched' = sched /\ curr' = IF NextThread = NULL THEN curr ELSE NextThread
    BY <1>6 DEF Schedule, PendSV
  <2>2. \A t \in Thread : sched.state[t] = "RUNNING" =>
          NextThread \in Thread /\ Prior[NextThread] <= Prior[t]
    BY <1>0, NextThreadProperties DEF NextThread
  <2> QED
    BY <2>1, <2>2, ThreadAssumption DEF UrgentRuns
<1>7. ASSUME NEW p, NEW sig, notify_with_signal(p, sig) PROVE UrgentRuns'
  BY <1>3, <1>7 DEF notify_with_signal
<1>8. ASSUME NEW i \in Irq, tfm_irq_handler(i) PROVE UrgentRuns'
  BY <1>7, <1>8 DEF tfm_irq_handler
<1>9. ASSUME NEW t \in Thread, ThreadStep(t) PROVE UrgentRuns'
  <2>1. ASSUME tfm_core_panic PROVE UrgentRuns'
    BY <1>1, <2>1 DEF tfm_core_panic
  <2>2. CASE Return(t)
    BY <1>1, <2>2 DEF Return
  <2>3. CASE ClientStep(t)
    <3>1. ASSUME NEW fn, NEW val, ReturnAtOnce(t, fn, val) PROVE UrgentRuns'
      BY <1>1, <3>1 DEF ReturnAtOnce
    <3>2. ASSUME NEW fn, NEW h, NEW s, NEW ms,
                 tfm_spm_send_event(t, fn, h, s, ms)
          PROVE  UrgentRuns'
      BY <1>2, <3>2 DEF tfm_spm_send_event
    <3>3. ASSUME NEW s \in Service, psa_connect(t, s) PROVE UrgentRuns'
      BY <3>1, <3>2, <3>3 DEF psa_connect
    <3>4. ASSUME NEW h \in Handle, psa_call(t, h) PROVE UrgentRuns'
      BY <2>1, <3>1, <3>2, <3>4 DEF psa_call
    <3>5. ASSUME NEW h \in Handle, psa_close(t, h) PROVE UrgentRuns'
      BY <2>1, <3>2, <3>5 DEF psa_close
    <3> QED
      BY <2>3, <3>3, <3>4, <3>5 DEF ClientStep
  <2>4. CASE Wait(t)
    <3>1. PICK m \in Masks[t], timeout \in WaitFn : psa_wait(t, m, timeout)
      BY <2>4 DEF Wait
    <3>2. tfm_core_panic \/ pendsv' = TRUE \/ UNCHANGED <<sched, curr, pendsv>>
      BY <3>1 DEF psa_wait
    <3> QED
      BY <1>1, <1>2, <2>1, <3>2
  <2>5. CASE Get(t)
    <3>1. PICK s \in Service : psa_get(t, s)
      BY <2>5 DEF Get
    <3>2. tfm_core_panic \/ UNCHANGED <<sched, curr, pendsv>>
      BY <3>1 DEF psa_get
    <3> QED
      BY <1>1, <2>1, <3>2
  <2>6. CASE Reply(t)
    <3>1. PICK h \in Handle, st \in Status : psa_reply(t, h, st)
      BY <2>6 DEF Reply
    <3>2. \/ tfm_core_panic
          \/ /\ sched' = tfm_event_wake(sched, msg[h].owner) /\ curr' = curr
             /\ pendsv' = (pendsv \/ Wakes(sched, msg[h].owner))
      BY <3>1 DEF psa_reply
    <3> QED
      BY <1>3, <2>1, <3>2
  <2>7. CASE SignalStep(t)
    <3>1. tfm_core_panic \/ UNCHANGED <<sched, curr, pendsv>>
      BY <2>7 DEF SignalStep, psa_clear, psa_eoi, ClearSignal
    <3> QED
      BY <1>1, <2>1, <3>1
  <2>8. CASE OtherStep(t)
    <3>1. \/ tfm_core_panic \/ UNCHANGED <<sched, curr, pendsv>>
          \/ \E p \in Thread : notify_with_signal(p, DOORBELL)
      BY <2>8 DEF OtherStep, psa_set_rhandle, psa_notify, SetIrq
    <3> QED
      BY <1>1, <1>7, <2>1, <3>1
  <2> QED
    BY <1>9, <2>2, <2>3, <2>4, <2>5, <2>6, <2>7, <2>8 DEF ThreadStep
<1> QED
  BY <1>4, <1>5, <1>6, <1>8, <1>9 DEF IpcNext

\* Unless the switch is pending the processor belongs to a thread that no
\* RUNNING thread is more urgent than, whatever the partitions call.
THEOREM IpcUrgentRuns == IpcSpec => []UrgentRuns
<1>1. IpcInit => UrgentRuns
  BY DEF IpcInit, ThrdInit, UrgentRuns
<1> QED
  BY <1>1, UrgentStep, IpcInvariant, PTL DEF IpcSpec
=============================================================================
