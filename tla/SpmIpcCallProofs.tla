-------------------------- MODULE SpmIpcCallProofs --------------------------
(***************************************************************************)
(* Connections, messages and calls of the IPC, for every set of            *)
(* partitions, services, interrupts and connections.                       *)
(*                                                                         *)
(* The invariant follows each chunk of conn_handle_pool through its life:  *)
(* free in the pool, in a message that is queued or served while its       *)
(* sender is blocked, on its way to the client, owned by the client.  It   *)
(* holds in every behaviour in which a thread blocked in a client call is  *)
(* woken only by the answer: an interrupt or a doorbell for a partition    *)
(* that waits for an answer breaks it.  In a ShieldedSystem the priorities *)
(* and the scheduler (UrgentRuns) rule that out.  The hypothesis           *)
(* SoundSystem excludes a deadlock, after which PendSV lets a blocked      *)
(* thread run on.                                                          *)
(***************************************************************************)
EXTENDS SpmIpcProofs
-----------------------------------------------------------------------------
(* The inductive invariant; c[s] is the sequence of the messages in the     *)
(* queue of service s.                                                      *)

Waiting(c, h) == \E s \in Service : \E i \in 1..Len(c[s]) : c[s][i] = h
Flying(c, h) == Waiting(c, h) \/ Held(h)

QueuesOK(c) ==
  /\ c \in [Service -> Seq(Handle)]
  /\ \A s \in Service :
       /\ Len(c[s]) = queue[s].size
       /\ Len(c[s]) > 0 => /\ queue[s].head = c[s][1]
                           /\ queue[s].tail = c[s][Len(c[s])]
       /\ \A i \in 1..(Len(c[s]) - 1) : msg[c[s][i]].next = c[s][i + 1]
       /\ \A i, j \in 1..Len(c[s]) : c[s][i] = c[s][j] => i = j
       /\ \A i \in 1..Len(c[s]) : /\ msg[c[s][i]].magic
                                  /\ msg[c[s][i]].service = s
                                  /\ ~Held(c[s][i])

HeldOK ==
  \A t \in Thread : \A h \in held[t] :
    /\ msg[h].magic
    /\ msg[h].service \in Service
    /\ Owner[msg[h].service] = t

\* The sender of a message that is queued or served.
SendersOK(c) ==
  \A h \in Handle : Flying(c, h) =>
    /\ msg[h].owner \in Thread
    /\ sched.state[msg[h].owner] = "BLOCK"
    /\ api[msg[h].owner].fn \in ClientFn
    /\ api[msg[h].owner].h = h
    /\ api[msg[h].owner].reply = NULL
    /\ conn[h].client = msg[h].owner
    /\ msg[h].type \in {"CONNECT", "CALL", "DISCONNECT"}
    /\ msg[h].type = "CONNECT" => api[msg[h].owner].fn = "connect"
    /\ msg[h].type = "CALL" => h \in owned[msg[h].owner]
    /\ msg[h].type # "CALL" => h \notin owned[msg[h].owner]
    /\ msg[h].service \in Deps[msg[h].owner]
    /\ conn[h].service \in Deps[msg[h].owner]

\* What a blocked thread waits for: the answer to its call, or a signal that
\* has not been raised.
AwaitsReply(c, t) ==
  /\ api[t].fn \in ClientFn
  /\ api[t].reply = NULL
  /\ api[t].h \in Handle
  /\ Flying(c, api[t].h)
  /\ msg[api[t].h].owner = t

AwaitsSignal(t) ==
  /\ api[t].fn = "wait"
  /\ evntOwner[t] = t
  /\ mask[t] \in Masks[t]
  /\ signals[t] \cap mask[t] = {}
  /\ held[t] # {} => WaitWhileHolding

BlockedOK(c) ==
  \A t \in Thread : sched.state[t] = "BLOCK" =>
    AwaitsReply(c, t) \/ AwaitsSignal(t)

AnsweredOK ==
  \A t \in Thread : api[t].fn \in ClientFn /\ sched.state[t] # "BLOCK" =>
    /\ api[t].reply # NULL
    /\ r0[t] = Ret(api[t].reply)

\* A connection on its way to the client.
GrantedOK(c) ==
  \A t \in Thread : \A h \in Handle : api[t].reply = h =>
    /\ api[t].fn = "connect"
    /\ conn[h].client = t
    /\ conn[h].service \in Deps[t]
    /\ ~Flying(c, h)
    /\ \A u \in Thread : h \notin owned[u]

OwnedOK ==
  \A t \in Thread : \A h \in owned[t] :
    conn[h].client = t /\ conn[h].service \in Deps[t]

Taken(c, h) ==
  Flying(c, h) \/ \E t \in Thread : h \in owned[t] \/ api[t].reply = h

PoolOK(c) ==
  \A i \in 1..Len(pool) :
    /\ ~Taken(c, pool[i])
    /\ ~msg[pool[i]].magic
    /\ \A j \in 1..Len(pool) : pool[j] = pool[i] => j = i

NoLeak(c) ==
  "CONNECTION_BUSY" \notin ConnectReply =>
    \A h \in Handle : Taken(c, h) \/ \E i \in 1..Len(pool) : pool[i] = h

ActiveOK == \A h \in Handle : conn[h].status = "ACTIVE" => Held(h)

SomeRunning == \E t \in Thread : sched.state[t] = "RUNNING"

RunOK ==
  /\ ~panic
  /\ pendsv => curr # NULL
  /\ curr # NULL => \A t \in Thread : sched.state[t] # "CREATING"
  /\ curr # NULL /\ ~pendsv /\ SomeRunning => sched.state[curr] = "RUNNING"
  /\ \A t \in Thread : \A i \in signals[t] \cap Irq : IrqOwner[i] = t

CallInv(c) ==
  /\ QueuesOK(c) /\ HeldOK
  /\ SendersOK(c) /\ BlockedOK(c) /\ AnsweredOK /\ GrantedOK(c)
  /\ OwnedOK /\ PoolOK(c) /\ NoLeak(c) /\ ActiveOK
  /\ RunOK
-----------------------------------------------------------------------------
(* The scheduler and the return values *)

\* A wake-up changes the state of the thread it wakes and of no other.
LEMMA WakeState ==
  ASSUME NEW s \in Sched, SchedInv(s), NEW owner \in Thread \cup {NULL}
  PROVE  \A u \in Thread :
           tfm_event_wake(s, owner).state[u] =
             IF u = owner /\ s.state[u] = "BLOCK" THEN "RUNNING" ELSE s.state[u]
<1>1. CASE ~Wakes(s, owner)
  BY <1>1, ThreadAssumption DEF tfm_event_wake, Wakes
<1>2. CASE Wakes(s, owner)
  <2> DEFINE v == tfm_core_thrd_set_state(s, owner, "RUNNING")
  <2>1. owner \in Thread /\ s.state[owner] = "BLOCK"
    BY <1>2 DEF Wakes
  <2>2. v.state = [s.state EXCEPT ![owner] = "RUNNING"]
    BY <2>1, SetStateProperties
  <2>3. tfm_event_wake(s, owner) = v
    BY <1>2 DEF tfm_event_wake
  <2> HIDE DEF v
  <2>4. s.state \in [Thread -> ThrdState]
    BY DEF Sched
  <2> QED
    BY <2>1, <2>2, <2>3, <2>4
<1> QED
  BY <1>1, <1>2

\* tfm_event_wait() blocks the current thread and no other.
LEMMA WaitState ==
  ASSUME NEW s \in Sched, SchedInv(s), curr \in Thread,
         s.state[curr] # "CREATING"
  PROVE  \A u \in Thread :
           tfm_event_wait(s).state[u] = IF u = curr THEN "BLOCK" ELSE s.state[u]
<1> DEFINE v == tfm_core_thrd_set_state(s, curr, "BLOCK")
<1>1. v.state = [s.state EXCEPT ![curr] = "BLOCK"]
  BY SetStateProperties
<1>2. tfm_event_wait(s) = v
  BY DEF tfm_event_wait
<1> HIDE DEF v
<1>3. s.state \in [Thread -> ThrdState]
  BY DEF Sched
<1> QED
  BY <1>1, <1>2, <1>3

\* The return value of a thread changes only when the thread is woken, and a
\* woken thread that is not the current one gets the value.
LEMMA RetvalExact ==
  ASSUME NEW s \in Sched, NEW owner \in Thread \cup {NULL}, NEW val \in Value,
         r0 \in [Thread -> Value],
         NEW r \in tfm_core_thrd_set_retval(s, owner, val)
  PROVE  /\ r \in [Thread -> Value]
         /\ \A u \in Thread : ~(u = owner /\ s.state[u] = "BLOCK") => r[u] = r0[u]
         /\ \A u \in Thread : u = owner /\ s.state[u] = "BLOCK" /\ u # curr =>
              r[u] = val
<1>1. r = r0 \/ (Wakes(s, owner) /\ r = [r0 EXCEPT ![owner] = val])
  BY DEF tfm_core_thrd_set_retval
<1>2. Wakes(s, owner) => owner \in Thread /\ s.state[owner] = "BLOCK"
  BY DEF Wakes
<1>3. ASSUME NEW u \in Thread, u = owner, s.state[u] = "BLOCK", u # curr
      PROVE  r = [r0 EXCEPT ![owner] = val]
  <2>1. Wakes(s, owner)
    BY <1>3, ThreadAssumption DEF Wakes
  <2> QED
    BY <1>3, <2>1 DEF tfm_core_thrd_set_retval
<1>4. \A u \in Thread : ~(u = owner /\ s.state[u] = "BLOCK") => r[u] = r0[u]
  BY <1>1, <1>2
<1>5. \A u \in Thread : u = owner /\ s.state[u] = "BLOCK" /\ u # curr =>
        r[u] = val
  BY <1>3
<1>6. r \in [Thread -> Value]
  BY <1>1, <1>2
<1> QED
  BY <1>4, <1>5, <1>6

\* A blocked thread is not in its own code: the scheduler only leaves it the
\* processor when every thread is blocked.
LEMMA ReadyRuns ==
  ASSUME IpcInv, RunOK, SomeRunning, NEW t \in Thread, InThread(t)
  PROVE  sched.state[t] = "RUNNING"
BY ThreadAssumption DEF RunOK, InThread
-----------------------------------------------------------------------------
(* No deadlock *)

\* Of the threads in S one has the least rank.
LEMMA LeastRank ==
  ASSUME NEW rank \in [Thread -> Nat], NEW S \in SUBSET Thread, S # {}
  PROVE  \E t \in S : \A u \in S : rank[t] <= rank[u]
<1> DEFINE R == {rank[t] : t \in S}
<1>1. R \in SUBSET Nat /\ R # {}
  OBVIOUS
<1>2. Least(R) \in R /\ \A j \in R : Least(R) <= j
  BY <1>1, LeastProperties
<1>3. PICK t \in S : rank[t] = Least(R)
  BY <1>2
<1>4. \A u \in S : rank[u] \in R
  OBVIOUS
<1> QED
  BY <1>2, <1>3, <1>4

\* A partition whose answer is awaited does not wait for signals itself: it has
\* answered all it got, so the message is in the queue and its signal is raised.
LEMMA ServerAwake ==
  ASSUME IpcInv, NEW c, CallInv(c), SoundSystem, NEW t \in Thread,
         AwaitsReply(c, t)
  PROVE  \E s \in Deps[t] : Owner[s] \in Thread /\ ~AwaitsSignal(Owner[s])
<1>0. IpcTypeOK /\ QueuesOK(c) /\ HeldOK /\ SendersOK(c)
  BY DEF IpcInv, CallInv
<1> DEFINE h == api[t].h
           s == msg[h].service
           p == Owner[s]
<1>1. h \in Handle /\ Flying(c, h) /\ msg[h].owner = t
  BY DEF AwaitsReply
<1>2. s \in Deps[t]
  BY <1>0, <1>1 DEF SendersOK
<1>3. s \in Service /\ p \in Thread
  BY <1>2, IpcAssumption
<1>4. ASSUME AwaitsSignal(p) PROVE FALSE
  <2>1. held[p] = {}
    BY <1>4 DEF AwaitsSignal, SoundSystem, Attentive
  <2>2. Waiting(c, h)
    <3>1. ASSUME NEW u \in Thread, h \in held[u] PROVE FALSE
      BY <1>0, <2>1, <3>1 DEF HeldOK
    <3> QED
      BY <1>1, <3>1 DEF Flying, Held
  <2>3. queue[s].size > 0
    <3>1. PICK x \in Service : \E i \in 1..Len(c[x]) : c[x][i] = h
      BY <2>2 DEF Waiting
    <3>2. PICK i \in 1..Len(c[x]) : c[x][i] = h
      BY <3>1
    <3>3. x = s
      BY <1>0, <3>2 DEF QueuesOK
    <3>4. Len(c[s]) = queue[s].size /\ Len(c[s]) \in Nat
      BY <1>0, <1>3 DEF QueuesOK
    <3> QED
      BY <3>2, <3>3, <3>4
  <2>4. s \in signals[p]
    BY <1>3, <2>3 DEF IpcInv, SignalIffQueued
  <2>5. s \in mask[p]
    <3>1. mask[p] \in Masks[p]
      BY <1>4 DEF AwaitsSignal
    <3> HIDE DEF s, p
    <3>2. \A m \in Masks[p] : \A x \in Service : Owner[x] = p => x \in m
      BY <1>3 DEF SoundSystem, Attentive
    <3>3. Owner[s] = p
      BY DEF p
    <3> QED
      BY <1>3, <3>1, <3>2, <3>3
  <2> QED
    BY <1>4, <2>4, <2>5 DEF AwaitsSignal
<1> QED
  BY <1>2, <1>3, <1>4

\* Among the partitions that the calls of a thread blocked in a client call
\* reach one is not blocked: the server of the call of the least rank.
LEMMA ReachesRunning ==
  ASSUME IpcInv, NEW c, CallInv(c), SoundSystem, curr # NULL,
         NEW t \in Thread, AwaitsReply(c, t),
         NEW below \in SUBSET Thread, Reaches(below, t)
  PROVE  \E u \in below : sched.state[u] = "RUNNING"
<1> DEFINE S == {u \in below \cup {t} : AwaitsReply(c, u)}
<1>1. PICK rank \in [Thread -> Nat] : Descends(rank)
  BY DEF SoundSystem
<1>2. t \in S /\ S \in SUBSET Thread
  OBVIOUS
<1>3. PICK v \in S : \A u \in S : rank[v] <= rank[u]
  BY <1>2, LeastRank
<1>4. v \in Thread /\ v \in below \cup {t} /\ AwaitsReply(c, v)
  BY <1>3
<1>5. PICK s \in Deps[v] : Owner[s] \in Thread /\ ~AwaitsSignal(Owner[s])
  BY <1>4, ServerAwake
<1>6. Owner[s] \in below
  BY <1>4, <1>5 DEF Reaches
<1>7. rank[Owner[s]] < rank[v] /\ rank[Owner[s]] \in Nat /\ rank[v] \in Nat
  BY <1>1, <1>4, <1>5 DEF Descends
<1>8. ~AwaitsReply(c, Owner[s])
  BY <1>3, <1>6, <1>7
<1>9. sched.state[Owner[s]] # "BLOCK" /\ sched.state[Owner[s]] # "CREATING"
  BY <1>5, <1>8 DEF CallInv, BlockedOK, RunOK
<1>10. sched.state[Owner[s]] = "RUNNING"
  BY <1>5, <1>9 DEF IpcInv, IpcTypeOK, ThrdTypeOK, Sched, ThrdState
<1> QED
  BY <1>6, <1>10

\* The threads are never all blocked: the non-secure thread never waits for
\* signals, and its calls reach a partition that is not blocked.
LEMMA NoDeadlock ==
  ASSUME IpcInv, NEW c, CallInv(c), SoundSystem, curr # NULL
  PROVE  SomeRunning
<1> SUFFICES ASSUME ~SomeRunning PROVE FALSE
  OBVIOUS
<1>1. sched.state[NS] = "BLOCK"
  BY IpcAssumption
     DEF SomeRunning, CallInv, RunOK, IpcInv, IpcTypeOK, ThrdTypeOK, Sched, ThrdState
<1>2. AwaitsReply(c, NS)
  BY <1>1, IpcAssumption DEF CallInv, BlockedOK, AwaitsSignal
<1>3. Reaches(Thread, NS)
  BY IpcAssumption DEF Reaches
<1> QED
  BY <1>2, <1>3, ReachesRunning, IpcAssumption DEF SomeRunning
-----------------------------------------------------------------------------
(* What steps that leave messages or connections alone preserve *)

\* The queues depend on nothing but the messages.
LEMMA QueuesFrame ==
  ASSUME NEW c, QueuesOK(c), HeldOK, UNCHANGED <<queue, msg, held>>
  PROVE  QueuesOK(c)' /\ HeldOK' /\ \A h : Flying(c, h)' <=> Flying(c, h)
<1>1. \A h : Held(h)' <=> Held(h)
  BY DEF Held
<1>2. \A h : Flying(c, h)' <=> Flying(c, h)
  BY <1>1 DEF Flying, Waiting
<1>3. QueuesOK(c)'
  BY <1>1 DEF QueuesOK
<1>4. HeldOK'
  BY DEF HeldOK
<1> QED
  BY <1>2, <1>3, <1>4

\* Connections do not depend on the scheduler or on the signals.
LEMMA HandlesFrame ==
  ASSUME NEW c, GrantedOK(c), OwnedOK, PoolOK(c), NoLeak(c), ActiveOK,
         UNCHANGED <<conn, msg, pool, owned, held>>,
         UNCHANGED api
  PROVE  (GrantedOK(c) /\ OwnedOK /\ PoolOK(c) /\ NoLeak(c) /\ ActiveOK)'
<1>1. \A h : Held(h)' <=> Held(h)
  BY DEF Held
<1>2. \A h : Flying(c, h)' <=> Flying(c, h)
  BY <1>1 DEF Flying, Waiting
<1>3. \A h : Taken(c, h)' <=> Taken(c, h)
  BY <1>2 DEF Taken
<1>4. GrantedOK(c)'
  BY <1>2 DEF GrantedOK
<1>5. OwnedOK'
  BY DEF OwnedOK
<1>6. PoolOK(c)'
  BY <1>3 DEF PoolOK
<1>7. NoLeak(c)'
  BY <1>3 DEF NoLeak
<1>8. ActiveOK'
  BY <1>1 DEF ActiveOK
<1> QED
  BY <1>4, <1>5, <1>6, <1>7, <1>8

\* A step that only touches interrupt lines or what a partition has seen.
LEMMA IdleStep ==
  ASSUME NEW c, CallInv(c), UNCHANGED <<sched, curr, pendsv, signals, mask>>,
         UNCHANGED <<evntOwner, conn, msg, pool, queue, r0, api, owned>>,
         UNCHANGED <<held, panic>>
  PROVE  CallInv(c)'
<1>1. QueuesOK(c)' /\ HeldOK' /\ \A h : Flying(c, h)' <=> Flying(c, h)
  BY QueuesFrame DEF CallInv
<1>2. (GrantedOK(c) /\ OwnedOK /\ PoolOK(c) /\ NoLeak(c) /\ ActiveOK)'
  BY HandlesFrame DEF CallInv
<1>3. SendersOK(c)'
  BY <1>1 DEF CallInv, SendersOK
<1>4. BlockedOK(c)'
  BY <1>1 DEF CallInv, BlockedOK, AwaitsReply, AwaitsSignal
<1>5. AnsweredOK'
  BY DEF CallInv, AnsweredOK
<1>6. RunOK'
  BY DEF CallInv, RunOK, SomeRunning
<1> QED
  BY <1>1, <1>2, <1>3, <1>4, <1>5, <1>6 DEF CallInv

\* A served signal is cleared: nobody blocked waits for it.
LEMMA ClearCall ==
  ASSUME IpcInv, NEW c, CallInv(c), NEW t \in Thread, NEW sig,
         ClearSignal(t, sig)
  PROVE  CallInv(c)'
<1>0. signals \in [Thread -> SUBSET Signal]
  BY DEF IpcInv, IpcTypeOK
<1>1. /\ signals' = [signals EXCEPT ![t] = @ \ {sig}]
      /\ UNCHANGED <<sched, curr, pendsv, mask, evntOwner, r0, api, owned, held>>
      /\ UNCHANGED <<conn, msg, pool, queue, panic>>
  BY DEF ClearSignal, connVars
<1>2. \A u \in Thread : signals'[u] \subseteq signals[u]
  BY <1>0, <1>1
<1>3. QueuesOK(c)' /\ HeldOK' /\ \A h : Flying(c, h)' <=> Flying(c, h)
  BY <1>1, QueuesFrame DEF CallInv
<1>4. (GrantedOK(c) /\ OwnedOK /\ PoolOK(c) /\ NoLeak(c) /\ ActiveOK)'
  BY <1>1, HandlesFrame DEF CallInv
<1>5. SendersOK(c)'
  BY <1>1, <1>3 DEF CallInv, SendersOK
<1>6. BlockedOK(c)'
  <2> SUFFICES ASSUME NEW u \in Thread, sched.state[u] = "BLOCK"
               PROVE  AwaitsReply(c, u)' \/ AwaitsSignal(u)'
    BY <1>1 DEF BlockedOK
  <2>1. CASE AwaitsReply(c, u)
    BY <1>1, <1>3, <2>1 DEF AwaitsReply
  <2>2. CASE AwaitsSignal(u)
    BY <1>1, <1>2, <2>2 DEF AwaitsSignal
  <2> QED
    BY <2>1, <2>2 DEF CallInv, BlockedOK
<1>7. AnsweredOK'
  BY <1>1 DEF CallInv, AnsweredOK
<1>8. RunOK'
  <2>1. SomeRunning' <=> SomeRunning
    BY <1>1 DEF SomeRunning
  <2> QED
    BY <1>1, <1>2, <2>1 DEF CallInv, RunOK
<1> QED
  BY <1>3, <1>4, <1>5, <1>6, <1>7, <1>8 DEF CallInv

\* The reverse handle is no part of the invariant.
LEMMA RhandleCall ==
  ASSUME IpcInv, NEW c, CallInv(c), NEW t \in Thread, NEW h \in Handle,
         NEW r \in RHandle, psa_set_rhandle(t, h, r)
  PROVE  CallInv(c)'
<1>0. IpcTypeOK /\ QueuesOK(c) /\ HeldOK
  BY DEF IpcInv, CallInv
<1>1. tfm_spm_get_msg_from_handle(h, t)
  BY <1>0 DEF psa_set_rhandle, HeldOK, tfm_spm_get_msg_from_handle
<1>2. /\ msg' = [msg EXCEPT ![h].rhandle = r]
      /\ conn' = [conn EXCEPT ![h].rhandle = r]
      /\ UNCHANGED <<sched, curr, pendsv, signals, pool, queue, r0, api>>
      /\ UNCHANGED <<mask, evntOwner, irqOn, panic, owned, held, seen>>
  BY <1>1 DEF psa_set_rhandle, tfm_spm_set_rhandle, spmVars, userVars
<1>3. \A g \in Handle :
        /\ conn'[g].status = conn[g].status /\ conn'[g].client = conn[g].client
        /\ conn'[g].service = conn[g].service
  BY <1>0, <1>2 DEF IpcTypeOK, Conn
<1>4. \A g \in Handle :
        /\ msg'[g].magic = msg[g].magic /\ msg'[g].type = msg[g].type
        /\ msg'[g].service = msg[g].service /\ msg'[g].owner = msg[g].owner
        /\ msg'[g].next = msg[g].next
  BY <1>0, <1>2 DEF IpcTypeOK, Msg
<1>5. \A s \in Service : \A i \in 1..Len(c[s]) : c[s][i] \in Handle
  BY <1>0 DEF QueuesOK
<1>6. \A g : (Held(g)' <=> Held(g)) /\ (Flying(c, g)' <=> Flying(c, g))
  BY <1>2 DEF Held, Flying, Waiting
<1>7. \A g : Taken(c, g)' <=> Taken(c, g)
  BY <1>2, <1>6 DEF Taken
<1>8. QueuesOK(c)'
  <2> SUFFICES ASSUME NEW s \in Service
        PROVE  /\ Len(c[s]) = queue'[s].size
               /\ Len(c[s]) > 0 => /\ queue'[s].head = c[s][1]
                                   /\ queue'[s].tail = c[s][Len(c[s])]
               /\ \A i \in 1..(Len(c[s]) - 1) : msg'[c[s][i]].next = c[s][i + 1]
               /\ \A i, j \in 1..Len(c[s]) : c[s][i] = c[s][j] => i = j
               /\ \A i \in 1..Len(c[s]) : /\ msg'[c[s][i]].magic
                                          /\ msg'[c[s][i]].service = s
                                          /\ ~Held(c[s][i])'
    BY <1>0 DEF QueuesOK
  <2>1. \A i \in 1..(Len(c[s]) - 1) : c[s][i] \in Handle
    BY <1>0, <1>5 DEF QueuesOK
  <2> QED
    BY <1>0, <1>2, <1>4, <1>5, <1>6, <2>1 DEF QueuesOK
<1>9. HeldOK'
  BY <1>0, <1>2, <1>4 DEF HeldOK, IpcTypeOK
<1>10. SendersOK(c)'
  BY <1>2, <1>3, <1>4, <1>6 DEF CallInv, SendersOK
<1>11. BlockedOK(c)'
  BY <1>2, <1>4, <1>6 DEF CallInv, BlockedOK, AwaitsReply, AwaitsSignal
<1>12. AnsweredOK' /\ RunOK'
  BY <1>2 DEF CallInv, AnsweredOK, RunOK, SomeRunning
<1>13. GrantedOK(c)'
  BY <1>2, <1>3, <1>6 DEF CallInv, GrantedOK
<1>14. OwnedOK'
  BY <1>0, <1>2, <1>3 DEF CallInv, OwnedOK, IpcTypeOK
<1>15. PoolOK(c)'
  BY <1>0, <1>2, <1>4, <1>7 DEF CallInv, PoolOK, IpcTypeOK
<1>16. NoLeak(c)'
  BY <1>2, <1>7 DEF CallInv, NoLeak
<1>17. ActiveOK'
  BY <1>3, <1>6 DEF CallInv, ActiveOK
<1> QED
  BY <1>8, <1>9, <1>10, <1>11, <1>12, <1>13, <1>14, <1>15, <1>16, <1>17
     DEF CallInv

\* Starting threads, starting the scheduler and switching.
LEMMA SchedulerCall ==
  ASSUME IpcInv, NEW c, CallInv(c), Boot \/ Schedule,
         curr # NULL => SomeRunning
  PROVE  CallInv(c)'
<1>0. IpcTypeOK /\ sched \in Sched /\ SchedInv(sched) /\ RunOK
  BY DEF IpcInv, IpcTypeOK, ThrdTypeOK, CallInv
<1>1. /\ UNCHANGED <<signals, mask, evntOwner, conn, msg, pool, queue, r0, api>>
      /\ UNCHANGED <<owned, held, panic>>
  BY DEF Boot, Schedule, restVars
<1>2. /\ \A u \in Thread : sched'.state[u] = "BLOCK" <=> sched.state[u] = "BLOCK"
      /\ pendsv' => curr' # NULL
      /\ curr' # NULL => \A u \in Thread : sched'.state[u] # "CREATING"
      /\ curr' # NULL /\ ~pendsv' /\ SomeRunning' => sched'.state[curr'] = "RUNNING"
  <2>1. ASSUME NEW t \in Thread, Start(t)
        PROVE  /\ \A u \in Thread : sched'.state[u] = "BLOCK" <=>
                                      sched.state[u] = "BLOCK"
               /\ curr' = NULL /\ ~pendsv'
    <3>1. sched'.state = [sched.state EXCEPT ![t] = "RUNNING"]
      BY <1>0, <2>1, StartProperties DEF Start
    <3>2. sched.state \in [Thread -> ThrdState]
      BY <1>0 DEF Sched
    <3> QED
      BY <1>0, <2>1, <3>1, <3>2 DEF Start, RunOK
  <2>2. CASE Started = Thread /\ tfm_core_thrd_start_scheduler(NS)
    <3>1. sched' = sched /\ pendsv' = TRUE /\ curr' # NULL
      BY <2>2, IpcAssumption, ThreadAssumption DEF tfm_core_thrd_start_scheduler
    <3>2. \A u \in Thread : \E j \in DOMAIN sched.list : sched.list[j] = u
      BY <2>2 DEF Started
    <3>3. \A u \in Thread : sched.state[u] # "CREATING"
      BY <1>0, <3>2 DEF SchedInv, ListComplete
    <3> QED
      BY <3>1, <3>3
  <2>3. CASE Schedule
    <3>1. /\ sched' = sched
          /\ curr' = IF NextThread = NULL THEN curr ELSE NextThread
          /\ pendsv' = FALSE
      BY <2>3 DEF Schedule, PendSV
    <3>2. NextThread = NULL \/
            (NextThread \in Thread /\ sched.state[NextThread] = "RUNNING")
      BY <1>0, NextIsRunning DEF NextThread
    <3>3. NextThread = NULL => ~SomeRunning
      BY <1>0, NoNextThread DEF NextThread, SomeRunning
    <3>4. SomeRunning' => SomeRunning
      BY <3>1 DEF SomeRunning
    <3>5. \A u \in Thread : sched.state[u] # "CREATING" \/ curr = NULL
      BY <1>0 DEF RunOK
    <3>6. curr # NULL
      BY <2>3, <1>0 DEF Schedule, PendSV, RunOK
    <3> QED
      BY <3>1, <3>2, <3>3, <3>4, <3>5, <3>6
  <2> QED
    BY <2>1, <2>2, <2>3 DEF Boot
<1>3. QueuesOK(c)' /\ HeldOK' /\ \A h : Flying(c, h)' <=> Flying(c, h)
  BY <1>1, QueuesFrame DEF CallInv
<1>4. (GrantedOK(c) /\ OwnedOK /\ PoolOK(c) /\ NoLeak(c) /\ ActiveOK)'
  BY <1>1, HandlesFrame DEF CallInv
<1>5. SendersOK(c)'
  BY <1>1, <1>2, <1>3 DEF CallInv, SendersOK
<1>6. BlockedOK(c)'
  BY <1>1, <1>2, <1>3 DEF CallInv, BlockedOK, AwaitsReply, AwaitsSignal
<1>7. AnsweredOK'
  BY <1>1, <1>2 DEF CallInv, AnsweredOK
<1>8. RunOK'
  BY <1>0, <1>1, <1>2 DEF RunOK
<1> QED
  BY <1>3, <1>4, <1>5, <1>6, <1>7, <1>8 DEF CallInv
-----------------------------------------------------------------------------
(* Signals, waiting and the return of a call *)

\* A doorbell or an interrupt wakes a partition that waits for signals; one
\* that waits for an answer is left alone.
LEMMA NotifyCall ==
  ASSUME IpcInv, NEW c, CallInv(c), AnswerWakes, curr # NULL,
         NEW p \in Thread, NEW sig \in Irq \cup {DOORBELL},
         sig \in Irq => IrqOwner[sig] = p,
         notify_with_signal(p, sig)
  PROVE  CallInv(c)'
<1> DEFINE o == evntOwner[p]
           val == RetSignals((signals[p] \cup {sig}) \cap mask[p])
<1>0. IpcTypeOK
  BY DEF IpcInv
<1>1. /\ signals' = [signals EXCEPT ![p] = @ \cup {sig}]
      /\ sched' = tfm_event_wake(sched, o)
      /\ pendsv' = (pendsv \/ Wakes(sched, o))
      /\ r0' \in tfm_core_thrd_set_retval(sched, o, val)
      /\ UNCHANGED <<curr, mask, evntOwner, api, panic>>
      /\ UNCHANGED <<conn, msg, pool, queue, owned, held, seen>>
  BY DEF notify_with_signal, connVars, userVars
<1>2. o \in Thread \cup {NULL} /\ o \in {NULL, p}
  BY <1>0 DEF IpcInv, IpcTypeOK, Pointer
<1>3. val \in Value
  BY <1>0, IpcAssumption DEF IpcTypeOK, RetSignals, Value
<1>4. Wakes(sched, o) <=> o = p /\ sched.state[p] = "BLOCK"
  BY <1>2, ThreadAssumption DEF Wakes
<1> HIDE DEF o, val
<1>5. sched \in Sched /\ SchedInv(sched) /\ r0 \in [Thread -> Value]
  BY <1>0 DEF IpcInv, IpcTypeOK, ThrdTypeOK
<1>6. \A u \in Thread : sched'.state[u] =
        IF u = o /\ sched.state[u] = "BLOCK" THEN "RUNNING" ELSE sched.state[u]
  BY <1>1, <1>2, <1>5, WakeState
<1>7. \A u \in Thread : ~(u = o /\ sched.state[u] = "BLOCK") => r0'[u] = r0[u]
  BY <1>1, <1>2, <1>3, <1>5, RetvalExact
<1>8. /\ \A u \in Thread : u # p => signals'[u] = signals[u]
      /\ signals'[p] = signals[p] \cup {sig}
  BY <1>0, <1>1 DEF IpcTypeOK
<1>9. Wakes(sched, o) => AwaitsSignal(p)
  <2> SUFFICES ASSUME o = p, sched.state[p] = "BLOCK", AwaitsReply(c, p)
               PROVE  FALSE
    BY <1>4 DEF CallInv, BlockedOK
  <2>1. sched'.state[p] # "BLOCK"
    BY <1>6
  <2>2. api'[p].reply = NULL /\ api[p].fn \in ClientFn
    BY <1>1 DEF AwaitsReply
  <2> QED
    BY <2>1, <2>2 DEF AnswerWakes
<1>10. Wakes(sched, o) => api[p].fn \notin ClientFn
  BY <1>9 DEF AwaitsSignal, ClientFn
<1>11. QueuesOK(c)' /\ HeldOK' /\ \A h : Flying(c, h)' <=> Flying(c, h)
  BY <1>1, QueuesFrame DEF CallInv
<1>12. (GrantedOK(c) /\ OwnedOK /\ PoolOK(c) /\ NoLeak(c) /\ ActiveOK)'
  BY <1>1, HandlesFrame DEF CallInv
<1>13. \A u \in Thread : api[u].fn \in ClientFn =>
         sched'.state[u] = sched.state[u] /\ r0'[u] = r0[u]
  BY <1>2, <1>4, <1>6, <1>7, <1>10, ThreadAssumption
<1>14. SendersOK(c)'
  BY <1>1, <1>11, <1>13 DEF CallInv, SendersOK
<1>15. BlockedOK(c)'
  <2> SUFFICES ASSUME NEW u \in Thread, sched'.state[u] = "BLOCK"
               PROVE  AwaitsReply(c, u)' \/ AwaitsSignal(u)'
    BY DEF BlockedOK
  <2>1. sched.state[u] = "BLOCK" /\ u # o
    BY <1>6
  <2>2. CASE AwaitsReply(c, u)
    BY <1>1, <1>11, <2>2 DEF AwaitsReply
  <2>3. CASE AwaitsSignal(u)
    <3>1. u # p
      BY <2>1, <2>3 DEF AwaitsSignal, o
    <3> QED
      BY <1>1, <1>8, <2>3, <3>1 DEF AwaitsSignal
  <2> QED
    BY <2>1, <2>2, <2>3 DEF CallInv, BlockedOK
<1>16. AnsweredOK'
  BY <1>1, <1>13 DEF CallInv, AnsweredOK
<1>17. RunOK'
  <2>0. RunOK /\ panic' = panic /\ curr' = curr
    BY <1>1 DEF CallInv
  <2>1. \A u \in Thread : sched'.state[u] # "CREATING"
    BY <1>6, <2>0 DEF RunOK
  <2>2. ~pendsv' => ~pendsv /\ \A u \in Thread : sched'.state[u] = sched.state[u]
    <3>1. ~pendsv' => ~pendsv /\ ~Wakes(sched, o)
      BY <1>1
    <3> QED
      BY <1>2, <1>4, <1>6, <3>1, ThreadAssumption
  <2>3. curr \in Thread
    BY <1>0 DEF IpcTypeOK, ThrdTypeOK
  <2>4. ~pendsv' /\ SomeRunning' => sched'.state[curr'] = "RUNNING"
    <3> SUFFICES ASSUME ~pendsv', SomeRunning' PROVE sched'.state[curr'] = "RUNNING"
      OBVIOUS
    <3>1. SomeRunning
      BY <2>2 DEF SomeRunning
    <3> QED
      BY <2>0, <2>2, <2>3, <3>1 DEF RunOK
  <2>5. \A u \in Thread : \A i \in signals'[u] \cap Irq : IrqOwner[i] = u
    BY <1>8, <2>0 DEF RunOK
  <2> QED
    BY <2>0, <2>1, <2>4, <2>5 DEF RunOK
<1> QED
  BY <1>11, <1>12, <1>14, <1>15, <1>16, <1>17 DEF CallInv

\* psa_wait() blocks the partition until a signal of its mask is raised.
LEMMA WaitCall ==
  ASSUME IpcInv, NEW c, CallInv(c), SoundSystem, SomeRunning,
         NEW t \in Thread, NEW m \in Masks[t], NEW timeout \in WaitFn,
         psa_wait(t, m, timeout)
  PROVE  CallInv(c)'
<1> DEFINE blocks == timeout = "wait" /\ signals[t] \cap m = {}
<1>0. /\ IpcTypeOK /\ Ready(t) /\ RunOK /\ curr = t /\ api[t] = NoCall
      /\ held[t] # {} => WaitWhileHolding
  BY DEF IpcInv, CallInv, psa_wait, Ready, InThread
<1>1. sched.state[t] = "RUNNING"
  BY <1>0, ReadyRuns DEF Ready
<1>2. m \cap SigOwner(t) # {}
  BY DEF SoundSystem, Attentive
<1>3. /\ mask' = [mask EXCEPT ![t] = m]
      /\ r0' = [r0 EXCEPT ![t] = RetSignals(signals[t] \cap m)]
      /\ api' = [api EXCEPT ![t] = [fn |-> timeout, h |-> NULL,
                                    reply |-> NULL]]
      /\ UNCHANGED <<curr, signals, irqOn, panic>>
      /\ UNCHANGED <<conn, msg, pool, queue, owned, held, seen>>
  BY <1>2 DEF psa_wait, connVars, userVars
<1>4. /\ ~blocks => UNCHANGED <<evntOwner, sched, pendsv>>
      /\ blocks => /\ evntOwner' = [evntOwner EXCEPT ![t] = t]
                   /\ sched' = tfm_event_wait(sched)
                   /\ pendsv' = TRUE
  BY <1>2 DEF psa_wait
<1>5. blocks => \A u \in Thread :
        sched'.state[u] = IF u = t THEN "BLOCK" ELSE sched.state[u]
  <2>1. sched \in Sched /\ SchedInv(sched) /\ sched.state[curr] # "CREATING"
    BY <1>0, <1>1 DEF IpcInv, IpcTypeOK, ThrdTypeOK
  <2>2. \A u \in Thread : tfm_event_wait(sched).state[u] =
                            IF u = curr THEN "BLOCK" ELSE sched.state[u]
    BY <1>0, <2>1, WaitState
  <2> QED
    BY <1>0, <1>4, <2>2
<1>6. \A u \in Thread : u # t =>
        /\ api'[u] = api[u] /\ r0'[u] = r0[u] /\ mask'[u] = mask[u]
        /\ evntOwner'[u] = evntOwner[u] /\ sched'.state[u] = sched.state[u]
  BY <1>0, <1>3, <1>4, <1>5 DEF IpcTypeOK
<1>7. /\ api'[t].fn = timeout /\ api'[t].reply = NULL /\ mask'[t] = m
      /\ api[t].fn = "none" /\ api[t].reply = NULL
  BY <1>0, <1>3 DEF IpcTypeOK, NoCall
<1> HIDE DEF blocks
<1>8. api'[t].fn \notin ClientFn /\ \A h \in Handle : api'[t].reply # h
  BY <1>7, IpcAssumption DEF ClientFn, WaitFn
<1>9. QueuesOK(c)' /\ HeldOK' /\ \A h : Flying(c, h)' <=> Flying(c, h)
  BY <1>3, QueuesFrame DEF CallInv
<1>10. \A h \in Handle : Taken(c, h)' <=> Taken(c, h)
  <2>1. \A h \in Handle : \A u \in Thread : api'[u].reply = h <=> api[u].reply = h
    BY <1>6, <1>7, <1>8
  <2> QED
    BY <1>3, <1>9, <2>1 DEF Taken
<1>11. SendersOK(c)'
  <2> SUFFICES ASSUME NEW h \in Handle, Flying(c, h)
               PROVE  msg[h].owner # t
    BY <1>3, <1>6, <1>9 DEF CallInv, SendersOK
  <2> QED
    BY <1>1 DEF CallInv, SendersOK
<1>12. BlockedOK(c)'
  <2> SUFFICES ASSUME NEW u \in Thread, sched'.state[u] = "BLOCK"
               PROVE  AwaitsReply(c, u)' \/ AwaitsSignal(u)'
    BY DEF BlockedOK
  <2>1. CASE u = t
    <3>1. blocks
      BY <1>1, <1>4, <2>1
    <3>2. evntOwner'[t] = t
      BY <1>0, <1>4, <3>1 DEF IpcTypeOK
    <3> QED
      BY <1>0, <1>3, <1>7, <2>1, <3>1, <3>2 DEF AwaitsSignal, blocks
  <2>2. CASE u # t
    <3>1. CASE AwaitsReply(c, u)
      BY <1>3, <1>6, <1>9, <2>2, <3>1 DEF AwaitsReply
    <3>2. CASE AwaitsSignal(u)
      BY <1>3, <1>6, <2>2, <3>2 DEF AwaitsSignal
    <3> QED
      BY <1>6, <2>2, <3>1, <3>2 DEF CallInv, BlockedOK
  <2> QED
    BY <2>1, <2>2
<1>13. AnsweredOK'
  BY <1>6, <1>8 DEF CallInv, AnsweredOK
<1>14. GrantedOK(c)'
  BY <1>3, <1>6, <1>8, <1>9 DEF CallInv, GrantedOK
<1>15. OwnedOK'
  BY <1>3 DEF CallInv, OwnedOK
<1>16. PoolOK(c)'
  BY <1>0, <1>3, <1>10 DEF CallInv, PoolOK, IpcTypeOK
<1>17. NoLeak(c)'
  BY <1>3, <1>10 DEF CallInv, NoLeak
<1>18. ActiveOK'
  BY <1>3 DEF CallInv, ActiveOK, Held
<1>19. RunOK'
  <2>1. /\ ~panic' /\ curr' = t /\ t # NULL
        /\ \A u \in Thread : \A i \in signals'[u] \cap Irq : IrqOwner[i] = u
    BY <1>0, <1>3, ThreadAssumption DEF RunOK
  <2>2. \A u \in Thread : sched'.state[u] # "CREATING"
    BY <1>0, <1>4, <1>5, <2>1 DEF RunOK
  <2>3. ~pendsv' => sched'.state[t] = "RUNNING"
    BY <1>1, <1>4
  <2> QED
    BY <2>1, <2>2, <2>3 DEF RunOK
<1> QED
  BY <1>9, <1>11, <1>12, <1>13, <1>14, <1>15, <1>16, <1>17, <1>18, <1>19
     DEF CallInv

\* A call that came back gives its connection to the client.
LEMMA ReturnCall ==
  ASSUME IpcInv, NEW c, CallInv(c), SomeRunning, NEW t \in Thread, Return(t)
  PROVE  CallInv(c)'
<1>0. IpcTypeOK /\ InThread(t) /\ RunOK
  BY DEF IpcInv, CallInv, Return
<1>1. sched.state[t] = "RUNNING"
  BY <1>0, ReadyRuns
<1>2. /\ api' = [api EXCEPT ![t] = NoCall]
      /\ owned' = IF api[t].fn = "connect" /\ r0[t].st \in Handle
                  THEN [owned EXCEPT ![t] = @ \cup {r0[t].st}] ELSE owned
      /\ UNCHANGED <<sched, curr, pendsv, signals, r0, held>>
      /\ UNCHANGED <<mask, evntOwner, irqOn, panic, conn, msg, pool, queue>>
  BY DEF Return, spmVars, connVars
<1>3. /\ \A u \in Thread : u # t => api'[u] = api[u] /\ owned'[u] = owned[u]
      /\ api'[t].fn = "none" /\ api'[t].reply = NULL
  BY <1>0, <1>2 DEF IpcTypeOK, NoCall
<1>4. \A h \in Handle : h \in owned'[t] <=> h \in owned[t] \/ api[t].reply = h
  <2>1. CASE api[t].fn = "connect"
    <3>1. r0[t].st = api[t].reply
      <4>1. r0[t] = Ret(api[t].reply)
        BY <1>1, <2>1 DEF CallInv, AnsweredOK, ClientFn
      <4> QED
        BY <4>1 DEF Ret
    <3>2. CASE api[t].reply \in Handle
      BY <1>0, <1>2, <2>1, <3>1, <3>2 DEF IpcTypeOK
    <3>3. CASE api[t].reply \notin Handle
      BY <1>2, <3>1, <3>3
    <3> QED
      BY <3>2, <3>3
  <2>2. CASE api[t].fn # "connect"
    BY <1>2, <2>2 DEF CallInv, GrantedOK
  <2> QED
    BY <2>1, <2>2
<1>5. owned' \in [Thread -> SUBSET Handle]
  BY <1>0, <1>2 DEF IpcTypeOK
<1>6. api'[t].fn \notin ClientFn /\ \A h \in Handle : api'[t].reply # h
  BY <1>3, IpcAssumption DEF ClientFn
<1>7. QueuesOK(c)' /\ HeldOK' /\ \A h : Flying(c, h)' <=> Flying(c, h)
  BY <1>2, QueuesFrame DEF CallInv
<1>8. \A h \in Handle : Taken(c, h)' <=> Taken(c, h)
  <2> SUFFICES ASSUME NEW h \in Handle
               PROVE  (\E u \in Thread : h \in owned'[u] \/ api'[u].reply = h) <=>
                      (\E u \in Thread : h \in owned[u] \/ api[u].reply = h)
    BY <1>7 DEF Taken
  <2>1. \A u \in Thread : (h \in owned'[u] \/ api'[u].reply = h) <=>
                          (h \in owned[u] \/ api[u].reply = h)
    BY <1>3, <1>4, <1>6
  <2> QED
    BY <2>1
<1>9. SendersOK(c)'
  <2> SUFFICES ASSUME NEW h \in Handle, Flying(c, h)
               PROVE  msg[h].owner # t
    BY <1>2, <1>3, <1>7 DEF CallInv, SendersOK
  <2> QED
    BY <1>1 DEF CallInv, SendersOK
<1>10. BlockedOK(c)'
  <2> SUFFICES ASSUME NEW u \in Thread, sched.state[u] = "BLOCK"
               PROVE  AwaitsReply(c, u)' \/ AwaitsSignal(u)'
    BY <1>2 DEF BlockedOK
  <2>1. api'[u] = api[u]
    BY <1>1, <1>3
  <2>2. CASE AwaitsReply(c, u)
    BY <1>2, <1>7, <2>1, <2>2 DEF AwaitsReply
  <2>3. CASE AwaitsSignal(u)
    BY <1>2, <2>1, <2>3 DEF AwaitsSignal
  <2> QED
    BY <2>2, <2>3 DEF CallInv, BlockedOK
<1>11. AnsweredOK'
  BY <1>2, <1>3, <1>6 DEF CallInv, AnsweredOK
<1>12. OwnedOK'
  <2> SUFFICES ASSUME NEW u \in Thread, NEW h \in owned'[u]
               PROVE  conn[h].client = u /\ conn[h].service \in Deps[u]
    BY <1>2 DEF OwnedOK
  <2>1. h \in Handle
    BY <1>5
  <2>2. CASE h \in owned[u]
    BY <2>2 DEF CallInv, OwnedOK
  <2>3. CASE u = t /\ api[t].reply = h
    BY <2>1, <2>3 DEF CallInv, GrantedOK
  <2> QED
    BY <1>3, <1>4, <2>1, <2>2, <2>3
<1>13. GrantedOK(c)'
  <2> SUFFICES ASSUME NEW u \in Thread, NEW h \in Handle, api'[u].reply = h
               PROVE  /\ api'[u].fn = "connect"
                      /\ conn[h].client = u
                      /\ conn[h].service \in Deps[u]
                      /\ ~Flying(c, h)
                      /\ \A x \in Thread : h \notin owned'[x]
    BY <1>2, <1>7 DEF GrantedOK
  <2>1. u # t /\ api'[u] = api[u]
    BY <1>3, <1>6
  <2>2. /\ api[u].fn = "connect" /\ conn[h].client = u
        /\ conn[h].service \in Deps[u] /\ ~Flying(c, h)
        /\ \A x \in Thread : h \notin owned[x]
    BY <2>1 DEF CallInv, GrantedOK
  <2>3. api[t].reply # h
    BY <2>1, <2>2 DEF CallInv, GrantedOK
  <2> QED
    BY <1>3, <1>4, <2>1, <2>2, <2>3
<1>14. PoolOK(c)'
  BY <1>0, <1>2, <1>8 DEF CallInv, PoolOK, IpcTypeOK
<1>15. NoLeak(c)'
  BY <1>2, <1>8 DEF CallInv, NoLeak
<1>16. ActiveOK'
  BY <1>2 DEF CallInv, ActiveOK, Held
<1>17. RunOK'
  BY <1>0, <1>2 DEF RunOK, SomeRunning
<1> QED
  BY <1>7, <1>9, <1>10, <1>11, <1>12, <1>13, <1>14, <1>15, <1>16, <1>17
     DEF CallInv

\* A call that fails at once, without a message.
LEMMA AtOnceCall ==
  ASSUME IpcInv, NEW c, CallInv(c), NEW t \in Thread,
         sched.state[t] = "RUNNING", api[t] = NoCall,
         NEW fn \in ClientFn, NEW val \in Status, ReturnAtOnce(t, fn, val)
  PROVE  CallInv(c)'
<1>0. IpcTypeOK
  BY DEF IpcInv
<1>1. /\ r0' = [r0 EXCEPT ![t] = Ret(val)]
      /\ api' = [api EXCEPT ![t] = [fn |-> fn, h |-> NULL, reply |-> val]]
      /\ UNCHANGED <<sched, curr, pendsv, signals, held, owned>>
      /\ UNCHANGED <<mask, evntOwner, panic, conn, msg, pool, queue>>
  BY DEF ReturnAtOnce, spmVars, connVars
<1>2. /\ \A u \in Thread : u # t => api'[u] = api[u] /\ r0'[u] = r0[u]
      /\ api'[t].reply = val /\ r0'[t] = Ret(val) /\ api[t].reply = NULL
  BY <1>0, <1>1 DEF IpcTypeOK, NoCall
<1>3. val # NULL /\ \A h \in Handle : val # h /\ NULL # h
  BY IpcAssumption
<1>4. QueuesOK(c)' /\ HeldOK' /\ \A h : Flying(c, h)' <=> Flying(c, h)
  BY <1>1, QueuesFrame DEF CallInv
<1>5. \A h \in Handle : Taken(c, h)' <=> Taken(c, h)
  <2>1. \A h \in Handle : \A u \in Thread : api'[u].reply = h <=> api[u].reply = h
    BY <1>2, <1>3
  <2> QED
    BY <1>1, <1>4, <2>1 DEF Taken
<1>6. SendersOK(c)'
  <2> SUFFICES ASSUME NEW h \in Handle, Flying(c, h)
               PROVE  msg[h].owner # t
    BY <1>1, <1>2, <1>4 DEF CallInv, SendersOK
  <2> QED
    BY DEF CallInv, SendersOK
<1>7. BlockedOK(c)'
  <2> SUFFICES ASSUME NEW u \in Thread, sched.state[u] = "BLOCK"
               PROVE  AwaitsReply(c, u)' \/ AwaitsSignal(u)'
    BY <1>1 DEF BlockedOK
  <2>1. api'[u] = api[u]
    BY <1>2
  <2>2. CASE AwaitsReply(c, u)
    BY <1>1, <1>4, <2>1, <2>2 DEF AwaitsReply
  <2>3. CASE AwaitsSignal(u)
    BY <1>1, <2>1, <2>3 DEF AwaitsSignal
  <2> QED
    BY <2>2, <2>3 DEF CallInv, BlockedOK
<1>8. AnsweredOK'
  BY <1>1, <1>2, <1>3 DEF CallInv, AnsweredOK
<1>9. GrantedOK(c)'
  BY <1>1, <1>2, <1>3, <1>4 DEF CallInv, GrantedOK
<1>10. OwnedOK' /\ ActiveOK'
  BY <1>1 DEF CallInv, OwnedOK, ActiveOK, Held
<1>11. PoolOK(c)'
  BY <1>0, <1>1, <1>5 DEF CallInv, PoolOK, IpcTypeOK
<1>12. NoLeak(c)'
  BY <1>1, <1>5 DEF CallInv, NoLeak
<1>13. RunOK'
  BY <1>1 DEF CallInv, RunOK, SomeRunning
<1> QED
  BY <1>4, <1>6, <1>7, <1>8, <1>9, <1>10, <1>11, <1>12, <1>13 DEF CallInv
-----------------------------------------------------------------------------
(* Serving a message *)

\* Taking the first element of a sequence without repetition.
LEMMA TailElements ==
  ASSUME NEW S, NEW q \in Seq(S), Len(q) > 0
  PROVE  /\ Tail(q) \in Seq(S)
         /\ Len(Tail(q)) = Len(q) - 1
         /\ \A i \in 1..Len(Tail(q)) : i + 1 \in 1..Len(q) /\ Tail(q)[i] = q[i + 1]
         /\ \A i \in 2..Len(q) : i - 1 \in 1..Len(Tail(q)) /\ Tail(q)[i - 1] = q[i]
<1>1. Len(q) \in Nat /\ Len(Tail(q)) = Len(q) - 1 /\ Tail(q) \in Seq(S)
  BY q # <<>>
<1>2. \A i \in 1..Len(Tail(q)) : i + 1 \in 1..Len(q) /\ Tail(q)[i] = q[i + 1]
  BY <1>1
<1>3. \A i \in 2..Len(q) : i - 1 \in 1..Len(Tail(q)) /\ Tail(q)[i - 1] = q[i]
  BY <1>1
<1> QED
  BY <1>1, <1>2, <1>3

\* psa_get() moves the first message of the queue to the partition.
LEMMA GetCall ==
  ASSUME IpcInv, NEW c, CallInv(c), SomeRunning, NEW t \in Thread,
         NEW s \in Service, psa_get(t, s)
  PROVE  \E d : CallInv(d)'
<1>0. /\ IpcTypeOK /\ Ready(t) /\ RunOK /\ curr = t /\ api[t] = NoCall
      /\ s \in seen[t]
  BY DEF IpcInv, CallInv, psa_get, Ready, InThread
<1>1. sched.state[t] = "RUNNING"
  BY <1>0, ReadyRuns DEF Ready
<1>2. s \in signals[t]
  BY <1>0 DEF IpcInv, SeenAsserted
<1>3. Owner[s] = t /\ queue[s].size > 0
  BY <1>2 DEF IpcInv, SignalIffQueued
<1> DEFINE e == c[s]
           n == Len(e)
           d == [c EXCEPT ![s] = Tail(e)]
<1>4. /\ c \in [Service -> Seq(Handle)] /\ e \in Seq(Handle) /\ n \in Nat
      /\ n = queue[s].size /\ n > 0
      /\ queue[s].head = e[1] /\ queue[s].tail = e[n]
  BY <1>3 DEF CallInv, QueuesOK
<1>5. PICK h : h = e[1]
  OBVIOUS
<1>6. h \in Handle /\ h # NULL /\ queue[s].head = h
  BY <1>4, <1>5, IpcAssumption
<1>7. /\ Tail(e) \in Seq(Handle)
      /\ Len(Tail(e)) = n - 1
      /\ \A i \in 1..Len(Tail(e)) : i + 1 \in 1..n /\ Tail(e)[i] = e[i + 1]
      /\ \A i \in 2..n : i - 1 \in 1..Len(Tail(e)) /\ Tail(e)[i - 1] = e[i]
  BY <1>4, TailElements
<1>8. /\ d \in [Service -> Seq(Handle)] /\ d[s] = Tail(e)
      /\ \A x \in Service : x # s => d[x] = c[x]
  BY <1>4, <1>7
<1> HIDE DEF d
<1>9. /\ queue' = [queue EXCEPT ![s] = tfm_msg_dequeue(queue[s], msg)]
      /\ conn' = [conn EXCEPT ![h].status = "ACTIVE"]
      /\ held' = [held EXCEPT ![t] = @ \cup {h}]
      /\ signals' = [signals EXCEPT ![t] =
                       ClearIfEmpty(@, s, tfm_msg_dequeue(queue[s], msg))]
      /\ UNCHANGED <<sched, curr, pendsv, msg, pool, r0, api, owned>>
      /\ UNCHANGED <<mask, evntOwner, panic>>
  BY <1>2, <1>3, <1>6 DEF psa_get, spmVars
<1>10. /\ \A x \in Service : x # s => queue'[x] = queue[x]
       /\ queue'[s].head = msg[h].next /\ queue'[s].tail = queue[s].tail
       /\ queue'[s].size = n - 1
  BY <1>0, <1>4, <1>6, <1>9 DEF IpcTypeOK, Queue, tfm_msg_dequeue
<1>11. /\ \A u \in Thread : signals'[u] \subseteq signals[u]
       /\ \A u \in Thread : u # t => held'[u] = held[u]
       /\ held'[t] = held[t] \cup {h}
  BY <1>0, <1>9 DEF IpcTypeOK, ClearIfEmpty
<1>12. /\ \A g \in Handle : g # h => conn'[g] = conn[g]
       /\ conn'[h].client = conn[h].client /\ conn'[h].service = conn[h].service
  BY <1>0, <1>6, <1>9 DEF IpcTypeOK, Conn
<1>13. \A g \in Handle : /\ conn'[g].client = conn[g].client
                         /\ conn'[g].service = conn[g].service
  BY <1>12
<1>14. \A g : Held(g)' <=> Held(g) \/ g = h
  BY <1>11 DEF Held
<1>15. \A i \in 2..n : e[i] # h
  BY <1>4, <1>5 DEF CallInv, QueuesOK
<1>16. \A x \in Service : x # s => \A i \in 1..Len(c[x]) : c[x][i] # h
  <2>1. msg[h].service = s
    BY <1>4, <1>5 DEF CallInv, QueuesOK
  <2> QED
    BY <2>1 DEF CallInv, QueuesOK
<1>17. \A g : Waiting(d, g) <=> Waiting(c, g) /\ g # h
  <2>1. ASSUME NEW g, Waiting(d, g) PROVE Waiting(c, g) /\ g # h
    <3>1. PICK x \in Service : \E i \in 1..Len(d[x]) : d[x][i] = g
      BY <2>1 DEF Waiting
    <3>2. PICK i \in 1..Len(d[x]) : d[x][i] = g
      BY <3>1
    <3>3. CASE x # s
      BY <1>8, <1>16, <3>2, <3>3 DEF Waiting
    <3>4. CASE x = s
      <4>0. i \in 1..Len(Tail(e)) /\ Tail(e)[i] = g
        BY <1>8, <3>2, <3>4
      <4>1. i + 1 \in 2..n /\ e[i + 1] = g
        <5>1. i \in 1..(n - 1)
          BY <1>7, <4>0
        <5> QED
          BY <1>4, <1>7, <4>0, <5>1
      <4>2. i + 1 \in 1..n
        BY <1>4, <4>1
      <4> QED
        BY <1>15, <4>1, <4>2 DEF Waiting
    <3> QED
      BY <3>3, <3>4
  <2>2. ASSUME NEW g, Waiting(c, g), g # h PROVE Waiting(d, g)
    <3>1. PICK x \in Service : \E i \in 1..Len(c[x]) : c[x][i] = g
      BY <2>2 DEF Waiting
    <3>2. PICK i \in 1..Len(c[x]) : c[x][i] = g
      BY <3>1
    <3>3. CASE x # s
      BY <1>8, <3>2, <3>3 DEF Waiting
    <3>4. CASE x = s
      <4>1. i \in 2..n /\ e[i] = g
        BY <1>4, <1>5, <2>2, <3>2, <3>4
      <4>2. i - 1 \in 1..Len(d[s]) /\ d[s][i - 1] = g
        BY <1>7, <1>8, <4>1
      <4> QED
        BY <4>2 DEF Waiting
    <3> QED
      BY <3>3, <3>4
  <2> QED
    BY <2>1, <2>2
<1>18. Waiting(c, h)
  <2>1. 1 \in 1..n
    BY <1>4
  <2> QED
    BY <1>5, <2>1 DEF Waiting
<1>19. \A g : Flying(d, g)' <=> Flying(c, g)
  <2>1. \A g : Waiting(d, g)' <=> Waiting(d, g)
    BY DEF Waiting
  <2> QED
    BY <1>14, <1>17, <1>18, <2>1 DEF Flying
<1>20. QueuesOK(d)'
  <2>1. ASSUME NEW x \in Service
        PROVE  /\ Len(d[x]) = queue'[x].size
               /\ Len(d[x]) > 0 => /\ queue'[x].head = d[x][1]
                                   /\ queue'[x].tail = d[x][Len(d[x])]
               /\ \A i \in 1..(Len(d[x]) - 1) : msg'[d[x][i]].next = d[x][i + 1]
               /\ \A i, j \in 1..Len(d[x]) : d[x][i] = d[x][j] => i = j
               /\ \A i \in 1..Len(d[x]) : /\ msg'[d[x][i]].magic
                                          /\ msg'[d[x][i]].service = x
                                          /\ ~Held(d[x][i])'
    <3>1. CASE x # s
      <4>1. d[x] = c[x] /\ queue'[x] = queue[x] /\ msg' = msg
        BY <1>8, <1>9, <1>10, <3>1
      <4>2. \A i \in 1..Len(c[x]) : ~Held(c[x][i])'
        BY <1>14, <1>16, <3>1 DEF CallInv, QueuesOK
      <4>3. /\ Len(c[x]) = queue[x].size
            /\ Len(c[x]) > 0 => /\ queue[x].head = c[x][1]
                                /\ queue[x].tail = c[x][Len(c[x])]
            /\ \A i \in 1..(Len(c[x]) - 1) : msg[c[x][i]].next = c[x][i + 1]
            /\ \A i, j \in 1..Len(c[x]) : c[x][i] = c[x][j] => i = j
            /\ \A i \in 1..Len(c[x]) : /\ msg[c[x][i]].magic
                                       /\ msg[c[x][i]].service = x
        BY DEF CallInv, QueuesOK
      <4> QED
        BY <4>1, <4>2, <4>3
    <3>2. CASE x = s
      <4>0. d[s] = Tail(e) /\ Len(d[s]) = n - 1 /\ msg' = msg
        BY <1>7, <1>8, <1>9
      <4>1. Len(d[s]) = queue'[s].size
        BY <1>10, <4>0
      <4>2. Len(d[s]) > 0 => /\ queue'[s].head = d[s][1]
                             /\ queue'[s].tail = d[s][Len(d[s])]
        <5> SUFFICES ASSUME n - 1 > 0
                     PROVE  msg[h].next = d[s][1] /\ e[n] = d[s][n - 1]
          BY <1>4, <1>10, <4>0
        <5>1. 1 \in 1..(n - 1) /\ n \in 2..n /\ 2 \in 2..n
          BY <1>4
        <5>2. msg[e[1]].next = e[1 + 1]
          BY <5>1 DEF CallInv, QueuesOK
        <5>3. d[s][2 - 1] = e[2] /\ d[s][n - 1] = e[n]
          BY <1>7, <4>0, <5>1
        <5> QED
          BY <1>5, <5>2, <5>3
      <4>3. \A i \in 1..(Len(d[s]) - 1) : msg'[d[s][i]].next = d[s][i + 1]
        <5> SUFFICES ASSUME NEW i \in 1..(n - 2)
                     PROVE  msg[d[s][i]].next = d[s][i + 1]
          <6>1. Len(d[s]) - 1 = n - 2
            BY <1>4, <4>0
          <6> QED
            BY <4>0, <6>1
        <5>1. i \in 1..(n - 1) /\ i + 1 \in 1..(n - 1) /\ (i + 1) + 1 = i + 2
          BY <1>4
        <5>2. d[s][i] = e[i + 1] /\ d[s][i + 1] = e[(i + 1) + 1]
          BY <1>7, <4>0, <5>1
        <5>3. msg[e[i + 1]].next = e[(i + 1) + 1]
          BY <5>1 DEF CallInv, QueuesOK
        <5> QED
          BY <5>2, <5>3
      <4>4. \A i, j \in 1..Len(d[s]) : d[s][i] = d[s][j] => i = j
        <5> SUFFICES ASSUME NEW i \in 1..Len(d[s]), NEW j \in 1..Len(d[s]),
                            d[s][i] = d[s][j]
                     PROVE  i = j
          OBVIOUS
        <5>1. /\ i + 1 \in 1..n /\ j + 1 \in 1..n
              /\ e[i + 1] = e[j + 1]
          BY <1>7, <4>0
        <5>2. i + 1 = j + 1
          BY <5>1 DEF CallInv, QueuesOK
        <5>3. i \in Int /\ j \in Int
          OBVIOUS
        <5> QED
          BY <5>2, <5>3
      <4>5. \A i \in 1..Len(d[s]) : /\ msg'[d[s][i]].magic
                                    /\ msg'[d[s][i]].service = s
                                    /\ ~Held(d[s][i])'
        <5> SUFFICES ASSUME NEW i \in 1..Len(d[s])
                     PROVE  /\ msg[d[s][i]].magic /\ msg[d[s][i]].service = s
                            /\ ~Held(d[s][i])'
          BY <4>0
        <5>1. i + 1 \in 1..n /\ i + 1 \in 2..n /\ d[s][i] = e[i + 1]
          BY <1>4, <1>7, <4>0
        <5>2. msg[e[i + 1]].magic /\ msg[e[i + 1]].service = s /\ ~Held(e[i + 1])
          BY <5>1 DEF CallInv, QueuesOK
        <5>3. ~Held(e[i + 1])'
          BY <1>14, <1>15, <5>1, <5>2
        <5> QED
          BY <5>1, <5>2, <5>3
      <4> QED
        BY <3>2, <4>1, <4>2, <4>3, <4>4, <4>5
    <3> QED
      BY <3>1, <3>2
  <2> QED
    BY <1>8, <2>1 DEF QueuesOK
<1>21. HeldOK'
  <2>1. msg[h].magic /\ msg[h].service = s
    BY <1>4, <1>5 DEF CallInv, QueuesOK
  <2> QED
    BY <1>3, <1>9, <1>11, <2>1 DEF CallInv, HeldOK
<1>22. SendersOK(d)'
  BY <1>9, <1>13, <1>19 DEF CallInv, SendersOK
<1>23. BlockedOK(d)'
  <2> SUFFICES ASSUME NEW u \in Thread, sched.state[u] = "BLOCK"
               PROVE  AwaitsReply(d, u)' \/ AwaitsSignal(u)'
    BY <1>9 DEF BlockedOK
  <2>1. held'[u] = held[u]
    BY <1>1, <1>11
  <2>2. CASE AwaitsReply(c, u)
    BY <1>9, <1>19, <2>2 DEF AwaitsReply
  <2>3. CASE AwaitsSignal(u)
    BY <1>9, <1>11, <2>1, <2>3 DEF AwaitsSignal
  <2> QED
    BY <2>2, <2>3 DEF CallInv, BlockedOK
<1>24. AnsweredOK'
  BY <1>9 DEF CallInv, AnsweredOK
<1>25. GrantedOK(d)'
  BY <1>9, <1>13, <1>19 DEF CallInv, GrantedOK
<1>26. OwnedOK'
  BY <1>0, <1>9, <1>13 DEF CallInv, OwnedOK, IpcTypeOK
<1>27. \A g : Taken(d, g)' <=> Taken(c, g)
  BY <1>9, <1>19 DEF Taken
<1>28. PoolOK(d)'
  BY <1>9, <1>27 DEF CallInv, PoolOK
<1>29. NoLeak(d)'
  BY <1>9, <1>27 DEF CallInv, NoLeak
<1>30. ActiveOK'
  BY <1>12, <1>14 DEF CallInv, ActiveOK
<1>31. RunOK'
  BY <1>0, <1>9, <1>11 DEF RunOK, SomeRunning
<1>32. CallInv(d)'
  BY <1>20, <1>21, <1>22, <1>23, <1>24, <1>25, <1>26, <1>28, <1>29, <1>30, <1>31
     DEF CallInv
<1> QED
  BY <1>32

\* psa_reply() ends the call of the blocked sender with the answer.
LEMMA ReplyCall ==
  ASSUME IpcInv, NEW c, CallInv(c), SomeRunning, NEW t \in Thread,
         NEW h \in Handle, NEW status \in Status, psa_reply(t, h, status)
  PROVE  CallInv(c)'
<1>0. /\ IpcTypeOK /\ Ready(t) /\ RunOK /\ curr = t /\ h \in held[t]
      /\ status \in ReplyStatus(h)
  BY DEF IpcInv, CallInv, psa_reply, Ready, InThread
<1>1. sched.state[t] = "RUNNING"
  BY <1>0, ReadyRuns DEF Ready
<1>2. Held(h) /\ Flying(c, h)
  BY <1>0 DEF Held, Flying
<1>3. PICK o : o = msg[h].owner
  OBVIOUS
<1>4. /\ o \in Thread /\ sched.state[o] = "BLOCK" /\ o # t
      /\ api[o].fn \in ClientFn /\ api[o].h = h /\ api[o].reply = NULL
      /\ conn[h].client = o /\ conn[h].service \in Deps[o]
      /\ msg[h].type \in {"CONNECT", "CALL", "DISCONNECT"}
      /\ msg[h].type = "CONNECT" => api[o].fn = "connect"
      /\ msg[h].type = "CALL" => h \in owned[o]
      /\ msg[h].type # "CALL" => h \notin owned[o]
  BY <1>1, <1>2, <1>3 DEF CallInv, SendersOK
<1>5. PICK ret : ret = ReplyValue(h, status)
  OBVIOUS
<1>6. PICK frees \in BOOLEAN : frees <=> FreesHandle(h, status)
  BY DEF FreesHandle
<1>7. /\ ret \in Status \cup Handle
      /\ ret = "PROGRAMMER_ERROR" => conn[h].client = NS
      /\ ret \in Handle => ret = h /\ msg[h].type = "CONNECT" /\ ~frees
      /\ frees => msg[h].type # "CALL" /\ ret \notin Handle
      /\ ~frees /\ "CONNECTION_BUSY" \notin ConnectReply =>
           msg[h].type = "CALL" \/ ret = h
  <2>0. \A g \in Handle : g \notin Status
    BY IpcAssumption
  <2>1. CASE msg[h].type = "CONNECT"
    <3>1. ret = IF status = "PSA_SUCCESS" THEN h ELSE status
      BY <1>5, <2>1 DEF ReplyValue
    <3>2. frees <=> status = "CONNECTION_REFUSED"
      BY <1>6, <2>1 DEF FreesHandle
    <3>3. status \in ConnectReply /\ status # "PROGRAMMER_ERROR"
      BY <1>0, <2>1, IpcAssumption DEF ReplyStatus
    <3>4. status \in {"PSA_SUCCESS", "CONNECTION_REFUSED", "CONNECTION_BUSY"}
      BY <3>3 DEF Status
    <3>5. h # "PROGRAMMER_ERROR"
      BY <2>0 DEF Status
    <3> QED
      BY <2>0, <2>1, <3>1, <3>2, <3>3, <3>4, <3>5
  <2>2. CASE msg[h].type = "CALL"
    <3>1. ret = status /\ ~frees
      BY <1>5, <1>6, <2>2 DEF ReplyValue, FreesHandle
    <3>2. status = "PROGRAMMER_ERROR" => conn[h].client = NS
      BY <1>0, <2>2 DEF ReplyStatus
    <3> QED
      BY <2>0, <2>2, <3>1, <3>2
  <2>3. CASE msg[h].type = "DISCONNECT"
    <3>1. ret = "PSA_SUCCESS" /\ frees
      BY <1>5, <1>6, <2>3 DEF ReplyValue, FreesHandle
    <3>2. "PSA_SUCCESS" \in Status
      BY DEF Status
    <3> QED
      BY <2>0, <2>3, <3>1, <3>2
  <2> QED
    BY <1>4, <2>1, <2>2, <2>3
<1>8. tfm_spm_get_msg_from_handle(h, t)
  BY <1>0 DEF CallInv, HeldOK, tfm_spm_get_msg_from_handle
<1> DEFINE st == IF ret = "PROGRAMMER_ERROR" THEN "CONNECT_ERROR" ELSE "IDLE"
<1>9. /\ conn' = [conn EXCEPT ![h].status = st]
      /\ msg' = [msg EXCEPT ![h].magic = ~frees]
      /\ pool' = IF frees THEN Append(pool, h) ELSE pool
      /\ sched' = tfm_event_wake(sched, o)
      /\ pendsv' = (pendsv \/ Wakes(sched, o))
      /\ r0' \in tfm_core_thrd_set_retval(sched, o, Ret(ret))
      /\ api' = [x \in Thread |-> IF x = o /\ api[x].h = h
                   THEN [api[x] EXCEPT !.reply = ret] ELSE api[x]]
      /\ held' = [held EXCEPT ![t] = @ \ {h}]
      /\ UNCHANGED <<curr, signals, queue, owned, mask, evntOwner, panic>>
  <2>1. /\ conn' = [conn EXCEPT ![h].status =
                      IF ReplyValue(h, status) = "PROGRAMMER_ERROR"
                      THEN "CONNECT_ERROR" ELSE "IDLE"]
        /\ msg' = [msg EXCEPT ![h].magic = ~FreesHandle(h, status)]
        /\ pool' = IF FreesHandle(h, status) THEN Append(pool, h) ELSE pool
        /\ sched' = tfm_event_wake(sched, msg[h].owner)
        /\ pendsv' = (pendsv \/ Wakes(sched, msg[h].owner))
        /\ r0' \in tfm_core_thrd_set_retval(sched, msg[h].owner,
                                            Ret(ReplyValue(h, status)))
        /\ api' = [x \in Thread |-> IF x = conn[h].client /\ api[x].h = h
                     THEN [api[x] EXCEPT !.reply = ReplyValue(h, status)]
                     ELSE api[x]]
        /\ held' = [held EXCEPT ![t] = @ \ {h}]
        /\ UNCHANGED <<curr, signals, queue, owned, mask, evntOwner, panic>>
    BY <1>5, <1>7, <1>8 DEF psa_reply, tfm_pool_free, spmVars
  <2>2. frees = FreesHandle(h, status)
    BY <1>6 DEF FreesHandle
  <2> QED
    BY <1>3, <1>4, <1>5, <2>1, <2>2
<1>10. st \in {"IDLE", "CONNECT_ERROR"}
  OBVIOUS
<1> HIDE DEF st
<1>11. /\ \A g \in Handle : g # h => conn'[g] = conn[g] /\ msg'[g] = msg[g]
       /\ conn'[h].status # "ACTIVE"
       /\ conn'[h].client = o /\ conn'[h].service = conn[h].service
       /\ msg'[h].magic = ~frees /\ msg'[h].owner = o
  BY <1>0, <1>3, <1>4, <1>9, <1>10 DEF IpcTypeOK, Conn, Msg
<1>12. \A g \in Handle : /\ conn'[g].client = conn[g].client
                         /\ conn'[g].service = conn[g].service
  BY <1>4, <1>11
<1>13. sched \in Sched /\ SchedInv(sched) /\ r0 \in [Thread -> Value]
  BY <1>0 DEF IpcInv, IpcTypeOK, ThrdTypeOK
<1>14. \A u \in Thread : sched'.state[u] =
         IF u = o THEN "RUNNING" ELSE sched.state[u]
  <2>1. o \in Thread \cup {NULL}
    BY <1>4
  <2>2. \A u \in Thread : tfm_event_wake(sched, o).state[u] =
          IF u = o /\ sched.state[u] = "BLOCK" THEN "RUNNING" ELSE sched.state[u]
    BY <1>13, <2>1, WakeState
  <2> QED
    BY <1>4, <1>9, <2>2
<1>15. /\ r0'[o] = Ret(ret)
       /\ \A u \in Thread : u # o => r0'[u] = r0[u]
  <2>1. o \in Thread \cup {NULL} /\ Ret(ret) \in Value
    BY <1>4, <1>7 DEF Ret, Value
  <2>2. r0' \in tfm_core_thrd_set_retval(sched, o, Ret(ret))
    BY <1>9
  <2> DEFINE v == Ret(ret)
  <2> HIDE DEF v
  <2>3. /\ \A u \in Thread : ~(u = o /\ sched.state[u] = "BLOCK") => r0'[u] = r0[u]
        /\ \A u \in Thread : u = o /\ sched.state[u] = "BLOCK" /\ u # curr =>
             r0'[u] = v
    BY <1>13, <2>1, <2>2, RetvalExact DEF v
  <2> QED
    BY <1>0, <1>4, <2>3 DEF v
<1>16. /\ \A u \in Thread : u # o => api'[u] = api[u]
       /\ api'[o].reply = ret /\ api'[o].fn = api[o].fn
  <2>1. api[o] \in ApiCall
    BY <1>0, <1>4 DEF IpcTypeOK
  <2> QED
    BY <1>4, <1>9, <2>1 DEF ApiCall
<1>17. Wakes(sched, o)
  BY <1>4, ThreadAssumption DEF Wakes
<1>18. /\ \A u \in Thread : held'[u] \subseteq held[u]
       /\ \A u \in Thread : h \notin held'[u]
       /\ \A u \in Thread : \A g \in held[u] : g # h => g \in held'[u]
  <2>1. \A u \in Thread : h \in held[u] => u = t
    BY <1>0 DEF CallInv, HeldOK
  <2>2. held \in [Thread -> SUBSET Handle]
    BY <1>0 DEF IpcTypeOK
  <2> QED
    BY <1>9, <2>1, <2>2
<1>19. \A g : Held(g)' <=> Held(g) /\ g # h
  BY <1>18 DEF Held
<1>20. \A s \in Service : \A i \in 1..Len(c[s]) : c[s][i] \in Handle /\ c[s][i] # h
  BY <1>2 DEF CallInv, QueuesOK
<1>21. \A g : Flying(c, g)' <=> Flying(c, g) /\ g # h
  <2>1. \A g : Waiting(c, g)' <=> Waiting(c, g)
    BY DEF Waiting
  <2>2. ~Waiting(c, h)
    BY <1>20 DEF Waiting
  <2> QED
    BY <1>19, <2>1, <2>2 DEF Flying
<1>22. QueuesOK(c)'
  <2>1. ASSUME NEW s \in Service
        PROVE  /\ Len(c[s]) = queue'[s].size
               /\ Len(c[s]) > 0 => /\ queue'[s].head = c[s][1]
                                   /\ queue'[s].tail = c[s][Len(c[s])]
               /\ \A i \in 1..(Len(c[s]) - 1) : msg'[c[s][i]].next = c[s][i + 1]
               /\ \A i, j \in 1..Len(c[s]) : c[s][i] = c[s][j] => i = j
               /\ \A i \in 1..Len(c[s]) : /\ msg'[c[s][i]].magic
                                          /\ msg'[c[s][i]].service = s
                                          /\ ~Held(c[s][i])'
    <3>1. \A i \in 1..Len(c[s]) : msg'[c[s][i]] = msg[c[s][i]]
      BY <1>11, <1>20
    <3>2. Len(c[s]) \in Nat
      BY DEF CallInv, QueuesOK
    <3>3. \A i \in 1..(Len(c[s]) - 1) : i \in 1..Len(c[s])
      BY <3>2
    <3>4. /\ Len(c[s]) = queue[s].size
          /\ Len(c[s]) > 0 => /\ queue[s].head = c[s][1]
                              /\ queue[s].tail = c[s][Len(c[s])]
          /\ \A i \in 1..(Len(c[s]) - 1) : msg[c[s][i]].next = c[s][i + 1]
          /\ \A i, j \in 1..Len(c[s]) : c[s][i] = c[s][j] => i = j
          /\ \A i \in 1..Len(c[s]) : /\ msg[c[s][i]].magic
                                     /\ msg[c[s][i]].service = s
                                     /\ ~Held(c[s][i])
      BY DEF CallInv, QueuesOK
    <3>5. queue' = queue
      BY <1>9
    <3> QED
      BY <1>19, <3>1, <3>3, <3>4, <3>5
  <2> QED
    BY <2>1 DEF CallInv, QueuesOK
<1>23. HeldOK'
  <2> SUFFICES ASSUME NEW u \in Thread, NEW g \in held'[u]
               PROVE  /\ msg'[g].magic /\ msg'[g].service \in Service
                      /\ Owner[msg'[g].service] = u
    BY DEF HeldOK
  <2>1. g \in held[u] /\ g # h /\ g \in Handle
    BY <1>0, <1>18 DEF IpcTypeOK
  <2>2. msg'[g] = msg[g]
    BY <1>11, <2>1
  <2> QED
    BY <2>1, <2>2 DEF CallInv, HeldOK
<1>24. SendersOK(c)'
  <2> SUFFICES ASSUME NEW g \in Handle, Flying(c, g), g # h
               PROVE  msg[g].owner # o /\ msg'[g] = msg[g] /\ conn'[g] = conn[g]
    <3>1. ASSUME NEW g \in Handle, Flying(c, g)'
          PROVE  /\ msg'[g].owner \in Thread
                 /\ sched'.state[msg'[g].owner] = "BLOCK"
                 /\ api'[msg'[g].owner].fn \in ClientFn
                 /\ api'[msg'[g].owner].h = g
                 /\ api'[msg'[g].owner].reply = NULL
                 /\ conn'[g].client = msg'[g].owner
                 /\ msg'[g].type \in {"CONNECT", "CALL", "DISCONNECT"}
                 /\ msg'[g].type = "CONNECT" => api'[msg'[g].owner].fn = "connect"
                 /\ msg'[g].type = "CALL" => g \in owned'[msg'[g].owner]
                 /\ msg'[g].type # "CALL" => g \notin owned'[msg'[g].owner]
                 /\ msg'[g].service \in Deps[msg'[g].owner]
                 /\ conn'[g].service \in Deps[msg'[g].owner]
      <4>1. Flying(c, g) /\ g # h
        BY <1>21, <3>1
      <4>2. msg[g].owner # o /\ msg'[g] = msg[g] /\ conn'[g] = conn[g]
        BY <4>1
      <4>3. msg[g].owner \in Thread
        BY <4>1 DEF CallInv, SendersOK
      <4>4. /\ sched'.state[msg[g].owner] = sched.state[msg[g].owner]
            /\ api'[msg[g].owner] = api[msg[g].owner]
            /\ owned' = owned
        BY <1>9, <1>14, <1>16, <4>2, <4>3
      <4> QED
        BY <4>1, <4>2, <4>3, <4>4 DEF CallInv, SendersOK
    <3> QED
      BY <3>1 DEF SendersOK
  <2>1. api[msg[g].owner].h = g
    BY DEF CallInv, SendersOK
  <2> QED
    BY <1>4, <1>11, <2>1
<1>25. BlockedOK(c)'
  <2> SUFFICES ASSUME NEW u \in Thread, sched'.state[u] = "BLOCK"
               PROVE  AwaitsReply(c, u)' \/ AwaitsSignal(u)'
    BY DEF BlockedOK
  <2>1. sched.state[u] = "BLOCK" /\ u # o /\ api'[u] = api[u]
    BY <1>14, <1>16
  <2>2. CASE AwaitsReply(c, u)
    <3>1. api[u].h # h
      BY <1>3, <2>1, <2>2 DEF AwaitsReply
    <3> QED
      BY <1>11, <1>21, <2>1, <2>2, <3>1 DEF AwaitsReply
  <2>3. CASE AwaitsSignal(u)
    <3>1. held'[u] # {} => held[u] # {}
      BY <1>18
    <3> QED
      BY <1>9, <2>1, <2>3, <3>1 DEF AwaitsSignal
  <2> QED
    BY <2>1, <2>2, <2>3 DEF CallInv, BlockedOK
<1>26. AnsweredOK'
  <2>1. ret # NULL
    BY <1>7, IpcAssumption
  <2> QED
    BY <1>14, <1>15, <1>16, <2>1 DEF CallInv, AnsweredOK
<1>27. \A u \in Thread : msg[h].type # "CALL" => h \notin owned[u]
  BY <1>4 DEF CallInv, OwnedOK
<1>28. \A u \in Thread : api[u].reply # h
  BY <1>2 DEF CallInv, GrantedOK
<1>29. GrantedOK(c)'
  <2> SUFFICES ASSUME NEW u \in Thread, NEW g \in Handle, api'[u].reply = g
               PROVE  /\ api'[u].fn = "connect"
                      /\ conn'[g].client = u
                      /\ conn'[g].service \in Deps[u]
                      /\ ~Flying(c, g)'
                      /\ \A x \in Thread : g \notin owned'[x]
    BY DEF GrantedOK
  <2>0. owned' = owned
    BY <1>9
  <2>1. CASE u = o
    <3>1. g = h /\ msg[h].type = "CONNECT"
      BY <1>7, <1>16, <2>1
    <3>2. api'[u].fn = "connect"
      BY <1>4, <1>16, <2>1, <3>1
    <3>3. \A x \in Thread : g \notin owned'[x]
      BY <1>27, <2>0, <3>1
    <3> QED
      BY <1>4, <1>11, <1>21, <2>1, <3>1, <3>2, <3>3
  <2>2. CASE u # o
    <3>1. api'[u] = api[u]
      BY <1>16, <2>2
    <3> QED
      BY <1>12, <1>21, <2>0, <3>1 DEF CallInv, GrantedOK
  <2> QED
    BY <2>1, <2>2
<1>30. OwnedOK'
  BY <1>0, <1>9, <1>12 DEF CallInv, OwnedOK, IpcTypeOK
<1>31. \A g \in Handle : g # h => (Taken(c, g)' <=> Taken(c, g))
  <2> SUFFICES ASSUME NEW g \in Handle, g # h
               PROVE  Taken(c, g)' <=> Taken(c, g)
    OBVIOUS
  <2>1. \A u \in Thread : api'[u].reply = g <=> api[u].reply = g
    <3>1. api'[o].reply # g /\ api[o].reply # g
      BY <1>4, <1>7, <1>16, IpcAssumption
    <3> QED
      BY <1>16, <3>1
  <2> QED
    BY <1>9, <1>21, <2>1 DEF Taken
<1>32. frees => ~Taken(c, h)'
  <2> SUFFICES ASSUME frees PROVE ~Taken(c, h)'
    OBVIOUS
  <2>1. \A u \in Thread : h \notin owned'[u]
    BY <1>7, <1>9, <1>27
  <2>2. \A u \in Thread : api'[u].reply # h
    BY <1>7, <1>16, <1>28
  <2> QED
    BY <1>21, <2>1, <2>2 DEF Taken
<1>33. Taken(c, h)
  BY <1>2 DEF Taken
<1>34. \A i \in 1..Len(pool) : pool[i] # h /\ pool[i] \in Handle
  BY <1>0, <1>33 DEF CallInv, PoolOK, IpcTypeOK
<1>35. pool \in Seq(Handle) /\ Len(pool) \in Nat
  BY <1>0 DEF IpcTypeOK
<1>36. ASSUME NEW g \in Handle, NEW i \in 1..Len(pool), pool[i] = g
       PROVE  ~Taken(c, g)' /\ ~msg'[g].magic
  <2>1. ~Taken(c, g) /\ ~msg[g].magic
    BY <1>36 DEF CallInv, PoolOK
  <2>2. g # h
    BY <1>34, <1>36
  <2> QED
    BY <1>11, <1>31, <2>1, <2>2
<1>37. \A i, j \in 1..Len(pool) : pool[i] = pool[j] => i = j
  BY DEF CallInv, PoolOK
<1>38. \A i \in 1..Len(pool') :
         \/ i \in 1..Len(pool) /\ pool'[i] = pool[i]
         \/ frees /\ i = Len(pool) + 1 /\ pool'[i] = h
  <2>1. CASE frees
    <3>1. pool' = Append(pool, h)
      BY <1>9, <2>1
    <3>2. Len(pool') = Len(pool) + 1
      BY <1>35, <3>1
    <3>3. \A i \in 1..Len(pool) : pool'[i] = pool[i]
      BY <1>35, <3>1
    <3>4. pool'[Len(pool) + 1] = h
      BY <1>35, <3>1
    <3>5. \A i \in 1..Len(pool') : i \in 1..Len(pool) \/ i = Len(pool) + 1
      BY <1>35, <3>2
    <3> QED
      BY <2>1, <3>3, <3>4, <3>5
  <2>2. CASE ~frees
    <3>1. pool' = pool
      BY <1>9, <2>2
    <3> QED
      BY <3>1
  <2> QED
    BY <2>1, <2>2
<1>39. PoolOK(c)'
  <2> SUFFICES ASSUME NEW i \in 1..Len(pool'), NEW g, g = pool'[i]
               PROVE  /\ ~Taken(c, g)'
                      /\ ~msg'[g].magic
                      /\ \A j \in 1..Len(pool') : pool'[j] = g => j = i
    BY DEF PoolOK
  <2>1. CASE i \in 1..Len(pool) /\ pool'[i] = pool[i]
    <3>1. g \in Handle /\ g = pool[i] /\ g # h
      BY <1>34, <2>1
    <3>2. \A j \in 1..Len(pool') : pool'[j] = g => j = i
      BY <1>37, <1>38, <2>1, <3>1
    <3> QED
      BY <1>36, <2>1, <3>1, <3>2
  <2>2. CASE frees /\ i = Len(pool) + 1 /\ pool'[i] = h
    <3>1. ~msg'[h].magic
      BY <1>11, <2>2
    <3>2. \A j \in 1..Len(pool') : pool'[j] = h => j = i
      BY <1>34, <1>38, <2>2
    <3> QED
      BY <1>32, <2>2, <3>1, <3>2
  <2> QED
    BY <1>38, <2>1, <2>2
<1>40. NoLeak(c)'
  <2> SUFFICES ASSUME "CONNECTION_BUSY" \notin ConnectReply, NEW g \in Handle
               PROVE  Taken(c, g)' \/ \E i \in 1..Len(pool') : pool'[i] = g
    BY DEF NoLeak
  <2>0. Taken(c, g) \/ \E i \in 1..Len(pool) : pool[i] = g
    BY DEF CallInv, NoLeak
  <2>1. CASE frees
    <3>1. pool' = Append(pool, h)
      BY <1>9, <2>1
    <3>2. Len(pool') = Len(pool) + 1 /\ pool'[Len(pool) + 1] = h
      BY <1>35, <3>1
    <3>3. \A i \in 1..Len(pool) : pool'[i] = pool[i] /\ i \in 1..Len(pool')
      BY <1>35, <3>1, <3>2
    <3>4. Len(pool) + 1 \in 1..Len(pool')
      BY <1>35, <3>2
    <3> QED
      BY <1>31, <2>0, <3>2, <3>3, <3>4
  <2>2. CASE ~frees
    <3>1. pool' = pool
      BY <1>9, <2>2
    <3>2. CASE g # h
      BY <1>31, <2>0, <3>1, <3>2
    <3>3. CASE g = h
      <4>1. h \in owned'[o] \/ api'[o].reply = h
        BY <1>4, <1>7, <1>9, <1>16, <2>2
      <4> QED
        BY <1>4, <3>3, <4>1 DEF Taken
    <3> QED
      BY <3>2, <3>3
  <2> QED
    BY <2>1, <2>2
<1>41. ActiveOK'
  BY <1>11, <1>19 DEF CallInv, ActiveOK
<1>42. RunOK'
  <2>1. pendsv' /\ curr' = t /\ t # NULL /\ ~panic'
    BY <1>0, <1>9, <1>17, ThreadAssumption DEF RunOK
  <2>2. \A u \in Thread : sched'.state[u] # "CREATING"
    BY <1>0, <1>14, <2>1 DEF RunOK
  <2>3. \A u \in Thread : \A i \in signals'[u] \cap Irq : IrqOwner[i] = u
    BY <1>0, <1>9 DEF RunOK
  <2> QED
    BY <2>1, <2>2, <2>3 DEF RunOK
<1> QED
  BY <1>22, <1>23, <1>24, <1>25, <1>26, <1>29, <1>30, <1>39, <1>40, <1>41, <1>42
     DEF CallInv
-----------------------------------------------------------------------------
(* Sending a message *)

\* Putting an element behind a sequence.
LEMMA AppendElements ==
  ASSUME NEW S, NEW q \in Seq(S), NEW x \in S
  PROVE  /\ Append(q, x) \in Seq(S)
         /\ Len(q) \in Nat /\ Len(Append(q, x)) = Len(q) + 1
         /\ \A i \in 1..Len(q) : Append(q, x)[i] = q[i]
         /\ Append(q, x)[Len(q) + 1] = x
         /\ \A i \in 1..Len(Append(q, x)) : i \in 1..Len(q) \/ i = Len(q) + 1
         /\ \A i \in 1..(Len(q) + 1) : i \in 1..Len(q) \/ i = Len(q) + 1
         /\ Len(q) + 1 \in 1..Len(Append(q, x))
         /\ \A i \in 1..Len(q) : i \in 1..Len(Append(q, x))
<1>1. Len(q) \in Nat /\ Len(Append(q, x)) = Len(q) + 1 /\ Append(q, x) \in Seq(S)
  OBVIOUS
<1>2. /\ \A i \in 1..Len(q) : Append(q, x)[i] = q[i]
      /\ Append(q, x)[Len(q) + 1] = x
  OBVIOUS
<1>3. /\ \A i \in 1..(Len(q) + 1) : i \in 1..Len(q) \/ i = Len(q) + 1
      /\ Len(q) + 1 \in 1..(Len(q) + 1)
      /\ \A i \in 1..Len(q) : i \in 1..(Len(q) + 1)
  BY <1>1
<1> QED
  BY <1>1, <1>2, <1>3

\* What a client call finds before it sends a message on chunk h, and what it
\* does to the connections: h belongs to t alone and is in no message.
Sends(c, t, fn, h, s, type) ==
  /\ tfm_spm_send_event(t, fn, h, s,
       [msg EXCEPT ![h] = [magic |-> TRUE, type |-> type, service |-> s,
                           owner |-> t, next |-> NULL,
                           rhandle |-> conn'[h].rhandle]])
  /\ fn \in ClientFn
  /\ type \in {"CONNECT", "CALL", "DISCONNECT"}
  /\ type = "CONNECT" => fn = "connect"
  /\ s \in Deps[t]
  /\ ~Flying(c, h)
  /\ \A u \in Thread : api[u].reply # h /\ (u # t => h \notin owned[u])
  /\ \A g \in Handle : g # h => conn'[g] = conn[g]
  /\ conn'[h].client = t /\ conn'[h].service = s /\ conn'[h].status # "ACTIVE"
  /\ \A u \in Thread : u # t => owned'[u] = owned[u]
  /\ \A g \in Handle : g # h => (g \in owned'[t] <=> g \in owned[t])
  /\ type = "CALL" => h \in owned'[t]
  /\ type # "CALL" => h \notin owned'[t]
  /\ \A i \in 1..Len(pool') : /\ pool'[i] # h
                              /\ \E j \in 1..Len(pool) : pool[j] = pool'[i]
                              /\ \A j \in 1..Len(pool') : pool'[j] = pool'[i] => j = i
  /\ \A j \in 1..Len(pool) : pool[j] = h \/ \E i \in 1..Len(pool') : pool'[i] = pool[j]

\* The message goes to the end of the service's queue, the partition of the
\* service is woken if it waits for signals, and the sender is blocked.
LEMMA SendCall ==
  ASSUME IpcInv, IpcInv', NEW c, CallInv(c), AnswerWakes, NEW t \in Thread,
         Ready(t), sched.state[t] = "RUNNING", NEW h \in Handle,
         NEW s \in Service, NEW fn, NEW type, Sends(c, t, fn, h, s, type)
  PROVE  \E d : CallInv(d)'
<1>0. IpcTypeOK /\ IpcTypeOK' /\ RunOK /\ curr = t /\ t # NULL /\ api[t] = NoCall
  BY ThreadAssumption DEF IpcInv, CallInv, Ready, InThread
<1> DEFINE p == Owner[s]
           o == evntOwner[p]
           val == RetSignals((signals[p] \cup {s}) \cap mask[p])
           q == queue[s]
           new == [magic |-> TRUE, type |-> type, service |-> s, owner |-> t,
                   next |-> NULL, rhandle |-> conn'[h].rhandle]
           ms == [msg EXCEPT ![h] = new]
<1>1. /\ queue' = [queue EXCEPT ![s] = tfm_msg_enqueue(q, h)]
      /\ msg' = LinkTail(ms, q, h)
      /\ signals' = [signals EXCEPT ![p] = @ \cup {s}]
      /\ sched' = tfm_event_wait(tfm_event_wake(sched, o))
      /\ pendsv' = TRUE
      /\ \E r \in tfm_core_thrd_set_retval(sched, o, val) :
           r0' = [r EXCEPT ![t] = Ret("PSA_SUCCESS")]
      /\ api' = [api EXCEPT ![t] = [fn |-> fn, h |-> h, reply |-> NULL]]
      /\ UNCHANGED <<curr, held, mask, evntOwner, panic>>
  BY DEF Sends, tfm_spm_send_event, spmVars
<1>2. p \in Thread
  BY IpcAssumption
<1>3. o \in Thread \cup {NULL} /\ o \in {NULL, p}
  BY <1>0, <1>2 DEF IpcInv, IpcTypeOK, Pointer
<1>4. val \in Value
  BY <1>0, <1>2 DEF IpcTypeOK, RetSignals, Value, Signal
<1> HIDE DEF val
<1>5. \A u \in Thread : sched'.state[u] =
        IF u = t THEN "BLOCK"
        ELSE IF u = o /\ sched.state[u] = "BLOCK" THEN "RUNNING"
        ELSE sched.state[u]
  <2> DEFINE w == tfm_event_wake(sched, o)
  <2> HIDE DEF o
  <2>1. sched \in Sched /\ SchedInv(sched)
    BY <1>0 DEF IpcInv, IpcTypeOK, ThrdTypeOK
  <2>2. /\ w \in Sched /\ SchedInv(w)
        /\ \A u \in Thread : sched.state[u] # "CREATING" =>
                               w.state[u] # "CREATING"
    BY <1>3, <2>1, WakeProperties
  <2>3. \A u \in Thread : w.state[u] =
          IF u = o /\ sched.state[u] = "BLOCK" THEN "RUNNING" ELSE sched.state[u]
    BY <1>3, <2>1, WakeState
  <2>4. sched' = tfm_event_wait(w)
    BY <1>1
  <2> HIDE DEF w
  <2>5. curr \in Thread /\ w.state[curr] # "CREATING"
    BY <1>0, <2>2
  <2>6. \A u \in Thread : tfm_event_wait(w).state[u] =
          IF u = curr THEN "BLOCK" ELSE w.state[u]
    BY <2>2, <2>5, WaitState
  <2> QED
    BY <1>0, <2>3, <2>4, <2>6
<1>6. \A u \in Thread : u # t /\ ~(u = o /\ sched.state[u] = "BLOCK") =>
        r0'[u] = r0[u]
  <2>1. PICK r \in tfm_core_thrd_set_retval(sched, o, val) :
          r0' = [r EXCEPT ![t] = Ret("PSA_SUCCESS")]
    BY <1>1
  <2>2. sched \in Sched /\ r0 \in [Thread -> Value]
    BY <1>0 DEF IpcTypeOK, ThrdTypeOK
  <2> HIDE DEF o
  <2>3. /\ r \in [Thread -> Value]
        /\ \A u \in Thread : ~(u = o /\ sched.state[u] = "BLOCK") => r[u] = r0[u]
    BY <1>3, <1>4, <2>1, <2>2, RetvalExact
  <2> QED
    BY <2>1, <2>3
<1>7. /\ \A u \in Thread : u # t => api'[u] = api[u]
      /\ api'[t].fn = fn /\ api'[t].h = h /\ api'[t].reply = NULL
      /\ api[t].reply = NULL
  BY <1>0, <1>1 DEF IpcTypeOK, NoCall
<1>8. /\ \A u \in Thread : u # p => signals'[u] = signals[u]
      /\ signals'[p] = signals[p] \cup {s}
  BY <1>0, <1>1, <1>2 DEF IpcTypeOK
<1>9. \A u \in Thread : u = o /\ sched.state[u] = "BLOCK" => AwaitsSignal(u)
  <2> SUFFICES ASSUME NEW u \in Thread, u = o, sched.state[u] = "BLOCK",
                      AwaitsReply(c, u)
               PROVE  FALSE
    BY DEF CallInv, BlockedOK
  <2>1. u # t /\ sched'.state[u] # "BLOCK"
    BY <1>5
  <2>2. api'[u].reply = NULL /\ api[u].fn \in ClientFn
    BY <1>7, <2>1 DEF AwaitsReply
  <2> QED
    BY <2>1, <2>2 DEF AnswerWakes
<1>10. \A u \in Thread : api[u].fn \in ClientFn =>
         u # t /\ sched'.state[u] = sched.state[u] /\ r0'[u] = r0[u]
  <2>1. api[t].fn \notin ClientFn
    BY <1>0 DEF NoCall, ClientFn
  <2>2. \A u \in Thread : api[u].fn \in ClientFn =>
          u # t /\ ~(u = o /\ sched.state[u] = "BLOCK")
    BY <1>9, <2>1 DEF AwaitsSignal, ClientFn
  <2> QED
    BY <1>5, <1>6, <2>2
<1> HIDE DEF o
<1> DEFINE e == c[s]
           n == Len(e)
           d == [c EXCEPT ![s] = Append(e, h)]
<1>11. /\ c \in [Service -> Seq(Handle)] /\ e \in Seq(Handle) /\ n \in Nat
       /\ n = q.size
       /\ n > 0 => q.head = e[1] /\ q.tail = e[n] /\ e[n] \in Handle /\ n \in 1..n
  BY DEF CallInv, QueuesOK
<1>12. /\ Append(e, h) \in Seq(Handle) /\ Len(Append(e, h)) = n + 1
       /\ \A i \in 1..n : Append(e, h)[i] = e[i]
       /\ Append(e, h)[n + 1] = h
       /\ \A i \in 1..(n + 1) : i \in 1..n \/ i = n + 1
       /\ n + 1 \in 1..(n + 1)
       /\ \A i \in 1..n : i \in 1..(n + 1)
  BY <1>11, AppendElements
<1>13. /\ d \in [Service -> Seq(Handle)] /\ d[s] = Append(e, h)
       /\ \A x \in Service : x # s => d[x] = c[x]
  BY <1>11, <1>12
<1> HIDE DEF d
<1>14. ~Flying(c, h) /\ \A x \in Service : \A i \in 1..Len(c[x]) : c[x][i] # h
  BY DEF Sends, Flying, Waiting
<1>15. /\ msg'[h].magic /\ msg'[h].type = type /\ msg'[h].service = s
       /\ msg'[h].owner = t
       /\ \A g \in Handle : g # h =>
            /\ msg'[g].magic = msg[g].magic /\ msg'[g].type = msg[g].type
            /\ msg'[g].service = msg[g].service /\ msg'[g].owner = msg[g].owner
       /\ \A g \in Handle : g # h /\ ~(n > 0 /\ g = e[n]) =>
            msg'[g].next = msg[g].next
       /\ n > 0 => msg'[e[n]].next = h
  <2>0. msg \in [Handle -> Msg]
    BY <1>0 DEF IpcTypeOK
  <2>1. /\ ms[h] = new /\ DOMAIN ms = Handle
        /\ \A g \in Handle : g # h => ms[g] = msg[g]
    BY <2>0
  <2>2. /\ new.magic /\ new.type = type /\ new.service = s /\ new.owner = t
    OBVIOUS
  <2>3. CASE n = 0
    <3>1. msg' = ms
      BY <1>1, <1>11, <2>3 DEF LinkTail
    <3> HIDE DEF new, ms
    <3> QED
      BY <2>1, <2>2, <2>3, <3>1
  <2>4. CASE n > 0
    <3> HIDE DEF new
    <3>1. msg' = [ms EXCEPT ![e[n]].next = h]
      <4>1. q.size # 0 /\ q.tail = e[n] /\ msg' = LinkTail(ms, q, h)
        BY <1>1, <1>11, <2>4
      <4> HIDE DEF ms, q
      <4>2. msg' = [ms EXCEPT ![q.tail].next = h]
        BY <4>1 DEF LinkTail
      <4> QED
        BY <4>1, <4>2
    <3>2. e[n] \in Handle /\ e[n] # h
      BY <1>11, <1>14, <2>4
    <3>3. ms[e[n]] = msg[e[n]] /\ msg[e[n]] \in Msg
      BY <2>0, <2>1, <3>2
    <3> HIDE DEF ms
    <3>4. \A g \in Handle : g # e[n] => msg'[g] = ms[g]
      BY <2>1, <3>1
    <3>5. msg'[e[n]] = [msg[e[n]] EXCEPT !.next = h]
      BY <2>1, <3>1, <3>2, <3>3
    <3>6. /\ msg'[e[n]].magic = msg[e[n]].magic
          /\ msg'[e[n]].type = msg[e[n]].type
          /\ msg'[e[n]].service = msg[e[n]].service
          /\ msg'[e[n]].owner = msg[e[n]].owner
          /\ msg'[e[n]].next = h
      BY <3>3, <3>5 DEF Msg
    <3> QED
      BY <2>1, <2>2, <2>4, <3>2, <3>4, <3>6
  <2> QED
    BY <1>11, <2>3, <2>4
<1>16. /\ \A x \in Service : x # s => queue'[x] = queue[x]
       /\ queue'[s].head = IF n = 0 THEN h ELSE q.head
       /\ queue'[s].tail = h /\ queue'[s].size = n + 1
  BY <1>0, <1>1, <1>11 DEF IpcTypeOK, tfm_msg_enqueue
<1>17. \A g : Held(g)' <=> Held(g)
  BY <1>1 DEF Held
<1>18. \A g : Waiting(d, g) <=> Waiting(c, g) \/ g = h
  <2>1. ASSUME NEW g, Waiting(d, g) PROVE Waiting(c, g) \/ g = h
    <3>1. PICK x \in Service : \E i \in 1..Len(d[x]) : d[x][i] = g
      BY <2>1 DEF Waiting
    <3>2. PICK i \in 1..Len(d[x]) : d[x][i] = g
      BY <3>1
    <3>3. CASE x # s
      BY <1>13, <3>2, <3>3 DEF Waiting
    <3>4. CASE x = s
      <4>1. i \in 1..(n + 1) /\ Append(e, h)[i] = g
        BY <1>12, <1>13, <3>2, <3>4
      <4>2. CASE i \in 1..n
        BY <1>12, <4>1, <4>2 DEF Waiting
      <4>3. CASE i = n + 1
        BY <1>12, <4>1, <4>3
      <4> QED
        BY <1>12, <4>1, <4>2, <4>3
    <3> QED
      BY <3>3, <3>4
  <2>2. ASSUME NEW g, Waiting(c, g) PROVE Waiting(d, g)
    <3>1. PICK x \in Service : \E i \in 1..Len(c[x]) : c[x][i] = g
      BY <2>2 DEF Waiting
    <3>2. PICK i \in 1..Len(c[x]) : c[x][i] = g
      BY <3>1
    <3>3. CASE x # s
      BY <1>13, <3>2, <3>3 DEF Waiting
    <3>4. CASE x = s
      <4>1. i \in 1..Len(d[s]) /\ d[s][i] = g
        BY <1>12, <1>13, <3>2, <3>4
      <4> QED
        BY <4>1 DEF Waiting
    <3> QED
      BY <3>3, <3>4
  <2>3. Waiting(d, h)
    <3>1. n + 1 \in 1..Len(d[s]) /\ d[s][n + 1] = h
      BY <1>12, <1>13
    <3> QED
      BY <3>1 DEF Waiting
  <2> QED
    BY <2>1, <2>2, <2>3
<1>19. \A g : Flying(d, g)' <=> Flying(c, g) \/ g = h
  <2>1. \A g : Waiting(d, g)' <=> Waiting(d, g)
    BY DEF Waiting
  <2> QED
    BY <1>17, <1>18, <2>1 DEF Flying
<1>20. QueuesOK(d)'
  <2>1. ASSUME NEW x \in Service
        PROVE  /\ Len(d[x]) = queue'[x].size
               /\ Len(d[x]) > 0 => /\ queue'[x].head = d[x][1]
                                   /\ queue'[x].tail = d[x][Len(d[x])]
               /\ \A i \in 1..(Len(d[x]) - 1) : msg'[d[x][i]].next = d[x][i + 1]
               /\ \A i, j \in 1..Len(d[x]) : d[x][i] = d[x][j] => i = j
               /\ \A i \in 1..Len(d[x]) : /\ msg'[d[x][i]].magic
                                          /\ msg'[d[x][i]].service = x
                                          /\ ~Held(d[x][i])'
    <3>0. /\ Len(c[x]) = queue[x].size /\ Len(c[x]) \in Nat
          /\ Len(c[x]) > 0 => /\ queue[x].head = c[x][1]
                              /\ queue[x].tail = c[x][Len(c[x])]
          /\ \A i \in 1..(Len(c[x]) - 1) : msg[c[x][i]].next = c[x][i + 1]
          /\ \A i, j \in 1..Len(c[x]) : c[x][i] = c[x][j] => i = j
          /\ \A i \in 1..Len(c[x]) : /\ msg[c[x][i]].magic
                                     /\ msg[c[x][i]].service = x
                                     /\ ~Held(c[x][i])
                                     /\ c[x][i] \in Handle
      BY DEF CallInv, QueuesOK
    <3>1. CASE x # s
      <4>1. d[x] = c[x] /\ queue'[x] = queue[x]
        BY <1>13, <1>16, <3>1
      <4>2. n > 0 => msg[e[n]].service = s
        BY <1>11 DEF CallInv, QueuesOK
      <4>3. \A i \in 1..Len(c[x]) : ~(n > 0 /\ c[x][i] = e[n])
        BY <3>0, <3>1, <4>2
      <4>4. \A i \in 1..Len(c[x]) : msg'[c[x][i]].next = msg[c[x][i]].next
        BY <1>14, <1>15, <3>0, <4>3
      <4>5. \A i \in 1..Len(c[x]) : /\ msg'[c[x][i]].magic
                                    /\ msg'[c[x][i]].service = x
        BY <1>14, <1>15, <3>0
      <4>6. \A i \in 1..(Len(c[x]) - 1) : i \in 1..Len(c[x])
        BY <3>0
      <4> QED
        BY <1>17, <3>0, <4>1, <4>4, <4>5, <4>6
    <3>2. CASE x = s
      <4>0. /\ Len(d[s]) = n + 1 /\ d[s][n + 1] = h
            /\ \A i \in 1..n : d[s][i] = e[i] /\ e[i] \in Handle /\ e[i] # h
        BY <1>12, <1>13, <1>14, <3>0, <3>2
      <4>1. Len(d[s]) > 0 => /\ queue'[s].head = d[s][1]
                             /\ queue'[s].tail = d[s][Len(d[s])]
        <5>1. CASE n = 0
          BY <1>16, <4>0, <5>1
        <5>2. CASE n > 0
          <6>1. 1 \in 1..n
            BY <1>11, <5>2
          <6> QED
            BY <1>11, <1>16, <4>0, <5>2, <6>1
        <5> QED
          BY <1>11, <5>1, <5>2
      <4>2. \A i \in 1..(Len(d[s]) - 1) : msg'[d[s][i]].next = d[s][i + 1]
        <5>0. Len(d[s]) - 1 = n
          BY <1>11, <4>0
        <5> SUFFICES ASSUME NEW i \in 1..n
                     PROVE  msg'[e[i]].next = d[s][i + 1]
          BY <4>0, <5>0
        <5>1. CASE i = n
          BY <1>11, <1>15, <4>0, <5>1
        <5>2. CASE i # n
          <6>1. i \in 1..(n - 1) /\ i + 1 \in 1..n /\ n \in 1..n
            BY <1>11, <5>2
          <6>2. e[i] # e[n]
            BY <3>0, <3>2, <5>2, <6>1
          <6>3. msg'[e[i]].next = msg[e[i]].next
            BY <1>15, <4>0, <6>2
          <6> QED
            BY <3>0, <3>2, <4>0, <6>1, <6>3
        <5> QED
          BY <5>1, <5>2
      <4>3. \A i, j \in 1..Len(d[s]) : d[s][i] = d[s][j] => i = j
        <5> SUFFICES ASSUME NEW i \in 1..(n + 1), NEW j \in 1..(n + 1),
                            d[s][i] = d[s][j]
                     PROVE  i = j
          BY <4>0
        <5>1. (i \in 1..n \/ i = n + 1) /\ (j \in 1..n \/ j = n + 1)
          BY <1>12
        <5> QED
          BY <3>0, <3>2, <4>0, <5>1
      <4>4. \A i \in 1..Len(d[s]) : /\ msg'[d[s][i]].magic
                                    /\ msg'[d[s][i]].service = s
                                    /\ ~Held(d[s][i])'
        <5> SUFFICES ASSUME NEW i \in 1..(n + 1), NEW g, g = d[s][i]
                     PROVE  msg'[g].magic /\ msg'[g].service = s /\ ~Held(g)
          BY <1>17, <4>0
        <5>1. CASE i \in 1..n
          BY <1>15, <3>0, <3>2, <4>0, <5>1
        <5>2. CASE i = n + 1
          BY <1>14, <1>15, <4>0, <5>2 DEF Flying
        <5> QED
          BY <1>12, <5>1, <5>2
      <4> QED
        BY <1>16, <3>2, <4>0, <4>1, <4>2, <4>3, <4>4
    <3> QED
      BY <3>1, <3>2
  <2> QED
    BY <1>13, <2>1 DEF QueuesOK
<1>21. HeldOK'
  <2> SUFFICES ASSUME NEW u \in Thread, NEW g \in held[u]
               PROVE  /\ msg'[g].magic /\ msg'[g].service \in Service
                      /\ Owner[msg'[g].service] = u
    BY <1>1 DEF HeldOK
  <2>1. g \in Handle /\ g # h
    BY <1>0, <1>14 DEF IpcTypeOK, Flying, Held
  <2> QED
    BY <1>15, <2>1 DEF CallInv, HeldOK
<1>22. /\ \A u \in Thread : api[u].reply # h /\ (u # t => h \notin owned[u])
       /\ \A g \in Handle : g # h => conn'[g] = conn[g]
       /\ conn'[h].client = t /\ conn'[h].service = s
       /\ conn'[h].status # "ACTIVE"
       /\ \A u \in Thread : u # t => owned'[u] = owned[u]
       /\ \A g \in Handle : g # h => (g \in owned'[t] <=> g \in owned[t])
       /\ fn \in ClientFn /\ s \in Deps[t]
  BY DEF Sends
<1>23. SendersOK(d)'
  <2> SUFFICES ASSUME NEW g \in Handle, Flying(c, g) \/ g = h,
                      NEW u, u = msg'[g].owner
               PROVE  /\ u \in Thread
                      /\ sched'.state[u] = "BLOCK"
                      /\ api'[u].fn \in ClientFn
                      /\ api'[u].h = g
                      /\ api'[u].reply = NULL
                      /\ conn'[g].client = u
                      /\ msg'[g].type \in {"CONNECT", "CALL", "DISCONNECT"}
                      /\ msg'[g].type = "CONNECT" => api'[u].fn = "connect"
                      /\ msg'[g].type = "CALL" => g \in owned'[u]
                      /\ msg'[g].type # "CALL" => g \notin owned'[u]
                      /\ msg'[g].service \in Deps[u]
                      /\ conn'[g].service \in Deps[u]
    BY <1>19 DEF SendersOK
  <2>1. CASE g = h
    <3>1. u = t /\ msg'[g].type = type /\ msg'[g].service = s
      BY <1>15, <2>1
    <3>2. /\ type \in {"CONNECT", "CALL", "DISCONNECT"}
          /\ type = "CONNECT" => fn = "connect"
          /\ type = "CALL" => h \in owned'[t]
          /\ type # "CALL" => h \notin owned'[t]
      BY DEF Sends
    <3> QED
      BY <1>5, <1>7, <1>22, <2>1, <3>1, <3>2
  <2>2. CASE g # h
    <3>0. Flying(c, g)
      BY <2>2
    <3>1. /\ u = msg[g].owner /\ msg'[g].type = msg[g].type
          /\ msg'[g].service = msg[g].service /\ conn'[g] = conn[g]
      BY <1>15, <1>22, <2>2
    <3>2. /\ u \in Thread
          /\ sched.state[u] = "BLOCK"
          /\ api[u].fn \in ClientFn
          /\ api[u].h = g
          /\ api[u].reply = NULL
          /\ conn[g].client = u
          /\ msg[g].type \in {"CONNECT", "CALL", "DISCONNECT"}
          /\ msg[g].type = "CONNECT" => api[u].fn = "connect"
          /\ msg[g].type = "CALL" => g \in owned[u]
          /\ msg[g].type # "CALL" => g \notin owned[u]
          /\ msg[g].service \in Deps[u]
          /\ conn[g].service \in Deps[u]
      BY <3>0, <3>1 DEF CallInv, SendersOK
    <3>3. u # t /\ sched'.state[u] = sched.state[u]
      BY <1>10, <3>2
    <3>4. api'[u] = api[u] /\ owned'[u] = owned[u]
      BY <1>7, <1>22, <3>2, <3>3
    <3> QED
      BY <3>1, <3>2, <3>3, <3>4
  <2> QED
    BY <2>1, <2>2
<1>24. BlockedOK(d)'
  <2> SUFFICES ASSUME NEW u \in Thread, sched'.state[u] = "BLOCK"
               PROVE  AwaitsReply(d, u)' \/ AwaitsSignal(u)'
    BY DEF BlockedOK
  <2>1. CASE u = t
    <3>1. Flying(d, api[u].h)'
      BY <1>7, <1>19, <2>1
    <3> QED
      BY <1>7, <1>15, <1>22, <2>1, <3>1 DEF AwaitsReply
  <2>2. CASE u # t
    <3>0. sched.state[u] = "BLOCK" /\ u # o /\ api'[u] = api[u]
      BY <1>5, <1>7, <2>2
    <3>1. CASE AwaitsReply(c, u)
      <4>1. PICK g : g = api[u].h
        OBVIOUS
      <4>2. /\ api[u].fn \in ClientFn /\ api[u].reply = NULL /\ g \in Handle
            /\ Flying(c, g) /\ msg[g].owner = u
        BY <3>1, <4>1 DEF AwaitsReply
      <4>3. g # h /\ Flying(d, g)' /\ msg'[g].owner = u
        BY <1>14, <1>15, <1>19, <4>2
      <4>4. api'[u].h = g
        BY <3>0, <4>1
      <4>5. Flying(d, api[u].h)'
        BY <4>3, <4>4
      <4> QED
        BY <3>0, <4>2, <4>3, <4>4, <4>5 DEF AwaitsReply
    <3>2. CASE AwaitsSignal(u)
      <4>1. u # p
        BY <3>0, <3>2 DEF AwaitsSignal, o
      <4>2. signals'[u] = signals[u]
        BY <1>8, <4>1
      <4> QED
        BY <1>1, <3>0, <3>2, <4>2 DEF AwaitsSignal
    <3> QED
      BY <3>0, <3>1, <3>2 DEF CallInv, BlockedOK
  <2> QED
    BY <2>1, <2>2
<1>25. AnsweredOK'
  <2> SUFFICES ASSUME NEW u \in Thread, api'[u].fn \in ClientFn,
                      sched'.state[u] # "BLOCK"
               PROVE  api'[u].reply # NULL /\ r0'[u] = Ret(api'[u].reply)
    BY DEF AnsweredOK
  <2>1. u # t /\ api'[u] = api[u]
    BY <1>5, <1>7
  <2> QED
    BY <1>10, <2>1 DEF CallInv, AnsweredOK
<1>26. \A u \in Thread : \A g \in Handle : api'[u].reply = g =>
         u # t /\ api'[u] = api[u] /\ g # h
  <2>1. \A g \in Handle : api'[t].reply # g
    BY <1>7, IpcAssumption
  <2> QED
    BY <1>7, <1>22, <2>1
<1>27. \A u \in Thread : \A g \in Handle : g # h =>
         (g \in owned'[u] <=> g \in owned[u])
  BY <1>22
<1>28. GrantedOK(d)'
  <2> SUFFICES ASSUME NEW u \in Thread, NEW g \in Handle, api'[u].reply = g
               PROVE  /\ api'[u].fn = "connect"
                      /\ conn'[g].client = u
                      /\ conn'[g].service \in Deps[u]
                      /\ ~Flying(d, g)'
                      /\ \A x \in Thread : g \notin owned'[x]
    BY DEF GrantedOK
  <2>1. api'[u] = api[u] /\ g # h /\ conn'[g] = conn[g]
    BY <1>22, <1>26
  <2>2. /\ api[u].fn = "connect" /\ conn[g].client = u
        /\ conn[g].service \in Deps[u] /\ ~Flying(c, g)
        /\ \A x \in Thread : g \notin owned[x]
    BY <2>1 DEF CallInv, GrantedOK
  <2> QED
    BY <1>19, <1>27, <2>1, <2>2
<1>29. OwnedOK'
  <2> SUFFICES ASSUME NEW u \in Thread, NEW g \in owned'[u]
               PROVE  conn'[g].client = u /\ conn'[g].service \in Deps[u]
    BY DEF OwnedOK
  <2>0. g \in Handle
    BY <1>0 DEF IpcTypeOK
  <2>1. CASE g = h
    BY <1>22, <2>1
  <2>2. CASE g # h
    <3>1. g \in owned[u] /\ conn'[g] = conn[g]
      BY <1>22, <1>27, <2>0, <2>2
    <3> QED
      BY <3>1 DEF CallInv, OwnedOK
  <2> QED
    BY <2>1, <2>2
<1>30. \A g \in Handle : g # h => (Taken(d, g)' <=> Taken(c, g))
  <2> SUFFICES ASSUME NEW g \in Handle, g # h
               PROVE  Taken(d, g)' <=> Taken(c, g)
    OBVIOUS
  <2>1. \A u \in Thread : api'[u].reply = g <=> api[u].reply = g
    <3>1. api'[t].reply # g /\ api[t].reply # g
      BY <1>7, IpcAssumption
    <3> QED
      BY <1>7, <3>1
  <2>2. \A u \in Thread : g \in owned'[u] <=> g \in owned[u]
    BY <1>27
  <2> QED
    BY <1>19, <2>1, <2>2 DEF Taken
<1>31. Taken(d, h)'
  BY <1>19 DEF Taken
<1>32. /\ \A i \in 1..Len(pool') :
            /\ pool'[i] # h
            /\ \E j \in 1..Len(pool) : pool[j] = pool'[i]
            /\ \A j \in 1..Len(pool') : pool'[j] = pool'[i] => j = i
       /\ \A j \in 1..Len(pool) :
            pool[j] = h \/ \E i \in 1..Len(pool') : pool'[i] = pool[j]
  BY DEF Sends
<1>33. PoolOK(d)'
  <2> SUFFICES ASSUME NEW i \in 1..Len(pool'), NEW g, g = pool'[i]
               PROVE  /\ ~Taken(d, g)'
                      /\ ~msg'[g].magic
                      /\ \A j \in 1..Len(pool') : pool'[j] = g => j = i
    BY DEF PoolOK
  <2>1. PICK j \in 1..Len(pool) : pool[j] = g
    BY <1>32
  <2>2. g \in Handle /\ g # h
    BY <1>0, <1>32, <2>1 DEF IpcTypeOK
  <2>3. ~Taken(c, g) /\ ~msg[g].magic
    BY <2>1 DEF CallInv, PoolOK
  <2> QED
    BY <1>15, <1>30, <1>32, <2>2, <2>3
<1>34. NoLeak(d)'
  <2> SUFFICES ASSUME "CONNECTION_BUSY" \notin ConnectReply, NEW g \in Handle
               PROVE  Taken(d, g)' \/ \E i \in 1..Len(pool') : pool'[i] = g
    BY DEF NoLeak
  <2>1. Taken(c, g) \/ \E i \in 1..Len(pool) : pool[i] = g
    BY DEF CallInv, NoLeak
  <2>2. CASE g = h
    BY <1>31, <2>2
  <2>3. CASE g # h
    BY <1>30, <1>32, <2>1, <2>3
  <2> QED
    BY <2>2, <2>3
<1>35. ActiveOK'
  BY <1>17, <1>22 DEF CallInv, ActiveOK
<1>36. RunOK'
  <2>1. pendsv' /\ curr' = t /\ ~panic'
    BY <1>0, <1>1 DEF RunOK
  <2>2. \A u \in Thread : sched'.state[u] # "CREATING"
    BY <1>0, <1>5 DEF RunOK
  <2>3. \A u \in Thread : \A i \in signals'[u] \cap Irq : IrqOwner[i] = u
    <3>1. s \notin Irq
      BY IpcAssumption
    <3> QED
      BY <1>0, <1>8, <3>1 DEF RunOK
  <2> QED
    BY <1>0, <2>1, <2>2, <2>3 DEF RunOK
<1>37. CallInv(d)'
  BY <1>20, <1>21, <1>23, <1>24, <1>25, <1>28, <1>29, <1>33, <1>34, <1>35, <1>36
     DEF CallInv
<1> QED
  BY <1>37

\* psa_connect() takes the first free chunk, which nobody uses.
LEMMA ConnectCall ==
  ASSUME IpcInv, IpcInv', NEW c, CallInv(c), SomeRunning, AnswerWakes,
         NEW t \in Thread, NEW s \in Service, psa_connect(t, s)
  PROVE  \E d : CallInv(d)'
<1>0. /\ IpcTypeOK /\ Ready(t) /\ RunOK /\ curr = t /\ api[t] = NoCall
      /\ s \in Deps[t]
  BY DEF IpcInv, CallInv, psa_connect, Ready, InThread
<1>1. sched.state[t] = "RUNNING"
  BY <1>0, ReadyRuns DEF Ready
<1>2. CASE pool = <<>>
  <2>1. "connect" \in ClientFn /\ "CONNECTION_BUSY" \in Status
    BY DEF ClientFn, Status
  <2>2. ReturnAtOnce(t, "connect", "CONNECTION_BUSY")
    BY <1>2 DEF psa_connect
  <2>3. CallInv(c)'
    BY <1>0, <1>1, <2>1, <2>2, AtOnceCall
  <2> QED
    BY <2>3
<1>3. CASE pool # <<>>
  <2>1. PICK h : h = Head(pool)
    OBVIOUS
  <2> DEFINE cs == tfm_spm_create_conn_handle(h, s, t)
  <2>2. /\ pool' = Tail(pool) /\ conn' = cs /\ owned' = owned
        /\ tfm_spm_send_event(t, "connect", h, s,
                              tfm_spm_fill_msg(cs, h, s, "CONNECT"))
    BY <1>3, <2>1 DEF psa_connect, tfm_pool_alloc
  <2>3. pool \in Seq(Handle) /\ Len(pool) \in Nat /\ Len(pool) > 0
    BY <1>0, <1>3 DEF IpcTypeOK
  <2>4. h \in Handle /\ h = pool[1] /\ 1 \in 1..Len(pool)
    BY <2>1, <2>3
  <2>5. ~Taken(c, h)
    BY <2>4 DEF CallInv, PoolOK
  <2>6. /\ \A g \in Handle : g # h => conn'[g] = conn[g]
        /\ conn'[h].client = t /\ conn'[h].service = s
        /\ conn'[h].status # "ACTIVE"
    <3> DEFINE v == [conn[h] EXCEPT !.service = s, !.status = "IDLE",
                                    !.client = t]
    <3>1. cs = [conn EXCEPT ![h] = v]
      BY <1>0, <2>4 DEF tfm_spm_create_conn_handle, IpcTypeOK, Conn
    <3>2. v.service = s /\ v.status = "IDLE" /\ v.client = t
      BY <1>0, <2>4 DEF IpcTypeOK, Conn
    <3> HIDE DEF v, cs
    <3> QED
      BY <1>0, <2>2, <2>4, <3>1, <3>2 DEF IpcTypeOK
  <2> HIDE DEF cs
  <2>7. tfm_spm_fill_msg(cs, h, s, "CONNECT") =
          [msg EXCEPT ![h] = [magic |-> TRUE, type |-> "CONNECT", service |-> s,
                              owner |-> t, next |-> NULL,
                              rhandle |-> conn'[h].rhandle]]
    BY <1>0, <2>2 DEF tfm_spm_fill_msg
  <2>8. /\ Len(pool') = Len(pool) - 1
        /\ \A i \in 1..Len(pool') : i + 1 \in 1..Len(pool) /\ pool'[i] = pool[i + 1]
        /\ \A j \in 2..Len(pool) : j - 1 \in 1..Len(pool') /\ pool'[j - 1] = pool[j]
    BY <2>2, <2>3, TailElements
  <2>9. \A i, j \in 1..Len(pool) : pool[j] = pool[i] => j = i
    BY DEF CallInv, PoolOK
  <2>10. \A i \in 1..Len(pool') :
           /\ pool'[i] # h
           /\ \E j \in 1..Len(pool) : pool[j] = pool'[i]
           /\ \A j \in 1..Len(pool') : pool'[j] = pool'[i] => j = i
    <3> SUFFICES ASSUME NEW i \in 1..Len(pool')
                 PROVE  /\ pool'[i] # h
                        /\ \E j \in 1..Len(pool) : pool[j] = pool'[i]
                        /\ \A j \in 1..Len(pool') : pool'[j] = pool'[i] => j = i
      OBVIOUS
    <3>1. i + 1 \in 1..Len(pool) /\ pool'[i] = pool[i + 1] /\ i + 1 # 1
      BY <2>8
    <3>2. pool'[i] # h
      BY <2>4, <2>9, <3>1
    <3>3. ASSUME NEW j \in 1..Len(pool'), pool'[j] = pool'[i] PROVE j = i
      <4>1. j + 1 \in 1..Len(pool) /\ pool'[j] = pool[j + 1]
        BY <2>8
      <4>2. j + 1 = i + 1
        BY <2>9, <3>1, <3>3, <4>1
      <4>3. i \in Int /\ j \in Int
        OBVIOUS
      <4> QED
        BY <4>2, <4>3
    <3> QED
      BY <3>1, <3>2, <3>3
  <2>11. \A j \in 1..Len(pool) :
           pool[j] = h \/ \E i \in 1..Len(pool') : pool'[i] = pool[j]
    <3> SUFFICES ASSUME NEW j \in 1..Len(pool), j # 1
                 PROVE  \E i \in 1..Len(pool') : pool'[i] = pool[j]
      BY <2>4
    <3>1. j \in 2..Len(pool)
      BY <2>3
    <3> QED
      BY <2>8, <3>1
  <2>12. ~Flying(c, h) /\ \A u \in Thread : api[u].reply # h /\ h \notin owned[u]
    BY <2>5 DEF Taken
  <2>13. "connect" \in ClientFn
    BY DEF ClientFn
  <2>14. Sends(c, t, "connect", h, s, "CONNECT")
    <3>1. tfm_spm_send_event(t, "connect", h, s,
            [msg EXCEPT ![h] = [magic |-> TRUE, type |-> "CONNECT", service |-> s,
                                owner |-> t, next |-> NULL,
                                rhandle |-> conn'[h].rhandle]])
      BY <2>2, <2>7
    <3> QED
      BY <1>0, <2>2, <2>6, <2>10, <2>11, <2>12, <2>13, <3>1 DEF Sends
  <2> QED
    BY <1>0, <1>1, <2>4, <2>14, SendCall
<1> QED
  BY <1>2, <1>3

\* psa_call() and psa_close() on a handle of the client pass the checks of the
\* SPM, and no message is on its way on that handle.
LEMMA OwnedIdle ==
  ASSUME IpcInv, NEW c, CallInv(c), NEW t \in Thread,
         sched.state[t] = "RUNNING", NEW h \in owned[t]
  PROVE  /\ h \in Handle /\ conn[h].client = t /\ conn[h].service \in Deps[t]
         /\ conn[h].service \in Service
         /\ ~Flying(c, h) /\ conn[h].status # "ACTIVE"
         /\ \A u \in Thread : api[u].reply # h /\ (u # t => h \notin owned[u])
         /\ \A i \in 1..Len(pool) : pool[i] # h
<1>1. h \in Handle
  BY DEF IpcInv, IpcTypeOK
<1>2. conn[h].client = t /\ conn[h].service \in Deps[t]
  BY DEF CallInv, OwnedOK
<1>3. conn[h].service \in Service
  BY <1>2, IpcAssumption
<1>4. ~Flying(c, h)
  BY <1>1, <1>2 DEF CallInv, SendersOK
<1>5. conn[h].status # "ACTIVE"
  BY <1>1, <1>4 DEF CallInv, ActiveOK, Flying
<1>6. \A u \in Thread : api[u].reply # h
  BY <1>1 DEF CallInv, GrantedOK
<1>7. \A u \in Thread : u # t => h \notin owned[u]
  BY <1>2 DEF CallInv, OwnedOK
<1>8. \A i \in 1..Len(pool) : pool[i] # h
  BY DEF CallInv, PoolOK, Taken
<1> QED
  BY <1>1, <1>2, <1>3, <1>4, <1>5, <1>6, <1>7, <1>8

\* A request on an open connection.
LEMMA RequestCall ==
  ASSUME IpcInv, IpcInv', NEW c, CallInv(c), AnswerWakes, NEW t \in Thread,
         Ready(t), sched.state[t] = "RUNNING", NEW h \in owned[t],
         NEW fn \in ClientFn, NEW type \in {"CALL", "DISCONNECT"},
         tfm_spm_send_event(t, fn, h, conn[h].service,
                            tfm_spm_fill_msg(conn, h, conn[h].service, type)),
         UNCHANGED <<conn, pool>>,
         \A u \in Thread : u # t => owned'[u] = owned[u],
         \A g \in Handle : g # h => (g \in owned'[t] <=> g \in owned[t]),
         type = "CALL" => h \in owned'[t],
         type # "CALL" => h \notin owned'[t]
  PROVE  \E d : CallInv(d)'
<1>0. curr = t
  BY DEF Ready, InThread
<1>1. /\ h \in Handle /\ conn[h].client = t /\ conn[h].service \in Deps[t]
      /\ conn[h].service \in Service
      /\ ~Flying(c, h) /\ conn[h].status # "ACTIVE"
      /\ \A u \in Thread : api[u].reply # h /\ (u # t => h \notin owned[u])
      /\ \A i \in 1..Len(pool) : pool[i] # h
  BY OwnedIdle
<1>2. PICK s : s = conn[h].service
  OBVIOUS
<1>3. tfm_spm_send_event(t, fn, h, s,
        [msg EXCEPT ![h] = [magic |-> TRUE, type |-> type, service |-> s,
                            owner |-> t, next |-> NULL,
                            rhandle |-> conn'[h].rhandle]])
  <2>1. tfm_spm_fill_msg(conn, h, s, type) =
          [msg EXCEPT ![h] = [magic |-> TRUE, type |-> type, service |-> s,
                              owner |-> t, next |-> NULL,
                              rhandle |-> conn'[h].rhandle]]
    BY <1>0 DEF tfm_spm_fill_msg
  <2> QED
    BY <1>2, <2>1
<1>4. \A i, j \in 1..Len(pool) : pool[j] = pool[i] => j = i
  BY DEF CallInv, PoolOK
<1>5. Sends(c, t, fn, h, s, type)
  BY <1>1, <1>2, <1>3, <1>4 DEF Sends
<1> QED
  BY <1>1, <1>2, <1>5, SendCall

\* psa_call().
LEMMA CallCall ==
  ASSUME IpcInv, IpcInv', NEW c, CallInv(c), SomeRunning, AnswerWakes,
         NEW t \in Thread, NEW h \in Handle, psa_call(t, h)
  PROVE  \E d : CallInv(d)'
<1>0. IpcTypeOK /\ Ready(t) /\ RunOK /\ api[t] = NoCall /\ h \in owned[t]
  BY DEF IpcInv, CallInv, psa_call, Ready
<1>1. sched.state[t] = "RUNNING"
  BY <1>0, ReadyRuns DEF Ready
<1>2. conn[h].client = t /\ conn[h].status # "ACTIVE"
  BY <1>0, <1>1, OwnedIdle
<1>3. CASE conn[h].status = "CONNECT_ERROR"
  <2>1. "call" \in ClientFn /\ "PROGRAMMER_ERROR" \in Status
    BY DEF ClientFn, Status
  <2>2. ReturnAtOnce(t, "call", "PROGRAMMER_ERROR")
    BY <1>2, <1>3 DEF psa_call, tfm_spm_validate_conn_handle
  <2>3. CallInv(c)'
    BY <1>0, <1>1, <2>1, <2>2, AtOnceCall
  <2> QED
    BY <2>3
<1>4. CASE conn[h].status # "CONNECT_ERROR"
  <2>1. /\ tfm_spm_send_event(t, "call", h, conn[h].service,
                     tfm_spm_fill_msg(conn, h, conn[h].service, "CALL"))
        /\ UNCHANGED <<conn, pool, owned>>
    BY <1>2, <1>4 DEF psa_call, tfm_spm_validate_conn_handle
  <2>2. "call" \in ClientFn
    BY DEF ClientFn
  <2> QED
    BY <1>0, <1>1, <2>1, <2>2, RequestCall
<1> QED
  BY <1>3, <1>4

\* psa_close().
LEMMA CloseCall ==
  ASSUME IpcInv, IpcInv', NEW c, CallInv(c), SomeRunning, AnswerWakes,
         NEW t \in Thread, NEW h \in Handle, psa_close(t, h)
  PROVE  \E d : CallInv(d)'
<1>0. IpcTypeOK /\ Ready(t) /\ RunOK /\ h \in owned[t]
  BY DEF IpcInv, CallInv, psa_close
<1>1. sched.state[t] = "RUNNING"
  BY <1>0, ReadyRuns DEF Ready
<1>2. conn[h].client = t /\ conn[h].status # "ACTIVE"
  BY <1>0, <1>1, OwnedIdle
<1>3. /\ tfm_spm_send_event(t, "close", h, conn[h].service,
                   tfm_spm_fill_msg(conn, h, conn[h].service, "DISCONNECT"))
      /\ owned' = [owned EXCEPT ![t] = @ \ {h}]
      /\ UNCHANGED <<conn, pool>>
  BY <1>2 DEF psa_close, tfm_spm_validate_conn_handle
<1>4. /\ \A u \in Thread : u # t => owned'[u] = owned[u]
      /\ owned'[t] = owned[t] \ {h}
  BY <1>0, <1>3 DEF IpcTypeOK
<1>5. "close" \in ClientFn
  BY DEF ClientFn
<1> QED
  BY <1>0, <1>1, <1>3, <1>4, <1>5, RequestCall
-----------------------------------------------------------------------------
(* The invariant *)

\* Some sequences describe the queues.
CallsOK == \E c : CallInv(c)

\* At boot every chunk is in the pool and nobody is blocked.
LEMMA CallsInit == IpcInit => CallsOK
<1> SUFFICES ASSUME IpcInit PROVE CallsOK
  OBVIOUS
<1> DEFINE c == [s \in Service |-> <<>>]
<1>1. /\ sched.state = [t \in Thread |-> "CREATING"] /\ curr = NULL
      /\ pendsv = FALSE
  BY DEF IpcInit, ThrdInit
<1>2. /\ c \in [Service -> Seq(Handle)]
      /\ \A s \in Service : c[s] = <<>> /\ Len(c[s]) = 0
  OBVIOUS
<1> HIDE DEF c
<1>3. \A h : ~Flying(c, h) /\ ~Held(h)
  BY <1>2 DEF IpcInit, Flying, Waiting, Held
<1>4. QueuesOK(c)
  BY <1>2 DEF IpcInit, QueuesOK
<1>5. HeldOK /\ OwnedOK
  BY DEF IpcInit, HeldOK, OwnedOK
<1>6. SendersOK(c)
  BY <1>3 DEF SendersOK
<1>7. BlockedOK(c)
  BY <1>1 DEF BlockedOK
<1>8. \A t \in Thread : /\ api[t].fn \notin ClientFn
                        /\ \A h \in Handle : api[t].reply # h
  BY IpcAssumption DEF IpcInit, NoCall, ClientFn
<1>9. AnsweredOK /\ GrantedOK(c)
  BY <1>8 DEF AnsweredOK, GrantedOK
<1>10. \A h \in Handle : ~Taken(c, h)
  BY <1>3, <1>8 DEF IpcInit, Taken
<1>11. /\ pool \in Seq(Handle) /\ Len(pool) \in Nat /\ DOMAIN pool = 1..Len(pool)
       /\ \A h \in Handle : \E i \in DOMAIN pool : pool[i] = h
       /\ \A i, j \in DOMAIN pool : pool[i] = pool[j] => i = j
  BY IpcAssumption DEF IpcInit
<1>12. \A h \in Handle : ~msg[h].magic
  BY DEF IpcInit, FreeMsg
<1>13. PoolOK(c)
  BY <1>10, <1>11, <1>12 DEF PoolOK
<1>14. NoLeak(c)
  BY <1>11 DEF NoLeak
<1>15. ActiveOK
  BY DEF IpcInit, FreeConn, ActiveOK
<1>16. RunOK
  BY <1>1 DEF IpcInit, RunOK
<1> QED
  BY <1>4, <1>5, <1>6, <1>7, <1>9, <1>13, <1>14, <1>15, <1>16 DEF CallsOK, CallInv

\* Every step in which only an answer wakes a client preserves the invariant.
LEMMA CallsStep ==
  ASSUME SoundSystem, IpcInv, IpcInv', CallsOK, [IpcNext]_ipcVars,
         [AnswerWakes]_ipcVars
  PROVE  CallsOK'
<1>1. PICK c : CallInv(c)
  BY DEF CallsOK
<1>2. curr # NULL => SomeRunning
  BY <1>1, NoDeadlock
<1> SUFFICES \E d : CallInv(d)'
  BY DEF CallsOK
<1>3. CASE UNCHANGED ipcVars
  BY <1>1, <1>3, IdleStep DEF ipcVars
<1>4. CASE IpcNext /\ ~UNCHANGED ipcVars
  <2>0. AnswerWakes
    BY <1>4
  <2>1. CASE Boot \/ Schedule
    BY <1>1, <1>2, <2>1, SchedulerCall
  <2>2. ASSUME NEW i \in Irq, tfm_irq_handler(i) PROVE \E d : CallInv(d)'
    <3>1. notify_with_signal(IrqOwner[i], i) /\ curr # NULL
      BY <2>2 DEF tfm_irq_handler
    <3>2. IrqOwner[i] \in Thread
      BY IpcAssumption
    <3> QED
      BY <1>1, <2>0, <3>1, <3>2, NotifyCall
  <2>3. ASSUME NEW t \in Thread, ThreadStep(t) PROVE \E d : CallInv(d)'
    <3>1. InThread(t) /\ curr = t
      BY <2>3 DEF ThreadStep, Return, ClientStep, Wait, Get, Reply, SignalStep,
           OtherStep, psa_connect, psa_call, psa_close, psa_wait, psa_get,
           psa_reply, psa_clear, psa_eoi, psa_set_rhandle, psa_notify, SetIrq,
           Ready, InThread
    <3>2. SomeRunning /\ curr # NULL
      BY <1>2, <3>1, ThreadAssumption
    <3>3. seen[t] \subseteq signals[t]
      BY DEF IpcInv, SeenAsserted
    <3>4. CASE Return(t)
      BY <1>1, <3>2, <3>4, ReturnCall
    <3>5. CASE ClientStep(t)
      BY <1>1, <2>0, <3>2, <3>5, ConnectCall, CallCall, CloseCall DEF ClientStep
    <3>6. CASE Wait(t)
      BY <1>1, <3>2, <3>6, WaitCall DEF Wait
    <3>7. CASE Get(t)
      BY <1>1, <3>2, <3>7, GetCall DEF Get
    <3>8. CASE Reply(t)
      BY <1>1, <3>2, <3>8, ReplyCall DEF Reply
    <3>9. CASE psa_clear(t)
      <4>1. ClearSignal(t, DOORBELL)
        BY <3>3, <3>9 DEF psa_clear
      <4> QED
        BY <1>1, <4>1, ClearCall
    <3>10. ASSUME NEW i \in Irq, psa_eoi(t, i) PROVE \E d : CallInv(d)'
      <4>1. i \in signals[t] /\ IrqOwner[i] = t
        BY <1>1, <3>3, <3>10 DEF psa_eoi, CallInv, RunOK
      <4>2. ClearSignal(t, i)
        BY <3>10, <4>1 DEF psa_eoi
      <4> QED
        BY <1>1, <4>2, ClearCall
    <3>11. ASSUME NEW p \in Thread, psa_notify(t, p) PROVE \E d : CallInv(d)'
      <4>1. notify_with_signal(p, DOORBELL) /\ DOORBELL \notin Irq
        BY <3>11, IpcAssumption DEF psa_notify
      <4> QED
        BY <1>1, <2>0, <3>2, <4>1, NotifyCall
    <3>12. ASSUME NEW i \in Irq, NEW on \in BOOLEAN, SetIrq(t, i, on)
           PROVE  \E d : CallInv(d)'
      <4>1. /\ UNCHANGED <<sched, curr, pendsv, signals, mask>>
            /\ UNCHANGED <<evntOwner, conn, msg, pool, queue, r0, api, owned>>
            /\ UNCHANGED <<held, panic>>
        BY <3>12 DEF SetIrq, connVars, userVars
      <4> QED
        BY <1>1, <4>1, IdleStep
    <3>13. CASE OtherStep(t)
      BY <1>1, <3>11, <3>12, <3>13, RhandleCall DEF OtherStep
    <3> QED
      BY <2>3, <3>4, <3>5, <3>6, <3>7, <3>8, <3>9, <3>10, <3>13
         DEF ThreadStep, SignalStep
  <2> QED
    BY <1>4, <2>1, <2>2, <2>3 DEF IpcNext
<1> QED
  BY <1>3, <1>4

\* In a sound system the invariant holds as long as only answers wake a thread
\* that is blocked in a client call.
THEOREM IpcCallsIfUndisturbed ==
  ASSUME SoundSystem
  PROVE  IpcSpec /\ OnlyReplyWakes => [](IpcInv /\ CallsOK)
<1>1. IpcInit => CallsOK
  BY CallsInit
<1>2. IpcInv /\ IpcInv' /\ CallsOK /\ [IpcNext]_ipcVars /\ [AnswerWakes]_ipcVars
        => CallsOK'
  BY CallsStep
<1>3. IpcSpec => []IpcInv
  BY IpcInvariant
<1> QED
  BY <1>1, <1>2, <1>3, PTL DEF IpcSpec, OnlyReplyWakes
-----------------------------------------------------------------------------
(* Systems in which only answers wake a client *)

\* While t waits for an answer, whoever may signal t does not run: a partition
\* that the call of t reaches is RUNNING and more urgent.
LEMMA SignallerWaits ==
  ASSUME SoundSystem, ShieldedSystem, IpcInv, UrgentRuns, NEW c, CallInv(c),
         NEW t \in Thread, AwaitsReply(c, t), sched.state[t] = "BLOCK",
         NEW v \in Thread, InThread(v),
         t \in NotifyTo[v] \/ \E s \in Deps[v] : Owner[s] = t
  PROVE  FALSE
<1>1. curr = v /\ curr # NULL /\ ~pendsv
  BY ThreadAssumption DEF InThread
<1>2. SomeRunning /\ RunOK
  BY <1>1, NoDeadlock DEF CallInv
<1>3. sched.state[v] = "RUNNING"
  BY <1>2, ReadyRuns
<1>4. Deps[t] # {}
  BY ServerAwake
<1>5. PICK below \in SUBSET Thread : Reaches(below, t) /\ Shields(below, t)
  BY <1>4 DEF ShieldedSystem
<1>6. v \in Signallers(t)
  BY <1>3 DEF Signallers
<1>7. PICK u \in below : sched.state[u] = "RUNNING"
  BY <1>1, <1>5, ReachesRunning
<1>8. Prior[u] < Prior[v] /\ Prior[v] <= Prior[u]
  BY <1>1, <1>5, <1>6, <1>7 DEF Shields, UrgentRuns
<1> QED
  BY <1>8, ThreadAssumption

\* Raising a signal wakes the partition only if it waits for signals.
LEMMA NotifyAnswers ==
  ASSUME IpcInv, NEW c, CallInv(c), NEW p \in Thread, NEW sig,
         notify_with_signal(p, sig),
         ~(AwaitsReply(c, p) /\ sched.state[p] = "BLOCK")
  PROVE  AnswerWakes
<1>1. /\ sched \in Sched /\ SchedInv(sched)
      /\ evntOwner[p] \in Thread \cup {NULL} /\ evntOwner[p] \in {NULL, p}
  BY DEF IpcInv, IpcTypeOK, ThrdTypeOK, Pointer
<1>2. PICK o : o = evntOwner[p]
  OBVIOUS
<1>3. sched' = tfm_event_wake(sched, o)
  BY <1>2 DEF notify_with_signal
<1>4. \A u \in Thread : sched'.state[u] =
        IF u = o /\ sched.state[u] = "BLOCK" THEN "RUNNING" ELSE sched.state[u]
  BY <1>1, <1>2, <1>3, WakeState
<1>5. ASSUME NEW u \in Thread, api[u].fn \in ClientFn, sched.state[u] = "BLOCK",
             sched'.state[u] # "BLOCK"
      PROVE  FALSE
  <2>1. u = p
    BY <1>1, <1>2, <1>4, <1>5, ThreadAssumption
  <2>2. AwaitsReply(c, u)
    BY <1>5 DEF CallInv, BlockedOK, AwaitsSignal, ClientFn
  <2> QED
    BY <1>5, <2>1, <2>2
<1> QED
  BY <1>5 DEF AnswerWakes

\* So does sending a message to it.
LEMMA SendAnswers ==
  ASSUME IpcInv, NEW c, CallInv(c), NEW t \in Thread, InThread(t),
         NEW s \in Service, NEW fn, NEW h, NEW ms,
         tfm_spm_send_event(t, fn, h, s, ms),
         ~(AwaitsReply(c, Owner[s]) /\ sched.state[Owner[s]] = "BLOCK")
  PROVE  AnswerWakes
<1>1. PICK p \in Thread : p = Owner[s]
  BY IpcAssumption
<1>2. PICK o : o = evntOwner[p]
  OBVIOUS
<1>3. /\ sched \in Sched /\ SchedInv(sched) /\ curr = t
      /\ o \in Thread \cup {NULL} /\ o \in {NULL, p}
      /\ sched.state[t] # "CREATING"
  BY <1>2, ThreadAssumption DEF IpcInv, IpcTypeOK, ThrdTypeOK, Pointer, InThread
<1>4. PICK w : w = tfm_event_wake(sched, o)
  OBVIOUS
<1>5. /\ w \in Sched /\ SchedInv(w)
      /\ w.state[t] # "CREATING"
      /\ \A u \in Thread : w.state[u] =
           IF u = o /\ sched.state[u] = "BLOCK" THEN "RUNNING" ELSE sched.state[u]
  BY <1>3, <1>4, WakeProperties, WakeState
<1>6. sched' = tfm_event_wait(w)
  BY <1>1, <1>2, <1>4 DEF tfm_spm_send_event
<1>7. \A u \in Thread :
        sched'.state[u] = IF u = t THEN "BLOCK" ELSE w.state[u]
  BY <1>3, <1>5, <1>6, WaitState
<1>8. ASSUME NEW u \in Thread, api[u].fn \in ClientFn, sched.state[u] = "BLOCK",
             sched'.state[u] # "BLOCK"
      PROVE  FALSE
  <2>1. u = p
    BY <1>3, <1>5, <1>7, <1>8, ThreadAssumption
  <2>2. AwaitsReply(c, u)
    BY <1>8 DEF CallInv, BlockedOK, AwaitsSignal, ClientFn
  <2> QED
    BY <1>1, <1>8, <2>1, <2>2
<1> QED
  BY <1>8 DEF AnswerWakes

\* psa_reply() wakes the sender of the message it answers.
LEMMA ReplyAnswers ==
  ASSUME IpcInv, NEW c, CallInv(c), NEW t \in Thread, NEW h \in Handle,
         NEW status \in Status, psa_reply(t, h, status)
  PROVE  AnswerWakes
<1>1. CASE tfm_core_panic
  BY <1>1 DEF tfm_core_panic, AnswerWakes
<1>2. CASE ~tfm_core_panic
  <2>1. PICK o : o = msg[h].owner
    OBVIOUS
  <2>2. Flying(c, h) /\ Ready(t) /\ status \in ReplyStatus(h)
    BY DEF psa_reply, Flying, Held
  <2>3. /\ o \in Thread /\ conn[h].client = o /\ api[o].h = h
        /\ msg[h].type \in {"CONNECT", "CALL", "DISCONNECT"}
    BY <2>1, <2>2 DEF CallInv, SendersOK
  <2>4. PICK ret : ret = ReplyValue(h, status)
    OBVIOUS
  <2>5. ret # NULL
    BY <2>3, <2>4, IpcAssumption DEF ReplyValue, Status
  <2>6. /\ sched' = tfm_event_wake(sched, o)
        /\ api' = [u \in Thread |-> IF u = o /\ api[u].h = h
                                   THEN [api[u] EXCEPT !.reply = ret]
                                   ELSE api[u]]
    BY <1>2, <2>1, <2>3, <2>4 DEF psa_reply
  <2>7. sched \in Sched /\ SchedInv(sched) /\ api \in [Thread -> ApiCall]
    BY DEF IpcInv, IpcTypeOK, ThrdTypeOK
  <2>8. \A u \in Thread : sched'.state[u] =
          IF u = o /\ sched.state[u] = "BLOCK" THEN "RUNNING" ELSE sched.state[u]
    BY <2>3, <2>6, <2>7, WakeState
  <2>9. api'[o].reply = ret
    BY <2>3, <2>6, <2>7 DEF ApiCall
  <2> QED
    BY <2>5, <2>8, <2>9 DEF AnswerWakes
<1> QED
  BY <1>1, <1>2

\* In a shielded system no step wakes a client before its answer.
LEMMA ShieldedStep ==
  ASSUME SoundSystem, ShieldedSystem, IpcInv, UrgentRuns, CallsOK,
         [IpcNext]_ipcVars
  PROVE  [AnswerWakes]_ipcVars
<1>1. PICK c : CallInv(c)
  BY DEF CallsOK
<1>2. ASSUME UNCHANGED sched PROVE AnswerWakes
  BY <1>2 DEF AnswerWakes
<1>3. ASSUME NEW t \in Thread, NEW p \in Thread, InThread(t),
             p \in NotifyTo[t] \/ \E s \in Deps[t] : Owner[s] = p
      PROVE  ~(AwaitsReply(c, p) /\ sched.state[p] = "BLOCK")
  BY <1>1, <1>3, SignallerWaits
<1>4. CASE Boot \/ Schedule
  <2>1. CASE curr = NULL
    <3>1. ASSUME NEW t \in Thread, Start(t) PROVE AnswerWakes
      <4>1. sched \in Sched /\ SchedInv(sched) /\ sched.state[t] = "CREATING"
        BY <3>1 DEF IpcInv, IpcTypeOK, ThrdTypeOK, Start
      <4>2. sched'.state = [sched.state EXCEPT ![t] = "RUNNING"]
        BY <3>1, <4>1, StartProperties DEF Start
      <4>3. sched.state \in [Thread -> ThrdState]
        BY <4>1 DEF Sched
      <4> QED
        BY <4>1, <4>2, <4>3 DEF AnswerWakes
    <3> QED
      BY <1>2, <1>4, <3>1
         DEF Boot, Schedule, PendSV, tfm_core_thrd_start_scheduler
  <2>2. CASE curr # NULL
    BY <1>2, <1>4, <2>2
       DEF Boot, Start, Schedule, PendSV, tfm_core_thrd_start_scheduler
  <2> QED
    BY <2>1, <2>2
<1>5. ASSUME NEW i \in Irq, tfm_irq_handler(i) PROVE AnswerWakes
  <2>1. notify_with_signal(IrqOwner[i], i) /\ IrqOwner[i] \in Thread
    BY <1>5, IpcAssumption DEF tfm_irq_handler
  <2>2. Deps[IrqOwner[i]] = {}
    BY <2>1 DEF ShieldedSystem, Shields
  <2>3. ~AwaitsReply(c, IrqOwner[i])
    BY <1>1, <2>1, <2>2, ServerAwake
  <2> QED
    BY <1>1, <2>1, <2>3, NotifyAnswers
<1>6. ASSUME NEW t \in Thread, ThreadStep(t) PROVE AnswerWakes
  <2>1. InThread(t) /\ curr # NULL
    BY <1>6, ThreadAssumption
       DEF ThreadStep, Return, ClientStep, Wait, Get, Reply, SignalStep,
           OtherStep, psa_connect, psa_call, psa_close, psa_wait, psa_get,
           psa_reply, psa_clear, psa_eoi, psa_set_rhandle, psa_notify, SetIrq,
           Ready, InThread
  <2>2. ASSUME tfm_core_panic PROVE AnswerWakes
    BY <1>2, <2>2 DEF tfm_core_panic
  <2>3. ASSUME NEW fn, NEW h, NEW s \in Deps[t], NEW ms,
               tfm_spm_send_event(t, fn, h, s, ms)
        PROVE  AnswerWakes
    <3>1. s \in Service /\ Owner[s] \in Thread
      BY IpcAssumption
    <3> QED
      BY <1>1, <1>3, <2>1, <2>3, <3>1, SendAnswers
  <2>4. ASSUME NEW fn, NEW val, ReturnAtOnce(t, fn, val) PROVE AnswerWakes
    BY <1>2, <2>4 DEF ReturnAtOnce
  <2>5. ASSUME NEW s \in Service, psa_connect(t, s) PROVE AnswerWakes
    BY <2>3, <2>4, <2>5 DEF psa_connect
  <2>6. ASSUME NEW h \in Handle, psa_call(t, h) \/ psa_close(t, h)
        PROVE  AnswerWakes
    <3>1. conn[h].service \in Deps[t]
      BY <1>1, <2>6 DEF psa_call, psa_close, CallInv, OwnedOK
    <3> QED
      BY <2>2, <2>3, <2>4, <2>6, <3>1 DEF psa_call, psa_close
  <2>7. CASE Wait(t)
    <3>1. PICK m \in Masks[t], timeout \in WaitFn : psa_wait(t, m, timeout)
      BY <2>7 DEF Wait
    <3>2. CASE tfm_core_panic \/ UNCHANGED sched
      BY <1>2, <2>2, <3>2
    <3>3. CASE sched' = tfm_event_wait(sched)
      <4>1. /\ sched \in Sched /\ SchedInv(sched) /\ curr \in Thread
            /\ sched.state[curr] # "CREATING"
        BY <2>1 DEF IpcInv, IpcTypeOK, ThrdTypeOK
      <4>2. \A u \in Thread :
              sched'.state[u] = IF u = curr THEN "BLOCK" ELSE sched.state[u]
        BY <3>3, <4>1, WaitState
      <4> QED
        BY <4>2 DEF AnswerWakes
    <3> QED
      BY <3>1, <3>2, <3>3 DEF psa_wait
  <2>8. CASE Reply(t)
    BY <1>1, <2>8, ReplyAnswers DEF Reply
  <2>9. ASSUME NEW p \in Thread, psa_notify(t, p) PROVE AnswerWakes
    <3>1. notify_with_signal(p, DOORBELL) /\ p \in NotifyTo[t]
      BY <2>9 DEF psa_notify
    <3> QED
      BY <1>1, <1>3, <2>1, <3>1, NotifyAnswers
  <2>10. CASE Return(t)
    BY <1>2, <2>10 DEF Return
  <2>11. CASE Get(t)
    <3>1. tfm_core_panic \/ UNCHANGED sched
      BY <2>11 DEF Get, psa_get
    <3> QED
      BY <1>2, <2>2, <3>1
  <2>12. CASE SignalStep(t)
    <3>1. tfm_core_panic \/ UNCHANGED sched
      BY <2>12 DEF SignalStep, psa_clear, psa_eoi, ClearSignal
    <3> QED
      BY <1>2, <2>2, <3>1
  <2>13. CASE OtherStep(t)
    <3>1. \/ tfm_core_panic \/ UNCHANGED sched
          \/ \E p \in Thread : psa_notify(t, p)
      BY <2>13 DEF OtherStep, psa_set_rhandle, SetIrq
    <3> QED
      BY <1>2, <2>2, <2>9, <3>1
  <2> QED
    BY <1>6, <2>5, <2>6, <2>7, <2>8, <2>10, <2>11, <2>12, <2>13
       DEF ThreadStep, ClientStep
<1> QED
  BY <1>4, <1>5, <1>6 DEF IpcNext

\* In a sound and shielded system the invariant holds in every behaviour.
THEOREM IpcCalls ==
  ASSUME SoundSystem, ShieldedSystem
  PROVE  IpcSpec => [](IpcInv /\ CallsOK)
<1>1. IpcInit => CallsOK
  BY CallsInit
<1>2. IpcInv /\ IpcInv' /\ UrgentRuns /\ CallsOK /\ [IpcNext]_ipcVars
        => CallsOK'
  BY CallsStep, ShieldedStep
<1>3. IpcSpec => []IpcInv /\ []UrgentRuns
  BY IpcInvariant, IpcUrgentRuns
<1> QED
  BY <1>1, <1>2, <1>3, PTL DEF IpcSpec

\* In a sound and shielded system a thread that is blocked in a client call is
\* woken only by psa_reply() to that call, never by a signal.
THEOREM IpcOnlyReplyWakes ==
  ASSUME SoundSystem, ShieldedSystem
  PROVE  IpcSpec => OnlyReplyWakes
<1>1. IpcInv /\ UrgentRuns /\ CallsOK /\ [IpcNext]_ipcVars
        => [AnswerWakes]_ipcVars
  BY ShieldedStep
<1>2. IpcSpec => []IpcInv /\ []UrgentRuns
  BY IpcInvariant, IpcUrgentRuns
<1> QED
  BY <1>1, <1>2, IpcCalls, PTL DEF IpcSpec, OnlyReplyWakes
-----------------------------------------------------------------------------
(* What the invariant says *)

\* Following the next pointers from the head gives the messages of the queue.
LEMMA ChainIs ==
  ASSUME NEW q, NEW e \in Seq(Handle), Len(e) = q.size,
         Len(e) > 0 => q.head = e[1],
         \A i \in 1..(Len(e) - 1) : msg[e[i]].next = e[i + 1]
  PROVE  \A i \in 1..Len(e) : Chain(q)[i] = e[i]
<1> DEFINE n == Len(e)
           F(f) == [i \in 1..q.size |->
                      IF i = 1 THEN q.head
                      ELSE IF f[i - 1] = NULL THEN NULL ELSE msg[f[i - 1]].next]
           g == [i \in 1..n |-> e[i]]
<1>0. n \in Nat /\ \A i \in 1..n : e[i] \in Handle /\ e[i] # NULL
  BY IpcAssumption
<1>1. Chain(q) = CHOOSE f : f = F(f)
  BY DEF Chain
<1>2. g = F(g)
  <2>1. ASSUME NEW i \in 1..n
        PROVE  g[i] = IF i = 1 THEN q.head
                      ELSE IF g[i - 1] = NULL THEN NULL ELSE msg[g[i - 1]].next
    <3>1. CASE i = 1
      BY <1>0, <3>1
    <3>2. CASE i # 1
      <4>1. i - 1 \in 1..n /\ i - 1 \in 1..(n - 1) /\ (i - 1) + 1 = i
        BY <1>0, <3>2
      <4>2. g[i - 1] = e[i - 1] /\ e[i - 1] # NULL
        BY <1>0, <4>1
      <4>3. msg[e[i - 1]].next = e[(i - 1) + 1]
        BY <4>1
      <4> QED
        BY <3>2, <4>1, <4>2, <4>3
    <3> QED
      BY <3>1, <3>2
  <2> QED
    BY <2>1
<1>3. \E f : f = F(f)
  BY <1>2
<1>4. PICK k : k = Chain(q)
  OBVIOUS
<1>5. k = F(k)
  BY <1>1, <1>3, <1>4
<1>6. \A i \in 1..n : k[i] = IF i = 1 THEN q.head
                             ELSE IF k[i - 1] = NULL THEN NULL
                             ELSE msg[k[i - 1]].next
  <2> HIDE DEF n
  <2>1. 1..q.size = 1..n
    BY DEF n
  <2> QED
    BY <1>5, <2>1
<1> DEFINE B == {i \in 1..n : k[i] # e[i]}
<1>7. ASSUME B # {} PROVE FALSE
  <2>1. B \in SUBSET Nat
    BY <1>0
  <2>2. PICK m : m = Least(B)
    OBVIOUS
  <2>3. m \in B /\ \A j \in B : m <= j
    BY <1>7, <2>1, <2>2, LeastProperties
  <2>4. m \in 1..n /\ k[m] # e[m]
    BY <2>3
  <2>5. m # 1
    BY <1>0, <1>6, <2>4
  <2>6. m - 1 \in 1..n /\ m - 1 \in 1..(n - 1) /\ (m - 1) + 1 = m /\ ~(m <= m - 1)
    BY <1>0, <2>4, <2>5
  <2>7. k[m - 1] = e[m - 1]
    BY <2>3, <2>6
  <2>8. k[m] = msg[e[m - 1]].next
    BY <1>0, <1>6, <2>4, <2>5, <2>6, <2>7
  <2>9. msg[e[m - 1]].next = e[(m - 1) + 1]
    BY <2>6
  <2> QED
    BY <2>4, <2>6, <2>8, <2>9
<1> QED
  BY <1>4, <1>7

\* The chain of a queue is the sequence the invariant speaks of.
LEMMA ChainContents ==
  ASSUME IpcInv, NEW c, CallInv(c), NEW s \in Service
  PROVE  /\ Len(c[s]) = queue[s].size /\ Len(c[s]) \in Nat
         /\ \A i \in 1..queue[s].size : Chain(queue[s])[i] = c[s][i]
<1>1. /\ c[s] \in Seq(Handle) /\ Len(c[s]) = queue[s].size /\ Len(c[s]) \in Nat
      /\ Len(c[s]) > 0 => queue[s].head = c[s][1]
      /\ \A i \in 1..(Len(c[s]) - 1) : msg[c[s][i]].next = c[s][i + 1]
  BY DEF CallInv, QueuesOK
<1>2. \A i \in 1..Len(c[s]) : Chain(queue[s])[i] = c[s][i]
  BY <1>1, ChainIs
<1> QED
  BY <1>1, <1>2

\* The messages and chunks the invariant speaks of are those of the properties.
LEMMA FlyingInFlight ==
  ASSUME IpcInv, NEW c, CallInv(c), NEW h
  PROVE  (Flying(c, h) <=> InFlight(h)) /\ (Taken(c, h) <=> InUse(h))
<1>1. Waiting(c, h) <=> Queued(h)
  BY ChainContents DEF Waiting, Queued
<1>2. Flying(c, h) <=> InFlight(h)
  BY <1>1 DEF Flying, InFlight
<1> QED
  BY <1>2 DEF Taken, InUse

\* The invariant gives each property; first the queues,
LEMMA QueueIntegrityHolds == ASSUME IpcInv, CallsOK PROVE QueueIntegrity
<1>1. PICK c : CallInv(c)
  BY DEF CallsOK
<1> SUFFICES ASSUME NEW s \in Service,
                    NEW e, e = Chain(queue[s])
             PROVE  /\ queue[s].size > 0 => e[queue[s].size] = queue[s].tail
                    /\ \A i \in 1..queue[s].size :
                         /\ e[i] # NULL
                         /\ msg[e[i]].magic /\ msg[e[i]].service = s
                         /\ ~Held(e[i])
                         /\ \A j \in 1..(i - 1) : e[j] # e[i]
  BY DEF QueueIntegrity
<1>2. /\ Len(c[s]) = queue[s].size /\ Len(c[s]) \in Nat
      /\ \A i \in 1..queue[s].size : e[i] = c[s][i]
  BY <1>1, ChainContents
<1> DEFINE n == queue[s].size
<1>3. /\ n \in Nat
      /\ n > 0 => queue[s].tail = c[s][n]
      /\ \A i, j \in 1..n : c[s][i] = c[s][j] => i = j
      /\ \A i \in 1..n : /\ msg[c[s][i]].magic /\ msg[c[s][i]].service = s
                         /\ ~Held(c[s][i]) /\ c[s][i] \in Handle
  BY <1>1, <1>2 DEF CallInv, QueuesOK
<1>4. \A i \in 1..n : e[i] = c[s][i]
  BY <1>2
<1> HIDE DEF n
<1>5. n > 0 => e[n] = queue[s].tail
  <2>1. n > 0 => n \in 1..n
    BY <1>3
  <2> QED
    BY <1>3, <1>4, <2>1
<1>6. ASSUME NEW i \in 1..n
      PROVE  /\ e[i] # NULL
             /\ msg[e[i]].magic /\ msg[e[i]].service = s
             /\ ~Held(e[i])
             /\ \A j \in 1..(i - 1) : e[j] # e[i]
  <2>1. e[i] = c[s][i]
    BY <1>4
  <2>2. ASSUME NEW j \in 1..(i - 1) PROVE e[j] # e[i]
    <3>1. j \in 1..n /\ j # i
      BY <1>3
    <3> QED
      BY <1>3, <1>4, <3>1
  <2>3. /\ msg[c[s][i]].magic /\ msg[c[s][i]].service = s
        /\ ~Held(c[s][i]) /\ c[s][i] \in Handle
    BY <1>3
  <2>4. c[s][i] # NULL
    BY <2>3, IpcAssumption
  <2> QED
    BY <2>1, <2>2, <2>3, <2>4
<1> QED
  BY <1>5, <1>6 DEF n

\* the senders of messages,
LEMMA CallerBlockedHolds == ASSUME IpcInv, CallsOK PROVE CallerBlocked
<1>1. PICK c : CallInv(c)
  BY DEF CallsOK
<1>2. \A h \in Handle : InFlight(h) => Flying(c, h)
  BY <1>1, FlyingInFlight
<1> QED
  BY <1>1, <1>2, ThreadAssumption DEF CallInv, SendersOK, CallerBlocked

\* the free chunks,
LEMMA PoolSoundHolds == ASSUME IpcInv, CallsOK PROVE PoolSound
<1>1. PICK c : CallInv(c)
  BY DEF CallsOK
<1> SUFFICES ASSUME NEW i \in DOMAIN pool
             PROVE  /\ ~InUse(pool[i]) /\ ~msg[pool[i]].magic
                    /\ \A j \in 1..(i - 1) : pool[j] # pool[i]
  BY DEF PoolSound
<1>2. DOMAIN pool = 1..Len(pool) /\ Len(pool) \in Nat
  BY DEF IpcInv, IpcTypeOK
<1>3. /\ ~Taken(c, pool[i]) /\ ~msg[pool[i]].magic
      /\ \A j \in 1..Len(pool) : pool[j] = pool[i] => j = i
  BY <1>1, <1>2 DEF CallInv, PoolOK
<1>4. ~InUse(pool[i])
  BY <1>1, <1>3, FlyingInFlight
<1>5. \A j \in 1..(i - 1) : j \in 1..Len(pool) /\ j # i
  BY <1>2
<1> QED
  BY <1>3, <1>4, <1>5

\* the chunks that are not free,
LEMMA HandlesNotLeakedHolds ==
  ASSUME IpcInv, CallsOK, "CONNECTION_BUSY" \notin ConnectReply
  PROVE  HandlesNotLeaked
<1>1. PICK c : CallInv(c)
  BY DEF CallsOK
<1>2. DOMAIN pool = 1..Len(pool)
  BY DEF IpcInv, IpcTypeOK
<1>3. \A h \in Handle : ~InUse(h) => ~Taken(c, h)
  BY <1>1, FlyingInFlight
<1> QED
  BY <1>1, <1>2, <1>3 DEF CallInv, NoLeak, HandlesNotLeaked

\* the current thread,
LEMMA BlockedDoesNotRunHolds ==
  ASSUME SoundSystem, IpcInv, CallsOK PROVE BlockedDoesNotRun
<1>1. PICK c : CallInv(c)
  BY DEF CallsOK
<1> SUFFICES ASSUME NEW t \in Thread, InThread(t)
             PROVE  sched.state[t] = "RUNNING"
  BY DEF BlockedDoesNotRun
<1>2. SomeRunning
  BY <1>1, NoDeadlock, ThreadAssumption DEF InThread
<1>3. RunOK
  BY <1>1 DEF CallInv
<1> QED
  BY <1>2, <1>3, ReadyRuns

\* and the calls that come back.
LEMMA CallReturnsReplyHolds ==
  ASSUME SoundSystem, IpcInv, CallsOK PROVE CallReturnsReply
<1>1. AnsweredOK
  BY DEF CallsOK, CallInv
<1>2. BlockedDoesNotRun
  BY BlockedDoesNotRunHolds
<1> QED
  BY <1>1, <1>2 DEF AnsweredOK, BlockedDoesNotRun, CallReturnsReply

\* Each queue is a chain of distinct messages from head to tail that nobody
\* serves yet (tfm_msg_enqueue(), tfm_msg_dequeue()).
THEOREM IpcQueueIntegrity ==
  ASSUME SoundSystem, ShieldedSystem PROVE IpcSpec => []QueueIntegrity
<1>1. IpcInv /\ CallsOK => QueueIntegrity
  BY QueueIntegrityHolds
<1> QED
  BY <1>1, IpcCalls, PTL

\* The sender of a message is blocked, in the call on that very connection,
\* until the message is answered.
THEOREM IpcCallerBlocked ==
  ASSUME SoundSystem, ShieldedSystem PROVE IpcSpec => []CallerBlocked
<1>1. IpcInv /\ CallsOK => CallerBlocked
  BY CallerBlockedHolds
<1> QED
  BY <1>1, IpcCalls, PTL

\* A client call comes back with the value its service answered.
THEOREM IpcCallReturnsReply ==
  ASSUME SoundSystem, ShieldedSystem PROVE IpcSpec => []CallReturnsReply
<1>1. IpcInv /\ CallsOK => CallReturnsReply
  BY CallReturnsReplyHolds
<1> QED
  BY <1>1, IpcCalls, PTL

\* conn_handle_pool never holds a chunk that is in use, nor one twice.
THEOREM IpcPoolSound ==
  ASSUME SoundSystem, ShieldedSystem PROVE IpcSpec => []PoolSound
<1>1. IpcInv /\ CallsOK => PoolSound
  BY PoolSoundHolds
<1> QED
  BY <1>1, IpcCalls, PTL

\* When no service answers PSA_ERROR_CONNECTION_BUSY, every chunk that is not
\* in use is in conn_handle_pool.
THEOREM IpcHandlesNotLeaked ==
  ASSUME SoundSystem, ShieldedSystem, "CONNECTION_BUSY" \notin ConnectReply
  PROVE  IpcSpec => []HandlesNotLeaked
<1>1. IpcInv /\ CallsOK => HandlesNotLeaked
  BY HandlesNotLeakedHolds
<1> QED
  BY <1>1, IpcCalls, PTL

\* Well-behaved partitions never make the SPM panic.
THEOREM IpcNoPanic ==
  ASSUME SoundSystem, ShieldedSystem PROVE IpcSpec => []NoPanic
<1>1. IpcInv /\ CallsOK => NoPanic
  BY DEF CallsOK, CallInv, RunOK, NoPanic
<1> QED
  BY <1>1, IpcCalls, PTL

\* The thread that runs is RUNNING: the threads are never all blocked.
THEOREM IpcBlockedDoesNotRun ==
  ASSUME SoundSystem, ShieldedSystem PROVE IpcSpec => []BlockedDoesNotRun
<1>1. IpcInv /\ CallsOK => BlockedDoesNotRun
  BY BlockedDoesNotRunHolds
<1> QED
  BY <1>1, IpcCalls, PTL

\* In a sound and shielded system the assertion of update_caller_outvec_len()
\* never fails: when a request is answered its sender is blocked.
THEOREM IpcOutvecAssert ==
  ASSUME SoundSystem, ShieldedSystem PROVE IpcSpec => []OutvecAssert
<1>1. IpcInv /\ CallerBlocked => OutvecAssert
  BY DEF IpcInv, IpcTypeOK, CallerBlocked, InFlight, Held, OutvecAssert
<1> QED
  BY <1>1, IpcCallerBlocked, IpcInvariant, PTL
=============================================================================
