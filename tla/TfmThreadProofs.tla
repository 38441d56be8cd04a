-------------------------- MODULE TfmThreadProofs --------------------------
(***************************************************************************)
(* Proofs about the scheduler of tfm_thread.c for every set of threads and *)
(* every assignment of priorities.  ThrdInv is inductive: the list is      *)
(* sorted, it holds exactly the started threads, and no RUNNING thread     *)
(* stands in front of RUNN_HEAD.  The lemmas are about the operators on    *)
(* scheduler records, so that the proofs about the SPM can cite them too.  *)
(***************************************************************************)
EXTENDS TfmThread, TLAPS, WellFoundedInduction

\* A non-empty set of naturals has the least element that Least chooses.
LEMMA LeastProperties ==
  ASSUME NEW S \in SUBSET Nat, S # {}
  PROVE  Least(S) \in S /\ \A j \in S : Least(S) <= j
<1> DEFINE R == {ss \in Nat \X Nat : ss[1] < ss[2]}
<1>1. OpToRel(<, Nat) = R
  BY DEF OpToRel
<1>2. IsWellFoundedOn(R, Nat)
  BY <1>1, NatLessThanWellFounded
<1> HIDE DEF R
<1>3. \E x \in S : \A y \in S : ~ (<<y, x>> \in R)
  BY <1>2, WFMin
<1>4. \E x \in S : \A y \in S : x <= y
  <2>1. \A x, y \in Nat : ~ (<<y, x>> \in R) => x <= y
    BY DEF R
  <2> QED
    BY <1>3, <2>1
<1> QED
  BY <1>4, Zenon DEF Least

\* insert_by_prior() keeps the list sorted and adds just the new thread.
LEMMA InsertProperties ==
  ASSUME NEW l \in Seq(Thread), NEW t \in Thread,
         \A i, j \in DOMAIN l : i < j => /\ l[i] # l[j]
                                         /\ Prior[l[i]] <= Prior[l[j]],
         \A i \in DOMAIN l : l[i] # t
  PROVE  LET m == insert_by_prior(l, t)
         IN  /\ m \in Seq(Thread)
             /\ m # <<>>
             /\ \A i, j \in DOMAIN m : i < j => /\ m[i] # m[j]
                                                /\ Prior[m[i]] <= Prior[m[j]]
             /\ {m[i] : i \in DOMAIN m} = {l[i] : i \in DOMAIN l} \cup {t}
<1> DEFINE pos == IF NotMoreUrgent(l, t) = {} THEN Len(l) + 1
                  ELSE Least(NotMoreUrgent(l, t))
           m == [i \in 1..(Len(l) + 1) |->
                  IF i < pos THEN l[i] ELSE IF i = pos THEN t ELSE l[i - 1]]
<1>1. /\ pos \in 1..(Len(l) + 1)
      /\ \A i \in 1..Len(l) : i < pos => Prior[l[i]] < Prior[t]
      /\ \A i \in 1..Len(l) : i >= pos => Prior[t] <= Prior[l[i]]
  <2>1. CASE NotMoreUrgent(l, t) = {}
    BY <2>1, ThreadAssumption DEF NotMoreUrgent
  <2>2. CASE NotMoreUrgent(l, t) # {}
    <3> DEFINE k == Least(NotMoreUrgent(l, t))
    <3>1. NotMoreUrgent(l, t) \in SUBSET Nat
      BY DEF NotMoreUrgent
    <3>2. k \in NotMoreUrgent(l, t) /\ \A j \in NotMoreUrgent(l, t) : k <= j
      BY <2>2, <3>1, LeastProperties
    <3>3. pos = k
      BY <2>2
    <3> HIDE DEF k, pos
    <3>4. k \in 1..Len(l) /\ Prior[t] <= Prior[l[k]]
      BY <3>2 DEF NotMoreUrgent
    <3>5. \A i \in 1..Len(l) : i < k => Prior[l[i]] < Prior[t]
      <4> TAKE i \in 1..Len(l)
      <4> HAVE i < k
      <4>1. i \notin NotMoreUrgent(l, t)
        BY <3>2, <3>4
      <4> QED
        BY <4>1, ThreadAssumption DEF NotMoreUrgent
    <3>6. \A i \in 1..Len(l) : i >= k => Prior[t] <= Prior[l[i]]
      BY <3>4, ThreadAssumption
    <3> QED
      BY <3>3, <3>4, <3>5, <3>6
  <2> QED
    BY <2>1, <2>2
<1> HIDE DEF pos
<1>2. m \in Seq(Thread) /\ Len(m) = Len(l) + 1 /\ DOMAIN m = 1..(Len(l) + 1)
  <2>1. \A i \in 1..(Len(l) + 1) : m[i] \in Thread
    BY <1>1
  <2> QED
    BY <2>1
<1>3. \A i, j \in 1..(Len(l) + 1) :
        i < j => m[i] # m[j] /\ Prior[m[i]] <= Prior[m[j]]
  <2> TAKE i, j \in 1..(Len(l) + 1)
  <2> HAVE i < j
  <2>1. CASE j < pos
    BY <2>1, <1>1
  <2>2. CASE i < pos /\ j = pos
    BY <2>2, <1>1, ThreadAssumption
  <2>3. CASE i < pos /\ j > pos
    BY <2>3, <1>1
  <2>4. CASE i = pos
    BY <2>4, <1>1
  <2>5. CASE i > pos
    BY <2>5, <1>1
  <2> QED
    BY <2>1, <2>2, <2>3, <2>4, <2>5, <1>1
<1>4. {m[i] : i \in 1..(Len(l) + 1)} = {l[i] : i \in DOMAIN l} \cup {t}
  <2>1. \A i \in 1..(Len(l) + 1) : m[i] \in {l[j] : j \in DOMAIN l} \cup {t}
    BY <1>1
  <2>2. m[pos] = t
    BY <1>1
  <2>3. ASSUME NEW i \in 1..Len(l)
        PROVE  l[i] \in {m[j] : j \in 1..(Len(l) + 1)}
    <3>1. CASE i < pos
      BY <3>1, <1>1
    <3>2. CASE i >= pos
      <4>1. i + 1 \in 1..(Len(l) + 1) /\ m[i + 1] = l[i]
        BY <3>2, <1>1
      <4> QED
        BY <4>1
    <3> QED
      BY <3>1, <3>2, <1>1
  <2>4. t \in {m[i] : i \in 1..(Len(l) + 1)}
    BY <2>2, <1>1
  <2>5. DOMAIN l = 1..Len(l)
    OBVIOUS
  <2> HIDE DEF m
  <2> QED
    BY <2>1, <2>3, <2>4, <2>5
<1>5. insert_by_prior(l, t) = m
  BY DEF insert_by_prior, pos
<1> HIDE DEF m
<1>6. m # <<>>
  BY <1>2
<1> QED
  BY <1>2, <1>3, <1>4, <1>5, <1>6

\* update_running_head() changes RUNN_HEAD only.
LEMMA RunningHeadProperties ==
  ASSUME NEW s \in Sched, NEW t \in Thread, s.list # <<>>
  PROVE  LET u == update_running_head(s, t)
         IN  /\ u \in Sched /\ u.list = s.list /\ u.state = s.state
             /\ u.runn = IF /\ s.state[t] = "RUNNING"
                            /\ s.runn = NULL \/ Prior[t] < Prior[s.runn]
                        THEN t ELSE s.list[1]
<1> DEFINE c == /\ s.state[t] = "RUNNING"
                /\ s.runn = NULL \/ Prior[t] < Prior[s.runn]
<1>1. s.list[1] \in Thread /\ LIST_HEAD(s.list) = s.list[1]
  BY DEF Sched, LIST_HEAD
<1>2. CASE c
  <2>1. update_running_head(s, t) = [s EXCEPT !.runn = t]
    BY <1>2 DEF update_running_head
  <2> QED
    BY <1>2, <2>1 DEF Sched
<1>3. CASE ~ c
  <2> DEFINE e == s.list[1]
  <2>1. update_running_head(s, t) = [s EXCEPT !.runn = e] /\ e \in Thread
    BY <1>1, <1>3 DEF update_running_head
  <2> HIDE DEF e
  <2>2. LET u == update_running_head(s, t)
        IN  u \in Sched /\ u.list = s.list /\ u.state = s.state /\ u.runn = e
    BY <2>1 DEF Sched
  <2> QED
    BY <1>3, <2>2 DEF e
<1> QED
  BY <1>2, <1>3

\* tfm_core_thrd_set_state() of a started thread preserves SchedInv: RUNN_HEAD
\* moves forward only to a thread in front of which nothing is RUNNING.
LEMMA SetStateProperties ==
  ASSUME NEW s \in Sched, SchedInv(s), NEW t \in Thread,
         s.state[t] # "CREATING", NEW st \in {"RUNNING", "BLOCK"}
  PROVE  LET u == tfm_core_thrd_set_state(s, t, st)
         IN  /\ u \in Sched
             /\ SchedInv(u)
             /\ u.list = s.list
             /\ u.state = [s.state EXCEPT ![t] = st]
<1> DEFINE r == [s EXCEPT !.state[t] = st]
           u == update_running_head(r, t)
<1>1. /\ r \in Sched /\ r.list = s.list /\ r.runn = s.runn
      /\ r.state = [s.state EXCEPT ![t] = st]
  BY DEF Sched, ThrdState
<1>2. PICK p \in DOMAIN s.list : s.list[p] = t
  BY DEF SchedInv, ListComplete
<1>3. PICK q \in DOMAIN s.list :
        /\ s.list[q] = s.runn
        /\ \A j \in 1..(q - 1) : s.state[s.list[j]] # "RUNNING"
  BY <1>2 DEF SchedInv, RunnHeadOK, Sched
<1> HIDE DEF r
<1>4. /\ u \in Sched /\ u.list = s.list /\ u.state = r.state
      /\ u.runn = IF st = "RUNNING" /\ Prior[t] < Prior[s.runn]
                  THEN t ELSE s.list[1]
  <2>1. /\ r.list # <<>> /\ s.runn # NULL
        /\ r.state[t] = "RUNNING" <=> st = "RUNNING"
    BY <1>1, <1>2, <1>3, ThreadAssumption DEF Sched
  <2>2. /\ u \in Sched /\ u.list = r.list /\ u.state = r.state
        /\ u.runn = IF /\ r.state[t] = "RUNNING"
                       /\ r.runn = NULL \/ Prior[t] < Prior[r.runn]
                   THEN t ELSE r.list[1]
    BY <1>1, <2>1, RunningHeadProperties
  <2> HIDE DEF u
  <2> QED
    BY <1>1, <2>1, <2>2
<1> HIDE DEF u
<1>5. ListSorted(u) /\ ListComplete(u)
  BY <1>1, <1>4 DEF SchedInv, ListSorted, ListComplete, Sched
<1>6. RunnHeadOK(u)
  <2>1. CASE st = "RUNNING" /\ Prior[t] < Prior[s.runn]
    <3>1. p < q
      BY <2>1, <1>2, <1>3, ThreadAssumption DEF SchedInv, ListSorted, Sched
    <3>2. \A j \in 1..(p - 1) : u.state[u.list[j]] # "RUNNING"
      BY <3>1, <1>1, <1>2, <1>3, <1>4 DEF SchedInv, ListSorted, Sched
    <3> QED
      BY <2>1, <3>2, <1>2, <1>4 DEF RunnHeadOK
  <2>2. CASE ~ (st = "RUNNING" /\ Prior[t] < Prior[s.runn])
    BY <2>2, <1>2, <1>4 DEF RunnHeadOK, Sched
  <2> QED
    BY <2>1, <2>2
<1> QED
  BY <1>1, <1>4, <1>5, <1>6 DEF tfm_core_thrd_set_state, SchedInv, r, u

\* tfm_core_thrd_start() of a new thread preserves SchedInv.
LEMMA StartProperties ==
  ASSUME NEW s \in Sched, SchedInv(s), NEW t \in Thread,
         s.state[t] = "CREATING"
  PROVE  LET u == tfm_core_thrd_start(s, t)
         IN  /\ u \in Sched
             /\ SchedInv(u)
             /\ u.state = [s.state EXCEPT ![t] = "RUNNING"]
<1> DEFINE m == insert_by_prior(s.list, t)
           r == [[s EXCEPT !.list = m] EXCEPT !.state[t] = "RUNNING"]
           u == update_running_head(r, t)
<1>1. \A i \in DOMAIN s.list : s.list[i] # t
  BY DEF SchedInv, ListComplete
<1>2. s.list \in Seq(Thread)
  BY DEF Sched
<1>3. \A i, j \in DOMAIN s.list :
        i < j => s.list[i] # s.list[j] /\ Prior[s.list[i]] <= Prior[s.list[j]]
  BY DEF SchedInv, ListSorted
<1>4. /\ m \in Seq(Thread)
      /\ m # <<>>
      /\ \A i, j \in DOMAIN m : i < j => /\ m[i] # m[j]
                                         /\ Prior[m[i]] <= Prior[m[j]]
      /\ {m[i] : i \in DOMAIN m} = {s.list[i] : i \in DOMAIN s.list} \cup {t}
  BY <1>1, <1>2, <1>3, InsertProperties
<1> HIDE DEF m
<1>5. /\ r \in Sched /\ r.list = m /\ r.runn = s.runn
      /\ r.state = [s.state EXCEPT ![t] = "RUNNING"]
  BY <1>4 DEF Sched, ThrdState
<1>6. PICK p \in DOMAIN m : m[p] = t
  <2>1. t \in {m[i] : i \in DOMAIN m}
    BY <1>4
  <2> QED
    BY <2>1
<1> HIDE DEF r
<1>7. /\ u \in Sched /\ u.list = m /\ u.state = r.state
      /\ u.runn = IF s.runn = NULL \/ Prior[t] < Prior[s.runn]
                  THEN t ELSE m[1]
  <2>1. r.list # <<>> /\ r.state[t] = "RUNNING"
    BY <1>4, <1>5 DEF Sched
  <2> QED
    BY <1>5, <2>1, RunningHeadProperties
<1> HIDE DEF u
<1>8. ListSorted(u)
  BY <1>4, <1>7 DEF ListSorted
<1>9. ListComplete(u)
  <2>1. \A v \in Thread : (\E i \in DOMAIN m : m[i] = v)
                           <=> v = t \/ \E i \in DOMAIN s.list : s.list[i] = v
    <3>1. \A v : v \in {m[i] : i \in DOMAIN m}
                 <=> v \in {s.list[i] : i \in DOMAIN s.list} \cup {t}
      BY <1>4
    <3> QED
      BY <3>1
  <2> QED
    BY <2>1, <1>5, <1>7 DEF SchedInv, ListComplete, Sched
<1>10. RunnHeadOK(u)
  <2>1. CASE s.list = <<>>
    <3>1. s.runn = NULL
      BY <2>1 DEF SchedInv, RunnHeadOK
    <3>2. \A i \in DOMAIN m : m[i] = t
      <4>1. \A i \in DOMAIN m : m[i] \in {t}
        BY <2>1, <1>4
      <4> QED
        BY <4>1
    <3>3. 1 \in DOMAIN m /\ m[1] = t
      BY <3>2, <1>4
    <3> QED
      BY <3>1, <3>3, <1>4, <1>7 DEF RunnHeadOK
  <2>2. CASE s.list # <<>> /\ Prior[t] < Prior[s.runn]
    <3>1. PICK q \in DOMAIN s.list :
            /\ s.list[q] = s.runn
            /\ \A j \in 1..(q - 1) : s.state[s.list[j]] # "RUNNING"
      BY <2>2 DEF SchedInv, RunnHeadOK
    <3>2. ASSUME NEW j \in 1..(p - 1)
          PROVE  u.state[u.list[j]] # "RUNNING"
      <4>1. j \in DOMAIN m /\ m[j] # t /\ Prior[m[j]] <= Prior[t]
        BY <1>4, <1>6, <3>2
      <4>2. m[j] \in {s.list[i] : i \in DOMAIN s.list} \cup {t}
        BY <1>4, <4>1
      <4>3. PICK k \in DOMAIN s.list : s.list[k] = m[j]
        BY <4>1, <4>2
      <4>4. k < q
        BY <4>1, <4>3, <3>1, <2>2, <1>2, <1>3, ThreadAssumption
      <4>5. s.state[m[j]] # "RUNNING"
        BY <4>3, <4>4, <3>1, <1>2
      <4> QED
        BY <4>1, <4>5, <4>3, <1>2, <1>5, <1>7 DEF Sched
    <3> QED
      BY <2>2, <3>2, <1>4, <1>6, <1>7 DEF RunnHeadOK
  <2>3. CASE s.list # <<>> /\ ~ (Prior[t] < Prior[s.runn])
    <3>1. s.runn \in Thread
      BY <2>3, <1>2 DEF SchedInv, RunnHeadOK
    <3> QED
      BY <3>1, <2>3, <1>4, <1>7, ThreadAssumption DEF RunnHeadOK
  <2> QED
    BY <2>1, <2>2, <2>3
<1> QED
  BY <1>5, <1>7, <1>8, <1>9, <1>10
     DEF tfm_core_thrd_start, tfm_core_thrd_set_state, SchedInv, m, r, u

\* The search of tfm_core_thrd_get_next_thread() returns a thread that no
\* RUNNING thread outranks.
LEMMA NextThreadProperties ==
  ASSUME NEW s \in Sched, SchedInv(s), NEW t \in Thread,
         s.state[t] = "RUNNING"
  PROVE  LET n == tfm_core_thrd_get_next_thread(s)
         IN  /\ n \in Thread
             /\ s.state[n] = "RUNNING"
             /\ Prior[n] <= Prior[t]
<1> DEFINE S == RunningFrom(s, s.runn)
<1>1. PICK p \in DOMAIN s.list : s.list[p] = t
  BY DEF SchedInv, ListComplete
<1>2. PICK q \in DOMAIN s.list :
        /\ s.list[q] = s.runn
        /\ \A j \in 1..(q - 1) : s.state[s.list[j]] # "RUNNING"
  BY <1>1 DEF SchedInv, RunnHeadOK, Sched
<1>3. q <= p
  BY <1>1, <1>2 DEF Sched
<1>4. p \in S
  BY <1>1, <1>2, <1>3 DEF RunningFrom, Sched
<1>5. S \in SUBSET Nat
  BY DEF RunningFrom, Sched
<1>6. Least(S) \in S /\ Least(S) <= p
  BY <1>4, <1>5, LeastProperties
<1>7. tfm_core_thrd_get_next_thread(s) = s.list[Least(S)]
  BY <1>4 DEF tfm_core_thrd_get_next_thread, find_next_running_thread
<1> DEFINE k == Least(S)
<1> HIDE DEF k
<1>8. k \in DOMAIN s.list /\ s.state[s.list[k]] = "RUNNING" /\ k <= p
  BY <1>6 DEF RunningFrom, k
<1>9. s.list[k] \in Thread /\ Prior[s.list[k]] <= Prior[t]
  BY <1>1, <1>8, ThreadAssumption DEF SchedInv, ListSorted, Sched
<1> QED
  BY <1>7, <1>8, <1>9 DEF k

\* When the search returns nothing no thread is RUNNING.
LEMMA NoNextThread ==
  ASSUME NEW s \in Sched, SchedInv(s), tfm_core_thrd_get_next_thread(s) = NULL
  PROVE  \A t \in Thread : s.state[t] # "RUNNING"
BY NextThreadProperties, ThreadAssumption

\* The search returns a RUNNING thread or nothing.
LEMMA NextIsRunning ==
  ASSUME NEW s \in Sched
  PROVE  LET n == tfm_core_thrd_get_next_thread(s)
         IN  n = NULL \/ (n \in Thread /\ s.state[n] = "RUNNING")
<1> DEFINE S == RunningFrom(s, s.runn)
<1>1. /\ S \in SUBSET Nat
      /\ \A i \in S : s.list[i] \in Thread /\ s.state[s.list[i]] = "RUNNING"
  BY DEF RunningFrom, Sched
<1>2. CASE S = {}
  BY <1>2 DEF tfm_core_thrd_get_next_thread, find_next_running_thread
<1>3. CASE S # {}
  <2>1. Least(S) \in S
    BY <1>1, <1>3, LeastProperties
  <2> QED
    BY <1>1, <1>3, <2>1
       DEF tfm_core_thrd_get_next_thread, find_next_running_thread
<1> QED
  BY <1>2, <1>3

\* The invariant holds before the first thread is started.
LEMMA ThrdInitInv == ThrdInit => ThrdInv
<1> SUFFICES ASSUME ThrdInit PROVE ThrdInv
  OBVIOUS
<1>1. ThrdTypeOK
  <2>1. sched \in Sched
    BY DEF ThrdInit, Sched, ThrdState
  <2> QED
    BY <2>1, Zenon DEF ThrdInit, ThrdTypeOK
<1>2. /\ sched.list = <<>> /\ sched.runn = NULL
      /\ \A t \in Thread : sched.state[t] = "CREATING"
  BY DEF ThrdInit
<1>3. SchedInv(sched)
  BY <1>2 DEF SchedInv, ListSorted, ListComplete, RunnHeadOK
<1> QED
  BY <1>1, <1>3 DEF ThrdInit, ThrdInv

\* The scheduler's data structure is well formed in every reachable state of
\* tfm_thread.c: type, order and completeness of the list, place of RUNN_HEAD.
THEOREM ThrdInvariant == ThrdSpec => []ThrdInv
<1>1. ThrdInit => ThrdInv
  BY ThrdInitInv
<1>2. ThrdInv /\ [ThrdNext]_thrdVars => ThrdInv'
  <2> SUFFICES ASSUME ThrdInv, [ThrdNext]_thrdVars PROVE ThrdInv'
    OBVIOUS
  <2> USE DEF ThrdInv, ThrdTypeOK
  <2>1. ASSUME NEW t \in Thread, Start(t) PROVE ThrdInv'
    <3>1. /\ sched' \in Sched /\ SchedInv(sched')
      BY <2>1, StartProperties DEF Start
    <3> QED
      BY <2>1, <3>1 DEF Start
  <2>2. ASSUME NEW t \in Thread, tfm_core_thrd_start_scheduler(t)
        PROVE  ThrdInv'
    <3>1. sched.state[t] # "CREATING"
      BY <2>2 DEF tfm_core_thrd_start_scheduler, Started, SchedInv, ListComplete
    <3> QED
      BY <2>2, <3>1 DEF tfm_core_thrd_start_scheduler
  <2>3. CASE EventWait
    <3>1. curr \in Thread /\ sched.state[curr] # "CREATING"
      BY <2>3 DEF EventWait
    <3>2. /\ sched' \in Sched /\ SchedInv(sched')
          /\ sched'.state = [sched.state EXCEPT ![curr] = "BLOCK"]
      BY <2>3, <3>1, SetStateProperties DEF EventWait
    <3> QED
      BY <2>3, <3>1, <3>2 DEF EventWait, Sched
  <2>4. ASSUME NEW t \in Thread, EventWake(t) PROVE ThrdInv'
    <3>1. /\ sched' \in Sched /\ SchedInv(sched')
          /\ sched'.state = [sched.state EXCEPT ![t] = "RUNNING"]
      BY <2>4, SetStateProperties DEF EventWake
    <3> QED
      BY <2>4, <3>1 DEF EventWake, Sched
  <2>5. CASE PendSV
    <3>1. NextThread \in Thread \cup {NULL}
      BY NextIsRunning DEF NextThread
    <3>2. NextThread # NULL => sched.state[NextThread] = "RUNNING"
      BY NextIsRunning DEF NextThread
    <3> QED
      BY <2>5, <3>1, <3>2 DEF PendSV
  <2>6. CASE UNCHANGED thrdVars
    BY <2>6 DEF thrdVars
  <2> QED
    BY <2>1, <2>2, <2>3, <2>4, <2>5, <2>6 DEF ThrdNext
<1> QED
  BY <1>1, <1>2, PTL DEF ThrdSpec

\* Whatever the threads and their priorities, the search from RUNN_HEAD finds
\* a RUNNING thread that no other RUNNING thread outranks.
THEOREM SchedulerPicksMostUrgent == ThrdSpec => []PicksMostUrgent
<1>1. ThrdInv => PicksMostUrgent
  <2> SUFFICES ASSUME ThrdInv, NEW t \in Thread, sched.state[t] = "RUNNING"
               PROVE  /\ NextThread # NULL
                      /\ sched.state[NextThread] = "RUNNING"
                      /\ Prior[NextThread] <= Prior[t]
    BY DEF PicksMostUrgent
  <2> QED
    BY NextThreadProperties, ThreadAssumption DEF NextThread, ThrdInv, ThrdTypeOK
<1> QED
  BY <1>1, ThrdInvariant, PTL

\* A context switch never takes the processor from a RUNNING thread to give it
\* to a less urgent one.
THEOREM SchedulerSwitches == ThrdSpec => SwitchesUpOrAway
<1> DEFINE Step == curr # NULL /\ curr' # curr =>
                     /\ sched.state[curr'] = "RUNNING"
                     /\ sched.state[curr] = "RUNNING" =>
                          Prior[curr'] <= Prior[curr]
<1>1. ThrdInv /\ [ThrdNext]_thrdVars => [Step]_thrdVars
  <2> SUFFICES ASSUME ThrdInv, ThrdNext, curr # NULL, curr' # curr PROVE Step
    OBVIOUS
  <2>1. PendSV
    BY DEF ThrdNext, Start, tfm_core_thrd_start_scheduler, EventWait, EventWake
  <2>2. NextThread # NULL /\ curr' = NextThread
    BY <2>1 DEF PendSV
  <2>3. sched.state[NextThread] = "RUNNING"
    BY <2>2, NextIsRunning DEF NextThread, ThrdInv, ThrdTypeOK
  <2>4. sched.state[curr] = "RUNNING" => Prior[NextThread] <= Prior[curr]
    BY NextThreadProperties DEF NextThread, ThrdInv, ThrdTypeOK
  <2> QED
    BY <2>2, <2>3, <2>4
<1> QED
  BY <1>1, ThrdInvariant, PTL DEF ThrdSpec, SwitchesUpOrAway
=============================================================================
