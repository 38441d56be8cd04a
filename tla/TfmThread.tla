----------------------------- MODULE TfmThread -----------------------------
(***************************************************************************)
(* The thread scheduler of the IPC-model secure partition manager:         *)
(* tfm_thread.c (the priority-sorted thread list, the RUNN_HEAD shortcut   *)
(* and the context switch of PendSV) and the thread side of tfm_wait.c     *)
(* (an event blocks the calling thread and wakes its owner).               *)
(*                                                                         *)
(* The scheduler's data is the record sched:                               *)
(*   list  - the chain from LIST_HEAD through the next pointers;           *)
(*   state - pth->state of every thread;                                   *)
(*   runn  - RUNN_HEAD, where the search for the next thread begins.       *)
(* Its operations are written as operators from such a record to such a    *)
(* record, because one exception handler calls several of them before any  *)
(* other code runs.                                                        *)
(***************************************************************************)
EXTENDS Naturals, Sequences

CONSTANTS
  Thread,   \* the threads, one per IPC partition
  Prior,    \* pth->prior: a lower value is a higher priority
  NULL      \* the null pointer

ASSUME ThreadAssumption ==
  /\ Prior \in [Thread -> Nat]
  /\ NULL \notin Thread

VARIABLES
  sched,    \* the thread list, the thread states and RUNN_HEAD
  curr,     \* CURR_THRD, NULL until the scheduler is started
  pendsv    \* the PendSV exception is pending

thrdVars == <<sched, curr, pendsv>>

ThrdState == {"CREATING", "RUNNING", "BLOCK"}

Sched == [list: Seq(Thread), state: [Thread -> ThrdState],
          runn: Thread \cup {NULL}]

LIST_HEAD(l) == IF l = <<>> THEN NULL ELSE l[1]

Least(S) == CHOOSE i \in S : \A j \in S : i <= j
-----------------------------------------------------------------------------
(* The thread list. *)

\* Positions of the RUNNING threads at or after pth in the list.
RunningFrom(s, pth) ==
  {i \in DOMAIN s.list : /\ s.state[s.list[i]] = "RUNNING"
                         /\ \E j \in 1..i : s.list[j] = pth}

find_next_running_thread(s, pth) ==
  IF RunningFrom(s, pth) = {} THEN NULL
  ELSE s.list[Least(RunningFrom(s, pth))]

tfm_core_thrd_get_next_thread(s) == find_next_running_thread(s, s.runn)

\* The node goes in front of the first thread that is not more urgent.
NotMoreUrgent(l, pth) == {i \in DOMAIN l : Prior[pth] <= Prior[l[i]]}

\* Mutant: a new thread is always put at the head of the list.
insert_at_head(l, pth) == <<pth>> \o l

insert_by_prior(l, pth) ==
  LET pos == IF NotMoreUrgent(l, pth) = {} THEN Len(l) + 1
             ELSE Least(NotMoreUrgent(l, pth))
  IN  [i \in 1..(Len(l) + 1) |->
         IF i < pos THEN l[i] ELSE IF i = pos THEN pth ELSE l[i - 1]]

\* Mutant: RUNN_HEAD always follows the woken thread.
update_running_head_follow(s, node) ==
  IF s.state[node] = "RUNNING" THEN [s EXCEPT !.runn = node]
  ELSE [s EXCEPT !.runn = LIST_HEAD(s.list)]

update_running_head(s, node) ==
  IF /\ s.state[node] = "RUNNING"
     /\ \/ s.runn = NULL
        \/ Prior[node] < Prior[s.runn]
  THEN [s EXCEPT !.runn = node]
  ELSE [s EXCEPT !.runn = LIST_HEAD(s.list)]

tfm_core_thrd_set_state(s, pth, new_state) ==
  update_running_head([s EXCEPT !.state[pth] = new_state], pth)

tfm_core_thrd_start(s, pth) ==
  tfm_core_thrd_set_state([s EXCEPT !.list = insert_by_prior(@, pth)],
                          pth, "RUNNING")
-----------------------------------------------------------------------------
(* The operations that change the scheduler's state. *)

Started == {sched.list[i] : i \in DOMAIN sched.list}

ThrdInit ==
  /\ sched = [list |-> <<>>, state |-> [t \in Thread |-> "CREATING"],
              runn |-> NULL]
  /\ curr = NULL
  /\ pendsv = FALSE

\* tfm_spm_init() initialises and kicks off a partition's thread.
Start(t) ==
  /\ curr = NULL
  /\ sched.state[t] = "CREATING"
  /\ sched' = tfm_core_thrd_start(sched, t)
  /\ UNCHANGED <<curr, pendsv>>

tfm_core_thrd_start_scheduler(t) ==
  /\ curr = NULL
  /\ t \in Started
  /\ curr' = t
  /\ pendsv' = TRUE
  /\ UNCHANGED sched

\* tfm_event_wait(): the current thread blocks and a switch is requested.
EventWait ==
  /\ curr # NULL
  /\ sched' = tfm_core_thrd_set_state(sched, curr, "BLOCK")
  /\ pendsv' = TRUE
  /\ UNCHANGED curr

\* tfm_event_wake() of an event whose owner is blocked.
EventWake(t) ==
  /\ curr # NULL
  /\ sched.state[t] = "BLOCK"
  /\ sched' = tfm_core_thrd_set_state(sched, t, "RUNNING")
  /\ pendsv' = TRUE
  /\ UNCHANGED curr

\* tfm_pendsv_do_schedule(): with no RUNNING thread there is no switch and the
\* current thread goes on, whatever its state.
NextThread == tfm_core_thrd_get_next_thread(sched)

PendSV ==
  /\ pendsv
  /\ pendsv' = FALSE
  /\ curr' = IF NextThread = NULL THEN curr ELSE NextThread
  /\ UNCHANGED sched

ThrdNext ==
  \/ \E t \in Thread : Start(t)
  \/ \E t \in Thread : tfm_core_thrd_start_scheduler(t)
  \/ EventWait
  \/ \E t \in Thread : EventWake(t)
  \/ PendSV

ThrdSpec == ThrdInit /\ [][ThrdNext]_thrdVars
-----------------------------------------------------------------------------
(* Properties. *)

\* The list, the thread states and CURR_THRD hold values of their types.
ThrdTypeOK ==
  /\ sched \in Sched
  /\ curr \in Thread \cup {NULL}
  /\ pendsv \in BOOLEAN

\* The list holds each started thread once, by descending urgency, and
\* RUNN_HEAD is a thread of the list with no RUNNING thread in front of it.
ListSorted(s) ==
  \A i, j \in DOMAIN s.list :
    i < j => /\ s.list[i] # s.list[j]
             /\ Prior[s.list[i]] <= Prior[s.list[j]]

ListComplete(s) ==
  \A t \in Thread :
    s.state[t] # "CREATING" <=> \E i \in DOMAIN s.list : s.list[i] = t

RunnHeadOK(s) ==
  /\ s.list # <<>> => \E i \in DOMAIN s.list :
       /\ s.list[i] = s.runn
       /\ \A j \in 1..(i - 1) : s.state[s.list[j]] # "RUNNING"
  /\ s.list = <<>> => s.runn = NULL

SchedInv(s) == ListSorted(s) /\ ListComplete(s) /\ RunnHeadOK(s)

\* The inductive invariant of the scheduler; the current thread is one that
\* was started.
ThrdInv ==
  /\ ThrdTypeOK
  /\ SchedInv(sched)
  /\ curr # NULL => sched.state[curr] # "CREATING"

\* The comment in tfm_core_thrd_get_next_thread() says that the thread found
\* first has the highest priority: no RUNNING thread anywhere is more urgent
\* than the one the search from RUNN_HEAD returns, and the search comes back
\* empty only when no thread is RUNNING.
PicksMostUrgent ==
  \A t \in Thread : sched.state[t] = "RUNNING" =>
    /\ NextThread # NULL
    /\ sched.state[NextThread] = "RUNNING"
    /\ Prior[NextThread] <= Prior[t]

\* No RUNNING thread is more urgent than the one that has the processor, unless
\* the switch is pending: whatever makes a thread RUNNING also pends PendSV.
UrgentRuns ==
  curr # NULL /\ ~pendsv =>
    \A t \in Thread : sched.state[t] = "RUNNING" => Prior[curr] <= Prior[t]

\* A context switch goes to a RUNNING thread, and never from a RUNNING thread
\* to a less urgent one: a thread loses the processor only by blocking or to a
\* thread at least as urgent as itself.
SwitchesUpOrAway ==
  [][curr # NULL /\ curr' # curr =>
       /\ sched.state[curr'] = "RUNNING"
       /\ sched.state[curr] = "RUNNING" => Prior[curr'] <= Prior[curr]]_thrdVars
=============================================================================
