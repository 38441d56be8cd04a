--------------------------- MODULE MailboxProofs ---------------------------
(***************************************************************************)
(* Proofs about the dual-core mailbox (module Mailbox), for every number   *)
(* of slots, set of tasks and set of client calls: its safety invariants,  *)
(* and that it implements the remote procedure calls of module Rpc.        *)
(*                                                                         *)
(* The argument.  A slot that is not empty belongs to one task.  From the  *)
(* moment the task has filled it until the reply is read the slot names    *)
(* its owner, and the two agree on the message (OwnerInv).  Whatever the   *)
(* secure core or an interrupt handler works on is a slot whose owner      *)
(* waits (WorkInv), and a slot passes the stages pending, dispatched,      *)
(* answered, replied, woken one after the other (StageInv, SpeInv), the    *)
(* answer being the one to the message in the slot (AnswerInv).  The       *)
(* semaphore counts the tasks in a client call (CountInv), and as every    *)
(* slot that is not empty belongs to one of them, a task that passed it    *)
(* finds an empty slot.                                                    *)
(***************************************************************************)
EXTENDS Mailbox, TLAPS, FiniteSetTheorems

\* Where a task is in its client call, its request, slot and answer.
TaskState == [pc: TaskPc, req: Message, idx: Slot, got: Word]

\* Where a task owns the slot it has, waits for the answer in it, and reads it.
Waiting == {"notify", "wait", "check"}
Owning == Waiting \cup {"pend", "rx"}

\* The owner field of a slot: it names the task that filled the slot and has
\* not read the reply yet, and the message in the slot is the one it sent.
OwnerInv ==
  /\ \A i \in Slot : owner[i] # NULL =>
       /\ task[owner[i]].idx = i
       /\ task[owner[i]].pc \in Owning
       /\ msg[i] = task[owner[i]].req
  /\ \A t \in Task : task[t].pc \in Owning => owner[task[t].idx] = t
  /\ \A t \in Task : task[t].pc = "clear" => msg[task[t].idx] = task[t].req

\* The secure core and the reply interrupt work only on slots whose owner waits
\* for the answer: no status bit outlives the call it belongs to.
WorkInv ==
  \A i \in pend \cup spm \cup replied \cup spe.replies :
    owner[i] # NULL /\ task[owner[i]].pc \in Waiting

\* A woken mark belongs to a task that waits for the reply or reads it; a task
\* reads a reply only under that mark.
WokenInv ==
  /\ \A i \in Slot : woken[i] =>
       \E t \in Task : task[t].idx = i /\ task[t].pc \in Waiting \cup {"rx", "clear"}
  /\ \A t \in Task : task[t].pc \in {"rx", "clear"} => woken[task[t].idx]

\* The stages of a slot exclude each other.  During one turn of
\* tfm_mailbox_handle_msg() a slot is still marked as pending after its message
\* has been dispatched, so there pending means "taken and done in this turn".
StageInv ==
  /\ \A i \in replied : ~woken[i] /\ i \notin pend \cup spm \cup spe.replies
  /\ \A i \in pend \cup spm \cup spe.replies : ~woken[i]
  /\ \A i \in spm : i \notin spe.replies
  /\ \A i \in spm : i \in pend => i \in spe.snap \ spe.todo
  /\ \A i \in spe.replies : i \in pend => i \in spe.snap \ spe.todo

\* What the secure side remembers of the turn it is in, and the reply interrupt
\* of the replies it found: only slots that still have that status.
SpeInv ==
  /\ spe.snap \subseteq pend /\ spe.todo \subseteq spe.snap
  /\ spe.pc # "loop" => spe.snap = {}
  /\ spe.pc = "loop" => spe.replies \subseteq spe.snap
  /\ spe.pc \in {"idle", "notify"} => spe.replies = {}
  /\ isr.pc = "move" => isr.snap # {} /\ isr.snap \subseteq replied

\* The answer in an answered slot, and the copy of an accepted message, are
\* those of the message in the non-secure queue.
AnswerInv ==
  /\ ReplyMatches
  /\ \A i \in spm : speMsg[i] = msg[i]

\* The tasks in a client call.
Active == {t \in Task : task[t].pc # "idle"}

\* Each task in a client call has taken the semaphore once, and every slot is
\* empty or some task has it: no slot is lost.
CountInv ==
  /\ IsFiniteSet(Active)
  /\ Cardinality(Active) + sema = NumSlot
  /\ \A i \in Slot : i \in empty \/ \E t \in Task : Holds(t, i)

\* The inductive invariant.
MailboxIInv ==
  /\ MailboxInv
  /\ OwnerInv
  /\ WorkInv
  /\ WokenInv
  /\ StageInv
  /\ SpeInv
  /\ AnswerInv
  /\ NoLostWakeup
  /\ CountInv
-----------------------------------------------------------------------------
\* The loops over the status bits find a slot whose bit is set.
LEMMA FirstProperties ==
  ASSUME NEW S \in SUBSET Slot, S # {}
  PROVE  First(S) \in S
<1> DEFINE Less == {ss \in Nat \X Nat : ss[1] < ss[2]}
<1>1. OpToRel(<, Nat) = Less
  BY DEF OpToRel
<1>2. IsWellFoundedOn(Less, Nat)
  BY <1>1, NatLessThanWellFounded
<1> HIDE DEF Less
<1>3. S \subseteq Nat
  BY MailboxAssumption DEF Slot
<1>4. \E x \in S : \A y \in S : ~ (<<y, x>> \in Less)
  BY <1>2, <1>3, WFMin
<1>5. \E x \in S : \A y \in S : x <= y
  <2>1. \A x, y \in Nat : ~ (<<y, x>> \in Less) => x <= y
    BY DEF Less
  <2> QED
    BY <1>3, <1>4, <2>1
<1> QED
  BY <1>5, Zenon DEF First

\* A step of a task within its call changes this task only.
LEMMA GotoProperties ==
  ASSUME MailboxTypeOK, NEW t \in Task, NEW pc \in TaskPc, Goto(t, pc)
  PROVE  /\ task' \in [Task -> TaskState]
         /\ \A u \in Task : u # t => task'[u] = task[u]
         /\ task'[t].pc = pc /\ task'[t].idx = task[t].idx
         /\ task'[t].req = task[t].req /\ task'[t].got = task[t].got
<1>1. \A s \in TaskState : /\ [s EXCEPT !.pc = pc] \in TaskState
                           /\ [s EXCEPT !.pc = pc].pc = pc
                           /\ [s EXCEPT !.pc = pc].idx = s.idx
                           /\ [s EXCEPT !.pc = pc].req = s.req
                           /\ [s EXCEPT !.pc = pc].got = s.got
  BY DEF TaskState
<1>2. task \in [Task -> TaskState]
  BY DEF MailboxTypeOK, TaskState
<1> QED
  BY <1>1, <1>2 DEF Goto

\* The semaphore still counts the calls when none begins or ends.
LEMMA ActiveSame ==
  ASSUME CountInv, sema' = sema,
         \A u \in Task : task'[u].pc = "idle" <=> task[u].pc = "idle",
         \A i \in Slot : i \in empty' \/ \E u \in Task : Holds(u, i)'
  PROVE  CountInv'
<1>1. Active' = Active
  BY DEF Active
<1> QED
  BY <1>1 DEF CountInv

\* The tasks in a call outnumber the slots that are taken: the map from a slot
\* to the task that has it is an injection into the other active tasks.
LEMMA NeverFullHolds == MailboxIInv => NeverFull
<1> SUFFICES ASSUME MailboxIInv, NEW t \in Task, task[t].pc = "slot", empty = {}
             PROVE  FALSE
  BY DEF NeverFull
<1>0. MailboxTypeOK /\ MailboxInv /\ CountInv
  BY DEF MailboxIInv, MailboxInv
<1> DEFINE f == [i \in Slot |-> CHOOSE u \in Task : Holds(u, i)]
           others == Active \ {t}
<1>1. \A i \in Slot : f[i] \in Task /\ Holds(f[i], i)
  BY <1>0 DEF CountInv
<1> HIDE DEF f
<1>2. \A i \in Slot : f[i] \in others
  BY <1>1 DEF Holds, Active
<1>3. \A i, j \in Slot : f[i] = f[j] => i = j
  BY <1>1 DEF Holds
<1>4. f \in Injection(Slot, others)
  BY <1>2, <1>3 DEF f, Injection, IsInjective
<1>5. IsFiniteSet(others) /\ Cardinality(others) = Cardinality(Active) - 1
  <2>1. t \in Active
    BY DEF Active
  <2> QED
    BY <1>0, <2>1, FS_RemoveElement DEF CountInv
<1>6. Cardinality(Slot) <= Cardinality(others)
  BY <1>4, <1>5, FS_Injection
<1>7. Cardinality(Slot) = NumSlot
  BY MailboxAssumption, FS_Interval DEF Slot
<1>8. Cardinality(Active) \in Nat /\ sema \in Nat
  BY <1>0, FS_CardinalityType, MailboxAssumption DEF CountInv, MailboxTypeOK
<1> QED
  BY <1>0, <1>5, <1>6, <1>7, <1>8, MailboxAssumption DEF CountInv

\* tfm_ns_multi_core_lock_acquire(): one more task in a call.
LEMMA AcquireStep ==
  ASSUME MailboxIInv, NEW t \in Task, NEW kind \in Kinds, Acquire(t, kind)
  PROVE  MailboxIInv'
<1>0. MailboxTypeOK /\ MailboxInv /\ task[t] \in TaskState /\ task[t].pc = "idle"
  BY DEF MailboxIInv, MailboxInv, MailboxTypeOK, TaskState, Acquire, At
<1> DEFINE m == [from |-> t, type |-> kind, num |-> task[t].req.num + 1]
<1>1. m \in Message
  BY <1>0, MailboxAssumption DEF TaskState, Message, Acquire
<1>2. task' = [task EXCEPT ![t].pc = "slot", ![t].req = m]
  BY DEF Acquire
<1> HIDE DEF m
<1>3. /\ task' \in [Task -> TaskState]
      /\ \A u \in Task : u # t => task'[u] = task[u]
      /\ task'[t].pc = "slot" /\ task'[t].idx = task[t].idx
  BY <1>0, <1>1, <1>2 DEF MailboxTypeOK, TaskState, TaskPc
<1>4. MailboxTypeOK'
  BY <1>0, <1>3, MailboxAssumption
     DEF MailboxTypeOK, TaskState, Acquire, queueVars, isrVars, speVars
<1> USE DEF Acquire, queueVars, isrVars, speVars
<1>5. MailboxInv'
  BY <1>0, <1>3, <1>4 DEF MailboxInv, Holds
<1>6. OwnerInv'
  BY <1>0, <1>3 DEF MailboxIInv, MailboxTypeOK, OwnerInv, Owning, Waiting
<1>7. WorkInv'
  BY <1>0, <1>3 DEF MailboxIInv, MailboxTypeOK, WorkInv, Waiting
<1>8. WokenInv'
  BY <1>0, <1>3 DEF MailboxIInv, MailboxTypeOK, WokenInv, Waiting
<1>9. StageInv' /\ SpeInv' /\ AnswerInv'
  BY DEF MailboxIInv, StageInv, SpeInv, AnswerInv, ReplyMatches, Answered
<1>10. NoLostWakeup'
  BY <1>0, <1>3 DEF MailboxIInv, NoLostWakeup, Waits
<1>11. CountInv'
  <2>1. Active' = Active \cup {t} /\ t \notin Active
    BY <1>0, <1>3 DEF Active
  <2>2. IsFiniteSet(Active') /\ Cardinality(Active') = Cardinality(Active) + 1
    BY <2>1, FS_AddElement DEF MailboxIInv, CountInv
  <2>3. \A i \in Slot : i \in empty' \/ \E u \in Task : Holds(u, i)'
    BY <1>0, <1>3 DEF MailboxIInv, CountInv, Holds
  <2>4. Cardinality(Active) \in Nat /\ sema \in Nat /\ NumSlot \in Nat
    BY <1>0, FS_CardinalityType, MailboxAssumption
       DEF MailboxIInv, CountInv, MailboxTypeOK
  <2> QED
    BY <2>2, <2>3, <2>4 DEF MailboxIInv, CountInv
<1> QED
  BY <1>5, <1>6, <1>7, <1>8, <1>9, <1>10, <1>11 DEF MailboxIInv

\* acquire_empty_slot(): the slot changes from empty to one task.
LEMMA EmptySlotStep ==
  ASSUME MailboxIInv, NEW t \in Task, acquire_empty_slot(t)
  PROVE  MailboxIInv'
<1>0. MailboxTypeOK /\ MailboxInv /\ task[t] \in TaskState /\ task[t].pc = "slot"
  BY DEF MailboxIInv, MailboxInv, MailboxTypeOK, TaskState, acquire_empty_slot, At
<1> DEFINE i == First(empty)
<1>1. empty # {} /\ i \in empty
  BY <1>0, NeverFullHolds, FirstProperties DEF MailboxTypeOK, NeverFull
<1>2. /\ task' = [task EXCEPT ![t].pc = "fill", ![t].idx = i]
      /\ empty' = empty \ {i}
  BY <1>1 DEF acquire_empty_slot, clear_queue_slot_empty
<1> HIDE DEF i
<1>3. /\ task' \in [Task -> TaskState]
      /\ \A u \in Task : u # t => task'[u] = task[u]
      /\ task'[t].pc = "fill" /\ task'[t].idx = i
  BY <1>0, <1>1, <1>2 DEF MailboxTypeOK, TaskState, TaskPc
<1>4. UNCHANGED <<pend, replied, msg, reply, owner, woken, sema, flags, isr,
                  toSpe, toNs, pendsv, spe, speMsg, spm>>
  BY DEF acquire_empty_slot, queueVars, isrVars, speVars
<1>5. MailboxTypeOK'
  BY <1>0, <1>2, <1>3, <1>4 DEF MailboxTypeOK, TaskState
<1>6. MailboxInv'
  <2>1. \A u \in Task : \A j \in empty' : ~Holds(u, j)'
    BY <1>0, <1>2, <1>3 DEF MailboxInv, Holds
  <2>2. \A u \in Task : ~Holds(u, i)
    BY <1>0, <1>1 DEF MailboxInv
  <2>3. \A u \in Task : \A j \in Slot : Holds(u, j)' <=> Holds(u, j) \/ (u = t /\ j = i)
    BY <1>0, <1>3 DEF Holds
  <2> QED
    BY <1>0, <1>5, <2>1, <2>2, <2>3 DEF MailboxInv
<1>7. OwnerInv'
  BY <1>0, <1>3, <1>4 DEF MailboxIInv, MailboxTypeOK, OwnerInv, Owning, Waiting
<1>8. WorkInv'
  BY <1>0, <1>3, <1>4 DEF MailboxIInv, MailboxTypeOK, WorkInv, Waiting
<1>9. WokenInv'
  BY <1>0, <1>3, <1>4 DEF MailboxIInv, MailboxTypeOK, WokenInv, Waiting
<1>10. StageInv' /\ SpeInv' /\ AnswerInv'
  BY <1>4 DEF MailboxIInv, StageInv, SpeInv, AnswerInv, ReplyMatches, Answered
<1>11. NoLostWakeup'
  BY <1>0, <1>3, <1>4 DEF MailboxIInv, NoLostWakeup, Waits
<1>12. CountInv'
  <2>1. \A j \in Slot : j \in empty' \/ \E u \in Task : Holds(u, j)'
    BY <1>0, <1>2, <1>3 DEF MailboxIInv, CountInv, Holds
  <2> QED
    BY <1>0, <1>3, <1>4, <2>1, ActiveSame DEF MailboxIInv
<1> QED
  BY <1>6, <1>7, <1>8, <1>9, <1>10, <1>11, <1>12 DEF MailboxIInv

\* tfm_ns_mailbox_tx_client_req() fills a slot that nobody else works on.
LEMMA FillStep ==
  ASSUME MailboxIInv, NEW t \in Task, FillMessage(t)
  PROVE  MailboxIInv'
<1> DEFINE i == task[t].idx
<1>0. /\ MailboxTypeOK /\ MailboxInv
      /\ task[t] \in TaskState /\ task[t].pc = "fill" /\ i \in Slot
  BY DEF MailboxIInv, MailboxInv, MailboxTypeOK, TaskState, FillMessage, At
<1>1. /\ task' \in [Task -> TaskState]
      /\ \A u \in Task : u # t => task'[u] = task[u]
      /\ task'[t].pc = "pend" /\ task'[t].idx = i /\ task'[t].req = task[t].req
  BY <1>0, GotoProperties DEF FillMessage, TaskPc
<1>2. /\ msg' = [msg EXCEPT ![i] = task[t].req]
      /\ owner' = [owner EXCEPT ![i] = t]
      /\ UNCHANGED <<empty, pend, replied, reply, woken, sema, flags, isr,
                     toSpe, toNs, pendsv, spe, speMsg, spm>>
  BY DEF FillMessage, queueVars, isrVars, speVars
<1>3. MailboxTypeOK'
  <2>1. msg' \in [Slot -> Word]
    BY <1>0, <1>2 DEF MailboxTypeOK, TaskState, Word
  <2> QED
    BY <1>0, <1>1, <1>2, <2>1 DEF MailboxTypeOK, TaskState
<1>4. MailboxInv'
  BY <1>0, <1>1, <1>2, <1>3 DEF MailboxInv, Holds
\* Nobody works on the slot of a task that has not sent its message yet.
<1>5. /\ \A u \in Task : task[u].pc \in Owning \cup {"clear"} => task[u].idx # i
      /\ i \notin pend \cup spm \cup replied \cup spe.replies /\ ~woken[i]
  <2>1. \A u \in Task : task[u].pc \in Owning \cup {"clear"} => task[u].idx # i
    BY <1>0 DEF MailboxInv, Holds, Owning, Waiting
  <2>2. owner[i] = NULL
    BY <1>0, <2>1 DEF MailboxIInv, OwnerInv, MailboxTypeOK
  <2>3. i \notin pend \cup spm \cup replied \cup spe.replies
    BY <2>2 DEF MailboxIInv, WorkInv
  <2>4. ~woken[i]
    BY <1>0, <2>1 DEF MailboxIInv, WokenInv, Owning
  <2> QED
    BY <2>1, <2>3, <2>4
<1> HIDE DEF i
<1>6. OwnerInv'
  <2>1. \A j \in Slot : j # i => owner'[j] = owner[j] /\ msg'[j] = msg[j]
    BY <1>0, <1>2 DEF MailboxTypeOK
  <2>2. owner'[i] = t /\ msg'[i] = task[t].req
    BY <1>0, <1>2 DEF MailboxTypeOK
  <2>3. \A j \in Slot : j # i /\ owner[j] # NULL => owner[j] \in Task /\ owner[j] # t
    BY <1>0 DEF MailboxIInv, MailboxTypeOK, OwnerInv, Owning, Waiting
  <2>4. \A j \in Slot : owner'[j] # NULL =>
          /\ task'[owner'[j]].idx = j
          /\ task'[owner'[j]].pc \in Owning
          /\ msg'[j] = task'[owner'[j]].req
    BY <1>0, <1>1, <2>1, <2>2, <2>3 DEF MailboxIInv, OwnerInv, Owning
  <2>5. \A u \in Task : task'[u].pc \in Owning => owner'[task'[u].idx] = u
    BY <1>0, <1>1, <1>5, <2>1, <2>2 DEF MailboxIInv, MailboxTypeOK, OwnerInv
  <2>6. \A u \in Task : task'[u].pc = "clear" => msg'[task'[u].idx] = task'[u].req
    BY <1>0, <1>1, <1>5, <2>1 DEF MailboxIInv, MailboxTypeOK, OwnerInv
  <2> QED
    BY <2>4, <2>5, <2>6 DEF OwnerInv
<1>7. WorkInv'
  BY <1>0, <1>1, <1>2, <1>5 DEF MailboxIInv, MailboxTypeOK, WorkInv, Waiting
<1>8. WokenInv'
  <2>1. \A j \in Slot : woken[j] => \E u \in Task : /\ task'[u].idx = j
                            /\ task'[u].pc \in Waiting \cup {"rx", "clear"}
    BY <1>0, <1>1 DEF MailboxIInv, WokenInv, Waiting
  <2> QED
    BY <1>0, <1>1, <1>2, <2>1 DEF MailboxIInv, MailboxTypeOK, WokenInv
<1>9. StageInv' /\ SpeInv'
  BY <1>2 DEF MailboxIInv, StageInv, SpeInv
<1>10. AnswerInv'
  <2>1. \A j \in Slot : j # i => msg'[j] = msg[j]
    BY <1>0, <1>2 DEF MailboxTypeOK
  <2>2. ~Answered(i) /\ i \notin spm
    BY <1>5 DEF Answered
  <2>3. \A j \in Slot : Answered(j)' <=> Answered(j)
    BY <1>2 DEF Answered
  <2> QED
    BY <1>0, <1>2, <2>1, <2>2, <2>3
       DEF MailboxIInv, MailboxTypeOK, AnswerInv, ReplyMatches
<1>11. NoLostWakeup'
  BY <1>0, <1>1, <1>2 DEF MailboxIInv, NoLostWakeup, Waits
<1>12. CountInv'
  <2>1. \A j \in Slot : j \in empty' \/ \E u \in Task : Holds(u, j)'
    BY <1>0, <1>1, <1>2 DEF MailboxIInv, CountInv, Holds, i
  <2> QED
    BY <1>0, <1>1, <1>2, <2>1, ActiveSame DEF MailboxIInv
<1> QED
  BY <1>4, <1>6, <1>7, <1>8, <1>9, <1>10, <1>11, <1>12 DEF MailboxIInv

\* set_queue_slot_pend(): the message of the slot is handed over.
LEMMA PendStep ==
  ASSUME MailboxIInv, NEW t \in Task, set_queue_slot_pend(t)
  PROVE  MailboxIInv'
<1> DEFINE i == task[t].idx
<1>0. /\ MailboxTypeOK /\ MailboxInv
      /\ task[t] \in TaskState /\ task[t].pc = "pend" /\ i \in Slot
  BY DEF MailboxIInv, MailboxInv, MailboxTypeOK, TaskState, set_queue_slot_pend, At
<1>1. /\ task' \in [Task -> TaskState]
      /\ \A u \in Task : u # t => task'[u] = task[u]
      /\ task'[t].pc = "notify" /\ task'[t].idx = i /\ task'[t].req = task[t].req
  BY <1>0, GotoProperties DEF set_queue_slot_pend, TaskPc
<1>2. /\ pend' = pend \cup {i}
      /\ UNCHANGED <<empty, replied, msg, reply, owner, woken, sema, flags, isr,
                     toSpe, toNs, pendsv, spe, speMsg, spm>>
  BY DEF set_queue_slot_pend, isrVars, speVars
<1>3. owner[i] = t
  BY <1>0 DEF MailboxIInv, OwnerInv, Owning
<1>4. i \notin pend \cup spm \cup replied \cup spe.replies /\ ~woken[i]
  <2>1. i \notin pend \cup spm \cup replied \cup spe.replies
    BY <1>0, <1>3 DEF MailboxIInv, WorkInv, Waiting
  <2>2. \A u \in Task : task[u].idx = i =>
          task[u].pc \notin Waiting \cup {"rx", "clear"}
    BY <1>0 DEF MailboxInv, Holds, Waiting
  <2> QED
    BY <1>0, <2>1, <2>2 DEF MailboxIInv, WokenInv
<1> HIDE DEF i
<1>5. MailboxTypeOK'
  BY <1>0, <1>1, <1>2 DEF MailboxTypeOK, TaskState
<1>6. MailboxInv'
  BY <1>0, <1>1, <1>2, <1>5 DEF MailboxInv, Holds, i
<1>7. OwnerInv'
  <2>1. \A j \in Slot : owner[j] # NULL => owner[j] \in Task
    BY <1>0 DEF MailboxTypeOK
  <2>2. \A j \in Slot : owner[j] # NULL =>
          /\ task'[owner[j]].idx = j
          /\ task'[owner[j]].pc \in Owning
          /\ msg[j] = task'[owner[j]].req
    BY <1>0, <1>1, <2>1 DEF MailboxIInv, OwnerInv, Owning, Waiting, i
  <2>3. \A u \in Task : task'[u].pc \in Owning => owner[task'[u].idx] = u
    BY <1>0, <1>1, <1>3 DEF MailboxIInv, OwnerInv
  <2>4. \A u \in Task : task'[u].pc = "clear" => msg[task'[u].idx] = task'[u].req
    BY <1>1 DEF MailboxIInv, OwnerInv
  <2> QED
    BY <1>2, <2>2, <2>3, <2>4 DEF OwnerInv
<1>8. WorkInv'
  BY <1>0, <1>1, <1>2, <1>3, MailboxAssumption
     DEF MailboxIInv, MailboxTypeOK, WorkInv, Waiting
<1>9. WokenInv'
  <2>1. \A j \in Slot : woken[j] => \E u \in Task : /\ task'[u].idx = j
                            /\ task'[u].pc \in Waiting \cup {"rx", "clear"}
    BY <1>0, <1>1 DEF MailboxIInv, WokenInv, Waiting
  <2> QED
    BY <1>0, <1>1, <1>2, <2>1 DEF MailboxIInv, MailboxTypeOK, WokenInv
<1>10. StageInv'
  BY <1>2, <1>4 DEF MailboxIInv, StageInv
<1>11. SpeInv' /\ AnswerInv'
  BY <1>2 DEF MailboxIInv, SpeInv, AnswerInv, ReplyMatches, Answered
<1>12. NoLostWakeup'
  BY <1>0, <1>1, <1>2, <1>4 DEF MailboxIInv, NoLostWakeup, Waits
<1>13. CountInv'
  <2>1. \A j \in Slot : j \in empty' \/ \E u \in Task : Holds(u, j)'
    BY <1>0, <1>1, <1>2 DEF MailboxIInv, CountInv, Holds, i
  <2> QED
    BY <1>0, <1>1, <1>2, <2>1, ActiveSame DEF MailboxIInv
<1> QED
  BY <1>6, <1>7, <1>8, <1>9, <1>10, <1>11, <1>12, <1>13 DEF MailboxIInv

\* Steps of a task between its message and its answer that change no slot.
LEMMA WaitingStep ==
  ASSUME MailboxIInv, NEW t \in Task,
         NotifySpe(t) \/ WaitFlag(t) \/ is_queue_slot_woken(t)
  PROVE  MailboxIInv'
<1> DEFINE i == task[t].idx
           pc == task'[t].pc
<1>0. /\ MailboxTypeOK /\ MailboxInv
      /\ task[t] \in TaskState /\ task[t].pc \in Waiting /\ i \in Slot
  BY DEF MailboxIInv, MailboxInv, MailboxTypeOK, TaskState, NotifySpe, WaitFlag,
         is_queue_slot_woken, At, Waiting
<1>1. /\ task' \in [Task -> TaskState]
      /\ \A u \in Task : u # t => task'[u] = task[u]
      /\ pc \in {"wait", "check", "rx"}
      /\ pc = "rx" => woken[i]
      /\ pc = "wait" => task[t].pc = "notify" \/ ~woken[i]
      /\ task'[t].idx = i /\ task'[t].req = task[t].req
  BY <1>0, GotoProperties
     DEF NotifySpe, WaitFlag, is_queue_slot_woken, At, TaskPc
<1>2. /\ flags' = flags \/ (pc = "check" /\ flags' = [flags EXCEPT ![t] = @ \ {i}])
      /\ toSpe' \in {"free", "sent", "acked"}
      /\ UNCHANGED <<empty, pend, replied, msg, reply, owner, woken, sema, isr,
                     toNs, pendsv, spe, speMsg, spm>>
  BY <1>0, <1>1, GotoProperties
     DEF NotifySpe, WaitFlag, is_queue_slot_woken, queueVars, isrVars, speVars,
         notify_peer, MailboxTypeOK, TaskPc
<1> HIDE DEF i, pc
<1>3. MailboxTypeOK'
  BY <1>0, <1>1, <1>2 DEF MailboxTypeOK, TaskState
<1>4. MailboxInv'
  BY <1>0, <1>1, <1>2, <1>3 DEF MailboxInv, Holds, Waiting, i, pc
<1>5. owner[i] = t
  BY <1>0 DEF MailboxIInv, OwnerInv, Owning, i
<1>6. OwnerInv'
  <2>1. \A j \in Slot : owner[j] # NULL => owner[j] \in Task
    BY <1>0 DEF MailboxTypeOK
  <2>2. \A j \in Slot : owner[j] # NULL =>
          /\ task'[owner[j]].idx = j
          /\ task'[owner[j]].pc \in Owning
          /\ msg[j] = task'[owner[j]].req
    BY <1>0, <1>1, <2>1 DEF MailboxIInv, OwnerInv, Owning, Waiting, i, pc
  <2>3. \A u \in Task : task'[u].pc \in Owning => owner[task'[u].idx] = u
    BY <1>0, <1>1, <1>5 DEF MailboxIInv, OwnerInv
  <2>4. \A u \in Task : task'[u].pc = "clear" => msg[task'[u].idx] = task'[u].req
    BY <1>1 DEF MailboxIInv, OwnerInv, pc
  <2> QED
    BY <1>2, <2>2, <2>3, <2>4 DEF OwnerInv
<1>7. WorkInv'
  <2>1. ASSUME NEW j \in pend \cup spm \cup replied \cup spe.replies
        PROVE  owner[j] # NULL /\ task'[owner[j]].pc \in Waiting
    <3>1. owner[j] # NULL /\ task[owner[j]].pc \in Waiting /\ j \in Slot
      BY <1>0 DEF MailboxIInv, WorkInv, MailboxTypeOK
    <3>2. owner[j] \in Task /\ ~woken[j]
      BY <1>0, <3>1 DEF MailboxIInv, StageInv, MailboxTypeOK
    <3>3. owner[j] = t => j = i
      BY <3>1 DEF MailboxIInv, OwnerInv, i
    <3> QED
      BY <1>1, <3>1, <3>2, <3>3 DEF Waiting, pc
  <2> QED
    BY <1>2, <2>1 DEF WorkInv
<1>8. WokenInv'
  <2>1. \A j \in Slot : woken[j] => \E u \in Task : /\ task'[u].idx = j
                            /\ task'[u].pc \in Waiting \cup {"rx", "clear"}
    BY <1>0, <1>1 DEF MailboxIInv, WokenInv, Waiting, i, pc
  <2> QED
    BY <1>0, <1>1, <1>2, <2>1 DEF MailboxIInv, MailboxTypeOK, WokenInv, pc, i
<1>9. StageInv' /\ SpeInv' /\ AnswerInv'
  BY <1>2 DEF MailboxIInv, StageInv, SpeInv, AnswerInv, ReplyMatches, Answered
<1>10. NoLostWakeup'
  BY <1>0, <1>1, <1>2 DEF MailboxIInv, MailboxTypeOK, NoLostWakeup, Waits, Waiting, i, pc
<1>11. CountInv'
  <2>1. \A j \in Slot : j \in empty' \/ \E u \in Task : Holds(u, j)'
    BY <1>0, <1>1, <1>2 DEF MailboxIInv, CountInv, Holds, i, pc
  <2> QED
    BY <1>0, <1>1, <1>2, <2>1, ActiveSame DEF MailboxIInv, Waiting, pc
<1> QED
  BY <1>4, <1>6, <1>7, <1>8, <1>9, <1>10, <1>11 DEF MailboxIInv

\* tfm_ns_mailbox_rx_client_reply() reads the result and clears the owner.
LEMMA RxReplyStep ==
  ASSUME MailboxIInv, NEW t \in Task, RxReply(t)
  PROVE  MailboxIInv'
<1> DEFINE i == task[t].idx
<1>0. /\ MailboxTypeOK /\ MailboxInv
      /\ task[t] \in TaskState /\ task[t].pc = "rx" /\ i \in Slot
  BY DEF MailboxIInv, MailboxInv, MailboxTypeOK, TaskState, RxReply, At
<1>1. /\ task' = [task EXCEPT ![t].pc = "clear", ![t].got = reply[i]]
      /\ owner' = [owner EXCEPT ![i] = NULL]
      /\ UNCHANGED <<empty, pend, replied, msg, reply, woken, sema, flags, isr,
                     toSpe, toNs, pendsv, spe, speMsg, spm>>
  BY DEF RxReply, queueVars, isrVars, speVars
<1>2. reply[i] \in Word
  BY <1>0 DEF MailboxTypeOK
<1>3. /\ task' \in [Task -> TaskState]
      /\ \A u \in Task : u # t => task'[u] = task[u]
      /\ task'[t].pc = "clear" /\ task'[t].idx = i /\ task'[t].req = task[t].req
  BY <1>0, <1>1, <1>2 DEF MailboxTypeOK, TaskState, TaskPc
<1>4. owner[i] = t /\ woken[i]
  BY <1>0 DEF MailboxIInv, OwnerInv, Owning, WokenInv
<1>5. i \notin pend \cup spm \cup replied \cup spe.replies
  BY <1>0, <1>4 DEF MailboxIInv, WorkInv, Waiting
<1> HIDE DEF i
<1>6. MailboxTypeOK'
  BY <1>0, <1>1, <1>3 DEF MailboxTypeOK, TaskState
<1>7. MailboxInv'
  BY <1>0, <1>1, <1>3, <1>6 DEF MailboxInv, Holds, i
<1>8. OwnerInv'
  <2>1. \A j \in Slot : j # i => owner'[j] = owner[j] /\ owner[j] # t
    BY <1>0, <1>1, <1>4, MailboxAssumption DEF MailboxIInv, MailboxTypeOK, OwnerInv, i
  <2>2. owner'[i] = NULL
    BY <1>0, <1>1 DEF MailboxTypeOK
  <2>3. \A j \in Slot : owner'[j] # NULL =>
          /\ task'[owner'[j]].idx = j
          /\ task'[owner'[j]].pc \in Owning
          /\ msg[j] = task'[owner'[j]].req
    BY <1>0, <1>3, <2>1, <2>2 DEF MailboxIInv, MailboxTypeOK, OwnerInv
  <2>4. \A u \in Task : task'[u].pc \in Owning =>
          u # t /\ owner[task[u].idx] = u /\ task[u].idx \in Slot
    BY <1>0, <1>3 DEF MailboxIInv, MailboxTypeOK, OwnerInv, Owning, Waiting
  <2>5. \A u \in Task : task'[u].pc \in Owning => owner'[task'[u].idx] = u
    BY <1>3, <1>4, <2>1, <2>4
  <2>6. \A u \in Task : task'[u].pc = "clear" => msg[task'[u].idx] = task'[u].req
    BY <1>0, <1>3, <1>4, MailboxAssumption DEF MailboxIInv, OwnerInv
  <2> QED
    BY <1>1, <2>3, <2>5, <2>6 DEF OwnerInv
<1>9. WorkInv'
  <2>1. ASSUME NEW j \in pend \cup spm \cup replied \cup spe.replies
        PROVE  owner'[j] # NULL /\ task'[owner'[j]].pc \in Waiting
    <3>1. j \in Slot /\ j # i /\ owner[j] # NULL /\ task[owner[j]].pc \in Waiting
      BY <1>0, <1>5 DEF MailboxIInv, WorkInv, MailboxTypeOK
    <3>2. owner'[j] = owner[j] /\ owner[j] \in Task /\ owner[j] # t
      BY <1>0, <1>1, <3>1 DEF MailboxTypeOK, Waiting
    <3> QED
      BY <1>3, <3>1, <3>2
  <2> QED
    BY <1>1, <2>1 DEF WorkInv
<1>10. WokenInv'
  <2>1. \A j \in Slot : woken[j] => \E u \in Task : /\ task'[u].idx = j
                            /\ task'[u].pc \in Waiting \cup {"rx", "clear"}
    BY <1>0, <1>3 DEF MailboxIInv, WokenInv, i
  <2> QED
    BY <1>0, <1>1, <1>3, <1>4, <2>1 DEF MailboxIInv, MailboxTypeOK, WokenInv
<1>11. StageInv' /\ SpeInv' /\ AnswerInv'
  BY <1>1 DEF MailboxIInv, StageInv, SpeInv, AnswerInv, ReplyMatches, Answered
<1>12. NoLostWakeup'
  BY <1>0, <1>1, <1>3 DEF MailboxIInv, NoLostWakeup, Waits
<1>13. CountInv'
  <2>1. \A j \in Slot : j \in empty' \/ \E u \in Task : Holds(u, j)'
    BY <1>0, <1>1, <1>3 DEF MailboxIInv, CountInv, Holds, i
  <2> QED
    BY <1>0, <1>1, <1>3, <2>1, ActiveSame DEF MailboxIInv
<1> QED
  BY <1>7, <1>8, <1>9, <1>10, <1>11, <1>12, <1>13 DEF MailboxIInv

\* The slot is given back with all its status bits cleared.
LEMMA RxClearStep ==
  ASSUME MailboxIInv, NEW t \in Task, RxClear(t)
  PROVE  MailboxIInv'
<1> DEFINE i == task[t].idx
<1>0. /\ MailboxTypeOK /\ MailboxInv /\ isr.pc = "idle"
      /\ task[t] \in TaskState /\ task[t].pc = "clear" /\ i \in Slot
  BY DEF MailboxIInv, MailboxInv, MailboxTypeOK, TaskState, RxClear, At
<1>1. /\ replied' = replied \ {i} /\ woken' = [woken EXCEPT ![i] = FALSE]
      /\ empty' = empty \cup {i}
      /\ UNCHANGED <<pend, msg, reply, owner, sema, flags, isr, toSpe, toNs,
                     pendsv, spe, speMsg, spm>>
  BY DEF RxClear, clear_queue_slot_woken, speVars
<1>2. /\ task' \in [Task -> TaskState]
      /\ \A u \in Task : u # t => task'[u] = task[u]
      /\ task'[t].pc = "unlock" /\ task'[t].idx = i /\ task'[t].req = task[t].req
  BY <1>0, GotoProperties DEF RxClear, TaskPc
<1>3. \A u \in Task : u # t => ~Holds(u, i)
  BY <1>0 DEF MailboxInv, Holds
<1>4. \A u \in Task : \A j \in Slot : Holds(u, j)' <=> u # t /\ Holds(u, j)
  BY <1>0, <1>2 DEF Holds
<1>5. woken[i] /\ i \notin replied
  BY <1>0 DEF MailboxIInv, WokenInv, StageInv
<1>6. \A j \in Slot : woken'[j] <=> j # i /\ woken[j]
  BY <1>0, <1>1 DEF MailboxTypeOK
<1>7. Holds(t, i)
  BY <1>0 DEF Holds
<1> HIDE DEF i
<1>8. MailboxTypeOK'
  BY <1>0, <1>1, <1>2 DEF MailboxTypeOK, TaskState
<1>9. MailboxInv'
  BY <1>0, <1>1, <1>3, <1>4, <1>8 DEF MailboxInv, MailboxTypeOK
<1>10. OwnerInv'
  <2>1. \A j \in Slot : owner[j] # NULL => owner[j] \in Task /\ owner[j] # t
    BY <1>0 DEF MailboxIInv, MailboxTypeOK, OwnerInv, Owning, Waiting
  <2>2. \A j \in Slot : owner[j] # NULL =>
          /\ task'[owner[j]].idx = j
          /\ task'[owner[j]].pc \in Owning
          /\ msg[j] = task'[owner[j]].req
    BY <1>2, <2>1 DEF MailboxIInv, OwnerInv
  <2>3. \A u \in Task : task'[u].pc \in Owning => owner[task'[u].idx] = u
    BY <1>0, <1>2 DEF MailboxIInv, OwnerInv, Owning, Waiting
  <2>4. \A u \in Task : task'[u].pc = "clear" => msg[task'[u].idx] = task'[u].req
    BY <1>2 DEF MailboxIInv, OwnerInv
  <2> QED
    BY <1>1, <2>2, <2>3, <2>4 DEF OwnerInv
<1>11. WorkInv'
  BY <1>0, <1>1, <1>2 DEF MailboxIInv, MailboxTypeOK, WorkInv, Waiting
<1>12. WokenInv'
  <2>1. ASSUME NEW j \in Slot, woken'[j]
        PROVE  \E u \in Task : /\ task'[u].idx = j
                               /\ task'[u].pc \in Waiting \cup {"rx", "clear"}
    <3>1. woken[j] /\ j # i
      BY <1>6, <2>1
    <3>2. PICK u \in Task : /\ task[u].idx = j
                            /\ task[u].pc \in Waiting \cup {"rx", "clear"}
      BY <3>1 DEF MailboxIInv, WokenInv
    <3> QED
      BY <1>2, <3>1, <3>2 DEF i
  <2>2. ASSUME NEW u \in Task, task'[u].pc \in {"rx", "clear"}
        PROVE  woken'[task'[u].idx]
    <3>1. u # t /\ task'[u] = task[u]
      BY <1>2, <2>2
    <3>2. task[u].idx \in Slot /\ Holds(u, task[u].idx) /\ woken[task[u].idx]
      BY <1>0, <2>2, <3>1 DEF MailboxIInv, MailboxTypeOK, WokenInv, Holds
    <3> QED
      BY <1>3, <1>6, <3>1, <3>2
  <2> QED
    BY <2>1, <2>2 DEF WokenInv
<1>13. StageInv'
  BY <1>0, <1>1, <1>6 DEF MailboxIInv, MailboxTypeOK, StageInv
<1>14. SpeInv'
  BY <1>0, <1>1 DEF MailboxIInv, SpeInv
<1>15. AnswerInv'
  BY <1>1, <1>6 DEF MailboxIInv, AnswerInv, ReplyMatches, Answered
<1>16. NoLostWakeup'
  BY <1>0, <1>1, <1>2, <1>6 DEF MailboxIInv, NoLostWakeup, Waits
<1>17. CountInv'
  <2>1. \A j \in Slot : j \in empty' \/ \E u \in Task : Holds(u, j)'
    <3> TAKE j \in Slot
    <3>1. CASE j = i
      BY <1>1, <3>1
    <3>2. CASE j # i
      <4>1. ~Holds(t, j)
        BY <3>2 DEF Holds, i
      <4> QED
        BY <1>1, <1>4, <4>1 DEF MailboxIInv, CountInv
    <3> QED
      BY <3>1, <3>2
  <2> QED
    BY <1>0, <1>1, <1>2, <2>1, ActiveSame DEF MailboxIInv
<1> QED
  BY <1>9, <1>10, <1>11, <1>12, <1>13, <1>14, <1>15, <1>16, <1>17 DEF MailboxIInv

\* tfm_ns_multi_core_lock_release(): one task less in a call.
LEMMA ReleaseStep ==
  ASSUME MailboxIInv, NEW t \in Task, Release(t)
  PROVE  MailboxIInv'
<1>0. MailboxTypeOK /\ MailboxInv /\ task[t] \in TaskState /\ task[t].pc = "unlock"
  BY DEF MailboxIInv, MailboxInv, MailboxTypeOK, TaskState, Release, At
<1>1. /\ task' = [task EXCEPT ![t].pc = "idle", ![t].idx = 0]
      /\ sema' = sema + 1
      /\ UNCHANGED <<empty, pend, replied, msg, reply, owner, woken, flags, isr,
                     toSpe, toNs, pendsv, spe, speMsg, spm>>
  BY DEF Release, queueVars, isrVars, speVars
<1>2. 0 \in Slot
  BY MailboxAssumption DEF Slot
<1>3. /\ task' \in [Task -> TaskState]
      /\ \A u \in Task : u # t => task'[u] = task[u]
      /\ task'[t].pc = "idle"
  BY <1>0, <1>1, <1>2 DEF MailboxTypeOK, TaskState, TaskPc
<1>4. CountInv' /\ sema' \in 0..NumSlot
  <2>1. Active' = Active \ {t} /\ t \in Active
    BY <1>0, <1>3 DEF Active
  <2>2. IsFiniteSet(Active') /\ Cardinality(Active') = Cardinality(Active) - 1
    BY <2>1, FS_RemoveElement DEF MailboxIInv, CountInv
  <2>3. \A i \in Slot : i \in empty' \/ \E u \in Task : Holds(u, i)'
    BY <1>0, <1>1, <1>3 DEF MailboxIInv, CountInv, Holds
  <2>4. Cardinality(Active) \in Nat /\ Cardinality(Active') \in Nat
    BY <2>2, FS_CardinalityType DEF MailboxIInv, CountInv
  <2>5. sema \in Nat /\ NumSlot \in Nat
    BY <1>0, MailboxAssumption DEF MailboxTypeOK
  <2> QED
    BY <1>1, <2>2, <2>3, <2>4, <2>5 DEF MailboxIInv, CountInv
<1>5. MailboxTypeOK'
  BY <1>0, <1>1, <1>3, <1>4 DEF MailboxTypeOK, TaskState
<1>6. MailboxInv'
  BY <1>0, <1>1, <1>3, <1>5 DEF MailboxInv, Holds
<1>7. OwnerInv'
  BY <1>0, <1>1, <1>3 DEF MailboxIInv, MailboxTypeOK, OwnerInv, Owning, Waiting
<1>8. WorkInv'
  BY <1>0, <1>1, <1>3 DEF MailboxIInv, MailboxTypeOK, WorkInv, Waiting
<1>9. WokenInv'
  <2>1. \A j \in Slot : woken[j] => \E u \in Task : /\ task'[u].idx = j
                            /\ task'[u].pc \in Waiting \cup {"rx", "clear"}
    BY <1>0, <1>3 DEF MailboxIInv, WokenInv, Waiting
  <2> QED
    BY <1>0, <1>1, <1>3, <2>1 DEF MailboxIInv, MailboxTypeOK, WokenInv
<1>10. StageInv' /\ SpeInv' /\ AnswerInv'
  BY <1>1 DEF MailboxIInv, StageInv, SpeInv, AnswerInv, ReplyMatches, Answered
<1>11. NoLostWakeup'
  BY <1>0, <1>1, <1>3 DEF MailboxIInv, NoLostWakeup, Waits
<1> QED
  BY <1>4, <1>6, <1>7, <1>8, <1>9, <1>10, <1>11 DEF MailboxIInv
-----------------------------------------------------------------------------
\* Interrupt handlers and the secure core leave the tasks and the messages.
LEMMA TasksSame ==
  ASSUME MailboxIInv, UNCHANGED nsVars, MailboxTypeOK'
  PROVE  MailboxInv' /\ OwnerInv' /\ CountInv'
<1>1. MailboxInv' /\ OwnerInv'
  BY DEF MailboxIInv, MailboxInv, Holds, OwnerInv, nsVars
<1>2. Active' = Active
  BY DEF Active, nsVars
<1> QED
  BY <1>1, <1>2 DEF MailboxIInv, CountInv, Holds, nsVars

\* Notifications, interrupts and PendSV change no slot.
LEMMA SignalStep ==
  ASSUME MailboxIInv,
         \/ IsrClear \/ IsrRelease \/ IsrFetch
         \/ SpeIrqClear \/ SpeIrqRelease \/ OtherPendSV
  PROVE  MailboxIInv'
<1>0. MailboxTypeOK
  BY DEF MailboxIInv, MailboxInv
<1>1. /\ UNCHANGED nsVars /\ UNCHANGED queueVars
      /\ UNCHANGED <<reply, woken, flags, spe, speMsg, spm>>
  BY DEF IsrClear, IsrRelease, IsrFetch, SpeIrqClear, SpeIrqRelease,
         OtherPendSV, isrVars, speVars
<1>2. /\ isr' \in [pc: {"idle", "release", "fetch", "move"}, snap: SUBSET Slot]
      /\ isr'.pc = "move" => \/ isr' = isr
                             \/ isr'.snap = replied /\ replied # {}
  <2>1. CASE IsrClear \/ IsrRelease
    BY <1>0, <2>1 DEF IsrClear, IsrRelease, MailboxTypeOK
  <2>2. CASE IsrFetch
    BY <1>0, <2>2 DEF IsrFetch, MailboxTypeOK
  <2>3. CASE SpeIrqClear \/ SpeIrqRelease \/ OtherPendSV
    BY <1>0, <2>3 DEF SpeIrqClear, SpeIrqRelease, OtherPendSV, isrVars, MailboxTypeOK
  <2> QED
    BY <2>1, <2>2, <2>3
<1>3. /\ toSpe' \in {"free", "sent", "acked"} /\ toNs' \in {"free", "sent", "acked"}
      /\ pendsv' \in BOOLEAN
  BY <1>0 DEF IsrClear, IsrRelease, IsrFetch, SpeIrqClear, SpeIrqRelease,
              OtherPendSV, speVars, MailboxTypeOK
<1>4. MailboxTypeOK'
  BY <1>0, <1>1, <1>2, <1>3 DEF MailboxTypeOK, nsVars, queueVars
<1>5. WorkInv' /\ WokenInv' /\ StageInv'
  BY <1>1 DEF MailboxIInv, WorkInv, WokenInv, StageInv, nsVars, queueVars
<1>6. SpeInv'
  BY <1>1, <1>2 DEF MailboxIInv, SpeInv, queueVars
<1>7. AnswerInv' /\ NoLostWakeup'
  BY <1>1 DEF MailboxIInv, AnswerInv, ReplyMatches, Answered, NoLostWakeup,
              Waits, nsVars, queueVars
<1> QED
  BY <1>1, <1>4, <1>5, <1>6, <1>7, TasksSame DEF MailboxIInv

\* tfm_ns_mailbox_fetch_reply_msg_isr() wakes the owner of a replied slot.
LEMMA IsrMoveStep ==
  ASSUME MailboxIInv, IsrMove
  PROVE  MailboxIInv'
<1> DEFINE i == First(isr.snap)
<1>0. MailboxTypeOK /\ isr.pc = "move"
  BY DEF MailboxIInv, MailboxInv, IsrMove
<1>1. i \in replied /\ i \in Slot
  BY <1>0, FirstProperties DEF MailboxIInv, SpeInv, MailboxTypeOK
<1>2. /\ replied' = replied \ {i} /\ woken' = [woken EXCEPT ![i] = TRUE]
      /\ flags' = IF owner[i] = NULL THEN flags
                  ELSE [flags EXCEPT ![owner[i]] = @ \cup {i}]
      /\ isr' = [pc |-> "fetch", snap |-> {}]
      /\ UNCHANGED <<pend, reply, toSpe, toNs, pendsv, spe, speMsg, spm>>
      /\ UNCHANGED nsVars
  BY DEF IsrMove, speVars
<1> HIDE DEF i
<1>3. /\ owner[i] \in Task /\ task[owner[i]].pc \in Waiting
      /\ task[owner[i]].idx = i
  BY <1>0, <1>1 DEF MailboxIInv, MailboxTypeOK, WorkInv, OwnerInv
<1>4. /\ flags' \in [Task -> SUBSET Slot] /\ i \in flags'[owner[i]]
      /\ \A u \in Task : flags[u] \subseteq flags'[u]
  BY <1>0, <1>1, <1>2, <1>3, MailboxAssumption DEF MailboxTypeOK
<1>5. \A j \in Slot : woken'[j] <=> j = i \/ woken[j]
  BY <1>0, <1>1, <1>2 DEF MailboxTypeOK
<1>6. MailboxTypeOK'
  BY <1>0, <1>1, <1>2, <1>4 DEF MailboxTypeOK, nsVars
<1>7. WorkInv'
  BY <1>2 DEF MailboxIInv, WorkInv, nsVars
<1>8. WokenInv'
  BY <1>0, <1>1, <1>2, <1>3, <1>5
     DEF MailboxIInv, MailboxTypeOK, WokenInv, nsVars
<1>9. StageInv'
  BY <1>0, <1>1, <1>2, <1>5 DEF MailboxIInv, MailboxTypeOK, StageInv
<1>10. SpeInv'
  BY <1>2 DEF MailboxIInv, SpeInv
<1>11. AnswerInv'
  BY <1>1, <1>2, <1>5 DEF MailboxIInv, AnswerInv, ReplyMatches, Answered, nsVars
<1>12. NoLostWakeup'
  <2>1. ASSUME NEW u \in Task, NEW j \in Slot, Waits(u, j), task[u].pc # "check",
               woken'[j]
        PROVE  j \in flags'[u]
    <3>1. CASE woken[j]
      BY <1>4, <2>1, <3>1 DEF MailboxIInv, NoLostWakeup
    <3>2. CASE j = i
      BY <1>4, <2>1, <3>2 DEF MailboxIInv, OwnerInv, Waits, Owning, Waiting
    <3> QED
      BY <1>5, <2>1, <3>1, <3>2
  <2> QED
    BY <1>2, <2>1 DEF NoLostWakeup, Waits, nsVars
<1> QED
  BY <1>2, <1>6, <1>7, <1>8, <1>9, <1>10, <1>11, <1>12, TasksSame DEF MailboxIInv

\* The steps of the secure core leave the wake-ups alone.
LEMMA WakeupSame ==
  ASSUME MailboxIInv, UNCHANGED nsVars, UNCHANGED isrVars
  PROVE  WokenInv' /\ NoLostWakeup'
BY DEF MailboxIInv, WokenInv, NoLostWakeup, Waits, nsVars, isrVars

\* tfm_mailbox_handle_msg() begins a turn with all pending slots.
LEMMA HandleStep ==
  ASSUME MailboxIInv, HandleMsg
  PROVE  MailboxIInv'
<1>0. MailboxTypeOK /\ spe.pc = "idle"
  BY DEF MailboxIInv, MailboxInv, HandleMsg, SpeAt
<1>1. /\ pendsv' = FALSE
      /\ UNCHANGED <<reply, toSpe, toNs, speMsg, spm>>
      /\ UNCHANGED nsVars /\ UNCHANGED queueVars /\ UNCHANGED isrVars
  BY DEF HandleMsg
<1>2. /\ spe' \in [pc: {"idle", "loop", "reply", "notify"}, snap: SUBSET Slot,
                   todo: SUBSET Slot, replies: SUBSET Slot]
      /\ \/ spe' = spe
         \/ /\ spe'.pc = "loop" /\ spe'.snap = pend /\ spe'.todo = pend
            /\ spe'.replies = {}
  BY <1>0 DEF HandleMsg, MailboxTypeOK
<1>3. spe.snap = {} /\ spe.replies = {}
  BY <1>0 DEF MailboxIInv, SpeInv
<1>4. spm \cap pend = {}
  BY <1>3 DEF MailboxIInv, StageInv
<1>5. MailboxTypeOK'
  BY <1>0, <1>1, <1>2 DEF MailboxTypeOK, nsVars, queueVars, isrVars
<1>6. WorkInv'
  BY <1>1, <1>2 DEF MailboxIInv, WorkInv, nsVars, queueVars
<1>7. StageInv'
  BY <1>1, <1>2, <1>4 DEF MailboxIInv, StageInv, queueVars, isrVars
<1>8. SpeInv'
  BY <1>1, <1>2 DEF MailboxIInv, SpeInv, queueVars, isrVars
<1>9. AnswerInv'
  BY <1>1, <1>2 DEF MailboxIInv, AnswerInv, ReplyMatches, Answered, nsVars,
                    queueVars, isrVars
<1> QED
  BY <1>1, <1>5, <1>6, <1>7, <1>8, <1>9, TasksSame, WakeupSame DEF MailboxIInv

\* A message is in a slot whose owner waits; it is the one the owner sent.
LEMMA MessageInSlot ==
  ASSUME MailboxIInv, NEW i \in pend \cup spm
  PROVE  /\ i \in Slot /\ msg[i] \in Message /\ msg[i] # NoMessage
         /\ owner[i] \in Task /\ task[owner[i]].pc \in Waiting
         /\ task[owner[i]].idx = i /\ msg[i] = task[owner[i]].req
<1>0. MailboxTypeOK
  BY DEF MailboxIInv, MailboxInv
<1>1. i \in Slot /\ owner[i] # NULL /\ task[owner[i]].pc \in Waiting
  BY <1>0 DEF MailboxIInv, MailboxTypeOK, WorkInv
<1>2. /\ owner[i] \in Task /\ task[owner[i]].idx = i
      /\ msg[i] = task[owner[i]].req
  BY <1>0, <1>1 DEF MailboxIInv, MailboxTypeOK, OwnerInv
<1>3. msg[i] \in Message
  BY <1>0, <1>2 DEF MailboxTypeOK
<1> QED
  BY <1>1, <1>2, <1>3, MailboxAssumption DEF Message, NoMessage

\* One message of the turn is copied, dispatched and perhaps answered.
LEMMA DispatchStep ==
  ASSUME MailboxIInv, DispatchMsg
  PROVE  MailboxIInv'
<1> DEFINE i == First(spe.todo)
           m == msg[i]
<1>0. MailboxTypeOK /\ spe.pc = "loop" /\ spe.todo # {}
  BY DEF MailboxIInv, MailboxInv, DispatchMsg, SpeAt
<1>1. i \in spe.todo /\ i \in pend /\ i \in spe.snap /\ i \in Slot
  BY <1>0, FirstProperties DEF MailboxIInv, MailboxTypeOK, SpeInv
<1>2. i \notin spm \cup spe.replies /\ i \notin replied /\ ~woken[i]
  BY <1>1 DEF MailboxIInv, StageInv
<1>3. m \in Word
  BY <1>0, <1>1 DEF MailboxTypeOK
<1>4. PICK res \in SpmResult(m.type) :
           /\ IF res = "answered" THEN mailbox_direct_reply(i, m)
              ELSE /\ speMsg' = [speMsg EXCEPT ![i] = m]
                   /\ UNCHANGED reply
           /\ spm' = IF res = "accepted" THEN spm \cup {i} ELSE spm
           /\ spe' = [spe EXCEPT !.todo = @ \ {i}, !.replies =
                        IF res = "answered" THEN @ \cup {i} ELSE @]
  BY DEF DispatchMsg
<1>5. /\ UNCHANGED <<toSpe, toNs, pendsv>>
      /\ UNCHANGED nsVars /\ UNCHANGED queueVars /\ UNCHANGED isrVars
  BY DEF DispatchMsg
<1> HIDE DEF i, m
<1>6. /\ reply' = IF res = "answered" THEN [reply EXCEPT ![i] = m] ELSE reply
      /\ speMsg' = [speMsg EXCEPT ![i] = IF res = "answered" THEN NoMessage ELSE m]
  BY <1>4 DEF mailbox_direct_reply, get_nspe_reply_addr
<1>7. /\ spe'.pc = "loop" /\ spe'.snap = spe.snap
      /\ spe'.todo = spe.todo \ {i}
      /\ spe'.replies = IF res = "answered" THEN spe.replies \cup {i} ELSE spe.replies
      /\ spe' \in [pc: {"idle", "loop", "reply", "notify"}, snap: SUBSET Slot,
                   todo: SUBSET Slot, replies: SUBSET Slot]
  BY <1>0, <1>1, <1>4 DEF MailboxTypeOK
<1>8. MailboxTypeOK'
  <2>1. reply' \in [Slot -> Word] /\ speMsg' \in [Slot -> Word]
    BY <1>0, <1>3, <1>6 DEF MailboxTypeOK, Word
  <2> QED
    BY <1>0, <1>1, <1>4, <1>5, <1>7, <2>1
       DEF MailboxTypeOK, nsVars, queueVars, isrVars
<1>9. WorkInv'
  BY <1>1, <1>4, <1>5, <1>7 DEF MailboxIInv, WorkInv, nsVars, queueVars
<1>10. StageInv'
  BY <1>1, <1>2, <1>4, <1>5, <1>7
     DEF MailboxIInv, StageInv, SpeInv, queueVars, isrVars
<1>11. SpeInv'
  BY <1>0, <1>1, <1>5, <1>7 DEF MailboxIInv, SpeInv, queueVars, isrVars
<1>12. AnswerInv'
  <2>1. \A j \in Slot : Answered(j)' => Answered(j) \/ (j = i /\ res = "answered")
    BY <1>0, <1>5, <1>7 DEF Answered, queueVars, isrVars
  <2>2. ~Answered(i)
    BY <1>2 DEF Answered
  <2>3. ReplyMatches'
    BY <1>0, <1>1, <1>5, <1>6, <2>1, <2>2
       DEF MailboxIInv, MailboxTypeOK, AnswerInv, ReplyMatches, nsVars, m
  <2>4. \A j \in spm' : speMsg'[j] = msg'[j]
    BY <1>0, <1>1, <1>2, <1>4, <1>5, <1>6
       DEF MailboxIInv, MailboxTypeOK, AnswerInv, nsVars, m
  <2> QED
    BY <2>3, <2>4 DEF AnswerInv
<1> QED
  BY <1>5, <1>8, <1>9, <1>10, <1>11, <1>12, TasksSame, WakeupSame DEF MailboxIInv

\* The turn ends: its slots are no longer pending, the answered ones replied.
LEMMA FinishStep ==
  ASSUME MailboxIInv, FinishMsg
  PROVE  MailboxIInv'
<1>0. MailboxTypeOK /\ spe.pc = "loop" /\ spe.todo = {}
  BY DEF MailboxIInv, MailboxInv, FinishMsg, SpeAt
<1>1. /\ pend' = pend \ spe.snap /\ replied' = replied \cup spe.replies
      /\ UNCHANGED <<reply, toSpe, toNs, pendsv, speMsg, spm>>
      /\ UNCHANGED nsVars /\ UNCHANGED isrVars
  BY DEF FinishMsg, clear_nspe_queue_pend_status
<1>2. /\ spe'.pc \in {"idle", "notify"} /\ spe'.snap = {} /\ spe'.todo = {}
      /\ spe'.replies = {}
      /\ spe' \in [pc: {"idle", "loop", "reply", "notify"}, snap: SUBSET Slot,
                   todo: SUBSET Slot, replies: SUBSET Slot]
  BY DEF FinishMsg, SpeIdle
<1>3. MailboxTypeOK'
  BY <1>0, <1>1, <1>2 DEF MailboxTypeOK, nsVars, isrVars
<1>4. WorkInv'
  BY <1>1, <1>2 DEF MailboxIInv, WorkInv, nsVars
<1>5. StageInv'
  BY <1>0, <1>1, <1>2 DEF MailboxIInv, StageInv, SpeInv, isrVars
<1>6. SpeInv'
  BY <1>1, <1>2 DEF MailboxIInv, SpeInv, isrVars
<1>7. AnswerInv'
  BY <1>0, <1>1, <1>2 DEF MailboxIInv, AnswerInv, ReplyMatches, Answered, nsVars,
                          isrVars
<1> QED
  BY <1>1, <1>3, <1>4, <1>5, <1>6, <1>7, TasksSame, WakeupSame DEF MailboxIInv

\* tfm_mailbox_reply_msg() writes the result of an accepted message.
LEMMA ReplyStep ==
  ASSUME MailboxIInv, NEW i \in Slot, ReplyMsg(i)
  PROVE  MailboxIInv'
<1>0. MailboxTypeOK /\ spe.pc = "idle" /\ i \in spm
  BY DEF MailboxIInv, MailboxInv, ReplyMsg, SpeAt
<1>1. spe.snap = {} /\ spe.todo = {} /\ spe.replies = {}
  BY <1>0 DEF MailboxIInv, SpeInv
<1>2. i \notin pend /\ i \notin replied /\ ~woken[i]
  BY <1>0, <1>1 DEF MailboxIInv, StageInv
<1>3. speMsg[i] = msg[i] /\ msg[i] # NoMessage /\ msg[i] \in Word
  BY <1>0, MessageInSlot DEF MailboxIInv, AnswerInv, Word
<1>4. /\ spm' = spm \ {i}
      /\ reply' = [reply EXCEPT ![i] = msg[i]]
      /\ speMsg' = [speMsg EXCEPT ![i] = NoMessage]
      /\ spe' = [spe EXCEPT !.pc = "reply", !.replies = {i}]
      /\ UNCHANGED <<toSpe, toNs, pendsv>>
      /\ UNCHANGED nsVars /\ UNCHANGED queueVars /\ UNCHANGED isrVars
  BY <1>3 DEF ReplyMsg, mailbox_direct_reply, get_nspe_reply_addr
<1>5. /\ spe'.pc = "reply" /\ spe'.snap = {} /\ spe'.todo = {} /\ spe'.replies = {i}
      /\ spe' \in [pc: {"idle", "loop", "reply", "notify"}, snap: SUBSET Slot,
                   todo: SUBSET Slot, replies: SUBSET Slot]
  BY <1>0, <1>1, <1>4 DEF MailboxTypeOK
<1>6. MailboxTypeOK'
  <2>1. reply' \in [Slot -> Word] /\ speMsg' \in [Slot -> Word]
    BY <1>0, <1>3, <1>4 DEF MailboxTypeOK, Word
  <2> QED
    BY <1>0, <1>4, <1>5, <2>1 DEF MailboxTypeOK, nsVars, queueVars, isrVars
<1>7. WorkInv'
  BY <1>0, <1>4, <1>5 DEF MailboxIInv, WorkInv, nsVars, queueVars
<1>8. StageInv'
  BY <1>0, <1>1, <1>2, <1>4, <1>5 DEF MailboxIInv, StageInv, queueVars, isrVars
<1>9. SpeInv'
  BY <1>4, <1>5 DEF MailboxIInv, SpeInv, queueVars, isrVars
<1>10. AnswerInv'
  <2>1. \A j \in Slot : Answered(j)' => Answered(j) \/ j = i
    BY <1>4, <1>5 DEF Answered, queueVars, isrVars
  <2> QED
    BY <1>0, <1>4, <2>1
       DEF MailboxIInv, MailboxTypeOK, AnswerInv, ReplyMatches, nsVars
<1> QED
  BY <1>4, <1>6, <1>7, <1>8, <1>9, <1>10, TasksSame, WakeupSame DEF MailboxIInv

\* The slot of that message is marked as replied.
LEMMA RepliedStep ==
  ASSUME MailboxIInv, SetReplied
  PROVE  MailboxIInv'
<1>0. MailboxTypeOK /\ spe.pc = "reply"
  BY DEF MailboxIInv, MailboxInv, SetReplied, SpeAt
<1>1. /\ replied' = replied \cup spe.replies
      /\ UNCHANGED <<pend, reply, toSpe, toNs, pendsv, speMsg, spm>>
      /\ UNCHANGED nsVars /\ UNCHANGED isrVars
  BY DEF SetReplied
<1>2. /\ spe'.pc = "notify" /\ spe'.snap = {} /\ spe'.todo = {} /\ spe'.replies = {}
      /\ spe' \in [pc: {"idle", "loop", "reply", "notify"}, snap: SUBSET Slot,
                   todo: SUBSET Slot, replies: SUBSET Slot]
  BY DEF SetReplied, SpeIdle
<1>3. spe.snap = {}
  BY <1>0 DEF MailboxIInv, SpeInv
<1>4. MailboxTypeOK'
  BY <1>0, <1>1, <1>2 DEF MailboxTypeOK, nsVars, isrVars
<1>5. WorkInv'
  BY <1>1, <1>2 DEF MailboxIInv, WorkInv, nsVars
<1>6. StageInv'
  BY <1>1, <1>2, <1>3 DEF MailboxIInv, StageInv, isrVars
<1>7. SpeInv'
  BY <1>1, <1>2 DEF MailboxIInv, SpeInv, isrVars
<1>8. AnswerInv'
  BY <1>0, <1>1, <1>2 DEF MailboxIInv, AnswerInv, ReplyMatches, Answered, nsVars,
                          isrVars
<1> QED
  BY <1>1, <1>4, <1>5, <1>6, <1>7, <1>8, TasksSame, WakeupSame DEF MailboxIInv

\* The secure core notifies the non-secure one.
LEMMA NotifyNsStep ==
  ASSUME MailboxIInv, NotifyNs
  PROVE  MailboxIInv'
<1>0. MailboxTypeOK /\ spe.pc = "notify"
  BY DEF MailboxIInv, MailboxInv, NotifyNs, SpeAt
<1>1. /\ toNs' \in {"free", "sent", "acked"}
      /\ UNCHANGED <<reply, toSpe, pendsv, speMsg, spm>>
      /\ UNCHANGED nsVars /\ UNCHANGED queueVars /\ UNCHANGED isrVars
  BY <1>0 DEF NotifyNs, notify_peer, MailboxTypeOK
<1>2. /\ spe'.pc = "idle" /\ spe'.snap = {} /\ spe'.todo = {} /\ spe'.replies = {}
      /\ spe' \in [pc: {"idle", "loop", "reply", "notify"}, snap: SUBSET Slot,
                   todo: SUBSET Slot, replies: SUBSET Slot]
  BY DEF NotifyNs, SpeIdle
<1>3. spe.snap = {} /\ spe.replies = {}
  BY <1>0 DEF MailboxIInv, SpeInv
<1>4. MailboxTypeOK'
  BY <1>0, <1>1, <1>2 DEF MailboxTypeOK, nsVars, queueVars, isrVars
<1>5. WorkInv' /\ StageInv' /\ SpeInv'
  BY <1>1, <1>2, <1>3
     DEF MailboxIInv, WorkInv, StageInv, SpeInv, nsVars, queueVars, isrVars
<1>6. AnswerInv'
  BY <1>0, <1>1, <1>2 DEF MailboxIInv, AnswerInv, ReplyMatches, Answered, nsVars,
                          queueVars, isrVars
<1> QED
  BY <1>1, <1>4, <1>5, <1>6, TasksSame, WakeupSame DEF MailboxIInv
-----------------------------------------------------------------------------
\* The invariant holds in every state: initially nobody is in a call, and each
\* step of a task, of an interrupt handler or of the secure core preserves it.
THEOREM MailboxInductive == MailboxSpec => []MailboxIInv
<1>1. MailboxInit => MailboxIInv
  <2> SUFFICES ASSUME MailboxInit PROVE MailboxIInv
    OBVIOUS
  <2> DEFINE k == CHOOSE k \in Kinds : TRUE
  <2>1. k \in Kinds
    BY MailboxAssumption
  <2>2. \A t \in Task : [from |-> t, type |-> k, num |-> 0] \in Message
    BY <2>1, MailboxAssumption DEF Message
  <2>3. task = [t \in Task |-> [pc |-> "idle", idx |-> 0,
                                req |-> [from |-> t, type |-> k, num |-> 0],
                                got |-> [from |-> t, type |-> k, num |-> 0]]]
    BY DEF MailboxInit
  <2> HIDE DEF k
  <2>4. /\ task \in [Task -> TaskState]
        /\ \A t \in Task : task[t].pc = "idle"
    BY <2>2, <2>3, MailboxAssumption DEF TaskState, TaskPc, Word, Slot
  <2>5. MailboxTypeOK
    <3>1. /\ msg \in [Slot -> Word] /\ reply \in [Slot -> Word]
          /\ speMsg \in [Slot -> Word]
      BY DEF MailboxInit, Word
    <3>2. /\ owner \in [Slot -> Task \cup {NULL}] /\ woken \in [Slot -> BOOLEAN]
          /\ flags \in [Task -> SUBSET Slot]
      BY DEF MailboxInit
    <3>3. sema \in 0..NumSlot
      BY MailboxAssumption DEF MailboxInit, MAX_SEMAPHORE_COUNT
    <3>4. /\ isr \in [pc: {"idle", "release", "fetch", "move"}, snap: SUBSET Slot]
          /\ spe \in [pc: {"idle", "loop", "reply", "notify"}, snap: SUBSET Slot,
                      todo: SUBSET Slot, replies: SUBSET Slot]
      BY DEF MailboxInit, SpeIdle
    <3> QED
      BY <2>4, <3>1, <3>2, <3>3, <3>4 DEF MailboxInit, MailboxTypeOK, TaskState
  <2>6. MailboxInv
    BY <2>4, <2>5 DEF MailboxInv, Holds
  <2>7. OwnerInv /\ WorkInv /\ WokenInv
    BY <2>4 DEF MailboxInit, OwnerInv, WorkInv, WokenInv, Owning, Waiting, SpeIdle
  <2>8. StageInv /\ SpeInv /\ AnswerInv /\ NoLostWakeup
    BY DEF MailboxInit, StageInv, SpeInv, AnswerInv, ReplyMatches, Answered,
           NoLostWakeup, SpeIdle
  <2>9. CountInv
    <3>1. Active = {}
      BY <2>4 DEF Active
    <3> QED
      BY <3>1, FS_EmptySet, MailboxAssumption
         DEF MailboxInit, CountInv, MAX_SEMAPHORE_COUNT
  <2> QED
    BY <2>6, <2>7, <2>8, <2>9 DEF MailboxIInv
<1>2. MailboxIInv /\ [MailboxNext]_mailboxVars => MailboxIInv'
  <2> SUFFICES ASSUME MailboxIInv, [MailboxNext]_mailboxVars PROVE MailboxIInv'
    OBVIOUS
  <2>1. ASSUME NEW t \in Task, NEW kind \in Kinds, Acquire(t, kind)
        PROVE  MailboxIInv'
    BY <2>1, AcquireStep
  <2>2. ASSUME NEW t \in Task, TaskStep(t) PROVE MailboxIInv'
    BY <2>2, EmptySlotStep, FillStep, PendStep, WaitingStep, RxReplyStep,
       RxClearStep, ReleaseStep DEF TaskStep
  <2>3. CASE Isr
    BY <2>3, SignalStep, IsrMoveStep DEF Isr
  <2>4. CASE SpeStep
    BY <2>4, SignalStep, HandleStep, DispatchStep, FinishStep, RepliedStep,
       NotifyNsStep DEF SpeStep
  <2>5. CASE OtherPendSV
    BY <2>5, SignalStep
  <2>6. ASSUME NEW i \in Slot, ReplyMsg(i) PROVE MailboxIInv'
    BY <2>6, ReplyStep
  <2>7. CASE UNCHANGED mailboxVars
    <3>1. UNCHANGED nsVars /\ UNCHANGED isrVars /\ MailboxTypeOK'
      BY <2>7 DEF mailboxVars, nsVars, isrVars, MailboxIInv, MailboxInv, MailboxTypeOK
    <3>2. WorkInv' /\ StageInv' /\ SpeInv' /\ AnswerInv'
      BY <2>7 DEF mailboxVars, MailboxIInv, WorkInv, StageInv, SpeInv, AnswerInv,
                  ReplyMatches, Answered
    <3> QED
      BY <3>1, <3>2, TasksSame, WakeupSame DEF MailboxIInv
  <2> QED
    BY <2>1, <2>2, <2>3, <2>4, <2>5, <2>6, <2>7 DEF MailboxNext
<1> QED
  BY <1>1, <1>2, PTL DEF MailboxSpec

\* The queue, the tasks and the secure side are well formed and two client calls
\* never share a slot, whatever the other core and the interrupts do.
THEOREM MailboxInvariant == MailboxSpec => []MailboxInv
<1>1. MailboxIInv => MailboxInv
  BY DEF MailboxIInv
<1> QED
  BY <1>1, MailboxInductive, PTL

\* A task that passed the counting semaphore of tfm_ns_multi_core_lock_acquire()
\* finds an empty slot: MAILBOX_QUEUE_FULL never reaches a client.
THEOREM MailboxNeverFull == MailboxSpec => []NeverFull
BY NeverFullHolds, MailboxInductive, PTL

\* The secure side works only on slots whose task waits, on the message this
\* task sent, and never has a message twice: tfm_mailbox_handle_msg() clears the
\* pending bits only after the whole turn, and still dispatches each once.
THEOREM MailboxSlotPhases == MailboxSpec => []SlotPhases
<1>1. MailboxIInv => SlotPhases
  <2> SUFFICES ASSUME MailboxIInv PROVE SlotPhases
    OBVIOUS
  <2>0. MailboxTypeOK /\ MailboxInv
    BY DEF MailboxIInv, MailboxInv
  <2>1. \A i \in Slot : Answered(i) <=> i \in replied \cup spe.replies \/ woken[i]
    BY <2>0 DEF MailboxIInv, SpeInv, MailboxTypeOK, Answered
  <2>2. ASSUME NEW i \in Slot, i \in pend \cup spm \/ Answered(i)
        PROVE  \E t \in Task : /\ Waits(t, i) \/ (woken[i] /\ Holds(t, i))
                               /\ msg[i] = task[t].req
    <3>1. CASE i \in pend \cup spm \cup replied \cup spe.replies
      <4>1. owner[i] \in Task /\ Waits(owner[i], i) /\ msg[i] = task[owner[i]].req
        BY <2>0, <3>1 DEF MailboxIInv, MailboxTypeOK, WorkInv, OwnerInv, Waits,
                          Waiting
      <4> QED
        BY <4>1
    <3>2. CASE woken[i]
      <4>1. PICK t \in Task : /\ task[t].idx = i
                              /\ task[t].pc \in Waiting \cup {"rx", "clear"}
        BY <3>2 DEF MailboxIInv, WokenInv
      <4>2. msg[i] = task[t].req
        BY <4>1, MailboxAssumption DEF MailboxIInv, OwnerInv, Owning
      <4> QED
        BY <3>2, <4>1, <4>2 DEF Holds, Waiting
    <3> QED
      BY <2>1, <2>2, <3>1, <3>2
  <2>3. \A i \in spm : speMsg[i] = msg[i] /\ ~Answered(i)
    BY <2>0, <2>1 DEF MailboxIInv, MailboxTypeOK, AnswerInv, StageInv
  <2>4. \A i \in pend : i \in spm \/ Answered(i) => i \in spe.snap \ spe.todo
    BY <2>0, <2>1 DEF MailboxIInv, MailboxTypeOK, StageInv
  <2> QED
    BY <2>2, <2>3, <2>4 DEF SlotPhases
<1> QED
  BY <1>1, MailboxInductive, PTL

\* A slot is marked as replied or woken only while its reply field answers the
\* message in it, though reply and status are written in separate steps.
THEOREM MailboxReplyMatches == MailboxSpec => []ReplyMatches
<1>1. MailboxIInv => ReplyMatches
  BY DEF MailboxIInv, AnswerInv
<1> QED
  BY <1>1, MailboxInductive, PTL

\* A task whose slot is marked as woken has its thread flag or has seen the
\* mark: tfm_ns_mailbox_hal_wait_reply() sleeps through no reply.
THEOREM MailboxNoLostWakeup == MailboxSpec => []NoLostWakeup
<1>1. MailboxIInv => NoLostWakeup
  BY DEF MailboxIInv
<1> QED
  BY <1>1, MailboxInductive, PTL
-----------------------------------------------------------------------------
\* The remote procedure calls that a state of the mailbox stands for.
Calls == [t \in Task |-> AbstractCall(t)]

\* When a slot counts as answered, in terms of its status alone.
LEMMA AnsweredSlots ==
  ASSUME MailboxIInv
  PROVE  /\ \A i \in Slot : Answered(i) <=> i \in replied \cup spe.replies \/ woken[i]
         /\ \A t \in Task : task[t].pc \in {"rx", "clear"} => Answered(task[t].idx)
BY DEF MailboxIInv, MailboxInv, SpeInv, WokenInv, MailboxTypeOK, Answered

\* A step of another core or of an interrupt that answers no message.
LEMMA AnswersSame ==
  ASSUME MailboxIInv, UNCHANGED nsVars,
         \A i \in Slot : Answered(i)' <=> Answered(i),
         \A i \in Slot : Answered(i) => reply'[i] = reply[i]
  PROVE  UNCHANGED Calls
<1> SUFFICES ASSUME NEW t \in Task PROVE AbstractCall(t)' = AbstractCall(t)
  BY DEF Calls
<1>1. task' = task /\ task[t].idx \in Slot
  BY DEF nsVars, MailboxIInv, MailboxInv, MailboxTypeOK
<1>2. Served(t)' <=> Served(t)
  BY <1>1 DEF Served
<1>3. Served(t) /\ task[t].pc \notin {"clear", "unlock"} => Answered(task[t].idx)
  BY AnsweredSlots DEF Served
<1> QED
  BY <1>1, <1>2, <1>3 DEF AbstractCall

\* The step that answers the message in slot i.
LEMMA AnswerServes ==
  ASSUME MailboxIInv, UNCHANGED nsVars, NEW i \in pend \cup spm, ~Answered(i),
         \A j \in Slot : Answered(j)' <=> Answered(j) \/ j = i,
         reply' = [reply EXCEPT ![i] = msg[i]]
  PROVE  R!Serve(owner[i])
<1>0. MailboxTypeOK
  BY DEF MailboxIInv, MailboxInv
<1>1. PICK o \in Task : /\ o = owner[i] /\ i \in Slot /\ task[o].pc \in Waiting
                        /\ task[o].idx = i /\ msg[i] = task[o].req
  BY MessageInSlot
<1>2. task' = task
  BY DEF nsVars
<1>3. ~Served(o) /\ Served(o)'
  BY <1>1, <1>2 DEF Served, Waiting
<1>4. /\ AbstractCall(o) = [st |-> "sent", req |-> task[o].req, ret |-> task[o].got]
      /\ AbstractCall(o)' = [st |-> "served", req |-> task[o].req, ret |-> task[o].req]
  <2>1. reply'[i] = task[o].req
    BY <1>0, <1>1 DEF MailboxTypeOK
  <2> QED
    BY <1>1, <1>2, <1>3, <2>1 DEF AbstractCall, Waiting
<1>5. ASSUME NEW u \in Task, u # o PROVE AbstractCall(u)' = AbstractCall(u)
  <2>1. task[u].pc \in Owning \cup {"clear"} => task[u].idx # i
    BY <1>1, <1>2, <1>5 DEF MailboxIInv, MailboxInv, Holds, Owning, Waiting
  <2>2. task[u].idx \in Slot
    BY <1>0 DEF MailboxTypeOK
  <2>3. Served(u)' <=> Served(u)
    BY <1>2, <2>1, <2>2 DEF Served, Owning, Waiting
  <2>4. Served(u) /\ task[u].pc \notin {"clear", "unlock"} =>
          reply'[task[u].idx] = reply[task[u].idx]
    BY <1>0, <2>1, <2>2 DEF Served, MailboxTypeOK, Owning, Waiting
  <2> QED
    BY <1>2, <2>3, <2>4 DEF AbstractCall
<1>6. /\ Calls[o].st = "sent"
      /\ Calls' = [Calls EXCEPT ![o].st = "served", ![o].ret = Calls[o].req]
  BY <1>1, <1>4, <1>5 DEF Calls
<1> QED
  BY <1>1, <1>6 DEF R!Serve, Calls

\* Taking the semaphore is the step that sends the request.
LEMMA AcquireSends ==
  ASSUME MailboxIInv, NEW t \in Task, NEW kind \in Kinds, Acquire(t, kind)
  PROVE  \E r \in Message : R!Send(t, r)
<1>0. MailboxTypeOK /\ task[t] \in TaskState /\ task[t].pc = "idle"
  BY DEF MailboxIInv, MailboxInv, MailboxTypeOK, TaskState, Acquire, At
<1>1. PICK m \in Message : task' = [task EXCEPT ![t].pc = "slot", ![t].req = m]
  <2>1. [from |-> t, type |-> kind, num |-> task[t].req.num + 1] \in Message
    BY <1>0, MailboxAssumption DEF TaskState, Message, Acquire
  <2> QED
    BY <2>1 DEF Acquire
<1>2. UNCHANGED <<replied, reply, woken, spe>>
  BY DEF Acquire, queueVars, isrVars, speVars
<1>3. /\ \A u \in Task : u # t => task'[u] = task[u]
      /\ task'[t].pc = "slot" /\ task'[t].req = m /\ task'[t].got = task[t].got
  BY <1>0, <1>1, <1>2 DEF MailboxTypeOK, TaskState
<1>4. \A u \in Task : u # t => AbstractCall(u)' = AbstractCall(u)
  BY <1>2, <1>3 DEF AbstractCall, Served, Answered
<1>5. /\ AbstractCall(t) = [st |-> "idle", req |-> task[t].req, ret |-> task[t].got]
      /\ AbstractCall(t)' = [st |-> "sent", req |-> m, ret |-> task[t].got]
  BY <1>0, <1>3 DEF AbstractCall, Served
<1>6. /\ Calls[t].st = "idle"
      /\ Calls' = [Calls EXCEPT ![t] = [st |-> "sent", req |-> m, ret |-> @.ret]]
  <2>1. Calls[t].st = "idle" /\ Calls[t].ret = task[t].got
    BY <1>5 DEF Calls
  <2>2. AbstractCall(t)' = [st |-> "sent", req |-> m, ret |-> Calls[t].ret]
    BY <1>5, <2>1
  <2>3. /\ Calls = [u \in Task |-> AbstractCall(u)]
        /\ Calls' = [u \in Task |-> AbstractCall(u)']
    BY DEF Calls
  <2> QED
    BY <1>4, <2>1, <2>2, <2>3
<1>7. R!Send(t, m)
  BY <1>6 DEF R!Send, Calls
<1> QED
  BY <1>1, <1>7

\* Releasing the semaphore is the step that returns the call.
LEMMA ReleaseReturns ==
  ASSUME MailboxIInv, NEW t \in Task, Release(t)
  PROVE  R!Return(t)
<1>0. MailboxTypeOK /\ task[t] \in TaskState /\ task[t].pc = "unlock"
  BY DEF MailboxIInv, MailboxInv, MailboxTypeOK, TaskState, Release, At
<1>1. /\ task' = [task EXCEPT ![t].pc = "idle", ![t].idx = 0]
      /\ UNCHANGED <<replied, reply, woken, spe>>
  BY DEF Release, queueVars, isrVars, speVars
<1>2. /\ \A u \in Task : u # t => task'[u] = task[u]
      /\ task'[t].pc = "idle" /\ task'[t].req = task[t].req
      /\ task'[t].got = task[t].got
  BY <1>0, <1>1 DEF MailboxTypeOK, TaskState
<1>3. \A u \in Task : u # t => AbstractCall(u)' = AbstractCall(u)
  BY <1>1, <1>2 DEF AbstractCall, Served, Answered
<1>4. /\ AbstractCall(t).st = "served"
      /\ AbstractCall(t)' = [AbstractCall(t) EXCEPT !.st = "idle"]
  BY <1>0, <1>2 DEF AbstractCall, Served
<1>5. /\ Calls[t].st = "served"
      /\ Calls' = [Calls EXCEPT ![t].st = "idle"]
  BY <1>3, <1>4 DEF Calls
<1> QED
  BY <1>5 DEF R!Return, Calls

\* The other steps of a task change no call.
LEMMA TaskStutters ==
  ASSUME MailboxIInv, NEW t \in Task, TaskStep(t), ~Release(t)
  PROVE  UNCHANGED Calls
<1> DEFINE i == task[t].idx
<1>0. /\ MailboxTypeOK /\ MailboxInv /\ task[t] \in TaskState /\ i \in Slot
  BY DEF MailboxIInv, MailboxInv, MailboxTypeOK, TaskState
<1>1. \A u \in Task : u # t => task'[u] = task[u]
  BY <1>0, GotoProperties DEF MailboxTypeOK, TaskStep, acquire_empty_slot, FillMessage,
    set_queue_slot_pend, NotifySpe, WaitFlag, is_queue_slot_woken, RxReply, RxClear, Goto
<1>2. UNCHANGED <<reply, spe>>
  BY DEF TaskStep, acquire_empty_slot, FillMessage, set_queue_slot_pend, NotifySpe,
     WaitFlag, is_queue_slot_woken, RxReply, RxClear, speVars
<1>3. \/ UNCHANGED <<replied, woken>>
      \/ task[t].pc = "clear" /\ replied' = replied \ {i}
         /\ woken' = [woken EXCEPT ![i] = FALSE]
  BY DEF TaskStep, acquire_empty_slot, FillMessage, set_queue_slot_pend, NotifySpe,
     WaitFlag, is_queue_slot_woken, RxReply, RxClear, speVars, queueVars, isrVars,
     clear_queue_slot_woken, At
<1>4. ASSUME NEW u \in Task, u # t PROVE AbstractCall(u)' = AbstractCall(u)
  <2>1. task[u].pc \in Waiting => task[u].idx \in Slot
    BY <1>0 DEF MailboxTypeOK
  <2>2. task[u].pc \in Waiting /\ task[t].pc = "clear" => task[u].idx # i
    BY <1>0, <1>4 DEF MailboxInv, Holds, Waiting
  <2>3. task[u].pc \in Waiting => (Answered(task[u].idx)' <=> Answered(task[u].idx))
    BY <1>0, <1>1, <1>2, <1>3, <1>4, <2>1, <2>2 DEF Answered, MailboxTypeOK
  <2> QED
    BY <1>1, <1>2, <1>4, <2>3 DEF AbstractCall, Served, Waiting
<1>5. AbstractCall(t)' = AbstractCall(t)
  <2>1. CASE acquire_empty_slot(t)
    <3>1. /\ task[t].pc = "slot"
          /\ task' = [task EXCEPT ![t].pc = "fill", ![t].idx = First(empty)]
      BY <2>1, NeverFullHolds DEF acquire_empty_slot, At, NeverFull
    <3>2. /\ task'[t].pc = "fill" /\ task'[t].req = task[t].req
          /\ task'[t].got = task[t].got
      BY <1>0, <3>1 DEF MailboxTypeOK, TaskState
    <3> QED
      BY <3>1, <3>2 DEF AbstractCall, Served
  <2>2. CASE FillMessage(t)
    <3>1. /\ task[t].pc = "fill" /\ task'[t].pc = "pend" /\ task'[t].req = task[t].req
          /\ task'[t].got = task[t].got
      BY <1>0, <2>2, GotoProperties DEF FillMessage, At, TaskPc
    <3> QED
      BY <3>1 DEF AbstractCall, Served
  <2>3. CASE set_queue_slot_pend(t)
    <3>1. /\ task[t].pc = "pend" /\ task'[t].pc = "notify" /\ task'[t].req = task[t].req
          /\ task'[t].got = task[t].got /\ task'[t].idx = i
      BY <1>0, <2>3, GotoProperties DEF set_queue_slot_pend, At, TaskPc
    <3>2. owner[i] = t
      BY <3>1 DEF MailboxIInv, OwnerInv, Owning
    <3>3. i \notin replied \cup spe.replies
      BY <3>1, <3>2 DEF MailboxIInv, WorkInv, Waiting
    <3>4. ~woken[i]
      BY <1>0, <3>1 DEF MailboxIInv, MailboxInv, WokenInv, Holds, Waiting
    <3>5. ~Answered(i)'
      BY <1>0, <1>2, <1>3, <3>1, <3>3, <3>4 DEF Answered
    <3> QED
      BY <3>1, <3>5 DEF AbstractCall, Served
  <2>4. CASE NotifySpe(t) \/ WaitFlag(t) \/ is_queue_slot_woken(t)
    <3>1. /\ task[t].pc \in Waiting /\ task'[t].pc \in Waiting \cup {"rx"}
          /\ task'[t].pc = "rx" => woken[i]
          /\ task'[t].req = task[t].req
          /\ task'[t].got = task[t].got /\ task'[t].idx = i
      BY <1>0, <2>4, GotoProperties
         DEF NotifySpe, WaitFlag, is_queue_slot_woken, At, TaskPc, Waiting
    <3>2. Answered(i)' <=> Answered(i)
      BY <1>2, <1>3, <3>1 DEF Answered, Waiting
    <3>3. Served(t) <=> Answered(i)
      BY <3>1 DEF Served, Waiting
    <3>4. Served(t)' <=> Answered(i)
      BY <3>1, <3>2 DEF Served, Waiting, Answered
    <3> QED
      BY <1>2, <3>1, <3>3, <3>4 DEF AbstractCall, Waiting
  <2>5. CASE RxReply(t)
    <3>1. /\ task[t].pc = "rx"
          /\ task' = [task EXCEPT ![t].pc = "clear", ![t].got = reply[i]]
      BY <2>5 DEF RxReply, At
    <3>2. /\ task'[t].pc = "clear" /\ task'[t].req = task[t].req
          /\ task'[t].got = reply[i]
      BY <1>0, <3>1 DEF MailboxTypeOK, TaskState
    <3> QED
      BY <3>1, <3>2 DEF AbstractCall, Served
  <2>6. CASE RxClear(t)
    <3>1. /\ task[t].pc = "clear" /\ task'[t].pc = "unlock" /\ task'[t].req = task[t].req
          /\ task'[t].got = task[t].got
      BY <1>0, <2>6, GotoProperties DEF RxClear, At, TaskPc
    <3> QED
      BY <3>1 DEF AbstractCall, Served
  <2> QED
    BY <2>1, <2>2, <2>3, <2>4, <2>5, <2>6 DEF TaskStep
<1> QED
  BY <1>4, <1>5 DEF Calls

\* Interrupts, notifications and the begin of a turn change no call.
LEMMA IsrStutters ==
  ASSUME MailboxIInv,
         Isr \/ SpeIrqClear \/ SpeIrqRelease \/ OtherPendSV \/ HandleMsg \/ NotifyNs
  PROVE  UNCHANGED Calls
<1>0. MailboxTypeOK
  BY DEF MailboxIInv, MailboxInv
<1>1. UNCHANGED nsVars /\ UNCHANGED reply
  BY DEF Isr, IsrClear, IsrRelease, IsrFetch, IsrMove, SpeIrqClear, SpeIrqRelease,
         OtherPendSV, HandleMsg, NotifyNs
<1>2. \A j \in Slot : Answered(j)' <=> Answered(j)
  <2>1. CASE IsrMove
    <3>1. First(isr.snap) \in replied
      BY <1>0, <2>1, FirstProperties DEF IsrMove, MailboxIInv, SpeInv, MailboxTypeOK
    <3> QED
      BY <1>0, <2>1, <3>1 DEF IsrMove, Answered, MailboxTypeOK, speVars
  <2>2. CASE HandleMsg
    <3>1. spe.pc = "idle" /\ (spe' = spe \/ spe'.replies = {})
      BY <1>0, <2>2 DEF HandleMsg, SpeAt, MailboxTypeOK
    <3> QED
      BY <2>2, <3>1 DEF HandleMsg, Answered, queueVars, isrVars
  <2>3. CASE NotifyNs
    BY <2>3 DEF NotifyNs, SpeAt, SpeIdle, Answered, queueVars, isrVars
  <2>4. CASE \/ IsrClear \/ IsrRelease \/ IsrFetch \/ SpeIrqClear \/ SpeIrqRelease
             \/ OtherPendSV
    BY <2>4 DEF IsrClear, IsrRelease, IsrFetch, SpeIrqClear, SpeIrqRelease,
                OtherPendSV, Answered, queueVars, isrVars, speVars
  <2> QED
    BY <2>1, <2>2, <2>3, <2>4 DEF Isr
<1> QED
  BY <1>1, <1>2, AnswersSame

\* Marking answered slots as replied changes no call.
LEMMA StatusStutters ==
  ASSUME MailboxIInv, FinishMsg \/ SetReplied
  PROVE  UNCHANGED Calls
<1>1. UNCHANGED nsVars /\ UNCHANGED reply /\ UNCHANGED isrVars
  BY DEF FinishMsg, SetReplied
<1>2. /\ replied' = replied \cup spe.replies
      /\ spe.pc \in {"loop", "reply"} /\ spe'.replies = {}
  BY DEF FinishMsg, SetReplied, SpeAt, SpeIdle
<1>3. \A j \in Slot : Answered(j)' <=> Answered(j)
  BY <1>1, <1>2 DEF Answered, isrVars
<1> QED
  BY <1>1, <1>3, AnswersSame

\* Dispatching a message serves its call if the SPM answers it at once.
LEMMA DispatchServes ==
  ASSUME MailboxIInv, DispatchMsg
  PROVE  UNCHANGED Calls \/ \E t \in Task : R!Serve(t)
<1> DEFINE i == First(spe.todo)
<1>0. MailboxTypeOK /\ spe.pc = "loop" /\ spe.todo # {}
  BY DEF MailboxIInv, MailboxInv, DispatchMsg, SpeAt
<1>1. i \in spe.todo /\ i \in pend /\ i \in Slot
  BY <1>0, FirstProperties DEF MailboxIInv, MailboxTypeOK, SpeInv
<1>2. PICK res \in SpmResult(msg[i].type) :
           /\ IF res = "answered" THEN mailbox_direct_reply(i, msg[i])
              ELSE /\ speMsg' = [speMsg EXCEPT ![i] = msg[i]]
                   /\ UNCHANGED reply
           /\ spm' = IF res = "accepted" THEN spm \cup {i} ELSE spm
           /\ spe' = [spe EXCEPT !.todo = @ \ {i}, !.replies =
                        IF res = "answered" THEN @ \cup {i} ELSE @]
  BY DEF DispatchMsg
<1>3. UNCHANGED nsVars /\ UNCHANGED queueVars /\ UNCHANGED isrVars
  BY DEF DispatchMsg
<1>4. ~Answered(i)
  BY <1>1 DEF MailboxIInv, StageInv, Answered
<1> HIDE DEF i
<1>5. /\ spe'.pc = "loop"
      /\ spe'.replies = IF res = "answered" THEN spe.replies \cup {i} ELSE spe.replies
  BY <1>0, <1>2 DEF MailboxTypeOK
<1>6. CASE res = "answered"
  <2>1. reply' = [reply EXCEPT ![i] = msg[i]]
    BY <1>2, <1>6 DEF mailbox_direct_reply, get_nspe_reply_addr
  <2>2. \A j \in Slot : Answered(j)' <=> Answered(j) \/ j = i
    BY <1>0, <1>3, <1>5, <1>6 DEF Answered, queueVars, isrVars
  <2>3. R!Serve(owner[i])
    BY <1>1, <1>3, <1>4, <2>1, <2>2, AnswerServes
  <2>4. owner[i] \in Task
    BY <1>1, MessageInSlot
  <2> QED
    BY <2>3, <2>4
<1>7. CASE res # "answered"
  <2>1. \A j \in Slot : Answered(j)' <=> Answered(j)
    BY <1>0, <1>3, <1>5, <1>7 DEF Answered, queueVars, isrVars
  <2> QED
    BY <1>2, <1>3, <1>7, <2>1, AnswersSame
<1> QED
  BY <1>6, <1>7

\* psa_reply() serves the call whose message the partition has.
LEMMA ReplyServes ==
  ASSUME MailboxIInv, NEW i \in Slot, ReplyMsg(i)
  PROVE  \E t \in Task : R!Serve(t)
<1>0. MailboxTypeOK /\ spe.pc = "idle" /\ i \in spm
  BY DEF MailboxIInv, MailboxInv, ReplyMsg, SpeAt
<1>1. speMsg[i] = msg[i] /\ msg[i] # NoMessage /\ owner[i] \in Task
  BY <1>0, MessageInSlot DEF MailboxIInv, AnswerInv
<1>2. /\ reply' = [reply EXCEPT ![i] = msg[i]]
      /\ spe' = [spe EXCEPT !.pc = "reply", !.replies = {i}]
      /\ UNCHANGED nsVars /\ UNCHANGED queueVars /\ UNCHANGED isrVars
  BY <1>1 DEF ReplyMsg, mailbox_direct_reply, get_nspe_reply_addr
<1>3. spe'.pc = "reply" /\ spe'.replies = {i}
  BY <1>0, <1>2 DEF MailboxTypeOK
<1>4. ~Answered(i)
  BY <1>0 DEF MailboxIInv, StageInv, Answered
<1>5. \A j \in Slot : Answered(j)' <=> Answered(j) \/ j = i
  BY <1>0, <1>2, <1>3 DEF Answered, queueVars, isrVars
<1> QED
  BY <1>0, <1>1, <1>2, <1>4, <1>5, AnswerServes

\* The mailbox implements Rpc: every client call of a non-secure task is served
\* once and returns the answer to this very request.  Writing the result field
\* serves it; the status bits, the interrupts and the wake-up are stutters.
THEOREM MailboxRefinesRpc == MailboxSpec => RpcRefined
<1>1. MailboxInit => R!RpcInit
  <2> SUFFICES ASSUME MailboxInit PROVE R!RpcInit
    OBVIOUS
  <2> DEFINE k == CHOOSE k \in Kinds : TRUE
             m(t) == [from |-> t, type |-> k, num |-> 0]
  <2>1. \A t \in Task : m(t) \in Message
    BY MailboxAssumption DEF Message
  <2>2. \A t \in Task : /\ task[t].pc = "idle"
                         /\ task[t].req = m(t) /\ task[t].got = m(t)
    BY DEF MailboxInit
  <2> HIDE DEF m, k
  <2>3. ASSUME NEW t \in Task PROVE AbstractCall(t) = R!NoRpc(m(t))
    <3>1. task[t].pc = "idle" /\ task[t].req = m(t) /\ task[t].got = m(t)
      BY <2>2
    <3>2. ~Served(t)
      BY <3>1 DEF Served
    <3> QED
      BY <3>1, <3>2 DEF AbstractCall, R!NoRpc
  <2> QED
    BY <2>1, <2>3 DEF R!RpcInit
<1>2. MailboxIInv /\ [MailboxNext]_mailboxVars => [R!RpcNext]_Calls
  <2> SUFFICES ASSUME MailboxIInv, [MailboxNext]_mailboxVars
               PROVE  R!RpcNext \/ UNCHANGED Calls
    OBVIOUS
  <2>1. ASSUME NEW t \in Task, NEW kind \in Kinds, Acquire(t, kind)
        PROVE  R!RpcNext
    BY <2>1, AcquireSends DEF R!RpcNext
  <2>2. ASSUME NEW t \in Task, TaskStep(t) PROVE R!RpcNext \/ UNCHANGED Calls
    BY <2>2, ReleaseReturns, TaskStutters DEF R!RpcNext
  <2>3. CASE Isr \/ OtherPendSV
    BY <2>3, IsrStutters
  <2>4. CASE SpeStep
    BY <2>4, IsrStutters, StatusStutters, DispatchServes DEF SpeStep, R!RpcNext
  <2>5. ASSUME NEW i \in Slot, ReplyMsg(i) PROVE R!RpcNext
    BY <2>5, ReplyServes DEF R!RpcNext
  <2>6. CASE UNCHANGED mailboxVars
    BY <2>6 DEF Calls, AbstractCall, Served, Answered, mailboxVars
  <2> QED
    BY <2>1, <2>2, <2>3, <2>4, <2>5, <2>6 DEF MailboxNext
<1> QED
  BY <1>1, <1>2, MailboxInductive, PTL DEF MailboxSpec, RpcRefined, R!RpcSpec, Calls
=============================================================================
