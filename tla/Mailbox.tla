------------------------------ MODULE Mailbox ------------------------------
(***************************************************************************)
(* The mailbox between the non-secure core (NSPE) and the secure core      *)
(* (SPE) of a dual-core system, with multiple outstanding client calls:    *)
(*   tfm_multi_core_psa_ns_api.c, tfm_ns_mailbox.c - the client calls of   *)
(*     the non-secure tasks and the queue in non-secure memory;            *)
(*   tfm_spe_mailbox.c, tfm_rpc.c - the secure side: PendSV takes the      *)
(*     requests, psa_reply() of a partition answers them;                  *)
(*   platform/ext/target/cypress/psoc64/mailbox - the notifications.       *)
(*                                                                         *)
(* The two cores interleave at every access to the shared queue.  Each     *)
(* critical section (the inter-core semaphore, with interrupts off on the  *)
(* non-secure core) is one step.  Tasks preempt each other; an interrupt   *)
(* handler runs while no task or thread of its core does.                  *)
(***************************************************************************)
EXTENDS Naturals, FiniteSets

CONSTANTS
  NumSlot,   \* NUM_MAILBOX_QUEUE_SLOT
  Task,      \* the non-secure tasks
  Kinds,     \* the client calls they make
  MaxCalls,  \* bound: how many calls each of them makes
  NULL

CallType == {"FRAMEWORK_VERSION", "VERSION", "CONNECT", "CALL", "CLOSE",
             "CLOSE_NULL"}   \* CLOSE_NULL: psa_close(PSA_NULL_HANDLE)

ASSUME MailboxAssumption ==
  /\ NumSlot \in Nat \ {0}
  /\ Kinds \subseteq CallType /\ Kinds # {}
  /\ MaxCalls \in Nat
  /\ NULL \notin Task

Slot == 0..(NumSlot - 1)

\* A message, and the answer to it: who sent it, what it asks and which one of
\* its task's calls it is.
Message == [from: Task, type: Kinds, num: 0..MaxCalls]
NoMessage == [from |-> NULL, type |-> NULL, num |-> 0]   \* zeroed memory

VARIABLES
  empty, pend, replied,   \* empty_slots, pend_slots, replied_slots
  msg, reply,             \* queue[].msg and queue[].reply
  owner, woken,           \* queue[].owner and queue[].is_woken
  sema,                   \* ns_lock_handle, a counting semaphore
  flags,                  \* thread flags of each task, one for each handle
  task,                   \* where each task is in its client call
  isr,                    \* the reply interrupt handler of the NSPE
  toSpe, toNs,            \* the two notification channels
  pendsv,                 \* PendSV is pending on the secure core
  spe,                    \* where the secure side is in the mailbox code
  speMsg,                 \* spe_mailbox_queue.queue[].msg, NoMessage if empty
  spm                     \* messages the SPM has accepted and not answered

nsVars == <<empty, msg, owner, sema, task>>
queueVars == <<pend, replied>>
isrVars == <<isr, woken, flags>>
speVars == <<pendsv, spe, speMsg, spm>>
mailboxVars == <<empty, pend, replied, msg, reply, owner, woken, sema, flags,
                 task, isr, toSpe, toNs, pendsv, spe, speMsg, spm>>

First(S) == CHOOSE i \in S : \A j \in S : i <= j

\* Cy_IPC_Drv_SendMsgWord(): a channel that the receiver has not released is
\* busy and the notification is dropped (MAILBOX_CHAN_BUSY is ignored).
notify_peer(chan) == IF chan = "free" THEN "sent" ELSE chan
-----------------------------------------------------------------------------
(* A client call of a non-secure task. *)

\* The task runs: no interrupt handler is active on its core.
At(t, pc) == task[t].pc = pc /\ isr.pc = "idle"

Goto(t, pc) == task' = [task EXCEPT ![t].pc = pc]

\* Mutant: the semaphore lets one task too many pass.
MAX_SEMAPHORE_COUNT_plus_one == NumSlot + 1

MAX_SEMAPHORE_COUNT == NumSlot

\* tfm_ns_multi_core_lock_acquire()
Acquire(t, kind) ==
  /\ At(t, "idle")
  /\ sema > 0
  /\ task[t].req.num < MaxCalls
  /\ sema' = sema - 1
  /\ task' = [task EXCEPT ![t].pc = "slot",
                          ![t].req = [from |-> t, type |-> kind,
                                      num |-> @.num + 1]]
  /\ UNCHANGED <<empty, msg, reply, owner, toSpe, toNs>>
  /\ UNCHANGED queueVars /\ UNCHANGED isrVars /\ UNCHANGED speVars

\* Mutant: the slot is not marked as taken.
clear_queue_slot_empty_lost(i) == empty

clear_queue_slot_empty(i) == empty \ {i}

\* The first empty slot; with none the call fails and the lock is released.
acquire_empty_slot(t) ==
  /\ At(t, "slot")
  /\ IF empty = {}
     THEN Goto(t, "unlock") /\ UNCHANGED empty
     ELSE /\ empty' = clear_queue_slot_empty(First(empty))
          /\ task' = [task EXCEPT ![t].pc = "fill", ![t].idx = First(empty)]
  /\ UNCHANGED <<msg, reply, owner, sema, toSpe, toNs>>
  /\ UNCHANGED queueVars /\ UNCHANGED isrVars /\ UNCHANGED speVars

FillMessage(t) ==
  /\ At(t, "fill")
  /\ msg' = [msg EXCEPT ![task[t].idx] = task[t].req]
  /\ owner' = [owner EXCEPT ![task[t].idx] = t]
  /\ Goto(t, "pend")
  /\ UNCHANGED <<empty, reply, sema, toSpe, toNs>>
  /\ UNCHANGED queueVars /\ UNCHANGED isrVars /\ UNCHANGED speVars

set_queue_slot_pend(t) ==
  /\ At(t, "pend")
  /\ pend' = pend \cup {task[t].idx}
  /\ Goto(t, "notify")
  /\ UNCHANGED <<empty, replied, msg, reply, owner, sema, toSpe, toNs>>
  /\ UNCHANGED isrVars /\ UNCHANGED speVars

NotifySpe(t) ==
  /\ At(t, "notify")
  /\ toSpe' = notify_peer(toSpe)
  /\ Goto(t, "wait")
  /\ UNCHANGED <<empty, msg, reply, owner, sema, toNs>>
  /\ UNCHANGED queueVars /\ UNCHANGED isrVars /\ UNCHANGED speVars

\* tfm_ns_mailbox_hal_wait_reply(): the thread flag of the handle is consumed.
WaitFlag(t) ==
  /\ At(t, "wait")
  /\ task[t].idx \in flags[t]
  /\ flags' = [flags EXCEPT ![t] = @ \ {task[t].idx}]
  /\ Goto(t, "check")
  /\ UNCHANGED <<empty, msg, reply, owner, sema, isr, woken, toSpe, toNs>>
  /\ UNCHANGED queueVars /\ UNCHANGED speVars

is_queue_slot_woken(t) ==
  /\ At(t, "check")
  /\ Goto(t, IF woken[task[t].idx] THEN "rx" ELSE "wait")
  /\ UNCHANGED <<empty, msg, reply, owner, sema, toSpe, toNs>>
  /\ UNCHANGED queueVars /\ UNCHANGED isrVars /\ UNCHANGED speVars

\* tfm_ns_mailbox_rx_client_reply(): the result is read and the owner cleared,
RxReply(t) ==
  /\ At(t, "rx")
  /\ task' = [task EXCEPT ![t].pc = "clear", ![t].got = reply[task[t].idx]]
  /\ owner' = [owner EXCEPT ![task[t].idx] = NULL]
  /\ UNCHANGED <<empty, msg, reply, sema, toSpe, toNs>>
  /\ UNCHANGED queueVars /\ UNCHANGED isrVars /\ UNCHANGED speVars

\* Mutant: the woken mark is left for the next call that uses the slot.
clear_queue_slot_woken_lost(i) == woken

clear_queue_slot_woken(i) == [woken EXCEPT ![i] = FALSE]

\* then the slot is given back in one critical section.
RxClear(t) ==
  /\ At(t, "clear")
  /\ replied' = replied \ {task[t].idx}
  /\ woken' = clear_queue_slot_woken(task[t].idx)
  /\ empty' = empty \cup {task[t].idx}
  /\ Goto(t, "unlock")
  /\ UNCHANGED <<pend, msg, reply, owner, sema, flags, isr, toSpe, toNs>>
  /\ UNCHANGED speVars

\* tfm_ns_multi_core_lock_release() and the return to the task
Release(t) ==
  /\ At(t, "unlock")
  /\ sema' = sema + 1
  /\ task' = [task EXCEPT ![t].pc = "idle", ![t].idx = 0]
  /\ UNCHANGED <<empty, msg, reply, owner, toSpe, toNs>>
  /\ UNCHANGED queueVars /\ UNCHANGED isrVars /\ UNCHANGED speVars

TaskStep(t) ==
  \/ acquire_empty_slot(t)
  \/ FillMessage(t)
  \/ set_queue_slot_pend(t)
  \/ NotifySpe(t)
  \/ WaitFlag(t)
  \/ is_queue_slot_woken(t)
  \/ RxReply(t)
  \/ RxClear(t)
  \/ Release(t)
-----------------------------------------------------------------------------
(* The reply interrupt of the non-secure core: cpuss_interrupts_ipc_5_     *)
(* IRQHandler() and tfm_ns_mailbox_fetch_reply_msg_isr().                  *)

IsrClear ==
  /\ isr.pc = "idle" /\ toNs = "sent"
  /\ toNs' = "acked"
  /\ isr' = [isr EXCEPT !.pc = "release"]
  /\ UNCHANGED <<reply, woken, flags, toSpe>>
  /\ UNCHANGED nsVars /\ UNCHANGED queueVars /\ UNCHANGED speVars

IsrRelease ==
  /\ isr.pc = "release"
  /\ toNs' = "free"
  /\ isr' = [isr EXCEPT !.pc = "fetch"]
  /\ UNCHANGED <<reply, woken, flags, toSpe>>
  /\ UNCHANGED nsVars /\ UNCHANGED queueVars /\ UNCHANGED speVars

IsrFetch ==
  /\ isr.pc = "fetch"
  /\ isr' = [pc |-> IF replied = {} THEN "idle" ELSE "move", snap |-> replied]
  /\ UNCHANGED <<reply, woken, flags, toSpe, toNs>>
  /\ UNCHANGED nsVars /\ UNCHANGED queueVars /\ UNCHANGED speVars

\* The first replied slot is marked woken and its owner's flag is set; the
\* handler goes on until it finds no more replies.
IsrMove ==
  /\ isr.pc = "move"
  /\ LET i == First(isr.snap)
     IN  /\ replied' = replied \ {i}
         /\ woken' = [woken EXCEPT ![i] = TRUE]
         /\ flags' = IF owner[i] = NULL THEN flags
                     ELSE [flags EXCEPT ![owner[i]] = @ \cup {i}]
  /\ isr' = [pc |-> "fetch", snap |-> {}]
  /\ UNCHANGED <<pend, reply, toSpe, toNs>>
  /\ UNCHANGED nsVars /\ UNCHANGED speVars

Isr == IsrClear \/ IsrRelease \/ IsrFetch \/ IsrMove
-----------------------------------------------------------------------------
(* The secure core.  Its thread and PendSV code does not run while its     *)
(* mailbox interrupt handler does.                                         *)

SpeAt(pc) == spe.pc = pc /\ toSpe # "acked"

SpeIdle == [pc |-> "idle", snap |-> {}, todo |-> {}, replies |-> {}]

\* NvicMux7_IRQHandler(): acknowledge, release the channel, trigger PendSV.
SpeIrqClear ==
  /\ toSpe = "sent"
  /\ toSpe' = "acked"
  /\ UNCHANGED <<reply, toNs>>
  /\ UNCHANGED nsVars /\ UNCHANGED queueVars /\ UNCHANGED isrVars
  /\ UNCHANGED speVars

SpeIrqRelease ==
  /\ toSpe = "acked"
  /\ toSpe' = "free"
  /\ pendsv' = TRUE
  /\ UNCHANGED <<reply, toNs, spe, speMsg, spm>>
  /\ UNCHANGED nsVars /\ UNCHANGED queueVars /\ UNCHANGED isrVars

\* The scheduler of the SPM triggers PendSV for reasons of its own.
OtherPendSV ==
  /\ SpeAt("idle") /\ ~pendsv
  /\ pendsv' = TRUE
  /\ UNCHANGED <<reply, toSpe, toNs, spe, speMsg, spm>>
  /\ UNCHANGED nsVars /\ UNCHANGED queueVars /\ UNCHANGED isrVars

\* PendSV ends in tfm_mailbox_handle_msg(), which takes the pending slots.
HandleMsg ==
  /\ SpeAt("idle") /\ pendsv
  /\ pendsv' = FALSE
  /\ spe' = IF pend = {} THEN spe   \* MAILBOX_NO_PEND_EVENT
            ELSE [spe EXCEPT !.pc = "loop", !.snap = pend, !.todo = pend,
                             !.replies = {}]
  /\ UNCHANGED <<reply, toSpe, toNs, speMsg, spm>>
  /\ UNCHANGED nsVars /\ UNCHANGED queueVars /\ UNCHANGED isrVars

\* What the SPM does with a dispatched message: it answers a version call at
\* once, fails or accepts a connect or call, accepts a close, and ignores a
\* close of the null handle.
SpmResult(type) ==
  CASE type \in {"FRAMEWORK_VERSION", "VERSION"} -> {"answered"}
    [] type \in {"CONNECT", "CALL"} -> {"answered", "accepted"}
    [] type = "CLOSE" -> {"accepted"}
    [] type = "CLOSE_NULL" -> {"ignored"}

\* Mutant: the answer goes to the first slot.
get_nspe_reply_addr_first(i) == 0

\* The SPE slot i has been filled from the NSPE slot of the same number.
get_nspe_reply_addr(i) == i

\* mailbox_direct_reply(): write the result and clean the SPE slot.
mailbox_direct_reply(i, m) ==
  /\ reply' = [reply EXCEPT ![get_nspe_reply_addr(i)] = m]
  /\ speMsg' = [speMsg EXCEPT ![i] = NoMessage]

\* One turn of the loop: the message is copied and dispatched.
DispatchMsg ==
  /\ SpeAt("loop") /\ spe.todo # {}
  /\ LET i == First(spe.todo)
     IN  \E res \in SpmResult(msg[i].type) :
           /\ IF res = "answered" THEN mailbox_direct_reply(i, msg[i])
              ELSE /\ speMsg' = [speMsg EXCEPT ![i] = msg[i]]
                   /\ UNCHANGED reply
           /\ spm' = IF res = "accepted" THEN spm \cup {i} ELSE spm
           /\ spe' = [spe EXCEPT !.todo = @ \ {i}, !.replies =
                        IF res = "answered" THEN @ \cup {i} ELSE @]
  /\ UNCHANGED <<toSpe, toNs, pendsv>>
  /\ UNCHANGED nsVars /\ UNCHANGED queueVars /\ UNCHANGED isrVars

\* Mutant: every pending slot is cleared, taken or not.
clear_nspe_queue_pend_status_all(mask) == {}

clear_nspe_queue_pend_status(mask) == pend \ mask

FinishMsg ==
  /\ SpeAt("loop") /\ spe.todo = {}
  /\ pend' = clear_nspe_queue_pend_status(spe.snap)
  /\ replied' = replied \cup spe.replies
  /\ spe' = IF spe.replies = {} THEN SpeIdle ELSE [SpeIdle EXCEPT !.pc = "notify"]
  /\ UNCHANGED <<reply, toSpe, toNs, pendsv, speMsg, spm>>
  /\ UNCHANGED nsVars /\ UNCHANGED isrVars

\* psa_reply() of a partition calls tfm_mailbox_reply_msg(): the result is
\* written and the slot cleaned,
ReplyMsg(i) ==
  /\ SpeAt("idle") /\ ~pendsv
  /\ i \in spm
  /\ spm' = spm \ {i}
  /\ IF speMsg[i] = NoMessage THEN UNCHANGED <<reply, speMsg, spe>>
     ELSE /\ mailbox_direct_reply(i, speMsg[i])
          /\ spe' = [spe EXCEPT !.pc = "reply", !.replies = {i}]
  /\ UNCHANGED <<toSpe, toNs, pendsv>>
  /\ UNCHANGED nsVars /\ UNCHANGED queueVars /\ UNCHANGED isrVars

\* then the slot is marked as replied
SetReplied ==
  /\ SpeAt("reply")
  /\ replied' = replied \cup spe.replies
  /\ spe' = [SpeIdle EXCEPT !.pc = "notify"]
  /\ UNCHANGED <<pend, reply, toSpe, toNs, pendsv, speMsg, spm>>
  /\ UNCHANGED nsVars /\ UNCHANGED isrVars

\* and the non-secure core notified.
NotifyNs ==
  /\ SpeAt("notify")
  /\ toNs' = notify_peer(toNs)
  /\ spe' = SpeIdle
  /\ UNCHANGED <<reply, toSpe, pendsv, speMsg, spm>>
  /\ UNCHANGED nsVars /\ UNCHANGED queueVars /\ UNCHANGED isrVars

SpeStep == \/ SpeIrqClear \/ SpeIrqRelease \/ HandleMsg \/ DispatchMsg
           \/ FinishMsg \/ SetReplied \/ NotifyNs
-----------------------------------------------------------------------------
(* The specification.  tfm_ns_mailbox_init() and tfm_mailbox_init() have   *)
(* run.                                                                    *)

MailboxInit ==
  /\ empty = Slot /\ pend = {} /\ replied = {}
  /\ msg = [i \in Slot |-> NoMessage]
  /\ reply = [i \in Slot |-> NoMessage]
  /\ owner = [i \in Slot |-> NULL]
  /\ woken = [i \in Slot |-> FALSE]
  /\ sema = MAX_SEMAPHORE_COUNT
  /\ flags = [t \in Task |-> {}]
  /\ task = [t \in Task |->
       LET m == [from |-> t, type |-> CHOOSE k \in Kinds : TRUE, num |-> 0]
       IN  [pc |-> "idle", req |-> m, idx |-> 0, got |-> m]]
  /\ isr = [pc |-> "idle", snap |-> {}]
  /\ toSpe = "free" /\ toNs = "free"
  /\ pendsv = FALSE
  /\ spe = SpeIdle
  /\ speMsg = [i \in Slot |-> NoMessage]
  /\ spm = {}

MailboxNext ==
  \/ \E t \in Task, kind \in Kinds : Acquire(t, kind)
  \/ \E t \in Task : TaskStep(t)
  \/ Isr
  \/ SpeStep
  \/ OtherPendSV
  \/ \E i \in Slot : ReplyMsg(i)

MailboxSpec == MailboxInit /\ [][MailboxNext]_mailboxVars

\* Both cores keep running: an interrupted task goes on when the handler is
\* done, and a partition sooner or later answers what it has accepted.
MailboxFairness ==
  /\ \A t \in Task : SF_mailboxVars(TaskStep(t))
  /\ WF_mailboxVars(Isr)
  /\ WF_mailboxVars(SpeStep)
  /\ \A i \in Slot : SF_mailboxVars(ReplyMsg(i))

MailboxFairSpec == MailboxSpec /\ MailboxFairness
-----------------------------------------------------------------------------
(* Properties *)

TaskPc == {"idle", "slot", "fill", "pend", "notify", "wait", "check", "rx",
           "clear", "unlock"}
Word == Message \cup {NoMessage}

\* The queue, the tasks and the secure side hold values of their types.
MailboxTypeOK ==
  /\ empty \subseteq Slot /\ pend \subseteq Slot /\ replied \subseteq Slot
  /\ msg \in [Slot -> Word] /\ reply \in [Slot -> Word]
  /\ owner \in [Slot -> Task \cup {NULL}] /\ woken \in [Slot -> BOOLEAN]
  /\ sema \in 0..NumSlot
  /\ flags \in [Task -> SUBSET Slot]
  /\ task \in [Task -> [pc: TaskPc, req: Message, idx: Slot, got: Word]]
  /\ isr \in [pc: {"idle", "release", "fetch", "move"}, snap: SUBSET Slot]
  /\ toSpe \in {"free", "sent", "acked"} /\ toNs \in {"free", "sent", "acked"}
  /\ pendsv \in BOOLEAN
  /\ spe \in [pc: {"idle", "loop", "reply", "notify"}, snap: SUBSET Slot,
              todo: SUBSET Slot, replies: SUBSET Slot]
  /\ speMsg \in [Slot -> Word] /\ spm \subseteq Slot

\* The task has a slot of the queue; it waits for the answer in it.
Holds(t, i) ==
  task[t].idx = i /\ task[t].pc \notin {"idle", "slot", "unlock"}
Waits(t, i) == task[t].idx = i /\ task[t].pc \in {"notify", "wait", "check"}

\* The answer for slot i is in the queue or, its status still to be written,
\* in the hands of the secure side.
Answered(i) ==
  i \in replied \/ woken[i] \/ (spe.pc \in {"loop", "reply"} /\ i \in spe.replies)

\* The state is well formed, and a slot is free or one task has it: two client
\* calls never share a slot, whatever the other core and the interrupts do.
MailboxInv ==
  /\ MailboxTypeOK
  /\ \A t \in Task : \A i \in empty : ~Holds(t, i)
  /\ \A t, u \in Task : \A i \in Slot : Holds(t, i) /\ Holds(u, i) => t = u

\* The counting semaphore leaves a slot for every task it lets pass, so
\* MAILBOX_QUEUE_FULL never reaches a client.
NeverFull == \A t \in Task : task[t].pc = "slot" => empty # {}

\* The secure side works only on slots whose task waits, on the message this
\* task sent, and never has a message twice: not pending and dispatched,
\* dispatched and answered, or answered and pending once its turn is over.
SlotPhases ==
  /\ \A i \in Slot : i \in pend \cup spm \/ Answered(i) =>
       \E t \in Task : (Waits(t, i) \/ (woken[i] /\ Holds(t, i))) /\ msg[i] = task[t].req
  /\ \A i \in spm : speMsg[i] = msg[i] /\ ~Answered(i)
  /\ \A i \in pend : i \in spm \/ Answered(i) => i \in spe.snap \ spe.todo

\* A slot is marked as replied or woken only while it holds the answer to the
\* request that is in it.
ReplyMatches == \A i \in Slot : Answered(i) => reply[i] = msg[i]

\* No reply is slept through: once its slot is marked as woken, the waiting
\* task has its thread flag or has seen the mark.
NoLostWakeup ==
  \A t \in Task : \A i \in Slot :
    Waits(t, i) /\ task[t].pc # "check" /\ woken[i] => i \in flags[t]

\* The mailbox implements remote procedure calls.
Served(t) ==
  \/ task[t].pc \in {"rx", "clear", "unlock"}
  \/ task[t].pc \in {"notify", "wait", "check"} /\ Answered(task[t].idx)

AbstractCall(t) ==
  [st |-> IF task[t].pc = "idle" THEN "idle"
          ELSE IF Served(t) THEN "served" ELSE "sent",
   req |-> task[t].req,
   ret |-> IF Served(t) /\ task[t].pc \notin {"clear", "unlock"}
           THEN reply[task[t].idx] ELSE task[t].got]

R == INSTANCE Rpc WITH Request <- Message,
                       call <- [t \in Task |-> AbstractCall(t)]

\* Every client call is served once and returns the answer to itself: the
\* mailbox refines Rpc although both cores, their interrupts and the other
\* tasks interleave at every access and notifications are dropped.
RpcRefined == R!RpcSpec

\* Every client call of a non-secure task returns.
CallReturns == \A t \in Task : task[t].pc # "idle" ~> task[t].pc = "idle"
=============================================================================
