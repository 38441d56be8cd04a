--------------------------- MODULE SpmFuncProofs ---------------------------
(***************************************************************************)
(* Proofs about the secure partition manager of the library model (module  *)
(* SpmFunc), for any partitions, calls between them, interrupt lines with  *)
(* any priorities, non-secure threads and client slots: the database of    *)
(* partition states agrees with the code on the processor, the context     *)
(* stacks have room, a service learns the right caller, client slots serve *)
(* one thread each, and nothing panics.                                    *)
(*                                                                         *)
(* The argument.  The activations on the processor are those of the thread *)
(* (a chain of calls, 1..c) and on top of it the handlers of nested        *)
(* interrupts (c+1..Len(cpu)).  What the database says when only the       *)
(* thread runs is ThreadInv: it also says what the database holds between  *)
(* the stores of a half-done return.  An interrupt may come at any of      *)
(* them, so the database under handlers is described by its history: there *)
(* are databases D[c], ..., D[Len(cpu)], the first one a thread's, each    *)
(* next one what tfm_start_partition_for_irq_handling() makes of the one   *)
(* before, and the last one the database now (NestInv).  The return from   *)
(* a handler takes back exactly one of these steps.                        *)
(***************************************************************************)
EXTENDS SpmFunc, TLAPS, FiniteSetTheorems, NaturalsInduction,
        WellFoundedInduction

\* A frame of a context stack.
Frame == [kind: {"intr", "hndl"}, state: States, caller: Parts \cup {INVALID}]

\* g_spm_partition_db
Database ==
  [state: [Parts -> States], caller: [Parts -> Parts \cup {INVALID}],
   client: [Parts -> Int], mask: [Parts -> SUBSET Irqs],
   ctx: [Parts -> Seq(Frame)], running: Parts]

\* Where a return of a call between partitions can be half done.
ReturnPc == {"clean", "idle", "state", "index"}

\* What the processor keeps of an activation.
Active ==
  [kind: {"core", "ns", "call", "irq"}, part: Parts, pc: {"run"} \cup ReturnPc,
   irq: Irqs \cup {NoIrq}, cur: Parts \cup {INVALID}, ret: Parts \cup {INVALID},
   client: Int]

\* NsClientIdList and the variables beside it.
Client ==
  [id: [NsSlots -> Int], next: [NsSlots -> Int], free: Int, active: NsSlots,
   given: Nat \ {0}, started: BOOLEAN]

\* All but the boot variables are well formed.
TypeInv ==
  /\ db \in Database /\ lock \in Int /\ panicked \in BOOLEAN
  /\ cpu \in Seq(Active) /\ cpu # <<>>
  /\ enabled \subseteq Irqs /\ pending \subseteq Irqs
  /\ ns \in Client /\ cur \in Threads
  /\ tz \in [Threads -> {0} \cup 2..MaxNs]

\* Client slots that no thread holds.
FreeSlots == {s \in NsSlots \ {0} : \A t \in Threads : tz[t] # s + 1}

\* The free list of client slots: it holds no slot in use and no slot twice, slots
\* in use carry an id of the non-secure side, the active slot is that of the
\* thread that runs.
NsInv ==
  /\ \A t, u \in Threads : t # u /\ tz[t] # 0 => tz[t] # tz[u]
  /\ ~ns.started => /\ ns.free = 1 /\ \A s \in NsSlots : ns.next[s] = 0
                    /\ \A t \in Threads : tz[t] = 0
  /\ ns.id[0] < 0 /\ \A t \in Threads : tz[t] # 0 => ns.id[tz[t] - 1] < 0
  /\ ns.active = IF tz[cur] = 0 THEN 0 ELSE tz[cur] - 1
  /\ ns.started =>
       /\ ns.free \in FreeSlots \cup {-1}
       /\ \A s \in FreeSlots : ns.next[s] \in (FreeSlots \ {ns.free}) \cup {-1}
       /\ \A s, u \in FreeSlots :
            s # u /\ ns.next[s] # -1 => ns.next[s] # ns.next[u]

\* Where main() can be.
BootInv ==
  /\ boot \in [idx: 0..(LastPart + 1), pc: {"init", "result", "close", "open", "ns"}]
  /\ initing \in BOOLEAN /\ (initing <=> boot.pc \in {"init", "result"})
  /\ boot.pc = "result" => boot.idx \in Secure
  /\ boot.pc \in {"close", "open", "ns"} => boot.idx = LastPart + 1

\* Partitions that the boot has initialised, or is initialising.
Live(p) == p \in Secure /\ (p < boot.idx \/ (p = boot.idx /\ boot.pc = "result"))

\* Lines are enabled and code runs only of live partitions.
LiveInv ==
  /\ \A i \in enabled : Live(IrqPart[i])
  /\ \A k \in 2..Len(cpu) : Live(cpu[k].part)

\* The activations 1..c are the thread: the non-secure world, or the core while it
\* boots, and calls of different partitions; the ones above are handlers of ever
\* higher priority.  The lock counts the calls, but one that is returning.
StackInv(c) ==
  /\ c \in 1..Len(cpu)
  /\ \A k \in 1..Len(cpu) : cpu[k].kind = "irq" <=> k > c
  /\ IF boot.pc = "ns" THEN cpu[1].kind = "ns" /\ cpu[1].part = NS
                       ELSE cpu[1].kind = "core" /\ cpu[1].part = CORE
  /\ \A k \in 2..c : cpu[k].kind = "call" /\ cpu[k].part \in Secure
  /\ \A j, k \in 1..c : j # k => cpu[j].part # cpu[k].part
  /\ boot.pc \notin {"result", "ns"} => c = 1
  /\ boot.pc = "result" => c <= 2
  /\ \A k \in 1..Len(cpu) : k # c => cpu[k].pc = "run"
  /\ cpu[c].pc # "run" => c >= 3 /\ cpu[c].cur = cpu[c].part /\ cpu[c].ret = cpu[c - 1].part
  /\ lock = IF cpu[c].pc = "run" THEN c - 1 ELSE c - 2
  /\ \A k \in 2..c : db.client[cpu[k].part] = cpu[k].client
  /\ \A k \in (c + 1)..Len(cpu) :
       cpu[k].irq \in Irqs /\ cpu[k].part = IrqPart[cpu[k].irq]
  /\ \A j, k \in (c + 1)..Len(cpu) :
       j < k => IrqPrio[cpu[j].irq] < IrqPrio[cpu[k].irq]

\* The database d of a thread of c activations, also while the innermost one is
\* half returned.
ThreadInv(c, d) ==
  /\ \A p \in Parts : d.ctx[p] = <<>>
  /\ \A k \in 1..(c - 1) :
       d.state[cpu[k].part] =
         IF k = c - 1 /\ cpu[c].pc = "index" THEN "RUNNING" ELSE "BLOCKED"
  /\ cpu[c].pc \in {"state", "index"} => d.state[cpu[c].part] = "IDLE"
  /\ /\ cpu[c].pc \notin {"state", "index"}
     /\ boot.pc # "open"
     /\ boot.pc = "init" => boot.idx > 2
     => d.state[cpu[c].part] = "RUNNING"
  /\ /\ cpu[c].pc \notin {"state", "index"}
     /\ boot.pc # "open"
     => d.running = cpu[c].part
  /\ \A k \in 2..c : k < c \/ cpu[c].pc \in {"run", "clean"} =>
       d.caller[cpu[k].part] = cpu[k - 1].part
  /\ \A p \in Parts : Live(p) /\ (\A k \in 1..c : cpu[k].part # p) =>
       d.state[p] = "IDLE"

\* A live partition may handle an interrupt.
LiveState(d) == \A p \in Parts : Live(p) => d.state[p] \notin {"UNINIT", "CLOSED"}

\* Handlers of p among the activations up to k; interrupts up to k that cut in
\* while the database had p running; handler frames of a context stack.
Handlers(c, k, p) == {j \in (c + 1)..k : cpu[j].part = p}
Cut(c, D, k, p) == {j \in (c + 1)..k : D[j - 1].running = p}

HndlFrames(s) == {k \in 1..Len(s) : s[k].kind = "hndl"}

\* The context stacks hold a frame per handler and a frame per interrupt.
CountInv(c, D, k) ==
  \A p \in Parts :
    /\ Len(D[k].ctx[p]) = Cardinality(Handlers(c, k, p)) + Cardinality(Cut(c, D, k, p))
    /\ Cardinality(HndlFrames(D[k].ctx[p])) = Cardinality(Handlers(c, k, p))

\* Activation j is the innermost one of its partition among the first k; and the
\* state its partition is then in.
Innermost(j, k) == \A i \in (j + 1)..k : cpu[i].part # cpu[j].part

StateAt(j, k) ==
  IF j = k THEN IF cpu[j].kind = "irq" THEN "HANDLING_IRQ" ELSE "RUNNING"
           ELSE IF cpu[j + 1].kind = "irq" THEN "SUSPENDED" ELSE "BLOCKED"

\* The database d agrees with the first k activations.
MatchInv(k, d) ==
  /\ d.running = cpu[k].part
  /\ \A j \in 1..k : cpu[j].part # CORE /\ Innermost(j, k) =>
       d.state[cpu[j].part] = StateAt(j, k)
  /\ \A j \in 2..k : Innermost(j, k) => d.caller[cpu[j].part] = cpu[j - 1].part
  /\ \A p \in Secure : boot.pc = "ns" /\ (\A j \in 1..k : cpu[j].part # p) =>
       d.state[p] = "IDLE"

\* tfm_start_partition_for_irq_handling() for a handler of h makes e of d.
IrqStep(d, e, h) ==
  /\ e.state = [d.state EXCEPT ![d.running] = "SUSPENDED", ![h] = "HANDLING_IRQ"]
  /\ e.caller = [d.caller EXCEPT ![h] = d.running]
  /\ e.running = h
  /\ \A p \in Parts : e.ctx[p] =
       LET i == [kind |-> "intr", state |-> d.state[d.running], caller |-> INVALID]
           f == [kind |-> "hndl", state |-> d.state[h], caller |-> d.caller[h]]
       IN  IF p = h
           THEN IF p = d.running THEN Append(Append(d.ctx[p], i), f)
                                 ELSE Append(d.ctx[p], f)
           ELSE IF p = d.running THEN Append(d.ctx[p], i) ELSE d.ctx[p]

\* The databases differ at most in client ids and interrupt masks.
Same(d, e) ==
  d.state = e.state /\ d.caller = e.caller /\ d.ctx = e.ctx /\ d.running = e.running

\* The history of the database: a thread's, and an interrupt after the other.
NestInv(c, D) ==
  /\ Same(db, D[Len(cpu)])
  /\ ThreadInv(c, D[c])
  /\ \A k \in (c + 1)..Len(cpu) : IrqStep(D[k - 1], D[k], cpu[k].part)
  /\ \A k \in c..Len(cpu) :
       LiveState(D[k]) /\ CountInv(c, D, k) /\ (Settled => MatchInv(k, D[k]))

\* The inductive invariant.
FuncInv ==
  /\ TypeInv /\ NsInv /\ BootInv /\ LiveInv
  /\ \E c \in 1..Len(cpu) :
       /\ StackInv(c)
       /\ \E D \in [c..Len(cpu) -> Database] : NestInv(c, D)

-----------------------------------------------------------------------------
\* Indices of partitions.
LEMMA PartFacts ==
  /\ NS \in Parts /\ CORE \in Parts /\ Secure \subseteq Parts
  /\ NS \notin Secure /\ CORE \notin Secure /\ INVALID \notin Parts
  /\ \A i \in Irqs : IrqPart[i] \in Secure
  /\ \A p \in Secure : p \in Nat /\ PartId(p) # CORE
  /\ PartId(CORE) = CORE
BY FuncAssumption DEF NS, CORE, Parts, Secure, INVALID, PartId

\* tfm_spm_partition_set_state()
LEMMA SetStateFields ==
  ASSUME NEW d \in Database, NEW p \in Parts, NEW s \in States
  PROVE  /\ SetState(d, p, s) \in Database
         /\ SetState(d, p, s).state = [d.state EXCEPT ![p] = s]
         /\ SetState(d, p, s).running =
              IF s \in {"RUNNING", "HANDLING_IRQ"} THEN p ELSE d.running
         /\ SetState(d, p, s).caller = d.caller
         /\ SetState(d, p, s).client = d.client
         /\ SetState(d, p, s).mask = d.mask
         /\ SetState(d, p, s).ctx = d.ctx
BY DEF SetState, Database

\* tfm_spm_partition_cleanup_context()
LEMMA CleanedUpFields ==
  ASSUME NEW d \in Database, NEW p \in Parts
  PROVE  /\ CleanedUp(d, p) \in Database
         /\ CleanedUp(d, p).caller = [d.caller EXCEPT ![p] = INVALID]
         /\ CleanedUp(d, p).state = d.state
         /\ CleanedUp(d, p).running = d.running
         /\ CleanedUp(d, p).client = d.client
         /\ CleanedUp(d, p).ctx = d.ctx
BY DEF CleanedUp, Database

\* A return sets the states of callee and caller.
LEMMA ReturnedFields ==
  ASSUME NEW d \in Database, NEW p \in Parts, NEW r \in Parts
  PROVE  /\ Returned(d, p, r) \in Database
         /\ Returned(d, p, r).state = [d.state EXCEPT ![p] = "IDLE", ![r] = "RUNNING"]
         /\ Returned(d, p, r).running = r
         /\ Returned(d, p, r).caller = d.caller
         /\ Returned(d, p, r).client = d.client
         /\ Returned(d, p, r).ctx = d.ctx
<1> DEFINE e == SetState(d, p, "IDLE")
<1>1. "IDLE" \in States /\ "RUNNING" \in States
  BY DEF States
<1>2. /\ e \in Database /\ e.state = [d.state EXCEPT ![p] = "IDLE"]
      /\ e.caller = d.caller /\ e.client = d.client /\ e.ctx = d.ctx
  BY <1>1, SetStateFields
<1> HIDE DEF e
<1> DEFINE g == SetState(e, r, "RUNNING")
<1>3. /\ g \in Database /\ g.state = [e.state EXCEPT ![r] = "RUNNING"]
      /\ g.caller = e.caller /\ g.client = e.client /\ g.ctx = e.ctx /\ g.running = r
  BY <1>1, <1>2, SetStateFields
<1>4. g = Returned(d, p, r)
  BY DEF Returned, e
<1> HIDE DEF g
<1> QED
  BY <1>2, <1>3, <1>4 DEF Database

\* tfm_start_partition()
LEMMA StartedFields ==
  ASSUME db \in Database, NEW p \in Parts, NEW r \in Parts, ClientOf(r) \in Int
  PROVE  /\ Started(p, r) \in Database
         /\ Started(p, r).state = [db.state EXCEPT ![r] = "BLOCKED", ![p] = "RUNNING"]
         /\ Started(p, r).running = p
         /\ Started(p, r).caller = [db.caller EXCEPT ![p] = r]
         /\ Started(p, r).client = [db.client EXCEPT ![p] = ClientOf(r)]
         /\ Started(p, r).ctx = db.ctx
<1> DEFINE a == [db EXCEPT !.caller[p] = r, !.client[p] = ClientOf(r)]
           e == SetState(a, r, "BLOCKED")
           g == SetState(e, p, "RUNNING")
<1>1. "BLOCKED" \in States /\ "RUNNING" \in States
  BY DEF States
<1>2. /\ a \in Database /\ a.state = db.state /\ a.ctx = db.ctx
      /\ a.caller = [db.caller EXCEPT ![p] = r]
      /\ a.client = [db.client EXCEPT ![p] = ClientOf(r)]
  BY DEF Database
<1>3. g = Started(p, r)
  BY DEF Started
<1> HIDE DEF a
<1>4. /\ e \in Database /\ e.state = [a.state EXCEPT ![r] = "BLOCKED"]
      /\ e.caller = a.caller /\ e.client = a.client /\ e.ctx = a.ctx
  BY <1>1, <1>2, SetStateFields
<1> HIDE DEF e
<1>5. /\ g \in Database /\ g.state = [e.state EXCEPT ![p] = "RUNNING"]
      /\ g.caller = e.caller /\ g.client = e.client /\ g.ctx = e.ctx /\ g.running = p
  BY <1>1, <1>4, SetStateFields
<1> HIDE DEF g
<1> QED
  BY <1>2, <1>3, <1>4, <1>5 DEF Database

\* A frame is pushed, and popped again.
LEMMA AppendFrame ==
  ASSUME NEW s \in Seq(Frame), NEW f \in Frame
  PROVE  /\ Append(s, f) \in Seq(Frame) /\ Last(Append(s, f)) = f
         /\ Front(Append(s, f)) = s
         /\ Len(Append(s, f)) = Len(s) + 1
BY DEF Last, Front

\* tfm_start_partition_for_irq_handling()
LEMMA IrqStartedFields ==
  ASSUME NEW d \in Database, NEW h \in Parts, NEW i \in Irqs
  PROVE  /\ IrqStarted(d, h, i) \in Database
         /\ IrqStep(d, IrqStarted(d, h, i), h)
         /\ IrqStarted(d, h, i).client = d.client
<1> DEFINE r == d.running
           u == PushInterrupted(d, r)
           v == PushHandler(u, h)
           w == [v EXCEPT !.mask[h] = @ \cup {i}, !.caller[h] = r]
           x == SetState(w, r, "SUSPENDED")
           y == SetState(x, h, "HANDLING_IRQ")
           fi == [kind |-> "intr", state |-> d.state[r], caller |-> INVALID]
           fh == [kind |-> "hndl", state |-> d.state[h], caller |-> d.caller[h]]
<1>0. "SUSPENDED" \in States /\ "HANDLING_IRQ" \in States
  BY DEF States
<1>1. y = IrqStarted(d, h, i)
  BY DEF IrqStarted
<1>2. fi \in Frame /\ fh \in Frame /\ r \in Parts
  BY DEF Database, Frame
<1>3. /\ u \in Database /\ u.state = d.state /\ u.caller = d.caller
      /\ u.client = d.client
      /\ u.ctx = [d.ctx EXCEPT ![r] = Append(@, fi)]
  <2> DEFINE cx == [d.ctx EXCEPT ![r] = Append(@, fi)]
  <2>1. cx \in [Parts -> Seq(Frame)]
    BY <1>2, AppendFrame DEF Database
  <2>2. u = [d EXCEPT !.ctx = cx]
    BY DEF PushInterrupted
  <2> HIDE DEF cx, u
  <2>3. /\ u \in Database /\ u.state = d.state /\ u.caller = d.caller
        /\ u.client = d.client /\ u.ctx = cx
    BY <2>1, <2>2 DEF Database
  <2> QED
    BY <2>3 DEF cx
<1> HIDE DEF u, fi, r
<1>4. fh = [kind |-> "hndl", state |-> u.state[h], caller |-> u.caller[h]]
  BY <1>3
<1>5. /\ v \in Database /\ v.state = u.state /\ v.caller = u.caller
      /\ v.client = u.client
      /\ v.ctx = [u.ctx EXCEPT ![h] = Append(@, fh)]
  <2> DEFINE cx == [u.ctx EXCEPT ![h] = Append(@, fh)]
  <2>1. cx \in [Parts -> Seq(Frame)]
    BY <1>2, <1>3, AppendFrame DEF Database
  <2>2. v = [u EXCEPT !.ctx = cx]
    BY <1>4 DEF PushHandler
  <2> HIDE DEF cx, v, fh
  <2>3. /\ v \in Database /\ v.state = u.state /\ v.caller = u.caller
        /\ v.client = u.client /\ v.ctx = cx
    BY <1>3, <2>1, <2>2 DEF Database
  <2> QED
    BY <2>3 DEF cx
<1> HIDE DEF v, fh
<1>6. /\ w \in Database /\ w.state = v.state /\ w.ctx = v.ctx /\ w.client = v.client
      /\ w.caller = [v.caller EXCEPT ![h] = r]
  BY <1>2, <1>5 DEF Database
<1> HIDE DEF w
<1>7. /\ x \in Database /\ x.state = [w.state EXCEPT ![r] = "SUSPENDED"]
      /\ x.caller = w.caller /\ x.ctx = w.ctx /\ x.client = w.client
  BY <1>0, <1>2, <1>6, SetStateFields
<1> HIDE DEF x
<1>8. /\ y \in Database /\ y.state = [x.state EXCEPT ![h] = "HANDLING_IRQ"]
      /\ y.caller = x.caller /\ y.ctx = x.ctx /\ y.client = x.client /\ y.running = h
  BY <1>0, <1>7, SetStateFields
<1> HIDE DEF y
<1>9. \A p \in Parts : y.ctx[p] =
        IF p = h
        THEN IF p = r THEN Append(Append(d.ctx[p], fi), fh) ELSE Append(d.ctx[p], fh)
        ELSE IF p = r THEN Append(d.ctx[p], fi) ELSE d.ctx[p]
  <2>1. y.ctx = [u.ctx EXCEPT ![h] = Append(@, fh)]
    BY <1>5, <1>6, <1>7, <1>8
  <2>2. \A p \in Parts : u.ctx[p] = IF p = r THEN Append(d.ctx[p], fi) ELSE d.ctx[p]
    BY <1>3 DEF Database
  <2>3. \A p \in Parts : y.ctx[p] = IF p = h THEN Append(u.ctx[p], fh) ELSE u.ctx[p]
    BY <1>3, <2>1 DEF Database
  <2> QED
    BY <2>2, <2>3
<1>10. /\ y.state = [d.state EXCEPT ![r] = "SUSPENDED", ![h] = "HANDLING_IRQ"]
       /\ y.caller = [d.caller EXCEPT ![h] = r]
  BY <1>3, <1>5, <1>6, <1>7, <1>8 DEF Database
<1>11. IrqStep(d, y, h)
  BY <1>8, <1>9, <1>10 DEF IrqStep, r, fi, fh
<1> QED
  BY <1>1, <1>3, <1>5, <1>6, <1>7, <1>8, <1>11

\* tfm_return_from_partition_irq_handling() takes the step of the interrupt back,
\* except that the running index is restored only if the interrupted state sets it.
LEMMA IrqReturnedFields ==
  ASSUME NEW d \in Database, NEW e \in Database, NEW g \in Database,
         NEW h \in Parts, IrqStep(d, e, h), Same(g, e)
  PROVE  /\ IrqReturned(g, h) \in Database
         /\ IrqReturned(g, h).state = d.state
         /\ IrqReturned(g, h).caller = d.caller
         /\ IrqReturned(g, h).ctx = d.ctx
         /\ IrqReturned(g, h).client = g.client
         /\ IrqReturned(g, h).running =
              IF d.state[d.running] \in {"RUNNING", "HANDLING_IRQ"}
              THEN d.running ELSE h
<1> DEFINE r == d.running
           fi == [kind |-> "intr", state |-> d.state[r], caller |-> INVALID]
           fh == [kind |-> "hndl", state |-> d.state[h], caller |-> d.caller[h]]
           mid == [p \in Parts |-> IF p = r THEN Append(d.ctx[p], fi) ELSE d.ctx[p]]
           a == [g EXCEPT !.ctx[h] = Front(@), !.caller[h] = fh.caller]
           b == SetState(a, h, fh.state)
           u == [b EXCEPT !.ctx[r] = Front(@)]
           y == SetState(u, r, fi.state)
<1>1. /\ fi \in Frame /\ fh \in Frame /\ r \in Parts /\ mid \in [Parts -> Seq(Frame)]
      /\ fi.state = d.state[r] /\ fh.state = d.state[h] /\ fh.caller = d.caller[h]
      /\ d.state[r] \in States /\ d.state[h] \in States
      /\ d.caller[h] \in Parts \cup {INVALID}
  BY AppendFrame DEF Database, Frame
<1>2. /\ g.state = [d.state EXCEPT ![r] = "SUSPENDED", ![h] = "HANDLING_IRQ"]
      /\ g.caller = [d.caller EXCEPT ![h] = r] /\ g.running = h
      /\ g.caller[h] = r
  BY DEF IrqStep, Same, Database
<1>3. g.ctx = [mid EXCEPT ![h] = Append(@, fh)]
  <2>1. g.ctx \in [Parts -> Seq(Frame)] /\ g.ctx = e.ctx
    BY DEF Database, Same
  <2>2. \A p \in Parts : g.ctx[p] = IF p = h THEN Append(mid[p], fh) ELSE mid[p]
    BY <2>1 DEF IrqStep
  <2> HIDE DEF mid, fh
  <2> QED
    BY <2>1, <2>2, <1>1
<1>4. mid[r] = Append(d.ctx[r], fi) /\ \A p \in Parts : p # r => mid[p] = d.ctx[p]
  BY <1>1
<1> HIDE DEF mid, fi, fh
<1>5. /\ g.ctx[h] = Append(mid[h], fh) /\ mid[h] \in Seq(Frame)
      /\ Last(g.ctx[h]) = fh /\ Front(g.ctx[h]) = mid[h]
  BY <1>1, <1>3, AppendFrame
<1>6. PopHandler(g, h) = b
  BY <1>5 DEF PopHandler
<1>7. /\ a \in Database /\ a.state = g.state /\ a.ctx = mid /\ a.running = g.running
      /\ a.caller = d.caller /\ a.client = g.client
  <2>1. [g.ctx EXCEPT ![h] = Front(@)] = mid
    BY <1>1, <1>3, <1>5 DEF Database
  <2>2. [g.caller EXCEPT ![h] = fh.caller] = d.caller
    BY <1>1, <1>2 DEF Database
  <2>3. a = [g EXCEPT !.ctx = mid, !.caller = d.caller]
    BY <2>1, <2>2
  <2> HIDE DEF a
  <2> QED
    BY <1>1, <2>3 DEF Database
<1> HIDE DEF a
<1>8. /\ b \in Database /\ b.state = [a.state EXCEPT ![h] = d.state[h]]
      /\ b.running = h /\ b.caller = a.caller /\ b.client = a.client /\ b.ctx = a.ctx
  <2>1. b = SetState(a, h, d.state[h]) /\ d.state[h] \in States
    BY <1>1
  <2> HIDE DEF b
  <2> QED
    BY <1>2, <1>7, <2>1, SetStateFields
<1> HIDE DEF b
<1>9. Last(b.ctx[r]) = fi /\ Front(b.ctx[r]) = d.ctx[r] /\ d.ctx[r] \in Seq(Frame)
  <2>1. b.ctx[r] = Append(d.ctx[r], fi) /\ d.ctx[r] \in Seq(Frame)
    BY <1>1, <1>4, <1>7, <1>8 DEF Database
  <2> QED
    BY <1>1, <2>1, AppendFrame
<1>10. /\ u \in Database /\ u.state = b.state /\ u.running = b.running
       /\ u.caller = b.caller /\ u.client = b.client /\ u.ctx = d.ctx
  <2>1. [b.ctx EXCEPT ![r] = Front(@)] = d.ctx
    BY <1>1, <1>4, <1>7, <1>8, <1>9 DEF Database
  <2>2. u = [b EXCEPT !.ctx = d.ctx]
    BY <2>1
  <2> HIDE DEF u
  <2> QED
    BY <1>8, <2>2 DEF Database
<1>11. PopInterrupted(b, r) = y
  BY <1>9 DEF PopInterrupted
<1> HIDE DEF u
<1>12. /\ y \in Database /\ y.state = [u.state EXCEPT ![r] = d.state[r]]
       /\ y.running = IF d.state[r] \in {"RUNNING", "HANDLING_IRQ"} THEN r ELSE u.running
       /\ y.caller = u.caller /\ y.client = u.client /\ y.ctx = u.ctx
  BY <1>1, <1>10, SetStateFields
<1> HIDE DEF y
<1>13. y.state = d.state
  BY <1>1, <1>2, <1>7, <1>8, <1>10, <1>12 DEF Database
<1>14. IrqReturned(g, h) = y
  BY <1>2, <1>6, <1>11 DEF IrqReturned
<1> QED
  BY <1>7, <1>8, <1>10, <1>12, <1>13, <1>14
-----------------------------------------------------------------------------
\* A thread that is not half returned agrees with its database.
LEMMA ThreadMatches ==
  ASSUME NEW c \in Nat, NEW d \in Database, TypeInv', BootInv', StackInv(c)',
         ThreadInv(c, d)', Settled'
  PROVE  MatchInv(c, d)'
<1>1. /\ c \in 1..Len(cpu') /\ boot'.pc # "open" /\ cpu'[c].pc = "run"
      /\ \A k \in 1..c : cpu'[k].kind # "irq"
  <2>1. c \in 1..Len(cpu') /\ Len(cpu') \in Nat
    BY DEF StackInv, TypeInv
  <2> QED
    BY <2>1 DEF StackInv, Settled
<1>2. d.running = cpu'[c].part
  BY <1>1 DEF ThreadInv
<1>3. ASSUME NEW j \in 1..c, cpu'[j].part # CORE
      PROVE  d.state[cpu'[j].part] = StateAt(j, c)'
  <2>1. CASE j = c
    <3>1. boot'.pc = "init" => boot'.idx > 2
      BY <1>3, <2>1, <1>1 DEF StackInv
    <3> QED
      BY <1>1, <2>1, <3>1 DEF ThreadInv, StateAt
  <2>2. CASE j < c
    BY <1>1, <2>2 DEF ThreadInv, StateAt
  <2> QED
    BY <2>1, <2>2
<1>4. \A j \in 2..c : d.caller[cpu'[j].part] = cpu'[j - 1].part
  BY <1>1 DEF ThreadInv
<1>5. ASSUME NEW p \in Secure, boot'.pc = "ns", \A j \in 1..c : cpu'[j].part # p
      PROVE  d.state[p] = "IDLE"
  <2>1. p \in Parts /\ Live(p)'
    BY <1>5, PartFacts, FuncAssumption DEF Live, BootInv, Secure
  <2> QED
    BY <1>5, <2>1 DEF ThreadInv
<1> QED
  BY <1>2, <1>3, <1>4, <1>5 DEF MatchInv

\* Without handlers, the invariant is what it says of the thread.
LEMMA ThreadStep ==
  ASSUME NEW c \in Nat, NEW d \in Database, c = Len(cpu'), d = db', TypeInv', NsInv',
         BootInv', LiveInv', StackInv(c)', ThreadInv(c, d)'
  PROVE  FuncInv'
<1> DEFINE D == [k \in c..c |-> d]
<1>1. c \in 1..Len(cpu') /\ c..Len(cpu') = {c} /\ D[c] = d
      /\ (c + 1)..Len(cpu') = {} /\ (c + 1)..c = {}
  BY DEF StackInv
<1>2. D \in [c..Len(cpu') -> Database]
  BY <1>1
<1>3. LiveState(d)'
  <2>1. ASSUME NEW p \in Parts, Live(p)'
        PROVE  d.state[p] \in {"IDLE", "RUNNING", "BLOCKED"}
    <3>1. CASE \A k \in 1..c : cpu'[k].part # p
      BY <2>1, <3>1 DEF ThreadInv
    <3>2. CASE \E k \in 1..c : cpu'[k].part = p
      <4>1. PICK k \in 1..c : cpu'[k].part = p
        BY <3>2
      <4>2. k # 1
        BY <2>1, <4>1, PartFacts DEF StackInv, Live
      <4>3. boot'.pc \notin {"init", "open"}
        BY <4>2 DEF StackInv
      <4>4. CASE k < c
        BY <4>1, <4>4 DEF ThreadInv
      <4>5. CASE k = c
        BY <4>1, <4>3, <4>5 DEF ThreadInv
      <4> QED
        BY <4>4, <4>5
    <3> QED
      BY <3>1, <3>2
  <2> QED
    BY <2>1 DEF LiveState
<1>4. CountInv(c, D, c)'
  <2>1. \A p \in Parts : Handlers(c, c, p)' = {} /\ Cut(c, D, c, p)' = {}
    BY <1>1 DEF Handlers, Cut
  <2>2. \A p \in Parts : D[c].ctx[p] = <<>>
    BY <1>1 DEF ThreadInv
  <2>3. HndlFrames(<<>>) = {} /\ Len(<<>>) = 0
    BY DEF HndlFrames
  <2>4. ASSUME NEW p \in Parts
        PROVE  /\ Len(D[c].ctx[p]) =
                    Cardinality(Handlers(c, c, p)') + Cardinality(Cut(c, D, c, p)')
               /\ Cardinality(HndlFrames(D[c].ctx[p])) = Cardinality(Handlers(c, c, p)')
    <3>1. Cardinality(Handlers(c, c, p)') = 0
      BY <2>1, FS_EmptySet
    <3>2. Cardinality(Cut(c, D, c, p)') = 0
      BY <2>1, FS_EmptySet
    <3>3. D[c].ctx[p] = <<>>
      BY <2>2
    <3>4. Cardinality(HndlFrames(D[c].ctx[p])) = 0
      BY <3>3, <2>3, FS_EmptySet
    <3> HIDE DEF D
    <3> QED
      BY <3>1, <3>2, <3>3, <3>4, <2>3
  <2> HIDE DEF D
  <2> QED
    BY <2>4 DEF CountInv
<1>5. Settled' => MatchInv(c, d)'
  BY ThreadMatches
<1>6. ThreadInv(c, D[c])' /\ LiveState(D[c])' /\ (Settled' => MatchInv(c, D[c])')
  BY <1>1, <1>3, <1>5
<1>7. Same(db', D[Len(cpu')])
  BY <1>1 DEF Same
<1> HIDE DEF D
<1>8. NestInv(c, D)'
  BY <1>1, <1>4, <1>6, <1>7 DEF NestInv
<1> QED
  BY <1>1, <1>2, <1>8 DEF FuncInv

\* ... and gives what it says of the thread.
LEMMA ThreadFacts ==
  ASSUME FuncInv, Top.kind # "irq"
  PROVE  /\ Len(cpu) \in Nat \ {0} /\ Top = cpu[Len(cpu)]
         /\ StackInv(Len(cpu)) /\ ThreadInv(Len(cpu), db)
<1>0. PICK c \in 1..Len(cpu) :
        StackInv(c) /\ \E D \in [c..Len(cpu) -> Database] : NestInv(c, D)
  BY DEF FuncInv
<1>1. PICK D \in [c..Len(cpu) -> Database] : StackInv(c) /\ NestInv(c, D)
  BY <1>0
<1>2. Len(cpu) \in Nat \ {0} /\ Top = cpu[Len(cpu)]
  BY DEF FuncInv, TypeInv, Top, Last
<1>3. c = Len(cpu)
  BY <1>1, <1>2 DEF StackInv
<1>4. Same(db, D[c]) /\ ThreadInv(c, D[c])
  BY <1>1, <1>3 DEF NestInv
<1>5. ThreadInv(c, db)
  BY <1>4 DEF Same, ThreadInv
<1> QED
  BY <1>1, <1>2, <1>3, <1>5

\* Steps that change neither the stack nor what the history is about.
LEMMA SameStack ==
  ASSUME FuncInv, TypeInv', NsInv', LiveInv', Same(db', db), db'.client = db.client,
         UNCHANGED <<lock, initing, boot, cpu>>
  PROVE  FuncInv'
<1>0. PICK c \in 1..Len(cpu) :
        StackInv(c) /\ \E D \in [c..Len(cpu) -> Database] : NestInv(c, D)
  BY DEF FuncInv
<1>1. PICK D \in [c..Len(cpu) -> Database] : StackInv(c) /\ NestInv(c, D)
  BY <1>0
<1>2. StackInv(c)'
  BY <1>1 DEF StackInv
<1>3. ThreadInv(c, D[c])'
  BY <1>1 DEF NestInv, ThreadInv, Live
<1>4. ASSUME NEW k \in c..Len(cpu)
      PROVE  LiveState(D[k])' /\ CountInv(c, D, k)' /\ (Settled' => MatchInv(k, D[k])')
  <2>1. LiveState(D[k])'
    BY <1>1 DEF NestInv, LiveState, Live
  <2>2. CountInv(c, D, k)'
    BY <1>1 DEF NestInv, CountInv, Handlers, Cut
  <2>3. Settled' => MatchInv(k, D[k])'
    BY <1>1 DEF NestInv, Settled, MatchInv, Innermost, StateAt
  <2> QED
    BY <2>1, <2>2, <2>3
<1>5. NestInv(c, D)'
  BY <1>1, <1>3, <1>4 DEF NestInv, Same
<1>6. BootInv'
  BY DEF FuncInv, BootInv
<1> QED
  BY <1>1, <1>2, <1>5, <1>6 DEF FuncInv

-----------------------------------------------------------------------------
\* The first state.
LEMMA FuncInit == Init => FuncInv
<1> SUFFICES ASSUME Init PROVE FuncInv
  OBVIOUS
<1> DEFINE D == [k \in 1..1 |-> db]
<1>1. Len(cpu) = 1 /\ cpu[1] = Activation("core", CORE, NoIrq, 0) /\ boot = [idx |-> 0, pc |-> "init"]
  BY DEF Init
<1>2. TypeInv
  <2>1. db \in Database
    BY PartFacts DEF Init, Database, States, Frame
  <2>2. Activation("core", CORE, NoIrq, 0) \in Active
    BY PartFacts DEF Activation, Active
  <2>3. ns \in Client
    BY FuncAssumption DEF Init, NsConfigured, Client, NsSlots
  <2>4. cpu \in Seq(Active) /\ cpu # <<>>
    BY <2>2 DEF Init
  <2>5. lock \in Int /\ tz \in [Threads -> {0} \cup 2..MaxNs] /\ cur \in Threads
    BY DEF Init
  <2>6. enabled \subseteq Irqs /\ pending \subseteq Irqs /\ panicked \in BOOLEAN
    BY DEF Init
  <2> QED
    BY <2>1, <2>3, <2>4, <2>5, <2>6 DEF TypeInv
<1>3. NsInv
  BY FuncAssumption DEF Init, NsInv, NsConfigured, NsSlots
<1>4. BootInv /\ LiveInv
  <2>1. initing = TRUE /\ enabled = {}
    BY DEF Init
  <2>2. BootInv
    BY <1>1, <2>1, FuncAssumption DEF BootInv
  <2> QED
    BY <1>1, <2>1, <2>2 DEF LiveInv
<1>5. StackInv(1)
  BY <1>1 DEF Init, StackInv, Activation
<1>6. ThreadInv(1, db)
  <2>1. \A p \in Parts : ~Live(p)
    BY <1>1, FuncAssumption DEF Live, Secure
  <2> QED
    BY <1>1, <2>1 DEF Init, ThreadInv, Activation
<1>7. LiveState(db) /\ MatchInv(1, db)
  <2>1. \A p \in Parts : ~Live(p)
    BY <1>1, FuncAssumption DEF Live, Secure
  <2> QED
    BY <1>1, <2>1 DEF LiveState, MatchInv, Init, Activation
<1>8. CountInv(1, D, 1)
  <2>1. \A p \in Parts : Handlers(1, 1, p) = {} /\ Cut(1, D, 1, p) = {}
    BY DEF Handlers, Cut
  <2>2. \A p \in Parts : D[1].ctx[p] = <<>>
    BY DEF Init
  <2>3. HndlFrames(<<>>) = {} /\ Len(<<>>) = 0
    BY DEF HndlFrames
  <2>4. ASSUME NEW p \in Parts
        PROVE  /\ Len(D[1].ctx[p]) =
                    Cardinality(Handlers(1, 1, p)) + Cardinality(Cut(1, D, 1, p))
               /\ Cardinality(HndlFrames(D[1].ctx[p])) = Cardinality(Handlers(1, 1, p))
    <3>1. Cardinality(Handlers(1, 1, p)) = 0
      BY <2>1, FS_EmptySet
    <3>2. Cardinality(Cut(1, D, 1, p)) = 0
      BY <2>1, FS_EmptySet
    <3>3. D[1].ctx[p] = <<>>
      BY <2>2
    <3>4. Cardinality(HndlFrames(D[1].ctx[p])) = 0
      BY <3>3, <2>3, FS_EmptySet
    <3> HIDE DEF D
    <3> QED
      BY <3>1, <3>2, <3>3, <3>4, <2>3
  <2> HIDE DEF D
  <2> QED
    BY <2>4 DEF CountInv
<1>9. D[1] = db /\ D \in [1..Len(cpu) -> Database]
  BY <1>1, <1>2 DEF TypeInv
<1> HIDE DEF D
<1>10. NestInv(1, D)
  BY <1>1, <1>6, <1>7, <1>8, <1>9 DEF NestInv, Same
<1> QED
  BY <1>1, <1>2, <1>3, <1>4, <1>5, <1>9, <1>10 DEF FuncInv
-----------------------------------------------------------------------------
\* A pushed frame adds to the handler frames if it is one.
LEMMA FrameCount ==
  ASSUME NEW s \in Seq(Frame), NEW f \in Frame
  PROVE  /\ Len(Append(s, f)) = Len(s) + 1
         /\ IsFiniteSet(HndlFrames(s)) /\ Cardinality(HndlFrames(s)) \in Nat
         /\ Cardinality(HndlFrames(Append(s, f))) =
              IF f.kind = "hndl" THEN Cardinality(HndlFrames(s)) + 1
                                 ELSE Cardinality(HndlFrames(s))
<1> DEFINE n == Len(s)
<1>1. n \in Nat /\ Len(Append(s, f)) = n + 1 /\ Append(s, f)[n + 1] = f
      /\ \A k \in 1..n : Append(s, f)[k] = s[k]
  OBVIOUS
<1>2. IsFiniteSet(HndlFrames(s)) /\ Cardinality(HndlFrames(s)) \in Nat
  <2>1. HndlFrames(s) \in SUBSET (1..n) /\ IsFiniteSet(1..n)
    BY <1>1, FS_Interval DEF HndlFrames
  <2> QED
    BY <2>1, FS_Subset, FS_CardinalityType
<1>3. \A k : k \in HndlFrames(Append(s, f)) <=>
        k \in HndlFrames(s) \/ (k = n + 1 /\ f.kind = "hndl")
  BY <1>1 DEF HndlFrames
<1>4. n + 1 \notin HndlFrames(s)
  BY <1>1 DEF HndlFrames
<1>5. CASE f.kind = "hndl"
  <2>1. HndlFrames(Append(s, f)) = HndlFrames(s) \cup {n + 1}
    BY <1>3, <1>5
  <2> QED
    BY <1>1, <1>2, <1>4, <1>5, <2>1, FS_AddElement
<1>6. CASE f.kind # "hndl"
  <2>1. HndlFrames(Append(s, f)) = HndlFrames(s)
    BY <1>3, <1>6
  <2> QED
    BY <1>1, <1>2, <1>6, <2>1
<1> QED
  BY <1>5, <1>6

\* One more index that satisfies what is counted.
LEMMA OneMore ==
  ASSUME NEW a \in Nat, NEW m \in Nat, NEW S \in SUBSET (a..m), NEW T,
         \A k : k \in T <=> k \in S \/ k = m + 1
  PROVE  Cardinality(T) = Cardinality(S) + 1
<1>1. IsFiniteSet(S) /\ m + 1 \notin S
  <2>1. IsFiniteSet(a..m) /\ m + 1 \notin a..m
    BY FS_Interval
  <2> QED
    BY <2>1, FS_Subset
<1>2. T = S \cup {m + 1}
  OBVIOUS
<1> QED
  BY <1>1, <1>2, FS_AddElement

\* Sets of indices are finite.
LEMMA CardInterval ==
  ASSUME NEW a \in Nat, NEW m \in Nat, NEW S \in SUBSET (a..m)
  PROVE  IsFiniteSet(S) /\ Cardinality(S) \in Nat
<1>1. IsFiniteSet(a..m)
  BY FS_Interval
<1> QED
  BY <1>1, FS_Subset, FS_CardinalityType

\* What holds at a level of the history holds while the levels up to it stay.
LEMMA LevelKept ==
  ASSUME NEW c \in Nat, NEW k \in Nat, 1 <= c, c <= k, NEW D, NEW E,
         \A j \in c..k : E[j] = D[j], \A j \in 1..k : cpu'[j] = cpu[j], boot' = boot
  PROVE  /\ LiveState(D[k]) => LiveState(E[k])'
         /\ CountInv(c, D, k) => CountInv(c, E, k)'
         /\ MatchInv(k, D[k]) => MatchInv(k, E[k])'
<1>0. E[k] = D[k]
  OBVIOUS
<1>1. LiveState(D[k]) => LiveState(E[k])'
  BY <1>0 DEF LiveState, Live
<1>2. \A p : Handlers(c, k, p)' = Handlers(c, k, p)
  BY DEF Handlers
<1>3. \A p : Cut(c, E, k, p) = Cut(c, D, k, p)
  BY DEF Cut
<1>4. CountInv(c, D, k) => CountInv(c, E, k)'
  BY <1>0, <1>2, <1>3 DEF CountInv
<1>5. ASSUME NEW j \in 1..k
      PROVE  (Innermost(j, k)' <=> Innermost(j, k)) /\ StateAt(j, k)' = StateAt(j, k)
  BY DEF Innermost, StateAt
<1>6. MatchInv(k, D[k]) => MatchInv(k, E[k])'
  BY <1>0, <1>5 DEF MatchInv
<1> QED
  BY <1>1, <1>4, <1>6

\* An interrupt keeps the database in agreement.
LEMMA MatchStep ==
  ASSUME NEW m \in Nat, 1 <= m, NEW d \in Database, NEW e \in Database, NEW h \in Secure,
         IrqStep(d, e, h), \A j \in 1..m : cpu'[j] = cpu[j] /\ cpu[j].part \in Parts,
         cpu'[m + 1].kind = "irq", cpu'[m + 1].part = h, boot' = boot, MatchInv(m, d)
  PROVE  MatchInv(m + 1, e)'
<1>0. d.running = cpu[m].part /\ h \in Parts /\ h # CORE
  BY PartFacts DEF MatchInv
<1>1. /\ \A p \in Parts : e.state[p] =
           IF p = h THEN "HANDLING_IRQ" ELSE IF p = d.running THEN "SUSPENDED" ELSE d.state[p]
      /\ \A p \in Parts : e.caller[p] = IF p = h THEN d.running ELSE d.caller[p]
      /\ e.running = h
  BY <1>0 DEF IrqStep, Database
<1>2. ASSUME NEW j \in 1..m, Innermost(j, m + 1)'
      PROVE  /\ Innermost(j, m) /\ cpu[j].part # h
             /\ j # m => cpu[j].part # d.running
  BY <1>0, <1>2 DEF Innermost
<1>3. ASSUME NEW j \in 1..(m + 1), cpu'[j].part # CORE, Innermost(j, m + 1)'
      PROVE  e.state[cpu'[j].part] = StateAt(j, m + 1)'
  <2>1. CASE j = m + 1
    BY <1>0, <1>1, <2>1 DEF StateAt
  <2>2. CASE j = m
    BY <1>0, <1>1, <1>2, <1>3, <2>2 DEF StateAt
  <2>3. CASE j < m
    <3>1. d.state[cpu[j].part] = StateAt(j, m)
      BY <1>2, <1>3, <2>3 DEF MatchInv
    <3>2. StateAt(j, m + 1)' = StateAt(j, m)
      BY <2>3 DEF StateAt
    <3> QED
      BY <1>1, <1>2, <1>3, <2>3, <3>1, <3>2
  <2> QED
    BY <2>1, <2>2, <2>3
<1>4. ASSUME NEW j \in 2..(m + 1), Innermost(j, m + 1)'
      PROVE  e.caller[cpu'[j].part] = cpu'[j - 1].part
  <2>1. CASE j = m + 1
    BY <1>0, <1>1, <2>1
  <2>2. CASE j <= m
    BY <1>1, <1>2, <1>4, <2>2 DEF MatchInv
  <2> QED
    BY <2>1, <2>2
<1>5. ASSUME NEW p \in Secure, boot'.pc = "ns", \A j \in 1..(m + 1) : cpu'[j].part # p
      PROVE  e.state[p] = "IDLE"
  <2>1. p \in Parts /\ p # h /\ p # d.running /\ \A j \in 1..m : cpu[j].part # p
    BY <1>0, <1>5, PartFacts
  <2> QED
    BY <1>1, <1>5, <2>1 DEF MatchInv
<1> QED
  BY <1>1, <1>3, <1>4, <1>5 DEF MatchInv

\* An interrupt pushes the frames that are counted.
LEMMA CountStep ==
  ASSUME NEW c \in Nat, NEW m \in Nat, 1 <= c, c <= m, NEW D, NEW h \in Parts,
         D[m] \in Database, D[m + 1] \in Database, IrqStep(D[m], D[m + 1], h),
         \A j \in 1..m : cpu'[j] = cpu[j], cpu'[m + 1].part = h, CountInv(c, D, m)
  PROVE  CountInv(c, D, m + 1)'
<1> SUFFICES ASSUME NEW p \in Parts
             PROVE  /\ Len(D[m + 1].ctx[p]) =
                         Cardinality(Handlers(c, m + 1, p)') + Cardinality(Cut(c, D, m + 1, p))
                    /\ Cardinality(HndlFrames(D[m + 1].ctx[p])) =
                         Cardinality(Handlers(c, m + 1, p)')
  BY DEF CountInv, Cut
<1> DEFINE r == D[m].running
           s == D[m].ctx[p]
           fi == [kind |-> "intr", state |-> D[m].state[r], caller |-> INVALID]
           fh == [kind |-> "hndl", state |-> D[m].state[h], caller |-> D[m].caller[h]]
           A == Handlers(c, m, p)
           B == Cut(c, D, m, p)
<1>1. fi \in Frame /\ fh \in Frame /\ s \in Seq(Frame) /\ fi.kind = "intr" /\ fh.kind = "hndl"
  BY DEF Database, Frame
<1>2. /\ Cardinality(A) \in Nat
      /\ Cardinality(Handlers(c, m + 1, p)') =
           IF p = h THEN Cardinality(A) + 1 ELSE Cardinality(A)
  <2>1. A \in SUBSET ((c + 1)..m)
    BY DEF Handlers
  <2>2. \A k : k \in Handlers(c, m + 1, p)' <=> k \in A \/ (k = m + 1 /\ p = h)
    BY DEF Handlers
  <2>3. c + 1 \in Nat
    OBVIOUS
  <2> HIDE DEF A
  <2>4. CASE p = h
    <3>1. \A k : k \in Handlers(c, m + 1, p)' <=> k \in A \/ k = m + 1
      BY <2>2, <2>4
    <3>2. Cardinality(Handlers(c, m + 1, p)') = Cardinality(A) + 1
      BY <2>1, <2>3, <3>1, OneMore
    <3> QED
      BY <2>1, <2>3, <2>4, <3>2, CardInterval
  <2>5. CASE ~(p = h)
    <3>1. Handlers(c, m + 1, p)' = A
      BY <2>2, <2>5
    <3> QED
      BY <2>1, <2>3, <2>5, <3>1, CardInterval
  <2> QED
    BY <2>4, <2>5
<1>3. /\ Cardinality(B) \in Nat
      /\ Cardinality(Cut(c, D, m + 1, p)) =
           IF p = r THEN Cardinality(B) + 1 ELSE Cardinality(B)
  <2>1. B \in SUBSET ((c + 1)..m)
    BY DEF Cut
  <2>2. \A k : k \in Cut(c, D, m + 1, p) <=> k \in B \/ (k = m + 1 /\ p = r)
    BY DEF Cut
  <2>3. c + 1 \in Nat
    OBVIOUS
  <2> HIDE DEF B, r
  <2>4. CASE p = r
    <3>1. \A k : k \in Cut(c, D, m + 1, p) <=> k \in B \/ k = m + 1
      BY <2>2, <2>4
    <3>2. Cardinality(Cut(c, D, m + 1, p)) = Cardinality(B) + 1
      BY <2>1, <2>3, <3>1, OneMore
    <3> QED
      BY <2>1, <2>3, <2>4, <3>2, CardInterval
  <2>5. CASE ~(p = r)
    <3>1. Cut(c, D, m + 1, p) = B
      BY <2>2, <2>5
    <3> QED
      BY <2>1, <2>3, <2>5, <3>1, CardInterval
  <2> QED
    BY <2>4, <2>5
<1>4. Len(s) = Cardinality(A) + Cardinality(B) /\ Cardinality(HndlFrames(s)) = Cardinality(A)
  BY DEF CountInv
<1>5. D[m + 1].ctx[p] =
        IF p = h THEN IF p = r THEN Append(Append(s, fi), fh) ELSE Append(s, fh)
        ELSE IF p = r THEN Append(s, fi) ELSE s
  BY DEF IrqStep
<1> HIDE DEF fi, fh, s, r, A, B
<1>6. /\ Append(s, fi) \in Seq(Frame) /\ Len(Append(s, fi)) = Len(s) + 1
      /\ Cardinality(HndlFrames(Append(s, fi))) = Cardinality(A)
      /\ Len(Append(s, fh)) = Len(s) + 1
      /\ Cardinality(HndlFrames(Append(s, fh))) = Cardinality(A) + 1
  BY <1>1, <1>4, FrameCount, AppendFrame
<1>7. /\ Len(Append(Append(s, fi), fh)) = Len(s) + 2
      /\ Cardinality(HndlFrames(Append(Append(s, fi), fh))) = Cardinality(A) + 1
  <2>1. Len(s) \in Nat
    BY <1>1
  <2>2. Len(Append(Append(s, fi), fh)) = Len(Append(s, fi)) + 1
    BY <1>1, <1>6, FrameCount
  <2>3. Cardinality(HndlFrames(Append(Append(s, fi), fh))) =
          Cardinality(HndlFrames(Append(s, fi))) + 1
    BY <1>1, <1>6, FrameCount
  <2> QED
    BY <1>6, <2>1, <2>2, <2>3
<1> QED
  BY <1>2, <1>3, <1>4, <1>5, <1>6, <1>7
-----------------------------------------------------------------------------
\* An activation more, or less.
LEMMA AppendCpu ==
  ASSUME TypeInv, NEW a \in Active, cpu' = Append(cpu, a)
  PROVE  /\ Len(cpu) \in Nat \ {0} /\ Len(cpu') = Len(cpu) + 1
         /\ cpu' \in Seq(Active) /\ cpu' # <<>>
         /\ cpu'[Len(cpu) + 1] = a /\ \A k \in 1..Len(cpu) : cpu'[k] = cpu[k]
BY DEF TypeInv

\* The innermost activation ends.
LEMMA FrontCpu ==
  ASSUME TypeInv, Len(cpu) >= 2, cpu' = Front(cpu)
  PROVE  /\ Len(cpu) \in Nat \ {0} /\ Len(cpu') = Len(cpu) - 1
         /\ cpu' \in Seq(Active) /\ cpu' # <<>>
         /\ \A k \in 1..(Len(cpu) - 1) : cpu'[k] = cpu[k]
<1>1. Len(cpu) \in Nat \ {0} /\ Len(cpu) - 1 \in Nat
  BY DEF TypeInv
<1>2. cpu' = SubSeq(cpu, 1, Len(cpu) - 1)
  BY DEF Front
<1>3. cpu' \in Seq(Active) /\ Len(cpu') = Len(cpu) - 1
  BY <1>1, <1>2 DEF TypeInv
<1>4. \A k \in 1..(Len(cpu) - 1) : cpu'[k] = cpu[k]
  BY <1>1, <1>2 DEF TypeInv
<1>5. cpu' # <<>>
  BY <1>1, <1>3
<1> QED
  BY <1>1, <1>3, <1>4, <1>5

\* Types of the activations.
LEMMA CpuType ==
  ASSUME TypeInv
  PROVE  /\ Len(cpu) \in Nat \ {0} /\ Top = cpu[Len(cpu)]
         /\ \A k \in 1..Len(cpu) : cpu[k] \in Active /\ cpu[k].part \in Parts
<1>1. Len(cpu) \in Nat \ {0} /\ Top = cpu[Len(cpu)]
  BY DEF TypeInv, Top, Last
<1>2. \A k \in 1..Len(cpu) : cpu[k] \in Active
  BY DEF TypeInv
<1>3. \A x \in Active : x.part \in Parts
  BY DEF Active
<1> QED
  BY <1>1, <1>2, <1>3

\* A new activation.
LEMMA NewActivation ==
  ASSUME NEW k \in {"core", "ns", "call", "irq"}, NEW p \in Parts,
         NEW i \in Irqs \cup {NoIrq}, NEW cl \in Int
  PROVE  LET a == Activation(k, p, i, cl)
         IN  /\ a \in Active /\ a.kind = k /\ a.part = p /\ a.irq = i /\ a.pc = "run"
             /\ a.client = cl
BY DEF Activation, Active

\* Handlers come and go on top of a thread.
LEMMA ThreadKept ==
  ASSUME NEW c \in Nat, 1 <= c, NEW d, ThreadInv(c, d), boot' = boot,
         \A k \in 1..c : cpu'[k] = cpu[k]
  PROVE  ThreadInv(c, d)'
<1>1. \A p : Live(p)' <=> Live(p)
  BY DEF Live
<1>2. cpu'[c] = cpu[c]
  OBVIOUS
<1>3. \A k \in 1..(c - 1) :
       d.state[cpu'[k].part] =
         IF k = c - 1 /\ cpu'[c].pc = "index" THEN "RUNNING" ELSE "BLOCKED"
  BY DEF ThreadInv
<1>4. \A k \in 2..c : k < c \/ cpu'[c].pc \in {"run", "clean"} =>
       d.caller[cpu'[k].part] = cpu'[k - 1].part
  BY DEF ThreadInv
<1>5. \A p \in Parts : Live(p)' /\ (\A k \in 1..c : cpu'[k].part # p) =>
       d.state[p] = "IDLE"
  BY <1>1 DEF ThreadInv
<1> QED
  BY <1>2, <1>3, <1>4, <1>5 DEF ThreadInv

\* An interrupt: the history grows by one database.
LEMMA TakeIrqStep ==
  ASSUME FuncInv, NEW i \in Irqs, TakeIrq(i)
  PROVE  FuncInv' /\ panicked' = panicked
<1>0. PICK c \in 1..Len(cpu) :
        StackInv(c) /\ \E D \in [c..Len(cpu) -> Database] : NestInv(c, D)
  BY DEF FuncInv
<1>1. PICK D \in [c..Len(cpu) -> Database] : StackInv(c) /\ NestInv(c, D)
  BY <1>0
<1>2. PICK m : m = Len(cpu)
  OBVIOUS
<1>3. PICK d : d = db'
  OBVIOUS
<1> DEFINE h == IrqPart[i]
           a == Activation("irq", h, i, 0)
           E == [k \in c..(m + 1) |-> IF k = m + 1 THEN d ELSE D[k]]
<1>4. /\ m \in Nat /\ c \in Nat /\ 1 <= c /\ c <= m
      /\ \A k \in 1..m : cpu[k] \in Active /\ cpu[k].part \in Parts
      /\ D \in [c..m -> Database]
  BY <1>0, <1>1, <1>2, CpuType DEF FuncInv
<1>5. h \in Secure /\ h \in Parts /\ Live(h) /\ i \in enabled /\ i \in pending
  BY PartFacts DEF FuncInv, LiveInv, TakeIrq
<1>6. Same(db, D[m]) /\ db \in Database /\ D[m] \in Database
  BY <1>1, <1>2, <1>4 DEF NestInv, FuncInv, TypeInv
<1>7. IrqStateOk(db.state[h])
  BY <1>1, <1>2, <1>4, <1>5, <1>6 DEF NestInv, LiveState, Same, IrqStateOk
<1>8. /\ db' = IrqStarted(db, h, i) /\ enabled' = enabled \ {i} /\ cpu' = Append(cpu, a)
      /\ panicked' = panicked /\ pending' = pending \ {i}
      /\ UNCHANGED <<lock, initing, boot, raises, ns, cur, tz, nslock>>
  BY <1>7 DEF TakeIrq
<1>9. /\ a \in Active /\ a.kind = "irq" /\ a.part = h /\ a.irq = i /\ a.pc = "run"
  BY <1>5, NewActivation
<1> HIDE DEF a
<1>10. /\ Len(cpu') = m + 1 /\ cpu' \in Seq(Active) /\ cpu' # <<>>
       /\ cpu'[m + 1] = a /\ \A k \in 1..m : cpu'[k] = cpu[k]
  BY <1>2, <1>8, <1>9, AppendCpu DEF FuncInv
<1>11. d \in Database /\ IrqStep(db, d, h) /\ d.client = db.client
  BY <1>3, <1>5, <1>6, <1>8, IrqStartedFields
<1>12. IrqStep(D[m], d, h)
  BY <1>6, <1>11 DEF IrqStep, Same
<1>13. TypeInv' /\ NsInv' /\ BootInv' /\ LiveInv'
  <2>1. TypeInv'
    BY <1>3, <1>8, <1>10, <1>11 DEF FuncInv, TypeInv
  <2>2. NsInv' /\ BootInv'
    BY <1>8 DEF FuncInv, NsInv, FreeSlots, BootInv
  <2>3. \A p : Live(p)' <=> Live(p)
    BY <1>8 DEF Live
  <2>4. LiveInv'
    <3>1. \A k \in 2..m : Live(cpu[k].part)
      BY <1>2 DEF FuncInv, LiveInv
    <3>2. \A k \in 2..(m + 1) : Live(cpu'[k].part)
      <4>1. \A k \in 2..m : Live(cpu'[k].part)
        BY <1>10, <3>1
      <4>2. Live(cpu'[m + 1].part)
        BY <1>5, <1>9, <1>10
      <4>3. \A k \in 2..(m + 1) : k \in 2..m \/ k = m + 1
        BY <1>4
      <4> QED
        BY <4>1, <4>2, <4>3
    <3>3. \A j \in enabled' : Live(IrqPart[j])
      BY <1>8 DEF FuncInv, LiveInv
    <3> QED
      BY <1>10, <2>3, <3>2, <3>3 DEF LiveInv
  <2> QED
    BY <2>1, <2>2, <2>4
<1>14. StackInv(c)'
  <2>0. /\ \A k \in 1..m : (cpu[k].kind = "irq" <=> k > c) /\ (k # c => cpu[k].pc = "run")
        /\ \A k \in (c + 1)..m : cpu[k].irq \in Irqs /\ cpu[k].part = IrqPart[cpu[k].irq]
    BY <1>0, <1>2, <1>4 DEF StackInv
  <2>1. \A k \in (c + 1)..m : IrqPrio[cpu[k].irq] < IrqPrio[i]
    BY <1>0, <1>2, <1>4 DEF StackInv, TakeIrq
  <2>2. \A k \in (c + 1)..(m + 1) : cpu'[k].irq \in Irqs /\ cpu'[k].part = IrqPart[cpu'[k].irq]
    BY <1>4, <1>9, <1>10, <2>0
  <2>3. \A j, k \in (c + 1)..(m + 1) :
          j < k => IrqPrio[cpu'[j].irq] < IrqPrio[cpu'[k].irq]
    <3>1. \A j, k \in (c + 1)..m : j < k => IrqPrio[cpu[j].irq] < IrqPrio[cpu[k].irq]
      BY <1>0, <1>2 DEF StackInv
    <3>2. ASSUME NEW k \in (c + 1)..(m + 1)
          PROVE  \/ k = m + 1 /\ cpu'[k].irq = i
                 \/ k \in (c + 1)..m /\ cpu'[k] = cpu[k]
      <4>1. k = m + 1 \/ (k \in (c + 1)..m /\ k \in 1..m)
        BY <1>4
      <4>2. cpu'[m + 1].irq = i /\ \A x \in 1..m : cpu'[x] = cpu[x]
        BY <1>9, <1>10
      <4>3. CASE k = m + 1
        BY <4>2, <4>3
      <4>4. CASE k \in (c + 1)..m /\ k \in 1..m
        BY <4>2, <4>4
      <4> QED
        BY <4>1, <4>3, <4>4
    <3>3. \A j, k \in (c + 1)..(m + 1) : j < k => j # m + 1
      BY <1>4
    <3> QED
      BY <2>1, <3>1, <3>2, <3>3
  <2>4. \A k \in 2..c : db'.client[cpu'[k].part] = cpu'[k].client
    BY <1>0, <1>3, <1>4, <1>10, <1>11 DEF StackInv
  <2>5. \A k \in 1..(m + 1) : cpu'[k].kind = "irq" <=> k > c
    BY <1>4, <1>9, <1>10, <2>0
  <2>6. \A k \in 1..(m + 1) : k # c => cpu'[k].pc = "run"
    BY <1>4, <1>9, <1>10, <2>0
  <2>7. \A k \in 1..c : cpu'[k] = cpu[k]
    BY <1>4, <1>10
  <2>8. /\ IF boot'.pc = "ns" THEN cpu'[1].kind = "ns" /\ cpu'[1].part = NS
                              ELSE cpu'[1].kind = "core" /\ cpu'[1].part = CORE
        /\ \A k \in 2..c : cpu'[k].kind = "call" /\ cpu'[k].part \in Secure
        /\ boot'.pc \notin {"result", "ns"} => c = 1
        /\ boot'.pc = "result" => c <= 2
        /\ lock' = IF cpu'[c].pc = "run" THEN c - 1 ELSE c - 2
    BY <1>0, <1>4, <1>8, <2>7 DEF StackInv
  <2>9. \A j, k \in 1..c : j # k => cpu'[j].part # cpu'[k].part
    BY <1>0, <1>4, <2>7 DEF StackInv
  <2>10. cpu'[c].pc # "run" =>
           c >= 3 /\ cpu'[c].cur = cpu'[c].part /\ cpu'[c].ret = cpu'[c - 1].part
    BY <1>0, <1>4, <2>7 DEF StackInv
  <2> QED
    BY <1>4, <1>10, <2>2, <2>3, <2>4, <2>5, <2>6, <2>8, <2>9, <2>10 DEF StackInv
<1>15. /\ E \in [c..(m + 1) -> Database] /\ E[m + 1] = d
       /\ \A k \in c..m : E[k] = D[k]
  BY <1>4, <1>11
<1> HIDE DEF E
<1>16. ThreadInv(c, E[c])'
  <2>1. E[c] = D[c] /\ \A k \in 1..c : cpu'[k] = cpu[k]
    BY <1>4, <1>10, <1>15
  <2>2. ThreadInv(c, D[c])
    BY <1>1 DEF NestInv
  <2> QED
    BY <1>4, <1>8, <2>1, <2>2, ThreadKept
<1>17. \A k \in (c + 1)..(m + 1) : IrqStep(E[k - 1], E[k], cpu'[k].part)
  <2>1. \A k \in (c + 1)..m : IrqStep(D[k - 1], D[k], cpu[k].part)
    BY <1>1, <1>2 DEF NestInv
  <2>2. ASSUME NEW k \in (c + 1)..m
        PROVE  IrqStep(E[k - 1], E[k], cpu'[k].part)
    <3>1. k - 1 \in c..m /\ k \in c..m /\ k \in 1..m
      BY <1>4
    <3> QED
      BY <1>10, <1>15, <2>1, <3>1
  <2>3. IrqStep(E[(m + 1) - 1], E[m + 1], cpu'[m + 1].part)
    <3>1. (m + 1) - 1 = m /\ m \in c..m
      BY <1>4
    <3> QED
      BY <1>9, <1>10, <1>12, <1>15, <3>1
  <2>4. \A k \in (c + 1)..(m + 1) : k \in (c + 1)..m \/ k = m + 1
    BY <1>4
  <2> QED
    BY <2>2, <2>3, <2>4
<1>18. Settled' => Settled
  BY <1>2, <1>4, <1>8, <1>10 DEF Settled
<1>19. ASSUME NEW k \in c..m
       PROVE  LiveState(E[k])' /\ CountInv(c, E, k)' /\ (Settled' => MatchInv(k, E[k])')
  <2>1. LiveState(D[k]) /\ CountInv(c, D, k) /\ (Settled => MatchInv(k, D[k]))
    BY <1>1, <1>2 DEF NestInv
  <2>2. k \in Nat /\ (\A j \in c..k : E[j] = D[j]) /\ \A j \in 1..k : cpu'[j] = cpu[j]
    BY <1>4, <1>10, <1>15
  <2>3. c <= k /\ boot' = boot
    BY <1>4, <1>8
  <2>4. /\ LiveState(D[k]) => LiveState(E[k])'
        /\ CountInv(c, D, k) => CountInv(c, E, k)'
        /\ MatchInv(k, D[k]) => MatchInv(k, E[k])'
    BY <1>4, <2>2, <2>3, LevelKept
  <2> QED
    BY <1>18, <2>1, <2>4
<1>20. /\ LiveState(E[m + 1])' /\ CountInv(c, E, m + 1)'
       /\ Settled' => MatchInv(m + 1, E[m + 1])'
  <2>1. LiveState(D[m]) /\ CountInv(c, D, m) /\ (Settled => MatchInv(m, D[m]))
    BY <1>1, <1>2, <1>4 DEF NestInv
  <2>2. LiveState(d)'
    <3>1. \A p \in Parts : d.state[p] = D[m].state[p]
                           \/ d.state[p] \in {"HANDLING_IRQ", "SUSPENDED"}
      BY <1>5, <1>6, <1>12 DEF IrqStep, Database
    <3> QED
      BY <1>8, <2>1, <3>1 DEF LiveState, Live
  <2>3. Settled' => MatchInv(m + 1, d)'
    <3> SUFFICES ASSUME Settled' PROVE MatchInv(m + 1, d)'
      OBVIOUS
    <3>1. MatchInv(m, D[m]) /\ boot' = boot
      BY <1>8, <1>18, <2>1
    <3>2. \A j \in 1..m : cpu'[j] = cpu[j] /\ cpu[j].part \in Parts
      BY <1>4, <1>10
    <3>3. cpu'[m + 1].kind = "irq" /\ cpu'[m + 1].part = h
      BY <1>9, <1>10
    <3> HIDE DEF h
    <3> QED
      BY <1>4, <1>5, <1>6, <1>11, <1>12, <3>1, <3>2, <3>3, MatchStep
  <2>4. CountInv(c, E, m)
    <3>1. \A p : Cut(c, E, m, p) = Cut(c, D, m, p)
      BY <1>4, <1>15 DEF Cut
    <3> QED
      BY <1>4, <1>15, <2>1, <3>1 DEF CountInv
  <2>5. E[m] = D[m] /\ IrqStep(E[m], E[m + 1], h)
    BY <1>4, <1>12, <1>15
  <2>6. CountInv(c, E, m + 1)'
    BY <1>4, <1>5, <1>6, <1>9, <1>10, <1>11, <1>15, <2>4, <2>5, CountStep
  <2> QED
    BY <1>15, <2>2, <2>3, <2>6
<1>21. Same(db', E[Len(cpu')])
  BY <1>3, <1>10, <1>15 DEF Same
<1>22. NestInv(c, E)'
  <2>1. \A k \in c..(m + 1) :
          LiveState(E[k])' /\ CountInv(c, E, k)' /\ (Settled' => MatchInv(k, E[k])')
    BY <1>4, <1>19, <1>20
  <2> QED
    BY <1>10, <1>16, <1>17, <1>21, <2>1 DEF NestInv
<1>23. c \in 1..Len(cpu') /\ E \in [c..Len(cpu') -> Database]
  BY <1>4, <1>10, <1>15
<1> QED
  BY <1>8, <1>13, <1>14, <1>22, <1>23 DEF FuncInv

\* The return of a handler: the history loses its last database.
LEMMA IrqReturnStep ==
  ASSUME FuncInv, IrqReturn
  PROVE  FuncInv' /\ panicked' = panicked
<1>0. PICK c \in 1..Len(cpu) :
        StackInv(c) /\ \E D \in [c..Len(cpu) -> Database] : NestInv(c, D)
  BY DEF FuncInv
<1>1. PICK D \in [c..Len(cpu) -> Database] : StackInv(c) /\ NestInv(c, D)
  BY <1>0
<1>2. PICK n : n = Len(cpu)
  OBVIOUS
<1>3. PICK d : d = db'
  OBVIOUS
<1>4. /\ n \in Nat /\ c \in Nat /\ 1 <= c /\ c < n /\ Top = cpu[n]
      /\ \A k \in 1..n : cpu[k] \in Active /\ cpu[k].part \in Parts
      /\ D \in [c..n -> Database]
  BY <1>0, <1>1, <1>2, CpuType DEF FuncInv, IrqReturn, StackInv
<1> DEFINE h == cpu[n].part
           b == D[n - 1]
<1>5. /\ h \in Parts /\ b \in Database /\ D[n] \in Database /\ db \in Database
      /\ IrqStep(b, D[n], h) /\ Same(db, D[n])
      /\ \A k \in (c + 1)..n : IrqStep(D[k - 1], D[k], cpu[k].part)
      /\ \A k \in c..n : LiveState(D[k]) /\ CountInv(c, D, k) /\ (Settled => MatchInv(k, D[k]))
      /\ ThreadInv(c, D[c])
  <2>1. n - 1 \in c..n /\ n \in c..n /\ n \in 1..n /\ n \in (c + 1)..n
    BY <1>4
  <2>2. \A k \in (c + 1)..n : IrqStep(D[k - 1], D[k], cpu[k].part)
    BY <1>1, <1>2 DEF NestInv
  <2>3. /\ \A k \in c..n : LiveState(D[k]) /\ CountInv(c, D, k)
                              /\ (Settled => MatchInv(k, D[k]))
        /\ ThreadInv(c, D[c]) /\ Same(db, D[n])
    BY <1>1, <1>2 DEF NestInv
  <2>4. db \in Database
    BY DEF FuncInv, TypeInv
  <2> QED
    BY <1>4, <2>1, <2>2, <2>3, <2>4
<1> HIDE DEF h, b
<1>6. db.running = h /\ db.caller[h] \in Parts
  BY <1>5 DEF IrqStep, Same, Database
<1>7. Returnable
  BY <1>5, <1>6, PartFacts DEF Returnable
<1>8. /\ db' = IrqReturned(db, h) /\ cpu' = Front(cpu) /\ panicked' = panicked
      /\ UNCHANGED <<lock, initing, boot, enabled, pending, raises, ns, cur, tz, nslock>>
  BY <1>6, <1>7 DEF IrqReturn
<1>9. /\ d \in Database /\ d.state = b.state /\ d.caller = b.caller /\ d.ctx = b.ctx
      /\ d.client = db.client
      /\ d.running = IF b.state[b.running] \in {"RUNNING", "HANDLING_IRQ"}
                     THEN b.running ELSE h
  BY <1>3, <1>5, <1>8, IrqReturnedFields
<1>10. /\ Len(cpu') = n - 1 /\ cpu' \in Seq(Active) /\ cpu' # <<>>
       /\ \A k \in 1..(n - 1) : cpu'[k] = cpu[k]
  BY <1>2, <1>4, <1>8, FrontCpu DEF FuncInv
<1>11. TypeInv' /\ NsInv' /\ BootInv' /\ LiveInv'
  <2>1. TypeInv'
    BY <1>3, <1>8, <1>9, <1>10 DEF FuncInv, TypeInv
  <2>2. NsInv' /\ BootInv'
    BY <1>8 DEF FuncInv, NsInv, FreeSlots, BootInv
  <2>3. \A p : Live(p)' <=> Live(p)
    BY <1>8 DEF Live
  <2>4. LiveInv'
    <3>1. \A k \in 2..n : Live(cpu[k].part)
      BY <1>2 DEF FuncInv, LiveInv
    <3>2. \A k \in 2..(n - 1) : Live(cpu'[k].part)
      BY <1>4, <1>10, <3>1
    <3>3. \A j \in enabled' : Live(IrqPart[j])
      BY <1>8 DEF FuncInv, LiveInv
    <3> QED
      BY <1>10, <2>3, <3>2, <3>3 DEF LiveInv
  <2> QED
    BY <2>1, <2>2, <2>4
<1>12. StackInv(c)'
  <2>1. \A k \in 1..c : cpu'[k] = cpu[k]
    BY <1>4, <1>10
  <2>2. \A k \in 2..c : db'.client[cpu'[k].part] = cpu'[k].client
    BY <1>0, <1>3, <1>4, <2>1, <1>9 DEF StackInv
  <2>3. \A k \in 1..(n - 1) : (cpu'[k].kind = "irq" <=> k > c) /\ (k # c => cpu'[k].pc = "run")
    BY <1>0, <1>2, <1>4, <1>10 DEF StackInv
  <2>4. \A k \in (c + 1)..(n - 1) :
          cpu'[k].irq \in Irqs /\ cpu'[k].part = IrqPart[cpu'[k].irq]
    BY <1>0, <1>2, <1>4, <1>10 DEF StackInv
  <2>5. \A j, k \in (c + 1)..(n - 1) : j < k => IrqPrio[cpu'[j].irq] < IrqPrio[cpu'[k].irq]
    BY <1>0, <1>2, <1>4, <1>10 DEF StackInv
  <2>8. /\ IF boot'.pc = "ns" THEN cpu'[1].kind = "ns" /\ cpu'[1].part = NS
                              ELSE cpu'[1].kind = "core" /\ cpu'[1].part = CORE
        /\ \A k \in 2..c : cpu'[k].kind = "call" /\ cpu'[k].part \in Secure
        /\ boot'.pc \notin {"result", "ns"} => c = 1
        /\ boot'.pc = "result" => c <= 2
        /\ lock' = IF cpu'[c].pc = "run" THEN c - 1 ELSE c - 2
    BY <1>0, <1>4, <1>8, <2>1 DEF StackInv
  <2>9. \A j, k \in 1..c : j # k => cpu'[j].part # cpu'[k].part
    BY <1>0, <1>4, <2>1 DEF StackInv
  <2>10. cpu'[c].pc # "run" =>
           c >= 3 /\ cpu'[c].cur = cpu'[c].part /\ cpu'[c].ret = cpu'[c - 1].part
    BY <1>0, <1>4, <2>1 DEF StackInv
  <2>11. c \in 1..(n - 1)
    BY <1>4
  <2> QED
    BY <1>10, <2>2, <2>3, <2>4, <2>5, <2>8, <2>9, <2>10, <2>11 DEF StackInv
<1>14. ASSUME NEW x, ThreadInv(c, x)
       PROVE  ThreadInv(c, x)'
  <2>1. \A k \in 1..c : cpu'[k] = cpu[k]
    BY <1>4, <1>10
  <2> QED
    BY <1>4, <1>8, <1>14, <2>1, ThreadKept
<1>15. CASE n - 1 = c
  <2>1. ThreadInv(c, d)
    <3>0. ThreadInv(c, b)
      BY <1>5, <1>15 DEF b
    <3>1. /\ cpu[c].pc \notin {"state", "index"}
          /\ boot.pc # "open"
          => d.running = cpu[c].part
      <4> SUFFICES ASSUME cpu[c].pc \notin {"state", "index"}, boot.pc # "open"
                   PROVE  d.running = cpu[c].part
        OBVIOUS
      <4>1. boot.pc = "init" => boot.idx > 2
        <5>1. Live(cpu[n].part)
          BY <1>2, <1>4 DEF FuncInv, LiveInv
        <5> QED
          BY <5>1 DEF Live, Secure, FuncInv, BootInv
      <4>2. b.state[b.running] = "RUNNING" /\ b.running = cpu[c].part
        BY <3>0, <4>1 DEF ThreadInv
      <4> QED
        BY <1>9, <4>2
    <3> QED
      BY <3>0, <1>9, <3>1 DEF ThreadInv
  <2>2. ThreadInv(c, d)'
    BY <1>14, <2>1
  <2>3. c = Len(cpu')
    BY <1>10, <1>15
  <2> QED
    BY <1>3, <1>4, <1>8, <1>9, <1>11, <1>12, <2>2, <2>3, ThreadStep
<1>16. CASE n - 1 > c
  <2> DEFINE E == [k \in c..(n - 1) |-> D[k]]
  <2>1. /\ E \in [c..Len(cpu') -> Database] /\ c \in 1..Len(cpu')
        /\ \A k \in c..(n - 1) : E[k] = D[k]
    BY <1>4, <1>10
  <2> HIDE DEF E
  <2>2. Same(db', E[Len(cpu')])
    <3>1. b.running = cpu[n - 1].part /\ b.state[b.running] = "HANDLING_IRQ"
      <4>1. IrqStep(D[n - 2], b, cpu[n - 1].part) /\ D[n - 2] \in Database
            /\ cpu[n - 1].part \in Parts
        <5>1. n - 1 \in (c + 1)..n /\ (n - 1) - 1 = n - 2 /\ n - 2 \in c..n /\ n - 1 \in 1..n
          BY <1>4, <1>16
        <5> QED
          BY <1>4, <1>5, <5>1 DEF b
      <4> QED
        BY <4>1 DEF IrqStep, Database
    <3>2. Same(d, b)
      BY <1>9, <3>1 DEF Same
    <3>3. E[Len(cpu')] = b
      <4>1. n - 1 \in c..(n - 1)
        BY <1>4
      <4> QED
        BY <1>10, <2>1, <4>1 DEF b
    <3> QED
      BY <1>3, <3>2, <3>3
  <2>3. Settled' => Settled
    BY <1>0, <1>2, <1>4, <1>8, <1>10 DEF Settled, StackInv
  <2>4. ASSUME NEW k \in c..(n - 1)
        PROVE  LiveState(E[k])' /\ CountInv(c, E, k)' /\ (Settled' => MatchInv(k, E[k])')
    <3>1. LiveState(D[k]) /\ CountInv(c, D, k) /\ (Settled => MatchInv(k, D[k]))
      BY <1>4, <1>5
    <3>2. k \in Nat /\ (\A j \in c..k : E[j] = D[j]) /\ \A j \in 1..k : cpu'[j] = cpu[j]
      BY <1>4, <1>10, <2>1
    <3>3. c <= k /\ boot' = boot
      BY <1>4, <1>8
    <3>4. /\ LiveState(D[k]) => LiveState(E[k])'
          /\ CountInv(c, D, k) => CountInv(c, E, k)'
          /\ MatchInv(k, D[k]) => MatchInv(k, E[k])'
      BY <1>4, <3>2, <3>3, LevelKept
    <3> QED
      BY <2>3, <3>1, <3>4
  <2>5. ThreadInv(c, E[c])'
    <3>1. E[c] = D[c]
      BY <1>4, <2>1
    <3> QED
      BY <1>5, <1>14, <3>1
  <2>6. ASSUME NEW k \in (c + 1)..(n - 1)
        PROVE  IrqStep(E[k - 1], E[k], cpu'[k].part)
    <3>1. k - 1 \in c..(n - 1) /\ k \in c..(n - 1) /\ k \in 1..(n - 1) /\ k \in (c + 1)..n
      BY <1>4
    <3> QED
      BY <1>5, <1>10, <2>1, <3>1
  <2>7. NestInv(c, E)'
    BY <1>10, <2>2, <2>4, <2>5, <2>6 DEF NestInv
  <2> QED
    BY <1>8, <1>11, <1>12, <2>1, <2>7 DEF FuncInv
<1> QED
  BY <1>4, <1>15, <1>16
-----------------------------------------------------------------------------
\* Steps of the non-secure RTOS touch its own variables.
LEMMA NsStep ==
  ASSUME FuncInv, NEW n \in Client, ns' = n, TypeInv', NsInv',
         UNCHANGED <<db, lock, initing, boot, cpu, enabled>>
  PROVE  FuncInv'
<1>1. LiveInv'
  BY DEF FuncInv, LiveInv, Live
<1>2. Same(db', db) /\ db'.client = db.client
  BY DEF Same
<1> QED
  BY <1>1, <1>2, SameStack

\* The free list is built.
LEMMA TzInitStep ==
  ASSUME FuncInv, TzInit
  PROVE  FuncInv'
<1> DEFINE id == [s \in NsSlots |-> IF s = 0 THEN ns.id[0] ELSE 0]
           next == [s \in NsSlots |-> IF s = 0 THEN ns.next[0]
                                      ELSE IF s = MaxNs - 1 THEN -1 ELSE s + 1]
<1>0. ns \in Client /\ TypeInv /\ NsInv /\ ~ns.started
  BY DEF FuncInv, TypeInv, TzInit
<1>1. ns' = [ns EXCEPT !.id = id, !.next = next, !.started = TRUE]
  BY DEF TzInit
<1>2. 0 \in NsSlots /\ 1 \in NsSlots /\ NsSlots \subseteq Nat
      /\ \A s \in NsSlots : s # 0 /\ s # MaxNs - 1 => s + 1 \in NsSlots
  BY FuncAssumption DEF NsSlots
<1>3. id \in [NsSlots -> Int] /\ next \in [NsSlots -> Int] /\ id[0] = ns.id[0]
      /\ \A s \in NsSlots \ {0} : next[s] = IF s = MaxNs - 1 THEN -1 ELSE s + 1
  BY <1>0, <1>2 DEF Client
<1> HIDE DEF id, next
<1>4. /\ ns' \in Client /\ ns'.id = id /\ ns'.next = next /\ ns'.started = TRUE
      /\ ns'.free = ns.free /\ ns'.active = ns.active
  BY <1>0, <1>1, <1>3 DEF Client
<1>5. UNCHANGED <<db, lock, initing, boot, cpu, enabled, pending, cur, tz, panicked>>
  BY DEF TzInit
<1>6. TypeInv'
  BY <1>0, <1>4, <1>5 DEF TypeInv
<1>7. /\ ns.free = 1 /\ \A t \in Threads : tz[t] = 0
  BY <1>0 DEF NsInv
<1>8. \A s : s \in FreeSlots' <=> s \in NsSlots \ {0}
  <2>1. \A s \in NsSlots : s + 1 # 0
    BY <1>2
  <2>2. \A s \in NsSlots : \A t \in Threads : tz'[t] # s + 1
    BY <1>5, <1>7, <2>1
  <2> QED
    BY <2>2 DEF FreeSlots
<1>9. NsInv'
  <2>0. \A s \in NsSlots \ {0} : s \in Nat /\ s >= 1 /\ s + 1 # 1 /\ s + 1 # -1
    BY <1>2
  <2>1. ns'.free \in FreeSlots' \cup {-1}
    BY <1>2, <1>4, <1>7, <1>8
  <2>2. ASSUME NEW s \in FreeSlots'
        PROVE  ns'.next[s] \in (FreeSlots' \ {ns'.free}) \cup {-1}
    <3>1. s \in NsSlots \ {0} /\ ns'.next[s] = IF s = MaxNs - 1 THEN -1 ELSE s + 1
      BY <1>3, <1>4, <1>8
    <3>2. s # MaxNs - 1 => s + 1 \in NsSlots \ {0} /\ s + 1 # 1
      BY <1>2, <2>0, <3>1
    <3> QED
      BY <1>4, <1>7, <1>8, <3>1, <3>2
  <2>5. ASSUME NEW s \in FreeSlots', NEW u \in FreeSlots', s # u, ns'.next[s] # -1
        PROVE  ns'.next[s] # ns'.next[u]
    <3>1. /\ s \in NsSlots \ {0} /\ u \in NsSlots \ {0} /\ s \in Nat /\ u \in Nat
          /\ ns'.next[s] = IF s = MaxNs - 1 THEN -1 ELSE s + 1
          /\ ns'.next[u] = IF u = MaxNs - 1 THEN -1 ELSE u + 1
      BY <1>3, <1>4, <1>8, <2>0
    <3> QED
      BY <2>5, <3>1
  <2>3. cur \in Threads
    BY <1>0 DEF TypeInv
  <2> QED
    BY <1>0, <1>3, <1>4, <1>5, <1>7, <2>1, <2>2, <2>3, <2>5 DEF NsInv
<1> QED
  BY <1>4, <1>5, <1>6, <1>9, NsStep

\* A slot leaves the free list.
LEMMA TzAllocStep ==
  ASSUME FuncInv, NEW t \in Threads, TzAlloc(t)
  PROVE  FuncInv'
<1>0. ns \in Client /\ TypeInv /\ NsInv /\ ns.started /\ tz[t] = 0 /\ t # cur
      /\ tz \in [Threads -> {0} \cup 2..MaxNs] /\ cur \in Threads
  BY DEF FuncInv, TypeInv, TzAlloc
<1>1. UNCHANGED <<db, lock, initing, boot, cpu, enabled, pending, cur, panicked>>
  BY DEF TzAlloc
<1>2. CASE ns.free < 0
  <2>1. UNCHANGED <<ns, tz>>
    BY <1>2 DEF TzAlloc
  <2>2. TypeInv' /\ NsInv'
    BY <1>0, <1>1, <2>1 DEF TypeInv, NsInv, FreeSlots
  <2> QED
    BY <1>0, <1>1, <2>1, <2>2, NsStep
<1>3. CASE ~(ns.free < 0)
  <2> DEFINE f == ns.free
             id == [ns.id EXCEPT ![f] = NextNsId]
  <2>1. /\ tz' = [tz EXCEPT ![t] = f + 1]
        /\ ns' = [ns EXCEPT !.id = id, !.given = ns.given + 1, !.free = ns.next[f]]
    BY <1>3 DEF TzAlloc
  <2>2. f \in FreeSlots /\ f \in NsSlots /\ f # 0 /\ f \in Nat /\ f + 1 \in 2..MaxNs
        /\ \A u \in Threads : tz[u] # f + 1
    BY <1>0, <1>3, FuncAssumption DEF NsInv, FreeSlots, NsSlots
  <2>3. /\ id \in [NsSlots -> Int] /\ id[f] < 0 /\ ns.next[f] \in Int
        /\ \A s \in NsSlots : s # f => id[s] = ns.id[s]
    BY <1>0, <2>2 DEF Client, NextNsId
  <2> HIDE DEF id, f
  <2>4. /\ ns' \in Client /\ ns'.id = id /\ ns'.next = ns.next /\ ns'.free = ns.next[f]
        /\ ns'.active = ns.active /\ ns'.started = ns.started
    <3>1. ns.given + 1 \in Nat \ {0}
      BY <1>0 DEF Client
    <3> QED
      BY <1>0, <2>1, <2>3, <3>1 DEF Client
  <2>5. /\ tz' \in [Threads -> {0} \cup 2..MaxNs] /\ tz'[t] = f + 1
        /\ \A u \in Threads : u # t => tz'[u] = tz[u]
    BY <1>0, <2>1, <2>2
  <2>6. TypeInv'
    BY <1>0, <1>1, <2>4, <2>5 DEF TypeInv
  <2>7. \A s : s \in FreeSlots' <=> s \in FreeSlots \ {f}
    BY <1>0, <2>2, <2>5 DEF FreeSlots, NsSlots
  <2>8. NsInv'
    <3>1. /\ ns'.free \in FreeSlots' \cup {-1}
          /\ \A s \in FreeSlots' : ns'.next[s] \in (FreeSlots' \ {ns'.free}) \cup {-1}
      BY <1>0, <2>2, <2>4, <2>7 DEF NsInv, f
    <3>2. \A s, u \in FreeSlots' :
            s # u /\ ns'.next[s] # -1 => ns'.next[s] # ns'.next[u]
      BY <1>0, <2>4, <2>7 DEF NsInv
    <3>3. \A u, v \in Threads : u # v /\ tz'[u] # 0 => tz'[u] # tz'[v]
      BY <1>0, <2>2, <2>5 DEF NsInv
    <3>4. ns'.id[0] < 0 /\ \A u \in Threads : tz'[u] # 0 => ns'.id[tz'[u] - 1] < 0
      <4>1. ns'.id[0] < 0
        BY <1>0, <2>2, <2>3, <2>4, FuncAssumption DEF NsInv, NsSlots
      <4>2. ASSUME NEW u \in Threads, tz'[u] # 0
            PROVE  ns'.id[tz'[u] - 1] < 0
        <5>1. CASE u = t
          BY <2>2, <2>3, <2>4, <2>5, <5>1
        <5>2. CASE u # t
          <6>1. tz[u] \in 2..MaxNs /\ tz[u] - 1 \in NsSlots /\ tz[u] - 1 # f
            BY <1>0, <2>2, <2>5, <4>2, <5>2, FuncAssumption DEF NsSlots
          <6>2. ns.id[tz[u] - 1] < 0
            BY <1>0, <6>1 DEF NsInv
          <6> QED
            BY <2>3, <2>4, <2>5, <5>2, <6>1, <6>2
        <5> QED
          BY <5>1, <5>2
      <4> QED
        BY <4>1, <4>2
    <3>5. ns'.active = IF tz'[cur'] = 0 THEN 0 ELSE tz'[cur'] - 1
      BY <1>0, <1>1, <2>4, <2>5 DEF NsInv
    <3> QED
      BY <1>0, <2>4, <3>1, <3>2, <3>3, <3>4, <3>5 DEF NsInv
  <2> QED
    BY <1>1, <2>4, <2>6, <2>8, NsStep
<1> QED
  BY <1>2, <1>3

\* A slot comes back to the free list.
LEMMA TzFreeStep ==
  ASSUME FuncInv, NEW t \in Threads, TzFree(t)
  PROVE  FuncInv'
<1> DEFINE f == tz[t] - 1
           id == [ns.id EXCEPT ![f] = 0]
           next == [ns.next EXCEPT ![f] = ns.free]
           act == IF ns.active = f THEN 0 ELSE ns.active
<1>0. ns \in Client /\ TypeInv /\ NsInv /\ ns.started /\ tz[t] # 0
      /\ tz \in [Threads -> {0} \cup 2..MaxNs] /\ cur \in Threads
  BY DEF FuncInv, TypeInv, TzFree
<1>1. UNCHANGED <<db, lock, initing, boot, cpu, enabled, pending, cur, panicked>>
  BY DEF TzFree
<1>2. /\ tz' = [tz EXCEPT ![t] = 0]
      /\ ns' = [ns EXCEPT !.id = id, !.next = next, !.free = f, !.active = act]
  BY DEF TzFree, FreeSlot
<1>3. f \in NsSlots /\ f # 0 /\ f \in Nat /\ tz[t] = f + 1 /\ f + 1 \in Nat \ {0}
      /\ 0 \in NsSlots
  BY <1>0, FuncAssumption DEF NsSlots
<1>4. /\ id \in [NsSlots -> Int] /\ next \in [NsSlots -> Int] /\ act \in NsSlots
      /\ \A s \in NsSlots : s # f => id[s] = ns.id[s] /\ next[s] = ns.next[s]
      /\ next[f] = ns.free
  BY <1>0, <1>3 DEF Client
<1> HIDE DEF id, f, next
<1>5. /\ ns' \in Client /\ ns'.id = id /\ ns'.next = next /\ ns'.free = f
      /\ ns'.active = act /\ ns'.started = ns.started
  <2>1. act \in NsSlots /\ f \in Int
    BY <1>3, <1>4
  <2> HIDE DEF act
  <2>2. ns'.id = id /\ ns'.next = next /\ ns'.free = f /\ ns'.active = act
    BY <1>0, <1>2 DEF Client
  <2>3. ns'.given = ns.given /\ ns'.started = ns.started
    BY <1>0, <1>2 DEF Client
  <2>4. ns' = [id |-> id, next |-> next, free |-> f, active |-> act,
               given |-> ns.given, started |-> ns.started]
    BY <1>0, <1>2 DEF Client
  <2>5. ns.given \in Nat \ {0} /\ ns.started \in BOOLEAN
    BY <1>0 DEF Client
  <2>6. ns' \in Client
    BY <1>4, <2>1, <2>4, <2>5 DEF Client
  <2> QED
    BY <2>2, <2>3, <2>6
<1>6. /\ tz' \in [Threads -> {0} \cup 2..MaxNs] /\ tz'[t] = 0
      /\ \A u \in Threads : u # t => tz'[u] = tz[u] /\ tz[u] # f + 1
  BY <1>0, <1>2, <1>3 DEF NsInv
<1>7. TypeInv'
  BY <1>0, <1>1, <1>5, <1>6 DEF TypeInv
<1>8. \A s : s \in FreeSlots' <=> s \in FreeSlots \cup {f}
  <2>1. \A s \in NsSlots \ {0} : (\A u \in Threads : tz'[u] # s + 1) <=>
                                 ((\A u \in Threads : tz[u] # s + 1) \/ s = f)
    <3>1. \A s \in NsSlots : s \in Nat
      BY FuncAssumption DEF NsSlots
    <3> QED
      BY <1>3, <1>6, <3>1
  <2> QED
    BY <1>3, <2>1 DEF FreeSlots
<1>9. f \notin FreeSlots /\ FreeSlots \subseteq NsSlots
  BY <1>3 DEF FreeSlots
<1>10. NsInv'
  <2>1. /\ ns'.free \in FreeSlots' \cup {-1}
        /\ \A s \in FreeSlots' : ns'.next[s] \in (FreeSlots' \ {ns'.free}) \cup {-1}
    BY <1>0, <1>4, <1>5, <1>8, <1>9 DEF NsInv
  <2>2. \A s, u \in FreeSlots' :
          s # u /\ ns'.next[s] # -1 => ns'.next[s] # ns'.next[u]
    BY <1>0, <1>4, <1>5, <1>8, <1>9 DEF NsInv
  <2>3. \A u, v \in Threads : u # v /\ tz'[u] # 0 => tz'[u] # tz'[v]
    BY <1>0, <1>6 DEF NsInv
  <2>4. ns'.id[0] < 0 /\ \A u \in Threads : tz'[u] # 0 => ns'.id[tz'[u] - 1] < 0
    <3>1. ns'.id[0] < 0
      BY <1>0, <1>3, <1>4, <1>5 DEF NsInv
    <3>2. ASSUME NEW u \in Threads, tz'[u] # 0
          PROVE  ns'.id[tz'[u] - 1] < 0
      <4>1. u # t /\ tz'[u] = tz[u] /\ tz[u] # 0 /\ tz[u] # f + 1
        BY <1>6, <3>2
      <4>2. tz[u] \in 2..MaxNs /\ tz[u] - 1 \in NsSlots /\ tz[u] - 1 # f
        BY <1>0, <1>3, <4>1, FuncAssumption DEF NsSlots
      <4> QED
        BY <1>0, <1>4, <1>5, <4>1, <4>2 DEF NsInv
    <3> QED
      BY <3>1, <3>2
  <2>5. ns'.active = IF tz'[cur'] = 0 THEN 0 ELSE tz'[cur'] - 1
    <3>1. CASE cur = t
      BY <1>0, <1>1, <1>3, <1>5, <1>6, <3>1 DEF NsInv
    <3>2. CASE cur # t
      <4>1. tz'[cur] = tz[cur] /\ tz[cur] # f + 1 /\ tz[cur] \in Nat
        BY <1>0, <1>6, <3>2, FuncAssumption
      <4>2. ns.active # f
        BY <1>0, <1>3, <4>1 DEF NsInv
      <4> QED
        BY <1>0, <1>1, <1>5, <4>1, <4>2 DEF NsInv
    <3> QED
      BY <3>1, <3>2
  <2> QED
    BY <1>0, <1>5, <2>1, <2>2, <2>3, <2>4, <2>5 DEF NsInv
<1> QED
  BY <1>1, <1>5, <1>7, <1>10, NsStep

\* Another thread runs.
LEMMA SwitchStep ==
  ASSUME FuncInv, NEW t \in Threads, Switch(t)
  PROVE  FuncInv'
<1>0. ns \in Client /\ TypeInv /\ NsInv /\ ns.started
      /\ tz \in [Threads -> {0} \cup 2..MaxNs] /\ cur \in Threads
  BY DEF FuncInv, TypeInv, Switch
<1>1. UNCHANGED <<db, lock, initing, boot, cpu, enabled, pending, tz, panicked>> /\ cur' = t
  BY DEF Switch
<1>2. \A u \in Threads : /\ tz[u] # 0 => tz[u] - 1 \in NsSlots /\ ns.id[tz[u] - 1] # 0
                         /\ tz[u] = 0 \/ tz[u] \in 2..MaxNs
  <2>1. \A x \in 2..MaxNs : x - 1 \in NsSlots
    BY FuncAssumption DEF NsSlots
  <2>2. \A u \in Threads : tz[u] # 0 => ns.id[tz[u] - 1] < 0
    BY <1>0 DEF NsInv
  <2>3. \A u \in Threads : tz[u] = 0 \/ tz[u] \in 2..MaxNs
    BY <1>0
  <2> QED
    BY <2>1, <2>2, <2>3
<1> DEFINE m == [ns EXCEPT !.active = 0]
<1>3. /\ 0 \in NsSlots /\ m \in Client /\ m.active = 0 /\ m.id = ns.id
      /\ m.next = ns.next /\ m.free = ns.free /\ m.started = ns.started
  <2>1. 0 \in NsSlots
    BY FuncAssumption DEF NsSlots
  <2> QED
    BY <1>0, <2>1 DEF Client
<1>4. StoredContext(ns, tz[cur]) = m
  <2>1. CASE tz[cur] = 0
    <3>1. ns.active = 0
      BY <1>0, <2>1 DEF NsInv
    <3> QED
      BY <1>0, <2>1, <3>1 DEF StoredContext, Client
  <2>2. CASE tz[cur] # 0
    BY <1>0, <1>2, <2>2 DEF StoredContext, NsInv
  <2> QED
    BY <2>1, <2>2
<1>5. ns' = LoadedContext(m, tz[t])
  BY <1>4 DEF Switch
<1> HIDE DEF m
<1>6. /\ ns' \in Client /\ ns'.active = IF tz[t] = 0 THEN 0 ELSE tz[t] - 1
      /\ ns'.id = ns.id /\ ns'.next = ns.next /\ ns'.free = ns.free
      /\ ns'.started = ns.started
  <2>1. CASE tz[t] = 0
    BY <1>3, <1>5, <2>1 DEF LoadedContext
  <2>2. CASE tz[t] # 0
    <3>1. ns' = [m EXCEPT !.active = tz[t] - 1]
      BY <1>2, <1>3, <1>5, <2>2 DEF LoadedContext
    <3> QED
      BY <1>2, <1>3, <2>2, <3>1 DEF Client
  <2> QED
    BY <2>1, <2>2
<1>7. TypeInv'
  BY <1>0, <1>1, <1>6 DEF TypeInv
<1>8. FreeSlots' = FreeSlots
  BY <1>1 DEF FreeSlots
<1>9. NsInv'
  BY <1>0, <1>1, <1>6, <1>8 DEF NsInv
<1> QED
  BY <1>1, <1>6, <1>7, <1>9, NsStep

\* A service that runs is the one the database has running.
LEMMA RunningTop ==
  ASSUME FuncInv, SecureRuns
  PROVE  db.running = Top.part /\ Live(Top.part) /\ Top.part \in Parts
<1>0. PICK c \in 1..Len(cpu) :
        StackInv(c) /\ \E D \in [c..Len(cpu) -> Database] : NestInv(c, D)
  BY DEF FuncInv
<1>1. PICK D \in [c..Len(cpu) -> Database] : StackInv(c) /\ NestInv(c, D)
  BY <1>0
<1>2. /\ Len(cpu) \in Nat \ {0} /\ Top = cpu[Len(cpu)] /\ Top.part \in Parts
  <2>1. TypeInv
    BY DEF FuncInv
  <2> QED
    BY <2>1, CpuType
<1>3. Top.kind \in {"call", "irq"} /\ Top.pc = "run"
  BY DEF SecureRuns
<1>4. Len(cpu) >= 2
  BY <1>0, <1>2, <1>3 DEF StackInv
<1>5. Live(Top.part)
  BY <1>2, <1>4 DEF FuncInv, LiveInv
<1>6. CASE Len(cpu) > c
  <2>1. IrqStep(D[Len(cpu) - 1], D[Len(cpu)], Top.part) /\ Same(db, D[Len(cpu)])
    BY <1>0, <1>1, <1>2, <1>6 DEF NestInv
  <2> QED
    BY <1>2, <1>5, <2>1 DEF IrqStep, Same
<1>7. CASE Len(cpu) = c
  <2>1. ThreadInv(c, D[c]) /\ Same(db, D[c])
    BY <1>1, <1>7 DEF NestInv
  <2>2. boot.pc # "open"
    BY <1>0, <1>4, <1>7 DEF StackInv
  <2> QED
    BY <1>2, <1>3, <1>5, <1>7, <2>1, <2>2 DEF ThreadInv, Same
<1> QED
  BY <1>0, <1>2, <1>6, <1>7

\* A line is enabled or disabled.
LEMMA SetIrqStep ==
  ASSUME FuncInv, NEW i \in Irqs, NEW on \in BOOLEAN, SetIrq(i, on)
  PROVE  FuncInv' /\ panicked' = panicked
<1>1. db.running = Top.part /\ Live(Top.part) /\ IrqPart[i] = Top.part
  BY RunningTop DEF SetIrq
<1>2. /\ enabled' = IF on THEN enabled \cup {i} ELSE enabled \ {i}
      /\ panicked' = panicked
      /\ UNCHANGED <<db, lock, initing, boot, cpu, pending, ns, cur, tz>>
  BY <1>1 DEF SetIrq, OwnLine
<1>3. TypeInv' /\ NsInv'
  BY <1>2 DEF FuncInv, TypeInv, NsInv, FreeSlots
<1>4. LiveInv'
  <2>1. \A j \in enabled' : j \in enabled \/ j = i
    BY <1>2
  <2>2. \A p : Live(p)' <=> Live(p)
    BY <1>2 DEF Live
  <2> QED
    BY <1>1, <1>2, <2>1, <2>2 DEF FuncInv, LiveInv
<1>5. Same(db', db) /\ db'.client = db.client
  BY <1>2 DEF Same
<1> QED
  BY <1>2, <1>3, <1>4, <1>5, SameStack

\* The end of an interrupt.
LEMMA PsaEoiStep ==
  ASSUME FuncInv, NEW i \in Irqs, PsaEoi(i)
  PROVE  FuncInv' /\ panicked' = panicked
<1> DEFINE mask == [db.mask EXCEPT ![db.running] = @ \ {i}]
<1>1. /\ db.running = Top.part /\ Live(Top.part) /\ IrqPart[i] = Top.part
      /\ db \in Database
  BY RunningTop DEF PsaEoi, FuncInv, TypeInv
<1>2. /\ enabled' = enabled \cup {i} /\ pending' = pending \ {i}
      /\ db' = [db EXCEPT !.mask = mask]
      /\ panicked' = panicked
      /\ UNCHANGED <<lock, initing, boot, cpu, ns, cur, tz>>
  BY <1>1 DEF PsaEoi, OwnLine
<1>3. mask \in [Parts -> SUBSET Irqs]
  BY <1>1 DEF Database
<1> HIDE DEF mask
<1>4. /\ db' \in Database /\ db'.state = db.state /\ db'.caller = db.caller
      /\ db'.client = db.client /\ db'.ctx = db.ctx /\ db'.running = db.running
  BY <1>1, <1>2, <1>3 DEF Database
<1>5. TypeInv' /\ NsInv'
  BY <1>2, <1>4 DEF FuncInv, TypeInv, NsInv, FreeSlots
<1>6. LiveInv'
  <2>1. \A p : Live(p)' <=> Live(p)
    BY <1>2 DEF Live
  <2> QED
    BY <1>1, <1>2, <2>1 DEF FuncInv, LiveInv
<1>7. Same(db', db)
  BY <1>4 DEF Same
<1> QED
  BY <1>2, <1>4, <1>5, <1>6, <1>7, SameStack

\* Steps of devices and of the non-secure lock.
LEMMA QuietStep ==
  ASSUME FuncInv, NEW S \in SUBSET Irqs, pending' = S,
         UNCHANGED <<db, lock, initing, boot, cpu, enabled, ns, cur, tz, panicked>>
  PROVE  FuncInv'
<1>1. TypeInv' /\ NsInv' /\ ns \in Client
  BY DEF FuncInv, TypeInv, NsInv, FreeSlots
<1> QED
  BY <1>1, NsStep
-----------------------------------------------------------------------------
\* A call that is accepted, from whichever side.
LEMMA CallStep ==
  ASSUME FuncInv, NEW c \in Nat, c = Len(cpu), StackInv(c), ThreadInv(c, db),
         NEW p \in Secure, \A k \in 1..c : cpu[k].part # p,
         cpu[c].pc = "run", db.running = cpu[c].part,
         NEW cl \in Int, ClientOf(db.running) = cl,
         db' = Started(p, db.running), lock' = lock + 1,
         cpu' = Append(cpu, Activation("call", p, NoIrq, cl)), panicked' \in BOOLEAN,
         \/ boot.pc = "ns" /\ boot' = boot
         \/ boot.pc = "init" /\ boot.idx = p /\ boot' = [boot EXCEPT !.pc = "result"],
         UNCHANGED <<initing, enabled, pending, ns, cur, tz>>
  PROVE  FuncInv'
<1> DEFINE r == db.running
           n == c + 1
<1>1. PICK d : d = db'
  OBVIOUS
<1>2. /\ TypeInv /\ BootInv /\ LiveInv /\ NsInv /\ db \in Database /\ r \in Parts
      /\ p \in Parts /\ c >= 1
  <2>1. TypeInv /\ BootInv /\ LiveInv /\ NsInv /\ db \in Database
    BY DEF FuncInv, TypeInv
  <2>2. r \in Parts
    BY <2>1 DEF Database
  <2>3. c >= 1
    BY DEF StackInv
  <2> QED
    BY <2>1, <2>2, <2>3, PartFacts
<1>3. /\ d \in Database
      /\ d.state = [db.state EXCEPT ![r] = "BLOCKED", ![p] = "RUNNING"]
      /\ d.running = p /\ d.ctx = db.ctx
      /\ d.caller = [db.caller EXCEPT ![p] = r]
      /\ d.client = [db.client EXCEPT ![p] = cl]
  BY <1>1, <1>2, StartedFields
<1> DEFINE a == Activation("call", p, NoIrq, cl)
<1>4. a \in Active /\ a.kind = "call" /\ a.part = p /\ a.pc = "run" /\ a.client = cl
  BY <1>2, NewActivation
<1> HIDE DEF a
<1>5. /\ Len(cpu') = n /\ cpu' \in Seq(Active) /\ cpu' # <<>>
      /\ cpu'[n] = a /\ \A k \in 1..c : cpu'[k] = cpu[k] /\ cpu[k].part \in Parts
  BY <1>2, <1>4, AppendCpu, CpuType DEF a
<1>6. boot \in [idx: 0..(LastPart + 1), pc: {"init", "result", "close", "open", "ns"}]
  BY <1>2 DEF BootInv
<1>7. /\ boot'.idx = boot.idx /\ boot'.pc \in {"ns", "result"}
      /\ boot'.pc = "ns" <=> boot.pc = "ns"
      /\ boot'.pc = "result" => boot.pc = "init" /\ boot.idx = p
      /\ boot' \in [idx: 0..(LastPart + 1), pc: {"init", "result", "close", "open", "ns"}]
  BY <1>6
<1>8. \A q : Live(q)' <=> Live(q) \/ (q = p /\ boot.pc = "init")
  BY <1>7 DEF Live
<1>9. Live(p)'
  <2>1. CASE boot.pc = "init"
    BY <1>8, <2>1
  <2>2. CASE boot.pc = "ns"
    BY <1>2, <1>7, <2>2, FuncAssumption DEF Live, BootInv, Secure
  <2> QED
    BY <2>1, <2>2
<1>10. TypeInv' /\ NsInv' /\ BootInv' /\ LiveInv'
  <2>1. TypeInv'
    BY <1>1, <1>2, <1>3, <1>5, FuncAssumption DEF TypeInv, StackInv
  <2>2. NsInv'
    BY <1>2 DEF NsInv, FreeSlots
  <2>3. BootInv'
    BY <1>2, <1>7, FuncAssumption DEF BootInv, Secure
  <2>4. \A k \in 2..n : Live(cpu[k].part)'
    <3>1. \A k \in 2..c : Live(cpu[k].part)
      BY <1>2 DEF LiveInv
    <3>2. \A k \in 2..n : k \in 2..c \/ k = n
      BY <1>2
    <3> QED
      BY <1>4, <1>5, <1>8, <1>9, <3>1, <3>2
  <2>5. \A i \in enabled' : Live(IrqPart[i])'
    BY <1>2, <1>8 DEF LiveInv
  <2> QED
    BY <1>5, <2>1, <2>2, <2>3, <2>4, <2>5 DEF LiveInv
<1>11. n \in Nat /\ n >= 2 /\ n - 1 = c /\ \A k \in 1..n : k \in 1..c \/ k = n
  BY <1>2
<1> HIDE DEF n
<1>12. StackInv(n)'
  <2>1. \A k \in 1..n : cpu'[k].kind # "irq" /\ cpu'[k].pc = "run"
    <3>1. \A k \in 1..c : cpu[k].kind # "irq" /\ cpu[k].pc = "run"
      BY <1>2 DEF StackInv
    <3> QED
      BY <1>4, <1>5, <1>11, <3>1
  <2>2. IF boot'.pc = "ns" THEN cpu'[1].kind = "ns" /\ cpu'[1].part = NS
                           ELSE cpu'[1].kind = "core" /\ cpu'[1].part = CORE
    BY <1>2, <1>5, <1>7 DEF StackInv
  <2>3. \A k \in 2..n : cpu'[k].kind = "call" /\ cpu'[k].part \in Secure
    BY <1>4, <1>5, <1>11 DEF StackInv
  <2>4. \A j, k \in 1..n : j # k => cpu'[j].part # cpu'[k].part
    BY <1>4, <1>5, <1>11 DEF StackInv
  <2>5. boot'.pc = "result" => n <= 2
    BY <1>7, <1>11 DEF StackInv
  <2>6. \A k \in 2..n : db'.client[cpu'[k].part] = cpu'[k].client
    <3>1. \A q \in Parts : d.client[q] = IF q = p THEN cl ELSE db.client[q]
      BY <1>2, <1>3 DEF Database
    <3>2. \A k \in 2..c : db.client[cpu[k].part] = cpu[k].client
      BY DEF StackInv
    <3> QED
      BY <1>1, <1>2, <1>4, <1>5, <1>11, <3>1, <3>2
  <2>7. lock' = n - 1
    BY <1>2, <1>11 DEF StackInv
  <2> QED
    BY <1>5, <1>7, <1>11, <2>1, <2>2, <2>3, <2>4, <2>5, <2>6, <2>7 DEF StackInv
<1>13. ThreadInv(n, d)'
  <2>0. /\ \A q \in Parts : d.state[q] =
             IF q = p THEN "RUNNING" ELSE IF q = r THEN "BLOCKED" ELSE db.state[q]
        /\ \A q \in Parts : d.caller[q] = IF q = p THEN r ELSE db.caller[q]
    BY <1>2, <1>3 DEF Database
  <2>1. \A q \in Parts : d.ctx[q] = <<>>
    BY <1>3 DEF ThreadInv
  <2>2. \A k \in 1..c : d.state[cpu'[k].part] = "BLOCKED"
    BY <1>2, <1>5, <2>0 DEF ThreadInv
  <2>3. d.state[cpu'[n].part] = "RUNNING" /\ d.running = cpu'[n].part /\ cpu'[n].pc = "run"
    BY <1>2, <1>3, <1>4, <1>5, <2>0
  <2>4. \A k \in 2..n : d.caller[cpu'[k].part] = cpu'[k - 1].part
    <3>1. \A k \in 2..c : db.caller[cpu[k].part] = cpu[k - 1].part /\ k - 1 \in 1..c
      BY <1>2 DEF ThreadInv
    <3>2. \A k \in 2..c : d.caller[cpu'[k].part] = cpu'[k - 1].part
      BY <1>5, <2>0, <3>1
    <3>3. d.caller[cpu'[n].part] = cpu'[n - 1].part
      BY <1>2, <1>4, <1>5, <1>11, <2>0
    <3> QED
      BY <1>11, <3>2, <3>3
  <2>5. ASSUME NEW q \in Parts, Live(q)', \A k \in 1..n : cpu'[k].part # q
        PROVE  d.state[q] = "IDLE"
    <3>1. q # p /\ \A k \in 1..c : cpu[k].part # q
      BY <1>4, <1>5, <1>11, <2>5
    <3>2. Live(q) /\ q # r
      BY <1>2, <1>8, <2>5, <3>1
    <3> QED
      BY <2>0, <3>1, <3>2 DEF ThreadInv
  <2> QED
    BY <1>11, <2>1, <2>2, <2>3, <2>4, <2>5 DEF ThreadInv
<1> QED
  BY <1>1, <1>3, <1>5, <1>10, <1>11, <1>12, <1>13, ThreadStep

\* Ids of partitions are numbers.
LEMMA PartIdInt == \A p \in Parts : PartId(p) \in Int
BY FuncAssumption DEF PartId, Parts, CORE

\* A call of the non-secure world is accepted.
LEMMA NsCallStep ==
  ASSUME FuncInv, NEW p \in Secure, NsCall(p)
  PROVE  FuncInv' /\ panicked' = panicked
<1>1. boot.pc = "ns" /\ Top.kind = "ns" /\ SfnRequest(p, TRUE, ThreadId(cur))
      /\ UNCHANGED <<initing, boot, enabled, pending, raises, ns, cur, tz>>
  BY DEF NsCall
<1>2. PICK c : c = Len(cpu)
  OBVIOUS
<1>3. /\ c \in Nat /\ c >= 1 /\ Top = cpu[c] /\ StackInv(c) /\ ThreadInv(c, db)
  BY <1>1, <1>2, ThreadFacts
<1>4. c = 1 /\ cpu[1].part = NS /\ cpu[1].pc = "run" /\ lock = 0
  BY <1>1, <1>3 DEF StackInv
<1>5. db.running = NS /\ db.state[NS] = "RUNNING"
  BY <1>1, <1>3, <1>4 DEF ThreadInv
<1>6. db.state[p] = "IDLE" /\ p # NS
  <2>1. p \in Parts /\ Live(p) /\ p # NS
    BY <1>1, PartFacts, FuncAssumption DEF Live, FuncInv, BootInv, Secure
  <2> QED
    BY <1>3, <1>4, <2>1 DEF ThreadInv
<1>7. ~initing
  BY <1>1 DEF FuncInv, BootInv
<1>8. CurrentClientId = ThreadId(cur) /\ CurrentClientId \in Int /\ CurrentClientId < 0
  <2>1. ns \in Client /\ NsInv /\ cur \in Threads /\ tz \in [Threads -> {0} \cup 2..MaxNs]
    BY DEF FuncInv, TypeInv
  <2>2. CurrentClientId = ThreadId(cur)
    BY <2>1 DEF CurrentClientId, ThreadId, NsInv
  <2>3. CurrentClientId \in Int
    BY <2>1 DEF CurrentClientId, Client
  <2>4. CurrentClientId < 0
    BY <2>1 DEF CurrentClientId, NsInv
  <2> QED
    BY <2>2, <2>3, <2>4
<1>9. ~AppRot(NS) /\ ClientOf(db.running) = ThreadId(cur)
  BY <1>5, <1>8 DEF AppRot, ClientOf
<1>10. RulesOk(TRUE) /\ StateOk(p, NS)
  BY <1>4, <1>5, <1>6, <1>7 DEF RulesOk, StateOk
<1>11. /\ db' = Started(p, db.running) /\ lock' = lock + 1 /\ panicked' = panicked
       /\ cpu' = Append(cpu, Activation("call", p, NoIrq, ThreadId(cur)))
  BY <1>1, <1>5, <1>8, <1>9, <1>10 DEF SfnRequest
<1>12. panicked \in BOOLEAN /\ ThreadId(cur) \in Int
  BY <1>8 DEF FuncInv, TypeInv
<1>13. \A k \in 1..c : cpu[k].part # p
  BY <1>4, <1>6
<1> QED
  BY <1>1, <1>2, <1>3, <1>4, <1>5, <1>9, <1>11, <1>12, <1>13, CallStep

\* What holds when a service calls another.
LEMMA PartitionCallFacts ==
  ASSUME FuncInv, NEW p \in Secure, PartitionCall(p)
  PROVE  /\ Len(cpu) \in Nat /\ Len(cpu) >= 2 /\ Top = cpu[Len(cpu)]
         /\ Top.part \in Secure /\ Top.pc = "run" /\ boot.pc = "ns" /\ p \in Callees[Top.part]
         /\ StackInv(Len(cpu)) /\ ThreadInv(Len(cpu), db)
         /\ db.running = Top.part /\ db.state[Top.part] = "RUNNING"
         /\ SfnRequest(p, FALSE, PartId(Top.part))
         /\ RulesOk(FALSE) /\ AppRot(db.running)
         /\ UNCHANGED <<initing, boot, enabled, pending, raises, ns, cur, tz>>
<1>1. /\ Top.kind = "call" /\ Top.pc = "run" /\ SfnRequest(p, FALSE, PartId(Top.part))
      /\ ~initing /\ p \in Callees[Top.part]
      /\ UNCHANGED <<initing, boot, enabled, pending, raises, ns, cur, tz>>
  BY DEF PartitionCall, SecureRuns
<1>2. PICK c : c = Len(cpu)
  OBVIOUS
<1>3. /\ c \in Nat /\ c >= 1 /\ Top = cpu[c] /\ StackInv(c) /\ ThreadInv(c, db)
  BY <1>1, <1>2, ThreadFacts
<1>4. c >= 2 /\ cpu[c].part \in Secure
  BY <1>1, <1>3 DEF StackInv
<1>5. boot.pc = "ns"
  BY <1>1, <1>3, <1>4 DEF StackInv, FuncInv, BootInv
<1>6. db.running = Top.part /\ db.state[Top.part] = "RUNNING"
  BY <1>1, <1>3, <1>5 DEF ThreadInv
<1>7. RulesOk(FALSE) /\ AppRot(db.running)
  BY <1>1, <1>3, <1>4, <1>6, PartFacts DEF RulesOk, AppRot
<1> QED
  BY <1>1, <1>2, <1>3, <1>4, <1>5, <1>6, <1>7

\* A call between partitions panics at most because of the callee's state.
LEMMA PartitionCallStep ==
  ASSUME FuncInv, NEW p \in Secure, PartitionCall(p)
  PROVE  /\ FuncInv'
         /\ db.state[p] = "IDLE" => panicked' = panicked
<1>1. PICK c : c = Len(cpu)
  OBVIOUS
<1>2. /\ c \in Nat /\ c >= 2 /\ Top = cpu[c] /\ StackInv(c) /\ ThreadInv(c, db)
      /\ Top.part \in Secure /\ Top.pc = "run" /\ boot.pc = "ns"
      /\ db.running = Top.part /\ db.state[Top.part] = "RUNNING"
      /\ SfnRequest(p, FALSE, PartId(Top.part)) /\ RulesOk(FALSE) /\ AppRot(db.running)
      /\ UNCHANGED <<initing, boot, enabled, pending, raises, ns, cur, tz>>
  BY <1>1, PartitionCallFacts
<1>3. CASE db.state[p] = "IDLE"
  <2>1. StateOk(p, db.running)
    BY <1>2, <1>3 DEF StateOk
  <2>2. /\ db' = Started(p, db.running) /\ lock' = lock + 1 /\ panicked' = panicked
        /\ cpu' = Append(cpu, Activation("call", p, NoIrq, PartId(Top.part)))
    BY <1>2, <2>1 DEF SfnRequest
  <2>3. panicked \in BOOLEAN /\ PartId(Top.part) \in Int /\ ClientOf(db.running) = PartId(Top.part)
    BY <1>2, PartIdInt, PartFacts DEF FuncInv, TypeInv, ClientOf
  <2>4. \A k \in 1..c : cpu[k].part # p
    <3>1. \A k \in 1..c : db.state[cpu[k].part] \in {"BLOCKED", "RUNNING"}
      BY <1>2 DEF ThreadInv
    <3> QED
      BY <1>3, <3>1
  <2>5. FuncInv'
    BY <1>1, <1>2, <2>2, <2>3, <2>4, CallStep
  <2> QED
    BY <2>2, <2>5
<1>4. CASE db.state[p] # "IDLE"
  <2>1. ~StateOk(p, db.running) /\ ~initing
    BY <1>2, <1>4 DEF StateOk, FuncInv, BootInv
  <2>2. panicked' = TRUE /\ UNCHANGED <<db, lock, cpu>>
    BY <1>2, <2>1 DEF SfnRequest
  <2>3. TypeInv' /\ NsInv' /\ ns \in Client
    BY <1>2, <2>2 DEF FuncInv, TypeInv, NsInv, FreeSlots
  <2> QED
    BY <1>2, <1>4, <2>2, <2>3, NsStep
<1> QED
  BY <1>3, <1>4

\* A return to the non-secure world or to the core.
LEMMA SvcReturnStep ==
  ASSUME FuncInv, SvcReturn
  PROVE  FuncInv' /\ panicked' = panicked
<1>1. PICK c : c = Len(cpu)
  OBVIOUS
<1>2. /\ Top.kind = "call" /\ Top.pc = "run" /\ Below.kind \in {"ns", "core"}
      /\ UNCHANGED <<initing, boot, enabled, pending, raises, ns, cur, tz>>
  BY DEF SvcReturn, SecureRuns
<1>3. /\ c \in Nat /\ c >= 1 /\ Top = cpu[c] /\ StackInv(c) /\ ThreadInv(c, db)
  BY <1>1, <1>2, ThreadFacts
<1>4. c = 2 /\ Below = cpu[1]
  BY <1>1, <1>2, <1>3 DEF StackInv, Below
<1> DEFINE p == cpu[2].part
           r == cpu[1].part
<1>5. /\ p \in Secure /\ r \in {NS, CORE} /\ p \in Parts /\ r \in Parts /\ p # r
      /\ r \notin Secure
  BY <1>3, <1>4, PartFacts DEF StackInv
<1>6. boot.pc \in {"ns", "result"} /\ db.running = p /\ db.caller[p] = r
  BY <1>2, <1>3, <1>4 DEF StackInv, ThreadInv
<1>7. Returnable
  BY <1>5, <1>6, PartFacts DEF Returnable
<1>8. /\ db' = Returned(CleanedUp(db, p), p, r) /\ lock' = lock - 1 /\ cpu' = Front(cpu)
      /\ panicked' = panicked
  BY <1>6, <1>7 DEF SvcReturn
<1>9. PICK d : d = db'
  OBVIOUS
<1>10. TypeInv /\ BootInv /\ LiveInv /\ NsInv /\ db \in Database
  BY DEF FuncInv, TypeInv
<1>11. /\ d \in Database /\ d.ctx = db.ctx /\ d.client = db.client /\ d.running = r
       /\ d.state = [db.state EXCEPT ![p] = "IDLE", ![r] = "RUNNING"]
  <2> DEFINE e == CleanedUp(db, p)
  <2>1. e \in Database /\ e.state = db.state /\ e.client = db.client /\ e.ctx = db.ctx
    BY <1>5, <1>10, CleanedUpFields
  <2>2. d = Returned(e, p, r)
    BY <1>8, <1>9
  <2> HIDE DEF e, p, r
  <2>3. /\ d \in Database /\ d.ctx = e.ctx /\ d.client = e.client /\ d.running = r
        /\ d.state = [e.state EXCEPT ![p] = "IDLE", ![r] = "RUNNING"]
    BY <1>5, <2>1, <2>2, ReturnedFields
  <2> QED
    BY <2>1, <2>3
<1>12. /\ Len(cpu') = 1 /\ cpu' \in Seq(Active) /\ cpu' # <<>> /\ cpu'[1] = cpu[1]
  <2>1. Len(cpu) = 2 /\ Len(cpu) >= 2
    BY <1>1, <1>4
  <2> QED
    BY <1>8, <1>10, <2>1, FrontCpu
<1> HIDE DEF p, r
<1>13. TypeInv' /\ NsInv' /\ BootInv' /\ LiveInv'
  <2>1. lock' \in Int
    BY <1>8, <1>10 DEF TypeInv
  <2>2. TypeInv'
    BY <1>2, <1>8, <1>9, <1>10, <1>11, <1>12, <2>1 DEF TypeInv
  <2>3. NsInv' /\ BootInv'
    BY <1>2, <1>10 DEF NsInv, FreeSlots, BootInv
  <2>4. LiveInv'
    BY <1>2, <1>10, <1>12 DEF LiveInv, Live
  <2> QED
    BY <2>2, <2>3, <2>4
<1>14. StackInv(1)'
  BY <1>2, <1>3, <1>4, <1>6, <1>8, <1>12 DEF StackInv
<1>15. ThreadInv(1, d)'
  <2>1. \A q \in Parts : d.state[q] =
          IF q = r THEN "RUNNING" ELSE IF q = p THEN "IDLE" ELSE db.state[q]
    BY <1>5, <1>10, <1>11 DEF Database
  <2>2. cpu'[1].part = r /\ cpu'[1].pc = "run"
    BY <1>3, <1>4, <1>12 DEF StackInv, r
  <2>3. ASSUME NEW q \in Parts, Live(q)', q # r
        PROVE  d.state[q] = "IDLE"
    <3>1. Live(q)
      BY <1>2, <2>3 DEF Live
    <3>2. CASE q # p
      <4>1. \A k \in 1..c : cpu[k].part # q
        BY <1>4, <2>3, <3>2 DEF p, r
      <4> QED
        BY <1>3, <2>1, <2>3, <3>1, <3>2, <4>1 DEF ThreadInv
    <3> QED
      BY <2>1, <2>3, <3>2
  <2>4. \A q \in Parts : d.ctx[q] = <<>>
    BY <1>3, <1>11 DEF ThreadInv
  <2>5. d.running = r /\ d.state[r] = "RUNNING" /\ boot'.pc \notin {"open", "init"}
    BY <1>2, <1>5, <1>6, <1>11, <2>1
  <2> QED
    BY <2>2, <2>3, <2>4, <2>5 DEF ThreadInv
<1>16. 1 \in Nat /\ 1 = Len(cpu')
  BY <1>12
<1> QED
  BY <1>8, <1>9, <1>11, <1>13, <1>14, <1>15, <1>16, ThreadStep
-----------------------------------------------------------------------------
\* A return gets one store further.
LEMMA AtFields ==
  ASSUME TypeInv, NEW pc \in ReturnPc, At(pc)
  PROVE  /\ Len(cpu') = Len(cpu) /\ cpu' \in Seq(Active) /\ cpu' # <<>>
         /\ \A k \in 1..Len(cpu) : k # Len(cpu) => cpu'[k] = cpu[k]
         /\ LET n == Len(cpu)
            IN  /\ cpu'[n].pc = pc /\ cpu'[n].part = cpu[n].part
                /\ cpu'[n].kind = cpu[n].kind /\ cpu'[n].client = cpu[n].client
                /\ cpu'[n].cur = cpu[n].cur /\ cpu'[n].ret = cpu[n].ret
<1> DEFINE n == Len(cpu)
           x == [cpu[n] EXCEPT !.pc = pc]
<1>1. n \in Nat /\ n \in 1..n /\ cpu[n] \in Active
  BY DEF TypeInv
<1>2. /\ x \in Active /\ x.pc = pc /\ x.part = cpu[n].part /\ x.kind = cpu[n].kind
      /\ x.client = cpu[n].client /\ x.cur = cpu[n].cur /\ x.ret = cpu[n].ret
  BY <1>1 DEF Active
<1>3. cpu' = [cpu EXCEPT ![n] = x]
  BY DEF At
<1> HIDE DEF x
<1>4. /\ Len(cpu') = n /\ cpu' \in Seq(Active) /\ cpu' # <<>> /\ cpu'[n] = x
      /\ \A k \in 1..n : k # n => cpu'[k] = cpu[k]
  BY <1>1, <1>2, <1>3 DEF TypeInv
<1> QED
  BY <1>2, <1>4

\* What holds when a call between partitions returns.
LEMMA InReturnFacts ==
  ASSUME FuncInv, NEW pc, InReturn(pc), pc \in ReturnPc \/ Below.kind = "call"
  PROVE  /\ Len(cpu) \in Nat /\ Len(cpu) >= 3 /\ Top = cpu[Len(cpu)] /\ Top.pc = pc
         /\ StackInv(Len(cpu)) /\ ThreadInv(Len(cpu), db) /\ boot.pc = "ns"
         /\ TypeInv /\ NsInv /\ BootInv /\ LiveInv /\ db \in Database
         /\ Top.part \in Secure /\ cpu[Len(cpu) - 1].part \in Secure
         /\ Top.part # cpu[Len(cpu) - 1].part
         /\ UNCHANGED <<initing, boot, enabled, pending, raises, ns, cur, tz>>
<1>1. Top.kind = "call" /\ Top.pc = pc
      /\ UNCHANGED <<initing, boot, enabled, pending, raises, ns, cur, tz>>
  BY DEF InReturn
<1>2. PICK c : c = Len(cpu)
  OBVIOUS
<1>3. /\ c \in Nat /\ c >= 1 /\ Top = cpu[c] /\ StackInv(c) /\ ThreadInv(c, db)
  BY <1>1, <1>2, ThreadFacts
<1>4. c >= 3
  <2>1. CASE pc \in ReturnPc
    BY <1>1, <1>3, <2>1 DEF StackInv, ReturnPc
  <2>2. CASE Below.kind = "call"
    <3>1. c >= 2
      BY <1>1, <1>3 DEF StackInv
    <3>2. cpu[c - 1].kind = "call" /\ cpu[1].kind # "call"
      BY <1>2, <1>3, <2>2 DEF Below, StackInv
    <3>3. c # 2
      BY <3>2
    <3> QED
      BY <1>3, <3>1, <3>3
  <2> QED
    BY <2>1, <2>2
<1>5. boot.pc = "ns"
  BY <1>3, <1>4 DEF StackInv, FuncInv, BootInv
<1>6. cpu[c].part \in Secure /\ cpu[c - 1].part \in Secure /\ cpu[c].part # cpu[c - 1].part
  BY <1>3, <1>4 DEF StackInv
<1>7. TypeInv /\ NsInv /\ BootInv /\ LiveInv /\ db \in Database
  BY DEF FuncInv, TypeInv
<1> QED
  BY <1>1, <1>2, <1>3, <1>4, <1>5, <1>6, <1>7

\* The stack while a return is half done.
LEMMA HalfReturned ==
  ASSUME NEW c \in Nat, c >= 3, c = Len(cpu), StackInv(c), boot.pc = "ns",
         TypeInv, NsInv, BootInv, LiveInv,
         UNCHANGED <<initing, boot, enabled, pending, ns, cur, tz>>, panicked' = panicked,
         db' \in Database, db'.client = db.client,
         Len(cpu') = c, cpu' \in Seq(Active), cpu' # <<>>,
         \A k \in 1..c : k # c => cpu'[k] = cpu[k],
         cpu'[c].pc \in ReturnPc, cpu'[c].part = cpu[c].part, cpu'[c].kind = cpu[c].kind,
         cpu'[c].client = cpu[c].client, cpu'[c].cur = cpu[c].part,
         cpu'[c].ret = cpu[c - 1].part, lock' = c - 2
  PROVE  /\ TypeInv' /\ NsInv' /\ BootInv' /\ LiveInv' /\ StackInv(c)'
         /\ \A k \in 1..c : cpu'[k].part = cpu[k].part
         /\ \A q : Live(q)' <=> Live(q)
<1>1. TypeInv'
  BY DEF TypeInv
<1>2. NsInv' /\ BootInv'
  BY DEF NsInv, FreeSlots, BootInv
<1>3. \A q : Live(q)' <=> Live(q)
  BY DEF Live
<1>4. \A k \in 1..c : cpu'[k].part = cpu[k].part /\ cpu'[k].kind = cpu[k].kind
                      /\ cpu'[k].client = cpu[k].client
  OBVIOUS
<1>5. LiveInv'
  <2>1. \A k \in 2..c : Live(cpu[k].part) /\ k \in 1..c
    BY DEF LiveInv
  <2>2. \A k \in 2..c : Live(cpu[k].part)'
    BY <1>3, <1>4, <2>1
  <2> QED
    BY <1>3, <2>2 DEF LiveInv
<1>6. StackInv(c)'
  <2>1. \A k \in 1..c : (cpu'[k].kind = "irq" <=> k > c) /\ (k # c => cpu'[k].pc = "run")
    BY <1>4 DEF StackInv
  <2>2. cpu'[1].kind = "ns" /\ cpu'[1].part = NS
    BY <1>4 DEF StackInv
  <2>3. \A k \in 2..c : cpu'[k].kind = "call" /\ cpu'[k].part \in Secure
    BY <1>4 DEF StackInv
  <2>4. \A j, k \in 1..c : j # k => cpu'[j].part # cpu'[k].part
    BY <1>4 DEF StackInv
  <2>5. \A k \in 2..c : db'.client[cpu'[k].part] = cpu'[k].client
    BY <1>4 DEF StackInv
  <2>6. cpu'[c].pc # "run" /\ cpu'[c - 1] = cpu[c - 1]
    BY DEF ReturnPc
  <2> QED
    BY <2>1, <2>2, <2>3, <2>4, <2>5, <2>6 DEF StackInv
<1> QED
  BY <1>1, <1>2, <1>3, <1>4, <1>5, <1>6

\* The return gives the lock back and reads whom to return to.
LEMMA ReturnBeginStep ==
  ASSUME FuncInv, ReturnBegin
  PROVE  FuncInv' /\ panicked' = panicked
<1>1. PICK c : c = Len(cpu)
  OBVIOUS
<1>2. InReturn("run") /\ Below.kind = "call"
  BY DEF ReturnBegin
<1>3. /\ c \in Nat /\ c >= 3 /\ Top = cpu[c] /\ Top.pc = "run"
      /\ StackInv(c) /\ ThreadInv(c, db) /\ boot.pc = "ns"
      /\ TypeInv /\ NsInv /\ BootInv /\ LiveInv /\ db \in Database
      /\ Top.part \in Secure /\ cpu[c - 1].part \in Secure
      /\ UNCHANGED <<initing, boot, enabled, pending, raises, ns, cur, tz>>
  BY <1>1, <1>2, InReturnFacts
<1> DEFINE p == cpu[c].part
           r == cpu[c - 1].part
<1>4. p \in Parts /\ r \in Parts /\ db.running = p /\ db.caller[p] = r
  BY <1>3, PartFacts DEF ThreadInv
<1>5. Returnable
  BY <1>4, PartFacts DEF Returnable
<1> DEFINE x == [cpu[c] EXCEPT !.pc = "clean", !.cur = p, !.ret = r]
<1>6. /\ cpu' = [cpu EXCEPT ![c] = x] /\ lock' = lock - 1 /\ db' = db /\ panicked' = panicked
  BY <1>1, <1>4, <1>5 DEF ReturnBegin
<1>7. cpu[c] \in Active /\ c \in 1..c
  BY <1>1, <1>3, CpuType
<1>8. /\ x \in Active /\ x.pc = "clean" /\ x.part = cpu[c].part /\ x.kind = cpu[c].kind
      /\ x.client = cpu[c].client /\ x.cur = p /\ x.ret = r
  BY <1>4, <1>7 DEF Active, ReturnPc
<1> HIDE DEF x
<1>9. /\ Len(cpu') = c /\ cpu' \in Seq(Active) /\ cpu' # <<>> /\ cpu'[c] = x
      /\ \A k \in 1..c : k # c => cpu'[k] = cpu[k]
  BY <1>1, <1>3, <1>6, <1>7, <1>8 DEF TypeInv
<1>10. "clean" \in ReturnPc /\ lock' = c - 2
  BY <1>3, <1>6 DEF ReturnPc, StackInv
<1>11. /\ TypeInv' /\ NsInv' /\ BootInv' /\ LiveInv' /\ StackInv(c)'
       /\ \A k \in 1..c : cpu'[k].part = cpu[k].part
       /\ \A q : Live(q)' <=> Live(q)
  BY <1>1, <1>3, <1>6, <1>8, <1>9, <1>10, HalfReturned
<1>12. PICK d : d = db'
  OBVIOUS
<1>13. d = db /\ d \in Database /\ cpu'[c].pc = "clean" /\ boot' = boot
  BY <1>3, <1>6, <1>8, <1>9, <1>12
<1> HIDE DEF p, r
<1>14. ThreadInv(c, d)'
  <2>1. \A k \in 1..(c - 1) : d.state[cpu'[k].part] = "BLOCKED"
    BY <1>3, <1>11, <1>13 DEF ThreadInv
  <2>2. d.state[cpu'[c].part] = "RUNNING" /\ d.running = cpu'[c].part
    BY <1>3, <1>11, <1>13 DEF ThreadInv
  <2>3. \A k \in 2..c : d.caller[cpu'[k].part] = cpu'[k - 1].part
    BY <1>3, <1>11, <1>13 DEF ThreadInv
  <2>4. \A q \in Parts : Live(q)' /\ (\A k \in 1..c : cpu'[k].part # q) => d.state[q] = "IDLE"
    BY <1>3, <1>11, <1>13 DEF ThreadInv
  <2>5. \A q \in Parts : d.ctx[q] = <<>>
    BY <1>3, <1>13 DEF ThreadInv
  <2> QED
    BY <1>13, <2>1, <2>2, <2>3, <2>4, <2>5 DEF ThreadInv
<1> QED
  BY <1>3, <1>6, <1>9, <1>11, <1>12, <1>13, <1>14, ThreadStep

\* The callee forgets its caller.
LEMMA ReturnCleanStep ==
  ASSUME FuncInv, ReturnClean
  PROVE  FuncInv' /\ panicked' = panicked
<1>1. PICK c : c = Len(cpu)
  OBVIOUS
<1>2. InReturn("clean") /\ At("idle") /\ UNCHANGED <<lock, panicked>>
      /\ "clean" \in ReturnPc /\ "idle" \in ReturnPc
  BY DEF ReturnClean, ReturnPc
<1>3. /\ c \in Nat /\ c >= 3 /\ Top = cpu[c] /\ Top.pc = "clean"
      /\ StackInv(c) /\ ThreadInv(c, db) /\ boot.pc = "ns"
      /\ TypeInv /\ NsInv /\ BootInv /\ LiveInv /\ db \in Database
      /\ Top.part \in Secure /\ cpu[c - 1].part \in Secure /\ Top.part # cpu[c - 1].part
      /\ UNCHANGED <<initing, boot, enabled, pending, raises, ns, cur, tz>>
  BY <1>1, <1>2, InReturnFacts
<1> DEFINE p == cpu[c].part
<1>4. p \in Parts /\ Top.cur = p /\ Top.ret = cpu[c - 1].part /\ lock = c - 2
  BY <1>3, PartFacts DEF StackInv
<1>5. PICK d : d = db'
  OBVIOUS
<1>6. d = CleanedUp(db, p)
  BY <1>4, <1>5 DEF ReturnClean
<1>7. /\ d \in Database /\ d.state = db.state /\ d.running = db.running /\ d.ctx = db.ctx
      /\ d.client = db.client /\ d.caller = [db.caller EXCEPT ![p] = INVALID]
  BY <1>3, <1>4, <1>6, CleanedUpFields
<1>8. /\ Len(cpu') = c /\ cpu' \in Seq(Active) /\ cpu' # <<>>
      /\ \A k \in 1..c : k # c => cpu'[k] = cpu[k]
      /\ cpu'[c].pc = "idle" /\ cpu'[c].part = cpu[c].part
      /\ cpu'[c].kind = cpu[c].kind /\ cpu'[c].client = cpu[c].client
      /\ cpu'[c].cur = cpu[c].cur /\ cpu'[c].ret = cpu[c].ret
  BY <1>1, <1>2, <1>3, AtFields
<1>9. /\ TypeInv' /\ NsInv' /\ BootInv' /\ LiveInv' /\ StackInv(c)'
      /\ \A k \in 1..c : cpu'[k].part = cpu[k].part
      /\ \A q : Live(q)' <=> Live(q)
  BY <1>1, <1>2, <1>3, <1>4, <1>5, <1>7, <1>8, HalfReturned
<1>10. ThreadInv(c, d)'
  <2>0. /\ \A k \in 1..(c - 1) : cpu[k].part # p
        /\ \A k \in 1..c : cpu[k].part \in Parts
    BY <1>1, <1>3, CpuType DEF StackInv
  <2> HIDE DEF p
  <2>1. \A k \in 1..(c - 1) : d.state[cpu'[k].part] = "BLOCKED"
    <3>1. \A k \in 1..(c - 1) : db.state[cpu[k].part] = "BLOCKED" /\ k \in 1..c
      BY <1>3 DEF ThreadInv
    <3> QED
      BY <1>7, <1>9, <3>1
  <2>2. d.state[cpu'[c].part] = "RUNNING" /\ d.running = cpu'[c].part
    BY <1>3, <1>7, <1>9 DEF ThreadInv
  <2>3. \A k \in 2..c : k < c => d.caller[cpu'[k].part] = cpu'[k - 1].part
    <3>1. \A q \in Parts : q # p => d.caller[q] = db.caller[q]
      BY <1>3, <1>7 DEF Database
    <3>2. \A k \in 2..c : k < c => db.caller[cpu[k].part] = cpu[k - 1].part
                                   /\ k \in 1..(c - 1) /\ k - 1 \in 1..c
      BY <1>3 DEF ThreadInv
    <3> QED
      BY <1>9, <2>0, <3>1, <3>2
  <2>4. \A q \in Parts : Live(q)' /\ (\A k \in 1..c : cpu'[k].part # q) => d.state[q] = "IDLE"
    BY <1>3, <1>7, <1>9 DEF ThreadInv
  <2>5. \A q \in Parts : d.ctx[q] = <<>>
    BY <1>3, <1>7 DEF ThreadInv
  <2> QED
    BY <1>3, <1>8, <2>1, <2>2, <2>3, <2>4, <2>5 DEF ThreadInv
<1> QED
  BY <1>2, <1>3, <1>5, <1>7, <1>8, <1>9, <1>10, ThreadStep

\* The callee is idle.
LEMMA ReturnIdleStep ==
  ASSUME FuncInv, ReturnIdle
  PROVE  FuncInv' /\ panicked' = panicked
<1>1. PICK c : c = Len(cpu)
  OBVIOUS
<1>2. InReturn("idle") /\ At("state") /\ UNCHANGED <<lock, panicked>>
      /\ "idle" \in ReturnPc /\ "state" \in ReturnPc
  BY DEF ReturnIdle, ReturnPc
<1>3. /\ c \in Nat /\ c >= 3 /\ Top = cpu[c] /\ Top.pc = "idle"
      /\ StackInv(c) /\ ThreadInv(c, db) /\ boot.pc = "ns"
      /\ TypeInv /\ NsInv /\ BootInv /\ LiveInv /\ db \in Database
      /\ Top.part \in Secure /\ cpu[c - 1].part \in Secure /\ Top.part # cpu[c - 1].part
      /\ UNCHANGED <<initing, boot, enabled, pending, raises, ns, cur, tz>>
  BY <1>1, <1>2, InReturnFacts
<1> DEFINE p == cpu[c].part
<1>4. p \in Parts /\ Top.cur = p /\ Top.ret = cpu[c - 1].part /\ lock = c - 2
      /\ "IDLE" \in States
  BY <1>3, PartFacts DEF StackInv, States
<1>5. PICK d : d = db'
  OBVIOUS
<1>6. d = SetState(db, p, "IDLE")
  BY <1>4, <1>5 DEF ReturnIdle
<1>7. /\ d \in Database /\ d.caller = db.caller /\ d.ctx = db.ctx
      /\ d.client = db.client /\ d.state = [db.state EXCEPT ![p] = "IDLE"]
  BY <1>3, <1>4, <1>6, SetStateFields
<1>8. /\ Len(cpu') = c /\ cpu' \in Seq(Active) /\ cpu' # <<>>
      /\ \A k \in 1..c : k # c => cpu'[k] = cpu[k]
      /\ cpu'[c].pc = "state" /\ cpu'[c].part = cpu[c].part
      /\ cpu'[c].kind = cpu[c].kind /\ cpu'[c].client = cpu[c].client
      /\ cpu'[c].cur = cpu[c].cur /\ cpu'[c].ret = cpu[c].ret
  BY <1>1, <1>2, <1>3, AtFields
<1>9. /\ TypeInv' /\ NsInv' /\ BootInv' /\ LiveInv' /\ StackInv(c)'
      /\ \A k \in 1..c : cpu'[k].part = cpu[k].part
      /\ \A q : Live(q)' <=> Live(q)
  BY <1>1, <1>2, <1>3, <1>4, <1>5, <1>7, <1>8, HalfReturned
<1>10. ThreadInv(c, d)'
  <2>0. /\ \A k \in 1..(c - 1) : cpu[k].part # p
        /\ \A k \in 1..c : cpu[k].part \in Parts
        /\ \A q \in Parts : d.state[q] = IF q = p THEN "IDLE" ELSE db.state[q]
    <3>1. \A k \in 1..(c - 1) : cpu[k].part # p
      BY <1>3 DEF StackInv
    <3>2. \A q \in Parts : d.state[q] = IF q = p THEN "IDLE" ELSE db.state[q]
      BY <1>3, <1>4, <1>7 DEF Database
    <3> QED
      BY <1>1, <1>3, <3>1, <3>2, CpuType
  <2>1. \A k \in 1..(c - 1) : d.state[cpu'[k].part] = "BLOCKED"
    BY <1>3, <1>9, <2>0 DEF ThreadInv
  <2>2. d.state[cpu'[c].part] = "IDLE"
    BY <1>3, <1>4, <1>8, <2>0
  <2>3. \A k \in 2..c : k < c => d.caller[cpu'[k].part] = cpu'[k - 1].part
    BY <1>3, <1>7, <1>9 DEF ThreadInv
  <2>4. \A q \in Parts : Live(q)' /\ (\A k \in 1..c : cpu'[k].part # q) => d.state[q] = "IDLE"
    BY <1>3, <1>9, <2>0 DEF ThreadInv
  <2>5. \A q \in Parts : d.ctx[q] = <<>>
    BY <1>3, <1>7 DEF ThreadInv
  <2> QED
    BY <1>3, <1>8, <2>1, <2>2, <2>3, <2>4, <2>5 DEF ThreadInv
<1> QED
  BY <1>2, <1>3, <1>5, <1>7, <1>8, <1>9, <1>10, ThreadStep

\* The caller's state is running ...
LEMMA ReturnStateStep ==
  ASSUME FuncInv, ReturnState
  PROVE  FuncInv' /\ panicked' = panicked
<1>1. PICK c : c = Len(cpu)
  OBVIOUS
<1>2. InReturn("state") /\ At("index") /\ UNCHANGED <<lock, panicked>>
      /\ "state" \in ReturnPc /\ "index" \in ReturnPc
  BY DEF ReturnState, ReturnPc
<1>3. /\ c \in Nat /\ c >= 3 /\ Top = cpu[c] /\ Top.pc = "state"
      /\ StackInv(c) /\ ThreadInv(c, db) /\ boot.pc = "ns"
      /\ TypeInv /\ NsInv /\ BootInv /\ LiveInv /\ db \in Database
      /\ Top.part \in Secure /\ cpu[c - 1].part \in Secure /\ Top.part # cpu[c - 1].part
      /\ UNCHANGED <<initing, boot, enabled, pending, raises, ns, cur, tz>>
  BY <1>1, <1>2, InReturnFacts
<1> DEFINE r == cpu[c - 1].part
           st == [db.state EXCEPT ![r] = "RUNNING"]
<1>4. r \in Parts /\ Top.cur = cpu[c].part /\ Top.ret = r /\ lock = c - 2
      /\ "RUNNING" \in States
  BY <1>3, PartFacts DEF StackInv, States
<1>5. PICK d : d = db'
  OBVIOUS
<1>6. d = [db EXCEPT !.state = st] /\ st \in [Parts -> States]
  BY <1>3, <1>4, <1>5 DEF ReturnState, Database
<1> HIDE DEF st
<1>7. /\ d \in Database /\ d.caller = db.caller /\ d.ctx = db.ctx
      /\ d.client = db.client /\ d.state = st
  BY <1>3, <1>6 DEF Database
<1>8. /\ Len(cpu') = c /\ cpu' \in Seq(Active) /\ cpu' # <<>>
      /\ \A k \in 1..c : k # c => cpu'[k] = cpu[k]
      /\ cpu'[c].pc = "index" /\ cpu'[c].part = cpu[c].part
      /\ cpu'[c].kind = cpu[c].kind /\ cpu'[c].client = cpu[c].client
      /\ cpu'[c].cur = cpu[c].cur /\ cpu'[c].ret = cpu[c].ret
  BY <1>1, <1>2, <1>3, AtFields
<1>9. /\ TypeInv' /\ NsInv' /\ BootInv' /\ LiveInv' /\ StackInv(c)'
      /\ \A k \in 1..c : cpu'[k].part = cpu[k].part
      /\ \A q : Live(q)' <=> Live(q)
  BY <1>1, <1>2, <1>3, <1>4, <1>5, <1>7, <1>8, HalfReturned
<1>10. ThreadInv(c, d)'
  <2>0. /\ \A k \in 1..c : k # c - 1 => cpu[k].part # r
        /\ \A k \in 1..c : cpu[k].part \in Parts
        /\ \A q \in Parts : d.state[q] = IF q = r THEN "RUNNING" ELSE db.state[q]
    <3>1. \A k \in 1..c : k # c - 1 => cpu[k].part # r
      BY <1>3 DEF StackInv
    <3>2. \A q \in Parts : d.state[q] = IF q = r THEN "RUNNING" ELSE db.state[q]
      BY <1>3, <1>4, <1>7 DEF Database, st
    <3> QED
      BY <1>1, <1>3, <3>1, <3>2, CpuType
  <2>1. \A k \in 1..(c - 1) :
          d.state[cpu'[k].part] = IF k = c - 1 THEN "RUNNING" ELSE "BLOCKED"
    <3>1. \A k \in 1..(c - 1) : db.state[cpu[k].part] = "BLOCKED" /\ k \in 1..c
      BY <1>3 DEF ThreadInv
    <3>2. \A k \in 1..(c - 1) :
            d.state[cpu[k].part] = IF k = c - 1 THEN "RUNNING" ELSE "BLOCKED"
      BY <2>0, <3>1
    <3> QED
      BY <1>9, <3>1, <3>2
  <2>2. d.state[cpu'[c].part] = "IDLE"
    <3>1. db.state[cpu[c].part] = "IDLE" /\ c \in 1..c /\ c # c - 1
      BY <1>3 DEF ThreadInv
    <3> QED
      BY <1>8, <2>0, <3>1
  <2>3. \A k \in 2..c : k < c => d.caller[cpu'[k].part] = cpu'[k - 1].part
    <3>1. \A k \in 2..c : k < c => db.caller[cpu[k].part] = cpu[k - 1].part
      BY <1>3 DEF ThreadInv
    <3>2. \A k \in 2..c : k \in 1..c /\ k - 1 \in 1..c
      BY <1>3
    <3> QED
      BY <1>7, <1>9, <3>1, <3>2
  <2>4. \A q \in Parts : Live(q)' /\ (\A k \in 1..c : cpu'[k].part # q) => d.state[q] = "IDLE"
    <3>1. \A q \in Parts : Live(q) /\ (\A k \in 1..c : cpu[k].part # q) => db.state[q] = "IDLE"
      BY <1>3 DEF ThreadInv
    <3>2. \A q \in Parts : (\A k \in 1..c : cpu[k].part # q) => q # r
      BY <1>3
    <3> HIDE DEF r
    <3> QED
      BY <1>9, <2>0, <3>1, <3>2
  <2>5. \A q \in Parts : d.ctx[q] = <<>>
    BY <1>3, <1>7 DEF ThreadInv
  <2> QED
    BY <1>3, <1>8, <2>1, <2>2, <2>3, <2>4, <2>5 DEF ThreadInv
<1> QED
  BY <1>2, <1>3, <1>5, <1>7, <1>8, <1>9, <1>10, ThreadStep

\* ... and then the running index is its.
LEMMA ReturnIndexStep ==
  ASSUME FuncInv, ReturnIndex
  PROVE  FuncInv' /\ panicked' = panicked
<1>1. PICK c : c = Len(cpu)
  OBVIOUS
<1>2. InReturn("index") /\ cpu' = Front(cpu) /\ UNCHANGED <<lock, panicked>>
      /\ "index" \in ReturnPc /\ db' = [db EXCEPT !.running = Top.ret]
  BY DEF ReturnIndex, ReturnPc
<1>3. /\ c \in Nat /\ c >= 3 /\ Top = cpu[c] /\ Top.pc = "index"
      /\ StackInv(c) /\ ThreadInv(c, db) /\ boot.pc = "ns"
      /\ TypeInv /\ NsInv /\ BootInv /\ LiveInv /\ db \in Database
      /\ Top.part \in Secure /\ cpu[c - 1].part \in Secure /\ Top.part # cpu[c - 1].part
      /\ UNCHANGED <<initing, boot, enabled, pending, raises, ns, cur, tz>>
  BY <1>1, <1>2, InReturnFacts
<1> DEFINE r == cpu[c - 1].part
<1>4. r \in Parts /\ Top.ret = r /\ lock = c - 2
  BY <1>3, PartFacts DEF StackInv
<1>5. PICK d : d = db'
  OBVIOUS
<1>6. PICK n : n = c - 1
  OBVIOUS
<1>7. n \in Nat /\ n >= 2 /\ c - 1 = n /\ c = n + 1 /\ n \in 1..c
  BY <1>3, <1>6
<1>8. /\ d \in Database /\ d.caller = db.caller /\ d.ctx = db.ctx
      /\ d.client = db.client /\ d.state = db.state /\ d.running = r
  <2>1. d = [db EXCEPT !.running = r]
    BY <1>2, <1>4, <1>5
  <2> HIDE DEF r
  <2> QED
    BY <1>3, <1>4, <2>1 DEF Database
<1>9. /\ Len(cpu') = n /\ cpu' \in Seq(Active) /\ cpu' # <<>>
      /\ \A k \in 1..n : cpu'[k] = cpu[k] /\ k \in 1..c
  BY <1>1, <1>2, <1>3, <1>7, FrontCpu
<1>10. \A k \in 1..n : cpu[k].pc = "run" /\ cpu[k].kind # "irq"
  BY <1>1, <1>3, <1>7 DEF StackInv
<1>11. \A q : Live(q)' <=> Live(q)
  BY <1>3 DEF Live
<1>12. TypeInv' /\ NsInv' /\ BootInv' /\ LiveInv'
  <2>1. TypeInv'
    BY <1>2, <1>3, <1>5, <1>8, <1>9 DEF TypeInv
  <2>2. NsInv' /\ BootInv'
    BY <1>3 DEF NsInv, FreeSlots, BootInv
  <2>3. \A k \in 2..n : Live(cpu[k].part) /\ k \in 1..n
    BY <1>1, <1>3, <1>7 DEF LiveInv
  <2>4. \A k \in 2..n : Live(cpu[k].part)'
    BY <1>9, <1>11, <2>3
  <2> QED
    BY <1>3, <1>9, <1>11, <2>1, <2>2, <2>4 DEF LiveInv
<1>13. StackInv(n)'
  <2>1. \A k \in 2..n : cpu'[k].kind = "call" /\ cpu'[k].part \in Secure
    <3>1. \A k \in 2..n : k \in 2..c /\ cpu'[k] = cpu[k]
      BY <1>7, <1>9
    <3> QED
      BY <1>3, <3>1 DEF StackInv
  <2>2. cpu'[1].kind = "ns" /\ cpu'[1].part = NS
    BY <1>3, <1>7, <1>9 DEF StackInv
  <2>3. \A j, k \in 1..n : j # k => cpu'[j].part # cpu'[k].part
    BY <1>3, <1>9 DEF StackInv
  <2>4. \A k \in 2..n : db'.client[cpu'[k].part] = cpu'[k].client
    BY <1>3, <1>5, <1>7, <1>8, <1>9 DEF StackInv
  <2>5. lock' = n - 1 /\ cpu'[n].pc = "run"
    BY <1>2, <1>4, <1>7, <1>9, <1>10
  <2> QED
    BY <1>3, <1>7, <1>9, <1>10, <2>1, <2>2, <2>3, <2>4, <2>5 DEF StackInv
<1>14. ThreadInv(n, d)'
  <2>1. \A k \in 1..(n - 1) : d.state[cpu'[k].part] = "BLOCKED"
    <3>1. \A k \in 1..(n - 1) : db.state[cpu[k].part] = "BLOCKED" /\ k \in 1..n
      BY <1>3, <1>7 DEF ThreadInv
    <3> QED
      BY <1>8, <1>9, <3>1
  <2>2. db.state[cpu[n].part] = "RUNNING"
    BY <1>3, <1>7 DEF ThreadInv
  <2>3. d.state[cpu'[n].part] = "RUNNING" /\ d.running = cpu'[n].part /\ cpu'[n].pc = "run"
    BY <1>6, <1>7, <1>8, <1>9, <1>10, <2>2
  <2>4. \A k \in 2..n : d.caller[cpu'[k].part] = cpu'[k - 1].part
    <3>1. \A k \in 2..n : db.caller[cpu[k].part] = cpu[k - 1].part
                          /\ k \in 1..n /\ k - 1 \in 1..n
      BY <1>3, <1>7 DEF ThreadInv
    <3> QED
      BY <1>8, <1>9, <3>1
  <2>5. ASSUME NEW q \in Parts, Live(q)', \A k \in 1..n : cpu'[k].part # q
        PROVE  d.state[q] = "IDLE"
    <3>1. CASE q = cpu[c].part
      BY <1>3, <1>8, <3>1 DEF ThreadInv
    <3>2. CASE q # cpu[c].part
      <4>1. \A k \in 1..c : cpu[k].part # q
        BY <1>7, <1>9, <2>5, <3>2
      <4> QED
        BY <1>3, <1>8, <1>11, <2>5, <4>1 DEF ThreadInv
    <3> QED
      BY <3>1, <3>2
  <2>6. \A q \in Parts : d.ctx[q] = <<>>
    BY <1>3, <1>8 DEF ThreadInv
  <2> QED
    BY <1>7, <2>1, <2>3, <2>4, <2>5, <2>6 DEF ThreadInv
<1> QED
  BY <1>2, <1>5, <1>7, <1>8, <1>9, <1>12, <1>13, <1>14, ThreadStep

-----------------------------------------------------------------------------
\* main() runs alone.
LEMMA BootFacts ==
  ASSUME FuncInv, NEW pc, InBoot(pc)
  PROVE  /\ Len(cpu) = 1 /\ boot.pc = pc /\ StackInv(1) /\ ThreadInv(1, db)
         /\ cpu[1].kind = "core" /\ cpu[1].part = CORE /\ cpu[1].pc = "run" /\ lock = 0
         /\ TypeInv /\ NsInv /\ BootInv /\ LiveInv /\ db \in Database
<1>1. Top.kind = "core" /\ boot.pc = pc
  BY DEF InBoot
<1>2. PICK c : c = Len(cpu)
  OBVIOUS
<1>3. c \in Nat /\ c >= 1 /\ Top = cpu[c] /\ StackInv(c) /\ ThreadInv(c, db)
  BY <1>1, <1>2, ThreadFacts
<1>4. c = 1
  BY <1>1, <1>3 DEF StackInv
<1>5. cpu[1].kind = "core" /\ cpu[1].part = CORE /\ cpu[1].pc = "run" /\ lock = 0
  BY <1>1, <1>3, <1>4 DEF StackInv
<1>6. TypeInv /\ NsInv /\ BootInv /\ LiveInv /\ db \in Database
  BY DEF FuncInv, TypeInv
<1> QED
  BY <1>1, <1>2, <1>3, <1>4, <1>5, <1>6

\* The stack of the core alone.
LEMMA CoreStack ==
  ASSUME Len(cpu) = 1, lock = 0, UNCHANGED <<lock, cpu>>, boot'.pc # "ns",
         cpu[1].kind = "core", cpu[1].part = CORE, cpu[1].pc = "run"
  PROVE  StackInv(1)'
<1>0. cpu' = cpu /\ lock' = lock /\ 1..Len(cpu') = {1} /\ Len(cpu') \in Int
  <2>1. Len(cpu') = 1
    OBVIOUS
  <2>2. \A n : n = 1 => 1..n = {1} /\ n \in Int
    OBVIOUS
  <2> QED
    BY <2>1, <2>2
<1>1. PICK c : c = 1
  OBVIOUS
<1>2. /\ c \in 1..Len(cpu') /\ \A k \in 1..Len(cpu') : k = c
      /\ c \in Nat /\ c - 1 = 0 /\ c <= 2 /\ ~(c > c) /\ cpu'[c] = cpu[1]
  BY <1>0, <1>1
<1>3. \A k \in 1..Len(cpu') : cpu'[k].kind = "irq" <=> k > c
  BY <1>2
<1>4. cpu'[1].kind = "core" /\ cpu'[1].part = CORE
  OBVIOUS
<1>5. \A k \in 2..c : FALSE
  BY <1>1
<1>6. \A k \in (c + 1)..Len(cpu') : FALSE
  <2>1. \A n : n = 1 => (n + 1)..n = {}
    OBVIOUS
  <2> QED
    BY <1>0, <1>1, <2>1
<1>7. \A j, k \in 1..c : j = k
  BY <1>1
<1>8. cpu'[c].pc = "run" /\ lock' = c - 1
  BY <1>2
<1>9. StackInv(c)'
  BY <1>1, <1>2, <1>3, <1>4, <1>5, <1>6, <1>7, <1>8 DEF StackInv
<1> QED
  BY <1>1, <1>9

\* main() goes on while the stack stays as it is.
LEMMA BootOn ==
  ASSUME FuncInv, Len(cpu) = 1, StackInv(1), TypeInv, NsInv, LiveInv,
         cpu[1].kind = "core", cpu[1].part = CORE, cpu[1].pc = "run",
         UNCHANGED <<lock, cpu, enabled, pending, ns, cur, tz, panicked>>,
         NEW d \in Database, d = db', BootInv', boot'.pc # "ns",
         \A q : Live(q) => Live(q)',
         \A q \in Parts : d.ctx[q] = <<>>,
         boot'.pc # "open" => d.running = CORE,
         boot'.pc # "open" /\ (boot'.pc = "init" => boot'.idx > 2) => d.state[CORE] = "RUNNING",
         \A q \in Parts : Live(q)' => d.state[q] = "IDLE"
  PROVE  FuncInv'
<1>1. TypeInv' /\ NsInv' /\ LiveInv'
  <2>1. TypeInv' /\ NsInv'
    BY DEF TypeInv, NsInv, FreeSlots
  <2> QED
    BY <2>1 DEF LiveInv
<1>2. StackInv(1)'
  <2>1. lock = 0
    BY DEF StackInv
  <2> QED
    BY <2>1, CoreStack
<1>3. ThreadInv(1, d)'
  BY DEF ThreadInv
<1>4. 1 \in Nat /\ 1 = Len(cpu')
  OBVIOUS
<1> QED
  BY <1>1, <1>2, <1>3, <1>4, ThreadStep

\* The steps of main().
LEMMA BootInitStep ==
  ASSUME FuncInv, BootInit
  PROVE  FuncInv' /\ panicked' = panicked
<1> DEFINE p == boot.idx
<1>1. InBoot("init") /\ p <= LastPart
      /\ UNCHANGED <<initing, enabled, pending, raises, ns, cur, tz, nslock>>
  BY DEF BootInit
<1>2. /\ Len(cpu) = 1 /\ boot.pc = "init" /\ StackInv(1) /\ ThreadInv(1, db)
      /\ cpu[1].kind = "core" /\ cpu[1].part = CORE /\ cpu[1].pc = "run" /\ lock = 0
      /\ TypeInv /\ NsInv /\ BootInv /\ LiveInv /\ db \in Database
  BY <1>1, BootFacts
<1>3. /\ boot \in [idx: 0..(LastPart + 1), pc: {"init", "result", "close", "open", "ns"}]
      /\ initing /\ db.running = CORE /\ p \in Parts /\ p \in Nat
  BY <1>1, <1>2, FuncAssumption DEF BootInv, ThreadInv, Parts
<1>4. CASE p \in Secure
  <2>1. RulesOk(FALSE) /\ AppRot(CORE) /\ ClientOf(CORE) = CORE
    BY <1>2, <1>3, PartFacts DEF RulesOk, AppRot, ClientOf, NS, CORE
  <2>2. SfnRequest(p, FALSE, CORE) /\ boot' = [boot EXCEPT !.pc = "result"]
    BY <1>4 DEF BootInit
  <2>3. /\ db' = Started(p, db.running) /\ lock' = lock + 1 /\ panicked' = panicked
        /\ cpu' = Append(cpu, Activation("call", p, NoIrq, CORE))
    BY <1>3, <2>1, <2>2 DEF SfnRequest
  <2>4. panicked \in BOOLEAN /\ CORE \in Int /\ 1 \in Nat /\ 1 = Len(cpu) /\ p # CORE
    BY <1>2, <1>4, PartFacts DEF TypeInv, CORE
  <2>5. PICK q : q = p
    OBVIOUS
  <2>6. /\ q \in Secure /\ \A k \in 1..1 : cpu[k].part # q
        /\ boot.pc = "init" /\ boot.idx = q /\ boot' = [boot EXCEPT !.pc = "result"]
    BY <1>2, <1>4, <2>2, <2>4, <2>5
  <2>7. /\ db' = Started(q, db.running)
        /\ cpu' = Append(cpu, Activation("call", q, NoIrq, CORE))
        /\ panicked' \in BOOLEAN /\ ClientOf(db.running) = CORE /\ db.running = cpu[1].part
    BY <1>2, <1>3, <2>1, <2>3, <2>4, <2>5
  <2> HIDE DEF p
  <2>8. FuncInv'
    BY <1>1, <1>2, <2>3, <2>4, <2>6, <2>7, CallStep
  <2> QED
    BY <2>3, <2>8
<1>5. CASE p \notin Secure
  <2>1. /\ db' = CleanedUp(SetState(db, p, "IDLE"), p)
        /\ boot' = [boot EXCEPT !.idx = @ + 1] /\ UNCHANGED <<lock, cpu, panicked>>
    BY <1>5 DEF BootInit, CleanedUp
  <2>2. boot'.pc = "init" /\ boot'.idx = p + 1 /\ p <= 1
        /\ boot' \in [idx: 0..(LastPart + 1), pc: {"init", "result", "close", "open", "ns"}]
    BY <1>1, <1>2, <1>3, <1>5, <2>1, FuncAssumption DEF Secure
  <2>3. \A q : ~Live(q) /\ ~Live(q)'
    BY <1>2, <1>3, <2>2 DEF Live, Secure
  <2>4. PICK d : d = db'
    OBVIOUS
  <2> DEFINE e == SetState(db, p, "IDLE")
  <2>5. e \in Database /\ e.running = CORE /\ e.ctx = db.ctx
    BY <1>2, <1>3, SetStateFields DEF States
  <2> HIDE DEF e
  <2>6. d = CleanedUp(e, p)
    BY <2>1, <2>4 DEF e
  <2> HIDE DEF p
  <2>7. d \in Database /\ d.running = CORE /\ d.ctx = db.ctx
    BY <1>3, <2>5, <2>6, CleanedUpFields
  <2>8. BootInv'
    BY <1>1, <1>2, <1>3, <2>2 DEF BootInv
  <2>9. \A q \in Parts : d.ctx[q] = <<>>
    BY <1>2, <2>7 DEF ThreadInv
  <2>10. UNCHANGED <<lock, cpu, enabled, pending, ns, cur, tz, panicked>>
         /\ boot'.pc # "ns" /\ ~(boot'.idx > 2)
    BY <1>1, <1>3, <2>1, <2>2
  <2>11. FuncInv'
    BY <1>2, <2>2, <2>3, <2>4, <2>7, <2>8, <2>9, <2>10, BootOn
  <2> QED
    BY <2>1, <2>11
<1> QED
  BY <1>4, <1>5

\* An init function has returned; the index that a failed one closes is no live
\* partition.
LEMMA BootResultStep ==
  ASSUME FuncInv, BootResult
  PROVE  FuncInv' /\ panicked' = panicked
<1> DEFINE p == boot.idx
<1>1. InBoot("result") /\ boot' = [idx |-> p + 1, pc |-> "init"]
      /\ UNCHANGED <<lock, initing, cpu, enabled, pending, raises, ns, cur, tz, panicked>>
  BY DEF BootResult
<1>2. /\ Len(cpu) = 1 /\ boot.pc = "result" /\ StackInv(1) /\ ThreadInv(1, db)
      /\ cpu[1].kind = "core" /\ cpu[1].part = CORE /\ cpu[1].pc = "run" /\ lock = 0
      /\ TypeInv /\ NsInv /\ BootInv /\ LiveInv /\ db \in Database
  BY <1>1, BootFacts
<1>3. /\ p \in Secure /\ p \in Parts /\ p \in Nat /\ p <= LastPart /\ initing
      /\ p \in 0..LastPart
  BY <1>2, FuncAssumption, PartFacts DEF BootInv, Secure
<1>4. db.running = CORE /\ db.state[CORE] = "RUNNING"
  BY <1>2 DEF ThreadInv
<1>5. boot'.pc = "init" /\ boot'.idx = p + 1 /\ \A q : Live(q)' <=> Live(q)
  BY <1>1, <1>2, <1>3 DEF Live, Secure
<1>6. \A q \in Parts : Live(q) => db.state[q] = "IDLE"
  <2>1. \A q : Live(q) => q # CORE
    BY PartFacts DEF Live
  <2>2. \A k \in 1..1 : cpu[k].part = CORE
    BY <1>2
  <2> QED
    BY <1>2, <2>1, <2>2 DEF ThreadInv
<1>7. PICK d : d = db'
  OBVIOUS
<1>8. /\ d \in Database /\ d.running = CORE /\ d.ctx = db.ctx /\ d.state[CORE] = "RUNNING"
      /\ \A q \in Parts : Live(q) => d.state[q] = "IDLE"
  <2>1. CASE p \notin InitFails
    <3>1. d = SetState(db, p, "IDLE")
      BY <1>7, <2>1 DEF BootResult
    <3>2. "IDLE" \in States /\ p # CORE
      BY <1>3, PartFacts DEF States
    <3> HIDE DEF p
    <3>3. /\ d \in Database /\ d.running = db.running /\ d.ctx = db.ctx
          /\ d.state = [db.state EXCEPT ![p] = "IDLE"]
      BY <1>2, <1>3, <3>1, <3>2, SetStateFields
    <3> QED
      BY <1>2, <1>3, <1>4, <1>6, <3>2, <3>3, PartFacts DEF Database
  <2>2. CASE p \in InitFails /\ PartId(p) \in Parts
    <3> DEFINE f == PartId(p)
    <3>1. d = SetState(db, f, "CLOSED")
      BY <1>7, <2>2 DEF BootResult
    <3>2. "CLOSED" \in States /\ f # CORE /\ f \in Parts /\ ~Live(f)
      BY <1>2, <1>3, <2>2, PartFacts DEF States, PartId, CORE, Live, Secure
    <3> HIDE DEF f
    <3>3. /\ d \in Database /\ d.running = db.running /\ d.ctx = db.ctx
          /\ d.state = [db.state EXCEPT ![f] = "CLOSED"]
      BY <1>2, <3>1, <3>2, SetStateFields
    <3> QED
      BY <1>2, <1>4, <1>6, <3>2, <3>3, PartFacts DEF Database
  <2>3. CASE p \in InitFails /\ PartId(p) \notin Parts
    <3>1. d = db
      BY <1>7, <2>3 DEF BootResult
    <3> QED
      BY <1>2, <1>4, <1>6, <3>1
  <2> QED
    BY <2>1, <2>2, <2>3
<1>9. BootInv'
  <2>1. p + 1 \in 0..(LastPart + 1)
    BY <1>3, FuncAssumption
  <2> QED
    BY <1>1, <1>2, <1>3, <2>1 DEF BootInv
<1>10. \A q \in Parts : d.ctx[q] = <<>>
  BY <1>2, <1>8 DEF ThreadInv
<1> HIDE DEF p
<1>11. boot'.pc # "ns" /\ boot'.pc # "open"
  BY <1>5
<1>12. FuncInv'
  BY <1>1, <1>2, <1>5, <1>7, <1>8, <1>9, <1>10, <1>11, BootOn
<1> QED
  BY <1>1, <1>12

\* Initialisation is over.
LEMMA BootDoneStep ==
  ASSUME FuncInv, BootDone
  PROVE  FuncInv' /\ panicked' = panicked
<1>1. InBoot("init") /\ boot.idx = LastPart + 1 /\ boot' = [boot EXCEPT !.pc = "close"]
      /\ initing' = FALSE
      /\ UNCHANGED <<db, lock, cpu, enabled, pending, raises, ns, cur, tz, panicked>>
  BY DEF BootDone
<1>2. /\ Len(cpu) = 1 /\ boot.pc = "init" /\ StackInv(1) /\ ThreadInv(1, db)
      /\ cpu[1].kind = "core" /\ cpu[1].part = CORE /\ cpu[1].pc = "run" /\ lock = 0
      /\ TypeInv /\ NsInv /\ BootInv /\ LiveInv /\ db \in Database
  BY <1>1, BootFacts
<1>3. /\ boot'.pc = "close" /\ boot'.idx = LastPart + 1
      /\ boot' \in [idx: 0..(LastPart + 1), pc: {"init", "result", "close", "open", "ns"}]
  BY <1>1, <1>2 DEF BootInv
<1>4. BootInv'
  BY <1>1, <1>3 DEF BootInv
<1>5. \A q : Live(q)' <=> Live(q)
  BY <1>1, <1>2, <1>3 DEF Live
<1>6. PICK d : d = db'
  OBVIOUS
<1>7. /\ d \in Database /\ d.running = CORE /\ d.state[CORE] = "RUNNING"
      /\ \A q \in Parts : d.ctx[q] = <<>>
  BY <1>1, <1>2, <1>6, FuncAssumption DEF ThreadInv
<1>8. \A q \in Parts : Live(q)' => d.state[q] = "IDLE"
  <2>1. \A q : Live(q) => q # CORE
    BY PartFacts DEF Live
  <2>2. \A k \in 1..1 : cpu[k].part = CORE
    BY <1>2
  <2> QED
    BY <1>1, <1>2, <1>5, <1>6, <2>1, <2>2 DEF ThreadInv
<1>9. boot'.pc # "ns" /\ boot'.pc # "open"
  BY <1>3
<1>10. FuncInv'
  BY <1>1, <1>2, <1>4, <1>5, <1>6, <1>7, <1>8, <1>9, BootOn
<1> QED
  BY <1>1, <1>10

\* The core is closed.
LEMMA BootCloseStep ==
  ASSUME FuncInv, BootClose
  PROVE  FuncInv' /\ panicked' = panicked
<1>1. InBoot("close") /\ boot' = [boot EXCEPT !.pc = "open"]
      /\ db' = SetState(db, CORE, "CLOSED")
      /\ UNCHANGED <<lock, initing, cpu, enabled, pending, raises, ns, cur, tz, panicked>>
  BY DEF BootClose
<1>2. /\ Len(cpu) = 1 /\ boot.pc = "close" /\ StackInv(1) /\ ThreadInv(1, db)
      /\ cpu[1].kind = "core" /\ cpu[1].part = CORE /\ cpu[1].pc = "run" /\ lock = 0
      /\ TypeInv /\ NsInv /\ BootInv /\ LiveInv /\ db \in Database
  BY <1>1, BootFacts
<1>3. /\ boot'.pc = "open" /\ boot'.idx = boot.idx /\ boot.idx = LastPart + 1
      /\ boot' \in [idx: 0..(LastPart + 1), pc: {"init", "result", "close", "open", "ns"}]
  BY <1>1, <1>2 DEF BootInv
<1>4. BootInv'
  BY <1>1, <1>2, <1>3 DEF BootInv
<1>5. \A q : Live(q)' <=> Live(q)
  BY <1>1, <1>2, <1>3 DEF Live
<1>6. PICK d : d = db'
  OBVIOUS
<1>7. /\ d \in Database /\ d.ctx = db.ctx /\ d.state = [db.state EXCEPT ![CORE] = "CLOSED"]
  BY <1>1, <1>2, <1>6, PartFacts, SetStateFields DEF States
<1>8. \A q \in Parts : Live(q)' => d.state[q] = "IDLE"
  <2>1. \A q : Live(q) => q # CORE
    BY PartFacts DEF Live
  <2>2. \A k \in 1..1 : cpu[k].part = CORE
    BY <1>2
  <2>3. \A q \in Parts : Live(q) => db.state[q] = "IDLE"
    BY <1>2, <2>1, <2>2 DEF ThreadInv
  <2> QED
    BY <1>2, <1>5, <1>7, <2>1, <2>3 DEF Database
<1>9. boot'.pc # "ns" /\ \A q \in Parts : d.ctx[q] = <<>>
  BY <1>2, <1>3, <1>7 DEF ThreadInv
<1>10. FuncInv'
  BY <1>1, <1>2, <1>3, <1>4, <1>5, <1>6, <1>7, <1>8, <1>9, BootOn
<1> QED
  BY <1>1, <1>10

\* The non-secure world starts.
LEMMA BootOpenStep ==
  ASSUME FuncInv, BootOpen
  PROVE  FuncInv' /\ panicked' = panicked
<1> DEFINE a == Activation("ns", NS, NoIrq, 0)
<1>1. InBoot("open") /\ boot' = [boot EXCEPT !.pc = "ns"]
      /\ db' = SetState(db, NS, "RUNNING") /\ cpu' = <<a>>
      /\ UNCHANGED <<lock, initing, enabled, pending, raises, ns, cur, tz, panicked>>
  BY DEF BootOpen
<1>2. /\ Len(cpu) = 1 /\ boot.pc = "open" /\ StackInv(1) /\ ThreadInv(1, db)
      /\ cpu[1].kind = "core" /\ cpu[1].part = CORE /\ cpu[1].pc = "run" /\ lock = 0
      /\ TypeInv /\ NsInv /\ BootInv /\ LiveInv /\ db \in Database
  BY <1>1, BootFacts
<1>3. /\ boot'.pc = "ns" /\ boot'.idx = boot.idx /\ boot.idx = LastPart + 1
      /\ boot' \in [idx: 0..(LastPart + 1), pc: {"init", "result", "close", "open", "ns"}]
  BY <1>1, <1>2 DEF BootInv
<1>4. BootInv'
  BY <1>1, <1>2, <1>3 DEF BootInv
<1>5. \A q : Live(q)' <=> Live(q)
  BY <1>1, <1>2, <1>3 DEF Live
<1>6. PICK d : d = db'
  OBVIOUS
<1>7. /\ d \in Database /\ d.ctx = db.ctx /\ d.state = [db.state EXCEPT ![NS] = "RUNNING"]
      /\ d.running = NS
  BY <1>1, <1>2, <1>6, PartFacts, SetStateFields DEF States
<1>8. a \in Active /\ a.kind = "ns" /\ a.part = NS /\ a.pc = "run"
  BY PartFacts, NewActivation
<1> HIDE DEF a
<1>9. Len(cpu') = 1 /\ cpu'[1] = a /\ cpu' \in Seq(Active) /\ cpu' # <<>>
  BY <1>1, <1>8
<1>10. TypeInv' /\ NsInv' /\ LiveInv'
  <2>1. TypeInv'
    BY <1>1, <1>2, <1>6, <1>7, <1>9 DEF TypeInv
  <2>2. NsInv'
    BY <1>1, <1>2 DEF NsInv, FreeSlots
  <2> QED
    BY <1>1, <1>2, <1>5, <1>9, <2>1, <2>2 DEF LiveInv
<1>11. StackInv(1)'
  BY <1>1, <1>2, <1>3, <1>8, <1>9 DEF StackInv
<1>12. ThreadInv(1, d)'
  <2>1. \A q : Live(q) => q # CORE /\ q # NS
    BY PartFacts DEF Live
  <2>2. \A k \in 1..1 : cpu[k].part = CORE
    BY <1>2
  <2>3. \A q \in Parts : Live(q) => db.state[q] = "IDLE"
    BY <1>2, <2>1, <2>2 DEF ThreadInv
  <2>4. \A q \in Parts : Live(q)' => d.state[q] = "IDLE"
    BY <1>2, <1>5, <1>7, <2>1, <2>3 DEF Database
  <2>5. d.state[NS] = "RUNNING" /\ \A q \in Parts : d.ctx[q] = <<>>
    BY <1>2, <1>7, PartFacts DEF Database, ThreadInv
  <2> QED
    BY <1>3, <1>7, <1>8, <1>9, <2>4, <2>5 DEF ThreadInv
<1>13. 1 \in Nat /\ 1 = Len(cpu')
  BY <1>9
<1>14. FuncInv'
  BY <1>4, <1>6, <1>7, <1>10, <1>11, <1>12, <1>13, ThreadStep
<1> QED
  BY <1>1, <1>14

-----------------------------------------------------------------------------
\* Every step keeps the invariant, and panics at most in a call between partitions
\* whose callee is not idle.
LEMMA FuncStep ==
  ASSUME FuncInv, [Next]_vars
  PROVE  /\ FuncInv'
         /\ (\A p \in Secure : PartitionCall(p) => db.state[p] = "IDLE") => panicked' = panicked
<1>1. ASSUME NEW i \in Irqs, Raise(i)
      PROVE  FuncInv' /\ panicked' = panicked
  <2>1. /\ pending' = pending \cup {i} /\ pending' \in SUBSET Irqs
        /\ UNCHANGED <<db, lock, initing, boot, cpu, enabled, ns, cur, tz, panicked>>
    BY <1>1 DEF Raise, FuncInv, TypeInv
  <2> QED
    BY <2>1, QuietStep
<1>2. ASSUME NsUnlock
      PROVE  FuncInv' /\ panicked' = panicked
  <2>1. pending' = pending /\ pending \in SUBSET Irqs
        /\ UNCHANGED <<db, lock, initing, boot, cpu, enabled, ns, cur, tz, panicked>>
    BY <1>2 DEF NsUnlock, FuncInv, TypeInv
  <2> QED
    BY <2>1, QuietStep
<1>3. ASSUME UNCHANGED vars
      PROVE  FuncInv' /\ panicked' = panicked
  <2>1. pending' = pending /\ pending \in SUBSET Irqs
        /\ UNCHANGED <<db, lock, initing, boot, cpu, enabled, ns, cur, tz, panicked>>
    BY <1>3 DEF vars, FuncInv, TypeInv
  <2> QED
    BY <2>1, QuietStep
<1>4. CASE BootInit \/ BootResult \/ BootDone \/ BootClose \/ BootOpen
  BY <1>4, BootInitStep, BootResultStep, BootDoneStep, BootCloseStep, BootOpenStep
<1>5. CASE TzInit \/ \E t \in Threads : TzAlloc(t) \/ TzFree(t) \/ Switch(t)
  <2>1. panicked' = panicked
    BY <1>5 DEF TzInit, TzAlloc, TzFree, Switch
  <2> QED
    BY <1>5, <2>1, TzInitStep, TzAllocStep, TzFreeStep, SwitchStep
<1>6. CASE \E p \in Secure : NsCall(p) \/ PartitionCall(p)
  BY <1>6, NsCallStep, PartitionCallStep
<1>7. CASE NsUnlock \/ SvcReturn
  BY <1>2, <1>7, SvcReturnStep
<1>8. CASE ReturnBegin \/ ReturnClean \/ ReturnIdle \/ ReturnState \/ ReturnIndex
  BY <1>8, ReturnBeginStep, ReturnCleanStep, ReturnIdleStep, ReturnStateStep,
     ReturnIndexStep
<1>9. CASE \E i \in Irqs : Raise(i) \/ TakeIrq(i) \/ PsaEoi(i)
  BY <1>1, <1>9, TakeIrqStep, PsaEoiStep
<1>10. CASE (\E i \in Irqs : SetIrq(i, TRUE)) \/ (\E i \in Disables : SetIrq(i, FALSE))
  BY <1>10, SetIrqStep, FuncAssumption
<1>11. CASE IrqReturn
  BY <1>11, IrqReturnStep
<1> QED
  BY <1>3, <1>4, <1>5, <1>6, <1>7, <1>8, <1>9, <1>10, <1>11 DEF Next

\* The invariant of the library-model manager: the thread of calls, the history of
\* the database under nested interrupts, the free list of client slots.
THEOREM FuncInductive == Spec => []FuncInv
<1>1. Init => FuncInv
  BY FuncInit
<1>2. FuncInv /\ [Next]_vars => FuncInv'
  BY FuncStep
<1> QED
  BY <1>1, <1>2, PTL DEF Spec

\* The invariant at the innermost activation.
LEMMA FuncNested ==
  ASSUME FuncInv
  PROVE  \E c \in 1..Len(cpu) : \E D \in [c..Len(cpu) -> Database] :
           /\ StackInv(c) /\ NestInv(c, D) /\ TypeInv /\ BootInv
           /\ c \in Nat /\ Len(cpu) \in Nat /\ Same(db, D[Len(cpu)])
           /\ CountInv(c, D, Len(cpu))
           /\ Settled => MatchInv(Len(cpu), D[Len(cpu)])
<1>0. PICK c \in 1..Len(cpu) :
        StackInv(c) /\ \E D \in [c..Len(cpu) -> Database] : NestInv(c, D)
  BY DEF FuncInv
<1>1. PICK D \in [c..Len(cpu) -> Database] : StackInv(c) /\ NestInv(c, D)
  BY <1>0
<1>2. c \in Nat /\ Len(cpu) \in Nat /\ Len(cpu) \in c..Len(cpu) /\ TypeInv /\ BootInv
  BY CpuType DEF FuncInv
<1>3. /\ Same(db, D[Len(cpu)]) /\ CountInv(c, D, Len(cpu))
      /\ Settled => MatchInv(Len(cpu), D[Len(cpu)])
  BY <1>1, <1>2 DEF NestInv
<1> QED
  BY <1>1, <1>2, <1>3

\* A set of natural numbers has a least element.
LEMMA LeastElement ==
  ASSUME NEW S \in SUBSET Nat, S # {}
  PROVE  \E x \in S : \A y \in S : x <= y
<1> DEFINE Less == {ss \in Nat \X Nat : ss[1] < ss[2]}
<1>1. OpToRel(<, Nat) = Less
  BY DEF OpToRel
<1>2. IsWellFoundedOn(Less, Nat)
  BY <1>1, NatLessThanWellFounded
<1> HIDE DEF Less
<1>3. \E x \in S : \A y \in S : ~ (<<y, x>> \in Less)
  BY <1>2, WFMin
<1>4. \A x, y \in Nat : ~ (<<y, x>> \in Less) => x <= y
  BY DEF Less
<1> QED
  BY <1>3, <1>4

\* The innermost activation of a partition that has one.
LEMMA InnerIs ==
  ASSUME NEW p, Of(p) # {}, Len(cpu) \in Nat
  PROVE  /\ Inner(p) \in 1..Len(cpu) /\ cpu[Inner(p)].part = p
         /\ Innermost(Inner(p), Len(cpu))
<1> DEFINE n == Len(cpu)
           T == {m \in Nat : \E k \in Of(p) : m = n - k}
<1>1. Of(p) \subseteq 1..n /\ T \subseteq Nat
  BY DEF Of
<1>2. T # {}
  BY <1>1
<1>3. PICK m \in T : \A l \in T : m <= l
  BY <1>1, <1>2, LeastElement
<1>4. PICK k \in Of(p) : m = n - k
  OBVIOUS
<1>5. \A j \in Of(p) : j <= k
  <2>1. ASSUME NEW j \in Of(p), ~(j <= k)
        PROVE  FALSE
    <3>1. n - j \in T /\ n - j < m /\ n - j \in Nat /\ m \in Nat
      BY <1>1, <1>4, <2>1
    <3> QED
      BY <1>3, <3>1
  <2> QED
    BY <2>1
<1>6. Inner(p) \in Of(p) /\ \A j \in Of(p) : j <= Inner(p)
  BY <1>5 DEF Inner
<1>7. Inner(p) \in 1..n /\ cpu[Inner(p)].part = p
  BY <1>6 DEF Of
<1>8. ASSUME NEW i \in (Inner(p) + 1)..n, cpu[i].part = p
      PROVE  FALSE
  <2>1. i \in 1..n /\ i > Inner(p)
    BY <1>7
  <2> QED
    BY <1>6, <1>7, <1>8, <2>1 DEF Of
<1> QED
  BY <1>7, <1>8 DEF Innermost

\* The last database of the history is the one DatabaseMatches is about.
LEMMA MatchesDatabase == FuncInv => DatabaseMatches
<1> SUFFICES ASSUME FuncInv, Settled
             PROVE  /\ Top.kind = "core" \/ db.running = Top.part
                    /\ \A p \in Parts \ {CORE} :
                         Of(p) # {} \/ boot.pc = "ns" => db.state[p] = StateOf(p)
                    /\ \A k \in 2..Len(cpu) :
                         k = Inner(cpu[k].part) => db.caller[cpu[k].part] = cpu[k - 1].part
                    /\ lock = Cardinality({k \in 1..Len(cpu) : cpu[k].kind = "call"})
                    /\ \A p \in Parts :
                         Len(db.ctx[p]) =
                           Cardinality({k \in 1..Len(cpu) :
                                          cpu[k].kind = "irq" /\ cpu[k].part = p})
                           + Cardinality({k \in 2..Len(cpu) :
                                          cpu[k].kind = "irq" /\ cpu[k - 1].part = p})
  BY DEF DatabaseMatches
<1>0. PICK c \in 1..Len(cpu) : \E D \in [c..Len(cpu) -> Database] :
           /\ StackInv(c) /\ NestInv(c, D) /\ TypeInv /\ BootInv
           /\ c \in Nat /\ Len(cpu) \in Nat /\ Same(db, D[Len(cpu)])
           /\ CountInv(c, D, Len(cpu))
           /\ Settled => MatchInv(Len(cpu), D[Len(cpu)])
  BY FuncNested
<1>1. PICK D \in [c..Len(cpu) -> Database] :
           /\ StackInv(c) /\ NestInv(c, D) /\ TypeInv /\ BootInv
           /\ c \in Nat /\ Len(cpu) \in Nat /\ Same(db, D[Len(cpu)])
           /\ CountInv(c, D, Len(cpu)) /\ MatchInv(Len(cpu), D[Len(cpu)])
  BY <1>0
<1> DEFINE n == Len(cpu)
<1>2. MatchInv(n, db)
  BY <1>1 DEF MatchInv, Same
<1>3. n \in Nat \ {0} /\ Top = cpu[n] /\ \A k \in 1..n : cpu[k].part \in Parts
  BY <1>1, CpuType
<1>4. Top.kind = "core" \/ db.running = Top.part
  BY <1>2, <1>3 DEF MatchInv
<1>5. ASSUME NEW p \in Parts \ {CORE}, Of(p) # {} \/ boot.pc = "ns"
      PROVE  db.state[p] = StateOf(p)
  <2>1. CASE Of(p) # {}
    <3> DEFINE j == Inner(p)
    <3>1. j \in 1..n /\ cpu[j].part = p /\ Innermost(j, n)
      BY <1>1, <2>1, InnerIs
    <3>2. db.state[p] = StateAt(j, n)
      BY <1>2, <3>1 DEF MatchInv
    <3> QED
      BY <2>1, <3>2 DEF StateOf, StateAt
  <2>2. CASE Of(p) = {} /\ boot.pc = "ns"
    <3>1. \A j \in 1..n : cpu[j].part # p
      BY <2>2 DEF Of
    <3>2. p # NS
      <4>1. cpu[1].part = NS /\ 1 \in 1..n
        BY <1>1, <1>3, <2>2 DEF StackInv
      <4> QED
        BY <3>1, <4>1
    <3>3. p \in Secure
      BY <3>2, FuncAssumption DEF Parts, Secure, NS, CORE
    <3> QED
      BY <1>2, <2>2, <3>1, <3>3 DEF MatchInv, StateOf
  <2> QED
    BY <1>5, <2>1, <2>2
<1>6. ASSUME NEW k \in 2..n, k = Inner(cpu[k].part)
      PROVE  db.caller[cpu[k].part] = cpu[k - 1].part
  <2>1. k \in 1..n /\ Of(cpu[k].part) # {}
    BY <1>3 DEF Of
  <2>2. Innermost(k, n)
    BY <1>1, <1>6, <2>1, InnerIs
  <2> QED
    BY <1>2, <1>6, <2>2 DEF MatchInv
<1>7. lock = Cardinality({k \in 1..n : cpu[k].kind = "call"})
  <2>1. lock = c - 1
    BY <1>1 DEF StackInv, Settled
  <2>2. {k \in 1..n : cpu[k].kind = "call"} = 2..c
    <3>1. \A k \in 1..n : cpu[k].kind = "call" <=> k \in 2..c
      BY <1>1, <1>3 DEF StackInv
    <3> QED
      BY <1>1, <1>3, <3>1
  <2> QED
    <3>1. 2 \in Int /\ c \in Int /\ c >= 1
      BY <1>1
    <3>2. Cardinality(2..c) = IF 2 > c THEN 0 ELSE c - 2 + 1
      BY <3>1, FS_Interval
    <3>3. Cardinality(2..c) = c - 1
      BY <3>1, <3>2
    <3> QED
      BY <2>1, <2>2, <3>3
<1>8. ASSUME NEW p \in Parts
      PROVE  Len(db.ctx[p]) =
               Cardinality({k \in 1..n : cpu[k].kind = "irq" /\ cpu[k].part = p})
               + Cardinality({k \in 2..n : cpu[k].kind = "irq" /\ cpu[k - 1].part = p})
  <2>1. \A k \in 1..n : cpu[k].kind = "irq" <=> k \in (c + 1)..n
    BY <1>1, <1>3 DEF StackInv
  <2>2. {k \in 1..n : cpu[k].kind = "irq" /\ cpu[k].part = p} = Handlers(c, n, p)
    BY <1>1, <2>1 DEF Handlers
  <2>3. \A k \in (c + 1)..n : D[k - 1].running = cpu[k - 1].part
    <3>1. \A k \in c..n : MatchInv(k, D[k])
      BY <1>1 DEF NestInv
    <3>2. \A k \in (c + 1)..n : k - 1 \in c..n
      BY <1>1
    <3> QED
      BY <3>1, <3>2 DEF MatchInv
  <2>4. {k \in 2..n : cpu[k].kind = "irq" /\ cpu[k - 1].part = p} = Cut(c, D, n, p)
    <3>1. \A k \in 2..n : k \in 1..n
      OBVIOUS
    <3>2. \A k \in (c + 1)..n : k \in 2..n
      BY <1>1
    <3> QED
      BY <2>1, <2>3, <3>1, <3>2 DEF Cut
  <2>5. Len(D[n].ctx[p]) = Cardinality(Handlers(c, n, p)) + Cardinality(Cut(c, D, n, p))
    BY <1>1 DEF CountInv
  <2> QED
    BY <1>1, <2>2, <2>4, <2>5 DEF Same
<1> QED
  BY <1>4, <1>5, <1>6, <1>7, <1>8

-----------------------------------------------------------------------------
\* An injection bounds the cardinality.
LEMMA ManyToOne ==
  ASSUME NEW S, NEW T, IsFiniteSet(T), NEW f \in [S -> T],
         \A a, b \in S : f[a] = f[b] => a = b
  PROVE  IsFiniteSet(S) /\ Cardinality(S) <= Cardinality(T)
<1>1. f \in Injection(S, T)
  BY DEF Injection, IsInjective
<1> QED
  BY <1>1, FS_Injection

\* A line has at most one handler in progress: priorities increase.
LEMMA HandlersBound ==
  ASSUME NEW c \in Nat, StackInv(c), Len(cpu) \in Nat, NEW p \in Parts
  PROVE  Cardinality(Handlers(c, Len(cpu), p)) <= Cardinality({i \in Irqs : IrqPart[i] = p})
<1> DEFINE H == Handlers(c, Len(cpu), p)
           T == {i \in Irqs : IrqPart[i] = p}
           f == [j \in H |-> cpu[j].irq]
<1>1. \A j \in H : j \in (c + 1)..Len(cpu) /\ j \in Nat /\ cpu[j].irq \in T
  BY DEF Handlers, StackInv
<1>2. \A a, b \in H : a < b => IrqPrio[cpu[a].irq] < IrqPrio[cpu[b].irq]
  BY <1>1 DEF StackInv
<1>3. \A i \in Irqs : IrqPrio[i] \in Nat
  BY FuncAssumption
<1>4. \A a, b \in H : cpu[a].irq = cpu[b].irq => a = b
  <2>1. ASSUME NEW a \in H, NEW b \in H, cpu[a].irq = cpu[b].irq, a # b
        PROVE  FALSE
    <3>1. a < b \/ b < a
      BY <1>1, <2>1
    <3>2. IrqPrio[cpu[a].irq] \in Nat
      BY <1>1, <1>3
    <3> QED
      BY <1>2, <2>1, <3>1, <3>2
  <2> QED
    BY <2>1
<1> HIDE DEF H, T
<1>5. f \in [H -> T] /\ \A a, b \in H : f[a] = f[b] => a = b
  BY <1>1, <1>4
<1>6. IsFiniteSet(T)
  BY FuncAssumption, FS_Subset DEF T
<1> HIDE DEF f
<1>7. Cardinality(H) <= Cardinality(T)
  BY <1>5, <1>6, ManyToOne
<1> QED
  BY <1>7 DEF H, T

\* All interrupts that cut into p, but the first, cut into a handler of p.
LEMMA CutBound ==
  ASSUME NEW c \in Nat, StackInv(c), Len(cpu) \in Nat, NEW D, NestInv(c, D), NEW p \in Parts
  PROVE  /\ Cardinality(Cut(c, D, Len(cpu), p)) <= Cardinality(Handlers(c, Len(cpu), p)) + 1
         /\ Cardinality(Cut(c, D, Len(cpu), p)) \in Nat
         /\ Cardinality(Handlers(c, Len(cpu), p)) \in Nat
<1> DEFINE n == Len(cpu)
           H == Handlers(c, n, p)
           S == Cut(c, D, n, p)
           R == S \ {c + 1}
           f == [j \in R |-> j - 1]
<1>1. H \in SUBSET ((c + 1)..n) /\ S \in SUBSET ((c + 1)..n)
  BY DEF Handlers, Cut
<1>2. \A k \in (c + 1)..n : D[k].running = cpu[k].part
  BY DEF NestInv, IrqStep
<1>3. ASSUME NEW j \in R
      PROVE  j - 1 \in H /\ j \in Nat
  <2>1. j \in (c + 1)..n /\ j # c + 1 /\ D[j - 1].running = p
    BY DEF Cut
  <2>2. j - 1 \in (c + 1)..n
    BY <2>1
  <2> QED
    BY <1>2, <2>1, <2>2 DEF Handlers
<1>4. /\ IsFiniteSet(H) /\ Cardinality(H) \in Nat /\ IsFiniteSet(S) /\ Cardinality(S) \in Nat
  <2>1. c + 1 \in Nat
    OBVIOUS
  <2> HIDE DEF H, S
  <2> QED
    BY <1>1, <2>1, CardInterval
<1> HIDE DEF H, S
<1>5. f \in [R -> H] /\ \A a, b \in R : f[a] = f[b] => a = b
  BY <1>3
<1> HIDE DEF f
<1>6. Cardinality(R) <= Cardinality(H)
  <2> HIDE DEF R
  <2> QED
    BY <1>4, <1>5, ManyToOne
<1>7. Cardinality(R) = IF c + 1 \in S THEN Cardinality(S) - 1 ELSE Cardinality(S)
  BY <1>4, FS_RemoveElement
<1>8. Cardinality(S) <= Cardinality(H) + 1
  BY <1>4, <1>6, <1>7
<1> QED
  BY <1>4, <1>8 DEF H, S

\* The frames counted give the bound of the context stacks.
LEMMA BoundsStack == FuncInv => CtxStackBound
<1> SUFFICES ASSUME FuncInv, NEW p \in Parts
             PROVE  Len(db.ctx[p]) + Cardinality(HndlFrames(db.ctx[p]))
                      <= 1 + 3 * Cardinality({i \in Irqs : IrqPart[i] = p})
  BY DEF CtxStackBound, HndlFrames
<1>0. PICK c \in 1..Len(cpu) : \E D \in [c..Len(cpu) -> Database] :
           /\ StackInv(c) /\ NestInv(c, D) /\ TypeInv /\ BootInv
           /\ c \in Nat /\ Len(cpu) \in Nat /\ Same(db, D[Len(cpu)])
           /\ CountInv(c, D, Len(cpu))
           /\ Settled => MatchInv(Len(cpu), D[Len(cpu)])
  BY FuncNested
<1>1. PICK D \in [c..Len(cpu) -> Database] :
           /\ StackInv(c) /\ NestInv(c, D) /\ c \in Nat /\ Len(cpu) \in Nat
           /\ Same(db, D[Len(cpu)]) /\ CountInv(c, D, Len(cpu))
  BY <1>0
<1> DEFINE n == Len(cpu)
           h == Cardinality(Handlers(c, n, p))
           u == Cardinality(Cut(c, D, n, p))
           t == Cardinality({i \in Irqs : IrqPart[i] = p})
<1>2. h <= t
  BY <1>1, HandlersBound
<1>3. u <= h + 1 /\ u \in Nat /\ h \in Nat
  BY <1>1, CutBound
<1>4. t \in Nat
  <2>1. IsFiniteSet({i \in Irqs : IrqPart[i] = p})
    BY FuncAssumption, FS_Subset
  <2> QED
    BY <2>1, FS_CardinalityType
<1>5. Len(db.ctx[p]) = h + u /\ Cardinality(HndlFrames(db.ctx[p])) = h
  BY <1>1 DEF CountInv, Same
<1> HIDE DEF h, u, t
<1>6. h + u + h <= 1 + 3 * t
  BY <1>2, <1>3, <1>4
<1> QED
  BY <1>3, <1>5, <1>6 DEF t

\* The thread's calls keep their clients.
LEMMA KnowsCaller == FuncInv => CallerIdRight
<1> SUFFICES ASSUME FuncInv, NEW k \in 2..Len(cpu), cpu[k].kind = "call"
             PROVE  db.client[cpu[k].part] = cpu[k].client
  BY DEF CallerIdRight
<1>1. PICK c \in 1..Len(cpu) : StackInv(c)
  BY DEF FuncInv
<1>2. Len(cpu) \in Nat
  BY CpuType DEF FuncInv
<1>3. k \in 2..c
  BY <1>1, <1>2 DEF StackInv
<1> QED
  BY <1>1, <1>3 DEF StackInv

\* The free list keeps the slots apart.
LEMMA KeepsApart == FuncInv => ContextsApart
<1> SUFFICES ASSUME FuncInv
             PROVE  ContextsApart
  OBVIOUS
<1>1. NsInv /\ ns \in Client /\ tz \in [Threads -> {0} \cup 2..MaxNs]
  BY DEF FuncInv, TypeInv
<1>2. ASSUME NEW t \in Threads, tz[t] # 0
      PROVE  tz[t] - 1 \notin FreeSlots /\ ns.id[tz[t] - 1] # 0 /\ ns.started
  <2>1. tz[t] \in 2..MaxNs /\ tz[t] \in Nat
    BY <1>1, <1>2, FuncAssumption
  <2>2. ns.id[tz[t] - 1] < 0 /\ ns.id[tz[t] - 1] # 0 /\ ns.started
    BY <1>1, <1>2 DEF NsInv
  <2>3. tz[t] - 1 \notin FreeSlots
    BY <1>2, <2>1 DEF FreeSlots
  <2> QED
    BY <2>2, <2>3
<1>3. \E L \in SUBSET NsSlots :
        /\ HoldFreeList(L)
        /\ \A t \in Threads : tz[t] # 0 => tz[t] - 1 \notin L /\ ns.id[tz[t] - 1] # 0
  <2>1. CASE ns.started
    <3>1. HoldFreeList(FreeSlots)
      BY <1>1, <2>1 DEF HoldFreeList, NsInv
    <3>2. FreeSlots \in SUBSET NsSlots
      BY DEF FreeSlots
    <3> QED
      BY <1>2, <3>1, <3>2
  <2>2. CASE ~ns.started
    <3>1. HoldFreeList(NsSlots)
      BY <1>1, <2>2, FuncAssumption DEF HoldFreeList, NsInv, NsSlots
    <3> QED
      BY <1>2, <2>2, <3>1
  <2> QED
    BY <2>1, <2>2
<1>4. \A t, u \in Threads : t # u /\ tz[t] # 0 => tz[t] # tz[u]
  BY <1>1 DEF NsInv
<1>5. ns.active = IF tz[cur] = 0 THEN 0 ELSE tz[cur] - 1
  BY <1>1 DEF NsInv
<1> QED
  BY <1>3, <1>4, <1>5 DEF ContextsApart

-----------------------------------------------------------------------------
\* Calls in progress go upward in rank.
OrderInv(rank) ==
  \A j, k \in 2..Len(cpu) :
    j < k /\ cpu[j].kind = "call" /\ cpu[k].kind = "call" =>
      rank[cpu[j].part] < rank[cpu[k].part]

\* Nothing has panicked, and some order of the dependencies orders the calls.
RankInv ==
  /\ ~panicked
  /\ \E rank \in [Secure -> Parts] :
       /\ \A p \in Secure : \A q \in Callees[p] : rank[p] < rank[q]
       /\ OrderInv(rank)

\* A stack that keeps or loses activations keeps their order.
LEMMA OrderKept ==
  ASSUME NEW rank, OrderInv(rank), Len(cpu) \in Nat, Len(cpu') \in Nat, Len(cpu') <= Len(cpu),
         \A k \in 1..Len(cpu') : cpu'[k].kind = cpu[k].kind /\ cpu'[k].part = cpu[k].part
  PROVE  OrderInv(rank)'
<1>1. \A k \in 2..Len(cpu') : k \in 2..Len(cpu) /\ k \in 1..Len(cpu')
  OBVIOUS
<1> QED
  BY <1>1 DEF OrderInv

\* A new innermost activation keeps the order if it is a handler, or above all calls.
LEMMA OrderAppend ==
  ASSUME NEW rank, OrderInv(rank), TypeInv, NEW a \in Active, cpu' = Append(cpu, a),
         a.kind = "call" => \A j \in 2..Len(cpu) :
                              cpu[j].kind = "call" => rank[cpu[j].part] < rank[a.part]
  PROVE  OrderInv(rank)'
<1>1. PICK n : n = Len(cpu)
  OBVIOUS
<1>2. /\ n \in Nat \ {0} /\ Len(cpu') = n + 1 /\ cpu'[n + 1] = a
      /\ \A k \in 1..n : cpu'[k] = cpu[k]
  BY <1>1, AppendCpu
<1>3. \A k \in 2..(n + 1) : k = n + 1 \/ (k \in 2..n /\ cpu'[k] = cpu[k])
  BY <1>2
<1>4. ASSUME NEW j \in 2..(n + 1), NEW k \in 2..(n + 1), j < k,
             cpu'[j].kind = "call", cpu'[k].kind = "call"
      PROVE  rank[cpu'[j].part] < rank[cpu'[k].part]
  <2>1. j \in 2..n /\ cpu'[j] = cpu[j]
    BY <1>2, <1>3, <1>4
  <2>2. CASE k = n + 1
    BY <1>1, <1>2, <1>4, <2>1, <2>2
  <2>3. CASE k \in 2..n /\ cpu'[k] = cpu[k]
    BY <1>1, <1>4, <2>1, <2>3 DEF OrderInv
  <2> QED
    BY <1>3, <2>2, <2>3
<1> QED
  BY <1>2, <1>4 DEF OrderInv

\* The callee is above every call in progress, and so is idle.
LEMMA CalleeAbove ==
  ASSUME FuncInv, NEW p \in Secure, PartitionCall(p), NEW rank \in [Secure -> Parts],
         \A q \in Secure : \A r \in Callees[q] : rank[q] < rank[r], OrderInv(rank)
  PROVE  /\ \A j \in 2..Len(cpu) : cpu[j].kind = "call" => rank[cpu[j].part] < rank[p]
         /\ db.state[p] = "IDLE"
<1>1. PICK c : c = Len(cpu)
  OBVIOUS
<1>2. /\ c \in Nat /\ c >= 2 /\ Top = cpu[c] /\ Top.part \in Secure /\ boot.pc = "ns"
      /\ Top.pc = "run" /\ StackInv(c) /\ ThreadInv(c, db) /\ p \in Callees[Top.part]
  BY <1>1, PartitionCallFacts
<1>3. /\ \A j \in 2..c : cpu[j].kind = "call" /\ cpu[j].part \in Secure
      /\ cpu[1].part = NS /\ rank[cpu[c].part] < rank[p]
  BY <1>2 DEF StackInv
<1>4. \A q \in Secure : rank[q] \in Nat
  BY FuncAssumption DEF Parts
<1>5. \A j \in 2..c : rank[cpu[j].part] < rank[p]
  <2>1. ASSUME NEW j \in 2..c
        PROVE  rank[cpu[j].part] < rank[p]
    <3>1. j = c \/ rank[cpu[j].part] < rank[cpu[c].part]
      BY <1>1, <1>2, <1>3 DEF OrderInv
    <3>2. rank[cpu[j].part] \in Nat /\ rank[cpu[c].part] \in Nat /\ rank[p] \in Nat
      BY <1>2, <1>3, <1>4
    <3> QED
      BY <1>3, <3>1, <3>2
  <2> QED
    BY <2>1
<1>6. \A k \in 1..c : cpu[k].part # p
  <2>1. p # NS /\ rank[p] \in Nat
    BY <1>4, PartFacts
  <2>2. \A k \in 1..c : k = 1 \/ k \in 2..c
    BY <1>2
  <2> QED
    BY <1>3, <1>5, <2>1, <2>2
<1>7. p \in Parts /\ Live(p)
  <2>1. p \in Nat /\ p <= LastPart /\ boot.idx = LastPart + 1 /\ LastPart \in Nat
    BY <1>2, FuncAssumption DEF FuncInv, BootInv, Secure
  <2> QED
    BY <2>1, PartFacts DEF Live
<1>8. db.state[p] = "IDLE"
  BY <1>2, <1>6, <1>7 DEF ThreadInv
<1> QED
  BY <1>1, <1>5, <1>8

\* No calls at first.
LEMMA RankInit == Init => RankInv
<1> SUFFICES ASSUME Init PROVE RankInv
  OBVIOUS
<1>1. Len(cpu) = 1 /\ ~panicked
  BY DEF Init
<1>2. \A n : n = 1 => 2..n = {}
  OBVIOUS
<1>3. 2..Len(cpu) = {}
  BY <1>1, <1>2
<1>4. \A rank : OrderInv(rank)
  BY <1>3 DEF OrderInv
<1> QED
  BY <1>1, <1>4, AcyclicAssumption DEF RankInv

\* Every step keeps the calls in order.
LEMMA OrderStep ==
  ASSUME FuncInv, [Next]_vars, NEW rank \in [Secure -> Parts], OrderInv(rank),
         \A p \in Secure : \A q \in Callees[p] : rank[p] < rank[q]
  PROVE  OrderInv(rank)'
<1>0. TypeInv /\ Len(cpu) \in Nat \ {0} /\ Top = cpu[Len(cpu)]
  BY CpuType DEF FuncInv
<1>1. ASSUME cpu' = cpu
      PROVE  OrderInv(rank)'
  BY <1>1 DEF OrderInv
<1>2. ASSUME cpu' = Front(cpu), Len(cpu) >= 2
      PROVE  OrderInv(rank)'
  <2>1. Len(cpu') = Len(cpu) - 1 /\ \A k \in 1..(Len(cpu) - 1) : cpu'[k] = cpu[k]
    BY <1>0, <1>2, FrontCpu
  <2> QED
    BY <1>0, <2>1, OrderKept
<1>3. ASSUME NEW i \in Irqs, TakeIrq(i)
      PROVE  OrderInv(rank)'
  <2> DEFINE a == Activation("irq", IrqPart[i], i, 0)
  <2>1. a \in Active /\ a.kind # "call"
    BY PartFacts, NewActivation
  <2>2. CASE cpu' = Append(cpu, a)
    BY <1>0, <2>1, <2>2, OrderAppend
  <2> QED
    BY <1>1, <1>3, <2>2 DEF TakeIrq
<1>4. ASSUME NEW p \in Secure, NEW cl \in Int, cpu' = Append(cpu, Activation("call", p, NoIrq, cl)),
             \A j \in 2..Len(cpu) : cpu[j].kind = "call" => rank[cpu[j].part] < rank[p]
      PROVE  OrderInv(rank)'
  <2> DEFINE a == Activation("call", p, NoIrq, cl)
  <2>1. a \in Active /\ a.part = p
    BY PartFacts, NewActivation
  <2>2. cpu' = Append(cpu, a)
    BY <1>4
  <2> HIDE DEF a
  <2> QED
    BY <1>0, <1>4, <2>1, <2>2, OrderAppend
<1>5. ASSUME Len(cpu) = 1
      PROVE  \A j \in 2..Len(cpu) : FALSE
  BY <1>0, <1>5
<1>6. CASE BootInit
  <2>1. Len(cpu) = 1 /\ BootInv
    BY <1>6, BootFacts DEF BootInit
  <2>2. CASE boot.idx \in Secure
    <3>1. SfnRequest(boot.idx, FALSE, CORE) /\ CORE \in Int
      <4>1. CORE \in Int
        BY DEF CORE
      <4> QED
        BY <1>6, <2>2, <4>1 DEF BootInit
    <3>2. cpu' = cpu \/ cpu' = Append(cpu, Activation("call", boot.idx, NoIrq, CORE))
      BY <3>1 DEF SfnRequest
    <3> QED
      BY <1>1, <1>4, <1>5, <2>1, <2>2, <3>1, <3>2
  <2> QED
    BY <1>1, <1>6, <2>2 DEF BootInit
<1>7. CASE BootOpen
  <2>1. Len(cpu') = 1
    BY <1>7 DEF BootOpen
  <2>2. \A n : n = 1 => 2..n = {}
    OBVIOUS
  <2>3. 2..Len(cpu') = {}
    BY <2>1, <2>2
  <2> QED
    BY <2>3 DEF OrderInv
<1>8. ASSUME NEW p \in Secure, NsCall(p)
      PROVE  OrderInv(rank)'
  <2>1. Top.kind = "ns" /\ SfnRequest(p, TRUE, ThreadId(cur))
    BY <1>8 DEF NsCall
  <2>2. Len(cpu) = 1
    <3>1. PICK c : c = Len(cpu)
      OBVIOUS
    <3>2. StackInv(c) /\ c \in Nat \ {0} /\ Top = cpu[c]
      BY <2>1, <3>1, ThreadFacts
    <3> QED
      BY <2>1, <3>1, <3>2 DEF StackInv
  <2>3. ThreadId(cur) \in Int
    <3>1. ns \in Client /\ cur \in Threads /\ tz[cur] \in {0} \cup 2..MaxNs
      BY <1>0 DEF TypeInv
    <3>2. 0 \in NsSlots /\ \A s \in 2..MaxNs : s - 1 \in NsSlots
      BY FuncAssumption DEF NsSlots
    <3>3. \A s \in NsSlots : ns.id[s] \in Int
      BY <3>1 DEF Client
    <3> QED
      BY <3>1, <3>2, <3>3 DEF ThreadId
  <2>4. cpu' = cpu \/ cpu' = Append(cpu, Activation("call", p, NoIrq, ThreadId(cur)))
    BY <2>1 DEF SfnRequest
  <2> QED
    BY <1>1, <1>4, <1>5, <2>2, <2>3, <2>4
<1>9. ASSUME NEW p \in Secure, PartitionCall(p)
      PROVE  OrderInv(rank)'
  <2>1. \A j \in 2..Len(cpu) : cpu[j].kind = "call" => rank[cpu[j].part] < rank[p]
    BY <1>9, CalleeAbove
  <2>2. Top.part \in Parts
    BY <1>0, CpuType
  <2>3. cpu' = cpu \/ cpu' = Append(cpu, Activation("call", p, NoIrq, PartId(Top.part)))
    BY <1>9 DEF PartitionCall, SfnRequest
  <2> QED
    BY <1>1, <1>4, <2>1, <2>2, <2>3, PartIdInt
<1>10. ASSUME Top.kind \in {"call", "irq"}
       PROVE  Len(cpu) >= 2
  <2>1. PICK c \in 1..Len(cpu) : StackInv(c)
    BY DEF FuncInv
  <2>2. cpu[1].kind \notin {"call", "irq"}
    BY <2>1 DEF StackInv
  <2> QED
    BY <1>0, <1>10, <2>2
<1>11. CASE SvcReturn \/ ReturnIndex \/ IrqReturn
  <2>1. (cpu' = cpu \/ cpu' = Front(cpu)) /\ Top.kind \in {"call", "irq"}
    BY <1>11 DEF SvcReturn, ReturnIndex, IrqReturn, InReturn
  <2> QED
    BY <1>1, <1>2, <1>10, <2>1
<1>12. CASE ReturnClean \/ ReturnIdle \/ ReturnState
  <2>1. PICK pc \in ReturnPc : At(pc)
    BY <1>12 DEF ReturnClean, ReturnIdle, ReturnState, ReturnPc
  <2>2. Len(cpu') = Len(cpu) /\ \A k \in 1..Len(cpu) :
          cpu'[k].kind = cpu[k].kind /\ cpu'[k].part = cpu[k].part
    BY <1>0, <2>1, AtFields
  <2> QED
    BY <1>0, <2>2, OrderKept
<1>13. CASE ReturnBegin
  <2> DEFINE n == Len(cpu)
             x == [cpu[n] EXCEPT !.pc = "clean", !.cur = db.running,
                                 !.ret = db.caller[db.running]]
  <2>1. CASE cpu' = [cpu EXCEPT ![n] = x]
    <3>1. n \in 1..n /\ cpu[n] \in Active
      BY <1>0, CpuType
    <3>2. x.kind = cpu[n].kind /\ x.part = cpu[n].part
      BY <3>1 DEF Active
    <3> HIDE DEF x
    <3>3. Len(cpu') = Len(cpu) /\ cpu'[n] = x /\ \A k \in 1..n : k # n => cpu'[k] = cpu[k]
      BY <1>0, <2>1, <3>1 DEF TypeInv
    <3>4. \A k \in 1..n : cpu'[k].kind = cpu[k].kind /\ cpu'[k].part = cpu[k].part
      BY <3>2, <3>3
    <3> QED
      BY <1>0, <3>3, <3>4, OrderKept
  <2>2. cpu' = cpu \/ cpu' = [cpu EXCEPT ![n] = x]
    BY <1>13 DEF ReturnBegin
  <2> QED
    BY <1>1, <2>1, <2>2
<1>14. CASE BootResult \/ BootDone \/ BootClose \/ NsUnlock
  BY <1>1, <1>14 DEF BootResult, BootDone, BootClose, NsUnlock
<1>15. CASE TzInit \/ \E t \in Threads : TzAlloc(t) \/ TzFree(t) \/ Switch(t)
  BY <1>1, <1>15 DEF TzInit, TzAlloc, TzFree, Switch
<1>16. ASSUME NEW i \in Irqs, Raise(i) \/ PsaEoi(i) \/ SetIrq(i, TRUE) \/ SetIrq(i, FALSE)
       PROVE  OrderInv(rank)'
  BY <1>1, <1>16 DEF Raise, PsaEoi, SetIrq
<1>17. CASE UNCHANGED vars
  BY <1>1, <1>17 DEF vars
<1>18. Disables \subseteq Irqs
  BY FuncAssumption
<1> QED
  BY <1>3, <1>6, <1>7, <1>8, <1>9, <1>11, <1>12, <1>13, <1>14, <1>15, <1>16, <1>17, <1>18
     DEF Next

\* Every step keeps the order and does not panic.
LEMMA RankStep ==
  ASSUME FuncInv, RankInv, [Next]_vars
  PROVE  RankInv'
<1>1. PICK rank \in [Secure -> Parts] :
        /\ \A p \in Secure : \A q \in Callees[p] : rank[p] < rank[q]
        /\ OrderInv(rank)
  BY DEF RankInv
<1>2. OrderInv(rank)'
  BY <1>1, OrderStep
<1>3. \A p \in Secure : PartitionCall(p) => db.state[p] = "IDLE"
  BY <1>1, CalleeAbove
<1>4. ~panicked'
  BY <1>3, FuncStep DEF RankInv
<1> QED
  BY <1>1, <1>2, <1>4 DEF RankInv

-----------------------------------------------------------------------------
\* However calls, half-done returns and interrupts nest, the database agrees with
\* the code on the processor once no return is half done (spm_api_func.c,
\* tfm_func_api.c).
THEOREM FuncDatabaseMatches == Spec => []DatabaseMatches
BY FuncInductive, MatchesDatabase, PTL

\* The context stacks that tfm_spm_db.inc.template sizes have room for every
\* nesting of interrupts, of any number of lines and priorities.
THEOREM FuncCtxStackBound == Spec => []CtxStackBound
BY FuncInductive, BoundsStack, PTL

\* tfm_core_get_caller_client_id() names the thread or the partition that called.
THEOREM FuncCallerIdRight == Spec => []CallerIdRight
BY FuncInductive, KnowsCaller, PTL

\* TZ_AllocModuleContext_S() and TZ_FreeModuleContext_S() keep every client slot
\* to one thread and off the free list while it is in use.
THEOREM FuncContextsApart == Spec => []ContextsApart
BY FuncInductive, KeepsApart, PTL

\* With dependencies that have no cycles, no interleaving drives the manager into
\* tfm_core_panic().
THEOREM FuncNeverPanics == Spec => []NeverPanics
<1>1. Init => RankInv
  BY RankInit
<1>2. FuncInv /\ RankInv /\ [Next]_vars => RankInv'
  BY RankStep
<1>3. RankInv => NeverPanics
  BY DEF RankInv, NeverPanics
<1> QED
  BY <1>1, <1>2, <1>3, FuncInductive, PTL DEF Spec
=============================================================================
