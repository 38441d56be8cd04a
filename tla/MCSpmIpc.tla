------------------------------ MODULE MCSpmIpc ------------------------------
(***************************************************************************)
(* Small systems of partitions for the IPC of the SPM.                     *)
(*   Mix:   the non-secure thread calls service s2 of p1, and p1 and p2,   *)
(*     both more urgent than p3, call service s1 of p3: the queue of s1    *)
(*     gets longer than one and the pool is smaller than the demand; p3    *)
(*     also serves an interrupt and the doorbell of p1.                    *)
(*   Chain: the non-secure thread calls s1 of p1, which calls s2 of p2.    *)
(***************************************************************************)
EXTENDS SpmIpc, FiniteSets, TLC

CONSTANTS ns, p1, p2, p3, s1, s2, i1, h1, h2, ra

Pool1 == <<h1>>
Pool2 == <<h1, h2>>

AllSignals(T) == [t \in T |-> IF t = NS THEN {} ELSE {SigOwner(t)}]
None(T) == [t \in T |-> {}]

ChainThread == {ns, p1, p2}
ChainPrior == (ns :> 3) @@ (p1 :> 2) @@ (p2 :> 1)
ChainOwner == (s1 :> p1) @@ (s2 :> p2)
ChainIrqOwner == i1 :> p2
MidIrqOwner == i1 :> p1   \* the interrupt of a partition that is also a client
ChainDeps == (ns :> {s1}) @@ (p1 :> {s2}) @@ (p2 :> {})
ChainMasks == AllSignals(ChainThread)
NoNotify == None(ChainThread)

MixThread == {ns, p1, p2, p3}
MixPrior == (ns :> 3) @@ (p1 :> 1) @@ (p2 :> 1) @@ (p3 :> 2)
MixOwner == (s1 :> p3) @@ (s2 :> p1)
MixIrqOwner == i1 :> p3
MixDeps == (ns :> {s2}) @@ (p1 :> {s1}) @@ (p2 :> {s1}) @@ (p3 :> {})
MixNotify == (ns :> {}) @@ (p1 :> {p3}) @@ (p2 :> {}) @@ (p3 :> {})
MixMasks == AllSignals(MixThread)

NoIrq == [i \in {} |-> p1]

\* Mix is a system as the proofs of SpmIpcCallProofs assume it.
ASSUME MixIsSound ==
  Thread = MixThread =>
    /\ Attentive /\ ShieldedSystem
    /\ \E rank \in [Thread -> 0..Cardinality(Thread)] : Descends(rank)
=============================================================================
