------------------------------ MODULE AuditLog ------------------------------
(***************************************************************************)
(* What the audit log promises its clients: a first-in first-out log of    *)
(* whole records.  A new record displaces the oldest ones, and no more of  *)
(* them than it needs room for; only the oldest record can be deleted.     *)
(***************************************************************************)
EXTENDS Integers, Sequences

CONSTANTS Capacity,    \* words the log has room for
          Overhead,    \* words a record takes besides its payload
          Sizes,       \* payload sizes clients ask for, in words
          StampMod     \* bound: time stamps are told apart modulo this

VARIABLES log,         \* records, oldest first
          total,       \* words they take
          stamp        \* stamp of the next record

logVars == <<log, total, stamp>>

\* Words the records of s take.
Words(s) ==
    LET sum[k \in 0..Len(s)] ==
          IF k = 0 THEN 0 ELSE sum[k - 1] + (Overhead + s[k].size)
    IN  sum[Len(s)]

\* Suffixes of the log that leave room for a record of n words.
Fits(k, n) == Words(SubSeq(log, k + 1, Len(log))) + n <= Capacity

LogInit == log = <<>> /\ total = 0 /\ stamp = 0

LogAdd(n) ==
    \E k \in 0..Len(log) :
        /\ Fits(k, Overhead + n)
        /\ \A j \in 0..(k - 1) : ~Fits(j, Overhead + n)
        /\ log' = Append(SubSeq(log, k + 1, Len(log)),
                         [stamp |-> stamp, size |-> n])
        /\ total' = Words(log')
        /\ stamp' = (stamp + 1) % StampMod

LogDelete ==
    /\ log # <<>>
    /\ log' = Tail(log)
    /\ total' = Words(log')
    /\ UNCHANGED stamp

LogNext == LogDelete \/ \E n \in Sizes : LogAdd(n)

LogSpec == LogInit /\ [][LogNext]_logVars
=============================================================================
