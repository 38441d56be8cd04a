------------------------------ MODULE AuditCore ------------------------------
(***************************************************************************)
(* The audit log of audit_core.c: records of different sizes in a circular *)
(* buffer, found by walking from the first one along the size fields, and  *)
(* written across the end of the buffer.  The unit is the 4-byte word: the *)
(* service refuses a record whose size is no multiple of it.  Requests the *)
(* service refuses before it touches the log (iovec shapes, non-secure     *)
(* callers, tokens, an index out of range) change nothing and are left     *)
(* out.                                                                    *)
(***************************************************************************)
EXTENDS Integers, Sequences

CONSTANTS LogSize,     \* LOG_SIZE in words
          FixedSize,   \* LOG_FIXED_FIELD_SIZE: header, its last word the size
          MacSize,     \* LOG_MAC_SIZE
          Sizes,       \* payload sizes clients ask for
          StampMod     \* bound: time stamps are told apart modulo this

ASSUME AuditAssumption ==
    /\ FixedSize \in Nat \ {0} /\ MacSize \in Nat
    /\ LogSize \in Nat /\ LogSize > FixedSize + MacSize
    /\ Sizes \subseteq Nat /\ StampMod \in Nat \ {0}

VARIABLES buf,         \* log_buffer
          first,       \* log_state.first_el_idx
          last,        \* log_state.last_el_idx
          num,         \* log_state.num_records
          stored,      \* log_state.stored_size
          stamp        \* global_timestamp

auditVars == <<buf, first, last, num, stored, stamp>>

\* A word of the buffer: of which record it is and which word of it; `val' is
\* the size in the size field, else what is not of interest here.
Word(s, k, v) == [stamp |-> s, off |-> k, val |-> v]
Blank == Word(-1, 0, 0)

COMPUTE_LOG_ENTRY_SIZE(size) == FixedSize + size + MacSize

SizeAt(b, idx) == b[(idx + FixedSize - 1) % LogSize].val

GET_NEXT_LOG_INDEX(b, idx) ==
    (idx + COMPUTE_LOG_ENTRY_SIZE(SizeAt(b, idx))) % LogSize

\* The index of the k-th record after the one at idx.
Nth(b, idx, n) ==
    LET at[k \in 0..n] == IF k = 0 THEN idx
                          ELSE GET_NEXT_LOG_INDEX(b, at[k - 1])
    IN  at[n]

\* Words the first k records take.
Removed(k) ==
    LET sum[j \in 0..k] ==
          IF j = 0 THEN 0
          ELSE sum[j - 1] + COMPUTE_LOG_ENTRY_SIZE(
                                SizeAt(buf, Nth(buf, first, j - 1)))
    IN  sum[k]

\* Mutant: one word is taken for free.
Enough_over(k, n) == n <= LogSize - (stored - Removed(k)) + 1

\* The loop of audit_replace_record() has made room after k removals.
Enough(k, n) == n <= LogSize - (stored - Removed(k))

\* Oldest records audit_replace_record() removes for an entry of n words; with
\* all of them gone the whole buffer is free and the reset is not needed.
Evicted(n) ==
    CHOOSE k \in 0..num : Enough(k, n) /\ \A j \in 0..(k - 1) : ~Enough(j, n)

\* Where the entry goes after k removals.
StartPos(k) ==
    IF num = 0 THEN 0
    ELSE IF num - k = 0 THEN Nth(buf, first, k)
         ELSE GET_NEXT_LOG_INDEX(buf, last)

\* audit_format_buffer(): the entry for a record of `size' words.
Entry(size) ==
    [k \in 0..(COMPUTE_LOG_ENTRY_SIZE(size) - 1) |->
        Word(stamp, k, IF k = FixedSize - 1 THEN size ELSE 0)]

\* audit_buffer_copy(): entry e from pos on, wrapped at the end.
Copied(e, pos) ==
    [i \in 0..(LogSize - 1) |->
        LET k == (i - pos) % LogSize IN IF k \in DOMAIN e THEN e[k] ELSE buf[i]]

\* audit_core_add_record()
AddRecord(size) ==
    /\ size <= LogSize - (FixedSize + MacSize)
    /\ LET n == COMPUTE_LOG_ENTRY_SIZE(size)
           k == IF num = 0 THEN 0 ELSE Evicted(n)
       IN  /\ buf' = Copied(Entry(size), StartPos(k))
           /\ first' = Nth(buf, first, k)
           /\ last' = StartPos(k)
           /\ num' = num - k + 1
           /\ stored' = stored - Removed(k) + n
    /\ stamp' = (stamp + 1) % StampMod

\* Mutant: deleting the only record leaves the first index where it was.
DeleteRecord_noreset ==
    /\ num > 0
    /\ first' = GET_NEXT_LOG_INDEX(buf, first)
    /\ num' = num - 1
    /\ stored' = stored - COMPUTE_LOG_ENTRY_SIZE(SizeAt(buf, first))
    /\ UNCHANGED <<buf, last, stamp>>

\* audit_core_delete_record(): the only record resets the log.
DeleteRecord ==
    /\ num > 0
    /\ IF num = 1
       THEN first' = 0 /\ last' = 0 /\ num' = 0 /\ stored' = 0
       ELSE /\ first' = GET_NEXT_LOG_INDEX(buf, first)
            /\ num' = num - 1
            /\ stored' = stored - COMPUTE_LOG_ENTRY_SIZE(SizeAt(buf, first))
            /\ UNCHANGED last
    /\ UNCHANGED <<buf, stamp>>

\* audit_core_retrieve_record() of record_index i: as many words from the
\* record's start as its size field says.
Retrieved(i) ==
    LET idx == Nth(buf, first, i)
    IN  [k \in 0..(COMPUTE_LOG_ENTRY_SIZE(SizeAt(buf, idx)) - 1) |->
            buf[(idx + k) % LogSize]]

\* audit_core_init()
AuditInit ==
    /\ buf = [i \in 0..(LogSize - 1) |-> Blank]
    /\ first = 0 /\ last = 0 /\ num = 0 /\ stored = 0
    /\ stamp = 0

AuditNext ==
    \/ \E size \in Sizes : AddRecord(size)
    \/ DeleteRecord

AuditSpec == AuditInit /\ [][AuditNext]_auditVars

-----------------------------------------------------------------------------
(* Properties                                                              *)

\* The records as the walk from first_el_idx finds them, oldest first.
Records ==
    [i \in 1..num |-> LET idx == Nth(buf, first, i - 1)
                      IN  [stamp |-> buf[idx].stamp, size |-> SizeAt(buf, idx)]]

Abstract == INSTANCE AuditLog WITH
    Capacity <- LogSize, Overhead <- FixedSize + MacSize,
    log <- Records, total <- stored

\* The circular buffer implements the log: walking the size fields from
\* first_el_idx finds the records in the order they were added, the "older
\* entries first" policy of audit_replace_record() displaces no more than
\* needed, and the stored_size of audit_core_get_info() is what they take,
\* wherever they wrap.
LogRefined == Abstract!LogSpec

\* audit_core_retrieve_record() returns whole records: each word, across the
\* end of the buffer too, is the one audit_format_buffer() wrote at that place
\* of the same record, and no later record has damaged it.
RetrievedIntact ==
    \A i \in 0..(num - 1) :
        LET r == Retrieved(i)
        IN  \A k \in DOMAIN r : r[k].stamp = r[0].stamp /\ r[k].off = k
=============================================================================
