-------------------------- MODULE ItsFlashFsProofs --------------------------
(***************************************************************************)
(* Proofs about ItsFlashFs, for assets that are not empty (0 \notin Lens):  *)
(* an empty file shares its offset with the file behind it.                *)
(*                                                                         *)
(* A flash F determines the context that a reset finds in it: Current(F,c).*)
(* A file system call starts in a flash F with current context c and empty *)
(* scratch blocks, and is to lead to a flash G with current context d.     *)
(* What it still has to program, a set D of places in the scratch blocks   *)
(* of c that are erased in the flash and the same in F and G elsewhere, is *)
(* what its remaining operations program, each place once (Writing).  The  *)
(* swap count is the last of them: until then c stays current, with its    *)
(* assets, then d is current, and the blocks that d has replaced are       *)
(* erased (Clearing).  The invariant ItsInv says in which of these phases  *)
(* the flash is at each place of the service; every action keeps it and is *)
(* a step of the abstract store, or leaves that as it is.                  *)
(***************************************************************************)
EXTENDS ItsFlashFs, TLAPS, FiniteSetTheorems, SequenceTheorems, WellFoundedInduction
-----------------------------------------------------------------------------
(* Sums over finite sets *)

\* A non-empty set of naturals has a least element.
LEMMA LeastOf ==
  ASSUME NEW S \in SUBSET Nat, S # {}
  PROVE  \E i \in S : \A j \in S : i <= j
<1> DEFINE R == {ss \in Nat \X Nat : ss[1] < ss[2]}
<1>1. OpToRel(<, Nat) = R
  BY DEF OpToRel
<1>2. IsWellFoundedOn(R, Nat)
  BY <1>1, NatLessThanWellFounded
<1> HIDE DEF R
<1>3. \E x \in S : \A y \in S : ~ (<<y, x>> \in R)
  BY <1>2, WFMin
<1>4. \A x, y \in Nat : ~ (<<y, x>> \in R) => x <= y
  BY DEF R
<1> QED
  BY <1>3, <1>4

\* A non-empty set of finite sets has one with no proper subset in it.
LEMMA SmallestOf ==
  ASSUME NEW A, A # {}, \A T \in A : IsFiniteSet(T)
  PROVE  \E T \in A : \A U \in SUBSET T : U \in A => U = T
<1> DEFINE C == {Cardinality(T) : T \in A}
<1>1. C \in SUBSET Nat /\ C # {}
  BY FS_CardinalityType
<1>2. PICK n \in C : \A m \in C : n <= m
  BY <1>1, LeastOf
<1>3. PICK T \in A : n = Cardinality(T)
  OBVIOUS
<1>4. ASSUME NEW U \in SUBSET T, U \in A PROVE U = T
  <2>1. n <= Cardinality(U)
    BY <1>2, <1>4
  <2>2. IsFiniteSet(T) /\ IsFiniteSet(U)
    BY <1>4
  <2>3. Cardinality(U) <= Cardinality(T) /\ Cardinality(T) \in Nat /\ Cardinality(U) \in Nat
        /\ (Cardinality(T) = Cardinality(U) => T = U)
    BY <2>2, FS_Subset, FS_CardinalityType
  <2> QED
    BY <1>3, <2>1, <2>3
<1> QED
  BY <1>4

\* The recursion of a sum over the subsets of S.
Pick(s) == CHOOSE x \in s : TRUE
SumRec(f, S, g) ==
  g = [s \in SUBSET S |-> IF s = {} THEN 0 ELSE f[Pick(s)] + g[s \ {Pick(s)}]]

\* The value of such a function at a set.
LEMMA SumRecAt ==
  ASSUME NEW f, NEW S, NEW g, SumRec(f, S, g), NEW s \in SUBSET S
  PROVE  /\ s = {} => g[s] = 0
         /\ s # {} => /\ g[s] = f[Pick(s)] + g[s \ {Pick(s)}]
                      /\ Pick(s) \in s
<1>1. s # {} => Pick(s) \in s
  BY DEF Pick
<1> QED
  BY <1>1 DEF SumRec

\* Two such functions agree where both are defined.
LEMMA SumRecUnique ==
  ASSUME NEW f, NEW S, NEW T, IsFiniteSet(S), NEW g, NEW h,
         SumRec(f, S, g), SumRec(f, T, h), NEW r \in SUBSET S, r \in SUBSET T
  PROVE  g[r] = h[r]
<1> DEFINE A == {s \in SUBSET S : s \in SUBSET T /\ g[s] # h[s]}
<1>1. ASSUME A # {} PROVE FALSE
  <2>1. \A s \in A : IsFiniteSet(s)
    BY FS_Subset
  <2>2. PICK s \in A : \A u \in SUBSET s : u \in A => u = s
    <3> HIDE DEF A
    <3> QED
      BY <1>1, <2>1, SmallestOf
  <2>8. s \in SUBSET S /\ s \in SUBSET T /\ g[s] # h[s]
    BY <2>2
  <2>9. /\ s = {} => g[s] = 0
        /\ s # {} => g[s] = f[Pick(s)] + g[s \ {Pick(s)}]
    BY <2>8, SumRecAt
  <2>11. s # {} => Pick(s) \in s
    BY DEF Pick
  <2>10. /\ s = {} => h[s] = 0
         /\ s # {} => h[s] = f[Pick(s)] + h[s \ {Pick(s)}]
    BY <2>8, SumRecAt
  <2>3. s # {}
    BY <2>8, <2>9, <2>10
  <2>4. /\ g[s] = f[Pick(s)] + g[s \ {Pick(s)}] /\ h[s] = f[Pick(s)] + h[s \ {Pick(s)}]
        /\ Pick(s) \in s
    BY <2>3, <2>9, <2>10, <2>11
  <2>5. s \ {Pick(s)} \in SUBSET S /\ s \ {Pick(s)} \in SUBSET T /\ s \ {Pick(s)} \in SUBSET s
        /\ s \ {Pick(s)} # s
    BY <2>2, <2>4
  <2>6. g[s \ {Pick(s)}] = h[s \ {Pick(s)}]
    BY <2>2, <2>5
  <2>7. g[s] # h[s]
    BY <2>2
  <2> QED
    BY <2>4, <2>6, <2>7
<1> QED
  BY <1>1

\* There is one on every finite set.
LEMMA SumRecExists ==
  ASSUME NEW f, NEW S, IsFiniteSet(S)
  PROVE  \E g : SumRec(f, S, g)
<1> DEFINE A == {T \in SUBSET S : ~ \E g : SumRec(f, T, g)}
<1>1. ASSUME A # {} PROVE FALSE
  <2>1. \A s \in A : IsFiniteSet(s)
    BY FS_Subset
  <2>2. PICK T \in A : \A u \in SUBSET T : u \in A => u = T
    <3> HIDE DEF A
    <3> QED
      BY <1>1, <2>1, SmallestOf
  <2>3. T \in SUBSET S /\ ~ \E g : SumRec(f, T, g)
    BY <2>2
  <2> DEFINE H(u) == CHOOSE g : SumRec(f, u, g)
             Less(s) == s \ {Pick(s)}
             g == [s \in SUBSET T |-> IF s = {} THEN 0
                                      ELSE f[Pick(s)] + H(Less(s))[Less(s)]]
  <2>4. \A u \in SUBSET T : u # T => SumRec(f, u, H(u))
    <3>1. ASSUME NEW u \in SUBSET T, u # T PROVE SumRec(f, u, H(u))
      <4>1. u \in SUBSET S /\ u \notin A
        BY <2>2, <2>3, <3>1
      <4>2. \E k : SumRec(f, u, k)
        BY <4>1
      <4> HIDE DEF A
      <4> QED
        BY <4>2
    <3> QED
      BY <3>1
  <2>5. \A s \in SUBSET T : s # {} => Less(s) \in SUBSET T /\ Less(s) # T /\ Less(s) \in SUBSET Less(s)
    <3>1. \A s \in SUBSET T : s # {} => Pick(s) \in s
      BY DEF Pick
    <3> QED
      BY <3>1
  <2> HIDE DEF H, A
  <2>6. ASSUME NEW s \in SUBSET T, s # {} PROVE H(Less(s))[Less(s)] = g[Less(s)]
    <3> DEFINE u == Less(s)
    <3>1. u \in SUBSET T /\ u # T /\ SumRec(f, u, H(u)) /\ u \in SUBSET u
      BY <2>4, <2>5, <2>6
    <3>2. CASE u = {}
      BY <3>1, <3>2, SumRecAt
    <3>3. CASE u # {}
      <4> DEFINE w == Less(u)
      <4>1. w \in SUBSET T /\ w # T /\ SumRec(f, w, H(w))
        BY <2>4, <2>5, <3>1, <3>3
      <4>2. w \in SUBSET u /\ w \in SUBSET w /\ IsFiniteSet(u)
        BY <2>3, <3>1, FS_Subset
      <4>6. PICK i, j : i = H(u) /\ j = H(w)
        OBVIOUS
      <4>7. SumRec(f, u, i) /\ SumRec(f, w, j)
        BY <3>1, <4>1, <4>6
      <4>3. H(u)[u] = f[Pick(u)] + H(u)[w]
        <5>1. i[u] = f[Pick(u)] + i[u \ {Pick(u)}]
          <6> HIDE DEF u
          <6> QED
            BY <3>1, <3>3, <4>7, SumRecAt
        <5> QED
          BY <4>6, <5>1
      <4>4. H(u)[w] = H(w)[w]
        <5>1. i[w] = j[w]
          <6> HIDE DEF u, w
          <6> QED
            BY <4>2, <4>7, SumRecUnique
        <5> QED
          BY <4>6, <5>1
      <4>5. g[u] = f[Pick(u)] + H(w)[w]
        BY <3>1, <3>3
      <4> QED
        BY <4>3, <4>4, <4>5
    <3> QED
      BY <3>2, <3>3
  <2>7. SumRec(f, T, g)
    <3>1. g = [s \in SUBSET T |-> IF s = {} THEN 0 ELSE f[Pick(s)] + g[s \ {Pick(s)}]]
      BY <2>6
    <3> HIDE DEF g
    <3> QED
      BY <3>1 DEF SumRec
  <2> QED
    BY <2>3, <2>7
<1>2. S \in SUBSET S /\ S \notin A
  BY <1>1
<1> QED
  BY <1>2

\* A sum, one element at a time.
LEMMA SumStep ==
  ASSUME NEW f, NEW S, IsFiniteSet(S)
  PROVE  /\ S = {} => SumFunctionOnSet(f, S) = 0
         /\ S # {} => /\ Pick(S) \in S
                      /\ SumFunctionOnSet(f, S)
                           = f[Pick(S)] + SumFunctionOnSet(f, S \ {Pick(S)})
<1> DEFINE H(u) == CHOOSE g : SumRec(f, u, g)
<1>1. \A T : SumFunctionOnSet(f, T) = H(T)[T]
  BY DEF SumFunctionOnSet, FoldFunctionOnSet, MapThenFoldSet, SumRec, Pick
<1>2. \A T : IsFiniteSet(T) => SumRec(f, T, H(T))
  BY SumRecExists
<1> HIDE DEF H
<1>3. SumRec(f, S, H(S)) /\ S \in SUBSET S
  BY <1>2
<1>4. CASE S = {}
  BY <1>1, <1>3, <1>4, SumRecAt
<1>5. CASE S # {}
  <2> DEFINE U == S \ {Pick(S)}
  <2>1. U \in SUBSET S /\ U \in SUBSET U /\ IsFiniteSet(U)
    BY FS_Subset
  <2>2. SumRec(f, U, H(U))
    BY <1>2, <2>1
  <2>3. H(S)[U] = H(U)[U]
    BY <1>3, <2>1, <2>2, SumRecUnique
  <2>4. PICK i : i = H(S)
    OBVIOUS
  <2>5. Pick(S) \in S /\ i[S] = f[Pick(S)] + i[S \ {Pick(S)}]
    BY <1>3, <1>5, <2>4, SumRecAt
  <2> QED
    BY <1>1, <2>3, <2>4, <2>5
<1> QED
  BY <1>4, <1>5

\* A sum of naturals is a natural, and does not depend on the order.
LEMMA SumNat ==
  ASSUME NEW f, NEW S, IsFiniteSet(S), \A x \in S : f[x] \in Nat
  PROVE  SumFunctionOnSet(f, S) \in Nat
<1> DEFINE A == {T \in SUBSET S : SumFunctionOnSet(f, T) \notin Nat}
<1>1. ASSUME A # {} PROVE FALSE
  <2>1. \A s \in A : IsFiniteSet(s)
    BY FS_Subset
  <2>2. PICK T \in A : \A u \in SUBSET T : u \in A => u = T
    <3> HIDE DEF A
    <3> QED
      BY <1>1, <2>1, SmallestOf
  <2>3. IsFiniteSet(T) /\ T # {}
    <3>1. IsFiniteSet(T) /\ SumFunctionOnSet(f, T) \notin Nat
      BY <2>1, <2>2
    <3>2. T = {} => SumFunctionOnSet(f, T) = 0
      BY <3>1, SumStep
    <3> QED
      BY <3>1, <3>2
  <2>4. Pick(T) \in T /\ SumFunctionOnSet(f, T) = f[Pick(T)] + SumFunctionOnSet(f, T \ {Pick(T)})
    BY <2>3, SumStep
  <2>5. T \ {Pick(T)} \in SUBSET T /\ T \ {Pick(T)} # T /\ T \ {Pick(T)} \in SUBSET S
    BY <2>2, <2>4
  <2>6. SumFunctionOnSet(f, T \ {Pick(T)}) \in Nat
    BY <2>2, <2>5
  <2> QED
    BY <2>2, <2>4, <2>6
<1> QED
  BY <1>1

\* Any element of a sum may be taken out.
LEMMA SumRemove ==
  ASSUME NEW f, NEW S, IsFiniteSet(S), \A x \in S : f[x] \in Nat, NEW x \in S
  PROVE  SumFunctionOnSet(f, S) = f[x] + SumFunctionOnSet(f, S \ {x})
<1> DEFINE A == {T \in SUBSET S : \E y \in T :
                   SumFunctionOnSet(f, T) # f[y] + SumFunctionOnSet(f, T \ {y})}
<1>1. ASSUME A # {} PROVE FALSE
  <2>1. \A s \in A : IsFiniteSet(s)
    BY FS_Subset
  <2>2. PICK T \in A : \A u \in SUBSET T : u \in A => u = T
    <3> HIDE DEF A
    <3> QED
      BY <1>1, <2>1, SmallestOf
  <2>3. PICK y \in T : SumFunctionOnSet(f, T) # f[y] + SumFunctionOnSet(f, T \ {y})
    BY <2>2
  <2>4. IsFiniteSet(T) /\ T # {} /\ T \in SUBSET S
    BY <2>1, <2>2, <2>3
  <2>5. PICK p : p = Pick(T)
    OBVIOUS
  <2>6. p \in T /\ SumFunctionOnSet(f, T) = f[p] + SumFunctionOnSet(f, T \ {p})
    BY <2>4, <2>5, SumStep
  <2>7. y # p
    BY <2>3, <2>6
  <2>8. /\ T \ {p} \in SUBSET T /\ T \ {p} # T /\ T \ {p} \in SUBSET S /\ y \in T \ {p}
        /\ T \ {y} \in SUBSET T /\ T \ {y} # T /\ T \ {y} \in SUBSET S /\ p \in T \ {y}
        /\ (T \ {p}) \ {y} = (T \ {y}) \ {p}
    BY <2>3, <2>4, <2>6, <2>7
  <2>9. T \ {p} \notin A /\ T \ {y} \notin A
    BY <2>2, <2>8
  <2>10. SumFunctionOnSet(f, T \ {p}) = f[y] + SumFunctionOnSet(f, (T \ {p}) \ {y})
    BY <2>8, <2>9
  <2>11. SumFunctionOnSet(f, T \ {y}) = f[p] + SumFunctionOnSet(f, (T \ {y}) \ {p})
    BY <2>8, <2>9
  <2>12. IsFiniteSet((T \ {p}) \ {y}) /\ \A z \in (T \ {p}) \ {y} : f[z] \in Nat
    BY <2>4, FS_RemoveElement
  <2>13. SumFunctionOnSet(f, (T \ {p}) \ {y}) \in Nat
    BY <2>12, SumNat
  <2>14. f[p] \in Nat /\ f[y] \in Nat
    BY <2>3, <2>4, <2>6
  <2>15. PICK a \in Nat, b \in Nat, n \in Nat :
           a = f[p] /\ b = f[y] /\ n = SumFunctionOnSet(f, (T \ {p}) \ {y})
    BY <2>13, <2>14
  <2>16. SumFunctionOnSet(f, T) = a + (b + n) /\ SumFunctionOnSet(f, T \ {y}) = a + n
    BY <2>6, <2>8, <2>10, <2>11, <2>15
  <2>17. a + (b + n) = b + (a + n)
    OBVIOUS
  <2> QED
    BY <2>3, <2>15, <2>16, <2>17
<1>2. S \in SUBSET S
  OBVIOUS
<1> QED
  BY <1>1, <1>2

\* A sum grows with its set.
LEMMA SumMonotonic ==
  ASSUME NEW f, NEW S, IsFiniteSet(S), \A x \in S : f[x] \in Nat, NEW T \in SUBSET S
  PROVE  /\ SumFunctionOnSet(f, T) \in Nat
         /\ SumFunctionOnSet(f, S) = SumFunctionOnSet(f, T) + SumFunctionOnSet(f, S \ T)
         /\ SumFunctionOnSet(f, T) <= SumFunctionOnSet(f, S)
<1> DEFINE Sm(U) == SumFunctionOnSet(f, U)
           A == {U \in SUBSET T : Sm((S \ T) \cup U) # Sm(U) + Sm(S \ T)}
<1>0. \A U \in SUBSET S : IsFiniteSet(U) /\ Sm(U) \in Nat
  BY SumNat, FS_Subset
<1>1. ASSUME A # {} PROVE FALSE
  <2>1. \A s \in A : IsFiniteSet(s)
    BY FS_Subset
  <2>2. PICK U \in A : \A u \in SUBSET U : u \in A => u = U
    <3> HIDE DEF A
    <3> QED
      BY <1>1, <2>1, SmallestOf
  <2>3. U \in SUBSET T /\ Sm((S \ T) \cup U) # Sm(U) + Sm(S \ T)
    BY <2>2
  <2>4. U # {}
    <3>1. Sm({}) = 0 /\ Sm(S \ T) \in Nat /\ (S \ T) \cup {} = S \ T
      BY <1>0, SumStep
    <3> QED
      BY <2>3, <3>1
  <2>5. PICK x \in U : TRUE
    BY <2>4
  <2>6. /\ U \ {x} \in SUBSET U /\ U \ {x} # U /\ U \ {x} \in SUBSET T
        /\ ((S \ T) \cup U) \ {x} = (S \ T) \cup (U \ {x})
        /\ (S \ T) \cup U \in SUBSET S /\ U \in SUBSET S /\ x \in (S \ T) \cup U /\ S \ T \in SUBSET S
        /\ U \ {x} \in SUBSET S
    BY <2>3, <2>5
  <2>7. Sm((S \ T) \cup (U \ {x})) = Sm(U \ {x}) + Sm(S \ T)
    BY <2>2, <2>6
  <2>8. Sm((S \ T) \cup U) = f[x] + Sm(((S \ T) \cup U) \ {x})
    BY <1>0, <2>6, SumRemove
  <2>9. Sm(U) = f[x] + Sm(U \ {x})
    BY <1>0, <2>6, SumRemove
  <2>10. Sm((S \ T) \cup U) = f[x] + (Sm(U \ {x}) + Sm(S \ T))
    BY <2>6, <2>7, <2>8
  <2>11. f[x] \in Nat /\ Sm(U \ {x}) \in Nat /\ Sm(S \ T) \in Nat
    BY <1>0, <2>6
  <2> HIDE DEF Sm
  <2> QED
    BY <2>3, <2>9, <2>10, <2>11
<1>2. T \in SUBSET T /\ (S \ T) \cup T = S /\ T \in SUBSET S /\ S \ T \in SUBSET S
  OBVIOUS
<1>3. Sm(S) = Sm(T) + Sm(S \ T)
  BY <1>1, <1>2
<1>4. Sm(T) \in Nat /\ Sm(S \ T) \in Nat
  BY <1>0, <1>2
<1> HIDE DEF Sm
<1>5. Sm(T) <= Sm(S)
  BY <1>3, <1>4
<1> QED
  BY <1>3, <1>4, <1>5 DEF Sm

\* Functions that agree on a set have the same sum over it.
LEMMA SumSame ==
  ASSUME NEW f, NEW g, NEW S, IsFiniteSet(S), \A x \in S : f[x] = g[x]
  PROVE  SumFunctionOnSet(f, S) = SumFunctionOnSet(g, S)
<1> DEFINE A == {T \in SUBSET S : SumFunctionOnSet(f, T) # SumFunctionOnSet(g, T)}
<1>1. ASSUME A # {} PROVE FALSE
  <2>1. \A s \in A : IsFiniteSet(s)
    BY FS_Subset
  <2>2. PICK T \in A : \A u \in SUBSET T : u \in A => u = T
    <3> HIDE DEF A
    <3> QED
      BY <1>1, <2>1, SmallestOf
  <2>3. IsFiniteSet(T) /\ T \in SUBSET S /\ SumFunctionOnSet(f, T) # SumFunctionOnSet(g, T)
    BY <2>1, <2>2
  <2>4. T # {}
    BY <2>3, SumStep
  <2>5. /\ Pick(T) \in T
        /\ SumFunctionOnSet(f, T) = f[Pick(T)] + SumFunctionOnSet(f, T \ {Pick(T)})
        /\ SumFunctionOnSet(g, T) = g[Pick(T)] + SumFunctionOnSet(g, T \ {Pick(T)})
    BY <2>3, <2>4, SumStep
  <2>6. T \ {Pick(T)} \in SUBSET T /\ T \ {Pick(T)} # T /\ T \ {Pick(T)} \in SUBSET S
    BY <2>3, <2>5
  <2>7. SumFunctionOnSet(f, T \ {Pick(T)}) = SumFunctionOnSet(g, T \ {Pick(T)})
    BY <2>2, <2>6
  <2>8. f[Pick(T)] = g[Pick(T)]
    BY <2>3, <2>5
  <2> QED
    BY <2>3, <2>5, <2>7, <2>8
<1>2. S \in SUBSET S
  OBVIOUS
<1> QED
  BY <1>1, <1>2
-----------------------------------------------------------------------------
(* Sequences of flash operations *)

\* A sequence of anything: the operations carry values of many kinds.
IsSeq(s) == \E S : s \in Seq(S)

\* A function on 1..n is a sequence of length n.
LEMMA FunIsSeq ==
  ASSUME NEW n \in Nat, NEW S, NEW s \in [1..n -> S]
  PROVE  IsSeq(s) /\ Len(s) = n
<1>2. s \in Seq(S)
  BY SeqDef
<1>3. Len(s) = n
  BY <1>2
<1>4. IsSeq(s)
  BY <1>2 DEF IsSeq
<1> QED
  BY <1>3, <1>4

\* The items of a concatenation.
LEMMA Cat ==
  ASSUME NEW s, NEW t, IsSeq(s), IsSeq(t)
  PROVE  /\ IsSeq(s \o t)
         /\ Len(s) \in Nat /\ Len(t) \in Nat /\ Len(s \o t) = Len(s) + Len(t)
         /\ \A n \in 1..Len(s) : (s \o t)[n] = s[n]
         /\ \A n \in 1..Len(t) : (s \o t)[Len(s) + n] = t[n]
<1>1. PICK S, T : s \in Seq(S) /\ t \in Seq(T)
  BY DEF IsSeq
<1>2. PICK U : U = S \cup T
  OBVIOUS
<1>3. s \in Seq(U) /\ t \in Seq(U)
  <2>1. S \subseteq U /\ T \subseteq U
    BY <1>2
  <2> QED
    BY <1>1, <2>1
<1>4. s \o t \in Seq(U)
  BY <1>3
<1>5. Len(s) \in Nat /\ Len(t) \in Nat /\ Len(s \o t) = Len(s) + Len(t)
  BY <1>3
<1>6. \A n \in 1..Len(s) : (s \o t)[n] = s[n]
  BY <1>3
<1>7. \A n \in 1..Len(t) : (s \o t)[Len(s) + n] = t[n]
  BY <1>3
<1> QED
  BY <1>4, <1>5, <1>6, <1>7 DEF IsSeq

\* Concatenation is associative.
LEMMA Assoc ==
  ASSUME NEW s, NEW t, NEW u, IsSeq(s), IsSeq(t), IsSeq(u)
  PROVE  (s \o t) \o u = s \o (t \o u)
<1>1. PICK S, T, V : s \in Seq(S) /\ t \in Seq(T) /\ u \in Seq(V)
  BY DEF IsSeq
<1>2. PICK U : U = S \cup T \cup V
  OBVIOUS
<1>3. s \in Seq(U) /\ t \in Seq(U) /\ u \in Seq(U)
  <2>1. S \subseteq U /\ T \subseteq U /\ V \subseteq U
    BY <1>2
  <2> QED
    BY <1>1, <2>1
<1> QED
  BY <1>3, ConcatAssociative

\* The empty sequence.
LEMMA EmptySeqIs == IsSeq(<<>>) /\ Len(<<>>) = 0
<1>1. <<>> \in Seq({})
  OBVIOUS
<1> QED
  BY <1>1 DEF IsSeq

\* A sequence of one item.
LEMMA OneSeqIs ==
  ASSUME NEW x
  PROVE  IsSeq(<<x>>) /\ Len(<<x>>) = 1 /\ <<x>>[1] = x
<1>1. <<x>> \in Seq({x})
  OBVIOUS
<1> QED
  BY <1>1 DEF IsSeq

\* A sequence of two items.
LEMMA PairCat ==
  ASSUME NEW x, NEW y
  PROVE  <<x, y>> = <<x>> \o <<y>>
<1>1. PICK S : S = {x, y}
  OBVIOUS
<1>2. PICK s, t, u : s = <<x>> /\ t = <<y>> /\ u = <<x, y>>
  OBVIOUS
<1>3. /\ s \in Seq(S) /\ t \in Seq(S) /\ u \in Seq(S) /\ Len(u) = 2
      /\ Len(s) = 1 /\ Len(t) = 1 /\ s[1] = x /\ t[1] = y /\ u[1] = x /\ u[2] = y
  BY <1>1, <1>2
<1>4. PICK v : v = s \o t
  OBVIOUS
<1>5. v \in Seq(S) /\ Len(v) = 2 /\ v[1] = x /\ v[2] = y
  <2>1. IsSeq(s) /\ IsSeq(t)
    BY <1>3 DEF IsSeq
  <2>2. /\ Len(v) = Len(s) + Len(t)
        /\ \A n \in 1..Len(s) : v[n] = s[n]
        /\ \A n \in 1..Len(t) : v[Len(s) + n] = t[n]
    BY <1>4, <2>1, Cat
  <2>3. 1 \in 1..Len(s) /\ 1 \in 1..Len(t) /\ Len(s) + 1 = 2
    BY <1>3
  <2>4. v[1] = s[1] /\ v[Len(s) + 1] = t[1]
    BY <2>2, <2>3
  <2>5. v \in Seq(S)
    BY <1>3, <1>4
  <2> QED
    BY <1>3, <2>2, <2>3, <2>4, <2>5
<1>6. 1..2 = {1, 2}
  OBVIOUS
<1>7. u = v
  BY <1>3, <1>5, <1>6
<1> QED
  BY <1>2, <1>4, <1>7

\* The first item of a sequence and the others.
LEMMA TailIs ==
  ASSUME NEW s, IsSeq(s), s # <<>>
  PROVE  /\ IsSeq(Tail(s)) /\ Len(s) \in Nat /\ Len(s) >= 1 /\ Len(Tail(s)) = Len(s) - 1
         /\ Head(s) = s[1]
         /\ \A n \in 1..(Len(s) - 1) : Tail(s)[n] = s[n + 1]
<1>1. PICK S : s \in Seq(S)
  BY DEF IsSeq
<1>2. Tail(s) \in Seq(S)
  BY <1>1
<1>3. Len(s) \in Nat /\ Len(s) >= 1 /\ Len(Tail(s)) = Len(s) - 1 /\ Head(s) = s[1]
  BY <1>1
<1>4. \A n \in 1..(Len(s) - 1) : Tail(s)[n] = s[n + 1]
  BY <1>1
<1> QED
  BY <1>2, <1>3, <1>4 DEF IsSeq

\* Only the empty sequence has length 0.
LEMMA EmptyIff ==
  ASSUME NEW s, IsSeq(s)
  PROVE  /\ Len(s) \in Nat
         /\ s = <<>> <=> Len(s) = 0
BY DEF IsSeq

\* What comes first in a concatenation.
LEMMA HeadOfCat ==
  ASSUME NEW s, NEW t, IsSeq(s), IsSeq(t), s # <<>>
  PROVE  /\ s \o t # <<>> /\ IsSeq(Tail(s))
         /\ Head(s \o t) = s[1] /\ Tail(s \o t) = Tail(s) \o t
<1>1. PICK S, T : s \in Seq(S) /\ t \in Seq(T)
  BY DEF IsSeq
<1>2. PICK U : U = S \cup T
  OBVIOUS
<1>3. s \in Seq(U) /\ t \in Seq(U)
  <2>1. S \subseteq U /\ T \subseteq U
    BY <1>2
  <2> QED
    BY <1>1, <2>1
<1>4. PICK h, r : s = <<h>> \o r /\ r \in Seq(U) /\ h = s[1] /\ r = Tail(s)
  <2>1. Tail(s) \in Seq(U) /\ s[1] \in U /\ s = <<s[1]>> \o Tail(s)
    BY <1>3
  <2> QED
    BY <2>1
<1>5. h \in U
  BY <1>3, <1>4
<1>6. s \o t = <<h>> \o (r \o t)
  BY <1>3, <1>4, <1>5, ConcatAssociative
<1>7. r \o t \in Seq(U)
  BY <1>3, <1>4
<1>8. PICK q : q = r \o t
  OBVIOUS
<1>9. q \in Seq(U) /\ <<h>> \o q # <<>> /\ Head(<<h>> \o q) = h /\ Tail(<<h>> \o q) = q
  BY <1>5, <1>7, <1>8
<1> QED
  BY <1>4, <1>6, <1>8, <1>9 DEF IsSeq

\* The empty sequence is neutral.
LEMMA EmptyCat ==
  ASSUME NEW t, IsSeq(t)
  PROVE  <<>> \o t = t /\ t \o <<>> = t
BY DEF IsSeq

\* The operations of s erase blocks of N, and program each place of D, which has
\* none of them, once, with what it holds in G.
Loc(o) == <<o.blk, o.pos>>
Programs(o, D, G) == Loc(o) \in D /\ o = Write(o.blk, o.pos, G[o.blk][o.pos])
Realises(s, D, G, N) ==
  /\ IsSeq(s)
  /\ \A k \in 1..Len(s) :
       \/ s[k].op = "erase" /\ s[k].blk \in N
       \/ Programs(s[k], D, G)
  /\ \A k, m \in 1..Len(s) :
       Programs(s[k], D, G) /\ Programs(s[m], D, G) /\ Loc(s[k]) = Loc(s[m]) => k = m
  /\ \A x \in D : \E k \in 1..Len(s) : Programs(s[k], D, G) /\ Loc(s[k]) = x
  /\ D \subseteq (Block \ N) \X Pos

\* The kinds of places of D, and the block they are in.
OfKind(D, K) == \A x \in D : <<x[1], x[2][1]>> \in K

\* Two sequences of operations that program different places.
LEMMA RealisesCat ==
  ASSUME NEW s, NEW t, NEW D, NEW E, NEW G, NEW N,
         Realises(s, D, G, N), Realises(t, E, G, N), D \cap E = {}
  PROVE  Realises(s \o t, D \cup E, G, N)
<1>1. /\ IsSeq(s) /\ IsSeq(t)
      /\ D \subseteq (Block \ N) \X Pos /\ E \subseteq (Block \ N) \X Pos
  BY DEF Realises
<1>2. PICK u : u = s \o t
  OBVIOUS
<1>3. /\ IsSeq(u) /\ Len(s) \in Nat /\ Len(t) \in Nat /\ Len(u) = Len(s) + Len(t)
      /\ \A k \in 1..Len(s) : u[k] = s[k]
      /\ \A k \in 1..Len(t) : u[Len(s) + k] = t[k]
  BY <1>1, <1>2, Cat
<1>4. ASSUME NEW k \in 1..Len(u)
      PROVE  \/ k \in 1..Len(s) /\ u[k] = s[k]
             \/ k - Len(s) \in 1..Len(t) /\ u[k] = t[k - Len(s)]
  <2>1. CASE k \in 1..Len(s)
    BY <1>3, <2>1
  <2>2. CASE k \notin 1..Len(s)
    <3>1. k - Len(s) \in 1..Len(t) /\ Len(s) + (k - Len(s)) = k
      BY <1>1, <1>3, <2>2
    <3>2. u[k] = t[k - Len(s)]
      BY <1>3, <3>1
    <3> QED
      BY <3>1, <3>2
  <2> QED
    BY <2>1, <2>2
<1>5. ASSUME NEW k \in 1..Len(u)
      PROVE  \/ u[k].op = "erase" /\ u[k].blk \in N
             \/ Programs(u[k], D \cup E, G)
  <2>1. CASE k \in 1..Len(s) /\ u[k] = s[k]
    BY <2>1 DEF Realises, Programs
  <2>2. CASE k - Len(s) \in 1..Len(t) /\ u[k] = t[k - Len(s)]
    <3>1. \/ t[k - Len(s)].op = "erase" /\ t[k - Len(s)].blk \in N
          \/ Programs(t[k - Len(s)], E, G)
      BY <2>2 DEF Realises
    <3> QED
      BY <2>2, <3>1 DEF Programs
  <2> QED
    BY <1>4, <2>1, <2>2
<1>6. ASSUME NEW k \in 1..Len(u), Programs(u[k], D \cup E, G)
      PROVE  \/ k \in 1..Len(s) /\ u[k] = s[k] /\ Programs(s[k], D, G)
             \/ k - Len(s) \in 1..Len(t) /\ u[k] = t[k - Len(s)] /\ Programs(t[k - Len(s)], E, G)
  <2>1. u[k].op # "erase"
    BY <1>6 DEF Programs, Write
  <2>2. CASE k \in 1..Len(s) /\ u[k] = s[k]
    BY <2>1, <2>2 DEF Realises
  <2>3. CASE k - Len(s) \in 1..Len(t) /\ u[k] = t[k - Len(s)]
    <3>1. \/ t[k - Len(s)].op = "erase" /\ t[k - Len(s)].blk \in N
          \/ Programs(t[k - Len(s)], E, G)
      BY <2>3 DEF Realises
    <3> QED
      BY <2>1, <2>3, <3>1
  <2> QED
    BY <1>4, <2>2, <2>3
<1>7. ASSUME NEW k \in 1..Len(u), NEW m \in 1..Len(u), Programs(u[k], D \cup E, G),
             Programs(u[m], D \cup E, G), Loc(u[k]) = Loc(u[m])
      PROVE  k = m
  <2>1. CASE k \in 1..Len(s) /\ u[k] = s[k] /\ Programs(s[k], D, G)
    <3>1. m \in 1..Len(s) /\ u[m] = s[m] /\ Programs(s[m], D, G)
      BY <1>6, <1>7, <2>1 DEF Programs
    <3> QED
      BY <1>7, <2>1, <3>1 DEF Realises
  <2>2. CASE k - Len(s) \in 1..Len(t) /\ u[k] = t[k - Len(s)] /\ Programs(t[k - Len(s)], E, G)
    <3>1. m - Len(s) \in 1..Len(t) /\ u[m] = t[m - Len(s)] /\ Programs(t[m - Len(s)], E, G)
      BY <1>6, <1>7, <2>2 DEF Programs
    <3>2. PICK k1, m1 : k1 = k - Len(s) /\ m1 = m - Len(s)
      OBVIOUS
    <3>3. /\ k1 \in 1..Len(t) /\ m1 \in 1..Len(t) /\ Loc(t[k1]) = Loc(t[m1])
          /\ Programs(t[k1], E, G) /\ Programs(t[m1], E, G)
      BY <1>7, <2>2, <3>1, <3>2
    <3>4. k1 = m1
      BY <3>3 DEF Realises
    <3> QED
      BY <1>3, <3>2, <3>4
  <2> QED
    BY <1>6, <1>7, <2>1, <2>2
<1>8. ASSUME NEW x \in D \cup E
      PROVE  \E k \in 1..Len(u) : Programs(u[k], D \cup E, G) /\ Loc(u[k]) = x
  <2>1. CASE x \in D
    <3>1. PICK k \in 1..Len(s) : Programs(s[k], D, G) /\ Loc(s[k]) = x
      BY <2>1 DEF Realises
    <3>2. k \in 1..Len(u) /\ u[k] = s[k]
      BY <1>1, <1>3
    <3> QED
      BY <3>1, <3>2 DEF Programs
  <2>2. CASE x \in E
    <3>1. PICK k \in 1..Len(t) : Programs(t[k], E, G) /\ Loc(t[k]) = x
      BY <2>2 DEF Realises
    <3>2. Len(s) + k \in 1..Len(u) /\ u[Len(s) + k] = t[k]
      BY <1>1, <1>3
    <3> QED
      BY <3>1, <3>2 DEF Programs
  <2> QED
    BY <2>1, <2>2
<1>9. Realises(u, D \cup E, G, N)
  <2>1. D \cup E \subseteq (Block \ N) \X Pos
    BY <1>1
  <2> QED
    BY <1>3, <1>5, <1>7, <1>8, <2>1 DEF Realises
<1> QED
  BY <1>2, <1>9

\* Two sequences that program different kinds of places.
LEMMA RealisesBoth ==
  ASSUME NEW s, NEW t, NEW D, NEW E, NEW G, NEW N, NEW K, NEW L,
         Realises(s, D, G, N), Realises(t, E, G, N),
         OfKind(D, K), OfKind(E, L), K \cap L = {}
  PROVE  /\ Realises(s \o t, D \cup E, G, N)
         /\ OfKind(D \cup E, K \cup L)
<1>1. D \cap E = {}
  BY DEF OfKind
<1>3. OfKind(D \cup E, K \cup L)
  BY DEF OfKind
<1> QED
  BY <1>1, <1>3, RealisesCat

\* No operation at all.
LEMMA RealisesNone ==
  ASSUME NEW G, NEW N
  PROVE  Realises(<<>>, {}, G, N)
<1>1. \A k \in 1..0 : FALSE
  OBVIOUS
<1> QED
  BY <1>1, EmptySeqIs DEF Realises

\* One write.
LEMMA RealisesOne ==
  ASSUME NEW G, NEW N, NEW b \in Block, b \notin N, NEW p \in Pos, NEW v, v = G[b][p]
  PROVE  Realises(<<Write(b, p, v)>>, {<<b, p>>}, G, N)
<1>1. PICK s : s = <<Write(b, p, v)>>
  OBVIOUS
<1>2. IsSeq(s) /\ Len(s) = 1 /\ s[1] = Write(b, p, v)
  BY <1>1, OneSeqIs
<1>3. s[1].blk = b /\ s[1].pos = p /\ Loc(s[1]) = <<b, p>>
  BY <1>2 DEF Write, Loc
<1>4. \A k \in 1..1 : k = 1
  OBVIOUS
<1>5. 1 \in 1..1
  OBVIOUS
<1>6. Programs(s[1], {<<b, p>>}, G)
  BY <1>2, <1>3 DEF Programs
<1>7. Realises(s, {<<b, p>>}, G, N)
  BY <1>2, <1>3, <1>4, <1>5, <1>6 DEF Realises
<1> QED
  BY <1>1, <1>7

\* The items a to e of a kind.
Locs(b, kind, a, e) == {<<b, <<kind, k>>>> : k \in a..e}

\* The writes of a range of items of one kind.
LEMMA RealisesRange ==
  ASSUME NEW G, NEW N, NEW b \in Block, b \notin N, NEW kind, NEW a \in Nat, NEW n \in Nat,
         \A k \in a..(a + n - 1) : <<kind, k>> \in Pos,
         NEW s, s = [k \in 1..n |-> Write(b, <<kind, a + k - 1>>, G[b][<<kind, a + k - 1>>])]
  PROVE  Realises(s, Locs(b, kind, a, a + n - 1), G, N)
<1>0. PICK S : S = {s[k] : k \in 1..n}
  OBVIOUS
<1>1. s \in [1..n -> S]
  <2>1. \A k \in 1..n : s[k] \in S
    BY <1>0
  <2> QED
    BY <2>1
<1>2. IsSeq(s) /\ Len(s) = n
  BY <1>1, FunIsSeq
<1>3. ASSUME NEW k \in 1..n
      PROVE  /\ Loc(s[k]) = <<b, <<kind, a + k - 1>>>>
             /\ s[k] = Write(s[k].blk, s[k].pos, G[s[k].blk][s[k].pos])
             /\ a + k - 1 \in a..(a + n - 1)
  <2>1. s[k] = Write(b, <<kind, a + k - 1>>, G[b][<<kind, a + k - 1>>])
    OBVIOUS
  <2>2. s[k].blk = b /\ s[k].pos = <<kind, a + k - 1>>
    BY <2>1 DEF Write
  <2>3. a + k - 1 \in a..(a + n - 1)
    OBVIOUS
  <2> QED
    BY <2>1, <2>2, <2>3 DEF Loc
<1>4. \A k \in 1..n : Programs(s[k], Locs(b, kind, a, a + n - 1), G)
  BY <1>3 DEF Locs, Programs
<1>5. ASSUME NEW k \in 1..n, NEW m \in 1..n, Loc(s[k]) = Loc(s[m]) PROVE k = m
  <2>1. <<b, <<kind, a + k - 1>>>> = <<b, <<kind, a + m - 1>>>>
    BY <1>3, <1>5
  <2>2. a + k - 1 = a + m - 1
    BY <2>1
  <2> QED
    BY <2>2
<1>6. ASSUME NEW x \in Locs(b, kind, a, a + n - 1) PROVE \E k \in 1..n : Loc(s[k]) = x
  <2>1. PICK i \in a..(a + n - 1) : x = <<b, <<kind, i>>>>
    BY DEF Locs
  <2>2. i - a + 1 \in 1..n /\ a + (i - a + 1) - 1 = i
    OBVIOUS
  <2>3. Loc(s[i - a + 1]) = <<b, <<kind, a + (i - a + 1) - 1>>>>
    BY <1>3, <2>2
  <2> QED
    BY <2>1, <2>2, <2>3
<1>7. Locs(b, kind, a, a + n - 1) \subseteq (Block \ N) \X Pos
  BY DEF Locs
<1> QED
  BY <1>2, <1>4, <1>5, <1>6, <1>7 DEF Realises

\* The items of a range are of its kind.
LEMMA LocsKind ==
  ASSUME NEW b, NEW kind, NEW a, NEW e
  PROVE  OfKind(Locs(b, kind, a, e), {<<b, kind>>})
BY DEF OfKind, Locs

\* What is left after the first operation.
LEMMA RealisesTail ==
  ASSUME NEW s, NEW D, NEW G, NEW N, Realises(s, D, G, N), s # <<>>
  PROVE  \/ s[1].op = "erase" /\ s[1].blk \in N /\ Realises(Tail(s), D, G, N)
         \/ Programs(s[1], D, G) /\ Realises(Tail(s), D \ {Loc(s[1])}, G, N)
<1>1. IsSeq(s) /\ Len(s) \in Nat /\ Len(s) # 0
  BY EmptyIff DEF Realises
<1>2. PICK t : t = Tail(s)
  OBVIOUS
<1>3. /\ IsSeq(t) /\ Len(t) = Len(s) - 1
      /\ \A k \in 1..(Len(s) - 1) : t[k] = s[k + 1]
  BY <1>1, <1>2, TailIs
<1>4. \A k \in 1..Len(t) : t[k] = s[k + 1] /\ k + 1 \in 1..Len(s) /\ k + 1 # 1
  BY <1>1, <1>3
<1>5. 1 \in 1..Len(s)
  BY <1>1, <1>3
<1>6. \A k \in 1..Len(s) : k = 1 \/ (k - 1 \in 1..Len(t) /\ t[k - 1] = s[k])
  <2>1. ASSUME NEW k \in 1..Len(s), k # 1
        PROVE  k - 1 \in 1..Len(t) /\ (k - 1) + 1 = k
    BY <1>1, <1>3, <2>1
  <2> QED
    BY <1>4, <2>1
<1>7. CASE s[1].op = "erase" /\ s[1].blk \in N
  <2>1. ~Programs(s[1], D, G)
    BY <1>7 DEF Programs, Write
  <2>2. ASSUME NEW k \in 1..Len(t)
        PROVE  \/ t[k].op = "erase" /\ t[k].blk \in N
               \/ Programs(t[k], D, G)
    BY <1>4 DEF Realises
  <2>3. ASSUME NEW k \in 1..Len(t), NEW m \in 1..Len(t), Programs(t[k], D, G),
               Programs(t[m], D, G), Loc(t[k]) = Loc(t[m])
        PROVE  k = m
    <3>1. k + 1 = m + 1
      BY <1>4, <2>3 DEF Realises
    <3> QED
      BY <3>1
  <2>4. ASSUME NEW x \in D PROVE \E k \in 1..Len(t) : Programs(t[k], D, G) /\ Loc(t[k]) = x
    <3>1. PICK k \in 1..Len(s) : Programs(s[k], D, G) /\ Loc(s[k]) = x
      BY DEF Realises
    <3>2. k # 1
      BY <2>1, <3>1
    <3> QED
      BY <1>6, <3>1, <3>2
  <2>5. Realises(t, D, G, N)
    BY <1>3, <2>2, <2>3, <2>4 DEF Realises
  <2> QED
    BY <1>2, <1>7, <2>5
<1>8. CASE Programs(s[1], D, G)
  <2> DEFINE E == D \ {Loc(s[1])}
  <2>1. ASSUME NEW k \in 1..Len(t), Programs(t[k], D, G) PROVE Programs(t[k], E, G)
    <3>1. Loc(s[k + 1]) # Loc(s[1])
      BY <1>4, <1>5, <1>8, <2>1 DEF Realises
    <3> QED
      BY <1>4, <2>1, <3>1 DEF Programs
  <2>2. ASSUME NEW k \in 1..Len(t)
        PROVE  \/ t[k].op = "erase" /\ t[k].blk \in N
               \/ Programs(t[k], E, G)
    <3>1. \/ t[k].op = "erase" /\ t[k].blk \in N
          \/ Programs(t[k], D, G)
      BY <1>4 DEF Realises
    <3> QED
      BY <2>1, <3>1
  <2>3. ASSUME NEW k \in 1..Len(t), NEW m \in 1..Len(t), Programs(t[k], E, G),
               Programs(t[m], E, G), Loc(t[k]) = Loc(t[m])
        PROVE  k = m
    <3>1. Programs(t[k], D, G) /\ Programs(t[m], D, G)
      BY <2>3 DEF Programs
    <3>2. k + 1 = m + 1
      BY <1>4, <2>3, <3>1 DEF Realises
    <3> QED
      BY <3>2
  <2>4. ASSUME NEW x \in E PROVE \E k \in 1..Len(t) : Programs(t[k], E, G) /\ Loc(t[k]) = x
    <3>1. PICK k \in 1..Len(s) : Programs(s[k], D, G) /\ Loc(s[k]) = x
      BY DEF Realises
    <3>2. k # 1
      BY <3>1
    <3>3. k - 1 \in 1..Len(t) /\ t[k - 1] = s[k]
      BY <1>6, <3>2
    <3> QED
      BY <2>1, <3>1, <3>3
  <2>5. E \subseteq (Block \ N) \X Pos
    BY DEF Realises
  <2>6. Realises(t, E, G, N)
    <3> HIDE DEF E
    <3> QED
      BY <1>3, <2>2, <2>3, <2>4, <2>5 DEF Realises
  <2> QED
    BY <1>2, <1>8, <2>6
<1> QED
  BY <1>5, <1>7, <1>8 DEF Realises
-----------------------------------------------------------------------------
(* The content of the flash *)

\* A content of the device.
IsFlash(F) == \E V : F \in [Block -> [Pos -> V]]

\* What an operation makes of the flash.
Effect(F, o) ==
  IF o.op = "write" THEN [F EXCEPT ![o.blk][o.pos] = o.val]
  ELSE IF o.op = "erase" THEN [F EXCEPT ![o.blk] = WithoutSector(@, o.pos)]
  ELSE F

\* The flash is what its items are.
LEMMA FlashEq ==
  ASSUME NEW F, NEW H, IsFlash(F), IsFlash(H), \A b \in Block, p \in Pos : F[b][p] = H[b][p]
  PROVE  F = H
<1>1. PICK V, W : F \in [Block -> [Pos -> V]] /\ H \in [Block -> [Pos -> W]]
  BY DEF IsFlash
<1>2. ASSUME NEW b \in Block PROVE F[b] = H[b]
  <2>1. F[b] \in [Pos -> V] /\ H[b] \in [Pos -> W]
    BY <1>1
  <2>2. \A p \in Pos : F[b][p] = H[b][p]
    OBVIOUS
  <2> QED
    BY <2>1, <2>2
<1> QED
  BY <1>1, <1>2

\* A write changes one item.
LEMMA EffectWrite ==
  ASSUME NEW F, IsFlash(F), NEW b \in Block, NEW p \in Pos, NEW v,
         NEW H, H = Effect(F, Write(b, p, v))
  PROVE  /\ IsFlash(H) /\ H[b][p] = v
         /\ \A b2 \in Block, p2 \in Pos : <<b2, p2>> # <<b, p>> => H[b2][p2] = F[b2][p2]
<1>1. PICK V : F \in [Block -> [Pos -> V]]
  BY DEF IsFlash
<1>2. H = [F EXCEPT ![b][p] = v]
  BY DEF Effect, Write
<1>3. PICK W : W = V \cup {v}
  OBVIOUS
<1>4. V \subseteq W /\ v \in W
  BY <1>3
<1>5. H \in [Block -> [Pos -> W]]
  <2>1. F \in [Block -> [Pos -> W]]
    BY <1>1, <1>4
  <2> QED
    BY <1>2, <1>4, <2>1
<1> QED
  BY <1>1, <1>2, <1>5 DEF IsFlash

\* An erase operation clears one sector.
LEMMA EffectErase ==
  ASSUME NEW F, IsFlash(F), NEW o, o.op = "erase", o.blk \in Block,
         NEW H, H = Effect(F, o)
  PROVE  /\ IsFlash(H)
         /\ \A b \in Block, p \in Pos :
              H[b][p] = IF b = o.blk /\ Sector(p) = o.pos THEN ERASED ELSE F[b][p]
<1>1. PICK V : F \in [Block -> [Pos -> V]]
  BY DEF IsFlash
<1>2. PICK x, s : x = o.blk /\ s = o.pos
  OBVIOUS
<1>3. H = [F EXCEPT ![x] = WithoutSector(F[x], s)]
  BY <1>2 DEF Effect
<1>4. PICK W : W = V \cup {ERASED}
  OBVIOUS
<1>5. V \subseteq W /\ ERASED \in W
  BY <1>4
<1>6. WithoutSector(F[x], s) \in [Pos -> W]
  BY <1>1, <1>2, <1>5 DEF WithoutSector
<1>7. F \in [Block -> [Pos -> W]]
  BY <1>1, <1>5
<1>8. H \in [Block -> [Pos -> W]]
  BY <1>3, <1>6, <1>7
<1>9. ASSUME NEW b \in Block, NEW p \in Pos
      PROVE  H[b][p] = IF b = x /\ Sector(p) = s THEN ERASED ELSE F[b][p]
  <2>1. CASE b = x
    <3>1. H[b] = WithoutSector(F[x], s)
      BY <1>3, <1>7, <2>1
    <3> QED
      BY <2>1, <3>1 DEF WithoutSector
  <2>2. CASE b # x
    BY <1>3, <1>7, <2>2
  <2> QED
    BY <2>1, <2>2
<1> QED
  BY <1>2, <1>8, <1>9 DEF IsFlash
-----------------------------------------------------------------------------
(* Erasing *)

\* The operations e erase blocks of S, and what is not erased in them is still
\* to be erased.
Erases(e, S) ==
  /\ IsSeq(e) /\ S \subseteq Block
  /\ \A k \in 1..Len(e) : \E b \in S, s \in {0, 1} : e[k] = EraseSector(b, s)
Erasing(e, F, S) ==
  /\ Erases(e, S)
  /\ \A b \in S, p \in Pos :
       F[b][p] = ERASED \/ \E k \in 1..Len(e) : e[k] = EraseSector(b, Sector(p))
\* They erase every block of S.
Covers(e, S) ==
  /\ Erases(e, S)
  /\ \A b \in S, s \in {0, 1} : \E k \in 1..Len(e) : e[k] = EraseSector(b, s)

\* Operations that cover a set of blocks erase them, whatever they hold.
LEMMA CoversAll ==
  ASSUME NEW e, NEW S, Covers(e, S), NEW F
  PROVE  Erasing(e, F, S)
<1>1. \A p : Sector(p) \in {0, 1}
  BY DEF Sector
<1> QED
  BY <1>1 DEF Covers, Erasing

\* its_flash_nor_erase() covers its block.
LEMMA CoversErase ==
  ASSUME NEW b \in Block
  PROVE  Covers(Erase(b), {b})
<1>1. PICK e : e = Erase(b)
  OBVIOUS
<1>2. e \in Seq({EraseSector(b, 0), EraseSector(b, 1)}) /\ Len(e) = 2
        /\ e[1] = EraseSector(b, 0) /\ e[2] = EraseSector(b, 1)
  BY <1>1 DEF Erase
<1>3. IsSeq(e)
  BY <1>2 DEF IsSeq
<1>4. 1..2 = {1, 2}
  OBVIOUS
<1> QED
  BY <1>1, <1>2, <1>3, <1>4 DEF Covers, Erases

\* Covering one set of blocks and then another covers both.
LEMMA CoversCat ==
  ASSUME NEW e, NEW g, NEW S, NEW T, Covers(e, S), Covers(g, T)
  PROVE  Covers(e \o g, S \cup T)
<1>1. IsSeq(e) /\ IsSeq(g) /\ S \cup T \subseteq Block
  BY DEF Covers, Erases
<1>2. PICK u : u = e \o g
  OBVIOUS
<1>3. /\ IsSeq(u) /\ Len(e) \in Nat /\ Len(g) \in Nat /\ Len(u) = Len(e) + Len(g)
      /\ \A k \in 1..Len(e) : u[k] = e[k]
      /\ \A k \in 1..Len(g) : u[Len(e) + k] = g[k]
  BY <1>1, <1>2, Cat
<1>4. ASSUME NEW k \in 1..Len(u) PROVE \E b \in S \cup T, s \in {0, 1} : u[k] = EraseSector(b, s)
  <2>1. CASE k \in 1..Len(e)
    <3>1. \E b \in S, s \in {0, 1} : e[k] = EraseSector(b, s)
      BY <2>1 DEF Covers, Erases
    <3> QED
      BY <1>3, <2>1, <3>1
  <2>2. CASE k \notin 1..Len(e)
    <3>1. PICK j : j = k - Len(e)
      OBVIOUS
    <3>2. j \in 1..Len(g) /\ k = Len(e) + j
      BY <1>3, <2>2, <3>1
    <3>3. u[k] = g[j]
      BY <1>3, <3>2
    <3> QED
      BY <3>2, <3>3 DEF Covers, Erases
  <2> QED
    BY <2>1, <2>2
<1>5. ASSUME NEW b \in S \cup T, NEW s \in {0, 1}
      PROVE  \E k \in 1..Len(u) : u[k] = EraseSector(b, s)
  <2>1. CASE b \in S
    <3>1. PICK k \in 1..Len(e) : e[k] = EraseSector(b, s)
      BY <2>1 DEF Covers
    <3>2. k \in 1..Len(u) /\ u[k] = e[k]
      BY <1>3
    <3> QED
      BY <3>1, <3>2
  <2>2. CASE b \in T
    <3>1. PICK k \in 1..Len(g) : g[k] = EraseSector(b, s)
      BY <2>2 DEF Covers
    <3>2. Len(e) + k \in 1..Len(u) /\ u[Len(e) + k] = g[k]
      BY <1>3
    <3> QED
      BY <3>1, <3>2
  <2> QED
    BY <2>1, <2>2
<1> QED
  BY <1>1, <1>2, <1>3, <1>4, <1>5 DEF Covers, Erases

\* A step of an erasure touches none but its blocks.
LEMMA ErasingStep ==
  ASSUME NEW e, NEW F, NEW S, Erasing(e, F, S), e # <<>>, IsFlash(F),
         NEW H, H = Effect(F, e[1])
  PROVE  /\ e[1].op = "erase" /\ e[1].blk \in S
         /\ IsFlash(H) /\ Erasing(Tail(e), H, S)
         /\ \A b \in Block, p \in Pos :
              /\ b \notin S => H[b][p] = F[b][p]
              /\ H[b][p] = F[b][p] \/ H[b][p] = ERASED
<1>1. IsSeq(e) /\ S \subseteq Block
  BY DEF Erasing, Erases
<1>2. PICK t : t = Tail(e)
  OBVIOUS
<1>3. /\ IsSeq(t) /\ Len(e) \in Nat /\ Len(e) >= 1 /\ Len(t) = Len(e) - 1
      /\ \A k \in 1..(Len(e) - 1) : t[k] = e[k + 1]
  BY <1>1, <1>2, TailIs
<1>4. PICK x \in S, s \in {0, 1} : e[1] = EraseSector(x, s)
  BY <1>3 DEF Erasing, Erases
<1>5. e[1].op = "erase" /\ e[1].blk = x /\ e[1].pos = s /\ x \in Block
  BY <1>1, <1>4 DEF EraseSector
<1>6. /\ IsFlash(H)
      /\ \A b \in Block, p \in Pos :
           H[b][p] = IF b = x /\ Sector(p) = s THEN ERASED ELSE F[b][p]
  BY <1>5, EffectErase
<1>7. \A k \in 1..Len(t) : t[k] = e[k + 1] /\ k + 1 \in 1..Len(e)
  BY <1>3
<1>8. \A k \in 1..Len(e) : k = 1 \/ (k - 1 \in 1..Len(t) /\ t[k - 1] = e[k])
  <2>1. ASSUME NEW k \in 1..Len(e), k # 1
        PROVE  k - 1 \in 1..Len(t) /\ (k - 1) + 1 = k
    BY <1>3, <2>1
  <2> QED
    BY <1>7, <2>1
<1>9. Erases(t, S)
  BY <1>1, <1>3, <1>7 DEF Erasing, Erases
<1>10. ASSUME NEW b \in S, NEW p \in Pos
       PROVE  H[b][p] = ERASED \/ \E k \in 1..Len(t) : t[k] = EraseSector(b, Sector(p))
  <2>1. CASE F[b][p] = ERASED
    BY <1>1, <1>6, <2>1
  <2>2. CASE \E k \in 1..Len(e) : e[k] = EraseSector(b, Sector(p))
    <3>1. PICK k \in 1..Len(e) : e[k] = EraseSector(b, Sector(p))
      BY <2>2
    <3>2. CASE k = 1
      <4>1. b = x /\ Sector(p) = s
        BY <1>4, <3>1, <3>2 DEF EraseSector
      <4> QED
        BY <1>1, <1>6, <4>1
    <3>3. CASE k # 1
      BY <1>8, <3>1, <3>3
    <3> QED
      BY <3>2, <3>3
  <2> QED
    BY <2>1, <2>2 DEF Erasing
<1>11. Erasing(t, H, S)
  BY <1>9, <1>10 DEF Erasing
<1> QED
  BY <1>2, <1>5, <1>6, <1>11

\* When no operation is left the blocks are erased.
LEMMA ErasingDone ==
  ASSUME NEW F, NEW S, Erasing(<<>>, F, S), IsFlash(F), NEW b \in S
  PROVE  F[b] = Blank
<1>1. PICK V : F \in [Block -> [Pos -> V]]
  BY DEF IsFlash
<1>2. b \in Block
  BY DEF Erasing, Erases
<1>3. Len(<<>>) = 0 /\ \A k \in 1..0 : FALSE
  OBVIOUS
<1>4. \A p \in Pos : F[b][p] = ERASED
  BY <1>3 DEF Erasing
<1>5. F[b] \in [Pos -> V] /\ Blank \in [Pos -> {ERASED}] /\ \A p \in Pos : Blank[p] = ERASED
  BY <1>1, <1>2 DEF Blank
<1> QED
  BY <1>4, <1>5
-----------------------------------------------------------------------------
(* Programming *)

\* The flash is what it is to be (G), except where the operations to come program
\* it (D), which is erased, and but for the blocks that they erase (N).
Holds(F, D, G, N) ==
  \A b \in Block \ N, p \in Pos :
    F[b][p] = IF <<b, p>> \in D THEN ERASED ELSE G[b][p]

\* A step that programs finds its place erased, and leaves the rest of the places.
LEMMA ProgramStep ==
  ASSUME NEW w, NEW D, NEW G, NEW N, NEW F, Realises(w, D, G, N), w # <<>>, IsFlash(F),
         N \subseteq Block, Holds(F, D, G, N), NEW H, H = Effect(F, w[1])
  PROVE  /\ w[1].op # "ctx"
         /\ w[1].op = "write" => F[w[1].blk][w[1].pos] = ERASED
         /\ IsFlash(H)
         /\ \E E \in SUBSET D :
              /\ Realises(Tail(w), E, G, N) /\ Holds(H, E, G, N)
              /\ \A b \in Block, p \in Pos : b \notin N /\ <<b, p>> \notin D => H[b][p] = F[b][p]
<1>1. CASE w[1].op = "erase" /\ w[1].blk \in N /\ Realises(Tail(w), D, G, N)
  <2>1. /\ IsFlash(H)
        /\ \A b \in Block, p \in Pos :
             H[b][p] = IF b = w[1].blk /\ Sector(p) = w[1].pos THEN ERASED ELSE F[b][p]
    BY <1>1, EffectErase
  <2>2. \A b \in Block \ N, p \in Pos : H[b][p] = F[b][p]
    BY <1>1, <2>1
  <2>3. Holds(H, D, G, N)
    BY <2>2 DEF Holds
  <2> QED
    BY <1>1, <2>1, <2>2, <2>3
<1>2. CASE Programs(w[1], D, G) /\ Realises(Tail(w), D \ {Loc(w[1])}, G, N)
  <2>1. PICK b, p : b = w[1].blk /\ p = w[1].pos
    OBVIOUS
  <2>2. Loc(w[1]) = <<b, p>> /\ w[1] = Write(b, p, G[b][p]) /\ <<b, p>> \in D
    BY <1>2, <2>1 DEF Programs, Loc
  <2>3. b \in Block \ N /\ p \in Pos
    BY <2>2 DEF Realises
  <2>4. /\ IsFlash(H) /\ H[b][p] = G[b][p]
        /\ \A b2 \in Block, p2 \in Pos : <<b2, p2>> # <<b, p>> => H[b2][p2] = F[b2][p2]
    <3>1. PICK v : v = G[b][p]
      OBVIOUS
    <3>2. H = Effect(F, Write(b, p, v))
      BY <2>2, <3>1
    <3>3. b \in Block
      BY <2>3
    <3> QED
      BY <2>3, <3>1, <3>2, <3>3, EffectWrite
  <2>5. Holds(H, D \ {<<b, p>>}, G, N)
    <3>1. ASSUME NEW b2 \in Block \ N, NEW p2 \in Pos
          PROVE  H[b2][p2] = IF <<b2, p2>> \in D \ {<<b, p>>} THEN ERASED ELSE G[b2][p2]
      <4>1. CASE <<b2, p2>> = <<b, p>>
        <5>1. b2 = b /\ p2 = p
          BY <4>1
        <5> QED
          BY <2>4, <5>1
      <4>2. CASE <<b2, p2>> # <<b, p>>
        <5>1. H[b2][p2] = F[b2][p2]
          BY <2>4, <4>2
        <5>2. F[b2][p2] = IF <<b2, p2>> \in D THEN ERASED ELSE G[b2][p2]
          BY DEF Holds
        <5> QED
          BY <4>2, <5>1, <5>2
      <4> QED
        BY <4>1, <4>2
    <3> QED
      BY <3>1 DEF Holds
  <2>6. F[b][p] = ERASED
    BY <2>2, <2>3 DEF Holds
  <2>7. w[1].op = "write"
    BY <2>2 DEF Write
  <2>8. D \ {<<b, p>>} \in SUBSET D
    OBVIOUS
  <2>9. \A b2 \in Block, p2 \in Pos : b2 \notin N /\ <<b2, p2>> \notin D => H[b2][p2] = F[b2][p2]
    <3>1. \A b2 \in Block, p2 \in Pos : <<b2, p2>> \notin D => <<b2, p2>> # <<b, p>>
      BY <2>2
    <3> QED
      BY <2>4, <3>1
  <2>10. Realises(Tail(w), D \ {<<b, p>>}, G, N)
    BY <1>2, <2>2
  <2>11. w[1].op # "ctx" /\ (w[1].op = "write" => F[w[1].blk][w[1].pos] = ERASED) /\ IsFlash(H)
    BY <2>1, <2>4, <2>6, <2>7
  <2> QED
    BY <2>5, <2>8, <2>9, <2>10, <2>11
<1> QED
  BY <1>1, <1>2, RealisesTail
-----------------------------------------------------------------------------
(* Contexts and layouts *)

\* The tables that a metadata block holds.
BlocksOf(F, c) == [l \in LBlock |-> F[c.active][BLOCK(l)]]
FilesOf(F, c) == [i \in FileIdx |-> F[c.active][FILE(i)]]

BlockMetas == [phy_id: Block, data_start: Nat, free_size: Nat]
FileMetas == [id: Fid \cup {NULL}, lblock: LBlock, data_idx: Nat, cur_size: Nat,
              max_size: Nat, once: BOOLEAN]

\* The files of a table, those of a logical block, and those before another one
\* in its block; what files reserve; where data starts in a logical block.
Used(M) == {i \in FileIdx : M[i].id # NULL}
In(M, l) == {i \in Used(M) : M[i].lblock = l}
Before(M, i) == {j \in In(M, M[i].lblock) : M[j].data_idx < M[i].data_idx}
Taken(M, S) == SumFunctionOnSet([j \in FileIdx |-> M[j].max_size], S)
DataFrom(l) == IF l = 0 THEN DataStart ELSE 0

\* A context, and the blocks that are scratch in it.
IsCtx(c) ==
  /\ c \in [active: MetaBlock, scratch: MetaBlock, dblock: Nat, count: 0..(EraseVal - 1)]
  /\ c.scratch = 1 - c.active
  /\ NumBlocks > 2 => c.dblock \in 2..(NumBlocks - 1)
Spare(c) == {c.scratch} \cup (IF NumBlocks > 2 THEN {c.dblock} ELSE {})

\* The types of the tables.
Tables(B, M) == B \in [LBlock -> BlockMetas] /\ M \in [FileIdx -> FileMetas]

\* Each logical block has its physical block.
Placed(c, B, M) ==
  /\ \A l \in LBlock : B[l].data_start = DataFrom(l)
  /\ In(M, 0) # {} => B[0].phy_id = c.active
  /\ \A l \in LBlock \ {0} :
       /\ B[l].phy_id \in 2..(NumBlocks - 1) /\ B[l].phy_id # c.dblock
       /\ \A m \in LBlock \ {0, l} : B[m].phy_id # B[l].phy_id

\* Its files lie behind each other.
Packed(B, M) ==
  /\ \A l \in LBlock : DataFrom(l) + Taken(M, In(M, l)) + B[l].free_size = BlockSize
  /\ \A i \in Used(M) :
       /\ M[i].max_size > 0 /\ M[i].cur_size <= M[i].max_size
       /\ M[i].data_idx = DataFrom(M[i].lblock) + Taken(M, Before(M, i))
       /\ \A j \in Used(M) \ {i} :
            /\ M[j].id # M[i].id
            /\ M[j].lblock = M[i].lblock => M[j].data_idx # M[i].data_idx

\* The asset of the file with index i.
AssetType == [data: Seq(Fid \X Val \X Nat), cap: Nat, once: BOOLEAN]
AssetAt(F, B, M, i) ==
  [data |-> [k \in 1..M[i].cur_size |-> F[B[M[i].lblock].phy_id][CELL(M[i].data_idx + k - 1)]],
   cap |-> M[i].max_size, once |-> M[i].once]
Typed(F, B, M) == \A i \in Used(M) : AssetAt(F, B, M, i) \in AssetType

\* The assets of all files.
AssetsIn(F, B, M) ==
  [f \in Fid |-> IF \A i \in FileIdx : M[i].id # f THEN NULL
                 ELSE AssetAt(F, B, M, Min({i \in FileIdx : M[i].id = f}))]
AssetsOf(F, c) == AssetsIn(F, BlocksOf(F, c), FilesOf(F, c))

\* The tables B and M describe a sound layout of the flash.
Layout(F, c, B, M) == Tables(B, M) /\ Placed(c, B, M) /\ Packed(B, M) /\ Typed(F, B, M)

\* c is the context that a reset would find in the flash F.
Sound(F, c) ==
  /\ IsCtx(c)
  /\ F[c.active][HEADER] = c.dblock /\ F[c.active][COUNT] = c.count
  /\ Layout(F, c, BlocksOf(F, c), FilesOf(F, c))
Older(F, c) ==
  LET n == F[c.scratch][COUNT]
  IN n = ERASED \/ (n \in 0..(EraseVal - 1) /\ c.count = NextCount(n))
Current(F, c) == Sound(F, c) /\ Older(F, c)

\* ValidMeta, RecoveredCtx and Stored as functions of the flash.
ValidOf(F) == {b \in MetaBlock : F[b][HEADER] # ERASED /\ F[b][COUNT] # ERASED}
ActiveOf(F) ==
  IF ValidOf(F) = MetaBlock
    THEN its_mblock_latest_meta_block(F[0][COUNT], F[1][COUNT])
    ELSE CHOOSE b \in ValidOf(F) : TRUE
RecoveredOf(F) ==
  [active |-> ActiveOf(F), scratch |-> 1 - ActiveOf(F),
   dblock |-> F[ActiveOf(F)][HEADER], count |-> F[ActiveOf(F)][COUNT]]
StoredOf(F) ==
  IF ValidOf(F) = {} THEN [f \in Fid |-> NULL] ELSE AssetsOf(F, RecoveredOf(F))

\* What is assumed of the constants.
LEMMA Constants ==
  /\ NumBlocks \in Nat /\ (NumBlocks = 2 \/ NumBlocks >= 4)
  /\ BlockSize \in Nat /\ DataStart \in Nat /\ DataStart <= BlockSize
  /\ MaxFiles \in Nat /\ MaxFiles >= 1
  /\ MaxFileSize \in Nat /\ MaxFileSize <= BlockSize
  /\ EraseVal \in Nat /\ EraseVal >= 3
  /\ Buf \in Nat /\ Buf >= 1
  /\ Lens \subseteq Nat
  /\ ERASED \notin Nat /\ NULL \notin Fid
BY ItsAssumption

\* The blocks of the device and the logical blocks.
LEMMA Blocks ==
  /\ 0 \in Block /\ 1 \in Block /\ MetaBlock = {0, 1} /\ MetaBlock \subseteq Block
  /\ \A b \in 2..(NumBlocks - 1) : b \in Block /\ b \notin MetaBlock
  /\ 0 \in LBlock
  /\ \A l \in LBlock : l \in Nat /\ (l # 0 => NumBlocks > 2)
  /\ NumBlocks > 2 => LBlock = 0..(NumBlocks - 3)
  /\ NumBlocks = 2 => LBlock = {0}
  /\ its_num_active_dblocks \in Nat /\ LBlock = 0..(its_num_active_dblocks - 1)
  /\ its_num_active_dblocks >= 1
BY Constants DEF Block, MetaBlock, LBlock, its_num_active_dblocks, its_num_dedicated_dblocks,
   its_init_dblock_start

\* The places of a block.
LEMMA Places ==
  /\ HEADER \in Pos /\ COUNT \in Pos
  /\ \A l \in LBlock : BLOCK(l) \in Pos
  /\ \A i \in FileIdx : FILE(i) \in Pos
  /\ \A k \in 0..(BlockSize - 1) : CELL(k) \in Pos
  /\ \A p \in Pos : \/ p = HEADER \/ p = COUNT
                    \/ \E l \in LBlock : p = BLOCK(l)
                    \/ \E i \in FileIdx : p = FILE(i)
                    \/ \E k \in 0..(BlockSize - 1) : p = CELL(k)
BY DEF Pos

\* The scratch blocks are blocks of the device, and not the active one.
LEMMA SpareBlocks ==
  ASSUME NEW c, IsCtx(c)
  PROVE  /\ Spare(c) \subseteq Block /\ c.active \in Block /\ c.active \notin Spare(c)
         /\ c.scratch \in Block /\ c.scratch \in Spare(c) /\ c.active # c.scratch
         /\ c.active \in {0, 1} /\ c.scratch \in {0, 1}
         /\ NumBlocks > 2 => c.dblock \in Spare(c) /\ c.dblock \in Block /\ c.dblock \notin {0, 1}
BY Constants, Blocks DEF IsCtx, Spare, MetaBlock

\* A layout has no spare block.
LEMMA NotSpare ==
  ASSUME NEW c, NEW B, NEW M, IsCtx(c), Tables(B, M), Placed(c, B, M), NEW i \in Used(M)
  PROVE  /\ M[i].lblock \in LBlock /\ i \in In(M, M[i].lblock)
         /\ B[M[i].lblock].phy_id \in Block \ Spare(c)
<1>1. M[i] \in FileMetas /\ M[i].lblock \in LBlock /\ i \in In(M, M[i].lblock)
  BY DEF Tables, Used, In, FileMetas
<1>2. PICK l : l = M[i].lblock
  OBVIOUS
<1>3. CASE l = 0
  BY <1>1, <1>2, <1>3, SpareBlocks DEF Placed
<1>4. CASE l # 0
  <2>1. B[l].phy_id \in 2..(NumBlocks - 1) /\ B[l].phy_id # c.dblock
    BY <1>1, <1>2, <1>4 DEF Placed
  <2>2. c.scratch \in {0, 1}
    BY SpareBlocks
  <2> QED
    BY <1>1, <1>2, <2>1, <2>2, Constants, Blocks DEF Spare
<1> QED
  BY <1>1, <1>2, <1>3, <1>4

\* What files reserve is a number, and adds up.
LEMMA RoomNat ==
  ASSUME NEW B, NEW M, Tables(B, M), NEW S \in SUBSET FileIdx
  PROVE  /\ IsFiniteSet(S) /\ IsFiniteSet(FileIdx) /\ Taken(M, S) \in Nat
         /\ \A T \in SUBSET S : Taken(M, S) = Taken(M, T) + Taken(M, S \ T)
                                  /\ Taken(M, T) <= Taken(M, S) /\ Taken(M, T) \in Nat
                                  /\ Taken(M, S \ T) \in Nat
         /\ \A i \in S : Taken(M, S) = M[i].max_size + Taken(M, S \ {i})
         /\ Taken(M, {}) = 0
<1>1. IsFiniteSet(FileIdx)
  BY Constants, FS_Interval DEF FileIdx
<1>2. IsFiniteSet(S)
  BY <1>1, FS_Subset
<1>3. PICK f : f = [j \in FileIdx |-> M[j].max_size]
  OBVIOUS
<1>4. \A j \in FileIdx : f[j] \in Nat /\ f[j] = M[j].max_size
  BY <1>3 DEF Tables, FileMetas
<1>5. \A j \in S : f[j] \in Nat
  BY <1>4
<1>6. \A T : Taken(M, T) = SumFunctionOnSet(f, T)
  BY <1>3 DEF Taken
<1>7. \A i \in S : SumFunctionOnSet(f, S) = f[i] + SumFunctionOnSet(f, S \ {i})
  BY <1>2, <1>5, SumRemove
<1>8. SumFunctionOnSet(f, S) \in Nat
  BY <1>2, <1>5, SumNat
<1>9. ASSUME NEW T \in SUBSET S
      PROVE  /\ SumFunctionOnSet(f, T) \in Nat /\ SumFunctionOnSet(f, S \ T) \in Nat
             /\ SumFunctionOnSet(f, S) = SumFunctionOnSet(f, T) + SumFunctionOnSet(f, S \ T)
             /\ SumFunctionOnSet(f, T) <= SumFunctionOnSet(f, S)
  <2>1. S \ T \in SUBSET S
    OBVIOUS
  <2>2. \A j \in S \ T : f[j] \in Nat
    BY <1>5
  <2>3. SumFunctionOnSet(f, S \ T) \in Nat
    BY <1>2, <2>1, <2>2, FS_Subset, SumNat
  <2> QED
    BY <1>2, <1>5, <2>3, SumMonotonic
<1>10. SumFunctionOnSet(f, {}) = 0
  BY SumStep, FS_EmptySet
<1> QED
  BY <1>1, <1>2, <1>4, <1>6, <1>7, <1>8, <1>9, <1>10
-----------------------------------------------------------------------------
\* A reset recovers the current context, and with it its assets.
LEMMA Recovers ==
  ASSUME NEW F, NEW c, Current(F, c)
  PROVE  ValidOf(F) # {} /\ RecoveredOf(F) = c /\ StoredOf(F) = AssetsOf(F, c)
<1>1. /\ IsCtx(c) /\ Older(F, c)
      /\ F[c.active][HEADER] = c.dblock /\ F[c.active][COUNT] = c.count
  BY DEF Current, Sound
<1>2. /\ c.active \in {0, 1} /\ c.scratch = 1 - c.active /\ c.dblock \in Nat
      /\ c.count \in 0..(EraseVal - 1)
  BY <1>1 DEF IsCtx, MetaBlock
<1>3. c.active \in ValidOf(F)
  BY <1>1, <1>2, Constants DEF ValidOf, MetaBlock
<1>4. ActiveOf(F) = c.active
  <2>1. CASE ValidOf(F) = MetaBlock
    <3>1. PICK n0, n1 : n0 = F[0][COUNT] /\ n1 = F[1][COUNT]
      OBVIOUS
    <3>2. n0 # ERASED /\ n1 # ERASED
      BY <2>1, <3>1 DEF ValidOf, MetaBlock
    <3>3. CASE c.active = 0
      <4>1. n0 = c.count /\ n1 \in 0..(EraseVal - 1) /\ n0 = NextCount(n1)
        BY <1>1, <1>2, <3>1, <3>2, <3>3 DEF Older
      <4>2. its_mblock_latest_meta_block(n0, n1) = 0
        <5>1. CASE n1 + 1 = EraseVal
          <6>1. n0 = 0 /\ n1 # 0 /\ n1 # 1
            BY <4>1, <5>1, Constants DEF NextCount
          <6> QED
            BY <6>1 DEF its_mblock_latest_meta_block
        <5>2. CASE n1 + 1 # EraseVal
          <6>1. n0 = n1 + 1 /\ n1 \in Nat /\ n0 # 0 /\ ~(n1 > n0) /\ (n1 = 0 => n0 = 1)
            BY <4>1, <5>2, Constants DEF NextCount
          <6> QED
            BY <6>1 DEF its_mblock_latest_meta_block
        <5> QED
          BY <5>1, <5>2
      <4> QED
        BY <2>1, <3>1, <3>3, <4>2 DEF ActiveOf
    <3>4. CASE c.active = 1
      <4>1. n1 = c.count /\ n0 \in 0..(EraseVal - 1) /\ n1 = NextCount(n0)
        BY <1>1, <1>2, <3>1, <3>2, <3>4 DEF Older
      <4>2. its_mblock_latest_meta_block(n0, n1) = 1
        <5>1. CASE n0 + 1 = EraseVal
          <6>1. n1 = 0 /\ n0 # 0 /\ n0 # 1
            BY <4>1, <5>1, Constants DEF NextCount
          <6> QED
            BY <6>1 DEF its_mblock_latest_meta_block
        <5>2. CASE n0 + 1 # EraseVal
          <6>1. n1 = n0 + 1 /\ n0 \in Nat /\ n1 # 0 /\ n1 > n0 /\ (n0 = 0 => n1 = 1)
            BY <4>1, <5>2, Constants DEF NextCount
          <6> QED
            BY <6>1 DEF its_mblock_latest_meta_block
        <5> QED
          BY <5>1, <5>2
      <4> QED
        BY <2>1, <3>1, <3>4, <4>2 DEF ActiveOf
    <3> QED
      BY <1>2, <3>3, <3>4
  <2>2. CASE ValidOf(F) # MetaBlock
    <3>1. ValidOf(F) = {c.active}
      BY <1>2, <1>3, <2>2 DEF ValidOf, MetaBlock
    <3> QED
      BY <2>2, <3>1 DEF ActiveOf
  <2> QED
    BY <2>1, <2>2
<1>5. RecoveredOf(F) = c
  BY <1>1, <1>2, <1>4 DEF RecoveredOf, IsCtx
<1> QED
  BY <1>3, <1>5 DEF StoredOf

\* Where a file lies.
LEMMA Extent ==
  ASSUME NEW B, NEW M, Tables(B, M), Packed(B, M), NEW i \in Used(M)
  PROVE  /\ M[i] \in FileMetas /\ M[i].lblock \in LBlock /\ B[M[i].lblock] \in BlockMetas
         /\ i \in FileIdx /\ i \in In(M, M[i].lblock) /\ DataFrom(M[i].lblock) \in Nat
         /\ DataFrom(M[i].lblock) <= M[i].data_idx
         /\ M[i].data_idx + M[i].max_size + B[M[i].lblock].free_size <= BlockSize
         /\ M[i].max_size > 0 /\ M[i].cur_size <= M[i].max_size
<1>1. /\ M[i] \in FileMetas /\ M[i].lblock \in LBlock /\ i \in FileIdx
      /\ i \in In(M, M[i].lblock) /\ B[M[i].lblock] \in BlockMetas
  BY DEF Tables, Used, In, FileMetas
<1>2. PICK l, S, P : l = M[i].lblock /\ S = In(M, l) /\ P = Before(M, i)
  OBVIOUS
<1>3. S \in SUBSET FileIdx /\ P \in SUBSET (S \ {i}) /\ i \in S /\ S \ {i} \in SUBSET FileIdx
  BY <1>1, <1>2 DEF Used, In, Before, FileMetas
<1>4. Taken(M, S) = M[i].max_size + Taken(M, S \ {i})
  BY <1>3, RoomNat
<1>5. Taken(M, P) <= Taken(M, S \ {i}) /\ Taken(M, P) \in Nat /\ Taken(M, S \ {i}) \in Nat
  BY <1>3, RoomNat
<1>6. /\ DataFrom(l) + Taken(M, S) + B[l].free_size = BlockSize
      /\ M[i].data_idx = DataFrom(l) + Taken(M, P)
      /\ M[i].max_size > 0 /\ M[i].cur_size <= M[i].max_size
  BY <1>1, <1>2 DEF Packed
<1>7. DataFrom(l) \in Nat /\ B[l].free_size \in Nat /\ M[i].max_size \in Nat
  BY <1>1, <1>2, Constants DEF DataFrom, BlockMetas, FileMetas
<1> QED
  BY <1>1, <1>2, <1>4, <1>5, <1>6, <1>7, Constants

\* Of two files in a logical block, one lies behind the other.
LEMMA Apart ==
  ASSUME NEW B, NEW M, Tables(B, M), Packed(B, M), NEW i \in Used(M), NEW j \in Used(M),
         M[i].lblock = M[j].lblock, M[i].data_idx < M[j].data_idx
  PROVE  M[i].data_idx + M[i].max_size <= M[j].data_idx
<1>1. M[i] \in FileMetas /\ M[j] \in FileMetas /\ i \in FileIdx /\ M[i].lblock \in LBlock
  BY Extent
<1>2. PICK l, P, Q : l = M[i].lblock /\ P = Before(M, i) /\ Q = Before(M, j)
  OBVIOUS
<1>3. /\ Q \in SUBSET FileIdx /\ i \in Q /\ P \in SUBSET (Q \ {i}) /\ Q \ {i} \in SUBSET FileIdx
  <2>1. \A x \in FileIdx : M[x].data_idx \in Nat
    BY DEF Tables, FileMetas
  <2>2. i \in FileIdx /\ j \in FileIdx
    BY DEF Used
  <2>3. ASSUME NEW x \in P PROVE x \in Q /\ x # i
    <3>1. /\ x \in FileIdx /\ x \in In(M, M[i].lblock) /\ M[x].data_idx < M[i].data_idx
      BY <1>2 DEF Before, In, Used
    <3>2. M[x].data_idx < M[j].data_idx /\ x # i
      BY <2>1, <2>2, <3>1
    <3> QED
      BY <1>2, <3>1, <3>2 DEF Before
  <2>4. Q \in SUBSET FileIdx /\ i \in Q
    BY <1>2, <2>2 DEF Before, In, Used
  <2> QED
    BY <2>3, <2>4
<1>4. Taken(M, Q) = M[i].max_size + Taken(M, Q \ {i})
  BY <1>3, RoomNat
<1>5. Taken(M, P) <= Taken(M, Q \ {i}) /\ Taken(M, P) \in Nat /\ Taken(M, Q \ {i}) \in Nat
  BY <1>3, RoomNat
<1>6. M[i].data_idx = DataFrom(l) + Taken(M, P) /\ M[j].data_idx = DataFrom(l) + Taken(M, Q)
  BY <1>2 DEF Packed
<1>7. DataFrom(l) \in Nat /\ M[i].max_size \in Nat
  BY <1>1, <1>2, Constants DEF DataFrom, FileMetas
<1> QED
  BY <1>4, <1>5, <1>6, <1>7

\* A used file reads only cells of its block.
LEMMA CellsOf ==
  ASSUME NEW B, NEW M, Tables(B, M), Packed(B, M), NEW i \in Used(M),
         NEW k \in 1..M[i].cur_size
  PROVE  /\ CELL(M[i].data_idx + k - 1) \in Pos
         /\ M[i].data_idx + k - 1 \in 0..(BlockSize - 1)
         /\ M[i].data_idx + k - 1 >= DataFrom(M[i].lblock)
         /\ M[i].data_idx + k - 1 < M[i].data_idx + M[i].max_size
<1>1. /\ M[i] \in FileMetas /\ M[i].lblock \in LBlock /\ B[M[i].lblock] \in BlockMetas
      /\ DataFrom(M[i].lblock) \in Nat
      /\ DataFrom(M[i].lblock) <= M[i].data_idx
      /\ M[i].data_idx + M[i].max_size + B[M[i].lblock].free_size <= BlockSize
      /\ M[i].max_size > 0 /\ M[i].cur_size <= M[i].max_size
  BY Extent
<1>2. PICK l, x, n, m, fr : /\ l = M[i].lblock /\ x = M[i].data_idx /\ n = M[i].cur_size
                            /\ m = M[i].max_size /\ fr = B[l].free_size
  OBVIOUS
<1>3. x \in Nat /\ n \in Nat /\ m \in Nat /\ fr \in Nat
  BY <1>1, <1>2 DEF BlockMetas, FileMetas
<1>4. /\ x + k - 1 \in 0..(BlockSize - 1) /\ x + k - 1 >= DataFrom(l) /\ x + k - 1 < x + m
  BY <1>1, <1>2, <1>3, Constants
<1> QED
  BY <1>2, <1>4, Places

\* The spare blocks do not matter.
LEMMA SpareIsFree ==
  ASSUME NEW F, NEW H, NEW c, Sound(F, c),
         \A b \in Block \ Spare(c), p \in Pos : H[b][p] = F[b][p]
  PROVE  /\ Sound(H, c) /\ AssetsOf(H, c) = AssetsOf(F, c)
         /\ BlocksOf(H, c) = BlocksOf(F, c) /\ FilesOf(H, c) = FilesOf(F, c)
<1>1. IsCtx(c) /\ c.active \in Block \ Spare(c)
  BY SpareBlocks DEF Sound
<1>2. \A p \in Pos : H[c.active][p] = F[c.active][p]
  BY <1>1
<1>3. BlocksOf(H, c) = BlocksOf(F, c) /\ FilesOf(H, c) = FilesOf(F, c)
  BY <1>2, Places DEF BlocksOf, FilesOf
<1>4. PICK B, M : B = BlocksOf(F, c) /\ M = FilesOf(F, c)
  OBVIOUS
<1>5. Tables(B, M) /\ Placed(c, B, M) /\ Packed(B, M) /\ Typed(F, B, M)
  BY <1>4 DEF Sound, Layout
<1>6. ASSUME NEW i \in Used(M) PROVE AssetAt(H, B, M, i) = AssetAt(F, B, M, i)
  <2>1. B[M[i].lblock].phy_id \in Block \ Spare(c)
    BY <1>1, <1>5, NotSpare
  <2>2. \A k \in 1..M[i].cur_size : CELL(M[i].data_idx + k - 1) \in Pos
    BY <1>5, CellsOf
  <2>3. \A k \in 1..M[i].cur_size : H[B[M[i].lblock].phy_id][CELL(M[i].data_idx + k - 1)]
                                  = F[B[M[i].lblock].phy_id][CELL(M[i].data_idx + k - 1)]
    BY <2>1, <2>2
  <2> QED
    BY <2>3 DEF AssetAt
<1>7. Typed(H, B, M)
  BY <1>5, <1>6 DEF Typed
<1>8. Sound(H, c)
  <2>1. H[c.active][HEADER] = c.dblock /\ H[c.active][COUNT] = c.count
    BY <1>2, Places DEF Sound
  <2> QED
    BY <1>1, <1>3, <1>4, <1>5, <1>7, <2>1 DEF Sound, Layout
<1>9. ASSUME NEW f \in Fid, ~ \A i \in FileIdx : M[i].id # f
      PROVE  Min({i \in FileIdx : M[i].id = f}) \in Used(M)
  <2>1. PICK S : S = {i \in FileIdx : M[i].id = f}
    OBVIOUS
  <2>2. S \in SUBSET Nat /\ S # {}
    BY <1>9, <2>1 DEF FileIdx
  <2>3. Min(S) \in S
    BY <2>2, LeastOf DEF Min
  <2> QED
    BY <2>1, <2>3, Constants DEF Used
<1>10. AssetsIn(H, B, M) = AssetsIn(F, B, M)
  BY <1>6, <1>9 DEF AssetsIn
<1> QED
  BY <1>3, <1>4, <1>8, <1>10 DEF AssetsOf

\* The asset of a file that exists.
LEMMA AssetOfFile ==
  ASSUME NEW F, NEW B, NEW M, Tables(B, M), Packed(B, M), NEW i \in FileIdx, M[i].id \in Fid
  PROVE  /\ AssetsIn(F, B, M)[M[i].id] = AssetAt(F, B, M, i) /\ i \in Used(M)
         /\ {j \in FileIdx : M[j].id = M[i].id} = {i}
<1>1. PICK f : f = M[i].id
  OBVIOUS
<1>2. f # NULL /\ i \in Used(M)
  BY <1>1, Constants DEF Used
<1>3. \A j \in FileIdx : M[j].id = f => j = i
  BY <1>1, <1>2 DEF Packed, Used
<1>4. {j \in FileIdx : M[j].id = f} = {i}
  BY <1>1, <1>3
<1>5. i \in Nat
  BY DEF FileIdx
<1>6. Min({i}) = i
  <2>1. Min({i}) \in {i}
    BY <1>5, LeastOf DEF Min
  <2> QED
    BY <2>1
<1> QED
  BY <1>1, <1>2, <1>4, <1>6 DEF AssetsIn
-----------------------------------------------------------------------------
(* The phases of the file system *)

\* The scratch blocks of c are being erased.
Clearing(P, F, c) == Current(F, c) /\ Erasing(P, F, Spare(c))

\* An operation that leads from c to d is being programmed; when the swap count,
\* its last item, is in place, d is current.
Writing(P, F, c, d, G, D) ==
  /\ IsFlash(G) /\ IsCtx(c) /\ Current(G, d) /\ d.scratch = c.active
  /\ D \subseteq Spare(c) \X Pos
  /\ Holds(F, D, G, {})
  /\ \E w, e :
       /\ IsSeq(w) /\ P = w \o (<<SetCtx(d)>> \o e)
       /\ Realises(w, D, G, {}) /\ Covers(e, Spare(d))
       /\ w = <<>> => D = {}
       /\ w # <<>> => Current(F, c) /\ Loc(w[Len(w)]) = <<c.scratch, COUNT>>

\* Erasing the scratch blocks changes no asset.
LEMMA ClearingStep ==
  ASSUME NEW P, NEW F, NEW c, Clearing(P, F, c), IsFlash(F), P # <<>>,
         NEW H, H = Effect(F, P[1])
  PROVE  /\ P[1].op = "erase" /\ IsFlash(H) /\ Clearing(Tail(P), H, c)
         /\ AssetsOf(H, c) = AssetsOf(F, c)
<1>1. Current(F, c) /\ Erasing(P, F, Spare(c))
  BY DEF Clearing
<1>2. /\ P[1].op = "erase" /\ P[1].blk \in Spare(c)
      /\ IsFlash(H) /\ Erasing(Tail(P), H, Spare(c))
      /\ \A b \in Block, p \in Pos :
           /\ b \notin Spare(c) => H[b][p] = F[b][p]
           /\ H[b][p] = F[b][p] \/ H[b][p] = ERASED
  BY <1>1, ErasingStep
<1>3. Sound(H, c) /\ AssetsOf(H, c) = AssetsOf(F, c)
  <2>1. \A b \in Block \ Spare(c), p \in Pos : H[b][p] = F[b][p]
    BY <1>2
  <2> QED
    BY <1>1, <2>1, SpareIsFree DEF Current
<1>4. Older(H, c)
  <2>1. c.scratch \in Block
    BY <1>1, SpareBlocks DEF Current, Sound
  <2>2. H[c.scratch][COUNT] = F[c.scratch][COUNT] \/ H[c.scratch][COUNT] = ERASED
    BY <1>2, <2>1, Places
  <2> QED
    BY <1>1, <2>2 DEF Current, Older
<1> QED
  BY <1>2, <1>3, <1>4 DEF Clearing, Current

\* Before the commit the old context is current, after it the new one.
LEMMA WritingStep ==
  ASSUME NEW P, NEW F, NEW c, NEW d, NEW G, NEW D, Writing(P, F, c, d, G, D), IsFlash(F),
         NEW H, H = Effect(F, P[1])
  PROVE  /\ IsSeq(P) /\ P # <<>> /\ P[1].op \in {"write", "ctx"}
         /\ P[1].op = "write" => F[P[1].blk][P[1].pos] = ERASED
         /\ IsFlash(H)
         /\ \/ P[1] = SetCtx(d) /\ H = F /\ F = G /\ Clearing(Tail(P), H, d)
            \/ /\ P[1].op = "write" /\ Current(F, c)
               /\ \E E : Writing(Tail(P), H, c, d, G, E)
               /\ \/ Current(H, c) /\ AssetsOf(H, c) = AssetsOf(F, c)
                  \/ H = G
<1>1. /\ IsFlash(G) /\ IsCtx(c) /\ Current(G, d) /\ d.scratch = c.active
      /\ D \subseteq Spare(c) \X Pos
      /\ Holds(F, D, G, {})
  BY DEF Writing
<1>2. PICK w, e :
       /\ IsSeq(w) /\ P = w \o (<<SetCtx(d)>> \o e)
       /\ Realises(w, D, G, {}) /\ Covers(e, Spare(d))
       /\ w = <<>> => D = {}
       /\ w # <<>> => Current(F, c) /\ Loc(w[Len(w)]) = <<c.scratch, COUNT>>
  BY DEF Writing
<1>3. PICK r : r = <<SetCtx(d)>> \o e
  OBVIOUS
<1>4. IsSeq(e) /\ IsSeq(<<SetCtx(d)>>) /\ <<SetCtx(d)>> # <<>>
  <2>1. PICK x : x = SetCtx(d)
    OBVIOUS
  <2>2. IsSeq(<<x>>) /\ <<x>> # <<>>
    BY OneSeqIs, EmptyIff
  <2> QED
    BY <1>2, <2>1, <2>2 DEF Covers, Erases
<1>5. IsSeq(r) /\ r # <<>> /\ Head(r) = SetCtx(d) /\ Tail(r) = e /\ r[1] = SetCtx(d)
  <2>1. PICK x : x = SetCtx(d)
    OBVIOUS
  <2>2. PICK y : y = <<x>>
    OBVIOUS
  <2>3. IsSeq(y) /\ y # <<>> /\ y[1] = x /\ Tail(y) = <<>>
    <3>1. Tail(<<x>>) = <<>>
      OBVIOUS
    <3> QED
      BY <2>2, <3>1, OneSeqIs, EmptyIff
  <2>4. r = y \o e
    BY <1>3, <2>1, <2>2
  <2>5. IsSeq(r)
    BY <1>4, <2>3, <2>4, Cat
  <2>6. r # <<>> /\ Head(r) = x /\ Tail(r) = <<>> \o e
    BY <1>4, <2>3, <2>4, HeadOfCat
  <2>7. <<>> \o e = e
    BY <1>4, EmptyCat
  <2>8. Head(r) = r[1]
    BY <2>5, <2>6, TailIs
  <2> QED
    BY <2>1, <2>5, <2>6, <2>7, <2>8
<1>6. CASE w = <<>>
  <2>1. P = r
    BY <1>2, <1>3, <1>5, <1>6, EmptyCat
  <2>2. P[1] = SetCtx(d) /\ P[1].op = "ctx" /\ H = F
    BY <1>5, <2>1 DEF SetCtx, Effect
  <2>3. F = G
    <3>1. \A b \in Block, p \in Pos : F[b][p] = G[b][p]
      BY <1>1, <1>2, <1>6 DEF Holds
    <3> QED
      BY <1>1, <3>1, FlashEq
  <2>4. Clearing(Tail(P), H, d)
    <3>1. Erasing(e, F, Spare(d))
      BY <1>2, CoversAll
    <3> QED
      BY <1>1, <1>5, <2>1, <2>2, <2>3, <3>1 DEF Clearing
  <2> QED
    BY <1>5, <2>1, <2>2, <2>3, <2>4
<1>7. CASE w # <<>>
  <2>1. P = w \o r
    BY <1>2, <1>3
  <2>2. IsSeq(P) /\ P # <<>> /\ Head(P) = w[1] /\ Tail(P) = Tail(w) \o r /\ IsSeq(Tail(w))
    <3>1. IsSeq(P)
      BY <1>2, <1>5, <2>1, Cat
    <3>2. IsSeq(w) /\ IsSeq(r) /\ w # <<>>
      BY <1>2, <1>5, <1>7
    <3>3. /\ w \o r # <<>> /\ IsSeq(Tail(w))
          /\ Head(w \o r) = w[1] /\ Tail(w \o r) = Tail(w) \o r
      BY <3>2, HeadOfCat
    <3> QED
      BY <2>1, <3>1, <3>3, Zenon
  <2>3. P[1] = w[1]
    BY <2>2, TailIs
  <2>4. /\ w[1].op # "ctx"
        /\ w[1].op = "write" => F[w[1].blk][w[1].pos] = ERASED
        /\ IsFlash(H)
        /\ \E E \in SUBSET D :
             /\ Realises(Tail(w), E, G, {}) /\ Holds(H, E, G, {})
             /\ \A b \in Block, p \in Pos : b \notin {} /\ <<b, p>> \notin D => H[b][p] = F[b][p]
    <3>1. PICK N : N = {}
      OBVIOUS
    <3>2. N \subseteq Block /\ Realises(w, D, G, N) /\ Holds(F, D, G, N)
      BY <1>1, <1>2, <3>1
    <3>3. H = Effect(F, w[1])
      BY <2>3
    <3>4. /\ w[1].op # "ctx"
          /\ w[1].op = "write" => F[w[1].blk][w[1].pos] = ERASED
          /\ IsFlash(H)
          /\ \E E \in SUBSET D :
               /\ Realises(Tail(w), E, G, N) /\ Holds(H, E, G, N)
               /\ \A b \in Block, p \in Pos : b \notin N /\ <<b, p>> \notin D => H[b][p] = F[b][p]
      BY <1>7, <3>2, <3>3, ProgramStep
    <3> QED
      BY <3>1, <3>4
  <2>5. w[1].op = "write"
    <3>1. 1 \in 1..Len(w)
      BY <1>2, <1>7, EmptyIff
    <3>2. Programs(w[1], D, G)
      BY <1>2, <3>1 DEF Realises
    <3> QED
      BY <3>2 DEF Programs, Write
  <2>6. PICK E \in SUBSET D :
             /\ Realises(Tail(w), E, G, {}) /\ Holds(H, E, G, {})
             /\ \A b \in Block, p \in Pos : <<b, p>> \notin D => H[b][p] = F[b][p]
    BY <2>4
  <2>7. PICK t : t = Tail(w)
    OBVIOUS
  <2>8. /\ IsSeq(t) /\ Len(w) \in Nat /\ Len(w) >= 1 /\ Len(t) = Len(w) - 1
        /\ \A k \in 1..(Len(w) - 1) : t[k] = w[k + 1]
    BY <1>2, <1>7, <2>7, TailIs
  <2>9. E \subseteq Spare(c) \X Pos
    BY <1>1
  <2>10. CASE t = <<>>
    <3>1. Len(t) = 0
      BY <2>10, EmptySeqIs
    <3>2. E = {}
      <4>1. \A k \in 1..Len(t) : FALSE
        BY <3>1
      <4> QED
        BY <2>6, <2>7, <4>1 DEF Realises
    <3>3. Writing(Tail(P), H, c, d, G, E)
      BY <1>1, <1>2, <1>3, <2>2, <2>6, <2>7, <2>8, <2>9, <2>10, <3>2 DEF Writing
    <3>4. H = G
      <4>1. \A b \in Block, p \in Pos : H[b][p] = G[b][p]
        BY <2>6, <3>2 DEF Holds
      <4> QED
        BY <1>1, <2>4, <4>1, FlashEq
    <3> QED
      BY <1>2, <1>7, <2>2, <2>3, <2>4, <2>5, <3>3, <3>4
  <2>11. CASE t # <<>>
    <3>1. Len(t) # 0 /\ Len(w) - 1 \in 1..(Len(w) - 1) /\ Len(t) \in 1..Len(t)
      BY <2>8, <2>11, EmptyIff
    <3>2. t[Len(t)] = w[Len(w)]
      BY <2>8, <3>1
    <3>3. Loc(t[Len(t)]) = <<c.scratch, COUNT>>
      BY <1>2, <1>7, <3>2
    <3>4. <<c.scratch, COUNT>> \in E
      <4>1. (t[Len(t)].op = "erase" /\ t[Len(t)].blk \in {}) \/ Programs(t[Len(t)], E, G)
        BY <2>6, <2>7, <3>1 DEF Realises
      <4>2. Programs(t[Len(t)], E, G)
        BY <4>1
      <4> QED
        BY <3>3, <4>2 DEF Programs
    <3>5. c.scratch \in Block
      BY <1>1, SpareBlocks
    <3>6. H[c.scratch][COUNT] = ERASED
      BY <2>6, <3>4, <3>5, Places DEF Holds
    <3>7. \A b \in Block \ Spare(c), p \in Pos : H[b][p] = F[b][p]
      BY <1>1, <2>6
    <3>8. Sound(H, c) /\ AssetsOf(H, c) = AssetsOf(F, c)
      <4>1. Sound(F, c)
        BY <1>2, <1>7 DEF Current
      <4> QED
        BY <3>7, <4>1, SpareIsFree
    <3>9. Current(H, c)
      BY <3>6, <3>8 DEF Current, Older
    <3>10. Writing(Tail(P), H, c, d, G, E)
      BY <1>1, <1>2, <1>3, <2>2, <2>6, <2>7, <2>8, <2>9, <2>11, <3>3, <3>9 DEF Writing
    <3> QED
      BY <1>2, <1>7, <2>2, <2>3, <2>4, <2>5, <3>8, <3>9, <3>10
  <2> QED
    BY <2>10, <2>11
<1> QED
  BY <1>6, <1>7

\* its_mblock_erase_scratch_blocks() erases the scratch blocks.
LEMMA CoversScratch ==
  ASSUME NEW c, IsCtx(c)
  PROVE  Covers(its_mblock_erase_scratch_blocks(c), Spare(c))
<1>1. c.scratch \in Block /\ (NumBlocks > 2 => c.dblock \in Block)
  BY SpareBlocks
<1>2. Covers(Erase(c.scratch), {c.scratch})
  BY <1>1, CoversErase
<1>3. CASE NumBlocks > 2
  <2>1. Covers(Erase(c.dblock), {c.dblock})
    BY <1>1, <1>3, CoversErase
  <2> QED
    BY <1>2, <1>3, <2>1, CoversCat DEF its_mblock_erase_scratch_blocks, Spare
<1>4. CASE ~(NumBlocks > 2)
  <2>1. Erase(c.scratch) \o <<>> = Erase(c.scratch)
    <3>1. PICK e : e = Erase(c.scratch)
      OBVIOUS
    <3>2. IsSeq(e)
      BY <1>2, <3>1 DEF Covers, Erases
    <3> QED
      BY <3>1, <3>2, EmptyCat
  <2> QED
    BY <1>2, <1>4, <2>1 DEF its_mblock_erase_scratch_blocks, Spare
<1> QED
  BY <1>3, <1>4

\* its_mblock_swap_metablocks() on the fields of a context.
LEMMA Swapped ==
  ASSUME NEW a, NEW s, NEW x, NEW n
  PROVE  its_mblock_swap_metablocks([active |-> a, scratch |-> s, dblock |-> x, count |-> n])
           = [active |-> s, scratch |-> a, dblock |-> x, count |-> n]
<1>1. PICK c : c = [active |-> a, scratch |-> s, dblock |-> x, count |-> n]
  OBVIOUS
<1>2. c.active = a /\ c.scratch = s /\ c \in [active: {a}, scratch: {s}, dblock: {x}, count: {n}]
  BY <1>1
<1>3. PICK q : q = [c EXCEPT !.active = s, !.scratch = a]
  OBVIOUS
<1>4. q \in [active: {s}, scratch: {a}, dblock: {x}, count: {n}]
  BY <1>2, <1>3
<1>5. q = [active |-> s, scratch |-> a, dblock |-> x, count |-> n]
  BY <1>4
<1>6. its_mblock_swap_metablocks(c) = q
  BY <1>2, <1>3 DEF its_mblock_swap_metablocks
<1> QED
  BY <1>1, <1>5, <1>6, Zenon

\* The operations of a call, grouped around the change of the context.
LEMMA Regroup ==
  ASSUME NEW P, NEW h, NEW n, NEW x, NEW e, IsSeq(P), IsSeq(h), IsSeq(n), IsSeq(x), IsSeq(e),
         Len(n) = 1
  PROVE  /\ P \o (((h \o n) \o x) \o e) = (P \o (h \o n)) \o (x \o e)
         /\ IsSeq(h \o n) /\ IsSeq(P \o (h \o n)) /\ P \o (h \o n) # <<>>
         /\ (P \o (h \o n))[Len(P \o (h \o n))] = n[1]
<1>1. PICK hn : hn = h \o n
  OBVIOUS
<1>2. PICK w : w = P \o hn
  OBVIOUS
<1>3. PICK r : r = x \o e
  OBVIOUS
<1>4. IsSeq(hn)
  BY <1>1, Cat
<1>12. IsSeq(r)
  BY <1>3, Cat
<1>5. (hn \o x) \o e = hn \o r
  BY ONLY <1>3, <1>4, IsSeq(x), IsSeq(e), Assoc
<1>6. w \o r = P \o (hn \o r)
  BY ONLY <1>2, IsSeq(P), <1>4, <1>12, Assoc
<1>7. /\ Len(h) \in Nat /\ Len(hn) = Len(h) + Len(n)
      /\ \A k \in 1..Len(n) : hn[Len(h) + k] = n[k]
  BY ONLY <1>1, IsSeq(h), IsSeq(n), Cat
<1>8. hn[Len(hn)] = n[1] /\ Len(hn) \in 1..Len(hn)
  BY <1>7
<1>9. /\ IsSeq(w) /\ Len(P) \in Nat /\ Len(w) = Len(P) + Len(hn)
      /\ \A k \in 1..Len(hn) : w[Len(P) + k] = hn[k]
  BY ONLY <1>2, IsSeq(P), <1>4, Cat
<1>10. w[Len(w)] = n[1] /\ Len(w) # 0
  BY <1>7, <1>8, <1>9
<1>11. w # <<>>
  BY <1>9, <1>10, EmptyIff
<1> QED
  BY <1>1, <1>2, <1>3, <1>4, <1>5, <1>6, <1>9, <1>10, <1>11, Zenon

\* An operation starts: P programs the items of the new metadata block but its
\* header, and the data, when the scratch blocks are erased.
LEMMA WritingStarts ==
  ASSUME NEW F, NEW G, NEW c, NEW b, NEW d, NEW P, NEW E,
         IsFlash(F), IsFlash(G), Current(F, c), IsCtx(b), b.active = c.active,
         b.count = c.count, b.scratch = c.scratch,
         d = [active |-> c.scratch, scratch |-> c.active, dblock |-> b.dblock,
              count |-> NextCount(c.count)],
         Current(G, d),
         \A x \in Spare(c) : F[x] = Blank,
         Realises(P, E, G, {}), E \subseteq Spare(c) \X Pos,
         <<c.scratch, HEADER>> \notin E, <<c.scratch, COUNT>> \notin E,
         \A x \in Block, p \in Pos :
           <<x, p>> \notin E \cup {<<c.scratch, HEADER>>, <<c.scratch, COUNT>>} => G[x][p] = F[x][p]
  PROVE  \E D : Writing(P \o its_flash_fs_mblock_meta_update_finalize(b), F, c, d, G, D)
<1>1. IsCtx(c) /\ IsCtx(d) /\ c.scratch \in Block /\ c.scratch \in Spare(c)
  <2>1. IsCtx(c) /\ IsCtx(d)
    BY DEF Current, Sound
  <2> QED
    BY <2>1, SpareBlocks
<1>2. G[c.scratch][HEADER] = b.dblock /\ G[c.scratch][COUNT] = NextCount(c.count)
  BY DEF Current, Sound
<1> PICK h, n, x, e :
      /\ h = <<Write(c.scratch, HEADER, b.dblock)>>
      /\ n = <<Write(c.scratch, COUNT, NextCount(c.count))>>
      /\ x = <<SetCtx(d)>>
      /\ e = its_mblock_erase_scratch_blocks(d)
  OBVIOUS
<1> DEFINE DH == {<<c.scratch, HEADER>>}
           DN == {<<c.scratch, COUNT>>}
<1>3. its_flash_fs_mblock_meta_update_finalize(b) = ((h \o n) \o x) \o e
  <2>1. PICK next : next = [b EXCEPT !.count = NextCount(b.count)]
    OBVIOUS
  <2>2. /\ next.scratch = c.scratch /\ next.active = c.active /\ next.dblock = b.dblock
        /\ next.count = NextCount(c.count)
        /\ next \in [active: MetaBlock, scratch: MetaBlock, dblock: Nat, count: {NextCount(b.count)}]
    BY <2>1 DEF IsCtx
  <2>3. its_mblock_swap_metablocks(next) = d
    <3>1. PICK m : m = NextCount(c.count)
      OBVIOUS
    <3>2. next = [active |-> c.active, scratch |-> c.scratch, dblock |-> b.dblock, count |-> m]
      BY <2>2, <3>1
    <3>3. d = [active |-> c.scratch, scratch |-> c.active, dblock |-> b.dblock, count |-> m]
      BY <3>1
    <3>4. its_mblock_swap_metablocks(next)
            = [active |-> c.scratch, scratch |-> c.active, dblock |-> b.dblock, count |-> m]
      BY <3>2, Swapped
    <3> QED
      BY <3>3, <3>4, Zenon
  <2>4. its_mblock_write_scratch_meta_header(next) = h \o n
    <3>1. PICK y, z : /\ y = Write(c.scratch, HEADER, b.dblock)
                      /\ z = Write(c.scratch, COUNT, NextCount(c.count))
      OBVIOUS
    <3>2. <<y, z>> = <<y>> \o <<z>>
      BY PairCat
    <3>3. its_mblock_write_scratch_meta_header(next) = <<y, z>>
      BY <2>2, <3>1 DEF its_mblock_write_scratch_meta_header
    <3>4. h = <<y>> /\ n = <<z>>
      BY <3>1
    <3> QED
      BY <3>2, <3>3, <3>4, Zenon
  <2> QED
    BY <2>1, <2>3, <2>4 DEF its_flash_fs_mblock_meta_update_finalize
<1>4. Realises(h, DH, G, {}) /\ Realises(n, DN, G, {})
  <2>1. PICK N : N = {}
    OBVIOUS
  <2>2. c.scratch \notin N
    BY <2>1
  <2>3. Realises(h, DH, G, N)
    BY <1>1, <1>2, <2>2, Places, RealisesOne
  <2>4. Realises(n, DN, G, N)
    BY <1>1, <1>2, <2>2, Places, RealisesOne
  <2> QED
    BY <2>1, <2>3, <2>4
<1>5. Covers(e, Spare(d)) /\ IsSeq(e)
  <2>1. Covers(e, Spare(d))
    BY <1>1, CoversScratch
  <2> QED
    BY <2>1 DEF Covers, Erases
<1>6. DH \cap DN = {} /\ E \cap (DH \cup DN) = {}
  BY DEF HEADER, COUNT
<1>7. IsSeq(h) /\ IsSeq(n) /\ IsSeq(P) /\ Len(n) = 1 /\ n[1] = Write(c.scratch, COUNT, NextCount(c.count))
  <2>1. PICK v : v = Write(c.scratch, COUNT, NextCount(c.count))
    OBVIOUS
  <2>2. Len(<<v>>) = 1 /\ <<v>>[1] = v
    BY OneSeqIs
  <2>3. IsSeq(h) /\ IsSeq(n) /\ IsSeq(P)
    BY <1>4 DEF Realises
  <2> QED
    BY <2>1, <2>2, <2>3
<1>8. IsSeq(x)
  <2>1. PICK v : v = SetCtx(d)
    OBVIOUS
  <2> QED
    BY <2>1, OneSeqIs
<1>9. n # <<>>
  BY <1>7, EmptyIff
<1>10. PICK hn : hn = h \o n
  OBVIOUS
<1>11. Realises(hn, DH \cup DN, G, {})
  <2> HIDE DEF DH, DN
  <2> QED
    BY <1>4, <1>6, <1>10, RealisesCat
<1>12. PICK w : w = P \o hn
  OBVIOUS
<1>13. PICK D : D = E \cup (DH \cup DN)
  OBVIOUS
<1>15. /\ P \o (((h \o n) \o x) \o e) = (P \o (h \o n)) \o (x \o e)
       /\ IsSeq(P \o (h \o n)) /\ P \o (h \o n) # <<>>
       /\ (P \o (h \o n))[Len(P \o (h \o n))] = n[1]
  BY <1>5, <1>7, <1>8, Regroup
<1>14. /\ Realises(w, D, G, {}) /\ IsSeq(w) /\ w # <<>> /\ w[Len(w)] = n[1]
  <2>1. IsSeq(w) /\ w # <<>> /\ w[Len(w)] = n[1]
    BY <1>10, <1>12, <1>15
  <2>3. PICK T : T = DH \cup DN
    OBVIOUS
  <2>4. Realises(w, E \cup T, G, {})
    BY <1>6, <1>11, <1>12, <2>3, RealisesCat
  <2> QED
    BY <1>13, <2>1, <2>3, <2>4
<1>16. D \subseteq Spare(c) \X Pos
  BY <1>1, <1>13, Places
<1>17. Holds(F, D, G, {})
  <2>1. ASSUME NEW y \in Block, NEW p \in Pos
        PROVE  F[y][p] = IF <<y, p>> \in D THEN ERASED ELSE G[y][p]
    <3>1. CASE <<y, p>> \in D
      <4>1. y \in Spare(c)
        BY <1>16, <3>1
      <4> QED
        BY <3>1, <4>1 DEF Blank
    <3>2. CASE <<y, p>> \notin D
      BY <1>13, <3>2
    <3> QED
      BY <3>1, <3>2
  <2> QED
    BY <2>1 DEF Holds
<1>18. Loc(w[Len(w)]) = <<c.scratch, COUNT>>
  BY <1>7, <1>14 DEF Loc, Write
<1>20. Writing(w \o (x \o e), F, c, d, G, D)
  <2>1. d.scratch = c.active
    OBVIOUS
  <2> QED
    BY <1>1, <1>5, <1>14, <1>16, <1>17, <1>18, <2>1 DEF Writing
<1> QED
  BY <1>3, <1>10, <1>12, <1>15, <1>20
-----------------------------------------------------------------------------
(* What the operations make of the tables *)

\* One file taken out of what a set of files reserves.
LEMMA TakenWith ==
  ASSUME NEW B, NEW M, Tables(B, M), NEW S \in SUBSET FileIdx, NEW i \in S
  PROVE  Taken(M, S) = M[i].max_size + Taken(M, S \ {i})
<1>1. IsFiniteSet(S)
  BY RoomNat
<1>2. PICK f : f = [j \in FileIdx |-> M[j].max_size]
  OBVIOUS
<1>3. \A j \in S : f[j] \in Nat /\ f[j] = M[j].max_size
  BY <1>2 DEF Tables, FileMetas
<1>4. SumFunctionOnSet(f, S) = f[i] + SumFunctionOnSet(f, S \ {i})
  BY <1>1, <1>3, SumRemove
<1> QED
  BY <1>2, <1>3, <1>4 DEF Taken

\* What a set of files reserves depends on their sizes only.
LEMMA TakenSame ==
  ASSUME NEW B, NEW M, NEW B2, NEW M2, Tables(B, M), Tables(B2, M2), NEW S \in SUBSET FileIdx,
         \A j \in S : M2[j].max_size = M[j].max_size
  PROVE  Taken(M2, S) = Taken(M, S)
<1>1. IsFiniteSet(S)
  BY RoomNat
<1>2. PICK f, g : f = [j \in FileIdx |-> M2[j].max_size] /\ g = [j \in FileIdx |-> M[j].max_size]
  OBVIOUS
<1>3. \A j \in S : f[j] = g[j]
  BY <1>2
<1>4. SumFunctionOnSet(f, S) = SumFunctionOnSet(g, S)
  BY <1>1, <1>3, SumSame
<1> QED
  BY <1>2, <1>4 DEF Taken

\* its_flash_fs_file_write(): only sizes in use change.
LEMMA PackedWrite ==
  ASSUME NEW B, NEW M, NEW B2, NEW M2, Tables(B, M), Packed(B, M), Tables(B2, M2),
         \A l \in LBlock : B2[l].free_size = B[l].free_size,
         \A j \in FileIdx : /\ M2[j].id = M[j].id /\ M2[j].lblock = M[j].lblock
                            /\ M2[j].data_idx = M[j].data_idx
                            /\ M2[j].max_size = M[j].max_size,
         \A j \in Used(M) : M2[j].cur_size <= M[j].max_size
  PROVE  Packed(B2, M2)
<1>1. Used(M2) = Used(M)
  BY DEF Used
<1>2. \A l : In(M2, l) = In(M, l)
  BY <1>1 DEF In, Used
<1>3. \A i \in Used(M) : Before(M2, i) = Before(M, i)
  BY <1>1, <1>2 DEF In, Used, Before
<1>4. \A l \in LBlock : Taken(M2, In(M, l)) = Taken(M, In(M, l))
  <2>1. \A l : In(M, l) \in SUBSET FileIdx
    BY DEF In, Used
  <2> QED
    BY <2>1, TakenSame
<1>5. \A i \in Used(M) : Taken(M2, Before(M, i)) = Taken(M, Before(M, i))
  <2>1. \A i \in Used(M) : Before(M, i) \in SUBSET FileIdx
    BY DEF In, Used, Before
  <2> QED
    BY <2>1, TakenSame
<1>6. \A l \in LBlock : DataFrom(l) + Taken(M2, In(M2, l)) + B2[l].free_size = BlockSize
  BY <1>2, <1>4 DEF Packed
<1>7. ASSUME NEW i \in Used(M2)
      PROVE  /\ M2[i].max_size > 0 /\ M2[i].cur_size <= M2[i].max_size
             /\ M2[i].data_idx = DataFrom(M2[i].lblock) + Taken(M2, Before(M2, i))
             /\ \A j \in Used(M2) \ {i} :
                  /\ M2[j].id # M2[i].id
                  /\ M2[j].lblock = M2[i].lblock => M2[j].data_idx # M2[i].data_idx
  <2>1. i \in Used(M) /\ i \in FileIdx /\ \A j \in Used(M) : j \in FileIdx
    BY <1>1 DEF Used
  <2>2. /\ M[i].max_size > 0
        /\ M[i].data_idx = DataFrom(M[i].lblock) + Taken(M, Before(M, i))
        /\ \A j \in Used(M) \ {i} :
             /\ M[j].id # M[i].id
             /\ M[j].lblock = M[i].lblock => M[j].data_idx # M[i].data_idx
    BY <2>1 DEF Packed
  <2>3. M2[i].data_idx = DataFrom(M2[i].lblock) + Taken(M2, Before(M2, i))
    BY <1>3, <1>5, <2>1, <2>2
  <2>4. M2[i].max_size > 0 /\ M2[i].cur_size <= M2[i].max_size
    BY <2>1, <2>2
  <2>5. ASSUME NEW j \in Used(M2) \ {i}
        PROVE  /\ M2[j].id # M2[i].id
               /\ M2[j].lblock = M2[i].lblock => M2[j].data_idx # M2[i].data_idx
    BY <1>1, <2>1, <2>2
  <2> QED
    BY <2>3, <2>4, <2>5
<1> QED
  BY <1>6, <1>7 DEF Packed

\* its_flash_fs_file_create(): a file behind those of its block.
LEMMA PackedCreate ==
  ASSUME NEW B, NEW M, NEW B2, NEW M2, Tables(B, M), Packed(B, M), Tables(B2, M2),
         NEW i \in FileIdx, NEW l \in LBlock, NEW f \in Fid, NEW size \in Nat,
         M[i].id = NULL, \A j \in FileIdx : M[j].id # f,
         size > 0, size <= B[l].free_size,
         \A j \in FileIdx \ {i} : M2[j] = M[j],
         M2[i].id = f, M2[i].lblock = l, M2[i].data_idx = BlockSize - B[l].free_size,
         M2[i].max_size = size, M2[i].cur_size <= size,
         \A m \in LBlock : B2[m].free_size = IF m = l THEN B[l].free_size - size
                                             ELSE B[m].free_size
  PROVE  Packed(B2, M2)
<1>1. f # NULL /\ BlockSize \in Nat
  BY Constants
<1>2. Used(M2) = Used(M) \cup {i} /\ i \notin Used(M) /\ Used(M) \in SUBSET FileIdx
  BY <1>1 DEF Used
<1>3. \A j \in Used(M) : j # i /\ j \in FileIdx /\ M2[j] = M[j]
  BY <1>2
<1>4. \A m \in LBlock : In(M, m) \in SUBSET Used(M) /\ i \notin In(M, m) /\ In(M, m) \in SUBSET FileIdx
  BY <1>2 DEF In
<1>5. \A m \in LBlock : In(M2, m) = IF m = l THEN In(M, m) \cup {i} ELSE In(M, m)
  BY <1>2, <1>3 DEF In
<1>6. ASSUME NEW S \in SUBSET Used(M) PROVE Taken(M2, S) = Taken(M, S)
  <2>1. S \in SUBSET FileIdx /\ \A j \in S : M2[j].max_size = M[j].max_size
    BY <1>2, <1>3
  <2> QED
    BY <2>1, TakenSame
<1>7. Taken(M2, In(M, l) \cup {i}) = size + Taken(M, In(M, l))
  <2>1. PICK S : S = In(M, l) \cup {i}
    OBVIOUS
  <2>2. S \in SUBSET FileIdx /\ i \in S /\ S \ {i} = In(M, l)
    BY <1>4, <2>1
  <2>3. Taken(M2, S) = M2[i].max_size + Taken(M2, S \ {i})
    BY <2>2, RoomNat
  <2>4. Taken(M2, In(M, l)) = Taken(M, In(M, l))
    BY <1>4, <1>6
  <2> QED
    BY <2>1, <2>2, <2>3, <2>4
<1>8. \A m \in LBlock : /\ Taken(M, In(M, m)) \in Nat /\ DataFrom(m) \in Nat
                        /\ B[m].free_size \in Nat
                        /\ DataFrom(m) + Taken(M, In(M, m)) + B[m].free_size = BlockSize
  <2>1. \A m \in LBlock : Taken(M, In(M, m)) \in Nat
    BY <1>4, RoomNat
  <2> QED
    BY <2>1, Constants DEF Packed, DataFrom, Tables, BlockMetas
<1>9. ASSUME NEW m \in LBlock
      PROVE  DataFrom(m) + Taken(M2, In(M2, m)) + B2[m].free_size = BlockSize
  <2>1. CASE m = l
    <3>1. Taken(M2, In(M2, m)) = size + Taken(M, In(M, l))
      BY <1>5, <1>7, <2>1
    <3> QED
      BY <1>8, <2>1, <3>1
  <2>2. CASE m # l
    <3>1. Taken(M2, In(M2, m)) = Taken(M, In(M, m))
      BY <1>4, <1>5, <1>6, <2>2
    <3> QED
      BY <1>8, <2>2, <3>1
  <2> QED
    BY <2>1, <2>2
<1>10. ASSUME NEW j \in Used(M), M[j].lblock = l
       PROVE  M[j].data_idx < M2[i].data_idx
  <2>1. /\ M[j] \in FileMetas /\ M[j].data_idx + M[j].max_size + B[l].free_size <= BlockSize
        /\ M[j].max_size > 0
    BY <1>10, Extent
  <2> QED
    BY <1>1, <1>8, <2>1 DEF FileMetas
<1>11. ASSUME NEW j \in Used(M)
       PROVE  /\ M2[j].max_size > 0 /\ M2[j].cur_size <= M2[j].max_size
              /\ M2[j].data_idx = DataFrom(M2[j].lblock) + Taken(M2, Before(M2, j))
              /\ \A k \in Used(M2) \ {j} :
                   /\ M2[k].id # M2[j].id
                   /\ M2[k].lblock = M2[j].lblock => M2[k].data_idx # M2[j].data_idx
  <2>1. M2[j] = M[j] /\ M[j] \in FileMetas /\ j \in FileIdx
    BY <1>3, Extent
  <2>2. /\ M[j].max_size > 0 /\ M[j].cur_size <= M[j].max_size
        /\ M[j].data_idx = DataFrom(M[j].lblock) + Taken(M, Before(M, j))
        /\ \A k \in Used(M) \ {j} :
             /\ M[k].id # M[j].id
             /\ M[k].lblock = M[j].lblock => M[k].data_idx # M[j].data_idx
    BY DEF Packed
  <2>3. Before(M2, j) = Before(M, j)
    <3>1. \A k \in Used(M) : k \in Before(M2, j) <=> k \in Before(M, j)
      BY <1>2, <1>3, <2>1 DEF Before, In
    <3>2. i \notin Before(M2, j)
      <4>1. CASE M[j].lblock = l
        <5>1. M[j].data_idx < M2[i].data_idx /\ M[j].data_idx \in Nat /\ M2[i].data_idx \in Nat
          BY <1>10, <2>1, <4>1 DEF FileMetas, Tables
        <5> QED
          BY <2>1, <5>1 DEF Before
      <4>2. CASE M[j].lblock # l
        BY <2>1, <4>2 DEF Before, In
      <4> QED
        BY <4>1, <4>2
    <3>3. Before(M2, j) \subseteq Used(M) \cup {i} /\ Before(M, j) \subseteq Used(M)
      BY <1>2 DEF Before, In
    <3> QED
      BY <3>1, <3>2, <3>3
  <2>4. Taken(M2, Before(M2, j)) = Taken(M, Before(M, j))
    <3>1. Before(M, j) \in SUBSET Used(M)
      BY DEF Before, In
    <3> QED
      BY <1>6, <2>3, <3>1
  <2>5. ASSUME NEW k \in Used(M2) \ {j}
        PROVE  /\ M2[k].id # M2[j].id
               /\ M2[k].lblock = M2[j].lblock => M2[k].data_idx # M2[j].data_idx
    <3>1. CASE k = i
      <4>1. M[j].id # f /\ M[j].data_idx \in Nat
        BY <2>1 DEF FileMetas
      <4>2. M[j].lblock = l => M[j].data_idx < M2[i].data_idx
        BY <1>10
      <4> QED
        BY <2>1, <3>1, <4>1, <4>2
    <3>2. CASE k # i
      BY <1>2, <1>3, <2>1, <2>2, <3>2
    <3> QED
      BY <3>1, <3>2
  <2> QED
    BY <2>1, <2>2, <2>4, <2>5
<1>12. /\ M2[i].max_size > 0 /\ M2[i].cur_size <= M2[i].max_size
       /\ M2[i].data_idx = DataFrom(M2[i].lblock) + Taken(M2, Before(M2, i))
       /\ \A k \in Used(M2) \ {i} :
            /\ M2[k].id # M2[i].id
            /\ M2[k].lblock = M2[i].lblock => M2[k].data_idx # M2[i].data_idx
  <2>1. Before(M2, i) = In(M, l)
    <3>1. \A k \in Used(M) : k \in Before(M2, i) <=> k \in In(M, l)
      BY <1>2, <1>3, <1>10 DEF Before, In
    <3>2. i \notin Before(M2, i)
      BY DEF Before, Tables, FileMetas
    <3>3. Before(M2, i) \subseteq Used(M) \cup {i} /\ In(M, l) \subseteq Used(M)
      BY <1>2 DEF Before, In
    <3> QED
      BY <3>1, <3>2, <3>3
  <2>2. Taken(M2, Before(M2, i)) = Taken(M, In(M, l))
    BY <1>4, <1>6, <2>1
  <2>3. M2[i].data_idx = DataFrom(l) + Taken(M, In(M, l))
    BY <1>1, <1>8
  <2>4. ASSUME NEW k \in Used(M2) \ {i}
        PROVE  /\ M2[k].id # M2[i].id
               /\ M2[k].lblock = M2[i].lblock => M2[k].data_idx # M2[i].data_idx
    <3>1. k \in Used(M) /\ M2[k] = M[k] /\ k \in FileIdx
      BY <1>2, <1>3
    <3>2. M[k].id # f /\ (M[k].lblock = l => M[k].data_idx < M2[i].data_idx)
            /\ M[k].data_idx \in Nat
      BY <1>10, <3>1 DEF Tables, FileMetas
    <3> QED
      BY <3>1, <3>2
  <2> QED
    BY <2>2, <2>3, <2>4
<1> QED
  BY <1>2, <1>9, <1>11, <1>12 DEF Packed

\* its_flash_fs_file_delete(): the files behind the deleted one move up.
BehindOf(M, i) ==
  {j \in FileIdx \ {i} : M[j].id # NULL /\ M[j].lblock = M[i].lblock
                           /\ M[j].data_idx > M[i].data_idx}

\* The files of a block still lie behind each other.
LEMMA PackedDelete ==
  ASSUME NEW B, NEW M, NEW B2, NEW M2, Tables(B, M), Packed(B, M), Tables(B2, M2),
         NEW i \in Used(M), M2[i].id = NULL,
         \A j \in FileIdx \ {i} :
           /\ M2[j].id = M[j].id /\ M2[j].lblock = M[j].lblock
           /\ M2[j].max_size = M[j].max_size /\ M2[j].cur_size = M[j].cur_size
           /\ M2[j].data_idx = IF j \in BehindOf(M, i) THEN M[j].data_idx - M[i].max_size
                               ELSE M[j].data_idx,
         \A m \in LBlock : B2[m].free_size = IF m = M[i].lblock THEN B[m].free_size + M[i].max_size
                                             ELSE B[m].free_size
  PROVE  Packed(B2, M2)
<1>1. PICK l : l = M[i].lblock
  OBVIOUS
<1>2. l \in LBlock /\ i \in FileIdx /\ M[i] \in FileMetas /\ i \in In(M, l) /\ M[i].max_size > 0
  BY <1>1, Extent
<1>3. Used(M2) = Used(M) \ {i} /\ Used(M) \in SUBSET FileIdx
  BY DEF Used
<1>4. \A m \in LBlock : In(M2, m) = In(M, m) \ {i}
  BY <1>3 DEF In
<1>5. \A m \in LBlock : In(M, m) \in SUBSET FileIdx /\ (m # l => i \notin In(M, m))
  BY <1>1, <1>3 DEF In
<1>6. ASSUME NEW S \in SUBSET (FileIdx \ {i}) PROVE Taken(M2, S) = Taken(M, S)
  <2>1. S \in SUBSET FileIdx /\ \A j \in S : M2[j].max_size = M[j].max_size
    OBVIOUS
  <2> QED
    BY <2>1, TakenSame
<1>7. \A m \in LBlock : /\ Taken(M, In(M, m) \ {i}) \in Nat /\ DataFrom(m) \in Nat
                        /\ Taken(M, In(M, m)) \in Nat /\ B[m].free_size \in Nat
                        /\ DataFrom(m) + Taken(M, In(M, m)) + B[m].free_size = BlockSize
  <2>1. \A m \in LBlock : Taken(M, In(M, m)) \in Nat /\ Taken(M, In(M, m) \ {i}) \in Nat
    <3>1. \A m \in LBlock : In(M, m) \ {i} \in SUBSET FileIdx
      BY <1>5
    <3> QED
      BY <1>5, <3>1, RoomNat
  <2> QED
    BY <2>1, Constants DEF Packed, DataFrom, Tables, BlockMetas
<1>8. ASSUME NEW m \in LBlock
      PROVE  DataFrom(m) + Taken(M2, In(M2, m)) + B2[m].free_size = BlockSize
  <2>1. Taken(M2, In(M2, m)) = Taken(M, In(M, m) \ {i})
    <3>1. In(M, m) \ {i} \in SUBSET (FileIdx \ {i})
      BY <1>5
    <3> QED
      BY <1>4, <1>6, <3>1
  <2>2. CASE m = l
    <3>1. Taken(M, In(M, m)) = M[i].max_size + Taken(M, In(M, m) \ {i})
      BY <1>2, <1>5, <2>2, RoomNat
    <3>2. B2[m].free_size = B[m].free_size + M[i].max_size /\ M[i].max_size \in Nat
      BY <1>1, <1>2, <2>2 DEF FileMetas
    <3> QED
      BY <1>7, <2>1, <3>1, <3>2
  <2>3. CASE m # l
    <3>1. In(M, m) \ {i} = In(M, m) /\ B2[m].free_size = B[m].free_size
      BY <1>1, <1>5, <2>3
    <3> QED
      BY <1>7, <2>1, <3>1
  <2> QED
    BY <2>2, <2>3
<1>9. \A j \in Used(M) : /\ M[j] \in FileMetas /\ M[j].data_idx \in Nat /\ M[j].max_size \in Nat
                         /\ M[j].max_size > 0 /\ j \in FileIdx
  BY Extent DEF FileMetas
<1>10. ASSUME NEW j \in Used(M) \ {i}, NEW k \in Used(M) \ {i}, M[j].lblock = M[k].lblock,
              M[j].data_idx < M[k].data_idx
       PROVE  M2[j].data_idx < M2[k].data_idx
  <2>1. PICK x, y, z, s : x = M[j].data_idx /\ y = M[k].data_idx /\ z = M[i].data_idx
                            /\ s = M[i].max_size
    OBVIOUS
  <2>2. x \in Nat /\ y \in Nat /\ z \in Nat /\ s \in Nat /\ s > 0 /\ x < y
    BY <1>9, <1>10, <2>1
  <2>3. M[j].lblock = l => (j \in BehindOf(M, i) <=> x > z)
    BY <1>1, <1>3, <2>1 DEF BehindOf, Used
  <2>4. M[k].lblock = l => (k \in BehindOf(M, i) <=> y > z)
    BY <1>1, <1>3, <2>1 DEF BehindOf, Used
  <2>5. M[j].lblock # l => j \notin BehindOf(M, i) /\ k \notin BehindOf(M, i)
    BY <1>1, <1>10 DEF BehindOf
  <2>6. M[k].lblock = l /\ y > z => y >= z + s
    BY <1>1, <2>1, Apart
  <2>7. M[j].lblock = l => x # z
    BY <1>1, <2>1 DEF Packed
  <2>8. /\ M2[j].data_idx = IF j \in BehindOf(M, i) THEN x - s ELSE x
        /\ M2[k].data_idx = IF k \in BehindOf(M, i) THEN y - s ELSE y
    BY <1>3, <2>1
  <2> QED
    BY <1>10, <2>2, <2>3, <2>4, <2>5, <2>6, <2>7, <2>8
<1>11. ASSUME NEW j \in Used(M) \ {i} PROVE Before(M2, j) = Before(M, j) \ {i}
  <2>1. ASSUME NEW k \in Used(M) \ {i} PROVE k \in Before(M2, j) <=> k \in Before(M, j)
    <3>1. M2[k].lblock = M[k].lblock /\ M2[j].lblock = M[j].lblock /\ k \in Used(M2)
      BY <1>3
    <3>2. CASE M[k].lblock # M[j].lblock
      BY <3>1, <3>2 DEF Before, In
    <3>3. CASE M[k].lblock = M[j].lblock
      <4>1. k \in Before(M2, j) <=> M2[k].data_idx < M2[j].data_idx
        BY <3>1, <3>3 DEF Before, In
      <4>2. k \in Before(M, j) <=> M[k].data_idx < M[j].data_idx
        BY <3>3 DEF Before, In
      <4>3. M[k].data_idx \in Nat /\ M[j].data_idx \in Nat /\ M2[k].data_idx \in Nat
              /\ M2[j].data_idx \in Nat
        BY <1>3, <1>9 DEF Tables, FileMetas
      <4>4. k # j => M[k].data_idx # M[j].data_idx
        BY <3>3 DEF Packed
      <4>5. M[k].data_idx < M[j].data_idx => M2[k].data_idx < M2[j].data_idx
        BY <1>10, <3>3
      <4>6. M[j].data_idx < M[k].data_idx => M2[j].data_idx < M2[k].data_idx
        BY <1>10, <3>3
      <4> QED
        BY <4>1, <4>2, <4>3, <4>4, <4>5, <4>6
    <3> QED
      BY <3>2, <3>3
  <2>2. Before(M2, j) \subseteq Used(M) \ {i} /\ Before(M, j) \subseteq Used(M)
    BY <1>3 DEF Before, In
  <2> QED
    BY <2>1, <2>2
<1>12. ASSUME NEW j \in Used(M2)
       PROVE  /\ M2[j].max_size > 0 /\ M2[j].cur_size <= M2[j].max_size
              /\ M2[j].data_idx = DataFrom(M2[j].lblock) + Taken(M2, Before(M2, j))
              /\ \A k \in Used(M2) \ {j} :
                   /\ M2[k].id # M2[j].id
                   /\ M2[k].lblock = M2[j].lblock => M2[k].data_idx # M2[j].data_idx
  <2>1. j \in Used(M) \ {i} /\ j \in FileIdx \ {i}
    BY <1>3
  <2>2. /\ M[j].max_size > 0 /\ M[j].cur_size <= M[j].max_size
        /\ M[j].data_idx = DataFrom(M[j].lblock) + Taken(M, Before(M, j))
        /\ \A k \in Used(M) \ {j} :
             /\ M[k].id # M[j].id
             /\ M[k].lblock = M[j].lblock => M[k].data_idx # M[j].data_idx
    BY <2>1 DEF Packed
  <2>3. PICK S : S = Before(M, j)
    OBVIOUS
  <2>4. S \in SUBSET FileIdx /\ S \ {i} \in SUBSET (FileIdx \ {i})
    BY <1>3, <2>3 DEF Before, In
  <2>5. Taken(M2, Before(M2, j)) = Taken(M, S \ {i})
    BY <1>6, <1>11, <2>1, <2>3, <2>4
  <2>6. Taken(M, S \ {i}) \in Nat
    <3>1. S \ {i} \in SUBSET FileIdx
      BY <2>4
    <3> QED
      BY <3>1, RoomNat
  <2>7. M[j].lblock \in LBlock /\ M2[j].lblock = M[j].lblock /\ DataFrom(M[j].lblock) \in Nat
    BY <1>7, <2>1, Extent
  <2>8. M2[j].data_idx = DataFrom(M2[j].lblock) + Taken(M2, Before(M2, j))
    <3>1. CASE j \in BehindOf(M, i)
      <4>1. i \in S
        BY <1>1, <1>2, <1>9, <2>1, <2>3, <3>1 DEF BehindOf, Before
      <4>2. Taken(M, S) = M[i].max_size + Taken(M, S \ {i})
        <5>1. S \in SUBSET FileIdx
          BY <2>4
        <5> QED
          BY <4>1, <5>1, TakenWith
      <4>3. M2[j].data_idx = M[j].data_idx - M[i].max_size
        BY <2>1, <3>1
      <4>4. M[i].max_size \in Nat
        BY <1>9
      <4> QED
        BY <2>2, <2>3, <2>5, <2>6, <2>7, <4>2, <4>3, <4>4
    <3>2. CASE j \notin BehindOf(M, i)
      <4>1. i \notin S
        BY <1>1, <1>2, <1>9, <2>1, <2>3, <3>2 DEF BehindOf, Before, In, Used
      <4>2. S \ {i} = S
        BY <4>1
      <4>3. M2[j].data_idx = M[j].data_idx
        BY <2>1, <3>2
      <4> QED
        BY <2>2, <2>3, <2>5, <2>7, <4>2, <4>3
    <3> QED
      BY <3>1, <3>2
  <2>9. ASSUME NEW k \in Used(M2) \ {j}
        PROVE  /\ M2[k].id # M2[j].id
               /\ M2[k].lblock = M2[j].lblock => M2[k].data_idx # M2[j].data_idx
    <3>1. k \in Used(M) \ {i} /\ k \in FileIdx \ {i} /\ k # j
      BY <1>3
    <3>2. M2[k].id # M2[j].id
      BY <2>1, <2>2, <3>1
    <3>3. ASSUME M2[k].lblock = M2[j].lblock PROVE M2[k].data_idx # M2[j].data_idx
      <4>1. M[k].lblock = M[j].lblock /\ M[k].data_idx # M[j].data_idx
        BY <2>1, <2>2, <3>1, <3>3
      <4>2. M[k].data_idx < M[j].data_idx \/ M[j].data_idx < M[k].data_idx
        BY <1>9, <2>1, <3>1, <4>1
      <4>3. M2[k].data_idx < M2[j].data_idx \/ M2[j].data_idx < M2[k].data_idx
        BY <1>10, <2>1, <3>1, <4>1, <4>2
      <4>4. M2[k].data_idx \in Nat /\ M2[j].data_idx \in Nat
        BY <2>1, <3>1 DEF Tables, FileMetas
      <4> QED
        BY <4>3, <4>4
    <3> QED
      BY <3>2, <3>3
  <2> QED
    BY <2>1, <2>2, <2>8, <2>9
<1> QED
  BY <1>8, <1>12 DEF Packed
-----------------------------------------------------------------------------
(* What the operations make of the flash *)

\* The context, the table of logical blocks and the flash after an operation on
\* a file of logical block l, which leaves fr free in it, with file table M2 and
\* the given cells in the data block.
NewCtx(c, B, l) ==
  [active |-> c.scratch, scratch |-> c.active,
   dblock |-> IF l = 0 THEN c.dblock ELSE B[l].phy_id, count |-> NextCount(c.count)]

NewBlocks(c, B, l, fr) ==
  [m \in LBlock |->
     [phy_id |-> IF m = 0 THEN c.scratch ELSE IF m = l THEN c.dblock ELSE B[m].phy_id,
      data_start |-> B[m].data_start,
      free_size |-> IF m = l THEN fr ELSE B[m].free_size]]

NewItem(F, c, B, l, d, B2, M2, cell, x, p) ==
  IF x = c.scratch
    THEN CASE p[1] = "header" -> d.dblock
           [] p[1] = "count" -> d.count
           [] p[1] = "block" -> B2[p[2]]
           [] p[1] = "file" -> M2[p[2]]
           [] OTHER -> IF l = 0 THEN cell[p[2]]
                       ELSE IF p[2] \in DataStart..(BlockSize - B[0].free_size - 1)
                              THEN F[c.active][p] ELSE ERASED
    ELSE IF x = c.dblock /\ l # 0 /\ p[1] = "cell" THEN cell[p[2]] ELSE F[x][p]

NewFlash(F, c, B, l, d, B2, M2, cell) ==
  [x \in Block |-> [p \in Pos |-> NewItem(F, c, B, l, d, B2, M2, cell, x, p)]]

\* The items of the new flash.
LEMMA NewFlashIs ==
  ASSUME NEW F, NEW c, NEW B, NEW l, NEW d, NEW B2, NEW M2, NEW cell, NEW G,
         IsCtx(c), l \in LBlock, G = NewFlash(F, c, B, l, d, B2, M2, cell)
  PROVE  /\ IsFlash(G)
         /\ G[c.scratch][HEADER] = d.dblock /\ G[c.scratch][COUNT] = d.count
         /\ \A m \in LBlock : G[c.scratch][BLOCK(m)] = B2[m]
         /\ \A i \in FileIdx : G[c.scratch][FILE(i)] = M2[i]
         /\ \A k \in 0..(BlockSize - 1) :
              /\ l = 0 => G[c.scratch][CELL(k)] = cell[k]
              /\ l # 0 => G[c.dblock][CELL(k)] = cell[k]
              /\ l # 0 => G[c.scratch][CELL(k)]
                            = IF k \in DataStart..(BlockSize - B[0].free_size - 1)
                                THEN F[c.active][CELL(k)] ELSE ERASED
         /\ \A x \in Block, p \in Pos :
              x \notin Spare(c) \/ (x # c.scratch /\ (l = 0 \/ p[1] # "cell")) => G[x][p] = F[x][p]
<1>1. \A x \in Block, p \in Pos : G[x][p] = NewItem(F, c, B, l, d, B2, M2, cell, x, p)
  BY DEF NewFlash
<1>2. IsFlash(G)
  <2>1. PICK V : V = {G[y[1]][y[2]] : y \in Block \X Pos}
    OBVIOUS
  <2>2. \A x \in Block, p \in Pos : G[x][p] \in V
    <3>1. ASSUME NEW x \in Block, NEW p \in Pos PROVE G[x][p] \in V
      <4>1. PICK y : y = <<x, p>>
        OBVIOUS
      <4>2. y \in Block \X Pos /\ y[1] = x /\ y[2] = p
        BY <4>1
      <4> QED
        BY <2>1, <4>2
    <3> QED
      BY <3>1
  <2>3. \A x \in Block : G[x] \in [Pos -> V]
    <3>1. ASSUME NEW x \in Block PROVE G[x] \in [Pos -> V]
      <4>1. G[x] = [p \in Pos |-> NewItem(F, c, B, l, d, B2, M2, cell, x, p)]
        BY DEF NewFlash
      <4>2. \A p \in Pos : NewItem(F, c, B, l, d, B2, M2, cell, x, p) \in V
        BY <1>1, <2>2
      <4> QED
        BY <4>1, <4>2
    <3> QED
      BY <3>1
  <2>4. G \in [Block -> [Pos -> V]]
    <3>1. PICK W : W = [Pos -> V]
      OBVIOUS
    <3>2. \A x \in Block : [p \in Pos |-> NewItem(F, c, B, l, d, B2, M2, cell, x, p)] \in W
      BY <2>3, <3>1 DEF NewFlash
    <3> QED
      BY <3>1, <3>2 DEF NewFlash
  <2> QED
    BY <2>4 DEF IsFlash
<1>3. c.scratch \in Block /\ (l # 0 => c.dblock \in Block /\ c.dblock # c.scratch)
  BY SpareBlocks, Blocks
<1>4. G[c.scratch][HEADER] = d.dblock /\ G[c.scratch][COUNT] = d.count
  BY <1>1, <1>3, Places DEF NewItem, HEADER, COUNT
<1>5. \A m \in LBlock : G[c.scratch][BLOCK(m)] = B2[m]
  BY <1>1, <1>3, Places DEF NewItem, BLOCK
<1>6. \A i \in FileIdx : G[c.scratch][FILE(i)] = M2[i]
  BY <1>1, <1>3, Places DEF NewItem, FILE
<1>7. ASSUME NEW k \in 0..(BlockSize - 1)
      PROVE  /\ l = 0 => G[c.scratch][CELL(k)] = cell[k]
             /\ l # 0 => G[c.dblock][CELL(k)] = cell[k]
             /\ l # 0 => G[c.scratch][CELL(k)]
                            = IF k \in DataStart..(BlockSize - B[0].free_size - 1)
                                THEN F[c.active][CELL(k)] ELSE ERASED
  BY <1>1, <1>3, Places DEF NewItem, CELL
<1>8. ASSUME NEW x \in Block, NEW p \in Pos,
             x \notin Spare(c) \/ (x # c.scratch /\ (l = 0 \/ p[1] # "cell"))
      PROVE  G[x][p] = F[x][p]
  <2>1. x # c.scratch /\ ~(x = c.dblock /\ l # 0 /\ p[1] = "cell")
    <3>1. c.scratch \in Spare(c) /\ (l # 0 => c.dblock \in Spare(c))
      BY SpareBlocks, Blocks
    <3> QED
      BY <1>8, <3>1
  <2> QED
    BY <1>1, <2>1 DEF NewItem
<1> QED
  BY <1>2, <1>4, <1>5, <1>6, <1>7, <1>8

\* The fields of the new context.
LEMMA NewCtxIs ==
  ASSUME NEW F, NEW c, Current(F, c), NEW B, B = BlocksOf(F, c), NEW l \in LBlock,
         NEW d, d = NewCtx(c, B, l)
  PROVE  /\ IsCtx(c) /\ IsCtx(d) /\ d.active = c.scratch /\ d.scratch = c.active
         /\ d.dblock = IF l = 0 THEN c.dblock ELSE B[l].phy_id
         /\ d.count = NextCount(c.count) /\ c.count \in 0..(EraseVal - 1)
<1>1. IsCtx(c) /\ Tables(B, FilesOf(F, c)) /\ Placed(c, B, FilesOf(F, c))
  BY DEF Current, Sound, Layout
<1>2. NextCount(c.count) \in 0..(EraseVal - 1) /\ c.count \in 0..(EraseVal - 1)
  BY <1>1, Constants DEF NextCount, IsCtx
<1>3. l # 0 => NumBlocks > 2 /\ B[l].phy_id \in 2..(NumBlocks - 1)
  BY <1>1, Blocks DEF Placed
<1>4. PICK x, n : x = d.dblock /\ n = NextCount(c.count)
  OBVIOUS
<1>5. /\ d.active = c.scratch /\ d.scratch = c.active
      /\ d.dblock = IF l = 0 THEN c.dblock ELSE B[l].phy_id
      /\ d.count = NextCount(c.count)
  BY DEF NewCtx
<1>6. d.dblock \in Nat /\ (NumBlocks > 2 => d.dblock \in 2..(NumBlocks - 1))
  BY <1>1, <1>3, <1>5, Constants DEF IsCtx
<1>7. c.scratch \in MetaBlock /\ c.active \in MetaBlock /\ c.active = 1 - c.scratch
  BY <1>1 DEF IsCtx, MetaBlock
<1>8. d \in [active: MetaBlock, scratch: MetaBlock, dblock: Nat, count: 0..(EraseVal - 1)]
  BY <1>2, <1>5, <1>6, <1>7 DEF NewCtx
<1>9. IsCtx(d)
  BY <1>5, <1>6, <1>7, <1>8 DEF IsCtx
<1> QED
  BY <1>1, <1>2, <1>5, <1>9

\* The new table of blocks gives each logical block its physical block.
LEMMA NewBlocksIs ==
  ASSUME NEW c, NEW B, NEW M, NEW M2, NEW l \in LBlock, NEW fr \in Nat, IsCtx(c),
         Tables(B, M), Placed(c, B, M), M2 \in [FileIdx -> FileMetas],
         NEW d, d = NewCtx(c, B, l), NEW B2, B2 = NewBlocks(c, B, l, fr)
  PROVE  /\ Tables(B2, M2) /\ Placed(d, B2, M2)
         /\ \A m \in LBlock : /\ B2[m].phy_id = IF m = 0 THEN c.scratch
                                                ELSE IF m = l THEN c.dblock ELSE B[m].phy_id
                              /\ B2[m].data_start = B[m].data_start
                              /\ B2[m].free_size = IF m = l THEN fr ELSE B[m].free_size
<1>1. /\ c.scratch \in Block /\ c.scratch \in {0, 1}
      /\ l # 0 => NumBlocks > 2 /\ c.dblock \in Block /\ c.dblock \in 2..(NumBlocks - 1)
  BY SpareBlocks, Blocks DEF IsCtx
<1>0. d.active = c.scratch /\ d.dblock = IF l = 0 THEN c.dblock ELSE B[l].phy_id
  BY DEF NewCtx
<1>2. ASSUME NEW m \in LBlock
      PROVE  /\ B2[m].phy_id = IF m = 0 THEN c.scratch
                               ELSE IF m = l THEN c.dblock ELSE B[m].phy_id
             /\ B2[m].data_start = B[m].data_start
             /\ B2[m].free_size = IF m = l THEN fr ELSE B[m].free_size
             /\ B2[m] \in BlockMetas
  <2>1. B[m] \in BlockMetas
    BY DEF Tables
  <2> QED
    BY <1>1, <2>1 DEF NewBlocks, BlockMetas
<1>3. B2 \in [LBlock -> BlockMetas]
  BY <1>2 DEF NewBlocks
<1>4. \A m \in LBlock : B2[m].data_start = DataFrom(m)
  BY <1>2 DEF Placed
<1>5. B2[0].phy_id = d.active
  BY <1>0, <1>2, Blocks
<1>6. ASSUME NEW m \in LBlock \ {0}
      PROVE  /\ B2[m].phy_id \in 2..(NumBlocks - 1) /\ B2[m].phy_id # d.dblock
             /\ \A n \in LBlock \ {0, m} : B2[n].phy_id # B2[m].phy_id
  <2>1. \A n \in LBlock \ {0} : /\ B[n].phy_id \in 2..(NumBlocks - 1) /\ B[n].phy_id # c.dblock
                                /\ \A k \in LBlock \ {0, n} : B[k].phy_id # B[n].phy_id
    BY DEF Placed
  <2>2. \A n \in LBlock \ {0} : B2[n].phy_id = IF n = l THEN c.dblock ELSE B[n].phy_id
    BY <1>2
  <2>3. B2[m].phy_id \in 2..(NumBlocks - 1)
    BY <1>1, <2>1, <2>2
  <2>4. B2[m].phy_id # d.dblock
    <3>1. CASE m = l
      BY <1>0, <2>1, <2>2, <3>1
    <3>2. CASE m # l
      BY <1>0, <2>1, <2>2, <3>2
    <3> QED
      BY <3>1, <3>2
  <2>5. \A n \in LBlock \ {0, m} : B2[n].phy_id # B2[m].phy_id
    BY <2>1, <2>2
  <2> QED
    BY <2>3, <2>4, <2>5
<1>7. Placed(d, B2, M2)
  BY <1>4, <1>5, <1>6 DEF Placed
<1> QED
  BY <1>2, <1>3, <1>7 DEF Tables
-----------------------------------------------------------------------------
\* The new context is current in the new flash.
LEMMA NewCurrent ==
  ASSUME NEW F, NEW c, Current(F, c), NEW B, NEW M, B = BlocksOf(F, c), M = FilesOf(F, c),
         NEW l \in LBlock, NEW fr \in Nat, NEW M2 \in [FileIdx -> FileMetas], NEW cell,
         NEW d, d = NewCtx(c, B, l), NEW B2, B2 = NewBlocks(c, B, l, fr),
         NEW G, G = NewFlash(F, c, B, l, d, B2, M2, cell),
         Packed(B2, M2), Typed(G, B2, M2)
  PROVE  Current(G, d) /\ BlocksOf(G, d) = B2 /\ FilesOf(G, d) = M2
<1>1. /\ IsCtx(c) /\ IsCtx(d) /\ d.active = c.scratch /\ d.scratch = c.active
      /\ d.dblock = IF l = 0 THEN c.dblock ELSE B[l].phy_id
      /\ d.count = NextCount(c.count) /\ c.count \in 0..(EraseVal - 1)
  BY NewCtxIs
<1>2. /\ G[c.scratch][HEADER] = d.dblock /\ G[c.scratch][COUNT] = d.count
      /\ \A m \in LBlock : G[c.scratch][BLOCK(m)] = B2[m]
      /\ \A i \in FileIdx : G[c.scratch][FILE(i)] = M2[i]
  BY <1>1, NewFlashIs
<1>3. Tables(B, M) /\ Placed(c, B, M) /\ F[c.active][COUNT] = c.count
  BY DEF Current, Sound, Layout
<1>4. Tables(B2, M2) /\ Placed(d, B2, M2)
  <2>1. IsCtx(c)
    BY <1>1
  <2> QED
    BY ONLY <2>1, <1>3, l \in LBlock, fr \in Nat, M2 \in [FileIdx -> FileMetas],
       d = NewCtx(c, B, l), B2 = NewBlocks(c, B, l, fr), NewBlocksIs
<1>5. BlocksOf(G, d) = B2 /\ FilesOf(G, d) = M2
  <2>1. B2 \in [LBlock -> BlockMetas]
    BY <1>4 DEF Tables
  <2>2. BlocksOf(G, d) = B2
    BY ONLY <1>1, <1>2, <2>1 DEF BlocksOf
  <2>3. FilesOf(G, d) = M2
    BY ONLY <1>1, <1>2, M2 \in [FileIdx -> FileMetas] DEF FilesOf
  <2> QED
    BY <2>2, <2>3
<1>6. G[c.active][COUNT] = c.count
  <2>1. /\ c.active \in Block /\ c.active \notin Spare(c) /\ COUNT \in Pos
    BY <1>1, SpareBlocks, Places
  <2>2. G[c.active][COUNT] = F[c.active][COUNT]
    BY <1>1, <2>1, NewFlashIs
  <2> QED
    BY <1>3, <2>2
<1>7. Older(G, d)
  BY <1>1, <1>6 DEF Older
<1>8. Sound(G, d)
  BY <1>1, <1>2, <1>4, <1>5 DEF Sound, Layout
<1> QED
  BY <1>5, <1>7, <1>8 DEF Current

\* A file that the operation is not about keeps its asset.
LEMMA NewKept ==
  ASSUME NEW F, NEW c, NEW B, NEW M, IsCtx(c), Tables(B, M), Placed(c, B, M), Packed(B, M),
         NEW l \in LBlock, NEW d, NEW B2, NEW M2, Tables(B2, M2), Packed(B2, M2),
         \A m \in LBlock : B2[m].phy_id = IF m = 0 THEN c.scratch
                                          ELSE IF m = l THEN c.dblock ELSE B[m].phy_id,
         NEW cell, NEW G, G = NewFlash(F, c, B, l, d, B2, M2, cell),
         NEW j \in Used(M), j \in Used(M2),
         M2[j].lblock = M[j].lblock, M2[j].cur_size = M[j].cur_size,
         M2[j].max_size = M[j].max_size, M2[j].once = M[j].once,
         M[j].lblock # l => M2[j].data_idx = M[j].data_idx,
         M[j].lblock = l => \A k \in 1..M[j].cur_size :
            cell[M2[j].data_idx + k - 1] = F[B[l].phy_id][CELL(M[j].data_idx + k - 1)]
  PROVE  AssetAt(G, B2, M2, j) = AssetAt(F, B, M, j)
<1>1. PICK m : m = M[j].lblock
  OBVIOUS
<1>2. m \in LBlock /\ j \in In(M, m) /\ B[m].phy_id \in Block \ Spare(c)
  BY <1>1, NotSpare
<1>3. ASSUME NEW k \in 1..M[j].cur_size
      PROVE  G[B2[m].phy_id][CELL(M2[j].data_idx + k - 1)] = F[B[m].phy_id][CELL(M[j].data_idx + k - 1)]
  <2>1. PICK y, z : y = M2[j].data_idx + k - 1 /\ z = M[j].data_idx + k - 1
    OBVIOUS
  <2>2. z \in 0..(BlockSize - 1) /\ CELL(z) \in Pos /\ z >= DataFrom(m)
          /\ z < M[j].data_idx + M[j].max_size
    BY <1>1, <2>1, CellsOf
  <2>3. y \in 0..(BlockSize - 1) /\ CELL(y) \in Pos
    BY <2>1, CellsOf
  <2>4. CASE m = l
    <3>1. cell[y] = F[B[m].phy_id][CELL(z)]
      BY <1>1, <2>1, <2>4
    <3>2. G[B2[m].phy_id][CELL(y)] = cell[y]
      BY <1>2, <2>3, <2>4, NewFlashIs
    <3> QED
      BY <2>1, <3>1, <3>2
  <2>5. CASE m # l /\ m = 0
    <3>1. B2[m].phy_id = c.scratch /\ B[m].phy_id = c.active
      BY <1>2, <2>5 DEF Placed
    <3>2. y = z
      BY <1>1, <2>1, <2>5
    <3>3. G[c.scratch][CELL(z)] = IF z \in DataStart..(BlockSize - B[0].free_size - 1)
                                THEN F[c.active][CELL(z)] ELSE ERASED
      BY <2>2, <2>5, NewFlashIs
    <3>4. z \in DataStart..(BlockSize - B[0].free_size - 1)
      <4>1. M[j].data_idx + M[j].max_size + B[0].free_size <= BlockSize /\ M[j] \in FileMetas
              /\ B[0] \in BlockMetas
        BY <1>1, <2>5, Extent, ZenonT(60)
      <4> QED
        BY <2>2, <2>5, <4>1, Constants DEF DataFrom, FileMetas, BlockMetas
    <3> QED
      BY <2>1, <3>1, <3>2, <3>3, <3>4
  <2>6. CASE m # l /\ m # 0
    <3>1. B2[m].phy_id = B[m].phy_id
      BY <1>2, <2>6
    <3>2. y = z
      BY <1>1, <2>1, <2>6
    <3>3. G[B[m].phy_id][CELL(z)] = F[B[m].phy_id][CELL(z)]
      BY <1>2, <2>2, NewFlashIs
    <3> QED
      BY <2>1, <3>1, <3>2, <3>3
  <2> QED
    BY <2>4, <2>5, <2>6
<1>4. [k \in 1..M2[j].cur_size |-> G[B2[M2[j].lblock].phy_id][CELL(M2[j].data_idx + k - 1)]]
    = [k \in 1..M[j].cur_size |-> F[B[M[j].lblock].phy_id][CELL(M[j].data_idx + k - 1)]]
  BY <1>1, <1>3
<1> QED
  BY <1>4 DEF AssetAt

\* The assets after an operation on the file f with index i.
LEMMA NewAssets ==
  ASSUME NEW F, NEW B, NEW M, NEW G, NEW B2, NEW M2, Tables(B, M), Packed(B, M),
         Tables(B2, M2), Packed(B2, M2), NEW i \in FileIdx, NEW f \in Fid,
         \A j \in FileIdx \ {i} : M2[j].id = M[j].id,
         \A j \in Used(M) \ {i} : AssetAt(G, B2, M2, j) = AssetAt(F, B, M, j),
         M[i].id = f \/ (M[i].id = NULL /\ \A j \in FileIdx : M[j].id # f),
         M2[i].id \in {f, NULL},
         NEW X, X = IF M2[i].id = NULL THEN NULL ELSE AssetAt(G, B2, M2, i)
  PROVE  AssetsIn(G, B2, M2) = [AssetsIn(F, B, M) EXCEPT ![f] = X]
<1>1. ASSUME NEW g \in Fid
      PROVE  AssetsIn(G, B2, M2)[g] = IF g = f THEN X ELSE AssetsIn(F, B, M)[g]
  <2>1. g # NULL /\ f # NULL
    BY Constants
  <2>2. CASE g = f /\ M2[i].id = f
    <3>1. AssetsIn(G, B2, M2)[f] = AssetAt(G, B2, M2, i)
      BY <2>2, AssetOfFile
    <3> QED
      BY <2>1, <2>2, <3>1
  <2>3. CASE g = f /\ M2[i].id = NULL
    <3>1. \A j \in FileIdx : M2[j].id # f
      <4>1. ASSUME NEW j \in FileIdx, j # i PROVE M[j].id # f
        BY <2>1, <4>1 DEF Packed, Used
      <4> QED
        BY <2>1, <2>3, <4>1
    <3> QED
      BY <2>3, <3>1 DEF AssetsIn
  <2>4. CASE g # f /\ \E j \in FileIdx : M[j].id = g
    <3>1. PICK j \in FileIdx : M[j].id = g
      BY <2>4
    <3>2. j # i /\ M2[j].id = g
      BY <2>1, <2>4, <3>1
    <3>3. AssetsIn(F, B, M)[g] = AssetAt(F, B, M, j) /\ j \in Used(M)
      BY <3>1, AssetOfFile
    <3>4. AssetsIn(G, B2, M2)[g] = AssetAt(G, B2, M2, j)
      BY <3>2, AssetOfFile
    <3> QED
      BY <2>4, <3>2, <3>3, <3>4
  <2>5. CASE g # f /\ \A j \in FileIdx : M[j].id # g
    <3>1. \A j \in FileIdx : M2[j].id # g
      BY <2>1, <2>5
    <3> QED
      BY <2>5, <3>1 DEF AssetsIn
  <2> QED
    BY <2>2, <2>3, <2>4, <2>5
<1>2. PICK A, A2 : A = AssetsIn(F, B, M) /\ A2 = AssetsIn(G, B2, M2)
  OBVIOUS
<1>3. A2 = [g \in Fid |-> A2[g]] /\ A = [g \in Fid |-> A[g]]
  BY <1>2 DEF AssetsIn
<1>4. A2 = [A EXCEPT ![f] = X]
  <2>1. \A g \in Fid : A2[g] = IF g = f THEN X ELSE A[g]
    BY <1>1, <1>2
  <2> QED
    BY <1>3, <2>1
<1> QED
  BY <1>2, <1>4
-----------------------------------------------------------------------------
(* What the operations program *)

\* Ranges of items that do not meet.
LEMMA LocsApart ==
  ASSUME NEW b, NEW kind, NEW a1 \in Int, NEW e1 \in Int, NEW a2 \in Int, NEW e2 \in Int,
         e1 < a2 \/ e2 < a1
  PROVE  Locs(b, kind, a1, e1) \cap Locs(b, kind, a2, e2) = {}
<1>1. ASSUME NEW x \in Locs(b, kind, a1, e1), x \in Locs(b, kind, a2, e2) PROVE FALSE
  <2>1. PICK k \in a1..e1 : x = <<b, <<kind, k>>>>
    BY DEF Locs
  <2>2. PICK m \in a2..e2 : x = <<b, <<kind, m>>>>
    BY <1>1 DEF Locs
  <2>3. k = m
    BY <2>1, <2>2
  <2> QED
    BY <2>3
<1> QED
  BY <1>1

\* A range of one item.
LEMMA LocsOne ==
  ASSUME NEW b, NEW kind, NEW a \in Int
  PROVE  {<<b, <<kind, a>>>> } = Locs(b, kind, a, a)
<1>1. a..a = {a}
  OBVIOUS
<1> QED
  BY <1>1 DEF Locs

\* Two ranges of items, one behind the other.
LEMMA LocsJoin ==
  ASSUME NEW b, NEW kind, NEW a \in Int, NEW n \in Int, NEW m \in Int, NEW e \in Int,
         m = n + 1, a <= m, m <= e + 1
  PROVE  Locs(b, kind, a, n) \cup Locs(b, kind, m, e) = Locs(b, kind, a, e)
<1>1. \A k : k \in a..e <=> k \in a..n \/ k \in m..e
  OBVIOUS
<1> QED
  BY <1>1 DEF Locs

\* Two ranges of one kind of items.
LEMMA RealisesTwo ==
  ASSUME NEW s, NEW t, NEW G, NEW b, NEW kind, NEW a1 \in Int, NEW e1 \in Int,
         NEW a2 \in Int, NEW e2 \in Int, e1 < a2 \/ e2 < a1,
         Realises(s, Locs(b, kind, a1, e1), G, {}), Realises(t, Locs(b, kind, a2, e2), G, {})
  PROVE  Realises(s \o t, Locs(b, kind, a1, e1) \cup Locs(b, kind, a2, e2), G, {})
BY LocsApart, RealisesCat

\* One write, as a range of items.
LEMMA RealisesOneAt ==
  ASSUME NEW G, NEW b \in Block, NEW kind, NEW a \in Int, <<kind, a>> \in Pos, NEW v,
         v = G[b][<<kind, a>>]
  PROVE  Realises(<<Write(b, <<kind, a>>, v)>>, Locs(b, kind, a, a), G, {})
<1>1. PICK p, N : p = <<kind, a>> /\ N = {}
  OBVIOUS
<1>2. p \in Pos /\ v = G[b][p] /\ b \notin N
  BY <1>1
<1>3. Realises(<<Write(b, p, v)>>, {<<b, p>>}, G, N)
  BY <1>2, RealisesOne
<1>4. {<<b, p>>} = Locs(b, kind, a, a)
  BY <1>1, LocsOne
<1> QED
  BY <1>1, <1>3, <1>4

\* A range of items with given values.
LEMMA RealisesItems ==
  ASSUME NEW G, NEW b \in Block, NEW kind, NEW a \in Nat, NEW n \in Nat, NEW v, NEW s,
         \A k \in a..(a + n - 1) : <<kind, k>> \in Pos,
         \A k \in 1..n : G[b][<<kind, a + k - 1>>] = v[k],
         s = [k \in 1..n |-> Write(b, <<kind, a + k - 1>>, v[k])]
  PROVE  Realises(s, Locs(b, kind, a, a + n - 1), G, {})
<1>1. PICK N : N = {}
  OBVIOUS
<1>2. s = [k \in 1..n |-> Write(b, <<kind, a + k - 1>>, G[b][<<kind, a + k - 1>>])]
  OBVIOUS
<1>3. b \notin N
  BY <1>1
<1>4. Realises(s, Locs(b, kind, a, a + n - 1), G, N)
  BY <1>2, <1>3, RealisesRange
<1> QED
  BY <1>1, <1>4

\* its_flash_block_to_block_move() programs a range of cells.
LEMMA RealisesMove ==
  ASSUME NEW G, NEW dst \in Block, NEW to \in Nat, NEW src, NEW from, NEW n \in Nat,
         to + n <= BlockSize,
         \A k \in 1..n : G[dst][CELL(to + k - 1)] = flash[src][CELL(from + k - 1)]
  PROVE  Realises(its_flash_block_to_block_move(dst, to, src, from, n),
                  Locs(dst, "cell", to, to + n - 1), G, {})
<1>1. PICK v : v = [k \in 1..n |-> flash[src][CELL(from + k - 1)]]
  OBVIOUS
<1>2. its_flash_block_to_block_move(dst, to, src, from, n)
        = [k \in 1..n |-> Write(dst, <<"cell", to + k - 1>>, v[k])]
  BY <1>1 DEF its_flash_block_to_block_move, Item, CELL
<1>3. \A k \in to..(to + n - 1) : <<"cell", k>> \in Pos
  <2>1. \A k \in to..(to + n - 1) : k \in 0..(BlockSize - 1)
    BY Constants
  <2> QED
    BY <2>1, Places DEF CELL
<1>4. \A k \in 1..n : G[dst][<<"cell", to + k - 1>>] = v[k]
  BY <1>1 DEF CELL
<1> QED
  BY <1>2, <1>3, <1>4, RealisesItems

\* The copy of a range of metadata to the scratch metadata block.
LEMMA RealisesCopy ==
  ASSUME NEW G, NEW c, IsCtx(c), NEW kind, NEW a \in Nat, NEW e \in Int, a <= e + 1,
         \A k \in a..e : <<kind, k>> \in Pos /\ G[c.scratch][<<kind, k>>] = flash[c.active][<<kind, k>>]
  PROVE  Realises(CopyMeta(c, kind, a, e), Locs(c.scratch, kind, a, e), G, {})
<1>1. PICK n : n = e - a + 1
  OBVIOUS
<1>2. n \in Nat /\ a + n - 1 = e
  BY <1>1
<1>3. PICK v : v = [k \in 1..n |-> flash[c.active][<<kind, a + k - 1>>]]
  OBVIOUS
<1>4. CopyMeta(c, kind, a, e) = [k \in 1..n |-> Write(c.scratch, <<kind, a + k - 1>>, v[k])]
  BY <1>1, <1>3 DEF CopyMeta, Item
<1>5. \A k \in 1..n : G[c.scratch][<<kind, a + k - 1>>] = v[k]
  <2>1. \A k \in 1..n : a + k - 1 \in a..e
    BY <1>2
  <2> QED
    BY <1>3, <2>1
<1>6. c.scratch \in Block
  BY SpareBlocks
<1>7. \A k \in a..(a + n - 1) : <<kind, k>> \in Pos
  BY <1>2
<1>8. Realises([k \in 1..n |-> Write(c.scratch, <<kind, a + k - 1>>, v[k])],
               Locs(c.scratch, kind, a, a + n - 1), G, {})
  BY <1>2, <1>5, <1>6, <1>7, RealisesItems
<1> QED
  BY <1>2, <1>4, <1>8

\* its_flash_fs_mblock_update_scratch_block_meta()
LEMMA RealisesBlocks ==
  ASSUME NEW G, NEW c, IsCtx(c), NEW l \in LBlock, NEW bm, NEW B2,
         \A m \in LBlock : G[c.scratch][BLOCK(m)] = B2[m],
         B2[l] = IF l = 0 THEN [bm EXCEPT !.phy_id = c.scratch] ELSE bm,
         l # 0 => B2[0] = [flash[c.active][BLOCK(0)] EXCEPT !.phy_id = c.scratch],
         \A m \in LBlock \ {0, l} : B2[m] = flash[c.active][BLOCK(m)]
  PROVE  Realises(its_flash_fs_mblock_update_scratch_block_meta(c, l, bm),
                  Locs(c.scratch, "block", 0, its_num_active_dblocks - 1), G, {})
<1>1. PICK n : n = its_num_active_dblocks
  OBVIOUS
<1>2. /\ n \in Nat /\ LBlock = 0..(n - 1) /\ l \in Nat /\ l <= n - 1 /\ 0 \in LBlock
      /\ c.scratch \in Block
  BY <1>1, Blocks, SpareBlocks
<1>3. \A m \in LBlock : <<"block", m>> \in Pos /\ G[c.scratch][<<"block", m>>] = B2[m]
  BY Places DEF BLOCK
<1>4. \A m \in LBlock \ {0, l} : G[c.scratch][<<"block", m>>] = flash[c.active][<<"block", m>>]
  BY <1>3 DEF BLOCK
<1> DEFINE L(a, e) == Locs(c.scratch, "block", a, e)
<1>5. PICK w : w = <<Write(c.scratch, BLOCK(l), IF l = 0 THEN [bm EXCEPT !.phy_id = c.scratch] ELSE bm)>>
  OBVIOUS
<1>6. Realises(w, L(l, l), G, {})
  <2>1. PICK v : v = B2[l]
    OBVIOUS
  <2>2. w = <<Write(c.scratch, <<"block", l>>, v)>>
    BY <1>5, <2>1 DEF BLOCK
  <2>3. v = G[c.scratch][<<"block", l>>]
    BY <1>3, <2>1
  <2> QED
    BY <1>2, <1>3, <2>2, <2>3, RealisesOneAt
<1>7. PICK r : r = CopyMeta(c, "block", l + 1, n - 1)
  OBVIOUS
<1>8. Realises(r, L(l + 1, n - 1), G, {})
  <2>1. \A k \in (l + 1)..(n - 1) : k \in LBlock \ {0, l}
    BY <1>2
  <2>2. l + 1 \in Nat /\ n - 1 \in Int /\ l + 1 <= (n - 1) + 1
    BY <1>2
  <2>3. \A k \in (l + 1)..(n - 1) : /\ <<"block", k>> \in Pos
             /\ G[c.scratch][<<"block", k>>] = flash[c.active][<<"block", k>>]
    BY <1>3, <1>4, <2>1
  <2> QED
    BY <1>7, <2>2, <2>3, RealisesCopy
<1>9. CASE l = 0
  <2>1. its_flash_fs_mblock_update_scratch_block_meta(c, l, bm) = w \o (<<>> \o r)
    BY <1>1, <1>5, <1>7, <1>9
       DEF its_flash_fs_mblock_update_scratch_block_meta, its_mblock_copy_remaining_block_meta
  <2>2. <<>> \o r = r
    BY <1>8, EmptyCat DEF Realises
  <2>3. Realises(w \o r, L(l, l) \cup L(l + 1, n - 1), G, {})
    BY <1>2, <1>6, <1>8, RealisesTwo
  <2>4. L(l, l) \cup L(l + 1, n - 1) = L(0, n - 1)
    <3>1. l + 1 \in Int /\ n - 1 \in Int /\ 0 <= l + 1 /\ l + 1 <= (n - 1) + 1 /\ l \in Int
      BY <1>2
    <3>2. L(0, l) \cup L(l + 1, n - 1) = L(0, n - 1)
      BY ONLY <3>1, LocsJoin
    <3> QED
      BY <1>9, <3>2
  <2> QED
    BY <1>1, <2>1, <2>2, <2>3, <2>4
<1>10. CASE l # 0
  <2>1. PICK z : z = <<Write(c.scratch, BLOCK(0), [flash[c.active][BLOCK(0)] EXCEPT !.phy_id = c.scratch])>>
    OBVIOUS
  <2>2. PICK q : q = CopyMeta(c, "block", 1, l - 1)
    OBVIOUS
  <2>3. its_flash_fs_mblock_update_scratch_block_meta(c, l, bm) = w \o ((z \o q) \o r)
    BY <1>1, <1>5, <1>7, <1>10, <2>1, <2>2
       DEF its_flash_fs_mblock_update_scratch_block_meta, its_mblock_copy_remaining_block_meta,
           BlockMeta, Item
  <2>4. Realises(z, L(0, 0), G, {})
    <3>1. PICK v : v = B2[0]
      OBVIOUS
    <3>2. z = <<Write(c.scratch, <<"block", 0>>, v)>>
      BY <1>10, <2>1, <3>1 DEF BLOCK
    <3>3. v = G[c.scratch][<<"block", 0>>]
      BY <1>2, <1>3, <3>1
    <3> QED
      BY <1>2, <1>3, <3>2, <3>3, RealisesOneAt
  <2>5. Realises(q, L(1, l - 1), G, {})
    <3>1. \A k \in 1..(l - 1) : k \in LBlock \ {0, l}
      BY <1>2
    <3>2. 1 \in Nat /\ l - 1 \in Int /\ 1 <= (l - 1) + 1
      BY <1>2, <1>10
    <3>3. \A k \in 1..(l - 1) : /\ <<"block", k>> \in Pos
             /\ G[c.scratch][<<"block", k>>] = flash[c.active][<<"block", k>>]
      BY <1>3, <1>4, <3>1
    <3> QED
      BY <2>2, <3>2, <3>3, RealisesCopy
  <2>6. Realises(z \o q, L(0, l - 1), G, {})
    <3>1. Realises(z \o q, L(0, 0) \cup L(1, l - 1), G, {})
      BY <1>2, <2>4, <2>5, RealisesTwo
    <3>2. l - 1 \in Int /\ 1 <= (l - 1) + 1
      BY <1>2, <1>10
    <3>3. L(0, 0) \cup L(1, l - 1) = L(0, l - 1)
      BY ONLY <3>2, LocsJoin
    <3> QED
      BY <3>1, <3>3
  <2>7. Realises((z \o q) \o r, L(0, l - 1) \cup L(l + 1, n - 1), G, {})
    <3>1. PICK zq : zq = z \o q
      OBVIOUS
    <3> QED
      BY <1>2, <1>8, <2>6, <3>1, RealisesTwo
  <2>8. PICK t, T : t = (z \o q) \o r /\ T = L(0, l - 1) \cup L(l + 1, n - 1)
    OBVIOUS
  <2>9. L(l, l) \cap T = {}
    <3>1. L(l, l) \cap L(0, l - 1) = {} /\ L(l, l) \cap L(l + 1, n - 1) = {}
      BY <1>2, LocsApart
    <3> QED
      BY <2>8, <3>1
  <2>10. Realises(w \o t, L(l, l) \cup T, G, {})
    BY <1>6, <2>7, <2>8, <2>9, RealisesCat
  <2>11. L(l, l) \cup T = L(0, n - 1)
    <3>1. /\ l + 1 \in Int /\ n - 1 \in Int /\ 0 <= l + 1 /\ l + 1 <= (n - 1) + 1
          /\ l \in Int /\ l - 1 \in Int /\ 0 <= l /\ l = (l - 1) + 1
      BY <1>2
    <3>2. L(0, l - 1) \cup L(l, l) = L(0, l)
      BY ONLY <3>1, LocsJoin
    <3>3. L(0, l) \cup L(l + 1, n - 1) = L(0, n - 1)
      BY ONLY <3>1, LocsJoin
    <3> QED
      BY <2>8, <3>2, <3>3
  <2> QED
    BY <1>1, <2>3, <2>8, <2>10, <2>11
<1> QED
  BY <1>9, <1>10

\* The metadata of file i, then that of the others in two pieces.
LEMMA RealisesFiles ==
  ASSUME NEW G, NEW b, NEW i \in FileIdx, NEW w, NEW q, NEW r,
         Realises(w, Locs(b, "file", i, i), G, {}),
         Realises(q, Locs(b, "file", 0, i - 1), G, {}),
         Realises(r, Locs(b, "file", i + 1, MaxFiles - 1), G, {})
  PROVE  /\ Realises(w \o (q \o r), Locs(b, "file", 0, MaxFiles - 1), G, {})
         /\ Realises((w \o q) \o r, Locs(b, "file", 0, MaxFiles - 1), G, {})
<1> DEFINE L(a, e) == Locs(b, "file", a, e)
<1>1. i \in Nat /\ i <= MaxFiles - 1 /\ MaxFiles \in Nat
  BY Constants DEF FileIdx
<1>2. Realises(q \o r, L(0, i - 1) \cup L(i + 1, MaxFiles - 1), G, {})
  BY <1>1, RealisesTwo
<1>3. PICK t, T : t = q \o r /\ T = L(0, i - 1) \cup L(i + 1, MaxFiles - 1)
  OBVIOUS
<1>4. L(i, i) \cap T = {}
  <2>1. L(i, i) \cap L(0, i - 1) = {} /\ L(i, i) \cap L(i + 1, MaxFiles - 1) = {}
    BY <1>1, LocsApart
  <2> QED
    BY <1>3, <2>1
<1>5. Realises(w \o t, L(i, i) \cup T, G, {})
  BY <1>2, <1>3, <1>4, RealisesCat
<1>6. L(i, i) \cup T = L(0, MaxFiles - 1)
  <2>1. /\ i + 1 \in Int /\ MaxFiles - 1 \in Int /\ 0 <= i + 1 /\ i + 1 <= (MaxFiles - 1) + 1
        /\ i \in Int /\ i - 1 \in Int /\ 0 <= i /\ i = (i - 1) + 1
    BY <1>1
  <2>2. L(0, i - 1) \cup L(i, i) = L(0, i)
    <3>1. PICK h : h = i - 1
      OBVIOUS
    <3>2. h \in Int /\ i \in Int /\ i = h + 1 /\ 0 <= i /\ i <= i + 1
      BY <1>1, <3>1
    <3>3. L(0, h) \cup L(i, i) = L(0, i)
      <4>1. \A k : k \in 0..i <=> k \in 0..h \/ k \in i..i
        BY <3>2
      <4> QED
        BY ONLY <4>1 DEF Locs
    <3> QED
      BY <3>1, <3>3
  <2>3. L(0, i) \cup L(i + 1, MaxFiles - 1) = L(0, MaxFiles - 1)
    BY ONLY <2>1, LocsJoin
  <2> QED
    BY <1>3, <2>2, <2>3
<1>7. (w \o q) \o r = w \o t
  <2>1. IsSeq(w) /\ IsSeq(q) /\ IsSeq(r)
    BY DEF Realises
  <2> QED
    BY ONLY <1>3, <2>1, Assoc
<1> QED
  BY <1>3, <1>5, <1>6, <1>7
-----------------------------------------------------------------------------
(* The operations *)

\* A file whose metadata an operation on logical block l keeps, but for its place
\* in l, and whose data it copies.
Keeps(F, B, M, M2, l, cell, j) ==
  /\ M2[j].id = M[j].id /\ M2[j].lblock = M[j].lblock /\ M2[j].cur_size = M[j].cur_size
  /\ M2[j].max_size = M[j].max_size /\ M2[j].once = M[j].once
  /\ M[j].lblock # l => M2[j].data_idx = M[j].data_idx
  /\ M[j].lblock = l => \A k \in 1..M[j].cur_size :
       cell[M2[j].data_idx + k - 1] = F[B[l].phy_id][CELL(M[j].data_idx + k - 1)]

\* After the commit the new context is current, and the asset f has changed.
LEMMA NewStored ==
  ASSUME NEW F, NEW c, Current(F, c), NEW B, NEW M, B = BlocksOf(F, c), M = FilesOf(F, c),
         NEW l \in LBlock, NEW fr \in Nat, NEW M2 \in [FileIdx -> FileMetas], NEW cell,
         NEW d, d = NewCtx(c, B, l), NEW B2, B2 = NewBlocks(c, B, l, fr),
         NEW G, G = NewFlash(F, c, B, l, d, B2, M2, cell), Packed(B2, M2),
         NEW i \in FileIdx, NEW f \in Fid,
         \A j \in FileIdx \ {i} : M2[j].id = M[j].id,
         \A j \in Used(M) \ {i} : Keeps(F, B, M, M2, l, cell, j),
         M[i].id = f \/ (M[i].id = NULL /\ \A j \in FileIdx : M[j].id # f),
         M2[i].id \in {f, NULL},
         M2[i].id # NULL => AssetAt(G, B2, M2, i) \in AssetType,
         NEW X, X = IF M2[i].id = NULL THEN NULL ELSE AssetAt(G, B2, M2, i)
  PROVE  Current(G, d) /\ AssetsOf(G, d) = [AssetsOf(F, c) EXCEPT ![f] = X]
<1>1. IsCtx(c) /\ Tables(B, M) /\ Placed(c, B, M) /\ Packed(B, M) /\ Typed(F, B, M)
  BY DEF Current, Sound, Layout
<1>2. /\ Tables(B2, M2)
      /\ \A m \in LBlock : B2[m].phy_id = IF m = 0 THEN c.scratch
                                          ELSE IF m = l THEN c.dblock ELSE B[m].phy_id
  BY ONLY <1>1, l \in LBlock, fr \in Nat, M2 \in [FileIdx -> FileMetas],
     d = NewCtx(c, B, l), B2 = NewBlocks(c, B, l, fr), NewBlocksIs
<1>3. ASSUME NEW j \in Used(M) \ {i} PROVE AssetAt(G, B2, M2, j) = AssetAt(F, B, M, j)
  <2>1. j \in Used(M) /\ j \in Used(M2)
    BY DEF Used
  <2>2. /\ M2[j].lblock = M[j].lblock /\ M2[j].cur_size = M[j].cur_size
        /\ M2[j].max_size = M[j].max_size /\ M2[j].once = M[j].once
        /\ M[j].lblock # l => M2[j].data_idx = M[j].data_idx
        /\ M[j].lblock = l => \A k \in 1..M[j].cur_size :
             cell[M2[j].data_idx + k - 1] = F[B[l].phy_id][CELL(M[j].data_idx + k - 1)]
    BY DEF Keeps
  <2> QED
    BY ONLY <1>1, <1>2, <2>1, <2>2, l \in LBlock, Packed(B2, M2),
       G = NewFlash(F, c, B, l, d, B2, M2, cell), NewKept
<1>4. Typed(G, B2, M2)
  <2>1. ASSUME NEW j \in Used(M2) PROVE AssetAt(G, B2, M2, j) \in AssetType
    <3>1. CASE j = i
      BY <3>1 DEF Used
    <3>2. CASE j # i
      <4>1. j \in Used(M) \ {i}
        BY <3>2 DEF Used
      <4> QED
        BY <1>1, <1>3, <4>1 DEF Typed
    <3> QED
      BY <3>1, <3>2
  <2> QED
    BY <2>1 DEF Typed
<1>5. Current(G, d) /\ BlocksOf(G, d) = B2 /\ FilesOf(G, d) = M2
  BY <1>4, NewCurrent
<1>6. AssetsIn(G, B2, M2) = [AssetsIn(F, B, M) EXCEPT ![f] = X]
  BY <1>1, <1>2, <1>3, NewAssets
<1> QED
  BY <1>5, <1>6 DEF AssetsOf

\* Where the data of an operation on logical block l goes.
DataBlock(c, l) == IF l = 0 THEN c.scratch ELSE c.dblock
CellLocs(b, CS) == {<<b, CELL(k)>> : k \in CS}
AllLocs(c, B, l, CS) ==
  CellLocs(DataBlock(c, l), CS)
  \cup Locs(c.scratch, "block", 0, its_num_active_dblocks - 1)
  \cup Locs(c.scratch, "file", 0, MaxFiles - 1)
  \cup (IF l = 0 THEN {}
        ELSE Locs(c.scratch, "cell", DataStart, BlockSize - B[0].free_size - 1))

\* A call that programs the new flash, and then finalizes the update.
LEMMA OperationStarts ==
  ASSUME NEW c, NEW F, F = flash, IsFlash(F), Current(F, c), \A x \in Spare(c) : F[x] = Blank,
         NEW B, B = BlocksOf(F, c), NEW l \in LBlock, NEW B2, NEW M2, NEW cell,
         NEW d, d = NewCtx(c, B, l),
         NEW G, G = NewFlash(F, c, B, l, d, B2, M2, cell), Current(G, d),
         NEW CS \in SUBSET (0..(BlockSize - 1)),
         \A k \in 0..(BlockSize - 1) : k \notin CS => cell[k] = ERASED,
         NEW P, Realises(P, AllLocs(c, B, l, CS), G, {}),
         NEW b, b = its_flash_fs_mblock_set_data_scratch(c, B[l].phy_id, l)
  PROVE  \E D : Writing(P \o its_flash_fs_mblock_meta_update_finalize(b), F, c, d, G, D)
<1>1. /\ IsCtx(c) /\ IsCtx(d) /\ d.active = c.scratch /\ d.scratch = c.active
      /\ d.dblock = IF l = 0 THEN c.dblock ELSE B[l].phy_id
      /\ d.count = NextCount(c.count)
  BY NewCtxIs
<1>2. PICK E : E = AllLocs(c, B, l, CS)
  OBVIOUS
<1>3. /\ c.scratch \in Block /\ c.scratch \in Spare(c)
      /\ l # 0 => c.dblock \in Spare(c) /\ c.dblock \in Block /\ NumBlocks > 2 /\ c.dblock # c.scratch
  BY <1>1, SpareBlocks, Blocks
<1>4. /\ IsCtx(b) /\ b.active = c.active /\ b.count = c.count /\ b.scratch = c.scratch
      /\ b.dblock = d.dblock
  <2>1. CASE l = 0
    BY <1>1, <2>1 DEF its_flash_fs_mblock_set_data_scratch
  <2>2. CASE l # 0
    <3>1. PICK x : x = B[l].phy_id
      OBVIOUS
    <3>2. b = [c EXCEPT !.dblock = x] /\ d.dblock = x
      BY <1>1, <2>2, <3>1 DEF its_flash_fs_mblock_set_data_scratch
    <3>3. x \in Nat /\ (NumBlocks > 2 => x \in 2..(NumBlocks - 1))
      BY <1>1, <3>2 DEF IsCtx
    <3> QED
      BY <1>1, <3>2, <3>3 DEF IsCtx
  <2> QED
    BY <2>1, <2>2
<1>5. /\ IsFlash(G)
      /\ \A k \in 0..(BlockSize - 1) :
              /\ l = 0 => G[c.scratch][CELL(k)] = cell[k]
              /\ l # 0 => G[c.dblock][CELL(k)] = cell[k]
              /\ l # 0 => G[c.scratch][CELL(k)]
                            = IF k \in DataStart..(BlockSize - B[0].free_size - 1)
                                THEN F[c.active][CELL(k)] ELSE ERASED
      /\ \A x \in Block, p \in Pos :
              x \notin Spare(c) \/ (x # c.scratch /\ (l = 0 \/ p[1] # "cell")) => G[x][p] = F[x][p]
  BY <1>1, NewFlashIs
<1>6. \A x \in Spare(c), p \in Pos : F[x][p] = ERASED
  BY DEF Blank
<1>7. <<c.scratch, HEADER>> \notin E /\ <<c.scratch, COUNT>> \notin E
  BY <1>2 DEF AllLocs, CellLocs, Locs, HEADER, COUNT, CELL
<1>8. E \subseteq Spare(c) \X Pos
  <2>1. ASSUME NEW x \in E PROVE x \in Spare(c) \X Pos
    <3>1. x \in Block \X Pos
      BY <1>2 DEF Realises
    <3>2. x[1] \in {c.scratch, DataBlock(c, l)}
      BY <1>2 DEF AllLocs, CellLocs, Locs
    <3>3. x[1] \in Spare(c)
      BY <1>3, <3>2 DEF DataBlock
    <3> QED
      BY <3>1, <3>3
  <2> QED
    BY <2>1
<1>9. ASSUME NEW x \in Block, NEW p \in Pos,
             <<x, p>> \notin E \cup {<<c.scratch, HEADER>>, <<c.scratch, COUNT>>}
      PROVE  G[x][p] = F[x][p]
  <2>1. CASE x \notin Spare(c)
    BY <1>5, <2>1
  <2>2. CASE x = c.scratch
    <3>1. p # HEADER /\ p # COUNT
      BY <1>9, <2>2
    <3>2. ASSUME NEW m \in LBlock, p = BLOCK(m) PROVE FALSE
      <4>1. m \in 0..(its_num_active_dblocks - 1)
        BY Blocks
      <4>2. <<x, p>> \in Locs(c.scratch, "block", 0, its_num_active_dblocks - 1)
        BY <2>2, <3>2, <4>1 DEF Locs, BLOCK
      <4> QED
        BY <1>2, <1>9, <4>2 DEF AllLocs
    <3>3. ASSUME NEW m \in FileIdx, p = FILE(m) PROVE FALSE
      <4>2. <<x, p>> \in Locs(c.scratch, "file", 0, MaxFiles - 1)
        BY <2>2, <3>3 DEF Locs, FILE, FileIdx
      <4> QED
        BY <1>2, <1>9, <4>2 DEF AllLocs
    <3>4. PICK k \in 0..(BlockSize - 1) : p = CELL(k)
      BY <3>1, <3>2, <3>3, Places
    <3>5. CASE l = 0
      <4>1. k \notin CS
        BY <1>2, <1>9, <2>2, <3>4, <3>5 DEF AllLocs, CellLocs, DataBlock
      <4> QED
        BY <1>3, <1>5, <1>6, <2>2, <3>4, <3>5, <4>1
    <3>6. CASE l # 0
      <4>1. k \notin DataStart..(BlockSize - B[0].free_size - 1)
        <5>1. <<x, p>> \notin Locs(c.scratch, "cell", DataStart, BlockSize - B[0].free_size - 1)
          BY <1>2, <1>9, <3>6 DEF AllLocs
        <5> QED
          BY <2>2, <3>4, <5>1 DEF Locs, CELL
      <4> QED
        BY <1>3, <1>5, <1>6, <2>2, <3>4, <3>6, <4>1
    <3> QED
      BY <3>5, <3>6
  <2>3. CASE x \in Spare(c) /\ x # c.scratch
    <3>1. x = c.dblock
      BY <2>3 DEF Spare
    <3>2. CASE l = 0 \/ p[1] # "cell"
      BY <1>5, <2>3, <3>2
    <3>3. CASE l # 0 /\ p[1] = "cell"
      <4>1. PICK k \in 0..(BlockSize - 1) : p = CELL(k)
        BY <3>3, Places DEF HEADER, COUNT, BLOCK, FILE
      <4>2. k \notin CS
        BY <1>2, <1>9, <3>1, <3>3, <4>1 DEF AllLocs, CellLocs, DataBlock
      <4> QED
        BY <1>5, <1>6, <2>3, <3>1, <3>3, <4>1, <4>2
    <3> QED
      BY <3>2, <3>3
  <2> QED
    BY <2>1, <2>2, <2>3
<1>10. d = [active |-> c.scratch, scratch |-> c.active, dblock |-> b.dblock,
            count |-> NextCount(c.count)]
  BY <1>4 DEF NewCtx
<1>11. Realises(P, E, G, {})
  BY <1>2
<1> QED
  BY ONLY IsFlash(F), Current(F, c), \A x \in Spare(c) : F[x] = Blank, Current(G, d),
     <1>4, <1>5, <1>7, <1>8, <1>9, <1>10, <1>11, WritingStarts
-----------------------------------------------------------------------------
(* What the pieces of an operation program *)

\* The data that lies in logical block 0 moves with the metadata.
LEMMA MigrateRealised ==
  ASSUME NEW G, NEW c, IsCtx(c), NEW B, B = BlocksOf(flash, c), NEW M,
         Tables(B, M), Placed(c, B, M), Packed(B, M),
         \A k \in 0..(BlockSize - 1) : k \in DataStart..(BlockSize - B[0].free_size - 1) =>
            G[c.scratch][CELL(k)] = flash[c.active][CELL(k)]
  PROVE  Realises(its_flash_fs_mblock_migrate_lb0_data_to_scratch(c),
                  Locs(c.scratch, "cell", DataStart, BlockSize - B[0].free_size - 1), G, {})
<1>1. PICK fr : fr = B[0].free_size
  OBVIOUS
<1>2. /\ B[0] = flash[c.active][BLOCK(0)] /\ B[0].data_start = DataStart /\ fr \in Nat
      /\ DataStart + fr <= BlockSize /\ DataStart \in Nat /\ BlockSize \in Nat
  <2>1. 0 \in LBlock
    BY Blocks
  <2>2. In(M, 0) \in SUBSET FileIdx
    BY DEF In, Used
  <2>3. Taken(M, In(M, 0)) \in Nat
    BY <2>2, RoomNat
  <2>4. B[0] \in BlockMetas /\ DataFrom(0) = DataStart
    BY <2>1 DEF Tables, DataFrom
  <2>5. DataFrom(0) + Taken(M, In(M, 0)) + B[0].free_size = BlockSize
    BY <2>1 DEF Packed
  <2>6. B[0].free_size \in Nat
    BY <2>4 DEF BlockMetas
  <2>7. B[0].data_start = DataStart
    BY <2>1, <2>4 DEF Placed
  <2>8. B[0] = flash[c.active][BLOCK(0)]
    BY <2>1 DEF BlocksOf
  <2> QED
    BY <1>1, <2>3, <2>4, <2>5, <2>6, <2>7, <2>8, Constants
<1>3. PICK n : n = (BlockSize - DataStart) - fr
  OBVIOUS
<1>4. n \in Nat /\ DataStart + n <= BlockSize /\ DataStart + n - 1 = BlockSize - fr - 1
  BY <1>2, <1>3
<1>5. c.scratch \in Block
  BY SpareBlocks
<1>6. \A k \in 1..n : G[c.scratch][CELL(DataStart + k - 1)] = flash[c.active][CELL(DataStart + k - 1)]
  <2>1. ASSUME NEW k \in 1..n
        PROVE  G[c.scratch][CELL(DataStart + k - 1)] = flash[c.active][CELL(DataStart + k - 1)]
    <3>1. PICK m : m = DataStart + k - 1
      OBVIOUS
    <3>2. m \in 0..(BlockSize - 1) /\ m \in DataStart..(BlockSize - B[0].free_size - 1)
      BY <1>1, <1>2, <1>3, <1>4, <3>1
    <3> QED
      BY <3>1, <3>2
  <2> QED
    BY <2>1
<1>7. Realises(its_flash_block_to_block_move(c.scratch, DataStart, c.active, DataStart, n),
               Locs(c.scratch, "cell", DataStart, DataStart + n - 1), G, {})
  BY <1>2, <1>4, <1>5, <1>6, RealisesMove
<1>8. its_flash_fs_mblock_migrate_lb0_data_to_scratch(c)
        = its_flash_block_to_block_move(c.scratch, DataStart, c.active, DataStart, n)
  BY <1>1, <1>2, <1>3 DEF its_flash_fs_mblock_migrate_lb0_data_to_scratch, BlockMeta, Item
<1> QED
  BY <1>1, <1>4, <1>7, <1>8

\* A range of cells as a set of cells.
LEMMA CellLocsAre ==
  ASSUME NEW b, NEW a, NEW e
  PROVE  Locs(b, "cell", a, e) = CellLocs(b, a..e)
BY DEF Locs, CellLocs, CELL

\* Two sets of cells.
LEMMA CellLocsJoin ==
  ASSUME NEW b, NEW S, NEW T
  PROVE  CellLocs(b, S) \cup CellLocs(b, T) = CellLocs(b, S \cup T)
BY DEF CellLocs

\* Data in the middle of a block, and what stays around it.
Around(G, c, bm, fm, offset, data, sb, ds, pos, n, end, top, cell) ==
  /\ IsCtx(c) /\ fm.lblock \in LBlock /\ sb = DataBlock(c, fm.lblock)
  /\ ds \in Nat /\ pos \in Nat /\ n \in Nat /\ end \in Nat /\ top \in Nat
  /\ ds = bm.data_start /\ pos = fm.data_idx + offset /\ n = Len(data)
  /\ end = fm.data_idx + fm.max_size /\ top = BlockSize - bm.free_size
  /\ ds <= pos /\ pos + n <= end /\ end <= top /\ top <= BlockSize
  /\ \A k \in 0..(BlockSize - 1) : G[sb][CELL(k)] = cell[k]
  /\ \A k \in 1..n : cell[pos + k - 1] = data[k]
  /\ \A k \in (ds..(pos - 1)) \cup (end..(top - 1)) : cell[k] = flash[bm.phy_id][CELL(k)]

\* its_flash_fs_dblock_write_file() programs the data and what stays around it.
LEMMA WriteRealised ==
  ASSUME NEW G, NEW c, NEW bm, NEW fm, NEW offset, NEW data, NEW sb, NEW ds, NEW pos, NEW n,
         NEW end, NEW top, NEW cell,
         Around(G, c, bm, fm, offset, data, sb, ds, pos, n, end, top, cell)
  PROVE  Realises(its_flash_fs_dblock_write_file(c, bm, fm, offset, data),
                  CellLocs(sb, (ds..(pos - 1)) \cup (pos..(pos + n - 1)) \cup (end..(top - 1))), G, {})
<1> USE DEF Around
<1>0. /\ BlockSize \in Nat /\ ds \in Nat /\ pos \in Nat /\ n \in Nat /\ end \in Nat /\ top \in Nat
      /\ ds <= pos /\ pos + n <= end /\ end <= top /\ top <= BlockSize
  BY Constants
<1>1. sb \in Block /\ sb = its_flash_fs_mblock_cur_data_scratch_id(c, fm.lblock)
  BY SpareBlocks, Blocks DEF DataBlock, its_flash_fs_mblock_cur_data_scratch_id
<1>2. PICK s1 : s1 = its_flash_block_to_block_move(sb, ds, bm.phy_id, ds, pos - ds)
  OBVIOUS
<1>3. PICK s2 : s2 = [k \in 1..n |-> Write(sb, <<"cell", pos + k - 1>>, data[k])]
  OBVIOUS
<1>4. PICK s3 : s3 = its_flash_block_to_block_move(sb, end, bm.phy_id, end, top - end)
  OBVIOUS
<1>5. its_flash_fs_dblock_write_file(c, bm, fm, offset, data) = (s1 \o s2) \o s3
  <2>1. s2 = [k \in 1..Len(data) |-> Write(sb, CELL(pos + k - 1), data[k])]
    BY <1>3 DEF CELL
  <2> QED
    BY <1>1, <1>2, <1>4, <2>1 DEF its_flash_fs_dblock_write_file
<1>6. Realises(s1, Locs(sb, "cell", ds, pos - 1), G, {})
  <2>1. PICK m : m = pos - ds
    OBVIOUS
  <2>2. m \in Nat /\ ds + m <= BlockSize /\ ds + m - 1 = pos - 1
    BY ONLY <2>1, <1>0
  <2>3. ASSUME NEW k \in 1..m
        PROVE  G[sb][CELL(ds + k - 1)] = flash[bm.phy_id][CELL(ds + k - 1)]
    <3>1. ds + k - 1 \in 0..(BlockSize - 1) /\ ds + k - 1 \in ds..(pos - 1)
      BY ONLY <2>1, <2>2, <1>0, k \in 1..m
    <3> QED
      BY <3>1
  <2>4. Realises(its_flash_block_to_block_move(sb, ds, bm.phy_id, ds, m),
                 Locs(sb, "cell", ds, ds + m - 1), G, {})
    BY <1>1, <2>2, <2>3, RealisesMove
  <2> QED
    BY <1>2, <2>1, <2>2, <2>4
<1>7. Realises(s2, Locs(sb, "cell", pos, pos + n - 1), G, {})
  <2>1. ASSUME NEW k \in pos..(pos + n - 1) PROVE <<"cell", k>> \in Pos
    <3>1. k \in 0..(BlockSize - 1)
      BY ONLY <1>0, k \in pos..(pos + n - 1)
    <3> QED
      BY ONLY <3>1, Places DEF CELL
  <2>2. ASSUME NEW k \in 1..n PROVE G[sb][<<"cell", pos + k - 1>>] = data[k]
    <3>1. pos + k - 1 \in 0..(BlockSize - 1)
      BY ONLY <1>0, k \in 1..n
    <3> QED
      BY <3>1 DEF CELL
  <2> QED
    BY ONLY <1>0, <1>1, <1>3, <2>1, <2>2, RealisesItems
<1>8. Realises(s3, Locs(sb, "cell", end, top - 1), G, {})
  <2>1. PICK m : m = top - end
    OBVIOUS
  <2>2. m \in Nat /\ end + m <= BlockSize /\ end + m - 1 = top - 1
    BY ONLY <2>1, <1>0
  <2>3. ASSUME NEW k \in 1..m
        PROVE  G[sb][CELL(end + k - 1)] = flash[bm.phy_id][CELL(end + k - 1)]
    <3>1. end + k - 1 \in 0..(BlockSize - 1) /\ end + k - 1 \in end..(top - 1)
      BY ONLY <2>1, <2>2, <1>0, k \in 1..m
    <3> QED
      BY <3>1
  <2>4. Realises(its_flash_block_to_block_move(sb, end, bm.phy_id, end, m),
                 Locs(sb, "cell", end, end + m - 1), G, {})
    BY <1>1, <2>2, <2>3, RealisesMove
  <2> QED
    BY <1>4, <2>1, <2>2, <2>4
<1>9. PICK D1 : D1 = Locs(sb, "cell", ds, pos - 1)
  OBVIOUS
<1>10. PICK D2 : D2 = Locs(sb, "cell", pos, pos + n - 1)
  OBVIOUS
<1>11. PICK D3 : D3 = Locs(sb, "cell", end, top - 1)
  OBVIOUS
<1>12. D1 \cap D2 = {} /\ (D1 \cup D2) \cap D3 = {}
  <2>1. D1 \cap D2 = {}
    BY <1>9, <1>10, LocsApart
  <2>2. D1 \cap D3 = {}
    BY <1>9, <1>11, LocsApart
  <2>3. D2 \cap D3 = {}
    BY <1>10, <1>11, LocsApart
  <2> QED
    BY <2>1, <2>2, <2>3
<1>13. Realises((s1 \o s2) \o s3, (D1 \cup D2) \cup D3, G, {})
  <2>1. Realises(s1 \o s2, D1 \cup D2, G, {})
    BY <1>6, <1>7, <1>9, <1>10, <1>12, RealisesCat
  <2>2. Realises(s3, D3, G, {})
    BY <1>8, <1>11
  <2> QED
    BY <1>12, <2>1, <2>2, RealisesCat
<1>14. (D1 \cup D2) \cup D3
         = CellLocs(sb, (ds..(pos - 1)) \cup (pos..(pos + n - 1)) \cup (end..(top - 1)))
  <2>1. D1 = CellLocs(sb, ds..(pos - 1)) /\ D2 = CellLocs(sb, pos..(pos + n - 1))
        /\ D3 = CellLocs(sb, end..(top - 1))
    BY ONLY <1>9, <1>10, <1>11, CellLocsAre
  <2>2. \A S, T : CellLocs(sb, S) \cup CellLocs(sb, T) = CellLocs(sb, S \cup T)
    BY ONLY CellLocsJoin
  <2>3. D1 \cup D2 = CellLocs(sb, (ds..(pos - 1)) \cup (pos..(pos + n - 1)))
    BY ONLY <2>1, <2>2, Zenon
  <2> QED
    BY ONLY <2>1, <2>2, <2>3, Zenon
<1> QED
  BY <1>5, <1>13, <1>14

\* The pieces of an operation together.
LEMMA AllRealised ==
  ASSUME NEW G, NEW c, IsCtx(c), NEW B, NEW l \in LBlock, NEW CS, NEW s, NEW t, NEW u, NEW v,
         Realises(s, CellLocs(DataBlock(c, l), CS), G, {}),
         Realises(t, Locs(c.scratch, "block", 0, its_num_active_dblocks - 1), G, {}),
         Realises(u, Locs(c.scratch, "file", 0, MaxFiles - 1), G, {}),
         Realises(v, IF l = 0 THEN {}
                     ELSE Locs(c.scratch, "cell", DataStart, BlockSize - B[0].free_size - 1), G, {})
  PROVE  /\ Realises(((s \o t) \o u) \o v, AllLocs(c, B, l, CS), G, {})
         /\ Realises((u \o (s \o t)) \o v, AllLocs(c, B, l, CS), G, {})
<1>1. PICK D1 : D1 = CellLocs(DataBlock(c, l), CS)
  OBVIOUS
<1>2. PICK D2 : D2 = Locs(c.scratch, "block", 0, its_num_active_dblocks - 1)
  OBVIOUS
<1>3. PICK D3 : D3 = Locs(c.scratch, "file", 0, MaxFiles - 1)
  OBVIOUS
<1>4. PICK D4 : D4 = IF l = 0 THEN {}
                     ELSE Locs(c.scratch, "cell", DataStart, BlockSize - B[0].free_size - 1)
  OBVIOUS
<1>5. l # 0 => c.dblock # c.scratch
  BY SpareBlocks, Blocks
<1>6. \A x \in D1 : x[1] = DataBlock(c, l) /\ x[2][1] = "cell"
  BY <1>1 DEF CellLocs, CELL
<1>7. \A x \in D2 : x[2][1] = "block"
  BY <1>2 DEF Locs
<1>8. \A x \in D3 : x[2][1] = "file"
  BY <1>3 DEF Locs
<1>9. \A x \in D4 : x[1] = c.scratch /\ x[2][1] = "cell" /\ l # 0
  BY <1>4 DEF Locs
<1>10. D1 \cap D4 = {}
  BY <1>5, <1>6, <1>9 DEF DataBlock
<1>11. /\ D1 \cap D2 = {} /\ (D1 \cup D2) \cap D3 = {} /\ D3 \cap (D1 \cup D2) = {}
       /\ ((D1 \cup D2) \cup D3) \cap D4 = {} /\ (D3 \cup (D1 \cup D2)) \cap D4 = {}
  BY <1>6, <1>7, <1>8, <1>9, <1>10
<1>12. Realises(s \o t, D1 \cup D2, G, {})
  BY <1>1, <1>2, <1>11, RealisesCat
<1>13. Realises(u, D3, G, {}) /\ Realises(v, D4, G, {})
  BY <1>3, <1>4
<1>14. Realises((s \o t) \o u, (D1 \cup D2) \cup D3, G, {})
  BY <1>11, <1>12, <1>13, RealisesCat
<1>15. Realises(u \o (s \o t), D3 \cup (D1 \cup D2), G, {})
  BY <1>11, <1>12, <1>13, RealisesCat
<1>16. Realises(((s \o t) \o u) \o v, ((D1 \cup D2) \cup D3) \cup D4, G, {})
  BY <1>11, <1>13, <1>14, RealisesCat
<1>17. Realises((u \o (s \o t)) \o v, (D3 \cup (D1 \cup D2)) \cup D4, G, {})
  BY <1>11, <1>13, <1>15, RealisesCat
<1>18. AllLocs(c, B, l, CS) = ((D1 \cup D2) \cup D3) \cup D4
  BY <1>1, <1>2, <1>3, <1>4 DEF AllLocs
<1>19. (D3 \cup (D1 \cup D2)) \cup D4 = ((D1 \cup D2) \cup D3) \cup D4
  OBVIOUS
<1> QED
  BY <1>16, <1>17, <1>18, <1>19
-----------------------------------------------------------------------------
\* The block metadata of an operation on logical block l.
LEMMA BlocksRealised ==
  ASSUME NEW G, NEW c, IsCtx(c), NEW B, NEW M, B = BlocksOf(flash, c), Tables(B, M),
         NEW l \in LBlock, NEW fr \in Nat, NEW B2, B2 = NewBlocks(c, B, l, fr),
         \A m \in LBlock : G[c.scratch][BLOCK(m)] = B2[m],
         NEW bm \in BlockMetas, bm.data_start = B[l].data_start, bm.free_size = fr,
         l # 0 => bm.phy_id = c.dblock
  PROVE  Realises(its_flash_fs_mblock_update_scratch_block_meta(c, l, bm),
                  Locs(c.scratch, "block", 0, its_num_active_dblocks - 1), G, {})
<1>1. \A m \in LBlock : B[m] = flash[c.active][BLOCK(m)] /\ B[m] \in BlockMetas
  BY DEF BlocksOf, Tables
<1>2. \A m \in LBlock :
        B2[m] = [phy_id |-> IF m = 0 THEN c.scratch ELSE IF m = l THEN c.dblock ELSE B[m].phy_id,
                 data_start |-> B[m].data_start,
                 free_size |-> IF m = l THEN fr ELSE B[m].free_size]
  BY DEF NewBlocks
<1>3. B2[l] = IF l = 0 THEN [bm EXCEPT !.phy_id = c.scratch] ELSE bm
  <2>1. bm = [phy_id |-> bm.phy_id, data_start |-> bm.data_start, free_size |-> bm.free_size]
    BY DEF BlockMetas
  <2>2. CASE l = 0
    <3>1. [bm EXCEPT !.phy_id = c.scratch]
            = [phy_id |-> c.scratch, data_start |-> bm.data_start, free_size |-> bm.free_size]
      BY <2>1
    <3> QED
      BY <1>2, <2>2, <3>1
  <2>3. CASE l # 0
    BY <1>2, <2>1, <2>3
  <2> QED
    BY <2>2, <2>3
<1>4. l # 0 => B2[0] = [flash[c.active][BLOCK(0)] EXCEPT !.phy_id = c.scratch]
  <2>1. 0 \in LBlock
    BY Blocks
  <2>2. PICK x : x = flash[c.active][BLOCK(0)]
    OBVIOUS
  <2>3. x = B[0] /\ x \in BlockMetas
    BY <1>1, <2>1, <2>2
  <2>4. x = [phy_id |-> x.phy_id, data_start |-> x.data_start, free_size |-> x.free_size]
    BY <2>3 DEF BlockMetas
  <2>5. [x EXCEPT !.phy_id = c.scratch]
          = [phy_id |-> c.scratch, data_start |-> x.data_start, free_size |-> x.free_size]
    BY <2>4
  <2> QED
    BY <1>2, <2>1, <2>2, <2>3, <2>5
<1>5. \A m \in LBlock \ {0, l} : B2[m] = flash[c.active][BLOCK(m)]
  <2>1. ASSUME NEW m \in LBlock \ {0, l} PROVE B2[m] = flash[c.active][BLOCK(m)]
    <3>1. PICK x : x = B[m]
      OBVIOUS
    <3>2. x = flash[c.active][BLOCK(m)] /\ x \in BlockMetas
      BY <1>1, <3>1
    <3>3. x = [phy_id |-> x.phy_id, data_start |-> x.data_start, free_size |-> x.free_size]
      BY <3>2 DEF BlockMetas
    <3>4. B2[m] = [phy_id |-> x.phy_id, data_start |-> x.data_start, free_size |-> x.free_size]
      BY <1>2, <3>1
    <3> QED
      BY <3>2, <3>3, <3>4
  <2> QED
    BY <2>1
<1> QED
  BY ONLY <1>3, <1>4, <1>5, IsCtx(c), l \in LBlock, \A m \in LBlock : G[c.scratch][BLOCK(m)] = B2[m],
     RealisesBlocks

\* The file metadata of an operation on the file with index i.
LEMMA FilesRealised ==
  ASSUME NEW G, NEW c, IsCtx(c), NEW M, M = FilesOf(flash, c), NEW i \in FileIdx, NEW M2,
         \A j \in FileIdx : G[c.scratch][FILE(j)] = M2[j],
         \A j \in FileIdx \ {i} : M2[j] = M[j]
  PROVE  Realises(<<Write(c.scratch, FILE(i), M2[i])>> \o its_flash_fs_mblock_cp_remaining_file_meta(c, i),
                  Locs(c.scratch, "file", 0, MaxFiles - 1), G, {})
<1>1. \A j \in FileIdx \ {i} : G[c.scratch][<<"file", j>>] = flash[c.active][<<"file", j>>]
  BY DEF FilesOf, FILE
<1>2. i \in Nat /\ i <= MaxFiles - 1 /\ MaxFiles \in Nat /\ FileIdx = 0..(MaxFiles - 1)
  BY Constants DEF FileIdx
<1>3. \A j \in FileIdx : <<"file", j>> \in Pos
  BY Places DEF FILE
<1>4. c.scratch \in Block
  BY SpareBlocks
<1>5. Realises(<<Write(c.scratch, FILE(i), M2[i])>>, Locs(c.scratch, "file", i, i), G, {})
  <2>1. M2[i] = G[c.scratch][<<"file", i>>] /\ i \in Int
    BY <1>2 DEF FILE
  <2> QED
    BY <1>3, <1>4, <2>1, RealisesOneAt DEF FILE
<1>6. Realises(CopyMeta(c, "file", 0, i - 1), Locs(c.scratch, "file", 0, i - 1), G, {})
  <2>1. \A k \in 0..(i - 1) : k \in FileIdx \ {i}
    BY <1>2
  <2>2. 0 \in Nat /\ i - 1 \in Int /\ 0 <= (i - 1) + 1
    BY <1>2
  <2> QED
    BY <1>1, <1>3, <2>1, <2>2, RealisesCopy
<1>7. Realises(CopyMeta(c, "file", i + 1, MaxFiles - 1), Locs(c.scratch, "file", i + 1, MaxFiles - 1), G, {})
  <2>1. \A k \in (i + 1)..(MaxFiles - 1) : k \in FileIdx \ {i}
    BY <1>2
  <2>2. i + 1 \in Nat /\ MaxFiles - 1 \in Int /\ i + 1 <= (MaxFiles - 1) + 1
    BY <1>2
  <2> QED
    BY <1>1, <1>3, <2>1, <2>2, RealisesCopy
<1> QED
  BY <1>5, <1>6, <1>7, RealisesFiles DEF its_flash_fs_mblock_cp_remaining_file_meta

\* The minimum and the maximum of two numbers.
LEMMA MinMax ==
  ASSUME NEW a \in Int, NEW b \in Int, a <= b
  PROVE  Min({a, b}) = a /\ Min({b, a}) = a /\ Max({a, b}) = b
<1>1. Min({a, b}) = a
  <2>1. a \in {a, b} /\ (\A y \in {a, b} : a <= y)
    OBVIOUS
  <2>2. \A x \in {a, b} : (\A y \in {a, b} : x <= y) => x = a
    OBVIOUS
  <2> QED
    BY <2>1, <2>2 DEF Min
<1>2. {b, a} = {a, b}
  OBVIOUS
<1>3. Max({a, b}) = b
  <2>1. b \in {a, b} /\ (\A y \in {a, b} : b >= y)
    OBVIOUS
  <2>2. \A x \in {a, b} : (\A y \in {a, b} : x >= y) => x = b
    OBVIOUS
  <2> QED
    BY <2>1, <2>2 DEF Max
<1> QED
  BY <1>1, <1>2, <1>3

\* The minimum of a set of numbers.
LEMMA MinOf ==
  ASSUME NEW S \in SUBSET Nat, S # {}
  PROVE  Min(S) \in S /\ \A x \in S : Min(S) <= x
<1>1. \E i \in S : \A j \in S : i <= j
  BY LeastOf
<1> QED
  BY <1>1 DEF Min
-----------------------------------------------------------------------------
\* The piece of the data of a set request that starts at an offset.
Piece(j, offset, n) == SubSeq(Store!Chunks(j, offset + n), offset + 1, offset + n)

\* The items of a piece.
LEMMA PieceIs ==
  ASSUME NEW j, NEW offset \in Nat, NEW n \in Nat, NEW data, data = Piece(j, offset, n)
  PROVE  IsSeq(data) /\ Len(data) = n /\ \A k \in 1..n : data[k] = <<j.fid, j.val, offset + k>>
<1>1. PICK s : s = Store!Chunks(j, offset + n)
  OBVIOUS
<1>2. PICK m : m = offset + n
  OBVIOUS
<1>3. PICK T : T = {<<j.fid, j.val, k>> : k \in 1..m}
  OBVIOUS
<1>4. m \in Nat /\ s \in [1..m -> T] /\ \A k \in 1..m : s[k] = <<j.fid, j.val, k>>
  BY <1>1, <1>2, <1>3 DEF Store!Chunks
<1>5. s \in Seq(T) /\ Len(s) = m
  BY <1>4
<1>6. data = SubSeq(s, offset + 1, m)
  BY <1>1, <1>2 DEF Piece
<1>7. data \in Seq(T) /\ Len(data) = n /\ \A k \in 1..n : data[k] = s[offset + k]
  BY ONLY <1>2, <1>5, <1>6, offset \in Nat, n \in Nat
<1>8. \A k \in 1..n : offset + k \in 1..m
  BY <1>2
<1> QED
  BY <1>4, <1>7, <1>8 DEF IsSeq

\* The fields of a set request.
LEMMA JobIs ==
  ASSUME NEW j \in Store!SetJob
  PROVE  j.op = "set" /\ j.fid \in Fid /\ j.val \in Val /\ j.len \in Lens /\ j.len \in Nat
         /\ j.once \in BOOLEAN
BY Constants DEF Store!SetJob

\* What its_flash_fs_file_create() and its_flash_fs_file_write() have in common: the
\* file fm gets n more units of the data of the request j.
Updating(F, c, B, M, l, fr, i, j, fm, offset, n, B2, M2, bm, wm, data) ==
  /\ F = flash /\ IsFlash(F) /\ Current(F, c) /\ \A x \in Spare(c) : F[x] = Blank
  /\ B = BlocksOf(F, c) /\ M = FilesOf(F, c) /\ l \in LBlock /\ fr \in Nat
  /\ i \in FileIdx /\ j \in Store!SetJob /\ fm \in FileMetas
  /\ fm.id = j.fid /\ fm.lblock = l /\ fm.max_size = j.len /\ fm.once = j.once
  /\ offset \in Nat /\ n \in Nat /\ fm.cur_size = offset + n
  /\ M2 = [M EXCEPT ![i] = fm] /\ B2 = NewBlocks(c, B, l, fr) /\ Packed(B2, M2)
  /\ M[i].id = j.fid \/ (M[i].id = NULL /\ \A k \in FileIdx : M[k].id # j.fid)
  /\ \A k \in 1..offset : F[B[l].phy_id][CELL(fm.data_idx + k - 1)] = <<j.fid, j.val, k>>
  /\ bm \in BlockMetas /\ bm.phy_id = B[l].phy_id /\ bm.data_start = B[l].data_start
  /\ bm.free_size = fr
  /\ wm.lblock = l /\ wm.data_idx = fm.data_idx /\ wm.max_size = fm.max_size
  /\ data = Piece(j, offset, n)

UpdatePlan(c, l, i, bm, wm, fm, offset, data) ==
  its_flash_fs_dblock_write_file(c, bm, wm, offset, data)
  \o its_flash_fs_mblock_update_scratch_block_meta(c, l,
       [bm EXCEPT !.phy_id = its_flash_fs_mblock_cur_data_scratch_id(c, l)])
  \o <<Write(c.scratch, FILE(i), fm)>>
  \o its_flash_fs_mblock_cp_remaining_file_meta(c, i)
  \o (IF l # 0 THEN its_flash_fs_mblock_migrate_lb0_data_to_scratch(c) ELSE <<>>)
  \o its_flash_fs_mblock_meta_update_finalize(its_flash_fs_mblock_set_data_scratch(c, bm.phy_id, l))

\* The assets of a request.
LEMMA AssetIs ==
  ASSUME NEW j \in Store!SetJob, NEW n \in Nat
  PROVE  Store!Asset(j, n) \in AssetType
<1>1. j.fid \in Fid /\ j.val \in Val /\ j.len \in Nat /\ j.once \in BOOLEAN
  BY JobIs
<1>2. PICK s : s = Store!Chunks(j, n)
  OBVIOUS
<1>3. s \in [1..n -> Fid \X Val \X Nat]
  BY <1>1, <1>2 DEF Store!Chunks
<1>4. s \in Seq(Fid \X Val \X Nat)
  BY ONLY n \in Nat, <1>3
<1> QED
  BY <1>1, <1>2, <1>4 DEF Store!Asset, AssetType

\* Such a call starts, and leaves n more units in the asset.
LEMMA UpdateStarts ==
  ASSUME NEW c, NEW F, NEW B, NEW M, NEW l, NEW fr, NEW i, NEW j, NEW fm, NEW offset, NEW n,
         NEW B2, NEW M2, NEW bm, NEW wm, NEW data,
         Updating(F, c, B, M, l, fr, i, j, fm, offset, n, B2, M2, bm, wm, data),
         NEW P, P = UpdatePlan(c, l, i, bm, wm, fm, offset, data)
  PROVE  \E d, G, D :
           /\ Writing(P, F, c, d, G, D)
           /\ AssetsOf(G, d) = [AssetsOf(F, c) EXCEPT ![j.fid] = Store!Asset(j, offset + n)]
<1>f. PICK nm : nm = [bm EXCEPT !.phy_id = its_flash_fs_mblock_cur_data_scratch_id(c, l)]
  OBVIOUS
<1>g. PICK v : v = IF l # 0 THEN its_flash_fs_mblock_migrate_lb0_data_to_scratch(c) ELSE <<>>
  OBVIOUS
<1>h. PICK b : b = its_flash_fs_mblock_set_data_scratch(c, bm.phy_id, l)
  OBVIOUS
<1> USE DEF Updating
<1>a. F = flash /\ IsFlash(F) /\ Current(F, c) /\ (\A x \in Spare(c) : F[x] = Blank)
  OBVIOUS
<1>b. B = BlocksOf(F, c) /\ M = FilesOf(F, c) /\ l \in LBlock /\ fr \in Nat /\ i \in FileIdx
      /\ offset \in Nat /\ n \in Nat
  OBVIOUS
<1>c. B2 = NewBlocks(c, B, l, fr) /\ Packed(B2, M2)
  OBVIOUS
<1>d. M[i].id = j.fid \/ (M[i].id = NULL /\ \A k \in FileIdx : M[k].id # j.fid)
  OBVIOUS
<1>e. data = Piece(j, offset, n)
  OBVIOUS
<1>1. /\ IsCtx(c) /\ Tables(B, M) /\ Placed(c, B, M) /\ Packed(B, M)
      /\ M2 \in [FileIdx -> FileMetas] /\ M2[i] = fm /\ \A k \in FileIdx \ {i} : M2[k] = M[k]
  <2>1. IsCtx(c) /\ Tables(B, M) /\ Placed(c, B, M) /\ Packed(B, M)
    BY DEF Current, Sound, Layout
  <2>2. M \in [FileIdx -> FileMetas]
    BY <2>1 DEF Tables
  <2> QED
    BY <2>1, <2>2
<1>2. PICK d : d = NewCtx(c, B, l)
  OBVIOUS
<1>3. /\ Tables(B2, M2)
      /\ \A m \in LBlock : B2[m].phy_id = IF m = 0 THEN c.scratch
                                          ELSE IF m = l THEN c.dblock ELSE B[m].phy_id
      /\ B2[l].free_size = fr /\ B2[l].data_start = B[l].data_start
  BY ONLY <1>1, <1>2, <1>b, <1>c, NewBlocksIs
<1>4. j.fid \in Fid /\ j.val \in Val /\ j.len \in Nat /\ j.once \in BOOLEAN
  BY JobIs
<1>5. i \in Used(M2) /\ NULL \notin Fid
  BY <1>1, <1>4, Constants DEF Used
<1>6. PICK ds : ds = B[l].data_start
  OBVIOUS
<1>7. ds = DataFrom(l)
  BY <1>1, <1>6 DEF Placed
<1>8. PICK top : top = BlockSize - fr
  OBVIOUS
<1>9. PICK di : di = fm.data_idx
  OBVIOUS
<1>10. PICK end : end = di + fm.max_size
  OBVIOUS
<1>11. PICK pos : pos = di + offset
  OBVIOUS
<1>12. /\ ds \in Nat /\ di \in Nat /\ ds <= di /\ end + fr <= BlockSize
       /\ fm.cur_size <= fm.max_size /\ fm.max_size \in Nat
  <2>1. /\ DataFrom(l) \in Nat /\ DataFrom(l) <= fm.data_idx
        /\ fm.data_idx + fm.max_size + fr <= BlockSize /\ fm.cur_size <= fm.max_size
    <3>1. M2[i].lblock = l /\ M2[i].data_idx = fm.data_idx /\ M2[i].max_size = fm.max_size
          /\ M2[i].cur_size = fm.cur_size
      BY <1>1
    <3>2. /\ DataFrom(M2[i].lblock) \in Nat /\ DataFrom(M2[i].lblock) <= M2[i].data_idx
          /\ M2[i].data_idx + M2[i].max_size + B2[M2[i].lblock].free_size <= BlockSize
          /\ M2[i].cur_size <= M2[i].max_size
      BY ONLY <1>3, <1>5, <1>c, Extent
    <3> QED
      BY ONLY <1>3, <3>1, <3>2, Zenon
  <2> QED
    BY <1>7, <1>9, <1>10, <2>1 DEF FileMetas
<1>13. /\ BlockSize \in Nat /\ ds \in Nat /\ pos \in Nat /\ n \in Nat /\ end \in Nat /\ top \in Nat
       /\ ds <= di /\ di <= pos /\ pos + n <= end /\ end <= top /\ top <= BlockSize /\ ds <= pos
       /\ di \in Nat /\ offset \in Nat /\ fr \in Nat
  <2>1. fm.cur_size = offset + n
    OBVIOUS
  <2> QED
    BY ONLY <1>8, <1>10, <1>11, <1>12, <2>1, Constants, <1>b
<1>14. PICK cell : cell = [k \in 0..(BlockSize - 1) |->
         IF k \in pos..(pos + n - 1) THEN data[k - pos + 1]
         ELSE IF k \in (ds..(pos - 1)) \cup (end..(top - 1)) THEN F[B[l].phy_id][CELL(k)]
         ELSE ERASED]
  OBVIOUS
<1>15. PICK G : G = NewFlash(F, c, B, l, d, B2, M2, cell)
  OBVIOUS
<1>16. /\ IsSeq(data) /\ Len(data) = n
       /\ \A k \in 1..n : data[k] = <<j.fid, j.val, offset + k>>
  BY ONLY <1>b, <1>e, PieceIs, ZenonT(60)
<1>17. ASSUME NEW k \in 1..n PROVE cell[pos + k - 1] = data[k]
  <2>1. PICK m : m = pos + k - 1
    OBVIOUS
  <2>2. m \in 0..(BlockSize - 1) /\ m \in pos..(pos + n - 1) /\ m - pos + 1 = k
    BY ONLY <1>13, <2>1, k \in 1..n
  <2> QED
    BY ONLY <1>14, <2>1, <2>2
<1>18. ASSUME NEW k \in (ds..(pos - 1)) \cup (end..(top - 1)) PROVE cell[k] = F[B[l].phy_id][CELL(k)]
  <2>1. k \in 0..(BlockSize - 1) /\ k \notin pos..(pos + n - 1)
    BY ONLY <1>13, k \in (ds..(pos - 1)) \cup (end..(top - 1))
  <2> QED
    BY ONLY <1>14, <2>1, k \in (ds..(pos - 1)) \cup (end..(top - 1))
<1>19. PICK sb : sb = DataBlock(c, l)
  OBVIOUS
<1>20. /\ \A m \in LBlock : G[c.scratch][BLOCK(m)] = B2[m]
       /\ \A k \in FileIdx : G[c.scratch][FILE(k)] = M2[k]
       /\ \A k \in 0..(BlockSize - 1) :
              /\ G[sb][CELL(k)] = cell[k]
              /\ l # 0 => G[c.scratch][CELL(k)]
                            = IF k \in DataStart..(BlockSize - B[0].free_size - 1)
                                THEN F[c.active][CELL(k)] ELSE ERASED
  BY ONLY <1>1, <1>15, <1>19, <1>b, NewFlashIs DEF DataBlock
<1>21. PICK CS : CS = (ds..(pos - 1)) \cup (pos..(pos + n - 1)) \cup (end..(top - 1))
  OBVIOUS
<1>22. ASSUME NEW k \in Used(M) \ {i} PROVE Keeps(F, B, M, M2, l, cell, k)
  <2>1. k \in FileIdx \ {i} /\ k \in Used(M2) /\ M2[k] = M[k]
    BY <1>1 DEF Used
  <2>2. CASE M[k].lblock = l
    <3>1. /\ M[k] \in FileMetas /\ ds <= M[k].data_idx /\ M[k].data_idx + M[k].max_size <= top
          /\ M[k].cur_size <= M[k].max_size
      <4>1. /\ M2[k] \in FileMetas /\ DataFrom(l) <= M2[k].data_idx
            /\ M2[k].data_idx + M2[k].max_size + fr <= BlockSize /\ M2[k].cur_size <= M2[k].max_size
        <5>1. M2[k].lblock = l
          BY <2>1, <2>2
        <5>2. /\ M2[k] \in FileMetas /\ DataFrom(M2[k].lblock) <= M2[k].data_idx
              /\ M2[k].data_idx + M2[k].max_size + B2[M2[k].lblock].free_size <= BlockSize
              /\ M2[k].cur_size <= M2[k].max_size
          BY ONLY <1>3, <2>1, <1>c, Extent
        <5> QED
          BY ONLY <1>3, <5>1, <5>2, Zenon
      <4>2. PICK x, y : x = M2[k].data_idx /\ y = M2[k].max_size
        OBVIOUS
      <4>3. x \in Nat /\ y \in Nat
        BY <4>1, <4>2 DEF FileMetas
      <4>4. x + y <= top
        BY ONLY <1>8, <1>13, <4>1, <4>2, <4>3
      <4> QED
        BY <1>7, <2>1, <4>1, <4>2, <4>4
    <3>2. M[k].data_idx + M[k].max_size <= di \/ end <= M[k].data_idx
      <4>1. M2[k].data_idx # fm.data_idx
        <5>1. i \in Used(M2) \ {k} /\ M2[i].lblock = M2[k].lblock /\ M2[i].data_idx = fm.data_idx
          BY <1>1, <1>5, <2>1, <2>2
        <5> QED
          BY ONLY <2>1, <5>1, <1>c DEF Packed
      <4>2. M2[k].data_idx \in Nat /\ fm.data_idx \in Nat
        BY <2>1, <3>1 DEF FileMetas
      <4>3. CASE M2[k].data_idx < fm.data_idx
        <5>1. M2[i].lblock = M2[k].lblock /\ M2[k].data_idx < M2[i].data_idx /\ M2[i].data_idx = di
          BY <1>1, <1>9, <2>1, <2>2, <4>3
        <5>2. M2[k].data_idx + M2[k].max_size <= M2[i].data_idx
          BY ONLY <1>3, <1>5, <2>1, <5>1, <1>c, Apart
        <5> QED
          BY ONLY <2>1, <5>1, <5>2
      <4>4. CASE fm.data_idx < M2[k].data_idx
        <5>1. M2[i].lblock = M2[k].lblock /\ M2[i].data_idx < M2[k].data_idx /\ M2[i].data_idx = di
              /\ M2[i].max_size = fm.max_size
          BY <1>1, <1>9, <2>1, <2>2, <4>4
        <5>2. M2[i].data_idx + M2[i].max_size <= M2[k].data_idx
          BY ONLY <1>3, <1>5, <2>1, <5>1, <1>c, Apart
        <5> QED
          BY ONLY <1>10, <2>1, <5>1, <5>2
      <4> QED
        BY <4>1, <4>2, <4>3, <4>4
    <3>3. ASSUME NEW m \in 1..M[k].cur_size
          PROVE  cell[M2[k].data_idx + m - 1] = F[B[l].phy_id][CELL(M[k].data_idx + m - 1)]
      <4>1. PICK x : x = M[k].data_idx
        OBVIOUS
      <4>2. PICK y : y = M[k].max_size
        OBVIOUS
      <4>3. PICK z : z = M[k].cur_size
        OBVIOUS
      <4>4. x \in Nat /\ y \in Nat /\ z \in Nat /\ ds <= x /\ x + y <= top /\ z <= y
            /\ (x + y <= di \/ end <= x) /\ m \in 1..z
        BY <3>1, <3>2, <4>1, <4>2, <4>3 DEF FileMetas
      <4>5. x + m - 1 \in (ds..(pos - 1)) \cup (end..(top - 1))
        BY ONLY <1>13, <4>4
      <4> QED
        BY <1>18, <2>1, <4>1, <4>5
    <3> QED
      BY <2>1, <2>2, <3>3 DEF Keeps
  <2>3. CASE M[k].lblock # l
    BY <2>1, <2>3 DEF Keeps
  <2> QED
    BY <2>2, <2>3
<1>23. AssetAt(G, B2, M2, i) = Store!Asset(j, offset + n)
  <2>1. B2[l].phy_id = sb
    BY <1>3, <1>19 DEF DataBlock
  <2>2. ASSUME NEW k \in 1..(offset + n) PROVE G[sb][CELL(di + k - 1)] = <<j.fid, j.val, k>>
    <3>1. di + k - 1 \in 0..(BlockSize - 1)
      BY ONLY <1>13, <1>11, k \in 1..(offset + n)
    <3>2. G[sb][CELL(di + k - 1)] = cell[di + k - 1]
      BY <1>20, <3>1
    <3>3. CASE k <= offset
      <4>1. k \in 1..offset
        BY <1>13, <3>3
      <4>2. di + k - 1 \in (ds..(pos - 1)) \cup (end..(top - 1))
        BY ONLY <1>13, <1>11, <4>1
      <4>3. cell[di + k - 1] = F[B[l].phy_id][CELL(di + k - 1)]
        BY <1>18, <4>2
      <4>4. F[B[l].phy_id][CELL(di + k - 1)] = <<j.fid, j.val, k>>
        BY <1>9, <4>1
      <4> QED
        BY <3>2, <4>3, <4>4
    <3>4. CASE k > offset
      <4>1. PICK m : m = k - offset
        OBVIOUS
      <4>2. m \in 1..n /\ di + k - 1 = pos + m - 1 /\ offset + m = k
        BY ONLY <1>13, <1>11, <3>4, <4>1, k \in 1..(offset + n)
      <4> QED
        BY <1>16, <1>17, <3>2, <4>2
    <3> QED
      BY <1>13, <3>3, <3>4
  <2>3. M2[i].cur_size = offset + n /\ M2[i].lblock = l /\ M2[i].data_idx = di
        /\ M2[i].max_size = j.len /\ M2[i].once = j.once
    BY <1>1, <1>9
  <2>4. [k \in 1..(offset + n) |-> G[sb][CELL(di + k - 1)]]
          = [k \in 1..(offset + n) |-> <<j.fid, j.val, k>>]
    BY <2>2
  <2>5. AssetAt(G, B2, M2, i)
          = [data |-> [k \in 1..(offset + n) |-> G[sb][CELL(di + k - 1)]],
             cap |-> j.len, once |-> j.once]
    BY ONLY <2>1, <2>3 DEF AssetAt
  <2> QED
    BY ONLY <2>4, <2>5, Zenon DEF Store!Asset, Store!Chunks
<1>24. Store!Asset(j, offset + n) \in AssetType
  <2>1. j \in Store!SetJob /\ offset + n \in Nat
    BY DEF Updating
  <2> QED
    BY ONLY <2>1, AssetIs
<1>25. Current(G, d) /\ AssetsOf(G, d) = [AssetsOf(F, c) EXCEPT ![j.fid] = Store!Asset(j, offset + n)]
  <2>1. PICK X : X = IF M2[i].id = NULL THEN NULL ELSE AssetAt(G, B2, M2, i)
    OBVIOUS
  <2>2. M2[i].id = j.fid /\ M2[i].id \in {j.fid, NULL} /\ X = Store!Asset(j, offset + n)
    BY <1>1, <1>4, <1>5, <1>23, <2>1
  <2>3. AssetAt(G, B2, M2, i) \in AssetType
    BY <1>23, <1>24
  <2>4. \A k \in FileIdx \ {i} : M2[k].id = M[k].id
    BY <1>1
  <2>5. \A k \in Used(M) \ {i} : Keeps(F, B, M, M2, l, cell, k)
    BY <1>22
  <2> QED
    BY ONLY <1>a, <1>b,
       <1>1, <1>2, <1>4, <1>15, <1>c, <1>b,
       <1>d,
       <2>1, <2>2, <2>3, <2>4, <2>5, NewStored
<1>26. PICK s : s = its_flash_fs_dblock_write_file(c, bm, wm, offset, data)
  OBVIOUS
<1>27. PICK t : t = its_flash_fs_mblock_update_scratch_block_meta(c, l, nm)
  OBVIOUS
<1>28. PICK w : w = <<Write(c.scratch, FILE(i), fm)>>
  OBVIOUS
<1>29. PICK q : q = its_flash_fs_mblock_cp_remaining_file_meta(c, i)
  OBVIOUS
<1>30. Realises(s, CellLocs(sb, CS), G, {})
  <2>1. /\ ds = bm.data_start /\ pos = wm.data_idx + offset /\ n = Len(data)
        /\ end = wm.data_idx + wm.max_size /\ top = BlockSize - bm.free_size
        /\ wm.lblock \in LBlock /\ sb = DataBlock(c, wm.lblock)
    BY <1>6, <1>8, <1>9, <1>10, <1>11, <1>16, <1>19
  <2>2. \A k \in 0..(BlockSize - 1) : G[sb][CELL(k)] = cell[k]
    BY <1>20
  <2>3. \A k \in (ds..(pos - 1)) \cup (end..(top - 1)) : cell[k] = flash[bm.phy_id][CELL(k)]
    BY <1>18
  <2>4. \A k \in 1..n : cell[pos + k - 1] = data[k]
    BY <1>17
  <2> QED
    <3>1. Realises(its_flash_fs_dblock_write_file(c, bm, wm, offset, data),
                   CellLocs(sb, (ds..(pos - 1)) \cup (pos..(pos + n - 1)) \cup (end..(top - 1))), G, {})
      <4>1. Around(G, c, bm, wm, offset, data, sb, ds, pos, n, end, top, cell)
        BY ONLY <1>1, <1>13, <2>1, <2>2, <2>3, <2>4 DEF Around
      <4> QED
        BY ONLY <4>1, WriteRealised
    <3> QED
      BY ONLY <1>21, <1>26, <3>1, Zenon
<1>31. Realises(t, Locs(c.scratch, "block", 0, its_num_active_dblocks - 1), G, {})
  <2>1. PICK x : x = its_flash_fs_mblock_cur_data_scratch_id(c, l)
    OBVIOUS
  <2>2. x \in Block /\ (l # 0 => x = c.dblock)
    BY <1>1, <2>1, SpareBlocks, Blocks DEF its_flash_fs_mblock_cur_data_scratch_id
  <2>3. bm = [phy_id |-> bm.phy_id, data_start |-> bm.data_start, free_size |-> bm.free_size]
    BY DEF BlockMetas
  <2>4. nm = [phy_id |-> x, data_start |-> bm.data_start, free_size |-> bm.free_size]
    BY <1>f, <2>1, <2>3
  <2>5. nm \in BlockMetas /\ nm.data_start = B[l].data_start /\ nm.free_size = fr
        /\ (l # 0 => nm.phy_id = c.dblock)
    <3>1. bm.data_start \in Nat /\ bm.free_size \in Nat /\ bm.data_start = B[l].data_start
          /\ bm.free_size = fr
      BY DEF BlockMetas
    <3> QED
      BY ONLY <2>2, <2>4, <3>1 DEF BlockMetas
  <2>6. B = BlocksOf(flash, c)
    OBVIOUS
  <2>7. \A m \in LBlock : G[c.scratch][BLOCK(m)] = B2[m]
    BY <1>20
  <2>8. Realises(its_flash_fs_mblock_update_scratch_block_meta(c, l, nm),
                 Locs(c.scratch, "block", 0, its_num_active_dblocks - 1), G, {})
    BY ONLY <1>1, <2>5, <2>6, <2>7, <1>b,
       <1>c, BlocksRealised, ZenonT(60)
  <2> QED
    BY ONLY <1>27, <2>8, Zenon
<1>32. Realises(w \o q, Locs(c.scratch, "file", 0, MaxFiles - 1), G, {})
  BY ONLY <1>1, <1>20, <1>28, <1>29, <1>a, <1>b, FilesRealised
<1>33. Realises(v, IF l = 0 THEN {}
                   ELSE Locs(c.scratch, "cell", DataStart, BlockSize - B[0].free_size - 1), G, {})
  <2>1. CASE l = 0
    BY <1>g, <2>1, RealisesNone
  <2>2. CASE l # 0
    BY <1>1, <1>20, <1>g, <2>2, MigrateRealised
  <2> QED
    BY <2>1, <2>2
<1>34. Realises(((s \o t) \o (w \o q)) \o v, AllLocs(c, B, l, CS), G, {})
  BY ONLY <1>1, <1>19, <1>b, <1>30, <1>31, <1>32, <1>33, AllRealised
<1>35. ((s \o t) \o w) \o q = (s \o t) \o (w \o q)
  <2>1. IsSeq(s) /\ IsSeq(t)
    BY <1>30, <1>31 DEF Realises
  <2>2. IsSeq(w)
    BY <1>28, OneSeqIs
  <2>3. IsSeq(q)
    <3>1. PICK x : x = MaxFiles - 1 - (i + 1) + 1
      OBVIOUS
    <3>2. i \in Nat /\ MaxFiles \in Nat /\ i <= MaxFiles - 1
      BY Constants DEF FileIdx
    <3>3. i - 1 - 0 + 1 \in Nat /\ x \in Nat
      BY <3>1, <3>2
    <3>4. IsSeq(CopyMeta(c, "file", 0, i - 1))
      <4>1. CopyMeta(c, "file", 0, i - 1) \in [1..(i - 1 - 0 + 1) ->
              {CopyMeta(c, "file", 0, i - 1)[k] : k \in 1..(i - 1 - 0 + 1)}]
        BY DEF CopyMeta
      <4> QED
        BY <3>3, <4>1, FunIsSeq
    <3>5. IsSeq(CopyMeta(c, "file", i + 1, MaxFiles - 1))
      <4>1. CopyMeta(c, "file", i + 1, MaxFiles - 1) \in [1..x ->
              {CopyMeta(c, "file", i + 1, MaxFiles - 1)[k] : k \in 1..x}]
        BY <3>1 DEF CopyMeta
      <4> QED
        BY <3>3, <4>1, FunIsSeq
    <3> QED
      BY <1>29, <3>4, <3>5, Cat DEF its_flash_fs_mblock_cp_remaining_file_meta
  <2>4. IsSeq(s \o t)
    BY <2>1, Cat
  <2>5. PICK a : a = s \o t
    OBVIOUS
  <2>6. (a \o w) \o q = a \o (w \o q)
    BY ONLY <2>2, <2>3, <2>4, <2>5, Assoc, SMTT(40)
  <2> QED
    BY ONLY <2>5, <2>6, Zenon
<1>36. P = ((((s \o t) \o w) \o q) \o v) \o its_flash_fs_mblock_meta_update_finalize(b)
  BY ONLY P = UpdatePlan(c, l, i, bm, wm, fm, offset, data), <1>f, <1>g, <1>h,
     <1>26, <1>27, <1>28, <1>29, Zenon DEF UpdatePlan
<1>37. \E D : Writing(P, F, c, d, G, D)
  <2>1. CS \in SUBSET (0..(BlockSize - 1))
    BY ONLY <1>13, <1>21
  <2>2. \A k \in 0..(BlockSize - 1) : k \notin CS => cell[k] = ERASED
    BY ONLY <1>14, <1>21
  <2>3. PICK Q : Q = ((s \o t) \o (w \o q)) \o v
    OBVIOUS
  <2>5. b = its_flash_fs_mblock_set_data_scratch(c, B[l].phy_id, l)
    BY <1>h
  <2>4. \E D : Writing(Q \o its_flash_fs_mblock_meta_update_finalize(b), F, c, d, G, D)
    BY ONLY <1>a,
       <1>b, <1>2, <1>15, <1>25, <1>34, <2>1, <2>2, <2>3,
       <2>5, OperationStarts
  <2> QED
    BY <1>35, <1>36, <2>3, <2>4
<1> QED
  BY <1>25, <1>37
-----------------------------------------------------------------------------
\* The upper bound of a range that starts at 1.
LEMMA SameRange ==
  ASSUME NEW a \in Nat, NEW b \in Nat, 1..a = 1..b
  PROVE  a = b
<1>1. CASE a < b
  <2>1. b \in 1..b /\ b \notin 1..a
    BY <1>1
  <2> QED
    BY <2>1
<1>2. CASE b < a
  <2>1. a \in 1..a /\ a \notin 1..b
    BY <1>2
  <2> QED
    BY <2>1
<1> QED
  BY <1>1, <1>2

\* The metadata of a context, in the words of the file system and in ours.
LEMMA MetaOf ==
  ASSUME NEW c, NEW B, NEW M, B = BlocksOf(flash, c), M = FilesOf(flash, c)
  PROVE  /\ \A l \in LBlock : BlockMeta(c, l) = B[l]
         /\ \A i \in FileIdx : FileMeta(c, i) = M[i]
         /\ \A f : IdxOf(c, f) = {i \in FileIdx : M[i].id = f}
<1>1. \A l \in LBlock : BlockMeta(c, l) = B[l]
  BY DEF BlocksOf, BlockMeta, Item
<1>2. \A i \in FileIdx : FileMeta(c, i) = M[i]
  BY DEF FilesOf, FileMeta, Item
<1>3. ASSUME NEW f PROVE IdxOf(c, f) = {i \in FileIdx : M[i].id = f}
  BY <1>2 DEF IdxOf
<1> QED
  BY <1>1, <1>2, <1>3

\* A file exists when its asset does.
LEMMA FileOf ==
  ASSUME NEW F, NEW c, Current(F, c), NEW B, NEW M, B = BlocksOf(F, c), M = FilesOf(F, c),
         NULL \notin AssetType, NEW f \in Fid, NEW S, S = {k \in FileIdx : M[k].id = f}
  PROVE  /\ S = {} <=> AssetsOf(F, c)[f] = NULL
         /\ S # {} => /\ Min(S) \in FileIdx /\ M[Min(S)].id = f /\ Min(S) \in Used(M)
                      /\ S = {Min(S)}
                      /\ AssetsOf(F, c)[f] = AssetAt(F, B, M, Min(S))
                      /\ AssetsOf(F, c)[f] \in AssetType
<1>1. Tables(B, M) /\ Packed(B, M) /\ Typed(F, B, M)
  BY DEF Current, Sound, Layout
<1>2. AssetsOf(F, c) = AssetsIn(F, B, M)
  BY DEF AssetsOf
<1>3. CASE S = {}
  <2>1. \A k \in FileIdx : M[k].id # f
    BY <1>3
  <2>2. AssetsIn(F, B, M)[f] = NULL
    BY <2>1 DEF AssetsIn
  <2> QED
    BY <1>2, <1>3, <2>2
<1>4. CASE S # {}
  <2>1. S \in SUBSET Nat
    BY Constants DEF FileIdx
  <2>2. PICK i : i = Min(S)
    OBVIOUS
  <2>3. i \in S
    BY <1>4, <2>1, <2>2, MinOf
  <2>4. i \in FileIdx /\ M[i].id = f /\ M[i].id \in Fid
    BY <2>3
  <2>5. /\ AssetsIn(F, B, M)[M[i].id] = AssetAt(F, B, M, i) /\ i \in Used(M)
        /\ {j \in FileIdx : M[j].id = M[i].id} = {i}
    BY <1>1, <2>4, AssetOfFile
  <2>6. AssetAt(F, B, M, i) \in AssetType
    BY <1>1, <2>5 DEF Typed
  <2> QED
    BY <1>2, <1>4, <2>2, <2>4, <2>5, <2>6
<1> QED
  BY <1>3, <1>4

\* its_flash_fs_file_write() appends n units to the file of the request j.
LEMMA WriteStarts ==
  ASSUME NEW c, NEW F, F = flash, IsFlash(F), Current(F, c), \A x \in Spare(c) : F[x] = Blank,
         NEW j \in Store!SetJob, NEW offset \in Nat, NEW n \in Nat, offset + n <= j.len,
         NULL \notin AssetType, Store!Asset(j, offset) \in AssetType,
         AssetsOf(F, c)[j.fid] = Store!Asset(j, offset),
         NEW data, data = Piece(j, offset, n),
         NEW P, P = its_flash_fs_file_write(c, j.fid, offset, data)
  PROVE  \E d, G, D :
           /\ Writing(P, F, c, d, G, D)
           /\ AssetsOf(G, d) = [AssetsOf(F, c) EXCEPT ![j.fid] = Store!Asset(j, offset + n)]
<1>1. PICK B, M : B = BlocksOf(F, c) /\ M = FilesOf(F, c)
  OBVIOUS
<1>2. IsCtx(c) /\ Tables(B, M) /\ Placed(c, B, M) /\ Packed(B, M)
  BY <1>1 DEF Current, Sound, Layout
<1>3. j.fid \in Fid /\ j.val \in Val /\ j.len \in Nat /\ j.once \in BOOLEAN
  BY JobIs
<1>4. PICK S : S = {k \in FileIdx : M[k].id = j.fid}
  OBVIOUS
<1>5. PICK i : i = Min(S)
  OBVIOUS
<1>6. i \in FileIdx /\ M[i].id = j.fid /\ i \in Used(M) /\ AssetAt(F, B, M, i) = Store!Asset(j, offset)
  <2>1. AssetsOf(F, c)[j.fid] # NULL
    OBVIOUS
  <2>2. /\ S = {} <=> AssetsOf(F, c)[j.fid] = NULL
        /\ S # {} => /\ Min(S) \in FileIdx /\ M[Min(S)].id = j.fid /\ Min(S) \in Used(M)
                     /\ AssetsOf(F, c)[j.fid] = AssetAt(F, B, M, Min(S))
    BY ONLY Current(F, c), <1>1, <1>3, <1>4, NULL \notin AssetType, FileOf
  <2> QED
    BY <1>5, <2>1, <2>2
<1>7. PICK fm : fm = M[i]
  OBVIOUS
<1>8. fm \in FileMetas
  BY <1>2, <1>6, <1>7 DEF Tables
<1>9. PICK l : l = fm.lblock
  OBVIOUS
<1>10. PICK bm : bm = B[l]
  OBVIOUS
<1>11. l \in LBlock /\ bm \in BlockMetas /\ bm.free_size \in Nat
  BY <1>2, <1>8, <1>9, <1>10 DEF Tables, FileMetas, BlockMetas
<1>12. /\ fm.cur_size = offset /\ fm.max_size = j.len /\ fm.once = j.once
       /\ \A k \in 1..offset : F[bm.phy_id][CELL(fm.data_idx + k - 1)] = <<j.fid, j.val, k>>
  <2>1. PICK a : a = AssetAt(F, B, M, i)
    OBVIOUS
  <2>2. /\ a.data = [k \in 1..fm.cur_size |-> F[bm.phy_id][CELL(fm.data_idx + k - 1)]]
        /\ a.cap = fm.max_size /\ a.once = fm.once
    BY <1>7, <1>9, <1>10, <2>1 DEF AssetAt
  <2>3. /\ a.data = [k \in 1..offset |-> <<j.fid, j.val, k>>]
        /\ a.cap = j.len /\ a.once = j.once
    BY <1>6, <2>1 DEF Store!Asset, Store!Chunks
  <2>4. DOMAIN a.data = 1..fm.cur_size /\ DOMAIN a.data = 1..offset
    BY ONLY <2>2, <2>3
  <2>5. fm.cur_size \in Nat
    BY <1>8 DEF FileMetas
  <2>6. fm.cur_size = offset
    BY ONLY <2>4, <2>5, offset \in Nat, SameRange
  <2>7. ASSUME NEW k \in 1..offset
        PROVE  F[bm.phy_id][CELL(fm.data_idx + k - 1)] = <<j.fid, j.val, k>>
    <3>1. a.data[k] = <<j.fid, j.val, k>>
      BY <2>3
    <3>2. a.data[k] = F[bm.phy_id][CELL(fm.data_idx + k - 1)]
      BY <2>2, <2>6
    <3> QED
      BY <3>1, <3>2
  <2> QED
    BY <2>2, <2>3, <2>6, <2>7
<1>13. Len(data) = n
  BY ONLY offset \in Nat, n \in Nat, data = Piece(j, offset, n), PieceIs
<1>14. PICK nf : nf = [fm EXCEPT !.cur_size = Max({fm.cur_size, offset + Len(data)})]
  OBVIOUS
<1>15. /\ nf \in FileMetas /\ nf.id = fm.id /\ nf.lblock = l /\ nf.max_size = j.len /\ nf.once = j.once
       /\ nf.data_idx = fm.data_idx /\ nf.cur_size = offset + n
  <2>1. PICK x : x = Max({fm.cur_size, offset + Len(data)})
    OBVIOUS
  <2>2. offset \in Int /\ offset + n \in Int /\ offset <= offset + n
    OBVIOUS
  <2>3. x = offset + n
    BY ONLY <1>12, <1>13, <2>1, <2>2, MinMax
  <2>4. nf = [fm EXCEPT !.cur_size = x] /\ x \in Nat
    BY <1>14, <2>1, <2>3
  <2> QED
    BY ONLY <1>8, <1>9, <1>12, <2>3, <2>4 DEF FileMetas
<1>16. PICK M2 : M2 = [M EXCEPT ![i] = nf]
  OBVIOUS
<1>17. M2 \in [FileIdx -> FileMetas] /\ M2[i] = nf /\ \A k \in FileIdx \ {i} : M2[k] = M[k]
  BY <1>2, <1>6, <1>15, <1>16 DEF Tables
<1>18. PICK fr : fr = bm.free_size
  OBVIOUS
<1>19. PICK B2 : B2 = NewBlocks(c, B, l, fr)
  OBVIOUS
<1>20. Packed(B2, M2)
  <2>1. PICK d : d = NewCtx(c, B, l)
    OBVIOUS
  <2>2. /\ Tables(B2, M2)
        /\ \A m \in LBlock : B2[m].free_size = IF m = l THEN fr ELSE B[m].free_size
    BY ONLY <1>2, <1>11, <1>17, <1>18, <1>19, <2>1, NewBlocksIs
  <2>3. \A m \in LBlock : B2[m].free_size = B[m].free_size
    BY <1>10, <1>18, <2>2
  <2>4. \A k \in FileIdx : /\ M2[k].id = M[k].id /\ M2[k].lblock = M[k].lblock
                           /\ M2[k].data_idx = M[k].data_idx /\ M2[k].max_size = M[k].max_size
    BY <1>7, <1>9, <1>12, <1>15, <1>17
  <2>5. ASSUME NEW k \in Used(M) PROVE M2[k].cur_size <= M[k].max_size
    <3>1. CASE k = i
      BY <1>7, <1>12, <1>15, <1>17, <3>1
    <3>2. CASE k # i
      <4>1. M2[k] = M[k]
        BY <1>17, <3>2 DEF Used
      <4> QED
        BY <1>2, <4>1 DEF Packed
    <3> QED
      BY <3>1, <3>2
  <2> QED
    BY ONLY <1>2, <2>2, <2>3, <2>4, <2>5, PackedWrite
<1>24. P = UpdatePlan(c, l, i, bm, fm, nf, offset, data)
  <2>1. /\ BlockMeta(c, l) = bm /\ FileMeta(c, i) = fm /\ IdxOf(c, j.fid) = S
    BY <1>1, <1>4, <1>6, <1>7, <1>10, <1>11, MetaOf
  <2>2. i = its_flash_fs_mblock_get_file_idx(c, j.fid)
    BY <1>5, <2>1 DEF its_flash_fs_mblock_get_file_idx
  <2>3. FileMeta(c, its_flash_fs_mblock_get_file_idx(c, j.fid)) = fm
    BY <2>1, <2>2
  <2>4. P = its_flash_fs_file_write(c, j.fid, offset, data)
    OBVIOUS
  <2> QED
    BY ONLY <1>9, <1>14, <2>1, <2>2, <2>3, <2>4, Zenon DEF its_flash_fs_file_write, UpdatePlan
<1>25. nf.id = j.fid /\ M[i].id = j.fid
  BY <1>6, <1>7, <1>15
<1>26. \A k \in 1..offset : F[B[l].phy_id][CELL(nf.data_idx + k - 1)] = <<j.fid, j.val, k>>
  BY <1>10, <1>12, <1>15
<1>27. fm.lblock = l /\ fm.data_idx = nf.data_idx /\ fm.max_size = nf.max_size
  BY <1>9, <1>12, <1>15
<1>28. bm.phy_id = B[l].phy_id /\ bm.data_start = B[l].data_start /\ bm.free_size = fr /\ fr \in Nat
  BY <1>10, <1>11, <1>18
<1>29. Updating(F, c, B, M, l, fr, i, j, nf, offset, n, B2, M2, bm, fm, data)
  BY ONLY F = flash, IsFlash(F), Current(F, c), \A x \in Spare(c) : F[x] = Blank, <1>1, <1>11, <1>6,
     j \in Store!SetJob, <1>15, <1>16, <1>19, <1>20, <1>25, <1>26, <1>27, <1>28,
     offset \in Nat, n \in Nat, data = Piece(j, offset, n) DEF Updating
<1> QED
  BY ONLY <1>24, <1>29, UpdateStarts
-----------------------------------------------------------------------------
\* its_flash_fs_file_create() makes a file of the first n units of the request j.
LEMMA CreateStarts ==
  ASSUME NEW c, NEW F, F = flash, IsFlash(F), Current(F, c), \A x \in Spare(c) : F[x] = Blank,
         NEW j \in Store!SetJob, NEW n \in Nat, n > 0, n <= j.len,
         IdxOf(c, j.fid) = {}, Fitting(c, j.len) # {}, IdxOf(c, NULL) # {},
         NEW data, data = Piece(j, 0, n),
         NEW P, P = its_flash_fs_file_create(c, j.fid, j.len, j.once, data)
  PROVE  \E d, G, D :
           /\ Writing(P, F, c, d, G, D)
           /\ AssetsOf(G, d) = [AssetsOf(F, c) EXCEPT ![j.fid] = Store!Asset(j, 0 + n)]
<1>1. PICK B, M : B = BlocksOf(F, c) /\ M = FilesOf(F, c)
  OBVIOUS
<1>2. IsCtx(c) /\ Tables(B, M) /\ Placed(c, B, M) /\ Packed(B, M)
  BY <1>1 DEF Current, Sound, Layout
<1>3. j.fid \in Fid /\ j.val \in Val /\ j.len \in Nat /\ j.once \in BOOLEAN
  BY JobIs
<1>4. PICK i : i = its_get_free_file_index(c)
  OBVIOUS
<1>5. PICK l : l = Min(Fitting(c, j.len))
  OBVIOUS
<1>6. /\ \A m \in LBlock : BlockMeta(c, m) = B[m]
      /\ \A f : IdxOf(c, f) = {k \in FileIdx : M[k].id = f}
  BY <1>1, MetaOf
<1>7. i \in FileIdx /\ M[i].id = NULL
  <2>1. IdxOf(c, NULL) \in SUBSET Nat
    BY Constants DEF IdxOf, FileIdx
  <2>2. i \in IdxOf(c, NULL)
    BY <1>4, <2>1, MinOf DEF its_get_free_file_index
  <2> QED
    BY <1>6, <2>2
<1>8. \A k \in FileIdx : M[k].id # j.fid
  BY <1>6
<1>9. PICK old : old = B[l]
  OBVIOUS
<1>10. l \in LBlock /\ BlockMeta(c, l) = old /\ old \in BlockMetas /\ j.len <= old.free_size
       /\ old.free_size \in Nat
  <2>1. Fitting(c, j.len) \in SUBSET Nat
    BY Blocks DEF Fitting
  <2>2. l \in Fitting(c, j.len)
    BY <1>5, <2>1, MinOf
  <2>3. l \in LBlock /\ BlockMeta(c, l).free_size >= j.len
    BY <2>2 DEF Fitting
  <2>4. BlockMeta(c, l) = old /\ old \in BlockMetas
    BY <1>2, <1>6, <1>9, <2>3 DEF Tables
  <2>5. old.free_size \in Nat
    BY <2>4 DEF BlockMetas
  <2> QED
    BY <1>3, <2>3, <2>4, <2>5
<1>11. PICK bm : bm = [old EXCEPT !.free_size = old.free_size - j.len]
  OBVIOUS
<1>12. PICK fr : fr = old.free_size - j.len
  OBVIOUS
<1>13. /\ fr \in Nat /\ bm \in BlockMetas /\ bm.phy_id = B[l].phy_id
       /\ bm.data_start = B[l].data_start /\ bm.free_size = fr
  <2>1. fr \in Nat
    BY ONLY <1>3, <1>10, <1>12
  <2>2. bm = [old EXCEPT !.free_size = fr]
    BY ONLY <1>11, <1>12
  <2> QED
    BY ONLY <1>9, <1>10, <2>1, <2>2 DEF BlockMetas
<1>14. Len(data) = n /\ IsSeq(data) /\ data # <<>>
  <2>1. Len(data) = n /\ IsSeq(data)
    BY ONLY n \in Nat, data = Piece(j, 0, n), PieceIs
  <2> QED
    BY <2>1, EmptyIff
<1>15. PICK fm : fm = [id |-> j.fid, lblock |-> l, data_idx |-> BlockSize - old.free_size,
                       cur_size |-> Len(data), max_size |-> j.len, once |-> j.once]
  OBVIOUS
<1>16. /\ fm \in FileMetas /\ fm.id = j.fid /\ fm.lblock = l
       /\ fm.data_idx = BlockSize - B[l].free_size
       /\ fm.cur_size = n /\ fm.max_size = j.len /\ fm.once = j.once
  <2>1. BlockSize - old.free_size \in Nat
    <3>1. In(M, l) \in SUBSET FileIdx
      BY DEF In, Used
    <3>2. Taken(M, In(M, l)) \in Nat
      BY <1>2, <3>1, RoomNat
    <3>3. DataFrom(l) + Taken(M, In(M, l)) + old.free_size = BlockSize /\ DataFrom(l) \in Nat
      BY <1>2, <1>9, <1>10, Constants DEF Packed, DataFrom
    <3> QED
      BY ONLY <1>10, <3>2, <3>3, Constants
  <2> QED
    BY ONLY <1>3, <1>9, <1>10, <1>14, <1>15, <2>1, n \in Nat DEF FileMetas
<1>17. PICK M2 : M2 = [M EXCEPT ![i] = fm]
  OBVIOUS
<1>18. M2 \in [FileIdx -> FileMetas] /\ M2[i] = fm /\ \A k \in FileIdx \ {i} : M2[k] = M[k]
  BY <1>2, <1>7, <1>16, <1>17 DEF Tables
<1>19. PICK B2 : B2 = NewBlocks(c, B, l, fr)
  OBVIOUS
<1>20. Packed(B2, M2)
  <2>1. PICK d : d = NewCtx(c, B, l)
    OBVIOUS
  <2>2. /\ Tables(B2, M2)
        /\ \A m \in LBlock : B2[m].free_size = IF m = l THEN fr ELSE B[m].free_size
    BY ONLY <1>2, <1>10, <1>13, <1>18, <1>19, <2>1, NewBlocksIs
  <2>3. \A m \in LBlock : B2[m].free_size = IF m = l THEN B[l].free_size - j.len ELSE B[m].free_size
    BY <1>9, <1>12, <2>2
  <2>4. /\ M2[i].id = j.fid /\ M2[i].lblock = l /\ M2[i].data_idx = BlockSize - B[l].free_size
        /\ M2[i].max_size = j.len /\ M2[i].cur_size <= j.len
    BY <1>16, <1>18
  <2>5. j.len > 0 /\ j.len <= B[l].free_size
    BY <1>3, <1>9, <1>10
  <2> QED
    BY ONLY <1>2, <1>3, <1>7, <1>8, <1>10, <1>18, <2>2, <2>3, <2>4, <2>5, PackedCreate
<1>21. P = UpdatePlan(c, l, i, bm, fm, fm, 0, data)
  <2>1. BlockMeta(c, Min(Fitting(c, j.len))) = old
    BY <1>5, <1>10
  <2>2. bm.phy_id = old.phy_id
    BY <1>9, <1>13
  <2>3. P = its_flash_fs_file_create(c, j.fid, j.len, j.once, data)
    OBVIOUS
  <2> QED
    BY ONLY <1>4, <1>5, <1>10, <1>11, <1>14, <1>15, <2>1, <2>2, <2>3, Zenon
       DEF its_flash_fs_file_create, UpdatePlan
<1>22. Updating(F, c, B, M, l, fr, i, j, fm, 0, n, B2, M2, bm, fm, data)
  <2>1. fm.cur_size = 0 + n
    BY <1>16
  <2>2. \A k \in 1..0 : F[B[l].phy_id][CELL(fm.data_idx + k - 1)] = <<j.fid, j.val, k>>
    OBVIOUS
  <2> QED
    BY ONLY F = flash, IsFlash(F), Current(F, c), \A x \in Spare(c) : F[x] = Blank, <1>1, <1>7, <1>8,
       <1>10, <1>13, <1>16, <1>17, <1>19, <1>20, <2>1, <2>2, j \in Store!SetJob,
       n \in Nat, data = Piece(j, 0, n) DEF Updating
<1> QED
  BY ONLY <1>21, <1>22, UpdateStarts
-----------------------------------------------------------------------------
\* What lies behind a file, and where it starts.
LEMMA BehindIs ==
  ASSUME NEW B, NEW M, Tables(B, M), Packed(B, M), NEW i \in Used(M), NEW l, l = M[i].lblock,
         NEW H, H = BehindOf(M, i)
  PROVE  /\ Taken(M, H) \in Nat
         /\ M[i].data_idx + M[i].max_size + Taken(M, H) + B[l].free_size = BlockSize
         /\ \A j \in H : j \in Used(M) /\ M[j].lblock = l /\ j # i
                           /\ M[i].data_idx + M[i].max_size <= M[j].data_idx
         /\ H = {} => Taken(M, H) = 0
         /\ H # {} => \E j \in H : M[j].data_idx = M[i].data_idx + M[i].max_size
<1>1. M \in [FileIdx -> FileMetas] /\ \A j \in FileIdx : M[j] \in FileMetas /\ M[j].data_idx \in Nat
                                                       /\ M[j].max_size \in Nat
  BY DEF Tables, FileMetas
<1>2. /\ i \in FileIdx /\ l \in LBlock /\ DataFrom(l) \in Nat /\ B[l].free_size \in Nat
      /\ M[i].data_idx \in Nat /\ M[i].max_size \in Nat /\ M[i].max_size > 0
  <2>1. i \in FileIdx /\ l \in LBlock /\ B[l] \in BlockMetas /\ DataFrom(l) \in Nat /\ M[i].max_size > 0
    BY Extent
  <2> QED
    BY <1>1, <2>1 DEF BlockMetas
<1>3. PICK T : T = Before(M, i)
  OBVIOUS
<1>4. PICK I : I = In(M, l)
  OBVIOUS
<1>5. /\ T \in SUBSET FileIdx /\ I \in SUBSET FileIdx /\ H \in SUBSET FileIdx
      /\ i \in I /\ i \notin T /\ i \notin H /\ T \cap H = {} /\ (I \ {i}) \ T = H /\ T \subseteq I \ {i}
  <2>1. ASSUME NEW j \in (I \ {i}) \ T PROVE j \in H
    <3>1. j \in Used(M) /\ j # i /\ M[j].lblock = l /\ j \in FileIdx /\ M[j].id # NULL
      BY <1>4 DEF In, Used
    <3>2. ~(M[j].data_idx < M[i].data_idx)
      BY <1>3, <1>4 DEF Before
    <3>3. M[j].data_idx # M[i].data_idx
      BY <3>1 DEF Packed
    <3> QED
      BY <1>1, <1>2, <3>1, <3>2, <3>3 DEF BehindOf
  <2>2. H \subseteq (I \ {i}) \ T
    BY <1>1, <1>2, <1>3, <1>4 DEF BehindOf, In, Used, Before
  <2>3. T \subseteq I \ {i}
    BY <1>2, <1>3, <1>4 DEF Before
  <2>4. i \in I /\ I \in SUBSET FileIdx
    BY <1>2, <1>4 DEF In, Used
  <2> QED
    BY <2>1, <2>2, <2>3, <2>4
<1>6. /\ Taken(M, I) = M[i].max_size + Taken(M, I \ {i})
      /\ Taken(M, I \ {i}) = Taken(M, T) + Taken(M, H)
      /\ Taken(M, T) \in Nat /\ Taken(M, H) \in Nat /\ Taken(M, {}) = 0
  <2>1. Taken(M, I) = M[i].max_size + Taken(M, I \ {i})
    BY <1>5, RoomNat
  <2>2. PICK J : J = I \ {i}
    OBVIOUS
  <2>3. J \in SUBSET FileIdx /\ T \in SUBSET J /\ J \ T = H
    BY <1>5, <2>2
  <2>4. Taken(M, J) = Taken(M, T) + Taken(M, J \ T) /\ Taken(M, T) \in Nat /\ Taken(M, J \ T) \in Nat
    <3>1. \A U \in SUBSET J : Taken(M, J) = Taken(M, U) + Taken(M, J \ U)
                                 /\ Taken(M, U) \in Nat /\ Taken(M, J \ U) \in Nat
      BY ONLY Tables(B, M), <2>3, RoomNat
    <3> QED
      BY ONLY <2>3, <3>1
  <2>5. Taken(M, {}) = 0
    BY <2>3, RoomNat
  <2> QED
    BY <2>1, <2>2, <2>3, <2>4, <2>5
<1>7. /\ DataFrom(l) + Taken(M, I) + B[l].free_size = BlockSize
      /\ M[i].data_idx = DataFrom(l) + Taken(M, T)
  BY <1>2, <1>3, <1>4 DEF Packed
<1>8. M[i].data_idx + M[i].max_size + Taken(M, H) + B[l].free_size = BlockSize
  BY ONLY <1>2, <1>6, <1>7
<1>9. ASSUME NEW j \in H
      PROVE  /\ j \in Used(M) /\ M[j].lblock = l /\ j # i /\ M[i].data_idx < M[j].data_idx
             /\ M[i].data_idx + M[i].max_size <= M[j].data_idx
  <2>1. j \in Used(M) /\ M[j].lblock = l /\ j # i /\ M[i].data_idx < M[j].data_idx
    BY <1>1, <1>2 DEF BehindOf, Used
  <2> QED
    BY <2>1, Apart
<1>10. ASSUME H # {} PROVE \E j \in H : M[j].data_idx = M[i].data_idx + M[i].max_size
  <2>1. PICK S : S = {M[j].data_idx : j \in H}
    OBVIOUS
  <2>2. S \in SUBSET Nat /\ S # {}
    BY <1>1, <1>5, <1>10, <2>1
  <2>3. PICK x \in S : \A y \in S : x <= y
    BY <2>2, LeastOf
  <2>4. PICK j \in H : x = M[j].data_idx
    BY <2>1, <2>3
  <2>5. j \in Used(M) /\ M[j].lblock = l /\ j # i /\ M[i].data_idx < M[j].data_idx /\ j \in FileIdx
    BY <1>5, <1>9
  <2>6. Before(M, j) = T \cup {i}
    <3>1. ASSUME NEW k \in Before(M, j) PROVE k \in T \cup {i}
      <4>1. k \in I /\ M[k].data_idx < M[j].data_idx /\ k \in FileIdx
        BY <1>4, <1>5, <2>5 DEF Before
      <4>2. k \notin H
        <5>1. SUFFICES ASSUME k \in H PROVE FALSE
          OBVIOUS
        <5>2. M[k].data_idx \in S
          BY <2>1, <5>1
        <5>3. M[j].data_idx <= M[k].data_idx
          BY <2>3, <2>4, <5>2
        <5> QED
          BY <1>1, <2>5, <4>1, <5>3
      <4> QED
        BY <1>5, <4>1, <4>2
    <3>2. ASSUME NEW k \in T \cup {i} PROVE k \in Before(M, j)
      <4>1. k \in I /\ k \in FileIdx
        BY <1>5
      <4>2. M[k].data_idx <= M[i].data_idx
        BY <1>1, <1>2, <1>3, <4>1 DEF Before
      <4>3. M[k].data_idx < M[j].data_idx
        BY <1>1, <1>2, <2>5, <4>1, <4>2
      <4> QED
        BY <1>4, <2>5, <4>1, <4>3 DEF Before
    <3> QED
      BY <3>1, <3>2
  <2>7. M[j].data_idx = DataFrom(l) + Taken(M, Before(M, j))
    BY <2>5 DEF Packed
  <2>8. Taken(M, T \cup {i}) = M[i].max_size + Taken(M, T)
    <3>1. PICK J : J = T \cup {i}
      OBVIOUS
    <3>2. J \in SUBSET FileIdx /\ i \in J /\ J \ {i} = T
      BY <1>2, <1>5, <3>1
    <3>3. Taken(M, J) = M[i].max_size + Taken(M, J \ {i})
      BY <3>2, RoomNat
    <3> QED
      BY <3>1, <3>2, <3>3
  <2>9. M[j].data_idx = M[i].data_idx + M[i].max_size
    BY ONLY <1>2, <1>6, <1>7, <2>6, <2>7, <2>8
  <2> QED
    BY <2>4, <2>9
<1> QED
  BY <1>6, <1>8, <1>9, <1>10
-----------------------------------------------------------------------------
\* The file metadata after a deletion: the files behind the deleted one move up.
LEMMA MovedRealised ==
  ASSUME NEW G, NEW c, IsCtx(c), NEW i \in FileIdx, NEW M2,
         \A j \in FileIdx : G[c.scratch][FILE(j)] = M2[j],
         M2[i] = FreeFile, \A j \in FileIdx \ {i} : M2[j] = MovedUp(c, i, j)
  PROVE  Realises(<<Write(c.scratch, FILE(i), FreeFile)>> \o MoveUpMeta(c, i, 0, i - 1)
                    \o MoveUpMeta(c, i, i + 1, MaxFiles - 1),
                  Locs(c.scratch, "file", 0, MaxFiles - 1), G, {})
<1>1. i \in Nat /\ i <= MaxFiles - 1 /\ MaxFiles \in Nat /\ FileIdx = 0..(MaxFiles - 1)
  BY Constants DEF FileIdx
<1>2. \A j \in FileIdx : <<"file", j>> \in Pos
  BY Places DEF FILE
<1>3. c.scratch \in Block
  BY SpareBlocks
<1>4. Realises(<<Write(c.scratch, FILE(i), FreeFile)>>, Locs(c.scratch, "file", i, i), G, {})
  <2>1. FreeFile = G[c.scratch][<<"file", i>>] /\ i \in Int
    BY <1>1 DEF FILE
  <2>2. PICK v : v = FreeFile
    OBVIOUS
  <2> QED
    BY ONLY <1>2, <1>3, <2>1, <2>2, i \in FileIdx, RealisesOneAt DEF FILE
<1>5. ASSUME NEW a \in Nat, NEW e \in Int, a <= e + 1, \A k \in a..e : k \in FileIdx \ {i}
      PROVE  Realises(MoveUpMeta(c, i, a, e), Locs(c.scratch, "file", a, e), G, {})
  <2>1. PICK n : n = e - a + 1
    OBVIOUS
  <2>2. n \in Nat /\ a + n - 1 = e
    BY <1>5, <2>1
  <2>3. PICK v : v = [k \in 1..n |-> MovedUp(c, i, a + k - 1)]
    OBVIOUS
  <2>4. PICK s : s = MoveUpMeta(c, i, a, e)
    OBVIOUS
  <2>5. s = [k \in 1..n |-> Write(c.scratch, <<"file", a + k - 1>>, v[k])]
    BY <2>1, <2>3, <2>4 DEF MoveUpMeta, FILE
  <2>6. ASSUME NEW k \in 1..n PROVE G[c.scratch][<<"file", a + k - 1>>] = v[k]
    <3>1. a + k - 1 \in a..e
      BY ONLY <2>2, a \in Nat, e \in Int, k \in 1..n
    <3>2. PICK m : m = a + k - 1
      OBVIOUS
    <3>3. m \in FileIdx \ {i}
      BY <1>5, <3>1, <3>2
    <3>4. G[c.scratch][<<"file", m>>] = MovedUp(c, i, m)
      BY <3>3 DEF FILE
    <3>5. v[k] = MovedUp(c, i, m)
      BY <2>3, <3>2
    <3> QED
      BY <3>2, <3>4, <3>5
  <2>7. \A k \in a..(a + n - 1) : <<"file", k>> \in Pos
    BY <1>2, <1>5, <2>2
  <2>8. Realises(s, Locs(c.scratch, "file", a, a + n - 1), G, {})
    BY ONLY <1>3, <2>2, <2>5, <2>6, <2>7, a \in Nat, RealisesItems
  <2> QED
    BY ONLY <2>2, <2>4, <2>8
<1>6. Realises(MoveUpMeta(c, i, 0, i - 1), Locs(c.scratch, "file", 0, i - 1), G, {})
  <2>1. \A k \in 0..(i - 1) : k \in FileIdx \ {i}
    BY <1>1
  <2>2. 0 \in Nat /\ i - 1 \in Int /\ 0 <= (i - 1) + 1
    BY <1>1
  <2> QED
    BY ONLY <1>5, <2>1, <2>2
<1>7. Realises(MoveUpMeta(c, i, i + 1, MaxFiles - 1), Locs(c.scratch, "file", i + 1, MaxFiles - 1), G, {})
  <2>1. \A k \in (i + 1)..(MaxFiles - 1) : k \in FileIdx \ {i}
    BY <1>1
  <2>2. i + 1 \in Nat /\ MaxFiles - 1 \in Int /\ i + 1 <= (MaxFiles - 1) + 1
    BY <1>1
  <2> QED
    BY ONLY <1>5, <2>1, <2>2
<1> QED
  BY ONLY <1>4, <1>6, <1>7, i \in FileIdx, RealisesFiles

\* its_flash_fs_file_delete() removes the file and closes the gap it leaves.
LEMMA DeleteStarts ==
  ASSUME NEW c, NEW F, F = flash, IsFlash(F), Current(F, c), \A x \in Spare(c) : F[x] = Blank,
         NEW f \in Fid, IdxOf(c, f) # {}, NULL \notin AssetType,
         NEW P, P = its_flash_fs_file_delete(c, f)
  PROVE  \E d, G, D :
           /\ Writing(P, F, c, d, G, D)
           /\ AssetsOf(G, d) = [AssetsOf(F, c) EXCEPT ![f] = NULL]
<1>1. PICK B, M : B = BlocksOf(F, c) /\ M = FilesOf(F, c)
  OBVIOUS
<1>2. IsCtx(c) /\ Tables(B, M) /\ Placed(c, B, M) /\ Packed(B, M)
  BY <1>1 DEF Current, Sound, Layout
<1>3. /\ \A m \in LBlock : BlockMeta(c, m) = B[m]
      /\ \A k \in FileIdx : FileMeta(c, k) = M[k]
      /\ \A g : IdxOf(c, g) = {k \in FileIdx : M[k].id = g}
  BY <1>1, MetaOf
<1>4. PICK i : i = its_flash_fs_mblock_get_file_idx(c, f)
  OBVIOUS
<1>5. i \in FileIdx /\ M[i].id = f /\ i \in Used(M)
  <2>1. PICK S : S = {k \in FileIdx : M[k].id = f}
    OBVIOUS
  <2>2. S = IdxOf(c, f) /\ S # {}
    BY <1>3, <2>1
  <2>3. Min(S) \in FileIdx /\ M[Min(S)].id = f /\ Min(S) \in Used(M)
    BY ONLY <1>1, <2>1, <2>2, Current(F, c), f \in Fid, NULL \notin AssetType, FileOf
  <2> QED
    BY <1>4, <2>2, <2>3 DEF its_flash_fs_mblock_get_file_idx
<1>6. PICK l : l = M[i].lblock
  OBVIOUS
<1>7. PICK di : di = M[i].data_idx
  OBVIOUS
<1>8. PICK sz : sz = M[i].max_size
  OBVIOUS
<1>9. PICK bm : bm = B[l]
  OBVIOUS
<1>10. PICK ds : ds = bm.data_start
  OBVIOUS
<1>11. PICK H : H = BehindOf(M, i)
  OBVIOUS
<1>12. PICK size : size = Taken(M, H)
  OBVIOUS
<1>13. /\ size \in Nat /\ di + sz + size + bm.free_size = BlockSize
       /\ \A j \in H : j \in Used(M) /\ M[j].lblock = l /\ j # i /\ di + sz <= M[j].data_idx
       /\ H = {} => size = 0
       /\ H # {} => \E j \in H : M[j].data_idx = di + sz
  BY ONLY <1>2, <1>5, <1>6, <1>7, <1>8, <1>9, <1>11, <1>12, BehindIs
<1>14. /\ M[i] \in FileMetas /\ l \in LBlock /\ bm \in BlockMetas /\ di \in Nat /\ sz \in Nat
       /\ bm.free_size \in Nat /\ ds \in Nat /\ ds <= di /\ ds = DataFrom(l) /\ BlockSize \in Nat
  <2>1. /\ M[i] \in FileMetas /\ M[i].lblock \in LBlock /\ B[M[i].lblock] \in BlockMetas
        /\ DataFrom(M[i].lblock) \in Nat /\ DataFrom(M[i].lblock) <= M[i].data_idx
    BY ONLY <1>2, <1>5, Extent
  <2>2. di \in Nat /\ sz \in Nat /\ bm.free_size \in Nat
    BY ONLY <1>6, <1>7, <1>8, <1>9, <2>1 DEF FileMetas, BlockMetas
  <2>3. ds = DataFrom(l)
    BY <1>2, <1>6, <1>9, <1>10, <2>1 DEF Placed
  <2> QED
    BY <1>6, <1>7, <1>9, <2>1, <2>2, <2>3, Constants
<1>15. PICK fr : fr = bm.free_size + sz
  OBVIOUS
<1>16. fr \in Nat /\ di + size + fr = BlockSize /\ di + size <= BlockSize
  BY ONLY <1>13, <1>14, <1>15
<1>17. Behind(c, i) = H
  BY <1>3, <1>5, <1>11 DEF Behind, BehindOf
<1>18. PICK src : src = Min({BlockSize} \cup {FileMeta(c, j).data_idx : j \in Behind(c, i)})
  OBVIOUS
<1>19. H # {} => src = di + sz
  <2>1. PICK S : S = {BlockSize} \cup {M[j].data_idx : j \in H}
    OBVIOUS
  <2>2. {FileMeta(c, j).data_idx : j \in Behind(c, i)} = {M[j].data_idx : j \in H}
    <3>1. \A j \in H : FileMeta(c, j) = M[j]
      BY <1>3, <1>13 DEF Used
    <3> QED
      BY <1>17, <3>1
  <2>3. src = Min(S)
    BY <1>18, <2>1, <2>2
  <2>4. \A x \in S : di + sz <= x
    BY <1>13, <1>14, <2>1
  <2>5. S \in SUBSET Nat
    BY <1>2, <1>13, <1>14, <2>1 DEF Tables, Used, FileMetas
  <2>6. H # {} => di + sz \in S
    BY <1>13, <2>1
  <2>7. S # {}
    BY <2>1
  <2>8. src \in S /\ \A x \in S : src <= x
    BY <2>3, <2>5, <2>7, MinOf
  <2>9. di + sz \in Nat /\ src \in Nat
    BY <1>14, <2>5, <2>8
  <2> QED
    BY <2>4, <2>6, <2>8, <2>9
<1>20. PICK M2 : M2 = [j \in FileIdx |-> IF j = i THEN FreeFile ELSE MovedUp(c, i, j)]
  OBVIOUS
<1>21. ASSUME NEW j \in FileIdx \ {i}
       PROVE  /\ M2[j] \in FileMetas /\ M2[j] = MovedUp(c, i, j)
              /\ M2[j].id = M[j].id /\ M2[j].lblock = M[j].lblock
              /\ M2[j].max_size = M[j].max_size /\ M2[j].cur_size = M[j].cur_size
              /\ M2[j].once = M[j].once
              /\ M2[j].data_idx = IF j \in H THEN M[j].data_idx - sz ELSE M[j].data_idx
  <2>1. M[j] \in FileMetas /\ FileMeta(c, j) = M[j] /\ FileMeta(c, i) = M[i]
    BY <1>2, <1>3, <1>5 DEF Tables
  <2>2. M2[j] = MovedUp(c, i, j)
    BY <1>20
  <2>3. CASE j \in H
    <3>1. PICK x : x = M[j].data_idx - sz
      OBVIOUS
    <3>2. M2[j] = [M[j] EXCEPT !.data_idx = x]
      BY <1>8, <1>17, <2>1, <2>2, <2>3, <3>1 DEF MovedUp
    <3>3. x \in Nat
      <4>1. M[j].data_idx \in Nat /\ di + sz <= M[j].data_idx
        BY <1>13, <2>1, <2>3 DEF FileMetas
      <4> QED
        BY ONLY <1>14, <3>1, <4>1
    <3>4. M2[j] \in FileMetas /\ M2[j].data_idx = x
          /\ M2[j].id = M[j].id /\ M2[j].lblock = M[j].lblock
          /\ M2[j].max_size = M[j].max_size /\ M2[j].cur_size = M[j].cur_size
          /\ M2[j].once = M[j].once
      BY ONLY <2>1, <3>2, <3>3 DEF FileMetas
    <3> QED
      BY <2>2, <2>3, <3>1, <3>4
  <2>4. CASE j \notin H
    BY <1>17, <2>1, <2>2, <2>4 DEF MovedUp
  <2> QED
    BY <2>3, <2>4
<1>22. M2[i] = FreeFile /\ M2[i] \in FileMetas /\ M2[i].id = NULL
  <2>1. 0 \in LBlock
    BY Blocks
  <2> QED
    BY <1>5, <1>20, <2>1 DEF FreeFile, FileMetas
<1>23. M2 \in [FileIdx -> FileMetas]
  <2>1. \A j \in FileIdx : M2[j] \in FileMetas
    BY <1>21, <1>22
  <2> QED
    BY <1>20, <2>1
<1>24. PICK B2 : B2 = NewBlocks(c, B, l, fr)
  OBVIOUS
<1>25. PICK d : d = NewCtx(c, B, l)
  OBVIOUS
<1>26. Packed(B2, M2)
  <2>1. /\ Tables(B2, M2)
        /\ \A m \in LBlock : B2[m].free_size = IF m = l THEN fr ELSE B[m].free_size
    BY ONLY <1>2, <1>14, <1>16, <1>23, <1>24, <1>25, NewBlocksIs
  <2>2. \A m \in LBlock : B2[m].free_size = IF m = M[i].lblock THEN B[m].free_size + M[i].max_size
                                            ELSE B[m].free_size
    BY <1>6, <1>8, <1>9, <1>15, <2>1
  <2>3. \A j \in FileIdx \ {i} :
           /\ M2[j].id = M[j].id /\ M2[j].lblock = M[j].lblock
           /\ M2[j].max_size = M[j].max_size /\ M2[j].cur_size = M[j].cur_size
           /\ M2[j].data_idx = IF j \in BehindOf(M, i) THEN M[j].data_idx - M[i].max_size
                               ELSE M[j].data_idx
    BY <1>8, <1>11, <1>21
  <2> QED
    BY ONLY <1>2, <1>5, <1>22, <2>1, <2>2, <2>3, PackedDelete
<1>27. PICK cell : cell = [k \in 0..(BlockSize - 1) |->
         IF k \in ds..(di - 1) THEN F[bm.phy_id][CELL(k)]
         ELSE IF k \in di..(di + size - 1) THEN F[bm.phy_id][CELL(k + sz)]
         ELSE ERASED]
  OBVIOUS
<1>28. PICK G : G = NewFlash(F, c, B, l, d, B2, M2, cell)
  OBVIOUS
<1>29. ASSUME NEW k \in ds..(di - 1)
       PROVE  cell[k] = F[bm.phy_id][CELL(k)] /\ k \in 0..(BlockSize - 1)
  <2>1. k \in 0..(BlockSize - 1)
    BY ONLY <1>13, <1>14, <1>16, k \in ds..(di - 1)
  <2> QED
    BY <1>27, <2>1
<1>30. ASSUME NEW k \in di..(di + size - 1)
       PROVE  cell[k] = F[bm.phy_id][CELL(k + sz)] /\ k \in 0..(BlockSize - 1)
  <2>1. k \in 0..(BlockSize - 1) /\ k \notin ds..(di - 1)
    BY ONLY <1>13, <1>14, <1>16, k \in di..(di + size - 1)
  <2> QED
    BY <1>27, <2>1
<1>31. ASSUME NEW j \in Used(M) \ {i} PROVE Keeps(F, B, M, M2, l, cell, j)
  <2>1. j \in FileIdx \ {i} /\ j \in Used(M)
    BY DEF Used
  <2>2. /\ M2[j].id = M[j].id /\ M2[j].lblock = M[j].lblock /\ M2[j].cur_size = M[j].cur_size
        /\ M2[j].max_size = M[j].max_size /\ M2[j].once = M[j].once
        /\ M2[j].data_idx = IF j \in H THEN M[j].data_idx - sz ELSE M[j].data_idx
    BY <1>21, <2>1
  <2>3. CASE M[j].lblock # l
    <3>1. j \notin H
      BY <1>13, <2>3
    <3> QED
      BY <2>2, <2>3, <3>1 DEF Keeps
  <2>4. CASE M[j].lblock = l
    <3>1. PICK x, y, z : x = M[j].data_idx /\ y = M[j].max_size /\ z = M[j].cur_size
      OBVIOUS
    <3>2. /\ x \in Nat /\ y \in Nat /\ z \in Nat /\ ds <= x /\ z <= y
          /\ x + y + bm.free_size <= BlockSize
      <4>1. /\ M[j] \in FileMetas /\ DataFrom(M[j].lblock) <= M[j].data_idx
            /\ M[j].data_idx + M[j].max_size + B[M[j].lblock].free_size <= BlockSize
            /\ M[j].cur_size <= M[j].max_size
        BY ONLY <1>2, <2>1, Extent
      <4>2. x \in Nat /\ y \in Nat /\ z \in Nat
        BY ONLY <3>1, <4>1 DEF FileMetas
      <4> QED
        BY <1>9, <1>14, <2>4, <3>1, <4>1, <4>2
    <3>3. CASE j \in H
      <4>1. di + sz <= x
        BY <1>13, <3>1, <3>3
      <4>2. ASSUME NEW k \in 1..z PROVE cell[x - sz + k - 1] = F[bm.phy_id][CELL(x + k - 1)]
        <5>1. PICK m : m = x - sz + k - 1
          OBVIOUS
        <5>2. m \in di..(di + size - 1) /\ m + sz = x + k - 1
          BY ONLY <1>13, <1>14, <3>2, <4>1, <5>1, k \in 1..z
        <5>3. cell[m] = F[bm.phy_id][CELL(m + sz)]
          BY ONLY <1>30, <5>2
        <5> QED
          BY ONLY <5>1, <5>2, <5>3, Zenon
      <4> QED
        BY <1>9, <2>2, <2>4, <3>1, <3>3, <4>2 DEF Keeps
    <3>4. CASE j \notin H
      <4>1. x + y <= di
        <5>1. ~(x > di)
          <6>1. M[j].id # NULL
            BY <2>1 DEF Used
          <6> QED
            BY <1>6, <1>7, <1>11, <2>1, <2>4, <3>1, <3>4, <6>1 DEF BehindOf
        <5>2. M[j].data_idx # M[i].data_idx
          BY <1>2, <1>5, <1>6, <2>1, <2>4 DEF Packed
        <5>3. x < di
          <6>1. x # di
            BY ONLY <1>7, <3>1, <5>2, Zenon
          <6> QED
            BY ONLY <1>14, <3>2, <5>1, <6>1
        <5>4. M[j].lblock = M[i].lblock /\ M[j].data_idx < M[i].data_idx
          BY <1>6, <1>7, <2>4, <3>1, <5>3
        <5>5. M[j].data_idx + M[j].max_size <= M[i].data_idx
          BY ONLY <1>2, <1>5, <2>1, <5>4, Apart
        <5> QED
          BY ONLY <1>7, <3>1, <5>5
      <4>2. ASSUME NEW k \in 1..z PROVE cell[x + k - 1] = F[bm.phy_id][CELL(x + k - 1)]
        <5>1. x + k - 1 \in ds..(di - 1)
          BY ONLY <1>14, <3>2, <4>1, k \in 1..z
        <5> QED
          BY ONLY <1>29, <5>1
      <4> QED
        BY <1>9, <2>2, <2>4, <3>1, <3>4, <4>2 DEF Keeps
    <3> QED
      BY <3>3, <3>4
  <2> QED
    BY <2>3, <2>4
<1>32. Current(G, d) /\ AssetsOf(G, d) = [AssetsOf(F, c) EXCEPT ![f] = NULL]
  <2>1. PICK X : X = IF M2[i].id = NULL THEN NULL ELSE AssetAt(G, B2, M2, i)
    OBVIOUS
  <2>2. X = NULL /\ M2[i].id \in {f, NULL} /\ (M2[i].id # NULL => AssetAt(G, B2, M2, i) \in AssetType)
    BY <1>22, <2>1
  <2>3. \A j \in FileIdx \ {i} : M2[j].id = M[j].id
    BY <1>21
  <2>4. \A j \in Used(M) \ {i} : Keeps(F, B, M, M2, l, cell, j)
    BY <1>31
  <2>5. M[i].id = f \/ (M[i].id = NULL /\ \A j \in FileIdx : M[j].id # f)
    BY <1>5
  <2>6. Current(G, d) /\ AssetsOf(G, d) = [AssetsOf(F, c) EXCEPT ![f] = X]
    BY ONLY Current(F, c), <1>1, <1>5, <1>14, <1>16, <1>23, <1>24, <1>25, <1>26, <1>28, f \in Fid,
       <2>1, <2>2, <2>3, <2>4, <2>5, NewStored
  <2> QED
    BY ONLY <2>2, <2>6
<1>33. PICK sb : sb = DataBlock(c, l)
  OBVIOUS
<1>34. /\ \A m \in LBlock : G[c.scratch][BLOCK(m)] = B2[m]
       /\ \A k \in FileIdx : G[c.scratch][FILE(k)] = M2[k]
       /\ \A k \in 0..(BlockSize - 1) :
              /\ G[sb][CELL(k)] = cell[k]
              /\ l # 0 => G[c.scratch][CELL(k)]
                            = IF k \in DataStart..(BlockSize - B[0].free_size - 1)
                                THEN F[c.active][CELL(k)] ELSE ERASED
  BY ONLY <1>2, <1>14, <1>28, <1>33, NewFlashIs DEF DataBlock
<1>35. sb \in Block /\ sb = its_flash_fs_mblock_cur_data_scratch_id(c, l) /\ (l # 0 => sb = c.dblock)
  BY <1>2, <1>14, <1>33, SpareBlocks, Blocks DEF DataBlock, its_flash_fs_mblock_cur_data_scratch_id
<1>36. PICK s1 : s1 = its_flash_block_to_block_move(sb, di, bm.phy_id, src, size)
  OBVIOUS
<1>37. PICK s2 : s2 = its_flash_block_to_block_move(sb, ds, bm.phy_id, ds, di - ds)
  OBVIOUS
<1>38. PICK CS : CS = (di..(di + size - 1)) \cup (ds..(di - 1))
  OBVIOUS
<1>39. Realises(s1 \o s2, CellLocs(sb, CS), G, {})
  <2>1. Realises(s1, Locs(sb, "cell", di, di + size - 1), G, {})
    <3>1. ASSUME NEW k \in 1..size
          PROVE  G[sb][CELL(di + k - 1)] = flash[bm.phy_id][CELL(src + k - 1)]
      <4>1. PICK m : m = di + k - 1
        OBVIOUS
      <4>2. m \in di..(di + size - 1) /\ size # 0
        BY ONLY <1>13, <1>14, <4>1, k \in 1..size
      <4>3. src = di + sz
        BY <1>13, <1>19, <4>2
      <4>4. m + sz = src + k - 1
        BY ONLY <1>14, <1>13, <4>1, <4>3, k \in 1..size
      <4>5. cell[m] = F[bm.phy_id][CELL(m + sz)] /\ m \in 0..(BlockSize - 1)
        BY ONLY <1>30, <4>2
      <4>6. G[sb][CELL(m)] = cell[m]
        BY ONLY <1>34, <4>5
      <4> QED
        BY ONLY F = flash, <4>1, <4>4, <4>5, <4>6, Zenon
    <3>2. Realises(its_flash_block_to_block_move(sb, di, bm.phy_id, src, size),
                   Locs(sb, "cell", di, di + size - 1), G, {})
      BY ONLY <1>13, <1>14, <1>16, <1>35, <3>1, RealisesMove
    <3> QED
      BY ONLY <1>36, <3>2, Zenon
  <2>2. Realises(s2, Locs(sb, "cell", ds, di - 1), G, {})
    <3>1. PICK n : n = di - ds
      OBVIOUS
    <3>2. n \in Nat /\ ds + n <= BlockSize /\ ds + n - 1 = di - 1
      BY ONLY <1>13, <1>14, <1>16, <3>1
    <3>3. ASSUME NEW k \in 1..n
          PROVE  G[sb][CELL(ds + k - 1)] = flash[bm.phy_id][CELL(ds + k - 1)]
      <4>1. ds + k - 1 \in ds..(di - 1)
        BY ONLY <1>14, <3>1, <3>2, k \in 1..n
      <4>2. cell[ds + k - 1] = F[bm.phy_id][CELL(ds + k - 1)] /\ ds + k - 1 \in 0..(BlockSize - 1)
        BY ONLY <1>29, <4>1
      <4>3. G[sb][CELL(ds + k - 1)] = cell[ds + k - 1]
        BY ONLY <1>34, <4>2
      <4> QED
        BY ONLY F = flash, <4>2, <4>3, Zenon
    <3>4. Realises(its_flash_block_to_block_move(sb, ds, bm.phy_id, ds, n),
                   Locs(sb, "cell", ds, ds + n - 1), G, {})
      BY ONLY <1>14, <1>35, <3>2, <3>3, RealisesMove
    <3> QED
      BY ONLY <1>37, <3>1, <3>2, <3>4
  <2>3. Realises(s1 \o s2, Locs(sb, "cell", di, di + size - 1) \cup Locs(sb, "cell", ds, di - 1), G, {})
    <3>1. PICK e1, e2 : e1 = di + size - 1 /\ e2 = di - 1
      OBVIOUS
    <3>2. e1 \in Int /\ e2 \in Int /\ ds \in Int /\ di \in Int /\ e2 < di
      BY ONLY <1>13, <1>14, <3>1
    <3>3. Realises(s1, Locs(sb, "cell", di, e1), G, {}) /\ Realises(s2, Locs(sb, "cell", ds, e2), G, {})
      BY ONLY <2>1, <2>2, <3>1
    <3>4. Realises(s1 \o s2, Locs(sb, "cell", di, e1) \cup Locs(sb, "cell", ds, e2), G, {})
      BY ONLY <3>2, <3>3, RealisesTwo
    <3> QED
      BY ONLY <3>1, <3>4, Zenon
  <2>4. /\ Locs(sb, "cell", di, di + size - 1) = CellLocs(sb, di..(di + size - 1))
        /\ Locs(sb, "cell", ds, di - 1) = CellLocs(sb, ds..(di - 1))
    BY ONLY CellLocsAre
  <2>5. CellLocs(sb, di..(di + size - 1)) \cup CellLocs(sb, ds..(di - 1)) = CellLocs(sb, CS)
    <3>1. \A S, T : CellLocs(sb, S) \cup CellLocs(sb, T) = CellLocs(sb, S \cup T)
      BY ONLY CellLocsJoin
    <3> QED
      BY ONLY <1>38, <3>1, Zenon
  <2> QED
    BY ONLY <2>3, <2>4, <2>5, Zenon
<1>40. PICK nm : nm = [bm EXCEPT !.free_size = bm.free_size + sz, !.phy_id = sb]
  OBVIOUS
<1>41. PICK t : t = its_flash_fs_mblock_update_scratch_block_meta(c, l, nm)
  OBVIOUS
<1>42. Realises(t, Locs(c.scratch, "block", 0, its_num_active_dblocks - 1), G, {})
  <2>1. nm \in BlockMetas /\ nm.data_start = B[l].data_start /\ nm.free_size = fr
        /\ (l # 0 => nm.phy_id = c.dblock)
    <3>1. nm = [[bm EXCEPT !.free_size = fr] EXCEPT !.phy_id = sb]
      BY ONLY <1>15, <1>40
    <3> QED
      BY ONLY <1>9, <1>14, <1>16, <1>35, <3>1 DEF BlockMetas
  <2>2. B = BlocksOf(flash, c)
    BY <1>1
  <2>3. \A m \in LBlock : G[c.scratch][BLOCK(m)] = B2[m]
    BY <1>34
  <2>4. Realises(its_flash_fs_mblock_update_scratch_block_meta(c, l, nm),
                 Locs(c.scratch, "block", 0, its_num_active_dblocks - 1), G, {})
    BY ONLY <1>2, <1>14, <1>16, <1>24, <2>1, <2>2, <2>3, BlocksRealised
  <2> QED
    BY ONLY <1>41, <2>4, Zenon
<1>43. PICK u : u = <<Write(c.scratch, FILE(i), FreeFile)>> \o MoveUpMeta(c, i, 0, i - 1)
                      \o MoveUpMeta(c, i, i + 1, MaxFiles - 1)
  OBVIOUS
<1>44. Realises(u, Locs(c.scratch, "file", 0, MaxFiles - 1), G, {})
  <2>1. /\ \A j \in FileIdx : G[c.scratch][FILE(j)] = M2[j]
        /\ \A j \in FileIdx \ {i} : M2[j] = MovedUp(c, i, j)
    BY <1>21, <1>34
  <2> QED
    BY ONLY <1>2, <1>5, <1>22, <1>43, <2>1, MovedRealised, Zenon
<1>45. PICK v : v = IF l # 0 THEN its_flash_fs_mblock_migrate_lb0_data_to_scratch(c) ELSE <<>>
  OBVIOUS
<1>46. Realises(v, IF l = 0 THEN {}
                   ELSE Locs(c.scratch, "cell", DataStart, BlockSize - B[0].free_size - 1), G, {})
  <2>1. CASE l = 0
    BY <1>45, <2>1, RealisesNone
  <2>2. CASE l # 0
    BY <1>1, <1>2, <1>34, <1>45, <2>2, MigrateRealised
  <2> QED
    BY <2>1, <2>2
<1>47. PICK s : s = s1 \o s2
  OBVIOUS
<1>48. Realises((u \o (s \o t)) \o v, AllLocs(c, B, l, CS), G, {})
  <2>1. Realises(s, CellLocs(DataBlock(c, l), CS), G, {})
    BY <1>33, <1>39, <1>47
  <2> QED
    BY ONLY <1>2, <1>14, <1>42, <1>44, <1>46, <2>1, AllRealised
<1>49. PICK b : b = its_flash_fs_mblock_set_data_scratch(c, bm.phy_id, l)
  OBVIOUS
<1>50. P = ((u \o (s \o t)) \o v) \o its_flash_fs_mblock_meta_update_finalize(b)
  <2>1. /\ FileMeta(c, i) = M[i] /\ BlockMeta(c, l) = bm
    BY <1>3, <1>5, <1>9, <1>14
  <2>2. PICK z : z = its_flash_fs_dblock_compact_block(c, l, sz, src, di, size)
    OBVIOUS
  <2>3. z = s \o t
    BY ONLY <1>10, <1>35, <1>36, <1>37, <1>40, <1>41, <1>47, <2>1, <2>2, Zenon
       DEF its_flash_fs_dblock_compact_block
  <2>4. Room(c, Behind(c, i)) = size
    <3>1. [j \in FileIdx |-> FileMeta(c, j).max_size] = [j \in FileIdx |-> M[j].max_size]
      BY <1>3
    <3> QED
      BY <1>12, <1>17, <3>1 DEF Room, Taken
  <2>5. P = its_flash_fs_file_delete(c, f)
    OBVIOUS
  <2>6. P = ((u \o z) \o v) \o its_flash_fs_mblock_meta_update_finalize(b)
    BY ONLY <1>4, <1>6, <1>7, <1>8, <1>18, <1>43, <1>45, <1>49, <2>1, <2>2, <2>4, <2>5, Zenon
       DEF its_flash_fs_file_delete
  <2> QED
    BY ONLY <2>3, <2>6, Zenon
<1>51. \E D : Writing(P, F, c, d, G, D)
  <2>1. CS \in SUBSET (0..(BlockSize - 1))
    BY ONLY <1>13, <1>14, <1>16, <1>38
  <2>2. \A k \in 0..(BlockSize - 1) : k \notin CS => cell[k] = ERASED
    BY ONLY <1>27, <1>38
  <2>3. PICK Q : Q = (u \o (s \o t)) \o v
    OBVIOUS
  <2>4. b = its_flash_fs_mblock_set_data_scratch(c, B[l].phy_id, l)
    BY <1>9, <1>49
  <2>5. \E D : Writing(Q \o its_flash_fs_mblock_meta_update_finalize(b), F, c, d, G, D)
    BY ONLY F = flash, IsFlash(F), Current(F, c), \A x \in Spare(c) : F[x] = Blank,
       <1>1, <1>14, <1>25, <1>28, <1>32, <1>48, <2>1, <2>2, <2>3, <2>4, OperationStarts
  <2> QED
    BY ONLY <1>50, <2>3, <2>5, Zenon
<1> QED
  BY <1>32, <1>51
-----------------------------------------------------------------------------
(* The wipe of the flash, when no metadata block is valid *)

\* What its_flash_fs_wipe_all() leaves in the metadata blocks, and the blocks of
\* which it says nothing.
FreshBlock(l) == [phy_id |-> IF l = 0 THEN 0 ELSE l - 1 + its_init_dblock_start,
                  data_start |-> IF l = 0 THEN DataStart ELSE 0,
                  free_size |-> IF l = 0 THEN BlockSize - DataStart ELSE BlockSize]
FreshCtx == [active |-> 1, scratch |-> 0, dblock |-> its_init_scratch_dblock, count |-> NextCount(0)]
FreshItem(p) ==
  CASE p[1] = "header" -> its_init_scratch_dblock
    [] p[1] = "count" -> NextCount(0)
    [] p[1] = "block" -> FreshBlock(p[2])
    [] p[1] = "file" -> FreeFile
    [] OTHER -> ERASED
FreshFlash == [b \in Block |-> [p \in Pos |-> IF b = 1 THEN FreshItem(p) ELSE ERASED]]
OtherBlocks == 2..(NumBlocks - 1)

\* The items of a fresh flash.
LEMMA FreshFlashIs ==
  /\ \A p \in Pos : FreshFlash[0][p] = ERASED /\ FreshFlash[1][p] = FreshItem(p)
  /\ FreshFlash[1][HEADER] = its_init_scratch_dblock /\ FreshFlash[1][COUNT] = NextCount(0)
  /\ \A l \in LBlock : FreshFlash[1][BLOCK(l)] = FreshBlock(l)
  /\ \A i \in FileIdx : FreshFlash[1][FILE(i)] = FreeFile
  /\ \A k \in 0..(BlockSize - 1) : FreshFlash[1][CELL(k)] = ERASED
  /\ NextCount(0) = 1 /\ Block \ OtherBlocks = {0, 1} /\ OtherBlocks \subseteq Block
<1>1. \A p \in Pos : FreshFlash[0][p] = ERASED /\ FreshFlash[1][p] = FreshItem(p)
  BY Blocks DEF FreshFlash
<1>2. NextCount(0) = 1
  BY Constants DEF NextCount
<1>3. Block \ OtherBlocks = {0, 1} /\ OtherBlocks \subseteq Block
  BY Constants DEF Block, OtherBlocks
<1>4. FreshItem(HEADER) = its_init_scratch_dblock /\ FreshItem(COUNT) = NextCount(0)
  BY DEF FreshItem, HEADER, COUNT
<1>5. ASSUME NEW l PROVE FreshItem(BLOCK(l)) = FreshBlock(l)
  <2>1. BLOCK(l)[1] = "block" /\ BLOCK(l)[2] = l
    BY DEF BLOCK
  <2> QED
    BY <2>1 DEF FreshItem
<1>6. \A i : FreshItem(FILE(i)) = FreeFile
  BY DEF FreshItem, FILE
<1>7. \A k : FreshItem(CELL(k)) = ERASED
  BY DEF FreshItem, CELL
<1> QED
  BY <1>1, <1>2, <1>3, <1>4, <1>5, <1>6, <1>7, Places

\* With the metadata blocks of a fresh flash the fresh context is current, and
\* there are no assets.
LEMMA FreshCurrent ==
  ASSUME NEW F, \A b \in {0, 1}, p \in Pos : F[b][p] = FreshFlash[b][p]
  PROVE  Current(F, FreshCtx) /\ AssetsOf(F, FreshCtx) = [f \in Fid |-> NULL]
<1>1. PICK c : c = FreshCtx
  OBVIOUS
<1>2. /\ c.active = 1 /\ c.scratch = 0 /\ c.dblock = its_init_scratch_dblock /\ c.count = 1
      /\ c = [active |-> 1, scratch |-> 0, dblock |-> its_init_scratch_dblock, count |-> 1]
  BY <1>1, FreshFlashIs DEF FreshCtx
<1>3. its_init_scratch_dblock \in Nat /\ (NumBlocks > 2 => its_init_scratch_dblock = 2)
  BY Constants DEF its_init_scratch_dblock
<1>4. IsCtx(c)
  BY <1>2, <1>3, Constants DEF IsCtx, MetaBlock
<1>5. PICK B, M : B = BlocksOf(F, c) /\ M = FilesOf(F, c)
  OBVIOUS
<1>6. B = [l \in LBlock |-> FreshBlock(l)]
  BY <1>2, <1>5, FreshFlashIs, Places DEF BlocksOf
<1>7. M = [i \in FileIdx |-> FreeFile]
  BY <1>2, <1>5, FreshFlashIs, Places DEF FilesOf
<1>8. FreeFile \in FileMetas /\ FreeFile.id = NULL
  BY Blocks DEF FreeFile, FileMetas
<1>9. Used(M) = {} /\ \A l : In(M, l) = {}
  BY <1>7, <1>8 DEF Used, In
<1>10. ASSUME NEW l \in LBlock
       PROVE  /\ B[l] \in BlockMetas /\ B[l].data_start = DataFrom(l)
              /\ DataFrom(l) \in Nat /\ B[l].free_size \in Nat
              /\ DataFrom(l) + B[l].free_size = BlockSize
              /\ l # 0 => B[l].phy_id = l + 2 /\ l + 2 \in 3..(NumBlocks - 1)
  <2>1. B[l] = FreshBlock(l)
    BY <1>6
  <2>2. CASE l = 0
    <3>1. B[l] = [phy_id |-> 0, data_start |-> DataStart, free_size |-> BlockSize - DataStart]
      BY <2>1, <2>2 DEF FreshBlock
    <3>2. BlockSize - DataStart \in Nat /\ DataStart \in Nat /\ 0 \in Block /\ BlockSize \in Nat
      BY Constants, Blocks
    <3>3. DataFrom(l) = DataStart
      BY <2>2 DEF DataFrom
    <3> QED
      BY ONLY <2>2, <3>1, <3>2, <3>3 DEF BlockMetas
  <2>3. CASE l # 0
    <3>1. NumBlocks > 2 /\ LBlock = 0..(NumBlocks - 3) /\ l \in Nat /\ NumBlocks \in Nat
      BY <2>3, Blocks, Constants
    <3>2. its_init_dblock_start = 3
      BY <3>1 DEF its_init_dblock_start
    <3>3. l - 1 + 3 = l + 2 /\ l + 2 \in 3..(NumBlocks - 1) /\ l + 2 \in Block
      BY <2>3, <3>1 DEF Block
    <3>4. B[l] = [phy_id |-> l + 2, data_start |-> 0, free_size |-> BlockSize]
      BY <2>1, <2>3, <3>2, <3>3 DEF FreshBlock
    <3>5. DataFrom(l) = 0 /\ BlockSize \in Nat
      BY <2>3, Constants DEF DataFrom
    <3> QED
      BY ONLY <2>3, <3>3, <3>4, <3>5 DEF BlockMetas
  <2> QED
    BY <2>2, <2>3
<1>11. Tables(B, M)
  <2>1. B \in [LBlock -> BlockMetas]
    BY <1>6, <1>10
  <2>2. M \in [FileIdx -> FileMetas]
    BY <1>7, <1>8
  <2> QED
    BY <2>1, <2>2 DEF Tables
<1>12. Placed(c, B, M)
  <2>1. ASSUME NEW l \in LBlock \ {0}
        PROVE  /\ B[l].phy_id \in 2..(NumBlocks - 1) /\ B[l].phy_id # c.dblock
               /\ \A m \in LBlock \ {0, l} : B[m].phy_id # B[l].phy_id
    <3>1. B[l].phy_id = l + 2 /\ l + 2 \in 3..(NumBlocks - 1) /\ NumBlocks > 2 /\ NumBlocks \in Nat
          /\ l \in Nat
      BY <1>10, Blocks, Constants
    <3>2. \A m \in LBlock \ {0, l} : B[m].phy_id = m + 2 /\ m \in Nat
      BY <1>10, Blocks
    <3> QED
      BY <1>2, <1>3, <3>1, <3>2
  <2> QED
    BY <1>9, <1>10, <2>1 DEF Placed
<1>13. Packed(B, M)
  <2>1. Taken(M, {}) = 0
    BY <1>11, RoomNat
  <2>2. ASSUME NEW l \in LBlock PROVE DataFrom(l) + Taken(M, In(M, l)) + B[l].free_size = BlockSize
    BY <1>9, <1>10, <2>1
  <2> QED
    BY <1>9, <2>2 DEF Packed
<1>14. Typed(F, B, M)
  BY <1>9 DEF Typed
<1>15. Current(F, c)
  <2>1. F[c.active][HEADER] = c.dblock /\ F[c.active][COUNT] = c.count
    BY <1>2, FreshFlashIs, Places
  <2>2. F[c.scratch][COUNT] = ERASED
    BY <1>2, FreshFlashIs, Places
  <2> QED
    BY <1>4, <1>5, <1>11, <1>12, <1>13, <1>14, <2>1, <2>2 DEF Current, Sound, Older, Layout
<1>16. AssetsOf(F, c) = [f \in Fid |-> NULL]
  <2>1. \A f \in Fid, i \in FileIdx : M[i].id # f
    BY <1>7, <1>8, Constants
  <2>2. AssetsIn(F, B, M) = [f \in Fid |-> NULL]
    BY <2>1 DEF AssetsIn
  <2> QED
    BY <1>5, <2>2 DEF AssetsOf
<1> QED
  BY <1>1, <1>15, <1>16

\* The metadata blocks are being erased (e), then programmed (w); the swap count
\* comes last.
FreshPlaces(D) == \A p \in Pos : <<0, p>> \notin D /\ (<<1, p>> \in D \/ FreshFlash[1][p] = ERASED)
Wiping(P, F) ==
  \E e, w, D :
    /\ IsSeq(e) /\ IsSeq(w) /\ P = e \o (w \o <<SetCtx(FreshCtx)>>)
    /\ Realises(w, D, FreshFlash, OtherBlocks)
    /\ w # <<>> => Loc(w[Len(w)]) = <<1, COUNT>>
    /\ w = <<>> => D = {}
    /\ e = <<>> => Holds(F, D, FreshFlash, OtherBlocks)
    /\ e # <<>> => Erasing(e, F, {0, 1}) /\ ValidOf(F) = {} /\ w # <<>> /\ FreshPlaces(D)
-----------------------------------------------------------------------------
\* Nothing is stored while the flash is wiped.
LEMMA WipingStored ==
  ASSUME NEW P, NEW F, Wiping(P, F)
  PROVE  /\ ValidOf(F) = {} \/ Current(F, FreshCtx)
         /\ StoredOf(F) = [f \in Fid |-> NULL]
<1>1. PICK e, w, D :
    /\ IsSeq(e) /\ IsSeq(w) /\ P = e \o (w \o <<SetCtx(FreshCtx)>>)
    /\ Realises(w, D, FreshFlash, OtherBlocks)
    /\ w # <<>> => Loc(w[Len(w)]) = <<1, COUNT>>
    /\ w = <<>> => D = {}
    /\ e = <<>> => Holds(F, D, FreshFlash, OtherBlocks)
    /\ e # <<>> => Erasing(e, F, {0, 1}) /\ ValidOf(F) = {} /\ w # <<>> /\ FreshPlaces(D)
  BY DEF Wiping
<1>2. CASE e # <<>>
  BY <1>1, <1>2 DEF StoredOf
<1>3. CASE e = <<>> /\ w = <<>>
  <2>1. \A b \in {0, 1}, p \in Pos : F[b][p] = FreshFlash[b][p]
    BY <1>1, <1>3, FreshFlashIs DEF Holds
  <2>2. Current(F, FreshCtx) /\ AssetsOf(F, FreshCtx) = [f \in Fid |-> NULL]
    BY <2>1, FreshCurrent
  <2> QED
    BY <2>2, Recovers
<1>4. CASE e = <<>> /\ w # <<>>
  <2>1. Len(w) \in 1..Len(w) /\ Loc(w[Len(w)]) = <<1, COUNT>>
    BY <1>1, <1>4, EmptyIff
  <2>2. (w[Len(w)].op = "erase" /\ w[Len(w)].blk \in OtherBlocks)
          \/ Programs(w[Len(w)], D, FreshFlash)
    BY <1>1, <2>1 DEF Realises
  <2>3. <<1, COUNT>> \in D
    BY <2>1, <2>2, FreshFlashIs DEF Programs, Loc, OtherBlocks
  <2>4. F[1][COUNT] = ERASED
    BY <1>1, <1>4, <2>3, FreshFlashIs, Places DEF Holds
  <2>5. F[0][HEADER] = ERASED
    BY <1>1, <1>4, FreshFlashIs, Places DEF Holds
  <2>6. ValidOf(F) = {}
    BY <2>4, <2>5 DEF ValidOf, MetaBlock
  <2> QED
    BY <2>6 DEF StoredOf
<1> QED
  BY <1>2, <1>3, <1>4

\* A step of the wipe.
LEMMA WipingStep ==
  ASSUME NEW P, NEW F, Wiping(P, F), IsFlash(F), NEW H, H = Effect(F, P[1])
  PROVE  /\ IsSeq(P) /\ P # <<>> /\ IsFlash(H)
         /\ P[1].op = "write" => F[P[1].blk][P[1].pos] = ERASED
         /\ \/ P[1].op \in {"write", "erase"} /\ Wiping(Tail(P), H)
            \/ /\ P[1] = SetCtx(FreshCtx) /\ H = F /\ Tail(P) = <<>>
               /\ Current(F, FreshCtx) /\ StoredOf(F) = [f \in Fid |-> NULL]
<1>1. PICK e, w, D :
    /\ IsSeq(e) /\ IsSeq(w) /\ P = e \o (w \o <<SetCtx(FreshCtx)>>)
    /\ Realises(w, D, FreshFlash, OtherBlocks)
    /\ w # <<>> => Loc(w[Len(w)]) = <<1, COUNT>>
    /\ w = <<>> => D = {}
    /\ e = <<>> => Holds(F, D, FreshFlash, OtherBlocks)
    /\ e # <<>> => Erasing(e, F, {0, 1}) /\ ValidOf(F) = {} /\ w # <<>> /\ FreshPlaces(D)
  BY DEF Wiping
<1>2. PICK x : x = SetCtx(FreshCtx)
  OBVIOUS
<1>3. PICK y : y = <<x>>
  OBVIOUS
<1>4. IsSeq(y) /\ y # <<>> /\ y[1] = x /\ Tail(y) = <<>>
  <2>1. Tail(<<x>>) = <<>>
    OBVIOUS
  <2> QED
    BY <1>3, <2>1, OneSeqIs, EmptyIff
<1>5. PICK r : r = w \o y
  OBVIOUS
<1>6. IsSeq(r) /\ P = e \o r /\ r # <<>>
  <2>1. IsSeq(r) /\ Len(r) = Len(w) + Len(y) /\ Len(w) \in Nat /\ Len(y) \in Nat
    BY <1>1, <1>4, <1>5, Cat
  <2>2. Len(y) = 1
    BY <1>3, OneSeqIs
  <2>3. r # <<>>
    BY <2>1, <2>2, EmptyIff
  <2>4. P = e \o r
    BY ONLY <1>1, <1>2, <1>3, <1>5, Zenon
  <2> QED
    BY <2>1, <2>3, <2>4
<1>7. CASE e # <<>>
  <2>1. IsSeq(P) /\ P # <<>> /\ Head(P) = e[1] /\ Tail(P) = Tail(e) \o r /\ IsSeq(Tail(e))
    <3>1. IsSeq(P)
      BY <1>1, <1>6, Cat
    <3>2. /\ e \o r # <<>> /\ IsSeq(Tail(e))
          /\ Head(e \o r) = e[1] /\ Tail(e \o r) = Tail(e) \o r
      BY <1>1, <1>6, <1>7, HeadOfCat
    <3> QED
      BY <1>6, <3>1, <3>2, Zenon
  <2>2. P[1] = e[1]
    BY <2>1, TailIs
  <2>3. H = Effect(F, e[1])
    BY <2>2
  <2>4. /\ e[1].op = "erase" /\ e[1].blk \in {0, 1}
        /\ IsFlash(H) /\ Erasing(Tail(e), H, {0, 1})
        /\ \A b \in Block, p \in Pos :
             /\ b \notin {0, 1} => H[b][p] = F[b][p]
             /\ H[b][p] = F[b][p] \/ H[b][p] = ERASED
    <3>1. PICK S : S = {0, 1}
      OBVIOUS
    <3>2. Erasing(e, F, S)
      BY <1>1, <1>7, <3>1
    <3>3. /\ e[1].op = "erase" /\ e[1].blk \in S
          /\ IsFlash(H) /\ Erasing(Tail(e), H, S)
          /\ \A b \in Block, p \in Pos :
               /\ b \notin S => H[b][p] = F[b][p]
               /\ H[b][p] = F[b][p] \/ H[b][p] = ERASED
      BY ONLY <1>7, <2>3, <3>2, IsFlash(F), ErasingStep
    <3> QED
      BY <3>1, <3>3
  <2>5. ValidOf(H) = {}
    <3>1. ValidOf(F) = {}
      BY <1>1, <1>7
    <3>2. \A b \in MetaBlock : b \in Block
      BY Blocks
    <3> QED
      BY <2>4, <3>1, <3>2, Places DEF ValidOf
  <2>6. Tail(e) = <<>> => Holds(H, D, FreshFlash, OtherBlocks)
    <3>1. SUFFICES ASSUME Tail(e) = <<>> PROVE Holds(H, D, FreshFlash, OtherBlocks)
      OBVIOUS
    <3>2. ASSUME NEW b \in {0, 1}, NEW p \in Pos PROVE H[b][p] = ERASED
      <4>1. Erasing(<<>>, H, {0, 1})
        BY <2>4, <3>1
      <4>2. H[b] = Blank
        BY <2>4, <4>1, ErasingDone
      <4> QED
        BY <4>2 DEF Blank
    <3>3. FreshPlaces(D)
      BY <1>1, <1>7
    <3>4. ASSUME NEW b \in Block \ OtherBlocks, NEW p \in Pos
          PROVE  H[b][p] = IF <<b, p>> \in D THEN ERASED ELSE FreshFlash[b][p]
      <4>1. b \in {0, 1} /\ H[b][p] = ERASED
        BY <3>2, FreshFlashIs
      <4>2. <<b, p>> \notin D => FreshFlash[b][p] = ERASED
        BY <3>3, <4>1, FreshFlashIs DEF FreshPlaces
      <4> QED
        BY <4>1, <4>2
    <3> QED
      BY <3>4 DEF Holds
  <2>7. PICK t : t = Tail(e)
    OBVIOUS
  <2>8. Tail(P) = t \o (w \o <<SetCtx(FreshCtx)>>)
    BY <1>2, <1>3, <1>5, <2>1, <2>7
  <2>9. w # <<>> /\ FreshPlaces(D)
    BY <1>1, <1>7
  <2>10. IsSeq(t) /\ Erasing(t, H, {0, 1}) /\ (t = <<>> => Holds(H, D, FreshFlash, OtherBlocks))
    BY <2>1, <2>4, <2>6, <2>7
  <2>11. IsSeq(w) /\ Realises(w, D, FreshFlash, OtherBlocks) /\ Loc(w[Len(w)]) = <<1, COUNT>>
    BY <1>1, <2>9
  <2>12. Wiping(Tail(P), H)
    BY ONLY <2>5, <2>8, <2>9, <2>10, <2>11, Zenon DEF Wiping
  <2> QED
    BY <2>1, <2>2, <2>4, <2>12
<1>8. CASE e = <<>> /\ w # <<>>
  <2>1. P = r
    BY <1>6, <1>8, EmptyCat
  <2>2. P # <<>> /\ Head(P) = w[1] /\ Tail(P) = Tail(w) \o y /\ IsSeq(Tail(w))
    BY <1>1, <1>4, <1>5, <1>8, <2>1, HeadOfCat
  <2>3. IsSeq(P) /\ P[1] = w[1]
    BY <1>6, <2>1, <2>2, TailIs
  <2>4. H = Effect(F, w[1])
    BY <2>3
  <2>5. OtherBlocks \subseteq Block /\ Holds(F, D, FreshFlash, OtherBlocks)
    BY <1>1, <1>8, FreshFlashIs
  <2>6. /\ w[1].op # "ctx"
        /\ w[1].op = "write" => F[w[1].blk][w[1].pos] = ERASED
        /\ IsFlash(H)
        /\ \E E \in SUBSET D :
             /\ Realises(Tail(w), E, FreshFlash, OtherBlocks) /\ Holds(H, E, FreshFlash, OtherBlocks)
    BY ONLY <1>1, <1>8, <2>4, <2>5, IsFlash(F), ProgramStep
  <2>7. PICK E \in SUBSET D :
          Realises(Tail(w), E, FreshFlash, OtherBlocks) /\ Holds(H, E, FreshFlash, OtherBlocks)
    BY <2>6
  <2>8. w[1].op \in {"write", "erase"}
    <3>1. 1 \in 1..Len(w)
      BY <1>1, <1>8, EmptyIff
    <3>2. (w[1].op = "erase" /\ w[1].blk \in OtherBlocks) \/ Programs(w[1], D, FreshFlash)
      BY <1>1, <3>1 DEF Realises
    <3> QED
      BY <3>2 DEF Programs, Write
  <2>9. PICK t : t = Tail(w)
    OBVIOUS
  <2>10. /\ IsSeq(t) /\ Len(w) \in Nat /\ Len(w) >= 1 /\ Len(t) = Len(w) - 1
         /\ \A k \in 1..(Len(w) - 1) : t[k] = w[k + 1]
    BY <1>1, <1>8, <2>9, TailIs
  <2>11. t # <<>> => Loc(t[Len(t)]) = <<1, COUNT>>
    <3>1. SUFFICES ASSUME t # <<>> PROVE Loc(t[Len(t)]) = <<1, COUNT>>
      OBVIOUS
    <3>2. Len(w) - 1 \in 1..(Len(w) - 1)
      BY <2>10, <3>1, EmptyIff
    <3>3. t[Len(t)] = w[Len(w)]
      BY <2>10, <3>2
    <3> QED
      BY <1>1, <1>8, <3>3
  <2>12. t = <<>> => E = {}
    <3>1. SUFFICES ASSUME t = <<>> PROVE E = {}
      OBVIOUS
    <3>2. Len(t) = 0
      BY <3>1, EmptySeqIs
    <3>3. \A k \in 1..Len(t) : FALSE
      BY <3>2
    <3> QED
      BY <2>7, <2>9, <3>3 DEF Realises
  <2>13. Tail(P) = <<>> \o (t \o <<SetCtx(FreshCtx)>>)
    <3>1. IsSeq(t \o y)
      BY <1>4, <2>10, Cat
    <3>2. <<>> \o (t \o y) = t \o y
      BY <3>1, EmptyCat
    <3> QED
      BY <1>2, <1>3, <2>2, <2>9, <3>2
  <2>14. IsSeq(<<>>)
    BY EmptySeqIs
  <2>15. Realises(t, E, FreshFlash, OtherBlocks) /\ Holds(H, E, FreshFlash, OtherBlocks)
    BY <2>7, <2>9
  <2>16. Wiping(Tail(P), H)
    BY ONLY <2>10, <2>11, <2>12, <2>13, <2>14, <2>15, Zenon DEF Wiping
  <2> QED
    BY <2>2, <2>3, <2>6, <2>8, <2>16
<1>9. CASE e = <<>> /\ w = <<>>
  <2>1. P = y
    BY <1>4, <1>5, <1>6, <1>9, EmptyCat
  <2>2. P[1] = SetCtx(FreshCtx) /\ P[1].op = "ctx" /\ H = F
    BY <1>2, <1>4, <2>1 DEF SetCtx, Effect
  <2>3. \A b \in {0, 1}, p \in Pos : F[b][p] = FreshFlash[b][p]
    BY <1>1, <1>9, FreshFlashIs DEF Holds
  <2>4. Current(F, FreshCtx)
    BY <2>3, FreshCurrent
  <2>5. StoredOf(F) = [f \in Fid |-> NULL]
    BY WipingStored
  <2> QED
    BY <1>4, <2>1, <2>2, <2>4, <2>5
<1> QED
  BY <1>7, <1>8, <1>9
-----------------------------------------------------------------------------
\* its_flash_fs_wipe_all() starts the wipe.
LEMMA WipeStarts ==
  ASSUME NEW F, ValidOf(F) = {}, NEW P, P = its_flash_fs_mblock_reset_metablock
  PROVE  Wiping(P, F)
<1>1. PICK nd : nd = its_num_dedicated_dblocks
  OBVIOUS
<1>2. /\ nd \in Nat /\ LBlock = 0..nd /\ NumBlocks \in Nat /\ MaxFiles \in Nat
      /\ nd # 0 => its_init_dblock_start = 3 /\ nd = NumBlocks - 3 /\ NumBlocks > 3
  BY <1>1, Constants DEF LBlock, its_num_active_dblocks, its_num_dedicated_dblocks, its_init_dblock_start
<1>3. PICK e : e = Erase(0) \o Erase(1)
  OBVIOUS
<1>4. Covers(e, {0, 1})
  <2>1. Covers(Erase(0), {0}) /\ Covers(Erase(1), {1})
    BY Blocks, CoversErase
  <2>2. Covers(Erase(0) \o Erase(1), {0} \cup {1})
    BY <2>1, CoversCat
  <2>3. {0} \cup {1} = {0, 1}
    OBVIOUS
  <2> QED
    BY <1>3, <2>2, <2>3
<1>5. IsSeq(e) /\ Erasing(e, F, {0, 1}) /\ e # <<>>
  <2>1. IsSeq(e) /\ Erasing(e, F, {0, 1})
    BY <1>4, CoversAll DEF Covers, Erases
  <2>2. PICK k : k \in 1..Len(e)
    BY <1>4 DEF Covers
  <2>3. Len(e) # 0
    BY <2>1, <2>2, EmptyIff
  <2> QED
    BY <2>1, <2>3, EmptyIff
<1>6. PICK w1 : w1 = <<Write(1, BLOCK(0), FreshBlock(0))>>
  OBVIOUS
<1>7. PICK w2 : w2 = [k \in 1..(2 * nd) |->
                        EraseSector((k - 1) \div 2 + its_init_dblock_start, (k - 1) % 2)]
  OBVIOUS
<1>8. PICK w3 : w3 = [l \in 1..nd |-> Write(1, BLOCK(l), FreshBlock(l))]
  OBVIOUS
<1>9. PICK w4 : w4 = [k \in 1..MaxFiles |-> Write(1, FILE(k - 1), FreeFile)]
  OBVIOUS
<1>10. PICK w5 : w5 = <<Write(1, HEADER, its_init_scratch_dblock)>>
  OBVIOUS
<1>11. PICK w6 : w6 = <<Write(1, COUNT, NextCount(0))>>
  OBVIOUS
<1>12. PICK y : y = <<SetCtx(FreshCtx)>>
  OBVIOUS
<1>13. PICK G : G = FreshFlash
  OBVIOUS
<1>14. PICK N : N = OtherBlocks
  OBVIOUS
<1>15. 1 \in Block /\ 1 \notin N
  BY <1>14, Blocks DEF OtherBlocks
<1>16. Realises(w1, {<<1, BLOCK(0)>>}, G, N)
  <2>1. BLOCK(0) \in Pos /\ FreshBlock(0) = G[1][BLOCK(0)]
    BY <1>13, Blocks, Places, FreshFlashIs
  <2> QED
    BY <1>6, <1>15, <2>1, RealisesOne
<1>17. Realises(w2, {}, G, N)
  <2>1. ASSUME NEW k \in 1..(2 * nd) PROVE w2[k].op = "erase" /\ w2[k].blk \in N
    <3>1. nd # 0 /\ (k - 1) \div 2 \in 0..(nd - 1)
      BY <1>2
    <3>2. PICK m : m = (k - 1) \div 2
      OBVIOUS
    <3>3. m + 3 \in N /\ its_init_dblock_start = 3
      BY <1>2, <1>14, <3>1, <3>2 DEF OtherBlocks
    <3>4. w2[k] = EraseSector(m + 3, (k - 1) % 2)
      BY <1>7, <3>2, <3>3
    <3> QED
      BY <3>3, <3>4 DEF EraseSector
  <2>2. 2 * nd \in Nat /\ w2 \in [1..(2 * nd) -> {w2[k] : k \in 1..(2 * nd)}]
    BY <1>2, <1>7
  <2>3. PICK n, T : n = 2 * nd /\ T = {w2[k] : k \in 1..(2 * nd)}
    OBVIOUS
  <2>4. IsSeq(w2) /\ Len(w2) = n
    BY ONLY <2>2, <2>3, FunIsSeq
  <2>5. ASSUME NEW k \in 1..Len(w2) PROVE w2[k].op = "erase" /\ w2[k].blk \in N
    BY <2>1, <2>3, <2>4
  <2>6. \A k \in 1..Len(w2) : ~Programs(w2[k], {}, G)
    BY DEF Programs
  <2> QED
    BY ONLY <2>4, <2>5, <2>6 DEF Realises
<1>18. Realises(w3, Locs(1, "block", 1, nd), G, N)
  <2>1. ASSUME NEW k \in 1..nd
        PROVE  /\ BLOCK(k) = <<"block", 1 + k - 1>> /\ k = 1 + k - 1 /\ k \in LBlock
               /\ FreshBlock(k) = G[1][<<"block", 1 + k - 1>>]
    <3>1. k = 1 + k - 1 /\ k \in LBlock
      BY <1>2
    <3>2. BLOCK(k) = <<"block", 1 + k - 1>>
      BY <3>1 DEF BLOCK
    <3> QED
      BY <1>13, <3>1, <3>2, FreshFlashIs
  <2>2. w3 = [k \in 1..nd |-> Write(1, <<"block", 1 + k - 1>>, G[1][<<"block", 1 + k - 1>>])]
    BY <1>8, <2>1
  <2>3. 1 + nd - 1 = nd
    BY <1>2
  <2>4. ASSUME NEW k \in 1..(1 + nd - 1) PROVE <<"block", k>> \in Pos
    <3>1. k \in LBlock
      BY ONLY <1>2, <2>3, k \in 1..(1 + nd - 1)
    <3> QED
      BY ONLY <3>1, Places DEF BLOCK
  <2>5. Realises(w3, Locs(1, "block", 1, 1 + nd - 1), G, N)
    BY ONLY <1>2, <1>15, <2>2, <2>4, 1 \in Nat, RealisesRange
  <2> QED
    BY <2>3, <2>5
<1>19. Realises(w4, Locs(1, "file", 0, MaxFiles - 1), G, N)
  <2>1. ASSUME NEW k \in 1..MaxFiles
        PROVE  /\ FILE(k - 1) = <<"file", 0 + k - 1>> /\ FreeFile = G[1][<<"file", 0 + k - 1>>]
    <3>1. k - 1 = 0 + k - 1 /\ k - 1 \in FileIdx
      BY <1>2 DEF FileIdx
    <3>2. FILE(k - 1) = <<"file", 0 + k - 1>>
      BY <3>1 DEF FILE
    <3> QED
      BY <1>13, <3>1, <3>2, FreshFlashIs
  <2>2. w4 = [k \in 1..MaxFiles |-> Write(1, <<"file", 0 + k - 1>>, G[1][<<"file", 0 + k - 1>>])]
    BY <1>9, <2>1
  <2>3. 0 + MaxFiles - 1 = MaxFiles - 1
    BY <1>2
  <2>4. \A k \in 0..(0 + MaxFiles - 1) : <<"file", k>> \in Pos
    BY <1>2, <2>3, Places DEF FILE, FileIdx
  <2>5. Realises(w4, Locs(1, "file", 0, 0 + MaxFiles - 1), G, N)
    BY ONLY <1>2, <1>15, <2>2, <2>4, 0 \in Nat, RealisesRange
  <2> QED
    BY <2>3, <2>5
<1>20. Realises(w5, {<<1, HEADER>>}, G, N) /\ Realises(w6, {<<1, COUNT>>}, G, N)
  BY <1>10, <1>11, <1>13, <1>15, Places, FreshFlashIs, RealisesOne
<1>21. PICK D2, D3, D4, D5, D6 :
         /\ D2 = {<<1, BLOCK(0)>>} \cup {} /\ D3 = D2 \cup Locs(1, "block", 1, nd)
         /\ D4 = D3 \cup Locs(1, "file", 0, MaxFiles - 1)
         /\ D5 = D4 \cup {<<1, HEADER>>} /\ D6 = D5 \cup {<<1, COUNT>>}
  OBVIOUS
<1>22. Realises(w1 \o w2, D2, G, N)
  <2>1. {<<1, BLOCK(0)>>} \cap {} = {}
    OBVIOUS
  <2> QED
    BY ONLY <1>16, <1>17, <1>21, <2>1, RealisesCat
<1>23. Realises((w1 \o w2) \o w3, D3, G, N)
  <2>1. D2 \cap Locs(1, "block", 1, nd) = {}
    BY <1>21 DEF Locs, BLOCK
  <2> QED
    BY ONLY <1>18, <1>21, <1>22, <2>1, RealisesCat
<1>24. Realises(((w1 \o w2) \o w3) \o w4, D4, G, N)
  <2>1. D3 \cap Locs(1, "file", 0, MaxFiles - 1) = {}
    BY <1>21 DEF Locs, BLOCK
  <2> QED
    BY ONLY <1>19, <1>21, <1>23, <2>1, RealisesCat
<1>25. Realises((((w1 \o w2) \o w3) \o w4) \o w5, D5, G, N)
  <2>1. D4 \cap {<<1, HEADER>>} = {}
    BY <1>21 DEF Locs, BLOCK, HEADER
  <2> QED
    BY ONLY <1>20, <1>21, <1>24, <2>1, RealisesCat
<1>26. PICK u : u = (((w1 \o w2) \o w3) \o w4) \o w5
  OBVIOUS
<1>27. PICK w : w = u \o w6
  OBVIOUS
<1>28. Realises(w, D6, G, N)
  <2>1. D5 \cap {<<1, COUNT>>} = {}
    BY <1>21 DEF Locs, BLOCK, HEADER, COUNT
  <2>2. Realises(u, D5, G, N)
    BY <1>25, <1>26
  <2> QED
    BY ONLY <1>20, <1>21, <1>27, <2>1, <2>2, RealisesCat
<1>29. IsSeq(w1) /\ IsSeq(w2) /\ IsSeq(w3) /\ IsSeq(w4) /\ IsSeq(w5) /\ IsSeq(w6) /\ IsSeq(u) /\ IsSeq(w)
  BY <1>16, <1>17, <1>18, <1>19, <1>20, <1>25, <1>26, <1>28 DEF Realises
<1>30. w # <<>> /\ Loc(w[Len(w)]) = <<1, COUNT>>
  <2>1. Len(w6) = 1 /\ w6[1] = Write(1, COUNT, NextCount(0))
    BY <1>11, OneSeqIs
  <2>2. Len(w) = Len(u) + 1 /\ Len(u) \in Nat /\ 1 \in 1..Len(w6) /\ w[Len(u) + 1] = w6[1]
    <3>1. /\ Len(u) \in Nat /\ Len(u \o w6) = Len(u) + Len(w6)
          /\ \A n \in 1..Len(w6) : (u \o w6)[Len(u) + n] = w6[n]
      BY ONLY <1>29, Cat
    <3>2. 1 \in 1..Len(w6)
      BY ONLY <2>1
    <3> QED
      BY ONLY <1>27, <2>1, <3>1, <3>2
  <2>3. w # <<>>
    BY <1>29, <2>2, EmptyIff
  <2>4. Loc(w6[1]) = <<1, COUNT>>
    BY <2>1 DEF Loc, Write
  <2> QED
    BY <2>2, <2>3, <2>4
<1>31. FreshPlaces(D6)
  <2>1. ASSUME NEW p \in Pos PROVE <<0, p>> \notin D6
    BY <1>21 DEF Locs
  <2>2. ASSUME NEW p \in Pos PROVE <<1, p>> \in D6 \/ FreshFlash[1][p] = ERASED
    <3>1. CASE p = HEADER \/ p = COUNT
      BY <1>21, <3>1
    <3>2. ASSUME NEW l \in LBlock, p = BLOCK(l) PROVE <<1, p>> \in D6
      <4>1. l = 0 \/ l \in 1..nd
        BY <1>2
      <4> QED
        BY <1>21, <3>2, <4>1 DEF Locs, BLOCK
    <3>3. ASSUME NEW i \in FileIdx, p = FILE(i) PROVE <<1, p>> \in D6
      BY <1>21, <3>3 DEF Locs, FILE, FileIdx
    <3>4. ASSUME NEW k \in 0..(BlockSize - 1), p = CELL(k) PROVE FreshFlash[1][p] = ERASED
      BY <3>4, FreshFlashIs
    <3> QED
      BY <3>1, <3>2, <3>3, <3>4, Places
  <2> QED
    BY <2>1, <2>2 DEF FreshPlaces
<1>32. P = e \o (w \o y)
  <2>1. PICK h : h = <<Write(1, HEADER, its_init_scratch_dblock), Write(1, COUNT, NextCount(0))>>
    OBVIOUS
  <2>2. h = w5 \o w6
    BY <1>10, <1>11, <2>1, PairCat
  <2>3. P = ((((((e \o w1) \o w2) \o w3) \o w4) \o h) \o y)
    <3>1. PICK c : c = [active |-> 0, scratch |-> 1, dblock |-> its_init_scratch_dblock,
                        count |-> NextCount(0)]
      OBVIOUS
    <3>2. c.scratch = 1 /\ c.dblock = its_init_scratch_dblock /\ c.count = NextCount(0) /\ c.active = 0
      BY <3>1
    <3>3. its_mblock_write_scratch_meta_header(c) = h
      BY <2>1, <3>2 DEF its_mblock_write_scratch_meta_header
    <3>4. its_mblock_swap_metablocks(c) = FreshCtx
      <4>1. PICK x, n : x = its_init_scratch_dblock /\ n = NextCount(0)
        OBVIOUS
      <4>2. c = [active |-> 0, scratch |-> 1, dblock |-> x, count |-> n]
        BY ONLY <3>1, <4>1
      <4>3. its_mblock_swap_metablocks(c) = [active |-> 1, scratch |-> 0, dblock |-> x, count |-> n]
        <5>1. its_mblock_swap_metablocks(c) = [[c EXCEPT !.active = 1] EXCEPT !.scratch = 0]
          BY ONLY <3>2 DEF its_mblock_swap_metablocks
        <5>2. [c EXCEPT !.active = 1] = [active |-> 1, scratch |-> 1, dblock |-> x, count |-> n]
          BY ONLY <4>2
        <5>3. [[active |-> 1, scratch |-> 1, dblock |-> x, count |-> n] EXCEPT !.scratch = 0]
                = [active |-> 1, scratch |-> 0, dblock |-> x, count |-> n]
          OBVIOUS
        <5> QED
          BY ONLY <5>1, <5>2, <5>3
      <4> QED
        BY ONLY <4>1, <4>3 DEF FreshCtx
    <3>5. P = its_flash_fs_mblock_reset_metablock
      OBVIOUS
    <3> QED
      BY ONLY <1>1, <1>3, <1>6, <1>7, <1>8, <1>9, <1>12, <3>1, <3>2, <3>3, <3>4, <3>5, Zenon
         DEF its_flash_fs_mblock_reset_metablock, FreshBlock
  <2>4. IsSeq(y) /\ IsSeq(e) /\ IsSeq(w1 \o w2) /\ IsSeq((w1 \o w2) \o w3)
        /\ IsSeq(((w1 \o w2) \o w3) \o w4)
    BY <1>5, <1>12, <1>29, OneSeqIs, Cat
  <2>5. PICK a2, a3, a4 : a2 = w1 \o w2 /\ a3 = a2 \o w3 /\ a4 = a3 \o w4
    OBVIOUS
  <2>6. IsSeq(a2) /\ IsSeq(a3) /\ IsSeq(a4) /\ u = a4 \o w5
    BY <1>26, <2>4, <2>5
  <2>7. (e \o w1) \o w2 = e \o a2
    <3>1. IsSeq(e) /\ IsSeq(w1) /\ IsSeq(w2)
      BY ONLY <1>29, <2>4
    <3>2. (e \o w1) \o w2 = e \o (w1 \o w2)
      BY ONLY <3>1, Assoc
    <3> QED
      BY ONLY <2>5, <3>2
  <2>8. (e \o a2) \o w3 = e \o a3
    <3>1. IsSeq(e) /\ IsSeq(a2) /\ IsSeq(w3)
      BY ONLY <1>29, <2>4, <2>6
    <3>2. (e \o a2) \o w3 = e \o (a2 \o w3)
      BY ONLY <3>1, Assoc
    <3> QED
      BY ONLY <2>5, <3>2
  <2>9. (e \o a3) \o w4 = e \o a4
    <3>1. IsSeq(e) /\ IsSeq(a3) /\ IsSeq(w4)
      BY ONLY <1>29, <2>4, <2>6
    <3>2. (e \o a3) \o w4 = e \o (a3 \o w4)
      BY ONLY <3>1, Assoc
    <3> QED
      BY ONLY <2>5, <3>2
  <2>10. (e \o a4) \o h = e \o (a4 \o h)
    <3>1. IsSeq(h)
      BY <1>29, <2>2, Cat
    <3> QED
      <4>1. IsSeq(e) /\ IsSeq(a4) /\ IsSeq(h)
        BY ONLY <2>4, <2>6, <3>1
      <4> QED
        BY ONLY <4>1, Assoc
  <2>11. a4 \o h = w
    <3>1. (a4 \o w5) \o w6 = a4 \o (w5 \o w6)
      <4>1. IsSeq(a4) /\ IsSeq(w5) /\ IsSeq(w6)
        BY ONLY <1>29, <2>6
      <4> QED
        BY ONLY <4>1, Assoc
    <3> QED
      BY ONLY <1>27, <2>2, <2>6, <3>1, Zenon
  <2>12. (e \o w) \o y = e \o (w \o y)
    <3>1. IsSeq(e) /\ IsSeq(w) /\ IsSeq(y)
      BY ONLY <1>29, <2>4
    <3> QED
      BY ONLY <3>1, Assoc
  <2> QED
    BY ONLY <2>3, <2>7, <2>8, <2>9, <2>10, <2>11, <2>12, Zenon
<1>33. Realises(w, D6, FreshFlash, OtherBlocks)
  BY <1>13, <1>14, <1>28
<1> QED
  BY ONLY <1>5, <1>12, <1>29, <1>30, <1>31, <1>32, <1>33, ValidOf(F) = {}, Zenon DEF Wiping
-----------------------------------------------------------------------------
-----------------------------------------------------------------------------
\* What the state predicates of the model say, as functions of the flash.
Recoverable(F) == ValidOf(F) = {} \/ \E c : Current(F, c)

\* The metadata blocks with a valid header.
LEMMA ValidIs == ValidMeta = ValidOf(flash)
BY DEF ValidMeta, ValidOf, its_mblock_validate_header_meta, Item

\* The context that its_flash_fs_mblock_init() finds.
LEMMA RecoveredIs == RecoveredCtx = RecoveredOf(flash)
<1>1. its_init_get_active_metablock = ActiveOf(flash)
  BY ValidIs DEF its_init_get_active_metablock, ActiveOf, Item
<1> QED
  BY <1>1 DEF RecoveredCtx, RecoveredOf, ITS_OTHER_META_BLOCK, Item

\* The assets of a context that is current.
LEMMA AssetsAre ==
  ASSUME NEW c, Current(flash, c)
  PROVE  Assets(c) = AssetsOf(flash, c)
<1>1. PICK B, M : B = BlocksOf(flash, c) /\ M = FilesOf(flash, c)
  OBVIOUS
<1>2. Tables(B, M) /\ Packed(B, M)
  BY <1>1 DEF Current, Sound, Layout
<1>3. /\ \A l \in LBlock : BlockMeta(c, l) = B[l]
      /\ \A i \in FileIdx : FileMeta(c, i) = M[i]
      /\ \A f : IdxOf(c, f) = {i \in FileIdx : M[i].id = f}
  BY <1>1, MetaOf
<1>4. ASSUME NEW i \in FileIdx
      PROVE  /\ its_flash_fs_file_read(c.active, FileMeta(c, i)) = AssetAt(flash, B, M, i).data
             /\ FileMeta(c, i) = M[i]
  <2>1. M[i] \in FileMetas /\ FileMeta(c, i) = M[i]
    BY <1>2, <1>3 DEF Tables
  <2>2. M[i].lblock \in LBlock
    BY <2>1 DEF FileMetas
  <2>3. Item(c.active, BLOCK(M[i].lblock)) = B[M[i].lblock]
    BY <1>3, <2>2 DEF BlockMeta
  <2>4. its_flash_fs_file_read(c.active, M[i])
          = [k \in 1..M[i].cur_size |-> flash[B[M[i].lblock].phy_id][CELL(M[i].data_idx + k - 1)]]
    BY <2>3 DEF its_flash_fs_file_read, Item
  <2> QED
    BY <2>1, <2>4 DEF AssetAt
<1>5. ASSUME NEW f \in Fid
      PROVE  Assets(c)[f] = AssetsOf(flash, c)[f]
  <2>1. PICK S : S = {i \in FileIdx : M[i].id = f}
    OBVIOUS
  <2>2. IdxOf(c, f) = S
    BY <1>3, <2>1
  <2>3. CASE S = {}
    <3>1. Assets(c)[f] = NULL
      BY <2>2, <2>3 DEF Assets
    <3>2. AssetsOf(flash, c)[f] = NULL
      BY <1>1, <2>1, <2>3 DEF AssetsOf, AssetsIn
    <3> QED
      BY <3>1, <3>2
  <2>4. CASE S # {}
    <3>1. S \in SUBSET Nat /\ S \in SUBSET FileIdx
      BY <2>1, Constants DEF FileIdx
    <3>2. Min(S) \in FileIdx
      BY <2>4, <3>1, MinOf
    <3>3. PICK i : i = Min(S)
      OBVIOUS
    <3>4. its_flash_fs_mblock_get_file_idx(c, f) = i
      BY <2>2, <3>3 DEF its_flash_fs_mblock_get_file_idx
    <3>5. Assets(c)[f] = [data |-> its_flash_fs_file_read(c.active, FileMeta(c, i)),
                          cap |-> FileMeta(c, i).max_size, once |-> FileMeta(c, i).once]
      BY <2>2, <2>4, <3>4 DEF Assets
    <3>6. AssetsOf(flash, c)[f] = AssetAt(flash, B, M, i)
      BY <1>1, <2>1, <2>4, <3>3 DEF AssetsOf, AssetsIn
    <3>7. /\ its_flash_fs_file_read(c.active, FileMeta(c, i)) = AssetAt(flash, B, M, i).data
          /\ FileMeta(c, i) = M[i]
      BY <1>4, <3>2, <3>3
    <3> QED
      BY ONLY <3>5, <3>6, <3>7 DEF AssetAt
  <2> QED
    BY <2>3, <2>4
<1>6. DOMAIN Assets(c) = Fid /\ Assets(c) = [f \in Fid |-> Assets(c)[f]]
  BY DEF Assets
<1>7. AssetsOf(flash, c) = [f \in Fid |-> AssetsOf(flash, c)[f]]
  BY DEF AssetsOf, AssetsIn
<1> QED
  BY <1>5, <1>6, <1>7

\* What a reset would find.
LEMMA StoredIs == Recoverable(flash) => Stored = StoredOf(flash)
<1> SUFFICES ASSUME Recoverable(flash)
             PROVE  Stored = StoredOf(flash)
  OBVIOUS
<1>1. CASE ValidOf(flash) = {}
  BY <1>1, ValidIs DEF Stored, StoredOf
<1>2. CASE ValidOf(flash) # {}
  <2>1. PICK c : Current(flash, c)
    BY <1>2 DEF Recoverable
  <2>2. RecoveredOf(flash) = c /\ StoredOf(flash) = AssetsOf(flash, c)
    BY <2>1, Recovers
  <2>3. Assets(c) = AssetsOf(flash, c)
    BY <2>1, AssetsAre
  <2>4. RecoveredCtx = c
    BY <2>2, RecoveredIs
  <2>5. Stored = CHOOSE s \in {Assets(x) : x \in {c}} : TRUE
    BY <1>2, <2>4, ValidIs DEF Stored
  <2>6. {Assets(x) : x \in {c}} = {Assets(c)}
    OBVIOUS
  <2>7. Stored = Assets(c)
    BY <2>5, <2>6
  <2> QED
    BY <2>2, <2>3, <2>7
<1> QED
  BY <1>1, <1>2

\* The same after a step.
LEMMA StoredIsNext == Recoverable(flash') => Stored' = StoredOf(flash')
<1>1. (Recoverable(flash) => Stored = StoredOf(flash))'
  BY StoredIs, PTL
<1> QED
  BY <1>1
-----------------------------------------------------------------------------
\* The inductive invariant, as a predicate on the flash F, the context c, the
\* operations P that are left, and the request j, of which o units are handed
\* over, at the place q of the service.

\* The asset that the current file system call of the request leaves.
Result(q, j, o) == IF q = "write" THEN Store!Asset(j, o) ELSE NULL

\* The asset that it found: one that it may replace by the result.
LegalOld(q, j, o, old) ==
  IF q = "write"
    THEN \/ old = NULL /\ o = Min({Buf, j.len})
         \/ \E n \in 0..(j.len - 1) : old = Store!Asset(j, n) /\ o = Min({n + Buf, j.len})
    ELSE old # NULL /\ ~old.once

\* The call is carried out, and blocks may still have to be erased.
Settled(F, c, P, q, j, o) ==
  Clearing(P, F, c) /\ AssetsOf(F, c)[j.fid] = Result(q, j, o)

\* The call has not changed anything that a reset would find.
Pending(F, c, P, q, j, o) ==
  /\ Current(F, c)
  /\ LegalOld(q, j, o, AssetsOf(F, c)[j.fid])
  /\ \E d, G, D :
       /\ Writing(P, F, c, d, G, D)
       /\ AssetsOf(G, d) = [AssetsOf(F, c) EXCEPT ![j.fid] = Result(q, j, o)]

\* The swap count is written; the context in RAM is still the old one.
Committed(F, c, P, q, j, o) ==
  \E d, D : Writing(P, F, c, d, F, D) /\ AssetsOf(F, d)[j.fid] = Result(q, j, o)

\* A call is in one of these phases.
Serving(F, c, P, q, j, o) ==
  Settled(F, c, P, q, j, o) \/ Pending(F, c, P, q, j, o) \/ Committed(F, c, P, q, j, o)

\* What is true at each place of the service.
ItsState(F, c, P, q, j, o) ==
  /\ IsFlash(F)
  /\ \/ q = "off" /\ j = NULL /\ P = <<>> /\ Recoverable(F)
     \/ q = "wiped" /\ j = NULL /\ (Wiping(P, F) \/ (P = <<>> /\ \E x : Current(F, x)))
     \/ q = "idle" /\ j = NULL /\ Clearing(P, F, c)
     \/ q = "open" /\ j \in Store!SetJob \cup Store!RemoveJob /\ P = <<>> /\ Clearing(P, F, c)
     \/ q = "create" /\ j \in Store!SetJob /\ Serving(F, c, P, q, j, o)
     \/ q = "done" /\ j \in Store!RemoveJob /\ Serving(F, c, P, q, j, o)
     \/ /\ q = "write" /\ j \in Store!SetJob /\ o \in Nat /\ o <= j.len
        /\ Serving(F, c, P, q, j, o)

\* The inductive invariant.
ItsInv == ItsState(flash, ctx, plan, pc, call, off)

\* At every moment a reset finds a file system, or none at all.
LEMMA ServingCurrent ==
  ASSUME NEW F, NEW c, NEW P, NEW q, NEW j, NEW o, Serving(F, c, P, q, j, o)
  PROVE  \E x : Current(F, x)
<1>1. CASE Settled(F, c, P, q, j, o)
  BY <1>1 DEF Settled, Clearing
<1>2. CASE Pending(F, c, P, q, j, o)
  BY <1>2 DEF Pending
<1>3. CASE Committed(F, c, P, q, j, o)
  BY <1>3 DEF Committed, Writing
<1> QED
  BY <1>1, <1>2, <1>3 DEF Serving

\* So it is in every state of the invariant.
LEMMA StateRecoverable ==
  ASSUME NEW F, NEW c, NEW P, NEW q, NEW j, NEW o, ItsState(F, c, P, q, j, o)
  PROVE  Recoverable(F)
<1>1. CASE q = "off" /\ Recoverable(F)
  BY <1>1
<1>2. CASE Wiping(P, F)
  <2>1. ValidOf(F) = {} \/ Current(F, FreshCtx)
    BY <1>2, WipingStored
  <2> QED
    BY <2>1 DEF Recoverable
<1>3. CASE \E x : Current(F, x)
  BY <1>3 DEF Recoverable
<1>4. CASE Clearing(P, F, c)
  BY <1>4 DEF Recoverable, Clearing
<1>5. CASE Serving(F, c, P, q, j, o)
  BY <1>5, ServingCurrent DEF Recoverable
<1> QED
  BY <1>1, <1>2, <1>3, <1>4, <1>5 DEF ItsState

\* NULL is neither an asset nor a request.
LEMMA NullIs ==
  /\ NULL \notin AssetType
  /\ \A j \in Store!SetJob : j # NULL
  /\ \A j \in Store!RemoveJob : j # NULL
BY NullAssumption DEF AssetType

\* A step of a file system call: what a reset would find stays, or becomes the
\* result of the call at once.
LEMMA ServingStep ==
  ASSUME NEW F, NEW c, NEW P, NEW q, NEW j, NEW o, Serving(F, c, P, q, j, o), IsFlash(F),
         j.fid \in Fid, P # <<>>, NEW H, H = Effect(F, P[1]),
         NEW c2, c2 = IF P[1].op = "ctx" THEN P[1].val ELSE c
  PROVE  /\ IsSeq(P) /\ P[1].op \in {"write", "erase", "ctx"} /\ IsFlash(H)
         /\ P[1].op = "write" => F[P[1].blk][P[1].pos] = ERASED
         /\ Serving(H, c2, Tail(P), q, j, o)
         /\ \/ StoredOf(H) = StoredOf(F)
            \/ /\ StoredOf(H) = [StoredOf(F) EXCEPT ![j.fid] = Result(q, j, o)]
               /\ LegalOld(q, j, o, StoredOf(F)[j.fid])
<1>1. CASE Settled(F, c, P, q, j, o)
  <2>1. Clearing(P, F, c) /\ AssetsOf(F, c)[j.fid] = Result(q, j, o)
    BY <1>1 DEF Settled
  <2>2. /\ P[1].op = "erase" /\ IsFlash(H) /\ Clearing(Tail(P), H, c)
        /\ AssetsOf(H, c) = AssetsOf(F, c)
    BY <2>1, ClearingStep
  <2>3. Current(F, c) /\ Current(H, c) /\ IsSeq(P)
    BY <2>1, <2>2 DEF Clearing, Erasing, Erases
  <2>4. StoredOf(H) = StoredOf(F)
    BY <2>2, <2>3, Recovers
  <2>5. c2 = c
    BY <2>2
  <2>6. Settled(H, c2, Tail(P), q, j, o)
    BY <2>1, <2>2, <2>5 DEF Settled
  <2> QED
    BY <2>2, <2>3, <2>4, <2>6 DEF Serving
<1>2. CASE Pending(F, c, P, q, j, o)
  <2>1. PICK d, G, D :
          /\ Writing(P, F, c, d, G, D)
          /\ AssetsOf(G, d) = [AssetsOf(F, c) EXCEPT ![j.fid] = Result(q, j, o)]
    BY <1>2 DEF Pending
  <2>2. Current(F, c) /\ LegalOld(q, j, o, AssetsOf(F, c)[j.fid])
    BY <1>2 DEF Pending
  <2>3. Current(G, d)
    BY <2>1 DEF Writing
  <2>4. StoredOf(F) = AssetsOf(F, c) /\ StoredOf(G) = AssetsOf(G, d)
    BY <2>2, <2>3, Recovers
  <2>5. AssetsOf(G, d)[j.fid] = Result(q, j, o)
    BY <2>1 DEF AssetsOf, AssetsIn
  <2>6. /\ IsSeq(P) /\ P # <<>> /\ P[1].op \in {"write", "ctx"}
        /\ P[1].op = "write" => F[P[1].blk][P[1].pos] = ERASED
        /\ IsFlash(H)
        /\ \/ P[1] = SetCtx(d) /\ H = F /\ F = G /\ Clearing(Tail(P), H, d)
           \/ /\ P[1].op = "write" /\ Current(F, c)
              /\ \E E : Writing(Tail(P), H, c, d, G, E)
              /\ \/ Current(H, c) /\ AssetsOf(H, c) = AssetsOf(F, c)
                 \/ H = G
    BY ONLY <2>1, IsFlash(F), H = Effect(F, P[1]), WritingStep
  <2>7. CASE P[1] = SetCtx(d) /\ H = F /\ F = G /\ Clearing(Tail(P), H, d)
    <3>1. c2 = d
      BY <2>7 DEF SetCtx
    <3>2. Settled(H, c2, Tail(P), q, j, o)
      BY <2>5, <2>7, <3>1 DEF Settled
    <3> QED
      BY <2>6, <2>7, <3>2 DEF Serving
  <2>8. CASE P[1].op = "write" /\ Current(H, c) /\ AssetsOf(H, c) = AssetsOf(F, c)
    <3>1. c2 = c
      BY <2>8
    <3>2. PICK E : Writing(Tail(P), H, c, d, G, E)
      BY <2>6, <2>8 DEF SetCtx
    <3>3. Pending(H, c2, Tail(P), q, j, o)
      BY <2>1, <2>2, <2>8, <3>1, <3>2 DEF Pending
    <3>4. StoredOf(H) = StoredOf(F)
      BY <2>4, <2>8, Recovers
    <3> QED
      BY <2>6, <3>3, <3>4 DEF Serving
  <2>9. CASE P[1].op = "write" /\ H = G
    <3>1. c2 = c
      BY <2>9
    <3>2. PICK E : Writing(Tail(P), H, c, d, H, E)
      BY <2>6, <2>9 DEF SetCtx
    <3>3. Committed(H, c2, Tail(P), q, j, o)
      BY <2>5, <2>9, <3>1, <3>2 DEF Committed
    <3>4. StoredOf(H) = [StoredOf(F) EXCEPT ![j.fid] = Result(q, j, o)]
      BY <2>1, <2>4, <2>9
    <3> QED
      BY <2>2, <2>4, <2>6, <3>3, <3>4 DEF Serving
  <2> QED
    BY <2>6, <2>7, <2>8, <2>9
<1>3. CASE Committed(F, c, P, q, j, o)
  <2>1. PICK d, D : Writing(P, F, c, d, F, D) /\ AssetsOf(F, d)[j.fid] = Result(q, j, o)
    BY <1>3 DEF Committed
  <2>2. /\ IsSeq(P) /\ P # <<>> /\ IsFlash(H)
        /\ \/ P[1] = SetCtx(d) /\ H = F /\ Clearing(Tail(P), H, d)
           \/ Current(F, c)
    BY ONLY <2>1, IsFlash(F), H = Effect(F, P[1]), WritingStep
  <2>3. ~Current(F, c)
    <3>1. SUFFICES ASSUME Current(F, c)
                   PROVE  FALSE
      OBVIOUS
    <3>2. Current(F, d) /\ d.scratch = c.active
      BY <2>1 DEF Writing
    <3>3. c = d
      BY <3>1, <3>2, Recovers
    <3>4. c.active # c.scratch
      BY <3>1, SpareBlocks DEF Current, Sound
    <3> QED
      BY <3>2, <3>3, <3>4
  <2>4. P[1] = SetCtx(d) /\ H = F /\ Clearing(Tail(P), H, d)
    BY <2>2, <2>3
  <2>5. c2 = d /\ P[1].op = "ctx"
    BY <2>4 DEF SetCtx
  <2>6. Settled(H, c2, Tail(P), q, j, o)
    BY <2>1, <2>4, <2>5 DEF Settled
  <2> QED
    BY <2>2, <2>4, <2>5, <2>6 DEF Serving
<1> QED
  BY <1>1, <1>2, <1>3 DEF Serving

\* Between two calls nothing is left to erase.
LEMMA Quiet ==
  ASSUME NEW F, NEW c, NEW P, IsFlash(F), Clearing(P, F, c), P = <<>>
  PROVE  Current(F, c) /\ IsCtx(c) /\ \A x \in Spare(c) : F[x] = Blank
BY ErasingDone DEF Clearing, Current, Sound

\* A call that has no operation left is carried out.
LEMMA ServingQuiet ==
  ASSUME NEW F, NEW c, NEW P, NEW q, NEW j, NEW o, IsFlash(F), Serving(F, c, P, q, j, o), P = <<>>
  PROVE  Settled(F, c, P, q, j, o)
<1>1. ASSUME NEW d, NEW G, NEW D, Writing(P, F, c, d, G, D)
      PROVE  FALSE
  <2>1. PICK H : H = Effect(F, P[1])
    OBVIOUS
  <2>2. P # <<>>
    BY ONLY <1>1, IsFlash(F), <2>1, WritingStep
  <2> QED
    BY <2>2
<1> QED
  BY <1>1 DEF Serving, Pending, Committed

\* The file of a request, in the words of the file system.
LEMMA FileThere ==
  ASSUME NEW c, Current(flash, c), NEW f \in Fid
  PROVE  /\ IdxOf(c, f) = {} <=> AssetsOf(flash, c)[f] = NULL
         /\ IdxOf(c, f) # {} =>
              (AssetsOf(flash, c)[f].once <=> \E i \in IdxOf(c, f) : FileMeta(c, i).once)
<1>1. PICK B, M, S : /\ B = BlocksOf(flash, c) /\ M = FilesOf(flash, c)
                     /\ S = {k \in FileIdx : M[k].id = f}
  OBVIOUS
<1>2. IdxOf(c, f) = S /\ \A i \in FileIdx : FileMeta(c, i) = M[i]
  BY <1>1, MetaOf
<1>3. NULL \notin AssetType
  BY NullIs
<1>4. /\ S = {} <=> AssetsOf(flash, c)[f] = NULL
      /\ S # {} => /\ Min(S) \in FileIdx /\ S = {Min(S)}
                   /\ AssetsOf(flash, c)[f] = AssetAt(flash, B, M, Min(S))
  BY ONLY Current(flash, c), <1>1, <1>3, f \in Fid, FileOf
<1>5. ASSUME S # {}
      PROVE  AssetsOf(flash, c)[f].once <=> \E i \in S : FileMeta(c, i).once
  <2>1. PICK i \in FileIdx : S = {i} /\ AssetsOf(flash, c)[f] = AssetAt(flash, B, M, i)
    BY <1>4, <1>5
  <2>2. AssetAt(flash, B, M, i).once = M[i].once
    BY DEF AssetAt
  <2> QED
    BY <1>2, <2>1, <2>2
<1> QED
  BY <1>2, <1>4, <1>5
-----------------------------------------------------------------------------
\* The abstract store, as the flash holds it.
Stores == Stored = StoredOf(flash) /\ Stored' = StoredOf(flash')
StoreStep == [Store!StoreNext]_(Store!storeVars)

\* In the states of the invariant the store is what the flash holds.
LEMMA StoresAre ==
  ASSUME ItsInv, ItsInv'
  PROVE  Stores
<1>1. Recoverable(flash)
  BY StateRecoverable DEF ItsInv
<1>2. Recoverable(flash')
  BY StateRecoverable DEF ItsInv
<1> QED
  BY <1>1, <1>2, StoredIs, StoredIsNext DEF Stores

\* A step that changes neither what is stored nor the request.
LEMMA StoreStutters ==
  ASSUME ItsInv, ItsInv', StoredOf(flash') = StoredOf(flash), UNCHANGED <<call, reply>>
  PROVE  StoreStep
<1>1. Stored' = Stored
  BY StoresAre DEF Stores
<1>2. UNCHANGED Store!storeVars
  BY <1>1 DEF Store!storeVars
<1> QED
  BY <1>2 DEF StoreStep

\* tfm_its_init()
LEMMA PrepareStep ==
  ASSUME ItsInv, Prepare
  PROVE  ItsInv' /\ StoreStep
<1>1. IsFlash(flash) /\ Recoverable(flash) /\ call = NULL
  BY StateRecoverable DEF ItsInv, ItsState, Prepare
<1>2. ValidOf(flash) # {}
  BY ValidIs DEF Prepare
<1>3. PICK c : Current(flash, c)
  BY <1>1, <1>2 DEF Recoverable
<1>4. RecoveredCtx = c
  BY <1>3, Recovers, RecoveredIs
<1>5. /\ ctx' = c /\ plan' = its_mblock_erase_scratch_blocks(c) /\ pc' = "idle"
      /\ UNCHANGED <<flash, call, off, reply>>
  BY <1>4 DEF Prepare
<1>6. IsCtx(c)
  BY <1>3 DEF Current, Sound
<1>7. Erasing(plan', flash, Spare(c))
  BY <1>5, <1>6, CoversScratch, CoversAll
<1>8. Clearing(plan', flash', ctx')
  BY <1>3, <1>5, <1>7 DEF Clearing
<1>9. ItsInv'
  BY <1>1, <1>5, <1>8 DEF ItsInv, ItsState
<1> QED
  BY <1>5, <1>9, StoreStutters

\* its_flash_fs_wipe_all()
LEMMA WipeStep ==
  ASSUME ItsInv, Wipe
  PROVE  ItsInv' /\ StoreStep
<1>1. IsFlash(flash) /\ call = NULL
  BY DEF ItsInv, ItsState, Wipe
<1>2. ValidOf(flash) = {} /\ plan' = its_flash_fs_mblock_reset_metablock /\ pc' = "wiped"
      /\ UNCHANGED <<flash, call, reply>>
  BY ValidIs DEF Wipe
<1>3. Wiping(plan', flash)
  BY <1>2, WipeStarts
<1>4. ItsInv'
  BY <1>1, <1>2, <1>3 DEF ItsInv, ItsState
<1> QED
  BY <1>2, <1>4, StoreStutters

\* What a step of the device does.
LEMMA StepIs ==
  ASSUME Step, IsSeq(plan)
  PROVE  /\ plan # <<>> /\ plan' = Tail(plan) /\ UNCHANGED <<pc, call, off, reply>>
         /\ flash' = Effect(flash, plan[1])
         /\ ctx' = IF plan[1].op = "ctx" THEN plan[1].val ELSE ctx
<1>1. plan # <<>> /\ Head(plan) = plan[1]
  BY TailIs DEF Step
<1>2. PICK s : s = plan[1]
  OBVIOUS
<1>3. \/ s.op = "write" /\ flash' = [flash EXCEPT ![s.blk][s.pos] = s.val] /\ ctx' = ctx
      \/ s.op = "erase" /\ flash' = [flash EXCEPT ![s.blk] = WithoutSector(@, s.pos)] /\ ctx' = ctx
      \/ s.op = "ctx" /\ ctx' = s.val /\ flash' = flash
  BY <1>1, <1>2 DEF Step
<1>4. flash' = Effect(flash, s) /\ ctx' = IF s.op = "ctx" THEN s.val ELSE ctx
  BY <1>3 DEF Effect
<1> QED
  BY <1>1, <1>2, <1>4 DEF Step

\* The minimum of the store specification is that of the model.
LEMMA StoreMin ==
  ASSUME NEW S
  PROVE  Store!Min(S) = Min(S)
BY DEF Store!Min, Min

\* The commit of a call is a step of the store.
LEMMA UpdateStep ==
  ASSUME Stores, call \in Store!SetJob \cup Store!RemoveJob, pc = "write" => call \in Store!SetJob,
         UNCHANGED <<call, reply>>,
         StoredOf(flash') = [StoredOf(flash) EXCEPT ![call.fid] = Result(pc, call, off)],
         LegalOld(pc, call, off, StoredOf(flash)[call.fid])
  PROVE  StoreStep
<1>1. Stored' = [Stored EXCEPT ![call.fid] = Result(pc, call, off)]
  BY DEF Stores
<1>2. LegalOld(pc, call, off, Stored[call.fid])
  BY DEF Stores
<1>3. call # NULL
  BY NullIs
<1>4. CASE pc # "write"
  <2>1. Stored[call.fid] # NULL /\ ~Stored[call.fid].once
    BY <1>2, <1>4 DEF LegalOld
  <2>2. Store!Delete
    BY <1>1, <1>3, <1>4, <2>1 DEF Store!Delete, Store!Update, Result
  <2> QED
    BY <2>2 DEF StoreStep, Store!StoreNext
<1>5. CASE pc = "write"
  <2>1. call.op = "set"
    BY <1>5, JobIs
  <2>2. Stored' = [Stored EXCEPT ![call.fid] = Store!Asset(call, off)]
    BY <1>1, <1>5 DEF Result
  <2>3. CASE Stored[call.fid] = NULL /\ off = Min({Buf, call.len})
    <3>1. off = Store!Min({Buf, call.len})
      BY <2>3, StoreMin
    <3>2. Store!Create
      BY <1>3, <2>1, <2>2, <2>3, <3>1 DEF Store!Create, Store!Update
    <3> QED
      BY <3>2 DEF StoreStep, Store!StoreNext
  <2>4. CASE \E n \in 0..(call.len - 1) : Stored[call.fid] = Store!Asset(call, n)
                                            /\ off = Min({n + Buf, call.len})
    <3>1. PICK n \in 0..(call.len - 1) : Stored[call.fid] = Store!Asset(call, n)
                                            /\ off = Min({n + Buf, call.len})
      BY <2>4
    <3>2. off = Store!Min({n + Buf, call.len})
      BY <3>1, StoreMin
    <3>3. Store!Append
      BY <1>3, <2>1, <2>2, <3>1, <3>2 DEF Store!Append, Store!Update
    <3> QED
      BY <3>3 DEF StoreStep, Store!StoreNext
  <2> QED
    BY <1>2, <1>5, <2>3, <2>4 DEF LegalOld
<1> QED
  BY <1>4, <1>5
\* Step: the device or the running context takes its next operation.  An item
\* that it programs is erased.
LEMMA StepStep ==
  ASSUME ItsInv, Step
  PROVE  ItsInv' /\ StoreStep
<1>1. IsFlash(flash) /\ plan # <<>>
  BY DEF ItsInv, ItsState, Step
<1>2. CASE pc = "wiped"
  <2>1. Wiping(plan, flash) /\ call = NULL
    BY <1>1, <1>2 DEF ItsInv, ItsState
  <2>2. PICK H : H = Effect(flash, plan[1])
    OBVIOUS
  <2>3. /\ IsSeq(plan) /\ IsFlash(H)
        /\ \/ plan[1].op \in {"write", "erase"} /\ Wiping(Tail(plan), H)
           \/ /\ plan[1] = SetCtx(FreshCtx) /\ H = flash /\ Tail(plan) = <<>>
              /\ Current(flash, FreshCtx)
    BY ONLY <1>1, <2>1, <2>2, WipingStep
  <2>4. plan' = Tail(plan) /\ UNCHANGED <<pc, call, off, reply>> /\ flash' = H
    BY <2>2, <2>3, StepIs
  <2>5. ItsInv'
    BY <1>2, <2>1, <2>3, <2>4 DEF ItsInv, ItsState
  <2>6. StoredOf(flash) = [f \in Fid |-> NULL]
    BY <2>1, WipingStored
  <2>7. StoredOf(H) = [f \in Fid |-> NULL]
    BY <2>3, <2>6, WipingStored
  <2> QED
    BY <2>4, <2>5, <2>6, <2>7, StoreStutters
<1>3. CASE pc = "idle"
  <2>1. Clearing(plan, flash, ctx) /\ call = NULL
    BY <1>3 DEF ItsInv, ItsState
  <2>2. PICK H : H = Effect(flash, plan[1])
    OBVIOUS
  <2>3. /\ plan[1].op = "erase" /\ IsFlash(H) /\ Clearing(Tail(plan), H, ctx)
        /\ AssetsOf(H, ctx) = AssetsOf(flash, ctx)
    BY ONLY <1>1, <2>1, <2>2, ClearingStep
  <2>4. IsSeq(plan)
    BY <2>1 DEF Clearing, Erasing, Erases
  <2>5. plan' = Tail(plan) /\ UNCHANGED <<pc, call, off, reply>> /\ flash' = H /\ ctx' = ctx
    BY <2>2, <2>3, <2>4, StepIs
  <2>6. ItsInv'
    BY <1>3, <2>1, <2>3, <2>5 DEF ItsInv, ItsState
  <2>7. StoredOf(H) = StoredOf(flash)
    BY <2>1, <2>3, Recovers DEF Clearing
  <2> QED
    BY <2>5, <2>6, <2>7, StoreStutters
<1>4. CASE pc \in {"create", "done", "write"}
  <2>1. /\ Serving(flash, ctx, plan, pc, call, off)
        /\ call \in Store!SetJob \cup Store!RemoveJob /\ (pc = "write" => call \in Store!SetJob)
    BY <1>4 DEF ItsInv, ItsState
  <2>2. call.fid \in Fid
    BY <2>1 DEF Store!SetJob, Store!RemoveJob
  <2>3. PICK H, c2 : /\ H = Effect(flash, plan[1])
                     /\ c2 = IF plan[1].op = "ctx" THEN plan[1].val ELSE ctx
    OBVIOUS
  <2>4. /\ IsSeq(plan) /\ IsFlash(H)
        /\ Serving(H, c2, Tail(plan), pc, call, off)
        /\ \/ StoredOf(H) = StoredOf(flash)
           \/ /\ StoredOf(H) = [StoredOf(flash) EXCEPT ![call.fid] = Result(pc, call, off)]
              /\ LegalOld(pc, call, off, StoredOf(flash)[call.fid])
    BY ONLY <1>1, <2>1, <2>2, <2>3, ServingStep
  <2>5. plan' = Tail(plan) /\ UNCHANGED <<pc, call, off, reply>> /\ flash' = H /\ ctx' = c2
    BY <2>3, <2>4, StepIs
  <2>6. Serving(flash', ctx', plan', pc', call', off') /\ IsFlash(flash')
    BY <2>4, <2>5
  <2>7. ItsInv'
    BY <1>4, <2>5, <2>6 DEF ItsInv, ItsState
  <2>8. CASE StoredOf(H) = StoredOf(flash)
    BY <2>5, <2>7, <2>8, StoreStutters
  <2>9. CASE /\ StoredOf(H) = [StoredOf(flash) EXCEPT ![call.fid] = Result(pc, call, off)]
             /\ LegalOld(pc, call, off, StoredOf(flash)[call.fid])
    <3>1. Stores
      BY <2>7, StoresAre
    <3> QED
      BY <2>1, <2>5, <2>7, <2>9, <3>1, UpdateStep
  <2> QED
    BY <2>4, <2>7, <2>8, <2>9
<1> QED
  BY <1>1, <1>2, <1>3, <1>4 DEF ItsInv, ItsState

\* The request manager takes a message.
LEMMA RequestStep ==
  ASSUME ItsInv, NEW j \in Store!SetJob \cup Store!RemoveJob, Request(j)
  PROVE  ItsInv' /\ StoreStep
<1>1. IsFlash(flash) /\ Clearing(plan, flash, ctx) /\ plan = <<>> /\ call = NULL
  BY DEF ItsInv, ItsState, Request
<1>2. call' = j /\ pc' = "open" /\ reply' = NULL /\ UNCHANGED <<flash, ctx, plan>>
  BY DEF Request
<1>3. ItsInv'
  BY <1>1, <1>2 DEF ItsInv, ItsState
<1>4. Stored' = Stored
  BY <1>2, <1>3, StoresAre DEF Stores
<1>5. Store!Begin
  BY <1>1, <1>2, <1>4 DEF Store!Begin
<1> QED
  BY <1>3, <1>5 DEF StoreStep, Store!StoreNext

\* A request returns between two calls of the file system.
LEMMA ReturnStep ==
  ASSUME ItsInv, NEW status \in Store!Status, ReturnWith(status), Clearing(plan, flash, ctx),
         call \in Store!SetJob \cup Store!RemoveJob,
         NEW a, a = AssetsOf(flash, ctx)[call.fid],
         \/ status = "PSA_SUCCESS" /\ call.op = "set" /\ a = Store!Asset(call, call.len)
         \/ status = "PSA_SUCCESS" /\ call.op = "remove" /\ a = NULL
         \/ status = "PSA_ERROR_NOT_PERMITTED" /\ a # NULL /\ a.once
         \/ status = "PSA_ERROR_DOES_NOT_EXIST" /\ call.op = "remove" /\ a = NULL
         \/ status \in {"PSA_ERROR_INVALID_ARGUMENT", "PSA_ERROR_INSUFFICIENT_STORAGE"}
              /\ call.op = "set" /\ a = NULL
  PROVE  ItsInv' /\ StoreStep
<1>1. IsFlash(flash) /\ call # NULL
  BY NullIs DEF ItsInv, ItsState
<1>2. pc' = "idle" /\ call' = NULL /\ reply' = status /\ UNCHANGED <<flash, ctx, plan>>
  BY DEF ReturnWith
<1>3. ItsInv'
  BY <1>1, <1>2 DEF ItsInv, ItsState
<1>4. Stored' = Stored /\ Stored = StoredOf(flash)
  BY <1>2, <1>3, StoresAre DEF Stores
<1>5. StoredOf(flash) = AssetsOf(flash, ctx)
  BY Recovers DEF Clearing
<1>6. Stored[call.fid] = a
  BY <1>4, <1>5
<1>7. Store!MayReply(status)
  BY <1>6 DEF Store!MayReply
<1>8. Store!Return(status)
  BY <1>1, <1>2, <1>4, <1>7 DEF Store!Return
<1> QED
  BY <1>3, <1>8 DEF StoreStep, Store!StoreNext

\* A request that is refused returns what its asset calls for.
LEMMA RefuseStep ==
  ASSUME ItsInv, Refuse
  PROVE  ItsInv' /\ StoreStep
<1>1. Clearing(plan, flash, ctx) /\ call \in Store!SetJob \cup Store!RemoveJob
  BY DEF ItsInv, ItsState, Refuse
<1>2. call.fid \in Fid
  BY <1>1 DEF Store!SetJob, Store!RemoveJob
<1>3. PICK a : a = AssetsOf(flash, ctx)[call.fid]
  OBVIOUS
<1>4. /\ IdxOf(ctx, call.fid) = {} <=> a = NULL
      /\ IdxOf(ctx, call.fid) # {} =>
           (a.once <=> \E i \in IdxOf(ctx, call.fid) : FileMeta(ctx, i).once)
  BY <1>1, <1>2, <1>3, FileThere DEF Clearing
<1>5. CASE call.op = "remove" /\ ~Exists /\ ReturnWith("PSA_ERROR_DOES_NOT_EXIST")
  <2>1. a = NULL /\ "PSA_ERROR_DOES_NOT_EXIST" \in Store!Status
    BY <1>4, <1>5 DEF Exists, Store!Status
  <2> QED
    BY <1>1, <1>3, <1>5, <2>1, ReturnStep
<1>6. CASE Exists /\ WriteOnce /\ ReturnWith("PSA_ERROR_NOT_PERMITTED")
  <2>1. a # NULL /\ a.once /\ "PSA_ERROR_NOT_PERMITTED" \in Store!Status
    BY <1>4, <1>6 DEF Exists, WriteOnce, Store!Status
  <2> QED
    BY <1>1, <1>3, <1>6, <2>1, ReturnStep
<1> QED
  BY <1>5, <1>6 DEF Refuse

\* A call of the file system starts: nothing that a reset would find changes.
LEMMA CallStarts ==
  ASSUME ItsInv, Current(flash, ctx), UNCHANGED <<flash, ctx, call, reply>>,
         pc' \in {"create", "done", "write"},
         pc' = "done" => call \in Store!RemoveJob,
         pc' # "done" => call \in Store!SetJob,
         pc' = "write" => off' \in Nat /\ off' <= call.len,
         LegalOld(pc', call, off', AssetsOf(flash, ctx)[call.fid]),
         NEW d, NEW G, NEW D, Writing(plan', flash, ctx, d, G, D),
         AssetsOf(G, d) = [AssetsOf(flash, ctx) EXCEPT ![call.fid] = Result(pc', call, off')]
  PROVE  ItsInv' /\ StoreStep
<1>1. Pending(flash, ctx, plan', pc', call, off')
  BY DEF Pending
<1>2. Serving(flash', ctx', plan', pc', call', off')
  BY <1>1 DEF Serving
<1>3. IsFlash(flash') /\ call' = call
  BY DEF ItsInv, ItsState
<1>4. ItsInv'
  BY <1>2, <1>3 DEF ItsInv, ItsState
<1> QED
  BY <1>4, StoreStutters

\* its_flash_fs_file_delete() in a set or a remove request.
LEMMA DeleteOldStep ==
  ASSUME ItsInv, DeleteOld
  PROVE  ItsInv' /\ StoreStep
<1>1. /\ IsFlash(flash) /\ Clearing(plan, flash, ctx) /\ plan = <<>>
      /\ call \in Store!SetJob \cup Store!RemoveJob
  BY DEF ItsInv, ItsState, DeleteOld
<1>2. /\ call.fid \in Fid /\ call.op \in {"set", "remove"}
      /\ call.op = "set" => call \in Store!SetJob
      /\ call.op # "set" => call \in Store!RemoveJob
  BY <1>1 DEF Store!SetJob, Store!RemoveJob
<1>3. Current(flash, ctx) /\ \A x \in Spare(ctx) : flash[x] = Blank
  BY <1>1, Quiet
<1>4. PICK a, P, f : /\ a = AssetsOf(flash, ctx)[call.fid] /\ f = call.fid
                     /\ P = its_flash_fs_file_delete(ctx, f)
  OBVIOUS
<1>5. a # NULL /\ ~a.once /\ IdxOf(ctx, f) # {}
  BY <1>2, <1>3, <1>4, FileThere DEF DeleteOld, Exists, WriteOnce
<1>6. NULL \notin AssetType /\ f \in Fid
  BY <1>2, <1>4, NullIs
<1>7. PICK d, G, D : /\ Writing(P, flash, ctx, d, G, D)
                     /\ AssetsOf(G, d) = [AssetsOf(flash, ctx) EXCEPT ![f] = NULL]
  BY ONLY <1>1, <1>3, <1>4, <1>5, <1>6, DeleteStarts
<1>8. /\ plan' = P /\ UNCHANGED <<flash, ctx, call, off, reply>>
      /\ pc' = IF call.op = "set" THEN "create" ELSE "done"
  BY <1>4 DEF DeleteOld
<1>9. Result(pc', call, off') = NULL /\ LegalOld(pc', call, off', a)
  BY <1>5, <1>8 DEF Result, LegalOld
<1> QED
  BY <1>2, <1>3, <1>4, <1>7, <1>8, <1>9, CallStarts
\* tfm_its_set() creates the file, unless it is too large or there is no room.
LEMMA CreateFileStep ==
  ASSUME ItsInv, CreateFile, 0 \notin Lens
  PROVE  ItsInv' /\ StoreStep
<1>1. IsFlash(flash) /\ plan = <<>>
  BY DEF ItsInv, ItsState, CreateFile
<1>2. PICK a : a = AssetsOf(flash, ctx)[call.fid]
  OBVIOUS
<1>3. Clearing(plan, flash, ctx) /\ call \in Store!SetJob /\ IdxOf(ctx, call.fid) = {} /\ a = NULL
  <2>1. CASE pc = "create"
    <3>1. Serving(flash, ctx, plan, pc, call, off) /\ call \in Store!SetJob
      BY <2>1 DEF ItsInv, ItsState
    <3>2. Settled(flash, ctx, plan, pc, call, off)
      BY ONLY <1>1, <3>1, ServingQuiet
    <3>3. Clearing(plan, flash, ctx) /\ a = NULL
      BY <1>2, <2>1, <3>2 DEF Settled, Result
    <3> QED
      BY <1>2, <3>1, <3>3, FileThere, JobIs DEF Clearing
  <2>2. CASE pc = "open" /\ call.op = "set" /\ ~Exists
    <3>1. Clearing(plan, flash, ctx) /\ call \in Store!SetJob
      BY <2>2 DEF ItsInv, ItsState, Store!RemoveJob
    <3> QED
      BY <1>2, <2>2, <3>1, FileThere, JobIs DEF Clearing, Exists
  <2> QED
    BY <2>1, <2>2 DEF CreateFile
<1>4. Current(flash, ctx) /\ \A x \in Spare(ctx) : flash[x] = Blank
  BY <1>1, <1>3, Quiet
<1>5. call.op = "set" /\ call.fid \in Fid /\ call.len \in Lens /\ call.len \in Nat
  BY <1>3, JobIs
<1>6. ASSUME NEW r \in {"PSA_ERROR_INVALID_ARGUMENT", "PSA_ERROR_INSUFFICIENT_STORAGE"},
             ReturnWith(r)
      PROVE  ItsInv' /\ StoreStep
  <2>1. r \in Store!Status
    BY <1>6 DEF Store!Status
  <2> QED
    BY <1>2, <1>3, <1>5, <1>6, <2>1, ReturnStep
<1>7. CASE /\ Fitting(ctx, call.len) # {} /\ IdxOf(ctx, NULL) # {} /\ pc' = "write"
           /\ plan' = its_flash_fs_file_create(ctx, call.fid, call.len, call.once,
                                               its_req_mngr_read(0, Min({call.len, Buf})))
           /\ off' = Min({call.len, Buf}) /\ UNCHANGED <<flash, ctx, call, reply>>
  <2>1. PICK n, data : n = Min({call.len, Buf}) /\ data = its_req_mngr_read(0, n)
    OBVIOUS
  <2>2. n \in Nat /\ n > 0 /\ n <= call.len /\ n = Min({Buf, call.len})
    <3>1. call.len > 0
      BY <1>5
    <3>2. CASE call.len <= Buf
      <4>1. n = call.len /\ n = Min({Buf, call.len})
        BY <1>5, <2>1, <3>2, Constants, MinMax
      <4> QED
        BY <1>5, <3>1, <4>1
    <3>3. CASE Buf <= call.len
      <4>1. n = Buf /\ n = Min({Buf, call.len})
        BY <1>5, <2>1, <3>3, Constants, MinMax
      <4> QED
        BY <3>3, <4>1, Constants
    <3> QED
      BY <1>5, <3>2, <3>3, Constants
  <2>3. data = Piece(call, 0, n)
    BY <2>1 DEF Piece, its_req_mngr_read
  <2>4. PICK P, j : /\ P = its_flash_fs_file_create(ctx, j.fid, j.len, j.once, data)
                    /\ j = call
    OBVIOUS
  <2>5. PICK d, G, D :
          /\ Writing(P, flash, ctx, d, G, D)
          /\ AssetsOf(G, d) = [AssetsOf(flash, ctx) EXCEPT ![j.fid] = Store!Asset(j, 0 + n)]
    <3>1. /\ j \in Store!SetJob /\ n <= j.len /\ IdxOf(ctx, j.fid) = {}
          /\ Fitting(ctx, j.len) # {} /\ IdxOf(ctx, NULL) # {} /\ data = Piece(j, 0, n)
      BY <1>3, <1>7, <2>2, <2>3, <2>4
    <3> QED
      BY ONLY <1>1, <1>4, <2>2, <2>4, <3>1, CreateStarts, SMTT(40)
  <2>6. 0 + n = n
    BY <2>2
  <2>7. plan' = P /\ off' = n
    BY <1>7, <2>1, <2>4
  <2>8. Result(pc', call, off') = Store!Asset(call, n) /\ LegalOld(pc', call, off', a)
    BY <1>3, <1>7, <2>2, <2>7 DEF Result, LegalOld
  <2>9. AssetsOf(G, d) = [AssetsOf(flash, ctx) EXCEPT ![call.fid] = Result(pc', call, off')]
    BY ONLY <2>4, <2>5, <2>6, <2>8
  <2> QED
    BY <1>2, <1>3, <1>4, <1>7, <2>2, <2>5, <2>7, <2>8, <2>9, CallStarts
<1> QED
  BY <1>6, <1>7 DEF CreateFile

\* The next piece of the data.
LEMMA WriteChunkStep ==
  ASSUME ItsInv, WriteChunk
  PROVE  ItsInv' /\ StoreStep
<1>1. IsFlash(flash) /\ plan = <<>> /\ pc = "write" /\ off < call.len
  BY DEF ItsInv, ItsState, WriteChunk
<1>2. Serving(flash, ctx, plan, pc, call, off) /\ call \in Store!SetJob /\ off \in Nat
  BY <1>1 DEF ItsInv, ItsState
<1>3. Settled(flash, ctx, plan, pc, call, off)
  BY ONLY <1>1, <1>2, ServingQuiet
<1>4. Clearing(plan, flash, ctx) /\ AssetsOf(flash, ctx)[call.fid] = Store!Asset(call, off)
  BY <1>1, <1>3 DEF Settled, Result
<1>5. Current(flash, ctx) /\ \A x \in Spare(ctx) : flash[x] = Blank
  BY <1>1, <1>4, Quiet
<1>6. call.fid \in Fid /\ call.len \in Nat
  BY <1>2, JobIs
<1>7. PICK j, o, n, data, P :
        /\ j = call /\ o = off /\ n = Min({call.len - off, Buf})
        /\ data = its_req_mngr_read(o, n)
        /\ P = its_flash_fs_file_write(ctx, j.fid, o, data)
  OBVIOUS
<1>8. n \in Nat /\ o \in Nat /\ o + n <= j.len /\ o + n = Min({o + Buf, j.len}) /\ o \in 0..(j.len - 1)
  <2>1. PICK len : len = j.len
    OBVIOUS
  <2>2. len \in Nat /\ o \in Nat /\ o < len /\ Buf \in Nat /\ n = Min({len - o, Buf})
    BY <1>1, <1>2, <1>6, <1>7, <2>1, Constants
  <2>3. CASE len - o <= Buf
    <3>1. n = len - o
      BY ONLY <2>2, <2>3, MinMax
    <3>2. Min({o + Buf, len}) = len
      BY ONLY <2>2, <2>3, MinMax
    <3>3. n \in Nat /\ o + n = len /\ o \in 0..(len - 1)
      BY ONLY <2>2, <3>1
    <3> QED
      BY ONLY <2>1, <2>2, <3>2, <3>3
  <2>4. CASE Buf <= len - o
    <3>1. n = Buf
      BY ONLY <2>2, <2>4, MinMax
    <3>2. Min({o + Buf, len}) = o + Buf
      BY ONLY <2>2, <2>4, MinMax
    <3> QED
      BY <2>1, <2>2, <2>4, <3>1, <3>2
  <2> QED
    BY <2>2, <2>3, <2>4
<1>9. data = Piece(j, o, n)
  BY <1>7 DEF Piece, its_req_mngr_read
<1>10. /\ NULL \notin AssetType /\ Store!Asset(j, o) \in AssetType
       /\ AssetsOf(flash, ctx)[j.fid] = Store!Asset(j, o) /\ j \in Store!SetJob
  BY <1>2, <1>4, <1>7, NullIs, AssetIs
<1>11. PICK d, G, D :
         /\ Writing(P, flash, ctx, d, G, D)
         /\ AssetsOf(G, d) = [AssetsOf(flash, ctx) EXCEPT ![j.fid] = Store!Asset(j, o + n)]
  BY ONLY <1>1, <1>5, <1>7, <1>8, <1>9, <1>10, WriteStarts
<1>12. plan' = P /\ off' = o + n /\ UNCHANGED <<flash, ctx, pc, call, reply>>
  BY <1>7 DEF WriteChunk
<1>13. Result(pc', call, off') = Store!Asset(j, o + n)
  BY <1>1, <1>7, <1>12 DEF Result
<1>14. LegalOld(pc', call, off', AssetsOf(flash, ctx)[call.fid])
  BY <1>1, <1>7, <1>8, <1>10, <1>12 DEF LegalOld
<1>15. off' \in Nat /\ off' <= call.len
  BY <1>7, <1>8, <1>12
<1>16. AssetsOf(G, d) = [AssetsOf(flash, ctx) EXCEPT ![call.fid] = Result(pc', call, off')]
  BY ONLY <1>7, <1>11, <1>13
<1> QED
  BY <1>1, <1>2, <1>5, <1>11, <1>12, <1>14, <1>15, <1>16, CallStarts

\* A request reports success when it has been carried out.
LEMMA FinishStep ==
  ASSUME ItsInv, Finish
  PROVE  ItsInv' /\ StoreStep
<1>1. IsFlash(flash) /\ plan = <<>> /\ ReturnWith("PSA_SUCCESS")
  BY DEF ItsInv, ItsState, Finish
<1>2. "PSA_SUCCESS" \in Store!Status
  BY DEF Store!Status
<1>3. CASE pc = "done"
  <2>1. Serving(flash, ctx, plan, pc, call, off) /\ call \in Store!RemoveJob
    BY <1>3 DEF ItsInv, ItsState
  <2>2. Settled(flash, ctx, plan, pc, call, off)
    BY ONLY <1>1, <2>1, ServingQuiet
  <2>3. Clearing(plan, flash, ctx) /\ AssetsOf(flash, ctx)[call.fid] = NULL
    BY <1>3, <2>2 DEF Settled, Result
  <2>4. call.op = "remove"
    BY <2>1 DEF Store!RemoveJob
  <2> QED
    BY <1>1, <1>2, <2>1, <2>3, <2>4, ReturnStep
<1>4. CASE pc = "write" /\ off = call.len
  <2>1. Serving(flash, ctx, plan, pc, call, off) /\ call \in Store!SetJob
    BY <1>4 DEF ItsInv, ItsState
  <2>2. Settled(flash, ctx, plan, pc, call, off)
    BY ONLY <1>1, <2>1, ServingQuiet
  <2>3. Clearing(plan, flash, ctx) /\ AssetsOf(flash, ctx)[call.fid] = Store!Asset(call, call.len)
    BY <1>4, <2>2 DEF Settled, Result
  <2>4. call.op = "set"
    BY <2>1, JobIs
  <2> QED
    BY <1>1, <1>2, <2>1, <2>3, <2>4, ReturnStep
<1> QED
  BY <1>3, <1>4 DEF Finish

\* Power may fail at any moment.
LEMMA PowerFailStep ==
  ASSUME ItsInv, PowerFail
  PROVE  ItsInv' /\ StoreStep
<1>1. IsFlash(flash) /\ Recoverable(flash)
  BY StateRecoverable DEF ItsInv, ItsState
<1>2. pc' = "off" /\ plan' = <<>> /\ call' = NULL /\ reply' = NULL /\ flash' = flash
  BY DEF PowerFail
<1>3. ItsInv'
  BY <1>1, <1>2 DEF ItsInv, ItsState
<1>4. Stored' = Stored
  BY <1>2, <1>3, StoresAre DEF Stores
<1>5. Store!PowerLoss
  BY <1>2, <1>4 DEF Store!PowerLoss
<1> QED
  BY <1>3, <1>5 DEF StoreStep, Store!StoreNext
-----------------------------------------------------------------------------
\* The invariant holds at first, when the flash is erased.
LEMMA ItsInitInv == ItsInit => ItsInv /\ Store!StoreInit
<1> SUFFICES ASSUME ItsInit
             PROVE  ItsInv /\ Store!StoreInit
  OBVIOUS
<1>1. flash = [b \in Block |-> Blank] /\ plan = <<>> /\ pc = "off" /\ call = NULL /\ reply = NULL
  BY DEF ItsInit
<1>2. flash \in [Block -> [Pos -> {ERASED}]]
  BY <1>1 DEF Blank
<1>3. IsFlash(flash)
  BY <1>2 DEF IsFlash
<1>4. \A b \in MetaBlock : flash[b][HEADER] = ERASED
  BY <1>2, Blocks, Places
<1>5. ValidOf(flash) = {}
  BY <1>4 DEF ValidOf
<1>6. ItsInv
  BY <1>1, <1>3, <1>5 DEF ItsInv, ItsState, Recoverable
<1>7. Stored = [f \in Fid |-> NULL]
  BY <1>5, ValidIs DEF Stored
<1> QED
  BY <1>1, <1>6, <1>7 DEF Store!StoreInit

\* Every action keeps it, and is a step of the store or none.
LEMMA ItsNextInv ==
  ASSUME 0 \notin Lens
  PROVE  ItsInv /\ [ItsNext]_itsVars => ItsInv' /\ StoreStep
<1> SUFFICES ASSUME ItsInv, [ItsNext]_itsVars
             PROVE  ItsInv' /\ StoreStep
  OBVIOUS
<1>1. CASE Prepare
  BY <1>1, PrepareStep
<1>2. CASE Wipe
  BY <1>2, WipeStep
<1>3. CASE Step
  BY <1>3, StepStep
<1>4. ASSUME NEW j \in Store!SetJob \cup Store!RemoveJob, Request(j)
      PROVE  ItsInv' /\ StoreStep
  BY <1>4, RequestStep
<1>5. CASE Refuse
  BY <1>5, RefuseStep
<1>6. CASE DeleteOld
  BY <1>6, DeleteOldStep
<1>7. CASE CreateFile
  BY <1>7, CreateFileStep
<1>8. CASE WriteChunk
  BY <1>8, WriteChunkStep
<1>9. CASE Finish
  BY <1>9, FinishStep
<1>10. CASE PowerFail
  BY <1>10, PowerFailStep
<1>11. CASE UNCHANGED itsVars
  <2>1. UNCHANGED <<flash, ctx, plan, pc, call, off, reply>>
    BY <1>11 DEF itsVars
  <2>2. ItsInv'
    BY <2>1 DEF ItsInv
  <2> QED
    BY <2>1, <2>2, StoreStutters
<1> QED
  BY <1>1, <1>2, <1>3, <1>4, <1>5, <1>6, <1>7, <1>8, <1>9, <1>10, <1>11 DEF ItsNext

\* The invariant of the file system.
THEOREM ItsInvariant ==
  ASSUME 0 \notin Lens
  PROVE  ItsSpec => []ItsInv
<1>1. ItsInit => ItsInv
  BY ItsInitInv
<1>2. ItsInv /\ [ItsNext]_itsVars => ItsInv'
  BY ItsNextInv
<1> QED
  BY <1>1, <1>2, PTL DEF ItsSpec

\* No step programs an item of the flash that is not erased.
THEOREM ItsProgramsErased ==
  ASSUME 0 \notin Lens
  PROVE  ItsSpec => []ProgramsErased
<1>1. ItsInv => ProgramsErased
  <2> SUFFICES ASSUME ItsInv, plan # <<>>
               PROVE  IsSeq(plan) /\ (plan[1].op = "write" => flash[plan[1].blk][plan[1].pos] = ERASED)
    BY TailIs DEF ProgramsErased, Item
  <2>1. IsFlash(flash)
    BY DEF ItsInv, ItsState
  <2>2. PICK H, c2 : /\ H = Effect(flash, plan[1])
                     /\ c2 = IF plan[1].op = "ctx" THEN plan[1].val ELSE ctx
    OBVIOUS
  <2>3. CASE Wiping(plan, flash)
    BY ONLY <2>1, <2>2, <2>3, WipingStep
  <2>4. CASE Clearing(plan, flash, ctx)
    <3>1. plan[1].op = "erase"
      BY ONLY <2>1, <2>2, <2>4, plan # <<>>, ClearingStep
    <3>2. IsSeq(plan)
      BY <2>4 DEF Clearing, Erasing, Erases
    <3> QED
      BY <3>1, <3>2
  <2>5. CASE pc \in {"create", "done", "write"}
    <3>1. /\ Serving(flash, ctx, plan, pc, call, off)
          /\ call \in Store!SetJob \cup Store!RemoveJob
      BY <2>5 DEF ItsInv, ItsState
    <3>2. call.fid \in Fid
      BY <3>1 DEF Store!SetJob, Store!RemoveJob
    <3> QED
      BY ONLY <2>1, <2>2, <3>1, <3>2, plan # <<>>, ServingStep
  <2> QED
    BY <2>3, <2>4, <2>5 DEF ItsInv, ItsState
<1> QED
  BY <1>1, ItsInvariant, PTL

\* Between requests the context in RAM is what a reset would recover, and the
\* scratch blocks are erased.
THEOREM ItsIdleClean ==
  ASSUME 0 \notin Lens
  PROVE  ItsSpec => []IdleClean
<1>1. ItsInv => IdleClean
  <2> SUFFICES ASSUME ItsInv, pc = "idle", plan = <<>>
               PROVE  /\ ctx = RecoveredCtx /\ flash[ctx.scratch] = Blank
                      /\ NumBlocks > 2 => flash[ctx.dblock] = Blank
    BY DEF IdleClean
  <2>1. IsFlash(flash) /\ Clearing(plan, flash, ctx)
    BY DEF ItsInv, ItsState
  <2>2. Current(flash, ctx) /\ IsCtx(ctx) /\ \A x \in Spare(ctx) : flash[x] = Blank
    BY <2>1, Quiet
  <2>3. ctx = RecoveredCtx
    BY <2>2, Recovers, RecoveredIs
  <2> QED
    BY <2>2, <2>3, SpareBlocks
<1> QED
  BY <1>1, ItsInvariant, PTL
\* The layout of a current context is sound.
LEMMA LayoutIs ==
  ASSUME NEW c, Current(flash, c)
  PROVE  BlocksSound(c) /\ FilesSound(c)
<1>1. PICK B, M : B = BlocksOf(flash, c) /\ M = FilesOf(flash, c)
  OBVIOUS
<1>2. IsCtx(c) /\ Tables(B, M) /\ Placed(c, B, M) /\ Packed(B, M)
  BY <1>1 DEF Current, Sound, Layout
<1>3. /\ \A l \in LBlock : BlockMeta(c, l) = B[l]
      /\ \A i \in FileIdx : FileMeta(c, i) = M[i]
  BY <1>1, MetaOf
<1>4. UsedFiles(c) = Used(M)
  BY <1>3 DEF UsedFiles, Used
<1>5. \A i \in Used(M) : i \in FileIdx /\ FileMeta(c, i) = M[i]
  BY <1>3 DEF Used
<1>6. \A l : FilesIn(c, l) = In(M, l)
  BY <1>4, <1>5 DEF FilesIn, In
<1>7. ASSUME NEW i \in Used(M)
      PROVE  FilesBefore(c, i) = Before(M, i)
  <2>1. FileMeta(c, i) = M[i] /\ FilesIn(c, M[i].lblock) = In(M, M[i].lblock)
    BY <1>5, <1>6
  <2>2. \A j \in In(M, M[i].lblock) : FileMeta(c, j) = M[j]
    BY <1>5 DEF In
  <2> QED
    BY <2>1, <2>2 DEF FilesBefore, Before
<1>8. \A S : Room(c, S) = Taken(M, S)
  <2>1. [j \in FileIdx |-> FileMeta(c, j).max_size] = [j \in FileIdx |-> M[j].max_size]
    BY <1>3
  <2> QED
    BY <2>1 DEF Room, Taken
<1>9. \A l \in LBlock : B[l].data_start = DataFrom(l)
  BY <1>2 DEF Placed
<1>10. /\ \A l \in LBlock : DataFrom(l) + Taken(M, In(M, l)) + B[l].free_size = BlockSize
       /\ \A i \in Used(M) :
            /\ M[i].cur_size <= M[i].max_size
            /\ M[i].data_idx = DataFrom(M[i].lblock) + Taken(M, Before(M, i))
            /\ \A j \in Used(M) \ {i} :
                 /\ M[j].id # M[i].id
                 /\ M[j].lblock = M[i].lblock => M[j].data_idx # M[i].data_idx
  BY <1>2 DEF Packed
<1>11. BlocksSound(c)
  <2>1. /\ c.active \in {0, 1} /\ c.scratch \in {0, 1} /\ c.active # c.scratch
        /\ NumBlocks > 2 => c.dblock \notin {0, 1}
    BY <1>2, SpareBlocks
  <2>2. \A l \in LBlock \ {0} :
          /\ B[l].phy_id \in 2..(NumBlocks - 1) /\ B[l].phy_id # c.dblock
          /\ B[l].phy_id \notin {0, 1}
          /\ \A m \in LBlock \ {0, l} : B[m].phy_id # B[l].phy_id
    BY <1>2, Constants DEF Placed
  <2>3. \A l \in LBlock : Phys(c, l) = IF l = 0 THEN c.active ELSE B[l].phy_id
    BY <1>3 DEF Phys
  <2>4. In(M, 0) # {} => B[0].phy_id = c.active
    BY <1>2 DEF Placed
  <2>5. ASSUME NEW l \in LBlock
        PROVE  /\ \A m \in LBlock \ {l} : Phys(c, l) # Phys(c, m)
               /\ NumBlocks > 2 => Phys(c, l) # c.dblock
               /\ Phys(c, l) # c.scratch
    BY <2>1, <2>2, <2>3
  <2>6. ASSUME NEW l \in LBlock
        PROVE  FilesIn(c, l) # {} => BlockMeta(c, l).phy_id = Phys(c, l)
    BY <1>3, <1>6, <2>3, <2>4
  <2>7. ASSUME NEW l \in LBlock
        PROVE  BlockMeta(c, l).data_start + Room(c, FilesIn(c, l)) + BlockMeta(c, l).free_size
                 = BlockSize
    <3>1. /\ BlockMeta(c, l) = B[l] /\ FilesIn(c, l) = In(M, l)
          /\ Room(c, In(M, l)) = Taken(M, In(M, l)) /\ B[l].data_start = DataFrom(l)
      BY <1>3, <1>6, <1>8, <1>9
    <3>2. DataFrom(l) + Taken(M, In(M, l)) + B[l].free_size = BlockSize
      BY <1>10
    <3> QED
      BY ONLY <3>1, <3>2
  <2> QED
    BY ONLY <2>5, <2>6, <2>7 DEF BlocksSound
<1>12. FilesSound(c)
  <2>1. ASSUME NEW i \in Used(M)
        PROVE  /\ FileMeta(c, i) = M[i] /\ M[i].lblock \in LBlock
               /\ M[i].data_idx \in Nat /\ M[i].max_size \in Nat
    BY <1>2, <1>5, Extent DEF FileMetas
  <2>2. ASSUME NEW i \in Used(M)
        PROVE  M[i].data_idx = BlockMeta(c, M[i].lblock).data_start + Room(c, FilesBefore(c, i))
    <3>1. M[i].data_idx = DataFrom(M[i].lblock) + Taken(M, Before(M, i))
      BY <1>10
    <3>2. /\ FilesBefore(c, i) = Before(M, i) /\ Room(c, Before(M, i)) = Taken(M, Before(M, i))
          /\ BlockMeta(c, M[i].lblock).data_start = DataFrom(M[i].lblock)
      BY <1>3, <1>7, <1>8, <1>9, <2>1
    <3> QED
      BY ONLY <3>1, <3>2
  <2>3. ASSUME NEW i \in Used(M), NEW j \in Used(M) \ {i}, M[j].lblock = M[i].lblock
        PROVE  \/ M[j].data_idx + M[j].max_size <= M[i].data_idx
               \/ M[i].data_idx + M[i].max_size <= M[j].data_idx
    <3>1. M[j].data_idx # M[i].data_idx
      BY <1>10, <2>3
    <3>2. CASE M[j].data_idx < M[i].data_idx
      BY <1>2, <2>3, <3>2, Apart
    <3>3. CASE M[i].data_idx < M[j].data_idx
      BY <1>2, <2>3, <3>3, Apart
    <3> QED
      BY <2>1, <3>1, <3>2, <3>3
  <2>4. ASSUME NEW i \in Used(M), NEW j \in Used(M) \ {i}
        PROVE  M[j].id # M[i].id
    BY <1>10
  <2>5. \A i \in Used(M) : M[i].cur_size <= M[i].max_size
    BY <1>10
  <2> QED
    BY ONLY <1>4, <1>5, <2>2, <2>3, <2>4, <2>5 DEF FilesSound
<1> QED
  BY <1>11, <1>12

\* At every moment the metadata that a reset would recover describes a sound
\* layout.
THEOREM ItsLayoutSound ==
  ASSUME 0 \notin Lens
  PROVE  ItsSpec => []LayoutSound
<1>1. ItsInv => LayoutSound
  <2> SUFFICES ASSUME ItsInv, ValidMeta # {}
               PROVE  BlocksSound(RecoveredCtx) /\ FilesSound(RecoveredCtx)
    BY DEF LayoutSound
  <2>1. PICK c : Current(flash, c)
    BY StateRecoverable, ValidIs DEF ItsInv, Recoverable
  <2>2. RecoveredCtx = c
    BY <2>1, Recovers, RecoveredIs
  <2> QED
    BY <2>1, <2>2, LayoutIs
<1> QED
  BY <1>1, ItsInvariant, PTL

\* The flash file system implements the abstract store, whatever power failures
\* interrupt it.
THEOREM ItsStoreRefined ==
  ASSUME 0 \notin Lens
  PROVE  ItsSpec => StoreRefined
<1>1. ItsInit => ItsInv /\ Store!StoreInit
  BY ItsInitInv
<1>2. ItsInv /\ [ItsNext]_itsVars => ItsInv' /\ [Store!StoreNext]_(Store!storeVars)
  BY ItsNextInv DEF StoreStep
<1> QED
  BY <1>1, <1>2, PTL DEF ItsSpec, StoreRefined, Store!StoreSpec

\* No request changes an asset that it does not name.
THEOREM ItsOthersKept ==
  ASSUME 0 \notin Lens
  PROVE  ItsSpec => OthersKept
<1>1. ItsInit => ItsInv
  BY ItsInitInv
<1>2. ItsInv /\ [ItsNext]_itsVars
        => ItsInv' /\ [\A f \in Fid : Stored'[f] # Stored[f] => call # NULL /\ call.fid = f]_itsVars
  <2> SUFFICES ASSUME ItsInv, [ItsNext]_itsVars
               PROVE  ItsInv' /\ \A f \in Fid : Stored'[f] # Stored[f] => call # NULL /\ call.fid = f
    OBVIOUS
  <2>1. ItsInv' /\ StoreStep
    BY ItsNextInv
  <2>2. Stored' = Stored
          \/ (call # NULL /\ \E new : Stored' = [Stored EXCEPT ![call.fid] = new])
    BY <2>1 DEF StoreStep, Store!StoreNext, Store!storeVars, Store!Begin, Store!PowerLoss,
       Store!Delete, Store!Create, Store!Append, Store!Return, Store!Update
  <2>3. Stored = StoredOf(flash)
    BY <2>1, StoresAre DEF Stores
  <2>4. DOMAIN Stored = Fid /\ Stored = [f \in Fid |-> Stored[f]]
    BY <2>3 DEF StoredOf, AssetsOf, AssetsIn
  <2>5. ASSUME NEW f \in Fid, Stored'[f] # Stored[f]
        PROVE  call # NULL /\ call.fid = f
    BY <2>2, <2>4, <2>5
  <2> QED
    BY <2>1, <2>5
<1> QED
  BY <1>1, <1>2, PTL DEF ItsSpec, OthersKept
=============================================================================
