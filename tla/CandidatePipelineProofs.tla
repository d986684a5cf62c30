---------------------- MODULE CandidatePipelineProofs ----------------------
(***************************************************************************)
(* The candidate pipeline, for any number of sources, builders, attempts,  *)
(* content tokens, ledger rows and bytes.                                  *)
(*                                                                         *)
(* A supervisor is a record that four operations change, so the proofs go  *)
(* from the rows of its ledger to the record and from there to the state.  *)
(* What the builders share is the root, the capacity and the content       *)
(* tokens; these are followed through the steps one by one.                *)
(***************************************************************************)
EXTENDS CandidatePipeline, FiniteSetTheorems, TLAPS

-----------------------------------------------------------------------------
(* Attempts in mint order.                                                 *)

\* A set of naturals that is not empty has a least element.
LEMMA Least ==
    ASSUME NEW S, S \subseteq Nat, S # {}
    PROVE  \E x \in S : \A y \in S : x <= y
  <1>1. PICK x \in S : \A y \in S : ~(<<y, x>> \in OpToRel(<, Nat))
    BY Zenon, NatLessThanWellFounded, WFMin
  <1>2. ASSUME NEW y \in S, y < x
        PROVE  <<y, x>> \in OpToRel(<, Nat)
    <2>1. <<y, x>> \in Nat \X Nat /\ <<y, x>>[1] = y /\ <<y, x>>[2] = x
      BY Zenon
    <2> QED
      BY Zenon, <1>2, <2>1 DEF OpToRel
  <1>3. \A y \in S : ~(y < x)
    BY Zenon, <1>1, <1>2
  <1> QED
    BY <1>3

\* The elements of S below i.
Below(S, i) == {j \in S : j < i}

\* The attempt after i in S has one more attempt below it.
LEMMA NextRank ==
    ASSUME NEW S, S \subseteq Nat, IsFiniteSet(S), NEW i \in S,
           Cardinality(Below(S, i)) + 1 < Cardinality(S)
    PROVE  \E k \in S : Cardinality(Below(S, k)) = Cardinality(Below(S, i)) + 1
  <1> DEFINE B == Below(S, i)
  <1>1. B \in SUBSET S /\ i \notin B
    BY DEF Below
  <1>2. IsFiniteSet(B) /\ Cardinality(B) \in Nat
    BY Zenon, <1>1, FS_Subset, FS_CardinalityType
  <1>3. IsFiniteSet(B \cup {i}) /\ Cardinality(B \cup {i}) = Cardinality(B) + 1
    BY Zenon, <1>1, <1>2, FS_AddElement
  <1>4. S # B \cup {i}
    BY <1>2, <1>3
  <1>5. S \ (B \cup {i}) # {} /\ S \ (B \cup {i}) \subseteq Nat
    BY Zenon, <1>1, <1>4
  <1>6. PICK k \in S \ (B \cup {i}) : \A y \in S \ (B \cup {i}) : k <= y
    BY Zenon, <1>5, Least
  <1>7. Below(S, k) = B \cup {i}
    <2>1. i < k
      BY <1>6 DEF Below
    <2>2. ASSUME NEW j \in S, j < k PROVE j \in B \cup {i}
      BY <1>6, <2>2
    <2>3. ASSUME NEW j \in B \cup {i} PROVE j \in S /\ j < k
      BY <2>1, <2>3 DEF Below
    <2> QED
      BY Zenon, <2>2, <2>3 DEF Below
  <1> QED
    BY Zenon, <1>3, <1>6, <1>7

\* Every rank is taken.
LEMMA Ranks ==
    ASSUME NEW S, S \subseteq Nat, IsFiniteSet(S)
    PROVE  \A n \in 1 .. Cardinality(S) : \E i \in S : Cardinality(Below(S, i)) = n - 1
  <1> DEFINE Bad == {n \in 1 .. Cardinality(S) :
                        \A i \in S : Cardinality(Below(S, i)) # n - 1}
  <1>0. Cardinality(S) \in Nat
    BY Zenon, FS_CardinalityType
  <1> SUFFICES ASSUME Bad # {} PROVE FALSE
    BY Zenon
  <1>1. Bad \subseteq Nat
    BY <1>0
  <1>2. PICK n \in Bad : \A m \in Bad : n <= m
    BY Zenon, <1>1, Least
  <1>3. n \in 1 .. Cardinality(S) /\ \A i \in S : Cardinality(Below(S, i)) # n - 1
    BY Zenon
  <1>4. n # 1
    <2>0. Cardinality(S) # 0
      BY <1>0, <1>3
    <2>1. S # {}
      BY Zenon, <2>0, FS_EmptySet
    <2>2. PICK x \in S : \A y \in S : x <= y
      BY Zenon, <2>1, Least
    <2>3. \A y \in S : ~(y < x)
      BY <2>2
    <2>4. Cardinality(Below(S, x)) = 0
      BY Zenon, <2>3, FS_EmptySet DEF Below
    <2> QED
      BY <1>3, <2>4
  <1>5. n - 1 \in 1 .. Cardinality(S) /\ n - 1 \notin Bad /\ n <= Cardinality(S)
    BY <1>0, <1>2, <1>3, <1>4
  <1>6. PICK i \in S : Cardinality(Below(S, i)) = (n - 1) - 1
    BY Zenon, <1>5
  <1>7. Cardinality(Below(S, i)) + 1 = n - 1 /\ n - 1 < Cardinality(S)
    BY <1>0, <1>3, <1>6
  <1>8. \E k \in S : Cardinality(Below(S, k)) = Cardinality(Below(S, i)) + 1
    BY Zenon, <1>7, NextRank
  <1> QED
    BY Zenon, <1>3, <1>7, <1>8

\* InOrder names every place of a set of attempts once.
LEMMA OrderOfAttempts ==
    ASSUME NEW S, S \subseteq Nat, IsFiniteSet(S)
    PROVE  /\ \A n \in 1 .. Cardinality(S) : InOrder(S)[n] \in S
           /\ \A m, n \in 1 .. Cardinality(S) : InOrder(S)[m] = InOrder(S)[n] => m = n
  <1>1. ASSUME NEW n \in 1 .. Cardinality(S)
        PROVE  InOrder(S)[n] \in S /\ Cardinality(Below(S, InOrder(S)[n])) = n - 1
    <2>1. InOrder(S)[n] = CHOOSE i \in S : Cardinality(Below(S, i)) = n - 1
      BY Zenon DEF InOrder, Below
    <2>2. \E i \in S : Cardinality(Below(S, i)) = n - 1
      BY Zenon, Ranks
    <2> QED
      BY Zenon, <2>1, <2>2
  <1>2. \A m, n \in 1 .. Cardinality(S) : m - 1 = n - 1 => m = n
    BY FS_CardinalityType
  <1> QED
    BY Zenon, <1>1, <1>2

-----------------------------------------------------------------------------
(* The rows of a ledger.                                                   *)

Rows == [id : Nat, disposition : Dispositions]

\* What a row says.
LEMMA RowFields ==
    ASSUME NEW i \in Nat, NEW e \in Dispositions
    PROVE  Row(i, e) \in Rows /\ Row(i, e).id = i /\ Row(i, e).disposition = e
  BY Zenon DEF Row, Rows

\* A retry trigger adds one row for every attempt in flight, none Committed.
LEMMA RowsOfRetry ==
    ASSUME NEW S, S \subseteq Nat, IsFiniteSet(S)
    PROVE  /\ retry_rows(S) \in Seq(Rows)
           /\ \A n \in 1 .. Len(retry_rows(S)) :
                 /\ retry_rows(S)[n].id \in S
                 /\ retry_rows(S)[n].disposition # "Committed"
           /\ OneRowEach(retry_rows(S))
  <1> DEFINE R == retry_rows(S)
             N == Cardinality(S)
             O == InOrder(S)
             place(n) == IF n = 1 THEN N ELSE n - 1
  <1>1. N \in Nat
    BY Zenon, FS_CardinalityType
  <1>2. /\ \A n \in 1 .. N : O[n] \in S
        /\ \A m, n \in 1 .. N : O[m] = O[n] => m = n
    BY Zenon, OrderOfAttempts
  <1>3. R = [n \in 1 .. N |-> IF n = 1 THEN Row(O[N], "Discarded")
                                      ELSE Row(O[n - 1], "Superseded")]
    BY Zenon DEF retry_rows
  <1> HIDE DEF R, N, O
  <1>4. \A n \in 1 .. N : place(n) \in 1 .. N
    BY <1>1
  <1>5. \A m, n \in 1 .. N : place(m) = place(n) => m = n
    BY <1>1
  <1> HIDE DEF place
  <1>6. ASSUME NEW n \in 1 .. N
        PROVE  /\ R[n] \in Rows /\ R[n].id = O[place(n)] /\ R[n].id \in S
               /\ R[n].disposition # "Committed"
    <2>1. PICK e \in Dispositions \ {"Committed"} : R[n] = Row(O[place(n)], e)
      BY <1>3 DEF place, Dispositions
    <2>2. O[place(n)] \in S /\ O[place(n)] \in Nat
      BY Zenon, <1>2, <1>4
    <2>3. \A i \in Nat : /\ Row(i, e) \in Rows /\ Row(i, e).id = i
                          /\ Row(i, e).disposition # "Committed"
      BY Zenon, RowFields
    <2> QED
      BY Zenon, <2>1, <2>2, <2>3
  <1>7. R \in [1 .. N -> Rows]
    BY Zenon, <1>3, <1>6
  <1>8. R \in Seq(Rows) /\ Len(R) = N
    BY <1>1, <1>7
  <1>9. \A m, n \in 1 .. N : R[m].id = R[n].id => m = n
    <2> SUFFICES ASSUME NEW m \in 1 .. N, NEW n \in 1 .. N, R[m].id = R[n].id
                 PROVE  m = n
      BY Zenon
    <2>1. O[place(m)] = O[place(n)] /\ place(m) \in 1 .. N /\ place(n) \in 1 .. N
      BY Zenon, <1>4, <1>6
    <2>2. place(m) = place(n)
      BY Zenon, <1>2, <2>1
    <2> QED
      BY Zenon, <1>5, <2>2
  <1> QED
    BY Zenon, <1>6, <1>8, <1>9 DEF OneRowEach, R

\* The ledger drops d of its oldest rows, and some only when it is full.
LEMMA NewestRows ==
    ASSUME NEW T \in Seq(Rows)
    PROVE  \E d \in Nat :
              /\ Newest(T) \in Seq(Rows)
              /\ d <= Len(T) /\ Len(Newest(T)) = Len(T) - d
              /\ \A k \in 1 .. Len(T) - d : Newest(T)[k] = T[k + d]
              /\ Len(Newest(T)) <= MaxRecords
              /\ Len(Newest(T)) < MaxRecords => d = 0
  <1>1. MaxRecords \in Nat /\ Len(T) \in Nat /\ \A k \in 1 .. Len(T) : T[k] \in Rows
    BY PipelineAssumption
  <1>2. CASE Len(T) > MaxRecords
    <2> DEFINE d == Len(T) - MaxRecords
               m == d + 1
               n == Len(T)
    <2>1. d \in Nat /\ d <= Len(T) /\ MaxRecords = Len(T) - d /\ m \in Int /\ n \in Int
      BY <1>1, <1>2
    <2>2. Newest(T) = SubSeq(T, m, n)
      BY Zenon, <1>2 DEF Newest
    <2>3. \A i \in m .. n : T[i] \in Rows
      BY <1>1, <2>1
    <2> HIDE DEF m, n
    <2>4. /\ SubSeq(T, m, n) \in Seq(Rows)
          /\ Len(SubSeq(T, m, n)) = IF m <= n THEN n - m + 1 ELSE 0
          /\ \A i \in 1 .. n - m + 1 : SubSeq(T, m, n)[i] = T[m + i - 1]
      BY <2>1, <2>3
    <2>5. /\ Newest(T) \in Seq(Rows) /\ Len(Newest(T)) = Len(T) - d
          /\ \A k \in 1 .. Len(T) - d : Newest(T)[k] = T[k + d]
      BY <1>1, <1>2, <2>1, <2>2, <2>4 DEF m, n
    <2>6. ~(MaxRecords < MaxRecords) /\ MaxRecords <= MaxRecords
      BY <1>1
    <2> HIDE DEF d
    <2>7. Len(Newest(T)) = MaxRecords
      BY Zenon, <2>1, <2>5
    <2> QED
      BY Zenon, <2>1, <2>5, <2>6, <2>7
  <1>3. CASE ~(Len(T) > MaxRecords)
    BY <1>1, <1>3 DEF Newest
  <1> QED
    BY Zenon, <1>2, <1>3

-----------------------------------------------------------------------------
(* Committed rows.                                                         *)

\* They are finitely many.
LEMMA CommittedFinite ==
    ASSUME NEW T \in Seq(Rows), NEW m \in Nat
    PROVE  IsFiniteSet(CommittedFrom(T, m)) /\ Cardinality(CommittedFrom(T, m)) \in Nat
  <1>1. m \in Int /\ Len(T) \in Int
    OBVIOUS
  <1>2. IsFiniteSet(m .. Len(T))
    BY Zenon, <1>1, FS_Interval
  <1>3. CommittedFrom(T, m) \in SUBSET (m .. Len(T))
    BY Zenon DEF CommittedFrom
  <1> QED
    BY Zenon, <1>2, <1>3, FS_Subset, FS_CardinalityType

\* Dropping the d oldest rows moves the others up by d places.
LEMMA CommittedShift ==
    ASSUME NEW T \in Seq(Rows), NEW U \in Seq(Rows), NEW d \in Nat, NEW m \in Nat \ {0},
           d <= Len(T), Len(U) = Len(T) - d,
           \A k \in 1 .. Len(T) - d : U[k] = T[k + d]
    PROVE  Cardinality(CommittedFrom(U, m)) = Cardinality(CommittedFrom(T, m + d))
  <1> DEFINE A == CommittedFrom(U, m)
             B == CommittedFrom(T, m + d)
             f == [k \in A |-> k + d]
  <1>1. \A k \in A : k \in Nat /\ k + d \in B
    BY DEF CommittedFrom
  <1>2. ASSUME NEW j \in B PROVE j - d \in A /\ (j - d) + d = j
    <2>1. j \in (m + d) .. Len(T) /\ T[j].disposition = "Committed"
      BY Zenon DEF CommittedFrom
    <2>2. j - d \in m .. Len(U) /\ j - d \in 1 .. Len(T) - d /\ (j - d) + d = j
      BY <2>1
    <2>3. U[j - d] = T[j]
      BY Zenon, <2>2
    <2> QED
      BY Zenon, <2>1, <2>2, <2>3 DEF CommittedFrom
  <1>3. \A k, l \in A : k + d = l + d => k = l
    BY <1>1
  <1>4. IsFiniteSet(A)
    BY Zenon, CommittedFinite
  <1> HIDE DEF A, B
  <1>5. f \in Bijection(A, B)
    <2>1. f \in [A -> B] /\ \A k \in A : f[k] = k + d
      BY Zenon, <1>1
    <2>2. \A k, l \in A : f[k] = f[l] => k = l
      BY Zenon, <1>3, <2>1
    <2>3. \A j \in B : \E k \in A : f[k] = j
      BY Zenon, <1>2, <2>1
    <2> QED
      BY Zenon, <2>1, <2>2, <2>3 DEF Bijection, Injection, Surjection, IsInjective
  <1>6. ExistsBijection(A, B)
    BY Zenon, <1>5 DEF ExistsBijection
  <1> QED
    BY Zenon, <1>4, <1>6, FS_Bijection DEF A, B

\* A ledger that agrees with what was published still does without its oldest
\* rows.
LEMMA ShiftAgrees ==
    ASSUME NEW T \in Seq(Rows), NEW U \in Seq(Rows), NEW d \in Nat, NEW pub,
           d <= Len(T), Len(U) = Len(T) - d,
           \A k \in 1 .. Len(T) - d : U[k] = T[k + d],
           NewestPublished(T, pub), OneRowEach(T)
    PROVE  NewestPublished(U, pub) /\ OneRowEach(U)
  <1>1. OneRowEach(U)
    <2> SUFFICES ASSUME NEW m \in 1 .. Len(U), NEW n \in 1 .. Len(U), U[m].id = U[n].id
                 PROVE  m = n
      BY Zenon DEF OneRowEach
    <2>1. /\ m + d \in 1 .. Len(T) /\ n + d \in 1 .. Len(T)
          /\ U[m] = T[m + d] /\ U[n] = T[n + d]
      OBVIOUS
    <2>2. m + d = n + d
      BY Zenon, <2>1 DEF OneRowEach
    <2> QED
      BY <2>2
  <1>2. ASSUME NEW m \in CommittedFrom(U, 1)
        PROVE  LET later == Cardinality(CommittedFrom(U, m + 1))
               IN  later < Len(pub) /\ U[m].id = pub[Len(pub) - later]
    <2>1. m + d \in CommittedFrom(T, 1) /\ U[m] = T[m + d] /\ m + 1 \in Nat \ {0}
      BY DEF CommittedFrom
    <2>2. Cardinality(CommittedFrom(U, m + 1)) = Cardinality(CommittedFrom(T, (m + 1) + d))
      BY ZenonT(30), <2>1, CommittedShift
    <2>3. (m + 1) + d = (m + d) + 1
      BY DEF CommittedFrom
    <2> QED
      BY Zenon, <2>1, <2>2, <2>3 DEF NewestPublished
  <1> QED
    BY Zenon, <1>1, <1>2 DEF NewestPublished

\* Keeping the newest rows of a ledger keeps it in agreement, and adds no row.
LEMMA AgreeNewest ==
    ASSUME NEW T \in Seq(Rows), NEW pub, OneRowEach(T), NewestPublished(T, pub),
           Len(T) < MaxRecords => Cardinality(CommittedFrom(T, 1)) = Len(pub)
    PROVE  /\ Newest(T) \in Seq(Rows) /\ Agree(Newest(T), pub)
           /\ \A k \in 1 .. Len(Newest(T)) : \E j \in 1 .. Len(T) : Newest(T)[k] = T[j]
  <1> DEFINE U == Newest(T)
  <1>1. PICK d \in Nat : /\ U \in Seq(Rows)
                         /\ d <= Len(T) /\ Len(U) = Len(T) - d
                         /\ \A k \in 1 .. Len(T) - d : U[k] = T[k + d]
                         /\ Len(U) <= MaxRecords
                         /\ Len(U) < MaxRecords => d = 0
    BY Zenon, NewestRows
  <1> HIDE DEF U
  <1>2. NewestPublished(U, pub) /\ OneRowEach(U)
    BY Zenon, <1>1, ShiftAgrees
  <1>3. 1 \in Nat \ {0}
    OBVIOUS
  <1>4. Cardinality(CommittedFrom(U, 1)) = Cardinality(CommittedFrom(T, 1 + d))
    BY Zenon, <1>1, <1>3, CommittedShift
  <1>5. Len(U) < MaxRecords => 1 + d = 1 /\ Len(T) < MaxRecords
    BY <1>1
  <1>6. Len(U) < MaxRecords => Cardinality(CommittedFrom(U, 1)) = Len(pub)
    BY Zenon, <1>4, <1>5
  <1>7. \A k \in 1 .. Len(U) : k + d \in 1 .. Len(T) /\ U[k] = T[k + d]
    BY <1>1
  <1> QED
    BY Zenon, <1>1, <1>2, <1>6, <1>7 DEF Agree, U

\* Rows of attempts that end without publishing.
LEMMA AgreeQuiet ==
    ASSUME NEW R \in Seq(Rows), NEW X \in Seq(Rows), NEW pub, Agree(R, pub),
           OneRowEach(X),
           \A n \in 1 .. Len(X) : X[n].disposition # "Committed",
           \A m \in 1 .. Len(R), n \in 1 .. Len(X) : R[m].id # X[n].id
    PROVE  /\ Newest(R \o X) \in Seq(Rows) /\ Agree(Newest(R \o X), pub)
           /\ \A k \in 1 .. Len(Newest(R \o X)) :
                 \/ \E m \in 1 .. Len(R) : Newest(R \o X)[k] = R[m]
                 \/ \E n \in 1 .. Len(X) : Newest(R \o X)[k] = X[n]
  <1> DEFINE T == R \o X
  <1>1. /\ T \in Seq(Rows) /\ Len(T) = Len(R) + Len(X)
        /\ \A k \in 1 .. Len(R) : T[k] = R[k]
        /\ \A k \in 1 .. Len(T) : k \notin 1 .. Len(R) =>
              k - Len(R) \in 1 .. Len(X) /\ T[k] = X[k - Len(R)]
    OBVIOUS
  <1>2. Len(R) \in Nat /\ Len(X) \in Nat /\ MaxRecords \in Nat
    BY PipelineAssumption
  <1> HIDE DEF T
  <1>3. \A m \in Nat \ {0} : CommittedFrom(T, m) = CommittedFrom(R, m)
    BY <1>1, <1>2 DEF CommittedFrom
  <1>4. OneRowEach(T)
    <2> SUFFICES ASSUME NEW m \in 1 .. Len(T), NEW n \in 1 .. Len(T), T[m].id = T[n].id
                 PROVE  m = n
      BY Zenon DEF OneRowEach
    <2>1. OneRowEach(R)
      BY Zenon DEF Agree
    <2>2. CASE m \in 1 .. Len(R) /\ n \in 1 .. Len(R)
      BY Zenon, <1>1, <2>1, <2>2 DEF OneRowEach
    <2>3. CASE m \in 1 .. Len(R) /\ n \notin 1 .. Len(R)
      BY ZenonT(30), <1>1, <2>3
    <2>4. CASE m \notin 1 .. Len(R) /\ n \in 1 .. Len(R)
      BY Zenon, <1>1, <2>4
    <2>5. CASE m \notin 1 .. Len(R) /\ n \notin 1 .. Len(R)
      <3> DEFINE x == m - Len(R)
                 y == n - Len(R)
      <3>0. /\ x \in 1 .. Len(X) /\ T[m] = X[x]
            /\ y \in 1 .. Len(X) /\ T[n] = X[y]
        BY Zenon, <1>1, <2>5
      <3> HIDE DEF x, y
      <3>1. x = y
        BY Zenon, <3>0 DEF OneRowEach
      <3> QED
        BY <1>1, <1>2, <3>1 DEF x, y
    <2> QED
      BY Zenon, <2>2, <2>3, <2>4, <2>5
  <1>5. NewestPublished(T, pub)
    <2> SUFFICES ASSUME NEW m \in CommittedFrom(T, 1)
                 PROVE  LET later == Cardinality(CommittedFrom(T, m + 1))
                        IN  later < Len(pub) /\ T[m].id = pub[Len(pub) - later]
      BY Zenon DEF NewestPublished
    <2>1. 1 \in Nat \ {0}
      OBVIOUS
    <2>2. m \in CommittedFrom(R, 1)
      BY Zenon, <1>3, <2>1
    <2>3. m \in 1 .. Len(R) /\ m + 1 \in Nat \ {0}
      BY <1>2, <2>2 DEF CommittedFrom
    <2>4. T[m] = R[m] /\ CommittedFrom(T, m + 1) = CommittedFrom(R, m + 1)
      BY Zenon, <1>1, <1>3, <2>3
    <2> QED
      BY Zenon, <2>2, <2>4 DEF Agree, NewestPublished
  <1>6. Len(T) < MaxRecords => Cardinality(CommittedFrom(T, 1)) = Len(pub)
    <2>1. Len(T) < MaxRecords => Len(R) < MaxRecords
      BY <1>1, <1>2
    <2>2. CommittedFrom(T, 1) = CommittedFrom(R, 1)
      BY <1>3
    <2> QED
      BY Zenon, <2>1, <2>2 DEF Agree
  <1>7. /\ Newest(T) \in Seq(Rows) /\ Agree(Newest(T), pub)
        /\ \A k \in 1 .. Len(Newest(T)) : \E j \in 1 .. Len(T) : Newest(T)[k] = T[j]
    BY Zenon, <1>1, <1>4, <1>5, <1>6, AgreeNewest
  <1>8. \A j \in 1 .. Len(T) : \/ \E m \in 1 .. Len(R) : T[j] = R[m]
                               \/ \E n \in 1 .. Len(X) : T[j] = X[n]
    BY Zenon, <1>1
  <1>9. ASSUME NEW k \in 1 .. Len(Newest(T))
        PROVE  \/ \E m \in 1 .. Len(R) : Newest(T)[k] = R[m]
               \/ \E n \in 1 .. Len(X) : Newest(T)[k] = X[n]
    <2>1. PICK j \in 1 .. Len(T) : Newest(T)[k] = T[j]
      BY Zenon, <1>7
    <2>2. CASE \E m \in 1 .. Len(R) : T[j] = R[m]
      BY Zenon, <2>1, <2>2
    <2>3. CASE \E n \in 1 .. Len(X) : T[j] = X[n]
      BY Zenon, <2>1, <2>3
    <2> QED
      BY Zenon, <1>8, <2>2, <2>3
  <1> QED
    BY Zenon, <1>7, <1>9 DEF T

WithCommit(R, i) == Append(R, Row(i, "Committed"))

\* The row of an attempt that publishes.
LEMMA AgreeCommit ==
    ASSUME NEW R \in Seq(Rows), NEW pub \in Seq(Nat), NEW i \in Nat, Agree(R, pub),
           \A m \in 1 .. Len(R) : R[m].id # i
    PROVE  /\ Newest(WithCommit(R, i)) \in Seq(Rows)
           /\ Agree(Newest(WithCommit(R, i)), Append(pub, i))
           /\ \A k \in 1 .. Len(Newest(WithCommit(R, i))) :
                 \/ \E m \in 1 .. Len(R) : Newest(WithCommit(R, i))[k] = R[m]
                 \/ Newest(WithCommit(R, i))[k].id = i
  <1> DEFINE r == Row(i, "Committed")
             T == WithCommit(R, i)
             new == Append(pub, i)
             last == Len(R) + 1
  <1>0. T = Append(R, r)
    BY Zenon DEF WithCommit
  <1>1. r \in Rows /\ r.id = i /\ r.disposition = "Committed"
    BY Zenon, RowFields DEF Dispositions
  <1> HIDE DEF r
  <1>2. /\ T \in Seq(Rows) /\ Len(T) = last /\ T[last] = r
        /\ \A k \in 1 .. Len(R) : T[k] = R[k]
    BY <1>0, <1>1
  <1>3. /\ Len(new) = Len(pub) + 1 /\ new[Len(pub) + 1] = i
        /\ \A k \in 1 .. Len(pub) : new[k] = pub[k]
    OBVIOUS
  <1>4. Len(R) \in Nat /\ Len(pub) \in Nat /\ MaxRecords \in Nat
    BY PipelineAssumption
  <1> HIDE DEF new, T
  <1>5. \A m \in 1 .. last : /\ last \notin CommittedFrom(R, m)
                              /\ CommittedFrom(T, m) = CommittedFrom(R, m) \cup {last}
    BY <1>1, <1>2, <1>4 DEF CommittedFrom
  <1>6. ASSUME NEW m \in 1 .. last
        PROVE  /\ Cardinality(CommittedFrom(R, m)) \in Nat
               /\ Cardinality(CommittedFrom(T, m)) = Cardinality(CommittedFrom(R, m)) + 1
    <2>1. m \in Nat
      BY <1>4
    <2>2. IsFiniteSet(CommittedFrom(R, m)) /\ Cardinality(CommittedFrom(R, m)) \in Nat
      BY Zenon, <2>1, CommittedFinite
    <2>3. /\ last \notin CommittedFrom(R, m)
          /\ CommittedFrom(T, m) = CommittedFrom(R, m) \cup {last}
      BY Zenon, <1>5
    <2> HIDE DEF last
    <2> QED
      BY Zenon, <2>2, <2>3, FS_AddElement
  <1>7. OneRowEach(T)
    <2>1. OneRowEach(R)
      BY Zenon DEF Agree
    <2>2. \A k \in 1 .. last : k \in 1 .. Len(R) \/ k = last
      BY <1>4
    <2> HIDE DEF last
    <2> QED
      BY Zenon, <1>1, <1>2, <2>1, <2>2 DEF OneRowEach
  <1>8. NewestPublished(T, new)
    <2> SUFFICES ASSUME NEW m \in CommittedFrom(T, 1)
                 PROVE  LET later == Cardinality(CommittedFrom(T, m + 1))
                        IN  later < Len(new) /\ T[m].id = new[Len(new) - later]
      BY Zenon DEF NewestPublished
    <2>1. CASE m = last
      <3>1. CommittedFrom(T, m + 1) = {}
        BY <1>2, <1>4, <2>1 DEF CommittedFrom
      <3>2. Cardinality(CommittedFrom(T, m + 1)) = 0
        BY Zenon, <3>1, FS_EmptySet
      <3> QED
        BY <1>1, <1>2, <1>3, <1>4, <2>1, <3>2
    <2>2. CASE m # last
      <3> DEFINE later == Cardinality(CommittedFrom(R, m + 1))
      <3>1. 1 \in 1 .. last
        BY <1>4
      <3>2. m \in CommittedFrom(R, 1)
        BY <1>5, <2>2, <3>1
      <3>3. m \in 1 .. Len(R) /\ m + 1 \in 1 .. last
        BY <1>4, <3>2 DEF CommittedFrom
      <3>4. later \in Nat /\ Cardinality(CommittedFrom(T, m + 1)) = later + 1
        BY Zenon, <1>6, <3>3
      <3>5. later < Len(pub) /\ R[m].id = pub[Len(pub) - later]
        BY Zenon, <3>2 DEF Agree, NewestPublished
      <3>6. T[m] = R[m]
        BY Zenon, <1>2, <3>3
      <3> HIDE DEF later
      <3>7. /\ later + 1 < Len(new) /\ Len(new) - (later + 1) = Len(pub) - later
            /\ Len(pub) - later \in 1 .. Len(pub)
        <4>1. Len(new) = Len(pub) + 1
          BY Zenon, <1>3
        <4> QED
          BY <1>4, <3>4, <3>5, <4>1
      <3> QED
        BY Zenon, <1>3, <3>4, <3>5, <3>6, <3>7
    <2> QED
      BY Zenon, <2>1, <2>2
  <1>9. Len(T) < MaxRecords => Cardinality(CommittedFrom(T, 1)) = Len(new)
    <2>1. 1 \in 1 .. last /\ (Len(T) < MaxRecords => Len(R) < MaxRecords)
      BY <1>2, <1>4
    <2>2. Cardinality(CommittedFrom(T, 1)) = Cardinality(CommittedFrom(R, 1)) + 1
      BY Zenon, <1>6, <2>1
    <2> QED
      BY Zenon, <1>3, <2>1, <2>2 DEF Agree
  <1>10. /\ Newest(T) \in Seq(Rows) /\ Agree(Newest(T), new)
         /\ \A k \in 1 .. Len(Newest(T)) : \E j \in 1 .. Len(T) : Newest(T)[k] = T[j]
    BY Zenon, <1>2, <1>7, <1>8, <1>9, AgreeNewest
  <1>11. \A j \in 1 .. Len(T) : (\E m \in 1 .. Len(R) : T[j] = R[m]) \/ T[j].id = i
    <2>1. \A k \in 1 .. last : k \in 1 .. Len(R) \/ k = last
      BY <1>4
    <2> QED
      BY Zenon, <1>1, <1>2, <2>1
  <1> QED
    BY ZenonT(30), <1>10, <1>11 DEF new, T

-----------------------------------------------------------------------------
(* A supervisor and the attempts of its source that published.             *)

Sound(v, pub) ==
    /\ v \in Supervisors /\ pub \in Seq(Nat)
    /\ Ends(v) /\ Once(v, pub) /\ Agree(v.records, pub)

\* The fields of a supervisor.
LEMMA SupervisorFields ==
    ASSUME NEW v \in Supervisors
    PROVE  /\ v.next_attempt \in Nat /\ v.live \subseteq Nat /\ v.superseded \subseteq Nat
           /\ v.terminal \subseteq Nat /\ v.committed \in Nat /\ v.records \in Seq(Rows)
  BY Zenon DEF Supervisors, Rows

\* What minting changes.
LEMMA MintFields ==
    ASSUME NEW v \in Supervisors
    PROVE  /\ mint(v) \in Supervisors
           /\ mint(v).next_attempt = v.next_attempt + 1
           /\ mint(v).live = v.live \cup {v.next_attempt}
           /\ mint(v).superseded = v.superseded /\ mint(v).terminal = v.terminal
           /\ mint(v).committed = v.committed /\ mint(v).records = v.records
  <1> DEFINE n == v.next_attempt + 1
             l == v.live \cup {v.next_attempt}
  <1>1. n \in Nat /\ l \in SUBSET Nat
    BY SupervisorFields
  <1>2. mint(v) = [v EXCEPT !.live = l, !.next_attempt = n]
    BY Zenon DEF mint, Supervisors
  <1> HIDE DEF n, l
  <1>3. /\ mint(v) \in Supervisors
        /\ mint(v).next_attempt = n /\ mint(v).live = l
        /\ mint(v).superseded = v.superseded /\ mint(v).terminal = v.terminal
        /\ mint(v).committed = v.committed /\ mint(v).records = v.records
    BY Zenon, <1>1, <1>2 DEF Supervisors
  <1> QED
    BY Zenon, <1>3 DEF n, l

\* What the end of an attempt changes.
LEMMA TerminalFields ==
    ASSUME NEW v \in Supervisors, NEW i \in Nat, NEW e \in Dispositions,
           i \notin v.terminal, Newest(Append(v.records, Row(i, e))) \in Seq(Rows)
    PROVE  LET w == terminal_row(v, i, e)
           IN  /\ w \in Supervisors
               /\ w.next_attempt = v.next_attempt
               /\ w.live = v.live \ {i} /\ w.terminal = v.terminal \cup {i}
               /\ w.superseded = v.superseded /\ w.committed = v.committed
               /\ w.records = Newest(Append(v.records, Row(i, e)))
  BY Zenon DEF terminal_row, Supervisors, Rows

\* A minted attempt is in flight.
LEMMA MintSound ==
    ASSUME NEW v, NEW pub, Sound(v, pub)
    PROVE  /\ Sound(mint(v), pub) /\ mint(v).next_attempt = v.next_attempt + 1
           /\ mint(v).terminal = v.terminal
  <1> DEFINE w == mint(v)
  <1>1. v \in Supervisors
    BY Zenon DEF Sound
  <1>2. v.next_attempt \in Nat
    BY Zenon, <1>1, SupervisorFields
  <1>3. /\ w \in Supervisors
        /\ w.next_attempt = v.next_attempt + 1 /\ w.live = v.live \cup {v.next_attempt}
        /\ w.superseded = v.superseded /\ w.terminal = v.terminal
        /\ w.committed = v.committed /\ w.records = v.records
    BY Zenon, <1>1, MintFields
  <1> HIDE DEF w
  <1>4. Ends(w)
    <2>1. v.live \cup v.terminal = 0 .. v.next_attempt - 1 /\ v.live \cap v.terminal = {}
      BY Zenon DEF Sound, Ends
    <2>2. w.live \cup w.terminal = 0 .. w.next_attempt - 1 /\ w.live \cap w.terminal = {}
      BY <1>2, <1>3, <2>1
    <2> QED
      BY Zenon, <1>3, <2>2 DEF Sound, Ends
  <1> QED
    BY Zenon, <1>3, <1>4 DEF Sound, Once, w

\* An attempt that ends without publishing.
LEMMA RowSound ==
    ASSUME NEW v, NEW pub, Sound(v, pub), NEW i \in 0 .. v.next_attempt - 1,
           NEW e \in Dispositions \ {"Committed"}
    PROVE  /\ Sound(terminal_row(v, i, e), pub)
           /\ terminal_row(v, i, e).next_attempt = v.next_attempt
           /\ v.terminal \subseteq terminal_row(v, i, e).terminal
  <1>1. CASE i \in v.terminal
    BY Zenon, <1>1 DEF terminal_row
  <1>2. CASE i \notin v.terminal
    <2> DEFINE w == terminal_row(v, i, e)
               r == Row(i, e)
               X == <<r>>
               R == v.records
    <2>1. v \in Supervisors /\ Agree(R, pub) /\ Once(v, pub) /\ Ends(v)
      BY Zenon DEF Sound
    <2>2. R \in Seq(Rows) /\ v.next_attempt \in Nat
      BY Zenon, <2>1, SupervisorFields
    <2>3. i \in Nat
      BY <2>2
    <2>4. r \in Rows /\ r.id = i /\ r.disposition # "Committed"
      BY Zenon, <2>3, RowFields
    <2> HIDE DEF r
    <2>5. /\ X \in Seq(Rows) /\ Append(R, r) = R \o X
          /\ \A n \in 1 .. Len(X) : X[n] = r /\ n = 1
      BY <2>2, <2>4
    <2> HIDE DEF X, R
    <2>6. \A m \in 1 .. Len(R), n \in 1 .. Len(X) : R[m].id # X[n].id
      BY Zenon, <1>2, <2>1, <2>4, <2>5 DEF Ends, R
    <2>7. /\ OneRowEach(X)
          /\ \A n \in 1 .. Len(X) : X[n].disposition # "Committed"
      BY Zenon, <2>4, <2>5 DEF OneRowEach
    <2>8. /\ Newest(R \o X) \in Seq(Rows) /\ Agree(Newest(R \o X), pub)
          /\ \A k \in 1 .. Len(Newest(R \o X)) :
                \/ \E m \in 1 .. Len(R) : Newest(R \o X)[k] = R[m]
                \/ \E n \in 1 .. Len(X) : Newest(R \o X)[k] = X[n]
      BY Zenon, <2>1, <2>2, <2>5, <2>6, <2>7, AgreeQuiet
    <2>9. /\ Newest(Append(v.records, Row(i, e))) = Newest(R \o X)
          /\ Newest(Append(v.records, Row(i, e))) \in Seq(Rows)
      BY Zenon, <2>5, <2>8 DEF R, r
    <2>10. /\ w \in Supervisors /\ w.next_attempt = v.next_attempt
           /\ w.live = v.live \ {i} /\ w.terminal = v.terminal \cup {i}
           /\ w.superseded = v.superseded /\ w.committed = v.committed
           /\ w.records = Newest(R \o X)
      <3>0. e \in Dispositions /\ v \in Supervisors
        BY Zenon, <2>1
      <3>1. /\ w \in Supervisors /\ w.next_attempt = v.next_attempt
            /\ w.live = v.live \ {i} /\ w.terminal = v.terminal \cup {i}
            /\ w.superseded = v.superseded /\ w.committed = v.committed
            /\ w.records = Newest(Append(v.records, Row(i, e)))
        BY <1>2, <2>3, <2>9, <3>0, TerminalFields
      <3> QED
        BY Zenon, <2>9, <3>1
    <2> HIDE DEF w
    <2>11. Ends(w)
      <3>1. w.live \cup w.terminal = 0 .. w.next_attempt - 1 /\ w.live \cap w.terminal = {}
        BY <2>1, <2>10 DEF Ends
      <3>2. \A m \in 1 .. Len(R) : R[m].id \in w.terminal
        BY Zenon, <2>1, <2>10 DEF Ends, R
      <3>3. \A n \in 1 .. Len(X) : X[n].id \in w.terminal
        BY Zenon, <2>4, <2>5, <2>10
      <3>4. ASSUME NEW k \in 1 .. Len(w.records)
            PROVE  w.records[k].id \in w.terminal
        <4>1. \/ \E m \in 1 .. Len(R) : w.records[k] = R[m]
              \/ \E n \in 1 .. Len(X) : w.records[k] = X[n]
          BY Zenon, <2>8, <2>10
        <4> QED
          BY Zenon, <3>2, <3>3, <4>1
      <3>5. w.superseded \subseteq w.terminal
        BY Zenon, <2>1, <2>10 DEF Ends
      <3> QED
        BY Zenon, <3>1, <3>4, <3>5 DEF Ends
    <2>12. Once(w, pub)
      BY Zenon, <2>1, <2>10 DEF Once
    <2>13. Sound(w, pub)
      BY Zenon, <2>8, <2>10, <2>11, <2>12 DEF Sound
    <2> QED
      BY Zenon, <2>10, <2>13 DEF w
  <1> QED
    BY Zenon, <1>1, <1>2

\* What a commit changes in the supervisor.
LEMMA CommitFields ==
    ASSUME NEW v \in Supervisors, NEW i \in Nat, i \notin v.terminal,
           Newest(Append(v.records, Row(i, "Committed"))) \in Seq(Rows)
    PROVE  LET w == record_commit(v, i)
           IN  /\ w \in Supervisors
               /\ w.next_attempt = v.next_attempt
               /\ w.live = v.live \ {i} /\ w.terminal = v.terminal \cup {i}
               /\ w.superseded = v.superseded /\ w.committed = v.committed + 1
               /\ w.records = Newest(Append(v.records, Row(i, "Committed")))
  <1> DEFINE u == terminal_row(v, i, "Committed")
             w == record_commit(v, i)
             n == v.committed + 1
  <1>0. "Committed" \in Dispositions
    BY Zenon DEF Dispositions
  <1>1. /\ u \in Supervisors /\ u.next_attempt = v.next_attempt
        /\ u.live = v.live \ {i} /\ u.terminal = v.terminal \cup {i}
        /\ u.superseded = v.superseded /\ u.committed = v.committed
        /\ u.records = Newest(Append(v.records, Row(i, "Committed")))
    BY <1>0, TerminalFields
  <1> HIDE DEF u
  <1>2. n \in Nat
    BY SupervisorFields
  <1>3. w = [u EXCEPT !.committed = n]
    BY Zenon, <1>1 DEF record_commit, u
  <1> HIDE DEF w, n
  <1>4. /\ w \in Supervisors /\ w.committed = n
        /\ w.next_attempt = u.next_attempt /\ w.live = u.live /\ w.terminal = u.terminal
        /\ w.superseded = u.superseded /\ w.records = u.records
    BY Zenon, <1>1, <1>2, <1>3 DEF Supervisors
  <1> QED
    BY Zenon, <1>1, <1>4 DEF w, n

\* An attempt that publishes was in flight, and now counts as published.
LEMMA CommitSound ==
    ASSUME NEW v, NEW pub, Sound(v, pub), NEW i \in 0 .. v.next_attempt - 1,
           i \notin v.terminal
    PROVE  /\ Sound(record_commit(v, i), Append(pub, i))
           /\ record_commit(v, i).next_attempt = v.next_attempt
           /\ v.terminal \subseteq record_commit(v, i).terminal
  <1> DEFINE w == record_commit(v, i)
             R == v.records
             T == WithCommit(R, i)
             new == Append(pub, i)
  <1>1. /\ v \in Supervisors /\ pub \in Seq(Nat) /\ Agree(R, pub)
        /\ Once(v, pub) /\ Ends(v)
    BY Zenon DEF Sound
  <1>2. R \in Seq(Rows) /\ v.next_attempt \in Nat /\ v.committed \in Nat
    BY Zenon, <1>1, SupervisorFields
  <1>3. i \in Nat
    BY <1>2
  <1>4. \A m \in 1 .. Len(R) : R[m].id # i
    BY Zenon, <1>1 DEF Ends
  <1>5. /\ Newest(T) \in Seq(Rows) /\ Agree(Newest(T), new)
        /\ \A k \in 1 .. Len(Newest(T)) :
              (\E m \in 1 .. Len(R) : Newest(T)[k] = R[m]) \/ Newest(T)[k].id = i
    BY Zenon, <1>1, <1>2, <1>3, <1>4, AgreeCommit
  <1>6. /\ w \in Supervisors /\ w.next_attempt = v.next_attempt
        /\ w.live = v.live \ {i} /\ w.terminal = v.terminal \cup {i}
        /\ w.superseded = v.superseded /\ w.committed = v.committed + 1
        /\ w.records = Newest(T)
    BY <1>1, <1>3, <1>5, CommitFields DEF WithCommit
  <1>7. /\ new \in Seq(Nat) /\ Len(new) = Len(pub) + 1 /\ new[Len(pub) + 1] = i
        /\ \A k \in 1 .. Len(new) : \/ k \in 1 .. Len(pub) /\ new[k] = pub[k]
                                    \/ k = Len(pub) + 1
    BY <1>1, <1>3
  <1> HIDE DEF w, R, T, new
  <1>8. Ends(w)
    <2>1. w.live \cup w.terminal = 0 .. w.next_attempt - 1 /\ w.live \cap w.terminal = {}
      BY <1>1, <1>6 DEF Ends
    <2>2. \A m \in 1 .. Len(R) : R[m].id \in w.terminal
      BY Zenon, <1>1, <1>6 DEF Ends, R
    <2>3. i \in w.terminal /\ w.superseded \subseteq w.terminal
      BY Zenon, <1>1, <1>6 DEF Ends
    <2>4. ASSUME NEW k \in 1 .. Len(w.records)
          PROVE  w.records[k].id \in w.terminal
      <3>1. (\E m \in 1 .. Len(R) : w.records[k] = R[m]) \/ w.records[k].id = i
        BY Zenon, <1>5, <1>6
      <3> QED
        BY Zenon, <2>2, <2>3, <3>1
    <2> QED
      BY Zenon, <2>1, <2>3, <2>4 DEF Ends
  <1>9. Once(w, new)
    <2>1. i \in w.terminal \ w.superseded
      BY Zenon, <1>1, <1>6 DEF Ends
    <2>2. \A n \in 1 .. Len(pub) : pub[n] \in w.terminal \ w.superseded /\ pub[n] # i
      BY ZenonT(30), <1>1, <1>6 DEF Once
    <2>3. \A n \in 1 .. Len(new) : new[n] \in w.terminal \ w.superseded
      BY Zenon, <1>7, <2>1, <2>2
    <2>4. \A m, n \in 1 .. Len(new) : new[m] = new[n] => m = n
      BY Zenon, <1>1, <1>7, <2>2 DEF Once
    <2>5. w.committed = Len(new)
      BY Zenon, <1>1, <1>6, <1>7 DEF Once
    <2> QED
      BY Zenon, <2>3, <2>4, <2>5 DEF Once
  <1>10. Sound(w, new)
    BY Zenon, <1>5, <1>6, <1>7, <1>8, <1>9 DEF Sound
  <1> QED
    BY Zenon, <1>6, <1>10 DEF w, new

\* A retry trigger ends every attempt in flight and mints a successor.
LEMMA RetrySound ==
    ASSUME NEW v, NEW pub, Sound(v, pub)
    PROVE  /\ Sound(retry_trigger(v), pub)
           /\ retry_trigger(v).next_attempt = v.next_attempt + 1
           /\ 0 .. v.next_attempt - 1 \subseteq retry_trigger(v).terminal
  <1> DEFINE R == v.records
             L == v.live
             X == retry_rows(L)
             N == Newest(R \o X)
             u == [v EXCEPT !.superseded = v.superseded \cup L,
                            !.terminal = v.terminal \cup L,
                            !.live = {}, !.records = N]
  <1>1. v \in Supervisors /\ pub \in Seq(Nat) /\ Agree(R, pub) /\ Once(v, pub) /\ Ends(v)
    BY Zenon DEF Sound
  <1>2. /\ R \in Seq(Rows) /\ v.next_attempt \in Nat /\ L \subseteq Nat
        /\ v.superseded \subseteq Nat /\ v.terminal \subseteq Nat
    BY Zenon, <1>1, SupervisorFields
  <1>3. retry_trigger(v) = mint(u)
    BY Zenon, <1>1 DEF retry_trigger, Supervisors
  <1>4. IsFiniteSet(L)
    <2>1. 0 \in Int /\ v.next_attempt - 1 \in Int
      BY <1>2
    <2>2. IsFiniteSet(0 .. v.next_attempt - 1)
      BY Zenon, <2>1, FS_Interval
    <2> QED
      BY Zenon, <1>1, <2>2, FS_Subset DEF Ends
  <1>5. /\ X \in Seq(Rows) /\ OneRowEach(X)
        /\ \A n \in 1 .. Len(X) : X[n].id \in L /\ X[n].disposition # "Committed"
    BY Zenon, <1>2, <1>4, RowsOfRetry
  <1> HIDE DEF X
  <1>6. \A m \in 1 .. Len(R), n \in 1 .. Len(X) : R[m].id # X[n].id
    BY Zenon, <1>1, <1>5 DEF Ends
  <1>7. /\ N \in Seq(Rows) /\ Agree(N, pub)
        /\ \A k \in 1 .. Len(N) : \/ \E m \in 1 .. Len(R) : N[k] = R[m]
                                  \/ \E n \in 1 .. Len(X) : N[k] = X[n]
    BY Zenon, <1>1, <1>2, <1>5, <1>6, AgreeQuiet
  <1> HIDE DEF N
  <1>8. /\ u \in Supervisors /\ u.next_attempt = v.next_attempt /\ u.committed = v.committed
        /\ u.superseded = v.superseded \cup L /\ u.terminal = v.terminal \cup L
        /\ u.live = {} /\ u.records = N
    BY Zenon, <1>1, <1>2, <1>7 DEF Supervisors, Rows
  <1> HIDE DEF u
  <1>9. Ends(u)
    <2>1. /\ u.live \cup u.terminal = 0 .. u.next_attempt - 1 /\ u.live \cap u.terminal = {}
          /\ u.superseded \subseteq u.terminal
      BY Zenon, <1>1, <1>8 DEF Ends
    <2>2. \A m \in 1 .. Len(R) : R[m].id \in u.terminal
      BY Zenon, <1>1, <1>8 DEF Ends
    <2>3. \A n \in 1 .. Len(X) : X[n].id \in u.terminal
      BY Zenon, <1>5, <1>8
    <2>4. ASSUME NEW k \in 1 .. Len(u.records)
          PROVE  u.records[k].id \in u.terminal
      <3>1. \/ \E m \in 1 .. Len(R) : u.records[k] = R[m]
            \/ \E n \in 1 .. Len(X) : u.records[k] = X[n]
        BY Zenon, <1>7, <1>8
      <3> QED
        BY Zenon, <2>2, <2>3, <3>1
    <2> QED
      BY Zenon, <2>1, <2>4 DEF Ends
  <1>10. Once(u, pub)
    BY Zenon, <1>1, <1>8 DEF Once, Ends
  <1>11. Sound(u, pub)
    BY Zenon, <1>1, <1>7, <1>8, <1>9, <1>10 DEF Sound
  <1>12. 0 .. v.next_attempt - 1 \subseteq u.terminal
    BY Zenon, <1>1, <1>8 DEF Ends
  <1>13. /\ Sound(mint(u), pub) /\ mint(u).next_attempt = u.next_attempt + 1
         /\ mint(u).terminal = u.terminal
    BY Zenon, <1>11, MintSound
  <1> QED
    BY Zenon, <1>3, <1>8, <1>12, <1>13

-----------------------------------------------------------------------------
(* The supervisors of the project.                                         *)

Ledgers ==
    /\ tokens \in [Sources -> SUBSET Nat] /\ fence \in [Sources -> Nat]
    /\ sup \in [Sources -> Supervisors] /\ log \in [Sources -> Seq(Nat)]
    /\ AttemptsEnd /\ PublishesOnce /\ LedgersAgree

\* What Ledgers says of one source.
Kept(v, pub, lent, f) ==
    /\ Sound(v, pub) /\ f \in Nat
    /\ lent \subseteq 0 .. v.next_attempt - 1
    /\ f <= v.next_attempt
    /\ 0 .. f - 1 \subseteq v.terminal

LEMMA LedgersBySource ==
    ASSUME Ledgers, NEW s \in Sources
    PROVE  Kept(sup[s], log[s], tokens[s], fence[s])
  BY Zenon DEF Ledgers, AttemptsEnd, PublishesOnce, LedgersAgree, Kept, Sound

\* A step of one supervisor.
LEMMA SupervisorStep ==
    ASSUME Ledgers, NEW s \in Sources, NEW v, NEW pub, NEW lent, NEW f,
           Kept(v, pub, lent, f), sup[s].next_attempt <= v.next_attempt,
           sup' = [sup EXCEPT ![s] = v], log' = [log EXCEPT ![s] = pub],
           tokens' = [tokens EXCEPT ![s] = lent], fence' = [fence EXCEPT ![s] = f]
    PROVE  /\ Ledgers'
           /\ \A t \in Sources : sup[t].next_attempt <= sup'[t].next_attempt
  <1>0. /\ sup \in [Sources -> Supervisors] /\ log \in [Sources -> Seq(Nat)]
        /\ tokens \in [Sources -> SUBSET Nat] /\ fence \in [Sources -> Nat]
    BY Zenon DEF Ledgers
  <1>1. v \in Supervisors /\ pub \in Seq(Nat) /\ f \in Nat
    BY Zenon DEF Kept, Sound
  <1>2. v.next_attempt \in Nat
    BY Zenon, <1>1, SupervisorFields
  <1>3. lent \in SUBSET Nat
    BY <1>2 DEF Kept
  <1>4. /\ sup' \in [Sources -> Supervisors] /\ log' \in [Sources -> Seq(Nat)]
        /\ tokens' \in [Sources -> SUBSET Nat] /\ fence' \in [Sources -> Nat]
    BY Zenon, <1>0, <1>1, <1>3
  <1>5. /\ sup'[s] = v /\ log'[s] = pub /\ tokens'[s] = lent /\ fence'[s] = f
        /\ \A t \in Sources : t # s =>
              /\ sup'[t] = sup[t] /\ log'[t] = log[t]
              /\ tokens'[t] = tokens[t] /\ fence'[t] = fence[t]
    BY Zenon, <1>0
  <1>6. ASSUME NEW t \in Sources
        PROVE  Kept(sup'[t], log'[t], tokens'[t], fence'[t])
    <2>1. CASE t = s
      BY Zenon, <1>5, <2>1
    <2>2. CASE t # s
      BY Zenon, <1>5, <2>2, LedgersBySource
    <2> QED
      BY Zenon, <2>1, <2>2
  <1>7. AttemptsEnd' /\ PublishesOnce' /\ LedgersAgree'
    BY Zenon, <1>6 DEF AttemptsEnd, PublishesOnce, LedgersAgree, Kept, Sound
  <1>8. \A t \in Sources : sup[t].next_attempt <= sup'[t].next_attempt
    <2> SUFFICES ASSUME NEW t \in Sources PROVE sup[t].next_attempt <= sup'[t].next_attempt
      BY Zenon
    <2>1. CASE t = s
      BY Zenon, <1>5, <2>1
    <2>2. CASE t # s
      <3>1. sup[t].next_attempt \in Nat
        BY Zenon, <1>0, SupervisorFields
      <3>2. sup[t].next_attempt <= sup[t].next_attempt
        BY <3>1
      <3> QED
        BY Zenon, <1>5, <2>2, <3>2
    <2> QED
      BY Zenon, <2>1, <2>2
  <1> QED
    BY Zenon, <1>4, <1>7, <1>8 DEF Ledgers

\* Nothing happens to the supervisors.
LEMMA LedgersFrame ==
    ASSUME Ledgers, UNCHANGED <<sup, tokens, log, fence>>
    PROVE  Ledgers' /\ \A t \in Sources : sup[t].next_attempt <= sup'[t].next_attempt
  <1>1. Ledgers'
    BY Zenon DEF Ledgers, AttemptsEnd, PublishesOnce, LedgersAgree
  <1>2. \A t \in Sources : sup[t].next_attempt \in Nat
    BY Zenon, SupervisorFields DEF Ledgers
  <1>3. \A t \in Sources : sup[t].next_attempt <= sup[t].next_attempt
    BY <1>2
  <1> QED
    BY Zenon, <1>1, <1>3

-----------------------------------------------------------------------------
(* Charges.                                                                *)

BuilderType == builder \in [Builders -> {Idle} \cup Loads \cup Candidates]

Bytes(b, n) == {b} \X (1 .. n)

Charges == charged \in Nat /\ IsFiniteSet(HeldBytes) /\ ChargesConserved

\* What a builder's pc says of it.
LEMMA BuilderKinds ==
    ASSUME BuilderType, NEW b \in Builders
    PROVE  /\ builder[b].pc \in {"idle", "loaded", "prepared"}
           /\ builder[b].pc = "idle" => builder[b] = Idle
           /\ builder[b].pc = "loaded" => builder[b] \in Loads
           /\ builder[b].pc = "prepared" => builder[b] \in Candidates
  <1>1. builder[b] \in {Idle} \cup Loads \cup Candidates
    BY Zenon DEF BuilderType
  <1>2. Idle.pc = "idle"
    BY Zenon DEF Idle
  <1>3. \A x \in Loads : x.pc = "loaded"
    BY Zenon DEF Loads
  <1>4. \A x \in Candidates : x.pc = "prepared"
    BY Zenon DEF Candidates
  <1>5. "idle" # "loaded" /\ "idle" # "prepared" /\ "loaded" # "prepared"
    BY Zenon
  <1> QED
    BY Zenon, <1>1, <1>2, <1>3, <1>4, <1>5

\* A candidate of n bytes holds n units.
LEMMA BytesOf ==
    ASSUME NEW b, NEW n \in Nat
    PROVE  IsFiniteSet(Bytes(b, n)) /\ Cardinality(Bytes(b, n)) = n
  <1>1. IsFiniteSet({b}) /\ Cardinality({b}) = 1
    BY Zenon, FS_Singleton
  <1>2. 1 \in Int /\ n \in Int
    OBVIOUS
  <1>3. /\ IsFiniteSet(1 .. n)
        /\ Cardinality(1 .. n) = IF 1 > n THEN 0 ELSE n - 1 + 1
    BY Zenon, <1>2, FS_Interval
  <1>4. /\ IsFiniteSet(Bytes(b, n))
        /\ Cardinality(Bytes(b, n)) = Cardinality({b}) * Cardinality(1 .. n)
    BY Zenon, <1>1, <1>3, FS_Product DEF Bytes
  <1>5. Cardinality({b}) * Cardinality(1 .. n) = n
    BY <1>1, <1>3
  <1> QED
    BY Zenon, <1>4, <1>5

\* A builder that holds no candidate before or after a step moves no bytes.
LEMMA ChargesFrame ==
    ASSUME Charges, BuilderType, NEW b \in Builders, NEW x,
           builder[b].pc # "prepared", x.pc # "prepared",
           builder' = [builder EXCEPT ![b] = x], UNCHANGED charged
    PROVE  Charges'
  <1>1. builder'[b] = x /\ \A a \in Builders : a # b => builder'[a] = builder[a]
    BY Zenon DEF BuilderType
  <1>2. ASSUME NEW y \in Builders \X (1 .. Limit)
        PROVE  (builder'[y[1]].pc = "prepared" /\ y[2] <= builder'[y[1]].bytes)
               <=> (builder[y[1]].pc = "prepared" /\ y[2] <= builder[y[1]].bytes)
    <2>1. y[1] \in Builders
      BY Zenon
    <2> QED
      BY Zenon, <1>1, <2>1
  <1>3. HeldBytes' = HeldBytes
    BY Zenon, <1>2 DEF HeldBytes
  <1> QED
    BY Zenon, <1>3 DEF Charges, ChargesConserved

\* A reservation charges the bytes of the new candidate.
LEMMA ChargesReserve ==
    ASSUME Charges, BuilderType, NEW b \in Builders, NEW x, NEW n \in Nat,
           builder[b].pc # "prepared", x.pc = "prepared", x.bytes = n,
           builder' = [builder EXCEPT ![b] = x],
           charged' = charged + n, charged + n <= Limit
    PROVE  Charges'
  <1>0. Limit \in Nat /\ charged \in Nat
    BY Zenon, PipelineAssumption DEF Charges
  <1>1. builder'[b] = x /\ \A a \in Builders : a # b => builder'[a] = builder[a]
    BY Zenon DEF BuilderType
  <1>2. \A k \in 1 .. Limit : k <= n <=> k \in 1 .. n
    BY <1>0
  <1>3. 1 .. n \subseteq 1 .. Limit
    BY <1>0
  <1>4. HeldBytes' = HeldBytes \cup Bytes(b, n)
    <2>1. ASSUME NEW a \in Builders, NEW k \in 1 .. Limit
          PROVE  <<a, k>> \in HeldBytes' <=> <<a, k>> \in HeldBytes \cup Bytes(b, n)
      <3>1. CASE a = b
        BY Zenon, <1>1, <1>2, <3>1 DEF HeldBytes, Bytes
      <3>2. CASE a # b
        BY Zenon, <1>1, <3>2 DEF HeldBytes, Bytes
      <3> QED
        BY Zenon, <3>1, <3>2
    <2>2. /\ HeldBytes' \subseteq Builders \X (1 .. Limit)
          /\ HeldBytes \cup Bytes(b, n) \subseteq Builders \X (1 .. Limit)
      BY Zenon, <1>3 DEF HeldBytes, Bytes
    <2>3. \A y \in Builders \X (1 .. Limit) :
             \E a \in Builders, k \in 1 .. Limit : y = <<a, k>>
      OBVIOUS
    <2>4. ASSUME NEW y \in Builders \X (1 .. Limit)
          PROVE  y \in HeldBytes' <=> y \in HeldBytes \cup Bytes(b, n)
      <3>1. PICK a \in Builders, k \in 1 .. Limit : y = <<a, k>>
        BY Zenon, <2>3
      <3>2. <<a, k>> \in HeldBytes' <=> <<a, k>> \in HeldBytes \cup Bytes(b, n)
        BY Zenon, <2>1
      <3> QED
        BY Zenon, <3>1, <3>2
    <2> QED
      BY Zenon, <2>2, <2>4
  <1>5. HeldBytes \cap Bytes(b, n) = {}
    BY Zenon DEF HeldBytes, Bytes
  <1>6. IsFiniteSet(Bytes(b, n)) /\ Cardinality(Bytes(b, n)) = n
    BY Zenon, BytesOf
  <1>7. /\ IsFiniteSet(HeldBytes')
        /\ Cardinality(HeldBytes') = Cardinality(HeldBytes) + Cardinality(Bytes(b, n))
                                    - Cardinality(HeldBytes \cap Bytes(b, n))
    BY Zenon, <1>4, <1>6, FS_Union DEF Charges
  <1>8. Cardinality(HeldBytes \cap Bytes(b, n)) = 0 /\ charged = Cardinality(HeldBytes)
    BY Zenon, <1>5, FS_EmptySet DEF Charges, ChargesConserved
  <1>9. charged' \in Nat /\ charged' = Cardinality(HeldBytes') /\ charged' <= Limit
    BY <1>0, <1>6, <1>7, <1>8
  <1> QED
    BY Zenon, <1>7, <1>9 DEF Charges, ChargesConserved

\* The end of a candidate refunds exactly what it held.
LEMMA ChargesDrop ==
    ASSUME Charges, BuilderType, NEW b \in Builders,
           builder[b].pc = "prepared", builder[b].bytes <= Limit, Drop(b)
    PROVE  Charges'
  <1> DEFINE n == builder[b].bytes
  <1>0. Limit \in Nat /\ charged \in Nat
    BY Zenon, PipelineAssumption DEF Charges
  <1>1. n \in Nat
    BY Zenon, BuilderKinds DEF Candidates
  <1>2. /\ builder'[b].pc # "prepared" /\ \A a \in Builders : a # b => builder'[a] = builder[a]
    BY Zenon DEF BuilderType, Drop, Idle
  <1>3. charged' = charged - n /\ n <= Limit
    BY Zenon DEF Drop
  <1>4. \A k \in 1 .. Limit : k <= n <=> k \in 1 .. n
    BY <1>0, <1>1
  <1>5. 1 .. n \subseteq 1 .. Limit
    BY <1>0, <1>1, <1>3
  <1>6. builder[b].pc = "prepared" /\ \A k \in 1 .. Limit : k <= builder[b].bytes <=> k \in 1 .. n
    BY Zenon, <1>4
  <1> HIDE DEF n
  <1>7. HeldBytes' = HeldBytes \ Bytes(b, n) /\ Bytes(b, n) \subseteq HeldBytes
    <2>1. ASSUME NEW a \in Builders, NEW k \in 1 .. Limit
          PROVE  <<a, k>> \in HeldBytes' <=> <<a, k>> \in HeldBytes \ Bytes(b, n)
      <3>1. CASE a = b
        BY Zenon, <1>2, <1>6, <3>1 DEF HeldBytes, Bytes
      <3>2. CASE a # b
        BY Zenon, <1>2, <3>2 DEF HeldBytes, Bytes
      <3> QED
        BY Zenon, <3>1, <3>2
    <2>2. /\ HeldBytes' \subseteq Builders \X (1 .. Limit)
          /\ HeldBytes \subseteq Builders \X (1 .. Limit)
      BY Zenon DEF HeldBytes
    <2>3. \A y \in Builders \X (1 .. Limit) :
             \E a \in Builders, k \in 1 .. Limit : y = <<a, k>>
      OBVIOUS
    <2>4. Bytes(b, n) \subseteq HeldBytes
      BY Zenon, <1>5, <1>6 DEF HeldBytes, Bytes
    <2>5. ASSUME NEW y \in Builders \X (1 .. Limit)
          PROVE  y \in HeldBytes' <=> y \in HeldBytes \ Bytes(b, n)
      <3>1. PICK a \in Builders, k \in 1 .. Limit : y = <<a, k>>
        BY Zenon, <2>3
      <3>2. <<a, k>> \in HeldBytes' <=> <<a, k>> \in HeldBytes \ Bytes(b, n)
        BY Zenon, <2>1
      <3> QED
        BY Zenon, <3>1, <3>2
    <2> QED
      BY Zenon, <2>2, <2>4, <2>5
  <1>8. IsFiniteSet(Bytes(b, n)) /\ Cardinality(Bytes(b, n)) = n
    BY Zenon, <1>1, BytesOf
  <1>9. IsFiniteSet(HeldBytes') /\ Cardinality(HeldBytes') \in Nat
    BY Zenon, <1>7, FS_Subset, FS_CardinalityType DEF Charges
  <1>10. HeldBytes = HeldBytes' \cup Bytes(b, n) /\ HeldBytes' \cap Bytes(b, n) = {}
    BY Zenon, <1>7
  <1>11. Cardinality(HeldBytes' \cup Bytes(b, n)) = Cardinality(HeldBytes')
           + Cardinality(Bytes(b, n)) - Cardinality(HeldBytes' \cap Bytes(b, n))
    BY Zenon, <1>8, <1>9, FS_Union
  <1>12. /\ Cardinality(HeldBytes' \cap Bytes(b, n)) = 0
         /\ charged = Cardinality(HeldBytes' \cup Bytes(b, n)) /\ charged <= Limit
    BY Zenon, <1>10, FS_EmptySet DEF Charges, ChargesConserved
  <1>13. charged' \in Nat /\ charged' = Cardinality(HeldBytes') /\ charged' <= Limit
    BY <1>0, <1>1, <1>3, <1>8, <1>9, <1>11, <1>12
  <1> QED
    BY Zenon, <1>9, <1>13 DEF Charges, ChargesConserved

-----------------------------------------------------------------------------
(* What the builders hold.                                                 *)

Builds ==
    /\ root \in [Sources -> Tokens] /\ BuilderType
    /\ stamp \in Nat \ {0} /\ touched \subseteq Builders
    /\ CandidatesFit /\ TokensAreOwn /\ TouchedHaveDrifted

\* Attempts are never taken back.
Grown == \A t \in Sources : sup[t].next_attempt <= sup'[t].next_attempt

LEMMA InvariantParts ==
    IInv <=> Ledgers /\ Builds /\ Charges
  BY Zenon DEF IInv, TypeOK, Ledgers, Builds, Charges, BuilderType

LEMMA InvariantNext ==
    ASSUME Ledgers', Builds', Charges' PROVE IInv'
  BY Zenon DEF IInv, TypeOK, Ledgers, Builds, Charges, BuilderType

\* The fields of a candidate.
LEMMA CandidateFields ==
    ASSUME BuilderType, NEW b \in Builders, Prepared(b)
    PROVE  /\ builder[b].source \in Sources /\ builder[b].attempt \in Nat
           /\ builder[b].delta \in BOOLEAN /\ builder[b].expected \in Tokens
           /\ builder[b].new \in [Sources -> Tokens] /\ builder[b].bytes \in Nat
  <1>1. builder[b] \in Candidates
    BY Zenon, BuilderKinds DEF Prepared
  <1> QED
    BY Zenon, <1>1 DEF Candidates

\* The fields of whatever a builder holds.
LEMMA HeldFields ==
    ASSUME BuilderType, NEW b \in Builders, builder[b].pc # "idle"
    PROVE  builder[b].source \in Sources /\ builder[b].expected \in Tokens
  <1>1. builder[b] \in Loads \/ builder[b] \in Candidates
    BY Zenon, BuilderKinds
  <1> QED
    BY Zenon, <1>1 DEF Loads, Candidates

\* The attempt of a candidate stays one its supervisor minted.
LEMMA AttemptStays ==
    ASSUME Ledgers, Ledgers', Builds, Grown, NEW b \in Builders, Prepared(b)
    PROVE  builder[b].attempt < sup'[builder[b].source].next_attempt
  <1> DEFINE s == builder[b].source
             i == builder[b].attempt
  <1>1. s \in Sources /\ i \in Nat
    BY Zenon, CandidateFields DEF Builds
  <1>2. i < sup[s].next_attempt
    BY Zenon DEF Builds, CandidatesFit, Fits
  <1>3. sup[s].next_attempt \in Nat /\ sup'[s].next_attempt \in Nat
    BY Zenon, <1>1, SupervisorFields DEF Ledgers
  <1>4. sup[s].next_attempt <= sup'[s].next_attempt
    BY Zenon, <1>1 DEF Grown
  <1> QED
    BY <1>1, <1>2, <1>3, <1>4

\* A step of a supervisor.
LEMMA BuildsFrame ==
    ASSUME Ledgers, Ledgers', Builds, Grown, UNCHANGED <<root, builder, stamp, touched>>
    PROVE  Builds'
  <1>0. root' = root /\ builder' = builder /\ stamp' = stamp /\ touched' = touched
    BY Zenon
  <1>1. CandidatesFit'
    BY Zenon, <1>0, AttemptStays DEF Builds, CandidatesFit, Fits, Prepared
  <1>2. \A k, b : Own(k, b) => Own(k, b)'
    BY Zenon, <1>0 DEF Own, Prepared
  <1>3. TokensAreOwn'
    BY Zenon, <1>0, <1>2 DEF Builds, TokensAreOwn, Prepared
  <1>4. TouchedHaveDrifted'
    BY Zenon, <1>0 DEF Builds, TouchedHaveDrifted
  <1> QED
    BY Zenon, <1>0, <1>1, <1>3, <1>4 DEF Builds, BuilderType

\* What TokensAreOwn says of one candidate.
LEMMA OwnToken ==
    ASSUME Builds, NEW b \in Builders, Prepared(b), NEW s \in Sources,
           builder[b].new[s] \in Content
    PROVE  Own(builder[b].new[s], b)
  BY Zenon DEF Builds, TokensAreOwn

\* A builder lets its candidate go; where the root changes, it is to what the
\* candidate built.
LEMMA BuildsIdle ==
    ASSUME Ledgers, Ledgers', Builds, Grown, NEW b \in Builders,
           builder' = [builder EXCEPT ![b] = Idle], UNCHANGED stamp,
           root' \in [Sources -> Tokens],
           \A t \in Sources : \/ root'[t] = root[t]
                              \/ Prepared(b) /\ root'[t] = builder[b].new[t],
           touched' \subseteq Builders,
           \A a \in touched' : \/ a \in touched
                               \/ root'[builder[a].source] # root[builder[a].source]
    PROVE  Builds'
  <1>0. BuilderType
    BY Zenon DEF Builds
  <1>1. /\ builder'[b] = Idle /\ \A a \in Builders : a # b => builder'[a] = builder[a]
        /\ BuilderType'
    BY Zenon, <1>0 DEF BuilderType
  <1>2. Idle.pc = "idle" /\ "idle" # "prepared"
    BY Zenon DEF Idle
  <1>3. \A a \in Builders : builder'[a].pc # "idle" => a # b /\ builder'[a] = builder[a]
    BY Zenon, <1>1, <1>2
  <1>4. \A a \in Builders : Prepared(a)' =>
           a # b /\ builder'[a] = builder[a] /\ Prepared(a)
    BY Zenon, <1>1, <1>2 DEF Prepared
  <1>5. CandidatesFit'
    <2> SUFFICES ASSUME NEW a \in Builders, Prepared(a)'
                 PROVE  Fits(builder[a])'
      BY Zenon DEF CandidatesFit
    <2>1. builder'[a] = builder[a] /\ Prepared(a)
      BY Zenon, <1>4
    <2>2. builder[a].attempt < sup'[builder[a].source].next_attempt
      BY Zenon, <2>1, AttemptStays
    <2>3. Fits(builder[a])
      BY Zenon, <2>1 DEF Builds, CandidatesFit
    <2> QED
      BY Zenon, <2>1, <2>2, <2>3 DEF Fits
  <1>6. \A s \in Sources : root'[s] \in Content => root'[s] < stamp
    BY Zenon, OwnToken DEF Builds, TokensAreOwn, Own
  <1>7. \A a \in Builders : builder'[a].pc # "idle" /\ builder'[a].expected \in Content =>
           builder'[a].expected < stamp
    BY Zenon, <1>3 DEF Builds, TokensAreOwn
  <1>8. ASSUME NEW a \in Builders, Prepared(a)', NEW s \in Sources,
               builder'[a].new[s] \in Content
        PROVE  Own(builder[a].new[s], a)'
    <2> DEFINE k == builder[a].new[s]
    <2>1. a # b /\ builder'[a] = builder[a] /\ Prepared(a) /\ k \in Content
      BY Zenon, <1>4, <1>8
    <2>2. Own(k, a)
      BY Zenon, <2>1, OwnToken
    <2>3. builder'[a].new[s] = k
      BY Zenon, <2>1
    <2> HIDE DEF k
    <2>4. Prepared(b) => \A t \in Sources : builder[b].new[t] # k
      BY Zenon, <2>1, <2>2 DEF Own
    <2>5. \A t \in Sources : root'[t] # k
      BY Zenon, <2>2, <2>4 DEF Own
    <2>6. \A e \in Builders : builder'[e].pc # "idle" => builder'[e].expected # k
      BY Zenon, <1>3, <2>2 DEF Own
    <2>7. ASSUME NEW e \in Builders \ {a}, Prepared(e)', NEW t \in Sources
          PROVE  builder'[e].new[t] # k
      <3>1. builder'[e] = builder[e] /\ Prepared(e)
        BY Zenon, <1>4, <2>7
      <3> QED
        BY Zenon, <2>2, <3>1 DEF Own
    <2> QED
      BY Zenon, <2>2, <2>3, <2>5, <2>6, <2>7 DEF Own
  <1>9. TokensAreOwn'
    BY Zenon, <1>6, <1>7, <1>8 DEF TokensAreOwn
  <1>10. TouchedHaveDrifted'
    <2> SUFFICES ASSUME NEW a \in touched', builder'[a].pc # "idle",
                        builder'[a].expected \in Content
                 PROVE  root'[builder'[a].source] # builder'[a].expected
      BY Zenon DEF TouchedHaveDrifted
    <2> DEFINE s == builder[a].source
               k == builder[a].expected
    <2>1. a \in Builders
      BY Zenon
    <2>2. builder'[a] = builder[a] /\ builder[a].pc # "idle" /\ k \in Content
      BY Zenon, <1>3, <2>1
    <2>3. s \in Sources
      BY Zenon, <1>0, <2>1, <2>2, HeldFields
    <2>4. CASE root'[s] = root[s]
      <3>1. a \in touched
        BY Zenon, <2>4
      <3> QED
        BY ZenonT(30), <2>2, <2>4, <3>1 DEF Builds, TouchedHaveDrifted
    <2>5. CASE root'[s] # root[s]
      <3>1. Prepared(b) /\ root'[s] = builder[b].new[s]
        BY Zenon, <2>3, <2>5
      <3>2. builder[b].new[s] \in Content => k # builder[b].new[s]
        BY Zenon, <2>1, <2>2, <2>3, <3>1, OwnToken DEF Own
      <3> QED
        BY Zenon, <2>2, <3>1, <3>2
    <2> QED
      BY Zenon, <2>4, <2>5
  <1>11. stamp' \in Nat \ {0}
    BY Zenon DEF Builds
  <1> QED
    BY Zenon, <1>1, <1>5, <1>9, <1>10, <1>11 DEF Builds

\* No token is newer than the next one.
LEMMA TokensAreOld ==
    ASSUME Builds
    PROVE  /\ \A s \in Sources : root[s] # stamp
           /\ \A a \in Builders : builder[a].pc # "idle" => builder[a].expected # stamp
           /\ \A a \in Builders : Prepared(a) =>
                 \A s \in Sources : builder[a].new[s] # stamp
  <1>1. stamp \in Content /\ ~(stamp < stamp)
    BY DEF Builds, Content, MetadataToken
  <1> QED
    BY Zenon, <1>1, OwnToken DEF Builds, TokensAreOwn, Own

\* A builder takes up something new: what the others hold stays theirs.
LEMMA BuildsTake ==
    ASSUME Ledgers, Ledgers', Builds, Grown, UNCHANGED root, NEW b \in Builders, NEW x,
           BuilderType', builder' = [builder EXCEPT ![b] = x],
           stamp' \in {stamp, stamp + 1}, touched' \subseteq Builders,
           \A a \in touched' \ {b} : a \in touched,
           x.pc # "idle" /\ x.expected \in Content =>
              /\ x.expected < stamp
              /\ \A a \in Builders \ {b} : Prepared(a) =>
                    \A s \in Sources : builder[a].new[s] # x.expected
              /\ b \in touched' => root[x.source] # x.expected,
           x.pc = "prepared" =>
              /\ stamp' = stamp + 1 /\ x.attempt < sup'[x.source].next_attempt
              /\ x.delta => \A t \in Sources \ {x.source} : x.new[t] = Absent
              /\ x.bytes <= Limit
              /\ \A s \in Sources : x.new[s] \in Content => x.new[s] = stamp
    PROVE  Builds'
  <1>0. BuilderType /\ stamp \in Nat \ {0} /\ stamp \in Content
    BY Zenon DEF Builds, Content, MetadataToken
  <1>1. builder'[b] = x /\ \A a \in Builders : a # b => builder'[a] = builder[a]
    BY Zenon, <1>0 DEF BuilderType
  <1>2. /\ stamp' \in Nat \ {0} /\ \A k \in Nat : k < stamp => k < stamp'
        /\ \A k \in Content : k \in Nat
    BY <1>0 DEF Content
  <1>3. \A a \in Builders : a # b /\ Prepared(a)' => Prepared(a)
    BY Zenon, <1>1 DEF Prepared
  <1>4. Prepared(b)' => x.pc = "prepared" /\ x.pc # "idle"
    BY Zenon, <1>1 DEF Prepared
  <1>5. CandidatesFit'
    <2> SUFFICES ASSUME NEW a \in Builders, Prepared(a)'
                 PROVE  Fits(builder[a])'
      BY Zenon DEF CandidatesFit
    <2>1. CASE a = b
      <3>1. builder'[a] = x /\ x.pc = "prepared"
        BY Zenon, <1>1, <1>4, <2>1
      <3>2. /\ x.attempt < sup'[x.source].next_attempt
            /\ x.delta => \A t \in Sources \ {x.source} : x.new[t] = Absent
            /\ x.bytes <= Limit
        BY Zenon, <3>1
      <3> QED
        BY Zenon, <3>1, <3>2 DEF Fits
    <2>2. CASE a # b
      <3>1. builder'[a] = builder[a] /\ Prepared(a)
        BY Zenon, <1>1, <1>3, <2>2
      <3>2. builder[a].attempt < sup'[builder[a].source].next_attempt
        BY Zenon, <3>1, AttemptStays
      <3>3. Fits(builder[a])
        BY Zenon, <3>1 DEF Builds, CandidatesFit
      <3> QED
        BY Zenon, <3>1, <3>2, <3>3 DEF Fits
    <2> QED
      BY Zenon, <2>1, <2>2
  <1>6. \A s \in Sources : root'[s] \in Content => root'[s] < stamp'
    BY Zenon, <1>2 DEF Builds, TokensAreOwn
  <1>7. \A a \in Builders : builder'[a].pc # "idle" /\ builder'[a].expected \in Content =>
           builder'[a].expected < stamp'
    BY Zenon, <1>1, <1>2 DEF Builds, TokensAreOwn
  <1>8. ASSUME NEW a \in Builders, Prepared(a)', NEW s \in Sources,
               builder'[a].new[s] \in Content
        PROVE  Own(builder[a].new[s], a)'
    <2>1. CASE a = b
      <3>1. builder'[a].new[s] = stamp /\ stamp' = stamp + 1 /\ x.pc # "idle"
        BY ZenonT(30), <1>1, <1>4, <1>8, <2>1
      <3>2. stamp < stamp'
        BY <1>0, <3>1
      <3>3. \A t \in Sources : root'[t] # stamp
        BY Zenon, TokensAreOld
      <3>4. x.expected # stamp
        BY <1>0, <3>1
      <3>5. \A e \in Builders : builder'[e].pc # "idle" => builder'[e].expected # stamp
        BY Zenon, <1>1, <3>4, TokensAreOld
      <3>6. ASSUME NEW e \in Builders \ {a}, Prepared(e)', NEW t \in Sources
            PROVE  builder'[e].new[t] # stamp
        <4>1. builder'[e] = builder[e] /\ Prepared(e)
          BY Zenon, <1>1, <1>3, <2>1, <3>6
        <4> QED
          BY Zenon, <4>1, TokensAreOld
      <3> QED
        BY Zenon, <3>1, <3>2, <3>3, <3>5, <3>6 DEF Own
    <2>2. CASE a # b
      <3> DEFINE k == builder[a].new[s]
      <3>1. builder'[a] = builder[a] /\ Prepared(a) /\ k \in Content
        BY Zenon, <1>1, <1>3, <1>8, <2>2
      <3>2. Own(k, a)
        BY Zenon, <3>1, OwnToken
      <3>3. builder'[a].new[s] = k /\ k \in Nat /\ k # stamp
        BY Zenon, <1>2, <3>1, TokensAreOld
      <3>4. x.pc # "idle" => x.expected # k
        BY Zenon, <2>2, <3>1
      <3> HIDE DEF k
      <3>5. k < stamp' /\ \A t \in Sources : root'[t] # k
        BY Zenon, <1>2, <3>2, <3>3 DEF Own
      <3>6. \A e \in Builders : builder'[e].pc # "idle" => builder'[e].expected # k
        BY Zenon, <1>1, <3>2, <3>4 DEF Own
      <3>7. ASSUME NEW e \in Builders \ {a}, Prepared(e)', NEW t \in Sources
            PROVE  builder'[e].new[t] # k
        <4>1. CASE e = b
          <5>1. builder'[e] = x /\ x.pc = "prepared"
            BY Zenon, <1>1, <1>4, <3>7, <4>1
          <5>2. x.new[t] \in Content => x.new[t] = stamp
            BY Zenon, <5>1
          <5>3. k \in Content
            BY Zenon, <3>1 DEF k
          <5> QED
            BY Zenon, <3>3, <5>1, <5>2, <5>3
        <4>2. CASE e # b
          <5>1. builder'[e] = builder[e] /\ Prepared(e)
            BY Zenon, <1>1, <1>3, <3>7, <4>2
          <5> QED
            BY Zenon, <3>2, <5>1 DEF Own
        <4> QED
          BY Zenon, <4>1, <4>2
      <3> QED
        BY Zenon, <3>3, <3>5, <3>6, <3>7 DEF Own
    <2> QED
      BY Zenon, <2>1, <2>2
  <1>9. TokensAreOwn'
    BY Zenon, <1>6, <1>7, <1>8 DEF TokensAreOwn
  <1>10. TouchedHaveDrifted'
    BY ZenonT(30), <1>1 DEF Builds, TouchedHaveDrifted
  <1> QED
    BY Zenon, <1>2, <1>5, <1>9, <1>10 DEF Builds

-----------------------------------------------------------------------------
(* What a candidate computes.                                              *)

\* A reservation is never empty.
LEMMA ReservedBytes ==
    ASSUME NEW seen, DOMAIN seen = Sources
    PROVE  reserved_bytes(seen) \in Nat \ {0}
  <1> DEFINE S == {s \in DOMAIN seen : seen[s] = "Content"}
  <1>1. IsFiniteSet(Sources)
    BY Zenon, PipelineAssumption
  <1>2. Cardinality(S) \in Nat
    BY Zenon, <1>1, FS_Subset, FS_CardinalityType
  <1> HIDE DEF S
  <1>3. reserved_bytes(seen) = IF Cardinality(S) = 0 THEN 1 ELSE Cardinality(S)
    BY Zenon DEF reserved_bytes, S
  <1> QED
    BY <1>2, <1>3

\* The artifacts of a build: the new token, a metadata token or none.
LEMMA BuiltTokens ==
    ASSUME NEW seen, DOMAIN seen = Sources, NEW k \in Nat \ {0}
    PROVE  /\ built(seen, k) \in [Sources -> Tokens]
           /\ \A s \in Sources : built(seen, k)[s] \in Content => built(seen, k)[s] = k
           /\ \A s \in Sources : seen[s] = "none" => built(seen, k)[s] = Absent
  <1>1. Absent \notin Nat
    BY Zenon, PipelineAssumption
  <1>2. ASSUME NEW s \in Sources
        PROVE  /\ built(seen, k)[s] \in {k, MetadataToken, Absent}
               /\ seen[s] = "none" => built(seen, k)[s] = Absent
    <2>1. built(seen, k)[s] = CASE seen[s] = "Content"      -> k
                                [] seen[s] = "MetadataOnly" -> MetadataToken
                                [] OTHER                    -> Absent
      BY Zenon DEF built
    <2> QED
      BY Zenon, <2>1
  <1>3. MetadataToken \in Tokens /\ k \in Tokens /\ Absent \in Tokens
    BY Zenon DEF Tokens, MetadataToken
  <1>4. built(seen, k) \in [Sources -> Tokens]
    <2>1. built(seen, k) = [s \in Sources |-> built(seen, k)[s]]
      BY Zenon DEF built
    <2>2. \A s \in Sources : built(seen, k)[s] \in Tokens
      BY Zenon, <1>2, <1>3
    <2> QED
      BY Zenon, <2>1, <2>2
  <1>5. Absent \notin Content /\ MetadataToken \notin Content
    BY Zenon, <1>1 DEF Content
  <1> QED
    BY Zenon, <1>2, <1>4, <1>5

\* A build has one of three outcomes.
LEMMA BuildOutcomes ==
    ASSUME NEW seen
    PROVE  build_outcomes(seen) \subseteq {"Ready", "Classified", "Panicked"}
  BY Zenon DEF build_outcomes

\* prepare_full and prepare_delta reserve, build, and keep the invariant.
LEMMA PrepareStep ==
    ASSUME IInv, NEW b \in Builders, NEW s \in Sources, NEW i, NEW seen,
           DOMAIN seen = Sources, NEW delta \in BOOLEAN, NEW expected \in Tokens,
           builder[b].pc # "prepared",
           \/ expected = Absent
           \/ /\ builder[b].pc # "idle" /\ builder[b].expected = expected
              /\ builder[b].source = s,
           delta => \A t \in Sources \ {s} : seen[t] = "none",
           Prepare(b, s, i, seen, delta, expected)
    PROVE  IInv'
  <1> DEFINE n == reserved_bytes(seen)
  <1>0. Ledgers /\ Builds /\ Charges /\ BuilderType /\ root \in [Sources -> Tokens]
    BY Zenon, InvariantParts DEF Builds
  <1>1. Ledgers' /\ Grown
    BY Zenon, <1>0, LedgersFrame DEF Prepare, historyVars, Grown
  <1>2. CASE Exhausted(seen)
    <2>1. /\ builder' = [builder EXCEPT ![b] = Idle]
          /\ charged' = charged /\ stamp' = stamp /\ root' = root /\ touched' = touched
      BY Zenon, <1>2 DEF Prepare, historyVars
    <2>2. Idle.pc # "prepared"
      BY Zenon DEF Idle
    <2>3. Charges'
      BY Zenon, <1>0, <2>1, <2>2, ChargesFrame
    <2>4. touched' \subseteq Builders
      BY Zenon, <1>0, <2>1 DEF Builds
    <2>5. Builds'
      BY Zenon, <1>0, <1>1, <2>1, <2>4, BuildsIdle
    <2> QED
      BY Zenon, <1>1, <2>3, <2>5, InvariantNext
  <1>3. CASE ~Exhausted(seen)
    <2>1. PICK outcome \in build_outcomes(seen) :
             builder' = [builder EXCEPT ![b] =
                 [pc |-> "prepared", source |-> s, attempt |-> i,
                  delta |-> delta, expected |-> expected, outcome |-> outcome,
                  new |-> IF outcome = "Ready" THEN built(seen, stamp)
                          ELSE [t \in Sources |-> Absent],
                  bytes |-> reserved_bytes(seen)]]
      BY Zenon, <1>3 DEF Prepare
    <2>2. /\ charged' = charged + n /\ stamp' = stamp + 1 /\ i \in tokens[s]
          /\ root' = root /\ touched' = touched /\ sup' = sup
      BY Zenon, <1>3 DEF Prepare, historyVars
    <2> DEFINE new == IF outcome = "Ready" THEN built(seen, stamp)
                      ELSE [t \in Sources |-> Absent]
               x == [pc |-> "prepared", source |-> s, attempt |-> i,
                     delta |-> delta, expected |-> expected, outcome |-> outcome,
                     new |-> new, bytes |-> n]
    <2>3. n \in Nat \ {0} /\ charged \in Nat /\ Limit \in Nat /\ stamp \in Nat \ {0}
      BY Zenon, <1>0, ReservedBytes, PipelineAssumption DEF Charges, Builds
    <2>4. Absent \in Tokens /\ Absent \notin Content
      BY Zenon, PipelineAssumption DEF Tokens, Content
    <2>5. /\ new \in [Sources -> Tokens]
          /\ \A t \in Sources : new[t] \in Content => new[t] = stamp
          /\ \A t \in Sources : seen[t] = "none" => new[t] = Absent
      <3>1. CASE outcome = "Ready"
        <4>1. new = built(seen, stamp)
          BY Zenon, <3>1
        <4>2. /\ built(seen, stamp) \in [Sources -> Tokens]
              /\ \A t \in Sources :
                    built(seen, stamp)[t] \in Content => built(seen, stamp)[t] = stamp
              /\ \A t \in Sources : seen[t] = "none" => built(seen, stamp)[t] = Absent
          BY <2>3, BuiltTokens
        <4> HIDE DEF new
        <4> QED
          BY Zenon, <4>1, <4>2
      <3>2. CASE outcome # "Ready"
        <4>1. new = [t \in Sources |-> Absent]
          BY Zenon, <3>2
        <4> QED
          BY Zenon, <2>4, <4>1
      <3> QED
        BY Zenon, <3>1, <3>2
    <2>6. builder' = [builder EXCEPT ![b] = x]
      BY Zenon, <2>1
    <2> HIDE DEF new, n
    <2>7. /\ x.pc = "prepared" /\ x.source = s /\ x.attempt = i /\ x.delta = delta
          /\ x.expected = expected /\ x.outcome = outcome /\ x.new = new /\ x.bytes = n
      BY Zenon
    <2>8. /\ i < sup'[s].next_attempt /\ i \in Nat
      <3>1. i \in 0 .. sup[s].next_attempt - 1 /\ sup[s] \in Supervisors
        BY Zenon, <1>0, <2>2 DEF Ledgers, AttemptsEnd
      <3>2. sup[s].next_attempt \in Nat
        BY Zenon, <3>1, SupervisorFields
      <3> QED
        BY <2>2, <3>1, <3>2
    <2>9. x \in Candidates
      <3>1. outcome \in {"Ready", "Classified", "Panicked"}
        BY Zenon, BuildOutcomes
      <3>2. n \in Nat
        BY Zenon, <2>3
      <3> QED
        BY Zenon, <2>5, <2>8, <3>1, <3>2 DEF Candidates
    <2> HIDE DEF x
    <2>10. BuilderType'
      BY Zenon, <1>0, <2>6, <2>9 DEF BuilderType
    <2>11. charged + n <= Limit /\ n <= Limit /\ n \in Nat
      BY <1>3, <2>3 DEF Exhausted, n
    <2>12. Charges'
      BY Zenon, <1>0, <2>2, <2>6, <2>7, <2>11, ChargesReserve
    <2>13. touched' \subseteq Builders /\ \A a \in touched' \ {b} : a \in touched
      BY Zenon, <1>0, <2>2 DEF Builds
    <2>14. x.pc # "idle" /\ x.expected \in Content =>
              /\ x.expected < stamp
              /\ \A a \in Builders \ {b} : Prepared(a) =>
                    \A t \in Sources : builder[a].new[t] # x.expected
              /\ b \in touched' => root[x.source] # x.expected
      <3> SUFFICES ASSUME x.expected \in Content
                   PROVE  /\ x.expected < stamp
                          /\ \A a \in Builders \ {b} : Prepared(a) =>
                                \A t \in Sources : builder[a].new[t] # x.expected
                          /\ b \in touched' => root[x.source] # x.expected
        BY Zenon
      <3>1. /\ builder[b].pc # "idle" /\ builder[b].expected = x.expected
            /\ builder[b].source = x.source
        BY Zenon, <2>4, <2>7
      <3>2. x.expected < stamp /\ (b \in touched' => root[x.source] # x.expected)
        BY Zenon, <1>0, <2>2, <3>1 DEF Builds, TokensAreOwn, TouchedHaveDrifted
      <3>3. ASSUME NEW a \in Builders \ {b}, Prepared(a), NEW t \in Sources
            PROVE  builder[a].new[t] # x.expected
        <4>1. builder[a].new[t] \in Content => Own(builder[a].new[t], a)
          BY Zenon, <1>0, <3>3, OwnToken
        <4> QED
          BY Zenon, <3>1, <4>1 DEF Own
      <3> QED
        BY Zenon, <3>2, <3>3
    <2>15. /\ stamp' = stamp + 1 /\ x.attempt < sup'[x.source].next_attempt
           /\ x.delta => \A t \in Sources \ {x.source} : x.new[t] = Absent
           /\ x.bytes <= Limit
           /\ \A t \in Sources : x.new[t] \in Content => x.new[t] = stamp
      BY Zenon, <2>2, <2>5, <2>7, <2>8, <2>11
    <2>16. stamp' \in {stamp, stamp + 1}
      BY Zenon, <2>2
    <2>17. Builds'
      BY ZenonT(30), <1>0, <1>1, <2>2, <2>6, <2>10, <2>13, <2>14, <2>15, <2>16, BuildsTake
    <2> QED
      BY Zenon, <1>1, <2>12, <2>17, InvariantNext
  <1> QED
    BY Zenon, <1>2, <1>3

-----------------------------------------------------------------------------
(* The actions.                                                            *)

LEMMA InitKeeps ==
    ASSUME Init PROVE IInv
  <1>1. Ledgers
    <2> DEFINE v == new_supervisor
    <2>1. /\ v \in Supervisors /\ v.next_attempt = 0 /\ v.live = {} /\ v.superseded = {}
          /\ v.terminal = {} /\ v.committed = 0 /\ v.records = <<>>
      BY DEF new_supervisor, Supervisors
    <2> HIDE DEF v
    <2>2. <<>> \in Seq(Nat) /\ Len(<<>>) = 0 /\ 1 .. 0 = {} /\ 0 .. 0 - 1 = {} /\ 0 <= 0
      OBVIOUS
    <2>3. CommittedFrom(<<>>, 1) = {}
      BY Zenon, <2>2 DEF CommittedFrom
    <2>4. Cardinality(CommittedFrom(<<>>, 1)) = 0
      BY Zenon, <2>3, FS_EmptySet
    <2>5. 0 <= MaxRecords
      BY PipelineAssumption
    <2>6. Agree(<<>>, <<>>)
      BY Zenon, <2>2, <2>3, <2>4, <2>5 DEF Agree, OneRowEach, NewestPublished
    <2>7. Ends(v) /\ Once(v, <<>>)
      BY Zenon, <2>1, <2>2 DEF Ends, Once
    <2>8. \A s \in Sources : sup[s] = v /\ log[s] = <<>> /\ tokens[s] = {} /\ fence[s] = 0
      BY Zenon DEF Init, v
    <2>9. /\ sup \in [Sources -> Supervisors] /\ log \in [Sources -> Seq(Nat)]
          /\ tokens \in [Sources -> SUBSET Nat] /\ fence \in [Sources -> Nat]
      BY <2>1 DEF Init, v
    <2>10. AttemptsEnd
      BY Zenon, <2>1, <2>2, <2>7, <2>8 DEF AttemptsEnd
    <2>11. PublishesOnce
      BY Zenon, <2>7, <2>8 DEF PublishesOnce
    <2>12. LedgersAgree
      BY Zenon, <2>1, <2>6, <2>8 DEF LedgersAgree
    <2> QED
      BY Zenon, <2>9, <2>10, <2>11, <2>12 DEF Ledgers
  <1>2. \A b \in Builders : builder[b] = Idle /\ builder[b].pc = "idle"
    BY Zenon DEF Init, Idle
  <1>3. "idle" # "prepared"
    BY Zenon
  <1>4. Builds
    <2>1. root \in [Sources -> Tokens] /\ \A s \in Sources : root[s] = Absent
      BY Zenon DEF Init, Tokens
    <2>2. Absent \notin Content
      BY Zenon, PipelineAssumption DEF Content
    <2>3. stamp \in Nat \ {0}
      BY DEF Init
    <2>4. TokensAreOwn
      BY Zenon, <1>2, <1>3, <2>1, <2>2 DEF TokensAreOwn, Prepared
    <2>5. CandidatesFit
      BY Zenon, <1>2, <1>3 DEF CandidatesFit, Prepared
    <2>6. BuilderType /\ touched \subseteq Builders /\ TouchedHaveDrifted
      BY Zenon DEF BuilderType, Init, TouchedHaveDrifted
    <2> QED
      BY Zenon, <2>1, <2>3, <2>4, <2>5, <2>6 DEF Builds
  <1>5. Charges
    <2>1. HeldBytes = {}
      <3>1. \A y \in Builders \X (1 .. Limit) : y[1] \in Builders
        BY Zenon
      <3> QED
        BY Zenon, <1>2, <1>3, <3>1 DEF HeldBytes
    <2>2. IsFiniteSet(HeldBytes) /\ Cardinality(HeldBytes) = 0
      BY Zenon, <2>1, FS_EmptySet
    <2>3. charged = 0 /\ 0 \in Nat /\ 0 <= Limit
      BY PipelineAssumption DEF Init
    <2> QED
      BY Zenon, <2>2, <2>3 DEF Charges, ChargesConserved
  <1> QED
    BY Zenon, <1>1, <1>4, <1>5, InvariantParts

\* A step of a supervisor alone keeps the invariant.
LEMMA SupervisorKeeps ==
    ASSUME IInv, Ledgers', Grown, UNCHANGED <<root, builder, charged, stamp, touched>>
    PROVE  IInv'
  <1>1. Ledgers /\ Builds /\ Charges
    BY Zenon, InvariantParts
  <1>2. /\ root' = root /\ builder' = builder /\ charged' = charged
        /\ stamp' = stamp /\ touched' = touched
    BY Zenon
  <1>3. Builds'
    BY Zenon, <1>1, <1>2, BuildsFrame
  <1>4. Charges'
    BY Zenon, <1>1, <1>2 DEF Charges, ChargesConserved, HeldBytes
  <1> QED
    BY Zenon, <1>3, <1>4, InvariantNext

\* begin_attempt lends a new attempt.
LEMMA BeginKeeps ==
    ASSUME IInv, NEW s \in Sources, begin_attempt(s) PROVE IInv'
  <1> DEFINE v == sup[s]
             w == mint(v)
             lent == tokens[s] \cup {v.next_attempt}
  <1>1. Ledgers
    BY Zenon, InvariantParts
  <1>2. Kept(v, log[s], tokens[s], fence[s])
    BY Zenon, <1>1, LedgersBySource
  <1>3. Sound(w, log[s]) /\ w.next_attempt = v.next_attempt + 1 /\ w.terminal = v.terminal
    BY Zenon, <1>2, MintSound DEF Kept
  <1>4. v.next_attempt \in Nat
    BY Zenon, <1>1, SupervisorFields DEF Ledgers
  <1>5. /\ sup' = [sup EXCEPT ![s] = w] /\ tokens' = [tokens EXCEPT ![s] = lent]
        /\ log' = log /\ fence' = fence
    BY Zenon DEF begin_attempt, historyVars
  <1>6. log' = [log EXCEPT ![s] = log[s]] /\ fence' = [fence EXCEPT ![s] = fence[s]]
    BY Zenon, <1>1, <1>5 DEF Ledgers
  <1> HIDE DEF v, w
  <1>7. /\ v.next_attempt <= w.next_attempt /\ fence[s] <= w.next_attempt
        /\ lent \subseteq 0 .. w.next_attempt - 1
    BY <1>2, <1>3, <1>4 DEF Kept
  <1> HIDE DEF lent
  <1>8. Kept(w, log[s], lent, fence[s])
    BY Zenon, <1>2, <1>3, <1>7 DEF Kept
  <1>9. Ledgers' /\ Grown
    BY Zenon, <1>1, <1>5, <1>6, <1>7, <1>8, SupervisorStep DEF Grown, v
  <1> QED
    BY Zenon, <1>9, SupervisorKeeps DEF begin_attempt, historyVars

\* A retry trigger lends a new attempt and fences off the ones before it.
LEMMA RetryKeeps ==
    ASSUME IInv, NEW s \in Sources, RetryTrigger(s) PROVE IInv'
  <1> DEFINE v == sup[s]
             w == retry_trigger(v)
             lent == tokens[s] \cup {v.next_attempt}
             f == v.next_attempt
  <1>1. Ledgers
    BY Zenon, InvariantParts
  <1>2. Kept(v, log[s], tokens[s], fence[s])
    BY Zenon, <1>1, LedgersBySource
  <1>3. /\ Sound(w, log[s]) /\ w.next_attempt = v.next_attempt + 1
        /\ 0 .. v.next_attempt - 1 \subseteq w.terminal
    BY Zenon, <1>2, RetrySound DEF Kept
  <1>4. v.next_attempt \in Nat
    BY Zenon, <1>1, SupervisorFields DEF Ledgers
  <1>5. /\ sup' = [sup EXCEPT ![s] = w] /\ tokens' = [tokens EXCEPT ![s] = lent]
        /\ log' = log /\ fence' = [fence EXCEPT ![s] = f]
    BY Zenon DEF RetryTrigger
  <1>6. log' = [log EXCEPT ![s] = log[s]]
    BY Zenon, <1>1, <1>5 DEF Ledgers
  <1> HIDE DEF v, w
  <1>7. /\ v.next_attempt <= w.next_attempt
        /\ lent \subseteq 0 .. w.next_attempt - 1
    BY <1>2, <1>3, <1>4 DEF Kept
  <1> HIDE DEF lent
  <1>8. Kept(w, log[s], lent, f)
    BY Zenon, <1>2, <1>3, <1>4, <1>7 DEF Kept
  <1> HIDE DEF f
  <1>9. Ledgers' /\ Grown
    BY Zenon, <1>1, <1>5, <1>6, <1>7, <1>8, SupervisorStep DEF Grown, v
  <1> QED
    BY Zenon, <1>9, SupervisorKeeps DEF RetryTrigger

\* A supervisor after a candidate's or a caller's end of one attempt.
LEMMA EndOfAttempt ==
    ASSUME Ledgers, NEW s \in Sources, NEW w, NEW pub, NEW lent,
           Sound(w, pub), w.next_attempt = sup[s].next_attempt,
           sup[s].terminal \subseteq w.terminal, lent \subseteq tokens[s],
           sup' = [sup EXCEPT ![s] = w], log' = [log EXCEPT ![s] = pub],
           tokens' = [tokens EXCEPT ![s] = lent], UNCHANGED fence
    PROVE  Ledgers' /\ Grown
  <1>1. Kept(sup[s], log[s], tokens[s], fence[s])
    BY Zenon, LedgersBySource
  <1>2. fence' = [fence EXCEPT ![s] = fence[s]]
    BY Zenon DEF Ledgers
  <1>3. Kept(w, pub, lent, fence[s])
    BY Zenon, <1>1 DEF Kept
  <1>4. sup[s].next_attempt \in Nat
    BY Zenon, SupervisorFields DEF Ledgers
  <1>5. sup[s].next_attempt <= w.next_attempt
    BY <1>4
  <1> QED
    BY Zenon, <1>2, <1>3, <1>5, SupervisorStep DEF Grown

\* cancel consumes the attempt.
LEMMA CancelKeeps ==
    ASSUME IInv, NEW s \in Sources, NEW i \in tokens[s], cancel(s, i) PROVE IInv'
  <1> DEFINE w == terminal_row(sup[s], i, "Cancelled")
  <1>1. Ledgers
    BY Zenon, InvariantParts
  <1>2. Sound(sup[s], log[s]) /\ i \in 0 .. sup[s].next_attempt - 1
    BY Zenon, <1>1, LedgersBySource DEF Kept
  <1>3. "Cancelled" \in Dispositions \ {"Committed"}
    BY Zenon DEF Dispositions
  <1>4. /\ Sound(w, log[s]) /\ w.next_attempt = sup[s].next_attempt
        /\ sup[s].terminal \subseteq w.terminal
    BY Zenon, <1>2, <1>3, RowSound
  <1>5. /\ sup' = [sup EXCEPT ![s] = w] /\ tokens' = [tokens EXCEPT ![s] = tokens[s] \ {i}]
        /\ log' = log /\ fence' = fence
    BY Zenon DEF cancel, historyVars
  <1>6. log' = [log EXCEPT ![s] = log[s]] /\ tokens[s] \ {i} \subseteq tokens[s]
    BY Zenon, <1>1, <1>5 DEF Ledgers
  <1> HIDE DEF w
  <1>7. Ledgers' /\ Grown
    BY ZenonT(30), <1>1, <1>4, <1>5, <1>6, EndOfAttempt
  <1> QED
    BY Zenon, <1>7, SupervisorKeeps DEF cancel, historyVars

\* A delta's caller loads the token its source has now.
LEMMA LoadKeeps ==
    ASSUME IInv, NEW b \in Builders, NEW s \in Sources, LoadExpected(b, s) PROVE IInv'
  <1> DEFINE x == Loaded(s, root[s])
  <1>1. Ledgers /\ Builds /\ Charges /\ BuilderType /\ root \in [Sources -> Tokens]
    BY Zenon, InvariantParts DEF Builds
  <1>2. /\ builder[b].pc = "idle" /\ builder' = [builder EXCEPT ![b] = x]
        /\ touched' = touched \ {b} /\ sup' = sup /\ tokens' = tokens /\ root' = root
        /\ charged' = charged /\ stamp' = stamp /\ log' = log /\ fence' = fence
    BY Zenon DEF LoadExpected
  <1>3. Ledgers' /\ Grown
    BY Zenon, <1>1, <1>2, LedgersFrame DEF Grown
  <1>4. /\ x \in Loads /\ x.pc = "loaded" /\ x.source = s /\ x.expected = root[s]
        /\ "loaded" # "prepared" /\ "loaded" # "idle" /\ "idle" # "prepared"
    BY Zenon, <1>1 DEF Loaded, Loads
  <1> HIDE DEF x
  <1>5. BuilderType'
    BY Zenon, <1>1, <1>2, <1>4 DEF BuilderType
  <1>6. Charges'
    BY Zenon, <1>1, <1>2, <1>4, ChargesFrame
  <1>7. /\ touched' \subseteq Builders /\ b \notin touched'
        /\ \A a \in touched' \ {b} : a \in touched
    BY Zenon, <1>1, <1>2 DEF Builds
  <1>8. x.pc # "idle" /\ x.expected \in Content =>
           /\ x.expected < stamp
           /\ \A a \in Builders \ {b} : Prepared(a) =>
                 \A t \in Sources : builder[a].new[t] # x.expected
           /\ b \in touched' => root[x.source] # x.expected
    <2> SUFFICES ASSUME x.expected \in Content
                 PROVE  /\ x.expected < stamp
                        /\ \A a \in Builders \ {b} : Prepared(a) =>
                              \A t \in Sources : builder[a].new[t] # x.expected
      BY Zenon, <1>7
    <2>1. x.expected < stamp
      BY Zenon, <1>1, <1>4 DEF Builds, TokensAreOwn
    <2>2. ASSUME NEW a \in Builders \ {b}, Prepared(a), NEW t \in Sources
          PROVE  builder[a].new[t] # x.expected
      <3>1. builder[a].new[t] \in Content => Own(builder[a].new[t], a)
        BY Zenon, <1>1, <2>2, OwnToken
      <3> QED
        BY Zenon, <1>4, <3>1 DEF Own
    <2> QED
      BY Zenon, <2>1, <2>2
  <1>9. stamp' \in {stamp, stamp + 1} /\ x.pc # "prepared"
    BY Zenon, <1>2, <1>4
  <1>10. Builds'
    BY ZenonT(30), <1>1, <1>2, <1>3, <1>5, <1>7, <1>8, <1>9, BuildsTake
  <1> QED
    BY Zenon, <1>3, <1>6, <1>10, InvariantNext

LEMMA FullKeeps ==
    ASSUME IInv, NEW b \in Builders, prepare_full(b) PROVE IInv'
  <1>1. PICK s \in Sources : \E i \in tokens[s] : \E seen \in [Sources -> Observable] :
           Prepare(b, s, i, seen, FALSE, Absent)
    BY Zenon DEF prepare_full
  <1>2. PICK i \in tokens[s] : \E seen \in [Sources -> Observable] :
           Prepare(b, s, i, seen, FALSE, Absent)
    BY Zenon, <1>1
  <1>3. PICK seen \in [Sources -> Observable] : Prepare(b, s, i, seen, FALSE, Absent)
    BY Zenon, <1>2
  <1>4. DOMAIN seen = Sources /\ FALSE \in BOOLEAN /\ Absent \in Tokens
    BY Zenon DEF Tokens
  <1>5. builder[b].pc = "idle" /\ "idle" # "prepared"
    BY Zenon DEF prepare_full
  <1> QED
    BY Zenon, <1>3, <1>4, <1>5, PrepareStep

LEMMA DeltaKeeps ==
    ASSUME IInv, NEW b \in Builders, prepare_delta(b) PROVE IInv'
  <1> DEFINE s == builder[b].source
             expected == builder[b].expected
             seen(o) == [t \in Sources |-> IF t = s THEN o ELSE "none"]
  <1>1. builder[b].pc = "loaded" /\ "loaded" # "prepared" /\ "loaded" # "idle"
    BY Zenon DEF prepare_delta
  <1>2. PICK i \in tokens[s], o \in Observable \ {"none"} :
           Prepare(b, s, i, seen(o), TRUE, expected)
    BY Zenon DEF prepare_delta
  <1>3. BuilderType
    BY Zenon, InvariantParts DEF Builds
  <1>4. s \in Sources /\ expected \in Tokens
    BY Zenon, <1>1, <1>3, HeldFields
  <1>5. /\ DOMAIN seen(o) = Sources /\ TRUE \in BOOLEAN
        /\ \A t \in Sources \ {s} : seen(o)[t] = "none"
    BY Zenon
  <1> HIDE DEF seen
  <1> QED
    BY Zenon, <1>1, <1>2, <1>4, <1>5, PrepareStep

\* A dropped candidate leaves nothing behind.
LEMMA DropKeeps ==
    ASSUME IInv, NEW b \in Builders, DropCandidate(b) PROVE IInv'
  <1>1. Ledgers /\ Builds /\ Charges /\ BuilderType /\ root \in [Sources -> Tokens]
    BY Zenon, InvariantParts DEF Builds
  <1>2. /\ builder[b].pc = "prepared" /\ Drop(b) /\ builder' = [builder EXCEPT ![b] = Idle]
        /\ sup' = sup /\ tokens' = tokens /\ root' = root /\ stamp' = stamp
        /\ log' = log /\ fence' = fence /\ touched' = touched
    BY Zenon DEF DropCandidate, Drop, historyVars
  <1>3. Ledgers' /\ Grown
    BY Zenon, <1>1, <1>2, LedgersFrame DEF Grown
  <1>4. builder[b].bytes <= Limit
    BY Zenon, <1>1, <1>2 DEF Builds, CandidatesFit, Fits, Prepared
  <1>5. Charges'
    BY Zenon, <1>1, <1>2, <1>4, ChargesDrop
  <1>6. touched' \subseteq Builders
    BY Zenon, <1>1, <1>2 DEF Builds
  <1>7. Builds'
    BY Zenon, <1>1, <1>2, <1>3, <1>6, BuildsIdle
  <1> QED
    BY Zenon, <1>3, <1>5, <1>7, InvariantNext

\* What a commit does to the supervisors: an attempt that ended is refused, a
\* failed or drifted candidate publishes nothing, and the others publish.
LEMMA CommitLedgers ==
    ASSUME IInv, NEW b \in Builders, commit(b) PROVE Ledgers' /\ Grown
  <1> DEFINE s == builder[b].source
             i == builder[b].attempt
             v == sup[s]
  <1>1. Ledgers /\ Builds /\ BuilderType /\ Prepared(b) /\ tokens' = tokens /\ fence' = fence
    BY Zenon, InvariantParts DEF Builds, commit, Prepared
  <1>2. s \in Sources /\ i \in Nat
    BY Zenon, <1>1, CandidateFields
  <1>3. Sound(v, log[s]) /\ v \in Supervisors
    BY Zenon, <1>1, <1>2, LedgersBySource DEF Kept, Sound
  <1>4. i < v.next_attempt /\ v.next_attempt \in Nat
    BY Zenon, <1>1, <1>3, SupervisorFields DEF Builds, CandidatesFit, Fits
  <1>5. i \in 0 .. v.next_attempt - 1
    BY <1>2, <1>4
  <1>6. /\ tokens' = [tokens EXCEPT ![s] = tokens[s]] /\ tokens[s] \subseteq tokens[s]
        /\ log = [log EXCEPT ![s] = log[s]]
    BY Zenon, <1>1 DEF Ledgers
  <1>7. CASE sup' = sup /\ log' = log
    BY Zenon, <1>1, <1>7, LedgersFrame DEF Grown
  <1>8. ASSUME NEW e \in Dispositions \ {"Committed"}, log' = log,
               sup' = [sup EXCEPT ![s] = terminal_row(v, i, e)]
        PROVE  Ledgers' /\ Grown
    <2> DEFINE w == terminal_row(v, i, e)
    <2>1. /\ Sound(w, log[s]) /\ w.next_attempt = v.next_attempt
          /\ v.terminal \subseteq w.terminal
      BY Zenon, <1>3, <1>5, RowSound
    <2>2. sup' = [sup EXCEPT ![s] = w] /\ log' = [log EXCEPT ![s] = log[s]]
      BY Zenon, <1>6, <1>8
    <2> HIDE DEF w
    <2> QED
      BY Zenon, <1>1, <1>2, <1>6, <2>1, <2>2, EndOfAttempt
  <1>9. CASE /\ ~Refused(s, i) /\ sup' = [sup EXCEPT ![s] = record_commit(v, i)]
             /\ log' = [log EXCEPT ![s] = Append(log[s], i)]
    <2> DEFINE w == record_commit(v, i)
               pub == Append(log[s], i)
    <2>1. i \notin v.terminal
      BY Zenon, <1>9 DEF Refused
    <2>2. /\ Sound(w, pub) /\ w.next_attempt = v.next_attempt
          /\ v.terminal \subseteq w.terminal
      BY Zenon, <1>3, <1>5, <2>1, CommitSound
    <2>3. sup' = [sup EXCEPT ![s] = w] /\ log' = [log EXCEPT ![s] = pub]
      BY Zenon, <1>9
    <2> HIDE DEF w, pub
    <2> QED
      BY Zenon, <1>1, <1>2, <1>6, <2>2, <2>3, EndOfAttempt
  <1>10. \/ sup' = sup /\ log' = log
         \/ /\ log' = log /\ sup' = [sup EXCEPT ![s] = terminal_row(v, i, "Discarded")]
         \/ /\ log' = log /\ sup' = [sup EXCEPT ![s] = terminal_row(v, i, "Panicked")]
         \/ /\ ~Refused(s, i) /\ sup' = [sup EXCEPT ![s] = record_commit(v, i)]
            /\ log' = [log EXCEPT ![s] = Append(log[s], i)]
    BY Zenon DEF commit
  <1>11. {"Discarded", "Panicked"} \subseteq Dispositions \ {"Committed"}
    BY Zenon DEF Dispositions
  <1> HIDE DEF s, i, v
  <1> QED
    BY Zenon, <1>7, <1>8, <1>9, <1>10, <1>11

\* A commit changes the root to what its candidate built, a delta at its own
\* source alone and only when that has the token its caller loaded.
LEMMA CommitRoot ==
    ASSUME IInv, NEW b \in Builders, commit(b)
    PROVE  /\ root' \in [Sources -> Tokens]
           /\ \A t \in Sources : root'[t] = root[t] \/ root'[t] = builder[b].new[t]
           /\ builder[b].delta =>
                 \A t \in Sources \ {builder[b].source} : root'[t] = root[t]
           /\ root' # root => ~Drifted(builder[b])
  <1> DEFINE c == builder[b]
  <1>1. Builds /\ BuilderType /\ Prepared(b) /\ root \in [Sources -> Tokens]
    BY Zenon, InvariantParts DEF Builds, commit, Prepared
  <1>2. c.delta \in BOOLEAN /\ c.new \in [Sources -> Tokens]
    BY Zenon, <1>1, CandidateFields
  <1>3. c.delta => \A t \in Sources \ {c.source} : c.new[t] = Absent
    BY Zenon, <1>1 DEF Builds, CandidatesFit, Fits
  <1>4. \/ root' = root
        \/ ~Drifted(c) /\ root' = publish(root, c.new, c.delta)
    BY Zenon DEF commit
  <1> HIDE DEF c
  <1>5. CASE root' = root
    BY Zenon, <1>1, <1>5 DEF c
  <1>6. CASE ~Drifted(c) /\ root' = publish(root, c.new, c.delta)
    <2>1. CASE ~c.delta
      <3>1. root' = c.new
        BY Zenon, <1>6, <2>1 DEF publish
      <3> QED
        BY Zenon, <1>2, <1>6, <2>1, <3>1 DEF c
    <2>2. CASE c.delta
      <3>1. root' = [t \in Sources |-> IF c.new[t] # Absent THEN c.new[t] ELSE root[t]]
        BY <1>1, <1>6, <2>2 DEF publish
      <3>2. root' \in [Sources -> Tokens]
        BY <1>1, <1>2, <3>1
      <3>3. \A t \in Sources : root'[t] = root[t] \/ root'[t] = c.new[t]
        BY Zenon, <3>1
      <3>4. \A t \in Sources \ {c.source} : root'[t] = root[t]
        BY ZenonT(30), <1>3, <2>2, <3>1
      <3> QED
        BY Zenon, <1>6, <3>2, <3>3, <3>4 DEF c
    <2> QED
      BY Zenon, <2>1, <2>2
  <1> QED
    BY Zenon, <1>4, <1>5, <1>6

\* The commit point keeps the invariant.
LEMMA CommitKeeps ==
    ASSUME IInv, NEW b \in Builders, commit(b) PROVE IInv'
  <1>1. Ledgers /\ Builds /\ Charges /\ BuilderType
    BY Zenon, InvariantParts DEF Builds
  <1>2. /\ builder[b].pc = "prepared" /\ Drop(b) /\ stamp' = stamp
        /\ builder' = [builder EXCEPT ![b] = Idle]
        /\ touched' = touched \cup
              {a \in Builders : /\ builder[a].pc # "idle"
                                /\ root'[builder[a].source] # root[builder[a].source]}
    BY Zenon DEF commit, Drop
  <1>3. Ledgers' /\ Grown
    BY Zenon, CommitLedgers
  <1>4. Prepared(b) /\ builder[b].bytes <= Limit
    BY Zenon, <1>1, <1>2 DEF Builds, CandidatesFit, Fits, Prepared
  <1>5. Charges'
    BY Zenon, <1>1, <1>2, <1>4, ChargesDrop
  <1>6. /\ root' \in [Sources -> Tokens]
        /\ \A t \in Sources : root'[t] = root[t] \/ (Prepared(b) /\ root'[t] = builder[b].new[t])
    BY Zenon, <1>4, CommitRoot
  <1>7. /\ touched' \subseteq Builders
        /\ \A a \in touched' : \/ a \in touched
                               \/ root'[builder[a].source] # root[builder[a].source]
    BY Zenon, <1>1, <1>2 DEF Builds
  <1>8. Builds'
    BY Zenon, <1>1, <1>2, <1>3, <1>6, <1>7, BuildsIdle
  <1> QED
    BY Zenon, <1>3, <1>5, <1>8, InvariantNext

LEMMA NextKeeps ==
    ASSUME IInv, [Next]_vars PROVE IInv'
  <1>1. ASSUME NEW s \in Sources,
               begin_attempt(s) \/ RetryTrigger(s) \/ \E i \in tokens[s] : cancel(s, i)
        PROVE  IInv'
    BY Zenon, <1>1, BeginKeeps, RetryKeeps, CancelKeeps
  <1>2. ASSUME NEW b \in Builders,
               \/ \E s \in Sources : LoadExpected(b, s)
               \/ prepare_full(b) \/ prepare_delta(b) \/ DropCandidate(b) \/ commit(b)
        PROVE  IInv'
    BY ZenonT(30), <1>2, LoadKeeps, FullKeeps, DeltaKeeps, DropKeeps, CommitKeeps
  <1>3. CASE UNCHANGED vars
    <2>1. /\ Ledgers' /\ Grown /\ UNCHANGED <<root, builder, charged, stamp, touched>>
      BY Zenon, <1>3, InvariantParts, LedgersFrame DEF vars, historyVars, Grown
    <2> QED
      BY Zenon, <2>1, SupervisorKeeps
  <1> QED
    BY Zenon, <1>1, <1>2, <1>3 DEF Next

-----------------------------------------------------------------------------
(* Theorems.                                                               *)

\* Every operation of the supervisors, the builders and the commit point keeps
\* the invariant.
THEOREM PipelineInvariant == Spec => []IInv
  BY InitKeeps, NextKeeps, PTL DEF Spec

\* An attempt publishes at most once, and committed_generations counts exactly
\* the attempts that published; a superseded attempt is none of them.
THEOREM AttemptsPublishOnce == Spec => []PublishesOnce
  <1>1. IInv => PublishesOnce
    BY Zenon DEF IInv
  <1> QED
    BY <1>1, PipelineInvariant, PTL

\* The bounded diagnostics ledger holds one row an attempt, and its Committed
\* rows are the newest published attempts in order.
THEOREM TheLedgersAgree == Spec => []LedgersAgree
  <1>1. IInv => LedgersAgree
    BY Zenon DEF IInv
  <1> QED
    BY <1>1, PipelineInvariant, PTL

\* Every end of a candidate (a drop, a refusal, a failure or a publication)
\* refunds its charge once, and the charge is never beyond the limit.
THEOREM CandidateChargesConserved == Spec => []ChargesConserved
  <1>1. IInv => ChargesConserved
    BY Zenon DEF IInv
  <1> QED
    BY <1>1, PipelineInvariant, PTL

\* A commit after a retry trigger publishes an attempt minted by that trigger
\* or later.
THEOREM RetriesFence == Spec => RetryFencesOldBuilds
  <1> DEFINE Fenced == log' # log =>
                          \A s \in Sources : log'[s] # log[s] =>
                             log'[s][Len(log'[s])] >= fence[s]
  <1>1. ASSUME IInv, NEW b \in Builders, commit(b), log' # log,
               NEW s \in Sources, log'[s] # log[s]
        PROVE  log'[s][Len(log'[s])] >= fence[s]
    <2> DEFINE i == builder[b].attempt
    <2>1. /\ ~Refused(builder[b].source, i)
          /\ log' = [log EXCEPT ![builder[b].source] = Append(log[builder[b].source], i)]
      BY Zenon, <1>1 DEF commit
    <2>2. Ledgers /\ BuilderType /\ Prepared(b) /\ log \in [Sources -> Seq(Nat)]
      BY Zenon, <1>1, InvariantParts DEF Builds, commit, Prepared, Ledgers
    <2>3. builder[b].source = s /\ i \in Nat
      BY Zenon, <1>1, <2>1, <2>2, CandidateFields
    <2>4. log'[s] = Append(log[s], i) /\ log[s] \in Seq(Nat)
      BY Zenon, <2>1, <2>2, <2>3
    <2>5. i \notin sup[s].terminal
      BY Zenon, <2>1, <2>3 DEF Refused
    <2>6. 0 .. fence[s] - 1 \subseteq sup[s].terminal /\ fence[s] \in Nat
      BY Zenon, <2>2, LedgersBySource DEF Kept
    <2> HIDE DEF i
    <2>7. i >= fence[s]
      BY <2>3, <2>5, <2>6
    <2>8. log'[s][Len(log'[s])] = i
      BY <2>3, <2>4
    <2> QED
      BY Zenon, <2>7, <2>8
  <1>2. ASSUME [Next]_vars, log' # log PROVE \E b \in Builders : commit(b)
    BY ZenonT(30), <1>2 DEF Next, begin_attempt, RetryTrigger, cancel, LoadExpected, prepare_full,
       prepare_delta, Prepare, DropCandidate, vars, historyVars
  <1>3. IInv /\ [Next]_vars => [Fenced]_vars
    BY Zenon, <1>1, <1>2
  <1> QED
    BY <1>3, PipelineInvariant, PTL DEF Spec, RetryFencesOldBuilds

\* The exact validation at the commit point: a delta over indexed content never
\* publishes once its source was republished, however the tokens came and went.
THEOREM DeltasReplaceWhatTheyLoaded == Spec => DeltaReplacesWhatItLoaded
  <1> DEFINE Exact == root' # root =>
                         \A b \in Builders :
                            (/\ commit(b) /\ builder[b].delta
                             /\ builder[b].expected \notin {Absent, MetadataToken})
                            => b \notin touched
  <1>1. ASSUME IInv, root' # root, NEW b \in Builders, commit(b), builder[b].delta,
               builder[b].expected \notin {Absent, MetadataToken}
        PROVE  b \notin touched
    <2>1. Builds /\ BuilderType /\ Prepared(b)
      BY Zenon, <1>1, InvariantParts DEF Builds, commit, Prepared
    <2>2. builder[b].expected \in Content
      BY Zenon, <1>1, <2>1, CandidateFields DEF Tokens, Content
    <2>3. root[builder[b].source] = builder[b].expected
      BY Zenon, <1>1, CommitRoot DEF Drifted
    <2>4. builder[b].pc # "idle"
      BY Zenon, <2>1 DEF Prepared
    <2> QED
      BY Zenon, <2>1, <2>2, <2>3, <2>4 DEF Builds, TouchedHaveDrifted
  <1>2. IInv => [Exact]_vars
    BY Zenon, <1>1
  <1> QED
    BY <1>2, PipelineInvariant, PTL DEF Spec, DeltaReplacesWhatItLoaded

\* A delta's commit leaves every other source of the root as it is.
THEOREM DeltasSpareSiblings == Spec => SiblingsSurvive
  <1> DEFINE Spared == root' # root =>
                          \A b \in Builders :
                             commit(b) /\ builder[b].delta =>
                                \A s \in Sources \ {builder[b].source} : root'[s] = root[s]
  <1>1. IInv => [Spared]_vars
    BY Zenon, CommitRoot
  <1> QED
    BY <1>1, PipelineInvariant, PTL DEF Spec, SiblingsSurvive
=============================================================================
