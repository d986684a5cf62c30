------------------------ MODULE CapacityLedgerProofs ------------------------
(***************************************************************************)
(* For any pools, owners and sizes: no owner is charged beyond its limit   *)
(* and no refund is unknown.  The invariant IInv is inductive because a    *)
(* row goes only when nothing is outstanding on it, and because two live   *)
(* values never share a charge, so one refund cannot take another's.       *)
(***************************************************************************)
EXTENDS CapacityLedger, FiniteSetTheorems, TLAPS

\* What refunding a live value of the ledger does: its own charge goes from its
\* owner's row, no other charge does, and nothing is counted unknown.
LEMMA RefundEffect ==
    ASSUME IInv, NEW h \in Held, refund(h)
    PROVE  /\ unknown_refunds' = unknown_refunds
           /\ charged' \in [Owners -> Nat]
           /\ \A o \in Owners : charged'[o] <= charged[o]
           /\ outstanding' \in [Owners -> SUBSET Charges]
           /\ \A o \in Owners : outstanding'[o] \subseteq outstanding[o]
           /\ \A g \in Held : g # h /\ ChargeOf(g) \in outstanding[g.owner]
                                    => ChargeOf(g) \in outstanding'[g.owner]
  <1>1. /\ pool[h.owner] = h.pool /\ ChargeOf(h) \in outstanding[h.owner]
        /\ \A g \in Held : g.charge = h.charge => g = h
    BY Zenon DEF IInv, HeldChargesAreRecorded
  <1>2. /\ outstanding' = [outstanding EXCEPT ![h.owner] = @ \ {ChargeOf(h)}]
        /\ charged' = [charged EXCEPT ![h.owner] = Minus(@, h.bytes)]
        /\ unknown_refunds' = unknown_refunds
    BY Zenon, <1>1 DEF refund
  <1>3. /\ h.owner \in Owners /\ h.bytes \in Nat
        /\ charged \in [Owners -> Nat]
        /\ outstanding \in [Owners -> SUBSET Charges]
    BY Zenon DEF IInv, TypeOK, Held, Holdings
  <1>4. /\ charged' \in [Owners -> Nat]
        /\ \A o \in Owners : charged'[o] <= charged[o]
    <2>1. Minus(charged[h.owner], h.bytes) \in Nat
          /\ Minus(charged[h.owner], h.bytes) <= charged[h.owner]
      BY <1>3 DEF Minus
    <2>2. \A o \in Owners : charged[o] \in Nat /\ charged[o] <= charged[o]
      BY <1>3
    <2> QED
      BY Zenon, <1>2, <1>3, <2>1, <2>2
  <1>5. /\ outstanding' \in [Owners -> SUBSET Charges]
        /\ \A o \in Owners : outstanding'[o] \subseteq outstanding[o]
    BY Zenon, <1>2, <1>3
  <1>6. ASSUME NEW g \in Held, g # h, ChargeOf(g) \in outstanding[g.owner]
        PROVE  ChargeOf(g) \in outstanding'[g.owner]
    <2>1. ChargeOf(g) # ChargeOf(h)
      BY Zenon, <1>1, <1>6 DEF ChargeOf
    <2>2. g.owner \in Owners
      BY Zenon DEF IInv, TypeOK, Held, Holdings
    <2> QED
      BY Zenon, <1>2, <1>3, <1>6, <2>1, <2>2
  <1> QED
    BY Zenon, <1>2, <1>4, <1>5, <1>6

\* Fewer live values, each with its charge still recorded, is all a refund
\* leaves behind.
LEMMA ReleaseKeeps ==
    ASSUME IInv, NEW h \in Held, refund(h),
           UNCHANGED <<minted, pool, limit, parent, nextCharge>>,
           grants' \subseteq grants, permits' \subseteq permits, h \notin Held'
    PROVE  IInv'
  <1>1. Held' \subseteq Held /\ h \notin Held'
    BY Zenon DEF Held
  <1>2. TypeOK'
    <2>1. \A o \in Owners : charged'[o] <= limit'[o]
      BY RefundEffect DEF IInv, TypeOK
    <2> QED
      BY Zenon, <2>1, RefundEffect DEF IInv, TypeOK
  <1>3. HeldChargesAreRecorded'
    <2>1. unknown_refunds' = 0
      BY Zenon, RefundEffect DEF IInv, HeldChargesAreRecorded
    <2>2. ASSUME NEW g \in Held'
          PROVE  pool'[g.owner] = g.pool /\ ChargeOf(g) \in outstanding'[g.owner]
      BY Zenon, <1>1, RefundEffect DEF IInv, HeldChargesAreRecorded
    <2> QED
      BY Zenon, <2>1, <2>2 DEF HeldChargesAreRecorded
  <1>4. /\ \A g \in Held' : g.charge < nextCharge'
        /\ \A f, g \in Held' : f.charge = g.charge => f = g
        /\ grants' \cap permits' = {}
    BY Zenon, <1>1 DEF IInv
  <1>5. UnmintedIsEmpty'
    BY RefundEffect DEF IInv, TypeOK, UnmintedIsEmpty
  <1> QED
    BY Zenon, <1>2, <1>3, <1>4, <1>5 DEF IInv

\* A step that touches no charge and no live value keeps what relates them, as
\* long as the rows with outstanding charges stay where they are.
LEMMA OwnersKeep ==
    ASSUME IInv, TypeOK', UnmintedIsEmpty',
           UNCHANGED <<outstanding, grants, permits, nextCharge, unknown_refunds>>,
           \A o \in Owners : outstanding[o] # {} => pool'[o] = pool[o]
    PROVE  IInv'
  <1>1. \A h \in Held : h.owner \in Owners /\ outstanding[h.owner] # {}
    BY Zenon DEF IInv, TypeOK, HeldChargesAreRecorded, Held, Holdings
  <1>2. HeldChargesAreRecorded'
    BY Zenon, <1>1 DEF IInv, HeldChargesAreRecorded, Held
  <1> QED
    BY Zenon, <1>2 DEF IInv, Held

\* The row of a new owner is empty and no live value names it.
LEMMA InsertKeeps ==
    ASSUME IInv, NEW p \in Pools, NEW o \in Owners, NEW n \in Nat,
           NEW up \in Owners \cup {NoOwner}, InsertRow(p, o, n, up)
    PROVE  /\ minted' \in SUBSET Owners
           /\ pool' \in [Owners -> Pools \cup {NoPool}]
           /\ \A c \in Owners : pool'[c] # NoPool => c \in minted'
           /\ limit' \in [Owners -> Nat]
           /\ parent' \in [Owners -> Owners \cup {NoOwner}]
           /\ \A c \in Owners \ {o} : limit'[c] = limit[c] /\ pool'[c] = pool[c]
           /\ pool[o] = NoPool /\ limit'[o] = n
           /\ charged[o] = 0 /\ outstanding[o] = {}
           /\ \A c \in Owners : c \notin minted' => c \notin minted /\ c # o
  <1>1. /\ minted \in SUBSET Owners
        /\ pool \in [Owners -> Pools \cup {NoPool}]
        /\ \A c \in Owners : pool[c] # NoPool => c \in minted
        /\ limit \in [Owners -> Nat]
        /\ parent \in [Owners -> Owners \cup {NoOwner}]
    BY Zenon DEF IInv, TypeOK
  <1>2. o \notin minted /\ charged[o] = 0 /\ outstanding[o] = {}
    BY Zenon DEF InsertRow, IInv, UnmintedIsEmpty
  <1> QED
    BY Zenon, <1>1, <1>2 DEF InsertRow

\* A promise to a child is within its parent's headroom.
LEMMA ChargeParentKeeps ==
    ASSUME IInv, NEW p \in Pools, NEW up \in minted, NEW n \in Nat,
           n <= available(p, up), ChargeParent(p, up, n)
    PROVE  /\ charged' \in [Owners -> Nat]
           /\ \A c \in Owners : charged'[c] <= limit[c]
           /\ \A c \in Owners \ {up} : charged'[c] = charged[c]
  <1>1. /\ up \in Owners /\ charged \in [Owners -> Nat]
        /\ limit \in [Owners -> Nat]
        /\ \A c \in Owners : charged[c] <= limit[c]
    BY Zenon DEF IInv, TypeOK
  <1>2. CASE pool[up] = p
    <2>1. charged[up] + n <= limit[up]
      BY <1>1, <1>2 DEF available, Minus
    <2>2. charged' = [charged EXCEPT ![up] = charged[up] + n]
      BY Zenon, <1>2 DEF ChargeParent
    <2> QED
      BY <1>1, <2>1, <2>2
  <1>3. CASE pool[up] # p
    BY Zenon, <1>1, <1>3 DEF ChargeParent
  <1> QED
    BY Zenon, <1>2, <1>3

\* root and child insert a row and charge nothing beyond a limit.
LEMMA InsertStep ==
    ASSUME IInv, NEW p \in Pools, NEW o \in Owners, NEW n \in Nat,
           root(p, o, n) \/ \E up \in Owners : child(p, up, o, n)
    PROVE  IInv'
  <1>1. PICK up \in Owners \cup {NoOwner} : InsertRow(p, o, n, up)
    BY Zenon DEF root, child
  <1>2. UNCHANGED <<outstanding, grants, permits, nextCharge, unknown_refunds>>
    BY Zenon DEF root, child
  <1>3. /\ charged' \in [Owners -> Nat]
        /\ \A c \in Owners : charged'[c] <= limit[c]
        /\ \A c \in Owners \ minted : charged'[c] = charged[c]
    <2>1. CASE root(p, o, n)
      BY Zenon, <2>1 DEF root, IInv, TypeOK
    <2>2. CASE \E u \in Owners : child(p, u, o, n)
      <3>1. PICK u \in minted : n <= available(p, u) /\ ChargeParent(p, u, n)
        BY Zenon, <2>2 DEF child
      <3> QED
        BY Zenon, <3>1, ChargeParentKeeps
    <2> QED
      BY Zenon, <2>1, <2>2
  <1>4. o \notin minted
    BY Zenon, <1>1 DEF InsertRow
  <1>5. charged'[o] = 0
    BY Zenon, <1>1, <1>3, <1>4, InsertKeeps
  <1>6. TypeOK'
    <2>1. \A c \in Owners : charged'[c] <= limit'[c]
      BY <1>1, <1>3, <1>5, InsertKeeps
    <2>2. /\ outstanding' \in [Owners -> SUBSET Charges]
          /\ grants' \in SUBSET Holdings /\ permits' \in SUBSET Holdings
          /\ nextCharge' \in Nat /\ unknown_refunds' \in Nat
      BY Zenon, <1>2 DEF IInv, TypeOK
    <2> QED
      BY Zenon, <1>1, <1>3, <2>1, <2>2, InsertKeeps DEF TypeOK
  <1>7. UnmintedIsEmpty'
    BY Zenon, <1>1, <1>2, <1>3, InsertKeeps DEF IInv, UnmintedIsEmpty
  <1>8. \A c \in Owners : outstanding[c] # {} => pool'[c] = pool[c]
    BY Zenon, <1>1, InsertKeeps
  <1> QED
    BY Zenon, <1>2, <1>6, <1>7, <1>8, OwnersKeep

\* release_owner drops a row on which nothing is outstanding.
LEMMA ReleaseOwnerStep ==
    ASSUME IInv, NEW p \in Pools, NEW o \in Owners, release_owner(p, o)
    PROVE  IInv'
  <1>1. /\ UNCHANGED <<minted, limit, parent, outstanding, grants, permits,
                       nextCharge, unknown_refunds>>
        /\ pool' = [pool EXCEPT ![o] = NoPool]
        /\ outstanding[o] = {} /\ pool[o] = p
    BY Zenon DEF release_owner, Drained
  <1>2. /\ charged' \in [Owners -> Nat]
        /\ \A c \in Owners : charged'[c] <= charged[c]
    <2>1. /\ charged \in [Owners -> Nat] /\ limit \in [Owners -> Nat]
          /\ parent[o] \in Owners \cup {NoOwner}
      BY Zenon DEF IInv, TypeOK
    <2>2. \A c \in Owners : charged[c] <= charged[c]
      BY <2>1
    <2>3. CASE parent[o] = NoOwner
      BY Zenon, <2>1, <2>2, <2>3 DEF release_owner
    <2>4. CASE parent[o] # NoOwner
      <3>1. /\ Minus(charged[parent[o]], limit[o]) \in Nat
            /\ Minus(charged[parent[o]], limit[o]) <= charged[parent[o]]
        BY <2>1, <2>4 DEF Minus
      <3>2. charged' = [charged EXCEPT ![parent[o]] = Minus(@, limit[o])]
        BY Zenon, <2>4 DEF release_owner
      <3> QED
        BY Zenon, <2>1, <2>2, <2>4, <3>1, <3>2
    <2> QED
      BY Zenon, <2>3, <2>4
  <1>3. TypeOK'
    <2>0. /\ charged \in [Owners -> Nat] /\ limit \in [Owners -> Nat]
          /\ \A c \in Owners : charged[c] <= limit[c]
      BY Zenon DEF IInv, TypeOK
    <2>1. \A c \in Owners : charged'[c] <= limit'[c]
      <3> SUFFICES ASSUME NEW c \in Owners PROVE charged'[c] <= limit[c]
        BY Zenon, <1>1
      <3>1. charged'[c] \in Nat /\ charged[c] \in Nat /\ limit[c] \in Nat
        BY Zenon, <1>2, <2>0
      <3> QED
        BY <1>2, <2>0, <3>1
    <2>2. /\ pool' \in [Owners -> Pools \cup {NoPool}]
          /\ \A c \in Owners : pool'[c] # NoPool => c \in minted'
      BY Zenon, <1>1 DEF IInv, TypeOK
    <2> QED
      BY Zenon, <1>1, <1>2, <2>1, <2>2 DEF IInv, TypeOK
  <1>4. UnmintedIsEmpty'
    <2> SUFFICES ASSUME NEW c \in Owners \ minted
                 PROVE  charged'[c] = 0 /\ outstanding[c] = {}
      BY Zenon, <1>1 DEF UnmintedIsEmpty
    <2>1. charged[c] = 0 /\ outstanding[c] = {}
      BY Zenon DEF IInv, UnmintedIsEmpty
    <2>2. charged'[c] \in Nat /\ charged'[c] <= charged[c]
      BY Zenon, <1>2
    <2> QED
      BY <2>1, <2>2
  <1>5. \A c \in Owners : outstanding[c] # {} => pool'[c] = pool[c]
    BY Zenon, <1>1 DEF IInv, TypeOK
  <1> QED
    BY Zenon, <1>1, <1>3, <1>4, <1>5, OwnersKeep

\* reserve records a charge no live value has, within the owner's headroom.
LEMMA ReserveStep ==
    ASSUME IInv, NEW p \in Pools, NEW o \in Owners, NEW n \in Nat,
           reserve(p, o, n)
    PROVE  IInv'
  <1> DEFINE g == [owner |-> o, charge |-> nextCharge, bytes |-> n, pool |-> p]
  <1>1. /\ UNCHANGED <<minted, pool, limit, parent, permits, unknown_refunds>>
        /\ pool[o] = p /\ nextCharge' = nextCharge + 1
        /\ charged' = [charged EXCEPT ![o] = charged[o] + n]
        /\ outstanding' = [outstanding EXCEPT ![o] = @ \cup {ChargeOf(g)}]
        /\ grants' = grants \cup {g}
    BY Zenon DEF reserve, ChargeOf
  <1>2. g \in Holdings /\ g.owner = o /\ g.charge = nextCharge /\ g.pool = p
        /\ ChargeOf(g) \in Charges
    BY Zenon DEF Holdings, IInv, TypeOK, ChargeOf, Charges
  <1> HIDE DEF g
  <1>3. /\ o \in minted
        /\ charged \in [Owners -> Nat] /\ limit \in [Owners -> Nat]
        /\ outstanding \in [Owners -> SUBSET Charges] /\ nextCharge \in Nat
        /\ \A c \in Owners : charged[c] <= limit[c]
    BY Zenon, <1>1, LedgerAssumption DEF IInv, TypeOK
  <1>4. charged[o] + n <= limit[o]
    BY <1>1, <1>3 DEF reserve, available, Minus
  <1>5. /\ charged' \in [Owners -> Nat]
        /\ \A c \in Owners : charged'[c] <= limit[c]
        /\ \A c \in Owners : c # o => charged'[c] = charged[c]
    BY <1>1, <1>3, <1>4
  <1>6. /\ outstanding' \in [Owners -> SUBSET Charges]
        /\ ChargeOf(g) \in outstanding'[o]
        /\ \A c \in Owners : outstanding[c] \subseteq outstanding'[c]
        /\ \A c \in Owners : c # o => outstanding'[c] = outstanding[c]
    BY Zenon, <1>1, <1>2, <1>3
  <1>7. TypeOK'
    BY <1>1, <1>2, <1>3, <1>5, <1>6 DEF IInv, TypeOK
  <1>8. Held' = Held \cup {g}
    BY Zenon, <1>1 DEF Held
  <1>9. \A h \in Held : /\ h.owner \in Owners /\ h.charge \in Nat
                        /\ h.charge < nextCharge
    BY Zenon DEF IInv, TypeOK, Held, Holdings
  <1>10. HeldChargesAreRecorded'
    BY Zenon, <1>1, <1>2, <1>6, <1>8, <1>9 DEF IInv, HeldChargesAreRecorded
  <1>11. UnmintedIsEmpty'
    BY Zenon, <1>1, <1>3, <1>5, <1>6 DEF IInv, UnmintedIsEmpty
  <1>12. g \notin Held
    BY <1>2, <1>3, <1>9
  <1>13. /\ \A h \in Held' : h.charge < nextCharge'
         /\ \A f, h \in Held' : f.charge = h.charge => f = h
         /\ grants' \cap permits' = {}
    <2>1. \A h \in Held' : h.charge < nextCharge'
      BY <1>1, <1>2, <1>3, <1>8, <1>9
    <2>2. \A f, h \in Held' : f.charge = h.charge => f = h
      BY <1>2, <1>3, <1>8, <1>9 DEF IInv
    <2>3. grants' \cap permits' = {}
      BY Zenon, <1>1, <1>12 DEF IInv, Held
    <2> QED
      BY Zenon, <2>1, <2>2, <2>3
  <1> QED
    BY Zenon, <1>7, <1>10, <1>11, <1>13 DEF IInv

\* redeem moves a grant of its own pool to the permits, and refunds another's.
LEMMA RedeemStep ==
    ASSUME IInv, NEW p \in Pools, NEW g \in grants, redeem(p, g)
    PROVE  IInv'
  <1>1. CASE g.pool = p
    <2>1. /\ UNCHANGED <<minted, pool, limit, charged, parent, outstanding,
                         nextCharge, unknown_refunds>>
          /\ grants' = grants \ {g} /\ permits' = permits \cup {g}
      BY Zenon, <1>1 DEF redeem
    <2>2. Held' = Held /\ grants' \cap permits' = {}
      BY Zenon, <2>1 DEF Held, IInv
    <2>3. TypeOK'
      BY Zenon, <2>1 DEF IInv, TypeOK
    <2>4. HeldChargesAreRecorded' /\ UnmintedIsEmpty'
      BY Zenon, <2>1, <2>2 DEF IInv, HeldChargesAreRecorded, UnmintedIsEmpty
    <2> QED
      BY Zenon, <2>1, <2>2, <2>3, <2>4 DEF IInv
  <1>2. CASE g.pool # p
    <2>1. /\ UNCHANGED <<minted, pool, limit, parent, nextCharge, permits>>
          /\ grants' = grants \ {g} /\ refund(g)
      BY Zenon, <1>2 DEF redeem
    <2>2. g \in Held /\ g \notin Held'
      BY Zenon, <2>1 DEF Held, IInv
    <2> QED
      BY Zenon, <2>1, <2>2, ReleaseKeeps
  <1> QED
    BY Zenon, <1>1, <1>2

\* The end of a grant or of a permit refunds its own charge.
LEMMA EndStep ==
    ASSUME IInv, \/ \E g \in grants : DropGrant(g)
                 \/ \E h \in permits : EndPermit(h)
    PROVE  IInv'
  <1>1. PICK h \in Held : /\ refund(h)
                          /\ UNCHANGED <<minted, pool, limit, parent, nextCharge>>
                          /\ grants' \subseteq grants /\ permits' \subseteq permits
                          /\ h \notin Held'
    BY Zenon DEF DropGrant, EndPermit, Held, IInv
  <1> QED
    BY Zenon, <1>1, ReleaseKeeps

\* The capacity ledger's inductive invariant, for any pools, owners and sizes.
THEOREM LedgerInvariant == Spec => []IInv
  <1>1. Init => IInv
    BY DEF Init, IInv, TypeOK, HeldChargesAreRecorded, UnmintedIsEmpty, Held
  <1>2. IInv /\ [Next]_vars => IInv'
    <2> SUFFICES ASSUME IInv, [Next]_vars
                 PROVE  IInv'
      BY Zenon
    <2>1. ASSUME NEW p \in Pools, NEW o \in Owners, NEW n \in Sizes,
                 \/ root(p, o, n) \/ \E up \in Owners : child(p, up, o, n)
                 \/ reserve(p, o, n)
          PROVE  IInv'
      <3>1. n \in Nat
        BY Zenon, LedgerAssumption
      <3> QED
        BY Zenon, <2>1, <3>1, InsertStep, ReserveStep
    <2>2. ASSUME NEW p \in Pools, NEW o \in Owners, release_owner(p, o)
          PROVE  IInv'
      BY Zenon, <2>2, ReleaseOwnerStep
    <2>3. ASSUME NEW p \in Pools, NEW g \in grants, redeem(p, g)
          PROVE  IInv'
      BY Zenon, <2>3, RedeemStep
    <2>4. CASE \/ \E g \in grants : DropGrant(g)
               \/ \E h \in permits : EndPermit(h)
      BY Zenon, <2>4, EndStep
    <2>5. CASE UNCHANGED vars
      BY Zenon, <2>5 DEF vars, rowVars, IInv, TypeOK, HeldChargesAreRecorded,
                  UnmintedIsEmpty, Held
    <2> QED
      BY Zenon, <2>1, <2>2, <2>3, <2>4, <2>5 DEF Next
  <1> QED
    BY <1>1, <1>2, PTL DEF Spec

\* No owner is ever charged beyond its limit (part of the type invariant).
THEOREM NeverOvercharged == Spec => []TypeOK
  <1>1. IInv => TypeOK
    BY Zenon DEF IInv
  <1> QED
    BY LedgerInvariant, <1>1, PTL

\* unknown_refunds, the ledger's backstop, stays zero: the charge of every
\* live grant and permit is in the row its refund will look in.
THEOREM NoUnknownRefund == Spec => []HeldChargesAreRecorded
  <1>1. IInv => HeldChargesAreRecorded
    BY Zenon DEF IInv
  <1> QED
    BY LedgerInvariant, <1>1, PTL

-----------------------------------------------------------------------------
(* Counting bytes.                                                         *)

\* A holder of n bytes holds n units.
LEMMA OneHolder ==
    ASSUME NEW x, NEW n \in Nat
    PROVE  /\ IsFiniteSet({x} \X (1 .. n))
           /\ Cardinality({x} \X (1 .. n)) = n
  <1>1. IsFiniteSet({x}) /\ Cardinality({x}) = 1
    BY Zenon, FS_Singleton
  <1>2. 1 \in Int /\ n \in Int
    OBVIOUS
  <1>3. /\ IsFiniteSet(1 .. n)
        /\ Cardinality(1 .. n) = IF 1 > n THEN 0 ELSE n - 1 + 1
    BY Zenon, <1>2, FS_Interval
  <1>4. Cardinality(1 .. n) = n
    BY <1>3
  <1>5. /\ IsFiniteSet({x} \X (1 .. n))
        /\ Cardinality({x} \X (1 .. n)) = Cardinality({x}) * Cardinality(1 .. n)
    BY Zenon, <1>1, <1>3, FS_Product
  <1>6. Cardinality({x}) * Cardinality(1 .. n) = n
    BY <1>1, <1>4
  <1> QED
    BY Zenon, <1>5, <1>6

\* One more holder brings its own bytes, and no others.
LEMMA UnitsAdd ==
    ASSUME NEW S, NEW size, NEW x, x \notin S, size[x] \in Nat,
           IsFiniteSet(Units(S, size))
    PROVE  /\ IsFiniteSet(Units(S \cup {x}, size))
           /\ Cardinality(Units(S \cup {x}, size))
                 = Cardinality(Units(S, size)) + size[x]
  <1> DEFINE U == Units(S, size)
             X == {x} \X (1 .. size[x])
  <1>1. Units(S \cup {x}, size) = U \cup X
    BY Zenon DEF Units
  <1>2. U \cap X = {}
    <2> SUFFICES ASSUME NEW u \in U, u \in X PROVE FALSE
      BY Zenon
    <2>1. PICK y \in S : u \in {y} \X (1 .. size[y])
      BY Zenon DEF Units
    <2>2. u[1] = y /\ u[1] = x
      BY Zenon, <2>1
    <2> QED
      BY Zenon, <2>2
  <1>3. IsFiniteSet(X) /\ Cardinality(X) = size[x]
    BY Zenon, OneHolder
  <1>4. Cardinality(U \cap X) = 0 /\ Cardinality(U) \in Nat
    BY Zenon, <1>2, FS_EmptySet, FS_CardinalityType
  <1>5. /\ IsFiniteSet(U \cup X)
        /\ Cardinality(U \cup X)
              = Cardinality(U) + Cardinality(X) - Cardinality(U \cap X)
    BY Zenon, <1>3, FS_Union
  <1>6. Cardinality(U) + Cardinality(X) - Cardinality(U \cap X)
           = Cardinality(U) + size[x]
    <2> HIDE DEF U, X
    <2> QED
      BY <1>3, <1>4
  <1> QED
    BY Zenon, <1>1, <1>5, <1>6

\* Finitely many holders hold finitely many bytes.
LEMMA UnitsFinite ==
    ASSUME NEW S, NEW size, IsFiniteSet(S), \A x \in S : size[x] \in Nat
    PROVE  IsFiniteSet(Units(S, size)) /\ Cardinality(Units(S, size)) \in Nat
  <1> DEFINE f == [x \in S |-> {x} \X (1 .. size[x])]
             T == {{x} \X (1 .. size[x]) : x \in S}
  <1>1. f \in Surjection(S, T)
    BY Zenon DEF Surjection
  <1>2. IsFiniteSet(T)
    BY Zenon, <1>1, FS_Surjection
  <1>3. \A x \in S : IsFiniteSet({x} \X (1 .. size[x]))
    BY Zenon, OneHolder
  <1>4. \A t \in T : IsFiniteSet(t)
    BY Zenon, <1>3
  <1>5. IsFiniteSet(UNION T)
    BY Zenon, <1>2, <1>4, FS_UNION
  <1> QED
    BY Zenon, <1>5, FS_CardinalityType DEF Units

\* The bytes of one holder leave with it.
LEMMA UnitsRemove ==
    ASSUME NEW S, NEW size, IsFiniteSet(S), \A x \in S : size[x] \in Nat,
           NEW x \in S
    PROVE  Cardinality(Units(S, size))
              = Cardinality(Units(S \ {x}, size)) + size[x]
  <1>1. IsFiniteSet(S \ {x})
    BY Zenon, FS_RemoveElement
  <1>2. IsFiniteSet(Units(S \ {x}, size))
    BY Zenon, <1>1, UnitsFinite
  <1>3. (S \ {x}) \cup {x} = S /\ x \notin S \ {x}
    BY Zenon
  <1>4. Cardinality(Units((S \ {x}) \cup {x}, size))
           = Cardinality(Units(S \ {x}, size)) + size[x]
    BY Zenon, <1>2, <1>3, UnitsAdd
  <1> QED
    BY Zenon, <1>3, <1>4

\* Only the sizes of the holders matter.
LEMMA UnitsSame ==
    ASSUME NEW S, NEW f, NEW g, \A x \in S : f[x] = g[x]
    PROVE  Units(S, f) = Units(S, g)
  BY Zenon DEF Units

-----------------------------------------------------------------------------
(* Conservation.                                                           *)

\* What a row is charged for can be counted.
LEMMA Counted ==
    ASSUME CInv, NEW o \in Rows
    PROVE  /\ o \in Owners /\ charged[o] \in Nat /\ limit[o] \in Nat
           /\ IsFiniteSet(Live(o)) /\ IsFiniteSet(Children(o))
           /\ \A h \in Live(o) : Bytes[h] = h.bytes /\ h.bytes \in Nat
           /\ \A c \in Children(o) : limit[c] \in Nat
           /\ Cardinality(Units(Live(o), Bytes)) \in Nat
           /\ Cardinality(Units(Children(o), limit)) \in Nat
           /\ charged[o] = Cardinality(Units(Live(o), Bytes))
                           + Cardinality(Units(Children(o), limit))
           /\ charged[o] <= limit[o]
  <1>1. /\ TypeOK /\ IsFiniteSet(minted) /\ IsFiniteSet(Held)
        /\ charged[o] = Cardinality(Units(Live(o), Bytes))
                        + Cardinality(Units(Children(o), limit))
    BY Zenon DEF CInv, Conserved, IInv
  <1>2. /\ o \in Owners /\ charged[o] \in Nat /\ limit[o] \in Nat
        /\ charged[o] <= limit[o] /\ pool[o] # NoPool
    BY Zenon, <1>1 DEF TypeOK, Rows
  <1>3. Live(o) \subseteq Held /\ Children(o) \subseteq minted
    BY Zenon, <1>1, <1>2 DEF TypeOK, Live, Children
  <1>4. IsFiniteSet(Live(o)) /\ IsFiniteSet(Children(o))
    BY Zenon, <1>1, <1>3, FS_Subset
  <1>5. \A h \in Live(o) : Bytes[h] = h.bytes /\ h.bytes \in Nat
    BY Zenon, <1>1 DEF TypeOK, Live, Bytes, Held, Holdings
  <1>6. \A c \in Children(o) : limit[c] \in Nat
    BY Zenon, <1>1 DEF TypeOK, Children
  <1>7. \A h \in Live(o) : Bytes[h] \in Nat
    BY Zenon, <1>5
  <1>8. /\ Cardinality(Units(Live(o), Bytes)) \in Nat
        /\ Cardinality(Units(Children(o), limit)) \in Nat
    BY Zenon, <1>4, <1>6, <1>7, UnitsFinite
  <1> QED
    BY Zenon, <1>1, <1>2, <1>4, <1>5, <1>6, <1>8

\* The same values hold the same bytes.
LEMMA SameHeld ==
    ASSUME Held' = Held
    PROVE  \A o : Units(Live(o), Bytes)' = Units(Live(o), Bytes)
  BY Zenon DEF Live, Bytes, Units

\* The same rows make the same promises.
LEMMA SameTree ==
    ASSUME UNCHANGED <<pool, limit, parent>>
    PROVE  /\ Rows' = Rows
           /\ \A o : Units(Children(o), limit)' = Units(Children(o), limit)
  <1>1. Rows' = Rows /\ \A o : Children(o)' = Children(o)
    BY Zenon DEF Rows, Children
  <1> QED
    BY Zenon, <1>1 DEF Units

\* A step that leaves the rows alone keeps their parents.
LEMMA SameBacked ==
    ASSUME Backed, UNCHANGED <<minted, pool, limit, parent>>
    PROVE  Backed'
  BY Zenon DEF Backed, Rows

\* A value that goes takes its own bytes from its owner, and no one else's.
LEMMA HeldWithout ==
    ASSUME NEW h \in Held, Held' = Held \ {h}
    PROVE  \A o : Units(Live(o), Bytes)'
                     = Units(IF o = h.owner THEN Live(o) \ {h} ELSE Live(o), Bytes)
  <1> SUFFICES ASSUME NEW o
               PROVE  Units(Live(o), Bytes)'
                     = Units(IF o = h.owner THEN Live(o) \ {h} ELSE Live(o), Bytes)
    BY Zenon
  <1>1. Live(o)' = IF o = h.owner THEN Live(o) \ {h} ELSE Live(o)
    BY Zenon DEF Live
  <1>2. PICK S : S = Live(o)'
    BY Zenon
  <1>3. \A x \in S : Bytes'[x] = Bytes[x]
    BY Zenon, <1>2 DEF Live, Bytes
  <1>4. Units(S, Bytes') = Units(S, Bytes)
    BY Zenon, <1>3, UnitsSame
  <1>5. Units(Live(o), Bytes)' = Units(S, Bytes')
    BY Zenon, <1>2 DEF Units
  <1> QED
    BY Zenon, <1>1, <1>2, <1>4, <1>5

\* A new value brings its bytes to its owner.
LEMMA HeldWith ==
    ASSUME NEW g, g \notin Held, Held' = Held \cup {g}
    PROVE  /\ Bytes'[g] = g.bytes
           /\ \A o : Units(Live(o), Bytes)'
                     = Units(IF o = g.owner THEN Live(o) \cup {g} ELSE Live(o),
                             Bytes')
           /\ \A o : Units(Live(o), Bytes') = Units(Live(o), Bytes)
  <1>1. \A o : Live(o)' = IF o = g.owner THEN Live(o) \cup {g} ELSE Live(o)
    BY Zenon DEF Live
  <1>2. \A o : \A x \in Live(o) : Bytes'[x] = Bytes[x]
    BY Zenon DEF Live, Bytes
  <1>3. \A o : Units(Live(o), Bytes') = Units(Live(o), Bytes)
    BY Zenon, <1>2, UnitsSame
  <1>4. Bytes'[g] = g.bytes
    BY Zenon DEF Bytes
  <1>5. \A o : Units(Live(o), Bytes)' = Units(Live(o)', Bytes')
    BY Zenon DEF Units
  <1> QED
    BY Zenon, <1>1, <1>3, <1>4, <1>5

\* Ending a live value refunds exactly what it held.
LEMMA RefundConserves ==
    ASSUME CInv, NEW h \in Held, refund(h), Held' = Held \ {h},
           UNCHANGED <<minted, pool, limit, parent>>
    PROVE  IsFiniteSet(minted') /\ IsFiniteSet(Held') /\ Backed' /\ Conserved'
  <1>1. IsFiniteSet(minted') /\ IsFiniteSet(Held')
    <2>1. IsFiniteSet(minted) /\ IsFiniteSet(Held)
      BY Zenon DEF CInv
    <2> QED
      BY Zenon, <2>1, FS_RemoveElement
  <1>2. Backed'
    <2>1. Backed
      BY Zenon DEF CInv
    <2> QED
      BY Zenon, <2>1, SameBacked
  <1>3. /\ pool[h.owner] = h.pool /\ ChargeOf(h) \in outstanding[h.owner]
        /\ h.owner \in Owners /\ h.pool \in Pools
        /\ charged \in [Owners -> Nat]
    BY Zenon DEF CInv, IInv, HeldChargesAreRecorded, TypeOK, Held, Holdings
  <1>4. charged' = [charged EXCEPT ![h.owner] = Minus(@, h.bytes)]
    BY Zenon, <1>3 DEF refund
  <1>5. h.owner \in Rows
    BY Zenon, <1>3, LedgerAssumption DEF Rows
  <1>6. Rows' = Rows
    BY Zenon, SameTree
  <1>7. ASSUME NEW o \in Rows
        PROVE  charged'[o] = Cardinality(Units(Live(o), Bytes)')
                             + Cardinality(Units(Children(o), limit)')
    <2>0. Units(Children(o), limit)' = Units(Children(o), limit)
      BY Zenon, SameTree
    <2>1. CASE o = h.owner
      <3>1. h \in Live(o)
        BY Zenon, <2>1 DEF Live
      <3>2. /\ IsFiniteSet(Live(o)) /\ \A x \in Live(o) : Bytes[x] \in Nat
            /\ Bytes[h] = h.bytes /\ h.bytes \in Nat
        BY Zenon, <3>1, Counted
      <3>3. Cardinality(Units(Live(o), Bytes))
               = Cardinality(Units(Live(o) \ {h}, Bytes)) + h.bytes
        BY Zenon, <3>1, <3>2, UnitsRemove
      <3>4. Cardinality(Units(Live(o) \ {h}, Bytes)) \in Nat
        <4>1. IsFiniteSet(Live(o) \ {h})
          BY Zenon, <3>2, FS_RemoveElement
        <4> QED
          BY Zenon, <3>2, <4>1, UnitsFinite
      <3>5. Units(Live(o), Bytes)' = Units(Live(o) \ {h}, Bytes)
        BY Zenon, <2>1, HeldWithout
      <3>6. /\ Cardinality(Units(Children(o), limit)) \in Nat
            /\ charged[o] = Cardinality(Units(Live(o), Bytes))
                            + Cardinality(Units(Children(o), limit))
        BY Zenon, Counted
      <3>7. charged'[o] = Minus(charged[o], h.bytes)
        BY Zenon, <1>3, <1>4, <2>1
      <3>8. Minus(charged[o], h.bytes) =
               Cardinality(Units(Live(o) \ {h}, Bytes))
               + Cardinality(Units(Children(o), limit))
        BY <3>2, <3>3, <3>4, <3>6 DEF Minus
      <3> QED
        BY Zenon, <2>0, <3>5, <3>7, <3>8
    <2>2. CASE o # h.owner
      <3>1. Units(Live(o), Bytes)' = Units(Live(o), Bytes)
        BY Zenon, <2>2, HeldWithout
      <3>2. charged'[o] = charged[o]
        BY Zenon, <1>3, <1>4, <2>2 DEF Rows
      <3> QED
        BY Zenon, <2>0, <3>1, <3>2, Counted
    <2> QED
      BY Zenon, <2>1, <2>2
  <1>8. Conserved'
    BY Zenon, <1>6, <1>7 DEF Conserved
  <1> QED
    BY Zenon, <1>1, <1>2, <1>8

\* reserve charges exactly what the grant holds.
LEMMA ReserveConserves ==
    ASSUME CInv, NEW p \in Pools, NEW o \in Owners, NEW n \in Nat,
           reserve(p, o, n)
    PROVE  IsFiniteSet(minted') /\ IsFiniteSet(Held') /\ Backed' /\ Conserved'
  <1> DEFINE g == [owner |-> o, charge |-> nextCharge, bytes |-> n, pool |-> p]
  <1>1. /\ UNCHANGED <<minted, pool, limit, parent>>
        /\ pool[o] = p /\ Held' = Held \cup {g}
        /\ charged' = [charged EXCEPT ![o] = charged[o] + n]
    BY Zenon DEF reserve, Held
  <1>2. g.owner = o /\ g.charge = nextCharge /\ g.bytes = n
    BY Zenon
  <1> HIDE DEF g
  <1>3. /\ charged \in [Owners -> Nat] /\ nextCharge \in Nat
        /\ \A h \in Held : h.charge \in Nat /\ h.charge < nextCharge
    BY Zenon DEF CInv, IInv, TypeOK, Held, Holdings
  <1>4. g \notin Held
    BY <1>2, <1>3
  <1>5. IsFiniteSet(minted') /\ IsFiniteSet(Held')
    <2>1. IsFiniteSet(minted) /\ IsFiniteSet(Held)
      BY Zenon DEF CInv
    <2> QED
      BY Zenon, <1>1, <2>1, FS_AddElement
  <1>6. Backed'
    <2>1. Backed
      BY Zenon DEF CInv
    <2> QED
      BY Zenon, <1>1, <2>1, SameBacked
  <1>7. Rows' = Rows
    BY Zenon, <1>1, SameTree
  <1>8. ASSUME NEW q \in Rows
        PROVE  charged'[q] = Cardinality(Units(Live(q), Bytes)')
                             + Cardinality(Units(Children(q), limit)')
    <2>0. Units(Children(q), limit)' = Units(Children(q), limit)
      BY Zenon, <1>1, SameTree
    <2>1. Units(Live(q), Bytes') = Units(Live(q), Bytes)
      BY Zenon, <1>1, <1>4, HeldWith
    <2>2. CASE q = o
      <3>1. Units(Live(q), Bytes)' = Units(Live(q) \cup {g}, Bytes')
        BY Zenon, <1>1, <1>2, <1>4, <2>2, HeldWith
      <3>2. Bytes'[g] = n /\ g \notin Live(q)
        BY Zenon, <1>1, <1>2, <1>4, HeldWith DEF Live
      <3>3. IsFiniteSet(Units(Live(q), Bytes'))
        <4>1. /\ IsFiniteSet(Live(q)) /\ \A h \in Live(q) : Bytes[h] \in Nat
          BY Zenon, Counted
        <4> QED
          BY Zenon, <2>1, <4>1, UnitsFinite
      <3>4. Cardinality(Units(Live(q) \cup {g}, Bytes'))
               = Cardinality(Units(Live(q), Bytes')) + n
        <4>1. Bytes'[g] \in Nat /\ g \notin Live(q)
          BY Zenon, <3>2
        <4>2. Cardinality(Units(Live(q) \cup {g}, Bytes'))
                 = Cardinality(Units(Live(q), Bytes')) + Bytes'[g]
          BY Zenon, <3>3, <4>1, UnitsAdd
        <4> QED
          BY Zenon, <3>2, <4>2
      <3>5. /\ Cardinality(Units(Live(q), Bytes)) \in Nat
            /\ Cardinality(Units(Children(q), limit)) \in Nat
            /\ charged[q] = Cardinality(Units(Live(q), Bytes))
                            + Cardinality(Units(Children(q), limit))
        BY Zenon, Counted
      <3>6. charged'[q] = charged[q] + n
        BY Zenon, <1>1, <1>3, <2>2
      <3> QED
        BY <2>0, <2>1, <3>1, <3>4, <3>5, <3>6
    <2>3. CASE q # o
      <3>1. Units(Live(q), Bytes)' = Units(Live(q), Bytes)
        BY Zenon, <1>1, <1>2, <1>4, <2>1, <2>3, HeldWith
      <3>2. charged'[q] = charged[q]
        BY Zenon, <1>1, <1>3, <2>3 DEF Rows
      <3> QED
        BY Zenon, <2>0, <3>1, <3>2, Counted
    <2> QED
      BY Zenon, <2>2, <2>3
  <1>9. Conserved'
    BY Zenon, <1>7, <1>8 DEF Conserved
  <1> QED
    BY Zenon, <1>5, <1>6, <1>9

\* A new row is the child of its parent alone, and has no children.
LEMMA InsertTree ==
    ASSUME CInv, NEW p \in Pools, NEW o \in Owners, NEW n \in Nat,
           NEW up \in minted \cup {NoOwner}, InsertRow(p, o, n, up)
    PROVE  /\ o \notin Rows /\ Rows' = Rows \cup {o}
           /\ Children(o)' = {}
           /\ limit'[o] = n
           /\ \A q \in Rows :
                 /\ o \notin Children(q)
                 /\ \A c \in Children(q) : limit'[c] = limit[c]
                 /\ Children(q)' = IF up = q /\ pool[up] = p
                                   THEN Children(q) \cup {o} ELSE Children(q)
  <1>1. /\ pool \in [Owners -> Pools \cup {NoPool}]
        /\ limit \in [Owners -> Nat] /\ minted \subseteq Owners
        /\ parent \in [Owners -> Owners \cup {NoOwner}]
        /\ \A c \in Owners : pool[c] # NoPool => c \in minted
        /\ \A c \in Owners : parent[c] # NoOwner => parent[c] \in minted
    BY Zenon DEF CInv, IInv, TypeOK, Backed
  <1>2. /\ o \notin minted
        /\ pool' = [pool EXCEPT ![o] = p] /\ limit' = [limit EXCEPT ![o] = n]
        /\ parent' = [parent EXCEPT ![o] = up]
    BY Zenon DEF InsertRow
  <1>3. pool[o] = NoPool /\ up # o /\ p # NoPool
    BY Zenon, <1>1, <1>2, LedgerAssumption
  <1>4. /\ pool'[o] = p /\ limit'[o] = n /\ parent'[o] = up
        /\ \A c \in Owners : c # o => /\ pool'[c] = pool[c]
                                      /\ limit'[c] = limit[c]
                                      /\ parent'[c] = parent[c]
    BY Zenon, <1>1, <1>2
  <1>5. o \notin Rows /\ Rows' = Rows \cup {o}
    BY Zenon, <1>3, <1>4 DEF Rows
  <1>6. Children(o)' = {}
    <2>1. \A c \in Owners : parent'[c] # o
      BY <1>1, <1>2, <1>3, <1>4, LedgerAssumption
    <2> QED
      BY Zenon, <2>1 DEF Children
  <1>7. ASSUME NEW q \in Rows
        PROVE  /\ o \notin Children(q)
               /\ \A c \in Children(q) : limit'[c] = limit[c]
               /\ Children(q)' = IF up = q /\ pool[up] = p
                                 THEN Children(q) \cup {o} ELSE Children(q)
    <2>1. q \in Owners /\ q # o /\ pool[q] # NoPool /\ pool'[q] = pool[q]
      BY Zenon, <1>3, <1>4 DEF Rows
    <2>2. o \notin Children(q)
      BY Zenon, <1>3, <2>1 DEF Children
    <2>3. \A c \in Children(q) : limit'[c] = limit[c]
      BY Zenon, <1>4, <2>2 DEF Children
    <2>4. \A c \in Owners : c # o => (c \in Children(q)' <=> c \in Children(q))
      BY Zenon, <1>4, <2>1 DEF Children
    <2>5. o \in Children(q)' <=> (up = q /\ pool[up] = p)
      BY Zenon, <1>4, <2>1 DEF Children
    <2>6. Children(q)' \subseteq Owners /\ Children(q) \subseteq Owners
      BY Zenon DEF Children
    <2>7. Children(q)' = IF up = q /\ pool[up] = p
                         THEN Children(q) \cup {o} ELSE Children(q)
      <3>1. CASE up = q /\ pool[up] = p
        BY Zenon, <2>4, <2>5, <2>6, <3>1
      <3>2. CASE ~(up = q /\ pool[up] = p)
        BY <2>2, <2>4, <2>5, <2>6, <3>2
      <3> QED
        BY Zenon, <3>1, <3>2
    <2> QED
      BY Zenon, <2>2, <2>3, <2>7
  <1> QED
    BY Zenon, <1>4, <1>5, <1>6, <1>7

\* A parent and its new child, or a root alone: the promise is charged once.
LEMMA InsertConserves ==
    ASSUME CInv, NEW p \in Pools, NEW o \in Owners, NEW n \in Nat,
           NEW up \in minted \cup {NoOwner}, InsertRow(p, o, n, up),
           Held' = Held,
           up = NoOwner => charged' = charged,
           up # NoOwner => n <= available(p, up) /\ ChargeParent(p, up, n)
    PROVE  IsFiniteSet(minted') /\ IsFiniteSet(Held') /\ Backed' /\ Conserved'
  <1>1. IsFiniteSet(minted') /\ IsFiniteSet(Held')
    <2>1. IsFiniteSet(minted) /\ IsFiniteSet(Held)
      BY Zenon DEF CInv
    <2>2. minted' = minted \cup {o}
      BY Zenon DEF InsertRow
    <2> QED
      BY Zenon, <2>1, <2>2, FS_AddElement
  <1>2. /\ pool \in [Owners -> Pools \cup {NoPool}]
        /\ limit \in [Owners -> Nat] /\ minted \subseteq Owners
        /\ parent \in [Owners -> Owners \cup {NoOwner}]
        /\ charged \in [Owners -> Nat]
        /\ \A c \in Owners : pool[c] # NoPool => c \in minted
    BY Zenon DEF CInv, IInv, TypeOK
  <1>3. /\ o \notin minted /\ minted' = minted \cup {o}
        /\ pool' = [pool EXCEPT ![o] = p] /\ limit' = [limit EXCEPT ![o] = n]
        /\ parent' = [parent EXCEPT ![o] = up]
    BY Zenon DEF InsertRow
  <1>4. Backed'
    <2>1. Backed
      BY Zenon DEF CInv
    <2>2. \A c \in Owners : parent'[c] # NoOwner => parent'[c] \in minted'
      BY Zenon, <1>2, <1>3, <2>1 DEF Backed
    <2>3. up # NoOwner => up # o /\ (pool[up] = p \/ n = 0)
      BY <1>3 DEF available
    <2>4. ASSUME NEW c \in Rows', parent'[c] # NoOwner
          PROVE  pool'[parent'[c]] = pool'[c] \/ limit'[c] = 0
      <3>1. CASE c = o
        BY Zenon, <1>2, <1>3, <2>3, <2>4, <3>1
      <3>2. CASE c # o
        <4>1. c \in Rows /\ parent'[c] = parent[c] /\ parent[c] \in minted
              /\ pool'[c] = pool[c] /\ limit'[c] = limit[c]
          BY Zenon, <1>2, <1>3, <2>1, <2>4, <3>2 DEF Backed, Rows
        <4>2. pool'[parent[c]] = pool[parent[c]]
          BY Zenon, <1>2, <1>3, <4>1
        <4> QED
          BY Zenon, <2>1, <2>4, <4>1, <4>2 DEF Backed
      <3> QED
        BY Zenon, <3>1, <3>2
    <2> QED
      BY Zenon, <2>2, <2>4 DEF Backed
  <1>0. /\ Rows' = Rows \cup {o} /\ Children(o)' = {} /\ limit'[o] = n
        /\ \A q \in Rows :
              /\ o \notin Children(q)
              /\ \A c \in Children(q) : limit'[c] = limit[c]
              /\ Children(q)' = IF up = q /\ pool[up] = p
                                THEN Children(q) \cup {o} ELSE Children(q)
    BY InsertTree
  <1>5. \A q \in Owners : charged'[q] = IF up = q /\ pool[up] = p
                                        THEN charged[q] + n ELSE charged[q]
    BY <1>2, LedgerAssumption DEF ChargeParent
  <1>6. ASSUME NEW q \in Rows
        PROVE  charged'[q] = Cardinality(Units(Live(q), Bytes)')
                             + Cardinality(Units(Children(q), limit)')
    <2>1. Units(Live(q), Bytes)' = Units(Live(q), Bytes)
      BY Zenon, SameHeld
    <2>2. PICK S : S = Children(q)
      BY Zenon
    <2>3. /\ IsFiniteSet(S) /\ \A c \in S : limit[c] \in Nat
          /\ Cardinality(Units(S, limit)) \in Nat
          /\ Cardinality(Units(Live(q), Bytes)) \in Nat
          /\ charged[q] = Cardinality(Units(Live(q), Bytes))
                          + Cardinality(Units(S, limit))
          /\ q \in Owners
      BY Zenon, <2>2, Counted
    <2>4. /\ o \notin S /\ limit'[o] = n
          /\ \A c \in S : limit'[c] = limit[c]
          /\ Children(q)' = IF up = q /\ pool[up] = p THEN S \cup {o} ELSE S
      BY Zenon, <1>0, <2>2
    <2>5. Units(S, limit') = Units(S, limit)
      BY Zenon, <2>4, UnitsSame
    <2>6. Units(Children(q), limit)' = Units(Children(q)', limit')
      BY Zenon DEF Units
    <2>7. CASE up = q /\ pool[up] = p
      <3>1. IsFiniteSet(Units(S, limit'))
        BY Zenon, <2>3, <2>5, UnitsFinite
      <3>2. limit'[o] \in Nat
        BY Zenon, <2>4
      <3>3. Cardinality(Units(S \cup {o}, limit'))
               = Cardinality(Units(S, limit')) + limit'[o]
        <4>1. o \notin S
          BY Zenon, <2>4
        <4> QED
          BY Zenon, <3>1, <3>2, <4>1, UnitsAdd
      <3>4. charged'[q] = charged[q] + n
        BY Zenon, <1>5, <2>3, <2>7
      <3>5. Cardinality(Units(Children(q), limit)')
               = Cardinality(Units(S, limit)) + n
        BY Zenon, <2>4, <2>5, <2>6, <2>7, <3>3
      <3> QED
        BY <2>1, <2>3, <3>4, <3>5
    <2>8. CASE ~(up = q /\ pool[up] = p)
      BY Zenon, <1>5, <2>1, <2>3, <2>4, <2>5, <2>6, <2>8
    <2> QED
      BY Zenon, <2>7, <2>8
  <1>7. charged'[o] = Cardinality(Units(Live(o), Bytes)')
                      + Cardinality(Units(Children(o), limit)')
    <2>1. up # o
      BY Zenon, <1>3, LedgerAssumption
    <2>2. charged'[o] = 0 /\ outstanding[o] = {}
      BY Zenon, <1>3, <1>5, <2>1 DEF CInv, IInv, UnmintedIsEmpty
    <2>3. Live(o) = {}
      BY Zenon, <2>2 DEF Live, CInv, IInv, HeldChargesAreRecorded
    <2>4. Units(Live(o), Bytes)' = {}
      BY Zenon, <2>3, SameHeld DEF Units
    <2>5. Units(Children(o), limit)' = {}
      BY Zenon, <1>0 DEF Units
    <2>6. Cardinality({}) = 0
      BY Zenon, FS_EmptySet
    <2> QED
      BY <2>2, <2>4, <2>5, <2>6
  <1>8. Conserved'
    BY Zenon, <1>0, <1>6, <1>7 DEF Conserved
  <1> QED
    BY Zenon, <1>1, <1>4, <1>8

\* A released row gives its parent back exactly the limit it was promised.
LEMMA ReleaseConserves ==
    ASSUME CInv, NEW p \in Pools, NEW o \in Owners, release_owner(p, o)
    PROVE  IsFiniteSet(minted') /\ IsFiniteSet(Held') /\ Backed' /\ Conserved'
  <1>1. /\ UNCHANGED <<minted, limit, parent>> /\ Held' = Held
        /\ pool' = [pool EXCEPT ![o] = NoPool]
        /\ pool[o] = p /\ Children(o) = {}
        /\ parent[o] # NoOwner => pool[parent[o]] = p
        /\ charged' = IF parent[o] = NoOwner THEN charged
                      ELSE [charged EXCEPT ![parent[o]] = Minus(@, limit[o])]
    BY Zenon DEF release_owner, Drained, Held
  <1>2. /\ pool \in [Owners -> Pools \cup {NoPool}]
        /\ limit \in [Owners -> Nat] /\ charged \in [Owners -> Nat]
        /\ parent \in [Owners -> Owners \cup {NoOwner}]
    BY Zenon DEF CInv, IInv, TypeOK
  <1>3. IsFiniteSet(minted') /\ IsFiniteSet(Held')
    BY Zenon, <1>1 DEF CInv
  <1>4. /\ pool'[o] = NoPool /\ p # NoPool
        /\ \A c \in Owners : c # o => pool'[c] = pool[c]
    BY Zenon, <1>1, <1>2, LedgerAssumption
  <1>5. Rows' = Rows \ {o}
    BY Zenon, <1>4 DEF Rows
  <1>6. \A c \in Owners : pool[c] = p => parent[c] # o
    BY Zenon, <1>1 DEF Children
  <1>7. Backed'
    <2>1. Backed
      BY Zenon DEF CInv
    <2>2. ASSUME NEW c \in Rows', parent[c] # NoOwner
          PROVE  pool'[parent[c]] = pool'[c] \/ limit[c] = 0
      <3>1. /\ c \in Rows /\ c \in Owners /\ c # o
            /\ parent[c] \in Owners /\ pool'[c] = pool[c]
            /\ pool[parent[c]] = pool[c] \/ limit[c] = 0
        BY Zenon, <1>2, <1>4, <1>5, <2>1, <2>2 DEF Backed, Rows
      <3>2. CASE parent[c] = o
        BY Zenon, <1>1, <1>6, <3>1, <3>2
      <3>3. CASE parent[c] # o
        BY Zenon, <1>4, <3>1, <3>3
      <3> QED
        BY Zenon, <3>2, <3>3
    <2> QED
      BY Zenon, <1>1, <2>1, <2>2 DEF Backed
  <1>8. ASSUME NEW q \in Rows'
        PROVE  charged'[q] = Cardinality(Units(Live(q), Bytes)')
                             + Cardinality(Units(Children(q), limit)')
    <2>1. q \in Rows /\ q \in Owners /\ q # o /\ pool[q] # NoPool
          /\ pool'[q] = pool[q]
      BY Zenon, <1>4, <1>5 DEF Rows
    <2>2. Units(Live(q), Bytes)' = Units(Live(q), Bytes)
      BY Zenon, <1>1, SameHeld
    <2>3. PICK S : S = Children(q)
      BY Zenon
    <2>4. /\ IsFiniteSet(S) /\ \A c \in S : limit[c] \in Nat
          /\ Cardinality(Units(Live(q), Bytes)) \in Nat
          /\ charged[q] = Cardinality(Units(Live(q), Bytes))
                          + Cardinality(Units(S, limit))
      BY Zenon, <2>1, <2>3, Counted
    <2>5. \A c \in Owners : c # o => (c \in Children(q)' <=> c \in S)
      BY Zenon, <1>1, <1>4, <2>1, <2>3 DEF Children
    <2>6. o \notin Children(q)'
      BY Zenon, <1>4, <2>1 DEF Children
    <2>7. Children(q)' = S \ {o}
      <3>1. Children(q)' \subseteq Owners /\ S \subseteq Owners
        BY Zenon, <2>3 DEF Children
      <3> QED
        BY Zenon, <2>5, <2>6, <3>1
    <2>8. Units(Children(q), limit)' = Units(S \ {o}, limit)
      BY Zenon, <1>1, <2>7 DEF Units
    <2>9. CASE parent[o] = q
      <3>1. o \in S /\ limit[o] \in Nat
        BY Zenon, <1>1, <1>2, <2>1, <2>3, <2>9, LedgerAssumption DEF Children
      <3>2. Cardinality(Units(S, limit))
               = Cardinality(Units(S \ {o}, limit)) + limit[o]
        BY Zenon, <2>4, <3>1, UnitsRemove
      <3>3. Cardinality(Units(S \ {o}, limit)) \in Nat
        <4>1. IsFiniteSet(S \ {o}) /\ \A c \in S \ {o} : limit[c] \in Nat
          BY Zenon, <2>4, FS_RemoveElement
        <4> QED
          BY Zenon, <4>1, UnitsFinite
      <3>4. charged'[q] = Minus(charged[q], limit[o])
        BY Zenon, <1>1, <1>2, <2>1, <2>9, LedgerAssumption
      <3>5. Minus(charged[q], limit[o])
               = Cardinality(Units(Live(q), Bytes))
                 + Cardinality(Units(S \ {o}, limit))
        BY <2>4, <3>1, <3>2, <3>3 DEF Minus
      <3> QED
        BY Zenon, <2>2, <2>8, <3>4, <3>5
    <2>10. CASE parent[o] # q
      <3>1. charged'[q] = charged[q]
        BY Zenon, <1>1, <1>2, <2>1, <2>10
      <3>2. S \ {o} = S
        BY Zenon, <2>3, <2>10 DEF Children
      <3> QED
        BY Zenon, <2>2, <2>4, <2>8, <3>1, <3>2
    <2> QED
      BY Zenon, <2>9, <2>10
  <1>9. Conserved'
    BY Zenon, <1>8 DEF Conserved
  <1> QED
    BY Zenon, <1>3, <1>7, <1>9

\* redeem moves a grant's bytes to its permit, or refunds another pool's.
LEMMA RedeemConserves ==
    ASSUME CInv, NEW p \in Pools, NEW g \in grants, redeem(p, g)
    PROVE  IsFiniteSet(minted') /\ IsFiniteSet(Held') /\ Backed' /\ Conserved'
  <1>1. CASE g.pool = p
    <2>1. /\ UNCHANGED <<minted, pool, limit, charged, parent>>
          /\ Held' = Held
      BY Zenon, <1>1 DEF redeem, Held
    <2>2. Backed /\ Conserved /\ IsFiniteSet(minted) /\ IsFiniteSet(Held)
      BY Zenon DEF CInv
    <2>3. Backed'
      BY Zenon, <2>1, <2>2, SameBacked
    <2>4. /\ Rows' = Rows
          /\ \A o : /\ Units(Live(o), Bytes)' = Units(Live(o), Bytes)
                    /\ Units(Children(o), limit)' = Units(Children(o), limit)
      BY Zenon, <2>1, SameHeld, SameTree
    <2>5. Conserved'
      BY Zenon, <2>1, <2>2, <2>4 DEF Conserved
    <2> QED
      BY Zenon, <2>1, <2>2, <2>3, <2>5
  <1>2. CASE g.pool # p
    <2>1. grants \cap permits = {}
      BY Zenon DEF CInv, IInv
    <2>2. /\ UNCHANGED <<minted, pool, limit, parent>>
          /\ refund(g) /\ g \in Held /\ Held' = Held \ {g}
      BY Zenon, <1>2, <2>1 DEF redeem, Held
    <2> QED
      BY Zenon, <2>2, RefundConserves
  <1> QED
    BY Zenon, <1>1, <1>2

\* The end of a grant or of a permit refunds what it held.
LEMMA EndConserves ==
    ASSUME CInv, \/ \E g \in grants : DropGrant(g)
                 \/ \E h \in permits : EndPermit(h)
    PROVE  IsFiniteSet(minted') /\ IsFiniteSet(Held') /\ Backed' /\ Conserved'
  <1>1. grants \cap permits = {}
    BY Zenon DEF CInv, IInv
  <1>2. PICK h \in Held : /\ refund(h) /\ Held' = Held \ {h}
                          /\ UNCHANGED <<minted, pool, limit, parent>>
    BY Zenon, <1>1 DEF DropGrant, EndPermit, Held
  <1> QED
    BY Zenon, <1>2, RefundConserves

\* A step that changes nothing conserves.
LEMMA StutterConserves ==
    ASSUME CInv, UNCHANGED vars
    PROVE  IsFiniteSet(minted') /\ IsFiniteSet(Held') /\ Backed' /\ Conserved'
  <1>1. /\ UNCHANGED <<minted, pool, limit, charged, parent>> /\ Held' = Held
    BY Zenon DEF vars, rowVars, Held
  <1>2. Backed /\ Conserved /\ IsFiniteSet(minted) /\ IsFiniteSet(Held)
    BY Zenon DEF CInv
  <1>3. Backed'
    BY Zenon, <1>1, <1>2, SameBacked
  <1>4. /\ Rows' = Rows
        /\ \A o : /\ Units(Live(o), Bytes)' = Units(Live(o), Bytes)
                  /\ Units(Children(o), limit)' = Units(Children(o), limit)
    BY Zenon, <1>1, SameHeld, SameTree
  <1>5. Conserved'
    BY Zenon, <1>1, <1>2, <1>4 DEF Conserved
  <1> QED
    BY Zenon, <1>1, <1>2, <1>3, <1>5

\* The ledger's charges are conserved, for any pools, owners and sizes: what a
\* row is charged is what is held on it and promised from it, byte for byte.
THEOREM ConservationInvariant == Spec => []CInv
  <1>1. Init => CInv
    <2> SUFFICES ASSUME Init PROVE CInv
      BY Zenon
    <2>1. IInv
      BY DEF Init, IInv, TypeOK, HeldChargesAreRecorded, UnmintedIsEmpty, Held
    <2>2. Held = {} /\ minted = {} /\ Rows = {}
      BY Zenon DEF Init, Held, Rows
    <2>3. IsFiniteSet(minted) /\ IsFiniteSet(Held)
      BY Zenon, <2>2, FS_EmptySet
    <2>4. Backed
      BY Zenon, <2>2 DEF Init, Backed
    <2>5. Conserved
      BY Zenon, <2>2 DEF Conserved
    <2> QED
      BY Zenon, <2>1, <2>3, <2>4, <2>5 DEF CInv
  <1>2. CInv /\ IInv' /\ [Next]_vars => CInv'
    <2> SUFFICES ASSUME CInv, IInv', [Next]_vars
                 PROVE  CInv'
      BY Zenon
    <2> DEFINE Kept == /\ IsFiniteSet(minted') /\ IsFiniteSet(Held')
                       /\ Backed' /\ Conserved'
    <2> SUFFICES Kept
      BY Zenon DEF CInv
    <2>1. ASSUME NEW p \in Pools, NEW o \in Owners, NEW n \in Sizes,
                 \/ root(p, o, n) \/ \E up \in Owners : child(p, up, o, n)
          PROVE  Kept
      <3>1. n \in Nat
        BY Zenon, LedgerAssumption
      <3>2. CASE root(p, o, n)
        <4>1. /\ InsertRow(p, o, n, NoOwner) /\ Held' = Held
              /\ charged' = charged /\ NoOwner \in minted \cup {NoOwner}
          BY Zenon, <3>2 DEF root, Held
        <4> QED
          BY Zenon, <3>1, <4>1, InsertConserves
      <3>3. ASSUME NEW up \in Owners, child(p, up, o, n)
            PROVE  Kept
        <4>1. /\ InsertRow(p, o, n, up) /\ Held' = Held
              /\ up # NoOwner /\ up \in minted \cup {NoOwner}
              /\ n <= available(p, up) /\ ChargeParent(p, up, n)
          BY Zenon, <3>3, LedgerAssumption DEF child, Held
        <4> QED
          BY Zenon, <3>1, <4>1, InsertConserves
      <3> QED
        BY Zenon, <2>1, <3>2, <3>3
    <2>2. ASSUME NEW p \in Pools, NEW o \in Owners, NEW n \in Sizes,
                 reserve(p, o, n)
          PROVE  Kept
      <3>1. n \in Nat
        BY Zenon, LedgerAssumption
      <3> QED
        BY Zenon, <2>2, <3>1, ReserveConserves
    <2>3. ASSUME NEW p \in Pools, NEW o \in Owners, release_owner(p, o)
          PROVE  Kept
      BY Zenon, <2>3, ReleaseConserves
    <2>4. ASSUME NEW p \in Pools, NEW g \in grants, redeem(p, g)
          PROVE  Kept
      BY Zenon, <2>4, RedeemConserves
    <2>5. CASE \/ \E g \in grants : DropGrant(g)
               \/ \E h \in permits : EndPermit(h)
      BY Zenon, <2>5, EndConserves
    <2>6. CASE UNCHANGED vars
      BY Zenon, <2>6, StutterConserves
    <2> QED
      BY Zenon, <2>1, <2>2, <2>3, <2>4, <2>5, <2>6 DEF Next
  <1> QED
    BY <1>1, <1>2, LedgerInvariant, PTL DEF Spec

\* No saturating_sub of the ledger ever saturates: an owner is charged exactly
\* what its live grants and permits hold and what its children were promised.
THEOREM ChargesAreConserved == Spec => []Conserved
  <1>1. CInv => Conserved
    BY Zenon DEF CInv
  <1> QED
    BY ConservationInvariant, <1>1, PTL

-----------------------------------------------------------------------------
(* The tree of owners.                                                     *)

\* A set whose members each belong to one of finitely many holders is no larger
\* than what the holders may hold, when no holder has more than its size.
LEMMA Fibres ==
    ASSUME NEW U, IsFiniteSet(U), NEW S, IsFiniteSet(S), NEW size,
           \A c \in S : size[c] \in Nat, NEW w \in [U -> S],
           \A c \in S : Cardinality({u \in U : w[u] = c}) <= size[c]
    PROVE  Cardinality(U) <= Cardinality(Units(S, size))
  <1> DEFINE F(c) == {u \in U : w[u] = c}
  <1>1. ASSUME NEW c \in S
        PROVE  \E f \in [F(c) -> 1 .. size[c]] :
                  \A u, v \in F(c) : f[u] = f[v] => u = v
    <2>1. IsFiniteSet(F(c)) /\ F(c) \subseteq U
      BY Zenon, FS_Subset
    <2>2. PICK m : m = Cardinality(F(c))
      BY Zenon
    <2>3. m \in Nat /\ ExistsBijection(1 .. m, F(c))
      BY Zenon, <2>1, <2>2, FS_CardinalityType
    <2>4. PICK b \in Bijection(1 .. m, F(c)) : TRUE
      BY Zenon, <2>3 DEF ExistsBijection
    <2>5. /\ b \in [1 .. m -> F(c)]
          /\ \A u \in F(c) : \E i \in 1 .. m : b[i] = u
      BY Zenon, <2>4 DEF Bijection, Injection, Surjection
    <2>6. m <= size[c] /\ size[c] \in Nat
      BY Zenon, <2>2
    <2> DEFINE f == [u \in F(c) |-> CHOOSE i \in 1 .. m : b[i] = u]
    <2>7. \A u \in F(c) : f[u] \in 1 .. m /\ b[f[u]] = u
      BY Zenon, <2>5
    <2>8. f \in [F(c) -> 1 .. size[c]]
      <3>1. 1 .. m \subseteq 1 .. size[c]
        BY <2>3, <2>6
      <3> QED
        BY Zenon, <2>7, <3>1
    <2>9. \A u, v \in F(c) : f[u] = f[v] => u = v
      BY Zenon, <2>7
    <2> QED
      BY Zenon, <2>8, <2>9
  <1> DEFINE Good(c, f) == /\ f \in [F(c) -> 1 .. size[c]]
                           /\ \A u, v \in F(c) : f[u] = f[v] => u = v
             N(c) == CHOOSE f : Good(c, f)
             e == [u \in U |-> <<w[u], N(w[u])[u]>>]
  <1>2. \A c \in S : Good(c, N(c))
    <2> SUFFICES ASSUME NEW c \in S PROVE Good(c, N(c))
      BY Zenon
    <2>1. \E f : Good(c, f)
      BY Zenon, <1>1
    <2> HIDE DEF Good
    <2> QED
      BY Zenon, <2>1
  <1>3. ASSUME NEW u \in U
        PROVE  /\ w[u] \in S /\ u \in F(w[u])
               /\ N(w[u])[u] \in 1 .. size[w[u]]
    <2>1. w[u] \in S /\ u \in F(w[u])
      BY Zenon
    <2>2. N(w[u]) \in [F(w[u]) -> 1 .. size[w[u]]]
      BY Zenon, <1>2, <2>1
    <2> HIDE DEF N
    <2> QED
      BY Zenon, <2>1, <2>2
  <1>4. e \in [U -> Units(S, size)]
    <2>1. \A u \in U : <<w[u], N(w[u])[u]>> \in {w[u]} \X (1 .. size[w[u]])
      <3> HIDE DEF N
      <3> QED
        BY Zenon, <1>3
    <2>2. \A u \in U : <<w[u], N(w[u])[u]>> \in Units(S, size)
      <3> HIDE DEF N
      <3> QED
        BY ZenonT(30), <1>3, <2>1 DEF Units
    <2> HIDE DEF N
    <2> QED
      BY Zenon, <2>2
  <1>5. ASSUME NEW u \in U, NEW v \in U, e[u] = e[v]
        PROVE  u = v
    <2>1. w[u] = w[v] /\ N(w[u])[u] = N(w[v])[v]
      <3> HIDE DEF N
      <3> QED
        BY Zenon, <1>5
    <2>2. Good(w[u], N(w[u])) /\ u \in F(w[u]) /\ v \in F(w[u])
      BY Zenon, <1>2, <1>3, <2>1
    <2> HIDE DEF N
    <2> QED
      BY Zenon, <2>1, <2>2
  <1>6. e \in Injection(U, Units(S, size))
    <2> HIDE DEF e
    <2> QED
      BY Zenon, <1>4, <1>5 DEF Injection, IsInjective
  <1>7. IsFiniteSet(Units(S, size))
    BY Zenon, UnitsFinite
  <1> HIDE DEF e
  <1> QED
    BY Zenon, <1>6, <1>7, FS_Injection

\* Bytes are held only on a row with a limit.
LEMMA HolderHasLimit ==
    ASSUME CInv, NEW h \in Held, h.bytes # 0
    PROVE  h.owner \in Rows /\ limit[h.owner] # 0
  <1>1. /\ h.owner \in Owners /\ h.pool \in Pools /\ h.bytes \in Nat
        /\ pool[h.owner] = h.pool
    BY Zenon DEF CInv, IInv, TypeOK, HeldChargesAreRecorded, Held, Holdings
  <1>2. h.owner \in Rows
    BY Zenon, <1>1, LedgerAssumption DEF Rows
  <1>3. PICK o \in Rows : o = h.owner
    BY Zenon, <1>2
  <1>4. h \in Live(o)
    BY Zenon, <1>3 DEF Live
  <1>5. /\ IsFiniteSet(Live(o)) /\ \A x \in Live(o) : Bytes[x] \in Nat
        /\ Bytes[h] = h.bytes
        /\ Cardinality(Units(Children(o), limit)) \in Nat
        /\ charged[o] = Cardinality(Units(Live(o), Bytes))
                        + Cardinality(Units(Children(o), limit))
        /\ charged[o] <= limit[o] /\ limit[o] \in Nat
    BY Zenon, <1>4, Counted
  <1>6. Cardinality(Units(Live(o), Bytes))
           = Cardinality(Units(Live(o) \ {h}, Bytes)) + h.bytes
    <2>1. Cardinality(Units(Live(o), Bytes))
             = Cardinality(Units(Live(o) \ {h}, Bytes)) + Bytes[h]
      BY Zenon, <1>4, <1>5, UnitsRemove
    <2> QED
      BY Zenon, <1>5, <2>1
  <1>7. Cardinality(Units(Live(o) \ {h}, Bytes)) \in Nat
    <2>1. IsFiniteSet(Live(o) \ {h})
      BY Zenon, <1>5, FS_RemoveElement
    <2> QED
      BY Zenon, <1>5, <2>1, UnitsFinite
  <1> QED
    BY <1>1, <1>3, <1>5, <1>6, <1>7

\* An owner with a limit is a child of a row that has one too.
LEMMA LimitIsBacked ==
    ASSUME CInv, NEW c \in Rows, limit[c] # 0, parent[c] # NoOwner
    PROVE  /\ parent[c] \in Rows /\ limit[parent[c]] # 0
           /\ c \in Children(parent[c])
  <1>1. /\ c \in Owners /\ parent[c] \in Owners /\ pool[c] # NoPool
        /\ pool[parent[c]] = pool[c] /\ limit[c] \in Nat
    BY Zenon DEF CInv, IInv, TypeOK, Backed, Rows
  <1>2. PICK o \in Rows : o = parent[c]
    BY Zenon, <1>1 DEF Rows
  <1>3. c \in Children(o)
    BY Zenon, <1>1, <1>2 DEF Children
  <1>4. /\ IsFiniteSet(Children(o)) /\ \A x \in Children(o) : limit[x] \in Nat
        /\ Cardinality(Units(Live(o), Bytes)) \in Nat
        /\ charged[o] = Cardinality(Units(Live(o), Bytes))
                        + Cardinality(Units(Children(o), limit))
        /\ charged[o] <= limit[o] /\ limit[o] \in Nat
    BY Zenon, Counted
  <1>5. Cardinality(Units(Children(o), limit))
           = Cardinality(Units(Children(o) \ {c}, limit)) + limit[c]
    BY Zenon, <1>3, <1>4, UnitsRemove
  <1>6. Cardinality(Units(Children(o) \ {c}, limit)) \in Nat
    <2>1. IsFiniteSet(Children(o) \ {c})
      BY Zenon, <1>4, FS_RemoveElement
    <2> QED
      BY Zenon, <1>4, <2>1, UnitsFinite
  <1>7. limit[o] # 0
    BY <1>1, <1>4, <1>5, <1>6
  <1> QED
    BY Zenon, <1>2, <1>3, <1>7

\* Any set of live values holds finitely many bytes, and fewer values fewer.
LEMMA HeldCount ==
    ASSUME CInv, NEW K \in SUBSET Held
    PROVE  /\ IsFiniteSet(Units(K, Bytes)) /\ Cardinality(Units(K, Bytes)) \in Nat
           /\ \A L \in SUBSET K :
                 Cardinality(Units(L, Bytes)) <= Cardinality(Units(K, Bytes))
  <1>1. \A h \in K : Bytes[h] \in Nat
    BY DEF CInv, IInv, TypeOK, Bytes, Held, Holdings
  <1>2. IsFiniteSet(K)
    BY Zenon, FS_Subset DEF CInv
  <1>3. IsFiniteSet(Units(K, Bytes)) /\ Cardinality(Units(K, Bytes)) \in Nat
    BY Zenon, <1>1, <1>2, UnitsFinite
  <1>4. \A L \in SUBSET K : Units(L, Bytes) \in SUBSET Units(K, Bytes)
    BY Zenon DEF Units
  <1> QED
    BY Zenon, <1>3, <1>4, FS_Subset

\* When each child's share of K fits the child's limit, an owner and K together
\* fit the owner's.
LEMMA FamilyFits ==
    ASSUME CInv, NEW o \in Rows, NEW K \in SUBSET Held,
           NEW w \in [K -> Children(o)],
           \A c \in Children(o) :
              Cardinality(Units({h \in K : w[h] = c}, Bytes)) <= limit[c]
    PROVE  Cardinality(Units(Live(o) \cup K, Bytes)) <= limit[o]
  <1>1. PICK S : S = Children(o)
    BY Zenon
  <1>2. /\ IsFiniteSet(S) /\ \A c \in S : limit[c] \in Nat
        /\ Cardinality(Units(Live(o), Bytes)) \in Nat
        /\ Cardinality(Units(S, limit)) \in Nat
        /\ charged[o] = Cardinality(Units(Live(o), Bytes))
                        + Cardinality(Units(S, limit))
        /\ charged[o] <= limit[o] /\ limit[o] \in Nat
    BY Zenon, <1>1, Counted
  <1>3. PICK U : U = Units(K, Bytes)
    BY Zenon
  <1>4. IsFiniteSet(U) /\ Cardinality(U) \in Nat
    BY Zenon, <1>3, HeldCount
  <1>5. \A u \in U : u[1] \in K
    <2> SUFFICES ASSUME NEW u \in U PROVE u[1] \in K
      BY Zenon
    <2>1. PICK h \in K : u \in {h} \X (1 .. Bytes[h])
      BY Zenon, <1>3 DEF Units
    <2>2. u[1] = h
      BY Zenon, <2>1
    <2> QED
      BY Zenon, <2>2
  <1>6. PICK v : v = [u \in U |-> w[u[1]]]
    BY Zenon
  <1>7. v \in [U -> S]
    BY Zenon, <1>1, <1>5, <1>6
  <1>8. ASSUME NEW c \in S
        PROVE  Cardinality({u \in U : v[u] = c}) <= limit[c]
    <2>1. PICK L : L = {h \in K : w[h] = c}
      BY Zenon
    <2>2. {u \in U : v[u] = c} \subseteq Units(L, Bytes)
      <3> SUFFICES ASSUME NEW u \in U, v[u] = c PROVE u \in Units(L, Bytes)
        BY Zenon
      <3>1. PICK h \in K : u \in {h} \X (1 .. Bytes[h])
        BY Zenon, <1>3 DEF Units
      <3>2. u[1] = h
        BY Zenon, <3>1
      <3>3. h \in L
        BY Zenon, <1>6, <2>1, <3>2
      <3> QED
        BY Zenon, <3>1, <3>3 DEF Units
    <2>3. IsFiniteSet(Units(L, Bytes)) /\ Cardinality(Units(L, Bytes)) \in Nat
      <3>1. L \in SUBSET Held
        BY Zenon, <2>1
      <3> QED
        BY Zenon, <3>1, HeldCount
    <2>4. /\ Cardinality({u \in U : v[u] = c}) <= Cardinality(Units(L, Bytes))
          /\ IsFiniteSet({u \in U : v[u] = c})
      BY Zenon, <2>2, <2>3, FS_Subset
    <2>5. Cardinality({u \in U : v[u] = c}) \in Nat
      BY Zenon, <2>4, FS_CardinalityType
    <2>6. Cardinality(Units(L, Bytes)) <= limit[c] /\ limit[c] \in Nat
      BY Zenon, <1>1, <1>2, <2>1
    <2>7. PICK a, b : a = Cardinality({u \in U : v[u] = c})
                      /\ b = Cardinality(Units(L, Bytes))
      BY Zenon
    <2>8. a \in Nat /\ b \in Nat /\ limit[c] \in Nat /\ a <= b /\ b <= limit[c]
      BY Zenon, <2>3, <2>4, <2>5, <2>6, <2>7
    <2>9. a <= limit[c]
      BY <2>8
    <2> QED
      BY Zenon, <2>7, <2>9
  <1>9. Cardinality(U) <= Cardinality(Units(S, limit))
    BY Zenon, <1>2, <1>4, <1>7, <1>8, Fibres
  <1>10. PICK A : A = Units(Live(o), Bytes)
    BY Zenon
  <1>11. IsFiniteSet(A)
    <2>1. Live(o) \in SUBSET Held
      BY Zenon DEF Live
    <2> QED
      BY Zenon, <1>10, <2>1, HeldCount
  <1>12. Units(Live(o) \cup K, Bytes) = A \cup U
    BY Zenon, <1>3, <1>10 DEF Units
  <1>13. /\ Cardinality(A \cup U)
                = Cardinality(A) + Cardinality(U) - Cardinality(A \cap U)
         /\ IsFiniteSet(A \cap U)
    BY Zenon, <1>4, <1>11, FS_Union, FS_Intersection
  <1>14. Cardinality(A \cap U) \in Nat
    BY Zenon, <1>13, FS_CardinalityType
  <1>15. Cardinality(A) + Cardinality(U) - Cardinality(A \cap U) <= limit[o]
    BY <1>2, <1>4, <1>9, <1>10, <1>14
  <1> QED
    BY Zenon, <1>12, <1>13, <1>15

\* What an owner and its children hold fits the owner's limit.
LEMMA ChildrenFit ==
    ASSUME CInv, NEW o \in Rows
    PROVE  LET K == {h \in Held : h.owner \in Children(o)}
           IN  Cardinality(Units(Live(o) \cup K, Bytes)) <= limit[o]
  <1>1. PICK K : K = {h \in Held : h.owner \in Children(o)}
    BY Zenon
  <1>2. PICK w : w = [h \in K |-> h.owner]
    BY Zenon
  <1>3. K \in SUBSET Held /\ w \in [K -> Children(o)]
    BY Zenon, <1>1, <1>2
  <1>4. ASSUME NEW c \in Children(o)
        PROVE  Cardinality(Units({h \in K : w[h] = c}, Bytes)) <= limit[c]
    <2>1. c \in Rows
      BY Zenon DEF Children, Rows
    <2>2. {h \in K : w[h] = c} = Live(c)
      BY Zenon, <1>1, <1>2 DEF Live
    <2>3. /\ Cardinality(Units(Live(c), Bytes)) \in Nat
          /\ Cardinality(Units(Children(c), limit)) \in Nat
          /\ charged[c] = Cardinality(Units(Live(c), Bytes))
                          + Cardinality(Units(Children(c), limit))
          /\ charged[c] <= limit[c] /\ limit[c] \in Nat
      BY Zenon, <2>1, Counted
    <2>4. Cardinality(Units(Live(c), Bytes)) <= limit[c]
      BY <2>3
    <2> QED
      BY Zenon, <2>2, <2>4
  <1>5. Cardinality(Units(Live(o) \cup K, Bytes)) <= limit[o]
    BY Zenon, <1>3, <1>4, FamilyFits
  <1> QED
    BY Zenon, <1>1, <1>5

\* What is held two levels beneath an owner fits its limit.
LEMMA TreeFits ==
    ASSUME CInv, NEW o \in Rows
    PROVE  Cardinality(Units({h \in Held : h.owner \in Beneath(o)}, Bytes))
              <= limit[o]
  <1>1. PICK K : K = {h \in Held : \/ h.owner \in Children(o)
                                   \/ \E c \in Children(o) : h.owner \in Children(c)}
    BY Zenon
  <1>2. PICK w : w = [h \in K |-> IF h.owner \in Children(o)
                                  THEN h.owner ELSE parent[h.owner]]
    BY Zenon
  <1>3. \A h \in K : /\ w[h] \in Children(o)
                     /\ h.owner = w[h] \/ h.owner \in Children(w[h])
    <2> SUFFICES ASSUME NEW h \in K
                 PROVE  /\ w[h] \in Children(o)
                        /\ h.owner = w[h] \/ h.owner \in Children(w[h])
      BY Zenon
    <2>1. CASE h.owner \in Children(o)
      BY Zenon, <1>2, <2>1
    <2>2. CASE h.owner \notin Children(o)
      <3>1. PICK c \in Children(o) : h.owner \in Children(c)
        BY Zenon, <1>1, <2>2
      <3>2. parent[h.owner] = c
        BY Zenon, <3>1 DEF Children
      <3> QED
        BY Zenon, <1>2, <2>2, <3>1, <3>2
    <2> QED
      BY Zenon, <2>1, <2>2
  <1>4. K \in SUBSET Held /\ w \in [K -> Children(o)]
    BY Zenon, <1>1, <1>2, <1>3
  <1>5. ASSUME NEW c \in Children(o)
        PROVE  Cardinality(Units({h \in K : w[h] = c}, Bytes)) <= limit[c]
    <2>1. c \in Rows /\ limit[c] \in Nat
      BY Zenon DEF Children, Rows, CInv, IInv, TypeOK
    <2>2. PICK M : M = Live(c) \cup {h \in Held : h.owner \in Children(c)}
      BY Zenon
    <2>3. PICK L : L = {h \in K : w[h] = c}
      BY Zenon
    <2>4. M \in SUBSET Held /\ L \in SUBSET M
      BY Zenon, <1>3, <1>4, <2>2, <2>3 DEF Live
    <2>5. Cardinality(Units(M, Bytes)) <= limit[c]
      BY Zenon, <2>1, <2>2, ChildrenFit
    <2>6. /\ Cardinality(Units(L, Bytes)) <= Cardinality(Units(M, Bytes))
          /\ Cardinality(Units(M, Bytes)) \in Nat
      BY Zenon, <2>4, HeldCount
    <2>7. Cardinality(Units(L, Bytes)) \in Nat
      <3>1. L \in SUBSET Held
        BY Zenon, <2>4
      <3> QED
        BY Zenon, <3>1, HeldCount
    <2>8. Cardinality(Units(L, Bytes)) <= limit[c]
      BY <2>1, <2>5, <2>6, <2>7
    <2> QED
      BY Zenon, <2>3, <2>8
  <1>6. Cardinality(Units(Live(o) \cup K, Bytes)) <= limit[o]
    BY Zenon, <1>4, <1>5, FamilyFits
  <1>7. PICK B : B = {h \in Held : h.owner \in Beneath(o)}
    BY Zenon
  <1>8. PICK M : M = Live(o) \cup K
    BY Zenon
  <1>9. ASSUME NEW h \in B, h.bytes # 0
        PROVE  h \in M
    <2>1. /\ h \in Held /\ h.owner \in Beneath(o)
          /\ h.owner \in Rows /\ limit[h.owner] # 0
      BY Zenon, <1>7, <1>9, HolderHasLimit
    <2>2. PICK c \in Rows : c = h.owner /\ limit[c] # 0 /\ c \in Beneath(o)
      BY Zenon, <2>1
    <2>3. NoOwner \notin Owners /\ o \in Owners
      BY Zenon, LedgerAssumption DEF Rows
    <2>4. CASE c = o
      BY Zenon, <1>8, <2>1, <2>2, <2>4 DEF Live
    <2>5. CASE parent[c] = o
      <3>1. c \in Children(o)
        BY Zenon, <2>2, <2>3, <2>5, LimitIsBacked
      <3> QED
        BY Zenon, <1>1, <1>8, <2>1, <2>2, <3>1
    <2>6. ASSUME NEW d \in Owners, parent[c] = d, parent[d] = o
          PROVE  h \in M
      <3>1. d \in Rows /\ limit[d] # 0 /\ c \in Children(d)
        BY Zenon, <2>2, <2>3, <2>6, LimitIsBacked
      <3>2. d \in Children(o)
        BY Zenon, <2>3, <2>6, <3>1, LimitIsBacked
      <3> QED
        BY Zenon, <1>1, <1>8, <2>1, <2>2, <3>1, <3>2
    <2> QED
      BY Zenon, <2>2, <2>4, <2>5, <2>6 DEF Beneath
  <1>10. Units(B, Bytes) \subseteq Units(M, Bytes)
    <2> SUFFICES ASSUME NEW u \in Units(B, Bytes) PROVE u \in Units(M, Bytes)
      BY Zenon
    <2>1. PICK h \in B : u \in {h} \X (1 .. Bytes[h])
      BY Zenon DEF Units
    <2>2. Bytes[h] = h.bytes /\ h.bytes \in Nat
      BY Zenon, <1>7 DEF Bytes, CInv, IInv, TypeOK, Held, Holdings
    <2>3. h.bytes # 0
      BY <2>1, <2>2
    <2> QED
      BY Zenon, <1>9, <2>1, <2>3 DEF Units
  <1>11. /\ IsFiniteSet(Units(M, Bytes)) /\ Cardinality(Units(M, Bytes)) \in Nat
         /\ Cardinality(Units(B, Bytes)) \in Nat
    <2>1. M \in SUBSET Held /\ B \in SUBSET Held
      BY Zenon, <1>4, <1>7, <1>8 DEF Live
    <2> QED
      BY Zenon, <2>1, HeldCount
  <1>12. Cardinality(Units(B, Bytes)) <= Cardinality(Units(M, Bytes))
    BY Zenon, <1>10, <1>11, FS_Subset
  <1>13. Cardinality(Units(M, Bytes)) <= limit[o] /\ limit[o] \in Nat
    BY Zenon, <1>6, <1>8, Counted
  <1>14. Cardinality(Units(B, Bytes)) <= limit[o]
    BY <1>11, <1>12, <1>13
  <1> QED
    BY Zenon, <1>7, <1>14

\* What an owner, its children and their children hold together never exceeds
\* the owner's limit, whatever is reserved, redeemed, released and created.
THEOREM TreesAreBounded == Spec => []TreeBounded
  <1>1. CInv => TreeBounded
    BY Zenon, TreeFits DEF TreeBounded
  <1> QED
    BY ConservationInvariant, <1>1, PTL
=============================================================================
