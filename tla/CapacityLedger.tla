--------------------------- MODULE CapacityLedger ---------------------------
(***************************************************************************)
(* The capacity pools (capacity.rs): a tree of owners whose children are   *)
(* backed by their parent's headroom, single-use grants that are charged   *)
(* from the moment they exist, and permits that refund when they go.       *)
(*                                                                         *)
(* Owner and charge identities are process-global and never reused.  The   *)
(* rows mutex makes each operation one action.  A refused operation that   *)
(* changes nothing is no action.                                           *)
(***************************************************************************)
EXTENDS Naturals, FiniteSets

CONSTANTS
    Pools,        \* ProcessCapacityPool objects
    Owners,       \* owner identities the process may mint
    NoPool,       \* the owner has no row
    NoOwner,      \* a root's parent
    Sizes,        \* limits and byte counts callers ask for
    MaxCharge     \* bound on the charge identities minted

ASSUME LedgerAssumption ==
    /\ NoPool \notin Pools /\ NoOwner \notin Owners
    /\ Sizes \subseteq Nat /\ MaxCharge \in Nat

VARIABLES
    minted,       \* owner identities minted so far
    pool,         \* the pool whose rows hold the owner
    limit, charged, parent,   \* the fields of its row
    outstanding,  \* charges issued and not refunded: [charge, bytes]
    grants,       \* CapacityGrants alive
    permits,      \* CapacityPermits alive
    nextCharge,
    unknown_refunds

rowVars == <<minted, pool, limit, charged, parent>>
vars == <<rowVars, outstanding, grants, permits, nextCharge, unknown_refunds>>

Charges == [charge : Nat, bytes : Nat]
\* What a grant and a permit name; `pool' is the ledger that takes the refund.
Holdings == [owner : Owners, charge : Nat, bytes : Nat, pool : Pools]
ChargeOf(h) == [charge |-> h.charge, bytes |-> h.bytes]

\* Every variable has its type, and no owner is charged beyond its limit.
TypeOK ==
    /\ minted \in SUBSET Owners
    /\ pool \in [Owners -> Pools \cup {NoPool}]
    /\ \A o \in Owners : pool[o] # NoPool => o \in minted
    /\ limit \in [Owners -> Nat]
    /\ charged \in [Owners -> Nat]
    /\ \A o \in Owners : charged[o] <= limit[o]
    /\ parent \in [Owners -> Owners \cup {NoOwner}]
    /\ outstanding \in [Owners -> SUBSET Charges]
    /\ grants \in SUBSET Holdings
    /\ permits \in SUBSET Holdings
    /\ nextCharge \in Nat
    /\ unknown_refunds \in Nat

Init ==
    /\ minted = {}
    /\ pool = [o \in Owners |-> NoPool]
    /\ limit = [o \in Owners |-> 0]
    /\ charged = [o \in Owners |-> 0]
    /\ parent = [o \in Owners |-> NoOwner]
    /\ outstanding = [o \in Owners |-> {}]
    /\ grants = {} /\ permits = {}
    /\ nextCharge = 0
    /\ unknown_refunds = 0

\* saturating_sub.
Minus(a, b) == IF a >= b THEN a - b ELSE 0

\* An owner the pool does not have has no headroom.
available(p, o) ==
    IF pool[o] = p THEN Minus(limit[o], charged[o]) ELSE 0

-----------------------------------------------------------------------------
(* Owners.                                                                 *)

\* A new row with nothing charged.
InsertRow(p, o, n, up) ==
    /\ o \notin minted
    /\ minted' = minted \cup {o}
    /\ pool' = [pool EXCEPT ![o] = p]
    /\ limit' = [limit EXCEPT ![o] = n]
    /\ parent' = [parent EXCEPT ![o] = up]

root(p, o, n) ==
    /\ InsertRow(p, o, n, NoOwner)
    /\ UNCHANGED <<charged, outstanding, grants, permits, nextCharge,
                   unknown_refunds>>

\* Mutant: a child's limit is not charged to its parent.
ChargeParentLater(p, up, n) == UNCHANGED charged

\* The promise to a child is charged to its parent at once, when it has a row.
ChargeParent(p, up, n) ==
    charged' = IF pool[up] = p THEN [charged EXCEPT ![up] = @ + n] ELSE charged

\* The parent may be an owner of another pool, or one already released: it has
\* no headroom, and only a child without any limit is accepted.
child(p, up, o, n) ==
    /\ up \in minted
    /\ n <= available(p, up)
    /\ InsertRow(p, o, n, up)
    /\ ChargeParent(p, up, n)
    /\ UNCHANGED <<outstanding, grants, permits, nextCharge, unknown_refunds>>

Children(o) == {c \in Owners : pool[c] = pool[o] /\ parent[c] = o}

\* Mutant: an owner with children is released.
DrainedOfCharges(o) == outstanding[o] = {}

\* Nothing is outstanding and no row names the owner as its parent.
Drained(o) == outstanding[o] = {} /\ Children(o) = {}

release_owner(p, o) ==
    /\ pool[o] = p
    /\ Drained(o)
    /\ parent[o] # NoOwner => pool[parent[o]] = p
    /\ pool' = [pool EXCEPT ![o] = NoPool]
    /\ charged' = IF parent[o] = NoOwner THEN charged
                  ELSE [charged EXCEPT ![parent[o]] = Minus(@, limit[o])]
    /\ UNCHANGED <<minted, limit, parent, outstanding, grants, permits,
                   nextCharge, unknown_refunds>>

-----------------------------------------------------------------------------
(* Grants and permits.                                                     *)

\* The charge is taken before the grant exists, under a fresh identity.
reserve(p, o, n) ==
    /\ pool[o] = p
    /\ n <= available(p, o)
    /\ nextCharge < MaxCharge
    /\ nextCharge' = nextCharge + 1
    /\ charged' = [charged EXCEPT ![o] = @ + n]
    /\ outstanding' = [outstanding EXCEPT ![o] =
                          @ \cup {[charge |-> nextCharge, bytes |-> n]}]
    /\ grants' = grants \cup {[owner |-> o, charge |-> nextCharge,
                               bytes |-> n, pool |-> p]}
    /\ UNCHANGED <<minted, pool, limit, parent, permits, unknown_refunds>>

\* A charge the ledger does not hold refunds nothing and is counted.
refund(h) ==
    IF pool[h.owner] = h.pool /\ ChargeOf(h) \in outstanding[h.owner]
    THEN /\ outstanding' = [outstanding EXCEPT ![h.owner] = @ \ {ChargeOf(h)}]
         /\ charged' = [charged EXCEPT ![h.owner] = Minus(@, h.bytes)]
         /\ UNCHANGED unknown_refunds
    ELSE /\ unknown_refunds' = unknown_refunds + 1
         /\ UNCHANGED <<outstanding, charged>>

\* Mutant: any pool honours a grant, and takes its refund.
redeem_foreign(p, g) ==
    /\ g \in grants
    /\ grants' = grants \ {g}
    /\ permits' = permits \cup {[g EXCEPT !.pool = p]}
    /\ UNCHANGED <<rowVars, outstanding, nextCharge, unknown_refunds>>

\* The issuing pool turns the grant into a permit.  Another pool refuses it,
\* and the refused grant, dropped by the call, refunds its issuer.
redeem(p, g) ==
    /\ g \in grants
    /\ grants' = grants \ {g}
    /\ IF g.pool = p
       THEN /\ permits' = permits \cup {g}
            /\ UNCHANGED <<charged, outstanding, unknown_refunds>>
       ELSE refund(g) /\ UNCHANGED permits
    /\ UNCHANGED <<minted, pool, limit, parent, nextCharge>>

\* A grant abandoned between reserve and redeem.
DropGrant(g) ==
    /\ g \in grants
    /\ grants' = grants \ {g}
    /\ refund(g)
    /\ UNCHANGED <<minted, pool, limit, parent, permits, nextCharge>>

\* A permit released or dropped.
EndPermit(h) ==
    /\ h \in permits
    /\ permits' = permits \ {h}
    /\ refund(h)
    /\ UNCHANGED <<minted, pool, limit, parent, grants, nextCharge>>

Next ==
    \/ \E p \in Pools, o \in Owners :
          \/ \E n \in Sizes :
                \/ root(p, o, n)
                \/ \E up \in Owners : child(p, up, o, n)
                \/ reserve(p, o, n)
          \/ release_owner(p, o)
    \/ \E g \in grants : DropGrant(g) \/ \E p \in Pools : redeem(p, g)
    \/ \E h \in permits : EndPermit(h)

Spec == Init /\ [][Next]_vars

-----------------------------------------------------------------------------
(* Properties.                                                             *)

Held == grants \cup permits
Rows == {o \in Owners : pool[o] # NoPool}
Live(o) == {h \in Held : h.owner = o}

\* The bytes behind the members of S, each told apart from every other.
Units(S, size) == UNION {{x} \X (1 .. size[x]) : x \in S}
Bytes == [h \in Held |-> h.bytes]

\* A refund always names a charge its ledger holds (unknown_refunds is the
\* backstop "no public sequence reaches"): every live grant and permit has its
\* charge in the row of its owner, in the pool that takes the refund.
HeldChargesAreRecorded ==
    /\ \A h \in Held : /\ pool[h.owner] = h.pool
                       /\ ChargeOf(h) \in outstanding[h.owner]
    /\ unknown_refunds = 0

\* Conservation: an owner is charged exactly what its live grants and permits
\* hold and what its children were promised, so no saturating_sub saturates.
Conserved ==
    \A o \in Rows :
       charged[o] = Cardinality(Units(Live(o), Bytes))
                    + Cardinality(Units(Children(o), limit))

\* The owners created beneath o, itself included (at most two levels deep).
Beneath(o) ==
    {c \in Rows : \/ c = o
                  \/ parent[c] = o
                  \/ \E d \in Owners : parent[c] = d /\ parent[d] = o}

\* Everything held beneath an owner, by it, its children and their children,
\* never exceeds the owner's own limit.
TreeBounded ==
    \A o \in Rows :
       Cardinality(Units({h \in Held : h.owner \in Beneath(o)}, Bytes))
          <= limit[o]

\* Nothing is charged to an owner before it is minted.
UnmintedIsEmpty ==
    \A o \in Owners : o \notin minted => charged[o] = 0 /\ outstanding[o] = {}

\* The inductive invariant: it also keeps the charges of live values distinct.
IInv ==
    /\ TypeOK
    /\ HeldChargesAreRecorded
    /\ UnmintedIsEmpty
    /\ \A h \in Held : h.charge < nextCharge
    /\ \A g, h \in Held : g.charge = h.charge => g = h
    /\ grants \cap permits = {}

\* A parent was minted before its child, and an owner with a limit has a parent
\* with a row in its own pool.
Backed ==
    /\ \A o \in Owners : parent[o] # NoOwner => parent[o] \in minted
    /\ \A o \in Rows : parent[o] # NoOwner
                          => pool[parent[o]] = pool[o] \/ limit[o] = 0

\* The inductive invariant of conservation.
CInv == IInv /\ IsFiniteSet(minted) /\ IsFiniteSet(Held) /\ Backed /\ Conserved
=============================================================================
