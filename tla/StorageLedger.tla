----------------------------- MODULE StorageLedger -----------------------------
(* The byte ledger of one agent's objects in managed S3: a committed claim on
   the key comes first, then one request to the provider, then the settlement
   of what is known of it. The provider may apply a request long after its
   caller gave up, and the caller may die between any two steps.

   An operation is one call of the storage backend, or one listing page of a
   tree deletion; its id is fresh, so it is used once. *)
EXTENDS Integers, FiniteSets, Functions

CONSTANTS
    Key,             \* relative keys under the agent's prefix
    Op,              \* operation ids
    NoOp,
    Plan,            \* tiers of the organizations the agent may belong to
    NoPlan,          \* an organization without a tier: no limits
    StorageLimit,    \* [Plan -> Nat], storage_limit_bytes
    FileLimit,       \* [Plan -> Nat], max_file_size_bytes
    MaxSize          \* bound: sizes of files

ASSUME LedgerAssumption ==
    /\ NoOp \notin Op /\ NoPlan \notin Plan
    /\ IsFiniteSet(Key) /\ MaxSize \in Nat
    /\ StorageLimit \in [Plan -> Nat] /\ FileLimit \in [Plan -> Nat]

Gone == -1           \* no object at the provider
Size == 0 .. MaxSize

VARIABLES
    row,             \* agent_storage_objects; a missing row is all zero
    charged,         \* agent_storage_usage.charged_bytes
    plan,
    op,              \* the operations' callers
    wire,            \* keys of an operation's request not yet decided
    done,            \* keys for which the provider applied it
    void,            \* keys for which it never will
    store            \* sizes of the objects at the provider

vars == <<row, charged, plan, op, wire, done, void, store>>
provider == <<wire, done, void, store>>

Larger(a, b) == IF a > b THEN a ELSE b

Bytes(k) == Larger(store[k], 0)
ChargeOf(r) == Larger(r.committed, r.reserved)
Pending(k) == row[k].op # NoOp

NoRow == [committed |-> 0, reserved |-> 0, op |-> NoOp]
Unused == [pc |-> "new", kind |-> "none", keys |-> {}, size |-> 0,
           took |-> {}, refused |-> {}, adopted |-> 0]

Rows == [committed : Size, reserved : Size, op : Op \cup {NoOp}]
Ops == [pc : {"new", "claimed", "sent", "head", "settle", "end"},
        kind : {"none", "write", "create", "delete"}, keys : SUBSET Key,
        size : Size, took : SUBSET Key, refused : SUBSET Key, adopted : Size]

TypeOK ==
    /\ row \in [Key -> Rows]
    /\ charged \in Int
    /\ plan \in Plan \cup {NoPlan}
    /\ op \in [Op -> Ops]
    /\ wire \in [Op -> SUBSET Key]
    /\ done \in [Op -> SUBSET Key]
    /\ void \in [Op -> SUBSET Key]
    /\ store \in [Key -> Size \cup {Gone}]

Init ==
    /\ row = [k \in Key |-> NoRow]
    /\ charged = 0
    /\ plan \in Plan \cup {NoPlan}
    /\ op = [o \in Op |-> Unused]
    /\ wire = [o \in Op |-> {}]
    /\ done = [o \in Op |-> {}]
    /\ void = [o \in Op |-> {}]
    /\ store = [k \in Key |-> Gone]

-----------------------------------------------------------------------------
(* Claims. *)

Claim(o, kind, keys, n) ==
    op' = [op EXCEPT ![o] = [Unused EXCEPT !.pc = "claimed", !.kind = kind,
                                           !.keys = keys, !.size = n]]

Fits(growth, n) ==
    plan # NoPlan => /\ n <= FileLimit[plan]
                     /\ growth > 0 => charged + growth <= StorageLimit[plan]

\* Mutant: only committed bytes count, so a larger overwrite in flight is free.
ReserveUncharged(o, kind, k, n) ==
    /\ op[o].pc = "new" /\ ~Pending(k) /\ Fits(n - row[k].committed, n)
    /\ row' = [row EXCEPT ![k].op = o]
    /\ Claim(o, kind, {k}, n)
    /\ UNCHANGED <<charged, plan, provider>>

\* reserve_write: max(current, size) is charged until the outcome is known.
\* Blocked, too large and over the limit change nothing.
Reserve(o, kind, k, n) ==
    LET growth == Larger(row[k].committed, n) - row[k].committed IN
    /\ op[o].pc = "new" /\ ~Pending(k) /\ Fits(growth, n)
    /\ row' = [row EXCEPT ![k].reserved = n, ![k].op = o]
    /\ charged' = charged + growth
    /\ Claim(o, kind, {k}, n)
    /\ UNCHANGED <<plan, provider>>

\* begin_delete and begin_delete_batch: the claim keeps the charge; keys held
\* by an unresolved operation are left out of a batch.
BeginDelete(o, keys) ==
    LET free == {k \in keys : ~Pending(k)} IN
    /\ op[o].pc = "new" /\ free # {}
    /\ row' = [k \in Key |-> IF k \in free
                  THEN [row[k] EXCEPT !.reserved = 0, !.op = o] ELSE row[k]]
    /\ Claim(o, "delete", free, 0)
    /\ UNCHANGED <<charged, plan, provider>>

-----------------------------------------------------------------------------
(* The provider's part. *)

Send(o) ==
    /\ op[o].pc = "claimed"
    /\ op' = [op EXCEPT ![o].pc = "sent"]
    /\ wire' = [wire EXCEPT ![o] = op[o].keys]
    /\ UNCHANGED <<row, charged, plan, done, void, store>>

\* conditional_write and conditional_delete read the version under the claim:
\* a conflict or a refused read releases it, a failed read leaves it unknown.
Precheck(o, refused) ==
    /\ op[o].pc = "claimed" /\ Cardinality(op[o].keys) = 1
    /\ refused \in {{}, op[o].keys}
    /\ op' = [op EXCEPT ![o].pc = "settle", ![o].refused = refused]
    /\ UNCHANGED <<row, charged, plan, provider>>

\* The object after the provider applied o's request for k; a create does
\* nothing when there is one already.
Result(o, k) ==
    CASE op[o].kind = "delete" -> Gone
      [] op[o].kind = "create" /\ store[k] # Gone -> store[k]
      [] OTHER -> op[o].size

\* The provider applies a request, however late, for one of its keys.
Apply(o, k) ==
    /\ k \in wire[o]
    /\ wire' = [wire EXCEPT ![o] = @ \ {k}]
    /\ store' = [store EXCEPT ![k] = Result(o, k)]
    /\ IF op[o].kind = "create" /\ store[k] # Gone
       THEN void' = [void EXCEPT ![o] = @ \cup {k}] /\ UNCHANGED done
       ELSE done' = [done EXCEPT ![o] = @ \cup {k}] /\ UNCHANGED void
    /\ UNCHANGED <<row, charged, plan, op>>

\* The provider refuses a request, or it never got there.
Refuse(o, k) ==
    /\ k \in wire[o]
    /\ wire' = [wire EXCEPT ![o] = @ \ {k}]
    /\ void' = [void EXCEPT ![o] = @ \cup {k}]
    /\ UNCHANGED <<row, charged, plan, op, done, store>>

\* Mutant: a timeout counts as a refusal.
KnownRefusedLate(o) == void[o] \cup wire[o]

\* failure_outcome: REJECTED only when the provider cannot have applied it.
KnownRefused(o) == void[o]

\* The call returns or raises: some of what was applied is confirmed, some of
\* what was refused is known to be; the rest is unknown. A create refused by
\* its precondition looks at the winner before it settles.
Respond(o, took, refused) ==
    /\ op[o].pc = "sent"
    /\ took \subseteq done[o] /\ refused \subseteq KnownRefused(o)
    /\ \E pc \in {"settle", "head"} :
          /\ pc = "head" => op[o].kind = "create" /\ refused # {}
          /\ op' = [op EXCEPT ![o].pc = pc,
                              ![o].took = took, ![o].refused = refused]
    /\ UNCHANGED <<row, charged, plan, provider>>

\* _create: the winner's size is adopted; if it cannot be read, nothing is
\* known.  A winner got there through the ledger, as every object under the
\* agent's prefix (it is "exclusively owned", quota_keys.py:10).
HeadWinner(o, seen) ==
    /\ op[o].pc = "head"
    /\ op' = [op EXCEPT ![o].pc = "settle",
          ![o].refused = IF seen THEN @ ELSE {},
          ![o].adopted = IF seen THEN Bytes(CHOOSE k \in op[o].keys : TRUE)
                         ELSE 0]
    /\ UNCHANGED <<row, charged, plan, provider>>

-----------------------------------------------------------------------------
(* Settlement. *)

Committed(k, n) == [NoRow EXCEPT !.committed = n]

\* Mutant: a deletion that was not confirmed releases its key.
SettledReleased(o, k) ==
    CASE row[k].op # o -> row[k]
      [] k \in op[o].took -> Committed(k, op[o].size)
      [] OTHER -> Committed(k, Larger(row[k].committed, op[o].adopted))

\* settle and finish_delete_batch, for one key: LANDED, REJECTED, UNKNOWN.
Settled(o, k) ==
    CASE row[k].op # o -> row[k]
      [] k \in op[o].took -> Committed(k, op[o].size)
      [] k \in op[o].refused ->
            Committed(k, Larger(row[k].committed, op[o].adopted))
      [] OTHER -> row[k]

Settle(o) ==
    /\ op[o].pc = "settle"
    /\ row' = [k \in Key |-> Settled(o, k)]
    /\ charged' = charged + SumFunction(
                     [k \in Key |-> ChargeOf(Settled(o, k)) - ChargeOf(row[k])])
    /\ op' = [op EXCEPT ![o].pc = "end"]
    /\ UNCHANGED <<plan, provider>>

\* The caller dies, its claim's commit is not acknowledged, or the ledger stays
\* unreachable for all attempts of settle_with_retry: the rows stay pending.
Abandon(o) ==
    /\ op[o].pc \in {"claimed", "sent", "head", "settle"}
    /\ op' = [op EXCEPT ![o].pc = "end"]
    /\ UNCHANGED <<row, charged, plan, provider>>

-----------------------------------------------------------------------------
\* Mutant: only settled objects are looked at.
AdmitsSettled(p) ==
    p # NoPlan => /\ charged <= StorageLimit[p]
                  /\ \A k \in Key : row[k].committed <= FileLimit[p]

\* require_destination_storage, under the usage lock.
Admits(p) ==
    p # NoPlan => /\ charged <= StorageLimit[p]
                  /\ \A k \in Key : ChargeOf(row[k]) <= FileLimit[p]

\* apply_disposition: the agent moves to another organization.
Transfer(p) ==
    /\ p # plan /\ Admits(p) /\ plan' = p
    /\ UNCHANGED <<row, charged, op, provider>>

Next ==
    \/ \E o \in Op, kind \in {"write", "create"}, k \in Key, n \in Size :
          Reserve(o, kind, k, n)
    \/ \E o \in Op, keys \in SUBSET Key : BeginDelete(o, keys)
    \/ \E o \in Op, refused \in SUBSET Key : Precheck(o, refused)
    \/ \E o \in Op, took, refused \in SUBSET Key : Respond(o, took, refused)
    \/ \E o \in Op, k \in Key : Apply(o, k) \/ Refuse(o, k)
    \/ \E o \in Op, seen \in BOOLEAN : HeadWinner(o, seen)
    \/ \E o \in Op : Send(o) \/ Settle(o) \/ Abandon(o)
    \/ \E p \in Plan \cup {NoPlan} : Transfer(p)

Spec == Init /\ [][Next]_vars

-----------------------------------------------------------------------------
(* Properties. *)

\* Whatever the provider holds, and whatever a request still on its way can
\* make it hold, is charged to the agent.
Covered ==
    \A k \in Key :
        /\ Bytes(k) <= ChargeOf(row[k])
        /\ \A o \in Op : k \in wire[o] => op[o].size <= ChargeOf(row[k])

\* A key without a pending operation is accounted exactly, and no request that
\* could still change it is on its way.
SettledIsExact ==
    \A k \in Key : ~Pending(k) =>
        /\ Bytes(k) = row[k].committed
        /\ \A o \in Op : k \notin wire[o]

\* The usage total is the sum of the objects' charges.
Charges == [k \in Key |-> ChargeOf(row[k])]
ChargedIsSum == charged = SumFunction(Charges)

\* The agent stays within the tier of the organization it is in.
WithinPlan ==
    plan # NoPlan =>
        /\ charged <= StorageLimit[plan]
        /\ \A k \in Key : ChargeOf(row[k]) <= FileLimit[plan]

\* The ledger never understates the provider, although requests land late,
\* callers die and outcomes stay unknown, and the tier's limits hold for it.
LedgerSafety == Covered /\ SettledIsExact /\ ChargedIsSum /\ WithinPlan

-----------------------------------------------------------------------------
(* The inductive invariant: what a claim, its request and the object have to *)
(* do with each other.                                                       *)

\* A caller holds the rows of its claim until it settles or dies, and a row is
\* pending for an operation only with what that operation asked for.
RowsAreHeld ==
    \A o \in Op :
        /\ op[o].pc \in {"claimed", "sent", "head", "settle"} =>
              \A k \in op[o].keys : row[k].op = o
        /\ \A k \in Key : row[k].op = o =>
              /\ op[o].pc # "new" /\ k \in op[o].keys
              /\ row[k].reserved = op[o].size

\* A write has one key and a deletion no size.
ClaimShape ==
    \A o \in Op :
        /\ op[o].kind \in {"write", "create"} => \E k \in Key : op[o].keys = {k}
        /\ op[o].kind = "delete" => op[o].size = 0
        /\ op[o].pc # "new" => op[o].kind # "none"

\* What the provider does with a request it does once, after it was sent.
Decided ==
    \A o \in Op :
        /\ op[o].pc \in {"new", "claimed"} => wire[o] = {} /\ done[o] = {} /\ void[o] = {}
        /\ wire[o] \cup done[o] \cup void[o] \subseteq op[o].keys
        /\ wire[o] \cap done[o] = {} /\ wire[o] \cap void[o] = {} /\ done[o] \cap void[o] = {}

\* What a caller takes for confirmed was applied, what it takes for refused
\* was not and will not be.
Evidence ==
    \A o \in Op :
        /\ op[o].took \subseteq done[o] /\ op[o].refused \subseteq op[o].keys
        /\ op[o].refused \cap (wire[o] \cup done[o]) = {}
        /\ op[o].took \cup op[o].refused # {} => op[o].pc \in {"head", "settle", "end"}
        /\ op[o].pc = "head" => op[o].kind = "create" /\ op[o].refused # {}
        /\ op[o].pc \in {"new", "claimed", "sent", "head"} => op[o].adopted = 0
        /\ op[o].pc = "settle" =>
              \A k \in op[o].refused : op[o].adopted <= row[k].committed

\* An object is as it was settled, or as the one pending operation makes it.
ObjectsKnown ==
    \A k \in Key :
        /\ ~Pending(k) => row[k].reserved = 0
        /\ \A o \in Op : k \in wire[o] => row[k].op = o
        /\ IF Pending(k) /\ k \in done[row[k].op]
           THEN Bytes(k) = op[row[k].op].size
           ELSE Bytes(k) = row[k].committed

LedgerInv ==
    /\ TypeOK /\ RowsAreHeld /\ ClaimShape /\ Decided /\ Evidence /\ ObjectsKnown
    /\ ChargedIsSum /\ WithinPlan
=============================================================================
