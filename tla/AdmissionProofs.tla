--------------------------- MODULE AdmissionProofs ---------------------------
(* What is charged: the byte ledger never understates the provider, and a     *)
(* turn is accepted and paid once, by one decision.  The sums of charges and  *)
(* the recursion over what is sent again need an induction, which is done     *)
(* here by least counterexamples.                                             *)
EXTENDS MCAdmission, Sequences, FiniteSetTheorems, WellFoundedInduction, TLAPS

-----------------------------------------------------------------------------
(* Sums of a function over a finite set.                                      *)

\* A set of naturals that holds 0 and the successor of each of its members
\* holds all of them (by its least counterexample).
LEMMA Counting ==
    ASSUME NEW G, 0 \in G, \A n \in Nat : n \in G => n + 1 \in G
    PROVE  \A n \in Nat : n \in G
<1> SUFFICES ASSUME NEW n \in Nat, n \notin G PROVE FALSE
    OBVIOUS
<1> DEFINE Bad == {k \in Nat : k \notin G}
<1>1. PICK m \in Bad : \A k \in Bad : <<k, m>> \notin OpToRel(<, Nat)
  <2>1. Bad \subseteq Nat /\ Bad # {}
    OBVIOUS
  <2> QED BY <2>1, WFMin, NatLessThanWellFounded
<1>2. m \in Nat /\ m \notin G /\ m # 0
    OBVIOUS
<1>3. m - 1 \in Nat /\ (m - 1) + 1 = m
    BY <1>2
<1>4. m - 1 \notin G
    BY <1>2, <1>3
<1>5. <<m - 1, m>> \in OpToRel(<, Nat)
    BY <1>2, <1>3 DEF OpToRel
<1> QED BY <1>1, <1>3, <1>4, <1>5

\* One step of the fold that SumFunctionOnSet is.
First(s) == CHOOSE x \in s : TRUE
Summed(f, h, s) == IF s = {} THEN 0 ELSE f[First(s)] + h[s \ {First(s)}]

\* h maps the subsets of S to their sums.
IsFold(f, h, S) == h = [s \in SUBSET S |-> Summed(f, h, s)]

\* The subsets of S of at most n elements.
Small(S, n) == {s \in SUBSET S : Cardinality(s) <= n}

\* The element taken from a set is in it.
LEMMA FirstOf == ASSUME NEW s, s # {} PROVE First(s) \in s
BY DEF First

\* A set with one element less than s is smaller by one.
LEMMA SmallStep ==
    ASSUME NEW S, IsFiniteSet(S), NEW n \in Nat, NEW s \in Small(S, n + 1), s # {}
    PROVE  s \ {First(s)} \in Small(S, n)
<1>1. IsFiniteSet(s)
    BY FS_Subset DEF Small
<1>2. /\ IsFiniteSet(s \ {First(s)})
      /\ Cardinality(s \ {First(s)}) = Cardinality(s) - 1
    BY <1>1, FirstOf, FS_RemoveElement
<1>3. Cardinality(s) \in Nat /\ Cardinality(s) <= n + 1
    BY <1>1, FS_CardinalityType DEF Small
<1> QED BY <1>2, <1>3 DEF Small

\* Sums over the subsets of a finite set exist.
LEMMA FoldExists ==
    ASSUME NEW S, IsFiniteSet(S), NEW f
    PROVE  \E h : IsFold(f, h, S)
<1> DEFINE Ok(n, h) == h = [s \in Small(S, n) |-> Summed(f, h, s)]
           G == {n \in Nat : \E h : Ok(n, h)}
<1>1. 0 \in G
  <2> DEFINE h == [s \in Small(S, 0) |-> 0]
  <2>1. \A s \in Small(S, 0) : s = {}
    BY FS_Subset, FS_EmptySet, FS_CardinalityType DEF Small
  <2>2. h = [s \in Small(S, 0) |-> Summed(f, h, s)]
    BY <2>1 DEF IsFold, Summed
  <2> QED BY <2>2
<1>2. ASSUME NEW n \in Nat, n \in G PROVE n + 1 \in G
  <2>1. PICK g : Ok(n, g)
    BY <1>2
  <2> DEFINE h == [s \in Small(S, n + 1) |-> Summed(f, g, s)]
  <2>2. \A s \in Small(S, n) : s \in Small(S, n + 1) /\ h[s] = g[s]
    <3> SUFFICES ASSUME NEW s \in Small(S, n) PROVE s \in Small(S, n + 1) /\ h[s] = g[s]
        OBVIOUS
    <3>1. s \in Small(S, n + 1)
        BY FS_Subset, FS_CardinalityType DEF Small
    <3>2. g[s] = Summed(f, g, s)
        BY <2>1
    <3> QED BY <3>1, <3>2
  <2>3. \A s \in Small(S, n + 1) : Summed(f, g, s) = Summed(f, h, s)
    <3> SUFFICES ASSUME NEW s \in Small(S, n + 1) PROVE Summed(f, g, s) = Summed(f, h, s)
        OBVIOUS
    <3>1. CASE s = {}
        BY <3>1 DEF IsFold, Summed
    <3>2. CASE s # {}
        <4>1. h[s \ {First(s)}] = g[s \ {First(s)}]
            BY <3>2, <2>2, SmallStep
        <4> HIDE DEF h
        <4> QED BY <3>2, <4>1 DEF IsFold, Summed
    <3> QED BY <3>1, <3>2
  <2>4. h = [s \in Small(S, n + 1) |-> Summed(f, h, s)]
    BY <2>3
  <2>5. \E k : Ok(n + 1, k)
    <3> HIDE DEF h
    <3> QED BY <2>4
  <2> QED BY <2>5
<1>3. \A n \in Nat : n \in G
  <2> HIDE DEF G
  <2> QED BY <1>1, <1>2, Counting
<1>4. Cardinality(S) \in Nat
    BY FS_CardinalityType
<1>5. PICK h : Ok(Cardinality(S), h)
    BY <1>3, <1>4
<1>6. Small(S, Cardinality(S)) = SUBSET S
    BY FS_Subset DEF Small
<1>7. IsFold(f, h, S)
    BY <1>5, <1>6 DEF IsFold
<1> QED BY <1>7

\* The library's sum over S is one of those sums, taken at S.
LEMMA SumIsFold ==
    ASSUME NEW S, NEW f
    PROVE  SumFunctionOnSet(f, S) =
             (CHOOSE h : IsFold(f, h, S))[S]
BY DEF SumFunctionOnSet, FoldFunctionOnSet, MapThenFoldSet, IsFold, Summed, First

\* The sum over S unfolds: sums over all subsets of S that agree with it.
LEMMA SumUnfold ==
    ASSUME NEW S, IsFiniteSet(S), NEW f
    PROVE  \E h : IsFold(f, h, S) /\ SumFunctionOnSet(f, S) = h[S]
BY FoldExists, SumIsFold

\* A property of sums holds of the sum over S when it holds of the empty sum
\* and carries over from the rest of a set to the set.
LEMMA SumOf ==
    ASSUME NEW S, IsFiniteSet(S), NEW G,
           {} \in G,
           \A s \in SUBSET S : s # {} /\ s \ {First(s)} \in G => s \in G
    PROVE  S \in G
<1> DEFINE N == {n \in Nat : \A s \in Small(S, n) : s \in G}
<1>1. 0 \in N
    BY FS_Subset, FS_EmptySet, FS_CardinalityType DEF Small
<1>2. ASSUME NEW n \in Nat, n \in N PROVE n + 1 \in N
  <2> SUFFICES ASSUME NEW s \in Small(S, n + 1) PROVE s \in G
      OBVIOUS
  <2>1. CASE s = {}
    BY <2>1
  <2>2. CASE s # {}
    <3>1. s \ {First(s)} \in Small(S, n)
        BY <2>2, SmallStep
    <3> QED BY <1>2, <2>2, <3>1 DEF Small
  <2> QED BY <2>1, <2>2
<1>3. \A n \in Nat : n \in N
  <2> HIDE DEF N
  <2> QED BY <1>1, <1>2, Counting
<1>4. Cardinality(S) \in Nat /\ S \in Small(S, Cardinality(S))
    BY FS_CardinalityType DEF Small
<1> QED BY <1>3, <1>4

\* The sum of integers is one.
LEMMA SumType ==
    ASSUME NEW S, IsFiniteSet(S), NEW f \in [S -> Int]
    PROVE  SumFunctionOnSet(f, S) \in Int
<1>1. PICK h : IsFold(f, h, S) /\ SumFunctionOnSet(f, S) = h[S]
    BY SumUnfold
<1> DEFINE G == {s \in SUBSET S : h[s] \in Int}
<1>2. {} \in G
    BY <1>1 DEF IsFold, Summed
<1>3. ASSUME NEW s \in SUBSET S, s # {}, s \ {First(s)} \in G PROVE s \in G
  <2>1. h[s] = f[First(s)] + h[s \ {First(s)}]
    BY <1>1, <1>3 DEF IsFold, Summed
  <2>2. f[First(s)] \in Int
    BY <1>3, FirstOf
  <2> QED BY <1>3, <2>1, <2>2
<1>4. S \in G
  <2> HIDE DEF G
  <2> QED BY <1>2, <1>3, SumOf
<1> QED BY <1>1, <1>4

\* Sums are compared and added term by term.
LEMMA SumOfSums ==
    ASSUME NEW S, IsFiniteSet(S), NEW f \in [S -> Int], NEW g \in [S -> Int], NEW d \in [S -> Int],
           \A x \in S : g[x] = f[x] + d[x]
    PROVE  SumFunctionOnSet(g, S) = SumFunctionOnSet(f, S) + SumFunctionOnSet(d, S)
<1>1. PICK a : IsFold(f, a, S) /\ SumFunctionOnSet(f, S) = a[S]
    BY SumUnfold
<1>2. PICK b : IsFold(g, b, S) /\ SumFunctionOnSet(g, S) = b[S]
    BY SumUnfold
<1>3. PICK c : IsFold(d, c, S) /\ SumFunctionOnSet(d, S) = c[S]
    BY SumUnfold
<1> DEFINE G == {s \in SUBSET S : a[s] \in Int /\ c[s] \in Int /\ b[s] = a[s] + c[s]}
<1>4. {} \in G
    BY <1>1, <1>2, <1>3 DEF IsFold, Summed
<1>5. ASSUME NEW s \in SUBSET S, s # {}, s \ {First(s)} \in G PROVE s \in G
  <2> DEFINE x == First(s)
             r == s \ {First(s)}
  <2>1. x \in S /\ g[x] = f[x] + d[x] /\ f[x] \in Int /\ d[x] \in Int
    BY <1>5, FirstOf
  <2>2. a[s] = f[x] + a[r]
    BY <1>1, <1>5 DEF IsFold, Summed
  <2>3. b[s] = g[x] + b[r]
    BY <1>2, <1>5 DEF IsFold, Summed
  <2>4. c[s] = d[x] + c[r]
    BY <1>3, <1>5 DEF IsFold, Summed
  <2>5. a[r] \in Int /\ c[r] \in Int /\ b[r] = a[r] + c[r]
    BY <1>5
  <2> HIDE DEF x, r
  <2> QED BY <2>1, <2>2, <2>3, <2>4, <2>5
<1>6. S \in G
  <2> HIDE DEF G
  <2> QED BY <1>4, <1>5, SumOf
<1> QED BY <1>1, <1>2, <1>3, <1>6

\* A sum with one term that is not zero is that term.
LEMMA SumOfOne ==
    ASSUME NEW S, IsFiniteSet(S), NEW d \in [S -> Int], NEW k \in S,
           \A x \in S : x # k => d[x] = 0
    PROVE  SumFunctionOnSet(d, S) = d[k]
<1>1. PICK h : IsFold(d, h, S) /\ SumFunctionOnSet(d, S) = h[S]
    BY SumUnfold
<1> DEFINE G == {s \in SUBSET S : h[s] = IF k \in s THEN d[k] ELSE 0}
<1>2. {} \in G
    BY <1>1 DEF IsFold, Summed
<1>3. ASSUME NEW s \in SUBSET S, s # {}, s \ {First(s)} \in G PROVE s \in G
  <2> DEFINE x == First(s)
             r == s \ {First(s)}
  <2>1. x \in s /\ x \in S /\ d[x] \in Int /\ d[k] \in Int
    BY <1>3, FirstOf
  <2>2. h[s] = d[x] + h[r]
    BY <1>1, <1>3 DEF IsFold, Summed
  <2>3. h[r] = IF k \in r THEN d[k] ELSE 0
    BY <1>3
  <2>4. CASE x = k
    BY <2>1, <2>2, <2>3, <2>4
  <2>5. CASE x # k
    <3>1. d[x] = 0 /\ (k \in r <=> k \in s)
        BY <2>1, <2>5
    <3> QED BY <2>1, <2>2, <2>3, <3>1
  <2> QED BY <2>4, <2>5
<1>4. S \in G
  <2> HIDE DEF G
  <2> QED BY <1>2, <1>3, SumOf
<1> QED BY <1>1, <1>4

\* A sum of terms that are not positive is not positive.
LEMMA SumOfLosses ==
    ASSUME NEW S, IsFiniteSet(S), NEW d \in [S -> Int], \A x \in S : d[x] <= 0
    PROVE  SumFunctionOnSet(d, S) <= 0
<1>1. PICK h : IsFold(d, h, S) /\ SumFunctionOnSet(d, S) = h[S]
    BY SumUnfold
<1> DEFINE G == {s \in SUBSET S : h[s] \in Int /\ h[s] <= 0}
<1>2. {} \in G
    BY <1>1 DEF IsFold, Summed
<1>3. ASSUME NEW s \in SUBSET S, s # {}, s \ {First(s)} \in G PROVE s \in G
  <2>1. h[s] = d[First(s)] + h[s \ {First(s)}]
    BY <1>1, <1>3 DEF IsFold, Summed
  <2>2. d[First(s)] \in Int /\ d[First(s)] <= 0
    BY <1>3, FirstOf
  <2>3. h[s \ {First(s)}] \in Int /\ h[s \ {First(s)}] <= 0
    BY <1>3
  <2> QED BY <2>1, <2>2, <2>3
<1>4. S \in G
  <2> HIDE DEF G
  <2> QED BY <1>2, <1>3, SumOf
<1> QED BY <1>1, <1>4
-----------------------------------------------------------------------------
(* The ledger's fields and its initial state.                                 *)

\* The parts that look at callers, requests and rows, and those about bytes.
ClaimsInv == RowsAreHeld /\ ClaimShape /\ Decided /\ Evidence /\ ObjectsKnown
MoneyInv == ChargedIsSum /\ WithinPlan

USE LedgerAssumption

\* Sizes are integers from zero on.
LEMMA SizeIsInt == Size \subseteq Int /\ \A n \in Size : n >= 0
BY DEF Size

\* The larger of two integers is one of them and bounds both.
LEMMA LargerOf ==
    \A a, b \in Int : /\ Larger(a, b) \in Int /\ Larger(a, b) >= a /\ Larger(a, b) >= b
                      /\ (a >= b => Larger(a, b) = a) /\ (b >= a => Larger(a, b) = b)
BY DEF Larger

\* The larger of two sizes is a size.
LEMMA LargerSize == \A a, b \in Size : Larger(a, b) \in Size /\ Larger(a, b) \in Int
BY DEF Larger, Size

\* The types of a row's fields and of its charge.
LEMMA RowFields ==
    ASSUME TypeOK, NEW k \in Key
    PROVE  /\ row[k].committed \in Size /\ row[k].reserved \in Size /\ row[k].op \in Op \cup {NoOp}
           /\ ChargeOf(row[k]) \in Size
BY LargerSize DEF TypeOK, Rows, ChargeOf

\* The types of an operation's fields.
LEMMA OpFields ==
    ASSUME TypeOK, NEW o \in Op
    PROVE  /\ op[o].keys \subseteq Key /\ op[o].size \in Size /\ op[o].adopted \in Size
           /\ op[o].took \subseteq Key /\ op[o].refused \subseteq Key
BY DEF TypeOK, Ops

\* An agent starts with nothing kept, claimed or charged.
LEMMA InitInv == Init => LedgerInv
<1> SUFFICES ASSUME Init PROVE LedgerInv
    OBVIOUS
<1>1. TypeOK
  <2>1. 0 \in Size /\ Gone \in Size \cup {Gone}
    BY DEF Size
  <2>2. NoRow \in Rows
    BY <2>1 DEF NoRow, Rows
  <2>3. Unused \in Ops
    BY <2>1 DEF Unused, Ops
  <2> QED BY <2>1, <2>2, <2>3 DEF Init, TypeOK
<1>2. ClaimsInv
    BY DEF Init, NoRow, Unused, Gone, Bytes, Larger, Pending,
           ClaimsInv, RowsAreHeld, ClaimShape, Decided, Evidence, ObjectsKnown
<1>3. MoneyInv
  <2> DEFINE d == [k \in Key |-> 0]
  <2>1. Charges = d
    BY DEF Init, Charges, ChargeOf, Larger, NoRow
  <2>2. SumFunction(d) = 0
    <3>1. SumFunctionOnSet(d, Key) = SumFunctionOnSet(d, Key) + SumFunctionOnSet(d, Key)
        BY SumOfSums
    <3>2. SumFunctionOnSet(d, Key) \in Int
        BY SumType
    <3>3. DOMAIN d = Key
        OBVIOUS
    <3>4. SumFunctionOnSet(d, Key) = 0
      <4> DEFINE n == SumFunctionOnSet(d, Key)
      <4>1. n \in Int /\ n = n + n
        BY <3>1, <3>2
      <4> HIDE DEF n
      <4>2. n = 0
        BY <4>1
      <4> QED BY <4>2 DEF n
    <3> QED BY <3>3, <3>4 DEF SumFunction
  <2>3. ChargedIsSum
    BY <2>1, <2>2 DEF ChargedIsSum, Init
  <2>4. WithinPlan
    BY DEF Init, WithinPlan, ChargeOf, Larger, NoRow
  <2> QED BY <2>3, <2>4 DEF MoneyInv
<1> QED BY <1>1, <1>2, <1>3 DEF LedgerInv, ClaimsInv, MoneyInv

\* What leaves the rows' charges and the total alone leaves the sum alone.
LEMMA MoneyKept ==
    ASSUME MoneyInv, UNCHANGED <<charged, plan>>,
           \A k \in Key : ChargeOf(row'[k]) = ChargeOf(row[k])
    PROVE  MoneyInv'
<1>1. Charges' = Charges
    BY DEF Charges
<1> QED BY <1>1 DEF MoneyInv, ChargedIsSum, WithinPlan

\* The total follows the charges of the rows.
LEMMA MoneyMoves ==
    ASSUME TypeOK, ChargedIsSum, NEW d \in [Key -> Int],
           \A k \in Key : ChargeOf(row'[k]) = ChargeOf(row[k]) + d[k],
           charged' = charged + SumFunction(d)
    PROVE  ChargedIsSum'
<1> DEFINE g == [k \in Key |-> ChargeOf(row'[k])]
<1>1. Charges \in [Key -> Int] /\ g \in [Key -> Int]
  <2>1. \A k \in Key : ChargeOf(row[k]) \in Int
    BY RowFields, SizeIsInt
  <2>2. \A k \in Key : ChargeOf(row'[k]) \in Int
    BY <2>1
  <2> QED BY <2>1, <2>2 DEF Charges
<1>2. \A k \in Key : g[k] = Charges[k] + d[k]
    BY DEF Charges
<1>3. DOMAIN d = Key /\ DOMAIN Charges = Key /\ DOMAIN g = Key
    BY <1>1
<1>4. Charges' = g
    BY DEF Charges
<1> HIDE DEF g
<1>5. SumFunctionOnSet(g, Key) = SumFunctionOnSet(Charges, Key) + SumFunctionOnSet(d, Key)
    BY <1>1, <1>2, SumOfSums
<1> QED BY <1>3, <1>4, <1>5 DEF ChargedIsSum, SumFunction

\* The parts of the invariant, for the steps that need some of them.
LEMMA Parts ==
    ASSUME LedgerInv
    PROVE  /\ TypeOK /\ RowsAreHeld /\ ClaimShape /\ Decided /\ Evidence /\ ObjectsKnown
           /\ ChargedIsSum /\ WithinPlan
BY DEF LedgerInv

\* An operation that is new has touched nothing.
LEMMA NewOp ==
    ASSUME LedgerInv, NEW o \in Op, op[o].pc = "new"
    PROVE  /\ \A k \in Key : row[k].op # o
           /\ wire[o] = {} /\ done[o] = {} /\ void[o] = {}
BY Parts DEF RowsAreHeld, Decided

\* A row without a pending operation is exact, and nothing is on its way to it.
LEMMA FreeRow ==
    ASSUME LedgerInv, NEW k \in Key, ~Pending(k)
    PROVE  /\ row[k].op = NoOp /\ row[k].reserved = 0 /\ Bytes(k) = row[k].committed
           /\ ChargeOf(row[k]) = row[k].committed
           /\ \A o \in Op : k \notin wire[o]
<1>1. row[k].op = NoOp /\ row[k].reserved = 0 /\ Bytes(k) = row[k].committed
    BY Parts DEF ObjectsKnown, Pending
<1>2. \A o \in Op : k \notin wire[o]
    BY <1>1, Parts DEF ObjectsKnown
<1>3. row[k].committed \in Int /\ row[k].committed >= 0
    BY Parts, RowFields, SizeIsInt
<1>4. ChargeOf(row[k]) = row[k].committed
    BY <1>1, <1>3, LargerOf DEF ChargeOf
<1> QED BY <1>1, <1>2, <1>4

-----------------------------------------------------------------------------
(* Claims.                                                                    *)

\* What a claim writes to its operation.
ClaimedAs(o, kind, keys, n) ==
    /\ op' \in [Op -> Ops]
    /\ op'[o].pc = "claimed" /\ op'[o].kind = kind /\ op'[o].keys = keys /\ op'[o].size = n
    /\ op'[o].took = {} /\ op'[o].refused = {} /\ op'[o].adopted = 0
    /\ \A i \in Op : i # o => op'[i] = op[i]

\* A claim writes its operation, and no other.
LEMMA Claimed ==
    ASSUME TypeOK, NEW o \in Op, NEW kind, kind \in {"write", "create", "delete"},
           NEW keys \in SUBSET Key, NEW n \in Size, Claim(o, kind, keys, n)
    PROVE  ClaimedAs(o, kind, keys, n)
<1>1. Unused \in Ops /\ Unused.took = {} /\ Unused.refused = {} /\ Unused.adopted = 0
    BY DEF Unused, Ops, Size
<1> DEFINE c == [Unused EXCEPT !.pc = "claimed", !.kind = kind, !.keys = keys, !.size = n]
<1>2. c \in Ops /\ c.pc = "claimed" /\ c.kind = kind /\ c.keys = keys /\ c.size = n
      /\ c.took = {} /\ c.refused = {} /\ c.adopted = 0
    BY <1>1 DEF Ops
<1>3. op' = [op EXCEPT ![o] = c]
    BY DEF Claim
<1> HIDE DEF c
<1> QED BY <1>2, <1>3 DEF TypeOK, ClaimedAs

\* A claim on free rows keeps what is known of callers, requests and objects.
LEMMA ClaimInv ==
    ASSUME LedgerInv, NEW o \in Op, NEW kind, kind \in {"write", "create", "delete"},
           NEW keys \in SUBSET Key, NEW n \in Size, op[o].pc = "new",
           \A k \in keys : ~Pending(k),
           ClaimedAs(o, kind, keys, n), UNCHANGED <<plan, wire, done, void, store>>,
           kind # "delete" => \E k \in Key : keys = {k},
           kind = "delete" => n = 0,
           \A k \in keys : /\ row'[k].committed = row[k].committed
                            /\ row'[k].reserved = n /\ row'[k].op = o,
           \A k \in Key : k \notin keys => row'[k] = row[k]
    PROVE  ClaimsInv'
<1>1. /\ op'[o].pc = "claimed" /\ op'[o].kind = kind /\ op'[o].keys = keys /\ op'[o].size = n
      /\ op'[o].took = {} /\ op'[o].refused = {} /\ op'[o].adopted = 0
      /\ \A i \in Op : i # o => op'[i] = op[i]
    BY DEF ClaimedAs
<1>2. \A k \in Key : row[k].op # o
    BY NewOp
<1>3. wire[o] = {} /\ done[o] = {} /\ void[o] = {}
    BY NewOp
<1>4. \A k \in keys : /\ row[k].op = NoOp /\ Bytes(k) = row[k].committed
                       /\ \A i \in Op : k \notin wire[i]
    BY FreeRow
<1>5. RowsAreHeld'
  <2> SUFFICES ASSUME NEW i \in Op
               PROVE  /\ op'[i].pc \in {"claimed", "sent", "head", "settle"} =>
                             \A k \in op'[i].keys : row'[k].op = i
                      /\ \A k \in Key : row'[k].op = i =>
                             /\ op'[i].pc # "new" /\ k \in op'[i].keys
                             /\ row'[k].reserved = op'[i].size
    BY DEF RowsAreHeld
  <2>1. CASE i = o
    BY <1>1, <1>2, <2>1
  <2>2. CASE i # o
    <3>1. op'[i] = op[i] /\ op[i].keys \subseteq Key
        BY <1>1, <2>2, Parts, OpFields
    <3> QED BY <1>4, <2>2, <3>1, Parts DEF RowsAreHeld
  <2> QED BY <2>1, <2>2
<1>6. ClaimShape'
    BY <1>1, Parts DEF ClaimShape
<1>7. Decided'
    BY <1>1, <1>3, Parts DEF Decided
<1>8. Evidence'
  <2> SUFFICES ASSUME NEW i \in Op
               PROVE  /\ op'[i].took \subseteq done[i] /\ op'[i].refused \subseteq op'[i].keys
                      /\ op'[i].refused \cap (wire[i] \cup done[i]) = {}
                      /\ op'[i].took \cup op'[i].refused # {} => op'[i].pc \in {"head", "settle", "end"}
                      /\ op'[i].pc = "head" => op'[i].kind = "create" /\ op'[i].refused # {}
                      /\ op'[i].pc \in {"new", "claimed", "sent", "head"} => op'[i].adopted = 0
                      /\ op'[i].pc = "settle" =>
                            \A k \in op'[i].refused : op'[i].adopted <= row'[k].committed
    BY DEF Evidence
  <2>1. CASE i = o
    BY <1>1, <1>3, <2>1
  <2>2. CASE i # o
    <3>1. op'[i] = op[i] /\ op[i].refused \subseteq Key
        BY <1>1, <2>2, Parts, OpFields
    <3>2. \A k \in Key : row'[k].committed = row[k].committed
        OBVIOUS
    <3> QED BY <3>1, <3>2, Parts DEF Evidence
  <2> QED BY <2>1, <2>2
<1>9. ObjectsKnown'
  <2>1. \A k \in Key : Bytes(k)' = Bytes(k)
    BY DEF Bytes
  <2> SUFFICES ASSUME NEW k \in Key
               PROVE  /\ row'[k].op = NoOp => row'[k].reserved = 0
                      /\ \A i \in Op : k \in wire[i] => row'[k].op = i
                      /\ IF row'[k].op # NoOp /\ k \in done[row'[k].op]
                         THEN Bytes(k) = op'[row'[k].op].size
                         ELSE Bytes(k) = row'[k].committed
    BY <2>1 DEF ObjectsKnown, Pending
  <2>2. CASE k \in keys
    BY <1>3, <1>4, <2>2
  <2>3. CASE k \notin keys
    <3>1. row'[k] = row[k] /\ row[k].op \in Op \cup {NoOp} /\ row[k].op # o
        BY <1>2, <2>3, Parts, RowFields
    <3> QED BY <1>1, <3>1, Parts DEF ObjectsKnown, Pending
  <2> QED BY <2>2, <2>3
<1> QED BY <1>5, <1>6, <1>7, <1>8, <1>9 DEF ClaimsInv

\* reserve_write: the row is charged for the larger of what is and what may be.
LEMMA ReserveInv ==
    ASSUME LedgerInv, NEW o \in Op, NEW kind \in {"write", "create"}, NEW k \in Key, NEW n \in Size,
           Reserve(o, kind, k, n)
    PROVE  LedgerInv'
<1> DEFINE growth == Larger(row[k].committed, n) - row[k].committed
           d == [i \in Key |-> IF i = k THEN growth ELSE 0]
<1>1. /\ op[o].pc = "new" /\ ~Pending(k) /\ Fits(growth, n)
      /\ row' = [row EXCEPT ![k].reserved = n, ![k].op = o]
      /\ charged' = charged + growth
      /\ Claim(o, kind, {k}, n)
      /\ UNCHANGED <<plan, wire, done, void, store>>
    BY DEF Reserve, provider
<1>2. row \in [Key -> Rows]
    BY Parts DEF TypeOK
<1>3. /\ row' \in [Key -> Rows]
      /\ row'[k].committed = row[k].committed /\ row'[k].reserved = n /\ row'[k].op = o
      /\ \A i \in Key : i # k => row'[i] = row[i]
    BY <1>1, <1>2 DEF Rows
<1>4. /\ row[k].committed \in Int /\ n \in Int /\ Larger(row[k].committed, n) \in Int
      /\ Larger(row[k].committed, n) >= row[k].committed
  <2>1. row[k].committed \in Int /\ n \in Int
    BY Parts, RowFields, SizeIsInt
  <2> QED BY <2>1, LargerOf
<1>5. growth \in Int /\ growth >= 0 /\ row[k].committed + growth = Larger(row[k].committed, n)
    BY <1>4
<1>6. ChargeOf(row[k]) = row[k].committed /\ ChargeOf(row'[k]) = Larger(row[k].committed, n)
    BY <1>1, <1>3, FreeRow DEF ChargeOf
<1> HIDE DEF growth
<1>7. ClaimedAs(o, kind, {k}, n)
  <2>1. kind \in {"write", "create", "delete"} /\ {k} \in SUBSET Key /\ TypeOK
    BY Parts
  <2> QED BY <1>1, <2>1, Claimed
<1>8. TypeOK'
  <2>1. charged' \in Int
    BY <1>1, <1>5, Parts DEF TypeOK
  <2>2. op' \in [Op -> Ops]
    BY <1>7 DEF ClaimedAs
  <2> QED BY <1>1, <1>3, <2>1, <2>2, Parts DEF TypeOK
<1>9. ClaimsInv'
  <2>1. kind \in {"write", "create", "delete"} /\ kind # "delete" /\ {k} \in SUBSET Key
    OBVIOUS
  <2>2. \A i \in Key : i \notin {k} => row'[i] = row[i]
    BY <1>3
  <2> QED BY <1>1, <1>3, <1>7, <2>1, <2>2, ClaimInv
<1>10. ChargedIsSum'
  <2>1. d \in [Key -> Int] /\ d[k] = growth
    BY <1>5
  <2>2. \A i \in Key : ChargeOf(row'[i]) = ChargeOf(row[i]) + d[i]
    <3> SUFFICES ASSUME NEW i \in Key PROVE ChargeOf(row'[i]) = ChargeOf(row[i]) + d[i]
        OBVIOUS
    <3>1. ChargeOf(row[i]) \in Int
        BY Parts, RowFields, SizeIsInt
    <3>2. CASE i = k
        BY <1>5, <1>6, <3>2
    <3>3. CASE i # k
        BY <1>3, <3>1, <3>3
    <3> QED BY <3>2, <3>3
  <2>3. SumFunctionOnSet(d, Key) = growth
    <3>1. \A i \in Key : i # k => d[i] = 0
        OBVIOUS
    <3> HIDE DEF d
    <3> QED BY <2>1, <3>1, SumOfOne
  <2>4. SumFunction(d) = growth
    BY <2>3 DEF SumFunction
  <2> HIDE DEF d
  <2> QED BY <1>1, <2>1, <2>2, <2>4, Parts, MoneyMoves
<1>11. WithinPlan'
  <2> SUFFICES ASSUME plan' # NoPlan PROVE WithinPlan'
    BY DEF WithinPlan
  <2>1. /\ plan' = plan /\ plan # NoPlan /\ StorageLimit[plan] \in Nat /\ FileLimit[plan] \in Nat
        /\ charged \in Int
    BY <1>1, Parts DEF TypeOK
  <2>2. charged <= StorageLimit[plan] /\ \A i \in Key : ChargeOf(row[i]) <= FileLimit[plan]
    BY <2>1, Parts DEF WithinPlan
  <2>3. n <= FileLimit[plan] /\ (growth > 0 => charged + growth <= StorageLimit[plan])
    BY <1>1, <2>1 DEF Fits
  <2>4. charged' <= StorageLimit[plan]
    BY <1>1, <1>5, <2>1, <2>2, <2>3
  <2>5. ChargeOf(row'[k]) <= FileLimit[plan]
    BY <1>4, <1>6, <2>1, <2>2, <2>3 DEF Larger
  <2> QED BY <1>3, <2>1, <2>2, <2>4, <2>5 DEF WithinPlan
<1> QED BY <1>8, <1>9, <1>10, <1>11 DEF ClaimsInv, LedgerInv

\* begin_delete and its batch: the rows stay charged for what they hold.
LEMMA BeginDeleteInv ==
    ASSUME LedgerInv, NEW o \in Op, NEW keys \in SUBSET Key, BeginDelete(o, keys)
    PROVE  LedgerInv'
<1> DEFINE free == {k \in keys : ~Pending(k)}
<1>1. /\ op[o].pc = "new" /\ free \in SUBSET Key
      /\ row' = [k \in Key |-> IF k \in free
                  THEN [row[k] EXCEPT !.reserved = 0, !.op = o] ELSE row[k]]
      /\ Claim(o, "delete", free, 0)
      /\ UNCHANGED <<charged, plan, wire, done, void, store>>
      /\ \A k \in free : ~Pending(k)
    BY DEF BeginDelete, provider
<1> HIDE DEF free
<1>2. row \in [Key -> Rows] /\ 0 \in Size
    BY Parts DEF TypeOK, Size
<1>3. \A k \in free : /\ row'[k] \in Rows
                       /\ row'[k].committed = row[k].committed /\ row'[k].reserved = 0 /\ row'[k].op = o
  <2> SUFFICES ASSUME NEW k \in free
               PROVE  /\ row'[k] \in Rows
                      /\ row'[k].committed = row[k].committed /\ row'[k].reserved = 0 /\ row'[k].op = o
    OBVIOUS
  <2>1. row'[k] = [row[k] EXCEPT !.reserved = 0, !.op = o] /\ row[k] \in Rows
    BY <1>1, <1>2
  <2> QED BY <1>2, <2>1 DEF Rows
<1>4. \A k \in Key : k \notin free => row'[k] = row[k]
    BY <1>1
<1>5. ClaimedAs(o, "delete", free, 0)
  <2>1. TypeOK
    BY Parts
  <2> QED BY <1>1, <1>2, <2>1, Claimed
<1>6. TypeOK'
  <2>1. op' \in [Op -> Ops]
    BY <1>5 DEF ClaimedAs
  <2>2. row' \in [Key -> Rows]
    BY <1>1, <1>2, <1>3, <1>4
  <2> QED BY <1>1, <2>1, <2>2, Parts DEF TypeOK
<1>7. ClaimsInv'
  <2>1. /\ op[o].pc = "new" /\ free \in SUBSET Key /\ \A k \in free : ~Pending(k)
        /\ UNCHANGED <<plan, wire, done, void, store>>
    BY <1>1
  <2>2. \A k \in free : /\ row'[k].committed = row[k].committed
                        /\ row'[k].reserved = 0 /\ row'[k].op = o
    BY <1>3
  <2>3. \A k \in Key : k \notin free => row'[k] = row[k]
    BY <1>4
  <2>4. 0 \in Size /\ "delete" # "write" /\ "delete" # "create"
    BY <1>2
  <2> QED BY <1>5, <2>1, <2>2, <2>3, <2>4, ClaimInv
<1>8. MoneyInv'
  <2>1. \A k \in Key : ChargeOf(row'[k]) = ChargeOf(row[k])
    <3> SUFFICES ASSUME NEW k \in free PROVE ChargeOf(row'[k]) = ChargeOf(row[k])
        BY <1>4
    <3>1. row[k].reserved = 0
        BY <1>1, FreeRow
    <3> QED BY <1>3, <3>1 DEF ChargeOf
  <2> QED BY <1>1, <2>1, Parts, MoneyKept DEF MoneyInv
<1> QED BY <1>6, <1>7, <1>8 DEF ClaimsInv, MoneyInv, LedgerInv

-----------------------------------------------------------------------------
(* Callers, and what the provider makes of their requests.                    *)

\* An operation's caller goes on to pc with what it knows.
Moves(o, pc, took, refused, adopted) ==
    /\ op' \in [Op -> Ops]
    /\ op'[o].pc = pc /\ op'[o].took = took /\ op'[o].refused = refused /\ op'[o].adopted = adopted
    /\ op'[o].kind = op[o].kind /\ op'[o].keys = op[o].keys /\ op'[o].size = op[o].size
    /\ \A i \in Op : i # o => op'[i] = op[i]

\* A caller that goes on and learns only what is so keeps the invariant.
LEMMA CallerMoves ==
    ASSUME LedgerInv, NEW o \in Op, NEW pc, NEW took, NEW refused, NEW adopted,
           op[o].pc \in {"claimed", "sent", "head", "settle"},
           pc \in {"sent", "head", "settle", "end"},
           Moves(o, pc, took, refused, adopted),
           UNCHANGED <<row, charged, plan, done, void, store>>,
           wire' \in [Op -> SUBSET Key],
           \A i \in Op : i # o => wire'[i] = wire[i],
           \/ wire'[o] = wire[o]
           \/ op[o].pc = "claimed" /\ wire'[o] = op[o].keys,
           took \subseteq done[o], refused \subseteq op[o].keys,
           refused \cap (wire'[o] \cup done[o]) = {},
           took \cup refused # {} => pc \in {"head", "settle", "end"},
           pc = "head" => op[o].kind = "create" /\ refused # {},
           pc \in {"sent", "head"} => adopted = 0,
           pc = "settle" => \A k \in refused : adopted <= row[k].committed
    PROVE  LedgerInv'
<1>1. /\ op' \in [Op -> Ops]
      /\ op'[o].pc = pc /\ op'[o].took = took /\ op'[o].refused = refused /\ op'[o].adopted = adopted
      /\ op'[o].kind = op[o].kind /\ op'[o].keys = op[o].keys /\ op'[o].size = op[o].size
      /\ \A i \in Op : i # o => op'[i] = op[i]
    BY DEF Moves
<1>2. TypeOK'
    BY <1>1, Parts DEF TypeOK
<1>3. RowsAreHeld'
  <2> SUFFICES ASSUME NEW i \in Op
               PROVE  /\ op'[i].pc \in {"claimed", "sent", "head", "settle"} =>
                             \A k \in op'[i].keys : row[k].op = i
                      /\ \A k \in Key : row[k].op = i =>
                             /\ op'[i].pc # "new" /\ k \in op'[i].keys
                             /\ row[k].reserved = op'[i].size
    BY DEF RowsAreHeld
  <2>1. /\ op[i].pc \in {"claimed", "sent", "head", "settle"} =>
              \A k \in op[i].keys : row[k].op = i
        /\ \A k \in Key : row[k].op = i =>
              /\ op[i].pc # "new" /\ k \in op[i].keys
              /\ row[k].reserved = op[i].size
    BY Parts DEF RowsAreHeld
  <2>2. CASE i = o
    BY <1>1, <2>1, <2>2
  <2>3. CASE i # o
    BY <1>1, <2>1, <2>3
  <2> QED BY <2>2, <2>3
<1>4. ClaimShape'
    BY <1>1, Parts DEF ClaimShape
<1>5. Decided'
  <2> SUFFICES ASSUME NEW i \in Op
               PROVE  /\ op'[i].pc \in {"new", "claimed"} => wire'[i] = {} /\ done[i] = {} /\ void[i] = {}
                      /\ wire'[i] \cup done[i] \cup void[i] \subseteq op'[i].keys
                      /\ wire'[i] \cap done[i] = {} /\ wire'[i] \cap void[i] = {} /\ done[i] \cap void[i] = {}
    BY DEF Decided
  <2>1. CASE i = o
    <3>1. op'[i].pc \notin {"new", "claimed"} /\ op'[i].keys = op[i].keys
        BY <1>1, <2>1
    <3>2. CASE wire'[o] = wire[o]
        BY <2>1, <3>1, <3>2, Parts DEF Decided
    <3>3. CASE op[o].pc = "claimed" /\ wire'[o] = op[o].keys
        BY <2>1, <3>1, <3>3, Parts DEF Decided
    <3> QED BY <3>2, <3>3
  <2>2. CASE i # o
    BY <1>1, <2>2, Parts DEF Decided
  <2> QED BY <2>1, <2>2
<1>6. Evidence'
  <2> SUFFICES ASSUME NEW i \in Op
               PROVE  /\ op'[i].took \subseteq done[i] /\ op'[i].refused \subseteq op'[i].keys
                      /\ op'[i].refused \cap (wire'[i] \cup done[i]) = {}
                      /\ op'[i].took \cup op'[i].refused # {} => op'[i].pc \in {"head", "settle", "end"}
                      /\ op'[i].pc = "head" => op'[i].kind = "create" /\ op'[i].refused # {}
                      /\ op'[i].pc \in {"new", "claimed", "sent", "head"} => op'[i].adopted = 0
                      /\ op'[i].pc = "settle" =>
                            \A k \in op'[i].refused : op'[i].adopted <= row[k].committed
    BY DEF Evidence
  <2>1. CASE i = o
    BY <1>1, <2>1
  <2>2. CASE i # o
    BY <1>1, <2>2, Parts DEF Evidence
  <2> QED BY <2>1, <2>2
<1>7. ObjectsKnown'
  <2>1. \A k \in Key : Bytes(k)' = Bytes(k)
    BY DEF Bytes
  <2>2. \A i \in Op : op'[i].size = op[i].size
    BY <1>1
  <2> SUFFICES ASSUME NEW k \in Key
               PROVE  /\ row[k].op = NoOp => row[k].reserved = 0
                      /\ \A i \in Op : k \in wire'[i] => row[k].op = i
                      /\ IF row[k].op # NoOp /\ k \in done[row[k].op]
                         THEN Bytes(k) = op'[row[k].op].size
                         ELSE Bytes(k) = row[k].committed
    BY <2>1 DEF ObjectsKnown, Pending
  <2>3. row[k].op \in Op \cup {NoOp}
    BY Parts, RowFields
  <2>4. \A i \in Op : k \in wire'[i] => row[k].op = i
    <3> SUFFICES ASSUME NEW i \in Op, k \in wire'[i] PROVE row[k].op = i
        OBVIOUS
    <3>1. CASE wire'[i] = wire[i]
        BY <3>1, Parts DEF ObjectsKnown
    <3>2. CASE i = o /\ op[o].pc = "claimed" /\ wire'[o] = op[o].keys
        BY <3>2, Parts DEF RowsAreHeld
    <3> QED BY <3>1, <3>2
  <2> QED BY <2>2, <2>3, <2>4, Parts DEF ObjectsKnown, Pending
<1>8. MoneyInv'
  <2>1. \A k \in Key : ChargeOf(row'[k]) = ChargeOf(row[k])
    OBVIOUS
  <2> QED BY <2>1, Parts, MoneyKept DEF MoneyInv
<1> QED BY <1>2, <1>3, <1>4, <1>5, <1>6, <1>7, <1>8 DEF LedgerInv, MoneyInv

\* A request goes out for the keys of its claim.
LEMMA SendInv == ASSUME LedgerInv, NEW o \in Op, Send(o) PROVE LedgerInv'
<1>1. /\ op[o].pc = "claimed" /\ op' = [op EXCEPT ![o].pc = "sent"]
      /\ wire' = [wire EXCEPT ![o] = op[o].keys]
      /\ UNCHANGED <<row, charged, plan, done, void, store>>
    BY DEF Send
<1>2. op \in [Op -> Ops] /\ wire \in [Op -> SUBSET Key] /\ op[o].keys \subseteq Key
    BY Parts, OpFields DEF TypeOK
<1>3. Moves(o, "sent", op[o].took, op[o].refused, op[o].adopted)
    BY <1>1, <1>2 DEF Moves, Ops
<1>4. /\ wire' \in [Op -> SUBSET Key] /\ wire'[o] = op[o].keys
      /\ \A i \in Op : i # o => wire'[i] = wire[i]
    BY <1>1, <1>2
<1>5. op[o].took = {} /\ op[o].refused = {} /\ op[o].adopted = 0
    BY <1>1, Parts DEF Evidence
<1> QED BY <1>1, <1>3, <1>4, <1>5, CallerMoves

\* A conflict or a failed read before the request: nothing was sent.
LEMMA PrecheckInv ==
    ASSUME LedgerInv, NEW o \in Op, NEW refused \in SUBSET Key, Precheck(o, refused)
    PROVE  LedgerInv'
<1>1. /\ op[o].pc = "claimed" /\ refused \subseteq op[o].keys
      /\ op' = [op EXCEPT ![o].pc = "settle", ![o].refused = refused]
      /\ UNCHANGED <<row, charged, plan, wire, done, void, store>>
    BY DEF Precheck, provider
<1>2. op \in [Op -> Ops] /\ wire \in [Op -> SUBSET Key]
    BY Parts DEF TypeOK
<1>3. Moves(o, "settle", op[o].took, refused, op[o].adopted)
  <2> DEFINE r == [op[o] EXCEPT !.pc = "settle", !.refused = refused]
  <2>1. op' = [op EXCEPT ![o] = r]
    BY <1>1
  <2>2. /\ r \in Ops /\ r.pc = "settle" /\ r.refused = refused /\ r.took = op[o].took
        /\ r.adopted = op[o].adopted /\ r.kind = op[o].kind /\ r.keys = op[o].keys /\ r.size = op[o].size
    BY <1>2 DEF Ops
  <2> HIDE DEF r
  <2> QED BY <1>2, <2>1, <2>2 DEF Moves
<1>4. op[o].took = {} /\ op[o].adopted = 0 /\ wire[o] = {} /\ done[o] = {}
    BY <1>1, Parts DEF Evidence, Decided
<1>5. \A k \in refused : op[o].adopted <= row[k].committed
  <2> SUFFICES ASSUME NEW k \in refused PROVE 0 <= row[k].committed
    BY <1>4
  <2> QED BY Parts, RowFields, SizeIsInt
<1> QED BY <1>1, <1>2, <1>3, <1>4, <1>5, CallerMoves

\* The caller learns some of what the provider decided.
LEMMA RespondInv ==
    ASSUME LedgerInv, NEW o \in Op, NEW took \in SUBSET Key, NEW refused \in SUBSET Key,
           Respond(o, took, refused)
    PROVE  LedgerInv'
<1>1. PICK pc \in {"settle", "head"} :
          /\ pc = "head" => op[o].kind = "create" /\ refused # {}
          /\ op' = [op EXCEPT ![o].pc = pc, ![o].took = took, ![o].refused = refused]
    BY DEF Respond
<1>2. /\ op[o].pc = "sent" /\ took \subseteq done[o] /\ refused \subseteq void[o]
      /\ UNCHANGED <<row, charged, plan, wire, done, void, store>>
    BY DEF Respond, provider, KnownRefused
<1>3. op \in [Op -> Ops] /\ wire \in [Op -> SUBSET Key]
    BY Parts DEF TypeOK
<1>4. Moves(o, pc, took, refused, op[o].adopted)
  <2> DEFINE r == [op[o] EXCEPT !.pc = pc, !.took = took, !.refused = refused]
  <2>1. op' = [op EXCEPT ![o] = r]
    <3>1. /\ DOMAIN op = Op
          /\ op' = [op EXCEPT ![o].pc = pc, ![o].took = took, ![o].refused = refused]
        BY <1>1, <1>3
    <3>2. ASSUME NEW i \in Op PROVE op'[i] = IF i = o THEN r ELSE op[i]
        BY <3>1
    <3> QED BY <3>1, <3>2
  <2>2. /\ r \in Ops /\ r.pc = pc /\ r.took = took /\ r.refused = refused
        /\ r.adopted = op[o].adopted /\ r.kind = op[o].kind /\ r.keys = op[o].keys /\ r.size = op[o].size
    <3>1. op[o] \in Ops /\ pc \in {"settle", "head"}
        BY <1>3
    <3> QED BY <3>1 DEF Ops
  <2> HIDE DEF r
  <2> QED BY <1>3, <2>1, <2>2 DEF Moves
<1>5. /\ op[o].adopted = 0 /\ void[o] \subseteq op[o].keys
      /\ void[o] \cap (wire[o] \cup done[o]) = {}
    BY <1>2, Parts DEF Evidence, Decided
<1>6. \A k \in refused : op[o].adopted <= row[k].committed
  <2> SUFFICES ASSUME NEW k \in refused PROVE 0 <= row[k].committed
    BY <1>5
  <2> QED BY Parts, RowFields, SizeIsInt
<1>7. refused \subseteq op[o].keys /\ refused \cap (wire[o] \cup done[o]) = {}
    BY <1>2, <1>5
<1> QED BY <1>1, <1>2, <1>3, <1>4, <1>5, <1>6, <1>7, CallerMoves

\* The winner's object is the one the row already accounts for.
LEMMA HeadWinnerInv ==
    ASSUME LedgerInv, NEW o \in Op, NEW seen \in BOOLEAN, HeadWinner(o, seen)
    PROVE  LedgerInv'
<1> DEFINE refused == IF seen THEN op[o].refused ELSE {}
           adopted == IF seen THEN Bytes(CHOOSE k \in op[o].keys : TRUE) ELSE 0
<1>1. /\ op[o].pc = "head"
      /\ op' = [op EXCEPT ![o].pc = "settle", ![o].refused = refused, ![o].adopted = adopted]
      /\ UNCHANGED <<row, charged, plan, wire, done, void, store>>
    BY DEF HeadWinner, provider
<1>2. op \in [Op -> Ops] /\ wire \in [Op -> SUBSET Key]
    BY Parts DEF TypeOK
<1>3. PICK k \in Key : op[o].keys = {k} /\ op[o].refused = {k}
    BY <1>1, Parts DEF ClaimShape, Evidence
<1>4. row[k].op = o /\ o # NoOp /\ k \notin done[o]
    BY <1>1, <1>3, Parts DEF RowsAreHeld, Evidence
<1>5. Bytes(k) = row[k].committed
    BY <1>4, Parts DEF ObjectsKnown, Pending
<1>6. row[k].committed \in Size /\ 0 \in Size /\ 0 <= row[k].committed /\ row[k].committed \in Int
    BY Parts, RowFields, SizeIsInt DEF Size
<1>7. (CHOOSE i \in op[o].keys : TRUE) = k
    BY <1>3
<1>8. adopted \in Size /\ adopted <= row[k].committed
  <2>1. adopted = Bytes(k) \/ adopted = 0
    BY <1>7
  <2> HIDE DEF adopted
  <2> QED BY <1>5, <1>6, <2>1
<1>9. refused \subseteq {k} /\ refused \subseteq op[o].refused
    BY <1>3
<1> HIDE DEF adopted, refused
<1>10. refused \subseteq Key
    BY <1>9
<1>11. Moves(o, "settle", op[o].took, refused, adopted)
  <2> DEFINE r == [op[o] EXCEPT !.pc = "settle", !.refused = refused, !.adopted = adopted]
  <2>1. op' = [op EXCEPT ![o] = r]
    BY <1>1
  <2>2. /\ r \in Ops /\ r.pc = "settle" /\ r.refused = refused /\ r.adopted = adopted
        /\ r.took = op[o].took /\ r.kind = op[o].kind /\ r.keys = op[o].keys /\ r.size = op[o].size
    BY <1>2, <1>8, <1>10 DEF Ops
  <2> HIDE DEF r
  <2> QED BY <1>2, <2>1, <2>2 DEF Moves
<1>12. op[o].took \subseteq done[o] /\ refused \subseteq op[o].keys
       /\ refused \cap (wire[o] \cup done[o]) = {}
    BY <1>3, <1>9, Parts DEF Evidence
<1>13. \A i \in refused : adopted <= row[i].committed
    BY <1>8, <1>9
<1> QED BY <1>1, <1>2, <1>11, <1>12, <1>13, CallerMoves

\* A caller dies or gives up: what is not settled stays pending.
LEMMA AbandonInv == ASSUME LedgerInv, NEW o \in Op, Abandon(o) PROVE LedgerInv'
<1>1. /\ op[o].pc \in {"claimed", "sent", "head", "settle"}
      /\ op' = [op EXCEPT ![o].pc = "end"]
      /\ UNCHANGED <<row, charged, plan, wire, done, void, store>>
    BY DEF Abandon, provider
<1>2. op \in [Op -> Ops] /\ wire \in [Op -> SUBSET Key]
    BY Parts DEF TypeOK
<1>3. Moves(o, "end", op[o].took, op[o].refused, op[o].adopted)
    BY <1>1, <1>2 DEF Moves, Ops
<1>4. op[o].took \subseteq done[o] /\ op[o].refused \subseteq op[o].keys
      /\ op[o].refused \cap (wire[o] \cup done[o]) = {}
    BY Parts DEF Evidence
<1> QED BY <1>1, <1>2, <1>3, <1>4, CallerMoves

\* The provider decides a request for one of its keys: it lands or it never
\* will.
LEMMA ApplyInv ==
    ASSUME LedgerInv, NEW o \in Op, NEW k \in Key, Apply(o, k)
    PROVE  LedgerInv'
<1> DEFINE late == op[o].kind = "create" /\ store[k] # Gone
<1>1. /\ k \in wire[o] /\ wire' = [wire EXCEPT ![o] = @ \ {k}]
      /\ store' = [store EXCEPT ![k] = Result(o, k)]
      /\ late => void' = [void EXCEPT ![o] = @ \cup {k}] /\ done' = done
      /\ ~late => done' = [done EXCEPT ![o] = @ \cup {k}] /\ void' = void
      /\ UNCHANGED <<row, charged, plan, op>>
    BY DEF Apply
<1>2. /\ wire \in [Op -> SUBSET Key] /\ done \in [Op -> SUBSET Key] /\ void \in [Op -> SUBSET Key]
      /\ store \in [Key -> Size \cup {Gone}]
    BY Parts DEF TypeOK
<1>3. row[k].op = o /\ o # NoOp /\ k \in op[o].keys /\ k \notin done[o] /\ op[o].size \in Size
      /\ op[o].pc \notin {"new", "claimed"} /\ k \notin op[o].refused
    BY <1>1, Parts, OpFields DEF ObjectsKnown, Decided, Evidence
<1>4. Bytes(k) = row[k].committed
    BY <1>3, Parts DEF ObjectsKnown, Pending
<1>5. late => Result(o, k) = store[k]
    BY DEF Result
<1>6. ~late => /\ Result(o, k) \in Size \cup {Gone}
               /\ Larger(Result(o, k), 0) = op[o].size
  <2>1. CASE op[o].kind = "delete"
    <3>1. Result(o, k) = Gone /\ op[o].size = 0
        BY <2>1, Parts DEF Result, ClaimShape
    <3> QED BY <3>1 DEF Larger, Gone
  <2>2. CASE op[o].kind # "delete"
    <3> SUFFICES ASSUME ~late
                 PROVE  Result(o, k) \in Size \cup {Gone} /\ Larger(Result(o, k), 0) = op[o].size
        OBVIOUS
    <3>1. Result(o, k) = op[o].size
        BY <2>2 DEF Result
    <3>2. op[o].size \in Int /\ op[o].size >= 0
        BY <1>3, SizeIsInt
    <3> QED BY <1>3, <3>1, <3>2 DEF Larger
  <2> QED BY <2>1, <2>2
<1> HIDE DEF late
<1>7. Result(o, k) \in Size \cup {Gone}
    BY <1>2, <1>5, <1>6
<1>8. /\ store' \in [Key -> Size \cup {Gone}] /\ store'[k] = Result(o, k)
      /\ \A i \in Key : i # k => store'[i] = store[i]
    BY <1>1, <1>2, <1>7
<1>9. /\ wire' \in [Op -> SUBSET Key] /\ done' \in [Op -> SUBSET Key] /\ void' \in [Op -> SUBSET Key]
      /\ wire'[o] = wire[o] \ {k}
      /\ late => done'[o] = done[o] /\ void'[o] = void[o] \cup {k}
      /\ ~late => done'[o] = done[o] \cup {k} /\ void'[o] = void[o]
      /\ \A i \in Op : i # o => wire'[i] = wire[i] /\ done'[i] = done[i] /\ void'[i] = void[i]
    BY <1>1, <1>2
<1>10. TypeOK'
    BY <1>1, <1>8, <1>9, Parts DEF TypeOK
<1>11. RowsAreHeld' /\ ClaimShape'
    BY <1>1, Parts DEF RowsAreHeld, ClaimShape
<1>12. Decided'
  <2> SUFFICES ASSUME NEW i \in Op
               PROVE  /\ op[i].pc \in {"new", "claimed"} => wire'[i] = {} /\ done'[i] = {} /\ void'[i] = {}
                      /\ wire'[i] \cup done'[i] \cup void'[i] \subseteq op[i].keys
                      /\ wire'[i] \cap done'[i] = {} /\ wire'[i] \cap void'[i] = {} /\ done'[i] \cap void'[i] = {}
    BY <1>1 DEF Decided
  <2>1. CASE i = o
    <3>1. /\ wire[o] \cup done[o] \cup void[o] \subseteq op[o].keys
          /\ wire[o] \cap done[o] = {} /\ wire[o] \cap void[o] = {} /\ done[o] \cap void[o] = {}
        BY Parts DEF Decided
    <3>2. CASE late
        BY <1>1, <1>3, <1>9, <2>1, <3>1, <3>2
    <3>3. CASE ~late
        BY <1>1, <1>3, <1>9, <2>1, <3>1, <3>3
    <3> QED BY <3>2, <3>3
  <2>2. CASE i # o
    BY <1>9, <2>2, Parts DEF Decided
  <2> QED BY <2>1, <2>2
<1>13. Evidence'
  <2>1. \A i \in Op : done[i] \subseteq done'[i]
    BY <1>9
  <2>2. \A i \in Op : op[i].refused \cap (wire'[i] \cup done'[i]) = {}
    <3> SUFFICES ASSUME NEW i \in Op PROVE op[i].refused \cap (wire'[i] \cup done'[i]) = {}
        OBVIOUS
    <3>1. op[i].refused \cap (wire[i] \cup done[i]) = {}
        BY Parts DEF Evidence
    <3>2. wire'[i] \subseteq wire[i] /\ done'[i] \subseteq done[i] \cup {k}
        BY <1>9
    <3>3. i # o => done'[i] = done[i]
        BY <1>9
    <3> QED BY <1>3, <3>1, <3>2, <3>3
  <2> QED BY <1>1, <2>1, <2>2, Parts DEF Evidence
<1>14. ObjectsKnown'
  <2> SUFFICES ASSUME NEW i \in Key
               PROVE  /\ row[i].op = NoOp => row[i].reserved = 0
                      /\ \A j \in Op : i \in wire'[j] => row[i].op = j
                      /\ IF row[i].op # NoOp /\ i \in done'[row[i].op]
                         THEN Bytes(i)' = op[row[i].op].size
                         ELSE Bytes(i)' = row[i].committed
    BY <1>1 DEF ObjectsKnown, Pending
  <2>1. row[i].op = NoOp => row[i].reserved = 0
    BY Parts DEF ObjectsKnown, Pending
  <2>2. \A j \in Op : i \in wire'[j] => row[i].op = j
    BY <1>9, Parts DEF ObjectsKnown
  <2>3. CASE i = k
    <3>1. CASE late
      <4>1. Bytes(k)' = Bytes(k) /\ done'[o] = done[o]
        BY <1>5, <1>8, <1>9, <3>1 DEF Bytes
      <4> QED BY <1>3, <1>4, <2>1, <2>2, <2>3, <4>1
    <3>2. CASE ~late
      <4>1. Bytes(k)' = op[o].size /\ k \in done'[o]
        BY <1>6, <1>8, <1>9, <3>2 DEF Bytes
      <4> QED BY <1>3, <2>1, <2>2, <2>3, <4>1
    <3> QED BY <3>1, <3>2
  <2>4. CASE i # k
    <3>1. Bytes(i)' = Bytes(i)
        BY <1>8, <2>4 DEF Bytes
    <3>2. row[i].op \in Op \cup {NoOp}
        BY Parts, RowFields
    <3>3. \A j \in Op : i \in done'[j] <=> i \in done[j]
        BY <1>9, <2>4
    <3>4. IF row[i].op # NoOp /\ i \in done[row[i].op]
          THEN Bytes(i) = op[row[i].op].size ELSE Bytes(i) = row[i].committed
        BY Parts DEF ObjectsKnown, Pending
    <3> QED BY <2>1, <2>2, <3>1, <3>2, <3>3, <3>4
  <2> QED BY <2>3, <2>4
<1>15. MoneyInv'
  <2>1. \A i \in Key : ChargeOf(row'[i]) = ChargeOf(row[i])
    BY <1>1
  <2> QED BY <1>1, <2>1, Parts, MoneyKept DEF MoneyInv
<1> QED BY <1>10, <1>11, <1>12, <1>13, <1>14, <1>15 DEF LedgerInv, MoneyInv

\* The provider never applies a request for a key.
LEMMA RefuseInv ==
    ASSUME LedgerInv, NEW o \in Op, NEW k \in Key, Refuse(o, k)
    PROVE  LedgerInv'
<1>1. /\ k \in wire[o] /\ wire' = [wire EXCEPT ![o] = @ \ {k}]
      /\ void' = [void EXCEPT ![o] = @ \cup {k}]
      /\ UNCHANGED <<row, charged, plan, op, done, store>>
    BY DEF Refuse
<1>2. wire \in [Op -> SUBSET Key] /\ void \in [Op -> SUBSET Key]
    BY Parts DEF TypeOK
<1>3. /\ wire' \in [Op -> SUBSET Key] /\ void' \in [Op -> SUBSET Key]
      /\ wire'[o] = wire[o] \ {k} /\ void'[o] = void[o] \cup {k}
      /\ \A i \in Op : i # o => wire'[i] = wire[i] /\ void'[i] = void[i]
    BY <1>1, <1>2
<1>4. TypeOK'
    BY <1>1, <1>3, Parts DEF TypeOK
<1>5. RowsAreHeld' /\ ClaimShape'
    BY <1>1, Parts DEF RowsAreHeld, ClaimShape
<1>6. Decided'
  <2>1. \A i \in Op : i # o \/ (i = o /\ op[o].pc \notin {"new", "claimed"})
    BY <1>1, Parts DEF Decided
  <2> QED BY <1>1, <1>3, <2>1, Parts DEF Decided
<1>7. Evidence'
  <2>1. \A i \in Op : wire'[i] \subseteq wire[i]
    BY <1>3
  <2> QED BY <1>1, <2>1, Parts DEF Evidence
<1>8. ObjectsKnown'
  <2>1. \A i \in Key : Bytes(i)' = Bytes(i)
    BY <1>1 DEF Bytes
  <2>2. \A i \in Op : wire'[i] \subseteq wire[i]
    BY <1>3
  <2> QED BY <1>1, <2>1, <2>2, Parts DEF ObjectsKnown, Pending
<1>9. MoneyInv'
  <2>1. \A i \in Key : ChargeOf(row'[i]) = ChargeOf(row[i])
    BY <1>1
  <2> QED BY <1>1, <2>1, Parts, MoneyKept DEF MoneyInv
<1> QED BY <1>4, <1>5, <1>6, <1>7, <1>8, <1>9 DEF LedgerInv, MoneyInv

-----------------------------------------------------------------------------
(* Settlement.                                                                *)

\* What settling makes of one row: it is left alone, released with what was
\* applied, or released as it was.
LEMMA SettledRow ==
    ASSUME LedgerInv, NEW o \in Op, op[o].pc = "settle", NEW k \in Key
    PROVE  \/ /\ Settled(o, k) = row[k]
              /\ row[k].op = o => k \notin op[o].took
           \/ /\ row[k].op = o /\ k \in op[o].took
              /\ Settled(o, k) = Committed(k, op[o].size)
           \/ /\ row[k].op = o /\ k \notin op[o].took /\ k \in op[o].refused
              /\ Settled(o, k) = Committed(k, row[k].committed)
<1>0. /\ k \in op[o].took \cup op[o].refused => row[k].op = o
      /\ op[o].took \cap op[o].refused = {}
  <2>1. op[o].took \subseteq op[o].keys /\ op[o].refused \subseteq op[o].keys
        /\ op[o].took \cap op[o].refused = {}
    BY Parts DEF Evidence, Decided
  <2> QED BY <2>1, Parts DEF RowsAreHeld
<1>1. CASE row[k].op # o
    BY <1>0, <1>1 DEF Settled
<1>2. CASE row[k].op = o /\ k \in op[o].took
    BY <1>0, <1>2 DEF Settled
<1>3. CASE row[k].op = o /\ k \notin op[o].took /\ k \in op[o].refused
  <2>1. op[o].adopted <= row[k].committed
    BY <1>3, Parts DEF Evidence
  <2>2. op[o].adopted \in Int /\ row[k].committed \in Int
    BY Parts, OpFields, RowFields, SizeIsInt
  <2>3. Larger(row[k].committed, op[o].adopted) = row[k].committed
    BY <2>1, <2>2, LargerOf
  <2> QED BY <1>3, <2>3 DEF Settled
<1>4. CASE row[k].op = o /\ k \notin op[o].took /\ k \notin op[o].refused
    BY <1>4 DEF Settled
<1> QED BY <1>1, <1>2, <1>3, <1>4

\* A released row is charged for what it holds.
LEMMA CommittedRow ==
    ASSUME NEW k, NEW n \in Size
    PROVE  /\ Committed(k, n) \in Rows
           /\ Committed(k, n).committed = n /\ Committed(k, n).reserved = 0
           /\ Committed(k, n).op = NoOp /\ ChargeOf(Committed(k, n)) = n
<1>1. 0 \in Size /\ n \in Int /\ 0 \in Int /\ n >= 0
    BY SizeIsInt DEF Size
<1>2. Committed(k, n) = [committed |-> n, reserved |-> 0, op |-> NoOp]
    BY DEF Committed, NoRow
<1>3. Larger(n, 0) = n
    BY <1>1, LargerOf
<1> QED BY <1>1, <1>2, <1>3 DEF Rows, ChargeOf

\* What is known of one row after it was settled: a released row is exact, and
\* no row's charge grows.
LEMMA SettledFacts ==
    ASSUME LedgerInv, NEW o \in Op, op[o].pc = "settle", NEW k \in Key
    PROVE  /\ Settled(o, k) \in Rows
           /\ ChargeOf(Settled(o, k)) <= ChargeOf(row[k])
           /\ \/ Settled(o, k) = row[k]
              \/ /\ row[k].op = o /\ \A i \in Op : k \notin wire[i]
                 /\ Settled(o, k).op = NoOp /\ Settled(o, k).reserved = 0
                 /\ Bytes(k) = Settled(o, k).committed
<1>1. /\ row[k].committed \in Size /\ row[k].reserved \in Size /\ op[o].size \in Size
      /\ ChargeOf(row[k]) \in Size /\ row[k] \in Rows
    BY Parts, RowFields, OpFields DEF TypeOK
<1>2. /\ row[k].committed \in Int /\ row[k].reserved \in Int /\ ChargeOf(row[k]) \in Int
      /\ ChargeOf(row[k]) >= row[k].committed /\ ChargeOf(row[k]) >= row[k].reserved
  <2>1. row[k].committed \in Int /\ row[k].reserved \in Int
    BY <1>1, SizeIsInt
  <2> QED BY <2>1, LargerOf DEF ChargeOf
<1>3. \A i \in Op : k \in wire[i] => row[k].op = i
    BY Parts DEF ObjectsKnown
<1>4. o # NoOp
    OBVIOUS
<1>5. CASE Settled(o, k) = row[k]
    BY <1>1, <1>2, <1>5
<1>6. CASE /\ row[k].op = o /\ k \in op[o].took
           /\ Settled(o, k) = Committed(k, op[o].size)
  <2>1. k \in done[o] /\ row[k].reserved = op[o].size
    BY <1>6, Parts DEF Evidence, RowsAreHeld
  <2>2. Bytes(k) = op[o].size
    BY <1>4, <1>6, <2>1, Parts DEF ObjectsKnown, Pending
  <2>3. \A i \in Op : k \notin wire[i]
    BY <1>3, <1>6, <2>1, Parts DEF Decided
  <2>4. Settled(o, k) \in Rows /\ Settled(o, k).committed = op[o].size /\ Settled(o, k).reserved = 0
        /\ Settled(o, k).op = NoOp /\ ChargeOf(Settled(o, k)) = op[o].size
    BY <1>1, <1>6, CommittedRow
  <2> QED BY <1>2, <1>6, <2>1, <2>2, <2>3, <2>4
<1>7. CASE /\ row[k].op = o /\ k \notin op[o].took /\ k \in op[o].refused
           /\ Settled(o, k) = Committed(k, row[k].committed)
  <2>1. k \notin wire[o] /\ k \notin done[o]
    BY <1>7, Parts DEF Evidence
  <2>2. Bytes(k) = row[k].committed
    BY <1>4, <1>7, <2>1, Parts DEF ObjectsKnown, Pending
  <2>3. \A i \in Op : k \notin wire[i]
    BY <1>3, <1>7, <2>1
  <2>4. Settled(o, k) \in Rows /\ Settled(o, k).committed = row[k].committed /\ Settled(o, k).reserved = 0
        /\ Settled(o, k).op = NoOp /\ ChargeOf(Settled(o, k)) = row[k].committed
    BY <1>1, <1>7, CommittedRow
  <2> QED BY <1>2, <1>7, <2>2, <2>3, <2>4
<1> QED BY <1>5, <1>6, <1>7, SettledRow

\* Settling only gives back: the sum of the changes is not positive, so the
\* plan's limits hold on.
LEMMA SettleInv == ASSUME LedgerInv, NEW o \in Op, Settle(o) PROVE LedgerInv'
<1> DEFINE d == [k \in Key |-> ChargeOf(Settled(o, k)) - ChargeOf(row[k])]
<1>1. /\ op[o].pc = "settle" /\ row' = [k \in Key |-> Settled(o, k)]
      /\ charged' = charged + SumFunction(d)
      /\ op' = [op EXCEPT ![o].pc = "end"]
      /\ UNCHANGED <<plan, wire, done, void, store>>
    BY DEF Settle, provider
<1>2. \A k \in Key : /\ row'[k] \in Rows /\ ChargeOf(row'[k]) <= ChargeOf(row[k])
                      /\ \/ row'[k] = row[k]
                         \/ /\ row[k].op = o /\ \A i \in Op : k \notin wire[i]
                            /\ row'[k].op = NoOp /\ row'[k].reserved = 0
                            /\ Bytes(k) = row'[k].committed
  <2> SUFFICES ASSUME NEW k \in Key
               PROVE  /\ row'[k] \in Rows /\ ChargeOf(row'[k]) <= ChargeOf(row[k])
                      /\ \/ row'[k] = row[k]
                         \/ /\ row[k].op = o /\ \A i \in Op : k \notin wire[i]
                            /\ row'[k].op = NoOp /\ row'[k].reserved = 0
                            /\ Bytes(k) = row'[k].committed
    OBVIOUS
  <2>1. row'[k] = Settled(o, k)
    BY <1>1
  <2> QED BY <1>1, <2>1, SettledFacts
<1>3. \A k \in Key : ChargeOf(row[k]) \in Int /\ ChargeOf(row'[k]) \in Int
  <2> SUFFICES ASSUME NEW k \in Key PROVE ChargeOf(row[k]) \in Int /\ ChargeOf(row'[k]) \in Int
    OBVIOUS
  <2>1. row'[k].committed \in Int /\ row'[k].reserved \in Int
    BY <1>2, SizeIsInt DEF Rows
  <2> QED BY <2>1, Parts, RowFields, SizeIsInt, LargerOf DEF ChargeOf
<1>4. d \in [Key -> Int] /\ \A k \in Key : d[k] <= 0 /\ ChargeOf(row'[k]) = ChargeOf(row[k]) + d[k]
  <2>1. \A k \in Key : d[k] = ChargeOf(row'[k]) - ChargeOf(row[k])
    BY <1>1
  <2>2. DOMAIN d = Key /\ d = [k \in Key |-> d[k]]
    OBVIOUS
  <2> HIDE DEF d
  <2> QED BY <1>2, <1>3, <2>1, <2>2
<1> HIDE DEF d
<1>5. SumFunction(d) \in Int /\ SumFunction(d) <= 0
  <2>1. DOMAIN d = Key
    BY <1>4
  <2>2. SumFunctionOnSet(d, Key) \in Int /\ SumFunctionOnSet(d, Key) <= 0
    BY <1>4, SumType, SumOfLosses
  <2> QED BY <2>1, <2>2 DEF SumFunction
<1>6. op \in [Op -> Ops] /\ charged \in Int
    BY Parts DEF TypeOK
<1>7. Moves(o, "end", op[o].took, op[o].refused, op[o].adopted)
    BY <1>1, <1>6 DEF Moves, Ops
<1>8. /\ op' \in [Op -> Ops]
      /\ op'[o].pc = "end" /\ op'[o].took = op[o].took /\ op'[o].refused = op[o].refused
      /\ op'[o].kind = op[o].kind /\ op'[o].keys = op[o].keys /\ op'[o].size = op[o].size
      /\ \A i \in Op : i # o => op'[i] = op[i]
    BY <1>7 DEF Moves
<1>9. TypeOK'
  <2>1. row' \in [Key -> Rows]
    BY <1>1, <1>2
  <2>2. charged' \in Int
    BY <1>1, <1>5, <1>6
  <2> QED BY <1>1, <1>8, <2>1, <2>2, Parts DEF TypeOK
<1>10. RowsAreHeld'
  <2> SUFFICES ASSUME NEW i \in Op
               PROVE  /\ op'[i].pc \in {"claimed", "sent", "head", "settle"} =>
                             \A k \in op'[i].keys : row'[k].op = i
                      /\ \A k \in Key : row'[k].op = i =>
                             /\ op'[i].pc # "new" /\ k \in op'[i].keys
                             /\ row'[k].reserved = op'[i].size
    BY DEF RowsAreHeld
  <2>1. /\ op[i].pc \in {"claimed", "sent", "head", "settle"} =>
              \A k \in op[i].keys : row[k].op = i
        /\ \A k \in Key : row[k].op = i =>
              /\ op[i].pc # "new" /\ k \in op[i].keys
              /\ row[k].reserved = op[i].size
        /\ op[i].keys \subseteq Key
    BY Parts, OpFields DEF RowsAreHeld
  <2>2. \A k \in Key : row'[k].op = i => row'[k] = row[k]
    BY <1>2
  <2>3. CASE i = o
    BY <1>8, <2>1, <2>2, <2>3
  <2>4. CASE i # o
    <3>1. \A k \in Key : row[k].op = i => row'[k] = row[k]
        BY <1>2, <2>4
    <3> QED BY <1>8, <2>1, <2>2, <2>4, <3>1
  <2> QED BY <2>3, <2>4
<1>11. ClaimShape'
    BY <1>1, <1>8, Parts DEF ClaimShape
<1>12. Decided'
    BY <1>1, <1>8, Parts DEF Decided
<1>13. Evidence'
  <2> SUFFICES ASSUME NEW i \in Op
               PROVE  /\ op'[i].took \subseteq done[i] /\ op'[i].refused \subseteq op'[i].keys
                      /\ op'[i].refused \cap (wire[i] \cup done[i]) = {}
                      /\ op'[i].took \cup op'[i].refused # {} => op'[i].pc \in {"head", "settle", "end"}
                      /\ op'[i].pc = "head" => op'[i].kind = "create" /\ op'[i].refused # {}
                      /\ op'[i].pc \in {"new", "claimed", "sent", "head"} => op'[i].adopted = 0
                      /\ op'[i].pc = "settle" =>
                            \A k \in op'[i].refused : op'[i].adopted <= row'[k].committed
    BY <1>1 DEF Evidence
  <2>1. CASE i = o
    BY <1>8, <2>1, Parts DEF Evidence
  <2>2. CASE i # o
    <3>1. op'[i] = op[i]
        BY <1>8, <2>2
    <3>2. op[i].pc = "settle" => \A k \in op[i].refused : row'[k] = row[k]
      <4> SUFFICES ASSUME op[i].pc = "settle", NEW k \in op[i].refused PROVE row'[k] = row[k]
        OBVIOUS
      <4>1. k \in op[i].keys /\ k \in Key
        BY Parts, OpFields DEF Evidence
      <4>2. row[k].op = i
        BY <4>1, Parts DEF RowsAreHeld
      <4> QED BY <1>2, <2>2, <4>1, <4>2
    <3> QED BY <3>1, <3>2, Parts DEF Evidence
  <2> QED BY <2>1, <2>2
<1>14. ObjectsKnown'
  <2>1. \A k \in Key : Bytes(k)' = Bytes(k)
    BY <1>1 DEF Bytes
  <2> SUFFICES ASSUME NEW k \in Key
               PROVE  /\ row'[k].op = NoOp => row'[k].reserved = 0
                      /\ \A i \in Op : k \in wire[i] => row'[k].op = i
                      /\ IF row'[k].op # NoOp /\ k \in done[row'[k].op]
                         THEN Bytes(k) = op'[row'[k].op].size
                         ELSE Bytes(k) = row'[k].committed
    BY <1>1, <2>1 DEF ObjectsKnown, Pending
  <2>2. CASE row'[k] = row[k]
    <3>1. row[k].op \in Op \cup {NoOp} /\ \A i \in Op : op'[i].size = op[i].size
        BY <1>8, Parts, RowFields
    <3> QED BY <2>2, <3>1, Parts DEF ObjectsKnown, Pending
  <2>3. CASE /\ \A i \in Op : k \notin wire[i]
             /\ row'[k].op = NoOp /\ row'[k].reserved = 0 /\ Bytes(k) = row'[k].committed
    BY <2>3
  <2> QED BY <1>2, <2>2, <2>3
<1>15. ChargedIsSum'
    BY <1>1, <1>4, Parts, MoneyMoves
<1>16. WithinPlan'
  <2> SUFFICES ASSUME plan' # NoPlan PROVE WithinPlan'
    BY DEF WithinPlan
  <2>1. /\ plan' = plan /\ plan # NoPlan /\ StorageLimit[plan] \in Nat /\ FileLimit[plan] \in Nat
    BY <1>1, Parts DEF TypeOK
  <2>2. charged <= StorageLimit[plan] /\ \A i \in Key : ChargeOf(row[i]) <= FileLimit[plan]
    BY <2>1, Parts DEF WithinPlan
  <2>3. charged' <= StorageLimit[plan]
    BY <1>1, <1>5, <1>6, <2>1, <2>2
  <2>4. \A i \in Key : ChargeOf(row'[i]) <= FileLimit[plan]
    BY <1>2, <1>3, <2>1, <2>2
  <2> QED BY <2>1, <2>3, <2>4 DEF WithinPlan
<1> QED BY <1>9, <1>10, <1>11, <1>12, <1>13, <1>14, <1>15, <1>16 DEF LedgerInv

\* The agent moves only to an organization whose tier has room for it.
LEMMA TransferInv ==
    ASSUME LedgerInv, NEW p \in Plan \cup {NoPlan}, Transfer(p)
    PROVE  LedgerInv'
<1>1. Admits(p) /\ plan' = p /\ UNCHANGED <<row, charged, op, wire, done, void, store>>
    BY DEF Transfer, provider
<1>2. TypeOK'
    BY <1>1, Parts DEF TypeOK
<1>3. RowsAreHeld' /\ ClaimShape' /\ Decided' /\ Evidence'
    BY <1>1, Parts DEF RowsAreHeld, ClaimShape, Decided, Evidence
<1>4. ObjectsKnown'
  <2>1. \A i \in Key : Bytes(i)' = Bytes(i)
    BY <1>1 DEF Bytes
  <2> QED BY <1>1, <2>1, Parts DEF ObjectsKnown, Pending
<1>5. ChargedIsSum'
  <2>1. Charges' = Charges
    BY <1>1 DEF Charges
  <2> QED BY <1>1, <2>1, Parts DEF ChargedIsSum
<1>6. WithinPlan'
    BY <1>1 DEF WithinPlan, Admits
<1> QED BY <1>2, <1>3, <1>4, <1>5, <1>6 DEF LedgerInv

\* Every step keeps the invariant, one lemma for each action.
LEMMA StepInv == LedgerInv /\ [Next]_vars => LedgerInv'
<1> SUFFICES ASSUME LedgerInv, [Next]_vars PROVE LedgerInv'
    OBVIOUS
<1>1. ASSUME NEW o \in Op, NEW kind \in {"write", "create"}, NEW k \in Key, NEW n \in Size,
             Reserve(o, kind, k, n)
      PROVE  LedgerInv'
    BY <1>1, ReserveInv
<1>2. ASSUME NEW o \in Op, NEW keys \in SUBSET Key, BeginDelete(o, keys) PROVE LedgerInv'
    BY <1>2, BeginDeleteInv
<1>3. ASSUME NEW o \in Op, NEW refused \in SUBSET Key, Precheck(o, refused) PROVE LedgerInv'
    BY <1>3, PrecheckInv
<1>4. ASSUME NEW o \in Op, NEW took \in SUBSET Key, NEW refused \in SUBSET Key,
             Respond(o, took, refused)
      PROVE  LedgerInv'
    BY <1>4, RespondInv
<1>5. ASSUME NEW o \in Op, NEW k \in Key, Apply(o, k) \/ Refuse(o, k) PROVE LedgerInv'
    BY <1>5, ApplyInv, RefuseInv
<1>6. ASSUME NEW o \in Op, NEW seen \in BOOLEAN, HeadWinner(o, seen) PROVE LedgerInv'
    BY <1>6, HeadWinnerInv
<1>7. ASSUME NEW o \in Op, Send(o) \/ Settle(o) \/ Abandon(o) PROVE LedgerInv'
    BY <1>7, SendInv, SettleInv, AbandonInv
<1>8. ASSUME NEW p \in Plan \cup {NoPlan}, Transfer(p) PROVE LedgerInv'
    BY <1>8, TransferInv
<1>9. CASE UNCHANGED vars
  <2>1. \A i \in Key : Bytes(i)' = Bytes(i)
    BY <1>9 DEF Bytes, vars
  <2>2. Charges' = Charges
    BY <1>9 DEF Charges, vars
  <2>3. TypeOK' /\ RowsAreHeld' /\ ClaimShape' /\ Decided' /\ Evidence'
    BY <1>9, Parts DEF vars, TypeOK, RowsAreHeld, ClaimShape, Decided, Evidence
  <2>4. ObjectsKnown'
    BY <1>9, <2>1, Parts DEF vars, ObjectsKnown, Pending
  <2>5. ChargedIsSum' /\ WithinPlan'
    BY <1>9, <2>2, Parts DEF vars, ChargedIsSum, WithinPlan
  <2> QED BY <2>3, <2>4, <2>5 DEF LedgerInv
<1> QED BY <1>1, <1>2, <1>3, <1>4, <1>5, <1>6, <1>7, <1>8, <1>9 DEF Next

-----------------------------------------------------------------------------
(* What the ledger promises.                                                  *)

\* The inductive invariant of the ledger: claims, requests, evidence and
\* objects fit together whatever callers and provider do, and the total is
\* the sum of the rows.
THEOREM LedgerInvariant == Spec => []LedgerInv
<1>1. Init => LedgerInv
    BY InitInv
<1>2. LedgerInv /\ [Next]_vars => LedgerInv'
    BY StepInv
<1> QED BY <1>1, <1>2, PTL DEF Spec

\* What the invariant says of one object: its bytes are charged, and so are
\* those a request on its way would make of it.
LEMMA InvCovers == LedgerInv => Covered
<1> SUFFICES ASSUME LedgerInv, NEW k \in Key
             PROVE  /\ Bytes(k) <= ChargeOf(row[k])
                    /\ \A o \in Op : k \in wire[o] => op[o].size <= ChargeOf(row[k])
    BY DEF Covered
<1>1. row[k].committed \in Int /\ row[k].reserved \in Int /\ row[k].op \in Op \cup {NoOp}
    BY Parts, RowFields, SizeIsInt
<1>2. ChargeOf(row[k]) >= row[k].committed /\ ChargeOf(row[k]) >= row[k].reserved
    BY <1>1, LargerOf DEF ChargeOf
<1>3. \A o \in Op : row[k].op = o => row[k].reserved = op[o].size
    BY Parts DEF RowsAreHeld
<1>4. Bytes(k) = row[k].committed \/ Bytes(k) = row[k].reserved
    BY <1>1, <1>3, Parts DEF ObjectsKnown, Pending
<1>5. \A o \in Op : k \in wire[o] => row[k].op = o
    BY Parts DEF ObjectsKnown
<1>6. ChargeOf(row[k]) \in Int
    BY Parts, RowFields, SizeIsInt
<1> QED BY <1>1, <1>2, <1>3, <1>4, <1>5, <1>6

\* The invariant has all that the ledger promises.
LEMMA InvSafe == LedgerInv => LedgerSafety
<1> SUFFICES ASSUME LedgerInv PROVE LedgerSafety
    OBVIOUS
<1>1. Covered
    BY InvCovers
<1>2. SettledIsExact
    BY FreeRow DEF SettledIsExact
<1> QED BY <1>1, <1>2, Parts DEF LedgerSafety

\* The ledger never understates the provider, its total is exact, and the
\* agent stays within its tier, for every number of keys and operations.
THEOREM LedgerSafe == Spec => []LedgerSafety
BY LedgerInvariant, InvSafe, PTL

-----------------------------------------------------------------------------
(* Acceptance of turns: sequences and counts.                                 *)

\* ChatIntake counts with the same operators.
LEMMA IntakeCount == \A S : Intake!Cardinality(S) = Cardinality(S)
BY DEF Intake!Cardinality, Cardinality

\* The first of a sequence, and the rest.
LEMMA FirstAndRest ==
    ASSUME NEW S, NEW q \in Seq(S), q # << >>
    PROVE  Head(q) \in S /\ Tail(q) \in Seq(S)
OBVIOUS

\* What is sent again is what the browser does not know the fate of.
LEMMA PendingIsUnknown ==
    ASSUME order \in Seq(Web)
    PROVE  Intake!Pending \in Seq({r \in Web : line[r] = "unknown"})
<1> DEFINE U == {r \in Web : line[r] = "unknown"}
           Kept(f, i) == IF i = 0 THEN << >>
                         ELSE IF line[order[i]] = "unknown" THEN Append(f[i - 1], order[i])
                         ELSE f[i - 1]
           Is(f, n) == f = [i \in 0 .. n |-> Kept(f, i)]
           G == {n \in Nat : \E f : Is(f, n)}
<1>1. 0 \in G
  <2> DEFINE f == [i \in 0 .. 0 |-> << >>]
  <2>1. Is(f, 0)
    OBVIOUS
  <2> QED BY <2>1
<1>2. ASSUME NEW n \in Nat, n \in G PROVE n + 1 \in G
  <2>1. PICK f : Is(f, n)
    BY <1>2
  <2> DEFINE g == [i \in 0 .. n + 1 |-> Kept(f, i)]
  <2>2. \A i \in 0 .. n : g[i] = f[i]
    <3> HIDE DEF Kept
    <3> QED BY <2>1
  <2>3. \A i \in 0 .. n + 1 : Kept(f, i) = Kept(g, i)
    <3> SUFFICES ASSUME NEW i \in 0 .. n + 1 PROVE Kept(f, i) = Kept(g, i)
        OBVIOUS
    <3>1. i # 0 => i - 1 \in 0 .. n
        OBVIOUS
    <3>2. i # 0 => g[i - 1] = f[i - 1]
        BY <2>2, <3>1
    <3> HIDE DEF g
    <3> QED BY <3>2
  <2>4. Is(g, n + 1)
    <3> HIDE DEF Kept
    <3> QED BY <2>3
  <2> QED
    <3> HIDE DEF g, Is
    <3> QED BY <2>4
<1>3. \A n \in Nat : n \in G
  <2> HIDE DEF G
  <2> QED BY <1>1, <1>2, Counting
<1> DEFINE n == Len(order)
           f == CHOOSE h : Is(h, n)
<1>4. n \in Nat /\ Is(f, n)
  <2>1. n \in Nat
    OBVIOUS
  <2>2. \E h : Is(h, n)
    <3> HIDE DEF Is, n
    <3> QED BY <1>3, <2>1
  <2> HIDE DEF Is, n
  <2> QED BY <2>1, <2>2
<1>5. Intake!Pending = f[n]
    BY DEF Intake!Pending
<1> HIDE DEF f
<1> DEFINE T == {i \in Nat : i <= n => f[i] \in Seq(U)}
<1>6. 0 \in T
    BY <1>4
<1>7. ASSUME NEW i \in Nat, i \in T PROVE i + 1 \in T
  <2> SUFFICES ASSUME i + 1 <= n PROVE f[i + 1] \in Seq(U)
    OBVIOUS
  <2>1. f[i] \in Seq(U) /\ i + 1 \in 1 .. n /\ order[i + 1] \in Web
    BY <1>4, <1>7
  <2>2. f[i + 1] = Kept(f, i + 1)
    <3> HIDE DEF Kept, n
    <3>1. \A j \in 0 .. n : f[j] = Kept(f, j)
      BY <1>4
    <3>2. i + 1 \in 0 .. n
      BY <1>4, <2>1
    <3> QED BY <3>1, <3>2
  <2>3. (i + 1) - 1 = i /\ i + 1 # 0
    OBVIOUS
  <2>4. f[i + 1] = IF line[order[i + 1]] = "unknown" THEN Append(f[i], order[i + 1]) ELSE f[i]
    BY <2>2, <2>3
  <2> QED BY <2>1, <2>4
<1>8. n \in T
  <2> HIDE DEF T
  <2>1. \A i \in Nat : i \in T
    BY <1>6, <1>7, Counting
  <2> QED BY <1>4, <2>1
<1> QED BY <1>4, <1>5, <1>8

-----------------------------------------------------------------------------
(* Acceptance of turns: the steps.                                            *)

\* A step that commits nothing and freezes nothing keeps the invariant when the
\* locks hold after it and what moved has its type.
LEMMA NothingCommitted ==
    ASSUME Intake!IntakeInv,
           UNCHANGED <<turn, queued, paidIn, used, period, admin, envelope>>,
           order' \in Seq(Web), socket' \in 0 .. MaxSockets, link' \in {"down", "up", "stopped"},
           line' \in [Web -> {"draft", "unknown", "accepted", "rejected"}],
           \A r \in Web : /\ line'[r] # "draft" => envelope[r] # NoBody
                          /\ line'[r] = "accepted" => turn[r] # NoBody,
           tx' \in [Intake!Handler -> Intake!Place], inbox' \in [Intake!Socket -> Seq(Intake!Frame)],
           \A s \in Intake!Socket : tx'[s].pc # "idle" => <<tx'[s].req, tx'[s].body>> \in Intake!Frame,
           \A h \in Hook : tx'[h].pc # "idle" => tx'[h].req \in Event /\ tx'[h].body \in Body,
           \A e \in acked' : turn[e] # NoBody,
           Intake!LocksHold'
    PROVE  Intake!IntakeInv'
<1> USE DEF Intake!IntakeInv
<1>1. Intake!Frame' = Intake!Frame
  BY DEF Intake!Frame
<1>2. Intake!Frame \subseteq Web \X Body
  BY DEF Intake!Frame, Intake!TypeOK
<1>3. Intake!TypeOK'
  <2>1. inbox' \in [Intake!Socket -> Seq(Web \X Body)]
    <3>1. Seq(Intake!Frame) \subseteq Seq(Web \X Body)
      BY <1>2
    <3> QED BY <3>1
  <2> QED BY <2>1 DEF Intake!TypeOK
<1>4. Intake!FrozenTravels'
  BY <1>1 DEF Intake!FrozenTravels
<1>5. Intake!EachOnce' /\ Intake!QuotaIsExact'
  BY DEF Intake!IntakeSafety, Intake!EachOnce, Intake!QuotaIsExact
<1>6. Intake!AcknowledgedIsDurable'
  BY DEF Intake!AcknowledgedIsDurable, Intake!FrozenTravels
<1> QED BY <1>3, <1>4, <1>5, <1>6 DEF Intake!IntakeSafety

\* One handler moves: the locks hold when what it newly holds was free.
LEMMA HandlerMoves ==
    ASSUME Intake!IntakeInv, NEW h \in Intake!Handler, NEW x \in Intake!Place,
           tx' = [tx EXCEPT ![h] = x],
           UNCHANGED <<turn, queued, paidIn, used, period, elapsed, admin>>,
           Intake!HoldsKey(h, x.req)' =>
               \/ Intake!HoldsKey(h, x.req)
               \/ turn[x.req] = NoBody /\ \A g \in Intake!Handler \ {h} : ~Intake!HoldsKey(g, x.req),
           Intake!HoldsUser(h)' =>
               \/ Intake!HoldsUser(h)
               \/ Intake!Spent < QuotaLimit /\ \A g \in Intake!Handler \ {h} : ~Intake!HoldsUser(g),
           x.pc = "answer" => x.out # "none" /\ (x.out = "accepted" => turn[x.req] # NoBody),
           acked' \subseteq Event
    PROVE  Intake!LocksHold'
<1> USE DEF Intake!IntakeInv
<1>1. tx \in [Intake!Handler -> Intake!Place] /\ tx' \in [Intake!Handler -> Intake!Place]
  BY DEF Intake!TypeOK
<1>2. tx'[h] = x /\ \A g \in Intake!Handler \ {h} : tx'[g] = tx[g]
  BY <1>1
<1>3. \A g \in Intake!Handler \ {h} : \A r \in Intake!Request : Intake!HoldsKey(g, r)' <=> Intake!HoldsKey(g, r)
  BY <1>2 DEF Intake!HoldsKey
<1>4. \A g \in Intake!Handler \ {h} : Intake!HoldsUser(g)' <=> Intake!HoldsUser(g)
  BY <1>2 DEF Intake!HoldsUser
<1>5. \A r \in Intake!Request : Intake!HoldsKey(h, r)' => r = x.req
  BY <1>2 DEF Intake!HoldsKey
<1>6. \A f, g \in Intake!Handler : \A r \in Intake!Request :
          Intake!HoldsKey(f, r)' /\ Intake!HoldsKey(g, r)' => f = g /\ turn'[r] = NoBody
  BY <1>3, <1>5 DEF Intake!LocksHold
<1>7. Intake!Spent' = Intake!Spent
  BY DEF Intake!Spent
<1>8. \A f, g \in Intake!Handler :
          Intake!HoldsUser(f)' /\ Intake!HoldsUser(g)' => f = g /\ Intake!Spent' < QuotaLimit
  BY <1>4, <1>7 DEF Intake!LocksHold
<1>9. \A g \in Intake!Handler : tx'[g].pc = "answer" =>
          tx'[g].out # "none" /\ (tx'[g].out = "accepted" => turn'[tx'[g].req] # NoBody)
  BY <1>2 DEF Intake!LocksHold
<1> QED BY <1>6, <1>8, <1>9 DEF Intake!LocksHold

\* A handler goes on with its request and does not touch the browser.
LEMMA HandlerGoesOn ==
    ASSUME Intake!IntakeInv, NEW h \in Intake!Handler, NEW x \in Intake!Place,
           tx' = [tx EXCEPT ![h] = x], tx[h].pc # "idle", x.req = tx[h].req, x.body = tx[h].body,
           UNCHANGED <<envelope, order, line, socket, link, inbox>>,
           UNCHANGED <<turn, queued, paidIn, used, period, elapsed, admin, acked>>,
           Intake!HoldsKey(h, x.req)' =>
               \/ Intake!HoldsKey(h, x.req)
               \/ turn[x.req] = NoBody /\ \A g \in Intake!Handler \ {h} : ~Intake!HoldsKey(g, x.req),
           Intake!HoldsUser(h)' =>
               \/ Intake!HoldsUser(h)
               \/ Intake!Spent < QuotaLimit /\ \A g \in Intake!Handler \ {h} : ~Intake!HoldsUser(g),
           x.pc = "answer" => x.out # "none" /\ (x.out = "accepted" => turn[x.req] # NoBody)
    PROVE  Intake!IntakeInv'
<1>1. Intake!LocksHold'
  BY HandlerMoves DEF Intake!IntakeInv, Intake!LocksHold
<1>2. tx' \in [Intake!Handler -> Intake!Place] /\ inbox' \in [Intake!Socket -> Seq(Intake!Frame)]
  BY DEF Intake!IntakeInv, Intake!TypeOK, Intake!FrozenTravels
<1>3. /\ \A s \in Intake!Socket : tx'[s].pc # "idle" => <<tx'[s].req, tx'[s].body>> \in Intake!Frame
      /\ \A g \in Hook : tx'[g].pc # "idle" => tx'[g].req \in Event /\ tx'[g].body \in Body
  BY DEF Intake!IntakeInv, Intake!TypeOK, Intake!FrozenTravels, Intake!Handler
<1>4. \A r \in Web : /\ line'[r] # "draft" => envelope[r] # NoBody
                     /\ line'[r] = "accepted" => turn[r] # NoBody
  BY DEF Intake!IntakeInv, Intake!IntakeSafety, Intake!AcknowledgedIsDurable, Intake!FrozenTravels
<1>5. \A e \in acked' : turn[e] # NoBody
  BY DEF Intake!IntakeInv, Intake!IntakeSafety, Intake!AcknowledgedIsDurable
<1>6. /\ order' \in Seq(Web) /\ socket' \in 0 .. MaxSockets /\ link' \in {"down", "up", "stopped"}
      /\ line' \in [Web -> {"draft", "unknown", "accepted", "rejected"}]
  BY DEF Intake!IntakeInv, Intake!TypeOK
<1> QED BY <1>1, <1>2, <1>3, <1>4, <1>5, <1>6, NothingCommitted

\* The steps of a transaction before its end.
LEMMA TransactionInv ==
    ASSUME Intake!IntakeInv, NEW h \in Intake!Handler,
           \/ Intake!ReserveReceipt(h) \/ Intake!LockSession(h) \/ Intake!Charge(h)
           \/ h \in Intake!Socket /\ (Intake!Check(h) \/ Intake!Reserve(h))
           \/ \E out \in {"rejected", "stopped"} : Intake!Fail(h, out)
    PROVE  Intake!IntakeInv'
<1> USE DEF Intake!browser, Intake!durable
<1>0. /\ tx \in [Intake!Handler -> Intake!Place] /\ tx[h] \in Intake!Place /\ turn \in [Intake!Request -> Body \cup {NoBody}]
      /\ Hook \cap Intake!Socket = {}
      /\ \A s \in Intake!Socket : tx[s].pc # "idle" => tx[s].body \in Body /\ tx[s].req \in Web
      /\ \A g \in Hook : tx[g].pc # "idle" => tx[g].req \in Event /\ tx[g].body \in Body
  BY IntakeAssumption DEF Intake!IntakeInv, Intake!TypeOK, Intake!FrozenTravels, Intake!Frame,
     Intake!Socket
<1> DEFINE On(pc) == [tx[h] EXCEPT !.pc = pc]
           Ended(out) == [tx[h] EXCEPT !.pc = "answer", !.out = out]
<1>1. ASSUME NEW pc \in {"lock", "check", "reserve", "charge", "insert"}, Intake!Goto(h, pc)
      PROVE  /\ On(pc) \in Intake!Place /\ tx' = [tx EXCEPT ![h] = On(pc)]
             /\ On(pc).req = tx[h].req /\ On(pc).body = tx[h].body /\ On(pc).pc = pc
  BY <1>0, <1>1 DEF Intake!Goto, Intake!Place
<1>2. ASSUME NEW out \in {"accepted", "rejected", "stopped"}, Intake!End(h, out)
      PROVE  /\ Ended(out) \in Intake!Place /\ tx' = [tx EXCEPT ![h] = Ended(out)]
             /\ Ended(out).req = tx[h].req /\ Ended(out).body = tx[h].body
             /\ Ended(out).pc = "answer" /\ Ended(out).out = out
             /\ (\A r : ~Intake!HoldsKey(h, r)') /\ ~Intake!HoldsUser(h)'
  BY <1>0, <1>2 DEF Intake!End, Intake!Place, Intake!HoldsKey, Intake!HoldsUser
<1> HIDE DEF On, Ended
<1>3. ASSUME NEW out \in {"accepted", "rejected", "stopped"}, Intake!End(h, out), tx[h].pc # "idle",
             out = "accepted" => turn[tx[h].req] # NoBody,
             UNCHANGED <<envelope, order, line, socket, link, inbox>>,
             UNCHANGED <<turn, queued, paidIn, used, period, elapsed, admin, acked>>
      PROVE  Intake!IntakeInv'
  BY <1>2, <1>3, HandlerGoesOn
<1>4. ASSUME Intake!Replay(h) = "accepted", tx[h].pc # "idle" PROVE turn[tx[h].req] # NoBody
  BY <1>0, <1>4, IntakeAssumption DEF Intake!Replay, Intake!Handler
<1>5. Intake!Replay(h) \in {"accepted", "rejected"}
  BY DEF Intake!Replay
<1>6. CASE Intake!ReserveReceipt(h)
  <2>1. CASE turn[tx[h].req] = NoBody
    <3>1. Intake!Goto(h, "lock") /\ tx[h].pc = "receipt" /\ Intake!KeyFree(h)
      BY <1>6, <2>1 DEF Intake!ReserveReceipt
    <3>2. ~Intake!HoldsUser(h)'
      BY <1>1, <3>1, <1>0 DEF Intake!HoldsUser
    <3> QED BY <1>1, <1>6, <2>1, <3>1, <3>2, HandlerGoesOn DEF Intake!ReserveReceipt, Intake!KeyFree
  <2>2. CASE turn[tx[h].req] # NoBody
    BY <1>3, <1>4, <1>5, <1>6, <2>2 DEF Intake!ReserveReceipt
  <2> QED BY <2>1, <2>2
<1>7. CASE Intake!LockSession(h)
  <2>1. CASE h \in Hook
    <3>1. Intake!Goto(h, "charge") /\ tx[h].pc = "lock"
      BY <1>7, <2>1 DEF Intake!LockSession
    <3>2. ~Intake!HoldsUser(h)' /\ Intake!HoldsKey(h, tx[h].req)
      BY <1>1, <3>1, <1>0, <2>1 DEF Intake!HoldsUser, Intake!HoldsKey
    <3> QED BY <1>1, <1>7, <3>1, <3>2, HandlerGoesOn DEF Intake!LockSession
  <2>2. CASE h \notin Hook /\ turn[tx[h].req] # NoBody
    BY <1>3, <1>4, <1>5, <1>7, <2>2 DEF Intake!LockSession
  <2>3. CASE h \notin Hook /\ turn[tx[h].req] = NoBody
    <3>1. Intake!Goto(h, "check") /\ tx[h].pc = "lock"
      BY <1>7, <2>3 DEF Intake!LockSession
    <3>2. ~Intake!HoldsUser(h)' /\ \A r : ~Intake!HoldsKey(h, r)'
      BY <1>1, <3>1, <1>0, <2>3 DEF Intake!HoldsUser, Intake!HoldsKey
    <3> QED BY <1>1, <1>7, <3>1, <3>2, HandlerGoesOn DEF Intake!LockSession
  <2> QED BY <2>1, <2>2, <2>3
<1>8. CASE h \in Intake!Socket /\ Intake!Check(h)
  <2>1. Intake!Goto(h, "reserve") /\ tx[h].pc = "check"
    BY <1>8 DEF Intake!Check
  <2>2. ~Intake!HoldsUser(h)' /\ \A r : ~Intake!HoldsKey(h, r)'
    BY <1>1, <2>1, <1>0, <1>8 DEF Intake!HoldsUser, Intake!HoldsKey
  <2> QED BY <1>1, <1>8, <2>1, <2>2, HandlerGoesOn DEF Intake!Check
<1>9. CASE h \in Intake!Socket /\ Intake!Reserve(h)
  <2>1. CASE turn[tx[h].req] = NoBody
    <3>1. Intake!Goto(h, "charge") /\ tx[h].pc = "reserve" /\ Intake!KeyFree(h)
      BY <1>9, <2>1 DEF Intake!Reserve
    <3>2. ~Intake!HoldsUser(h)'
      BY <1>1, <3>1, <1>0 DEF Intake!HoldsUser
    <3> QED BY <1>1, <1>9, <2>1, <3>1, <3>2, HandlerGoesOn DEF Intake!Reserve, Intake!KeyFree
  <2>2. CASE turn[tx[h].req] # NoBody
    BY <1>3, <1>4, <1>5, <1>9, <2>2 DEF Intake!Reserve
  <2> QED BY <2>1, <2>2
<1>10. CASE Intake!Charge(h)
  <2>1. CASE admin \/ (Intake!UserFree(h) /\ Intake!Spent < QuotaLimit)
    <3>1. CASE Intake!Goto(h, "insert")
      <4>1. tx[h].pc = "charge" /\ Intake!HoldsKey(h, tx[h].req)
        BY <1>0, <1>10 DEF Intake!Charge, Intake!HoldsKey
      <4>2. Intake!HoldsUser(h)' => Intake!Spent < QuotaLimit /\ \A g \in Intake!Handler \ {h} : ~Intake!HoldsUser(g)
        BY <1>10, <2>1 DEF Intake!HoldsUser, Intake!UserFree, Intake!Charge
      <4> QED BY <1>1, <1>10, <3>1, <4>1, <4>2, HandlerGoesOn DEF Intake!Charge
    <3>2. CASE Intake!End(h, "rejected")
      BY <1>3, <1>10, <3>2 DEF Intake!Charge
    <3> QED BY <1>10, <3>1, <3>2 DEF Intake!Charge
  <2>2. CASE ~(admin \/ (Intake!UserFree(h) /\ Intake!Spent < QuotaLimit))
    BY <1>3, <1>10, <2>2 DEF Intake!Charge
  <2> QED BY <2>1, <2>2
<1>11. CASE \E out \in {"rejected", "stopped"} : Intake!Fail(h, out)
  BY <1>3, <1>11 DEF Intake!Fail
<1> QED BY <1>6, <1>7, <1>8, <1>9, <1>10, <1>11

\* A first submission freezes its payload; a later one sends what was frozen.
LEMMA SubmitInv ==
    ASSUME Intake!IntakeInv, NEW r \in Web, NEW b \in Body, Intake!Submit(r, b)
    PROVE  Intake!IntakeInv'
<1> USE DEF Intake!durable
<1>0. /\ Intake!TypeOK /\ Intake!FrozenTravels /\ Intake!LocksHold
      /\ Intake!EachOnce /\ Intake!QuotaIsExact /\ Intake!AcknowledgedIsDurable
  BY DEF Intake!IntakeInv, Intake!IntakeSafety
<1>1. /\ envelope' = [envelope EXCEPT ![r] = Intake!Frozen(r, b)]
      /\ line' = [line EXCEPT ![r] = "unknown"]
      /\ order' \in {order, Append(order, r)}
      /\ inbox' \in {inbox, [inbox EXCEPT ![socket] = Append(@, <<r, Intake!Frozen(r, b)>>)]}
      /\ UNCHANGED <<turn, queued, paidIn, used, period, elapsed, socket, link, tx, admin, acked>>
  BY DEF Intake!Submit
<1>2. /\ Intake!Frozen(r, b) \in Body /\ (envelope[r] # NoBody => Intake!Frozen(r, b) = envelope[r])
      /\ envelope'[r] = Intake!Frozen(r, b) /\ \A q \in Web \ {r} : envelope'[q] = envelope[q]
  BY <1>0, <1>1 DEF Intake!Frozen, Intake!TypeOK
<1>3. /\ Intake!Frame \subseteq Intake!Frame' /\ <<r, Intake!Frozen(r, b)>> \in Intake!Frame'
      /\ Intake!Frame' \subseteq Web \X Body
  <2>1. Intake!Frame' = {<<q, envelope'[q]>> : q \in {p \in Web : envelope'[p] # NoBody}}
    BY DEF Intake!Frame
  <2>2. envelope \in [Web -> Body \cup {NoBody}] /\ envelope' \in [Web -> Body \cup {NoBody}]
    BY <1>0, <1>1, <1>2 DEF Intake!TypeOK
  <2>3. Intake!Frame' \subseteq Web \X Body
    BY <2>1, <2>2
  <2>4. <<r, Intake!Frozen(r, b)>> \in Intake!Frame'
    BY <1>2, <2>1, IntakeAssumption
  <2>5. ASSUME NEW q \in Web, envelope[q] # NoBody PROVE envelope'[q] = envelope[q]
    BY <1>2, <2>5
  <2>6. Intake!Frame \subseteq Intake!Frame'
    BY <2>1, <2>5 DEF Intake!Frame
  <2> QED BY <2>3, <2>4, <2>6
<1>4. inbox' \in [Intake!Socket -> Seq(Intake!Frame')]
  <2>1. Seq(Intake!Frame) \subseteq Seq(Intake!Frame')
    BY <1>3
  <2>2. inbox \in [Intake!Socket -> Seq(Intake!Frame')]
    BY <1>0, <2>1 DEF Intake!FrozenTravels
  <2>3. \A q \in Seq(Intake!Frame') : Append(q, <<r, Intake!Frozen(r, b)>>) \in Seq(Intake!Frame')
    BY <1>3
  <2> DEFINE Frames == Seq(Intake!Frame')
             frame == <<r, Intake!Frozen(r, b)>>
  <2>4. inbox \in [Intake!Socket -> Frames] /\ \A q \in Frames : Append(q, frame) \in Frames
    BY <2>2, <2>3
  <2>5. inbox' \in {inbox, [inbox EXCEPT ![socket] = Append(@, frame)]}
    BY <1>1
  <2> HIDE DEF Frames, frame
  <2>6. inbox' \in [Intake!Socket -> Frames]
    <3>1. CASE inbox' = inbox
        BY <2>4, <3>1
    <3>2. CASE inbox' = [inbox EXCEPT ![socket] = Append(@, frame)]
        BY <2>4, <3>2
    <3> QED BY <2>5, <3>1, <3>2
  <2> QED BY <2>6 DEF Frames
<1>5. Intake!TypeOK'
  <2>1. inbox' \in [Intake!Socket -> Seq(Web \X Body)]
    <3>1. Seq(Intake!Frame') \subseteq Seq(Web \X Body)
      BY <1>3
    <3> QED BY <1>4, <3>1
  <2>2. order' \in Seq(Web)
    <3>1. \A q \in Seq(Web) : Append(q, r) \in Seq(Web)
      OBVIOUS
    <3> QED BY <1>0, <1>1, <3>1 DEF Intake!TypeOK
  <2>3. envelope' \in [Web -> Body \cup {NoBody}]
    BY <1>0, <1>1, <1>2 DEF Intake!TypeOK
  <2> QED BY <1>0, <1>1, <2>1, <2>2, <2>3 DEF Intake!TypeOK
<1>6. \A q \in Web : turn[q] # NoBody => envelope'[q] = envelope[q]
  BY <1>0, <1>2 DEF Intake!FrozenTravels
<1>7. Intake!FrozenTravels'
  <2>1. \A q \in Web : /\ line'[q] # "draft" => envelope'[q] # NoBody
                       /\ turn'[q] # NoBody => turn'[q] = envelope'[q]
    <3>1. \A q \in Web : turn'[q] # NoBody => turn'[q] = envelope'[q]
      BY <1>0, <1>1, <1>6 DEF Intake!FrozenTravels
    <3>2. envelope'[r] # NoBody
      BY <1>2, IntakeAssumption
    <3>3. \A q \in Web \ {r} : line'[q] # "draft" => envelope'[q] # NoBody
      BY <1>0, <1>1, <1>2 DEF Intake!FrozenTravels, Intake!TypeOK
    <3> QED BY <3>1, <3>2, <3>3
  <2> QED BY <1>0, <1>1, <1>3, <1>4, <2>1 DEF Intake!FrozenTravels
<1>8. Intake!AcknowledgedIsDurable'
  BY <1>0, <1>1, <1>6 DEF Intake!AcknowledgedIsDurable, Intake!TypeOK
<1>9. Intake!EachOnce' /\ Intake!QuotaIsExact'
  BY <1>0, <1>1 DEF Intake!EachOnce, Intake!QuotaIsExact
<1>10. Intake!LocksHold'
  BY <1>0, <1>1 DEF Intake!LocksHold, Intake!HoldsKey, Intake!HoldsUser, Intake!Spent
<1> QED BY <1>5, <1>7, <1>8, <1>9, <1>10 DEF Intake!IntakeInv, Intake!IntakeSafety

\* The browser's other steps change what it shows and what is on the wire.
LEMMA BrowserInv ==
    ASSUME Intake!IntakeInv,
           Intake!Open \/ Intake!Drop \/ \E r \in Web : Intake!Reconcile(r)
    PROVE  Intake!IntakeInv'
<1> USE DEF Intake!durable
<1>0. /\ Intake!TypeOK /\ Intake!FrozenTravels /\ Intake!LocksHold /\ Intake!AcknowledgedIsDurable
  BY DEF Intake!IntakeInv, Intake!IntakeSafety
<1>1. UNCHANGED <<envelope, order, turn, queued, paidIn, used, period, elapsed, tx, admin, acked>>
  BY DEF Intake!Open, Intake!Drop, Intake!Reconcile
<1>2. Intake!LocksHold'
  BY <1>0, <1>1 DEF Intake!LocksHold, Intake!HoldsKey, Intake!HoldsUser, Intake!Spent
<1>3. /\ socket' \in 0 .. MaxSockets /\ link' \in {"down", "up", "stopped"}
      /\ line' \in [Web -> {"draft", "unknown", "accepted", "rejected"}]
  <2>1. CASE Intake!Open
    BY <1>0, <2>1, IntakeAssumption DEF Intake!TypeOK, Intake!Open
  <2>2. CASE Intake!Drop
    BY <1>0, <2>2 DEF Intake!TypeOK, Intake!Drop
  <2>3. CASE \E r \in Web : Intake!Reconcile(r)
    BY <1>0, <2>3 DEF Intake!TypeOK, Intake!Reconcile
  <2> QED BY <2>1, <2>2, <2>3
<1>4. \A r \in Web : /\ line'[r] # "draft" => envelope[r] # NoBody
                     /\ line'[r] = "accepted" => turn[r] # NoBody
  <2>1. \A r \in Web : line'[r] = line[r] \/ turn[r] # NoBody
    BY <1>0 DEF Intake!TypeOK, Intake!Open, Intake!Drop, Intake!Reconcile
  <2>2. \A r \in Web : turn[r] # NoBody => envelope[r] # NoBody
    BY <1>0 DEF Intake!FrozenTravels
  <2> QED BY <1>0, <2>1, <2>2 DEF Intake!FrozenTravels, Intake!AcknowledgedIsDurable
<1>5. inbox' \in [Intake!Socket -> Seq(Intake!Frame)]
  <2>0. inbox \in [Intake!Socket -> Seq(Intake!Frame)]
    BY <1>0 DEF Intake!FrozenTravels
  <2>1. CASE Intake!Open
    <3> DEFINE again == [i \in DOMAIN Intake!Pending |-> <<Intake!Pending[i], envelope[Intake!Pending[i]]>>]
    <3>1. Intake!Pending \in Seq({r \in Web : line[r] = "unknown"})
      BY <1>0, PendingIsUnknown DEF Intake!TypeOK
    <3>2. \A r \in Web : line[r] = "unknown" => <<r, envelope[r]>> \in Intake!Frame
      BY <1>0 DEF Intake!FrozenTravels, Intake!Frame
    <3>3. again \in Seq(Intake!Frame)
      BY <3>1, <3>2
    <3>4. inbox' = [inbox EXCEPT ![socket + 1] = again]
      BY <2>1 DEF Intake!Open
    <3> HIDE DEF again
    <3> QED BY <2>0, <3>3, <3>4
  <2>2. CASE Intake!Drop
    <3>1. PICK n \in 0 .. Len(inbox[socket]) : inbox' = [inbox EXCEPT ![socket] = SubSeq(@, 1, n)]
      BY <2>2 DEF Intake!Drop
    <3>2. CASE socket \in Intake!Socket
      <4>1. inbox[socket] \in Seq(Intake!Frame)
        BY <2>0, <3>2
      <4>2. SubSeq(inbox[socket], 1, n) \in Seq(Intake!Frame)
        BY <4>1
      <4> QED BY <2>0, <3>1, <4>2
    <3>3. CASE socket \notin Intake!Socket
      BY <2>0, <3>1, <3>3
    <3> QED BY <3>2, <3>3
  <2>3. CASE \E r \in Web : Intake!Reconcile(r)
    BY <2>0, <2>3 DEF Intake!Reconcile
  <2> QED BY <2>1, <2>2, <2>3
<1>6. /\ tx' \in [Intake!Handler -> Intake!Place] /\ order' \in Seq(Web)
      /\ \A s \in Intake!Socket : tx'[s].pc # "idle" => <<tx'[s].req, tx'[s].body>> \in Intake!Frame
      /\ \A h \in Hook : tx'[h].pc # "idle" => tx'[h].req \in Event /\ tx'[h].body \in Body
      /\ \A e \in acked' : turn[e] # NoBody
  BY <1>0, <1>1 DEF Intake!TypeOK, Intake!FrozenTravels, Intake!AcknowledgedIsDurable
<1> QED BY <1>1, <1>2, <1>3, <1>4, <1>5, <1>6, NothingCommitted

\* A request begins, by a frame or a delivery, and holds nothing yet.
LEMMA BeginInv ==
    ASSUME Intake!IntakeInv,
           \/ \E s \in Intake!Socket : Intake!Take(s)
           \/ \E h \in Hook, e \in Event, b \in Body : Intake!Post(h, e, b)
    PROVE  Intake!IntakeInv'
<1> USE DEF Intake!durable, Intake!browser
<1>0. /\ Intake!TypeOK /\ Intake!FrozenTravels /\ Intake!LocksHold /\ Intake!AcknowledgedIsDurable
      /\ Hook \cap Intake!Socket = {} /\ Intake!Frame \subseteq Web \X Body
  BY IntakeAssumption
     DEF Intake!IntakeInv, Intake!IntakeSafety, Intake!Socket, Intake!Frame, Intake!TypeOK
<1>1. PICK h \in Intake!Handler, x \in Intake!Place :
          /\ tx' = [tx EXCEPT ![h] = x]
          /\ \/ /\ h \in Intake!Socket /\ x.pc \in {"lock", "answer"} /\ <<x.req, x.body>> \in Intake!Frame
                /\ inbox[h] # << >> /\ inbox' = [inbox EXCEPT ![h] = Tail(@)]
             \/ /\ h \in Hook /\ x.pc \in {"receipt", "answer"} /\ x.req \in Event /\ x.body \in Body
                /\ inbox' = inbox
          /\ x.pc = "answer" => x.out \in {"rejected", "stopped"}
  <2>1. CASE \E s \in Intake!Socket : Intake!Take(s)
    <3>0. PICK s \in Intake!Socket : Intake!Take(s)
      BY <2>1
    <3>1. PICK out \in {"none", "stopped"} :
              /\ tx' = [tx EXCEPT ![s] = [pc |-> IF out = "none" THEN "lock" ELSE "answer",
                          req |-> Head(inbox[s])[1], body |-> Head(inbox[s])[2], out |-> out]]
              /\ inbox[s] # << >> /\ inbox' = [inbox EXCEPT ![s] = Tail(@)]
      BY <3>0 DEF Intake!Take
    <3>2. Head(inbox[s]) \in Intake!Frame
      <4>1. inbox[s] \in Seq(Intake!Frame) /\ inbox[s] # << >>
        BY <1>0, <3>1 DEF Intake!FrozenTravels
      <4> QED BY <4>1, FirstAndRest
    <3> DEFINE x == [pc |-> IF out = "none" THEN "lock" ELSE "answer",
                     req |-> Head(inbox[s])[1], body |-> Head(inbox[s])[2], out |-> out]
    <3>3. x \in Intake!Place /\ <<x.req, x.body>> \in Intake!Frame
      BY <1>0, <3>2 DEF Intake!Place, Intake!Request
    <3>4. x.pc \in {"lock", "answer"} /\ (x.pc = "answer" => x.out \in {"rejected", "stopped"})
      OBVIOUS
    <3> HIDE DEF x
    <3> QED BY <3>1, <3>3, <3>4 DEF Intake!Handler, x
  <2>2. CASE \E h \in Hook, e \in Event, b \in Body : Intake!Post(h, e, b)
    <3>1. PICK h \in Hook, e \in Event, b \in Body, out \in {"none", "rejected"} :
              /\ tx' = [tx EXCEPT ![h] = [pc |-> IF out = "none" THEN "receipt" ELSE "answer",
                                          req |-> e, body |-> b, out |-> out]]
              /\ inbox' = inbox
      BY <2>2 DEF Intake!Post
    <3> DEFINE x == [pc |-> IF out = "none" THEN "receipt" ELSE "answer", req |-> e, body |-> b, out |-> out]
    <3>2. x \in Intake!Place /\ x.req \in Event /\ x.body \in Body
      BY DEF Intake!Place, Intake!Request
    <3>3. x.pc \in {"receipt", "answer"} /\ (x.pc = "answer" => x.out \in {"rejected", "stopped"})
      OBVIOUS
    <3> HIDE DEF x
    <3> QED BY <3>1, <3>2, <3>3 DEF Intake!Handler, x
  <2> QED BY <2>1, <2>2
<1>2. UNCHANGED <<envelope, order, line, socket, link, turn, queued, paidIn, used, period, elapsed, admin, acked>>
  BY DEF Intake!Take, Intake!Post
<1>3. tx \in [Intake!Handler -> Intake!Place] /\ tx'[h] = x /\ \A g \in Intake!Handler \ {h} : tx'[g] = tx[g]
  BY <1>0, <1>1 DEF Intake!TypeOK
<1>4. Intake!LocksHold'
  <2>1. ~Intake!HoldsUser(h)' /\ \A r : ~Intake!HoldsKey(h, r)'
    BY <1>0, <1>1, <1>3 DEF Intake!HoldsUser, Intake!HoldsKey
  <2>2. acked' \subseteq Event
    BY <1>0, <1>2 DEF Intake!LocksHold
  <2> QED BY <1>1, <1>2, <2>1, <2>2, HandlerMoves
<1>5. inbox' \in [Intake!Socket -> Seq(Intake!Frame)]
  <2>1. inbox \in [Intake!Socket -> Seq(Intake!Frame)]
    BY <1>0 DEF Intake!FrozenTravels
  <2>2. ASSUME h \in Intake!Socket, inbox[h] # << >> PROVE Tail(inbox[h]) \in Seq(Intake!Frame)
    BY <2>1, <2>2
  <2> QED BY <1>0, <1>1, <2>1, <2>2
<1>6. /\ \A s \in Intake!Socket : tx'[s].pc # "idle" => <<tx'[s].req, tx'[s].body>> \in Intake!Frame
      /\ \A g \in Hook : tx'[g].pc # "idle" => tx'[g].req \in Event /\ tx'[g].body \in Body
  BY <1>0, <1>1, <1>3 DEF Intake!FrozenTravels, Intake!Handler
<1>7. /\ tx' \in [Intake!Handler -> Intake!Place] /\ order' \in Seq(Web)
      /\ socket' \in 0 .. MaxSockets /\ link' \in {"down", "up", "stopped"}
      /\ line' \in [Web -> {"draft", "unknown", "accepted", "rejected"}]
  BY <1>0, <1>1, <1>2 DEF Intake!TypeOK
<1>8. /\ \A r \in Web : /\ line'[r] # "draft" => envelope[r] # NoBody
                        /\ line'[r] = "accepted" => turn[r] # NoBody
      /\ \A e \in acked' : turn[e] # NoBody
  BY <1>0, <1>2 DEF Intake!FrozenTravels, Intake!AcknowledgedIsDurable
<1> QED BY <1>2, <1>4, <1>5, <1>6, <1>7, <1>8, NothingCommitted

\* A handler is done and answers: on its socket, or to the provider.
LEMMA AnswerInv ==
    ASSUME Intake!IntakeInv,
           \/ \E s \in Intake!Socket : Intake!Answer(s)
           \/ \E h \in Hook : Intake!Respond(h)
    PROVE  Intake!IntakeInv'
<1> USE DEF Intake!durable, Intake!browser
<1>0. /\ Intake!TypeOK /\ Intake!FrozenTravels /\ Intake!LocksHold /\ Intake!AcknowledgedIsDurable
  BY DEF Intake!IntakeInv, Intake!IntakeSafety
<1>1. PICK h \in Intake!Handler :
          /\ tx[h].pc = "answer" /\ tx' = [tx EXCEPT ![h] = Intake!Idle]
          /\ \/ h \in Intake!Socket /\ Intake!Answer(h)
             \/ h \in Hook /\ Intake!Respond(h)
  BY DEF Intake!Answer, Intake!Respond, Intake!Handler
<1>2. UNCHANGED <<envelope, order, socket, turn, queued, paidIn, used, period, elapsed, admin>>
  BY <1>1 DEF Intake!Answer, Intake!Respond
<1>3. /\ Intake!Idle \in Intake!Place /\ Intake!Idle.pc = "idle"
      /\ tx \in [Intake!Handler -> Intake!Place] /\ tx'[h] = Intake!Idle
      /\ \A g \in Intake!Handler \ {h} : tx'[g] = tx[g]
  BY <1>0, <1>1 DEF Intake!TypeOK, Intake!Place, Intake!Idle
<1>4. tx[h].out \in {"accepted", "rejected", "stopped"} /\ (tx[h].out = "accepted" => turn[tx[h].req] # NoBody)
  BY <1>0, <1>1, <1>3 DEF Intake!LocksHold, Intake!Place
<1>5. /\ acked' \subseteq Event /\ \A e \in acked' : turn[e] # NoBody
  <2>1. CASE h \in Intake!Socket /\ Intake!Answer(h)
    BY <1>0, <2>1 DEF Intake!Answer, Intake!LocksHold, Intake!AcknowledgedIsDurable
  <2>2. CASE h \in Hook /\ Intake!Respond(h)
    <3>1. tx[h].req \in Event
      BY <1>0, <1>1, <2>2 DEF Intake!FrozenTravels
    <3> QED BY <1>0, <1>4, <2>2, <3>1 DEF Intake!Respond, Intake!LocksHold, Intake!AcknowledgedIsDurable
  <2> QED BY <1>1, <2>1, <2>2
<1>6. Intake!LocksHold'
  <2>1. ~Intake!HoldsUser(h)' /\ \A r : ~Intake!HoldsKey(h, r)'
    BY <1>3 DEF Intake!HoldsUser, Intake!HoldsKey
  <2> QED BY <1>1, <1>2, <1>3, <1>5, <2>1, HandlerMoves
<1>7. inbox' \in [Intake!Socket -> Seq(Intake!Frame)]
  <2>1. inbox' \in {inbox, [inbox EXCEPT ![h] = << >>]}
    BY <1>1 DEF Intake!Answer, Intake!Respond
  <2>2. inbox \in [Intake!Socket -> Seq(Intake!Frame)] /\ << >> \in Seq(Intake!Frame)
    BY <1>0 DEF Intake!FrozenTravels
  <2> QED BY <2>1, <2>2
<1>8. link' \in {"down", "up", "stopped"}
  BY <1>0, <1>1 DEF Intake!TypeOK, Intake!Answer, Intake!Respond
<1>9. /\ line' \in [Web -> {"draft", "unknown", "accepted", "rejected"}]
      /\ \A r \in Web : /\ line'[r] # "draft" => envelope[r] # NoBody
                        /\ line'[r] = "accepted" => turn[r] # NoBody
  <2>0. /\ line \in [Web -> {"draft", "unknown", "accepted", "rejected"}]
        /\ \A r \in Web : /\ line[r] # "draft" => envelope[r] # NoBody
                          /\ line[r] = "accepted" => turn[r] # NoBody
    BY <1>0 DEF Intake!TypeOK, Intake!FrozenTravels, Intake!AcknowledgedIsDurable
  <2>1. CASE line' = line
    BY <2>0, <2>1
  <2>2. CASE line' # line
    <3> DEFINE r == tx[h].req
               out == tx[h].out
    <3>1. h \in Intake!Socket /\ line' = [line EXCEPT ![r] = out] /\ out # "stopped"
      BY <1>1, <2>2 DEF Intake!Answer, Intake!Respond
    <3>2. <<r, tx[h].body>> \in Intake!Frame
      BY <1>0, <1>1, <3>1 DEF Intake!FrozenTravels
    <3>3. r \in Web /\ envelope[r] # NoBody
      BY <3>2 DEF Intake!Frame
    <3>4. out \in {"accepted", "rejected"} /\ (out = "accepted" => turn[r] # NoBody)
      BY <1>4, <3>1
    <3> HIDE DEF r, out
    <3> QED BY <2>0, <3>1, <3>3, <3>4
  <2> QED BY <2>1, <2>2
<1>10. /\ tx' \in [Intake!Handler -> Intake!Place] /\ order' \in Seq(Web) /\ socket' \in 0 .. MaxSockets
       /\ \A s \in Intake!Socket : tx'[s].pc # "idle" => <<tx'[s].req, tx'[s].body>> \in Intake!Frame
       /\ \A g \in Hook : tx'[g].pc # "idle" => tx'[g].req \in Event /\ tx'[g].body \in Body
  BY <1>0, <1>1, <1>2, <1>3 DEF Intake!TypeOK, Intake!FrozenTravels, Intake!Handler
<1> QED BY <1>2, <1>5, <1>6, <1>7, <1>8, <1>9, <1>10, NothingCommitted

\* The process dies: nobody holds anything.
LEMMA CrashInv ==
    ASSUME Intake!IntakeInv, Intake!Crash PROVE Intake!IntakeInv'
<1> USE DEF Intake!durable, Intake!Crash
<1>0. /\ Intake!TypeOK /\ Intake!FrozenTravels /\ Intake!LocksHold /\ Intake!AcknowledgedIsDurable
  BY DEF Intake!IntakeInv, Intake!IntakeSafety
<1>1. /\ tx' = [h \in Intake!Handler |-> Intake!Idle] /\ Intake!Idle \in Intake!Place /\ Intake!Idle.pc = "idle"
      /\ \A h \in Intake!Handler : tx'[h] = Intake!Idle
  BY DEF Intake!Place, Intake!Idle
<1>2. \A h \in Intake!Handler : ~Intake!HoldsUser(h)' /\ \A r : ~Intake!HoldsKey(h, r)'
  BY <1>1 DEF Intake!HoldsUser, Intake!HoldsKey
<1>3. Intake!LocksHold'
  BY <1>0, <1>1, <1>2 DEF Intake!LocksHold
<1>4. inbox' \in [Intake!Socket -> Seq(Intake!Frame)] /\ tx' \in [Intake!Handler -> Intake!Place]
  <2>1. << >> \in Seq(Intake!Frame)
    OBVIOUS
  <2> QED BY <1>1, <2>1
<1>5. /\ link' \in {"down", "up", "stopped"} /\ order' \in Seq(Web) /\ socket' \in 0 .. MaxSockets
      /\ line' \in [Web -> {"draft", "unknown", "accepted", "rejected"}]
  BY <1>0 DEF Intake!TypeOK
<1>6. /\ \A r \in Web : /\ line'[r] # "draft" => envelope[r] # NoBody
                        /\ line'[r] = "accepted" => turn[r] # NoBody
      /\ \A e \in acked' : turn[e] # NoBody
  BY <1>0 DEF Intake!FrozenTravels, Intake!AcknowledgedIsDurable
<1>7. /\ \A s \in Intake!Socket : tx'[s].pc = "idle"
      /\ \A h \in Hook : tx'[h].pc = "idle"
  BY <1>1 DEF Intake!Handler
<1> QED BY <1>3, <1>4, <1>5, <1>6, <1>7, NothingCommitted

\* The quota's period passes, while nobody holds the user's row.
LEMMA PeriodElapsesInv ==
    ASSUME Intake!IntakeInv, Intake!PeriodElapses PROVE Intake!IntakeInv'
<1> USE DEF Intake!browser, Intake!PeriodElapses
<1>0. /\ Intake!TypeOK /\ Intake!FrozenTravels /\ Intake!LocksHold /\ Intake!AcknowledgedIsDurable
  BY DEF Intake!IntakeInv, Intake!IntakeSafety
<1>1. \A h \in Intake!Handler : ~Intake!HoldsUser(h)' /\ \A r : Intake!HoldsKey(h, r)' <=> Intake!HoldsKey(h, r)
  BY DEF Intake!HoldsUser, Intake!HoldsKey
<1>2. Intake!LocksHold'
  BY <1>0, <1>1 DEF Intake!LocksHold
<1> QED BY <1>0, <1>2, NothingCommitted
    DEF Intake!TypeOK, Intake!FrozenTravels, Intake!AcknowledgedIsDurable

\* A commit: the request had no row and the limit was not reached; what the
\* counter counts gains this request, or is this request in a new period.
LEMMA CommitInv ==
    ASSUME Intake!IntakeInv, NEW h \in Intake!Handler, NEW out \in {"accepted", "rejected"},
           Intake!Commit(h, out)
    PROVE  Intake!IntakeInv'
<1> USE DEF Intake!browser
<1> DEFINE r == tx[h].req
           now == IF elapsed THEN period + 1 ELSE period
           Paid == {q \in Intake!Request : paidIn[q] = period}
<1>0. /\ Intake!TypeOK /\ Intake!FrozenTravels /\ Intake!LocksHold
      /\ Intake!EachOnce /\ Intake!QuotaIsExact /\ Intake!AcknowledgedIsDurable
  BY DEF Intake!IntakeInv, Intake!IntakeSafety
<1>1. /\ tx[h].pc = "insert" /\ tx' = [tx EXCEPT ![h].pc = "answer", ![h].out = out]
      /\ turn' = [turn EXCEPT ![r] = tx[h].body] /\ queued' = [queued EXCEPT ![r] = @ + 1]
      /\ UNCHANGED <<envelope, order, line, socket, link, inbox, admin, acked>>
  BY DEF Intake!Commit, Intake!Effects, Intake!End
<1>2. /\ tx \in [Intake!Handler -> Intake!Place] /\ tx' \in [Intake!Handler -> Intake!Place]
      /\ tx'[h].pc = "answer" /\ tx'[h].out = out /\ tx'[h].req = r /\ tx'[h].body = tx[h].body
      /\ \A g \in Intake!Handler \ {h} : tx'[g] = tx[g]
  <2>1. tx \in [Intake!Handler -> Intake!Place]
    BY <1>0 DEF Intake!TypeOK
  <2>2. [tx[h] EXCEPT !.pc = "answer", !.out = out] \in Intake!Place
    BY <2>1 DEF Intake!Place
  <2> QED BY <1>1, <2>1, <2>2
<1>3. /\ r \in Intake!Request /\ tx[h].body \in Body /\ Hook \cap Intake!Socket = {}
      /\ h \in Intake!Socket => r \in Web /\ tx[h].body = envelope[r]
      /\ h \in Hook => r \in Event /\ r \notin Web
  <2>1. CASE h \in Intake!Socket
    <3>1. <<r, tx[h].body>> \in Intake!Frame
      BY <1>0, <1>1, <2>1 DEF Intake!FrozenTravels
    <3>2. r \in Web /\ tx[h].body = envelope[r] /\ envelope[r] # NoBody
      BY <3>1 DEF Intake!Frame
    <3>3. h \notin Hook /\ Hook \cap Intake!Socket = {}
      BY <2>1, IntakeAssumption DEF Intake!Socket
    <3> QED BY <1>0, <2>1, <3>2, <3>3 DEF Intake!Request, Intake!TypeOK
  <2>2. CASE h \in Hook
    BY <1>0, <1>1, <2>2, IntakeAssumption DEF Intake!FrozenTravels, Intake!Request, Intake!Socket
  <2> QED BY <2>1, <2>2 DEF Intake!Handler
<1>4. /\ Intake!HoldsKey(h, r) /\ turn[r] = NoBody
      /\ \A g \in Intake!Handler \ {h} : ~Intake!HoldsKey(g, r)
  <2>1. Intake!HoldsKey(h, r)
    BY <1>1 DEF Intake!HoldsKey
  <2> QED BY <1>0, <1>3, <2>1 DEF Intake!LocksHold
<1>5. /\ turn'[r] = tx[h].body /\ turn'[r] # NoBody
      /\ \A q \in Intake!Request \ {r} : turn'[q] = turn[q]
      /\ turn' \in [Intake!Request -> Body \cup {NoBody}]
      /\ queued' \in [Intake!Request -> Nat] /\ queued'[r] = 1
      /\ \A q \in Intake!Request \ {r} : queued'[q] = queued[q]
  BY <1>0, <1>1, <1>3, <1>4, IntakeAssumption DEF Intake!TypeOK, Intake!EachOnce
<1>6. /\ \A g \in Intake!Handler \ {h} : /\ Intake!HoldsUser(g)' <=> Intake!HoldsUser(g)
                                        /\ \A q : Intake!HoldsKey(g, q)' <=> Intake!HoldsKey(g, q)
      /\ ~Intake!HoldsUser(h)' /\ \A q : ~Intake!HoldsKey(h, q)'
  BY <1>1, <1>2 DEF Intake!HoldsUser, Intake!HoldsKey
<1>7. \A q \in Intake!Request : turn[q] # NoBody => turn'[q] = turn[q]
  BY <1>4, <1>5
<1>8. /\ \A q \in Web : turn'[q] # NoBody => turn'[q] = envelope'[q]
      /\ \A g \in Intake!Handler : tx'[g].pc = "answer" =>
            tx'[g].out # "none" /\ (tx'[g].out = "accepted" => turn'[tx'[g].req] # NoBody)
  <2>1. \A q \in Web : turn'[q] # NoBody => turn'[q] = envelope'[q]
    BY <1>0, <1>1, <1>3, <1>5 DEF Intake!FrozenTravels, Intake!Request, Intake!Handler
  <2>2. tx'[h].out # "none" /\ turn'[tx'[h].req] # NoBody
    BY <1>2, <1>5
  <2>3. ASSUME NEW g \in Intake!Handler \ {h}, tx[g].pc = "answer"
        PROVE  tx[g].out # "none" /\ (tx[g].out = "accepted" => turn'[tx[g].req] # NoBody)
    <3>1. tx[g].req \in Intake!Request
      BY <1>0, <2>3 DEF Intake!FrozenTravels, Intake!Frame, Intake!Handler, Intake!Request
    <3> QED BY <1>0, <1>7, <2>3, <3>1 DEF Intake!LocksHold
  <2> QED BY <1>2, <2>1, <2>2, <2>3
<1>9. Intake!AcknowledgedIsDurable'
  BY <1>0, <1>1, <1>7 DEF Intake!AcknowledgedIsDurable, Intake!LocksHold, Intake!Request
<1>10. Intake!FrozenTravels'
  <2>1. Intake!Frame' = Intake!Frame
    BY <1>1 DEF Intake!Frame
  <2>2. /\ \A s \in Intake!Socket : tx'[s].pc # "idle" => <<tx'[s].req, tx'[s].body>> \in Intake!Frame
        /\ \A g \in Hook : tx'[g].pc # "idle" => tx'[g].req \in Event /\ tx'[g].body \in Body
    <3>1. \A g \in Intake!Handler : /\ tx'[g].req = tx[g].req /\ tx'[g].body = tx[g].body
                                    /\ tx'[g].pc # "idle" => tx[g].pc # "idle"
      BY <1>1, <1>2
    <3> QED BY <1>0, <3>1 DEF Intake!FrozenTravels, Intake!Handler
  <2> QED BY <1>0, <1>1, <1>8, <2>1, <2>2 DEF Intake!FrozenTravels
<1>11. CASE admin
  <2>1. UNCHANGED <<paidIn, used, period, elapsed>>
    BY <1>11 DEF Intake!Commit, Intake!Effects
  <2>2. Intake!TypeOK'
    BY <1>0, <1>1, <1>2, <1>5, <2>1 DEF Intake!TypeOK
  <2>3. Intake!EachOnce' /\ Intake!QuotaIsExact'
    BY <1>0, <1>1, <1>4, <1>5, <1>11, <2>1 DEF Intake!EachOnce, Intake!QuotaIsExact
  <2>4. Intake!LocksHold'
    <3>1. \A f, g \in Intake!Handler : \A q \in Intake!Request :
              Intake!HoldsKey(f, q)' /\ Intake!HoldsKey(g, q)' => f = g /\ turn'[q] = NoBody
      BY <1>0, <1>4, <1>5, <1>6 DEF Intake!LocksHold
    <3>2. \A f \in Intake!Handler : ~Intake!HoldsUser(f)'
      BY <1>1, <1>11 DEF Intake!HoldsUser
    <3>3. /\ \A q \in Intake!Request : paidIn'[q] <= period'
          /\ elapsed' \in BOOLEAN /\ (elapsed' => period' < MaxPeriods)
          /\ admin' \in BOOLEAN /\ acked' \subseteq Event
      BY <1>0, <1>1, <2>1 DEF Intake!LocksHold
    <3> QED BY <1>8, <3>1, <3>2, <3>3 DEF Intake!LocksHold
  <2> QED BY <1>9, <1>10, <2>2, <2>3, <2>4 DEF Intake!IntakeInv, Intake!IntakeSafety
<1>12. CASE ~admin
  <2>1. /\ paidIn' = [paidIn EXCEPT ![r] = now]
        /\ used' = Intake!Spent + 1 /\ period' = now /\ elapsed' = FALSE
    BY <1>12 DEF Intake!Commit, Intake!Effects
  <2>2. Intake!Spent < QuotaLimit /\ \A g \in Intake!Handler \ {h} : ~Intake!HoldsUser(g)
    <3>1. Intake!HoldsUser(h)
      BY <1>1, <1>12 DEF Intake!HoldsUser
    <3> QED BY <1>0, <3>1 DEF Intake!LocksHold
  <2>3. /\ period \in 1 .. MaxPeriods /\ now \in 1 .. MaxPeriods /\ period <= now
        /\ used \in Nat /\ Intake!Spent \in Nat
    BY <1>0, IntakeAssumption DEF Intake!TypeOK, Intake!LocksHold, Intake!Spent
  <2>4. /\ paidIn \in [Intake!Request -> 0 .. MaxPeriods] /\ paidIn' \in [Intake!Request -> 0 .. MaxPeriods]
        /\ paidIn[r] = 0 /\ paidIn'[r] = now
        /\ \A q \in Intake!Request \ {r} : paidIn'[q] = paidIn[q]
    <3>1. paidIn \in [Intake!Request -> 0 .. MaxPeriods]
      BY <1>0 DEF Intake!TypeOK
    <3>2. paidIn[r] = 0
      BY <1>0, <1>3, <1>4 DEF Intake!EachOnce
    <3>3. now \in 0 .. MaxPeriods
      BY <2>3
    <3> HIDE DEF now, r
    <3> QED BY <1>3, <2>1, <3>1, <3>2, <3>3
  <2>5. Intake!TypeOK'
    <3>1. used' \in Nat /\ period' \in 1 .. MaxPeriods
      BY <2>1, <2>3
    <3> QED BY <1>0, <1>1, <1>2, <1>5, <2>4, <3>1 DEF Intake!TypeOK
  <2>6. Intake!EachOnce'
    <3>1. \A q \in Intake!Request \ {r} : (paidIn'[q] # 0) <=> (turn'[q] # NoBody /\ ~admin')
      BY <1>0, <1>1, <1>5, <2>4 DEF Intake!EachOnce
    <3>2. paidIn'[r] # 0 /\ turn'[r] # NoBody /\ ~admin'
      BY <1>1, <1>5, <1>12, <2>3, <2>4
    <3>3. \A q \in Intake!Request : queued'[q] = IF turn'[q] = NoBody THEN 0 ELSE 1
      BY <1>0, <1>5 DEF Intake!EachOnce
    <3> QED BY <3>1, <3>2, <3>3 DEF Intake!EachOnce
  <2>7. used' = Cardinality({q \in Intake!Request : paidIn'[q] = period'})
    <3>1. {q \in Intake!Request : paidIn'[q] = period'} = {q \in Intake!Request : paidIn[q] = now} \cup {r}
      BY <1>3, <2>1, <2>4
    <3>2. r \notin Paid /\ IsFiniteSet(Paid)
      <4>1. IsFiniteSet(Intake!Request)
        BY IntakeAssumption, FS_Union DEF Intake!Request
      <4>2. Paid \subseteq Intake!Request
        OBVIOUS
      <4>3. IsFiniteSet(Paid)
        BY <4>1, <4>2, FS_Subset
      <4> QED BY <2>3, <2>4, <4>3
    <3>3. used = Cardinality(Paid)
      BY <1>0, IntakeCount DEF Intake!QuotaIsExact
    <3>4. CASE elapsed
      <4>1. {q \in Intake!Request : paidIn[q] = now} = {}
        BY <1>0, <2>3, <2>4, <3>4 DEF Intake!LocksHold
      <4>2. used' = 1
        BY <2>1, <3>4 DEF Intake!Spent
      <4> HIDE DEF now, r
      <4>3. {q \in Intake!Request : paidIn'[q] = period'} = {r}
        BY <3>1, <4>1
      <4>4. Cardinality({r}) = 1
        BY FS_Singleton
      <4> QED BY <4>2, <4>3, <4>4
    <3>5. CASE ~elapsed
      <4>1. {q \in Intake!Request : paidIn'[q] = period'} = Paid \cup {r}
        BY <3>1, <3>5
      <4>2. used' = used + 1
        BY <2>1, <3>5 DEF Intake!Spent
      <4> HIDE DEF Paid, r
      <4>3. Cardinality(Paid \cup {r}) = Cardinality(Paid) + 1
        BY <3>2, FS_AddElement
      <4> QED BY <3>3, <4>1, <4>2, <4>3
    <3> QED BY <3>4, <3>5
  <2>8. Intake!QuotaIsExact'
    <3>1. used' <= QuotaLimit
      BY <2>1, <2>2, <2>3, IntakeAssumption
    <3> QED BY <2>7, <3>1, IntakeCount DEF Intake!QuotaIsExact
  <2>9. Intake!LocksHold'
    <3>1. \A f, g \in Intake!Handler : \A q \in Intake!Request :
              Intake!HoldsKey(f, q)' /\ Intake!HoldsKey(g, q)' => f = g /\ turn'[q] = NoBody
      BY <1>0, <1>4, <1>5, <1>6 DEF Intake!LocksHold
    <3>2. \A f \in Intake!Handler : ~Intake!HoldsUser(f)'
      BY <1>6, <2>2
    <3>3. \A q \in Intake!Request : paidIn'[q] <= period'
      BY <1>0, <2>1, <2>3, <2>4 DEF Intake!LocksHold
    <3>4. admin' \in BOOLEAN /\ acked' \subseteq Event /\ elapsed' = FALSE
      BY <1>0, <1>1, <2>1 DEF Intake!LocksHold
    <3> QED BY <1>8, <3>1, <3>2, <3>3, <3>4 DEF Intake!LocksHold
  <2> QED BY <1>9, <1>10, <2>5, <2>6, <2>8, <2>9 DEF Intake!IntakeInv, Intake!IntakeSafety
<1> QED BY <1>11, <1>12

-----------------------------------------------------------------------------
(* Acceptance of turns: what holds.                                           *)

LEMMA IntakeInit == Intake!Init => Intake!IntakeInv
<1> SUFFICES ASSUME Intake!Init PROVE Intake!IntakeInv
    OBVIOUS
<1> USE DEF Intake!Init
<1>1. Intake!Idle \in Intake!Place /\ Intake!Idle.pc = "idle"
  BY DEF Intake!Idle, Intake!Place
<1>2. << >> \in Seq(Web) /\ << >> \in Seq(Web \X Body) /\ << >> \in Seq(Intake!Frame)
  OBVIOUS
<1>3. Intake!TypeOK
  BY <1>1, <1>2, IntakeAssumption DEF Intake!TypeOK
<1>4. Intake!EachOnce /\ Intake!AcknowledgedIsDurable
  BY DEF Intake!EachOnce, Intake!AcknowledgedIsDurable
<1>5. Intake!QuotaIsExact
  <2>1. {q \in Intake!Request : paidIn[q] = period} = {}
    OBVIOUS
  <2>2. Cardinality({}) = 0
    BY FS_EmptySet
  <2>3. used = 0 /\ used <= QuotaLimit
    BY IntakeAssumption
  <2>4. Intake!Cardinality({q \in Intake!Request : paidIn[q] = period}) = 0
    BY <2>1, <2>2, IntakeCount
  <2> QED BY <2>3, <2>4 DEF Intake!QuotaIsExact
<1>6. Intake!FrozenTravels
  <2>1. Hook \subseteq Intake!Handler /\ Intake!Socket \subseteq Intake!Handler /\ Web \subseteq Intake!Request
    BY DEF Intake!Handler, Intake!Request
  <2> QED BY <1>1, <1>2, <2>1 DEF Intake!FrozenTravels
<1>7. \A h \in Intake!Handler : tx[h].pc = "idle"
  BY <1>1
<1>8. \A h \in Intake!Handler : ~Intake!HoldsUser(h) /\ \A r : ~Intake!HoldsKey(h, r)
  BY <1>7 DEF Intake!HoldsUser, Intake!HoldsKey
<1>9. Intake!LocksHold
  <2>1. /\ \A r \in Intake!Request : paidIn[r] <= period
        /\ elapsed = FALSE /\ admin \in BOOLEAN /\ acked \subseteq Event
    OBVIOUS
  <2> QED BY <1>7, <1>8, <2>1 DEF Intake!LocksHold
<1> QED BY <1>3, <1>4, <1>5, <1>6, <1>9 DEF Intake!IntakeInv, Intake!IntakeSafety

LEMMA IntakeStep == Intake!IntakeInv /\ [Intake!Next]_(Intake!vars) => Intake!IntakeInv'
<1> SUFFICES ASSUME Intake!IntakeInv, [Intake!Next]_(Intake!vars) PROVE Intake!IntakeInv'
    OBVIOUS
<1>0. Intake!Socket \subseteq Intake!Handler /\ Hook \subseteq Intake!Handler
  BY DEF Intake!Handler
<1>1. ASSUME NEW r \in Web, NEW b \in Body, Intake!Submit(r, b) PROVE Intake!IntakeInv'
  BY <1>1, SubmitInv
<1>2. CASE Intake!Open \/ Intake!Drop \/ \E r \in Web : Intake!Reconcile(r)
  BY <1>2, BrowserInv
<1>3. CASE Intake!Crash
  BY <1>3, CrashInv
<1>4. CASE Intake!PeriodElapses
  BY <1>4, PeriodElapsesInv
<1>5. CASE \/ \E s \in Intake!Socket : Intake!Take(s)
           \/ \E h \in Hook, e \in Event, b \in Body : Intake!Post(h, e, b)
  BY <1>5, BeginInv
<1>6. CASE (\E s \in Intake!Socket : Intake!Answer(s)) \/ \E h \in Hook : Intake!Respond(h)
  BY <1>6, AnswerInv
<1>7. ASSUME NEW h \in Intake!Handler, NEW out \in {"accepted", "rejected"}, Intake!Commit(h, out)
      PROVE  Intake!IntakeInv'
  BY <1>7, CommitInv
<1>8. ASSUME NEW h \in Intake!Handler,
             \/ Intake!ReserveReceipt(h) \/ Intake!LockSession(h) \/ Intake!Charge(h)
             \/ h \in Intake!Socket /\ (Intake!Check(h) \/ Intake!Reserve(h))
             \/ \E out \in {"rejected", "stopped"} : Intake!Fail(h, out)
      PROVE  Intake!IntakeInv'
  BY <1>8, TransactionInv
<1>9. CASE UNCHANGED Intake!vars
  BY <1>9
     DEF Intake!vars, Intake!browser, Intake!durable, Intake!quota, Intake!IntakeInv, Intake!TypeOK,
         Intake!IntakeSafety, Intake!EachOnce, Intake!QuotaIsExact, Intake!AcknowledgedIsDurable,
         Intake!FrozenTravels, Intake!Frame, Intake!LocksHold, Intake!HoldsKey, Intake!HoldsUser,
         Intake!Spent
<1> QED
  BY <1>0, <1>1, <1>2, <1>3, <1>4, <1>5, <1>6, <1>7, <1>8, <1>9 DEF Intake!Next, Intake!Work

\* The inductive invariant of acceptance: what it guarantees, that only frozen
\* payloads travel, and that the locks exclude.
THEOREM IntakeInvariant == Intake!Spec => []Intake!IntakeInv
<1>1. Intake!Init => Intake!IntakeInv
  BY IntakeInit
<1>2. Intake!IntakeInv /\ [Intake!Next]_(Intake!vars) => Intake!IntakeInv'
  BY IntakeStep
<1> QED BY <1>1, <1>2, PTL DEF Intake!Spec

\* Acceptance of a turn is one decision: row, charge and gateway message
\* together, once for each request whoever resends it, within the quota, and
\* told to the browser or provider only when committed.
THEOREM IntakeSafe == Intake!Spec => []IntakeSafety
<1>1. Intake!IntakeInv => IntakeSafety
  BY DEF Intake!IntakeInv, IntakeSafety
<1> QED BY <1>1, IntakeInvariant, PTL

\* Both inductive invariants, for the behaviours the run checks.
THEOREM AdmissionInvariant == MCSpec => []AdmissionInv
<1>1. MCInit => AdmissionInv
  BY InitInv, IntakeInit DEF MCInit, AdmissionInv
<1>2. AdmissionInv /\ [MCNext]_<<moving, vars, intakeVars>> => AdmissionInv'
  <2> SUFFICES ASSUME AdmissionInv, [MCNext]_<<moving, vars, intakeVars>> PROVE AdmissionInv'
      OBVIOUS
  <2>1. [Next]_vars
    BY DEF MCNext
  <2>2. [Intake!Next]_(Intake!vars)
    BY DEF MCNext, intakeVars, Intake!vars
  <2> QED BY <2>1, <2>2, StepInv, IntakeStep DEF AdmissionInv
<1> QED BY <1>1, <1>2, PTL DEF MCSpec
=============================================================================
