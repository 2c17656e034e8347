--------------------------- MODULE Bep3LedgerProofs ---------------------------
(***************************************************************************)
(* The ledger of Bep3 swap by swap: the supplies are sums of the stored    *)
(* swaps, what is owed can be paid, and payments are for swaps.            *)
(***************************************************************************)
EXTENDS Bep3Proofs, FiniteSums

-------------------------------------------------------------------------------
(* Sums of the amounts of a store.                                         *)

(* The amount of one more swap is added. *)
LEMMA AmountAdded ==
    ASSUME NEW w, NEW S, IsFiniteSet(S), NEW x, x \notin S,
           \A y \in S \cup {x} : w[y].amount \in Nat
    PROVE  TotalAmount(w, S \cup {x}) = TotalAmount(w, S) + w[x].amount
  <1> DEFINE T == S \cup {x}
             f == [y \in T |-> w[y].amount]
             g == [y \in S |-> w[y].amount]
  <1>1. TotalAmount(w, T) = SumFunctionOnSet(f, T) /\ TotalAmount(w, S) = SumFunctionOnSet(g, S)
    BY DEF TotalAmount, SumFunction
  <1>2. /\ \A y \in T : f[y] \in Nat
        /\ \A y \in S : f[y] = g[y]
        /\ f[x] = w[x].amount
    OBVIOUS
  <1> HIDE DEF f, g
  <1>3. SumFunctionOnSet(f, T) = f[x] + SumFunctionOnSet(f, S)  BY <1>2, SumAdd
  <1>4. SumFunctionOnSet(f, S) = SumFunctionOnSet(g, S)  BY <1>2, SumSame
  <1>5. SumFunctionOnSet(f, S) \in Nat  BY <1>2, SumNat
  <1> QED  BY <1>1, <1>2, <1>3, <1>4, <1>5

(* The sum is over the amounts, whatever else of the swaps changes. *)
LEMMA AmountsKept ==
    ASSUME NEW w, NEW v, NEW S, IsFiniteSet(S), \A y \in S : w[y].amount = v[y].amount
    PROVE  TotalAmount(w, S) = TotalAmount(v, S)
  <1> DEFINE f == [y \in S |-> w[y].amount]
             g == [y \in S |-> v[y].amount]
  <1>1. f = g  OBVIOUS
  <1> QED  BY <1>1 DEF TotalAmount

(* A sum of counts is a count, and none of them is above it. *)
LEMMA AmountsNat ==
    ASSUME NEW w, NEW S, IsFiniteSet(S), \A y \in S : w[y].amount \in Nat
    PROVE  TotalAmount(w, S) \in Nat /\ \A x \in S : w[x].amount <= TotalAmount(w, S)
  <1> DEFINE f == [y \in S |-> w[y].amount]
  <1>1. TotalAmount(w, S) = SumFunctionOnSet(f, S)  BY DEF TotalAmount, SumFunction
  <1>2. \A y \in S : f[y] = w[y].amount /\ f[y] \in Nat  OBVIOUS
  <1> HIDE DEF f
  <1>3. SumFunctionOnSet(f, S) \in Nat  BY <1>2, SumNat
  <1>4. \A x \in S : f[x] <= SumFunctionOnSet(f, S)  BY <1>2, SumMember
  <1> QED  BY <1>1, <1>2, <1>3, <1>4

(* The sum of no swap and of one swap. *)
LEMMA NoAmounts ==
    ASSUME NEW w
    PROVE  TotalAmount(w, {}) = 0 /\ \A x : w[x].amount \in Nat => TotalAmount(w, {x}) = w[x].amount
  <1> DEFINE f == [y \in {} |-> w[y].amount]
  <1>1. TotalAmount(w, {}) = SumFunctionOnSet(f, {})  BY DEF TotalAmount, SumFunction
  <1>2. TotalAmount(w, {}) = 0
    <2> HIDE DEF f
    <2> QED  BY <1>1, SumEmpty
  <1>3. ASSUME NEW x, w[x].amount \in Nat
        PROVE  TotalAmount(w, {x}) = w[x].amount
    <2>1. TotalAmount(w, {} \cup {x}) = TotalAmount(w, {}) + w[x].amount
      BY <1>3, AmountAdded, FS_EmptySet
    <2>2. {} \cup {x} = {x}  OBVIOUS
    <2> QED  BY <1>2, <1>3, <2>1, <2>2
  <1> QED  BY <1>2, <1>3

-------------------------------------------------------------------------------
(* What a step does to the unsettled swaps of a denom and direction: `w' is *)
(* the store before the step, `v' the store after it.                      *)

Stores == [SwapIDs -> Swap \cup {NoSwap}]

StoredIn(w) == {id \in SwapIDs : w[id].status # "NULL"}

(* What is stored is a swap with a positive amount. *)
LEMMA LiveSwapFields ==
    ASSUME NEW w \in Stores, NEW id \in SwapIDs, w[id].status # "NULL"
    PROVE  w[id] \in Swap /\ w[id].amount \in Nat /\ w[id].amount > 0
  <1>1. NoSwap.status = "NULL"  BY DEF NoSwap
  <1>2. w[id] \in Swap  BY <1>1 DEF Stores
  <1>3. w[id].amount \in Amounts  BY <1>2 DEF Swap
  <1>4. Amounts \subseteq Nat \ {0}  BY NumbersAssumption
  <1>5. w[id].amount \in Nat \ {0}  BY <1>3, <1>4
  <1> DEFINE a == w[id].amount
  <1>6. a \in Nat /\ a > 0
    <2>1. a \in Nat \ {0}  BY <1>5
    <2> HIDE DEF a
    <2> QED  BY <2>1
  <1> QED  BY <1>2, <1>6

(* There are finitely many unsettled swaps, and their amounts are counts. *)
LEMMA LiveSwapsFinite ==
    ASSUME NEW w \in Stores, IsFiniteSet(StoredIn(w)), NEW d, NEW direction
    PROVE  /\ IsFiniteSet(LiveSwaps(w, d, direction))
           /\ \A id \in LiveSwaps(w, d, direction) : w[id].amount \in Nat /\ w[id].amount > 0
  <1>1. LiveSwaps(w, d, direction) \subseteq StoredIn(w)  BY DEF LiveSwaps, IsLive, StoredIn
  <1>2. \A id \in StoredIn(w) : w[id].amount \in Nat /\ w[id].amount > 0
    BY LiveSwapFields DEF StoredIn
  <1> QED  BY <1>1, <1>2, FS_Subset

(* A new swap adds its amount to the sum of its denom and direction. *)
LEMMA OpenedAmounts ==
    ASSUME NEW w \in Stores, IsFiniteSet(StoredIn(w)), NEW id \in SwapIDs, w[id].status = "NULL",
           NEW swap \in Swap, swap.status = "Open",
           NEW v, v[id] = swap, \A i \in SwapIDs \ {id} : v[i] = w[i],
           NEW d, NEW direction
    PROVE  /\ IsFiniteSet(StoredIn(v))
           /\ TotalAmount(v, LiveSwaps(v, d, direction)) =
                TotalAmount(w, LiveSwaps(w, d, direction))
                + (IF swap.denom = d /\ swap.direction = direction THEN swap.amount ELSE 0)
  <1> DEFINE L == LiveSwaps(w, d, direction)
             M == LiveSwaps(v, d, direction)
  <1>2. StoredIn(v) = StoredIn(w) \cup {id}  BY DEF StoredIn
  <1>3. IsFiniteSet(StoredIn(v))  BY <1>2, FS_AddElement
  <1>4. id \notin L /\ L \subseteq SwapIDs  BY DEF LiveSwaps, IsLive
  <1>5. M = IF swap.denom = d /\ swap.direction = direction THEN L \cup {id} ELSE L
    BY <1>4 DEF LiveSwaps, IsLive
  <1>6. IsFiniteSet(L) /\ \A i \in L : w[i].amount \in Nat  BY LiveSwapsFinite
  <1> HIDE DEF L, M
  <1>7. TotalAmount(v, L) = TotalAmount(w, L) /\ TotalAmount(w, L) \in Nat
    <2>1. \A i \in L : v[i].amount = w[i].amount  BY <1>4
    <2>2. TotalAmount(v, L) = TotalAmount(w, L)  BY <1>6, <2>1, AmountsKept
    <2> QED  BY <1>6, <2>2, AmountsNat
  <1>8. \A i \in L \cup {id} : v[i].amount \in Nat
    BY <1>4, <1>6, NumbersAssumption DEF Swap
  <1>9. TotalAmount(v, L \cup {id}) = TotalAmount(v, L) + swap.amount
    BY <1>4, <1>6, <1>8, AmountAdded
  <1> QED  BY <1>3, <1>5, <1>7, <1>9 DEF L, M

(* A swap that settles takes its amount from the sum. *)
LEMMA SettledAmounts ==
    ASSUME NEW w \in Stores, IsFiniteSet(StoredIn(w)), NEW id \in SwapIDs,
           w[id].status \in {"Open", "Expired"},
           NEW v, v[id].status = "Completed", \A i \in SwapIDs \ {id} : v[i] = w[i],
           NEW d, NEW direction
    PROVE  /\ IsFiniteSet(StoredIn(v))
           /\ TotalAmount(v, LiveSwaps(v, d, direction)) =
                TotalAmount(w, LiveSwaps(w, d, direction))
                - (IF w[id].denom = d /\ w[id].direction = direction THEN w[id].amount ELSE 0)
           /\ w[id].denom = d /\ w[id].direction = direction
                => w[id].amount <= TotalAmount(w, LiveSwaps(w, d, direction))
  <1> DEFINE L == LiveSwaps(w, d, direction)
             M == LiveSwaps(v, d, direction)
  <1>1. StoredIn(v) = StoredIn(w)  BY DEF StoredIn
  <1>2. L \subseteq SwapIDs  BY DEF LiveSwaps
  <1>3. id \in L <=> w[id].denom = d /\ w[id].direction = direction  BY DEF LiveSwaps, IsLive
  <1>4. M = L \ {id}  BY DEF LiveSwaps, IsLive
  <1>5. IsFiniteSet(L) /\ \A i \in L : w[i].amount \in Nat  BY LiveSwapsFinite
  <1> HIDE DEF L, M
  <1>6. IsFiniteSet(M) /\ M \subseteq L  BY <1>4, <1>5, FS_Subset
  <1>7. TotalAmount(v, M) = TotalAmount(w, M)  BY <1>2, <1>4, <1>6, AmountsKept
  <1>8. TotalAmount(w, M) \in Nat /\ TotalAmount(w, L) \in Nat  BY <1>5, <1>6, AmountsNat
  <1>9. CASE id \in L
    <2>1. L = M \cup {id} /\ id \notin M  BY <1>4, <1>9
    <2>2. TotalAmount(w, L) = TotalAmount(w, M) + w[id].amount
      BY <1>5, <1>6, <2>1, AmountAdded
    <2>3. w[id].amount \in Nat  BY <1>5, <1>9
    <2> QED  BY <1>1, <1>3, <1>7, <1>8, <1>9, <2>2, <2>3 DEF L, M
  <1>10. CASE id \notin L
    <2>1. M = L  BY <1>4, <1>10
    <2> QED  BY <1>1, <1>3, <1>7, <1>8, <1>10, <2>1 DEF L, M
  <1> QED  BY <1>9, <1>10

(* A block that expires and deletes swaps leaves every sum as it was. *)
LEMMA ExpiredAmounts ==
    ASSUME NEW w \in Stores, IsFiniteSet(StoredIn(w)),
           NEW v, \A i \in SwapIDs :
                      \/ v[i] = w[i]
                      \/ /\ w[i].status = "Open" /\ v[i].status = "Expired"
                         /\ Terms(v[i]) = Terms(w[i])
                      \/ w[i].status = "Completed" /\ v[i].status = "NULL",
           NEW d, NEW direction
    PROVE  /\ IsFiniteSet(StoredIn(v))
           /\ TotalAmount(v, LiveSwaps(v, d, direction)) = TotalAmount(w, LiveSwaps(w, d, direction))
  <1>1. StoredIn(v) \subseteq StoredIn(w)  BY DEF StoredIn
  <1>2. IsFiniteSet(StoredIn(v))  BY <1>1, FS_Subset
  <1>3. LiveSwaps(v, d, direction) = LiveSwaps(w, d, direction)  BY DEF LiveSwaps, IsLive, Terms
  <1>4. \A i \in LiveSwaps(w, d, direction) : v[i].amount = w[i].amount
    BY DEF LiveSwaps, IsLive, Terms
  <1>5. IsFiniteSet(LiveSwaps(w, d, direction))  BY LiveSwapsFinite
  <1> QED  BY <1>2, <1>3, <1>4, <1>5, AmountsKept

-------------------------------------------------------------------------------
(* The supplies match the swaps.                                           *)

\* Stored swaps are finitely many, and a record that is absent reserves nothing.
FiniteStore == IsFiniteSet(StoredIn(swaps))

AbsentReservesNothing ==
    \A d \in Denoms : ~ supplies[d].found => supplies[d].incoming = 0 /\ supplies[d].outgoing = 0

SumInv == FiniteStore /\ SuppliesMatchSwaps /\ AbsentReservesNothing

\* The supplies of a chain that a file started may exceed its swaps by what the
\* file has more of than one coin; no step changes by how much.
Leftovers == [{"Incoming", "Outgoing"} -> CoinAmounts]

NoLeftovers == [direction \in {"Incoming", "Outgoing"} |-> NoCoins]

SuppliesExceed(further) ==
    \A d \in Denoms :
        /\ supplies[d].incoming = LiveAmount(d, "Incoming") + further["Incoming"][d]
        /\ supplies[d].outgoing = LiveAmount(d, "Outgoing") + further["Outgoing"][d]

SumsBeside(further) == FiniteStore /\ SuppliesExceed(further) /\ AbsentReservesNothing

(* The unsettled swaps of a store add up to a count. *)
LEMMA LiveAmountNat ==
    ASSUME NEW w \in Stores, IsFiniteSet(StoredIn(w)), NEW d, NEW direction
    PROVE  TotalAmount(w, LiveSwaps(w, d, direction)) \in Nat
  <1>1. /\ IsFiniteSet(LiveSwaps(w, d, direction))
        /\ \A id \in LiveSwaps(w, d, direction) : w[id].amount \in Nat
    BY LiveSwapsFinite
  <1> QED  BY <1>1, AmountsNat

(* An empty store reserves nothing. *)
LEMMA InitSums == Init => SumInv
  <1> SUFFICES ASSUME Init PROVE SumInv  OBVIOUS
  <1>1. \A id \in SwapIDs : swaps[id].status = "NULL"  BY DEF Init, NoSwap
  <1>2. StoredIn(swaps) = {}  BY <1>1 DEF StoredIn
  <1>3. \A d, direction : LiveSwaps(swaps, d, direction) = {}  BY <1>1 DEF LiveSwaps, IsLive
  <1>4. \A d, direction : LiveAmount(d, direction) = 0  BY <1>3, NoAmounts DEF LiveAmount
  <1>5. \A d \in Denoms : supplies[d].incoming = 0 /\ supplies[d].outgoing = 0
    BY GenesisAssumption DEF Init
  <1>6. FiniteStore  BY <1>2, FS_EmptySet DEF FiniteStore
  <1> QED  BY <1>4, <1>5, <1>6 DEF SumInv, SuppliesMatchSwaps, AbsentReservesNothing

(* The supplies of a denom move by `amount' in one direction only. *)
Raised(supply, next, direction, amount) ==
    /\ next.found = supply.found /\ supply.found
    /\ next.incoming = supply.incoming + (IF direction = "Incoming" THEN amount ELSE 0)
    /\ next.outgoing = supply.outgoing + (IF direction = "Outgoing" THEN amount ELSE 0)

OthersSame(d) ==
    \A e \in Denoms \ {d} : /\ supplies'[e].found = supplies[e].found
                            /\ supplies'[e].incoming = supplies[e].incoming
                            /\ supplies'[e].outgoing = supplies[e].outgoing

(* A new swap whose amount its denom's supply is raised by. *)
LEMMA OpenedSums ==
    ASSUME TypeOK, NEW further \in Leftovers, SumsBeside(further), NEW id \in SwapIDs, swaps[id].status = "NULL",
           NEW swap \in Swap, swap.status = "Open", StoreOpenSwap(id, swap),
           Raised(supplies[swap.denom], supplies'[swap.denom], swap.direction, swap.amount),
           OthersSame(swap.denom)
    PROVE  SumsBeside(further)'
  <1>1. swaps \in Stores /\ IsFiniteSet(StoredIn(swaps))
    BY DEF TypeOK, StoreTypeOK, Stores, SumsBeside, FiniteStore
  <1>2. swaps'[id] = swap /\ \A i \in SwapIDs \ {id} : swaps'[i] = swaps[i]
    BY DEF TypeOK, StoreTypeOK, StoreOpenSwap
  <1>3. ASSUME NEW d, NEW direction
        PROVE  /\ IsFiniteSet(StoredIn(swaps'))
               /\ TotalAmount(swaps', LiveSwaps(swaps', d, direction)) =
                    TotalAmount(swaps, LiveSwaps(swaps, d, direction))
                    + (IF swap.denom = d /\ swap.direction = direction THEN swap.amount ELSE 0)
    BY <1>1, <1>2, OpenedAmounts
  <1>4. FiniteStore'  BY <1>3 DEF FiniteStore
  <1>5. ASSUME NEW d \in Denoms
        PROVE  /\ supplies'[d].incoming = LiveAmount(d, "Incoming")' + further["Incoming"][d]
               /\ supplies'[d].outgoing = LiveAmount(d, "Outgoing")' + further["Outgoing"][d]
    <2>1. /\ LiveAmount(d, "Incoming")' = LiveAmount(d, "Incoming")
               + (IF swap.denom = d /\ swap.direction = "Incoming" THEN swap.amount ELSE 0)
          /\ LiveAmount(d, "Outgoing")' = LiveAmount(d, "Outgoing")
               + (IF swap.denom = d /\ swap.direction = "Outgoing" THEN swap.amount ELSE 0)
      BY <1>3 DEF LiveAmount
    <2>2. /\ supplies[d].incoming = LiveAmount(d, "Incoming") + further["Incoming"][d]
          /\ supplies[d].outgoing = LiveAmount(d, "Outgoing") + further["Outgoing"][d]
      BY DEF SumsBeside, SuppliesExceed
    <2>3. /\ LiveAmount(d, "Incoming") \in Nat /\ LiveAmount(d, "Outgoing") \in Nat
          /\ further["Incoming"][d] \in Nat /\ further["Outgoing"][d] \in Nat
      BY <1>1, LiveAmountNat DEF LiveAmount, Leftovers, CoinAmounts
    <2>4. /\ supplies'[d].incoming = supplies[d].incoming
               + (IF swap.denom = d /\ swap.direction = "Incoming" THEN swap.amount ELSE 0)
          /\ supplies'[d].outgoing = supplies[d].outgoing
               + (IF swap.denom = d /\ swap.direction = "Outgoing" THEN swap.amount ELSE 0)
      <3>1. supplies[d].incoming \in Nat /\ supplies[d].outgoing \in Nat
        BY DEF TypeOK, LedgerTypeOK, SupplyRecord
      <3>2. CASE d = swap.denom  BY <3>2 DEF Raised
      <3>3. CASE d # swap.denom  BY <3>1, <3>3 DEF OthersSame
      <3> QED  BY <3>2, <3>3
    <2>5. swap.amount \in Nat  BY NumbersAssumption DEF Swap
    <2> DEFINE li == LiveAmount(d, "Incoming")
               lo == LiveAmount(d, "Outgoing")
    <2> HIDE DEF li, lo
    <2>6. /\ supplies'[d].incoming = (li + further["Incoming"][d])
               + (IF swap.denom = d /\ swap.direction = "Incoming" THEN swap.amount ELSE 0)
          /\ supplies'[d].outgoing = (lo + further["Outgoing"][d])
               + (IF swap.denom = d /\ swap.direction = "Outgoing" THEN swap.amount ELSE 0)
      BY <2>2, <2>4 DEF li, lo
    <2>7. li \in Nat /\ lo \in Nat  BY <2>3 DEF li, lo
    <2>8. /\ supplies'[d].incoming = (li
               + (IF swap.denom = d /\ swap.direction = "Incoming" THEN swap.amount ELSE 0))
               + further["Incoming"][d]
          /\ supplies'[d].outgoing = (lo
               + (IF swap.denom = d /\ swap.direction = "Outgoing" THEN swap.amount ELSE 0))
               + further["Outgoing"][d]
      BY <2>3, <2>5, <2>6, <2>7
    <2> QED  BY <2>1, <2>8 DEF li, lo
  <1>6. AbsentReservesNothing'
    <2>1. \A d \in Denoms \ {swap.denom} :
             ~ supplies'[d].found => supplies'[d].incoming = 0 /\ supplies'[d].outgoing = 0
      BY DEF OthersSame, SumsBeside, AbsentReservesNothing
    <2>2. supplies'[swap.denom].found  BY DEF Raised
    <2> QED  BY <2>1, <2>2 DEF AbsentReservesNothing
  <1> QED  BY <1>4, <1>5, <1>6 DEF SumsBeside, SuppliesExceed

(* A swap that settles, whose amount its denom's supply was raised by. *)
LEMMA SettledSums ==
    ASSUME TypeOK, TypeOK', NEW further \in Leftovers, SumsBeside(further), NEW id \in SwapIDs, NEW status \in {"Open", "Expired"},
           Settles(id, status),
           Raised(supplies'[swaps[id].denom], supplies[swaps[id].denom],
                  swaps[id].direction, swaps[id].amount),
           OthersSame(swaps[id].denom)
    PROVE  SumsBeside(further)'
  <1>1. swaps \in Stores /\ IsFiniteSet(StoredIn(swaps))
    BY DEF TypeOK, StoreTypeOK, Stores, SumsBeside, FiniteStore
  <1>2. /\ swaps'[id].status = "Completed" /\ \A i \in SwapIDs \ {id} : swaps'[i] = swaps[i]
        /\ swaps[id].status \in {"Open", "Expired"}
    BY SettledSwap DEF Settles
  <1>3. ASSUME NEW d, NEW direction
        PROVE  /\ IsFiniteSet(StoredIn(swaps'))
               /\ TotalAmount(swaps', LiveSwaps(swaps', d, direction)) =
                    TotalAmount(swaps, LiveSwaps(swaps, d, direction))
                    - (IF swaps[id].denom = d /\ swaps[id].direction = direction
                         THEN swaps[id].amount ELSE 0)
    BY <1>1, <1>2, SettledAmounts
  <1>4. FiniteStore'  BY <1>3 DEF FiniteStore
  <1>5. ASSUME NEW d \in Denoms
        PROVE  /\ supplies'[d].incoming = LiveAmount(d, "Incoming")' + further["Incoming"][d]
               /\ supplies'[d].outgoing = LiveAmount(d, "Outgoing")' + further["Outgoing"][d]
    <2>1. /\ LiveAmount(d, "Incoming")' = LiveAmount(d, "Incoming")
               - (IF swaps[id].denom = d /\ swaps[id].direction = "Incoming" THEN swaps[id].amount ELSE 0)
          /\ LiveAmount(d, "Outgoing")' = LiveAmount(d, "Outgoing")
               - (IF swaps[id].denom = d /\ swaps[id].direction = "Outgoing" THEN swaps[id].amount ELSE 0)
      BY <1>3 DEF LiveAmount
    <2>2. /\ supplies[d].incoming = LiveAmount(d, "Incoming") + further["Incoming"][d]
          /\ supplies[d].outgoing = LiveAmount(d, "Outgoing") + further["Outgoing"][d]
      BY DEF SumsBeside, SuppliesExceed
    <2>3. /\ supplies[d].incoming \in Nat /\ supplies[d].outgoing \in Nat
          /\ supplies'[d].incoming \in Nat /\ supplies'[d].outgoing \in Nat
      BY DEF TypeOK, LedgerTypeOK, SupplyRecord
    <2>4. /\ LiveAmount(d, "Incoming") \in Nat /\ LiveAmount(d, "Outgoing") \in Nat
          /\ further["Incoming"][d] \in Nat /\ further["Outgoing"][d] \in Nat
          /\ swaps[id].amount \in Nat
      BY <1>1, <1>2, LiveAmountNat, SwapFields DEF TypeOK, LiveAmount, Leftovers, CoinAmounts
    <2>5. CASE d = swaps[id].denom  BY <2>1, <2>2, <2>3, <2>4, <2>5 DEF Raised
    <2>6. CASE d # swaps[id].denom
      <3>1. supplies'[d].incoming = supplies[d].incoming /\ supplies'[d].outgoing = supplies[d].outgoing
        BY <2>6 DEF OthersSame
      <3>2. /\ LiveAmount(d, "Incoming")' = LiveAmount(d, "Incoming")
            /\ LiveAmount(d, "Outgoing")' = LiveAmount(d, "Outgoing")
        BY <2>1, <2>4, <2>6
      <3> QED  BY <2>2, <3>1, <3>2
    <2> QED  BY <2>5, <2>6
  <1>6. AbsentReservesNothing'
    <2>1. \A d \in Denoms \ {swaps[id].denom} :
             ~ supplies'[d].found => supplies'[d].incoming = 0 /\ supplies'[d].outgoing = 0
      BY DEF OthersSame, SumsBeside, AbsentReservesNothing
    <2>2. supplies'[swaps[id].denom].found  BY DEF Raised
    <2> QED  BY <2>1, <2>2 DEF AbsentReservesNothing
  <1> QED  BY <1>4, <1>5, <1>6 DEF SumsBeside, SuppliesExceed

(* The creation of an incoming swap reserves its amount. *)
LEMMA CreateIncomingSums ==
    ASSUME TypeOK, NEW further \in Leftovers, SumsBeside(further), NEW id \in SwapIDs, NEW recipient \in Users \cup Maccs, NEW d \in Denoms,
           NEW amount \in Amounts, NEW timestamp \in Timestamps, NEW span \in Spans,
           CreateIncoming(id, recipient, d, amount, timestamp, span)
    PROVE  SumsBeside(further)'
  <1> DEFINE swap == NewAtomicSwap("Incoming", d, amount, timestamp, ExpireTime(span), recipient)
  <1>1. recipient \in Users /\ ExpireTime(span) \in Int
    BY ExpireTimeType DEF CreateIncoming, AcceptSwap, CanReceive, TypeOK, BlockTypeOK
  <1>2. swap \in Swap  BY <1>1, NewSwapType
  <1>3. /\ swap.status = "Open" /\ swap.denom = d /\ swap.direction = "Incoming" /\ swap.amount = amount
        /\ swaps[id].status = "NULL" /\ StoreOpenSwap(id, swap)
    BY DEF NewAtomicSwap, CreateIncoming, AcceptSwap, IsNewSwap, Stored
  <1>4. amount \in Nat  BY NumbersAssumption
  <1>5. /\ supplies'[d] = IncrementIncoming(supplies[d], amount) /\ supplies[d].found
        /\ \A e \in Denoms \ {d} : supplies'[e] = supplies[e]
    BY DEF CreateIncoming, CanIncrementIncoming, TypeOK, LedgerTypeOK
  <1>6. Raised(supplies[d], supplies'[d], "Incoming", amount)
    <2>1. supplies[d] \in SupplyRecord  BY DEF TypeOK, LedgerTypeOK
    <2>2. /\ supplies'[d].found = supplies[d].found
          /\ supplies'[d].incoming = supplies[d].incoming + amount
          /\ supplies'[d].outgoing = supplies[d].outgoing
      BY <1>5, <2>1 DEF IncrementIncoming, SupplyRecord
    <2>3. supplies[d].outgoing \in Nat  BY <2>1 DEF SupplyRecord
    <2> QED  BY <1>5, <2>2, <2>3 DEF Raised
  <1>7. OthersSame(d)  BY <1>5 DEF OthersSame
  <1> HIDE DEF swap
  <1> QED  BY <1>2, <1>3, <1>6, <1>7, OpenedSums

(* So does the creation of an outgoing one. *)
LEMMA CreateOutgoingSums ==
    ASSUME TypeOK, NEW further \in Leftovers, SumsBeside(further), NEW id \in SwapIDs, NEW recipient \in Users \cup Maccs, NEW d \in Denoms,
           NEW amount \in Amounts, NEW timestamp \in Timestamps, NEW span \in Spans,
           CreateOutgoing(id, recipient, d, amount, timestamp, span)
    PROVE  SumsBeside(further)'
  <1> DEFINE swap == NewAtomicSwap("Outgoing", d, amount, timestamp, ExpireTime(span), recipient)
  <1>1. recipient \in Users /\ ExpireTime(span) \in Int
    BY ExpireTimeType DEF CreateOutgoing, AcceptSwap, CanReceive, TypeOK, BlockTypeOK
  <1>2. swap \in Swap  BY <1>1, NewSwapType
  <1>3. /\ swap.status = "Open" /\ swap.denom = d /\ swap.direction = "Outgoing" /\ swap.amount = amount
        /\ swaps[id].status = "NULL" /\ StoreOpenSwap(id, swap)
    BY DEF NewAtomicSwap, CreateOutgoing, AcceptSwap, IsNewSwap, Stored
  <1>4. amount \in Nat  BY NumbersAssumption
  <1>5. /\ supplies'[d] = IncrementOutgoing(supplies[d], amount) /\ supplies[d].found
        /\ \A e \in Denoms \ {d} : supplies'[e] = supplies[e]
    BY DEF CreateOutgoing, CanIncrementOutgoing, TypeOK, LedgerTypeOK
  <1>6. Raised(supplies[d], supplies'[d], "Outgoing", amount)
    <2>1. supplies[d] \in SupplyRecord  BY DEF TypeOK, LedgerTypeOK
    <2>2. /\ supplies'[d].found = supplies[d].found
          /\ supplies'[d].outgoing = supplies[d].outgoing + amount
          /\ supplies'[d].incoming = supplies[d].incoming
      BY <1>5, <2>1 DEF IncrementOutgoing, SupplyRecord
    <2>3. supplies[d].incoming \in Nat  BY <2>1 DEF SupplyRecord
    <2> QED  BY <1>5, <2>2, <2>3 DEF Raised
  <1>7. OthersSame(d)  BY <1>5 DEF OthersSame
  <1> HIDE DEF swap
  <1> QED  BY <1>2, <1>3, <1>6, <1>7, OpenedSums

(* Claims and refunds release the reservation of the swap they settle.     *)
LEMMA ClaimIncomingSums ==
    ASSUME TypeOK, TypeOK', NEW further \in Leftovers, SumsBeside(further), NEW id \in SwapIDs, NEW number, ClaimIncoming(id, number)
    PROVE  SumsBeside(further)'
  <1> DEFINE d == swaps[id].denom
             a == swaps[id].amount
             s == IncrementCurrent(DecrementIncoming(supplies[d], a), params[d], a)
  <1>1. Settles(id, "Open") /\ swaps[id].direction = "Incoming" /\ swaps[id].status # "NULL"
    BY DEF Settles, ClaimIncoming, IsClaimable
  <1>2. d \in Denoms /\ a \in Nat /\ supplies[d] \in SupplyRecord
    BY <1>1, SettledSwapFields
  <1>3. /\ supplies'[d] = s /\ supplies[d].found
        /\ \A e \in Denoms \ {d} : supplies'[e] = supplies[e]
    BY <1>2 DEF ClaimIncoming, CanMint, CanDecrementIncoming, TypeOK, LedgerTypeOK
  <1>4. /\ s.found = supplies[d].found /\ s.incoming = supplies[d].incoming - a
        /\ s.outgoing = supplies[d].outgoing
    <2> HIDE DEF a, d
    <2> QED  BY <1>2, MintFields
  <1>5. supplies[d].incoming \in Nat /\ supplies[d].outgoing \in Nat  BY <1>2 DEF SupplyRecord
  <1>6. Raised(supplies'[d], supplies[d], "Incoming", a)
    <2> HIDE DEF a, s, d
    <2> QED  BY <1>2, <1>3, <1>4, <1>5 DEF Raised
  <1>7. OthersSame(d)  BY <1>3 DEF OthersSame
  <1> QED  BY <1>1, <1>6, <1>7, SettledSums

(* So does the claim of an outgoing swap. *)
LEMMA ClaimOutgoingSums ==
    ASSUME TypeOK, TypeOK', NEW further \in Leftovers, SumsBeside(further), NEW id \in SwapIDs, NEW number, ClaimOutgoing(id, number)
    PROVE  SumsBeside(further)'
  <1> DEFINE d == swaps[id].denom
             a == swaps[id].amount
             s == DecrementCurrent(DecrementOutgoing(supplies[d], a), a)
  <1>1. Settles(id, "Open") /\ swaps[id].direction = "Outgoing" /\ swaps[id].status # "NULL"
    BY DEF Settles, ClaimOutgoing, IsClaimable
  <1>2. d \in Denoms /\ a \in Nat /\ supplies[d] \in SupplyRecord
    BY <1>1, SettledSwapFields
  <1>3. /\ supplies'[d] = s /\ supplies[d].found
        /\ \A e \in Denoms \ {d} : supplies'[e] = supplies[e]
    BY <1>2 DEF ClaimOutgoing, CanBurn, CanDecrementOutgoing, TypeOK, LedgerTypeOK
  <1>4. /\ s.found = supplies[d].found /\ s.outgoing = supplies[d].outgoing - a
        /\ s.incoming = supplies[d].incoming
    <2> HIDE DEF a, d
    <2> QED  BY <1>2 DEF DecrementCurrent, DecrementOutgoing, SupplyRecord
  <1>5. supplies[d].incoming \in Nat /\ supplies[d].outgoing \in Nat  BY <1>2 DEF SupplyRecord
  <1>6. Raised(supplies'[d], supplies[d], "Outgoing", a)
    <2> HIDE DEF a, s, d
    <2> QED  BY <1>2, <1>3, <1>4, <1>5 DEF Raised
  <1>7. OthersSame(d)  BY <1>3 DEF OthersSame
  <1> QED  BY <1>1, <1>6, <1>7, SettledSums

(* And the refund of an incoming one. *)
LEMMA RefundIncomingSums ==
    ASSUME TypeOK, TypeOK', NEW further \in Leftovers, SumsBeside(further), NEW id \in SwapIDs, RefundIncoming(id)
    PROVE  SumsBeside(further)'
  <1> DEFINE d == swaps[id].denom
             a == swaps[id].amount
             s == DecrementIncoming(supplies[d], a)
  <1>1. Settles(id, "Expired") /\ swaps[id].direction = "Incoming" /\ swaps[id].status # "NULL"
    BY DEF Settles, RefundIncoming, IsRefundable
  <1>2. d \in Denoms /\ a \in Nat /\ supplies[d] \in SupplyRecord
    BY <1>1, SettledSwapFields
  <1>3. /\ supplies'[d] = s /\ supplies[d].found
        /\ \A e \in Denoms \ {d} : supplies'[e] = supplies[e]
    BY <1>2 DEF RefundIncoming, CanDecrementIncoming, TypeOK, LedgerTypeOK
  <1>4. /\ s.found = supplies[d].found /\ s.incoming = supplies[d].incoming - a
        /\ s.outgoing = supplies[d].outgoing
    <2> HIDE DEF a, d
    <2> QED  BY <1>2 DEF DecrementIncoming, SupplyRecord
  <1>5. supplies[d].incoming \in Nat /\ supplies[d].outgoing \in Nat  BY <1>2 DEF SupplyRecord
  <1>6. Raised(supplies'[d], supplies[d], "Incoming", a)
    <2> HIDE DEF a, s, d
    <2> QED  BY <1>2, <1>3, <1>4, <1>5 DEF Raised
  <1>7. OthersSame(d)  BY <1>3 DEF OthersSame
  <1> QED  BY <1>1, <1>6, <1>7, SettledSums

(* And the refund of an outgoing one. *)
LEMMA RefundOutgoingSums ==
    ASSUME TypeOK, TypeOK', NEW further \in Leftovers, SumsBeside(further), NEW id \in SwapIDs, RefundOutgoing(id)
    PROVE  SumsBeside(further)'
  <1> DEFINE d == swaps[id].denom
             a == swaps[id].amount
             s == DecrementOutgoing(supplies[d], a)
  <1>1. Settles(id, "Expired") /\ swaps[id].direction = "Outgoing" /\ swaps[id].status # "NULL"
    BY DEF Settles, RefundOutgoing, IsRefundable
  <1>2. d \in Denoms /\ a \in Nat /\ supplies[d] \in SupplyRecord
    BY <1>1, SettledSwapFields
  <1>3. /\ supplies'[d] = s /\ supplies[d].found
        /\ \A e \in Denoms \ {d} : supplies'[e] = supplies[e]
    BY <1>2 DEF RefundOutgoing, CanRelease, CanDecrementOutgoing, TypeOK, LedgerTypeOK
  <1>4. /\ s.found = supplies[d].found /\ s.outgoing = supplies[d].outgoing - a
        /\ s.incoming = supplies[d].incoming
    <2> HIDE DEF a, d
    <2> QED  BY <1>2 DEF DecrementOutgoing, SupplyRecord
  <1>5. supplies[d].incoming \in Nat /\ supplies[d].outgoing \in Nat  BY <1>2 DEF SupplyRecord
  <1>6. Raised(supplies'[d], supplies[d], "Outgoing", a)
    <2> HIDE DEF a, s, d
    <2> QED  BY <1>2, <1>3, <1>4, <1>5 DEF Raised
  <1>7. OthersSame(d)  BY <1>3 DEF OthersSame
  <1> QED  BY <1>1, <1>6, <1>7, SettledSums

(* A new block settles nothing: it expires, deletes or keeps a swap.         *)
LEMMA BeginBlockKeeps ==
    ASSUME TypeOK, IndexInv, NEW step \in Steps, BeginBlock(step), NEW i \in SwapIDs
    PROVE  \/ swaps'[i] = swaps[i]
           \/ /\ swaps[i].status = "Open" /\ swaps'[i].status = "Expired"
              /\ Terms(swaps'[i]) = Terms(swaps[i])
           \/ swaps[i].status = "Completed" /\ swaps'[i].status = "NULL"
  <1>1. CASE swaps'[i] = swaps[i]  BY <1>1
  <1>2. CASE swaps'[i] # swaps[i]
    <2>1. LifecycleStep(i)  BY <1>2, BeginBlockLifecycle
    <2>2. swaps[i].status \in {"NULL", "Open", "Completed", "Expired"}
      BY DEF TypeOK, StoreTypeOK, Swap, NoSwap
    <2>3. swaps[i].status \notin {"NULL", "Expired"}  BY <1>2, BeginBlockSwap
    <2>4. swaps[i].status = "Open" => swaps'[i].status = "Expired"  BY <1>2, BeginBlockSwap
    <2> QED  BY <2>1, <2>2, <2>3, <2>4 DEF LifecycleStep
  <1> QED  BY <1>1, <1>2

(* A new block changes no reservation and settles nothing.                 *)
LEMMA BeginBlockSums ==
    ASSUME TypeOK, IndexInv, NEW further \in Leftovers, SumsBeside(further), NEW step \in Steps, BeginBlock(step)
    PROVE  SumsBeside(further)'
  <1>1. swaps \in Stores /\ IsFiniteSet(StoredIn(swaps))
    BY DEF TypeOK, StoreTypeOK, Stores, SumsBeside, FiniteStore
  <1>2. ASSUME NEW i \in SwapIDs
        PROVE  \/ swaps'[i] = swaps[i]
               \/ /\ swaps[i].status = "Open" /\ swaps'[i].status = "Expired"
                  /\ Terms(swaps'[i]) = Terms(swaps[i])
               \/ swaps[i].status = "Completed" /\ swaps'[i].status = "NULL"
    BY BeginBlockKeeps
  <1>3. ASSUME NEW d, NEW direction
        PROVE  /\ IsFiniteSet(StoredIn(swaps'))
               /\ TotalAmount(swaps', LiveSwaps(swaps', d, direction)) =
                    TotalAmount(swaps, LiveSwaps(swaps, d, direction))
    BY <1>1, <1>2, ExpiredAmounts
  <1>4. FiniteStore'  BY <1>3 DEF FiniteStore
  <1>5. SuppliesExceed(further)'
    BY <1>3, BeginBlockSupplies DEF SuppliesExceed, SumsBeside, LiveAmount
  <1>6. ASSUME NEW d \in Denoms, supplies[d].found PROVE supplies'[d].found
    <2>1. supplies[d] \in SupplyRecord  BY DEF TypeOK, LedgerTypeOK
    <2>2. \/ supplies'[d] = supplies[d]
          \/ \E elapsed : supplies'[d] = UpdateWindow(supplies[d], params[d], elapsed)
      BY DEF BeginBlock, UpdateTimeBasedSupplyLimits
    <2> QED  BY <1>6, <2>1, <2>2, WindowFound
  <1>7. AbsentReservesNothing'
    BY <1>6, BeginBlockSupplies DEF SumsBeside, AbsentReservesNothing
  <1> QED  BY <1>4, <1>5, <1>7 DEF SumsBeside

(* A step that touches neither the swaps nor the supplies.                  *)
LEMMA SameSums ==
    ASSUME NEW further, SumsBeside(further), swaps' = swaps, supplies' = supplies
    PROVE  SumsBeside(further)'
  BY DEF SumsBeside, FiniteStore, SuppliesExceed, AbsentReservesNothing, LiveAmount

(* Every step keeps the sums, and what the supplies exceed them by.         *)
LEMMA NextSumsBeside ==
    ASSUME TypeOK, TypeOK', IndexInv, NEW further \in Leftovers, SumsBeside(further), [Next]_vars
    PROVE  SumsBeside(further)'
  <1>1. CASE Create  BY <1>1, CreateIncomingSums, CreateOutgoingSums DEF Create
  <1>2. CASE Claim  BY <1>2, ClaimIncomingSums, ClaimOutgoingSums DEF Claim
  <1>3. CASE Refund  BY <1>3, RefundIncomingSums, RefundOutgoingSums DEF Refund
  <1>4. CASE NextBlock  BY <1>4, BeginBlockSums DEF NextBlock
  <1>5. CASE Govern  BY <1>5, SameSums DEF Govern, SetParams, store
  <1>6. CASE UNCHANGED vars  BY <1>6, SameSums DEF vars, store
  <1> QED  BY <1>1, <1>2, <1>3, <1>4, <1>5, <1>6 DEF Next, FixedNext

(* Supplies that are the sums exceed them by nothing. *)
LEMMA SumsAlone ==
    ASSUME TypeOK, SumInv
    PROVE  NoLeftovers \in Leftovers /\ SumsBeside(NoLeftovers)
  <1>1. /\ NoLeftovers \in Leftovers
        /\ \A d \in Denoms : NoLeftovers["Incoming"][d] = 0 /\ NoLeftovers["Outgoing"][d] = 0
    BY DEF NoLeftovers, Leftovers, NoCoins, CoinAmounts
  <1>2. ASSUME NEW d, NEW direction PROVE LiveAmount(d, direction) \in Nat
    BY LiveAmountNat DEF TypeOK, StoreTypeOK, Stores, SumInv, FiniteStore, LiveAmount
  <1> QED  BY <1>1, <1>2 DEF SumInv, SuppliesMatchSwaps, SumsBeside, SuppliesExceed

(* On a chain that no file started they stay the sums. *)
LEMMA NextSums == TypeOK /\ TypeOK' /\ IndexInv /\ SumInv /\ [Next]_vars => SumInv'
  <1> SUFFICES ASSUME TypeOK, TypeOK', IndexInv, SumInv, [Next]_vars PROVE SumInv'  OBVIOUS
  <1>1. /\ NoLeftovers \in Leftovers
        /\ \A d \in Denoms : NoLeftovers["Incoming"][d] = 0 /\ NoLeftovers["Outgoing"][d] = 0
    BY DEF NoLeftovers, Leftovers, NoCoins, CoinAmounts
  <1>2. SumsBeside(NoLeftovers)  BY SumsAlone
  <1>3. SumsBeside(NoLeftovers)'  BY <1>1, <1>2, NextSumsBeside
  <1>4. ASSUME NEW d, NEW direction PROVE LiveAmount(d, direction)' \in Nat
    BY <1>3, LiveAmountNat DEF TypeOK, StoreTypeOK, Stores, SumsBeside, FiniteStore, LiveAmount
  <1> QED  BY <1>1, <1>3, <1>4 DEF SumInv, SuppliesMatchSwaps, SumsBeside, SuppliesExceed

(* The supplies are sums in every reachable state. *)
LEMMA SpecSums == Spec => []SumInv
  BY InitSums, NextSums, TypeCorrect, SpecIndex, PTL DEF Spec

(* An asset's incoming and outgoing supplies are, at every moment, the sums *)
(* of its unsettled swaps: what InitGenesis demands of an imported state    *)
(* holds of every state the chain reaches, for any number of swaps.         *)
THEOREM SuppliesMatched == Spec => []SuppliesMatchSwaps
  <1>1. SumInv => SuppliesMatchSwaps  BY DEF SumInv
  <1> QED  BY <1>1, SpecSums, PTL

-------------------------------------------------------------------------------
(* The bank's coins.  What the bank has of a coin is what users hold, what  *)
(* the module has in escrow and what others held from the start: no handler *)
(* creates or loses a coin beside its mint or burn.                        *)

\* What the users of a bank hold together of a coin.
HeldIn(accts, d) == SumFunction([u \in Users |-> accts[u][d]])

CoinsAccounted ==
    \A d \in Denoms :
        bankSupply[d] - escrow[d] - HeldIn(balances, d) = GenesisBankSupply[d] - HeldIn(GenesisBalances, d)

(* The genesis of the bank module counts every coin of its accounts. *)
BankCountsBalances == \A d \in Denoms : HeldIn(GenesisBalances, d) <= GenesisBankSupply[d]

BalanceSheets == [Users -> [Denoms -> Nat]]

(* What users hold together is a count. *)
LEMMA HeldNat ==
    ASSUME IsFiniteSet(Users), NEW b \in BalanceSheets, NEW d \in Denoms
    PROVE  HeldIn(b, d) \in Nat
  <1> DEFINE f == [u \in Users |-> b[u][d]]
  <1>1. HeldIn(b, d) = SumFunctionOnSet(f, Users)  BY DEF HeldIn, SumFunction
  <1>2. \A u \in Users : f[u] \in Nat  BY DEF BalanceSheets
  <1> HIDE DEF f
  <1> QED  BY <1>1, <1>2, SumNat

(* What one user gains, the users together gain. *)
LEMMA HeldMoves ==
    ASSUME IsFiniteSet(Users), NEW b \in BalanceSheets, NEW c \in BalanceSheets, NEW d \in Denoms,
           NEW x \in Users, \A u \in Users \ {x} : c[u][d] = b[u][d]
    PROVE  HeldIn(c, d) - HeldIn(b, d) = c[x][d] - b[x][d]
  <1> DEFINE f == [u \in Users |-> b[u][d]]
             g == [u \in Users |-> c[u][d]]
             R == Users \ {x}
  <1>1. HeldIn(b, d) = SumFunctionOnSet(f, Users) /\ HeldIn(c, d) = SumFunctionOnSet(g, Users)
    BY DEF HeldIn, SumFunction
  <1>2. /\ \A u \in Users : f[u] \in Nat /\ g[u] \in Nat
        /\ \A u \in R : f[u] = g[u] /\ f[u] \in Nat
        /\ f[x] = b[x][d] /\ g[x] = c[x][d]
    BY DEF BalanceSheets
  <1>3. IsFiniteSet(R)  BY FS_Subset
  <1> HIDE DEF f, g
  <1>4. /\ SumFunctionOnSet(f, Users) = f[x] + SumFunctionOnSet(f, R)
        /\ SumFunctionOnSet(g, Users) = g[x] + SumFunctionOnSet(g, R)
    BY <1>2, SumRemove
  <1> HIDE DEF R
  <1>5. SumFunctionOnSet(f, R) = SumFunctionOnSet(g, R) /\ SumFunctionOnSet(f, R) \in Nat
    BY <1>2, <1>3, SumSame, SumNat
  <1> QED  BY <1>1, <1>2, <1>4, <1>5

(* At the start nothing has moved. *)
LEMMA InitCoins == Init => CoinsAccounted
  <1> SUFFICES ASSUME Init, NEW d \in Denoms
               PROVE  bankSupply[d] - escrow[d] - HeldIn(balances, d)
                         = GenesisBankSupply[d] - HeldIn(GenesisBalances, d)
    BY DEF CoinsAccounted
  <1>1. bankSupply[d] = GenesisBankSupply[d] /\ escrow[d] = 0 /\ balances = GenesisBalances
    BY DEF Init, NoCoins
  <1>2. GenesisBankSupply[d] \in Nat  BY GenesisAssumption
  <1> QED  BY <1>1, <1>2

(* A step that moves the coins of one user, the escrow and the bank's supply *)
(* so that they balance. *)
LEMMA BalancedStep ==
    ASSUME TypeOK, TypeOK', IsFiniteSet(Users), CoinsAccounted, NEW x \in Users, NEW d \in Denoms,
           \A u \in Users, e \in Denoms : u # x \/ e # d => balances'[u][e] = balances[u][e],
           \A e \in Denoms \ {d} : escrow'[e] = escrow[e] /\ bankSupply'[e] = bankSupply[e],
           bankSupply'[d] - bankSupply[d]
              = (escrow'[d] - escrow[d]) + (balances'[x][d] - balances[x][d])
    PROVE  CoinsAccounted'
  <1> SUFFICES ASSUME NEW e \in Denoms
               PROVE  bankSupply'[e] - escrow'[e] - HeldIn(balances', e)
                         = GenesisBankSupply[e] - HeldIn(GenesisBalances, e)
    BY DEF CoinsAccounted
  <1>1. balances \in BalanceSheets /\ balances' \in BalanceSheets
    BY DEF TypeOK, LedgerTypeOK, BalanceSheets
  <1>2. HeldIn(balances', e) - HeldIn(balances, e) = balances'[x][e] - balances[x][e]
    BY <1>1, HeldMoves
  <1>3. HeldIn(balances', e) \in Nat /\ HeldIn(balances, e) \in Nat  BY <1>1, HeldNat
  <1>4. /\ bankSupply[e] \in Nat /\ bankSupply'[e] \in Nat /\ escrow[e] \in Nat /\ escrow'[e] \in Nat
        /\ balances[x][e] \in Nat /\ balances'[x][e] \in Nat
    BY DEF TypeOK, LedgerTypeOK
  <1>5. bankSupply'[e] - bankSupply[e] = (escrow'[e] - escrow[e]) + (balances'[x][e] - balances[x][e])
    BY <1>4
  <1>6. bankSupply[e] - escrow[e] - HeldIn(balances, e) = GenesisBankSupply[e] - HeldIn(GenesisBalances, e)
    BY DEF CoinsAccounted
  <1> QED  BY <1>2, <1>3, <1>4, <1>5, <1>6

(* A step that leaves the bank alone. *)
LEMMA SameCoins ==
    ASSUME CoinsAccounted, UNCHANGED bank
    PROVE  CoinsAccounted'
  BY DEF CoinsAccounted, bank

(* Every step balances: escrow, refund, mint and payout, burn. *)
LEMMA NextCoins ==
    ASSUME TypeOK, TypeOK', OneCoinSwaps, IsFiniteSet(Users), CoinsAccounted, [Next]_vars
    PROVE  CoinsAccounted'
  <1>1. CASE Create
    <2>1. PICK id \in SwapIDs, recipient \in Users \cup Maccs, d \in Denoms,
               amount \in Amounts, timestamp \in Timestamps, span \in Spans :
                  \/ CreateIncoming(id, recipient, d, amount, timestamp, span)
                  \/ CreateOutgoing(id, recipient, d, amount, timestamp, span)
      BY <1>1 DEF Create
    <2>2. CASE CreateIncoming(id, recipient, d, amount, timestamp, span)
      BY <2>2, SameCoins DEF CreateIncoming
    <2>3. CASE CreateOutgoing(id, recipient, d, amount, timestamp, span)
      <3>1. id.sender \in Users /\ amount \in Nat  BY NumbersAssumption DEF SwapIDs
      <3>2. /\ \A u \in Users, e \in Denoms :
                  u # id.sender \/ e # d => balances'[u][e] = balances[u][e]
            /\ \A e \in Denoms \ {d} : escrow'[e] = escrow[e]
            /\ bankSupply' = bankSupply
            /\ balances'[id.sender][d] = balances[id.sender][d] - amount
            /\ escrow'[d] = escrow[d] + amount
        BY <2>3, <3>1 DEF CreateOutgoing, TypeOK, LedgerTypeOK
      <3>3. /\ balances[id.sender][d] \in Nat /\ escrow[d] \in Nat /\ bankSupply[d] \in Nat
        BY <3>1 DEF TypeOK, LedgerTypeOK
      <3>4. bankSupply'[d] - bankSupply[d]
               = (escrow'[d] - escrow[d]) + (balances'[id.sender][d] - balances[id.sender][d])
        BY <3>1, <3>2, <3>3
      <3> QED  BY <3>1, <3>2, <3>4, BalancedStep
    <2> QED  BY <2>1, <2>2, <2>3
  <1>2. CASE Claim
    <2>1. PICK id \in SwapIDs, number \in Numbers : ClaimIncoming(id, number) \/ ClaimOutgoing(id, number)
      BY <1>2 DEF Claim
    <2> DEFINE d == swaps[id].denom
               a == swaps[id].amount
               x == swaps[id].recipient
    <2>2. swaps[id].status # "NULL"  BY <2>1 DEF ClaimIncoming, ClaimOutgoing, IsClaimable
    <2>3. d \in Denoms /\ a \in Nat /\ x \in Users  BY <2>2, SettledSwapFields
    <2>4. balances[x][d] \in Nat /\ escrow[d] \in Nat /\ bankSupply[d] \in Nat
      BY <2>3 DEF TypeOK, LedgerTypeOK
    <2>5. CASE ClaimIncoming(id, number)
      <3>0. /\ bankSupply' = [bankSupply EXCEPT ![d] = @ + a] /\ escrow' = escrow
            /\ balances' = [balances EXCEPT ![x][d] = @ + a]
        BY <2>5, OneCoinClaimIncoming DEF ClaimIncoming
      <3> HIDE DEF d, a, x
      <3>1. /\ \A u \in Users, e \in Denoms : u # x \/ e # d => balances'[u][e] = balances[u][e]
            /\ \A e \in Denoms \ {d} : bankSupply'[e] = bankSupply[e]
            /\ escrow' = escrow
            /\ balances'[x][d] = balances[x][d] + a /\ bankSupply'[d] = bankSupply[d] + a
        BY <2>3, <3>0 DEF TypeOK, LedgerTypeOK
      <3>2. bankSupply'[d] - bankSupply[d]
               = (escrow'[d] - escrow[d]) + (balances'[x][d] - balances[x][d])
        BY <2>3, <2>4, <3>1
      <3> QED  BY <2>3, <3>1, <3>2, BalancedStep
    <2>6. CASE ClaimOutgoing(id, number)
      <3>0. /\ bankSupply' = [bankSupply EXCEPT ![d] = @ - a] /\ balances' = balances
            /\ escrow' = [escrow EXCEPT ![d] = @ - a]
        BY <2>6, OneCoinClaimOutgoing DEF ClaimOutgoing
      <3> HIDE DEF d, a, x
      <3>1. /\ balances' = balances
            /\ \A e \in Denoms \ {d} : escrow'[e] = escrow[e] /\ bankSupply'[e] = bankSupply[e]
            /\ escrow'[d] = escrow[d] - a /\ bankSupply'[d] = bankSupply[d] - a
        BY <2>3, <3>0 DEF TypeOK, LedgerTypeOK
      <3>2. bankSupply'[d] - bankSupply[d]
               = (escrow'[d] - escrow[d]) + (balances'[x][d] - balances[x][d])
        BY <2>3, <2>4, <3>1
      <3> QED  BY <2>3, <3>1, <3>2, BalancedStep
    <2> QED  BY <2>1, <2>5, <2>6
  <1>3. CASE Refund
    <2>1. PICK id \in SwapIDs : RefundIncoming(id) \/ RefundOutgoing(id)  BY <1>3 DEF Refund
    <2>2. CASE RefundIncoming(id)  BY <2>2, SameCoins DEF RefundIncoming
    <2>3. CASE RefundOutgoing(id)
      <3> DEFINE d == swaps[id].denom
                 a == swaps[id].amount
                 x == id.sender
      <3>1. swaps[id].status # "NULL"  BY <2>3 DEF RefundOutgoing, IsRefundable
      <3>2. d \in Denoms /\ a \in Nat /\ x \in Users  BY <3>1, SettledSwapFields
      <3>3. balances[x][d] \in Nat /\ escrow[d] \in Nat /\ bankSupply[d] \in Nat
        BY <3>2 DEF TypeOK, LedgerTypeOK
      <3>0. /\ escrow' = [escrow EXCEPT ![d] = @ - a] /\ bankSupply' = bankSupply
            /\ balances' = [balances EXCEPT ![x][d] = @ + a]
        BY <2>3, OneCoinRefundOutgoing DEF RefundOutgoing
      <3> HIDE DEF d, a, x
      <3>4. /\ \A u \in Users, e \in Denoms : u # x \/ e # d => balances'[u][e] = balances[u][e]
            /\ \A e \in Denoms \ {d} : escrow'[e] = escrow[e]
            /\ bankSupply' = bankSupply
            /\ balances'[x][d] = balances[x][d] + a /\ escrow'[d] = escrow[d] - a
        BY <3>0, <3>2 DEF TypeOK, LedgerTypeOK
      <3>5. bankSupply'[d] - bankSupply[d]
               = (escrow'[d] - escrow[d]) + (balances'[x][d] - balances[x][d])
        BY <3>2, <3>3, <3>4
      <3> QED  BY <3>2, <3>4, <3>5, BalancedStep
    <2> QED  BY <2>1, <2>2, <2>3
  <1>4. CASE NextBlock  BY <1>4, SameCoins DEF NextBlock, BeginBlock
  <1>5. CASE Govern  BY <1>5, SameCoins DEF Govern, SetParams
  <1>6. CASE UNCHANGED vars  BY <1>6, SameCoins DEF vars
  <1> QED  BY <1>1, <1>2, <1>3, <1>4, <1>5, <1>6 DEF Next, FixedNext

(* The coins are accounted for in every reachable state. *)
LEMMA SpecCoins ==
    ASSUME IsFiniteSet(Users)
    PROVE  Spec => []CoinsAccounted
  <1>1. TypeOK /\ TypeOK' /\ OneCoinSwaps /\ CoinsAccounted /\ [Next]_vars => CoinsAccounted'
    BY NextCoins
  <1> QED  BY <1>1, InitCoins, TypeCorrect, SpecOneCoin, PTL DEF Spec

(* The bank has at least what the module holds in escrow.                  *)
LEMMA EscrowWithinBank ==
    ASSUME TypeOK, IsFiniteSet(Users), BankCountsBalances, CoinsAccounted, NEW d \in Denoms
    PROVE  escrow[d] <= bankSupply[d]
  <1>1. balances \in BalanceSheets /\ GenesisBalances \in BalanceSheets
    BY GenesisAssumption DEF TypeOK, LedgerTypeOK, BalanceSheets
  <1>2. HeldIn(balances, d) \in Nat /\ HeldIn(GenesisBalances, d) \in Nat  BY <1>1, HeldNat
  <1>3. bankSupply[d] \in Nat /\ escrow[d] \in Nat /\ GenesisBankSupply[d] \in Nat
    BY GenesisAssumption DEF TypeOK, LedgerTypeOK
  <1>4. bankSupply[d] - escrow[d] - HeldIn(balances, d) = GenesisBankSupply[d] - HeldIn(GenesisBalances, d)
    BY DEF CoinsAccounted
  <1>5. HeldIn(GenesisBalances, d) <= GenesisBankSupply[d]  BY DEF BankCountsBalances
  <1> QED  BY <1>2, <1>3, <1>4, <1>5

-------------------------------------------------------------------------------
(* What is owed can be paid.                                               *)

(* Every unsettled swap is within its denom's supplies, whose record exists. *)
LEMMA LiveSwapCovered ==
    ASSUME TypeOK, NEW further \in Leftovers, SumsBeside(further), NEW id \in SwapIDs, IsLive(swaps[id])
    PROVE  LET d == swaps[id].denom
               a == swaps[id].amount
           IN  /\ d \in Denoms /\ a \in Nat /\ a > 0 /\ supplies[d].found
               /\ supplies[d].incoming \in Nat /\ supplies[d].outgoing \in Nat
               /\ swaps[id].direction = "Incoming" => a <= supplies[d].incoming
               /\ swaps[id].direction = "Outgoing" => a <= supplies[d].outgoing
  <1> DEFINE d == swaps[id].denom
             a == swaps[id].amount
             r == swaps[id].direction
             L == LiveSwaps(swaps, d, r)
  <1>1. swaps \in Stores /\ IsFiniteSet(StoredIn(swaps)) /\ swaps[id].status # "NULL"
    BY DEF TypeOK, StoreTypeOK, Stores, SumsBeside, FiniteStore, IsLive
  <1>2. d \in Denoms /\ r \in {"Incoming", "Outgoing"}
    <2>1. swaps[id] \in Swap  BY <1>1, LiveSwapFields
    <2> QED  BY <2>1 DEF Swap
  <1>3. a \in Nat /\ a > 0  BY <1>1, LiveSwapFields
  <1>4. id \in L  BY DEF LiveSwaps
  <1>5. IsFiniteSet(L) /\ \A i \in L : swaps[i].amount \in Nat  BY <1>1, LiveSwapsFinite
  <1>6. a <= TotalAmount(swaps, L)
    <2> HIDE DEF L
    <2> QED  BY <1>4, <1>5, AmountsNat
  <1>7. a <= LiveAmount(d, r) /\ LiveAmount(d, r) \in Nat
    BY <1>1, <1>6, LiveAmountNat DEF LiveAmount
  <1>8. /\ supplies[d].incoming = LiveAmount(d, "Incoming") + further["Incoming"][d]
        /\ supplies[d].outgoing = LiveAmount(d, "Outgoing") + further["Outgoing"][d]
        /\ further["Incoming"][d] \in Nat /\ further["Outgoing"][d] \in Nat
        /\ ~ supplies[d].found => supplies[d].incoming = 0 /\ supplies[d].outgoing = 0
    BY <1>2 DEF SumsBeside, SuppliesExceed, AbsentReservesNothing, Leftovers, CoinAmounts
  <1>9. supplies[d].incoming \in Nat /\ supplies[d].outgoing \in Nat
    <2>1. supplies[d] \in SupplyRecord  BY <1>2 DEF TypeOK, LedgerTypeOK
    <2> QED  BY <2>1 DEF SupplyRecord
  <1> HIDE DEF d, a, r, L
  <1>10. /\ r = "Incoming" => a <= supplies[d].incoming
         /\ r = "Outgoing" => a <= supplies[d].outgoing
    BY <1>3, <1>7, <1>8
  <1>11. supplies[d].found  BY <1>2, <1>3, <1>8, <1>10
  <1> QED  BY <1>2, <1>3, <1>9, <1>10, <1>11 DEF d, a, r

(* Supplies that are sums, an escrow that is the outgoing supply and a bank that has it. *)
LEMMA CoveredSwapsCanLeave ==
    ASSUME TypeOK, OneCoinSwaps, SumInv, LedgerInv, IsFiniteSet(Users), BankCountsBalances, CoinsAccounted
    PROVE  EscrowedCoinsCanLeave
  <1> SUFFICES ASSUME NEW id \in SwapIDs, IsLive(swaps[id])
               PROVE  LET d == swaps[id].denom
                          a == swaps[id].amount
                      IN  /\ swaps[id].direction = "Incoming" => CanDecrementIncoming(supplies[d], a)
                          /\ swaps[id].direction = "Outgoing" => CanRelease(swaps[id]) /\ CanBurn(swaps[id])
    BY DEF EscrowedCoinsCanLeave, IsRefundable, IsClaimable, IsLive
  <1> DEFINE d == swaps[id].denom
             a == swaps[id].amount
             s == supplies[d]
  <1>1. /\ d \in Denoms /\ a \in Nat /\ s.found /\ s.incoming \in Nat /\ s.outgoing \in Nat
        /\ swaps[id].direction = "Incoming" => a <= s.incoming
        /\ swaps[id].direction = "Outgoing" => a <= s.outgoing
    BY SumsAlone, LiveSwapCovered
  <1>2. s \in SupplyRecord  BY <1>1 DEF TypeOK, LedgerTypeOK
  <1> HIDE DEF d, a
  <1>3. s.current \in Nat /\ escrow[d] \in Nat /\ bankSupply[d] \in Nat
    BY <1>1, <1>2 DEF SupplyRecord, TypeOK, LedgerTypeOK
  <1>4. escrow[d] = s.outgoing /\ s.outgoing <= s.current
    BY <1>1 DEF LedgerInv, EscrowBacksOutgoing, OutgoingWithinCurrent
  <1>5. escrow[d] <= bankSupply[d]  BY <1>1, EscrowWithinBank
  <1>6. /\ DecrementOutgoing(s, a).found = s.found
        /\ DecrementOutgoing(s, a).current = s.current
    BY <1>2 DEF DecrementOutgoing, SupplyRecord
  <1> HIDE DEF s
  <1>7. swaps[id].direction = "Incoming" => CanDecrementIncoming(s, a)
    BY <1>1 DEF CanDecrementIncoming
  <1>8. swaps[id].direction = "Outgoing" => a <= escrow[d] /\ CanDecrementOutgoing(s, a)
    BY <1>1, <1>4 DEF CanDecrementOutgoing
  <1>9. swaps[id].direction = "Outgoing" => CanDecrementCurrent(DecrementOutgoing(s, a), a)
    BY <1>1, <1>3, <1>4, <1>6 DEF CanDecrementCurrent
  <1>10. swaps[id].direction = "Outgoing" => a <= bankSupply[d]
    BY <1>1, <1>3, <1>5, <1>8
  <1>11. swaps[id].others = NoCoins /\ escrow \in CoinAmounts /\ bankSupply \in CoinAmounts
    BY DEF OneCoinSwaps, IsLive, TypeOK, LedgerTypeOK, CoinAmounts
  <1>12. /\ a <= escrow[d] => Holds(escrow, Coins(swaps[id]))
         /\ a <= bankSupply[d] => Holds(bankSupply, Coins(swaps[id]))
    BY <1>1, <1>11, OneCoinMoved DEF d, a
  <1> QED  BY <1>7, <1>8, <1>9, <1>10, <1>12 DEF CanRelease, CanBurn, d, a, s

(* However governance changes the params, every expired swap can be         *)
(* refunded and every open outgoing swap claimed: no check of the handler,  *)
(* the asset's record or the bank stands in the way.  It is assumed that    *)
(* the bank's genesis counts the coins of its finitely many accounts.       *)
THEOREM CoinsCanLeave ==
    ASSUME IsFiniteSet(Users), BankCountsBalances
    PROVE  Spec => []EscrowedCoinsCanLeave
  <1>1. TypeOK /\ OneCoinSwaps /\ SumInv /\ LedgerInv /\ CoinsAccounted => EscrowedCoinsCanLeave
    BY CoveredSwapsCanLeave
  <1>2. Spec => []CoinsAccounted  BY SpecCoins
  <1> QED  BY <1>1, <1>2, TypeCorrect, SpecOneCoin, SpecSums, SpecLedger, PTL

-------------------------------------------------------------------------------
(* What is reserved can be minted, while the params stay as they are.       *)

(* A step that leaves the params alone is a step. *)
LEMMA FixedStep == [FixedNext]_vars => [Next]_vars
  BY DEF Next

(* A chain whose params stay as they are is a chain.                        *)
LEMMA FixedIsSpec == FixedSpec => Spec
  BY FixedStep, PTL DEF FixedSpec, Spec

\* No swap is stored of an asset that the params do not list or have paused.
SwapsOfLiveAssets ==
    \A id \in SwapIDs : swaps[id].status # "NULL" => ValidateLiveAsset(params[swaps[id].denom])

(* Only a live asset's swap is created, and no other step stores a swap or  *)
(* changes the denom of one.                                               *)
LEMMA FixedNextLive ==
    ASSUME TypeOK, IndexInv, SwapsOfLiveAssets, [FixedNext]_vars
    PROVE  SwapsOfLiveAssets'
  <1> SUFFICES ASSUME NEW id \in SwapIDs, swaps'[id].status # "NULL"
               PROVE  ValidateLiveAsset(params'[swaps'[id].denom])
    BY DEF SwapsOfLiveAssets
  <1>1. params' = params
    <2>1. Create => params' = params  BY DEF Create, CreateIncoming, CreateOutgoing
    <2>2. Claim => params' = params  BY DEF Claim, ClaimIncoming, ClaimOutgoing
    <2>3. Refund => params' = params  BY DEF Refund, RefundIncoming, RefundOutgoing
    <2>4. NextBlock => params' = params  BY DEF NextBlock, BeginBlock
    <2> QED  BY <2>1, <2>2, <2>3, <2>4 DEF FixedNext, vars
  <1>2. CASE swaps[id].status = "NULL"
    <2>1. swaps'[id] # swaps[id]  BY <1>2
    <2>2. CASE Create
      <3>1. PICK i \in SwapIDs, recipient \in Users \cup Maccs, d \in Denoms,
                 amount \in Amounts, timestamp \in Timestamps, span \in Spans :
                    \/ CreateIncoming(i, recipient, d, amount, timestamp, span)
                    \/ CreateOutgoing(i, recipient, d, amount, timestamp, span)
        BY <2>2 DEF Create
      <3>2. ValidateLiveAsset(params[d])
        BY <3>1 DEF CreateIncoming, CreateOutgoing, AcceptSwap
      <3>3. \A j \in SwapIDs \ {i} : swaps'[j] = swaps[j]  BY <3>1, CreateLifecycle
      <3>4. i = id  BY <2>1, <3>3
      <3>5. swaps'[id].denom = d
        BY <3>1, <3>4 DEF TypeOK, StoreTypeOK, CreateIncoming, CreateOutgoing, StoreOpenSwap, NewAtomicSwap
      <3> QED  BY <1>1, <3>2, <3>5
    <2>3. CASE ~ Create
      <3>1. CASE NextBlock  BY <1>2, <2>1, <3>1, BeginBlockSwap DEF NextBlock
      <3>2. CASE Claim
        <4>1. PICK i \in SwapIDs, number \in Numbers : ClaimIncoming(i, number) \/ ClaimOutgoing(i, number)
          BY <3>2 DEF Claim
        <4>2. Settles(i, "Open")  BY <4>1 DEF ClaimIncoming, ClaimOutgoing, IsClaimable, Settles
        <4> QED  BY <1>2, <2>1, <4>2, SettledSwap DEF Settles
      <3>3. CASE Refund
        <4>1. PICK i \in SwapIDs : RefundIncoming(i) \/ RefundOutgoing(i)  BY <3>3 DEF Refund
        <4>2. Settles(i, "Expired")  BY <4>1 DEF RefundIncoming, RefundOutgoing, IsRefundable, Settles
        <4> QED  BY <1>2, <2>1, <4>2, SettledSwap DEF Settles
      <3>4. CASE UNCHANGED vars  BY <2>1, <3>4 DEF vars, store
      <3> QED  BY <2>3, <3>1, <3>2, <3>3, <3>4 DEF FixedNext
    <2> QED  BY <2>2, <2>3
  <1>3. CASE swaps[id].status # "NULL"
    <2>1. CASE swaps'[id] = swaps[id]  BY <1>1, <1>3, <2>1 DEF SwapsOfLiveAssets
    <2>2. CASE swaps'[id] # swaps[id]
      <3>1. LifecycleStep(id)  BY <2>2, FixedStep, NextLifecycle
      <3>2. swaps'[id].denom = swaps[id].denom  BY <1>3, <3>1 DEF LifecycleStep, Terms
      <3> QED  BY <1>1, <1>3, <3>2 DEF SwapsOfLiveAssets
    <2> QED  BY <2>1, <2>2
  <1> QED  BY <1>2, <1>3

(* No swap is stored at the start. *)
LEMMA InitLive == Init => SwapsOfLiveAssets
  BY DEF Init, SwapsOfLiveAssets, NoSwap

(* The limits count the reservation of an open swap, so minting it fits.    *)
LEMMA ReservedCanBeMinted ==
    ASSUME TypeOK, SumInv, LimitInv, SwapsOfLiveAssets
    PROVE  ReservationsHold
  <1> SUFFICES ASSUME NEW id \in SwapIDs, IsClaimable(id, "Incoming")
               PROVE  CanMint(swaps[id].denom, swaps[id].amount)
    BY DEF ReservationsHold
  <1> DEFINE d == swaps[id].denom
             a == swaps[id].amount
             s == supplies[d]
             r == DecrementIncoming(s, a)
             p == params[d]
  <1>1. swaps[id].status = "Open" /\ swaps[id].direction = "Incoming" /\ IsLive(swaps[id])
    BY DEF IsClaimable, IsLive
  <1>2. /\ d \in Denoms /\ a \in Nat /\ s.found /\ s.incoming \in Nat /\ a <= s.incoming
    BY <1>1, SumsAlone, LiveSwapCovered
  <1>3. s \in SupplyRecord  BY <1>2 DEF TypeOK, LedgerTypeOK
  <1>4. p.listed  BY <1>1 DEF SwapsOfLiveAssets, ValidateLiveAsset
  <1>5. /\ p.timeLimited \in BOOLEAN /\ p.limit \in Nat /\ p.timeBasedLimit \in Nat
        /\ s.current \in Nat /\ s.timeLimitedCurrent \in Nat
    BY <1>2, ParamFields
  <1>6. /\ s.current + s.incoming <= p.limit
        /\ p.timeLimited => s.timeLimitedCurrent + s.incoming <= p.timeBasedLimit
    BY <1>2, <1>4 DEF LimitInv
  <1> HIDE DEF d, a
  <1>7. /\ r.found = s.found /\ r.current = s.current /\ r.timeLimitedCurrent = s.timeLimitedCurrent
    BY <1>3 DEF DecrementIncoming, SupplyRecord
  <1> HIDE DEF s, r, p
  <1>8. CanDecrementIncoming(s, a)  BY <1>2 DEF CanDecrementIncoming
  <1>9. CanIncrementCurrent(r, p, a)
    BY <1>2, <1>4, <1>5, <1>6, <1>7 DEF CanIncrementCurrent
  <1> QED  BY <1>8, <1>9 DEF CanMint, d, a, s, r, p

(* As long as governance leaves the params alone, the reservation made when *)
(* an incoming swap was created lets it be claimed, whatever was created,   *)
(* claimed, expired or refunded since and wherever the time window was reset.*)
THEOREM ReservationsKept ==
    ASSUME GenesisWithinWindow
    PROVE  FixedSpec => []ReservationsHold
  <1>1. Init => LimitInv  BY InitLimit
  <1>2. FixedSpec => []LimitInv  BY <1>1, FixedNextLimit, FixedTypeCorrect, PTL DEF FixedSpec
  <1>3. TypeOK /\ IndexInv /\ SwapsOfLiveAssets /\ [FixedNext]_vars => SwapsOfLiveAssets'  BY FixedNextLive
  <1>4. FixedSpec => []IndexInv /\ []SumInv  BY FixedIsSpec, SpecIndex, SpecSums, PTL
  <1>5. FixedSpec => []SwapsOfLiveAssets
    BY <1>3, <1>4, InitLive, FixedTypeCorrect, PTL DEF FixedSpec
  <1>6. TypeOK /\ SumInv /\ LimitInv /\ SwapsOfLiveAssets => ReservationsHold  BY ReservedCanBeMinted
  <1> QED  BY <1>2, <1>4, <1>5, <1>6, FixedTypeCorrect, PTL

-------------------------------------------------------------------------------
(* Payments are for swaps.                                                  *)

\* The coins a user gains in a step are those of the swaps the step settles in
\* the user's favour, less those of the swaps the user opens.
Paid(u, d) ==
    balances'[u][d] - balances[u][d] =
        TotalAmount(swaps, Credits(u, d)) - TotalAmount(swaps', Debits(u, d))

(* A step that neither opens nor settles a swap owes nobody anything.       *)
LEMMA NothingOwed ==
    ASSUME TypeOK, balances' = balances, NEW u \in Users, NEW d \in Denoms,
           \A i \in SwapIDs : \/ swaps'[i] = swaps[i]
                              \/ swaps[i].status = "Open" /\ swaps'[i].status = "Expired"
                              \/ swaps[i].status = "Completed" /\ swaps'[i].status = "NULL"
    PROVE  Paid(u, d)
  <1>1. Credits(u, d) = {} /\ Debits(u, d) = {}  BY DEF Credits, Debits, IsLive
  <1>2. balances[u][d] \in Nat  BY DEF TypeOK, LedgerTypeOK
  <1> QED  BY <1>1, <1>2, NoAmounts DEF Paid

(* A step that opens one swap owes nobody; its sender pays if it is outgoing. *)
LEMMA OpenedOwes ==
    ASSUME NEW id \in SwapIDs, swaps[id].status = "NULL", swaps'[id].status = "Open",
           \A i \in SwapIDs \ {id} : swaps'[i] = swaps[i], swaps'[id].amount \in Nat,
           NEW u, NEW d
    PROVE  /\ TotalAmount(swaps, Credits(u, d)) = 0
           /\ TotalAmount(swaps', Debits(u, d)) =
                IF swaps'[id].direction = "Outgoing" /\ id.sender = u /\ swaps'[id].denom = d
                  THEN swaps'[id].amount ELSE 0
  <1>1. Credits(u, d) = {}  BY DEF Credits, IsLive
  <1>2. Debits(u, d) = IF swaps'[id].direction = "Outgoing" /\ id.sender = u /\ swaps'[id].denom = d
                         THEN {id} ELSE {}
    BY DEF Debits
  <1> QED  BY <1>1, <1>2, NoAmounts

(* A step that settles one swap owes it to the recipient of an open incoming *)
(* one or to the sender of an expired outgoing one; nobody pays.            *)
LEMMA SettledOwes ==
    ASSUME TypeOK, NEW id \in SwapIDs, NEW status \in {"Open", "Expired"}, Settles(id, status),
           NEW u, NEW d
    PROVE  /\ TotalAmount(swaps', Debits(u, d)) = 0
           /\ TotalAmount(swaps, Credits(u, d)) =
                IF /\ swaps[id].denom = d
                   /\ \/ status = "Open" /\ swaps[id].direction = "Incoming" /\ swaps[id].recipient = u
                      \/ status = "Expired" /\ swaps[id].direction = "Outgoing" /\ id.sender = u
                  THEN swaps[id].amount ELSE 0
  <1>1. /\ swaps[id].status = status /\ swaps'[id].status = "Completed"
        /\ \A i \in SwapIDs \ {id} : swaps'[i] = swaps[i]
    BY SettledSwap DEF Settles
  <1>2. swaps[id].amount \in Nat  BY <1>1, SettledSwapFields
  <1>3. Debits(u, d) = {}  BY <1>1 DEF Debits
  <1>4. Credits(u, d) =
            IF /\ swaps[id].denom = d
               /\ \/ status = "Open" /\ swaps[id].direction = "Incoming" /\ swaps[id].recipient = u
                  \/ status = "Expired" /\ swaps[id].direction = "Outgoing" /\ id.sender = u
              THEN {id} ELSE {}
    BY <1>1 DEF Credits, IsLive
  <1> QED  BY <1>2, <1>3, <1>4, NoAmounts

(* Who opens an outgoing swap pays its amount, nobody else pays or is paid. *)
LEMMA CreatePaid ==
    ASSUME TypeOK, NEW id \in SwapIDs, NEW recipient \in Users \cup Maccs, NEW e \in Denoms,
           NEW amount \in Amounts, NEW timestamp \in Timestamps, NEW span \in Spans,
           \/ CreateIncoming(id, recipient, e, amount, timestamp, span)
           \/ CreateOutgoing(id, recipient, e, amount, timestamp, span),
           NEW u \in Users, NEW d \in Denoms
    PROVE  Paid(u, d)
  <1>1. amount \in Nat /\ id.sender \in Users  BY NumbersAssumption DEF SwapIDs
  <1>2. /\ swaps[id].status = "NULL" /\ \A i \in SwapIDs \ {id} : swaps'[i] = swaps[i]
        /\ swaps'[id].status = "Open" /\ swaps'[id].amount = amount /\ swaps'[id].denom = e
    <2>1. swaps[id].status = "NULL"
      BY DEF CreateIncoming, CreateOutgoing, AcceptSwap, IsNewSwap, Stored
    <2>2. \A i \in SwapIDs \ {id} : swaps'[i] = swaps[i]  BY CreateLifecycle
    <2>3. swaps'[id].status = "Open" /\ swaps'[id].amount = amount /\ swaps'[id].denom = e
      BY DEF CreateIncoming, CreateOutgoing, StoreOpenSwap, NewAtomicSwap, TypeOK, StoreTypeOK
    <2> QED  BY <2>1, <2>2, <2>3
  <1>3. balances[u][d] \in Nat  BY DEF TypeOK, LedgerTypeOK
  <1>4. /\ TotalAmount(swaps, Credits(u, d)) = 0
        /\ TotalAmount(swaps', Debits(u, d)) =
              IF swaps'[id].direction = "Outgoing" /\ id.sender = u /\ e = d THEN amount ELSE 0
    BY <1>1, <1>2, OpenedOwes
  <1>5. CASE CreateIncoming(id, recipient, e, amount, timestamp, span)
    <2>1. swaps'[id].direction = "Incoming"
      BY <1>5 DEF CreateIncoming, StoreOpenSwap, NewAtomicSwap, TypeOK, StoreTypeOK
    <2>2. balances' = balances  BY <1>5 DEF CreateIncoming, bank
    <2> QED  BY <1>3, <1>4, <2>1, <2>2 DEF Paid
  <1>6. CASE CreateOutgoing(id, recipient, e, amount, timestamp, span)
    <2>1. swaps'[id].direction = "Outgoing"
      BY <1>6 DEF CreateOutgoing, StoreOpenSwap, NewAtomicSwap, TypeOK, StoreTypeOK
    <2>2. balances'[u][d] = IF id.sender = u /\ e = d THEN balances[u][d] - amount ELSE balances[u][d]
      BY <1>6 DEF CreateOutgoing, TypeOK, LedgerTypeOK
    <2> QED  BY <1>1, <1>3, <1>4, <2>1, <2>2 DEF Paid
  <1> QED  BY <1>5, <1>6

(* Who a settled swap belongs to is paid its amount, nobody else. *)
LEMMA SettlePaid ==
    ASSUME TypeOK, OneCoinSwaps, NEW id \in SwapIDs,
           \/ \E number \in Numbers : ClaimIncoming(id, number) \/ ClaimOutgoing(id, number)
           \/ RefundIncoming(id) \/ RefundOutgoing(id),
           NEW u \in Users, NEW d \in Denoms
    PROVE  Paid(u, d)
  <1> DEFINE e == swaps[id].denom
             a == swaps[id].amount
             x == swaps[id].recipient
  <1>1. swaps[id].status # "NULL"
    BY DEF ClaimIncoming, ClaimOutgoing, IsClaimable, RefundIncoming, RefundOutgoing, IsRefundable
  <1>2. e \in Denoms /\ a \in Nat /\ x \in Users /\ id.sender \in Users  BY <1>1, SettledSwapFields DEF SwapIDs
  <1>3. balances[u][d] \in Nat  BY DEF TypeOK, LedgerTypeOK
  <1>4. CASE \E number \in Numbers : ClaimIncoming(id, number) \/ ClaimOutgoing(id, number)
    <2>1. PICK number \in Numbers : ClaimIncoming(id, number) \/ ClaimOutgoing(id, number)  BY <1>4
    <2>2. Settles(id, "Open")  BY <2>1 DEF ClaimIncoming, ClaimOutgoing, IsClaimable, Settles
    <2>3. /\ TotalAmount(swaps', Debits(u, d)) = 0
          /\ TotalAmount(swaps, Credits(u, d)) =
                IF e = d /\ swaps[id].direction = "Incoming" /\ x = u THEN a ELSE 0
      BY <2>2, SettledOwes
    <2>4. CASE ClaimIncoming(id, number)
      <3>1. swaps[id].direction = "Incoming"  BY <2>4 DEF ClaimIncoming, IsClaimable
      <3>2. balances' = [balances EXCEPT ![x][e] = @ + a]  BY <2>4, OneCoinClaimIncoming
      <3> HIDE DEF e, a, x
      <3>3. balances'[u][d] = IF e = d /\ x = u THEN balances[u][d] + a ELSE balances[u][d]
        BY <1>2, <3>2 DEF TypeOK, LedgerTypeOK
      <3> QED  BY <1>2, <1>3, <2>3, <3>1, <3>3 DEF Paid
    <2>5. CASE ClaimOutgoing(id, number)
      <3>1. swaps[id].direction = "Outgoing" /\ balances' = balances
        BY <2>5 DEF ClaimOutgoing, IsClaimable
      <3> HIDE DEF e, a, x
      <3> QED  BY <1>3, <2>3, <3>1 DEF Paid
    <2> QED  BY <2>1, <2>4, <2>5
  <1>5. CASE RefundIncoming(id) \/ RefundOutgoing(id)
    <2>1. Settles(id, "Expired")  BY <1>5 DEF RefundIncoming, RefundOutgoing, IsRefundable, Settles
    <2>2. /\ TotalAmount(swaps', Debits(u, d)) = 0
          /\ TotalAmount(swaps, Credits(u, d)) =
                IF e = d /\ swaps[id].direction = "Outgoing" /\ id.sender = u THEN a ELSE 0
      BY <2>1, SettledOwes
    <2>3. CASE RefundIncoming(id)
      <3>1. swaps[id].direction = "Incoming" /\ balances' = balances
        BY <2>3 DEF RefundIncoming, IsRefundable, bank
      <3> HIDE DEF e, a, x
      <3> QED  BY <1>3, <2>2, <3>1 DEF Paid
    <2>4. CASE RefundOutgoing(id)
      <3>1. swaps[id].direction = "Outgoing"  BY <2>4 DEF RefundOutgoing, IsRefundable
      <3>2. balances' = [balances EXCEPT ![id.sender][e] = @ + a]  BY <2>4, OneCoinRefundOutgoing
      <3> HIDE DEF e, a, x
      <3>3. balances'[u][d] = IF e = d /\ id.sender = u THEN balances[u][d] + a ELSE balances[u][d]
        BY <1>2, <3>2 DEF TypeOK, LedgerTypeOK
      <3> QED  BY <1>2, <1>3, <2>2, <3>1, <3>3 DEF Paid
    <2> QED  BY <1>5, <2>3, <2>4
  <1> QED  BY <1>4, <1>5

(* Every step pays what it settles. *)
LEMMA NextPaid ==
    ASSUME TypeOK, OneCoinSwaps, IndexInv, [Next]_vars, NEW u \in Users, NEW d \in Denoms
    PROVE  Paid(u, d)
  <1>1. CASE Create  BY <1>1, CreatePaid DEF Create
  <1>2. CASE Claim  BY <1>2, SettlePaid DEF Claim
  <1>3. CASE Refund  BY <1>3, SettlePaid DEF Refund
  <1>4. CASE NextBlock
    <2>1. PICK step \in Steps : BeginBlock(step)  BY <1>4 DEF NextBlock
    <2>2. ASSUME NEW i \in SwapIDs
          PROVE  \/ swaps'[i] = swaps[i]
                 \/ swaps[i].status = "Open" /\ swaps'[i].status = "Expired"
                 \/ swaps[i].status = "Completed" /\ swaps'[i].status = "NULL"
      <3>1. swaps[i].status \in {"NULL", "Open", "Completed", "Expired"}
        BY DEF TypeOK, StoreTypeOK, Swap, NoSwap
      <3> QED  BY <2>1, <3>1, BeginBlockSwap
    <2>3. balances' = balances  BY <2>1 DEF BeginBlock, bank
    <2> QED  BY <2>2, <2>3, NothingOwed
  <1>5. CASE Govern
    <2>1. swaps' = swaps /\ balances' = balances  BY <1>5 DEF Govern, SetParams, store, bank
    <2> QED  BY <2>1, NothingOwed
  <1>6. CASE UNCHANGED vars
    <2>1. swaps' = swaps /\ balances' = balances  BY <1>6 DEF vars, store, bank
    <2> QED  BY <2>1, NothingOwed
  <1> QED  BY <1>1, <1>2, <1>3, <1>4, <1>5, <1>6 DEF Next, FixedNext

(* Whoever sends which messages, a user's coins move only by the escrow,    *)
(* the refund and the payout of swaps that change status in that very step, *)
(* each to the full amount and to the party it belongs to.                  *)
THEOREM PaymentsSettled == Spec => PaymentsSettleSwaps
  <1>1. TypeOK /\ OneCoinSwaps /\ IndexInv /\ [Next]_vars =>
           [\A u \in Users, d \in Denoms :
               balances'[u][d] - balances[u][d] =
                   TotalAmount(swaps, Credits(u, d)) - TotalAmount(swaps', Debits(u, d))]_vars
    BY NextPaid DEF Paid
  <1> QED  BY <1>1, TypeCorrect, SpecOneCoin, SpecIndex, PTL DEF Spec, PaymentsSettleSwaps

===============================================================================
